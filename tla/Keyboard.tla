------------------------------ MODULE Keyboard ------------------------------
(***************************************************************************)
(* A key from the page to the simulated keyboard: keydown in main.js sends *)
(* a request of its own for each character, the controller keeps the last  *)
(* one with a number (setKey), and the simulator asks for it before every  *)
(* clock step (queryKeyboard).  The n-th character typed is the number n.  *)
(***************************************************************************)
EXTENDS Integers

CONSTANT MaxKeys   \* bound: characters typed

ASSUME KeyboardAssumption == MaxKeys \in Nat

VARIABLES
  keyboard_enabled,   \* as the switch shows it
  typed,              \* characters typed with the keyboard enabled
  requests,           \* on the way to the controller, in any order
  handling,           \* setKeys that read the number in key and did not write yet
  key,                \* the controller's number and character; 0 is no character
  next_key,           \* the number the simulator saw last
  keyboard_data,      \* the last character it took
  taken,              \* history: all of them
  raced               \* history: two setKeys, or a setKey and a start, overlapped

keyboard == <<keyboard_enabled, typed, requests, handling, key, next_key,
              keyboard_data, taken, raced>>

KeyboardInit ==
  /\ keyboard_enabled = FALSE
  /\ typed = 0 /\ requests = {} /\ handling = {}
  /\ key = [index |-> 0, char |-> 0] /\ next_key = 0
  /\ keyboard_data = 0 /\ taken = {} /\ raced = FALSE

toggleKeyboard ==
  /\ keyboard_enabled' = ~keyboard_enabled
  /\ UNCHANGED <<typed, requests, handling, key, next_key, keyboard_data, taken, raced>>

(* An allowed character outside of the two number fields.                  *)
keydown ==
  /\ keyboard_enabled /\ typed < MaxKeys
  /\ typed' = typed + 1
  /\ requests' = requests \cup {typed + 1}
  /\ UNCHANGED <<keyboard_enabled, handling, key, next_key, keyboard_data, taken, raced>>

(* key = (key._1 + 1, character), on any thread of the server and without  *)
(* a lock: the number is read first.                                       *)
setKeyReads(c) ==
  /\ requests' = requests \ {c}
  /\ raced' = (raced \/ handling # {})
  /\ handling' = handling \cup {[index |-> key.index + 1, char |-> c]}
  /\ UNCHANGED <<keyboard_enabled, typed, key, next_key, keyboard_data, taken>>

setKeyWrites(k) ==
  /\ key' = k
  /\ handling' = handling \ {k}
  /\ UNCHANGED <<keyboard_enabled, typed, requests, next_key, keyboard_data, taken, raced>>

(* A character is new if its number is higher than that of the last one.   *)
IsNewer == next_key + 1 < key.index   \* mutant: off by one
IsNew == next_key < key.index

queryKeyboard ==
  /\ keyboard_data' = IF IsNew THEN key.char ELSE keyboard_data
  /\ taken' = IF IsNew THEN taken \cup {key.char} ELSE taken
  /\ next_key' = key.index
  /\ UNCHANGED <<keyboard_enabled, typed, requests, handling, key, raced>>

(* startSimulation and the new state of the simulator: no key.             *)
NoKey == [index |-> 0, char |-> 0]
KeepKey ==   \* mutant: the simulator starts anew, the controller does not
  /\ next_key' = 0 /\ keyboard_data' = 0
  /\ raced' = (raced \/ handling # {})
  /\ UNCHANGED <<keyboard_enabled, typed, requests, handling, key, taken>>
forgetKey ==
  /\ key' = NoKey /\ next_key' = 0 /\ keyboard_data' = 0
  /\ raced' = (raced \/ handling # {})
  /\ UNCHANGED <<keyboard_enabled, typed, requests, handling, taken>>

(* processInitialState on the page.                                        *)
disableKeyboard ==
  /\ keyboard_enabled' = FALSE
  /\ UNCHANGED <<typed, requests, handling, key, next_key, keyboard_data, taken, raced>>
=============================================================================
