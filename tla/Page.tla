-------------------------------- MODULE Page --------------------------------
(***************************************************************************)
(* The page of the simulator: source code tabs, memory window and keyboard *)
(* share the messages that come in (webhook.js) and the redraws they cause *)
(* (drawUI, updateUI of ui.js), between any two clicks of the user.        *)
(***************************************************************************)
EXTENDS Tabs, MemoryWindow, Keyboard

CONSTANTS
  Bases,        \* addresses entered by the user, or NaN
  Stores,       \* words the program writes
  MaxRuns,      \* bound: starts of a simulation
  MaxCallbacks  \* bound: clicks on a tab while its pane has callbacks to run

ASSUME PageAssumption ==
  /\ Bases \subseteq Int \cup {NaN} /\ Stores \subseteq Addresses
  /\ MaxRuns \in Nat /\ MaxCallbacks \in Nat

VARIABLES
  content,      \* the content is displayed: there is a state
  starting,     \* startSimulation has told the page, and not yet reset the key
  announced,    \* INITIAL-STATE is on its way
  runs

vars == <<tabs, window, keyboard, content, starting, announced, runs>>

Init ==
  /\ TabsInit /\ WindowInit /\ KeyboardInit
  /\ content = FALSE /\ starting = FALSE /\ announced = FALSE /\ runs = 0

-----------------------------------------------------------------------------
(* The controller and the simulator.                                       *)

startSimulation ==
  /\ ~starting /\ ~announced /\ runs < MaxRuns
  /\ starting' = TRUE /\ announced' = TRUE /\ runs' = runs + 1
  /\ UNCHANGED <<tabs, window, keyboard, content>>

resetKey ==
  /\ starting /\ starting' = FALSE
  /\ forgetKey
  /\ UNCHANGED <<tabs, window, content, announced, runs>>

Elsewhere == UNCHANGED <<tabs, window, content, starting, announced, runs>>

SetKeyReads == \E c \in requests : setKeyReads(c) /\ Elsewhere
SetKeyWrites == \E k \in handling : setKeyWrites(k) /\ Elsewhere

(* The simulator waits for the answer to startSimulation.                  *)
QueryKeyboard == runs > 0 /\ ~starting /\ queryKeyboard /\ Elsewhere

-----------------------------------------------------------------------------
(* Messages.                                                               *)

InitialState(name) ==
  /\ announced /\ announced' = FALSE
  /\ disableKeyboard /\ drawSourceCode(name) /\ newMemory
  /\ content' = TRUE
  /\ UNCHANGED <<starting, runs>>

(* An update that is applied, as it comes or by a step of the user, or     *)
(* taken back.                                                             *)
Update(name, a, v) ==
  /\ content
  /\ setActiveSourceCodeTab(name) /\ updateMemoryValue(a, v)
  /\ UNCHANGED <<keyboard, content, starting, announced, runs>>

(* An error hides the content as it is.                                    *)
processError ==
  /\ content /\ content' = FALSE
  /\ UNCHANGED <<tabs, window, keyboard, starting, announced, runs>>

-----------------------------------------------------------------------------
(* The user and the browser.                                               *)

ClickTab(p) ==
  /\ content /\ show(p)
  /\ \A q \in Programs : Len(callbacks[q]) < MaxCallbacks
  /\ UNCHANGED <<window, keyboard, content, starting, announced, runs>>

TransitionEnd(p) ==
  /\ transitionend(p)
  /\ UNCHANGED <<window, keyboard, content, starting, announced, runs>>

MoveWindow ==
  /\ content
  /\ stepMemBack \/ stepMemForward \/ \E b \in Bases : storeBase(b)
  /\ UNCHANGED <<tabs, keyboard, content, starting, announced, runs>>

Keydown == keydown /\ Elsewhere
ToggleKeyboard == content /\ toggleKeyboard /\ Elsewhere

Server == startSimulation \/ resetKey \/ SetKeyReads \/ SetKeyWrites \/ QueryKeyboard

Message ==
  \/ \E name \in Names : InitialState(name)
  \/ \E name \in Names, a \in Stores, v \in Values : Update(name, a, v)
  \/ processError

User == (\E p \in Programs : ClickTab(p)) \/ MoveWindow \/ Keydown \/ ToggleKeyboard

Next == Server \/ Message \/ User \/ \E p \in Programs : TransitionEnd(p)

Spec == Init /\ [][Next]_vars

-----------------------------------------------------------------------------
(* Properties.                                                             *)

TypeOK ==
  /\ pc \in Names /\ previous_active_tab \in Names \cup {""}
  /\ active \subseteq Programs /\ icon \subseteq Programs
  /\ paneActive \subseteq Programs /\ paneShow \subseteq Programs
  /\ callbacks \in [Programs -> Seq({"show", "hide"})] /\ met \in BOOLEAN
  /\ memory \in [Addresses -> Values]
  /\ memory_base_address \in Nat \cup {NaN}
  /\ cells \in [Offsets -> Values]
  /\ keyboard_enabled \in BOOLEAN /\ raced \in BOOLEAN
  /\ typed \in 0..MaxKeys /\ requests \subseteq 1..typed /\ taken \subseteq 1..typed
  /\ key \in [index : 0..MaxKeys, char : 0..typed]
  /\ handling \subseteq [index : 1..MaxKeys, char : 1..typed]
  /\ next_key \in 0..MaxKeys /\ keyboard_data \in 0..typed
  /\ content \in BOOLEAN /\ starting \in BOOLEAN /\ announced \in BOOLEAN
  /\ runs \in 0..MaxRuns

(* One tab is selected and its pane is the one displayed, opaque once the  *)
(* transitions are over, whoever selected it, unless the pc changed tabs   *)
(* in the middle of a transition.                                          *)
TabAndPaneAgree ==
  ~met => /\ active = paneActive
          /\ \A p, q \in active : p = q
          /\ ~Pending => paneShow = paneActive

(* The window shows the words of memory at its base, and no base the user  *)
(* reaches by whole pages is outside of memory.                            *)
WindowShowsMemory ==
  memory_base_address # NaN =>
    /\ memory_base_address % Size = 0 => memory_base_address \in 0..Last
    /\ \A o \in Offsets : memory_base_address + o \in Addresses =>
         cells[o] = memory[memory_base_address + o]

(* No character is given to the simulated keyboard twice.                  *)
KeyTakenOnce == runs > 0 /\ ~starting /\ IsNew => key.char \notin taken

(* The character the controller holds was taken or will be: no number      *)
(* makes it look old, unless two requests were handled at a time.          *)
KeyNotHidden == ~raced /\ key.char # 0 => IsNew \/ key.char \in taken
=============================================================================
