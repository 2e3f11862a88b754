---------------------------- MODULE MemoryWindow ----------------------------
(***************************************************************************)
(* The window into the simulated memory: its base moves by pages or to any *)
(* address the user enters (storeBase, stepMemBack, stepMemForward), it is *)
(* drawn as a whole (drawMemoryTab), and its words are overwritten one by  *)
(* one when an update comes or is taken back (updateMemoryValue).          *)
(***************************************************************************)
EXTENDS Integers

CONSTANTS
  Size,        \* bytes in the window (0x100)
  Word,        \* bytes in a word (4)
  Last,        \* the highest base (0xffffff00)
  Values,      \* words; 0 is one that was never written
  NaN          \* what parseInt makes of something else

ASSUME MemoryWindowAssumption ==
  /\ Word \in Nat \ {0} /\ Size \in Nat \ {0} /\ Last \in Nat
  /\ Size % Word = 0 /\ Last % Size = 0
  /\ 0 \in Values /\ NaN \notin Int

VARIABLES
  memory,               \* current_state.memory
  memory_base_address,
  cells                 \* the words in the window, by their offsets

window == <<memory, memory_base_address, cells>>

Addresses == {Word * i : i \in 0..((Last + Size) \div Word - 1)}
Offsets   == {Word * i : i \in 0..(Size \div Word - 1)}

(* An address that is no word's has no value in memory, and shows as 0.    *)
WordAt(m, a) == IF a \in Addresses THEN m[a] ELSE 0
Drawn(m, base) ==
  [o \in Offsets |-> IF base = NaN THEN 0 ELSE WordAt(m, base + o)]

WindowInit ==
  /\ memory = [a \in Addresses |-> 0]
  /\ memory_base_address = 0
  /\ cells = Drawn(memory, 0)

drawMemoryTab(base) ==
  /\ memory_base_address' = base
  /\ cells' = Drawn(memory, base)
  /\ UNCHANGED memory

(* Comparisons with NaN are false.                                         *)
Clamped(base) ==
  IF base = NaN THEN NaN ELSE IF base < 0 THEN 0 ELSE IF base > Last THEN Last ELSE base

storeBase(base) == drawMemoryTab(Clamped(base))

BackAlways ==   \* mutant: no lower end
  drawMemoryTab(IF memory_base_address # NaN THEN memory_base_address - Size ELSE 0)
stepMemBack ==
  drawMemoryTab(IF memory_base_address # NaN /\ memory_base_address > Size
                  THEN memory_base_address - Size ELSE 0)

CanMoveOn == memory_base_address # NaN /\ memory_base_address < Last
stepMemForward ==
  drawMemoryTab(IF CanMoveOn THEN memory_base_address + Size ELSE Last)

(* The loop over memory_updates of applyUpdate or unApplyUpdate, for one   *)
(* word: its element is found by its address, if the window has it.        *)
ShownAt(a) ==
  {o \in Offsets : memory_base_address # NaN /\ memory_base_address + o = a}

updateMemoryValue(a, v) ==
  /\ memory' = [memory EXCEPT ![a] = v]
  /\ cells' = [o \in Offsets |-> IF o \in ShownAt(a) THEN v ELSE cells[o]]
  /\ UNCHANGED memory_base_address

(* A new state, and drawUI.                                                *)
NotRedrawn ==   \* mutant: the window keeps the words of the old memory
  /\ memory' = [a \in Addresses |-> 0]
  /\ UNCHANGED <<memory_base_address, cells>>
newMemory ==
  /\ memory' = [a \in Addresses |-> 0]
  /\ cells' = Drawn(memory', memory_base_address)
  /\ UNCHANGED memory_base_address
=============================================================================
