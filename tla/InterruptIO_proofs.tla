------------------------- MODULE InterruptIO_proofs -------------------------
(***************************************************************************)
(* The invariant of InterruptIO and the refinement of Echo with one sticky *)
(* and one fragile place, for any number of places and of keys.            *)
(***************************************************************************)
EXTENDS InterruptIO, TLAPS

(* The user program's pc stays in its loop.                                *)
LEMMA CodeCloses ==
  ASSUME NEW pc \in Code
  PROVE  0 \in Code /\ (pc + 1) % Instructions \in Code
BY UserAssumption DEF Code

(* Bytes stay keys or zero.                                                *)
LEMMA StoredType ==
  ASSUME buffer \in [Places -> Keys \cup {Empty}],
         NEW p \in Places, NEW c \in Keys \cup {Empty}
  PROVE  Stored(p, c) \in [Places -> Keys \cup {Empty}]
BY DEF Stored, Merged

(* Of the first two places, the first is written rightly; a zero for the   *)
(* second leaves it and clears the fourth.                                 *)
LEMMA ClearsFirst ==
  ASSUME buffer \in [Places -> Keys \cup {Empty}], 0 \in Places
  PROVE  Stored(0, Empty) = [buffer EXCEPT ![0] = Empty]
<1>1. Offset(0) = 0
  BY DEF Offset
<1>2. LeftOut(0) = {}
  BY <1>1 DEF LeftOut
<1>3. Stored(0, Empty) = [q \in Places |-> IF q = 0 THEN Empty ELSE buffer[q]]
  BY <1>1, <1>2 DEF Stored
<1> QED
  BY <1>3

LEMMA ClearsFourth ==
  ASSUME buffer \in [Places -> Keys \cup {Empty}], 1 \in Places
  PROVE  Stored(1, Empty) = [q \in Places |-> IF q = 3 THEN Empty ELSE buffer[q]]
<1>1. Offset(1) = 1
  BY DEF Offset
<1>2. LeftOut(1) = {3}
  BY <1>1 DEF LeftOut
<1> QED
  BY <1>1, <1>2 DEF Stored, Merged

(* A key that goes to the first free place leaves the other places alone:  *)
(* if there is a place that the store leaves out, it is a later one, and   *)
(* no key can have got there yet.                                          *)
LEMMA FillsOnePlace ==
  ASSUME buffer \in [Places -> Keys \cup {Empty}], NoOtherHole,
         NEW p \in Places, IsFirst(p, Free), NEW c \in Keys
  PROVE  Stored(p, c) = [buffer EXCEPT ![p] = c]
<1>1. c # Empty /\ buffer[p] = Empty /\ p \in Nat
  BY KeysAssumption, CapacityAssumption DEF Keys, Empty, IsFirst, Free, Places
<1>2. ASSUME NEW q \in Places, q \in LeftOut(p)
      PROVE  q # p /\ buffer[q] = Empty
  <2>1. Offset(p) \in {1, 2} /\ q = p - Offset(p) + 3
    BY <1>2 DEF LeftOut
  <2>2. p # 0 /\ p # 3
    BY <2>1 DEF Offset
  <2>3. p < q
    BY <1>1, <2>1
  <2> QED
    BY <1>1, <2>2, <2>3 DEF NoOtherHole
<1> QED
  BY <1>1, <1>2 DEF Stored, Merged

(* Only the first two places are ever the first one taken.                 *)
LEMMA FirstTaken ==
  ASSUME TypeOK, NoOtherHole, IsFirst(place, Places \ Free)
  PROVE  place \in {0, 1}
<1>1. place \in Nat /\ place \in Places /\ buffer[place] # Empty
  BY CapacityAssumption DEF IsFirst, Free, Places, TypeOK
<1> SUFFICES ASSUME place > 1 PROVE FALSE
  BY <1>1
<1>2. 1 \in Places
  BY <1>1, CapacityAssumption DEF Places
<1>3. buffer[1] # Empty
  BY <1>1, <1>2 DEF NoOtherHole
<1>4. 1 \in Places \ Free
  BY <1>2, <1>3 DEF Free
<1> QED
  BY <1>1, <1>4 DEF IsFirst

(* The invariant holds at reset.                                           *)
LEMMA InitIInv == Init => IInv
<1> SUFFICES ASSUME Init PROVE IInv
  OBVIOUS
<1>1. 0 \in Places /\ 0 \in Code
  BY CapacityAssumption, UserAssumption DEF Places, Code
<1>2. 0 \in 0..MaxKeys
  BY KeysAssumption
<1>3. killed \in [pc : Code, ra : Values] /\ ra \in Values /\ saved \in Values
  BY <1>1 DEF Init
<1>4. buffer \in [Places -> Keys \cup {Empty}]
  BY DEF Init
<1>5. TypeOK
  BY <1>1, <1>2, <1>3, <1>4 DEF Init, TypeOK, Empty
<1> QED
  BY <1>5 DEF Init, IInv, NoOtherHole

(* A cycle of the core in the handler leaves the pending bits Booleans.    *)
LEMMA PendType ==
  ASSUME TypeOK, Pend
  PROVE  meip' \in BOOLEAN /\ pulse' \in BOOLEAN
<1>1. meip' = (meip \/ pulse) /\ pulse' = FALSE
  BY DEF Pend
<1> QED
  BY <1>1, Zenon DEF TypeOK

(* A key that arrives is a key.                                            *)
LEMMA ArrivesType ==
  ASSUME TypeOK, Arrives
  PROVE  typed' \in 0..MaxKeys /\ kbdData' \in Keys /\ pulse' = TRUE
BY KeysAssumption DEF TypeOK, Arrives, Keys

(* The devices preserve the invariant.                                     *)
LEMMA DevicesIInv == IInv /\ (Press \/ DisplayReady) => IInv'
<1> SUFFICES ASSUME IInv, Press \/ DisplayReady PROVE IInv'
  OBVIOUS
<1> USE DEF IInv, NoOtherHole, IsFirst, Free
<1>1. CASE Press
  <2>1. typed' \in 0..MaxKeys /\ kbdData' \in Keys /\ pulse' = TRUE /\ kbdReady' = TRUE
    BY <1>1, ArrivesType DEF Press
  <2>2. TypeOK'
    BY <1>1, <2>1 DEF Press, TypeOK, output, core
  <2> QED
    BY <1>1, <2>1, <2>2 DEF Press, output, core
<1>2. CASE DisplayReady
  BY <1>2 DEF DisplayReady, TypeOK, keyboard, core
<1> QED
  BY <1>1, <1>2

(* The boot code and the user program preserve the invariant.              *)
LEMMA UserIInv == IInv /\ (Boot \/ UserExecute \/ Trap) => IInv'
<1> SUFFICES ASSUME IInv, Boot \/ UserExecute \/ Trap PROVE IInv'
  OBVIOUS
<1> USE DEF IInv, NoOtherHole, IsFirst, Free
<1>0. 0 \in Code /\ (upc + 1) % Instructions \in Code
  BY CodeCloses DEF TypeOK
<1>1. CASE Boot
  BY <1>0, <1>1 DEF Boot, Goto, TypeOK, keyboard, output, Stages
<1>2. CASE UserExecute
  BY <1>0, <1>2 DEF UserExecute, TypeOK, keyboard, output
<1>3. CASE Trap
  <2>1. killed' \in [pc : Code, ra : Values]
    BY <1>3 DEF Trap, TypeOK
  <2> QED
    BY <1>3, <2>1 DEF Trap, Goto, TypeOK, keyboard, output, Stages
<1> QED
  BY <1>1, <1>2, <1>3

(* The handler preserves the invariant, part by part.                      *)
LEMMA HandlerIInv == IInv /\ Handler => IInv'
<1> SUFFICES ASSUME IInv, Handler PROVE IInv'
  OBVIOUS
<1> USE DEF IInv, Stages, NoOtherHole, IsFirst, Free
<1>0. TypeOK
  OBVIOUS
<1>1. CASE Save
  <2>1. meip' \in BOOLEAN /\ pulse' \in BOOLEAN
    BY <1>0, <1>1, PendType DEF Save
  <2> QED
    BY <1>1, <2>1 DEF Save, Goto, TypeOK, keyboard, output
<1>2. CASE CheckKey
  <2>1. meip' \in BOOLEAN /\ pulse' \in BOOLEAN
    BY <1>0, <1>2, PendType DEF CheckKey
  <2> QED
    BY <1>2, <2>1 DEF CheckKey, HasKey, TypeOK, keyboard, output, core
<1>3. CASE ReadKey
  <2>1. char' \in Keys /\ kbdReady' = FALSE
    BY <1>3 DEF ReadKey, Goto
  <2>2. meip' = (meip \/ pulse)
    BY <1>3 DEF ReadKey
  <2>3. meip' \in BOOLEAN
    BY <2>2, <1>0, Zenon DEF TypeOK
  <2>4. pulse' \in BOOLEAN /\ typed' \in 0..MaxKeys /\ kbdData' \in Keys \cup {Empty}
    BY <1>3, <1>0, ArrivesType DEF ReadKey, TypeOK
  <2> QED
    BY <1>3, <2>1, <2>3, <2>4 DEF ReadKey, Goto, TypeOK, output, core
<1>4. CASE BufferFill
  <2>1. meip' \in BOOLEAN /\ pulse' \in BOOLEAN
    BY <1>0, <1>4, PendType DEF BufferFill
  <2>2. /\ buffer' \in [Places -> Keys \cup {Empty}]
        /\ NoOtherHole'
    <3>1. char \in Keys
      BY <1>4 DEF BufferFill, Goto, TypeOK
    <3>2. CASE Free = {} /\ UNCHANGED buffer
      BY <3>2 DEF TypeOK
    <3>3. CASE \E p \in Places : IsFirst(p, Free) /\ buffer' = Stored(p, char)
      <4>1. PICK p \in Places : IsFirst(p, Free) /\ buffer' = Stored(p, char)
        BY <3>3
      <4>2. buffer' = [buffer EXCEPT ![p] = char]
        BY <3>1, <4>1, FillsOnePlace DEF TypeOK
      <4>3. \A q \in Places : q < p => buffer[q] # Empty
        BY <4>1, CapacityAssumption DEF Places
      <4>4. char # Empty
        BY <3>1, KeysAssumption DEF Keys, Empty
      <4> QED
        BY <3>1, <4>2, <4>3, <4>4 DEF TypeOK
    <3> QED
      BY <1>4, <3>2, <3>3 DEF BufferFill
  <2> QED
    BY <1>4, <2>1, <2>2 DEF BufferFill, Goto, TypeOK, keyboard, output, core
<1>5. CASE CheckDisplay
  <2>1. meip' \in BOOLEAN /\ pulse' \in BOOLEAN
    BY <1>0, <1>5, PendType DEF CheckDisplay
  <2>2. CASE stage' = "check_ready" /\ IsFirst(place', Places \ Free) /\ char' = buffer[place']
    <3>1. place' \in Places /\ char' \in Keys
      BY <2>2 DEF IsFirst, Free, TypeOK
    <3> QED
      BY <1>5, <2>1, <2>2, <3>1 DEF CheckDisplay, TypeOK, keyboard, output, core
  <2>3. CASE stage' = "finalize" /\ UNCHANGED <<char, place>>
    BY <1>5, <2>1, <2>3 DEF CheckDisplay, TypeOK, keyboard, output, core
  <2> QED
    BY <1>5, <2>2, <2>3 DEF CheckDisplay
<1>6. CASE CheckReady
  <2>1. meip' \in BOOLEAN /\ pulse' \in BOOLEAN
    BY <1>0, <1>6, PendType DEF CheckReady
  <2> QED
    BY <1>6, <2>1 DEF CheckReady, CanShow, TypeOK, keyboard, output, core
<1>7. CASE Show
  <2>1. meip' \in BOOLEAN /\ pulse' \in BOOLEAN
    BY <1>0, <1>7, PendType DEF Show
  <2> QED
    BY <1>7, <2>1 DEF Show, Goto, TypeOK, keyboard, output, core
<1>8. CASE ClearSlot
  <2>1. meip' \in BOOLEAN /\ pulse' \in BOOLEAN
    BY <1>0, <1>8, PendType DEF ClearSlot
  <2>2. buffer' = Stored(place, Empty) /\ place \in {0, 1} /\ place \in Places
    BY <1>0, <1>8, FirstTaken DEF ClearSlot, Goto, TypeOK
  <2>3. /\ buffer' \in [Places -> Keys \cup {Empty}]
        /\ NoOtherHole'
    <3>1. CASE place = 0
      <4>1. buffer' = [buffer EXCEPT ![0] = Empty]
        BY <2>2, <3>1, ClearsFirst DEF TypeOK
      <4> QED
        BY <4>1 DEF TypeOK
    <3>2. CASE place = 1
      <4>1. buffer' = [q \in Places |-> IF q = 3 THEN Empty ELSE buffer[q]]
        BY <2>2, <3>2, ClearsFourth DEF TypeOK
      <4> QED
        BY <4>1 DEF TypeOK
    <3> QED
      BY <2>2, <3>1, <3>2
  <2> QED
    BY <1>8, <2>1, <2>3 DEF ClearSlot, Goto, TypeOK, keyboard, output, core
<1>9. CASE Finalize
  BY <1>9 DEF Finalize, Acknowledged, Goto, TypeOK, keyboard, output, core
<1>10. CASE Restore
  <2>1. meip' \in BOOLEAN /\ pulse' \in BOOLEAN
    BY <1>0, <1>10, PendType DEF Restore
  <2>2. mepc' \in Code
    BY <1>10, CodeCloses DEF Restore, TypeOK
  <2> QED
    BY <1>10, <2>1, <2>2 DEF Restore, Goto, TypeOK, keyboard, output
<1>11. CASE Mret
  BY <1>11 DEF Mret, Goto, TypeOK, keyboard
<1> QED
  BY <1>1, <1>2, <1>3, <1>4, <1>5, <1>6, <1>7, <1>8, <1>9, <1>10, <1>11 DEF Handler

(* Every step preserves the invariant.                                     *)
LEMMA NextIInv == IInv /\ [Next]_vars => IInv'
<1> SUFFICES ASSUME IInv, [Next]_vars PROVE IInv'
  OBVIOUS
<1>1. CASE UNCHANGED vars
  BY <1>1 DEF vars, keyboard, output, core, IInv, TypeOK, NoOtherHole, IsFirst, Free
<1> QED
  BY <1>1, DevicesIInv, UserIInv, HandlerIInv DEF Next, Core

(* TypeOK: the variables keep their types, and what the handler carries is *)
(* a key whenever it is about to store or show it.                         *)
THEOREM TypeCorrect == Spec => []TypeOK
<1>1. IInv => TypeOK
  BY DEF IInv
<1> QED
  BY InitIInv, NextIInv, <1>1, PTL DEF Spec

-----------------------------------------------------------------------------
(* The refinement of Echo.                                                 *)

(* Reset is the initial state of an echo.                                  *)
LEMMA InitEcho == Init => L!Init
BY DEF Init, L!Init, Pressed, ReadChar, Held, Ready

(* A step that leaves what Echo sees is a stutter of Echo.                 *)
LEMMA Stutters ==
  ASSUME Pressed' = Pressed, ReadChar' = ReadChar, Held' = Held,
         screen' = screen, Ready' = Ready
  PROVE  UNCHANGED L!vars
BY DEF L!vars

(* What the places hold depends on these only.                             *)
LEMMA HeldStays ==
  ASSUME UNCHANGED <<stage, buffer, place>>
  PROVE  Held' = Held
BY DEF Held, Stored, Merged

(* The devices are those of Echo.                                          *)
LEMMA DevicesEcho == IInv /\ (Press \/ DisplayReady) => [L!Next]_L!vars
<1> SUFFICES ASSUME IInv, Press \/ DisplayReady PROVE L!Next
  OBVIOUS
<1>1. CASE Press
  <2>1. Held' = Held
    BY <1>1, HeldStays DEF Press
  <2>2. L!Press
    BY <1>1, <2>1, ArrivesType DEF Press, L!Press, IInv, output, core, Pressed, ReadChar, Ready
  <2> QED
    BY <2>2 DEF L!Next
<1>2. CASE DisplayReady
  <2>1. Held' = Held
    BY <1>2, HeldStays DEF DisplayReady
  <2>2. L!BecomeReady
    BY <1>2, <2>1 DEF DisplayReady, L!BecomeReady, keyboard, core, Pressed, ReadChar, Ready
  <2> QED
    BY <2>2 DEF L!Next
<1> QED
  BY <1>1, <1>2

(* Boot, user program and interrupt do not concern the echo.               *)
LEMMA UserEcho == Boot \/ UserExecute \/ Trap => UNCHANGED L!vars
<1> SUFFICES ASSUME Boot \/ UserExecute \/ Trap PROVE UNCHANGED L!vars
  OBVIOUS
<1> QED
  BY Stutters DEF Boot, UserExecute, Trap, Goto, keyboard, output,
                  Pressed, ReadChar, Held, Ready

(* The handler reads, keeps or drops and shows as Echo does; the rest of   *)
(* it stutters, and so does the reset of a place that was shown.           *)
LEMMA HandlerEcho == IInv /\ Handler => [L!Next]_L!vars
<1> SUFFICES ASSUME IInv, Handler PROVE [L!Next]_L!vars
  OBVIOUS
<1> USE DEF Pressed, ReadChar, Held, Ready
<1>0. Empty \notin Keys
  BY KeysAssumption DEF Empty, Keys
<1>1. CASE Save \/ CheckKey \/ CheckReady \/ Finalize \/ Restore
  <2>1. UNCHANGED L!vars
    BY <1>1, Stutters DEF Save, CheckKey, CheckReady, Finalize, Restore, Goto,
                          keyboard, output
  <2> QED
    BY <2>1
<1>2. CASE CheckDisplay
  <2>1. UNCHANGED L!vars
    BY <1>2, Stutters DEF CheckDisplay, keyboard, output
  <2> QED
    BY <2>1
<1>3. CASE Mret
  <2>1. UNCHANGED L!vars
    BY <1>3, Stutters DEF Mret, Goto, keyboard
  <2> QED
    BY <2>1
<1>4. CASE ClearSlot
  <2>1. UNCHANGED L!vars
    BY <1>4, Stutters DEF ClearSlot, Goto, keyboard, output
  <2> QED
    BY <2>1
<1>5. CASE ReadKey
  <2>1. L!Read
    BY <1>0, <1>5 DEF ReadKey, Goto, L!Read, IInv, output
  <2> QED
    BY <2>1 DEF L!Next
<1>6. CASE BufferFill
  <2>0. char # Empty /\ stage = "buffer_fill" /\ stage' = "check_display"
    BY <1>0, <1>6 DEF BufferFill, Goto, IInv, TypeOK
  <2>1. CASE \E p \in Places : IsFirst(p, Free) /\ buffer' = Stored(p, char)
    <3>0. PICK p \in Places : IsFirst(p, Free) /\ buffer' = Stored(p, char)
      BY <2>1
    <3>1. buffer[p] = Empty /\ buffer' = [buffer EXCEPT ![p] = char]
      BY <1>6, <3>0, FillsOnePlace DEF BufferFill, Goto, IInv, TypeOK, IsFirst, Free
    <3>2. L!Keep
      BY <1>6, <2>0, <3>1 DEF BufferFill, L!Keep, keyboard, output
    <3> QED
      BY <3>2 DEF L!Next
  <2>2. CASE Free = {} /\ UNCHANGED buffer
    <3>1. L!Drop
      BY <1>6, <2>0, <2>2 DEF BufferFill, Free, L!Drop, keyboard, output
    <3> QED
      BY <3>1 DEF L!Next
  <2> QED
    BY <1>6, <2>1, <2>2 DEF BufferFill
<1>7. CASE Show
  <2>1. /\ stage = "show" /\ stage' = "clear_slot" /\ display = "ready"
        /\ place \in Places /\ buffer[place] = char /\ char # Empty
        /\ buffer \in [Places -> Keys \cup {Empty}]
    BY <1>0, <1>7 DEF Show, Goto, IInv, TypeOK
  <2>2. place \in {0, 1}
    BY <2>1, FirstTaken DEF IInv
  <2>3. /\ Held = buffer /\ Held' = Stored(place, Empty)
        /\ Pressed' = Pressed /\ ReadChar' = ReadChar
        /\ Ready /\ Ready' = FALSE /\ screen' = char
    BY <1>7, <2>1 DEF Show, keyboard, Stored, Merged
  <2>4. CASE place = 0
    <3>1. Held' = [Held EXCEPT ![0] = Empty]
      BY <2>1, <2>3, <2>4, ClearsFirst
    <3>2. L!Show
      BY <2>1, <2>3, <2>4, <3>1 DEF L!Show
    <3> QED
      BY <3>2 DEF L!Next
  <2>5. CASE place = 1
    <3>1. Held' = [q \in Places |-> IF q \in {3} THEN Empty ELSE Held[q]]
      BY <2>1, <2>3, <2>5, ClearsFourth
    <3>2. L!ShowSticky
      <4>1. \E p \in Places \cap {1} : Held[p] # Empty /\ screen' = Held[p]
        BY <2>1, <2>3, <2>5
      <4>2. \E lost \in SUBSET {3} :
              Held' = [q \in Places |-> IF q \in lost THEN Empty ELSE Held[q]]
        BY <3>1
      <4> QED
        BY <2>3, <4>1, <4>2 DEF L!ShowSticky
    <3> QED
      BY <3>2 DEF L!Next
  <2> QED
    BY <2>2, <2>4, <2>5
<1> QED
  BY <1>1, <1>2, <1>3, <1>4, <1>5, <1>6, <1>7 DEF Handler

(* ImplementsLeakyEcho: the handler and its buffer on the simulated memory *)
(* are an echo whose place 1 keeps its key and whose place 3 may lose it,  *)
(* and nothing worse, whatever the devices do while the handler runs.      *)
THEOREM Refinement == Spec => ImplementsLeakyEcho
<1>1. IInv /\ [Next]_vars => [L!Next]_L!vars
  <2> SUFFICES ASSUME IInv, [Next]_vars PROVE [L!Next]_L!vars
    OBVIOUS
  <2>1. CASE UNCHANGED vars
    <3>1. Held' = Held
      BY <2>1, HeldStays DEF vars
    <3> QED
      BY <2>1, <3>1, Stutters DEF vars, keyboard, output, Pressed, ReadChar, Ready
  <2> QED
    BY <2>1, DevicesEcho, UserEcho, HandlerEcho DEF Next, Core
<1> QED
  BY InitIInv, NextIInv, InitEcho, <1>1, PTL DEF Spec, L!Spec, ImplementsLeakyEcho
=============================================================================
