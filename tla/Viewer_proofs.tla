--------------------------- MODULE Viewer_proofs ---------------------------
(***************************************************************************)
(* What the steps of a page keep true: the types of its variables, and,    *)
(* for a list of updates without gaps, that it shows one of the states of  *)
(* the run.                                                                *)
(***************************************************************************)
EXTENDS Viewer, FiniteSetTheorems, SequenceTheorems, TLAPS

-----------------------------------------------------------------------------
(* Least and greatest elements of finite sets of numbers.                  *)

LEMMA MinOfFinite ==
  ASSUME NEW S \in SUBSET Int, IsFiniteSet(S), S # {}
  PROVE  Min(S) \in S /\ \A y \in S : Min(S) <= y
<1> DEFINE Below(x) == {y \in S : y <= x}
           T == {Below(x) : x \in S}
<1>1. T \subseteq FiniteSubsetsOf(S) /\ T # {}
  <2>1. FiniteSubsetsOf(S) = SUBSET S
    BY FS_FiniteSubsetsOfFinite
  <2>2. \A x \in S : Below(x) \in SUBSET S
    OBVIOUS
  <2>3. T \subseteq SUBSET S /\ T # {}
    BY <2>2
  <2> QED
    BY <2>1, <2>3
<1>2. PICK t \in T : \A u \in T : <<u, t>> \notin StrictSubsetOrdering(S)
  BY <1>1, FS_StrictSubsetOrderingWellFounded, WFMin
<1>3. PICK x \in S : t = Below(x)
  OBVIOUS
<1>4. ASSUME NEW y \in S PROVE x <= y
  <2> SUFFICES ASSUME y < x PROVE FALSE
    OBVIOUS
  <2>1. \A z \in S : z <= y => z <= x
    OBVIOUS
  <2>2. x <= x /\ ~(x <= y)
    OBVIOUS
  <2>3. Below(y) \subseteq Below(x) /\ Below(y) # Below(x)
    BY <2>1, <2>2
  <2>4. Below(y) \in T /\ Below(x) \in SUBSET S /\ Below(y) \in SUBSET S
    OBVIOUS
  <2>5. <<Below(y), Below(x)>> \in StrictSubsetOrdering(S)
    BY <2>3, <2>4 DEF StrictSubsetOrdering
  <2> QED
    BY <1>2, <1>3, <2>4, <2>5
<1> QED
  BY <1>4 DEF Min

LEMMA MaxOfFinite ==
  ASSUME NEW S \in SUBSET Int, IsFiniteSet(S), S # {}
  PROVE  Max(S) \in S /\ \A y \in S : Max(S) >= y
<1> DEFINE Above(x) == {y \in S : y >= x}
           T == {Above(x) : x \in S}
<1>1. T \subseteq FiniteSubsetsOf(S) /\ T # {}
  <2>1. FiniteSubsetsOf(S) = SUBSET S
    BY FS_FiniteSubsetsOfFinite
  <2>2. \A x \in S : Above(x) \in SUBSET S
    OBVIOUS
  <2>3. T \subseteq SUBSET S /\ T # {}
    BY <2>2
  <2> QED
    BY <2>1, <2>3
<1>2. PICK t \in T : \A u \in T : <<u, t>> \notin StrictSubsetOrdering(S)
  BY <1>1, FS_StrictSubsetOrderingWellFounded, WFMin
<1>3. PICK x \in S : t = Above(x)
  OBVIOUS
<1>4. ASSUME NEW y \in S PROVE x >= y
  <2> SUFFICES ASSUME y > x PROVE FALSE
    OBVIOUS
  <2>1. \A z \in S : z >= y => z >= x
    OBVIOUS
  <2>2. x >= x /\ ~(x >= y)
    OBVIOUS
  <2>3. Above(y) \subseteq Above(x) /\ Above(y) # Above(x)
    BY <2>1, <2>2
  <2>4. Above(y) \in T /\ Above(x) \in SUBSET S /\ Above(y) \in SUBSET S
    OBVIOUS
  <2>5. <<Above(y), Above(x)>> \in StrictSubsetOrdering(S)
    BY <2>3, <2>4 DEF StrictSubsetOrdering
  <2> QED
    BY <1>2, <1>3, <2>4, <2>5
<1> QED
  BY <1>4 DEF Max

LEMMA ExtremesOfInterval ==
  ASSUME NEW i \in Int, NEW j \in Int, NEW S \in SUBSET (i..j), S # {}
  PROVE  /\ Min(S) \in S /\ \A y \in S : Min(S) <= y
         /\ Max(S) \in S /\ \A y \in S : Max(S) >= y
<1>1. IsFiniteSet(i..j)
  BY FS_Interval
<1>2. IsFiniteSet(S)
  BY <1>1, FS_Subset
<1>3. S \in SUBSET Int
  OBVIOUS
<1> QED
  BY <1>2, <1>3, MinOfFinite, MaxOfFinite

(* The same for the indices of updates.                                    *)
LEMMA ExtremesOfUpdates ==
  ASSUME NEW i \in Nat, NEW j \in Nat, NEW S, S \subseteq (i + 1)..j, S # {}
  PROVE  /\ Min(S) \in S /\ \A y \in S : Min(S) <= y
         /\ Max(S) \in S /\ \A y \in S : Max(S) >= y
<1>1. PICK m \in Int : m = i + 1
  OBVIOUS
<1>2. j \in Int /\ S \in SUBSET (m..j)
  BY <1>1
<1> QED
  BY <1>2, ExtremesOfInterval

-----------------------------------------------------------------------------
(* The cells of a state.                                                   *)

LEMMA ProgramLength == Len(Program) \in Nat
BY ProgramAssumption

LEMMA ValueType ==
  ASSUME NEW x \in Cells, NEW k \in 0..Len(Program)
  PROVE  Value(x, k) \in CellValues(x)
<1>1. CASE x = "time"
  BY <1>1, ProgramLength DEF Value, CellValues
<1>2. CASE x = "register"
  BY <1>2, ProgramLength DEF Value, CellValues
<1>3. CASE x = "display"
  BY <1>3, ProgramLength DEF Value, CellValues
<1> QED
  BY <1>1, <1>2, <1>3 DEF Cells

LEMMA OldType ==
  ASSUME NEW x \in Cells, NEW k \in 1..Len(Program)
  PROVE  Old(x, k) \in CellValues(x)
<1>1. CASE x = "time"
  <2>1. OldTime(k) \in 0..(2 * Len(Program))
    BY ProgramLength DEF OldTime
  <2> QED
    BY <1>1, <2>1 DEF Old, CellValues
<1>2. CASE x # "time"
  <2>1. k - 1 \in 0..Len(Program)
    BY ProgramLength
  <2> QED
    BY <1>2, <2>1, ValueType DEF Old
<1> QED
  BY <1>1, <1>2

(* A display and a clock change with every instruction.                    *)
LEMMA ClockChanges ==
  ASSUME NEW x \in {"time", "display"}, NEW i \in Nat, NEW j \in Nat, i < j
  PROVE  /\ {k \in (i + 1)..j : Changes(x, k)} = (i + 1)..j
         /\ (i + 1)..j # {} /\ Max((i + 1)..j) = j
<1>1. {k \in (i + 1)..j : Changes(x, k)} = (i + 1)..j
  BY DEF Changes
<1>2. j \in (i + 1)..j
  OBVIOUS
<1>3. Max((i + 1)..j) \in (i + 1)..j /\ Max((i + 1)..j) >= j
  BY <1>2, ExtremesOfUpdates
<1> QED
  BY <1>1, <1>2, <1>3

LEMMA AppliedType ==
  ASSUME NEW cells, \A x \in Cells : cells[x] \in CellValues(x),
         NEW i \in Nat, NEW j \in Nat, (i + 1)..j \subseteq 1..Len(Program)
  PROVE  /\ DOMAIN Applied(cells, i, j) = Cells
         /\ \A x \in Cells : Applied(cells, i, j)[x] \in CellValues(x)
<1>1. DOMAIN Applied(cells, i, j) = Cells
  BY DEF Applied
<1>2. ASSUME NEW x \in Cells
      PROVE  Applied(cells, i, j)[x] \in CellValues(x)
  <2> DEFINE writers == {k \in (i + 1)..j : Changes(x, k)}
  <2>1. Applied(cells, i, j)[x] = IF writers = {} THEN cells[x] ELSE Value(x, Max(writers))
    BY DEF Applied
  <2>2. CASE writers = {}
    BY <2>1, <2>2
  <2>3. CASE writers # {}
    <3>1. writers \in SUBSET ((i + 1)..j)
      OBVIOUS
    <3>2. Max(writers) \in writers
      <4> HIDE DEF writers
      <4> QED
        BY <2>3, <3>1, ExtremesOfUpdates
    <3>3. Max(writers) \in 0..Len(Program)
      BY <3>1, <3>2, ProgramLength
    <3> QED
      BY <2>1, <2>3, <3>3, ValueType
  <2> QED
    BY <2>2, <2>3
<1> QED
  BY <1>1, <1>2

LEMMA UnappliedType ==
  ASSUME NEW cells, \A x \in Cells : cells[x] \in CellValues(x),
         NEW i \in Nat, NEW j \in Nat, (i + 1)..j \subseteq 1..Len(Program)
  PROVE  /\ DOMAIN Unapplied(cells, i, j) = Cells
         /\ \A x \in Cells : Unapplied(cells, i, j)[x] \in CellValues(x)
<1>1. DOMAIN Unapplied(cells, i, j) = Cells
  BY DEF Unapplied
<1>2. ASSUME NEW x \in Cells
      PROVE  Unapplied(cells, i, j)[x] \in CellValues(x)
  <2> DEFINE writers == {k \in (i + 1)..j : Changes(x, k)}
  <2>1. Unapplied(cells, i, j)[x] =
          IF writers = {} \/ ~Restored(x) THEN cells[x] ELSE Old(x, Min(writers))
    BY DEF Unapplied
  <2>2. CASE writers = {} \/ ~Restored(x)
    BY <2>1, <2>2
  <2>3. CASE writers # {} /\ Restored(x)
    <3>1. writers \in SUBSET ((i + 1)..j)
      OBVIOUS
    <3>2. Min(writers) \in writers
      <4> HIDE DEF writers
      <4> QED
        BY <2>3, <3>1, ExtremesOfUpdates
    <3>3. Min(writers) \in 1..Len(Program)
      BY <3>1, <3>2
    <3> QED
      BY <2>1, <2>3, <3>3, OldType
  <2> QED
    BY <2>2, <2>3
<1> QED
  BY <1>1, <1>2

(* The register has the value of the last instruction that wrote it, on    *)
(* the way forwards and on the way back.                                   *)
LEMMA RegisterForwards ==
  ASSUME NEW cells, NEW i \in Nat, NEW j \in Nat, i <= j,
         cells["register"] = Value("register", i)
  PROVE  Applied(cells, i, j)["register"] = Value("register", j)
<1> DEFINE writers == {k \in (i + 1)..j : Changes("register", k)}
<1>1. Applied(cells, i, j)["register"] =
        IF writers = {} THEN cells["register"] ELSE Value("register", Max(writers))
  BY DEF Applied, Cells
<1>2. writers = {k \in (i + 1)..j : Program[k] = "alu"}
  BY DEF Changes
<1>3. CASE writers = {}
  BY <1>1, <1>2, <1>3 DEF Value
<1>4. CASE writers # {}
  <2>1. writers \in SUBSET ((i + 1)..j)
    OBVIOUS
  <2>2. Max(writers) \in writers /\ \A k \in writers : Max(writers) >= k
    <3> HIDE DEF writers
    <3> QED
      BY <1>4, <2>1, ExtremesOfUpdates
  <2>3. Max(writers) \in (i + 1)..j
    BY <2>1, <2>2
  <2>4. \A k \in 1..j : Program[k] = "alu" => k <= Max(writers)
    BY <1>2, <2>2, <2>3
  <2>5. Value("register", Max(writers)) = Value("register", j)
    BY <2>3, <2>4 DEF Value
  <2> QED
    BY <1>1, <1>4, <2>5
<1> QED
  BY <1>3, <1>4

LEMMA RegisterBackwards ==
  ASSUME NEW cells, NEW i \in Nat, NEW j \in Nat, i <= j,
         cells["register"] = Value("register", j)
  PROVE  Unapplied(cells, i, j)["register"] = Value("register", i)
<1> DEFINE writers == {k \in (i + 1)..j : Changes("register", k)}
<1>1. Unapplied(cells, i, j)["register"] =
        IF writers = {} THEN cells["register"] ELSE Value("register", Min(writers) - 1)
  BY DEF Unapplied, Cells, Restored, Old
<1>2. writers = {k \in (i + 1)..j : Program[k] = "alu"}
  BY DEF Changes
<1>3. CASE writers = {}
  BY <1>1, <1>2, <1>3 DEF Value
<1>4. CASE writers # {}
  <2>1. writers \in SUBSET ((i + 1)..j)
    OBVIOUS
  <2>2. Min(writers) \in writers /\ \A k \in writers : Min(writers) <= k
    <3> HIDE DEF writers
    <3> QED
      BY <1>4, <2>1, ExtremesOfUpdates
  <2>3. Min(writers) \in (i + 1)..j
    BY <2>1, <2>2
  <2>4. \A k \in 1..(Min(writers) - 1) : Program[k] = "alu" => k <= i
    BY <1>2, <2>2, <2>3
  <2>5. Value("register", Min(writers) - 1) = Value("register", i)
    BY <2>3, <2>4 DEF Value
  <2> QED
    BY <1>1, <1>4, <2>5
<1> QED
  BY <1>3, <1>4

(* After a step forwards the whole state is right, whatever the clock and  *)
(* the terminal showed before.                                             *)
LEMMA MachineForwards ==
  ASSUME NEW cells, NEW i \in Nat, NEW j \in Nat, i < j,
         cells["register"] = Value("register", i)
  PROVE  Applied(cells, i, j) = Machine(j)
<1>1. \A x \in Cells : Applied(cells, i, j)[x] = Value(x, j)
  <2>1. Applied(cells, i, j)["register"] = Value("register", j)
    BY RegisterForwards
  <2>2. ASSUME NEW x \in {"time", "display"}
        PROVE  Applied(cells, i, j)[x] = Value(x, j)
    <3> DEFINE writers == {k \in (i + 1)..j : Changes(x, k)}
    <3>1. Applied(cells, i, j)[x] =
            IF writers = {} THEN cells[x] ELSE Value(x, Max(writers))
      BY DEF Applied, Cells
    <3>2. writers = (i + 1)..j /\ (i + 1)..j # {} /\ Max((i + 1)..j) = j
      BY ClockChanges
    <3> HIDE DEF writers
    <3> QED
      BY <3>1, <3>2
  <2> QED
    BY <2>1, <2>2 DEF Cells
<1>2. Applied(cells, i, j) = [x \in Cells |-> Applied(cells, i, j)[x]]
  BY DEF Applied
<1> QED
  BY <1>1, <1>2 DEF Machine

-----------------------------------------------------------------------------
(* The list of updates.                                                    *)

LEMMA StateIsNotNull ==
  ASSUME NEW r \in Nat, NEW us \in Seq(UpdateSet)
  PROVE  /\ [run |-> r, updates |-> us] \in [run : Nat, updates : Seq(UpdateSet)]
         /\ [run |-> r, updates |-> us] # Null
<1>1. UpdateSet \subseteq [run : Nat, index : Nat]
  BY ProgramLength DEF UpdateSet
<1>2. us \in Seq([run : Nat, index : Nat])
  BY <1>1, SeqMonotonic
<1>3. [run |-> r, updates |-> us] \in [run : Nat, updates : Seq([run : Nat, index : Nat])]
  BY <1>2
<1> QED
  BY <1>3, NullAssumption

LEMMA UpdatesType ==
  ASSUME NEW r \in Nat, NEW n \in 0..Len(Program)
  PROVE  Updates(r, n) \in Seq(UpdateSet) /\ Len(Updates(r, n)) = n
<1>1. n \in Nat
  BY ProgramLength
<1>2. ASSUME NEW i \in 1..n PROVE [run |-> r, index |-> i] \in UpdateSet
  BY ProgramLength DEF UpdateSet
<1>3. Updates(r, n) \in [1..n -> UpdateSet]
  BY <1>2 DEF Updates
<1>4. DOMAIN Updates(r, n) = 1..n
  BY DEF Updates
<1>5. Updates(r, n) \in Seq(UpdateSet)
  BY <1>1, <1>3, SeqDef
<1> QED
  BY <1>1, <1>4, <1>5, LenProperties

LEMMA UpdatesAppend ==
  ASSUME NEW r \in Nat, NEW n \in Nat, n + 1 <= Len(Program)
  PROVE  Append(Updates(r, n), [run |-> r, index |-> n + 1]) = Updates(r, n + 1)
<1> DEFINE u == [run |-> r, index |-> n + 1]
<1>0. n \in 0..Len(Program) /\ n + 1 \in 0..Len(Program)
  BY ProgramLength
<1>1. Updates(r, n) \in Seq(UpdateSet) /\ Len(Updates(r, n)) = n
  BY <1>0, UpdatesType
<1>2. Updates(r, n + 1) \in Seq(UpdateSet) /\ Len(Updates(r, n + 1)) = n + 1
  BY <1>0, UpdatesType
<1>3. u \in UpdateSet
  BY ProgramLength DEF UpdateSet
<1>4. ASSUME NEW i \in 1..(n + 1)
      PROVE  Append(Updates(r, n), u)[i] = Updates(r, n + 1)[i]
  <2>1. CASE i = n + 1
    <3>1. Append(Updates(r, n), u)[n + 1] = u
      BY <1>1, <1>3
    <3> QED
      BY <2>1, <3>1 DEF Updates
  <2>2. CASE i # n + 1
    <3>1. i \in 1..n
      BY <2>2
    <3>2. Append(Updates(r, n), u)[i] = Updates(r, n)[i]
      BY <1>1, <1>3, <3>1
    <3> QED
      BY <3>1, <3>2 DEF Updates
  <2> QED
    BY <2>1, <2>2
<1>5. Append(Updates(r, n), u) \in Seq(UpdateSet) /\ Len(Append(Updates(r, n), u)) = n + 1
  BY <1>1, <1>3
<1> HIDE DEF u
<1>6. Append(Updates(r, n), u) = Updates(r, n + 1)
  BY <1>2, <1>4, <1>5, SeqEqual
<1> QED
  BY <1>6 DEF u

LEMMA MachineType ==
  ASSUME NEW k \in 0..Len(Program)
  PROVE  /\ DOMAIN Machine(k) = Cells
         /\ \A x \in Cells : Machine(k)[x] \in CellValues(x)
BY ValueType DEF Machine

(* What is found in a list of updates is an instruction of the program.    *)
LEMMA FoundInProgram ==
  ASSUME PageType, state # Null, NEW k, Found(k)
  PROVE  k \in 1..Len(Program)
<1>1. PICK i \in DOMAIN state.updates : state.updates[i].index = k
  BY DEF Found
<1>2. state.updates \in Seq(UpdateSet)
  BY DEF PageType
<1>3. i \in 1..Len(state.updates)
  BY <1>1, <1>2
<1>4. state.updates[i] \in UpdateSet
  BY <1>2, <1>3, ElementOfSeq
<1> QED
  BY <1>1, <1>4 DEF UpdateSet

(* A faithful list has every update, and no more than the program has.     *)
LEMMA FaithfulFinds ==
  ASSUME PageType, state # Null, Faithful
  PROVE  /\ Len(state.updates) \in 0..Len(Program)
         /\ \A k \in 1..Len(state.updates) : Found(k)
<1> DEFINE n == Len(state.updates)
<1>1. state.updates \in Seq(UpdateSet) /\ n \in Nat /\ DOMAIN state.updates = 1..n
  BY DEF PageType
<1>2. ASSUME NEW k \in 1..n PROVE state.updates[k].index = k
  <2>1. state.updates[k] = Updates(state.run, n)[k]
    BY DEF Faithful
  <2> QED
    BY <2>1 DEF Updates
<1>3. \A k \in 1..n : Found(k)
  BY <1>1, <1>2 DEF Found
<1>4. n \in 0..Len(Program)
  <2>1. CASE n = 0
    BY <2>1, ProgramLength
  <2>2. CASE n # 0
    <3>1. n \in 1..n
      BY <1>1, <2>2
    <3>2. n \in 1..Len(Program)
      BY <1>3, <3>1, FoundInProgram
    <3> QED
      BY <3>2, ProgramLength
  <2> QED
    BY <2>1, <2>2
<1> QED
  BY <1>3, <1>4

-----------------------------------------------------------------------------
(* The steps of the page.                                                  *)

LEMMA InitialStateIsFaithful ==
  ASSUME NEW r \in Nat, processInitialState(r)
  PROVE  /\ PageType' /\ Faithful' /\ Exact'
         /\ state' # Null /\ state'.run = r /\ state'.updates = <<>>
         /\ current_state_index' = 0
<1>1. state' = [run |-> r, updates |-> <<>>] /\ <<>> \in Seq(UpdateSet)
  BY DEF processInitialState
<1>2. state' \in [run : Nat, updates : Seq(UpdateSet)] /\ state' # Null
  BY <1>1, StateIsNotNull
<1>3. current_state' = Machine(0) /\ 0 \in 0..Len(Program)
  BY ProgramLength DEF processInitialState
<1>4. DOMAIN current_state' = Cells /\ \A x \in Cells : current_state'[x] \in CellValues(x)
  BY <1>3, MachineType
<1>5. /\ current_state_index' = 0 /\ is_live' = TRUE /\ rewound' = FALSE
      /\ state'.run = r /\ state'.updates = <<>>
  BY <1>1 DEF processInitialState
<1>6. PageType'
  BY <1>2, <1>4, <1>5 DEF PageType
<1>7. Len(state'.updates) = 0 /\ Updates(r, 0) = <<>>
  BY <1>5 DEF Updates
<1>8. current_state'["register"] = Value("register", 0)
  BY <1>3 DEF Machine, Cells
<1>9. Faithful'
  BY <1>5, <1>7, <1>8 DEF Faithful
<1>10. Exact'
  BY <1>3, <1>5 DEF Exact
<1> QED
  BY <1>2, <1>5, <1>6, <1>9, <1>10

LEMMA ApplyUpdateType ==
  ASSUME PageType, NEW k \in 1..Len(Program), applyUpdate(k)
  PROVE  /\ DOMAIN current_state' = Cells
         /\ \A x \in Cells : current_state'[x] \in CellValues(x)
         /\ current_state_index' \in Nat /\ rewound' \in BOOLEAN
<1>1. k - 1 \in Nat /\ k \in Nat /\ ((k - 1) + 1)..k \subseteq 1..Len(Program)
  BY ProgramLength
<1>2. \A x \in Cells : current_state[x] \in CellValues(x)
  BY DEF PageType
<1>3. current_state' = Applied(current_state, k - 1, k)
  BY DEF applyUpdate
<1>4. DOMAIN current_state' = Cells /\ \A x \in Cells : current_state'[x] \in CellValues(x)
  BY <1>1, <1>2, <1>3, AppliedType
<1> QED
  BY <1>1, <1>4 DEF applyUpdate

LEMMA UpdateType ==
  ASSUME PageType, NEW u \in UpdateSet, processUpdate(u)
  PROVE  /\ PageType' /\ (state = Null => state' = Null)
         /\ state # Null => /\ state' # Null /\ state'.run = state.run
                            /\ state'.updates = Append(state.updates, u)
                            /\ Len(state'.updates) = Len(state.updates) + 1
<1>1. CASE state = Null /\ UNCHANGED page
  BY <1>1 DEF PageType, page
<1>2. CASE state # Null /\ state' = [state EXCEPT !.updates = Append(@, u)]
  <2>1. state \in [run : Nat, updates : Seq(UpdateSet)]
    BY <1>2 DEF PageType
  <2>2. state' = [run |-> state.run, updates |-> Append(state.updates, u)]
    BY <1>2, <2>1
  <2>3. state.run \in Nat /\ Append(state.updates, u) \in Seq(UpdateSet)
        /\ Len(Append(state.updates, u)) = Len(state.updates) + 1
    BY <2>1
  <2>4. state' \in [run : Nat, updates : Seq(UpdateSet)] /\ state' # Null
    BY <2>2, <2>3, StateIsNotNull
  <2>5. /\ IF is_live
             THEN applyUpdate(u.index)
             ELSE UNCHANGED <<current_state, current_state_index, rewound>>
        /\ UNCHANGED is_live
    BY <1>2 DEF processUpdate
  <2>6. u.index \in 1..Len(Program)
    BY DEF UpdateSet
  <2>7. /\ DOMAIN current_state' = Cells
        /\ \A x \in Cells : current_state'[x] \in CellValues(x)
        /\ current_state_index' \in Nat /\ rewound' \in BOOLEAN
    <3>1. CASE is_live
      BY <2>5, <2>6, <3>1, ApplyUpdateType
    <3>2. CASE ~is_live
      BY <2>5, <3>2 DEF PageType
    <3> QED
      BY <3>1, <3>2
  <2>8. is_live' \in BOOLEAN
    BY <2>5 DEF PageType
  <2>9. PageType'
    BY <2>4, <2>7, <2>8 DEF PageType
  <2> QED
    BY <1>2, <2>2, <2>3, <2>4, <2>9
<1> QED
  BY <1>1, <1>2 DEF processUpdate

(* The next update of a faithful list keeps it faithful.                   *)
LEMMA NextUpdateIsFaithful ==
  ASSUME PageType, state # Null, Faithful, Exact,
         NEW u \in UpdateSet, processUpdate(u),
         u = [run |-> state.run, index |-> Len(state.updates) + 1]
  PROVE  Faithful' /\ Exact'
<1> DEFINE n == Len(state.updates)
<1>1. /\ state'.run = state.run /\ state'.updates = Append(state.updates, u)
      /\ Len(state'.updates) = n + 1
  BY UpdateType
<1>2. state.run \in Nat /\ n \in Nat /\ u.index = n + 1 /\ n + 1 <= Len(Program)
  BY ProgramLength DEF PageType, UpdateSet
<1>3. state'.updates = Updates(state'.run, n + 1)
  <2>1. state.updates = Updates(state.run, n)
    BY DEF Faithful
  <2> QED
    BY <1>1, <1>2, <2>1, UpdatesAppend
<1>4. /\ IF is_live
           THEN applyUpdate(n + 1)
           ELSE UNCHANGED <<current_state, current_state_index, rewound>>
      /\ is_live' = is_live /\ is_live \in BOOLEAN
  BY <1>2 DEF processUpdate, PageType
<1>5. CASE is_live
  <2>1. current_state_index = n
    BY <1>5 DEF Faithful
  <2>2. /\ current_state' = Applied(current_state, (n + 1) - 1, n + 1)
        /\ current_state_index' = n + 1 /\ rewound' = FALSE
    BY <1>4, <1>5 DEF applyUpdate
  <2>3. (n + 1) - 1 = n /\ n < n + 1 /\ n + 1 \in Nat
    BY <1>2
  <2>4. current_state["register"] = Value("register", n)
    BY <2>1 DEF Faithful
  <2>5. current_state' = Machine(n + 1)
    BY <1>2, <2>2, <2>3, <2>4, MachineForwards
  <2>6. current_state'["register"] = Value("register", n + 1)
    BY <2>5 DEF Machine, Cells
  <2> QED
    BY <1>1, <1>3, <2>2, <2>3, <2>5, <2>6 DEF Faithful, Exact
<1>6. CASE ~is_live
  <2>1. current_state_index \in Nat /\ current_state_index <= n
    BY DEF PageType, Faithful
  <2>2. current_state_index <= n + 1
    BY <1>2, <2>1
  <2>3. /\ current_state' = current_state /\ current_state_index' = current_state_index
        /\ rewound' = rewound /\ is_live' = FALSE
    BY <1>4, <1>6
  <2> QED
    BY <1>1, <1>3, <2>2, <2>3 DEF Faithful, Exact
<1> QED
  BY <1>5, <1>6

(* The answer of the controller: the first n updates of a run.             *)
LEMMA AnswerIsFaithful ==
  ASSUME PageType, NEW r \in Nat, NEW n \in 0..Len(Program), computeState(r, n)
  PROVE  /\ PageType'
         /\ state' # Null /\ state'.run = r /\ Len(state'.updates) = n
         /\ (n = 0 => current_state_index = 0) => Faithful' /\ Exact'
         /\ n = 0 => current_state_index' = current_state_index
<1>1. /\ state' = [run |-> r, updates |-> Updates(r, n)]
      /\ current_state' = Applied(Machine(0), 0, n)
      /\ current_state_index' = IF n = 0 THEN current_state_index ELSE n
      /\ rewound' = FALSE /\ is_live' = is_live
  BY DEF computeState
<1>2. Updates(r, n) \in Seq(UpdateSet) /\ Len(Updates(r, n)) = n
  BY UpdatesType
<1>3. /\ state' \in [run : Nat, updates : Seq(UpdateSet)] /\ state' # Null
      /\ state'.run = r /\ state'.updates = Updates(r, n)
  BY <1>1, <1>2, StateIsNotNull
<1>4. n \in Nat /\ 0 \in Nat /\ 0 \in 0..Len(Program) /\ (0 + 1)..n \subseteq 1..Len(Program)
  BY ProgramLength
<1>5. DOMAIN current_state' = Cells /\ \A x \in Cells : current_state'[x] \in CellValues(x)
  <2>1. \A x \in Cells : Machine(0)[x] \in CellValues(x)
    BY <1>4, MachineType
  <2> QED
    BY <1>1, <1>4, <2>1, AppliedType
<1>6. current_state_index' \in Nat /\ is_live' \in BOOLEAN /\ rewound' \in BOOLEAN
  BY <1>1, <1>4 DEF PageType
<1>7. PageType'
  BY <1>3, <1>5, <1>6 DEF PageType
<1>8. ASSUME n = 0 => current_state_index = 0
      PROVE  Faithful' /\ Exact'
  <2>1. current_state_index' = n
    BY <1>1, <1>8
  <2>2. current_state' = Machine(n)
    <3>1. Machine(0)["register"] = Value("register", 0)
      BY DEF Machine, Cells
    <3>2. CASE n = 0
      <4>1. \A x \in Cells : {k \in (0 + 1)..0 : Changes(x, k)} = {}
        OBVIOUS
      <4>2. Applied(Machine(0), 0, 0) = [x \in Cells |-> Machine(0)[x]]
        BY <4>1 DEF Applied
      <4>3. Machine(0) = [x \in Cells |-> Machine(0)[x]]
        BY DEF Machine
      <4> QED
        BY <1>1, <3>2, <4>2, <4>3
    <3>3. CASE n # 0
      <4>1. 0 < n
        BY <1>4, <3>3
      <4> QED
        BY <1>1, <1>4, <3>1, <4>1, MachineForwards
    <3> QED
      BY <3>2, <3>3
  <2>3. current_state'["register"] = Value("register", n)
    BY <2>2 DEF Machine, Cells
  <2>4. n <= n
    BY <1>4
  <2> QED
    BY <1>2, <1>3, <2>1, <2>2, <2>3, <2>4 DEF Faithful, Exact
<1> QED
  BY <1>1, <1>2, <1>3, <1>7, <1>8

LEMMA UndoIsFaithful ==
  ASSUME PageType, state # Null, NEW i \in 0..current_state_index,
         \A k \in (i + 1)..current_state_index : Found(k), Undo(i)
  PROVE  PageType' /\ state' = state /\ (Faithful /\ Exact => Faithful' /\ Exact')
<1> DEFINE j == current_state_index
<1>1. i \in Nat /\ j \in Nat /\ i <= j
  BY DEF PageType
<1>2. (i + 1)..j \subseteq 1..Len(Program)
  BY FoundInProgram
<1>3. /\ current_state' = Unapplied(current_state, i, j) /\ current_state_index' = i
      /\ is_live' = (is_live /\ i = j) /\ rewound' = (rewound \/ i # j)
      /\ state' = state
  BY DEF Undo, LiveAt
<1>4. PageType'
  <2>1. \A x \in Cells : current_state[x] \in CellValues(x)
    BY DEF PageType
  <2>2. DOMAIN current_state' = Cells /\ \A x \in Cells : current_state'[x] \in CellValues(x)
    BY <1>1, <1>2, <1>3, <2>1, UnappliedType
  <2>3. is_live' \in BOOLEAN /\ rewound' \in BOOLEAN
    BY <1>3
  <2>4. state' \in [run : Nat, updates : Seq(UpdateSet)]
    BY <1>3 DEF PageType
  <2> QED
    BY <1>1, <1>3, <2>2, <2>3, <2>4 DEF PageType
<1>5. ASSUME Faithful, Exact PROVE Faithful' /\ Exact'
  <2>1. current_state'["register"] = Value("register", i)
    BY <1>1, <1>3, <1>5, RegisterBackwards DEF Faithful
  <2>2. Len(state.updates) \in Nat /\ j <= Len(state.updates)
    BY <1>5, FaithfulFinds DEF Faithful
  <2>3. i <= Len(state.updates)
    BY <1>1, <2>2
  <2>4. is_live' => i = Len(state.updates)
    BY <1>3, <1>5 DEF Faithful
  <2>5. Faithful'
    BY <1>3, <1>5, <2>1, <2>3, <2>4 DEF Faithful
  <2>6. Exact'
    <3> SUFFICES ASSUME ~rewound' PROVE current_state' = Machine(i)
      BY <1>3 DEF Exact
    <3>1. ~rewound /\ i = j
      BY <1>3
    <3>2. current_state = Machine(i)
      BY <1>5, <3>1 DEF Exact
    <3>3. \A x \in Cells : {k \in (i + 1)..i : Changes(x, k)} = {}
      BY <1>1
    <3>4. Unapplied(current_state, i, i) = [x \in Cells |-> Machine(i)[x]]
      BY <3>2, <3>3 DEF Unapplied
    <3>5. Machine(i) = [x \in Cells |-> Machine(i)[x]]
      BY DEF Machine
    <3> QED
      BY <1>3, <3>1, <3>4, <3>5
  <2> QED
    BY <2>5, <2>6
<1> QED
  BY <1>3, <1>4, <1>5

LEMMA RedoIsFaithful ==
  ASSUME PageType, HasNext,
         NEW i \in (current_state_index + 1)..Len(state.updates), Redo(i)
  PROVE  PageType' /\ state' = state /\ (Faithful /\ Exact => Faithful' /\ Exact')
<1> DEFINE j == current_state_index
           gaps == Gaps(j + 1, i)
           last == IF gaps = {} THEN i ELSE Min(gaps) - 1
<1>1. i \in Nat /\ j \in Nat /\ j < i /\ state # Null
  BY DEF PageType, HasNext
<1>2. /\ current_state' = Applied(current_state, j, last)
      /\ current_state_index' = IF gaps = {} THEN i ELSE Min(gaps)
      /\ is_live' = IF last = j THEN is_live ELSE last = Len(state.updates)
      /\ rewound' = (rewound /\ last = j)
      /\ state' = state
  BY DEF Redo
<1>3. gaps = {k \in (j + 1)..i : ~Found(k)}
  BY DEF Gaps
<1>4. PageType'
  <2>1. /\ last \in Nat /\ j <= last
        /\ \A k \in (j + 1)..last : Found(k)
        /\ current_state_index' \in Nat
    <3>1. CASE gaps = {}
      BY <1>1, <1>2, <1>3, <3>1
    <3>2. CASE gaps # {}
      <4>1. gaps \subseteq (j + 1)..i
        BY <1>3
      <4>2. Min(gaps) \in gaps /\ \A k \in gaps : Min(gaps) <= k
        <5> HIDE DEF gaps, j
        <5> QED
          BY <1>1, <3>2, <4>1, ExtremesOfUpdates
      <4>3. Min(gaps) \in (j + 1)..i
        BY <4>1, <4>2
      <4>4. last = Min(gaps) - 1 /\ current_state_index' = Min(gaps)
        BY <1>2, <3>2
      <4>5. \A k \in (j + 1)..last : k \in (j + 1)..i /\ k \notin gaps
        <5> HIDE DEF gaps, last
        <5> QED
          BY <1>1, <4>2, <4>3, <4>4
      <4>6. \A k \in (j + 1)..last : Found(k)
        BY <1>3, <4>5
      <4> QED
        <5> HIDE DEF gaps, last
        <5> QED
          BY <1>1, <4>3, <4>4, <4>6
    <3> QED
      BY <3>1, <3>2
  <2> HIDE DEF last
  <2>2. (j + 1)..last \subseteq 1..Len(Program)
    BY <1>1, <2>1, FoundInProgram
  <2>3. \A x \in Cells : current_state[x] \in CellValues(x)
    BY DEF PageType
  <2>4. DOMAIN current_state' = Cells /\ \A x \in Cells : current_state'[x] \in CellValues(x)
    BY <1>1, <1>2, <2>1, <2>2, <2>3, AppliedType
  <2>5. is_live' \in BOOLEAN /\ rewound' \in BOOLEAN
    BY <1>2 DEF PageType
  <2>6. state' \in [run : Nat, updates : Seq(UpdateSet)]
    BY <1>1, <1>2 DEF PageType
  <2> QED
    BY <2>1, <2>4, <2>5, <2>6 DEF PageType
<1>5. ASSUME Faithful, Exact PROVE Faithful' /\ Exact'
  <2>1. gaps = {}
    <3>1. \A k \in 1..Len(state.updates) : Found(k)
      BY <1>1, <1>5, FaithfulFinds
    <3> QED
      BY <1>1, <1>3, <3>1
  <2>2. /\ current_state' = Applied(current_state, j, i) /\ current_state_index' = i
        /\ is_live' = (i = Len(state.updates))
    BY <1>1, <1>2, <2>1
  <2>3. current_state' = Machine(i)
    BY <1>1, <1>5, <2>2, MachineForwards DEF Faithful
  <2>4. current_state'["register"] = Value("register", i)
    BY <2>3 DEF Machine, Cells
  <2>5. i <= Len(state.updates)
    BY <1>1
  <2> QED
    BY <1>2, <1>5, <2>2, <2>3, <2>4, <2>5 DEF Faithful, Exact
<1> QED
  BY <1>2, <1>4, <1>5

(* However the user goes back and forth, the page shows a state of the run.*)
LEMMA BrowseIsFaithful ==
  ASSUME PageType, Browse
  PROVE  /\ PageType' /\ state' = state /\ state # Null
         /\ Faithful /\ Exact => Faithful' /\ Exact'
<1>1. current_state_index \in Nat
  BY DEF PageType
<1>2. CASE stepBack
  <2>1. /\ state # Null /\ current_state_index > 0 /\ Found(current_state_index)
        /\ Undo(current_state_index - 1)
    BY <1>2 DEF stepBack
  <2>2. PICK i \in 0..current_state_index : i = current_state_index - 1
    BY <1>1, <2>1
  <2>3. (i + 1)..current_state_index = {current_state_index}
    BY <1>1, <2>2
  <2> QED
    BY <2>1, <2>2, <2>3, UndoIsFaithful
<1>3. CASE stepToStart
  <2> DEFINE S == {0} \cup Gaps(1, current_state_index)
  <2>1. state # Null /\ Undo(Max(S))
    BY <1>3 DEF stepToStart
  <2>2. S \in SUBSET (0..current_state_index) /\ S # {}
    BY <1>1 DEF Gaps
  <2>3. Max(S) \in S /\ \A k \in S : Max(S) >= k
    <3>1. 0 \in Int /\ current_state_index \in Int
      BY <1>1
    <3> HIDE DEF S
    <3> QED
      BY <2>2, <3>1, ExtremesOfInterval
  <2>4. Max(S) \in 0..current_state_index
    BY <2>2, <2>3
  <2>5. \A k \in (Max(S) + 1)..current_state_index : k \in 1..current_state_index /\ k \notin S
    <3> HIDE DEF S
    <3> QED
      BY <1>1, <2>3, <2>4
  <2>6. \A k \in (Max(S) + 1)..current_state_index : Found(k)
    BY <2>5 DEF Gaps
  <2> HIDE DEF S
  <2> QED
    BY <2>1, <2>4, <2>6, UndoIsFaithful
<1>4. CASE stepForward \/ stepToEnd
  <2>1. /\ HasNext /\ state # Null
        /\ Redo(current_state_index + 1) \/ Redo(Len(state.updates))
    BY <1>4 DEF stepForward, stepToEnd, HasNext
  <2>2. Len(state.updates) \in Nat /\ current_state_index < Len(state.updates)
    BY <2>1 DEF PageType, HasNext
  <2>3. PICK i \in (current_state_index + 1)..Len(state.updates) : Redo(i)
    <3>1. /\ current_state_index + 1 \in (current_state_index + 1)..Len(state.updates)
          /\ Len(state.updates) \in (current_state_index + 1)..Len(state.updates)
      BY <1>1, <2>2
    <3> QED
      BY <2>1, <3>1
  <2> QED
    BY <2>1, <2>3, RedoIsFaithful
<1> QED
  BY <1>2, <1>3, <1>4 DEF Browse

LEMMA GoLiveIsFaithful ==
  ASSUME PageType, GoLive
  PROVE  /\ PageType' /\ state' = state /\ state # Null
         /\ Faithful /\ Exact => Faithful' /\ Exact'
BY DEF GoLive, AtEnd, PageType, Faithful, Exact

(* Without a step of the page nothing about it changes.                    *)
LEMMA QuietPage ==
  ASSUME PageType, UNCHANGED page
  PROVE  /\ PageType' /\ state' = state /\ current_state_index' = current_state_index
         /\ Faithful => Faithful'
         /\ Exact => Exact'
BY DEF page, PageType, Faithful, Exact

LEMMA ForgottenPage ==
  ASSUME PageType, ForgetState
  PROVE  PageType' /\ state' = Null /\ current_state_index' = current_state_index
BY DEF ForgetState, PageType

=============================================================================
