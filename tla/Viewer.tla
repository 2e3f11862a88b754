------------------------------- MODULE Viewer -------------------------------
(***************************************************************************)
(* The page's copy of the simulation, state-management.js: the updates     *)
(* that came so far, the state the user looks at, and the steps backwards  *)
(* and forwards through the updates.                                       *)
(*                                                                         *)
(* Of a state three cells are kept: a register, which only some            *)
(* instructions write; mtime, which all of them change; and the output of  *)
(* the terminal.  The pc, the other registers, CSRs and words are handled  *)
(* as the register is.  A cell's value is the set of the instructions that *)
(* wrote it; mtime counts in halves of an instruction.                     *)
(***************************************************************************)
EXTENDS Integers, Sequences, FiniteSetsExt

CONSTANTS
  Program,     \* "alu" writes the register in a cycle, "print" the display in two
  Null

ASSUME ProgramAssumption == Program \in Seq({"alu", "print"})
ASSUME NullAssumption == Null \notin [run : Nat, updates : Seq([run : Nat, index : Nat])]

VARIABLES
  state,                 \* run and updates, or Null
  current_state,         \* the cells on display
  current_state_index,
  is_live,
  rewound                \* history: the last step through the updates went back

page == <<state, current_state, current_state_index, is_live, rewound>>

Cells == {"register", "time", "display"}

(* Cell x after the first k instructions.                                  *)
Value(x, k) ==
  CASE x = "register" -> {i \in 1..k : Program[i] = "alu"}
    [] x = "display"  -> {i \in 1..k : Program[i] = "print"}
    [] x = "time"     -> 2 * k

Machine(k) == [x \in Cells |-> Value(x, k)]

(* The k-th update has old and new values of the cells that change.  The   *)
(* clock merges the update of each cycle into the pending one, whose old   *)
(* value is that of the last cycle: half-way through a store.              *)
Changes(x, k) == x = "register" => Program[k] = "alu"
OldTime(k)    == IF Program[k] = "print" THEN 2 * k - 1 ELSE 2 * k - 2
Old(x, k)     == IF x = "time" THEN OldTime(k) ELSE Value(x, k - 1)

UpdateSet == [run : Nat, index : 1..Len(Program)]
Updates(r, n) == [i \in 1..n |-> [run |-> r, index |-> i]]

(* Updates i + 1 to j are applied in this order.                           *)
AppliedReversed(cells, i, j) ==   \* mutant: the last one first
  [x \in Cells |->
     LET writers == {k \in (i + 1)..j : Changes(x, k)}
     IN  IF writers = {} THEN cells[x] ELSE Value(x, Min(writers))]
Applied(cells, i, j) ==
  [x \in Cells |->
     LET writers == {k \in (i + 1)..j : Changes(x, k)}
     IN  IF writers = {} THEN cells[x] ELSE Value(x, Max(writers))]

(* They are taken back, the last one first.  The old output goes to a      *)
(* field of state that nobody reads, so the terminal keeps the new one.    *)
Restored(x) == x # "display"
Unapplied(cells, i, j) ==
  [x \in Cells |->
     LET writers == {k \in (i + 1)..j : Changes(x, k)}
     IN  IF writers = {} \/ ~Restored(x) THEN cells[x] ELSE Old(x, Min(writers))]

(* An update with this index is in the list.                               *)
Found(k) == \E i \in DOMAIN state.updates : state.updates[i].index = k

ViewInit ==
  /\ state = Null
  /\ current_state = Machine(0)
  /\ current_state_index = 0
  /\ is_live = TRUE
  /\ rewound = FALSE

-----------------------------------------------------------------------------
processFirstState(r) ==   \* mutant: a page that has a state keeps it
  IF state # Null THEN UNCHANGED page
  ELSE /\ state' = [run |-> r, updates |-> <<>>]
       /\ current_state' = Machine(0)
       /\ current_state_index' = 0
       /\ is_live' = TRUE
       /\ rewound' = FALSE

processInitialState(r) ==
  /\ state' = [run |-> r, updates |-> <<>>]
  /\ current_state' = Machine(0)
  /\ current_state_index' = 0
  /\ is_live' = TRUE
  /\ rewound' = FALSE

applyUpdate(k) ==
  /\ current_state' = Applied(current_state, k - 1, k)
  /\ current_state_index' = k
  /\ rewound' = FALSE

(* Without a state the push fails, and the update is forgotten.            *)
processUpdateLive(u) ==   \* mutant: what comes while the user looks back is not kept
  \/ /\ state = Null \/ ~is_live
     /\ UNCHANGED page
  \/ /\ state # Null /\ is_live
     /\ state' = [state EXCEPT !.updates = Append(@, u)]
     /\ applyUpdate(u.index)
     /\ UNCHANGED is_live
processUpdate(u) ==
  \/ /\ state = Null
     /\ UNCHANGED page
  \/ /\ state # Null
     /\ state' = [state EXCEPT !.updates = Append(@, u)]
     /\ IF is_live
          THEN applyUpdate(u.index)
          ELSE UNCHANGED <<current_state, current_state_index, rewound>>
     /\ UNCHANGED is_live

(* The answer to fetchCurrentState with n updates, and computeState: an    *)
(* empty list leaves the old index.                                        *)
computeState(r, n) ==
  /\ state' = [run |-> r, updates |-> Updates(r, n)]
  /\ current_state' = Applied(Machine(0), 0, n)
  /\ current_state_index' = IF n = 0 THEN current_state_index ELSE n
  /\ rewound' = FALSE
  /\ UNCHANGED is_live

ForgetState ==
  /\ state' = Null
  /\ UNCHANGED <<current_state, current_state_index, is_live, rewound>>

-----------------------------------------------------------------------------
(* Back to index i; a missing update ends the loop with an exception.      *)
StillLive(i) == is_live   \* mutant: a step back does not end live
LiveAt(i) == is_live /\ i = current_state_index
Undo(i) ==
  /\ current_state' = Unapplied(current_state, i, current_state_index)
  /\ current_state_index' = i
  /\ is_live' = LiveAt(i)
  /\ rewound' = (rewound \/ i # current_state_index)
  /\ UNCHANGED state

(* Missing updates from i to j.                                            *)
Gaps(i, j) == {k \in i..j : ~Found(k)}

stepBack ==
  /\ state # Null /\ current_state_index > 0 /\ Found(current_state_index)
  /\ Undo(current_state_index - 1)

stepToStart ==
  /\ state # Null
  /\ Undo(Max({0} \cup Gaps(1, current_state_index)))

(* Forwards to index i, or onto the first missing update, whose number is  *)
(* taken before it is looked for.                                          *)
Redo(i) ==
  LET gaps == Gaps(current_state_index + 1, i)
      last == IF gaps = {} THEN i ELSE Min(gaps) - 1
  IN  /\ current_state' = Applied(current_state, current_state_index, last)
      /\ current_state_index' = IF gaps = {} THEN i ELSE Min(gaps)
      /\ is_live' = IF last = current_state_index
                      THEN is_live ELSE last = Len(state.updates)
      /\ rewound' = (rewound /\ last = current_state_index)
      /\ UNCHANGED state

HasNext == state # Null /\ current_state_index < Len(state.updates)
AtEnd   == state # Null /\ current_state_index = Len(state.updates)

stepForward == HasNext /\ Redo(current_state_index + 1)
stepToEnd   == HasNext /\ Redo(Len(state.updates))

(* Both of them at the last state: go live, and ask for a step.            *)
GoLive ==
  /\ AtEnd
  /\ is_live' = TRUE
  /\ UNCHANGED <<state, current_state, current_state_index, rewound>>

Browse == stepBack \/ stepToStart \/ stepForward \/ stepToEnd

-----------------------------------------------------------------------------
(* What can be said of a page.                                             *)

CellValues(x) == IF x = "time" THEN 0..(2 * Len(Program)) ELSE SUBSET (1..Len(Program))

PageType ==
  /\ state = Null \/ state \in [run : Nat, updates : Seq(UpdateSet)]
  /\ DOMAIN current_state = Cells
  /\ \A x \in Cells : current_state[x] \in CellValues(x)
  /\ current_state_index \in Nat
  /\ is_live \in BOOLEAN /\ rewound \in BOOLEAN

(* The updates of a run are there in order, the user looks at one of its   *)
(* states, and live means the last one.                                    *)
Faithful ==
  /\ state.updates = Updates(state.run, Len(state.updates))
  /\ current_state_index <= Len(state.updates)
  /\ is_live => current_state_index = Len(state.updates)
  /\ current_state["register"] = Value("register", current_state_index)

Exact == ~rewound => current_state = Machine(current_state_index)
=============================================================================
