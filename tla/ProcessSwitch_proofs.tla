----------------------- MODULE ProcessSwitch_proofs -----------------------
(***************************************************************************)
(* Proofs about the scheduler of processswitch.s, for every register set,  *)
(* every set of values and programs, and every slice that is longer than   *)
(* the end of the handler.                                                 *)
(***************************************************************************)
EXTENDS ProcessSwitch, TLAPS

USE RegsAssumption, CodeAssumption, CyclesAssumption, QuantumAssumption

(* Cycle counts are positive and the slice outlasts boot and resume.       *)
LEMMA CycleFacts ==
  /\ \A s \in Stages \cup {"boot"} : Cycles[s] \in Nat /\ Cycles[s] > 0
  /\ Quantum \in Nat /\ Cycles["resume"] + 1 < Quantum /\ Cycles["boot"] + 1 < Quantum
  BY DEF Stages

(* Even if the core drops the first instruction of the handler, t0 and t1  *)
(* are both stored: this is what the second store of t0 is for.            *)
LEMMA BothStored == T0 \in Stored /\ T1 \in Stored
<1> DEFINE from == IF skipped THEN 2 ELSE 1
<1>1. Len(ScratchStores) = 3 /\ ScratchStores[2] = T0 /\ ScratchStores[3] = T1
  BY DEF ScratchStores
<1>2. from \in 1..2
  OBVIOUS
<1>3. 2 \in from..3 /\ 3 \in from..3
  BY <1>2
<1> QED
  BY <1>1, <1>3 DEF Stored

(* The inductive invariant holds at reset.                                 *)
LEMMA InitIInv == Init => IInv
<1> SUFFICES ASSUME Init PROVE IInv
  OBVIOUS
<1>1. TypeOK
  <2>1. left \in 0..Quantum /\ pid \in {0, 1}
    BY DEF Init
  <2>2. mtip \in BOOLEAN /\ skipped \in BOOLEAN
    BY DEF Init
  <2>3. /\ regs \in [Regs -> Values \cup {Scratch}]
        /\ save \in [{T0, T1} -> Values \cup {Scratch}]
        /\ pcb \in [Process -> [Regs -> Values \cup {Scratch}]]
        /\ epc \in [Process -> Code \cup {Null}]
    BY DEF Init, ZeroRegs
  <2> QED
    BY <2>1, <2>2, <2>3 DEF Init, TypeOK, Paths
<1>2. TimerInv
  BY DEF Init, TimerInv
<1>3. ContextInv
  BY DEF Init, ContextInv, Stages, ZeroRegs, Process
<1>4. TurnInv
  BY DEF Init, TurnInv, Switching, Process
<1> QED
  BY <1>1, <1>2, <1>3, <1>4 DEF IInv

(* Every step of the hart, of the timer and of the handler preserves it.   *)
LEMMA NextIInv == IInv /\ [Next]_vars => IInv'
<1> SUFFICES ASSUME IInv, [Next]_vars PROVE IInv'
  OBVIOUS
<1> USE CycleFacts DEF IInv
<1>1. CASE Boot
  <2>1. TypeOK'
    <3>1. left' \in 0..Quantum /\ pid' \in {0, 1}
      BY <1>1 DEF Boot, Stages
    <3>2. mtip' \in BOOLEAN
      BY <1>1 DEF Boot
    <3>3. regs' \in [Regs -> Values \cup {Scratch}]
      BY <1>1 DEF Boot, ZeroRegs
    <3> QED
      BY <1>1, <3>1, <3>2, <3>3 DEF Boot, TypeOK
  <2>2. TimerInv'
    BY <1>1 DEF Boot, TimerInv, TypeOK, Stages
  <2>3. ContextInv'
    BY <1>1 DEF Boot, ContextInv, Stages, ZeroRegs, Process
  <2>4. TurnInv'
    BY <1>1 DEF Boot, TurnInv, Switching, Process
  <2> QED
    BY <2>1, <2>2, <2>3, <2>4
<1>2. CASE UserStall
  <2>1. TypeOK'
    BY <1>2 DEF UserStall, TypeOK, Elapsed, TimerInv
  <2>2. TimerInv'
    BY <1>2 DEF UserStall, TimerInv, TypeOK, Elapsed
  <2>3. ContextInv'
    BY <1>2 DEF UserStall, ContextInv, Restored
  <2>4. TurnInv'
    BY <1>2 DEF UserStall, TurnInv, Clobber, ZeroRegs
  <2> QED
    BY <2>1, <2>2, <2>3, <2>4
<1>3. CASE UserExecute
  <2>1. TypeOK'
    BY <1>3 DEF UserExecute, TypeOK, Elapsed, TimerInv
  <2>2. TimerInv'
    BY <1>3 DEF UserExecute, TimerInv, TypeOK, Elapsed
  <2>3. ContextInv'
    BY <1>3 DEF UserExecute, ContextInv, Stages
  <2>4. TurnInv'
    BY <1>3 DEF UserExecute, TurnInv, Switching
  <2> QED
    BY <2>1, <2>2, <2>3, <2>4
<1>4. CASE TimerTrap
  <2>1. TypeOK'
    BY <1>4 DEF TimerTrap, TypeOK, Elapsed, TimerInv, Stages
  <2>2. TimerInv'
    BY <1>4 DEF TimerTrap, TimerInv, TypeOK, Elapsed
  <2>3. ContextInv'
    BY <1>4 DEF TimerTrap, ContextInv, TypeOK
  <2>4. TurnInv'
    BY <1>4 DEF TimerTrap, TurnInv, Switching
  <2> QED
    BY <2>1, <2>2, <2>3, <2>4
<1>5. CASE SaveScratch
  <2>0. /\ save' = [r \in {T0, T1} |-> regs[r]]
        /\ regs \in [Regs -> Values] /\ regs' = regs
    BY <1>5, BothStored DEF SaveScratch, ContextInv
  <2>1. TypeOK'
    <3>1. left' \in 0..Quantum
      BY <1>5 DEF SaveScratch, TypeOK, PassTime, Elapsed, Stages
    <3>2. mtip' \in BOOLEAN /\ skipped' \in BOOLEAN
      BY <1>5 DEF SaveScratch, PassTime, TypeOK
    <3>3. save' \in [{T0, T1} -> Values \cup {Scratch}]
      BY <2>0
    <3> QED
      BY <1>5, <3>1, <3>2, <3>3 DEF SaveScratch, TypeOK, Stages
  <2>2. TimerInv'
    BY <1>5 DEF SaveScratch, TimerInv, TypeOK, PassTime, Elapsed, Tick, Stages
  <2>3. ContextInv'
    BY <1>5, <2>0 DEF SaveScratch, ContextInv, Restored, Stages
  <2>4. TurnInv'
    BY <1>5 DEF SaveScratch, TurnInv, Switching
  <2> QED
    BY <2>1, <2>2, <2>3, <2>4
<1>6. CASE Dispatch
  <2>1. TypeOK'
    BY <1>6 DEF Dispatch, Toggled, TypeOK, PassTime, Elapsed, Tick, TimerInv, Stages, Paths, Clobber
  <2>2. TimerInv'
    BY <1>6 DEF Dispatch, Toggled, TimerInv, TypeOK, PassTime, Elapsed, Tick, Stages
  <2>3. Restored' = Restored
    BY <1>6 DEF Dispatch, Toggled, Restored, TypeOK, Clobber
  <2>4. ContextInv'
    BY <1>6, <2>3 DEF Dispatch, Toggled, ContextInv, Stages
  <2>5. TurnInv'
    BY <1>6 DEF Dispatch, Toggled, TurnInv, Switching, TypeOK
  <2> QED
    BY <2>1, <2>2, <2>4, <2>5
<1>7. CASE SaveContext
  <2>0. From(path) \in Process /\ Restored \in [Regs -> Values] /\ mepc \in Code
    BY <1>7 DEF SaveContext, From, Process, ContextInv, Stages
  <2>1. TypeOK'
    <3>1. regs' \in [Regs -> Values \cup {Scratch}]
      BY <1>7, <2>0 DEF SaveContext
    <3>2. pcb' \in [Process -> [Regs -> Values \cup {Scratch}]]
      BY <1>7, <2>0 DEF SaveContext, TypeOK
    <3>3. epc' \in [Process -> Code \cup {Null}]
      BY <1>7, <2>0 DEF SaveContext, TypeOK
    <3>4. mepc' \in Code \cup {Null}
      BY <1>7, <2>0 DEF SaveContext, TypeOK, Paths, Process
    <3>5. left' \in 0..Quantum
      BY <1>7 DEF SaveContext, TypeOK, PassTime, Elapsed, Stages
    <3>6. mtip' \in BOOLEAN
      BY <1>7 DEF SaveContext, PassTime, TypeOK
    <3> QED
      BY <1>7, <3>1, <3>2, <3>3, <3>4, <3>5, <3>6 DEF SaveContext, TypeOK, Stages
  <2>2. TimerInv'
    BY <1>7 DEF SaveContext, TimerInv, TypeOK, PassTime, Elapsed, Tick, Stages
  <2>3. ContextInv'
    <3>1. pcb' \in [Process -> [Regs -> Values]]
      BY <1>7, <2>0 DEF SaveContext, ContextInv
    <3>2. mepc' \in Code
      BY <1>7, <2>0 DEF SaveContext, TypeOK, Paths, TurnInv, Process
    <3>3. epc'[0] \in Code
      BY <1>7, <2>0 DEF SaveContext, TypeOK, From, TurnInv, ContextInv, Process
    <3> QED
      BY <1>7, <3>1, <3>2, <3>3 DEF SaveContext, ContextInv
  <2>4. TurnInv'
    <3>1. epc'[1] # Null
      BY <1>7, <2>0 DEF SaveContext, TypeOK, From, TurnInv, Process
    <3>2. path # "onetozero" => mepc' = epc'[1]
      BY <1>7, <2>0 DEF SaveContext, TypeOK, From, Paths, Process
    <3>3. path = "first" => mepc' = Entry1
      BY <1>7 DEF SaveContext
    <3> QED
      BY <1>7, <3>1, <3>2, <3>3 DEF SaveContext, TurnInv, Switching
  <2> QED
    BY <2>1, <2>2, <2>3, <2>4
<1>8. CASE ClearPending
  <2>1. TypeOK'
    <3>1. left' \in 0..Quantum
      BY <1>8 DEF ClearPending, Masked, TypeOK, Elapsed, Stages
    <3>2. mtip' \in BOOLEAN
      BY <1>8 DEF ClearPending, Masked
    <3>3. regs' \in [Regs -> Values \cup {Scratch}]
      BY <1>8 DEF ClearPending, Masked, TypeOK, Clobber
    <3> QED
      BY <1>8, <3>1, <3>2, <3>3 DEF ClearPending, Masked, TypeOK, Stages
  <2>2. TimerInv'
    BY <1>8 DEF ClearPending, Masked, TimerInv, TypeOK, Elapsed, Stages
  <2>3. ContextInv'
    BY <1>8 DEF ClearPending, Masked, ContextInv, Stages
  <2>4. TurnInv'
    BY <1>8 DEF ClearPending, Masked, TurnInv, Switching
  <2> QED
    BY <2>1, <2>2, <2>3, <2>4
<1>9. CASE RearmTimer
  <2>1. TypeOK'
    BY <1>9 DEF RearmTimer, Rearmed, TypeOK, TimerInv, Stages, Clobber, ZeroRegs
  <2>2. TimerInv'
    BY <1>9 DEF RearmTimer, Rearmed, TimerInv, TypeOK, Tick, Stages
  <2>3. ContextInv'
    BY <1>9 DEF RearmTimer, Rearmed, ContextInv, Stages
  <2>4. TurnInv'
    BY <1>9 DEF RearmTimer, Rearmed, TurnInv, Switching, Clobber, ZeroRegs
  <2> QED
    BY <2>1, <2>2, <2>3, <2>4
<1>10. CASE Resume
  <2>0. /\ To(path) \in Process
        /\ path = "first" => regs' = ZeroRegs
        /\ epc[1] # Null
    BY <1>10 DEF Resume, To, From, Process, TurnInv, Clobber, ZeroRegs, Switching
  <2>1. regs' \in [Regs -> Values]
    BY <1>10, <2>0 DEF Resume, ContextInv, ZeroRegs
  <2>2. mepc' \in Code
    BY <1>10, <2>0 DEF Resume, ContextInv, Stages
  <2>3. TypeOK'
    BY <1>10, <2>1, <2>2 DEF Resume, TypeOK, Elapsed, Tick, TimerInv, Stages
  <2>4. TimerInv'
    BY <1>10 DEF Resume, TimerInv, TypeOK, Elapsed, Tick, Stages
  <2>5. ContextInv'
    BY <1>10, <2>1, <2>2 DEF Resume, ContextInv, Stages
  <2>6. TurnInv'
    BY <1>10, <2>0 DEF Resume, TurnInv, Switching
  <2> QED
    BY <2>3, <2>4, <2>5, <2>6
<1>11. CASE UNCHANGED vars
  <2>1. TypeOK' /\ TimerInv'
    BY <1>11 DEF vars, TypeOK, TimerInv
  <2>2. ContextInv'
    BY <1>11 DEF vars, ContextInv, Restored
  <2>3. TurnInv'
    BY <1>11 DEF vars, TurnInv, Clobber, ZeroRegs
  <2> QED
    BY <2>1, <2>2, <2>3
<1> QED
  BY <1>1, <1>2, <1>3, <1>4, <1>5, <1>6, <1>7, <1>8, <1>9, <1>10, <1>11
  DEF Next, User, Handler

(* The invariant of the scheduler: types, timer, contexts and whose turn   *)
(* it is.                                                                  *)
THEOREM Invariance == Spec => []IInv
  BY InitIInv, NextIInv, PTL DEF Spec

(* Type correctness of the scheduler.                                      *)
THEOREM TypeCorrect == Spec => []TypeOK
<1>1. IInv => TypeOK
  BY DEF IInv
<1> QED
  BY <1>1, Invariance, PTL

(* User code always has a timer interrupt ahead of it.                     *)
THEOREM AlwaysPreempted == Spec => []PreemptionAhead
<1>1. IInv => PreemptionAhead
  BY DEF IInv, TimerInv, PreemptionAhead, TypeOK
<1> QED
  BY <1>1, Invariance, PTL

(* Every switch gives the next process part of its slice.                  *)
THEOREM SlicesNotEmpty == Spec => SliceNotEmpty
<1>1. IInv /\ [Next]_vars => [stage = "resume" /\ stage' = "user" => ~mtip' /\ left' > 1]_vars
  <2> SUFFICES ASSUME IInv, Next, stage = "resume", stage' = "user"
               PROVE  ~mtip' /\ left' > 1
    BY DEF vars
  <2>1. Resume
    BY DEF Next, User, Handler, Boot, UserStall, UserExecute, TimerTrap,
           SaveScratch, Dispatch, SaveContext, ClearPending, RearmTimer
  <2> QED
    BY <2>1, CycleFacts DEF Resume, IInv, TimerInv, TypeOK, Elapsed, Tick, Stages
<1> QED
  BY <1>1, Invariance, PTL DEF Spec, SliceNotEmpty

-----------------------------------------------------------------------------
(* The refinement.  A step leaves every context where its process finds it *)
(* again and only a return from the handler changes whose turn it is.      *)

(* At reset both contexts are the starting ones and process 0 runs.        *)
LEMMA InitContexts ==
  Init => Running = 0 /\ \A p \in Process : ContextOf(p) = Starting[p]
  BY DEF Init, Running, Switching, ContextOf, Live, Parked, Starting, Process

(* A user cycle changes at most the running process's context, to one that *)
(* a process can be in.                                                    *)
LEMMA ExecuteContexts ==
  ASSUME IInv, UserExecute
  PROVE  /\ Running' = Running
         /\ Running \in Process
         /\ \A p \in Process \ {Running} : ContextOf(p)' = ContextOf(p)
         /\ ContextOf(Running)' \in [regs : [Regs -> Values], pc : Code]
<1>1. Running' = Running /\ Running \in Process
  BY DEF IInv, TypeOK, UserExecute, Running, Switching, Process
<1>2. \A p \in Process \ {Running} : ContextOf(p)' = ContextOf(p)
  BY <1>1 DEF UserExecute, ContextOf, Parked, Starting, Switching, ZeroRegs
<1>3. regs' \in [Regs -> Values] /\ upc' \in Code
  BY DEF IInv, ContextInv, UserExecute
<1>4. ContextOf(Running)' = [regs |-> regs', pc |-> upc']
  BY <1>1 DEF UserExecute, ContextOf, Live, Switching
<1> QED
  BY <1>1, <1>2, <1>3, <1>4

(* The return from the handler hands over; both contexts are what they     *)
(* were.                                                                   *)
LEMMA ResumeContexts ==
  ASSUME IInv, Resume
  PROVE  /\ Running' = 1 - Running
         /\ \A p \in Process : ContextOf(p)' = ContextOf(p)
<1> USE DEF Switching, Process
<1>1. path \in Paths /\ pid \in {0, 1} /\ epc[1] # Null
  BY DEF IInv, TypeOK, TurnInv, Resume
<1>2. /\ path = "first" => pid = 0
      /\ path = "onetozero" => pid = 1
      /\ path = "zerotoone" => pid = 0
  BY <1>1 DEF IInv, TurnInv, Resume
<1>3. Running = From(path) /\ Running' = 1 - pid
  BY <1>1 DEF Running, Resume
<1>4. Running' = To(path) /\ To(path) = 1 - Running
  BY <1>1, <1>2, <1>3 DEF From, To, Paths
<1>5. ASSUME NEW p \in Process, p = From(path)
      PROVE  ContextOf(p)' = ContextOf(p)
  <2>1. From(path) \in Process /\ To(path) \in Process /\ From(path) # To(path)
    BY <1>1 DEF From, To
  <2>2. From(path) = 1 => path = "onetozero"
    BY DEF From
  <2>3. ContextOf(p) = [regs |-> pcb[p], pc |-> epc[p]]
    BY <1>1, <1>5, <2>1, <2>2 DEF ContextOf, Parked, Resume
  <2>4. ContextOf(p)' = [regs |-> pcb[p], pc |-> epc[p]]
    BY <1>1, <1>4, <1>5, <2>1, <2>2 DEF ContextOf, Parked, Resume, From
  <2> QED
    BY <2>3, <2>4
<1>6. ASSUME NEW p \in Process, p = To(path)
      PROVE  ContextOf(p)' = ContextOf(p)
  <2>1. ContextOf(p)' = [regs |-> regs', pc |-> mepc']
    BY <1>4, <1>6 DEF ContextOf, Live, Resume, To, From
  <2>2. CASE path = "first"
    <3>1. regs = Clobber(ZeroRegs) /\ mepc = Entry1
      BY <2>2 DEF IInv, TurnInv, Resume
    <3>2. regs' = ZeroRegs /\ mepc' = Entry1
      BY <2>2, <3>1 DEF Resume, Clobber, ZeroRegs
    <3>3. ContextOf(p) = Starting[1]
      BY <2>2, <1>3, <1>6 DEF ContextOf, Parked, Resume, To, From
    <3> QED
      BY <2>1, <3>2, <3>3 DEF Starting
  <2>3. CASE path # "first"
    <3>1. regs' = pcb[To(path)] /\ mepc' = epc[To(path)]
      BY <2>3, <1>1 DEF Resume, IInv, TurnInv, To, From, Paths
    <3>2. ContextOf(p) = [regs |-> pcb[p], pc |-> epc[p]]
      BY <2>3, <1>1, <1>3, <1>6 DEF ContextOf, Parked, Resume
    <3> QED
      BY <1>6, <2>1, <3>1, <3>2
  <2> QED
    BY <2>2, <2>3
<1>7. Process = {From(path), To(path)}
  BY DEF From, To
<1> QED
  BY <1>3, <1>4, <1>5, <1>6, <1>7

(* Every other step leaves both contexts and the turn alone.               *)
LEMMA OtherContexts ==
  ASSUME IInv,
         \/ Boot \/ UserStall \/ TimerTrap \/ SaveScratch \/ Dispatch
         \/ SaveContext \/ ClearPending \/ RearmTimer \/ UNCHANGED vars
  PROVE  /\ Running' = Running
         /\ \A p \in Process : ContextOf(p)' = ContextOf(p)
<1> USE DEF Switching
<1>1. CASE Boot
  BY <1>1 DEF Boot, IInv, TurnInv, Running, ContextOf, Live, Parked, Starting, ZeroRegs
<1>2. CASE UserStall
  BY <1>2 DEF UserStall, Running, ContextOf, Live, Parked, Starting, ZeroRegs
<1>3. CASE TimerTrap
  <2>1. Running' = Running
    BY <1>3 DEF TimerTrap, Running
  <2>2. Live' = Live
    BY <1>3 DEF TimerTrap, Live
  <2>3. ASSUME NEW p \in Process PROVE Parked(p)' = Parked(p)
    BY <1>3 DEF TimerTrap, Parked, Starting, ZeroRegs
  <2> QED
    BY <1>3, <2>1, <2>2, <2>3 DEF TimerTrap, ContextOf
<1>4. CASE SaveScratch
  <2>1. Restored' = regs
    BY <1>4, BothStored DEF SaveScratch, Restored, IInv, TypeOK
  <2> QED
    BY <1>4, <2>1 DEF SaveScratch, Running, ContextOf, Live, Parked, Starting, ZeroRegs
<1>5. CASE Dispatch
  <2>1. Restored' = Restored
    BY <1>5 DEF Dispatch, Toggled, Restored, IInv, TypeOK, Clobber
  <2>2. Running' = Running
    BY <1>5 DEF Dispatch, Toggled, Running, From, IInv, TypeOK, TurnInv
  <2> QED
    BY <1>5, <2>1, <2>2 DEF Dispatch, Toggled, ContextOf, Live, Parked, Starting, ZeroRegs
<1>6. CASE SaveContext
  <2>1. Running' = Running /\ Running = From(path) /\ From(path) \in Process
    BY <1>6 DEF SaveContext, Running, From, Process
  <2>3. /\ pcb'[From(path)] = Restored
        /\ epc'[From(path)] = mepc
        /\ path # "first" =>
             \A p \in Process \ {From(path)} : pcb'[p] = pcb[p] /\ epc'[p] = epc[p]
        /\ path = "first" => From(path) = 0
    BY <1>6, <2>1 DEF SaveContext, IInv, TypeOK, From, Process
  <2>4. From(path) = 1 => path = "onetozero"
    BY DEF From
  <2>5. path = "first" <=> epc[1] = Null
    BY <1>6 DEF SaveContext, IInv, TurnInv
  <2>6. epc'[1] # Null
    BY <1>6, <2>1, <2>5 DEF SaveContext, IInv, TypeOK, ContextInv, From, Process, Stages
  <2>7. ASSUME NEW p \in Process, p = From(path)
        PROVE  ContextOf(p)' = ContextOf(p)
    <3>1. ContextOf(p) = [regs |-> Restored, pc |-> mepc]
      BY <1>6, <2>1, <2>7 DEF SaveContext, ContextOf, Live
    <3>2. ContextOf(p)' = [regs |-> Restored, pc |-> mepc]
      BY <1>6, <2>1, <2>3, <2>4, <2>6, <2>7 DEF SaveContext, ContextOf, Parked
    <3> QED
      BY <3>1, <3>2
  <2>8. ASSUME NEW p \in Process \ {From(path)}
        PROVE  ContextOf(p)' = ContextOf(p)
    <3>1. CASE path = "first"
      BY <1>6, <2>1, <2>5, <3>1
      DEF SaveContext, ContextOf, Parked, Starting, ZeroRegs, From, Process
    <3>2. CASE path # "first"
      BY <1>6, <2>1, <2>3, <2>5, <2>6, <3>2 DEF SaveContext, ContextOf, Parked
    <3> QED
      BY <3>1, <3>2
  <2> QED
    BY <2>1, <2>7, <2>8
<1>7. CASE ClearPending
  BY <1>7 DEF ClearPending, Masked, Running, ContextOf, Parked, Starting, ZeroRegs, From
<1>8. CASE RearmTimer
  BY <1>8 DEF RearmTimer, Rearmed, Running, ContextOf, Parked, Starting, ZeroRegs, From
<1>9. CASE UNCHANGED vars
  BY <1>9 DEF vars, Running, ContextOf, Live, Restored, Parked, Starting, ZeroRegs, From
<1> QED
  BY <1>1, <1>2, <1>3, <1>4, <1>5, <1>6, <1>7, <1>8, <1>9

(* The scheduler implements time sharing: whatever the programs compute    *)
(* and whenever the ticks fall, each process finds its own registers and   *)
(* pc again, unharmed by the handler, and the processor alternates between *)
(* the two.                                                                *)
THEOREM Refinement == Spec => ImplementsTimeSharing
<1>1. Init => TS!Init
  BY InitContexts DEF TS!Init, Starting, Init, InHandler, Stages
<1>2. IInv /\ [Next]_vars => [TS!Next]_(TS!vars)
  <2> SUFFICES ASSUME IInv, [Next]_vars
               PROVE  TS!Next \/ UNCHANGED TS!vars
    OBVIOUS
  <2>1. CASE UserExecute
    <3> DEFINE c == ContextOf(Running)'
    <3>1. c \in [regs : [Regs -> Values], pc : Code] /\ Running' = Running
      BY <2>1, ExecuteContexts
    <3>2. [p \in Process |-> ContextOf(p)]'
            = [[p \in Process |-> ContextOf(p)] EXCEPT ![Running] = c]
      BY <2>1, ExecuteContexts
    <3>3. ~InHandler /\ InHandler' = InHandler
      BY <2>1 DEF UserExecute, InHandler, Stages
    <3> QED
      BY <3>1, <3>2, <3>3 DEF TS!Next, TS!Run
  <2>2. CASE TimerTrap
    <3>1. ~InHandler /\ InHandler'
      BY <2>2 DEF TimerTrap, InHandler, Stages
    <3> QED
      BY <2>2, <3>1, OtherContexts DEF TS!Next, TS!Interrupt
  <2>3. CASE Resume
    <3>1. InHandler /\ ~InHandler'
      BY <2>3 DEF Resume, InHandler, Stages
    <3> QED
      BY <2>3, <3>1, ResumeContexts DEF TS!Next, TS!Switch
  <2>4. CASE ~(UserExecute \/ TimerTrap \/ Resume)
    <3>1. InHandler' = InHandler
      BY <2>4 DEF Next, User, Handler, vars, InHandler, Stages, Boot, UserStall,
                  SaveScratch, Dispatch, SaveContext, ClearPending, RearmTimer
    <3> QED
      BY <2>4, <3>1, OtherContexts DEF TS!vars, Next, User, Handler
  <2> QED
    BY <2>1, <2>2, <2>3, <2>4
<1> QED
  BY <1>1, <1>2, Invariance, PTL DEF Spec, TS!Spec, ImplementsTimeSharing
=============================================================================
