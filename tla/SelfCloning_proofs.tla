------------------------- MODULE SelfCloning_proofs -------------------------
(***************************************************************************)
(* The invariant of the self-cloning program on the kernel, and from it    *)
(* what a step may store and whom the timer hands over to, for any number  *)
(* of processes and any slices.                                            *)
(***************************************************************************)
EXTENDS SelfCloning, TLAPS

-----------------------------------------------------------------------------
(* The program and the register file.                                      *)

LEMMA Addresses ==
  /\ Program = {"justborn", "clone", "born", "ask", "getpid", "address",
                "fibonacci", "loop", "store", "again"}
  /\ Code = Program /\ Null \notin Code
  /\ Entry = "justborn" /\ Plus4["clone"] = "born" /\ Plus4["getpid"] = "address"
BY CodeAssumption, SelfCloningAssumption DEF Program, NextAddress

LEMMA Registers ==
  /\ Regs = {A0, A1, A7, X1, X3, T1, T2}
  /\ A0 # A1 /\ A0 # A7 /\ A0 # X1 /\ A0 # X3 /\ A1 # A7 /\ A1 # X1 /\ A1 # X3
  /\ A7 # X1 /\ A7 # X3 /\ X1 # X3
  /\ {A0, A1, A7, X1, X3} \cap {T1, T2} = {}
  /\ T1 # T2
BY RegsAssumption, SelfCloningAssumption DEF ProgramRegs

LEMMA Words ==
  /\ N \in Nat /\ N >= 2
  /\ 0..N \subseteq Values /\ Failed \in Values /\ Failed \notin 0..N
  /\ CLONE \in Values /\ GETPID \in Values /\ CLONE # GETPID
  /\ 0 \in Values
<1>1. N \in Nat /\ N >= 2
  BY NAssumption
<1>2. 0 \in 0..N
  BY <1>1
<1> QED
  BY <1>1, <1>2, RegsAssumption, SelfCloningAssumption DEF CLONE, GETPID

(* t1 and t2 are no registers of the program, so it sees its own.          *)
LEMMA RestoredRegs ==
  ASSUME TypeOK
  PROVE  /\ Restored \in [Regs -> Values]
         /\ \A r \in {A0, A1, A7, X1, X3} : Restored[r] = regs[r]
<1>1. regs \in [Regs -> Values] /\ save \in [{T1, T2} -> Values]
  BY DEF TypeOK
<1>2. save[T1] \in Values /\ save[T2] \in Values
  BY <1>1
<1> QED
  BY <1>1, <1>2, Registers DEF Restored

(* Holds looks at the registers of the program only.                       *)
LEMMA HoldsAgrees ==
  ASSUME NEW p, NEW pc, NEW r, NEW q, Holds(p, pc, r),
         \A x \in {A0, A1, A7, X1, X3} : q[x] = r[x]
  PROVE  Holds(p, pc, q)
<1>1. q[A0] = r[A0] /\ q[A1] = r[A1] /\ q[A7] = r[A7] /\ q[X1] = r[X1] /\ q[X3] = r[X3]
  OBVIOUS
<1> QED
  BY <1>1 DEF Holds

(* Wherever a process was stopped, it can go on behind the first clone.    *)
LEMMA HoldsBorn ==
  ASSUME NEW p, NEW pc, NEW r, Holds(p, pc, r)
  PROVE  Holds(p, "born", r)
BY DEF Holds

-----------------------------------------------------------------------------
(* Time.                                                                   *)

LEMMA ElapsedType == TypeOK => Elapsed \in Nat
BY DEF TypeOK, Elapsed

LEMMA PassTimeType ==
  ASSUME TypeOK, PassTime \/ PassTimeToMret
  PROVE  left' \in Nat /\ mtip' \in BOOLEAN
<1>1. left' \in Nat
  BY ElapsedType DEF PassTime, PassTimeToMret
<1>2. mtip' \in {mtip, mtip \/ left = 1} /\ mtip \in BOOLEAN
  BY Zenon DEF PassTime, PassTimeToMret, TypeOK
<1>3. mtip' \in BOOLEAN
  BY <1>2, Zenon
<1> QED
  BY <1>1, <1>3

LEMMA RearmedType ==
  ASSUME NEW l \in Rearmed
  PROVE  l \in Nat
BY SlicesAssumption DEF Rearmed

-----------------------------------------------------------------------------
(* The invariant holds at reset.                                           *)
LEMMA InitIInv == SelfInit => IInv
<1> SUFFICES ASSUME SelfInit PROVE IInv
  OBVIOUS
<1>1. ZeroRegs \in [Regs -> Values]
  BY Words DEF ZeroRegs
<1>2. /\ stage \in Stages /\ stage = "boot"
      /\ mcause \in {"timer", "ecall"} /\ left \in Nat /\ access = FALSE
      /\ upc \in Code /\ mepc \in Code \cup {Null}
  BY CodeAssumption DEF SelfInit, Init, Stages
<1>3. mtip \in BOOLEAN /\ skipped \in BOOLEAN
  BY DEF SelfInit, Init
<1>4. /\ save \in [{T1, T2} -> Values]
      /\ slots \in [Process -> Code \cup {Null}]
      /\ active \in [1..(N + 2) -> {0, 1}]
      /\ pcb \in [Process -> [Regs -> Values]]
  BY <1>1, Words DEF SelfInit, Init
<1>5. count \in 0..N /\ current = 0 /\ count = 0
  BY Words DEF SelfInit, Init
<1>6. result \in [Process -> 0..N]
  BY Words DEF SelfInit
<1>7. TypeOK
  BY <1>1, <1>2, <1>3, <1>4, <1>5, <1>6 DEF SelfInit, Init, TypeOK
<1>8. RunningInv
  BY <1>2 DEF RunningInv
<1>9. WaitingInv
  BY <1>2, <1>5 DEF WaitingInv
<1>10. FlagsInv
  BY <1>5, Words DEF SelfInit, Init, FlagsInv
<1> QED
  BY <1>2, <1>5, <1>7, <1>8, <1>9, <1>10 DEF IInv

-----------------------------------------------------------------------------
(* The user program.  An instruction leaves the kernel's memory alone, so  *)
(* that it preserves the invariant if it leaves the right registers.       *)
LEMMA ExecuteIInv ==
  ASSUME IInv, NEW pc \in Program, NEW next \in Program, Execute(pc, next),
         regs' \in [Regs -> Values], Holds(current, next, regs'),
         access' \in BOOLEAN, access' => next = "store",
         result' \in [Process -> 0..N]
  PROVE  IInv'
<1> USE DEF IInv
<1>1. /\ stage = "user" /\ stage' = "user" /\ upc' = next
      /\ UNCHANGED <<mepc, mcause, skipped, save, count, current, slots, active, pcb>>
  BY DEF Execute, kernel
<1>2. left' \in Nat /\ mtip' \in BOOLEAN
  BY PassTimeType DEF Execute
<1>3. TypeOK'
  BY <1>1, <1>2, Addresses DEF TypeOK
<1>4. Holds(current, upc, regs)'
  BY <1>1 DEF Holds
<1>5. RunningInv'
  BY <1>1, <1>4 DEF RunningInv
<1>6. WaitingInv'
  BY <1>1 DEF WaitingInv, Holds
<1>7. FlagsInv'
  BY <1>1 DEF FlagsInv
<1> QED
  BY <1>1, <1>3, <1>5, <1>6, <1>7

LEMMA JustBornIInv == IInv /\ JustBorn => IInv'
<1> SUFFICES ASSUME IInv, JustBorn PROVE IInv'
  OBVIOUS
<1>1. Execute("justborn", "clone") /\ regs' = [regs EXCEPT ![A7] = CLONE] /\ Quiet
  BY DEF JustBorn
<1>2. Holds(current, "justborn", regs) /\ regs \in [Regs -> Values] /\ access = FALSE
  BY <1>1 DEF IInv, RunningInv, Execute, TypeOK
<1>3. regs' \in [Regs -> Values]
  BY <1>1, <1>2, Words
<1>4. Holds(current, "clone", regs')
  BY <1>1, <1>2, Registers DEF Holds
<1>5. access' = FALSE /\ result' \in [Process -> 0..N]
  BY <1>1, <1>2 DEF Quiet, IInv, TypeOK
<1> QED
  BY <1>1, <1>3, <1>4, <1>5, ExecuteIInv, Addresses

LEMMA BornIInv == IInv /\ Born => IInv'
<1> SUFFICES ASSUME IInv, Born PROVE IInv'
  OBVIOUS
<1> DEFINE next == IF BornTest THEN "justborn" ELSE "ask"
<1>1. Execute("born", next) /\ regs' = regs /\ Quiet
  BY DEF Born
<1>2. Holds(current, "born", regs) /\ regs \in [Regs -> Values] /\ access = FALSE
  BY <1>1 DEF IInv, RunningInv, Execute, TypeOK
<1>3. Holds(current, next, regs')
  BY <1>1, <1>2 DEF Holds, BornTest
<1>4. access' = FALSE /\ result' \in [Process -> 0..N]
  BY <1>1, <1>2 DEF Quiet, IInv, TypeOK
<1>5. next \in Program
  BY Addresses
<1> QED
  BY <1>1, <1>2, <1>3, <1>4, <1>5, ExecuteIInv, Addresses

LEMMA AskIInv == IInv /\ Ask => IInv'
<1> SUFFICES ASSUME IInv, Ask PROVE IInv'
  OBVIOUS
<1>1. Execute("ask", "getpid") /\ regs' = [regs EXCEPT ![A7] = GETPID] /\ Quiet
  BY DEF Ask
<1>2. Holds(current, "ask", regs) /\ regs \in [Regs -> Values] /\ access = FALSE
  BY <1>1 DEF IInv, RunningInv, Execute, TypeOK
<1>3. regs' \in [Regs -> Values]
  BY <1>1, <1>2, Words
<1>4. Holds(current, "getpid", regs')
  BY <1>1, <1>2, Registers DEF Holds
<1>5. access' = FALSE /\ result' \in [Process -> 0..N]
  BY <1>1, <1>2 DEF Quiet, IInv, TypeOK
<1> QED
  BY <1>1, <1>3, <1>4, <1>5, ExecuteIInv, Addresses

LEMMA AddressIInv == IInv /\ Address => IInv'
<1> SUFFICES ASSUME IInv, Address PROVE IInv'
  OBVIOUS
<1>1. /\ Execute("address", "fibonacci") /\ Quiet
      /\ regs' = [regs EXCEPT ![A1] = regs[A0], ![A7] = 0]
  BY DEF Address
<1>2. Holds(current, "address", regs) /\ regs \in [Regs -> Values] /\ access = FALSE
  BY <1>1 DEF IInv, RunningInv, Execute, TypeOK
<1>3. regs' \in [Regs -> Values]
  BY <1>1, <1>2, Words, Registers
<1>4. Holds(current, "fibonacci", regs')
  BY <1>1, <1>2, Registers DEF Holds
<1>5. access' = FALSE /\ result' \in [Process -> 0..N]
  BY <1>1, <1>2 DEF Quiet, IInv, TypeOK
<1> QED
  BY <1>1, <1>3, <1>4, <1>5, ExecuteIInv, Addresses

LEMMA FibonacciIInv == IInv /\ Fibonacci => IInv'
<1> SUFFICES ASSUME IInv, Fibonacci PROVE IInv'
  OBVIOUS
<1>1. /\ Execute("fibonacci", "loop") /\ Quiet
      /\ regs' = [regs EXCEPT ![X3] = regs[A0], ![X1] = 0]
  BY DEF Fibonacci
<1>2. Holds(current, "fibonacci", regs) /\ regs \in [Regs -> Values] /\ access = FALSE
  BY <1>1 DEF IInv, RunningInv, Execute, TypeOK
<1>3. regs' \in [Regs -> Values]
  BY <1>1, <1>2, Words, Registers
<1>4. current \in Nat /\ current >= 1
  BY <1>1, Words DEF IInv, Execute, TypeOK
<1>5. Holds(current, "loop", regs')
  BY <1>1, <1>2, <1>4, Registers DEF Holds
<1>6. access' = FALSE /\ result' \in [Process -> 0..N]
  BY <1>1, <1>2 DEF Quiet, IInv, TypeOK
<1> QED
  BY <1>1, <1>3, <1>5, <1>6, ExecuteIInv, Addresses

LEMMA LoopIInv == IInv /\ Loop => IInv'
<1> SUFFICES ASSUME IInv, Loop PROVE IInv'
  OBVIOUS
<1> DEFINE next == IF regs[X3] = 1 THEN "store" ELSE "loop"
<1>1. /\ Execute("loop", next) /\ Quiet
      /\ regs' = [regs EXCEPT ![X1] = @ + 1, ![X3] = @ - 1]
  BY DEF Loop
<1>2. Holds(current, "loop", regs) /\ regs \in [Regs -> Values] /\ access = FALSE
  BY <1>1 DEF IInv, RunningInv, Execute, TypeOK
<1>3. current \in 1..N
  BY <1>1, Words DEF IInv, Execute, TypeOK, Process
<1>4. regs[X3] \in 1..current /\ regs[X1] = current - regs[X3]
  BY <1>2 DEF Holds
<1>5. regs[X1] + 1 \in 0..N /\ regs[X3] - 1 \in 0..N
  BY <1>3, <1>4, Words
<1>6. regs' \in [Regs -> Values]
  BY <1>1, <1>2, <1>5, Words
<1>7. regs'[X1] = regs[X1] + 1 /\ regs'[X3] = regs[X3] - 1
  BY <1>1, <1>2, Registers
<1>8. regs'[A0] = regs[A0] /\ regs'[A1] = regs[A1]
  BY <1>1, <1>2, Registers
<1>9. Holds(current, next, regs')
  BY <1>2, <1>3, <1>4, <1>7, <1>8, Words DEF Holds
<1>10. access' = FALSE /\ result' \in [Process -> 0..N]
  BY <1>1, <1>2 DEF Quiet, IInv, TypeOK
<1>11. next \in Program
  BY Addresses
<1> QED
  BY <1>1, <1>6, <1>9, <1>10, <1>11, ExecuteIInv, Addresses

(* What is stored at the end of a round, by the store or in its last cycle *)
(* at an interruption, is the pid, and at the pid.                         *)
LEMMA StoredResult ==
  ASSUME IInv, stage = "user", upc = "store",
         result' = [result EXCEPT ![regs[A1]] = regs[X1]]
  PROVE  /\ result' \in [Process -> 0..N]
         /\ \A i \in Process : result'[i] # result[i] => i = current /\ result'[i] = i
<1>1. Holds(current, "store", regs) /\ result \in [Process -> 0..N]
  BY DEF IInv, RunningInv, TypeOK
<1>2. current \in Process /\ current \in 0..N
  BY Words DEF IInv, TypeOK, Process
<1>3. result' = [result EXCEPT ![current] = current]
  BY <1>1 DEF Holds
<1> QED
  BY <1>1, <1>2, <1>3

LEMMA StoreIInv == IInv /\ (StoreFirst \/ StoreSecond) => IInv'
<1> SUFFICES ASSUME IInv, StoreFirst \/ StoreSecond PROVE IInv'
  OBVIOUS
<1>1. stage = "user" /\ upc = "store" /\ regs' = regs
  BY DEF StoreFirst, StoreSecond, Execute
<1>2. Holds(current, "store", regs) /\ regs \in [Regs -> Values]
  BY <1>1 DEF IInv, RunningInv, TypeOK
<1>3. Holds(current, "again", regs)
  BY <1>2 DEF Holds
<1>4. CASE StoreFirst
  <2>1. Execute("store", "store") /\ access' = TRUE /\ result' \in [Process -> 0..N]
    BY <1>4 DEF StoreFirst, IInv, TypeOK
  <2> QED
    BY <1>1, <1>2, <2>1, ExecuteIInv, Addresses
<1>5. CASE StoreSecond
  <2>1. Execute("store", "again") /\ access' = FALSE
    BY <1>5 DEF StoreSecond
  <2>2. result' \in [Process -> 0..N]
    BY <1>1, <1>5, StoredResult DEF StoreSecond
  <2> QED
    BY <1>1, <1>2, <1>3, <2>1, <2>2, ExecuteIInv, Addresses
<1> QED
  BY <1>4, <1>5

LEMMA AgainIInv == IInv /\ Again => IInv'
<1> SUFFICES ASSUME IInv, Again PROVE IInv'
  OBVIOUS
<1>1. Execute("again", "fibonacci") /\ regs' = regs /\ Quiet
  BY DEF Again
<1>2. Holds(current, "again", regs) /\ regs \in [Regs -> Values] /\ access = FALSE
  BY <1>1 DEF IInv, RunningInv, Execute, TypeOK
<1>3. Holds(current, "fibonacci", regs')
  BY <1>1, <1>2 DEF Holds
<1>4. access' = FALSE /\ result' \in [Process -> 0..N]
  BY <1>1, <1>2 DEF Quiet, IInv, TypeOK
<1> QED
  BY <1>1, <1>2, <1>3, <1>4, ExecuteIInv, Addresses

-----------------------------------------------------------------------------
(* Into the handler: mepc is the pc of the user.                           *)

LEMMA CallIInv == IInv /\ Call => IInv'
<1> SUFFICES ASSUME IInv, Call PROVE IInv'
  OBVIOUS
<1> USE DEF IInv
<1>1. /\ stage = "user" /\ upc \in {"clone", "getpid"}
      /\ stage' = "entry" /\ mepc' = upc /\ mcause' = "ecall"
      /\ UNCHANGED <<regs, upc, skipped, save, count, current, slots, active, pcb,
                     access, result>>
  BY DEF Call, Ecall, Quiet, kernel
<1>2. left' \in Nat /\ mtip' \in BOOLEAN
  BY PassTimeType DEF Call, Ecall
<1>3. Holds(current, upc, regs) /\ upc \in Code /\ access = FALSE
  BY <1>1 DEF RunningInv, TypeOK
<1>4. TypeOK'
  BY <1>1, <1>2, <1>3 DEF TypeOK, Stages
<1>5. Holds(current, mepc, regs)'
  BY <1>1, <1>3 DEF Holds
<1>6. RunningInv'
  BY <1>1, <1>3, <1>5 DEF RunningInv
<1>7. WaitingInv'
  BY <1>1 DEF WaitingInv, Holds
<1>8. FlagsInv'
  BY <1>1 DEF FlagsInv
<1> QED
  BY <1>1, <1>4, <1>6, <1>7, <1>8

LEMMA PreemptedIInv == IInv /\ Preempted => IInv'
<1> SUFFICES ASSUME IInv, Preempted PROVE IInv'
  OBVIOUS
<1> USE DEF IInv
<1>1. /\ stage = "user" /\ stage' = "entry" /\ mepc' = upc /\ mcause' = "timer"
      /\ access' = FALSE
      /\ UNCHANGED <<regs, upc, save, count, current, slots, active, pcb>>
  BY DEF Preempted, TimerTrap, kernel
<1>2. left' \in Nat /\ mtip' \in BOOLEAN
  BY PassTimeType DEF Preempted, TimerTrap
<1>3. Holds(current, upc, regs) /\ upc \in Code
  BY <1>1 DEF RunningInv, TypeOK
<1>4. skipped' = (upc = "store" /\ ~access)
  BY DEF Preempted, TimerTrap
<1>5. skipped' \in BOOLEAN
  BY <1>4, Zenon
<1>6. result' \in [Process -> 0..N]
  <2>1. CASE access
    BY <1>1, <2>1, StoredResult DEF Preempted, RunningInv
  <2>2. CASE ~access
    BY <2>2 DEF Preempted, TypeOK
  <2> QED
    BY <2>1, <2>2
<1>7. TypeOK'
  BY <1>1, <1>2, <1>3, <1>5, <1>6 DEF TypeOK, Stages
<1>8. Holds(current, mepc, regs)'
  BY <1>1, <1>3 DEF Holds
<1>9. RunningInv'
  BY <1>1, <1>3, <1>8 DEF RunningInv
<1>10. WaitingInv'
  BY <1>1 DEF WaitingInv, Holds
<1>11. FlagsInv'
  BY <1>1 DEF FlagsInv
<1> QED
  BY <1>1, <1>7, <1>9, <1>10, <1>11

LEMMA EnterIInv == IInv /\ Enter /\ Quiet => IInv'
<1> SUFFICES ASSUME IInv, Enter, Quiet PROVE IInv'
  OBVIOUS
<1> USE DEF IInv
<1>1. /\ stage = "entry" /\ stage' = "dispatch"
      /\ skipped' = FALSE /\ mtip' = FALSE /\ left' = Elapsed
      /\ UNCHANGED <<regs, upc, mepc, mcause, count, current, slots, active, pcb,
                     access, result>>
  BY DEF Enter, Quiet
<1>2. save' \in [{T1, T2} -> Values]
  <2>1. regs[T1] \in Values /\ regs[T2] \in Values /\ save \in [{T1, T2} -> Values]
    BY Registers DEF TypeOK
  <2>2. save[T1] \in Values
    BY <2>1
  <2> QED
    BY <2>1, <2>2 DEF Enter
<1>3. TypeOK'
  BY <1>1, <1>2, ElapsedType DEF TypeOK, Stages
<1>4. RunningInv'
  BY <1>1 DEF RunningInv, Holds
<1>5. WaitingInv'
  BY <1>1 DEF WaitingInv, Holds
<1>6. FlagsInv'
  BY <1>1 DEF FlagsInv
<1> QED
  BY <1>1, <1>3, <1>4, <1>5, <1>6

(* The a7 of the program tells its two calls apart.                        *)
LEMMA DispatchIInv == IInv /\ Dispatch /\ Quiet => IInv'
<1> SUFFICES ASSUME IInv, Dispatch, Quiet PROVE IInv'
  OBVIOUS
<1> USE DEF IInv
<1>1. /\ stage = "dispatch"
      /\ UNCHANGED <<regs, upc, mepc, mcause, skipped, save, count, current, slots,
                     active, pcb, access, result>>
  BY DEF Dispatch, Quiet, cpu, kernel
<1>2. left' \in Nat /\ mtip' \in BOOLEAN
  BY PassTimeType DEF Dispatch
<1>3. mepc \in Code /\ Holds(current, mepc, regs) /\ access = FALSE
  BY <1>1 DEF RunningInv, TypeOK
<1>4. stage' = "tick" \/ (stage' \in {"clone", "getpid"} /\ mepc = stage')
  <2>1. CASE mcause = "timer"
    BY <2>1 DEF Dispatch
  <2>2. CASE mcause = "ecall"
    <3>1. mepc \in {"clone", "getpid"}
      BY <1>1, <2>2 DEF RunningInv
    <3> QED
      BY <1>3, <2>2, <3>1, Words DEF Dispatch, Holds
  <2> QED
    BY <2>1, <2>2 DEF TypeOK
<1>5. TypeOK'
  BY <1>1, <1>2, <1>4 DEF TypeOK, Stages
<1>6. RunningInv'
  BY <1>1, <1>3, <1>4 DEF RunningInv, Holds
<1>7. WaitingInv'
  BY <1>1, <1>4 DEF WaitingInv, Holds
<1>8. FlagsInv'
  BY <1>1 DEF FlagsInv
<1> QED
  BY <1>1, <1>4, <1>5, <1>6, <1>7, <1>8

-----------------------------------------------------------------------------
(* Out of the handler.                                                     *)

(* The end of a system call.                                               *)
LEMMA ReturnType ==
  ASSUME TypeOK, mepc \in Code, NEW answer \in Values, Return(answer)
  PROVE  /\ stage' = "user" /\ upc' = Plus4[mepc] /\ mepc' = upc' /\ upc' \in Code
         /\ left' \in Nat /\ mtip' \in BOOLEAN
         /\ UNCHANGED <<mcause, skipped, save>>
         /\ regs' \in [Regs -> Values] /\ regs'[A0] = answer
<1>1. upc' \in Code
  BY CodeAssumption DEF Return
<1>2. left' \in Nat /\ mtip' \in BOOLEAN
  BY PassTimeType DEF Return
<1>3. regs' \in [Regs -> Values] /\ regs'[A0] = answer
  BY RestoredRegs, Registers DEF Return
<1> QED
  BY <1>1, <1>2, <1>3 DEF Return

(* A call that leaves the tables of the kernel as they are.                *)
LEMMA AnsweredIInv ==
  ASSUME IInv, stage \in {"clone", "getpid"}, NEW answer \in Values, Return(answer),
         answer # 0, stage = "getpid" => answer = current,
         UNCHANGED <<count, current, slots, active, pcb>>, Quiet
  PROVE  IInv'
<1> USE DEF IInv
<1>1. mepc = stage /\ mepc \in Code /\ access = FALSE
  BY DEF RunningInv, TypeOK
<1>2. /\ stage' = "user" /\ upc' = Plus4[mepc] /\ mepc' = upc' /\ upc' \in Code
      /\ left' \in Nat /\ mtip' \in BOOLEAN
      /\ UNCHANGED <<mcause, skipped, save>>
      /\ regs' \in [Regs -> Values] /\ regs'[A0] = answer
  BY <1>1, ReturnType
<1>3. UNCHANGED <<access, result>>
  BY DEF Quiet
<1>4. TypeOK'
  BY <1>2, <1>3 DEF TypeOK, Stages
<1>5. Holds(current, upc, regs)'
  <2>1. CASE stage = "clone"
    BY <1>1, <1>2, <2>1, Addresses DEF Holds
  <2>2. CASE stage = "getpid"
    BY <1>1, <1>2, <2>2, Addresses DEF Holds
  <2> QED
    BY <2>1, <2>2
<1>6. RunningInv'
  BY <1>1, <1>2, <1>3, <1>5 DEF RunningInv
<1>7. WaitingInv'
  BY <1>2 DEF WaitingInv, Holds
<1>8. FlagsInv'
  BY DEF FlagsInv
<1> QED
  BY <1>2, <1>4, <1>6, <1>7, <1>8

LEMMA GetPidIInv == IInv /\ GetPid /\ Quiet => IInv'
<1> SUFFICES ASSUME IInv, GetPid, Quiet PROVE IInv'
  OBVIOUS
<1>1. stage = "getpid" /\ Return(current) /\ UNCHANGED <<count, current, slots, active, pcb>>
  BY DEF GetPid, Pid
<1>2. current \in Values /\ current # 0
  BY <1>1, Words DEF IInv, TypeOK, Process
<1> QED
  BY <1>1, <1>2, AnsweredIInv

LEMMA CloneFailsIInv == IInv /\ CloneFails /\ Quiet => IInv'
<1> SUFFICES ASSUME IInv, CloneFails, Quiet PROVE IInv'
  OBVIOUS
<1>1. stage = "clone" /\ Return(Failed) /\ UNCHANGED <<count, current, slots, active, pcb>>
  BY DEF CloneFails
<1>2. Failed \in Values /\ Failed # 0
  BY Words
<1> QED
  BY <1>1, <1>2, AnsweredIInv

(* Only the newest process clones, so that the child's segment is free.    *)
LEMMA CallerIsNewest ==
  ASSUME IInv, stage = "clone", ~Full
  PROVE  /\ current = count /\ count \in 1..(N - 1)
         /\ Segment = count + 1 /\ Segment - 1 = count
<1>1. mepc = "clone" /\ Holds(current, "clone", regs)
  BY DEF IInv, RunningInv
<1>2. current = count
  BY <1>1 DEF Holds
<1>3. count \in Nat /\ count >= 1 /\ count < N
  BY <1>2, Words DEF IInv, Full, TypeOK
<1> QED
  BY <1>2, <1>3, Words DEF Segment

LEMMA CloneSucceedsIInv == IInv /\ CloneSucceeds /\ Quiet => IInv'
<1> SUFFICES ASSUME IInv, CloneSucceeds, Quiet PROVE IInv'
  OBVIOUS
<1> USE DEF IInv
<1>1. /\ stage = "clone" /\ ~Full /\ Return(Segment)
      /\ UNCHANGED <<current, access, result>>
  BY DEF CloneSucceeds, Quiet
<1>2. /\ current = count /\ count \in 1..(N - 1)
      /\ Segment = count + 1 /\ Segment - 1 = count
  BY <1>1, CallerIsNewest
<1>3. count' = count + 1 /\ count' \in 2..N /\ current' = count /\ count \in Process
  BY <1>1, <1>2, Words DEF CloneSucceeds, Process
<1>4. Segment \in Values /\ Segment # 0 /\ count' \in Process
  BY <1>2, <1>3, Words DEF Process
<1>5. mepc = "clone" /\ mepc \in Code /\ access = FALSE /\ Holds(current, "clone", regs)
  BY <1>1 DEF RunningInv, TypeOK
<1>6. /\ stage' = "user" /\ upc' = "born" /\ mepc' = "born" /\ upc' \in Code
      /\ left' \in Nat /\ mtip' \in BOOLEAN
      /\ UNCHANGED <<mcause, skipped, save>>
      /\ regs' \in [Regs -> Values] /\ regs'[A0] = count'
  BY <1>1, <1>2, <1>3, <1>4, <1>5, ReturnType, Addresses
<1>7. ForChild \in [Regs -> Values] /\ ForChild[A0] = 0
  BY RestoredRegs, Registers, Words DEF ForChild
<1>8. /\ pcb' \in [Process -> [Regs -> Values]]
      /\ pcb'[count'] = ForChild
      /\ \A p \in Process : p < count => pcb'[p] = pcb[p]
  <2>1. pcb' = [pcb EXCEPT ![count'] = ForChild, ![count][A0] = count']
    BY <1>2, <1>3 DEF CloneSucceeds
  <2>2. /\ pcb \in [Process -> [Regs -> Values]] /\ pcb[count] \in [Regs -> Values]
        /\ [pcb[count] EXCEPT ![A0] = count'] \in [Regs -> Values]
    BY <1>2, <1>3, <1>4 DEF TypeOK
  <2>3. pcb' = [p \in Process |-> IF p = count THEN [pcb[count] EXCEPT ![A0] = count']
                                 ELSE IF p = count' THEN ForChild ELSE pcb[p]]
    <3>1. count # count'
      BY <1>2, <1>3
    <3> QED
      BY <1>3, <1>4, <2>1, <2>2, <3>1, Zenon
  <2>4. count # count' /\ \A p \in Process : p < count => p # count /\ p # count'
    BY <1>2, <1>3, Words DEF Process
  <2> QED
    BY <1>4, <1>7, <2>2, <2>3, <2>4
<1>9. slots' \in [Process -> Code \cup {Null}] /\ slots'[1] = "born"
  <2>1. slots' = [slots EXCEPT ![count] = "born", ![count'] = "born"]
    BY <1>2, <1>3, <1>6 DEF CloneSucceeds
  <2>2. count = 1 \/ slots[1] = "born"
    BY <1>2 DEF WaitingInv
  <2>3. 1 \in Process /\ count' # 1
    BY <1>3, Words DEF Process
  <2> QED
    BY <1>3, <1>4, <2>1, <2>2, <2>3, Addresses DEF TypeOK
<1>10. /\ active' \in [1..(N + 2) -> {0, 1}]
       /\ FlagsInv'
  <2>0. active' = [active EXCEPT ![Segment] = 1, ![Segment + 1] = 0]
    BY DEF CloneSucceeds, Activated
  <2>1. active' = [active EXCEPT ![count + 1] = 1, ![count + 2] = 0]
    <3>1. Segment + 1 = count + 2
      BY <1>2
    <3> QED
      BY <1>2, <2>0, <3>1, Zenon
  <2>2. active \in [1..(N + 2) -> {0, 1}]
    BY DEF TypeOK
  <2>3. active' \in [1..(N + 2) -> {0, 1}]
    BY <2>1, <2>2
  <2>4. \A i \in 1..(N + 2) : active'[i] = IF i <= count' THEN 1 ELSE 0
    BY <1>2, <1>3, <2>1, <2>2, Words DEF FlagsInv
  <2> QED
    BY <2>3, <2>4 DEF FlagsInv
<1>11. TypeOK'
  BY <1>1, <1>3, <1>4, <1>6, <1>8, <1>9, <1>10 DEF TypeOK, Stages
<1>12. Holds(current, upc, regs)'
  BY <1>3, <1>6 DEF Holds
<1>13. RunningInv'
  BY <1>1, <1>5, <1>6, <1>12 DEF RunningInv
<1>14. \A p \in 1..count' : p # current' => Holds(p, "born", pcb[p])'
  <2> SUFFICES ASSUME NEW p \in 1..count', p # current' PROVE Holds(p, "born", pcb[p])'
    OBVIOUS
  <2>1. CASE p = count'
    BY <1>3, <1>6, <1>7, <1>8, <2>1 DEF Holds
  <2>2. CASE p < count
    <3>1. Holds(p, "born", pcb[p]) /\ pcb'[p] = pcb[p] /\ p # count
      BY <1>2, <1>3, <1>8, <2>2, Words DEF WaitingInv, Process
    <3> QED
      BY <3>1 DEF Holds
  <2> QED
    BY <1>2, <1>3, <2>1, <2>2, Words
<1>15. WaitingInv'
  BY <1>6, <1>9, <1>14 DEF WaitingInv
<1> QED
  BY <1>2, <1>3, <1>6, <1>10, <1>11, <1>13, <1>15

-----------------------------------------------------------------------------
(* The timer's tick.                                                       *)

(* The flags tell the processes that exist.                                *)
LEMMA NextInOrder ==
  ASSUME IInv, stage # "boot"
  PROVE  NextProcess = IF current = count THEN 1 ELSE current + 1
<1>1. /\ current \in Nat /\ current >= 1 /\ current <= count /\ count <= N /\ count \in Nat
      /\ active \in [1..(N + 2) -> {0, 1}]
  BY Words DEF IInv, TypeOK
<1>2. /\ active[current + 1] = IF current + 1 <= count THEN 1 ELSE 0
      /\ active[current + 2] = IF current + 2 <= count THEN 1 ELSE 0
  BY <1>1, Words DEF IInv, FlagsInv
<1>3. current + 1 + 1 = current + 2
  BY <1>1
<1> QED
  BY <1>1, <1>2, <1>3, Words DEF NextProcess, IsActive

LEMMA GoOnIInv == IInv /\ GoOn /\ Quiet => IInv'
<1> SUFFICES ASSUME IInv, GoOn, Quiet PROVE IInv'
  OBVIOUS
<1> USE DEF IInv
<1>1. /\ stage = "tick" /\ stage' = "user" /\ upc' = mepc /\ regs' = Restored
      /\ UNCHANGED <<mtip, mepc, mcause, skipped, save, count, current, slots, active, pcb,
                     access, result>>
  BY DEF GoOn, Quiet, kernel
<1>2. left' \in Nat
  BY RearmedType DEF GoOn
<1>3. mepc \in Code /\ Holds(current, mepc, regs) /\ access = FALSE
  BY <1>1 DEF RunningInv, TypeOK
<1>4. regs' \in [Regs -> Values] /\ Holds(current, mepc, regs')
  BY <1>1, <1>3, RestoredRegs, HoldsAgrees
<1>5. TypeOK'
  BY <1>1, <1>2, <1>3, <1>4 DEF TypeOK, Stages
<1>6. RunningInv'
  BY <1>1, <1>3, <1>4 DEF RunningInv, Holds
<1>7. WaitingInv'
  BY <1>1 DEF WaitingInv, Holds
<1>8. FlagsInv'
  BY <1>1 DEF FlagsInv
<1> QED
  BY <1>1, <1>5, <1>6, <1>7, <1>8

(* A single process is never saved, so that slot 1 has a pc to load.       *)
LEMMA SaveIInv == IInv /\ Save /\ Quiet => IInv'
<1> SUFFICES ASSUME IInv, Save, Quiet PROVE IInv'
  OBVIOUS
<1> USE DEF IInv
<1>1. /\ stage = "tick" /\ stage' = "resume" /\ ~(NextProcess = 1 /\ current = 1)
      /\ pcb' = [pcb EXCEPT ![current] = Restored]
      /\ slots' = [slots EXCEPT ![2] = mepc] /\ mepc' = slots[1]
      /\ current' = NextProcess
      /\ UNCHANGED <<mtip, regs, upc, mcause, skipped, save, count, active, access, result>>
  BY DEF Save, Quiet, SlotToSave, SlotToLoad
<1>2. left' \in Nat
  BY RearmedType DEF Save
<1>3. current \in 1..count /\ count \in 0..N /\ current \in Process
  BY <1>1 DEF TypeOK
<1>4. count >= 2 /\ current' \in 1..count
  BY <1>1, <1>3, NextInOrder, Words
<1>5. mepc' = "born" /\ slots'[1] = "born"
  <2>1. slots[1] = "born" /\ slots \in [Process -> Code \cup {Null}] /\ 1 \in Process
    BY <1>4, Words DEF WaitingInv, TypeOK, Process
  <2> QED
    BY <1>1, <2>1
<1>6. mepc \in Code /\ Holds(current, mepc, regs) /\ access = FALSE
  BY <1>1 DEF RunningInv, TypeOK
<1>7. Restored \in [Regs -> Values] /\ Holds(current, "born", Restored)
  BY <1>6, RestoredRegs, HoldsAgrees, HoldsBorn
<1>8. pcb' \in [Process -> [Regs -> Values]] /\ slots' \in [Process -> Code \cup {Null}]
  BY <1>1, <1>6, <1>7 DEF TypeOK
<1>9. current' \in Process
  BY <1>3, <1>4, Words DEF Process
<1>10. TypeOK'
  BY <1>1, <1>2, <1>5, <1>8, <1>9, Addresses DEF TypeOK, Stages
<1>11. RunningInv'
  BY <1>1, <1>6 DEF RunningInv
<1>12. \A p \in 1..count : Holds(p, "born", pcb'[p])
  <2> SUFFICES ASSUME NEW p \in 1..count PROVE Holds(p, "born", pcb'[p])
    OBVIOUS
  <2>1. p \in Process
    BY <1>3, Words DEF Process
  <2>2. CASE p = current
    BY <1>1, <1>7, <2>1, <2>2 DEF TypeOK
  <2>3. CASE p # current
    BY <1>1, <2>1, <2>3 DEF TypeOK, WaitingInv
  <2> QED
    BY <2>2, <2>3
<1>13. WaitingInv'
  BY <1>1, <1>5, <1>12 DEF WaitingInv, Holds
<1>14. FlagsInv'
  BY <1>1 DEF FlagsInv
<1> QED
  BY <1>1, <1>4, <1>10, <1>11, <1>13, <1>14

LEMMA ResumeIInv == IInv /\ Resume /\ Quiet => IInv'
<1> SUFFICES ASSUME IInv, Resume, Quiet PROVE IInv'
  OBVIOUS
<1> USE DEF IInv
<1>1. /\ stage = "resume" /\ stage' = "user" /\ upc' = mepc /\ regs' = pcb[current]
      /\ UNCHANGED <<mepc, mcause, skipped, save, count, current, slots, active, pcb,
                     access, result>>
  BY DEF Resume, Quiet, kernel
<1>2. left' \in Nat /\ mtip' \in BOOLEAN
  BY PassTimeType DEF Resume
<1>3. mepc = "born" /\ current \in 1..count /\ current \in Process /\ access = FALSE
  BY <1>1 DEF WaitingInv, RunningInv, TypeOK
<1>4. Holds(current, "born", pcb[current]) /\ pcb[current] \in [Regs -> Values]
  BY <1>1, <1>3 DEF WaitingInv, TypeOK
<1>5. TypeOK'
  BY <1>1, <1>2, <1>3, <1>4, Addresses DEF TypeOK, Stages
<1>6. Holds(current, upc, regs)'
  BY <1>1, <1>3, <1>4 DEF Holds
<1>7. RunningInv'
  BY <1>1, <1>3, <1>6 DEF RunningInv
<1>8. WaitingInv'
  BY <1>1 DEF WaitingInv, Holds
<1>9. FlagsInv'
  BY <1>1 DEF FlagsInv
<1> QED
  BY <1>1, <1>5, <1>7, <1>8, <1>9

LEMMA BootIInv == IInv /\ Boot /\ Quiet => IInv'
<1> SUFFICES ASSUME IInv, Boot, Quiet PROVE IInv'
  OBVIOUS
<1> USE DEF IInv
<1>1. /\ stage = "boot" /\ stage' = "user" /\ count' = 1 /\ current' = 1 /\ count = 0
      /\ active' = [active EXCEPT ![1] = 1, ![2] = 0]
      /\ mepc' = Entry /\ upc' = Entry /\ regs' = ZeroRegs
      /\ UNCHANGED <<mcause, mtip, skipped, save, slots, pcb, access, result>>
  BY DEF Boot, Quiet, Activated
<1>2. left' \in Nat
  BY RearmedType DEF Boot
<1>3. regs' \in [Regs -> Values] /\ regs'[A0] = 0
  BY <1>1, Registers, Words DEF ZeroRegs
<1>4. active' \in [1..(N + 2) -> {0, 1}]
  BY <1>1 DEF TypeOK
<1>5. \A i \in 1..(N + 2) : active'[i] = IF i <= 1 THEN 1 ELSE 0
  BY <1>1, Words DEF TypeOK, FlagsInv
<1>6. 1 \in 0..N /\ 1 \in Process /\ access = FALSE
  BY <1>1, Words DEF Process, RunningInv, TypeOK
<1>7. TypeOK'
  BY <1>1, <1>2, <1>3, <1>4, <1>6, CodeAssumption DEF TypeOK, Stages
<1>8. Holds(current, upc, regs)'
  BY <1>1, <1>3, Addresses DEF Holds
<1>9. RunningInv'
  BY <1>1, <1>6, <1>8 DEF RunningInv
<1>10. WaitingInv'
  BY <1>1 DEF WaitingInv
<1>11. FlagsInv'
  BY <1>1, <1>4, <1>5 DEF FlagsInv
<1> QED
  BY <1>1, <1>7, <1>9, <1>10, <1>11

-----------------------------------------------------------------------------
(* Every step.                                                             *)

LEMMA UserIInv == IInv /\ User => IInv'
BY JustBornIInv, CallIInv, BornIInv, AskIInv, AddressIInv, FibonacciIInv, LoopIInv,
   StoreIInv, AgainIInv DEF User

LEMMA KernelIInv == IInv /\ Kernel => IInv'
BY BootIInv, EnterIInv, DispatchIInv, GetPidIInv, CloneFailsIInv, CloneSucceedsIInv,
   GoOnIInv, SaveIInv, ResumeIInv DEF Kernel, Handler

LEMMA StutterIInv == IInv /\ UNCHANGED vars => IInv'
<1> SUFFICES ASSUME IInv, UNCHANGED vars PROVE IInv'
  OBVIOUS
<1> USE DEF IInv
<1>1. UNCHANGED <<regs, upc, mepc, mcause, skipped, mtip, left, save, count, current,
                  slots, active, pcb, stage, access, result>>
  BY DEF vars, cpu, timer, kernel
<1>2. TypeOK'
  BY <1>1 DEF TypeOK
<1>3. RunningInv'
  BY <1>1 DEF RunningInv, Holds
<1>4. WaitingInv'
  BY <1>1 DEF WaitingInv, Holds
<1>5. FlagsInv'
  BY <1>1 DEF FlagsInv
<1> QED
  BY <1>1, <1>2, <1>3, <1>4, <1>5

LEMMA StepIInv == IInv /\ [Next]_vars => IInv'
BY UserIInv, PreemptedIInv, KernelIInv, StutterIInv DEF Next

(* The invariant, for any number of processes and any lengths of slices.   *)
THEOREM Invariant == Spec => []IInv
BY InitIInv, StepIInv, PTL DEF Spec

(* Type correctness; in particular no process number passes N and every    *)
(* result is at most N, however clones and ticks of the timer meet.        *)
THEOREM TypeCorrect == Spec => []TypeOK
<1>1. IInv => TypeOK
  BY DEF IInv
<1> QED
  BY <1>1, Invariant, PTL

(* The flags agree with the count, and the current process exists, at each *)
(* step of the handlers of clone and of the timer.                         *)
THEOREM FlagsAgreeWithCount == Spec => []CountsActive
<1>1. IInv => CountsActive
  <2> SUFFICES ASSUME IInv, stage # "boot"
               PROVE  {i \in DOMAIN active : active[i] = 1} = 1..count /\ current \in 1..count
    BY DEF CountsActive
  <2>1. DOMAIN active = 1..(N + 2) /\ count \in 0..N
    BY DEF IInv, TypeOK
  <2>2. \A i \in 1..(N + 2) : active[i] = IF i <= count THEN 1 ELSE 0
    BY <2>1 DEF IInv, FlagsInv
  <2>3. 1..count \subseteq 1..(N + 2)
    BY <2>1, Words
  <2>4. {i \in DOMAIN active : active[i] = 1} = 1..count
    BY <2>1, <2>2, <2>3, Words
  <2> QED
    BY <2>4 DEF IInv
<1> QED
  BY <1>1, Invariant, PTL

(* A process stores its own result in its own word, wherever the timer     *)
(* interrupts it, its store included.                                      *)
THEOREM OwnResults == Spec => OwnResult
<1> DEFINE Own == \A i \in Process : result'[i] # result[i] => i = current /\ result'[i] = i
<1>1. IInv /\ [Next]_vars => Own
  <2> SUFFICES ASSUME IInv, [Next]_vars PROVE Own
    OBVIOUS
  <2>1. \/ result' = result
        \/ /\ stage = "user" /\ upc = "store"
           /\ result' = [result EXCEPT ![regs[A1]] = regs[X1]]
    <3>1. CASE User
      BY <3>1 DEF User, JustBorn, Call, Born, Ask, Address, Fibonacci, Loop, StoreFirst,
                  StoreSecond, Again, Quiet, Execute
    <3>2. CASE Preempted
      BY <3>2 DEF Preempted, IInv, RunningInv
    <3>3. CASE Kernel
      BY <3>3 DEF Kernel, Quiet
    <3>4. CASE UNCHANGED vars
      BY <3>4 DEF vars
    <3> QED
      BY <3>1, <3>2, <3>3, <3>4 DEF Next
  <2> QED
    BY <2>1, StoredResult
<1>2. IInv /\ [Next]_vars => [Own]_vars
  BY <1>1
<1> QED
  BY <1>2, Invariant, PTL DEF Spec, OwnResult

(* The timer hands over to the processes in the order of their pids, for   *)
(* any number of them; the flags that overlap tell the last one.           *)
THEOREM HandsOverInOrder == Spec => RoundRobin
<1> DEFINE InOrder == stage = "tick" => current' = IF current = count THEN 1 ELSE current + 1
<1>1. IInv /\ [Next]_vars => [InOrder]_vars
  <2> SUFFICES ASSUME IInv, Next, stage = "tick"
               PROVE  current' = IF current = count THEN 1 ELSE current + 1
    OBVIOUS
  <2>1. NextProcess = IF current = count THEN 1 ELSE current + 1
    BY NextInOrder
  <2>2. GoOn \/ Save
    BY DEF Next, User, JustBorn, Call, Born, Ask, Address, Fibonacci, Loop, StoreFirst,
           StoreSecond, Again, Execute, Preempted, TimerTrap, Kernel, Boot, Handler,
           Enter, Dispatch, GetPid, CloneFails, CloneSucceeds, Resume
  <2>3. CASE GoOn
    BY <2>1, <2>3 DEF GoOn, kernel
  <2>4. CASE Save
    BY <2>1, <2>4 DEF Save
  <2> QED
    BY <2>2, <2>3, <2>4
<1> QED
  BY <1>1, Invariant, PTL DEF Spec, RoundRobin

(* A clone takes a segment that no process has.                            *)
THEOREM ClonesIntoFreeSegment == Spec => FreeSegment
<1> DEFINE Free == stage = "clone" => \A p \in 1..count : p # current => pcb'[p] = pcb[p]
<1>1. IInv /\ [Next]_vars => [Free]_vars
  <2> SUFFICES ASSUME IInv, Next, stage = "clone", NEW p \in 1..count, p # current
               PROVE  pcb'[p] = pcb[p]
    OBVIOUS
  <2>1. CloneFails \/ CloneSucceeds
    BY DEF Next, User, JustBorn, Call, Born, Ask, Address, Fibonacci, Loop, StoreFirst,
           StoreSecond, Again, Execute, Preempted, TimerTrap, Kernel, Boot, Handler,
           Enter, Dispatch, GetPid, GoOn, Save, Resume
  <2>2. CASE CloneFails
    BY <2>2 DEF CloneFails
  <2>3. CASE CloneSucceeds
    <3>1. current = count /\ Segment = count + 1 /\ Segment - 1 = count /\ count \in 1..(N - 1)
      BY <2>3, CallerIsNewest DEF CloneSucceeds
    <3>2. p # Segment /\ p # Segment - 1
      BY <3>1
    <3>3. pcb' = [pcb EXCEPT ![Segment] = ForChild, ![Segment - 1][A0] = Segment]
      BY <2>3 DEF CloneSucceeds
    <3>4. p \in Process /\ pcb \in [Process -> [Regs -> Values]]
      BY Words DEF IInv, TypeOK, Process
    <3> QED
      BY <3>2, <3>3, <3>4
  <2> QED
    BY <2>1, <2>2, <2>3
<1> QED
  BY <1>1, Invariant, PTL DEF Spec, FreeSegment

=============================================================================
