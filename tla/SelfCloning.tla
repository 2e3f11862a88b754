---------------------------- MODULE SelfCloning ----------------------------
(***************************************************************************)
(* programs/public/user_programs/selfcloning.s on the kernel of Cloning:   *)
(* every process clones one child, asks for its pid, and then computes the *)
(* Fibonacci number 2 * pid again and again, into the word at              *)
(* 0x4000000 + 4 * pid.  A Fibonacci number is the number of rounds of the *)
(* loop that lead to it.                                                   *)
(***************************************************************************)
EXTENDS Cloning, FiniteSets

CONSTANTS
  A1,          \* the register that holds the address of the result
  X1, X3       \* x1 (with x2): the rounds done; x3: the rounds to do

VARIABLES
  access,      \* sw is in its second cycle
  result       \* result[i]: the word at 0x4000000 + 4 * i

vars == <<cpu, timer, kernel, stage, access, result>>

(* The addresses of the program; the straight-line parts are one address.  *)
Program == {"justborn", "clone", "born", "ask", "getpid", "address",
            "fibonacci", "loop", "store", "again"}

NextAddress == [pc \in Program |->
  CASE pc = "justborn"  -> "clone"
    [] pc = "clone"     -> "born"
    [] pc = "born"      -> "ask"
    [] pc = "ask"       -> "getpid"
    [] pc = "getpid"    -> "address"
    [] pc = "address"   -> "fibonacci"
    [] pc = "fibonacci" -> "loop"
    [] pc = "loop"      -> "store"
    [] pc = "store"     -> "again"
    [] pc = "again"     -> "fibonacci"]

ProgramRegs == {A0, A1, A7, X1, X3, T1, T2}

(* The kernel's code and registers are those of this program.              *)
ASSUME SelfCloningAssumption ==
  /\ Regs = ProgramRegs /\ {CLONE, GETPID} \subseteq Values
  /\ {A1, X1, X3} \cap {A0, A7, T1, T2} = {}
  /\ A1 # X1 /\ A1 # X3 /\ X1 # X3
  /\ Code = Program /\ Entry = "justborn" /\ Plus4 = NextAddress

-----------------------------------------------------------------------------
(* An instruction of the user program at address pc, to address next.      *)
Execute(pc, next) ==
  /\ stage = "user" /\ upc = pc
  /\ ~mtip /\ left # 1
  /\ PassTime
  /\ upc' = next
  /\ UNCHANGED <<stage, mepc, mcause, skipped>> /\ UNCHANGED kernel

Quiet == UNCHANGED <<access, result>>

(* li a7, 220                                                              *)
JustBorn ==
  /\ Execute("justborn", "clone")
  /\ regs' = [regs EXCEPT ![A7] = CLONE] /\ Quiet

(* ecall, for clone or for getpid                                          *)
Call ==
  /\ stage = "user" /\ upc \in {"clone", "getpid"}
  /\ ~mtip /\ left # 1
  /\ Ecall
  /\ Quiet

(* beqz a0, justborn: a child clones a child of its own.                   *)
ParentClones == regs[A0] # 0          \* mutant: bnez
BornTest == regs[A0] = 0
Born ==
  /\ Execute("born", IF BornTest THEN "justborn" ELSE "ask")
  /\ UNCHANGED regs /\ Quiet

(* li a7, 172                                                              *)
Ask ==
  /\ Execute("ask", "getpid")
  /\ regs' = [regs EXCEPT ![A7] = GETPID] /\ Quiet

(* a1 := 0x4000000 + 4 * a0, by way of a7                                  *)
Address ==
  /\ Execute("address", "fibonacci")
  /\ regs' = [regs EXCEPT ![A1] = regs[A0], ![A7] = 0] /\ Quiet

(* x3 := a0, x1 := 0, x2 := 1                                              *)
Fibonacci ==
  /\ Execute("fibonacci", "loop")
  /\ regs' = [regs EXCEPT ![X3] = regs[A0], ![X1] = 0] /\ Quiet

(* A round of the loop; bnez x3, loop.                                     *)
Loop ==
  /\ Execute("loop", IF regs[X3] = 1 THEN "store" ELSE "loop")
  /\ regs' = [regs EXCEPT ![X1] = @ + 1, ![X3] = @ - 1] /\ Quiet

(* sw x1, 0(a1), in two cycles; the second one stores.                     *)
StoreFirst ==
  /\ Execute("store", "store")
  /\ ~access /\ access' = TRUE
  /\ UNCHANGED <<regs, result>>

StoreSecond ==
  /\ Execute("store", "again")
  /\ access /\ access' = FALSE
  /\ result' = [result EXCEPT ![regs[A1]] = regs[X1]]
  /\ UNCHANGED regs

(* j fibonacci                                                             *)
Again == Execute("again", "fibonacci") /\ UNCHANGED regs /\ Quiet

(* The timer interrupt.  A store in its second cycle takes place all the   *)
(* same, and is executed again later.                                      *)
Preempted ==
  /\ TimerTrap(upc = "store" /\ ~access)
  /\ access' = FALSE
  /\ result' = IF access THEN [result EXCEPT ![regs[A1]] = regs[X1]] ELSE result

User ==
  \/ JustBorn \/ Call \/ Born \/ Ask \/ Address \/ Fibonacci \/ Loop
  \/ StoreFirst \/ StoreSecond \/ Again

Kernel == (Boot \/ Handler) /\ Quiet

SelfInit ==
  /\ Init
  /\ access = FALSE
  /\ result = [i \in Process |-> 0]

Next == User \/ Preempted \/ Kernel

(* The clock of the simulated core never stops.                            *)
Spec == SelfInit /\ [][Next]_vars /\ WF_vars(Next)

-----------------------------------------------------------------------------
(* Properties.                                                             *)

(* The type of every variable; current is a process from the boot on.      *)
TypeOK ==
  /\ stage \in Stages
  /\ regs \in [Regs -> Values]
  /\ upc \in Code /\ mepc \in Code \cup {Null}
  /\ mcause \in {"timer", "ecall"}
  /\ mtip \in BOOLEAN /\ left \in Nat /\ skipped \in BOOLEAN
  /\ save \in [{T1, T2} -> Values]
  /\ count \in 0..N /\ current \in (IF stage = "boot" THEN {0} ELSE Process)
  /\ slots \in [Process -> Code \cup {Null}]
  /\ active \in [1..(N + 2) -> {0, 1}]
  /\ pcb \in [Process -> [Regs -> Values]]
  /\ access \in BOOLEAN
  /\ result \in [Process -> 0..N]

(* The count of processes agrees with the flags of the active ones, which  *)
(* are those up to the count, and the current process is one of them.      *)
CountsActive ==
  stage # "boot" =>
    /\ {i \in DOMAIN active : active[i] = 1} = 1..count
    /\ current \in 1..count

(* A process stores its own Fibonacci number in its own word and nothing   *)
(* anywhere else: none computes under the pid, the registers or the result *)
(* address of another one, wherever the timer interrupts it.               *)
OwnResult ==
  [][\A i \in Process : result'[i] # result[i] => i = current /\ result'[i] = i]_vars

(* The timer hands over to the next process in the order of the pids, and  *)
(* from the last one that exists to the first.                             *)
RoundRobin ==
  [][stage = "tick" => current' = IF current = count THEN 1 ELSE current + 1]_vars

(* A clone takes the segment of no process that exists: apart from the     *)
(* caller's, whose a0 it answers, all segments in use stay as they are.    *)
FreeSegment ==
  [][stage = "clone" => \A p \in 1..count : p # current => pcb'[p] = pcb[p]]_vars

(* All N processes are created and get their results (with slices that     *)
(* leave room for one: see MCSelfCloning).                                 *)
AllCompute == \A i \in Process : <>[](result[i] = i)

(* Every process keeps getting the processor.                              *)
NoStarvation == \A i \in Process : []<>(stage = "user" /\ current = i)

(* The comment at cloning.s:11 gives every process a mepc slot of its own: *)
(* the pc of the interrupted process goes to its slot, and that of the     *)
(* next one comes from its own.                                            *)
PcInOwnSlot ==
  [][stage = "tick" /\ stage' = "resume" =>
       slots'[current] = mepc /\ mepc' = slots[current']]_vars

-----------------------------------------------------------------------------
(* The inductive invariant behind the properties.                          *)

(* What registers r of process p hold at address pc.  Only the newest      *)
(* process has not cloned yet: a0 = 0.                                     *)
Holds(p, pc, r) ==
  /\ r[A0] = 0 => p = count
  /\ pc \in {"justborn", "clone"} => r[A0] = 0
  /\ pc = "clone" => r[A7] = CLONE
  /\ pc \in {"ask", "getpid"} => r[A0] # 0
  /\ pc = "getpid" => r[A7] = GETPID
  /\ pc \in {"address", "fibonacci", "loop", "store", "again"} => r[A0] = p
  /\ pc \in {"fibonacci", "loop", "store", "again"} => r[A1] = p
  /\ pc = "loop" => r[X3] \in 1..p /\ r[X1] = p - r[X3]
  /\ pc = "store" => r[X1] = p

(* The running process, in the program and in the handler up to the point  *)
(* where its registers are saved; a call comes from its ecall.             *)
RunningInv ==
  /\ stage = "user" => Holds(current, upc, regs)
  /\ stage \in {"entry", "dispatch", "getpid", "clone", "tick"} =>
       mepc \in Code /\ Holds(current, mepc, regs)
  /\ stage \in {"entry", "dispatch"} /\ mcause = "ecall" => mepc \in {"clone", "getpid"}
  /\ stage \in {"getpid", "clone"} => mepc = stage
  /\ access => stage = "user" /\ upc = "store"

(* The others wait in their segments.  All of them go on behind the first  *)
(* clone, since that is the only pc that is ever loaded.                   *)
WaitingInv ==
  /\ \A p \in 1..count : p # current \/ stage = "resume" => Holds(p, "born", pcb[p])
  /\ count >= 2 => slots[1] = "born"
  /\ stage = "resume" => mepc = "born"

FlagsInv == \A i \in DOMAIN active : active[i] = IF i <= count THEN 1 ELSE 0

IInv ==
  /\ TypeOK
  /\ stage = "boot" => count = 0
  /\ stage # "boot" => current \in 1..count
  /\ RunningInv /\ WaitingInv /\ FlagsInv
=============================================================================
