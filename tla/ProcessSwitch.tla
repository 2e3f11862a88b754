--------------------------- MODULE ProcessSwitch ---------------------------
(***************************************************************************)
(* The process scheduler of programs/public/os/processswitch.s: two        *)
(* non-cooperative user processes switched by the machine timer interrupt. *)
(*                                                                         *)
(* The handler runs in machine mode with interrupts disabled, so its only  *)
(* concurrency is with the timer: each action below is a straight-line     *)
(* part of the handler, takes the number of cycles the constant Cycles     *)
(* gives it, and a timer tick may fall into it.  Registers and programs    *)
(* are abstract; what is kept is which slot holds whose value.             *)
(***************************************************************************)
EXTENDS Naturals, Sequences

CONSTANTS
  Regs,        \* the registers a process can observe
  T0, T1,      \* the two registers the handler uses as scratch
  Values,      \* what a user program can put in a register
  Zero,        \* the value of a cleared register, and of untouched memory
  Scratch,     \* any value the handler itself computes in t0 or t1
  Code,        \* the program counters of the user programs
  Entry0,      \* 0x4000000, where the first program is loaded
  Entry1,      \* 0x8000000, where the second program is loaded
  Null,        \* the word 0 as a saved program counter: nothing saved yet
  Quantum,     \* the 373 cycles added to mtime at every rearming
  Cycles       \* Cycles[stage]: cycles spent in a part of the code; those of
               \* "boot" and "resume" are counted from the read of mtime

Process == {0, 1}

Paths == {"first", "onetozero", "zerotoone"}

(* The straight-line parts of the handler.                                 *)
Stages == {"entry", "dispatch", "save", "clear", "rearm", "resume"}

ASSUME RegsAssumption ==
  /\ T0 \in Regs /\ T1 \in Regs /\ T0 # T1
  /\ Zero \in Values /\ Scratch \notin Values

ASSUME CodeAssumption ==
  /\ Entry0 \in Code /\ Entry1 \in Code
  /\ Null \notin Code

ASSUME CyclesAssumption ==
  /\ Quantum \in Nat
  /\ Cycles \in [Stages \cup {"boot"} -> Nat \ {0}]

(***************************************************************************)
(* 373 cycles are enough for the rest of the handler: what follows the     *)
(* read of mtime (mtimecmp, mepc, 31 loads of two cycles, mret) takes 71,  *)
(* and the end of the boot code 9.                                         *)
(***************************************************************************)
ASSUME QuantumAssumption ==
  /\ Cycles["resume"] + 1 < Quantum
  /\ Cycles["boot"] + 1 < Quantum

VARIABLES
  stage,       \* "boot", "user", or the part of the handler that runs next
  path,        \* the branch the handler took at its dispatch
  regs,        \* the register file
  upc,         \* the pc of the user instruction to execute (in user mode)
  mepc,        \* the CSR mepc
  mtip,        \* the timer pending bit of the CSR mip
  left,        \* cycles until mtime = mtimecmp; 0: the match is in the past
  skipped,     \* the core drops the first instruction of the handler
  save,        \* save[T0], save[T1]: the words at addresses 0 and 4
  pid,         \* the word at address 0x340
  pcb,         \* pcb[p]: the words at 8..128 (p = 0) and at 136..256 (p = 1)
  epc          \* epc[p]: the words at 132 and at 260

vars == <<stage, path, regs, upc, mepc, mtip, left, skipped, save, pid, pcb, epc>>

-----------------------------------------------------------------------------
(* Helpers: time, the timer, and the parts of the handler.                 *)

(* A tick falls into the next n cycles.                                    *)
Tick(n) == left \in 1..n

(* The timer after n cycles; mtime = mtimecmp holds for one cycle only.    *)
Elapsed(n) == IF left > n THEN left - n ELSE 0

(* Time passes in machine mode: a tick stays pending in mip.               *)
PassTime(n) ==
  /\ left' = Elapsed(n)
  /\ mtip' = (mtip \/ Tick(n))

ZeroRegs == [r \in Regs |-> Zero]

(* The handler has used t0 and t1.                                         *)
Clobber(f) == [f EXCEPT ![T0] = Scratch, ![T1] = Scratch]

(* t0 and t1 reloaded from the words they were saved in.                   *)
Restored == [regs EXCEPT ![T0] = save[T0], ![T1] = save[T1]]

(* Whose context a branch of the handler saves.                            *)
From(p) == IF p = "onetozero" THEN 1 ELSE 0
To(p) == 1 - From(p)

(* The word at 0x340 is toggled with xori.                                 *)
ToggledByAdd == pid + 1   \* mutant: addi in place of xori
NotToggled == pid         \* mutant: the toggle is missing
Toggled == 1 - pid

(* The timer bit of mip after the handler has masked it.                   *)
NotMasked == mtip         \* mutant: mip is written back unmasked
Masked == FALSE

(* The cycles to the next tick once mtimecmp is written.                   *)
NotRearmed == left        \* mutant: mtimecmp is not written
Rearmed == Quantum

(* The registers the handler stores first, in order: the store of t0 is    *)
(* there twice.                                                            *)
StoreT0Once == <<T0, T1>> \* mutant: the second store of t0 is removed
ScratchStores == <<T0, T0, T1>>

(* The stores that take place: the core drops the first one if skipped.    *)
Stored == {ScratchStores[i] : i \in (IF skipped THEN 2 ELSE 1)..Len(ScratchStores)}

-----------------------------------------------------------------------------
(* Memory is zero at reset, and so are the registers.                      *)
Init ==
  /\ stage = "boot" /\ path = "first"
  /\ regs = ZeroRegs
  /\ upc = Entry0 /\ mepc = Null
  /\ mtip = FALSE /\ left = 0 /\ skipped = FALSE
  /\ save = [r \in {T0, T1} |-> Zero]
  /\ pid = 0
  /\ pcb = [p \in Process |-> ZeroRegs]
  /\ epc = [p \in Process |-> Null]

(* The boot code, to its mret into the first program: mepc, the word at    *)
(* 0x340, mip, then the timer, and t0 to t2 cleared.                       *)
Boot ==
  /\ stage = "boot"
  /\ mepc' = Entry0
  /\ pid' = 0
  /\ mtip' = FALSE
  /\ left' = Quantum - Cycles["boot"]
  /\ regs' = ZeroRegs
  /\ upc' = mepc'
  /\ stage' = "user"
  /\ UNCHANGED <<path, skipped, save, pcb, epc>>

(* A cycle of a user instruction that is not its last one: the first cycle *)
(* of a load or of a store.                                                *)
UserStall ==
  /\ stage = "user" /\ ~mtip /\ left # 1
  /\ left' = Elapsed(1)
  /\ UNCHANGED <<stage, path, regs, upc, mepc, mtip, skipped, save, pid, pcb, epc>>

(* The last cycle of a user instruction: it writes a register and the pc.  *)
UserExecute ==
  /\ stage = "user" /\ ~mtip /\ left # 1
  /\ \E r \in Regs, v \in Values : regs' = [regs EXCEPT ![r] = v]
  /\ upc' \in Code
  /\ left' = Elapsed(1)
  /\ UNCHANGED <<stage, path, mepc, mtip, skipped, save, pid, pcb, epc>>

(* The core takes the timer interrupt instead of the user instruction at   *)
(* upc, which will be executed again.  If that instruction was in the      *)
(* first cycle of a memory access, the core still holds it for a cycle and *)
(* drops the first instruction of the handler.                             *)
TimerTrap ==
  /\ stage = "user"
  /\ mtip \/ left = 1
  /\ mepc' = upc
  /\ mtip' = TRUE
  /\ left' = Elapsed(1)
  /\ skipped' \in BOOLEAN
  /\ stage' = "entry"
  /\ UNCHANGED <<path, regs, upc, save, pid, pcb, epc>>

(* sw t0, 0(zero), twice; sw t1, 4(zero).                                  *)
SaveScratch ==
  /\ stage = "entry"
  /\ save' = [r \in {T0, T1} |-> IF r \in Stored THEN regs[r] ELSE save[r]]
  /\ skipped' = FALSE
  /\ PassTime(Cycles["entry"])
  /\ stage' = "dispatch"
  /\ UNCHANGED <<path, regs, upc, mepc, pid, pcb, epc>>

(* A zero word at 260 means that the second program was never started;     *)
(* otherwise the word at 0x340 is toggled and tells which way to switch.   *)
Dispatch ==
  /\ stage = "dispatch"
  /\ IF epc[1] = Null
     THEN /\ path' = "first"
          /\ regs' = [regs EXCEPT ![T0] = Scratch]
          /\ UNCHANGED pid
     ELSE /\ pid' = Toggled
          /\ path' = IF pid' = 1 THEN "onetozero" ELSE "zerotoone"
          /\ regs' = Clobber(regs)
  /\ PassTime(Cycles["dispatch"])
  /\ stage' = "save"
  /\ UNCHANGED <<upc, mepc, skipped, save, epc, pcb>>

(* The context of the interrupted process goes to its control block.  On   *)
(* the first switch the entry of the second program becomes its saved pc.  *)
SaveContext ==
  /\ stage = "save"
  /\ pcb' = [pcb EXCEPT ![From(path)] = Restored]
  /\ epc' = IF path = "first" THEN [epc EXCEPT ![0] = mepc, ![1] = Entry1]
                              ELSE [epc EXCEPT ![From(path)] = mepc]
  /\ mepc' = CASE path = "first"     -> Entry1
               [] path = "zerotoone" -> epc[1]
               [] path = "onetozero" -> mepc
  /\ regs' = IF path = "first" THEN Restored
                              ELSE [Restored EXCEPT ![T0] = Scratch]
  /\ PassTime(Cycles["save"])
  /\ stage' = "clear"
  /\ UNCHANGED <<path, upc, skipped, save, pid>>

(* mip is read, masked and written back with its timer bit cleared; a tick *)
(* between the read and the write is lost.                                 *)
ClearPending ==
  /\ stage = "clear"
  /\ mtip' = Masked
  /\ left' = Elapsed(Cycles["clear"])
  /\ regs' = Clobber(regs)
  /\ stage' = "rearm"
  /\ UNCHANGED <<path, upc, mepc, skipped, save, pid, pcb, epc>>

(* mtimecmp := mtime + 373.  The first switch has cleared every register   *)
(* before.                                                                 *)
RearmTimer ==
  /\ stage = "rearm"
  /\ mtip' = (mtip \/ Tick(Cycles["rearm"]))
  /\ left' = Rearmed
  /\ regs' = Clobber(IF path = "first" THEN ZeroRegs ELSE regs)
  /\ stage' = "resume"
  /\ UNCHANGED <<path, upc, mepc, skipped, save, pid, pcb, epc>>

(* The registers of the other process, mepc, and mret.  A tick in the very *)
(* cycle of mret is not recorded in mip.                                   *)
Resume ==
  /\ stage = "resume"
  /\ regs' = IF path = "first" THEN [regs EXCEPT ![T0] = Zero, ![T1] = Zero]
                               ELSE pcb[To(path)]
  /\ mepc' = IF path = "onetozero" THEN epc[0] ELSE mepc
  /\ upc' = mepc'
  /\ left' = Elapsed(Cycles["resume"])
  /\ mtip' = (mtip \/ Tick(Cycles["resume"] - 1))
  /\ stage' = "user"
  /\ UNCHANGED <<path, skipped, save, pid, pcb, epc>>

User == UserStall \/ UserExecute

Handler ==
  \/ SaveScratch \/ Dispatch \/ SaveContext
  \/ ClearPending \/ RearmTimer \/ Resume

Next == Boot \/ User \/ TimerTrap \/ Handler

(* The clock of the simulated core never stops.                            *)
Spec == Init /\ [][Next]_vars /\ WF_vars(Next)

-----------------------------------------------------------------------------
(* The refinement mapping: whose context is where.                         *)

(* Stages of the handler that follow the save of the interrupted context.  *)
Switching == {"clear", "rearm", "resume"}

(* The process whose turn it is, until the mret that ends a switch.        *)
Running ==
  IF stage \in {"save"} \cup Switching THEN From(path)
  ELSE IF epc[1] = Null THEN 0 ELSE 1 - pid

(* The context of the interrupted process while the handler still holds it *)
Live ==
  CASE stage \in {"boot", "user"} -> [regs |-> regs, pc |-> upc]
    [] stage = "entry"            -> [regs |-> regs, pc |-> mepc]
    [] OTHER                      -> [regs |-> Restored, pc |-> mepc]

Starting == [p \in Process |->
  [regs |-> ZeroRegs, pc |-> IF p = 0 THEN Entry0 ELSE Entry1]]

(* The context of a process that waits, from its control block.            *)
Parked(p) ==
  IF p = 1 /\ (epc[1] = Null \/ (path = "first" /\ stage \in Switching))
  THEN Starting[1]
  ELSE [regs |-> pcb[p], pc |-> epc[p]]

ContextOf(p) ==
  IF p = Running /\ stage \notin Switching THEN Live ELSE Parked(p)

InHandler == stage \in Stages

TS == INSTANCE TimeSharing WITH
        Contexts    <- [regs : [Regs -> Values], pc : Code],
        First       <- Starting,
        context     <- [p \in Process |-> ContextOf(p)],
        current     <- Running,
        interrupted <- InHandler

-----------------------------------------------------------------------------
(* Properties.                                                             *)

(* The type of every variable of the hart, the timer and the kernel memory *)
TypeOK ==
  /\ stage \in {"boot", "user"} \cup Stages
  /\ path \in Paths
  /\ regs \in [Regs -> Values \cup {Scratch}]
  /\ upc \in Code
  /\ mepc \in Code \cup {Null}
  /\ mtip \in BOOLEAN
  /\ left \in 0..Quantum
  /\ skipped \in BOOLEAN
  /\ save \in [{T0, T1} -> Values \cup {Scratch}]
  /\ pid \in {0, 1}
  /\ pcb \in [Process -> [Regs -> Values \cup {Scratch}]]
  /\ epc \in [Process -> Code \cup {Null}]

(* User code never runs without a timer interrupt ahead of it: either      *)
(* mtime has yet to reach mtimecmp or the tick is pending.  A process that *)
(* never gives up the processor (both programs loop) is always preempted.  *)
PreemptionAhead == stage = "user" => left > 0 \/ mtip

(* A switch gives the next process at least one cycle of user code: the    *)
(* handler never returns with the interrupt of its own slice pending.      *)
SliceNotEmpty == [][stage = "resume" /\ stage' = "user" => ~mtip' /\ left' > 1]_vars

(* The scheduler implements time sharing: a process always finds its own   *)
(* registers and pc again, and each switch hands over to the other process *)
ImplementsTimeSharing == TS!Spec

(* Both processes keep getting the processor.                              *)
BothScheduled == \A p \in Process : []<>(stage = "user" /\ Running = p)
-----------------------------------------------------------------------------
(* The inductive invariant the proofs rest on.                             *)

(* The timer: armed and not pending in user mode, expired in the handler   *)
(* until it is armed again, and cleared before that.                       *)
TimerInv ==
  /\ stage = "user" => left \in 1..Quantum
  /\ stage \in {"entry", "dispatch", "save", "clear", "rearm"} => left = 0
  /\ stage = "resume" => left = Quantum
  /\ stage \in {"boot", "user", "rearm", "resume"} => ~mtip

(* Contexts hold user values only, wherever they are at the time.          *)
ContextInv ==
  /\ pcb \in [Process -> [Regs -> Values]]
  /\ stage \in {"user", "entry"} => regs \in [Regs -> Values]
  /\ stage \in {"dispatch", "save"} => Restored \in [Regs -> Values]
  /\ stage \in Stages => mepc \in Code
  /\ epc[1] # Null => epc[0] \in Code

(* The kernel words at 0x340 and at 260 tell whose turn it is.             *)
TurnInv ==
  /\ stage = "boot" => regs = ZeroRegs /\ upc = Entry0
  /\ epc[1] = Null => pid = 0 /\ stage \notin Switching
  /\ stage = "save" => (path = "first" <=> epc[1] = Null)
  /\ stage \in {"save"} \cup Switching =>
       IF path = "first" THEN pid = 0
       ELSE path = IF pid = 1 THEN "onetozero" ELSE "zerotoone"
  /\ stage \in Switching =>
       /\ path # "onetozero" => mepc = epc[1]
       /\ path = "first" => mepc = Entry1
  /\ stage = "boot" => epc[1] = Null
  /\ stage = "resume" /\ path = "first" => regs = Clobber(ZeroRegs)

IInv == TypeOK /\ TimerInv /\ ContextInv /\ TurnInv
=============================================================================
