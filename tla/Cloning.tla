------------------------------ MODULE Cloning ------------------------------
(***************************************************************************)
(* The kernel of programs/public/os/cloning.s: clone and getpid, and the   *)
(* round robin of the cloned processes at the timer interrupt.  The user   *)
(* program is in SelfCloning.                                              *)
(*                                                                         *)
(* Time is counted in steps of the model instead of cycles: every action   *)
(* is one step, and a slice of 373 cycles lasts any number of Slices.      *)
(***************************************************************************)
EXTENDS Naturals

CONSTANTS
  N,           \* the most processes there can be: 8
  Regs,        \* the registers of the user program, and T1 and T2
  A0, A7, T1, T2,
  Values,      \* the words of the registers
  Failed,      \* the word -1
  Code,        \* the addresses of the user program
  Entry,       \* 0x4000000
  Null,        \* the word 0 as a pc
  Plus4,       \* Plus4[pc]: the address after that of the ecall at pc
  Slices       \* the lengths of a slice

CLONE == 220
GETPID == 172

Process == 1..N

ASSUME NAssumption == N \in Nat /\ N >= 2

ASSUME RegsAssumption ==
  /\ {A0, A7, T1, T2} \subseteq Regs
  /\ A0 # A7 /\ A0 # T1 /\ A0 # T2 /\ T1 # T2 /\ A7 # T1 /\ A7 # T2
  /\ 0..N \subseteq Values /\ Failed \in Values \ (0..N)

ASSUME CodeAssumption ==
  Entry \in Code /\ Plus4 \in [Code -> Code] /\ Null \notin Code

ASSUME SlicesAssumption == Slices \subseteq Nat \ {0}

VARIABLES
  stage,       \* "user", or the part of the handler that runs next
  regs,        \* the user's register file, t1 and t2 included
  upc,         \* the pc of the user
  mepc,        \* the CSR mepc
  mcause,      \* the CSR mcause: "timer" or "ecall"
  mtip,        \* the timer pending bit of the CSR mip
  left,        \* steps until mtime = mtimecmp; 0: the match is in the past
  skipped,     \* the core drops the first instruction of the handler
  save,        \* save[T1], save[T2]: the words at 0x08 and 0x12
  count,       \* the word at 0x00
  current,     \* the word at 0x04
  slots,       \* slots[i]: the i-th of the words from 0x16 to 0x36
  active,      \* active[i]: the halfword at 0x3E + 2i
  pcb          \* pcb[i]: the segment at 0x100 * i

cpu == <<regs, upc, mepc, mcause, skipped>>
timer == <<mtip, left>>
kernel == <<save, count, current, slots, active, pcb>>

Stages == {"boot", "user", "entry", "dispatch", "getpid", "clone", "tick", "resume"}

-----------------------------------------------------------------------------
(* Time.                                                                   *)

Elapsed == IF left > 1 THEN left - 1 ELSE 0

(* A step in which a tick stays pending in mip.                            *)
PassTime == left' = Elapsed /\ mtip' = (mtip \/ left = 1)

(* A step that ends with mret: a tick in the cycle of mret is not recorded *)
PassTimeToMret == left' = Elapsed /\ mtip' \in {mtip, mtip \/ left = 1}

-----------------------------------------------------------------------------
(* The tables of the kernel.                                               *)

ZeroRegs == [r \in Regs |-> 0]

(* The flags are words two bytes apart: a store to one clears the next.    *)
Activated(i) == [active EXCEPT ![i] = 1, ![i + 1] = 0]

(* A load of the flag of process i also sees the flag of the next one.     *)
IsActive(i) == active[i] # 0 \/ active[i + 1] # 0

(* The registers at the interruption, t1 and t2 reloaded.                  *)
Restored == [regs EXCEPT ![T1] = save[T1], ![T2] = save[T2]]

(* The segment that clone fills: the one after that of the caller.         *)
SegmentOne == 2                       \* mutant: always segment 2
Segment == IF current = N THEN N ELSE current + 1

(* The registers that the clone stores for the child.                      *)
ForChild == [Restored EXCEPT ![A0] = 0]

(* No process is created beyond the last segment.                          *)
OneTooMany == count > N               \* mutant: off by one
Full == count >= N

(* The process that the timer interrupt hands over to.                     *)
NoWrap == IF IsActive(current + 1) THEN current + 1 ELSE current  \* mutant
NextProcess ==
  IF count # N /\ ~IsActive(current + 1) THEN 1
  ELSE IF current = N THEN 1 ELSE current + 1

(* The answer of getpid.                                                   *)
NewestPid == count                    \* mutant: the word at 0x00
Pid == current

(* mtimecmp := mtime + 373.                                                *)
NotRearmed == {left}                  \* mutant: mtimecmp is not written
Rearmed == Slices

-----------------------------------------------------------------------------
Init ==
  /\ stage = "boot"
  /\ regs = ZeroRegs /\ upc = Entry
  /\ mepc = Null /\ mcause = "ecall" /\ mtip = FALSE /\ left = 0 /\ skipped = FALSE
  /\ save = [r \in {T1, T2} |-> 0]
  /\ count = 0 /\ current = 0
  /\ slots = [i \in Process |-> Null]
  /\ active = [i \in 1..(N + 2) |-> 0]
  /\ pcb = [i \in Process |-> ZeroRegs]

(* The boot code: process 1 is counted, active and current.                *)
Boot ==
  /\ stage = "boot"
  /\ count' = 1 /\ current' = 1
  /\ active' = Activated(1)
  /\ mepc' = Entry /\ upc' = mepc'
  /\ left' \in Rearmed
  /\ regs' = ZeroRegs
  /\ stage' = "user"
  /\ UNCHANGED <<mcause, mtip, skipped, save, slots, pcb>>

(* The core takes the timer interrupt instead of the instruction at upc;   *)
(* inFirstCycle: that was in the first cycle of a memory access, and the   *)
(* first instruction of the handler will be dropped.                       *)
TimerTrap(inFirstCycle) ==
  /\ stage = "user"
  /\ mtip \/ left = 1
  /\ mepc' = upc /\ mcause' = "timer"
  /\ skipped' = inFirstCycle
  /\ PassTime
  /\ stage' = "entry"
  /\ UNCHANGED <<regs, upc>> /\ UNCHANGED kernel

(* The user executes ecall.                                                *)
Ecall ==
  /\ mepc' = upc /\ mcause' = "ecall"
  /\ PassTime
  /\ stage' = "entry"
  /\ UNCHANGED <<regs, upc, skipped>> /\ UNCHANGED kernel

(* t1 and t2 are saved, and mip is cleared: csrrc of the core writes       *)
(* 2048 & ~mip, whose timer bit is 0, so a pending tick is gone even when  *)
(* the cause is an ecall, which does not set the timer again.              *)
Enter ==
  /\ stage = "entry"
  /\ save' = [save EXCEPT ![T1] = IF skipped THEN save[T1] ELSE regs[T1],
                            ![T2] = regs[T2]]
  /\ skipped' = FALSE
  /\ mtip' = FALSE /\ left' = Elapsed
  /\ stage' = "dispatch"
  /\ UNCHANGED <<regs, upc, mepc, mcause, count, current, slots, active, pcb>>

(* mcause and a7 tell what to do; the program makes no other call.         *)
Dispatch ==
  /\ stage = "dispatch"
  /\ stage' = IF mcause = "timer" THEN "tick"
              ELSE IF regs[A7] = CLONE THEN "clone" ELSE "getpid"
  /\ PassTime
  /\ UNCHANGED cpu /\ UNCHANGED kernel

(* The end of a system call: mepc is advanced past the ecall, t1 and t2    *)
(* are reloaded, a0 gets the answer, and mret.                             *)
Return(answer) ==
  /\ mepc' = Plus4[mepc] /\ upc' = mepc'
  /\ regs' = [Restored EXCEPT ![A0] = answer]
  /\ PassTimeToMret
  /\ stage' = "user"
  /\ UNCHANGED <<mcause, skipped, save>>

GetPid ==
  /\ stage = "getpid"
  /\ Return(Pid)
  /\ UNCHANGED <<count, current, slots, active, pcb>>

CloneFails ==
  /\ stage = "clone" /\ Full
  /\ Return(Failed)
  /\ UNCHANGED <<count, current, slots, active, pcb>>

(* The child gets the registers of the caller, with a0 = 0; the caller's   *)
(* a0, in its register and in the segment before the child's, is the pid   *)
(* of the child.  Both mepc slots get the address after the ecall.         *)
CloneSucceeds ==
  /\ stage = "clone" /\ ~Full
  /\ Return(Segment)
  /\ count' = count + 1
  /\ pcb' = [pcb EXCEPT ![Segment] = ForChild, ![Segment - 1][A0] = Segment]
  /\ slots' = [slots EXCEPT ![Segment - 1] = mepc', ![Segment] = mepc']
  /\ active' = Activated(Segment)
  /\ UNCHANGED current

(* With no other process, the timer is set again and process 1 goes on.    *)
GoOn ==
  /\ stage = "tick"
  /\ NextProcess = 1 /\ current = 1
  /\ left' \in Rearmed /\ UNCHANGED mtip
  /\ regs' = Restored
  /\ upc' = mepc
  /\ stage' = "user"
  /\ UNCHANGED <<mepc, mcause, skipped>> /\ UNCHANGED kernel

(* The registers go to the segment of the current process.  Its pc goes to *)
(* slot 2 and the next pc comes from slot 1, whichever processes the two   *)
(* are.  Then the timer is set.                                            *)
SlotToSave == 2
SlotToLoad == 1

Save ==
  /\ stage = "tick"
  /\ ~(NextProcess = 1 /\ current = 1)
  /\ pcb' = [pcb EXCEPT ![current] = Restored]
  /\ slots' = [slots EXCEPT ![SlotToSave] = mepc]
  /\ mepc' = slots[SlotToLoad]
  /\ current' = NextProcess
  /\ left' \in Rearmed /\ UNCHANGED mtip
  /\ stage' = "resume"
  /\ UNCHANGED <<regs, upc, mcause, skipped, save, count, active>>

(* The registers of the next process, and mret.                            *)
Resume ==
  /\ stage = "resume"
  /\ regs' = pcb[current]
  /\ upc' = mepc
  /\ PassTimeToMret
  /\ stage' = "user"
  /\ UNCHANGED <<mepc, mcause, skipped>> /\ UNCHANGED kernel

Handler ==
  \/ Enter \/ Dispatch \/ GetPid \/ CloneFails \/ CloneSucceeds
  \/ GoOn \/ Save \/ Resume
=============================================================================
