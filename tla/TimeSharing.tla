---------------------------- MODULE TimeSharing ----------------------------
(***************************************************************************)
(* What a preemptive round-robin scheduler of two processes promises: each *)
(* process owns a context (its registers and its program counter), only    *)
(* the running process changes its own context, and the scheduler hands    *)
(* the processor to the other process without touching either context.     *)
(***************************************************************************)
EXTENDS Naturals

CONSTANTS
  Contexts,   \* the contexts a process can be in
  First       \* First[p]: the context process p starts from

Process == {0, 1}

VARIABLES
  context,      \* context[p]: what process p has computed so far
  current,      \* the process that has the processor
  interrupted   \* the scheduler has taken the processor from it

vars == <<context, current, interrupted>>

Init ==
  /\ context = First
  /\ current = 0
  /\ interrupted = FALSE

(* The running process executes: only its own context may change.          *)
Run ==
  /\ ~interrupted
  /\ \E c \in Contexts : context' = [context EXCEPT ![current] = c]
  /\ UNCHANGED <<current, interrupted>>

(* The scheduler stops the running process where it is.                    *)
Interrupt ==
  /\ ~interrupted
  /\ interrupted' = TRUE
  /\ UNCHANGED <<context, current>>

(* The processor is given to the other process.                            *)
Switch ==
  /\ interrupted
  /\ current' = 1 - current
  /\ interrupted' = FALSE
  /\ UNCHANGED context

Next == Run \/ Interrupt \/ Switch

Spec == Init /\ [][Next]_vars
=============================================================================
