--------------------------- MODULE MCSelfCloning ---------------------------
(***************************************************************************)
(* Three processes in place of eight, and slices of any length: those that *)
(* put a tick on each instruction and into each part of the kernel, and    *)
(* those that leave room for a result.  373 cycles are one of the latter.  *)
(***************************************************************************)
EXTENDS SelfCloning

MCValues == 0..N \cup {Failed, CLONE, GETPID}

(* The steps from the timer being set to the first result of a process     *)
(* that has everything before it.                                          *)
Enough == 24

VARIABLE hurried    \* some slice was shorter than that (history)

MCInit == SelfInit /\ hurried = FALSE

MCNext ==
  /\ Next
  /\ hurried' = (hurried \/ (left' > left /\ left' < Enough))

MCSpec == MCInit /\ [][MCNext]_<<vars, hurried>> /\ WF_<<vars, hurried>>(MCNext)

(* If every slice leaves room for a result, all N processes are created    *)
(* and get their results, although every slice begins behind the first     *)
(* clone again (cloning.s:431, 571).                                       *)
AllComputeInTime == <>hurried \/ AllCompute

(* If every slice leaves room for a result, every process keeps getting    *)
(* the processor: none is cut off from the round robin by a process at the *)
(* end that was interrupted before it cloned.                              *)
NoStarvationInTime == <>hurried \/ NoStarvation
=============================================================================
