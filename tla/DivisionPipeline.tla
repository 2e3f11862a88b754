-------------------------- MODULE DivisionPipeline --------------------------
(***************************************************************************)
(* BonusDivisionUnit in the pipeline of GenericCore, on Divider.  One      *)
(* action is a clock cycle; instructions are fetched without delay.  Only  *)
(* divisions and one-cycle instructions without a jump are modelled;       *)
(* addresses count instructions.                                           *)
(***************************************************************************)
EXTENDS Divider

CONSTANTS
  Divisions,   \* the addresses of divisions
  MaxPc        \* bound: the last address

VARIABLES
  pc,
  instruction,      \* the address the instruction register was fetched from
  operands,         \* reg_read_data1, reg_read_data2
  unitBusy          \* busy of the division unit

pipeline == <<vars, pc, instruction, operands, unitBusy>>

Operands == [a : Word, b : Word]

PipelineInit ==
  /\ Init
  /\ pc = 0 /\ instruction = 0
  /\ operands \in Operands
  /\ unitBusy = FALSE

Starts == instruction \in Divisions /\ ~unitBusy

(* io.stall of the unit: from the start to the cycle before done.          *)
Stalled == ~doneReg /\ (Starts \/ unitBusy)

(* The unit always asks for pc + 4, in stalled cycles as well.             *)
NextPc == pc + 1

(* The instruction register is held by a stall, and its source registers   *)
(* with it.                                                                *)
Fetch ==
  IF Stalled
    THEN UNCHANGED <<instruction, operands>>
    ELSE instruction' = NextPc /\ operands' \in Operands

Cycle ==
  /\ pc < MaxPc /\ pc' = NextPc
  /\ Fetch
  /\ unitBusy' = (~doneReg /\ (unitBusy \/ Starts))
  /\ Clock(Starts, operands.a, operands.b)

PipelineSpec == PipelineInit /\ [][Cycle]_pipeline

(* The stall makes the program wait for the division: the instruction      *)
(* after it is the next one to be executed.                                *)
WaitsForDivision ==
  [][instruction' # instruction => instruction' = instruction + 1]_pipeline
=============================================================================
