# Verification of the RISC-V hardware and systems projects

This directory holds TLA+ models of the two projects of the repository, the TLC
configurations that check them on small instances, and TLAPS proofs of what
matters most for instances of any size.

`sysarch-project-one` is a RISC-V core in Chisel (RV32I, RV32M, a sequential
divider). `sysarch-project-two` is operating system code in assembly for a
machine-mode core, a simulator that runs the core against a timer, a keyboard and
a display, and a web interface. The kernels are where things interleave: user
code never yields, and a timer or a device interrupts it at any instruction. The
web interface is the other place: a simulator, a server and a browser's page share
a state by messages, answers and a queue.

## Inventory

| Component | State | Operations | Interacts with | What makes it correct |
|---|---|---|---|---|
| Process switching kernel, `processswitch.s` | two control blocks, two saved pcs, turn word at 0x340, scratch words 0 and 4 | boot, timer handler (first switch, 1 to 0, 0 to 1) | timer, CSRs `mip`, `mepc`; user code | contexts never mixed up or lost; preemption never stops; slices not empty; both processes run |
| Cloning kernel, `cloning.s` | count, current, eight mepc slots, flags, segments | boot, clone, getpid, other calls, timer handler | timer, user code by `ecall` | count and flags agree; round robin in pid order; a process goes on where it was interrupted |
| I/O kernel, `interrupts.s` | a 15-slot buffer at 256..270 | boot, external interrupt handler | keyboard, display, `mip` | characters come out once and in order; none waits for ever |
| Polling and system calls, `polling.s`, `systemcalls.s` | saved registers | echo loop; print character, print string, exit | keyboard, display by memory | no character written while the display is busy |
| Machine-mode core, `MachineModeCore.sv` | CSRs, instruction register, mode | fetch, execute, trap, `mret` | every kernel | a trap is precise; no pulse of a device is lost |
| Simulated machine, `InteractiveTester.scala` | memory, `mtime`, `mtimecmp`, device registers and delays | clock step, interrupts, memory reads and writes | core, session | the timer matches once; bytes land in their lanes |
| Session, `InteractiveTester.scala`, `WebUIController.scala` | command queue, configuration, state, key, sockets of ten messages | run, step, restart, initialise, publish, answer | the page by web socket and requests | no command or upload is left behind, whatever fails |
| Page: updates, `state-management.js`, `webhook.js`, `main.js` | list of updates, state on display, index, live or not | start, update, answer, error; back, forward, start, end; reload | server; tabs, window and terminal | what is displayed is a state of the simulation; the page catches up |
| Page: elements, `ui.js`, Bootstrap's Tab | tabs and panes with their classes, callbacks, memory window, keyboard switch | select, click, end of a transition, redraw, move, type | updates; controller's key | tab, pane and window agree with the state; a key is taken once |
| Divider, `Divider.scala` | remainder, quotient, divisor, count, busy, done | start, step | division units | one answer for each request, the right one |
| Division units, `BonusDivisionUnit.scala`, `DivisionUnit.scala` | busy | start, stall, write back | divider, pipeline | the pc waits; the result is written once |
| Pipeline, `GenericCore.scala`, `ControlUnit.scala` | pc, registers, held instruction, grants | fetch, execute, two-cycle load and store | memory | late grants lose nothing |
| Parallel unit, `ParallelUnit.scala` | counter, buffer | start, chunk | its user | the result of a run is of that run's inputs |
| ALU, branch unit, decoder, multiplier | none | functions | pipeline | tests of the repository |
| Assembler, views, vendored scripts | - | - | - | out of scope: text, presentation, other people's code |

The hard behaviours are: a tick or an event at any cycle, also inside a handler
and in the cycle of its `mret`; an instruction that is killed half-way and the
first handler instruction that the core drops then; a timer that matches by
equality in one cycle and must be armed again in time; state read before it is
changed by the other side (`mip`, device registers); tables at their limit;
messages that overtake an answer or are dropped by a full socket; a user who looks
back while updates come in; two scripts that move the same elements.
`PROJECT.json` lists each with its line under `hazards`.

## Modules

| Module | Models |
|---|---|
| `TimeSharing` | abstract: two processes own their contexts, one runs, a switch hands over |
| `ProcessSwitch` | `processswitch.s`, the timer, arbitrary user programs |
| `MCProcessSwitch` | the instance for TLC |
| `ProcessSwitch_proofs` | its invariant and the refinement of `TimeSharing`, proved |
| `Division` | abstract: requests of a divider and their answers |
| `Divider` | `Divider.scala`, for any width |
| `MCDivider` | the instance for TLC |
| `Divider_proofs` | the arithmetic, the invariant and the refinement of `Division`, proved |
| `Cloning` | `cloning.s`: the kernel, its tables and the timer |
| `SelfCloning` | `selfcloning.s` on `Cloning` |
| `MCSelfCloning` | the instance for TLC |
| `SelfCloning_proofs` | its invariant, for any number of processes, proved |
| `Echo` | abstract: an echo with a bounded number of places, without order; constants admit places that keep or lose a key |
| `InterruptIO` | `interrupts.s`, keyboard, display, the external pending bit, byte stores of the simulated memory, any user program |
| `MCInterruptIO` | the instances for TLC |
| `InterruptIO_proofs` | its invariant and the refinement of `Echo`, proved |
| `Viewer` | `state-management.js`: updates, the state on display, back and forward |
| `Session` | on `Viewer`: the simulator's loop, the controller, the socket, loads of the page |
| `MCSession` | the instance for TLC |
| `Viewer_proofs` | lemmas: each step through a list of updates keeps the page faithful to it |
| `Session_proofs` | the invariant of messages, answers and page, proved |
| `Tabs` | the tabs of the programs, moved by `ui.js` and by Bootstrap's Tab |
| `MemoryWindow` | the window into the memory |
| `Keyboard` | a key from the page to the simulated keyboard |
| `Page` | composes the three under the messages that come in |
| `MCPage` | the instance for TLC |
| `Page_proofs` | an invariant for each of the three, and for the page, proved |
| `DivisionPipeline` | `BonusDivisionUnit.scala` in the pipeline, on `Divider` |
| `MCDivisionPipeline` | the instance for TLC |

### ProcessSwitch

A handler runs in machine mode with interrupts masked, so it is alone but for the
timer. One action is one straight-line part of the code: `SaveScratch` (lines
64-69), `Dispatch` (75-90), `SaveContext`, `ClearPending`, `RearmTimer` and
`Resume`, the last four for the three copies of the code (`path` is `first`,
`onetozero` or `zerotoone`). Each takes `Cycles[stage]` cycles; `left` counts
down to `mtime = mtimecmp`, and a tick in an action stays pending in `mip`, or is
lost where the code masks `mip` after reading it or returns with `mret` in the
same cycle. Comments of the source speak of slices of 300 cycles; the code adds
373, and so does the model (`Quantum`).

User programs are arbitrary: `UserExecute` writes any register and goes to any
address. `UserStall` is the first cycle of a memory access. `TimerTrap` may set
`skipped`: the core then holds the killed access for a cycle and drops the first
instruction of the handler, which is why `sw t0` is there twice. `ScratchStores`
and `Stored` model that. Control blocks are functions from registers to values;
which slot of memory holds whose value is the point, the offsets are not.

`ContextOf` is the refinement mapping: a context is in the registers, half in the
scratch words and half in the registers, or in a control block, depending on how
far the handler is. `interrupted` of `TimeSharing` is true as long as the handler
runs (`InHandler`), so both contexts are frozen from `TimerTrap` to `Resume`: a
handler that damaged the context it saves would not implement `TimeSharing`.

### Divider

One step is one clock cycle. Registers are numbers below `Pow2[W]`; the vector
`quotient` is the number its bits form. Only the divisor is stored at a start, so
the dividend must stay at the input: `Held` is that assumption, met by the unit
that owns the divider and stalls the core. `Ready` is the test of `busy` that makes a
start in the middle of a division go unnoticed. `request` is a history variable: the
operands that were accepted.

### Cloning and SelfCloning

`Cloning` has one action per straight-line part of the kernel, and counts time in
actions, not in cycles: a slice is any number from the constant `Slices`. The
word-sized flags two bytes apart are modelled as they overlap (`Activated`,
`IsActive`). The pending tick is cleared on entry for system calls too; the
comment on `Enter` says how. `SelfCloning` adds the program, one action per
instruction or straight line, with its store in two cycles.

t1 and t2 are zero throughout `selfcloning.s`, so that the stores through the
user's t2 (`sw x7, 0x238(t2)`) reach the segment they mean; a program that uses
t2 is outside this model. The return from an unknown system call is not modelled,
as this program makes none.

### InterruptIO

The devices act between any two actions of the handler: `Press` and `DisplayReady`
change the device registers and raise `pulse` (`m_ext`), which the next action of
the core finds: in user mode it is a `Trap`, in the handler `Pend` keeps it in
`meip`, `Finalize` clears it with the rest of `mip`, and in the cycle of `Mret`
the core does not record it. The pulse reaches the core a cycle after the device
register changes; no part of the handler looks at a device in the cycles in which
that could matter. Each action is a part of the handler between two looks at a
device or at `mip`; the two searches through the buffer are one action each, since
nothing else touches the buffer. The n-th key is the number n, so that loss,
repetition and order are visible; a character whose low byte is zero, which
the buffer would take for a free place, is left out. `display` is `written` until the handler
returns: the delay of 200 cycles is longer than what the handler has left to do.
`ReadKey` may meet a new key in the same cycle, which then loses its ready bit.
Keys do not come during the boot code (see the hazard at `interrupts.s:13`).

`Echo` has places, not a queue: the refinement maps a place that was shown and is
not cleared yet to the bytes after the store that clears it (`Held`), and the
character in `a0` before the store to the key that was read.

The two stores to the buffer (`BufferFill`, `ClearSlot`) go through the simulated
memory as it is (`Stored`). The core gives a byte store its address as it is and the
byte enable 0001; `computeMemoryUpdate` puts the word together from new and old
bytes, with a case for each offset. At offsets 0 and 3 it does so rightly. At offset
1 it ORs the old byte to the new one, so that a zero changes nothing (`Merged`), and
at offsets 1 and 2 it leaves out byte 3 (`LeftOut`). The places at offset 1 are 257,
261, 265 and 269, but the first of them is enough: once it has a key it is never free
again, and no place behind it is ever shown. The word stores of the kernels are
aligned or, in `cloning.s`, at offset 2 with all four bytes enabled, which is merged
rightly.

`ImplementsEcho` is the echo as the documentation has it, without exceptions, and
does not hold. `ImplementsLeakyEcho` is the same with the place 1 `Sticky` (its key
stays when it is shown) and the place 3 `Fragile` (its key may be lost when that of
place 1 is shown), which is all that goes wrong.

### Viewer and Session

The simulated program is a list of instructions, each of which writes a register
in one cycle or the display in two. A cell of a state (register, `mtime`, terminal)
has as its value the set of the instructions that wrote it, so a state that was
put together from the wrong updates shows. `Machine(k)` is the machine after k
instructions; the page must show `Machine(current_state_index)`.

`Viewer` has the functions of `state-management.js`. A loop over updates is one
action (`Undo`, `Redo`), which ends at the first update that is missing: there
the code throws. `Session` has the two loops of `InteractiveTester` (`phase`: it
waits for a configuration, resets the core, waits for an INITIALIZE after a
failure, takes commands, runs, or looks at the queue in a run), one action for
each request to the controller, and the page. A request and its answer are one
action on the simulator's side, since it waits for each; on the page's side
`getState` and `fetchCurrentState` are two, with messages in between. A socket
drops what does not fit (`Capacity`). `resetCore` may fail at any time, since the
program files are read again; a step fails behind the last instruction.

History variables say what happened to the page: `torn` is the last run of which
a message was dropped, came both in the answer and by the socket, or overtook the
answer. Nothing in the code repairs such a run on the page before the next start.
`rewound` is true after a step back. `failed`, `fresh` and `swallowed` are about
errors and uploads.

### Page, Tabs, MemoryWindow and Keyboard

In `Tabs` a class of elements is the set of programs that have it. `ui.js` changes
all classes at once; Bootstrap's `show` changes `active` at once and leaves `show`
of the two panes to callbacks at the end of the transition (`callbacks`, in order;
the timer of one ends the transition for all). `setActiveSourceCodeTab` looks at
`show`: `met` marks a change of program by the pc while callbacks were to be run.
The tabs themselves do not fade, so their callbacks run at once.

`MemoryWindow` keeps what is drawn (`cells`) apart from the memory it was drawn
from. A base may be typed by the user: negative, past the end, no multiple of a
word, or no number. `Keyboard` has requests of `keydown` in any order, `setKey` in
two steps (it adds one to a number without a lock) and the numbers by which the
simulator tells a new key from an old one. In `Page` a start of the simulation
tells the page first and resets the key after that (`starting`).

### DivisionPipeline

`Cycle` is a clock cycle of the pipeline with `BonusDivisionUnit`, on top of
`Divider`'s `Clock`: pc, instruction register, operands and the unit's busy bit.
Addresses count instructions; fetches are granted at once.

## Runs

| Run | Instance | What it shows |
|---|---|---|
| `processswitch` | 3 registers, 2 values, 2 addresses, slice of 5 cycles | all five properties below, about 43000 states |
| `divider` | W = 3, all operands | all four properties below |
| `selfcloning` | 3 processes, slices 1 to 31 | safety whenever the tick comes; liveness if no slice is shorter than 24; about 1.7 million states |
| `cloning_pc_slots` | 3 processes | a violation: pcs go to slot 2 and come from slot 1 |
| `interruptio` | 4 places, 6 keys | refinement of `Echo` but for two places; the user program is not starved |
| `interruptio_echo` | 2 places, 3 keys | a violation: the key at 257 stays in its place when it is shown |
| `interruptio_order` | 2 places, 3 keys | a violation: a later key is shown first |
| `interruptio_wakeup` | 2 places, 3 keys | a violation: a key stays in the buffer with the display ready |
| `interruptio_transparent` | 2 places, 3 keys, 2 values of `ra` | a violation: the interrupted instruction is left out |
| `session` | 3 instructions, a socket for 2 messages, 3 commands, 2 loads | what the page shows is a state of the simulation; it catches up; commands and uploads are taken |
| `page` | 2 programs, 6 words, windows of 2, 2 keys, 2 starts | tab, pane and window agree with the state; a key is taken once |
| `division_stall` | W = 3, a division at 1 | a violation: the pc goes on during the stall |

Properties, and the hazard each is for:

- `PreemptionAhead`: user code always has a tick ahead of it or pending. The match
  by equality is in the past for ever once it is missed.
- `SliceNotEmpty`: the handler never returns with the tick of its own slice
  pending.
- `ImplementsTimeSharing`: refinement of `TimeSharing`.
- `BothScheduled`: each process runs again and again.
- `PartialDivision`: the loop invariant of the division.
- `ImplementsDivision`: refinement of `Division`; `AnswerComes`: no division hangs.
- `CountsActive`: the count and the overlapping flags agree; `OwnResult`: nobody
  computes under another pid; `RoundRobin`: the order of the hand-overs;
  `FreeSegment`: no clone overwrites a process that exists.
- `AllComputeInTime`, `NoStarvationInTime`: if no slice is too short for a result, all
  processes come to life, compute and go on.
- `ImplementsLeakyEcho`: refinement of `Echo`. The key at 257 stays when it is shown
  and takes the one at 259 away; no other key that was read is lost (but for a full
  buffer), shown twice, invented, or written to a busy display.
- `UserRuns`: with finitely many keys the handler does not take over the core.
- `ImplementsEcho`, `InOrder`, `HeldIsShown`, `Transparent`, `PcInOwnSlot`,
  `WaitsForDivision`: what the documentation says and the code does not do (see
  Findings). `HeldIsShown` is about place 0, whose byte the memory stores rightly, so
  that only the lost pulse can break it.
- `ViewFaithful`: the list of a run that lost nothing has its updates in order, the
  index is in it, live means its end, and registers and memory are those at the
  index, however the user moved while updates came in. `ViewExact`: after a step
  forward or an update so are the time and the terminal, which a step back leaves
  wrong: it restores the output into `state.display_output`, which nobody reads
  (`state-management.js:109`), and the old `mtime` of an instruction of two cycles
  is that of its first cycle.
- `UpToDate`: without a message ahead of it the page has the simulation as it is, or
  nothing after an error. `Follows`: it gets there once the user pauses.
- `CommandsTaken`: the queue is always emptied again. `UploadLoaded`: an upload is
  loaded, unless a RUN took the command that announces it
  (`InteractiveTester.scala:343`). That is the one way to lose it in the model, where
  each use of the queue is atomic. In the code the queue is a mutable one without a
  lock (`WebUIController.scala:98`, `106-107`, `127`), and requests are handled on
  several threads: two at a time may lose a command as well, which is not modelled.
- `TabAndPaneAgree`, `WindowShowsMemory`: the elements of the page agree.
- `KeyTakenOnce`, `KeyNotHidden`: a key is not taken twice, also after a restart;
  none looks old, unless two requests are handled at a time.

Bounds. In `processswitch` three registers are the two the handler uses as scratch
and one it does not, two values tell a context from a wrong one, and a slice of
five cycles with an end of the handler of two puts the tick on every cycle of a
user instruction. In `divider` every state of the loop and every immediate answer
occurs at three bits. In `selfcloning` three processes have a first, a middle and a
last one, the wrap and the failing clone; the lengths of slices put the tick into
every instruction and every part of the kernel, including the system calls, where
it is lost.
In `interruptio` four places are one word of the buffer
with each offset once; six keys can all come before the display is ready, so that
keys are dropped, overwritten and shown from place 0 and from place 1. How a slice
of `selfcloning` maps to cycles: from the read of `mtime` to the first result of
process 8 the code takes about 270 of the 373 cycles (71 to the `mret`, 125 for the
clone, 26 for getpid, 40 for the computation), so a slice always leaves room for a
result, and that is what slices of 24 steps or more (`Enough`) do in the model. The
history variable `hurried` of `MCSelfCloning` says that some slice was shorter, and
the liveness properties leave those runs out; so they do not show what becomes of a
tick that is lost in a system call, which needs a short slice. With shorter slices liveness fails, since each slice starts
the computation anew (see the finding).

In `session` the program has a store to the display in the middle, a run looks at
the queue once (`Poll` 2 of `RunCycles` 3) and can reach the end of the program,
where it fails; three commands are enough to upload, run and interrupt the run,
and to fail and upload again; a second load of the page finds a simulation at any
point; its invariants are proved for any program, socket and number of commands and
loads. In `page` the second program makes the pc change tabs, windows of two words
in six give a first, a middle and a last page, the base 7 is no word's, and two keys
meet two starts; the invariants of this run are proved for all sizes.

Fairness. `WF_vars(Next)` for the kernels with a timer and for the divider, and
nothing more: the simulated core makes a step at every clock step, and at most one
action is possible at a time apart from choices of data. `InterruptIO` has
`WF_vars(Core)` and `WF_vars(DisplayReady)`: the core and the delay of the display
are driven by the same clock, and nobody has to press a key. `Session` has weak
fairness of the simulator's loop, the accept of the socket, the request for the
state and its answer, and the delivery of messages: a loop that never ends, a
server and a browser. The user owes nothing, and may reload or post only a bounded
number of times. `Page` has safety only.

## Proofs

`ProcessSwitch_proofs` proves, for any registers, values and programs and any
cycle counts for which the end of the handler fits into a slice
(`QuantumAssumption`):
`Spec => []TypeOK`, `[]PreemptionAhead`, `SliceNotEmpty` and the refinement
`ImplementsTimeSharing`. None is inductive by itself. The invariant `IInv` adds
`TimerInv` (where in the code the timer is armed, expired or pending),
`ContextInv` (contexts hold user values wherever they are) and `TurnInv` (the turn
word, the saved pc of process 1, the branch taken and `mepc` tell the same story).
The refinement is shown action by action: user steps change only the running
context, `TimerTrap` is the interruption, `Resume` is the switch, everything else
stutters.

`Divider_proofs` proves, for every width (`WidthAssumption`, `Pow2Assumption`),
`[]TypeOK`, `[]PartialDivision` and the refinement `ImplementsDivision`. The
arithmetic is first: uniqueness of quotient and remainder, and the step of long
division. `IInv` says in addition that no quotient bit below the current one is
set, so that setting a bit adds its weight, and that the answer is right when
`done` is up. That no shift or subtraction loses a bit follows from the bound
`quotient <= dividend`, `remainder < divisor`.

`InterruptIO_proofs` proves, for any number of places and keys, `[]TypeOK` and the
refinement `ImplementsLeakyEcho`. `IInv` adds what the handler still knows of the world
when it acts on it: that the key it goes to read is still there, that the place
it is about to show or to clear still holds the character in `a0`, and that the
display it found ready is ready when it is written. Each of these is a fact that
a device could break between two actions, and the proof shows that none does.
The other part is about the memory: places 5, 9 and 13 would keep their keys and the
stores at offsets 1 and 2 would erase those at 7, 11 and 15, if these stores took
place with a key there. `NoOtherHole` says why they do not: a place other than 0 and
3 that was taken stays taken, so that the buffer has no holes but those two. A store
that fills a place then finds nothing behind it but behind place 0 or 3, where it
erases nothing (`FillsOnePlace`), and the first taken place, which is the one that is
shown and cleared, is 0 or 1 (`FirstTaken`, `ClearsFirst`, `ClearsFourth`).

`Page_proofs` proves, for any programs, sizes, keys, starts and clicks, `[]TypeOK`,
`[]TabAndPaneAgree`, `[]WindowShowsMemory`, `[]KeyTakenOnce` and `[]KeyNotHidden`. Three
lemmas split a step of the page into a step of each part, and each part has its
invariant: `TabsInv` says what each pane will be once its callbacks have run
(`WillShow`), since the agreement itself does not tell what the callbacks will do;
`WindowInv` adds that a base passes the last page by less than a page, and
multiples of the page are a page apart (`PagesApart`); `KeyboardInv` says that a
character is in one place only, and that numbers go up by one as long as no two
requests overlap. `NumbersBound` counts the requests that arrived. The assumptions
are those the modules state on their constants.

`SelfCloning_proofs` proves, for any number of processes and any slices
(`SelfCloningAssumption` says that registers and addresses are those of the program,
and that those it uses are different ones), `[]TypeOK`, `[]CountsActive`, `OwnResult`,
`RoundRobin` and `FreeSegment`. The kernel alone guarantees none of them: a clone
goes into the segment behind the caller's, whoever calls. What saves it is the
program, and `IInv` says how: a0 is zero in the newest process only (`Holds`), so
nobody else reaches `clone`. Since every process goes on from the one pc in slot 1,
`WaitingInv` has to say that this pc is behind the first clone and that each
waiting process has what is needed to go on from there. `RunningInv` carries the
same through the handler up to the point where the registers are saved, and
`FlagsInv` has the flags beyond the count at zero, since setting a flag clears the
one behind it. The same number of the process is in a0 and a1 from `address` on,
which is why a result is its owner's.

`Viewer_proofs` and `Session_proofs` prove, for any program, any size of the socket,
any length of a run and polling interval and any number of posts and loads
(`ProgramAssumption`, `NullAssumption`, `SessionAssumption`), `[]TypeOK`,
`[]ViewFaithful`, `[]ViewExact` and `[]UpToDate`. `Viewer_proofs` is about one list of
updates: applying updates i + 1 to j to the machine after i instructions gives the
machine after j, and taking them back gives registers and memory after i
(`MachineForwards`, `RegisterBackwards`), so that each function of
`state-management.js` keeps the page `Faithful`, and `Exact` but for steps back. The
cells are given by the last or first update that changes them; that a finite set of
numbers has a largest and a smallest member comes from the library's theorem on
finite subsets. `Session_proofs` is about delivery. `IInv` adds to the two
properties
`SocketInv` (the messages of the socket are in order, have no gap in an intact run,
bring the start of every later run, and end where the simulation is), `AnswerInv`
(what the simulation did since an answer was written is in the socket, and what the
page had before it is no more than the answer has), `AskInv` (nothing is shown before
the answer) and `PageInv` (the next update in the socket is the next one of the
page's list, and list and socket together are all of them). They hold for a run that
is not `torn`; the proof has one lemma for each of the actions, and under it one
step for each of these parts. `UpToDate` follows from `PageInv` with an empty socket.
`LoopInv` is what the type of `cycle` and of `state.run` needs.

Each `IInv` is a state predicate of its module, so TLC can check it as an
`INVARIANT` of an instance; the configurations list only the properties.
Every invariant, action property and refinement of a passing run is stated by a
theorem. Only model-checked: liveness (`BothScheduled`, `AnswerComes`,
`AllComputeInTime`, `NoStarvationInTime`, `UserRuns`, `Follows`, `CommandsTaken`, `UploadLoaded`), which rests on
fairness and is beyond the prover. `DivisionPipeline` has only the run that shows its
finding.

## Findings

- `cloning.s` documents one mepc slot per process (line 11), but the timer path
  saves every pc at 0x1A and loads every pc from 0x16 (lines 427-431 and 567-571). A
  process therefore goes back to the instruction after the first clone at each
  slice. `selfcloning.s` survives since it computes everything again from there.
- `interrupts.s` shows the first taken place and fills the first free one, so a key
  can overtake another; the README of the project speaks of a ring buffer and of
  an echo in order. The buffer has 15 places, not 16.
- `InteractiveTester.scala` puts a byte store at offset 1 or 2 together wrongly (lines
  146-172). In the echo a key that gets place 1 is never cleared: it is the first taken
  one at each event of the display from then on and is shown again each time, and no
  key behind it is shown any more. A key in place 3 is erased.
- `interrupts.s` forgets a pulse of the display that comes between its test of
  `display_ready` and `mret`: the key stays in the buffer until another key comes.
- `interrupts.s` adds 4 to the `mepc` of an interrupt, so that the user program
  loses the instruction whose place the interrupt took.

- `BonusDivisionUnit.scala` stalls the core but not the pc: `pc_we` is true in each
  cycle of a division, so that the instruction after a division is one further on
  for every cycle it took. The tests of the repository run the core with
  `DivisionUnit`.

Seen while modelling, and in the model as the code has it: a RUN that finds a command
at its look at the queue forgets it; an invalid upload shows an error and hides the
page while the simulation goes on; the play icon stays on a tab if the user had
already clicked the tab the pc then enters (`ui.js:194`); `stepMemForward` from an
odd base shows addresses past the end of memory. Seen outside of the model: the
dropdown's entries 0x00004000, 0x00008000 and 0x0000c000 all go to 0
(`bottombar.scala.html:11-13`); the label of the keyboard switch does not follow a
restart; with the keyboard enabled, what is typed into the address field goes to the
simulated keyboard instead, since `main.js:32` leaves out the two number fields only.

## Plan

What is left, in this order:

1. Arbitrary callers on `Cloning`: repeated clones, unknown calls, t1 and t2, ticks
   inside system calls.
2. `Pipeline`: late fetch and memory grants of `GenericCore` and `ControlUnit`, on
   `DivisionPipeline`; `ParallelUnit`.
3. `Polling` with the device delays; `computeMemoryUpdate` for halfwords and unaligned
   words, against a reference definition; both words of `mtime`.
4. Proofs: the invariants of what is added by 1 to 3; consequences of the abstract
   specifications (`TimeSharing`, `Division`, `Echo`) stated on them alone.

## Not modelled

The assembler and `utils.js` (text); the views and the tables of registers and
CSRs (presentation: they are redrawn from the state and keep nothing); highlightjs
and Bootstrap, of which `javascripts/bootstrap/` holds three builds, but for Tab
and its transitions: Dropdown, Collapse and the rest share no state with the
scripts of this repository. Those files have far more lines than the repository's
own scripts, which are modelled. The combinational units (no state); the parts of
the generated netlist that no kernel can tell apart. `currentState` and the
`CURRENT-STATE` message: the simulator never sends it, since its count of empty
rounds is set to zero in every round (`InteractiveTester.scala:311`). Several pages at
once: each has a socket of its own and sees what one page sees, with commands that
come from elsewhere, which a user may post at any time anyway.
