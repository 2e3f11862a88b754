---------------------------- MODULE InterruptIO ----------------------------
(***************************************************************************)
(* The interrupt-driven echo of programs/public/os/interrupts.s with the   *)
(* simulated keyboard and display and the pending bit of the external      *)
(* interrupt.  The handler is alone on the core, but the devices go on     *)
(* while it runs: each action of the handler is a straight-line part of it *)
(* between two looks at a device or at mip.                                *)
(***************************************************************************)
EXTENDS Integers

CONSTANTS
  Capacity,     \* the bytes from 256 up to, not including, 271
  MaxKeys,      \* bound: the number of keys pressed
  Instructions, \* length of the loop of the user program
  Values        \* what the user program puts in ra

ASSUME CapacityAssumption == Capacity \in Nat \ {0}
ASSUME KeysAssumption == MaxKeys \in Nat
ASSUME UserAssumption == Instructions \in Nat \ {0} /\ Values # {}

(* The n-th key that is pressed is the number n; 0 is the byte of a free   *)
(* place.  The echo does not look at characters in any other way.          *)
Keys == 1..MaxKeys
Empty == 0
Places == 0..Capacity - 1
Code == 0..Instructions - 1

VARIABLES
  stage,      \* "boot", "user", or the part of the handler that runs next
  meip,       \* the pending bit of the external interrupt in mip
  pulse,      \* m_ext is up and has not reached the core yet
  kbdReady, kbdData, typed,     \* keyboard; typed: how many keys so far
  display,    \* "ready"; "written" until the handler returns; then "busy"
  screen,     \* the character shown last
  buffer,     \* the bytes from 256
  char,       \* a0
  place,      \* t1 - 256
  upc, ra,    \* the next user instruction, a register of the user
  mepc,
  saved,      \* the word at address 4
  skipped,    \* the core drops the first instruction of the handler
  killed      \* [pc, ra]: the user's context at the last interrupt (history)

core == <<upc, ra, mepc, saved, skipped, killed>>
keyboard == <<kbdReady, kbdData, typed>>
output == <<display, screen>>
vars == <<stage, meip, pulse, keyboard, output, buffer, char, place, core>>

Stages == {"save", "check_key", "read_key", "buffer_fill", "check_display",
           "check_ready", "show", "clear_slot", "finalize", "restore", "mret"}

-----------------------------------------------------------------------------
(* The parts of the handler's decisions.                                   *)

(* The branch on keyboard_ready.                                           *)
AnyKey == TRUE              \* mutant: the branch is missing
HasKey == kbdReady

(* The branch on display_ready.                                            *)
AnyTime == TRUE             \* mutant: the branch is missing
CanShow == display = "ready"

(* meip once the handler has acknowledged the interrupt with csrrc.        *)
NotAcknowledged == meip     \* mutant: mip is not written
Acknowledged == FALSE

Free == {p \in Places : buffer[p] = Empty}
IsFirst(p, S) == p \in S /\ \A q \in S : p <= q

(* The bytes after sb of c to place p.  The core sends the address as it   *)
(* is, with byte enable 0001, and the simulated memory puts the word       *)
(* together from new and old bytes.  At offset 1 it ORs the old byte to    *)
(* the new one: a zero changes nothing (no place that has a key is given   *)
(* another one).  At offsets 1 and 2 it leaves out the byte at offset 3.   *)
Offset(p) == p % 4
Merged(old, new) == IF new = Empty THEN old ELSE new
LeftOut(p) == IF Offset(p) \in {1, 2} THEN {p - Offset(p) + 3} ELSE {}
Stored(p, c) ==
  [q \in Places |->
     IF q = p THEN IF Offset(p) = 1 THEN Merged(buffer[p], c) ELSE c
     ELSE IF q \in LeftOut(p) THEN Empty ELSE buffer[q]]

(* A pulse that reaches the core in machine mode stays pending in mip.     *)
Pend ==
  /\ meip' = (meip \/ pulse)
  /\ pulse' = FALSE

Goto(from, to) == stage = from /\ stage' = to

-----------------------------------------------------------------------------
(* The display is not ready at reset, and memory is zero.                  *)
Init ==
  /\ stage = "boot" /\ meip = FALSE /\ pulse = FALSE
  /\ kbdReady = FALSE /\ kbdData = Empty /\ typed = 0
  /\ display = "busy" /\ screen = Empty
  /\ buffer = [p \in Places |-> Empty]
  /\ char = Empty /\ place = 0
  /\ upc = 0 /\ ra \in Values /\ mepc = 0 /\ saved = ra
  /\ skipped = FALSE /\ killed = [pc |-> 0, ra |-> ra]

(* The boot code, to its mret into the user program.                       *)
Boot ==
  /\ Goto("boot", "user")
  /\ mepc' = 0 /\ upc' = 0
  /\ UNCHANGED <<meip, pulse, keyboard, output, buffer, char, place, ra, saved, skipped, killed>>

(* A key arrives.  A key that was not read is overwritten.                 *)
Arrives ==
  /\ typed < MaxKeys
  /\ typed' = typed + 1
  /\ kbdData' = typed + 1
  /\ pulse' = TRUE

Press ==
  /\ stage # "boot"
  /\ Arrives
  /\ kbdReady' = TRUE
  /\ UNCHANGED <<stage, meip, output, buffer, char, place, core>>

(* The display has shown its character.  Its 200 cycles are longer than    *)
(* what the handler has left to do after it wrote the character.           *)
DisplayReady ==
  /\ stage # "boot"
  /\ display = "busy"
  /\ display' = "ready"
  /\ pulse' = TRUE
  /\ UNCHANGED <<stage, meip, keyboard, screen, buffer, char, place, core>>

UserExecute ==
  /\ stage = "user" /\ ~meip /\ ~pulse
  /\ upc' = (upc + 1) % Instructions
  /\ ra' \in Values
  /\ UNCHANGED <<stage, meip, pulse, keyboard, output, buffer, char, place, mepc, saved, skipped, killed>>

(* The interrupt takes the place of the user instruction at upc.  If it    *)
(* was in the first cycle of a memory access, the core drops the first     *)
(* instruction of the handler.                                             *)
Trap ==
  /\ Goto("user", "save")
  /\ meip \/ pulse
  /\ meip' = TRUE /\ pulse' = FALSE
  /\ mepc' = upc
  /\ killed' = [pc |-> upc, ra |-> ra]
  /\ skipped' \in BOOLEAN
  /\ UNCHANGED <<keyboard, output, buffer, char, place, upc, ra, saved>>

(* sw ra, 4(zero) and the stores of the other registers.                   *)
Save ==
  /\ Goto("save", "check_key")
  /\ saved' = IF skipped THEN saved ELSE ra
  /\ skipped' = FALSE
  /\ Pend
  /\ UNCHANGED <<keyboard, output, buffer, char, place, upc, ra, mepc, killed>>

CheckKey ==
  /\ stage = "check_key"
  /\ stage' = IF HasKey THEN "read_key" ELSE "check_display"
  /\ Pend
  /\ UNCHANGED <<keyboard, output, buffer, char, place, core>>

(* The load of keyboard_data resets keyboard_ready, also if another key    *)
(* arrives in the same cycle.                                              *)
ReadKey ==
  /\ Goto("read_key", "buffer_fill")
  /\ char' = kbdData
  /\ kbdReady' = FALSE
  /\ meip' = (meip \/ pulse)
  /\ \/ Arrives
     \/ pulse' = FALSE /\ UNCHANGED <<kbdData, typed>>
  /\ UNCHANGED <<output, buffer, place, core>>

(* The first free place takes the character; without one it is dropped.    *)
BufferFill ==
  /\ Goto("buffer_fill", "check_display")
  /\ \/ \E p \in Places : IsFirst(p, Free) /\ buffer' = Stored(p, char)
     \/ Free = {} /\ UNCHANGED buffer
  /\ Pend
  /\ UNCHANGED <<keyboard, output, char, place, core>>

(* The first place that is not free is the next to be shown.               *)
CheckDisplay ==
  /\ stage = "check_display"
  /\ \/ /\ stage' = "check_ready"
        /\ IsFirst(place', Places \ Free)
        /\ char' = buffer[place']
     \/ /\ Free = Places
        /\ stage' = "finalize"
        /\ UNCHANGED <<char, place>>
  /\ Pend
  /\ UNCHANGED <<keyboard, output, buffer, core>>

CheckReady ==
  /\ stage = "check_ready"
  /\ stage' = IF CanShow THEN "show" ELSE "finalize"
  /\ Pend
  /\ UNCHANGED <<keyboard, output, buffer, char, place, core>>

(* sb a0 to display_data; a display that is not ready takes no notice.     *)
Show ==
  /\ Goto("show", "clear_slot")
  /\ IF display = "ready" THEN screen' = char /\ display' = "written"
                          ELSE UNCHANGED output
  /\ Pend
  /\ UNCHANGED <<keyboard, buffer, char, place, core>>

(* sb zero to the place that was shown.                                    *)
ClearSlot ==
  /\ Goto("clear_slot", "finalize")
  /\ buffer' = Stored(place, Empty)
  /\ Pend
  /\ UNCHANGED <<keyboard, output, char, place, core>>

(* csrrc on mip: a pulse that came since the handler was entered, or comes *)
(* in this very cycle, is forgotten with the one that is acknowledged.     *)
Finalize ==
  /\ Goto("finalize", "restore")
  /\ meip' = Acknowledged
  /\ pulse' = FALSE
  /\ UNCHANGED <<keyboard, output, buffer, char, place, core>>

(* mepc + 4, and the registers from memory.                                *)
Restore ==
  /\ Goto("restore", "mret")
  /\ mepc' = (mepc + 1) % Instructions
  /\ ra' = saved
  /\ Pend
  /\ UNCHANGED <<keyboard, output, buffer, char, place, upc, saved, skipped, killed>>

(* In the cycle of mret the core does not record a pulse.                  *)
Mret ==
  /\ Goto("mret", "user")
  /\ upc' = mepc
  /\ pulse' = FALSE
  /\ display' = IF display = "written" THEN "busy" ELSE display
  /\ UNCHANGED <<meip, keyboard, screen, buffer, char, place, ra, mepc, saved, skipped, killed>>

Handler ==
  \/ Save \/ CheckKey \/ ReadKey \/ BufferFill \/ CheckDisplay \/ CheckReady
  \/ Show \/ ClearSlot \/ Finalize \/ Restore \/ Mret

Core == Boot \/ UserExecute \/ Trap \/ Handler

Next == Core \/ Press \/ DisplayReady

(* The clock runs, and with it the core and the delay of the display; keys *)
(* need not come.                                                          *)
Spec == Init /\ [][Next]_vars /\ WF_vars(Core) /\ WF_vars(DisplayReady)
-----------------------------------------------------------------------------
(* Properties.                                                             *)

(* The type of every variable; what the handler carries to the buffer and  *)
(* to the display is a key.                                                *)
TypeOK ==
  /\ stage \in {"boot", "user"} \cup Stages
  /\ meip \in BOOLEAN /\ pulse \in BOOLEAN
  /\ kbdReady \in BOOLEAN /\ kbdData \in Keys \cup {Empty} /\ typed \in 0..MaxKeys
  /\ display \in {"ready", "written", "busy"} /\ screen \in Keys \cup {Empty}
  /\ buffer \in [Places -> Keys \cup {Empty}]
  /\ char \in Keys \cup {Empty} /\ place \in Places
  /\ stage \in {"buffer_fill", "check_ready", "show", "clear_slot"} => char \in Keys
  /\ upc \in Code /\ mepc \in Code /\ ra \in Values /\ saved \in Values
  /\ skipped \in BOOLEAN /\ killed \in [pc : Code, ra : Values]

(* The echo in the handler's state.  A place that was shown is cleared     *)
(* with the store that comes next.                                         *)
Pressed  == IF kbdReady THEN kbdData ELSE Empty
ReadChar == IF stage = "buffer_fill" THEN char ELSE Empty
Held     == IF stage = "clear_slot" THEN Stored(place, Empty) ELSE buffer
Ready    == display = "ready"

(* The README promises an echo through a buffer: a key that was read gets  *)
(* a place or finds all of them taken, and a key in a place is shown once. *)
E == INSTANCE Echo WITH
       Nothing <- Empty, Sticky <- {}, Fragile <- {},
       pressed <- Pressed, read <- ReadChar, held <- Held, ready <- Ready
ImplementsEcho == E!Spec

(* What there is of it on the simulated memory: whatever the devices do    *)
(* while the handler runs, no key that was read is lost on its way to a    *)
(* place, none is invented or shown on a busy display, and each is shown   *)
(* at most once and kept until then.  Only the key at 257 stays there when *)
(* it is shown, and takes the one at 259 away.                             *)
L == INSTANCE Echo WITH
       Nothing <- Empty, Sticky <- {1}, Fragile <- {3},
       pressed <- Pressed, read <- ReadChar, held <- Held, ready <- Ready
ImplementsLeakyEcho == L!Spec

(* Interrupts leave room for the user program: with finitely many keys the *)
(* core is not kept in the handler for ever.                               *)
UserRuns == []<>(stage = "user" /\ ~meip /\ ~pulse)

(* The README describes a ring buffer and an echo in order: keys are shown *)
(* in the order in which they were pressed.                                *)
InOrder == [][screen' # screen => screen' > screen]_vars

(* The README describes an echo: a key in the buffer gets shown, at least  *)
(* in place 0, whose word the memory puts together rightly.                *)
HeldIsShown == buffer[0] # Empty ~> buffer[0] = Empty

(* "Save Registers", "Restore Registers and Return": the user program goes *)
(* on where it was interrupted, with the registers it had.                 *)
Transparent ==
  [][stage = "mret" => upc' = killed.pc /\ ra' = killed.ra]_vars
-----------------------------------------------------------------------------
(* The inductive invariant of the proofs: the type, what the handler       *)
(* remembers of the devices and of the buffer, and that only the places 0  *)
(* and 3 are ever free again.                                              *)
NoOtherHole ==
  \A p, q \in Places : p < q /\ p \notin {0, 3} /\ buffer[q] # Empty => buffer[p] # Empty

IInv ==
  /\ TypeOK
  /\ kbdReady => kbdData \in Keys
  /\ stage = "read_key" => kbdReady
  /\ stage \in {"check_ready", "show", "clear_slot"} =>
       IsFirst(place, Places \ Free) /\ buffer[place] = char
  /\ stage = "show" => display = "ready"
  /\ NoOtherHole
=============================================================================
