-------------------------------- MODULE Echo --------------------------------
(***************************************************************************)
(* What an interrupt-driven echo with a bounded buffer promises: a key     *)
(* that is read from the keyboard gets a place of its own or, if there is  *)
(* none, is dropped; a key in a place is shown once, on a display that is  *)
(* ready.  The order of the keys is not part of the promise.  Sticky and   *)
(* Fragile are the exceptions that an implementation admits; an echo as it *)
(* should be has none.                                                     *)
(***************************************************************************)
CONSTANTS
  Keys,
  Places,
  Sticky,     \* places that keep their key when it is shown
  Fragile,    \* places that may lose theirs when a sticky place is shown
  Nothing     \* no key

VARIABLES
  pressed,    \* the key that waits at the keyboard
  read,       \* the key that was read and has no place yet
  held,       \* held[p]: the key in place p
  screen,     \* the key shown last
  ready       \* the display takes a key

vars == <<pressed, read, held, screen, ready>>

Init ==
  /\ pressed = Nothing /\ read = Nothing /\ screen = Nothing
  /\ held = [p \in Places |-> Nothing]
  /\ ready = FALSE

(* A key is pressed; one that was not read yet is overwritten.             *)
Press ==
  /\ pressed' \in Keys
  /\ UNCHANGED <<read, held, screen, ready>>

Read ==
  /\ pressed # Nothing /\ read = Nothing
  /\ read' = pressed
  /\ pressed' = Nothing
  /\ UNCHANGED <<held, screen, ready>>

Keep ==
  /\ read # Nothing
  /\ \E p \in Places : held[p] = Nothing /\ held' = [held EXCEPT ![p] = read]
  /\ read' = Nothing
  /\ UNCHANGED <<pressed, screen, ready>>

Drop ==
  /\ read # Nothing
  /\ \A p \in Places : held[p] # Nothing
  /\ read' = Nothing
  /\ UNCHANGED <<pressed, held, screen, ready>>

Show ==
  /\ ready
  /\ \E p \in Places \ Sticky : /\ held[p] # Nothing
                                /\ screen' = held[p]
                                /\ held' = [held EXCEPT ![p] = Nothing]
  /\ ready' = FALSE
  /\ UNCHANGED <<pressed, read>>

ShowSticky ==
  /\ ready
  /\ \E p \in Places \cap Sticky : held[p] # Nothing /\ screen' = held[p]
  /\ \E lost \in SUBSET Fragile :
       held' = [p \in Places |-> IF p \in lost THEN Nothing ELSE held[p]]
  /\ ready' = FALSE
  /\ UNCHANGED <<pressed, read>>

BecomeReady ==
  /\ ~ready
  /\ ready' = TRUE
  /\ UNCHANGED <<pressed, read, held, screen>>

Next == Press \/ Read \/ Keep \/ Drop \/ Show \/ ShowSticky \/ BecomeReady

Spec == Init /\ [][Next]_vars
=============================================================================
