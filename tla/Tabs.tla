-------------------------------- MODULE Tabs --------------------------------
(***************************************************************************)
(* The tabs with the source code of the programs.  Two scripts move them:  *)
(* ui.js selects the tab of the program the pc is in, all at once;         *)
(* Bootstrap's Tab selects the one the user clicks, and leaves the class   *)
(* "show" of the two panes to callbacks at the end of their transitions.   *)
(*                                                                         *)
(* A class of elements is the set of programs whose element has it.        *)
(***************************************************************************)
EXTENDS Sequences

CONSTANTS
  Programs,    \* the programs, each with a tab and a pane
  Outside      \* a pc in no program has the name of no tab

ASSUME TabsAssumption == Outside \notin Programs

VARIABLES
  pc,                    \* the program the pc is in
  previous_active_tab,
  active, icon,          \* tabs: selected, and marked with the play icon
  paneActive, paneShow,  \* panes: displayed, and opaque
  callbacks,             \* of each pane: "show" and "hide", to run in this order
  met                    \* history: the pc changed tabs before all callbacks had run

tabs == <<pc, previous_active_tab, active, icon, paneActive, paneShow, callbacks, met>>

None     == [p \in Programs |-> <<>>]
Names    == Programs \cup {Outside}
Pending  == callbacks # None

TabsInit ==
  /\ pc = Outside /\ previous_active_tab = ""
  /\ active = {} /\ icon = {} /\ paneActive = {} /\ paneShow = {}
  /\ callbacks = None /\ met = FALSE

-----------------------------------------------------------------------------
(* drawSourceCode makes new elements, with none of the classes, and the    *)
(* updateUI after it selects the tab of the pc.  Callbacks still to run    *)
(* belong to the old elements.                                             *)
Selected(name) == {name} \cap Programs

drawSourceCode(name) ==
  /\ pc' = name /\ previous_active_tab' = name
  /\ active' = Selected(name) /\ icon' = Selected(name)
  /\ paneActive' = Selected(name) /\ paneShow' = Selected(name)
  /\ callbacks' = None /\ met' = FALSE

(* setActiveSourceCodeTab, from updateUI, with the pc in program name.     *)
SameTab(name) == name = previous_active_tab \/ name = Outside \/ name \in active

setActiveSourceCodeTab(name) ==
  /\ pc' = name /\ previous_active_tab' = name
  /\ IF SameTab(name)
       THEN UNCHANGED <<active, icon, paneActive, paneShow, met>>
       ELSE /\ active' = {name} /\ icon' = {name}
            /\ met' = (met \/ Pending)
            /\ IF name \in paneShow
                 THEN UNCHANGED <<paneActive, paneShow>>
                 ELSE paneActive' = {name} /\ paneShow' = {name}
  /\ UNCHANGED callbacks

-----------------------------------------------------------------------------
(* Tab.show of the tab of program p: the other tab and its pane are        *)
(* deactivated, then p and its pane are activated.                         *)
OnlyShow(p) == [callbacks EXCEPT ![p] = Append(@, "show")]   \* mutant: the old pane keeps "show"
QueueCallbacks(p) ==
  [q \in Programs |->
     IF q = p THEN Append(callbacks[q], "show")
     ELSE IF q \in active THEN Append(callbacks[q], "hide") ELSE callbacks[q]]

show(p) ==
  /\ p \notin active
  /\ callbacks' = QueueCallbacks(p)
  /\ active' = {p}
  /\ paneActive' = (paneActive \ active) \cup {p}
  /\ UNCHANGED <<pc, previous_active_tab, icon, paneShow, met>>

(* The end of the transition of a pane, by the browser or by the timer of  *)
(* any of its callbacks: all of them run, in order.                        *)
LastCallback(p) == callbacks[p][Len(callbacks[p])]

transitionend(p) ==
  /\ callbacks[p] # <<>>
  /\ paneShow' = IF LastCallback(p) = "show" THEN paneShow \cup {p} ELSE paneShow \ {p}
  /\ callbacks' = [callbacks EXCEPT ![p] = <<>>]
  /\ UNCHANGED <<pc, previous_active_tab, active, icon, paneActive, met>>
=============================================================================
