------------------------------ MODULE Session ------------------------------
(***************************************************************************)
(* A session: the loop of the simulator (InteractiveTester), the web       *)
(* controller with its queue of commands and its sockets                   *)
(* (WebUIController), and a page (Viewer) that is loaded, gets the current *)
(* state by one way and everything that is published by another, and sends *)
(* commands.                                                               *)
(***************************************************************************)
EXTENDS Viewer

CONSTANTS
  Capacity,    \* messages a socket holds (10): what comes then is dropped
  RunCycles,   \* steps of a RUN (the input of the page)
  Poll,        \* steps between two looks at the queue during a RUN (10)
  MaxPosts,    \* bound: commands and uploads of the user
  MaxLoads     \* bound: loads of the page

ASSUME SessionAssumption ==
  /\ Capacity \in Nat \ {0} /\ RunCycles \in Nat \ {0} /\ Poll \in Nat \ {0}
  /\ MaxPosts \in Nat /\ MaxLoads \in Nat \ {0}

VARIABLES
  config,          \* the controller has a configuration
  actionsBuffer,   \* its queue of commands
  run, count,      \* the simulation and its updates; run 0 is no simulation
  phase, cycle,    \* where the loop of the simulator is, and in a RUN its i
  connected,       \* the page's socket is among the listeners
  socket,          \* messages on the way to the page
  fetched,         \* the page's request for the current state, and its answer
  posts, loads,
  torn,            \* history: up to this run, one lost a message or got it twice
  failed,          \* history: an error was published after the last run began
  fresh, swallowed \* history: an upload was not loaded yet; a RUN took its command

server  == <<config, actionsBuffer, run, count>>
tester  == <<phase, cycle>>
channel == <<connected, socket, fetched>>
bounds  == <<posts, loads>>
history == <<torn, failed, fresh, swallowed>>
vars    == <<page, server, tester, channel, bounds, history>>

Commands == {"STEP", "RESTART", "RUN", "INITIALIZE"}
Phases   == {"config", "reset", "restart", "wait", "main", "run", "poll"}

Settled == connected /\ fetched.status = "done"

Init ==
  /\ ViewInit
  /\ config = FALSE /\ actionsBuffer = <<>> /\ run = 0 /\ count = 0
  /\ phase = "config" /\ cycle = 0
  /\ connected = FALSE /\ socket = <<>> /\ fetched = [status |-> "asked"]
  /\ posts = 0 /\ loads = 1
  /\ torn = 0 /\ failed = FALSE /\ fresh = FALSE /\ swallowed = FALSE

-----------------------------------------------------------------------------
(* The controller's offer of a message to the listeners.  The page misses  *)
(* it if there is no room, or no socket and no request to be answered yet. *)
(* An error is of no run and tears none.                                   *)
Message(t, r, i) == [type |-> t, run |-> r, index |-> i]
HasRoom == Len(socket) < Capacity
Missed  == IF connected THEN ~HasRoom ELSE fetched.status # "asked"

Offer(m) ==
  /\ socket' = IF connected /\ HasRoom THEN Append(socket, m) ELSE socket
  /\ torn' = IF Missed /\ m.run > torn THEN m.run ELSE torn
  /\ UNCHANGED <<connected, fetched>>

setError == Offer(Message("ERROR-MESSAGE", 0, 0)) /\ failed' = TRUE

startSimulation ==
  /\ run' = run + 1 /\ count' = 0
  /\ Offer(Message("INITIAL-STATE", run + 1, 0))
  /\ failed' = FALSE

updateState ==
  /\ count' = count + 1
  /\ Offer(Message("STATE-UPDATE", run, count + 1))
  /\ UNCHANGED <<run, failed>>

Dequeue == actionsBuffer' = Tail(actionsBuffer)
NextAction(a) == actionsBuffer # <<>> /\ Head(actionsBuffer) = a

-----------------------------------------------------------------------------
(* The simulator.                                                          *)

getConfig ==
  /\ phase = "config" /\ config
  /\ phase' = "reset" /\ fresh' = FALSE
  /\ UNCHANGED <<page, server, cycle, channel, bounds, torn, failed, swallowed>>

(* resetCore reads and assembles the program files, which may have changed *)
(* since the last time.  If that fails at a RESTART, it is tried once more *)
(* with the configuration.                                                 *)
resetCore ==
  /\ phase \in {"reset", "restart"}
  /\ \/ startSimulation /\ phase' = "main"
     \/ /\ setError
        /\ phase' = IF phase = "reset" THEN "wait" ELSE "config"
        /\ UNCHANGED <<run, count>>
  /\ UNCHANGED <<page, config, actionsBuffer, cycle, bounds, fresh, swallowed>>

(* After an error all commands are taken until an INITIALIZE.              *)
OnlyInitialize ==   \* mutant: another command stays in the queue, in front
  /\ phase = "wait" /\ NextAction("INITIALIZE")
  /\ Dequeue
  /\ phase' = "config"
  /\ UNCHANGED <<page, config, run, count, cycle, channel, bounds, history>>
AwaitInitialize ==
  /\ phase = "wait" /\ actionsBuffer # <<>>
  /\ Dequeue
  /\ phase' = IF NextAction("INITIALIZE") THEN "config" ELSE "wait"
  /\ UNCHANGED <<page, config, run, count, cycle, channel, bounds, history>>

(* A step past the last instruction fails; otherwise it goes on at next.   *)
Step(next) ==
  /\ \/ count < Len(Program) /\ updateState /\ phase' = next
     \/ /\ count = Len(Program) /\ setError /\ phase' = "config"
        /\ UNCHANGED <<run, count>>
  /\ UNCHANGED <<page, config, bounds, fresh, swallowed>>

StepAction ==
  /\ phase = "main" /\ NextAction("STEP")
  /\ Dequeue /\ Step("main")
  /\ UNCHANGED cycle

(* RESTART, RUN and INITIALIZE.                                            *)
StartAgain ==   \* mutant: an INITIALIZE restarts with the old configuration
  /\ phase = "main" /\ actionsBuffer # <<>> /\ ~NextAction("STEP")
  /\ Dequeue
  /\ phase' = IF NextAction("RUN") THEN "run" ELSE "restart"
  /\ cycle' = 0
  /\ UNCHANGED <<page, config, run, count, channel, bounds, history>>
StartAction ==
  /\ phase = "main" /\ actionsBuffer # <<>> /\ ~NextAction("STEP")
  /\ Dequeue
  /\ phase' = CASE NextAction("RESTART")    -> "restart"
                [] NextAction("RUN")        -> "run"
                [] NextAction("INITIALIZE") -> "config"
  /\ cycle' = 0
  /\ UNCHANGED <<page, config, run, count, channel, bounds, history>>

OneCycleMore(i) == IF i <= RunCycles THEN "run" ELSE "main"   \* mutant
AfterCycle(i) == IF i < RunCycles THEN "run" ELSE "main"

RunStep ==
  /\ phase = "run"
  /\ cycle' = cycle + 1
  /\ Step(IF cycle' % Poll = 0 THEN "poll" ELSE AfterCycle(cycle'))
  /\ UNCHANGED actionsBuffer

(* Any command ends the RUN, and is itself forgotten.                      *)
RunPoll ==
  /\ phase = "poll"
  /\ IF actionsBuffer = <<>>
       THEN /\ phase' = AfterCycle(cycle)
            /\ UNCHANGED <<actionsBuffer, swallowed>>
       ELSE /\ Dequeue /\ phase' = "main"
            /\ swallowed' = (swallowed \/ NextAction("INITIALIZE"))
  /\ UNCHANGED <<page, config, run, count, cycle, channel, bounds, torn, failed, fresh>>

Tester ==
  \/ getConfig \/ resetCore \/ AwaitInitialize
  \/ StepAction \/ StartAction \/ RunStep \/ RunPoll

-----------------------------------------------------------------------------
(* The page and its two ways to the controller.                            *)

(* WebSocket.accept: from now on the socket gets what is published.        *)
Connect ==
  /\ ~connected /\ connected' = TRUE
  /\ UNCHANGED <<page, server, tester, socket, fetched, bounds, history>>

getState ==
  /\ fetched.status = "asked"
  /\ fetched' = [status |-> "answered", run |-> run, count |-> count]
  /\ UNCHANGED <<page, server, tester, connected, socket, bounds, history>>

(* What the answer has already.                                            *)
Known(m) ==
  m.run < fetched.run \/ (m.run = fetched.run /\ m.index <= fetched.count)

(* Not found, or a state.  An update in it that is still on its way will   *)
(* be there twice, unless the start of its run is on the way, too.         *)
ComesTwice ==
  /\ socket # <<>>
  /\ Head(socket).type = "STATE-UPDATE" /\ Head(socket).run = fetched.run
  /\ Known(Head(socket))

fetchCurrentState ==
  /\ fetched.status = "answered"
  /\ IF fetched.run = 0 THEN ForgetState ELSE computeState(fetched.run, fetched.count)
  /\ fetched' = [status |-> "done"]
  /\ torn' = IF ComesTwice /\ fetched.run > torn THEN fetched.run ELSE torn
  /\ UNCHANGED <<server, tester, connected, socket, bounds, failed, fresh, swallowed>>

(* A message that overtakes the answer is overwritten by it.               *)
Overtakes(m) == fetched.status = "answered" /\ ~Known(m)

onmessage ==
  /\ socket # <<>>
  /\ LET m == Head(socket) IN
       CASE m.type = "INITIAL-STATE" -> processInitialState(m.run)
         [] m.type = "STATE-UPDATE"  -> processUpdate([run |-> m.run, index |-> m.index])
         [] m.type = "ERROR-MESSAGE" -> ForgetState
  /\ torn' = IF Overtakes(Head(socket)) /\ Head(socket).run > torn
               THEN Head(socket).run ELSE torn
  /\ socket' = Tail(socket)
  /\ UNCHANGED <<server, tester, connected, fetched, bounds, failed, fresh, swallowed>>

(* A new page: another socket, and nothing of the old page's scripts.      *)
Reload ==
  /\ loads < MaxLoads /\ loads' = loads + 1
  /\ state' = Null /\ current_state' = Machine(0) /\ current_state_index' = 0
  /\ is_live' = TRUE /\ rewound' = FALSE
  /\ connected' = FALSE /\ socket' = <<>> /\ fetched' = [status |-> "asked"]
  /\ torn' = 0
  /\ UNCHANGED <<server, tester, posts, failed, fresh, swallowed>>

-----------------------------------------------------------------------------
(* The user.                                                               *)

Post(a) ==
  /\ posts < MaxPosts /\ posts' = posts + 1
  /\ actionsBuffer' = Append(actionsBuffer, a)

postAction(a) ==
  /\ Post(a)
  /\ UNCHANGED <<page, config, run, count, tester, channel, loads, history>>

Click == \E a \in {"STEP", "RESTART", "RUN"} : postAction(a)

(* Forward and AllForward behind the last update.                          *)
ForwardAtEnd ==
  /\ GoLive /\ Post("STEP")
  /\ UNCHANGED <<config, run, count, tester, channel, loads, history>>

setConfig ==
  /\ Post("INITIALIZE")
  /\ config' = TRUE /\ fresh' = TRUE
  /\ UNCHANGED <<page, run, count, tester, channel, loads, torn, failed, swallowed>>

(* A file that is JSON but no configuration.                               *)
setConfigInvalid ==
  /\ posts < MaxPosts /\ posts' = posts + 1
  /\ setError
  /\ UNCHANGED <<page, server, tester, loads, fresh, swallowed>>

BrowseUpdates == Browse /\ UNCHANGED <<server, tester, channel, bounds, history>>

User == Click \/ ForwardAtEnd \/ setConfig \/ setConfigInvalid \/ BrowseUpdates \/ Reload

Next == Tester \/ Connect \/ getState \/ fetchCurrentState \/ onmessage \/ User

(* The simulator's loop, the server and the browser's events go on.        *)
Fairness ==
  /\ WF_vars(Tester)
  /\ WF_vars(Connect) /\ WF_vars(getState)
  /\ WF_vars(fetchCurrentState) /\ WF_vars(onmessage)

Spec == Init /\ [][Next]_vars /\ Fairness
-----------------------------------------------------------------------------
(* Properties.                                                             *)

Messages ==
  [type : {"INITIAL-STATE", "STATE-UPDATE", "ERROR-MESSAGE"},
   run : 0..run, index : 0..Len(Program)]

(* The type of every variable: updates are those of the program, whatever  *)
(* messages are lost or come twice, and no socket holds too much.          *)
TypeOK ==
  /\ PageType /\ (state # Null => state.run \in 1..run)
  /\ config \in BOOLEAN /\ actionsBuffer \in Seq(Commands)
  /\ run \in Nat /\ count \in 0..Len(Program)
  /\ phase \in Phases /\ cycle \in 0..RunCycles
  /\ connected \in BOOLEAN
  /\ socket \in Seq(Messages) /\ Len(socket) <= Capacity
  /\ fetched.status \in {"asked", "answered", "done"}
  /\ posts \in 0..MaxPosts /\ loads \in 1..MaxLoads
  /\ torn \in 0..run
  /\ failed \in BOOLEAN /\ fresh \in BOOLEAN /\ swallowed \in BOOLEAN

(* The start of run r is on its way to the page.                           *)
Starts(m, r)  == m.type = "INITIAL-STATE" /\ m.run = r
StartComes(r) == \E i \in DOMAIN socket : Starts(socket[i], r)

(* The page shows a run of which it missed nothing, and that will not      *)
(* start once more on the page.                                            *)
Intact == state # Null /\ state.run > torn /\ ~StartComes(state.run)

(* The updates of an intact run are there in order, the user looks at one  *)
(* of its states, and registers and memory are those of that state,        *)
(* however the user went back and forth while updates came in.  Live means *)
(* the last state.                                                         *)
ViewFaithful == Intact => Faithful

(* Unless the last step through the updates went back, the time and the    *)
(* terminal are right as well.                                             *)
ViewExact == Intact => Exact

(* The page has all updates of the simulation.                             *)
InStep == state # Null /\ state.run = run /\ Len(state.updates) = count

(* When a page has its answer and no message ahead of it, it has the       *)
(* simulation as it is, whatever happened while it was loaded, unless an   *)
(* update was dropped, came twice or overtook the answer.  It has nothing  *)
(* only if an error came after the last start.                             *)
UpToDate ==
  Settled /\ socket = <<>> /\ run > torn => InStep \/ (failed /\ state = Null)

-----------------------------------------------------------------------------
(* The inductive invariant behind them.                                    *)

IsError(m)  == m.type = "ERROR-MESSAGE"
IsUpdate(m, r, k) == m.type = "STATE-UPDATE" /\ m.run = r /\ m.index = k

(* What the simulation has published so far.                               *)
Published(m) ==
  /\ IsError(m) => m.run = 0 /\ m.index = 0
  /\ ~IsError(m) => m.run >= 1
  /\ m.type = "INITIAL-STATE" => m.index = 0
  /\ m.type = "STATE-UPDATE" => m.index >= 1 /\ (m.run = run => m.index <= count)

NoError(i, j) == \A h \in i..j : ~IsError(socket[h])

(* Messages are in the order of the runs, and a run starts but once.       *)
InOrder ==
  \A i, j \in DOMAIN socket :
    i < j /\ ~IsError(socket[i]) /\ ~IsError(socket[j]) =>
      /\ socket[i].run <= socket[j].run
      /\ socket[j].type = "INITIAL-STATE" => socket[i].run < socket[j].run

(* Of an intact run nothing is missing in between.                         *)
NoGap ==
  \A i, j \in DOMAIN socket :
    i < j /\ socket[i].run = socket[j].run /\ socket[i].run > torn /\ NoError(i, j) =>
      socket[j].index = socket[i].index + (j - i)

(* Behind an older message comes the start of every later intact run.      *)
NoLostStart ==
  \A r \in 1..run, i \in DOMAIN socket :
    r > torn /\ ~IsError(socket[i]) /\ socket[i].run < r => StartComes(r)

(* If the present run is intact, the socket ends where the simulation is.  *)
EndsHere ==
  run > torn =>
    LET n == Len(socket)
    IN  /\ n > 0 /\ ~IsError(socket[n]) => socket[n].run = run /\ socket[n].index = count
        /\ \A i \in 1..n : Starts(socket[i], run) /\ NoError(i + 1, n) => n = i + count
        /\ \A i \in 1..n : IsError(socket[i]) =>
             failed \/ \E j \in (i + 1)..n : Starts(socket[j], run)

SocketInv ==
  /\ ~connected => socket = <<>>
  /\ \A i \in DOMAIN socket : Published(socket[i])
  /\ InOrder /\ NoGap /\ NoLostStart /\ EndsHere

(* An answer on its way: what came after it is in the socket, and not on   *)
(* the page.                                                               *)
AnswerInv ==
  fetched.status = "answered" =>
    /\ fetched.run \in 0..run /\ fetched.count \in 0..Len(Program)
    /\ fetched.run = run => fetched.count <= count
    /\ \A r \in (fetched.run + 1)..run : r > torn => StartComes(r)
    /\ fetched.run > torn =>
         /\ \A j \in DOMAIN socket, k \in 1..Len(Program) :
              IsUpdate(socket[j], fetched.run, k) /\ k > fetched.count + 1 =>
                \E h \in 1..(j - 1) : IsUpdate(socket[h], fetched.run, k - 1)
         /\ fetched.run = run /\ count > fetched.count =>
              \E h \in DOMAIN socket : IsUpdate(socket[h], run, count)
         /\ state # Null =>
              /\ state.run <= fetched.run
              /\ state.run = fetched.run /\ Intact => Len(state.updates) <= fetched.count
         /\ fetched.count = 0 /\ ~StartComes(fetched.run) => current_state_index = 0

(* Before the answer.                                                      *)
AskInv ==
  /\ ~connected /\ fetched.status # "done" => state = Null /\ current_state_index = 0
  /\ fetched.status = "asked" /\ run > torn /\ count = 0 /\ ~StartComes(run) =>
       current_state_index = 0

(* The page has the run whose start came, and the next update is the next  *)
(* one of its list.                                                        *)
PageInv ==
  /\ \A r \in 1..run : r > torn /\ ~StartComes(r) => state = Null \/ state.run >= r
  /\ fetched.status = "done" /\ run > torn /\ ~StartComes(run) /\ state = Null => failed
  /\ Intact =>
       /\ socket # <<>> /\ Head(socket).type = "STATE-UPDATE" =>
            IsUpdate(Head(socket), state.run, Len(state.updates) + 1)
       /\ state.run = run =>
            /\ Len(state.updates) <= count
            /\ NoError(1, Len(socket)) => Len(state.updates) + Len(socket) = count

(* A RUN has a cycle to go; there is a simulation to step.                 *)
LoopInv ==
  /\ phase = "run" => cycle < RunCycles
  /\ phase \in {"main", "run", "poll"} => run >= 1

Delivery == SocketInv /\ AnswerInv /\ AskInv /\ PageInv /\ ViewFaithful /\ ViewExact

IInv == TypeOK /\ LoopInv /\ Delivery
-----------------------------------------------------------------------------
(* Liveness.                                                               *)

(* Once the user pauses, the page catches up, unless a message was missed. *)
Follows == <>[](InStep \/ failed \/ run = torn)

(* Every command is taken from the queue once there is a configuration;    *)
(* the simulator never stops to listen, whatever fails.                    *)
CommandsTaken == (config /\ actionsBuffer # <<>>) ~> (actionsBuffer = <<>>)

(* An upload is loaded, unless a RUN took the command that announces it.   *)
UploadLoaded == fresh ~> (~fresh \/ swallowed)
=============================================================================
