--------------------------- MODULE Session_proofs ---------------------------
(***************************************************************************)
(* The inductive invariant of a session, and what follows from it: the     *)
(* page shows a state of the simulation, and catches up with it, whatever  *)
(* the sizes of the socket, the program and a RUN.                         *)
(***************************************************************************)
EXTENDS Session, Viewer_proofs

-----------------------------------------------------------------------------
(* The socket.                                                             *)

LEMMA Numbers ==
  ASSUME TypeOK
  PROVE  /\ run \in Nat /\ count \in Nat /\ torn \in Nat /\ torn <= run
         /\ count <= Len(Program) /\ Len(Program) \in Nat /\ current_state_index \in Nat
BY ProgramLength DEF TypeOK, PageType

LEMMA SocketType ==
  ASSUME TypeOK
  PROVE  /\ Len(socket) \in Nat /\ DOMAIN socket = 1..Len(socket)
         /\ \A i \in 1..Len(socket) :
              /\ socket[i].type \in {"INITIAL-STATE", "STATE-UPDATE", "ERROR-MESSAGE"}
              /\ socket[i].run \in Nat /\ socket[i].run <= run
              /\ socket[i].index \in Nat /\ socket[i].index <= Len(Program)
<1>1. socket \in Seq(Messages) /\ run \in Nat /\ Len(Program) \in Nat
  BY ProgramLength DEF TypeOK
<1>2. /\ Len(socket) \in Nat /\ DOMAIN socket = 1..Len(socket)
      /\ \A i \in 1..Len(socket) : socket[i] \in Messages
  BY <1>1, LenProperties, ElementOfSeq
<1> QED
  BY <1>1, <1>2 DEF Messages

LEMMA TailOfSocket ==
  ASSUME TypeOK, socket # <<>>, socket' = Tail(socket)
  PROVE  /\ Len(socket) >= 1 /\ Len(socket') = Len(socket) - 1
         /\ DOMAIN socket' = 1..(Len(socket) - 1)
         /\ \A i \in 1..(Len(socket) - 1) : socket'[i] = socket[i + 1]
         /\ Head(socket) = socket[1] /\ Head(socket) \in Messages
         /\ socket' \in Seq(Messages)
<1>1. socket \in Seq(Messages)
  BY DEF TypeOK
<1>2. /\ Head(socket) \in Messages /\ socket' \in Seq(Messages)
      /\ Len(socket') = Len(socket) - 1
      /\ \A i \in 1..Len(socket') : socket'[i] = socket[i + 1]
  BY <1>1, HeadTailProperties
<1>3. Len(socket) \in Nat \ {0}
  BY <1>1, EmptySeq
<1>4. DOMAIN socket' = 1..Len(socket')
  BY <1>2, LenProperties
<1> QED
  BY <1>2, <1>3, <1>4 DEF Head

LEMMA AppendToSocket ==
  ASSUME TypeOK, NEW m, NEW S, Messages \subseteq S, m \in S, socket' = Append(socket, m)
  PROVE  /\ Len(socket') = Len(socket) + 1
         /\ DOMAIN socket' = 1..(Len(socket) + 1)
         /\ \A i \in 1..Len(socket) : socket'[i] = socket[i]
         /\ socket'[Len(socket) + 1] = m
         /\ socket' \in Seq(S)
         /\ (socket = <<>> => Head(socket') = m) /\ (socket # <<>> => Head(socket') = Head(socket))
<1>1. socket \in Seq(S)
  BY SeqMonotonic DEF TypeOK
<1>2. /\ socket' \in Seq(S) /\ Len(socket') = Len(socket) + 1
      /\ \A i \in 1..Len(socket) : socket'[i] = socket[i]
      /\ socket'[Len(socket) + 1] = m
  BY <1>1, AppendProperties
<1>3. DOMAIN socket' = 1..Len(socket')
  BY <1>2, LenProperties
<1>4. (socket = <<>> => Head(socket') = m) /\ (socket # <<>> => Head(socket') = Head(socket))
  <2>1. CASE socket = <<>>
    BY <1>1, <1>2, <2>1 DEF Head
  <2>2. CASE socket # <<>>
    <3>1. Len(socket) >= 1
      BY <1>1, <2>2, EmptySeq
    <3> QED
      BY <1>1, <1>2, <2>2, <3>1
  <2> QED
    BY <2>1, <2>2
<1> QED
  BY <1>2, <1>3, <1>4

-----------------------------------------------------------------------------
(* Steps that leave the page, the simulation and the ways between them.    *)

LEMMA QuietDelivery ==
  ASSUME TypeOK, Delivery,
         UNCHANGED <<page, run, count, connected, socket, fetched, torn, failed>>
  PROVE  Delivery'
<1> USE DEF Delivery
<1>1. SocketInv'
  BY DEF SocketInv, InOrder, NoGap, NoLostStart, EndsHere, Published, StartComes, Starts,
         NoError, IsError
<1>2. AnswerInv'
  BY DEF AnswerInv, Intact, StartComes, Starts, IsUpdate, page
<1>3. AskInv'
  BY DEF AskInv, StartComes, Starts, page
<1>4. PageInv'
  BY DEF PageInv, Intact, StartComes, Starts, NoError, IsError, IsUpdate, page
<1>5. ViewFaithful' /\ ViewExact'
  BY DEF ViewFaithful, ViewExact, Intact, StartComes, Starts, Faithful, Exact, page
<1> QED
  BY <1>1, <1>2, <1>3, <1>4, <1>5

LEMMA ConnectDelivers ==
  ASSUME TypeOK, Delivery, Connect
  PROVE  Delivery'
<1> USE DEF Delivery
<1>1. /\ ~connected /\ connected' = TRUE
      /\ UNCHANGED <<page, run, count, socket, fetched, torn, failed>>
  BY DEF Connect, server, history
<1>2. SocketInv'
  BY <1>1 DEF SocketInv, InOrder, NoGap, NoLostStart, EndsHere, Published, StartComes,
              Starts, NoError, IsError
<1>3. AnswerInv'
  BY <1>1 DEF AnswerInv, Intact, StartComes, Starts, IsUpdate, page
<1>4. AskInv'
  BY <1>1 DEF AskInv, StartComes, Starts, page
<1>5. PageInv'
  BY <1>1 DEF PageInv, Intact, StartComes, Starts, NoError, IsError, IsUpdate, page
<1>6. ViewFaithful' /\ ViewExact'
  BY <1>1 DEF ViewFaithful, ViewExact, Intact, StartComes, Starts, Faithful, Exact, page
<1> QED
  BY <1>2, <1>3, <1>4, <1>5, <1>6

(* The answer has the simulation of the moment: what comes after it has    *)
(* not been published yet.                                                 *)
LEMMA getStateDelivers ==
  ASSUME TypeOK, Delivery, getState
  PROVE  Delivery'
<1> USE DEF Delivery
<1>1. /\ fetched.status = "asked"
      /\ fetched' = [status |-> "answered", run |-> run, count |-> count]
      /\ UNCHANGED <<page, run, count, connected, socket, torn, failed>>
  BY DEF getState, server, history
<1>2. fetched'.status = "answered" /\ fetched'.run = run /\ fetched'.count = count
  BY <1>1
<1>3. SocketInv'
  BY <1>1 DEF SocketInv, InOrder, NoGap, NoLostStart, EndsHere, Published, StartComes,
              Starts, NoError, IsError
<1>4. AnswerInv'
  <2>1. run \in 0..run /\ count \in 0..Len(Program) /\ count <= count
    BY Numbers
  <2>2. (run + 1)..run = {}
    BY Numbers
  <2>3. ASSUME run > torn, NEW j \in DOMAIN socket, NEW k \in 1..Len(Program),
               IsUpdate(socket[j], run, k)
        PROVE  ~(k > count + 1)
    BY <2>3, Numbers, SocketType DEF SocketInv, Published, IsUpdate
  <2>4. ~(count > count)
    BY Numbers
  <2>5. ASSUME run > torn, state # Null
        PROVE  /\ state.run <= run
               /\ state.run = run /\ Intact => Len(state.updates) <= count
    BY <2>5, Numbers DEF TypeOK, PageInv
  <2>6. run > torn /\ count = 0 /\ ~StartComes(run) => current_state_index = 0
    BY <1>1 DEF AskInv
  <2> QED
    BY <1>1, <1>2, <2>1, <2>2, <2>3, <2>4, <2>5, <2>6
       DEF AnswerInv, Intact, StartComes, Starts, IsUpdate, page
<1>5. AskInv'
  BY <1>1, <1>2 DEF AskInv, StartComes, Starts, page
<1>6. PageInv'
  BY <1>1, <1>2 DEF PageInv, Intact, StartComes, Starts, NoError, IsError, IsUpdate, page
<1>7. ViewFaithful' /\ ViewExact'
  BY <1>1 DEF ViewFaithful, ViewExact, Intact, StartComes, Starts, Faithful, Exact, page
<1> QED
  BY <1>3, <1>4, <1>5, <1>6, <1>7

LEMMA ReloadDelivers ==
  ASSUME TypeOK, Delivery, Reload
  PROVE  Delivery'
<1> USE DEF Delivery
<1>1. /\ state' = Null /\ current_state_index' = 0
      /\ connected' = FALSE /\ socket' = <<>> /\ fetched' = [status |-> "asked"]
      /\ UNCHANGED <<run, count, failed>>
  BY DEF Reload, server
<1>2. DOMAIN socket' = {} /\ Len(socket') = 0 /\ fetched'.status = "asked"
  BY <1>1
<1>3. SocketInv'
  BY <1>1, <1>2 DEF SocketInv, InOrder, NoGap, NoLostStart, EndsHere
<1>4. AnswerInv'
  BY <1>2 DEF AnswerInv
<1>5. AskInv'
  BY <1>1 DEF AskInv
<1>6. PageInv'
  BY <1>1, <1>2 DEF PageInv, Intact
<1>7. ViewFaithful' /\ ViewExact'
  BY <1>1 DEF ViewFaithful, ViewExact, Intact
<1> QED
  BY <1>3, <1>4, <1>5, <1>6, <1>7

(* The user goes through the updates.  If the answer on its way has none,  *)
(* the page has none either, and stays at index 0.                         *)
LEMMA BrowseDelivers ==
  ASSUME TypeOK, Delivery, Browse,
         UNCHANGED <<run, count, connected, socket, fetched, torn, failed>>
  PROVE  Delivery'
<1> USE DEF Delivery
<1>1. PageType /\ state # Null /\ state' = state
  BY BrowseIsFaithful DEF TypeOK
<1>2. Intact' = Intact /\ \A r : StartComes(r)' = StartComes(r)
  BY <1>1 DEF Intact, StartComes, Starts
<1>3. ViewFaithful' /\ ViewExact' /\ (Intact => Faithful')
  BY <1>1, <1>2, BrowseIsFaithful DEF ViewFaithful, ViewExact, TypeOK
<1>4. SocketInv'
  BY DEF SocketInv, InOrder, NoGap, NoLostStart, EndsHere, Published, StartComes,
         Starts, NoError, IsError
<1>5. PageInv'
  BY <1>1, <1>2 DEF PageInv, StartComes, Starts, NoError, IsError, IsUpdate
<1>6. ASSUME Intact, Len(state.updates) <= 0
      PROVE  current_state_index' = 0
  <2>1. current_state_index' <= Len(state.updates)
    BY <1>1, <1>3, <1>6 DEF Faithful
  <2>2. current_state_index' \in Nat
    BY BrowseIsFaithful DEF TypeOK, PageType
  <2>3. Len(state.updates) \in Nat
    BY <1>1 DEF PageType
  <2> QED
    BY <1>6, <2>1, <2>2, <2>3
<1>7. ASSUME NEW r \in 1..run, r > torn, ~StartComes(r), state.run <= r
      PROVE  state.run = r /\ Intact
  <2>1. state.run >= r
    BY <1>1, <1>7 DEF PageInv
  <2>2. state.run \in Nat
    BY <1>1 DEF PageType
  <2> QED
    BY <1>1, <1>7, <2>1, <2>2 DEF Intact
<1>8. AnswerInv'
  <2>1. ASSUME fetched.status = "answered", fetched.run > torn,
               fetched.count = 0, ~StartComes(fetched.run)
        PROVE  current_state_index' = 0
    <3>1. fetched.run \in 1..run
      BY <2>1, Numbers DEF AnswerInv
    <3>2. state.run <= fetched.run
      BY <1>1, <2>1 DEF AnswerInv
    <3>3. state.run = fetched.run /\ Intact
      BY <1>7, <2>1, <3>1, <3>2
    <3>4. Len(state.updates) <= 0
      BY <1>1, <2>1, <3>3 DEF AnswerInv
    <3> QED
      BY <1>6, <3>3, <3>4
  <2> QED
    BY <1>1, <1>2, <2>1 DEF AnswerInv, IsUpdate, StartComes, Starts
<1>9. AskInv'
  <2>1. ASSUME run > torn, count = 0, ~StartComes(run)
        PROVE  current_state_index' = 0
    <3>1. run \in 1..run /\ state.run <= run
      BY <1>1, <2>1, Numbers DEF TypeOK
    <3>2. state.run = run /\ Intact
      BY <1>7, <2>1, <3>1
    <3>3. Len(state.updates) <= 0
      BY <2>1, <3>2 DEF PageInv
    <3> QED
      BY <1>6, <3>2, <3>3
  <2> QED
    BY <1>1, <1>2, <2>1 DEF AskInv, StartComes, Starts
<1> QED
  BY <1>3, <1>4, <1>5, <1>8, <1>9

LEMMA GoLiveDelivers ==
  ASSUME TypeOK, Delivery, GoLive,
         UNCHANGED <<run, count, connected, socket, fetched, torn, failed>>
  PROVE  Delivery'
<1> USE DEF Delivery
<1>1. /\ PageType /\ state # Null /\ state' = state
      /\ current_state_index' = current_state_index
  BY GoLiveIsFaithful DEF TypeOK, GoLive
<1>2. Intact' = Intact
  BY <1>1 DEF Intact, StartComes, Starts
<1>3. ViewFaithful' /\ ViewExact'
  BY <1>1, <1>2, GoLiveIsFaithful DEF ViewFaithful, ViewExact
<1>4. SocketInv'
  BY DEF SocketInv, InOrder, NoGap, NoLostStart, EndsHere, Published, StartComes,
         Starts, NoError, IsError
<1>5. AnswerInv'
  BY <1>1, <1>2 DEF AnswerInv, StartComes, Starts, IsUpdate
<1>6. AskInv'
  BY <1>1 DEF AskInv, StartComes, Starts
<1>7. PageInv'
  BY <1>1, <1>2 DEF PageInv, StartComes, Starts, NoError, IsError, IsUpdate
<1> QED
  BY <1>3, <1>4, <1>5, <1>6, <1>7

-----------------------------------------------------------------------------
(* What the order of the messages says of the first one.                   *)

(* If nothing of an intact run is lost and its start does not come, then   *)
(* no message of an older run comes, either.                               *)
LEMMA NothingOlder ==
  ASSUME TypeOK, SocketInv, NEW r \in 1..run, r > torn, ~StartComes(r),
         NEW i \in 1..Len(socket), ~IsError(socket[i])
  PROVE  socket[i].run >= r
BY SocketType, Numbers DEF SocketInv, NoLostStart

(* An update whose run is intact comes first, or behind a message of its   *)
(* run or of an error.                                                     *)
LEMMA NothingNewer ==
  ASSUME TypeOK, SocketInv, NEW i \in 1..Len(socket), socket[i].type = "STATE-UPDATE",
         socket[i].run > torn,
         \A h \in 1..(i - 1) : ~Starts(socket[h], socket[i].run)
  PROVE  ~StartComes(socket[i].run)
<1> SUFFICES ASSUME NEW h \in 1..Len(socket), Starts(socket[h], socket[i].run)
             PROVE  FALSE
  BY SocketType DEF StartComes
<1>1. h \in 1..(i - 1) \/ h = i \/ i < h
  BY SocketType
<1>2. h # i
  BY DEF Starts
<1>3. CASE i < h
  <2>1. ~IsError(socket[i]) /\ ~IsError(socket[h])
    BY DEF Starts, IsError
  <2>2. socket[i].run < socket[h].run /\ socket[h].run = socket[i].run
    BY <1>3, <2>1, SocketType DEF SocketInv, InOrder, Starts
  <2> QED
    BY <2>2, SocketType
<1> QED
  BY <1>1, <1>2, <1>3

(* With the first message gone the others are as they were.                *)
LEMMA TailDelivers ==
  ASSUME TypeOK, SocketInv, socket # <<>>, socket' = Tail(socket),
         torn' \in Nat, torn <= torn',
         UNCHANGED <<run, count, connected, failed>>
  PROVE  SocketInv'
<1> DEFINE n == Len(socket)
<1>1. /\ n \in Nat /\ n >= 1 /\ Len(socket') = n - 1 /\ DOMAIN socket' = 1..(n - 1)
      /\ DOMAIN socket = 1..n
      /\ \A i \in 1..(n - 1) : socket'[i] = socket[i + 1]
  BY TailOfSocket, SocketType
<1>2. \A i \in 1..(n - 1) : i + 1 \in 1..n
  BY <1>1
<1> HIDE DEF n
<1>3. ~connected' => socket' = <<>>
  BY DEF SocketInv
<1>4. \A i \in DOMAIN socket' : Published(socket[i])'
  BY <1>1, <1>2 DEF SocketInv, Published, IsError
<1>5. InOrder'
  <2> SUFFICES ASSUME NEW i \in 1..(n - 1), NEW j \in 1..(n - 1), i < j,
                      ~IsError(socket'[i]), ~IsError(socket'[j])
               PROVE  /\ socket'[i].run <= socket'[j].run
                      /\ socket'[j].type = "INITIAL-STATE" => socket'[i].run < socket'[j].run
    BY <1>1 DEF InOrder, IsError
  <2>1. i + 1 \in 1..n /\ j + 1 \in 1..n /\ i + 1 < j + 1
    BY <1>1
  <2> QED
    BY <1>1, <2>1 DEF SocketInv, InOrder
<1>6. NoGap'
  <2> SUFFICES ASSUME NEW i \in 1..(n - 1), NEW j \in 1..(n - 1), i < j,
                      socket'[i].run = socket'[j].run, socket'[i].run > torn',
                      NoError(i, j)'
               PROVE  socket'[j].index = socket'[i].index + (j - i)
    BY <1>1 DEF NoGap, NoError, IsError
  <2>1. i + 1 \in 1..n /\ j + 1 \in 1..n /\ i + 1 < j + 1 /\ (j + 1) - (i + 1) = j - i
    BY <1>1
  <2>2. socket[i + 1].run > torn
    BY <1>1, <2>1, Numbers, SocketType DEF n
  <2>3. NoError(i + 1, j + 1)
    <3> SUFFICES ASSUME NEW h \in (i + 1)..(j + 1) PROVE ~IsError(socket[h])
      BY DEF NoError
    <3>1. h - 1 \in i..j /\ h - 1 \in 1..(n - 1) /\ (h - 1) + 1 = h
      BY <1>1
    <3>2. ~IsError(socket'[h - 1]) /\ socket'[h - 1] = socket[h]
      BY <1>1, <3>1 DEF NoError, IsError
    <3> QED
      BY <3>2
  <2>4. socket[i + 1].run = socket[j + 1].run
    BY <1>1
  <2>5. socket[j + 1].index = socket[i + 1].index + (j - i)
    BY <1>1, <2>1, <2>2, <2>3, <2>4 DEF SocketInv, NoGap
  <2> QED
    BY <1>1, <2>5
<1>7. NoLostStart'
  <2> SUFFICES ASSUME NEW r \in 1..run, NEW i \in 1..(n - 1), r > torn',
                      ~IsError(socket'[i]), socket'[i].run < r
               PROVE  \E j \in 1..(n - 1) : Starts(socket'[j], r)
    BY <1>1 DEF NoLostStart, StartComes, Starts, IsError
  <2>1. i + 1 \in 1..n /\ ~IsError(socket[i + 1]) /\ socket[i + 1].run < r /\ r > torn
    BY <1>1, Numbers
  <2>2. PICK j \in 1..n : Starts(socket[j], r)
    BY <1>1, <2>1 DEF SocketInv, NoLostStart, StartComes
  <2>3. j # 1
    <3> SUFFICES ASSUME j = 1 PROVE FALSE
      OBVIOUS
    <3>1. 1 < i + 1 /\ 1 \in 1..n /\ ~IsError(socket[1]) /\ socket[1].run = r
      BY <1>1, <2>2 DEF Starts, IsError
    <3>2. socket[1].run <= socket[i + 1].run
      BY <1>1, <2>1, <3>1 DEF SocketInv, InOrder
    <3> QED
      BY <2>1, <3>1, <3>2, SocketType DEF n
  <2>4. j - 1 \in 1..(n - 1) /\ (j - 1) + 1 = j
    BY <1>1, <2>3
  <2>5. Starts(socket'[j - 1], r)
    BY <1>1, <2>2, <2>4
  <2> QED
    BY <2>4, <2>5
<1>8. EndsHere'
  <2> SUFFICES ASSUME run > torn'
               PROVE  /\ n - 1 > 0 /\ ~IsError(socket'[n - 1]) =>
                           socket'[n - 1].run = run /\ socket'[n - 1].index = count
                      /\ \A i \in 1..(n - 1) :
                           /\ Starts(socket'[i], run)
                           /\ \A h \in (i + 1)..(n - 1) : ~IsError(socket'[h])
                           => n - 1 = i + count
                      /\ \A i \in 1..(n - 1) : IsError(socket'[i]) =>
                           failed \/ \E j \in (i + 1)..(n - 1) : Starts(socket'[j], run)
    BY <1>1 DEF EndsHere, Starts, IsError, NoError
  <2>1. run > torn
    BY Numbers
  <2>2. /\ n > 0 /\ ~IsError(socket[n]) => socket[n].run = run /\ socket[n].index = count
        /\ \A i \in 1..n : Starts(socket[i], run) /\ NoError(i + 1, n) => n = i + count
        /\ \A i \in 1..n : IsError(socket[i]) =>
             failed \/ \E j \in (i + 1)..n : Starts(socket[j], run)
    BY <2>1 DEF SocketInv, EndsHere, n
  <2>3. n - 1 > 0 /\ ~IsError(socket'[n - 1]) =>
          socket'[n - 1].run = run /\ socket'[n - 1].index = count
    <3>1. n - 1 > 0 => n - 1 \in 1..(n - 1) /\ (n - 1) + 1 = n
      BY <1>1
    <3> QED
      BY <1>1, <2>2, <3>1
  <2>4. ASSUME NEW i \in 1..(n - 1), Starts(socket'[i], run),
               \A h \in (i + 1)..(n - 1) : ~IsError(socket'[h])
        PROVE  n - 1 = i + count
    <3>1. i + 1 \in 1..n /\ Starts(socket[i + 1], run)
      BY <1>1, <2>4
    <3>2. NoError((i + 1) + 1, n)
      <4> SUFFICES ASSUME NEW h \in ((i + 1) + 1)..n PROVE ~IsError(socket[h])
        BY DEF NoError
      <4>1. h - 1 \in (i + 1)..(n - 1) /\ h - 1 \in 1..(n - 1) /\ (h - 1) + 1 = h
        BY <1>1
      <4>2. ~IsError(socket'[h - 1]) /\ socket'[h - 1] = socket[h]
        BY <1>1, <2>4, <4>1
      <4> QED
        BY <4>2
    <3>3. n = (i + 1) + count
      BY <2>2, <3>1, <3>2
    <3> QED
      BY <1>1, <3>3, Numbers
  <2>5. ASSUME NEW i \in 1..(n - 1), IsError(socket'[i]), ~failed
        PROVE  \E j \in (i + 1)..(n - 1) : Starts(socket'[j], run)
    <3>1. i + 1 \in 1..n /\ IsError(socket[i + 1])
      BY <1>1, <2>5
    <3>2. PICK j \in ((i + 1) + 1)..n : Starts(socket[j], run)
      BY <2>2, <2>5, <3>1
    <3>3. j - 1 \in (i + 1)..(n - 1) /\ j - 1 \in 1..(n - 1) /\ (j - 1) + 1 = j
      BY <1>1
    <3>4. Starts(socket'[j - 1], run)
      BY <1>1, <3>2, <3>3
    <3> QED
      BY <3>3, <3>4
  <2> QED
    BY <2>3, <2>4, <2>5
<1> QED
  BY <1>3, <1>4, <1>5, <1>6, <1>7, <1>8 DEF SocketInv

-----------------------------------------------------------------------------
(* The answer arrives.                                                     *)

(* If nothing of the answer's run is in it twice, the next update is the   *)
(* next one of its list, and what it lacks of the simulation is coming.    *)
LEMMA AnswerMeetsSocket ==
  ASSUME TypeOK, SocketInv, AnswerInv, fetched.status = "answered",
         fetched.run > torn, ~StartComes(fetched.run), ~ComesTwice
  PROVE  /\ socket # <<>> /\ Head(socket).type = "STATE-UPDATE" =>
              IsUpdate(Head(socket), fetched.run, fetched.count + 1)
         /\ fetched.run = run =>
              /\ fetched.count <= count
              /\ NoError(1, Len(socket)) => fetched.count + Len(socket) = count
<1> DEFINE n == Len(socket)
           r == fetched.run
           c == fetched.count
<1>1. /\ r \in 1..run /\ c \in 0..Len(Program) /\ (r = run => c <= count)
      /\ \A q \in (r + 1)..run : q > torn => StartComes(q)
      /\ \A j \in DOMAIN socket, k \in 1..Len(Program) :
           IsUpdate(socket[j], r, k) /\ k > c + 1 =>
             \E h \in 1..(j - 1) : IsUpdate(socket[h], r, k - 1)
      /\ r = run /\ count > c => \E h \in DOMAIN socket : IsUpdate(socket[h], run, count)
  BY Numbers DEF AnswerInv
<1>2. /\ n \in Nat /\ DOMAIN socket = 1..n /\ run \in Nat /\ torn \in Nat /\ torn <= run
      /\ count \in Nat /\ Len(Program) \in Nat /\ r \in Nat /\ c \in Nat
  BY <1>1, SocketType, Numbers
<1>3. socket # <<>> => n >= 1 /\ 1 \in 1..n /\ Head(socket) = socket[1]
  <2>1. socket \in Seq(Messages)
    BY DEF TypeOK
  <2> QED
    BY <2>1, EmptySeq
<1>4. ASSUME socket # <<>>, Head(socket).type = "STATE-UPDATE"
      PROVE  IsUpdate(Head(socket), r, c + 1)
  <2>1. /\ socket[1].type = "STATE-UPDATE" /\ ~IsError(socket[1])
        /\ socket[1].run \in Nat /\ socket[1].run <= run
        /\ socket[1].index \in Nat /\ socket[1].index <= Len(Program)
    BY <1>3, <1>4, SocketType DEF IsError
  <2>2. socket[1].run >= r
    BY <1>1, <1>3, <1>4, <2>1, NothingOlder
  <2>3. socket[1].run = r
    <3> SUFFICES ASSUME socket[1].run > r PROVE FALSE
      BY <1>2, <2>1, <2>2
    <3>1. socket[1].run \in (r + 1)..run /\ socket[1].run > torn
      BY <1>2, <2>1
    <3>2. StartComes(socket[1].run)
      BY <1>1, <3>1
    <3>3. 1 \in 1..Len(socket) /\ 1..(1 - 1) = {}
      BY <1>3, <1>4
    <3> QED
      BY <2>1, <3>1, <3>2, <3>3, NothingNewer
  <2>4. socket[1].index > c
    BY <1>2, <1>3, <1>4, <2>1, <2>3 DEF ComesTwice, Known
  <2>5. ~(socket[1].index > c + 1)
    <3> SUFFICES ASSUME socket[1].index > c + 1 PROVE FALSE
      OBVIOUS
    <3>1. /\ socket[1].index \in 1..Len(Program)
          /\ IsUpdate(socket[1], r, socket[1].index)
      BY <1>2, <2>1, <2>3 DEF IsUpdate
    <3>2. \E h \in 1..(1 - 1) : IsUpdate(socket[h], r, socket[1].index - 1)
      BY <1>1, <1>2, <1>3, <1>4, <3>1
    <3> QED
      BY <3>2
  <2> QED
    BY <1>2, <1>3, <1>4, <2>1, <2>3, <2>4, <2>5 DEF IsUpdate
<1>5. ASSUME r = run, NoError(1, n)
      PROVE  c + n = count
  <2>1. CASE n = 0
    BY <1>1, <1>2, <1>5, <2>1
  <2>2. CASE n > 0
    <3>1. 1 \in 1..n /\ n \in 1..n /\ socket # <<>>
      BY <1>2, <2>2
    <3>2. ~IsError(socket[1]) /\ ~IsError(socket[n])
      BY <1>5, <3>1 DEF NoError
    <3>3. socket[n].run = run /\ socket[n].index = count
      BY <1>5, <2>2, <3>2 DEF SocketInv, EndsHere
    <3>4. socket[1].run >= run /\ socket[1].run <= run /\ socket[1].run \in Nat
      BY <1>1, <1>5, <3>1, <3>2, NothingOlder, SocketType
    <3>5. socket[1].run = run /\ socket[1].type = "STATE-UPDATE"
      <4>1. socket[1].run = run
        BY <1>2, <3>4
      <4>2. socket[1].type # "INITIAL-STATE"
        BY <1>2, <1>5, <3>1, <4>1 DEF StartComes, Starts
      <4> QED
        BY <3>1, <3>2, <4>1, <4>2, SocketType DEF IsError
    <3>6. socket[1].index = c + 1
      BY <1>3, <1>4, <3>1, <3>5 DEF IsUpdate
    <3>7. CASE n = 1
      BY <1>2, <3>3, <3>6, <3>7
    <3>8. CASE n > 1
      <4>1. socket[n].index = socket[1].index + (n - 1)
        BY <1>2, <1>5, <3>1, <3>3, <3>5, <3>8 DEF SocketInv, NoGap
      <4>2. count = (c + 1) + (n - 1)
        BY <3>3, <3>6, <4>1
      <4>3. count \in Nat /\ c \in Nat /\ n \in Nat
        BY <1>2
      <4> HIDE DEF c, n
      <4> QED
        BY <4>2, <4>3
    <3> QED
      BY <1>2, <2>2, <3>7, <3>8
  <2> QED
    BY <1>2, <2>1, <2>2
<1> QED
  BY <1>1, <1>4, <1>5

LEMMA fetchDelivers ==
  ASSUME TypeOK, Delivery, fetchCurrentState
  PROVE  /\ Delivery' /\ PageType' /\ (state' # Null => state'.run \in 1..run)
         /\ torn' \in 0..run
<1> USE DEF Delivery
<1>1. /\ fetched.status = "answered" /\ fetched'.status = "done"
      /\ torn' = IF ComesTwice /\ fetched.run > torn THEN fetched.run ELSE torn
      /\ UNCHANGED <<run, count, connected, socket, failed>>
  BY DEF fetchCurrentState, server
<1>2. /\ fetched.run \in 0..run /\ fetched.count \in 0..Len(Program)
      /\ \A q \in (fetched.run + 1)..run : q > torn => StartComes(q)
  BY <1>1 DEF AnswerInv
<1>3. torn' \in 0..run /\ torn <= torn' /\ torn' \in Nat
  BY <1>1, <1>2, Numbers
<1>4. \A r : StartComes(r)' = StartComes(r)
  BY <1>1 DEF StartComes, Starts
<1>5. SocketInv'
  <2>1. \A r \in Nat : r > torn' => r > torn
    BY <1>3, Numbers
  <2>2. /\ ~connected' => socket' = <<>>
        /\ \A i \in DOMAIN socket' : Published(socket[i])'
        /\ InOrder'
    BY <1>1 DEF SocketInv, Published, InOrder, IsError
  <2>3. NoGap'
    BY <1>1, <2>1, SocketType DEF SocketInv, NoGap, NoError, IsError
  <2>4. NoLostStart'
    BY <1>1, <1>4, <2>1, SocketType, Numbers DEF SocketInv, NoLostStart, IsError
  <2>5. EndsHere'
    <3> SUFFICES ASSUME run > torn' PROVE EndsHere'
      BY <1>1 DEF EndsHere
    <3>1. run > torn
      BY <2>1, Numbers
    <3> QED
      BY <1>1, <3>1 DEF SocketInv, EndsHere, Starts, NoError, IsError
  <2> QED
    BY <2>2, <2>3, <2>4, <2>5 DEF SocketInv
<1>6. AnswerInv' /\ AskInv'
  BY <1>1 DEF AnswerInv, AskInv
<1>7. CASE fetched.run = 0
  <2>1. PageType' /\ state' = Null
    BY <1>7, ForgottenPage DEF fetchCurrentState, TypeOK
  <2>2. PageInv'
    <3>1. run > torn' => run \in (fetched.run + 1)..run /\ run > torn
      BY <1>3, <1>7, Numbers
    <3>2. run > torn' => StartComes(run)
      BY <1>2, <3>1
    <3> QED
      BY <1>1, <1>4, <2>1, <3>2 DEF PageInv, Intact
  <2>3. ViewFaithful' /\ ViewExact'
    BY <2>1 DEF ViewFaithful, ViewExact, Intact
  <2> QED
    BY <1>3, <1>5, <1>6, <2>1, <2>2, <2>3
<1>8. CASE fetched.run # 0
  <2>1. computeState(fetched.run, fetched.count) /\ fetched.run \in 1..run /\ fetched.run \in Nat
    BY <1>2, <1>8, Numbers DEF fetchCurrentState
  <2>2. /\ PageType' /\ state' # Null /\ state'.run = fetched.run
        /\ Len(state'.updates) = fetched.count
        /\ (fetched.count = 0 => current_state_index = 0) => Faithful' /\ Exact'
    BY <1>2, <2>1, AnswerIsFaithful DEF TypeOK
  <2>3. ASSUME Intact'
        PROVE  fetched.run > torn /\ torn' = torn /\ ~StartComes(fetched.run) /\ ~ComesTwice
    <3>1. fetched.run > torn' /\ ~StartComes(fetched.run)
      BY <1>4, <2>2, <2>3 DEF Intact
    <3> QED
      BY <1>1, <1>3, <2>1, <3>1, Numbers
  <2>4. Intact' => Faithful' /\ Exact'
    <3>1. Intact' /\ fetched.count = 0 => current_state_index = 0
      BY <1>1, <2>3 DEF AnswerInv
    <3> QED
      BY <2>2, <3>1
  <2>5. PageInv'
    <3>1. ASSUME NEW r \in 1..run, r > torn', ~StartComes(r)
          PROVE  state'.run >= r
      <4> SUFFICES ASSUME r > fetched.run PROVE FALSE
        BY <2>1, <2>2
      <4>1. r \in (fetched.run + 1)..run /\ r > torn
        BY <1>3, <2>1, <3>1, Numbers
      <4> QED
        BY <1>2, <3>1, <4>1
    <3>2. ASSUME Intact'
          PROVE  /\ socket # <<>> /\ Head(socket).type = "STATE-UPDATE" =>
                      IsUpdate(Head(socket), state'.run, Len(state'.updates) + 1)
                 /\ state'.run = run =>
                      /\ Len(state'.updates) <= count
                      /\ NoError(1, Len(socket)) => Len(state'.updates) + Len(socket) = count
      BY <1>1, <2>2, <2>3, <3>2, AnswerMeetsSocket
    <3>3. NoError(1, Len(socket))' = NoError(1, Len(socket))
      BY <1>1 DEF NoError, IsError
    <3> QED
      BY <1>1, <1>4, <2>2, <3>1, <3>2, <3>3 DEF PageInv, IsUpdate
  <2> QED
    BY <1>3, <1>5, <1>6, <2>1, <2>2, <2>4, <2>5 DEF ViewFaithful, ViewExact
<1> QED
  BY <1>7, <1>8

-----------------------------------------------------------------------------
(* A message arrives.                                                      *)

(* Behind the message of an intact run the next update is the next one.    *)
LEMMA SecondMessage ==
  ASSUME TypeOK, SocketInv, Len(socket) >= 2,
         ~IsError(socket[1]), socket[1].run > torn, socket[2].type = "STATE-UPDATE"
  PROVE  IsUpdate(socket[2], socket[1].run, socket[1].index + 1)
<1>1. /\ 1 \in 1..Len(socket) /\ 2 \in 1..Len(socket) /\ DOMAIN socket = 1..Len(socket)
      /\ run \in Nat /\ torn \in Nat
      /\ socket[1].run \in Nat /\ socket[2].run \in Nat /\ socket[2].run <= run
      /\ socket[1].index \in Nat
  BY SocketType, Numbers
<1>2. ~IsError(socket[2])
  BY DEF IsError
<1>3. socket[1].run <= socket[2].run
  BY <1>1, <1>2 DEF SocketInv, InOrder
<1>4. socket[2].run = socket[1].run
  <2> SUFFICES ASSUME socket[1].run < socket[2].run PROVE FALSE
    BY <1>1, <1>3
  <2>1. socket[2].run \in 1..run /\ socket[2].run > torn
    BY <1>1
  <2>2. StartComes(socket[2].run)
    BY <1>1, <2>1 DEF SocketInv, NoLostStart
  <2>3. \A h \in 1..(2 - 1) : ~Starts(socket[h], socket[2].run)
    BY <1>1 DEF Starts
  <2> QED
    BY <1>1, <2>1, <2>2, <2>3, NothingNewer
<1>5. NoError(1, 2)
  BY <1>2 DEF NoError
<1>6. socket[2].index = socket[1].index + (2 - 1)
  BY <1>1, <1>4, <1>5 DEF SocketInv, NoGap
<1> QED
  BY <1>1, <1>4, <1>6 DEF IsUpdate

(* What every message does, whatever the page makes of it.                 *)
LEMMA MessageTaken ==
  ASSUME TypeOK, SocketInv, onmessage
  PROVE  LET m == socket[1]
             n == Len(socket)
         IN  /\ m \in Messages /\ m = Head(socket) /\ Published(m) /\ connected
             /\ n \in Nat /\ n >= 1 /\ Len(socket') = n - 1 /\ DOMAIN socket' = 1..(n - 1)
             /\ DOMAIN socket = 1..n
             /\ socket' \in Seq(Messages)
             /\ \A i \in 1..(n - 1) : socket'[i] = socket[i + 1]
             /\ UNCHANGED <<run, count, connected, fetched, failed>>
             /\ torn' \in Nat /\ torn <= torn' /\ torn' <= run
             /\ fetched.status = "answered" /\ ~Known(m) => m.run <= torn'
             /\ \A r : StartComes(r)' => StartComes(r)
             /\ \A r : StartComes(r) /\ ~Starts(m, r) => StartComes(r)'
             /\ SocketInv'
<1> DEFINE m == socket[1]
           n == Len(socket)
<1>1. /\ socket # <<>> /\ socket' = Tail(socket)
      /\ torn' = IF Overtakes(Head(socket)) /\ Head(socket).run > torn
                   THEN Head(socket).run ELSE torn
      /\ UNCHANGED <<run, count, connected, fetched, failed>>
  BY DEF onmessage, server
<1>2. /\ m \in Messages /\ m = Head(socket) /\ n >= 1
      /\ Len(socket') = n - 1 /\ DOMAIN socket' = 1..(n - 1)
      /\ socket' \in Seq(Messages)
      /\ \A i \in 1..(n - 1) : socket'[i] = socket[i + 1]
  BY <1>1, TailOfSocket
<1>3. n \in Nat /\ DOMAIN socket = 1..n /\ m.run \in Nat /\ m.run <= run
  BY <1>2, SocketType
<1>4. torn' \in Nat /\ torn <= torn' /\ torn' <= run
  BY <1>1, <1>2, <1>3, Numbers
<1>5. fetched.status = "answered" /\ ~Known(m) => m.run <= torn'
  BY <1>1, <1>2, <1>3, Numbers DEF Overtakes
<1>6. Published(m) /\ connected
  BY <1>1, <1>2, <1>3 DEF SocketInv, TypeOK
<1>7. ASSUME NEW r, StartComes(r)' PROVE StartComes(r)
  <2>1. PICK i \in 1..(n - 1) : Starts(socket'[i], r)
    BY <1>2, <1>7 DEF StartComes, Starts
  <2>2. i + 1 \in 1..n /\ Starts(socket[i + 1], r)
    BY <1>2, <1>3, <2>1
  <2> QED
    BY <1>3, <2>2 DEF StartComes
<1>8. ASSUME NEW r, StartComes(r), ~Starts(m, r) PROVE StartComes(r)'
  <2>1. PICK i \in 1..n : Starts(socket[i], r)
    BY <1>3, <1>8 DEF StartComes
  <2>2. i - 1 \in 1..(n - 1) /\ (i - 1) + 1 = i
    BY <1>3, <1>8, <2>1
  <2>3. Starts(socket'[i - 1], r)
    BY <1>2, <2>1, <2>2
  <2> QED
    BY <1>2, <2>2, <2>3 DEF StartComes, Starts
<1>9. SocketInv'
  BY <1>1, <1>4, TailDelivers
<1> QED
  BY <1>1, <1>2, <1>3, <1>4, <1>5, <1>6, <1>7, <1>8, <1>9

(* A message that overtakes the answer tears its run; all others are in    *)
(* the answer.                                                             *)
LEMMA AnswerOutlasts ==
  ASSUME TypeOK, SocketInv, AnswerInv, onmessage, fetched.status = "answered"
  PROVE  /\ fetched.run \in 0..run /\ fetched.count \in 0..Len(Program)
         /\ fetched.run = run => fetched.count <= count
         /\ \A r \in (fetched.run + 1)..run : r > torn' => StartComes(r)'
         /\ fetched.run > torn' =>
              /\ Known(socket[1])
              /\ \A j \in DOMAIN socket', k \in 1..Len(Program) :
                   IsUpdate(socket'[j], fetched.run, k) /\ k > fetched.count + 1 =>
                     \E h \in 1..(j - 1) : IsUpdate(socket'[h], fetched.run, k - 1)
              /\ fetched.run = run /\ count > fetched.count =>
                   \E h \in DOMAIN socket' : IsUpdate(socket'[h], run, count)
<1> DEFINE m == socket[1]
           n == Len(socket)
           r0 == fetched.run
           c == fetched.count
<1>1. /\ n \in Nat /\ n >= 1 /\ DOMAIN socket' = 1..(n - 1) /\ DOMAIN socket = 1..n
      /\ \A i \in 1..(n - 1) : socket'[i] = socket[i + 1]
      /\ torn' \in Nat /\ torn <= torn' /\ torn' <= run
      /\ (~Known(m) => m.run <= torn')
      /\ \A r : StartComes(r) /\ ~Starts(m, r) => StartComes(r)'
  BY MessageTaken
<1>2. /\ r0 \in 0..run /\ c \in 0..Len(Program) /\ (r0 = run => c <= count)
      /\ \A r \in (r0 + 1)..run : r > torn => StartComes(r)
      /\ r0 > torn =>
           /\ \A j \in DOMAIN socket, k \in 1..Len(Program) :
                IsUpdate(socket[j], r0, k) /\ k > c + 1 =>
                  \E h \in 1..(j - 1) : IsUpdate(socket[h], r0, k - 1)
           /\ r0 = run /\ count > c =>
                \E h \in DOMAIN socket : IsUpdate(socket[h], run, count)
  BY DEF AnswerInv
<1>3. /\ run \in Nat /\ torn \in Nat /\ Len(Program) \in Nat /\ count \in Nat
      /\ m.run \in Nat /\ m.run <= run /\ m.index \in Nat /\ r0 \in Nat /\ c \in Nat
  BY <1>1, <1>2, Numbers, SocketType
<1>4. ASSUME NEW r \in (r0 + 1)..run, r > torn' PROVE StartComes(r)'
  <2>1. StartComes(r)
    BY <1>1, <1>2, <1>3, <1>4
  <2>2. ~Starts(m, r)
    <3> SUFFICES ASSUME m.run = r PROVE FALSE
      BY DEF Starts
    <3>1. ~Known(m)
      BY <1>3 DEF Known
    <3> QED
      BY <1>1, <1>3, <1>4, <3>1
  <2> QED
    BY <1>1, <2>1, <2>2
<1>5. ASSUME r0 > torn' PROVE Known(m)
  BY <1>1, <1>3, <1>5 DEF Known
<1>6. ASSUME r0 > torn', NEW j \in DOMAIN socket', NEW k \in 1..Len(Program),
             IsUpdate(socket'[j], r0, k), k > c + 1
      PROVE  \E h \in 1..(j - 1) : IsUpdate(socket'[h], r0, k - 1)
  <2>1. j + 1 \in 1..n /\ IsUpdate(socket[j + 1], r0, k) /\ j \in 1..(n - 1)
    BY <1>1, <1>6
  <2>2. r0 > torn
    BY <1>1, <1>3, <1>6
  <2>3. PICK h \in 1..((j + 1) - 1) : IsUpdate(socket[h], r0, k - 1)
    BY <1>1, <1>2, <1>6, <2>1, <2>2
  <2>4. h # 1
    <3> SUFFICES ASSUME h = 1 PROVE FALSE
      OBVIOUS
    <3>1. m.run = r0 /\ m.index = k - 1 /\ k - 1 > c
      BY <1>3, <1>6, <2>3 DEF IsUpdate
    <3> QED
      BY <1>3, <1>5, <1>6, <3>1 DEF Known
  <2>5. h - 1 \in 1..(j - 1) /\ h - 1 \in 1..(n - 1) /\ (h - 1) + 1 = h
    BY <1>1, <2>1, <2>4
  <2>6. IsUpdate(socket'[h - 1], r0, k - 1)
    BY <1>1, <2>3, <2>5
  <2> QED
    BY <2>5, <2>6
<1>7. ASSUME r0 > torn', r0 = run, count > c
      PROVE  \E h \in DOMAIN socket' : IsUpdate(socket'[h], run, count)
  <2>1. r0 > torn
    BY <1>1, <1>3, <1>7
  <2>2. PICK h \in 1..n : IsUpdate(socket[h], run, count)
    BY <1>1, <1>2, <1>7, <2>1
  <2>3. h # 1
    <3> SUFFICES ASSUME h = 1 PROVE FALSE
      OBVIOUS
    <3>1. m.run = r0 /\ m.index = count
      BY <1>7, <2>2 DEF IsUpdate
    <3> QED
      BY <1>3, <1>5, <1>7, <3>1 DEF Known
  <2>4. h - 1 \in 1..(n - 1) /\ (h - 1) + 1 = h
    BY <1>1, <2>3
  <2>5. IsUpdate(socket'[h - 1], run, count)
    BY <1>1, <2>2, <2>4
  <2> QED
    BY <1>1, <2>4, <2>5
<1> QED
  BY <1>2, <1>4, <1>5, <1>6, <1>7

(* The start of a run: the page has it from its first update on.           *)
LEMMA StartDelivers ==
  ASSUME TypeOK, Delivery, onmessage, socket[1].type = "INITIAL-STATE"
  PROVE  Delivery' /\ PageType' /\ state'.run \in 1..run
<1> DEFINE m == socket[1]
           n == Len(socket)
<1> USE DEF Delivery
<1>1. /\ m = Head(socket) /\ Published(m) /\ connected
      /\ n \in Nat /\ n >= 1 /\ Len(socket') = n - 1 /\ DOMAIN socket' = 1..(n - 1)
      /\ DOMAIN socket = 1..n /\ socket' \in Seq(Messages)
      /\ \A i \in 1..(n - 1) : socket'[i] = socket[i + 1]
      /\ UNCHANGED <<run, count, connected, fetched, failed>>
      /\ torn' \in Nat /\ torn <= torn' /\ torn' <= run
      /\ fetched.status = "answered" /\ ~Known(m) => m.run <= torn'
      /\ \A r : StartComes(r) /\ ~Starts(m, r) => StartComes(r)'
      /\ SocketInv'
  BY MessageTaken
<1>2. /\ run \in Nat /\ torn \in Nat /\ count \in Nat
      /\ m.run \in 1..run /\ m.run \in Nat /\ m.index = 0 /\ ~IsError(m)
  BY <1>1, Numbers, SocketType DEF Published, IsError
<1>3. processInitialState(m.run)
  BY <1>1 DEF onmessage
<1>4. /\ PageType' /\ Faithful' /\ Exact'
      /\ state' # Null /\ state'.run = m.run /\ Len(state'.updates) = 0
      /\ current_state_index' = 0
  BY <1>2, <1>3, InitialStateIsFaithful
<1>5. AnswerInv'
  <2> SUFFICES ASSUME fetched.status = "answered" PROVE AnswerInv'
    BY <1>1 DEF AnswerInv
  <2>1. fetched.run \in 0..run /\ fetched.count \in Nat
    BY AnswerOutlasts, Numbers
  <2>2. fetched.run > torn' => m.run <= fetched.run
    <3>1. fetched.run > torn' => Known(m)
      BY AnswerOutlasts
    <3> QED
      BY <1>2, <2>1, <3>1 DEF Known
  <2>3. 0 <= fetched.count
    BY <2>1
  <2>4. fetched' = fetched /\ run' = run /\ count' = count
    BY <1>1
  <2>5. /\ fetched.run \in 0..run /\ fetched.count \in 0..Len(Program)
        /\ fetched.run = run => fetched.count <= count
        /\ \A r \in (fetched.run + 1)..run : r > torn' => StartComes(r)'
        /\ fetched.run > torn' =>
             /\ \A j \in DOMAIN socket', k \in 1..Len(Program) :
                  IsUpdate(socket'[j], fetched.run, k) /\ k > fetched.count + 1 =>
                    \E h \in 1..(j - 1) : IsUpdate(socket'[h], fetched.run, k - 1)
             /\ fetched.run = run /\ count > fetched.count =>
                  \E h \in DOMAIN socket' : IsUpdate(socket'[h], run, count)
    BY AnswerOutlasts
  <2> QED
    BY <1>4, <2>2, <2>3, <2>4, <2>5 DEF AnswerInv, IsUpdate, StartComes, Starts
<1>6. AskInv'
  BY <1>1, <1>4 DEF AskInv
<1>7. PageInv'
  <2>1. ASSUME NEW r \in 1..run, r > torn', ~StartComes(r)'
        PROVE  state'.run >= r
    <3>1. CASE StartComes(r)
      BY <1>1, <1>4, <2>1, <3>1 DEF Starts
    <3>2. CASE ~StartComes(r)
      <4>1. r > torn /\ 1 \in 1..n
        BY <1>1, <1>2, <2>1
      <4> QED
        BY <1>2, <1>4, <3>2, <4>1, NothingOlder
    <3> QED
      BY <3>1, <3>2
  <2>2. ASSUME Intact', socket' # <<>>, Head(socket').type = "STATE-UPDATE"
        PROVE  IsUpdate(Head(socket'), m.run, 1)
    <3>1. m.run > torn
      BY <1>1, <1>2, <1>4, <2>2 DEF Intact
    <3>2. Len(socket') \in Nat \ {0} /\ Head(socket') = socket'[1]
      BY <1>1, <2>2, EmptySeq
    <3>3. n >= 2 /\ socket'[1] = socket[2]
      BY <1>1, <3>2
    <3>4. IsUpdate(socket[2], m.run, m.index + 1)
      BY <1>2, <2>2, <3>1, <3>2, <3>3, SecondMessage
    <3> QED
      BY <1>2, <3>2, <3>3, <3>4
  <2>3. ASSUME Intact', m.run = run, NoError(1, Len(socket))'
        PROVE  0 + Len(socket') = count
    <3>1. run > torn
      BY <1>1, <1>2, <1>4, <2>3 DEF Intact
    <3>2. \A h \in 1..(n - 1) : ~IsError(socket'[h])
      BY <1>1, <2>3 DEF NoError, IsError
    <3>3. NoError(1 + 1, n)
      <4> SUFFICES ASSUME NEW h \in (1 + 1)..n PROVE ~IsError(socket[h])
        BY DEF NoError
      <4>1. h - 1 \in 1..(n - 1) /\ (h - 1) + 1 = h
        BY <1>1
      <4> QED
        BY <1>1, <3>2, <4>1
    <3>4. Starts(socket[1], run) /\ 1 \in 1..n
      BY <1>1, <2>3 DEF Starts
    <3>5. n = 1 + count
      BY <3>1, <3>3, <3>4 DEF SocketInv, EndsHere
    <3> QED
      BY <1>1, <1>2, <3>5
  <2>4. 0 <= count /\ 0 + 1 = 1
    BY <1>2
  <2> QED
    BY <1>1, <1>4, <2>1, <2>2, <2>3, <2>4 DEF PageInv, IsUpdate
<1>8. ViewFaithful' /\ ViewExact'
  BY <1>4 DEF ViewFaithful, ViewExact
<1> QED
  BY <1>1, <1>2, <1>4, <1>5, <1>6, <1>7, <1>8

(* An error: the page has nothing from then on.                            *)
LEMMA ErrorDelivers ==
  ASSUME TypeOK, Delivery, onmessage, socket[1].type = "ERROR-MESSAGE"
  PROVE  Delivery' /\ PageType' /\ state' = Null
<1> DEFINE m == socket[1]
           n == Len(socket)
<1> USE DEF Delivery
<1>1. /\ m = Head(socket) /\ connected /\ n \in Nat /\ n >= 1
      /\ UNCHANGED <<run, count, connected, fetched, failed>>
      /\ torn' \in Nat /\ torn <= torn' /\ torn' <= run
      /\ \A r : StartComes(r) /\ ~Starts(m, r) => StartComes(r)'
      /\ SocketInv'
  BY MessageTaken
<1>2. run \in Nat /\ torn \in Nat
  BY Numbers
<1>3. ForgetState
  BY <1>1 DEF onmessage
<1>4. PageType' /\ state' = Null /\ current_state_index' = current_state_index
  BY <1>3, ForgottenPage DEF TypeOK
<1>5. \A r : StartComes(r) => StartComes(r)'
  BY <1>1 DEF Starts
<1>6. AnswerInv'
  <2> SUFFICES ASSUME fetched.status = "answered" PROVE AnswerInv'
    BY <1>1 DEF AnswerInv
  <2>1. ASSUME fetched.run > torn', fetched.count = 0, ~StartComes(fetched.run)'
        PROVE  current_state_index' = 0
    <3>1. fetched.run \in 0..run
      BY AnswerOutlasts
    <3>2. fetched.run > torn
      BY <1>1, <1>2, <2>1, <3>1
    <3>3. ~StartComes(fetched.run)
      BY <1>1, <1>5, <2>1
    <3>4. current_state_index = 0
      BY <2>1, <3>2, <3>3 DEF AnswerInv
    <3> QED
      BY <1>4, <3>4
  <2>2. fetched' = fetched /\ run' = run /\ count' = count
    BY <1>1
  <2>3. /\ fetched.run \in 0..run /\ fetched.count \in 0..Len(Program)
        /\ fetched.run = run => fetched.count <= count
        /\ \A r \in (fetched.run + 1)..run : r > torn' => StartComes(r)'
        /\ fetched.run > torn' =>
             /\ \A j \in DOMAIN socket', k \in 1..Len(Program) :
                  IsUpdate(socket'[j], fetched.run, k) /\ k > fetched.count + 1 =>
                    \E h \in 1..(j - 1) : IsUpdate(socket'[h], fetched.run, k - 1)
             /\ fetched.run = run /\ count > fetched.count =>
                  \E h \in DOMAIN socket' : IsUpdate(socket'[h], run, count)
    BY AnswerOutlasts
  <2> QED
    BY <1>4, <2>1, <2>2, <2>3 DEF AnswerInv, IsUpdate, StartComes, Starts
<1>7. AskInv'
  BY <1>1, <1>2, <1>4, <1>5 DEF AskInv
<1>8. PageInv'
  <2>1. ASSUME run > torn', ~StartComes(run)' PROVE failed
    <3>1. run > torn /\ ~StartComes(run)
      BY <1>1, <1>2, <1>5, <2>1
    <3>2. \A j \in DOMAIN socket : ~Starts(socket[j], run)
      BY <3>1 DEF StartComes
    <3>3. 1 \in 1..n /\ DOMAIN socket = 1..n /\ IsError(socket[1])
      BY <1>1, SocketType DEF IsError
    <3>4. failed \/ \E j \in (1 + 1)..n : Starts(socket[j], run)
      BY <3>1, <3>3 DEF SocketInv, EndsHere
    <3>5. (1 + 1)..n \subseteq 1..n
      BY <1>1
    <3> QED
      BY <3>2, <3>3, <3>4, <3>5
  <2> QED
    BY <1>1, <1>4, <2>1 DEF PageInv, Intact
<1>9. ViewFaithful' /\ ViewExact'
  BY <1>4 DEF ViewFaithful, ViewExact, Intact
<1> QED
  BY <1>1, <1>4, <1>6, <1>7, <1>8, <1>9

(* An update: of an intact run it is the next one.                         *)
LEMMA UpdateDelivers ==
  ASSUME TypeOK, Delivery, onmessage, socket[1].type = "STATE-UPDATE"
  PROVE  Delivery' /\ PageType' /\ (state' # Null => state'.run \in 1..run)
<1> DEFINE m == socket[1]
           n == Len(socket)
           u == [run |-> m.run, index |-> m.index]
<1> USE DEF Delivery
<1>1. /\ m = Head(socket) /\ Published(m) /\ connected
      /\ n \in Nat /\ n >= 1 /\ Len(socket') = n - 1 /\ DOMAIN socket' = 1..(n - 1)
      /\ DOMAIN socket = 1..n /\ socket' \in Seq(Messages)
      /\ \A i \in 1..(n - 1) : socket'[i] = socket[i + 1]
      /\ UNCHANGED <<run, count, connected, fetched, failed>>
      /\ torn' \in Nat /\ torn <= torn' /\ torn' <= run
      /\ \A r : StartComes(r)' => StartComes(r)
      /\ \A r : StartComes(r) /\ ~Starts(m, r) => StartComes(r)'
      /\ SocketInv'
  BY MessageTaken
<1>2. /\ run \in Nat /\ torn \in Nat /\ count \in Nat /\ Len(Program) \in Nat
      /\ m.run \in 1..run /\ m.run \in Nat /\ ~IsError(m)
      /\ m.index \in 1..Len(Program) /\ (m.run = run => m.index <= count)
  BY <1>1, Numbers, SocketType DEF Published, IsError
<1>3. processUpdate(u) /\ u \in UpdateSet /\ PageType
  BY <1>1, <1>2 DEF onmessage, UpdateSet, TypeOK
<1>4. /\ PageType' /\ (state = Null => state' = Null)
      /\ state # Null => /\ state' # Null /\ state'.run = state.run
                         /\ Len(state'.updates) = Len(state.updates) + 1
  BY <1>3, UpdateType
<1>5. \A r : StartComes(r)' <=> StartComes(r)
  BY <1>1 DEF Starts
<1>6. state # Null => state.run \in 1..run /\ state.run \in Nat /\ Len(state.updates) \in Nat
  BY <1>2 DEF TypeOK, PageType
<1>7. Intact' => state # Null /\ Intact
  BY <1>1, <1>2, <1>4, <1>5, <1>6 DEF Intact
<1>8. Intact => m.run = state.run /\ m.index = Len(state.updates) + 1
  <2>1. socket # <<>>
    BY <1>1
  <2> QED
    BY <1>1, <2>1 DEF PageInv, IsUpdate
<1>9. ASSUME fetched.status = "answered", fetched.run > torn', state # Null, Intact,
             state.run = fetched.run
      PROVE  Len(state.updates) + 1 <= fetched.count
  <2>1. Known(m) /\ fetched.run \in 0..run
    BY <1>9, AnswerOutlasts
  <2> QED
    BY <1>2, <1>6, <1>8, <1>9, <2>1 DEF Known
<1>10. AnswerInv'
  <2> SUFFICES ASSUME fetched.status = "answered" PROVE AnswerInv'
    BY <1>1 DEF AnswerInv
  <2>1. fetched.run \in 0..run /\ fetched.run \in Nat
    BY AnswerOutlasts, <1>2
  <2>2. ASSUME fetched.run > torn', fetched.count = 0, ~StartComes(fetched.run)'
        PROVE  current_state_index' = 0
    <3>1. fetched.run > torn /\ ~StartComes(fetched.run) /\ fetched.run \in 1..run
      BY <1>1, <1>2, <1>5, <2>1, <2>2
    <3>2. current_state_index = 0
      BY <2>2, <3>1 DEF AnswerInv
    <3>3. state = Null
      <4> SUFFICES ASSUME state # Null PROVE FALSE
        OBVIOUS
      <4>1. state.run <= fetched.run
        BY <3>1 DEF AnswerInv
      <4>2. state.run >= fetched.run
        BY <3>1 DEF PageInv
      <4>3. state.run = fetched.run
        BY <1>6, <2>1, <4>1, <4>2
      <4>4. Intact
        BY <3>1, <4>3 DEF Intact
      <4>5. Len(state.updates) + 1 <= fetched.count
        BY <1>9, <2>2, <4>3, <4>4
      <4> QED
        BY <1>6, <2>2, <4>5
    <3> QED
      BY <1>3, <3>2, <3>3 DEF processUpdate, page
  <2>3. ASSUME fetched.run > torn', state' # Null
        PROVE  /\ state'.run <= fetched.run
               /\ state'.run = fetched.run /\ Intact' => Len(state'.updates) <= fetched.count
    <3>1. state # Null /\ fetched.run > torn
      BY <1>1, <1>2, <1>4, <2>1, <2>3
    <3>2. state.run <= fetched.run
      BY <3>1 DEF AnswerInv
    <3> QED
      BY <1>4, <1>7, <1>9, <2>3, <3>1, <3>2
  <2>4. fetched' = fetched /\ run' = run /\ count' = count
    BY <1>1
  <2>5. /\ fetched.run \in 0..run /\ fetched.count \in 0..Len(Program)
        /\ fetched.run = run => fetched.count <= count
        /\ \A r \in (fetched.run + 1)..run : r > torn' => StartComes(r)'
        /\ fetched.run > torn' =>
             /\ \A j \in DOMAIN socket', k \in 1..Len(Program) :
                  IsUpdate(socket'[j], fetched.run, k) /\ k > fetched.count + 1 =>
                    \E h \in 1..(j - 1) : IsUpdate(socket'[h], fetched.run, k - 1)
             /\ fetched.run = run /\ count > fetched.count =>
                  \E h \in DOMAIN socket' : IsUpdate(socket'[h], run, count)
    BY AnswerOutlasts
  <2> QED
    BY <2>2, <2>3, <2>4, <2>5 DEF AnswerInv, IsUpdate, StartComes, Starts
<1>11. AskInv'
  <2>1. ASSUME run > torn', count = 0 PROVE StartComes(run)
    <3>1. m.run < run /\ run > torn /\ run \in 1..run /\ 1 \in 1..n
      BY <1>1, <1>2, <2>1
    <3> QED
      BY <1>2, <3>1, NothingOlder
  <2> QED
    BY <1>1, <1>5, <2>1 DEF AskInv
<1>12. PageInv'
  <2>1. ASSUME NEW r \in 1..run, r > torn', ~StartComes(r)'
        PROVE  state' = Null \/ state'.run >= r
    <3>1. r > torn /\ ~StartComes(r)
      BY <1>1, <1>2, <1>5, <2>1
    <3> QED
      BY <1>4, <3>1 DEF PageInv
  <2>2. ASSUME fetched.status = "done", run > torn', ~StartComes(run)', state' = Null
        PROVE  failed
    <3>1. run > torn /\ ~StartComes(run) /\ state = Null
      BY <1>1, <1>2, <1>4, <1>5, <2>2
    <3> QED
      BY <2>2, <3>1 DEF PageInv
  <2>3. ASSUME Intact', socket' # <<>>, Head(socket').type = "STATE-UPDATE"
        PROVE  IsUpdate(Head(socket'), state'.run, Len(state'.updates) + 1)
    <3>1. m.run > torn
      BY <1>7, <1>8, <2>3 DEF Intact
    <3>2. Len(socket') \in Nat \ {0} /\ Head(socket') = socket'[1]
      BY <1>1, <2>3, EmptySeq
    <3>3. n >= 2 /\ socket'[1] = socket[2]
      BY <1>1, <3>2
    <3>4. IsUpdate(socket[2], m.run, m.index + 1)
      BY <1>2, <2>3, <3>1, <3>2, <3>3, SecondMessage
    <3>5. m.run = state'.run /\ m.index + 1 = Len(state'.updates) + 1
      BY <1>4, <1>7, <1>8, <2>3
    <3> QED
      BY <3>2, <3>3, <3>4, <3>5
  <2>4. ASSUME Intact', state'.run = run
        PROVE  /\ Len(state'.updates) <= count
               /\ NoError(1, Len(socket))' => Len(state'.updates) + Len(socket') = count
    <3>1. Len(state'.updates) <= count
      <4>1. state # Null /\ Intact
        BY <1>7, <2>4
      <4>2. m.run = run /\ m.index = Len(state'.updates)
        BY <1>4, <1>8, <2>4, <4>1
      <4>3. m.index <= count
        BY <1>2, <4>2
      <4> QED
        BY <4>2, <4>3
    <3>2. ASSUME NoError(1, Len(socket))'
          PROVE  Len(state'.updates) + Len(socket') = count
      <4>1. \A h \in 1..(n - 1) : ~IsError(socket'[h])
        BY <1>1, <3>2 DEF NoError, IsError
      <4>2. NoError(1, n)
        <5> SUFFICES ASSUME NEW h \in 1..n, h # 1 PROVE ~IsError(socket[h])
          BY <1>2 DEF NoError
        <5>1. h - 1 \in 1..(n - 1) /\ (h - 1) + 1 = h
          BY <1>1
        <5> QED
          BY <1>1, <4>1, <5>1
      <4>3. Len(state.updates) + n = count
        BY <1>4, <1>7, <2>4, <4>2 DEF PageInv
      <4>4. Len(state'.updates) = Len(state.updates) + 1 /\ Len(state.updates) \in Nat
        BY <1>4, <1>6, <1>7, <2>4
      <4> QED
        BY <1>1, <4>3, <4>4
    <3> QED
      BY <3>1, <3>2
  <2> QED
    BY <1>1, <2>1, <2>2, <2>3, <2>4 DEF PageInv, IsUpdate
<1>13. Intact' => Faithful' /\ Exact'
  <2> SUFFICES ASSUME Intact' PROVE Faithful' /\ Exact'
    OBVIOUS
  <2>1. state # Null /\ Faithful /\ Exact
    BY <1>7 DEF ViewFaithful, ViewExact
  <2>2. u = [run |-> state.run, index |-> Len(state.updates) + 1]
    BY <1>7, <1>8
  <2> QED
    BY <1>3, <2>1, <2>2, NextUpdateIsFaithful
<1> QED
  BY <1>1, <1>4, <1>6, <1>10, <1>11, <1>12, <1>13 DEF ViewFaithful, ViewExact

-----------------------------------------------------------------------------
(* The simulation publishes.                                               *)

(* A message that is missed tears the present run: nothing is claimed any  *)
(* more of what is on its way.                                             *)
LEMMA MissedDelivers ==
  ASSUME TypeOK, Delivery, UNCHANGED <<page, connected, socket, fetched>>,
         run' \in Nat, count' \in Nat, run <= run', torn' = run', run' = run => count <= count',
         connected \/ fetched.status # "asked"
  PROVE  Delivery'
<1> USE DEF Delivery
<1>1. /\ run \in Nat /\ torn \in Nat /\ torn <= run /\ DOMAIN socket = 1..Len(socket)
      /\ \A i \in DOMAIN socket : socket[i].run \in Nat /\ socket[i].run <= run
                                 /\ socket[i].index \in Nat
      /\ count' \in Nat /\ count \in Nat /\ Len(Program) \in Nat
      /\ socket' = socket /\ fetched' = fetched
  BY Numbers, SocketType
<1>2. state # Null => state.run \in Nat /\ state.run <= run
  BY <1>1 DEF TypeOK
<1>3. ~Intact'
  BY <1>1, <1>2 DEF Intact, page
<1>4. SocketInv'
  <2>1. ~connected' => socket' = <<>>
    BY DEF SocketInv
  <2>2. ASSUME NEW i \in DOMAIN socket PROVE Published(socket[i])'
    <3>1. Published(socket[i]) /\ socket[i].run \in Nat /\ socket[i].run <= run
      BY <1>1 DEF SocketInv
    <3>2. ASSUME socket[i].type = "STATE-UPDATE", socket[i].run = run'
          PROVE  socket[i].index <= count'
      <4>1. run' = run /\ socket[i].index <= count /\ count <= count'
        BY <1>1, <3>1, <3>2 DEF Published
      <4> QED
        BY <1>1, <4>1
    <3> QED
      BY <1>1, <3>1, <3>2 DEF Published, IsError
  <2>3. InOrder'
    BY <1>1 DEF SocketInv, InOrder, IsError
  <2>4. NoGap'
    BY <1>1 DEF NoGap
  <2>5. NoLostStart' /\ EndsHere'
    <3>1. ~(run' > torn') /\ \A r \in 1..run' : ~(r > torn')
      BY <1>1
    <3> QED
      BY <3>1 DEF NoLostStart, EndsHere
  <2> QED
    BY <1>1, <2>1, <2>2, <2>3, <2>4, <2>5 DEF SocketInv
<1>5. AnswerInv'
  <2> SUFFICES ASSUME fetched.status = "answered" PROVE AnswerInv'
    BY <1>1 DEF AnswerInv
  <2>1. /\ fetched.run \in 0..run /\ fetched.count \in 0..Len(Program)
        /\ fetched.run = run => fetched.count <= count
    BY DEF AnswerInv
  <2>2. fetched.run \in 0..run' /\ ~(fetched.run > torn')
    BY <1>1, <2>1
  <2>3. fetched.run = run' => fetched.count <= count'
    BY <1>1, <2>1, Numbers
  <2>4. \A r \in (fetched.run + 1)..run' : ~(r > torn')
    BY <1>1, <2>1
  <2> QED
    BY <1>1, <2>1, <2>2, <2>3, <2>4 DEF AnswerInv
<1>6. AskInv'
  BY <1>1 DEF AskInv, page
<1>7. PageInv'
  BY <1>1, <1>3 DEF PageInv
<1>8. ViewFaithful' /\ ViewExact'
  BY <1>3 DEF ViewFaithful, ViewExact
<1> QED
  BY <1>4, <1>5, <1>6, <1>7, <1>8

(* What is published before the page has a socket and an answer does not   *)
(* concern it: the answer will have it.                                    *)
LEMMA UnheardDelivers ==
  ASSUME TypeOK, Delivery, UNCHANGED <<page, connected, socket, fetched, torn>>,
         ~connected, fetched.status = "asked",
         run' \in Nat
  PROVE  Delivery'
<1> USE DEF Delivery
<1>1. state = Null /\ current_state_index = 0 /\ socket = <<>>
  BY DEF AskInv, SocketInv
<1>2. DOMAIN socket' = {} /\ Len(socket') = 0 /\ socket' = <<>> /\ ~connected'
      /\ fetched'.status = "asked" /\ state' = Null /\ current_state_index' = 0
  BY <1>1 DEF page
<1>3. SocketInv'
  BY <1>2 DEF SocketInv, InOrder, NoGap, NoLostStart, EndsHere
<1>4. AnswerInv' /\ AskInv'
  BY <1>2 DEF AnswerInv, AskInv
<1>5. PageInv' /\ ViewFaithful' /\ ViewExact'
  BY <1>2 DEF PageInv, ViewFaithful, ViewExact, Intact
<1> QED
  BY <1>3, <1>4, <1>5

(* What can be said of every message that gets into the socket.            *)
LEMMA StillOnItsWay ==
  ASSUME TypeOK, NEW m, NEW S, Messages \subseteq S, m \in S, socket' = Append(socket, m)
  PROVE  /\ \A r : StartComes(r) => StartComes(r)'
         /\ \A r : StartComes(r)' => StartComes(r) \/ Starts(m, r)
         /\ \A r : Starts(m, r) => StartComes(r)'
<1> DEFINE n == Len(socket)
<1>1. /\ n \in Nat /\ DOMAIN socket = 1..n /\ DOMAIN socket' = 1..(n + 1)
      /\ \A i \in 1..n : socket'[i] = socket[i]
      /\ socket'[n + 1] = m
  BY SocketType, AppendToSocket
<1>2. /\ n + 1 \in 1..(n + 1) /\ \A i \in 1..n : i \in 1..(n + 1)
      /\ \A i \in 1..(n + 1) : i = n + 1 \/ i \in 1..n
  BY <1>1
<1> HIDE DEF n
<1> QED
  BY <1>1, <1>2 DEF StartComes, Starts

LEMMA OfferTypes ==
  ASSUME TypeOK, NEW m, Offer(m), run' \in Nat, run <= run', m \in Messages'
  PROVE  /\ socket' \in Seq(Messages') /\ Len(socket') <= Capacity
         /\ torn' \in 0..run'
         /\ UNCHANGED <<connected, fetched>>
<1>1. /\ socket' = IF connected /\ HasRoom THEN Append(socket, m) ELSE socket
      /\ torn' = IF Missed /\ m.run > torn THEN m.run ELSE torn
      /\ UNCHANGED <<connected, fetched>>
  BY DEF Offer
<1>2. m.run \in Nat /\ m.run <= run'
  BY DEF Messages
<1>3. torn' \in 0..run'
  BY <1>1, <1>2, Numbers
<1>4. Messages \subseteq Messages'
  <2>1. 0..run \subseteq 0..run'
    BY Numbers
  <2> QED
    BY <2>1 DEF Messages
<1>5. CASE connected /\ HasRoom
  <2>1. socket' = Append(socket, m)
    BY <1>1, <1>5
  <2>2. socket' \in Seq(Messages') /\ Len(socket') = Len(socket) + 1
    BY <1>4, <2>1, AppendToSocket
  <2>3. Len(socket) + 1 <= Capacity
    BY <1>5, SocketType, SessionAssumption DEF HasRoom
  <2> QED
    BY <1>1, <1>3, <2>2, <2>3
<1>6. CASE ~(connected /\ HasRoom)
  <2>1. socket' = socket /\ socket \in Seq(Messages) /\ Len(socket) <= Capacity
    BY <1>1, <1>6 DEF TypeOK
  <2>2. socket \in Seq(Messages')
    BY <1>4, <2>1, SeqMonotonic
  <2> QED
    BY <1>1, <1>3, <2>1, <2>2
<1> QED
  BY <1>5, <1>6

(* The start of a run.                                                     *)
LEMMA StartIsPublished ==
  ASSUME TypeOK, Delivery, startSimulation, UNCHANGED page
  PROVE  Delivery'
<1> DEFINE m == Message("INITIAL-STATE", run + 1, 0)
           n == Len(socket)
<1> USE DEF Delivery
<1>1. /\ run' = run + 1 /\ count' = 0 /\ failed' = FALSE
      /\ socket' = IF connected /\ HasRoom THEN Append(socket, m) ELSE socket
      /\ torn' = IF Missed /\ m.run > torn THEN m.run ELSE torn
      /\ UNCHANGED <<connected, fetched>>
  BY DEF startSimulation, Offer
<1>2. /\ m.type = "INITIAL-STATE" /\ m.run = run + 1 /\ m.index = 0
      /\ m = [type |-> "INITIAL-STATE", run |-> run + 1, index |-> 0]
  BY DEF Message
<1> HIDE DEF m
<1>3. /\ run \in Nat /\ torn \in Nat /\ torn <= run /\ count \in Nat /\ n \in Nat
      /\ Len(Program) \in Nat
  BY Numbers, SocketType
<1>4. CASE Missed
  <2>1. socket' = socket /\ (connected \/ fetched.status # "asked")
    BY <1>1, <1>4 DEF Missed
  <2>2. torn' = run' /\ run' \in Nat /\ run <= run' /\ count' \in Nat /\ run' # run
    BY <1>1, <1>2, <1>3, <1>4
  <2> QED
    BY <1>1, <2>1, <2>2, MissedDelivers
<1>5. CASE ~Missed /\ ~connected
  <2>1. socket' = socket /\ torn' = torn /\ fetched.status = "asked" /\ run' \in Nat
    BY <1>1, <1>3, <1>5 DEF Missed
  <2> QED
    BY <1>1, <1>5, <2>1, UnheardDelivers
<1>6. CASE ~Missed /\ connected
  <2>1. socket' = Append(socket, m) /\ torn' = torn
    BY <1>1, <1>6 DEF Missed
  <2>2. m \in Messages'
    BY <1>1, <1>2, <1>3 DEF Messages
  <2>3. Messages \subseteq Messages'
    <3>1. 0..run \subseteq 0..run'
      BY <1>1, <1>3
    <3> QED
      BY <3>1 DEF Messages
  <2>4. /\ Len(socket') = n + 1 /\ DOMAIN socket' = 1..(n + 1) /\ DOMAIN socket = 1..n
        /\ \A i \in 1..n : socket'[i] = socket[i]
        /\ socket'[n + 1] = m
        /\ (socket = <<>> => Head(socket') = m) /\ (socket # <<>> => Head(socket') = Head(socket))
    BY <2>1, <2>2, <2>3, AppendToSocket, SocketType
  <2>5. /\ \A r : StartComes(r) => StartComes(r)'
        /\ StartComes(run)'
    <3>1. /\ \A r : StartComes(r) => StartComes(r)'
          /\ \A r : Starts(m, r) => StartComes(r)'
      BY <2>1, <2>2, <2>3, StillOnItsWay
    <3>2. \A r : r = run + 1 => Starts(m, r)
      BY <1>2 DEF Starts
    <3> QED
      BY <1>1, <3>1, <3>2 DEF StartComes, Starts
  <2>6. \A i \in 1..n : /\ Published(socket[i]) /\ socket[i].run \in Nat
                        /\ socket[i].run <= run
    BY <2>4, SocketType DEF SocketInv
  <2>7. \A i \in 1..(n + 1) : i = n + 1 \/ i \in 1..n
    BY <1>3
  <2>8. state # Null => state.run \in Nat /\ state.run <= run
    BY <1>3 DEF TypeOK
  <2>9. Intact' => Intact
    BY <2>1, <2>5 DEF Intact, page
  <2> HIDE DEF n
  <2>10. SocketInv'
    <3>1. ~connected' => socket' = <<>>
      BY <1>1, <1>6
    <3>2. ASSUME NEW i \in 1..(n + 1) PROVE Published(socket[i])'
      <4>1. CASE i = n + 1
        BY <1>1, <1>2, <1>3, <2>4, <4>1 DEF Published, IsError
      <4>2. CASE i \in 1..n
        BY <1>1, <1>3, <2>4, <2>6, <4>2 DEF Published, IsError
      <4> QED
        BY <2>7, <4>1, <4>2
    <3>3. InOrder'
      <4> SUFFICES ASSUME NEW i \in 1..(n + 1), NEW j \in 1..(n + 1), i < j,
                          ~IsError(socket'[i]), ~IsError(socket'[j])
                   PROVE  /\ socket'[i].run <= socket'[j].run
                          /\ socket'[j].type = "INITIAL-STATE" =>
                               socket'[i].run < socket'[j].run
        BY <2>4 DEF InOrder, IsError
      <4>1. i \in 1..n
        BY <1>3
      <4>2. CASE j = n + 1
        BY <1>2, <1>3, <2>4, <2>6, <4>1, <4>2
      <4>3. CASE j \in 1..n
        BY <2>4, <4>1, <4>3 DEF SocketInv, InOrder
      <4> QED
        BY <2>7, <4>2, <4>3
    <3>4. NoGap'
      <4> SUFFICES ASSUME NEW i \in 1..(n + 1), NEW j \in 1..(n + 1), i < j,
                          socket'[i].run = socket'[j].run, socket'[i].run > torn,
                          \A h \in i..j : ~IsError(socket'[h])
                   PROVE  socket'[j].index = socket'[i].index + (j - i)
        BY <2>1, <2>4 DEF NoGap, NoError, IsError
      <4>1. i \in 1..n
        BY <1>3
      <4>2. j # n + 1
        <5>1. socket'[i].run <= run /\ socket'[i].run \in Nat
          BY <2>4, <2>6, <4>1
        <5>2. socket'[n + 1].run = run + 1
          BY <1>2, <2>4
        <5> QED
          BY <1>3, <5>1, <5>2
      <4>3. j \in 1..n /\ \A h \in i..j : h \in 1..n
        BY <1>3, <2>7, <4>1, <4>2
      <4>4. NoError(i, j)
        BY <2>4, <4>3 DEF NoError
      <4> QED
        BY <2>4, <4>1, <4>3, <4>4 DEF SocketInv, NoGap
    <3>5. NoLostStart'
      <4> SUFFICES ASSUME NEW r \in 1..run', NEW i \in 1..(n + 1), r > torn,
                          ~IsError(socket'[i]), socket'[i].run < r
                   PROVE  StartComes(r)'
        BY <2>1, <2>4 DEF NoLostStart, StartComes, Starts, IsError
      <4>1. CASE r = run'
        BY <2>5, <4>1 DEF StartComes, Starts
      <4>2. CASE r # run'
        <5>1. r \in 1..run
          BY <1>1, <1>3, <4>2
        <5>2. i \in 1..n
          BY <1>2, <1>3, <2>4, <2>7, <5>1
        <5>3. StartComes(r)
          BY <2>4, <5>1, <5>2 DEF SocketInv, NoLostStart
        <5> QED
          BY <2>5, <5>3
      <4> QED
        BY <4>1, <4>2
    <3>6. EndsHere'
      <4>1. socket'[n + 1].run = run' /\ socket'[n + 1].index = count'
        BY <1>1, <1>2, <2>4
      <4>2. ASSUME NEW i \in 1..(n + 1), Starts(socket'[i], run')
            PROVE  n + 1 = i + count'
        <5>1. i \notin 1..n
          BY <1>1, <1>3, <2>4, <2>6, <4>2 DEF Starts
        <5> QED
          BY <1>1, <1>3, <2>7, <5>1
      <4>3. ASSUME NEW i \in 1..(n + 1), IsError(socket'[i])
            PROVE  \E j \in (i + 1)..(n + 1) : Starts(socket'[j], run')
        <5>1. i # n + 1 /\ Starts(socket'[n + 1], run')
          BY <1>1, <1>2, <2>4, <4>3 DEF IsError, Starts
        <5>2. n + 1 \in (i + 1)..(n + 1)
          BY <1>3, <5>1
        <5> QED
          BY <5>1, <5>2
      <4> QED
        BY <2>4, <4>1, <4>2, <4>3 DEF EndsHere, Starts, IsError
    <3> QED
      BY <2>4, <3>1, <3>2, <3>3, <3>4, <3>5, <3>6 DEF SocketInv
  <2>11. AnswerInv'
    <3> SUFFICES ASSUME fetched.status = "answered" PROVE AnswerInv'
      BY <1>1 DEF AnswerInv
    <3>1. /\ fetched.run \in 0..run /\ fetched.count \in 0..Len(Program)
          /\ \A r \in (fetched.run + 1)..run : r > torn => StartComes(r)
      BY DEF AnswerInv
    <3>2. fetched.run \in 0..run' /\ fetched.run # run'
      BY <1>1, <1>3, <3>1
    <3>3. \A r \in (fetched.run + 1)..run' : r > torn => StartComes(r)'
      <4> TAKE r \in (fetched.run + 1)..run'
      <4>1. r = run' \/ r \in (fetched.run + 1)..run
        BY <1>1, <1>3, <3>1
      <4> QED
        BY <2>5, <3>1, <4>1
    <3>4. ASSUME fetched.run > torn
          PROVE  /\ \A j \in 1..(n + 1), k \in 1..Len(Program) :
                      IsUpdate(socket'[j], fetched.run, k) /\ k > fetched.count + 1 =>
                        \E h \in 1..(j - 1) : IsUpdate(socket'[h], fetched.run, k - 1)
                 /\ state # Null =>
                      /\ state.run <= fetched.run
                      /\ state.run = fetched.run /\ Intact =>
                           Len(state.updates) <= fetched.count
                 /\ fetched.count = 0 /\ ~StartComes(fetched.run) => current_state_index = 0
      <4>1. ASSUME NEW j \in 1..(n + 1), NEW k \in 1..Len(Program),
                   IsUpdate(socket'[j], fetched.run, k), k > fetched.count + 1
            PROVE  \E h \in 1..(j - 1) : IsUpdate(socket'[h], fetched.run, k - 1)
        <5>1. j \in 1..n
          BY <1>2, <2>4, <2>7, <4>1 DEF IsUpdate
        <5>2. IsUpdate(socket[j], fetched.run, k)
          BY <2>4, <4>1, <5>1
        <5>3. PICK h \in 1..(j - 1) : IsUpdate(socket[h], fetched.run, k - 1)
          BY <2>4, <3>4, <4>1, <5>1, <5>2 DEF AnswerInv
        <5>4. h \in 1..n
          BY <1>3, <5>1
        <5> QED
          BY <2>4, <5>3, <5>4
      <4> QED
        BY <3>4, <4>1 DEF AnswerInv
    <3>5. state' = state /\ current_state_index' = current_state_index
      BY DEF page
    <3>6. ~StartComes(fetched.run)' => ~StartComes(fetched.run)
      BY <1>1, <2>5 DEF StartComes, Starts
    <3>7. fetched' = fetched /\ torn' = torn /\ DOMAIN socket' = 1..(n + 1)
      BY <1>1, <2>1, <2>4
    <3>8. fetched.run > torn =>
            /\ \A j \in DOMAIN socket', k \in 1..Len(Program) :
                 IsUpdate(socket'[j], fetched.run, k) /\ k > fetched.count + 1 =>
                   \E h \in 1..(j - 1) : IsUpdate(socket'[h], fetched.run, k - 1)
            /\ state' # Null =>
                 /\ state'.run <= fetched.run
                 /\ state'.run = fetched.run /\ Intact' =>
                      Len(state'.updates) <= fetched.count
            /\ fetched.count = 0 /\ ~StartComes(fetched.run)' => current_state_index' = 0
      BY <2>9, <3>4, <3>5, <3>6, <3>7
    <3> QED
      BY <3>1, <3>2, <3>3, <3>7, <3>8 DEF AnswerInv, IsUpdate
  <2>12. AskInv'
    BY <1>1, <1>6, <2>5 DEF AskInv, StartComes, Starts
  <2>13. PageInv'
    <3>1. state' = state
      BY DEF page
    <3>2. ASSUME NEW r \in 1..run', r > torn, ~StartComes(r)'
          PROVE  state = Null \/ state.run >= r
      <4>1. r # run' /\ ~StartComes(r)
        BY <2>5, <3>2 DEF StartComes, Starts
      <4>2. r \in 1..run
        BY <1>1, <1>3, <4>1
      <4> QED
        BY <3>2, <4>1, <4>2 DEF PageInv
    <3>3. ASSUME Intact', socket' # <<>>, Head(socket').type = "STATE-UPDATE"
          PROVE  IsUpdate(Head(socket'), state.run, Len(state.updates) + 1)
      <4>1. socket # <<>> /\ Head(socket') = Head(socket)
        BY <1>2, <2>4, <3>3
      <4> QED
        BY <2>9, <3>3, <4>1 DEF PageInv
    <3>4. Intact' => state.run # run'
      BY <1>1, <1>3, <2>8, <2>9 DEF Intact
    <3> QED
      BY <2>1, <2>5, <3>1, <3>2, <3>3, <3>4 DEF PageInv, IsUpdate
  <2>14. ViewFaithful' /\ ViewExact'
    BY <2>9 DEF ViewFaithful, ViewExact, Faithful, Exact, page
  <2> QED
    BY <2>10, <2>11, <2>12, <2>13, <2>14
<1> QED
  BY <1>4, <1>5, <1>6

(* An update of the present run.                                           *)
LEMMA UpdateIsPublished ==
  ASSUME TypeOK, Delivery, updateState, UNCHANGED page, run >= 1, count < Len(Program)
  PROVE  Delivery'
<1> DEFINE m == Message("STATE-UPDATE", run, count + 1)
           n == Len(socket)
<1> USE DEF Delivery
<1>1. /\ run' = run /\ count' = count + 1 /\ failed' = failed
      /\ socket' = IF connected /\ HasRoom THEN Append(socket, m) ELSE socket
      /\ torn' = IF Missed /\ m.run > torn THEN m.run ELSE torn
      /\ UNCHANGED <<connected, fetched>>
  BY DEF updateState, Offer
<1>2. /\ m.type = "STATE-UPDATE" /\ m.run = run /\ m.index = count + 1
      /\ m = [type |-> "STATE-UPDATE", run |-> run, index |-> count + 1]
  BY DEF Message
<1> HIDE DEF m
<1>3. /\ run \in Nat /\ torn \in Nat /\ torn <= run /\ count \in Nat /\ n \in Nat
      /\ Len(Program) \in Nat
  BY Numbers, SocketType
<1>4. CASE Missed
  <2>1. socket' = socket /\ (connected \/ fetched.status # "asked")
    BY <1>1, <1>4 DEF Missed
  <2>2. torn' = run' /\ run' \in Nat /\ run <= run' /\ count' \in Nat /\ count <= count'
    BY <1>1, <1>2, <1>3, <1>4
  <2> QED
    BY <1>1, <2>1, <2>2, MissedDelivers
<1>5. CASE ~Missed /\ ~connected
  <2>1. socket' = socket /\ torn' = torn /\ fetched.status = "asked" /\ run' \in Nat
    BY <1>1, <1>3, <1>5 DEF Missed
  <2> QED
    BY <1>1, <1>5, <2>1, UnheardDelivers
<1>6. CASE ~Missed /\ connected
  <2>1. socket' = Append(socket, m) /\ torn' = torn
    BY <1>1, <1>6 DEF Missed
  <2>2. m \in Messages /\ Messages \subseteq Messages
    BY <1>2, <1>3 DEF Messages
  <2>3. /\ Len(socket') = n + 1 /\ DOMAIN socket' = 1..(n + 1) /\ DOMAIN socket = 1..n
        /\ \A i \in 1..n : socket'[i] = socket[i]
        /\ socket'[n + 1] = m
        /\ (socket = <<>> => Head(socket') = m) /\ (socket # <<>> => Head(socket') = Head(socket))
    BY <2>1, <2>2, AppendToSocket, SocketType
  <2>4. \A r : StartComes(r)' <=> StartComes(r)
    <3>1. \A r : ~Starts(m, r)
      BY <1>2 DEF Starts
    <3> QED
      BY <2>1, <2>2, <3>1, StillOnItsWay
  <2>5. \A i \in 1..n : /\ Published(socket[i]) /\ socket[i].run \in Nat
                        /\ socket[i].run <= run /\ socket[i].index \in Nat
    BY <2>3, SocketType DEF SocketInv
  <2>6. \A i \in 1..(n + 1) : i = n + 1 \/ i \in 1..n
    BY <1>3
  <2>7. state' = state /\ current_state_index' = current_state_index
    BY DEF page
  <2>8. Intact' <=> Intact
    BY <2>1, <2>4, <2>7 DEF Intact
  <2>9. /\ run > torn /\ n > 0 /\ ~IsError(socket[n]) =>
             socket[n].run = run /\ socket[n].index = count
        /\ \A i \in 1..n : run > torn /\ Starts(socket[i], run) /\ NoError(i + 1, n) =>
             n = i + count
        /\ \A i \in 1..n : run > torn /\ IsError(socket[i]) =>
             failed \/ \E j \in (i + 1)..n : Starts(socket[j], run)
    BY DEF SocketInv, EndsHere
  <2>10. socket = <<>> => n = 0
    OBVIOUS
  <2>11. socket # <<>> => n > 0
    BY <1>3, EmptySeq DEF TypeOK
  <2> HIDE DEF n
  <2>12. SocketInv'
    <3>1. ~connected' => socket' = <<>>
      BY <1>1, <1>6
    <3>2. ASSUME NEW i \in 1..(n + 1) PROVE Published(socket[i])'
      <4>1. CASE i = n + 1
        BY <1>1, <1>2, <1>3, <2>3, <4>1 DEF Published, IsError
      <4>2. CASE i \in 1..n
        BY <1>1, <1>3, <2>3, <2>5, <4>2 DEF Published, IsError
      <4> QED
        BY <2>6, <4>1, <4>2
    <3>3. InOrder'
      <4> SUFFICES ASSUME NEW i \in 1..(n + 1), NEW j \in 1..(n + 1), i < j,
                          ~IsError(socket'[i]), ~IsError(socket'[j])
                   PROVE  /\ socket'[i].run <= socket'[j].run
                          /\ socket'[j].type = "INITIAL-STATE" =>
                               socket'[i].run < socket'[j].run
        BY <2>3 DEF InOrder, IsError
      <4>1. i \in 1..n
        BY <1>3
      <4>2. CASE j = n + 1
        BY <1>2, <1>3, <2>3, <2>5, <4>1, <4>2
      <4>3. CASE j \in 1..n
        BY <2>3, <4>1, <4>3 DEF SocketInv, InOrder
      <4> QED
        BY <2>6, <4>2, <4>3
    <3>4. NoGap'
      <4> SUFFICES ASSUME NEW i \in 1..(n + 1), NEW j \in 1..(n + 1), i < j,
                          socket'[i].run = socket'[j].run, socket'[i].run > torn,
                          \A h \in i..j : ~IsError(socket'[h])
                   PROVE  socket'[j].index = socket'[i].index + (j - i)
        BY <2>1, <2>3 DEF NoGap, NoError, IsError
      <4>1. i \in 1..n
        BY <1>3
      <4>2. CASE j \in 1..n
        <5>1. NoError(i, j)
          <6>1. \A h \in i..j : h \in 1..n
            BY <1>3, <4>1, <4>2
          <6> QED
            BY <2>3, <6>1 DEF NoError
        <5> QED
          BY <2>3, <4>1, <4>2, <5>1 DEF SocketInv, NoGap
      <4>3. CASE j = n + 1
        <5>1. socket[i].run = run /\ run > torn
          BY <1>2, <2>3, <4>1, <4>3
        <5>2. \A h \in i..n : ~IsError(socket[h])
          <6>1. \A h \in i..n : h \in 1..n /\ h \in i..j
            BY <1>3, <4>1, <4>3
          <6> QED
            BY <2>3, <6>1
        <5>3. n \in i..n /\ n > 0 /\ n \in 1..n
          BY <1>3, <4>1
        <5>4. socket[n].run = run /\ socket[n].index = count
          BY <2>9, <5>1, <5>2, <5>3
        <5>5. count = socket[i].index + (n - i)
          <6>1. CASE i = n
            BY <2>5, <1>3, <4>1, <5>4, <6>1
          <6>2. CASE i < n
            BY <2>3, <4>1, <5>1, <5>2, <5>3, <5>4, <6>2 DEF SocketInv, NoGap, NoError
          <6> QED
            BY <1>3, <4>1, <6>1, <6>2
        <5>6. socket'[j].index = count + 1 /\ socket'[i].index = socket[i].index
          BY <1>2, <2>3, <4>1, <4>3
        <5>7. socket[i].index \in Nat
          BY <2>5, <4>1
        <5> QED
          BY <1>3, <4>1, <4>3, <5>5, <5>6, <5>7
      <4> QED
        BY <2>6, <4>2, <4>3
    <3>5. NoLostStart'
      <4> SUFFICES ASSUME NEW r \in 1..run, NEW i \in 1..(n + 1), r > torn,
                          ~IsError(socket'[i]), socket'[i].run < r
                   PROVE  StartComes(r)'
        BY <1>1, <2>1, <2>3 DEF NoLostStart, StartComes, Starts, IsError
      <4>1. i \in 1..n
        BY <1>2, <1>3, <2>3, <2>6
      <4>2. StartComes(r)
        BY <2>3, <4>1 DEF SocketInv, NoLostStart
      <4> QED
        BY <2>4, <4>2
    <3>6. EndsHere'
      <4> SUFFICES ASSUME run > torn PROVE EndsHere'
        BY <1>1, <2>1 DEF EndsHere
      <4>1. socket'[n + 1].run = run /\ socket'[n + 1].index = count'
        BY <1>1, <1>2, <2>3
      <4>2. ASSUME NEW i \in 1..(n + 1), Starts(socket'[i], run),
                   \A h \in (i + 1)..(n + 1) : ~IsError(socket'[h])
            PROVE  n + 1 = i + count'
        <5>1. i \in 1..n
          BY <1>2, <2>3, <2>6, <4>2 DEF Starts
        <5>2. NoError(i + 1, n)
          <6>1. \A h \in (i + 1)..n : h \in 1..n /\ h \in (i + 1)..(n + 1)
            BY <1>3, <5>1
          <6> QED
            BY <2>3, <4>2, <6>1 DEF NoError
        <5>3. n = i + count
          BY <2>3, <2>9, <4>2, <5>1, <5>2
        <5> QED
          BY <1>1, <1>3, <5>1, <5>3
      <4>3. ASSUME NEW i \in 1..(n + 1), IsError(socket'[i]), ~failed
            PROVE  \E j \in (i + 1)..(n + 1) : Starts(socket'[j], run)
        <5>1. i \in 1..n /\ IsError(socket[i])
          BY <1>2, <2>3, <2>6, <4>3 DEF IsError
        <5>2. PICK j \in (i + 1)..n : Starts(socket[j], run)
          BY <2>9, <4>3, <5>1
        <5>3. j \in (i + 1)..(n + 1) /\ j \in 1..n
          BY <1>3, <5>1
        <5> QED
          BY <2>3, <5>2, <5>3
      <4> QED
        BY <1>1, <2>3, <4>1, <4>2, <4>3 DEF EndsHere, Starts, IsError, NoError
    <3> QED
      BY <2>3, <3>1, <3>2, <3>3, <3>4, <3>5, <3>6 DEF SocketInv
  <2>13. AnswerInv'
    <3> SUFFICES ASSUME fetched.status = "answered" PROVE AnswerInv'
      BY <1>1 DEF AnswerInv
    <3>1. /\ fetched.run \in 0..run /\ fetched.count \in 0..Len(Program)
          /\ fetched.run = run => fetched.count <= count
          /\ \A r \in (fetched.run + 1)..run : r > torn => StartComes(r)
      BY DEF AnswerInv
    <3>2. fetched.run = run => fetched.count <= count'
      BY <1>1, <1>3, <3>1
    <3>3. ASSUME fetched.run > torn, NEW j \in 1..(n + 1), NEW k \in 1..Len(Program),
                 IsUpdate(socket'[j], fetched.run, k), k > fetched.count + 1
          PROVE  \E h \in 1..(j - 1) : IsUpdate(socket'[h], fetched.run, k - 1)
      <4>1. CASE j \in 1..n
        <5>1. IsUpdate(socket[j], fetched.run, k)
          BY <2>3, <3>3, <4>1
        <5>2. PICK h \in 1..(j - 1) : IsUpdate(socket[h], fetched.run, k - 1)
          BY <2>3, <3>3, <4>1, <5>1 DEF AnswerInv
        <5>3. h \in 1..n
          BY <1>3, <4>1
        <5> QED
          BY <2>3, <5>2, <5>3
      <4>2. CASE j = n + 1
        <5>1. fetched.run = run /\ k = count + 1
          BY <1>2, <2>3, <3>3, <4>2 DEF IsUpdate
        <5>2. count > fetched.count /\ k - 1 = count
          BY <1>3, <3>1, <3>3, <5>1
        <5>3. PICK h \in 1..n : IsUpdate(socket[h], run, count)
          BY <2>3, <3>3, <5>1, <5>2 DEF AnswerInv
        <5>4. h \in 1..(j - 1)
          BY <1>3, <4>2
        <5> QED
          BY <2>3, <5>1, <5>2, <5>3, <5>4
      <4> QED
        BY <2>6, <4>1, <4>2
    <3>4. n + 1 \in 1..(n + 1) /\ IsUpdate(socket'[n + 1], run, count')
      BY <1>1, <1>2, <1>3, <2>3 DEF IsUpdate
    <3>5. fetched' = fetched /\ torn' = torn /\ DOMAIN socket' = 1..(n + 1) /\ run' = run
      BY <1>1, <2>1, <2>3
    <3>6. fetched.run > torn =>
            /\ \A j \in DOMAIN socket', k \in 1..Len(Program) :
                 IsUpdate(socket'[j], fetched.run, k) /\ k > fetched.count + 1 =>
                   \E h \in 1..(j - 1) : IsUpdate(socket'[h], fetched.run, k - 1)
            /\ \E h \in DOMAIN socket' : IsUpdate(socket'[h], run, count')
            /\ state' # Null =>
                 /\ state'.run <= fetched.run
                 /\ state'.run = fetched.run /\ Intact' =>
                      Len(state'.updates) <= fetched.count
            /\ fetched.count = 0 /\ ~StartComes(fetched.run)' => current_state_index' = 0
      <4>1. ~StartComes(fetched.run)' => ~StartComes(fetched.run)
        BY <2>4, <3>5
      <4>2. fetched.run > torn =>
              /\ state # Null =>
                   /\ state.run <= fetched.run
                   /\ state.run = fetched.run /\ Intact =>
                        Len(state.updates) <= fetched.count
              /\ fetched.count = 0 /\ ~StartComes(fetched.run) => current_state_index = 0
        BY DEF AnswerInv
      <4> QED
        BY <2>7, <2>8, <3>3, <3>4, <3>5, <4>1, <4>2
    <3>7. \A r \in (fetched.run + 1)..run : r > torn => StartComes(r)'
      BY <2>4, <3>1
    <3> QED
      BY <3>1, <3>2, <3>5, <3>6, <3>7 DEF AnswerInv, IsUpdate
  <2>14. AskInv'
    BY <1>1, <1>3, <1>6 DEF AskInv
  <2>15. PageInv'
    <3>1. ASSUME NEW r \in 1..run, r > torn, ~StartComes(r)'
          PROVE  state = Null \/ state.run >= r
      BY <2>4, <3>1 DEF PageInv
    <3>2. ASSUME fetched.status = "done", run > torn, ~StartComes(run)', state = Null
          PROVE  failed
      BY <1>1, <2>4, <3>2 DEF PageInv
    <3>3. ASSUME Intact, state.run = run
          PROVE  /\ Len(state.updates) <= count' /\ Len(state.updates) \in Nat
                 /\ NoError(1, n) => Len(state.updates) + n = count
      <4>1. state # Null /\ Len(state.updates) \in Nat
        BY <3>3 DEF Intact, TypeOK, PageType
      <4>2. Len(state.updates) <= count
        BY <3>3 DEF PageInv
      <4> QED
        BY <1>1, <1>3, <3>3, <4>1, <4>2 DEF PageInv, n
    <3>4. ASSUME Intact, socket' # <<>>, Head(socket').type = "STATE-UPDATE"
          PROVE  IsUpdate(Head(socket'), state.run, Len(state.updates) + 1)
      <4>1. CASE socket # <<>>
        BY <2>3, <3>4, <4>1 DEF PageInv
      <4>2. CASE socket = <<>>
        <5>1. Head(socket') = m /\ n = 0
          BY <2>3, <2>10, <4>2
        <5>2. state.run \in 1..run /\ state.run > torn /\ state # Null
          BY <3>4 DEF Intact, TypeOK
        <5>3. run > torn /\ run \in 1..run
          BY <1>3, <5>2
        <5>4. ~StartComes(run)
          BY <1>3, <2>3, <5>1 DEF StartComes
        <5>5. state.run = run
          <6>1. state.run >= run
            BY <5>2, <5>3, <5>4 DEF PageInv
          <6> QED
            BY <1>3, <5>2, <6>1
        <5>6. NoError(1, n)
          BY <5>1 DEF NoError
        <5>7. Len(state.updates) + n = count
          BY <3>3, <3>4, <5>5, <5>6
        <5>8. Len(state.updates) + 1 = count + 1
          BY <1>3, <3>3, <3>4, <5>1, <5>5, <5>7
        <5> QED
          BY <1>2, <5>1, <5>5, <5>8 DEF IsUpdate
      <4> QED
        BY <4>1, <4>2
    <3>5. ASSUME Intact, state.run = run, NoError(1, Len(socket))'
          PROVE  Len(state.updates) + Len(socket') = count'
      <4>1. \A h \in 1..(n + 1) : ~IsError(socket'[h])
        BY <2>3, <3>5 DEF NoError, IsError
      <4>2. NoError(1, n)
        <5>1. \A h \in 1..n : h \in 1..(n + 1)
          BY <1>3
        <5> QED
          BY <2>3, <4>1, <5>1 DEF NoError
      <4>3. Len(state.updates) + n = count /\ Len(state.updates) \in Nat
        BY <3>3, <3>5, <4>2
      <4>4. Len(socket') = n + 1 /\ count' = count + 1
        BY <1>1, <2>3
      <4>5. PICK k \in Nat : k = Len(state.updates)
        BY <4>3
      <4>6. k + n = count /\ n \in Nat
        BY <1>3, <4>3, <4>5
      <4>7. k + (n + 1) = count + 1
        BY <4>6
      <4> QED
        BY <4>4, <4>5, <4>7
    <3> QED
      BY <1>1, <2>1, <2>7, <2>8, <3>1, <3>2, <3>3, <3>4, <3>5 DEF PageInv, IsUpdate
  <2>16. ViewFaithful' /\ ViewExact'
    BY <2>8 DEF ViewFaithful, ViewExact, Faithful, Exact, page
  <2> QED
    BY <2>12, <2>13, <2>14, <2>15, <2>16
<1> QED
  BY <1>4, <1>5, <1>6

(* An error, which is of no run.                                           *)
LEMMA ErrorIsPublished ==
  ASSUME TypeOK, Delivery, setError, UNCHANGED <<page, run, count>>
  PROVE  Delivery'
<1> DEFINE m == Message("ERROR-MESSAGE", 0, 0)
           n == Len(socket)
<1> USE DEF Delivery
<1>1. /\ failed' = TRUE
      /\ socket' = IF connected /\ HasRoom THEN Append(socket, m) ELSE socket
      /\ torn' = IF Missed /\ m.run > torn THEN m.run ELSE torn
      /\ UNCHANGED <<connected, fetched>>
  BY DEF setError, Offer
<1>2. /\ m.type = "ERROR-MESSAGE" /\ m.run = 0 /\ m.index = 0
      /\ m = [type |-> "ERROR-MESSAGE", run |-> 0, index |-> 0]
  BY DEF Message
<1> HIDE DEF m
<1>3. /\ run \in Nat /\ torn \in Nat /\ torn <= run /\ count \in Nat /\ n \in Nat
      /\ Len(Program) \in Nat
  BY Numbers, SocketType
<1>4. torn' = torn
  BY <1>1, <1>2, <1>3
<1>5. CASE ~(connected /\ HasRoom)
  <2>1. socket' = socket
    BY <1>1, <1>5
  <2>2. SocketInv'
    BY <1>1, <1>4, <2>1 DEF SocketInv, InOrder, NoGap, NoLostStart, EndsHere, Published,
                            StartComes, Starts, NoError, IsError
  <2>3. AnswerInv'
    BY <1>1, <1>4, <2>1 DEF AnswerInv, Intact, StartComes, Starts, IsUpdate, page
  <2>4. AskInv'
    BY <1>1, <1>4, <2>1 DEF AskInv, StartComes, Starts, page
  <2>5. PageInv'
    BY <1>1, <1>4, <2>1 DEF PageInv, Intact, StartComes, Starts, NoError, IsError,
                            IsUpdate, page
  <2>6. ViewFaithful' /\ ViewExact'
    BY <1>1, <1>4, <2>1 DEF ViewFaithful, ViewExact, Intact, StartComes, Starts, Faithful,
                            Exact, page
  <2> QED
    BY <2>2, <2>3, <2>4, <2>5, <2>6
<1>6. CASE connected /\ HasRoom
  <2>1. socket' = Append(socket, m)
    BY <1>1, <1>6
  <2>2. m \in Messages /\ Messages \subseteq Messages
    BY <1>2, <1>3 DEF Messages
  <2>3. /\ Len(socket') = n + 1 /\ DOMAIN socket' = 1..(n + 1) /\ DOMAIN socket = 1..n
        /\ \A i \in 1..n : socket'[i] = socket[i]
        /\ socket'[n + 1] = m
        /\ (socket = <<>> => Head(socket') = m) /\ (socket # <<>> => Head(socket') = Head(socket))
    BY <2>1, <2>2, AppendToSocket, SocketType
  <2>4. \A r : StartComes(r)' <=> StartComes(r)
    <3>1. \A r : ~Starts(m, r)
      BY <1>2 DEF Starts
    <3> QED
      BY <2>1, <2>2, <3>1, StillOnItsWay
  <2>5. \A i \in 1..n : Published(socket[i])
    BY <2>3 DEF SocketInv
  <2>6. \A i \in 1..(n + 1) : i = n + 1 \/ i \in 1..n
    BY <1>3
  <2>7. state' = state /\ current_state_index' = current_state_index
    BY DEF page
  <2>8. Intact' <=> Intact
    BY <1>4, <2>4, <2>7 DEF Intact
  <2>9. n + 1 \in 1..(n + 1) /\ IsError(socket'[n + 1])
    BY <1>2, <1>3, <2>3 DEF IsError
  <2> HIDE DEF n
  <2>10. SocketInv'
    <3>1. ~connected' => socket' = <<>>
      BY <1>1, <1>6
    <3>2. ASSUME NEW i \in 1..(n + 1) PROVE Published(socket[i])'
      <4>1. CASE i = n + 1
        BY <1>2, <2>3, <4>1 DEF Published, IsError
      <4>2. CASE i \in 1..n
        BY <2>3, <2>5, <4>2 DEF Published, IsError
      <4> QED
        BY <2>6, <4>1, <4>2
    <3>3. InOrder'
      <4> SUFFICES ASSUME NEW i \in 1..(n + 1), NEW j \in 1..(n + 1), i < j,
                          ~IsError(socket'[i]), ~IsError(socket'[j])
                   PROVE  /\ socket'[i].run <= socket'[j].run
                          /\ socket'[j].type = "INITIAL-STATE" =>
                               socket'[i].run < socket'[j].run
        BY <2>3 DEF InOrder, IsError
      <4>1. i \in 1..n /\ j \in 1..n
        BY <2>6, <2>9
      <4> QED
        BY <2>3, <4>1 DEF SocketInv, InOrder
    <3>4. NoGap'
      <4> SUFFICES ASSUME NEW i \in 1..(n + 1), NEW j \in 1..(n + 1), i < j,
                          socket'[i].run = socket'[j].run, socket'[i].run > torn,
                          \A h \in i..j : ~IsError(socket'[h])
                   PROVE  socket'[j].index = socket'[i].index + (j - i)
        BY <1>4, <2>3 DEF NoGap, NoError, IsError
      <4>1. j \in i..j /\ i \in i..j
        BY <1>3
      <4>2. i \in 1..n /\ j \in 1..n
        BY <2>6, <2>9, <4>1
      <4>3. \A h \in i..j : h \in 1..n
        BY <1>3, <4>2
      <4>4. NoError(i, j)
        BY <2>3, <4>3 DEF NoError
      <4> QED
        BY <2>3, <4>2, <4>4 DEF SocketInv, NoGap
    <3>5. NoLostStart'
      <4> SUFFICES ASSUME NEW r \in 1..run, NEW i \in 1..(n + 1), r > torn,
                          ~IsError(socket'[i]), socket'[i].run < r
                   PROVE  StartComes(r)'
        BY <1>4, <2>3 DEF NoLostStart, StartComes, Starts, IsError
      <4>1. i \in 1..n
        BY <2>6, <2>9
      <4>2. StartComes(r)
        BY <2>3, <4>1 DEF SocketInv, NoLostStart
      <4> QED
        BY <2>4, <4>2
    <3>6. EndsHere'
      <4>1. ASSUME NEW i \in 1..(n + 1), Starts(socket'[i], run),
                   \A h \in (i + 1)..(n + 1) : ~IsError(socket'[h])
            PROVE  FALSE
        <5>1. i # n + 1
          BY <1>2, <2>3, <4>1 DEF Starts
        <5>2. n + 1 \in (i + 1)..(n + 1)
          BY <1>3, <5>1
        <5> QED
          BY <2>9, <4>1, <5>2
      <4> QED
        BY <1>1, <2>3, <2>9, <4>1 DEF EndsHere, Starts, IsError, NoError
    <3> QED
      BY <2>3, <3>1, <3>2, <3>3, <3>4, <3>5, <3>6 DEF SocketInv
  <2>11. AnswerInv'
    <3> SUFFICES ASSUME fetched.status = "answered" PROVE AnswerInv'
      BY <1>1 DEF AnswerInv
    <3>1. ASSUME fetched.run > torn, NEW j \in 1..(n + 1), NEW k \in 1..Len(Program),
                 IsUpdate(socket'[j], fetched.run, k), k > fetched.count + 1
          PROVE  \E h \in 1..(j - 1) : IsUpdate(socket'[h], fetched.run, k - 1)
      <4>1. j \in 1..n
        BY <1>2, <2>3, <2>6, <3>1 DEF IsUpdate
      <4>2. IsUpdate(socket[j], fetched.run, k)
        BY <2>3, <3>1, <4>1
      <4>3. PICK h \in 1..(j - 1) : IsUpdate(socket[h], fetched.run, k - 1)
        BY <2>3, <3>1, <4>1, <4>2 DEF AnswerInv
      <4>4. h \in 1..n
        BY <1>3, <4>1
      <4> QED
        BY <2>3, <4>3, <4>4
    <3>2. ASSUME fetched.run > torn, fetched.run = run, count > fetched.count
          PROVE  \E h \in 1..(n + 1) : IsUpdate(socket'[h], run, count)
      <4>1. PICK h \in 1..n : IsUpdate(socket[h], run, count)
        BY <2>3, <3>2 DEF AnswerInv
      <4>2. h \in 1..(n + 1)
        BY <1>3
      <4> QED
        BY <2>3, <4>1, <4>2
    <3>3. fetched' = fetched /\ DOMAIN socket' = 1..(n + 1)
      BY <1>1, <2>3
    <3>4. ~StartComes(fetched.run)' => ~StartComes(fetched.run)
      BY <2>4, <3>3
    <3>5. fetched.run > torn =>
            /\ \A j \in DOMAIN socket', k \in 1..Len(Program) :
                 IsUpdate(socket'[j], fetched.run, k) /\ k > fetched.count + 1 =>
                   \E h \in 1..(j - 1) : IsUpdate(socket'[h], fetched.run, k - 1)
            /\ fetched.run = run /\ count > fetched.count =>
                 \E h \in DOMAIN socket' : IsUpdate(socket'[h], run, count)
            /\ state' # Null =>
                 /\ state'.run <= fetched.run
                 /\ state'.run = fetched.run /\ Intact' =>
                      Len(state'.updates) <= fetched.count
            /\ fetched.count = 0 /\ ~StartComes(fetched.run)' => current_state_index' = 0
      <4>1. fetched.run > torn =>
              /\ state # Null =>
                   /\ state.run <= fetched.run
                   /\ state.run = fetched.run /\ Intact =>
                        Len(state.updates) <= fetched.count
              /\ fetched.count = 0 /\ ~StartComes(fetched.run) => current_state_index = 0
        BY DEF AnswerInv
      <4> QED
        BY <2>7, <2>8, <3>1, <3>2, <3>3, <3>4, <4>1
    <3>6. /\ fetched.run \in 0..run /\ fetched.count \in 0..Len(Program)
          /\ fetched.run = run => fetched.count <= count
          /\ \A r \in (fetched.run + 1)..run : r > torn => StartComes(r)'
      BY <2>4 DEF AnswerInv
    <3> QED
      BY <1>4, <3>3, <3>5, <3>6 DEF AnswerInv, IsUpdate
  <2>12. AskInv'
    BY <1>1, <1>4, <1>6, <2>4, <2>7 DEF AskInv
  <2>13. PageInv'
    <3>1. ASSUME Intact, socket' # <<>>, Head(socket').type = "STATE-UPDATE"
          PROVE  IsUpdate(Head(socket'), state.run, Len(state.updates) + 1)
      <4>1. socket # <<>> /\ Head(socket') = Head(socket)
        BY <1>2, <2>3, <3>1
      <4> QED
        BY <3>1, <4>1 DEF PageInv
    <3>2. ~NoError(1, Len(socket))'
      BY <2>3, <2>9 DEF NoError, IsError
    <3> QED
      BY <1>1, <1>4, <2>4, <2>7, <2>8, <3>1, <3>2 DEF PageInv, IsUpdate
  <2>14. ViewFaithful' /\ ViewExact'
    BY <2>8 DEF ViewFaithful, ViewExact, Faithful, Exact, page
  <2> QED
    BY <2>10, <2>11, <2>12, <2>13, <2>14
<1> QED
  BY <1>5, <1>6

-----------------------------------------------------------------------------
(* The inductive invariant.                                                *)

LEMMA InitIInv == Init => IInv
<1> SUFFICES ASSUME Init PROVE IInv
  OBVIOUS
<1>1. /\ state = Null /\ current_state = Machine(0) /\ current_state_index = 0
      /\ is_live = TRUE /\ rewound = FALSE
      /\ run = 0 /\ count = 0 /\ torn = 0 /\ connected = FALSE /\ socket = <<>>
      /\ fetched.status = "asked" /\ phase = "config"
  BY DEF Init, ViewInit
<1>2. 0 \in 0..Len(Program) /\ 0 \in 0..RunCycles /\ 0 \in 0..MaxPosts
      /\ 1 \in 1..MaxLoads /\ 0 <= Capacity /\ 0 \in 0..0
  BY ProgramLength, SessionAssumption
<1>3. PageType
  <2>1. DOMAIN Machine(0) = Cells /\ \A x \in Cells : Machine(0)[x] \in CellValues(x)
    BY <1>2, MachineType
  <2> QED
    BY <1>1, <2>1 DEF PageType
<1>4. <<>> \in Seq(Messages) /\ <<>> \in Seq(Commands) /\ Len(<<>>) = 0 /\ DOMAIN socket = {}
  BY <1>1
<1>5. TypeOK
  <2>1. config \in BOOLEAN /\ failed \in BOOLEAN /\ fresh \in BOOLEAN /\ swallowed \in BOOLEAN
    BY DEF Init
  <2>2. /\ actionsBuffer = <<>> /\ cycle = 0 /\ posts = 0 /\ loads = 1
        /\ phase \in Phases
    BY <1>1 DEF Init, Phases
  <2> QED
    BY <1>1, <1>2, <1>3, <1>4, <2>1, <2>2 DEF TypeOK
<1>6. LoopInv
  BY <1>1 DEF LoopInv
<1>7. SocketInv
  BY <1>1, <1>4 DEF SocketInv, InOrder, NoGap, NoLostStart, EndsHere
<1>8. AnswerInv /\ AskInv /\ PageInv /\ ViewFaithful /\ ViewExact
  BY <1>1 DEF AnswerInv, AskInv, PageInv, ViewFaithful, ViewExact, Intact
<1> QED
  BY <1>5, <1>6, <1>7, <1>8 DEF IInv, Delivery

(* What is left for a step that does not come near the page.               *)
LEMMA QuietTypes ==
  ASSUME TypeOK,
         UNCHANGED <<page, run, count, connected, socket, fetched, torn, failed>>,
         config' \in BOOLEAN, actionsBuffer' \in Seq(Commands),
         phase' \in Phases, cycle' \in 0..RunCycles,
         posts' \in 0..MaxPosts, loads' \in 1..MaxLoads,
         fresh' \in BOOLEAN, swallowed' \in BOOLEAN
  PROVE  TypeOK'
<1>1. PageType' /\ state' = state
  BY QuietPage DEF TypeOK
<1>2. socket' \in Seq(Messages') /\ Len(socket') <= Capacity
  BY DEF TypeOK, Messages
<1>3. failed' \in BOOLEAN /\ connected' \in BOOLEAN
  BY DEF TypeOK
<1>4. /\ state' # Null => state'.run \in 1..run'
      /\ run' \in Nat /\ count' \in 0..Len(Program) /\ torn' \in 0..run'
      /\ fetched'.status \in {"asked", "answered", "done"}
  BY <1>1 DEF TypeOK
<1> QED
  BY <1>1, <1>2, <1>3, <1>4 DEF TypeOK

LEMMA QuietIInv ==
  ASSUME IInv,
         UNCHANGED <<page, run, count, connected, socket, fetched, torn, failed>>,
         config' \in BOOLEAN, actionsBuffer' \in Seq(Commands),
         phase' \in Phases, cycle' \in 0..RunCycles,
         posts' \in 0..MaxPosts, loads' \in 1..MaxLoads,
         fresh' \in BOOLEAN, swallowed' \in BOOLEAN,
         LoopInv'
  PROVE  IInv'
BY QuietTypes, QuietDelivery DEF IInv

LEMMA DequeueType ==
  ASSUME TypeOK, actionsBuffer # <<>>
  PROVE  Tail(actionsBuffer) \in Seq(Commands) /\ Head(actionsBuffer) \in Commands
BY HeadTailProperties DEF TypeOK

LEMMA PostType ==
  ASSUME TypeOK, NEW a \in Commands, Post(a)
  PROVE  actionsBuffer' \in Seq(Commands) /\ posts' \in 0..MaxPosts
<1>1. actionsBuffer' \in Seq(Commands)
  BY AppendProperties DEF TypeOK, Post
<1>2. posts' \in 0..MaxPosts
  BY SessionAssumption DEF TypeOK, Post
<1> QED
  BY <1>1, <1>2

(* The types of what a step of the simulation with a message leaves.       *)
LEMMA PublishedTypes ==
  ASSUME TypeOK, NEW m, Offer(m), UNCHANGED <<page, config, bounds, fresh, swallowed>>,
         run' \in Nat, run <= run', count' \in 0..Len(Program), m \in Messages',
         failed' \in BOOLEAN, actionsBuffer' \in Seq(Commands),
         phase' \in Phases, cycle' \in 0..RunCycles
  PROVE  TypeOK'
<1>1. PageType' /\ state' = state
  BY QuietPage DEF TypeOK
<1>2. socket' \in Seq(Messages') /\ Len(socket') <= Capacity /\ torn' \in 0..run'
      /\ UNCHANGED <<connected, fetched>>
  BY OfferTypes
<1>3. state' # Null => state'.run \in 1..run'
  BY <1>1, Numbers DEF TypeOK
<1>4. config' \in BOOLEAN /\ fresh' \in BOOLEAN /\ swallowed' \in BOOLEAN
      /\ connected' \in BOOLEAN
  BY <1>2 DEF TypeOK
<1>5. posts' \in 0..MaxPosts /\ loads' \in 1..MaxLoads
      /\ fetched'.status \in {"asked", "answered", "done"}
  BY <1>2 DEF TypeOK, bounds
<1> QED
  BY <1>1, <1>2, <1>3, <1>4, <1>5 DEF TypeOK

LEMMA ErrorIInv ==
  ASSUME IInv, setError, UNCHANGED <<page, config, run, count, loads, fresh, swallowed>>,
         actionsBuffer' \in Seq(Commands), posts' \in 0..MaxPosts,
         phase' \in Phases, cycle' \in 0..RunCycles, LoopInv'
  PROVE  IInv'
<1> DEFINE m == Message("ERROR-MESSAGE", 0, 0)
<1>1. TypeOK /\ Delivery
  BY DEF IInv
<1>2. Offer(m) /\ failed' = TRUE
  BY DEF setError
<1>3. m \in Messages' /\ run' \in Nat /\ run <= run'
  BY <1>1, Numbers DEF Message, Messages
<1> HIDE DEF m
<1>4. PageType' /\ state' = state
  BY <1>1, QuietPage DEF TypeOK
<1>5. socket' \in Seq(Messages') /\ Len(socket') <= Capacity /\ torn' \in 0..run'
      /\ UNCHANGED <<connected, fetched>>
  BY <1>1, <1>2, <1>3, OfferTypes
<1>6. config' \in BOOLEAN /\ fresh' \in BOOLEAN /\ swallowed' \in BOOLEAN
      /\ connected' \in BOOLEAN /\ failed' \in BOOLEAN
  BY <1>1, <1>2, <1>5 DEF TypeOK
<1>7. /\ state' # Null => state'.run \in 1..run'
      /\ run' \in Nat /\ count' \in 0..Len(Program) /\ loads' \in 1..MaxLoads
      /\ fetched'.status \in {"asked", "answered", "done"}
  BY <1>1, <1>4, <1>5 DEF TypeOK
<1>8. TypeOK'
  BY <1>4, <1>5, <1>6, <1>7 DEF TypeOK
<1>9. Delivery'
  BY <1>1, ErrorIsPublished
<1> QED
  BY <1>8, <1>9 DEF IInv

(* A cycle of the simulation.                                              *)
LEMMA StepIInv ==
  ASSUME IInv, NEW next \in Phases, Step(next), phase \in {"main", "run"},
         actionsBuffer' \in Seq(Commands), cycle' \in 0..RunCycles,
         next = "run" => cycle' < RunCycles
  PROVE  IInv'
<1>1. TypeOK /\ Delivery /\ run >= 1
  BY DEF IInv, LoopInv
<1>2. UNCHANGED <<page, config, bounds, fresh, swallowed>>
  BY DEF Step
<1>3. CASE count < Len(Program) /\ updateState /\ phase' = next
  <2> DEFINE m == Message("STATE-UPDATE", run, count + 1)
  <2>1. /\ Offer(m) /\ run' = run /\ failed' = failed /\ count' = count + 1
    BY <1>3 DEF updateState
  <2>2. /\ m \in Messages' /\ run' \in Nat /\ run <= run' /\ count' \in 0..Len(Program)
    BY <1>1, <1>3, <2>1, Numbers DEF Message, Messages
  <2> HIDE DEF m
  <2>3. failed' \in BOOLEAN
    BY <1>1, <2>1 DEF TypeOK
  <2>4. phase' \in Phases
    BY <1>3
  <2>5. TypeOK'
    BY <1>1, <1>2, <2>1, <2>2, <2>3, <2>4, PublishedTypes
  <2>6. LoopInv'
    BY <1>1, <1>3, <2>1 DEF LoopInv
  <2>7. Delivery'
    BY <1>1, <1>2, <1>3, UpdateIsPublished
  <2> QED
    BY <2>5, <2>6, <2>7 DEF IInv
<1>4. CASE setError /\ phase' = "config" /\ UNCHANGED <<run, count>>
  <2>1. LoopInv' /\ phase' \in Phases
    BY <1>4 DEF LoopInv, Phases
  <2>2. posts' \in 0..MaxPosts /\ loads' = loads
    BY <1>1, <1>2 DEF TypeOK, bounds
  <2> QED
    BY <1>2, <1>4, <2>1, <2>2, ErrorIInv
<1> QED
  BY <1>3, <1>4 DEF Step

LEMMA resetCoreIInv ==
  ASSUME IInv, resetCore
  PROVE  IInv'
<1>1. TypeOK /\ Delivery
  BY DEF IInv
<1>2. /\ UNCHANGED <<page, config, actionsBuffer, cycle, bounds, fresh, swallowed>>
      /\ actionsBuffer' \in Seq(Commands) /\ cycle' \in 0..RunCycles
  BY <1>1 DEF resetCore, TypeOK
<1>3. CASE startSimulation /\ phase' = "main"
  <2> DEFINE m == Message("INITIAL-STATE", run + 1, 0)
  <2>1. /\ Offer(m) /\ run' = run + 1 /\ failed' = FALSE /\ count' = 0
    BY <1>3 DEF startSimulation
  <2>2. /\ m \in Messages' /\ run' \in Nat /\ run <= run' /\ count' \in 0..Len(Program)
        /\ run' >= 1
    BY <1>1, <2>1, Numbers DEF Message, Messages
  <2> HIDE DEF m
  <2>3. failed' \in BOOLEAN /\ phase' \in Phases
    BY <1>3, <2>1 DEF Phases
  <2>4. TypeOK'
    BY <1>1, <1>2, <2>1, <2>2, <2>3, PublishedTypes
  <2>5. LoopInv'
    BY <1>3, <2>2 DEF LoopInv
  <2>6. Delivery'
    BY <1>1, <1>2, <1>3, StartIsPublished
  <2> QED
    BY <2>4, <2>5, <2>6 DEF IInv
<1>4. CASE setError /\ UNCHANGED <<run, count>> /\ phase' \in {"wait", "config"}
  <2>1. LoopInv' /\ phase' \in Phases
    BY <1>4 DEF LoopInv, Phases
  <2>2. posts' \in 0..MaxPosts /\ loads' = loads
    BY <1>1, <1>2 DEF TypeOK, bounds
  <2> QED
    BY <1>2, <1>4, <2>1, <2>2, ErrorIInv
<1> QED
  BY <1>3, <1>4 DEF resetCore

LEMMA TesterIInv ==
  ASSUME IInv, Tester
  PROVE  IInv'
<1>1. /\ TypeOK /\ LoopInv
      /\ config \in BOOLEAN /\ actionsBuffer \in Seq(Commands) /\ cycle \in 0..RunCycles
      /\ posts \in 0..MaxPosts /\ loads \in 1..MaxLoads
      /\ fresh \in BOOLEAN /\ swallowed \in BOOLEAN /\ phase \in Phases
  BY DEF IInv, TypeOK
<1>2. CASE getConfig
  <2>1. /\ UNCHANGED <<page, config, actionsBuffer, run, count, cycle, connected, socket,
                       fetched, posts, loads, torn, failed, swallowed>>
        /\ phase' = "reset" /\ fresh' = FALSE
    BY <1>2 DEF getConfig, server, channel, bounds
  <2>2. LoopInv' /\ phase' \in Phases
    BY <2>1 DEF LoopInv, Phases
  <2>3. fresh' \in BOOLEAN /\ swallowed' \in BOOLEAN /\ config' \in BOOLEAN
    BY <1>1, <2>1
  <2> QED
    BY <1>1, <2>1, <2>2, <2>3, QuietIInv
<1>3. CASE resetCore
  BY <1>3, resetCoreIInv
<1>4. CASE AwaitInitialize
  <2>1. /\ UNCHANGED <<page, config, run, count, cycle, connected, socket,
                       fetched, posts, loads, torn, failed, fresh, swallowed>>
        /\ actionsBuffer # <<>> /\ actionsBuffer' = Tail(actionsBuffer)
        /\ phase' \in {"config", "wait"}
    BY <1>4 DEF AwaitInitialize, Dequeue, channel, bounds, history
  <2>2. LoopInv' /\ phase' \in Phases
    BY <2>1 DEF LoopInv, Phases
  <2>3. actionsBuffer' \in Seq(Commands)
    BY <1>1, <2>1, DequeueType
  <2>4. fresh' \in BOOLEAN /\ swallowed' \in BOOLEAN /\ config' \in BOOLEAN
    BY <1>1, <2>1
  <2> QED
    BY <1>1, <2>1, <2>2, <2>3, <2>4, QuietIInv
<1>5. CASE StepAction
  <2>1. /\ phase = "main" /\ Step("main") /\ actionsBuffer # <<>>
        /\ actionsBuffer' = Tail(actionsBuffer) /\ cycle' = cycle
    BY <1>5 DEF StepAction, NextAction, Dequeue
  <2>2. actionsBuffer' \in Seq(Commands) /\ cycle' \in 0..RunCycles
    BY <1>1, <2>1, DequeueType
  <2>3. "main" \in Phases
    BY DEF Phases
  <2> QED
    BY <2>1, <2>2, <2>3, StepIInv
<1>6. CASE StartAction
  <2>1. /\ UNCHANGED <<page, config, run, count, connected, socket,
                       fetched, posts, loads, torn, failed, fresh, swallowed>>
        /\ phase = "main" /\ actionsBuffer # <<>> /\ ~NextAction("STEP")
        /\ actionsBuffer' = Tail(actionsBuffer) /\ cycle' = 0
        /\ phase' = CASE NextAction("RESTART")    -> "restart"
                      [] NextAction("RUN")        -> "run"
                      [] NextAction("INITIALIZE") -> "config"
    BY <1>6 DEF StartAction, Dequeue, channel, bounds, history
  <2>2. actionsBuffer' \in Seq(Commands) /\ Head(actionsBuffer) \in Commands
    BY <1>1, <2>1, DequeueType
  <2>3. phase' \in {"restart", "run", "config"}
    BY <2>1, <2>2 DEF NextAction, Commands
  <2>4. cycle' \in 0..RunCycles /\ 0 < RunCycles
    BY <2>1, SessionAssumption
  <2>5. run >= 1
    BY <1>1, <2>1 DEF LoopInv
  <2>6. LoopInv' /\ phase' \in Phases
    BY <2>1, <2>3, <2>4, <2>5 DEF LoopInv, Phases
  <2>7. fresh' \in BOOLEAN /\ swallowed' \in BOOLEAN /\ config' \in BOOLEAN
    BY <1>1, <2>1
  <2> QED
    BY <1>1, <2>1, <2>2, <2>4, <2>6, <2>7, QuietIInv
<1>7. CASE RunStep
  <2>1. /\ phase = "run" /\ cycle' = cycle + 1 /\ actionsBuffer' = actionsBuffer
        /\ Step(IF cycle' % Poll = 0 THEN "poll" ELSE AfterCycle(cycle'))
    BY <1>7 DEF RunStep
  <2>2. cycle < RunCycles
    BY <1>1, <2>1 DEF LoopInv
  <2>3. cycle' \in 0..RunCycles
    BY <1>1, <2>1, <2>2, SessionAssumption
  <2>4. PICK next \in {"poll", "run", "main"} :
          Step(next) /\ (next = "run" => cycle' < RunCycles)
    BY <2>1 DEF AfterCycle
  <2>5. next \in Phases
    BY DEF Phases
  <2> QED
    BY <1>1, <2>1, <2>3, <2>4, <2>5, StepIInv
<1>8. CASE RunPoll
  <2>1. /\ UNCHANGED <<page, config, run, count, cycle, connected, socket,
                       fetched, posts, loads, torn, failed, fresh>>
        /\ phase = "poll"
        /\ \/ /\ phase' = AfterCycle(cycle)
              /\ UNCHANGED <<actionsBuffer, swallowed>>
           \/ /\ actionsBuffer # <<>> /\ actionsBuffer' = Tail(actionsBuffer)
              /\ phase' = "main"
              /\ swallowed' = (swallowed \/ NextAction("INITIALIZE"))
    BY <1>8 DEF RunPoll, Dequeue, channel, bounds
  <2>2. run >= 1
    BY <1>1, <2>1 DEF LoopInv
  <2>3. phase' \in {"run", "main"} /\ (phase' = "run" => cycle < RunCycles)
    BY <2>1 DEF AfterCycle
  <2>4. LoopInv' /\ phase' \in Phases
    BY <2>1, <2>2, <2>3 DEF LoopInv, Phases
  <2>5. actionsBuffer' \in Seq(Commands)
    BY <1>1, <2>1, DequeueType
  <2>6. swallowed' \in BOOLEAN
    BY <1>1, <2>1
  <2>7. fresh' \in BOOLEAN /\ config' \in BOOLEAN
    BY <1>1, <2>1
  <2> QED
    BY <1>1, <2>1, <2>4, <2>5, <2>6, <2>7, QuietIInv
<1> QED
  BY <1>2, <1>3, <1>4, <1>5, <1>6, <1>7, <1>8 DEF Tester

LEMMA WaysIInv ==
  ASSUME IInv, Connect \/ getState \/ fetchCurrentState \/ onmessage
  PROVE  IInv'
<1>1. /\ TypeOK /\ LoopInv /\ Delivery /\ PageType
      /\ config \in BOOLEAN /\ actionsBuffer \in Seq(Commands) /\ cycle \in 0..RunCycles
      /\ posts \in 0..MaxPosts /\ loads \in 1..MaxLoads
      /\ fresh \in BOOLEAN /\ swallowed \in BOOLEAN /\ failed \in BOOLEAN
      /\ connected \in BOOLEAN /\ phase \in Phases
      /\ run \in Nat /\ count \in 0..Len(Program) /\ torn \in 0..run
      /\ socket \in Seq(Messages) /\ Len(socket) <= Capacity
      /\ fetched.status \in {"asked", "answered", "done"}
      /\ state # Null => state.run \in 1..run
  BY DEF IInv, TypeOK
<1>2. UNCHANGED <<config, actionsBuffer, run, count, phase, cycle, posts, loads,
                  failed, fresh, swallowed>>
  BY DEF Connect, getState, fetchCurrentState, onmessage, server, tester, bounds, history
<1>3. Messages' = Messages /\ LoopInv'
  BY <1>1, <1>2 DEF Messages, LoopInv
<1>4. SUFFICES /\ Delivery' /\ PageType' /\ (state' # Null => state'.run \in 1..run)
               /\ connected' \in BOOLEAN /\ torn' \in 0..run
               /\ socket' \in Seq(Messages) /\ Len(socket') <= Capacity
               /\ fetched'.status \in {"asked", "answered", "done"}
  BY <1>1, <1>2, <1>3 DEF IInv, TypeOK
<1>5. CASE Connect
  <2>1. /\ connected' = TRUE /\ UNCHANGED <<page, socket, fetched, torn>>
    BY <1>5 DEF Connect, history
  <2>2. PageType' /\ state' = state
    BY <1>1, <2>1, QuietPage
  <2> QED
    BY <1>1, <1>5, <2>1, <2>2, ConnectDelivers
<1>6. CASE getState
  <2>1. /\ fetched'.status = "answered" /\ UNCHANGED <<page, socket, connected, torn>>
    BY <1>6 DEF getState, history
  <2>2. PageType' /\ state' = state
    BY <1>1, <2>1, QuietPage
  <2> QED
    BY <1>1, <1>6, <2>1, <2>2, getStateDelivers
<1>7. CASE fetchCurrentState
  <2>1. fetched'.status = "done" /\ UNCHANGED <<connected, socket>>
    BY <1>7 DEF fetchCurrentState
  <2> QED
    BY <1>1, <1>7, <2>1, fetchDelivers
<1>8. CASE onmessage
  <2>1. /\ socket' \in Seq(Messages) /\ Len(socket') = Len(socket) - 1
        /\ Len(socket) \in Nat /\ Len(socket) >= 1
        /\ torn' \in Nat /\ torn' <= run /\ UNCHANGED <<connected, fetched>>
    BY <1>1, <1>8, MessageTaken DEF Delivery
  <2>2. Len(socket') <= Capacity
    BY <1>1, <2>1, SessionAssumption
  <2>3. torn' \in 0..run
    BY <1>1, <2>1
  <2>4. socket[1].type \in {"INITIAL-STATE", "STATE-UPDATE", "ERROR-MESSAGE"}
    BY <1>1, <2>1, SocketType
  <2>5. Delivery' /\ PageType' /\ (state' # Null => state'.run \in 1..run)
    BY <1>1, <1>8, <2>4, StartDelivers, UpdateDelivers, ErrorDelivers
  <2> QED
    BY <1>1, <2>1, <2>2, <2>3, <2>5
<1> QED
  BY <1>5, <1>6, <1>7, <1>8

LEMMA UserIInv ==
  ASSUME IInv, User
  PROVE  IInv'
<1>1. /\ TypeOK /\ LoopInv /\ Delivery /\ PageType
      /\ config \in BOOLEAN /\ actionsBuffer \in Seq(Commands) /\ cycle \in 0..RunCycles
      /\ posts \in 0..MaxPosts /\ loads \in 1..MaxLoads
      /\ fresh \in BOOLEAN /\ swallowed \in BOOLEAN /\ failed \in BOOLEAN
      /\ connected \in BOOLEAN /\ phase \in Phases
      /\ run \in Nat /\ count \in 0..Len(Program) /\ torn \in 0..run
      /\ socket \in Seq(Messages) /\ Len(socket) <= Capacity
      /\ fetched.status \in {"asked", "answered", "done"}
      /\ state # Null => state.run \in 1..run
  BY DEF IInv, TypeOK
<1>2. CASE Click
  <2>1. PICK a \in {"STEP", "RESTART", "RUN"} : postAction(a)
    BY <1>2 DEF Click
  <2>2. a \in Commands /\ Post(a)
    BY <2>1 DEF Commands, postAction
  <2>3. UNCHANGED <<page, config, run, count, phase, cycle, connected, socket, fetched,
                    loads, torn, failed, fresh, swallowed>>
    BY <2>1 DEF postAction, tester, channel, history
  <2>4. actionsBuffer' \in Seq(Commands) /\ posts' \in 0..MaxPosts
    BY <1>1, <2>2, PostType
  <2>5. LoopInv' /\ fresh' \in BOOLEAN /\ swallowed' \in BOOLEAN /\ config' \in BOOLEAN
    BY <1>1, <2>3 DEF LoopInv
  <2> QED
    BY <1>1, <2>3, <2>4, <2>5, QuietIInv
<1>3. CASE setConfig
  <2>1. /\ Post("INITIALIZE") /\ config' = TRUE /\ fresh' = TRUE
        /\ UNCHANGED <<page, run, count, phase, cycle, connected, socket, fetched,
                       loads, torn, failed, swallowed>>
    BY <1>3 DEF setConfig, tester, channel
  <2>2. "INITIALIZE" \in Commands
    BY DEF Commands
  <2>3. actionsBuffer' \in Seq(Commands) /\ posts' \in 0..MaxPosts
    BY <1>1, <2>1, <2>2, PostType
  <2>4. LoopInv' /\ fresh' \in BOOLEAN /\ swallowed' \in BOOLEAN /\ config' \in BOOLEAN
    BY <1>1, <2>1 DEF LoopInv
  <2> QED
    BY <1>1, <2>1, <2>3, <2>4, QuietIInv
<1>4. CASE setConfigInvalid
  <2>1. /\ posts < MaxPosts /\ posts' = posts + 1 /\ setError
        /\ UNCHANGED <<page, config, actionsBuffer, run, count, phase, cycle,
                       loads, fresh, swallowed>>
    BY <1>4 DEF setConfigInvalid, server, tester
  <2>2. posts' \in 0..MaxPosts
    BY <1>1, <2>1, SessionAssumption
  <2>3. LoopInv'
    BY <1>1, <2>1 DEF LoopInv
  <2> QED
    BY <1>1, <2>1, <2>2, <2>3, ErrorIInv
<1>5. CASE ForwardAtEnd
  <2>1. /\ GoLive /\ Post("STEP")
        /\ UNCHANGED <<config, run, count, phase, cycle, connected, socket, fetched,
                       loads, torn, failed, fresh, swallowed>>
    BY <1>5 DEF ForwardAtEnd, tester, channel, history
  <2>2. "STEP" \in Commands
    BY DEF Commands
  <2>3. actionsBuffer' \in Seq(Commands) /\ posts' \in 0..MaxPosts
    BY <1>1, <2>1, <2>2, PostType
  <2>4. PageType' /\ state' = state
    BY <1>1, <2>1, GoLiveIsFaithful
  <2>5. LoopInv' /\ Messages' = Messages
    BY <1>1, <2>1 DEF LoopInv, Messages
  <2>6. TypeOK'
    BY <1>1, <2>1, <2>3, <2>4, <2>5 DEF TypeOK
  <2>7. Delivery'
    BY <1>1, <2>1, GoLiveDelivers
  <2> QED
    BY <2>5, <2>6, <2>7 DEF IInv
<1>6. CASE BrowseUpdates
  <2>1. /\ Browse
        /\ UNCHANGED <<config, actionsBuffer, run, count, phase, cycle, connected, socket,
                       fetched, posts, loads, torn, failed, fresh, swallowed>>
    BY <1>6 DEF BrowseUpdates, server, tester, channel, bounds, history
  <2>2. PageType' /\ state' = state
    BY <1>1, <2>1, BrowseIsFaithful
  <2>3. LoopInv' /\ Messages' = Messages
    BY <1>1, <2>1 DEF LoopInv, Messages
  <2>4. TypeOK'
    BY <1>1, <2>1, <2>2, <2>3 DEF TypeOK
  <2>5. Delivery'
    BY <1>1, <2>1, BrowseDelivers
  <2> QED
    BY <2>3, <2>4, <2>5 DEF IInv
<1>7. CASE Reload
  <2>1. /\ loads < MaxLoads /\ loads' = loads + 1
        /\ state' = Null /\ current_state' = Machine(0) /\ current_state_index' = 0
        /\ is_live' = TRUE /\ rewound' = FALSE
        /\ connected' = FALSE /\ socket' = <<>> /\ fetched' = [status |-> "asked"]
        /\ torn' = 0
        /\ UNCHANGED <<config, actionsBuffer, run, count, phase, cycle, posts,
                       failed, fresh, swallowed>>
    BY <1>7 DEF Reload, server, tester
  <2>2. PageType'
    <3>1. 0 \in 0..Len(Program)
      BY ProgramLength
    <3>2. DOMAIN Machine(0) = Cells /\ \A x \in Cells : Machine(0)[x] \in CellValues(x)
      BY <3>1, MachineType
    <3> QED
      BY <2>1, <3>2 DEF PageType
  <2>3. loads' \in 1..MaxLoads /\ torn' \in 0..run' /\ fetched'.status = "asked"
        /\ socket' \in Seq(Messages') /\ Len(socket') <= Capacity
    BY <1>1, <2>1, SessionAssumption
  <2>4. LoopInv'
    BY <1>1, <2>1 DEF LoopInv
  <2>5. TypeOK'
    BY <1>1, <2>1, <2>2, <2>3 DEF TypeOK
  <2>6. Delivery'
    BY <1>1, <1>7, ReloadDelivers
  <2> QED
    BY <2>4, <2>5, <2>6 DEF IInv
<1> QED
  BY <1>2, <1>3, <1>4, <1>5, <1>6, <1>7 DEF User

LEMMA StutterIInv ==
  ASSUME IInv, UNCHANGED vars
  PROVE  IInv'
<1>1. UNCHANGED <<page, config, actionsBuffer, run, count, phase, cycle, connected, socket,
                  fetched, posts, loads, torn, failed, fresh, swallowed>>
  BY DEF vars, server, tester, channel, bounds, history
<1>2. /\ LoopInv' /\ config' \in BOOLEAN /\ actionsBuffer' \in Seq(Commands)
      /\ phase' \in Phases /\ cycle' \in 0..RunCycles
      /\ posts' \in 0..MaxPosts /\ loads' \in 1..MaxLoads
      /\ fresh' \in BOOLEAN /\ swallowed' \in BOOLEAN
  BY <1>1 DEF IInv, LoopInv, TypeOK
<1> QED
  BY <1>1, <1>2, QuietIInv

LEMMA NextIInv == IInv /\ [Next]_vars => IInv'
<1> SUFFICES ASSUME IInv, [Next]_vars PROVE IInv'
  OBVIOUS
<1>1. CASE Tester
  BY <1>1, TesterIInv
<1>2. CASE Connect \/ getState \/ fetchCurrentState \/ onmessage
  BY <1>2, WaysIInv
<1>3. CASE User
  BY <1>3, UserIInv
<1>4. CASE UNCHANGED vars
  BY <1>4, StutterIInv
<1> QED
  BY <1>1, <1>2, <1>3, <1>4 DEF Next

(* Every state of a session has the inductive invariant.                   *)
THEOREM Invariant == Spec => []IInv
<1>1. Init => IInv
  BY InitIInv
<1>2. IInv /\ [Next]_vars => IInv'
  BY NextIInv
<1> QED
  BY <1>1, <1>2, PTL DEF Spec

-----------------------------------------------------------------------------
(* What follows for the page.                                              *)

LEMMA InStepWithAnswer ==
  ASSUME IInv
  PROVE  UpToDate
<1> SUFFICES ASSUME connected, fetched.status = "done", socket = <<>>, run > torn
             PROVE  InStep \/ (failed /\ state = Null)
  BY DEF UpToDate, Settled
<1>1. /\ TypeOK /\ PageInv /\ run \in 1..run /\ run \in Nat
  BY Numbers DEF IInv, Delivery
<1>2. ~StartComes(run)
  BY DEF StartComes
<1>3. CASE state = Null
  BY <1>1, <1>2, <1>3 DEF PageInv
<1>4. CASE state # Null
  <2>1. state.run >= run
    BY <1>1, <1>2, <1>4 DEF PageInv
  <2>2. state.run = run
    BY <1>1, <1>4, <2>1 DEF TypeOK
  <2>3. Intact
    BY <1>2, <1>4, <2>2 DEF Intact
  <2>4. NoError(1, Len(socket)) /\ Len(socket) = 0
    BY DEF NoError
  <2>5. Len(state.updates) + 0 = count /\ Len(state.updates) \in Nat
    BY <1>1, <1>4, <2>2, <2>3, <2>4 DEF PageInv, TypeOK, PageType
  <2> QED
    BY <1>4, <2>2, <2>5 DEF InStep
<1> QED
  BY <1>3, <1>4

(* The types of all variables: whatever is lost, comes twice or out of     *)
(* turn, the page's list has updates of the program, what it shows is      *)
(* written by its instructions, and no socket holds more than it can.      *)
THEOREM TypeCorrect == Spec => []TypeOK
<1>1. IInv => TypeOK
  BY DEF IInv
<1> QED
  BY <1>1, Invariant, PTL

(* Of a run of which it missed nothing the page has the updates in order,  *)
(* looks at one of its states, and shows its register, however the user    *)
(* went back and forth while updates came in: for every program, socket    *)
(* and length of a RUN.                                                    *)
THEOREM ViewIsFaithful == Spec => []ViewFaithful
<1>1. IInv => ViewFaithful
  BY DEF IInv, Delivery
<1> QED
  BY <1>1, Invariant, PTL

(* Unless the user's last step went back, the clock and the terminal are   *)
(* those of the state as well.                                             *)
THEOREM ViewIsExact == Spec => []ViewExact
<1>1. IInv => ViewExact
  BY DEF IInv, Delivery
<1> QED
  BY <1>1, Invariant, PTL

(* A page that has its answer and nothing more to read has the simulation  *)
(* as it is, unless it missed something: no update falls between the       *)
(* socket and the answer, whichever of them comes first.                   *)
THEOREM PageIsUpToDate == Spec => []UpToDate
<1>1. IInv => UpToDate
  BY InStepWithAnswer
<1> QED
  BY <1>1, Invariant, PTL

=============================================================================
