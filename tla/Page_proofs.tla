---------------------------- MODULE Page_proofs ----------------------------
(***************************************************************************)
(* Proofs about the page, for any programs, any size of the memory and any *)
(* number of keys, starts and clicks.  Tabs, window and keyboard have an   *)
(* invariant each; a step of the page is a step of each of them.           *)
(***************************************************************************)
EXTENDS Page, FiniteSetTheorems, TLAPS

TabsNext ==
  \/ \E name \in Names : drawSourceCode(name) \/ setActiveSourceCodeTab(name)
  \/ \E p \in Programs : show(p) \/ transitionend(p)

WindowNext ==
  \/ stepMemBack \/ stepMemForward \/ newMemory
  \/ \E b \in Bases : storeBase(b)
  \/ \E a \in Stores, v \in Values : updateMemoryValue(a, v)

KeyboardNext ==
  \/ toggleKeyboard \/ keydown \/ queryKeyboard \/ forgetKey \/ disableKeyboard
  \/ \E c \in requests : setKeyReads(c)
  \/ \E k \in handling : setKeyWrites(k)

(* Every step of the page is a step of each part, or leaves it alone.      *)
LEMMA TabsStep ==
  ASSUME [Next]_vars
  PROVE  [TabsNext]_tabs
BY DEF Next, vars, Server, Message, User, startSimulation, resetKey, Elsewhere,
       SetKeyReads, SetKeyWrites, QueryKeyboard, InitialState, Update, processError,
       ClickTab, TransitionEnd, MoveWindow, Keydown, ToggleKeyboard, TabsNext

LEMMA WindowStep ==
  ASSUME [Next]_vars
  PROVE  [WindowNext]_window
BY DEF Next, vars, Server, Message, User, startSimulation, resetKey, Elsewhere,
       SetKeyReads, SetKeyWrites, QueryKeyboard, InitialState, Update, processError,
       ClickTab, TransitionEnd, MoveWindow, Keydown, ToggleKeyboard, WindowNext

LEMMA KeyboardStep ==
  ASSUME [Next]_vars
  PROVE  [KeyboardNext]_keyboard
BY DEF Next, vars, Server, Message, User, startSimulation, resetKey, Elsewhere,
       SetKeyReads, SetKeyWrites, QueryKeyboard, InitialState, Update, processError,
       ClickTab, TransitionEnd, MoveWindow, Keydown, ToggleKeyboard, KeyboardNext

-----------------------------------------------------------------------------
(* Tabs.                                                                   *)

TabsType ==
  /\ pc \in Names /\ previous_active_tab \in Names \cup {""}
  /\ active \subseteq Programs /\ icon \subseteq Programs
  /\ paneActive \subseteq Programs /\ paneShow \subseteq Programs
  /\ callbacks \in [Programs -> Seq({"show", "hide"})]
  /\ met \in BOOLEAN

(* What the pane of p will be once its callbacks have run.                 *)
WillShow(p) == IF callbacks[p] = <<>> THEN p \in paneShow ELSE LastCallback(p) = "show"

TabsAgree ==
  /\ paneActive = active
  /\ \A p, q \in active : p = q
  /\ \A p \in Programs : WillShow(p) <=> p \in active

TabsInv == TabsType /\ (~met => TabsAgree)

LEMMA AppendLast ==
  ASSUME NEW s \in Seq({"show", "hide"}), NEW x \in {"show", "hide"}
  PROVE  /\ Append(s, x) \in Seq({"show", "hide"})
         /\ Append(s, x) # <<>>
         /\ Append(s, x)[Len(Append(s, x))] = x
OBVIOUS

LEMMA NoneType == /\ None \in [Programs -> Seq({"show", "hide"})]
                  /\ \A p \in Programs : None[p] = <<>>
<1>1. <<>> \in Seq({"show", "hide"})
  OBVIOUS
<1> QED BY <1>1, Zenon DEF None

LEMMA TabsInvInit == TabsInit => TabsInv
<1> SUFFICES ASSUME TabsInit  PROVE TabsInv
  OBVIOUS
<1>1. TabsType
  BY NoneType DEF TabsInit, TabsType, Names
<1>2. TabsAgree
  BY NoneType DEF TabsInit, TabsAgree, WillShow
<1> QED BY <1>1, <1>2 DEF TabsInv

LEMMA TabsTypeKept ==
  ASSUME TabsType, TabsNext
  PROVE  TabsType'
<1>1. ASSUME NEW name \in Names, drawSourceCode(name)  PROVE TabsType'
  <2>1. Selected(name) \subseteq Programs
    BY DEF Selected
  <2> QED BY <1>1, <2>1, NoneType DEF drawSourceCode, Names, TabsType
<1>2. ASSUME NEW name \in Names, setActiveSourceCodeTab(name)  PROVE TabsType'
  <2>1. CASE SameTab(name)
    BY <1>2, <2>1 DEF setActiveSourceCodeTab, TabsType, Names
  <2>2. CASE ~SameTab(name)
    <3>1. name \in Programs
      BY <2>2 DEF SameTab, Names
    <3>2. (met \/ Pending) \in BOOLEAN
      BY Zenon DEF TabsType, Pending
    <3>3. met' \in BOOLEAN
      BY <1>2, <2>2, <3>2, Zenon DEF setActiveSourceCodeTab
    <3>4. /\ pc' = name /\ previous_active_tab' = name /\ active' = {name} /\ icon' = {name}
          /\ callbacks' = callbacks
          /\ paneActive' \in {paneActive, {name}} /\ paneShow' \in {paneShow, {name}}
      BY <1>2, <2>2 DEF setActiveSourceCodeTab
    <3> QED BY <3>1, <3>3, <3>4 DEF TabsType
  <2> QED BY <2>1, <2>2
<1>3. ASSUME NEW p \in Programs, show(p)  PROVE TabsType'
  <2>1. \A q \in Programs : /\ Append(callbacks[q], "show") \in Seq({"show", "hide"})
                            /\ Append(callbacks[q], "hide") \in Seq({"show", "hide"})
    BY AppendLast DEF TabsType
  <2>2. QueueCallbacks(p) \in [Programs -> Seq({"show", "hide"})]
    BY <2>1 DEF QueueCallbacks, TabsType
  <2> QED BY <1>3, <2>2 DEF show, TabsType, Names
<1>4. ASSUME NEW p \in Programs, transitionend(p)  PROVE TabsType'
  <2>1. callbacks' \in [Programs -> Seq({"show", "hide"})]
    <3>1. <<>> \in Seq({"show", "hide"})
      OBVIOUS
    <3>2. callbacks' = [callbacks EXCEPT ![p] = <<>>]
      BY <1>4 DEF transitionend
    <3> QED BY <3>1, <3>2, Zenon DEF TabsType
  <2>2. paneShow' \subseteq Programs
    BY <1>4 DEF transitionend, TabsType
  <2> QED BY <1>4, <2>1, <2>2 DEF transitionend, TabsType, Names
<1> QED BY <1>1, <1>2, <1>3, <1>4 DEF TabsNext

LEMMA TabsAgreeKept ==
  ASSUME TabsInv, TabsNext, ~met'
  PROVE  TabsAgree'
<1> USE DEF TabsInv, TabsType
<1>1. ASSUME NEW name \in Names, drawSourceCode(name)  PROVE TabsAgree'
  <2>1. /\ active' = Selected(name) /\ paneActive' = Selected(name)
        /\ paneShow' = Selected(name) /\ callbacks' = None
    BY <1>1 DEF drawSourceCode
  <2> QED BY <2>1, NoneType DEF Selected, TabsAgree, WillShow
<1>2. ASSUME NEW name \in Names, setActiveSourceCodeTab(name)  PROVE TabsAgree'
  <2>1. CASE SameTab(name)
    BY <1>2, <2>1 DEF setActiveSourceCodeTab, TabsAgree, WillShow, LastCallback
  <2>2. CASE ~SameTab(name)
    <3>1. name \in Programs /\ name \notin active
      BY <2>2 DEF SameTab, Names
    <3>2. TabsAgree /\ ~Pending
      BY <1>2, <2>2, Zenon DEF setActiveSourceCodeTab
    <3>3. \A p \in Programs : callbacks[p] = <<>>
      BY <3>2 DEF Pending, None
    <3>4. name \notin paneShow
      BY <3>1, <3>2, <3>3 DEF TabsAgree, WillShow
    <3>5. /\ active' = {name} /\ paneActive' = {name} /\ paneShow' = {name}
          /\ callbacks' = callbacks
      BY <1>2, <2>2, <3>4 DEF setActiveSourceCodeTab
    <3> QED BY <3>3, <3>5 DEF TabsAgree, WillShow
  <2> QED BY <2>1, <2>2
<1>3. ASSUME NEW p \in Programs, show(p)  PROVE TabsAgree'
  <2>1. TabsAgree
    BY <1>3 DEF show
  <2>2. p \notin active /\ active' = {p} /\ paneActive' = {p} /\ paneShow' = paneShow
    BY <1>3, <2>1 DEF show, TabsAgree
  <2>3. ASSUME NEW q \in Programs  PROVE (WillShow(q) <=> q \in active)'
    <3>1. callbacks'[q] = IF q = p THEN Append(callbacks[q], "show")
                          ELSE IF q \in active THEN Append(callbacks[q], "hide")
                          ELSE callbacks[q]
      BY <1>3 DEF show, QueueCallbacks
    <3> DEFINE old == callbacks[q]
    <3>5. old \in Seq({"show", "hide"})
      OBVIOUS
    <3>2. CASE q = p
      <4>1. Append(old, "show") # <<>> /\ Append(old, "show")[Len(Append(old, "show"))] = "show"
        BY <3>5, AppendLast
      <4>2. callbacks'[q] = Append(old, "show")
        BY <3>1, <3>2
      <4>3. q \in active'
        BY <2>2, <3>2
      <4>4. WillShow(q)'
        <5> HIDE DEF old
        <5> QED BY <4>1, <4>2 DEF WillShow, LastCallback
      <4> QED BY <4>3, <4>4
    <3>3. CASE q # p /\ q \in active
      <4>1. Append(old, "hide") # <<>> /\ Append(old, "hide")[Len(Append(old, "hide"))] = "hide"
        BY <3>5, AppendLast
      <4>2. callbacks'[q] = Append(old, "hide")
        BY <3>1, <3>3
      <4>3. q \notin active'
        BY <2>2, <3>3
      <4>4. ~WillShow(q)'
        <5> HIDE DEF old
        <5> QED BY <4>1, <4>2 DEF WillShow, LastCallback
      <4> QED BY <4>3, <4>4
    <3>4. CASE q # p /\ q \notin active
      BY <2>1, <2>2, <3>1, <3>4 DEF WillShow, LastCallback, TabsAgree
    <3> QED BY <3>2, <3>3, <3>4
  <2> QED BY <2>2, <2>3 DEF TabsAgree
<1>4. ASSUME NEW p \in Programs, transitionend(p)  PROVE TabsAgree'
  <2>1. TabsAgree
    BY <1>4 DEF transitionend
  <2>2. active' = active /\ paneActive' = paneActive
    BY <1>4 DEF transitionend
  <2>3. ASSUME NEW q \in Programs  PROVE (WillShow(q) <=> q \in active)'
    BY <1>4, <2>1, <2>2 DEF transitionend, TabsAgree, WillShow, LastCallback
  <2> QED BY <2>1, <2>2, <2>3 DEF TabsAgree
<1> QED BY <1>1, <1>2, <1>3, <1>4 DEF TabsNext

LEMMA TabsInvKept ==
  ASSUME TabsInv, [TabsNext]_tabs
  PROVE  TabsInv'
<1>1. CASE TabsNext
  <2>1. TabsType'
    BY <1>1, TabsTypeKept DEF TabsInv
  <2>2. ~met' => TabsAgree'
    BY <1>1, TabsAgreeKept
  <2> QED BY <2>1, <2>2 DEF TabsInv
<1>2. CASE UNCHANGED tabs
  BY <1>2 DEF tabs, TabsInv, TabsType, TabsAgree, WillShow, LastCallback
<1> QED BY <1>1, <1>2

LEMMA TabsInvEnough == TabsInv => TabAndPaneAgree
<1> SUFFICES ASSUME TabsInv, ~met  PROVE TabAndPaneAgree
  BY DEF TabAndPaneAgree
<1>1. TabsAgree
  BY DEF TabsInv
<1>2. ASSUME ~Pending  PROVE paneShow = paneActive
  <2>1. \A p \in Programs : callbacks[p] = <<>>
    BY <1>2 DEF Pending, None
  <2>2. \A p \in Programs : p \in paneShow <=> p \in active
    BY <1>1, <2>1 DEF TabsAgree, WillShow
  <2> QED BY <1>1, <2>2 DEF TabsInv, TabsType, TabsAgree
<1> QED BY <1>1, <1>2 DEF TabAndPaneAgree, TabsAgree
-----------------------------------------------------------------------------
(* Keyboard.                                                               *)

KeyboardType ==
  /\ keyboard_enabled \in BOOLEAN /\ raced \in BOOLEAN
  /\ typed \in 0..MaxKeys /\ requests \subseteq 1..typed /\ taken \subseteq 1..typed
  /\ key \in [index : Nat, char : 0..typed] /\ (key.char = 0 => key.index = 0)
  /\ handling \subseteq [index : Nat \ {0}, char : 1..typed]
  /\ next_key \in Nat /\ keyboard_data \in 0..typed

(* A character is in one place: on its way, handled, or with the           *)
(* controller, who offers it once.                                         *)
OnePlace ==
  /\ \A k \in handling : k.char \notin requests /\ k.char # key.char
  /\ \A k, l \in handling : k.char = l.char => k = l
  /\ key.char \notin requests
  /\ \A c \in taken : c \notin requests /\ \A k \in handling : k.char # c
  /\ IsNew => key.char \notin taken

(* As long as no two requests overlapped, the numbers go up by one.        *)
InTurn ==
  /\ next_key <= key.index
  /\ \A k, l \in handling : k = l
  /\ \A k \in handling : k.index = key.index + 1
  /\ key.char # 0 => IsNew \/ key.char \in taken

KeyboardInv == KeyboardType /\ OnePlace /\ (~raced => InTurn)

LEMMA KeyboardInvInit == KeyboardInit => KeyboardInv
<1> SUFFICES ASSUME KeyboardInit  PROVE KeyboardInv
  OBVIOUS
<1>1. KeyboardType
  <2>1. keyboard_enabled \in BOOLEAN /\ raced \in BOOLEAN
    BY Zenon DEF KeyboardInit
  <2> QED BY <2>1, KeyboardAssumption DEF KeyboardInit, KeyboardType
<1>2. OnePlace
  BY DEF KeyboardInit, OnePlace, IsNew
<1>3. InTurn
  BY DEF KeyboardInit, InTurn, IsNew
<1> QED BY <1>1, <1>2, <1>3 DEF KeyboardInv

LEMMA KeyboardTypeKept ==
  ASSUME KeyboardType, KeyboardNext
  PROVE  KeyboardType'
<1> USE DEF KeyboardType
<1>1. CASE toggleKeyboard
  <2>1. keyboard_enabled' \in BOOLEAN
    BY <1>1, Zenon DEF toggleKeyboard
  <2> QED BY <1>1, <2>1 DEF toggleKeyboard
<1>2. CASE keydown
  <2>1. typed' = typed + 1 /\ typed' \in 0..MaxKeys
    BY <1>2, KeyboardAssumption DEF keydown
  <2>2. 1..typed \subseteq 1..typed' /\ 0..typed \subseteq 0..typed' /\ typed' \in 1..typed'
    BY <2>1
  <2>3. requests' = requests \cup {typed'}
    BY <1>2, <2>1 DEF keydown
  <2>4. key' \in [index : Nat, char : 0..typed'] /\ (key'.char = 0 => key'.index = 0)
    BY <1>2, <2>2 DEF keydown
  <2>5. handling' \subseteq [index : Nat \ {0}, char : 1..typed']
    BY <1>2, <2>2 DEF keydown
  <2>6. requests' \subseteq 1..typed' /\ taken' \subseteq 1..typed'
    BY <1>2, <2>2, <2>3 DEF keydown
  <2>7. keyboard_data' \in 0..typed' /\ next_key' \in Nat
    BY <1>2, <2>2 DEF keydown
  <2>8. keyboard_enabled' \in BOOLEAN /\ raced' \in BOOLEAN
    BY <1>2, Zenon DEF keydown
  <2> QED BY <2>1, <2>4, <2>5, <2>6, <2>7, <2>8
<1>3. CASE queryKeyboard
  <2>1. IsNew => key.char \in 1..typed
    BY DEF IsNew
  <2> QED BY <1>3, <2>1 DEF queryKeyboard
<1>4. CASE forgetKey
  <2>1. raced' \in BOOLEAN
    BY <1>4, Zenon DEF forgetKey
  <2> QED BY <1>4, <2>1 DEF forgetKey, NoKey
<1>5. CASE disableKeyboard
  BY <1>5 DEF disableKeyboard
<1>6. ASSUME NEW c \in requests, setKeyReads(c)  PROVE KeyboardType'
  <2>1. raced' \in BOOLEAN
    BY <1>6, Zenon DEF setKeyReads
  <2>2. [index |-> key.index + 1, char |-> c] \in [index : Nat \ {0}, char : 1..typed]
    OBVIOUS
  <2> QED BY <1>6, <2>1, <2>2 DEF setKeyReads
<1>7. ASSUME NEW k \in handling, setKeyWrites(k)  PROVE KeyboardType'
  BY <1>7 DEF setKeyWrites
<1> QED BY <1>1, <1>2, <1>3, <1>4, <1>5, <1>6, <1>7 DEF KeyboardNext

LEMMA OnePlaceKept ==
  ASSUME KeyboardType, OnePlace, KeyboardNext
  PROVE  OnePlace'
<1> USE DEF KeyboardType, OnePlace, IsNew
<1>1. CASE toggleKeyboard
  BY <1>1 DEF toggleKeyboard
<1>2. CASE keydown
  BY <1>2 DEF keydown
<1>3. CASE queryKeyboard
  BY <1>3 DEF queryKeyboard
<1>4. CASE forgetKey
  BY <1>4 DEF forgetKey, NoKey
<1>5. CASE disableKeyboard
  BY <1>5 DEF disableKeyboard
<1>6. ASSUME NEW c \in requests, setKeyReads(c)  PROVE OnePlace'
  BY <1>6 DEF setKeyReads
<1>7. ASSUME NEW k \in handling, setKeyWrites(k)  PROVE OnePlace'
  BY <1>7 DEF setKeyWrites
<1> QED BY <1>1, <1>2, <1>3, <1>4, <1>5, <1>6, <1>7 DEF KeyboardNext

LEMMA InTurnKept ==
  ASSUME KeyboardInv, KeyboardNext, ~raced'
  PROVE  InTurn'
<1> USE DEF KeyboardInv, KeyboardType, InTurn, IsNew
<1>1. CASE toggleKeyboard
  BY <1>1 DEF toggleKeyboard
<1>2. CASE keydown
  BY <1>2 DEF keydown
<1>3. CASE queryKeyboard
  BY <1>3 DEF queryKeyboard
<1>4. CASE forgetKey
  <2>1. handling = {}
    BY <1>4, Zenon DEF forgetKey
  <2> QED BY <1>4, <2>1 DEF forgetKey, NoKey
<1>5. CASE disableKeyboard
  BY <1>5 DEF disableKeyboard
<1>6. ASSUME NEW c \in requests, setKeyReads(c)  PROVE InTurn'
  <2>1. handling = {} /\ ~raced
    BY <1>6, Zenon DEF setKeyReads
  <2> QED BY <1>6, <2>1 DEF setKeyReads
<1>7. ASSUME NEW k \in handling, setKeyWrites(k)  PROVE InTurn'
  <2>1. InTurn
    BY <1>7 DEF setKeyWrites
  <2> QED BY <1>7, <2>1 DEF setKeyWrites
<1> QED BY <1>1, <1>2, <1>3, <1>4, <1>5, <1>6, <1>7 DEF KeyboardNext

LEMMA KeyboardInvKept ==
  ASSUME KeyboardInv, [KeyboardNext]_keyboard
  PROVE  KeyboardInv'
<1>1. CASE KeyboardNext
  <2>1. KeyboardType' /\ OnePlace'
    BY <1>1, KeyboardTypeKept, OnePlaceKept DEF KeyboardInv
  <2>2. ~raced' => InTurn'
    BY <1>1, InTurnKept
  <2> QED BY <2>1, <2>2 DEF KeyboardInv
<1>2. CASE UNCHANGED keyboard
  BY <1>2 DEF keyboard, KeyboardInv, KeyboardType, OnePlace, InTurn, IsNew
<1> QED BY <1>1, <1>2

LEMMA KeyboardInvEnough == KeyboardInv => KeyTakenOnce /\ KeyNotHidden
BY DEF KeyboardInv, OnePlace, InTurn, KeyTakenOnce, KeyNotHidden
(* No number is higher than that of the requests that arrived.             *)
Arrived == typed - Cardinality(requests)

NumbersBound ==
  /\ IsFiniteSet(requests)
  /\ Arrived \in Nat
  /\ key.index <= Arrived /\ next_key <= Arrived
  /\ \A k \in handling : k.index <= Arrived

LEMMA NumbersBoundInit == KeyboardInit => NumbersBound
BY FS_EmptySet DEF KeyboardInit, NumbersBound, Arrived

LEMMA NumbersBoundKept ==
  ASSUME KeyboardType, NumbersBound, [KeyboardNext]_keyboard
  PROVE  NumbersBound'
<1>0. typed \in Nat /\ Cardinality(requests) \in Nat /\ key.index \in Nat
  BY FS_CardinalityType DEF KeyboardType, NumbersBound
<1>1. ASSUME keydown  PROVE NumbersBound'
  <2>1. typed + 1 \notin requests
    BY <1>0 DEF KeyboardType
  <2>2. /\ typed' = typed + 1 /\ requests' = requests \cup {typed + 1}
        /\ UNCHANGED <<key, next_key, handling>>
    BY <1>1 DEF keydown
  <2>3. IsFiniteSet(requests') /\ Cardinality(requests') = Cardinality(requests) + 1
    BY <2>1, <2>2, FS_AddElement DEF NumbersBound
  <2>4. Arrived' = Arrived
    BY <1>0, <2>2, <2>3 DEF Arrived
  <2> QED BY <2>2, <2>3, <2>4 DEF NumbersBound
<1>2. ASSUME NEW c \in requests, setKeyReads(c)  PROVE NumbersBound'
  <2>1. /\ requests' = requests \ {c} /\ UNCHANGED <<typed, key, next_key>>
        /\ handling' = handling \cup {[index |-> key.index + 1, char |-> c]}
    BY <1>2 DEF setKeyReads
  <2>2. IsFiniteSet(requests') /\ Cardinality(requests') = Cardinality(requests) - 1
    BY <2>1, FS_RemoveElement DEF NumbersBound
  <2>3. Arrived' = Arrived + 1
    BY <1>0, <2>1, <2>2 DEF Arrived
  <2>4. \A k \in handling' : k.index <= Arrived'
    BY <1>0, <2>1, <2>3 DEF NumbersBound, KeyboardType
  <2> QED BY <1>0, <2>1, <2>2, <2>3, <2>4 DEF NumbersBound, KeyboardType
<1>3. ASSUME UNCHANGED <<typed, requests>>, UNCHANGED handling,
             key' = key \/ key'.index = 0, next_key' \in {next_key, key.index, 0}
      PROVE  NumbersBound'
  BY <1>0, <1>3 DEF NumbersBound, Arrived
<1>4. ASSUME NEW k \in handling, setKeyWrites(k)  PROVE NumbersBound'
  BY <1>4 DEF setKeyWrites, NumbersBound, Arrived
<1>5. CASE toggleKeyboard \/ queryKeyboard \/ forgetKey \/ disableKeyboard
  <2>1. UNCHANGED <<typed, requests>> /\ UNCHANGED handling
    BY <1>5 DEF toggleKeyboard, queryKeyboard, forgetKey, disableKeyboard
  <2>2. key' = key \/ key'.index = 0
    BY <1>5 DEF toggleKeyboard, queryKeyboard, forgetKey, disableKeyboard, NoKey
  <2>3. next_key' \in {next_key, key.index, 0}
    BY <1>5 DEF toggleKeyboard, queryKeyboard, forgetKey, disableKeyboard
  <2> QED BY <1>3, <2>1, <2>2, <2>3
<1>6. CASE UNCHANGED keyboard
  BY <1>3, <1>6 DEF keyboard
<1> QED BY <1>1, <1>2, <1>4, <1>5, <1>6 DEF KeyboardNext

-----------------------------------------------------------------------------
(* Memory window.                                                          *)

WindowType ==
  /\ memory \in [Addresses -> Values]
  /\ memory_base_address \in Nat \cup {NaN}
  /\ cells \in [Offsets -> Values]

Shows(base, m, c) == \A o \in Offsets : base + o \in Addresses => c[o] = m[base + o]

(* A base that is no multiple of the page may pass the last page, by less  *)
(* than a page.                                                            *)
BaseInside(base) ==
  /\ base \in Nat /\ base < Last + Size
  /\ base % Size = 0 => base <= Last

WindowInv ==
  /\ WindowType
  /\ memory_base_address # NaN =>
       BaseInside(memory_base_address) /\ Shows(memory_base_address, memory, cells)

LEMMA AddressesAreNat == Addresses \subseteq Nat /\ Offsets \subseteq Nat
<1>1. \A i \in Nat : Word * i \in Nat
  BY MemoryWindowAssumption
<1>2. \A x \in Int : 0..x \subseteq Nat
  OBVIOUS
<1>3. /\ (Last + Size) \div Word - 1 \in Int
      /\ Size \div Word - 1 \in Int
  BY MemoryWindowAssumption
<1> QED BY <1>1, <1>2, <1>3 DEF Addresses, Offsets

LEMMA DrawnIsRight ==
  ASSUME NEW m \in [Addresses -> Values], NEW base \in Int \cup {NaN}
  PROVE  /\ Drawn(m, base) \in [Offsets -> Values]
         /\ base # NaN => Shows(base, m, Drawn(m, base))
<1>1. \A a : WordAt(m, a) \in Values
  BY MemoryWindowAssumption DEF WordAt
<1>2. Drawn(m, base) \in [Offsets -> Values]
  BY <1>1, MemoryWindowAssumption DEF Drawn
<1>3. ASSUME base # NaN, NEW o \in Offsets, base + o \in Addresses
      PROVE  Drawn(m, base)[o] = m[base + o]
  BY <1>3 DEF Drawn, WordAt
<1> QED BY <1>2, <1>3 DEF Shows

(* Multiples of the page are a page apart at least.                        *)
LEMMA PagesApart ==
  ASSUME NEW a \in Nat, NEW b \in Nat, a % Size = 0, b % Size = 0, a < b + Size
  PROVE  a <= b
<1> DEFINE q == a \div Size
           r == b \div Size
<1>1. /\ q \in Nat /\ r \in Nat
      /\ a = Size * q /\ b = Size * r
  BY MemoryWindowAssumption
<1> HIDE DEF q, r
<1>2. q < r + 1
  <2> SUFFICES ASSUME q >= r + 1  PROVE FALSE
    BY <1>1
  <2>1. PICK d \in Nat : q = r + 1 + d
    <3>1. q - (r + 1) \in Nat /\ q = r + 1 + (q - (r + 1))
      BY <1>1
    <3> QED BY <3>1
  <2>2. Size * q = Size * r + Size + Size * d /\ Size * d >= 0 /\ Size * d \in Int
    BY <1>1, <2>1, MemoryWindowAssumption
  <2>3. Size * r \in Int /\ Size \in Nat
    BY <1>1, MemoryWindowAssumption
  <2> QED BY <1>1, <2>2, <2>3
<1>3. PICK d \in Nat : r = q + d
  <2>1. r - q \in Nat /\ r = q + (r - q)
    BY <1>1, <1>2
  <2> QED BY <2>1
<1>4. Size * r = Size * q + Size * d /\ Size * d >= 0 /\ Size * d \in Int
  BY <1>1, <1>3, MemoryWindowAssumption
<1> QED BY <1>1, <1>4

LEMMA WindowInvInit == WindowInit => WindowInv
<1> SUFFICES ASSUME WindowInit  PROVE WindowInv
  OBVIOUS
<1>1. memory \in [Addresses -> Values]
  BY MemoryWindowAssumption DEF WindowInit
<1>2. memory_base_address = 0 /\ cells = Drawn(memory, 0)
  BY DEF WindowInit
<1>3. BaseInside(0)
  BY MemoryWindowAssumption DEF BaseInside
<1> QED BY <1>1, <1>2, <1>3, DrawnIsRight DEF WindowInv, WindowType

(* A window that is drawn at a base inside of memory.                      *)
LEMMA DrawnWindow ==
  ASSUME WindowInv, NEW base, base = NaN \/ BaseInside(base), drawMemoryTab(base)
  PROVE  WindowInv'
<1>1. memory' = memory /\ memory_base_address' = base /\ cells' = Drawn(memory, base)
  BY DEF drawMemoryTab
<1>2. base \in Nat \cup {NaN} /\ memory \in [Addresses -> Values]
  BY DEF BaseInside, WindowInv, WindowType
<1> QED BY <1>1, <1>2, DrawnIsRight DEF WindowInv, WindowType

LEMMA WindowInvKept ==
  ASSUME WindowInv, [WindowNext]_window
  PROVE  WindowInv'
<1> DEFINE base == memory_base_address
<1>1. base = NaN \/ BaseInside(base)
  BY DEF WindowInv
<1>2. BaseInside(0) /\ BaseInside(Last)
  BY MemoryWindowAssumption DEF BaseInside
<1>3. CASE stepMemBack
  <2>1. ASSUME base # NaN, base > Size  PROVE BaseInside(base - Size)
    <3>1. base - Size \in Nat /\ base - Size < Last
      BY <1>1, <2>1, MemoryWindowAssumption DEF BaseInside
    <3>2. base - Size < Last + Size /\ base - Size <= Last
      BY <3>1, MemoryWindowAssumption
    <3> QED BY <3>1, <3>2 DEF BaseInside
  <2> QED BY <1>2, <1>3, <2>1, DrawnWindow DEF stepMemBack
<1>4. CASE stepMemForward
  <2>1. ASSUME CanMoveOn  PROVE BaseInside(base + Size)
    <3>1. base + Size \in Nat /\ base + Size < Last + Size
      BY <1>1, <2>1, MemoryWindowAssumption DEF BaseInside, CanMoveOn
    <3>2. (base + Size) % Size = 0 => base + Size <= Last
      BY <3>1, PagesApart, MemoryWindowAssumption
    <3> QED BY <3>1, <3>2 DEF BaseInside
  <2> QED BY <1>2, <1>4, <2>1, DrawnWindow DEF stepMemForward
<1>5. ASSUME NEW b \in Bases, storeBase(b)  PROVE WindowInv'
  <2>1. Clamped(b) = NaN \/ BaseInside(Clamped(b))
    <3>1. b = NaN \/ b \in Int
      BY PageAssumption
    <3>2. CASE b = NaN
      BY <3>2 DEF Clamped
    <3>3. CASE b \in Int /\ 0 <= b /\ b <= Last
      <4>1. Clamped(b) = b
        BY <3>3, MemoryWindowAssumption DEF Clamped
      <4>2. BaseInside(b)
        BY <3>3, MemoryWindowAssumption DEF BaseInside
      <4> QED BY <4>1, <4>2
    <3>4. CASE b \in Int /\ ~(0 <= b /\ b <= Last)
      <4>1. Clamped(b) \in {0, Last}
        BY <3>4, MemoryWindowAssumption DEF Clamped
      <4> QED BY <4>1, <1>2
    <3> QED BY <3>1, <3>2, <3>3, <3>4
  <2> QED BY <1>5, <2>1, DrawnWindow DEF storeBase
<1>6. ASSUME NEW a \in Stores, NEW v \in Values, updateMemoryValue(a, v)
      PROVE  WindowInv'
  <2>1. /\ memory' = [memory EXCEPT ![a] = v] /\ memory_base_address' = base
        /\ cells' = [o \in Offsets |-> IF o \in ShownAt(a) THEN v ELSE cells[o]]
    BY <1>6 DEF updateMemoryValue
  <2>2. WindowType'
    BY <2>1 DEF WindowInv, WindowType
  <2>3. ASSUME base # NaN, NEW o \in Offsets, base + o \in Addresses
        PROVE  cells'[o] = memory'[base + o]
    <3>1. o \in ShownAt(a) <=> base + o = a
      BY <2>3 DEF ShownAt
    <3>2. cells[o] = memory[base + o]
      BY <2>3 DEF WindowInv, Shows
    <3> QED BY <2>1, <2>3, <3>1, <3>2 DEF WindowInv, WindowType
  <2>4. base # NaN => Shows(base, memory', cells')
    BY <2>3 DEF Shows
  <2> QED BY <1>1, <2>1, <2>2, <2>4 DEF WindowInv
<1>7. CASE newMemory
  <2>1. memory' \in [Addresses -> Values] /\ memory_base_address' = base
    BY <1>7, MemoryWindowAssumption DEF newMemory
  <2>2. cells' = Drawn(memory', base) /\ base \in Int \cup {NaN}
    BY <1>7 DEF newMemory, WindowInv, WindowType
  <2> QED BY <1>1, <2>1, <2>2, DrawnIsRight DEF WindowInv, WindowType
<1>8. CASE UNCHANGED window
  BY <1>8 DEF window, WindowInv, WindowType, Shows, BaseInside
<1> QED BY <1>3, <1>4, <1>5, <1>6, <1>7, <1>8 DEF WindowNext

LEMMA WindowInvEnough == WindowInv => WindowShowsMemory
BY MemoryWindowAssumption DEF WindowInv, BaseInside, Shows, WindowShowsMemory

-----------------------------------------------------------------------------
(* The page.                                                               *)

PageType ==
  /\ content \in BOOLEAN /\ starting \in BOOLEAN /\ announced \in BOOLEAN
  /\ runs \in 0..MaxRuns

IInv == TabsInv /\ WindowInv /\ KeyboardInv /\ NumbersBound /\ PageType

LEMMA PageTypeKept ==
  ASSUME PageType, [Next]_vars
  PROVE  PageType'
<1> USE DEF PageType
<1>1. CASE startSimulation
  BY <1>1, PageAssumption DEF startSimulation
<1>2. CASE resetKey
  BY <1>2 DEF resetKey
<1>3. CASE SetKeyReads \/ SetKeyWrites \/ QueryKeyboard
  BY <1>3 DEF SetKeyReads, SetKeyWrites, QueryKeyboard, Elsewhere
<1>4. CASE \E name \in Names : InitialState(name)
  BY <1>4 DEF InitialState
<1>5. CASE \E name \in Names, a \in Stores, v \in Values : Update(name, a, v)
  BY <1>5 DEF Update
<1>6. CASE processError
  BY <1>6 DEF processError
<1>7. CASE User
  BY <1>7 DEF User, ClickTab, MoveWindow, Keydown, ToggleKeyboard, Elsewhere
<1>8. CASE \E p \in Programs : TransitionEnd(p)
  BY <1>8 DEF TransitionEnd
<1>9. CASE UNCHANGED vars
  BY <1>9 DEF vars
<1> QED BY <1>1, <1>2, <1>3, <1>4, <1>5, <1>6, <1>7, <1>8, <1>9 DEF Next, Server, Message

LEMMA Inductive == Spec => []IInv
<1>1. Init => IInv
  <2> SUFFICES ASSUME Init  PROVE IInv
    OBVIOUS
  <2>1. PageType
    <3>1. content \in BOOLEAN /\ starting \in BOOLEAN /\ announced \in BOOLEAN
      BY Zenon DEF Init
    <3> QED BY <3>1, PageAssumption DEF Init, PageType
  <2> QED BY <2>1, TabsInvInit, WindowInvInit, KeyboardInvInit, NumbersBoundInit DEF Init, IInv
<1>2. IInv /\ [Next]_vars => IInv'
  <2> SUFFICES ASSUME IInv, [Next]_vars  PROVE IInv'
    OBVIOUS
  <2>1. TabsInv'
    BY TabsStep, TabsInvKept DEF IInv
  <2>2. WindowInv'
    BY WindowStep, WindowInvKept DEF IInv
  <2>3. KeyboardInv' /\ NumbersBound'
    BY KeyboardStep, KeyboardInvKept, NumbersBoundKept DEF IInv, KeyboardInv
  <2>4. PageType'
    BY PageTypeKept DEF IInv
  <2> QED BY <2>1, <2>2, <2>3, <2>4 DEF IInv
<1> QED BY <1>1, <1>2, PTL DEF Spec

LEMMA IInvTyped == IInv => TypeOK
<1> SUFFICES ASSUME IInv  PROVE TypeOK
  OBVIOUS
<1>1. TabsType /\ WindowType /\ KeyboardType /\ PageType /\ NumbersBound
  BY DEF IInv, TabsInv, WindowInv, KeyboardInv
<1>2. Arrived <= MaxKeys
  BY <1>1, FS_CardinalityType, KeyboardAssumption DEF NumbersBound, Arrived, KeyboardType
<1>3. /\ key \in [index : 0..MaxKeys, char : 0..typed] /\ next_key \in 0..MaxKeys
      /\ handling \subseteq [index : 1..MaxKeys, char : 1..typed]
  BY <1>1, <1>2, KeyboardAssumption DEF NumbersBound, KeyboardType
<1> QED BY <1>1, <1>3 DEF TypeOK, TabsType, WindowType, KeyboardType, PageType

(* Every variable of the page keeps its type: no window leaves the memory  *)
(* below, and no number of a key is higher than the keys typed.            *)
THEOREM TypeCorrect == Spec => []TypeOK
BY Inductive, IInvTyped, PTL

(* The tab that is selected and the pane that is displayed are the same    *)
(* program's, and the pane is opaque after the transitions.                *)
THEOREM TabsAndPanesAgree == Spec => []TabAndPaneAgree
<1>1. IInv => TabAndPaneAgree
  BY TabsInvEnough DEF IInv
<1> QED BY <1>1, Inductive, PTL

(* The memory window shows memory, and whole pages stay inside of it.      *)
THEOREM WindowIsRight == Spec => []WindowShowsMemory
<1>1. IInv => WindowShowsMemory
  BY WindowInvEnough DEF IInv
<1> QED BY <1>1, Inductive, PTL

(* The simulated keyboard gets no character twice.                         *)
THEOREM NoKeyTwice == Spec => []KeyTakenOnce
<1>1. IInv => KeyTakenOnce
  BY KeyboardInvEnough DEF IInv
<1> QED BY <1>1, Inductive, PTL

(* Requests that do not overlap get numbers that make each character look  *)
(* new.                                                                    *)
THEOREM NoKeyHidden == Spec => []KeyNotHidden
<1>1. IInv => KeyNotHidden
  BY KeyboardInvEnough DEF IInv
<1> QED BY <1>1, Inductive, PTL
=============================================================================
