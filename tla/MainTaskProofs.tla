---------------------------- MODULE MainTaskProofs ----------------------------
(***************************************************************************)
(* For any windows, askers and openers, whether or not there is memory for *)
(* every message: what the main task counts and remembers agrees with the  *)
(* messages on their way, and who uses a window has it in the list.        *)
(***************************************************************************)
EXTENDS MainTask, SignalSemaphoreTheorems, ExecListTheorems

NotYet   == {"none", "created", "opened"}
InList   == {"listed", "leaving", "closed"}
Ended    == {"unlisted", "gone"}
AtWork   == {"wait", "refused", "unpatched", "sleep", "wakeup"}
OnWayOut == {"quit", "relock", "quitwait"}

MainPlace == AtWork \cup OnWayOut \cup {"drain", "done", "astray"}

WindowRequest == {Request(type) : type \in WindowMessage}

MainMessage ==
  {Reply(w, type) : w \in Window, type \in WindowMessage}
  \cup {RequestOf(a, type) : a \in Asker, type \in {"AppSleep", "AppWakeup"}}
  \cup {RequestOf(MainWindow, "CloseScalos")}

(***************************************************************************)
(* What the variables hold.                                                *)
(***************************************************************************)
WindowsOK ==
  /\ list \in Seq(Window) /\ IsInjective(list)
  /\ \A w \in Window : Listed(w) <=> proc[w] \in InList
  /\ proc \in [Window -> Proc]
  /\ asleep \in [Window -> BOOLEAN] /\ timerSent \in [Window -> BOOLEAN]
  /\ closing \in [Window -> BOOLEAN]

PortsOK == port \in [Window -> Seq(WindowRequest)] /\ mainPort \in Seq(MainMessage)

TasksOK ==
  /\ main \in MainPlace
  /\ serving \in Asker \cup {NoWindow}
  /\ main \in {"sleep", "wakeup"} => serving \in Asker
  /\ waitCount \in Nat
  /\ next \in Window \cup {NoWindow}
  /\ closeWindow \in BOOLEAN
  /\ asker \in [Asker -> {"awake", "asksleep", "asleep", "reset", "askwakeup", "done"}]
  /\ opener \in [Opener -> Window \cup {"start", "done"}]
  /\ ghost \in [freed : Nat, ignored : SUBSET {"AppSleep", "AppWakeup", "CloseScalos"},
                noTimer : SUBSET Window, failed : BOOLEAN, left : SUBSET Window,
                untold : BOOLEAN]

(***************************************************************************)
(* Who has locked the list, and how often.                                 *)
(***************************************************************************)
Locks ==
  /\ lock \in SemaphoreType /\ Exclusive(lock)
  /\ lock.nest[Main] = IF main \in {"wakeup", "quit", "quitwait", "astray"} THEN 1 ELSE 0
  /\ \A o \in Opener : lock.nest[o] = IF opener[o] \in Window THEN 1 ELSE 0

(***************************************************************************)
(* Nobody has sent anything to a window that was never in the list.        *)
(***************************************************************************)
Fresh ==
  \A w \in Window : proc[w] \in NotYet =>
    port[w] = << >> /\ ~asleep[w] /\ ~timerSent[w] /\ ~closing[w]

Found == \A o \in Opener : opener[o] \in Window => Listed(opener[o])

Basic == WindowsOK /\ PortsOK /\ TasksOK /\ Locks /\ Fresh /\ Found
-----------------------------------------------------------------------------
(***************************************************************************)
(* Messages of one type in the ports p of the windows and in the port q of *)
(* the main task, and the timer messages of one window with the port r.    *)
(***************************************************************************)
Replies(type) == {Reply(w, type) : w \in Window}

Way(p, q, type) ==
  Cardinality(PlacesIn(p, Window, {Request(type)})) + Cardinality(Places(q, Replies(type)))

TimersIn(r, q, w) ==
  Cardinality(Places(r, {Request("Timer")})) + Cardinality(Places(q, {Reply(w, "Timer")}))

LEMMA WayIs ==
  /\ \A type : OnTheWay(type) = Way(port, mainPort, type)
  /\ \A type : OnTheWay(type)' = Way(port', mainPort', type)
  /\ \A w : TimersOf(w) = TimersIn(port[w], mainPort, w)
  /\ \A w : TimersOf(w)' = TimersIn(port'[w], mainPort', w)
BY DEF OnTheWay, Asked, Answers, Way, Replies, TimersOf, TimersIn

LEMMA Actors ==
  /\ MainWindow \in Window /\ NoWindow \notin Window /\ IsFiniteSet(Window)
  /\ "start" \notin Window /\ "done" \notin Window
  /\ Main \in Task /\ Opener \subseteq Task /\ Main \notin Opener
  /\ \A t \in Task : t = Main \/ t \in Opener
  /\ Asker \cap Window = {} /\ NoWindow \notin Asker
BY ActorAssumption

(***************************************************************************)
(* The messages are different ones.                                        *)
(***************************************************************************)
LEMMA Messages ==
  /\ \A s, t : Request(s) = Request(t) <=> s = t
  /\ \A w, v, s, t : Reply(w, s) = Reply(v, t) <=> w = v /\ s = t
  /\ \A w, s, a, t : Reply(w, s) # RequestOf(a, t)
  /\ \A w, s, t : Reply(w, s) \in Replies(t) <=> w \in Window /\ s = t
  /\ \A a, s, t : RequestOf(a, s) \notin Replies(t)
<1>1. \A s, t : Request(s) = Request(t) <=> s = t
  BY DEF Request
<1>2. \A w, v, s, t : Reply(w, s) = Reply(v, t) <=> w = v /\ s = t
  BY DEF Reply
<1>3. \A w, s, a, t : Reply(w, s) # RequestOf(a, t)
  BY DEF Reply, RequestOf
<1> QED BY <1>1, <1>2, <1>3 DEF Replies

LEMMA WayNat ==
  ASSUME NEW p \in [Window -> Seq(WindowRequest)], NEW q \in Seq(MainMessage), NEW type
  PROVE  /\ Cardinality(PlacesIn(p, Window, {Request(type)})) \in Nat
         /\ Cardinality(Places(q, Replies(type))) \in Nat
         /\ Way(p, q, type) \in Nat
         /\ Way(p, q, type) = 0 => \A w \in Window : Places(p[w], {Request(type)}) = {}
<1> DEFINE a == Cardinality(PlacesIn(p, Window, {Request(type)}))
           b == Cardinality(Places(q, Replies(type)))
<1>1. a \in Nat /\ (a = 0 => \A w \in Window : Places(p[w], {Request(type)}) = {})
  BY Actors, PlacesInFacts
<1>2. b \in Nat
  BY PlacesFacts
<1>3. Way(p, q, type) = a + b
  BY DEF Way
<1> HIDE DEF a, b
<1>4. Way(p, q, type) \in Nat /\ (Way(p, q, type) = 0 => a = 0)
  BY <1>1, <1>2, <1>3
<1> QED BY <1>1, <1>2, <1>4 DEF a, b

(***************************************************************************)
(* n messages more when the ports p become p2; none more or less.          *)
(***************************************************************************)
WayGrows(p, p2, q, type, n) == Way(p2, q, type) = Way(p, q, type) + n

WaySame(p, q, p2, q2, type) == Way(p2, q2, type) = Way(p, q, type)

LEMMA WaySend ==
  ASSUME NEW p \in [Window -> Seq(WindowRequest)], NEW q \in Seq(MainMessage), NEW type,
         NEW G \in SUBSET Window, NEW sent \in WindowMessage,
         NEW p2, \A w \in Window : p2[w] = IF w \in G THEN Append(p[w], Request(sent)) ELSE p[w]
  PROVE  WayGrows(p, p2, q, type, IF type = sent THEN Cardinality(G) ELSE 0)
<1> DEFINE a == Cardinality(PlacesIn(p, Window, {Request(type)}))
           b == Cardinality(Places(q, Replies(type)))
           a2 == Cardinality(PlacesIn(p2, Window, {Request(type)}))
           c == Cardinality(G)
<1>1. a2 = a + (IF Request(sent) \in {Request(type)} THEN c ELSE 0)
  <2> DEFINE x == Request(sent)  S == {Request(type)}
  <2>1. /\ x \in WindowRequest
        /\ \A w \in G : p2[w] = Append(p[w], x)
        /\ \A w \in Window \ G : p2[w] = p[w]
    BY DEF WindowRequest
  <2> HIDE DEF x, S
  <2>2. SomeGrow(p, p2, Window, S, IF x \in S THEN Cardinality(G) ELSE 0)
    BY <2>1, Actors, PlacesInSome
  <2> QED BY <2>2 DEF SomeGrow, x, S
<1>2. a \in Nat /\ b \in Nat /\ c \in Nat
  BY WayNat, Actors, FS_Subset, FS_CardinalityType
<1>3. Way(p, q, type) = a + b /\ Way(p2, q, type) = a2 + b
  BY DEF Way
<1>4. Request(sent) \in {Request(type)} <=> type = sent
  BY Messages
<1> HIDE DEF a, b, a2, c
<1>5. CASE type = sent
  <2>1. a2 = a + c
    BY <1>1, <1>4, <1>5
  <2>2. (a + c) + b = (a + b) + c
    BY <1>2
  <2> QED BY <1>3, <1>5, <2>1, <2>2 DEF c, WayGrows
<1>6. CASE type # sent
  <2>1. a2 = a + 0
    BY <1>1, <1>4, <1>6
  <2>2. (a + 0) + b = (a + b) + 0
    BY <1>2
  <2> QED BY <1>3, <1>6, <2>1, <2>2 DEF WayGrows
<1> QED BY <1>5, <1>6

LEMMA WayHandle ==
  ASSUME NEW p \in [Window -> Seq(WindowRequest)], NEW q \in Seq(MainMessage), NEW type,
         NEW w \in Window, p[w] # << >>, NEW m \in WindowMessage, Head(p[w]) = Request(m),
         NEW p2 \in [Window -> Seq(WindowRequest)], p2[w] = Tail(p[w]),
         \A v \in Window \ {w} : p2[v] = p[v]
  PROVE  WaySame(p, q, p2, Append(q, Reply(w, m)), type)
<1> DEFINE q2 == Append(q, Reply(w, m))
           a == Cardinality(PlacesIn(p, Window, {Request(type)}))
           b == Cardinality(Places(q, Replies(type)))
           a2 == Cardinality(PlacesIn(p2, Window, {Request(type)}))
           b2 == Cardinality(Places(q2, Replies(type)))
           d == Cardinality(Places(p[w], {Request(type)}))
           d2 == Cardinality(Places(Tail(p[w]), {Request(type)}))
           one == IF m = type THEN 1 ELSE 0
<1>0. p[w] \in Seq(WindowRequest) /\ Tail(p[w]) \in Seq(WindowRequest)
  BY TailFacts
<1>1. a2 + d = a + d2
  <2>1. OneChanges(p, p2, Window, {Request(type)}, w)
    BY <1>0, Actors, PlacesInOne
  <2> QED BY <2>1 DEF OneChanges
<1>2. d = d2 + one
  <2>1. d = d2 + (IF Head(p[w]) \in {Request(type)} THEN 1 ELSE 0)
    BY <1>0, PlacesTail
  <2>2. Head(p[w]) \in {Request(type)} <=> m = type
    BY Messages
  <2> HIDE DEF d, d2
  <2> QED BY <2>1, <2>2
<1>3. b2 = b + one
  <2>1. Reply(w, m) \in MainMessage
    BY DEF MainMessage
  <2>2. b2 = b + (IF Reply(w, m) \in Replies(type) THEN 1 ELSE 0)
    BY <2>1, PlacesAppend
  <2>3. Reply(w, m) \in Replies(type) <=> m = type
    BY Messages
  <2> HIDE DEF b, b2
  <2> QED BY <2>2, <2>3
<1>4. a \in Nat /\ a2 \in Nat /\ b \in Nat /\ d \in Nat /\ d2 \in Nat
  BY <1>0, WayNat, PlacesFacts
<1>5. Way(p, q, type) = a + b /\ Way(p2, q2, type) = a2 + b2
  BY DEF Way
<1>6. one \in {0, 1}
  OBVIOUS
<1> HIDE DEF a, b, a2, b2, d, d2, one, q2
<1>7. a2 + b2 = a + b
  BY <1>1, <1>2, <1>3, <1>4, <1>6
<1> QED BY <1>5, <1>7 DEF q2, WaySame

LEMMA WayTake ==
  ASSUME NEW p \in [Window -> Seq(WindowRequest)], NEW q \in Seq(MainMessage), q # << >>,
         NEW type
  PROVE  Way(p, q, type) = Way(p, Tail(q), type)
                           + IF Head(q) \in Replies(type) THEN 1 ELSE 0
<1> DEFINE a == Cardinality(PlacesIn(p, Window, {Request(type)}))
           b == Cardinality(Places(q, Replies(type)))
           b2 == Cardinality(Places(Tail(q), Replies(type)))
           one == IF Head(q) \in Replies(type) THEN 1 ELSE 0
<1>1. b = b2 + one
  BY PlacesTail
<1>2. a \in Nat /\ b \in Nat /\ b2 \in Nat /\ one \in {0, 1}
  BY TailFacts, WayNat
<1>3. Way(p, q, type) = a + b /\ Way(p, Tail(q), type) = a + b2
  BY DEF Way
<1> HIDE DEF a, b, b2, one
<1>4. a + b = (a + b2) + one
  BY <1>1, <1>2
<1> QED BY <1>3, <1>4 DEF one

LEMMA WayPut ==
  ASSUME NEW p \in [Window -> Seq(WindowRequest)], NEW q \in Seq(MainMessage),
         NEW m \in MainMessage, NEW type, m \notin Replies(type)
  PROVE  Way(p, Append(q, m), type) = Way(p, q, type)
<1>1. Cardinality(Places(Append(q, m), Replies(type))) = Cardinality(Places(q, Replies(type))) + 0
  BY PlacesAppend
<1>2. Cardinality(Places(q, Replies(type))) \in Nat
  BY WayNat
<1>3. Cardinality(Places(Append(q, m), Replies(type))) = Cardinality(Places(q, Replies(type)))
  BY <1>1, <1>2
<1> QED BY <1>3 DEF Way

LEMMA WayEmpty ==
  ASSUME NEW p \in [Window -> Seq(WindowRequest)], NEW q \in Seq(MainMessage), NEW type,
         NEW w \in Window
  PROVE  Way([p EXCEPT ![w] = << >>], q, type) + Cardinality(Places(p[w], {Request(type)}))
           = Way(p, q, type)
<1> DEFINE p2 == [p EXCEPT ![w] = << >>]
           a == Cardinality(PlacesIn(p, Window, {Request(type)}))
           a2 == Cardinality(PlacesIn(p2, Window, {Request(type)}))
           b == Cardinality(Places(q, Replies(type)))
           d == Cardinality(Places(p[w], {Request(type)}))
           d2 == Cardinality(Places(<< >>, {Request(type)}))
<1>0. p[w] \in Seq(WindowRequest) /\ << >> \in Seq(WindowRequest)
  BY EmptySeq
<1>1. a2 + d = a + d2
  <2>1. p2[w] = << >> /\ \A v \in Window \ {w} : p2[v] = p[v]
    OBVIOUS
  <2> HIDE DEF p2
  <2>2. OneChanges(p, p2, Window, {Request(type)}, w)
    BY <1>0, <2>1, Actors, PlacesInOne
  <2> QED BY <2>1, <2>2 DEF OneChanges
<1>2. d2 = 0
  BY <1>0, PlacesFacts
<1>3. a \in Nat /\ a2 \in Nat /\ b \in Nat /\ d \in Nat
  <2>1. p2 \in [Window -> Seq(WindowRequest)]
    BY <1>0
  <2> QED BY <1>0, <2>1, WayNat, PlacesFacts
<1>4. Way(p, q, type) = a + b /\ Way(p2, q, type) = a2 + b
  BY DEF Way
<1> HIDE DEF a, b, a2, d, d2, p2
<1>5. (a2 + b) + d = a + b
  BY <1>1, <1>2, <1>3
<1> QED BY <1>4, <1>5 DEF p2, d

(***************************************************************************)
(* The same for the timer messages of one window.                          *)
(***************************************************************************)
LEMMA TimersNat ==
  ASSUME NEW r \in Seq(WindowRequest), NEW q \in Seq(MainMessage), NEW w
  PROVE  /\ TimersIn(r, q, w) \in Nat
         /\ TimersIn(r, q, w) = 0 => /\ Places(r, {Request("Timer")}) = {}
                                     /\ Places(q, {Reply(w, "Timer")}) = {}
<1> DEFINE a == Cardinality(Places(r, {Request("Timer")}))
           b == Cardinality(Places(q, {Reply(w, "Timer")}))
<1>1. /\ a \in Nat /\ (a = 0 => Places(r, {Request("Timer")}) = {})
      /\ b \in Nat /\ (b = 0 => Places(q, {Reply(w, "Timer")}) = {})
  BY PlacesFacts
<1>2. TimersIn(r, q, w) = a + b
  BY DEF TimersIn
<1> HIDE DEF a, b
<1>3. a + b \in Nat /\ (a + b = 0 => a = 0 /\ b = 0)
  BY <1>1
<1> QED BY <1>1, <1>2, <1>3

LEMMA TimersSend ==
  ASSUME NEW r \in Seq(WindowRequest), NEW q \in Seq(MainMessage), NEW w,
         NEW sent \in WindowMessage
  PROVE  TimersIn(Append(r, Request(sent)), q, w)
           = TimersIn(r, q, w) + IF sent = "Timer" THEN 1 ELSE 0
<1> DEFINE a == Cardinality(Places(r, {Request("Timer")}))
           a2 == Cardinality(Places(Append(r, Request(sent)), {Request("Timer")}))
           b == Cardinality(Places(q, {Reply(w, "Timer")}))
           one == IF sent = "Timer" THEN 1 ELSE 0
<1>1. a2 = a + one
  <2>1. Request(sent) \in WindowRequest
    BY DEF WindowRequest
  <2>2. a2 = a + IF Request(sent) \in {Request("Timer")} THEN 1 ELSE 0
    BY <2>1, PlacesAppend
  <2>3. Request(sent) \in {Request("Timer")} <=> sent = "Timer"
    BY Messages
  <2> HIDE DEF a, a2
  <2> QED BY <2>2, <2>3
<1>2. a \in Nat /\ b \in Nat /\ one \in {0, 1}
  BY PlacesFacts
<1>3. TimersIn(r, q, w) = a + b /\ TimersIn(Append(r, Request(sent)), q, w) = a2 + b
  BY DEF TimersIn
<1> HIDE DEF a, a2, b, one
<1>4. a2 + b = (a + b) + one
  BY <1>1, <1>2
<1> QED BY <1>3, <1>4 DEF one

LEMMA TimersOther ==
  ASSUME NEW r \in Seq(WindowRequest), NEW q \in Seq(MainMessage), NEW w,
         NEW sent \in WindowMessage \ {"Timer"}
  PROVE  TimersIn(Append(r, Request(sent)), q, w) = TimersIn(r, q, w)
<1>1. TimersIn(Append(r, Request(sent)), q, w)
        = TimersIn(r, q, w) + IF sent = "Timer" THEN 1 ELSE 0
  BY TimersSend
<1>2. TimersIn(Append(r, Request(sent)), q, w) = TimersIn(r, q, w) + 0
  BY <1>1
<1>3. TimersIn(r, q, w) \in Nat
  BY TimersNat
<1> QED BY <1>2, <1>3

LEMMA TimersTake ==
  ASSUME NEW r, NEW q \in Seq(MainMessage), q # << >>, NEW w, r \in Seq(WindowRequest)
  PROVE  TimersIn(r, q, w)
           = TimersIn(r, Tail(q), w) + IF Head(q) = Reply(w, "Timer") THEN 1 ELSE 0
<1> DEFINE a == Cardinality(Places(r, {Request("Timer")}))
           b == Cardinality(Places(q, {Reply(w, "Timer")}))
           b2 == Cardinality(Places(Tail(q), {Reply(w, "Timer")}))
           one == IF Head(q) = Reply(w, "Timer") THEN 1 ELSE 0
<1>1. b = b2 + one
  <2>1. b = b2 + IF Head(q) \in {Reply(w, "Timer")} THEN 1 ELSE 0
    BY PlacesTail
  <2> HIDE DEF b, b2
  <2> QED BY <2>1
<1>2. a \in Nat /\ b2 \in Nat /\ one \in {0, 1}
  BY PlacesFacts, TailFacts
<1>3. TimersIn(r, q, w) = a + b /\ TimersIn(r, Tail(q), w) = a + b2
  BY DEF TimersIn
<1> HIDE DEF a, b, b2, one
<1>4. a + b = (a + b2) + one
  BY <1>1, <1>2
<1> QED BY <1>3, <1>4 DEF one

LEMMA TimersPut ==
  ASSUME NEW r \in Seq(WindowRequest), NEW q \in Seq(MainMessage), NEW w,
         NEW m \in MainMessage, m # Reply(w, "Timer")
  PROVE  TimersIn(r, Append(q, m), w) = TimersIn(r, q, w)
<1> DEFINE b == Cardinality(Places(q, {Reply(w, "Timer")}))
           b2 == Cardinality(Places(Append(q, m), {Reply(w, "Timer")}))
<1>1. b2 = b + IF m \in {Reply(w, "Timer")} THEN 1 ELSE 0
  BY PlacesAppend
<1>2. b \in Nat
  BY PlacesFacts
<1>3. b2 = b
  <2> HIDE DEF b, b2
  <2> QED BY <1>1, <1>2
<1> QED BY <1>3 DEF TimersIn

LEMMA TimersHandle ==
  ASSUME NEW r \in Seq(WindowRequest), r # << >>, NEW q \in Seq(MainMessage), NEW w \in Window,
         NEW m \in WindowMessage, Head(r) = Request(m)
  PROVE  TimersIn(Tail(r), Append(q, Reply(w, m)), w) = TimersIn(r, q, w)
<1> DEFINE a == Cardinality(Places(r, {Request("Timer")}))
           a2 == Cardinality(Places(Tail(r), {Request("Timer")}))
           b == Cardinality(Places(q, {Reply(w, "Timer")}))
           b2 == Cardinality(Places(Append(q, Reply(w, m)), {Reply(w, "Timer")}))
           one == IF m = "Timer" THEN 1 ELSE 0
<1>1. a = a2 + one
  <2>1. a = a2 + IF Head(r) \in {Request("Timer")} THEN 1 ELSE 0
    BY PlacesTail
  <2>2. Head(r) \in {Request("Timer")} <=> m = "Timer"
    BY Messages
  <2> HIDE DEF a, a2
  <2> QED BY <2>1, <2>2
<1>2. b2 = b + one
  <2>1. Reply(w, m) \in MainMessage
    BY DEF MainMessage
  <2>2. b2 = b + IF Reply(w, m) \in {Reply(w, "Timer")} THEN 1 ELSE 0
    BY <2>1, PlacesAppend
  <2>3. Reply(w, m) \in {Reply(w, "Timer")} <=> m = "Timer"
    BY Messages
  <2> HIDE DEF b, b2
  <2> QED BY <2>2, <2>3
<1>3. a2 \in Nat /\ b \in Nat /\ one \in {0, 1}
  BY PlacesFacts, TailFacts
<1>4. TimersIn(r, q, w) = a + b /\ TimersIn(Tail(r), Append(q, Reply(w, m)), w) = a2 + b2
  BY DEF TimersIn
<1> HIDE DEF a, a2, b, b2, one
<1>5. a2 + b2 = a + b
  BY <1>1, <1>2, <1>3
<1> QED BY <1>4, <1>5

-----------------------------------------------------------------------------
(***************************************************************************)
(* The list of windows.                                                    *)
(***************************************************************************)
LEMMA ListedIs ==
  /\ \A w : Listed(w) <=> w \in Range(list)
  /\ \A w : Listed(w)' <=> w \in Range(list')
BY DEF Listed, Range

LEMMA EntersList ==
  ASSUME WindowsOK, NEW w \in Window, EnterList(w)
  PROVE  /\ list' \in Seq(Window) /\ IsInjective(list') /\ Range(list') = Range(list) \cup {w}
         /\ ~Listed(w)
<1>1. w \notin Range(list) /\ ~Listed(w)
  BY ListedIs DEF WindowsOK, EnterList, InList
<1>2. list \in Seq(Window) /\ IsInjective(list) /\ list' = Append(list, w)
  BY DEF WindowsOK, EnterList
<1> QED BY <1>1, <1>2, AppendFacts

LEMMA LeavesList ==
  ASSUME WindowsOK, NEW w \in Window, Dispose(w)
  PROVE  /\ list' \in Seq(Window) /\ IsInjective(list') /\ Range(list') = Range(list) \ {w}
         /\ Listed(w)
<1>1. w \in Range(list) /\ Listed(w)
  BY ListedIs DEF WindowsOK, Dispose, InList
<1>2. list \in Seq(Window) /\ IsInjective(list) /\ list' = Without(list, {w})
  BY DEF WindowsOK, Dispose
<1>3. {w} \in SUBSET Range(list)
  BY <1>1
<1> QED BY <1>1, <1>2, <1>3, WithoutFacts, WithoutInjective

LEMMA WindowsKept ==
  ASSUME Basic, [Next]_vars
  PROVE  WindowsOK'
<1>1. /\ list \in Seq(Window) /\ IsInjective(list)
      /\ \A w \in Window : w \in Range(list) <=> proc[w] \in InList
      /\ proc \in [Window -> Proc]
      /\ asleep \in [Window -> BOOLEAN] /\ timerSent \in [Window -> BOOLEAN]
      /\ closing \in [Window -> BOOLEAN]
  BY ListedIs DEF Basic, WindowsOK
<1> SUFFICES /\ list' \in Seq(Window) /\ IsInjective(list')
             /\ \A w \in Window : w \in Range(list') <=> proc'[w] \in InList
             /\ proc' \in [Window -> Proc]
             /\ asleep' \in [Window -> BOOLEAN] /\ timerSent' \in [Window -> BOOLEAN]
             /\ closing' \in [Window -> BOOLEAN]
  BY ListedIs DEF WindowsOK
<1> DEFINE Quiet == UNCHANGED <<list, proc, asleep, timerSent, closing>>
           QuietList == UNCHANGED <<list, proc>>
<1>2. CASE Quiet
  BY <1>1, <1>2
<1>3. ASSUME QuietList
      PROVE  /\ list' \in Seq(Window) /\ IsInjective(list')
             /\ \A w \in Window : w \in Range(list') <=> proc'[w] \in InList
             /\ proc' \in [Window -> Proc]
  BY <1>1, <1>3
<1>4. ASSUME NEW w \in Window, EnterList(w) PROVE WindowsOK'
  <2>1. /\ list' \in Seq(Window) /\ IsInjective(list') /\ Range(list') = Range(list) \cup {w}
    BY <1>4, EntersList DEF Basic
  <2>2. /\ proc' = [proc EXCEPT ![w] = "listed"] /\ UNCHANGED <<asleep, timerSent, closing>>
    BY <1>4 DEF EnterList
  <2>3. \A v \in Window : v \in Range(list') <=> proc'[v] \in InList
    BY <1>1, <2>1, <2>2 DEF InList
  <2>4. proc' \in [Window -> Proc]
    BY <1>1, <2>2 DEF Proc
  <2> QED BY <1>1, <2>1, <2>2, <2>3, <2>4, ListedIs DEF WindowsOK
<1>5. ASSUME NEW w \in Window, Dispose(w) PROVE WindowsOK'
  <2>1. /\ list' \in Seq(Window) /\ IsInjective(list') /\ Range(list') = Range(list) \ {w}
    BY <1>5, LeavesList DEF Basic
  <2>2. /\ proc' = [proc EXCEPT ![w] = "unlisted"] /\ UNCHANGED <<asleep, timerSent, closing>>
    BY <1>5 DEF Dispose
  <2>3. \A v \in Window : v \in Range(list') <=> proc'[v] \in InList
    BY <1>1, <2>1, <2>2 DEF InList
  <2>4. proc' \in [Window -> Proc]
    BY <1>1, <2>2 DEF Proc
  <2> QED BY <1>1, <2>1, <2>2, <2>3, <2>4, ListedIs DEF WindowsOK
<1>6. ASSUME NEW w \in Window, UserCloses(w) \/ Obeys(w) \/ CloseIt(w) \/ End(w)
      PROVE  WindowsOK'
  <2>1. /\ \/ proc[w] = "listed" /\ proc' = [proc EXCEPT ![w] = "leaving"]
           \/ proc[w] = "leaving" /\ proc' = [proc EXCEPT ![w] = "closed"]
           \/ proc[w] = "unlisted" /\ proc' = [proc EXCEPT ![w] = "gone"]
        /\ UNCHANGED <<list, asleep, timerSent, closing>>
    BY <1>6 DEF UserCloses, Obeys, Leave, CloseIt, End
  <2>2. \A v \in Window : v \in Range(list') <=> proc'[v] \in InList
    BY <1>1, <2>1 DEF InList
  <2>3. proc' \in [Window -> Proc]
    BY <1>1, <2>1 DEF Proc
  <2> QED BY <1>1, <2>1, <2>2, <2>3, ListedIs DEF WindowsOK
<1>7. ASSUME NEW w \in Window, Handle(w) PROVE WindowsOK'
  <2>1. /\ QuietList /\ UNCHANGED timerSent
        /\ \/ asleep' = [asleep EXCEPT ![w] = TRUE] \/ asleep' = [asleep EXCEPT ![w] = FALSE]
           \/ UNCHANGED asleep
    BY <1>7 DEF Handle
  <2>2. \E b \in BOOLEAN : closing' = [closing EXCEPT ![w] = b]
    <3>1. closing' = [closing EXCEPT ![w] = (closing[w] \/ Head(port[w]).type = "CloseWindow")]
      BY <1>7 DEF Handle
    <3>2. (closing[w] \/ Head(port[w]).type = "CloseWindow") \in BOOLEAN
      OBVIOUS
    <3> QED BY <3>1, <3>2
  <2>3. asleep' \in [Window -> BOOLEAN] /\ closing' \in [Window -> BOOLEAN]
    BY <1>1, <2>1, <2>2
  <2> QED BY <1>1, <1>3, <2>1, <2>3, ListedIs DEF WindowsOK
<1>8. ASSUME ProcessTimerMessage \/ TimerReplyMsg PROVE WindowsOK'
  <2>1. QuietList /\ UNCHANGED <<asleep, closing>>
    BY <1>8 DEF ProcessTimerMessage, TimerReplyMsg
  <2>2. timerSent' \in [Window -> BOOLEAN]
    BY <1>1, <1>8 DEF ProcessTimerMessage, TimerReplyMsg
  <2> QED BY <1>1, <1>3, <2>1, <2>2, ListedIs DEF WindowsOK
<1>9. ASSUME AppSleepMsg \/ AppWakeupMsg PROVE WindowsOK'
  <2>1. QuietList /\ UNCHANGED <<timerSent, closing>>
    BY <1>9 DEF AppSleepMsg, AppWakeupMsg
  <2>2. \E b \in BOOLEAN : asleep' = [asleep EXCEPT ![MainWindow] = b]
    <3>1. CASE AppSleepMsg
      <4>1. asleep' = [asleep EXCEPT ![MainWindow] = asleep[MainWindow] \/
              (MainWindow \in {w \in Window : Listed(w) /\ ~asleep[w]} /\ Shown(MainWindow))]
        BY <3>1 DEF AppSleepMsg
      <4> QED BY <4>1
    <3>2. CASE AppWakeupMsg
      <4>1. PICK woken :
              asleep' = [asleep EXCEPT ![MainWindow] = asleep[MainWindow] /\ MainWindow \notin woken]
        BY <3>2 DEF AppWakeupMsg
      <4> QED BY <4>1
    <3> QED BY <1>9, <3>1, <3>2
  <2>3. asleep' \in [Window -> BOOLEAN]
    BY <1>1, <2>2
  <2> QED BY <1>1, <1>3, <2>1, <2>3, ListedIs DEF WindowsOK
<1>10. ASSUME NEW o \in Opener, StartWindow(o) PROVE WindowsOK'
  <2>1. /\ UNCHANGED <<list, asleep, timerSent, closing>>
        /\ \E w \in Window : proc[w] = "none" /\ proc' = [proc EXCEPT ![w] = "created"]
    BY <1>10 DEF StartWindow
  <2>2. \A v \in Window : v \in Range(list') <=> proc'[v] \in InList
    BY <1>1, <2>1 DEF InList
  <2>3. proc' \in [Window -> Proc]
    BY <1>1, <2>1 DEF Proc
  <2> QED BY <1>1, <2>1, <2>2, <2>3, ListedIs DEF WindowsOK
<1>11. ASSUME \/ UNCHANGED vars \/ CloseWindowMsg \/ WaitReply \/ Answered
              \/ LeaveMainWait \/ Signalled \/ LockForQuit \/ AskToClose \/ Relock
              \/ Closed \/ FollowFreed \/ AllAsked
              \/ WaitForQuit
              \/ \E a \in Asker : AskSleep(a) \/ Reset(a) \/ AskWakeup(a)
              \/ \E o \in Opener : FindWindow(o) \/ ActivateIt(o)
       PROVE  WindowsOK'
  <2>1. Quiet
    BY <1>11 DEF vars, windowVars, CloseWindowMsg, WaitReply, Answered, LeaveMainWait,
      Signalled, LockForQuit,
      AskToClose, Relock, Closed, FollowFreed, AllAsked, WaitForQuit, AskSleep, Reset,
      AskWakeup, FindWindow, ActivateIt
  <2> QED BY <1>1, <2>1, ListedIs DEF WindowsOK
<1> HIDE DEF Quiet, QuietList
<1>12. ASSUME NEW w \in Window, Begin(w) PROVE WindowsOK'
  <2>1. /\ UNCHANGED <<list, asleep, timerSent, closing>>
        /\ proc[w] = "created" /\ proc' = [proc EXCEPT ![w] = "opened"]
    BY <1>12 DEF Begin
  <2>2. \A v \in Window : v \in Range(list') <=> proc'[v] \in InList
    BY <1>1, <2>1 DEF InList
  <2>3. proc' \in [Window -> Proc]
    BY <1>1, <2>1 DEF Proc
  <2> QED BY <1>1, <2>1, <2>2, <2>3, ListedIs DEF WindowsOK
<1>13. WindowsOK'
  BY <1>4, <1>5, <1>6, <1>7, <1>8, <1>9, <1>10, <1>11, <1>12
  DEF Next, MainStep, WindowStep
<1> QED BY <1>13, ListedIs DEF WindowsOK

(***************************************************************************)
(* What the first message of a window is, and what the main task sends.    *)
(***************************************************************************)
LEMMA FirstMessage ==
  ASSUME PortsOK, NEW w \in Window, Handle(w)
  PROVE  LET type == Head(port[w]).type
         IN  /\ type \in WindowMessage /\ Head(port[w]) = Request(type)
             /\ port[w] # << >> /\ port[w] \in Seq(WindowRequest)
             /\ Reply(w, type) \in MainMessage
             /\ port' = [port EXCEPT ![w] = Tail(port[w])]
             /\ mainPort' = Append(mainPort, Reply(w, type))
<1>1. port[w] # << >> /\ port[w] \in Seq(WindowRequest)
  BY DEF PortsOK, Handle
<1>2. Head(port[w]) \in WindowRequest
  BY <1>1, TailFacts
<1>3. PICK type \in WindowMessage : Head(port[w]) = Request(type)
  BY <1>2 DEF WindowRequest
<1>4. Head(port[w]).type = type
  BY <1>3 DEF Request
<1>5. Reply(w, type) \in MainMessage
  BY DEF MainMessage
<1> QED BY <1>1, <1>3, <1>4, <1>5 DEF Handle

LEMMA SendFacts ==
  ASSUME PortsOK, NEW S \in SUBSET Window, NEW type \in WindowMessage, Send(S, type)
  PROVE  /\ port' \in [Window -> Seq(WindowRequest)]
         /\ \A w \in Window : port'[w] = IF w \in S THEN Append(port[w], Request(type)) ELSE port[w]
<1>1. \A w \in Window : port[w] \in Seq(WindowRequest)
  BY DEF PortsOK
<1>2. Request(type) \in WindowRequest
  BY DEF WindowRequest
<1>3. \A w \in Window : Append(port[w], Request(type)) \in Seq(WindowRequest)
  BY <1>1, <1>2, AppendFacts
<1>4. port' = [w \in Window |-> IF w \in S THEN Append(port[w], Request(type)) ELSE port[w]]
  BY DEF Send
<1> HIDE DEF Send
<1> QED BY <1>1, <1>3, <1>4

(***************************************************************************)
(* What the main task sends to windows that are in the list.               *)
(***************************************************************************)
LEMMA SendsTimers ==
  ASSUME PortsOK, ProcessTimerMessage
  PROVE  \E S \in SUBSET {w \in Window : Due(w)} : \E got \in SUBSET S :
           /\ timerSent' = [w \in Window |-> timerSent[w] \/ w \in S]
           /\ port' \in [Window -> Seq(WindowRequest)]
           /\ \A w \in Window :
                port'[w] = IF w \in got THEN Append(port[w], Request("Timer")) ELSE port[w]
           /\ ghost' = [ghost EXCEPT !.noTimer = @ \cup (S \ got)]
<1>1. \A S : Some(S) \subseteq SUBSET S
  BY DEF Some
<1>2. PICK S \in SUBSET {w \in Window : Due(w)} : \E got \in Some(S) :
        /\ timerSent' = [w \in Window |-> timerSent[w] \/ w \in S]
        /\ Send(got, "Timer")
        /\ ghost' = [ghost EXCEPT !.noTimer = @ \cup (S \ got)]
  BY DEF ProcessTimerMessage
<1>3. PICK got \in SUBSET S :
        /\ timerSent' = [w \in Window |-> timerSent[w] \/ w \in S]
        /\ Send(got, "Timer")
        /\ ghost' = [ghost EXCEPT !.noTimer = @ \cup (S \ got)]
  BY <1>1, <1>2
<1>4. got \in SUBSET Window /\ "Timer" \in WindowMessage
  BY DEF WindowMessage
<1>5. /\ port' \in [Window -> Seq(WindowRequest)]
      /\ \A w \in Window :
           port'[w] = IF w \in got THEN Append(port[w], Request("Timer")) ELSE port[w]
  BY <1>3, <1>4, SendFacts
<1> QED BY <1>3, <1>5

LEMMA SendsSleep ==
  ASSUME PortsOK, WindowsOK, AppSleepMsg
  PROVE  \E a \in Asker : \E got \in SUBSET {w \in Window : Listed(w) /\ ~asleep[w]} :
           /\ mainPort # << >> /\ Head(mainPort) = RequestOf(a, "AppSleep")
           /\ mainPort' = Tail(mainPort) /\ main = "wait" /\ main' = "sleep" /\ serving' = a
           /\ port' \in [Window -> Seq(WindowRequest)]
           /\ \A w \in Window :
                port'[w] = IF w \in got THEN Append(port[w], Request("Sleep")) ELSE port[w]
           /\ waitCount' = Cardinality(got) /\ ghost' = [ghost EXCEPT !.freed = 0]
           /\ \A w \in Window : asleep'[w] => asleep[w] \/ Listed(w)
<1>1. \A S : Some(S) \subseteq SUBSET S
  BY DEF Some
<1> DEFINE awake == {w \in Window : Listed(w) /\ ~asleep[w]}
<1>2. PICK a \in Asker :
        /\ mainPort # << >> /\ Head(mainPort) = RequestOf(a, "AppSleep")
        /\ mainPort' = Tail(mainPort) /\ main = "wait" /\ main' = "sleep" /\ serving' = a
        /\ \E got \in Some(awake \ {MainWindow}) :
             /\ Send(got, "Sleep") /\ waitCount' = Cardinality(got)
             /\ ghost' = [ghost EXCEPT !.freed = 0]
             /\ asleep' = [asleep EXCEPT ![MainWindow] =
                             @ \/ (MainWindow \in awake /\ Shown(MainWindow))]
  BY DEF AppSleepMsg, Arrives
<1>3. PICK got \in SUBSET (awake \ {MainWindow}) :
        /\ Send(got, "Sleep") /\ waitCount' = Cardinality(got)
        /\ ghost' = [ghost EXCEPT !.freed = 0]
        /\ asleep' = [asleep EXCEPT ![MainWindow] =
                        @ \/ (MainWindow \in awake /\ Shown(MainWindow))]
  BY <1>1, <1>2
<1>4. got \in SUBSET Window /\ got \in SUBSET awake /\ "Sleep" \in WindowMessage
  BY DEF WindowMessage
<1>5. /\ port' \in [Window -> Seq(WindowRequest)]
      /\ \A w \in Window :
           port'[w] = IF w \in got THEN Append(port[w], Request("Sleep")) ELSE port[w]
  BY <1>3, <1>4, SendFacts
<1>6. \A w \in Window : asleep'[w] => asleep[w] \/ Listed(w)
  BY <1>3, Actors DEF WindowsOK
<1> HIDE DEF Send
<1> QED BY <1>2, <1>3, <1>4, <1>5, <1>6

LEMMA SendsWakeup ==
  ASSUME PortsOK, TasksOK, WindowsOK, AppWakeupMsg
  PROVE  \E a \in Asker : \E got \in SUBSET {w \in Window : Listed(w) /\ asleep[w]} :
           /\ mainPort # << >> /\ Head(mainPort) = RequestOf(a, "AppWakeup")
           /\ mainPort' = Tail(mainPort) /\ main = "wait" /\ main' = "wakeup" /\ serving' = a
           /\ port' \in [Window -> Seq(WindowRequest)]
           /\ \A w \in Window :
                port'[w] = IF w \in got THEN Append(port[w], Request("Wakeup")) ELSE port[w]
           /\ waitCount' = Cardinality(got)
           /\ ghost' = [ghost EXCEPT !.freed = 0, !.failed = ghost'.failed]
           /\ ghost'.failed \in BOOLEAN
           /\ \A w \in Window : asleep'[w] => asleep[w]
           /\ ~ghost'.failed => /\ ~ghost.failed
                                /\ \A w \in Window : Listed(w) /\ asleep'[w] => w \in got
<1>1. \A S : Some(S) \subseteq SUBSET S
  BY DEF Some
<1>2. PICK a \in Asker :
        /\ mainPort # << >> /\ Head(mainPort) = RequestOf(a, "AppWakeup")
        /\ mainPort' = Tail(mainPort) /\ main = "wait" /\ main' = "wakeup" /\ serving' = a
        /\ \E got \in Some(Sleeping \ {MainWindow}), woken \in Some(Sleeping \cap {MainWindow}) :
             /\ Send(got, "Wakeup") /\ waitCount' = Cardinality(got)
             /\ asleep' = [asleep EXCEPT ![MainWindow] = @ /\ MainWindow \notin woken]
             /\ ghost' = [ghost EXCEPT !.freed = 0, !.failed = @ \/ got \cup woken # Sleeping]
  BY DEF AppWakeupMsg, Arrives
<1>3. PICK got \in Some(Sleeping \ {MainWindow}) : \E woken \in Some(Sleeping \cap {MainWindow}) :
        /\ Send(got, "Wakeup") /\ waitCount' = Cardinality(got)
        /\ asleep' = [asleep EXCEPT ![MainWindow] = @ /\ MainWindow \notin woken]
        /\ ghost' = [ghost EXCEPT !.freed = 0, !.failed = @ \/ got \cup woken # Sleeping]
  BY <1>2
<1>4. PICK woken \in Some(Sleeping \cap {MainWindow}) :
        /\ asleep' = [asleep EXCEPT ![MainWindow] = @ /\ MainWindow \notin woken]
        /\ ghost' = [ghost EXCEPT !.freed = 0, !.failed = @ \/ got \cup woken # Sleeping]
  BY <1>3
<1>5. got \subseteq Sleeping /\ woken \subseteq {MainWindow}
  BY <1>1
<1>6. got \in SUBSET Window /\ got \in SUBSET Sleeping /\ "Wakeup" \in WindowMessage
  BY <1>5 DEF WindowMessage, Sleeping
<1>7. /\ port' \in [Window -> Seq(WindowRequest)]
      /\ \A w \in Window :
           port'[w] = IF w \in got THEN Append(port[w], Request("Wakeup")) ELSE port[w]
  BY <1>3, <1>6, SendFacts
<1>8. /\ ghost'.failed \in BOOLEAN /\ (~ghost'.failed => ~ghost.failed /\ got \cup woken = Sleeping)
      /\ ghost' = [ghost EXCEPT !.freed = 0, !.failed = ghost'.failed]
  BY <1>4 DEF TasksOK
<1>9. /\ \A w \in Window : asleep'[w] => asleep[w]
      /\ MainWindow \in woken => ~asleep'[MainWindow]
  BY <1>4, Actors DEF WindowsOK
<1>10. ~ghost'.failed => \A w \in Window : Listed(w) /\ asleep'[w] => w \in got
  <2> SUFFICES ASSUME ~ghost'.failed, NEW w \in Window, Listed(w), asleep'[w]
               PROVE  w \in got
    OBVIOUS
  <2>1. w \in Sleeping
    BY <1>9 DEF Sleeping
  <2>2. w \in got \/ w \in woken
    BY <1>8, <2>1
  <2> QED BY <1>9, <1>5, <2>2
<1> HIDE DEF Send
<1> QED BY <1>2, <1>3, <1>6, <1>7, <1>8, <1>9, <1>10 DEF Sleeping

LEMMA AsksToClose ==
  ASSUME PortsOK, WindowsOK, AskToClose
  PROVE  /\ next \in Window /\ Listed(next)
         /\ \/ /\ port' \in [Window -> Seq(WindowRequest)]
               /\ \A w \in Window :
                    port'[w] = IF w \in {next} THEN Append(port[w], Request("CloseWindow"))
                               ELSE port[w]
               /\ waitCount' = 1 /\ ghost' = [ghost EXCEPT !.freed = 0]
               /\ lock' = Drop(lock, Main) /\ main' = "relock"
            \/ UNCHANGED <<port, waitCount, ghost, lock, main>>
<1>1. Listed(next) /\ next \in Window
  BY DEF AskToClose, Listed, WindowsOK
<1>2. ASSUME Send({next}, "CloseWindow")
      PROVE  /\ port' \in [Window -> Seq(WindowRequest)]
             /\ \A w \in Window :
                  port'[w] = IF w \in {next} THEN Append(port[w], Request("CloseWindow"))
                             ELSE port[w]
  <2>1. {next} \in SUBSET Window /\ "CloseWindow" \in WindowMessage
    BY <1>1 DEF WindowMessage
  <2> HIDE DEF Send
  <2> QED BY <1>2, <2>1, SendFacts
<1>3. \/ /\ Send({next}, "CloseWindow") /\ waitCount' = 1 /\ ghost' = [ghost EXCEPT !.freed = 0]
         /\ lock' = Drop(lock, Main) /\ main' = "relock"
      \/ UNCHANGED <<port, waitCount, ghost, lock, main>>
  BY DEF AskToClose
<1> HIDE DEF Send
<1> QED BY <1>1, <1>2, <1>3

(***************************************************************************)
(* The messages stay messages.                                             *)
(***************************************************************************)
LEMMA PortsKept ==
  ASSUME Basic, [Next]_vars
  PROVE  PortsOK'
<1>1. /\ PortsOK /\ WindowsOK /\ TasksOK
      /\ port \in [Window -> Seq(WindowRequest)] /\ mainPort \in Seq(MainMessage)
  BY DEF Basic, PortsOK
<1> SUFFICES port' \in [Window -> Seq(WindowRequest)] /\ mainPort' \in Seq(MainMessage)
  BY DEF PortsOK
<1> DEFINE Goal == port' \in [Window -> Seq(WindowRequest)] /\ mainPort' \in Seq(MainMessage)
<1>2. ASSUME NEW w \in Window, Handle(w) PROVE Goal
  <2> DEFINE m == Reply(w, Head(port[w]).type)
  <2>1. /\ m \in MainMessage /\ mainPort' = Append(mainPort, m)
        /\ port[w] # << >> /\ port[w] \in Seq(WindowRequest)
        /\ port' = [port EXCEPT ![w] = Tail(port[w])]
    BY <1>1, <1>2, FirstMessage
  <2> HIDE DEF m
  <2>2. Append(mainPort, m) \in Seq(MainMessage)
    BY <1>1, <2>1, AppendFacts
  <2>3. Tail(port[w]) \in Seq(WindowRequest)
    BY <2>1, TailFacts
  <2> QED BY <1>1, <2>1, <2>2, <2>3
<1>3. ASSUME NEW w \in Window, End(w) PROVE Goal
  <2>1. /\ port' = [port EXCEPT ![w] = << >>]
        /\ mainPort' \in {Append(mainPort, RequestOf(MainWindow, "CloseScalos")), mainPort}
    BY <1>3 DEF End
  <2>2. RequestOf(MainWindow, "CloseScalos") \in MainMessage /\ << >> \in Seq(WindowRequest)
    BY EmptySeq DEF MainMessage
  <2>3. port' \in [Window -> Seq(WindowRequest)]
    BY <1>1, <2>1, <2>2
  <2> QED BY <1>1, <2>1, <2>2, <2>3, AppendFacts
<1>4. ASSUME ProcessTimerMessage PROVE Goal
  <2>1. UNCHANGED mainPort
    BY <1>4 DEF ProcessTimerMessage, mainVars
  <2> QED BY <1>1, <1>4, <2>1, SendsTimers
<1>5. ASSUME AppSleepMsg PROVE Goal
  <2>1. /\ port' \in [Window -> Seq(WindowRequest)]
        /\ mainPort # << >> /\ mainPort' = Tail(mainPort)
    BY <1>1, <1>5, SendsSleep
  <2> QED BY <1>1, <2>1, TailFacts
<1>6. ASSUME AppWakeupMsg PROVE Goal
  <2>1. /\ port' \in [Window -> Seq(WindowRequest)]
        /\ mainPort # << >> /\ mainPort' = Tail(mainPort)
    BY <1>1, <1>6, SendsWakeup
  <2> QED BY <1>1, <2>1, TailFacts
<1>7. ASSUME AskToClose PROVE Goal
  <2>1. UNCHANGED mainPort
    BY <1>7 DEF AskToClose
  <2> QED BY <1>1, <1>7, <2>1, AsksToClose
<1>8. ASSUME TimerReplyMsg \/ CloseWindowMsg \/ WaitReply PROVE Goal
  <2>1. UNCHANGED port /\ mainPort # << >> /\ mainPort' = Tail(mainPort)
    BY <1>8 DEF TimerReplyMsg, CloseWindowMsg, WaitReply, Arrives, windowVars
  <2> QED BY <1>1, <2>1, TailFacts
<1>9. ASSUME NEW a \in Asker, AskSleep(a) \/ AskWakeup(a) PROVE Goal
  <2>1. /\ UNCHANGED port
        /\ mainPort' \in {mainPort, Append(mainPort, RequestOf(a, "AppSleep")),
                          Append(mainPort, RequestOf(a, "AppWakeup"))}
    BY <1>9 DEF AskSleep, AskWakeup, windowVars
  <2>2. RequestOf(a, "AppSleep") \in MainMessage /\ RequestOf(a, "AppWakeup") \in MainMessage
    BY DEF MainMessage
  <2>3. \A m \in MainMessage : Append(mainPort, m) \in Seq(MainMessage)
    BY <1>1, AppendFacts
  <2> QED BY <1>1, <2>1, <2>2, <2>3
<1>10. ASSUME \/ UNCHANGED vars \/ Answered
              \/ LeaveMainWait \/ Signalled \/ LockForQuit \/ Relock \/ Closed
              \/ FollowFreed \/ AllAsked \/ WaitForQuit
              \/ \E w \in Window : \/ Begin(w) \/ EnterList(w) \/ UserCloses(w) \/ Obeys(w)
                                   \/ CloseIt(w) \/ Dispose(w)
              \/ \E a \in Asker : Reset(a)
              \/ \E o \in Opener : FindWindow(o) \/ ActivateIt(o) \/ StartWindow(o)
       PROVE  Goal
  <2>1. UNCHANGED <<port, mainPort>>
    BY <1>10 DEF vars, windowVars, mainVars, Answered, LeaveMainWait, Signalled,
      LockForQuit, Relock, Closed,
      FollowFreed, AllAsked, WaitForQuit, Begin, EnterList, UserCloses, Obeys, Leave,
      CloseIt, Dispose,
      Reset, FindWindow, ActivateIt, StartWindow
  <2> QED BY <1>1, <2>1
<1> HIDE DEF Goal
<1>11. Goal
  BY <1>2, <1>3, <1>4, <1>5, <1>6, <1>7, <1>8, <1>9, <1>10 DEF Next, MainStep, WindowStep
<1> QED BY <1>11 DEF Goal

(***************************************************************************)
(* The first message of the main task.                                     *)
(***************************************************************************)
LEMMA MainFirst ==
  ASSUME PortsOK, mainPort # << >>
  PROVE  LET m == Head(mainPort)
         IN  /\ m.kind \in {"request", "reply"}
             /\ m.kind = "reply" => /\ m.from \in Window /\ m.type \in WindowMessage
                                    /\ m = Reply(m.from, m.type)
             /\ m.kind = "request" =>
                  /\ m.type \in {"AppSleep", "AppWakeup", "CloseScalos"}
                  /\ m = RequestOf(m.from, m.type)
             /\ m.type = "Timer" => m.kind = "reply"
<1> DEFINE m == Head(mainPort)
<1>1. m \in MainMessage
  BY TailFacts DEF PortsOK
<1> HIDE DEF m
<1>2. CASE \E w \in Window, type \in WindowMessage : m = Reply(w, type)
  <2> PICK w \in Window, type \in WindowMessage : m = Reply(w, type)
    BY <1>2
  <2> QED BY DEF Reply, m
<1>3. CASE \E a : \E type \in {"AppSleep", "AppWakeup", "CloseScalos"} : m = RequestOf(a, type)
  <2> PICK a : \E type \in {"AppSleep", "AppWakeup", "CloseScalos"} : m = RequestOf(a, type)
    BY <1>3
  <2> PICK type \in {"AppSleep", "AppWakeup", "CloseScalos"} : m = RequestOf(a, type)
    OBVIOUS
  <2>1. m.kind = "request" /\ m.type = type /\ m.from = a
    BY DEF RequestOf
  <2> QED BY <2>1 DEF m
<1> QED BY <1>1, <1>2, <1>3 DEF MainMessage

(***************************************************************************)
(* A window list that nobody holds.                                        *)
(***************************************************************************)
LEMMA NobodyHolds ==
  ASSUME Locks, Alone
  PROVE  /\ main \notin {"wakeup", "quit", "quitwait", "astray"}
         /\ \A o \in Opener : opener[o] \notin Window
<1>1. \A t \in Task : lock.nest[t] = 0
  BY DEF Alone, Idle
<1>2. lock.nest[Main] = 0 /\ \A o \in Opener : lock.nest[o] = 0
  BY <1>1, Actors
<1> QED BY <1>2 DEF Locks

LEMMA LocksKept ==
  ASSUME Basic, [Next]_vars
  PROVE  Locks'
<1>1. /\ lock \in SemaphoreType /\ Exclusive(lock)
      /\ lock.nest[Main] = IF main \in {"wakeup", "quit", "quitwait", "astray"} THEN 1 ELSE 0
      /\ \A o \in Opener : lock.nest[o] = IF opener[o] \in Window THEN 1 ELSE 0
      /\ opener \in [Opener -> Window \cup {"start", "done"}]
      /\ main \in MainPlace
  BY DEF Basic, Locks, TasksOK
<1>2. Main \in Task /\ Opener \subseteq Task /\ Main \notin Opener
      /\ "done" \notin Window /\ "start" \notin Window
  BY Actors
<1> DEFINE Goal == Locks'
<1>3. ASSUME AppWakeupMsg \/ LockForQuit PROVE Goal
  <2>1. /\ CanExclusive(lock, Main) /\ lock' = GrabExclusive(lock, Main)
        /\ main \in {"wait", "unpatched"} /\ main' \in {"wakeup", "quit"}
        /\ UNCHANGED opener
    BY <1>3 DEF AppWakeupMsg, LockForQuit, Arrives
  <2>2. /\ lock' \in SemaphoreType /\ Exclusive(lock')
        /\ \A u \in Task : lock'.nest[u] = lock.nest[u] + IF u = Main THEN 1 ELSE 0
    BY <1>1, <1>2, <2>1, GrabExclusiveFacts
  <2>3. lock.nest[Main] = 0
    BY <1>1, <2>1
  <2>4. lock'.nest[Main] = 1
    BY <1>2, <2>2, <2>3
  <2>5. \A o \in Opener : lock.nest[o] \in Nat /\ lock'.nest[o] = lock.nest[o]
    BY <1>1, <1>2, <2>2
  <2>6. Exclusive(lock)'
    BY <2>2 DEF Exclusive, Holds
  <2> QED BY <1>1, <2>1, <2>2, <2>4, <2>5, <2>6 DEF Locks
<1>4. ASSUME Relock PROVE Goal
  <2>1. /\ CanShared(lock, Main) /\ lock' = GrabShared(lock, Main)
        /\ main = "relock" /\ main' = "quitwait" /\ UNCHANGED opener
    BY <1>4 DEF Relock
  <2>2. /\ lock' \in SemaphoreType /\ Exclusive(lock')
        /\ \A u \in Task : lock'.nest[u] = lock.nest[u] + IF u = Main THEN 1 ELSE 0
    BY <1>1, <1>2, <2>1, GrabSharedFacts
  <2>3. lock.nest[Main] = 0
    BY <1>1, <2>1
  <2>4. lock'.nest[Main] = 1
    BY <1>2, <2>2, <2>3
  <2>5. \A o \in Opener : lock.nest[o] \in Nat /\ lock'.nest[o] = lock.nest[o]
    BY <1>1, <1>2, <2>2
  <2>6. Exclusive(lock)'
    BY <2>2 DEF Exclusive, Holds
  <2> QED BY <1>1, <2>1, <2>2, <2>4, <2>5, <2>6 DEF Locks
<1>5. ASSUME main \in {"wakeup", "quit"}, lock' = Drop(lock, Main),
             main' \in {"wait", "relock", "drain"}, UNCHANGED opener
      PROVE  Goal
  <2>1. lock.nest[Main] = 1 /\ Holds(lock, Main)
    BY <1>1, <1>5 DEF Holds
  <2>2. /\ lock' \in SemaphoreType /\ Exclusive(lock')
        /\ \A u \in Task : lock'.nest[u] = lock.nest[u] - IF u = Main THEN 1 ELSE 0
    BY <1>1, <1>2, <1>5, <2>1, DropFacts
  <2>4. lock'.nest[Main] = 0
    BY <1>2, <2>1, <2>2
  <2>5. \A o \in Opener : lock.nest[o] \in Nat /\ lock'.nest[o] = lock.nest[o]
    BY <1>1, <1>2, <2>2
  <2>6. Exclusive(lock)'
    BY <2>2 DEF Exclusive, Holds
  <2> QED BY <1>1, <1>5, <2>2, <2>4, <2>5, <2>6 DEF Locks
<1>6. ASSUME NEW o \in Opener, FindWindow(o) PROVE Goal
  <2>1. /\ CanShared(lock, o) /\ lock' = GrabShared(lock, o) /\ UNCHANGED main
        /\ opener[o] = "start" /\ \E w \in Window : opener' = [opener EXCEPT ![o] = w]
    BY <1>6 DEF FindWindow, mainVars
  <2>2. /\ lock' \in SemaphoreType /\ Exclusive(lock')
        /\ \A u \in Task : lock'.nest[u] = lock.nest[u] + IF u = o THEN 1 ELSE 0
    BY <1>1, <1>2, <2>1, GrabSharedFacts
  <2>3. lock.nest[o] = 0 /\ opener'[o] \in Window
    BY <1>1, <1>2, <2>1
  <2>4. lock'.nest[o] = 1 /\ lock'.nest[Main] = lock.nest[Main]
    BY <1>1, <1>2, <2>2, <2>3
  <2>5. \A v \in Opener \ {o} : /\ lock.nest[v] \in Nat /\ lock'.nest[v] = lock.nest[v]
                                /\ opener'[v] = opener[v]
    BY <1>1, <1>2, <2>1, <2>2
  <2>6. Exclusive(lock)'
    BY <2>2 DEF Exclusive, Holds
  <2> QED BY <1>1, <2>1, <2>2, <2>3, <2>4, <2>5, <2>6 DEF Locks
<1>7. ASSUME NEW o \in Opener, ActivateIt(o) PROVE Goal
  <2>1. /\ lock' = Drop(lock, o) /\ UNCHANGED main
        /\ opener[o] \in Window /\ opener' = [opener EXCEPT ![o] = "done"]
    BY <1>7 DEF ActivateIt, mainVars
  <2>2. lock.nest[o] = 1 /\ Holds(lock, o) /\ opener'[o] \notin Window
    BY <1>1, <1>2, <2>1 DEF Holds
  <2>3. /\ lock' \in SemaphoreType /\ Exclusive(lock')
        /\ \A u \in Task : lock'.nest[u] = lock.nest[u] - IF u = o THEN 1 ELSE 0
    BY <1>1, <1>2, <2>1, <2>2, DropFacts
  <2>4. lock'.nest[o] = 0 /\ lock'.nest[Main] = lock.nest[Main]
    BY <1>1, <1>2, <2>2, <2>3
  <2>5. \A v \in Opener \ {o} : /\ lock.nest[v] \in Nat /\ lock'.nest[v] = lock.nest[v]
                                /\ opener'[v] = opener[v]
    BY <1>1, <1>2, <2>1, <2>3
  <2>6. Exclusive(lock)'
    BY <2>3 DEF Exclusive, Holds
  <2> QED BY <1>1, <2>1, <2>2, <2>3, <2>4, <2>5, <2>6 DEF Locks
<1>8. ASSUME NEW o \in Opener, StartWindow(o) PROVE Goal
  <2>1. /\ UNCHANGED <<lock, main>> /\ opener[o] = "start"
        /\ opener' = [opener EXCEPT ![o] = "done"]
    BY <1>8 DEF StartWindow, mainVars
  <2>2. \A v \in Opener : opener'[v] \in Window <=> opener[v] \in Window
    BY <1>1, <1>2, <2>1
  <2>3. Exclusive(lock)'
    BY <1>1, <2>1 DEF Exclusive, Holds
  <2> QED BY <1>1, <2>1, <2>2, <2>3 DEF Locks
<1>9. ASSUME UNCHANGED lock, UNCHANGED opener,
             \/ main' = main
             \/ /\ main \in {"wait", "refused", "sleep", "drain"}
                /\ main' \in {"wait", "refused", "unpatched", "sleep", "done"}
             \/ main \in {"quitwait", "quit"} /\ main' \in {"quit", "astray"}
      PROVE  Goal
  <2>1. Exclusive(lock)'
    BY <1>1, <1>9 DEF Exclusive, Holds
  <2> QED BY <1>1, <1>9, <2>1 DEF Locks
<1>10. ASSUME \/ UNCHANGED vars
              \/ \E w \in Window : \/ Begin(w) \/ EnterList(w) \/ Handle(w) \/ UserCloses(w) \/ Obeys(w)
                                   \/ CloseIt(w) \/ Dispose(w) \/ End(w)
              \/ ProcessTimerMessage \/ TimerReplyMsg \/ CloseWindowMsg \/ WaitReply
              \/ \E a \in Asker : AskSleep(a) \/ Reset(a) \/ AskWakeup(a)
       PROVE  Goal
  <2>1. UNCHANGED lock /\ UNCHANGED opener /\ UNCHANGED main
    BY <1>10 DEF vars, mainVars, Begin, EnterList, Handle, UserCloses, Obeys, Leave,
      CloseIt,
      Dispose, End, ProcessTimerMessage, TimerReplyMsg, CloseWindowMsg, WaitReply,
      AskSleep, Reset, AskWakeup
  <2> HIDE DEF Goal
  <2> QED BY <1>9, <2>1
<1>11. ASSUME \/ AppSleepMsg \/ Closed \/ FollowFreed \/ WaitForQuit
              \/ LeaveMainWait \/ Signalled
       PROVE  Goal
  <2>1. /\ UNCHANGED <<lock, opener>>
        /\ \/ main = "wait" /\ main' \in {"sleep", "unpatched", "refused"}
           \/ main = "refused" /\ main' = "wait"
           \/ main = "quitwait" /\ main' = "quit"
           \/ main = "quit" /\ main' = "astray"
           \/ main = "drain" /\ main' = "done"
    BY <1>11 DEF AppSleepMsg, Arrives, Closed, FollowFreed, WaitForQuit, LeaveMainWait,
      Signalled
  <2> HIDE DEF Goal
  <2> QED BY <1>9, <2>1
<1>12. ASSUME Answered \/ AskToClose \/ AllAsked PROVE Goal
  <2>1. UNCHANGED opener
    BY <1>12 DEF Answered, AskToClose, AllAsked
  <2>2. \/ main = "sleep" /\ main' = "wait" /\ UNCHANGED lock
        \/ main = "quit" /\ UNCHANGED <<lock, main>>
        \/ /\ main \in {"wakeup", "quit"} /\ main' \in {"wait", "relock", "drain"}
           /\ lock' = Drop(lock, Main)
    BY <1>12 DEF Answered, AskToClose, AllAsked
  <2> HIDE DEF Goal
  <2> QED BY <1>5, <1>9, <2>1, <2>2
<1> HIDE DEF Goal
<1>13. Goal
  BY <1>3, <1>4, <1>6, <1>7, <1>8, <1>10, <1>11, <1>12 DEF Next, MainStep, WindowStep
<1> QED BY <1>13 DEF Goal

LEMMA FoundKept ==
  ASSUME Basic, [Next]_vars
  PROVE  Found'
<1>1. \A o \in Opener : opener[o] \in Window => opener[o] \in Range(list)
  BY ListedIs DEF Basic, Found
<1>2. WindowsOK /\ Locks /\ opener \in [Opener -> Window \cup {"start", "done"}]
  BY DEF Basic, TasksOK
<1> DEFINE Goal == \A o \in Opener : opener'[o] \in Window => opener'[o] \in Range(list')
<1>3. ASSUME NEW w \in Window, EnterList(w) PROVE Goal
  <2>1. Range(list') = Range(list) \cup {w} /\ UNCHANGED opener
    BY <1>2, <1>3, EntersList DEF EnterList
  <2> QED BY <1>1, <2>1
<1>4. ASSUME NEW w \in Window, Dispose(w) PROVE Goal
  <2>1. Alone /\ UNCHANGED opener
    BY <1>4 DEF Dispose
  <2> QED BY <1>2, <2>1, NobodyHolds
<1>5. ASSUME NEW o \in Opener, FindWindow(o) PROVE Goal
  <2>1. /\ UNCHANGED list
        /\ \E w \in Range(list) : opener' = [opener EXCEPT ![o] = w]
    BY <1>5, ListedIs DEF FindWindow, windowVars
  <2> QED BY <1>1, <1>2, <2>1
<1>6. ASSUME NEW o \in Opener, ActivateIt(o) \/ StartWindow(o) PROVE Goal
  <2>1. UNCHANGED list /\ opener' = [opener EXCEPT ![o] = "done"]
    BY <1>6 DEF ActivateIt, StartWindow, windowVars
  <2>2. "done" \notin Window
    BY Actors
  <2> QED BY <1>1, <1>2, <2>1, <2>2
<1>7. ASSUME \/ UNCHANGED vars \/ MainStep \/ Signalled \/ ProcessTimerMessage
             \/ \E w \in Window : \/ Begin(w) \/ Handle(w) \/ UserCloses(w) \/ Obeys(w) \/ CloseIt(w)
                                  \/ End(w)
             \/ \E a \in Asker : AskSleep(a) \/ Reset(a) \/ AskWakeup(a)
      PROVE  Goal
  <2>1. UNCHANGED <<list, opener>>
    BY <1>7 DEF vars, windowVars, MainStep, TimerReplyMsg, CloseWindowMsg, AppSleepMsg,
      AppWakeupMsg, WaitReply, Answered, LeaveMainWait, Signalled, LockForQuit,
      AskToClose, Relock, Closed,
      FollowFreed, AllAsked, WaitForQuit, ProcessTimerMessage, Begin, Handle, UserCloses,
      Obeys, Leave, CloseIt, End, AskSleep, Reset, AskWakeup
  <2> QED BY <1>1, <2>1
<1> HIDE DEF Goal
<1>8. Goal
  BY <1>3, <1>4, <1>5, <1>6, <1>7 DEF Next, WindowStep
<1> QED BY <1>8, ListedIs DEF Goal, Found

LEMMA FreshKept ==
  ASSUME Basic, [Next]_vars
  PROVE  Fresh'
<1>1. /\ WindowsOK /\ PortsOK /\ TasksOK
      /\ \A w \in Window : proc[w] \in NotYet =>
           ~Listed(w) /\ port[w] = << >> /\ ~asleep[w] /\ ~timerSent[w] /\ ~closing[w]
      /\ proc \in [Window -> Proc] /\ port \in [Window -> Seq(WindowRequest)]
      /\ asleep \in [Window -> BOOLEAN] /\ timerSent \in [Window -> BOOLEAN]
      /\ closing \in [Window -> BOOLEAN]
  BY DEF Basic, Fresh, WindowsOK, PortsOK, NotYet, InList
<1> DEFINE Goal == \A v \in Window : proc'[v] \in NotYet =>
                     port'[v] = << >> /\ ~asleep'[v] /\ ~timerSent'[v] /\ ~closing'[v]
<1>2. ASSUME NEW w \in Window,
             \/ EnterList(w) \/ UserCloses(w) \/ Obeys(w) \/ CloseIt(w) \/ Dispose(w)
      PROVE  Goal
  <2>1. /\ UNCHANGED <<port, asleep, timerSent, closing>>
        /\ \E s \in {"listed", "leaving", "closed", "unlisted"} : proc' = [proc EXCEPT ![w] = s]
    BY <1>2 DEF EnterList, UserCloses, Obeys, Leave, CloseIt, Dispose
  <2>2. \A v \in Window : proc'[v] \in NotYet => proc[v] \in NotYet
    BY <1>1, <2>1 DEF NotYet
  <2> QED BY <1>1, <2>1, <2>2
<1>3. ASSUME NEW w \in Window, End(w) PROVE Goal
  <2>1. /\ UNCHANGED <<asleep, timerSent, closing>>
        /\ proc' = [proc EXCEPT ![w] = "gone"] /\ port' = [port EXCEPT ![w] = << >>]
    BY <1>3 DEF End
  <2>2. \A v \in Window : proc'[v] \in NotYet => v # w /\ proc[v] \in NotYet
    BY <1>1, <2>1 DEF NotYet
  <2> QED BY <1>1, <2>1, <2>2
<1>4. ASSUME NEW w \in Window, Handle(w) PROVE Goal
  <2>1. proc[w] \notin NotYet /\ UNCHANGED <<proc, timerSent>>
    BY <1>4 DEF Handle, NotYet
  <2>2. \A v \in Window \ {w} : /\ port'[v] = port[v] /\ asleep'[v] = asleep[v]
                                /\ closing'[v] = closing[v]
    BY <1>1, <1>4 DEF Handle
  <2> QED BY <1>1, <2>1, <2>2
<1>5. ASSUME ProcessTimerMessage PROVE Goal
  <2>1. UNCHANGED <<proc, asleep, closing>>
    BY <1>5 DEF ProcessTimerMessage
  <2>2. PICK S \in SUBSET {w \in Window : Due(w)} : \E got \in SUBSET S :
          /\ timerSent' = [w \in Window |-> timerSent[w] \/ w \in S]
          /\ \A w \in Window :
               port'[w] = IF w \in got THEN Append(port[w], Request("Timer")) ELSE port[w]
    BY <1>1, <1>5, SendsTimers
  <2>3. \A v \in Window : ~Listed(v) => v \notin S
    BY DEF Due
  <2>4. \A v \in Window : ~Listed(v) => timerSent'[v] = timerSent[v] /\ port'[v] = port[v]
    BY <1>1, <2>2, <2>3
  <2> QED BY <1>1, <2>1, <2>4
<1>6. ASSUME TimerReplyMsg PROVE Goal
  <2>1. /\ UNCHANGED <<proc, asleep, closing, port>>
        /\ \E w \in Window : timerSent' = [timerSent EXCEPT ![w] = FALSE]
    BY <1>6 DEF TimerReplyMsg
  <2> QED BY <1>1, <2>1
<1>7. ASSUME AppSleepMsg PROVE Goal
  <2>1. UNCHANGED <<proc, timerSent, closing>>
    BY <1>7 DEF AppSleepMsg
  <2>2. \A v \in Window : ~Listed(v) => (asleep'[v] => asleep[v]) /\ port'[v] = port[v]
    BY <1>1, <1>7, SendsSleep
  <2> QED BY <1>1, <2>1, <2>2
<1>8. ASSUME AppWakeupMsg PROVE Goal
  <2>1. UNCHANGED <<proc, timerSent, closing>>
    BY <1>8 DEF AppWakeupMsg
  <2>2. \A v \in Window : ~Listed(v) => (asleep'[v] => asleep[v]) /\ port'[v] = port[v]
    BY <1>1, <1>8, SendsWakeup
  <2> QED BY <1>1, <2>1, <2>2
<1>9. ASSUME AskToClose PROVE Goal
  <2>1. UNCHANGED <<proc, asleep, timerSent, closing>>
    BY <1>9 DEF AskToClose
  <2>2. \A v \in Window : ~Listed(v) => port'[v] = port[v]
    BY <1>1, <1>9, AsksToClose
  <2> QED BY <1>1, <2>1, <2>2
<1>10. ASSUME NEW o \in Opener, StartWindow(o) PROVE Goal
  <2>1. /\ UNCHANGED <<port, asleep, timerSent, closing>>
        /\ \E w \in Window : proc[w] = "none" /\ proc' = [proc EXCEPT ![w] = "created"]
    BY <1>10 DEF StartWindow
  <2>2. \A v \in Window : proc'[v] \in NotYet => proc[v] \in NotYet
    BY <1>1, <2>1 DEF NotYet
  <2> QED BY <1>1, <2>1, <2>2
<1>11. ASSUME \/ UNCHANGED vars \/ CloseWindowMsg \/ WaitReply \/ Answered
              \/ LeaveMainWait \/ Signalled \/ LockForQuit
              \/ Relock \/ Closed \/ FollowFreed \/ AllAsked \/ WaitForQuit
              \/ \E a \in Asker : AskSleep(a) \/ Reset(a) \/ AskWakeup(a)
              \/ \E o \in Opener : FindWindow(o) \/ ActivateIt(o)
       PROVE  Goal
  <2>1. UNCHANGED <<proc, port, asleep, timerSent, closing>>
    BY <1>11 DEF vars, windowVars, CloseWindowMsg, WaitReply, Answered, LeaveMainWait,
      Signalled, LockForQuit,
      Relock, Closed, FollowFreed, AllAsked, WaitForQuit, AskSleep, Reset, AskWakeup,
      FindWindow, ActivateIt
  <2> QED BY <1>1, <2>1
<1>12. ASSUME NEW w \in Window, Begin(w) PROVE Goal
  <2>1. /\ UNCHANGED <<port, asleep, timerSent, closing>>
        /\ proc[w] \in NotYet /\ proc' = [proc EXCEPT ![w] = "opened"]
    BY <1>12 DEF Begin, NotYet
  <2>2. \A v \in Window : proc'[v] \in NotYet => proc[v] \in NotYet
    BY <1>1, <2>1
  <2> QED BY <1>1, <2>1, <2>2
<1> HIDE DEF Goal
<1>13. Goal
  BY <1>2, <1>3, <1>4, <1>5, <1>6, <1>7, <1>8, <1>9, <1>10, <1>11, <1>12
  DEF Next, MainStep, WindowStep
<1> QED BY <1>13 DEF Goal, Fresh

LEMMA TasksKept ==
  ASSUME Basic, [Next]_vars
  PROVE  TasksOK'
<1> DEFINE Ghosts == [freed : Nat, ignored : SUBSET {"AppSleep", "AppWakeup", "CloseScalos"},
                      noTimer : SUBSET Window, failed : BOOLEAN, left : SUBSET Window,
                      untold : BOOLEAN]
           Places0 == {"awake", "asksleep", "asleep", "reset", "askwakeup", "done"}
           Others ==
             /\ main' \in MainPlace /\ serving' \in Asker \cup {NoWindow}
             /\ main' \in {"sleep", "wakeup"} => serving' \in Asker
             /\ next' \in Window \cup {NoWindow} /\ closeWindow' \in BOOLEAN
             /\ opener' \in [Opener -> Window \cup {"start", "done"}]
           Goal == /\ Others /\ waitCount' \in Nat /\ ghost' \in Ghosts
                   /\ asker' \in [Asker -> Places0]
<1>1. /\ WindowsOK /\ PortsOK /\ TasksOK
      /\ main \in MainPlace /\ serving \in Asker \cup {NoWindow}
      /\ main \in {"sleep", "wakeup"} => serving \in Asker
      /\ waitCount \in Nat /\ next \in Window \cup {NoWindow} /\ closeWindow \in BOOLEAN
      /\ asker \in [Asker -> Places0]
      /\ opener \in [Opener -> Window \cup {"start", "done"}]
      /\ ghost \in Ghosts
  BY DEF Basic, TasksOK
<1>2. ASSUME UNCHANGED <<main, serving, next, closeWindow, opener>> PROVE Others
  BY <1>1, <1>2
<1>3. ASSUME NEW w \in Window,
             \/ Begin(w) \/ EnterList(w) \/ Obeys(w) \/ CloseIt(w) \/ Dispose(w) \/ Handle(w)
             \/ UserCloses(w) \/ End(w)
      PROVE  Goal
  <2>1. UNCHANGED <<main, serving, next, closeWindow, opener>> /\ UNCHANGED <<waitCount, asker>>
    BY <1>3 DEF mainVars, Begin, EnterList, Obeys, Leave, CloseIt, Dispose, Handle,
      UserCloses, End
  <2>2. Unanswered(w, Waited) \in Nat
    BY <1>1, PlacesFacts DEF Unanswered, PortsOK
  <2>3. \/ ghost' \in {ghost, [ghost EXCEPT !.failed = TRUE], [ghost EXCEPT !.left = @ \cup {w}]}
        \/ \E b \in BOOLEAN :
             ghost' = [ghost EXCEPT !.freed = @ + Unanswered(w, Waited), !.untold = b]
    BY <1>1, <1>3 DEF Begin, EnterList, Obeys, CloseIt, Dispose, Handle, UserCloses, End
  <2>4. ghost' \in Ghosts
    <3>1. ghost.left \cup {w} \in SUBSET Window /\ ghost.freed + Unanswered(w, Waited) \in Nat
      BY <1>1, <2>2
    <3> QED BY <1>1, <2>3, <3>1
  <2> QED BY <1>1, <1>2, <2>1, <2>4
<1>4. ASSUME ProcessTimerMessage PROVE Goal
  <2>1. UNCHANGED <<main, serving, next, closeWindow, opener>> /\ UNCHANGED <<waitCount, asker>>
    BY <1>4 DEF mainVars, ProcessTimerMessage
  <2>2. \E S \in SUBSET Window : ghost' = [ghost EXCEPT !.noTimer = @ \cup S]
    BY <1>1, <1>4, SendsTimers
  <2>3. ghost' \in Ghosts
    <3> PICK S \in SUBSET Window : ghost' = [ghost EXCEPT !.noTimer = @ \cup S]
      BY <2>2
    <3>1. ghost.noTimer \cup S \in SUBSET Window
      BY <1>1
    <3> QED BY <1>1, <3>1
  <2> QED BY <1>1, <1>2, <2>1, <2>3
<1>5. ASSUME NEW S \in SUBSET Window PROVE Cardinality(S) \in Nat
  BY <1>5, Actors, FS_Subset, FS_CardinalityType
<1>6. ASSUME AppSleepMsg PROVE Goal
  <2>1. /\ UNCHANGED <<next, closeWindow, opener, asker>>
        /\ \E a \in Asker : \E S \in SUBSET Window :
             /\ main' = "sleep" /\ serving' = a /\ waitCount' = Cardinality(S)
             /\ ghost' = [ghost EXCEPT !.freed = 0]
    <3>1. UNCHANGED <<next, closeWindow, opener, asker>>
      BY <1>6 DEF AppSleepMsg
    <3>2. \E a \in Asker : \E S \in SUBSET {w \in Window : Listed(w) /\ ~asleep[w]} :
            /\ main' = "sleep" /\ serving' = a /\ waitCount' = Cardinality(S)
            /\ ghost' = [ghost EXCEPT !.freed = 0]
      BY <1>1, <1>6, SendsSleep
    <3> QED BY <3>1, <3>2
  <2>2. ghost' \in Ghosts /\ waitCount' \in Nat
    BY <1>1, <1>5, <2>1
  <2> QED BY <1>1, <2>1, <2>2 DEF MainPlace, AtWork
<1>7. ASSUME AppWakeupMsg PROVE Goal
  <2>1. /\ UNCHANGED <<next, closeWindow, opener, asker>> /\ ghost'.failed \in BOOLEAN
        /\ \E a \in Asker : \E S \in SUBSET Window :
             /\ main' = "wakeup" /\ serving' = a /\ waitCount' = Cardinality(S)
             /\ ghost' = [ghost EXCEPT !.freed = 0, !.failed = ghost'.failed]
    <3>1. UNCHANGED <<next, closeWindow, opener, asker>>
      BY <1>7 DEF AppWakeupMsg
    <3>2. /\ \E a \in Asker : \E S \in SUBSET {w \in Window : Listed(w) /\ asleep[w]} :
               /\ main' = "wakeup" /\ serving' = a /\ waitCount' = Cardinality(S)
               /\ ghost' = [ghost EXCEPT !.freed = 0, !.failed = ghost'.failed]
          /\ ghost'.failed \in BOOLEAN
      BY <1>1, <1>7, SendsWakeup
    <3> QED BY <3>1, <3>2
  <2>2. \E b \in BOOLEAN : ghost' = [ghost EXCEPT !.freed = 0, !.failed = b]
    BY <2>1
  <2>3. ghost' \in Ghosts
    <3> PICK b \in BOOLEAN : ghost' = [ghost EXCEPT !.freed = 0, !.failed = b]
      BY <2>2
    <3> QED BY <1>1
  <2>4. waitCount' \in Nat
    BY <1>5, <2>1
  <2> QED BY <1>1, <2>1, <2>3, <2>4 DEF MainPlace, AtWork
<1>8. ASSUME WaitReply PROVE Goal
  <2> DEFINE m == Head(mainPort)
  <2>1. UNCHANGED <<main, serving, next, closeWindow, opener>>
    BY <1>8 DEF WaitReply
  <2>2. /\ waitCount > 0 /\ waitCount' \in {waitCount - 1, waitCount} /\ mainPort # << >>
        /\ asker' = IF m.kind = "request" /\ m.from \in Asker
                    THEN [asker EXCEPT ![m.from] = After(m.type)] ELSE asker
        /\ ghost' = [ghost EXCEPT
                       !.ignored = IF m.kind = "request" THEN @ \cup {m.type} ELSE @,
                       !.noTimer = IF m.type = "Timer" THEN @ \cup {m.from} ELSE @]
    BY <1>8 DEF WaitReply
  <2>3. /\ m.kind = "request" => m.type \in {"AppSleep", "AppWakeup", "CloseScalos"}
        /\ m.type = "Timer" => m.from \in Window
    BY <1>1, <2>2, MainFirst
  <2> HIDE DEF m
  <2>4. waitCount' \in Nat
    BY <1>1, <2>2
  <2>5. asker' \in [Asker -> Places0]
    BY <1>1, <2>2 DEF After
  <2>6. \E I \in SUBSET {"AppSleep", "AppWakeup", "CloseScalos"}, N \in SUBSET Window :
          ghost' = [ghost EXCEPT !.ignored = I, !.noTimer = N]
    <3>1. /\ (IF m.kind = "request" THEN ghost.ignored \cup {m.type} ELSE ghost.ignored)
                \in SUBSET {"AppSleep", "AppWakeup", "CloseScalos"}
          /\ (IF m.type = "Timer" THEN ghost.noTimer \cup {m.from} ELSE ghost.noTimer)
                \in SUBSET Window
      BY <1>1, <2>3
    <3> QED BY <2>2, <3>1
  <2>7. ghost' \in Ghosts
    BY <1>1, <2>6
  <2> QED BY <1>2, <2>1, <2>4, <2>5, <2>7
<1>9. ASSUME Answered PROVE Goal
  <2>1. /\ UNCHANGED <<waitCount, next, closeWindow, opener, ghost>>
        /\ main' = "wait" /\ serving' = NoWindow
        /\ \E s \in {"asleep", "done"} : asker' = [asker EXCEPT ![serving] = s]
    BY <1>9 DEF Answered, After
  <2>2. Others
    BY <1>1, <2>1 DEF MainPlace, AtWork
  <2>3. asker' \in [Asker -> Places0]
    BY <1>1, <2>1
  <2> HIDE DEF Others
  <2> QED BY <1>1, <2>1, <2>2, <2>3
<1>10. ASSUME LockForQuit PROVE Goal
  <2>1. /\ UNCHANGED <<serving, waitCount, closeWindow, asker, opener, ghost>>
        /\ main' = "quit" /\ next' = IF list = << >> THEN NoWindow ELSE Head(list)
    BY <1>10 DEF LockForQuit
  <2>2. next' \in Window \cup {NoWindow}
    BY <1>1, <2>1, TailFacts DEF WindowsOK
  <2> QED BY <1>1, <2>1, <2>2 DEF MainPlace, OnWayOut
<1>11. ASSUME AskToClose PROVE Goal
  <2>1. UNCHANGED <<serving, closeWindow, asker, opener>> /\ next' = Successor(next)
        /\ main = "quit"
    BY <1>11 DEF AskToClose
  <2>2. Successor(next) \in Window \cup {NoWindow}
    <3>1. list \in Seq(Window) /\ \E i \in DOMAIN list : list[i] = next
      BY <1>1, <1>11 DEF WindowsOK, AskToClose, Listed
    <3> DEFINE i == CHOOSE i \in DOMAIN list : list[i] = next
    <3>2. i \in 1 .. Len(list)
      BY <3>1, LenProperties
    <3>3. i = Len(list) \/ list[i + 1] \in Window
      <4> HIDE DEF i
      <4> QED BY <3>1, <3>2, LenProperties, ElementOfSeq
    <3> QED BY <3>3 DEF Successor
  <2>3. \/ waitCount' = 1 /\ ghost' = [ghost EXCEPT !.freed = 0] /\ main' = "relock"
        \/ UNCHANGED <<waitCount, ghost, main>>
    BY <1>1, <1>11, AsksToClose
  <2>4. ghost' \in Ghosts /\ waitCount' \in Nat
    <3>1. CASE waitCount' = 1 /\ ghost' = [ghost EXCEPT !.freed = 0]
      BY <1>1, <3>1
    <3>2. CASE UNCHANGED <<waitCount, ghost>>
      BY <1>1, <3>2
    <3> QED BY <2>3, <3>1, <3>2
  <2> QED BY <1>1, <2>1, <2>2, <2>3, <2>4 DEF MainPlace, OnWayOut
<1>12. ASSUME \/ Relock \/ Closed \/ FollowFreed \/ AllAsked \/ WaitForQuit
              \/ LeaveMainWait \/ Signalled
       PROVE  Goal
  <2>1. /\ UNCHANGED <<serving, waitCount, next, closeWindow, asker, opener, ghost>>
        /\ main' \in {"wait", "refused", "unpatched", "quitwait", "quit", "astray", "drain", "done"}
    BY <1>12 DEF Relock, Closed, FollowFreed, AllAsked, WaitForQuit, LeaveMainWait,
      Signalled
  <2> QED BY <1>1, <2>1 DEF MainPlace, OnWayOut, AtWork
<1>13. ASSUME NEW a \in Asker, AskSleep(a) \/ Reset(a) \/ AskWakeup(a) PROVE Goal
  <2>1. /\ UNCHANGED <<main, serving, next, closeWindow, opener>> /\ UNCHANGED waitCount
        /\ ghost' \in {ghost, [ghost EXCEPT !.failed = TRUE]}
        /\ \E s \in Places0 : asker' = [asker EXCEPT ![a] = s]
    BY <1>13 DEF AskSleep, Reset, AskWakeup, mainVars
  <2>2. ghost' \in Ghosts
    BY <1>1, <2>1
  <2> QED BY <1>1, <1>2, <2>1, <2>2
<1>14. ASSUME NEW o \in Opener, FindWindow(o) \/ ActivateIt(o) \/ StartWindow(o) PROVE Goal
  <2>1. /\ UNCHANGED <<main, serving, next, closeWindow, waitCount, asker, ghost>>
        /\ \E s \in Window \cup {"start", "done"} : opener' = [opener EXCEPT ![o] = s]
    BY <1>14 DEF FindWindow, ActivateIt, StartWindow, mainVars
  <2> QED BY <1>1, <2>1
<1>15. ASSUME TimerReplyMsg \/ CloseWindowMsg \/ UNCHANGED vars PROVE Goal
  <2>1. /\ UNCHANGED <<main, serving, next, waitCount, asker, opener, ghost>>
        /\ closeWindow' \in {closeWindow, TRUE}
    BY <1>15 DEF TimerReplyMsg, CloseWindowMsg, vars, mainVars
  <2> QED BY <1>1, <2>1
<1> HIDE DEF Goal
<1>16. Goal
  BY <1>3, <1>4, <1>6, <1>7, <1>8, <1>9, <1>10, <1>11, <1>12, <1>13, <1>14, <1>15
  DEF Next, MainStep, WindowStep
<1> QED BY <1>16 DEF Goal, TasksOK

LEMMA BasicKept ==
  ASSUME Basic, [Next]_vars
  PROVE  Basic'
BY WindowsKept, PortsKept, TasksKept, LocksKept, FreshKept, FoundKept DEF Basic

LEMMA BasicInit ==
  ASSUME Init
  PROVE  Basic
<1>1. /\ list \in Seq(Window) /\ IsInjective(list) /\ Range(list) = Open
  <2> DEFINE n == Cardinality(Open)
  <2>1. n \in Nat
    BY ActorAssumption, FS_Subset, FS_CardinalityType
  <2>2. list \in Bijection(1 .. n, Open)
    BY DEF Init
  <2> HIDE DEF n
  <2>3. /\ list \in [1 .. n -> Open]
        /\ \A i, j \in 1 .. n : list[i] = list[j] => i = j
        /\ \A w \in Open : \E i \in 1 .. n : list[i] = w
    BY <2>2 DEF Bijection, Injection, Surjection, IsInjective
  <2>4. list \in Seq(Window)
    BY <2>1, <2>3, ActorAssumption
  <2>5. IsInjective(list)
    BY <2>3 DEF IsInjective
  <2>6. Range(list) = Open
    BY <2>3 DEF Range
  <2> QED BY <2>4, <2>5, <2>6
<1>2. WindowsOK
  <2>1. /\ proc = [w \in Window |-> IF w \in Open THEN "listed" ELSE "none"]
        /\ asleep = [w \in Window |-> FALSE] /\ timerSent = [w \in Window |-> FALSE]
        /\ closing = [w \in Window |-> FALSE]
    BY DEF Init
  <2>2. \A w \in Window : Listed(w) <=> proc[w] \in InList
    BY <1>1, <2>1, ListedIs DEF InList
  <2> QED BY <1>1, <2>1, <2>2 DEF WindowsOK, Proc
<1>3. PortsOK
  BY EmptySeq DEF Init, PortsOK
<1>4. TasksOK
  BY DEF Init, TasksOK, MainPlace, AtWork
<1>5. Locks
  BY FreeSemaphoreFacts, Actors DEF Init, Locks
<1>6. Fresh
  BY DEF Init, Fresh
<1>7. Found
  BY Actors DEF Init, Found
<1> QED BY <1>2, <1>3, <1>4, <1>5, <1>6, <1>7 DEF Basic
-----------------------------------------------------------------------------
(***************************************************************************)
(* The way out.  A window ends because its user closed it or because the   *)
(* main task asked it to; none that the main task has still to visit was   *)
(* asked.                                                                  *)
(***************************************************************************)
Left == {"leaving", "closed", "unlisted", "gone"}

Excused == \A w \in Window : proc[w] \in Left => w \in ghost.left \/ closing[w]

NotAsked(w) == ~closing[w] /\ Places(port[w], {Request("CloseWindow")}) = {}

NextOK ==
  /\ main \in AtWork => \A w \in Window : NotAsked(w)
  /\ main \in OnWayOut /\ next # NoWindow =>
       /\ NotAsked(next) /\ proc[next] \notin NotYet
       /\ \A i, j \in 1 .. Len(list) : list[i] = next /\ i <= j => NotAsked(list[j])

LEMMA ExcusedKept ==
  ASSUME Basic, Excused, [Next]_vars
  PROVE  Excused'
<1>1. /\ proc \in [Window -> Proc] /\ closing \in [Window -> BOOLEAN]
      /\ ghost \in [freed : Nat, ignored : SUBSET {"AppSleep", "AppWakeup", "CloseScalos"},
                    noTimer : SUBSET Window, failed : BOOLEAN, left : SUBSET Window,
                    untold : BOOLEAN]
      /\ PortsOK /\ WindowsOK /\ TasksOK
  BY DEF Basic, WindowsOK, TasksOK
<1> DEFINE Goal == \A w \in Window : proc'[w] \in Left => w \in ghost'.left \/ closing'[w]
<1>2. ASSUME NEW w \in Window, UserCloses(w) PROVE Goal
  <2>1. /\ proc' = [proc EXCEPT ![w] = "leaving"] /\ closing' = closing
        /\ ghost'.left = ghost.left \cup {w}
    BY <1>1, <1>2 DEF UserCloses, Leave
  <2> QED BY <1>1, <2>1 DEF Excused
<1>3. ASSUME NEW w \in Window, Obeys(w) PROVE Goal
  <2>1. /\ proc' = [proc EXCEPT ![w] = "leaving"] /\ closing' = closing /\ ghost' = ghost
        /\ closing[w]
    BY <1>3 DEF Obeys, Leave
  <2> QED BY <1>1, <2>1 DEF Excused
<1>4. ASSUME NEW w \in Window, CloseIt(w) \/ Dispose(w) \/ End(w) PROVE Goal
  <2>1. /\ proc[w] \in Left /\ \E s : proc' = [proc EXCEPT ![w] = s]
        /\ closing' = closing /\ ghost'.left = ghost.left
    BY <1>1, <1>4 DEF CloseIt, Dispose, End, Left
  <2> QED BY <1>1, <2>1 DEF Excused
<1>5. ASSUME NEW w \in Window, EnterList(w) PROVE Goal
  <2>1. proc' = [proc EXCEPT ![w] = "listed"] /\ closing' = closing /\ ghost' = ghost
    BY <1>5 DEF EnterList
  <2> QED BY <1>1, <2>1 DEF Excused, Left
<1>6. ASSUME NEW w \in Window, Handle(w) PROVE Goal
  <2>1. /\ proc' = proc /\ closing' = [closing EXCEPT ![w] = @ \/ Head(port[w]).type = "CloseWindow"]
        /\ ghost'.left = ghost.left
    BY <1>1, <1>6 DEF Handle
  <2>2. \A v \in Window : closing[v] => closing'[v]
    BY <1>1, <2>1
  <2> QED BY <1>1, <2>1, <2>2 DEF Excused
<1>7. ASSUME NEW o \in Opener, StartWindow(o) PROVE Goal
  <2>1. /\ \E w \in Window : proc' = [proc EXCEPT ![w] = "created"]
        /\ closing' = closing /\ ghost' = ghost
    BY <1>7 DEF StartWindow
  <2> QED BY <1>1, <2>1 DEF Excused, Left
<1>8. ASSUME ProcessTimerMessage \/ AppSleepMsg \/ AppWakeupMsg \/ WaitReply PROVE Goal
  <2>1. proc' = proc /\ closing' = closing
    BY <1>8 DEF ProcessTimerMessage, AppSleepMsg, AppWakeupMsg, WaitReply, windowVars
  <2>2. CASE ProcessTimerMessage
    BY <1>1, <2>1, <2>2 DEF ProcessTimerMessage, Excused
  <2>3. CASE AppSleepMsg
    BY <1>1, <2>1, <2>3 DEF AppSleepMsg, Excused
  <2>4. CASE AppWakeupMsg
    BY <1>1, <2>1, <2>4 DEF AppWakeupMsg, Excused
  <2>5. CASE WaitReply
    BY <1>1, <2>1, <2>5 DEF WaitReply, Excused
  <2> QED BY <1>8, <2>2, <2>3, <2>4, <2>5
<1>9. ASSUME AskToClose PROVE Goal
  <2>1. proc' = proc /\ closing' = closing
    BY <1>9 DEF AskToClose
  <2>2. ghost'.left = ghost.left
    BY <1>1, <1>9, AsksToClose
  <2> QED BY <1>1, <2>1, <2>2 DEF Excused
<1>10. ASSUME NEW a \in Asker, AskSleep(a) \/ Reset(a) \/ AskWakeup(a) PROVE Goal
  <2>1. proc' = proc /\ closing' = closing /\ ghost'.left = ghost.left
    BY <1>1, <1>10 DEF AskSleep, Reset, AskWakeup, windowVars
  <2> QED BY <1>1, <2>1 DEF Excused
<1>11. ASSUME \/ UNCHANGED vars \/ TimerReplyMsg \/ CloseWindowMsg \/ Answered
              \/ LeaveMainWait \/ Signalled \/ LockForQuit
              \/ Relock \/ Closed \/ FollowFreed \/ AllAsked \/ WaitForQuit
              \/ \E o \in Opener : FindWindow(o) \/ ActivateIt(o)
       PROVE  Goal
  <2>1. proc' = proc /\ closing' = closing /\ ghost' = ghost
    BY <1>11 DEF vars, windowVars, TimerReplyMsg, CloseWindowMsg, Answered,
      LeaveMainWait, Signalled, LockForQuit,
      Relock, Closed, FollowFreed, AllAsked, WaitForQuit, FindWindow, ActivateIt
  <2> QED BY <1>1, <2>1 DEF Excused
<1>12. ASSUME NEW w \in Window, Begin(w) PROVE Goal
  <2>1. /\ proc' = [proc EXCEPT ![w] = "opened"]
        /\ closing' = closing /\ ghost' = ghost
    BY <1>12 DEF Begin
  <2> QED BY <1>1, <2>1 DEF Excused, Left
<1> HIDE DEF Goal
<1>13. Goal
  BY <1>2, <1>3, <1>4, <1>5, <1>6, <1>7, <1>8, <1>9, <1>10, <1>11, <1>12
  DEF Next, MainStep, WindowStep
<1> QED BY <1>13 DEF Goal, Excused

(***************************************************************************)
(* A list without a node of S.                                             *)
(***************************************************************************)
LEMMA NonePlaces ==
  ASSUME NEW T, NEW q \in Seq(T), NEW S, Places(q, S) = {}
  PROVE  /\ \A x \in T : x \notin S => Places(Append(q, x), S) = {}
         /\ q # << >> => Places(Tail(q), S) = {} /\ Head(q) \notin S
<1>1. Cardinality(Places(q, S)) = 0
  BY PlacesFacts
<1>2. ASSUME NEW x \in T, x \notin S PROVE Places(Append(q, x), S) = {}
  <2>1. Cardinality(Places(Append(q, x), S)) = Cardinality(Places(q, S)) + 0
    BY <1>2, PlacesAppend
  <2>2. Append(q, x) \in Seq(T) /\ Cardinality(Places(Append(q, x), S)) = 0
    BY <1>1, <2>1, AppendFacts
  <2> QED BY <2>2, PlacesFacts
<1>3. ASSUME q # << >> PROVE Places(Tail(q), S) = {} /\ Head(q) \notin S
  <2> DEFINE b == Cardinality(Places(Tail(q), S))
  <2>1. 0 = b + (IF Head(q) \in S THEN 1 ELSE 0)
    BY <1>1, <1>3, PlacesTail
  <2>2. Tail(q) \in Seq(T) /\ b \in Nat
    BY <1>3, TailFacts, PlacesFacts
  <2>3. b = 0 /\ Head(q) \notin S
    <3> HIDE DEF b
    <3> QED BY <2>1, <2>2
  <2> QED BY <2>2, <2>3, PlacesFacts
<1> QED BY <1>2, <1>3

Clean(q) == Places(q, {Request("CloseWindow")}) = {}

LEMMA CleanFacts ==
  ASSUME NEW q \in Seq(WindowRequest), Clean(q)
  PROVE  /\ \A type \in WindowMessage \ {"CloseWindow"} : Clean(Append(q, Request(type)))
         /\ q # << >> => Clean(Tail(q)) /\ Head(q) # Request("CloseWindow")
<1> DEFINE S == {Request("CloseWindow")}
<1>1. \A type \in WindowMessage \ {"CloseWindow"} : Request(type) \in WindowRequest /\ Request(type) \notin S
  BY Messages DEF WindowRequest
<1>2. /\ \A x \in WindowRequest : x \notin S => Places(Append(q, x), S) = {}
      /\ q # << >> => Places(Tail(q), S) = {} /\ Head(q) \notin S
  BY NonePlaces DEF Clean
<1> QED BY <1>1, <1>2 DEF Clean

LEMMA StaysNotAsked ==
  ASSUME Basic, [Next]_vars, NEW v \in Window, NotAsked(v),
         AskToClose => v # next \/ UNCHANGED port
  PROVE  ~closing'[v] /\ Clean(port'[v])
<1>1. /\ PortsOK /\ WindowsOK /\ TasksOK /\ port \in [Window -> Seq(WindowRequest)]
      /\ closing \in [Window -> BOOLEAN]
      /\ ~closing[v] /\ Clean(port[v])
  BY DEF Basic, WindowsOK, PortsOK, NotAsked, Clean
<1>2. port[v] \in Seq(WindowRequest)
  BY <1>1
<1> DEFINE Goal == ~closing'[v] /\ Clean(port'[v])
<1>3. ASSUME closing' = closing,
             \/ port'[v] = port[v]
             \/ \E type \in WindowMessage \ {"CloseWindow"} : port'[v] = Append(port[v], Request(type))
      PROVE  Goal
  BY <1>1, <1>2, <1>3, CleanFacts
<1>4. ASSUME NEW w \in Window, Handle(w) PROVE Goal
  <2>1. /\ closing' = [closing EXCEPT ![w] = @ \/ Head(port[w]).type = "CloseWindow"]
        /\ port' = [port EXCEPT ![w] = Tail(port[w])]
        /\ port[w] # << >> /\ Head(port[w]) = Request(Head(port[w]).type)
    BY <1>1, <1>4, FirstMessage DEF Handle
  <2>2. CASE w # v
    <3>1. closing'[v] = closing[v] /\ port'[v] = port[v]
      BY <1>1, <2>1, <2>2
    <3> QED BY <1>1, <3>1
  <2>3. CASE w = v
    <3>1. Clean(Tail(port[v])) /\ Head(port[v]) # Request("CloseWindow")
      BY <1>1, <1>2, <2>1, <2>3, CleanFacts
    <3>2. Head(port[v]).type # "CloseWindow"
      BY <2>1, <2>3, <3>1
    <3>3. port'[v] = Tail(port[v])
      BY <1>1, <2>1, <2>3
    <3>4. closing'[v] = (closing[v] \/ Head(port[v]).type = "CloseWindow")
      BY <1>1, <2>1, <2>3
    <3> QED BY <1>1, <3>1, <3>2, <3>3, <3>4
  <2> QED BY <2>2, <2>3
<1>5. ASSUME NEW w \in Window, End(w) PROVE Goal
  <2>1. closing' = closing /\ port' = [port EXCEPT ![w] = << >>]
    BY <1>5 DEF End
  <2>2. Clean(<< >>)
    BY EmptySeq, PlacesFacts DEF Clean
  <2>3. port'[v] = port[v] \/ port'[v] = << >>
    BY <1>1, <2>1
  <2> QED BY <1>1, <2>1, <2>2, <2>3
<1>6. ASSUME ProcessTimerMessage \/ AppSleepMsg \/ AppWakeupMsg PROVE Goal
  <2>1. closing' = closing
    BY <1>6 DEF ProcessTimerMessage, AppSleepMsg, AppWakeupMsg
  <2>2. \E got, type : /\ type \in {"Timer", "Sleep", "Wakeup"}
                       /\ \A w \in Window : port'[w] =
                            IF w \in got THEN Append(port[w], Request(type)) ELSE port[w]
    BY <1>1, <1>6, SendsTimers, SendsSleep, SendsWakeup
  <2>3. \/ port'[v] = port[v]
        \/ \E type \in WindowMessage \ {"CloseWindow"} : port'[v] = Append(port[v], Request(type))
    BY <2>2 DEF WindowMessage
  <2> QED BY <1>3, <2>1, <2>3
<1>7. ASSUME AskToClose PROVE Goal
  <2>1. closing' = closing
    BY <1>7 DEF AskToClose
  <2>2. \/ \A w \in Window : port'[w] = IF w \in {next} THEN Append(port[w], Request("CloseWindow"))
                                       ELSE port[w]
        \/ port' = port
    BY <1>1, <1>7, AsksToClose
  <2>3. port'[v] = port[v]
    BY <1>7, <2>2
  <2> QED BY <1>1, <2>1, <2>3
<1>8. ASSUME \/ UNCHANGED vars \/ TimerReplyMsg \/ CloseWindowMsg \/ WaitReply \/ Answered
             \/ LeaveMainWait \/ Signalled \/ LockForQuit \/ Relock \/ Closed
             \/ FollowFreed \/ AllAsked \/ WaitForQuit
             \/ \E w \in Window : \/ Begin(w) \/ EnterList(w) \/ UserCloses(w) \/ Obeys(w)
                                  \/ CloseIt(w) \/ Dispose(w)
             \/ \E a \in Asker : AskSleep(a) \/ Reset(a) \/ AskWakeup(a)
             \/ \E o \in Opener : FindWindow(o) \/ ActivateIt(o) \/ StartWindow(o)
      PROVE  Goal
  <2>1. closing' = closing /\ port' = port
    BY <1>8 DEF vars, windowVars, TimerReplyMsg, CloseWindowMsg, WaitReply, Answered,
      LeaveMainWait, Signalled, LockForQuit, Relock, Closed, FollowFreed, AllAsked,
      WaitForQuit, Begin,
      EnterList, UserCloses, Obeys, Leave, CloseIt, Dispose, AskSleep, Reset, AskWakeup,
      FindWindow,
      ActivateIt, StartWindow
  <2> QED BY <1>1, <2>1
<1> HIDE DEF Goal
<1>9. Goal
  BY <1>4, <1>5, <1>6, <1>7, <1>8 DEF Next, MainStep, WindowStep
<1> QED BY <1>9 DEF Goal

LEMMA NeverNotYetAgain ==
  ASSUME WindowsOK, [Next]_vars, NEW v \in Window, proc[v] \notin NotYet
  PROVE  proc'[v] \notin NotYet
<1>1. proc \in [Window -> Proc]
  BY DEF WindowsOK
<1>2. ASSUME NEW w \in Window,
             \/ EnterList(w) \/ UserCloses(w) \/ Obeys(w) \/ CloseIt(w) \/ Dispose(w) \/ End(w)
      PROVE  proc'[v] \notin NotYet
  <2>1. \E s \in Left \cup {"listed"} : proc' = [proc EXCEPT ![w] = s]
    BY <1>2 DEF EnterList, UserCloses, Obeys, Leave, CloseIt, Dispose, End, Left
  <2> QED BY <1>1, <2>1 DEF Left, NotYet
<1>3. ASSUME \/ \E o \in Opener : StartWindow(o)
             \/ \E w \in Window : Begin(w)
      PROVE  proc'[v] \notin NotYet
  <2>1. \E w \in Window : proc[w] \in NotYet /\ \E s : proc' = [proc EXCEPT ![w] = s]
    BY <1>3 DEF StartWindow, Begin, NotYet
  <2> QED BY <1>1, <2>1
<1>4. ASSUME \/ UNCHANGED vars \/ MainStep \/ Signalled \/ ProcessTimerMessage
             \/ \E w \in Window : Handle(w)
             \/ \E a \in Asker : AskSleep(a) \/ Reset(a) \/ AskWakeup(a)
             \/ \E o \in Opener : FindWindow(o) \/ ActivateIt(o)
      PROVE  proc'[v] \notin NotYet
  <2>1. proc' = proc
    BY <1>4 DEF vars, windowVars, MainStep, TimerReplyMsg, CloseWindowMsg, AppSleepMsg,
      AppWakeupMsg, WaitReply, Answered, LeaveMainWait, Signalled, LockForQuit,
      AskToClose, Relock, Closed,
      FollowFreed, AllAsked, WaitForQuit, ProcessTimerMessage, Handle, AskSleep, Reset,
      AskWakeup, FindWindow, ActivateIt
  <2> QED BY <2>1
<1> QED BY <1>2, <1>3, <1>4 DEF Next, WindowStep

LEMMA SuccessorIs ==
  ASSUME WindowsOK, Listed(next), Successor(next) # NoWindow
  PROVE  \E i \in 1 .. Len(list) : /\ list[i] = next /\ i + 1 \in 1 .. Len(list)
                                   /\ Successor(next) = list[i + 1]
<1> DEFINE i == CHOOSE i \in DOMAIN list : list[i] = next
<1>1. i \in DOMAIN list /\ list[i] = next
  BY DEF Listed
<1>2. list \in Seq(Window)
  BY DEF WindowsOK
<1>3. i \in 1 .. Len(list) /\ Len(list) \in Nat
  BY <1>1, <1>2, LenProperties
<1>4. Successor(next) = IF i = Len(list) THEN NoWindow ELSE list[i + 1]
  BY DEF Successor
<1> HIDE DEF i
<1>5. i + 1 \in 1 .. Len(list)
  BY <1>3, <1>4
<1> QED BY <1>1, <1>3, <1>4, <1>5

LEMMA NextKept ==
  ASSUME Basic, NextOK, [Next]_vars
  PROVE  NextOK'
<1> DEFINE Free(v) == ~closing'[v] /\ Clean(port'[v])
           Goal == /\ main' \in AtWork => \A w \in Window : Free(w)
                   /\ main' \in OnWayOut /\ next' # NoWindow =>
                        /\ Free(next') /\ proc'[next'] \notin NotYet
                        /\ \A i, j \in 1 .. Len(list') :
                             list'[i] = next' /\ i <= j => Free(list'[j])
<1>1. /\ WindowsOK /\ PortsOK /\ TasksOK /\ Fresh
      /\ list \in Seq(Window) /\ IsInjective(list)
      /\ proc \in [Window -> Proc] /\ next \in Window \cup {NoWindow}
      /\ \A v \in Window : Listed(v) => proc[v] \notin NotYet
  BY DEF Basic, WindowsOK, TasksOK, NotYet, InList
<1>2. /\ main \in AtWork => \A w \in Window : NotAsked(w)
      /\ main \in OnWayOut /\ next # NoWindow =>
           /\ next \in Window /\ NotAsked(next) /\ proc[next] \notin NotYet
           /\ \A i, j \in 1 .. Len(list) : list[i] = next /\ i <= j => NotAsked(list[j])
  BY <1>1 DEF NextOK
<1>3. /\ Len(list) \in Nat /\ \A j \in 1 .. Len(list) : list[j] \in Window /\ Listed(list[j])
      /\ \A i, j \in 1 .. Len(list) : list[i] = list[j] => i = j
  BY <1>1, LenProperties, ElementOfSeq DEF Listed, IsInjective
<1>4. ASSUME NEW v \in Window, NotAsked(v), ~AskToClose PROVE Free(v)
  BY <1>4, StaysNotAsked
<1>5. \A v \in Window : proc[v] \notin NotYet => proc'[v] \notin NotYet
  BY <1>1, NeverNotYetAgain
<1> HIDE DEF Free
<1>6. ASSUME ~AskToClose, list' = list, next' = next,
             \/ main \in AtWork /\ main' \in AtWork
             \/ main \in OnWayOut /\ main' \in OnWayOut
             \/ main' \in {"drain", "done", "astray"}
      PROVE  Goal
  BY <1>2, <1>3, <1>4, <1>5, <1>6 DEF AtWork, OnWayOut
<1>7. ASSUME NEW w \in Window, EnterList(w) PROVE Goal
  <2>1. /\ main' = main /\ next' = next /\ list' = Append(list, w) /\ proc[w] = "opened"
        /\ ~AskToClose
    BY <1>7 DEF EnterList, mainVars, AskToClose
  <2>2. NotAsked(w)
    BY <1>1, <2>1, EmptySeq, PlacesFacts DEF Fresh, NotAsked, NotYet
  <2>3. /\ Len(list') = Len(list) + 1 /\ list'[Len(list) + 1] = w
        /\ \A i \in 1 .. Len(list) : list'[i] = list[i]
    BY <1>1, <2>1, AppendProperties
  <2>4. ASSUME main \in OnWayOut, next # NoWindow,
               NEW i \in 1 .. Len(list'), NEW j \in 1 .. Len(list'), list'[i] = next, i <= j
        PROVE  Free(list'[j])
    <3>1. next # w
      BY <1>2, <2>1, <2>4 DEF NotYet
    <3>2. i \in 1 .. Len(list) /\ list[i] = next
      BY <1>3, <2>3, <2>4, <3>1
    <3>3. CASE j \in 1 .. Len(list)
      <4>1. NotAsked(list[j]) /\ list[j] \in Window /\ list'[j] = list[j]
        BY <1>2, <1>3, <2>3, <2>4, <3>2, <3>3
      <4> QED BY <1>4, <2>1, <4>1
    <3>4. CASE j = Len(list) + 1
      BY <1>4, <2>1, <2>2, <2>3, <3>4
    <3> QED BY <1>3, <2>3, <3>3, <3>4
  <2> QED BY <1>2, <1>4, <1>5, <2>1, <2>4
<1>8. ASSUME NEW w \in Window, Dispose(w) PROVE Goal
  <2>1. /\ main' = main /\ next' = next /\ list' = Without(list, {w}) /\ ~AskToClose
    <3>1. proc'[w] # proc[w]
      BY <1>1, <1>8 DEF Dispose
    <3> QED BY <1>8, <3>1 DEF Dispose, mainVars, AskToClose
  <2>2. PICK f \in [1 .. Len(list') -> 1 .. Len(list)] :
          /\ \A k \in 1 .. Len(list') : list'[k] = list[f[k]]
          /\ \A k, l \in 1 .. Len(list') : k < l => f[k] < f[l]
    <3> DEFINE r == Without(list, {w})
    <3>1. \E f \in [1 .. Len(r) -> 1 .. Len(list)] :
            /\ \A k \in 1 .. Len(r) : r[k] = list[f[k]]
            /\ \A k, l \in 1 .. Len(r) : k < l => f[k] < f[l]
      BY <1>1, WithoutFacts
    <3> HIDE DEF r
    <3>2. list' = r
      BY <2>1 DEF r
    <3> QED BY <3>1, <3>2
  <2>3. list' \in Seq(Window) /\ Len(list') \in Nat
    BY <1>1, <2>1, WithoutFacts, LenProperties
  <2>4. ASSUME main \in OnWayOut, next # NoWindow,
               NEW i \in 1 .. Len(list'), NEW j \in 1 .. Len(list'), list'[i] = next, i <= j
        PROVE  Free(list'[j])
    <3>1. f[i] \in 1 .. Len(list) /\ f[j] \in 1 .. Len(list) /\ list[f[i]] = next
      BY <2>2, <2>4
    <3>2. i = j \/ i < j
      BY <2>3, <2>4
    <3>3. f[i] <= f[j]
      BY <1>3, <2>2, <2>4, <3>1, <3>2
    <3>4. NotAsked(list[f[j]]) /\ list[f[j]] \in Window /\ list'[j] = list[f[j]]
      BY <1>2, <1>3, <2>2, <2>4, <3>1, <3>3
    <3> QED BY <1>4, <2>1, <3>4
  <2> QED BY <1>2, <1>4, <1>5, <2>1, <2>4
<1>9. ASSUME LockForQuit PROVE Goal
  <2>1. /\ main = "unpatched" /\ main' = "quit" /\ list' = list /\ proc' = proc /\ ~AskToClose
        /\ next' = IF list = << >> THEN NoWindow ELSE Head(list)
    BY <1>9 DEF LockForQuit, windowVars, AskToClose
  <2>2. \A v \in Window : Free(v)
    BY <1>2, <1>4, <2>1 DEF AtWork
  <2>3. next' # NoWindow => next' \in Window /\ Listed(next')
    <3> SUFFICES ASSUME list # << >> PROVE Head(list) \in Window /\ Listed(Head(list))
      BY <2>1
    <3> QED BY <1>1, TailFacts, ListedIs
  <2> QED BY <1>1, <1>3, <2>1, <2>2, <2>3 DEF AtWork
<1>10. ASSUME AskToClose PROVE Goal
  <2>1. /\ main = "quit" /\ Listed(next) /\ list' = list /\ proc' = proc
        /\ next' = Successor(next) /\ main' \in {"quit", "relock"}
    BY <1>10 DEF AskToClose
  <2>2. ASSUME next' # NoWindow
        PROVE  /\ Free(next') /\ proc'[next'] \notin NotYet
               /\ \A i, j \in 1 .. Len(list) : list[i] = next' /\ i <= j => Free(list[j])
    <3>1. PICK k \in 1 .. Len(list) : /\ list[k] = next /\ k + 1 \in 1 .. Len(list)
                                      /\ next' = list[k + 1]
      BY <1>1, <2>1, <2>2, SuccessorIs
    <3>2. next # NoWindow
      BY <1>3, <3>1, Actors
    <3>3. ASSUME NEW j \in 1 .. Len(list), k + 1 <= j PROVE Free(list[j])
      <4>1. list[j] \in Window /\ NotAsked(list[j])
        <5>1. k <= j
          BY <3>1, <3>3
        <5> QED BY <1>2, <1>3, <2>1, <3>1, <3>2, <5>1 DEF OnWayOut
      <4>2. list[j] # next
        <5>1. k # j
          BY <3>1, <3>3
        <5> QED BY <1>3, <3>1, <5>1
      <4> QED BY <4>1, <4>2, StaysNotAsked DEF Free
    <3>4. \A i, j \in 1 .. Len(list) : list[i] = next' /\ i <= j => k + 1 <= j
      BY <1>3, <3>1
    <3>5. Free(next') /\ proc[next'] \notin NotYet
      BY <1>1, <1>3, <3>1, <3>3
    <3> QED BY <2>1, <3>3, <3>4, <3>5
  <2> QED BY <2>1, <2>2 DEF AtWork
<1>11. ASSUME \/ UNCHANGED vars \/ ProcessTimerMessage \/ TimerReplyMsg \/ CloseWindowMsg
              \/ WaitReply
              \/ \E w \in Window : \/ Begin(w) \/ Handle(w) \/ UserCloses(w) \/ Obeys(w) \/ CloseIt(w)
                                   \/ End(w)
              \/ \E a \in Asker : AskSleep(a) \/ Reset(a) \/ AskWakeup(a)
              \/ \E o \in Opener : FindWindow(o) \/ ActivateIt(o) \/ StartWindow(o)
       PROVE  Goal
  <2>1. main' = main /\ next' = next /\ list' = list
    BY <1>11 DEF vars, mainVars, windowVars, ProcessTimerMessage, TimerReplyMsg,
      CloseWindowMsg, WaitReply, Begin, Handle, UserCloses, Obeys, Leave, CloseIt, End,
      AskSleep, Reset, AskWakeup, FindWindow, ActivateIt, StartWindow
  <2>2. AskToClose => next' # next \/ next = NoWindow
    <3> SUFFICES ASSUME AskToClose, Successor(next) # NoWindow PROVE Successor(next) # next
      BY Actors DEF AskToClose
    <3>1. Listed(next)
      BY DEF AskToClose
    <3> QED BY <1>1, <1>3, <3>1, SuccessorIs
  <2>3. AskToClose => next \in Window
    BY <1>1, AsksToClose
  <2>4. ~AskToClose
    BY <2>1, <2>2, <2>3, Actors
  <2>5. main \in AtWork \cup OnWayOut \cup {"drain", "done", "astray"}
    BY <1>1 DEF TasksOK, MainPlace
  <2> HIDE DEF Goal
  <2> QED BY <1>6, <2>1, <2>4, <2>5
<1>12. ASSUME \/ AppSleepMsg \/ AppWakeupMsg \/ Answered \/ LeaveMainWait \/ Signalled
              \/ Relock \/ Closed \/ FollowFreed \/ AllAsked \/ WaitForQuit
       PROVE  Goal
  <2>1. /\ next' = next /\ list' = list
        /\ \/ main \in AtWork /\ main' \in AtWork
           \/ main \in OnWayOut /\ main' \in OnWayOut /\ next' = next
           \/ main' \in {"drain", "done", "astray"}
    BY <1>12 DEF AppSleepMsg, AppWakeupMsg, Arrives, Answered, LeaveMainWait,
      Signalled, Relock, Closed, FollowFreed, AllAsked, WaitForQuit, windowVars, AtWork,
      OnWayOut
  <2>2. ~AskToClose
    <3>1. AskToClose => main = "quit" /\ main' \in {"quit", "relock"} /\ Listed(next)
      BY DEF AskToClose
    <3>2. AskToClose => next \in Window
      BY <1>1, AsksToClose
    <3>3. \/ main # "quit" \/ main' \in {"drain", "done", "astray"}
      BY <1>12 DEF AppSleepMsg, AppWakeupMsg, Arrives, Answered, LeaveMainWait,
        Signalled, Relock, Closed, FollowFreed, AllAsked, WaitForQuit
    <3> QED BY <3>1, <3>3
  <2> HIDE DEF Goal
  <2> QED BY <1>6, <2>1, <2>2
<1> HIDE DEF Goal
<1>13. Goal
  BY <1>7, <1>8, <1>9, <1>10, <1>11, <1>12 DEF Next, MainStep, WindowStep
<1> QED BY <1>13 DEF Goal, Free, Clean, NextOK, NotAsked

-----------------------------------------------------------------------------
(***************************************************************************)
(* The answers.  Of the messages that are waited for, only one type is on  *)
(* its way at any time.                                                    *)
(***************************************************************************)
Waits(m) == CASE m = "sleep" -> "Sleep" [] m = "wakeup" -> "Wakeup"
              [] m \in {"relock", "quitwait"} -> "CloseWindow" [] OTHER -> "nothing"

CountsOK ==
  /\ \A T \in Waited : T # Waits(main) => Way(port, mainPort, T) = 0
  /\ Waits(main) # "nothing" => waitCount = Way(port, mainPort, Waits(main)) + ghost.freed

LEMMA WaitsIs ==
  /\ WaitingFor = Waits(main)
  /\ main # "relock" => WaitsFor = Waits(main)
  /\ "nothing" \notin Waited /\ "Timer" \notin Waited /\ Waited \subseteq WindowMessage
  /\ \A m : Waits(m) = "nothing" \/ Waits(m) \in Waited
<1>1. \A m : /\ m = "sleep" => Waits(m) = "Sleep"
             /\ m = "wakeup" => Waits(m) = "Wakeup"
             /\ m \in {"relock", "quitwait"} => Waits(m) = "CloseWindow"
             /\ m \notin {"sleep", "wakeup", "relock", "quitwait"} => Waits(m) = "nothing"
  BY DEF Waits
<1>2. /\ main = "sleep" => WaitsFor = "Sleep"
      /\ main = "wakeup" => WaitsFor = "Wakeup"
      /\ main = "quitwait" => WaitsFor = "CloseWindow"
      /\ main \notin {"sleep", "wakeup", "quitwait"} => WaitsFor = "nothing"
  BY DEF WaitsFor
<1>3. WaitingFor = IF main = "relock" THEN "CloseWindow" ELSE WaitsFor
  BY DEF WaitingFor
<1>4. main # "relock" => WaitsFor = Waits(main)
  BY <1>1, <1>2
<1>5. WaitingFor = Waits(main)
  BY <1>1, <1>3, <1>4
<1>6. "nothing" \notin Waited /\ "Timer" \notin Waited /\ Waited \subseteq WindowMessage
  BY DEF Waited, WindowMessage
<1>7. \A m : Waits(m) = "nothing" \/ Waits(m) \in Waited
  BY <1>1 DEF Waited
<1> QED BY <1>4, <1>5, <1>6, <1>7

LEMMA WaitsAre ==
  /\ \A m : m \in {"wait", "refused", "unpatched", "quit", "drain", "done", "astray"} =>
           Waits(m) = "nothing"
  /\ Waits("sleep") = "Sleep" /\ Waits("wakeup") = "Wakeup"
  /\ Waits("relock") = "CloseWindow" /\ Waits("quitwait") = "CloseWindow"
BY DEF Waits

(***************************************************************************)
(* What is thrown away with a port.                                        *)
(***************************************************************************)
LEMMA ThrownAway ==
  ASSUME NEW w \in Window, port[w] \in Seq(WindowRequest), NEW T \in Waited,
         \A t \in Waited : t # T => Places(port[w], {Request(t)}) = {}
  PROVE  Unanswered(w, Waited) = Cardinality(Places(port[w], {Request(T)}))
<1> DEFINE q == port[w]
<1>1. ASSUME NEW i PROVE i \in Places(q, {Request(t) : t \in Waited}) <=> i \in Places(q, {Request(T)})
  <2>1. i \in Places(q, {Request(t) : t \in Waited}) <=>
          i \in 1 .. Len(q) /\ \E t \in Waited : q[i] = Request(t)
    BY DEF Places
  <2>2. \A t : i \in Places(q, {Request(t)}) <=> i \in 1 .. Len(q) /\ q[i] = Request(t)
    BY DEF Places
  <2> HIDE DEF q
  <2>3. \A t \in Waited : t # T => i \notin Places(q, {Request(t)})
    BY DEF q
  <2> QED BY <2>1, <2>2, <2>3
<1>2. Places(q, {Request(t) : t \in Waited}) = Places(q, {Request(T)})
  BY <1>1
<1> QED BY <1>2 DEF Unanswered

SentTo(G, p, p2, sent) ==
  \A w \in Window : p2[w] = IF w \in G THEN Append(p[w], Request(sent)) ELSE p[w]

LEMMA CountsKept ==
  ASSUME Basic, CountsOK, [Next]_vars
  PROVE  CountsOK'
<1>1. /\ WindowsOK /\ PortsOK /\ TasksOK
      /\ port \in [Window -> Seq(WindowRequest)] /\ mainPort \in Seq(MainMessage)
      /\ waitCount \in Nat /\ ghost.freed \in Nat
      /\ main \in MainPlace
  BY DEF Basic, PortsOK, TasksOK
<1> DEFINE before(T) == Way(port, mainPort, T)
           after(T) == Way(port', mainPort', T)
           Goal == /\ \A T \in Waited : T # Waits(main') => after(T) = 0
                   /\ Waits(main') # "nothing" => waitCount' = after(Waits(main')) + ghost'.freed
<1>2. /\ \A T \in Waited : T # Waits(main) => before(T) = 0
      /\ Waits(main) # "nothing" => waitCount = before(Waits(main)) + ghost.freed
      /\ \A T : before(T) \in Nat
  BY <1>1, WayNat DEF CountsOK
<1> HIDE DEF before, after
<1>3. ASSUME \A T \in Waited : after(T) = before(T), Waits(main') = Waits(main),
             waitCount' = waitCount, ghost'.freed = ghost.freed
      PROVE  Goal
  BY <1>2, <1>3, WaitsIs
<1>4. ASSUME Waits(main) = "nothing", NEW T0 \in Waited, Waits(main') = T0,
             NEW n \in Nat, waitCount' = n, ghost'.freed = 0,
             \A T \in Waited : after(T) = before(T) + IF T = T0 THEN n ELSE 0
      PROVE  Goal
  <2>1. \A T \in Waited : before(T) = 0
    BY <1>2, <1>4, WaitsIs
  <2>2. \A T \in Waited : T # T0 => after(T) = 0
    BY <1>4, <2>1
  <2>3. after(T0) = n
    BY <1>4, <2>1
  <2> QED BY <1>4, <2>2, <2>3
<1>5. ASSUME NEW w \in Window, Handle(w) PROVE Goal
  <2> DEFINE m == Head(port[w]).type
  <2>1. /\ m \in WindowMessage /\ Head(port[w]) = Request(m) /\ port[w] # << >>
        /\ port' = [port EXCEPT ![w] = Tail(port[w])]
        /\ mainPort' = Append(mainPort, Reply(w, m))
    BY <1>1, <1>5, FirstMessage
  <2>2. main' = main /\ waitCount' = waitCount /\ ghost'.freed = ghost.freed
    BY <1>5 DEF Handle, TasksOK, Basic
  <2> HIDE DEF m
  <2>3. /\ port' \in [Window -> Seq(WindowRequest)] /\ port'[w] = Tail(port[w])
        /\ \A v \in Window \ {w} : port'[v] = port[v]
    BY <1>1, <2>1, PortsKept DEF PortsOK
  <2>4. \A T : after(T) = before(T)
    <3> SUFFICES ASSUME NEW T
                 PROVE  WaySame(port, mainPort, port', Append(mainPort, Reply(w, m)), T)
      BY <2>1 DEF before, after, WaySame
    <3> HIDE DEF Goal
    <3>1. port[w] # << >> /\ m \in WindowMessage /\ Head(port[w]) = Request(m)
      BY <2>1
    <3> QED BY <1>1, <2>3, <3>1, WayHandle
  <2> QED BY <1>3, <2>2, <2>4
<1>6. ASSUME NEW w \in Window, End(w) PROVE Goal
  <2> DEFINE d(T) == Cardinality(Places(port[w], {Request(T)}))
             p2 == [port EXCEPT ![w] = << >>]
             c == RequestOf(MainWindow, "CloseScalos")
  <2>1. /\ main' = main /\ waitCount' = waitCount
        /\ ghost'.freed = ghost.freed + Unanswered(w, Waited)
        /\ port' = p2 /\ mainPort' \in {mainPort, Append(mainPort, c)}
    BY <1>6 DEF End, TasksOK, Basic
  <2>2. port[w] \in Seq(WindowRequest)
    BY <1>1
  <2>3. \A T : d(T) \in Nat /\ (d(T) = 0 => Places(port[w], {Request(T)}) = {})
    BY <2>2, PlacesFacts
  <2>4. \A T : Way(p2, mainPort, T) + d(T) = before(T)
    BY <1>1, WayEmpty DEF before
  <2>5. p2 \in [Window -> Seq(WindowRequest)]
    BY <1>1, EmptySeq
  <2>6. c \in MainMessage /\ \A T : c \notin Replies(T)
    BY Messages DEF MainMessage
  <2> HIDE DEF d, p2, c
  <2>7. \A T : Way(p2, Append(mainPort, c), T) = Way(p2, mainPort, T)
    BY <1>1, <2>5, <2>6, WayPut
  <2>8. \A T : after(T) = Way(p2, mainPort, T) /\ after(T) \in Nat
    BY <1>1, <2>1, <2>5, <2>7, WayNat DEF after
  <2>9. \A T : after(T) + d(T) = before(T) /\ after(T) \in Nat /\ d(T) \in Nat
    BY <2>3, <2>4, <2>8
  <2>10. \A T \in Waited : T # Waits(main) => after(T) = 0 /\ d(T) = 0
    BY <1>2, <2>9
  <2>11. ASSUME Waits(main) # "nothing"
         PROVE  waitCount' = after(Waits(main)) + ghost'.freed
    <3> DEFINE T == Waits(main)
    <3>1. T \in Waited
      BY <2>11, WaitsIs
    <3> HIDE DEF T
    <3>2. \A t \in Waited : t # T => Places(port[w], {Request(t)}) = {}
      BY <2>3, <2>10 DEF T
    <3>3. Unanswered(w, Waited) = d(T)
      BY <2>2, <3>1, <3>2, ThrownAway DEF d
    <3>4. after(T) + d(T) = before(T) /\ after(T) \in Nat /\ d(T) \in Nat
      BY <2>9
    <3>5. waitCount = before(T) + ghost.freed
      BY <1>2, <2>11 DEF T
    <3>6. ghost'.freed = ghost.freed + d(T)
      BY <2>1, <3>3
    <3>7. waitCount' = after(T) + ghost'.freed
      BY <1>1, <2>1, <3>4, <3>5, <3>6
    <3> QED BY <3>7 DEF T
  <2> QED BY <2>1, <2>10, <2>11
<1>7. ASSUME NEW p2, NEW G \in SUBSET Window, NEW sent \in WindowMessage, NEW q \in Seq(MainMessage),
             SentTo(G, port, p2, sent)
      PROVE  \A T : WayGrows(port, p2, q, T, IF T = sent THEN Cardinality(G) ELSE 0)
  BY <1>1, <1>7, WaySend DEF SentTo
<1>8. ASSUME mainPort # << >>, NEW a, NEW s, Head(mainPort) = RequestOf(a, s)
      PROVE  \A T : Way(port, Tail(mainPort), T) = before(T)
  <2>1. \A T : Way(port, mainPort, T) = Way(port, Tail(mainPort), T)
                                        + IF Head(mainPort) \in Replies(T) THEN 1 ELSE 0
    BY <1>1, <1>8, WayTake
  <2>2. \A T : Head(mainPort) \notin Replies(T)
    BY <1>8, Messages
  <2>3. \A T : Way(port, Tail(mainPort), T) \in Nat
    BY <1>1, <1>8, TailFacts, WayNat
  <2>4. \A T : Way(port, mainPort, T) = Way(port, Tail(mainPort), T) + 0
    BY <2>1, <2>2
  <2> QED BY <2>3, <2>4 DEF before
<1>9. \A S \in SUBSET Window : Cardinality(S) \in Nat
  BY Actors, FS_Subset, FS_CardinalityType
<1>10. ASSUME ProcessTimerMessage PROVE Goal
  <2>1. main' = main /\ waitCount' = waitCount /\ mainPort' = mainPort
    BY <1>10 DEF ProcessTimerMessage, mainVars
  <2>2. PICK G \in SUBSET Window : \A w \in Window :
          port'[w] = IF w \in G THEN Append(port[w], Request("Timer")) ELSE port[w]
    BY <1>1, <1>10, SendsTimers
  <2>3. ghost'.freed = ghost.freed
    BY <1>1, <1>10, SendsTimers DEF TasksOK
  <2>4. \A T : WayGrows(port, port', mainPort, T, IF T = "Timer" THEN Cardinality(G) ELSE 0)
    <3>1. SentTo(G, port, port', "Timer") /\ "Timer" \in WindowMessage
      BY <2>2 DEF SentTo, WindowMessage
    <3> HIDE DEF Goal
    <3> QED BY <1>1, <1>7, <3>1
  <2>5. \A T \in Waited : after(T) = before(T) + 0
    BY <2>1, <2>4, WaitsIs DEF after, before, WayGrows
  <2>6. \A T \in Waited : after(T) = before(T)
    BY <1>2, <2>5
  <2> QED BY <1>3, <2>1, <2>3, <2>6
<1>11. ASSUME NEW a, NEW s, NEW T0 \in {"Sleep", "Wakeup"}, NEW G \in SUBSET Window,
              main = "wait", Waits(main') = T0, mainPort # << >>, Head(mainPort) = RequestOf(a, s),
              mainPort' = Tail(mainPort), waitCount' = Cardinality(G), ghost'.freed = 0,
              \A w \in Window : port'[w] = IF w \in G THEN Append(port[w], Request(T0)) ELSE port[w]
       PROVE  Goal
  <2>1. \A T : Way(port, Tail(mainPort), T) = before(T)
    BY <1>8, <1>11
  <2>2. T0 \in WindowMessage /\ T0 \in Waited /\ Tail(mainPort) \in Seq(MainMessage)
    BY <1>1, <1>11, TailFacts DEF WindowMessage, Waited
  <2>3. \A T : WayGrows(port, port', Tail(mainPort), T, IF T = T0 THEN Cardinality(G) ELSE 0)
    <3>1. SentTo(G, port, port', T0) /\ T0 \in WindowMessage /\ Tail(mainPort) \in Seq(MainMessage)
      BY <1>11, <2>2 DEF SentTo
    <3> HIDE DEF Goal
    <3> QED BY <1>7, <3>1
  <2>4. \A T : after(T) = before(T) + IF T = T0 THEN Cardinality(G) ELSE 0
    <3>1. \A T : after(T) = Way(port', Tail(mainPort), T)
      BY <1>11 DEF after
    <3>2. \A T : Way(port', Tail(mainPort), T) =
                   Way(port, Tail(mainPort), T) + IF T = T0 THEN Cardinality(G) ELSE 0
      BY <2>3 DEF WayGrows
    <3> QED BY <2>1, <3>1, <3>2
  <2>5. Waits(main) = "nothing"
    BY <1>11, WaitsAre
  <2> HIDE DEF Goal
  <2> QED BY <1>4, <1>9, <1>11, <2>2, <2>4, <2>5
<1>12. ASSUME AppSleepMsg PROVE Goal
  <2>1. \E a \in Asker : \E got \in SUBSET {w \in Window : Listed(w) /\ ~asleep[w]} :
           /\ mainPort # << >> /\ Head(mainPort) = RequestOf(a, "AppSleep")
           /\ mainPort' = Tail(mainPort) /\ main = "wait" /\ main' = "sleep"
           /\ \A w \in Window :
                port'[w] = IF w \in got THEN Append(port[w], Request("Sleep")) ELSE port[w]
           /\ waitCount' = Cardinality(got) /\ ghost' = [ghost EXCEPT !.freed = 0]
    BY <1>1, <1>12, SendsSleep
  <2>2. ghost'.freed = 0
    BY <1>1, <2>1 DEF TasksOK
  <2> HIDE DEF Goal
  <2> QED BY <1>11, <2>1, <2>2, WaitsAre
<1>13. ASSUME AppWakeupMsg PROVE Goal
  <2>1. \E a \in Asker : \E got \in SUBSET {w \in Window : Listed(w) /\ asleep[w]} :
           /\ mainPort # << >> /\ Head(mainPort) = RequestOf(a, "AppWakeup")
           /\ mainPort' = Tail(mainPort) /\ main = "wait" /\ main' = "wakeup"
           /\ \A w \in Window :
                port'[w] = IF w \in got THEN Append(port[w], Request("Wakeup")) ELSE port[w]
           /\ waitCount' = Cardinality(got)
           /\ ghost' = [ghost EXCEPT !.freed = 0, !.failed = ghost'.failed]
    BY <1>1, <1>13, SendsWakeup
  <2>2. ghost'.freed = 0
    BY <1>1, <2>1 DEF TasksOK
  <2> HIDE DEF Goal
  <2> QED BY <1>11, <2>1, <2>2, WaitsAre
<1>14. ASSUME AskToClose PROVE Goal
  <2>1. main = "quit" /\ mainPort' = mainPort
    BY <1>14 DEF AskToClose
  <2>2. CASE UNCHANGED <<port, waitCount, ghost, lock, main>>
    <3>1. \A T : after(T) = before(T)
      BY <2>1, <2>2 DEF after, before
    <3> QED BY <1>3, <2>2, <3>1
  <2>3. CASE /\ \A w \in Window :
                  port'[w] = IF w \in {next} THEN Append(port[w], Request("CloseWindow"))
                             ELSE port[w]
             /\ waitCount' = 1 /\ ghost' = [ghost EXCEPT !.freed = 0] /\ main' = "relock"
    <3>1. {next} \in SUBSET Window /\ Cardinality({next}) = 1
      BY <1>1, <1>14, AsksToClose, FS_Singleton
    <3>2. \A T : WayGrows(port, port', mainPort, T,
                         IF T = "CloseWindow" THEN Cardinality({next}) ELSE 0)
      <4>1. SentTo({next}, port, port', "CloseWindow") /\ "CloseWindow" \in WindowMessage
        BY <2>3 DEF SentTo, WindowMessage
      <4> HIDE DEF Goal
      <4> QED BY <1>1, <1>7, <3>1, <4>1
    <3>3. \A T : after(T) = before(T) + IF T = "CloseWindow" THEN 1 ELSE 0
      BY <2>1, <3>1, <3>2 DEF after, before, WayGrows
    <3>4. ghost'.freed = 0
      BY <1>1, <2>3 DEF TasksOK
    <3>5. Waits(main) = "nothing" /\ Waits(main') = "CloseWindow" /\ "CloseWindow" \in Waited
      BY <2>1, <2>3, WaitsAre DEF Waited
    <3> HIDE DEF Goal
    <3> QED BY <1>4, <2>3, <3>3, <3>4, <3>5
  <2>4. \/ UNCHANGED <<port, waitCount, ghost, lock, main>>
        \/ /\ \A w \in Window :
                port'[w] = IF w \in {next} THEN Append(port[w], Request("CloseWindow"))
                           ELSE port[w]
           /\ waitCount' = 1 /\ ghost' = [ghost EXCEPT !.freed = 0] /\ main' = "relock"
    BY <1>1, <1>14, AsksToClose
  <2> QED BY <2>2, <2>3, <2>4
<1>15. ASSUME WaitReply PROVE Goal
  <2> DEFINE m == Head(mainPort)  W == Waits(main)
  <2>1. /\ main' = main /\ port' = port /\ mainPort # << >> /\ mainPort' = Tail(mainPort)
        /\ WaitsFor # "nothing" /\ waitCount > 0
        /\ waitCount' = IF m.kind = "reply" /\ m.type = WaitsFor THEN waitCount - 1 ELSE waitCount
        /\ ghost'.freed = ghost.freed
    BY <1>15 DEF WaitReply, Counts, windowVars, TasksOK, Basic
  <2>2. W = WaitsFor /\ W \in Waited
    <3>1. main # "relock"
      BY <2>1 DEF WaitsFor
    <3> QED BY <2>1, <3>1, WaitsIs
  <2>3. \A T : m \in Replies(T) <=> m.kind = "reply" /\ m.type = T
    <3>1. /\ m.kind = "reply" => m.from \in Window /\ m = Reply(m.from, m.type)
          /\ m.kind \in {"request", "reply"}
          /\ m.kind = "request" => m = RequestOf(m.from, m.type)
      BY <1>1, <2>1, MainFirst
    <3> HIDE DEF m
    <3>2. CASE m.kind = "reply"
      BY <3>1, <3>2, Messages
    <3>3. CASE m.kind = "request"
      BY <3>1, <3>3, Messages
    <3> QED BY <3>1, <3>2, <3>3
  <2>4. \A T : Way(port, mainPort, T) = Way(port, Tail(mainPort), T)
                                        + IF m \in Replies(T) THEN 1 ELSE 0
    BY <1>1, <2>1, WayTake
  <2>5. \A T : /\ before(T) = after(T) + IF m \in Replies(T) THEN 1 ELSE 0
               /\ after(T) \in Nat
    BY <1>1, <2>1, <2>4, TailFacts, WayNat DEF before, after
  <2> HIDE DEF m, W
  <2>6. \A T \in Waited : T # W => after(T) = 0
    BY <1>2, <2>5 DEF W
  <2>7. waitCount' = after(W) + ghost'.freed
    <3>1. waitCount = before(W) + ghost.freed
      BY <1>2, <2>2, WaitsIs DEF W
    <3>2. CASE m \in Replies(W)
      <4>1. before(W) = after(W) + 1 /\ after(W) \in Nat
        BY <2>5, <3>2
      <4>2. waitCount' = waitCount - 1
        BY <2>1, <2>2, <2>3, <3>2
      <4> QED BY <1>1, <2>1, <3>1, <4>1, <4>2
    <3>3. CASE m \notin Replies(W)
      <4>1. before(W) = after(W) + 0 /\ after(W) \in Nat
        BY <2>5, <3>3
      <4>2. waitCount' = waitCount
        BY <2>1, <2>2, <2>3, <3>3
      <4> QED BY <1>1, <2>1, <3>1, <4>1, <4>2
    <3> QED BY <3>2, <3>3
  <2> QED BY <2>1, <2>6, <2>7 DEF W
<1>16. ASSUME Answered \/ Closed PROVE Goal
  <2>1. /\ port' = port /\ mainPort' = mainPort /\ waitCount = 0 /\ Waits(main') = "nothing"
        /\ Waits(main) # "nothing"
    BY <1>16, WaitsAre DEF Answered, Closed, windowVars
  <2>2. \A T : after(T) = before(T)
    BY <2>1 DEF after, before
  <2>3. before(Waits(main)) = 0
    BY <1>1, <1>2, <2>1
  <2> QED BY <1>2, <2>1, <2>2, <2>3
<1>17. ASSUME TimerReplyMsg \/ CloseWindowMsg PROVE Goal
  <2>1. /\ main' = main /\ waitCount' = waitCount /\ ghost' = ghost /\ port' = port
        /\ mainPort # << >> /\ mainPort' = Tail(mainPort)
        /\ \/ \E w \in Window : Head(mainPort) = Reply(w, "Timer")
           \/ Head(mainPort) = RequestOf(MainWindow, "CloseScalos")
    BY <1>17 DEF TimerReplyMsg, CloseWindowMsg, Arrives, windowVars
  <2>2. \A T \in Waited : Head(mainPort) \notin Replies(T)
    BY <2>1, Messages, WaitsIs
  <2>3. \A T : /\ Way(port, mainPort, T) = Way(port, Tail(mainPort), T)
                                           + IF Head(mainPort) \in Replies(T) THEN 1 ELSE 0
               /\ Way(port, Tail(mainPort), T) \in Nat
    BY <1>1, <2>1, WayTake, TailFacts, WayNat
  <2>4. \A T \in Waited : before(T) = after(T) + 0 /\ after(T) \in Nat
    BY <2>1, <2>2, <2>3 DEF before, after
  <2>5. \A T \in Waited : after(T) = before(T)
    BY <2>4
  <2> QED BY <1>3, <2>1, <2>5
<1>18. ASSUME NEW a \in Asker, AskSleep(a) \/ AskWakeup(a) PROVE Goal
  <2>1. /\ main' = main /\ waitCount' = waitCount /\ ghost'.freed = ghost.freed /\ port' = port
        /\ mainPort' \in {mainPort, Append(mainPort, RequestOf(a, "AppSleep")),
                          Append(mainPort, RequestOf(a, "AppWakeup"))}
    BY <1>18 DEF AskSleep, AskWakeup, windowVars, TasksOK, Basic
  <2>2. \A s \in {"AppSleep", "AppWakeup"} :
          RequestOf(a, s) \in MainMessage /\ \A T : RequestOf(a, s) \notin Replies(T)
    BY Messages DEF MainMessage
  <2>3. \A s \in {"AppSleep", "AppWakeup"} : \A T :
          Way(port, Append(mainPort, RequestOf(a, s)), T) = Way(port, mainPort, T)
    BY <1>1, <2>2, WayPut
  <2>4. \A T : after(T) = before(T)
    BY <2>1, <2>3 DEF after, before
  <2> QED BY <1>3, <2>1, <2>4
<1>19. ASSUME \/ UNCHANGED vars \/ LeaveMainWait \/ Signalled \/ LockForQuit
              \/ Relock \/ FollowFreed \/ AllAsked
              \/ WaitForQuit
              \/ \E w \in Window : \/ Begin(w) \/ EnterList(w) \/ UserCloses(w) \/ Obeys(w)
                                   \/ CloseIt(w) \/ Dispose(w)
              \/ \E a \in Asker : Reset(a)
              \/ \E o \in Opener : FindWindow(o) \/ ActivateIt(o) \/ StartWindow(o)
       PROVE  Goal
  <2>1. port' = port /\ mainPort' = mainPort /\ waitCount' = waitCount
    BY <1>19 DEF vars, windowVars, mainVars, LeaveMainWait, Signalled, LockForQuit,
      Relock, FollowFreed, AllAsked,
      WaitForQuit, Begin, EnterList, UserCloses, Obeys, Leave, CloseIt, Dispose, Reset,
      FindWindow,
      ActivateIt, StartWindow
  <2>2. ghost'.freed = ghost.freed
    BY <1>1, <1>19 DEF vars, LeaveMainWait, Signalled, LockForQuit, Relock, FollowFreed,
      AllAsked, WaitForQuit,
      Begin, EnterList, UserCloses, Obeys, CloseIt, Dispose, Reset, FindWindow, ActivateIt,
      StartWindow, TasksOK
  <2>3. Waits(main') = Waits(main)
    BY <1>19, WaitsAre DEF vars, mainVars, LeaveMainWait, Signalled, LockForQuit, Relock,
      FollowFreed, AllAsked,
      WaitForQuit, Begin, EnterList, UserCloses, Obeys, Leave, CloseIt, Dispose, Reset,
      FindWindow,
      ActivateIt, StartWindow
  <2>4. \A T : after(T) = before(T)
    BY <2>1 DEF after, before
  <2> QED BY <1>3, <2>1, <2>2, <2>3, <2>4
<1> HIDE DEF Goal
<1>20. Goal
  BY <1>5, <1>6, <1>10, <1>12, <1>13, <1>14, <1>15, <1>16, <1>17, <1>18, <1>19
  DEF Next, MainStep, WindowStep
<1> QED BY <1>20 DEF Goal, after, CountsOK

-----------------------------------------------------------------------------
(***************************************************************************)
(* The timer messages of a window that has not ended.                      *)
(***************************************************************************)
TimersOK ==
  \A w \in Window : proc[w] \notin Ended =>
    IF w \in ghost.noTimer THEN timerSent[w] /\ TimersIn(port[w], mainPort, w) = 0
    ELSE TimersIn(port[w], mainPort, w) = (IF timerSent[w] THEN 1 ELSE 0)

LEMMA EndsForGood ==
  ASSUME WindowsOK, [Next]_vars, NEW v \in Window, proc'[v] \notin Ended
  PROVE  proc[v] \notin Ended
<1>1. proc \in [Window -> Proc]
  BY DEF WindowsOK
<1>2. ASSUME NEW w \in Window,
             \/ Begin(w) \/ EnterList(w) \/ UserCloses(w) \/ Obeys(w) \/ CloseIt(w) \/ Dispose(w) \/ End(w)
      PROVE  proc[v] \notin Ended
  <2>1. \/ /\ proc[w] \notin Ended
           /\ \E s : proc' = [proc EXCEPT ![w] = s]
        \/ proc' = [proc EXCEPT ![w] = "gone"]
    BY <1>2 DEF Begin, EnterList, UserCloses, Obeys, Leave, CloseIt, Dispose, End, Ended
  <2> QED BY <1>1, <2>1 DEF Ended
<1>3. ASSUME NEW o \in Opener, StartWindow(o) PROVE proc[v] \notin Ended
  <2>1. \E w \in Window : proc[w] = "none" /\ proc' = [proc EXCEPT ![w] = "created"]
    BY <1>3 DEF StartWindow
  <2> QED BY <1>1, <2>1 DEF Ended
<1>4. ASSUME \/ UNCHANGED vars \/ MainStep \/ Signalled \/ ProcessTimerMessage
             \/ \E w \in Window : Handle(w)
             \/ \E a \in Asker : AskSleep(a) \/ Reset(a) \/ AskWakeup(a)
             \/ \E o \in Opener : FindWindow(o) \/ ActivateIt(o)
      PROVE  proc[v] \notin Ended
  <2>1. proc' = proc
    BY <1>4 DEF vars, windowVars, MainStep, TimerReplyMsg, CloseWindowMsg, AppSleepMsg,
      AppWakeupMsg, WaitReply, Answered, LeaveMainWait, Signalled, LockForQuit,
      AskToClose, Relock, Closed,
      FollowFreed, AllAsked, WaitForQuit, ProcessTimerMessage, Handle, AskSleep, Reset,
      AskWakeup, FindWindow, ActivateIt
  <2> QED BY <2>1
<1> QED BY <1>2, <1>3, <1>4 DEF Next, WindowStep

LEMMA TimersKept ==
  ASSUME Basic, TimersOK, [Next]_vars
  PROVE  TimersOK'
<1> SUFFICES ASSUME NEW v \in Window, proc'[v] \notin Ended
             PROVE  IF v \in ghost'.noTimer
                    THEN timerSent'[v] /\ TimersIn(port'[v], mainPort', v) = 0
                    ELSE TimersIn(port'[v], mainPort', v) = (IF timerSent'[v] THEN 1 ELSE 0)
  BY DEF TimersOK
<1> DEFINE before == TimersIn(port[v], mainPort, v)
           after == TimersIn(port'[v], mainPort', v)
           was == timerSent[v]  is == timerSent'[v]
           Goal == IF v \in ghost'.noTimer THEN is /\ after = 0
                   ELSE after = (IF is THEN 1 ELSE 0)
<1>1. /\ WindowsOK /\ PortsOK /\ TasksOK
      /\ port \in [Window -> Seq(WindowRequest)] /\ mainPort \in Seq(MainMessage)
      /\ timerSent \in [Window -> BOOLEAN] /\ port[v] \in Seq(WindowRequest)
      /\ port' \in [Window -> Seq(WindowRequest)] /\ mainPort' \in Seq(MainMessage)
      /\ port'[v] \in Seq(WindowRequest)
  BY PortsKept DEF Basic, WindowsOK, PortsOK
<1>2. /\ v \in ghost.noTimer => was /\ before = 0
      /\ v \notin ghost.noTimer => before = (IF was THEN 1 ELSE 0)
      /\ was \in BOOLEAN
  <2>1. proc[v] \notin Ended
    BY <1>1, EndsForGood
  <2> QED BY <1>1, <2>1 DEF TimersOK
<1>3. before \in Nat /\ after \in Nat
  BY <1>1, TimersNat
<1> HIDE DEF before, after, was, is
<1>4. ASSUME after = before, is = was, v \in ghost'.noTimer <=> v \in ghost.noTimer PROVE Goal
  BY <1>2, <1>4
<1>5. ASSUME NEW w \in Window, Handle(w) PROVE Goal
  <2> DEFINE m == Head(port[w]).type
  <2>1. /\ m \in WindowMessage /\ Head(port[w]) = Request(m) /\ port[w] # << >>
        /\ port[w] \in Seq(WindowRequest) /\ Reply(w, m) \in MainMessage
        /\ port' = [port EXCEPT ![w] = Tail(port[w])]
        /\ mainPort' = Append(mainPort, Reply(w, m))
    BY <1>1, <1>5, FirstMessage
  <2>2. is = was /\ ghost'.noTimer = ghost.noTimer
    BY <1>1, <1>5 DEF Handle, TasksOK, is, was
  <2> HIDE DEF m
  <2>3. CASE v = w
    <3>1. TimersIn(Tail(port[w]), Append(mainPort, Reply(w, m)), w) = TimersIn(port[w], mainPort, w)
      BY <1>1, <2>1, TimersHandle
    <3>2. port'[v] = Tail(port[w])
      BY <1>1, <2>1, <2>3
    <3>3. after = before
      BY <2>1, <2>3, <3>1, <3>2 DEF after, before
    <3> QED BY <1>4, <2>2, <3>3
  <2>4. CASE v # w
    <3>1. Reply(w, m) # Reply(v, "Timer")
      BY <2>4, Messages
    <3>2. TimersIn(port[v], Append(mainPort, Reply(w, m)), v) = TimersIn(port[v], mainPort, v)
      BY <1>1, <2>1, <3>1, TimersPut
    <3>3. port'[v] = port[v]
      BY <1>1, <2>1, <2>4
    <3>4. after = before
      BY <2>1, <3>2, <3>3 DEF after, before
    <3> QED BY <1>4, <2>2, <3>4
  <2> QED BY <2>3, <2>4
<1>6. ASSUME NEW a, NEW s, RequestOf(a, s) \in MainMessage, port'[v] = port[v],
             mainPort' \in {mainPort, Append(mainPort, RequestOf(a, s))}
      PROVE  after = before
  <2>1. RequestOf(a, s) # Reply(v, "Timer")
    BY Messages
  <2>2. TimersIn(port[v], Append(mainPort, RequestOf(a, s)), v) = TimersIn(port[v], mainPort, v)
    BY <1>1, <1>6, <2>1, TimersPut
  <2> QED BY <1>6, <2>2 DEF after, before
<1>7. ASSUME NEW w \in Window, End(w) PROVE Goal
  <2>1. /\ proc' = [proc EXCEPT ![w] = "gone"] /\ port' = [port EXCEPT ![w] = << >>]
        /\ mainPort' \in {mainPort, Append(mainPort, RequestOf(MainWindow, "CloseScalos"))}
    BY <1>7 DEF End
  <2>2. is = was /\ ghost'.noTimer = ghost.noTimer
    BY <1>1, <1>7 DEF End, TasksOK, is, was
  <2>3. v # w /\ port'[v] = port[v]
    BY <1>1, <2>1 DEF Ended, WindowsOK
  <2>4. RequestOf(MainWindow, "CloseScalos") \in MainMessage
    BY DEF MainMessage
  <2> QED BY <1>4, <1>6, <2>1, <2>2, <2>3, <2>4
<1>8. ASSUME NEW a \in Asker, AskSleep(a) \/ AskWakeup(a) PROVE Goal
  <2>1. /\ port' = port /\ timerSent' = timerSent
        /\ \E s \in {"AppSleep", "AppWakeup"} :
             mainPort' \in {mainPort, Append(mainPort, RequestOf(a, s))}
    BY <1>8 DEF AskSleep, AskWakeup, windowVars
  <2>2. is = was /\ ghost'.noTimer = ghost.noTimer
    BY <1>1, <1>8, <2>1 DEF AskSleep, AskWakeup, TasksOK, is, was
  <2>3. \A s \in {"AppSleep", "AppWakeup"} : RequestOf(a, s) \in MainMessage
    BY DEF MainMessage
  <2> QED BY <1>4, <1>6, <2>1, <2>2, <2>3
<1>9. ASSUME ProcessTimerMessage PROVE Goal
  <2>1. PICK S \in SUBSET {w \in Window : Due(w)} : \E got \in SUBSET S :
          /\ timerSent' = [w \in Window |-> timerSent[w] \/ w \in S]
          /\ \A w \in Window :
               port'[w] = IF w \in got THEN Append(port[w], Request("Timer")) ELSE port[w]
          /\ ghost' = [ghost EXCEPT !.noTimer = @ \cup (S \ got)]
    BY <1>1, <1>9, SendsTimers
  <2>2. PICK got \in SUBSET S :
          /\ timerSent' = [w \in Window |-> timerSent[w] \/ w \in S]
          /\ \A w \in Window :
               port'[w] = IF w \in got THEN Append(port[w], Request("Timer")) ELSE port[w]
          /\ ghost' = [ghost EXCEPT !.noTimer = @ \cup (S \ got)]
    BY <2>1
  <2>3. mainPort' = mainPort /\ ghost'.noTimer = ghost.noTimer \cup (S \ got)
    BY <1>1, <1>9, <2>2 DEF ProcessTimerMessage, mainVars, TasksOK
  <2>4. is = (was \/ v \in S) /\ (v \in S => ~was)
    BY <2>2 DEF is, was, Due
  <2>5. CASE v \in got
    <3>1. TimersIn(Append(port[v], Request("Timer")), mainPort, v) =
            TimersIn(port[v], mainPort, v) + IF "Timer" = "Timer" THEN 1 ELSE 0
      BY <1>1, TimersSend DEF WindowMessage
    <3>2. after = before + 1
      BY <2>2, <2>3, <2>5, <3>1 DEF after, before
    <3>3. v \in S /\ ~was /\ is /\ v \notin ghost.noTimer /\ v \notin ghost'.noTimer
      BY <1>2, <2>3, <2>4, <2>5
    <3>4. after = 1
      BY <1>2, <1>3, <3>2, <3>3
    <3> QED BY <3>3, <3>4
  <2>6. CASE v \notin got
    <3>1. after = before
      BY <2>2, <2>3, <2>6 DEF after, before
    <3>2. CASE v \in S
      <4>1. ~was /\ is /\ v \notin ghost.noTimer /\ v \in ghost'.noTimer
        BY <1>2, <2>3, <2>4, <2>6, <3>2
      <4> QED BY <1>2, <3>1, <4>1
    <3>3. CASE v \notin S
      <4>1. is = was
        BY <1>2, <2>4, <3>3
      <4>2. v \in ghost'.noTimer <=> v \in ghost.noTimer
        BY <2>3, <3>3
      <4> HIDE DEF Goal
      <4> QED BY <1>4, <3>1, <4>1, <4>2
    <3> QED BY <3>2, <3>3
  <2> QED BY <2>5, <2>6
<1>10. ASSUME mainPort # << >>, mainPort' = Tail(mainPort), port'[v] = port[v]
       PROVE  before = after + IF Head(mainPort) = Reply(v, "Timer") THEN 1 ELSE 0
  BY <1>1, <1>10, TimersTake DEF after, before
<1>11. ASSUME TimerReplyMsg PROVE Goal
  <2>1. PICK w \in Window :
          /\ Head(mainPort) = Reply(w, "Timer") /\ mainPort # << >> /\ mainPort' = Tail(mainPort)
          /\ timerSent' = [timerSent EXCEPT ![w] = FALSE] /\ port' = port /\ ghost' = ghost
    BY <1>11 DEF TimerReplyMsg, Arrives
  <2>2. CASE v = w
    <3>1. before = after + 1
      BY <1>10, <2>1, <2>2
    <3>2. v \notin ghost.noTimer /\ after = 0
      BY <1>2, <1>3, <3>1
    <3>3. is = FALSE
      BY <1>1, <2>1, <2>2 DEF is
    <3> QED BY <2>1, <3>2, <3>3
  <2>3. CASE v # w
    <3>1. Head(mainPort) # Reply(v, "Timer")
      BY <2>1, <2>3, Messages
    <3>2. before = after + 0
      BY <1>10, <2>1, <3>1
    <3>3. before = after
      BY <1>3, <3>2
    <3>4. is = was
      BY <1>1, <2>1, <2>3 DEF is, was
    <3> QED BY <1>4, <2>1, <3>3, <3>4
  <2> QED BY <2>2, <2>3
<1>12. ASSUME NEW a, NEW s, mainPort # << >>, Head(mainPort) = RequestOf(a, s),
              mainPort' = Tail(mainPort),
              port'[v] = port[v] \/ \E t \in {"Sleep", "Wakeup"} : port'[v] = Append(port[v], Request(t)),
              timerSent' = timerSent, ghost'.noTimer = ghost.noTimer
       PROVE  Goal
  <2>1. Head(mainPort) # Reply(v, "Timer") /\ Tail(mainPort) \in Seq(MainMessage)
    BY <1>1, <1>12, Messages, TailFacts
  <2>2. before = TimersIn(port[v], Tail(mainPort), v) + 0
    BY <1>1, <1>12, <2>1, TimersTake DEF before
  <2>3. TimersIn(port[v], Tail(mainPort), v) \in Nat
    BY <1>1, <2>1, TimersNat
  <2>4. TimersIn(port'[v], Tail(mainPort), v) = TimersIn(port[v], Tail(mainPort), v)
    <3>1. CASE port'[v] = port[v]
      BY <3>1
    <3>2. ASSUME NEW t \in {"Sleep", "Wakeup"}, port'[v] = Append(port[v], Request(t))
          PROVE  TimersIn(port'[v], Tail(mainPort), v) = TimersIn(port[v], Tail(mainPort), v)
      <4>1. t \in WindowMessage \ {"Timer"}
        BY DEF WindowMessage
      <4>2. TimersIn(Append(port[v], Request(t)), Tail(mainPort), v) = TimersIn(port[v], Tail(mainPort), v)
        BY <1>1, <2>1, <4>1, TimersOther
      <4> QED BY <3>2, <4>2
    <3> QED BY <1>12, <3>1, <3>2
  <2>5. before = after
    BY <1>12, <2>2, <2>3, <2>4 DEF after
  <2>6. is = was
    BY <1>12 DEF is, was
  <2> QED BY <1>4, <1>12, <2>5, <2>6
<1>13. ASSUME CloseWindowMsg PROVE Goal
  <2>1. /\ mainPort # << >> /\ Head(mainPort) = RequestOf(MainWindow, "CloseScalos")
        /\ mainPort' = Tail(mainPort) /\ port' = port /\ timerSent' = timerSent /\ ghost' = ghost
    BY <1>13 DEF CloseWindowMsg, Arrives, windowVars
  <2> HIDE DEF Goal
  <2> QED BY <1>12, <2>1
<1>14. ASSUME AppSleepMsg PROVE Goal
  <2>1. timerSent' = timerSent
    BY <1>14 DEF AppSleepMsg
  <2>2. \E a \in Asker : \E got \in SUBSET {w \in Window : Listed(w) /\ ~asleep[w]} :
           /\ mainPort # << >> /\ Head(mainPort) = RequestOf(a, "AppSleep")
           /\ mainPort' = Tail(mainPort)
           /\ \A w \in Window :
                port'[w] = IF w \in got THEN Append(port[w], Request("Sleep")) ELSE port[w]
           /\ ghost' = [ghost EXCEPT !.freed = 0]
    BY <1>1, <1>14, SendsSleep
  <2>3. ghost'.noTimer = ghost.noTimer
    BY <1>1, <2>2 DEF TasksOK
  <2>4. port'[v] = port[v] \/ \E t \in {"Sleep", "Wakeup"} : port'[v] = Append(port[v], Request(t))
    BY <2>2
  <2> HIDE DEF Goal
  <2> QED BY <1>12, <2>1, <2>2, <2>3, <2>4
<1>15. ASSUME AppWakeupMsg PROVE Goal
  <2>1. timerSent' = timerSent
    BY <1>15 DEF AppWakeupMsg
  <2>2. \E a \in Asker : \E got \in SUBSET {w \in Window : Listed(w) /\ asleep[w]} :
           /\ mainPort # << >> /\ Head(mainPort) = RequestOf(a, "AppWakeup")
           /\ mainPort' = Tail(mainPort)
           /\ \A w \in Window :
                port'[w] = IF w \in got THEN Append(port[w], Request("Wakeup")) ELSE port[w]
           /\ ghost' = [ghost EXCEPT !.freed = 0, !.failed = ghost'.failed]
    BY <1>1, <1>15, SendsWakeup
  <2>3. ghost'.noTimer = ghost.noTimer
    BY <1>1, <2>2 DEF TasksOK
  <2>4. port'[v] = port[v] \/ \E t \in {"Sleep", "Wakeup"} : port'[v] = Append(port[v], Request(t))
    BY <2>2
  <2> HIDE DEF Goal
  <2> QED BY <1>12, <2>1, <2>2, <2>3, <2>4
<1>16. ASSUME WaitReply PROVE Goal
  <2> DEFINE m == Head(mainPort)
  <2>1. /\ mainPort # << >> /\ mainPort' = Tail(mainPort) /\ port' = port
        /\ timerSent' = timerSent
        /\ ghost'.noTimer = IF m.type = "Timer" THEN ghost.noTimer \cup {m.from} ELSE ghost.noTimer
    BY <1>1, <1>16 DEF WaitReply, windowVars, TasksOK
  <2>2. m = Reply(v, "Timer") <=> m.type = "Timer" /\ m.from = v
    <3>1. m.type = "Timer" => m.kind = "reply"
      BY <1>1, <2>1, MainFirst
    <3>2. m.kind = "reply" => m = Reply(m.from, m.type)
      BY <1>1, <2>1, MainFirst
    <3>3. Reply(v, "Timer").type = "Timer" /\ Reply(v, "Timer").from = v
      BY DEF Reply
    <3> HIDE DEF m
    <3> QED BY <3>1, <3>2, <3>3
  <2>3. before = after + IF m = Reply(v, "Timer") THEN 1 ELSE 0
    BY <1>10, <2>1
  <2>4. is = was
    BY <2>1 DEF is, was
  <2> HIDE DEF m
  <2>5. CASE m = Reply(v, "Timer")
    <3>1. before = after + 1
      BY <2>3, <2>5
    <3>2. v \notin ghost.noTimer /\ was /\ after = 0
      BY <1>2, <1>3, <3>1
    <3>3. v \in ghost'.noTimer
      BY <2>1, <2>2, <2>5
    <3> QED BY <2>4, <3>2, <3>3
  <2>6. CASE m # Reply(v, "Timer")
    <3>1. before = after + 0
      BY <2>3, <2>6
    <3>2. before = after
      BY <1>3, <3>1
    <3>3. v \in ghost'.noTimer <=> v \in ghost.noTimer
      BY <2>1, <2>2, <2>6
    <3> QED BY <1>4, <2>4, <3>2, <3>3
  <2> QED BY <2>5, <2>6
<1>17. ASSUME AskToClose PROVE Goal
  <2>1. /\ mainPort' = mainPort /\ timerSent' = timerSent
        /\ port'[v] = port[v] \/ port'[v] = Append(port[v], Request("CloseWindow"))
    BY <1>1, <1>17, AsksToClose DEF AskToClose
  <2>2. ghost'.noTimer = ghost.noTimer
    BY <1>1, <1>17, AsksToClose DEF TasksOK
  <2>3. TimersIn(Append(port[v], Request("CloseWindow")), mainPort, v) = TimersIn(port[v], mainPort, v)
    BY <1>1, TimersOther DEF WindowMessage
  <2>4. after = before /\ is = was
    BY <2>1, <2>3 DEF after, before, is, was
  <2> QED BY <1>4, <2>2, <2>4
<1>18. ASSUME \/ UNCHANGED vars \/ Answered \/ LeaveMainWait \/ Signalled
              \/ LockForQuit \/ Relock \/ Closed
              \/ FollowFreed \/ AllAsked \/ WaitForQuit
              \/ \E w \in Window : \/ Begin(w) \/ EnterList(w) \/ UserCloses(w) \/ Obeys(w)
                                   \/ CloseIt(w) \/ Dispose(w)
              \/ \E a \in Asker : Reset(a)
              \/ \E o \in Opener : FindWindow(o) \/ ActivateIt(o) \/ StartWindow(o)
       PROVE  Goal
  <2>1. port' = port /\ mainPort' = mainPort /\ timerSent' = timerSent
    BY <1>18 DEF vars, windowVars, mainVars, Answered, LeaveMainWait, Signalled,
      LockForQuit, Relock, Closed,
      FollowFreed, AllAsked, WaitForQuit, Begin, EnterList, UserCloses, Obeys, Leave,
      CloseIt,
      Dispose, Reset, FindWindow, ActivateIt, StartWindow
  <2>2. ghost'.noTimer = ghost.noTimer
    BY <1>1, <1>18 DEF vars, Answered, LeaveMainWait, Signalled, LockForQuit, Relock,
      Closed, FollowFreed, AllAsked,
      WaitForQuit, Begin, EnterList, UserCloses, Obeys, CloseIt, Dispose, Reset, FindWindow,
      ActivateIt, StartWindow, TasksOK
  <2>3. after = before /\ is = was
    BY <2>1 DEF after, before, is, was
  <2> QED BY <1>4, <2>2, <2>3
<1> HIDE DEF Goal
<1>19. Goal
  BY <1>5, <1>7, <1>8, <1>9, <1>11, <1>13, <1>14, <1>15, <1>16, <1>17, <1>18
  DEF Next, MainStep, WindowStep
<1> QED BY <1>19 DEF Goal, is, after

-----------------------------------------------------------------------------
(***************************************************************************)
(* Who sleeps.  While the main task waits for nothing, either somebody who *)
(* put Scalos to sleep will wake it up, or every window in the list is     *)
(* awake; while it wakes them up, every window that still sleeps has the   *)
(* message in its port.                                                    *)
(***************************************************************************)
Told(q) == Places(q, {Request("Wakeup")}) # {}

Away == {"asleep", "reset", "askwakeup"}

SleepOK ==
  ~ghost.failed /\ "AppWakeup" \notin ghost.ignored =>
    /\ main \in {"wait", "refused"} =>
         \/ \E a \in Asker : asker[a] \in Away
         \/ \A w \in Window : Listed(w) => ~asleep[w]
    /\ main = "wakeup" => \A w \in Window : Listed(w) /\ asleep[w] => Told(port[w])

LEMMA ToldFacts ==
  ASSUME NEW q \in Seq(WindowRequest)
  PROVE  /\ Told(Append(q, Request("Wakeup")))
         /\ q # << >> /\ Told(q) /\ Head(q) # Request("Wakeup") => Told(Tail(q))
         /\ q # << >> /\ ~Told(q) => Head(q) # Request("Wakeup")
<1> DEFINE S == {Request("Wakeup")}
<1>1. Request("Wakeup") \in WindowRequest /\ Request("Wakeup") \in S
  BY DEF WindowRequest, WindowMessage
<1> HIDE DEF S
<1>2. ASSUME Places(Append(q, Request("Wakeup")), S) = {} PROVE FALSE
  <2> DEFINE a == Cardinality(Places(q, S))
  <2>1. Append(q, Request("Wakeup")) \in Seq(WindowRequest)
    BY <1>1, AppendFacts
  <2>2. 0 = Cardinality(Places(Append(q, Request("Wakeup")), S))
    BY <1>2, <2>1, PlacesFacts
  <2>3. Cardinality(Places(Append(q, Request("Wakeup")), S)) = a + 1
    BY <1>1, PlacesAppend
  <2>4. a \in Nat
    BY PlacesFacts
  <2> HIDE DEF a
  <2> QED BY <2>2, <2>3, <2>4
<1>3. ASSUME q # << >>, Places(q, S) # {}, Head(q) \notin S, Places(Tail(q), S) = {} PROVE FALSE
  <2> DEFINE a == Cardinality(Places(q, S))
             b == Cardinality(Places(Tail(q), S))
  <2>1. Tail(q) \in Seq(WindowRequest)
    BY <1>3, TailFacts
  <2>2. a = b + 0
    BY <1>3, PlacesTail
  <2>3. b = 0 /\ a # 0
    BY <1>3, <2>1, PlacesFacts
  <2> HIDE DEF a, b
  <2> QED BY <2>2, <2>3
<1>4. q # << >> /\ Places(q, S) = {} => Head(q) \notin S
  BY NonePlaces
<1> QED BY <1>1, <1>2, <1>3, <1>4 DEF Told, S

LEMMA SleepKept ==
  ASSUME Basic, CountsOK, SleepOK, [Next]_vars
  PROVE  SleepOK'
<1> DEFINE good == ~ghost.failed /\ "AppWakeup" \notin ghost.ignored
           good2 == ~ghost'.failed /\ "AppWakeup" \notin ghost'.ignored
           away == \E a \in Asker : asker[a] \in Away
           away2 == \E a \in Asker : asker'[a] \in Away
           sleeps(w) == w \in Range(list) /\ asleep[w]
           sleeps2(w) == w \in Range(list') /\ asleep'[w]
           Goal == good2 =>
                     /\ main' \in {"wait", "refused"} => away2 \/ \A w \in Window : ~sleeps2(w)
                     /\ main' = "wakeup" => \A w \in Window : sleeps2(w) => Told(port'[w])
<1>1. /\ WindowsOK /\ PortsOK /\ TasksOK /\ Locks /\ Fresh
      /\ \A w \in Window : port[w] \in Seq(WindowRequest)
      /\ asleep \in [Window -> BOOLEAN]
      /\ asker \in [Asker -> {"awake", "asksleep", "asleep", "reset", "askwakeup", "done"}]
      /\ ghost \in [freed : Nat, ignored : SUBSET {"AppSleep", "AppWakeup", "CloseScalos"},
                    noTimer : SUBSET Window, failed : BOOLEAN, left : SUBSET Window,
                    untold : BOOLEAN]
  BY DEF Basic, WindowsOK, PortsOK, TasksOK
<1>2. good => /\ main \in {"wait", "refused"} => away \/ \A w \in Window : ~sleeps(w)
              /\ main = "wakeup" => \A w \in Window : sleeps(w) => Told(port[w])
  BY ListedIs DEF SleepOK
<1>3. /\ main \in {"wait", "refused", "wakeup"} =>
           \A w \in Window : Places(port[w], {Request("Sleep")}) = {}
      /\ main \in {"wait", "refused"} => \A w \in Window : ~Told(port[w])
  <2>1. port \in [Window -> Seq(WindowRequest)] /\ mainPort \in Seq(MainMessage)
    BY <1>1 DEF PortsOK
  <2>2. \A T \in Waited : T # Waits(main) => Way(port, mainPort, T) = 0
    BY DEF CountsOK
  <2>3. \A T \in Waited : T # Waits(main) => \A w \in Window : Places(port[w], {Request(T)}) = {}
    BY <2>1, <2>2, WayNat
  <2>4. Waits("wait") = "nothing" /\ Waits("refused") = "nothing" /\ Waits("wakeup") = "Wakeup"
    BY WaitsAre
  <2> QED BY <2>3, <2>4 DEF Waited, Told
<1> HIDE DEF good, good2, away, away2, sleeps, sleeps2
<1>4. ASSUME \/ main' = main \/ main' \notin {"wait", "refused", "wakeup"}
             \/ main \in {"wait", "refused"} /\ main' \in {"wait", "refused"},
             good2 => good, main \in {"wait", "refused"} /\ away => away2,
             \A w \in Window : sleeps2(w) => sleeps(w),
             main = "wakeup" => \A w \in Window : sleeps2(w) /\ Told(port[w]) => Told(port'[w])
      PROVE  Goal
  BY <1>2, <1>4
<1>5. ASSUME \/ main' = main \/ main' \notin {"wait", "refused", "wakeup"}
             \/ main \in {"wait", "refused"} /\ main' \in {"wait", "refused"},
             ghost'.failed = ghost.failed, ghost.ignored \subseteq ghost'.ignored,
             list' = list, asleep' = asleep,
             main \in {"wait", "refused"} => asker' = asker,
             main = "wakeup" => port' = port
      PROVE  Goal
  <2>1. (good2 => good) /\ (main \in {"wait", "refused"} /\ away => away2) /\ \A w \in Window : sleeps2(w) => sleeps(w)
    BY <1>5 DEF good, good2, away, away2, sleeps, sleeps2
  <2> HIDE DEF Goal
  <2> QED BY <1>4, <1>5, <2>1
<1>6. ASSUME NEW w \in Window, EnterList(w) PROVE Goal
  <2>1. /\ main' = main /\ ghost' = ghost /\ asleep' = asleep /\ asker' = asker /\ port' = port
        /\ Alone /\ proc[w] = "opened"
    BY <1>6 DEF EnterList, mainVars
  <2>2. ~asleep[w]
    BY <1>1, <2>1 DEF Fresh, NotYet
  <2>3. Range(list') = Range(list) \cup {w}
    BY <1>1, <1>6, EntersList
  <2>4. (good2 => good) /\ (away => away2) /\ \A v \in Window : sleeps2(v) => sleeps(v)
    BY <2>1, <2>2, <2>3 DEF good, good2, away, away2, sleeps, sleeps2
  <2> HIDE DEF Goal
  <2> QED BY <1>4, <2>1, <2>4
<1>7. ASSUME NEW w \in Window, Dispose(w) PROVE Goal
  <2>1. main' = main /\ ghost' = ghost /\ asleep' = asleep /\ asker' = asker /\ port' = port
    BY <1>7 DEF Dispose, mainVars
  <2>2. Range(list') = Range(list) \ {w}
    BY <1>1, <1>7, LeavesList
  <2>3. (good2 => good) /\ (away => away2) /\ \A v \in Window : sleeps2(v) => sleeps(v)
    BY <2>1, <2>2 DEF good, good2, away, away2, sleeps, sleeps2
  <2> HIDE DEF Goal
  <2> QED BY <1>4, <2>1, <2>3
<1>8. ASSUME NEW w \in Window, Handle(w) PROVE Goal
  <2> DEFINE m == Head(port[w]).type
  <2>1. /\ m \in WindowMessage /\ Head(port[w]) = Request(m) /\ port[w] # << >>
        /\ port[w] \in Seq(WindowRequest) /\ port' = [port EXCEPT ![w] = Tail(port[w])]
    BY <1>1, <1>8, FirstMessage
  <2>2. main' = main /\ list' = list /\ asker' = asker
    BY <1>8 DEF Handle
  <2>3. \/ m = "Sleep"
        \/ m = "Wakeup" /\ asleep' = [asleep EXCEPT ![w] = FALSE] /\ ghost' = ghost
        \/ m = "Wakeup" /\ ghost' = [ghost EXCEPT !.failed = TRUE]
        \/ m \notin {"Sleep", "Wakeup"} /\ asleep' = asleep /\ ghost' = ghost
    BY <1>8 DEF Handle
  <2> HIDE DEF m
  <2>4. port \in [Window -> Seq(WindowRequest)] /\ port'[w] = Tail(port[w])
        /\ \A v \in Window \ {w} : port'[v] = port[v]
    BY <1>1, <2>1 DEF PortsOK
  <2>5. away => away2
    BY <2>2 DEF away, away2
  <2>6. CASE m = "Sleep"
    <3>1. Places(port[w], {Request("Sleep")}) # {}
      <4>1. Head(port[w]) \in {Request("Sleep")}
        BY <2>1, <2>6
      <4> QED BY <2>1, <4>1, NonePlaces
    <3>2. main \notin {"wait", "refused", "wakeup"}
      BY <1>3, <3>1
    <3> QED BY <2>2, <3>2
  <2>7. CASE m = "Wakeup" /\ asleep' = [asleep EXCEPT ![w] = FALSE] /\ ghost' = ghost
    <3>1. (good2 => good) /\ \A v \in Window : sleeps2(v) => sleeps(v) /\ v # w
      BY <1>1, <2>2, <2>7 DEF good, good2, sleeps, sleeps2
    <3> HIDE DEF Goal
    <3> QED BY <1>4, <2>2, <2>4, <2>5, <3>1
  <2>8. CASE ghost' = [ghost EXCEPT !.failed = TRUE]
    <3>1. ~good2
      BY <1>1, <2>8 DEF good2
    <3> QED BY <3>1
  <2>9. CASE m \notin {"Sleep", "Wakeup"} /\ asleep' = asleep /\ ghost' = ghost
    <3>1. (good2 => good) /\ \A v \in Window : sleeps2(v) => sleeps(v)
      BY <2>2, <2>9 DEF good, good2, sleeps, sleeps2
    <3>2. Head(port[w]) # Request("Wakeup")
      BY <2>1, <2>9, Messages
    <3>3. Told(port[w]) => Told(port'[w])
      BY <2>1, <2>4, <3>2, ToldFacts
    <3>4. \A v \in Window : Told(port[v]) => Told(port'[v])
      BY <2>4, <3>3
    <3> HIDE DEF Goal
    <3> QED BY <1>4, <2>2, <2>5, <3>1, <3>4
  <2> QED BY <2>3, <2>6, <2>7, <2>8, <2>9
<1>9. ASSUME NEW w \in Window, End(w) PROVE Goal
  <2>1. /\ main' = main /\ list' = list /\ asleep' = asleep /\ asker' = asker
        /\ port' = [port EXCEPT ![w] = << >>] /\ proc[w] = "unlisted"
    BY <1>9 DEF End
  <2>2. ghost'.failed = ghost.failed /\ ghost'.ignored = ghost.ignored
    BY <1>1, <1>9 DEF End
  <2>3. w \notin Range(list)
    BY <1>1, <2>1, ListedIs DEF WindowsOK, InList
  <2>4. /\ (good2 => good) /\ (away => away2)
        /\ \A v \in Window : sleeps2(v) => sleeps(v) /\ v # w
    BY <2>1, <2>2, <2>3 DEF good, good2, away, away2, sleeps, sleeps2
  <2>5. \A v \in Window : v # w => port'[v] = port[v]
    BY <1>1, <2>1 DEF PortsOK
  <2> HIDE DEF Goal
  <2> QED BY <1>4, <2>1, <2>4, <2>5
<1>10. ASSUME ProcessTimerMessage PROVE Goal
  <2>1. main' = main /\ main = "wait" /\ list' = list /\ asleep' = asleep /\ asker' = asker
    BY <1>10 DEF ProcessTimerMessage, mainVars
  <2>2. ghost'.failed = ghost.failed /\ ghost'.ignored = ghost.ignored
    <3>1. \E x : ghost' = [ghost EXCEPT !.noTimer = x]
      BY <1>10 DEF ProcessTimerMessage
    <3> QED BY <1>1, <3>1
  <2> HIDE DEF Goal
  <2> QED BY <1>5, <2>1, <2>2
<1>11. ASSUME AppSleepMsg PROVE Goal
  <2>1. main' = "sleep"
    BY <1>11 DEF AppSleepMsg
  <2> QED BY <2>1
<1>12. ASSUME AppWakeupMsg PROVE Goal
  <2>1. PICK got \in SUBSET Window :
          /\ main' = "wakeup"
          /\ \A w \in Window :
               port'[w] = IF w \in got THEN Append(port[w], Request("Wakeup")) ELSE port[w]
          /\ \A w \in Window : asleep'[w] => asleep[w]
          /\ ~ghost'.failed => \A w \in Window : Listed(w) /\ asleep'[w] => w \in got
    <3>1. \E a \in Asker : \E got \in SUBSET {w \in Window : Listed(w) /\ asleep[w]} :
          /\ main' = "wakeup"
          /\ \A w \in Window :
               port'[w] = IF w \in got THEN Append(port[w], Request("Wakeup")) ELSE port[w]
          /\ \A w \in Window : asleep'[w] => asleep[w]
          /\ ~ghost'.failed => \A w \in Window : Listed(w) /\ asleep'[w] => w \in got
      BY <1>1, <1>12, SendsWakeup
    <3> QED BY <3>1
  <2>2. list' = list
    BY <1>12 DEF AppWakeupMsg
  <2>3. ASSUME good2, NEW w \in Window, sleeps2(w) PROVE Told(port'[w])
    <3>1. w \in got
      BY <2>1, <2>2, <2>3, ListedIs DEF good2, sleeps2
    <3> QED BY <1>1, <2>1, <3>1, ToldFacts
  <2> QED BY <2>1, <2>3
<1>13. ASSUME WaitReply PROVE Goal
  <2>1. /\ main' = main /\ main \notin {"wait", "refused"}
        /\ list' = list /\ asleep' = asleep /\ port' = port
    BY <1>13 DEF WaitReply, windowVars, WaitsFor
  <2>2. ghost'.failed = ghost.failed /\ ghost.ignored \subseteq ghost'.ignored
    <3> DEFINE m == Head(mainPort)
               x == IF m.kind = "request" THEN ghost.ignored \cup {m.type} ELSE ghost.ignored
               y == IF m.type = "Timer" THEN ghost.noTimer \cup {m.from} ELSE ghost.noTimer
    <3>1. ghost' = [ghost EXCEPT !.ignored = x, !.noTimer = y]
      BY <1>13 DEF WaitReply
    <3>2. ghost.ignored \subseteq x
      OBVIOUS
    <3> HIDE DEF x, y
    <3> QED BY <1>1, <3>1, <3>2
  <2> HIDE DEF Goal
  <2> QED BY <1>5, <2>1, <2>2
<1>14. ASSUME Answered PROVE Goal
  <2>1. /\ main \in {"sleep", "wakeup"} /\ waitCount = 0 /\ main' = "wait"
        /\ list' = list /\ asleep' = asleep /\ ghost' = ghost
        /\ asker' = [asker EXCEPT ![serving] = After(IF main = "sleep" THEN "AppSleep"
                                                     ELSE "AppWakeup")]
    BY <1>14 DEF Answered, windowVars
  <2>2. CASE main = "sleep"
    <3>1. serving \in Asker
      BY <1>1, <2>2 DEF TasksOK
    <3>2. asker'[serving] = "asleep"
      BY <1>1, <2>1, <2>2, <3>1 DEF After
    <3>3. away2
      BY <3>1, <3>2 DEF away2, Away
    <3> QED BY <2>1, <3>3
  <2>3. CASE main = "wakeup"
    <3> DEFINE n == Way(port, mainPort, "Wakeup")
    <3>1. port \in [Window -> Seq(WindowRequest)] /\ mainPort \in Seq(MainMessage)
      BY <1>1 DEF PortsOK
    <3>2. n \in Nat /\ (n = 0 => \A w \in Window : ~Told(port[w]))
      BY <3>1, WayNat DEF Told
    <3>3. waitCount = n + ghost.freed
      BY <2>3, WaitsAre DEF CountsOK
    <3>4. ghost.freed \in Nat
      BY <1>1
    <3> HIDE DEF n
    <3>5. n = 0
      BY <2>1, <3>2, <3>3, <3>4
    <3>6. (good2 => good) /\ \A w \in Window : sleeps2(w) => sleeps(w)
      BY <2>1 DEF good, good2, sleeps, sleeps2
    <3> QED BY <1>2, <2>1, <2>3, <3>2, <3>5, <3>6
  <2> QED BY <2>1, <2>2, <2>3
<1>15. ASSUME NEW a \in Asker, AskSleep(a) \/ Reset(a) \/ AskWakeup(a) PROVE Goal
  <2>1. /\ main' = main /\ list' = list /\ asleep' = asleep /\ port' = port
        /\ \/ asker' = [asker EXCEPT ![a] = "asksleep"] /\ asker[a] = "awake" /\ ghost' = ghost
           \/ \E s \in Away : asker' = [asker EXCEPT ![a] = s] /\ ghost' = ghost
           \/ ghost' = [ghost EXCEPT !.failed = TRUE]
    BY <1>15 DEF AskSleep, Reset, AskWakeup, windowVars, mainVars, Away
  <2>2. CASE ghost' = [ghost EXCEPT !.failed = TRUE]
    <3>1. ~good2
      BY <1>1, <2>2 DEF good2
    <3> QED BY <3>1
  <2>3. CASE ghost' = ghost /\ asker' = [asker EXCEPT ![a] = "asksleep"] /\ asker[a] = "awake"
    <3>1. away => away2
      BY <1>1, <2>3 DEF away, away2, Away
    <3>2. (good2 => good) /\ \A w \in Window : sleeps2(w) => sleeps(w)
      BY <2>1, <2>3 DEF good, good2, sleeps, sleeps2
    <3> HIDE DEF Goal
    <3> QED BY <1>4, <2>1, <3>1, <3>2
  <2>4. CASE ghost' = ghost /\ \E s \in Away : asker' = [asker EXCEPT ![a] = s]
    <3>1. away2
      BY <1>1, <2>4 DEF away2
    <3>2. (good2 => good) /\ \A w \in Window : sleeps2(w) => sleeps(w)
      BY <2>1, <2>4 DEF good, good2, sleeps, sleeps2
    <3> HIDE DEF Goal
    <3> QED BY <1>4, <2>1, <3>1, <3>2
  <2> QED BY <2>1, <2>2, <2>3, <2>4
<1>16. ASSUME \/ UNCHANGED vars \/ TimerReplyMsg \/ CloseWindowMsg
              \/ LeaveMainWait \/ Signalled \/ LockForQuit \/ Relock \/ Closed
              \/ FollowFreed \/ AllAsked \/ WaitForQuit
              \/ \E w \in Window : Begin(w) \/ UserCloses(w) \/ Obeys(w) \/ CloseIt(w)
              \/ \E o \in Opener : FindWindow(o) \/ ActivateIt(o) \/ StartWindow(o)
       PROVE  Goal
  <2>1. /\ \/ main' = main \/ main' \notin {"wait", "refused", "wakeup"}
           \/ main \in {"wait", "refused"} /\ main' \in {"wait", "refused"}
        /\ list' = list /\ asleep' = asleep /\ port' = port /\ asker' = asker
    BY <1>16 DEF vars, windowVars, mainVars, TimerReplyMsg, CloseWindowMsg,
      LeaveMainWait, Signalled, LockForQuit,
      Relock, Closed, FollowFreed, AllAsked, WaitForQuit, Begin, UserCloses, Obeys,
      Leave, CloseIt,
      FindWindow, ActivateIt, StartWindow
  <2>2. ghost'.failed = ghost.failed /\ ghost'.ignored = ghost.ignored
    <3>1. ghost' = ghost \/ \E x : ghost' = [ghost EXCEPT !.left = x]
      BY <1>16 DEF vars, TimerReplyMsg, CloseWindowMsg, LeaveMainWait, Signalled,
        LockForQuit, Relock, Closed,
        FollowFreed, AllAsked, WaitForQuit, Begin, UserCloses, Obeys, CloseIt, FindWindow,
        ActivateIt, StartWindow
    <3> QED BY <1>1, <3>1
  <2> HIDE DEF Goal
  <2> QED BY <1>5, <2>1, <2>2
<1>17. ASSUME AskToClose PROVE Goal
  <2>1. main' \notin {"wait", "refused", "wakeup"}
    BY <1>17 DEF AskToClose
  <2> QED BY <2>1
<1> HIDE DEF Goal
<1>18. Goal
  BY <1>6, <1>7, <1>8, <1>9, <1>10, <1>11, <1>12, <1>13, <1>14, <1>15, <1>16, <1>17
  DEF Next, MainStep, WindowStep
<1> QED BY <1>18, ListedIs DEF Goal, good2, away2, sleeps2, SleepOK

-----------------------------------------------------------------------------
(***************************************************************************)
(* What holds together in every state.                                     *)
(***************************************************************************)
IInv == Basic /\ Excused /\ NextOK /\ CountsOK /\ TimersOK /\ SleepOK

LEMMA NothingSent ==
  ASSUME Init
  PROVE  /\ \A type : Way(port, mainPort, type) = 0
         /\ \A w \in Window : TimersIn(port[w], mainPort, w) = 0
<1>1. /\ port \in [Window -> Seq(WindowRequest)] /\ mainPort \in Seq(MainMessage)
      /\ mainPort = << >> /\ \A w \in Window : port[w] = << >>
  BY BasicInit DEF Init, Basic, PortsOK
<1>2. /\ \A S : Places(mainPort, S) = {}
      /\ \A w \in Window : \A S : Places(port[w], S) = {}
  BY <1>1, PlacesFacts
<1>3. \A S : PlacesIn(port, Window, S) = {}
  BY <1>2 DEF PlacesIn
<1>4. \A type : Way(port, mainPort, type) = 0 + 0
  BY <1>2, <1>3, FS_EmptySet DEF Way
<1>5. \A w \in Window : TimersIn(port[w], mainPort, w) = 0 + 0
  BY <1>2, FS_EmptySet DEF TimersIn
<1> QED BY <1>4, <1>5

LEMMA IInvInit ==
  ASSUME Init
  PROVE  IInv
<1>1. Basic
  BY BasicInit
<1>2. /\ main = "wait" /\ mainPort = << >> /\ port = [w \in Window |-> << >>]
      /\ proc = [w \in Window |-> IF w \in Open THEN "listed" ELSE "none"]
      /\ asleep = [w \in Window |-> FALSE] /\ timerSent = [w \in Window |-> FALSE]
      /\ closing = [w \in Window |-> FALSE] /\ ghost.noTimer = {}
  BY DEF Init
<1>3. Excused
  BY <1>2 DEF Excused, Left
<1>4. NextOK
  <2>1. \A w \in Window : NotAsked(w)
    BY <1>2, EmptySeq, PlacesFacts DEF NotAsked
  <2> QED BY <1>2, <2>1 DEF NextOK, OnWayOut
<1>5. CountsOK
  BY <1>2, NothingSent, WaitsAre DEF CountsOK
<1>6. TimersOK
  BY <1>2, NothingSent DEF TimersOK
<1>7. SleepOK
  BY <1>2 DEF SleepOK
<1> QED BY <1>1, <1>3, <1>4, <1>5, <1>6, <1>7 DEF IInv

LEMMA IInvKept ==
  ASSUME IInv, [Next]_vars
  PROVE  IInv'
BY BasicKept, ExcusedKept, NextKept, CountsKept, TimersKept, SleepKept DEF IInv

LEMMA IInvAlways == Spec => []IInv
<1>1. Init => IInv
  BY IInvInit
<1>2. IInv /\ [Next]_vars => IInv'
  BY IInvKept
<1> QED BY <1>1, <1>2, PTL DEF Spec

(***************************************************************************)
(* The variables hold what they should, and the list has exactly the       *)
(* windows whose process has moved in and not yet left it, each once.      *)
(***************************************************************************)
THEOREM TypeCorrect == Spec => []TypeOK
<1>1. IInv => TypeOK
  <2> SUFFICES ASSUME IInv PROVE TypeOK
    OBVIOUS
  <2>1. ASSUME NEW w \in Window, NEW i \in DOMAIN port[w]
        PROVE  port[w][i].type \in WindowMessage
    <3>1. port[w] \in Seq(WindowRequest)
      BY DEF IInv, Basic, PortsOK
    <3>2. port[w][i] \in WindowRequest
      BY <3>1, LenProperties, ElementOfSeq
    <3> QED BY <3>2 DEF WindowRequest, Request
  <2>2. main \in {"wait", "refused", "unpatched", "sleep", "wakeup",
                  "quit", "relock", "quitwait", "drain", "done", "astray"}
    BY DEF IInv, Basic, TasksOK, MainPlace, AtWork, OnWayOut
  <2> QED BY <2>1, <2>2 DEF TypeOK, IInv, Basic, WindowsOK, TasksOK, Locks, InList
<1> QED BY <1>1, IInvAlways, PTL

(***************************************************************************)
(* On the way out the main task never goes on to a window that it asked to *)
(* close itself: when the next window is freed, its user closed it.  And   *)
(* a drawer is only activated while it is in the list.                     *)
(***************************************************************************)
THEOREM NextIsThereOrLeft == Spec => []NeverAstray
<1>1. IInv => NeverAstray
  <2> SUFFICES ASSUME IInv PROVE NeverAstray
    OBVIOUS
  <2>1. ASSUME main = "quit", next # NoWindow PROVE Listed(next) \/ next \in ghost.left
    <3>1. next \in Window /\ ~closing[next] /\ proc[next] \notin NotYet
      BY <2>1 DEF IInv, NextOK, NotAsked, OnWayOut, Basic, TasksOK
    <3>2. CASE proc[next] \in InList
      BY <3>1, <3>2 DEF IInv, Basic, WindowsOK
    <3>3. CASE proc[next] \notin InList
      <4>1. proc[next] \in Left
        BY <3>1, <3>3 DEF IInv, Basic, WindowsOK, Proc, NotYet, InList, Left
      <4> QED BY <3>1, <4>1 DEF IInv, Excused
    <3> QED BY <3>2, <3>3
  <2>2. Found
    BY DEF IInv, Basic
  <2> QED BY <2>1, <2>2 DEF NeverAstray, Found
<1> QED BY <1>1, IInvAlways, PTL

(***************************************************************************)
(* The main task waits for exactly the answers that are still on their     *)
(* way, and those that a window threw away with its port.                  *)
(***************************************************************************)
THEOREM AnswersCounted == Spec => []CountMatches
<1>1. IInv => CountMatches
  BY WaitsIs, WayIs DEF IInv, CountsOK, CountMatches
<1> QED BY <1>1, IInvAlways, PTL

(***************************************************************************)
(* Of every window in the list at most one timer message is on its way,    *)
(* and its flag is set if there is one; the flag stays set for ever only   *)
(* where the answer, or the message, was lost.                             *)
(***************************************************************************)
THEOREM TimersAccounted == Spec => []TimerAccounted
<1>1. IInv => TimerAccounted
  <2> SUFFICES ASSUME IInv, NEW w \in Window, Listed(w)
               PROVE  IF w \in ghost.noTimer THEN timerSent[w] /\ TimersOf(w) = 0
                      ELSE TimersOf(w) = (IF timerSent[w] THEN 1 ELSE 0)
    BY DEF TimerAccounted
  <2>1. proc[w] \notin Ended
    BY DEF IInv, Basic, WindowsOK, InList, Ended
  <2>2. TimersOf(w) = TimersIn(port[w], mainPort, w)
    BY WayIs
  <2> QED BY <2>1, <2>2 DEF IInv, TimersOK
<1> QED BY <1>1, IInvAlways, PTL

(***************************************************************************)
(* When nobody is left who would wake Scalos up, every window in the list  *)
(* is awake, unless one could not be opened again or a request to wake up  *)
(* was ignored.                                                            *)
(***************************************************************************)
THEOREM EverybodyWakes == Spec => []NobodyOversleeps
<1>1. IInv => NobodyOversleeps
  BY DEF IInv, SleepOK, NobodyOversleeps, Away
<1> QED BY <1>1, IInvAlways, PTL
===============================================================================
