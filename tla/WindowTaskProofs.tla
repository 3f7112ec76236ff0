--------------------------- MODULE WindowTaskProofs ---------------------------
(***************************************************************************)
(* For every set of children and guests and every mixture of messages,     *)
(* failures and depths: a window is not freed under a child, QuitSemaphore *)
(* is not free while a process of the window runs, the handshake with a    *)
(* child ends, nothing is left locked, and what defers closing has a       *)
(* cause.                                                                  *)
(*                                                                         *)
(* What carries the argument is that every obtain of the three semaphores  *)
(* is accounted for: by the place each process is at, by the calls of      *)
(* WaitReply the window is inside, and by the attempt to close.            *)
(***************************************************************************)
EXTENDS WindowTask, SignalSemaphoreTheorems, FiniteSetTheorems, SequenceTheorems

(***************************************************************************)
(* The window has its two semaphores from CloseLocked or QuitLocked on,    *)
(* both or none, until it decides not to close or has cleaned up.          *)
(***************************************************************************)
Ending   == {"draining", "childwait", "finish"}
Deciding == {"quitting", "waitreq"}

(***************************************************************************)
(* The process has not obtained QuitSemaphore yet, or has released it.     *)
(***************************************************************************)
Outside == {"created", "gone"}

Locked == windowSema.owner = Own

ClosingLocks ==
  /\ childSema.owner = windowSema.owner
  /\ windowSema.owner \in {NoTask, Own}
  /\ Locked => phase \in Deciding \cup Ending \cup {"alert"}
  /\ phase \in Deciding => Locked /\ winSemaLocked /\ role = "main"
  /\ Locked /\ phase \in Ending => winSemaLocked /\ ~asyncLayout

(***************************************************************************)
(* RunMenuCommand holds the window semaphore of a command a message asked  *)
(* for, whoever waits for a child or reads a picture the child semaphore,  *)
(* and ChildProcessRun once more during the handshake.                     *)
(***************************************************************************)
ForClosing   == IF Locked THEN 1 ELSE 0
ForCommand   == IF hand.kind \in {"wait", "alone", "thumb"} /\ phase \in Listening
                THEN 1 ELSE 0
ForChild     == IF hand.kind \in {"wait", "backfill"} THEN 1 ELSE 0
ForHandshake == IF hand.child # NoTask THEN 1 ELSE 0

OwnLocks ==
  /\ windowSema.nest[Own] = ForClosing + depth + ForCommand
  /\ childSema.nest[Own] = ForClosing + depth + ForChild + ForHandshake
  /\ quitSema.nest[Own] = IF phase \in Outside THEN 0 ELSE 1

(***************************************************************************)
(* Where children and guests are says what they hold.                      *)
(***************************************************************************)
Inside == {"ready", "run", "thumb", "count", "countdown", "reply", "unlock"}

WindowLocks(l) == IF l = "thumb" THEN 1 ELSE 0
ChildLocks(l)  == IF l \in Inside THEN 1 ELSE 0
QuitLocks(l)   == IF l \in {"idle", "new"} THEN 0 ELSE 1
GuestLocked(l) == IF l \in {"inside", "reading", "ended"} THEN 1 ELSE 0

OtherLocks ==
  /\ quitSema.owner = NoTask
  /\ \A c \in Child :
       /\ windowSema.nest[c] = WindowLocks(childPc[c])
       /\ childSema.nest[c] = ChildLocks(childPc[c])
       /\ quitSema.nest[c] = QuitLocks(childPc[c])
  /\ \A g \in Guest : windowSema.nest[g] = GuestLocked(guestPc[g])

Excluded == Exclusive(windowSema) /\ Exclusive(childSema) /\ Exclusive(quitSema)

(***************************************************************************)
(* The window has one handshake at a time, in the phases that start        *)
(* children, and waits for answers only where it handles messages.         *)
(***************************************************************************)
Starting ==
  /\ hand.kind = "none" => hand = NoHand
  /\ hand.kind # "none" => phase \in Listening \cup {"opening", "loop"}
  /\ hand.kind = "wait" => phase \in Listening /\ depth < MaxDepth
  /\ depth > 0 => phase \in Listening \cup {"alert"}
  /\ \A c \in Child : childPc[c] \in {"new", "hello", "ready"} <=> hand.child = c

(***************************************************************************)
(* No child is left when the window has waited for them.                   *)
(***************************************************************************)
ChildrenLeft ==
  phase \in Closed \ {"alert"} => \A c \in Child : childPc[c] \in {"idle", "leaving"}

(***************************************************************************)
(* Requests that are answered without having been handled are counted too. *)
(***************************************************************************)
Request(m) == IF m = "CloseWindow" THEN 1 ELSE 0
Waiting(q) == Cardinality(CloseRequests(q))

RequestsCounted == Waiting(port) + Waiting(taken) <= unanswered

IInv ==
  /\ TypeOK /\ Excluded
  /\ ClosingLocks /\ OwnLocks /\ OtherLocks
  /\ Starting /\ ChildrenLeft /\ RequestsCounted

(***************************************************************************)
(* Without the click on the close gadget no message is dropped that was    *)
(* not handled: a list of messages taken from the port is handled to its   *)
(* end before the window goes on.                                          *)
(***************************************************************************)
Sent == EnvMsgs \cup Replies

AllHandled ==
  /\ port \in Seq(Sent) /\ taken \in Seq(Sent)
  /\ phase \notin {"checking", "drainchecking", "alert"} => taken = << >>

MInv == AllHandled /\ RequestsKept

(***************************************************************************)
(* Without thumbnails, too, replies are only counted where they are waited *)
(* for, and a picture that is pending is on its way: in the hand of the    *)
(* window, with a child, or in a message.                                  *)
(***************************************************************************)
NoThumbnails ==
  /\ hand.kind # "thumb"
  /\ \A c \in Child : /\ childKind[c] # "thumb"
                      /\ childPc[c] \notin {"thumb", "count", "countdown"}

PicturesRead ==
  /\ phase \in Closed \cup {"childwait"} => ~asyncLayout
  /\ hand.child # NoTask => childKind[hand.child] = hand.kind

HasPicture(q) == \E i \in DOMAIN q : q[i] = "BackFillReply"

Reading(c) == childKind[c] = "backfill" /\ childPc[c] \in {"ready", "run", "reply"}

Cause ==
  \/ hand.kind = "backfill"
  \/ \E c \in Child : Reading(c)
  \/ HasPicture(port) \/ HasPicture(taken)

WaitedFor == outstanding <= depth + IF hand.kind = "wait" THEN 1 ELSE 0

PInv == NoThumbnails /\ PicturesRead /\ WaitedFor /\ (asyncLayout => Cause)
-----------------------------------------------------------------------------
(***************************************************************************)
(* How many close requests wait in a queue, when a message is added to it  *)
(* or taken from it.                                                       *)
(***************************************************************************)
LEMMA WaitingIsNumber ==
  ASSUME NEW T, NEW q \in Seq(T)
  PROVE  /\ IsFiniteSet(CloseRequests(q)) /\ Waiting(q) \in Nat
         /\ CloseRequests(q) = {i \in 1 .. Len(q) : q[i] = "CloseWindow"}
<1>1. Len(q) \in Nat /\ DOMAIN q = 1 .. Len(q)
  BY LenProperties
<1>2. IsFiniteSet(1 .. Len(q)) /\ CloseRequests(q) \subseteq 1 .. Len(q)
  BY <1>1, FS_Interval DEF CloseRequests
<1>3. IsFiniteSet(CloseRequests(q))
  BY <1>2, FS_Subset
<1> QED BY <1>1, <1>3, FS_CardinalityType DEF Waiting, CloseRequests

LEMMA WaitingEmpty == Waiting(<< >>) = 0
<1>1. CloseRequests(<< >>) = {}
  BY DEF CloseRequests
<1> QED BY <1>1, FS_EmptySet DEF Waiting

LEMMA WaitingAppend ==
  ASSUME NEW T, NEW q \in Seq(T), NEW m \in T
  PROVE  Waiting(Append(q, m)) = Waiting(q) + Request(m)
<1> DEFINE r == Append(q, m)
           n == Len(q)
<1>1. /\ r \in Seq(T) /\ Len(r) = n + 1 /\ n \in Nat
      /\ \A i \in 1 .. n : r[i] = q[i]
      /\ r[n + 1] = m
  BY AppendProperties, LenProperties
<1>2. /\ CloseRequests(q) = {i \in 1 .. n : q[i] = "CloseWindow"}
      /\ CloseRequests(r) = {i \in 1 .. n + 1 : r[i] = "CloseWindow"}
      /\ IsFiniteSet(CloseRequests(q)) /\ Waiting(q) \in Nat
  BY <1>1, WaitingIsNumber
<1> HIDE DEF r, n
<1>3. CASE m = "CloseWindow"
  <2>1. CloseRequests(r) = CloseRequests(q) \cup {n + 1} /\ n + 1 \notin CloseRequests(q)
    BY <1>1, <1>2, <1>3
  <2> QED BY <1>2, <1>3, <2>1, FS_AddElement DEF Waiting, Request, r
<1>4. CASE m # "CloseWindow"
  <2>1. CloseRequests(r) = CloseRequests(q)
    BY <1>1, <1>2, <1>4
  <2>2. Waiting(r) = Waiting(q)
    BY <2>1 DEF Waiting
  <2>3. Request(m) = 0
    BY <1>4 DEF Request
  <2> QED BY <1>2, <2>2, <2>3 DEF r
<1> QED BY <1>3, <1>4

LEMMA WaitingTail ==
  ASSUME NEW T, NEW q \in Seq(T), q # << >>
  PROVE  /\ Tail(q) \in Seq(T) /\ Head(q) \in T
         /\ Waiting(q) = Waiting(Tail(q)) + Request(Head(q))
<1> DEFINE r == Tail(q)
           n == Len(r)
           later == CloseRequests(q) \ {1}
           earlier == [i \in later |-> i - 1]
<1>1. /\ r \in Seq(T) /\ Head(q) \in T /\ Len(q) = n + 1 /\ n \in Nat
      /\ \A i \in 1 .. n : r[i] = q[i + 1]
      /\ Head(q) = q[1]
  BY HeadTailProperties, LenProperties
<1>2. /\ CloseRequests(q) = {i \in 1 .. n + 1 : q[i] = "CloseWindow"}
      /\ CloseRequests(r) = {i \in 1 .. n : r[i] = "CloseWindow"}
      /\ IsFiniteSet(CloseRequests(q)) /\ Waiting(q) \in Nat /\ Waiting(r) \in Nat
  BY <1>1, WaitingIsNumber
<1> HIDE DEF r, n
<1>3. 1 \in CloseRequests(q) <=> Head(q) = "CloseWindow"
  BY <1>1, <1>2
<1>4. earlier \in Bijection(later, CloseRequests(r))
  <2>1. \A i \in later : i \in 2 .. n + 1 /\ i - 1 \in 1 .. n /\ (i - 1) + 1 = i
    BY <1>1, <1>2
  <2>2. \A i \in later : i - 1 \in CloseRequests(r)
    BY <1>1, <1>2, <2>1
  <2>3. \A j \in CloseRequests(r) : j + 1 \in later /\ (j + 1) - 1 = j
    BY <1>1, <1>2
  <2>4. \A i, j \in later : i - 1 = j - 1 => i = j
    BY <2>1
  <2> HIDE DEF later
  <2> QED BY <2>2, <2>3, <2>4 DEF Bijection, Injection, Surjection, IsInjective
<1>5. IsFiniteSet(later) /\
      Cardinality(later) = Waiting(q) - Request(Head(q))
  <2>1. /\ IsFiniteSet(later)
        /\ Cardinality(later) = IF 1 \in CloseRequests(q) THEN Waiting(q) - 1
                                                           ELSE Waiting(q)
    BY <1>2, FS_RemoveElement DEF Waiting
  <2> HIDE DEF later
  <2> QED BY <1>2, <1>3, <2>1 DEF Request
<1>6. Waiting(r) = Cardinality(later)
  BY <1>4, <1>5, FS_Bijection DEF ExistsBijection, Waiting
<1> QED BY <1>1, <1>2, <1>5, <1>6 DEF r, Request
-----------------------------------------------------------------------------
(***************************************************************************)
(* A step of t leaves it with n obtains of a semaphore, and changes        *)
(* nothing for others.                                                     *)
(***************************************************************************)
Leaves(s, r, t, n) ==
  /\ r \in SemaphoreType /\ Exclusive(r)
  /\ r.owner = s.owner
  /\ r.nest = [s.nest EXCEPT ![t] = n]

LEMMA LeavesFacts ==
  ASSUME NEW s \in SemaphoreType, NEW r, NEW t \in Task, NEW n, Leaves(s, r, t, n)
  PROVE  /\ r \in SemaphoreType /\ Exclusive(r) /\ r.owner = s.owner
         /\ \A u \in Task \ {t} : r.nest[u] = s.nest[u]
         /\ r.nest[t] = n
BY DEF Leaves, SemaphoreType

LEMMA LeavesSame ==
  ASSUME NEW s \in SemaphoreType, NEW t \in Task, Exclusive(s)
  PROVE  Leaves(s, s, t, s.nest[t])
BY DEF Leaves, SemaphoreType

LEMMA LeavesOneMore ==
  ASSUME NEW s \in SemaphoreType, NEW t \in Task, Exclusive(s), CanShared(s, t)
  PROVE  Leaves(s, GrabShared(s, t), t, s.nest[t] + 1)
BY GrabSharedFacts DEF Leaves, GrabShared, OneMore, SemaphoreType

LEMMA LeavesOneLess ==
  ASSUME NEW s \in SemaphoreType, NEW t \in Task, Exclusive(s), s.nest[t] > 0,
         s.owner = t => s.nest[t] > 1
  PROVE  Leaves(s, Drop(s, t), t, s.nest[t] - 1)
<1>1. s.owner = Drop(s, t).owner
  <2>1. CASE s.owner = NoTask
    BY <2>1 DEF Drop
  <2>2. CASE s.owner = t
    BY <2>2 DEF Drop, SemaphoreType
  <2>3. s.owner \in {NoTask, t}
    BY DEF Exclusive, SemaphoreType
  <2> QED BY <2>1, <2>2, <2>3
<1>2. Drop(s, t) \in SemaphoreType /\ Exclusive(Drop(s, t))
  BY DropFacts DEF Holds
<1>3. Drop(s, t).nest = [s.nest EXCEPT ![t] = s.nest[t] - 1]
  BY DEF Drop
<1> QED BY <1>1, <1>2, <1>3 DEF Leaves

LEMMA Basics ==
  ASSUME IInv
  PROVE  /\ Own \in Task /\ Own # NoTask /\ Own \notin Child /\ Own \notin Guest
         /\ \A c \in Child : c \in Task /\ c # NoTask /\ c \notin Guest
         /\ \A g \in Guest : g \in Task /\ g # NoTask
         /\ windowSema \in SemaphoreType /\ childSema \in SemaphoreType
         /\ quitSema \in SemaphoreType
         /\ Exclusive(windowSema) /\ Exclusive(childSema) /\ Exclusive(quitSema)
         /\ depth \in Nat /\ MaxDepth \in Nat
BY ProcessAssumption, NoTaskAssumption, BoundAssumption DEF IInv, TypeOK, Excluded

LEMMA NoHandIs == NoHand.kind = "none" /\ NoHand.child = NoTask
BY DEF NoHand

-----------------------------------------------------------------------------
(***************************************************************************)
(* The first state.                                                        *)
(***************************************************************************)
LEMMA InitHolds == Init => IInv
<1> SUFFICES ASSUME Init PROVE IInv
  OBVIOUS
<1> USE ProcessAssumption, NoTaskAssumption, BoundAssumption DEF Init
<1>1. /\ Own \in Task /\ Own # NoTask
      /\ \A c \in Child : c \in Task /\ c # NoTask /\ c # Own
      /\ \A g \in Guest : g \in Task /\ g # Own
  OBVIOUS
<1>3. /\ windowSema \in SemaphoreType /\ childSema \in SemaphoreType
      /\ quitSema \in SemaphoreType /\ Excluded
      /\ windowSema.owner = NoTask /\ childSema.owner = NoTask /\ quitSema.owner = NoTask
      /\ \A t \in Task : /\ windowSema.nest[t] = 0 /\ childSema.nest[t] = 0
                         /\ quitSema.nest[t] = 0
  <2>1. FreeSemaphore.owner = NoTask
    BY DEF FreeSemaphore
  <2>2. FreeSemaphore.nest \in [Task -> Nat]
    BY FreeSemaphoreFacts DEF SemaphoreType
  <2> QED BY <2>1, <2>2, FreeSemaphoreFacts DEF Excluded
<1>4. TypeOK
  <2>1. /\ phase \in Phase
        /\ hand \in [kind : AllKinds \cup {"none"}, child : Child \cup {NoTask}]
        /\ childPc \in [Child -> ChildPC] /\ childKind \in [Child -> AllKinds]
        /\ guestPc \in [Guest -> {"idle", "asked", "inside", "reading", "ended"}]
    BY DEF Phase, ChildPC, AllKinds, NoHand
  <2>2. /\ depth \in 0 .. MaxDepth /\ outstanding \in 0 .. ULongs - 1
        /\ sent \in 0 .. MaxMsgs /\ requesters \in Nat /\ unanswered \in Nat
    OBVIOUS
  <2>3. port \in Seq(Messages) /\ taken \in Seq(Messages)
    BY EmptySeq
  <2>4. {closeWindow, asyncLayout, winSemaLocked} \subseteq BOOLEAN /\ role \in Roles
    OBVIOUS
  <2> QED BY <1>3, <2>1, <2>2, <2>3, <2>4 DEF TypeOK
<1>5. ClosingLocks
  BY <1>1, <1>3 DEF ClosingLocks, Locked, Deciding, Ending
<1>6. OwnLocks
  BY <1>1, <1>3, NoHandIs DEF OwnLocks, Outside, ForClosing, Locked, ForCommand, ForChild, ForHandshake
<1>7. OtherLocks
  BY <1>1, <1>3 DEF OtherLocks, WindowLocks, ChildLocks, QuitLocks, GuestLocked, Inside
<1>8. Starting
  BY <1>1, NoHandIs DEF Starting
<1>9. ChildrenLeft
  BY DEF ChildrenLeft, Closed
<1>10. RequestsCounted
  BY WaitingEmpty DEF RequestsCounted
<1> QED BY <1>3, <1>4, <1>5, <1>6, <1>7, <1>8, <1>9, <1>10 DEF IInv
-----------------------------------------------------------------------------
(***************************************************************************)
(* Where WindowTask() goes from one place to the next and leaves its       *)
(* semaphores and its children alone.                                      *)
(***************************************************************************)
LEMMA Walks ==
  ASSUME IInv, NEW p, NEW q \in Phase, At(p), Goto(q), p \notin Outside, q \notin Outside,
         UNCHANGED <<unanswered, sent, outstanding, asyncLayout, semas, others>>,
         port' \in Seq(Messages), taken' \in Seq(Messages),
         Waiting(port') + Waiting(taken') <= unanswered,
         closeWindow' \in BOOLEAN, winSemaLocked' \in BOOLEAN, requesters' \in Nat,
         ClosingLocks', ChildrenLeft'
  PROVE  IInv'
<1>1. /\ phase = p /\ phase' = q /\ hand' = hand /\ depth' = depth
      /\ hand = NoHand /\ depth = 0
      /\ windowSema' = windowSema /\ childSema' = childSema /\ quitSema' = quitSema
      /\ childPc' = childPc /\ guestPc' = guestPc /\ childKind' = childKind
      /\ role' = role
  BY DEF At, Goto, semas, others
<1>2. TypeOK'
  BY <1>1 DEF IInv, TypeOK
<1>3. Excluded' /\ OtherLocks'
  BY <1>1 DEF IInv, Excluded, OtherLocks
<1>4. OwnLocks'
  BY <1>1, NoHandIs DEF IInv, OwnLocks, ForClosing, Locked, ForCommand, ForChild, ForHandshake
<1>5. Starting'
  BY <1>1, NoHandIs DEF IInv, Starting
<1>6. RequestsCounted'
  BY DEF RequestsCounted
<1> QED BY <1>2, <1>3, <1>4, <1>5, <1>6 DEF IInv

(***************************************************************************)
(* Before it closes the window has neither semaphore for itself.           *)
(***************************************************************************)
LEMMA OpenWalks ==
  ASSUME IInv,
         \/ SetupDone \/ Opened \/ OpenFails \/ ReadCheck \/ ReadChecked \/ ReadAborted
         \/ ReadDone \/ LoopAgain \/ Handled \/ CloseDeferred \/ QuitRefused
  PROVE  IInv'
<1> DEFINE from == {"setup", "opening", "reading", "checking", "loop", "handling", "closing"}
           to   == from \cup {"draining"}
<1>1. /\ phase \in from /\ phase' \in to /\ At(phase) /\ Goto(phase')
      /\ UNCHANGED <<unanswered, sent, outstanding, asyncLayout, semas, others>>
      /\ \/ port' = port /\ taken' = taken
         \/ port' = << >> /\ taken' = port
      /\ closeWindow' \in BOOLEAN /\ winSemaLocked' \in BOOLEAN /\ requesters' \in Nat
  <2>1. /\ closeWindow \in BOOLEAN /\ winSemaLocked \in BOOLEAN
        /\ requesters \in Nat /\ requesters + 1 \in Nat
    BY DEF IInv, TypeOK
  <2>2. /\ phase \in from /\ phase' \in to /\ At(phase) /\ Goto(phase')
    BY DEF SetupDone, Opened, OpenFails, ReadCheck, CheckForMessages, ReadChecked,
           ReadAborted, ReadDone, LoopAgain, Handled, CloseDeferred, QuitRefused, At, Goto
  <2>3. CASE ReadCheck
    BY <2>1, <2>2, <2>3 DEF ReadCheck, CheckForMessages, flags
  <2>4. CASE ReadAborted \/ QuitRefused
    BY <2>1, <2>2, <2>4 DEF ReadAborted, QuitRefused, messages
  <2>5. CASE \/ SetupDone \/ Opened \/ OpenFails \/ ReadChecked
             \/ ReadDone \/ LoopAgain \/ Handled \/ CloseDeferred
    BY <2>1, <2>2, <2>5 DEF SetupDone, Opened, OpenFails, ReadChecked,
       ReadDone, LoopAgain, Handled, CloseDeferred, messages, flags
  <2> QED BY <2>3, <2>4, <2>5
<1>2. port' \in Seq(Messages) /\ taken' \in Seq(Messages)
  BY <1>1, EmptySeq DEF IInv, TypeOK
<1>3. Waiting(port') + Waiting(taken') <= unanswered
  <2>1. /\ Waiting(port) \in Nat /\ Waiting(taken) \in Nat /\ unanswered \in Nat
        /\ Waiting(port) + Waiting(taken) <= unanswered
    BY WaitingIsNumber DEF IInv, TypeOK, RequestsCounted
  <2>2. CASE port' = port /\ taken' = taken
    BY <2>1, <2>2
  <2>3. CASE port' = << >> /\ taken' = port
    BY <2>1, <2>3, WaitingEmpty
  <2> QED BY <1>1, <2>2, <2>3
<1>4. ~Locked
  BY <1>1 DEF IInv, ClosingLocks, Deciding, Ending
<1>5. ClosingLocks'
  BY <1>1, <1>4 DEF IInv, ClosingLocks, Deciding, Ending, Locked, semas
<1>6. ChildrenLeft'
  BY <1>1 DEF ChildrenLeft, Closed
<1>7. phase' \in Phase
  BY <1>1 DEF Phase, Listed, Listening
<1> HIDE DEF from, to
<1>8. phase \notin Outside /\ phase' \notin Outside
  BY <1>1 DEF from, to, Outside
<1> QED BY <1>1, <1>2, <1>3, <1>5, <1>6, <1>7, <1>8, Walks

(***************************************************************************)
(* While it closes.  When no child holds the child semaphore and none is   *)
(* being started, those that are left have released it.                    *)
(***************************************************************************)
LEMMA EndWalks ==
  ASSUME IInv,
         \/ QuitAsks \/ DrainCheck \/ DrainChecked \/ Drained \/ ChildWait
         \/ DisposeScalosWindow \/ FreeIconLists \/ ForbidOthers \/ DeletePort \/ FreeWindowTask
  PROVE  IInv'
<1>1. /\ At(phase) /\ Goto(phase')
      /\ phase \notin Outside /\ phase' \notin Outside /\ phase' \in Phase
      /\ UNCHANGED <<unanswered, sent, outstanding, asyncLayout, semas, others>>
      /\ \/ port' = port /\ taken' = taken
         \/ port' = << >> /\ taken' = port
      /\ closeWindow' = closeWindow /\ winSemaLocked' = winSemaLocked
      /\ requesters' \in Nat
  BY DEF QuitAsks, DrainCheck, CheckForMessages, DrainChecked, Drained, ChildWait,
         DisposeScalosWindow, FreeIconLists, ForbidOthers, DeletePort, FreeWindowTask, At, Goto,
         messages, flags, IInv, TypeOK, Phase, Listed, Listening, Closed, Outside
<1>2. /\ port' \in Seq(Messages) /\ taken' \in Seq(Messages)
      /\ closeWindow' \in BOOLEAN /\ winSemaLocked' \in BOOLEAN
  BY <1>1, EmptySeq DEF IInv, TypeOK
<1>3. Waiting(port') + Waiting(taken') <= unanswered
  <2>1. /\ Waiting(port) \in Nat /\ Waiting(taken) \in Nat /\ unanswered \in Nat
        /\ Waiting(port) + Waiting(taken) <= unanswered
    BY WaitingIsNumber DEF IInv, TypeOK, RequestsCounted
  <2>2. CASE port' = port /\ taken' = taken
    BY <2>1, <2>2
  <2>3. CASE port' = << >> /\ taken' = port
    BY <2>1, <2>3, WaitingEmpty
  <2> QED BY <1>1, <2>2, <2>3
<1>4. ClosingLocks'
  BY <1>1 DEF QuitAsks, DrainCheck, CheckForMessages, DrainChecked, Drained, ChildWait,
         DisposeScalosWindow, FreeIconLists, ForbidOthers, DeletePort, FreeWindowTask, At, Goto,
         IInv, ClosingLocks, Deciding, Ending, Locked, semas, others, flags
<1>5. ChildrenLeft'
  <2>1. CASE ChildWait
    <3> SUFFICES ASSUME NEW c \in Child
                 PROVE  childPc[c] \in {"idle", "leaving"}
      BY <2>1 DEF ChildrenLeft, ChildWait, others
    <3>1. hand.child # c
      BY <2>1, Basics, NoHandIs DEF ChildWait, At
    <3>2. childSema.nest[c] = 0
      BY <2>1, Basics DEF ChildWait, CanExclusive, Idle, Exclusive
    <3>3. childPc[c] \notin Inside
      BY <3>2 DEF IInv, OtherLocks, ChildLocks
    <3> QED BY <3>1, <3>3 DEF IInv, Starting, TypeOK, ChildPC, Inside
  <2>2. CASE DisposeScalosWindow \/ FreeIconLists \/ ForbidOthers \/ DeletePort \/ FreeWindowTask
    BY <2>2 DEF DisposeScalosWindow, FreeIconLists, ForbidOthers, DeletePort, FreeWindowTask, At, Goto,
         IInv, ChildrenLeft, Closed, others
  <2>3. CASE QuitAsks \/ DrainCheck \/ DrainChecked \/ Drained
    BY <2>3 DEF QuitAsks, DrainCheck, CheckForMessages, DrainChecked, Drained, Goto,
         ChildrenLeft, Closed
  <2> QED BY <2>1, <2>2, <2>3
<1> QED BY <1>1, <1>2, <1>3, <1>4, <1>5, Walks
-----------------------------------------------------------------------------
(***************************************************************************)
(* A child goes on, and takes or releases what its new place says.         *)
(***************************************************************************)
LEMMA ChildMoves ==
  ASSUME IInv, NEW c \in Child, NEW l \in ChildPC, ChildGoto(c, l),
         UNCHANGED <<control, taken, requesters, unanswered, sent, closeWindow,
                     asyncLayout, winSemaLocked, guestPc, role>>,
         childKind' \in [Child -> AllKinds], outstanding' \in 0 .. ULongs - 1,
         port' \in Seq(Messages), Waiting(port') = Waiting(port),
         Leaves(windowSema, windowSema', c, WindowLocks(l)),
         Leaves(childSema, childSema', c, ChildLocks(l)),
         Leaves(quitSema, quitSema', c, QuitLocks(l)),
         l \in {"new", "hello", "ready"} <=> hand.child = c,
         phase \in Closed \ {"alert"} => l \in {"idle", "leaving"}
  PROVE  IInv'
<1>1. /\ c \in Task /\ c # Own /\ c \notin Guest
      /\ Own \in Task
      /\ \A d \in Child : d \in Task /\ d # Own
      /\ \A g \in Guest : g \in Task /\ g # c
      /\ childPc \in [Child -> ChildPC]
      /\ childPc' = [childPc EXCEPT ![c] = l]
  BY Basics DEF IInv, TypeOK, ChildGoto
<1>2. /\ phase' = phase /\ depth' = depth /\ hand' = hand /\ guestPc' = guestPc
      /\ role' = role /\ taken' = taken /\ unanswered' = unanswered
      /\ asyncLayout' = asyncLayout /\ winSemaLocked' = winSemaLocked
  BY DEF control
<1>3. /\ windowSema' \in SemaphoreType /\ windowSema'.owner = windowSema.owner
      /\ \A t \in Task \ {c} : windowSema'.nest[t] = windowSema.nest[t]
      /\ windowSema'.nest[c] = WindowLocks(l)
  BY <1>1, Basics, LeavesFacts
<1>4. /\ childSema' \in SemaphoreType /\ childSema'.owner = childSema.owner
      /\ \A t \in Task \ {c} : childSema'.nest[t] = childSema.nest[t]
      /\ childSema'.nest[c] = ChildLocks(l)
  BY <1>1, Basics, LeavesFacts
<1>5. /\ quitSema' \in SemaphoreType /\ quitSema'.owner = quitSema.owner
      /\ \A t \in Task \ {c} : quitSema'.nest[t] = quitSema.nest[t]
      /\ quitSema'.nest[c] = QuitLocks(l)
  BY <1>1, Basics, LeavesFacts
<1>6. TypeOK'
  <2>1. childPc' \in [Child -> ChildPC]
    BY <1>1
  <2>2. TypeOK
    BY DEF IInv
  <2> QED BY <1>2, <1>3, <1>4, <1>5, <2>1, <2>2 DEF TypeOK
<1>7. Excluded'
  BY DEF Leaves, Excluded
<1>8. ClosingLocks'
  BY <1>2, <1>3, <1>4 DEF IInv, ClosingLocks, Locked
<1>9. OwnLocks'
  BY <1>1, <1>2, <1>3, <1>4, <1>5
  DEF IInv, OwnLocks, ForClosing, Locked, ForCommand, ForChild, ForHandshake
<1>10. OtherLocks'
  <2>1. quitSema'.owner = NoTask
    BY <1>5 DEF IInv, OtherLocks
  <2>2. ASSUME NEW d \in Child
        PROVE  /\ windowSema'.nest[d] = WindowLocks(childPc'[d])
               /\ childSema'.nest[d] = ChildLocks(childPc'[d])
               /\ quitSema'.nest[d] = QuitLocks(childPc'[d])
    <3>1. CASE d = c
      BY <1>1, <1>3, <1>4, <1>5, <3>1
    <3>2. CASE d # c
      BY <1>1, <1>3, <1>4, <1>5, <3>2 DEF IInv, OtherLocks
    <3> QED BY <3>1, <3>2
  <2>3. \A g \in Guest : windowSema'.nest[g] = GuestLocked(guestPc'[g])
    BY <1>1, <1>2, <1>3 DEF IInv, OtherLocks
  <2> QED BY <2>1, <2>2, <2>3 DEF OtherLocks
<1>11. Starting'
  BY <1>1, <1>2 DEF IInv, Starting
<1>12. ChildrenLeft'
  BY <1>1, <1>2 DEF IInv, ChildrenLeft
<1>13. RequestsCounted'
  BY <1>2 DEF IInv, RequestsCounted
<1> QED BY <1>6, <1>7, <1>8, <1>9, <1>10, <1>11, <1>12, <1>13 DEF IInv

(***************************************************************************)
(* A semaphore the step does not touch.                                    *)
(***************************************************************************)
LEMMA ChildHas ==
  ASSUME IInv, NEW c \in Child
  PROVE  /\ Leaves(windowSema, windowSema, c, WindowLocks(childPc[c]))
         /\ Leaves(childSema, childSema, c, ChildLocks(childPc[c]))
         /\ Leaves(quitSema, quitSema, c, QuitLocks(childPc[c]))
BY Basics, LeavesSame DEF IInv, OtherLocks

LEMMA Wraps ==
  /\ \A n \in Nat : n % ULongs \in 0 .. ULongs - 1
  /\ \A n \in 0 .. ULongs - 1 : /\ CountDown(n) \in 0 .. ULongs - 1
                                /\ n + 1 \in Nat /\ n + ULongs - 1 \in Nat
BY BoundAssumption DEF CountDown
(***************************************************************************)
(* ReplyOf is empty or one message, and no close request.                  *)
(***************************************************************************)
LEMMA ReplyFacts ==
  ASSUME NEW T, Replies \subseteq T, NEW q \in Seq(T), NEW k \in AllKinds
  PROVE  q \o ReplyOf(k) \in Seq(T) /\ Waiting(q \o ReplyOf(k)) = Waiting(q)
<1>1. CASE ReplyOf(k) = << >>
  BY <1>1, ConcatEmptySeq
<1>2. ASSUME NEW m \in Replies, ReplyOf(k) = << m >>
      PROVE  q \o ReplyOf(k) \in Seq(T) /\ Waiting(q \o ReplyOf(k)) = Waiting(q)
  <2>1. m \in T /\ Request(m) = 0
    BY DEF Replies, Request
  <2>2. Append(q, m) \in Seq(T) /\ q \o << m >> = Append(q, m)
    BY <2>1, AppendProperties, AppendIsConcat
  <2>3. Waiting(Append(q, m)) = Waiting(q)
    <3>1. Waiting(Append(q, m)) = Waiting(q) + 0 /\ Waiting(q) \in Nat
      BY <2>1, WaitingAppend, WaitingIsNumber
    <3> QED BY <3>1
  <2> QED BY <1>2, <2>2, <2>3
<1>3. ReplyOf(k) \in {<< >>, << "RunReply" >>, << "BackFillReply" >>}
  BY DEF ReplyOf, AllKinds
<1>4. {"RunReply", "BackFillReply"} \subseteq Replies
  BY DEF Replies
<1> QED BY <1>1, <1>2, <1>3, <1>4

LEMMA ChildStepKeeps ==
  ASSUME IInv, NEW c \in Child, ChildStep(c)
  PROVE  IInv'
<1>1. /\ Leaves(windowSema, windowSema, c, WindowLocks(childPc[c]))
      /\ Leaves(childSema, childSema, c, ChildLocks(childPc[c]))
      /\ Leaves(quitSema, quitSema, c, QuitLocks(childPc[c]))
  BY ChildHas
<1>2. /\ childKind \in [Child -> AllKinds] /\ outstanding \in 0 .. ULongs - 1
      /\ port \in Seq(Messages) /\ childPc[c] \in ChildPC
  BY DEF IInv, TypeOK
<1>3. /\ c \in Task /\ Own # c
      /\ windowSema \in SemaphoreType /\ Exclusive(windowSema)
      /\ childSema \in SemaphoreType /\ Exclusive(childSema)
      /\ quitSema \in SemaphoreType /\ Exclusive(quitSema)
      /\ windowSema.owner # c /\ childSema.owner # c /\ quitSema.owner = NoTask
  BY Basics DEF IInv, ClosingLocks, OtherLocks
<1>4. /\ windowSema.nest[c] = WindowLocks(childPc[c])
      /\ childSema.nest[c] = ChildLocks(childPc[c])
      /\ quitSema.nest[c] = QuitLocks(childPc[c])
  BY DEF IInv, OtherLocks
<1>5. /\ childPc[c] \in {"new", "hello", "ready"} <=> hand.child = c
      /\ phase \in Closed \ {"alert"} => childPc[c] \in {"idle", "leaving"}
      /\ phase \in Closed \ {"alert"} => hand.child # c
  <2>1. childPc[c] \in {"new", "hello", "ready"} <=> hand.child = c
    BY DEF IInv, Starting
  <2>2. phase \in Closed \ {"alert"} => childPc[c] \in {"idle", "leaving"}
    BY DEF IInv, ChildrenLeft
  <2> QED BY <2>1, <2>2
<1>6. /\ {"idle", "new", "hello", "ready", "run", "thumb", "count", "countdown",
          "reply", "unlock", "leaving"} \subseteq ChildPC
  BY DEF ChildPC
<1> USE DEF WindowLocks, ChildLocks, QuitLocks, Inside
<1>7. CASE ChildObtainQuit(c)
  <2>1. Leaves(quitSema, quitSema', c, QuitLocks("hello"))
    <3>1. Leaves(quitSema, GrabShared(quitSema, c), c, 0 + 1)
      BY <1>3, <1>4, <1>7, LeavesOneMore DEF ChildObtainQuit
    <3> QED BY <1>7, <3>1 DEF ChildObtainQuit
  <2> QED BY <1>1, <1>2, <1>5, <1>6, <1>7, <2>1, ChildMoves
      DEF ChildObtainQuit, messages, flags
<1>8. CASE ChildAnswers(c)
  <2>1. Leaves(childSema, childSema', c, ChildLocks("ready"))
    <3>1. Leaves(childSema, GrabShared(childSema, c), c, 0 + 1)
      BY <1>3, <1>4, <1>8, LeavesOneMore DEF ChildAnswers
    <3> QED BY <1>8, <3>1 DEF ChildAnswers
  <2> QED BY <1>1, <1>2, <1>5, <1>6, <1>8, <2>1, ChildMoves
      DEF ChildAnswers, messages, flags
<1>9. CASE ChildWorks(c)
  BY <1>1, <1>2, <1>5, <1>6, <1>9, ChildMoves DEF ChildWorks, messages, flags, semas
<1>10. CASE ThumbnailsBegin(c)
  <2>1. Leaves(windowSema, windowSema', c, WindowLocks("thumb"))
    <3>1. Leaves(windowSema, GrabShared(windowSema, c), c, 0 + 1)
      BY <1>3, <1>4, <1>10, LeavesOneMore DEF ThumbnailsBegin
    <3> QED BY <1>10, <3>1 DEF ThumbnailsBegin
  <2> QED BY <1>1, <1>2, <1>5, <1>6, <1>10, <2>1, ChildMoves
      DEF ThumbnailsBegin, messages, flags
<1>11. CASE ThumbnailsEnd(c)
  <2>1. Leaves(windowSema, windowSema', c, WindowLocks("count"))
    <3>1. Leaves(windowSema, Drop(windowSema, c), c, 1 - 1)
      BY <1>3, <1>4, <1>11, LeavesOneLess DEF ThumbnailsEnd
    <3> QED BY <1>11, <3>1 DEF ThumbnailsEnd
  <2> QED BY <1>1, <1>2, <1>5, <1>6, <1>11, <2>1, ChildMoves
      DEF ThumbnailsEnd, messages, flags
<1>12. CASE ThumbnailsCount(c)
  BY <1>1, <1>2, <1>5, <1>6, <1>12, ChildMoves DEF ThumbnailsCount, messages, flags, semas
<1>13. CASE ThumbnailsCountDown(c)
  <2>1. outstanding' \in 0 .. ULongs - 1
    BY <1>2, <1>13, Wraps DEF ThumbnailsCountDown
  <2> QED BY <1>1, <1>2, <1>5, <1>6, <1>13, <2>1, ChildMoves
      DEF ThumbnailsCountDown, messages, semas
<1>14. CASE ChildReplies(c)
  <2>1. port' \in Seq(Messages) /\ Waiting(port') = Waiting(port)
    BY <1>2, <1>14, ReplyFacts DEF ChildReplies, Messages
  <2> QED BY <1>1, <1>2, <1>5, <1>6, <1>14, <2>1, ChildMoves
      DEF ChildReplies, flags, semas
<1>15. CASE ChildUnlocks(c)
  <2>1. Leaves(childSema, childSema', c, ChildLocks("leaving"))
    <3>1. Leaves(childSema, Drop(childSema, c), c, 1 - 1)
      BY <1>3, <1>4, <1>15, LeavesOneLess DEF ChildUnlocks
    <3> QED BY <1>15, <3>1 DEF ChildUnlocks
  <2> QED BY <1>1, <1>2, <1>5, <1>6, <1>15, <2>1, ChildMoves
      DEF ChildUnlocks, messages, flags
<1>16. CASE ChildLeaves(c)
  <2>1. Leaves(quitSema, quitSema', c, QuitLocks("idle"))
    <3>1. Leaves(quitSema, Drop(quitSema, c), c, 1 - 1)
      BY <1>3, <1>4, <1>16, NoTaskAssumption, LeavesOneLess DEF ChildLeaves
    <3> QED BY <1>16, <3>1 DEF ChildLeaves
  <2>2. childKind' \in [Child -> AllKinds]
    BY <1>2, <1>16 DEF ChildLeaves, AllKinds
  <2> QED BY <1>1, <1>2, <1>5, <1>6, <1>16, <2>1, <2>2, ChildMoves
      DEF ChildLeaves, messages, flags
<1> QED BY <1>7, <1>8, <1>9, <1>10, <1>11, <1>12, <1>13, <1>14, <1>15, <1>16 DEF ChildStep
-----------------------------------------------------------------------------
(***************************************************************************)
(* A guest goes on.                                                        *)
(***************************************************************************)
LEMMA GuestStepKeeps ==
  ASSUME IInv, NEW g \in Guest, GuestStep(g)
  PROVE  IInv'
<1>1. /\ g \in Task /\ g # Own /\ g \notin Child /\ Own \in Task
      /\ \A c \in Child : c \in Task /\ c # g
      /\ \A h \in Guest : h \in Task
      /\ windowSema \in SemaphoreType /\ Exclusive(windowSema) /\ windowSema.owner # g
      /\ windowSema.nest[g] = GuestLocked(guestPc[g])
      /\ TypeOK
  BY Basics DEF IInv, ClosingLocks, OtherLocks
<1>2. PICK l \in {"idle", "asked", "inside", "reading", "ended"} :
        /\ guestPc' = [guestPc EXCEPT ![g] = l]
        /\ Leaves(windowSema, windowSema', g, GuestLocked(l))
  <2> USE DEF GuestLocked
  <2>1. CASE GuestAsked(g)
    BY <1>1, <2>1, LeavesSame DEF GuestAsked, semas
  <2>2. CASE GuestLocks(g)
    <3>1. Leaves(windowSema, GrabShared(windowSema, g), g, 0 + 1)
      BY <1>1, <2>2, LeavesOneMore DEF GuestLocks
    <3> QED BY <2>2, <3>1 DEF GuestLocks
  <2>3. CASE GuestUnlocks(g)
    <3>1. Leaves(windowSema, Drop(windowSema, g), g, 1 - 1)
      BY <1>1, <2>3, LeavesOneLess DEF GuestUnlocks
    <3> QED BY <2>3, <3>1 DEF GuestUnlocks
  <2>4. CASE GuestReads(g) \/ GuestKeeps(g)
    BY <1>1, <2>4, LeavesSame DEF GuestReads, GuestKeeps, semas
  <2> QED BY <2>1, <2>2, <2>3, <2>4 DEF GuestStep, GuestGoesOn
<1>3. /\ UNCHANGED <<control, messages, flags, childSema, quitSema, childPc, childKind, role>>
  BY DEF GuestStep, GuestAsked, GuestGoesOn, GuestLocks, GuestReads,
         GuestUnlocks, GuestKeeps, semas
<1>4. /\ phase' = phase /\ depth' = depth /\ hand' = hand /\ port' = port
      /\ taken' = taken /\ requesters' = requesters /\ unanswered' = unanswered
      /\ sent' = sent /\ closeWindow' = closeWindow /\ outstanding' = outstanding
      /\ asyncLayout' = asyncLayout /\ winSemaLocked' = winSemaLocked
      /\ childSema' = childSema /\ quitSema' = quitSema /\ childPc' = childPc
      /\ childKind' = childKind /\ role' = role
  BY <1>3 DEF control, messages, flags
<1>5. /\ windowSema' \in SemaphoreType /\ windowSema'.owner = windowSema.owner
      /\ \A t \in Task \ {g} : windowSema'.nest[t] = windowSema.nest[t]
      /\ windowSema'.nest[g] = GuestLocked(l)
      /\ Exclusive(windowSema')
  BY <1>1, <1>2, LeavesFacts
<1>6. guestPc' \in [Guest -> {"idle", "asked", "inside", "reading", "ended"}]
  BY <1>1, <1>2 DEF TypeOK
<1>7. TypeOK'
  BY <1>1, <1>4, <1>5, <1>6 DEF TypeOK
<1>8. Excluded' /\ ClosingLocks' /\ Starting' /\ ChildrenLeft' /\ RequestsCounted'
  BY <1>4, <1>5 DEF IInv, Excluded, ClosingLocks, Locked, Starting, ChildrenLeft, RequestsCounted
<1>9. OwnLocks'
  BY <1>1, <1>4, <1>5 DEF IInv, OwnLocks, ForClosing, Locked, ForCommand, ForChild, ForHandshake
<1>10. OtherLocks'
  <2>1. \A h \in Guest : windowSema'.nest[h] = GuestLocked(guestPc'[h])
    <3> TAKE h \in Guest
    <3>1. CASE h = g
      BY <1>1, <1>2, <1>5, <3>1 DEF TypeOK
    <3>2. CASE h # g
      BY <1>1, <1>2, <1>5, <3>2 DEF TypeOK, IInv, OtherLocks
    <3> QED BY <3>1, <3>2
  <2> QED BY <1>1, <1>4, <1>5, <2>1 DEF IInv, OtherLocks
<1> QED BY <1>7, <1>8, <1>9, <1>10 DEF IInv

-----------------------------------------------------------------------------
(***************************************************************************)
(* The window process obtains or releases its semaphores, without changing *)
(* who owns them, as its place, depth and hand say.                        *)
(***************************************************************************)
LEMMA OwnActs ==
  ASSUME IInv, TypeOK', NEW n, NEW m,
         Leaves(windowSema, windowSema', Own, n), n = ForClosing + depth' + ForCommand',
         Leaves(childSema, childSema', Own, m),
         m = ForClosing + depth' + ForChild' + ForHandshake',
         UNCHANGED <<quitSema, guestPc>>,
         \A c \in Child : \/ childPc'[c] = childPc[c]
                          \/ childPc[c] = "idle" /\ childPc'[c] = "new"
                          \/ childPc[c] = "ready" /\ childPc'[c] = "run",
         phase' \in Outside <=> phase \in Outside,
         ClosingLocks', Starting', ChildrenLeft', RequestsCounted'
  PROVE  IInv'
<1>1. /\ Own \in Task /\ \A c \in Child : c \in Task \ {Own}
      /\ \A g \in Guest : g \in Task \ {Own}
  BY ProcessAssumption
<1>2. /\ Exclusive(windowSema') /\ windowSema'.owner = windowSema.owner
      /\ \A t \in Task \ {Own} : windowSema'.nest[t] = windowSema.nest[t]
      /\ windowSema'.nest[Own] = n
  BY Basics, LeavesFacts
<1>3. /\ Exclusive(childSema')
      /\ \A t \in Task \ {Own} : childSema'.nest[t] = childSema.nest[t]
      /\ childSema'.nest[Own] = m
  BY Basics, LeavesFacts
<1>4. Excluded'
  BY <1>2, <1>3 DEF IInv, Excluded
<1>5. OwnLocks'
  BY <1>2, <1>3 DEF IInv, OwnLocks, ForClosing, Locked
<1>6. OtherLocks'
  <2>1. ASSUME NEW c \in Child
        PROVE  /\ windowSema'.nest[c] = WindowLocks(childPc'[c])
               /\ childSema'.nest[c] = ChildLocks(childPc'[c])
               /\ quitSema'.nest[c] = QuitLocks(childPc'[c])
    <3>1. /\ windowSema'.nest[c] = WindowLocks(childPc[c])
          /\ childSema'.nest[c] = ChildLocks(childPc[c])
          /\ quitSema'.nest[c] = QuitLocks(childPc[c])
      BY <1>1, <1>2, <1>3 DEF IInv, OtherLocks
    <3> QED BY <3>1 DEF WindowLocks, ChildLocks, QuitLocks, Inside
  <2>2. \A g \in Guest : windowSema'.nest[g] = GuestLocked(guestPc'[g])
    BY <1>1, <1>2 DEF IInv, OtherLocks
  <2> QED BY <2>1, <2>2 DEF IInv, OtherLocks
<1> QED BY <1>4, <1>5, <1>6 DEF IInv
-----------------------------------------------------------------------------
(***************************************************************************)
(* A message is taken from the port or from the list.                      *)
(***************************************************************************)
LEMMA Consumed ==
  ASSUME IInv, NEW m, Got(m), Consume
  PROVE  /\ m \in Messages
         /\ port' \in Seq(Messages) /\ taken' \in Seq(Messages)
         /\ unanswered - Request(m) \in Nat
         /\ Waiting(port') + Waiting(taken') <= unanswered - Request(m)
<1>1. /\ port \in Seq(Messages) /\ taken \in Seq(Messages) /\ unanswered \in Nat
      /\ Waiting(port) + Waiting(taken) <= unanswered
      /\ Waiting(port) \in Nat /\ Waiting(taken) \in Nat
  BY WaitingIsNumber DEF IInv, TypeOK, RequestsCounted
<1>2. Request(m) \in {0, 1}
  BY DEF Request
<1>3. CASE FromPort
  <2>1. port # << >> /\ Head(port) = m /\ port' = Tail(port) /\ taken' = taken
    BY <1>3 DEF Got, Consume, Source
  <2>2. /\ port' \in Seq(Messages) /\ m \in Messages
        /\ Waiting(port) = Waiting(port') + Request(m)
    BY <1>1, <2>1, WaitingTail
  <2>3. Waiting(port') \in Nat
    BY <2>2, WaitingIsNumber
  <2> QED BY <1>1, <1>2, <2>1, <2>2, <2>3
<1>4. CASE ~FromPort
  <2>1. taken # << >> /\ Head(taken) = m /\ taken' = Tail(taken) /\ port' = port
    BY <1>4 DEF Got, Consume, Source
  <2>2. /\ taken' \in Seq(Messages) /\ m \in Messages
        /\ Waiting(taken) = Waiting(taken') + Request(m)
    BY <1>1, <2>1, WaitingTail
  <2>3. Waiting(taken') \in Nat
    BY <2>2, WaitingIsNumber
  <2> QED BY <1>1, <1>2, <2>1, <2>2, <2>3
<1> QED BY <1>3, <1>4

(***************************************************************************)
(* Only messages and flags change.                                         *)
(***************************************************************************)
LEMMA Stays ==
  ASSUME IInv, UNCHANGED <<control, winSemaLocked, semas, others>>,
         port' \in Seq(Messages), taken' \in Seq(Messages),
         unanswered' \in Nat, Waiting(port') + Waiting(taken') <= unanswered',
         requesters' \in Nat, sent' \in 0 .. MaxMsgs, closeWindow' \in BOOLEAN,
         asyncLayout' \in BOOLEAN, asyncLayout' => asyncLayout,
         outstanding' \in 0 .. ULongs - 1
  PROVE  IInv'
<1>1. /\ phase' = phase /\ depth' = depth /\ hand' = hand
      /\ winSemaLocked' = winSemaLocked
      /\ windowSema' = windowSema /\ childSema' = childSema /\ quitSema' = quitSema
      /\ childPc' = childPc /\ childKind' = childKind /\ guestPc' = guestPc
      /\ role' = role
  BY DEF control, semas, others
<1>2. TypeOK'
  BY <1>1 DEF IInv, TypeOK
<1>3. Excluded' /\ OwnLocks' /\ OtherLocks'
  BY <1>1 DEF IInv, Excluded, OwnLocks, OtherLocks,
              ForClosing, Locked, ForCommand, ForChild, ForHandshake
<1>4. ClosingLocks'
  BY <1>1 DEF IInv, ClosingLocks, Locked
<1>5. Starting' /\ ChildrenLeft' /\ RequestsCounted'
  BY <1>1 DEF IInv, Starting, ChildrenLeft, RequestsCounted
<1> QED BY <1>2, <1>3, <1>4, <1>5 DEF IInv

(***************************************************************************)
(* Messages from others, and those that start and answer nothing here.     *)
(***************************************************************************)
LEMMA SendKeeps ==
  ASSUME IInv, \/ \E m \in EnvMsgs : Send(m)
               \/ \E m \in {"ReqYes", "ReqNo"} : AnswerRequester(m)
  PROVE  IInv'
<1>1. /\ port \in Seq(Messages) /\ taken \in Seq(Messages) /\ unanswered \in Nat
      /\ Waiting(port) + Waiting(taken) <= unanswered
      /\ Waiting(port) \in Nat /\ Waiting(taken) \in Nat
      /\ requesters \in Nat /\ sent \in 0 .. MaxMsgs /\ MaxMsgs \in Nat
      /\ closeWindow \in BOOLEAN /\ outstanding \in 0 .. ULongs - 1
      /\ asyncLayout \in BOOLEAN
  BY WaitingIsNumber, BoundAssumption DEF IInv, TypeOK, RequestsCounted
<1>2. PICK m \in Messages :
        /\ port' = Append(port, m) /\ taken' = taken
        /\ unanswered' = unanswered + Request(m)
        /\ requesters' \in Nat /\ sent' \in 0 .. MaxMsgs
        /\ UNCHANGED <<control, flags, semas, others>>
  <2>1. CASE \E m \in EnvMsgs : Send(m)
    BY <1>1, <2>1, SwitchAssumption DEF Send, Messages, Request
  <2>2. CASE \E m \in {"ReqYes", "ReqNo"} : AnswerRequester(m)
    BY <1>1, <2>2 DEF AnswerRequester, Messages, Replies, Request
  <2> QED BY <2>1, <2>2
<1>3. Request(m) \in {0, 1}
  BY DEF Request
<1>4. /\ port' \in Seq(Messages) /\ Waiting(port') = Waiting(port) + Request(m)
  BY <1>1, <1>2, AppendProperties, WaitingAppend
<1>5. unanswered' \in Nat /\ Waiting(port') + Waiting(taken') <= unanswered'
  BY <1>1, <1>2, <1>3, <1>4
<1> QED BY <1>1, <1>2, <1>4, <1>5, Stays DEF flags

LEMMA HandledKeeps ==
  ASSUME IInv, CloseWindowMsg \/ MenuNoChild \/ NewPatternDone \/ AsyncReplyMsg
  PROVE  IInv'
<1>1. /\ requesters \in Nat /\ sent \in 0 .. MaxMsgs /\ unanswered \in Nat
      /\ closeWindow \in BOOLEAN /\ outstanding \in 0 .. ULongs - 1
      /\ asyncLayout \in BOOLEAN
  BY DEF IInv, TypeOK
<1>2. PICK m : /\ Got(m) /\ Consume
               /\ unanswered' = unanswered - Request(m)
               /\ closeWindow' \in BOOLEAN /\ asyncLayout' \in BOOLEAN
               /\ asyncLayout' => asyncLayout
               /\ outstanding' \in {outstanding, CountDown(outstanding)}
               /\ UNCHANGED <<control, requesters, sent, winSemaLocked, semas, others>>
  <2>1. /\ unanswered - 0 = unanswered
        /\ Request("CloseWindow") = 1 /\ Request("RunMenuCmd") = 0
        /\ Request("NewPattern") = 0 /\ Request("BackFillReply") = 0
    BY <1>1 DEF Request
  <2>2. CASE CloseWindowMsg
    BY <1>1, <2>1, <2>2 DEF CloseWindowMsg
  <2>3. CASE MenuNoChild
    BY <1>1, <2>1, <2>3 DEF MenuNoChild, flags
  <2>4. CASE NewPatternDone
    BY <1>1, <2>1, <2>4 DEF NewPatternDone, flags
  <2>5. CASE AsyncReplyMsg
    BY <1>1, <2>1, <2>5 DEF AsyncReplyMsg
  <2> QED BY <2>2, <2>3, <2>4, <2>5
<1>3. /\ port' \in Seq(Messages) /\ taken' \in Seq(Messages)
      /\ unanswered' \in Nat /\ Waiting(port') + Waiting(taken') <= unanswered'
  BY <1>2, Consumed
<1>4. outstanding' \in 0 .. ULongs - 1
  BY <1>1, <1>2, Wraps
<1> QED BY <1>1, <1>2, <1>3, <1>4, Stays

(***************************************************************************)
(* The click on the close gadget drops what is left in the list.           *)
(***************************************************************************)
LEMMA CloseGadgetKeeps ==
  ASSUME IInv, CloseGadget
  PROVE  IInv'
<1>1. /\ port \in Seq(Messages) /\ taken \in Seq(Messages) /\ unanswered \in Nat
      /\ Waiting(port) + Waiting(taken) <= unanswered
      /\ Waiting(port) \in Nat /\ Waiting(taken) \in Nat
      /\ requesters \in Nat /\ sent \in 0 .. MaxMsgs
      /\ outstanding \in 0 .. ULongs - 1
      /\ winSemaLocked \in BOOLEAN /\ asyncLayout \in BOOLEAN
  BY WaitingIsNumber DEF IInv, TypeOK, RequestsCounted
<1>2. /\ port' \in Seq(Messages) /\ taken' \in Seq(Messages)
      /\ Waiting(port') + Waiting(taken') <= unanswered
  <2>1. CASE FromPort
    <3>1. port # << >> /\ port' = Tail(port) /\ taken' = taken
      BY <2>1 DEF CloseGadget, Got, Source
    <3>2. /\ port' \in Seq(Messages) /\ Request(Head(port)) \in {0, 1}
          /\ Waiting(port) = Waiting(port') + Request(Head(port))
      BY <1>1, <3>1, WaitingTail DEF Request
    <3>3. Waiting(port') \in Nat
      BY <3>2, WaitingIsNumber
    <3> QED BY <1>1, <3>1, <3>2, <3>3
  <2>2. CASE ~FromPort
    BY <1>1, <2>2, EmptySeq, WaitingEmpty DEF CloseGadget
  <2> QED BY <2>1, <2>2
<1>3. /\ closeWindow' = TRUE
      /\ UNCHANGED <<requesters, unanswered, sent, outstanding, asyncLayout,
                     winSemaLocked, semas, others>>
  BY DEF CloseGadget
<1>4. CASE phase = "handling" /\ depth = 0
  <2>1. At("handling") /\ Goto("closing")
    BY <1>4 DEF CloseGadget, At, Got
  <2>2. ~Locked
    BY <1>4 DEF IInv, ClosingLocks, Deciding, Ending
  <2>3. ClosingLocks'
    <3>1. /\ phase' = "closing" /\ windowSema' = windowSema /\ childSema' = childSema
      BY <1>3, <2>1 DEF Goto, semas
    <3>2. /\ childSema.owner = windowSema.owner /\ windowSema.owner \in {NoTask, Own}
      BY DEF IInv, ClosingLocks
    <3> QED BY <2>2, <3>1, <3>2 DEF ClosingLocks, Deciding, Ending, Locked
  <2>4. ChildrenLeft' /\ "closing" \in Phase
    BY <2>1 DEF ChildrenLeft, Closed, Goto, Phase, Listed
  <2> QED BY <1>1, <1>2, <1>3, <2>1, <2>3, <2>4, Walks DEF Outside
<1>5. CASE ~(phase = "handling" /\ depth = 0)
  <2>1. UNCHANGED control
    BY <1>5 DEF CloseGadget, Goto, control
  <2> QED BY <1>1, <1>2, <1>3, <2>1, Stays
<1> QED BY <1>4, <1>5

(***************************************************************************)
(* ClearMsgPort answers replies and frees requests.                        *)
(***************************************************************************)
LEMMA ClearMsgPortKeeps ==
  ASSUME IInv, ClearMsgPort
  PROVE  IInv'
<1>1. /\ port \in Seq(Messages) /\ taken \in Seq(Messages) /\ unanswered \in Nat
      /\ Waiting(port) + Waiting(taken) <= unanswered
      /\ Waiting(port) \in Nat /\ Waiting(taken) \in Nat
      /\ requesters \in Nat /\ sent \in 0 .. MaxMsgs
      /\ outstanding \in 0 .. ULongs - 1
      /\ closeWindow \in BOOLEAN /\ asyncLayout \in BOOLEAN
  BY WaitingIsNumber DEF IInv, TypeOK, RequestsCounted
<1>2. /\ Tail(port) \in Seq(Messages) /\ Head(port) \in Messages
      /\ Waiting(port) = Waiting(Tail(port)) + Request(Head(port))
      /\ Request(Head(port)) \in {0, 1} /\ Waiting(Tail(port)) \in Nat
  BY <1>1, WaitingTail, WaitingIsNumber DEF ClearMsgPort, Request
<1>3. /\ Append(Tail(port), Head(port)) \in Seq(Messages)
      /\ Waiting(Append(Tail(port), Head(port))) = Waiting(port)
  BY <1>2, AppendProperties, WaitingAppend
<1>4. port' \in Seq(Messages) /\ Waiting(port') \in Nat /\ Waiting(port') <= Waiting(port)
  BY <1>1, <1>2, <1>3 DEF ClearMsgPort
<1>5. UNCHANGED <<control, taken, requesters, unanswered, sent, flags, semas, others>>
  BY DEF ClearMsgPort
<1>6. Waiting(port') + Waiting(taken') <= unanswered'
  BY <1>1, <1>4, <1>5
<1> QED BY <1>1, <1>4, <1>5, <1>6, Stays DEF flags
-----------------------------------------------------------------------------
(***************************************************************************)
(* What the window has, as the invariant says it, for the steps that       *)
(* change it.                                                              *)
(***************************************************************************)
LEMMA OwnHas ==
  ASSUME IInv
  PROVE  /\ windowSema \in SemaphoreType /\ Exclusive(windowSema)
         /\ childSema \in SemaphoreType /\ Exclusive(childSema)
         /\ Own \in Task /\ Own # NoTask
         /\ windowSema.nest[Own] = ForClosing + depth + ForCommand
         /\ childSema.nest[Own] = ForClosing + depth + ForChild + ForHandshake
         /\ childSema.owner = windowSema.owner
         /\ ForClosing \in {0, 1} /\ ForCommand \in {0, 1} /\ ForChild \in {0, 1}
         /\ ForHandshake \in {0, 1} /\ depth \in Nat
         /\ windowSema.owner = Own <=> ForClosing = 1
BY Basics DEF IInv, OwnLocks, ClosingLocks, ForClosing, Locked, ForCommand, ForChild,
              ForHandshake

LEMMA CreateChildKeeps ==
  ASSUME IInv, NEW c \in Child, CreateChild(c)
  PROVE  IInv'
<1>1. /\ phase' = phase /\ depth' = depth /\ windowSema' = windowSema
      /\ childSema' = GrabShared(childSema, Own)
      /\ UNCHANGED <<messages, flags, quitSema, guestPc, role>>
      /\ hand.kind # "none" /\ hand.child = NoTask /\ CanShared(childSema, Own)
      /\ hand' = [hand EXCEPT !.child = c]
      /\ childPc[c] = "idle" /\ childPc' = [childPc EXCEPT ![c] = "new"]
      /\ childKind' = [childKind EXCEPT ![c] = hand.kind]
  BY DEF CreateChild
<1>2. /\ hand \in [kind : AllKinds \cup {"none"}, child : Child \cup {NoTask}]
      /\ childPc \in [Child -> ChildPC] /\ childKind \in [Child -> AllKinds]
      /\ c # NoTask
  BY Basics DEF IInv, TypeOK
<1>3. /\ hand'.kind = hand.kind /\ hand'.child = c
      /\ hand' \in [kind : AllKinds \cup {"none"}, child : Child \cup {NoTask}]
      /\ hand' # NoHand
  BY <1>1, <1>2, NoHandIs
<1>4. /\ childPc'[c] = "new" /\ \A d \in Child \ {c} : childPc'[d] = childPc[d]
      /\ childPc' \in [Child -> ChildPC] /\ childKind' \in [Child -> AllKinds]
  BY <1>1, <1>2 DEF ChildPC
<1>5. ForClosing + depth' + ForCommand' = windowSema.nest[Own]
  BY <1>1, <1>3, OwnHas DEF ForCommand
<1>6. ForClosing + depth' + ForChild' + ForHandshake' = childSema.nest[Own] + 1
  <2>1. ForHandshake = 0 /\ ForHandshake' = 1 /\ ForChild' = ForChild
    BY <1>1, <1>2, <1>3 DEF ForHandshake, ForChild
  <2> QED BY <1>1, <2>1, OwnHas
<1>7. /\ Leaves(windowSema, windowSema', Own, windowSema.nest[Own])
      /\ Leaves(childSema, childSema', Own, childSema.nest[Own] + 1)
  BY <1>1, OwnHas, LeavesSame, LeavesOneMore
<1>8. TypeOK'
  <2>1. windowSema' \in SemaphoreType /\ childSema' \in SemaphoreType
    BY <1>7 DEF Leaves
  <2> QED BY <1>1, <1>3, <1>4, <2>1 DEF IInv, TypeOK, messages, flags
<1>9. ClosingLocks'
  BY <1>1, <1>7 DEF IInv, ClosingLocks, Locked, Leaves, flags
<1>10. Starting'
  <2>1. Starting
    BY DEF IInv
  <2>2. \A d \in Child : childPc'[d] \in {"new", "hello", "ready"} <=> hand'.child = d
    <3> TAKE d \in Child
    <3>1. childPc[d] \in {"new", "hello", "ready"} <=> hand.child = d
      BY <2>1 DEF Starting
    <3>2. d # NoTask
      BY Basics
    <3> QED BY <1>1, <1>3, <1>4, <3>1, <3>2
  <2> QED BY <1>1, <1>3, <2>1, <2>2 DEF Starting
<1>11. ChildrenLeft'
  <2>1. phase \in Listening \cup {"opening", "loop"}
    BY <1>1 DEF IInv, Starting
  <2> QED BY <1>1, <2>1 DEF ChildrenLeft, Closed, Listening
<1>12. RequestsCounted'
  BY <1>1 DEF IInv, RequestsCounted, messages
<1> QED BY <1>1, <1>4, <1>5, <1>6, <1>7, <1>8, <1>9, <1>10, <1>11, <1>12, OwnActs
(***************************************************************************)
(* Releasing a semaphore the window has obtained more often than for       *)
(* closing leaves its owner as it is.                                      *)
(***************************************************************************)
LEMMA OwnDrops ==
  ASSUME IInv
  PROVE  /\ windowSema.nest[Own] > ForClosing =>
              Leaves(windowSema, Drop(windowSema, Own), Own, windowSema.nest[Own] - 1)
         /\ childSema.nest[Own] > ForClosing =>
              Leaves(childSema, Drop(childSema, Own), Own, childSema.nest[Own] - 1)
<1>1. windowSema.nest[Own] \in Nat /\ childSema.nest[Own] \in Nat
  BY OwnHas DEF SemaphoreType
<1>2. ASSUME windowSema.nest[Own] > ForClosing
      PROVE  windowSema.nest[Own] > 0 /\ (windowSema.owner = Own => windowSema.nest[Own] > 1)
  BY <1>1, <1>2, OwnHas
<1>3. ASSUME childSema.nest[Own] > ForClosing
      PROVE  childSema.nest[Own] > 0 /\ (childSema.owner = Own => childSema.nest[Own] > 1)
  BY <1>1, <1>3, OwnHas
<1> QED BY <1>2, <1>3, OwnHas, LeavesOneLess

LEMMA CreateFailsKeeps ==
  ASSUME IInv, CreateFails
  PROVE  IInv'
<1>1. /\ hand.kind # "none" /\ hand.child = NoTask /\ hand' = NoHand
      /\ depth' = depth
      /\ phase' = IF hand.kind = "backfill" THEN "alert" ELSE phase
      /\ phase \in Listening \cup {"opening", "loop"}
      /\ hand.kind \in AllKinds
      /\ UNCHANGED <<messages, closeWindow, winSemaLocked, quitSema, others>>
  BY DEF CreateFails, IInv, Starting, TypeOK
<1>2. Leaves(windowSema, windowSema', Own, ForClosing + depth)
  <2>1. CASE hand.kind # "backfill" /\ phase \in Listening
    <3>1. ForCommand = 1
      BY <1>1, <2>1 DEF ForCommand, AllKinds
    <3>2. windowSema.nest[Own] = ForClosing + depth + 1
      BY <3>1, OwnHas
    <3>3. /\ windowSema.nest[Own] > ForClosing
          /\ windowSema.nest[Own] - 1 = ForClosing + depth
      BY <3>2, OwnHas
    <3>4. windowSema' = Drop(windowSema, Own)
      BY <1>1, <2>1 DEF CreateFails, EndWindowSema
    <3> QED BY <3>3, <3>4, OwnDrops
  <2>2. CASE ~(hand.kind # "backfill" /\ phase \in Listening)
    <3>1. ForCommand = 0
      BY <2>2 DEF ForCommand
    <3>2. windowSema.nest[Own] = ForClosing + depth
      BY <3>1, OwnHas
    <3>3. windowSema' = windowSema
      BY <2>2 DEF CreateFails, EndWindowSema
    <3> QED BY <3>2, <3>3, OwnHas, LeavesSame
  <2> QED BY <2>1, <2>2
<1>3. Leaves(childSema, childSema', Own, ForClosing + depth)
  <2>0. ForHandshake = 0
    BY <1>1 DEF ForHandshake
  <2>1. CASE hand.kind \in {"wait", "backfill"}
    <3>1. ForChild = 1
      BY <2>1 DEF ForChild
    <3>2. childSema.nest[Own] = ForClosing + depth + 1
      BY <2>0, <3>1, OwnHas
    <3>3. /\ childSema.nest[Own] > ForClosing
          /\ childSema.nest[Own] - 1 = ForClosing + depth
      BY <3>2, OwnHas
    <3>4. childSema' = Drop(childSema, Own)
      BY <2>1 DEF CreateFails
    <3> QED BY <3>3, <3>4, OwnDrops
  <2>2. CASE hand.kind \notin {"wait", "backfill"}
    <3>1. ForChild = 0
      BY <2>2 DEF ForChild
    <3>2. childSema.nest[Own] = ForClosing + depth
      BY <2>0, <3>1, OwnHas
    <3>3. childSema' = childSema
      BY <2>2 DEF CreateFails
    <3> QED BY <3>2, <3>3, OwnHas, LeavesSame
  <2> QED BY <2>1, <2>2
<1>4. /\ ForClosing + depth = ForClosing + depth' + ForCommand'
      /\ ForClosing + depth = ForClosing + depth' + ForChild' + ForHandshake'
  <2>1. ForCommand' = 0 /\ ForChild' = 0 /\ ForHandshake' = 0
    BY <1>1, NoHandIs DEF ForCommand, ForChild, ForHandshake
  <2> QED BY <1>1, <2>1, OwnHas
<1>5. TypeOK'
  <2>1. windowSema' \in SemaphoreType /\ childSema' \in SemaphoreType
    BY <1>2, <1>3 DEF Leaves
  <2>2. phase' \in Phase
    BY <1>1 DEF Phase, Closed, IInv, TypeOK
  <2>3. outstanding' \in 0 .. ULongs - 1 /\ asyncLayout' \in BOOLEAN
    BY Wraps DEF CreateFails, IInv, TypeOK
  <2>4. hand' \in [kind : AllKinds \cup {"none"}, child : Child \cup {NoTask}]
    BY <1>1 DEF NoHand
  <2> QED BY <1>1, <2>1, <2>2, <2>3, <2>4 DEF IInv, TypeOK, messages, others
<1>6. ClosingLocks'
  <2>1. windowSema'.owner = windowSema.owner /\ childSema'.owner = childSema.owner
    BY <1>2, <1>3 DEF Leaves
  <2>2. phase \notin Ending /\ phase' \notin Ending
    BY <1>1 DEF Ending, Listening
  <2>3. phase' = phase \/ (phase' = "alert" /\ phase' \notin Deciding)
    BY <1>1 DEF Deciding
  <2> QED BY <1>1, <2>1, <2>2, <2>3 DEF IInv, ClosingLocks, Locked, others
<1>7. Starting'
  BY <1>1, Basics, NoHandIs DEF IInv, Starting, others
<1>8. ChildrenLeft'
  BY <1>1 DEF ChildrenLeft, Closed, Listening
<1>9. RequestsCounted'
  BY <1>1 DEF IInv, RequestsCounted, messages
<1>10. phase \notin Outside /\ phase' \notin Outside
  BY <1>1 DEF Listening, Outside
<1> QED BY <1>1, <1>2, <1>3, <1>4, <1>5, <1>6, <1>7, <1>8, <1>9, <1>10, OwnActs DEF others
LEMMA ChildRunsKeeps ==
  ASSUME IInv, NEW c \in Child, ChildRuns(c)
  PROVE  IInv'
<1>1. /\ hand.child = c /\ childPc[c] = "ready" /\ hand' = NoHand
      /\ phase' = phase
      /\ childPc' = [childPc EXCEPT ![c] = "run"]
      /\ UNCHANGED <<messages, flags, quitSema, childKind, guestPc, role>>
      /\ depth' = IF hand.kind = "wait" THEN depth + 1 ELSE depth
      /\ depth \in Nat
  BY Basics DEF ChildRuns, RunMessage
<1>2. /\ hand.kind \in AllKinds /\ c # NoTask /\ hand # NoHand
      /\ phase \in Listening \cup {"opening", "loop"}
      /\ hand.kind = "wait" => phase \in Listening /\ depth < MaxDepth
      /\ childPc \in [Child -> ChildPC]
      /\ ForHandshake = 1
  <2>1. hand # NoHand /\ c # NoTask
    BY <1>1, Basics, NoHandIs
  <2> QED BY <1>1, <2>1 DEF IInv, Starting, TypeOK, ForHandshake
<1>3. /\ childPc'[c] = "run" /\ \A d \in Child \ {c} : childPc'[d] = childPc[d]
      /\ childPc' \in [Child -> ChildPC]
  BY <1>1, <1>2 DEF ChildPC
<1>4. ForCommand' = 0 /\ ForChild' = 0 /\ ForHandshake' = 0
  BY <1>1, NoHandIs DEF ForCommand, ForChild, ForHandshake
<1>5. Leaves(windowSema, windowSema', Own, ForClosing + depth')
  <2>1. CASE hand.kind = "wait"
    <3>1. ForCommand = 1
      BY <1>2, <2>1 DEF ForCommand
    <3>2. windowSema' = windowSema /\ depth' = depth + 1
      BY <1>1, <2>1 DEF ChildRuns
    <3>3. windowSema.nest[Own] = ForClosing + depth'
      BY <3>1, <3>2, OwnHas
    <3> QED BY <3>2, <3>3, OwnHas, LeavesSame
  <2>2. CASE hand.kind # "wait" /\ hand.kind # "backfill" /\ phase \in Listening
    <3>1. ForCommand = 1
      BY <1>2, <2>2 DEF ForCommand, AllKinds
    <3>2. windowSema' = Drop(windowSema, Own) /\ depth' = depth
      BY <1>1, <2>2 DEF ChildRuns, EndWindowSema
    <3>3. windowSema.nest[Own] = ForClosing + depth + 1
      BY <3>1, OwnHas
    <3>4. /\ windowSema.nest[Own] > ForClosing
          /\ windowSema.nest[Own] - 1 = ForClosing + depth'
      BY <3>2, <3>3, OwnHas
    <3> QED BY <3>2, <3>4, OwnDrops
  <2>3. CASE hand.kind # "wait" /\ ~(hand.kind # "backfill" /\ phase \in Listening)
    <3>1. ForCommand = 0
      BY <2>3 DEF ForCommand
    <3>2. windowSema' = windowSema /\ depth' = depth
      BY <1>1, <2>3 DEF ChildRuns, EndWindowSema
    <3>3. windowSema.nest[Own] = ForClosing + depth'
      BY <3>1, <3>2, OwnHas
    <3> QED BY <3>2, <3>3, OwnHas, LeavesSame
  <2> QED BY <2>1, <2>2, <2>3
<1>6. Leaves(childSema, childSema', Own, ForClosing + depth')
  <2>0. childSema.nest[Own] = ForClosing + depth + ForChild + 1
    BY <1>2, OwnHas
  <2>1. /\ childSema.nest[Own] > ForClosing
        /\ childSema.nest[Own] - 1 = ForClosing + depth + ForChild
    BY <2>0, OwnHas
  <2>2. Leaves(childSema, Drop(childSema, Own), Own, ForClosing + depth + ForChild)
    BY <2>1, OwnDrops
  <2>3. CASE hand.kind = "wait"
    <3>1. ForChild = 1 /\ depth' = depth + 1
      BY <1>1, <2>3 DEF ForChild
    <3>2. childSema' = Drop(childSema, Own)
      BY <2>3 DEF ChildRuns
    <3>3. ForClosing + depth + ForChild = ForClosing + depth'
      BY <3>1, OwnHas
    <3> QED BY <2>2, <3>2, <3>3
  <2>4. CASE hand.kind = "backfill"
    <3> DEFINE once == Drop(childSema, Own)
    <3>1. /\ ForChild = 1 /\ depth' = depth
          /\ childSema' = Drop(once, Own)
      BY <1>1, <2>4 DEF ForChild, ChildRuns
    <3> HIDE DEF once
    <3>2. Leaves(childSema, once, Own, ForClosing + depth + 1)
      BY <2>2, <3>1 DEF once
    <3>3. /\ once \in SemaphoreType /\ Exclusive(once) /\ once.owner = childSema.owner
          /\ once.nest[Own] = ForClosing + depth + 1
          /\ \A t \in Task \ {Own} : once.nest[t] = childSema.nest[t]
      BY <3>2, OwnHas, LeavesFacts
    <3>4. /\ once.nest[Own] > 0 /\ (once.owner = Own => once.nest[Own] > 1)
          /\ once.nest[Own] - 1 = ForClosing + depth'
      BY <3>1, <3>3, OwnHas
    <3>5. Leaves(once, childSema', Own, ForClosing + depth')
      BY <3>1, <3>3, <3>4, OwnHas, LeavesOneLess
    <3> QED BY <3>2, <3>3, <3>5, OwnHas DEF Leaves, SemaphoreType
  <2>5. CASE hand.kind \notin {"wait", "backfill"}
    <3>1. ForChild = 0 /\ depth' = depth
      BY <1>1, <2>5 DEF ForChild
    <3>2. childSema' = Drop(childSema, Own)
      BY <2>5 DEF ChildRuns
    <3>3. ForClosing + depth + ForChild = ForClosing + depth'
      BY <3>1, OwnHas
    <3> QED BY <2>2, <3>2, <3>3
  <2> QED BY <2>3, <2>4, <2>5
<1>7. /\ ForClosing + depth' = ForClosing + depth' + ForCommand'
      /\ ForClosing + depth' = ForClosing + depth' + ForChild' + ForHandshake'
  <2>1. depth' \in Nat
    BY <1>1
  <2> QED BY <1>4, <2>1, OwnHas
<1>8. TypeOK'
  <2>1. windowSema' \in SemaphoreType /\ childSema' \in SemaphoreType
    BY <1>5, <1>6 DEF Leaves
  <2>2. depth' \in 0 .. MaxDepth
    BY <1>1, <1>2, Basics DEF IInv, TypeOK
  <2>3. hand' \in [kind : AllKinds \cup {"none"}, child : Child \cup {NoTask}]
    BY <1>1 DEF NoHand
  <2> QED BY <1>1, <1>3, <2>1, <2>2, <2>3 DEF IInv, TypeOK, messages, flags
<1>9. ClosingLocks'
  BY <1>1, <1>5, <1>6 DEF IInv, ClosingLocks, Locked, Leaves, flags
<1>10. Starting'
  <2>1. \A d \in Child : childPc'[d] \in {"new", "hello", "ready"} <=> hand'.child = d
    <3> TAKE d \in Child
    <3>1. childPc[d] \in {"new", "hello", "ready"} <=> hand.child = d
      BY DEF IInv, Starting
    <3> QED BY <1>1, <1>3, <3>1, Basics, NoHandIs
  <2> QED BY <1>1, <1>2, <2>1, NoHandIs DEF IInv, Starting
<1>11. ChildrenLeft'
  BY <1>1, <1>2 DEF ChildrenLeft, Closed, Listening
<1>12. RequestsCounted'
  BY <1>1 DEF IInv, RequestsCounted, messages
<1> QED BY <1>1, <1>3, <1>5, <1>6, <1>7, <1>8, <1>9, <1>10, <1>11, <1>12, OwnActs
-----------------------------------------------------------------------------
(***************************************************************************)
(* A child is to be started: a command obtains the window semaphore, a     *)
(* caller that waits or reads a picture the child semaphore.               *)
(***************************************************************************)
LEMMA Begins ==
  ASSUME IInv, NEW k \in AllKinds, hand = NoHand, Begin(k),
         UNCHANGED <<depth, requesters, unanswered, sent, closeWindow, winSemaLocked,
                     quitSema, others>>,
         phase' \in Listening \cup {"opening", "loop"},
         phase' = phase \/ (phase \in {"setup", "reading"} /\ phase' \notin Listening),
         k = "wait" => phase' \in Listening /\ depth < MaxDepth,
         IF k # "backfill" /\ phase' \in Listening
           THEN CanShared(windowSema, Own) /\ windowSema' = GrabShared(windowSema, Own)
           ELSE windowSema' = windowSema,
         IF k \in {"wait", "backfill"}
           THEN CanShared(childSema, Own) /\ childSema' = GrabShared(childSema, Own)
           ELSE childSema' = childSema,
         port' \in Seq(Messages), taken' \in Seq(Messages),
         Waiting(port') + Waiting(taken') <= unanswered,
         outstanding' \in 0 .. ULongs - 1, asyncLayout' \in BOOLEAN
  PROVE  IInv'
<1>1. /\ hand'.kind = k /\ hand'.child = NoTask
      /\ hand' \in [kind : AllKinds \cup {"none"}, child : Child \cup {NoTask}]
      /\ depth' = depth /\ childPc' = childPc /\ role' = role
      /\ k # "none"
  BY DEF Begin, others, AllKinds
<1>2. ForCommand = 0 /\ ForChild = 0 /\ ForHandshake = 0 /\ ForHandshake' = 0
  BY <1>1, NoHandIs DEF ForCommand, ForChild, ForHandshake
<1>3. Leaves(windowSema, windowSema', Own, ForClosing + depth' + ForCommand')
  <2>1. windowSema.nest[Own] = ForClosing + depth
    BY <1>2, OwnHas
  <2>2. CASE k # "backfill" /\ phase' \in Listening
    <3>1. ForCommand' = 1
      BY <1>1, <2>2 DEF ForCommand, AllKinds
    <3>2. windowSema.nest[Own] + 1 = ForClosing + depth' + ForCommand'
      BY <1>1, <2>1, <3>1, OwnHas
    <3> QED BY <2>2, <3>2, OwnHas, LeavesOneMore
  <2>3. CASE ~(k # "backfill" /\ phase' \in Listening)
    <3>1. ForCommand' = 0
      BY <1>1, <2>3 DEF ForCommand
    <3>2. windowSema.nest[Own] = ForClosing + depth' + ForCommand'
      BY <1>1, <2>1, <3>1, OwnHas
    <3> QED BY <2>3, <3>2, OwnHas, LeavesSame
  <2> QED BY <2>2, <2>3
<1>4. Leaves(childSema, childSema', Own, ForClosing + depth' + ForChild' + ForHandshake')
  <2>1. childSema.nest[Own] = ForClosing + depth
    BY <1>2, OwnHas
  <2>2. CASE k \in {"wait", "backfill"}
    <3>1. ForChild' = 1
      BY <1>1, <2>2 DEF ForChild
    <3>2. childSema.nest[Own] + 1 = ForClosing + depth' + ForChild' + ForHandshake'
      BY <1>1, <1>2, <2>1, <3>1, OwnHas
    <3> QED BY <2>2, <3>2, OwnHas, LeavesOneMore
  <2>3. CASE k \notin {"wait", "backfill"}
    <3>1. ForChild' = 0
      BY <1>1, <2>3 DEF ForChild
    <3>2. childSema.nest[Own] = ForClosing + depth' + ForChild' + ForHandshake'
      BY <1>1, <1>2, <2>1, <3>1, OwnHas
    <3> QED BY <2>3, <3>2, OwnHas, LeavesSame
  <2> QED BY <2>2, <2>3
<1>5. /\ windowSema' \in SemaphoreType /\ windowSema'.owner = windowSema.owner
      /\ childSema' \in SemaphoreType /\ childSema'.owner = childSema.owner
  BY <1>3, <1>4 DEF Leaves
<1>6. TypeOK'
  <2>1. phase' \in Phase
    BY DEF Phase, Listed
  <2> QED BY <1>1, <1>5, <2>1 DEF IInv, TypeOK, others
<1>7. ClosingLocks'
  <2>1. phase' \notin Ending
    BY DEF Ending, Listening
  <2>2. CASE phase' = phase
    BY <1>1, <1>5, <2>1, <2>2 DEF IInv, ClosingLocks, Locked
  <2>3. CASE phase \in {"setup", "reading"} /\ phase' \notin Listening
    BY <1>5, <2>1, <2>3 DEF IInv, ClosingLocks, Locked, Deciding, Ending, Listening
  <2> QED BY <2>2, <2>3
<1>8. Starting'
  <2>1. \A c \in Child : childPc[c] \notin {"new", "hello", "ready"} /\ c # NoTask
    BY Basics, NoHandIs DEF IInv, Starting
  <2>2. depth > 0 => phase' = phase
    BY DEF IInv, Starting, Listening
  <2> QED BY <1>1, <2>1, <2>2 DEF IInv, Starting
<1>9. ChildrenLeft' /\ phase \notin Outside /\ phase' \notin Outside
  BY DEF ChildrenLeft, Closed, Listening, Outside
<1>10. RequestsCounted'
  BY DEF RequestsCounted
<1> QED BY <1>1, <1>3, <1>4, <1>6, <1>7, <1>8, <1>9, <1>10, OwnActs DEF others

LEMMA MenuKeeps ==
  ASSUME IInv, MenuWait \/ \E k \in AllKinds : MenuStart(k)
  PROVE  IInv'
<1>1. /\ Got("RunMenuCmd") /\ Consume /\ hand = NoHand /\ phase \in Listening
      /\ CanShared(windowSema, Own) /\ windowSema' = GrabShared(windowSema, Own)
      /\ phase' = phase
      /\ UNCHANGED <<depth, requesters, unanswered, sent, closeWindow, winSemaLocked,
                     quitSema, others>>
      /\ asyncLayout' = asyncLayout
  BY DEF MenuWait, MenuStart, Got, flags
<1>2. /\ port' \in Seq(Messages) /\ taken' \in Seq(Messages)
      /\ Waiting(port') + Waiting(taken') <= unanswered
  <2>1. unanswered - Request("RunMenuCmd") = unanswered
    BY DEF Request, IInv, TypeOK
  <2> QED BY <1>1, <2>1, Consumed
<1>3. outstanding \in 0 .. ULongs - 1 /\ asyncLayout \in BOOLEAN
  BY DEF IInv, TypeOK
<1>4. CASE MenuWait
  <2>1. outstanding' \in 0 .. ULongs - 1
    BY <1>3, <1>4, Wraps DEF MenuWait
  <2>2. /\ Begin("wait") /\ "wait" \in AllKinds /\ depth < MaxDepth
        /\ CanShared(childSema, Own) /\ childSema' = GrabShared(childSema, Own)
    BY <1>4 DEF MenuWait, AllKinds
  <2> QED BY <1>1, <1>2, <1>3, <2>1, <2>2, Begins
<1>5. ASSUME NEW k \in AllKinds, MenuStart(k)
      PROVE  IInv'
  <2>1. /\ Begin(k) /\ k \in {"alone", "thumb"}
        /\ childSema' = childSema /\ outstanding' = outstanding
    BY <1>5 DEF MenuStart, flags
  <2> QED BY <1>1, <1>2, <1>3, <2>1, Begins
<1> QED BY <1>4, <1>5

LEMMA ReadPictureKeeps ==
  ASSUME IInv, NewPatternRead \/ SetupRead \/ ReadDoneThumbnails
  PROVE  IInv'
<1>1. /\ outstanding \in 0 .. ULongs - 1 /\ asyncLayout \in BOOLEAN
      /\ port \in Seq(Messages) /\ taken \in Seq(Messages)
      /\ Waiting(port) + Waiting(taken) <= unanswered
  BY DEF IInv, TypeOK, RequestsCounted
<1>2. "backfill" \in AllKinds /\ "thumb" \in AllKinds
  BY DEF AllKinds
<1>3. CASE NewPatternRead
  <2>1. /\ port' \in Seq(Messages) /\ taken' \in Seq(Messages)
        /\ Waiting(port') + Waiting(taken') <= unanswered
    <3>1. unanswered - Request("NewPattern") = unanswered
      BY DEF Request, IInv, TypeOK
    <3> QED BY <1>3, <3>1, Consumed DEF NewPatternRead
  <2> QED BY <1>1, <1>2, <1>3, <2>1, Begins DEF NewPatternRead, ReadPicture, Got
<1>4. CASE SetupRead
  BY <1>1, <1>2, <1>4, Begins DEF SetupRead, ReadPicture, At, messages, Listening
<1>5. CASE ReadDoneThumbnails
  BY <1>1, <1>2, <1>5, Begins DEF ReadDoneThumbnails, At, messages, flags, semas, Listening
<1> QED BY <1>3, <1>4, <1>5
-----------------------------------------------------------------------------
(***************************************************************************)
(* Both semaphores are locked for closing, or released again.              *)
(***************************************************************************)
Turns(s, r, owner) ==
  /\ r \in SemaphoreType /\ Exclusive(r)
  /\ r.owner = owner
  /\ r.nest[Own] = IF owner = Own THEN 1 ELSE 0
  /\ \A t \in Task \ {Own} : r.nest[t] = s.nest[t]

LEMMA Locks ==
  ASSUME NEW s \in SemaphoreType, Exclusive(s), s.nest[Own] = 0, CanExclusive(s, Own)
  PROVE  Turns(s, GrabExclusive(s, Own), Own)
<1>1. Own \in Task /\ Own # NoTask
  BY ProcessAssumption, NoTaskAssumption
<1>2. GrabExclusive(s, Own).nest[Own] = 0 + 1
  BY <1>1, GrabExclusiveFacts
<1>3. \A t \in Task \ {Own} : GrabExclusive(s, Own).nest[t] = s.nest[t]
  BY <1>1 DEF GrabExclusive, OneMore, SemaphoreType
<1> QED BY <1>1, <1>2, <1>3, GrabExclusiveFacts DEF Turns

LEMMA Unlocks ==
  ASSUME NEW s \in SemaphoreType, Exclusive(s), s.nest[Own] = 1
  PROVE  Turns(s, Drop(s, Own), NoTask)
<1>1. Own \in Task /\ Own # NoTask
  BY ProcessAssumption, NoTaskAssumption
<1>2. Drop(s, Own).nest[Own] = 0
  BY <1>1 DEF Drop, SemaphoreType
<1>3. \A t \in Task \ {Own} : Drop(s, Own).nest[t] = s.nest[t]
  BY <1>1 DEF Drop, SemaphoreType
<1>4. Holds(s, Own)
  BY DEF Holds
<1> QED BY <1>1, <1>2, <1>3, <1>4, DropFacts DEF Turns

LEMMA Switches ==
  ASSUME IInv, NEW p, NEW q \in Phase, NEW owner \in {NoTask, Own},
         At(p), Goto(q), p \notin Outside, q \notin Outside,
         Turns(windowSema, windowSema', owner), Turns(childSema, childSema', owner),
         UNCHANGED <<requesters, unanswered, sent, asyncLayout, quitSema, others>>,
         closeWindow' \in BOOLEAN, winSemaLocked' \in BOOLEAN,
         outstanding' \in 0 .. ULongs - 1,
         port' \in Seq(Messages), taken' \in Seq(Messages),
         Waiting(port') + Waiting(taken') <= unanswered,
         owner = Own => q \in {"quitting", "draining"} /\ winSemaLocked',
         owner = NoTask => q \notin Deciding,
         q = "quitting" => role = "main",
         owner = Own /\ q = "draining" => ~asyncLayout,
         ChildrenLeft'
  PROVE  IInv'
<1>1. /\ phase = p /\ phase' = q /\ hand = NoHand /\ hand' = hand
      /\ depth = 0 /\ depth' = depth /\ quitSema' = quitSema
      /\ childPc' = childPc /\ childKind' = childKind /\ guestPc' = guestPc
      /\ role' = role
  BY DEF At, Goto, others
<1>2. /\ Own \in Task /\ Own # NoTask /\ \A c \in Child : c \in Task \ {Own}
      /\ \A g \in Guest : g \in Task \ {Own}
  BY Basics, ProcessAssumption
<1>3. TypeOK' /\ Excluded'
  BY <1>1 DEF IInv, TypeOK, Excluded, Turns
<1>4. ClosingLocks'
  BY <1>1, <1>2 DEF ClosingLocks, Locked, Turns, Ending, Deciding
<1>5. OwnLocks'
  <2>1. ForCommand' = 0 /\ ForChild' = 0 /\ ForHandshake' = 0 /\ depth' = 0
    BY <1>1, NoHandIs DEF ForCommand, ForChild, ForHandshake
  <2>2. ForClosing' = IF owner = Own THEN 1 ELSE 0
    BY DEF ForClosing, Locked, Turns
  <2>3. windowSema'.nest[Own] = ForClosing' /\ childSema'.nest[Own] = ForClosing'
    BY <2>2 DEF Turns
  <2>4. /\ ForClosing' + depth' + ForCommand' = ForClosing'
        /\ ForClosing' + depth' + ForChild' + ForHandshake' = ForClosing'
    BY <2>1, <2>2
  <2>5. quitSema'.nest[Own] = IF phase' \in Outside THEN 0 ELSE 1
    BY <1>1 DEF OwnLocks, IInv
  <2> QED BY <2>3, <2>4, <2>5 DEF OwnLocks
<1>6. OtherLocks'
  BY <1>1, <1>2 DEF IInv, OtherLocks, Turns
<1>7. Starting'
  BY <1>1, NoHandIs DEF IInv, Starting
<1>8. RequestsCounted'
  BY DEF RequestsCounted
<1> QED BY <1>3, <1>4, <1>5, <1>6, <1>7, <1>8 DEF IInv

(***************************************************************************)
(* An answer ends the innermost WaitReply, or the requester about quitting.*)
(***************************************************************************)
LEMMA AtRest ==
  ASSUME IInv, hand = NoHand, depth = 0
  PROVE  /\ windowSema.nest[Own] = ForClosing /\ childSema.nest[Own] = ForClosing
         /\ phase \in Deciding => windowSema.nest[Own] = 1 /\ childSema.nest[Own] = 1
         /\ ~Locked => windowSema.nest[Own] = 0 /\ childSema.nest[Own] = 0
<1>1. ForCommand = 0 /\ ForChild = 0 /\ ForHandshake = 0
  BY NoHandIs DEF ForCommand, ForChild, ForHandshake
<1>2. windowSema.nest[Own] = ForClosing /\ childSema.nest[Own] = ForClosing
  BY <1>1, OwnHas
<1>3. phase \in Deciding => Locked
  BY DEF IInv, ClosingLocks
<1> QED BY <1>2, <1>3 DEF ForClosing

LEMMA RunReplyKeeps ==
  ASSUME IInv, RunReply
  PROVE  IInv'
<1>1. /\ Got("RunReply") /\ Consume /\ hand = NoHand /\ phase \in Listening
      /\ UNCHANGED <<phase, hand, requesters, unanswered, sent, closeWindow,
                     asyncLayout, winSemaLocked, quitSema, others>>
      /\ depth \in 0 .. MaxDepth /\ MaxDepth \in Nat
  BY Basics DEF RunReply, Got, IInv, TypeOK
<1>2. /\ port' \in Seq(Messages) /\ taken' \in Seq(Messages)
      /\ Waiting(port') + Waiting(taken') <= unanswered
      /\ requesters \in Nat /\ sent \in 0 .. MaxMsgs /\ unanswered \in Nat
      /\ closeWindow \in BOOLEAN /\ asyncLayout \in BOOLEAN
  <2>1. unanswered - Request("RunReply") = unanswered
    BY DEF Request, IInv, TypeOK
  <2> QED BY <1>1, <2>1, Consumed DEF IInv, TypeOK
<1>3. outstanding' \in 0 .. ULongs - 1
  BY Wraps DEF RunReply, IInv, TypeOK
<1>4. CASE depth > 0
  <2>1. /\ depth' = depth - 1 /\ UnlockBoth
    BY <1>4 DEF RunReply
  <2>2. /\ ForCommand = 0 /\ ForChild = 0 /\ ForHandshake = 0
        /\ ForCommand' = 0 /\ ForChild' = 0 /\ ForHandshake' = 0
    BY <1>1, NoHandIs DEF ForCommand, ForChild, ForHandshake
  <2>3. /\ windowSema.nest[Own] > ForClosing /\ childSema.nest[Own] > ForClosing
        /\ windowSema.nest[Own] - 1 = ForClosing + depth' + ForCommand'
        /\ childSema.nest[Own] - 1 = ForClosing + depth' + ForChild' + ForHandshake'
    BY <1>1, <1>4, <2>1, <2>2, OwnHas
  <2>4. /\ Leaves(windowSema, windowSema', Own, ForClosing + depth' + ForCommand')
        /\ Leaves(childSema, childSema', Own, ForClosing + depth' + ForChild' + ForHandshake')
    BY <2>1, <2>3, OwnDrops DEF UnlockBoth
  <2>5. TypeOK'
    BY <1>1, <1>2, <1>3, <1>4, <2>1, <2>4 DEF IInv, TypeOK, Leaves, others
  <2>6. ClosingLocks' /\ ChildrenLeft'
    BY <1>1, <2>4 DEF IInv, ClosingLocks, Locked, Leaves, others, ChildrenLeft
  <2>7. Starting'
    BY <1>1, <1>4, <2>1, NoHandIs DEF IInv, Starting, others
  <2>8. RequestsCounted'
    BY <1>1, <1>2 DEF RequestsCounted
  <2> QED BY <1>1, <2>4, <2>5, <2>6, <2>7, <2>8, OwnActs DEF others
<1>5. CASE ~(depth > 0)
  <2>1. UNCHANGED <<control, semas>>
    BY <1>1, <1>5 DEF RunReply, control, semas
  <2> QED BY <1>1, <1>2, <1>3, <2>1, Stays
<1> QED BY <1>4, <1>5

LEMMA ReqReplyKeeps ==
  ASSUME IInv, NEW m \in {"ReqYes", "ReqNo"}, ReqReply(m)
  PROVE  IInv'
<1>1. /\ Got(m) /\ Consume /\ hand = NoHand
      /\ UNCHANGED <<requesters, unanswered, sent, asyncLayout, quitSema, others>>
      /\ outstanding' = CountDown(outstanding)
  BY DEF ReqReply, Got
<1>2. /\ port' \in Seq(Messages) /\ taken' \in Seq(Messages)
      /\ Waiting(port') + Waiting(taken') <= unanswered
      /\ requesters \in Nat /\ sent \in 0 .. MaxMsgs /\ unanswered \in Nat
      /\ closeWindow \in BOOLEAN /\ asyncLayout \in BOOLEAN /\ winSemaLocked \in BOOLEAN
      /\ outstanding \in 0 .. ULongs - 1
  <2>1. unanswered - Request(m) = unanswered
    BY DEF Request, IInv, TypeOK
  <2> QED BY <1>1, <2>1, Consumed DEF IInv, TypeOK
<1>3. outstanding' \in 0 .. ULongs - 1
  BY <1>1, <1>2, Wraps
<1>4. CASE phase = "waitreq" /\ depth = 0
  <2>1. /\ At("waitreq") /\ phase \in Deciding /\ Own # NoTask
        /\ "loop" \in Phase /\ "quitting" \in Phase
    BY <1>1, <1>4, Basics DEF At, Deciding, Phase, Listed
  <2>2. /\ windowSema.nest[Own] = 1 /\ childSema.nest[Own] = 1
        /\ windowSema \in SemaphoreType /\ childSema \in SemaphoreType
        /\ Exclusive(windowSema) /\ Exclusive(childSema)
        /\ windowSema.owner = Own /\ childSema.owner = Own
        /\ role = "main" /\ winSemaLocked
    BY <1>1, <1>4, <2>1, AtRest, Basics DEF IInv, ClosingLocks, Locked
  <2>3. CASE m = "ReqNo"
    <3>1. /\ UnlockBoth /\ winSemaLocked' = FALSE /\ closeWindow' = FALSE /\ Goto("loop")
      BY <1>4, <2>3 DEF ReqReply
    <3>2. Turns(windowSema, windowSema', NoTask) /\ Turns(childSema, childSema', NoTask)
      BY <2>2, <3>1, Unlocks DEF UnlockBoth
    <3>3. ChildrenLeft'
      BY <3>1 DEF ChildrenLeft, Closed, Goto
    <3>4. "loop" \notin Deciding
      BY DEF Deciding
    <3> QED BY <1>1, <1>2, <1>3, <2>1, <3>1, <3>2, <3>3, <3>4, Switches DEF Outside
  <2>4. CASE m = "ReqYes"
    <3>1. /\ UNCHANGED <<childSema, windowSema, winSemaLocked, closeWindow>>
          /\ Goto("quitting")
      BY <1>4, <2>4 DEF ReqReply
    <3>2. Turns(windowSema, windowSema', Own) /\ Turns(childSema, childSema', Own)
      BY <2>2, <3>1 DEF Turns
    <3>3. ChildrenLeft'
      BY <3>1 DEF ChildrenLeft, Closed, Goto
    <3> QED BY <1>1, <1>2, <1>3, <2>1, <2>2, <3>1, <3>2, <3>3, Switches DEF Outside
  <2> QED BY <2>3, <2>4
<1>5. CASE ~(phase = "waitreq" /\ depth = 0)
  <2>1. /\ UNCHANGED <<control, winSemaLocked, semas, others>>
        /\ closeWindow' = closeWindow
    BY <1>1, <1>5 DEF ReqReply, semas
  <2> QED BY <1>1, <1>2, <1>3, <2>1, Stays
<1> QED BY <1>4, <1>5
-----------------------------------------------------------------------------
(***************************************************************************)
(* The messages stay as they are while the window closes.                  *)
(***************************************************************************)
LEMMA MessagesStay ==
  ASSUME IInv, UNCHANGED <<messages, outstanding, closeWindow>>
  PROVE  /\ UNCHANGED <<requesters, unanswered, sent>>
         /\ port' \in Seq(Messages) /\ taken' \in Seq(Messages)
         /\ Waiting(port') + Waiting(taken') <= unanswered
         /\ outstanding' \in 0 .. ULongs - 1 /\ closeWindow' \in BOOLEAN
         /\ requesters' \in Nat
BY DEF IInv, TypeOK, RequestsCounted, messages

(***************************************************************************)
(* The window owns nothing yet when it tries to close.                     *)
(***************************************************************************)
LEMMA BothLocked ==
  ASSUME IInv, At("closing"), CanLockBoth, LockBoth
  PROVE  Turns(windowSema, windowSema', Own) /\ Turns(childSema, childSema', Own)
<1>1. ~Locked /\ hand = NoHand /\ depth = 0
  BY DEF At, IInv, ClosingLocks, Deciding, Ending
<1>2. windowSema.nest[Own] = 0 /\ childSema.nest[Own] = 0
  BY <1>1, AtRest
<1> QED BY <1>2, Basics, Locks DEF CanLockBoth, LockBoth

LEMMA CloseLockedSteps ==
  ASSUME IInv, CloseLocked
  PROVE  IInv'
<1>1. /\ At("closing") /\ CanLockBoth /\ winSemaLocked' = TRUE
      /\ Goto(IF Pending THEN "loop" ELSE "draining")
      /\ UNCHANGED <<messages, closeWindow, outstanding, asyncLayout, quitSema, others>>
      /\ "loop" \in Phase /\ "draining" \in Phase
  BY DEF CloseLocked, Phase, Listed
<1>2. ~Locked
  BY <1>1 DEF At, IInv, ClosingLocks, Deciding, Ending
<1>3. ChildrenLeft'
  BY <1>1 DEF ChildrenLeft, Closed, Goto
<1>4. CASE Pending
  <2>1. UNCHANGED <<windowSema, childSema>> /\ Goto("loop")
    BY <1>1, <1>4 DEF CloseLocked
  <2>2. ClosingLocks'
    <3>1. /\ childSema.owner = windowSema.owner
          /\ windowSema.owner \in {NoTask, Own}
      BY DEF IInv, ClosingLocks
    <3> QED BY <1>2, <2>1, <3>1 DEF ClosingLocks, Locked, Goto, Deciding, Ending
  <2>3. UNCHANGED semas
    BY <1>1, <2>1 DEF semas
  <2> QED BY <1>1, <1>3, <2>1, <2>2, <2>3, MessagesStay, Walks DEF Outside
<1>5. CASE ~Pending
  <2>1. LockBoth /\ Goto("draining") /\ ~asyncLayout
    BY <1>1, <1>5 DEF CloseLocked, Pending
  <2>2. Turns(windowSema, windowSema', Own) /\ Turns(childSema, childSema', Own)
    BY <1>1, <2>1, BothLocked
  <2> QED BY <1>1, <1>3, <2>1, <2>2, MessagesStay, Basics, Switches DEF Outside
<1> QED BY <1>4, <1>5

LEMMA QuitLockedKeeps ==
  ASSUME IInv, QuitLocked
  PROVE  IInv'
<1>1. /\ At("closing") /\ CanLockBoth /\ LockBoth /\ winSemaLocked' = TRUE
      /\ Goto("quitting") /\ role = "main"
      /\ UNCHANGED <<messages, closeWindow, outstanding, asyncLayout, quitSema, others>>
      /\ "quitting" \in Phase
  BY DEF QuitLocked, Phase, Listed
<1>2. ChildrenLeft'
  BY <1>1 DEF ChildrenLeft, Closed, Goto
<1>3. Turns(windowSema, windowSema', Own) /\ Turns(childSema, childSema', Own)
  BY <1>1, BothLocked
<1> QED BY <1>1, <1>2, <1>3, MessagesStay, Basics, Switches DEF Outside

LEMMA QuitDecidedKeeps ==
  ASSUME IInv, QuitDecided
  PROVE  IInv'
<1>1. /\ At("quitting") /\ UNCHANGED <<messages, flags, quitSema, others>>
      /\ hand = NoHand /\ depth = 0
      /\ "loop" \in Phase /\ "draining" \in Phase
      /\ phase \in Deciding /\ "loop" \notin Deciding /\ "draining" \notin Deciding
      /\ Own # NoTask
  BY Basics DEF QuitDecided, Phase, Listed, Deciding, At
<1>2. /\ windowSema.nest[Own] = 1 /\ childSema.nest[Own] = 1
      /\ windowSema \in SemaphoreType /\ childSema \in SemaphoreType
      /\ Exclusive(windowSema) /\ Exclusive(childSema)
      /\ windowSema.owner = Own /\ childSema.owner = Own
      /\ winSemaLocked
  BY <1>1, AtRest, Basics DEF IInv, ClosingLocks, Locked
<1>3. /\ UNCHANGED <<outstanding, closeWindow, asyncLayout, winSemaLocked>>
      /\ winSemaLocked' \in BOOLEAN
  BY <1>1 DEF flags, IInv, TypeOK
<1>4. CASE Pending
  <2>1. UnlockBoth /\ Goto("loop")
    BY <1>4 DEF QuitDecided
  <2>2. Turns(windowSema, windowSema', NoTask) /\ Turns(childSema, childSema', NoTask)
    BY <1>2, <2>1, Unlocks DEF UnlockBoth
  <2>3. ChildrenLeft'
    BY <2>1 DEF ChildrenLeft, Closed, Goto
  <2> QED BY <1>1, <1>3, <2>1, <2>2, <2>3, MessagesStay, Switches DEF Outside
<1>5. CASE ~Pending
  <2>1. UNCHANGED <<windowSema, childSema>> /\ Goto("draining") /\ ~asyncLayout
    BY <1>5 DEF QuitDecided, Pending
  <2>2. Turns(windowSema, windowSema', Own) /\ Turns(childSema, childSema', Own)
    BY <1>2, <2>1 DEF Turns
  <2>3. ChildrenLeft'
    BY <2>1 DEF ChildrenLeft, Closed, Goto
  <2> QED BY <1>1, <1>2, <1>3, <2>1, <2>2, <2>3, MessagesStay, Switches DEF Outside
<1> QED BY <1>4, <1>5

(***************************************************************************)
(* The clean-up releases both semaphores if it has them.                   *)
(***************************************************************************)
LEMMA ReleaseBothKeeps ==
  ASSUME IInv, ReleaseBoth
  PROVE  IInv'
<1>1. /\ At("finish") /\ UNCHANGED <<messages, flags, quitSema, others>>
      /\ hand = NoHand /\ depth = 0 /\ phase = "finish"
      /\ "dispose" \in Phase /\ "alert" \in Phase
      /\ "dispose" \notin Deciding
  BY DEF ReleaseBoth, Phase, Closed, Deciding, At
<1>2. /\ UNCHANGED <<outstanding, closeWindow, asyncLayout, winSemaLocked>>
      /\ winSemaLocked' \in BOOLEAN /\ childPc' = childPc /\ role' = role
  BY <1>1 DEF flags, others, IInv, TypeOK
<1>3. ChildrenLeft'
  BY <1>1, <1>2 DEF IInv, ChildrenLeft, Closed
<1>4. /\ windowSema.nest[Own] = ForClosing /\ childSema.nest[Own] = ForClosing
      /\ windowSema \in SemaphoreType /\ childSema \in SemaphoreType
      /\ Exclusive(windowSema) /\ Exclusive(childSema)
      /\ ForClosing = IF Locked THEN 1 ELSE 0
  BY <1>1, AtRest, Basics DEF ForClosing
<1>5. /\ childSema.owner = windowSema.owner /\ windowSema.owner \in {NoTask, Own}
      /\ Locked => winSemaLocked
  BY <1>1 DEF IInv, ClosingLocks, Ending
<1>6. CASE ~winSemaLocked \/ ~(Holds(windowSema, Own) /\ Holds(childSema, Own))
  <2>1. UNCHANGED <<windowSema, childSema>>
    BY <1>6 DEF ReleaseBoth
  <2>2. PICK q \in {"dispose", "alert"} : Goto(q)
    BY <1>6 DEF ReleaseBoth
  <2>3. ~Locked
    BY <1>4, <1>5, <1>6 DEF Holds
  <2>4. ClosingLocks'
    BY <1>5, <2>1, <2>2, <2>3 DEF ClosingLocks, Locked, Goto, Deciding, Ending
  <2>5. UNCHANGED semas
    BY <1>1, <2>1 DEF semas
  <2> QED BY <1>1, <1>2, <1>3, <2>2, <2>4, <2>5, MessagesStay, Walks DEF Outside
<1>7. CASE winSemaLocked /\ Holds(windowSema, Own) /\ Holds(childSema, Own)
  <2>1. UnlockBoth /\ Goto("dispose")
    BY <1>7 DEF ReleaseBoth
  <2>2. windowSema.nest[Own] = 1 /\ childSema.nest[Own] = 1
    BY <1>4, <1>7 DEF Holds
  <2>3. Turns(windowSema, windowSema', NoTask) /\ Turns(childSema, childSema', NoTask)
    BY <1>4, <2>1, <2>2, Unlocks DEF UnlockBoth
  <2> QED BY <1>1, <1>2, <1>3, <2>1, <2>3, MessagesStay, Basics, Switches DEF Outside
<1> QED BY <1>6, <1>7

LEMMA ObtainQuitKeeps ==
  ASSUME IInv, ObtainQuit
  PROVE  IInv'
<1>1. /\ phase = "created" /\ phase' = "setup" /\ hand = NoHand /\ depth = 0
      /\ hand' = hand /\ depth' = depth
      /\ quitSema' = GrabShared(quitSema, Own)
      /\ UNCHANGED <<messages, flags, windowSema, childSema>>
      /\ childPc' = childPc /\ childKind' = childKind /\ guestPc' = guestPc
      /\ role' = role
  BY DEF ObtainQuit, At, Goto, others
<1>2. quitSema.nest[Own] = 0 /\ quitSema.owner = NoTask
  BY <1>1 DEF IInv, OwnLocks, OtherLocks, Outside
<1>3. Leaves(quitSema, quitSema', Own, 0 + 1)
  BY <1>1, <1>2, Basics, LeavesOneMore DEF CanShared
<1>4. /\ Own \in Task /\ Own # NoTask /\ \A c \in Child : c \in Task \ {Own}
  BY Basics
<1>5. quitSema' \in SemaphoreType /\ Exclusive(quitSema') /\ quitSema'.owner = NoTask
      /\ quitSema'.nest[Own] = 1
      /\ \A t \in Task \ {Own} : quitSema'.nest[t] = quitSema.nest[t]
  <2>1. quitSema \in SemaphoreType /\ Exclusive(quitSema)
    BY Basics
  <2>2. quitSema' \in SemaphoreType /\ Exclusive(quitSema')
    BY <1>3, <1>4, <2>1, LeavesFacts
  <2>3. quitSema'.nest[Own] = 1
    BY <1>3, <1>4, <2>1, LeavesFacts
  <2>4. /\ quitSema'.owner = NoTask
        /\ \A t \in Task \ {Own} : quitSema'.nest[t] = quitSema.nest[t]
    BY <1>2, <1>3, <1>4, <2>1, LeavesFacts
  <2> QED BY <2>2, <2>3, <2>4
<1>6. TypeOK'
  BY <1>1, <1>5 DEF IInv, TypeOK, Phase, Closed, messages, flags
<1>7. Excluded'
  BY <1>1, <1>5 DEF IInv, Excluded
<1>8. ClosingLocks'
  BY <1>1 DEF IInv, ClosingLocks, Locked, Deciding, Ending
<1>9. OwnLocks'
  BY <1>1, <1>5, NoHandIs
  DEF IInv, OwnLocks, Outside, ForClosing, Locked, ForCommand, ForChild, ForHandshake
<1>10. OtherLocks'
  BY <1>1, <1>4, <1>5 DEF IInv, OtherLocks
<1>11. Starting'
  BY <1>1, NoHandIs DEF IInv, Starting
<1>12. ChildrenLeft'
  BY <1>1 DEF IInv, ChildrenLeft, Closed
<1>13. RequestsCounted'
  BY <1>1 DEF IInv, RequestsCounted, messages
<1> QED BY <1>6, <1>7, <1>8, <1>9, <1>10, <1>11, <1>12, <1>13 DEF IInv

LEMMA ReleaseQuitKeeps ==
  ASSUME IInv, ReleaseQuit
  PROVE  IInv'
<1>1. /\ phase = "freed" /\ phase' = "gone" /\ hand = NoHand /\ depth = 0
      /\ hand' = hand /\ depth' = depth
      /\ quitSema' = Drop(quitSema, Own)
      /\ UNCHANGED <<messages, flags, windowSema, childSema>>
      /\ childPc' = childPc /\ childKind' = childKind /\ guestPc' = guestPc
      /\ role' = role
  BY DEF ReleaseQuit, At, Goto, others
<1>2. quitSema.nest[Own] = 1 /\ quitSema.owner = NoTask
  BY <1>1 DEF IInv, OwnLocks, OtherLocks, Outside
<1>3. Turns(quitSema, quitSema', NoTask)
  BY <1>1, <1>2, Basics, Unlocks
<1>4. /\ Own \in Task /\ Own # NoTask /\ \A c \in Child : c \in Task \ {Own}
  BY Basics
<1>5. quitSema' \in SemaphoreType /\ Exclusive(quitSema') /\ quitSema'.owner = NoTask
      /\ quitSema'.nest[Own] = 0
      /\ \A t \in Task \ {Own} : quitSema'.nest[t] = quitSema.nest[t]
  BY <1>3, <1>4 DEF Turns
<1>6. TypeOK'
  BY <1>1, <1>5 DEF IInv, TypeOK, Phase, Closed, messages, flags
<1>7. Excluded'
  BY <1>1, <1>5 DEF IInv, Excluded
<1>8. ClosingLocks'
  BY <1>1 DEF IInv, ClosingLocks, Locked, Deciding, Ending
<1>9. OwnLocks'
  BY <1>1, <1>5, NoHandIs
  DEF IInv, OwnLocks, Outside, ForClosing, Locked, ForCommand, ForChild, ForHandshake
<1>10. OtherLocks'
  BY <1>1, <1>4, <1>5 DEF IInv, OtherLocks
<1>11. Starting'
  BY <1>1, NoHandIs DEF IInv, Starting
<1>12. ChildrenLeft'
  BY <1>1 DEF IInv, ChildrenLeft, Closed
<1>13. RequestsCounted'
  BY <1>1 DEF IInv, RequestsCounted, messages
<1> QED BY <1>6, <1>7, <1>8, <1>9, <1>10, <1>11, <1>12, <1>13 DEF IInv
-----------------------------------------------------------------------------
(***************************************************************************)
(* Every step of every process.                                            *)
(***************************************************************************)
LEMMA NextKeeps == IInv /\ [Next]_vars => IInv'
<1> SUFFICES ASSUME IInv, [Next]_vars
             PROVE  IInv'
  OBVIOUS
<1>1. CASE OwnStep
  <2>1. CASE \E c \in Child : CreateChild(c) \/ ChildRuns(c)
    BY <2>1, CreateChildKeeps, ChildRunsKeeps
  <2>2. CASE CreateFails
    BY <2>2, CreateFailsKeeps
  <2>3. CASE HandleMessage
    <3>1. CASE CloseGadget
      BY <3>1, CloseGadgetKeeps
    <3>2. CASE CloseWindowMsg \/ MenuNoChild \/ NewPatternDone \/ AsyncReplyMsg
      BY <3>2, HandledKeeps
    <3>3. CASE MenuWait \/ \E k \in AllKinds : MenuStart(k)
      BY <3>3, MenuKeeps
    <3>4. CASE NewPatternRead
      BY <3>4, ReadPictureKeeps
    <3>5. CASE RunReply
      BY <3>5, RunReplyKeeps
    <3>6. CASE ReqReply("ReqYes") \/ ReqReply("ReqNo")
      BY <3>6, ReqReplyKeeps
    <3> QED BY <2>3, <3>1, <3>2, <3>3, <3>4, <3>5, <3>6 DEF HandleMessage
  <2>4. CASE SetupRead \/ ReadDoneThumbnails
    BY <2>4, ReadPictureKeeps
  <2>5. CASE \/ SetupDone \/ Opened \/ OpenFails \/ ReadCheck \/ ReadChecked
             \/ ReadAborted \/ ReadDone \/ LoopAgain \/ Handled
             \/ CloseDeferred \/ QuitRefused
    BY <2>5, OpenWalks
  <2>6. CASE CloseLocked
    BY <2>6, CloseLockedSteps
  <2>7. CASE QuitLocked
    BY <2>7, QuitLockedKeeps
  <2>8. CASE QuitDecided
    BY <2>8, QuitDecidedKeeps
  <2>9. CASE \/ QuitAsks \/ DrainCheck \/ DrainChecked \/ Drained \/ ChildWait
             \/ DisposeScalosWindow \/ FreeIconLists \/ ForbidOthers \/ DeletePort \/ FreeWindowTask
    BY <2>9, EndWalks
  <2>10. CASE ReleaseBoth
    BY <2>10, ReleaseBothKeeps
  <2>11. CASE ClearMsgPort
    BY <2>11, ClearMsgPortKeeps
  <2>12. CASE ReleaseQuit
    BY <2>12, ReleaseQuitKeeps
  <2>13. CASE ObtainQuit
    BY <2>13, ObtainQuitKeeps
  <2> QED BY <1>1, <2>1, <2>2, <2>3, <2>4, <2>5, <2>6, <2>7, <2>8, <2>9, <2>10,
             <2>11, <2>12, <2>13 DEF OwnStep
<1>2. CASE \E c \in Child : ChildStep(c)
  BY <1>2, ChildStepKeeps
<1>3. CASE \E g \in Guest : GuestStep(g)
  BY <1>3, GuestStepKeeps
<1>4. CASE \/ \E m \in EnvMsgs : Send(m)
           \/ \E m \in {"ReqYes", "ReqNo"} : AnswerRequester(m)
  BY <1>4, SendKeeps
<1>5. CASE UNCHANGED vars
  <2>1. UNCHANGED control /\ UNCHANGED messages /\ UNCHANGED flags
        /\ UNCHANGED semas /\ UNCHANGED others
    BY <1>5 DEF vars
  <2>2. /\ port' \in Seq(Messages) /\ taken' \in Seq(Messages)
        /\ unanswered' \in Nat /\ Waiting(port') + Waiting(taken') <= unanswered'
        /\ requesters' \in Nat /\ sent' \in 0 .. MaxMsgs /\ closeWindow' \in BOOLEAN
        /\ asyncLayout' \in BOOLEAN
        /\ asyncLayout' => asyncLayout
        /\ outstanding' \in 0 .. ULongs - 1
        /\ winSemaLocked' = winSemaLocked
    BY <2>1 DEF IInv, TypeOK, RequestsCounted, messages, flags
  <2>3. UNCHANGED <<control, winSemaLocked, semas, others>>
    BY <2>1, <2>2
  <2> QED BY <2>2, <2>3, Stays
<1> QED BY <1>1, <1>2, <1>3, <1>4, <1>5 DEF Next, Resting

THEOREM Invariant == Spec => []IInv
BY InitHolds, NextKeeps, PTL DEF Spec

(***************************************************************************)
(* Every variable keeps its type; the number of outstanding replies stays  *)
(* a ULONG and WaitReply calls stay within their bound.                    *)
(***************************************************************************)
THEOREM TypeCorrect == Spec => []TypeOK
BY Invariant, PTL DEF IInv

(***************************************************************************)
(* WindowTask() frees the window, and its port, only when no child process *)
(* uses them any more: whatever the order of close requests, commands,     *)
(* replies and failures.                                                   *)
(***************************************************************************)
THEOREM ChildrenStayInside == Spec => []ChildInsideWindow
<1>1. IInv => ChildInsideWindow
  BY DEF IInv, ChildrenLeft, ChildInsideWindow, UsesWindow, WindowFreed, Closed
<1> QED BY <1>1, Invariant, PTL

(***************************************************************************)
(* QuitSemaphore is free for the main task only when the window process    *)
(* and all its children have ended, or before it has begun: every child    *)
(* has obtained it before the window can release its own.                  *)
(***************************************************************************)
THEOREM QuitWaits == Spec => []QuitWaitsForAll
<1>1. IInv => QuitWaitsForAll
  <2> SUFFICES ASSUME IInv, Idle(quitSema)
               PROVE  phase \in Outside /\ \A c \in Child : childPc[c] = "idle"
    BY DEF QuitWaitsForAll, Outside
  <2>1. quitSema.nest[Own] = 0 /\ \A c \in Child : quitSema.nest[c] = 0
    BY Basics DEF Idle
  <2>2. phase \in Outside
    BY <2>1 DEF IInv, OwnLocks
  <2>3. \A c \in Child : childPc[c] \in {"idle", "new"}
    BY <2>1 DEF IInv, OtherLocks, QuitLocks
  <2>4. hand = NoHand
    BY <2>2 DEF IInv, Starting, Outside, Listening
  <2>5. \A c \in Child : childPc[c] # "new"
    BY <2>4, Basics, NoHandIs DEF IInv, Starting
  <2> QED BY <2>2, <2>3, <2>5
<1> QED BY <1>1, Invariant, PTL

(***************************************************************************)
(* While the window waits for the answer of a child to                     *)
(* MTYP_StartChildProcess, nothing keeps the child from the child          *)
(* semaphore it obtains before it answers, except that the window itself   *)
(* has locked it to quit: then a message handled during the requester      *)
(* about quitting has started the child.                                   *)
(***************************************************************************)
THEOREM HandshakeEnds ==
  Spec => [](HandshakeCompletes \/ (phase = "waitreq" /\ role = "main"))
<1>1. IInv => HandshakeCompletes \/ (phase = "waitreq" /\ role = "main")
  <2> SUFFICES ASSUME IInv, hand.child # NoTask, ~(phase = "waitreq" /\ role = "main")
               PROVE  CanShared(childSema, hand.child)
    BY DEF HandshakeCompletes
  <2>1. phase \in Listening \cup {"opening", "loop"}
    BY NoHandIs DEF IInv, Starting
  <2>2. ~Locked
    BY <2>1 DEF IInv, ClosingLocks, Listening, Deciding, Ending
  <2> QED BY <2>2 DEF IInv, ClosingLocks, Locked, CanShared
<1> QED BY <1>1, Invariant, PTL

(***************************************************************************)
(* When it handles messages, or waits for one, the window has released its *)
(* two semaphores, whether or not the command before could start its       *)
(* process, and however an attempt to close or to quit has ended.          *)
(***************************************************************************)
THEOREM NothingHeld == Spec => []NothingLeftLocked
<1>1. IInv => NothingLeftLocked
  <2> SUFFICES ASSUME IInv, depth = 0, hand = NoHand,
                      phase \notin {"quitting", "waitreq"} \cup Closed \cup
                                   {"draining", "drainchecking", "childwait"}
               PROVE  ~Holds(windowSema, Own) /\ ~Holds(childSema, Own)
    BY DEF NothingLeftLocked
  <2>1. ~Locked
    BY DEF IInv, ClosingLocks, Deciding, Ending, Closed
  <2> QED BY <2>1, AtRest DEF Holds
<1> QED BY <1>1, Invariant, PTL
-----------------------------------------------------------------------------
(***************************************************************************)
(* The steps of WindowTask() itself handle no message and start no child.  *)
(***************************************************************************)
Walk ==
  \/ ObtainQuit \/ SetupDone \/ Opened \/ OpenFails
  \/ ReadCheck \/ ReadChecked \/ ReadAborted
  \/ ReadDone \/ LoopAgain \/ Handled \/ CloseDeferred \/ CloseLocked
  \/ QuitRefused \/ QuitLocked \/ QuitAsks \/ QuitDecided
  \/ DrainCheck \/ DrainChecked \/ Drained \/ ChildWait \/ ReleaseBoth
  \/ DisposeScalosWindow \/ FreeIconLists \/ ForbidOthers \/ DeletePort \/ FreeWindowTask \/ ReleaseQuit

Moved == port' = << >> /\ taken' = port /\ phase \in {"reading", "draining"}

LEMMA WalkFacts ==
  ASSUME Walk
  PROVE  /\ hand = NoHand /\ hand' = hand /\ depth' = depth
         /\ UNCHANGED <<outstanding, asyncLayout, childPc, childKind, unanswered>>
         /\ (port' = port /\ taken' = taken) \/ (Moved /\ phase' \in {"checking", "drainchecking"})
         /\ phase # "alert" /\ (phase \in {"checking", "drainchecking"} => taken = << >>)
         /\ WindowFreed => WindowFreed'
         /\ phase' \in Closed \cup {"childwait"} =>
              phase \in Closed \cup {"childwait"} \/ ~asyncLayout
<1> USE DEF At, Goto, messages, flags, semas, others, WindowFreed, Closed, Moved
<1>1. CASE \/ ObtainQuit \/ SetupDone \/ Opened \/ OpenFails \/ ReadChecked
           \/ ReadAborted \/ ReadDone \/ LoopAgain \/ Handled \/ CloseDeferred
  BY <1>1 DEF ObtainQuit, SetupDone, Opened, OpenFails, ReadChecked, ReadAborted, ReadDone,
     LoopAgain, Handled, CloseDeferred
<1>2. CASE ReadCheck \/ DrainCheck
  BY <1>2 DEF ReadCheck, DrainCheck, CheckForMessages
<1>3. CASE CloseLocked \/ QuitRefused \/ QuitLocked \/ QuitAsks \/ QuitDecided
  BY <1>3 DEF CloseLocked, QuitRefused, QuitLocked, QuitAsks, QuitDecided
<1>4. CASE DrainChecked \/ Drained \/ ChildWait \/ ReleaseBoth
  BY <1>4 DEF DrainChecked, Drained, ChildWait, ReleaseBoth
<1>5. CASE DisposeScalosWindow \/ FreeIconLists \/ ForbidOthers \/ DeletePort \/ FreeWindowTask \/ ReleaseQuit
  BY <1>5 DEF DisposeScalosWindow, FreeIconLists, ForbidOthers, DeletePort, FreeWindowTask, ReleaseQuit
<1> QED BY <1>1, <1>2, <1>3, <1>4, <1>5 DEF Walk

(***************************************************************************)
(* A message is handled: it is taken from the front of its queue.          *)
(***************************************************************************)
Taken(m) ==
  /\ Got(m) /\ Consume /\ phase \in Listening
  /\ unanswered' = unanswered - Request(m)
  /\ phase' = phase \/ (phase = "waitreq" /\ phase' \in {"loop", "quitting"})

LEMMA HandledFacts ==
  ASSUME IInv, HandleMessage
  PROVE  CloseGadget \/ \E m \in Messages : Taken(m)
<1>1. /\ unanswered \in Nat /\ unanswered - 0 = unanswered
      /\ Request("CloseWindow") = 1
      /\ \A m \in Messages \ {"CloseWindow"} : Request(m) = 0
  BY DEF Request, IInv, TypeOK
<1>2. {"CloseWindow", "RunMenuCmd", "NewPattern", "BackFillReply", "RunReply",
       "ReqYes", "ReqNo"} \subseteq Messages
  BY DEF Messages, Requests, Replies
<1>3. CASE CloseGadget
  BY <1>3
<1>4. CASE CloseWindowMsg
  BY <1>1, <1>2, <1>4 DEF CloseWindowMsg, control, Taken, Got
<1>5. CASE MenuWait \/ MenuNoChild \/ \E k \in AllKinds : MenuStart(k)
  BY <1>1, <1>2, <1>5 DEF MenuWait, MenuNoChild, MenuStart, control, Taken, Got
<1>6. CASE NewPatternRead \/ NewPatternDone
  BY <1>1, <1>2, <1>6 DEF NewPatternRead, NewPatternDone, control, Taken, Got
<1>7. CASE AsyncReplyMsg \/ RunReply
  BY <1>1, <1>2, <1>7 DEF AsyncReplyMsg, RunReply, control, Taken, Got
<1>8. ASSUME NEW m \in {"ReqYes", "ReqNo"}, ReqReply(m)
      PROVE  Taken(m)
  BY <1>1, <1>2, <1>8 DEF ReqReply, Goto, control, Taken, Got
<1> QED BY <1>2, <1>3, <1>4, <1>5, <1>6, <1>7, <1>8 DEF HandleMessage

(***************************************************************************)
(* Children are started, run and leave, guests come and go.                *)
(***************************************************************************)
Start ==
  \/ \E c \in Child : CreateChild(c) \/ ChildRuns(c)
  \/ CreateFails \/ SetupRead \/ ReadDoneThumbnails
  \/ \E g \in Guest : GuestStep(g)

LEMMA StepKinds ==
  ASSUME Next
  PROVE  \/ Walk \/ HandleMessage \/ Start \/ ClearMsgPort
         \/ \E c \in Child : ChildStep(c)
         \/ \E m \in EnvMsgs : Send(m)
         \/ \E m \in {"ReqYes", "ReqNo"} : AnswerRequester(m)
         \/ UNCHANGED vars
BY DEF Next, OwnStep, Walk, Start, Resting

LEMMA StartFacts ==
  ASSUME Start
  PROVE  /\ UNCHANGED <<port, taken, unanswered>>
         /\ \/ phase' = phase
            \/ phase' = "alert" /\ phase # "alert" /\ hand.kind = "backfill"
            \/ phase \in {"setup", "reading"} /\ phase' \in {"opening", "loop"}
<1>1. CASE \E c \in Child : CreateChild(c) \/ ChildRuns(c)
  BY <1>1 DEF CreateChild, ChildRuns, messages
<1>2. CASE CreateFails
  BY <1>2 DEF CreateFails, messages
<1>3. CASE SetupRead \/ ReadDoneThumbnails
  BY <1>3 DEF SetupRead, ReadDoneThumbnails, At, messages
<1>4. CASE \E g \in Guest : GuestStep(g)
  BY <1>4 DEF GuestStep, GuestAsked, GuestGoesOn, GuestLocks, GuestReads,
         GuestUnlocks, GuestKeeps, control, messages
<1> QED BY <1>1, <1>2, <1>3, <1>4 DEF Start
-----------------------------------------------------------------------------
(***************************************************************************)
(* Queues of the messages that are sent.                                   *)
(***************************************************************************)
LEMMA KeptNumbers ==
  ASSUME MInv
  PROVE  /\ port \in Seq(Sent) /\ taken \in Seq(Sent)
         /\ Waiting(port) \in Nat /\ Waiting(taken) \in Nat
         /\ ~WindowFreed => unanswered = Waiting(port) + Waiting(taken)
         /\ Waiting(<< >>) = 0
BY WaitingIsNumber, WaitingEmpty DEF MInv, AllHandled, RequestsKept, Waiting

LEMMA TakenFacts ==
  ASSUME MInv, NEW m, Taken(m)
  PROVE  /\ m \in Sent /\ port' \in Seq(Sent) /\ taken' \in Seq(Sent)
         /\ phase \notin {"checking", "drainchecking"} => taken' = taken
         /\ Waiting(port') + Waiting(taken') = (Waiting(port) + Waiting(taken)) - Request(m)
         /\ \/ port # << >> /\ m = Head(port) /\ port' = Tail(port) /\ taken' = taken
            \/ taken # << >> /\ m = Head(taken) /\ taken' = Tail(taken) /\ port' = port
<1>1. Request(m) \in {0, 1}
  BY DEF Request
<1>2. CASE FromPort
  <2>1. port # << >> /\ Head(port) = m /\ port' = Tail(port) /\ taken' = taken
    BY <1>2 DEF Taken, Got, Consume, Source
  <2>2. /\ port' \in Seq(Sent) /\ m \in Sent
        /\ Waiting(port) = Waiting(port') + Request(m)
    BY <2>1, KeptNumbers, WaitingTail
  <2>3. Waiting(port') \in Nat
    BY <2>2, WaitingIsNumber
  <2>4. Waiting(port') + Waiting(taken') = (Waiting(port) + Waiting(taken)) - Request(m)
    BY <1>1, <2>1, <2>2, <2>3, KeptNumbers
  <2> QED BY <2>1, <2>2, <2>4, KeptNumbers
<1>3. CASE ~FromPort
  <2>1. taken # << >> /\ Head(taken) = m /\ taken' = Tail(taken) /\ port' = port
    BY <1>3 DEF Taken, Got, Consume, Source
  <2>2. /\ taken' \in Seq(Sent) /\ m \in Sent
        /\ Waiting(taken) = Waiting(taken') + Request(m)
    BY <2>1, KeptNumbers, WaitingTail
  <2>3. Waiting(taken') \in Nat
    BY <2>2, WaitingIsNumber
  <2>4. Waiting(port') + Waiting(taken') = (Waiting(port) + Waiting(taken)) - Request(m)
    BY <1>1, <2>1, <2>2, <2>3, KeptNumbers
  <2>5. phase \in {"checking", "drainchecking"}
    BY <1>3 DEF FromPort, Taken, Listening
  <2> QED BY <2>1, <2>2, <2>4, <2>5, KeptNumbers
<1> QED BY <1>2, <1>3

LEMMA NoCloseGadget ==
  ASSUME "IDCMP_CLOSEWINDOW" \notin EnvMsgs, MInv
  PROVE  ~CloseGadget
<1>1. ASSUME NEW q \in Seq(Sent), q # << >>
      PROVE  Head(q) # "IDCMP_CLOSEWINDOW"
  <2>1. Head(q) \in Sent
    BY <1>1, HeadTailProperties
  <2> QED BY <2>1 DEF Sent, Replies
<1> QED BY <1>1, KeptNumbers DEF CloseGadget, Got, Source

(***************************************************************************)
(* One more message, which counts if it is a request.                      *)
(***************************************************************************)
LEMMA AddedKeeps ==
  ASSUME MInv, UNCHANGED <<phase, taken>>, port' \in Seq(Sent),
         NEW n \in {0, 1}, Waiting(port') = Waiting(port) + n, unanswered' = unanswered + n
  PROVE  MInv'
<1>1. AllHandled'
  BY DEF MInv, AllHandled
<1>2. ASSUME ~WindowFreed
      PROVE  unanswered' = Waiting(port') + Waiting(taken')
  <2>1. unanswered = Waiting(port) + Waiting(taken)
    BY <1>2, KeptNumbers
  <2> QED BY <2>1, KeptNumbers
<1>3. RequestsKept'
  BY <1>2 DEF RequestsKept, Waiting, WindowFreed
<1> QED BY <1>1, <1>3 DEF MInv

LEMMA MessagesKeep ==
  ASSUME "IDCMP_CLOSEWINDOW" \notin EnvMsgs, IInv, MInv, [Next]_vars
  PROVE  MInv'
<1>1. CASE Walk
  <2>1. AllHandled'
    BY <1>1, WalkFacts, EmptySeq DEF MInv, AllHandled, Moved
  <2>2. CASE port' = port /\ taken' = taken
    BY <1>1, <2>1, <2>2, WalkFacts DEF MInv, RequestsKept
  <2>3. CASE Moved
    <3>1. taken = << >> /\ ~WindowFreed
      BY <2>3 DEF MInv, AllHandled, Moved, WindowFreed
    <3>2. unanswered' = Waiting(port') + Waiting(taken')
      BY <1>1, <2>3, <3>1, WalkFacts, KeptNumbers DEF Moved
    <3> QED BY <2>1, <3>2 DEF MInv, RequestsKept, Waiting
  <2> QED BY <1>1, <2>2, <2>3, WalkFacts
<1>2. CASE HandleMessage
  <2>1. PICK m \in Messages : Taken(m)
    BY <1>2, HandledFacts, NoCloseGadget
  <2>2. ~WindowFreed /\ phase # "alert"
    BY <2>1 DEF Taken, Listening, WindowFreed
  <2>3. AllHandled'
    BY <2>1, <2>2, TakenFacts DEF MInv, AllHandled, Taken
  <2>4. unanswered' = Waiting(port') + Waiting(taken')
    <3>1. unanswered = Waiting(port) + Waiting(taken)
      BY <2>2, KeptNumbers
    <3>2. unanswered' = unanswered - Request(m)
      BY <2>1 DEF Taken
    <3>3. Waiting(port') + Waiting(taken') = (Waiting(port) + Waiting(taken)) - Request(m)
      BY <2>1, TakenFacts
    <3> QED BY <3>1, <3>2, <3>3
  <2> QED BY <2>3, <2>4 DEF MInv, RequestsKept, Waiting
<1>3. CASE Start
  <2>1. AllHandled'
    BY <1>3, StartFacts DEF MInv, AllHandled
  <2>2. WindowFreed => WindowFreed'
    BY <1>3, StartFacts, NoHandIs DEF WindowFreed, IInv, Starting, Listening
  <2> QED BY <1>3, <2>1, <2>2, StartFacts DEF MInv, RequestsKept
<1>4. CASE ClearMsgPort
  <2>1. /\ port # << >> /\ phase' = phase /\ taken' = taken /\ phase = "clear"
        /\ port' \in {Tail(port), Append(Tail(port), Head(port))}
    BY <1>4 DEF ClearMsgPort, control, At
  <2>2. port' \in Seq(Sent)
    <3>1. port \in Seq(Sent)
      BY KeptNumbers
    <3>2. Tail(port) \in Seq(Sent) /\ Head(port) \in Sent
      BY <2>1, <3>1, HeadTailProperties
    <3> QED BY <2>1, <3>2, AppendProperties
  <2> QED BY <2>1, <2>2 DEF MInv, AllHandled, RequestsKept, WindowFreed
<1>5. ASSUME NEW c \in Child, ChildStep(c)
      PROVE  MInv'
  <2>1. CASE ChildReplies(c)
    <3>1. /\ port' = port \o ReplyOf(childKind[c]) /\ childKind[c] \in AllKinds
          /\ UNCHANGED <<phase, taken, unanswered>>
      BY <2>1 DEF ChildReplies, control, IInv, TypeOK
    <3>2. port' \in Seq(Sent) /\ Waiting(port') = Waiting(port)
      BY <3>1, KeptNumbers, ReplyFacts DEF Sent
    <3>3. unanswered' = unanswered + 0 /\ Waiting(port') = Waiting(port) + 0
      BY <3>1, <3>2, KeptNumbers DEF IInv, TypeOK
    <3> QED BY <3>1, <3>2, <3>3, AddedKeeps
  <2>2. CASE ~ChildReplies(c)
    <3>1. UNCHANGED <<phase, port, taken, unanswered>>
      BY <1>5, <2>2 DEF ChildStep, ChildObtainQuit, ChildAnswers, ChildWorks,
         ThumbnailsBegin, ThumbnailsEnd, ThumbnailsCount, ThumbnailsCountDown,
         ChildUnlocks, ChildLeaves, control, messages
    <3> QED BY <3>1 DEF MInv, AllHandled, RequestsKept, WindowFreed
  <2> QED BY <2>1, <2>2
<1>6. CASE \/ \E m \in EnvMsgs : Send(m)
           \/ \E m \in {"ReqYes", "ReqNo"} : AnswerRequester(m)
  <2>1. PICK m \in Sent : /\ port' = Append(port, m) /\ UNCHANGED <<phase, taken>>
                          /\ unanswered' = unanswered + Request(m)
    <3>1. unanswered + 0 = unanswered
      BY DEF IInv, TypeOK
    <3> QED BY <1>6, <3>1 DEF Send, AnswerRequester, Sent, Replies, Request, control
  <2>2. /\ port' \in Seq(Sent) /\ Waiting(port') = Waiting(port) + Request(m)
        /\ Request(m) \in {0, 1}
    BY <2>1, KeptNumbers, AppendProperties, WaitingAppend DEF Request
  <2> QED BY <2>1, <2>2, AddedKeeps
<1>7. CASE UNCHANGED vars
  BY <1>7 DEF vars, control, messages, MInv, AllHandled, RequestsKept, WindowFreed
<1> QED BY <1>1, <1>2, <1>3, <1>4, <1>5, <1>6, <1>7, StepKinds

LEMMA MessagesBegin == Init => MInv
<1> SUFFICES ASSUME Init PROVE MInv
  OBVIOUS
<1>1. AllHandled
  BY EmptySeq DEF Init, AllHandled
<1>2. unanswered = Waiting(port) + Waiting(taken)
  BY WaitingEmpty DEF Init
<1> QED BY <1>1, <1>2 DEF MInv, RequestsKept, Waiting

(***************************************************************************)
(* While the user leaves the close gadget alone, every MTYP_CloseWindow    *)
(* whose sender still waits is in the port or in the list of messages      *)
(* being handled, until the window is freed.                               *)
(***************************************************************************)
THEOREM RequestsCorrect ==
  ASSUME "IDCMP_CLOSEWINDOW" \notin EnvMsgs
  PROVE  Spec => []RequestsKept
<1>1. Init => MInv
  BY MessagesBegin
<1>2. IInv /\ MInv /\ [Next]_vars => MInv'
  BY MessagesKeep
<1>3. MInv => RequestsKept
  BY DEF MInv
<1> QED BY <1>1, <1>2, <1>3, Invariant, PTL DEF Spec
-----------------------------------------------------------------------------
(***************************************************************************)
(* The answer of a child that has read a picture, in a queue.              *)
(***************************************************************************)
LEMMA PictureFacts ==
  ASSUME NEW T, NEW q \in Seq(T)
  PROVE  /\ \A m \in T : HasPicture(Append(q, m)) <=> HasPicture(q) \/ m = "BackFillReply"
         /\ q # << >> /\ Head(q) # "BackFillReply" /\ HasPicture(q) => HasPicture(Tail(q))
<1>1. Len(q) \in Nat /\ DOMAIN q = 1 .. Len(q)
  BY LenProperties
<1>2. ASSUME NEW m \in T
      PROVE  HasPicture(Append(q, m)) <=> HasPicture(q) \/ m = "BackFillReply"
  <2> DEFINE r == Append(q, m)
             n == Len(q)
  <2>1. /\ DOMAIN r = 1 .. n + 1 /\ n \in Nat /\ DOMAIN q = 1 .. n
        /\ \A i \in 1 .. n : r[i] = q[i]
        /\ r[n + 1] = m
    BY <1>1, AppendProperties, LenProperties
  <2> HIDE DEF r, n
  <2>2. HasPicture(r) <=> HasPicture(q) \/ m = "BackFillReply"
    BY <2>1 DEF HasPicture
  <2> QED BY <2>2 DEF r
<1>3. ASSUME q # << >>, Head(q) # "BackFillReply", HasPicture(q)
      PROVE  HasPicture(Tail(q))
  <2> DEFINE r == Tail(q)
             n == Len(r)
  <2>1. /\ DOMAIN r = 1 .. n /\ n \in Nat /\ DOMAIN q = 1 .. n + 1
        /\ \A i \in 1 .. n : r[i] = q[i + 1]
        /\ Head(q) = q[1]
    BY <1>1, <1>3, HeadTailProperties, LenProperties
  <2> HIDE DEF r, n
  <2>2. PICK i \in 1 .. n + 1 : q[i] = "BackFillReply"
    BY <1>3, <2>1 DEF HasPicture
  <2>3. i - 1 \in 1 .. n /\ (i - 1) + 1 = i
    BY <1>3, <2>1, <2>2
  <2>4. r[i - 1] = "BackFillReply"
    BY <2>1, <2>2, <2>3
  <2>5. HasPicture(r)
    BY <2>1, <2>3, <2>4 DEF HasPicture
  <2> QED BY <2>5 DEF r
<1> QED BY <1>2, <1>3

LEMMA WalkPending ==
  ASSUME MInv, PInv, Walk
  PROVE  PInv'
<1>1. NoThumbnails' /\ WaitedFor'
  BY WalkFacts DEF PInv, NoThumbnails, WaitedFor
<1>2. PicturesRead'
  BY WalkFacts DEF PInv, PicturesRead
<1>3. CASE port' = port /\ taken' = taken
  BY <1>1, <1>2, <1>3, WalkFacts DEF PInv, Cause, Reading
<1>4. CASE Moved
  <2>1. taken = << >> /\ ~HasPicture(<< >>)
    BY <1>4 DEF MInv, AllHandled, Moved, HasPicture
  <2>2. HasPicture(port) \/ HasPicture(taken) => HasPicture(taken')
    BY <1>4, <2>1 DEF Moved
  <2>3. Cause => Cause'
    BY <2>2, WalkFacts DEF Cause, Reading
  <2> QED BY <1>1, <1>2, <2>3, WalkFacts DEF PInv
<1> QED BY <1>3, <1>4, WalkFacts

(***************************************************************************)
(* A message other than the answer about a picture leaves the cause.       *)
(***************************************************************************)
LEMMA CauseStays ==
  ASSUME MInv, Cause, hand = NoHand, NEW m, Taken(m), m # "BackFillReply",
         UNCHANGED <<childPc, childKind>>
  PROVE  Cause'
<1>1. hand.kind # "backfill"
  BY NoHandIs
<1>2. /\ HasPicture(port) => HasPicture(port')
      /\ HasPicture(taken) => HasPicture(taken')
  <2>1. port \in Seq(Sent) /\ taken \in Seq(Sent)
    BY KeptNumbers
  <2>2. CASE port # << >> /\ m = Head(port) /\ port' = Tail(port) /\ taken' = taken
    BY <2>1, <2>2, PictureFacts
  <2>3. CASE taken # << >> /\ m = Head(taken) /\ taken' = Tail(taken) /\ port' = port
    BY <2>1, <2>3, PictureFacts
  <2> QED BY <2>2, <2>3, TakenFacts
<1> QED BY <1>1, <1>2 DEF Cause, Reading

LEMMA CountsDown ==
  ASSUME NEW n \in Nat
  PROVE  /\ CountDown(n) \in Nat /\ CountDown(n) <= n
         /\ \A k \in Nat : n <= k + 1 => CountDown(n) <= k
BY DEF CountDown

LEMMA CountsNothing == \A m, n \in Nat : m <= n => m <= n + 0
OBVIOUS

LEMMA HandlePending ==
  ASSUME "IDCMP_CLOSEWINDOW" \notin EnvMsgs, "thumb" \notin Kinds,
         IInv, MInv, PInv, HandleMessage
  PROVE  PInv'
<1>1. PICK m \in Messages : Taken(m)
  BY HandledFacts, NoCloseGadget
<1>2. /\ hand = NoHand /\ phase \in Listening
      /\ UNCHANGED others /\ UNCHANGED <<childPc, childKind>>
  <2>1. hand = NoHand /\ phase \in Listening
    BY <1>1 DEF Taken, Got
  <2>2. UNCHANGED others
    BY DEF HandleMessage, CloseGadget, CloseWindowMsg, MenuWait, MenuNoChild, MenuStart,
       NewPatternRead, NewPatternDone, AsyncReplyMsg, RunReply, ReqReply
  <2> QED BY <2>1, <2>2 DEF others
<1>3. /\ outstanding \in Nat /\ outstanding \in 0 .. ULongs - 1 /\ ULongs \in Nat
      /\ depth \in Nat /\ outstanding <= depth
  BY <1>2, NoHandIs, Basics, BoundAssumption DEF IInv, TypeOK, PInv, WaitedFor
<1>4. phase' \notin Closed \cup {"childwait"}
  BY <1>1 DEF Taken, Listening, Closed
<1>5. CASE \/ MenuWait \/ NewPatternRead \/ \E k \in AllKinds : MenuStart(k)
  <2>1. PICK k \in AllKinds \ {"thumb"} :
          /\ Begin(k) /\ depth' = depth
          /\ \/ k = "wait" /\ outstanding' = (outstanding + 1) % ULongs
             \/ outstanding' = outstanding
          /\ k # "backfill" => /\ asyncLayout' = asyncLayout
                               /\ Head(Source) = "RunMenuCmd"
    BY <1>5 DEF MenuWait, NewPatternRead, MenuStart, ReadPicture, flags, AllKinds, Got
  <2>2. hand'.kind = k /\ hand'.child = NoTask
    BY <2>1 DEF Begin
  <2>3. NoThumbnails' /\ PicturesRead'
    BY <1>2, <1>4, <2>1, <2>2 DEF PInv, NoThumbnails, PicturesRead
  <2>4. WaitedFor'
    <3>1. (outstanding + 1) % ULongs <= outstanding + 1
      BY <1>3, BoundAssumption
    <3> QED BY <1>3, <2>1, <2>2, <3>1, Wraps DEF WaitedFor
  <2>5. asyncLayout' => Cause'
    <3>1. CASE k = "backfill"
      BY <2>2, <3>1 DEF Cause
    <3>2. CASE k # "backfill"
      <4>1. m = "RunMenuCmd"
        BY <1>1, <2>1, <3>2 DEF Taken, Got
      <4>2. Cause => Cause'
        BY <1>1, <1>2, <4>1, CauseStays
      <4> QED BY <2>1, <3>2, <4>2 DEF PInv
    <3> QED BY <3>1, <3>2
  <2> QED BY <2>3, <2>4, <2>5 DEF PInv
<1>6. CASE \/ CloseWindowMsg \/ MenuNoChild \/ NewPatternDone \/ AsyncReplyMsg
           \/ RunReply \/ ReqReply("ReqYes") \/ ReqReply("ReqNo")
  <2>1. hand' = hand
    BY <1>6 DEF CloseWindowMsg, MenuNoChild, NewPatternDone, AsyncReplyMsg, RunReply,
       ReqReply, control, Goto
  <2>2. NoThumbnails' /\ PicturesRead'
    BY <1>2, <1>4, <2>1 DEF PInv, NoThumbnails, PicturesRead
  <2>3. WaitedFor'
    <3>1. \/ depth' = depth /\ outstanding' \in {outstanding, CountDown(outstanding)}
          \/ /\ depth > 0 /\ depth' = depth - 1
             /\ outstanding' = CountDown(CountDown(outstanding))
      BY <1>6 DEF CloseWindowMsg, MenuNoChild, NewPatternDone, AsyncReplyMsg, RunReply,
         ReqReply, control, Goto, flags
    <3>2. outstanding' \in Nat /\ depth' \in Nat /\ outstanding' <= depth'
      <4>1. CASE depth' = depth
        BY <1>3, <3>1, <4>1, CountsDown
      <4>2. CASE depth' # depth
        <5> DEFINE n == CountDown(outstanding)
        <5>1. depth - 1 \in Nat /\ depth' = depth - 1 /\ outstanding <= (depth - 1) + 1
          BY <1>3, <3>1, <4>2
        <5>2. n \in Nat /\ n <= depth - 1
          BY <1>3, <5>1, CountsDown
        <5>3. CountDown(n) \in Nat /\ CountDown(n) <= n
          BY <5>2, CountsDown
        <5>4. outstanding' = CountDown(n)
          BY <3>1, <4>2
        <5> HIDE DEF n
        <5> QED BY <5>1, <5>2, <5>3, <5>4
      <4> QED BY <4>1, <4>2
    <3>3. hand'.kind # "wait"
      BY <1>2, <2>1, NoHandIs
    <3>4. (IF hand'.kind = "wait" THEN 1 ELSE 0) = 0
      BY <3>3
    <3>5. outstanding' <= depth' + 0
      BY <3>2, CountsNothing, Zenon
    <3> QED BY <3>4, <3>5, Zenon DEF WaitedFor
  <2>4. asyncLayout' => Cause'
    <3>1. CASE AsyncReplyMsg
      BY <3>1 DEF AsyncReplyMsg
    <3>2. CASE ~AsyncReplyMsg
      <4>1. asyncLayout' = asyncLayout /\ m # "BackFillReply"
        BY <1>1, <1>6, <3>2 DEF CloseWindowMsg, MenuNoChild, NewPatternDone, RunReply,
           ReqReply, flags, Taken, Got
      <4>2. Cause => Cause'
        BY <1>1, <1>2, <4>1, CauseStays
      <4> QED BY <4>1, <4>2 DEF PInv
    <3> QED BY <3>1, <3>2
  <2> QED BY <2>2, <2>3, <2>4 DEF PInv
<1> QED BY <1>5, <1>6, NoCloseGadget DEF HandleMessage

LEMMA StartPending ==
  ASSUME "thumb" \notin Kinds, IInv, MInv, PInv, Start
  PROVE  PInv'
<1>1. /\ hand \in [kind : AllKinds \cup {"none"}, child : Child \cup {NoTask}]
      /\ childPc \in [Child -> ChildPC] /\ childKind \in [Child -> AllKinds]
      /\ outstanding \in Nat /\ depth \in Nat
      /\ \A c \in Child : c # NoTask
      /\ port' = port /\ taken' = taken
  BY Basics, StartFacts, BoundAssumption DEF IInv, TypeOK
<1>2. ASSUME NEW c \in Child, CreateChild(c)
      PROVE  PInv'
  <2>1. /\ hand'.kind = hand.kind /\ hand'.child = c /\ phase' = phase /\ depth' = depth
        /\ UNCHANGED <<outstanding, asyncLayout>>
        /\ childPc[c] = "idle" /\ childPc' = [childPc EXCEPT ![c] = "new"]
        /\ childKind' = [childKind EXCEPT ![c] = hand.kind]
    BY <1>1, <1>2 DEF CreateChild, flags
  <2>2. NoThumbnails' /\ PicturesRead' /\ WaitedFor'
    BY <1>1, <2>1 DEF PInv, NoThumbnails, PicturesRead, WaitedFor
  <2>3. \A d \in Child : Reading(d) => d # c
    BY <2>1 DEF Reading
  <2>4. Cause => Cause'
    BY <1>1, <2>1, <2>3 DEF Cause, Reading
  <2> QED BY <2>1, <2>2, <2>4 DEF PInv
<1>3. ASSUME NEW c \in Child, ChildRuns(c)
      PROVE  PInv'
  <2>1. /\ hand.child = c /\ hand'.kind = "none" /\ hand'.child = NoTask /\ phase' = phase
        /\ depth' = IF hand.kind = "wait" THEN depth + 1 ELSE depth
        /\ UNCHANGED <<outstanding, asyncLayout, childKind>>
        /\ childPc[c] = "ready" /\ childPc' = [childPc EXCEPT ![c] = "run"]
    BY <1>1, <1>3, NoHandIs DEF ChildRuns, RunMessage, flags
  <2>2. NoThumbnails' /\ PicturesRead'
    BY <1>1, <2>1 DEF PInv, NoThumbnails, PicturesRead
  <2>3. WaitedFor'
    <3>1. outstanding <= depth + IF hand.kind = "wait" THEN 1 ELSE 0
      BY DEF PInv, WaitedFor
    <3> QED BY <1>1, <2>1, <3>1 DEF WaitedFor
  <2>4. hand.kind = "backfill" => Reading(c)'
    BY <1>1, <2>1 DEF PInv, PicturesRead, Reading
  <2>5. \A d \in Child : Reading(d) => Reading(d)'
    BY <1>1, <2>1 DEF Reading
  <2>6. Cause => Cause'
    BY <1>1, <2>4, <2>5 DEF Cause
  <2> QED BY <2>1, <2>2, <2>3, <2>6 DEF PInv
<1>4. CASE CreateFails
  <2>1. /\ hand'.kind = "none" /\ hand'.child = NoTask /\ depth' = depth
        /\ UNCHANGED <<childPc, childKind>>
        /\ outstanding' = IF hand.kind = "wait" THEN CountDown(outstanding)
                                                ELSE outstanding
    BY <1>4, NoHandIs DEF CreateFails, others
  <2>2. IF hand.kind = "backfill" THEN ~asyncLayout'
        ELSE phase' = phase /\ asyncLayout' = asyncLayout
    BY <1>4 DEF CreateFails
  <2>3. NoThumbnails' /\ PicturesRead'
    BY <2>1, <2>2 DEF PInv, NoThumbnails, PicturesRead
  <2>4. WaitedFor'
    <3>1. outstanding <= depth + IF hand.kind = "wait" THEN 1 ELSE 0
      BY DEF PInv, WaitedFor
    <3>2. outstanding' \in Nat /\ outstanding' <= depth
      BY <1>1, <2>1, <3>1, CountsDown
    <3> QED BY <1>1, <2>1, <3>2 DEF WaitedFor
  <2>5. hand.kind # "backfill" /\ Cause => Cause'
    BY <1>1, <2>1 DEF Cause, Reading
  <2> QED BY <2>2, <2>3, <2>4, <2>5 DEF PInv
<1>5. CASE SetupRead
  <2>1. /\ hand = NoHand /\ hand'.kind = "backfill" /\ hand'.child = NoTask /\ depth' = depth
        /\ UNCHANGED <<childPc, childKind, outstanding>> /\ phase' = "opening"
    BY <1>5 DEF SetupRead, ReadPicture, Begin, At, others
  <2> QED BY <2>1, NoHandIs DEF PInv, NoThumbnails, PicturesRead, WaitedFor, Cause, Closed
<1>6. CASE \E g \in Guest : GuestStep(g)
  <2>1. UNCHANGED <<phase, depth, hand, outstanding, asyncLayout, childPc, childKind>>
    BY <1>6 DEF GuestStep, GuestAsked, GuestGoesOn, GuestLocks, GuestReads,
         GuestUnlocks, GuestKeeps, control, flags
  <2> QED BY <1>1, <2>1 DEF PInv, NoThumbnails, PicturesRead, WaitedFor, Cause, Reading
<1> QED BY <1>2, <1>3, <1>4, <1>5, <1>6 DEF Start, ReadDoneThumbnails

LEMMA ChildPending ==
  ASSUME IInv, MInv, PInv, NEW c \in Child, ChildStep(c)
  PROVE  PInv'
<1>1. /\ childPc \in [Child -> ChildPC] /\ childKind \in [Child -> AllKinds]
      /\ childKind[c] # "thumb" /\ childPc[c] \notin {"thumb", "count", "countdown"}
      /\ c # NoTask
  BY Basics DEF IInv, TypeOK, PInv, NoThumbnails
<1>2. PICK l \in ChildPC : /\ childPc' = [childPc EXCEPT ![c] = l]
                           /\ l \notin {"thumb", "count", "countdown"}
                           /\ UNCHANGED <<phase, depth, hand, outstanding, asyncLayout, taken>>
                           /\ \/ childKind' = childKind
                              \/ /\ childKind' = [childKind EXCEPT ![c] = "alone"]
                                 /\ childPc[c] = "leaving"
                           /\ \/ port' = port /\ childPc[c] # "reply"
                              \/ /\ port' = port \o ReplyOf(childKind[c])
                                 /\ childPc[c] = "reply"
                           /\ Reading(c) => l \in {"run", "reply"} \/ childPc[c] = "reply"
  BY <1>1 DEF ChildStep, ChildObtainQuit, ChildAnswers, ChildWorks, ThumbnailsBegin,
     ThumbnailsEnd, ThumbnailsCount, ThumbnailsCountDown, ChildReplies, ChildUnlocks,
     ChildLeaves, ChildGoto, ChildPC, Reading, control, flags, messages
<1>3. NoThumbnails' /\ WaitedFor'
  BY <1>1, <1>2 DEF PInv, NoThumbnails, WaitedFor
<1>4. PicturesRead'
  <2>1. childPc[c] = "leaving" => hand.child # c
    BY DEF IInv, Starting
  <2>2. hand.child \in Child \cup {NoTask}
    BY DEF IInv, TypeOK
  <2>3. hand.child # NoTask => childKind'[hand.child] = childKind[hand.child]
    BY <1>1, <1>2, <2>1, <2>2
  <2> QED BY <1>2, <2>3 DEF PInv, PicturesRead
<1>5. \A d \in Child \ {c} : Reading(d) => Reading(d)'
  BY <1>1, <1>2 DEF Reading
<1>6. CASE port' = port /\ childPc[c] # "reply"
  <2>1. Reading(c) => Reading(c)'
    BY <1>1, <1>2, <1>6 DEF Reading
  <2>2. Cause => Cause'
    BY <1>2, <1>5, <1>6, <2>1 DEF Cause
  <2> QED BY <1>2, <1>3, <1>4, <2>2 DEF PInv
<1>7. CASE port' = port \o ReplyOf(childKind[c]) /\ childPc[c] = "reply"
  <2>1. /\ port \in Seq(Sent) /\ "BackFillReply" \in Sent /\ "RunReply" \in Sent
    BY KeptNumbers DEF Sent, Replies
  <2>2. CASE ReplyOf(childKind[c]) = << >>
    <3>1. port' = port /\ childKind[c] # "backfill"
      BY <1>7, <2>1, <2>2, ConcatEmptySeq DEF ReplyOf
    <3>2. Cause => Cause'
      BY <1>2, <1>5, <3>1 DEF Cause, Reading
    <3> QED BY <1>2, <1>3, <1>4, <3>2 DEF PInv
  <2>3. ASSUME NEW m \in {"BackFillReply", "RunReply"}, ReplyOf(childKind[c]) = << m >>
        PROVE  PInv'
    <3>1. m \in Sent /\ (childKind[c] = "backfill" => m = "BackFillReply")
      BY <2>1, <2>3 DEF ReplyOf
    <3>2. port' = Append(port, m)
      BY <1>7, <2>1, <2>3, <3>1, AppendIsConcat
    <3>3. HasPicture(port') <=> HasPicture(port) \/ m = "BackFillReply"
      BY <2>1, <3>1, <3>2, PictureFacts
    <3>4. Cause => Cause'
      BY <1>2, <1>5, <3>1, <3>3 DEF Cause, Reading
    <3> QED BY <1>2, <1>3, <1>4, <3>4 DEF PInv
  <2>4. ReplyOf(childKind[c]) \in {<< >>, << "BackFillReply" >>, << "RunReply" >>}
    BY <1>1 DEF ReplyOf
  <2> QED BY <2>2, <2>3, <2>4
<1> QED BY <1>2, <1>6, <1>7

LEMMA PendingKeeps ==
  ASSUME "IDCMP_CLOSEWINDOW" \notin EnvMsgs, "thumb" \notin Kinds,
         IInv, MInv, PInv, [Next]_vars
  PROVE  PInv'
<1> USE DEF PInv, NoThumbnails, PicturesRead, WaitedFor
<1>1. CASE ClearMsgPort
  <2>1. /\ ~asyncLayout
        /\ UNCHANGED <<phase, depth, hand, outstanding, asyncLayout, childPc, childKind>>
    BY <1>1 DEF ClearMsgPort, At, Closed, control, flags, others
  <2> QED BY <2>1
<1>2. CASE \/ \E m \in EnvMsgs : Send(m)
           \/ \E m \in {"ReqYes", "ReqNo"} : AnswerRequester(m)
  <2>1. PICK m \in Sent : port' = Append(port, m)
    BY <1>2 DEF Send, AnswerRequester, Sent, Replies
  <2>2. UNCHANGED <<phase, depth, hand, taken, outstanding, asyncLayout, childPc, childKind>>
    BY <1>2 DEF Send, AnswerRequester, control, flags, others
  <2>3. HasPicture(port) => HasPicture(port')
    BY <2>1, KeptNumbers, PictureFacts
  <2>4. Cause => Cause'
    BY <2>2, <2>3 DEF Cause, Reading
  <2> QED BY <2>2, <2>4
<1>3. CASE UNCHANGED vars
  BY <1>3 DEF vars, control, messages, flags, others, Cause, Reading
<1> QED BY <1>1, <1>2, <1>3, StepKinds, WalkPending, HandlePending, StartPending, ChildPending

(***************************************************************************)
(* While the user leaves the close gadget alone and no thumbnails are      *)
(* generated: iwt_IconPortOutstanding is never more than the replies the   *)
(* window waits for, and iwt_AsyncLayoutPending is only set while the      *)
(* child that reads the picture is on its way or its answer is waiting.    *)
(***************************************************************************)
THEOREM PendingCorrect ==
  ASSUME "IDCMP_CLOSEWINDOW" \notin EnvMsgs, "thumb" \notin Kinds
  PROVE  Spec => []PendingHasCause
<1>1. Init => MInv /\ PInv
  <2> SUFFICES ASSUME Init PROVE MInv /\ PInv
    OBVIOUS
  <2>1. MInv
    BY MessagesBegin
  <2>2. PInv
    BY NoHandIs DEF Init, PInv, NoThumbnails, PicturesRead, WaitedFor, Closed
  <2> QED BY <2>1, <2>2
<1>2. IInv /\ MInv /\ PInv /\ [Next]_vars => MInv' /\ PInv'
  BY MessagesKeep, PendingKeeps
<1>3. PInv => PendingHasCause
  BY DEF PInv, WaitedFor, Cause, Reading, HasPicture, PendingHasCause
<1> QED BY <1>1, <1>2, <1>3, Invariant, PTL DEF Spec
=============================================================================
