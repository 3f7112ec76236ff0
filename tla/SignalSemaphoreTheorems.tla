----------------------- MODULE SignalSemaphoreTheorems -----------------------
(***************************************************************************)
(* What obtaining and releasing do to one semaphore, for every set of      *)
(* tasks.  The proofs about the modules that use semaphores cite these.    *)
(***************************************************************************)
EXTENDS SignalSemaphore, TLAPS

(***************************************************************************)
(* A new semaphore is well formed, idle and owned by nobody.               *)
(***************************************************************************)
LEMMA FreeSemaphoreFacts ==
  /\ FreeSemaphore \in SemaphoreType
  /\ Idle(FreeSemaphore)
  /\ Exclusive(FreeSemaphore)
  /\ \A t \in Task : FreeSemaphore.nest[t] = 0
BY DEF FreeSemaphore, SemaphoreType, Idle, Exclusive

(***************************************************************************)
(* An exclusive obtain counts one more lock of its task, nothing else, and *)
(* leaves the semaphore to its task alone.                                 *)
(***************************************************************************)
LEMMA GrabExclusiveFacts ==
  ASSUME NEW s \in SemaphoreType, NEW t \in Task
  PROVE  /\ GrabExclusive(s, t) \in SemaphoreType
         /\ GrabExclusive(s, t).owner = t
         /\ \A u \in Task : GrabExclusive(s, t).nest[u] =
                              s.nest[u] + IF u = t THEN 1 ELSE 0
         /\ Exclusive(s) /\ CanExclusive(s, t) => Exclusive(GrabExclusive(s, t))
BY NoTaskAssumption
DEF SemaphoreType, GrabExclusive, OneMore, Exclusive, CanExclusive, Holds, Idle

(***************************************************************************)
(* A shared obtain counts one more lock of its task, nothing else.         *)
(***************************************************************************)
LEMMA GrabSharedFacts ==
  ASSUME NEW s \in SemaphoreType, NEW t \in Task
  PROVE  /\ GrabShared(s, t) \in SemaphoreType
         /\ GrabShared(s, t).owner = s.owner
         /\ \A u \in Task : GrabShared(s, t).nest[u] =
                              s.nest[u] + IF u = t THEN 1 ELSE 0
         /\ Exclusive(s) /\ CanShared(s, t) => Exclusive(GrabShared(s, t))
BY NoTaskAssumption
DEF SemaphoreType, GrabShared, OneMore, Exclusive, CanShared, Holds

(***************************************************************************)
(* A release by a task that holds the semaphore counts one lock less of    *)
(* this task; the last release of an owner leaves no owner.                *)
(***************************************************************************)
LEMMA DropFacts ==
  ASSUME NEW s \in SemaphoreType, NEW t \in Task, Holds(s, t)
  PROVE  /\ Drop(s, t) \in SemaphoreType
         /\ Drop(s, t).owner \in {s.owner, NoTask}
         /\ s.nest[t] = 1 => Drop(s, t).owner = NoTask
         /\ \A u \in Task : Drop(s, t).nest[u] =
                              s.nest[u] - IF u = t THEN 1 ELSE 0
         /\ Exclusive(s) => Exclusive(Drop(s, t))
BY NoTaskAssumption DEF SemaphoreType, Drop, Exclusive, Holds
=============================================================================
