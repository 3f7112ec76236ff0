--------------------------- MODULE SignalSemaphore ---------------------------
(***************************************************************************)
(* The signal semaphores of exec.library, as far as Scalos relies on them. *)
(* exec is not part of the repository; the operators below describe what   *)
(* the wrappers of main/Semaphores.c expect of it.                         *)
(*                                                                         *)
(* A semaphore is [owner, nest].  While a task holds it exclusively, owner *)
(* is that task (ss_Owner); while it is shared or free, owner is NoTask.   *)
(* nest[t] is how many times t has obtained it and not yet released it     *)
(* (ss_NestCount is their sum).                                            *)
(***************************************************************************)
EXTENDS Naturals

CONSTANTS
  Task,    \* the processes that use semaphores
  NoTask   \* ss_Owner of a free or shared semaphore

ASSUME NoTaskAssumption == NoTask \notin Task

SemaphoreType == [owner : Task \cup {NoTask}, nest : [Task -> Nat]]

FreeSemaphore == [owner |-> NoTask, nest |-> [t \in Task |-> 0]]

Holds(s, t) == s.nest[t] > 0
Idle(s)     == \A t \in Task : s.nest[t] = 0

(***************************************************************************)
(* AttemptSemaphore succeeds on a free semaphore and nests for its owner.  *)
(* AttemptSemaphoreShared also joins other shared holders.  Neither lets a *)
(* task turn a shared lock of its own into an exclusive one: asking for it *)
(* with ObtainSemaphore blocks the task for ever.                          *)
(***************************************************************************)
CanExclusive(s, t) == s.owner = t \/ Idle(s)
CanShared(s, t)    == s.owner \in {t, NoTask}

OneMore(nest, t) == [nest EXCEPT ![t] = @ + 1]

GrabExclusive(s, t) == [owner |-> t, nest |-> OneMore(s.nest, t)]
GrabShared(s, t)    == [owner |-> s.owner, nest |-> OneMore(s.nest, t)]

(***************************************************************************)
(* ReleaseSemaphore by a task that holds the semaphore.                    *)
(***************************************************************************)
Drop(s, t) == [owner |-> IF s.nest[t] = 1 THEN NoTask ELSE s.owner,
               nest  |-> [s.nest EXCEPT ![t] = @ - 1]]

(***************************************************************************)
(* Either nobody owns the semaphore exclusively, or the owner is its only  *)
(* holder.                                                                 *)
(***************************************************************************)
Exclusive(s) ==
  s.owner # NoTask => /\ Holds(s, s.owner)
                      /\ \A t \in Task \ {s.owner} : s.nest[t] = 0
=============================================================================
