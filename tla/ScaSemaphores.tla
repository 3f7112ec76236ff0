---------------------------- MODULE ScaSemaphores ----------------------------
(***************************************************************************)
(* main/Semaphores.c: obtaining several semaphores at once.                *)
(*                                                                         *)
(* ScaAttemptSemaphoreListA tries the entries of a tag list in order under *)
(* Forbid() and undoes what it got when one entry fails.                   *)
(* ScaObtainSemaphoreListA does the same, but then waits for the entry     *)
(* that failed, gives it back and starts over.                             *)
(*                                                                         *)
(* A task's call is a cursor (pos) into its list.  forbid is the task that *)
(* has called Forbid(): no other task runs until it calls Permit() or      *)
(* waits in ObtainSemaphore, which breaks the Forbid().                    *)
(***************************************************************************)
EXTENDS SignalSemaphore, Sequences

CONSTANTS
  Sema,          \* the semaphores
  AttemptLists,  \* tag lists passed to ScaAttemptSemaphoreListA
  ObtainLists,   \* tag lists passed to ScaObtainSemaphoreListA
  MaxNest        \* bound: how often a task nests one semaphore

Mode  == {"Exclusive", "Shared", "ExclusiveNoNest"}
Entry == [mode : Mode, sema : Sema]

(***************************************************************************)
(* A list names a semaphore once.  ScaObtainSemaphoreListA has no case for *)
(* SCA_SemaphoreExclusiveNoNest, so its lists do not use that tag.         *)
(***************************************************************************)
ASSUME ListAssumption ==
  /\ AttemptLists \cup ObtainLists \subseteq Seq(Entry)
  /\ \A l \in AttemptLists \cup ObtainLists : \A i, j \in DOMAIN l :
        l[i].sema = l[j].sema => i = j
  /\ \A l \in ObtainLists : \A i \in DOMAIN l : l[i].mode # "ExclusiveNoNest"

ASSUME MaxNestAssumption == MaxNest \in Nat

VARIABLES
  sem,     \* the semaphores' state
  forbid,  \* the task inside Forbid(), or NoTask
  pc,      \* where each task is
  call,    \* the function it is in: "attempt" or "obtain"
  list,    \* its tag list
  pos,     \* the entry the loop is at
  undo,    \* the entry the release loop is at
  told     \* what the functions have reported as obtained and the caller
           \* has not released: told[t][s] times s

vars == <<sem, forbid, pc, call, list, pos, undo, told>>

PC == {"idle", "try", "undo", "wait", "got", "again"}

Init ==
  /\ sem    = [s \in Sema |-> FreeSemaphore]
  /\ forbid = NoTask
  /\ pc     = [t \in Task |-> "idle"]
  /\ call   = [t \in Task |-> "attempt"]
  /\ list   = [t \in Task |-> << >>]
  /\ pos    = [t \in Task |-> 1]
  /\ undo   = [t \in Task |-> 1]
  /\ told   = [t \in Task |-> [s \in Sema |-> 0]]

Runs(t) == forbid \in {t, NoTask}
Here(t) == list[t][pos[t]]

(***************************************************************************)
(* The call: Forbid() and the first entry.                                 *)
(***************************************************************************)
Enter(t, f, l) ==
  /\ Runs(t)
  /\ pc[t] = "idle"
  /\ \A i \in DOMAIN l : told[t][l[i].sema] < MaxNest
  /\ forbid' = t
  /\ pc'   = [pc EXCEPT ![t] = "try"]
  /\ call' = [call EXCEPT ![t] = f]
  /\ list' = [list EXCEPT ![t] = l]
  /\ pos'  = [pos EXCEPT ![t] = 1]
  /\ UNCHANGED <<sem, undo, told>>

ScaAttemptSemaphoreList(t) == \E l \in AttemptLists : Enter(t, "attempt", l)

(***************************************************************************)
(* A task that waits must not hold anything, or two tasks could wait for   *)
(* each other whatever the list functions do.                              *)
(***************************************************************************)
ScaObtainSemaphoreList(t) ==
  /\ \A s \in Sema : told[t][s] = 0
  /\ \E l \in ObtainLists : Enter(t, "obtain", l)

(***************************************************************************)
(* AttemptSemaphoreNoNest: an exclusive attempt that is given back when    *)
(* the task held the semaphore already.                                    *)
(***************************************************************************)
NestSucceeds(s, t) == CanExclusive(s, t)    \* mutant: no look at the nesting

NoNestSucceeds(s, t) ==
  CanExclusive(s, t) /\ GrabExclusive(s, t).nest[t] <= 1

AttemptSucceeds(e, t) ==
  CASE e.mode = "Exclusive"       -> CanExclusive(sem[e.sema], t)
    [] e.mode = "Shared"          -> CanShared(sem[e.sema], t)
    [] e.mode = "ExclusiveNoNest" -> NoNestSucceeds(sem[e.sema], t)

Grab(e, t) ==
  IF e.mode = "Shared" THEN GrabShared(sem[e.sema], t)
                       ELSE GrabExclusive(sem[e.sema], t)

AttemptEntry(t) ==
  /\ Runs(t)
  /\ pc[t] = "try"
  /\ pos[t] \in DOMAIN list[t]
  /\ AttemptSucceeds(Here(t), t)
  /\ sem' = [sem EXCEPT ![Here(t).sema] = Grab(Here(t), t)]
  /\ pos' = [pos EXCEPT ![t] = @ + 1]
  /\ UNCHANGED <<forbid, pc, call, list, undo, told>>

AttemptFailsKeeps(t) ==        \* mutant: a nested lock is not given back
  /\ Runs(t)
  /\ pc[t] = "try"
  /\ pos[t] \in DOMAIN list[t]
  /\ ~AttemptSucceeds(Here(t), t)
  /\ sem'  = [sem EXCEPT ![Here(t).sema] =
                IF CanExclusive(@, t) THEN GrabExclusive(@, t) ELSE @]
  /\ pc'   = [pc EXCEPT ![t] = "undo"]
  /\ undo' = [undo EXCEPT ![t] = 1]
  /\ UNCHANGED <<forbid, call, list, pos, told>>

AttemptFails(t) ==
  /\ Runs(t)
  /\ pc[t] = "try"
  /\ pos[t] \in DOMAIN list[t]
  /\ ~AttemptSucceeds(Here(t), t)
  /\ pc'   = [pc EXCEPT ![t] = "undo"]
  /\ undo' = [undo EXCEPT ![t] = 1]
  /\ UNCHANGED <<sem, forbid, call, list, pos, told>>

(***************************************************************************)
(* Every entry was obtained: Permit() and return (TRUE).                   *)
(***************************************************************************)
Succeed(t) ==
  /\ Runs(t)
  /\ pc[t] = "try"
  /\ pos[t] \notin DOMAIN list[t]
  /\ forbid' = NoTask
  /\ pc'   = [pc EXCEPT ![t] = "idle"]
  /\ told' = [told EXCEPT ![t] = [s \in Sema |->
                @[s] + IF \E i \in DOMAIN list[t] : list[t][i].sema = s
                       THEN 1 ELSE 0]]
  /\ UNCHANGED <<sem, call, list, pos, undo>>

(***************************************************************************)
(* "Release all previously obtained semaphores".                           *)
(***************************************************************************)
UndoEntryPast(t) ==            \* mutant: undoes the entry that failed, too
  /\ Runs(t)
  /\ pc[t] = "undo"
  /\ undo[t] <= pos[t]
  /\ sem'  = [sem EXCEPT ![list[t][undo[t]].sema] = Drop(@, t)]
  /\ undo' = [undo EXCEPT ![t] = @ + 1]
  /\ UNCHANGED <<forbid, pc, call, list, pos, told>>

UndoEntry(t) ==
  LET s == list[t][undo[t]].sema
  IN  /\ Runs(t)
      /\ pc[t] = "undo"
      /\ undo[t] # pos[t]
      /\ sem'  = [sem EXCEPT ![s] = Drop(@, t)]
      /\ undo' = [undo EXCEPT ![t] = @ + 1]
      /\ UNCHANGED <<forbid, pc, call, list, pos, told>>

(***************************************************************************)
(* Everything undone: the attempt returns FALSE, the obtaining function    *)
(* waits for the entry that failed.                                        *)
(***************************************************************************)
UndoDone(t) ==
  /\ Runs(t)
  /\ pc[t] = "undo"
  /\ undo[t] = pos[t]
  /\ forbid' = NoTask
  /\ pc' = [pc EXCEPT ![t] = IF call[t] = "attempt" THEN "idle" ELSE "wait"]
  /\ UNCHANGED <<sem, call, list, pos, undo, told>>

WaitDone(t) ==
  /\ Runs(t)
  /\ pc[t] = "wait"
  /\ AttemptSucceeds(Here(t), t)
  /\ sem' = [sem EXCEPT ![Here(t).sema] = Grab(Here(t), t)]
  /\ pc'  = [pc EXCEPT ![t] = "got"]
  /\ UNCHANGED <<forbid, call, list, pos, undo, told>>

GiveBackNot(t) ==              \* mutant: keeps what it has waited for
  /\ Runs(t)
  /\ pc[t] = "got"
  /\ pc'  = [pc EXCEPT ![t] = "again"]
  /\ UNCHANGED <<sem, forbid, call, list, pos, undo, told>>

GiveBack(t) ==
  /\ Runs(t)
  /\ pc[t] = "got"
  /\ sem' = [sem EXCEPT ![Here(t).sema] = Drop(@, t)]
  /\ pc'  = [pc EXCEPT ![t] = "again"]
  /\ UNCHANGED <<forbid, call, list, pos, undo, told>>

Again(t) ==
  /\ Runs(t)
  /\ pc[t] = "again"
  /\ forbid' = t
  /\ pc'  = [pc EXCEPT ![t] = "try"]
  /\ pos' = [pos EXCEPT ![t] = 1]
  /\ UNCHANGED <<sem, call, list, undo, told>>

(***************************************************************************)
(* The callers release one semaphore at a time, each as often as they were *)
(* told they have it.                                                      *)
(***************************************************************************)
ScalosReleaseSemaphore(t, s) ==
  /\ Runs(t)
  /\ pc[t] = "idle"
  /\ told[t][s] > 0
  /\ sem'  = [sem EXCEPT ![s] = Drop(@, t)]
  /\ told' = [told EXCEPT ![t][s] = @ - 1]
  /\ UNCHANGED <<forbid, pc, call, list, pos, undo>>

Inside(t) ==
  \/ AttemptEntry(t) \/ AttemptFails(t) \/ Succeed(t)
  \/ UndoEntry(t) \/ UndoDone(t)
  \/ WaitDone(t) \/ GiveBack(t) \/ Again(t)

Next ==
  \E t \in Task :
    \/ ScaAttemptSemaphoreList(t)
    \/ ScaObtainSemaphoreList(t)
    \/ Inside(t)
    \/ \E s \in Sema : ScalosReleaseSemaphore(t, s)

Spec == Init /\ [][Next]_vars
-----------------------------------------------------------------------------
TypeOK ==
  /\ sem    \in [Sema -> SemaphoreType]
  /\ forbid \in Task \cup {NoTask}
  /\ pc     \in [Task -> PC]
  /\ call   \in [Task -> {"attempt", "obtain"}]
  /\ list   \in [Task -> {<< >>} \cup AttemptLists \cup ObtainLists]
  /\ pos    \in [Task -> Nat \ {0}]
  /\ undo   \in [Task -> Nat \ {0}]
  /\ told   \in [Task -> [Sema -> Nat]]

(***************************************************************************)
(* The entries whose semaphore the current call of t holds right now.      *)
(***************************************************************************)
InHand(t) ==
  {i \in DOMAIN list[t] :
     \/ pc[t] = "try"  /\ i < pos[t]
     \/ pc[t] = "undo" /\ undo[t] <= i /\ i < pos[t]
     \/ pc[t] = "got"  /\ i = pos[t]}

(***************************************************************************)
(* All or nothing: outside a call a task has each semaphore exactly as     *)
(* often as it was told, whatever entry of whatever call failed meanwhile; *)
(* inside one, it also has the entries the loops still account for.        *)
(***************************************************************************)
Balanced ==
  \A t \in Task, s \in Sema :
    sem[s].nest[t] =
      told[t][s] + IF \E i \in InHand(t) : list[t][i].sema = s THEN 1 ELSE 0

(***************************************************************************)
(* "Try to obtain multiple Semaphores without deadlock": a task that waits *)
(* for one semaphore of its list holds no semaphore at all.                *)
(***************************************************************************)
WaitsEmptyHanded ==
  \A t \in Task : pc[t] \in {"wait", "again"} =>
    \A s \in Sema : ~Holds(sem[s], t)

(***************************************************************************)
(* The loops stay inside the tag list, and only the obtaining function,    *)
(* whose caller has nothing, comes to the wait.                            *)
(***************************************************************************)
CursorsInside ==
  \A t \in Task :
    /\ pc[t] # "idle" => list[t] \in AttemptLists \cup ObtainLists
    /\ pc[t] = "try" => pos[t] <= Len(list[t]) + 1
    /\ pc[t] \in {"undo", "wait", "got", "again"} => pos[t] \in DOMAIN list[t]
    /\ pc[t] = "undo" => undo[t] <= pos[t]
    /\ pc[t] \in {"wait", "got", "again"} => call[t] = "obtain"
    /\ pc[t] # "idle" /\ call[t] = "obtain" => \A s \in Sema : told[t][s] = 0

(***************************************************************************)
(* A SCA_SemaphoreExclusiveNoNest entry that was obtained is the first     *)
(* lock its task has on that semaphore.                                    *)
(***************************************************************************)
NoNestIsFirst ==
  \A t \in Task : pc[t] = "try" =>
    \A i \in DOMAIN list[t] :
      i < pos[t] /\ list[t][i].mode = "ExclusiveNoNest"
        => told[t][list[t][i].sema] = 0

(***************************************************************************)
(* A SCA_SemaphoreExclusiveNoNest entry is granted only to a task that did *)
(* not have that semaphore: an icon update never runs inside another one   *)
(* of the same window task.                                                *)
(***************************************************************************)
NoNestNeverNests ==
  [][\A t \in Task :
       (pc[t] = "try" /\ pc'[t] = "idle") =>
          \A i \in DOMAIN list[t] :
             list[t][i].mode = "ExclusiveNoNest" => told'[t][list[t][i].sema] = 1]_vars
=============================================================================
