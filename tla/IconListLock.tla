----------------------------- MODULE IconListLock -----------------------------
(***************************************************************************)
(* main/Window.c: the lock of a window's icon list.                        *)
(*                                                                         *)
(* The list is guarded by wt_IconSemaphore.  The window's own process      *)
(* (Own, iwt_WindowProcess) also counts its locks, so that                 *)
(* ScalosLockIconListExclusive can tell that it holds a shared lock, which *)
(* an exclusive obtain would wait for, and turn it into an exclusive one.  *)
(*                                                                         *)
(* locks[t] is what t has asked for and not yet unlocked, oldest first:    *)
(* "S" and "X" through the wrappers, "D" for the exclusive lock that an    *)
(* icon update of AutoUpdate.c takes with ScaAttemptSemaphoreList, past    *)
(* the counters, and gives back through them.                              *)
(***************************************************************************)
EXTENDS SignalSemaphore, Sequences

CONSTANTS
  Own,       \* the window process
  Relapse,   \* TRUE: Own locks exclusively inside an exclusive lock, after it
             \* has unlocked a shared lock there
  Poppers,   \* the window processes that open popup menus in this window
  MaxLocks,  \* bound: locks a task nests
  MaxPopups, \* bound: popup messages of one process on their way
  MaxVersion \* bound: changes of the list

ASSUME OwnAssumption == Own \in Task
ASSUME SwitchAssumption == Relapse \in BOOLEAN /\ Poppers \subseteq Task
ASSUME BoundAssumption == MaxLocks \in Nat /\ MaxPopups \in Nat /\ MaxVersion \in Nat

VARIABLES
  sem,              \* wt_IconSemaphore
  lockedShared,     \* iwt_IconListLockedShared
  lockedExclusive,  \* iwt_IconListLockedExclusive
  pc,               \* where each task is
  count,            \* Count of ScalosLockIconListExclusive
  forbid,           \* Own is between Forbid() and Permit()
  locks,            \* the locks each task has
  handed,           \* the popup messages each task has sent to Own and Own has
                    \* not shown, oldest first: each carries a lock and an icon,
                    \* as the version of the list the icon was found in
  overtaken,        \* ghost: how many of its messages, the oldest ones, a task
                    \* has overtaken: it let go of their locks in an upgrade,
                    \* or has changed the list itself
  mixed,            \* ghost: Own has shown another process's menu while it had
                    \* sent a message to itself
  version,          \* the icon list, as the number of its changes
  seen              \* the version a task holding a lock has read

vars == <<sem, lockedShared, lockedExclusive, pc, count, forbid, locks,
          handed, overtaken, mixed, version, seen>>

popups == <<handed, overtaken, mixed>>

counters == <<lockedShared, lockedExclusive>>

PC == {"idle", "tryShared", "tryNested", "tryExclusive", "waitShared",
       "lockExclusive", "relock", "waitExclusive"}

Init ==
  /\ sem = FreeSemaphore
  /\ lockedShared = 0
  /\ lockedExclusive = 0
  /\ pc = [t \in Task |-> "idle"]
  /\ count = 0
  /\ forbid = FALSE
  /\ locks = [t \in Task |-> << >>]
  /\ handed = [t \in Task |-> << >>]
  /\ overtaken = [t \in Task |-> 0]
  /\ mixed = FALSE
  /\ version = 0
  /\ seen = [t \in Task |-> 0]

(***************************************************************************)
(* Under Own's Forbid() the others run only while Own waits in             *)
(* ObtainSemaphore.                                                        *)
(***************************************************************************)
Runs(t) == ~forbid \/ t = Own \/ ~CanExclusive(sem, Own)

Goto(t, l) == pc' = [pc EXCEPT ![t] = l]

(***************************************************************************)
(* The lock is granted: the call returns and its caller reads the list.    *)
(***************************************************************************)
Granted(t, kind) ==
  /\ Goto(t, "idle")
  /\ locks' = [locks EXCEPT ![t] = Append(@, kind)]
  /\ seen'  = [seen EXCEPT ![t] = IF locks[t] = << >> THEN version ELSE @]

CountSharedOfAnyone(t) ==      \* mutant: no look at FindTask()
  /\ lockedShared' = lockedShared + 1
  /\ UNCHANGED lockedExclusive

CountShared(t) ==
  /\ lockedShared' = lockedShared + IF t = Own THEN 1 ELSE 0
  /\ UNCHANGED lockedExclusive

CountExclusive(t) ==
  /\ lockedExclusive' = lockedExclusive + IF t = Own THEN 1 ELSE 0
  /\ UNCHANGED lockedShared

MayNest(t) == pc[t] = "idle" /\ Runs(t) /\ Len(locks[t]) < MaxLocks
-----------------------------------------------------------------------------
(***************************************************************************)
(* ScalosLockIconListShared: ScalosAttemptSemaphoreShared (a shared, then  *)
(* an exclusive attempt), an exclusive attempt, and a wait.  The semaphore *)
(* may change hands between any two of them.                               *)
(***************************************************************************)
ScalosLockIconListShared(t) ==
  /\ MayNest(t)
  /\ Goto(t, "tryShared")
  /\ UNCHANGED <<sem, counters, count, forbid, locks, popups, version, seen>>

TakeShared(t) ==
  /\ sem' = GrabShared(sem, t)
  /\ CountShared(t)
  /\ Granted(t, "S")
  /\ UNCHANGED <<count, forbid, popups, version>>

AttemptShared(t) ==
  /\ pc[t] = "tryShared" /\ Runs(t)
  /\ \/ CanShared(sem, t) /\ TakeShared(t)
     \/ /\ ~CanShared(sem, t)
        /\ Goto(t, "tryNested")
        /\ UNCHANGED <<sem, counters, count, forbid, locks, popups, version, seen>>

(***************************************************************************)
(* The second half of ScalosAttemptSemaphoreShared: an exclusive lock that *)
(* is counted as a shared one.                                             *)
(***************************************************************************)
AttemptNested(t) ==
  /\ pc[t] = "tryNested" /\ Runs(t)
  /\ \/ /\ CanExclusive(sem, t)
        /\ sem' = GrabExclusive(sem, t)
        /\ CountShared(t)
        /\ Granted(t, "S")
        /\ UNCHANGED <<count, forbid, popups, version>>
     \/ /\ ~CanExclusive(sem, t)
        /\ Goto(t, "tryExclusive")
        /\ UNCHANGED <<sem, counters, count, forbid, locks, popups, version, seen>>

AttemptExclusive(t) ==
  /\ pc[t] = "tryExclusive" /\ Runs(t)
  /\ \/ /\ CanExclusive(sem, t)
        /\ sem' = GrabExclusive(sem, t)
        /\ CountExclusive(t)
        /\ Granted(t, "S")
        /\ UNCHANGED <<count, forbid, popups, version>>
     \/ /\ ~CanExclusive(sem, t)
        /\ Goto(t, "waitShared")
        /\ UNCHANGED <<sem, counters, count, forbid, locks, popups, version, seen>>

(***************************************************************************)
(* exec may hand a released semaphore to a waiting task at once, inside    *)
(* ReleaseSemaphore: the grants to waiting tasks do not ask for Runs(t).   *)
(***************************************************************************)
ObtainShared(t) ==
  /\ pc[t] = "waitShared"
  /\ CanShared(sem, t)
  /\ TakeShared(t)
-----------------------------------------------------------------------------
(***************************************************************************)
(* ScalosLockIconListExclusive.  Only the window process may ask for it    *)
(* while it holds shared locks.                                            *)
(***************************************************************************)
HasExclusive(t) == \E i \in DOMAIN locks[t] : locks[t][i] = "X"

(***************************************************************************)
(* ScalosUnLockIconList counts down an exclusive lock for whatever lock is *)
(* given back: after a shared lock inside an exclusive one, the exclusive  *)
(* one is counted as shared.                                               *)
(***************************************************************************)
Miscounted == HasExclusive(Own) /\ lockedExclusive = 0

ScalosLockIconListExclusive(t) ==
  /\ MayNest(t)
  /\ IF t = Own THEN Relapse \/ ~Miscounted
                ELSE locks[t] = << >> \/ sem.owner = t
  /\ Goto(t, "lockExclusive")
  /\ UNCHANGED <<sem, counters, count, forbid, locks, popups, version, seen>>

Overtakes(t) == overtaken' = [overtaken EXCEPT ![t] = Len(handed[t])]

LockedShared(t) == t = Own /\ lockedShared > 0

NestAfterReleaseAll(t)  == 0   \* mutant: exclusive locks are released too
NestAfterRelease(t)     == sem.nest[t] - lockedShared

(***************************************************************************)
(* "release all shared locks, and establish exclusive lock(s)"             *)
(***************************************************************************)
Upgrade(t) ==
  /\ pc[t] = "lockExclusive" /\ Runs(t)
  /\ LockedShared(t)
  /\ count' = lockedShared
  /\ lockedShared' = 0
  /\ sem' = LET left == NestAfterRelease(t)
            IN  [owner |-> IF left = 0 THEN NoTask ELSE sem.owner,
                 nest  |-> [sem.nest EXCEPT ![t] = left]]
  /\ forbid' = TRUE
  /\ Overtakes(t)
  /\ Goto(t, "relock")
  /\ UNCHANGED <<lockedExclusive, locks, handed, mixed, version, seen>>

Relock(t) ==
  /\ pc[t] = "relock"
  /\ count > 0
  /\ CanExclusive(sem, t)
  /\ lockedExclusive' = lockedExclusive + 1
  /\ sem' = GrabExclusive(sem, t)
  /\ count' = count - 1
  /\ UNCHANGED <<lockedShared, pc, forbid, locks, popups, version, seen>>

RelockedNoPermit(t) ==         \* mutant: Permit() is missing
  /\ pc[t] = "relock"
  /\ count = 0
  /\ seen' = [seen EXCEPT ![t] = version]
  /\ Goto(t, "waitExclusive")
  /\ UNCHANGED <<sem, counters, count, forbid, locks, popups, version>>

Relocked(t) ==
  /\ pc[t] = "relock"
  /\ count = 0
  /\ forbid' = FALSE
  /\ seen' = [seen EXCEPT ![t] = version]
  /\ Goto(t, "waitExclusive")
  /\ UNCHANGED <<sem, counters, count, locks, popups, version>>

NoUpgrade(t) ==
  /\ pc[t] = "lockExclusive" /\ Runs(t)
  /\ ~LockedShared(t)
  /\ Goto(t, "waitExclusive")
  /\ UNCHANGED <<sem, counters, count, forbid, locks, popups, version, seen>>

ObtainSharedInstead(t) ==      \* mutant: ScalosObtainSemaphoreShared
  /\ pc[t] = "waitExclusive"
  /\ CanShared(sem, t)
  /\ sem' = GrabShared(sem, t)
  /\ CountExclusive(t)
  /\ Granted(t, "X")
  /\ UNCHANGED <<count, forbid, popups, version>>

ObtainExclusive(t) ==
  /\ pc[t] = "waitExclusive"
  /\ CanExclusive(sem, t)
  /\ sem' = GrabExclusive(sem, t)
  /\ CountExclusive(t)
  /\ Granted(t, "X")
  /\ UNCHANGED <<count, forbid, popups, version>>
-----------------------------------------------------------------------------
(***************************************************************************)
(* ScalosAttemptLockIconListShared fails without a trace; it succeeds with *)
(* the first attempt of ScalosLockIconListShared, or with the second, to   *)
(* the same effect as AttemptNested.                                       *)
(***************************************************************************)
ScalosAttemptLockIconListShared(t) ==
  /\ MayNest(t)
  /\ CanShared(sem, t)
  /\ TakeShared(t)

ScalosAttemptLockIconListExclusive(t) ==
  /\ MayNest(t)
  /\ CanExclusive(sem, t)
  /\ sem' = GrabExclusive(sem, t)
  /\ CountExclusive(t)
  /\ Granted(t, "X")
  /\ UNCHANGED <<count, forbid, popups, version>>

(***************************************************************************)
(* An icon update of the window process locks the semaphore itself; its    *)
(* update semaphore does not nest.                                         *)
(***************************************************************************)
IsUpdating == \E i \in DOMAIN locks[Own] : locks[Own][i] = "D"

UpdateLock ==
  /\ MayNest(Own)
  /\ ~IsUpdating
  /\ CanExclusive(sem, Own)
  /\ sem' = GrabExclusive(sem, Own)
  /\ Granted(Own, "D")
  /\ UNCHANGED <<counters, count, forbid, popups, version>>

(***************************************************************************)
(* ScalosUnLockIconList counts an exclusive lock down first, whichever the *)
(* caller's innermost lock is.                                             *)
(***************************************************************************)
CountDownBlindly(t) ==         \* mutant: counts below zero
  IF t # Own THEN UNCHANGED counters
  ELSE IF lockedExclusive > 0
       THEN lockedExclusive' = lockedExclusive - 1 /\ UNCHANGED lockedShared
       ELSE lockedShared' = lockedShared - 1 /\ UNCHANGED lockedExclusive

CountDown(t) ==
  CASE t = Own /\ lockedExclusive > 0 ->
         /\ lockedExclusive' = lockedExclusive - 1
         /\ UNCHANGED lockedShared
    [] t = Own /\ lockedExclusive = 0 /\ lockedShared > 0 ->
         /\ lockedShared' = lockedShared - 1
         /\ UNCHANGED lockedExclusive
    [] OTHER -> UNCHANGED counters

Top(t) == locks[t][Len(locks[t])]
Pop(t) == locks' = [locks EXCEPT ![t] = SubSeq(@, 1, Len(@) - 1)]

ScalosUnLockIconList(t) ==
  /\ pc[t] = "idle" /\ Runs(t)
  /\ locks[t] # << >>
  /\ CountDown(t)
  /\ sem' = Drop(sem, t)
  /\ Pop(t)
  /\ UNCHANGED <<pc, count, forbid, popups, version, seen>>

(***************************************************************************)
(* A process that reads a click in its port locks the list of the window   *)
(* under the pointer, mostly its own, finds an icon there and leaves the   *)
(* lock to the MTYP_ShowPopupMenu message it sends to that window.         *)
(***************************************************************************)
SendPopupUnlocked(t) ==        \* mutant: the sender gives the lock back itself
  /\ t \in Poppers
  /\ pc[t] = "idle" /\ Runs(t)
  /\ locks[t] = << "S" >>
  /\ Len(handed[t]) < MaxPopups
  /\ Pop(t)
  /\ CountDown(t)
  /\ sem' = Drop(sem, t)
  /\ handed' = [handed EXCEPT ![t] = Append(@, seen[t])]
  /\ UNCHANGED <<pc, count, forbid, overtaken, mixed, version, seen>>

SendPopup(t) ==
  /\ t \in Poppers
  /\ pc[t] = "idle" /\ Runs(t)
  /\ locks[t] = << "S" >>
  /\ Len(handed[t]) < MaxPopups
  /\ Pop(t)
  /\ handed' = [handed EXCEPT ![t] = Append(@, seen[t])]
  /\ UNCHANGED <<sem, counters, pc, count, forbid, overtaken, mixed, version, seen>>

(***************************************************************************)
(* Own shows the menu, and unlocks in its own name, when it reads its port *)
(* or, if the menu had to wait for the window, when that becomes active;   *)
(* it has no other locks then.                                             *)
(***************************************************************************)
ShowPopup(t) ==
  /\ handed[t] # << >>
  /\ pc[Own] = "idle" /\ Runs(Own) /\ locks[Own] = << >>
  /\ handed' = [handed EXCEPT ![t] = Tail(@)]
  /\ overtaken' = [overtaken EXCEPT ![t] = IF @ > 0 THEN @ - 1 ELSE 0]
  /\ mixed' = IF t = Own THEN mixed /\ Len(handed[t]) > 1
                         ELSE mixed \/ handed[Own] # << >>
  /\ CountDown(Own)
  /\ sem' = Drop(sem, t)
  /\ UNCHANGED <<pc, count, forbid, locks, version, seen>>

(***************************************************************************)
(* A task that was granted an exclusive lock changes the list.             *)
(***************************************************************************)
ChangeList(t) ==
  /\ pc[t] = "idle" /\ Runs(t)
  /\ locks[t] # << >> /\ Top(t) \in {"X", "D"}
  /\ version < MaxVersion
  /\ version' = version + 1
  /\ seen' = [seen EXCEPT ![t] = version + 1]
  /\ Overtakes(t)
  /\ UNCHANGED <<sem, counters, pc, count, forbid, locks, handed, mixed>>

Inside(t) ==
  \/ AttemptShared(t) \/ AttemptNested(t) \/ AttemptExclusive(t)
  \/ ObtainShared(t)
  \/ Upgrade(t) \/ Relock(t) \/ Relocked(t) \/ NoUpgrade(t)
  \/ ObtainExclusive(t)

Next ==
  \E t \in Task :
    \/ ScalosLockIconListShared(t)
    \/ ScalosLockIconListExclusive(t)
    \/ Inside(t)
    \/ ScalosAttemptLockIconListShared(t)
    \/ ScalosAttemptLockIconListExclusive(t)
    \/ t = Own /\ UpdateLock
    \/ ScalosUnLockIconList(t)
    \/ SendPopup(t)
    \/ ShowPopup(t)
    \/ ChangeList(t)

Spec == Init /\ [][Next]_vars

(***************************************************************************)
(* A call goes on while the semaphore is free again and again, whoever has *)
(* the lock gives it back, and Own reads its port when it can.             *)
(***************************************************************************)
Fairness ==
  \A t \in Task : /\ SF_vars(Inside(t))
                  /\ SF_vars(ScalosUnLockIconList(t))
                  /\ SF_vars(ShowPopup(t))

FairSpec == Spec /\ Fairness
-----------------------------------------------------------------------------
TypeOK ==
  /\ sem \in SemaphoreType
  /\ lockedShared \in Nat
  /\ lockedExclusive \in Nat
  /\ pc \in [Task -> PC]
  /\ count \in Nat
  /\ forbid \in BOOLEAN
  /\ locks \in [Task -> Seq({"S", "X", "D"})]
  /\ handed \in [Task -> Seq(Nat)]
  /\ overtaken \in [Task -> Nat]
  /\ mixed \in BOOLEAN
  /\ version \in Nat
  /\ seen \in [Task -> Nat]

(***************************************************************************)
(* The counters of the window process never claim a lock it does not have, *)
(* and they are exact while it shares the list: through every nesting of   *)
(* shared, exclusive and uncounted locks, and with messages to itself on   *)
(* the way, each shared lock that stands in the way of an exclusive one is *)
(* known to ScalosLockIconListExclusive.  So nobody waits for the          *)
(* exclusive lock while he shares it himself: "calling ScalosObtainSema-   *)
(* phore now guarantees a deadlock".  The exceptions are locks that only   *)
(* Own can give back: those other processes' messages carry, and its own   *)
(* ones that it has counted down for another process's menu; it still      *)
(* counts every lock it nests.                                             *)
(***************************************************************************)
LocksUnderWay(t) == IF t # Own \/ mixed THEN Len(handed[t]) ELSE 0

CountersMatch ==
  /\ lockedShared + lockedExclusive <= sem.nest[Own]
  /\ sem.owner # Own /\ pc[Own] # "relock" =>
       IF mixed THEN lockedShared >= Len(locks[Own])
                ELSE lockedShared = sem.nest[Own]
  /\ \A t \in Task :
       pc[t] \in {"waitExclusive", "relock"} /\ sem.nest[t] > LocksUnderWay(t)
         => sem.owner = t

(***************************************************************************)
(* A caller that was granted an exclusive lock is alone with the list      *)
(* until it unlocks, whatever the wrappers do to locks above and below it. *)
(***************************************************************************)
ExclusiveIsAlone ==
  \A t \in Task :
    (\E i \in DOMAIN locks[t] : locks[t][i] \in {"X", "D"})
      => \A u \in Task \ {t} : ~Holds(sem, u)

(***************************************************************************)
(* While a task has a lock, the list is as the task last read or left it,  *)
(* and the icon in a popup message is in the list until the menu is shown, *)
(* for the lock the message carries.  Only the upgrade lets go of locks    *)
(* that are still counted on: the caller must read the list again after    *)
(* it, and the icon of a message the window process has sent to itself     *)
(* before may be gone.  So it may if the sender has changed the list, with *)
(* a lock nested in the one it has sent.                                   *)
(***************************************************************************)
ListStableUnderLock ==
  \A t \in Task :
    /\ locks[t] # << >> /\ pc[t] # "relock" => seen[t] = version
    /\ \A i \in DOMAIN handed[t] : i > overtaken[t] => handed[t][i] = version

(***************************************************************************)
(* Without popup messages of other processes, a call that locks the list   *)
(* returns, unless other processes take the list over and over again; in   *)
(* particular the upgrade of the window process always comes to an end,    *)
(* with messages to itself on the way, too.                                *)
(***************************************************************************)
LockReturns ==
  \A t \in Task :
    pc[t] # "idle" ~> pc[t] = "idle" \/ \E u \in Task \ {t} : locks[u] # << >>
=============================================================================
