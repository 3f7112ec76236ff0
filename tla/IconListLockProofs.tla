-------------------------- MODULE IconListLockProofs --------------------------
(***************************************************************************)
(* For every set of tasks: the counters of the window process agree with   *)
(* wt_IconSemaphore, and, if callers do not lock exclusively after a       *)
(* relapse, whoever locks the icon list exclusively is alone with it and   *)
(* a list that is locked stays as it was read.                             *)
(*                                                                         *)
(* What carries the argument is that every obtain of the semaphore is      *)
(* accounted for: by a lock of its task, by a popup message, or by Count   *)
(* of an upgrade that is on its way.                                       *)
(***************************************************************************)
EXTENDS IconListLock, SignalSemaphoreTheorems, SequenceTheorems

(***************************************************************************)
(* What t has obtained is what it has asked for and what it has handed     *)
(* over; an upgrade has Count obtains to make up for.                      *)
(***************************************************************************)
Owed(t) == IF t = Own THEN count ELSE 0

LocksCounted ==
  \A t \in Task : sem.nest[t] + Owed(t) = Len(locks[t]) + Len(handed[t])

(***************************************************************************)
(* The window process counts exclusive locks only while it owns the list.  *)
(***************************************************************************)
NoExclusive == sem.owner # Own => lockedExclusive = 0

(***************************************************************************)
(* Only the window process upgrades, and it has no shared locks then.      *)
(***************************************************************************)
OwnRelocks ==
  /\ \A t \in Task : pc[t] = "relock" => t = Own /\ lockedShared = 0
  /\ pc[Own] # "relock" => count = 0

(***************************************************************************)
(* The exclusive lock of an icon update is in no counter.                  *)
(***************************************************************************)
UpdateUncounted == IsUpdating => lockedShared + lockedExclusive < sem.nest[Own]

(***************************************************************************)
(* Another task that asks for an exclusive lock has none, or owns the list *)
(* already.                                                                *)
(***************************************************************************)
AsksAlone ==
  \A t \in Task \ {Own} :
    pc[t] \in {"lockExclusive", "waitExclusive"} /\ locks[t] # << >>
      => sem.owner = t

IInv ==
  /\ TypeOK /\ Exclusive(sem)
  /\ LocksCounted /\ NoExclusive /\ OwnRelocks
  /\ CountersMatch /\ UpdateUncounted /\ AsksAlone

(***************************************************************************)
(* A caller that was granted an exclusive lock is the owner, and the       *)
(* window process never asks for one after a relapse.                      *)
(***************************************************************************)
IsExclusive(t) == \E i \in DOMAIN locks[t] : locks[t][i] \in {"X", "D"}

ExclusiveOwns ==
  /\ \A t \in Task : IsExclusive(t) => sem.owner = t
  /\ pc[Own] = "lockExclusive" => ~Miscounted

(***************************************************************************)
(* An upgrade overtakes the messages the window process sent to itself.    *)
(***************************************************************************)
UpgradeOvertakes == pc[Own] = "relock" => overtaken[Own] = Len(handed[Own])

EInv == ExclusiveOwns /\ UpgradeOvertakes /\ ListStableUnderLock
-----------------------------------------------------------------------------
(***************************************************************************)
(* The two sides of LocksCounted, and one of them with a popup message.    *)
(***************************************************************************)
LEMMA Balance ==
  ASSUME NEW n \in Nat, NEW o \in Nat, NEW l \in Nat, NEW h \in Nat, n + o = l + h
  PROVE  /\ (n + 1) + o = (l + 1) + h
         /\ o = 0 /\ h > 0 => n > 0
         /\ o = 0 => n >= h /\ n - h = l
OBVIOUS

(***************************************************************************)
(* Stacks of locks.                                                        *)
(***************************************************************************)
Kind == {"S", "X", "D"}
Has(s, K) == \E i \in DOMAIN s : s[i] \in K

LEMMA PushFacts ==
  ASSUME NEW s \in Seq(Kind), NEW k \in Kind
  PROVE  /\ Append(s, k) \in Seq(Kind) /\ Append(s, k) # << >>
         /\ Len(Append(s, k)) = Len(s) + 1
         /\ \A K : Has(Append(s, k), K) => k \in K \/ Has(s, K)
<1>1. /\ Len(s) \in Nat /\ DOMAIN s = 1 .. Len(s)
      /\ DOMAIN Append(s, k) = 1 .. Len(s) + 1
  BY LenProperties, AppendProperties
<1>2. /\ \A i \in 1 .. Len(s) : Append(s, k)[i] = s[i]
      /\ Append(s, k)[Len(s) + 1] = k
  BY AppendProperties
<1>3. \A K : Has(Append(s, k), K) => k \in K \/ Has(s, K)
  BY <1>1, <1>2 DEF Has
<1> QED BY <1>3, AppendProperties

LEMMA PopFacts ==
  ASSUME NEW s \in Seq(Kind), s # << >>
  PROVE  /\ SubSeq(s, 1, Len(s) - 1) \in Seq(Kind)
         /\ Len(s) \in Nat \ {0}
         /\ Len(SubSeq(s, 1, Len(s) - 1)) = Len(s) - 1
         /\ \A K : Has(SubSeq(s, 1, Len(s) - 1), K) => Has(s, K)
         /\ \A K : Has(SubSeq(s, 1, Len(s) - 1), K) => Len(s) - 1 > 0
<1>1. Len(s) \in Nat \ {0} /\ DOMAIN s = 1 .. Len(s)
  BY LenProperties, EmptySeq
<1> DEFINE r == SubSeq(s, 1, Len(s) - 1)
<1>2. /\ r \in Seq(Kind) /\ Len(r) = Len(s) - 1
      /\ \A i \in 1 .. Len(s) - 1 : r[i] = s[i]
  BY <1>1, SubSeqProperties, ElementOfSeq
<1>3. DOMAIN r = 1 .. Len(s) - 1
  BY <1>2, LenProperties
<1> HIDE DEF r
<1>4. \A K : Has(r, K) => Has(s, K) /\ Len(s) - 1 > 0
  BY <1>1, <1>2, <1>3 DEF Has
<1> QED BY <1>1, <1>2, <1>4 DEF r

LEMMA StackOf ==
  ASSUME TypeOK, NEW t \in Task
  PROVE  /\ locks[t] \in Seq(Kind) /\ Len(locks[t]) \in Nat
         /\ (locks[t] = << >> <=> Len(locks[t]) = 0)
         /\ handed[t] \in Seq(Nat) /\ Len(handed[t]) \in Nat
         /\ (handed[t] = << >> <=> Len(handed[t]) = 0)
<1>1. locks[t] \in Seq(Kind) /\ handed[t] \in Seq(Nat)
  BY DEF TypeOK, Kind
<1> QED BY <1>1, LenProperties, EmptySeq
-----------------------------------------------------------------------------
(***************************************************************************)
(* A call that obtains the semaphore once and returns: what the attempts   *)
(* and waits have in common.                                               *)
(***************************************************************************)
Obtained(t, kind) ==
  /\ pc[t] # "relock"
  /\ \/ kind = "S" /\ CanShared(sem, t) /\ sem' = GrabShared(sem, t) /\ CountShared(t)
     \/ /\ CanExclusive(sem, t) /\ sem' = GrabExclusive(sem, t)
        /\ \/ kind # "D" /\ (CountShared(t) \/ CountExclusive(t))
           \/ kind = "D" /\ t = Own /\ UNCHANGED counters
  /\ Granted(t, kind)
  /\ UNCHANGED <<count, forbid, popups, version>>

LEMMA ObtainFacts ==
  ASSUME IInv, NEW t \in Task, NEW kind \in Kind, Obtained(t, kind)
  PROVE  /\ sem' \in SemaphoreType /\ Exclusive(sem')
         /\ \A u \in Task : sem'.nest[u] = sem.nest[u] + IF u = t THEN 1 ELSE 0
         /\ \/ sem'.owner = t
            \/ kind = "S" /\ sem'.owner = NoTask /\ sem.owner = NoTask
               /\ lockedShared' = lockedShared + IF t = Own THEN 1 ELSE 0
         /\ sem.owner \in {NoTask, t}
         /\ \A u \in Task \ {t} : sem.nest[u] > 0 =>
               sem'.owner = NoTask /\ sem.owner = NoTask
<1>1. sem \in SemaphoreType /\ Exclusive(sem)
  BY DEF IInv, TypeOK
<1>2. CASE CanShared(sem, t) /\ sem' = GrabShared(sem, t) /\ kind = "S" /\ CountShared(t)
  <2>1. sem.owner \in {t, NoTask}
    BY <1>2 DEF CanShared
  <2>2. \A u \in Task \ {t} : sem.nest[u] > 0 => sem.owner = NoTask
    BY <1>1, <2>1, NoTaskAssumption DEF Exclusive, SemaphoreType
  <2> QED BY <1>1, <1>2, <2>1, <2>2, GrabSharedFacts DEF CountShared
<1>3. CASE CanExclusive(sem, t) /\ sem' = GrabExclusive(sem, t)
  <2>1. \A u \in Task \ {t} : ~(sem.nest[u] > 0)
    BY <1>1, <1>3, NoTaskAssumption DEF Exclusive, SemaphoreType, CanExclusive, Idle
  <2>2. sem.owner \in {NoTask, t}
    BY <1>1, <1>3 DEF Exclusive, SemaphoreType, CanExclusive, Idle, Holds
  <2> QED BY <1>1, <1>3, <2>1, <2>2, GrabExclusiveFacts
<1> QED BY <1>2, <1>3 DEF Obtained

LEMMA ObtainKeeps ==
  ASSUME IInv, NEW t \in Task, NEW kind \in Kind, Obtained(t, kind)
  PROVE  IInv'
<1> DEFINE one(u) == IF u = t THEN 1 ELSE 0
<1>1. /\ sem' \in SemaphoreType /\ Exclusive(sem')
      /\ \A u \in Task : sem'.nest[u] = sem.nest[u] + one(u)
      /\ \/ sem'.owner = t
         \/ kind = "S" /\ sem'.owner = NoTask /\ sem.owner = NoTask
            /\ lockedShared' = lockedShared + IF t = Own THEN 1 ELSE 0
      /\ sem.owner \in {NoTask, t}
      /\ \A u \in Task \ {t} : sem.nest[u] > 0 => sem'.owner = NoTask /\ sem.owner = NoTask
  BY ObtainFacts
<1>2. /\ pc[t] # "relock" /\ pc' = [pc EXCEPT ![t] = "idle"]
      /\ locks' = [locks EXCEPT ![t] = Append(@, kind)]
      /\ count' = count /\ handed' = handed /\ overtaken' = overtaken /\ mixed' = mixed
      /\ version' = version /\ forbid' = forbid
      /\ seen' \in [Task -> Nat]
  BY DEF Obtained, Granted, Goto, popups, IInv, TypeOK
<1>3. /\ TypeOK /\ LocksCounted /\ NoExclusive /\ OwnRelocks /\ CountersMatch
      /\ UpdateUncounted /\ AsksAlone
      /\ sem \in SemaphoreType /\ Own \in Task /\ Exclusive(sem)
  BY OwnAssumption DEF IInv, TypeOK
<1>4. /\ lockedShared' \in Nat /\ lockedExclusive' \in Nat
      /\ t = Own /\ kind # "D" => lockedShared' + lockedExclusive'
                                    = (lockedShared + lockedExclusive) + 1
      /\ t # Own \/ kind = "D" => lockedShared' + lockedExclusive'
                                    = lockedShared + lockedExclusive
      /\ t # Own => lockedShared' = lockedShared
      /\ pc'[Own] # "relock" => count = 0
  <2>1. lockedShared \in Nat /\ lockedExclusive \in Nat
    BY <1>3 DEF TypeOK
  <2>2. pc'[Own] # "relock" => count = 0
    BY <1>2, <1>3 DEF OwnRelocks, TypeOK
  <2>3. CASE t = Own
    BY <2>1, <2>2, <2>3 DEF Obtained, CountShared, CountExclusive, counters
  <2>4. CASE t # Own
    BY <2>1, <2>2, <2>4 DEF Obtained, CountShared, CountExclusive, counters
  <2> QED BY <2>3, <2>4
<1>own. /\ t = Own => sem'.nest[Own] = sem.nest[Own] + 1
        /\ t # Own => sem'.nest[Own] = sem.nest[Own]
  <2>1. sem'.nest[Own] = sem.nest[Own] + one(Own) /\ sem.nest[Own] \in Nat
    BY <1>1, <1>3 DEF SemaphoreType
  <2> QED BY <2>1
<1>5. /\ locks'[t] = Append(locks[t], kind)
      /\ locks'[t] \in Seq(Kind) /\ Len(locks'[t]) = Len(locks[t]) + 1
      /\ \A K : Has(locks'[t], K) => kind \in K \/ Has(locks[t], K)
      /\ \A u \in Task \ {t} : locks'[u] = locks[u]
      /\ locks' \in [Task -> Seq(Kind)]
  BY <1>2, <1>3, StackOf, PushFacts DEF TypeOK, Kind
<1>6. TypeOK'
  BY <1>1, <1>2, <1>3, <1>4, <1>5 DEF TypeOK, PC, Kind
<1>7. LocksCounted'
  <2> SUFFICES ASSUME NEW u \in Task
               PROVE  sem'.nest[u] + Owed(u) = Len(locks'[u]) + Len(handed[u])
    BY <1>2 DEF LocksCounted, Owed
  <2>1. /\ sem.nest[u] + Owed(u) = Len(locks[u]) + Len(handed[u])
        /\ sem.nest[u] \in Nat /\ Owed(u) \in Nat /\ Len(locks[u]) \in Nat
        /\ Len(handed[u]) \in Nat
    BY <1>3, StackOf DEF LocksCounted, TypeOK, SemaphoreType, Owed
  <2>2. CASE u = t
    <3>1. sem'.nest[u] = sem.nest[u] + 1 /\ Len(locks'[u]) = Len(locks[u]) + 1
      BY <1>1, <1>5, <2>2
    <3> DEFINE n == sem.nest[u]  o == Owed(u)  l == Len(locks[u])  h == Len(handed[u])
    <3>2. n \in Nat /\ o \in Nat /\ l \in Nat /\ h \in Nat /\ n + o = l + h
      BY <2>1
    <3>3. sem'.nest[u] = n + 1 /\ Len(locks'[u]) = l + 1
      BY <3>1
    <3>4. (n + 1) + o = (l + 1) + h
      <4> HIDE DEF n, o, l, h
      <4> QED BY <3>2, Balance
    <3> QED BY <3>3, <3>4
  <2>3. CASE u # t
    <3>1. sem'.nest[u] = sem.nest[u] /\ locks'[u] = locks[u]
      BY <1>1, <1>5, <2>1, <2>3
    <3> QED BY <2>1, <3>1
  <2> QED BY <2>2, <2>3
<1>8. NoExclusive'
  <2> SUFFICES ASSUME sem'.owner # Own PROVE lockedExclusive' = 0
    BY DEF NoExclusive
  <2>1. sem.owner # Own /\ lockedExclusive = 0 /\ lockedShared \in Nat
    <3>1. sem.owner = Own => t = Own
      BY <1>1, <1>3, NoTaskAssumption
    <3>2. sem.owner # Own
      BY <1>1, <1>3, <3>1, NoTaskAssumption
    <3> QED BY <1>3, <3>2 DEF NoExclusive, TypeOK
  <2>2. CASE t = Own
    <3>1. /\ lockedShared' = lockedShared + 1
          /\ lockedShared' + lockedExclusive' = (lockedShared + 0) + 1
          /\ lockedExclusive' \in Nat
      <4>1. lockedShared' = lockedShared + 1 /\ kind = "S"
        BY <1>1, <2>1, <2>2
      <4>2. lockedShared' + lockedExclusive' = (lockedShared + lockedExclusive) + 1
        BY <1>4, <2>2, <4>1
      <4>3. lockedExclusive' \in Nat
        BY <1>4
      <4> QED BY <2>1, <4>1, <4>2, <4>3
    <3> DEFINE a == lockedShared  b == lockedShared'  c == lockedExclusive'
    <3>2. a \in Nat /\ c \in Nat /\ b = a + 1 /\ b + c = (a + 0) + 1
      BY <2>1, <3>1
    <3>3. c = 0
      <4> HIDE DEF a, b, c
      <4> QED BY <3>2
    <3> QED BY <3>3
  <2>3. CASE t # Own
    <3>1. /\ lockedShared' = lockedShared /\ lockedExclusive' \in Nat
          /\ lockedShared' + lockedExclusive' = lockedShared + 0
      BY <1>4, <2>1, <2>3
    <3> QED BY <2>1, <3>1
  <2> QED BY <2>2, <2>3
<1>9. OwnRelocks'
  <2>1. ASSUME NEW u \in Task, pc'[u] = "relock" PROVE u = Own /\ lockedShared' = 0
    <3>1. u # t /\ pc[u] = "relock"
      BY <1>2, <1>3, <2>1 DEF TypeOK
    <3> QED BY <1>3, <1>4, <3>1 DEF OwnRelocks
  <2> QED BY <1>2, <1>4, <2>1 DEF OwnRelocks
<1>10. CountersMatch'
  <2>0. sem.nest[Own] \in Nat /\ lockedShared \in Nat /\ lockedExclusive \in Nat
    BY <1>3 DEF SemaphoreType, TypeOK
  <2>1. lockedShared' + lockedExclusive' <= sem'.nest[Own]
    <3> DEFINE a == lockedShared + lockedExclusive  n == sem.nest[Own]
               b == lockedShared' + lockedExclusive'  m == sem'.nest[Own]
    <3>1. a \in Nat /\ n \in Nat /\ a <= n
      BY <1>3, <2>0 DEF CountersMatch
    <3>2. /\ b = a \/ (b = a + 1 /\ t = Own)
          /\ m = IF t = Own THEN n + 1 ELSE n
      BY <1>own, <1>4
    <3> HIDE DEF a, n, b, m
    <3>3. b <= m
      BY <3>1, <3>2
    <3> QED BY <3>3 DEF b, m
  <2>2. ASSUME sem'.owner # Own, pc'[Own] # "relock"
        PROVE  IF mixed THEN lockedShared' >= Len(locks'[Own])
                        ELSE lockedShared' = sem'.nest[Own]
    <3>0. pc[Own] # "relock"
      BY <1>2, <1>3, <2>2 DEF TypeOK
    <3>1. CASE t = Own
      <4>1. /\ sem.owner = NoTask /\ sem.owner # Own
            /\ lockedShared' = lockedShared + 1
        BY <1>1, <2>2, <3>1, <1>3, NoTaskAssumption
      <4>2. IF mixed THEN lockedShared >= Len(locks[Own]) ELSE lockedShared = sem.nest[Own]
        BY <3>0, <4>1, <1>3 DEF CountersMatch
      <4>3. sem'.nest[Own] = sem.nest[Own] + 1 /\ Len(locks'[Own]) = Len(locks[Own]) + 1
            /\ Len(locks[Own]) \in Nat
        BY <1>1, <1>3, <1>5, <3>1, StackOf
      <4> QED BY <2>0, <4>1, <4>2, <4>3
    <3>2. CASE t # Own
      <4>1. /\ sem.owner # Own /\ lockedShared' = lockedShared
            /\ sem'.nest[Own] = sem.nest[Own] /\ locks'[Own] = locks[Own]
        BY <1>1, <1>3, <1>4, <1>5, <2>0, <3>2, NoTaskAssumption
      <4> QED BY <3>0, <4>1, <1>3 DEF CountersMatch
    <3> QED BY <3>1, <3>2
  <2>3. ASSUME NEW u \in Task, pc'[u] \in {"waitExclusive", "relock"},
               sem'.nest[u] > LocksUnderWay(u)
        PROVE  sem'.owner = u
    <3>1. u # t /\ pc'[u] = pc[u]
      BY <1>2, <1>3, <2>3 DEF TypeOK
    <3>2. sem'.nest[u] = sem.nest[u] /\ sem.nest[u] \in Nat
      BY <1>1, <1>3, <3>1 DEF TypeOK, SemaphoreType
    <3>3. sem.owner = u
      BY <1>3, <2>3, <3>1, <3>2 DEF CountersMatch
    <3> QED BY <1>1, <3>1, <3>3, NoTaskAssumption
  <2> QED BY <1>2, <2>1, <2>2, <2>3 DEF CountersMatch, LocksUnderWay
<1>11. UpdateUncounted'
  <2> SUFFICES ASSUME IsUpdating'
               PROVE  lockedShared' + lockedExclusive' < sem'.nest[Own]
    BY DEF UpdateUncounted
  <2>0. /\ sem.nest[Own] \in Nat /\ lockedShared \in Nat /\ lockedExclusive \in Nat
        /\ sem'.nest[Own] = sem.nest[Own] + one(Own)
    BY <1>1, <1>3 DEF SemaphoreType, TypeOK
  <2>1. Has(locks'[Own], {"D"})
    BY DEF IsUpdating, Has
  <2>2. CASE IsUpdating
    <3>1. lockedShared + lockedExclusive < sem.nest[Own]
      BY <1>3, <2>2 DEF UpdateUncounted
    <3> QED BY <1>4, <2>0, <3>1
  <2>3. CASE ~IsUpdating
    <3>1. ~Has(locks[Own], {"D"})
      BY <2>3 DEF IsUpdating, Has
    <3>2. t = Own /\ kind = "D"
      BY <1>3, <1>5, <2>1, <3>1
    <3>3. lockedShared + lockedExclusive <= sem.nest[Own]
      BY <1>3 DEF CountersMatch
    <3>4. /\ lockedShared' + lockedExclusive' = lockedShared + lockedExclusive
          /\ sem'.nest[Own] = sem.nest[Own] + 1
      BY <1>own, <1>4, <3>2
    <3> DEFINE a == lockedShared + lockedExclusive  n == sem.nest[Own]
               b == lockedShared' + lockedExclusive'  m == sem'.nest[Own]
    <3>5. a \in Nat /\ n \in Nat /\ a <= n /\ b = a /\ m = n + 1
      BY <2>0, <3>3, <3>4
    <3> HIDE DEF a, n, b, m
    <3>6. b < m
      BY <3>5
    <3> QED BY <3>6, SMT DEF b, m
  <2> QED BY <2>2, <2>3
<1>12. AsksAlone'
  <2> SUFFICES ASSUME NEW u \in Task \ {Own},
                      pc'[u] \in {"lockExclusive", "waitExclusive"}, locks'[u] # << >>
               PROVE  sem'.owner = u
    BY DEF AsksAlone
  <2>1. u # t /\ pc'[u] = pc[u] /\ locks'[u] = locks[u]
    BY <1>2, <1>3, <1>5 DEF TypeOK
  <2>2. sem.owner = u
    BY <1>3, <2>1 DEF AsksAlone
  <2> QED BY <1>1, <2>1, <2>2, NoTaskAssumption
<1> QED BY <1>1, <1>6, <1>7, <1>8, <1>9, <1>10, <1>11, <1>12 DEF IInv
-----------------------------------------------------------------------------
(***************************************************************************)
(* What the other steps need of the invariant.                             *)
(***************************************************************************)
LEMMA Counted ==
  ASSUME IInv
  PROVE  /\ Own \in Task /\ lockedShared \in Nat /\ lockedExclusive \in Nat
         /\ count \in Nat
         /\ \A t \in Task :
              /\ sem.nest[t] \in Nat /\ Len(handed[t]) \in Nat /\ Len(locks[t]) \in Nat
              /\ t # Own \/ pc[Own] # "relock" =>
                   /\ sem.nest[t] >= Len(handed[t])
                   /\ sem.nest[t] - Len(handed[t]) = Len(locks[t])
<1>1. /\ Own \in Task /\ lockedShared \in Nat /\ lockedExclusive \in Nat /\ count \in Nat
      /\ \A t \in Task : sem.nest[t] \in Nat /\ Len(handed[t]) \in Nat /\ Len(locks[t]) \in Nat
  BY OwnAssumption, StackOf DEF IInv, TypeOK, SemaphoreType
<1>3. ASSUME NEW t \in Task, t # Own \/ pc[Own] # "relock"
      PROVE  sem.nest[t] >= Len(handed[t]) /\ sem.nest[t] - Len(handed[t]) = Len(locks[t])
  <2>1. Owed(t) = 0
    BY <1>3 DEF Owed, IInv, OwnRelocks
  <2>2. sem.nest[t] + Owed(t) = Len(locks[t]) + Len(handed[t]) /\ Len(locks[t]) \in Nat
    BY StackOf DEF IInv, LocksCounted
  <2> DEFINE n == sem.nest[t]  l == Len(locks[t])  h == Len(handed[t])  o == Owed(t)
  <2>3. n \in Nat /\ l \in Nat /\ h \in Nat /\ o = 0 /\ n + o = l + h
    BY <1>1, <2>1, <2>2
  <2>4. n >= h /\ n - h = l
    <3> HIDE DEF n, l, h, o
    <3> QED BY <2>3
  <2> QED BY <2>4
<1> QED BY <1>1, <1>3

(***************************************************************************)
(* A call that goes on to its next attempt or wait, without the semaphore. *)
(***************************************************************************)
Moved(t, l) ==
  /\ pc[t] # "relock" /\ Goto(t, l)
  /\ l \in {"lockExclusive", "waitExclusive"} =>
       t = Own \/ locks[t] = << >> \/ sem.owner = t
  /\ l = "waitExclusive" /\ t = Own => lockedShared = 0
  /\ l = "lockExclusive" /\ t = Own => Relapse \/ ~Miscounted
  /\ UNCHANGED <<sem, counters, count, forbid, locks, popups, version, seen>>

LEMMA MoveKeeps ==
  ASSUME IInv, NEW t \in Task, NEW l \in PC \ {"relock"}, Moved(t, l)
  PROVE  IInv'
<1>1. /\ pc' = [pc EXCEPT ![t] = l] /\ pc \in [Task -> PC]
      /\ sem' = sem /\ lockedShared' = lockedShared
      /\ lockedExclusive' = lockedExclusive /\ count' = count /\ locks' = locks
      /\ handed' = handed /\ overtaken' = overtaken /\ mixed' = mixed
      /\ forbid' = forbid /\ version' = version /\ seen' = seen
      /\ pc[t] # "relock"
  BY DEF Moved, Goto, counters, popups, IInv, TypeOK
<1>2. pc' \in [Task -> PC] /\ \A u \in Task : pc'[u] = IF u = t THEN l ELSE pc[u]
  BY <1>1
<1>3. TypeOK' /\ Exclusive(sem)' /\ LocksCounted' /\ NoExclusive'
  BY <1>1, <1>2 DEF IInv, TypeOK, LocksCounted, Owed, NoExclusive
<1>4. OwnRelocks'
  BY <1>1, <1>2, OwnAssumption DEF IInv, OwnRelocks
<1>5. CountersMatch'
  <2>1. /\ lockedShared + lockedExclusive <= sem.nest[Own]
        /\ sem.owner # Own /\ pc'[Own] # "relock" =>
             IF mixed THEN lockedShared >= Len(locks[Own]) ELSE lockedShared = sem.nest[Own]
    BY <1>1, <1>2, OwnAssumption DEF IInv, CountersMatch
  <2>2. ASSUME NEW u \in Task, pc'[u] \in {"waitExclusive", "relock"},
               sem.nest[u] > LocksUnderWay(u)
        PROVE  sem.owner = u
    <3>1. CASE u # t
      BY <1>2, <2>2, <3>1 DEF IInv, CountersMatch
    <3>2. CASE u = t /\ t = Own
      <4>1. l = "waitExclusive" /\ lockedShared = 0 /\ pc'[Own] # "relock" /\ pc[Own] # "relock"
        BY <1>1, <1>2, <2>2, <3>2 DEF Moved
      <4>2. /\ sem.nest[Own] \in Nat /\ Len(handed[Own]) \in Nat /\ Len(locks[Own]) \in Nat
            /\ sem.nest[Own] - Len(handed[Own]) = Len(locks[Own])
            /\ sem.nest[Own] >= Len(handed[Own])
        BY <4>1, Counted
      <4> SUFFICES ASSUME sem.owner # Own PROVE FALSE
        BY <3>2
      <4>3. CASE mixed
        <5>1. sem.nest[Own] > Len(handed[Own]) /\ 0 >= Len(locks[Own])
          BY <2>1, <2>2, <3>2, <4>1, <4>3 DEF LocksUnderWay
        <5> QED BY <4>2, <5>1
      <4>4. CASE ~mixed
        <5>1. sem.nest[Own] > 0 /\ sem.nest[Own] = 0
          BY <2>1, <2>2, <3>2, <4>1, <4>4 DEF LocksUnderWay
        <5> QED BY <5>1
      <4> QED BY <4>3, <4>4
    <3>3. CASE u = t /\ t # Own
      <4>1. locks[t] # << >>
        BY <2>2, <3>3, Counted, StackOf DEF IInv, LocksUnderWay
      <4> QED BY <1>2, <2>2, <3>3, <4>1 DEF Moved
    <3> QED BY <3>1, <3>2, <3>3
  <2> QED BY <1>1, <2>1, <2>2 DEF CountersMatch, LocksUnderWay
<1>6. UpdateUncounted'
  BY <1>1 DEF IInv, UpdateUncounted, IsUpdating
<1>7. AsksAlone'
  BY <1>1, <1>2 DEF IInv, AsksAlone, Moved
<1> QED BY <1>3, <1>4, <1>5, <1>6, <1>7 DEF IInv

(***************************************************************************)
(* The upgrade of the window process: it releases its shared locks,        *)
(* obtains them again exclusively, and goes on to wait.                    *)
(***************************************************************************)
LEMMA UpgradeKeeps ==
  ASSUME IInv, NEW t \in Task, Upgrade(t)
  PROVE  IInv'
<1> DEFINE left == sem.nest[Own] - lockedShared
<1>1. /\ t = Own /\ lockedShared \in Nat /\ lockedShared > 0 /\ pc[Own] = "lockExclusive"
      /\ count = 0 /\ sem.nest[Own] \in Nat /\ lockedExclusive \in Nat
  BY Counted DEF Upgrade, LockedShared, IInv, OwnRelocks
<1>2. left \in Nat /\ lockedExclusive <= left
  <2>1. lockedShared + lockedExclusive <= sem.nest[Own]
    BY DEF IInv, CountersMatch
  <2> QED BY <1>1, <2>1
<1>3. /\ sem'.owner = IF left = 0 THEN NoTask ELSE sem.owner
      /\ sem'.nest = [sem.nest EXCEPT ![Own] = left]
      /\ lockedShared' = 0 /\ count' = lockedShared /\ lockedExclusive' = lockedExclusive
      /\ pc' = [pc EXCEPT ![Own] = "relock"]
      /\ locks' = locks /\ handed' = handed /\ mixed' = mixed
      /\ overtaken' = [overtaken EXCEPT ![Own] = Len(handed[Own])]
  BY <1>1 DEF Upgrade, NestAfterRelease, Overtakes, Goto
<1>4. /\ sem.nest \in [Task -> Nat] /\ sem.owner \in Task \cup {NoTask} /\ Own \in Task
      /\ pc \in [Task -> PC] /\ Exclusive(sem)
  BY OwnAssumption DEF IInv, TypeOK, SemaphoreType
<1> HIDE DEF left
<1>5. /\ \A u \in Task : sem'.nest[u] = IF u = Own THEN left ELSE sem.nest[u]
      /\ \A u \in Task : pc'[u] = IF u = Own THEN "relock" ELSE pc[u]
      /\ sem'.nest \in [Task -> Nat] /\ pc' \in [Task -> PC]
      /\ sem'.owner \in {sem.owner, NoTask}
  BY <1>2, <1>3, <1>4 DEF PC
<1>6. /\ sem.owner \in {Own, NoTask}
      /\ left > LocksUnderWay(Own) => sem.owner = Own
      /\ left > 0 => sem'.owner = sem.owner
      /\ LocksUnderWay(Own) \in Nat
  <2>1. sem.nest[Own] > 0
    BY <1>1, <1>2 DEF left
  <2>2. sem.owner \in {Own, NoTask}
    BY <1>4, <2>1 DEF Exclusive
  <2>3. /\ Len(handed[Own]) \in Nat /\ Len(locks[Own]) \in Nat
        /\ sem.nest[Own] >= Len(handed[Own])
        /\ sem.nest[Own] - Len(handed[Own]) = Len(locks[Own])
    BY <1>1, Counted
  <2>4. ASSUME left > LocksUnderWay(Own), sem.owner # Own PROVE FALSE
    <3>1. CASE mixed
      <4>1. lockedShared >= Len(locks[Own]) /\ left > Len(handed[Own])
        BY <1>1, <2>4, <3>1 DEF IInv, CountersMatch, LocksUnderWay
      <4>2. sem.nest[Own] - lockedShared > Len(handed[Own])
        BY <4>1 DEF left
      <4> QED BY <1>1, <2>3, <4>1, <4>2
    <3>2. CASE ~mixed
      <4>1. lockedShared = sem.nest[Own] /\ left > 0
        BY <1>1, <2>4, <3>2 DEF IInv, CountersMatch, LocksUnderWay
      <4> QED BY <1>1, <4>1 DEF left
    <3> QED BY <3>1, <3>2
  <2> QED BY <1>2, <1>3, <2>2, <2>3, <2>4 DEF LocksUnderWay
<1>7. Exclusive(sem)'
  <2> SUFFICES ASSUME sem'.owner # NoTask
               PROVE  sem'.nest[sem'.owner] > 0
                      /\ \A u \in Task \ {sem'.owner} : sem'.nest[u] = 0
    BY DEF Exclusive, Holds
  <2>1. left > 0 /\ sem'.owner = Own /\ sem.owner = Own
    BY <1>2, <1>3, <1>6
  <2> QED BY <1>4, <1>5, <2>1, NoTaskAssumption DEF Exclusive
<1>8. TypeOK'
  <2>1. sem' \in SemaphoreType
    <3>1. sem' = [owner |-> sem'.owner, nest |-> sem'.nest]
      BY DEF Upgrade
    <3> QED BY <1>4, <1>5, <3>1 DEF SemaphoreType
  <2> QED BY <1>1, <1>3, <1>5, <2>1 DEF IInv, TypeOK, Upgrade
<1>9. LocksCounted'
  <2>1. ASSUME NEW u \in Task PROVE sem'.nest[u] + Owed(u)' = Len(locks[u]) + Len(handed[u])
    <3>1. sem.nest[u] + Owed(u) = Len(locks[u]) + Len(handed[u])
      BY DEF IInv, LocksCounted
    <3>2. CASE u = Own
      <4>1. sem.nest[u] + 0 = Len(locks[u]) + Len(handed[u])
        BY <1>1, <3>1, <3>2 DEF Owed
      <4>2. sem'.nest[u] + Owed(u)' = left + lockedShared
        BY <1>3, <1>5, <3>2, <1>4 DEF Owed
      <4>3. left + lockedShared = sem.nest[u] + 0
        BY <1>1, <3>2 DEF left
      <4> QED BY <4>1, <4>2, <4>3
    <3>3. CASE u # Own
      <4>1. sem'.nest[u] = sem.nest[u] /\ Owed(u)' = Owed(u)
        BY <1>5, <3>3 DEF Owed
      <4> QED BY <3>1, <4>1
    <3> QED BY <3>2, <3>3
  <2> QED BY <1>3, <2>1 DEF LocksCounted
<1>10. NoExclusive'
  <2> SUFFICES ASSUME sem'.owner # Own PROVE lockedExclusive = 0
    BY <1>3 DEF NoExclusive
  <2>1. CASE sem.owner # Own
    BY <2>1 DEF IInv, NoExclusive
  <2>2. CASE sem.owner = Own
    <3>1. left = 0
      BY <1>3, <2>2
    <3> QED BY <1>1, <1>2, <3>1
  <2> QED BY <2>1, <2>2
<1>11. OwnRelocks'
  BY <1>3, <1>4, <1>5 DEF IInv, OwnRelocks
<1>12. CountersMatch'
  <2>1. lockedShared' + lockedExclusive' <= sem'.nest[Own]
    BY <1>1, <1>2, <1>3, <1>4, <1>5
  <2>2. ASSUME NEW u \in Task, pc'[u] \in {"waitExclusive", "relock"},
               sem'.nest[u] > LocksUnderWay(u)
        PROVE  sem'.owner = u
    <3>1. CASE u = Own
      <4>1. left > LocksUnderWay(Own)
        BY <1>5, <2>2, <3>1
      <4>2. sem.owner = Own /\ left > 0
        BY <1>2, <1>6, <4>1
      <4> QED BY <1>6, <3>1, <4>2
    <3>2. CASE u # Own
      <4>1. sem.owner = u
        BY <1>3, <1>5, <2>2, <3>2 DEF IInv, CountersMatch
      <4> QED BY <1>6, <3>2, <4>1, NoTaskAssumption
    <3> QED BY <3>1, <3>2
  <2> QED BY <1>3, <1>4, <1>5, <2>1, <2>2 DEF CountersMatch, LocksUnderWay
<1>13. UpdateUncounted'
  <2>1. ASSUME IsUpdating' PROVE lockedExclusive < left
    <3>1. lockedShared + lockedExclusive < sem.nest[Own]
      BY <1>3, <2>1 DEF IInv, UpdateUncounted, IsUpdating
    <3> QED BY <1>1, <3>1 DEF left
  <2>2. lockedShared' + lockedExclusive' = lockedExclusive /\ sem'.nest[Own] = left
    BY <1>1, <1>3, <1>4, <1>5
  <2> QED BY <2>1, <2>2 DEF UpdateUncounted
<1>14. AsksAlone'
  BY <1>3, <1>4, <1>5, <1>6, NoTaskAssumption DEF IInv, AsksAlone
<1> QED BY <1>7, <1>8, <1>9, <1>10, <1>11, <1>12, <1>13, <1>14 DEF IInv

LEMMA RelockKeeps ==
  ASSUME IInv, NEW t \in Task, Relock(t)
  PROVE  IInv'
<1>1. /\ t = Own /\ pc[Own] = "relock" /\ lockedShared = 0 /\ count > 0
      /\ lockedShared' = 0 /\ lockedExclusive' = lockedExclusive + 1
      /\ count' = count - 1 /\ pc' = pc /\ locks' = locks /\ handed' = handed
      /\ overtaken' = overtaken /\ mixed' = mixed
      /\ sem' = GrabExclusive(sem, Own) /\ CanExclusive(sem, Own)
  BY DEF Relock, popups, IInv, OwnRelocks
<1>2. /\ Own \in Task /\ lockedExclusive \in Nat /\ count \in Nat /\ sem \in SemaphoreType
      /\ \A u \in Task : sem.nest[u] \in Nat /\ Len(handed[u]) \in Nat
      /\ Exclusive(sem)
  BY Counted DEF IInv, TypeOK
<1>3. /\ sem' \in SemaphoreType /\ sem'.owner = Own /\ Exclusive(sem')
      /\ \A u \in Task : sem'.nest[u] = sem.nest[u] + IF u = Own THEN 1 ELSE 0
  BY <1>1, <1>2, GrabExclusiveFacts
<1>4. \A u \in Task \ {Own} : sem.nest[u] = 0 /\ sem.owner # u /\ Len(handed[u]) = 0
  <2>1. \A u \in Task \ {Own} : sem.nest[u] = 0 /\ sem.owner # u
    BY <1>1, <1>2, NoTaskAssumption DEF CanExclusive, Idle, Exclusive, Holds
  <2>2. ASSUME NEW u \in Task \ {Own} PROVE Len(handed[u]) = 0
    <3>1. sem.nest[u] >= Len(handed[u]) /\ sem.nest[u] = 0 /\ Len(handed[u]) \in Nat
      BY <2>1, Counted
    <3>2. 0 >= Len(handed[u])
      BY <3>1
    <3> QED BY <3>1, <3>2
  <2> QED BY <2>1, <2>2
<1>5. TypeOK'
  BY <1>1, <1>2, <1>3 DEF Relock, IInv, TypeOK
<1>6. LocksCounted'
  <2>1. ASSUME NEW u \in Task PROVE sem'.nest[u] + Owed(u)' = Len(locks[u]) + Len(handed[u])
    <3>1. sem.nest[u] + Owed(u) = Len(locks[u]) + Len(handed[u])
      BY DEF IInv, LocksCounted
    <3>2. CASE u = Own
      <4> DEFINE n == sem.nest[u]
      <4>1. sem'.nest[u] = n + 1 /\ Owed(u)' = count - 1 /\ Owed(u) = count /\ n \in Nat
        BY <1>1, <1>2, <1>3, <3>2 DEF Owed
      <4>2. (n + 1) + (count - 1) = n + count
        <5> HIDE DEF n
        <5> QED BY <1>1, <1>2, <4>1
      <4> QED BY <3>1, <4>1, <4>2
    <3>3. CASE u # Own
      <4>1. sem'.nest[u] = sem.nest[u] /\ Owed(u)' = Owed(u)
        BY <1>2, <1>3, <3>3 DEF Owed
      <4> QED BY <3>1, <4>1
    <3> QED BY <3>2, <3>3
  <2> QED BY <1>1, <2>1 DEF LocksCounted
<1>7. NoExclusive'
  BY <1>3 DEF NoExclusive
<1>8. OwnRelocks'
  BY <1>1 DEF IInv, OwnRelocks
<1>9. CountersMatch'
  <2>1. lockedShared + lockedExclusive <= sem.nest[Own]
    BY DEF IInv, CountersMatch
  <2>2. lockedShared' + lockedExclusive' <= sem'.nest[Own]
    BY <1>1, <1>2, <1>3, <2>1
  <2>3. ASSUME NEW u \in Task, sem'.nest[u] > LocksUnderWay(u) PROVE u = Own
    <3> SUFFICES ASSUME u # Own PROVE FALSE
      OBVIOUS
    <3> DEFINE h == Len(handed[u])
    <3>1. h \in Nat /\ 0 > h
      BY <1>2, <1>3, <1>4, <2>3 DEF LocksUnderWay
    <3> HIDE DEF h
    <3> QED BY <3>1
  <2> QED BY <1>1, <1>2, <1>3, <2>2, <2>3 DEF CountersMatch, LocksUnderWay
<1>10. UpdateUncounted'
  <2>1. ASSUME IsUpdating' PROVE lockedShared' + lockedExclusive' < sem'.nest[Own]
    <3>1. lockedShared + lockedExclusive < sem.nest[Own]
      BY <1>1, <2>1 DEF IInv, UpdateUncounted, IsUpdating
    <3> QED BY <1>1, <1>2, <1>3, <3>1
  <2> QED BY <2>1 DEF UpdateUncounted
<1>11. AsksAlone'
  BY <1>1, <1>4 DEF IInv, AsksAlone
<1> QED BY <1>3, <1>5, <1>6, <1>7, <1>8, <1>9, <1>10, <1>11 DEF IInv

LEMMA RelockedKeeps ==
  ASSUME IInv, NEW t \in Task, Relocked(t)
  PROVE  IInv'
<1>1. /\ t = Own /\ pc[Own] = "relock" /\ lockedShared = 0 /\ count = 0
      /\ sem' = sem /\ count' = count /\ locks' = locks /\ handed' = handed
      /\ overtaken' = overtaken /\ mixed' = mixed
      /\ lockedShared' = lockedShared /\ lockedExclusive' = lockedExclusive
      /\ pc' = [pc EXCEPT ![Own] = "waitExclusive"]
  BY DEF Relocked, Goto, counters, popups, IInv, OwnRelocks
<1>2. pc \in [Task -> PC] /\ Own \in Task
  BY OwnAssumption DEF IInv, TypeOK
<1>3. /\ \A u \in Task : pc'[u] = IF u = Own THEN "waitExclusive" ELSE pc[u]
      /\ pc' \in [Task -> PC]
  BY <1>1, <1>2 DEF PC
<1>4. /\ TypeOK' /\ Exclusive(sem)' /\ LocksCounted' /\ NoExclusive' /\ OwnRelocks'
      /\ UpdateUncounted' /\ AsksAlone'
  BY <1>1, <1>2, <1>3 DEF Relocked, IInv, TypeOK, LocksCounted, Owed, NoExclusive,
       OwnRelocks, UpdateUncounted, IsUpdating, AsksAlone
<1>5. CountersMatch'
  <2>1. sem.owner # Own => IF mixed THEN lockedShared >= Len(locks[Own])
                                    ELSE lockedShared = sem.nest[Own]
    <3> SUFFICES ASSUME sem.owner # Own
                 PROVE  IF mixed THEN 0 >= Len(locks[Own]) ELSE 0 = sem.nest[Own]
      BY <1>1
    <3>1. ~(sem.nest[Own] > LocksUnderWay(Own))
      BY <1>1, <1>2 DEF IInv, CountersMatch
    <3>2. /\ sem.nest[Own] \in Nat /\ Len(handed[Own]) \in Nat /\ Len(locks[Own]) \in Nat
          /\ sem.nest[Own] + 0 = Len(locks[Own]) + Len(handed[Own])
      <4>1. sem.nest[Own] + Owed(Own) = Len(locks[Own]) + Len(handed[Own])
        BY <1>2 DEF IInv, LocksCounted
      <4> QED BY <1>1, <1>2, <4>1, Counted DEF Owed
    <3> DEFINE n == sem.nest[Own]  l == Len(locks[Own])  h == Len(handed[Own])
    <3>3. /\ n \in Nat /\ h \in Nat /\ l \in Nat /\ n + 0 = l + h
          /\ ~(n > IF mixed THEN h ELSE 0)
      BY <3>1, <3>2 DEF LocksUnderWay
    <3>4. IF mixed THEN 0 >= l ELSE 0 = n
      <4> HIDE DEF n, l, h
      <4> QED BY <3>3
    <3> QED BY <3>4
  <2>2. ASSUME NEW u \in Task, pc'[u] \in {"waitExclusive", "relock"},
               sem.nest[u] > LocksUnderWay(u)
        PROVE  sem.owner = u
    BY <1>1, <1>3, <2>2 DEF IInv, CountersMatch
  <2> QED BY <1>1, <2>1, <2>2 DEF IInv, CountersMatch, LocksUnderWay
<1> QED BY <1>4, <1>5 DEF IInv

(***************************************************************************)
(* Unlocking.                                                              *)
(***************************************************************************)
LEMMA CountDownFacts ==
  ASSUME lockedShared \in Nat, lockedExclusive \in Nat, NEW t \in Task, CountDown(t)
  PROVE  /\ lockedShared' \in Nat /\ lockedExclusive' \in Nat
         /\ lockedShared = 0 => lockedShared' = 0
         /\ t # Own => lockedShared' = lockedShared /\ lockedExclusive' = lockedExclusive
         /\ t = Own /\ lockedExclusive = 0 /\ lockedShared > 0 =>
              lockedShared' = lockedShared - 1 /\ lockedExclusive' = 0
         /\ t = Own => \/ lockedShared' + lockedExclusive' = lockedShared + lockedExclusive - 1
                       \/ /\ lockedShared = 0 /\ lockedExclusive = 0
                          /\ lockedShared' = 0 /\ lockedExclusive' = 0
<1>1. CASE t = Own /\ lockedExclusive > 0
  BY <1>1 DEF CountDown
<1>2. CASE t = Own /\ lockedExclusive = 0 /\ lockedShared > 0
  BY <1>2 DEF CountDown
<1>3. CASE ~(t = Own /\ lockedExclusive > 0)
           /\ ~(t = Own /\ lockedExclusive = 0 /\ lockedShared > 0)
  BY <1>3 DEF CountDown, counters
<1> QED BY <1>1, <1>2, <1>3

LEMMA UnlockKeeps ==
  ASSUME IInv, NEW t \in Task, ScalosUnLockIconList(t)
  PROVE  IInv'
<1> DEFINE one(u) == IF u = t THEN 1 ELSE 0
<1>1. /\ pc[t] = "idle" /\ locks[t] # << >> /\ CountDown(t) /\ sem' = Drop(sem, t)
      /\ locks' = [locks EXCEPT ![t] = SubSeq(@, 1, Len(@) - 1)]
      /\ pc' = pc /\ count' = count /\ handed' = handed /\ mixed' = mixed
      /\ overtaken' = overtaken
      /\ forbid' = forbid /\ version' = version /\ seen' = seen
  BY DEF ScalosUnLockIconList, Pop, popups
<1>2. /\ TypeOK /\ sem \in SemaphoreType /\ Exclusive(sem) /\ Own \in Task
      /\ lockedShared \in Nat /\ lockedExclusive \in Nat
      /\ \A u \in Task : sem.nest[u] \in Nat /\ Len(handed[u]) \in Nat
  BY Counted DEF IInv, TypeOK
<1>3. sem.nest[t] > 0 /\ sem.nest[t] >= Len(locks[t])
  <2> DEFINE n == sem.nest[t]  h == Len(handed[t])  l == Len(locks[t])
  <2>1. n >= h /\ n - h = l /\ n \in Nat /\ h \in Nat /\ l \in Nat /\ l # 0
    BY <1>1, <1>2, Counted, StackOf
  <2> HIDE DEF n, h, l
  <2>2. n > 0 /\ n >= l
    BY <2>1
  <2> QED BY <2>2 DEF n, l
<1>4. /\ sem' \in SemaphoreType /\ Exclusive(sem')
      /\ sem'.owner \in {sem.owner, NoTask}
      /\ sem'.owner = IF sem.nest[t] = 1 THEN NoTask ELSE sem.owner
      /\ \A u \in Task : sem'.nest[u] = sem.nest[u] - one(u)
  <2>1. Holds(sem, t) /\ sem'.owner = IF sem.nest[t] = 1 THEN NoTask ELSE sem.owner
    BY <1>1, <1>3 DEF Holds, Drop
  <2>2. /\ sem' \in SemaphoreType /\ Exclusive(sem')
        /\ sem'.owner \in {sem.owner, NoTask}
        /\ \A u \in Task : sem'.nest[u] = sem.nest[u] - one(u)
    BY <1>1, <1>2, <2>1, DropFacts
  <2> QED BY <2>1, <2>2
<1>5. \A u \in Task \ {t} : sem.owner # u /\ sem'.nest[u] = sem.nest[u]
  BY <1>2, <1>3, <1>4, NoTaskAssumption DEF Exclusive
<1>6. /\ lockedShared' \in Nat /\ lockedExclusive' \in Nat
      /\ lockedShared = 0 => lockedShared' = 0
      /\ t # Own => lockedShared' = lockedShared /\ lockedExclusive' = lockedExclusive
      /\ t = Own /\ lockedExclusive = 0 /\ lockedShared > 0 =>
           lockedShared' = lockedShared - 1 /\ lockedExclusive' = 0
      /\ t = Own => \/ lockedShared' + lockedExclusive' = lockedShared + lockedExclusive - 1
                    \/ /\ lockedShared = 0 /\ lockedExclusive = 0
                       /\ lockedShared' = 0 /\ lockedExclusive' = 0
  BY <1>1, <1>2, CountDownFacts
<1>7. /\ locks' \in [Task -> Seq(Kind)]
      /\ \A u \in Task \ {t} : locks'[u] = locks[u]
      /\ Len(locks[t]) \in Nat \ {0} /\ Len(locks'[t]) = Len(locks[t]) - 1
      /\ \A K : Has(locks'[t], K) => Has(locks[t], K) /\ Len(locks[t]) - 1 > 0
  BY <1>1, <1>2, StackOf, PopFacts DEF TypeOK, Kind
<1>8. TypeOK'
  BY <1>1, <1>2, <1>4, <1>6, <1>7 DEF TypeOK, Kind
<1>9. LocksCounted'
  <2>1. ASSUME NEW u \in Task PROVE sem'.nest[u] + Owed(u)' = Len(locks'[u]) + Len(handed[u])
    <3>1. sem.nest[u] + Owed(u) = Len(locks[u]) + Len(handed[u]) /\ Owed(u)' = Owed(u)
      BY <1>1 DEF IInv, LocksCounted, Owed
    <3>2. CASE u = t
      <4> DEFINE n == sem.nest[u]  o == Owed(u)  l == Len(locks[u])  h == Len(handed[u])
      <4>1. n \in Nat /\ o \in Nat /\ l \in Nat /\ h \in Nat /\ n + o = l + h
        BY <1>2, <1>7, <3>1, <3>2 DEF Owed, TypeOK
      <4>2. sem'.nest[u] = n - 1 /\ Len(locks'[u]) = l - 1
        BY <1>4, <1>7, <3>2
      <4>3. (n - 1) + o = (l - 1) + h
        <5> HIDE DEF n, o, l, h
        <5> QED BY <4>1
      <4> QED BY <3>1, <4>2, <4>3
    <3>3. CASE u # t
      BY <1>5, <1>7, <3>1, <3>3
    <3> QED BY <3>2, <3>3
  <2> QED BY <1>1, <2>1 DEF LocksCounted
<1>sum. lockedShared' + lockedExclusive' <= sem'.nest[Own]
  <2>1. lockedShared + lockedExclusive <= sem.nest[Own]
    BY DEF IInv, CountersMatch
  <2>2. sem'.nest[Own] = IF t = Own THEN sem.nest[Own] - 1 ELSE sem.nest[Own]
    BY <1>2, <1>4, <1>5
  <2>3. CASE t = Own
    <3> DEFINE n == sem.nest[Own]
    <3>1. n \in Nat /\ n > 0 /\ sem'.nest[Own] = n - 1 /\ lockedShared + lockedExclusive <= n
      BY <1>2, <1>3, <2>1, <2>2, <2>3
    <3> HIDE DEF n
    <3>2. CASE lockedShared' + lockedExclusive' = lockedShared + lockedExclusive - 1
      BY <1>2, <3>1, <3>2
    <3>3. CASE lockedShared' = 0 /\ lockedExclusive' = 0
      BY <3>1, <3>3
    <3> QED BY <1>6, <2>3, <3>2, <3>3
  <2>4. CASE t # Own BY <1>6, <2>1, <2>2, <2>4
  <2> QED BY <2>3, <2>4
<1>none. ASSUME sem'.nest[Own] = 0 PROVE lockedShared' = 0 /\ lockedExclusive' = 0
  <2> DEFINE m == sem'.nest[Own]  a == lockedShared'  b == lockedExclusive'
  <2>1. a + b <= m /\ m = 0 /\ a \in Nat /\ b \in Nat
    BY <1>sum, <1>6, <1>none
  <2>2. a = 0 /\ b = 0
    <3> HIDE DEF m, a, b
    <3> QED BY <2>1
  <2> QED BY <2>2
<1>own. sem'.owner # Own => \/ sem.owner # Own
                            \/ t = Own /\ sem.nest[Own] = 1 /\ sem'.nest[Own] = 0
  <2> SUFFICES ASSUME sem'.owner # Own, sem.owner = Own
               PROVE  t = Own /\ sem.nest[Own] = 1 /\ sem'.nest[Own] = 0
    OBVIOUS
  <2>1. t = Own /\ sem.nest[t] = 1
    BY <1>2, <1>4, <1>5
  <2> QED BY <1>4, <2>1
<1>10. NoExclusive' /\ OwnRelocks'
  <2>1. ASSUME sem'.owner # Own PROVE lockedExclusive' = 0
    <3>1. CASE sem.owner # Own
      <4>1. lockedExclusive = 0
        BY <3>1 DEF IInv, NoExclusive
      <4> QED BY <1>1, <1>2, <1>6, <4>1, CountDownFacts
    <3>2. CASE sem'.nest[Own] = 0
      BY <1>none, <3>2
    <3> QED BY <1>own, <2>1, <3>1, <3>2
  <2> QED BY <1>1, <1>6, <2>1 DEF IInv, NoExclusive, OwnRelocks
<1>11. CountersMatch'
  <2>1. ASSUME sem'.owner # Own, pc[Own] # "relock"
        PROVE  IF mixed THEN lockedShared' >= Len(locks'[Own])
                        ELSE lockedShared' = sem'.nest[Own]
    <3>1. CASE t # Own
      <4>1. sem.owner # Own
        BY <1>own, <2>1, <3>1
      <4>2. IF mixed THEN lockedShared >= Len(locks[Own]) ELSE lockedShared = sem.nest[Own]
        BY <2>1, <4>1 DEF IInv, CountersMatch
      <4> QED BY <1>2, <1>5, <1>6, <1>7, <3>1, <4>2
    <3>2. CASE t = Own /\ sem.nest[Own] = 1 /\ sem'.nest[Own] = 0
      <4>1. lockedShared' = 0
        BY <1>none, <3>2
      <4>2. Len(locks'[Own]) = 0
        <5> DEFINE l == Len(locks[Own])
        <5>1. 1 >= l /\ l \in Nat \ {0} /\ Len(locks'[Own]) = l - 1
          BY <1>3, <1>7, <3>2
        <5>2. l - 1 = 0
          <6> HIDE DEF l
          <6> QED BY <5>1
        <5> QED BY <5>1, <5>2
      <4> QED BY <3>2, <4>1, <4>2
    <3>3. CASE t = Own /\ sem.owner # Own
      <4>1. /\ IF mixed THEN lockedShared >= Len(locks[Own]) ELSE lockedShared = sem.nest[Own]
            /\ lockedExclusive = 0
        BY <2>1, <3>3 DEF IInv, CountersMatch, NoExclusive
      <4>2. /\ sem.nest[Own] > 0 /\ sem.nest[Own] \in Nat /\ sem'.nest[Own] = sem.nest[Own] - 1
            /\ Len(locks[Own]) \in Nat \ {0} /\ Len(locks'[Own]) = Len(locks[Own]) - 1
        BY <1>2, <1>3, <1>4, <1>7, <3>3
      <4>3. lockedShared > 0
        BY <1>2, <4>1, <4>2
      <4>4. lockedShared' = lockedShared - 1
        BY <1>6, <3>3, <4>1, <4>3
      <4> QED BY <1>2, <4>1, <4>2, <4>4
    <3> QED BY <1>own, <2>1, <3>1, <3>2, <3>3
  <2>2. ASSUME NEW u \in Task, pc[u] \in {"waitExclusive", "relock"},
               sem'.nest[u] > LocksUnderWay(u)
        PROVE  sem'.owner = u
    <3>1. u # t /\ sem'.nest[u] = sem.nest[u]
      BY <1>1, <1>5, <2>2
    <3> QED BY <1>5, <2>2, <3>1 DEF IInv, CountersMatch
  <2> QED BY <1>1, <1>sum, <2>1, <2>2 DEF CountersMatch, LocksUnderWay
<1>12. UpdateUncounted'
  <2> SUFFICES ASSUME IsUpdating'
               PROVE  lockedShared' + lockedExclusive' < sem'.nest[Own]
    BY DEF UpdateUncounted
  <2>1. Has(locks'[Own], {"D"})
    BY DEF IsUpdating, Has
  <2>2. Has(locks[Own], {"D"})
    BY <1>2, <1>7, <2>1
  <2>3. lockedShared + lockedExclusive < sem.nest[Own]
    BY <2>2 DEF IInv, UpdateUncounted, IsUpdating, Has
  <2>4. CASE t # Own
    BY <1>2, <1>5, <1>6, <2>3, <2>4
  <2>5. CASE t = Own
    <3> DEFINE n == sem.nest[Own]
    <3>0. Len(locks[Own]) \in Nat /\ Len(locks[Own]) - 1 > 0 /\ n >= Len(locks[Own]) /\ n \in Nat
      BY <1>2, <1>3, <1>7, <2>1, <2>5
    <3>1. /\ sem'.nest[Own] = n - 1 /\ n - 1 > 0 /\ n \in Nat
          /\ lockedShared + lockedExclusive < n
      BY <1>2, <1>4, <2>3, <2>5, <3>0
    <3>2. lockedShared' + lockedExclusive' < n - 1
      <4> DEFINE a == lockedShared + lockedExclusive  b == lockedShared' + lockedExclusive'
      <4>1. /\ a \in Nat /\ a < n /\ n \in Nat /\ n - 1 > 0
            /\ b = a - 1 \/ b = 0
        <5>1. \/ b = lockedShared + lockedExclusive - 1
              \/ lockedShared' = 0 /\ lockedExclusive' = 0
          BY <1>6, <2>5
        <5>2. b = a - 1 \/ b = 0
          BY <1>2, <5>1
        <5> QED BY <1>2, <3>1, <5>2
      <4>2. b < n - 1
        <5> HIDE DEF n, a, b
        <5> QED BY <4>1
      <4> QED BY <4>2
    <3> QED BY <3>1, <3>2
  <2> QED BY <2>4, <2>5
<1>13. AsksAlone'
  BY <1>1, <1>5, <1>7 DEF IInv, AsksAlone
<1> QED BY <1>4, <1>8, <1>9, <1>10, <1>11, <1>12, <1>13 DEF IInv

(***************************************************************************)
(* A shared lock is handed over with a popup message, and given back when  *)
(* the menu is closed.                                                     *)
(***************************************************************************)
LEMMA SendPopupKeeps ==
  ASSUME IInv, NEW t \in Task, SendPopup(t)
  PROVE  IInv'
<1>1. /\ pc[t] = "idle" /\ locks[t] # << >>
      /\ locks' = [locks EXCEPT ![t] = SubSeq(@, 1, Len(@) - 1)]
      /\ handed' = [handed EXCEPT ![t] = Append(@, seen[t])]
      /\ sem' = sem /\ pc' = pc /\ count' = count /\ forbid' = forbid
      /\ lockedShared' = lockedShared /\ lockedExclusive' = lockedExclusive
      /\ overtaken' = overtaken /\ mixed' = mixed
      /\ version' = version /\ seen' = seen
  <2>1. locks[t] # << >>
    BY DEF SendPopup
  <2> QED BY <2>1 DEF SendPopup, Pop, counters
<1>2. /\ TypeOK /\ Own \in Task
      /\ \A u \in Task : sem.nest[u] \in Nat /\ Len(handed[u]) \in Nat
      /\ handed[t] \in Seq(Nat) /\ seen[t] \in Nat
  BY Counted, StackOf DEF IInv, TypeOK
<1>3. /\ locks' \in [Task -> Seq(Kind)]
      /\ \A u \in Task \ {t} : locks'[u] = locks[u] /\ handed'[u] = handed[u]
      /\ Len(locks[t]) \in Nat \ {0} /\ Len(locks'[t]) = Len(locks[t]) - 1
      /\ \A K : Has(locks'[t], K) => Has(locks[t], K)
  BY <1>1, <1>2, StackOf, PopFacts DEF TypeOK, Kind
<1>h. handed' \in [Task -> Seq(Nat)] /\ Len(handed'[t]) = Len(handed[t]) + 1
  <2>1. /\ Append(handed[t], seen[t]) \in Seq(Nat)
        /\ Len(Append(handed[t], seen[t])) = Len(handed[t]) + 1
    BY <1>2, AppendProperties
  <2> QED BY <1>1, <1>2, <2>1 DEF TypeOK
<1>4. LocksCounted'
  <2>1. ASSUME NEW u \in Task PROVE sem.nest[u] + Owed(u)' = Len(locks'[u]) + Len(handed'[u])
    <3>1. sem.nest[u] + Owed(u) = Len(locks[u]) + Len(handed[u]) /\ Owed(u)' = Owed(u)
      BY <1>1 DEF IInv, LocksCounted, Owed
    <3>2. CASE u = t
      <4> DEFINE l == Len(locks[u])  h == Len(handed[u])
      <4>1. l \in Nat /\ h \in Nat /\ Len(locks'[u]) = l - 1 /\ Len(handed'[u]) = h + 1
        BY <1>2, <1>3, <1>h, <3>2
      <4>2. (l - 1) + (h + 1) = l + h
        <5> HIDE DEF l, h
        <5> QED BY <4>1
      <4> QED BY <3>1, <4>1, <4>2
    <3>3. CASE u # t
      BY <1>3, <3>1, <3>3
    <3> QED BY <3>2, <3>3
  <2> QED BY <1>1, <2>1 DEF LocksCounted
<1>5. TypeOK'
  BY <1>1, <1>2, <1>3, <1>h DEF TypeOK, Kind
<1>6. NoExclusive' /\ OwnRelocks'
  BY <1>1, <1>3 DEF IInv, NoExclusive, OwnRelocks
<1>7. CountersMatch'
  <2>1. ASSUME sem.owner # Own, pc[Own] # "relock"
        PROVE  IF mixed THEN lockedShared >= Len(locks'[Own]) ELSE lockedShared = sem.nest[Own]
    <3>1. IF mixed THEN lockedShared >= Len(locks[Own]) ELSE lockedShared = sem.nest[Own]
      BY <2>1 DEF IInv, CountersMatch
    <3>2. Len(locks'[Own]) \in {Len(locks[Own]), Len(locks[Own]) - 1} /\ Len(locks[Own]) \in Nat
      BY <1>2, <1>3, StackOf
    <3> QED BY <1>2, <3>1, <3>2 DEF TypeOK
  <2>2. ASSUME NEW u \in Task, pc[u] \in {"waitExclusive", "relock"},
               sem.nest[u] > LocksUnderWay(u)'
        PROVE  sem.owner = u
    <3>1. LocksUnderWay(u)' = LocksUnderWay(u)
      BY <1>1, <1>3, <2>2 DEF LocksUnderWay
    <3> QED BY <2>2, <3>1 DEF IInv, CountersMatch
  <2> QED BY <1>1, <2>1, <2>2 DEF IInv, CountersMatch
<1>8. UpdateUncounted'
  <2>1. Has(locks'[Own], {"D"}) => Has(locks[Own], {"D"})
    BY <1>2, <1>3
  <2>2. IsUpdating' => IsUpdating
    BY <2>1 DEF IsUpdating, Has
  <2> QED BY <1>1, <2>2 DEF IInv, UpdateUncounted
<1>9. AsksAlone'
  BY <1>1, <1>3 DEF IInv, AsksAlone
<1> QED BY <1>1, <1>4, <1>5, <1>6, <1>7, <1>8, <1>9 DEF IInv

LEMMA TailFacts ==
  ASSUME NEW s \in Seq(Nat), s # << >>
  PROVE  /\ Tail(s) \in Seq(Nat) /\ Len(s) \in Nat \ {0} /\ Len(Tail(s)) = Len(s) - 1
         /\ \A i \in DOMAIN Tail(s) : i \in Nat /\ i + 1 \in DOMAIN s /\ Tail(s)[i] = s[i + 1]
<1>1. Tail(s) \in Seq(Nat) /\ Len(s) \in Nat \ {0} /\ Len(Tail(s)) = Len(s) - 1
  BY HeadTailProperties, LenProperties, EmptySeq
<1>2. DOMAIN s = 1 .. Len(s) /\ DOMAIN Tail(s) = 1 .. Len(s) - 1
  BY <1>1, LenProperties
<1>3. \A i \in 1 .. Len(Tail(s)) : Tail(s)[i] = s[i + 1]
  BY HeadTailProperties
<1> QED BY <1>1, <1>2, <1>3

LEMMA ShowPopupKeeps ==
  ASSUME IInv, NEW t \in Task, ShowPopup(t)
  PROVE  /\ IInv'
         /\ sem.nest[t] = Len(locks[t]) + Len(handed[t]) /\ sem.nest[t] > 0
<1>1. /\ handed[t] # << >> /\ pc[Own] = "idle" /\ locks[Own] = << >>
      /\ handed' = [handed EXCEPT ![t] = Tail(@)]
      /\ overtaken' = [overtaken EXCEPT ![t] = IF @ > 0 THEN @ - 1 ELSE 0]
      /\ mixed' = IF t = Own THEN mixed /\ Len(handed[t]) > 1
                             ELSE mixed \/ handed[Own] # << >>
      /\ CountDown(Own) /\ sem' = Drop(sem, t)
      /\ pc' = pc /\ count' = count /\ forbid' = forbid /\ locks' = locks
      /\ version' = version /\ seen' = seen
  BY DEF ShowPopup
<1>2. /\ TypeOK /\ Own \in Task /\ sem \in SemaphoreType /\ Exclusive(sem)
      /\ lockedShared \in Nat /\ lockedExclusive \in Nat
      /\ \A u \in Task : sem.nest[u] \in Nat /\ Len(handed[u]) \in Nat /\ Len(locks[u]) \in Nat
      /\ lockedShared + lockedExclusive <= sem.nest[Own]
      /\ handed[t] \in Seq(Nat)
  BY Counted, StackOf DEF IInv, TypeOK, CountersMatch
<1>held. ASSUME NEW u \in Task PROVE sem.nest[u] = Len(locks[u]) + Len(handed[u])
  <2>1. sem.nest[u] + Owed(u) = Len(locks[u]) + Len(handed[u])
    BY DEF IInv, LocksCounted
  <2>2. Owed(u) = 0
    BY <1>1 DEF Owed, IInv, OwnRelocks
  <2> DEFINE n == sem.nest[u]
  <2>3. n \in Nat /\ n + 0 = Len(locks[u]) + Len(handed[u])
    BY <1>2, <2>1, <2>2
  <2>4. n + 0 = n
    <3> HIDE DEF n
    <3> QED BY <2>3
  <2> QED BY <2>3, <2>4
<1>own. sem.nest[Own] = Len(handed[Own]) /\ Len(locks[Own]) = 0
  <2>1. sem.nest[Own] = Len(locks[Own]) + Len(handed[Own]) /\ Len(locks[Own]) = 0
    BY <1>1, <1>2, <1>held, EmptySeq, StackOf
  <2> QED BY <1>2, <2>1
<1>3. /\ Tail(handed[t]) \in Seq(Nat) /\ Len(handed[t]) > 0
      /\ Len(Tail(handed[t])) = Len(handed[t]) - 1
  BY <1>1, <1>2, TailFacts
<1>4. sem.nest[t] > 0
  <2> DEFINE n == sem.nest[t]  l == Len(locks[t])  h == Len(handed[t])
  <2>1. n = l + h /\ l \in Nat /\ h \in Nat /\ h > 0
    BY <1>2, <1>3, <1>held
  <2>2. n > 0
    <3> HIDE DEF n, l, h
    <3> QED BY <2>1
  <2> QED BY <2>2
<1>5. /\ sem' \in SemaphoreType /\ Exclusive(sem')
      /\ sem'.owner = IF sem.nest[t] = 1 THEN NoTask ELSE sem.owner
      /\ \A u \in Task : sem'.nest[u] = sem.nest[u] - IF u = t THEN 1 ELSE 0
      /\ \A u \in Task \ {t} : sem.owner # u
  <2>1. sem'.owner = IF sem.nest[t] = 1 THEN NoTask ELSE sem.owner
    BY <1>1 DEF Drop
  <2>2. ASSUME NEW u \in Task \ {t}, sem.owner = u PROVE FALSE
    <3>1. sem.nest[t] = 0
      BY <1>2, <2>2, NoTaskAssumption DEF Exclusive
    <3> QED BY <1>4, <3>1
  <2>3. /\ sem' \in SemaphoreType /\ Exclusive(sem')
        /\ \A u \in Task : sem'.nest[u] = sem.nest[u] - IF u = t THEN 1 ELSE 0
    BY <1>1, <1>2, <1>4, DropFacts DEF Holds
  <2> QED BY <2>1, <2>2, <2>3
<1>6. /\ handed' \in [Task -> Seq(Nat)] /\ Len(handed'[t]) = Len(handed[t]) - 1
      /\ sem'.nest[t] = sem.nest[t] - 1
      /\ \A u \in Task \ {t} : handed'[u] = handed[u] /\ sem'.nest[u] = sem.nest[u]
  <2>1. handed' \in [Task -> Seq(Nat)] /\ Len(handed'[t]) = Len(handed[t]) - 1
    BY <1>1, <1>2, <1>3 DEF TypeOK
  <2>2. \A u \in Task \ {t} : handed'[u] = handed[u]
    BY <1>1, <1>2 DEF TypeOK
  <2>3. sem'.nest[t] = sem.nest[t] - 1
    BY <1>5
  <2>4. \A u \in Task \ {t} : sem'.nest[u] = sem.nest[u]
    BY <1>2, <1>5
  <2> QED BY <2>1, <2>2, <2>3, <2>4
<1>7. /\ lockedShared' \in Nat /\ lockedExclusive' \in Nat
      /\ lockedExclusive = 0 => lockedExclusive' = 0
      /\ lockedExclusive = 0 /\ lockedShared > 0 => lockedShared' = lockedShared - 1
      /\ \/ lockedShared' + lockedExclusive' = lockedShared + lockedExclusive - 1
         \/ lockedShared' = 0 /\ lockedExclusive' = 0
  BY <1>1, <1>2, CountDownFacts
<1>8. TypeOK'
  <2>1. overtaken' \in [Task -> Nat] /\ mixed' \in BOOLEAN
    <3>1. overtaken[t] \in Nat /\ (IF overtaken[t] > 0 THEN overtaken[t] - 1 ELSE 0) \in Nat
      BY <1>2 DEF TypeOK
    <3>2. overtaken' \in [Task -> Nat]
      BY <1>1, <1>2, <3>1 DEF TypeOK
    <3>3. mixed' \in BOOLEAN
      BY <1>1, <1>2, Zenon DEF TypeOK
    <3> QED BY <3>2, <3>3
  <2> QED BY <1>1, <1>2, <1>5, <1>6, <1>7, <2>1 DEF TypeOK
<1>9. LocksCounted'
  <2>1. ASSUME NEW u \in Task PROVE sem'.nest[u] + Owed(u)' = Len(locks[u]) + Len(handed'[u])
    <3>1. sem.nest[u] = Len(locks[u]) + Len(handed[u]) /\ Owed(u)' = 0
      BY <1>1, <1>held DEF IInv, OwnRelocks, Owed
    <3>2. CASE u = t
      <4> DEFINE n == sem.nest[u]  l == Len(locks[u])  h == Len(handed[u])
      <4>1. n \in Nat /\ l \in Nat /\ h \in Nat /\ n = l + h
        BY <1>2, <3>1
      <4>2. sem'.nest[u] = n - 1 /\ Len(handed'[u]) = h - 1
        BY <1>6, <3>2
      <4>3. (n - 1) + 0 = l + (h - 1)
        <5> HIDE DEF n, l, h
        <5> QED BY <4>1
      <4> QED BY <3>1, <4>2, <4>3
    <3>3. CASE u # t
      <4>1. sem'.nest[u] = sem.nest[u] /\ handed'[u] = handed[u]
        BY <1>6, <3>3
      <4> QED BY <1>2, <3>1, <4>1
    <3> QED BY <3>2, <3>3
  <2> QED BY <1>1, <2>1 DEF LocksCounted
<1>sum. lockedShared' + lockedExclusive' <= sem'.nest[Own]
  <2> DEFINE n == sem.nest[Own]
  <2>1. n \in Nat /\ lockedShared + lockedExclusive <= n
        /\ sem'.nest[Own] \in {n, n - 1} /\ (t = Own => n > 0) /\ (t # Own => sem'.nest[Own] = n)
    BY <1>2, <1>4, <1>6
  <2>2. CASE lockedShared' + lockedExclusive' = lockedShared + lockedExclusive - 1
    <3> HIDE DEF n
    <3> QED BY <1>2, <2>1, <2>2
  <2>3. CASE lockedShared' = 0 /\ lockedExclusive' = 0
    <3> HIDE DEF n
    <3> QED BY <2>1, <2>3
  <2> QED BY <1>7, <2>2, <2>3
<1>none. ASSUME sem'.nest[Own] = 0 PROVE lockedShared' = 0 /\ lockedExclusive' = 0
  <2> DEFINE m == sem'.nest[Own]  a == lockedShared'  b == lockedExclusive'
  <2>1. a + b <= m /\ m = 0 /\ a \in Nat /\ b \in Nat
    BY <1>sum, <1>7, <1>none
  <2>2. a = 0 /\ b = 0
    <3> HIDE DEF m, a, b
    <3> QED BY <2>1
  <2> QED BY <2>2
<1>lost. sem'.owner # Own => sem.owner # Own \/ sem'.nest[Own] = 0
  <2> SUFFICES ASSUME sem'.owner # Own, sem.owner = Own PROVE sem'.nest[Own] = 0
    OBVIOUS
  <2>1. t = Own /\ sem.nest[t] = 1
    BY <1>2, <1>5
  <2> QED BY <1>6, <2>1
<1>10. NoExclusive' /\ OwnRelocks'
  <2>1. sem'.owner # Own => lockedExclusive' = 0
    BY <1>lost, <1>none, <1>7 DEF IInv, NoExclusive
  <2>2. \A u \in Task : pc[u] = "relock" => FALSE
    BY <1>1 DEF IInv, OwnRelocks
  <2> QED BY <1>1, <2>1, <2>2 DEF IInv, NoExclusive, OwnRelocks
<1>11. CountersMatch'
  <2>1. ASSUME sem'.owner # Own
        PROVE  IF mixed' THEN lockedShared' >= Len(locks[Own]) ELSE lockedShared' = sem'.nest[Own]
    <3>1. CASE mixed'
      BY <1>own, <1>7, <3>1
    <3>2. CASE ~mixed' /\ sem'.nest[Own] = 0
      BY <1>none, <3>2
    <3>3. CASE ~mixed' /\ sem'.nest[Own] # 0
      <4>1. sem.owner # Own
        BY <1>lost, <2>1, <3>3
      <4>2. CASE t # Own
        <5>1. handed[Own] = << >>
          BY <1>1, <3>3, <4>2
        <5>2. sem'.nest[Own] = 0
          BY <1>2, <1>6, <1>own, <4>2, <5>1, EmptySeq
        <5> QED BY <3>3, <5>2
      <4>3. CASE t = Own
        <5>1. Len(handed[Own]) > 1
          BY <1>2, <1>3, <1>6, <1>own, <3>3, <4>3
        <5>2. ~mixed
          BY <1>1, <3>3, <4>3, <5>1
        <5>3. lockedShared = sem.nest[Own] /\ lockedExclusive = 0
          BY <1>1, <4>1, <5>2 DEF IInv, CountersMatch, NoExclusive
        <5> QED BY <1>2, <1>4, <1>6, <1>7, <3>3, <4>3, <5>3
      <4> QED BY <4>2, <4>3
    <3> QED BY <3>1, <3>2, <3>3
  <2>2. ASSUME NEW u \in Task, pc[u] \in {"waitExclusive", "relock"},
               sem'.nest[u] > LocksUnderWay(u)'
        PROVE  sem'.owner = u
    <3>1. u # Own /\ sem'.nest[u] > Len(handed'[u])
      BY <1>1, <2>2 DEF LocksUnderWay
    <3>2. sem.nest[u] > Len(handed[u])
      <4>1. CASE u # t BY <1>6, <3>1, <4>1
      <4>2. CASE u = t
        <5> DEFINE n == sem.nest[u]  h == Len(handed[u])
        <5>1. n - 1 > h - 1 /\ n \in Nat /\ h \in Nat
          BY <1>2, <1>6, <3>1, <4>2
        <5>2. n > h
          <6> HIDE DEF n, h
          <6> QED BY <5>1
        <5> QED BY <5>2
      <4> QED BY <4>1, <4>2
    <3>3. sem.owner = u
      BY <2>2, <3>1, <3>2 DEF IInv, CountersMatch, LocksUnderWay
    <3>4. u = t /\ sem.nest[t] # 1
      BY <1>2, <1>3, <1>5, <3>2, <3>3
    <3> QED BY <1>5, <3>3, <3>4
  <2> QED BY <1>1, <1>sum, <2>1, <2>2 DEF CountersMatch
<1>12. UpdateUncounted' /\ AsksAlone'
  <2>1. ~IsUpdating'
    BY <1>1, EmptySeq DEF IsUpdating
  <2>2. ASSUME NEW u \in Task \ {Own}, pc[u] \in {"lockExclusive", "waitExclusive"},
               locks[u] # << >>
        PROVE  sem'.owner = u
    <3>1. sem.owner = u /\ u = t
      BY <1>5, <2>2 DEF IInv, AsksAlone
    <3> DEFINE n == sem.nest[t]  l == Len(locks[t])  h == Len(handed[t])
    <3>2. n = l + h /\ l \in Nat /\ l # 0 /\ h \in Nat /\ h > 0
      BY <1>2, <1>3, <1>held, <2>2, <3>1, StackOf
    <3>3. sem.nest[t] # 1
      <4>1. n # 1
        <5> HIDE DEF n, l, h
        <5> QED BY <3>2
      <4> QED BY <4>1
    <3> QED BY <1>5, <3>1, <3>3
  <2> QED BY <1>1, <2>1, <2>2 DEF UpdateUncounted, AsksAlone
<1> QED
  BY <1>4, <1>held, <1>5, <1>8, <1>9, <1>10, <1>11, <1>12 DEF IInv

LEMMA ChangeListKeeps ==
  ASSUME IInv, NEW t \in Task, ChangeList(t)
  PROVE  IInv'
<1>1. /\ sem' = sem /\ lockedShared' = lockedShared /\ lockedExclusive' = lockedExclusive
      /\ pc' = pc /\ count' = count /\ forbid' = forbid /\ locks' = locks
      /\ handed' = handed /\ mixed' = mixed
      /\ overtaken' = [overtaken EXCEPT ![t] = Len(handed[t])]
      /\ version' = version + 1 /\ seen' = [seen EXCEPT ![t] = version + 1]
  BY DEF ChangeList, Overtakes, counters
<1>2. TypeOK'
  BY <1>1, Counted DEF IInv, TypeOK
<1> QED
  BY <1>1, <1>2 DEF IInv, LocksCounted, Owed, NoExclusive, OwnRelocks, CountersMatch,
     LocksUnderWay, UpdateUncounted, IsUpdating, AsksAlone

-----------------------------------------------------------------------------
(***************************************************************************)
(* Every step is one of these.                                             *)
(***************************************************************************)
Step(t) ==
  \/ \E kind \in Kind : Obtained(t, kind)
  \/ \E l \in PC \ {"relock"} : Moved(t, l)
  \/ Upgrade(t) \/ Relock(t) \/ Relocked(t)
  \/ ScalosUnLockIconList(t) \/ SendPopup(t) \/ ShowPopup(t) \/ ChangeList(t)

LEMMA NextIsStep ==
  ASSUME IInv, Next
  PROVE  \E t \in Task : Step(t)
<1> PICK t \in Task :
      \/ ScalosLockIconListShared(t) \/ ScalosLockIconListExclusive(t) \/ Inside(t)
      \/ ScalosAttemptLockIconListShared(t) \/ ScalosAttemptLockIconListExclusive(t)
      \/ t = Own /\ UpdateLock
      \/ ScalosUnLockIconList(t) \/ SendPopup(t) \/ ShowPopup(t) \/ ChangeList(t)
  BY DEF Next
<1> SUFFICES Step(t)
  OBVIOUS
<1>1. ASSUME NEW kind \in Kind, Obtained(t, kind) PROVE Step(t)
  BY <1>1 DEF Step
<1>2. ASSUME NEW l \in PC \ {"relock"}, Moved(t, l) PROVE Step(t)
  BY <1>2 DEF Step
<1>3. ASSUME TakeShared(t), CanShared(sem, t), pc[t] # "relock" PROVE Step(t)
  <2>1. Obtained(t, "S")
    BY <1>3 DEF Obtained, TakeShared
  <2> QED BY <1>1, <2>1 DEF Kind
<1>4. CASE ScalosLockIconListShared(t)
  <2>1. Moved(t, "tryShared")
    BY <1>4 DEF ScalosLockIconListShared, MayNest, Moved
  <2> QED BY <1>2, <2>1 DEF PC
<1>5. CASE ScalosLockIconListExclusive(t)
  <2>1. Moved(t, "lockExclusive")
    BY <1>5 DEF ScalosLockIconListExclusive, MayNest, Moved
  <2> QED BY <1>2, <2>1 DEF PC
<1>6. CASE AttemptShared(t)
  <2>1. ASSUME ~CanShared(sem, t) PROVE Moved(t, "tryNested")
    BY <1>6, <2>1 DEF AttemptShared, Moved
  <2> QED BY <1>2, <1>3, <1>6, <2>1 DEF AttemptShared, PC
<1>7. CASE AttemptNested(t)
  <2>1. ASSUME ~CanExclusive(sem, t) PROVE Moved(t, "tryExclusive")
    BY <1>7, <2>1 DEF AttemptNested, Moved
  <2>2. ASSUME CanExclusive(sem, t) PROVE Obtained(t, "S")
    BY <1>7, <2>2 DEF AttemptNested, Obtained
  <2> QED BY <1>1, <1>2, <2>1, <2>2 DEF PC, Kind
<1>8. CASE AttemptExclusive(t)
  <2>1. ASSUME ~CanExclusive(sem, t) PROVE Moved(t, "waitShared")
    BY <1>8, <2>1 DEF AttemptExclusive, Moved
  <2>2. ASSUME CanExclusive(sem, t) PROVE Obtained(t, "S")
    BY <1>8, <2>2 DEF AttemptExclusive, Obtained
  <2> QED BY <1>1, <1>2, <2>1, <2>2 DEF PC, Kind
<1>9. CASE ObtainShared(t)
  BY <1>3, <1>9 DEF ObtainShared
<1>10. CASE NoUpgrade(t)
  <2>1. t # Own => locks[t] = << >> \/ sem.owner = t
    BY <1>10 DEF NoUpgrade, IInv, AsksAlone
  <2>2. t = Own => lockedShared = 0
    BY <1>10, Counted DEF NoUpgrade, LockedShared
  <2>3. Moved(t, "waitExclusive")
    BY <1>10, <2>1, <2>2 DEF NoUpgrade, Moved
  <2> QED BY <1>2, <2>3 DEF PC
<1>11. CASE ObtainExclusive(t)
  <2>1. Obtained(t, "X")
    BY <1>11 DEF ObtainExclusive, Obtained
  <2> QED BY <1>1, <2>1 DEF Kind
<1>12. CASE ScalosAttemptLockIconListShared(t)
  BY <1>3, <1>12 DEF ScalosAttemptLockIconListShared, MayNest
<1>13. CASE ScalosAttemptLockIconListExclusive(t)
  <2>1. Obtained(t, "X")
    BY <1>13 DEF ScalosAttemptLockIconListExclusive, Obtained, MayNest
  <2> QED BY <1>1, <2>1 DEF Kind
<1>14. CASE t = Own /\ UpdateLock
  <2>1. Obtained(t, "D")
    BY <1>14 DEF UpdateLock, Obtained, MayNest
  <2> QED BY <1>1, <2>1 DEF Kind
<1> QED
  BY <1>4, <1>5, <1>6, <1>7, <1>8, <1>9, <1>10, <1>11, <1>12, <1>13, <1>14 DEF Inside, Step

LEMMA Initially == Init => IInv
<1> SUFFICES ASSUME Init PROVE IInv
  OBVIOUS
<1>1. sem = FreeSemaphore /\ Own \in Task
  BY OwnAssumption DEF Init
<1>2. /\ sem \in SemaphoreType /\ Exclusive(sem)
      /\ \A t \in Task : sem.nest[t] = 0
  BY <1>1, FreeSemaphoreFacts
<1>3. << >> \in Seq({"S", "X", "D"}) /\ << >> \in Seq(Nat) /\ Len(<< >>) = 0
  OBVIOUS
<1>4. TypeOK
  BY <1>2, <1>3 DEF Init, TypeOK, PC
<1>5. LocksCounted
  BY <1>2, <1>3 DEF Init, LocksCounted, Owed
<1>6. ~IsUpdating
  BY <1>1, <1>3 DEF Init, IsUpdating
<1> QED
  BY <1>1, <1>2, <1>4, <1>5, <1>6 DEF Init, IInv, NoExclusive, OwnRelocks, CountersMatch,
     UpdateUncounted, AsksAlone

LEMMA Inductive == IInv /\ [Next]_vars => IInv'
<1> SUFFICES ASSUME IInv, [Next]_vars PROVE IInv'
  OBVIOUS
<1>1. CASE Next
  <2> PICK t \in Task : Step(t)
    BY <1>1, NextIsStep
  <2> QED
    BY ObtainKeeps, MoveKeeps, UpgradeKeeps, RelockKeeps, RelockedKeeps, UnlockKeeps,
       SendPopupKeeps, ShowPopupKeeps, ChangeListKeeps DEF Step
<1>2. CASE UNCHANGED vars
  BY <1>2 DEF vars, IInv, TypeOK, LocksCounted, Owed, NoExclusive, OwnRelocks,
     CountersMatch, LocksUnderWay, UpdateUncounted, IsUpdating, AsksAlone
<1> QED BY <1>1, <1>2

(***************************************************************************)
(* Every state that is reached satisfies the invariant.                    *)
(***************************************************************************)
THEOREM Invariant == Spec => []IInv
<1> QED BY Initially, Inductive, PTL DEF Spec

(***************************************************************************)
(* The variables of the lock keep their types.                             *)
(***************************************************************************)
THEOREM TypeCorrect == Spec => []TypeOK
<1>1. IInv => TypeOK
  BY DEF IInv
<1> QED BY <1>1, Invariant, PTL

(***************************************************************************)
(* iwt_IconListLockedShared and iwt_IconListLockedExclusive claim no lock  *)
(* the window process does not have, count all its locks while it shares   *)
(* the list, and nobody asks for the exclusive lock while he shares it,    *)
(* with the exceptions CountersMatch names for popup messages.             *)
(***************************************************************************)
THEOREM CountersCorrect == Spec => []CountersMatch
<1>1. IInv => CountersMatch
  BY DEF IInv
<1> QED BY <1>1, Invariant, PTL

-----------------------------------------------------------------------------
(***************************************************************************)
(* Exclusive locks, when Own does not ask for one after a relapse.         *)
(***************************************************************************)
LEMMA ObtainExcludes ==
  ASSUME IInv, EInv, NEW t \in Task, NEW kind \in Kind, Obtained(t, kind)
  PROVE  EInv'
<1>1. /\ TypeOK /\ pc[t] # "relock" /\ pc' = [pc EXCEPT ![t] = "idle"]
      /\ locks' = [locks EXCEPT ![t] = Append(@, kind)]
      /\ seen' = [seen EXCEPT ![t] = IF locks[t] = << >> THEN version ELSE @]
      /\ version' = version /\ handed' = handed /\ overtaken' = overtaken
  BY DEF Obtained, Granted, Goto, popups, IInv
<1>2. /\ pc'[t] = "idle" /\ \A u \in Task \ {t} : pc'[u] = pc[u]
      /\ \A u \in Task \ {t} : locks'[u] = locks[u] /\ seen'[u] = seen[u]
      /\ \A K : Has(locks'[t], K) => kind \in K \/ Has(locks[t], K)
      /\ seen'[t] = IF locks[t] = << >> THEN version ELSE seen[t]
  BY <1>1, StackOf, PushFacts DEF TypeOK, Kind
<1>3. ASSUME NEW u \in Task, IsExclusive(u)' PROVE sem'.owner = u
  <2>1. /\ \/ sem'.owner = t
           \/ kind = "S" /\ sem'.owner = NoTask /\ sem.owner = NoTask
        /\ sem.owner \in {NoTask, t}
    BY ObtainFacts
  <2>2. u = t => kind \in {"X", "D"} \/ Has(locks[t], {"X", "D"})
    BY <1>2, <1>3 DEF IsExclusive, Has
  <2>3. u # t \/ Has(locks[t], {"X", "D"}) => sem.owner = u
    BY <1>2, <1>3, <2>2 DEF EInv, ExclusiveOwns, IsExclusive, Has
  <2> QED BY <2>1, <2>2, <2>3, NoTaskAssumption
<1>4. pc'[Own] = "lockExclusive" => ~Miscounted'
  <2>1. CASE t = Own BY <1>2, <2>1
  <2>2. CASE t # Own
    <3>1. lockedExclusive' = lockedExclusive
      BY <2>2 DEF Obtained, CountShared, CountExclusive, IInv, TypeOK
    <3>2. locks'[Own] = locks[Own] /\ pc'[Own] = pc[Own]
      BY <1>2, <2>2, OwnAssumption
    <3> QED BY <3>1, <3>2 DEF EInv, ExclusiveOwns, Miscounted, HasExclusive
  <2> QED BY <2>1, <2>2
<1>5. ListStableUnderLock'
  BY <1>1, <1>2 DEF EInv, ListStableUnderLock
<1>6. UpgradeOvertakes'
  BY <1>1, <1>2, OwnAssumption DEF EInv, UpgradeOvertakes
<1> QED BY <1>3, <1>4, <1>5, <1>6 DEF EInv, ExclusiveOwns

LEMMA MoveExcludes ==
  ASSUME IInv, EInv, ~Relapse, NEW t \in Task, NEW l \in PC \ {"relock"}, Moved(t, l)
  PROVE  EInv'
<1>1. /\ pc' = [pc EXCEPT ![t] = l] /\ pc \in [Task -> PC] /\ pc[t] # "relock"
      /\ sem' = sem /\ lockedExclusive' = lockedExclusive /\ locks' = locks
      /\ version' = version /\ seen' = seen /\ handed' = handed /\ overtaken' = overtaken
      /\ l = "lockExclusive" /\ t = Own => ~Miscounted
  BY DEF Moved, Goto, counters, popups, IInv, TypeOK
<1>2. \A u \in Task : pc'[u] = IF u = t THEN l ELSE pc[u]
  BY <1>1
<1>3. ExclusiveOwns'
  BY <1>1, <1>2, OwnAssumption DEF EInv, ExclusiveOwns, IsExclusive, Miscounted, HasExclusive
<1>4. ListStableUnderLock'
  BY <1>1, <1>2 DEF EInv, ListStableUnderLock
<1>5. UpgradeOvertakes'
  BY <1>1, <1>2, OwnAssumption DEF EInv, UpgradeOvertakes
<1> QED BY <1>3, <1>4, <1>5 DEF EInv

LEMMA UpgradeExcludes ==
  ASSUME IInv, EInv, NEW t \in Task, Upgrade(t)
  PROVE  EInv'
<1>1. /\ t = Own /\ lockedShared \in Nat /\ lockedShared > 0 /\ pc[Own] = "lockExclusive"
      /\ sem.nest[Own] \in Nat /\ lockedExclusive \in Nat
      /\ lockedShared + lockedExclusive <= sem.nest[Own]
      /\ pc' = [pc EXCEPT ![Own] = "relock"] /\ locks' = locks
      /\ version' = version /\ seen' = seen /\ handed' = handed
      /\ overtaken' = [overtaken EXCEPT ![Own] = Len(handed[Own])]
      /\ overtaken \in [Task -> Nat]
      /\ sem'.owner = IF sem.nest[Own] - lockedShared = 0 THEN NoTask ELSE sem.owner
      /\ pc \in [Task -> PC] /\ Own \in Task
  BY Counted
  DEF Upgrade, LockedShared, NestAfterRelease, Overtakes, Goto, IInv, CountersMatch, TypeOK
<1>2. sem.owner \in {Own, NoTask}
  <2>1. ~(sem.nest[Own] = 0)
    BY <1>1
  <2> QED BY <1>1, <2>1 DEF IInv, TypeOK, Exclusive, SemaphoreType
<1>3. ASSUME NEW u \in Task, IsExclusive(u)' PROVE sem'.owner = u
  <2>1. IsExclusive(u) /\ sem.owner = u /\ u = Own
    BY <1>1, <1>2, <1>3, NoTaskAssumption DEF EInv, ExclusiveOwns, IsExclusive
  <2>2. CASE IsUpdating
    <3>1. lockedShared + lockedExclusive < sem.nest[Own]
      BY <2>2 DEF IInv, UpdateUncounted
    <3>2. sem.nest[Own] - lockedShared # 0
      BY <1>1, <3>1
    <3> QED BY <1>1, <2>1, <3>2
  <2>3. CASE ~IsUpdating
    <3>1. HasExclusive(Own) /\ ~Miscounted
      BY <1>1, <2>1, <2>3 DEF EInv, ExclusiveOwns, IsExclusive, IsUpdating, HasExclusive
    <3>2. lockedExclusive > 0
      BY <1>1, <3>1 DEF Miscounted
    <3>3. sem.nest[Own] - lockedShared # 0
      BY <1>1, <3>2
    <3> QED BY <1>1, <2>1, <3>3
  <2> QED BY <2>2, <2>3
<1>4. \A u \in Task : \A i \in DOMAIN handed[u] :
        i > overtaken'[u] => i > overtaken[u] \/ u = Own
  BY <1>1
<1>5. \A i \in DOMAIN handed[Own] : ~(i > overtaken'[Own])
  <2>1. DOMAIN handed[Own] = 1 .. Len(handed[Own]) /\ Len(handed[Own]) \in Nat
    BY <1>1, StackOf, LenProperties DEF IInv
  <2> QED BY <1>1, <2>1
<1>6. ListStableUnderLock'
  BY <1>1, <1>4, <1>5 DEF EInv, ListStableUnderLock
<1>7. UpgradeOvertakes'
  BY <1>1 DEF UpgradeOvertakes
<1> QED BY <1>1, <1>3, <1>6, <1>7 DEF EInv, ExclusiveOwns

LEMMA RelockExcludes ==
  ASSUME IInv, EInv, NEW t \in Task, Relock(t) \/ Relocked(t)
  PROVE  EInv'
<1>1. /\ t = Own /\ pc[Own] = "relock" /\ locks' = locks /\ version' = version
      /\ TypeOK /\ Own \in Task /\ handed' = handed /\ overtaken' = overtaken
  BY OwnAssumption DEF Relock, Relocked, popups, IInv, OwnRelocks
<1>2. CASE Relock(t)
  <2>1. /\ pc' = pc /\ seen' = seen /\ sem'.owner = Own /\ CanExclusive(sem, Own)
    BY <1>1, <1>2 DEF Relock, GrabExclusive
  <2>2. \A u \in Task \ {Own} : sem.owner # u
    BY <2>1, NoTaskAssumption DEF CanExclusive, Idle, IInv, Exclusive, Holds
  <2>3. ExclusiveOwns'
    BY <1>1, <2>1, <2>2 DEF EInv, ExclusiveOwns, IsExclusive
  <2> QED BY <1>1, <2>1, <2>3 DEF EInv, ListStableUnderLock, UpgradeOvertakes
<1>3. CASE Relocked(t)
  <2>1. /\ pc' = [pc EXCEPT ![Own] = "waitExclusive"] /\ sem' = sem
        /\ seen' = [seen EXCEPT ![Own] = version]
    BY <1>1, <1>3 DEF Relocked, Goto
  <2>2. ExclusiveOwns'
    BY <1>1, <2>1 DEF EInv, ExclusiveOwns, IsExclusive, TypeOK
  <2>3. pc'[Own] = "waitExclusive" /\ seen'[Own] = version
        /\ \A u \in Task \ {Own} : pc'[u] = pc[u] /\ seen'[u] = seen[u]
    BY <1>1, <2>1 DEF TypeOK
  <2>4. ListStableUnderLock' /\ UpgradeOvertakes'
    BY <1>1, <2>3 DEF EInv, ListStableUnderLock, UpgradeOvertakes
  <2> QED BY <2>2, <2>4 DEF EInv
<1> QED BY <1>2, <1>3

LEMMA UnlockExcludes ==
  ASSUME IInv, EInv, NEW t \in Task, ScalosUnLockIconList(t)
  PROVE  EInv'
<1>1. /\ pc[t] = "idle" /\ locks[t] # << >> /\ CountDown(t) /\ sem' = Drop(sem, t)
      /\ locks' = [locks EXCEPT ![t] = SubSeq(@, 1, Len(@) - 1)]
      /\ pc' = pc /\ version' = version /\ seen' = seen /\ TypeOK /\ Own \in Task
      /\ handed' = handed /\ overtaken' = overtaken
  BY OwnAssumption DEF ScalosUnLockIconList, Pop, popups, IInv
<1>2. /\ \A u \in Task \ {t} : locks'[u] = locks[u]
      /\ Len(locks[t]) \in Nat \ {0}
      /\ \A K : Has(locks'[t], K) => Has(locks[t], K) /\ Len(locks[t]) - 1 > 0
  BY <1>1, StackOf, PopFacts DEF TypeOK, Kind
<1>3. /\ sem.nest[t] > 0 /\ (Len(locks[t]) - 1 > 0 => sem.nest[t] # 1)
  <2> DEFINE n == sem.nest[t]  h == Len(handed[t])  l == Len(locks[t])
  <2>1. n >= h /\ n - h = l /\ n \in Nat /\ h \in Nat /\ l \in Nat /\ l # 0
    BY <1>1, <1>2, Counted
  <2> HIDE DEF n, h, l
  <2>2. n > 0 /\ (l - 1 > 0 => n # 1)
    BY <2>1
  <2> QED BY <2>2 DEF n, l
<1>4. \A u \in Task \ {t} : sem.owner # u
  BY <1>3, NoTaskAssumption DEF IInv, Exclusive
<1>5. ASSUME NEW u \in Task, IsExclusive(u)' PROVE sem'.owner = u
  <2>1. Has(locks'[u], {"X", "D"})
    BY <1>5 DEF IsExclusive, Has
  <2>2. CASE u # t
    BY <1>2, <1>4, <2>1, <2>2 DEF EInv, ExclusiveOwns, IsExclusive, Has
  <2>3. CASE u = t
    <3>1. sem.owner = t /\ sem.nest[t] # 1
      BY <1>2, <1>3, <2>1, <2>3 DEF EInv, ExclusiveOwns, IsExclusive, Has
    <3> QED BY <1>1, <2>3, <3>1 DEF Drop
  <2> QED BY <2>2, <2>3
<1>6. pc'[Own] = "lockExclusive" => ~Miscounted'
  <2> SUFFICES ASSUME pc[Own] = "lockExclusive" PROVE ~Miscounted'
    BY <1>1
  <2>1. t # Own
    BY <1>1
  <2>2. lockedExclusive' = lockedExclusive /\ locks'[Own] = locks[Own]
    BY <1>1, <1>2, <2>1, CountDownFacts DEF TypeOK
  <2> QED BY <2>2 DEF EInv, ExclusiveOwns, Miscounted, HasExclusive
<1>7. ListStableUnderLock'
  <2>1. \A u \in Task : locks'[u] # << >> => locks[u] # << >>
    BY <1>1, <1>2
  <2> QED BY <1>1, <2>1 DEF EInv, ListStableUnderLock
<1>8. UpgradeOvertakes'
  BY <1>1 DEF EInv, UpgradeOvertakes
<1> QED BY <1>5, <1>6, <1>7, <1>8 DEF EInv, ExclusiveOwns

LEMMA SendPopupExcludes ==
  ASSUME IInv, EInv, NEW t \in Task, SendPopup(t)
  PROVE  EInv'
<1>1. /\ pc[t] = "idle" /\ locks[t] = << "S" >> /\ TypeOK /\ Own \in Task
      /\ locks' = [locks EXCEPT ![t] = SubSeq(@, 1, Len(@) - 1)]
      /\ handed' = [handed EXCEPT ![t] = Append(@, seen[t])] /\ overtaken' = overtaken
      /\ sem' = sem /\ pc' = pc /\ lockedExclusive' = lockedExclusive
      /\ version' = version /\ seen' = seen
  BY OwnAssumption DEF SendPopup, Pop, counters, IInv
<1>s. locks[t] # << >>
  BY <1>1
<1>2. /\ \A u \in Task \ {t} : locks'[u] = locks[u] /\ handed'[u] = handed[u]
      /\ \A K : Has(locks'[t], K) => Has(locks[t], K)
  BY <1>1, <1>s, StackOf, PopFacts DEF TypeOK, Kind
<1>3. \A u \in Task : IsExclusive(u)' => IsExclusive(u)
  BY <1>2 DEF IsExclusive, Has
<1>4. HasExclusive(Own)' => HasExclusive(Own)
  <2>1. Has(locks'[Own], {"X"}) => Has(locks[Own], {"X"})
    BY <1>1, <1>2
  <2> QED BY <2>1 DEF HasExclusive, Has
<1>5. ExclusiveOwns'
  BY <1>1, <1>3, <1>4 DEF EInv, ExclusiveOwns, Miscounted
<1>6. seen[t] = version
  BY <1>1, <1>s DEF EInv, ListStableUnderLock
<1>7. \A i \in DOMAIN handed'[t] : i > overtaken[t] => handed'[t][i] = version
  <2>1. handed[t] \in Seq(Nat) /\ seen[t] \in Nat /\ handed'[t] = Append(handed[t], seen[t])
    BY <1>1, StackOf DEF TypeOK
  <2>2. /\ DOMAIN handed'[t] = 1 .. Len(handed[t]) + 1 /\ Len(handed[t]) \in Nat
        /\ DOMAIN handed[t] = 1 .. Len(handed[t])
        /\ \A i \in 1 .. Len(handed[t]) : handed'[t][i] = handed[t][i]
        /\ handed'[t][Len(handed[t]) + 1] = seen[t]
    BY <2>1, AppendProperties, LenProperties
  <2>3. \A i \in DOMAIN handed[t] : i > overtaken[t] => handed[t][i] = version
    BY DEF EInv, ListStableUnderLock
  <2>4. \A i \in DOMAIN handed'[t] : i \in DOMAIN handed[t] \/ i = Len(handed[t]) + 1
    BY <2>2
  <2> QED BY <1>6, <2>2, <2>3, <2>4
<1>8. ListStableUnderLock'
  <2>1. \A u \in Task : locks'[u] # << >> => locks[u] # << >>
    BY <1>2, <1>s
  <2> QED BY <1>1, <1>2, <1>7, <2>1 DEF EInv, ListStableUnderLock
<1>9. UpgradeOvertakes'
  BY <1>1, <1>2 DEF EInv, UpgradeOvertakes
<1> QED BY <1>5, <1>8, <1>9 DEF EInv

LEMMA ShowPopupExcludes ==
  ASSUME IInv, EInv, NEW t \in Task, ShowPopup(t)
  PROVE  EInv'
<1>1. /\ handed[t] # << >> /\ pc[Own] = "idle" /\ TypeOK /\ Own \in Task
      /\ handed' = [handed EXCEPT ![t] = Tail(@)]
      /\ overtaken' = [overtaken EXCEPT ![t] = IF @ > 0 THEN @ - 1 ELSE 0]
      /\ sem' = Drop(sem, t) /\ pc' = pc /\ locks' = locks
      /\ version' = version /\ seen' = seen
  BY OwnAssumption DEF ShowPopup, IInv
<1>2. /\ handed[t] \in Seq(Nat) /\ overtaken[t] \in Nat
      /\ Len(handed[t]) \in Nat \ {0} /\ Len(locks[t]) \in Nat
      /\ \A i \in DOMAIN Tail(handed[t]) : /\ i \in Nat /\ i + 1 \in DOMAIN handed[t]
                                           /\ Tail(handed[t])[i] = handed[t][i + 1]
  <2>1. handed[t] \in Seq(Nat) /\ overtaken[t] \in Nat /\ Len(locks[t]) \in Nat
    BY <1>1, StackOf DEF TypeOK
  <2> QED BY <1>1, <2>1, TailFacts
<1>3. /\ sem.nest[t] = Len(locks[t]) + Len(handed[t]) /\ sem.nest[t] > 0
  BY ShowPopupKeeps
<1>4. ASSUME NEW u \in Task, IsExclusive(u)' PROVE sem'.owner = u
  <2>1. sem.owner = u /\ locks[u] # << >>
    BY <1>1, <1>4, EmptySeq DEF EInv, ExclusiveOwns, IsExclusive
  <2>2. u = t
    <3> SUFFICES ASSUME u # t PROVE FALSE
      OBVIOUS
    <3>0. Exclusive(sem)
      BY DEF IInv
    <3> DEFINE n == sem.nest[t]
    <3>1. n = 0 /\ n > 0
      BY <1>3, <2>1, <3>0, NoTaskAssumption DEF Exclusive
    <3> HIDE DEF n
    <3> QED BY <3>1
  <2>3. sem.nest[t] # 1
    <3> DEFINE l == Len(locks[t])  h == Len(handed[t])  n == sem.nest[t]
    <3>1. l \in Nat /\ l # 0 /\ h \in Nat /\ h # 0 /\ n = l + h
      BY <1>1, <1>2, <1>3, <2>1, <2>2, StackOf
    <3>2. n # 1
      <4> HIDE DEF l, h, n
      <4> QED BY <3>1
    <3> QED BY <3>2
  <2> QED BY <1>1, <2>1, <2>2, <2>3 DEF Drop
<1>5. ExclusiveOwns'
  BY <1>1, <1>4 DEF ExclusiveOwns
<1>6. \A i \in DOMAIN handed'[t] : i > overtaken'[t] => handed'[t][i] = version
  <2>1. handed'[t] = Tail(handed[t])
        /\ overtaken'[t] = IF overtaken[t] > 0 THEN overtaken[t] - 1 ELSE 0
    BY <1>1 DEF TypeOK
  <2>2. ASSUME NEW i \in DOMAIN handed'[t], i > overtaken'[t] PROVE handed'[t][i] = version
    <3>1. /\ i \in Nat /\ i + 1 \in DOMAIN handed[t] /\ handed'[t][i] = handed[t][i + 1]
      BY <1>2, <2>1, <2>2
    <3>2. i + 1 > overtaken[t]
      BY <1>2, <2>1, <2>2, <3>1
    <3> QED BY <3>1, <3>2 DEF EInv, ListStableUnderLock
  <2> QED BY <2>2
<1>7. \A u \in Task \ {t} : handed'[u] = handed[u] /\ overtaken'[u] = overtaken[u]
  BY <1>1 DEF TypeOK
<1>8. ListStableUnderLock'
  BY <1>1, <1>6, <1>7 DEF EInv, ListStableUnderLock
<1>9. UpgradeOvertakes'
  BY <1>1 DEF UpgradeOvertakes
<1> QED BY <1>5, <1>8, <1>9 DEF EInv

LEMMA ChangeExcludes ==
  ASSUME IInv, EInv, NEW t \in Task, ChangeList(t)
  PROVE  EInv'
<1>1. /\ pc[t] = "idle" /\ locks[t] # << >> /\ locks[t][Len(locks[t])] \in {"X", "D"}
      /\ sem' = sem /\ lockedExclusive' = lockedExclusive /\ pc' = pc /\ locks' = locks
      /\ version' = version + 1 /\ seen' = [seen EXCEPT ![t] = version + 1]
      /\ handed' = handed /\ overtaken' = [overtaken EXCEPT ![t] = Len(handed[t])]
      /\ TypeOK
  BY DEF ChangeList, Top, Overtakes, counters, IInv
<1>2. sem.owner = t
  <2>1. Len(locks[t]) \in DOMAIN locks[t]
    BY <1>1, StackOf, LenProperties
  <2> QED BY <1>1, <2>1 DEF EInv, ExclusiveOwns, IsExclusive
<1>3. ASSUME NEW u \in Task \ {t}, ~(u = Own /\ pc[Own] = "relock")
      PROVE  locks[u] = << >> /\ handed[u] = << >>
  <2> DEFINE n == sem.nest[u]  l == Len(locks[u])  h == Len(handed[u])
  <2>1. n = 0
    BY <1>2, NoTaskAssumption DEF IInv, Exclusive
  <2>2. n >= h /\ n - h = l /\ h \in Nat /\ l \in Nat /\ n \in Nat
    BY <1>3, Counted
  <2>3. l = 0 /\ h = 0
    <3> HIDE DEF n, l, h
    <3> QED BY <2>1, <2>2
  <2> QED BY <1>1, <2>3, StackOf
<1>4. ExclusiveOwns'
  BY <1>1 DEF EInv, ExclusiveOwns, IsExclusive, Miscounted, HasExclusive
<1>5. \A u \in Task \ {t} : seen'[u] = seen[u] /\ overtaken'[u] = overtaken[u]
  BY <1>1 DEF TypeOK
<1>6. seen'[t] = version' /\ overtaken'[t] = Len(handed[t])
  BY <1>1 DEF TypeOK
<1>7. ASSUME NEW u \in Task, overtaken'[u] = Len(handed[u]), NEW i \in DOMAIN handed[u]
      PROVE  ~(i > overtaken'[u])
  <2>1. DOMAIN handed[u] = 1 .. Len(handed[u]) /\ Len(handed[u]) \in Nat
    BY <1>1, StackOf, LenProperties
  <2> QED BY <1>7, <2>1
<1>8. UpgradeOvertakes'
  <2> SUFFICES ASSUME pc[Own] = "relock" PROVE overtaken'[Own] = Len(handed[Own])
    BY <1>1 DEF UpgradeOvertakes
  <2>1. Own # t
    BY <1>1
  <2> QED BY <1>5, <2>1, OwnAssumption DEF EInv, UpgradeOvertakes
<1>9. ListStableUnderLock'
  <2>1. ASSUME NEW u \in Task
        PROVE  /\ locks[u] # << >> /\ pc[u] # "relock" => seen'[u] = version'
               /\ \A i \in DOMAIN handed[u] : i > overtaken'[u] => handed[u][i] = version'
    <3>1. CASE u = t
      BY <1>6, <1>7, <3>1
    <3>2. CASE u = Own /\ pc[Own] = "relock"
      <4>1. overtaken'[u] = Len(handed[u])
        BY <1>1, <1>8, <3>2 DEF UpgradeOvertakes
      <4> QED BY <1>7, <3>2, <4>1
    <3>3. CASE u # t /\ ~(u = Own /\ pc[Own] = "relock")
      <4>1. locks[u] = << >> /\ handed[u] = << >>
        BY <1>3, <3>3
      <4>2. DOMAIN handed[u] = {}
        BY <4>1
      <4> QED BY <4>1, <4>2
    <3> QED BY <3>1, <3>2, <3>3
  <2> QED BY <1>1, <2>1 DEF ListStableUnderLock
<1> QED BY <1>4, <1>8, <1>9 DEF EInv

(***************************************************************************)
(* As long as callers do not lock exclusively after a relapse, every state *)
(* that is reached satisfies both invariants.                              *)
(***************************************************************************)
THEOREM ExclusiveInvariant ==
  ASSUME ~Relapse
  PROVE  Spec => [](IInv /\ EInv)
<1>1. Init => IInv /\ EInv
  <2> SUFFICES ASSUME Init PROVE EInv
    BY Initially
  <2>1. \A t \in Task : locks[t] = << >> /\ pc[t] = "idle"
    BY DEF Init
  <2>2. \A u \in Task : handed[u] = << >> /\ DOMAIN << >> = {}
    BY DEF Init
  <2> QED BY <2>1, <2>2, OwnAssumption
      DEF EInv, ExclusiveOwns, IsExclusive, UpgradeOvertakes, ListStableUnderLock
<1>2. IInv /\ EInv /\ [Next]_vars => IInv' /\ EInv'
  <2> SUFFICES ASSUME IInv, EInv, [Next]_vars PROVE EInv'
    BY Inductive
  <2>1. CASE Next
    <3> PICK t \in Task : Step(t)
      BY <2>1, NextIsStep
    <3> QED
      BY ObtainExcludes, MoveExcludes, UpgradeExcludes, RelockExcludes, UnlockExcludes,
         SendPopupExcludes, ShowPopupExcludes, ChangeExcludes DEF Step
  <2>2. CASE UNCHANGED vars
    BY <2>2 DEF vars, EInv, ExclusiveOwns, IsExclusive, Miscounted, HasExclusive,
       UpgradeOvertakes, ListStableUnderLock
  <2> QED BY <2>1, <2>2
<1> QED BY <1>1, <1>2, PTL DEF Spec

(***************************************************************************)
(* A caller that was granted an exclusive lock is alone with the list      *)
(* until it unlocks.                                                       *)
(***************************************************************************)
THEOREM ExclusiveAlone ==
  ASSUME ~Relapse
  PROVE  Spec => []ExclusiveIsAlone
<1>1. IInv /\ EInv => ExclusiveIsAlone
  <2> SUFFICES ASSUME IInv, EInv, NEW t \in Task, IsExclusive(t),
                      NEW u \in Task \ {t}
               PROVE  ~Holds(sem, u)
    BY DEF ExclusiveIsAlone, IsExclusive
  <2>1. sem.owner = t
    BY DEF EInv, ExclusiveOwns
  <2> QED BY <2>1, NoTaskAssumption DEF IInv, Exclusive, Holds
<1> QED BY <1>1, ExclusiveInvariant, PTL

(***************************************************************************)
(* While a task has a lock, and is not upgrading it, the list is as the    *)
(* task last read or left it; the icon a popup message carries to the      *)
(* window process is in the list as long as its sender has not overtaken   *)
(* the message by an upgrade or a change of its own.                       *)
(***************************************************************************)
THEOREM ListStable ==
  ASSUME ~Relapse
  PROVE  Spec => []ListStableUnderLock
<1>1. EInv => ListStableUnderLock
  BY DEF EInv
<1> QED BY <1>1, ExclusiveInvariant, PTL
=============================================================================
