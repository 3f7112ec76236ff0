------------------------- MODULE ScaSemaphoresProofs -------------------------
(***************************************************************************)
(* For every set of tasks, semaphores and tag lists: the list functions of *)
(* main/Semaphores.c obtain all or nothing, wait with empty hands, and     *)
(* refuse a non-nesting entry to a task that has the semaphore already.    *)
(*                                                                         *)
(* Balanced is what carries the argument: it accounts for every lock.  It  *)
(* needs CursorsInside, which keeps the loops inside the list.             *)
(***************************************************************************)
EXTENDS ScaSemaphores, SignalSemaphoreTheorems

IInv == TypeOK /\ CursorsInside /\ Balanced

(***************************************************************************)
(* A list names its entries' semaphores, each once.                        *)
(***************************************************************************)
LEMMA ListFacts ==
  ASSUME NEW l \in AttemptLists \cup ObtainLists
  PROVE  /\ l \in Seq(Entry)
         /\ Len(l) \in Nat /\ DOMAIN l = 1 .. Len(l)
         /\ \A i \in DOMAIN l : l[i] \in Entry
         /\ \A i, j \in DOMAIN l : l[i].sema = l[j].sema => i = j
BY ListAssumption

(***************************************************************************)
(* What t has is as accounted for: Balanced for one task.                  *)
(***************************************************************************)
BalancedFor(t) ==
  \A s \in Sema :
    sem[s].nest[t] =
      told[t][s] + IF \E i \in InHand(t) : list[t][i].sema = s THEN 1 ELSE 0

(***************************************************************************)
(* CursorsInside for one task.                                             *)
(***************************************************************************)
CursorInside(t) ==
  /\ pc[t] # "idle" => list[t] \in AttemptLists \cup ObtainLists
  /\ pc[t] = "try" => pos[t] <= Len(list[t]) + 1
  /\ pc[t] \in {"undo", "wait", "got", "again"} => pos[t] \in DOMAIN list[t]
  /\ pc[t] = "undo" => undo[t] <= pos[t]
  /\ pc[t] \in {"wait", "got", "again"} => call[t] = "obtain"
  /\ pc[t] # "idle" /\ call[t] = "obtain" => \A s \in Sema : told[t][s] = 0

(***************************************************************************)
(* The state of a task that does nothing and whose locks do not change     *)
(* stays accounted for.                                                    *)
(***************************************************************************)
SameTask(u) ==
  /\ pc'[u] = pc[u] /\ call'[u] = call[u] /\ list'[u] = list[u]
  /\ pos'[u] = pos[u] /\ undo'[u] = undo[u] /\ told'[u] = told[u]
  /\ \A s \in Sema : sem'[s].nest[u] = sem[s].nest[u]

LEMMA SameTaskKeeps ==
  ASSUME NEW u \in Task, SameTask(u), BalancedFor(u), CursorInside(u)
  PROVE  BalancedFor(u)' /\ CursorInside(u)'
BY DEF SameTask, BalancedFor, CursorInside, InHand

(***************************************************************************)
(* It is enough to look at the task that takes the step.                   *)
(***************************************************************************)
LEMMA OneTask ==
  ASSUME IInv, NEW t \in Task,
         \A u \in Task \ {t} : SameTask(u),
         TypeOK', BalancedFor(t)', CursorInside(t)'
  PROVE  IInv'
<1>1. \A u \in Task : BalancedFor(u)' /\ CursorInside(u)'
  BY SameTaskKeeps DEF IInv, Balanced, BalancedFor, CursorsInside, CursorInside
<1>2. Balanced' BY <1>1 DEF Balanced, BalancedFor
<1>3. CursorsInside' BY <1>1 DEF CursorsInside, CursorInside
<1> QED BY <1>2, <1>3 DEF IInv

LEMMA EnterKeeps ==
  ASSUME IInv, NEW t \in Task, NEW f \in {"attempt", "obtain"},
         NEW l \in AttemptLists \cup ObtainLists,
         f = "obtain" => \A s \in Sema : told[t][s] = 0,
         Enter(t, f, l)
  PROVE  IInv'
<1> USE DEF IInv, TypeOK, PC
<1>1. TypeOK' BY DEF Enter
<1>2. \A u \in Task \ {t} : SameTask(u) BY DEF Enter, SameTask
<1>3. CursorInside(t)' 
  BY ListFacts DEF Enter, CursorInside
<1>4. BalancedFor(t)'
  <2>1. InHand(t) = {} BY DEF Enter, InHand
  <2>2. InHand(t)' = {} BY ListFacts DEF Enter, InHand
  <2> QED BY <2>1, <2>2 DEF Enter, BalancedFor, Balanced
<1> QED BY <1>1, <1>2, <1>3, <1>4, OneTask

(***************************************************************************)
(* The step leaves t with k locks on the semaphore x, changes no other     *)
(* locks.                                                                  *)
(***************************************************************************)
Counts(t, x, k) ==
  /\ sem' \in [Sema -> SemaphoreType]
  /\ \A u \in Task \ {t}, s \in Sema : sem'[s].nest[u] = sem[s].nest[u]
  /\ \A s \in Sema \ {x} : sem'[s].nest[t] = sem[s].nest[t]
  /\ sem'[x].nest[t] = k

(***************************************************************************)
(* An attempt that succeeds, or a wait that ends, grabs one lock.          *)
(***************************************************************************)
LEMMA GrabCounts ==
  ASSUME IInv, NEW t \in Task, Here(t) \in Entry,
         AttemptEntry(t) \/ WaitDone(t)
  PROVE  Counts(t, Here(t).sema, sem[Here(t).sema].nest[t] + 1)
<1> PICK e \in Entry : e = Here(t)
  OBVIOUS
<1> PICK x \in Sema : x = e.sema
  BY DEF Entry
<1>1. /\ AttemptSucceeds(e, t)
      /\ sem' = [sem EXCEPT ![x] = Grab(e, t)]
  BY DEF AttemptEntry, WaitDone
<1>2. e.mode \in Mode BY DEF Entry
<1>3. /\ sem \in [Sema -> SemaphoreType]
      /\ sem[x] \in SemaphoreType
  BY DEF IInv, TypeOK
<1>4. PICK n \in SemaphoreType :
        /\ n = Grab(e, t)
        /\ \A u \in Task : n.nest[u] = sem[x].nest[u] + IF u = t THEN 1 ELSE 0
  <2>1. CASE e.mode = "Shared"
    <3>1. CanShared(sem[x], t) BY <1>1, <2>1 DEF AttemptSucceeds
    <3>2. Grab(e, t) = GrabShared(sem[x], t) BY <2>1 DEF Grab
    <3> QED BY <1>3, <3>1, <3>2, GrabSharedFacts
  <2>2. CASE e.mode # "Shared"
    <3>1. CanExclusive(sem[x], t)
      BY <1>1, <1>2, <2>2 DEF AttemptSucceeds, NoNestSucceeds, Mode
    <3>2. Grab(e, t) = GrabExclusive(sem[x], t) BY <2>2 DEF Grab
    <3> QED BY <1>3, <3>1, <3>2, GrabExclusiveFacts
  <2> QED BY <2>1, <2>2
<1>5. /\ sem' \in [Sema -> SemaphoreType] /\ sem'[x] = n
      /\ \A s \in Sema \ {x} : sem'[s] = sem[s]
  BY <1>1, <1>3, <1>4
<1>7. /\ \A u \in Task \ {t} : n.nest[u] = sem[x].nest[u]
      /\ n.nest[t] = sem[x].nest[t] + 1
  BY <1>3, <1>4 DEF SemaphoreType
<1> QED BY <1>5, <1>7 DEF Counts

(***************************************************************************)
(* A release gives one lock back.                                          *)
(***************************************************************************)
Releases(t, x) == sem' = [sem EXCEPT ![x] = Drop(@, t)]

LEMMA DropCounts ==
  ASSUME IInv, NEW t \in Task, NEW x \in Sema, sem[x].nest[t] > 0,
         Releases(t, x)
  PROVE  Counts(t, x, sem[x].nest[t] - 1)
<1>1. /\ sem \in [Sema -> SemaphoreType]
      /\ sem[x] \in SemaphoreType
  BY DEF IInv, TypeOK
<1>2. PICK n \in SemaphoreType :
        /\ n = Drop(sem[x], t)
        /\ \A u \in Task : n.nest[u] = sem[x].nest[u] - IF u = t THEN 1 ELSE 0
  BY <1>1, DropFacts DEF Holds
<1>3. /\ sem' \in [Sema -> SemaphoreType] /\ sem'[x] = n
      /\ \A s \in Sema \ {x} : sem'[s] = sem[s]
  BY <1>1, <1>2 DEF Releases
<1>5. /\ \A u \in Task \ {t} : n.nest[u] = sem[x].nest[u]
      /\ n.nest[t] = sem[x].nest[t] - 1
  BY <1>1, <1>2 DEF SemaphoreType
<1> QED BY <1>3, <1>5 DEF Counts

(***************************************************************************)
(* Inside a call, t is at an entry of a list it was called with.           *)
(***************************************************************************)
LEMMA AtEntry ==
  ASSUME IInv, NEW t \in Task, pc[t] # "idle", pos[t] \in DOMAIN list[t]
  PROVE  /\ list[t] \in AttemptLists \cup ObtainLists
         /\ Len(list[t]) \in Nat /\ pos[t] \in 1 .. Len(list[t])
         /\ DOMAIN list[t] = 1 .. Len(list[t])
         /\ Here(t) \in Entry /\ Here(t).sema \in Sema
         /\ Here(t) = list[t][pos[t]]
         /\ \A i, j \in DOMAIN list[t] : list[t][i].sema = list[t][j].sema => i = j
<1>1. list[t] \in AttemptLists \cup ObtainLists
  BY DEF IInv, CursorsInside
<1> QED BY <1>1, ListFacts DEF Here, Entry

LEMMA AttemptEntryKeeps ==
  ASSUME IInv, NEW t \in Task, AttemptEntry(t)
  PROVE  IInv'
<1> DEFINE x == Here(t).sema
<1>1. /\ pc[t] = "try" /\ pos[t] \in DOMAIN list[t]
      /\ pos' = [pos EXCEPT ![t] = @ + 1]
      /\ UNCHANGED <<forbid, pc, call, list, undo, told>>
  BY DEF AttemptEntry
<1>2. /\ list[t] \in AttemptLists \cup ObtainLists
      /\ Len(list[t]) \in Nat /\ pos[t] \in 1 .. Len(list[t])
      /\ DOMAIN list[t] = 1 .. Len(list[t])
      /\ Here(t) \in Entry /\ x \in Sema
      /\ x = list[t][pos[t]].sema
      /\ \A i, j \in DOMAIN list[t] : list[t][i].sema = list[t][j].sema => i = j
  BY <1>1, AtEntry
<1>3. Counts(t, x, sem[x].nest[t] + 1) BY <1>2, GrabCounts
<1> HIDE DEF x
<1>4. TypeOK' BY <1>1, <1>2, <1>3 DEF Counts, IInv, TypeOK, PC
<1>5. \A u \in Task \ {t} : SameTask(u)
  BY <1>1, <1>3 DEF Counts, SameTask, IInv, TypeOK
<1>6. pos'[t] = pos[t] + 1 BY <1>1 DEF IInv, TypeOK
<1>7. CursorInside(t)'
  BY <1>1, <1>2, <1>6 DEF CursorInside, IInv, CursorsInside
<1>8. BalancedFor(t)'
  <2>1. InHand(t) = 1 .. (pos[t] - 1) BY <1>1, <1>2 DEF InHand
  <2>2. InHand(t)' = 1 .. pos[t] BY <1>1, <1>2, <1>6 DEF InHand
  <2>3. ASSUME NEW s \in Sema
        PROVE  sem'[s].nest[t] = told'[t][s] +
                 IF \E i \in InHand(t)' : list'[t][i].sema = s THEN 1 ELSE 0
    <3>1. sem[s].nest[t] = told[t][s] +
            IF \E i \in InHand(t) : list[t][i].sema = s THEN 1 ELSE 0
      BY DEF IInv, Balanced
    <3>2. told'[t][s] = told[t][s] /\ told[t][s] \in Nat /\ list' = list
      BY <1>1 DEF IInv, TypeOK
    <3>3. CASE s = x
      <4>1. ~ \E i \in InHand(t) : list[t][i].sema = s BY <1>2, <2>1, <3>3
      <4>2. \E i \in InHand(t)' : list[t][i].sema = s BY <1>2, <2>2, <3>3
      <4>3. sem'[s].nest[t] = sem[s].nest[t] + 1 BY <1>3, <3>3 DEF Counts
      <4> QED BY <3>1, <3>2, <4>1, <4>2, <4>3
    <3>4. CASE s # x
      <4>1. (\E i \in InHand(t)' : list[t][i].sema = s)
              <=> (\E i \in InHand(t) : list[t][i].sema = s)
        BY <1>2, <2>1, <2>2, <3>4
      <4>2. sem'[s].nest[t] = sem[s].nest[t] BY <1>3, <3>4 DEF Counts
      <4> QED BY <3>1, <3>2, <4>1, <4>2
    <3> QED BY <3>3, <3>4
  <2> QED BY <2>3 DEF BalancedFor
<1> QED BY <1>4, <1>5, <1>7, <1>8, OneTask

LEMMA UndoEntryKeeps ==
  ASSUME IInv, NEW t \in Task, UndoEntry(t)
  PROVE  IInv'
<1>1. /\ pc[t] = "undo" /\ undo[t] # pos[t]
      /\ undo' = [undo EXCEPT ![t] = @ + 1]
      /\ UNCHANGED <<forbid, pc, call, list, pos, told>>
  BY DEF UndoEntry
<1>2. /\ list[t] \in AttemptLists \cup ObtainLists
      /\ Len(list[t]) \in Nat /\ pos[t] \in 1 .. Len(list[t])
      /\ DOMAIN list[t] = 1 .. Len(list[t])
      /\ \A i, j \in DOMAIN list[t] : list[t][i].sema = list[t][j].sema => i = j
  BY <1>1, AtEntry DEF IInv, CursorsInside
<1>3. undo[t] \in 1 .. (pos[t] - 1) /\ undo[t] \in DOMAIN list[t]
  BY <1>1, <1>2 DEF IInv, CursorsInside, TypeOK
<1>4. PICK x \in Sema : x = list[t][undo[t]].sema
  BY <1>2, <1>3, ListFacts DEF Entry
<1>5. InHand(t) = undo[t] .. (pos[t] - 1) BY <1>1, <1>2, <1>3 DEF InHand
<1>6. sem[x].nest[t] = told[t][x] + 1 /\ told[t][x] \in Nat
  <2>1. \E i \in InHand(t) : list[t][i].sema = x BY <1>2, <1>3, <1>4, <1>5
  <2>2. sem[x].nest[t] = told[t][x] +
          IF \E i \in InHand(t) : list[t][i].sema = x THEN 1 ELSE 0
    BY DEF IInv, Balanced
  <2>3. told[t][x] \in Nat BY DEF IInv, TypeOK
  <2> QED BY <2>1, <2>2, <2>3
<1>7. Counts(t, x, sem[x].nest[t] - 1)
  <2>1. Releases(t, x) BY <1>4 DEF UndoEntry, Releases
  <2>2. sem[x].nest[t] > 0 BY <1>6
  <2> QED BY <2>1, <2>2, DropCounts
<1>8. undo'[t] = undo[t] + 1 BY <1>1 DEF IInv, TypeOK
<1>9. TypeOK' BY <1>1, <1>7 DEF Counts, IInv, TypeOK, PC
<1>10. \A u \in Task \ {t} : SameTask(u)
  BY <1>1, <1>7 DEF Counts, SameTask, IInv, TypeOK
<1>11. CursorInside(t)'
  BY <1>1, <1>2, <1>3, <1>8 DEF CursorInside, IInv, CursorsInside
<1>12. BalancedFor(t)'
  <2>1. InHand(t)' = (undo[t] + 1) .. (pos[t] - 1)
    BY <1>1, <1>2, <1>3, <1>8 DEF InHand
  <2>2. ASSUME NEW s \in Sema
        PROVE  sem'[s].nest[t] = told'[t][s] +
                 IF \E i \in InHand(t)' : list'[t][i].sema = s THEN 1 ELSE 0
    <3>1. sem[s].nest[t] = told[t][s] +
            IF \E i \in InHand(t) : list[t][i].sema = s THEN 1 ELSE 0
      BY DEF IInv, Balanced
    <3>2. told'[t][s] = told[t][s] /\ told[t][s] \in Nat /\ list' = list
      BY <1>1 DEF IInv, TypeOK
    <3>3. CASE s = x
      <4>1. ~ \E i \in InHand(t)' : list[t][i].sema = s
        BY <1>2, <1>3, <1>4, <2>1, <3>3
      <4>2. sem'[s].nest[t] = sem[s].nest[t] - 1 BY <1>7, <3>3 DEF Counts
      <4> QED BY <1>6, <3>2, <3>3, <4>1, <4>2
    <3>4. CASE s # x
      <4>1. (\E i \in InHand(t)' : list[t][i].sema = s)
              <=> (\E i \in InHand(t) : list[t][i].sema = s)
        BY <1>2, <1>3, <1>4, <1>5, <2>1, <3>4
      <4>2. sem'[s].nest[t] = sem[s].nest[t] BY <1>7, <3>4 DEF Counts
      <4> QED BY <3>1, <3>2, <4>1, <4>2
    <3> QED BY <3>3, <3>4
  <2> QED BY <2>2 DEF BalancedFor
<1> QED BY <1>9, <1>10, <1>11, <1>12, OneTask

(***************************************************************************)
(* The steps that leave the semaphores alone.                              *)
(***************************************************************************)
LEMMA FailKeeps ==
  ASSUME IInv, NEW t \in Task, AttemptFails(t)
  PROVE  IInv'
<1>1. /\ pc[t] = "try" /\ pos[t] \in DOMAIN list[t]
      /\ pc' = [pc EXCEPT ![t] = "undo"] /\ undo' = [undo EXCEPT ![t] = 1]
      /\ UNCHANGED <<sem, forbid, call, list, pos, told>>
  BY DEF AttemptFails
<1>2. /\ list[t] \in AttemptLists \cup ObtainLists
      /\ Len(list[t]) \in Nat /\ pos[t] \in 1 .. Len(list[t])
      /\ DOMAIN list[t] = 1 .. Len(list[t])
  BY <1>1, AtEntry
<1>3. TypeOK' BY <1>1 DEF IInv, TypeOK, PC
<1>4. \A u \in Task \ {t} : SameTask(u) BY <1>1 DEF SameTask, IInv, TypeOK
<1>5. pc'[t] = "undo" /\ undo'[t] = 1 BY <1>1 DEF IInv, TypeOK
<1>6. CursorInside(t)' BY <1>1, <1>2, <1>5 DEF CursorInside, IInv, CursorsInside
<1>7. BalancedFor(t)'
  <2>1. InHand(t)' = InHand(t) BY <1>1, <1>2, <1>5 DEF InHand
  <2> QED BY <1>1, <2>1 DEF BalancedFor, IInv, Balanced
<1> QED BY <1>3, <1>4, <1>6, <1>7, OneTask

LEMMA SucceedKeeps ==
  ASSUME IInv, NEW t \in Task, Succeed(t)
  PROVE  IInv'
<1>1. /\ pc[t] = "try" /\ pos[t] \notin DOMAIN list[t]
      /\ forbid' = NoTask
      /\ pc' = [pc EXCEPT ![t] = "idle"]
      /\ UNCHANGED <<sem, call, list, pos, undo>>
  BY DEF Succeed
<1>2. told' = [told EXCEPT ![t] = [s \in Sema |->
                @[s] + IF \E i \in DOMAIN list[t] : list[t][i].sema = s
                       THEN 1 ELSE 0]]
  BY DEF Succeed
<1>3. told' \in [Task -> [Sema -> Nat]] BY <1>2 DEF IInv, TypeOK
<1>4. TypeOK' BY <1>1, <1>3 DEF IInv, TypeOK, PC
<1>5. \A u \in Task \ {t} : SameTask(u)
  BY <1>1, <1>2 DEF SameTask, IInv, TypeOK
<1>6. pc'[t] = "idle" BY <1>1 DEF IInv, TypeOK
<1>7. CursorInside(t)' BY <1>6 DEF CursorInside
<1>8. BalancedFor(t)'
  <2>1. InHand(t)' = {} BY <1>6 DEF InHand
  <2>2. InHand(t) = DOMAIN list[t]
    <3>1. list[t] \in AttemptLists \cup ObtainLists
      BY <1>1 DEF IInv, CursorsInside
    <3>2. DOMAIN list[t] = 1 .. Len(list[t]) /\ Len(list[t]) \in Nat
      BY <3>1, ListFacts
    <3>3. pos[t] \in Nat \ {0} BY DEF IInv, TypeOK
    <3> QED BY <1>1, <3>2, <3>3 DEF InHand
  <2>3. \A s \in Sema : told'[t][s] = told[t][s] +
           IF \E i \in DOMAIN list[t] : list[t][i].sema = s THEN 1 ELSE 0
    BY <1>2 DEF IInv, TypeOK
  <2>4. \A s \in Sema : told'[t][s] \in Nat BY <1>3
  <2> QED BY <1>1, <2>1, <2>2, <2>3, <2>4 DEF BalancedFor, IInv, Balanced
<1> QED BY <1>4, <1>5, <1>7, <1>8, OneTask

LEMMA UndoDoneKeeps ==
  ASSUME IInv, NEW t \in Task, UndoDone(t)
  PROVE  IInv'
<1> DEFINE l == IF call[t] = "attempt" THEN "idle" ELSE "wait"
<1>1. /\ pc[t] = "undo" /\ undo[t] = pos[t]
      /\ forbid' = NoTask
      /\ pc' = [pc EXCEPT ![t] = l]
      /\ UNCHANGED <<sem, call, list, pos, undo, told>>
  BY DEF UndoDone
<1>2. l \in {"idle", "wait"} /\ (l = "wait" => call[t] = "obtain")
  BY DEF IInv, TypeOK
<1> HIDE DEF l
<1>3. pc'[t] = l BY <1>1 DEF IInv, TypeOK
<1>4. TypeOK' BY <1>1, <1>2 DEF IInv, TypeOK, PC
<1>5. \A u \in Task \ {t} : SameTask(u) BY <1>1 DEF SameTask, IInv, TypeOK
<1>6. CursorInside(t)'
  BY <1>1, <1>2, <1>3 DEF CursorInside, IInv, CursorsInside
<1>7. BalancedFor(t)'
  <2>1. undo[t] \in Nat BY DEF IInv, TypeOK
  <2>2. InHand(t) = {}
    <3>1. list[t] \in AttemptLists \cup ObtainLists
      BY <1>1 DEF IInv, CursorsInside
    <3>2. DOMAIN list[t] = 1 .. Len(list[t]) /\ Len(list[t]) \in Nat
      BY <3>1, ListFacts
    <3> QED BY <1>1, <2>1, <3>2 DEF InHand
  <2>3. InHand(t)' = {} BY <1>2, <1>3 DEF InHand
  <2> QED BY <1>1, <2>2, <2>3 DEF BalancedFor, IInv, Balanced
<1> QED BY <1>4, <1>5, <1>6, <1>7, OneTask

LEMMA WaitDoneKeeps ==
  ASSUME IInv, NEW t \in Task, WaitDone(t)
  PROVE  IInv'
<1> DEFINE x == Here(t).sema
<1>1. /\ pc[t] = "wait" /\ pc' = [pc EXCEPT ![t] = "got"]
      /\ UNCHANGED <<forbid, call, list, pos, undo, told>>
  BY DEF WaitDone
<1>2. pos[t] \in DOMAIN list[t] BY <1>1 DEF IInv, CursorsInside
<1>3. /\ Here(t) \in Entry /\ x \in Sema
      /\ x = list[t][pos[t]].sema
  BY <1>1, <1>2, AtEntry
<1>4. Counts(t, x, sem[x].nest[t] + 1) BY <1>3, GrabCounts
<1> HIDE DEF x
<1>5. TypeOK' BY <1>1, <1>4 DEF Counts, IInv, TypeOK, PC
<1>6. \A u \in Task \ {t} : SameTask(u)
  BY <1>1, <1>4 DEF Counts, SameTask, IInv, TypeOK
<1>7. pc'[t] = "got" BY <1>1 DEF IInv, TypeOK
<1>8. CursorInside(t)' BY <1>1, <1>7 DEF CursorInside, IInv, CursorsInside
<1>9. BalancedFor(t)'
  <2>1. InHand(t) = {} BY <1>1 DEF InHand
  <2>2. InHand(t)' = {pos[t]} BY <1>1, <1>2, <1>7 DEF InHand
  <2>3. ASSUME NEW s \in Sema
        PROVE  sem'[s].nest[t] = told'[t][s] +
                 IF \E i \in InHand(t)' : list'[t][i].sema = s THEN 1 ELSE 0
    <3>1. sem[s].nest[t] = told[t][s] BY <2>1 DEF IInv, Balanced, TypeOK
    <3>2. told'[t][s] = told[t][s] /\ told[t][s] \in Nat /\ list' = list
      BY <1>1 DEF IInv, TypeOK
    <3>3. CASE s = x
      BY <1>3, <1>4, <2>2, <3>1, <3>2, <3>3 DEF Counts
    <3>4. CASE s # x
      BY <1>3, <1>4, <2>2, <3>1, <3>2, <3>4 DEF Counts
    <3> QED BY <3>3, <3>4
  <2> QED BY <2>3 DEF BalancedFor
<1> QED BY <1>5, <1>6, <1>8, <1>9, OneTask

LEMMA GiveBackKeeps ==
  ASSUME IInv, NEW t \in Task, GiveBack(t)
  PROVE  IInv'
<1> DEFINE x == Here(t).sema
<1>1. /\ pc[t] = "got" /\ pc' = [pc EXCEPT ![t] = "again"]
      /\ UNCHANGED <<forbid, call, list, pos, undo, told>>
  BY DEF GiveBack
<1>2. pos[t] \in DOMAIN list[t] BY <1>1 DEF IInv, CursorsInside
<1>3. x \in Sema /\ x = list[t][pos[t]].sema BY <1>1, <1>2, AtEntry
<1>4. Releases(t, x) BY DEF GiveBack, Releases
<1> HIDE DEF x
<1>5. InHand(t) = {pos[t]} BY <1>1, <1>2 DEF InHand
<1>6. ASSUME NEW s \in Sema
      PROVE  /\ sem[s].nest[t] = told[t][s] + IF s = x THEN 1 ELSE 0
             /\ told[t][s] \in Nat
  <2>1. sem[s].nest[t] = told[t][s] +
          IF \E i \in InHand(t) : list[t][i].sema = s THEN 1 ELSE 0
    BY DEF IInv, Balanced
  <2>2. (\E i \in InHand(t) : list[t][i].sema = s) <=> s = x BY <1>3, <1>5
  <2> QED BY <2>1, <2>2 DEF IInv, TypeOK
<1>7. Counts(t, x, sem[x].nest[t] - 1)
  <2>1. sem[x].nest[t] > 0 BY <1>3, <1>6
  <2> QED BY <1>3, <1>4, <2>1, DropCounts
<1>8. TypeOK' BY <1>1, <1>7 DEF Counts, IInv, TypeOK, PC
<1>9. \A u \in Task \ {t} : SameTask(u)
  BY <1>1, <1>7 DEF Counts, SameTask, IInv, TypeOK
<1>10. pc'[t] = "again" BY <1>1 DEF IInv, TypeOK
<1>11. CursorInside(t)' BY <1>1, <1>10 DEF CursorInside, IInv, CursorsInside
<1>12. BalancedFor(t)'
  <2>1. InHand(t)' = {} BY <1>10 DEF InHand
  <2>2. ASSUME NEW s \in Sema
        PROVE  sem'[s].nest[t] = told'[t][s]
    <3>1. CASE s = x BY <1>1, <1>6, <1>7, <3>1 DEF Counts
    <3>2. CASE s # x BY <1>1, <1>6, <1>7, <3>2 DEF Counts
    <3> QED BY <3>1, <3>2
  <2>3. \A s \in Sema : told'[t][s] \in Nat BY <1>8 DEF TypeOK
  <2> QED BY <2>1, <2>2, <2>3 DEF BalancedFor
<1> QED BY <1>8, <1>9, <1>11, <1>12, OneTask

LEMMA AgainKeeps ==
  ASSUME IInv, NEW t \in Task, Again(t)
  PROVE  IInv'
<1>1. /\ pc[t] = "again" /\ forbid' = t
      /\ pc' = [pc EXCEPT ![t] = "try"] /\ pos' = [pos EXCEPT ![t] = 1]
      /\ UNCHANGED <<sem, call, list, undo, told>>
  BY DEF Again
<1>2. /\ list[t] \in AttemptLists \cup ObtainLists
      /\ DOMAIN list[t] = 1 .. Len(list[t]) /\ Len(list[t]) \in Nat
  BY <1>1, ListFacts DEF IInv, CursorsInside
<1>3. TypeOK' BY <1>1 DEF IInv, TypeOK, PC
<1>4. \A u \in Task \ {t} : SameTask(u) BY <1>1 DEF SameTask, IInv, TypeOK
<1>5. pc'[t] = "try" /\ pos'[t] = 1 BY <1>1 DEF IInv, TypeOK
<1>6. CursorInside(t)'
  BY <1>1, <1>2, <1>5 DEF CursorInside, IInv, CursorsInside
<1>7. BalancedFor(t)'
  <2>1. InHand(t) = {} BY <1>1 DEF InHand
  <2>2. InHand(t)' = {} BY <1>1, <1>2, <1>5 DEF InHand
  <2> QED BY <1>1, <2>1, <2>2 DEF BalancedFor, IInv, Balanced
<1> QED BY <1>3, <1>4, <1>6, <1>7, OneTask

LEMMA ReleaseKeeps ==
  ASSUME IInv, NEW t \in Task, NEW x \in Sema, ScalosReleaseSemaphore(t, x)
  PROVE  IInv'
<1>1. /\ pc[t] = "idle" /\ told[t][x] > 0
      /\ told' = [told EXCEPT ![t][x] = @ - 1]
      /\ UNCHANGED <<forbid, pc, call, list, pos, undo>>
  BY DEF ScalosReleaseSemaphore
<1>2. /\ InHand(t) = {} /\ InHand(t)' = {}
  BY <1>1 DEF InHand
<1>3. ASSUME NEW s \in Sema
      PROVE  sem[s].nest[t] = told[t][s] /\ told[t][s] \in Nat
  <2>1. told[t][s] \in Nat BY DEF IInv, TypeOK
  <2>2. sem[s].nest[t] = told[t][s]
             + IF \E i \in InHand(t) : list[t][i].sema = s THEN 1 ELSE 0
    BY DEF IInv, Balanced
  <2>3. ~ \E i \in InHand(t) : list[t][i].sema = s BY <1>2
  <2>4. sem[s].nest[t] = told[t][s] BY <2>1, <2>2, <2>3
  <2> QED BY <2>1, <2>4
<1>4. Counts(t, x, sem[x].nest[t] - 1)
  <2>1. Releases(t, x) BY DEF ScalosReleaseSemaphore, Releases
  <2>2. sem[x].nest[t] > 0 BY <1>1, <1>3
  <2> QED BY <2>1, <2>2, DropCounts
<1>5. /\ told'[t][x] = told[t][x] - 1
      /\ \A s \in Sema \ {x} : told'[t][s] = told[t][s]
      /\ \A u \in Task \ {t} : told'[u] = told[u]
  BY <1>1 DEF IInv, TypeOK
<1>6. told' \in [Task -> [Sema -> Nat]]
  BY <1>1, <1>3 DEF IInv, TypeOK
<1>7. TypeOK' BY <1>1, <1>4, <1>6 DEF Counts, IInv, TypeOK, PC
<1>8. \A u \in Task \ {t} : SameTask(u)
  BY <1>1, <1>4, <1>5 DEF Counts, SameTask
<1>9. CursorInside(t)' BY <1>1 DEF CursorInside
<1>10. BalancedFor(t)'
  <2>1. ASSUME NEW s \in Sema
        PROVE  sem'[s].nest[t] = told'[t][s]
    <3>1. CASE s = x BY <1>3, <1>4, <1>5, <3>1 DEF Counts
    <3>2. CASE s # x BY <1>3, <1>4, <1>5, <3>2 DEF Counts
    <3> QED BY <3>1, <3>2
  <2>2. \A s \in Sema : told'[t][s] \in Nat BY <1>6
  <2> QED BY <1>2, <2>1, <2>2 DEF BalancedFor
<1> QED BY <1>7, <1>8, <1>9, <1>10, OneTask

(***************************************************************************)
(* The inductive invariant holds in every reachable state.                 *)
(***************************************************************************)
LEMMA Inductive == Spec => []IInv
<1>1. Init => IInv
  <2> SUFFICES ASSUME Init PROVE IInv
    OBVIOUS
  <2>1. TypeOK BY FreeSemaphoreFacts DEF Init, TypeOK, PC
  <2>2. \A t \in Task : InHand(t) = {} BY DEF Init, InHand
  <2>3. Balanced BY <2>2, FreeSemaphoreFacts DEF Init, Balanced
  <2>4. CursorsInside BY DEF Init, CursorsInside
  <2> QED BY <2>1, <2>3, <2>4 DEF IInv
<1>2. IInv /\ [Next]_vars => IInv'
  <2> SUFFICES ASSUME IInv, [Next]_vars PROVE IInv'
    OBVIOUS
  <2>1. ASSUME NEW t \in Task, ScaAttemptSemaphoreList(t) PROVE IInv'
    BY <2>1, EnterKeeps DEF ScaAttemptSemaphoreList
  <2>2. ASSUME NEW t \in Task, ScaObtainSemaphoreList(t) PROVE IInv'
    BY <2>2, EnterKeeps DEF ScaObtainSemaphoreList
  <2>3. ASSUME NEW t \in Task, Inside(t) PROVE IInv'
    BY <2>3, AttemptEntryKeeps, FailKeeps, SucceedKeeps, UndoEntryKeeps,
       UndoDoneKeeps, WaitDoneKeeps, GiveBackKeeps, AgainKeeps DEF Inside
  <2>4. ASSUME NEW t \in Task, NEW s \in Sema, ScalosReleaseSemaphore(t, s)
        PROVE  IInv'
    BY <2>4, ReleaseKeeps
  <2>5. CASE UNCHANGED vars
    <3>1. \A u \in Task : SameTask(u) BY <2>5 DEF vars, SameTask
    <3>2. TypeOK' BY <2>5 DEF vars, IInv, TypeOK, PC
    <3>4. \A u \in Task : BalancedFor(u)' /\ CursorInside(u)'
      BY <3>1, SameTaskKeeps
      DEF IInv, Balanced, BalancedFor, CursorsInside, CursorInside
    <3>5. Balanced' BY <3>4 DEF Balanced, BalancedFor
    <3>6. CursorsInside' BY <3>4 DEF CursorsInside, CursorInside
    <3> QED BY <3>2, <3>5, <3>6 DEF IInv
  <2> QED BY <2>1, <2>2, <2>3, <2>4, <2>5 DEF Next
<1> QED BY <1>1, <1>2, PTL DEF Spec

(***************************************************************************)
(* The variables keep their types: no lock count becomes negative.         *)
(***************************************************************************)
THEOREM TypeCorrect == Spec => []TypeOK
<1>1. IInv => TypeOK BY DEF IInv
<1> QED BY <1>1, Inductive, PTL

(***************************************************************************)
(* ScaAttemptSemaphoreListA and ScaObtainSemaphoreListA obtain every       *)
(* semaphore of their list or none, whichever entry fails.                 *)
(***************************************************************************)
THEOREM AllOrNothing == Spec => []Balanced
<1>1. IInv => Balanced BY DEF IInv
<1> QED BY <1>1, Inductive, PTL

(***************************************************************************)
(* A task that waits inside ScaObtainSemaphoreListA holds no semaphore.    *)
(***************************************************************************)
THEOREM EmptyHanded == Spec => []WaitsEmptyHanded
<1>1. IInv => WaitsEmptyHanded
  <2> SUFFICES ASSUME IInv, NEW t \in Task, pc[t] \in {"wait", "again"},
                      NEW s \in Sema
               PROVE  ~Holds(sem[s], t)
    BY DEF WaitsEmptyHanded
  <2>1. InHand(t) = {} BY DEF InHand
  <2>2. told[t][s] = 0 BY DEF IInv, CursorsInside
  <2>3. sem[s].nest[t] = 0 BY <2>1, <2>2 DEF IInv, Balanced
  <2> QED BY <2>3 DEF Holds
<1> QED BY <1>1, Inductive, PTL

(***************************************************************************)
(* A step of t that is not an attempt of an entry, or of another task,     *)
(* leaves what t was told alone while t is inside the loop.                *)
(***************************************************************************)
LEMMA NoNestStep ==
  ASSUME IInv, NoNestIsFirst, [Next]_vars, NEW t \in Task,
         NEW i \in DOMAIN list'[t],
         pc'[t] = "try", i < pos'[t], list'[t][i].mode = "ExclusiveNoNest"
  PROVE  told'[t][list'[t][i].sema] = 0
<1> DEFINE Same == /\ pc'[t] = pc[t] /\ list'[t] = list[t]
                   /\ pos'[t] = pos[t] /\ told'[t] = told[t]
<1>1. CASE Same BY <1>1 DEF NoNestIsFirst
<1>2. CASE UNCHANGED vars
  <2>1. Same BY <1>2 DEF vars
  <2> QED BY <1>1, <2>1
<1> HIDE DEF Same
<1>3. ASSUME NEW u \in Task, NEW f, NEW l \in AttemptLists \cup ObtainLists,
             Enter(u, f, l)
      PROVE  told'[t][list'[t][i].sema] = 0
  <2>1. CASE u = t
    <3>1. pos'[t] = 1 /\ list'[t] = l BY <1>3, <2>1 DEF Enter, IInv, TypeOK
    <3>2. i \in Nat \ {0} BY <3>1, ListFacts
    <3> QED BY <3>1, <3>2
  <2>2. CASE u # t
    <3>1. Same BY <1>3, <2>2 DEF Same, Enter, IInv, TypeOK
    <3> QED BY <1>1, <3>1
  <2> QED BY <2>1, <2>2
<1>4. ASSUME NEW u \in Task, AttemptEntry(u)
      PROVE  told'[t][list'[t][i].sema] = 0
  <2>1. CASE u # t
    <3>1. Same BY <1>4, <2>1 DEF Same, AttemptEntry, IInv, TypeOK
    <3> QED BY <1>1, <3>1
  <2>2. CASE u = t
    <3>1. /\ pc[t] = "try" /\ pos[t] \in DOMAIN list[t]
          /\ pos'[t] = pos[t] + 1 /\ list' = list /\ told' = told
      BY <1>4, <2>2 DEF AttemptEntry, IInv, TypeOK
    <3>2. /\ Len(list[t]) \in Nat /\ pos[t] \in 1 .. Len(list[t])
          /\ DOMAIN list[t] = 1 .. Len(list[t])
          /\ Here(t) \in Entry /\ Here(t).sema \in Sema
          /\ Here(t) = list[t][pos[t]]
          /\ \A a, b \in DOMAIN list[t] : list[t][a].sema = list[t][b].sema => a = b
      BY <3>1, AtEntry
    <3>3. CASE i < pos[t] BY <3>1, <3>3 DEF NoNestIsFirst
    <3>4. CASE i = pos[t]
      <4> PICK x \in Sema : x = Here(t).sema BY <3>2
      <4>1. Here(t).mode = "ExclusiveNoNest" BY <3>1, <3>2, <3>4
      <4>2. NoNestSucceeds(sem[x], t)
        BY <1>4, <2>2, <4>1 DEF AttemptEntry, AttemptSucceeds
      <4>3. sem[x] \in SemaphoreType /\ told[t][x] \in Nat
        BY DEF IInv, TypeOK
      <4>4. sem[x].nest[t] = 0
        BY <4>2, <4>3
        DEF NoNestSucceeds, GrabExclusive, OneMore, SemaphoreType
      <4>5. ~ \E j \in InHand(t) : list[t][j].sema = x
        BY <3>1, <3>2 DEF InHand
      <4>6. told[t][x] = 0 BY <4>3, <4>4, <4>5 DEF IInv, Balanced
      <4> QED BY <3>1, <3>2, <3>4, <4>6
    <3> QED BY <3>1, <3>2, <3>3, <3>4
  <2> QED BY <2>1, <2>2
<1>5. ASSUME NEW u \in Task, Again(u)
      PROVE  told'[t][list'[t][i].sema] = 0
  <2>1. CASE u # t
    <3>1. Same BY <1>5, <2>1 DEF Same, Again, IInv, TypeOK
    <3> QED BY <1>1, <3>1
  <2>2. CASE u = t
    <3>1. /\ pc[t] = "again" /\ pos'[t] = 1 /\ list' = list
      BY <1>5, <2>2 DEF Again, IInv, TypeOK
    <3>2. list[t] \in AttemptLists \cup ObtainLists
      BY <3>1 DEF IInv, CursorsInside
    <3>3. i \in Nat \ {0} BY <3>1, <3>2, ListFacts
    <3> QED BY <3>1, <3>3
  <2> QED BY <2>1, <2>2
<1>6. ASSUME NEW u \in Task,
             \/ AttemptFails(u) \/ Succeed(u) \/ UndoEntry(u) \/ UndoDone(u)
             \/ WaitDone(u) \/ GiveBack(u)
             \/ \E s \in Sema : ScalosReleaseSemaphore(u, s)
      PROVE  told'[t][list'[t][i].sema] = 0
  <2>1. CASE u # t
    <3>1. Same
      BY <1>6, <2>1
      DEF Same, AttemptFails, Succeed, UndoEntry, UndoDone, WaitDone, GiveBack,
          ScalosReleaseSemaphore, IInv, TypeOK
    <3> QED BY <1>1, <3>1
  <2>2. CASE u = t
    <3>1. pc'[t] # "try"
      BY <1>6, <2>2
      DEF AttemptFails, Succeed, UndoEntry, UndoDone, WaitDone, GiveBack,
          ScalosReleaseSemaphore, IInv, TypeOK
    <3> QED BY <3>1
  <2> QED BY <2>1, <2>2
<1> QED
  BY <1>2, <1>3, <1>4, <1>5, <1>6
  DEF Next, Inside, ScaAttemptSemaphoreList, ScaObtainSemaphoreList

(***************************************************************************)
(* A list with a SCA_SemaphoreExclusiveNoNest entry is obtained only by a  *)
(* task that had no lock on its semaphore: icon updates do not nest.       *)
(***************************************************************************)
THEOREM UpdatesDoNotNest == Spec => NoNestNeverNests
<1> DEFINE Fresh(t) ==
      \A i \in DOMAIN list[t] :
        list[t][i].mode = "ExclusiveNoNest" => told'[t][list[t][i].sema] = 1
<1>1. Init => NoNestIsFirst BY DEF Init, NoNestIsFirst
<1>2. IInv /\ NoNestIsFirst /\ [Next]_vars => NoNestIsFirst'
  BY NoNestStep DEF NoNestIsFirst
<1>3. IInv /\ NoNestIsFirst /\ [Next]_vars =>
        [\A t \in Task : pc[t] = "try" /\ pc'[t] = "idle" => Fresh(t)]_vars
  <2> SUFFICES ASSUME IInv, NoNestIsFirst, Next, NEW t \in Task,
                      pc[t] = "try", pc'[t] = "idle"
               PROVE  Fresh(t)
    OBVIOUS
  <2>1. Succeed(t)
    <3>1. ASSUME NEW u \in Task,
                 \/ \E f \in {"attempt", "obtain"} :
                      \E l \in AttemptLists \cup ObtainLists : Enter(u, f, l)
                 \/ AttemptEntry(u) \/ AttemptFails(u) \/ UndoEntry(u)
                 \/ UndoDone(u) \/ WaitDone(u) \/ GiveBack(u) \/ Again(u)
                 \/ \E s \in Sema : ScalosReleaseSemaphore(u, s)
          PROVE  FALSE
      BY <3>1 DEF Enter, AttemptEntry, AttemptFails, UndoEntry, UndoDone, WaitDone,
                  GiveBack, Again, ScalosReleaseSemaphore, IInv, TypeOK
    <3>2. ASSUME NEW u \in Task, Succeed(u) PROVE u = t
      BY <3>2 DEF Succeed, IInv, TypeOK
    <3> QED
      BY <3>1, <3>2 DEF Next, Inside, ScaAttemptSemaphoreList, ScaObtainSemaphoreList
  <2> SUFFICES ASSUME NEW i \in DOMAIN list[t],
                      list[t][i].mode = "ExclusiveNoNest"
               PROVE  told'[t][list[t][i].sema] = 1
    OBVIOUS
  <2>2. /\ list[t] \in AttemptLists \cup ObtainLists
        /\ pos[t] \notin DOMAIN list[t] /\ pos[t] \in Nat \ {0}
    BY <2>1 DEF Succeed, IInv, TypeOK, CursorsInside
  <2>3. i < pos[t] /\ list[t][i].sema \in Sema
    BY <2>2, ListFacts DEF Entry
  <2>4. told[t][list[t][i].sema] = 0 BY <2>3 DEF NoNestIsFirst
  <2> QED BY <2>1, <2>3, <2>4 DEF Succeed, IInv, TypeOK
<1> QED BY <1>1, <1>2, <1>3, Inductive, PTL DEF Spec, NoNestNeverNests
=============================================================================
