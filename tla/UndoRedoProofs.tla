---------------------------- MODULE UndoRedoProofs ----------------------------
(***************************************************************************)
(* For every set of windows, every limit and every number of steps: the    *)
(* undo and redo lists implement UndoHistory, UndoCount counts, nothing is *)
(* left when the main task cleans up, and an entry about a window that is  *)
(* gone was in the hand of a process.                                      *)
(*                                                                         *)
(* What carries the argument is that a step is at one place: being filled, *)
(* on one of the lists, in hand, or freed.                                 *)
(***************************************************************************)
EXTENDS UndoRedo, ExecListTheorems

Past   == Range(undoList)
Future == Range(redoList)

OneEach ==
  \A v, w \in Window :
    filling[v].step = filling[w].step => v = w \/ filling[v].step = NoStep

Apart ==
  /\ Filled \cup Past \cup InHand \cup Future \cup freed \subseteq 1 .. made
  /\ Filled \cap (Past \cup InHand \cup Future \cup freed) = {}
  /\ Past \cap (InHand \cup Future \cup freed) = {}
  /\ InHand \cap (Future \cup freed) = {}
  /\ Future \cap freed = {}

Once == IsInjective(undoList) /\ IsInjective(redoList) /\ OneEach /\ Apart

(***************************************************************************)
(* A window has a step while it fills one, and stays while its processes   *)
(* undo or redo.  There is a step left for each window that is to close,   *)
(* and all but the desktop show a directory.                               *)
(***************************************************************************)
Fills == \A w \in Window : filling[w] = Nothing <=> proc[w] \notin {"filling", "closing"}

ParentsStay == \A s \in InHand : proc[task[s].by] \in {"idle", "filling"}

ToClose == {w \in Window : proc[w] \in {"idle", "filling"}}
RoomToClose == made + Cardinality(ToClose) <= MaxSteps

Shows == \A w \in Window \ {Desk} : proc[w] # "shut" => dir[w] \in Dir

QuitIsLast ==
  quit => /\ \A w \in Window : proc[w] = "shut"
          /\ undoList = << >> /\ redoList = << >>

(***************************************************************************)
(* Only a window itself begins a step about its size, and none is about a  *)
(* window that went through the lists, unless it escaped.                  *)
(***************************************************************************)
IsSize(e, w) == e.type = "size" /\ e.win = w

OwnSize ==
  /\ \A s \in Step : s > made => event[s] = NoEvent
  /\ \A v, w \in Window :
       filling[v].step # NoStep /\ IsSize(event[filling[v].step], w) => v = w
  /\ orphans \subseteq 1 .. made

Passed ==
  /\ \A w \in Window, s \in Step : IsSize(event[s], w) =>
       /\ proc[w] = "redopass" /\ s \in Filled \cup Past \cup InHand => s \in escaped
       /\ proc[w] = "leaving" /\ s \in Filled \cup Past \cup InHand \cup Future
            => s \in escaped
  /\ \A s \in orphans : s \in Filled \cup Past \cup InHand \cup Future => s \in escaped

(***************************************************************************)
(* A window stays while its processes are late, and the step of a late     *)
(* process is filled by nobody.                                            *)
(***************************************************************************)
LateParentsStay == \A r \in late : proc[r.by] \in {"idle", "filling"}

LateApart == \A r \in late : r.step \in 1 .. made /\ r.step \notin Filled

IInv ==
  /\ TypeOK /\ Once /\ CountMatches
  /\ Fills /\ ParentsStay /\ RoomToClose /\ Shows /\ QuitIsLast
  /\ OwnSize /\ Passed
  /\ LateParentsStay /\ LateApart /\ LateTasksAreSafe
-----------------------------------------------------------------------------
(***************************************************************************)
(* The sets of steps, when a window or a process gets or loses its step.   *)
(***************************************************************************)
LEMMA Basics ==
  ASSUME IInv
  PROVE  /\ made \in Nat /\ MaxSteps \in Nat /\ ULongs \in Nat /\ MaxSteps < ULongs
         /\ undoList \in Seq(Step) /\ redoList \in Seq(Step)
         /\ InHand = Undoing \cup Redoing /\ Undoing \cap Redoing = {}
         /\ \A s \in Step : s \in Int /\ s # NoStep
         /\ \A w \in Window : filling[w].step \in Step \cup {NoStep}
         /\ \A w \in Window :
              /\ proc[w] \in {"filling", "closing"} =>
                   filling[w].step \in Filled /\ filling[w].step \in Step
              /\ proc[w] \notin {"filling", "closing"} => filling[w] = Nothing
         /\ made + 1 \notin Filled \cup Past \cup InHand \cup Future \cup freed
<1>1. /\ made \in Nat /\ MaxSteps \in Nat /\ ULongs \in Nat /\ MaxSteps < ULongs
      /\ undoList \in Seq(Step) /\ redoList \in Seq(Step)
      /\ task \in [Step -> Tasks] /\ filling \in [Window -> Fillings]
  BY NumberAssumption DEF IInv, TypeOK
<1>2. InHand = Undoing \cup Redoing /\ Undoing \cap Redoing = {}
  BY <1>1 DEF InHand, Undoing, Redoing, Tasks, NoTask
<1>3. \A s \in Step : s \in Int /\ s # NoStep
  BY <1>1 DEF Step, NoStep
<1>4. \A w \in Window : /\ filling[w].step \in Step \cup {NoStep}
                        /\ filling[w] # Nothing => filling[w].step \in Step
  BY <1>1 DEF Fillings, Nothing
<1>5. \A w \in Window :
        /\ proc[w] \in {"filling", "closing"} =>
             filling[w].step \in Filled /\ filling[w].step \in Step
        /\ proc[w] \notin {"filling", "closing"} => filling[w] = Nothing
  BY <1>3, <1>4 DEF IInv, Fills, Filled
<1>6. made + 1 \notin 1 .. made
  BY <1>1
<1> QED BY <1>1, <1>2, <1>3, <1>4, <1>5, <1>6 DEF IInv, Once, OneEach, Apart

LEMMA FillBegins ==
  ASSUME IInv, NEW w \in Window, proc[w] \notin {"filling", "closing"},
         NEW s \in Step, NEW m, filling' = [filling EXCEPT ![w] = [step |-> s, multi |-> m]]
  PROVE  Filled' = Filled \cup {s}
<1>1. filling \in [Window -> Fillings]
  BY DEF IInv, TypeOK
<1>2. filling[w].step = NoStep /\ s # NoStep
  BY Basics DEF Nothing
<1>3. \A v \in Window : filling'[v].step = IF v = w THEN s ELSE filling[v].step
  BY <1>1
<1> QED BY <1>2, <1>3 DEF Filled

LEMMA FillEnds ==
  ASSUME IInv, NEW w \in Window, proc[w] \in {"filling", "closing"},
         filling' = [filling EXCEPT ![w] = Nothing]
  PROVE  Filled' = Filled \ {filling[w].step}
<1>1. filling \in [Window -> Fillings]
  BY DEF IInv, TypeOK
<1>2. filling[w].step # NoStep
  BY Basics
<1>3. \A v \in Window : filling'[v].step = IF v = w THEN NoStep ELSE filling[v].step
  BY <1>1 DEF Nothing
<1>4. \A v \in Window : filling[v].step = filling[w].step => v = w
  BY <1>2 DEF IInv, Once, OneEach, Apart
<1> QED BY <1>2, <1>3, <1>4 DEF Filled

LEMMA TaskBegins ==
  ASSUME IInv, NEW s \in Step \ InHand, NEW d \in {"undo", "redo"}, NEW w,
         task' = [task EXCEPT ![s] = [doing |-> d, by |-> w]]
  PROVE  /\ Undoing' = Undoing \cup IF d = "undo" THEN {s} ELSE {}
         /\ Redoing' = Redoing \cup IF d = "redo" THEN {s} ELSE {}
         /\ InHand' = InHand \cup {s}
<1>1. task \in [Step -> Tasks]
  BY DEF IInv, TypeOK
<1>2. \A r \in Step : task'[r].doing = IF r = s THEN d ELSE task[r].doing
  BY <1>1
<1> QED BY <1>2 DEF Undoing, Redoing, InHand

LEMMA TaskEnds ==
  ASSUME IInv, NEW s \in Step, task' = [task EXCEPT ![s] = NoTask]
  PROVE  Undoing' = Undoing \ {s} /\ Redoing' = Redoing \ {s} /\ InHand' = InHand \ {s}
<1>1. task \in [Step -> Tasks]
  BY DEF IInv, TypeOK
<1>2. \A r \in Step : task'[r].doing = IF r = s THEN "none" ELSE task[r].doing
  BY <1>1 DEF NoTask
<1> QED BY <1>2 DEF Undoing, Redoing, InHand

LEMMA ListsUnchanged ==
  /\ UNCHANGED undoList => Past' = Past
  /\ UNCHANGED redoList => Future' = Future
  /\ UNCHANGED task => Undoing' = Undoing /\ Redoing' = Redoing /\ InHand' = InHand
  /\ UNCHANGED filling => Filled' = Filled
  /\ RedoCleanup => redoList' = << >> /\ Future' = {} /\ freed' = freed \cup Future
  BY EmptySeq DEF Past, Future, Undoing, Redoing, InHand, Filled, RedoCleanup, Free, Range
-----------------------------------------------------------------------------
(***************************************************************************)
(* Each action is a step of UndoHistory.                                   *)
(***************************************************************************)
LEMMA BeginStepIs ==
  ASSUME IInv, NEW w \in Window, NEW multi \in BOOLEAN, BeginStep(w, multi)
  PROVE  /\ made' = made + 1 /\ made' \in Step
         /\ Filled' = Filled \cup {made + 1}
         /\ UNCHANGED <<Past, Undoing, Redoing, InHand, Future>>
         /\ History!Start(made + 1)
<1>1. made' = made + 1 /\ freed' = freed
      /\ UNCHANGED <<undoList, redoList, task>>
  BY DEF BeginStep, lists
<1>2. made' \in Step
  <2>1. StepsToClose \in Nat
    BY FS_Subset, FS_CardinalityType, WindowAssumption DEF StepsToClose
  <2>2. made + StepsToClose + 1 <= MaxSteps
    BY DEF BeginStep, MayBegin
  <2> QED BY <1>1, <2>1, <2>2, Basics DEF Step
<1>3. Filled' = Filled \cup {made + 1}
  BY <1>1, <1>2, FillBegins DEF BeginStep
<1>4. UNCHANGED <<Past, Undoing, Redoing, InHand, Future>>
  BY <1>1, ListsUnchanged
<1>5. History!Start(made + 1)
  BY <1>1, <1>3, <1>4, Basics DEF History!Start, History!Known, Past, Future
<1> QED BY <1>1, <1>2, <1>3, <1>4, <1>5

LEMMA AddEventIs ==
  ASSUME IInv, NEW w \in Window, NEW e \in Event(w), AddEvent(w, e)
  PROVE  /\ redoList' = << >> /\ Future' = {} /\ freed' = freed \cup Future
         /\ UNCHANGED <<Filled, Past, Undoing, Redoing, InHand>>
         /\ History!Forget(Future)
<1>1. /\ redoList' = << >> /\ Future' = {} /\ freed' = freed \cup Future
      /\ UNCHANGED <<Filled, Past, Undoing, Redoing, InHand, made>>
  BY ListsUnchanged DEF AddEvent, windows
<1> QED BY <1>1 DEF IInv, Once, OneEach, Apart, History!Forget, Past, Future

LEMMA AddEventFailsIs ==
  ASSUME IInv, NEW w \in Window, AddEventFails(w)
  PROVE  /\ redoList' = << >> /\ Future' = {} /\ freed' = freed \cup Future
         /\ UNCHANGED <<Past, Undoing, Redoing, InHand>>
         /\ Filled' \subseteq Filled
         /\ History!Forget(Future) \/ History!Lose(filling[w].step)
<1>1. /\ redoList' = << >> /\ Future' = {} /\ freed' = freed \cup Future
      /\ UNCHANGED <<Past, Undoing, Redoing, InHand, made>>
  BY ListsUnchanged DEF AddEventFails
<1>2. CASE filling[w].multi
  <2>1. UNCHANGED Filled
    BY <1>2, ListsUnchanged DEF AddEventFails
  <2>2. History!Forget(Future)
    BY <1>1, <2>1 DEF IInv, Once, OneEach, Apart, History!Forget, Past, Future
  <2> QED BY <1>1, <2>1, <2>2
<1>3. CASE ~filling[w].multi
  <2> DEFINE s == filling[w].step
  <2>1. Filled' = Filled \ {s} /\ s \in Filled
    BY <1>3, FillEnds, Basics DEF AddEventFails
  <2>2. s \in 1 .. made
    BY <2>1 DEF IInv, Once, OneEach, Apart
  <2> HIDE DEF s
  <2>3. History!Lose(s)
    BY <1>1, <2>1, <2>2 DEF IInv, Once, OneEach, Apart, History!Lose, Past, Future
  <2> QED BY <1>1, <2>1, <2>3 DEF s
<1> QED BY <1>2, <1>3

(***************************************************************************)
(* A step that nobody added an event to is freed at once.                  *)
(***************************************************************************)
LEMMA EndStepIs ==
  ASSUME IInv, NEW w \in Window, EndStep(w)
  PROVE  LET s == filling[w].step
         IN  /\ s \in Filled /\ Filled' = Filled \ {s}
             /\ UNCHANGED <<Undoing, Redoing, InHand, Future>>
             /\ undoList' \in Seq(Step) /\ IsInjective(undoList')
             /\ \E oldest \in SUBSET (Past \cup {s}) :
                  Past' = (Past \cup {s}) \ oldest /\ freed' = freed \cup oldest
             /\ History!Record(s)
<1> DEFINE s == filling[w].step
           longer == Append(undoList, s)
<1>1. s \in Filled /\ s \in Step /\ Filled' = Filled \ {s}
  BY FillEnds, Basics DEF EndStep
<1>2. UNCHANGED <<Undoing, Redoing, InHand, Future, made>>
  BY ListsUnchanged DEF EndStep
<1>3. s \notin Past \cup InHand \cup Future \cup freed /\ IsInjective(undoList)
      /\ undoList \in Seq(Step)
  BY <1>1, Basics DEF IInv, Once, OneEach, Apart
<1>4. /\ longer \in Seq(Step) /\ longer # << >> /\ IsInjective(longer)
      /\ Range(longer) = Past \cup {s}
  BY <1>1, <1>3, AppendFacts DEF Past
<1>5. /\ undoList' \in Seq(Step) /\ IsInjective(undoList')
      /\ \E oldest \in SUBSET (Past \cup {s}) :
           Past' = (Past \cup {s}) \ oldest /\ freed' = freed \cup oldest
  <2>1. CASE event[s] = NoEvent
    <3>1. undoList' = undoList /\ freed' = freed \cup {s} /\ Past' = Past
      BY <2>1, ListsUnchanged DEF EndStep, Free
    <3> QED BY <1>3, <3>1
  <2>2. CASE event[s] # NoEvent /\ Plus(1) > MaxUndoSteps
    <3>1. undoList' = Tail(longer) /\ freed' = freed \cup {Head(longer)}
      BY <2>2 DEF EndStep, AppendStep, Free
    <3> HIDE DEF s, longer
    <3>2. /\ Tail(longer) \in Seq(Step) /\ IsInjective(Tail(longer))
          /\ Head(longer) \in Past \cup {s}
          /\ Range(Tail(longer)) = (Past \cup {s}) \ {Head(longer)}
      BY <1>4, TailFacts
    <3>3. Past' = (Past \cup {s}) \ {Head(longer)}
      BY <3>1, <3>2 DEF Past
    <3>4. {Head(longer)} \in SUBSET (Past \cup {s})
      BY <3>2
    <3> QED BY <3>1, <3>2, <3>3, <3>4
  <2>3. CASE event[s] # NoEvent /\ ~(Plus(1) > MaxUndoSteps)
    <3>1. undoList' = longer /\ freed' = freed
      BY <2>3 DEF EndStep, AppendStep
    <3>2. Past' = Past \cup {s}
      BY <3>1, <1>4 DEF Past
    <3> HIDE DEF s, longer
    <3>3. Past' = (Past \cup {s}) \ {} /\ freed' = freed \cup {}
      BY <3>1, <3>2
    <3> QED BY <1>4, <3>1, <3>3
  <2> QED BY <2>1, <2>2, <2>3
<1> HIDE DEF s, longer
<1>6. History!Record(s)
  <2>1. PICK oldest \in SUBSET (Past \cup {s}) :
               Past' = (Past \cup {s}) \ oldest /\ freed' = freed \cup oldest
    BY <1>5
  <2>2. Filled' \cup Past' \cup InHand' \cup Future' \cup freed'
          = Filled \cup Past \cup InHand \cup Future \cup freed
    BY <1>1, <1>2, <2>1
  <2> QED BY <1>1, <1>2, <2>1, <2>2 DEF History!Record, Past, Future
<1> QED BY <1>1, <1>2, <1>5, <1>6 DEF s

LEMMA UndoIs ==
  ASSUME IInv, NEW w \in Window, Undo(w)
  PROVE  /\ UNCHANGED <<Filled, Redoing, Future>>
         /\ undoList' \in Seq(Step) /\ IsInjective(undoList')
         /\ \/ UNCHANGED <<Past, Undoing, InHand, undoList, task>>
            \/ \E s \in Past :
                 /\ s \in Step /\ undoList # << >> /\ Past' = Past \ {s}
                 /\ Len(undoList') = Len(undoList) - 1
                 /\ \/ /\ UNCHANGED <<Undoing, InHand, task>> /\ History!Lose(s)
                    \/ /\ Undoing' = Undoing \cup {s} /\ InHand' = InHand \cup {s}
                       /\ task' = [task EXCEPT ![s] = [doing |-> "undo", by |-> w]]
                       /\ History!BeginUndo(s)
<1>1. UNCHANGED <<Filled, Future, made, freed>>
  BY ListsUnchanged DEF Undo, windows, steps
<1>2. undoList \in Seq(Step) /\ IsInjective(undoList)
  BY Basics DEF IInv, Once, OneEach, Apart
<1>3. CASE undoList = << >>
  <2>1. UNCHANGED <<Past, Undoing, Redoing, InHand, undoList, task>>
    BY <1>3, ListsUnchanged DEF Undo
  <2> QED BY <1>1, <1>2, <2>1
<1>4. CASE undoList # << >>
  <2> DEFINE s == undoList[Len(undoList)]
  <2>1. undoList' = SubSeq(undoList, 1, Len(undoList) - 1)
        /\ StartTask(w, s, "undo")
    BY <1>4 DEF Undo, Front, Last
  <2>2. /\ undoList' \in Seq(Step) /\ IsInjective(undoList')
        /\ Len(undoList') = Len(undoList) - 1
        /\ s \in Past /\ s \in Step /\ Past' = Past \ {s}
    BY <1>2, <1>4, <2>1, FrontFacts DEF Past
  <2> HIDE DEF s
  <2>3. s \in 1 .. made /\ s \notin InHand \cup Filled \cup Future \cup freed
    BY <2>2 DEF IInv, Once, OneEach, Apart
  <2>4. CASE task' = task
    <3>1. UNCHANGED <<Undoing, Redoing, InHand>>
      BY <2>4, ListsUnchanged
    <3>2. History!Lose(s)
      BY <1>1, <2>2, <2>3, <3>1 DEF History!Lose, IInv, Once, OneEach, Apart, Past, Future
    <3> QED BY <1>1, <1>4, <2>2, <2>4, <3>1, <3>2
  <2>5. CASE task' = [task EXCEPT ![s] = [doing |-> "undo", by |-> w]]
    <3>1. Undoing' = Undoing \cup {s} /\ UNCHANGED Redoing /\ InHand' = InHand \cup {s}
      BY <2>2, <2>3, <2>5, TaskBegins
    <3>2. History!BeginUndo(s)
      BY <1>1, <2>2, <2>3, <3>1 DEF History!BeginUndo, IInv, Once, OneEach, Apart, Past, Future
    <3> QED BY <1>1, <1>4, <2>2, <2>5, <3>1, <3>2
  <2> QED BY <2>1, <2>4, <2>5 DEF StartTask
<1> QED BY <1>3, <1>4

LEMMA RedoIs ==
  ASSUME IInv, NEW w \in Window, Redo(w)
  PROVE  /\ UNCHANGED <<Filled, Undoing, Past>>
         /\ redoList' \in Seq(Step) /\ IsInjective(redoList')
         /\ \E s \in Future :
              /\ s \in Step /\ Future' = Future \ {s} /\ s = Last(redoList)
              /\ \/ /\ UNCHANGED <<Redoing, InHand, task>> /\ History!Lose(s)
                 \/ /\ Redoing' = Redoing \cup {s} /\ InHand' = InHand \cup {s}
                    /\ task' = [task EXCEPT ![s] = [doing |-> "redo", by |-> w]]
                    /\ History!BeginRedo(s)
<1>1. UNCHANGED <<Filled, Past, made, freed>>
  BY ListsUnchanged DEF Redo, windows, steps
<1>2. redoList \in Seq(Step) /\ IsInjective(redoList)
  BY Basics DEF IInv, Once, OneEach, Apart
<1> DEFINE s == redoList[Len(redoList)]
<1>3. redoList' = SubSeq(redoList, 1, Len(redoList) - 1)
      /\ StartTask(w, s, "redo") /\ redoList # << >> /\ s = Last(redoList)
  BY DEF Redo, Front, Last
<1>4. /\ redoList' \in Seq(Step) /\ IsInjective(redoList')
      /\ s \in Future /\ s \in Step /\ Future' = Future \ {s}
  BY <1>2, <1>3, FrontFacts DEF Future
<1> HIDE DEF s
<1>5. s \in 1 .. made /\ s \notin InHand \cup Filled \cup Past \cup freed
  BY <1>4 DEF IInv, Once, OneEach, Apart
<1>6. CASE task' = task
  <2>1. UNCHANGED <<Undoing, Redoing, InHand>>
    BY <1>6, ListsUnchanged
  <2>2. History!Lose(s)
    BY <1>1, <1>4, <1>5, <2>1 DEF History!Lose, IInv, Once, OneEach, Apart, Past, Future
  <2> QED BY <1>1, <1>3, <1>4, <1>6, <2>1, <2>2
<1>7. CASE task' = [task EXCEPT ![s] = [doing |-> "redo", by |-> w]]
  <2>1. Redoing' = Redoing \cup {s} /\ UNCHANGED Undoing /\ InHand' = InHand \cup {s}
    <3>1. s \in Step \ InHand /\ "redo" \in {"undo", "redo"}
      BY <1>4, <1>5
    <3>2. /\ Undoing' = Undoing \cup IF "redo" = "undo" THEN {s} ELSE {}
          /\ Redoing' = Redoing \cup IF "redo" = "redo" THEN {s} ELSE {}
          /\ InHand' = InHand \cup {s}
      BY <1>7, <3>1, TaskBegins, Zenon
    <3> QED BY <3>2
  <2>2. History!BeginRedo(s)
    BY <1>1, <1>4, <1>5, <2>1 DEF History!BeginRedo, IInv, Once, OneEach, Apart, Past, Future
  <2> QED BY <1>1, <1>3, <1>4, <1>7, <2>1, <2>2
<1> QED BY <1>3, <1>6, <1>7 DEF StartTask

LEMMA UndoTaskIs ==
  ASSUME IInv, NEW s \in Step, UndoTask(s)
  PROVE  /\ s \in Undoing /\ s \in InHand
         /\ Undoing' = Undoing \ {s} /\ InHand' = InHand \ {s}
         /\ UNCHANGED <<Filled, Past, Redoing>>
         /\ Future' = Future \cup {s}
         /\ redoList' \in Seq(Step) /\ IsInjective(redoList')
         /\ History!EndUndo(s)
<1>1. UNCHANGED <<Filled, Past, made, freed>>
  BY ListsUnchanged DEF UndoTask, windows, steps
<1>2. s \in Undoing /\ s \in InHand
  BY DEF UndoTask, Undoing, InHand
<1>3. Undoing' = Undoing \ {s} /\ Redoing' = Redoing \ {s} /\ InHand' = InHand \ {s}
  BY TaskEnds DEF UndoTask, PutBack
<1>4. s \in 1 .. made /\ s \notin Filled \cup Past \cup Future \cup freed \cup Redoing
  BY <1>2, Basics DEF IInv, Once, OneEach, Apart
<1>5. redoList' \in Seq(Step) /\ IsInjective(redoList') /\ Future' = Future \cup {s}
  BY <1>4, AppendFacts DEF UndoTask, IInv, TypeOK, Once, OneEach, Apart, Future
<1>6. History!EndUndo(s)
  BY <1>1, <1>2, <1>3, <1>4, <1>5 DEF History!EndUndo, IInv, Once, OneEach, Apart, Past, Future
<1> QED BY <1>1, <1>2, <1>3, <1>4, <1>5, <1>6

LEMMA RedoTaskIs ==
  ASSUME IInv, NEW s \in Step, RedoTask(s)
  PROVE  /\ s \in Redoing /\ s \in InHand
         /\ Redoing' = Redoing \ {s} /\ InHand' = InHand \ {s}
         /\ UNCHANGED <<Filled, Future, Undoing>>
         /\ Past' = Past \cup {s}
         /\ undoList' \in Seq(Step) /\ IsInjective(undoList')
         /\ Len(undoList') = Len(undoList) + 1
         /\ History!EndRedo(s)
<1>1. UNCHANGED <<Filled, Future, made, freed>>
  BY ListsUnchanged DEF RedoTask, windows, steps
<1>2. s \in Redoing /\ s \in InHand
  BY DEF RedoTask, Redoing, InHand
<1>3. Undoing' = Undoing \ {s} /\ Redoing' = Redoing \ {s} /\ InHand' = InHand \ {s}
  BY TaskEnds DEF RedoTask, PutBack
<1>4. s \in 1 .. made /\ s \notin Filled \cup Past \cup Future \cup freed \cup Undoing
  BY <1>2, Basics DEF IInv, Once, OneEach, Apart
<1>5. undoList' \in Seq(Step) /\ IsInjective(undoList') /\ Past' = Past \cup {s}
      /\ Len(undoList') = Len(undoList) + 1
  BY <1>4, AppendFacts DEF RedoTask, IInv, TypeOK, Once, OneEach, Apart, Past
<1>6. History!EndRedo(s)
  BY <1>1, <1>2, <1>3, <1>4, <1>5 DEF History!EndRedo, IInv, Once, OneEach, Apart, Past, Future
<1> QED BY <1>1, <1>2, <1>3, <1>4, <1>5, <1>6

LEMMA TaskFailsIs ==
  ASSUME IInv, NEW s \in Step, TaskFails(s)
  PROVE  /\ s \in InHand /\ InHand' = InHand \ {s}
         /\ UNCHANGED <<Filled, Past, Future>> /\ freed' = freed \cup {s}
         /\ History!EndUndo(s) \/ History!EndRedo(s)
<1>1. UNCHANGED <<Filled, Past, Future, made>> /\ freed' = freed \cup {s} /\ s \in InHand
  BY ListsUnchanged DEF TaskFails, windows, lists, Free
<1>2. Undoing' = Undoing \ {s} /\ Redoing' = Redoing \ {s} /\ InHand' = InHand \ {s}
  BY TaskEnds DEF TaskFails
<1>3. s \in 1 .. made /\ s \notin Filled \cup Past \cup Future \cup freed
  BY <1>1 DEF IInv, Once, OneEach, Apart
<1>4. CASE s \in Undoing
  <2>1. s \notin Redoing
    BY <1>4, Basics
  <2>2. History!EndUndo(s)
    BY <1>1, <1>2, <1>3, <1>4, <2>1 DEF History!EndUndo, IInv, Once, OneEach, Apart, Past, Future
  <2> QED BY <1>1, <1>2, <2>2
<1>5. CASE s \in Redoing
  <2>1. s \notin Undoing
    BY <1>5, Basics
  <2>2. History!EndRedo(s)
    BY <1>1, <1>2, <1>3, <1>5, <2>1 DEF History!EndRedo, IInv, Once, OneEach, Apart, Past, Future
  <2> QED BY <1>1, <1>2, <2>2
<1> QED BY <1>1, <1>4, <1>5, Basics

(***************************************************************************)
(* The loops that take some steps off a list and free them.                *)
(***************************************************************************)
LEMMA LoopTakes ==
  ASSUME NEW q \in Seq(Step), IsInjective(q), NEW Found, Found \subseteq Range(q)
  PROVE  /\ Without(q, Found) \in Seq(Step) /\ IsInjective(Without(q, Found))
         /\ Range(Without(q, Found)) = Range(q) \ Found
         /\ Len(Without(q, Found)) = Len(q) - Cardinality(Found)
         /\ Cardinality(Found) \in Nat /\ Cardinality(Found) <= Len(q)
  BY WithoutFacts, WithoutInjective

LEMMA UndoListLoop ==
  ASSUME IInv, NEW Found, Found \subseteq Past, undoList' = Without(undoList, Found),
         Free(Found), UNCHANGED <<redoList, made, filling, task>>
  PROVE  /\ UNCHANGED <<Filled, Undoing, Redoing, InHand, Future>>
         /\ undoList' \in Seq(Step) /\ IsInjective(undoList')
         /\ Past' = Past \ Found /\ freed' = freed \cup Found
         /\ Len(undoList') = Len(undoList) - Cardinality(Found)
         /\ Cardinality(Found) \in Nat /\ Cardinality(Found) <= Len(undoList)
         /\ History!Forget(Found)
<1>1. UNCHANGED <<Filled, Undoing, Redoing, InHand, Future>> /\ freed' = freed \cup Found
  BY ListsUnchanged DEF Free
<1>2. undoList \in Seq(Step) /\ IsInjective(undoList) /\ Found \subseteq Range(undoList)
  BY Basics DEF IInv, Once, OneEach, Apart, Past
<1>3. /\ undoList' \in Seq(Step) /\ IsInjective(undoList')
      /\ Past' = Past \ Found
      /\ Len(undoList') = Len(undoList) - Cardinality(Found)
      /\ Cardinality(Found) \in Nat /\ Cardinality(Found) <= Len(undoList)
  BY <1>2, LoopTakes DEF Past
<1>4. /\ Found \subseteq Filled \cup Past \cup Future
      /\ Filled \ Found = Filled /\ Future \ Found = Future
      /\ Filled' \cup Past' \cup InHand' \cup Future' \cup freed'
           = Filled \cup Past \cup InHand \cup Future \cup freed
  BY <1>1, <1>3 DEF IInv, Once, OneEach, Apart
<1>5. History!Forget(Found)
  BY <1>1, <1>3, <1>4 DEF History!Forget, Past, Future
<1> QED BY <1>1, <1>3, <1>5

LEMMA OpenIs ==
  ASSUME IInv, NEW w \in Window, NEW d \in Dir, Open(w, d)
  PROVE  LET Found == {s \in Range(undoList) : Closes(s, d)}
         IN  /\ UNCHANGED <<Filled, Undoing, Redoing, InHand, Future>>
             /\ undoList' \in Seq(Step) /\ IsInjective(undoList')
             /\ Past' = Past \ Found /\ freed' = freed \cup Found
             /\ Len(undoList') = Len(undoList) - Cardinality(Found)
             /\ Cardinality(Found) \in Nat /\ Cardinality(Found) <= Len(undoList)
             /\ History!Forget(Found) /\ Found \subseteq Past
<1> DEFINE Found == {s \in Range(undoList) : Closes(s, d)}
<1>1. /\ Found \subseteq Past /\ undoList' = Without(undoList, Found) /\ Free(Found)
      /\ UNCHANGED <<redoList, made, filling, task>>
  BY DEF Open, UndoWindowSignalOpening, Past
<1> HIDE DEF Found
<1>2. /\ UNCHANGED <<Filled, Undoing, Redoing, InHand, Future>>
      /\ undoList' \in Seq(Step) /\ IsInjective(undoList')
      /\ Past' = Past \ Found /\ freed' = freed \cup Found
      /\ Len(undoList') = Len(undoList) - Cardinality(Found)
      /\ Cardinality(Found) \in Nat /\ Cardinality(Found) <= Len(undoList)
      /\ History!Forget(Found)
  BY <1>1, UndoListLoop
<1> QED BY <1>1, <1>2 DEF Found

LEMMA UndoPassIs ==
  ASSUME IInv, NEW w \in Window, UndoPass(w)
  PROVE  LET Found == {s \in Range(undoList) : Sizes(s, w)}
         IN  /\ UNCHANGED <<Filled, Undoing, Redoing, InHand, Future>>
             /\ undoList' \in Seq(Step) /\ IsInjective(undoList')
             /\ Past' = Past \ Found /\ freed' = freed \cup Found
             /\ Len(undoList') = Len(undoList) - Cardinality(Found)
             /\ Cardinality(Found) \in Nat /\ Cardinality(Found) <= Len(undoList)
             /\ History!Forget(Found) /\ Found \subseteq Past
<1> DEFINE Found == {s \in Range(undoList) : Sizes(s, w)}
<1>1. /\ Found \subseteq Past /\ undoList' = Without(undoList, Found) /\ Free(Found)
      /\ UNCHANGED <<redoList, made, filling, task>>
  BY DEF UndoPass, Past
<1> HIDE DEF Found
<1>2. /\ UNCHANGED <<Filled, Undoing, Redoing, InHand, Future>>
      /\ undoList' \in Seq(Step) /\ IsInjective(undoList')
      /\ Past' = Past \ Found /\ freed' = freed \cup Found
      /\ Len(undoList') = Len(undoList) - Cardinality(Found)
      /\ Cardinality(Found) \in Nat /\ Cardinality(Found) <= Len(undoList)
      /\ History!Forget(Found)
  BY <1>1, UndoListLoop
<1> QED BY <1>1, <1>2 DEF Found

LEMMA RedoPassIs ==
  ASSUME IInv, NEW w \in Window, RedoPass(w)
  PROVE  LET Found == {s \in Range(redoList) : Sizes(s, w)}
         IN  /\ UNCHANGED <<Filled, Undoing, Redoing, InHand, Past>>
             /\ redoList' \in Seq(Step) /\ IsInjective(redoList')
             /\ Future' = Future \ Found /\ freed' = freed \cup Found
             /\ History!Forget(Found) /\ Found \subseteq Future
<1> DEFINE Found == {s \in Range(redoList) : Sizes(s, w)}
<1>1. /\ Found \subseteq Future /\ redoList' = Without(redoList, Found)
      /\ freed' = freed \cup Found
      /\ UNCHANGED <<undoList, made, filling, task>>
  BY DEF RedoPass, Future, Free
<1> HIDE DEF Found
<1>2. UNCHANGED <<Filled, Undoing, Redoing, InHand, Past>>
  BY <1>1, ListsUnchanged
<1>3. redoList' \in Seq(Step) /\ IsInjective(redoList') /\ Future' = Future \ Found
  BY <1>1, LoopTakes, Basics DEF IInv, Once, OneEach, Apart, Future
<1>4. /\ Found \subseteq Filled \cup Past \cup Future
      /\ Filled \ Found = Filled /\ Past \ Found = Past
      /\ Filled' \cup Past' \cup InHand' \cup Future' \cup freed'
           = Filled \cup Past \cup InHand \cup Future \cup freed
  BY <1>1, <1>2, <1>3 DEF IInv, Once, OneEach, Apart
<1>5. History!Forget(Found)
  BY <1>1, <1>2, <1>3, <1>4 DEF History!Forget, Past, Future
<1> QED BY <1>1, <1>2, <1>3, <1>5 DEF Found

LEMMA CloseIs ==
  ASSUME IInv, NEW w \in Window, Close(w)
  PROVE  /\ made' = made + 1 /\ made' \in Step
         /\ redoList' = << >> /\ Future' = {} /\ freed' = freed \cup Future
         /\ UNCHANGED <<Past, Undoing, Redoing, InHand>>
         /\ \/ /\ proc' = [proc EXCEPT ![w] = "closing"]
               /\ Filled' = Filled \cup {made + 1} /\ History!StartAfresh(made + 1)
            \/ /\ proc' = [proc EXCEPT ![w] = "undopass"]
               /\ UNCHANGED <<Filled, filling, event>> /\ History!Lose(made + 1)
<1>1. /\ made' = made + 1
      /\ redoList' = << >> /\ Future' = {} /\ freed' = freed \cup Future
      /\ UNCHANGED <<Past, Undoing, Redoing, InHand>>
  BY ListsUnchanged DEF Close
<1>2. made' \in Step
  <2>1. {w} \in SUBSET ToClose /\ IsFiniteSet(ToClose)
    BY FS_Subset, WindowAssumption DEF Close, MayClose, ToClose
  <2>2. 1 <= Cardinality(ToClose) /\ Cardinality(ToClose) \in Nat
    <3>1. Cardinality({w}) = 1
      BY FS_Singleton
    <3>2. Cardinality({w}) <= Cardinality(ToClose) /\ Cardinality(ToClose) \in Nat
      BY <2>1, FS_Subset, FS_CardinalityType
    <3> QED BY <3>1, <3>2
  <2> HIDE DEF ToClose
  <2>3. made + Cardinality(ToClose) <= MaxSteps
    BY DEF IInv, RoomToClose
  <2> QED BY <1>1, <2>2, <2>3, Basics DEF Step
<1>3. made + 1 \notin Filled \cup Past \cup InHand \cup Future \cup freed
      /\ made + 1 \notin 1 .. made /\ 1 .. (made + 1) = (1 .. made) \cup {made + 1}
      /\ made + 1 \in 1 .. (made + 1)
      /\ InHand = Undoing \cup Redoing
  BY Basics
<1>4. CASE /\ filling' = [filling EXCEPT ![w] = [step |-> made + 1, multi |-> FALSE]]
           /\ proc' = [proc EXCEPT ![w] = "closing"]
  <2>1. Filled' = Filled \cup {made + 1}
    BY <1>1, <1>2, <1>4, FillBegins DEF Close, MayClose
  <2>2. Filled' \cup Past' \cup InHand' \cup Future' \cup freed'
          = Filled \cup Past \cup InHand \cup Future \cup freed \cup {made + 1}
    BY <1>1, <2>1
  <2> DEFINE n == made + 1
             all == Filled \cup Past \cup InHand \cup Future \cup freed
  <2>3. /\ n \notin all /\ n \notin 1 .. made
        /\ (1 .. made') \ (Filled' \cup Past' \cup InHand' \cup Future' \cup freed')
             = (1 .. made) \ all
    BY <1>1, <1>3, <2>2
  <2> HIDE DEF n
  <2>4. History!StartAfresh(n)
    BY <1>1, <1>3, <2>1, <2>3 DEF n, History!StartAfresh, History!Known, Past, Future
  <2> QED BY <1>1, <1>2, <1>4, <2>1, <2>4 DEF n
<1>5. CASE proc' = [proc EXCEPT ![w] = "undopass"] /\ UNCHANGED <<event, filling>>
  <2>1. UNCHANGED Filled
    BY <1>5, ListsUnchanged
  <2>2. /\ Filled' \cup Past' \cup InHand' \cup Future' \cup freed'
             = Filled \cup Past \cup InHand \cup Future \cup freed
        /\ Filled \ {made + 1} = Filled
    BY <1>1, <1>3, <2>1
  <2> DEFINE n == made + 1
             all == Filled \cup Past \cup InHand \cup Future \cup freed
  <2>3. /\ n \notin all /\ n \notin 1 .. made
        /\ (1 .. made') \ (Filled' \cup Past' \cup InHand' \cup Future' \cup freed')
             = ((1 .. made) \ all) \cup {n}
    BY <1>1, <1>3, <2>2
  <2> HIDE DEF n
  <2>4. History!Lose(n)
    BY <1>1, <1>3, <2>1, <2>2, <2>3 DEF n, History!Lose, History!Known, Past, Future
  <2> QED BY <1>1, <1>2, <1>5, <2>1, <2>4 DEF n
<1> QED BY <1>4, <1>5 DEF Close

LEMMA CleanupIs ==
  ASSUME IInv, UndoCleanup
  PROVE  /\ UNCHANGED <<Filled, Undoing, Redoing, InHand>>
         /\ undoList' = << >> /\ redoList' = << >> /\ Past' = {} /\ Future' = {}
         /\ freed' = freed \cup Past \cup Future
         /\ History!Forget(Past \cup Future)
<1>1. /\ undoList' = << >> /\ redoList' = << >> /\ Past' = {} /\ Future' = {}
      /\ freed' = freed \cup Past \cup Future /\ made' = made
  BY EmptySeq DEF UndoCleanup, Past, Future, Free, Range
<1>2. UNCHANGED <<Filled, Undoing, Redoing, InHand>>
  BY ListsUnchanged DEF UndoCleanup, windows
<1>3. /\ Filled \ (Past \cup Future) = Filled
      /\ Past \ (Past \cup Future) = {} /\ Future \ (Past \cup Future) = {}
      /\ Filled' \cup Past' \cup InHand' \cup Future' \cup freed'
           = Filled \cup Past \cup InHand \cup Future \cup freed
  BY <1>1, <1>2 DEF IInv, Once, OneEach, Apart
<1>4. History!Forget(Past \cup Future)
  BY <1>1, <1>2, <1>3 DEF History!Forget, Past, Future
<1> QED BY <1>1, <1>2, <1>4
-----------------------------------------------------------------------------
(***************************************************************************)
(* UndoCount is below ULongs, and a list is no longer than the steps made. *)
(***************************************************************************)
LEMMA Wraps ==
  ASSUME NEW c \in 0 .. ULongs - 1, NEW n \in Nat
  PROVE  /\ (c + n) % ULongs \in 0 .. ULongs - 1
         /\ (c + ULongs - n) % ULongs \in 0 .. ULongs - 1
         /\ c + n < ULongs => (c + n) % ULongs = c + n
         /\ n <= c => (c + ULongs - n) % ULongs = c - n
BY NumberAssumption

LEMMA Bounded ==
  ASSUME NEW q \in Seq(Step), IsInjective(q), NEW m \in 0 .. MaxSteps, Range(q) \subseteq 1 .. m
  PROVE  Len(q) \in 0 .. ULongs - 1
<1>1. IsFiniteSet(1 .. m) /\ Cardinality(1 .. m) = m
  BY FS_Interval, NumberAssumption
<1>2. Range(q) \in SUBSET (1 .. m)
  OBVIOUS
<1>3. Cardinality(Range(q)) <= m
  BY <1>1, <1>2, FS_Subset
<1>4. Cardinality(Range(q)) = Len(q) /\ Len(q) \in Nat
  BY LengthIsNumber
<1> QED BY <1>3, <1>4, NumberAssumption

LEMMA LateTyped ==
  ASSUME IInv, Next
  PROVE  late' \subseteq LateTasks /\ crossed' \subseteq late'
<1>0. /\ late \subseteq LateTasks /\ crossed \subseteq late
      /\ task \in [Step -> Tasks]
  BY DEF IInv, TypeOK
<1>1. ASSUME late' = late, \/ crossed' = crossed
                           \/ Crosses("undo") \/ Crosses("redo")
      PROVE  late' \subseteq LateTasks /\ crossed' \subseteq late'
  BY <1>0, <1>1 DEF Crosses
<1>2. ASSUME NEW s \in Step, UndoTask(s) \/ RedoTask(s)
      PROVE  late' \subseteq LateTasks /\ crossed' \subseteq late'
  <2>1. LateOf(s) \in LateTasks
    <3>1. task[s].doing \in {"undo", "redo"} /\ task[s].by \in Window
      BY <1>0, <1>2, WindowAssumption DEF UndoTask, RedoTask, Tasks, NoTask
    <3> QED BY <3>1 DEF LateOf, LateTasks
  <2>2. late' = late \cup {LateOf(s)} /\ crossed' = crossed
    BY <1>2 DEF UndoTask, RedoTask, PutBack, ghosts
  <2> QED BY <1>0, <2>1, <2>2
<1>3. ASSUME NEW r \in LateTasks, EndTask(r)
      PROVE  late' \subseteq LateTasks /\ crossed' \subseteq late'
  BY <1>0, <1>3 DEF EndTask
<1> QED BY <1>1, <1>2, <1>3
        DEF Next, BeginStep, AddEvent, AddEventFails, EndStep, AppendStep, Undo, Redo,
            Open, Close, CloseUnrecorded, UndoPass, RedoPass, Leave, TaskFails,
            UndoCleanup, RedoCleanup, ghosts

LEMMA TypeKept ==
  ASSUME IInv, Next
  PROVE  TypeOK'
<1>0. /\ TypeOK /\ freed \subseteq Step /\ Filled \subseteq Step /\ InHand \subseteq Step
      /\ Past \subseteq Step /\ Future \subseteq Step
      /\ Plus(1) \in 0 .. ULongs - 1
      /\ \A n \in Nat : Minus(n) \in 0 .. ULongs - 1
  <2>1. TypeOK /\ 1 .. made \subseteq Step
    BY Basics, SMTT(20) DEF IInv, Step, TypeOK
  <2>2. Plus(1) \in 0 .. ULongs - 1 /\ \A n \in Nat : Minus(n) \in 0 .. ULongs - 1
    BY <2>1, Wraps DEF TypeOK, Plus, Minus
  <2> QED BY <2>1, <2>2 DEF IInv, Once, OneEach, Apart
<1>e. << >> \in Seq(Step)
  BY EmptySeq
<1>t. late' \subseteq LateTasks /\ crossed' \subseteq late'
  BY LateTyped
<1>1. ASSUME NEW w \in Window, NEW multi \in BOOLEAN, BeginStep(w, multi)
      PROVE  TypeOK'
  <2>1. made' \in Step /\ made' = made + 1
    BY <1>1, BeginStepIs
  <2>2. filling' \in [Window -> Fillings] /\ proc' \in [Window -> Proc]
    BY <1>0, <1>1, <2>1 DEF BeginStep, TypeOK, Fillings, Proc
  <2>3. made' \in 0 .. MaxSteps
    BY <2>1, NumberAssumption DEF Step
  <2> QED BY <1>0, <1>t, <1>1, <2>2, <2>3 DEF BeginStep, TypeOK, lists
<1>2. ASSUME NEW w \in Window, NEW e \in Event(w), AddEvent(w, e)
      PROVE  TypeOK'
  <2>1. e \in Events
    BY DEF Events
  <2> QED BY <1>0, <1>t, <1>e, <1>2, <2>1, AddEventIs DEF AddEvent, TypeOK, windows
<1>3. ASSUME NEW w \in Window, AddEventFails(w)
      PROVE  TypeOK'
  <2>1. filling' \in [Window -> Fillings] /\ proc' \in [Window -> Proc]
    BY <1>0, <1>3 DEF AddEventFails, TypeOK, Fillings, Proc
  <2> QED BY <1>0, <1>t, <1>e, <1>3, <2>1, AddEventFailsIs DEF AddEventFails, TypeOK
<1>4. ASSUME NEW w \in Window, EndStep(w)
      PROVE  TypeOK'
  <2>1. filling' \in [Window -> Fillings] /\ proc' \in [Window -> Proc]
    BY <1>0, <1>4 DEF EndStep, TypeOK, Fillings, Proc
  <2>2. undoList' \in Seq(Step) /\ freed' \subseteq Step
    BY <1>0, <1>4, EndStepIs
  <2>3. undoCount' \in 0 .. ULongs - 1
    BY <1>0, <1>4 DEF EndStep, AppendStep, TypeOK
  <2> QED BY <1>0, <1>t, <1>4, <2>1, <2>2, <2>3 DEF EndStep, TypeOK, ghosts
<1>5. ASSUME NEW w \in Window, Undo(w)
      PROVE  TypeOK'
  <2>1. undoList' \in Seq(Step) /\ task' \in [Step -> Tasks]
    <3>1. CASE task' = task
      BY <1>0, <1>5, <3>1, UndoIs DEF TypeOK
    <3>2. CASE task' # task
      <4>1. PICK s \in Step : task' = [task EXCEPT ![s] = [doing |-> "undo", by |-> w]]
        BY <1>5, <3>2, UndoIs
      <4>2. [doing |-> "undo", by |-> w] \in Tasks
        BY DEF Tasks
      <4> QED BY <1>0, <1>5, <4>1, <4>2, UndoIs DEF TypeOK
    <3> QED BY <3>1, <3>2
  <2>2. undoCount' \in 0 .. ULongs - 1
    BY <1>0, <1>5 DEF Undo
  <2> QED BY <1>0, <1>t, <1>5, <2>1, <2>2 DEF Undo, TypeOK, steps, windows
<1>6. ASSUME NEW w \in Window, Redo(w)
      PROVE  TypeOK'
  <2>1. redoList' \in Seq(Step) /\ Last(redoList) \in Step
    BY <1>6, RedoIs
  <2>2. task' \in [Step -> Tasks]
    <3>1. [doing |-> "redo", by |-> w] \in Tasks
      BY DEF Tasks
    <3> QED BY <1>0, <1>6, <3>1 DEF Redo, StartTask, TypeOK
  <2> QED BY <1>0, <1>t, <1>6, <2>1, <2>2 DEF Redo, TypeOK, steps, windows
<1>7. ASSUME NEW d \in Dir, NEW w \in Window, Open(w, d)
      PROVE  TypeOK'
  <2>1. undoList' \in Seq(Step) /\ freed' \subseteq Step
        /\ Cardinality({s \in Range(undoList) : Closes(s, d)}) \in Nat
    BY <1>0, <1>7, OpenIs
  <2>2. undoCount' \in 0 .. ULongs - 1
    BY <1>0, <1>7, <2>1 DEF Open, UndoWindowSignalOpening
  <2>3. proc' \in [Window -> Proc] /\ dir' \in [Window -> Dir \cup {NoDir}]
    BY <1>0, <1>7 DEF Open, TypeOK, Proc
  <2> QED BY <1>0, <1>t, <1>7, <2>1, <2>2, <2>3 DEF Open, TypeOK, ghosts
<1>8. ASSUME NEW w \in Window, Close(w)
      PROVE  TypeOK'
  <2>1. made' \in Step /\ made' = made + 1 /\ redoList' = << >> /\ freed' \subseteq Step
    BY <1>0, <1>8, CloseIs
  <2>2. filling' \in [Window -> Fillings] /\ proc' \in [Window -> Proc]
    <3>1. made + 1 \in Step
      BY <2>1
    <3>2. [step |-> made + 1, multi |-> FALSE] \in Fillings
      BY <3>1 DEF Fillings
    <3>3. filling' \in [Window -> Fillings]
      BY <1>0, <1>8, <3>2 DEF Close, TypeOK
    <3>4. proc' \in [Window -> Proc]
      BY <1>0, <1>8 DEF Close, TypeOK, Proc
    <3> QED BY <3>3, <3>4
  <2>4. made' \in 0 .. MaxSteps
    BY <2>1, NumberAssumption DEF Step
  <2>3. event' \in [Step -> Events]
    <3>1. CASE event' = [event EXCEPT ![made + 1] = [type |-> "close", dir |-> dir[w]]] /\ w # Desk
      <4>1. [type |-> "close", dir |-> dir[w]] \in Events
        BY <3>1, <1>8 DEF Events, Close, MayClose, IInv, Shows
      <4> QED BY <1>0, <2>1, <3>1, <4>1 DEF TypeOK
    <3>2. CASE event' = event
      BY <1>0, <3>2 DEF TypeOK
    <3> QED BY <1>8, <3>1, <3>2 DEF Close
  <2> QED BY <1>0, <1>t, <1>e, <1>8, <2>1, <2>2, <2>3, <2>4 DEF Close, TypeOK
<1>9. ASSUME NEW w \in Window, UndoPass(w)
      PROVE  TypeOK'
  <2>1. undoList' \in Seq(Step) /\ freed' \subseteq Step
        /\ Cardinality({s \in Range(undoList) : Sizes(s, w)}) \in Nat
    BY <1>0, <1>9, UndoPassIs
  <2>2. undoCount' \in 0 .. ULongs - 1
    BY <1>0, <1>9, <2>1 DEF UndoPass
  <2>3. proc' \in [Window -> Proc]
    BY <1>0, <1>9 DEF UndoPass, TypeOK, Proc
  <2> QED BY <1>0, <1>t, <1>9, <2>1, <2>2, <2>3 DEF UndoPass, TypeOK
<1>10. ASSUME NEW w \in Window, RedoPass(w)
       PROVE  TypeOK'
  <2>1. redoList' \in Seq(Step) /\ freed' \subseteq Step
    BY <1>0, <1>10, RedoPassIs
  <2>2. proc' \in [Window -> Proc]
    BY <1>0, <1>10 DEF RedoPass, TypeOK, Proc
  <2> QED BY <1>0, <1>t, <1>10, <2>1, <2>2 DEF RedoPass, TypeOK
<1>11. ASSUME NEW w \in Window, Leave(w)
       PROVE  TypeOK'
  <2>1. proc' \in [Window -> Proc] /\ dir' \in [Window -> Dir \cup {NoDir}]
    BY <1>0, <1>11 DEF Leave, TypeOK, Proc
  <2> QED BY <1>0, <1>t, <1>11, <2>1 DEF Leave, TypeOK, lists, steps
<1>12. ASSUME NEW s \in Step, UndoTask(s)
       PROVE  TypeOK'
  <2>1. task' \in [Step -> Tasks] /\ redoList' \in Seq(Step)
    BY <1>0, <1>12, UndoTaskIs DEF UndoTask, PutBack, TypeOK, Tasks
  <2> QED BY <1>0, <1>t, <1>12, <2>1 DEF UndoTask, TypeOK, steps, windows, ghosts
<1>13. ASSUME NEW s \in Step, RedoTask(s)
       PROVE  TypeOK'
  <2>1. task' \in [Step -> Tasks] /\ undoList' \in Seq(Step)
    BY <1>0, <1>13, RedoTaskIs DEF RedoTask, PutBack, TypeOK, Tasks
  <2> QED BY <1>0, <1>t, <1>13, <2>1 DEF RedoTask, TypeOK, steps, windows, ghosts
<1>14. ASSUME NEW s \in Step, TaskFails(s)
       PROVE  TypeOK'
  <2>1. task' \in [Step -> Tasks] /\ freed' \subseteq Step
    BY <1>0, <1>14, TaskFailsIs DEF TaskFails, TypeOK, Tasks
  <2> QED BY <1>0, <1>t, <1>14, <2>1 DEF TaskFails, TypeOK, lists, windows, ghosts
<1>15. ASSUME UndoCleanup
       PROVE  TypeOK'
  <2>1. Len(undoList) \in Nat /\ freed' \subseteq Step
    BY <1>0, <1>15, CleanupIs, LenProperties DEF TypeOK
  <2>2. undoCount' \in 0 .. ULongs - 1
    BY <1>0, <1>15, <2>1 DEF UndoCleanup
  <2> QED BY <1>0, <1>t, <1>e, <1>15, <2>1, <2>2 DEF UndoCleanup, TypeOK, windows, ghosts
<1>16. ASSUME NEW w \in Window, CloseUnrecorded(w)
       PROVE  TypeOK'
  <2>1. proc' \in [Window -> Proc]
    BY <1>0, <1>16 DEF CloseUnrecorded, TypeOK, Proc
  <2> QED BY <1>0, <1>t, <1>16, <2>1 DEF CloseUnrecorded, TypeOK, lists, steps
<1>17. ASSUME NEW r \in LateTasks, EndTask(r)
       PROVE  TypeOK'
  BY <1>0, <1>t, <1>17 DEF EndTask, TypeOK, lists, steps, windows
<1> QED BY <1>1, <1>2, <1>3, <1>4, <1>5, <1>6, <1>7, <1>8, <1>9, <1>10, <1>11, <1>12,
           <1>13, <1>14, <1>15, <1>16, <1>17 DEF Next

(***************************************************************************)
(* The steps stay at one place each.                                       *)
(***************************************************************************)
LEMMA FillingKept ==
  ASSUME IInv, NEW w \in Window, NEW f,
         filling' = [filling EXCEPT ![w] = f],
         f = Nothing \/ f.step \notin Filled
  PROVE  OneEach'
<1>1. filling \in [Window -> Fillings] /\ OneEach
  BY DEF IInv, TypeOK, Once, OneEach
<1>2. \A v \in Window : filling'[v].step = IF v = w THEN f.step ELSE filling[v].step
  BY <1>1
<1>3. \A v \in Window : filling[v].step = NoStep \/ filling[v].step \in Filled
  BY DEF Filled
<1>4. CASE f = Nothing
  <2>1. f.step = NoStep
    BY <1>4 DEF Nothing
  <2> QED BY <1>1, <1>2, <2>1 DEF OneEach
<1>5. CASE f.step \notin Filled
  BY <1>1, <1>2, <1>3, <1>5 DEF OneEach
<1> QED BY <1>4, <1>5

LEMMA OnceKept ==
  ASSUME IInv, Next
  PROVE  Once'
<1>0. /\ Apart /\ IsInjective(undoList) /\ IsInjective(redoList) /\ OneEach
      /\ IsInjective(<< >>)
      /\ made' = made => 1 .. made' = 1 .. made
      /\ made' = made + 1 => 1 .. made' = (1 .. made) \cup {made + 1}
  <2>1. IsInjective(<< >>)
    BY EmptySeq DEF IsInjective
  <2>2. made' = made + 1 => 1 .. made' = (1 .. made) \cup {made + 1}
    BY Basics
  <2> QED BY <2>1, <2>2 DEF IInv, Once
<1>f. UNCHANGED filling => OneEach'
  BY <1>0 DEF OneEach
<1>a. SUFFICES Apart' /\ IsInjective(undoList)' /\ IsInjective(redoList)' /\ OneEach'
  BY DEF Once
<1>1. ASSUME NEW w \in Window, NEW multi \in BOOLEAN, BeginStep(w, multi)
      PROVE  <1>a!1
  <2>1. Apart'
    <3>1. made' = made + 1 /\ freed' = freed /\ made + 1 \in 1 .. made'
      BY <1>1, Basics DEF BeginStep
    <3> DEFINE n == made + 1
    <3>2. n \notin Filled \cup Past \cup InHand \cup Future \cup freed
      BY Basics
    <3>3. Filled' = Filled \cup {n} /\ UNCHANGED <<Past, InHand, Future>>
      BY <1>1, BeginStepIs
    <3>4. 1 .. made' = (1 .. made) \cup {n}
      BY <1>0, <3>1
    <3> HIDE DEF n
    <3> QED BY <1>0, <3>1, <3>2, <3>3, <3>4 DEF Apart
  <2>2. OneEach'
    <3> DEFINE f == [step |-> made + 1, multi |-> multi]
    <3>1. filling' = [filling EXCEPT ![w] = f] /\ f.step \notin Filled
      BY <1>1, Basics DEF BeginStep
    <3> HIDE DEF f
    <3> QED BY <3>1, FillingKept
  <2> QED BY <1>0, <1>1, <2>1, <2>2 DEF BeginStep, lists
<1>2. ASSUME NEW w \in Window, NEW e \in Event(w), AddEvent(w, e)
      PROVE  <1>a!1
  <2>1. Apart' /\ IsInjective(redoList')
    BY <1>0, <1>2, AddEventIs DEF Apart, AddEvent
  <2> QED BY <1>0, <1>2, <1>f, <2>1 DEF AddEvent, windows
<1>3. ASSUME NEW w \in Window, AddEventFails(w)
      PROVE  <1>a!1
  <2>1. Apart' /\ IsInjective(redoList')
    BY <1>0, <1>3, AddEventFailsIs DEF Apart, AddEventFails
  <2>2. OneEach'
    BY <1>3, <1>f, FillingKept DEF AddEventFails
  <2> QED BY <1>0, <1>3, <2>1, <2>2 DEF AddEventFails
<1>4. ASSUME NEW w \in Window, EndStep(w)
      PROVE  <1>a!1
  <2>1. Apart'
    <3> DEFINE s == filling[w].step
    <3>1. /\ s \in Filled /\ Filled' = Filled \ {s}
          /\ UNCHANGED <<InHand, Future, made>>
          /\ \E oldest \in SUBSET (Past \cup {s}) :
               Past' = (Past \cup {s}) \ oldest /\ freed' = freed \cup oldest
      BY <1>4, EndStepIs DEF EndStep
    <3> HIDE DEF s
    <3> QED BY <1>0, <3>1 DEF Apart
  <2>2. OneEach'
    BY <1>4, FillingKept DEF EndStep
  <2> QED BY <1>0, <1>4, <2>1, <2>2, EndStepIs DEF EndStep
<1>5. ASSUME NEW w \in Window, Undo(w)
      PROVE  <1>a!1
  <2>1. UNCHANGED <<redoList, filling, made, freed>>
    BY <1>5 DEF Undo, windows, steps
  <2>2. Apart'
    BY <1>0, <1>5, <2>1, UndoIs DEF Apart
  <2> QED BY <1>0, <1>5, <1>f, <2>1, <2>2, UndoIs
<1>6. ASSUME NEW w \in Window, Redo(w)
      PROVE  <1>a!1
  <2>1. UNCHANGED <<undoList, filling, made, freed>>
    BY <1>6 DEF Redo, windows, steps
  <2>2. Apart'
    BY <1>0, <1>6, <2>1, RedoIs DEF Apart
  <2> QED BY <1>0, <1>6, <1>f, <2>1, <2>2, RedoIs
<1>7. ASSUME NEW d \in Dir, NEW w \in Window, Open(w, d)
      PROVE  <1>a!1
  <2>1. UNCHANGED <<redoList, filling, made>>
    BY <1>7 DEF Open
  <2>2. Apart'
    BY <1>0, <1>7, <2>1, OpenIs DEF Apart
  <2> QED BY <1>0, <1>7, <1>f, <2>1, <2>2, OpenIs
<1>8. ASSUME NEW w \in Window, Close(w)
      PROVE  <1>a!1
  <2>1. Apart'
    BY <1>0, <1>8, CloseIs, Basics DEF Apart
  <2>2. OneEach'
    <3> DEFINE f == [step |-> made + 1, multi |-> FALSE]
    <3>1. UNCHANGED filling \/ filling' = [filling EXCEPT ![w] = f]
      BY <1>8 DEF Close
    <3>2. f.step \notin Filled
      BY Basics
    <3> HIDE DEF f
    <3> QED BY <1>f, <3>1, <3>2, FillingKept
  <2> QED BY <1>0, <1>8, <2>1, <2>2, CloseIs DEF Close
<1>9. ASSUME NEW w \in Window, UndoPass(w)
      PROVE  <1>a!1
  <2>1. UNCHANGED <<redoList, filling, made>>
    BY <1>9 DEF UndoPass
  <2>2. Apart'
    BY <1>0, <1>9, <2>1, UndoPassIs DEF Apart
  <2> QED BY <1>0, <1>9, <1>f, <2>1, <2>2, UndoPassIs
<1>10. ASSUME NEW w \in Window, RedoPass(w)
       PROVE  <1>a!1
  <2>1. UNCHANGED <<undoList, filling, made>>
    BY <1>10 DEF RedoPass
  <2>2. Apart'
    BY <1>0, <1>10, <2>1, RedoPassIs DEF Apart
  <2> QED BY <1>0, <1>10, <1>f, <2>1, <2>2, RedoPassIs
<1>11. ASSUME NEW w \in Window, Leave(w)
       PROVE  <1>a!1
  <2>1. UNCHANGED <<undoList, redoList, made, freed, filling, task>>
    BY <1>11 DEF Leave, lists, steps
  <2>2. Apart'
    BY <1>0, <2>1, ListsUnchanged DEF Apart
  <2> QED BY <1>0, <1>f, <2>1, <2>2
<1>12. ASSUME NEW s \in Step, UndoTask(s)
       PROVE  <1>a!1
  <2>1. UNCHANGED <<undoList, filling, made, freed>>
    BY <1>12 DEF UndoTask, windows, steps
  <2>2. Apart'
    BY <1>0, <1>12, <2>1, UndoTaskIs DEF Apart
  <2> QED BY <1>0, <1>12, <1>f, <2>1, <2>2, UndoTaskIs
<1>13. ASSUME NEW s \in Step, RedoTask(s)
       PROVE  <1>a!1
  <2>1. UNCHANGED <<redoList, filling, made, freed>>
    BY <1>13 DEF RedoTask, windows, steps
  <2>2. Apart'
    BY <1>0, <1>13, <2>1, RedoTaskIs DEF Apart
  <2> QED BY <1>0, <1>13, <1>f, <2>1, <2>2, RedoTaskIs
<1>14. ASSUME NEW s \in Step, TaskFails(s)
       PROVE  <1>a!1
  <2>1. UNCHANGED <<undoList, redoList, filling, made>>
    BY <1>14 DEF TaskFails, windows, lists
  <2>2. Apart'
    BY <1>0, <1>14, <2>1, TaskFailsIs DEF Apart
  <2> QED BY <1>0, <1>f, <2>1, <2>2
<1>15. ASSUME UndoCleanup
       PROVE  <1>a!1
  <2>1. UNCHANGED <<filling, made>>
    BY <1>15 DEF UndoCleanup, windows
  <2>2. Apart'
    BY <1>0, <1>15, <2>1, CleanupIs DEF Apart
  <2> QED BY <1>0, <1>15, <1>f, <2>1, <2>2, CleanupIs
<1>16. ASSUME \/ \E w \in Window : CloseUnrecorded(w)
              \/ \E r \in LateTasks : EndTask(r)
       PROVE  <1>a!1
  <2>1. UNCHANGED <<undoList, redoList, made, freed, filling, task>>
    BY <1>16 DEF CloseUnrecorded, EndTask, lists, steps, windows
  <2>2. Apart'
    BY <1>0, <2>1, ListsUnchanged DEF Apart
  <2> QED BY <1>0, <1>f, <2>1, <2>2
<1> QED BY <1>1, <1>2, <1>3, <1>4, <1>5, <1>6, <1>7, <1>8, <1>9, <1>10, <1>11, <1>12,
           <1>13, <1>14, <1>15, <1>16 DEF Next

(***************************************************************************)
(* UndoCount follows the list, whoever changes it.                         *)
(***************************************************************************)
LEMMA CountKept ==
  ASSUME IInv, Next
  PROVE  CountMatches'
<1>0. /\ undoList \in Seq(Step) /\ Len(undoList) \in 0 .. ULongs - 1
      /\ Len(undoList') \in 0 .. ULongs - 1
  <2>1. TypeOK' /\ Once'
    BY TypeKept, OnceKept
  <2>2. Len(undoList) \in 0 .. ULongs - 1
    BY Bounded DEF IInv, TypeOK, Once, Apart, Past
  <2>3. Len(undoList') \in 0 .. ULongs - 1
    BY <2>1, Bounded DEF TypeOK, Once, Apart, Past
  <2> QED BY <2>2, <2>3 DEF IInv, TypeOK
<1>1. SUFFICES ASSUME ~emptyUndo'
               PROVE  undoCount' = Len(undoList')
  BY DEF CountMatches
<1>2. ASSUME UNCHANGED <<undoList, undoCount, emptyUndo>>
      PROVE  undoCount' = Len(undoList')
  BY <1>1, <1>2 DEF IInv, CountMatches
<1> DEFINE n == Len(undoList)
<1>3. n \in 0 .. ULongs - 1 /\ ULongs \in Nat
  BY <1>0, Basics
<1>4. ASSUME ~emptyUndo
      PROVE  /\ undoCount = n
             /\ n + 1 < ULongs => Plus(1) = n + 1
             /\ \A k \in Nat : k <= n => Minus(k) = n - k
  <2>1. undoCount = n
    BY <1>4 DEF IInv, CountMatches
  <2> HIDE DEF n
  <2> QED BY <1>3, <2>1, Wraps DEF Plus, Minus
<1>5. ASSUME NEW w \in Window, EndStep(w)
      PROVE  undoCount' = Len(undoList')
  <2> DEFINE s == filling[w].step
             longer == Append(undoList, s)
  <2>1. ~emptyUndo
    BY <1>1, <1>5 DEF EndStep, ghosts
  <2>2. longer \in Seq(Step) /\ longer # << >> /\ Len(longer) = n + 1
    <3>1. s \in Step
      BY <1>5, Basics DEF EndStep
    <3> HIDE DEF s
    <3> QED BY <1>0, <3>1, AppendFacts
  <2>3. Len(Tail(longer)) = n
    <3> HIDE DEF longer
    <3>1. Len(Tail(longer)) = Len(longer) - 1
      BY <2>2, TailFacts
    <3> HIDE DEF n
    <3> QED BY <1>3, <2>2, <3>1
  <2>4. CASE UNCHANGED <<undoList, undoCount>>
    BY <1>4, <2>1, <2>4
  <2>5. CASE undoList' = Tail(longer) /\ undoCount' = undoCount
    BY <1>4, <2>1, <2>3, <2>5
  <2>6. CASE undoList' = longer /\ undoCount' = Plus(1)
    <3>1. n + 1 < ULongs
      BY <1>0, <1>3, <2>2, <2>6
    <3> QED BY <1>4, <2>1, <2>2, <2>6, <3>1
  <2> QED BY <1>5, <2>4, <2>5, <2>6 DEF EndStep, AppendStep
<1>6. ASSUME NEW w \in Window, Undo(w)
      PROVE  undoCount' = Len(undoList')
  <2>1. undoList # << >> /\ ~emptyUndo /\ undoCount' = Minus(1)
    BY <1>1, <1>6 DEF Undo
  <2>2. n > 0
    BY <1>0, <2>1, EmptySeq
  <2>3. Len(undoList') = n - 1
    BY <1>6, <2>1, FrontFacts, <1>0 DEF Undo, Front
  <2> HIDE DEF n
  <2> QED BY <1>3, <1>4, <2>1, <2>2, <2>3
<1>7. ASSUME NEW s \in Step, RedoTask(s)
      PROVE  undoCount' = Len(undoList')
  <2>1. ~emptyUndo /\ undoCount' = Plus(1)
    BY <1>1, <1>7 DEF RedoTask, ghosts
  <2>2. Len(undoList') = n + 1
    BY <1>7, RedoTaskIs
  <2>3. n + 1 < ULongs
    BY <1>0, <1>3, <2>2
  <2> QED BY <1>4, <2>1, <2>2, <2>3
<1>8. ASSUME NEW Found, Len(undoList') = n - Cardinality(Found), ~emptyUndo,
             undoCount' = Minus(Cardinality(Found)),
             Cardinality(Found) \in Nat, Cardinality(Found) <= n
      PROVE  undoCount' = Len(undoList')
  BY <1>4, <1>8
<1>9. ASSUME NEW d \in Dir, NEW w \in Window, Open(w, d)
      PROVE  undoCount' = Len(undoList')
  <2> DEFINE Found == {s \in Range(undoList) : Closes(s, d)}
  <2>1. ~emptyUndo /\ undoCount' = Minus(Cardinality(Found))
    BY <1>1, <1>9 DEF Open, UndoWindowSignalOpening, ghosts
  <2>2. /\ Len(undoList') = n - Cardinality(Found)
        /\ Cardinality(Found) \in Nat /\ Cardinality(Found) <= n
    BY <1>9, OpenIs
  <2> HIDE DEF Found
  <2> QED BY <1>8, <2>1, <2>2
<1>10. ASSUME NEW w \in Window, UndoPass(w)
       PROVE  undoCount' = Len(undoList')
  <2> DEFINE Found == {s \in Range(undoList) : Sizes(s, w)}
  <2>1. ~emptyUndo /\ undoCount' = Minus(Cardinality(Found))
    BY <1>1, <1>10 DEF UndoPass
  <2>2. /\ Len(undoList') = n - Cardinality(Found)
        /\ Cardinality(Found) \in Nat /\ Cardinality(Found) <= n
    BY <1>10, UndoPassIs
  <2> HIDE DEF Found
  <2> QED BY <1>8, <2>1, <2>2
<1>11. ASSUME UndoCleanup
       PROVE  undoCount' = Len(undoList')
  <2>1. ~emptyUndo /\ undoCount' = Minus(n) /\ undoList' = << >>
    BY <1>1, <1>11 DEF UndoCleanup, ghosts
  <2>2. Len(undoList') = 0
    BY <2>1, EmptySeq
  <2> HIDE DEF n
  <2> QED BY <1>3, <1>4, <2>1, <2>2
<1> QED BY <1>2, <1>5, <1>6, <1>7, <1>9, <1>10, <1>11
        DEF Next, BeginStep, AddEvent, AddEventFails, Redo, Close, CloseUnrecorded,
            RedoPass, Leave, UndoTask, TaskFails, EndTask, lists, ghosts

(***************************************************************************)
(* What a window does, and what it and its processes hold meanwhile.       *)
(***************************************************************************)
LEMMA ProcKept ==
  ASSUME IInv, NEW w \in Window, NEW p \in Proc, proc' = [proc EXCEPT ![w] = p]
  PROVE  \A v \in Window : proc'[v] = IF v = w THEN p ELSE proc[v]
BY DEF IInv, TypeOK

LEMMA FillsKept ==
  ASSUME IInv, Next
  PROVE  Fills'
<1>0. Fills /\ proc \in [Window -> Proc] /\ filling \in [Window -> Fillings]
      /\ made \in Nat
  BY Basics DEF IInv, TypeOK
<1>1. ASSUME UNCHANGED <<filling, proc>>
      PROVE  Fills'
  BY <1>0, <1>1 DEF Fills
<1>2. \A m : [step |-> made + 1, multi |-> m] # Nothing
  BY <1>0 DEF Nothing, NoStep
<1>3. ASSUME NEW w \in Window, NEW multi \in BOOLEAN, BeginStep(w, multi)
      PROVE  Fills'
  <2> DEFINE f == [step |-> made + 1, multi |-> multi]
  <2>1. filling' = [filling EXCEPT ![w] = f] /\ proc' = [proc EXCEPT ![w] = "filling"]
        /\ f # Nothing
    BY <1>2, <1>3 DEF BeginStep
  <2> HIDE DEF f
  <2> QED BY <1>0, <2>1 DEF Fills
<1>4. ASSUME NEW w \in Window, AddEventFails(w)
      PROVE  Fills'
  BY <1>0, <1>1, <1>4 DEF Fills, AddEventFails
<1>5. ASSUME NEW w \in Window, EndStep(w)
      PROVE  Fills'
  BY <1>0, <1>5 DEF Fills, EndStep
<1>6. ASSUME NEW w \in Window, Close(w)
      PROVE  Fills'
  <2> DEFINE f == [step |-> made + 1, multi |-> FALSE]
  <2>1. f # Nothing
    BY <1>2
  <2>2. CASE filling' = [filling EXCEPT ![w] = f] /\ proc' = [proc EXCEPT ![w] = "closing"]
    <3> HIDE DEF f
    <3> QED BY <1>0, <2>1, <2>2 DEF Fills
  <2>3. CASE filling' = filling /\ proc' = [proc EXCEPT ![w] = "undopass"]
    BY <1>0, <1>6, <2>3 DEF Fills, Close, MayClose
  <2> QED BY <1>6, <2>2, <2>3 DEF Close
<1>7. ASSUME NEW w \in Window, NEW p \in {"idle", "redopass", "leaving", "shut"},
             proc[w] \in {"shut", "undopass", "redopass", "leaving"},
             filling' = filling, proc' = [proc EXCEPT ![w] = p]
      PROVE  Fills'
  BY <1>0, <1>7 DEF Fills
<1>8. ASSUME NEW w \in Window, NEW d \in Dir, Open(w, d)
      PROVE  Fills'
  BY <1>7, <1>8 DEF Open
<1>9. ASSUME NEW w \in Window, UndoPass(w) \/ RedoPass(w) \/ Leave(w)
      PROVE  Fills'
  BY <1>7, <1>9 DEF UndoPass, RedoPass, Leave
<1>10. ASSUME NEW w \in Window, CloseUnrecorded(w)
       PROVE  Fills'
  BY <1>0, <1>10 DEF Fills, CloseUnrecorded, MayClose
<1> QED BY <1>1, <1>3, <1>4, <1>5, <1>6, <1>8, <1>9, <1>10
        DEF Next, AddEvent, Undo, Redo, UndoTask, RedoTask, TaskFails, EndTask,
            UndoCleanup, windows

LEMMA ParentsKept ==
  ASSUME IInv, Next
  PROVE  ParentsStay'
<1>0. ParentsStay /\ proc \in [Window -> Proc] /\ task \in [Step -> Tasks]
      /\ \A s \in Step : task[s].by \in Window
  BY WindowAssumption DEF IInv, TypeOK, Tasks, NoTask
<1>1. ASSUME UNCHANGED task, NEW w \in Window, NEW p \in Proc, proc' = [proc EXCEPT ![w] = p],
             \/ p \in {"idle", "filling"}
             \/ proc[w] \notin {"idle", "filling"}
             \/ \A s \in InHand : task[s].by # w
      PROVE  ParentsStay'
  <2>1. InHand' = InHand
    BY <1>1, ListsUnchanged
  <2>2. \A v \in Window : proc'[v] = IF v = w THEN p ELSE proc[v]
    BY <1>1, ProcKept
  <2> QED BY <1>0, <1>1, <2>1, <2>2 DEF ParentsStay, InHand
<1>2. ASSUME UNCHANGED <<task, proc>>
      PROVE  ParentsStay'
  BY <1>0, <1>2, ListsUnchanged DEF ParentsStay
<1>3. ASSUME UNCHANGED proc, NEW s \in Step, task' = [task EXCEPT ![s] = NoTask]
      PROVE  ParentsStay'
  <2>1. InHand' = InHand \ {s}
    BY <1>3, TaskEnds
  <2>2. \A r \in Step \ {s} : task'[r] = task[r]
    BY <1>0, <1>3
  <2> QED BY <1>0, <1>3, <2>1, <2>2 DEF ParentsStay, InHand
<1>4. ASSUME UNCHANGED proc, NEW w \in Window, proc[w] \in {"idle", "filling"},
             NEW s \in Step, NEW d, InHand' = InHand \cup {s},
             task' = [task EXCEPT ![s] = [doing |-> d, by |-> w]]
      PROVE  ParentsStay'
  <2>1. task'[s].by = w /\ \A r \in Step \ {s} : task'[r] = task[r]
    BY <1>0, <1>4
  <2> QED BY <1>0, <1>4, <2>1 DEF ParentsStay, InHand
<1>5. ASSUME NEW w \in Window, Undo(w)
      PROVE  ParentsStay'
  <2>1. proc[w] \in {"idle", "filling"} /\ UNCHANGED proc
    BY <1>5 DEF Undo, MayCommand, windows
  <2>2. CASE UNCHANGED task
    BY <1>2, <2>1, <2>2
  <2>3. CASE \E s \in Step : /\ InHand' = InHand \cup {s}
                             /\ task' = [task EXCEPT ![s] = [doing |-> "undo", by |-> w]]
    BY <1>4, <2>1, <2>3
  <2> QED BY <1>5, <2>2, <2>3, UndoIs
<1>6. ASSUME NEW w \in Window, Redo(w)
      PROVE  ParentsStay'
  <2>1. proc[w] \in {"idle", "filling"} /\ UNCHANGED proc
    BY <1>6 DEF Redo, MayCommand, windows
  <2>2. CASE UNCHANGED task
    BY <1>2, <2>1, <2>2
  <2>3. CASE \E s \in Step : /\ InHand' = InHand \cup {s}
                             /\ task' = [task EXCEPT ![s] = [doing |-> "redo", by |-> w]]
    BY <1>4, <2>1, <2>3
  <2> QED BY <1>6, <2>2, <2>3, RedoIs
<1>7. ASSUME NEW w \in Window, EndStep(w)
      PROVE  ParentsStay'
  <2> DEFINE p == IF proc[w] = "closing" THEN "undopass" ELSE "idle"
  <2>1. /\ proc' = [proc EXCEPT ![w] = p] /\ p \in Proc /\ UNCHANGED task
        /\ p \in {"idle", "filling"} \/ proc[w] \notin {"idle", "filling"}
    BY <1>7 DEF EndStep, Proc
  <2> HIDE DEF p
  <2> QED BY <1>1, <2>1
<1>8. ASSUME NEW w \in Window, Close(w) \/ CloseUnrecorded(w)
      PROVE  ParentsStay'
  <2>1. "closing" \in Proc /\ "undopass" \in Proc
    BY DEF Proc
  <2>2. /\ UNCHANGED task /\ \A s \in InHand : task[s].by # w
        /\ \/ proc' = [proc EXCEPT ![w] = "closing"]
           \/ proc' = [proc EXCEPT ![w] = "undopass"]
    BY <1>8 DEF Close, CloseUnrecorded, MayClose
  <2> QED BY <1>1, <2>1, <2>2
<1>9. ASSUME NEW w \in Window, \/ \E multi \in BOOLEAN : BeginStep(w, multi)
                               \/ \E d \in Dir : Open(w, d)
      PROVE  ParentsStay'
  <2>1. "idle" \in Proc /\ "filling" \in Proc
    BY DEF Proc
  <2>2. /\ UNCHANGED task
        /\ proc' = [proc EXCEPT ![w] = "idle"] \/ proc' = [proc EXCEPT ![w] = "filling"]
    BY <1>9 DEF BeginStep, Open
  <2> QED BY <1>1, <2>1, <2>2
<1>10. ASSUME NEW w \in Window, AddEventFails(w)
       PROVE  ParentsStay'
  <2>1. "idle" \in Proc
    BY DEF Proc
  <2>2. UNCHANGED task /\ (UNCHANGED proc \/ proc' = [proc EXCEPT ![w] = "idle"])
    BY <1>10 DEF AddEventFails
  <2> QED BY <1>1, <1>2, <2>1, <2>2
<1>11. ASSUME NEW w \in Window, UndoPass(w) \/ RedoPass(w) \/ Leave(w)
       PROVE  ParentsStay'
  <2>1. "redopass" \in Proc /\ "leaving" \in Proc /\ "shut" \in Proc
    BY DEF Proc
  <2>2. UNCHANGED task /\ proc[w] \notin {"idle", "filling"}
    BY <1>11 DEF UndoPass, RedoPass, Leave
  <2>3. \/ proc' = [proc EXCEPT ![w] = "redopass"]
        \/ proc' = [proc EXCEPT ![w] = "leaving"]
        \/ proc' = [proc EXCEPT ![w] = "shut"]
    BY <1>11 DEF UndoPass, RedoPass, Leave
  <2> QED BY <1>1, <2>1, <2>2, <2>3
<1>12. ASSUME NEW s \in Step, UndoTask(s) \/ RedoTask(s) \/ TaskFails(s)
       PROVE  ParentsStay'
  BY <1>3, <1>12 DEF UndoTask, RedoTask, TaskFails, PutBack, windows
<1> QED BY <1>2, <1>5, <1>6, <1>7, <1>8, <1>9, <1>10, <1>11, <1>12
        DEF Next, AddEvent, EndTask, UndoCleanup, windows

LEMMA RoomKept ==
  ASSUME IInv, Next
  PROVE  RoomToClose'
<1>0. /\ proc \in [Window -> Proc] /\ IsFiniteSet(ToClose) /\ Cardinality(ToClose) \in Nat
      /\ StepsToClose \in Nat /\ Cardinality(ToClose) <= StepsToClose
      /\ made \in Nat /\ MaxSteps \in Nat /\ made + Cardinality(ToClose) <= MaxSteps
  <2> DEFINE live == {w \in Window : proc[w] \notin {"shut", "leaving"}}
  <2>1. live \in SUBSET Window /\ ToClose \in SUBSET live
    BY DEF ToClose
  <2>2. IsFiniteSet(live) /\ IsFiniteSet(ToClose) /\ Cardinality(ToClose) <= Cardinality(live)
    BY <2>1, FS_Subset, WindowAssumption
  <2>3. Cardinality(live) \in Nat /\ Cardinality(ToClose) \in Nat
    BY <2>2, FS_CardinalityType
  <2> QED BY <2>2, <2>3, Basics DEF StepsToClose, IInv, RoomToClose, TypeOK
<1>1. ASSUME UNCHANGED <<proc, made>>
      PROVE  RoomToClose'
  BY <1>0, <1>1 DEF RoomToClose, ToClose
<1>2. ASSUME NEW w \in Window, NEW p \in Proc, proc' = [proc EXCEPT ![w] = p],
             p \in {"idle", "filling"} <=> proc[w] \in {"idle", "filling"}
      PROVE  ToClose' = ToClose
  BY <1>2, ProcKept DEF ToClose
<1>p. {"shut", "idle", "filling", "closing", "undopass", "redopass", "leaving"} = Proc
  BY DEF Proc
<1>3. ASSUME NEW w \in Window, NEW multi \in BOOLEAN, BeginStep(w, multi)
      PROVE  RoomToClose'
  <2>1. ToClose' = ToClose
    BY <1>2, <1>3, <1>p DEF BeginStep
  <2>2. made' = made + 1 /\ made + StepsToClose + 1 <= MaxSteps
    BY <1>3 DEF BeginStep, MayBegin
  <2> DEFINE c == Cardinality(ToClose)
  <2>3. made' + c <= MaxSteps
    <3> HIDE DEF c
    <3>1. c \in Nat /\ c <= StepsToClose
      BY <1>0 DEF c
    <3> QED BY <1>0, <2>2, <3>1
  <2> QED BY <2>1, <2>3 DEF RoomToClose
<1>4. ASSUME NEW w \in Window, AddEventFails(w)
      PROVE  RoomToClose'
  BY <1>0, <1>1, <1>2, <1>4, <1>p DEF AddEventFails, RoomToClose
<1>5. ASSUME NEW w \in Window, EndStep(w)
      PROVE  RoomToClose'
  <2> DEFINE p == IF proc[w] = "closing" THEN "undopass" ELSE "idle"
  <2>1. /\ proc' = [proc EXCEPT ![w] = p] /\ p \in Proc /\ made' = made
        /\ p \in {"idle", "filling"} <=> proc[w] \in {"idle", "filling"}
    BY <1>5 DEF EndStep, Proc
  <2> HIDE DEF p
  <2> QED BY <1>0, <1>2, <2>1 DEF RoomToClose
<1>6. ASSUME NEW w \in Window, NEW d \in Dir, Open(w, d)
      PROVE  RoomToClose'
  <2>1. ToClose' = ToClose \cup {w}
    <3>1. proc' = [proc EXCEPT ![w] = "idle"] /\ "idle" \in Proc
      BY <1>6, <1>p DEF Open
    <3>2. \A v \in Window : proc'[v] = IF v = w THEN "idle" ELSE proc[v]
      BY <3>1, ProcKept
    <3> QED BY <3>2 DEF ToClose
  <2> DEFINE c == Cardinality(ToClose)  e == Cardinality(ToClose \cup {w})
  <2>2. e = c \/ e = c + 1
    BY <1>0, FS_AddElement
  <2>3. made' = made /\ made + StepsToClose + 2 <= MaxSteps /\ c \in Nat /\ c <= StepsToClose
    BY <1>0, <1>6 DEF Open, MayBegin
  <2>4. made' + e <= MaxSteps
    <3> HIDE DEF c, e
    <3> QED BY <1>0, <2>2, <2>3
  <2> QED BY <2>1, <2>4 DEF RoomToClose
<1>7. ASSUME NEW w \in Window, Close(w)
      PROVE  RoomToClose'
  <2>1. ToClose' = ToClose \ {w} /\ w \in ToClose
    BY <1>7, <1>p, ProcKept DEF Close, MayClose, ToClose
  <2> DEFINE c == Cardinality(ToClose)  e == Cardinality(ToClose \ {w})
  <2>2. e = c - 1
    BY <1>0, <2>1, FS_RemoveElement
  <2>3. made' = made + 1 /\ made + c <= MaxSteps /\ c \in Nat
    BY <1>0, <1>7 DEF Close
  <2>4. made' + e <= MaxSteps
    <3> HIDE DEF c, e
    <3> QED BY <1>0, <2>2, <2>3
  <2> QED BY <2>1, <2>4 DEF RoomToClose
<1>8. ASSUME NEW w \in Window, UndoPass(w) \/ RedoPass(w) \/ Leave(w)
      PROVE  RoomToClose'
  BY <1>0, <1>2, <1>8, <1>p DEF UndoPass, RedoPass, Leave, RoomToClose, steps
<1>9. ASSUME NEW w \in Window, CloseUnrecorded(w)
      PROVE  RoomToClose'
  <2>1. ToClose' = ToClose \ {w} /\ w \in ToClose /\ made' = made
    <3>1. /\ proc' = [proc EXCEPT ![w] = "undopass"] /\ "undopass" \in Proc
          /\ proc[w] = "idle" /\ made' = made
      BY <1>9, <1>p DEF CloseUnrecorded, MayClose, steps
    <3>2. \A v \in Window : proc'[v] = IF v = w THEN "undopass" ELSE proc[v]
      BY <3>1, ProcKept
    <3> QED BY <3>1, <3>2 DEF ToClose
  <2> DEFINE c == Cardinality(ToClose)  e == Cardinality(ToClose \ {w})
  <2>2. e = c - 1
    BY <1>0, <2>1, FS_RemoveElement
  <2>3. made + c <= MaxSteps /\ c \in Nat
    BY <1>0
  <2>4. made + e <= MaxSteps
    <3> HIDE DEF c, e
    <3> QED BY <1>0, <2>2, <2>3
  <2> QED BY <2>1, <2>4 DEF RoomToClose
<1> QED BY <1>1, <1>3, <1>4, <1>5, <1>6, <1>7, <1>8, <1>9
        DEF Next, AddEvent, Undo, Redo, UndoTask, RedoTask, TaskFails, EndTask,
            UndoCleanup, windows, steps

LEMMA ShowsKept ==
  ASSUME IInv, Next
  PROVE  Shows'
<1>0. proc \in [Window -> Proc] /\ dir \in [Window -> Dir \cup {NoDir}] /\ Shows
  BY DEF IInv, TypeOK
<1>1. ASSUME UNCHANGED <<proc, dir>>
      PROVE  Shows'
  BY <1>0, <1>1 DEF Shows
<1>2. ASSUME NEW w \in Window, NEW p, proc[w] # "shut", proc' = [proc EXCEPT ![w] = p],
             dir' = dir
      PROVE  Shows'
  BY <1>0, <1>2 DEF Shows
<1>3. ASSUME NEW w \in Window, NEW d \in Dir, Open(w, d)
      PROVE  Shows'
  BY <1>0, <1>3 DEF Open, Shows
<1>4. ASSUME NEW w \in Window, Leave(w)
      PROVE  Shows'
  BY <1>0, <1>4 DEF Leave, Shows
<1>5. ASSUME NEW w \in Window, \/ \E multi \in BOOLEAN : BeginStep(w, multi)
                               \/ AddEventFails(w) \/ EndStep(w) \/ Close(w)
                               \/ CloseUnrecorded(w) \/ UndoPass(w) \/ RedoPass(w)
      PROVE  Shows'
  BY <1>1, <1>2, <1>5 DEF BeginStep, AddEventFails, EndStep, Close, CloseUnrecorded,
                          MayClose, UndoPass, RedoPass
<1> QED BY <1>1, <1>3, <1>4, <1>5
        DEF Next, AddEvent, Undo, Redo, UndoTask, RedoTask, TaskFails, EndTask,
            UndoCleanup, windows

(***************************************************************************)
(* After UndoCleanup no window is left to do anything, and no process that *)
(* a window would have waited for.                                         *)
(***************************************************************************)
LEMMA QuitHolds ==
  ASSUME IInv, quit
  PROVE  InHand = {} /\ Filled = {} /\ late = {}
<1>1. \A w \in Window : proc[w] = "shut"
  BY DEF IInv, QuitIsLast
<1>2. \A s \in InHand : task[s].by \in Window
  BY WindowAssumption DEF IInv, TypeOK, Tasks, NoTask, InHand
<1>3. \A w \in Window : filling[w].step = NoStep
  <2>1. \A w \in Window : filling[w] = Nothing
    BY <1>1 DEF IInv, Fills
  <2> QED BY <2>1 DEF Nothing
<1>4. \A r \in late : r.by \in Window
  BY DEF IInv, TypeOK, LateTasks
<1> QED BY <1>1, <1>2, <1>3, <1>4 DEF IInv, ParentsStay, LateParentsStay, Filled

LEMMA QuitKept ==
  ASSUME IInv, Next
  PROVE  QuitIsLast'
<1>1. CASE quit
  <2>1. InHand = {} /\ late = {} /\ \A w \in Window : proc[w] = "shut"
    BY <1>1, QuitHolds DEF IInv, QuitIsLast
  <2>2. \A s \in Step : task[s].doing = "none"
    BY <2>1 DEF InHand
  <2> QED BY <1>1, <2>1, <2>2
          DEF Next, BeginStep, AddEvent, AddEventFails, EndStep, Undo, Redo, MayCommand,
              Open, Close, CloseUnrecorded, MayClose, UndoPass, RedoPass, Leave,
              UndoTask, RedoTask, TaskFails, EndTask, UndoCleanup
<1>2. CASE ~quit
  <2>1. CASE UndoCleanup
    BY <2>1 DEF UndoCleanup, QuitIsLast, windows
  <2>2. CASE ~UndoCleanup
    <3>1. quit' = quit
      BY <2>2 DEF Next, BeginStep, AddEvent, AddEventFails, EndStep, Undo, Redo,
              Open, Close, CloseUnrecorded, UndoPass, RedoPass, Leave, UndoTask,
              RedoTask, TaskFails, EndTask
    <3> QED BY <1>2, <3>1 DEF QuitIsLast
  <2> QED BY <2>1, <2>2
<1> QED BY <1>1, <1>2 DEF IInv, TypeOK

LEMMA SizeFacts ==
  /\ \A w : ~IsSize(NoEvent, w)
  /\ \A v, d : ~IsSize([type |-> "close", dir |-> d], v)
  /\ \A w, v : \A e \in Event(w) : IsSize(e, v) => v = w
  /\ \A s, w : Sizes(s, w) <=> IsSize(event[s], w)
BY DEF IsSize, NoEvent, Event, Sizes

LEMMA OwnSizeKept ==
  ASSUME IInv, Next
  PROVE  OwnSize'
<1>0. /\ OwnSize /\ OneEach /\ event \in [Step -> Events] /\ filling \in [Window -> Fillings]
      /\ made \in Nat /\ Filled \subseteq 1 .. made
      /\ \A s \in Step : s \in Int /\ s # NoStep
      /\ \A v \in Window : filling[v].step \in Step \cup {NoStep}
      /\ \A v \in Window : filling[v].step \in Filled \cup {NoStep}
  <2>1. \A v \in Window : filling[v].step \in Filled \cup {NoStep}
    BY DEF Filled
  <2> QED BY <2>1, Basics DEF IInv, Once, Apart, TypeOK
<1>1. ASSUME UNCHANGED <<made, event, orphans>>,
             \A v \in Window : filling'[v].step \in {filling[v].step, NoStep}
      PROVE  OwnSize'
  BY <1>0, <1>1 DEF OwnSize
<1>2. ASSUME NEW w \in Window, NEW multi \in BOOLEAN, BeginStep(w, multi)
      PROVE  OwnSize'
  <2>1. /\ made' = made + 1 /\ made + 1 \in Step /\ event' = event /\ orphans' = orphans
    BY <1>2, BeginStepIs DEF BeginStep
  <2>2. \A v \in Window : filling'[v].step = IF v = w THEN made + 1 ELSE filling[v].step
    BY <1>0, <1>2 DEF BeginStep
  <2>3. made + 1 > made /\ \A s \in Step : s > made + 1 => s > made
    BY <1>0
  <2>4. 1 .. made \subseteq 1 .. made'
    BY <1>0, <2>1
  <2> DEFINE n == made + 1
  <2>5. n \in Step /\ event[n] = NoEvent
    BY <1>0, <2>1, <2>3 DEF OwnSize
  <2> HIDE DEF n
  <2>6. \A v, u \in Window :
          filling'[v].step # NoStep /\ IsSize(event'[filling'[v].step], u) => v = u
    BY <1>0, <2>1, <2>2, <2>5, SizeFacts DEF OwnSize, n
  <2> QED BY <1>0, <2>1, <2>3, <2>4, <2>6 DEF OwnSize
<1>3. ASSUME NEW w \in Window, NEW e \in Event(w), AddEvent(w, e)
      PROVE  OwnSize'
  <2> DEFINE s == filling[w].step
  <2>1. /\ s \in Step /\ s \in Filled /\ event' = [event EXCEPT ![s] = e]
        /\ UNCHANGED <<made, filling, orphans>>
    BY <1>3, Basics DEF AddEvent, windows
  <2>2. \A r \in Step : r > made => r # s
    BY <1>0, <2>1
  <2>4. \A v \in Window : filling[v].step = s => v = w
    BY <1>0, <2>1 DEF OneEach
  <2> HIDE DEF s
  <2>5. event'[s] = e /\ \A r \in Step \ {s} : event'[r] = event[r]
    BY <1>0, <2>1
  <2>6. \A v, u \in Window :
          filling'[v].step # NoStep /\ IsSize(event'[filling'[v].step], u) => v = u
    BY <1>0, <2>1, <2>4, <2>5, SizeFacts DEF OwnSize
  <2> QED BY <1>0, <2>1, <2>2, <2>5, <2>6 DEF OwnSize
<1>4. ASSUME NEW w \in Window, filling' = [filling EXCEPT ![w] = Nothing] \/ filling' = filling
      PROVE  \A v \in Window : filling'[v].step \in {filling[v].step, NoStep}
  BY <1>0, <1>4 DEF Nothing
<1>5. ASSUME NEW w \in Window, AddEventFails(w) \/ EndStep(w)
      PROVE  OwnSize'
  BY <1>1, <1>4, <1>5 DEF AddEventFails, EndStep, ghosts
<1>6. ASSUME NEW w \in Window, Close(w)
      PROVE  OwnSize'
  <2>1. made' = made + 1 /\ made + 1 \in Step /\ orphans' = orphans
    BY <1>6, CloseIs DEF Close
  <2>3. made + 1 > made /\ \A s \in Step : s > made + 1 => s > made /\ s # made + 1
    BY <1>0
  <2>4. 1 .. made \subseteq 1 .. made' /\ made + 1 \notin Filled
    BY <1>0, <2>1
  <2> DEFINE n == made + 1
             close == [type |-> "close", dir |-> dir[w]]
  <2>5. event' = event \/ event' = [event EXCEPT ![n] = close]
    BY <1>6 DEF Close
  <2>6. \A v \in Window : filling'[v].step \in {n, filling[v].step}
    BY <1>0, <1>6 DEF Close
  <2>7. n \in Step /\ event[n] = NoEvent
    BY <1>0, <2>1, <2>3 DEF OwnSize
  <2>8. \A v \in Window : ~IsSize(close, v)
    BY SizeFacts
  <2> HIDE DEF n, close
  <2>9. /\ \A r \in Step \ {n} : event'[r] = event[r]
        /\ event'[n] \in {NoEvent, close}
    BY <1>0, <2>5, <2>7
  <2>10. \A v, u \in Window :
          filling'[v].step # NoStep /\ IsSize(event'[filling'[v].step], u) => v = u
    BY <1>0, <2>6, <2>8, <2>9, SizeFacts DEF OwnSize
  <2>11. \A s \in Step : s > made' => event'[s] = NoEvent
    BY <1>0, <2>1, <2>3, <2>9 DEF OwnSize, n
  <2> QED BY <1>0, <2>1, <2>4, <2>10, <2>11 DEF OwnSize
<1>7. ASSUME NEW w \in Window, Leave(w)
      PROVE  OwnSize'
  <2>1. UNCHANGED <<made, event, filling>> /\ orphans' = orphans \cup {s \in Step : Sizes(s, w)}
    BY <1>7 DEF Leave, steps
  <2>2. \A s \in Step : Sizes(s, w) => s \in 1 .. made
    BY <1>0, SizeFacts DEF Step, OwnSize
  <2> QED BY <1>0, <2>1, <2>2 DEF OwnSize
<1>8. ASSUME UNCHANGED <<made, event, filling, orphans>>
      PROVE  OwnSize'
  BY <1>0, <1>8 DEF OwnSize
<1> QED BY <1>2, <1>3, <1>5, <1>6, <1>7, <1>8
        DEF Next, Undo, Redo, Open, CloseUnrecorded, UndoPass, RedoPass, UndoTask,
            RedoTask, TaskFails, EndTask, UndoCleanup, windows, steps, ghosts

(***************************************************************************)
(* The two loops of UndoWindowSignalClosing find every step about their    *)
(* window, but for those in hand: an action of another window or process   *)
(* brings none back.                                                       *)
(***************************************************************************)
Anywhere == Filled \cup Past \cup InHand \cup Future

LEMMA PassedKept ==
  ASSUME IInv, Next
  PROVE  Passed'
<1>0. /\ Passed /\ OwnSize /\ Apart /\ event \in [Step -> Events] /\ made \in Nat
      /\ proc \in [Window -> Proc] /\ \A s \in Step : s \in Int
  BY Basics DEF IInv, TypeOK, Once
<1>1. ASSUME event' = event, orphans' = orphans, escaped \subseteq escaped',
             \A w \in Window : /\ proc'[w] = "redopass" => proc[w] = "redopass"
                               /\ proc'[w] = "leaving" => proc[w] = "leaving",
             Filled' \cup Past' \cup InHand' \subseteq Filled \cup Past \cup InHand,
             Future' \subseteq Anywhere
      PROVE  Passed'
  BY <1>0, <1>1 DEF Passed, Anywhere
<1>p. ASSUME NEW w \in Window, NEW p, proc' = [proc EXCEPT ![w] = p], p \notin {"redopass", "leaving"}
      PROVE  \A v \in Window : /\ proc'[v] = "redopass" => proc[v] = "redopass"
                               /\ proc'[v] = "leaving" => proc[v] = "leaving"
  BY <1>0, <1>p
<1>2. ASSUME NEW w \in Window, NEW multi \in BOOLEAN, BeginStep(w, multi)
      PROVE  Passed'
  <2> DEFINE n == made + 1
  <2>1. /\ n \in Step /\ event[n] = NoEvent /\ n \notin orphans
    BY <1>0, <1>2, BeginStepIs DEF OwnSize
  <2>2. /\ Filled' = Filled \cup {n} /\ UNCHANGED <<Past, InHand, Future, event, orphans, escaped>>
    BY <1>2, BeginStepIs DEF BeginStep
  <2>3. \A v \in Window : /\ proc'[v] = "redopass" => proc[v] = "redopass"
                          /\ proc'[v] = "leaving" => proc[v] = "leaving"
    BY <1>2, <1>p DEF BeginStep
  <2> HIDE DEF n
  <2> QED BY <1>0, <2>1, <2>2, <2>3, SizeFacts DEF Passed
<1>3. ASSUME NEW w \in Window, NEW e \in Event(w), AddEvent(w, e)
      PROVE  Passed'
  <2> DEFINE s == filling[w].step
  <2>1. /\ s \in Step /\ s \in Filled /\ event' = [event EXCEPT ![s] = e]
        /\ UNCHANGED <<proc, orphans, escaped>> /\ proc[w] = "filling"
    BY <1>3, Basics DEF AddEvent, windows
  <2> HIDE DEF s
  <2>2. UNCHANGED <<Filled, Past, InHand>> /\ Future' = {}
    BY <1>3, AddEventIs
  <2>3. event'[s] = e /\ \A r \in Step \ {s} : event'[r] = event[r]
    BY <1>0, <2>1
  <2>4. \A v \in Window : IsSize(e, v) => v = w
    BY SizeFacts
  <2> QED BY <1>0, <2>1, <2>2, <2>3, <2>4 DEF Passed
<1>4. ASSUME NEW w \in Window, AddEventFails(w)
      PROVE  Passed'
  <2>1. UNCHANGED <<event, orphans, escaped>>
    BY <1>4 DEF AddEventFails
  <2>2. \A v \in Window : /\ proc'[v] = "redopass" => proc[v] = "redopass"
                          /\ proc'[v] = "leaving" => proc[v] = "leaving"
    BY <1>4, <1>p DEF AddEventFails
  <2> QED BY <1>1, <1>4, <2>1, <2>2, AddEventFailsIs
<1>5. ASSUME NEW w \in Window, EndStep(w)
      PROVE  Passed'
  <2>1. UNCHANGED <<event, orphans, escaped>>
    BY <1>5 DEF EndStep, ghosts
  <2>2. \A v \in Window : /\ proc'[v] = "redopass" => proc[v] = "redopass"
                          /\ proc'[v] = "leaving" => proc[v] = "leaving"
    BY <1>5, <1>p DEF EndStep
  <2>3. Filled' \cup Past' \subseteq Filled \cup Past /\ UNCHANGED <<InHand, Future>>
    BY <1>5, EndStepIs
  <2> QED BY <1>1, <2>1, <2>2, <2>3 DEF Anywhere
<1>6. ASSUME NEW w \in Window, Undo(w)
      PROVE  Passed'
  <2>1. UNCHANGED <<event, orphans, escaped, proc>>
    BY <1>6 DEF Undo, windows, steps
  <2>2. Past' \cup InHand' \subseteq Past \cup InHand /\ UNCHANGED <<Filled, Future>>
    BY <1>6, UndoIs
  <2> QED BY <1>1, <2>1, <2>2 DEF Anywhere
<1>7. ASSUME NEW w \in Window, Redo(w)
      PROVE  Passed'
  <2>1. UNCHANGED <<event, orphans, proc>> /\ escaped \subseteq escaped'
    BY <1>7 DEF Redo, windows, steps
  <2>2. PICK s \in Future : /\ s \in Step /\ s = Last(redoList)
                            /\ Future' = Future \ {s} /\ InHand' \subseteq InHand \cup {s}
                            /\ UNCHANGED <<Filled, Past>>
    BY <1>7, RedoIs
  <2>3. \A v \in Window : proc[v] = "redopass" /\ IsSize(event[s], v) => s \in escaped'
    BY <1>7, <2>2, SizeFacts DEF Redo
  <2> QED BY <1>0, <2>1, <2>2, <2>3 DEF Passed
<1>8. ASSUME NEW d \in Dir, NEW w \in Window, Open(w, d)
      PROVE  Passed'
  <2>1. UNCHANGED <<event, orphans, escaped>>
    BY <1>8 DEF Open, ghosts
  <2>2. \A v \in Window : /\ proc'[v] = "redopass" => proc[v] = "redopass"
                          /\ proc'[v] = "leaving" => proc[v] = "leaving"
    BY <1>8, <1>p DEF Open
  <2>3. Past' \subseteq Past /\ UNCHANGED <<Filled, InHand, Future>>
    BY <1>8, OpenIs
  <2> QED BY <1>1, <2>1, <2>2, <2>3 DEF Anywhere
<1>9. ASSUME NEW w \in Window, Close(w)
      PROVE  Passed'
  <2> DEFINE n == made + 1
             close == [type |-> "close", dir |-> dir[w]]
  <2>1. /\ n \in Step /\ event[n] = NoEvent /\ n \notin orphans
    BY <1>0, <1>9, CloseIs DEF OwnSize
  <2>2. /\ Filled' \subseteq Filled \cup {n} /\ UNCHANGED <<Past, InHand>> /\ Future' = {}
        /\ UNCHANGED <<orphans, escaped>>
    BY <1>9, CloseIs DEF Close
  <2>3. \A v \in Window : /\ proc'[v] = "redopass" => proc[v] = "redopass"
                          /\ proc'[v] = "leaving" => proc[v] = "leaving"
    BY <1>9, <1>p DEF Close
  <2>4. event' = event \/ event' = [event EXCEPT ![n] = close]
    BY <1>9 DEF Close
  <2>5. \A v \in Window : ~IsSize(close, v)
    BY SizeFacts
  <2> HIDE DEF n, close
  <2>6. /\ \A r \in Step \ {n} : event'[r] = event[r]
        /\ event'[n] \in {NoEvent, close}
    BY <1>0, <2>1, <2>4
  <2> QED BY <1>0, <2>1, <2>2, <2>3, <2>5, <2>6, SizeFacts DEF Passed
<1>10. ASSUME NEW w \in Window, UndoPass(w)
       PROVE  Passed'
  <2>1. /\ UNCHANGED <<event, orphans, Filled, InHand, Future>>
        /\ Past' = Past \ {s \in Past : IsSize(event[s], w)}
        /\ escaped' = escaped \cup {s \in InHand : IsSize(event[s], w)}
    BY <1>10, UndoPassIs, SizeFacts DEF UndoPass, Past
  <2>2. \A v \in Window : proc'[v] = IF v = w THEN "redopass" ELSE proc[v]
    BY <1>0, <1>10 DEF UndoPass
  <2>3. \A s \in Filled : ~IsSize(event[s], w)
    <3>1. filling[w].step = NoStep
      BY <1>10 DEF UndoPass, IInv, Fills, Nothing
    <3> QED BY <1>0, <3>1 DEF OwnSize, Filled
  <2> QED BY <1>0, <2>1, <2>2, <2>3 DEF Passed
<1>11. ASSUME NEW w \in Window, RedoPass(w)
       PROVE  Passed'
  <2>1. /\ UNCHANGED <<event, orphans, Filled, InHand, Past>>
        /\ Future' = Future \ {s \in Future : IsSize(event[s], w)}
        /\ escaped \subseteq escaped'
    BY <1>11, RedoPassIs, SizeFacts DEF RedoPass, Future
  <2>2. \A v \in Window : proc'[v] = IF v = w THEN "leaving" ELSE proc[v]
    BY <1>0, <1>11 DEF RedoPass
  <2>3. proc[w] = "redopass"
    BY <1>11 DEF RedoPass
  <2> QED BY <1>0, <2>1, <2>2, <2>3 DEF Passed
<1>12. ASSUME NEW w \in Window, Leave(w)
       PROVE  Passed'
  <2>1. /\ UNCHANGED <<event, escaped, undoList, redoList, filling, task>>
        /\ orphans' = orphans \cup {s \in Step : IsSize(event[s], w)}
        /\ proc[w] = "leaving"
    BY <1>12, SizeFacts DEF Leave, lists, steps
  <2>2. UNCHANGED <<Filled, Past, InHand, Future>>
    BY <2>1, ListsUnchanged
  <2>3. \A v \in Window : proc'[v] = IF v = w THEN "shut" ELSE proc[v]
    BY <1>0, <1>12 DEF Leave
  <2> QED BY <1>0, <2>1, <2>2, <2>3 DEF Passed
<1>13. ASSUME NEW s \in Step, UndoTask(s) \/ RedoTask(s) \/ TaskFails(s)
       PROVE  Passed'
  <2>1. UNCHANGED <<event, orphans, escaped, proc>>
    BY <1>13 DEF UndoTask, RedoTask, TaskFails, windows, steps, ghosts
  <2>2. /\ Filled' \cup Past' \cup InHand' \subseteq Filled \cup Past \cup InHand
        /\ Future' \subseteq Anywhere
    BY <1>13, UndoTaskIs, RedoTaskIs, TaskFailsIs DEF Anywhere
  <2> QED BY <1>1, <2>1, <2>2
<1>14. ASSUME UndoCleanup
       PROVE  Passed'
  BY <1>1, <1>14, CleanupIs DEF UndoCleanup, windows, ghosts, Anywhere
<1>15. ASSUME NEW w \in Window, CloseUnrecorded(w)
       PROVE  Passed'
  <2>1. UNCHANGED <<event, orphans, escaped, undoList, redoList, filling, task>>
    BY <1>15 DEF CloseUnrecorded, lists, steps
  <2>2. \A v \in Window : /\ proc'[v] = "redopass" => proc[v] = "redopass"
                          /\ proc'[v] = "leaving" => proc[v] = "leaving"
    BY <1>15, <1>p DEF CloseUnrecorded
  <2> QED BY <1>1, <2>1, <2>2, ListsUnchanged DEF Anywhere
<1>16. ASSUME NEW r \in LateTasks, EndTask(r)
       PROVE  Passed'
  <2>1. UNCHANGED <<event, orphans, escaped, undoList, redoList, filling, task, proc>>
    BY <1>16 DEF EndTask, lists, steps, windows
  <2> QED BY <1>1, <2>1, ListsUnchanged DEF Anywhere
<1> QED BY <1>2, <1>3, <1>4, <1>5, <1>6, <1>7, <1>8, <1>9, <1>10, <1>11, <1>12,
           <1>13, <1>14, <1>15, <1>16 DEF Next

(***************************************************************************)
(* The late processes are children of windows that have not closed, and    *)
(* the steps they still write to are nobody's to fill.                     *)
(***************************************************************************)
LEMMA LateParentsKept ==
  ASSUME IInv, Next
  PROVE  LateParentsStay'
<1>0. /\ LateParentsStay /\ ParentsStay /\ proc \in [Window -> Proc]
      /\ late \subseteq LateTasks /\ task \in [Step -> Tasks]
      /\ {"shut", "idle", "filling", "closing", "undopass", "redopass", "leaving"} = Proc
  BY DEF IInv, TypeOK, Proc
<1>1. ASSUME late' \subseteq late, NEW w \in Window, NEW p \in Proc,
             proc' = [proc EXCEPT ![w] = p],
             \/ p \in {"idle", "filling"}
             \/ proc[w] \notin {"idle", "filling"}
             \/ \A r \in late : r.by # w
      PROVE  LateParentsStay'
  <2>1. \A r \in late : r.by \in Window
    BY <1>0 DEF LateTasks
  <2>2. \A v \in Window : proc'[v] = IF v = w THEN p ELSE proc[v]
    BY <1>1, ProcKept
  <2> QED BY <1>0, <1>1, <2>1, <2>2 DEF LateParentsStay
<1>2. ASSUME proc' = proc, late' \subseteq late
      PROVE  LateParentsStay'
  BY <1>0, <1>2 DEF LateParentsStay
<1>3. ASSUME NEW s \in Step, UndoTask(s) \/ RedoTask(s)
      PROVE  LateParentsStay'
  <2>1. s \in InHand /\ proc' = proc /\ late' = late \cup {LateOf(s)}
    BY <1>3 DEF UndoTask, RedoTask, PutBack, InHand, windows
  <2>2. proc[LateOf(s).by] \in {"idle", "filling"}
    BY <1>0, <2>1 DEF ParentsStay, LateOf
  <2> QED BY <1>0, <2>1, <2>2 DEF LateParentsStay
<1>4. ASSUME NEW w \in Window, EndStep(w)
      PROVE  LateParentsStay'
  <2> DEFINE p == IF proc[w] = "closing" THEN "undopass" ELSE "idle"
  <2>1. /\ proc' = [proc EXCEPT ![w] = p] /\ p \in Proc /\ late' = late
        /\ p \in {"idle", "filling"} \/ proc[w] \notin {"idle", "filling"}
    BY <1>4 DEF EndStep, Proc
  <2> HIDE DEF p
  <2> QED BY <1>1, <2>1
<1>5. ASSUME NEW w \in Window, \/ \E multi \in BOOLEAN : BeginStep(w, multi)
                               \/ \E d \in Dir : Open(w, d)
                               \/ AddEventFails(w)
                               \/ Close(w) \/ CloseUnrecorded(w)
      PROVE  LateParentsStay'
  <2>1. /\ late' = late
        /\ \/ proc' = proc \/ proc' = [proc EXCEPT ![w] = "filling"]
           \/ proc' = [proc EXCEPT ![w] = "idle"]
           \/ /\ \A r \in late : r.by # w
              /\ \/ proc' = [proc EXCEPT ![w] = "closing"]
                 \/ proc' = [proc EXCEPT ![w] = "undopass"]
    BY <1>5 DEF BeginStep, Open, AddEventFails, Close, CloseUnrecorded, MayClose
  <2> QED BY <1>0, <1>1, <1>2, <2>1
<1>6. ASSUME NEW w \in Window, UndoPass(w) \/ RedoPass(w) \/ Leave(w)
      PROVE  LateParentsStay'
  <2>1. /\ late' = late /\ proc[w] \notin {"idle", "filling"}
        /\ \/ proc' = [proc EXCEPT ![w] = "redopass"]
           \/ proc' = [proc EXCEPT ![w] = "leaving"]
           \/ proc' = [proc EXCEPT ![w] = "shut"]
    BY <1>6 DEF UndoPass, RedoPass, Leave
  <2> QED BY <1>0, <1>1, <2>1
<1> QED BY <1>2, <1>3, <1>4, <1>5, <1>6
        DEF Next, AddEvent, Undo, Redo, TaskFails, EndTask, UndoCleanup, windows

LEMMA LateApartKept ==
  ASSUME IInv, Next
  PROVE  LateApart'
<1>0. /\ LateApart /\ Apart /\ made \in Nat /\ late \subseteq LateTasks
      /\ made + 1 \notin 1 .. made
  BY Basics DEF IInv, TypeOK, Once
<1>1. ASSUME late' \subseteq late, 1 .. made \subseteq 1 .. made',
             Filled' \subseteq Filled \cup {made + 1}
      PROVE  LateApart'
  BY <1>0, <1>1 DEF LateApart
<1>2. made' = made + 1 => 1 .. made \subseteq 1 .. made'
  BY <1>0
<1>3. ASSUME NEW s \in Step, UndoTask(s) \/ RedoTask(s)
      PROVE  LateApart'
  <2>1. s \in InHand /\ made' = made /\ late' = late \cup {LateOf(s)}
        /\ UNCHANGED Filled
    BY <1>3, ListsUnchanged DEF UndoTask, RedoTask, PutBack, InHand, windows, steps
  <2>2. LateOf(s).step \in 1 .. made /\ LateOf(s).step \notin Filled
    BY <1>0, <2>1 DEF Apart, LateOf
  <2> QED BY <1>0, <2>1, <2>2 DEF LateApart
<1>4. ASSUME NEW w \in Window, AddEventFails(w) \/ EndStep(w)
      PROVE  LateApart'
  BY <1>1, <1>4, AddEventFailsIs, EndStepIs DEF AddEventFails, EndStep
<1>5. ASSUME NEW w \in Window, NEW multi \in BOOLEAN, BeginStep(w, multi)
      PROVE  LateApart'
  BY <1>1, <1>2, <1>5, BeginStepIs DEF BeginStep
<1>6. ASSUME NEW w \in Window, Close(w)
      PROVE  LateApart'
  BY <1>1, <1>2, <1>6, CloseIs DEF Close
<1>7. ASSUME late' \subseteq late, UNCHANGED <<made, filling>>
      PROVE  LateApart'
  BY <1>1, <1>7, ListsUnchanged
<1> QED BY <1>3, <1>4, <1>5, <1>6, <1>7
        DEF Next, AddEvent, Undo, Redo, Open, CloseUnrecorded, UndoPass, RedoPass,
            Leave, TaskFails, EndTask, UndoCleanup, windows, steps

LEMMA LateSafeKept ==
  ASSUME IInv, Next
  PROVE  LateTasksAreSafe'
<1>0. /\ LateTasksAreSafe /\ LateApart /\ late \subseteq LateTasks /\ made \in Nat
      /\ event \in [Step -> Events] /\ made + 1 \notin 1 .. made
      /\ undoList \in Seq(Step) /\ redoList \in Seq(Step)
      /\ \A r \in late : r.step \in Step /\ r.doing \in {"undo", "redo"}
  BY Basics DEF IInv, TypeOK, LateTasks
<1>1. ASSUME NEW w \in Window, NEW e \in Event(w), AddEvent(w, e)
      PROVE  LateTasksAreSafe'
  <2>1. filling[w].step \in Filled /\ UNCHANGED <<late, Past>> /\ Crosses("undo")
    BY <1>1, Basics, ListsUnchanged DEF AddEvent, RedoCleanup
  <2>2. \A r \in late : event'[r.step] = event[r.step]
    BY <1>0, <1>1, <2>1 DEF AddEvent, LateApart
  <2> QED BY <1>0, <2>1, <2>2 DEF LateTasksAreSafe, Crosses, Past
<1>2. ASSUME UNCHANGED <<late, event>>,
             \A r \in late \ crossed' :
               /\ r \notin crossed
               /\ event[r.step].type # "file"
                    \/ /\ r.doing = "undo" /\ r.step \in Future => r.step \in Future'
                       /\ r.doing = "redo" /\ r.step \in Past => r.step \in Past'
      PROVE  LateTasksAreSafe'
  BY <1>0, <1>2 DEF LateTasksAreSafe, Past, Future
<1>3. ASSUME NEW w \in Window, AddEventFails(w)
      PROVE  LateTasksAreSafe'
  <2>1. UNCHANGED <<late, event, Past>> /\ Crosses("undo")
    BY <1>3, ListsUnchanged DEF AddEventFails, RedoCleanup
  <2> QED BY <1>2, <2>1 DEF Crosses
<1>4. ASSUME NEW w \in Window, EndStep(w)
      PROVE  LateTasksAreSafe'
  <2>1. UNCHANGED <<late, event, redoList>>
    BY <1>4 DEF EndStep
  <2>2. \/ Past \subseteq Past' /\ crossed' = crossed
        \/ Crosses("redo")
    <3> DEFINE s == filling[w].step
    <3>1. CASE event[s] = NoEvent
      BY <1>4, <3>1, ListsUnchanged DEF EndStep
    <3>2. CASE undoList' = Append(undoList, s) /\ crossed' = crossed
      <4>1. s \in Step
        BY <1>4, Basics DEF EndStep
      <4> HIDE DEF s
      <4> QED BY <1>0, <3>2, <4>1, AppendFacts DEF Past
    <3> QED BY <1>4, <3>1, <3>2 DEF EndStep, AppendStep
  <2> QED BY <1>0, <1>2, <2>1, <2>2, ListsUnchanged DEF Crosses
<1>5. ASSUME NEW w \in Window, Undo(w)
      PROVE  LateTasksAreSafe'
  <2>1. UNCHANGED <<late, event, redoList>>
    BY <1>5 DEF Undo, steps
  <2>2. \/ UNCHANGED <<undoList, crossed>>
        \/ Crosses("redo")
    BY <1>5 DEF Undo
  <2> QED BY <1>0, <1>2, <2>1, <2>2, ListsUnchanged DEF Crosses
<1>6. ASSUME NEW w \in Window, Redo(w)
      PROVE  LateTasksAreSafe'
  <2>1. UNCHANGED <<late, event, undoList>> /\ Crosses("undo")
    BY <1>6 DEF Redo, steps
  <2> QED BY <1>0, <1>2, <2>1, ListsUnchanged DEF Crosses
<1>7. ASSUME NEW w \in Window, NEW d \in Dir, Open(w, d)
      PROVE  LateTasksAreSafe'
  <2>1. UNCHANGED <<late, event, crossed, Future>>
    BY <1>7, ListsUnchanged DEF Open, ghosts
  <2>2. \A s \in Past : s \in Past' \/ Closes(s, d)
    BY <1>7, OpenIs DEF Past
  <2> QED BY <1>2, <2>1, <2>2 DEF Closes
<1>8. ASSUME NEW w \in Window, Close(w)
      PROVE  LateTasksAreSafe'
  <2>1. UNCHANGED <<late, Past>> /\ Crosses("undo")
        /\ \/ event' = event
           \/ event' = [event EXCEPT ![made + 1] = [type |-> "close", dir |-> dir[w]]]
    BY <1>8, ListsUnchanged DEF Close, RedoCleanup
  <2>2. \A r \in late : event'[r.step] = event[r.step]
    BY <1>0, <2>1 DEF LateApart
  <2> QED BY <1>0, <2>1, <2>2 DEF LateTasksAreSafe, Crosses, Past
<1>9. ASSUME NEW w \in Window, UndoPass(w) \/ RedoPass(w)
      PROVE  LateTasksAreSafe'
  <2>1. UNCHANGED <<late, event, crossed>>
    BY <1>9 DEF UndoPass, RedoPass
  <2>2. /\ \A s \in Past : s \in Past' \/ Sizes(s, w)
        /\ \A s \in Future : s \in Future' \/ Sizes(s, w)
    BY <1>9, UndoPassIs, RedoPassIs DEF Past, Future
  <2> QED BY <1>2, <2>1, <2>2 DEF Sizes
<1>10. ASSUME NEW s \in Step, UndoTask(s) \/ RedoTask(s)
       PROVE  LateTasksAreSafe'
  <2>1. late' = late \cup {LateOf(s)} /\ UNCHANGED <<event, crossed>>
    BY <1>10 DEF UndoTask, RedoTask, PutBack, steps, ghosts
  <2>2. Past \subseteq Past' /\ Future \subseteq Future'
    BY <1>10, UndoTaskIs, RedoTaskIs
  <2>3. \/ LateOf(s).doing = "undo" /\ LateOf(s).step \in Future'
        \/ LateOf(s).doing = "redo" /\ LateOf(s).step \in Past'
    <3>1. LateOf(s).doing = task[s].doing /\ LateOf(s).step = s
      BY DEF LateOf
    <3> QED BY <1>10, <3>1, UndoTaskIs, RedoTaskIs DEF UndoTask, RedoTask
  <2> QED BY <1>0, <2>1, <2>2, <2>3 DEF LateTasksAreSafe, Past, Future
<1>11. ASSUME NEW r \in LateTasks, EndTask(r)
       PROVE  LateTasksAreSafe'
  BY <1>0, <1>11 DEF EndTask, LateTasksAreSafe, lists, steps
<1>12. ASSUME UNCHANGED <<undoList, redoList, event, late, crossed>>
       PROVE  LateTasksAreSafe'
  BY <1>2, <1>12, ListsUnchanged
<1>13. ASSUME UndoCleanup
       PROVE  LateTasksAreSafe'
  <2>1. late = {} /\ late' = late
    <3>1. \A r \in late : r.by \in Window
      BY <1>0 DEF LateTasks
    <3> QED BY <1>13, <3>1 DEF UndoCleanup, IInv, LateParentsStay
  <2> QED BY <2>1 DEF LateTasksAreSafe
<1> QED BY <1>1, <1>3, <1>4, <1>5, <1>6, <1>7, <1>8, <1>9, <1>10, <1>11, <1>12, <1>13
        DEF Next, BeginStep, CloseUnrecorded, Leave, TaskFails, lists, steps, ghosts

-----------------------------------------------------------------------------
LEMMA Starts ==
  ASSUME Init
  PROVE  IInv /\ History!HistoryInit
<1>1. /\ undoList = << >> /\ redoList = << >> /\ made = 0 /\ freed = {}
      /\ \A s \in Step : event[s] = NoEvent /\ task[s] = NoTask
      /\ \A w \in Window : /\ filling[w] = Nothing
                           /\ proc[w] = IF w = Desk THEN "idle" ELSE "shut"
  BY DEF Init
<1>2. InHand = {} /\ Undoing = {} /\ Redoing = {} /\ Filled = {} /\ Past = {} /\ Future = {}
  BY <1>1, EmptySeq DEF InHand, Undoing, Redoing, Filled, Past, Future, NoTask, Nothing, Range
<1>3. TypeOK
  <2>1. undoCount \in 0 .. ULongs - 1 /\ made \in 0 .. MaxSteps
    BY NumberAssumption DEF Init
  <2>2. event \in [Step -> Events] /\ task \in [Step -> Tasks]
    BY DEF Init, Events, Tasks
  <2>3. proc \in [Window -> Proc] /\ filling \in [Window -> Fillings]
        /\ dir \in [Window -> Dir \cup {NoDir}]
    BY DEF Init, Proc, Fillings
  <2>4. undoList \in Seq(Step) /\ redoList \in Seq(Step)
    BY EmptySeq DEF Init
  <2> QED BY <2>1, <2>2, <2>3, <2>4 DEF Init, TypeOK
<1>4. Once
  <2>1. IsInjective(<< >>)
    BY EmptySeq DEF IsInjective
  <2>2. OneEach
    BY <1>1 DEF OneEach, Nothing
  <2> QED BY <1>1, <1>2, <2>1, <2>2 DEF Once, Apart
<1>5. CountMatches /\ Fills /\ ParentsStay /\ Shows /\ QuitIsLast /\ OwnSize /\ Passed
  <2>1. Len(undoList) = 0 /\ undoCount = 0 /\ orphans = {} /\ ~quit
    BY EmptySeq DEF Init
  <2>2. OwnSize
    BY <1>1, <2>1 DEF OwnSize, Nothing
  <2>3. Passed
    BY <1>2, <2>1 DEF Passed
  <2> QED BY <1>1, <1>2, <2>1, <2>2, <2>3
          DEF CountMatches, Fills, ParentsStay, Shows, QuitIsLast
<1>6. RoomToClose
  <2>1. ToClose \in SUBSET Window
    BY DEF ToClose
  <2> DEFINE c == Cardinality(ToClose)  all == Cardinality(Window)
  <2>2. c \in Nat /\ all \in Nat /\ c <= all
    BY <2>1, WindowAssumption, FS_Subset, FS_CardinalityType
  <2>3. MaxSteps \in Nat /\ MaxSteps > all
    BY NumberAssumption
  <2>4. made + c <= MaxSteps
    <3> HIDE DEF c, all
    <3> QED BY <1>1, <2>2, <2>3
  <2> QED BY <2>4 DEF RoomToClose
<1>7. History!HistoryInit
  BY <1>1, <1>2 DEF History!HistoryInit, Past, Future
<1>8. LateParentsStay /\ LateApart /\ LateTasksAreSafe
  BY DEF Init, LateParentsStay, LateApart, LateTasksAreSafe
<1> QED BY <1>3, <1>4, <1>5, <1>6, <1>7, <1>8 DEF IInv

LEMMA Steps ==
  ASSUME IInv, [Next]_vars
  PROVE  IInv'
<1>1. CASE Next
  BY <1>1, TypeKept, OnceKept, CountKept, FillsKept, ParentsKept, RoomKept, ShowsKept,
     QuitKept, OwnSizeKept, PassedKept, LateParentsKept, LateApartKept, LateSafeKept
     DEF IInv
<1>2. CASE UNCHANGED vars
  <2>1. /\ UNCHANGED <<undoList, redoList, undoCount, made, event, freed, proc, filling, dir,
                       task, late, quit, overlapped, emptyUndo, orphans, escaped, crossed>>
    BY <1>2 DEF vars, lists, steps, windows, ghosts
  <2>2. UNCHANGED <<Filled, Past, Undoing, Redoing, InHand, Future>>
    BY <2>1, ListsUnchanged
  <2>3. TypeOK' /\ CountMatches'
    BY <2>1 DEF IInv, TypeOK, CountMatches
  <2>4. Once' /\ Fills' /\ ParentsStay' /\ RoomToClose' /\ Shows' /\ QuitIsLast'
    BY <2>1, <2>2 DEF IInv, Once, OneEach, Apart, Fills, ParentsStay, RoomToClose, ToClose,
                      Shows, QuitIsLast
  <2>5. OwnSize' /\ Passed'
    BY <2>1, <2>2 DEF IInv, OwnSize, Passed
  <2>6. LateParentsStay' /\ LateApart' /\ LateTasksAreSafe'
    BY <2>1, <2>2 DEF IInv, LateParentsStay, LateApart, LateTasksAreSafe
  <2> QED BY <2>3, <2>4, <2>5, <2>6 DEF IInv
<1> QED BY <1>1, <1>2

(***************************************************************************)
(* Every step of the functions of main/Undo.c is one of UndoHistory, or    *)
(* nothing that it sees.                                                   *)
(***************************************************************************)
LEMMA StepsAreHistory ==
  ASSUME IInv, [Next]_vars
  PROVE  [History!HistoryNext]_History!history
<1>0. /\ Past \subseteq Step /\ Future \subseteq Step /\ Filled \subseteq Step
  <2>1. 1 .. made \subseteq Step
    BY Basics DEF IInv, Step, TypeOK
  <2> QED BY <2>1 DEF IInv, Once, Apart
<1>1. ASSUME UNCHANGED <<undoList, redoList, task, filling, made, freed>>
      PROVE  UNCHANGED History!history
  BY <1>1, ListsUnchanged DEF History!history, Past, Future
<1>2. ASSUME NEW s \in Step, \/ History!Start(s) \/ History!StartAfresh(s) \/ History!Record(s)
                             \/ History!Lose(s) \/ History!BeginUndo(s) \/ History!EndUndo(s)
                             \/ History!BeginRedo(s) \/ History!EndRedo(s)
      PROVE  History!HistoryNext
  BY <1>2 DEF History!HistoryNext
<1>3. ASSUME NEW S \in SUBSET Step, History!Forget(S)
      PROVE  History!HistoryNext
  BY <1>3 DEF History!HistoryNext
<1>4. ASSUME NEW w \in Window, NEW multi \in BOOLEAN, BeginStep(w, multi)
      PROVE  History!HistoryNext
  BY <1>2, <1>4, BeginStepIs
<1>5. ASSUME NEW w \in Window, NEW e \in Event(w), AddEvent(w, e)
      PROVE  History!HistoryNext
  BY <1>0, <1>3, <1>5, AddEventIs
<1>6. ASSUME NEW w \in Window, AddEventFails(w)
      PROVE  History!HistoryNext
  BY <1>0, <1>2, <1>3, <1>6, AddEventFailsIs, Basics DEF AddEventFails
<1>7. ASSUME NEW w \in Window, EndStep(w)
      PROVE  History!HistoryNext
  BY <1>0, <1>2, <1>7, EndStepIs
<1>8. ASSUME NEW w \in Window, Undo(w)
      PROVE  History!HistoryNext \/ UNCHANGED History!history
  <2>1. CASE UNCHANGED <<undoList, task>>
    BY <1>1, <1>8, <2>1 DEF Undo, windows, steps
  <2> QED BY <1>2, <1>8, <2>1, UndoIs
<1>9. ASSUME NEW w \in Window, Redo(w)
      PROVE  History!HistoryNext
  BY <1>2, <1>9, RedoIs
<1>10. ASSUME NEW d \in Dir, NEW w \in Window, Open(w, d)
       PROVE  History!HistoryNext
  BY <1>0, <1>3, <1>10, OpenIs
<1>11. ASSUME NEW w \in Window, Close(w)
       PROVE  History!HistoryNext
  BY <1>2, <1>11, CloseIs
<1>12. ASSUME NEW w \in Window, UndoPass(w) \/ RedoPass(w)
       PROVE  History!HistoryNext
  BY <1>0, <1>3, <1>12, UndoPassIs, RedoPassIs
<1>13. ASSUME NEW w \in Window, Leave(w)
       PROVE  UNCHANGED History!history
  BY <1>1, <1>13 DEF Leave, lists, steps
<1>14. ASSUME NEW s \in Step, UndoTask(s) \/ RedoTask(s) \/ TaskFails(s)
       PROVE  History!HistoryNext
  BY <1>2, <1>14, UndoTaskIs, RedoTaskIs, TaskFailsIs
<1>15. ASSUME UndoCleanup
       PROVE  History!HistoryNext
  BY <1>0, <1>3, <1>15, CleanupIs
<1>16. CASE UNCHANGED vars
  BY <1>1, <1>16 DEF vars, lists, steps, windows
<1>17. ASSUME \/ \E w \in Window : CloseUnrecorded(w)
              \/ \E r \in LateTasks : EndTask(r)
       PROVE  UNCHANGED History!history
  BY <1>1, <1>17 DEF CloseUnrecorded, EndTask, lists, steps, windows
<1> QED BY <1>4, <1>5, <1>6, <1>7, <1>8, <1>9, <1>10, <1>11, <1>12, <1>13, <1>14, <1>15, <1>16,
           <1>17
        DEF Next

THEOREM Invariant == Spec => []IInv
<1>1. Init => IInv
  BY Starts
<1>2. IInv /\ [Next]_vars => IInv'
  BY Steps
<1> QED BY <1>1, <1>2, PTL DEF Spec

(***************************************************************************)
(* Types, with UndoCount in the range of its ULONG.                        *)
(***************************************************************************)
THEOREM TypeCorrect == Spec => []TypeOK
<1>1. IInv => TypeOK
  BY DEF IInv
<1> QED BY <1>1, Invariant, PTL

(***************************************************************************)
(* Until Undo() finds an empty list, UndoCount is the number of entries in *)
(* globalUndoList, in whatever order the seven functions that keep it run. *)
(***************************************************************************)
THEOREM CountCorrect == Spec => []CountMatches
<1>1. IInv => CountMatches
  BY DEF IInv
<1> QED BY <1>1, Invariant, PTL

(***************************************************************************)
(* An entry that refers to a window that is gone was in the hand of        *)
(* UndoTask or RedoTask while UndoWindowSignalClosing went through the     *)
(* lists.                                                                  *)
(***************************************************************************)
THEOREM OrphansEscaped == Spec => []OnlyHandsEscape
<1>1. IInv => OnlyHandsEscape
  BY DEF IInv, Passed, OnlyHandsEscape, Past, Future
<1> QED BY <1>1, Invariant, PTL

(***************************************************************************)
(* When UndoCleanup has freed the lists, no process and no window has a    *)
(* step that it could append.                                              *)
(***************************************************************************)
THEOREM CleanupIsLast == Spec => []NothingAfterCleanup
<1>1. IInv => NothingAfterCleanup
  BY QuitHolds DEF NothingAfterCleanup, IInv, QuitIsLast
<1> QED BY <1>1, Invariant, PTL

(***************************************************************************)
(* UndoTask and RedoTask write to a step when they have put it on its list *)
(* and released the semaphore: it is still there, but for a command that   *)
(* was quicker, and for a step about a window that opens or closes.        *)
(***************************************************************************)
THEOREM LateIsSafe == Spec => []LateTasksAreSafe
<1>1. IInv => LateTasksAreSafe
  BY DEF IInv
<1> QED BY <1>1, Invariant, PTL

(***************************************************************************)
(* The lists implement UndoHistory: a step is at one place at a time and   *)
(* changes sides only by being undone or redone, and once freed it is on   *)
(* no list and in nobody's hand again.  That a late process may still      *)
(* write to it is left to LateIsSafe.                                      *)
(***************************************************************************)
THEOREM ImplementsHistory == Spec => StepsLiveOnce
<1>1. Init => History!HistoryInit
  BY Starts
<1>2. IInv /\ [Next]_vars => [History!HistoryNext]_History!history
  BY StepsAreHistory
<1> QED BY <1>1, <1>2, Invariant, PTL DEF Spec, StepsLiveOnce, History!HistorySpec
-----------------------------------------------------------------------------
(***************************************************************************)
(* As long as one thing is done at a time: at most one step is being       *)
(* filled or in hand, the undo list goes up to it, the redo list goes down *)
(* to it, and adding an event has emptied the redo list.                   *)
(***************************************************************************)
InTime ==
  /\ \A r, s \in InHand \cup Filled : r = s
  /\ Sorted(undoList, TRUE) /\ Sorted(redoList, FALSE)
  /\ \A u \in Past, s \in InHand \cup Future \cup Filled : u < s
  /\ \A h \in InHand, f \in Future : h < f
  /\ \A s \in Filled : event[s] # NoEvent => redoList = << >>

Limited ==
  ~emptyUndo => Len(undoList) + Cardinality(InHand) + Len(redoList) <= MaxUndoSteps

OInv == ~overlapped => InTime /\ Limited

LEMMA OrderBasics ==
  ASSUME IInv
  PROVE  /\ Past \subseteq Step /\ Future \subseteq Step /\ Filled \subseteq Step
         /\ InHand \subseteq Step /\ Step \subseteq Int
         /\ undoList \in Seq(Step) /\ redoList \in Seq(Step)
         /\ Len(undoList) \in Nat /\ Len(redoList) \in Nat
         /\ \A x \in Filled \cup Past \cup InHand \cup Future : x < made + 1
<1>1. 1 .. made \subseteq Step /\ Step \subseteq Int /\ \A x \in 1 .. made : x < made + 1
  BY Basics DEF IInv, Step, TypeOK
<1> QED BY <1>1, Basics, LenProperties DEF IInv, Once, Apart

LEMMA SortedEmpty == \A up : Sorted(<< >>, up)
BY EmptySeq DEF Sorted

LEMMA TimeKept ==
  ASSUME IInv, OInv, Next, ~overlapped'
  PROVE  InTime'
<1>0. /\ Past \subseteq Step /\ Future \subseteq Step /\ Filled \subseteq Step
      /\ InHand \subseteq Step /\ Step \subseteq Int
      /\ undoList \in Seq(Step) /\ redoList \in Seq(Step)
      /\ \A x \in Filled \cup Past \cup InHand \cup Future : x < made + 1
  BY OrderBasics
<1>1. ~overlapped
  BY DEF Next, BeginStep, AddEvent, AddEventFails, EndStep, Undo, Redo, Open, Close,
         CloseUnrecorded, UndoPass, RedoPass, Leave, UndoTask, RedoTask, TaskFails,
         EndTask, UndoCleanup, ghosts
<1>2. InTime
  BY <1>1 DEF OInv
<1>3. ASSUME Past' \subseteq Past, Future' \subseteq Future, InHand' \subseteq InHand,
             Filled' \subseteq Filled, Sorted(undoList', TRUE), Sorted(redoList', FALSE),
             redoList' = << >> \/ (event' = event /\ (redoList = << >> => redoList' = << >>))
      PROVE  InTime'
  BY <1>2, <1>3 DEF InTime
<1>4. ASSUME NEW w \in Window, NEW multi \in BOOLEAN, BeginStep(w, multi)
      PROVE  InTime'
  <2> DEFINE n == made + 1
  <2>1. /\ Filled' = Filled \cup {n} /\ UNCHANGED <<Past, InHand, Future, undoList, redoList, event>>
        /\ n \in Step
    BY <1>4, BeginStepIs DEF BeginStep, lists
  <2>2. InHand = {} /\ Filled = {}
    BY <1>4 DEF BeginStep, Busy
  <2>3. event[n] = NoEvent
    <3>1. n > made
      BY Basics
    <3> QED BY <2>1, <3>1 DEF IInv, OwnSize
  <2>4. \A x \in Past : x < n
    BY <1>0
  <2> HIDE DEF n
  <2> QED BY <1>2, <2>1, <2>2, <2>3, <2>4 DEF InTime
<1>5. ASSUME NEW w \in Window, NEW e \in Event(w), AddEvent(w, e)
      PROVE  InTime'
  <2>1. Sorted(undoList', TRUE) /\ Sorted(redoList', FALSE)
    BY <1>2, <1>5, AddEventIs, SortedEmpty DEF AddEvent, InTime
  <2> QED BY <1>3, <1>5, <2>1, AddEventIs
<1>6. ASSUME NEW w \in Window, AddEventFails(w)
      PROVE  InTime'
  <2>1. Sorted(undoList', TRUE) /\ Sorted(redoList', FALSE)
    BY <1>2, <1>6, AddEventFailsIs, SortedEmpty DEF AddEventFails, InTime
  <2> QED BY <1>3, <1>6, <2>1, AddEventFailsIs
<1>7. ASSUME NEW w \in Window, EndStep(w)
      PROVE  InTime'
  <2> DEFINE s == filling[w].step
             longer == Append(undoList, s)
  <2>1. /\ s \in Filled /\ Filled' = Filled \ {s} /\ s \in Step
        /\ UNCHANGED <<InHand, Future, redoList, event>>
    BY <1>0, <1>7, EndStepIs DEF EndStep
  <2>2. CASE event[s] = NoEvent
    <3>1. undoList' = undoList /\ Past' = Past
      BY <1>7, <2>2, ListsUnchanged DEF EndStep
    <3> HIDE DEF s
    <3> QED BY <1>2, <1>3, <2>1, <3>1 DEF InTime
  <2>3. CASE event[s] # NoEvent
    <3>1. undoList' = longer \/ undoList' = Tail(longer)
      BY <1>7, <2>3 DEF EndStep, AppendStep
    <3> HIDE DEF s
    <3>2. redoList = << >> /\ Future = {} /\ InHand \subseteq {s} /\ Filled = {s}
          /\ \A u \in Past : Before(u, s, TRUE)
      BY <1>2, <2>1, <2>3, EmptySeq DEF InTime, Future, Range, Before
    <3>3. InHand = {}
      BY <2>1, <3>2 DEF IInv, Once, Apart
    <3>4. longer \in Seq(Step) /\ longer # << >> /\ Sorted(longer, TRUE)
      BY <1>0, <1>2, <2>1, <3>2, AppendFacts, SortedAppend DEF InTime, Past
    <3> HIDE DEF longer
    <3>5. Sorted(undoList', TRUE)
      BY <3>1, <3>4, SortedTail
    <3>6. Filled' = {} /\ InHand' = {} /\ Future' = {} /\ Sorted(redoList', FALSE)
      BY <2>1, <3>2, <3>3, SortedEmpty
    <3> QED BY <3>5, <3>6 DEF InTime
  <2> QED BY <2>2, <2>3
<1>8. ASSUME NEW w \in Window, Undo(w)
      PROVE  InTime'
  <2>1. UNCHANGED <<Filled, Future, redoList, event>>
    BY <1>8, UndoIs DEF Undo, steps
  <2>2. CASE undoList = << >>
    <3>1. UNCHANGED <<undoList, task>>
      BY <1>8, <2>2 DEF Undo
    <3> QED BY <1>2, <1>3, <2>1, <3>1, ListsUnchanged DEF InTime
  <2>3. CASE undoList # << >>
    <3> DEFINE s == undoList[Len(undoList)]
    <3>1. undoList' = SubSeq(undoList, 1, Len(undoList) - 1)
          /\ StartTask(w, s, "undo") /\ InHand = {} /\ Filled = {}
      BY <1>8, <2>3 DEF Undo, Front, Last, Busy
    <3>2. /\ Sorted(undoList', TRUE) /\ \A u \in Past' : Before(u, s, TRUE)
          /\ s \in Past /\ s \in Step /\ Past' = Past \ {s}
      BY <1>0, <1>2, <2>3, <3>1, FrontFacts, SortedFront DEF InTime, Past, IInv, Once
    <3> HIDE DEF s
    <3>3. InHand' \subseteq {s}
      BY <3>1, <3>2, ListsUnchanged, TaskBegins DEF StartTask
    <3> QED BY <1>2, <2>1, <3>1, <3>2, <3>3 DEF InTime, Before
  <2> QED BY <2>2, <2>3
<1>9. ASSUME NEW w \in Window, Redo(w)
      PROVE  InTime'
  <2>1. UNCHANGED <<Filled, Past, undoList, event>>
    BY <1>9, RedoIs DEF Redo, steps
  <2> DEFINE s == redoList[Len(redoList)]
  <2>2. redoList' = SubSeq(redoList, 1, Len(redoList) - 1) /\ redoList # << >>
        /\ StartTask(w, s, "redo") /\ InHand = {} /\ Filled = {}
    BY <1>9 DEF Redo, Front, Last, Busy
  <2>3. /\ Sorted(redoList', FALSE) /\ \A u \in Future' : Before(u, s, FALSE)
        /\ s \in Future /\ s \in Step /\ Future' = Future \ {s}
    BY <1>0, <1>2, <2>2, FrontFacts, SortedFront DEF InTime, Future, IInv, Once
  <2> HIDE DEF s
  <2>4. InHand' \subseteq {s}
    BY <2>2, <2>3, ListsUnchanged, TaskBegins DEF StartTask
  <2>5. \A u \in Future' : s < u
    BY <1>0, <2>3 DEF Before
  <2> QED BY <1>2, <2>1, <2>2, <2>3, <2>4, <2>5 DEF InTime
<1>10. ASSUME NEW s \in Step, UndoTask(s)
       PROVE  InTime'
  <2>1. /\ s \in InHand /\ InHand' = InHand \ {s}
        /\ UNCHANGED <<Filled, Past, undoList, event>> /\ Future' = Future \cup {s}
        /\ redoList' = Append(redoList, s)
    BY <1>10, UndoTaskIs DEF UndoTask, steps
  <2>2. InHand' = {} /\ Filled = {}
    <3>1. Filled \cap InHand = {}
      BY DEF IInv, Once, Apart
    <3> QED BY <1>2, <2>1, <3>1 DEF InTime
  <2>3. \A r \in Range(redoList) : Before(r, s, FALSE)
    BY <1>0, <1>2, <2>1 DEF InTime, Future, Before
  <2>4. Sorted(redoList', FALSE)
    BY <1>0, <1>2, <2>1, <2>3, SortedAppend DEF InTime
  <2> QED BY <1>2, <2>1, <2>2, <2>4 DEF InTime
<1>11. ASSUME NEW s \in Step, RedoTask(s)
       PROVE  InTime'
  <2>1. /\ s \in InHand /\ InHand' = InHand \ {s}
        /\ UNCHANGED <<Filled, Future, redoList, event>> /\ Past' = Past \cup {s}
        /\ undoList' = Append(undoList, s)
    BY <1>11, RedoTaskIs DEF RedoTask, steps
  <2>2. InHand' = {} /\ Filled = {}
    <3>1. Filled \cap InHand = {}
      BY DEF IInv, Once, Apart
    <3> QED BY <1>2, <2>1, <3>1 DEF InTime
  <2>3. \A r \in Range(undoList) : Before(r, s, TRUE)
    BY <1>2, <2>1 DEF InTime, Past, Before
  <2>4. Sorted(undoList', TRUE)
    BY <1>0, <1>2, <2>1, <2>3, SortedAppend DEF InTime
  <2> QED BY <1>2, <2>1, <2>2, <2>4 DEF InTime
<1>12. ASSUME NEW s \in Step, TaskFails(s)
       PROVE  InTime'
  <2>1. UNCHANGED <<undoList, redoList, event>>
    BY <1>12 DEF TaskFails, lists
  <2> QED BY <1>2, <1>3, <1>12, <2>1, TaskFailsIs DEF InTime
<1>13. ASSUME NEW Found, undoList' = Without(undoList, Found), Past' \subseteq Past,
              UNCHANGED <<Filled, InHand, Future, redoList, event>>
       PROVE  InTime'
  <2>1. Sorted(undoList', TRUE)
    BY <1>0, <1>2, <1>13, SortedWithout DEF InTime
  <2> QED BY <1>2, <1>3, <1>13, <2>1 DEF InTime
<1>14. ASSUME NEW d \in Dir, NEW w \in Window, Open(w, d)
       PROVE  InTime'
  <2>1. UNCHANGED <<Filled, InHand, Future, redoList, event>> /\ Past' \subseteq Past
    BY <1>14, OpenIs DEF Open
  <2>2. undoList' = Without(undoList, {s \in Range(undoList) : Closes(s, d)})
    BY <1>14 DEF Open, UndoWindowSignalOpening
  <2> QED BY <1>13, <2>1, <2>2
<1>15. ASSUME NEW w \in Window, Close(w)
       PROVE  InTime'
  <2> DEFINE n == made + 1
  <2>1. /\ Filled' \subseteq Filled \cup {n} /\ UNCHANGED <<Past, InHand, undoList>>
        /\ redoList' = << >> /\ Future' = {} /\ n \in Step
    BY <1>15, CloseIs DEF Close
  <2>2. InHand = {} /\ Filled = {}
    BY <1>15 DEF Close, Busy
  <2>3. \A x \in Past : x < n
    BY <1>0
  <2> HIDE DEF n
  <2> QED BY <1>2, <2>1, <2>2, <2>3, SortedEmpty DEF InTime
<1>16. ASSUME NEW w \in Window, UndoPass(w)
       PROVE  InTime'
  <2>1. UNCHANGED <<Filled, InHand, Future, redoList, event>> /\ Past' \subseteq Past
    BY <1>16, UndoPassIs DEF UndoPass
  <2>2. undoList' = Without(undoList, {s \in Range(undoList) : Sizes(s, w)})
    BY <1>16 DEF UndoPass
  <2> QED BY <1>13, <2>1, <2>2
<1>17. ASSUME NEW w \in Window, RedoPass(w)
       PROVE  InTime'
  <2> DEFINE Found == {s \in Range(redoList) : Sizes(s, w)}
  <2>1. UNCHANGED <<Filled, InHand, Past, undoList, event>> /\ Future' \subseteq Future
    BY <1>17, RedoPassIs DEF RedoPass
  <2>2. redoList' = Without(redoList, Found)
    BY <1>17 DEF RedoPass
  <2>3. Sorted(redoList', FALSE)
    BY <1>0, <1>2, <2>2, SortedWithout DEF InTime
  <2>4. redoList = << >> => redoList' = << >>
    <3>1. Range(redoList') = Range(redoList) \ Found /\ redoList' \in Seq(Step)
      BY <1>0, <2>2, WithoutFacts
    <3> HIDE DEF Found
    <3> SUFFICES ASSUME redoList = << >>, redoList' # << >> PROVE FALSE
      OBVIOUS
    <3>2. Range(redoList) = {}
      BY EmptySeq DEF Range
    <3>3. Last(redoList') \in Range(redoList')
      BY <3>1, FrontFacts DEF Last
    <3> QED BY <3>1, <3>2, <3>3
  <2> QED BY <1>2, <1>3, <2>1, <2>3, <2>4 DEF InTime
<1>18. ASSUME NEW w \in Window, Leave(w)
       PROVE  InTime'
  <2>1. UNCHANGED <<undoList, redoList, filling, task, event>>
    BY <1>18 DEF Leave, lists, steps
  <2>2. UNCHANGED <<Filled, Past, InHand, Future>>
    BY <2>1, ListsUnchanged
  <2> QED BY <1>2, <1>3, <2>1, <2>2 DEF InTime
<1>19. ASSUME UndoCleanup
       PROVE  InTime'
  BY <1>3, <1>19, CleanupIs, SortedEmpty
<1>20. ASSUME \/ \E w \in Window : CloseUnrecorded(w)
              \/ \E r \in LateTasks : EndTask(r)
       PROVE  InTime'
  <2>1. UNCHANGED <<undoList, redoList, filling, task, event>>
    BY <1>20 DEF CloseUnrecorded, EndTask, lists, steps, windows
  <2>2. UNCHANGED <<Filled, Past, InHand, Future>>
    BY <2>1, ListsUnchanged
  <2> QED BY <1>2, <1>3, <2>1, <2>2 DEF InTime
<1> QED BY <1>4, <1>5, <1>6, <1>7, <1>8, <1>9, <1>10, <1>11, <1>12, <1>14, <1>15, <1>16,
           <1>17, <1>18, <1>19, <1>20 DEF Next

(***************************************************************************)
(* What UndoEndStep leaves on the lists is all there can be: Undo and Redo *)
(* only move it.                                                           *)
(***************************************************************************)
LEMMA HandSize ==
  ASSUME IInv, InTime
  PROVE  /\ InHand = {} => Cardinality(InHand) = 0
         /\ \A s \in InHand : InHand = {s} /\ Cardinality(InHand) = 1
         /\ Cardinality(InHand) \in Nat
<1>1. Cardinality({}) = 0 /\ \A s : Cardinality({s}) = 1
  BY FS_EmptySet, FS_Singleton
<1>2. InHand = {} \/ \E s \in InHand : InHand = {s}
  BY DEF InTime
<1>3. \A s \in InHand : InHand = {s}
  BY DEF InTime
<1>4. CASE InHand = {}
  <2>1. Cardinality(InHand) = 0
    BY <1>1, <1>4
  <2> QED BY <1>4, <2>1
<1>5. CASE \E s \in InHand : InHand = {s}
  <2>1. Cardinality(InHand) = 1
    BY <1>1, <1>5
  <2> QED BY <1>3, <1>5, <2>1
<1> QED BY <1>2, <1>4, <1>5

LEMMA LimitKept ==
  ASSUME IInv, OInv, Next, ~overlapped'
  PROVE  Limited'
<1>0. /\ undoList \in Seq(Step) /\ redoList \in Seq(Step)
      /\ Len(undoList) \in Nat /\ Len(redoList) \in Nat /\ MaxUndoSteps \in Nat
      /\ Len(<< >>) = 0
  BY OrderBasics, EmptySeq, NumberAssumption
<1>1. ~overlapped
  BY DEF Next, BeginStep, AddEvent, AddEventFails, EndStep, Undo, Redo, Open, Close,
         CloseUnrecorded, UndoPass, RedoPass, Leave, UndoTask, RedoTask, TaskFails,
         EndTask, UndoCleanup, ghosts
<1>2. InTime /\ Limited
  BY <1>1 DEF OInv
<1> DEFINE u  == Len(undoList)   h  == Cardinality(InHand)   r  == Len(redoList)
           u1 == Len(undoList')  h1 == Cardinality(InHand')  r1 == Len(redoList')
<1>s. SUFFICES ASSUME ~emptyUndo'
               PROVE  u1 + h1 + r1 <= MaxUndoSteps
  BY DEF Limited
<1>3. ~emptyUndo
  BY <1>s DEF Next, BeginStep, AddEvent, AddEventFails, EndStep, Undo, Redo, Open, Close,
         CloseUnrecorded, UndoPass, RedoPass, Leave, UndoTask, RedoTask, TaskFails,
         EndTask, UndoCleanup, ghosts
<1>4. /\ u + h + r <= MaxUndoSteps /\ u \in Nat /\ h \in Nat /\ r \in Nat
      /\ \A s \in InHand : InHand = {s} /\ h = 1
      /\ InHand = {} => h = 0
      /\ InHand' = {} => h1 = 0
      /\ \A s : InHand' = {s} => h1 = 1
  BY <1>0, <1>2, <1>3, HandSize, FS_EmptySet, FS_Singleton DEF Limited
<1>5. ASSUME u1 \in Nat, u1 <= u, r1 \in Nat, r1 <= r, h1 \in Nat, h1 <= h
      PROVE  u1 + h1 + r1 <= MaxUndoSteps
  <2> HIDE DEF u, h, r, u1, h1, r1
  <2> QED BY <1>0, <1>4, <1>5
<1>6. ASSUME UNCHANGED undoList \/ (u1 \in Nat /\ u1 <= u),
             UNCHANGED redoList \/ redoList' = << >> \/ (r1 \in Nat /\ r1 <= r),
             UNCHANGED InHand \/ InHand' = {}
      PROVE  u1 + h1 + r1 <= MaxUndoSteps
  <2>1. u1 \in Nat /\ u1 <= u
    BY <1>0, <1>6
  <2>2. r1 \in Nat /\ r1 <= r
    BY <1>0, <1>6
  <2>3. h1 \in Nat /\ h1 <= h
    BY <1>4, <1>6
  <2> QED BY <1>5, <2>1, <2>2, <2>3
<1>7. ASSUME NEW w \in Window, NEW multi \in BOOLEAN, BeginStep(w, multi)
      PROVE  u1 + h1 + r1 <= MaxUndoSteps
  BY <1>6, <1>7, BeginStepIs DEF BeginStep, lists
<1>8. ASSUME NEW w \in Window, NEW e \in Event(w), AddEvent(w, e)
      PROVE  u1 + h1 + r1 <= MaxUndoSteps
  BY <1>6, <1>8, AddEventIs DEF AddEvent
<1>9. ASSUME NEW w \in Window, AddEventFails(w)
      PROVE  u1 + h1 + r1 <= MaxUndoSteps
  BY <1>6, <1>9, AddEventFailsIs DEF AddEventFails
<1>10. ASSUME NEW w \in Window, EndStep(w)
       PROVE  u1 + h1 + r1 <= MaxUndoSteps
  <2> DEFINE s == filling[w].step
             longer == Append(undoList, s)
  <2>1. /\ s \in Filled /\ s \in Step /\ UNCHANGED <<InHand, redoList>>
        /\ undoList' \in Seq(Step)
    BY <1>10, EndStepIs, OrderBasics DEF EndStep
  <2>2. CASE undoList' = undoList
    BY <1>6, <2>1, <2>2
  <2>3. ASSUME event[s] # NoEvent
        PROVE  h1 = 0 /\ r1 = 0 /\ longer \in Seq(Step) /\ longer # << >>
               /\ Len(longer) = u + 1
    <3>1. longer \in Seq(Step) /\ longer # << >> /\ Len(longer) = u + 1
      <4> HIDE DEF s
      <4> QED BY <1>0, <2>1, AppendFacts
    <3> HIDE DEF s
    <3>2. redoList = << >> /\ InHand \subseteq {s}
      BY <1>2, <2>1, <2>3 DEF InTime
    <3>3. InHand = {}
      BY <2>1, <3>2 DEF IInv, Once, Apart
    <3>4. h1 = 0 /\ r1 = 0
      BY <1>0, <1>4, <2>1, <3>2, <3>3
    <3> QED BY <3>1, <3>4
  <2>4. CASE undoList' = Tail(longer) /\ event[s] # NoEvent
    <3> HIDE DEF longer
    <3>1. Len(Tail(longer)) = Len(longer) - 1
      BY <2>3, <2>4, TailFacts
    <3>2. u1 = u /\ r1 = 0 /\ h1 = 0
      <4> HIDE DEF u
      <4> QED BY <1>4, <2>3, <2>4, <3>1
    <3> HIDE DEF u, h, r, u1, h1, r1
    <3> QED BY <1>0, <1>4, <3>2
  <2>5. CASE undoList' = longer /\ ~(Plus(1) > MaxUndoSteps) /\ event[s] # NoEvent
    <3>1. u + 1 < ULongs
      <4>1. Len(undoList') \in 0 .. ULongs - 1
        BY TypeKept, OnceKept, Bounded DEF TypeOK, Once, Apart, Past
      <4> HIDE DEF longer, u
      <4> QED BY <1>4, <2>3, <2>5, <4>1, Basics
    <3>2. undoCount = u /\ u \in 0 .. ULongs - 1
      BY <1>3, <1>4, <3>1 DEF IInv, TypeOK, CountMatches
    <3>3. Plus(1) = u + 1
      <4> HIDE DEF u
      <4> QED BY <3>1, <3>2, Wraps DEF Plus
    <3>4. u1 = u + 1 /\ h1 = 0 /\ r1 = 0
      BY <2>3, <2>5
    <3> HIDE DEF u, h, r, u1, h1, r1
    <3> QED BY <1>0, <1>4, <2>5, <3>3, <3>4
  <2> QED BY <1>10, <2>2, <2>4, <2>5 DEF EndStep, AppendStep
<1>11. ASSUME NEW w \in Window, Undo(w)
       PROVE  u1 + h1 + r1 <= MaxUndoSteps
  <2>1. UNCHANGED redoList /\ undoList # << >> /\ InHand = {}
    BY <1>3, <1>s, <1>11 DEF Undo, Busy
  <2> DEFINE s == undoList[Len(undoList)]
  <2>2. /\ undoList' = SubSeq(undoList, 1, Len(undoList) - 1) /\ StartTask(w, s, "undo")
    BY <1>11, <2>1 DEF Undo, Front, Last
  <2>3. u1 = u - 1 /\ u > 0 /\ s \in Step
    BY <1>0, <2>1, <2>2, FrontFacts
  <2> HIDE DEF s
  <2>4. InHand' = {} \/ InHand' = {s}
    BY <2>1, <2>2, <2>3, ListsUnchanged, TaskBegins DEF StartTask
  <2>5. (h1 = 0 \/ h1 = 1) /\ h = 0 /\ r1 = r
    BY <1>4, <2>1, <2>4
  <2> HIDE DEF u, h, r, u1, h1, r1
  <2> QED BY <1>0, <1>4, <2>3, <2>5
<1>12. ASSUME NEW w \in Window, Redo(w)
       PROVE  u1 + h1 + r1 <= MaxUndoSteps
  <2> DEFINE s == redoList[Len(redoList)]
  <2>1. /\ UNCHANGED undoList /\ redoList # << >> /\ InHand = {}
        /\ redoList' = SubSeq(redoList, 1, Len(redoList) - 1) /\ StartTask(w, s, "redo")
    BY <1>12 DEF Redo, Busy, Front, Last
  <2>2. r1 = r - 1 /\ r > 0 /\ s \in Step
    BY <1>0, <2>1, FrontFacts
  <2> HIDE DEF s
  <2>3. InHand' = {} \/ InHand' = {s}
    BY <2>1, <2>2, ListsUnchanged, TaskBegins DEF StartTask
  <2>4. (h1 = 0 \/ h1 = 1) /\ h = 0 /\ u1 = u
    BY <1>4, <2>1, <2>3
  <2> HIDE DEF u, h, r, u1, h1, r1
  <2> QED BY <1>0, <1>4, <2>2, <2>4
<1>13. ASSUME NEW s \in Step, UndoTask(s)
       PROVE  u1 + h1 + r1 <= MaxUndoSteps
  <2>1. s \in InHand /\ InHand' = InHand \ {s} /\ UNCHANGED undoList
        /\ redoList' = Append(redoList, s)
    BY <1>13, UndoTaskIs DEF UndoTask
  <2>2. InHand' = {} /\ h = 1
    BY <1>4, <2>1
  <2>3. u1 = u /\ r1 = r + 1 /\ h1 = 0
    BY <1>0, <1>4, <2>1, <2>2, AppendFacts
  <2> HIDE DEF u, h, r, u1, h1, r1
  <2> QED BY <1>0, <1>4, <2>2, <2>3
<1>14. ASSUME NEW s \in Step, RedoTask(s)
       PROVE  u1 + h1 + r1 <= MaxUndoSteps
  <2>1. s \in InHand /\ InHand' = InHand \ {s} /\ UNCHANGED redoList
        /\ undoList' = Append(undoList, s)
    BY <1>14, RedoTaskIs DEF RedoTask
  <2>2. InHand' = {} /\ h = 1
    BY <1>4, <2>1
  <2>3. r1 = r /\ u1 = u + 1 /\ h1 = 0
    BY <1>0, <1>4, <2>1, <2>2, AppendFacts
  <2> HIDE DEF u, h, r, u1, h1, r1
  <2> QED BY <1>0, <1>4, <2>2, <2>3
<1>15. ASSUME NEW s \in Step, TaskFails(s)
       PROVE  u1 + h1 + r1 <= MaxUndoSteps
  <2>1. s \in InHand /\ InHand' = InHand \ {s} /\ UNCHANGED <<undoList, redoList>>
    BY <1>15, TaskFailsIs DEF TaskFails, lists
  <2>2. InHand' = {}
    BY <1>4, <2>1
  <2> QED BY <1>6, <2>1, <2>2
<1>16. ASSUME NEW q \in Seq(Step), NEW Found, NEW q1, q1 = Without(q, Found), IsInjective(q),
              Found \subseteq Range(q)
       PROVE  Len(q1) \in Nat /\ Len(q1) <= Len(q)
  <2> DEFINE m == Len(q)  m1 == Len(q1)  c == Cardinality(Found)
  <2>1. m1 = m - c /\ c \in Nat /\ c <= m /\ m \in Nat
    BY <1>16, LoopTakes, LenProperties
  <2> HIDE DEF m, m1, c
  <2>2. m1 \in Nat /\ m1 <= m
    BY <2>1
  <2> QED BY <2>2 DEF m, m1
<1>17. ASSUME NEW d \in Dir, NEW w \in Window, Open(w, d)
       PROVE  u1 + h1 + r1 <= MaxUndoSteps
  <2>1. UNCHANGED <<InHand, redoList>>
    BY <1>17, OpenIs DEF Open
  <2>2. u1 \in Nat /\ u1 <= u
    <3> DEFINE Found == {s \in Range(undoList) : Closes(s, d)}
    <3>1. undoList' = Without(undoList, Found) /\ IsInjective(undoList)
          /\ Found \subseteq Range(undoList)
      BY <1>17 DEF Open, UndoWindowSignalOpening, IInv, Once
    <3> HIDE DEF Found
    <3> QED BY <1>0, <1>16, <3>1
  <2> QED BY <1>6, <2>1, <2>2
<1>18. ASSUME NEW w \in Window, UndoPass(w)
       PROVE  u1 + h1 + r1 <= MaxUndoSteps
  <2>1. UNCHANGED <<InHand, redoList>>
    BY <1>18, UndoPassIs DEF UndoPass
  <2>2. u1 \in Nat /\ u1 <= u
    <3> DEFINE Found == {s \in Range(undoList) : Sizes(s, w)}
    <3>1. undoList' = Without(undoList, Found) /\ IsInjective(undoList)
          /\ Found \subseteq Range(undoList)
      BY <1>18 DEF UndoPass, IInv, Once
    <3> HIDE DEF Found
    <3> QED BY <1>0, <1>16, <3>1
  <2> QED BY <1>6, <2>1, <2>2
<1>19. ASSUME NEW w \in Window, RedoPass(w)
       PROVE  u1 + h1 + r1 <= MaxUndoSteps
  <2>1. UNCHANGED <<InHand, undoList>>
    BY <1>19, RedoPassIs DEF RedoPass
  <2>2. r1 \in Nat /\ r1 <= r
    <3> DEFINE Found == {s \in Range(redoList) : Sizes(s, w)}
    <3>1. redoList' = Without(redoList, Found) /\ IsInjective(redoList)
          /\ Found \subseteq Range(redoList)
      BY <1>19 DEF RedoPass, IInv, Once
    <3> HIDE DEF Found
    <3> QED BY <1>0, <1>16, <3>1
  <2> QED BY <1>6, <2>1, <2>2
<1>20. ASSUME NEW w \in Window, Close(w)
       PROVE  u1 + h1 + r1 <= MaxUndoSteps
  BY <1>6, <1>20, CloseIs DEF Close
<1>21. ASSUME NEW w \in Window, Leave(w)
       PROVE  u1 + h1 + r1 <= MaxUndoSteps
  BY <1>6, <1>21, ListsUnchanged DEF Leave, lists
<1>22. ASSUME UndoCleanup
       PROVE  u1 + h1 + r1 <= MaxUndoSteps
  <2>1. u1 = 0 /\ redoList' = << >> /\ UNCHANGED InHand
    BY <1>0, <1>22, CleanupIs
  <2>2. u1 \in Nat /\ u1 <= u
    BY <1>4, <2>1
  <2> QED BY <1>6, <2>1, <2>2
<1>23. ASSUME \/ \E w \in Window : CloseUnrecorded(w)
              \/ \E l \in LateTasks : EndTask(l)
       PROVE  u1 + h1 + r1 <= MaxUndoSteps
  <2>1. UNCHANGED <<undoList, redoList, task>>
    BY <1>23 DEF CloseUnrecorded, EndTask, lists
  <2> QED BY <1>6, <2>1, ListsUnchanged
<1> QED BY <1>7, <1>8, <1>9, <1>10, <1>11, <1>12, <1>13, <1>14, <1>15, <1>17, <1>18, <1>19,
           <1>20, <1>21, <1>22, <1>23 DEF Next

(***************************************************************************)
(* The sequence of InOrder.                                                *)
(***************************************************************************)
LEMMA HandAsSequence ==
  ASSUME IInv, InTime
  PROVE  LET hand == SetToSeq(InHand)
         IN  /\ hand \in Seq(Step) /\ Sorted(hand, TRUE) /\ Range(hand) = InHand
             /\ Len(hand) = Cardinality(InHand)
<1>1. CASE InHand = {}
  <2>1. Cardinality(InHand) = 0 /\ InHand = {}
    BY <1>1, HandSize
  <2>2. << >> \in Seq(Step) /\ Len(<< >>) = 0 /\ DOMAIN << >> = 1 .. 0
    BY EmptySeq, LenProperties
  <2> DEFINE hand == SetToSeq(InHand)  none == << >>
  <2>3. none \in [1 .. 0 -> {}] /\ IsInjective(none)
    BY <2>2 DEF IsInjective
  <2>4. hand = CHOOSE f \in [1 .. 0 -> {}] : IsInjective(f)
    BY <2>1 DEF SetToSeq
  <2> HIDE DEF hand, none
  <2>5. hand \in [1 .. 0 -> {}]
    BY <2>3, <2>4
  <2>6. hand = << >>
    <3>1. hand \in Seq(Step) /\ DOMAIN hand = 1 .. 0
      BY <2>5, SeqDef
    <3>2. Len(hand) = 0
      BY <3>1, LenProperties
    <3> QED BY <3>1, <3>2, EmptySeq
  <2>7. Range(hand) = {}
    BY <2>5 DEF Range
  <2> QED BY <2>1, <2>2, <2>6, <2>7, SortedEmpty DEF hand
<1>2. CASE InHand # {}
  <2>1. PICK s \in InHand : TRUE
    BY <1>2
  <2>2. InHand = {s} /\ Cardinality(InHand) = 1 /\ s \in Step
    BY <2>1, HandSize, OrderBasics
  <2> DEFINE hand == SetToSeq(InHand)
  <2>3. hand \in [1 .. 1 -> {s}]
    <3> DEFINE f == [i \in 1 .. 1 |-> s]
    <3>1. f \in [1 .. 1 -> {s}] /\ IsInjective(f)
      BY DEF IsInjective
    <3> HIDE DEF f
    <3>2. hand = CHOOSE g \in [1 .. 1 -> {s}] : IsInjective(g)
      BY <2>2 DEF SetToSeq
    <3> HIDE DEF hand
    <3> QED BY <3>1, <3>2
  <2> HIDE DEF hand
  <2>4. hand \in Seq(Step) /\ Len(hand) = 1 /\ hand[1] = s /\ DOMAIN hand = {1}
    <3>1. hand \in [1 .. 1 -> Step] /\ hand[1] = s /\ DOMAIN hand = 1 .. 1
      BY <2>2, <2>3
    <3>2. hand \in Seq(Step)
      BY <3>1, SeqDef
    <3>3. Len(hand) = 1
      BY <3>1, <3>2, LenProperties
    <3> QED BY <3>1, <3>2, <3>3
  <2>5. Range(hand) = {s} /\ Sorted(hand, TRUE)
    BY <2>4 DEF Range, Sorted
  <2> QED BY <2>2, <2>4, <2>5 DEF hand
<1> QED BY <1>1, <1>2

LEMMA Reversed ==
  ASSUME NEW q \in Seq(Step), Sorted(q, FALSE)
  PROVE  /\ Reverse(q) \in Seq(Step) /\ Sorted(Reverse(q), TRUE)
         /\ Range(Reverse(q)) = Range(q) /\ Len(Reverse(q)) = Len(q)
<1> DEFINE r == Reverse(q)  n == Len(q)
<1>1. n \in Nat /\ DOMAIN q = 1 .. n /\ \A i \in 1 .. n : q[i] \in Step
  BY LenProperties, ElementOfSeq
<1>2. r = [i \in 1 .. n |-> q[n - i + 1]]
  BY DEF Reverse
<1> HIDE DEF r, n
<1>3. /\ \A i \in 1 .. n : n - i + 1 \in 1 .. n /\ n - (n - i + 1) + 1 = i
      /\ \A i, j \in 1 .. n : i < j => n - j + 1 < n - i + 1
  BY <1>1
<1>4. r \in Seq(Step) /\ Len(r) = n
  BY <1>1, <1>2, <1>3
<1>5. Range(r) = Range(q)
  <2>1. \A i \in 1 .. n : r[i] \in Range(q)
    BY <1>1, <1>2, <1>3 DEF Range
  <2>2. \A i \in 1 .. n : q[i] = r[n - i + 1]
    BY <1>1, <1>2, <1>3
  <2>3. DOMAIN r = 1 .. n
    BY <1>2
  <2>4. \A i \in 1 .. n : q[i] \in Range(r)
    BY <1>3, <2>2, <2>3 DEF Range
  <2> QED BY <1>1, <2>1, <2>3, <2>4 DEF Range
<1>6. Sorted(r, TRUE)
  <2> SUFFICES ASSUME NEW i \in 1 .. n, NEW j \in 1 .. n, i < j
               PROVE  r[i] < r[j]
    BY <1>4 DEF Sorted, Before
  <2>1. q[n - j + 1] > q[n - i + 1]
    BY <1>3 DEF Sorted, Before, n
  <2>2. q[n - j + 1] \in Int /\ q[n - i + 1] \in Int
    BY <1>1, <1>3 DEF Step
  <2> QED BY <1>2, <2>1, <2>2
<1> QED BY <1>4, <1>5, <1>6 DEF r, n

LEMMA OrderFollows ==
  ASSUME IInv, OInv
  PROVE  InOrder
<1> DEFINE hand == SetToSeq(InHand)
           back == Reverse(redoList)
           all  == undoList \o hand \o back
<1> SUFFICES ASSUME ~overlapped
             PROVE  /\ \A i, j \in 1 .. Len(all) : i < j => all[i] < all[j]
                    /\ ~emptyUndo => Len(all) <= MaxUndoSteps
  BY DEF InOrder
<1>1. InTime /\ Limited
  BY DEF OInv
<1>2. /\ hand \in Seq(Step) /\ Sorted(hand, TRUE) /\ Range(hand) = InHand
      /\ Len(hand) = Cardinality(InHand)
  BY <1>1, HandAsSequence
<1>3. /\ back \in Seq(Step) /\ Sorted(back, TRUE) /\ Range(back) = Future
      /\ Len(back) = Len(redoList)
  BY <1>1, OrderBasics, Reversed DEF InTime, Future
<1> HIDE DEF hand, back
<1> DEFINE front == undoList \o hand
<1>4. /\ front \in Seq(Step) /\ Sorted(front, TRUE) /\ Range(front) = Past \cup InHand
      /\ Len(front) = Len(undoList) + Len(hand)
  <2>1. \A x \in Range(undoList), y \in Range(hand) : Before(x, y, TRUE)
    BY <1>1, <1>2 DEF InTime, Before, Past
  <2>2. undoList \in Seq(Step) /\ Sorted(undoList, TRUE) /\ Range(undoList) = Past
    BY <1>1, OrderBasics DEF InTime, Past
  <2>3. hand \in Seq(Step) /\ Sorted(hand, TRUE)
    BY <1>2
  <2>4. /\ front \in Seq(Step) /\ Sorted(front, TRUE)
        /\ Len(front) = Len(undoList) + Len(hand)
        /\ Range(front) = Range(undoList) \cup Range(hand)
    BY <2>1, <2>2, <2>3, SortedConcat, ZenonT(30)
  <2> QED BY <1>2, <2>2, <2>4
<1> HIDE DEF front
<1>5. /\ Sorted(front \o back, TRUE)
      /\ Len(front \o back) = Len(front) + Len(back)
  <2>0. /\ \A u \in Past, s \in InHand \cup Future \cup Filled : u < s
        /\ \A h \in InHand, f \in Future : h < f
    BY <1>1 DEF InTime
  <2>1. \A x \in Range(front), y \in Range(back) : Before(x, y, TRUE)
    <3> SUFFICES ASSUME NEW x \in Past \cup InHand, NEW y \in Future
                 PROVE  x < y
      BY <1>3, <1>4 DEF Before
    <3> QED BY <2>0
  <2> QED BY <1>3, <1>4, <2>1, SortedConcat, Zenon
<1>6. Len(all) = Len(undoList) + Cardinality(InHand) + Len(redoList)
  BY <1>2, <1>3, <1>4, <1>5 DEF front
<1>7. \A i, j \in 1 .. Len(all) : i < j => all[i] < all[j]
  BY <1>5 DEF Sorted, Before, front
<1> QED BY <1>1, <1>6, <1>7 DEF Limited

LEMMA OrderSteps ==
  ASSUME IInv, OInv, [Next]_vars
  PROVE  OInv'
<1>1. CASE Next
  BY <1>1, TimeKept, LimitKept DEF OInv
<1>2. CASE UNCHANGED vars
  <2>1. /\ UNCHANGED <<undoList, redoList, event, filling, task, overlapped, emptyUndo>>
    BY <1>2 DEF vars, lists, steps, windows, ghosts
  <2>2. UNCHANGED <<Filled, Past, InHand, Future>>
    BY <2>1, ListsUnchanged
  <2> QED BY <2>1, <2>2 DEF OInv, InTime, Limited
<1> QED BY <1>1, <1>2

(***************************************************************************)
(* As long as one thing is done at a time, undoing goes back through the   *)
(* steps in the order they were made and redoing forward again, whatever   *)
(* windows open and close meanwhile, and the lists stay within             *)
(* pref_MaxUndoSteps.                                                      *)
(***************************************************************************)
THEOREM OrderCorrect == Spec => []InOrder
<1>1. Init => OInv
  <2> SUFFICES ASSUME Init PROVE InTime /\ Limited
    BY DEF OInv
  <2>1. undoList = << >> /\ redoList = << >>
        /\ InHand = {} /\ Filled = {} /\ Past = {} /\ Future = {}
    BY EmptySeq DEF Init, InHand, Filled, NoTask, Nothing, Past, Future, Range
  <2>2. Len(<< >>) = 0 /\ Cardinality({}) = 0 /\ MaxUndoSteps \in Nat
    BY EmptySeq, FS_EmptySet, NumberAssumption
  <2>3. InTime
    BY <2>1, SortedEmpty DEF InTime
  <2>4. Limited
    BY <2>1, <2>2 DEF Limited
  <2> QED BY <2>3, <2>4
<1>2. IInv /\ OInv /\ [Next]_vars => OInv'
  BY OrderSteps
<1>3. IInv /\ OInv => InOrder
  BY OrderFollows
<1> QED BY <1>1, <1>2, <1>3, Invariant, PTL DEF Spec
=============================================================================
