------------------------------- MODULE UndoRedo -------------------------------
(***************************************************************************)
(* The undo and redo lists of main/Undo.c, the windows that fill them and  *)
(* the processes that undo and redo.                                       *)
(*                                                                         *)
(* A command of a window fills a step with events and appends it to        *)
(* globalUndoList.  Undo() and Redo() take the newest step off a list, and *)
(* a process of its own calls the hooks of its events and then appends it  *)
(* to the other list: while it runs the hooks the step is on neither.  It  *)
(* writes to the step once more after that, when others can already take   *)
(* or free it: the process is late.  A window that opens or closes removes *)
(* the steps that refer to it from the lists.                              *)
(*                                                                         *)
(* Steps are numbered in the order they are begun.  The part of an action  *)
(* that runs under UndoListListSemaphore or RedoListListSemaphore is one   *)
(* step; no action holds both.  Windows open and close at any time, which  *)
(* includes those the hooks of a UNDO_CloseWindow event open and close.    *)
(***************************************************************************)
EXTENDS ExecList, SequencesExt

CONSTANTS
  Window,        \* addresses of window tasks
  Desk,          \* the device window, which has no ws_Lock
  Dir,           \* what other windows show
  NoDir,
  MaxUndoSteps,  \* pref_MaxUndoSteps
  ULongs,        \* UndoCount is a ULONG: it has ULongs values
  MayFail,       \* TRUE: memory or processes may be short
  MaxSteps,      \* bound: steps of one run
  MaxLate        \* bound: late processes

ASSUME WindowAssumption ==
  IsFiniteSet(Window) /\ Desk \in Window /\ NoDir \notin Dir
ASSUME NumberAssumption ==
  /\ MaxUndoSteps \in Nat
  /\ ULongs \in Nat /\ ULongs > MaxSteps
  /\ MaxSteps \in Nat /\ MaxSteps > Cardinality(Window)
  /\ MaxLate \in Nat
ASSUME SwitchAssumption == MayFail \in BOOLEAN

Step == 1 .. MaxSteps
NoStep == 0

VARIABLES
  undoList,   \* globalUndoList
  redoList,   \* globalRedoList
  undoCount,  \* UndoCount
  made,       \* steps begun so far
  event,      \* what the events of each step are about
  freed,      \* steps UndoDisposeStep has freed
  task,       \* the processes of Undo() and Redo(), by the step they work on
  late,       \* those that have appended their step and still write to it
  proc,       \* where each window is
  filling,    \* the step each window fills
  dir,        \* what each window shows
  quit,       \* TRUE after UndoCleanup
  overlapped, \* ghost: something else began while a step was in hand
  emptyUndo,  \* ghost: Undo() was called with nothing to undo
  orphans,    \* ghost: steps about a window that is gone
  escaped,    \* ghost: steps in hand while their window cleared the lists
  crossed     \* ghost: late ones whose list a command has meanwhile shortened

lists   == <<undoList, redoList, undoCount>>
steps   == <<made, event, freed>>
windows == <<proc, filling, dir>>
ghosts  == <<overlapped, emptyUndo, orphans, escaped, crossed>>
vars    == <<lists, steps, windows, task, late, quit, ghosts>>

(***************************************************************************)
(* "file": events that refer to files and icons by name, any number.       *)
(* "size": one UNDO_SizeWindow or UNDO_Cleanup, refers to a window task.   *)
(* "close": one UNDO_CloseWindow, refers to a directory.                   *)
(***************************************************************************)
NoEvent  == [type |-> "none"]
Event(w) == {[type |-> "file"], [type |-> "size", win |-> w]}
Events   == {NoEvent} \cup (UNION {Event(w) : w \in Window})
              \cup {[type |-> "close", dir |-> d] : d \in Dir}

Closes(s, d) == event[s].type = "close" /\ event[s].dir = d
Sizes(s, w)  == event[s].type = "size" /\ event[s].win = w

NoTask == [doing |-> "none", by |-> Desk]
Tasks  == [doing : {"undo", "redo"}, by : Window] \cup {NoTask}

LateTasks  == [step : Step, doing : {"undo", "redo"}, by : Window]
LateOf(s)  == [step |-> s, doing |-> task[s].doing, by |-> task[s].by]

Nothing == [step |-> NoStep, multi |-> FALSE]
Fillings == [step : Step, multi : BOOLEAN] \cup {Nothing}

Proc ==
  {"shut", "idle", "filling", "closing", "undopass", "redopass", "leaving"}

Filled  == {filling[w].step : w \in Window} \ {NoStep}
InHand  == {s \in Step : task[s].doing # "none"}
Undoing == {s \in Step : task[s].doing = "undo"}
Redoing == {s \in Step : task[s].doing = "redo"}

Busy == InHand # {} \/ Filled # {}

Init ==
  /\ undoList = << >> /\ redoList = << >> /\ undoCount = 0
  /\ made = 0
  /\ event = [s \in Step |-> NoEvent]
  /\ freed = {}
  /\ task = [s \in Step |-> NoTask] /\ late = {}
  /\ proc = [w \in Window |-> IF w = Desk THEN "idle" ELSE "shut"]
  /\ filling = [w \in Window |-> Nothing]
  /\ dir = [w \in Window |-> NoDir]
  /\ quit = FALSE
  /\ overlapped = FALSE /\ emptyUndo = FALSE
  /\ orphans = {} /\ escaped = {} /\ crossed = {}

(***************************************************************************)
(* UndoCount is unsigned.                                                  *)
(***************************************************************************)
Plus(n)  == (undoCount + n) % ULongs
MinusBelow(n) == undoCount - n   \* mutant: no wrap
Minus(n) == (undoCount + ULongs - n) % ULongs

Free(S) == freed' = freed \cup S

(***************************************************************************)
(* Closing a window needs a step of its own: users leave it one.           *)
(***************************************************************************)
StepsToClose == Cardinality({w \in Window : proc[w] \notin {"shut", "leaving"}})
MayBegin(n) == made + StepsToClose + n <= MaxSteps

(***************************************************************************)
(* Ghost: a command takes steps off the list that late processes of this   *)
(* kind have appended theirs to.                                           *)
(***************************************************************************)
Crosses(doing) == crossed' = crossed \cup {r \in late : r.doing = doing}

RedoCleanup ==
  redoList' = << >> /\ Free(Range(redoList)) /\ Crosses("undo")
-----------------------------------------------------------------------------
(***************************************************************************)
(* UndoBeginStep.  multi: the caller begins the step and adds any number   *)
(* of events to it, otherwise UndoAddEventTagList begins it for its event. *)
(***************************************************************************)
BeginStep(w, multi) ==
  /\ proc[w] = "idle"
  /\ MayBegin(1)
  /\ made' = made + 1
  /\ filling' = [filling EXCEPT ![w] = [step |-> made + 1, multi |-> multi]]
  /\ proc' = [proc EXCEPT ![w] = "filling"]
  /\ overlapped' = (overlapped \/ Busy)
  /\ UNCHANGED <<lists, event, freed, dir, task, late, quit, emptyUndo, orphans,
                 escaped, crossed>>

AddEventKeepsRedo(w, e) ==   \* mutant: what could be redone stays
  LET s == filling[w].step IN
  /\ proc[w] = "filling"
  /\ IF filling[w].multi THEN e.type = "file" ELSE event[s] = NoEvent
  /\ event' = [event EXCEPT ![s] = e]
  /\ overlapped' = (overlapped \/ InHand # {})
  /\ UNCHANGED <<lists, freed, made, windows, task, late, quit, emptyUndo, orphans,
                 escaped, crossed>>

(***************************************************************************)
(* UndoAddEventTagList with an event that succeeds.                        *)
(***************************************************************************)
AddEvent(w, e) ==
  LET s == filling[w].step IN
  /\ proc[w] = "filling"
  /\ IF filling[w].multi THEN e.type = "file" ELSE event[s] = NoEvent
  /\ event' = [event EXCEPT ![s] = e]
  /\ RedoCleanup
  /\ overlapped' = (overlapped \/ InHand # {})
  /\ UNCHANGED <<undoList, undoCount, made, windows, task, late, quit, emptyUndo,
                 orphans, escaped>>

(***************************************************************************)
(* UndoAddEventTagList with an event that fails: what could be redone is   *)
(* gone all the same, and a step of its own is never freed.  Without       *)
(* memory for the event itself nothing happens.                            *)
(***************************************************************************)
AddEventFails(w) ==
  /\ MayFail
  /\ proc[w] = "filling"
  /\ RedoCleanup
  /\ IF filling[w].multi
     THEN UNCHANGED <<filling, proc>>
     ELSE /\ event[filling[w].step] = NoEvent
          /\ filling' = [filling EXCEPT ![w] = Nothing]
          /\ proc' = [proc EXCEPT ![w] = "idle"]
  /\ overlapped' = (overlapped \/ InHand # {})
  /\ UNCHANGED <<undoList, undoCount, made, event, dir, task, late, quit, emptyUndo,
                 orphans, escaped>>

(***************************************************************************)
(* The part of UndoEndStep that holds the semaphore.                       *)
(***************************************************************************)
AppendStep(s) ==
  LET longer == Append(undoList, s)
  IN  IF Plus(1) > MaxUndoSteps
      THEN /\ undoList' = Tail(longer) /\ undoCount' = undoCount
           /\ Free({Head(longer)}) /\ Crosses("redo")
      ELSE /\ undoList' = longer /\ undoCount' = Plus(1)
           /\ freed' = freed /\ crossed' = crossed

(***************************************************************************)
(* UndoEndStep.  A step of its own comes here only after its event.        *)
(***************************************************************************)
EndStep(w) ==
  LET s == filling[w].step IN
  /\ proc[w] \in {"filling", "closing"}
  /\ filling[w].multi \/ event[s] # NoEvent
  /\ IF event[s] = NoEvent
     THEN Free({s}) /\ UNCHANGED <<undoList, undoCount, crossed>>
     ELSE AppendStep(s)
  /\ filling' = [filling EXCEPT ![w] = Nothing]
  /\ proc' = [proc EXCEPT ![w] = IF @ = "closing" THEN "undopass" ELSE "idle"]
  /\ UNCHANGED <<redoList, made, event, dir, task, late, quit, overlapped, emptyUndo,
                 orphans, escaped>>
-----------------------------------------------------------------------------
(***************************************************************************)
(* Undo() and Redo(), in a command of window w: SCCM_RunProcess starts the *)
(* process as a child of w.  When it cannot, the step stays where it is:   *)
(* on no list.  Undo() with nothing to undo happens at most once here.     *)
(***************************************************************************)
MayCommand(w) == proc[w] \in {"idle", "filling"}

StartTask(w, s, doing) ==
  \/ task' = [task EXCEPT ![s] = [doing |-> doing, by |-> w]]
  \/ MayFail /\ task' = task

Undo(w) ==
  /\ MayCommand(w)
  /\ undoCount' = Minus(1)
  /\ IF undoList = << >>
     THEN ~emptyUndo /\ emptyUndo' = TRUE
            /\ UNCHANGED <<undoList, task, overlapped, crossed>>
     ELSE /\ undoList' = Front(undoList)
          /\ StartTask(w, Last(undoList), "undo")
          /\ Crosses("redo")
          /\ overlapped' = (overlapped \/ Busy)
          /\ emptyUndo' = emptyUndo
  /\ UNCHANGED <<redoList, steps, windows, late, quit, orphans, escaped>>

Redo(w) ==
  /\ MayCommand(w)
  /\ redoList # << >>
  /\ redoList' = Front(redoList)
  /\ StartTask(w, Last(redoList), "redo")
  /\ Crosses("undo")
  /\ overlapped' = (overlapped \/ Busy)
  /\ escaped' = escaped \cup {s \in {Last(redoList)} :
                    \E v \in Window : proc[v] = "redopass" /\ Sizes(s, v)}
  /\ UNCHANGED <<undoList, undoCount, steps, windows, late, quit, emptyUndo, orphans>>

(***************************************************************************)
(* The end of UndoTask and RedoTask under the semaphore of the list.       *)
(* Bounds: so many processes are late at a time, and of those of a window  *)
(* that undo, or redo, one step again and again only one.                  *)
(***************************************************************************)
PutBack(s) ==
  /\ Cardinality(late) < MaxLate /\ LateOf(s) \notin late
  /\ late' = late \cup {LateOf(s)}
  /\ task' = [task EXCEPT ![s] = NoTask]

(***************************************************************************)
(* UndoTask, after the hooks: the step can be redone.                      *)
(***************************************************************************)
UndoTask(s) ==
  /\ task[s].doing = "undo"
  /\ redoList' = Append(redoList, s)
  /\ PutBack(s)
  /\ UNCHANGED <<undoList, undoCount, steps, windows, quit, ghosts>>

RedoTaskUncounted(s) ==   \* mutant: the step is not counted
  /\ task[s].doing = "redo"
  /\ undoList' = Append(undoList, s)
  /\ undoCount' = undoCount
  /\ PutBack(s)
  /\ UNCHANGED <<redoList, steps, windows, quit, ghosts>>

(***************************************************************************)
(* RedoTask, after the hooks: the step can be undone.  It does not look at *)
(* pref_MaxUndoSteps.                                                      *)
(***************************************************************************)
RedoTask(s) ==
  /\ task[s].doing = "redo"
  /\ undoList' = Append(undoList, s)
  /\ undoCount' = Plus(1)
  /\ PutBack(s)
  /\ UNCHANGED <<redoList, steps, windows, quit, ghosts>>

(***************************************************************************)
(* The semaphore released, the process disposes of the FileTransfer object *)
(* it finds in the step, writes NULL there, and ends.                      *)
(***************************************************************************)
EndTask(r) ==
  /\ r \in late
  /\ late' = late \ {r}
  /\ crossed' = crossed \ {r}
  /\ UNCHANGED <<lists, steps, windows, task, quit, overlapped, emptyUndo,
                 orphans, escaped>>

TaskFailsAppends(s) ==   \* mutant: the freed step is appended
  /\ MayFail
  /\ s \in InHand
  /\ Free({s})
  /\ task' = [task EXCEPT ![s] = NoTask]
  /\ redoList' = IF s \in Undoing THEN Append(redoList, s) ELSE redoList
  /\ UNCHANGED <<undoList, undoCount, made, event, windows, late, quit, ghosts>>

(***************************************************************************)
(* UndoTask or RedoTask without a FileTransfer object.                     *)
(***************************************************************************)
TaskFails(s) ==
  /\ MayFail
  /\ s \in InHand
  /\ Free({s})
  /\ task' = [task EXCEPT ![s] = NoTask]
  /\ UNCHANGED <<lists, made, event, windows, late, quit, ghosts>>
-----------------------------------------------------------------------------
(***************************************************************************)
(* UndoWindowSignalOpening: opening d by hand undoes having closed it.     *)
(***************************************************************************)
UndoWindowSignalOpening(d) ==
  LET Found == {s \in Range(undoList) : Closes(s, d)} IN
  /\ undoList' = Without(undoList, Found)
  /\ undoCount' = Minus(Cardinality(Found))
  /\ Free(Found)

Open(w, d) ==
  /\ ~quit /\ proc[w] = "shut" /\ w # Desk
  /\ proc[Desk] \in {"idle", "filling"}
  /\ \A v \in Window : dir[v] # d
  /\ MayBegin(2)
  /\ proc' = [proc EXCEPT ![w] = "idle"]
  /\ dir' = [dir EXCEPT ![w] = d]
  /\ UndoWindowSignalOpening(d)
  /\ UNCHANGED <<redoList, made, event, filling, task, late, quit, ghosts>>

MayCloseAnyTime(w) ==   \* mutant: children are not waited for
  /\ proc[w] = "idle"
  /\ w = Desk => \A v \in Window \ {Desk} : proc[v] = "shut"

(***************************************************************************)
(* WindowTask after its loop, when no child process is left (but for the   *)
(* stale WinSemaLocked of module WindowTask).                              *)
(***************************************************************************)
MayClose(w) ==
  /\ proc[w] = "idle"
  /\ \A s \in InHand : task[s].by # w
  /\ \A r \in late : r.by # w
  /\ w = Desk => \A v \in Window \ {Desk} : proc[v] = "shut"

(***************************************************************************)
(* UndoWindowSignalClosing adds a UNDO_CloseWindow event, which fails for  *)
(* a window without a ws_Lock.                                             *)
(***************************************************************************)
Close(w) ==
  /\ MayClose(w)
  /\ made' = made + 1
  /\ RedoCleanup
  /\ \/ /\ w # Desk
        /\ event' = [event EXCEPT ![made + 1] = [type |-> "close", dir |-> dir[w]]]
        /\ filling' = [filling EXCEPT ![w] = [step |-> made + 1, multi |-> FALSE]]
        /\ proc' = [proc EXCEPT ![w] = "closing"]
     \/ /\ w = Desk \/ MayFail
        /\ UNCHANGED <<event, filling>>
        /\ proc' = [proc EXCEPT ![w] = "undopass"]
  /\ overlapped' = (overlapped \/ Busy)
  /\ UNCHANGED <<undoList, undoCount, dir, task, late, quit, emptyUndo, orphans,
                 escaped>>

(***************************************************************************)
(* Without memory for the event or its step UndoAddEventTagList does       *)
(* nothing, and what could be redone stays.                                *)
(***************************************************************************)
CloseUnrecorded(w) ==
  /\ MayFail
  /\ MayClose(w)
  /\ proc' = [proc EXCEPT ![w] = "undopass"]
  /\ overlapped' = (overlapped \/ Busy)
  /\ UNCHANGED <<lists, steps, filling, dir, task, late, quit, emptyUndo, orphans,
                 escaped, crossed>>

(***************************************************************************)
(* The two loops of UndoWindowSignalClosing, each under its own semaphore. *)
(***************************************************************************)
UndoPass(w) ==
  LET Found == {s \in Range(undoList) : Sizes(s, w)} IN
  /\ proc[w] = "undopass"
  /\ undoList' = Without(undoList, Found)
  /\ undoCount' = Minus(Cardinality(Found))
  /\ Free(Found)
  /\ proc' = [proc EXCEPT ![w] = "redopass"]
  /\ escaped' = escaped \cup {s \in InHand : Sizes(s, w)}
  /\ UNCHANGED <<redoList, made, event, filling, dir, task, late, quit, overlapped,
                 emptyUndo, orphans, crossed>>

RedoPassSkipped(w) ==   \* mutant: the redo list is not looked through
  /\ proc[w] = "redopass"
  /\ proc' = [proc EXCEPT ![w] = "leaving"]
  /\ UNCHANGED <<lists, steps, filling, dir, task, late, quit, ghosts>>

RedoPass(w) ==
  LET Found == {s \in Range(redoList) : Sizes(s, w)} IN
  /\ proc[w] = "redopass"
  /\ redoList' = Without(redoList, Found)
  /\ Free(Found)
  /\ proc' = [proc EXCEPT ![w] = "leaving"]
  /\ escaped' = escaped \cup {s \in InHand : Sizes(s, w)}
  /\ UNCHANGED <<undoList, undoCount, made, event, filling, dir, task, late, quit,
                 overlapped, emptyUndo, orphans, crossed>>

(***************************************************************************)
(* The window is disposed; another may get its address.                    *)
(***************************************************************************)
Leave(w) ==
  /\ proc[w] = "leaving"
  /\ proc' = [proc EXCEPT ![w] = "shut"]
  /\ dir' = [dir EXCEPT ![w] = NoDir]
  /\ orphans' = orphans \cup {s \in Step : Sizes(s, w)}
  /\ UNCHANGED <<lists, steps, filling, task, late, quit, overlapped, emptyUndo,
                 escaped, crossed>>

(***************************************************************************)
(* The main task after it got QuitSemaphore: UndoCleanup.                  *)
(***************************************************************************)
UndoCleanup ==
  /\ ~quit
  /\ \A w \in Window : proc[w] = "shut"
  /\ quit' = TRUE
  /\ undoList' = << >> /\ redoList' = << >>
  /\ undoCount' = Minus(Len(undoList))
  /\ Free(Range(undoList) \cup Range(redoList))
  /\ UNCHANGED <<made, event, windows, task, late, ghosts>>

Next ==
  \/ \E w \in Window :
       \/ \E multi \in BOOLEAN : BeginStep(w, multi)
       \/ \E e \in Event(w) : AddEvent(w, e)
       \/ AddEventFails(w)
       \/ EndStep(w)
       \/ Undo(w)
       \/ Redo(w)
       \/ \E d \in Dir : Open(w, d)
       \/ Close(w)
       \/ CloseUnrecorded(w)
       \/ UndoPass(w)
       \/ RedoPass(w)
       \/ Leave(w)
  \/ \E s \in Step : UndoTask(s) \/ RedoTask(s) \/ TaskFails(s)
  \/ \E r \in LateTasks : EndTask(r)
  \/ UndoCleanup

Spec == Init /\ [][Next]_vars
-----------------------------------------------------------------------------
TypeOK ==
  /\ undoList \in Seq(Step) /\ redoList \in Seq(Step)
  /\ undoCount \in 0 .. ULongs - 1
  /\ made \in 0 .. MaxSteps
  /\ event \in [Step -> Events]
  /\ freed \subseteq Step
  /\ task \in [Step -> Tasks]
  /\ late \subseteq LateTasks /\ crossed \subseteq late
  /\ proc \in [Window -> Proc]
  /\ filling \in [Window -> Fillings]
  /\ dir \in [Window -> Dir \cup {NoDir}]
  /\ {quit, overlapped, emptyUndo} \subseteq BOOLEAN
  /\ orphans \subseteq Step /\ escaped \subseteq Step

(***************************************************************************)
(* UndoCount is kept by seven functions, in several processes.  Until      *)
(* Undo() is called with an empty list it is what the comment of line 161  *)
(* says: the number of entries in globalUndoList.                          *)
(***************************************************************************)
CountMatches == ~emptyUndo => undoCount = Len(undoList)

(***************************************************************************)
(* As long as one thing is done at a time, undoing goes back in the order  *)
(* the steps were made and redoing forward again: every step that can be   *)
(* undone is older than the one in hand, and that older than every step    *)
(* that can be redone, whatever windows opened and closed meanwhile.  Then *)
(* UndoEndStep alone keeps them within pref_MaxUndoSteps, although         *)
(* RedoTask does not look at it.                                           *)
(***************************************************************************)
InOrder ==
  LET all == undoList \o SetToSeq(InHand) \o Reverse(redoList)
  IN  ~overlapped =>
        /\ \A i, j \in 1 .. Len(all) : i < j => all[i] < all[j]
        /\ ~emptyUndo => Len(all) <= MaxUndoSteps

(***************************************************************************)
(* "remove all entries which refer to the disappearing window" (4552): an  *)
(* entry that refers to a window that is gone was in the hand of UndoTask  *)
(* or RedoTask, on behalf of another window, while the window went through *)
(* the lists.  No other way leads past UndoWindowSignalClosing.            *)
(***************************************************************************)
OnlyHandsEscape ==
  orphans \cap (Range(undoList) \cup Range(redoList)) \subseteq escaped

(***************************************************************************)
(* When the main task frees the lists no process holds a step that it      *)
(* could append afterwards, or that it has just appended and writes to.    *)
(***************************************************************************)
NothingAfterCleanup ==
  quit => /\ undoList = << >> /\ redoList = << >>
          /\ InHand = {} /\ Filled = {} /\ late = {}

(***************************************************************************)
(* UndoTask and RedoTask still write to a step when it is on a list again  *)
(* (691, 751).  The step is where they have put it, and no other process   *)
(* frees or takes it, with two exceptions: a user who is quick with the    *)
(* next command (it records an event or redoes after an undo; it undoes,   *)
(* or makes the list too long, after a redo), and a step that refers to a  *)
(* window which opens or closes.                                           *)
(***************************************************************************)
LateTasksAreSafe ==
  \A r \in late \ crossed :
    \/ r.step \in Range(IF r.doing = "undo" THEN redoList ELSE undoList)
    \/ event[r.step].type # "file"

(***************************************************************************)
(* No step is at two places, or on a list or in a hand after it was freed, *)
(* and none changes sides but by being undone or redone.  This is about    *)
(* where a step is: what a late process writes to is LateTasksAreSafe's.   *)
(***************************************************************************)
History == INSTANCE UndoHistory WITH
  open    <- Filled,
  past    <- Range(undoList),
  undoing <- Undoing,
  future  <- Range(redoList),
  redoing <- Redoing,
  lost    <- (1 .. made) \ (Filled \cup Range(undoList) \cup InHand
                             \cup Range(redoList) \cup freed)

StepsLiveOnce == History!HistorySpec
=============================================================================
