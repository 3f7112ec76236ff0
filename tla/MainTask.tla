------------------------------ MODULE MainTask ------------------------------
(***************************************************************************)
(* The main task, the list of windows and the messages between them:       *)
(* main/MainWait.c, main/Messages.c, WaitReply and ClearMsgPort of         *)
(* main/Subroutines.c, the way out of main/ScalosInit.c, and what a window *)
(* process (WindowTask) does to the list when it comes and goes.           *)
(*                                                                         *)
(* Every window has a process with a port; whoever holds the window list   *)
(* may send to the ports of the windows in it.  The main task sends        *)
(* messages to several windows and then takes one answer after the other   *)
(* from its own port, where requests, answers to other messages and the    *)
(* news that the main window is gone arrive as well.                       *)
(***************************************************************************)
EXTENDS SignalSemaphore, ExecList, Functions

CONSTANTS
  Window,       \* the windows that can be opened, each once
  MainWindow,   \* ii_MainWindowStruct
  Open,         \* the windows that are open when Scalos has started
  Asker,        \* processes that reset Scalos, or close the Workbench screen
  Opener,       \* processes that open a drawer, each one
  Ticking,      \* windows that need the timer: tool tips, typing, updates
  Main,         \* the main task
  NoWindow,
  MayFail       \* whether SCA_AllocMessage, opening a window again, and
                \* RemoveAllPatches may fail

ASSUME ActorAssumption ==
  /\ MainWindow \in Open /\ Open \subseteq Window
  /\ IsFiniteSet(Window) /\ NoWindow \notin Window
  /\ {"start", "done"} \cap Window = {}
  /\ Ticking \subseteq Window
  /\ Task = {Main} \cup Opener /\ Main \notin Opener
  /\ Asker \cap (Window \cup {NoWindow}) = {}
  /\ MayFail \in BOOLEAN

VARIABLES
  list,         \* winlist
  proc,         \* what is left of each window and its process
  asleep,       \* WSV_FlagF_TaskSleeps
  timerSent,    \* WSV_FlagF_TimerMsgSent
  closing,      \* iwt_CloseWindow
  port,         \* iwt_IconPort: the messages of the main task, in order
  mainPort,     \* ii_MainMsgPort
  lock,         \* WinListSemaphore
  main,         \* where the main task is
  serving,      \* the asker whose request it carries out
  waitCount,    \* how many answers it still waits for
  next,         \* the next window the way out looks at
  closeWindow,  \* iwt_CloseWindow of the main task
  asker,        \* where each asker is
  opener,       \* the window an opener found in the list
  ghost         \* what went wrong

windowVars == <<list, proc, asleep, timerSent, closing, port>>
mainVars == <<mainPort, main, serving, waitCount, next, closeWindow>>
vars == <<windowVars, mainVars, lock, asker, opener, ghost>>

Proc == {"none", "created", "opened", "listed", "leaving", "closed", "unlisted", "gone"}
WindowMessage == {"Sleep", "Wakeup", "Timer", "CloseWindow"}

Request(type) == [kind |-> "request", type |-> type, from |-> Main]
RequestOf(a, type) == [kind |-> "request", type |-> type, from |-> a]
Reply(w, type) == [kind |-> "reply", type |-> type, from |-> w]

Listed(w) == \E i \in DOMAIN list : list[i] = w

(***************************************************************************)
(* wt_Window and ws_Window are not NULL.                                   *)
(***************************************************************************)
Shown(w) == proc[w] \in {"opened", "listed", "leaving"} /\ ~asleep[w]

Init ==
  /\ list \in Bijection(1 .. Cardinality(Open), Open) /\ Head(list) = MainWindow
  /\ proc = [w \in Window |-> IF w \in Open THEN "listed" ELSE "none"]
  /\ asleep = [w \in Window |-> FALSE]
  /\ timerSent = [w \in Window |-> FALSE]
  /\ closing = [w \in Window |-> FALSE]
  /\ port = [w \in Window |-> << >>]
  /\ mainPort = << >>
  /\ lock = FreeSemaphore
  /\ main = "wait"
  /\ waitCount = 0
  /\ serving = NoWindow
  /\ next = NoWindow
  /\ closeWindow = FALSE
  /\ asker = [a \in Asker |-> "awake"]
  /\ opener = [o \in Opener |-> "start"]
  /\ ghost = [freed |-> 0, ignored |-> {}, noTimer |-> {},
              failed |-> FALSE, left |-> {}, untold |-> FALSE]
-----------------------------------------------------------------------------
(***************************************************************************)
(* A window process.                                                       *)
(***************************************************************************)
Alone == Idle(lock)

(***************************************************************************)
(* WindowTask starts: the first thing the new process does is to obtain    *)
(* QuitSemaphore.                                                          *)
(***************************************************************************)
Begin(w) ==
  /\ proc[w] = "created"
  /\ proc' = [proc EXCEPT ![w] = "opened"]
  /\ UNCHANGED <<list, asleep, timerSent, closing, port, mainVars, lock, asker, opener,
                 ghost>>

(***************************************************************************)
(* The window is open, and moves from the list of its own into winlist.    *)
(***************************************************************************)
EnterList(w) ==
  /\ proc[w] = "opened" /\ Alone
  /\ list' = Append(list, w)
  /\ proc' = [proc EXCEPT ![w] = "listed"]
  /\ UNCHANGED <<asleep, timerSent, closing, port, mainVars, lock, asker, opener, ghost>>

(***************************************************************************)
(* HandleWindowTaskIconPortMessages: the table of message functions, and   *)
(* the reply.  Opening the window again may fail.                          *)
(***************************************************************************)
Handle(w) ==
  /\ proc[w] = "listed" /\ port[w] # << >>
  /\ LET type == Head(port[w]).type IN
     /\ \/ type = "Sleep" /\ asleep' = [asleep EXCEPT ![w] = TRUE] /\ UNCHANGED ghost
        \/ type = "Wakeup" /\ asleep' = [asleep EXCEPT ![w] = FALSE] /\ UNCHANGED ghost
        \/ /\ type = "Wakeup" /\ MayFail
           /\ ghost' = [ghost EXCEPT !.failed = TRUE] /\ UNCHANGED asleep
        \/ type \in {"Timer", "CloseWindow"} /\ UNCHANGED <<asleep, ghost>>
     /\ closing' = [closing EXCEPT ![w] = @ \/ type = "CloseWindow"]
     /\ mainPort' = Append(mainPort, Reply(w, type))
  /\ port' = [port EXCEPT ![w] = Tail(@)]
  /\ UNCHANGED <<list, proc, timerSent, main, serving, waitCount, next, closeWindow,
                 lock, asker, opener>>

(***************************************************************************)
(* The loop of the window process ends: at once if the user closes the     *)
(* window, and with nothing left in the port after MTYP_CloseWindow.       *)
(***************************************************************************)
Leave(w) ==
  /\ proc[w] = "listed"
  /\ proc' = [proc EXCEPT ![w] = "leaving"]
  /\ UNCHANGED <<list, asleep, timerSent, closing, port, mainVars, lock, asker, opener>>

UserCloses(w) == ~asleep[w] /\ Leave(w) /\ ghost' = [ghost EXCEPT !.left = @ \cup {w}]
Obeys(w) == closing[w] /\ port[w] = << >> /\ Leave(w) /\ UNCHANGED ghost

(***************************************************************************)
(* SCCM_Window_Close; the window list is not locked.                       *)
(***************************************************************************)
CloseIt(w) ==
  /\ proc[w] = "leaving"
  /\ proc' = [proc EXCEPT ![w] = "closed"]
  /\ UNCHANGED <<list, asleep, timerSent, closing, port, mainVars, lock, asker, opener,
                 ghost>>

(***************************************************************************)
(* DisposeScalosWindow frees the window structure.                         *)
(***************************************************************************)
DisposeListed(w) ==   \* mutant: the node stays in the list
  /\ proc[w] = "closed" /\ Alone
  /\ proc' = [proc EXCEPT ![w] = "unlisted"]
  /\ UNCHANGED <<list, asleep, timerSent, closing, port, mainVars, lock, asker, opener,
                 ghost>>

Dispose(w) ==
  /\ proc[w] = "closed" /\ Alone
  /\ list' = Without(list, {w})
  /\ proc' = [proc EXCEPT ![w] = "unlisted"]
  /\ UNCHANGED <<asleep, timerSent, closing, port, mainVars, lock, asker, opener, ghost>>

(***************************************************************************)
(* ClearMsgPort frees what is left in the port without an answer, and the  *)
(* port is deleted.  The process of the main window tells the main task,   *)
(* if there is memory for the message, which has no reply port.            *)
(***************************************************************************)
Waited == {"Sleep", "Wakeup", "CloseWindow"}

Unanswered(w, types) == Cardinality(Places(port[w], {Request(type) : type \in types}))

End(w) ==
  /\ proc[w] = "unlisted"
  /\ proc' = [proc EXCEPT ![w] = "gone"]
  /\ port' = [port EXCEPT ![w] = << >>]
  /\ \E told \in IF w = MainWindow THEN {TRUE, ~MayFail} ELSE {FALSE} :
       /\ mainPort' = IF told THEN Append(mainPort, RequestOf(w, "CloseScalos")) ELSE mainPort
       /\ ghost' = [ghost EXCEPT !.freed = @ + Unanswered(w, Waited),
                                !.untold = @ \/ (w = MainWindow /\ ~told)]
  /\ UNCHANGED <<list, asleep, timerSent, closing, main, serving, waitCount, next,
                 closeWindow, lock, asker, opener>>
-----------------------------------------------------------------------------
(***************************************************************************)
(* The main task in MainWait.                                              *)
(***************************************************************************)
Send(S, type) ==
  port' = [w \in Window |-> IF w \in S THEN Append(port[w], Request(type)) ELSE port[w]]

Some(S) == IF MayFail THEN SUBSET S ELSE {S}

(***************************************************************************)
(* Once a second the windows that need it get a timer message.  The flag   *)
(* is set before there is memory for the message.                          *)
(***************************************************************************)
DueAgain(w) ==   \* mutant: a message that is under way does not count
  w \in Ticking /\ Listed(w) /\ ~asleep[w]

Due(w) == w \in Ticking /\ Listed(w) /\ ~asleep[w] /\ ~timerSent[w]

ProcessTimerMessage ==
  /\ main = "wait" /\ ~closeWindow
  /\ CanShared(lock, Main)
  /\ \E S \in SUBSET {w \in Window : Due(w)} :
       \E got \in Some(S) :
         /\ S # {}
         /\ timerSent' = [w \in Window |-> timerSent[w] \/ w \in S]
         /\ Send(got, "Timer")
         /\ ghost' = [ghost EXCEPT !.noTimer = @ \cup (S \ got)]
  /\ UNCHANGED <<list, proc, asleep, closing, mainVars, lock, asker, opener>>

Arrives(m) == main = "wait" /\ ~closeWindow /\ mainPort # << >> /\ m = Head(mainPort)

(***************************************************************************)
(* Where an asker is once its request is replied.                          *)
(***************************************************************************)
After(type) == IF type = "AppSleep" THEN "asleep" ELSE "done"

(***************************************************************************)
(* ProcessScalosMessage, for what is not a request to sleep or wake up: a  *)
(* reply to MTYP_Timer clears the flag in the structure of the window,     *)
(* which may have been freed; other replies are late.                      *)
(***************************************************************************)
TimerReplyMsg ==
  \E w \in Window :
    /\ Arrives(Reply(w, "Timer"))
    /\ timerSent' = [timerSent EXCEPT ![w] = FALSE]
    /\ mainPort' = Tail(mainPort)
    /\ UNCHANGED <<list, proc, asleep, closing, port, main, serving, waitCount,
                   next, closeWindow, lock, asker, opener, ghost>>

CloseWindowMsg ==
  /\ Arrives(RequestOf(MainWindow, "CloseScalos"))
  /\ closeWindow' = TRUE
  /\ mainPort' = Tail(mainPort)
  /\ UNCHANGED <<windowVars, main, serving, waitCount, next, lock, asker, opener, ghost>>

(***************************************************************************)
(* AppSleepMsg sends MTYP_Sleep to the windows that are awake, while it    *)
(* holds the list shared; AppWakeupMsg sends MTYP_Wakeup to those that     *)
(* sleep, and keeps the list until it has all answers.  The main task does *)
(* it itself for the main window.                                          *)
(***************************************************************************)
AppSleepMsg ==
  \E a \in Asker :
    /\ Arrives(RequestOf(a, "AppSleep"))
    /\ CanShared(lock, Main)
    /\ LET awake == {w \in Window : Listed(w) /\ ~asleep[w]} IN
       \E got \in Some(awake \ {MainWindow}) :
         /\ Send(got, "Sleep")
         /\ asleep' = [asleep EXCEPT ![MainWindow] =
                         @ \/ (MainWindow \in awake /\ Shown(MainWindow))]
         /\ waitCount' = Cardinality(got)
         /\ ghost' = [ghost EXCEPT !.freed = 0]
    /\ main' = "sleep" /\ serving' = a
    /\ mainPort' = Tail(mainPort)
    /\ UNCHANGED <<list, proc, timerSent, closing, next, closeWindow,
                   lock, asker, opener>>

OthersAsleep == {w \in Window : Listed(w) /\ asleep[w]} \ {MainWindow}  \* mutant

Sleeping == {w \in Window : Listed(w) /\ asleep[w]}

AppWakeupMsg ==
  \E a \in Asker :
    /\ Arrives(RequestOf(a, "AppWakeup"))
    /\ CanExclusive(lock, Main)
    /\ lock' = GrabExclusive(lock, Main)
    /\ \E got \in Some(Sleeping \ {MainWindow}), woken \in Some(Sleeping \cap {MainWindow}) :
         /\ Send(got, "Wakeup")
         /\ asleep' = [asleep EXCEPT ![MainWindow] = @ /\ MainWindow \notin woken]
         /\ waitCount' = Cardinality(got)
         /\ ghost' = [ghost EXCEPT !.freed = 0, !.failed = @ \/ got \cup woken # Sleeping]
    /\ main' = "wakeup" /\ serving' = a
    /\ mainPort' = Tail(mainPort)
    /\ UNCHANGED <<list, proc, timerSent, closing, next, closeWindow,
                   asker, opener>>

(***************************************************************************)
(* WaitReply on the main port.  A request that arrives meanwhile is        *)
(* replied and not carried out; an answer to another message is freed, and *)
(* the function that belongs to it is not called.                          *)
(***************************************************************************)
WaitsForSleep ==   \* mutant: waking up waits for the answer to MTYP_Sleep
  CASE main \in {"sleep", "wakeup"} -> "Sleep"
    [] main = "quitwait" -> "CloseWindow" [] OTHER -> "nothing"

WaitsFor == CASE main = "sleep" -> "Sleep" [] main = "wakeup" -> "Wakeup"
              [] main = "quitwait" -> "CloseWindow" [] OTHER -> "nothing"

CountsReply(m) == m.kind = "reply"   \* mutant: the answer to anything counts

Counts(m) == m.kind = "reply" /\ m.type = WaitsFor

WaitReply ==
  /\ WaitsFor # "nothing" /\ waitCount > 0 /\ mainPort # << >>
  /\ LET m == Head(mainPort) IN
     /\ waitCount' = IF Counts(m) THEN waitCount - 1 ELSE waitCount
     /\ asker' = IF m.kind = "request" /\ m.from \in Asker
                 THEN [asker EXCEPT ![m.from] = After(m.type)] ELSE asker
     /\ ghost' = [ghost EXCEPT
                    !.ignored = IF m.kind = "request" THEN @ \cup {m.type} ELSE @,
                    !.noTimer = IF m.type = "Timer" THEN @ \cup {m.from} ELSE @]
  /\ mainPort' = Tail(mainPort)
  /\ UNCHANGED <<windowVars, main, serving, next, closeWindow, lock, opener>>

(***************************************************************************)
(* When all answers are there, the list is unlocked and the request of the *)
(* asker answered.                                                         *)
(***************************************************************************)
Answered ==
  /\ main \in {"sleep", "wakeup"} /\ waitCount = 0
  /\ lock' = IF main = "wakeup" THEN Drop(lock, Main) ELSE lock
  /\ asker' = [asker EXCEPT ![serving] = After(IF main = "sleep" THEN "AppSleep"
                                              ELSE "AppWakeup")]
  /\ main' = "wait" /\ serving' = NoWindow
  /\ UNCHANGED <<windowVars, mainPort, waitCount, next, closeWindow, opener, ghost>>
-----------------------------------------------------------------------------
(***************************************************************************)
(* MainWait ends, and RemoveAllPatches gives the library functions back    *)
(* (the module Patches), or refuses.  Then MainWait is called again; it    *)
(* reads no message any more, because iwt_CloseWindow is still set, and    *)
(* ends with the next signal: of its port, or of a program that has ended. *)
(***************************************************************************)
LeaveMainWait ==
  /\ main = "wait" /\ closeWindow
  /\ \/ main' = "unpatched"
     \/ MayFail /\ main' = "refused"
  /\ UNCHANGED <<windowVars, mainPort, serving, waitCount, next, closeWindow, lock, asker,
                 opener, ghost>>

Signalled ==
  /\ main = "refused"
  /\ main' = "wait"
  /\ UNCHANGED <<windowVars, mainPort, serving, waitCount, next, closeWindow, lock, asker,
                 opener, ghost>>

(***************************************************************************)
(* The way out: every window in the list is asked to close, one after the  *)
(* other.  The list is locked exclusively, then shared, and for a moment   *)
(* it is not locked; the window after this one was read before.            *)
(***************************************************************************)
Successor(w) ==
  LET i == CHOOSE i \in DOMAIN list : list[i] = w
  IN  IF i = Len(list) THEN NoWindow ELSE list[i + 1]

LockForQuit ==
  /\ main = "unpatched" /\ CanExclusive(lock, Main)
  /\ lock' = GrabExclusive(lock, Main)
  /\ next' = IF list = << >> THEN NoWindow ELSE Head(list)
  /\ main' = "quit"
  /\ UNCHANGED <<windowVars, mainPort, serving, waitCount, closeWindow, asker, opener,
                 ghost>>

AskToCloseStays ==   \* mutant: the next window is read after the wait
  /\ main = "quit" /\ Listed(next)
  /\ UNCHANGED next
  /\ \/ /\ Send({next}, "CloseWindow")
        /\ waitCount' = 1
        /\ ghost' = [ghost EXCEPT !.freed = 0]
        /\ lock' = Drop(lock, Main)
        /\ main' = "relock"
     \/ MayFail /\ UNCHANGED <<port, waitCount, ghost, lock, main>>
  /\ UNCHANGED <<list, proc, asleep, timerSent, closing, mainPort, serving, closeWindow,
                 asker, opener>>

AskToClose ==
  /\ main = "quit" /\ Listed(next)
  /\ next' = Successor(next)
  /\ \/ /\ Send({next}, "CloseWindow")
        /\ waitCount' = 1
        /\ ghost' = [ghost EXCEPT !.freed = 0]
        /\ lock' = Drop(lock, Main)
        /\ main' = "relock"
     \/ MayFail /\ UNCHANGED <<port, waitCount, ghost, lock, main>>
  /\ UNCHANGED <<list, proc, asleep, timerSent, closing, mainPort, serving, closeWindow,
                 asker, opener>>

Relock ==
  /\ main = "relock" /\ CanShared(lock, Main)
  /\ lock' = GrabShared(lock, Main)
  /\ main' = "quitwait"
  /\ UNCHANGED <<windowVars, mainPort, serving, waitCount, next, closeWindow, asker,
                 opener, ghost>>

Closed ==
  /\ main = "quitwait" /\ waitCount = 0
  /\ main' = "quit"
  /\ UNCHANGED <<windowVars, mainPort, serving, waitCount, next, closeWindow, lock, asker,
                 opener, ghost>>

(***************************************************************************)
(* What the main task does with a window structure that is freed is        *)
(* anything.                                                               *)
(***************************************************************************)
FollowFreed ==
  /\ main = "quit" /\ next # NoWindow /\ ~Listed(next)
  /\ main' = "astray"
  /\ UNCHANGED <<windowVars, mainPort, serving, waitCount, next, closeWindow, lock, asker,
                 opener, ghost>>

AllAskedLocked ==   \* mutant: the list stays locked
  /\ main = "quit" /\ next = NoWindow
  /\ UNCHANGED lock
  /\ main' = "drain"
  /\ UNCHANGED <<windowVars, mainPort, serving, waitCount, next, closeWindow, asker,
                 opener, ghost>>

AllAsked ==
  /\ main = "quit" /\ next = NoWindow
  /\ lock' = Drop(lock, Main)
  /\ main' = "drain"
  /\ UNCHANGED <<windowVars, mainPort, serving, waitCount, next, closeWindow, asker,
                 opener, ghost>>

(***************************************************************************)
(* Every window process holds QuitSemaphore from its first statement to    *)
(* its end: one that has been created and has not run yet does not.        *)
(***************************************************************************)
HoldsQuit(w) == proc[w] \notin {"none", "created", "gone"}

WaitForQuit ==
  /\ main = "drain" /\ \A w \in Window : ~HoldsQuit(w)
  /\ main' = "done"
  /\ UNCHANGED <<windowVars, mainPort, serving, waitCount, next, closeWindow, lock, asker,
                 opener, ghost>>
-----------------------------------------------------------------------------
(***************************************************************************)
(* AsyncResetScalosProg: Scalos sleeps, the list is looked through for     *)
(* windows that are not on the screen, and Scalos wakes up.  Without       *)
(* memory for a message the step is skipped.                               *)
(***************************************************************************)
AskSleep(a) ==
  /\ asker[a] = "awake"
  /\ \/ /\ mainPort' = Append(mainPort, RequestOf(a, "AppSleep"))
        /\ asker' = [asker EXCEPT ![a] = "asksleep"]
     \/ MayFail /\ asker' = [asker EXCEPT ![a] = "asleep"] /\ UNCHANGED mainPort
  /\ UNCHANGED <<windowVars, main, serving, waitCount, next, closeWindow, lock, opener,
                 ghost>>

Reset(a) ==
  /\ asker[a] = "asleep" /\ Alone
  /\ asker' = [asker EXCEPT ![a] = "reset"]
  /\ UNCHANGED <<windowVars, mainVars, lock, opener, ghost>>

AskWakeup(a) ==
  /\ asker[a] = "reset"
  /\ \/ /\ mainPort' = Append(mainPort, RequestOf(a, "AppWakeup"))
        /\ asker' = [asker EXCEPT ![a] = "askwakeup"]
        /\ UNCHANGED ghost
     \/ /\ MayFail /\ asker' = [asker EXCEPT ![a] = "done"]
        /\ ghost' = [ghost EXCEPT !.failed = TRUE] /\ UNCHANGED mainPort
  /\ UNCHANGED <<windowVars, main, serving, waitCount, next, closeWindow, lock, opener>>

(***************************************************************************)
(* sca_OpenIconWindow, for an icon of a drawer: if the list has a window   *)
(* of that drawer already, it is activated; otherwise a process for a new  *)
(* window is started.                                                      *)
(***************************************************************************)
FindWindow(o) ==
  /\ opener[o] = "start" /\ CanShared(lock, o)
  /\ \E w \in Window :
       Listed(w) /\ Shown(w) /\ opener' = [opener EXCEPT ![o] = w]
  /\ lock' = GrabShared(lock, o)
  /\ UNCHANGED <<windowVars, mainVars, asker, ghost>>

ActivateIt(o) ==
  /\ opener[o] \in Window
  /\ opener' = [opener EXCEPT ![o] = "done"]
  /\ lock' = Drop(lock, o)
  /\ UNCHANGED <<windowVars, mainVars, asker, ghost>>

StartWindow(o) ==
  /\ opener[o] = "start" /\ CanShared(lock, o) /\ main # "done"
  /\ \E w \in Window : proc[w] = "none" /\ proc' = [proc EXCEPT ![w] = "created"]
  /\ opener' = [opener EXCEPT ![o] = "done"]
  /\ UNCHANGED <<list, asleep, timerSent, closing, port, mainVars, lock, asker, ghost>>
-----------------------------------------------------------------------------
MainStep ==
  \/ TimerReplyMsg \/ CloseWindowMsg \/ AppSleepMsg \/ AppWakeupMsg
  \/ WaitReply \/ Answered
  \/ LeaveMainWait \/ LockForQuit \/ AskToClose \/ Relock \/ Closed \/ FollowFreed \/ AllAsked
  \/ WaitForQuit

WindowStep(w) ==
  \/ Begin(w) \/ EnterList(w) \/ Handle(w) \/ Obeys(w)
  \/ CloseIt(w) \/ Dispose(w) \/ End(w)

Next ==
  \/ MainStep
  \/ Signalled
  \/ ProcessTimerMessage
  \/ \E w \in Window : WindowStep(w) \/ UserCloses(w)
  \/ \E a \in Asker : AskSleep(a) \/ Reset(a) \/ AskWakeup(a)
  \/ \E o \in Opener : FindWindow(o) \/ ActivateIt(o) \/ StartWindow(o)

(***************************************************************************)
(* A process goes on with what it has begun.  Nobody holds the window list *)
(* again and again, so weak fairness is enough for who waits for it.  No   *)
(* user closes a window, opens one, or resets Scalos because he must, and  *)
(* nothing has to signal the main task after RemoveAllPatches refused.     *)
(***************************************************************************)
Fairness ==
  /\ WF_vars(MainStep)
  /\ \A w \in Window : WF_vars(WindowStep(w))
  /\ \A o \in Opener : WF_vars(ActivateIt(o))

Spec == Init /\ [][Next]_vars /\ Fairness
-----------------------------------------------------------------------------
TypeOK ==
  /\ list \in Seq(Window) /\ IsInjective(list)
  /\ \A w \in Window : Listed(w) <=> proc[w] \in {"listed", "leaving", "closed"}
  /\ proc \in [Window -> Proc]
  /\ asleep \in [Window -> BOOLEAN] /\ timerSent \in [Window -> BOOLEAN]
  /\ closing \in [Window -> BOOLEAN]
  /\ \A w \in Window : \A i \in DOMAIN port[w] : port[w][i].type \in WindowMessage
  /\ lock \in SemaphoreType /\ Exclusive(lock)
  /\ main \in {"wait", "refused", "unpatched", "sleep", "wakeup",
               "quit", "relock", "quitwait", "drain", "done", "astray"}
  /\ serving \in Asker \cup {NoWindow}
  /\ waitCount \in Nat
  /\ next \in Window \cup {NoWindow}
  /\ closeWindow \in BOOLEAN
  /\ asker \in [Asker -> {"awake", "asksleep", "asleep", "reset", "askwakeup", "done"}]
  /\ opener \in [Opener -> Window \cup {"start", "done"}]

(***************************************************************************)
(* The main task waits for exactly as many answers as are on their way or  *)
(* were thrown away by a window that ended: whatever else arrives at its   *)
(* port, it never goes on early, which would leave an answer behind for    *)
(* the next wait, and it waits in vain only for a window that ended.       *)
(***************************************************************************)
Asked(type) == PlacesIn(port, Window, {Request(type)})

Answers(type) == Places(mainPort, {Reply(w, type) : w \in Window})

OnTheWay(type) == Cardinality(Asked(type)) + Cardinality(Answers(type))

WaitingFor == IF main = "relock" THEN "CloseWindow" ELSE WaitsFor

CountMatches ==
  WaitingFor # "nothing" => waitCount = OnTheWay(WaitingFor) + ghost.freed

(***************************************************************************)
(* WSV_FlagF_TimerMsgSent is set while one timer message of the window is  *)
(* on its way, and then there is only one.  It stays set for ever, and the *)
(* window never gets another timer message, once the answer arrived while  *)
(* the main task waited for others, or there was no memory for the         *)
(* message.                                                                *)
(***************************************************************************)
TimersOf(w) == Cardinality(Places(port[w], {Request("Timer")}))
               + Cardinality(Places(mainPort, {Reply(w, "Timer")}))

TimerAccounted ==
  \A w \in Window : Listed(w) =>
    IF w \in ghost.noTimer THEN timerSent[w] /\ TimersOf(w) = 0
    ELSE TimersOf(w) = (IF timerSent[w] THEN 1 ELSE 0)

(***************************************************************************)
(* When everybody who put Scalos to sleep has woken it up, no window       *)
(* sleeps on, unless one could not be opened or a request to wake up       *)
(* arrived while the main task waited for answers, and was ignored.        *)
(***************************************************************************)
NobodyOversleeps ==
  /\ main = "wait"
  /\ \A a \in Asker : asker[a] \in {"awake", "done"}
  /\ ~ghost.failed /\ "AppWakeup" \notin ghost.ignored
  => \A w \in Window : Listed(w) => ~asleep[w]

(***************************************************************************)
(* On the way out the main task goes on to a window that is freed only if  *)
(* that one was closed by its user: none that it asked is visited again.   *)
(* Who keeps the list locked uses windows that are not freed; they may be  *)
(* closed, though: SCCM_Window_Close does not lock the list.               *)
(***************************************************************************)
NeverAstray ==
  /\ main = "quit" /\ next # NoWindow => Listed(next) \/ next \in ghost.left
  /\ \A o \in Opener : opener[o] \in Window => Listed(opener[o])

(***************************************************************************)
(* The main task gets all its answers, unless a window was closed by its   *)
(* user before it read the message.                                        *)
(***************************************************************************)
Deserted ==
  \/ ghost.freed > 0
  \/ \E w \in Window : proc[w] \in {"leaving", "closed", "unlisted"} /\ Unanswered(w, Waited) > 0

AnswersArrive == WaitingFor # "nothing" ~> WaitingFor = "nothing" \/ Deserted

(***************************************************************************)
(* After its main window Scalos goes too, unless there was no memory to    *)
(* tell the main task, the message came while the main task waited for     *)
(* answers, RemoveAllPatches refused, the main task waits in vain or went  *)
(* astray, or some window was not asked to close: it opened too late, or   *)
(* there was no memory for the message.                                    *)
(***************************************************************************)
ScalosQuits ==
  proc[MainWindow] = "gone" ~>
    \/ main \in {"done", "astray", "refused"}
    \/ ghost.untold
    \/ "CloseScalos" \in ghost.ignored
    \/ Deserted
    \/ main = "drain" /\ \E w \in Window : proc[w] = "listed" /\ ~closing[w]
=============================================================================
