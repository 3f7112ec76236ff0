------------------------------ MODULE WindowTask ------------------------------
(***************************************************************************)
(* The life of a Scalos window: main/windowtask.c, the message handling of *)
(* main/RootClass.c and main/Subroutines.c, the child processes of         *)
(* main/ChildProcess.c, main/Pattern.c and main/Thumbnails.c, and the      *)
(* messages of main/Messages.c that start children or close the window.    *)
(*                                                                         *)
(* Every window is a process (Own) with a message port.  Its commands run  *)
(* in child processes that use the window's data.  The window holds        *)
(* iwt_ChildProcessSemaphore to know that no child is left, and            *)
(* wt_WindowSemaphore to know that nothing else relies on the window.      *)
(***************************************************************************)
EXTENDS SignalSemaphore, Sequences, FiniteSets

CONSTANTS
  Own,        \* the window process
  Child,      \* the child processes
  Guest,      \* other processes that lock wt_WindowSemaphore (drag and drop)
  Kinds,      \* which children there are, out of AllKinds
  EnvMsgs,    \* which messages others send to the window
  MayFail,    \* TRUE: processes cannot be created, opening the window fails
  MayAbort,   \* TRUE: reading the directory may fail or be aborted
  Roles,      \* what the window may be, out of AllRoles
  MaxMsgs,    \* bound: messages others send
  MaxDepth,   \* bound: WaitReply calls inside each other
  ULongs      \* iwt_IconPortOutstanding is a ULONG: it has ULongs values

(***************************************************************************)
(* "wait":     SCCM_RunProcess with SCCV_RunProcess_WaitReply              *)
(* "alone":    a child whose message has no reply port of this window      *)
(* "thumb":    GenerateThumbnailProcess, replies to wt_IconPort            *)
(* "backfill": reads a background picture, replies to wt_IconPort          *)
(***************************************************************************)
AllKinds == {"wait", "alone", "thumb", "backfill"}

(***************************************************************************)
(* "main":        the main window, closing it quits Scalos                 *)
(* "replacement": the main window while Scalos replaces Workbench          *)
(*                (MainTask.emulation)                                     *)
(* "drawer":      any other window                                         *)
(***************************************************************************)
AllRoles == {"main", "replacement", "drawer"}

Replies  == {"RunReply", "BackFillReply", "ReqYes", "ReqNo"}
Requests == {"IDCMP_CLOSEWINDOW", "CloseWindow", "RunMenuCmd", "NewPattern"}

ASSUME ProcessAssumption ==
  /\ Own \in Task
  /\ Child \subseteq Task \ {Own}
  /\ Guest \subseteq Task \ ({Own} \cup Child)
ASSUME SwitchAssumption ==
  /\ Kinds \subseteq AllKinds
  /\ EnvMsgs \subseteq Requests
  /\ Roles \subseteq AllRoles
  /\ {MayFail, MayAbort} \subseteq BOOLEAN
ASSUME BoundAssumption ==
  MaxMsgs \in Nat /\ MaxDepth \in Nat /\ ULongs \in Nat \ {0}

VARIABLES
  phase,         \* where WindowTask() is
  depth,         \* how many WaitReply(MTYP_RunProcess) it is inside
  hand,          \* the child it is starting in ChildProcessRun
  port,          \* wt_IconPort
  taken,         \* MsgList of SCCM_CheckForMessages
  closeWindow,   \* iwt_CloseWindow
  outstanding,   \* iwt_IconPortOutstanding
  asyncLayout,   \* iwt_AsyncLayoutPending
  winSemaLocked, \* WinSemaLocked of WindowTask()
  windowSema,    \* wt_WindowSemaphore
  childSema,     \* iwt_ChildProcessSemaphore
  quitSema,      \* QuitSemaphore
  childPc,       \* where each child process is
  childKind,     \* what it runs
  guestPc,       \* where each guest is
  role,          \* which window this is, for good
  requesters,    \* open requesters of UseAsyncRequestArgs
  unanswered,    \* MTYP_CloseWindow messages whose sender still waits
  sent           \* messages sent so far, for MaxMsgs

control  == <<phase, depth, hand>>
messages == <<port, taken, requesters, unanswered, sent>>
flags    == <<closeWindow, outstanding, asyncLayout, winSemaLocked>>
semas    == <<windowSema, childSema, quitSema>>
others   == <<childPc, childKind, guestPc, role>>
vars     == <<control, messages, flags, semas, others>>

NoHand == [kind |-> "none", child |-> NoTask]

(***************************************************************************)
(* sca_OpenIconWindow has created the process, which has not run yet.      *)
(***************************************************************************)
Init ==
  /\ phase = "created"
  /\ depth = 0
  /\ hand = NoHand
  /\ port = << >>
  /\ taken = << >>
  /\ closeWindow = FALSE
  /\ outstanding = 0
  /\ asyncLayout = FALSE
  /\ winSemaLocked = FALSE
  /\ windowSema = FreeSemaphore
  /\ childSema = FreeSemaphore
  /\ quitSema = FreeSemaphore
  /\ childPc = [c \in Child |-> "idle"]
  /\ childKind = [c \in Child |-> "alone"]
  /\ guestPc = [g \in Guest |-> "idle"]
  /\ role \in Roles
  /\ requesters = 0
  /\ unanswered = 0
  /\ sent = 0

(***************************************************************************)
(* Where WindowTask() is.  It reads and handles messages in the phases of  *)
(* Listening.  Listed says when the window is in the window list, where    *)
(* others find it.  Closed says when it no longer handles messages.        *)
(***************************************************************************)
Listening == {"handling", "checking", "waitreq", "drainchecking"}
Listed    == {"reading", "loop", "closing", "quitting", "draining",
              "childwait", "finish", "dispose"} \cup Listening
Closed    == {"finish", "dispose", "disposed", "emptied", "clear", "freeing",
              "freed", "gone", "alert"}
Phase     == {"created", "setup", "opening"} \cup Listed \cup Closed

(***************************************************************************)
(* Nobody else runs while Own clears its port under Forbid(), and nobody   *)
(* at all after a system alert.                                            *)
(***************************************************************************)
OthersRun == phase \notin {"clear", "alert"}

At(p) == phase = p /\ depth = 0 /\ hand = NoHand
Goto(p) == phase' = p /\ UNCHANGED <<depth, hand>>
-----------------------------------------------------------------------------
(***************************************************************************)
(* Messages from other processes.                                          *)
(***************************************************************************)
Send(m) ==
  /\ OthersRun /\ phase \in Listed
  /\ sent < MaxMsgs
  /\ sent' = sent + 1
  /\ port' = Append(port, m)
  /\ unanswered' = unanswered + IF m = "CloseWindow" THEN 1 ELSE 0
  /\ UNCHANGED <<control, taken, requesters, flags, semas, others>>

(***************************************************************************)
(* The user answers a requester; RequestTask replies its message.          *)
(***************************************************************************)
AnswerRequester(m) ==
  /\ OthersRun
  /\ requesters > 0
  /\ requesters' = requesters - 1
  /\ port' = Append(port, m)
  /\ UNCHANGED <<control, taken, unanswered, sent, flags, semas, others>>
-----------------------------------------------------------------------------
(***************************************************************************)
(* ChildProcessRun.  Begin(k): the caller has set hand; it creates the     *)
(* process, sends it MTYP_StartChildProcess and waits for the answer while *)
(* it holds the child semaphore.                                           *)
(***************************************************************************)
Begin(k) == hand' = [kind |-> k, child |-> NoTask]

CreateChild(c) ==
  /\ phase # "alert"
  /\ hand.kind # "none" /\ hand.child = NoTask
  /\ childPc[c] = "idle"
  /\ CanShared(childSema, Own)
  /\ childSema' = GrabShared(childSema, Own)
  /\ hand' = [hand EXCEPT !.child = c]
  /\ childPc' = [childPc EXCEPT ![c] = "new"]
  /\ childKind' = [childKind EXCEPT ![c] = hand.kind]
  /\ UNCHANGED <<phase, depth, messages, flags, windowSema, quitSema, guestPc, role>>

CountDownBelow(n)   == n - 1      \* mutant: no test for zero
CountDownMissing(n) == n          \* mutant: replies are not counted
CountDown(n) == IF n > 0 THEN n - 1 ELSE 0

(***************************************************************************)
(* What the caller gives back when ChildProcessRun fails, or has started a *)
(* child it does not wait for: RunMenuCommand, called for a message, its   *)
(* window semaphore; RootClass_RunProcess and SetBackFill_AsyncRead their  *)
(* child semaphore.                                                        *)
(***************************************************************************)
EndWindowSemaNever(k) == UNCHANGED windowSema   \* mutant: never released

EndWindowSema(k) ==
  windowSema' = IF k # "backfill" /\ phase \in Listening
                THEN Drop(windowSema, Own) ELSE windowSema

(***************************************************************************)
(* Without a process ChildProcessRun frees the message.                    *)
(* SetBackFill_AsyncRead frees it a second time, which is a system alert.  *)
(***************************************************************************)
CreateFails ==
  /\ MayFail
  /\ phase # "alert"
  /\ hand.kind # "none" /\ hand.child = NoTask
  /\ hand' = NoHand
  /\ phase' = IF hand.kind = "backfill" THEN "alert" ELSE phase
  /\ asyncLayout' = IF hand.kind = "backfill" THEN FALSE ELSE asyncLayout
  /\ outstanding' = IF hand.kind = "wait" THEN CountDown(outstanding)
                                          ELSE outstanding
  /\ EndWindowSema(hand.kind)
  /\ childSema' = IF hand.kind \in {"wait", "backfill"}
                  THEN Drop(childSema, Own) ELSE childSema
  /\ UNCHANGED <<depth, messages, closeWindow, winSemaLocked, quitSema, others>>

(***************************************************************************)
(* The child has answered: release the child semaphore ("keep semaphore    *)
(* locked until we have received the SM_StartChildProcess"), send the      *)
(* message to run, and go on in the caller.                                *)
(***************************************************************************)
RunMessage(c) == childPc' = [childPc EXCEPT ![c] = "run"]

ChildRuns(c) ==
  /\ phase # "alert"
  /\ hand.child = c /\ childPc[c] = "ready"
  /\ RunMessage(c)
  /\ hand' = NoHand
  /\ CASE hand.kind = "wait" ->
            /\ depth' = depth + 1
            /\ childSema' = Drop(childSema, Own)
            /\ UNCHANGED windowSema
       [] hand.kind = "backfill" ->
            /\ childSema' = Drop(Drop(childSema, Own), Own)
            /\ UNCHANGED <<depth, windowSema>>
       [] OTHER ->
            /\ childSema' = Drop(childSema, Own)
            /\ EndWindowSema(hand.kind)
            /\ UNCHANGED depth
  /\ UNCHANGED <<phase, messages, flags, quitSema, childKind, guestPc, role>>
-----------------------------------------------------------------------------
(***************************************************************************)
(* ProcRunnerTask.                                                         *)
(***************************************************************************)
ChildGoto(c, l) == childPc' = [childPc EXCEPT ![c] = l]

ChildSkipsQuit(c) ==              \* mutant: QuitSemaphore is not obtained
  /\ OthersRun
  /\ childPc[c] = "new"
  /\ ChildGoto(c, "hello")
  /\ UNCHANGED <<control, messages, flags, semas, childKind, guestPc, role>>

ChildObtainQuit(c) ==
  /\ OthersRun
  /\ childPc[c] = "new"
  /\ CanShared(quitSema, c)
  /\ quitSema' = GrabShared(quitSema, c)
  /\ ChildGoto(c, "hello")
  /\ UNCHANGED <<control, messages, flags, windowSema, childSema, childKind, guestPc, role>>

ChildAnswers(c) ==
  /\ OthersRun
  /\ childPc[c] = "hello"
  /\ CanShared(childSema, c)
  /\ childSema' = GrabShared(childSema, c)
  /\ ChildGoto(c, "ready")
  /\ UNCHANGED <<control, messages, flags, windowSema, quitSema, childKind, guestPc, role>>

ChildWorks(c) ==
  /\ OthersRun
  /\ childPc[c] = "run" /\ childKind[c] # "thumb"
  /\ ChildGoto(c, "reply")
  /\ UNCHANGED <<control, messages, flags, semas, childKind, guestPc, role>>

(***************************************************************************)
(* GenerateThumbnailProcess: works under the window semaphore, then counts *)
(* an outstanding reply down in two steps of its own.                      *)
(***************************************************************************)
ThumbnailsBegin(c) ==
  /\ OthersRun
  /\ childPc[c] = "run" /\ childKind[c] = "thumb"
  /\ CanShared(windowSema, c)
  /\ windowSema' = GrabShared(windowSema, c)
  /\ ChildGoto(c, "thumb")
  /\ UNCHANGED <<control, messages, flags, childSema, quitSema, childKind, guestPc, role>>

ThumbnailsEnd(c) ==
  /\ OthersRun
  /\ childPc[c] = "thumb"
  /\ windowSema' = Drop(windowSema, c)
  /\ ChildGoto(c, "count")
  /\ UNCHANGED <<control, messages, flags, childSema, quitSema, childKind, guestPc, role>>

ThumbnailsCount(c) ==
  /\ OthersRun
  /\ childPc[c] = "count"
  /\ ChildGoto(c, IF outstanding > 0 THEN "countdown" ELSE "reply")
  /\ UNCHANGED <<control, messages, flags, semas, childKind, guestPc, role>>

ThumbnailsCountDown(c) ==
  /\ OthersRun
  /\ childPc[c] = "countdown"
  /\ outstanding' = (outstanding + ULongs - 1) % ULongs
  /\ ChildGoto(c, "reply")
  /\ UNCHANGED <<control, messages, closeWindow, asyncLayout, winSemaLocked,
                 semas, childKind, guestPc, role>>

ReplyOfRun(k) ==                  \* mutant: no reply port in the message
  IF k \in {"wait", "thumb"} THEN << "RunReply" >> ELSE << >>

ReplyOf(k) ==
  CASE k \in {"wait", "thumb"} -> << "RunReply" >>
    [] k = "backfill"          -> << "BackFillReply" >>
    [] OTHER                   -> << >>

ChildReplies(c) ==
  /\ OthersRun
  /\ childPc[c] = "reply"
  /\ port' = port \o ReplyOf(childKind[c])
  /\ ChildGoto(c, "unlock")
  /\ UNCHANGED <<control, taken, requesters, unanswered, sent, flags, semas,
                 childKind, guestPc, role>>

ChildUnlocks(c) ==
  /\ OthersRun
  /\ childPc[c] = "unlock"
  /\ childSema' = Drop(childSema, c)
  /\ ChildGoto(c, "leaving")
  /\ UNCHANGED <<control, messages, flags, windowSema, quitSema, childKind, guestPc, role>>

ChildLeaves(c) ==
  /\ OthersRun
  /\ childPc[c] = "leaving"
  /\ quitSema' = Drop(quitSema, c)
  /\ ChildGoto(c, "idle")
  /\ childKind' = [childKind EXCEPT ![c] = "alone"]
  /\ UNCHANGED <<control, messages, flags, windowSema, childSema, guestPc, role>>

ChildStep(c) ==
  \/ ChildObtainQuit(c) \/ ChildAnswers(c) \/ ChildWorks(c)
  \/ ThumbnailsBegin(c) \/ ThumbnailsEnd(c)
  \/ ThumbnailsCount(c) \/ ThumbnailsCountDown(c)
  \/ ChildReplies(c) \/ ChildUnlocks(c) \/ ChildLeaves(c)
-----------------------------------------------------------------------------
(***************************************************************************)
(* DropTask, for the window icons are dropped on.  The process of the      *)
(* window they come from keeps the window list locked until DropTask has   *)
(* locked wt_WindowSemaphore.  The drop reads the icon list, unless a      *)
(* directory cannot be locked, and gives everything back.                  *)
(***************************************************************************)
GuestAsked(g) ==
  /\ OthersRun /\ phase \in Listed
  /\ guestPc[g] = "idle"
  /\ guestPc' = [guestPc EXCEPT ![g] = "asked"]
  /\ UNCHANGED <<control, messages, flags, semas, childPc, childKind, role>>

GuestLocks(g) ==
  /\ OthersRun
  /\ guestPc[g] = "asked"
  /\ CanShared(windowSema, g)
  /\ windowSema' = GrabShared(windowSema, g)
  /\ guestPc' = [guestPc EXCEPT ![g] = "inside"]
  /\ UNCHANGED <<control, messages, flags, childSema, quitSema, childPc, childKind, role>>

GuestReads(g) ==
  /\ OthersRun
  /\ guestPc[g] = "inside"
  /\ guestPc' = [guestPc EXCEPT ![g] = "reading"]
  /\ UNCHANGED <<control, messages, flags, semas, childPc, childKind, role>>

GuestUnlocks(g) ==
  /\ OthersRun
  /\ guestPc[g] \in {"inside", "reading"}
  /\ windowSema' = Drop(windowSema, g)
  /\ guestPc' = [guestPc EXCEPT ![g] = "idle"]
  /\ UNCHANGED <<control, messages, flags, childSema, quitSema, childPc, childKind, role>>

(***************************************************************************)
(* Without a FileTransfer object, or when the drop function returns early, *)
(* the process ends and nobody releases the window semaphore any more.     *)
(***************************************************************************)
GuestKeeps(g) ==
  /\ MayFail
  /\ OthersRun
  /\ guestPc[g] = "inside"
  /\ guestPc' = [guestPc EXCEPT ![g] = "ended"]
  /\ UNCHANGED <<control, messages, flags, semas, childPc, childKind, role>>

GuestGoesOn(g) == GuestLocks(g) \/ GuestReads(g) \/ GuestUnlocks(g)

GuestStep(g) == GuestAsked(g) \/ GuestGoesOn(g) \/ GuestKeeps(g)
-----------------------------------------------------------------------------
(***************************************************************************)
(* Both semaphores of the window are locked when it closes.                *)
(***************************************************************************)
CanLockBoth == CanExclusive(windowSema, Own) /\ CanExclusive(childSema, Own)

LockBoth ==
  /\ windowSema' = GrabExclusive(windowSema, Own)
  /\ childSema'  = GrabExclusive(childSema, Own)

UnlockWindow ==                   \* mutant: one semaphore is forgotten
  windowSema' = Drop(windowSema, Own) /\ UNCHANGED childSema

UnlockBoth ==
  /\ windowSema' = Drop(windowSema, Own)
  /\ childSema'  = Drop(childSema, Own)
-----------------------------------------------------------------------------
(***************************************************************************)
(* HandleWindowTaskIconPortMessages.  WaitReply and SCCM_HandleMessages    *)
(* take messages from the port, SCCM_CheckForMessages from its own list.   *)
(***************************************************************************)
FromPort == depth > 0 \/ phase \in {"handling", "waitreq"}
Source   == IF FromPort THEN port ELSE taken

Got(m) ==
  /\ hand = NoHand
  /\ phase \in Listening
  /\ Source # << >>
  /\ Head(Source) = m

Consume ==
  /\ port'  = IF FromPort THEN Tail(port) ELSE port
  /\ taken' = IF FromPort THEN taken ELSE Tail(taken)

(***************************************************************************)
(* The user's click on the close gadget.  SCCM_HandleMessages returns at   *)
(* once, and SCCM_CheckForMessages too, with whatever is left in its list. *)
(***************************************************************************)
CloseGadget ==
  /\ Got("IDCMP_CLOSEWINDOW")
  /\ closeWindow' = TRUE
  /\ port'  = IF FromPort THEN Tail(port) ELSE port
  /\ taken' = IF FromPort THEN taken ELSE << >>
  /\ Goto(IF phase = "handling" /\ depth = 0 THEN "closing" ELSE phase)
  /\ UNCHANGED <<requesters, unanswered, sent, outstanding, asyncLayout,
                 winSemaLocked, semas, others>>

CloseWindowMsg ==
  /\ Got("CloseWindow")
  /\ closeWindow' = TRUE
  /\ unanswered' = unanswered - 1
  /\ Consume
  /\ UNCHANGED <<control, requesters, sent, outstanding, asyncLayout,
                 winSemaLocked, semas, others>>

(***************************************************************************)
(* WinRunMenuCmdMsg, RunMenuCommand: commands run under the window         *)
(* semaphore, or not at all; only Own ever locks it exclusively, so Own's  *)
(* attempt succeeds.  GenerateThumbnails starts nothing in a window that   *)
(* closes; SCCM_RunProcess counts the reply it will wait for.              *)
(***************************************************************************)
MenuWait ==
  /\ Got("RunMenuCmd")
  /\ "wait" \in Kinds /\ depth < MaxDepth
  /\ CanShared(windowSema, Own) /\ CanShared(childSema, Own)
  /\ windowSema' = GrabShared(windowSema, Own)
  /\ childSema' = GrabShared(childSema, Own)
  /\ outstanding' = (outstanding + 1) % ULongs
  /\ Begin("wait")
  /\ Consume
  /\ UNCHANGED <<phase, depth, requesters, unanswered, sent, closeWindow,
                 asyncLayout, winSemaLocked, quitSema, others>>

MenuStart(k) ==
  /\ Got("RunMenuCmd")
  /\ k \in Kinds \cap {"alone", "thumb"}
  /\ k = "thumb" => ~closeWindow
  /\ CanShared(windowSema, Own)
  /\ windowSema' = GrabShared(windowSema, Own)
  /\ Begin(k)
  /\ Consume
  /\ UNCHANGED <<phase, depth, requesters, unanswered, sent, flags,
                 childSema, quitSema, others>>

(***************************************************************************)
(* A command that runs in the window process.                              *)
(***************************************************************************)
MenuNoChild ==
  /\ Got("RunMenuCmd")
  /\ CanShared(windowSema, Own)
  /\ Consume
  /\ UNCHANGED <<control, requesters, unanswered, sent, flags, semas, others>>

(***************************************************************************)
(* NewWindowPatternMsg, SetBackFill: nothing while a picture is read, and  *)
(* no child for a background that needs none.                              *)
(***************************************************************************)
ReadPicture ==
  /\ "backfill" \in Kinds
  /\ ~asyncLayout
  /\ CanShared(childSema, Own)
  /\ childSema' = GrabShared(childSema, Own)
  /\ asyncLayout' = TRUE
  /\ Begin("backfill")

NewPatternRead ==
  /\ Got("NewPattern")
  /\ ReadPicture
  /\ Consume
  /\ UNCHANGED <<phase, depth, requesters, unanswered, sent, closeWindow,
                 outstanding, winSemaLocked, windowSema, quitSema, others>>

NewPatternDone ==
  /\ Got("NewPattern")
  /\ Consume
  /\ UNCHANGED <<control, requesters, unanswered, sent, flags, semas, others>>

(***************************************************************************)
(* AsyncReplyMsg.  Every reply counts outstanding replies down.            *)
(***************************************************************************)
AsyncReplyMsg ==
  /\ Got("BackFillReply")
  /\ asyncLayout' = FALSE
  /\ outstanding' = CountDown(outstanding)
  /\ Consume
  /\ UNCHANGED <<control, requesters, unanswered, sent, closeWindow,
                 winSemaLocked, semas, others>>

(***************************************************************************)
(* A MTYP_RunProcess reply ends the innermost WaitReply, if there is one:  *)
(* SCCM_RunProcess counts down once more and releases the child semaphore, *)
(* RunMenuCommand the window semaphore.                                    *)
(***************************************************************************)
RunReply ==
  /\ Got("RunReply")
  /\ Consume
  /\ IF depth > 0
     THEN /\ depth' = depth - 1
          /\ outstanding' = CountDown(CountDown(outstanding))
          /\ UnlockBoth
     ELSE /\ outstanding' = CountDown(outstanding)
          /\ UNCHANGED <<depth, childSema, windowSema>>
  /\ UNCHANGED <<phase, hand, requesters, unanswered, sent, closeWindow,
                 asyncLayout, winSemaLocked, quitSema, others>>

ReqReply(m) ==
  /\ Got(m)
  /\ Consume
  /\ outstanding' = CountDown(outstanding)
  /\ IF phase = "waitreq" /\ depth = 0
     THEN IF m = "ReqNo"
          THEN /\ UnlockBoth
               /\ winSemaLocked' = FALSE
               /\ closeWindow' = FALSE
               /\ Goto("loop")
          ELSE /\ Goto("quitting")
               /\ UNCHANGED <<childSema, windowSema, winSemaLocked, closeWindow>>
     ELSE UNCHANGED <<control, childSema, windowSema, winSemaLocked, closeWindow>>
  /\ UNCHANGED <<requesters, unanswered, sent, asyncLayout, quitSema, others>>

HandleMessage ==
  \/ CloseGadget \/ CloseWindowMsg
  \/ MenuWait \/ MenuNoChild
  \/ \E k \in AllKinds : MenuStart(k)
  \/ NewPatternRead \/ NewPatternDone
  \/ AsyncReplyMsg \/ RunReply
  \/ ReqReply("ReqYes") \/ ReqReply("ReqNo")
-----------------------------------------------------------------------------
(***************************************************************************)
(* WindowTask(): QuitSemaphore, SetBackFill, SCCM_Window_Open,             *)
(* SCCM_IconWin_Update.                                                    *)
(***************************************************************************)
ObtainQuit ==
  /\ At("created")
  /\ CanShared(quitSema, Own)
  /\ quitSema' = GrabShared(quitSema, Own)
  /\ Goto("setup")
  /\ UNCHANGED <<messages, flags, windowSema, childSema, others>>

SetupRead ==
  /\ At("setup")
  /\ ReadPicture
  /\ phase' = "opening"
  /\ UNCHANGED <<depth, messages, closeWindow, outstanding, winSemaLocked,
                 windowSema, quitSema, others>>

SetupDone ==
  /\ At("setup")
  /\ Goto("opening")
  /\ UNCHANGED <<messages, flags, semas, others>>

Opened ==
  /\ At("opening")
  /\ Goto("reading")
  /\ UNCHANGED <<messages, flags, semas, others>>

OpenFails ==
  /\ MayFail
  /\ At("opening")
  /\ Goto("draining")
  /\ UNCHANGED <<messages, flags, semas, others>>

(***************************************************************************)
(* ReadIconList looks for messages now and then.                           *)
(***************************************************************************)
CheckForMessages(from, to) ==
  /\ At(from)
  /\ taken' = port
  /\ port' = << >>
  /\ Goto(to)
  /\ UNCHANGED <<requesters, unanswered, sent, flags, semas, others>>

ReadCheck == port # << >> /\ CheckForMessages("reading", "checking")

(***************************************************************************)
(* A window that is to close stops reading: SCANDIR_WINDOW_CLOSING.        *)
(***************************************************************************)
ReadCheckedEarly ==               \* mutant: stops at iwt_CloseWindow
  /\ At("checking")
  /\ closeWindow \/ taken = << >>
  /\ taken' = << >>
  /\ Goto(IF closeWindow THEN "draining" ELSE "reading")
  /\ UNCHANGED <<port, requesters, unanswered, sent, flags, semas, others>>

ReadChecked ==
  /\ At("checking")
  /\ taken = << >>
  /\ Goto(IF closeWindow THEN "draining" ELSE "reading")
  /\ UNCHANGED <<messages, flags, semas, others>>

ReadAborted ==
  /\ MayAbort
  /\ At("reading")
  /\ closeWindow' = TRUE
  /\ Goto("draining")
  /\ UNCHANGED <<messages, outstanding, asyncLayout, winSemaLocked, semas, others>>

ReadDone ==
  /\ At("reading")
  /\ Goto("loop")
  /\ UNCHANGED <<messages, flags, semas, others>>

ReadDoneThumbnails ==
  /\ At("reading")
  /\ "thumb" \in Kinds
  /\ Begin("thumb")
  /\ phase' = "loop"
  /\ UNCHANGED <<depth, messages, flags, semas, others>>
-----------------------------------------------------------------------------
(***************************************************************************)
(* The main loop: WaitPort, or Delay(2) in a window that is to close, and  *)
(* SCCM_HandleMessages until the port is empty.                            *)
(***************************************************************************)
LoopAgain ==
  /\ At("loop")
  /\ closeWindow \/ port # << >>
  /\ Goto("handling")
  /\ UNCHANGED <<messages, flags, semas, others>>

Handled ==
  /\ At("handling")
  /\ port = << >>
  /\ Goto(IF closeWindow THEN "closing" ELSE "loop")
  /\ UNCHANGED <<messages, flags, semas, others>>

(***************************************************************************)
(* "Window is going to be closed": lock the window semaphore and the child *)
(* semaphore, both or none.                                                *)
(***************************************************************************)


Pending == outstanding > 0 \/ asyncLayout

(***************************************************************************)
(* "Cannot lock semaphores - perhaps some child process is still running". *)
(* The loop goes on while neither WinSemaLocked nor Finished is set, or a  *)
(* reply is pending.                                                       *)
(***************************************************************************)
CloseDeferred ==
  /\ At("closing")
  /\ ~CanLockBoth
  /\ Goto(IF ~winSemaLocked \/ Pending THEN "loop" ELSE "draining")
  /\ UNCHANGED <<messages, flags, semas, others>>

(***************************************************************************)
(* Both are locked.  While a reply is pending they are released again, but *)
(* WinSemaLocked stays set.                                                *)
(***************************************************************************)
CloseLockedKeeps ==               \* mutant: nothing is released
  /\ At("closing") /\ role = "drawer"
  /\ CanLockBoth
  /\ winSemaLocked' = TRUE
  /\ LockBoth
  /\ Goto(IF Pending THEN "loop" ELSE "draining")
  /\ UNCHANGED <<messages, closeWindow, outstanding, asyncLayout, quitSema, others>>

CloseLocked ==
  /\ At("closing") /\ role = "drawer"
  /\ CanLockBoth
  /\ winSemaLocked' = TRUE
  /\ IF Pending THEN UNCHANGED <<windowSema, childSema>> ELSE LockBoth
  /\ Goto(IF Pending THEN "loop" ELSE "draining")
  /\ UNCHANGED <<messages, closeWindow, outstanding, asyncLayout, quitSema, others>>

(***************************************************************************)
(* "Quit Scalos requested": as the Workbench replacement Scalos cannot     *)
(* quit, and otherwise not while others use scalos.library.                *)
(***************************************************************************)
QuitRefused ==
  /\ At("closing") /\ role = "replacement"
  /\ CanLockBoth
  /\ requesters' = requesters + 1
  /\ winSemaLocked' = FALSE
  /\ closeWindow' = FALSE
  /\ Goto("loop")
  /\ UNCHANGED <<port, taken, unanswered, sent, outstanding, asyncLayout, semas, others>>

QuitLocked ==
  /\ At("closing") /\ role = "main"
  /\ CanLockBoth
  /\ LockBoth
  /\ winSemaLocked' = TRUE
  /\ Goto("quitting")
  /\ UNCHANGED <<messages, closeWindow, outstanding, asyncLayout, quitSema, others>>

QuitAsks ==
  /\ At("quitting")
  /\ requesters' = requesters + 1
  /\ Goto("waitreq")
  /\ UNCHANGED <<port, taken, unanswered, sent, flags, semas, others>>

QuitDecided ==
  /\ At("quitting")
  /\ IF Pending
     THEN UnlockBoth /\ Goto("loop")
     ELSE /\ UNCHANGED <<childSema, windowSema>>
          /\ Goto("draining")
  /\ UNCHANGED <<messages, flags, quitSema, others>>
-----------------------------------------------------------------------------
(***************************************************************************)
(* Cleaning up: "we need to continue handling messages because             *)
(* iwt_AsyncLayoutPending is cleared within message reply handler".        *)
(***************************************************************************)
DrainCheck == asyncLayout /\ CheckForMessages("draining", "drainchecking")

DrainChecked ==
  /\ At("drainchecking")
  /\ taken = << >>
  /\ Goto("draining")
  /\ UNCHANGED <<messages, flags, semas, others>>

Drained ==
  /\ At("draining")
  /\ ~asyncLayout
  /\ Goto("childwait")
  /\ UNCHANGED <<messages, flags, semas, others>>

(***************************************************************************)
(* ScalosObtainSemaphore, ScalosReleaseSemaphore: every child has gone.    *)
(***************************************************************************)
ChildWaitNot ==                   \* mutant: nobody is waited for
  /\ At("childwait")
  /\ Goto("finish")
  /\ UNCHANGED <<messages, flags, semas, others>>

ChildWait ==
  /\ At("childwait")
  /\ CanExclusive(childSema, Own)
  /\ Goto("finish")
  /\ UNCHANGED <<messages, flags, semas, others>>

(***************************************************************************)
(* Releasing a semaphore the process does not hold is a system alert.      *)
(***************************************************************************)
ReleaseBoth ==
  /\ At("finish")
  /\ IF ~winSemaLocked
     THEN Goto("dispose") /\ UNCHANGED <<windowSema, childSema>>
     ELSE IF Holds(windowSema, Own) /\ Holds(childSema, Own)
     THEN Goto("dispose") /\ UnlockBoth
     ELSE Goto("alert") /\ UNCHANGED <<windowSema, childSema>>
  /\ UNCHANGED <<messages, flags, quitSema, others>>

(***************************************************************************)
(* DisposeScalosWindow locks the window list, takes the window off it and  *)
(* frees it.                                                               *)
(***************************************************************************)
WindowListLocked == \E g \in Guest : guestPc[g] = "asked"

DisposeScalosWindow ==
  /\ At("dispose")
  /\ ~WindowListLocked
  /\ Goto("disposed")
  /\ UNCHANGED <<messages, flags, semas, others>>

(***************************************************************************)
(* FreeIconList empties both icon lists while nobody else has them locked. *)
(***************************************************************************)
IconListLocked == \E g \in Guest : guestPc[g] = "reading"

FreeIconLists ==
  /\ At("disposed")
  /\ ~IconListLocked
  /\ Goto("emptied")
  /\ UNCHANGED <<messages, flags, semas, others>>

ForbidOthers ==
  /\ At("emptied")
  /\ Goto("clear")
  /\ UNCHANGED <<messages, flags, semas, others>>

(***************************************************************************)
(* ClearMsgPort replies to replies, so they come back to the same port,    *)
(* and frees requests without a reply.                                     *)
(***************************************************************************)
ClearMsgPort ==
  /\ At("clear")
  /\ port # << >>
  /\ port' = IF Head(port) \in Replies THEN Append(Tail(port), Head(port))
                                       ELSE Tail(port)
  /\ UNCHANGED <<control, taken, requesters, unanswered, sent, flags, semas, others>>

DeletePort ==
  /\ At("clear")
  /\ port = << >>
  /\ Goto("freeing")
  /\ UNCHANGED <<messages, flags, semas, others>>

(***************************************************************************)
(* ScalosDeleteSemaphore obtains the semaphore of the icon list, and then  *)
(* that of the window, before it frees it.                                 *)
(***************************************************************************)
FreeWindowTask ==
  /\ At("freeing")
  /\ ~IconListLocked /\ CanExclusive(windowSema, Own)
  /\ Goto("freed")
  /\ UNCHANGED <<messages, flags, semas, others>>

ReleaseQuit ==
  /\ At("freed")
  /\ quitSema' = Drop(quitSema, Own)
  /\ Goto("gone")
  /\ UNCHANGED <<messages, flags, windowSema, childSema, others>>

(***************************************************************************)
(* The end, and an open window in WaitPort() with nothing going on.  A     *)
(* window that was not read waits for ever for the lock of a drop that has *)
(* ended with it.                                                          *)
(***************************************************************************)
Resting ==
  /\ \/ phase = "alert"
     \/ /\ \/ phase = "gone"
           \/ At("loop") /\ ~closeWindow /\ port = << >>
           \/ phase = "freeing" /\ ~CanExclusive(windowSema, Own)
        /\ \A c \in Child : childPc[c] = "idle"
        /\ \A g \in Guest : guestPc[g] \in {"idle", "ended"}
  /\ UNCHANGED vars

OwnStep ==
  \/ \E c \in Child : CreateChild(c) \/ ChildRuns(c)
  \/ CreateFails
  \/ HandleMessage
  \/ ObtainQuit \/ SetupRead \/ SetupDone \/ Opened \/ OpenFails
  \/ ReadCheck \/ ReadChecked \/ ReadAborted
  \/ ReadDone \/ ReadDoneThumbnails
  \/ LoopAgain \/ Handled
  \/ CloseDeferred \/ CloseLocked
  \/ QuitRefused \/ QuitLocked \/ QuitAsks \/ QuitDecided
  \/ DrainCheck \/ DrainChecked \/ Drained \/ ChildWait
  \/ ReleaseBoth \/ DisposeScalosWindow \/ FreeIconLists \/ ForbidOthers
  \/ ClearMsgPort \/ DeletePort \/ FreeWindowTask \/ ReleaseQuit

Next ==
  \/ OwnStep
  \/ \E c \in Child : ChildStep(c)
  \/ \E g \in Guest : GuestStep(g)
  \/ \E m \in EnvMsgs : Send(m)
  \/ \E m \in {"ReqYes", "ReqNo"} : AnswerRequester(m)
  \/ Resting

Spec == Init /\ [][Next]_vars

(***************************************************************************)
(* Every process is scheduled again and again, a directory has finitely    *)
(* many entries, children come to an end and users answer requesters.      *)
(***************************************************************************)
Fairness ==
  /\ WF_vars(OwnStep) /\ SF_vars(ReadDone \/ ReadDoneThumbnails)
  /\ \A c \in Child : SF_vars(ChildStep(c))
  /\ \A g \in Guest : SF_vars(GuestGoesOn(g))
  /\ WF_vars(\E m \in {"ReqYes", "ReqNo"} : AnswerRequester(m))

FairSpec == Spec /\ Fairness
-----------------------------------------------------------------------------
ChildPC == {"idle", "new", "hello", "ready", "run", "thumb", "count",
            "countdown", "reply", "unlock", "leaving"}
Messages == Requests \cup Replies

TypeOK ==
  /\ phase \in Phase
  /\ depth \in 0 .. MaxDepth
  /\ hand \in [kind : AllKinds \cup {"none"}, child : Child \cup {NoTask}]
  /\ port \in Seq(Messages)
  /\ taken \in Seq(Messages)
  /\ closeWindow \in BOOLEAN
  /\ outstanding \in 0 .. ULongs - 1
  /\ asyncLayout \in BOOLEAN
  /\ winSemaLocked \in BOOLEAN
  /\ windowSema \in SemaphoreType
  /\ childSema \in SemaphoreType
  /\ quitSema \in SemaphoreType
  /\ childPc \in [Child -> ChildPC]
  /\ childKind \in [Child -> AllKinds]
  /\ guestPc \in [Guest -> {"idle", "asked", "inside", "reading", "ended"}]
  /\ role \in Roles
  /\ requesters \in Nat
  /\ unanswered \in Nat
  /\ sent \in 0 .. MaxMsgs

(***************************************************************************)
(* A child process uses the window's data, its port and its semaphores     *)
(* from its start until it has released the child semaphore.  The window   *)
(* is not freed, and its port not deleted, before that: whatever the order *)
(* of close requests, commands, replies and failures.                      *)
(***************************************************************************)
UsesWindow(c) == childPc[c] \notin {"idle", "leaving"}

WindowFreed == phase \in {"disposed", "emptied", "clear", "freeing", "freed", "gone"}

ChildInsideWindow == \A c \in Child : UsesWindow(c) => ~WindowFreed

(***************************************************************************)
(* "Scalos MUST not quit while subprocess is running": QuitSemaphore is    *)
(* free for the main task only when the window process and all its         *)
(* children have ended, or the window process has not begun: its first     *)
(* statement obtains the semaphore (windowtask.c:81), and until then only  *)
(* an opener that is a process of Scalos itself keeps Scalos from going.   *)
(***************************************************************************)
QuitWaitsForAll ==
  Idle(quitSema) =>
    phase \in {"created", "gone"} /\ \A c \in Child : childPc[c] = "idle"

(***************************************************************************)
(* ChildProcessRun waits for a child that can answer: nobody holds the     *)
(* child semaphore exclusively meanwhile.                                  *)
(***************************************************************************)
HandshakeCompletes ==
  hand.child # NoTask => CanShared(childSema, hand.child)

(***************************************************************************)
(* Between two messages of its own the window holds neither of its         *)
(* semaphores, after every way a command or an attempt to close can end.   *)
(***************************************************************************)
NothingLeftLocked ==
  phase \notin {"quitting", "waitreq"} \cup Closed \cup
               {"draining", "drainchecking", "childwait"}
    /\ depth = 0 /\ hand = NoHand
    => ~Holds(windowSema, Own) /\ ~Holds(childSema, Own)

(***************************************************************************)
(* What defers closing has a cause.  "count of outstanding wt_IconPort     *)
(* reply messages": never more than the replies the window process waits   *)
(* for.  While iwt_AsyncLayoutPending is set, the child that answers is    *)
(* still on its way or its answer has yet to be handled.                   *)
(***************************************************************************)
PendingHasCause ==
  /\ outstanding <= depth + IF hand.kind = "wait" THEN 1 ELSE 0
  /\ asyncLayout =>
       \/ hand.kind = "backfill"
       \/ \E c \in Child : /\ childKind[c] = "backfill"
                           /\ childPc[c] \in {"ready", "run", "reply"}
       \/ \E i \in DOMAIN port : port[i] = "BackFillReply"
       \/ \E i \in DOMAIN taken : taken[i] = "BackFillReply"

(***************************************************************************)
(* No semaphore is released that is not held, no message is freed twice.   *)
(***************************************************************************)
NoAlert == phase # "alert"

(***************************************************************************)
(* A window that was told to close, or whose clean-up waits for pictures   *)
(* ("iwt_AsyncLayoutPending is cleared within message reply handler"), is  *)
(* gone at last, however many commands and children still run, unless the  *)
(* clean-up releases what it does not hold (NoAlert) or a drop has ended   *)
(* with the window semaphore locked.                                       *)
(***************************************************************************)
WindowCloses ==
  closeWindow \/ phase = "draining" ~>
    \/ phase \in {"gone", "alert"}
    \/ \E g \in Guest : guestPc[g] = "ended"

CloseRequests(q) == {i \in DOMAIN q : q[i] = "CloseWindow"}

(***************************************************************************)
(* The main task waits for the answer to each MTYP_CloseWindow it sends.   *)
(* While the user leaves the close gadget alone and the window is not      *)
(* freed, every request without an answer is still to be handled.          *)
(***************************************************************************)
RequestsKept ==
  ~WindowFreed =>
    unanswered = Cardinality(CloseRequests(port)) + Cardinality(CloseRequests(taken))
=============================================================================
