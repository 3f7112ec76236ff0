# A verification project for Scalos

Scalos is a replacement for the Amiga Workbench: a desktop whose every window
is a process. The modules here model the part of `src/main` that holds these
processes together: the semaphores they share, the locks on a window's icon
list, the life of a window with the child processes that run its commands, the
main task with the list of windows and the way out, the undo and redo lists,
the patches of other libraries, and the tree that directory scans and patches
look things up in. The models are checked with TLC. Their safety is also proved
with TLAPS, for every set of tasks, windows, children, messages and steps: the
semaphore lists, the icon list lock, the window process with its children, the
main task with its messages, the undo and redo lists with the abstract history
they implement, and the patches. Only the tree is left to TLC.

Source names are kept where TLA+ allows it. A module's definitions are mapped
to source lines in `PROJECT.json` under `map`.

## 1. The system

Paths are relative to `src/main`.

| Part | State it keeps | Operations | Talks to | What makes it correct |
|---|---|---|---|---|
| Semaphore lists (`Semaphores.c`) | none but the semaphores | obtain or attempt a tag list of semaphores | every other part | all or nothing; nobody waits while he holds something |
| Icon list lock (`Window.c`, users in `AutoUpdate.c`, `PopupMenus.c`, `ScanDir.c`) | `wt_IconSemaphore`, two counters of the window process | lock shared or exclusively, attempt, unlock, upgrade | window process, its children, other windows | the counters know the process's own shared locks; a lock keeps the list stable |
| Window process (`windowtask.c`, `RootClass.c`, `Subroutines.c`, `Messages.c`) | port, `iwt_CloseWindow`, `iwt_IconPortOutstanding`, `iwt_AsyncLayoutPending`, two semaphores | open, read a directory, handle messages, close | children by semaphores, messages and replies; main task | not freed under a child; always closes; nothing left locked |
| Child processes (`ChildProcess.c`, `Request.c`) | a process port, the message to run | start with a handshake, run, reply, leave | window process, `QuitSemaphore` | the handshake ends; the answer comes; Scalos waits for them |
| Background pictures (`Pattern.c`, `BackFill.c`) | pattern list and its semaphore, the pending flag | read asynchronously, share, free | window process, children | the flag is cleared exactly when the answer is in |
| Thumbnails (`Thumbnails.c`, `ThumbnailCache.c`) | list of icons to do, SQLite cache | queue, generate, flush | window process, a child | no icon is used after it is freed |
| Drag and drop (`DragDrop.c`, `DragDropBobs.c`, `DropMarks.c`) | drag handle | drag, drop in a process of its own | source and target window | the target window exists while icons are dropped |
| Commands (`MenuCommand.c`, `Menu.c`, `FileCommands.c`, ...) | none | run a menu command, in the window or in a child | window process | a command runs under the window semaphore or not at all |
| Directory scan (`ScanDir.c`, `ScanDirText.c`) | scan list | read, merge, sort | window process, `AutoUpdate.c` | the list is the directory when the scan ends |
| Main task and shutdown (`ScalosInit.c`, `MainWait.c`, `cleanup.c`, ...) | window list, `QuitSemaphore`, main port | open and close windows, quit, sleep and wake up all windows | every window process | quits only when all windows and children have ended, and then does |
| scalos.library (`ScaLibrary*.c`, `Class.c`) | window list semaphore, class list, library counts | lock and walk the window list, messages, app objects | everybody | nodes are not freed while a walker holds the list |
| Undo and redo (`Undo.c`) | two event lists, a semaphore | add, undo, redo, in a process of their own | windows, file transfer | a step is at one place at a time, and stays there while a process writes to it |
| File transfer (`FileTransClass.c`, `Rename.c`) | a transfer window, flags | copy, move, with retry, skip, abort | undo, user | nothing deleted that was not copied |
| Preferences (`Prefs.c`, `filetypes.c`, `ToolTypes.c`, `BTree.c`) | preferences, file type tree | read, look up | everybody | look-up finds what was inserted |
| Backdrop and default icons (`Backdrop.c`, `DefIcons.c`) | backdrop list, icon cache, semaphores | load, add, remove, save | windows | the file is the list |
| Workbench start (`wbl.c`, `WBStartup.c`, ...) | programs running | start, wait for the message's return | dos | started programs are counted |
| User input, classes, drawing, memory, locale | per object | drawing and layout | intuition | not about states |
| Libraries, modules, plugins, preference programs, datatypes | their own | | | separate programs |

`PROJECT.json` lists each of them under `components`, with a note on what is
left out and why.

### What is hard about it

* **Processes and one shared structure.** A window's structure is used by its
  own process, by its children and by other windows. Only semaphores keep it
  alive, and they are taken in many orders.
* **Re-entrance.** `WaitReply` handles whatever else arrives, so a command may
  start inside a command, and answers meet the innermost wait.
* **Two ways to be busy.** `iwt_IconPortOutstanding` and
  `iwt_AsyncLayoutPending` each say "do not close yet", and each can be wrong
  on its own: the first is a `ULONG` that is decremented in more places than it
  is incremented.
* **Partial failure.** A process cannot be created, a directory cannot be read,
  one semaphore of a list is taken: all else must be undone.
* **Close at any time.** A click on the close gadget interrupts reading,
  handling and waiting, with messages in two queues.
* **One port for everything.** The main task waits for answers at the port
  where requests, timer answers and the news of the main window arrive too, and
  for some of them with the window list locked.
* **Nowhere for a while.** A step that is being undone is on neither list, and
  whoever cleans up the lists does not find it.
* **Others patch too.** Scalos can leave only functions that nobody patched
  after it, and must put everything back when one cannot be left.

The list of single hazards, each at its line, with the properties that look for
it, is `hazards` in `PROJECT.json`.

## 2. The modules

| Module | Models | Extended by |
|---|---|---|
| `SignalSemaphore` | exec semaphores as Scalos uses them (owner and one nest count per task) | `ScaSemaphores`, `IconListLock`, `WindowTask`, `MainTask` |
| `ScaSemaphores` | `ScaObtainSemaphoreListA`, `ScaAttemptSemaphoreListA` | `MCScaSemaphores`, proofs |
| `IconListLock` | the icon list lock and its callers | `MCIconListLock`, proofs |
| `WindowTask` | window process, children, requesters, guests | `MCWindowTask`, proofs |
| `MainTask` | main task, window list, messages between the main task and the windows, the way out | `MCMainTask`, proofs |
| `UndoHistory` | what the undo and redo lists promise (abstract) | instance in `UndoRedo` |
| `ExecList` | exec lists as sequences: what is left of one when nodes are removed, where nodes of a kind are in one list or in many | `UndoRedo`, `MainTask` |
| `UndoRedo` | the undo and redo lists, windows and processes that use them | `MCUndoRedo`, proofs |
| `Patches` | patches of library functions, set and removed | `MCPatches`, proofs |
| `BTree` | the AVL tree and its users | `MCBTree` |
| `SignalSemaphoreTheorems` | lemmas about the semaphore operators | `ScaSemaphoresProofs`, `IconListLockProofs`, `WindowTaskProofs` |
| `ExecListTheorems` | lemmas about lists: removal, order, no node twice, how many of a kind | `UndoRedoProofs`, `MainTaskProofs`, `PatchesProofs` |
| `ScaSemaphoresProofs` | the theorems about semaphore lists | |
| `IconListLockProofs` | the theorems about the icon list lock | |
| `WindowTaskProofs` | the theorems about a window and its children | |
| `UndoRedoProofs` | the theorems about the undo and redo lists | |
| `PatchesProofs` | the theorems about patches | |
| `MainTaskProofs` | the theorems about the main task and the window list | |

### SignalSemaphore

exec is not in the repository. A semaphore is `[owner, nest]`: `owner` is
`ss_Owner` while somebody holds it exclusively, `nest[t]` is how often `t` has
obtained it. Two things the code relies on, and comments on, are in it: an
owner may take it shared once more, which nests the exclusive lock
(`GrabShared`), and a task that holds it shared cannot get it exclusively,
which is what "guarantees a deadlock" in the comment at `Window.c:2164`.

### ScaSemaphores

A call is a cursor `pos` in its tag list. One action is one step of a loop:
`AttemptEntry`, `AttemptFails`, `UndoEntry`, `UndoDone`, then for the obtaining
function `WaitDone`, `GiveBack`, `Again`. The loops run under `Forbid()`
(`forbid`), which a wait breaks as exec does. `told` is what the caller was
told it has: `Balanced` compares it to what the semaphores say.

Callers of `ScaObtainSemaphoreListA` are taken to hold none of the list's
semaphores, and a list names a semaphore once (`ListAssumption`), as all calls
in the source do.

### IconListLock

`Own` is the window process, the only one the counters
`iwt_IconListLockedShared` and `iwt_IconListLockedExclusive` are about.
`ScalosLockIconListShared` makes three attempts and a wait, each an action of
its own since the semaphore may change hands in between. `Upgrade`, `Relock`,
`Relocked` are the release of all shared locks and the exclusive locks that
replace them, under `Forbid()`. `locks[t]` is a ghost: the stack of locks `t`
has asked for. What callers do with the icons is one number, `version`; `seen`
is the version a task relies on.

A click on an icon is `SendPopup`: the process that reads it (`Poppers`) finds
the icon in the window under the pointer, mostly its own, and leaves the lock to
the message, which also carries the icon. `handed[t]` is what `t` has sent to
`Own`: for each message the version in which the icon was found. `ShowPopup` is
`Own` showing the menu and unlocking in its own name, at once or when the window
becomes active, with whatever its counters say. Two ghosts name what goes wrong
with such messages: `overtaken`, that the sender has let go of their locks in an
upgrade or has changed the list itself, and `mixed`, that `Own` has counted down
a lock of its own for a menu somebody else asked for.

Callers keep two rules in the model: only the window process asks for an
exclusive lock while it holds shared ones, and, unless `Relapse` is TRUE, it
does not lock exclusively inside an exclusive lock whose count a nested shared
lock has used up (see section 5).

### WindowTask

| Model | Code |
|---|---|
| `phase` | where `WindowTask()` is: its process created, setup, opening, reading, the loop, handling, closing, quitting and its requester, draining, the wait for children, disposing, its lists emptied, clearing the port, freeing |
| `depth` | `WaitReply(MTYP_RunProcess)` calls inside each other |
| `hand` | the `ChildProcessRun` under way: what kind, which child |
| `port`, `taken` | `wt_IconPort`; the local `MsgList` of `SCCM_CheckForMessages` |
| `closeWindow`, `outstanding`, `asyncLayout`, `winSemaLocked` | `iwt_CloseWindow`, `iwt_IconPortOutstanding` (a `ULONG`, modulo `ULongs`), `iwt_AsyncLayoutPending`, the local `WinSemaLocked` |
| `windowSema`, `childSema`, `quitSema` | `wt_WindowSemaphore`, `iwt_ChildProcessSemaphore`, `QuitSemaphore` |
| `childPc`, `childKind` | each child: created, has `QuitSemaphore`, has answered, runs its message, replies, releases |
| `guestPc` | a `DropTask` of another window: asked, inside this one, reading its icon list, or ended without releasing it |
| `requesters`, `unanswered`, `sent` | open asynchronous requesters; close requests whose sender waits; bound |
| `role` | main window, main window of a Workbench replacement, or drawer |

A message is its type. `HandleMessage` is the disjunction of what the message
table does with the types that start, answer or close; each action takes the
head of the right queue (`Source`) and does all the handler does. The child
kinds differ in who waits for them and where they reply.

The first statement of the process is to obtain `QuitSemaphore` (`ObtainQuit`),
some time after whoever opened the window created the process. Closing ends
with two waits: for the icon list to be free (`FreeIconLists`), and, in
`FreeWindowTask`, for the icon list and the window semaphore once more, since
`ScalosDeleteSemaphore` obtains a semaphore before it frees it. A drop that ends
without a `FileTransfer` object or whose drop function returns early has never
released them (`GuestKeeps`), and the window process waits for ever.

`NewPattern` stands for the preference message that makes a window read its
background again.

### MainTask

`WindowTask` looks into one window; `MainTask` looks at all of them from
outside.

| Model | Code |
|---|---|
| `list`, `lock` | `winlist`, `WinListSemaphore` |
| `proc` | each window: not there, its process created, begun, in the list, past its loop, closed, disposed, its process gone |
| `asleep`, `timerSent` | `WSV_FlagF_TaskSleeps`, `WSV_FlagF_TimerMsgSent` |
| `port`, `mainPort` | the messages of the main task in each `iwt_IconPort`; `ii_MainMsgPort` |
| `closing`, `closeWindow` | `iwt_CloseWindow` of each window and of the main task |
| `main`, `serving`, `waitCount`, `next` | where the main task is, whose request it carries out, `WaitCount`, `wsNext` |
| `asker`, `opener` | processes in `AsyncResetScalosProg` and in `sca_OpenIconWindow` |
| `ghost` | what went wrong: requests freed or ignored, memory short, the main task not told, windows closed by users |

`AppSleepMsg`, `AppWakeupMsg`, `ProcessTimerMessage` and the loop of
`ScalosInit.c` send; `WaitReply` takes one message after the other and drops
what is not the answer; `Answered` is the end of the wait. `Dispose` is
`DisposeScalosWindow`, which needs the list to itself, `End` is `ClearMsgPort`
with the rest. A window that is told to close finds its port empty first
(`Obeys`), one whose user closes it may not (`UserCloses`). What the walk does
with a freed window is the phase `astray`.

Allocating a message, the one that tells of the main window's end among them
(`End`), and opening a window again may fail if `MayFail`, and so may
`RemoveAllPatches`: the main task is then back in `MainWait`, reads no message
any more, and tries again at the next signal (`Signalled`), which need not come.
To wait for `QuitSemaphore` is to wait until no process holds it (`HoldsQuit`): a
window whose process was created but has not begun (`Begin`) does not count.
`WindowTask` checks of one window what this rests on (`QuitWaitsForAll`).

The list is locked by the main task and the openers (`ActorAssumption`); who
needs it for one action only, like a window that moves in, waits until nobody
has it (`Alone`). A message on its way is a place in a port, and how many there
are is the number of such places (`OnTheWay`, `TimersOf`).

### UndoRedo and UndoHistory

Steps are numbered in the order they begin. `BeginStep`, `AddEvent`, `EndStep`
are `UndoBeginStep`, `UndoAddEventTagList` and `UndoEndStep`; `Undo` and `Redo`
take a step off a list, `UndoTask` and `RedoTask` append it to the other one
after the hooks have run. Then they release the semaphore, but they are not done
with the step: they dispose of its `FileTransfer` object and write NULL where it
was (`EndTask`). `late` is the processes in between, and the ghost `crossed`
those that the next command of a quick user has overtaken. `Open` and `Close`,
`UndoPass`, `RedoPass` are `UndoWindowSignalOpening` and the two loops of
`UndoWindowSignalClosing`, with what `WindowTask()` does around them. Closing
records a step, which ends the redo list, unless there is no memory for it
(`CloseUnrecorded`): then the redo list stays. Events are told apart by what
makes a step be removed: one that refers to a window task, one that refers to a
directory, and all others. `UndoCount` is a `ULONG` (`ULongs` values).

`UndoHistory` has sets instead of lists and knows no counter, window or
process. `UndoRedo` implements it (`StepsLiveOnce`) with the sets of what is on
each list and in each process; a step is `lost` when nobody refers to it and it
was not freed. The refinement is about where a step is, and not about who still
writes to it: that is `LateTasksAreSafe`.

### Patches

A function is a vector; `SetFunction` exchanges it. `vector[f]` is what a call
runs first, `oldFunction[f]` is `*pe_OldFunction`, `patch[g]` is another
program's patch. `SetAllPatches`, `RemoveStandard`, `RemoveEmulation`,
`RemoveHard` and `SetBack` follow `Patches-classic.c`. What a call of
`SetPatches` or `RemovePatches` does under `Forbid()` is one action; between
two calls others run. The preferences change in between (`NewPrefs`). Other
programs take off their patch only when it is on top.

### BTree

The tree is a record in a record, and `Rotate(t, side)` says for both sides
what `rotate_left` and `rotate_right` say. A key is hidden instead of removed.
`table` is what the callers think they put in. `InsertFails` is an insertion
without memory, `Garbage` what is left after a NULL pointer was followed. The
recursive functions are RECURSIVE operators, so nothing is proved about them.

## 3. The runs

| Run | Asks | Result |
|---|---|---|
| `semaphore_lists` | two tasks, three semaphores, lists in opposite orders with shared, exclusive and non-nesting entries, each nested twice | holds |
| `icon_list` | the window process and two others, three locks deep, popup messages that carry locks and icons, from others and from the window process to itself | holds |
| `icon_list_returns` | does every lock call return, is anybody ever stuck, with a popup message of the window process to itself but none of other processes | holds |
| `window_closes_safely` | a drawer with all kinds of children and messages, failures and aborts | holds |
| `background_pictures` | no answer and no close request is lost, and a window told to close is gone at last, if nobody clicks the close gadget | holds |
| `main_window_quits` | the main window quits, or refuses to as the Workbench replacement, with thumbnails, pictures and a drop under way, which may end without unlocking | holds |
| `undo_redo` | the two lists under everything windows and processes do to them, one process still writing to the step it put back; the refinement of `UndoHistory` | holds |
| `patches` | two other programs patch meanwhile, every attempt to quit may be refused | holds |
| `main_task` | three windows, two programs that reset Scalos, one that opens a drawer | holds |
| `main_task_answers` | does the main task get its answers and quit, with every failure | holds |
| `btree` | seven keys in every order, once without memory | holds |
| `stale_lock_flag` | the finding of section 5 | violated |

Every property of a passing run has a mutant of the model in `PROJECT.json`
under `mutants` that breaks it; the mutated operators stand before the
definition they replace, marked `mutant:`.

### Bounds

* Tasks: two tasks for lists, since failing, undoing and waiting involve one
  other holder; three for the icon list, where a shared lock can outlive
  another one.
* `MaxNest`, `MaxLocks` (3): shared in exclusive in shared is the shortest
  nesting that confuses the counters.
* `MaxPopups` 2: one message is shown while another one of the same sender is
  still in the port, and two senders interleave. For liveness one is enough to
  be in the way of the upgrade.
* Two children: one that is waited for and one that runs meanwhile, or two
  waits inside each other (`MaxDepth` 2).
* `MaxMsgs` 3: a command, a second one or a new background, and a close request,
  in any order. The behaviours of section 5 need at most three.
* `ULongs` 4 (windows) and 8 (undo): more values than replies or steps there
  can be, so a count below zero shows as the largest value and does not look
  like a legal one.
* `MaxVersion` 2: a list that changed, and changed again.
* Main task: the main window, another one that is open and one that can be
  opened, so the list grows and shrinks on both sides of the window looked at.
  With two askers a request arrives while another is carried out. With
  `MayFail` there is one asker.
* Undo: the desktop and one more address, for two drawers in turn; at most four
  steps, two more than `MaxUndoSteps`, of which each window keeps one for
  closing. `MaxLate` 1: what happens to the step of a late process happens to
  each on its own.
* Patches: two standard functions, so that a list can be half removed, one of
  each other kind; two other programs, so that one can patch on top of another.
* Tree: seven keys make trees of height four, and with six a double rotation
  meets a grandchild that leans to one side; memory is short once.

Symmetry over the other tasks (icon list) or the children (windows) is used in
safety runs only.

### Deadlock

Deadlock is an error in the runs about semaphore lists and windows, and in
`icon_list_returns`. In `icon_list` the window process may wait exclusively for
a list that another process's popup message in its own port keeps locked
shared; without such messages the model has no dead end, which
`icon_list_returns` checks. In
`WindowTask` the action `Resting` stands for a window that waits for the user
and for the end. `UndoRedo`, `Patches` and `MainTask` end with Scalos, and
`MainTask` also ends where the main task waits in vain or went astray, which
its properties are about; `BTree` ends with a tree that is garbage.

### Fairness

* `IconListLock`: exec grants a semaphore to waiting tasks in the order they
  came, and callers unlock: strong fairness of each call's steps and of
  unlocking. `LockReturns` leaves out the case that others hold the list.
* `WindowTask`: each process is scheduled (weak fairness of the window's steps,
  strong fairness of each child, whose semaphores are free again and again),
  reading a directory ends although messages interrupt it, guests go on
  (`GuestGoesOn`; that one ends with its locks kept is possible, never due), and
  users answer requesters. Nothing makes anybody send a message.
* `MainTask`: the main task and every window process are scheduled and an
  opener gives back the list. Users do not have to close windows and programs
  do not have to reset Scalos. Nobody takes the list again and again for ever,
  so weak fairness is enough.
* `Patches`: the main task is scheduled, and messages go on arriving while
  quitting is refused (`AskToQuit`); without them `MainWait` would not return.

## 4. What the properties say

* `Balanced`, `WaitsEmptyHanded`, `NoNestNeverNests`: the
  list functions take all semaphores or none, wait with none, and an update
  does not nest.
* `CountersMatch`: while the window process holds the list shared, its counter
  is exact, so the upgrade knows every lock in its own way. Locks that popup
  messages of others carry are outside it, and so is a lock of its own that it
  has given back for such a message (`mixed`).
* `ExclusiveIsAlone`, `ListStableUnderLock`: nobody else holds a list locked
  exclusively, and what was read under any lock stays true, the icon in a popup
  message included. The property names what is not so protected: after an
  upgrade the list must be read again, and the icon of a message the window
  process sent to itself before it may be gone.
* `ChildInsideWindow`, `QuitWaitsForAll`, `HandshakeCompletes`,
  `NothingLeftLocked`: the semaphores do what their comments say. That Scalos
  does not quit meanwhile (`QuitWaitsForAll`) holds from the moment the process
  of the window has begun: before it, it rests on whoever opens the window. If
  that is a Scalos process it waits for the window with `QuitSemaphore` in hand.
* `PendingHasCause`, `RequestsKept`: the flags that defer closing agree with
  the answers under way.
* `WindowCloses`, `LockReturns`: it ends, but for a window a drop has left
  locked.
* `MainTask`: the wait count is exact (`CountMatches`), a timer flag has its
  message (`TimerAccounted`), nobody sleeps when all who asked for sleep asked
  for wakeup (`NobodyOversleeps`), the walk on the way out does not leave the
  list, and a window found in the list is in it as long as the list is locked
  (`NeverAstray`), answers come and Scalos goes (`AnswersArrive`,
  `ScalosQuits`). Several of these are false as one would like them. They then
  name the causes, and say that there are no others: a wakeup ignored inside
  another wait, a window closed by its user before it read the message, a
  window nobody asked, no memory to tell the main task that the main window has
  gone, patches that could not be removed.
* `UndoRedo`: `CountMatches` (the counter of seven functions), `InOrder` (order
  and number of the steps, as long as one thing is done at a time),
  `OnlyHandsEscape` (a step about a window that is gone was in the hand of a
  process), `NothingAfterCleanup`, `StepsLiveOnce` (a step is on one list,
  in one hand, or freed, and comes back from nowhere), `LateTasksAreSafe` (what
  a process writes to after it put it on a list is still on that list, with the
  two causes that are named).
* `Patches`: `CallsGetThrough` at every moment, `FailedQuitRestores`,
  `GoneIsUnpatched`, `QuitsAtLast`.
* `BTree`: it is an AVL tree (`AVL`), it finds what a table would find and
  counts what can be found (`FindsWhatBelongs`).

## 5. Findings

**`stale_lock_flag`** `WinSemaLocked` stays TRUE after the semaphores are
released because a reply is pending. If the next attempt fails because a child
runs, the loop ends and the clean-up releases semaphores that are not held.

The models also have the following behaviours, which no run reports; where a
property is about one of them, it names it as its exception.

Windows:

* Two tasks can undo each other's semaphore lists for ever, and the window
  process can wait for a lock in its own port.
* A shared lock that is released inside an exclusive one is counted down as
  exclusive; the next exclusive lock of the window process then releases the
  outer one (`Window.c:2209`, constant `Relapse`).
* A click on the close gadget makes `SCCM_CheckForMessages` forget the rest of
  its list; when the answer to a background picture is in it, the clean-up
  waits for ever (`RootClass.c:303`). `background_pictures` leaves the click
  out.
* A command handled while the quit requester is open starts a child that needs
  the semaphore the window process holds (`windowtask.c:445`).
* `ClearMsgPort` answers the replies and frees the requests. A reply goes back
  to the same port, under `Forbid()`, for ever (`Subroutines.c:569`).
* A background picture whose process cannot be created is freed twice
  (`CreateFails`). The thumbnail child decrements the counter of the window in
  two steps, and it can wrap. A window that could not be read is freed under a
  drop.
* A drop that gets no `FileTransfer` object, or whose drop function returns
  early, ends with the window semaphores of both windows locked
  (`DragDrop.c:364`, `DragDrop.c:597`). These windows cannot be closed any more.
* A window opened by a process that is not one of Scalos's own is not waited for
  between `CreateNewProcTags` and its first statement (`windowtask.c:81`).
* The icon in a popup message of the window process to itself may be removed
  before the menu is shown: the upgrade gives back the lock the message carries
  (`Window.c:2180`, `PopupMenus.c:230`).

Main task:

* A user who closes a window before it has read the message makes the main task
  wait for ever: for sleep, for wakeup with the list locked exclusively, or on
  the way out.
* A wakeup, or the news that the main window is gone, that arrives while the
  main task waits is answered and forgotten: windows sleep on, or Scalos stays.
* The main window's process may have no memory to tell the main task that it has
  gone (`windowtask.c:650`), and `RemoveAllPatches` may refuse
  (`ScalosInit.c:1671`): Scalos stays, without a main window.
* A timer answer that arrives during a wait leaves its flag set for good. One
  that arrives later than its window is written to freed memory.
* Between unlocking and locking the list the next window on the way out may be
  freed (`ScalosInit.c:1700`).
* `scalos.doc` says that no window can be closed while the window list is
  locked; `SCCM_Window_Close` closes it without the list. Only its structure
  stays.

The rest:

* `UndoTask` and `RedoTask` write to their step after they have put it on a list
  and released the semaphore (`Undo.c:691`, `Undo.c:751`). The next command, or
  a window that opens or closes, may have freed it by then or handed it to
  another process.
* A step in the hand of `UndoTask` or `RedoTask` comes back to a list after the
  window it refers to has gone. `Undo()` with nothing to undo makes the counter
  wrap.
* With hard emulation on, a failure to remove its patches does not stop Scalos
  from going (`Patches-classic.c:194`). With an icon.library below 44 it never
  goes.
* After a node could not be allocated the tree is no AVL tree, and a rotation
  can follow a NULL pointer (`BTree.c:129`).

## 6. What is proved

`ScaSemaphoresProofs`, for all `Task`, `Sema`, `AttemptLists`, `ObtainLists`
and `MaxNest` that satisfy `NoTaskAssumption`, `ListAssumption` and
`MaxNestAssumption`:

* `TypeCorrect`: `Spec => []TypeOK`, no lock count becomes negative;
* `AllOrNothing`: `Spec => []Balanced`;
* `EmptyHanded`: `Spec => []WaitsEmptyHanded`;
* `UpdatesDoNotNest`: `Spec => NoNestNeverNests`.

The inductive invariant is
`IInv == TypeOK /\ CursorsInside /\ Balanced`. `TypeOK` is
not inductive alone: a release must find a count above zero, which is
`Balanced`. `Balanced` needs to know that an undo loop stays behind the entry
that failed and that only the obtaining function, whose caller holds nothing,
comes to the wait: `CursorsInside`. `WaitsEmptyHanded` follows without a step of
its own: a waiting task has nothing in hand and was told nothing. There is one
lemma per action; `OneTask` reduces each to the task that moves.
`SignalSemaphoreTheorems` has the facts about the semaphore operators that they
use.

`UpdatesDoNotNest` is an action property. It needs one more inductive fact,
`NoNestIsFirst`: a non-nesting entry the loop has passed is the first lock its
task has, since the attempt saw a nest count of one and `Balanced` splits it.

`IconListLockProofs`, for all `Task`, `Own` and `Poppers`, and all bounds:

* `TypeCorrect`: `Spec => []TypeOK`, neither counter becomes negative;
* `CountersCorrect`: `Spec => []CountersMatch`;
* `ExclusiveAlone`, `ListStable`: `Spec => []ExclusiveIsAlone` and
  `Spec => []ListStableUnderLock`, if `~Relapse`: section 5 has what happens
  otherwise.

The inductive invariant accounts for every obtain of `wt_IconSemaphore`
(`LocksCounted`): it belongs to a lock of its task, to a popup message, or is
still owed by an upgrade that is on its way. `CountersMatch` needs it because
an upgrade releases `ss_NestCount` times, whatever the counters say. To it come:
the window process counts exclusive locks only while it owns the list
(`NoExclusive`); only the window process upgrades, with its shared count
already zero (`OwnRelocks`); the exclusive lock of an icon update is in no
counter (`UpdateUncounted`); and another task that asks for an exclusive lock
has none or is the owner (`AsksAlone`). A second invariant, `EInv`, says that
whoever was granted an exclusive lock is the owner, which is what a relapse
breaks, that an upgrade on its way has overtaken all messages the window process
sent to itself, and `ListStableUnderLock`.

`WindowTaskProofs`, for all `Child`, `Guest`, `Kinds`, `EnvMsgs`, `Roles`,
`MaxMsgs`, `MaxDepth` and `ULongs`, with and without failures:

* `TypeCorrect`: `Spec => []TypeOK`;
* `ChildrenStayInside`: `Spec => []ChildInsideWindow`;
* `QuitWaits`: `Spec => []QuitWaitsForAll`;
* `HandshakeEnds`: `HandshakeCompletes` at every moment, except while the main
  window has its requester about quitting open. The run checks a drawer, which
  has none; section 5 has what happens in the main window;
* `NothingHeld`: `Spec => []NothingLeftLocked`;
* `RequestsCorrect`: `Spec => []RequestsKept`, if `IDCMP_CLOSEWINDOW` is not in
  `EnvMsgs`;
* `PendingCorrect`: `Spec => []PendingHasCause`, if moreover `"thumb"` is not in
  `Kinds`.

The inductive invariant `IInv` says who has obtained the three semaphores, and
how often. A child or a guest has what its place says (`OtherLocks`): the child
semaphore from its answer until it releases it, `QuitSemaphore` from its first
statement to its end, the window semaphore while it makes thumbnails. The window has them
once per `WaitReply` it is inside, once for a command that is being started,
once more during the handshake, and once from the decision to close
(`OwnLocks`). It owns both or none, and only in the phases that close
(`ClosingLocks`). `ChildWait` succeeds when the child semaphore is idle, so no
child is between its answer and its release, and `Starting` says that none is
before its answer either, since the window has no hand out: this is why a
window is not freed under a child (`ChildrenLeft`). `Starting` also ties the
children that have not answered to the handshake they are in.

The two conditions of the last theorems are those of `background_pictures`.
They are needed: a click on the close gadget drops messages, and a thumbnail
child counts down replies that are not its own (section 5). `MInv` says that a
list of messages taken from the port is handled to its end, `PInv` that a
picture that is pending is in the window's hand, with a child or in a message.

`UndoRedoProofs`, for every finite `Window`, all `Dir`, limits and numbers of
steps below `ULongs`:

* `TypeCorrect`: `Spec => []TypeOK`;
* `CountCorrect`: `Spec => []CountMatches`;
* `OrphansEscaped`: `Spec => []OnlyHandsEscape`;
* `CleanupIsLast`: `Spec => []NothingAfterCleanup`;
* `LateIsSafe`: `Spec => []LateTasksAreSafe`;
* `ImplementsHistory`: `Spec => StepsLiveOnce`, the refinement: every first
  state and every step of `UndoRedo` is one of `UndoHistory`, or changes
  nothing there;
* `OrderCorrect`: `Spec => []InOrder`.

The inductive invariant says first that a step is at one place (`Once`): being
filled by one window, on one list and only once, in the hand of a process, or
freed. `LateTasksAreSafe` is in it itself, with two facts: the window of a late
process is still there (`LateParentsStay`), so the clean-up comes after it, and
its step is filled by nobody (`LateApart`). `OnlyHandsEscape` needs to know how
far a window that closes has come: `Passed` says which steps about it are left after the first and after the
second loop of `UndoWindowSignalClosing`. For `CleanupIsLast`, a window stays
while a process of its own has a step (`ParentsStay`) and no window is left when
the lists are freed (`QuitIsLast`). The rest (`Fills`, `RoomToClose`, `Shows`,
`OwnSize`) is bookkeeping: there is a number left for the step of every window
that is to close. `OrderCorrect` has an invariant of its own, about the order of
the two lists and the step in hand. The theorems about lists it rests on, that
removing nodes keeps the others in their order and that a sorted list stays
sorted at either end, are in `ExecListTheorems`.

`PatchesProofs`, for all disjoint `Standard`, `Emulation`, `Hard` and all
`Program` (`PatchAssumption`, `ProgramAssumption`):

* `TypeCorrect`: `Spec => []TypeOK`, NULL is never written to a vector;
* `RefusedQuitRestores`: `Spec => []FailedQuitRestores`;
* `GoneLeavesNoPatch`: `Spec => []GoneIsUnpatched`;
* `CallsAlwaysGetThrough`: `Spec => []CallsGetThrough`.

The inductive invariant is
`IInv == TypeOK /\ OnePointer /\ Progress /\ GoneIsUnpatched`. `OnePointer` says
that Scalos is in the chain of a function at most once, on top or below one
other patch, and only if `*pe_OldFunction` is set: what `RemovePatches` finds
on top it can take off, and what other programs put back is never a Scalos that
has gone. `Progress` says which lists are installed at each place of the main
task, and that `pref_HardEmulation` is on where the hard list is tried.
`SetPatchesFacts` and `TakeOffFacts` are about the two functions; there is one
lemma per action.

`CallsGetThrough` is about a chain as long as there are programs. The invariant
for it is `HasChains`: for every function there is a list of what a call runs
(`Links`), from what is in the vector to the function itself, each calling the
next one on and none twice, with Scalos in it exactly if `*pe_OldFunction` is
set. To set a patch pushes onto this list, to take one off pops from it (`Push`,
`Pop`), and `OnePointer` says where Scalos can be when it is taken out below
another patch. `Runs`, the recursive function the run evaluates, is the set of
this list (`RunsOfChain`): that it is the same at every length is shown with
`LeastNumber` of `ExecListTheorems`, that a set of numbers which is not empty
has a least one, instead of induction.

`MainTaskProofs`, for all finite `Window`, all `Open`, `Asker`, `Opener` and
`Ticking` that satisfy `ActorAssumption`, with and without `MayFail`:

* `TypeCorrect`: `Spec => []TypeOK`, with the list of exactly those windows
  whose process has moved in and not yet left it;
* `NextIsThereOrLeft`: `Spec => []NeverAstray`;
* `AnswersCounted`: `Spec => []CountMatches`;
* `TimersAccounted`: `Spec => []TimerAccounted`;
* `EverybodyWakes`: `Spec => []NobodyOversleeps`.

The inductive invariant is
`IInv == Basic /\ Excused /\ NextOK /\ CountsOK /\ TimersOK /\ SleepOK`.

* `Basic`: types, and who has the list locked how often (`Locks`): the main task
  while it wakes windows up and on the way out, an opener while it uses the
  window it found. So a window that wants the list to itself finds neither
  (`NobodyHolds`), and what was found stays listed (`Found`). Nobody has sent
  anything to a window that was never in the list (`Fresh`).
* `Excused`, `NextOK`: a window that leaves its loop was closed by its user or
  asked to close. The next window on the way out was not asked, nor was any
  after it in the list, since the main task asks from the front and new windows
  come to the end. The two together are `NeverAstray`. The moment without the
  lock is in `NextOK`: it says nothing about whether the next window is still
  listed, since it need not be.
* `CountsOK`: of the three types that are waited for only one is on its way at
  any time, the one the main task waits for, and of this type there are as many
  as it counts, less those thrown away. That the others are at zero is what
  makes it inductive: each wait starts with no old answer of its type left.
* `TimersOK`: `TimerAccounted`, for all windows that are not disposed of yet,
  so that it holds when one moves into the list. Of the others the messages are
  thrown away.
* `SleepOK`: while the main task waits for nothing, either an asker is between
  its sleep and its wakeup or no listed window sleeps; while it wakes them up,
  each that still sleeps has the message in its port. It needs `CountsOK`: with
  all answers in, no port has a wakeup left, so nobody sleeps.

The counts are cardinalities of sets of places. The lemmas of
`ExecListTheorems` say how they change when a port grows, loses its first
message or is emptied (`PlacesAppend`, `PlacesTail`), when the ports of one
window or of many change (`PlacesInOne`, `PlacesInSome`). From them come
`WaySend`, `WayHandle`, `WayTake`, `WayPut` and `WayEmpty`, one for each thing
that happens to a message, and the same for timers. There is one lemma for each
part of the invariant, with one step per action.

Only model-checked: the tree, and liveness. `BTree` has RECURSIVE operators and
claims about trees of any depth, which need induction over data; that is out of
the prover's reach, as is liveness under fairness (`QuitsAtLast`,
`AnswersArrive`, `ScalosQuits`, `WindowCloses`, `LockReturns`).

## 7. What is not modelled

The repository has some 470000 lines, and `src/main`, the program itself, 47000
of them. The rest is a vendored SQLite and allocator, the preference programs
and their plugins, command modules, icon datatypes, and the libraries they
share: user interfaces, file formats, and code that belongs to others. In
`src/main` itself more than half is drawing, layout, BOOPSI classes, menus and
reading files, in one process and without state that others see. So the models
stand for some 4500 lines, about a tenth of the program and a hundredth of the
repository; a third of the repository would mean SQLite and the preference
editors. The models go where processes meet.

Of what is modelled, these parts are left out:

* Windows: the message types that redraw, rename and change colours; what
  commands do; `PatternSema` and shared pattern nodes, with `FreeBackFill` of a
  running window; what a drop does with a window that was freed under it; the
  popup menu that waits in `iwt_PopupMenuPending` (`windowtask.c:393` frees and
  keeps it); single failures of the start-up of
  `WindowTask()`, which `OpenFails` stands for; the `DEBUG_SEMAPHORES` build.
* Icon list: a parked popup menu whose memory is short, or that overwrites another
  one (`IconWindowClass.c:2626`), and so never gives its lock back.
* What single runs leave out: `window_closes_safely` has a drawer without drops,
  so no answers of quit requesters (the theorems have both);
  `background_pictures` leaves out the close gadget, thumbnails and drops. A
  message that is freed twice shows only as an alert, which only `NoAlert` looks
  for.
* Main task: windows that lock the window list for a command of their own
  (`Functions.c:444`, `MenuCommand.c:2619`), also while the main task has it
  exclusively for a wakeup; notifications, ARexx, application icons and their messages;
  iconified windows; which drawer a window shows, so that two processes may
  open it twice (`Functions.c:446`). `AsyncResetScalosProg` only locks the
  list: in the model no window is missing from the screen.
* Undo: windows that other programs open after the desktop has gone; what the
  hooks of the events do to files, icons and windows, and the order of the
  events in a step.
* Patches: what the patched functions do, and processes inside them while they
  are removed; the variants for other platforms.
* Tree: processes that use one tree at the same time, as `PatchOpenBTree` is.
* Directory scan, icon updates and the list of thumbnails: `AutoUpdate.c:1675`
  unlocks the icon list inside the loop over it, and `Thumbnails.c:304` tests a
  list outside its semaphore; both are hazards without a property.

## 8. Plan

Built: semaphore lists, the icon list lock, the window process, the main task
with the window list, undo and redo with an abstract history, and patches, all
with proofs; the tree. Next, in this order:

1. `WindowLife`, an abstract window that both `WindowTask` and one window of
   `MainTask` implement. `Excused` and `Basic` of `MainTaskProofs` and
   `ChildrenLeft` of `WindowTaskProofs` are what the two steps need.
2. `ThumbnailList`; `ScanDir` and `AutoUpdate` under the icon list lock;
   `Backdrop`, `WBStart` and `FileTrans` as far as they keep state between
   steps.
3. The rotations of `BTree`, one at a time: that a rotation keeps the order of
   the keys and repairs the height needs no induction, but operators that are
   not RECURSIVE.

Questions about the same module share a run, and a wider module replaces the
narrower one.
