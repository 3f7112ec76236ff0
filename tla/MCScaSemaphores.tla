--------------------------- MODULE MCScaSemaphores ---------------------------
(***************************************************************************)
(* Two or three window tasks and the list shapes of the callers: an icon   *)
(* update (update semaphore without nesting, icon list, window shared) and *)
(* a window that closes (window and child semaphore).                      *)
(***************************************************************************)
EXTENDS ScaSemaphores

CONSTANTS Update, Icon, Window

X(s) == [mode |-> "Exclusive", sema |-> s]
S(s) == [mode |-> "Shared", sema |-> s]
N(s) == [mode |-> "ExclusiveNoNest", sema |-> s]

MCSema == {Update, Icon, Window}

UpdateList == << N(Update), X(Icon), S(Window) >>   \* AutoUpdate.c
CloseList  == << X(Window), X(Icon) >>              \* windowtask.c
ReadList   == << S(Icon), S(Window) >>

MCAttemptLists == {UpdateList, CloseList}
MCObtainLists  == {ReadList, CloseList}
=============================================================================
