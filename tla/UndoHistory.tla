----------------------------- MODULE UndoHistory -----------------------------
(***************************************************************************)
(* What the undo and redo lists of main/Undo.c promise for the steps on    *)
(* them, without order, counters, windows or processes: a step is recorded *)
(* once, is at one place at a time, changes sides only by being undone or  *)
(* redone, and once freed is at none of these places again.                *)
(***************************************************************************)
CONSTANT Step

VARIABLES
  open,     \* steps that are being filled
  past,     \* steps that can be undone
  undoing,  \* steps that are being undone
  future,   \* steps that can be redone
  redoing,  \* steps that are being redone
  freed,    \* steps whose memory was freed
  lost      \* steps nobody refers to any more, and whose memory is not freed

history == <<open, past, undoing, future, redoing, freed, lost>>

Known == open \cup past \cup undoing \cup future \cup redoing \cup freed \cup lost

HistoryInit ==
  /\ open = {} /\ past = {} /\ undoing = {} /\ future = {} /\ redoing = {}
  /\ freed = {} /\ lost = {}

Start(s) ==
  /\ s \notin Known
  /\ open' = open \cup {s}
  /\ UNCHANGED <<past, undoing, future, redoing, freed, lost>>

(***************************************************************************)
(* Starting the first event of a step forgets what could be redone.        *)
(***************************************************************************)
StartAfresh(s) ==
  /\ s \notin Known
  /\ open' = open \cup {s}
  /\ future' = {}
  /\ freed' = freed \cup future
  /\ UNCHANGED <<past, undoing, redoing, lost>>

Record(s) ==
  /\ s \in open
  /\ open' = open \ {s}
  /\ \E oldest \in SUBSET (past \cup {s}) :
       /\ past' = (past \cup {s}) \ oldest
       /\ freed' = freed \cup oldest
  /\ UNCHANGED <<undoing, future, redoing, lost>>

Forget(S) ==
  /\ S \subseteq open \cup past \cup future
  /\ open' = open \ S /\ past' = past \ S /\ future' = future \ S
  /\ freed' = freed \cup S
  /\ UNCHANGED <<undoing, redoing, lost>>

BeginUndo(s) ==
  /\ s \in past
  /\ past' = past \ {s}
  /\ undoing' = undoing \cup {s}
  /\ UNCHANGED <<open, future, redoing, freed, lost>>

EndUndo(s) ==
  /\ s \in undoing
  /\ undoing' = undoing \ {s}
  /\ \/ future' = future \cup {s} /\ freed' = freed
     \/ future' = future /\ freed' = freed \cup {s}
  /\ UNCHANGED <<open, past, redoing, lost>>

BeginRedo(s) ==
  /\ s \in future
  /\ future' = future \ {s}
  /\ redoing' = redoing \cup {s}
  /\ UNCHANGED <<open, past, undoing, freed, lost>>

EndRedo(s) ==
  /\ s \in redoing
  /\ redoing' = redoing \ {s}
  /\ \/ past' = past \cup {s} /\ freed' = freed
     \/ past' = past /\ freed' = freed \cup {s}
  /\ UNCHANGED <<open, undoing, future, lost>>

(***************************************************************************)
(* A step is lost with what could be redone when its only event fails, and *)
(* by itself when no process can be created for it.                        *)
(***************************************************************************)
Lose(s) ==
  \/ /\ s \notin Known \/ s \in open
     /\ open' = open \ {s}
     /\ lost' = lost \cup {s}
     /\ future' = {}
     /\ freed' = freed \cup future
     /\ UNCHANGED <<past, undoing, redoing>>
  \/ /\ s \in past \cup future
     /\ past' = past \ {s} /\ future' = future \ {s}
     /\ lost' = lost \cup {s}
     /\ UNCHANGED <<open, undoing, redoing, freed>>

HistoryNext ==
  \/ \E s \in Step :
       \/ Start(s) \/ StartAfresh(s) \/ Record(s) \/ Lose(s)
       \/ BeginUndo(s) \/ EndUndo(s) \/ BeginRedo(s) \/ EndRedo(s)
  \/ \E S \in SUBSET Step : Forget(S)

HistorySpec == HistoryInit /\ [][HistoryNext]_history
=============================================================================
