------------------------------- MODULE Patches -------------------------------
(***************************************************************************)
(* How Scalos patches functions of other libraries and gives them back     *)
(* when it quits: main/Patches-classic.c, and the loop of main/ScalosInit.c *)
(* around RemoveAllPatches.                                                *)
(*                                                                         *)
(* A library function is called through a vector.  SetFunction() replaces  *)
(* the vector and returns what was there; the patch calls that on.  Other  *)
(* programs patch the same functions at any time, before Scalos or on top  *)
(* of it, and take their patch off when nobody patched on top of it.       *)
(* What runs between Forbid() and Permit() is one step.                    *)
(***************************************************************************)
EXTENDS Naturals, FiniteSets

CONSTANTS
  Standard, Emulation, Hard,  \* StandardPatches, EmulationPatches, HardEmulationPatches
  MayBeTooOld,  \* functions whose lib_Version may be below pe_MinVersion
  Program       \* other programs that patch, one function each at a time

Function == Standard \cup Emulation \cup Hard

ASSUME PatchAssumption ==
  /\ Standard \cap Emulation = {} /\ Standard \cap Hard = {}
  /\ Emulation \cap Hard = {}
  /\ MayBeTooOld \subseteq Function
ASSUME ProgramAssumption ==
  IsFiniteSet(Program) /\ Program \cap {"original", "scalos", "null"} = {}

VARIABLES
  vector,       \* what a call of each function runs first
  oldFunction,  \* *pe_OldFunction
  patch,        \* the patch of each program: a function and what it calls on
  main,         \* where the main task is
  closeWindow,  \* iwt_CloseWindow of the main task, which nothing resets
  emulation,    \* MainWindowTask->emulation, for good
  tooOld,       \* functions whose lib_Version is below pe_MinVersion, for good
  hard,         \* CurrentPrefs.pref_HardEmulation
  hardAtStart   \* ghost: what it was in SetAllPatches

world == <<emulation, tooOld, hard, hardAtStart>>
vars == <<vector, oldFunction, patch, main, closeWindow, world>>

Code == {"original", "scalos"} \cup Program
NoPatch == [on |-> "nothing", next |-> "null"]

Main == {"start", "startemulation", "starthard",
         "running", "standard", "standardback",
         "emulation", "emulationback", "emulationfails",
         "hard", "hardback", "hardfails", "hardfails2",
         "cleanup", "gone"}

Init ==
  /\ vector = [f \in Function |-> "original"]
  /\ oldFunction = [f \in Function |-> "null"]
  /\ patch = [g \in Program |-> NoPatch]
  /\ main = "start"
  /\ closeWindow = FALSE
  /\ emulation \in BOOLEAN
  /\ tooOld \in SUBSET MayBeTooOld
  /\ hard \in BOOLEAN
  /\ hardAtStart = FALSE

Goto(p) == main' = p /\ UNCHANGED <<patch, closeWindow, world>>

SetPatchesAgain(list) ==   \* mutant: what is patched is patched again
  LET set == list \ tooOld IN
  /\ oldFunction' = [f \in Function |-> IF f \in set THEN vector[f] ELSE oldFunction[f]]
  /\ vector' = [f \in Function |-> IF f \in set THEN "scalos" ELSE vector[f]]

(***************************************************************************)
(* SetPatches: patches what is not patched, if the library knows it.       *)
(***************************************************************************)
SetPatches(list) ==
  LET set == {f \in list : oldFunction[f] = "null"} \ tooOld IN
  /\ oldFunction' = [f \in Function |-> IF f \in set THEN vector[f] ELSE oldFunction[f]]
  /\ vector' = [f \in Function |-> IF f \in set THEN "scalos" ELSE vector[f]]

(***************************************************************************)
(* The part of RemovePatches under Forbid().  A function that somebody     *)
(* patched on top gets its vector and its *pe_OldFunction back.  The test  *)
(* of pe_OldFunction looks at the address of the variable, so a function   *)
(* that was never patched is tried as well, and never succeeds.            *)
(***************************************************************************)
OnTop(f) == vector[f] = "scalos"

RemovableIfSet(list) == \A f \in list : oldFunction[f] # "null"   \* mutant: *pe_OldFunction only

Removable(list) == \A f \in list : OnTop(f)

TakeOffNull(list) ==   \* mutant: gives back the cleared pointer
  LET off == {f \in list : OnTop(f)} IN
  /\ vector' = [f \in Function |-> IF f \in off THEN "null" ELSE vector[f]]
  /\ oldFunction' = [f \in Function |-> IF f \in off THEN "null" ELSE oldFunction[f]]

TakeOff(list) ==
  LET off == {f \in list : OnTop(f)} IN
  /\ vector' = [f \in Function |-> IF f \in off THEN oldFunction[f] ELSE vector[f]]
  /\ oldFunction' = [f \in Function |-> IF f \in off THEN "null" ELSE oldFunction[f]]

RemovePatches(list, success, failure) ==
  /\ TakeOff(list)
  /\ IF Removable(list) THEN Goto(success) ELSE Goto(failure)
-----------------------------------------------------------------------------
(***************************************************************************)
(* SetAllPatches.                                                          *)
(***************************************************************************)
SetAllPatches ==
  \/ /\ main = "start" /\ SetPatches(Standard)
     /\ main' = IF ~emulation THEN "running"
                ELSE IF hard THEN "starthard" ELSE "startemulation"
     /\ hardAtStart' = (emulation /\ hard)
     /\ UNCHANGED <<patch, closeWindow, emulation, tooOld, hard>>
  \/ main = "starthard" /\ SetPatches(Hard) /\ Goto("startemulation")
  \/ main = "startemulation" /\ SetPatches(Emulation) /\ Goto("running")

(***************************************************************************)
(* MainWait.  Until the user asks Scalos to quit, messages make            *)
(* ChangedMainPrefs read the preferences again.  Once he has asked, the    *)
(* next signal of either port ends MainWait, and no message is looked at.  *)
(***************************************************************************)
NewPrefs ==
  /\ main = "running" /\ ~closeWindow
  /\ hard' = ~hard
  /\ UNCHANGED <<vector, oldFunction, patch, main, closeWindow,
                 emulation, tooOld, hardAtStart>>

AskToQuit ==
  /\ main = "running"
  /\ main' = "standard"
  /\ closeWindow' = TRUE
  /\ UNCHANGED <<vector, oldFunction, patch, world>>

RemoveStandard ==
  /\ main = "standard"
  /\ RemovePatches(Standard, IF emulation THEN "emulation" ELSE "cleanup", "standardback")

RemoveEmulation ==
  /\ main = "emulation"
  /\ RemovePatches(Emulation, IF hard THEN "hard" ELSE "cleanup", "emulationback")

RemoveHard ==
  main = "hard" /\ RemovePatches(Hard, "cleanup", "hardback")

SetBackOne ==   \* mutant: the standard patches stay off
  \/ main = "standardback"   /\ SetPatches(Standard)  /\ Goto("running")
  \/ main = "emulationback"  /\ SetPatches(Emulation) /\ Goto("running")
  \/ main = "hardback"       /\ SetPatches(Hard)      /\ Goto("hardfails")
  \/ main = "hardfails"      /\ SetPatches(Emulation) /\ Goto("hardfails2")
  \/ main = "hardfails2"     /\ SetPatches(Standard)  /\ Goto("cleanup")

SetBackNothing ==   \* mutant: what could not be removed stays off
  \/ main = "standardback"   /\ Goto("running") /\ UNCHANGED <<vector, oldFunction>>
  \/ main = "emulationback"  /\ Goto("emulationfails") /\ UNCHANGED <<vector, oldFunction>>
  \/ main = "emulationfails" /\ SetPatches(Standard)  /\ Goto("running")
  \/ main = "hardback"       /\ Goto("cleanup") /\ UNCHANGED <<vector, oldFunction>>

(***************************************************************************)
(* What could not be removed, and what had been removed before, is set     *)
(* again.  The last branch of RemoveAllPatches does not return FALSE.      *)
(***************************************************************************)
SetBack ==
  \/ main = "standardback"   /\ SetPatches(Standard)  /\ Goto("running")
  \/ main = "emulationback"  /\ SetPatches(Emulation) /\ Goto("emulationfails")
  \/ main = "emulationfails" /\ SetPatches(Standard)  /\ Goto("running")
  \/ main = "hardback"       /\ SetPatches(Hard)      /\ Goto("hardfails")
  \/ main = "hardfails"      /\ SetPatches(Emulation) /\ Goto("hardfails2")
  \/ main = "hardfails2"     /\ SetPatches(Standard)  /\ Goto("cleanup")

(***************************************************************************)
(* PatchCleanup and the rest of the way out.                               *)
(***************************************************************************)
Finish ==
  main = "cleanup" /\ Goto("gone") /\ UNCHANGED <<vector, oldFunction>>
-----------------------------------------------------------------------------
(***************************************************************************)
(* Other programs.                                                         *)
(***************************************************************************)
PatchOther(g, f) ==
  /\ patch[g] = NoPatch
  /\ patch' = [patch EXCEPT ![g] = [on |-> f, next |-> vector[f]]]
  /\ vector' = [vector EXCEPT ![f] = g]
  /\ UNCHANGED <<oldFunction, main, closeWindow, world>>

UnpatchOther(g) ==
  /\ patch[g] # NoPatch
  /\ vector[patch[g].on] = g
  /\ vector' = [vector EXCEPT ![patch[g].on] = patch[g].next]
  /\ patch' = [patch EXCEPT ![g] = NoPatch]
  /\ UNCHANGED <<oldFunction, main, closeWindow, world>>

MainTask ==
  \/ SetAllPatches
  \/ RemoveStandard
  \/ RemoveEmulation
  \/ RemoveHard
  \/ SetBack
  \/ Finish

Next ==
  \/ MainTask
  \/ AskToQuit
  \/ NewPrefs
  \/ \E g \in Program : (\E f \in Function : PatchOther(g, f)) \/ UnpatchOther(g)

(***************************************************************************)
(* The user asks Scalos to quit, and while that is refused messages go on  *)
(* arriving at one of the two ports: he opens files, drops icons.          *)
(***************************************************************************)
Fairness ==
  /\ WF_vars(MainTask)
  /\ WF_vars(AskToQuit)

Spec == Init /\ [][Next]_vars /\ Fairness
-----------------------------------------------------------------------------
TypeOK ==
  /\ vector \in [Function -> Code]
  /\ oldFunction \in [Function -> Code \cup {"null"}]
  /\ patch \in [Program -> [on : Function, next : Code] \cup {NoPatch}]
  /\ main \in Main
  /\ closeWindow \in BOOLEAN
  /\ {emulation, hard, hardAtStart} \subseteq BOOLEAN
  /\ tooOld \subseteq MayBeTooOld

(***************************************************************************)
(* What a call of f runs, one after the other.                             *)
(***************************************************************************)
Onward(f, c) ==
  CASE c = "scalos"  -> oldFunction[f]
    [] c \in Program -> IF patch[c].on = f THEN patch[c].next ELSE "null"
    [] OTHER         -> "original"

Runs(f) ==
  LET after[n \in 0 .. Cardinality(Program) + 2] ==
        IF n = 0 THEN {vector[f]}
        ELSE after[n - 1] \cup {Onward(f, c) : c \in after[n - 1]}
  IN  after[Cardinality(Program) + 2]

Installed(f) == oldFunction[f] # "null"

(***************************************************************************)
(* Whoever patches and takes patches off in whatever order, and while      *)
(* Scalos is half removed: a call of a patched function gets through to    *)
(* the function itself, never to the NULL that RemovePatches leaves in     *)
(* *pe_OldFunction, and it runs Scalos exactly if *pe_OldFunction is set.  *)
(***************************************************************************)
CallsGetThrough ==
  \A f \in Function :
    /\ "original" \in Runs(f) /\ "null" \notin Runs(f)
    /\ "scalos" \in Runs(f) <=> Installed(f)

Patched == Standard \cup (IF emulation THEN Emulation ELSE {})
                    \cup (IF hardAtStart THEN Hard ELSE {})

(***************************************************************************)
(* All or nothing: after an attempt to quit that failed half way, Scalos   *)
(* again patches everything it patched at the start.                       *)
(***************************************************************************)
FailedQuitRestores ==
  main = "running" => \A f \in Patched \ tooOld : Installed(f)

(***************************************************************************)
(* Scalos is not gone while a library still calls it.  RemoveAllPatches    *)
(* keeps this up as long as pref_HardEmulation is off, when Scalos starts  *)
(* and when it quits.  Otherwise it does not: when the last list cannot be *)
(* removed it goes on to PatchCleanup, and what it removes is up to the    *)
(* preferences of the moment, not to what was patched.                     *)
(***************************************************************************)
GoneIsUnpatched ==
  main \in {"cleanup", "gone"} /\ ~hard /\ ~hardAtStart =>
    \A f \in Function : ~Installed(f)

(***************************************************************************)
(* The loop around RemoveAllPatches ends once nobody else patches, if      *)
(* signals go on arriving and every library is new enough.  With an        *)
(* icon.library below 44 it never ends: PutIconTagList was never patched,  *)
(* and RemovePatches fails for it.                                         *)
(***************************************************************************)
QuitsAtLast ==
  tooOld = {} /\ <>[](\A g \in Program : patch[g] = NoPatch) => <>(main = "gone")
=============================================================================
