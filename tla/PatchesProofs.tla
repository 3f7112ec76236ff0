---------------------------- MODULE PatchesProofs ----------------------------
(***************************************************************************)
(* For any functions and any number of other programs: an attempt to quit  *)
(* that fails restores the patches, and one that succeeds leaves none.     *)
(*                                                                         *)
(* OnePointer carries the argument: whoever stands on top, Scalos is in    *)
(* the chain of a function at most once, and exactly if *pe_OldFunction is *)
(* set.  So what TakeOff finds on top it can put back.  That a call of a   *)
(* function gets through rests on the whole chain (HasChains): everybody   *)
(* adds to it and takes from it at the top only.                           *)
(***************************************************************************)
EXTENDS Patches, ExecListTheorems

PointsHere(g, f) == patch[g].on = f /\ patch[g].next = "scalos"

OnePointer ==
  \A f \in Function :
    /\ vector[f] = "scalos" => Installed(f) /\ \A g \in Program : ~PointsHere(g, f)
    /\ \A g \in Program : PointsHere(g, f) =>
         Installed(f) /\ \A h \in Program \ {g} : ~PointsHere(h, f)
    /\ oldFunction[f] # "scalos"

None(list) == \A f \in list : ~Installed(f)
All(list)  == \A f \in list \ tooOld : Installed(f)

(***************************************************************************)
(* Where the main task is while a list is installed, or not.               *)
(***************************************************************************)
StandardOn  == {"startemulation", "starthard", "running"}
StandardOff == {"emulation", "hard"}
EmulationOn == {"running", "standard", "standardback", "emulation", "emulationfails"}
EmulationOff == {"start", "hard"}
HardKept    == {"startemulation", "running", "standard", "standardback",
                "emulation", "emulationback", "emulationfails"}
HardFailed  == {"hard", "hardback", "hardfails", "hardfails2"}
InEmulation == {"starthard", "startemulation", "emulation", "emulationback",
                "emulationfails"} \cup HardFailed

Progress ==
  /\ main \in StandardOn => All(Standard)
  /\ main \in StandardOff => None(Standard)
  /\ emulation /\ main \in EmulationOn => All(Emulation)
  /\ ~emulation \/ main \in EmulationOff => None(Emulation)
  /\ hardAtStart /\ main \in HardKept => All(Hard)
  /\ ~hardAtStart /\ main \in HardKept \cup {"start", "starthard"} => None(Hard)
  /\ main = "start" => ~hardAtStart
  /\ main = "starthard" => hardAtStart
  /\ hardAtStart => emulation
  /\ main \in HardFailed => hard
  /\ main \in InEmulation => emulation

IInv == TypeOK /\ OnePointer /\ Progress /\ GoneIsUnpatched

(***************************************************************************)
(* What a step that does not touch the other programs does to a list.      *)
(***************************************************************************)
Chains == <<patch, tooOld>>

LEMMA SetPatchesFacts ==
  ASSUME TypeOK, OnePointer, NEW list \in SUBSET Function,
         SetPatches(list), UNCHANGED Chains
  PROVE  /\ vector' \in [Function -> Code]
         /\ oldFunction' \in [Function -> Code \cup {"null"}]
         /\ OnePointer'
         /\ All(list)'
         /\ \A f \in Function : Installed(f) => Installed(f)'
         /\ \A f \in Function \ list : Installed(f)' <=> Installed(f)
<1>1. vector' \in [Function -> Code]
  BY DEF SetPatches, TypeOK, Code
<1>2. oldFunction' \in [Function -> Code \cup {"null"}]
  BY DEF SetPatches, TypeOK, Code
<1>3. OnePointer'
  BY ProgramAssumption DEF SetPatches, TypeOK, Code, OnePointer, Installed,
     PointsHere, Chains
<1>4. \A f \in Function : vector[f] # "null"
  BY ProgramAssumption DEF TypeOK, Code
<1>5. All(list)'
  BY <1>4 DEF SetPatches, All, Installed, Chains
<1>6. /\ \A f \in Function : Installed(f) => Installed(f)'
      /\ \A f \in Function \ list : Installed(f)' <=> Installed(f)
  BY DEF SetPatches, Installed
<1> QED BY <1>1, <1>2, <1>3, <1>5, <1>6

LEMMA TakeOffFacts ==
  ASSUME TypeOK, OnePointer, NEW list \in SUBSET Function,
         TakeOff(list), UNCHANGED Chains
  PROVE  /\ vector' \in [Function -> Code]
         /\ oldFunction' \in [Function -> Code \cup {"null"}]
         /\ OnePointer'
         /\ Removable(list) => None(list)'
         /\ \A f \in Function \ list : Installed(f)' <=> Installed(f)
         /\ \A f \in Function : ~Installed(f) => ~Installed(f)'
<1>1. vector' \in [Function -> Code]
  BY DEF TakeOff, TypeOK, Code, OnePointer, OnTop, Installed
<1>2. oldFunction' \in [Function -> Code \cup {"null"}]
  BY DEF TakeOff, TypeOK, Code
<1>3. OnePointer'
  BY DEF TakeOff, TypeOK, OnePointer, OnTop, Installed, PointsHere, Chains
<1>4. Removable(list) => None(list)'
  BY DEF TakeOff, Removable, None, Installed
<1>5. /\ \A f \in Function \ list : Installed(f)' <=> Installed(f)
      /\ \A f \in Function : ~Installed(f) => ~Installed(f)'
  BY DEF TakeOff, Installed
<1> QED BY <1>1, <1>2, <1>3, <1>4, <1>5

LEMMA Disjoint ==
  /\ Standard \in SUBSET Function /\ Emulation \in SUBSET Function
  /\ Hard \in SUBSET Function
  /\ Standard \cap Emulation = {} /\ Standard \cap Hard = {} /\ Emulation \cap Hard = {}
BY PatchAssumption DEF Function

(***************************************************************************)
(* The main task, one action at a time.                                    *)
(***************************************************************************)
LEMMA SetAllPatchesKeeps == IInv /\ SetAllPatches => IInv'
<1> SUFFICES ASSUME IInv, SetAllPatches PROVE IInv'
  OBVIOUS
<1> USE Disjoint
<1>a. TypeOK /\ OnePointer /\ Progress
  BY DEF IInv
<1>0. UNCHANGED Chains
  BY DEF SetAllPatches, Goto, Chains, world
<1>1. CASE /\ main = "start" /\ SetPatches(Standard)
           /\ main' = IF ~emulation THEN "running"
                      ELSE IF hard THEN "starthard" ELSE "startemulation"
           /\ hardAtStart' = (emulation /\ hard)
           /\ UNCHANGED <<patch, closeWindow, emulation, tooOld, hard>>
  <2>0. main' \in {"running", "starthard", "startemulation"}
    BY <1>1
  <2>1. TypeOK'
    BY <1>a, <1>0, <1>1, <2>0, SetPatchesFacts DEF TypeOK, Main
  <2>2. OnePointer' /\ All(Standard)'
    BY <1>a, <1>0, <1>1, SetPatchesFacts
  <2>3. None(Emulation)' /\ None(Hard)'
    <3>1. None(Emulation) /\ None(Hard)
      BY <1>a, <1>1 DEF Progress, EmulationOff
    <3> QED BY <1>a, <1>0, <1>1, <3>1, SetPatchesFacts DEF None
  <2>4. Progress'
    BY <1>a, <1>1, <2>2, <2>3 DEF Progress, TypeOK, StandardOn, StandardOff, EmulationOn,
       EmulationOff, HardKept, HardFailed, InEmulation, None, All
  <2>5. GoneIsUnpatched'
    BY <2>0 DEF GoneIsUnpatched
  <2> QED BY <2>1, <2>2, <2>4, <2>5 DEF IInv
<1>2. CASE main = "starthard" /\ SetPatches(Hard) /\ Goto("startemulation")
  <2>1. TypeOK' /\ OnePointer' /\ All(Standard)' /\ All(Hard)'
    BY <1>a, <1>0, <1>2, SetPatchesFacts
    DEF TypeOK, Progress, All, Main, StandardOn, Goto, world
  <2>2. Progress'
    BY <1>a, <1>2, <2>1 DEF Progress, TypeOK, StandardOn, StandardOff, EmulationOn,
       EmulationOff, HardKept, HardFailed, InEmulation, Goto, world
  <2> QED BY <1>2, <2>1, <2>2 DEF GoneIsUnpatched, IInv, Goto
<1>3. CASE main = "startemulation" /\ SetPatches(Emulation) /\ Goto("running")
  <2>1. TypeOK' /\ OnePointer' /\ All(Standard)' /\ All(Emulation)'
        /\ (hardAtStart' => All(Hard)') /\ (~hardAtStart' => None(Hard)')
    BY <1>a, <1>0, <1>3, SetPatchesFacts
    DEF TypeOK, Progress, All, None, Main, StandardOn, HardKept, Goto, world
  <2>2. Progress'
    BY <1>a, <1>3, <2>1 DEF Progress, TypeOK, StandardOn, StandardOff, EmulationOn,
       EmulationOff, HardKept, HardFailed, InEmulation, Goto, world
  <2> QED BY <1>3, <2>1, <2>2 DEF GoneIsUnpatched, IInv, Goto
<1> QED BY <1>1, <1>2, <1>3 DEF SetAllPatches

LEMMA RemoveStandardKeeps == IInv /\ RemoveStandard => IInv'
<1> SUFFICES ASSUME IInv, RemoveStandard PROVE IInv'
  OBVIOUS
<1> USE Disjoint
<1>a. TypeOK /\ OnePointer /\ Progress
  BY DEF IInv
<1>0. main = "standard" /\ TakeOff(Standard) /\ UNCHANGED <<patch, closeWindow, world>>
  BY DEF RemoveStandard, RemovePatches, Goto
<1>1. main' = IF ~Removable(Standard) THEN "standardback"
              ELSE IF emulation THEN "emulation" ELSE "cleanup"
  BY DEF RemoveStandard, RemovePatches, Goto
<1>2. TypeOK' /\ OnePointer'
  BY <1>a, <1>0, <1>1, TakeOffFacts DEF Chains, TypeOK, Main, world
<1>3. Removable(Standard) => None(Standard)'
  BY <1>a, <1>0, TakeOffFacts DEF Chains, world
<1>4. /\ emulation => All(Emulation)'
      /\ ~emulation => None(Emulation)'
      /\ hardAtStart => All(Hard)'
      /\ ~hardAtStart => None(Hard)'
  BY <1>a, <1>0, TakeOffFacts
  DEF Chains, world, Progress, All, None, EmulationOn, HardKept, TypeOK
<1>5. Progress'
  BY <1>a, <1>0, <1>1, <1>3, <1>4 DEF Progress, TypeOK, StandardOn, StandardOff,
     EmulationOn, EmulationOff, HardKept, HardFailed, InEmulation, world
<1>6. GoneIsUnpatched'
  BY <1>a, <1>0, <1>1, <1>3, <1>4
  DEF GoneIsUnpatched, None, Function, world
<1> QED BY <1>2, <1>5, <1>6 DEF IInv

LEMMA RemoveEmulationKeeps == IInv /\ RemoveEmulation => IInv'
<1> SUFFICES ASSUME IInv, RemoveEmulation PROVE IInv'
  OBVIOUS
<1> USE Disjoint
<1>a. TypeOK /\ OnePointer /\ Progress
  BY DEF IInv
<1>0. main = "emulation" /\ TakeOff(Emulation) /\ UNCHANGED <<patch, closeWindow, world>>
  BY DEF RemoveEmulation, RemovePatches, Goto
<1>1. main' = IF ~Removable(Emulation) THEN "emulationback"
              ELSE IF hard THEN "hard" ELSE "cleanup"
  BY DEF RemoveEmulation, RemovePatches, Goto
<1>2. TypeOK' /\ OnePointer'
  BY <1>a, <1>0, <1>1, TakeOffFacts DEF Chains, TypeOK, Main, world
<1>3. Removable(Emulation) => None(Emulation)'
  BY <1>a, <1>0, TakeOffFacts DEF Chains, world
<1>4. /\ None(Standard)'
      /\ hardAtStart => All(Hard)'
      /\ ~hardAtStart => None(Hard)'
  BY <1>a, <1>0, TakeOffFacts
  DEF Chains, world, Progress, All, None, StandardOff, HardKept, TypeOK
<1>5. Progress'
  BY <1>a, <1>0, <1>1, <1>3, <1>4 DEF Progress, TypeOK, StandardOn, StandardOff,
     EmulationOn, EmulationOff, HardKept, HardFailed, InEmulation, world
<1>6. GoneIsUnpatched'
  BY <1>a, <1>0, <1>1, <1>3, <1>4
  DEF GoneIsUnpatched, None, Function, world
<1> QED BY <1>2, <1>5, <1>6 DEF IInv

LEMMA RemoveHardKeeps == IInv /\ RemoveHard => IInv'
<1> SUFFICES ASSUME IInv, RemoveHard PROVE IInv'
  OBVIOUS
<1> USE Disjoint
<1>a. TypeOK /\ OnePointer /\ Progress
  BY DEF IInv
<1>0. /\ main = "hard" /\ TakeOff(Hard) /\ UNCHANGED <<patch, closeWindow, world>>
      /\ main' = IF Removable(Hard) THEN "cleanup" ELSE "hardback"
  BY DEF RemoveHard, RemovePatches, Goto
<1>2. TypeOK' /\ OnePointer'
  BY <1>a, <1>0, TakeOffFacts DEF Chains, TypeOK, Main, world
<1>3. hard /\ emulation
  BY <1>a, <1>0 DEF Progress, HardFailed, InEmulation
<1>5. Progress'
  BY <1>a, <1>0, <1>3 DEF Progress, TypeOK, StandardOn, StandardOff, EmulationOn,
     EmulationOff, HardKept, HardFailed, InEmulation, world
<1> QED BY <1>0, <1>2, <1>3, <1>5 DEF IInv, GoneIsUnpatched, world

LEMMA SetBackKeeps == IInv /\ SetBack => IInv'
<1> SUFFICES ASSUME IInv, SetBack PROVE IInv'
  OBVIOUS
<1> USE Disjoint
<1>a. TypeOK /\ OnePointer /\ Progress
  BY DEF IInv
<1>0. UNCHANGED <<patch, closeWindow, world>>
  BY DEF SetBack, Goto
<1>c. UNCHANGED Chains
  BY <1>0 DEF Chains, world
<1>1. CASE main = "standardback" /\ SetPatches(Standard) /\ Goto("running")
  <2>1. TypeOK' /\ OnePointer' /\ All(Standard)'
        /\ (emulation => All(Emulation)') /\ (~emulation => None(Emulation)')
        /\ (hardAtStart => All(Hard)') /\ (~hardAtStart => None(Hard)')
    BY <1>a, <1>0, <1>c, <1>1, SetPatchesFacts
    DEF TypeOK, Progress, All, None, Main, EmulationOn, HardKept, Goto, world
  <2>2. Progress'
    BY <1>a, <1>0, <1>1, <2>1 DEF Progress, StandardOn, StandardOff, EmulationOn,
       EmulationOff, HardKept, HardFailed, InEmulation, Goto, world, TypeOK
  <2> QED BY <1>1, <2>1, <2>2 DEF GoneIsUnpatched, IInv, Goto
<1>2. CASE main = "emulationback" /\ SetPatches(Emulation) /\ Goto("emulationfails")
  <2>1. TypeOK' /\ OnePointer' /\ All(Emulation)' /\ emulation
        /\ (hardAtStart => All(Hard)') /\ (~hardAtStart => None(Hard)')
    BY <1>a, <1>0, <1>c, <1>2, SetPatchesFacts
    DEF TypeOK, Progress, All, None, Main, InEmulation, HardKept, Goto, world
  <2>2. Progress'
    BY <1>a, <1>0, <1>2, <2>1 DEF Progress, StandardOn, StandardOff, EmulationOn,
       EmulationOff, HardKept, HardFailed, InEmulation, Goto, world, TypeOK
  <2> QED BY <1>2, <2>1, <2>2 DEF GoneIsUnpatched, IInv, Goto
<1>3. CASE main = "emulationfails" /\ SetPatches(Standard) /\ Goto("running")
  <2>1. TypeOK' /\ OnePointer' /\ All(Standard)' /\ All(Emulation)' /\ emulation
        /\ (hardAtStart => All(Hard)') /\ (~hardAtStart => None(Hard)')
    BY <1>a, <1>0, <1>c, <1>3, SetPatchesFacts
    DEF TypeOK, Progress, All, None, Main, InEmulation, EmulationOn, HardKept,
        Goto, world
  <2>2. Progress'
    BY <1>a, <1>0, <1>3, <2>1 DEF Progress, StandardOn, StandardOff, EmulationOn,
       EmulationOff, HardKept, HardFailed, InEmulation, Goto, world, TypeOK
  <2> QED BY <1>3, <2>1, <2>2 DEF GoneIsUnpatched, IInv, Goto
<1>4. ASSUME main \in {"hardback", "hardfails", "hardfails2"},
             NEW list \in {Hard, Emulation, Standard}, SetPatches(list),
             NEW p \in {"hardfails", "hardfails2", "cleanup"}, Goto(p)
      PROVE  IInv'
  <2>1. TypeOK' /\ OnePointer'
    BY <1>a, <1>0, <1>c, <1>4, SetPatchesFacts DEF TypeOK, Main, Goto, world
  <2>2. hard /\ emulation
    BY <1>a, <1>4 DEF Progress, HardFailed, InEmulation
  <2>3. Progress'
    BY <1>a, <1>0, <1>4, <2>2 DEF Progress, StandardOn, StandardOff, EmulationOn,
       EmulationOff, HardKept, HardFailed, InEmulation, Goto, world, TypeOK
  <2> QED BY <1>0, <2>1, <2>2, <2>3 DEF GoneIsUnpatched, IInv, world
<1> QED BY <1>1, <1>2, <1>3, <1>4 DEF SetBack

(***************************************************************************)
(* The steps that leave the patches of Scalos alone.                       *)
(***************************************************************************)
LEMMA OthersKeep ==
  ASSUME IInv, NEW g \in Program, (\E f \in Function : PatchOther(g, f)) \/ UnpatchOther(g)
  PROVE  IInv'
<1> USE ProgramAssumption
<1>a. TypeOK /\ OnePointer /\ Progress /\ GoneIsUnpatched
  BY DEF IInv
<1>0. UNCHANGED <<oldFunction, main, closeWindow, world>>
  BY DEF PatchOther, UnpatchOther
<1>1. Progress' /\ GoneIsUnpatched'
  BY <1>a, <1>0 DEF Progress, GoneIsUnpatched, All, None, Installed, world,
     StandardOn, StandardOff, EmulationOn, EmulationOff, HardKept, HardFailed, InEmulation
<1>2. ASSUME NEW f \in Function, PatchOther(g, f)
      PROVE  TypeOK' /\ OnePointer'
  <2>1. TypeOK'
    BY <1>a, <1>2 DEF PatchOther, TypeOK, Code, world
  <2>2. OnePointer'
    BY <1>a, <1>2 DEF PatchOther, TypeOK, Code, OnePointer, PointsHere, Installed,
       world, NoPatch
  <2> QED BY <2>1, <2>2
<1>3. ASSUME UnpatchOther(g)
      PROVE  TypeOK' /\ OnePointer'
  <2>1. patch[g] \in [on : Function, next : Code]
    BY <1>a, <1>3 DEF TypeOK, UnpatchOther
  <2>2. TypeOK'
    BY <1>a, <1>3, <2>1 DEF UnpatchOther, TypeOK, Code, world
  <2>3. OnePointer'
    BY <1>a, <1>3, <2>1 DEF UnpatchOther, TypeOK, Code, OnePointer, PointsHere,
       Installed, world, NoPatch
  <2> QED BY <2>2, <2>3
<1> QED BY <1>1, <1>2, <1>3 DEF IInv

LEMMA QuietStepsKeep ==
  IInv /\ (AskToQuit \/ NewPrefs \/ Finish \/ UNCHANGED vars) => IInv'
<1> SUFFICES ASSUME IInv, AskToQuit \/ NewPrefs \/ Finish \/ UNCHANGED vars
             PROVE  IInv'
  OBVIOUS
<1>a. TypeOK /\ OnePointer /\ Progress /\ GoneIsUnpatched
  BY DEF IInv
<1>0. UNCHANGED <<vector, oldFunction, patch, emulation, tooOld, hardAtStart>>
  BY DEF AskToQuit, NewPrefs, Finish, Goto, vars, world
<1>1. OnePointer'
  BY <1>a, <1>0 DEF OnePointer, PointsHere, Installed
<1>2. CASE AskToQuit \/ Finish
  BY <1>a, <1>0, <1>1, <1>2 DEF AskToQuit, Finish, Goto, world, IInv, TypeOK, Main,
     Progress, GoneIsUnpatched, All, None, Installed, StandardOn, StandardOff,
     EmulationOn, EmulationOff, HardKept, HardFailed, InEmulation
<1>3. CASE NewPrefs
  BY <1>a, <1>0, <1>1, <1>3 DEF NewPrefs, IInv, TypeOK, Main, Progress,
     GoneIsUnpatched, All, None, Installed, StandardOn, StandardOff,
     EmulationOn, EmulationOff, HardKept, HardFailed, InEmulation
<1>4. CASE UNCHANGED vars
  BY <1>a, <1>0, <1>1, <1>4 DEF vars, world, IInv, TypeOK, Progress,
     GoneIsUnpatched, All, None, Installed
<1> QED BY <1>2, <1>3, <1>4

(***************************************************************************)
(* The inductive invariant.                                                *)
(***************************************************************************)
LEMMA Inductive == Spec => []IInv
<1>1. Init => IInv
  <2> SUFFICES ASSUME Init PROVE IInv
    OBVIOUS
  <2>1. TypeOK
    BY DEF Init, TypeOK, Code, Main
  <2>2. OnePointer
    BY DEF Init, OnePointer, Installed, PointsHere, NoPatch
  <2>3. Progress
    BY DEF Init, Progress, None, All, Installed, Function, StandardOn, StandardOff,
       EmulationOn, EmulationOff, HardKept, HardFailed, InEmulation
  <2> QED BY <2>1, <2>2, <2>3 DEF IInv, GoneIsUnpatched, Init
<1>2. IInv /\ [Next]_vars => IInv'
  BY SetAllPatchesKeeps, RemoveStandardKeeps, RemoveEmulationKeeps, RemoveHardKeeps,
     SetBackKeeps, OthersKeep, QuietStepsKeep DEF Next, MainTask
<1> QED BY <1>1, <1>2, PTL DEF Spec

(***************************************************************************)
(* Vectors only ever point to a function or a patch that exists, and       *)
(* *pe_OldFunction too unless it is NULL.                                  *)
(***************************************************************************)
THEOREM TypeCorrect == Spec => []TypeOK
<1>1. IInv => TypeOK
  BY DEF IInv
<1> QED BY <1>1, Inductive, PTL

(***************************************************************************)
(* An attempt to quit that RemoveAllPatches refuses restores every patch   *)
(* of the start, whatever other programs patched meanwhile.                *)
(***************************************************************************)
THEOREM RefusedQuitRestores == Spec => []FailedQuitRestores
<1>1. IInv => FailedQuitRestores
  <2> SUFFICES ASSUME IInv, main = "running", NEW f \in Patched \ tooOld
               PROVE  Installed(f)
    BY DEF FailedQuitRestores
  <2>1. All(Standard) /\ (emulation => All(Emulation)) /\ (hardAtStart => All(Hard))
    BY DEF IInv, Progress, StandardOn, EmulationOn, HardKept
  <2> QED BY <2>1 DEF Patched, All
<1> QED BY <1>1, Inductive, PTL

(***************************************************************************)
(* Without hard emulation Scalos is never gone while a library calls it.   *)
(***************************************************************************)
THEOREM GoneLeavesNoPatch == Spec => []GoneIsUnpatched
<1>1. IInv => GoneIsUnpatched
  BY DEF IInv
<1> QED BY <1>1, Inductive, PTL
-----------------------------------------------------------------------------
(***************************************************************************)
(* s is the chain of what a call runs: it begins with first, each part     *)
(* calls the next one on, and the last one is the function itself.         *)
(***************************************************************************)
Links(s, first, next) ==
  /\ s # << >> /\ IsInjective(s)
  /\ s[1] = first /\ s[Len(s)] = "original"
  /\ \A i \in 1 .. Len(s) - 1 : next[s[i]] = s[i + 1]

NextOf(f) == [c \in Code |-> Onward(f, c)]

(***************************************************************************)
(* Who is in the chain of f.                                               *)
(***************************************************************************)
Members(f, R) ==
  /\ "scalos" \in R <=> Installed(f)
  /\ \A g \in Program \cap R : patch[g].on = f /\ patch[g] # NoPatch

HasChain(f) ==
  \E s \in Seq(Code) : Links(s, vector[f], NextOf(f)) /\ Members(f, Range(s))

HasChains == \A f \in Function : HasChain(f)

(***************************************************************************)
(* A patch on top of a chain makes a longer chain, and without its top a   *)
(* chain is one.                                                           *)
(***************************************************************************)
LEMMA Push ==
  ASSUME NEW s \in Seq(Code), NEW first, NEW next, Links(s, first, next),
         NEW c \in Code, c \notin Range(s),
         NEW after, after[c] = first, \A x \in Range(s) : after[x] = next[x]
  PROVE  \E t \in Seq(Code) : Links(t, c, after) /\ Range(t) = Range(s) \cup {c}
<1> DEFINE t == <<c>> \o s
<1>1. Len(s) \in Nat \ {0} /\ DOMAIN s = 1 .. Len(s)
  BY LenProperties, EmptySeq DEF Links
<1>2. /\ <<c>> \in Seq(Code) /\ Len(<<c>>) = 1 /\ <<c>>[1] = c
  OBVIOUS
<1>3. /\ t \in Seq(Code) /\ Len(t) = Len(s) + 1 /\ t[1] = c
      /\ \A i \in 1 .. Len(s) : t[i + 1] = s[i]
  <2>1. /\ t \in Seq(Code) /\ Len(t) = 1 + Len(s)
        /\ \A i \in 1 .. 1 + Len(s) : t[i] = IF i <= 1 THEN <<c>>[i] ELSE s[i - 1]
    BY <1>2, ConcatProperties
  <2> HIDE DEF t
  <2>2. t[1] = c
    BY <1>1, <1>2, <2>1
  <2>3. ASSUME NEW i \in 1 .. Len(s) PROVE t[i + 1] = s[i]
    <3>1. i + 1 \in 1 .. 1 + Len(s) /\ ~(i + 1 <= 1) /\ (i + 1) - 1 = i
      BY <1>1
    <3> QED BY <2>1, <3>1
  <2> QED BY <1>1, <2>1, <2>2, <2>3
<1> HIDE DEF t
<1>4. DOMAIN t = 1 .. Len(s) + 1 /\ t # << >>
  BY <1>1, <1>3, LenProperties, EmptySeq
<1>5. \A j \in 1 .. Len(s) + 1 : j # 1 =>
        /\ j - 1 \in 1 .. Len(s) /\ t[j] = s[j - 1] /\ s[j - 1] \in Range(s)
  <2> SUFFICES ASSUME NEW j \in 1 .. Len(s) + 1, j # 1
               PROVE  j - 1 \in 1 .. Len(s) /\ t[j] = s[j - 1] /\ s[j - 1] \in Range(s)
    OBVIOUS
  <2>1. j - 1 \in 1 .. Len(s) /\ (j - 1) + 1 = j
    BY <1>1
  <2>2. t[j] = s[j - 1]
    BY <1>3, <2>1
  <2> QED BY <1>1, <2>1, <2>2 DEF Range
<1>6. IsInjective(t)
  <2> SUFFICES ASSUME NEW i \in 1 .. Len(s) + 1, NEW j \in 1 .. Len(s) + 1, t[i] = t[j]
               PROVE  i = j
    BY <1>4 DEF IsInjective
  <2>1. CASE i = 1 \/ j = 1
    BY <1>3, <1>5, <2>1
  <2>2. CASE i # 1 /\ j # 1
    <3>1. i - 1 = j - 1
      BY <1>1, <1>5, <2>2 DEF Links, IsInjective
    <3> QED BY <1>1, <3>1
  <2> QED BY <2>1, <2>2
<1>7. Range(t) = Range(s) \cup {c}
  <2>1. c \in Range(t)
    BY <1>1, <1>3, <1>4 DEF Range
  <2>2. ASSUME NEW i \in 1 .. Len(s) PROVE s[i] \in Range(t)
    <3>1. i + 1 \in DOMAIN t
      BY <1>1, <1>4
    <3> QED BY <1>3, <3>1 DEF Range
  <2>3. ASSUME NEW j \in 1 .. Len(s) + 1 PROVE t[j] \in Range(s) \cup {c}
    BY <1>3, <1>5
  <2> QED BY <1>1, <1>4, <2>1, <2>2, <2>3 DEF Range
<1>8. t[Len(t)] = "original"
  BY <1>1, <1>3 DEF Links
<1>9. ASSUME NEW i \in 1 .. Len(t) - 1 PROVE after[t[i]] = t[i + 1]
  <2>1. i \in 1 .. Len(s) /\ t[i + 1] = s[i] /\ i \in 1 .. Len(s) + 1
    BY <1>1, <1>3
  <2>2. CASE i = 1
    BY <1>3, <2>1, <2>2 DEF Links
  <2>3. CASE i # 1
    <3>1. i - 1 \in 1 .. Len(s) - 1 /\ (i - 1) + 1 = i
      BY <1>1, <2>1, <2>3
    <3>2. after[t[i]] = next[s[i - 1]]
      BY <1>5, <2>1, <2>3
    <3> QED BY <2>1, <3>1, <3>2 DEF Links
  <2> QED BY <2>2, <2>3
<1> QED BY <1>3, <1>4, <1>6, <1>7, <1>8, <1>9 DEF Links

LEMMA Pop ==
  ASSUME NEW s \in Seq(Code), NEW first, NEW next, Links(s, first, next),
         first # "original", NEW after, \A x \in Range(s) \ {first} : after[x] = next[x]
  PROVE  /\ next[first] \in Code
         /\ \E t \in Seq(Code) : /\ Links(t, next[first], after)
                                 /\ Range(t) = Range(s) \ {first}
<1> DEFINE t == Tail(s)
<1>1. Len(s) \in Nat \ {0, 1} /\ DOMAIN s = 1 .. Len(s) /\ s # << >>
  BY LenProperties, EmptySeq DEF Links
<1>2. /\ t \in Seq(Code) /\ Len(t) = Len(s) - 1
      /\ \A i \in 1 .. Len(s) - 1 : t[i] = s[i + 1]
  BY <1>1, HeadTailProperties
<1>3. Head(s) = first /\ Range(s) = Range(t) \cup {first} /\ IsInjective(t)
      /\ first \notin Range(t)
  BY <1>1, TailFacts DEF Links
<1> HIDE DEF t
<1>4. Range(t) = Range(s) \ {first} /\ DOMAIN t = 1 .. Len(s) - 1 /\ t # << >>
  BY <1>1, <1>2, <1>3, LenProperties, EmptySeq
<1>5. t[1] = next[first] /\ 1 \in 1 .. Len(s) - 1
  BY <1>1, <1>2 DEF Links
<1>6. t[Len(t)] = "original"
  BY <1>1, <1>2 DEF Links
<1>7. ASSUME NEW i \in 1 .. Len(t) - 1 PROVE after[t[i]] = t[i + 1]
  <2>1. /\ i \in 1 .. Len(s) - 1 /\ i + 1 \in 1 .. Len(s) - 1
    BY <1>1, <1>2
  <2>2. t[i] = s[i + 1] /\ t[i + 1] = s[(i + 1) + 1] /\ t[i] \in Range(t)
    BY <1>2, <1>4, <2>1 DEF Range
  <2>3. next[s[i + 1]] = s[(i + 1) + 1]
    BY <2>1 DEF Links
  <2> QED BY <1>3, <1>4, <2>2, <2>3
<1>8. next[first] \in Code
  BY <1>1, <1>2, <1>5, ElementOfSeq
<1>9. Links(t, next[first], after)
  BY <1>3, <1>4, <1>5, <1>6, <1>7 DEF Links
<1> QED BY <1>2, <1>4, <1>8, <1>9

(***************************************************************************)
(* A chain stays one if its top and its parts stay.                        *)
(***************************************************************************)
LEMMA Same ==
  ASSUME NEW s \in Seq(Code), NEW first, NEW next, Links(s, first, next),
         NEW after, \A x \in Range(s) : after[x] = next[x]
  PROVE  Links(s, first, after)
<1>1. Len(s) \in Nat /\ DOMAIN s = 1 .. Len(s)
  BY LenProperties
<1>2. ASSUME NEW i \in 1 .. Len(s) - 1 PROVE after[s[i]] = s[i + 1]
  <2>1. s[i] \in Range(s)
    BY <1>1 DEF Range
  <2> QED BY <2>1 DEF Links
<1> QED BY <1>2 DEF Links

LEMMA ChainTops ==
  ASSUME NEW s \in Seq(Code), NEW first, NEW next, Links(s, first, next)
  PROVE  first \in Range(s) /\ "original" \in Range(s) /\ Range(s) \subseteq Code
BY LenProperties, EmptySeq, ElementOfSeq DEF Links, Range

(***************************************************************************)
(* What a step does to the chain of one function.                          *)
(***************************************************************************)
LEMMA ChainKept ==
  ASSUME NEW f \in Function, HasChain(f), vector'[f] = vector[f],
         oldFunction'[f] = oldFunction[f],
         \A g \in Program : patch[g].on = f /\ patch[g] # NoPatch => patch'[g] = patch[g]
  PROVE  HasChain(f)'
<1> PICK s \in Seq(Code) : Links(s, vector[f], NextOf(f)) /\ Members(f, Range(s))
  BY DEF HasChain
<1> DEFINE next == NextOf(f)  after == NextOf(f)'
<1>1. Range(s) \subseteq Code
  BY ChainTops
<1>2. \A x \in Range(s) : after[x] = next[x]
  BY <1>1 DEF NextOf, Onward, Members
<1>3. Links(s, vector[f], after)
  <2> HIDE DEF after
  <2> QED BY <1>2, Same
<1>4. Members(f, Range(s))'
  BY DEF Members, Installed
<1> QED BY <1>3, <1>4 DEF HasChain

LEMMA ChainPushed ==
  ASSUME NEW f \in Function, HasChain(f), NEW c \in Code \ {"original"},
         vector'[f] = c, Onward(f, c)' = vector[f],
         c = "scalos" => ~Installed(f) /\ Installed(f)',
         c # "scalos" => patch[c] = NoPatch /\ patch'[c].on = f /\ patch'[c] # NoPatch
                         /\ oldFunction'[f] = oldFunction[f],
         \A g \in Program \ {c} : patch'[g] = patch[g]
  PROVE  HasChain(f)'
<1> USE ProgramAssumption
<1> PICK s \in Seq(Code) : Links(s, vector[f], NextOf(f)) /\ Members(f, Range(s))
  BY DEF HasChain
<1> DEFINE next == NextOf(f)  after == NextOf(f)'
<1>1. Range(s) \subseteq Code
  BY ChainTops
<1>2. c \notin Range(s)
  BY DEF Members, Code
<1>3. \A x \in Range(s) : after[x] = next[x]
  BY <1>1, <1>2 DEF NextOf, Onward, Members, Code
<1>4. after[c] = vector[f]
  BY DEF NextOf
<1>5. PICK t \in Seq(Code) : Links(t, c, after) /\ Range(t) = Range(s) \cup {c}
  <2> HIDE DEF after
  <2> QED BY <1>2, <1>3, <1>4, Push
<1>6. Members(f, Range(t))'
  BY <1>2, <1>5 DEF Members, Installed, Code
<1> QED BY <1>5, <1>6 DEF HasChain

LEMMA ChainPopped ==
  ASSUME NEW f \in Function, HasChain(f), vector[f] \in Code \ {"original"},
         vector'[f] = Onward(f, vector[f]),
         vector[f] = "scalos" => ~Installed(f)',
         vector[f] # "scalos" => oldFunction'[f] = oldFunction[f],
         \A g \in Program \ {vector[f]} : patch'[g] = patch[g]
  PROVE  HasChain(f)'
<1> USE ProgramAssumption
<1> PICK s \in Seq(Code) : Links(s, vector[f], NextOf(f)) /\ Members(f, Range(s))
  BY DEF HasChain
<1> DEFINE next == NextOf(f)  after == NextOf(f)'  c == vector[f]
<1>1. Range(s) \subseteq Code
  BY ChainTops
<1>2. \A x \in Range(s) \ {c} : after[x] = next[x]
  BY <1>1 DEF NextOf, Onward, Members, Code
<1>3. next[c] = vector'[f]
  BY DEF NextOf
<1>4. PICK t \in Seq(Code) : Links(t, next[c], after) /\ Range(t) = Range(s) \ {c}
  <2>1. Links(s, c, next) /\ c # "original"
    OBVIOUS
  <2> HIDE DEF after, next, c
  <2> QED BY <1>2, <2>1, Pop
<1>5. Members(f, Range(t))'
  BY <1>1, <1>4 DEF Members, Installed, Code
<1> QED BY <1>3, <1>4, <1>5 DEF HasChain

(***************************************************************************)
(* Every step leaves every function a chain.                               *)
(***************************************************************************)
LEMMA ChainInit == Init => HasChains
<1> SUFFICES ASSUME Init, NEW f \in Function PROVE HasChain(f)
  BY DEF HasChains
<1> DEFINE s == <<"original">>
<1>1. s \in Seq(Code) /\ Len(s) = 1 /\ s[1] = "original" /\ s # << >>
  BY DEF Code
<1>2. DOMAIN s = 1 .. 1
  BY <1>1
<1>3. IsInjective(s) /\ Range(s) = {"original"}
  BY <1>1, <1>2 DEF IsInjective, Range
<1> HIDE DEF s
<1>4. Links(s, vector[f], NextOf(f))
  BY <1>1, <1>3 DEF Links, Init
<1>5. Members(f, Range(s))
  BY <1>3, ProgramAssumption DEF Members, Installed, Init
<1> QED BY <1>1, <1>4, <1>5 DEF HasChain

LEMMA ChainSetPatches ==
  ASSUME TypeOK, HasChains, NEW list \in SUBSET Function,
         SetPatches(list), UNCHANGED patch
  PROVE  HasChains'
<1> SUFFICES ASSUME NEW f \in Function PROVE HasChain(f)'
  BY DEF HasChains
<1>0. HasChain(f)
  BY DEF HasChains
<1>1. CASE f \in {h \in list : oldFunction[h] = "null"} \ tooOld
  <2>1. vector'[f] = "scalos" /\ oldFunction'[f] = vector[f] /\ ~Installed(f)
    BY <1>1 DEF SetPatches, Installed
  <2>2. Installed(f)'
    BY <2>1, ProgramAssumption DEF TypeOK, Code, Installed
  <2>3. Onward(f, "scalos")' = vector[f]
    BY <2>1, ProgramAssumption DEF Onward
  <2> QED BY <1>0, <2>1, <2>2, <2>3, ChainPushed DEF Code
<1>2. CASE f \notin {h \in list : oldFunction[h] = "null"} \ tooOld
  <2>1. vector'[f] = vector[f] /\ oldFunction'[f] = oldFunction[f]
    BY <1>2 DEF SetPatches
  <2> QED BY <1>0, <2>1, ChainKept
<1> QED BY <1>1, <1>2

LEMMA ChainTakeOff ==
  ASSUME TypeOK, HasChains, NEW list \in SUBSET Function,
         TakeOff(list), UNCHANGED patch
  PROVE  HasChains'
<1> SUFFICES ASSUME NEW f \in Function PROVE HasChain(f)'
  BY DEF HasChains
<1>0. HasChain(f)
  BY DEF HasChains
<1>1. CASE f \in list /\ OnTop(f)
  <2>1. vector[f] = "scalos" /\ vector'[f] = oldFunction[f] /\ oldFunction'[f] = "null"
    BY <1>1 DEF TakeOff, OnTop
  <2>2. vector'[f] = Onward(f, vector[f]) /\ ~Installed(f)'
    BY <2>1, ProgramAssumption DEF Onward, Installed
  <2> QED BY <1>0, <2>1, <2>2, ChainPopped DEF Code
<1>2. CASE ~(f \in list /\ OnTop(f))
  <2>1. vector'[f] = vector[f] /\ oldFunction'[f] = oldFunction[f]
    BY <1>2 DEF TakeOff
  <2> QED BY <1>0, <2>1, ChainKept
<1> QED BY <1>1, <1>2

LEMMA ChainPatchOther ==
  ASSUME TypeOK, HasChains, NEW g \in Program, NEW h \in Function, PatchOther(g, h)
  PROVE  HasChains'
<1> SUFFICES ASSUME NEW f \in Function PROVE HasChain(f)'
  BY DEF HasChains
<1> USE ProgramAssumption
<1>0. HasChain(f)
  BY DEF HasChains
<1>a. /\ patch[g] = NoPatch /\ patch'[g] = [on |-> h, next |-> vector[h]]
      /\ \A x \in Program \ {g} : patch'[x] = patch[x]
      /\ UNCHANGED oldFunction
      /\ \A x \in Function : vector'[x] = IF x = h THEN g ELSE vector[x]
  BY DEF PatchOther, TypeOK
<1>b. patch'[g] # NoPatch
  BY <1>a DEF TypeOK, Code, NoPatch
<1>1. CASE f = h
  <2>1. Onward(f, g)' = vector[f] /\ vector'[f] = g
    BY <1>a, <1>1 DEF Onward
  <2>2. g \in Code \ {"original"} /\ g # "scalos"
    BY DEF Code
  <2> QED BY <1>0, <1>1, <1>a, <1>b, <2>1, <2>2, ChainPushed
<1>2. CASE f # h
  BY <1>0, <1>2, <1>a, ChainKept
<1> QED BY <1>1, <1>2

LEMMA ChainUnpatchOther ==
  ASSUME TypeOK, HasChains, NEW g \in Program, UnpatchOther(g)
  PROVE  HasChains'
<1> SUFFICES ASSUME NEW f \in Function PROVE HasChain(f)'
  BY DEF HasChains
<1> USE ProgramAssumption
<1>0. HasChain(f)
  BY DEF HasChains
<1>a. /\ patch[g] # NoPatch /\ vector[patch[g].on] = g
      /\ \A x \in Program \ {g} : patch'[x] = patch[x]
      /\ UNCHANGED oldFunction
      /\ \A x \in Function : vector'[x] = IF x = patch[g].on THEN patch[g].next ELSE vector[x]
  BY DEF UnpatchOther, TypeOK
<1>1. CASE f = patch[g].on
  <2>1. vector[f] = g /\ g \in Code \ {"original"} /\ g # "scalos"
    BY <1>a, <1>1 DEF Code
  <2>2. vector'[f] = Onward(f, vector[f])
    BY <1>1, <1>a, <2>1 DEF Onward
  <2> QED BY <1>0, <1>a, <2>1, <2>2, ChainPopped
<1>2. CASE f # patch[g].on
  BY <1>0, <1>2, <1>a, ChainKept
<1> QED BY <1>1, <1>2

LEMMA ChainsKept == IInv /\ HasChains /\ [Next]_vars => HasChains'
<1> SUFFICES ASSUME IInv, HasChains, [Next]_vars PROVE HasChains'
  OBVIOUS
<1> USE Disjoint
<1>0. TypeOK
  BY DEF IInv
<1>1. ASSUME UNCHANGED <<vector, oldFunction, patch>> PROVE HasChains'
  <2> SUFFICES ASSUME NEW f \in Function PROVE HasChain(f)'
    BY DEF HasChains
  <2>1. HasChain(f)
    BY DEF HasChains
  <2> QED BY <1>1, <2>1, ChainKept
<1>2. CASE SetAllPatches
  <2>1. UNCHANGED patch /\ \E list \in {Standard, Hard, Emulation} : SetPatches(list)
    BY <1>2 DEF SetAllPatches, Goto
  <2> QED BY <1>0, <2>1, ChainSetPatches
<1>3. CASE RemoveStandard \/ RemoveEmulation \/ RemoveHard
  <2>1. UNCHANGED patch /\ \E list \in {Standard, Hard, Emulation} : TakeOff(list)
    BY <1>3 DEF RemoveStandard, RemoveEmulation, RemoveHard, RemovePatches, Goto
  <2> QED BY <1>0, <2>1, ChainTakeOff
<1>4. CASE SetBack
  <2>1. UNCHANGED patch /\ \E list \in {Standard, Hard, Emulation} : SetPatches(list)
    BY <1>4 DEF SetBack, Goto
  <2> QED BY <1>0, <2>1, ChainSetPatches
<1>5. CASE \E g \in Program : (\E f \in Function : PatchOther(g, f)) \/ UnpatchOther(g)
  BY <1>0, <1>5, ChainPatchOther, ChainUnpatchOther
<1>6. CASE Finish \/ AskToQuit \/ NewPrefs \/ UNCHANGED vars
  BY <1>1, <1>6 DEF Finish, AskToQuit, NewPrefs, Goto, vars
<1> QED BY <1>2, <1>3, <1>4, <1>5, <1>6 DEF Next, MainTask

(***************************************************************************)
(* Runs is what the chain holds: it goes on as often as there can be       *)
(* parts in a chain.                                                       *)
(***************************************************************************)
LEMMA RunsOfChain ==
  ASSUME NEW f \in Function, NEW s \in Seq(Code), Links(s, vector[f], NextOf(f))
  PROVE  Runs(f) = Range(s)
<1> DEFINE K == Cardinality(Program) + 2
           L == Len(s)
           upto(n) == IF n + 1 <= L THEN n + 1 ELSE L
           IsAfter(h) == h = [n \in 0 .. K |->
                                IF n = 0 THEN {vector[f]}
                                ELSE h[n - 1] \cup {Onward(f, c) : c \in h[n - 1]}]
           g == [n \in 0 .. K |-> {s[i] : i \in 1 .. upto(n)}]
<1>1. L \in Nat \ {0} /\ DOMAIN s = 1 .. L
  BY LenProperties, EmptySeq DEF Links
<1>2. K \in Nat /\ L <= K
  <2>1. IsFiniteSet(Program) /\ Cardinality(Program) \in Nat
    BY ProgramAssumption, FS_CardinalityType
  <2>2. /\ IsFiniteSet(Program \cup {"original"})
        /\ Cardinality(Program \cup {"original"}) = Cardinality(Program) + 1
    BY <2>1, ProgramAssumption, FS_AddElement
  <2>3. Code = Program \cup {"original"} \cup {"scalos"}
    BY DEF Code
  <2>4. IsFiniteSet(Code) /\ Cardinality(Code) = K
    <3>1. "scalos" \notin Program \cup {"original"}
      BY ProgramAssumption
    <3>2. /\ IsFiniteSet(Program \cup {"original"} \cup {"scalos"})
          /\ Cardinality(Program \cup {"original"} \cup {"scalos"})
               = (Cardinality(Program) + 1) + 1
      BY <2>2, <3>1, FS_AddElement
    <3> QED BY <2>1, <2>3, <3>2
  <2>5. IsFiniteSet(1 .. L) /\ Cardinality(1 .. L) = L
    BY <1>1, FS_Interval
  <2>6. s \in Injection(1 .. L, Code)
    BY <1>1, LenProperties DEF Links, Injection, IsInjective
  <2> HIDE DEF K, L
  <2>7. L <= K
    BY <2>4, <2>5, <2>6, FS_Injection
  <2> QED BY <2>1, <2>7 DEF K
<1>3. \A i \in 1 .. L : Onward(f, s[i]) = IF i = L THEN "original" ELSE s[i + 1]
  <2> SUFFICES ASSUME NEW i \in 1 .. L
               PROVE  Onward(f, s[i]) = IF i = L THEN "original" ELSE s[i + 1]
    OBVIOUS
  <2>1. s[i] \in Code /\ NextOf(f)[s[i]] = Onward(f, s[i])
    BY <1>1, ElementOfSeq DEF NextOf
  <2>2. CASE i = L
    <3>1. s[i] = "original"
      BY <2>2 DEF Links
    <3>2. Onward(f, "original") = "original"
      BY ProgramAssumption DEF Onward
    <3> QED BY <2>2, <3>1, <3>2
  <2>3. CASE i # L
    <3>1. i \in 1 .. L - 1
      <4> HIDE DEF L
      <4> QED BY <1>1, <2>3
    <3>2. NextOf(f)[s[i]] = s[i + 1]
      BY <3>1 DEF Links
    <3> QED BY <2>1, <2>3, <3>2
  <2> QED BY <2>2, <2>3
<1>4. s[L] = "original" /\ s[1] = vector[f]
  BY DEF Links
<1> HIDE DEF K, L
<1>5. \A n \in 1 .. K : {s[i] : i \in 1 .. upto(n)} =
        {s[i] : i \in 1 .. upto(n - 1)} \cup
          {Onward(f, c) : c \in {s[i] : i \in 1 .. upto(n - 1)}}
  <2> SUFFICES ASSUME NEW n \in 1 .. K
               PROVE  {s[i] : i \in 1 .. upto(n)} =
                        {s[i] : i \in 1 .. upto(n - 1)} \cup
                          {Onward(f, c) : c \in {s[i] : i \in 1 .. upto(n - 1)}}
    BY Zenon
  <2>a. {Onward(f, c) : c \in {s[i] : i \in 1 .. upto(n - 1)}} =
          {Onward(f, s[i]) : i \in 1 .. upto(n - 1)}
    <3> HIDE DEF upto
    <3> QED BY Zenon
  <2>0. /\ upto(n) \in 1 .. L /\ upto(n - 1) \in 1 .. L /\ upto(n - 1) <= upto(n)
        /\ \A i \in 1 .. upto(n) : i # 1 => i - 1 \in 1 .. upto(n - 1) /\ i - 1 # L
        /\ \A i \in 1 .. upto(n - 1) : i # L => i + 1 \in 1 .. upto(n)
        /\ 1 \in 1 .. upto(n - 1)
        /\ L \in 1 .. upto(n - 1) => L \in 1 .. upto(n)
    BY <1>1, <1>2
  <2> HIDE DEF upto
  <2>1. ASSUME NEW i \in 1 .. upto(n)
        PROVE  \/ s[i] \in {s[j] : j \in 1 .. upto(n - 1)}
               \/ s[i] \in {Onward(f, s[j]) : j \in 1 .. upto(n - 1)}
    <3>1. CASE i = 1
      BY <2>0, <3>1
    <3>2. CASE i # 1
      <4>1. i - 1 \in 1 .. upto(n - 1) /\ i - 1 # L /\ (i - 1) + 1 = i /\ i - 1 \in 1 .. L
        BY <1>1, <2>0, <3>2
      <4>2. Onward(f, s[i - 1]) = s[i]
        BY <1>3, <4>1
      <4> QED BY <4>1, <4>2
    <3> QED BY <3>1, <3>2
  <2>2. ASSUME NEW i \in 1 .. upto(n - 1)
        PROVE  s[i] \in {s[j] : j \in 1 .. upto(n)}
               /\ Onward(f, s[i]) \in {s[j] : j \in 1 .. upto(n)}
    <3>1. i \in 1 .. upto(n) /\ i \in 1 .. L
      BY <1>1, <2>0
    <3>2. CASE i = L
      <4>1. Onward(f, s[i]) = s[i]
        BY <1>3, <1>4, <3>1, <3>2
      <4> QED BY <3>1, <4>1
    <3>3. CASE i # L
      BY <1>3, <2>0, <3>1, <3>3
    <3> QED BY <3>2, <3>3
  <2>3. ASSUME NEW x
        PROVE  x \in {s[i] : i \in 1 .. upto(n)}
               <=> \/ x \in {s[i] : i \in 1 .. upto(n - 1)}
                   \/ x \in {Onward(f, s[i]) : i \in 1 .. upto(n - 1)}
    BY <2>1, <2>2
  <2> QED BY <2>a, <2>3
<1>6. IsAfter(g)
  <2>1. upto(0) = 1
    BY <1>1
  <2>2. g[0] = {vector[f]}
    <3>1. 0 \in 0 .. K /\ 1 .. 1 = {1}
      BY <1>2
    <3> QED BY <1>4, <2>1, <3>1
  <2>3. ASSUME NEW n \in 0 .. K, n # 0
        PROVE  g[n] = g[n - 1] \cup {Onward(f, c) : c \in g[n - 1]}
    <3>1. n \in 1 .. K /\ n - 1 \in 0 .. K
      BY <1>2, <2>3
    <3> HIDE DEF upto
    <3> QED BY <1>5, <3>1
  <2>4. DOMAIN g = 0 .. K /\ g = [n \in 0 .. K |-> g[n]]
    OBVIOUS
  <2> HIDE DEF g
  <2> QED BY <2>2, <2>3, <2>4
<1>7. g[K] = Range(s)
  <2>1. upto(K) = L /\ K \in 0 .. K
    BY <1>1, <1>2
  <2> HIDE DEF upto
  <2> QED BY <1>1, <2>1 DEF Range
<1> HIDE DEF g
<1>8. ASSUME NEW h, IsAfter(h) PROVE h[K] = g[K]
  <2>1. h[0] = g[0]
    BY <1>2, <1>6, <1>8
  <2>2. ASSUME NEW n \in 1 .. K, h[n - 1] = g[n - 1] PROVE h[n] = g[n]
    <3>1. n \in 0 .. K /\ n # 0
      BY <1>2
    <3> QED BY <1>6, <1>8, <2>2, <3>1
  <2> DEFINE S == {n \in 1 .. K : h[n] # g[n]}
  <2>3. S = {}
    <3> SUFFICES ASSUME S # {} PROVE FALSE
      OBVIOUS
    <3>1. PICK n \in S : \A j \in S : n <= j
      <4>1. S \in SUBSET (1 .. K)
        OBVIOUS
      <4> HIDE DEF S, IsAfter
      <4> QED BY <1>2, <4>1, LeastNumber
    <3>2. h[n - 1] # g[n - 1]
      BY <2>2
    <3>3. n # 1
      BY <2>1, <3>2
    <3>4. n - 1 \in 1 .. K /\ ~(n <= n - 1)
      BY <1>2, <3>3
    <3> QED BY <3>1, <3>2, <3>4
  <2>4. K \in 0 .. K /\ (K = 0 \/ K \in 1 .. K)
    BY <1>2
  <2> QED BY <2>1, <2>3, <2>4
<1>9. Runs(f) = (CHOOSE h : IsAfter(h))[K]
  BY DEF Runs, K
<1>10. IsAfter(CHOOSE h : IsAfter(h))
  BY <1>6
<1> HIDE DEF IsAfter
<1> QED BY <1>7, <1>8, <1>9, <1>10

(***************************************************************************)
(* Whatever other programs patch and in whatever order, a call of any      *)
(* function gets through to it, never meets the NULL RemovePatches leaves  *)
(* in *pe_OldFunction, and runs Scalos exactly if Scalos has patched it.   *)
(***************************************************************************)
THEOREM CallsAlwaysGetThrough == Spec => []CallsGetThrough
<1>1. HasChains => CallsGetThrough
  <2> SUFFICES ASSUME HasChains, NEW f \in Function
               PROVE  /\ "original" \in Runs(f) /\ "null" \notin Runs(f)
                      /\ "scalos" \in Runs(f) <=> Installed(f)
    BY DEF CallsGetThrough
  <2> PICK s \in Seq(Code) : Links(s, vector[f], NextOf(f)) /\ Members(f, Range(s))
    BY DEF HasChains, HasChain
  <2>1. Runs(f) = Range(s)
    BY RunsOfChain
  <2>2. "original" \in Range(s) /\ "null" \notin Range(s)
    BY ChainTops, ProgramAssumption DEF Code
  <2> QED BY <2>1, <2>2 DEF Members
<1> QED BY <1>1, Inductive, ChainInit, ChainsKept, PTL DEF Spec
=============================================================================
