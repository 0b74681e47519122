------------------------- MODULE McuPowerPathProofs -------------------------
(***************************************************************************)
(* Proofs about McuPowerPath, for every qualification time.                *)
(***************************************************************************)
EXTENDS MCMcuPowerPath, TLAPS

\* While the module takes the battery for disconnected, Run is either inside the
\* few statements of the hand-over or the switch really is open.
HandOver == {"clearTimer", "cutIfPresent", "setConnected"}

PowerInv ==
  /\ InputLossKeepsBattery
  /\ ~connected /\ batteryOn => pc \in HandOver

\* The boot state satisfies the invariant.
LEMMA InitPower == Init => PowerInv
BY DEF Init, PowerInv, InputLossKeepsBattery

\* Every statement of Run, every edge and every interrupt keeps the invariant.
LEMMA StepPower == PowerInv /\ [Next]_vars => PowerInv'
<1> SUFFICES ASSUME PowerInv, [Next]_vars PROVE PowerInv'
  OBVIOUS
<1> USE DEF PowerInv, InputLossKeepsBattery, HandOver
<1>1. CASE LineEdge
  BY <1>1 DEF LineEdge
<1>2. CASE OnInputIrq
  BY <1>2 DEF OnInputIrq
<1>3. ASSUME NEW p \in Permissions, BeginPass(p) PROVE PowerInv'
  BY <1>3 DEF BeginPass
<1>4. CASE TestConnected
  BY <1>4 DEF TestConnected
<1>5. CASE TestTimer
  BY <1>5 DEF TestTimer
<1>6. CASE ArmStart
  BY <1>6 DEF ArmStart, Goto
<1>7. CASE ClearConnected
  BY <1>7 DEF ClearConnected, Goto
<1>8. CASE ClearTimer
  BY <1>8 DEF ClearTimer, Goto
<1>9. CASE CutIfPresent
  BY <1>9 DEF CutIfPresent
<1>10. CASE SetConnected
  BY <1>10 DEF SetConnected, Goto
<1>11. CASE ReleaseTest
  BY <1>11 DEF ReleaseTest
<1>12. CASE WritePin
  BY <1>12 DEF WritePin, Goto
<1>13. CASE UNCHANGED vars
  BY <1>13 DEF vars
<1>14. QED
  BY <1>1, <1>2, <1>3, <1>4, <1>5, <1>6, <1>7, <1>8, <1>9, <1>10, <1>11, <1>12,
     <1>13 DEF Next, Task

\* The MCU is never left without a supply by an input loss, wherever between two
\* statements of Run its interrupt falls.
THEOREM MCUKeepsSupply == Spec => []InputLossKeepsBattery
<1>1. PowerInv => InputLossKeepsBattery
  BY DEF PowerInv
<1>2. QED BY <1>1, InitPower, StepPower, PTL DEF Spec

\* The early return of Run on a disconnected path is taken only when the switch
\* is open.
THEOREM OffFlagHonest == Spec => []OffFlagIsTrue
<1>1. PowerInv => OffFlagIsTrue
  BY DEF PowerInv, HandOver, OffFlagIsTrue
<1>2. QED BY <1>1, InitPower, StepPower, PTL DEF Spec
-----------------------------------------------------------------------------
(***************************************************************************)
(* How long the permission held: the observer of MCMcuPowerPath.           *)
(***************************************************************************)

\* The running timer is younger than the run of permitted passes, except for the
\* two statements between setting the flag and writing the start; a pass that
\* decides saw the permission, and one that cuts has the whole window behind it.
HeldInv ==
  /\ heldRun \in 0..StablePasses + 1 /\ startAge \in 0..StablePasses
  /\ pc \in Deciding => heldRun >= 1
  /\ timerActive /\ pc # "armStart" => heldRun > startAge
  /\ pc \in Cutting => heldRun > StablePasses

mcvars == <<vars, heldRun>>

LEMMA HeldPass ==
  ASSUME HeldInv, NEW p \in Permissions, BeginPass(p),
         heldRun' = IF p # "permitted" THEN 0
                    ELSE IF heldRun <= StablePasses THEN heldRun + 1 ELSE heldRun
  PROVE  HeldInv'
<1>0. /\ heldRun \in 0..StablePasses + 1 /\ startAge \in 0..StablePasses
      /\ StablePasses \in Nat /\ pc = "idle"
      /\ startAge' = Older(startAge)
  BY StableAssumption DEF HeldInv, BeginPass
<1>1. heldRun' \in 0..StablePasses + 1 /\ startAge' \in 0..StablePasses
  BY <1>0 DEF Older
<1>2. CASE p = "permitted"
  <2>1. heldRun' >= 1 /\ (heldRun > startAge => heldRun' > startAge')
    BY <1>0, <1>2 DEF Older
  <2>2. pc' = "testConnected" /\ timerActive' = timerActive
    BY <1>2 DEF BeginPass
  <2>3. timerActive => heldRun > startAge
    BY <1>0 DEF HeldInv
  <2>4. QED BY <1>1, <2>1, <2>2, <2>3 DEF HeldInv, Deciding, Cutting
<1>3. CASE p # "permitted"
  <2>1. pc' \in {"releaseTest", "idle"} /\ ~timerActive'
    BY <1>3 DEF BeginPass, Permissions
  <2>2. QED BY <1>1, <2>1 DEF HeldInv, Deciding, Cutting
<1>4. QED BY <1>2, <1>3

LEMMA HeldBreak ==
  ASSUME HeldInv, OnInputIrq, heldRun' = IF pb4 THEN heldRun ELSE AfterBreak
  PROVE  HeldInv'
<1>0. StablePasses \in Nat \ {0}
  BY StableAssumption
<1>1. CASE pb4
  BY <1>1 DEF HeldInv, OnInputIrq
<1>2. CASE ~pb4
  <2>1. ~timerActive' /\ pc' = pc /\ startAge' = startAge /\ heldRun' = AfterBreak
    BY <1>2 DEF OnInputIrq
  <2>2. QED BY <1>0, <2>1 DEF HeldInv, AfterBreak, Deciding, Cutting
<1>3. QED BY <1>1, <1>2

LEMMA HeldTask ==
  ASSUME HeldInv, UNCHANGED heldRun, LineEdge \/ Task
  PROVE  HeldInv'
<1> USE DEF HeldInv, Deciding, Cutting
<1>0. StablePasses \in Nat
  BY StableAssumption
<1>1. CASE LineEdge
  BY <1>1 DEF LineEdge
<1>2. CASE TestConnected
  BY <1>2 DEF TestConnected
<1>3. CASE TestTimer
  BY <1>0, <1>3 DEF TestTimer
<1>4. CASE ArmStart
  BY <1>0, <1>4 DEF ArmStart, Goto
<1>5. CASE ClearConnected
  BY <1>5 DEF ClearConnected, Goto
<1>6. CASE ClearTimer
  BY <1>6 DEF ClearTimer, Goto
<1>7. CASE CutIfPresent
  BY <1>7 DEF CutIfPresent
<1>8. CASE SetConnected
  BY <1>8 DEF SetConnected, Goto
<1>9. CASE ReleaseTest
  BY <1>9 DEF ReleaseTest
<1>10. CASE WritePin
  BY <1>10 DEF WritePin, Goto
<1>11. QED
  BY <1>1, <1>2, <1>3, <1>4, <1>5, <1>6, <1>7, <1>8, <1>9, <1>10 DEF Task

LEMMA Held == MCSpec => []HeldInv
<1>1. MCInit => HeldInv
  BY StableAssumption DEF MCInit, Init, HeldInv, Deciding, Cutting
<1>2. HeldInv /\ [MCNext]_mcvars => HeldInv'
  <2> SUFFICES ASSUME HeldInv, [MCNext]_mcvars PROVE HeldInv'
    OBVIOUS
  <2>1. CASE (LineEdge \/ Task) /\ UNCHANGED heldRun
    BY <2>1, HeldTask
  <2>2. CASE OnInputIrq /\ heldRun' = IF pb4 THEN heldRun ELSE AfterBreak
    BY <2>2, HeldBreak
  <2>3. CASE UNCHANGED mcvars
    BY <2>3 DEF mcvars, vars, HeldInv
  <2>4. QED BY <2>1, <2>2, <2>3, HeldPass DEF MCNext
<1>3. QED BY <1>1, <1>2, PTL DEF MCSpec, mcvars

\* Q1 opens only with a full window of permitted passes behind it, counted from
\* outside: a release, an invalid snapshot or the interrupt, wherever in Run it
\* falls, starts the window again.
THEOREM CutsAreQualified == MCSpec => FullQualification
<1>1. HeldInv /\ [MCNext]_mcvars
      => [batteryOn /\ ~batteryOn' => heldRun > StablePasses]_mcvars
  <2> SUFFICES ASSUME HeldInv, MCNext, batteryOn, ~batteryOn'
               PROVE  heldRun > StablePasses
    BY DEF mcvars, vars
  <2>1. CutIfPresent
    BY DEF MCNext, LineEdge, OnInputIrq, Task, BeginPass, TestConnected,
           TestTimer, ArmStart, ClearConnected, ClearTimer, SetConnected,
           ReleaseTest, WritePin
  <2>2. QED BY <2>1 DEF CutIfPresent, HeldInv, Cutting
<1>2. QED BY <1>1, Held, PTL DEF MCSpec, FullQualification, mcvars
=============================================================================
