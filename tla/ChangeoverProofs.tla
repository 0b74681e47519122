-------------------------- MODULE ChangeoverProofs --------------------------
(***************************************************************************)
(* Proofs about Changeover, for every value of its constants.              *)
(***************************************************************************)
EXTENDS MCChangeover, TLAPS

(***************************************************************************)
(* Timers: what a pass does to one.                                        *)
(***************************************************************************)

\* A timer one pass later is a timer, and at most one pass older.
LEMMA TimerStep ==
  ASSUME NEW t \in Timers
  PROVE  /\ Aged(t) \in Timers /\ Running(t) \in Timers /\ Off \in Timers
         /\ Running(t) # Off
         /\ Running(t) <= t + 1
         /\ (Aged(t) = Off) <=> (t = Off)
BY TimesAssumption DEF Timers, Aged, Running, Off

\* Every parameter has a window of numbers that is not empty.
LEMMA WindowBounds ==
  ASSUME NEW id \in ParamIds
  PROVE  /\ ParamWindow(id).lo \in Nat /\ ParamWindow(id).hi \in Nat
         /\ ParamWindow(id).lo <= ParamWindow(id).hi
<1>1. CASE id \in {"enable", "block"}
  BY <1>1 DEF ParamWindow, TimingIds
<1>2. CASE id = "floorMv"
  BY <1>2 DEF ParamWindow, TimingIds, CHANGEOVER_BAT_RECONNECT_MV
<1>3. CASE id \in TimingIds
  <2>1. id \notin {"enable", "block", "floorMv"}
    BY <1>3 DEF TimingIds
  <2>2. ParamWindow(id) = TimeWindow[id]
    BY <1>3, <2>1 DEF ParamWindow
  <2>3. /\ TimeWindow[id].lo \in Nat /\ TimeWindow[id].hi \in Nat
        /\ TimeWindow[id].lo <= TimeWindow[id].hi
    BY <1>3, TimesAssumption
  <2>4. QED BY <2>2, <2>3
<1>4. QED BY <1>1, <1>2, <1>3 DEF ParamIds

\* Clamping a raw panel value puts it inside the parameter's window.
LEMMA ClampInWindow ==
  ASSUME NEW id \in ParamIds, NEW value \in Nat
  PROVE  /\ ClampParam(id, value) \in Nat
         /\ ClampParam(id, value) \in ParamWindow(id).lo..ParamWindow(id).hi
BY WindowBounds DEF ClampParam

\* The compiled defaults lie in their windows, being fixed points of the clamp.
LEMMA DefaultsInWindow ==
  \A id \in ParamIds :
    DefaultParams[id] \in ParamWindow(id).lo..ParamWindow(id).hi
<1> SUFFICES ASSUME NEW id \in ParamIds
             PROVE  DefaultParams[id] \in ParamWindow(id).lo..ParamWindow(id).hi
  OBVIOUS
<1>1. /\ DefaultParams[id] \in Nat
      /\ ClampParam(id, DefaultParams[id]) = DefaultParams[id]
  BY InputsAssumption
<1>2. QED BY <1>1, ClampInWindow
-----------------------------------------------------------------------------
(***************************************************************************)
(* Type correctness.                                                       *)
(***************************************************************************)

\* The fields of a snapshot have the types the assumptions on the inputs give them.
LEMMA SnapshotFields ==
  ASSUME NEW s \in Snapshots
  PROVE  /\ s.v \in Nat
         /\ s.valid \in BOOLEAN /\ s.input \in BOOLEAN /\ s.veto \in BOOLEAN
BY InputsAssumption DEF Snapshots

\* Every value a valid pass derives has the type of the variable it feeds.
LEMMA DerivedTypes ==
  ASSUME TypeOK, NEW s \in Snapshots
  PROVE  /\ InputStableAt(s) \in Timers /\ HealthyAt(s) \in Timers
         /\ MainsFreeAt(s) \in Timers
         /\ RestPeakAt(s) \in Nat
         /\ FailCountAt(s) \in 0..255 /\ FailCountAfterRest(s) \in 0..255
         /\ ParkedAt(s) \in BOOLEAN /\ ParkedAfterRest(s) \in BOOLEAN
         /\ VerdictAt(s) \in BOOLEAN
         /\ LowLatchedAt(s) \in BOOLEAN
         /\ Mapped(s) \in AppStates
<1> USE SnapshotFields DEF TypeOK
<1>1. InputStableAt(s) \in Timers /\ HealthyAt(s) \in Timers /\ MainsFreeAt(s) \in Timers
  BY TimerStep DEF InputStableAt, HealthyAt, MainsFreeAt
<1>2. RestPeakAt(s) \in Nat
  BY DEF RestPeakAt
<1>3. FailCountAt(s) \in 0..255 /\ FailCountAfterRest(s) \in 0..255
  BY DEF FailCountAt, FailCountAfterRest
<1>4. ParkedAt(s) \in BOOLEAN /\ ParkedAfterRest(s) \in BOOLEAN
  BY DEF ParkedAt, ParkedAfterRest
<1>5. VerdictAt(s) \in BOOLEAN
  BY DEF VerdictAt
<1>6. LowLatchedAt(s) \in BOOLEAN
  BY DEF LowLatchedAt
<1>7. Mapped(s) \in AppStates
  BY DEF Mapped, AppStates
<1>8. QED BY <1>1, <1>2, <1>3, <1>4, <1>5, <1>6, <1>7

\* The state Changeover_Init leaves is typed.
LEMMA InitType == Init => TypeOK
<1> SUFFICES ASSUME Init PROVE TypeOK
  OBVIOUS
<1>1. appState \in AppStates
  BY DEF Init, AppStates
<1>2. Off \in Timers
  BY DEF Timers
<1>3. params \in [ParamIds -> Nat]
  BY InputsAssumption DEF Init
<1>4. resetPc \in 0..LastResetStep /\ preempts \in 0..MaxPreempt
  BY TimesAssumption DEF Init, LastResetStep
<1>5. /\ protect \in BOOLEAN /\ bootPending \in BOOLEAN /\ lowLatched \in BOOLEAN
      /\ weakVerdict \in BOOLEAN /\ parked \in BOOLEAN
  BY DEF Init
<1>6. restPeak \in Nat /\ lastRestPeak \in Nat /\ failCount \in 0..255
  BY DEF Init
<1>7. /\ cutTimer \in Timers /\ reconnectTimer \in Timers
      /\ inputStable \in Timers /\ healthy \in Timers /\ mainsFree \in Timers
  BY <1>2 DEF Init
<1>8. \A id \in ParamIds : params[id] \in ParamWindow(id).lo..ParamWindow(id).hi
  BY DefaultsInWindow DEF Init
<1>9. QED BY <1>1, <1>3, <1>4, <1>5, <1>6, <1>7, <1>8 DEF TypeOK

\* The three blocks of assignments the passes share keep their variables typed.
LEMMA BlockTypes ==
  ASSUME TypeOK, NEW s \in Snapshots
  PROVE  /\ Track(s) => inputStable' \in Timers /\ healthy' \in Timers
         /\ KeepPeaks(s) => /\ mainsFree' \in Timers
                            /\ restPeak' \in Nat /\ lastRestPeak' \in Nat
         /\ KeepVerdict(s) => /\ weakVerdict' \in BOOLEAN /\ parked' \in BOOLEAN
                              /\ failCount' \in 0..255
<1>1. Track(s) => inputStable' \in Timers /\ healthy' \in Timers
  BY DerivedTypes DEF Track
<1>2. KeepPeaks(s) => /\ mainsFree' \in Timers
                      /\ restPeak' \in Nat /\ lastRestPeak' \in Nat
  BY DerivedTypes DEF KeepPeaks, TypeOK
<1>3. KeepVerdict(s) => /\ weakVerdict' \in BOOLEAN /\ parked' \in BOOLEAN
                        /\ failCount' \in 0..255
  BY DerivedTypes DEF KeepVerdict
<1>4. QED BY <1>1, <1>2, <1>3

\* A failed attempt is counted without leaving the eight bits of the counter.
LEMMA CountFailureTypes ==
  ASSUME TypeOK, NEW s \in Snapshots, CountFailure(s)
  PROVE  /\ weakVerdict' \in BOOLEAN /\ parked' \in BOOLEAN
         /\ failCount' \in 0..255
<1>1. failCount' \in 0..255
  BY DerivedTypes DEF CountFailure
<1>2. parked' \in BOOLEAN
  BY DerivedTypes DEF CountFailure
<1>3. weakVerdict' \in BOOLEAN
  BY DerivedTypes DEF CountFailure, WornEvidence
<1>4. QED BY <1>1, <1>2, <1>3

\* One evaluation keeps the types, whatever its snapshot.
LEMMA EvaluateType ==
  ASSUME TypeOK, NEW s \in Snapshots, Evaluate(s), preempts' \in 0..MaxPreempt
  PROVE  TypeOK'
<1> USE DEF TypeOK
<1>0. /\ Off \in Timers
      /\ Running(cutTimer) \in Timers /\ Running(reconnectTimer) \in Timers
      /\ Aged(inputStable) \in Timers /\ Aged(healthy) \in Timers
      /\ Aged(mainsFree) \in Timers
  BY TimerStep
<1>1. {"BOOT", "INPUT", "BATTERY", "FAULT", "SAFE"} = AppStates
  BY DEF AppStates
<1>2. Mapped(s) \in AppStates
  BY DerivedTypes
<1>3. CASE InvalidPass(s)
  BY <1>0, <1>3 DEF InvalidPass, StopTimers, peakVars, budgetVars
<1>4. CASE FaultPass(s)
  BY <1>0, <1>1, <1>4, BlockTypes, DerivedTypes DEF FaultPass, EarlyReturn, StopTimers
<1>5. CASE VetoPass(s)
  BY <1>0, <1>1, <1>5, BlockTypes, DerivedTypes
     DEF VetoPass, EarlyReturn, CutNow, StopTimers
<1>6. CASE WeakBlockPass(s)
  BY <1>0, <1>1, <1>6, BlockTypes DEF WeakBlockPass, CutNow, StopTimers
<1>7. CASE BootConnect(s)
  BY <1>2, <1>7, BlockTypes, DerivedTypes,
     ZenonT(60) DEF BootConnect, Decide, timerVars
<1>8. CASE BootWait(s)
  BY <1>1, <1>8, BlockTypes, DerivedTypes DEF BootWait, Decide, timerVars
<1>9. CASE CutPending(s)
  BY <1>0, <1>1, <1>2, <1>9, BlockTypes, DerivedTypes DEF CutPending, Decide
<1>10. CASE Cut(s)
  BY <1>0, <1>1, <1>10, BlockTypes, DerivedTypes, CountFailureTypes DEF Cut, Decide
<1>11. CASE Hold(s)
  BY <1>0, <1>1, <1>2, <1>11, BlockTypes, DerivedTypes DEF Hold, NoCut, Decide
<1>12. CASE Reconnect(s)
  <2>1. 0 \in Timers
    BY TimesAssumption DEF Timers
  <2>2. CASE protect
    <3>1. /\ mainsFree' \in Timers
          /\ restPeak' \in Nat /\ lastRestPeak' \in Nat
      BY <1>0, <1>12, <2>1, <2>2, DerivedTypes DEF Reconnect
    <3>2. QED
      BY <1>0, <1>2, <1>12, <3>1, BlockTypes, DerivedTypes, ZenonT(60)
         DEF Reconnect, NoCut, Decide
  <2>3. CASE ~protect
    BY <1>0, <1>2, <1>12, <2>3, BlockTypes, DerivedTypes,
       ZenonT(60) DEF Reconnect, NoCut, Decide
  <2>4. QED BY <2>2, <2>3
<1>13. QED
  BY <1>3, <1>4, <1>5, <1>6, <1>7, <1>8, <1>9, <1>10, <1>11, <1>12,
     Evaluate(s) DEF Evaluate

\* A panel write keeps the types and the parameter windows, whatever it asks for.
LEMMA SetParamType ==
  ASSUME TypeOK, NEW id \in ParamIds, NEW value \in Nat, SetParam(id, value)
  PROVE  TypeOK'
<1>1. params' \in [ParamIds -> Nat]
  BY ClampInWindow DEF TypeOK, SetParam
<1>2. weakVerdict' \in BOOLEAN
  BY DEF SetParam
<1>3. ASSUME NEW other \in ParamIds
      PROVE  params'[other] \in ParamWindow(other).lo..ParamWindow(other).hi
  <2>1. CASE other = id
    BY <2>1, ClampInWindow DEF TypeOK, SetParam
  <2>2. CASE other # id
    BY <2>2 DEF TypeOK, SetParam
  <2>3. QED BY <2>1, <2>2
<1>4. QED
  BY <1>1, <1>2, <1>3
     DEF TypeOK, SetParam, timerVars, windowVars, peakVars, budgetVars

\* Each assignment of the panel reset keeps the types.
LEMMA ResetType ==
  ASSUME TypeOK, WeakVerdictReset
  PROVE  TypeOK'
<1> USE DEF TypeOK, WeakVerdictReset, LastResetStep
<1>1. Off \in Timers /\ MaxAge \in Timers
  BY TimesAssumption DEF Timers
<1>2. mainsFree' \in Timers /\ healthy' \in Timers
  BY <1>1 DEF Torn
<1>3. weakVerdict' \in BOOLEAN /\ parked' \in BOOLEAN
  OBVIOUS
<1>4. resetPc' \in 0..LastResetStep
  OBVIOUS
<1>5. preempts' \in 0..MaxPreempt
  BY TimesAssumption
<1>6. failCount' \in 0..255 /\ restPeak' \in Nat /\ lastRestPeak' \in Nat
  OBVIOUS
<1>7. QED BY <1>2, <1>3, <1>4, <1>5, <1>6 DEF timerVars

\* Every step keeps the types.
LEMMA StepType == TypeOK /\ [Next]_vars => TypeOK'
<1> SUFFICES ASSUME TypeOK, [Next]_vars PROVE TypeOK'
  OBVIOUS
<1>1. ASSUME NEW s \in Snapshots, ControlPass(s) PROVE TypeOK'
  <2>1. preempts' \in 0..MaxPreempt
    BY <1>1, TimesAssumption DEF ControlPass, TypeOK
  <2>2. QED BY <1>1, <2>1, EvaluateType DEF ControlPass
<1>2. ASSUME NEW w \in PanelWrites, SetParam(w[1], w[2]) PROVE TypeOK'
  <2>1. w[1] \in ParamIds /\ w[2] \in Nat
    BY InputsAssumption
  <2>2. QED BY <1>2, <2>1, SetParamType
<1>3. CASE WeakVerdictReset
  BY <1>3, ResetType
<1>4. CASE UNCHANGED vars
  BY <1>4 DEF TypeOK, vars, timerVars, windowVars, peakVars, budgetVars
<1>5. QED BY <1>1, <1>2, <1>3, <1>4 DEF Next, CommTask

\* Every variable of the changeover keeps its type, for any voltages, fault
\* masks, windows and panel writes.
THEOREM TypeCorrect == Spec => []TypeOK
BY InitType, StepType, PTL DEF Spec
-----------------------------------------------------------------------------
(***************************************************************************)
(* The reported state agrees with PB11.  The invariant is inductive as it  *)
(* stands: every pass writes the pin and the state together, or keeps one  *)
(* and moves the other to a value that agrees with it.                     *)
(***************************************************************************)

\* One evaluation keeps PB11 and the reported state in agreement.
LEMMA EvaluatePath ==
  ASSUME TypeOK, PathMatchesState, NEW s \in Snapshots, Evaluate(s)
  PROVE  PathMatchesState'
<1> USE DEF PathMatchesState
<1>1. Mapped(s) \in {"INPUT", "BATTERY"}
  BY DEF Mapped
<1>2. CASE InvalidPass(s)
  BY <1>2 DEF InvalidPass
<1>3. CASE FaultPass(s)
  BY <1>3 DEF FaultPass, EarlyReturn
<1>4. CASE VetoPass(s)
  BY <1>4 DEF VetoPass, CutNow
<1>5. CASE WeakBlockPass(s)
  BY <1>5 DEF WeakBlockPass, CutNow
<1>6. CASE BootConnect(s)
  BY <1>1, <1>6 DEF BootConnect
<1>7. CASE BootWait(s)
  BY <1>7 DEF BootWait
<1>8. CASE CutPending(s)
  BY <1>1, <1>8 DEF CutPending
<1>9. CASE Cut(s)
  BY <1>9 DEF Cut
<1>10. CASE Hold(s)
  BY <1>1, <1>10 DEF Hold, NoCut
<1>11. CASE Reconnect(s)
  BY <1>1, <1>11 DEF Reconnect, NoCut
<1>12. QED
  BY <1>2, <1>3, <1>4, <1>5, <1>6, <1>7, <1>8, <1>9, <1>10, <1>11, Evaluate(s)
     DEF Evaluate

\* PB11 and the reported state never contradict each other, in any interleaving
\* of control passes, panel writes and resets.
THEOREM PathSafe == Spec => []PathMatchesState
<1>1. Init => PathMatchesState
  BY DEF Init, PathMatchesState
<1>2. TypeOK /\ PathMatchesState /\ [Next]_vars => PathMatchesState'
  <2> SUFFICES ASSUME TypeOK, PathMatchesState, [Next]_vars
               PROVE  PathMatchesState'
    OBVIOUS
  <2>1. ASSUME NEW s \in Snapshots, ControlPass(s) PROVE PathMatchesState'
    BY <2>1, EvaluatePath DEF ControlPass
  <2>2. ASSUME NEW w \in PanelWrites, SetParam(w[1], w[2]) PROVE PathMatchesState'
    BY <2>2 DEF SetParam, PathMatchesState
  <2>3. CASE WeakVerdictReset
    BY <2>3 DEF WeakVerdictReset, PathMatchesState
  <2>4. CASE UNCHANGED vars
    BY <2>4 DEF vars, PathMatchesState
  <2>5. QED BY <2>1, <2>2, <2>3, <2>4 DEF Next, CommTask
<1>3. QED BY <1>1, <1>2, TypeCorrect, PTL DEF Spec
-----------------------------------------------------------------------------
(***************************************************************************)
(* The scenario-8 veto.  A pass that reports BATTERY either saw the mains  *)
(* absent and so was past the weak block, or kept a state that PB11        *)
(* contradicts.                                                            *)
(***************************************************************************)

\* A usable evaluation that ends with the load on the pack alone either drops the
\* verdict or finds the output block off.
LEMMA EvaluateCondemned ==
  ASSUME TypeOK, PathMatchesState,
         NEW s \in Snapshots, Usable(s), Evaluate(s), CondemnedPackFeeds'
  PROVE  FALSE
<1>1. weakVerdict' /\ params'.block # 0 /\ appState' = "BATTERY"
  BY DEF CondemnedPackFeeds
<1>2. ~WeakBlocks(s) /\ params' = params
  BY <1>1, Usable(s), Evaluate(s)
     DEF Evaluate, Usable, InvalidPass, FaultPass, VetoPass, WeakBlockPass, CutNow,
         BootConnect, BootWait, CutPending, Cut, Hold, Reconnect, NoCut, Decide,
         Deciding
<1>3. ~Cut(s)
  BY <1>1 DEF Cut
<1>4. Mapped(s) = "BATTERY" => ~s.input
  BY DEF Mapped
<1>5. KeepVerdict(s) /\ Mapped(s) = "BATTERY"
  BY <1>1, <1>3, Usable(s), Evaluate(s)
     DEF Evaluate, Usable, InvalidPass, FaultPass, VetoPass, WeakBlockPass, CutNow,
         BootConnect, BootWait, CutPending, Hold, Reconnect, NoCut, PathMatchesState
<1>6. VerdictAt(s)
  BY <1>1, <1>5 DEF KeepVerdict
<1>7. QED BY <1>1, <1>2, <1>4, <1>5, <1>6 DEF WeakBlocks

\* No pass that can judge its snapshot leaves a condemned pack feeding the load
\* alone while the output block is on.
THEOREM CondemnedSafe == Spec => CondemnedPackNeverFeeds
<1>1. /\ TypeOK /\ PathMatchesState
      => (CondemnedPackFeeds' => ~\E s \in Snapshots : Usable(s) /\ Evaluate(s))
  BY EvaluateCondemned
<1>2. QED BY <1>1, TypeCorrect, PathSafe, PTL DEF Spec, CondemnedPackNeverFeeds
-----------------------------------------------------------------------------
(***************************************************************************)
(* The parking flag and the failure counter.  They are two variables that  *)
(* every pass moves together, but the unlocked panel reset zeroes them in  *)
(* two assignments.  The pair stays consistent because no pass that        *)
(* interrupts the reset can count a failure once the reset has forgotten   *)
(* the last mains-free reconnect: a new reconnect stops the cut timer, and *)
(* fewer passes than the cut filter needs can interrupt one reset.         *)
(***************************************************************************)

SpentMatches == parked <=> failCount >= CHANGEOVER_MAINS_FREE_RETRY_BUDGET

BudgetInv ==
  /\ resetPc # 6 => SpentMatches
  /\ resetPc = 6 => failCount = 0
  /\ resetPc \in 2..LastResetStep /\ mainsFree # Off => cutTimer < preempts

\* A pass that interrupts the reset after the reconnect was forgotten is not a
\* cut of a load that was reconnected without mains.
LEMMA NoFailureDuringReset ==
  ASSUME TypeOK, BudgetInv, resetPc \in 2..LastResetStep,
         NEW s \in Snapshots, ControlPass(s)
  PROVE  ~(Cut(s) /\ FailedAttempt(s))
<1> SUFFICES ASSUME Cut(s), FailedAttempt(s) PROVE FALSE
  OBVIOUS
<1>1. mainsFree # Off
  BY TimerStep DEF FailedAttempt, MainsFreeAt, TypeOK
<1>2. cutTimer < preempts
  BY <1>1 DEF BudgetInv
<1>3. preempts < MaxPreempt
  BY DEF ControlPass
<1>4. Running(cutTimer) <= cutTimer + 1 /\ cutTimer \in Int
  BY TimerStep, TimesAssumption DEF TypeOK, Timers, Off
<1>5. Running(cutTimer) \in Int
  BY TimerStep, TimesAssumption DEF TypeOK, Timers, Off
<1>6. Running(cutTimer) < Duration
  BY <1>2, <1>3, <1>4, <1>5, TimesAssumption DEF TypeOK
<1>7. Running(cutTimer) >= Duration
  BY DEF Cut
<1>8. QED BY <1>5, <1>6, <1>7, TimesAssumption

\* What one evaluation does to the counter and the flag: keeps both, empties
\* both, or counts a failure of a load that was reconnected without mains.
LEMMA EvaluateCounters ==
  ASSUME TypeOK, NEW s \in Snapshots, Evaluate(s)
  PROVE  \/ failCount' = failCount /\ parked' = parked
         \/ failCount' = 0 /\ parked' = FALSE
         \/ Cut(s) /\ FailedAttempt(s) /\ failCount' >= 1 /\ parked' = TRUE
<1> DEFINE Goal == \/ failCount' = failCount /\ parked' = parked
                   \/ failCount' = 0 /\ parked' = FALSE
                   \/ /\ Cut(s) /\ FailedAttempt(s)
                      /\ failCount' >= 1 /\ parked' = TRUE
<1>0. parked \in BOOLEAN /\ failCount \in 0..255 /\ s.input \in BOOLEAN
  BY SnapshotFields DEF TypeOK
<1>1. KeepVerdict(s) => Goal
  <2> SUFFICES ASSUME KeepVerdict(s) PROVE Goal
    OBVIOUS
  <2>1. CASE s.input \/ QuietRest(s)
    BY <2>1 DEF KeepVerdict, FailCountAfterRest, FailCountAt, ParkedAfterRest, ParkedAt
  <2>2. CASE ~s.input /\ ~QuietRest(s)
    BY <1>0, <2>2
       DEF KeepVerdict, FailCountAfterRest, FailCountAt, ParkedAfterRest, ParkedAt
  <2>3. QED BY <2>1, <2>2
<1>2. EarlyReturn(s) => Goal
  <2> SUFFICES ASSUME EarlyReturn(s) PROVE Goal
    OBVIOUS
  <2>1. CASE s.input
    BY <2>1 DEF EarlyReturn, FailCountAt, ParkedAt
  <2>2. CASE ~s.input
    BY <1>0, <2>2 DEF EarlyReturn, FailCountAt, ParkedAt
  <2>3. QED BY <2>1, <2>2
<1>3. Cut(s) => Goal
  <2> SUFFICES ASSUME Cut(s) PROVE Goal
    OBVIOUS
  <2>1. CASE ~protect /\ FailedAttempt(s)
    <3>1. CountFailure(s)
      BY <2>1 DEF Cut
    <3>2. failCount' >= 1
      BY <3>1, DerivedTypes DEF CountFailure
    <3>3. parked' = TRUE
      BY <3>1, <3>2 DEF CountFailure, CHANGEOVER_MAINS_FREE_RETRY_BUDGET
    <3>4. QED BY <2>1, <3>2, <3>3
  <2>2. CASE ~(~protect /\ FailedAttempt(s))
    BY <1>1, <2>2 DEF Cut
  <2>3. QED BY <2>1, <2>2
<1>4. InvalidPass(s) => Goal
  BY DEF InvalidPass, budgetVars
<1>5. QED
  BY <1>1, <1>2, <1>3, <1>4, Evaluate(s)
     DEF Evaluate, FaultPass, VetoPass, WeakBlockPass, BootConnect, BootWait,
         CutPending, Hold, Reconnect, NoCut

\* What one evaluation does to the cut timer of a load reconnected without
\* mains: it lets it age by one pass at most, or stops it.
LEMMA EvaluateCutTimer ==
  ASSUME TypeOK, NEW s \in Snapshots, Evaluate(s), mainsFree' # Off
  PROVE  \/ cutTimer' = Off
         \/ mainsFree # Off /\ cutTimer' \in Int /\ cutTimer' <= cutTimer + 1
<1>1. /\ cutTimer \in Int /\ Running(cutTimer) \in Int
      /\ Running(cutTimer) <= cutTimer + 1
  BY TimerStep, TimesAssumption DEF TypeOK, Timers, Off
<1>2. KeepPeaks(s) => mainsFree # Off
  BY TimerStep DEF KeepPeaks, MainsFreeAt, TypeOK
<1>3. CASE InvalidPass(s)
  BY <1>3 DEF InvalidPass, StopTimers
<1>4. CASE FaultPass(s) \/ VetoPass(s) \/ WeakBlockPass(s)
  BY <1>4 DEF FaultPass, VetoPass, WeakBlockPass, CutNow, StopTimers
<1>5. CASE BootConnect(s) \/ BootWait(s)
  BY <1>1, <1>2, <1>5 DEF BootConnect, BootWait, timerVars
<1>6. CASE CutPending(s)
  BY <1>1, <1>2, <1>6 DEF CutPending
<1>7. CASE Cut(s)
  <2>1. mainsFree # Off
    BY <1>7, TimerStep DEF Cut, MainsFreeAt, TypeOK
  <2>2. QED BY <1>1, <1>7, <2>1 DEF Cut
<1>8. CASE Hold(s) \/ Reconnect(s)
  BY <1>8 DEF Hold, Reconnect, NoCut
<1>9. QED
  BY <1>3, <1>4, <1>5, <1>6, <1>7, <1>8, Evaluate(s) DEF Evaluate

\* An evaluation does not touch the reset it interrupts.
LEMMA EvaluateKeepsReset ==
  ASSUME NEW s \in Snapshots, Evaluate(s)
  PROVE  resetPc' = resetPc
BY DEF Evaluate, InvalidPass, FaultPass, VetoPass, EarlyReturn, WeakBlockPass,
       BootConnect, BootWait, CutPending, Cut, Hold, Reconnect, NoCut, Decide

\* A control pass keeps the budget invariant.
LEMMA PassBudget ==
  ASSUME TypeOK, BudgetInv, NEW s \in Snapshots, ControlPass(s)
  PROVE  BudgetInv'
<1>1. Evaluate(s) /\ resetPc' = resetPc
  BY EvaluateKeepsReset DEF ControlPass
<1>2. resetPc # 6 => SpentMatches'
  <2> SUFFICES ASSUME resetPc # 6 PROVE SpentMatches'
    OBVIOUS
  <2>1. SpentMatches
    BY DEF BudgetInv
  <2>2. CASE failCount' = failCount /\ parked' = parked
    BY <2>1, <2>2 DEF SpentMatches
  <2>3. CASE failCount' = 0 /\ parked' = FALSE
    BY <2>3 DEF SpentMatches, CHANGEOVER_MAINS_FREE_RETRY_BUDGET
  <2>4. CASE failCount' >= 1 /\ parked' = TRUE
    BY <2>4 DEF SpentMatches, CHANGEOVER_MAINS_FREE_RETRY_BUDGET
  <2>5. QED BY <1>1, <2>2, <2>3, <2>4, EvaluateCounters
<1>3. resetPc = 6 => failCount' = 0
  <2> SUFFICES ASSUME resetPc = 6 PROVE failCount' = 0
    OBVIOUS
  <2>1. ~(Cut(s) /\ FailedAttempt(s))
    BY NoFailureDuringReset DEF LastResetStep
  <2>2. QED BY <1>1, <2>1, EvaluateCounters DEF BudgetInv
<1>4. resetPc \in 2..LastResetStep /\ mainsFree' # Off => cutTimer' < preempts'
  <2> SUFFICES ASSUME resetPc \in 2..LastResetStep, mainsFree' # Off
               PROVE  cutTimer' < preempts'
    OBVIOUS
  <2>1. preempts' = preempts + 1 /\ preempts \in Nat
    BY TimesAssumption DEF ControlPass, TypeOK
  <2>2. CASE cutTimer' = Off
    BY <2>1, <2>2 DEF Off
  <2>3. CASE mainsFree # Off /\ cutTimer' \in Int /\ cutTimer' <= cutTimer + 1
    <3>1. cutTimer < preempts /\ cutTimer \in Int
      BY <2>3, TimesAssumption DEF BudgetInv, TypeOK, Timers, Off
    <3>2. QED BY <2>1, <2>3, <3>1
  <2>4. QED BY <1>1, <2>2, <2>3, EvaluateCutTimer
<1>5. QED BY <1>1, <1>2, <1>3, <1>4 DEF BudgetInv

\* Each assignment of the panel reset keeps the budget invariant.
LEMMA ResetBudget ==
  ASSUME TypeOK, BudgetInv, WeakVerdictReset
  PROVE  BudgetInv'
<1>1. resetPc \in 0..8 /\ failCount \in 0..255
  BY DEF TypeOK, LastResetStep
<1>2. resetPc' = IF resetPc = 8 THEN 0 ELSE resetPc + 1
  BY DEF WeakVerdictReset, LastResetStep
<1>3. resetPc' \in 2..8 /\ mainsFree' # Off => cutTimer' < preempts'
  <2> SUFFICES ASSUME resetPc' \in 2..8, mainsFree' # Off
               PROVE  cutTimer' < preempts'
    OBVIOUS
  <2>1. resetPc # 8 /\ resetPc # 0
    BY <1>1, <1>2
  <2>2. cutTimer' = cutTimer /\ preempts' = preempts
    BY <2>1 DEF WeakVerdictReset, timerVars, LastResetStep
  <2>3. resetPc # 1
    BY DEF WeakVerdictReset
  <2>4. mainsFree # Off
    <3>1. CASE resetPc = 2
      BY <3>1 DEF WeakVerdictReset, Torn
    <3>2. CASE resetPc # 2
      BY <2>3, <3>2 DEF WeakVerdictReset
    <3>3. QED BY <3>1, <3>2
  <2>5. QED BY <1>1, <2>1, <2>2, <2>3, <2>4 DEF BudgetInv, LastResetStep
<1>4. CASE resetPc \notin {5, 6}
  <2>1. failCount' = failCount /\ (parked' <=> parked) /\ resetPc' # 6
    <3>1. failCount' = failCount
      BY <1>4 DEF WeakVerdictReset
    <3>2. parked' <=> parked
      BY <1>4, Zenon DEF WeakVerdictReset
    <3>3. resetPc' # 6
      BY <1>1, <1>2, <1>4
    <3>4. QED BY <3>1, <3>2, <3>3
  <2>2. SpentMatches'
    BY <1>4, <2>1 DEF BudgetInv, SpentMatches
  <2>3. QED BY <1>3, <2>1, <2>2 DEF BudgetInv, LastResetStep
<1>5. CASE resetPc = 5
  <2>1. failCount' = 0 /\ resetPc' = 6
    BY <1>2, <1>5 DEF WeakVerdictReset
  <2>2. QED BY <1>3, <2>1 DEF BudgetInv, LastResetStep
<1>6. CASE resetPc = 6
  <2>1. failCount' = 0 /\ resetPc' = 7
    BY <1>2, <1>6 DEF WeakVerdictReset, BudgetInv
  <2>2. ~parked'
    BY <1>6 DEF WeakVerdictReset
  <2>3. SpentMatches'
    BY <2>1, <2>2 DEF SpentMatches, CHANGEOVER_MAINS_FREE_RETRY_BUDGET
  <2>4. QED BY <1>3, <2>1, <2>3 DEF BudgetInv, LastResetStep
<1>7. QED BY <1>4, <1>5, <1>6

\* Outside a panel reset the path is parked exactly when the attempt budget is
\* spent, although the reset that refills both runs unlocked beside the passes.
THEOREM ParkedSafe == Spec => []ParkedWhenSpent
<1>1. Init => BudgetInv
  BY DEF Init, BudgetInv, SpentMatches, CHANGEOVER_MAINS_FREE_RETRY_BUDGET,
         LastResetStep
<1>2. TypeOK /\ BudgetInv /\ [Next]_vars => BudgetInv'
  <2> SUFFICES ASSUME TypeOK, BudgetInv, [Next]_vars PROVE BudgetInv'
    OBVIOUS
  <2>1. ASSUME NEW s \in Snapshots, ControlPass(s) PROVE BudgetInv'
    BY <2>1, PassBudget
  <2>2. ASSUME NEW w \in PanelWrites, SetParam(w[1], w[2]) PROVE BudgetInv'
    BY <2>2 DEF SetParam, BudgetInv, SpentMatches, budgetVars, timerVars
  <2>3. CASE WeakVerdictReset
    BY <2>3, ResetBudget
  <2>4. CASE UNCHANGED vars
    BY <2>4 DEF vars, BudgetInv, SpentMatches, budgetVars, timerVars
  <2>5. QED BY <2>1, <2>2, <2>3, <2>4 DEF Next, CommTask
<1>3. BudgetInv => ParkedWhenSpent
  BY DEF BudgetInv, SpentMatches, ParkedWhenSpent
<1>4. QED BY <1>1, <1>2, <1>3, TypeCorrect, PTL DEF Spec
-----------------------------------------------------------------------------
(***************************************************************************)
(* What the outside world saw: the observers of MCChangeover.              *)
(***************************************************************************)

mcvars == <<vars, observed>>

ObservedTypes == seenPeak \in Nat /\ vetoed \in BOOLEAN /\ lowRun \in Nat

\* A load seen low and not clear since has the cut's countdown running, and the
\* countdown is as old as the run.
Counted ==
  lowRun > 0 => /\ lowLatched
                /\ cutTimer \in 0..Duration - 1
                /\ lowRun <= cutTimer + 1

\* The peak behind a mains-free reconnect was seen since the load was cut.  The
\* weak block is a cut that does not forget the peak: it has none to forget,
\* because the cut that set the verdict did, and so did the reconnect after it.
PeakSeen ==
  /\ bootPending => ~weakVerdict
  /\ weakVerdict /\ ~protect => restPeak = 0
  /\ protect /\ ~vetoed => restPeak <= seenPeak

WatchInv ==
  TypeOK /\ PathMatchesState /\ ObservedTypes /\ Counted /\ PeakSeen

\* The state is the same for every pass outside the watch.
LEMMA StepIsNext ==
  ASSUME [MCNext]_mcvars PROVE [Next]_vars
BY DEF MCNext, mcvars, Next

LEMMA PassObserved ==
  ASSUME ObservedTypes, NEW s \in Snapshots, Observe(s)
  PROVE  ObservedTypes'
<1>1. s.v \in Nat
  BY SnapshotFields
<1>2. seenPeak' \in Nat
  BY <1>1 DEF ObservedTypes, Observe
<1>3. vetoed' \in BOOLEAN
  BY Zenon DEF Observe
<1>4. lowRun' \in Nat
  BY DEF ObservedTypes, Observe
<1>5. QED BY <1>2, <1>3, <1>4 DEF ObservedTypes

\* A usable pass that asks for no cut has seen the pack clear.
LEMMA ClearPassEndsRun ==
  ASSUME WatchInv, NEW s \in Snapshots, NoCut(s), Observe(s)
  PROVE  lowRun' = 0
<1>1. ~LowLatchedAt(s) /\ s.v \in Nat
  BY SnapshotFields DEF NoCut, CutCondition
<1>2. ~(s.v < CHANGEOVER_BAT_LOW_ALARM_CUT_MV)
  BY <1>1 DEF LowLatchedAt
<1>3. ~(lowRun > 0 /\ s.v < CHANGEOVER_BAT_LOW_ALARM_CLEAR_MV)
  BY <1>1 DEF LowLatchedAt, WatchInv, Counted
<1>4. QED BY <1>2, <1>3 DEF Observe

LEMMA PendingPassCounts ==
  ASSUME WatchInv, NEW s \in Snapshots, CutPending(s), Observe(s)
  PROVE  Counted'
<1>1. /\ cutTimer' = Running(cutTimer) /\ Running(cutTimer) < Duration
      /\ lowLatched' = LowLatchedAt(s)
  BY DEF CutPending, Decide
<1>2. cutTimer \in Timers /\ Running(cutTimer) \in Timers /\ Running(cutTimer) # Off
      /\ Duration \in Nat /\ MaxAge \in Nat /\ Duration <= MaxAge
  BY TimerStep, TimesAssumption DEF WatchInv, TypeOK
<1>3. cutTimer' \in 0..Duration - 1
  BY <1>1, <1>2 DEF Timers, Off
<1>4. SUFFICES ASSUME lowRun' > 0 PROVE lowLatched' /\ lowRun' <= cutTimer' + 1
  BY <1>3 DEF Counted
<1>5. /\ lowRun' = lowRun + 1
      /\ \/ s.v < CHANGEOVER_BAT_LOW_ALARM_CUT_MV
         \/ lowRun > 0 /\ s.v < CHANGEOVER_BAT_LOW_ALARM_CLEAR_MV
  BY <1>4 DEF Observe
<1>6. LowLatchedAt(s)
  BY <1>5 DEF LowLatchedAt, WatchInv, Counted
<1>7. CASE lowRun = 0
  BY <1>1, <1>3, <1>5, <1>6, <1>7, TimesAssumption
<1>8. CASE lowRun > 0
  <2>1. cutTimer \in 0..Duration - 1 /\ lowRun <= cutTimer + 1
    BY <1>8 DEF WatchInv, Counted
  <2>2. Running(cutTimer) = cutTimer + 1
    BY <1>1, <1>2, <2>1 DEF Running, Aged, Off
  <2>3. QED BY <1>1, <1>2, <1>5, <1>6, <2>1, <2>2 DEF WatchInv, ObservedTypes
<1>9. QED BY <1>7, <1>8 DEF WatchInv, ObservedTypes

LEMMA PassCounted ==
  ASSUME WatchInv, NEW s \in Snapshots, Evaluate(s), Observe(s)
  PROVE  Counted'
<1>1. lowRun' = 0 => Counted'
  BY DEF Counted
<1>2. ~Usable(s) \/ protect' => lowRun' = 0
  BY DEF Observe
<1>3. CASE InvalidPass(s) \/ FaultPass(s) \/ VetoPass(s)
  BY <1>1, <1>2, <1>3 DEF InvalidPass, FaultPass, VetoPass, Usable
<1>4. CASE WeakBlockPass(s) \/ Cut(s)
  BY <1>1, <1>2, <1>4 DEF WeakBlockPass, CutNow, Cut
<1>5. CASE BootWait(s)
  BY <1>1, <1>2, <1>5 DEF BootWait, WatchInv, PathMatchesState
<1>6. CASE BootConnect(s)
  <2>1. s.v \in Nat /\ s.v >= CHANGEOVER_BAT_RECONNECT_MV
    BY <1>6, SnapshotFields DEF BootConnect
  <2>2. /\ ~(s.v < CHANGEOVER_BAT_LOW_ALARM_CUT_MV)
        /\ ~(s.v < CHANGEOVER_BAT_LOW_ALARM_CLEAR_MV)
    BY <2>1 DEF CHANGEOVER_BAT_RECONNECT_MV, CHANGEOVER_BAT_LOW_ALARM_CUT_MV,
                CHANGEOVER_BAT_LOW_ALARM_CLEAR_MV
  <2>3. QED BY <1>1, <2>2 DEF Observe
<1>7. CASE CutPending(s)
  BY <1>7, PendingPassCounts
<1>8. CASE Hold(s) \/ Reconnect(s)
  BY <1>1, <1>8, ClearPassEndsRun DEF Hold, Reconnect
<1>9. QED
  BY <1>3, <1>4, <1>5, <1>6, <1>7, <1>8 DEF Evaluate

\* What a pass makes of the peak while the path stays cut, and what the world
\* saw of it.
LEMMA PeakOfPass ==
  ASSUME WatchInv, NEW s \in Snapshots, Observe(s), protect
  PROVE  /\ restPeak <= seenPeak /\ s.valid => RestPeakAt(s) <= seenPeak'
         /\ restPeak <= seenPeak => restPeak <= seenPeak'
         /\ 0 <= seenPeak'
<1>1. s.v \in Nat /\ restPeak \in Nat /\ seenPeak \in Nat
  BY SnapshotFields DEF WatchInv, TypeOK, ObservedTypes
<1>2. seenPeak' = IF s.valid /\ ~s.input /\ s.v > seenPeak THEN s.v ELSE seenPeak
  BY DEF Observe
<1>3. QED BY <1>1, <1>2 DEF RestPeakAt

\* A pass sets the verdict only with the cut that forgets the peak, and after
\* the first connection.
LEMMA VerdictOfPass ==
  ASSUME WatchInv, NEW s \in Snapshots, Evaluate(s)
  PROVE  \/ weakVerdict' => weakVerdict
         \/ Cut(s) /\ ~protect
<1>1. KeepVerdict(s) => (weakVerdict' => weakVerdict)
  BY DEF KeepVerdict, VerdictAt
<1>2. CASE Cut(s)
  BY <1>1, <1>2 DEF Cut
<1>3. CASE InvalidPass(s) \/ FaultPass(s) \/ VetoPass(s)
  BY <1>3 DEF InvalidPass, FaultPass, VetoPass, EarlyReturn
<1>4. QED
  BY <1>1, <1>2, <1>3
     DEF Evaluate, WeakBlockPass, BootConnect, BootWait, CutPending, Hold,
         Reconnect, NoCut

\* How a pass may move the path and the peak.
LEMMA PathOfPass ==
  ASSUME WatchInv, NEW s \in Snapshots, Evaluate(s)
  PROVE  \/ /\ protect' = protect
            /\ restPeak' = restPeak \/ (s.valid /\ restPeak' = RestPeakAt(s))
         \/ Cut(s) /\ ~protect /\ protect' /\ restPeak' = 0
         \/ Reconnect(s) /\ protect /\ ~protect' /\ restPeak' = 0
         \/ BootConnect(s) /\ ~protect'
         \/ VetoPass(s) /\ protect' /\ ~protect
         \/ WeakBlockPass(s) /\ protect' /\ ~protect /\ restPeak' = restPeak
<1>0. protect \in BOOLEAN /\ (~protect => RestPeakAt(s) = restPeak)
  BY DEF WatchInv, TypeOK, RestPeakAt
<1>1. CASE InvalidPass(s)
  BY <1>1 DEF InvalidPass, peakVars
<1>2. CASE FaultPass(s)
  BY <1>2 DEF FaultPass, EarlyReturn, KeepPeaks
<1>3. CASE VetoPass(s)
  BY <1>0, <1>3 DEF VetoPass, EarlyReturn, KeepPeaks, CutNow
<1>4. CASE WeakBlockPass(s)
  BY <1>0, <1>4 DEF WeakBlockPass, KeepPeaks, CutNow, Usable
<1>5. CASE BootConnect(s)
  BY <1>5 DEF BootConnect
<1>6. CASE BootWait(s)
  BY <1>6 DEF BootWait, KeepPeaks, Decide, Deciding, Usable
<1>7. CASE CutPending(s)
  BY <1>7 DEF CutPending, KeepPeaks, Decide, Deciding, Usable
<1>8. CASE Cut(s)
  BY <1>0, <1>8 DEF Cut, Decide, Deciding, Usable
<1>9. CASE Hold(s)
  BY <1>9 DEF Hold, NoCut, KeepPeaks, Decide, Deciding, Usable
<1>10. CASE Reconnect(s)
  BY <1>0, <1>10 DEF Reconnect, NoCut, KeepPeaks, Decide, Deciding, Usable
<1>11. QED
  BY <1>1, <1>2, <1>3, <1>4, <1>5, <1>6, <1>7, <1>8, <1>9, <1>10 DEF Evaluate

LEMMA PassPeak ==
  ASSUME WatchInv, NEW s \in Snapshots, Evaluate(s), Observe(s)
  PROVE  PeakSeen'
<1>0. /\ protect \in BOOLEAN /\ weakVerdict \in BOOLEAN /\ vetoed \in BOOLEAN
      /\ PeakSeen /\ restPeak \in Nat
  BY DEF WatchInv, TypeOK, ObservedTypes
<1>1. bootPending' => ~weakVerdict'
  <2>1. bootPending' => bootPending
    BY DEF Evaluate, InvalidPass, FaultPass, VetoPass, EarlyReturn,
           WeakBlockPass, BootConnect, BootWait, CutPending, Cut, Hold,
           Reconnect, NoCut
  <2>2. Cut(s) => ~bootPending
    BY DEF Cut
  <2>3. QED BY <1>0, <2>1, <2>2, VerdictOfPass DEF PeakSeen
<1>2. ASSUME weakVerdict', ~protect' PROVE restPeak' = 0
  <2>1. weakVerdict
    BY <1>2, VerdictOfPass DEF Cut
  <2>2. CASE protect' = protect
    <3>1. ~protect /\ restPeak = 0
      BY <1>0, <1>2, <2>1, <2>2 DEF PeakSeen
    <3>2. RestPeakAt(s) = restPeak
      BY <3>1 DEF RestPeakAt
    <3>3. CASE BootConnect(s)
      BY <1>0, <2>1, <3>3 DEF BootConnect, PeakSeen
    <3>4. ~protect'
      BY <1>2
    <3>5. CASE ~BootConnect(s)
      <4>1. restPeak' = restPeak \/ restPeak' = RestPeakAt(s)
        BY <3>1, <3>4, <3>5, PathOfPass
      <4>2. QED BY <4>1, <3>1, <3>2
    <3>6. QED BY <3>3, <3>5
  <2>3. CASE BootConnect(s)
    BY <1>0, <2>1, <2>3 DEF BootConnect, PeakSeen
  <2>4. QED BY <1>2, <2>2, <2>3, PathOfPass
<1>3. ASSUME protect', ~vetoed' PROVE restPeak' <= seenPeak'
  <2>1. ~vetoed
    BY <1>0, <1>3 DEF Observe
  <2>2. CASE protect
    <3>1. restPeak <= seenPeak
      BY <1>0, <2>1, <2>2 DEF PeakSeen
    <3>2. restPeak' = restPeak \/ (s.valid /\ restPeak' = RestPeakAt(s))
      BY <1>3, <2>2, PathOfPass
    <3>3. QED BY <2>2, <3>1, <3>2, PeakOfPass
  <2>3. CASE ~protect
    <3>1. seenPeak' = 0
      BY <2>3 DEF Observe
    <3>2. ~VetoPass(s)
      BY <1>3, <2>3 DEF Observe
    <3>3. WeakBlockPass(s) => restPeak = 0
      BY <1>0, <2>3 DEF WeakBlockPass, WeakBlocks, VerdictAt, PeakSeen
    <3>4. restPeak' = 0
      BY <1>3, <2>3, <3>2, <3>3, PathOfPass
    <3>5. QED BY <3>1, <3>4
  <2>4. QED BY <2>2, <2>3
<1>4. QED BY <1>1, <1>2, <1>3 DEF PeakSeen

\* The panel neither moves the path nor a timer of the cut.
LEMMA PanelWatch ==
  ASSUME WatchInv, CommTask, UNCHANGED observed
  PROVE  ObservedTypes' /\ Counted' /\ PeakSeen'
<1>1. /\ UNCHANGED <<lowRun, seenPeak, vetoed>>
      /\ ObservedTypes /\ Counted /\ PeakSeen
  BY DEF observed, WatchInv
<1>2. ASSUME UNCHANGED <<lowLatched, cutTimer, protect, bootPending>>,
             weakVerdict' => weakVerdict, restPeak' = restPeak \/ restPeak' = 0
      PROVE  ObservedTypes' /\ Counted' /\ PeakSeen'
  <2>1. restPeak \in Nat /\ seenPeak \in Nat
    BY DEF WatchInv, TypeOK, ObservedTypes
  <2>2. QED BY <1>1, <1>2, <2>1 DEF ObservedTypes, Counted, PeakSeen
<1>3. ASSUME NEW w \in PanelWrites, SetParam(w[1], w[2])
      PROVE  ObservedTypes' /\ Counted' /\ PeakSeen'
  BY <1>2, <1>3 DEF SetParam, timerVars, peakVars
<1>4. CASE WeakVerdictReset
  <2>1. weakVerdict' => weakVerdict
    BY <1>4 DEF WeakVerdictReset
  <2>2. restPeak' = restPeak \/ restPeak' = 0
    BY <1>4 DEF WeakVerdictReset
  <2>3. UNCHANGED <<lowLatched, cutTimer, protect, bootPending>>
    BY <1>4 DEF WeakVerdictReset, timerVars
  <2>4. QED BY <1>2, <2>1, <2>2, <2>3
<1>5. QED BY <1>3, <1>4 DEF CommTask

LEMMA WatchStep == WatchInv /\ [MCNext]_mcvars => WatchInv'
<1> SUFFICES ASSUME WatchInv, [MCNext]_mcvars PROVE WatchInv'
  OBVIOUS
<1>1. TypeOK' /\ [Next]_vars
  BY StepIsNext, StepType DEF WatchInv
<1>2. ASSUME NEW s \in Snapshots, ControlPass(s), Observe(s) PROVE WatchInv'
  BY <1>1, <1>2, EvaluatePath, PassObserved, PassCounted, PassPeak
     DEF ControlPass, WatchInv
<1>3. CASE CommTask /\ UNCHANGED observed
  <2>1. PathMatchesState'
    BY <1>3 DEF CommTask, SetParam, WeakVerdictReset, PathMatchesState, WatchInv
  <2>2. QED BY <1>1, <1>3, <2>1, PanelWatch DEF WatchInv
<1>4. CASE UNCHANGED mcvars
  BY <1>1, <1>4
     DEF mcvars, vars, observed, timerVars, peakVars, WatchInv,
         PathMatchesState, ObservedTypes, Counted, PeakSeen
<1>5. CASE MCNext
  <2>1. CASE \E s \in Snapshots : Distinct(s) /\ ControlPass(s) /\ Observe(s)
    BY <1>2, <2>1
  <2>2. QED BY <1>3, <1>5, <2>1 DEF MCNext
<1>6. QED BY <1>4, <1>5 DEF mcvars

LEMMA Watched == MCSpec => []WatchInv
<1>1. MCInit => WatchInv
  <2> SUFFICES ASSUME MCInit PROVE WatchInv
    OBVIOUS
  <2>1. TypeOK
    BY InitType DEF MCInit
  <2>2. PathMatchesState
    BY DEF MCInit, Init, PathMatchesState
  <2>3. ObservedTypes /\ Counted
    <3>1. vetoed \in BOOLEAN
      BY DEF MCInit
    <3>2. seenPeak = 0 /\ lowRun = 0
      BY DEF MCInit
    <3>3. QED BY <3>1, <3>2 DEF ObservedTypes, Counted
  <2>4. PeakSeen
    BY DEF MCInit, Init, PeakSeen
  <2>5. QED BY <2>1, <2>2, <2>3, <2>4 DEF WatchInv
<1>2. QED BY <1>1, WatchStep, PTL DEF MCSpec, mcvars

\* A pack seen low is off the load within Duration usable passes unless it
\* climbs past the clear threshold: the latch keeps the countdown running
\* through the hysteresis band, whatever the panel does meanwhile.
THEOREM LowPacksAreCut == MCSpec => []LowPackIsCut
<1>1. ASSUME WatchInv PROVE LowPackIsCut
  BY <1>1, TimesAssumption DEF WatchInv, ObservedTypes, Counted, LowPackIsCut
<1>2. QED BY <1>1, Watched, PTL

LEMMA RestedStep ==
  ASSUME WatchInv, [MCNext]_mcvars, MainsFreeReconnect, ~vetoed
  PROVE  seenPeak' >= params.floorMv
<1>1. PICK s \in Snapshots : ControlPass(s) /\ Observe(s)
  BY DEF MCNext, mcvars, vars, MainsFreeReconnect, CommTask, SetParam,
         WeakVerdictReset
<1>2. Evaluate(s) /\ protect /\ ~protect' /\ ~bootPending /\ appState' = "BATTERY"
  BY <1>1 DEF ControlPass, MainsFreeReconnect
<1>3. Reconnect(s)
  BY <1>2, PathOfPass DEF BootConnect
<1>4. ReconnectCondition(s) /\ ~s.input /\ s.valid
  BY <1>2, <1>3 DEF Reconnect, NoCut, Decide, Deciding, Usable, Mapped
<1>5. RestPeakAt(s) >= params.floorMv
  BY <1>4 DEF ReconnectCondition, MainsGate, MainsFreeGate
<1>6. RestPeakAt(s) <= seenPeak'
  BY <1>1, <1>2, <1>4, PeakOfPass DEF WatchInv, PeakSeen
<1>7. seenPeak' \in Nat /\ params.floorMv \in Nat /\ RestPeakAt(s) \in Nat
  BY <1>1, PassObserved, DerivedTypes
     DEF WatchInv, TypeOK, ParamIds, ObservedTypes
<1>8. QED BY <1>5, <1>6, <1>7

\* A load cut by no veto and reconnected without mains gets a pack that was
\* seen resting at the floor since that cut, whatever the panel wrote or reset
\* in between.
THEOREM ReconnectsAreRested == MCSpec => RestedBeforeReconnect
<1>1. WatchInv /\ [MCNext]_mcvars
      => [MainsFreeReconnect /\ ~vetoed => seenPeak' >= params.floorMv]_mcvars
  BY RestedStep
<1>2. QED BY <1>1, Watched, PTL DEF MCSpec, RestedBeforeReconnect, mcvars
=============================================================================
