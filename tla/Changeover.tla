----------------------------- MODULE Changeover -----------------------------
(***************************************************************************)
(* The 24 V battery path of the UPS board: Modules/Changeover.  The line   *)
(* PB11 (BSP_GPIO_PROTECT_BATTERY), when asserted, cuts the battery from   *)
(* the load.  Every 10 ms the control task hands one measurement snapshot  *)
(* and the fault mask to Changeover_Evaluate, which times the low-battery  *)
(* cut, the reconnect, the mains-free retry budget and the weak-battery    *)
(* verdict ("scenario 8").                                                 *)
(*                                                                         *)
(* Time is counted in control passes.  A start-tick with its active flag   *)
(* is modelled by one timer: Off, or the passes elapsed since it started,  *)
(* saturating at MaxAge (the C code subtracts 32-bit ticks instead, which  *)
(* wrap after 49.7 days).                                                  *)
(*                                                                         *)
(* The communication task runs at a lower priority than the control task   *)
(* and takes no lock around WeakVerdictReset, so a control pass may fall   *)
(* between any two of its assignments: resetPc is its program counter.     *)
(* The watchdog resets the board when that task stalls for 1.5 s, half of  *)
(* the 3 s filters, hence MaxPreempt < Duration.                           *)
(***************************************************************************)
EXTENDS Integers

CONSTANTS
  PackVoltages,     \* pack voltages (mV) a snapshot may carry
  FaultMasks,       \* sets of fault bits a pass may be given
  Vetoes,           \* values the scenario-5/6 output vetoes may take
  Validity,         \* values snapshot.valid may take
  Duration,         \* CHANGEOVER_DURATION_MS, in passes
  InputStableTime,  \* CHANGEOVER_INPUT_STABLE_MS, in passes
  MaxAge,           \* saturation bound of every timer
  DefaultParams,    \* compiled defaults of the tunable parameters
  TimeWindow,       \* clamp window [lo, hi] of the timing parameters, in passes
  PanelWrites,      \* raw <<id, value>> writes the panel may send
  PanelResets,      \* whether the panel presses the scenario-8 reset key
  MaxPreempt        \* control passes that may interrupt one such reset

CHANGEOVER_BAT_LOW_ALARM_CUT_MV == 21000
CHANGEOVER_BAT_LOW_ALARM_CLEAR_MV == 21200
CHANGEOVER_BAT_CRITICAL_CUT_MV == 20800
CHANGEOVER_BAT_RECONNECT_MV == 21200
CHANGEOVER_MAINS_FREE_RETRY_BUDGET == 1

ChargerFaults == {"FAULT_CHARGER_BAT_LOST", "FAULT_CHARGER_TECHNICAL"}

TimingIds == {"restMs", "guardMs", "holdMs"}
ParamIds == TimingIds \cup {"enable", "block", "floorMv"}

AppStates == {"BOOT", "INPUT", "BATTERY", "FAULT", "SAFE"}

Snapshots ==
  [valid: Validity, v: PackVoltages, input: BOOLEAN,
   faults: FaultMasks, veto: Vetoes]

Off == -1
Timers == {Off} \cup 0..MaxAge

\* The timer one pass later; and the timer of a condition that holds in this pass.
Aged(t) == IF t = Off \/ t = MaxAge THEN t ELSE t + 1
Running(t) == IF t = Off THEN 0 ELSE Aged(t)

ParamWindow(id) ==
  CASE id \in {"enable", "block"} -> [lo |-> 0, hi |-> 1]
    [] id = "floorMv" -> [lo |-> CHANGEOVER_BAT_RECONNECT_MV, hi |-> 29000]
    [] id \in TimingIds -> TimeWindow[id]

ClampParam(id, value) ==
  LET w == ParamWindow(id)
  IN IF value < w.lo THEN w.lo ELSE IF value > w.hi THEN w.hi ELSE value

ASSUME TimesAssumption ==
  /\ Duration \in Nat \ {0} /\ InputStableTime \in Nat \ {0}
  /\ MaxPreempt \in Nat /\ MaxPreempt < Duration
  /\ MaxAge \in Nat /\ Duration <= MaxAge /\ InputStableTime <= MaxAge
  /\ \A id \in TimingIds :
       /\ TimeWindow[id].lo \in 1..MaxAge
       /\ TimeWindow[id].hi \in TimeWindow[id].lo..MaxAge

ASSUME InputsAssumption ==
  /\ PackVoltages \subseteq Nat
  /\ Vetoes \subseteq BOOLEAN /\ Validity \subseteq BOOLEAN
  /\ PanelWrites \subseteq ParamIds \X Nat /\ PanelResets \in BOOLEAN
  /\ DefaultParams \in [ParamIds -> Nat]
  /\ \A id \in ParamIds : ClampParam(id, DefaultParams[id]) = DefaultParams[id]
-----------------------------------------------------------------------------
VARIABLES
  appState,        \* APP_STATE_T__G__State
  protect,         \* PB11 asserted: the battery is cut from the load
  bootPending,     \* the first connection after power-up is still to come
  cutTimer,        \* cut condition holding without a break
  reconnectTimer,  \* reconnect condition holding without a break
  lowLatched,      \* low-battery latch with the 21.0/21.2 V hysteresis
  inputStable,     \* mains present
  healthy,         \* pack at or above the reconnect threshold
  mainsFree,       \* time since the last reconnect that had no mains
  weakVerdict,     \* the scenario-8 verdict
  restPeak,        \* best no-mains voltage while the load is cut
  lastRestPeak,    \* restPeak at the last reconnect
  failCount,       \* mains-free attempts that collapsed inside the guard
  parked,          \* budget spent: wait for the mains
  params,          \* live scenario-8 parameters
  resetPc,         \* assignments of WeakVerdictReset already done, 0 when idle
  preempts         \* control passes that interrupted the reset in progress

timerVars == <<cutTimer, reconnectTimer>>
windowVars == <<inputStable, healthy>>
peakVars == <<restPeak, lastRestPeak>>
budgetVars == <<failCount, parked>>
vars == <<appState, protect, bootPending, lowLatched, timerVars, windowVars,
          mainsFree, weakVerdict, peakVars, budgetVars, params, resetPc, preempts>>

Init ==
  /\ appState = "BOOT"
  /\ protect = TRUE
  /\ bootPending = TRUE
  /\ cutTimer = Off /\ reconnectTimer = Off
  /\ lowLatched = FALSE
  /\ inputStable = Off /\ healthy = Off /\ mainsFree = Off
  /\ weakVerdict = FALSE
  /\ restPeak = 0 /\ lastRestPeak = 0
  /\ failCount = 0 /\ parked = FALSE
  /\ params = DefaultParams
  /\ resetPc = 0 /\ preempts = 0
-----------------------------------------------------------------------------
(* What every valid pass tracks, before any early return.                  *)

InputRestartedEachPass(s) == IF s.input THEN 0 ELSE Off
InputStableAt(s) == IF s.input THEN Running(inputStable) ELSE Off
HealthyAt(s) ==
  IF s.v >= CHANGEOVER_BAT_RECONNECT_MV THEN Running(healthy) ELSE Off
MainsFreeAt(s) == IF s.input THEN Off ELSE Aged(mainsFree)
\* As it was before v1.90a: charge voltages count as rest voltages.
ChargePeakAt(s) == IF protect /\ s.v > restPeak THEN s.v ELSE restPeak
RestPeakAt(s) ==
  IF protect /\ ~s.input /\ s.v > restPeak THEN s.v ELSE restPeak
FailCountAt(s) == IF s.input THEN 0 ELSE failCount
ParkedAt(s) == parked /\ ~s.input

Track(s) ==
  /\ inputStable' = InputStableAt(s)
  /\ healthy' = HealthyAt(s)

KeepPeaks(s) ==
  /\ mainsFree' = MainsFreeAt(s)
  /\ restPeak' = RestPeakAt(s)
  /\ UNCHANGED lastRestPeak

StopTimers == cutTimer' = Off /\ reconnectTimer' = Off

CutNow ==
  /\ protect' = TRUE
  /\ appState' = "SAFE"
  /\ StopTimers

Mapped(s) == IF s.input THEN "INPUT" ELSE "BATTERY"

\* NULL or invalid snapshot: state and PB11 are kept, the timers stop.  The
\* start ticks of the other windows are left alone, so they keep ageing.
InvalidPass(s) ==
  /\ ~s.valid
  /\ StopTimers
  /\ inputStable' = Aged(inputStable)
  /\ healthy' = Aged(healthy)
  /\ mainsFree' = Aged(mainsFree)
  /\ UNCHANGED <<appState, protect, bootPending, lowLatched, weakVerdict,
                 peakVars, budgetVars, params, resetPc>>

\* A valid pass that ends before the scenario-8 rules.
EarlyReturn(s) ==
  /\ s.valid
  /\ Track(s)
  /\ KeepPeaks(s)
  /\ failCount' = FailCountAt(s)
  /\ parked' = ParkedAt(s)
  /\ UNCHANGED <<bootPending, lowLatched, weakVerdict, params, resetPc>>

\* A fault that is not the charger's own freezes PB11 in APP_STATE_FAULT.
Blocking(s) == s.faults \ ChargerFaults # {}

FaultPass(s) ==
  /\ Blocking(s)
  /\ EarlyReturn(s)
  /\ StopTimers
  /\ appState' = "FAULT"
  /\ UNCHANGED protect

\* Imbalance_GetOutputs.blockOutput or Charger_DeadBlocksOutput.
VetoPass(s) ==
  /\ ~Blocking(s) /\ s.veto
  /\ EarlyReturn(s)
  /\ CutNow
-----------------------------------------------------------------------------
(* Passes that no fault and no veto ends early.  The parameters' clamp     *)
(* windows keep every duration positive, so the zero-tick return of the    *)
(* code is not reached.                                                    *)

Usable(s) == s.valid /\ ~Blocking(s) /\ ~s.veto

\* A healthy, unbroken rest drops the verdict and gives the attempt back.
QuietRest(s) ==
  /\ params.enable # 0
  /\ weakVerdict
  /\ HealthyAt(s) >= params.restMs

VerdictAt(s) == weakVerdict /\ params.enable # 0 /\ ~QuietRest(s)
FailCountAfterRest(s) == IF QuietRest(s) THEN 0 ELSE FailCountAt(s)
StaysParkedAfterRest(s) == ParkedAt(s)
ParkedAfterRest(s) == ParkedAt(s) /\ ~QuietRest(s)

KeepVerdict(s) ==
  /\ weakVerdict' = VerdictAt(s)
  /\ failCount' = FailCountAfterRest(s)
  /\ parked' = ParkedAfterRest(s)

HoldsOnlyACutPath(s) == VerdictAt(s) /\ params.block # 0 /\ ~s.input /\ protect
WeakBlocks(s) == VerdictAt(s) /\ params.block # 0 /\ ~s.input

WeakBlockPass(s) ==
  /\ Usable(s) /\ WeakBlocks(s)
  /\ Track(s)
  /\ KeepPeaks(s)
  /\ KeepVerdict(s)
  /\ CutNow
  /\ UNCHANGED <<bootPending, lowLatched, params, resetPc>>

\* Set below the cut threshold, cleared at the clear threshold, kept between.
LowLatchedAt(s) ==
  \/ s.v < CHANGEOVER_BAT_LOW_ALARM_CUT_MV
  \/ s.v < CHANGEOVER_BAT_LOW_ALARM_CLEAR_MV /\ lowLatched

\* As it was before v1.81: the countdown freezes in the hysteresis band.
CutOnlyBelowThreshold(s) ==
  \/ s.v < CHANGEOVER_BAT_CRITICAL_CUT_MV
  \/ LowLatchedAt(s) /\ s.v < CHANGEOVER_BAT_LOW_ALARM_CUT_MV

CutCondition(s) == s.v < CHANGEOVER_BAT_CRITICAL_CUT_MV \/ LowLatchedAt(s)

Deciding(s) == Usable(s) /\ ~WeakBlocks(s)

Decide(s) ==
  /\ Deciding(s)
  /\ Track(s)
  /\ lowLatched' = LowLatchedAt(s)
  /\ UNCHANGED <<params, resetPc>>

BootConnect(s) ==
  /\ bootPending
  /\ s.v >= CHANGEOVER_BAT_RECONNECT_MV
  /\ Decide(s) /\ KeepVerdict(s) /\ KeepPeaks(s)
  /\ protect' = FALSE
  /\ bootPending' = FALSE
  /\ appState' = Mapped(s)
  /\ UNCHANGED timerVars

BootWait(s) ==
  /\ bootPending
  /\ s.v < CHANGEOVER_BAT_RECONNECT_MV
  /\ Decide(s) /\ KeepVerdict(s) /\ KeepPeaks(s)
  /\ appState' = "SAFE"
  /\ UNCHANGED <<protect, bootPending, timerVars>>

\* The cut condition has not held for Duration passes yet.
CutPending(s) ==
  /\ ~bootPending
  /\ CutCondition(s) /\ Running(cutTimer) < Duration
  /\ Decide(s) /\ KeepVerdict(s) /\ KeepPeaks(s)
  /\ cutTimer' = Running(cutTimer)
  /\ reconnectTimer' = Off
  /\ appState' = IF cutTimer = Off /\ (protect \/ appState = "SAFE") THEN appState
                 ELSE IF protect THEN "SAFE" ELSE Mapped(s)
  /\ UNCHANGED <<protect, bootPending>>

\* A cut inside the guard window of a mains-free reconnect is a failed attempt.
FailedAttempt(s) ==
  /\ ~s.input
  /\ MainsFreeAt(s) # Off
  /\ MainsFreeAt(s) < params.guardMs

\* The verdict needs a pack that had rested high and still collapsed.
WornEvidence ==
  /\ lastRestPeak >= params.floorMv
  /\ params.enable # 0

CountFailure(s) ==
  /\ failCount' = IF FailCountAfterRest(s) < 255
                    THEN FailCountAfterRest(s) + 1 ELSE 255
  /\ parked' = (ParkedAfterRest(s)
                  \/ failCount' >= CHANGEOVER_MAINS_FREE_RETRY_BUDGET)
  /\ weakVerdict' = (VerdictAt(s) \/ WornEvidence)

Cut(s) ==
  /\ ~bootPending
  /\ CutCondition(s) /\ Running(cutTimer) >= Duration
  /\ Decide(s)
  /\ IF ~protect /\ FailedAttempt(s) THEN CountFailure(s) ELSE KeepVerdict(s)
  /\ cutTimer' = Running(cutTimer)
  /\ reconnectTimer' = Off
  /\ appState' = "SAFE"
  /\ protect' = TRUE
  /\ restPeak' = IF protect THEN RestPeakAt(s) ELSE 0
  /\ mainsFree' = MainsFreeAt(s)
  /\ UNCHANGED <<bootPending, lastRestPeak>>
-----------------------------------------------------------------------------
MainsGate(s) == s.input /\ InputStableAt(s) >= InputStableTime

MainsFreeGate(s) ==
  /\ ~s.input
  /\ ~VerdictAt(s)
  /\ ~ParkedAfterRest(s)
  /\ RestPeakAt(s) >= params.floorMv
  /\ HealthyAt(s) >= params.holdMs

ReconnectCondition(s) ==
  /\ MainsGate(s) \/ MainsFreeGate(s)
  /\ s.v >= CHANGEOVER_BAT_RECONNECT_MV

\* A pass that asks for no cut.
NoCut(s) ==
  /\ ~bootPending
  /\ ~CutCondition(s)
  /\ Decide(s) /\ KeepVerdict(s)
  /\ cutTimer' = Off
  /\ UNCHANGED bootPending

\* The reconnect gate is shut, or has not been open for Duration passes.
Hold(s) ==
  /\ NoCut(s)
  /\ \/ /\ ~ReconnectCondition(s)
        /\ reconnectTimer' = Off
     \/ /\ ReconnectCondition(s) /\ Running(reconnectTimer) < Duration
        /\ reconnectTimer' = Running(reconnectTimer)
  /\ appState' = IF protect THEN "SAFE" ELSE Mapped(s)
  /\ KeepPeaks(s)
  /\ UNCHANGED protect

Reconnect(s) ==
  /\ NoCut(s)
  /\ ReconnectCondition(s) /\ Running(reconnectTimer) >= Duration
  /\ reconnectTimer' = Running(reconnectTimer)
  /\ appState' = Mapped(s)
  /\ protect' = FALSE
  /\ \/ /\ protect
        /\ lastRestPeak' = RestPeakAt(s)
        /\ restPeak' = 0
        /\ mainsFree' = IF s.input THEN Off ELSE 0
     \/ ~protect /\ KeepPeaks(s)

Evaluate(s) ==
  \/ InvalidPass(s) \/ FaultPass(s) \/ VetoPass(s) \/ WeakBlockPass(s)
  \/ BootConnect(s) \/ BootWait(s)
  \/ CutPending(s) \/ Cut(s)
  \/ Hold(s) \/ Reconnect(s)

ControlPass(s) ==
  /\ Evaluate(s)
  /\ \/ resetPc = 0 /\ preempts' = 0
     \/ resetPc # 0 /\ preempts < MaxPreempt /\ preempts' = preempts + 1
-----------------------------------------------------------------------------
(* The communication task.                                                 *)

\* Turning the scenario off drops a verdict; nothing else of the state moves.
SetParam(id, value) ==
  /\ resetPc = 0
  /\ params' = [params EXCEPT ![id] = ClampParam(id, value)]
  /\ weakVerdict' = (weakVerdict /\ ~(id = "enable" /\ ClampParam(id, value) = 0))
  /\ UNCHANGED <<appState, protect, bootPending, lowLatched, timerVars,
                 windowVars, mainsFree, peakVars, budgetVars, resetPc, preempts>>

\* WeakVerdictReset (panel slot 204), one assignment at a time.  A window's
\* flag and its start tick are two assignments: when a pass restarts the window
\* in between, zeroing the tick makes it as old as the board's uptime.
LastResetStep == 8

Torn(t) == IF t = Off THEN Off ELSE MaxAge

WeakVerdictReset ==
  /\ resetPc' = IF resetPc = LastResetStep THEN 0 ELSE resetPc + 1
  /\ weakVerdict' = (weakVerdict /\ resetPc # 0)
  /\ mainsFree' = CASE resetPc = 1 -> Off
                    [] resetPc = 2 -> Torn(mainsFree)
                    [] OTHER -> mainsFree
  /\ healthy' = CASE resetPc = 3 -> Off
                  [] resetPc = 4 -> Torn(healthy)
                  [] OTHER -> healthy
  /\ failCount' = IF resetPc = 5 THEN 0 ELSE failCount
  /\ parked' = (parked /\ resetPc # 6)
  /\ restPeak' = IF resetPc = 7 THEN 0 ELSE restPeak
  /\ lastRestPeak' = IF resetPc = 8 THEN 0 ELSE lastRestPeak
  /\ preempts' = IF resetPc = LastResetStep THEN 0 ELSE preempts
  /\ UNCHANGED <<appState, protect, bootPending, lowLatched, timerVars,
                 inputStable, params>>
-----------------------------------------------------------------------------
CommTask ==
  \/ \E w \in PanelWrites : SetParam(w[1], w[2])
  \/ PanelResets /\ WeakVerdictReset

Next == CommTask \/ \E s \in Snapshots : ControlPass(s)

Spec == Init /\ [][Next]_vars
-----------------------------------------------------------------------------
TypeOK ==
  /\ appState \in AppStates
  /\ protect \in BOOLEAN /\ bootPending \in BOOLEAN /\ lowLatched \in BOOLEAN
  /\ cutTimer \in Timers /\ reconnectTimer \in Timers
  /\ inputStable \in Timers /\ healthy \in Timers /\ mainsFree \in Timers
  /\ weakVerdict \in BOOLEAN /\ parked \in BOOLEAN
  /\ restPeak \in Nat /\ lastRestPeak \in Nat
  /\ failCount \in 0..255
  /\ params \in [ParamIds -> Nat]
  /\ \A id \in ParamIds : params[id] \in ParamWindow(id).lo..ParamWindow(id).hi
  /\ resetPc \in 0..LastResetStep /\ preempts \in 0..MaxPreempt

\* The state told to the charger, the imbalance watch and the lamps agrees with
\* PB11: nobody is told the load is fed while the battery is cut, or the reverse.
PathMatchesState ==
  /\ appState \in {"INPUT", "BATTERY"} => ~protect
  /\ appState \in {"BOOT", "SAFE"} => protect
  /\ bootPending => protect

CondemnedPackFeeds == weakVerdict /\ params.block # 0 /\ appState = "BATTERY"

\* A pass that can judge its snapshot never leaves a pack condemned by scenario 8
\* feeding the load alone while the output block is on, however the verdict, the
\* mains and the panel came to this point.
CondemnedPackNeverFeeds ==
  [][CondemnedPackFeeds' => ~\E s \in Snapshots : Usable(s) /\ Evaluate(s)]_vars

\* Outside a reset in progress the path is parked exactly when the attempt
\* budget of this outage is spent (mains, quiet rest and reset all refill both).
ParkedWhenSpent ==
  resetPc = 0 => (parked <=> failCount >= CHANGEOVER_MAINS_FREE_RETRY_BUDGET)
=============================================================================
