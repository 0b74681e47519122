------------------------------ MODULE MCFault ------------------------------
(***************************************************************************)
(* Fault for TLC, with an observer that measures from outside for how long *)
(* the readings have shown each cause without a break.                     *)
(***************************************************************************)
EXTENDS Fault

CONSTANT MaxRun    \* a run of a cause is measured up to here

\* Halves and inputs on both sides of every threshold a run uses.
MCReadings ==
  [vIn : {20000, 21200, 24000},
   half : {<<12000, 12000>>, <<6500, 12000>>, <<12000, 5000>>,
           <<2000, 12000>>, <<15500, 12000>>}, active : {{}, {0}}]
Halves(p) == [ch \in Channels |-> p[ch + 1]]
MCFaultReadings ==
  {[vIn |-> r.vIn, half |-> Halves(r.half), active |-> r.active] :
     r \in MCReadings}
MCRequests ==
  {<<"backMv", 9000>>, <<"backMv", 4000>>, <<"absentMv", 99999>>,
   <<"hystLowMv", 9000>>}
MCPassTicks == {1}

\* Far enough to compare a run with the longest debounce the panel may set.
ASSUME RunAssumption == MaxRun \in Nat /\ TicksOf(5000) <= MaxRun

VARIABLE run   \* run.over, run.absent, run.healthy: ticks; -1 = broken

obsVars == <<vars, run>>

Broken == [over |-> -1, absent |-> -1, healthy |-> -1]

Longer(n, holds) ==
  IF ~holds THEN -1
  ELSE IF n = -1 THEN 0
  ELSE Lesser(n + Elapsed(now, now'), MaxRun)

ObsInit == Init /\ run = Broken

ObsJudge(r) ==
  /\ JudgePass(r)
  /\ run' = [over |-> Longer(run.over, AnyOver(r)),
             absent |-> Longer(run.absent, permitted' /\ AnyHalfLow(r)),
             healthy |-> Longer(run.healthy, Healthy(r))]

ObsBlind ==
  /\ \/ InvalidPass \/ ManualPass(FALSE, 0)
     \/ \E r \in Readings : ManualPass(TRUE, r.vIn)
  /\ run' = Broken

ObsPass == ObsBlind \/ \E r \in Readings : ObsJudge(r)

ObsOther ==
  /\ Panel \/ OnSupervisionChange \/ EnterManualTestMode \/ ExitManualTestMode
  /\ UNCHANGED run

ObsNext == ObsPass \/ ObsOther

ObsSpec == ObsInit /\ [][ObsNext]_obsVars /\ WF_obsVars(ObsPass)
-----------------------------------------------------------------------------
\* The alarm is raised only after a pack has looked pumped, or absent with the
\* input permitted, in every pass of the whole debounce: no blind pass, manual
\* test or tick wrap shortens it.
AlarmNeedsCause ==
  [][~batLost /\ batLost' =>
       \/ run'.over >= TicksOf(alarm.disconnectDebMs)
       \/ run'.absent >= TicksOf(alarm.absentDebMs)]_obsVars

\* The alarm is taken back only by the bench's manual test or after the pack
\* looked healthy in every pass of the whole recovery time.
AlarmHoldsUntilHealthy ==
  [][batLost /\ ~batLost' =>
       manual' \/ run'.healthy >= TicksOf(alarm.recoverMs)]_obsVars

\* A pack that stays gone with a good input is reported and stays reported,
\* whatever happened before: also if its debounce began at tick 0.
LossIsReported ==
  <>[][\E r \in Readings :
         ObsJudge(r) /\ permitted' /\ AnyHalfLow(r)]_obsVars => <>[]batLost

=============================================================================
