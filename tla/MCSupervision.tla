--------------------------- MODULE MCSupervision ---------------------------
(* The supervision for TLC, with observers of the ADC's outages and of the *)
(* watchdog's clean polls.                                                 *)
EXTENDS Supervision

VARIABLES
  budget,   \* a recovery reset is allowed: none since a sound minute
  sound,    \* ticks of passes that were all valid, plus one; 0 is none
  dark,     \* ticks since the last valid pass
  blind,    \* passes since the last valid one, through the recovery reset
  polled    \* ticks since a poll within one tick found every task fresh

mcvars == <<vars, budget, sound, dark, blind, polled>>

\* The passes of two windows.
LongestBlind == 2 * (Window + 1)

Capped(n, limit) == IF n < limit THEN n + 1 ELSE limit

MCInit ==
  Init /\ budget = TRUE /\ sound = 0 /\ dark = 0 /\ blind = 0 /\ polled = 0

MCTick ==
  /\ Tick
  /\ sound' = Older(sound, Window)
  /\ dark' = Capped(dark, Window)
  /\ polled' = Capped(polled, Reload)
  /\ UNCHANGED <<budget, blind>>

\* A reset the supervisor did not decide forgets the outage, unless the marks
\* of one it did decide still wait to be read.
OtherReset ==
  /\ WatchdogReset \/ PanelReset \/ PowerCycle
  /\ budget' = (budget \/ ~marks.cookie \/ "power" \in marks'.flags)
  /\ sound' = 0 /\ dark' = 0 /\ blind' = 0 /\ polled' = 0

MCRecoveryReset ==
  /\ \E frame \in Frames : RecoveryReset(frame)
  /\ budget' = FALSE
  /\ sound' = 0 /\ dark' = 0 /\ polled' = 0
  /\ blind' = Capped(blind, LongestBlind + 1)

MCMeasurementPass ==
  /\ \E frame \in Frames, ok \in BOOLEAN : MeasurementPass(frame, ok)
  /\ sound' = IF ~adc'.valid THEN 0 ELSE IF sound = 0 THEN 1 ELSE sound
  /\ budget' = (budget \/ (adc'.valid /\ sound > Window))
  /\ dark' = IF adc'.valid THEN 0 ELSE dark
  /\ blind' = IF adc'.valid THEN 0 ELSE Capped(blind, LongestBlind + 1)
  /\ UNCHANGED polled

MCPollKick ==
  /\ PollKick
  /\ polled' = IF poll = 0 /\ \A s \in Slots : age[s] < Stale THEN 0 ELSE polled
  /\ UNCHANGED <<budget, sound, dark, blind>>

MCNext ==
  \/ MCTick \/ OtherReset \/ MCRecoveryReset \/ MCMeasurementPass \/ MCPollKick
  \/ /\ (\E ok \in BOOLEAN : Start(ok)) \/ (\E s \in Slots : OtherTask(s))
          \/ ReadClock
     /\ UNCHANGED <<budget, sound, dark, blind, polled>>

MCSpec == MCInit /\ [][MCNext]_mcvars
-----------------------------------------------------------------------------
(* Measurement_SuperviseAdc: at most one recovery reset until the ADC was  *)
(* sound for a whole window again; the boot in between forgets everything  *)
(* but the marks.                                                          *)
OneResetPerOutage ==
  [][(\E frame \in Frames : RecoveryReset(frame)) => budget]_mcvars

(* FAULT_ADC latches only after a whole window without a valid frame, and  *)
(* only when the reset was already spent.                                  *)
LatchIsEarned ==
  [][~adc.latched /\ adc'.latched => dark >= Window /\ ~budget]_mcvars

(* An ADC that gives no valid frame for two windows is reported: no retry, *)
(* stray frame or reset in between starts the count again.                 *)
OutageIsReported == blind > LongestBlind => adc.latched

(* BspIwdg_PollKick: the watchdog bites only when, for its whole timeout,  *)
(* no poll within one tick found every task fresh.                         *)
HealthyBoardRuns == dog = 0 => polled >= Reload
=============================================================================
