---------------------------- MODULE MCImbalance ----------------------------
(* The imbalance watch for TLC, with observers of what it was told.        *)
EXTENDS Imbalance

VARIABLES
  seen,      \* the charger was seen charging since the boot or the last event
  able,      \* the charger may be parked in FLOAT: it charged, and did not
             \* rest hot or lose its battery since
  floated,   \* a full charge, with nothing after it that disqualifies it
  rested,    \* passes since the last one that found the charger charging
  apart,     \* consecutive comparable passes over RestLimit, not charging
  gone,      \* consecutive valid passes without a battery
  battery,   \* the board has been on battery since the last pass
  clean      \* full charges in a row that ended without an event

observers == <<floated, rested, apart, clean>>
mcvars == <<vars, observers, seen, able, gone, battery>>

Look ==
  [valid |-> TRUE, absent |-> FALSE, charging |-> {}, complete |-> FALSE,
   thermalRest |-> FALSE, mv |-> 0]

\* Balanced, inside the hysteresis, over the rest limit, over both limits.
Bands == {0, RestLimit, RestLimit + 1, DischargeLimit + 1}

MCReadings ==
  {[r EXCEPT !.mv = mv] :
     r \in {Look, [Look EXCEPT !.complete = TRUE],
            [Look EXCEPT !.charging = {1}], [Look EXCEPT !.charging = Halves]},
     mv \in Bands}
  \cup {[Look EXCEPT !.valid = FALSE], [Look EXCEPT !.absent = TRUE],
        [Look EXCEPT !.absent = TRUE, !.charging = {2}],
        [Look EXCEPT !.thermalRest = TRUE, !.mv = DischargeLimit + 1],
        [Look EXCEPT !.thermalRest = TRUE, !.charging = {2}]}

\* IsChargeComplete with both channels enabled: each reached FLOAT by charging,
\* and a channel that rests hot charges again first.  (A channel disabled
\* while it rests no longer counts; the readings leave that out.)
Offered(r) == r.complete => able

\* A channel in FLOAT neither charges (IsChannelActive) nor rests.
ASSUME ReadingsAssumption ==
  \A r \in Readings : r.complete => ~r.thermalRest /\ r.charging = {}

Unfinished ==
  floated' = FALSE /\ rested' = 0 /\ apart' = 0 /\ clean' = 0

MCInit ==
  /\ Init
  /\ seen = FALSE /\ able = FALSE /\ floated = FALSE
  /\ rested = 0 /\ apart = 0 /\ gone = 0 /\ clean = 0 /\ battery = FALSE

Event == kept'.events > kept.events

MCEvaluate(r) ==
  /\ Offered(r)
  /\ \E state \in BOOLEAN : Evaluate(r, state) /\ battery' = state
  /\ LET charges == r.valid /\ r.charging # {}
         begins == charges /\ ~r.thermalRest /\ ~r.absent
     IN /\ seen' = ((seen /\ ~Event) \/ charges)
        /\ able' = ((able \/ charges) /\ (r.valid => ~r.absent /\ ~r.thermalRest))
        /\ floated' = IF ~r.valid THEN floated
                      ELSE ~charges /\ ~r.absent /\ ~r.thermalRest /\
                           (floated \/ (r.complete /\ ~battery))
        /\ rested' = IF charges THEN 0 ELSE Longer(rested, PostChargeWait)
        /\ apart' = IF /\ r.valid /\ ~r.absent /\ ~r.thermalRest
                       /\ r.charging = {} /\ r.mv > RestLimit
                    THEN Longer(apart, Stability + 1) ELSE 0
        /\ gone' = IF r.valid /\ r.absent THEN Longer(gone, AbsentReset) ELSE 0
        /\ clean' = IF Event \/ (r.valid /\ r.absent) THEN 0
                    ELSE IF begins /\ floated /\ seen
                    THEN Longer(clean, CleanFullCycles)
                    ELSE clean

PanelRestarts ==
  /\ SetEvents(0) \/ SetLatch(FALSE)
  /\ IF cycle'.reset THEN Unfinished ELSE UNCHANGED observers
  /\ UNCHANGED <<seen, able, gone, battery>>

PanelCycles == SetCycles(0) /\ UNCHANGED <<observers, seen, able, gone, battery>>

Reboot ==
  /\ Boot /\ Unfinished
  /\ seen' = FALSE /\ able' = FALSE /\ gone' = 0 /\ battery' = FALSE

MCNext ==
  \/ \E r \in Readings : MCEvaluate(r)
  \/ PanelRestarts
  \/ PanelCycles
  \/ Reboot

MCSpec == MCInit /\ [][MCNext]_mcvars
-----------------------------------------------------------------------------
(* Imbalance_Evaluate, the commit: an event counts only after a full       *)
(* charge on mains that nothing disqualified, a whole rest since the       *)
(* charger was last seen charging, and on mains: the watch hears of the    *)
(* battery a pass late, and never later.                                   *)
EventIsConfirmed ==
  [][Event => /\ floated \/ floated'
              /\ ~battery
              /\ rested' >= PostChargeWait]_mcvars

(* imbalance.c:718: the difference of the rest has stayed over param 108   *)
(* for the whole stability time (param 112) when the event is counted.     *)
EventIsStable == [][Event => apart' > Stability]_mcvars

(* Imbalance README: one cycle adds one event at most, whatever thermal    *)
(* rests, flickers and mains changes it holds.                             *)
OneEventPerCharge == [][Event => seen]_mcvars

(* A latched verdict falls only to a battery that was absent for the whole *)
(* swap time in consecutive valid passes, or to the panel; it does not     *)
(* fall to the clean-cycle rule, nor to a flicker of the battery.          *)
VerdictIsKept ==
  [][kept.latched /\ ~kept'.latched
       => gone >= AbsentReset \/ SetLatch(FALSE)]_mcvars

(* The stored events fall only to the swap, or to CleanFullCycles full     *)
(* charges in a row without an event.                                      *)
EventsAreForgivenByCleanCycles ==
  [][kept'.events < kept.events
       => \/ gone >= AbsentReset \/ clean' >= CleanFullCycles
          \/ SetEvents(0)]_mcvars
=============================================================================
