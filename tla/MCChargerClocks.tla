-------------------------- MODULE MCChargerClocks --------------------------
(***************************************************************************)
(* The charger's long clocks on one channel: the dead-battery verdict, the *)
(* thermal rest, and the manual mode with its dead-man, under blind        *)
(* snapshots, input outages, battery swaps, flash writes and the panel.    *)
(* The other channel is switched off; no comparator fires.                 *)
(***************************************************************************)
EXTENDS Charger

CONSTANT
  Modes   \* "manual": the panel drives by hand; "auto": the panel switches,
          \* fixes the duty and restarts cycles instead

VARIABLES
  mode,    \* which of the two this behaviour is in
  owed,    \* passes of rest channel 0 still owes its transistor
  spell,   \* passes since channel 0 was last seen to float, rest or pause
  pause    \* looking passes in a row that found channel 0 not charging

clockVars == <<vars, mode, owed, spell, pause>>

Plain ==
  [valid |-> TRUE, present |-> TRUE, permitted |-> TRUE, fault |-> FALSE,
   lost |-> FALSE, absent |-> {}, allowed |-> TRUE,
   volts |-> [c \in Channels |-> "low"],
   amps |-> [c \in Channels |-> IF c = 0 THEN "some" ELSE "zero"],
   want |-> [c \in Channels |-> MaxDuty], done |-> [c \in Channels |-> FALSE]]

At(volts) == [Plain.volts EXCEPT ![0] = volts]
Loss == [Plain EXCEPT !.absent = {0}, !.volts = At("under")]

ClockReadings ==
  {Plain,
   [Plain EXCEPT !.volts = At("enter"), !.done = [c \in Channels |-> TRUE]],
   [Plain EXCEPT !.amps = [@ EXCEPT ![0] = "hot"]],
   [Plain EXCEPT !.valid = FALSE],
   [Plain EXCEPT !.permitted = FALSE, !.present = FALSE],
   Loss, [Loss EXCEPT !.lost = TRUE],
   [Loss EXCEPT !.lost = TRUE, !.fault = TRUE]}

\* Only the pass that enters the manual mode clears the episode under a
\* control task that is still in its FAULT state.
Possible(r) == r.fault => hub.requested /\ ~hub.manual

ClockInit ==
  /\ Init
  /\ chan[0].enabled /\ ~chan[1].enabled /\ ~chan[1].condemned
  /\ mode \in Modes
  /\ owed = 0
  /\ spell = 0 /\ pause = 0

Rests == {"FLOAT", "THERMAL_REST"}

\* The first pass that finds a pause starts its clock, the next ones read it.
LongPause == Greater(GapTime, 1) + 1

\* A suspended or a blind pass runs no clock.
Looks(r) == hub.suspended = 0 /\ r.valid

SeenAtRest(r) ==
  Looks(r) /\ chan[0].state \in Rests /\ chan'[0].state \in Rests

ClockPass(r) ==
  /\ Possible(r)
  /\ Pass(r)
  /\ owed' = IF chan'[0].rest > RestTime THEN RestTime ELSE Sooner(owed)
  /\ pause' = IF Active(chan[0]) THEN 0
              ELSE IF ~Looks(r) THEN pause ELSE Lesser(pause + 1, LongPause)
  /\ spell' = IF SeenAtRest(r) \/ pause' = LongPause
              THEN 0 ELSE Lesser(spell + 1, DeadTime)
  /\ UNCHANGED mode

\* The panel speaks of channel 0.
PanelByHand ==
  /\ mode = "manual"
  /\ Frame \/ \E on \in BOOLEAN : SetManualTestMode(on)

PanelSwitches ==
  /\ mode = "auto"
  /\ \/ RestartCycle
     \/ \E kept \in SUBSET Channels : ClearDead(kept)
     \/ \E on \in BOOLEAN : SetEnable(0, on) \/ SetDutyFixedEnable(0, on)

ClockPanel ==
  /\ PanelByHand \/ PanelSwitches \/ \E duty \in Duties : SetDutyFixed(0, duty)
  /\ owed' = IF chan'[0].rest = 0 THEN 0 ELSE owed
  /\ UNCHANGED <<mode, spell, pause>>

ClockNext ==
  \/ \E r \in Readings : ClockPass(r)
  \/ (Suspend \/ Resume) /\ UNCHANGED <<mode, owed, spell, pause>>
  \/ ClockPanel

ClockSpec == ClockInit /\ [][ClockNext]_clockVars
-----------------------------------------------------------------------------
(* The thermal rest: once begun it is served in full, whatever the state   *)
(* does in between (input wait, battery loss, manual mode, blind pause);   *)
(* only the panel's restart of a cycle forgives it.                        *)
RestIsServed == chan[0].pwm > 0 => owed = 0

(* Charger_DeadBatteryTick: a battery is condemned only after DeadTime     *)
(* without a FLOAT, a thermal rest, or a pause longer than GapTime.        *)
NoVerdictTooSoon ==
  [][~chan[0].condemned /\ chan'[0].condemned => spell' >= DeadTime]_clockVars

(* Charger_RegulateChannel, "do not charge it any more must not be         *)
(* defeatable from a panel switch": the manual mode drives it all the same.*)
DeadNeverCharges ==
  \A c \in Channels : chan[c].condemned => chan[c].pwm = 0
=============================================================================
