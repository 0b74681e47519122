--------------------------- MODULE MCChargerTrips ---------------------------
(***************************************************************************)
(* The charger under over-current trips: both channels, with blind         *)
(* snapshots, input outages, battery losses, suspensions, and the panel's  *)
(* restart of a cycle.  Scenario 6 and the thermal rest are off here.      *)
(***************************************************************************)
EXTENDS Charger, TLC

CONSTANTS
  MaxEdges,    \* comparator pulses a run offers, by channel
  MaxPause,    \* passes flash writes keep a driven stage unseen at most
  Worlds       \* "loss": batteries come and go; "flicker": blind snapshots,
               \* flash writes and restarts instead

VARIABLES
  world,       \* which of the two this behaviour is in
  since,       \* passes since the channel's comparator was first heard
  adcFault,    \* FAULT_ADC is latched: no valid snapshot before a boot
  lit,         \* the duty a blind pause interrupted
  pulses,      \* comparator pulses so far
  paused,      \* passes since every driven stage was seen to draw current
  waited       \* quiet powered passes a channel has waited for its retry

mcvars ==
  <<vars, world, adcFault, since, lit, pulses, paused, waited>>

Look ==
  [valid |-> TRUE, present |-> TRUE, permitted |-> TRUE, fault |-> FALSE,
   lost |-> FALSE, absent |-> {}, allowed |-> TRUE,
   volts |-> [c \in Channels |-> "mid"], amps |-> [c \in Channels |-> "some"],
   want |-> [c \in Channels |-> MaxDuty], done |-> [c \in Channels |-> FALSE]]

MCMaxEdges == (0 :> 3) @@ (1 :> 2)

Blind == [Look EXCEPT !.valid = FALSE]
Outage == [Look EXCEPT !.permitted = FALSE, !.present = FALSE]
Failed == [Blind EXCEPT !.fault = TRUE]
Lost == [Look EXCEPT !.lost = TRUE, !.absent = {0},
                     !.volts = [Look.volts EXCEPT ![0] = "under"]]

MCReadings ==
  {[r EXCEPT !.amps = a] : r \in {Look, Outage, Blind, Lost, Failed},
                           a \in [Channels -> {"zero", "some"}]}

Offered(r) ==
  /\ adcFault => r.fault
  /\ IF world = "loss" THEN r.valid \/ r.fault ELSE ~r.lost /\ ~r.fault

\* A healthy stage draws current when, and only when, it is driven.
Plausible(r) == \A c \in Channels : r.amps[c] = "zero" <=> chan[c].pwm = 0

Drawing(r) ==
  r.valid /\ \A c \in Channels : chan[c].duty > OpenDuty => r.amps[c] = "some"

\* A powered pass without a comparator event.
Quiet(r) ==
  /\ r.valid /\ r.permitted /\ ~r.lost
  /\ hub.suspended = 0 /\ ~hub'.relayOpen
  /\ \A c \in Channels : ~chan[c].edge

\* The twin's lockout ends at most a pass before one's own begins to count.
LongestWait == LockoutTime + 1

MCInit ==
  /\ Init
  /\ \A c \in Channels : chan[c].enabled /\ ~chan[c].condemned
  /\ world \in Worlds
  /\ adcFault = FALSE
  /\ since = [c \in Channels |-> LockoutTime]
  /\ lit = [c \in Channels |-> 0]
  /\ pulses = [c \in Channels |-> 0]
  /\ paused = 0
  /\ waited = [c \in Channels |-> 0]

MCPass(r) ==
  /\ Offered(r) /\ Plausible(r)
  /\ hub.suspended > 0 => paused < MaxPause
  /\ Pass(r)
  /\ since' = [c \in Channels |->
       IF chan[c].edge /\ ~chan[c].trip THEN 0
       ELSE Lesser(since[c] + 1, LockoutTime)]
  /\ adcFault' = r.fault
  /\ lit' = [c \in Channels |->
       IF ~hub'.blind THEN 0 ELSE IF hub.blind THEN lit[c] ELSE chan[c].duty]
  /\ waited' = [c \in Channels |->
       IF Quiet(r) /\ chan'[c].state = "JIT_RETRY_WAIT" /\ ~chan'[c].condemned
       THEN Lesser(waited[c] + 1, LongestWait + 1) ELSE 0]
  /\ paused' = IF Drawing(r) THEN 0 ELSE Lesser(paused + 1, MaxPause)
  /\ UNCHANGED <<world, pulses>>

MCEdge(c) ==
  /\ pulses[c] < MaxEdges[c]
  /\ pulses' = [pulses EXCEPT ![c] = @ + 1]
  /\ Edge(c)
  /\ UNCHANGED <<world, adcFault, since, lit, paused, waited>>

MCNext ==
  \/ \E r \in Readings : MCPass(r)
  \/ \E c \in Channels : MCEdge(c)
  \/ /\ world = "flicker"
     /\ Suspend \/ Resume \/ Panel
     /\ waited' = [c \in Channels |->
          IF chan'[c].state = "JIT_RETRY_WAIT" THEN waited[c] ELSE 0]
     /\ UNCHANGED <<world, adcFault, since, lit, pulses, paused>>

MCSpec == MCInit /\ [][MCNext]_mcvars
-----------------------------------------------------------------------------
(* Charger.h, FINAL_FAULT and scenario 7: only a boot lifts a final fault, *)
(* a verdict, or the opened relay, whatever else goes wrong afterwards.    *)
LatchesHold ==
  [][/\ hub.locked => hub'.locked
     /\ hub.relayOpen => hub'.relayOpen
     /\ \A c \in Channels :
          chan[c].state = "FINAL_FAULT" => chan'[c].state = "FINAL_FAULT"]_vars

(* Charger_FinalDisconnect: with a final fault, a verdict or the relay     *)
(* open, no channel switches, and a final fault has the relay open.        *)
StruckOut ==
  /\ (hub.relayOpen \/ hub.locked) => \A c \in Channels : chan[c].pwm = 0
  /\ (\E c \in Channels : chan[c].state = "FINAL_FAULT") => hub.relayOpen

(* Charger_HandleJitTrip: a channel whose comparator fired stays silent    *)
(* for the lockout: no input outage, blind pause, flash write, restart or  *)
(* trip of the twin shortens it.                                           *)
ParkedUntilLockout ==
  \A c \in Channels :
    chan[c].pwm > 0 /\ ~hub.manual => since[c] >= LockoutTime

(* Charger_RegulateChannel: a channel that was charging when the snapshot  *)
(* went blind comes back at seven tenths of its duty at most, however      *)
(* often the snapshot flickers, unless the panel has fixed its duty.       *)
BlindResumeIsGentle ==
  [][hub.blind /\ ~hub'.blind /\ ~hub'.manual
      => \A c \in Channels :
           Active(chan[c]) /\ ~chan[c].fixed
             => chan'[c].pwm <= Greater(StartDuty, (lit[c] * 7) \div 10)]_mcvars

(* Charger_ServiceRetry: a parked channel without a scenario-6 verdict is  *)
(* revived after the lockout and one more of quiet powered passes, also    *)
(* when the twin went first, was sent elsewhere while it held the retry    *)
(* pointer, or a restart moved it.                                         *)
RetryComesInTime == \A c \in Channels : waited[c] <= LongestWait

(* Charger_EvaluateTechnicalFault: stages that draw current when they are  *)
(* driven never get the verdict of an open transistor; a verdict then has  *)
(* a comparator latch and the opened relay behind it.                      *)
OpenVerdictIsReal ==
  hub.locked => hub.relayOpen /\ \E c \in Channels : chan[c].trip

=============================================================================
