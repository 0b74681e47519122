---------------------------- MODULE MCChangeover ----------------------------
(***************************************************************************)
(* Changeover for TLC: small constants, and an observer that records what  *)
(* the outside world saw, so that the properties need not trust the        *)
(* module's own bookkeeping.                                               *)
(***************************************************************************)
EXTENDS Changeover

MCVoltages == {20900, 21100, 23000, 29000}
MCWindows ==
  [restMs |-> [lo |-> 4, hi |-> 4], guardMs |-> [lo |-> 4, hi |-> 4],
   holdMs |-> [lo |-> 3, hi |-> 3]]
MCParams ==
  [enable |-> 1, block |-> 1, floorMv |-> 25000,
   restMs |-> 4, guardMs |-> 4, holdMs |-> 3]
\* A bit that is not the changeover's.
MCFaultMasks == {{"FAULT_CHARGER_TECHNICAL"}}
MCWrites ==
  {<<"enable", 0>>, <<"enable", 7>>, <<"block", 0>>, <<"block", 7>>}
Both == BOOLEAN

VARIABLES
  seenPeak,    \* best no-mains voltage seen since the load was last cut
  vetoed,      \* the path is cut, and it was a veto that cut it
  lowRun       \* passes on the load since the pack was seen low, not clear since

observed == <<seenPeak, vetoed, lowRun>>

Observe(s) ==
  /\ seenPeak' = IF ~protect THEN 0
                 ELSE IF s.valid /\ ~s.input /\ s.v > seenPeak THEN s.v
                 ELSE seenPeak
  /\ vetoed' = (protect' /\ (vetoed \/ (~protect /\ VetoPass(s))))
  /\ lowRun' = IF /\ Usable(s) /\ ~protect'
                  /\ \/ s.v < CHANGEOVER_BAT_LOW_ALARM_CUT_MV
                     \/ lowRun > 0 /\ s.v < CHANGEOVER_BAT_LOW_ALARM_CLEAR_MV
                 THEN lowRun + 1 ELSE 0

\* An invalid snapshot is not read: one stands for all.
Distinct(s) == s.valid \/ (s.v = 20900 /\ ~s.input /\ ~s.veto)

MCInit == Init /\ seenPeak = 0 /\ vetoed = FALSE /\ lowRun = 0

MCNext ==
  \/ \E s \in Snapshots : Distinct(s) /\ ControlPass(s) /\ Observe(s)
  \/ CommTask /\ UNCHANGED observed

MCSpec == MCInit /\ [][MCNext]_<<vars, observed>>
-----------------------------------------------------------------------------
\* Once a usable pass saw the pack below the low threshold, the load is off it
\* within Duration passes unless the pack climbs past the clear threshold: a
\* recovery into the hysteresis band does not stop the countdown.
LowPackIsCut == lowRun <= Duration

MainsFreeReconnect == ~bootPending /\ protect /\ ~protect' /\ appState' = "BATTERY"

\* A load cut for a low or condemned pack and reconnected without mains gets a
\* pack that has rested at the floor since it was cut ("no mains reconnect is
\* allowed unless the pack RESTED at or above the rest floor").  A load cut by
\* a veto may get it on the strength of an older rest.
RestedBeforeReconnect ==
  [][MainsFreeReconnect /\ ~vetoed
       => seenPeak' >= params.floorMv]_<<vars, observed>>
=============================================================================
