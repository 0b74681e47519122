-------------------------- MODULE MCChangeoverLive --------------------------
(***************************************************************************)
(* Changeover's liveness for TLC.  The world offers any snapshot for as    *)
(* long as it likes and may then settle, for ever, on good snapshots with  *)
(* mains or on a rested pack without.  The panel is quiet.  The only       *)
(* fairness is the control task's: its 10 ms loop never ends.              *)
(***************************************************************************)
EXTENDS Changeover

MCVoltages == {20900, 23000, 29000}
MCWindows ==
  [restMs |-> [lo |-> 4, hi |-> 4], guardMs |-> [lo |-> 3, hi |-> 3],
   holdMs |-> [lo |-> 2, hi |-> 2]]
MCParams ==
  [enable |-> 1, block |-> 1, floorMv |-> 25000,
   restMs |-> 4, guardMs |-> 3, holdMs |-> 2]
MCFaultMasks == {{}, {"FAULT_ADC"}}
NoWrites == {}
Both == BOOLEAN

VARIABLE world   \* "free", or what it settled on: "mains" or "rested"

Offered(s) ==
  /\ world # "free" => Usable(s)
  /\ world = "mains" => s.input /\ s.v >= CHANGEOVER_BAT_RECONNECT_MV
  /\ world = "rested" => ~s.input /\ s.v >= params.floorMv

Pass ==
  /\ \E s \in Snapshots : Offered(s) /\ ControlPass(s)
  /\ UNCHANGED world

Settle ==
  /\ world = "free"
  /\ world' \in {"mains", "rested"}
  /\ UNCHANGED vars

LiveInit == Init /\ world = "free"

LiveNext == Pass \/ Settle

LiveSpec ==
  /\ LiveInit
  /\ [][LiveNext]_<<vars, world>>
  /\ WF_<<vars, world>>(Pass)
-----------------------------------------------------------------------------
\* With mains present, a healthy pack and no fault or veto, the battery path does
\* come back and stays, whatever cut it: no timer restarts another for ever.
MainsRestoresPath == world = "mains" ~> [](~protect)

\* With no mains, a pack that rests at the floor is always given its attempt, also
\* after a verdict and a spent budget: nothing leaves it parked for ever.
RestedPackIsRetried == world = "rested" ~> [](~protect)
=============================================================================
