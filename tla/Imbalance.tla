----------------------------- MODULE Imbalance -----------------------------
(***************************************************************************)
(* Scenario 5, Modules/Imbalance: the difference of the two battery halves *)
(* is a candidate while it charges or discharges, an event once a full     *)
(* charge and a rest confirm it, and a verdict after MaxEvents of them.    *)
(*                                                                         *)
(* One Evaluate is one unit of time.  A stamp is its age up to the age     *)
(* that matters; where a flag says the stamp counts, 0 is the cleared flag *)
(* and the age is one more.  The flags no decision reads (ChargingEdge,    *)
(* and HasChargeEnd, whose two branches are the same) and the beeps are    *)
(* left out.                                                               *)
(***************************************************************************)
EXTENDS Integers

CONSTANTS
  RestLimit, DischargeLimit, Hysteresis,     \* params 108, 109, 113
  PostChargeWait, InChargeWait, Stability,   \* params 110, 111, 112
  AbsentReset,                               \* IMBAL_ABSENT_RESET_MS
  MaxEvents, MaxLatchedCycles, CleanFullCycles,   \* params 114, 118, 136
  Readings     \* what a pass may be told: see the assumption

Halves == {1, 2}

ASSUME ImbalanceAssumption ==
  /\ {Hysteresis, PostChargeWait, InChargeWait, Stability, AbsentReset}
       \subseteq Nat
  /\ {RestLimit, DischargeLimit, MaxEvents, MaxLatchedCycles, CleanFullCycles}
       \subseteq Nat \ {0}
  /\ Readings \subseteq
       [valid : BOOLEAN, absent : BOOLEAN, charging : SUBSET Halves,
        complete : BOOLEAN, thermalRest : BOOLEAN, mv : Nat]

VARIABLES
  kept,    \* what NVM keeps, slots 200..202
  cycle,   \* the charge cycle in progress, in RAM
  prev     \* the application state of the previous pass was BATTERY

vars == <<kept, cycle, prev>>

Longer(age, limit) == IF age < limit THEN age + 1 ELSE limit
Older(stamp, limit) ==
  IF stamp = 0 \/ stamp > limit THEN stamp ELSE stamp + 1
Reached(stamp, limit) == stamp > limit

KeptStates ==
  [events : 0 .. MaxEvents, cycles : 0 .. MaxLatchedCycles, latched : BOOLEAN]
CycleStates ==
  [charging : BOOLEAN,      \* PrevCharging
   resting : BOOLEAN,       \* PrevThermalRest
   rest : 0 .. PostChargeWait,    \* since RestAnchorMs
   charge : 0 .. InChargeWait,    \* since ChargeStartMs
   full : BOOLEAN,          \* CycleFullSeen
   fresh : BOOLEAN,         \* RequireFreshFullCycle
   candidate : BOOLEAN,     \* CycleHasImbalance
   recorded : BOOLEAN,      \* CycleEventRecorded
   clean : 0 .. CleanFullCycles,
   episode : {0, RestLimit, DischargeLimit},  \* its limit; 0: none
   over : 0 .. Stability + 1,
   absent : 0 .. AbsentReset + 1,
   reset : BOOLEAN]         \* ManualResetPending

TypeOK == kept \in KeptStates /\ cycle \in CycleStates /\ prev \in BOOLEAN

Fresh ==
  [charging |-> FALSE, resting |-> FALSE, rest |-> 0, charge |-> 0,
   full |-> FALSE, fresh |-> FALSE, candidate |-> FALSE, recorded |-> FALSE,
   clean |-> 0, episode |-> 0, over |-> 0, absent |-> 0, reset |-> FALSE]

\* Clearing slot 200, or slot 202 with no events, from the panel or a replay.
Restarted(c) ==
  [c EXCEPT !.full = FALSE, !.fresh = TRUE, !.episode = 0, !.over = 0,
            !.candidate = FALSE, !.recorded = FALSE, !.clean = 0,
            !.reset = TRUE]

Init ==
  /\ kept = [events |-> 0, cycles |-> 0, latched |-> FALSE]
  /\ cycle \in {Fresh, Restarted(Fresh)}
  /\ prev = FALSE
-----------------------------------------------------------------------------
(* Evaluate, as a chain of steps on s == [kept |-> ..., cycle |-> ...].    *)

NoneKept == [events |-> 0, cycles |-> 0, latched |-> FALSE]

Aged(c) ==
  [c EXCEPT !.rest = Longer(@, PostChargeWait),
            !.charge = Longer(@, InChargeWait),
            !.over = Older(@, Stability), !.absent = Older(@, AbsentReset)]

ResetCycleState(c) == [Fresh EXCEPT !.fresh = TRUE, !.absent = c.absent,
                                    !.reset = c.reset]

ManualReset(c, r) ==
  IF ~c.reset THEN c
  ELSE [Fresh EXCEPT !.charging = r.charging # {}, !.resting = r.thermalRest,
                     !.fresh = r.charging = {}, !.absent = c.absent]

ThermalRest(c, r) ==
  LET paused == [c EXCEPT !.charge = 0, !.rest = 0, !.over = 0, !.episode = 0,
                          !.full = FALSE, !.candidate = FALSE,
                          !.recorded = FALSE]
  IN [IF r.thermalRest \/ c.resting THEN paused ELSE c
        EXCEPT !.resting = r.thermalRest]

\* While the charger rests, the pass is told what the last one was.
Charging(c, r) == IF r.thermalRest THEN c.charging ELSE r.charging # {}

SameState(r) == r.charging \in {{}, Halves}

\* A battery is absent: the cycle is dropped at once, the counters after
\* AbsentReset.
Absent(s) ==
  LET c == [s.cycle EXCEPT !.absent = IF @ = 0 THEN 1 ELSE @]
  IN [kept |-> IF Reached(c.absent, AbsentReset) THEN NoneKept ELSE s.kept,
      cycle |-> ResetCycleState(c)]

\* The first present sample after a whole absence.
Swapped(s) == [kept |-> NoneKept,
               cycle |-> ResetCycleState([s.cycle EXCEPT !.absent = 0])]

CleanCyclesAlways(c) == Longer(c.clean, CleanFullCycles)

\* A new charge closes the cycle before it, and spends the verdict's budget.
CleanCycles(c) ==
  IF c.recorded THEN 0 ELSE Longer(c.clean, CleanFullCycles)

\* The clean cycles forgive the verdict too.
ChargeBeginsForgiving(s) ==
  LET c == s.cycle
      clean == IF c.full THEN CleanCycles(c) ELSE c.clean
      cleared == c.full /\ clean >= CleanFullCycles
  IN [kept |-> [s.kept EXCEPT
        !.events = IF cleared THEN 0 ELSE @, !.latched = @ /\ ~cleared,
        !.cycles = IF s.kept.latched THEN Longer(@, MaxLatchedCycles) ELSE @],
      cycle |-> [c EXCEPT
        !.clean = IF cleared THEN 0 ELSE clean,
        !.full = FALSE, !.candidate = @ /\ ~c.full, !.recorded = FALSE,
        !.over = 0, !.fresh = FALSE, !.charge = 0]]

ChargeBegins(s) ==
  LET c == s.cycle
      clean == IF c.full THEN CleanCycles(c) ELSE c.clean
      cleared == c.full /\ clean >= CleanFullCycles
  IN [kept |-> [s.kept EXCEPT
        !.events = IF cleared THEN 0 ELSE @,
        !.cycles = IF s.kept.latched THEN Longer(@, MaxLatchedCycles) ELSE @],
      cycle |-> [c EXCEPT
        !.clean = IF cleared THEN 0 ELSE clean,
        !.full = FALSE, !.candidate = @ /\ ~c.full, !.recorded = FALSE,
        !.over = 0, !.fresh = FALSE, !.charge = 0]]

ChargeEnds(c, r) ==
  [c EXCEPT !.rest = 0, !.over = 0, !.episode = 0,
            !.full = @ /\ r.complete, !.candidate = @ /\ r.complete,
            !.recorded = @ /\ r.complete]

Edges(s, charging, r) ==
  IF charging /\ ~s.cycle.charging THEN ChargeBegins(s)
  ELSE IF ~charging /\ s.cycle.charging
  THEN [s EXCEPT !.cycle = ChargeEnds(@, r)]
  ELSE s

Qualified(c, charging, onBattery, r) ==
  [c EXCEPT !.full = @ \/ (r.complete /\ ~onBattery /\ ~c.fresh),
            !.charging = charging]

\* The limit of the window that is open, 0 when none is.
Window(c, charging, onBattery, r) ==
  IF ~SameState(r) \/ r.thermalRest THEN 0
  ELSE IF onBattery /\ ~charging /\ ~c.recorded THEN DischargeLimit
  ELSE IF charging
  THEN IF InChargeWait # 0 /\ c.charge >= InChargeWait THEN RestLimit ELSE 0
  ELSE IF c.full /\ PostChargeWait # 0 /\ c.rest >= PostChargeWait
  THEN RestLimit ELSE 0

Episode(c, charging, onBattery, limit) ==
  LET began == [c EXCEPT !.candidate = TRUE, !.episode = limit, !.over = 0]
  IN IF onBattery /\ ~charging
     THEN [began EXCEPT !.full = FALSE, !.fresh = TRUE] ELSE began

Timed(c, charging, onBattery, r) ==
  LET limit == Window(c, charging, onBattery, r)
  IN IF ~SameState(r) \/ r.thermalRest THEN [c EXCEPT !.over = 0]
     ELSE IF limit = 0 \/ c.episode # 0 THEN c
     ELSE IF r.mv <= limit THEN [c EXCEPT !.over = 0]
     ELSE IF c.over = 0 THEN [c EXCEPT !.over = 1]
     ELSE IF Reached(c.over, Stability)
     THEN Episode(c, charging, onBattery, limit)
     ELSE c

Cleared(limit) == IF limit > Hysteresis THEN limit - Hysteresis ELSE 0

Relaxed(c, r) ==
  [c EXCEPT !.episode = IF r.mv <= Cleared(@) THEN 0 ELSE @]

Confirmed(c, charging, onBattery, r) ==
  /\ c.full /\ ~charging /\ ~onBattery /\ SameState(r)
  /\ c.candidate /\ c.episode # 0 /\ ~c.recorded
  /\ c.rest >= PostChargeWait /\ r.mv > RestLimit

CommittedAgain(s, charging, onBattery, r) ==
  IF ~Confirmed(s.cycle, charging, onBattery, r) THEN s
  ELSE [s EXCEPT !.kept.events = Longer(@, MaxEvents), !.cycle.clean = 0]

Committed(s, charging, onBattery, r) ==
  IF ~Confirmed(s.cycle, charging, onBattery, r) THEN s
  ELSE [kept |-> [s.kept EXCEPT !.events = Longer(@, MaxEvents)],
        cycle |-> [s.cycle EXCEPT !.recorded = TRUE, !.clean = 0]]

Judged(s) ==
  IF s.kept.latched \/ s.kept.events < MaxEvents THEN s
  ELSE [s EXCEPT !.kept.latched = TRUE, !.kept.cycles = 0]

Watched(s, charging, onBattery, r) ==
  LET edged == Edges(s, charging, r)
      c == Timed(Qualified(edged.cycle, charging, onBattery, r),
                 charging, onBattery, r)
  IN Judged(Committed([edged EXCEPT !.cycle = Relaxed(c, r)],
                      charging, onBattery, r))

Present(s, charging, onBattery, r) ==
  IF Reached(s.cycle.absent, AbsentReset) THEN Swapped(s)
  ELSE Watched([s EXCEPT !.cycle.absent = 0], charging, onBattery, r)

Evaluated(r, onBattery) ==
  LET now == Aged(cycle)
      reset == ManualReset(now, r)
      s == [kept |-> kept, cycle |-> ThermalRest(reset, r)]
  IN IF ~r.valid
     THEN [kept |-> kept, cycle |-> [now EXCEPT !.over = 0, !.absent = 0]]
     ELSE IF r.absent THEN Absent(s)
     ELSE Present(s, Charging(reset, r), onBattery, r)

EvaluateStale(r, state) ==
  /\ \E s \in {Evaluated(r, prev)} : kept' = s.kept /\ cycle' = s.cycle
  /\ prev' = IF r.valid THEN state ELSE prev

\* A control pass: the watch hears the state Changeover left a pass ago.
Evaluate(r, state) ==
  /\ \E s \in {Evaluated(r, prev)} : kept' = s.kept /\ cycle' = s.cycle
  /\ prev' = state
-----------------------------------------------------------------------------
(* The panel and the boot.                                                 *)

SetEvents(n) ==
  /\ kept' = [kept EXCEPT !.events = n]
  /\ cycle' = IF n = 0 THEN Restarted(cycle) ELSE [cycle EXCEPT !.reset = FALSE]
  /\ UNCHANGED prev

SetCycles(n) ==
  /\ kept' = [kept EXCEPT !.cycles = n]
  /\ UNCHANGED <<cycle, prev>>

SetLatch(on) ==
  /\ kept' = [kept EXCEPT !.latched = on]
  /\ cycle' = IF ~on /\ kept.events = 0 THEN Restarted(cycle) ELSE cycle
  /\ UNCHANGED prev

\* NVM replays the slots before or after Init.
Boot ==
  /\ UNCHANGED kept
  /\ prev' = FALSE
  /\ cycle' \in {Fresh, IF kept.events = 0 THEN Restarted(Fresh) ELSE Fresh}

\* What the charger may do.
chargingAllowed == ~kept.latched \/ kept.cycles < MaxLatchedCycles

Next ==
  \/ \E r \in Readings, state \in BOOLEAN : Evaluate(r, state)
  \/ SetEvents(0) \/ SetCycles(0) \/ SetLatch(FALSE) \/ Boot

Spec == Init /\ [][Next]_vars
=============================================================================
