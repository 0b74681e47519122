-------------------------- MODULE ImbalanceProofs --------------------------
(***************************************************************************)
(* Scenario 5 for all limits, waits and budgets: the types; that one       *)
(* charge adds one event at most, and only after a full charge and a whole *)
(* rest; that a verdict falls only to a swap or to the panel, and the      *)
(* stored events to these or to enough clean cycles.                       *)
(***************************************************************************)
EXTENDS MCImbalance, TLAPS

States == [kept : KeptStates, cycle : CycleStates]
ReadingStates ==
  [valid : BOOLEAN, absent : BOOLEAN, charging : SUBSET Halves,
   complete : BOOLEAN, thermalRest : BOOLEAN, mv : Nat]
-----------------------------------------------------------------------------
(* Types.                                                                  *)

\* The zero of every stamp, and its first age.
LEMMA StampsTyped ==
  /\ 0 \in 0 .. PostChargeWait /\ 0 \in 0 .. InChargeWait
  /\ 0 \in 0 .. CleanFullCycles
  /\ 0 \in 0 .. Stability + 1 /\ 1 \in 0 .. Stability + 1
  /\ 0 \in 0 .. AbsentReset + 1 /\ 1 \in 0 .. AbsentReset + 1
  /\ 0 \in 0 .. MaxEvents /\ 0 \in 0 .. MaxLatchedCycles
  BY ImbalanceAssumption

LEMMA LongerTyped ==
  ASSUME NEW limit \in Nat, NEW age \in 0 .. limit
  PROVE  Longer(age, limit) \in 0 .. limit
  BY DEF Longer

LEMMA OlderTyped ==
  ASSUME NEW limit \in Nat, NEW stamp \in 0 .. limit + 1
  PROVE  Older(stamp, limit) \in 0 .. limit + 1
  BY DEF Older

LEMMA FreshTyped == Fresh \in CycleStates
  BY StampsTyped DEF Fresh, CycleStates

LEMMA AgedTyped ==
  ASSUME NEW c \in CycleStates PROVE Aged(c) \in CycleStates
<1>1. /\ Longer(c.rest, PostChargeWait) \in 0 .. PostChargeWait
      /\ Longer(c.charge, InChargeWait) \in 0 .. InChargeWait
  BY LongerTyped, ImbalanceAssumption DEF CycleStates
<1>2. /\ Older(c.over, Stability) \in 0 .. Stability + 1
      /\ Older(c.absent, AbsentReset) \in 0 .. AbsentReset + 1
  BY OlderTyped, ImbalanceAssumption DEF CycleStates
<1>. QED
  BY <1>1, <1>2 DEF Aged, CycleStates

LEMMA ResetTyped ==
  ASSUME NEW c \in CycleStates
  PROVE  ResetCycleState(c) \in CycleStates /\ Restarted(c) \in CycleStates
  BY FreshTyped, StampsTyped,
     ZenonT(60) DEF ResetCycleState, Restarted, CycleStates

LEMMA ManualResetTyped ==
  ASSUME NEW c \in CycleStates, NEW r \in ReadingStates
  PROVE  ManualReset(c, r) \in CycleStates
<1>1. (r.charging # {}) \in BOOLEAN /\ (r.charging = {}) \in BOOLEAN
  OBVIOUS
<1>2. r.thermalRest \in BOOLEAN
  BY DEF ReadingStates
<1>3. [Fresh EXCEPT !.charging = r.charging # {}, !.resting = r.thermalRest,
                    !.fresh = r.charging = {}, !.absent = c.absent]
        \in CycleStates
  BY <1>1, <1>2, FreshTyped, ZenonT(60) DEF CycleStates
<1>. QED
  BY <1>3 DEF ManualReset

LEMMA ThermalRestTyped ==
  ASSUME NEW c \in CycleStates, NEW r \in ReadingStates
  PROVE  ThermalRest(c, r) \in CycleStates
  BY StampsTyped, ZenonT(60) DEF ThermalRest, CycleStates, ReadingStates

LEMMA AbsentTyped ==
  ASSUME NEW s \in States
  PROVE  Absent(s) \in States /\ Swapped(s) \in States
<1>1. NoneKept \in KeptStates
  BY StampsTyped DEF NoneKept, KeptStates
<1>2. s.kept \in KeptStates /\ s.cycle \in CycleStates
  BY DEF States
<1>. DEFINE c == [s.cycle EXCEPT !.absent = IF @ = 0 THEN 1 ELSE @]
            d == [s.cycle EXCEPT !.absent = 0]
<1>3. c \in CycleStates /\ d \in CycleStates
  BY <1>2, StampsTyped DEF CycleStates
<1>. HIDE DEF c, d
<1>4. ResetCycleState(c) \in CycleStates /\ ResetCycleState(d) \in CycleStates
  BY <1>3, ResetTyped
<1>. QED
  BY <1>1, <1>2, <1>4 DEF Absent, Swapped, States, c, d

LEMMA EdgesTyped ==
  ASSUME NEW s \in States, NEW charging \in BOOLEAN, NEW r \in ReadingStates
  PROVE  Edges(s, charging, r) \in States
<1>1. s.kept \in KeptStates /\ s.cycle \in CycleStates
  BY DEF States
<1>2. ChargeBegins(s) \in States
  <2>. DEFINE c == s.cycle
              count == IF c.full THEN CleanCycles(c) ELSE c.clean
              cleared == c.full /\ count >= CleanFullCycles
  <2>1. c.clean \in 0 .. CleanFullCycles
    BY <1>1 DEF CycleStates
  <2>2. count \in 0 .. CleanFullCycles
    BY <2>1, LongerTyped, StampsTyped, ImbalanceAssumption DEF CleanCycles
  <2>3. Longer(s.kept.cycles, MaxLatchedCycles) \in 0 .. MaxLatchedCycles
    BY <1>1, LongerTyped, ImbalanceAssumption DEF KeptStates
  <2>4. (c.candidate /\ ~c.full) \in BOOLEAN
    OBVIOUS
  <2>5. (IF cleared THEN 0 ELSE count) \in 0 .. CleanFullCycles
    BY <2>2, StampsTyped
  <2>6. [s.kept EXCEPT
           !.events = IF cleared THEN 0 ELSE @,
           !.cycles = IF s.kept.latched THEN Longer(@, MaxLatchedCycles) ELSE @]
          \in KeptStates
    <3>. HIDE DEF cleared
    <3>. QED
      BY <1>1, <2>3, StampsTyped DEF KeptStates
  <2>7. [c EXCEPT
           !.clean = IF cleared THEN 0 ELSE count,
           !.full = FALSE, !.candidate = @ /\ ~c.full, !.recorded = FALSE,
           !.over = 0, !.fresh = FALSE, !.charge = 0] \in CycleStates
    <3>. DEFINE n == IF cleared THEN 0 ELSE count
    <3>1. n \in 0 .. CleanFullCycles
      BY <2>5
    <3>. HIDE DEF n
    <3>2. [c EXCEPT !.clean = n, !.full = FALSE, !.candidate = @ /\ ~c.full,
                    !.recorded = FALSE, !.over = 0, !.fresh = FALSE,
                    !.charge = 0] \in CycleStates
      BY <1>1, <2>4, <3>1, StampsTyped DEF CycleStates
    <3>. QED
      BY <3>2 DEF n
  <2>. QED
    BY <2>6, <2>7 DEF ChargeBegins, States
<1>3. ChargeEnds(s.cycle, r) \in CycleStates
  <2>. DEFINE full == s.cycle.full /\ r.complete
              candidate == s.cycle.candidate /\ r.complete
              recorded == s.cycle.recorded /\ r.complete
  <2>1. full \in BOOLEAN /\ candidate \in BOOLEAN /\ recorded \in BOOLEAN
    OBVIOUS
  <2>2. ChargeEnds(s.cycle, r) =
          [s.cycle EXCEPT !.rest = 0, !.over = 0, !.episode = 0, !.full = full,
                          !.candidate = candidate, !.recorded = recorded]
    BY DEF ChargeEnds
  <2>. HIDE DEF full, candidate, recorded
  <2>. QED
    BY <1>1, <2>1, <2>2, StampsTyped, ZenonT(60) DEF CycleStates
<1>4. [s EXCEPT !.cycle = ChargeEnds(@, r)] \in States
  BY <1>1, <1>3 DEF States
<1>. QED
  BY <1>2, <1>4 DEF Edges

LEMMA TimedTyped ==
  ASSUME NEW c \in CycleStates, NEW charging \in BOOLEAN,
         NEW onBattery \in BOOLEAN, NEW r \in ReadingStates
  PROVE  /\ Qualified(c, charging, onBattery, r) \in CycleStates
         /\ Timed(c, charging, onBattery, r) \in CycleStates
<1>1. Qualified(c, charging, onBattery, r) \in CycleStates
  BY DEF Qualified, CycleStates
<1>. DEFINE limit == Window(c, charging, onBattery, r)
<1>2. limit \in {0, RestLimit, DischargeLimit}
  BY DEF Window
<1>. HIDE DEF limit
<1>3. Episode(c, charging, onBattery, limit) \in CycleStates
  BY <1>2, StampsTyped DEF Episode, CycleStates
<1>4. [c EXCEPT !.over = 0] \in CycleStates
      /\ [c EXCEPT !.over = 1] \in CycleStates
  BY StampsTyped DEF CycleStates
<1>5. Timed(c, charging, onBattery, r) \in CycleStates
  BY <1>3, <1>4 DEF Timed, limit
<1>. QED
  BY <1>1, <1>5

LEMMA CommittedTyped ==
  ASSUME NEW s \in States, NEW charging \in BOOLEAN,
         NEW onBattery \in BOOLEAN, NEW r \in ReadingStates
  PROVE  /\ Relaxed(s.cycle, r) \in CycleStates
         /\ Committed(s, charging, onBattery, r) \in States
         /\ Judged(s) \in States
<1>1. s.kept \in KeptStates /\ s.cycle \in CycleStates
  BY DEF States
<1>2. Relaxed(s.cycle, r) \in CycleStates
  BY <1>1 DEF Relaxed, CycleStates
<1>3. Longer(s.kept.events, MaxEvents) \in 0 .. MaxEvents
  BY <1>1, LongerTyped, ImbalanceAssumption DEF KeptStates
<1>4. [s.kept EXCEPT !.events = Longer(@, MaxEvents)] \in KeptStates
  BY <1>1, <1>3 DEF KeptStates
<1>5. [s.cycle EXCEPT !.recorded = TRUE, !.clean = 0] \in CycleStates
  BY <1>1, StampsTyped DEF CycleStates
<1>6. Committed(s, charging, onBattery, r) \in States
  BY <1>4, <1>5 DEF Committed, States
<1>7. [s EXCEPT !.kept.latched = TRUE, !.kept.cycles = 0] \in States
  BY <1>1, StampsTyped DEF States, KeptStates
<1>. QED
  BY <1>2, <1>6, <1>7 DEF Judged

LEMMA WatchedTyped ==
  ASSUME NEW s \in States, NEW charging \in BOOLEAN,
         NEW onBattery \in BOOLEAN, NEW r \in ReadingStates
  PROVE  Watched(s, charging, onBattery, r) \in States
<1>. DEFINE edged == Edges(s, charging, r)
            q == Qualified(edged.cycle, charging, onBattery, r)
            c == Timed(q, charging, onBattery, r)
            t == [edged EXCEPT !.cycle = Relaxed(c, r)]
<1>1. edged \in States
  BY EdgesTyped
<1>2. c \in CycleStates
  BY <1>1, TimedTyped DEF States
<1>. HIDE DEF edged, q, c
<1>3. [kept |-> edged.kept, cycle |-> c] \in States
  BY <1>1, <1>2 DEF States
<1>4. Relaxed(c, r) \in CycleStates
  BY <1>2, <1>3, CommittedTyped
<1>5. t \in States
  BY <1>1, <1>4 DEF States
<1>. HIDE DEF t
<1>6. Judged(Committed(t, charging, onBattery, r)) \in States
  BY <1>5, CommittedTyped
<1>. QED
  BY <1>6 DEF Watched, edged, q, c, t

LEMMA EvaluatedTyped ==
  ASSUME TypeOK, NEW r \in ReadingStates
  PROVE  Evaluated(r, prev) \in States
<1>. DEFINE now == Aged(cycle)
            reset == ManualReset(now, r)
            s == [kept |-> kept, cycle |-> ThermalRest(reset, r)]
            p == [s EXCEPT !.cycle.absent = 0]
<1>1. now \in CycleStates
  BY AgedTyped DEF TypeOK
<1>2. reset \in CycleStates
  BY <1>1, ManualResetTyped
<1>3. s \in States
  BY <1>2, ThermalRestTyped DEF TypeOK, States
<1>4. Charging(reset, r) \in BOOLEAN
  BY <1>2 DEF Charging, CycleStates
<1>5. [now EXCEPT !.over = 0, !.absent = 0] \in CycleStates
  BY <1>1, StampsTyped DEF CycleStates
<1>. HIDE DEF now, reset, s
<1>6. p \in States
  BY <1>3, StampsTyped DEF States, CycleStates
<1>. HIDE DEF p
<1>7. Watched(p, Charging(reset, r), prev, r) \in States
  BY <1>4, <1>6, WatchedTyped DEF TypeOK
<1>8. Absent(s) \in States /\ Swapped(s) \in States
  BY <1>3, AbsentTyped
<1>9. Present(s, Charging(reset, r), prev, r) \in States
  BY <1>7, <1>8 DEF Present, p
<1>10. [kept |-> kept, cycle |-> [now EXCEPT !.over = 0, !.absent = 0]] \in States
  BY <1>5 DEF States, TypeOK
<1>. QED
  BY <1>8, <1>9, <1>10 DEF Evaluated, now, reset, s

LEMMA EvaluateTyped ==
  ASSUME TypeOK, NEW r \in Readings, NEW state \in BOOLEAN, Evaluate(r, state)
  PROVE  TypeOK'
<1>1. r \in ReadingStates
  BY ImbalanceAssumption DEF ReadingStates
<1>2. Evaluated(r, prev) \in States
  BY <1>1, EvaluatedTyped
<1>. QED
  BY <1>2 DEF Evaluate, TypeOK, States

LEMMA StepTyped ==
  ASSUME TypeOK, [Next]_vars PROVE TypeOK'
<1>1. ASSUME NEW r \in Readings, NEW state \in BOOLEAN, Evaluate(r, state)
      PROVE TypeOK'
  BY <1>1, EvaluateTyped
<1>2. CASE SetEvents(0)
  BY <1>2, ResetTyped, StampsTyped DEF SetEvents, TypeOK, KeptStates
<1>3. CASE SetCycles(0)
  BY <1>3, StampsTyped DEF SetCycles, TypeOK, KeptStates
<1>4. CASE SetLatch(FALSE)
  BY <1>4, ResetTyped DEF SetLatch, TypeOK, KeptStates
<1>5. CASE Boot
  BY <1>5, FreshTyped, ResetTyped DEF Boot, TypeOK
<1>6. CASE UNCHANGED vars
  BY <1>6 DEF vars, TypeOK
<1>. QED
  BY <1>1, <1>2, <1>3, <1>4, <1>5, <1>6 DEF Next

LEMMA InitTyped ==
  ASSUME Init PROVE TypeOK
  BY FreshTyped, ResetTyped, StampsTyped DEF Init, TypeOK, KeptStates

(* Every variable stays in its type: no counter passes its limit, whatever *)
(* the panel, a swap or a boot does between two passes.                    *)
THEOREM ImbalanceTypeCorrect == Spec => []TypeOK
<1>. QED
  BY InitTyped, StepTyped, PTL DEF Spec
-----------------------------------------------------------------------------
(* What a pass does to the fields the properties speak of.                 *)

\* A pass that begins or ends a charge leaves the verdict as it is.
LEMMA EdgesKeep ==
  ASSUME NEW s \in States, NEW charging \in BOOLEAN, NEW r \in ReadingStates
  PROVE  LET e == Edges(s, charging, r)
         IN /\ e.kept.latched = s.kept.latched
            /\ e.kept.events <= s.kept.events
            /\ e.cycle.absent = s.cycle.absent
            /\ e.cycle.resting = s.cycle.resting
            /\ e.cycle.full => s.cycle.full
            /\ ~charging /\ ~s.cycle.charging => e = s
<1>1. s.kept \in KeptStates /\ s.cycle \in CycleStates
  BY DEF States
<1>. QED
  BY <1>1, ImbalanceAssumption
  DEF Edges, ChargeBegins, ChargeEnds, States, KeptStates, CycleStates

LEMMA TimedKeeps ==
  ASSUME NEW c \in CycleStates, NEW charging \in BOOLEAN,
         NEW onBattery \in BOOLEAN, NEW r \in ReadingStates
  PROVE  LET t == Timed(Qualified(c, charging, onBattery, r),
                        charging, onBattery, r)
         IN /\ t.charging = charging
            /\ t.absent = c.absent
            /\ t.resting = c.resting
            /\ t.recorded = c.recorded
            /\ c.fresh => t.fresh
            /\ t.full => c.full \/ (r.complete /\ ~c.fresh)
<1>. DEFINE q == Qualified(c, charging, onBattery, r)
<1>1. /\ q \in CycleStates
      /\ q.charging = charging /\ q.absent = c.absent
      /\ q.resting = c.resting /\ q.recorded = c.recorded
      /\ q.fresh = c.fresh
      /\ q.full => c.full \/ (r.complete /\ ~c.fresh)
  BY DEF Qualified, CycleStates
<1>. HIDE DEF q
<1>2. LET t == Timed(q, charging, onBattery, r)
      IN /\ t.charging = q.charging /\ t.absent = q.absent
         /\ t.resting = q.resting /\ t.recorded = q.recorded
         /\ q.fresh => t.fresh
         /\ t.full => q.full
  BY <1>1 DEF Timed, Episode, CycleStates
<1>. QED
  BY <1>1, <1>2 DEF q

LEMMA JudgedKeeps ==
  ASSUME NEW s \in States, NEW charging \in BOOLEAN,
         NEW onBattery \in BOOLEAN, NEW r \in ReadingStates
  PROVE  LET j == Judged(Committed(s, charging, onBattery, r))
         IN /\ s.kept.latched => j.kept.latched
            /\ j.cycle.charging = s.cycle.charging
            /\ j.cycle.absent = s.cycle.absent
            /\ j.cycle.resting = s.cycle.resting
            /\ j.cycle.fresh = s.cycle.fresh
            /\ j.cycle.full = s.cycle.full
            /\ s.cycle.recorded => j.cycle.recorded
            /\ j.kept.events # s.kept.events
                 => /\ s.cycle.full /\ ~s.cycle.recorded
                    /\ ~charging /\ ~onBattery
                    /\ j.cycle.recorded
<1>1. s.kept \in KeptStates /\ s.cycle \in CycleStates
  BY DEF States
<1>. DEFINE k == Committed(s, charging, onBattery, r)
<1>2. /\ k \in States
      /\ k.kept.latched = s.kept.latched
      /\ k.cycle.charging = s.cycle.charging
      /\ k.cycle.absent = s.cycle.absent
      /\ k.cycle.resting = s.cycle.resting
      /\ k.cycle.fresh = s.cycle.fresh
      /\ k.cycle.full = s.cycle.full
      /\ s.cycle.recorded => k.cycle.recorded
      /\ k.kept.events # s.kept.events
           => /\ s.cycle.full /\ ~s.cycle.recorded
              /\ ~charging /\ ~onBattery
              /\ k.cycle.recorded
  <2>1. k \in States
    BY CommittedTyped
  <2>2. CASE ~Confirmed(s.cycle, charging, onBattery, r)
    <3>1. k = s
      BY <2>2 DEF Committed
    <3>. HIDE DEF k
    <3>. QED
      BY <3>1
  <2>3. CASE Confirmed(s.cycle, charging, onBattery, r)
    <3>1. /\ k.kept = [s.kept EXCEPT !.events = Longer(@, MaxEvents)]
          /\ k.cycle = [s.cycle EXCEPT !.recorded = TRUE, !.clean = 0]
      BY <2>3 DEF Committed
    <3>2. s.cycle.full /\ ~s.cycle.recorded /\ ~charging /\ ~onBattery
      BY <2>3 DEF Confirmed
    <3>. HIDE DEF k
    <3>. QED
      BY <1>1, <2>1, <3>1, <3>2 DEF KeptStates, CycleStates
  <2>. QED
    BY <2>2, <2>3
<1>. HIDE DEF k
<1>3. LET j == Judged(k)
      IN /\ j.cycle = k.cycle
         /\ j.kept.events = k.kept.events
         /\ k.kept.latched => j.kept.latched
  BY <1>2 DEF Judged, States, KeptStates
<1>. QED
  BY <1>2, <1>3 DEF k

\* A pass with both batteries present and no swap behind it.
LEMMA WatchedKeeps ==
  ASSUME NEW s \in States, NEW charging \in BOOLEAN,
         NEW onBattery \in BOOLEAN, NEW r \in ReadingStates
  PROVE  LET w == Watched(s, charging, onBattery, r)
         IN /\ s.kept.latched => w.kept.latched
            /\ w.cycle.charging = charging
            /\ w.cycle.absent = s.cycle.absent
            /\ w.cycle.resting = s.cycle.resting
            /\ ~charging /\ ~s.cycle.charging
                 => /\ s.cycle.recorded => w.cycle.recorded
                    /\ s.cycle.fresh => w.cycle.fresh
                    /\ w.cycle.full =>
                         s.cycle.full \/ (r.complete /\ ~s.cycle.fresh)
            /\ w.kept.events > s.kept.events
                 => /\ s.cycle.full \/ r.complete
                    /\ ~charging /\ w.cycle.recorded
                    /\ ~s.cycle.charging =>
                         /\ ~s.cycle.recorded
                         /\ s.cycle.full \/ ~s.cycle.fresh
<1>. DEFINE edged == Edges(s, charging, r)
            c == Timed(Qualified(edged.cycle, charging, onBattery, r),
                       charging, onBattery, r)
            t == [edged EXCEPT !.cycle = Relaxed(c, r)]
            w == Judged(Committed(t, charging, onBattery, r))
<1>1. /\ edged \in States
      /\ edged.kept \in KeptStates /\ edged.cycle \in CycleStates
  BY EdgesTyped DEF States
<1>2. c \in CycleStates
  BY <1>1, TimedTyped
<1>3. /\ edged.kept.latched = s.kept.latched
      /\ edged.kept.events <= s.kept.events
      /\ edged.cycle.absent = s.cycle.absent
      /\ edged.cycle.resting = s.cycle.resting
      /\ edged.cycle.full => s.cycle.full
      /\ ~charging /\ ~s.cycle.charging => edged = s
  BY EdgesKeep
<1>4. /\ c.charging = charging
      /\ c.absent = edged.cycle.absent
      /\ c.resting = edged.cycle.resting
      /\ c.recorded = edged.cycle.recorded
      /\ edged.cycle.fresh => c.fresh
      /\ c.full => edged.cycle.full \/ (r.complete /\ ~edged.cycle.fresh)
  BY <1>1, TimedKeeps
<1>. HIDE DEF edged, c
<1>5. /\ Relaxed(c, r) \in CycleStates
      /\ Relaxed(c, r).charging = c.charging /\ Relaxed(c, r).absent = c.absent
      /\ Relaxed(c, r).resting = c.resting /\ Relaxed(c, r).fresh = c.fresh
      /\ Relaxed(c, r).recorded = c.recorded /\ Relaxed(c, r).full = c.full
  BY <1>2 DEF Relaxed, CycleStates
<1>6. t \in States /\ t.kept = edged.kept /\ t.cycle = Relaxed(c, r)
  BY <1>1, <1>5 DEF States
<1>. HIDE DEF t
<1>7. /\ t.kept.latched => w.kept.latched
      /\ w.cycle.charging = t.cycle.charging
      /\ w.cycle.absent = t.cycle.absent
      /\ w.cycle.resting = t.cycle.resting
      /\ w.cycle.fresh = t.cycle.fresh
      /\ w.cycle.full = t.cycle.full
      /\ t.cycle.recorded => w.cycle.recorded
      /\ w.kept.events # t.kept.events
           => /\ t.cycle.full /\ ~t.cycle.recorded /\ ~charging
              /\ w.cycle.recorded
  BY <1>6, JudgedKeeps
<1>8. s.kept.events \in Int /\ edged.kept.events \in Int
  BY <1>1 DEF States, KeptStates
<1>9. Watched(s, charging, onBattery, r) = w
  BY DEF Watched, edged, c, t
<1>. HIDE DEF w
<1>10. w.kept.events > s.kept.events => w.kept.events # t.kept.events
  BY <1>3, <1>6, <1>8
<1>. QED
  BY <1>3, <1>4, <1>5, <1>6, <1>7, <1>9, <1>10

\* The steps before the watch leave the absence stamp alone; a thermal rest
\* and the panel's reset drop the cycle's charge.
LEMMA PausedKeeps ==
  ASSUME TypeOK, NEW r \in ReadingStates
  PROVE  LET reset == ManualReset(Aged(cycle), r)
             c == ThermalRest(reset, r)
         IN /\ reset \in CycleStates /\ c \in CycleStates
            /\ c.absent = Older(cycle.absent, AbsentReset)
            /\ c.resting = r.thermalRest
            /\ c.charging = reset.charging
            /\ reset.charging => cycle.charging \/ r.charging # {}
            /\ c.full => cycle.full /\ ~r.thermalRest
            /\ \/ c.recorded = cycle.recorded /\ c.fresh = cycle.fresh
               \/ r.charging # {} /\ ~c.full
               \/ ~c.full /\ c.fresh
               \/ ~c.full /\ c.fresh = cycle.fresh /\ (r.thermalRest \/ cycle.resting)
<1>. DEFINE now == Aged(cycle)
            reset == ManualReset(now, r)
<1>1. /\ now \in CycleStates
      /\ now.absent = Older(cycle.absent, AbsentReset)
      /\ now.charging = cycle.charging /\ now.resting = cycle.resting
      /\ now.full = cycle.full /\ now.recorded = cycle.recorded
      /\ now.fresh = cycle.fresh
  BY AgedTyped DEF TypeOK, Aged, CycleStates
<1>. HIDE DEF now
<1>2. r.thermalRest \in BOOLEAN
  BY DEF ReadingStates
<1>3. /\ reset \in CycleStates
      /\ reset.absent = now.absent
      /\ \/ reset = now
         \/ /\ reset.charging = (r.charging # {}) /\ ~reset.full
            /\ reset.fresh = (r.charging = {})
  <2>. DEFINE on == r.charging # {}
              off == r.charging = {}
  <2>1. on \in BOOLEAN /\ off \in BOOLEAN
    OBVIOUS
  <2>2. reset = IF ~now.reset THEN now
                ELSE [Fresh EXCEPT !.charging = on, !.resting = r.thermalRest,
                                   !.fresh = off, !.absent = now.absent]
    BY DEF ManualReset
  <2>3. reset \in CycleStates
    BY <1>1, ManualResetTyped
  <2>. HIDE DEF reset, on, off
  <2>4. CASE now.reset
    BY <1>2, <2>1, <2>2, <2>3, <2>4 DEF Fresh, on, off
  <2>. QED
    BY <2>2, <2>3, <2>4
<1>. HIDE DEF reset
<1>. DEFINE c == ThermalRest(reset, r)
<1>4. /\ c \in CycleStates /\ c.absent = reset.absent
      /\ c.resting = r.thermalRest /\ c.charging = reset.charging
      /\ c.fresh = reset.fresh
      /\ IF r.thermalRest \/ reset.resting THEN ~c.full
         ELSE c.full = reset.full /\ c.recorded = reset.recorded
  <2>1. c \in CycleStates
    BY <1>3, ThermalRestTyped
  <2>2. CASE r.thermalRest \/ reset.resting
    <3>. DEFINE paused == [reset EXCEPT !.charge = 0, !.rest = 0, !.over = 0,
                             !.episode = 0, !.full = FALSE,
                             !.candidate = FALSE, !.recorded = FALSE]
    <3>1. /\ paused \in CycleStates
          /\ paused.absent = reset.absent /\ paused.charging = reset.charging
          /\ paused.fresh = reset.fresh /\ ~paused.full
      BY <1>3, StampsTyped DEF CycleStates
    <3>2. c = [paused EXCEPT !.resting = r.thermalRest]
      BY <2>2 DEF ThermalRest
    <3>. HIDE DEF paused, c
    <3>. QED
      BY <2>1, <2>2, <3>1, <3>2 DEF CycleStates
  <2>3. CASE ~(r.thermalRest \/ reset.resting)
    <3>1. c = [reset EXCEPT !.resting = r.thermalRest]
      BY <2>3 DEF ThermalRest
    <3>. HIDE DEF c
    <3>. QED
      BY <1>3, <2>1, <2>3, <3>1 DEF CycleStates
  <2>. QED
    BY <2>2, <2>3
<1>. HIDE DEF c
<1>5. QED
  BY <1>1, <1>2, <1>3, <1>4 DEF now, reset, c
-----------------------------------------------------------------------------
(* The verdict, and the event of a charge.                                 *)

\* The module's stamp never ran longer than the battery was seen gone.
GoneInv ==
  gone \in 0 .. AbsentReset /\ (gone < AbsentReset => cycle.absent <= gone)

\* Without a charge since the last event, the cycle has its event or cannot
\* be full.
ChargeInv ==
  /\ seen \in BOOLEAN /\ able \in BOOLEAN
  /\ cycle.charging => seen
  /\ cycle.resting => ~able
  /\ ~seen => \/ cycle.recorded
              \/ ~cycle.full /\ (cycle.fresh \/ ~able)

IInv == TypeOK /\ GoneInv /\ ChargeInv

\* What a pass of scenario 5 promises.
PassHolds ==
  /\ kept.latched /\ ~kept'.latched => gone >= AbsentReset
  /\ Event => seen
  /\ GoneInv' /\ ChargeInv'

LEMMA BlindPassHolds ==
  ASSUME IInv, NEW r \in Readings, MCEvaluate(r), ~r.valid
  PROVE  PassHolds
<1>1. r \in ReadingStates
  BY ImbalanceAssumption DEF ReadingStates
<1>2. Aged(cycle) \in CycleStates
  BY AgedTyped DEF IInv, TypeOK
<1>3. cycle' = [Aged(cycle) EXCEPT !.over = 0, !.absent = 0] /\ kept' = kept
  BY DEF MCEvaluate, Evaluate, Evaluated
<1>4. /\ cycle'.charging = cycle.charging /\ cycle'.resting = cycle.resting
      /\ cycle'.full = cycle.full /\ cycle'.recorded = cycle.recorded
      /\ cycle'.fresh = cycle.fresh /\ cycle'.absent = 0
  BY <1>2, <1>3 DEF Aged, CycleStates, IInv, TypeOK
<1>5. gone' = 0 /\ able' = able /\ seen' = (seen /\ ~Event) /\ ~Event
  BY <1>3, ImbalanceAssumption
  DEF MCEvaluate, Event, IInv, ChargeInv, TypeOK, KeptStates
<1>. QED
  BY <1>3, <1>4, <1>5, ImbalanceAssumption
  DEF PassHolds, GoneInv, ChargeInv, IInv

\* A battery is absent, or back after a swap.
LEMMA DroppedPassHolds ==
  ASSUME IInv, NEW r \in Readings, MCEvaluate(r), r.valid,
         r.absent \/ Older(cycle.absent, AbsentReset) > AbsentReset
  PROVE  PassHolds
<1>1. r \in ReadingStates
  BY ImbalanceAssumption DEF ReadingStates
<1>. DEFINE reset == ManualReset(Aged(cycle), r)
            c == ThermalRest(reset, r)
            stamp == Older(cycle.absent, AbsentReset)
            s == [kept |-> kept, cycle |-> c]
<1>2. c \in CycleStates /\ c.absent = stamp
  BY <1>1, PausedKeeps DEF IInv
<1>3. cycle.absent \in Nat /\ stamp \in Nat
  BY OlderTyped, ImbalanceAssumption DEF IInv, TypeOK, CycleStates
<1>4. /\ kept' = IF r.absent THEN Absent(s).kept ELSE Swapped(s).kept
      /\ cycle' = IF r.absent THEN Absent(s).cycle ELSE Swapped(s).cycle
  BY <1>2 DEF MCEvaluate, Evaluate, Evaluated, Present, Reached
<1>. HIDE DEF reset, c, stamp
<1>5. /\ ~cycle'.charging /\ ~cycle'.resting /\ ~cycle'.full
      /\ cycle'.absent = IF ~r.absent THEN 0 ELSE IF stamp = 0 THEN 1 ELSE stamp
  BY <1>2, <1>4 DEF Absent, Swapped, ResetCycleState, Fresh, CycleStates
<1>6. kept' = IF r.absent /\ cycle'.absent <= AbsentReset THEN kept ELSE NoneKept
  BY <1>2, <1>3, <1>4, <1>5, ImbalanceAssumption
  DEF Absent, Swapped, Reached, CycleStates
<1>7. ~Event
  BY <1>6 DEF Event, NoneKept, IInv, TypeOK, KeptStates
<1>8. /\ cycle'.fresh
      /\ gone' = IF r.absent THEN Longer(gone, AbsentReset) ELSE 0
  BY <1>2, <1>4
  DEF Absent, Swapped, ResetCycleState, Fresh, CycleStates, MCEvaluate
<1>9. stamp <= cycle.absent + 1
  BY <1>3 DEF stamp, Older
<1>10. gone < AbsentReset => stamp <= AbsentReset /\ AbsentReset >= 1
  BY <1>3, <1>9, ImbalanceAssumption DEF IInv, GoneInv
<1>11. kept.latched /\ ~kept'.latched => gone >= AbsentReset
  <2>1. gone < AbsentReset => r.absent /\ cycle'.absent <= AbsentReset
    BY <1>3, <1>5, <1>10, ImbalanceAssumption DEF stamp
  <2>2. gone < AbsentReset => kept' = kept
    BY <1>6, <2>1
  <2>. QED
    BY <2>2, ImbalanceAssumption DEF IInv, GoneInv
<1>12. GoneInv'
  <2>1. gone \in 0 .. AbsentReset /\ (gone < AbsentReset => cycle.absent <= gone)
        /\ AbsentReset \in Nat
    BY ImbalanceAssumption DEF IInv, GoneInv
  <2>2. CASE ~r.absent
    BY <1>5, <1>8, <2>1, <2>2 DEF GoneInv
  <2>3. CASE r.absent /\ gone < AbsentReset
    <3>1. gone' = gone + 1 /\ cycle'.absent <= gone + 1
      BY <1>3, <1>5, <1>8, <1>9, <2>1, <2>3 DEF Longer
    <3>. QED
      BY <2>1, <2>3, <3>1 DEF GoneInv
  <2>4. CASE r.absent /\ ~(gone < AbsentReset)
    BY <1>8, <2>1, <2>4 DEF GoneInv, Longer
  <2>. QED
    BY <2>2, <2>3, <2>4
<1>13. seen' \in BOOLEAN /\ able' \in BOOLEAN
  BY DEF MCEvaluate
<1>. QED
  BY <1>5, <1>7, <1>8, <1>11, <1>12, <1>13 DEF PassHolds, ChargeInv

LEMMA WatchedPassHolds ==
  ASSUME IInv, NEW r \in Readings, MCEvaluate(r), r.valid, ~r.absent,
         ~(Older(cycle.absent, AbsentReset) > AbsentReset)
  PROVE  PassHolds
<1>1. r \in ReadingStates /\ (r.complete => able /\ ~r.thermalRest)
  BY ImbalanceAssumption, ReadingsAssumption
  DEF ReadingStates, MCEvaluate, Offered
<1>. DEFINE reset == ManualReset(Aged(cycle), r)
            c == ThermalRest(reset, r)
            charging == Charging(reset, r)
            s == [kept |-> kept, cycle |-> c]
            p == [s EXCEPT !.cycle.absent = 0]
            w == Watched(p, charging, prev, r)
            charges == r.charging # {}
<1>2. /\ reset \in CycleStates /\ c \in CycleStates
      /\ c.absent = Older(cycle.absent, AbsentReset)
      /\ c.resting = r.thermalRest
      /\ c.charging = reset.charging
      /\ reset.charging => cycle.charging \/ r.charging # {}
      /\ c.full => cycle.full /\ ~r.thermalRest
      /\ \/ c.recorded = cycle.recorded /\ c.fresh = cycle.fresh
         \/ r.charging # {} /\ ~c.full
         \/ ~c.full /\ c.fresh
         \/ ~c.full /\ c.fresh = cycle.fresh /\ (r.thermalRest \/ cycle.resting)
  BY <1>1, PausedKeeps DEF IInv
<1>3. kept' = w.kept /\ cycle' = w.cycle
  BY <1>2 DEF MCEvaluate, Evaluate, Evaluated, Present, Reached
<1>4. /\ charging = IF r.thermalRest THEN reset.charging ELSE charges
      /\ charging \in BOOLEAN
  BY <1>1, <1>2 DEF Charging, CycleStates
<1>. HIDE DEF reset, c, charging
<1>5. /\ p \in States /\ p.kept = kept
      /\ p.cycle.absent = 0
      /\ p.cycle.charging = c.charging /\ p.cycle.resting = c.resting
      /\ p.cycle.full = c.full /\ p.cycle.recorded = c.recorded
      /\ p.cycle.fresh = c.fresh
  BY <1>2, StampsTyped DEF States, CycleStates, IInv, TypeOK
<1>. HIDE DEF p
<1>6. /\ kept.latched => w.kept.latched
      /\ w.cycle.charging = charging
      /\ w.cycle.absent = 0
      /\ w.cycle.resting = c.resting
      /\ ~charging /\ ~c.charging
           => /\ c.recorded => w.cycle.recorded
              /\ c.fresh => w.cycle.fresh
              /\ w.cycle.full => c.full \/ (r.complete /\ ~c.fresh)
      /\ w.kept.events > kept.events
           => /\ c.full \/ r.complete
              /\ ~charging /\ w.cycle.recorded
              /\ ~c.charging => ~c.recorded /\ (c.full \/ ~c.fresh)
  BY <1>1, <1>4, <1>5, WatchedKeeps DEF IInv, TypeOK
<1>. HIDE DEF w
<1>7. /\ gone' = 0
      /\ seen' = ((seen /\ ~Event) \/ charges)
      /\ able' = ((able \/ charges) /\ ~r.thermalRest)
      /\ Event <=> w.kept.events > kept.events
  BY <1>3 DEF MCEvaluate, Event
<1>. HIDE DEF charges
<1>8. Event => ~r.thermalRest /\ ~charges
  BY <1>1, <1>2, <1>4, <1>6, <1>7
<1>9. Event => seen
  BY <1>1, <1>2, <1>4, <1>6, <1>7, <1>8 DEF IInv, ChargeInv, charges
<1>10. cycle'.charging => seen'
  BY <1>2, <1>3, <1>4, <1>6, <1>7, <1>8 DEF IInv, ChargeInv, charges
<1>11. cycle'.resting => ~able'
  BY <1>2, <1>3, <1>6, <1>7
<1>12. ~seen' => cycle'.recorded \/ (~cycle'.full /\ (cycle'.fresh \/ ~able'))
  <2>1. CASE Event
    BY <1>3, <1>6, <1>7, <2>1
  <2>2. CASE ~Event /\ ~seen /\ ~charges
    BY <1>1, <1>2, <1>3, <1>4, <1>6, <1>7, <2>2 DEF IInv, ChargeInv, charges
  <2>. QED
    BY <1>7, <2>1, <2>2
<1>13. seen' \in BOOLEAN /\ able' \in BOOLEAN
  BY <1>7
<1>. QED
  BY <1>3, <1>6, <1>7, <1>9, <1>10, <1>11, <1>12, <1>13, ImbalanceAssumption
  DEF PassHolds, GoneInv, ChargeInv

LEMMA PassKeepsInv ==
  ASSUME IInv, NEW r \in Readings, MCEvaluate(r)
  PROVE  PassHolds
  BY BlindPassHolds, DroppedPassHolds, WatchedPassHolds

LEMMA RestartedKeeps ==
  ASSUME NEW c \in CycleStates
  PROVE  LET d == Restarted(c)
         IN /\ d.charging = c.charging /\ d.resting = c.resting
            /\ d.absent = c.absent /\ ~d.full /\ d.fresh
  BY DEF Restarted, CycleStates

LEMMA PanelKeepsInv ==
  ASSUME IInv, PanelRestarts \/ PanelCycles
  PROVE  GoneInv' /\ ChargeInv'
<1>1. UNCHANGED <<seen, able, gone>>
  BY DEF PanelRestarts, PanelCycles
<1>2. cycle \in CycleStates
  BY DEF IInv, TypeOK
<1>3. cycle' = cycle \/ cycle' = Restarted(cycle)
  BY DEF PanelRestarts, PanelCycles, SetEvents, SetLatch, SetCycles
<1>. QED
  BY <1>1, <1>2, <1>3, RestartedKeeps DEF IInv, GoneInv, ChargeInv

LEMMA FreshStarts ==
  ASSUME NEW c \in {Fresh, Restarted(Fresh)}
  PROVE  c.absent = 0 /\ ~c.charging /\ ~c.resting /\ ~c.full
<1>1. Fresh.absent = 0 /\ ~Fresh.charging /\ ~Fresh.resting /\ ~Fresh.full
  BY DEF Fresh
<1>. QED
  BY <1>1, FreshTyped, RestartedKeeps

LEMMA StartKeepsInv ==
  ASSUME cycle' \in {Fresh, Restarted(Fresh)},
         seen' = FALSE, able' = FALSE, gone' = 0
  PROVE  GoneInv' /\ ChargeInv'
<1>1. /\ cycle'.absent = 0 /\ ~cycle'.charging /\ ~cycle'.resting
      /\ ~cycle'.full
  BY FreshStarts
<1>2. GoneInv'
  BY <1>1, ImbalanceAssumption DEF GoneInv
<1>. QED
  BY <1>1, <1>2 DEF ChargeInv

LEMMA MCStep == ASSUME MCNext PROVE Next
  BY DEF MCNext, MCEvaluate, PanelRestarts, PanelCycles, Reboot, Next

LEMMA StepKeepsInv ==
  ASSUME IInv, [MCNext]_mcvars
  PROVE  /\ IInv'
         /\ kept.latched /\ ~kept'.latched => gone >= AbsentReset \/ SetLatch(FALSE)
         /\ Event => seen
<1>1. TypeOK'
  BY MCStep, StepTyped DEF IInv, mcvars
<1>2. ASSUME NEW r \in Readings, MCEvaluate(r)
      PROVE  PassHolds
  BY <1>2, PassKeepsInv
<1>3. CASE PanelRestarts \/ PanelCycles
  <2>1. /\ kept.latched /\ ~kept'.latched => SetLatch(FALSE)
        /\ kept'.events <= kept.events
    BY <1>3, ImbalanceAssumption
    DEF PanelRestarts, PanelCycles, SetEvents, SetLatch, SetCycles, IInv, TypeOK,
        KeptStates
  <2>2. ~Event
    BY <1>1, <2>1 DEF Event, IInv, TypeOK, KeptStates
  <2>. QED
    BY <1>1, <1>3, <2>1, <2>2, PanelKeepsInv DEF IInv
<1>4. CASE Reboot
  <2>1. kept' = kept /\ cycle' \in {Fresh, Restarted(Fresh)}
    BY <1>4 DEF Reboot, Boot
  <2>2. ~Event
    BY <2>1 DEF Event, IInv, TypeOK, KeptStates
  <2>. QED
    BY <1>1, <1>4, <2>1, <2>2, StartKeepsInv DEF Reboot, IInv
<1>5. CASE UNCHANGED mcvars
  <2>1. /\ UNCHANGED <<kept, cycle, seen, able, gone>>
    BY <1>5 DEF mcvars, vars
  <2>2. ~Event
    BY <2>1 DEF Event, IInv, TypeOK, KeptStates
  <2>. QED
    BY <1>1, <2>1, <2>2 DEF IInv, GoneInv, ChargeInv
<1>. QED
  BY <1>1, <1>2, <1>3, <1>4, <1>5 DEF MCNext, PassHolds, IInv

LEMMA InitEstablishes == ASSUME MCInit PROVE IInv
<1>1. cycle \in {Fresh, Restarted(Fresh)} /\ ~seen /\ ~able /\ gone = 0
      /\ seen = FALSE /\ able = FALSE
  BY DEF MCInit, Init
<1>2. /\ cycle.absent = 0 /\ ~cycle.charging /\ ~cycle.resting /\ ~cycle.full
  BY <1>1, FreshStarts
<1>3. GoneInv
  BY <1>1, <1>2, ImbalanceAssumption DEF GoneInv
<1>. QED
  BY <1>1, <1>2, <1>3, InitTyped DEF MCInit, IInv, ChargeInv

LEMMA InvHolds == MCSpec => []IInv
  BY InitEstablishes, StepKeepsInv, PTL DEF MCSpec

(* Imbalance_Evaluate, the absence and the swap: a latched verdict falls   *)
(* only to a battery gone for the whole swap time, or to the panel.        *)
THEOREM VerdictsHold == MCSpec => VerdictIsKept
<1>1. IInv /\ [MCNext]_mcvars
        => (kept.latched /\ ~kept'.latched
              => gone >= AbsentReset \/ SetLatch(FALSE))
  BY StepKeepsInv
<1>2. IInv /\ [MCNext]_mcvars =>
        [kept.latched /\ ~kept'.latched
           => gone >= AbsentReset \/ SetLatch(FALSE)]_mcvars
  BY <1>1
<1>. QED
  BY <1>2, InvHolds, PTL DEF MCSpec, VerdictIsKept

(* The commit at the end of a rest: no second event without a charge that  *)
(* was seen since the first, through flickers, boots and thermal rests.    *)
THEOREM ChargesCountOnce == MCSpec => OneEventPerCharge
<1>1. IInv /\ [MCNext]_mcvars => [Event => seen]_mcvars
  BY StepKeepsInv
<1>. QED
  BY <1>1, InvHolds, PTL DEF MCSpec, OneEventPerCharge
-----------------------------------------------------------------------------
(* The confirmation of an event, and the forgiving of the stored ones: the *)
(* cycle's own marks against what the observers saw.                       *)

\* Whether a charge that begins here closes a clean cycle.
ClosesClean(s, charging) ==
  charging /\ ~s.cycle.charging /\ s.cycle.full /\ ~s.cycle.recorded

CleanAtMost(s, charging) ==
  IF ClosesClean(s, charging) THEN Longer(s.cycle.clean, CleanFullCycles)
  ELSE s.cycle.clean

\* A charge that begins: what it counts and what it forgives.
LEMMA BeginsCount ==
  ASSUME NEW s \in States, ~s.cycle.charging
  PROVE  LET e == ChargeBegins(s)
         IN /\ e.cycle.reset = s.cycle.reset
            /\ ~e.cycle.full
            /\ e.cycle.clean <= CleanAtMost(s, TRUE)
            /\ e.kept.events < s.kept.events
                 => /\ ClosesClean(s, TRUE)
                    /\ CleanAtMost(s, TRUE) >= CleanFullCycles
<1>. DEFINE e == ChargeBegins(s)
            c == s.cycle
            tally == IF c.full THEN CleanCycles(c) ELSE c.clean
            cleared == c.full /\ tally >= CleanFullCycles
<1>1. s.kept \in KeptStates /\ c \in CycleStates
  BY DEF States
<1>2. /\ e.cycle.reset = c.reset /\ ~e.cycle.full
      /\ e.cycle.clean = IF cleared THEN 0 ELSE tally
  BY <1>1 DEF ChargeBegins, CycleStates
<1>3. e.kept.events = IF cleared THEN 0 ELSE s.kept.events
  BY <1>1 DEF ChargeBegins, KeptStates
<1>4. s.kept.events \in Nat /\ c.clean \in Nat /\ CleanFullCycles \in Nat \ {0}
  BY <1>1, ImbalanceAssumption DEF KeptStates, CycleStates
<1>5. Longer(c.clean, CleanFullCycles) \in Nat
  BY <1>4 DEF Longer
<1>6. ClosesClean(s, TRUE) <=> c.full /\ ~c.recorded
  BY DEF ClosesClean
<1>7. CASE c.full /\ c.recorded
  <2>1. tally = 0 /\ ~cleared
    BY <1>4, <1>7 DEF CleanCycles
  <2>2. CleanAtMost(s, TRUE) = c.clean
    BY <1>6, <1>7 DEF CleanAtMost
  <2>. HIDE DEF e, c, tally, cleared
  <2>3. e.cycle.clean = 0 /\ e.kept.events = s.kept.events
    BY <1>2, <1>3, <2>1
  <2>4. e.cycle.clean <= c.clean /\ ~(e.kept.events < s.kept.events)
    BY <1>4, <2>3
  <2>. QED
    BY <1>2, <2>2, <2>4, Zenon DEF e, c
<1>8. CASE ~c.full
  <2>1. tally = c.clean /\ ~cleared
    BY <1>8
  <2>2. CleanAtMost(s, TRUE) = c.clean
    BY <1>6, <1>8 DEF CleanAtMost
  <2>. HIDE DEF e, c, tally, cleared
  <2>3. e.cycle.clean = c.clean /\ e.kept.events = s.kept.events
    BY <1>2, <1>3, <2>1
  <2>4. e.cycle.clean <= c.clean /\ ~(e.kept.events < s.kept.events)
    BY <1>4, <2>3
  <2>. QED
    BY <1>2, <2>2, <2>4, Zenon DEF e, c
<1>9. CASE c.full /\ ~c.recorded
  <2>1. tally = Longer(c.clean, CleanFullCycles)
        /\ (cleared <=> tally >= CleanFullCycles)
    BY <1>9 DEF CleanCycles
  <2>2. CleanAtMost(s, TRUE) = Longer(c.clean, CleanFullCycles)
    BY <1>6, <1>9 DEF CleanAtMost
  <2>. HIDE DEF e, c, tally
  <2>3. e.cycle.clean <= tally
    BY <1>2, <1>4, <1>5, <2>1
  <2>4. e.kept.events < s.kept.events => tally >= CleanFullCycles
    BY <1>3, <1>4, <2>1
  <2>. QED
    BY <1>2, <1>6, <1>9, <2>1, <2>2, <2>3, <2>4, Zenon DEF e, c
<1>. QED
  BY <1>7, <1>8, <1>9

LEMMA EdgesCount ==
  ASSUME NEW s \in States, NEW charging \in BOOLEAN, NEW r \in ReadingStates
  PROVE  LET e == Edges(s, charging, r)
         IN /\ e.cycle.reset = s.cycle.reset
            /\ charging /\ e.cycle.full => s.cycle.charging /\ s.cycle.full
            /\ ~charging => e.cycle.rest =
                              IF s.cycle.charging THEN 0 ELSE s.cycle.rest
            /\ e.cycle.clean <= CleanAtMost(s, charging)
            /\ e.kept.events < s.kept.events
                 => /\ ClosesClean(s, charging)
                    /\ CleanAtMost(s, charging) >= CleanFullCycles
<1>. DEFINE e == Edges(s, charging, r)
<1>1. s.kept \in KeptStates /\ s.cycle \in CycleStates
  BY DEF States
<1>2. s.kept.events \in Nat /\ s.cycle.clean \in Nat
  BY <1>1 DEF KeptStates, CycleStates
<1>3. CASE charging /\ ~s.cycle.charging
  <2>1. e = ChargeBegins(s)
    BY <1>3 DEF Edges
  <2>. HIDE DEF e
  <2>2. /\ ClosesClean(s, charging) <=> ClosesClean(s, TRUE)
        /\ CleanAtMost(s, charging) = CleanAtMost(s, TRUE)
    BY <1>3 DEF CleanAtMost, ClosesClean
  <2>3. /\ e.cycle.reset = s.cycle.reset /\ ~e.cycle.full
        /\ e.cycle.clean <= CleanAtMost(s, TRUE)
        /\ e.kept.events < s.kept.events
             => /\ ClosesClean(s, TRUE)
                /\ CleanAtMost(s, TRUE) >= CleanFullCycles
    BY <1>3, <2>1, BeginsCount
  <2>. QED
    BY <1>3, <2>2, <2>3, Zenon DEF e
<1>4. CASE ~charging /\ s.cycle.charging
  <2>1. e.kept = s.kept /\ e.cycle = ChargeEnds(s.cycle, r)
    BY <1>4 DEF Edges, States
  <2>. HIDE DEF e
  <2>2. /\ e.cycle.reset = s.cycle.reset /\ e.cycle.rest = 0
        /\ e.cycle.clean = s.cycle.clean
    BY <1>1, <2>1 DEF ChargeEnds, CycleStates
  <2>3. CleanAtMost(s, charging) = s.cycle.clean
    BY <1>4 DEF CleanAtMost, ClosesClean
  <2>4. e.cycle.clean <= s.cycle.clean /\ ~(e.kept.events < s.kept.events)
    BY <1>2, <2>1, <2>2
  <2>. QED
    BY <1>4, <2>2, <2>3, <2>4, Zenon DEF e
<1>5. CASE charging = s.cycle.charging
  <2>1. e = s
    BY <1>5 DEF Edges
  <2>2. CleanAtMost(s, charging) = s.cycle.clean
    BY <1>5 DEF CleanAtMost, ClosesClean
  <2>. HIDE DEF e
  <2>4. e.cycle.clean <= s.cycle.clean /\ ~(e.kept.events < s.kept.events)
    BY <1>2, <2>1
  <2>. QED
    BY <1>5, <2>1, <2>2, <2>4, Zenon DEF e
<1>. QED
  BY <1>1, <1>3, <1>4, <1>5 DEF CycleStates

LEMMA TimedCounts ==
  ASSUME NEW c \in CycleStates, NEW charging \in BOOLEAN,
         NEW onBattery \in BOOLEAN, NEW r \in ReadingStates
  PROVE  LET t == Timed(Qualified(c, charging, onBattery, r),
                        charging, onBattery, r)
         IN /\ t.reset = c.reset /\ t.rest = c.rest /\ t.clean = c.clean
            /\ t.full => c.full \/ (r.complete /\ ~onBattery)
<1>. DEFINE q == Qualified(c, charging, onBattery, r)
<1>1. /\ q \in CycleStates
      /\ q.reset = c.reset /\ q.rest = c.rest /\ q.clean = c.clean
      /\ q.full => c.full \/ (r.complete /\ ~onBattery)
  BY DEF Qualified, CycleStates
<1>. HIDE DEF q
<1>2. LET t == Timed(q, charging, onBattery, r)
      IN /\ t.reset = q.reset /\ t.rest = q.rest /\ t.clean = q.clean
         /\ t.full => q.full
  BY <1>1 DEF Timed, Episode, CycleStates
<1>. QED
  BY <1>1, <1>2 DEF q

LEMMA JudgedCounts ==
  ASSUME NEW s \in States, NEW charging \in BOOLEAN,
         NEW onBattery \in BOOLEAN, NEW r \in ReadingStates
  PROVE  LET j == Judged(Committed(s, charging, onBattery, r))
         IN /\ j.cycle.reset = s.cycle.reset /\ j.cycle.rest = s.cycle.rest
            /\ j.cycle.clean <= s.cycle.clean
            /\ j.kept.events >= s.kept.events
            /\ j.kept.events # s.kept.events
                 => s.cycle.rest >= PostChargeWait /\ j.cycle.clean = 0
<1>1. s.kept \in KeptStates /\ s.cycle \in CycleStates
  BY DEF States
<1>. DEFINE k == Committed(s, charging, onBattery, r)
<1>2. /\ k \in States
      /\ k.cycle.reset = s.cycle.reset /\ k.cycle.rest = s.cycle.rest
      /\ k.cycle.clean <= s.cycle.clean
      /\ k.kept.events >= s.kept.events
      /\ k.kept.events # s.kept.events
           => s.cycle.rest >= PostChargeWait /\ k.cycle.clean = 0
  <2>1. k \in States
    BY CommittedTyped
  <2>2. s.kept.events \in 0 .. MaxEvents /\ s.cycle.clean \in Nat
    BY <1>1 DEF KeptStates, CycleStates
  <2>3. CASE ~Confirmed(s.cycle, charging, onBattery, r)
    <3>1. k = s
      BY <2>3 DEF Committed
    <3>. HIDE DEF k
    <3>. QED
      BY <2>2, <3>1
  <2>4. CASE Confirmed(s.cycle, charging, onBattery, r)
    <3>1. /\ k.kept = [s.kept EXCEPT !.events = Longer(@, MaxEvents)]
          /\ k.cycle = [s.cycle EXCEPT !.recorded = TRUE, !.clean = 0]
      BY <2>4 DEF Committed
    <3>2. s.cycle.rest >= PostChargeWait
      BY <2>4 DEF Confirmed
    <3>. HIDE DEF k
    <3>3. k.kept.events = Longer(s.kept.events, MaxEvents)
      BY <1>1, <3>1 DEF KeptStates
    <3>4. /\ k.cycle.reset = s.cycle.reset /\ k.cycle.rest = s.cycle.rest
          /\ k.cycle.clean = 0
      BY <1>1, <3>1 DEF CycleStates
    <3>5. k.kept.events >= s.kept.events
      BY <2>2, <3>3, ImbalanceAssumption DEF Longer
    <3>6. k.cycle.clean <= s.cycle.clean
      BY <2>2, <3>4
    <3>. QED
      BY <2>1, <3>2, <3>4, <3>5, <3>6
  <2>. QED
    BY <2>3, <2>4
<1>. HIDE DEF k
<1>3. LET j == Judged(k)
      IN j.cycle = k.cycle /\ j.kept.events = k.kept.events
  BY <1>2 DEF Judged, States, KeptStates
<1>. QED
  BY <1>2, <1>3 DEF k

\* A pass with both batteries present, for the confirmation.
LEMMA WatchedCounts ==
  ASSUME NEW s \in States, NEW charging \in BOOLEAN,
         NEW onBattery \in BOOLEAN, NEW r \in ReadingStates
  PROVE  LET w == Watched(s, charging, onBattery, r)
         IN /\ w.cycle.charging = charging
            /\ w.cycle.reset = s.cycle.reset
            /\ w.cycle.full => s.cycle.full \/ (r.complete /\ ~onBattery)
            /\ charging /\ w.cycle.full
                 => (s.cycle.charging /\ s.cycle.full) \/ r.complete
            /\ ~charging => w.cycle.rest =
                              IF s.cycle.charging THEN 0 ELSE s.cycle.rest
            /\ w.cycle.clean <= CleanAtMost(s, charging)
            /\ w.kept.events < s.kept.events
                 => /\ ClosesClean(s, charging)
                    /\ CleanAtMost(s, charging) >= CleanFullCycles
            /\ w.kept.events > s.kept.events
                 => /\ w.cycle.full /\ ~charging /\ ~onBattery
                    /\ w.cycle.rest >= PostChargeWait /\ w.cycle.clean = 0
<1>. DEFINE edged == Edges(s, charging, r)
            c == Timed(Qualified(edged.cycle, charging, onBattery, r),
                       charging, onBattery, r)
            t == [edged EXCEPT !.cycle = Relaxed(c, r)]
            w == Judged(Committed(t, charging, onBattery, r))
<1>1. /\ edged \in States
      /\ edged.kept \in KeptStates /\ edged.cycle \in CycleStates
  BY EdgesTyped DEF States
<1>2. c \in CycleStates
  BY <1>1, TimedTyped
<1>3. /\ edged.cycle.reset = s.cycle.reset
      /\ charging /\ edged.cycle.full => s.cycle.charging /\ s.cycle.full
      /\ ~charging => edged.cycle.rest =
                        IF s.cycle.charging THEN 0 ELSE s.cycle.rest
      /\ edged.cycle.clean <= CleanAtMost(s, charging)
      /\ edged.kept.events < s.kept.events
           => /\ ClosesClean(s, charging)
              /\ CleanAtMost(s, charging) >= CleanFullCycles
  BY EdgesCount
<1>4. /\ edged.cycle.full => s.cycle.full
      /\ edged.kept.events <= s.kept.events
  BY EdgesKeep
<1>5. /\ c.reset = edged.cycle.reset /\ c.rest = edged.cycle.rest
      /\ c.clean = edged.cycle.clean
      /\ c.full => edged.cycle.full \/ (r.complete /\ ~onBattery)
  BY <1>1, TimedCounts
<1>6. c.charging = charging
  BY <1>1, TimedKeeps
<1>. HIDE DEF edged, c
<1>7. /\ Relaxed(c, r) \in CycleStates
      /\ Relaxed(c, r).reset = c.reset /\ Relaxed(c, r).rest = c.rest
      /\ Relaxed(c, r).clean = c.clean /\ Relaxed(c, r).full = c.full
      /\ Relaxed(c, r).charging = c.charging
  BY <1>2 DEF Relaxed, CycleStates
<1>8. t \in States /\ t.kept = edged.kept /\ t.cycle = Relaxed(c, r)
  BY <1>1, <1>7 DEF States
<1>. HIDE DEF t
<1>9. /\ w.cycle.reset = t.cycle.reset /\ w.cycle.rest = t.cycle.rest
      /\ w.cycle.clean <= t.cycle.clean
      /\ w.kept.events >= t.kept.events
      /\ w.kept.events # t.kept.events
           => t.cycle.rest >= PostChargeWait /\ w.cycle.clean = 0
  BY <1>8, JudgedCounts
<1>10. /\ w.cycle.charging = t.cycle.charging
       /\ w.cycle.full = t.cycle.full
       /\ w.kept.events # t.kept.events
            => t.cycle.full /\ ~charging /\ ~onBattery
  BY <1>8, JudgedKeeps
<1>11. w \in States
  <2>. HIDE DEF w
  <2>1. Committed(t, charging, onBattery, r) \in States
    BY <1>8, CommittedTyped
  <2>. QED
    BY <2>1, CommittedTyped DEF w
<1>12. Watched(s, charging, onBattery, r) = w
  BY DEF Watched, edged, c, t
<1>. HIDE DEF w
<1>13. /\ s.kept.events \in Nat /\ edged.kept.events \in Nat
       /\ w.kept.events \in Nat
       /\ edged.cycle.clean \in Nat /\ w.cycle.clean \in Nat
  BY <1>1, <1>11 DEF States, KeptStates, CycleStates
<1>14. CleanAtMost(s, charging) \in Int
  <2>1. s.cycle.clean \in Int
    BY DEF States, CycleStates
  <2>2. Longer(s.cycle.clean, CleanFullCycles) \in Int
    BY <2>1, ImbalanceAssumption DEF Longer
  <2>. QED
    BY <2>1, <2>2, Zenon DEF CleanAtMost
<1>15. w.kept.events > s.kept.events => w.kept.events # t.kept.events
  BY <1>4, <1>8, <1>13
<1>16. w.kept.events < s.kept.events => edged.kept.events < s.kept.events
  BY <1>8, <1>9, <1>13
<1>17. w.cycle.clean <= edged.cycle.clean
  BY <1>5, <1>7, <1>8, <1>9
<1>18. w.cycle.clean <= CleanAtMost(s, charging)
  <2>. DEFINE bound == CleanAtMost(s, charging)
  <2>. HIDE DEF bound
  <2>1. bound \in Int /\ edged.cycle.clean <= bound
    BY <1>3, <1>14 DEF bound
  <2>2. w.cycle.clean <= bound
    BY <1>13, <1>17, <2>1
  <2>. QED
    BY <2>2 DEF bound
<1>. QED
  BY <1>3, <1>4, <1>5, <1>6, <1>7, <1>8, <1>9, <1>10, <1>12, <1>15, <1>16,
     <1>18, ZenonT(60)

\* The steps before the watch: the panel's reset ends here, a thermal rest
\* starts the rest again, and no step adds a clean cycle.
LEMMA PausedCounts ==
  ASSUME TypeOK, NEW r \in ReadingStates
  PROVE  LET reset == ManualReset(Aged(cycle), r)
             c == ThermalRest(reset, r)
         IN /\ ~c.reset
            /\ c.full => c.charging = cycle.charging
            /\ \/ c.rest = 0
               \/ /\ ~cycle.reset /\ c.charging = cycle.charging
                  /\ c.rest = Longer(cycle.rest, PostChargeWait)
            /\ r.thermalRest => c.rest = 0
            /\ c.clean = 0 \/ c.clean = cycle.clean
<1>. DEFINE now == Aged(cycle)
            reset == ManualReset(now, r)
            c == ThermalRest(reset, r)
<1>1. /\ now \in CycleStates
      /\ now.charging = cycle.charging /\ now.reset = cycle.reset
      /\ now.rest = Longer(cycle.rest, PostChargeWait)
      /\ now.clean = cycle.clean
  BY AgedTyped DEF TypeOK, Aged, CycleStates
<1>. HIDE DEF now
<1>2. /\ reset \in CycleStates /\ ~reset.reset
      /\ \/ reset = now /\ ~now.reset
         \/ reset.rest = 0 /\ reset.clean = 0 /\ ~reset.full
  <2>. DEFINE on == r.charging # {}
              off == r.charging = {}
  <2>1. on \in BOOLEAN /\ off \in BOOLEAN
    OBVIOUS
  <2>2. reset = IF ~now.reset THEN now
                ELSE [Fresh EXCEPT !.charging = on, !.resting = r.thermalRest,
                                   !.fresh = off, !.absent = now.absent]
    BY DEF ManualReset
  <2>3. reset \in CycleStates
    BY <1>1, ManualResetTyped
  <2>. HIDE DEF reset, on, off
  <2>4. CASE now.reset
    BY <2>1, <2>2, <2>3, <2>4 DEF Fresh
  <2>. QED
    BY <2>2, <2>3, <2>4
<1>. HIDE DEF reset
<1>3. /\ c.reset = reset.reset /\ c.charging = reset.charging
      /\ c.full => reset.full
      /\ c.rest = 0 \/ c.rest = reset.rest
      /\ r.thermalRest => c.rest = 0
      /\ c.clean = reset.clean
  BY <1>2, StampsTyped DEF ThermalRest, CycleStates, ReadingStates
<1>. HIDE DEF c
<1>. QED
  BY <1>1, <1>2, <1>3, Zenon DEF now, reset, c

\* The cycle's marks claim no more than was seen: a full cycle a full charge
\* that nothing disqualified, its rest the passes since the last charge, and
\* its clean cycles the full charges in a row without an event.  A reset
\* still to come leaves nothing of the cycle.
CycleInv ==
  /\ floated \in BOOLEAN /\ rested \in 0 .. PostChargeWait
  /\ clean \in 0 .. CleanFullCycles
  /\ cycle.reset => ~cycle.full /\ cycle.clean = 0
  /\ cycle.full => floated /\ ~cycle.charging
  /\ ~cycle.charging /\ ~cycle.reset => cycle.rest <= rested
  /\ cycle.clean <= clean

\* What the watch is told of the mains is what the last pass left.
Told == battery = prev

LEMMA ToldStep == ASSUME Told, [MCNext]_mcvars PROVE Told'
<1>1. ASSUME NEW r \in Readings, MCEvaluate(r) PROVE Told'
  BY <1>1 DEF MCEvaluate, Evaluate, Told
<1>2. CASE PanelRestarts \/ PanelCycles
  BY <1>2 DEF PanelRestarts, PanelCycles, SetEvents, SetLatch, SetCycles, Told
<1>3. CASE Reboot
  BY <1>3 DEF Reboot, Boot, Told
<1>4. CASE UNCHANGED mcvars
  BY <1>4 DEF mcvars, vars, Told
<1>. QED
  BY <1>1, <1>2, <1>3, <1>4 DEF MCNext

\* What a step promises of the stored events.
CountHolds ==
  /\ Event => (floated \/ floated') /\ ~battery /\ rested' >= PostChargeWait
  /\ kept'.events < kept.events
       => gone >= AbsentReset \/ clean' >= CleanFullCycles \/ SetEvents(0)

LEMMA LongerGrows ==
  ASSUME NEW limit \in Nat, NEW m \in 0 .. limit, NEW n \in 0 .. limit, m <= n
  PROVE  /\ Longer(m, limit) <= Longer(n, limit)
         /\ n <= Longer(n, limit) /\ Longer(n, limit) \in 0 .. limit
  BY DEF Longer

LEMMA ObserversTyped ==
  ASSUME CycleInv, NEW r \in Readings, MCEvaluate(r)
  PROVE  /\ floated' \in BOOLEAN /\ rested' \in 0 .. PostChargeWait
         /\ clean' \in 0 .. CleanFullCycles
<1>1. /\ Longer(rested, PostChargeWait) \in 0 .. PostChargeWait
      /\ Longer(clean, CleanFullCycles) \in 0 .. CleanFullCycles
  BY LongerTyped, ImbalanceAssumption DEF CycleInv
<1>2. rested' = 0 \/ rested' = Longer(rested, PostChargeWait)
  BY DEF MCEvaluate
<1>3. clean' = 0 \/ clean' = clean \/ clean' = Longer(clean, CleanFullCycles)
  BY DEF MCEvaluate
<1>4. floated' \in BOOLEAN
  BY DEF MCEvaluate, CycleInv
<1>. QED
  BY <1>1, <1>2, <1>3, <1>4, StampsTyped DEF CycleInv

\* The watch holds no more than a battery's absence or a blind pass leaves.
LEMMA BlindCounts ==
  ASSUME IInv, CycleInv, NEW r \in Readings, MCEvaluate(r), ~r.valid
  PROVE  CountHolds /\ CycleInv'
<1>. DEFINE now == Aged(cycle)
<1>1. /\ now \in CycleStates
      /\ now.charging = cycle.charging /\ now.reset = cycle.reset
      /\ now.full = cycle.full /\ now.clean = cycle.clean
      /\ now.rest = Longer(cycle.rest, PostChargeWait)
  BY AgedTyped DEF IInv, TypeOK, Aged, CycleStates
<1>2. cycle' = [now EXCEPT !.over = 0, !.absent = 0] /\ kept' = kept
  BY DEF MCEvaluate, Evaluate, Evaluated
<1>. HIDE DEF now
<1>3. /\ cycle'.charging = cycle.charging /\ cycle'.reset = cycle.reset
      /\ cycle'.full = cycle.full /\ cycle'.clean = cycle.clean
      /\ cycle'.rest = Longer(cycle.rest, PostChargeWait)
  BY <1>1, <1>2 DEF CycleStates
<1>4. /\ ~Event /\ ~(kept'.events < kept.events)
      /\ kept.events \in Nat /\ cycle.rest \in 0 .. PostChargeWait
  BY <1>2 DEF Event, IInv, TypeOK, KeptStates, CycleStates
<1>5. /\ floated' = floated /\ clean' = clean
      /\ rested' = Longer(rested, PostChargeWait)
  BY <1>4 DEF MCEvaluate
<1>6. cycle.rest <= rested => cycle'.rest <= rested'
  BY <1>3, <1>4, <1>5, LongerGrows, ImbalanceAssumption DEF CycleInv
<1>. QED
  BY <1>3, <1>4, <1>5, <1>6, ObserversTyped, Zenon DEF CycleInv, CountHolds

LEMMA DroppedCounts ==
  ASSUME IInv, CycleInv, NEW r \in Readings, MCEvaluate(r), r.valid,
         r.absent \/ Older(cycle.absent, AbsentReset) > AbsentReset
  PROVE  CountHolds /\ CycleInv'
<1>1. r \in ReadingStates
  BY ImbalanceAssumption DEF ReadingStates
<1>. DEFINE reset == ManualReset(Aged(cycle), r)
            c == ThermalRest(reset, r)
            stamp == Older(cycle.absent, AbsentReset)
            s == [kept |-> kept, cycle |-> c]
<1>2. c \in CycleStates /\ c.absent = stamp /\ ~c.reset
  BY <1>1, PausedKeeps, PausedCounts DEF IInv
<1>3. cycle.absent \in Nat /\ stamp \in Nat /\ stamp <= cycle.absent + 1
  BY OlderTyped, ImbalanceAssumption
  DEF IInv, TypeOK, CycleStates, Older
<1>4. /\ kept' = IF r.absent THEN Absent(s).kept ELSE Swapped(s).kept
      /\ cycle' = IF r.absent THEN Absent(s).cycle ELSE Swapped(s).cycle
  BY <1>2 DEF MCEvaluate, Evaluate, Evaluated, Present, Reached
<1>. HIDE DEF reset, c, stamp
<1>5. /\ ~cycle'.charging /\ ~cycle'.full /\ ~cycle'.reset
      /\ cycle'.rest = 0 /\ cycle'.clean = 0
      /\ cycle'.absent = IF ~r.absent THEN 0 ELSE IF stamp = 0 THEN 1 ELSE stamp
  BY <1>2, <1>4 DEF Absent, Swapped, ResetCycleState, Fresh, CycleStates
<1>6. kept' = IF r.absent /\ cycle'.absent <= AbsentReset THEN kept ELSE NoneKept
  BY <1>2, <1>3, <1>4, <1>5, ImbalanceAssumption
  DEF Absent, Swapped, Reached, CycleStates
<1>7. kept.events \in Nat
  BY DEF IInv, TypeOK, KeptStates
<1>8. ~Event
  BY <1>6, <1>7 DEF Event, NoneKept
<1>9. kept'.events < kept.events => gone >= AbsentReset
  <2>1. gone < AbsentReset => stamp <= AbsentReset /\ AbsentReset >= 1
    BY <1>3, ImbalanceAssumption DEF IInv, GoneInv
  <2>2. gone < AbsentReset => kept' = kept
    <3>1. gone < AbsentReset => r.absent
      BY <1>3, <2>1, ImbalanceAssumption DEF stamp
    <3>2. gone < AbsentReset => cycle'.absent <= AbsentReset
      BY <1>3, <1>5, <2>1, <3>1, ImbalanceAssumption
    <3>. QED
      BY <1>6, <3>1, <3>2
  <2>3. gone < AbsentReset => ~(kept'.events < kept.events)
    BY <1>7, <2>2
  <2>. QED
    BY <2>3, ImbalanceAssumption DEF IInv, GoneInv
<1>10. cycle'.rest <= rested' /\ cycle'.clean <= clean'
  BY <1>5, ObserversTyped, ImbalanceAssumption
<1>. QED
  BY <1>5, <1>8, <1>9, <1>10, ObserversTyped, Zenon DEF CycleInv, CountHolds

LEMMA WatchedPassCounts ==
  ASSUME IInv, CycleInv, Told,
         NEW r \in Readings, MCEvaluate(r), r.valid, ~r.absent,
         ~(Older(cycle.absent, AbsentReset) > AbsentReset)
  PROVE  CountHolds /\ CycleInv'
<1>1. r \in ReadingStates
      /\ (r.complete => ~r.thermalRest /\ r.charging = {})
  BY ImbalanceAssumption, ReadingsAssumption DEF ReadingStates
<1>. DEFINE reset == ManualReset(Aged(cycle), r)
            c == ThermalRest(reset, r)
            charging == Charging(reset, r)
            s == [kept |-> kept, cycle |-> c]
            p == [s EXCEPT !.cycle.absent = 0]
            w == Watched(p, charging, prev, r)
            charges == r.charging # {}
<1>2. /\ reset \in CycleStates /\ c \in CycleStates
      /\ c.absent = Older(cycle.absent, AbsentReset)
      /\ c.charging = reset.charging
      /\ c.full => cycle.full /\ ~r.thermalRest
      /\ c.full => c.recorded = cycle.recorded
  BY <1>1, PausedKeeps DEF IInv
<1>3. /\ ~c.reset
      /\ c.full => c.charging = cycle.charging
      /\ \/ c.rest = 0
         \/ /\ ~cycle.reset /\ c.charging = cycle.charging
            /\ c.rest = Longer(cycle.rest, PostChargeWait)
      /\ r.thermalRest => c.rest = 0
      /\ c.clean = 0 \/ c.clean = cycle.clean
  BY <1>1, PausedCounts DEF IInv
<1>4. kept' = w.kept /\ cycle' = w.cycle
  BY <1>2 DEF MCEvaluate, Evaluate, Evaluated, Present, Reached
<1>5. /\ charging = IF r.thermalRest THEN reset.charging ELSE charges
      /\ charging \in BOOLEAN
  BY <1>1, <1>2 DEF Charging, CycleStates
<1>. HIDE DEF reset, c, charging
<1>6. /\ p \in States /\ p.kept = kept
      /\ p.cycle.charging = c.charging /\ p.cycle.reset = c.reset
      /\ p.cycle.full = c.full /\ p.cycle.recorded = c.recorded
      /\ p.cycle.rest = c.rest /\ p.cycle.clean = c.clean
  BY <1>2, StampsTyped DEF States, CycleStates, IInv, TypeOK
<1>. HIDE DEF p
<1>7. /\ w.cycle.charging = charging
      /\ w.cycle.reset = p.cycle.reset
      /\ w.cycle.full => p.cycle.full \/ (r.complete /\ ~prev)
      /\ charging /\ w.cycle.full
           => (p.cycle.charging /\ p.cycle.full) \/ r.complete
      /\ ~charging => w.cycle.rest =
                        IF p.cycle.charging THEN 0 ELSE p.cycle.rest
      /\ w.cycle.clean <= CleanAtMost(p, charging)
      /\ w.kept.events < p.kept.events
           => /\ ClosesClean(p, charging)
              /\ CleanAtMost(p, charging) >= CleanFullCycles
      /\ w.kept.events > p.kept.events
           => /\ w.cycle.full /\ ~charging /\ ~prev
              /\ w.cycle.rest >= PostChargeWait /\ w.cycle.clean = 0
  BY <1>1, <1>5, <1>6, WatchedCounts DEF IInv, TypeOK
<1>. HIDE DEF w
<1>8. Event <=> w.kept.events > kept.events
  BY <1>4 DEF Event
<1>9. /\ floated' = (~charges /\ ~r.thermalRest
                     /\ (floated \/ (r.complete /\ ~prev)))
      /\ rested' = IF charges THEN 0 ELSE Longer(rested, PostChargeWait)
      /\ clean' = IF Event THEN 0
                  ELSE IF charges /\ ~r.thermalRest /\ floated /\ seen
                  THEN Longer(clean, CleanFullCycles)
                  ELSE clean
  BY DEF MCEvaluate, Told
<1>. HIDE DEF charges
<1>10. c.full => floated /\ ~c.charging
  BY <1>2, <1>3 DEF CycleInv
<1>11. w.cycle.full => floated' /\ ~charging
  <2>1. charges <=> r.charging # {}
    BY DEF charges
  <2>2. w.cycle.full => ~charging
    BY <1>1, <1>5, <1>6, <1>7, <1>10, <2>1, Zenon
  <2>3. c.full => ~r.thermalRest
    BY <1>2
  <2>. QED
    BY <1>1, <1>5, <1>6, <1>7, <1>9, <1>10, <2>1, <2>2, <2>3, Zenon
<1>12. ~charging => w.cycle.rest <= rested'
  <2>. SUFFICES ASSUME ~charging PROVE w.cycle.rest <= rested'
    OBVIOUS
  <2>1. rested' \in 0 .. PostChargeWait
    BY ObserversTyped
  <2>2. CASE w.cycle.rest = 0
    BY <2>1, <2>2, ImbalanceAssumption
  <2>3. CASE w.cycle.rest # 0
    <3>1. /\ w.cycle.rest = c.rest /\ ~c.charging /\ c.rest # 0
      BY <1>6, <1>7, <2>3
    <3>2. /\ ~cycle.reset /\ ~cycle.charging /\ ~r.thermalRest
          /\ c.rest = Longer(cycle.rest, PostChargeWait)
      BY <1>3, <3>1
    <3>3. ~charges
      BY <1>5, <3>2
    <3>4. cycle.rest <= rested /\ cycle.rest \in 0 .. PostChargeWait
          /\ rested \in 0 .. PostChargeWait
      BY <3>2 DEF CycleInv, IInv, TypeOK, CycleStates
    <3>5. rested' = Longer(rested, PostChargeWait)
      BY <1>9, <3>3
    <3>6. Longer(cycle.rest, PostChargeWait) <= Longer(rested, PostChargeWait)
      BY <3>4, LongerGrows, ImbalanceAssumption
    <3>. QED
      BY <3>1, <3>2, <3>5, <3>6
  <2>. QED
    BY <2>2, <2>3
<1>13. ClosesClean(p, charging) => /\ charges /\ ~r.thermalRest
                                   /\ floated /\ seen /\ ~Event
  <2>. SUFFICES ASSUME ClosesClean(p, charging)
                PROVE  charges /\ ~r.thermalRest /\ floated /\ seen /\ ~Event
    OBVIOUS
  <2>1. charging /\ ~c.charging /\ c.full /\ ~c.recorded
    BY <1>6 DEF ClosesClean
  <2>2. charges /\ ~r.thermalRest
    BY <1>2, <1>5, <2>1
  <2>3. floated /\ ~Event
    BY <1>6, <1>7, <1>8, <1>10, <2>1
  <2>4. cycle.full /\ ~cycle.recorded
    BY <1>2, <2>1
  <2>5. seen
    BY <2>4 DEF IInv, ChargeInv
  <2>. QED
    BY <2>2, <2>3, <2>5
<1>14. /\ c.clean \in 0 .. CleanFullCycles /\ c.clean <= clean
       /\ clean \in 0 .. CleanFullCycles /\ clean' \in 0 .. CleanFullCycles
       /\ w.kept.events \in Nat /\ kept.events \in Nat /\ w.cycle.clean \in Nat
  <2>1. c.clean \in 0 .. CleanFullCycles
    BY <1>2 DEF CycleStates
  <2>2. clean \in 0 .. CleanFullCycles /\ cycle.clean <= clean
    BY DEF CycleInv
  <2>3. c.clean <= clean
    BY <1>3, <2>1, <2>2, ImbalanceAssumption
  <2>4. kept' \in KeptStates /\ cycle' \in CycleStates /\ kept \in KeptStates
    BY <1>1, EvaluatedTyped DEF MCEvaluate, Evaluate, IInv, TypeOK, States
  <2>. QED
    BY <1>4, <2>1, <2>2, <2>3, <2>4, ObserversTyped DEF KeptStates, CycleStates
<1>15. CASE ClosesClean(p, charging)
  <2>1. clean' = Longer(clean, CleanFullCycles)
    BY <1>9, <1>13, <1>15
  <2>2. CleanAtMost(p, charging) = Longer(c.clean, CleanFullCycles)
    BY <1>6, <1>15 DEF CleanAtMost
  <2>3. CleanAtMost(p, charging) <= clean'
    BY <1>14, <2>1, <2>2, LongerGrows, ImbalanceAssumption
  <2>. DEFINE bound == CleanAtMost(p, charging)
  <2>. HIDE DEF bound
  <2>4. bound \in Int /\ bound <= clean' /\ w.cycle.clean <= bound
        /\ (w.kept.events < kept.events => bound >= CleanFullCycles)
    BY <1>6, <1>7, <1>14, <2>2, <2>3, LongerTyped, ImbalanceAssumption DEF bound
  <2>5. w.cycle.clean <= clean'
        /\ (w.kept.events < kept.events => clean' >= CleanFullCycles)
    BY <1>14, <2>4, ImbalanceAssumption
  <2>6. ~Event
    BY <1>13, <1>15
  <2>. QED
    BY <1>3, <1>4, <1>6, <1>7, <1>11, <1>12, <2>5, <2>6, ObserversTyped, Zenon
    DEF CountHolds, CycleInv
<1>16. CASE ~ClosesClean(p, charging)
  <2>1. CleanAtMost(p, charging) = c.clean
    BY <1>6, <1>16 DEF CleanAtMost
  <2>2. ~(w.kept.events < kept.events)
    BY <1>6, <1>7, <1>16
  <2>3. w.cycle.clean <= c.clean
    BY <1>7, <2>1
  <2>4. Event => w.cycle.clean = 0 /\ clean' = 0
    BY <1>6, <1>7, <1>8, <1>9
  <2>5. ~Event => clean <= clean'
    BY <1>9, <1>14, LongerGrows, ImbalanceAssumption
  <2>6. CASE Event
    <3>1. w.cycle.clean <= clean' /\ w.cycle.rest <= rested'
          /\ w.cycle.rest >= PostChargeWait
      BY <1>6, <1>7, <1>8, <1>12, <2>4, <2>6
    <3>2. rested' >= PostChargeWait
      <4>1. w.cycle.rest \in Int
        <5>1. cycle' \in CycleStates
          BY <1>1, EvaluatedTyped DEF MCEvaluate, Evaluate, IInv, TypeOK, States
        <5>. QED
          BY <1>4, <5>1 DEF CycleStates
      <4>. QED
        BY <3>1, <4>1, ObserversTyped, ImbalanceAssumption
    <3>3. w.cycle.full /\ ~battery
      BY <1>6, <1>7, <1>8, <2>6 DEF Told
    <3>. QED
      BY <1>3, <1>4, <1>6, <1>7, <1>11, <1>12, <2>2, <3>1, <3>2, <3>3,
         ObserversTyped, Zenon
      DEF CountHolds, CycleInv
  <2>7. CASE ~Event
    <3>1. w.cycle.clean <= clean'
      BY <1>14, <2>3, <2>5, <2>7
    <3>. QED
      BY <1>3, <1>4, <1>6, <1>7, <1>11, <1>12, <2>2, <2>7, <3>1,
         ObserversTyped, Zenon
      DEF CountHolds, CycleInv
  <2>. QED
    BY <2>6, <2>7
<1>. QED
  BY <1>15, <1>16

\* The panel and the boot leave the observers no further than the module.
LEMMA RestartedCounts ==
  ASSUME NEW c \in CycleStates
  PROVE  LET d == Restarted(c)
         IN d.reset /\ ~d.full /\ d.clean = 0 /\ d.rest = c.rest
  BY DEF Restarted, CycleStates

LEMMA UnfinishedCounts ==
  ASSUME Unfinished, cycle' \in CycleStates,
         cycle'.reset \/ (~cycle'.charging /\ cycle'.rest = 0),
         ~cycle'.full, cycle'.clean = 0
  PROVE  CycleInv'
<1>1. ~cycle'.charging /\ ~cycle'.reset => cycle'.rest <= rested'
  BY DEF Unfinished
<1>2. cycle'.clean <= clean'
  BY DEF Unfinished
<1>. QED
  BY <1>1, <1>2, StampsTyped DEF Unfinished, CycleInv

LEMMA PanelCounts ==
  ASSUME IInv, CycleInv, PanelRestarts \/ PanelCycles
  PROVE  CountHolds /\ CycleInv'
<1>1. /\ kept \in KeptStates /\ cycle \in CycleStates /\ kept.events \in Nat
  BY DEF IInv, TypeOK, KeptStates
<1>2. cycle' = cycle \/ cycle' = Restarted(cycle)
  BY DEF PanelRestarts, PanelCycles, SetEvents, SetLatch, SetCycles
<1>3. cycle' \in CycleStates /\ (cycle' = cycle \/ cycle'.reset)
      /\ (cycle'.reset => ~cycle'.full /\ cycle'.clean = 0)
  BY <1>1, <1>2, ResetTyped, RestartedCounts DEF CycleInv
<1>4. /\ kept'.events > kept.events => FALSE
      /\ kept'.events < kept.events => SetEvents(0)
  BY <1>1
  DEF PanelRestarts, PanelCycles, SetEvents, SetLatch, SetCycles, KeptStates
<1>5. CASE PanelRestarts /\ cycle'.reset
  <2>1. Unfinished
    BY <1>5 DEF PanelRestarts
  <2>. QED
    BY <1>3, <1>4, <1>5, <2>1, UnfinishedCounts DEF CountHolds, Event
<1>6. CASE PanelCycles \/ ~cycle'.reset
  <2>1. UNCHANGED <<floated, rested, clean>>
    BY <1>6 DEF PanelRestarts, PanelCycles, observers
  <2>2. cycle' = cycle
    BY <1>3, <1>6 DEF PanelCycles, SetCycles
  <2>3. CycleInv'
    BY <2>1, <2>2 DEF CycleInv
  <2>. QED
    BY <1>4, <2>3 DEF CountHolds, Event
<1>. QED
  BY <1>5, <1>6

LEMMA StartCounts ==
  ASSUME NEW c \in {Fresh, Restarted(Fresh)}
  PROVE  c \in CycleStates /\ ~c.charging /\ c.rest = 0 /\ ~c.full /\ c.clean = 0
<1>1. Fresh.rest = 0 /\ Fresh.clean = 0 /\ ~Fresh.charging /\ ~Fresh.full
  BY DEF Fresh
<1>. QED
  BY <1>1, FreshTyped, ResetTyped, FreshStarts, RestartedCounts

LEMMA StepCounts ==
  ASSUME IInv, CycleInv, Told, [MCNext]_mcvars
  PROVE  [CountHolds]_mcvars /\ CycleInv' /\ Told'
<1>. SUFFICES [CountHolds]_mcvars /\ CycleInv'
  BY ToldStep
<1>1. ASSUME NEW r \in Readings, MCEvaluate(r)
      PROVE  CountHolds /\ CycleInv'
  BY <1>1, BlindCounts, DroppedCounts, WatchedPassCounts
<1>2. CASE PanelRestarts \/ PanelCycles
  BY <1>2, PanelCounts
<1>3. CASE Reboot
  <2>1. kept' = kept /\ cycle' \in {Fresh, Restarted(Fresh)} /\ Unfinished
    BY <1>3 DEF Reboot, Boot
  <2>2. CycleInv'
    BY <2>1, StartCounts, UnfinishedCounts
  <2>3. kept.events \in Nat
    BY DEF IInv, TypeOK, KeptStates
  <2>4. CountHolds
    BY <2>1, <2>3 DEF CountHolds, Event
  <2>. QED
    BY <2>2, <2>4
<1>4. CASE UNCHANGED mcvars
  BY <1>4 DEF mcvars, vars, observers, CycleInv
<1>. QED
  BY <1>1, <1>2, <1>3, <1>4 DEF MCNext

LEMMA CountsHold == MCSpec => [](CycleInv /\ Told)
<1>1. ASSUME MCInit PROVE CycleInv /\ Told
  <2>1. /\ cycle \in {Fresh, Restarted(Fresh)}
        /\ floated = FALSE /\ rested = 0 /\ clean = 0
    BY <1>1 DEF MCInit, Init
  <2>2. /\ ~cycle.charging /\ cycle.rest = 0 /\ ~cycle.full /\ cycle.clean = 0
    BY <2>1, StartCounts
  <2>3. cycle.rest <= rested /\ cycle.clean <= clean
    BY <2>1, <2>2
  <2>4. Told
    BY <1>1 DEF MCInit, Init, Told
  <2>. QED
    BY <2>1, <2>2, <2>3, <2>4, StampsTyped DEF CycleInv
<1>. QED
  BY <1>1, InvHolds, StepCounts, PTL DEF MCSpec

(* The commit: an event counts only in a cycle whose full charge on mains  *)
(* nothing disqualified, after a whole rest since the charger was last     *)
(* seen charging, and at the latest in the first pass on battery.          *)
THEOREM EventsAreConfirmed == MCSpec => EventIsConfirmed
<1>1. IInv /\ CycleInv /\ Told /\ [MCNext]_mcvars =>
        [Event => /\ floated \/ floated'
                  /\ ~battery
                  /\ rested' >= PostChargeWait]_mcvars
  BY StepCounts DEF CountHolds
<1>. QED
  BY <1>1, InvHolds, CountsHold, PTL DEF MCSpec, EventIsConfirmed

(* The clean-cycle rule: the stored events fall only to a swap, to the     *)
(* panel, or to as many full charges in a row without an event as the      *)
(* parameter asks.                                                         *)
THEOREM EventsAreForgiven == MCSpec => EventsAreForgivenByCleanCycles
<1>1. IInv /\ CycleInv /\ Told /\ [MCNext]_mcvars =>
        [kept'.events < kept.events
           => \/ gone >= AbsentReset \/ clean' >= CleanFullCycles
              \/ SetEvents(0)]_mcvars
  BY StepCounts DEF CountHolds
<1>. QED
  BY <1>1, InvHolds, CountsHold, PTL DEF MCSpec, EventsAreForgivenByCleanCycles
=============================================================================
