------------------------- MODULE SupervisionProofs -------------------------
(***************************************************************************)
(* The supervision's types, the bound of a hung task's silence, and the    *)
(* account of the ADC's outages across the resets, for every set of tasks, *)
(* every clock and every timeout.                                          *)
(***************************************************************************)
EXTENDS MCSupervision, TLAPS

LEMMA SmallModulus ==
  ASSUME NEW n \in Nat, n < Clock PROVE n % Clock = n
  BY SupervisionAssumption, SMT

LEMMA ModulusInRange ==
  ASSUME NEW n \in Int PROVE n % Clock \in 0 .. Clock - 1
  BY SupervisionAssumption, SMT

-----------------------------------------------------------------------------
(* Types.                                                                  *)

LEMMA OlderInRange ==
  ASSUME NEW limit \in Nat, NEW stamp \in 0 .. limit + 1
  PROVE  Older(stamp, limit) \in 0 .. limit + 1
  BY DEF Older

LEMMA AsleepTyped == Asleep \in AdcStates
  BY SupervisionAssumption DEF Asleep, AdcStates

LEMMA MeasuredTyped ==
  ASSUME adc \in AdcStates, NEW frame \in Frames
  PROVE  Measured(frame) \in AdcStates
<1>. DEFINE warm == IF adc.warm < Warmup THEN adc.warm + 1 ELSE Warmup
<1>1. warm \in 0 .. Warmup
  BY SupervisionAssumption DEF AdcStates
<1>2. adc.running \in BOOLEAN /\ adc.latched \in BOOLEAN /\ 0 \in 0 .. Warmup
  BY SupervisionAssumption DEF AdcStates
<1>3. (adc.running /\ (adc.latched \/ frame # "stopped")) \in BOOLEAN
  BY <1>2
<1>4. (warm = Warmup) \in BOOLEAN
  OBVIOUS
<1>. HIDE DEF warm
<1>5. [adc EXCEPT !.warm = 0, !.valid = FALSE,
         !.running = @ /\ (adc.latched \/ frame # "stopped")] \in AdcStates
  BY <1>2, <1>3 DEF AdcStates
<1>6. [adc EXCEPT !.warm = warm, !.valid = warm = Warmup] \in AdcStates
  BY <1>1, <1>4 DEF AdcStates
<1>. QED
  BY <1>5, <1>6 DEF Measured, warm

LEMMA StalledTyped ==
  ASSUME NEW a \in AdcStates PROVE Stalled(a) \in AdcStates
<1>0. 0 \in 0 .. Window + 1 /\ 1 \in 0 .. Window + 1 /\ 0 \in 0 .. Retry
  BY SupervisionAssumption
<1>1. [a EXCEPT !.healthy = 0] \in AdcStates
  BY <1>0 DEF AdcStates
<1>2. [a EXCEPT !.healthy = 0, !.stall = 1, !.retried = FALSE, !.recover = 0]
        \in AdcStates
  BY <1>0 DEF AdcStates
<1>. QED
  BY <1>1, <1>2 DEF Stalled

LEMMA SupervisedTyped ==
  ASSUME NEW a \in AdcStates, NEW started \in BOOLEAN
  PROVE  Supervised(a, started) \in AdcStates
<1>. DEFINE kept == [a EXCEPT !.stall = 0, !.retried = FALSE]
<1>0. 0 \in 0 .. Window + 1 /\ 1 \in 0 .. Window + 1 /\ 0 \in 0 .. Retry
  BY SupervisionAssumption
<1>1. Healthy(a) \in AdcStates
  <2>1. kept \in AdcStates
    BY <1>0 DEF AdcStates
  <2>. HIDE DEF kept
  <2>2. [kept EXCEPT !.healthy = 1] \in AdcStates
    BY <1>0, <2>1 DEF AdcStates
  <2>3. [kept EXCEPT !.used = FALSE, !.healthy = 0] \in AdcStates
    BY <1>0, <2>1 DEF AdcStates
  <2>. QED
    BY <2>1, <2>2, <2>3 DEF Healthy, kept
<1>2. Stalled(a) \in AdcStates
  BY StalledTyped
<1>3. [Stalled(a) EXCEPT !.latched = TRUE] \in AdcStates
  BY <1>2 DEF AdcStates
<1>4. Recovered(Stalled(a), started) \in AdcStates
  <2>. DEFINE b == Stalled(a)
  <2>1. b \in AdcStates
    BY <1>2
  <2>. HIDE DEF b
  <2>2. [b EXCEPT !.retried = TRUE, !.recover = 0, !.running = started]
          \in AdcStates
    BY <1>0, <2>1 DEF AdcStates
  <2>. QED
    BY <2>1, <2>2 DEF Recovered, b
<1>. QED
  BY <1>1, <1>3, <1>4 DEF Supervised

LEMMA TickTyped ==
  ASSUME TypeOK, Tick PROVE TypeOK'
<1>1. adc' \in AdcStates
  <2>1. Older(adc.stall, Window) \in 0 .. Window + 1
    BY OlderInRange, SupervisionAssumption DEF TypeOK, AdcStates
  <2>2. Older(adc.healthy, Window) \in 0 .. Window + 1
    BY OlderInRange, SupervisionAssumption DEF TypeOK, AdcStates
  <2>3. (IF adc.recover < Retry THEN adc.recover + 1 ELSE adc.recover)
          \in 0 .. Retry
    BY SupervisionAssumption DEF TypeOK, AdcStates
  <2>. QED
    BY <2>1, <2>2, <2>3 DEF TypeOK, Tick, AdcStates
<1>2. age' \in [Slots -> 0 .. Clock - 1]
  <2>1. \A s \in Slots : (age[s] + 1) % Clock \in 0 .. Clock - 1
    BY ModulusInRange, SupervisionAssumption DEF TypeOK
  <2>. QED
    BY <2>1 DEF Tick
<1>3. dog' \in 0 .. Reload /\ poll' \in NoPoll .. Slice
  BY SupervisionAssumption DEF TypeOK, Tick, NoPoll
<1>. QED
  BY <1>1, <1>2, <1>3 DEF TypeOK, Tick

LEMMA BootsTyped ==
  ASSUME Boots
  PROVE  /\ adc' \in AdcStates /\ dog' \in 0 .. Reload
         /\ age' \in [Slots -> 0 .. Clock - 1] /\ poll' \in NoPoll .. Slice
  BY AsleepTyped, SupervisionAssumption DEF Boots, NoPoll

LEMMA CheckedInTyped ==
  ASSUME TypeOK, NEW s \in Slots, CheckedIn(s)
  PROVE  age' \in [Slots -> 0 .. Clock - 1]
  BY SupervisionAssumption DEF TypeOK, CheckedIn

LEMMA StepTyped ==
  ASSUME TypeOK, [Next]_vars PROVE TypeOK'
<1>1. CASE Tick
  BY <1>1, TickTyped
<1>2. CASE WatchdogReset
  BY <1>2, BootsTyped DEF WatchdogReset, TypeOK
<1>3. CASE PowerCycle
  BY <1>3, BootsTyped DEF PowerCycle, TypeOK, Sources
<1>4. CASE PanelReset
  BY <1>4, BootsTyped DEF PanelReset, TypeOK, Sources
<1>5. ASSUME NEW ok \in BOOLEAN, Start(ok) PROVE TypeOK'
  <2>1. WasRecoveryReset \in BOOLEAN
    BY DEF WasRecoveryReset, TypeOK
  <2>2. adc' \in AdcStates
    BY <1>5, <2>1, AsleepTyped DEF Start, AdcStates
  <2>3. marks' \in [cookie : BOOLEAN, flags : SUBSET Sources]
    BY <1>5 DEF Start
  <2>. QED
    BY <1>5, <2>2, <2>3 DEF Start, TypeOK
<1>6. ASSUME NEW ok \in BOOLEAN, NEW frame \in Frames,
             MeasurementPass(frame, ok)
      PROVE TypeOK'
  <2>1. adc' \in AdcStates
    BY <1>6, MeasuredTyped, SupervisedTyped DEF MeasurementPass, TypeOK
  <2>2. age' \in [Slots -> 0 .. Clock - 1]
    BY <1>6, CheckedInTyped, SupervisionAssumption DEF MeasurementPass
  <2>. QED
    BY <1>6, <2>1, <2>2 DEF MeasurementPass, TypeOK
<1>7. ASSUME NEW frame \in Frames, RecoveryReset(frame) PROVE TypeOK'
  BY <1>7, BootsTyped DEF RecoveryReset, TypeOK, Sources
<1>8. ASSUME NEW s \in Slots, OtherTask(s) PROVE TypeOK'
  BY <1>8, CheckedInTyped DEF OtherTask, TypeOK
<1>9. CASE ReadClock
  BY <1>9, SupervisionAssumption DEF ReadClock, TypeOK, NoPoll
<1>10. CASE PollKick
  BY <1>10, SupervisionAssumption DEF PollKick, TypeOK, NoPoll
<1>11. CASE UNCHANGED vars
  BY <1>11 DEF vars, TypeOK
<1>. QED
  BY <1>1, <1>2, <1>3, <1>4, <1>5, <1>6, <1>7, <1>8, <1>9, <1>10, <1>11
  DEF Next

LEMMA InitTyped ==
  ASSUME Init PROVE TypeOK
  BY AsleepTyped, SupervisionAssumption DEF Init, TypeOK, Sources, NoPoll

(* Every variable stays in its type, whatever resets the board: the ages   *)
(* stay within the clock, the supervisor's stamps within their windows.    *)
THEOREM SupervisionTypeCorrect == Spec => []TypeOK
<1>. QED
  BY InitTyped, StepTyped, PTL DEF Spec
-----------------------------------------------------------------------------
(* The silence of a task and the watchdog's countdown share one bound.     *)

Bound == Stale + Slice + Reload - 1
SilenceBounded == \A s \in Slots : age[s] + dog <= Bound

\* A poll that feeds the watchdog has just seen every task.
LEMMA FreshIsRecent ==
  ASSUME TypeOK, poll # NoPoll, NEW s \in Slots, Silence(s) < Stale
  PROVE  age[s] <= Stale + Slice - 1
<1>1. age[s] \in 0 .. Clock - 1 /\ poll \in 0 .. Slice
  BY SupervisionAssumption DEF TypeOK, NoPoll
<1>2. CASE age[s] >= poll
  <2>1. Silence(s) = age[s] - poll
    BY <1>1, <1>2, SmallModulus, SupervisionAssumption DEF Silence
  <2>. QED
    BY <1>1, <2>1, SupervisionAssumption
<1>3. CASE age[s] < poll
  BY <1>1, <1>3, SupervisionAssumption
<1>. QED
  BY <1>1, <1>2, <1>3

LEMMA BootIsBounded ==
  ASSUME Boots PROVE SilenceBounded'
  BY SupervisionAssumption DEF Boots, SilenceBounded, Bound

LEMMA CheckInIsBounded ==
  ASSUME TypeOK, SilenceBounded, NEW s \in Slots, CheckedIn(s), dog' = dog
  PROVE  SilenceBounded'
<1>. SUFFICES ASSUME NEW t \in Slots PROVE age'[t] + dog' <= Bound
  BY DEF SilenceBounded, Bound
<1>1. age'[t] = IF t = s THEN 0 ELSE age[t]
  BY DEF CheckedIn, TypeOK
<1>. QED
  BY <1>1, SupervisionAssumption DEF SilenceBounded, Bound, TypeOK

LEMMA StepBounded ==
  ASSUME TypeOK, SilenceBounded, [Next]_vars PROVE SilenceBounded'
<1>1. CASE Tick
  <2>. SUFFICES ASSUME NEW s \in Slots PROVE age'[s] + dog' <= Bound
    BY DEF SilenceBounded, Bound
  <2>1. age[s] \in Nat /\ dog \in Nat /\ dog > 0 /\ age[s] + dog <= Bound
    BY <1>1 DEF TypeOK, SilenceBounded, Tick
  <2>2. age[s] + 1 < Clock
    BY <2>1, SupervisionAssumption DEF Bound
  <2>3. age'[s] = age[s] + 1
    BY <1>1, <2>1, <2>2, SmallModulus DEF Tick
  <2>. QED
    BY <1>1, <2>1, <2>3 DEF Tick, Bound
<1>2. CASE WatchdogReset
  BY <1>2, BootIsBounded DEF WatchdogReset
<1>3. CASE PowerCycle
  BY <1>3, BootIsBounded DEF PowerCycle
<1>4. CASE PanelReset
  BY <1>4, BootIsBounded DEF PanelReset
<1>5. ASSUME NEW ok \in BOOLEAN, Start(ok) PROVE SilenceBounded'
  BY <1>5 DEF Start, SilenceBounded, Bound
<1>6. ASSUME NEW ok \in BOOLEAN, NEW frame \in Frames,
             MeasurementPass(frame, ok)
      PROVE SilenceBounded'
  BY <1>6, CheckInIsBounded, SupervisionAssumption DEF MeasurementPass
<1>7. ASSUME NEW frame \in Frames, RecoveryReset(frame) PROVE SilenceBounded'
  BY <1>7, BootIsBounded DEF RecoveryReset
<1>8. ASSUME NEW s \in Slots, OtherTask(s) PROVE SilenceBounded'
  BY <1>8, CheckInIsBounded DEF OtherTask
<1>9. CASE ReadClock
  BY <1>9 DEF ReadClock, SilenceBounded, Bound
<1>10. CASE PollKick
  <2>. SUFFICES ASSUME NEW s \in Slots PROVE age'[s] + dog' <= Bound
    BY DEF SilenceBounded, Bound
  <2>1. CASE \A t \in Slots : Silence(t) < Stale
    <3>1. age[s] <= Stale + Slice - 1
      BY <1>10, <2>1, FreshIsRecent DEF PollKick
    <3>2. dog' = Reload /\ age' = age
      BY <1>10, <2>1 DEF PollKick
    <3>. QED
      BY <3>1, <3>2, SupervisionAssumption DEF Bound, TypeOK
  <2>2. CASE ~\A t \in Slots : Silence(t) < Stale
    BY <1>10, <2>2 DEF PollKick, SilenceBounded, Bound
  <2>. QED
    BY <2>1, <2>2
<1>11. CASE UNCHANGED vars
  BY <1>11 DEF vars, SilenceBounded, Bound
<1>. QED
  BY <1>1, <1>2, <1>3, <1>4, <1>5, <1>6, <1>7, <1>8, <1>9, <1>10, <1>11
  DEF Next

LEMMA InitBounded ==
  ASSUME Init PROVE SilenceBounded
<1>. SUFFICES ASSUME NEW s \in Slots PROVE age[s] + dog <= Bound
  BY DEF SilenceBounded, Bound
<1>1. age[s] = 0 /\ dog = Reload
  BY DEF Init
<1>. QED
  BY <1>1, SupervisionAssumption DEF Bound

LEMMA BoundedIsReset ==
  ASSUME TypeOK, SilenceBounded PROVE HungTaskIsReset
<1>. SUFFICES ASSUME NEW s \in Slots PROVE age[s] < Stale + Slice + Reload
  BY DEF HungTaskIsReset
<1>1. age[s] \in Nat /\ dog \in Nat /\ age[s] + dog <= Bound
  BY DEF TypeOK, SilenceBounded
<1>. QED
  BY <1>1, SupervisionAssumption DEF Bound

(* BspIwdg_PollKick: whatever the other tasks do and wherever the control  *)
(* task is delayed, no task is silent for Stale + Slice + Reload: the      *)
(* board is reset before.                                                  *)
THEOREM HungTasksAreReset == Spec => []HungTaskIsReset
<1>. QED
  BY SupervisionTypeCorrect, InitBounded, StepBounded, BoundedIsReset, PTL
  DEF Spec
-----------------------------------------------------------------------------
(* The outages: what the observers of MCSupervision count, and the state   *)
(* of the supervisor it must agree with.                                   *)

ObserversOK ==
  /\ budget \in BOOLEAN
  /\ sound \in 0 .. Window + 1
  /\ dark \in 0 .. Window
  /\ blind \in Nat
  /\ polled \in 0 .. Reload

\* The reset is spent: the running supervisor knows it, a booting one will.
Spent == IF adc.ready THEN adc.used ELSE WasRecoveryReset

\* Before its start the supervisor remembers nothing; after it, the marks are
\* consumed.
StartedOnce ==
  IF adc.ready THEN ~marks.cookie /\ marks.flags = {}
  ELSE /\ ~adc.used /\ ~adc.latched /\ ~adc.valid
       /\ adc.stall = 0 /\ adc.healthy = 0 /\ sound = 0
       /\ marks.cookie => marks.flags # {}

\* The supervisor's sound minute is the observer's, as long as it counts one.
SoundAgrees ==
  /\ adc.ready /\ adc.used => adc.healthy = sound
  /\ adc.latched => adc.healthy = 0

\* A stall is no older than the darkness.
StallIsDark == adc.stall <= dark + 1

\* The passes of this window's outage: those before the reset are Window + 1.
BlindBase == IF Spent THEN Window + 1 ELSE 0

\* Every pass of an outage finds the stall a tick older than the last.
BlindCounted ==
  ~adc.latched =>
    /\ blind <= BlindBase + Window
    /\ adc.stall = 0 => blind <= BlindBase
    /\ adc.stall # 0 =>
         IF age["measurement"] = 0 THEN blind <= BlindBase + adc.stall
                                   ELSE blind < BlindBase + adc.stall

OutageInv ==
  /\ StartedOnce
  /\ budget <=> ~Spent
  /\ SoundAgrees
  /\ StallIsDark
  /\ BlindCounted

\* A poll that found every task fresh fed the watchdog.
PolledFeeds == dog + polled >= Reload
-----------------------------------------------------------------------------
(* What a pass makes of the supervisor's fields.                           *)

LEMMA MeasuredKeeps ==
  ASSUME adc \in AdcStates, NEW frame \in Frames
  PROVE  /\ \A f \in {"ready", "stall", "healthy", "used", "latched"} :
              Measured(frame)[f] = adc[f]
         /\ Measured(frame).valid => ~adc.latched
  BY DEF Measured, AdcStates

LEMMA ValidPass ==
  ASSUME NEW a \in AdcStates, NEW started \in BOOLEAN, ~a.latched, a.valid
  PROVE  LET b == Supervised(a, started)
         IN /\ b.ready = a.ready /\ b.valid /\ ~b.latched /\ b.stall = 0
            /\ ~a.used => ~b.used
            /\ a.used =>
                 IF a.healthy > Window THEN ~b.used
                 ELSE b.used /\ b.healthy = IF a.healthy = 0 THEN 1 ELSE a.healthy
<1>1. Supervised(a, started) = Healthy(a)
  BY DEF Supervised
<1>. QED
  BY <1>1, SupervisionAssumption DEF Healthy, AdcStates

LEMMA DarkPass ==
  ASSUME NEW a \in AdcStates, NEW started \in BOOLEAN, ~a.latched, ~a.valid
  PROVE  LET b == Supervised(a, started)
         IN /\ b.ready = a.ready /\ ~b.valid /\ b.healthy = 0 /\ b.used = a.used
            /\ b.stall = IF a.stall = 0 THEN 1 ELSE a.stall
            /\ b.latched <=> GivesUp(a)
            /\ GivesUp(a) <=> b.stall > Window
<1>. DEFINE c == Stalled(a)
<1>1. /\ c.ready = a.ready /\ ~c.valid /\ c.healthy = 0 /\ c.used = a.used
      /\ c.stall = IF a.stall = 0 THEN 1 ELSE a.stall
      /\ ~c.latched
  BY SupervisionAssumption DEF Stalled, AdcStates
<1>a. c \in AdcStates
  BY StalledTyped
<1>2. GivesUp(a) <=> c.stall > Window
  BY DEF GivesUp
<1>3. Supervised(a, started) = IF GivesUp(a) THEN [c EXCEPT !.latched = TRUE]
                               ELSE Recovered(c, started)
  BY DEF Supervised
<1>. HIDE DEF c
<1>4. CASE GivesUp(a)
  BY <1>a, <1>1, <1>2, <1>3, <1>4 DEF AdcStates
<1>5. CASE ~GivesUp(a)
  BY <1>a, <1>1, <1>2, <1>3, <1>5 DEF AdcStates, Recovered
<1>. QED
  BY <1>4, <1>5

LEMMA LatchedPass ==
  ASSUME NEW a \in AdcStates, NEW started \in BOOLEAN, a.latched
  PROVE  Supervised(a, started) = a
  BY DEF Supervised
-----------------------------------------------------------------------------
(* Every step of the observed supervision keeps the invariant.             *)

MCIInv == TypeOK /\ ObserversOK /\ OutageInv /\ PolledFeeds

LEMMA StepIsNext ==
  ASSUME [MCNext]_mcvars PROVE [Next]_vars
  BY DEF MCNext, mcvars, MCTick, OtherReset, MCRecoveryReset,
         MCMeasurementPass, MCPollKick, Next, vars

LEMMA ObserversTyped ==
  ASSUME TypeOK, ObserversOK, [MCNext]_mcvars PROVE ObserversOK'
<1>0. adc.valid \in BOOLEAN /\ WasRecoveryReset \in BOOLEAN
  BY DEF TypeOK, AdcStates, WasRecoveryReset
<1>1. CASE MCTick
  <2>1. Older(sound, Window) \in 0 .. Window + 1
    BY OlderInRange, SupervisionAssumption DEF ObserversOK
  <2>2. Capped(dark, Window) \in 0 .. Window
    BY SupervisionAssumption DEF ObserversOK, Capped
  <2>3. Capped(polled, Reload) \in 0 .. Reload
    BY SupervisionAssumption DEF ObserversOK, Capped
  <2>. QED
    BY <1>1, <2>1, <2>2, <2>3 DEF MCTick, ObserversOK
<1>2. CASE OtherReset
  <2>1. 0 \in 0 .. Window + 1 /\ 0 \in 0 .. Window /\ 0 \in 0 .. Reload /\ 0 \in Nat
    BY SupervisionAssumption
  <2>2. budget' \in BOOLEAN
    BY <1>2, Zenon DEF OtherReset
  <2>3. sound' = 0 /\ dark' = 0 /\ blind' = 0 /\ polled' = 0
    BY <1>2 DEF OtherReset
  <2>4. /\ sound' \in 0 .. Window + 1 /\ dark' \in 0 .. Window
        /\ blind' \in Nat /\ polled' \in 0 .. Reload
    BY <2>1, <2>3, SupervisionAssumption
  <2>. QED
    BY <2>2, <2>4, Zenon DEF ObserversOK
<1>3. CASE MCRecoveryReset
  <2>1. blind' \in Nat
    BY <1>3, SupervisionAssumption
    DEF MCRecoveryReset, ObserversOK, Capped, LongestBlind
  <2>2. budget' = FALSE /\ sound' = 0 /\ dark' = 0 /\ polled' = 0
    BY <1>3 DEF MCRecoveryReset
  <2>3. /\ sound' \in 0 .. Window + 1 /\ dark' \in 0 .. Window
        /\ polled' \in 0 .. Reload
    BY <2>2, SupervisionAssumption
  <2>4. budget' \in BOOLEAN
    BY <2>2, Zenon
  <2>. QED
    BY <2>1, <2>3, <2>4, Zenon DEF ObserversOK
<1>4. CASE MCMeasurementPass
  <2>1. Capped(blind, LongestBlind + 1) \in Nat
    BY SupervisionAssumption DEF Capped, LongestBlind, ObserversOK
  <2>. QED
    BY <1>4, <2>1, SupervisionAssumption DEF MCMeasurementPass, ObserversOK
<1>5. CASE MCPollKick
  BY <1>5, SupervisionAssumption DEF MCPollKick, ObserversOK
<1>6. CASE UNCHANGED <<budget, sound, dark, blind, polled>>
  BY <1>6 DEF ObserversOK
<1>. QED
  BY <1>1, <1>2, <1>3, <1>4, <1>5, <1>6 DEF MCNext, mcvars

\* A boot that finds the marks as Spent says keeps the outage's account.
LEMMA BootKeeps ==
  ASSUME TypeOK', ObserversOK', Boots, sound' = 0,
         marks'.cookie => marks'.flags # {},
         budget' <=> ~WasRecoveryReset',
         blind' <= IF WasRecoveryReset' THEN Window + 1 ELSE 0
  PROVE  OutageInv'
<1>1. adc' = Asleep
  BY DEF Boots
<1>2. StartedOnce'
  BY <1>1 DEF StartedOnce, Asleep
<1>3. Spent' = WasRecoveryReset'
  BY <1>1 DEF Spent, Asleep
<1>a. adc'.stall = 0 /\ adc'.healthy = 0 /\ ~adc'.latched
  BY <1>1 DEF Asleep
<1>4. SoundAgrees' /\ StallIsDark'
  <2>1. SoundAgrees'
    BY <1>a DEF SoundAgrees
  <2>2. StallIsDark'
    BY <1>a, SupervisionAssumption DEF StallIsDark, ObserversOK
  <2>. QED
    BY <2>1, <2>2
<1>5. BlindCounted'
  BY <1>1, <1>3, SupervisionAssumption
  DEF BlindCounted, BlindBase, Asleep, ObserversOK
<1>. QED
  BY <1>2, <1>3, <1>4, <1>5 DEF OutageInv

LEMMA TickKeeps ==
  ASSUME MCIInv, TypeOK', MCTick PROVE OutageInv'
<1>. USE DEF MCIInv
<1>0. /\ adc \in AdcStates /\ adc' \in AdcStates
      /\ sound \in Nat /\ dark \in Nat /\ blind \in Nat
  BY SupervisionAssumption DEF TypeOK, ObserversOK
<1>1. /\ adc'.ready = adc.ready /\ adc'.used = adc.used
      /\ adc'.latched = adc.latched /\ adc'.valid = adc.valid
      /\ adc'.stall = Older(adc.stall, Window)
      /\ adc'.healthy = Older(adc.healthy, Window)
  BY <1>0 DEF MCTick, Tick, AdcStates
<1>2. sound' = Older(sound, Window) /\ dark' = Capped(dark, Window)
      /\ UNCHANGED <<budget, blind, marks>>
  BY DEF MCTick, Tick
<1>3. StartedOnce'
  BY <1>1, <1>2, SupervisionAssumption
  DEF OutageInv, StartedOnce, Older
<1>4. Spent' = Spent /\ BlindBase' = BlindBase
  BY <1>1, <1>2 DEF Spent, WasRecoveryReset, BlindBase
<1>5. SoundAgrees'
  BY <1>1, <1>2 DEF OutageInv, SoundAgrees, Older
<1>6. adc.stall \in 0 .. Window + 1 /\ adc'.stall \in 0 .. Window + 1
  BY <1>0 DEF AdcStates
<1>7. StallIsDark'
  BY <1>1, <1>2, <1>6, SupervisionAssumption
  DEF OutageInv, StallIsDark, Older, Capped, ObserversOK
<1>8. BlindCounted'
  <2>1. BlindBase \in Nat
    BY SupervisionAssumption DEF BlindBase
  <2>. SUFFICES ASSUME ~adc.latched
       PROVE  /\ blind <= BlindBase + Window
              /\ adc'.stall = 0 => blind <= BlindBase
              /\ adc'.stall # 0 => blind < BlindBase + adc'.stall
    BY <1>0, <1>1, <1>2, <1>4, <1>6, <2>1, SupervisionAssumption
    DEF BlindCounted
  <2>. QED
    BY <1>0, <1>1, <1>6, <2>1, SupervisionAssumption
    DEF OutageInv, BlindCounted, Older
<1>. QED
  BY <1>2, <1>3, <1>4, <1>5, <1>7, <1>8 DEF OutageInv

LEMMA OtherResetKeeps ==
  ASSUME MCIInv, TypeOK', ObserversOK', OtherReset PROVE OutageInv'
<1>. USE DEF MCIInv
<1>1. Boots /\ sound' = 0 /\ blind' = 0
  BY DEF OtherReset, WatchdogReset, PanelReset, PowerCycle
<1>2. marks.cookie \in BOOLEAN /\ marks'.cookie \in BOOLEAN /\ budget \in BOOLEAN
  BY DEF TypeOK, ObserversOK
<1>3. budget' <=> ~WasRecoveryReset'
  <2>0. budget' <=> budget \/ ~marks.cookie \/ "power" \in marks'.flags
    BY Zenon DEF OtherReset
  <2>1. ~adc.ready => (budget <=> ~WasRecoveryReset)
    BY DEF OutageInv, Spent
  <2>2. adc.ready => ~marks.cookie
    BY DEF OutageInv, StartedOnce
  <2>3. CASE PowerCycle
    <3>1. "power" \in marks'.flags
      BY <2>3 DEF PowerCycle
    <3>. QED
      BY <2>0, <3>1, Zenon DEF WasRecoveryReset
  <2>4. CASE WatchdogReset
    BY <1>2, <2>0, <2>1, <2>2, <2>4 DEF WatchdogReset, WasRecoveryReset
  <2>5. CASE PanelReset
    <3>1. marks'.cookie = marks.cookie
          /\ marks'.flags = marks.flags \cup {"software"}
      BY <2>5 DEF PanelReset, TypeOK
    <3>2. "power" \in marks'.flags <=> "power" \in marks.flags
      BY <3>1
    <3>3. "software" \in marks'.flags
      BY <3>1
    <3>4. WasRecoveryReset' <=> marks.cookie /\ "power" \notin marks.flags
      BY <3>1, <3>2, <3>3 DEF WasRecoveryReset
    <3>5. WasRecoveryReset => marks.cookie /\ "power" \notin marks.flags
      BY Zenon DEF WasRecoveryReset
    <3>6. budget => ~marks.cookie \/ "power" \in marks.flags
      <4>1. marks.cookie => marks.flags # {}
        BY <2>2 DEF OutageInv, StartedOnce
      <4>2. marks.flags \subseteq {"power", "software"}
        BY DEF TypeOK, Sources
      <4>3. budget /\ marks.cookie => ~WasRecoveryReset
        BY <2>1, <2>2, Zenon
      <4>. QED
        BY <4>1, <4>2, <4>3 DEF WasRecoveryReset
    <3>. QED
      BY <2>0, <3>2, <3>4, <3>5, <3>6, Zenon
  <2>. QED
    BY <2>3, <2>4, <2>5 DEF OtherReset
<1>4. marks'.cookie => marks'.flags # {}
  <2>1. marks.cookie => marks.flags # {}
    BY DEF OutageInv, StartedOnce
  <2>. QED
    BY <2>1 DEF OtherReset, WatchdogReset, PowerCycle, PanelReset, TypeOK
<1>. QED
  BY <1>1, <1>3, <1>4, BootKeeps, SupervisionAssumption

LEMMA RecoveryResetKeeps ==
  ASSUME MCIInv, TypeOK', ObserversOK', MCRecoveryReset PROVE OutageInv'
<1>. USE DEF MCIInv
<1>1. PICK frame \in Frames : RecoveryReset(frame)
  BY DEF MCRecoveryReset
<1>2. Boots /\ sound' = 0 /\ ~budget'
      /\ marks' = [cookie |-> TRUE, flags |-> marks.flags \cup {"software"}]
      /\ adc.ready /\ ~adc.used
  BY <1>1 DEF MCRecoveryReset, RecoveryReset, Due
<1>3. marks.flags = {}
  BY <1>2 DEF OutageInv, StartedOnce
<1>4. WasRecoveryReset'
  BY <1>2, <1>3 DEF WasRecoveryReset
<1>5. blind' <= Window + 1
  <2>1. ~adc.latched
    <3>1. GivesUp(Measured(frame)) /\ adc \in AdcStates
      BY <1>1 DEF RecoveryReset, TypeOK
    <3>. QED
      BY <3>1, MeasuredKeeps DEF GivesUp
  <2>2. BlindBase = 0
    BY <1>2 DEF BlindBase, Spent
  <2>3. blind \in Nat /\ blind <= Window
    BY <2>1, <2>2, SupervisionAssumption DEF OutageInv, BlindCounted, ObserversOK
  <2>. QED
    BY <2>3, SupervisionAssumption DEF MCRecoveryReset, Capped, LongestBlind
<1>. QED
  BY <1>2, <1>4, <1>5, BootKeeps DEF ObserversOK

LEMMA StartKeeps ==
  ASSUME MCIInv, TypeOK', NEW ok \in BOOLEAN, Start(ok),
         UNCHANGED <<budget, sound, dark, blind, polled>>
  PROVE  OutageInv'
<1>. USE DEF MCIInv
<1>0. WasRecoveryReset \in BOOLEAN
  BY DEF WasRecoveryReset, TypeOK
<1>1. /\ ~adc.ready /\ adc'.ready /\ adc'.used = WasRecoveryReset
      /\ ~adc'.latched /\ adc'.stall = 0 /\ adc'.healthy = 0
      /\ marks' = [cookie |-> FALSE, flags |-> {}]
  BY DEF Start, Asleep
<1>2. /\ sound = 0 /\ adc.stall = 0 /\ ~adc.latched
  BY <1>1 DEF OutageInv, StartedOnce
<1>3. Spent' = Spent /\ BlindBase' = BlindBase
  BY <1>1 DEF Spent, BlindBase
<1>4. StartedOnce' /\ SoundAgrees' /\ StallIsDark'
  BY <1>1, <1>2, SupervisionAssumption
  DEF StartedOnce, SoundAgrees, StallIsDark, ObserversOK
<1>5. BlindCounted'
  BY <1>1, <1>2, <1>3 DEF OutageInv, BlindCounted
<1>. QED
  BY <1>3, <1>4, <1>5 DEF OutageInv
\* What a pass sees: the last pass left every field but the frame's.
PassSees(a) ==
  /\ a \in AdcStates
  /\ a.ready /\ adc.ready
  /\ a.stall = adc.stall /\ a.healthy = adc.healthy
  /\ a.used = adc.used /\ a.latched = adc.latched
  /\ a.valid => ~adc.latched

LEMMA PassStarts ==
  ASSUME MCIInv, NEW frame \in Frames, NEW ok \in BOOLEAN,
         MeasurementPass(frame, ok)
  PROVE  /\ PassSees(Measured(frame))
         /\ adc' = Supervised(Measured(frame), ok)
         /\ ~(GivesUp(Measured(frame)) /\ ~adc.used)
         /\ age["measurement"] # 0 /\ age'["measurement"] = 0
         /\ marks' = marks
<1>1. Measured(frame) \in AdcStates /\ adc \in AdcStates
  BY MeasuredTyped DEF MCIInv, TypeOK
<1>2. age'["measurement"] = 0
  BY SupervisionAssumption DEF MeasurementPass, CheckedIn, MCIInv, TypeOK
<1>. QED
  BY <1>1, <1>2, MeasuredKeeps DEF MeasurementPass, Due, PassSees

\* The observers of a pass, and what no pass disturbs.
PassObserved ==
  /\ sound' = IF ~adc'.valid THEN 0 ELSE IF sound = 0 THEN 1 ELSE sound
  /\ budget' = (budget \/ (adc'.valid /\ sound > Window))
  /\ dark' = IF adc'.valid THEN 0 ELSE dark
  /\ blind' = IF adc'.valid THEN 0 ELSE Capped(blind, LongestBlind + 1)

LEMMA LatchedPassKeeps ==
  ASSUME MCIInv, PassObserved, NEW a, PassSees(a), adc.latched, adc' = a,
         marks' = marks
  PROVE  OutageInv'
<1>. USE DEF MCIInv
<1>1. ~adc'.valid /\ sound' = 0 /\ dark' = dark
  BY DEF PassObserved, PassSees
<1>2. budget' <=> budget
  BY <1>1, Zenon DEF PassObserved
<1>3. StartedOnce'
  BY DEF OutageInv, StartedOnce, PassSees
<1>4. Spent' <=> Spent
  BY DEF Spent, PassSees
<1>5. SoundAgrees' /\ StallIsDark' /\ BlindCounted'
  BY <1>1 DEF OutageInv, SoundAgrees, StallIsDark, BlindCounted, PassSees
<1>. QED
  BY <1>2, <1>3, <1>4, <1>5 DEF OutageInv

LEMMA ValidPassKeeps ==
  ASSUME MCIInv, PassObserved, NEW a, PassSees(a), NEW ok \in BOOLEAN,
         a.valid, adc' = Supervised(a, ok), marks' = marks
  PROVE  OutageInv'
<1>. USE DEF MCIInv
<1>1. /\ adc'.ready /\ adc'.valid /\ ~adc'.latched /\ adc'.stall = 0
      /\ ~adc.used => ~adc'.used
      /\ adc.used => IF adc.healthy > Window THEN ~adc'.used
                     ELSE /\ adc'.used
                          /\ adc'.healthy = IF adc.healthy = 0 THEN 1
                                            ELSE adc.healthy
  BY ValidPass DEF PassSees
<1>2. sound' = (IF sound = 0 THEN 1 ELSE sound) /\ dark' = 0 /\ blind' = 0
  BY <1>1 DEF PassObserved
<1>3. budget' <=> budget \/ sound > Window
  BY <1>1, Zenon DEF PassObserved
<1>4. StartedOnce'
  BY <1>1 DEF OutageInv, StartedOnce, PassSees
<1>5. adc.used => adc.healthy = sound
  BY DEF OutageInv, SoundAgrees, PassSees
<1>6. budget' <=> ~Spent'
  <2>1. budget <=> ~adc.used
    BY DEF OutageInv, Spent, PassSees
  <2>2. Spent' <=> adc'.used
    BY <1>1 DEF Spent
  <2>3. adc'.used <=> adc.used /\ ~(sound > Window)
    BY <1>1, <1>5
  <2>. QED
    BY <1>3, <2>1, <2>2, <2>3, Zenon
<1>7. SoundAgrees'
  BY <1>1, <1>2, <1>5 DEF SoundAgrees
<1>8. StallIsDark'
  BY <1>1, <1>2 DEF StallIsDark
<1>9. BlindCounted'
  <2>1. BlindBase' \in Nat
    BY SupervisionAssumption DEF BlindBase
  <2>. QED
    BY <1>1, <1>2, <2>1, SupervisionAssumption DEF BlindCounted
<1>. QED
  BY <1>4, <1>6, <1>7, <1>8, <1>9 DEF OutageInv

LEMMA DarkPassKeeps ==
  ASSUME MCIInv, PassObserved, NEW a, PassSees(a), NEW ok \in BOOLEAN,
         ~a.valid, ~adc.latched, adc' = Supervised(a, ok), marks' = marks,
         ~(GivesUp(a) /\ ~adc.used),
         age["measurement"] # 0, age'["measurement"] = 0
  PROVE  OutageInv'
<1>. USE DEF MCIInv
<1>1. /\ adc'.ready /\ ~adc'.valid /\ adc'.healthy = 0 /\ adc'.used = adc.used
      /\ adc'.stall = IF adc.stall = 0 THEN 1 ELSE adc.stall
      /\ adc'.latched <=> adc'.stall > Window
  BY DarkPass DEF PassSees
<1>2. sound' = 0 /\ dark' = dark /\ blind' = Capped(blind, LongestBlind + 1)
  BY <1>1 DEF PassObserved
<1>3. budget' <=> budget
  BY <1>1, Zenon DEF PassObserved
<1>4. StartedOnce'
  BY <1>1 DEF OutageInv, StartedOnce, PassSees
<1>5. (Spent' <=> Spent) /\ BlindBase' = BlindBase /\ BlindBase \in {0, Window + 1}
  BY <1>1 DEF Spent, BlindBase, PassSees
<1>6. SoundAgrees'
  BY <1>1, <1>2 DEF SoundAgrees
<1>7. StallIsDark'
  BY <1>1, <1>2, SupervisionAssumption
  DEF StallIsDark, OutageInv, ObserversOK
<1>8. BlindCounted'
  <2>. SUFFICES ASSUME ~adc'.latched
       PROVE  blind' <= BlindBase + Window /\ blind' <= BlindBase + adc'.stall
    BY <1>1, <1>5, SupervisionAssumption DEF BlindCounted
  <2>1. blind \in Nat /\ adc.stall \in Nat /\ BlindBase \in Nat /\ Window \in Nat
    BY <1>5, SupervisionAssumption DEF ObserversOK, TypeOK, AdcStates
  <2>2. blind' <= blind + 1
    BY <1>2, <2>1 DEF Capped, LongestBlind
  <2>3. adc'.stall <= Window /\ adc'.stall \in Nat
    BY <1>1, <2>1
  <2>4. blind + 1 <= BlindBase + adc'.stall
    BY <1>1, <2>1 DEF OutageInv, BlindCounted
  <2>5. blind' \in Nat
    BY <1>2, <2>1 DEF Capped, LongestBlind
  <2>. QED
    BY <2>1, <2>2, <2>3, <2>4, <2>5
<1>. QED
  BY <1>3, <1>4, <1>5, <1>6, <1>7, <1>8 DEF OutageInv

LEMMA PassKeeps ==
  ASSUME MCIInv, MCMeasurementPass PROVE OutageInv'
<1>1. PICK frame \in Frames, ok \in BOOLEAN : MeasurementPass(frame, ok)
  BY DEF MCMeasurementPass
<1>. DEFINE a == Measured(frame)
<1>2. /\ PassSees(a) /\ adc' = Supervised(a, ok)
      /\ ~(GivesUp(a) /\ ~adc.used)
      /\ age["measurement"] # 0 /\ age'["measurement"] = 0 /\ marks' = marks
  BY <1>1, PassStarts
<1>3. PassObserved
  BY DEF MCMeasurementPass, PassObserved
<1>. HIDE DEF a
<1>4. CASE adc.latched
  <2>1. adc' = a
    BY <1>2, <1>4, LatchedPass DEF PassSees
  <2>. QED
    BY <1>2, <1>3, <1>4, <2>1, LatchedPassKeeps
<1>5. CASE a.valid
  BY <1>2, <1>3, <1>5, ValidPassKeeps
<1>6. CASE ~adc.latched /\ ~a.valid
  BY <1>2, <1>3, <1>6, DarkPassKeeps
<1>. QED
  BY <1>4, <1>5, <1>6

\* The tasks that leave the supervisor alone; a check-in of another task and
\* a poll leave the measurement task's age.
LEMMA OthersKeep ==
  ASSUME OutageInv, age'["measurement"] = age["measurement"],
         UNCHANGED <<adc, marks, budget, sound, dark, blind>>
  PROVE  OutageInv'
<1>1. WasRecoveryReset' = WasRecoveryReset
  BY DEF WasRecoveryReset
<1>2. (Spent' <=> Spent) /\ BlindBase' = BlindBase
  BY <1>1 DEF Spent, BlindBase
<1>. QED
  BY <1>2
  DEF OutageInv, StartedOnce, SoundAgrees, StallIsDark, BlindCounted

LEMMA OutageKept ==
  ASSUME MCIInv, TypeOK', ObserversOK', [MCNext]_mcvars PROVE OutageInv'
<1>1. CASE MCTick
  BY <1>1, TickKeeps
<1>2. CASE OtherReset
  BY <1>2, OtherResetKeeps
<1>3. CASE MCRecoveryReset
  BY <1>3, RecoveryResetKeeps
<1>4. CASE MCMeasurementPass
  BY <1>4, PassKeeps
<1>5. CASE MCPollKick
  BY <1>5, OthersKeep DEF MCPollKick, PollKick, MCIInv
<1>6. ASSUME UNCHANGED <<budget, sound, dark, blind, polled>>,
             NEW ok \in BOOLEAN, Start(ok)
      PROVE  OutageInv'
  BY <1>6, StartKeeps
<1>7. ASSUME UNCHANGED <<budget, sound, dark, blind, polled>>,
             NEW s \in Slots, OtherTask(s)
      PROVE  OutageInv'
  <2>1. age'["measurement"] = age["measurement"]
    BY <1>7, SupervisionAssumption DEF OtherTask, CheckedIn, MCIInv, TypeOK
  <2>. QED
    BY <1>7, <2>1, OthersKeep DEF OtherTask, MCIInv
<1>8. CASE UNCHANGED <<budget, sound, dark, blind, polled>> /\ ReadClock
  BY <1>8, OthersKeep DEF ReadClock, MCIInv
<1>9. CASE UNCHANGED mcvars
  BY <1>9, OthersKeep DEF mcvars, vars, MCIInv
<1>. QED
  BY <1>1, <1>2, <1>3, <1>4, <1>5, <1>6, <1>7, <1>8, <1>9 DEF MCNext
LEMMA PolledKept ==
  ASSUME MCIInv, [MCNext]_mcvars PROVE PolledFeeds'
<1>. USE DEF MCIInv
<1>0. dog \in 0 .. Reload /\ polled \in 0 .. Reload /\ Reload \in Nat
      /\ dog + polled >= Reload
  BY SupervisionAssumption DEF TypeOK, ObserversOK, PolledFeeds
<1>1. CASE MCTick
  BY <1>0, <1>1 DEF MCTick, Tick, Capped, PolledFeeds
<1>2. ASSUME Boots, polled' = 0 PROVE PolledFeeds'
  BY <1>0, <1>2 DEF Boots, PolledFeeds
<1>3. CASE OtherReset
  BY <1>2, <1>3
  DEF OtherReset, WatchdogReset, PowerCycle, PanelReset
<1>4. CASE MCRecoveryReset
  BY <1>2, <1>4 DEF MCRecoveryReset, RecoveryReset
<1>5. ASSUME dog' = dog, polled' = polled PROVE PolledFeeds'
  BY <1>0, <1>5 DEF PolledFeeds
<1>6. CASE MCMeasurementPass
  BY <1>5, <1>6 DEF MCMeasurementPass, MeasurementPass
<1>7. CASE MCPollKick
  <2>1. CASE poll = 0 /\ \A s \in Slots : age[s] < Stale
    <3>1. ASSUME NEW s \in Slots PROVE Silence(s) < Stale
      <4>1. age[s] \in 0 .. Clock - 1 /\ age[s] < Stale
        BY <2>1 DEF TypeOK
      <4>2. (age[s] - 0) % Clock = age[s]
        BY <4>1, SmallModulus, SupervisionAssumption
      <4>. QED
        BY <2>1, <4>1, <4>2 DEF Silence
    <3>2. dog' = Reload /\ polled' = 0
      BY <1>7, <2>1, <3>1 DEF MCPollKick, PollKick
    <3>. QED
      BY <1>0, <3>2 DEF PolledFeeds
  <2>2. CASE ~(poll = 0 /\ \A s \in Slots : age[s] < Stale)
    <3>1. polled' = polled
      BY <1>7, <2>2 DEF MCPollKick
    <3>2. dog' = Reload \/ dog' = dog
      BY <1>7 DEF MCPollKick, PollKick
    <3>. QED
      BY <1>0, <3>1, <3>2 DEF PolledFeeds
  <2>. QED
    BY <2>1, <2>2
<1>8. CASE UNCHANGED <<budget, sound, dark, blind, polled>>
             /\ ((\E ok \in BOOLEAN : Start(ok))
                 \/ (\E s \in Slots : OtherTask(s)) \/ ReadClock)
  BY <1>5, <1>8 DEF Start, OtherTask, ReadClock
<1>9. CASE UNCHANGED mcvars
  BY <1>5, <1>9 DEF mcvars, vars
<1>. QED
  BY <1>1, <1>3, <1>4, <1>6, <1>7, <1>8, <1>9 DEF MCNext

LEMMA MCInitHolds ==
  ASSUME MCInit PROVE MCIInv
<1>1. TypeOK /\ Init
  BY InitTyped DEF MCInit
<1>2. ObserversOK
  BY SupervisionAssumption DEF MCInit, ObserversOK
<1>3. adc = Asleep /\ marks.flags = {"power"} /\ dog = Reload
  BY <1>1 DEF Init
<1>4. ~Spent /\ StartedOnce
  BY <1>3 DEF Spent, StartedOnce, WasRecoveryReset, Asleep, MCInit
<1>5. SoundAgrees /\ StallIsDark
  BY <1>3, SupervisionAssumption DEF SoundAgrees, StallIsDark, Asleep, MCInit
<1>6. BlindCounted
  BY <1>3, <1>4, SupervisionAssumption
  DEF BlindCounted, BlindBase, Asleep, MCInit
<1>7. PolledFeeds
  BY <1>3, SupervisionAssumption DEF PolledFeeds, MCInit
<1>8. budget <=> ~Spent
  BY <1>4 DEF MCInit
<1>. QED
  BY <1>1, <1>2, <1>4, <1>5, <1>6, <1>7, <1>8 DEF MCIInv, OutageInv

LEMMA MCStepHolds ==
  ASSUME MCIInv, [MCNext]_mcvars PROVE MCIInv'
<1>1. TypeOK'
  BY StepIsNext, StepTyped DEF MCIInv
<1>2. ObserversOK'
  BY ObserversTyped DEF MCIInv
<1>. QED
  BY <1>1, <1>2, OutageKept, PolledKept DEF MCIInv

LEMMA MCInductive == MCSpec => []MCIInv
  BY MCInitHolds, MCStepHolds, PTL DEF MCSpec
-----------------------------------------------------------------------------
(* Measurement_SuperviseAdc: the recovery reset happens only with the      *)
(* budget of a sound minute: whatever else resets the board, and however   *)
(* often, two of them have a whole window of valid passes in between.      *)
THEOREM RecoveryResetIsBudgeted == MCSpec => OneResetPerOutage
<1>1. ASSUME MCIInv, NEW frame \in Frames, RecoveryReset(frame) PROVE budget
  BY <1>1 DEF MCIInv, OutageInv, Spent, RecoveryReset, Due
<1>2. MCIInv /\ [MCNext]_mcvars
        => [(\E frame \in Frames : RecoveryReset(frame)) => budget]_mcvars
  BY <1>1
<1>. QED
  BY <1>2, MCInductive, PTL DEF MCSpec, OneResetPerOutage

LEMMA LatchStep ==
  ASSUME MCIInv, [MCNext]_mcvars, ~adc.latched, adc'.latched
  PROVE  dark >= Window /\ ~budget
<1>. USE DEF MCIInv
<1>0. adc \in AdcStates
  BY DEF TypeOK
<1>1. MCMeasurementPass
  <2>1. ~Asleep.latched
    BY DEF Asleep
  <2>2. ASSUME Boots PROVE FALSE
    BY <2>1, <2>2 DEF Boots
  <2>3. ASSUME NEW ok \in BOOLEAN, Start(ok) PROVE FALSE
    BY <2>3 DEF Start, Asleep
  <2>4. ASSUME MCTick PROVE FALSE
    BY <1>0, <2>4 DEF MCTick, Tick, AdcStates
  <2>5. ASSUME adc' = adc PROVE FALSE
    BY <2>5
  <2>. QED
    BY <2>2, <2>3, <2>4, <2>5
    DEF MCNext, OtherReset, WatchdogReset, PowerCycle, PanelReset,
        MCRecoveryReset, RecoveryReset, MCPollKick, PollKick, OtherTask,
        ReadClock, mcvars, vars
<1>2. PICK frame \in Frames, ok \in BOOLEAN : MeasurementPass(frame, ok)
  BY <1>1 DEF MCMeasurementPass
<1>. DEFINE a == Measured(frame)
<1>3. /\ PassSees(a) /\ adc' = Supervised(a, ok)
      /\ ~(GivesUp(a) /\ ~adc.used)
  BY <1>2, PassStarts
<1>. HIDE DEF a
<1>4. ~a.valid
  BY <1>3, ValidPass DEF PassSees
<1>5. GivesUp(a) /\ adc'.stall > Window
      /\ adc'.stall = IF adc.stall = 0 THEN 1 ELSE adc.stall
  BY <1>3, <1>4, DarkPass DEF PassSees
<1>6. adc.used
  BY <1>3, <1>5
<1>7. ~budget
  BY <1>3, <1>6 DEF PassSees, OutageInv, Spent
<1>8. dark >= Window
  BY <1>0, <1>5, SupervisionAssumption
  DEF OutageInv, StallIsDark, ObserversOK, AdcStates
<1>. QED
  BY <1>7, <1>8

(* FAULT_ADC: the latch is set only after a whole window without a valid   *)
(* frame, and only when this outage's reset is spent.                      *)
THEOREM LatchIsLastResort == MCSpec => LatchIsEarned
<1>1. MCIInv /\ [MCNext]_mcvars
        => [~adc.latched /\ adc'.latched => dark >= Window /\ ~budget]_mcvars
  BY LatchStep
<1>. QED
  BY <1>1, MCInductive, PTL DEF MCSpec, LatchIsEarned

(* An ADC without a valid frame is reported after the passes of two        *)
(* windows: each pass of the outage finds the stall a tick older, and the  *)
(* reset in between costs one window, because the marks it left say so.    *)
THEOREM OutagesAreReported == MCSpec => []OutageIsReported
<1>1. ASSUME MCIInv PROVE OutageIsReported
  BY <1>1, SupervisionAssumption
  DEF MCIInv, OutageInv, BlindCounted, BlindBase, OutageIsReported,
      LongestBlind, ObserversOK
<1>. QED
  BY <1>1, MCInductive, PTL

(* BspIwdg_PollKick: the watchdog bites only after a whole timeout without *)
(* a prompt poll that found every task fresh.                              *)
THEOREM HealthyBoardsRun == MCSpec => []HealthyBoardRuns
<1>1. ASSUME MCIInv PROVE HealthyBoardRuns
  BY <1>1, SupervisionAssumption
  DEF MCIInv, PolledFeeds, HealthyBoardRuns, ObserversOK
<1>. QED
  BY <1>1, MCInductive, PTL
=============================================================================
