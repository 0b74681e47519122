------------------------------ MODULE Charger ------------------------------
(***************************************************************************)
(* Modules/Charger with Modules/Jitter and the comparator interrupts: two  *)
(* 12 V channels behind one transformer relay.                             *)
(*                                                                         *)
(* A control pass runs Jitter_Run, Charger_EvaluateTechnicalFault and      *)
(* Charger_Evaluate, in that order.  The pass is written as the code runs  *)
(* it: a chain of steps, each from the whole charger to the whole charger. *)
(* Between two passes come the comparator's edges and the communication    *)
(* task's calls; that task has a lower priority than the control task, so  *)
(* it never sees half a pass.                                              *)
(*                                                                         *)
(* One pass is one unit of time.  A stamp with 0 for "none" is its age     *)
(* plus one, up to the age that matters.  Voltages and currents are the    *)
(* bands the code tells apart; the regulator's answer, and when the soak   *)
(* and the taper of ABSORB are over, are the reading's choice.  Both       *)
(* channels are installed, as on the board.                                *)
(***************************************************************************)
EXTENDS Integers

CONSTANTS
  MaxDuty,          \* CHG_DUTY_MAX_PERMILLE or the panel's lower ceiling
  StartDuty,        \* CHG_DUTY_START_PERMILLE
  PidRise,          \* CHG_LIMIT_PARAM_PID_MAX_STEP_PM
  SecondRetryDuty,  \* CHG_DUTY_RETRY_SECOND_MAX
  OpenDuty,         \* above this duty a charger must draw current: 200
  LockoutTime,      \* CHG_LIMIT_PARAM_JIT_LOCKOUT_MS
  HealTime,         \* CHG_JIT_TRIP_CLEAR_MS
  SettleTime,       \* CHG_LIMIT_PARAM_CONNECT_SETTLE_MS
  HotTime,          \* CHG_THERMAL_PARAM_CONTINUOUS_MS
  RestTime,         \* CHG_THERMAL_PARAM_REST_MS
  DeadTime,         \* scenario 6: charge time without a FLOAT; 0 is off
  GapTime,          \* scenario 6: the pause that restarts the clock
  GoneTime,         \* CHG_DEAD_ABSENT_RESET_MS
  LinkTime,         \* CHG_LIMIT_PARAM_MANUAL_WATCHDOG_MS
  OpenTime,         \* the disconnect debounce plus 50 ms
  MaxSuspend,       \* how deep suspensions may nest
  Readings,         \* what a pass may find: see the assumption
  Requests          \* the panel's commands a run offers

Channels == {0, 1}     \* 0 charges the high half, 1 the low half
NoChannel == 2
Duties == 0 .. MaxDuty
States ==
  {"OFF", "BULK", "ABSORB", "FLOAT", "JIT_RETRY_WAIT", "INPUT_WAIT",
   "FINAL_FAULT", "BAT_LOST", "MANUAL", "THERMAL_REST"}

\* Battery voltage: under the valid floor, under reentry, up to absorbEnter, up
\* to absorb, up to the over-voltage cutoff, above it.
Volts == {"under", "low", "mid", "enter", "full", "over"}
ValidVolts == {"low", "mid", "enter", "full"}
Amps == {"zero", "some", "hot", "hard"}

ASSUME ChargerAssumption ==
  /\ {LockoutTime, HealTime, SettleTime, LinkTime, OpenTime} \subseteq Nat \ {0}
  /\ MaxDuty \in Nat \ {0} /\ StartDuty \in 1 .. MaxDuty
  /\ {PidRise, SecondRetryDuty, OpenDuty} \subseteq Nat
  /\ {HotTime, RestTime, DeadTime, GapTime, GoneTime, MaxSuspend} \subseteq Nat
  /\ Readings \subseteq
       [valid : BOOLEAN,       \* the snapshot
        present : BOOLEAN,     \* mains for the relay: volts, or the pin if blind
        permitted : BOOLEAN,   \* Fault's shared input permission
        fault : BOOLEAN,       \* FAULT_ADC, or FAULT state with no episode
        lost : BOOLEAN,        \* FAULT_CHARGER_BAT_LOST
        absent : SUBSET Channels,
        allowed : BOOLEAN,     \* Imbalance's chargingAllowed
        volts : [Channels -> Volts], amps : [Channels -> Amps],
        want : [Channels -> Duties], done : [Channels -> BOOLEAN]]

VARIABLES
  chan,   \* [Channels -> the channel's state, its PWM, its comparator latch]
  hub     \* what the channels share

vars == <<chan, hub>>

Lesser(a, b) == IF a < b THEN a ELSE b
Greater(a, b) == IF a > b THEN a ELSE b
Older(stamp, limit) == IF stamp = 0 THEN 0 ELSE Lesser(stamp + 1, limit + 1)
Reached(stamp, limit) == stamp > limit
SoonerUnfloored(n) == n - 1

Sooner(n) == Greater(n - 1, 0)

ChannelRecords ==
  [state : States,
   duty : Duties,            \* dutyPermille, the mirror of what was applied
   pwm : Duties,             \* what the timer drives
   before : Duties,          \* dutyBeforeTripPermille
   saved : Duties,           \* BlindSavedDutyPermille
   grace : BOOLEAN,          \* BlindAbsorbTargetDutyPermille # 0
   strikes : 0 .. 3,         \* jitTripCount
   lockout : 0 .. LockoutTime,     \* to retryDeadlineTick
   heal : 0 .. HealTime + 1,       \* since jitLastTripTick
   steady : 0 .. SettleTime + 1,   \* since stableFromTick
   hot : 0 .. HotTime + 1,         \* since ThermalContinuousSinceTick
   rest : 0 .. RestTime + 1,       \* to ThermalRestUntilTick, 1 when elapsed
   open : 0 .. OpenTime + 1,       \* since TechOpenStartTick
   condemned : BOOLEAN,      \* the channel's bit of DeadMask
   charging : BOOLEAN,       \* DeadWasCharging
   charged : 0 .. DeadTime,  \* DeadChargeMs
   step : 0 .. DeadTime,     \* since DeadLastTick
   gap : 0 .. GapTime,       \* since DeadPauseTick
   gone : 0 .. GoneTime + 1, \* since DeadAbsentTick
   enabled : BOOLEAN,        \* EspEnableCh
   fixed : BOOLEAN,          \* DutyFixedEnable
   command : Duties,         \* DutyFixedPermille
   rearm : BOOLEAN,          \* ManualRearmRequest
   edge : BOOLEAN,           \* the interrupt's flag
   trip : BOOLEAN]           \* Jitter's latch

HubRecords ==
  [relayOpen : BOOLEAN, coil : BOOLEAN, locked : BOOLEAN, blind : BOOLEAN,
   retry : Channels \cup {NoChannel}, suspended : 0 .. MaxSuspend,
   requested : BOOLEAN, manual : BOOLEAN, silence : 0 .. LinkTime]

TypeOK == chan \in [Channels -> ChannelRecords] /\ hub \in HubRecords

Idle ==
  [state |-> "OFF", duty |-> 0, pwm |-> 0, before |-> 0, saved |-> 0,
   grace |-> FALSE,
   strikes |-> 0, lockout |-> 0, heal |-> 0, steady |-> 0, hot |-> 0,
   rest |-> 0, open |-> 0, condemned |-> FALSE, charging |-> FALSE,
   charged |-> 0, step |-> 0, gap |-> GapTime, gone |-> 0, enabled |-> TRUE,
   fixed |-> FALSE, command |-> 0, rearm |-> FALSE, edge |-> FALSE,
   trip |-> FALSE]

\* The boot replays the scenario-6 verdicts and the panel's channel switches.
Init ==
  /\ \E dead, on \in [Channels -> BOOLEAN] :
       chan = [c \in Channels |-> [Idle EXCEPT !.condemned = dead[c],
                                              !.enabled = on[c]]]
  /\ hub = [relayOpen |-> FALSE, coil |-> FALSE, locked |-> FALSE,
            blind |-> FALSE, retry |-> NoChannel, suspended |-> 0,
            requested |-> FALSE, manual |-> FALSE, silence |-> 0]
-----------------------------------------------------------------------------
(* Steps on one channel.                                                   *)

Active(k) == k.state \in {"BULK", "ABSORB"}

Applied(k, duty) ==
  [k EXCEPT !.duty = Lesser(duty, MaxDuty), !.pwm = Lesser(duty, MaxDuty)]

Silent(k) == [k EXCEPT !.duty = 0, !.pwm = 0]
StopOneChannel(k) == [Silent(k) EXCEPT !.saved = 0, !.grace = FALSE]

ResetChannelToOff(k) ==
  [k EXCEPT !.saved = 0, !.grace = FALSE, !.state = "OFF", !.lockout = 0,
            !.before = k.duty]

HeldThroughIdle == {"FINAL_FAULT", "BAT_LOST", "THERMAL_REST"}

\* Forgets the comparator's latch, and with it the pulse before an outage.
IdleWithoutTrip(k) ==
  [StopOneChannel(k) EXCEPT
     !.before = 0, !.lockout = 0, !.trip = FALSE,
     !.state = IF k.state \in HeldThroughIdle THEN @ ELSE "OFF",
     !.strikes = IF k.state \in HeldThroughIdle THEN @ ELSE 0]

IdleChannel(k) ==
  [StopOneChannel(k) EXCEPT
     !.before = 0, !.lockout = 0,
     !.state = IF k.state \in HeldThroughIdle THEN @ ELSE "OFF",
     !.strikes = IF k.state \in HeldThroughIdle THEN @ ELSE 0]

\* Time since the previous pass, for every stamp and deadline.
Aged(k) ==
  [k EXCEPT !.lockout = Sooner(@), !.heal = Older(@, HealTime),
     !.steady = Older(@, SettleTime), !.hot = Older(@, HotTime),
     !.rest = IF @ > 1 THEN @ - 1 ELSE @, !.open = Older(@, OpenTime),
     !.step = IF k.charging THEN Lesser(@ + 1, DeadTime) ELSE 0,
     !.gap = Lesser(@ + 1, GapTime), !.gone = Older(@, GoneTime)]

RetryDuty(k) ==
  LET half == k.before \div 2
      capped == IF k.strikes > 1 THEN Lesser(half, SecondRetryDuty) ELSE half
  IN Lesser(IF capped = 0 /\ k.before > 0 THEN 1 ELSE capped, MaxDuty)

-----------------------------------------------------------------------------
(* Scenario 6, the dead battery: one tick of a channel's charge clock.     *)

AbsentFor(k, c, r) ==
  IF r.lost \/ r.absent # {} THEN c \in r.absent ELSE k.state = "BAT_LOST"

DeadSwap(k, c, r) ==
  IF ~AbsentFor(k, c, r) THEN [k EXCEPT !.gone = 0]
  ELSE IF k.gone = 0 THEN [k EXCEPT !.gone = 1]
  ELSE IF Reached(k.gone, GoneTime)
  THEN [k EXCEPT !.condemned = FALSE, !.charged = 0]
  ELSE k

\* A pause of any length keeps the charge time.
DeadClockWithoutGap(k) ==
  IF DeadTime = 0 THEN [k EXCEPT !.charged = 0, !.charging = FALSE]
  ELSE IF ~Active(k)
  THEN IF k.charging THEN [k EXCEPT !.charging = FALSE, !.gap = 0] ELSE k
  ELSE IF ~k.charging THEN [k EXCEPT !.charging = TRUE, !.step = 0]
  ELSE LET total == Lesser(k.charged + k.step, DeadTime)
       IN [k EXCEPT !.charged = total, !.step = 0,
                    !.condemned = @ \/ total = DeadTime]

DeadClock(k) ==
  IF DeadTime = 0 \/ k.state \in {"FLOAT", "THERMAL_REST"} \/ k.rest # 0
  THEN [k EXCEPT !.charged = 0, !.charging = FALSE]
  ELSE IF ~Active(k)
  THEN IF k.charging THEN [k EXCEPT !.charging = FALSE, !.gap = 0]
       ELSE [k EXCEPT !.charged = IF k.gap >= GapTime THEN 0 ELSE @]
  ELSE IF ~k.charging THEN [k EXCEPT !.charging = TRUE, !.step = 0]
  ELSE LET total == Lesser(k.charged + k.step, DeadTime)
       IN [k EXCEPT !.charged = total, !.step = 0,
                    !.condemned = @ \/ total = DeadTime]

DeadBatteryTick(k, c, r) == DeadClock(DeadSwap(k, c, r))
-----------------------------------------------------------------------------
(* The charge itself.                                                      *)

\* OFF at zero duty: the next charge begins with the soft start.
StartOver(k) == StopOneChannel(ResetChannelToOff(k))

BlindResumeInFull(k, want) ==
  [Applied(k, Greater(StartDuty, Lesser(k.saved, want)))
     EXCEPT !.saved = 0, !.grace = k.state = "ABSORB"]

\* After a blind pause: seven tenths of the duty it had, less when the input
\* has risen meanwhile.
BlindResume(k, want) ==
  [Applied(k, Greater(StartDuty, Lesser((k.saved * 7) \div 10, want)))
     EXCEPT !.saved = 0, !.grace = k.state = "ABSORB"]

\* The stage of a channel that is not OFF.
Stage(k, volts, done) ==
  LET woken == IF k.state = "FLOAT" /\ volts = "low" THEN "BULK" ELSE k.state
  IN IF volts \in {"enter", "full"}
     THEN IF woken = "FLOAT" \/ done THEN "FLOAT" ELSE "ABSORB"
     ELSE IF woken = "FLOAT" \/ (woken = "ABSORB" /\ k.grace) THEN woken
     ELSE "BULK"

\* The regulator climbs by PidRise at most; FLOAT walks down to nothing.
Regulated(k, volts, want, done) ==
  LET graced == [k EXCEPT !.grace =
                   @ /\ k.state = "ABSORB" /\ volts # "full" /\ ~done]
      stage == Stage(graced, volts, done)
  IN Applied([graced EXCEPT !.state = stage],
             IF stage = "FLOAT" THEN Sooner(k.duty)
             ELSE Lesser(want, k.duty + PidRise))

FixedDuty(k, volts) ==
  LET free == [k EXCEPT !.saved = 0, !.grace = FALSE]
  IN IF volts \in {"full", "over"} THEN Applied(free, 0)
     ELSE Applied([free EXCEPT !.state = IF @ = "OFF" THEN "BULK" ELSE @],
                  k.command)

BarredUnlessFixed(k, r) ==
  ~k.enabled \/ ~r.allowed \/ (k.condemned /\ ~k.fixed)

\* The gates that hold a channel OFF: the panel, scenario 5, scenario 6.
Barred(k, r) == ~k.enabled \/ ~r.allowed \/ k.condemned

RegulateChannel(k, c, r) ==
  IF k.state \in {"FINAL_FAULT", "JIT_RETRY_WAIT", "INPUT_WAIT", "BAT_LOST"}
  THEN k
  ELSE IF Barred(k, r) THEN [StopOneChannel(k) EXCEPT !.state = "OFF"]
  ELSE IF k.fixed THEN FixedDuty(k, r.volts[c])
  ELSE IF r.volts[c] \notin ValidVolts \/ r.amps[c] = "hard"
  THEN StartOver(k)
  ELSE IF k.state = "OFF"
  THEN IF Reached(k.steady, SettleTime)
       THEN Applied([k EXCEPT !.state = "BULK"], StartDuty)
       ELSE Applied(k, 0)
  ELSE IF k.saved # 0 /\ Active(k) /\ c \notin r.absent
  THEN BlindResume(k, r.want[c])
  ELSE IF k.saved # 0 /\ k.state # "FLOAT" THEN StartOver(k)
  ELSE Regulated([k EXCEPT !.saved = 0], r.volts[c], r.want[c], r.done[c])

ManualDriveChannel(k, volts) ==
  Applied([k EXCEPT !.state = "MANUAL"],
          IF ~k.enabled \/ volts = "over" THEN 0 ELSE k.command)
-----------------------------------------------------------------------------
(* Steps on the whole charger s == [chan |-> ..., hub |-> ...].            *)

Each(s, Op(_, _)) == [s EXCEPT !.chan = [c \in Channels |-> Op(s.chan[c], c)]]

JitterRun(s) ==
  Each(s, LAMBDA k, c : [k EXCEPT !.trip = @ \/ k.edge, !.edge = FALSE])

Disconnected(s, present) ==
  [chan |-> [c \in Channels |-> Silent(s.chan[c])],
   hub |-> [s.hub EXCEPT !.coil = present, !.relayOpen = TRUE]]

SafeIdle(s) ==
  [chan |-> [c \in Channels |-> IdleChannel(s.chan[c])],
   hub |-> [s.hub EXCEPT !.coil = FALSE, !.relayOpen = FALSE,
                         !.retry = NoChannel, !.blind = FALSE]]

\* Scenario 7: a shorted transistor trips with its relay open and no duty; an
\* open one draws nothing at a duty that must draw something.
ShortSign(s) ==
  s.hub.relayOpen /\ \E c \in Channels : s.chan[c].duty = 0 /\ s.chan[c].trip

OpenSign(k, c, r) ==
  /\ k.duty > OpenDuty /\ r.amps[c] = "zero" /\ r.volts[c] \in ValidVolts
  /\ ~r.lost /\ r.absent = {} /\ k.state # "BAT_LOST"

\* The debounce runs on when the sign goes.
OpenTimedOnce(s, r) ==
  Each(s, LAMBDA k, c : [k EXCEPT !.open =
     IF @ = 0 /\ OpenSign(k, c, r) THEN 1 ELSE @])

OpenTimed(s, r) ==
  Each(s, LAMBDA k, c : [k EXCEPT !.open =
     IF s.hub.manual \/ ~OpenSign(k, c, r) THEN 0
     ELSE IF @ = 0 THEN 1 ELSE @])

EvaluateTechnicalFault(s, r) ==
  IF s.hub.locked \/ ~r.valid THEN s
  ELSE LET timed == OpenTimed(s, r)
           open == \E c \in Channels : Reached(timed.chan[c].open, OpenTime)
       IN [timed EXCEPT !.hub.locked = ~s.hub.manual /\ (ShortSign(s) \/ open)]

EnterManualTestMode(s) ==
  [chan |-> [c \in Channels |->
               [s.chan[c] EXCEPT !.saved = 0, !.grace = FALSE]],
   hub |-> [s.hub EXCEPT !.manual = TRUE, !.silence = 0, !.blind = FALSE]]

ExitManualTestMode(s) ==
  [chan |-> [c \in Channels |->
     [StopOneChannel(s.chan[c]) EXCEPT
        !.trip = @ /\ s.chan[c].state # "JIT_RETRY_WAIT",
        !.state = IF @ = "FINAL_FAULT" THEN @ ELSE "OFF",
        !.lockout = 0, !.steady = 0, !.strikes = 0, !.before = 0,
        !.rearm = FALSE]],
   hub |-> [s.hub EXCEPT !.requested = FALSE, !.manual = FALSE,
                         !.retry = NoChannel]]

ModeSwitched(s) ==
  LET asked == IF s.hub.requested = s.hub.manual THEN s
               ELSE IF s.hub.requested THEN EnterManualTestMode(s)
               ELSE ExitManualTestMode(s)
  IN IF asked.hub.manual /\ asked.hub.silence >= LinkTime
     THEN ExitManualTestMode(asked) ELSE asked

\* The battery-lost bit, mirrored into the channels; FINAL_FAULT outranks it.
Mirrored(s, r) ==
  Each(s, LAMBDA k, c :
    IF r.lost /\ c \in r.absent /\ k.state \notin {"BAT_LOST", "FINAL_FAULT"}
    THEN [StopOneChannel(k) EXCEPT !.state = "BAT_LOST"]
    ELSE [k EXCEPT !.state = IF ~r.lost /\ @ = "BAT_LOST" THEN "OFF" ELSE @])

\* A snapshot that is not valid: no output, and the rest as it was.
PausedOnBlind(s) ==
  [chan |-> [c \in Channels |->
     LET k == s.chan[c]
         kept == IF Active(k) /\ k.enabled /\ ~s.hub.manual THEN k.duty ELSE 0
     IN [Silent(k) EXCEPT !.saved = IF s.hub.blind THEN @ ELSE kept,
                          !.grace = @ /\ k.state = "ABSORB",
                          !.step = IF k.charging THEN 0 ELSE @]],
   hub |-> [s.hub EXCEPT !.coil = FALSE, !.blind = TRUE]]

BlindOver(s) ==
  IF ~s.hub.blind THEN s
  ELSE [chan |-> [c \in Channels |->
          [s.chan[c] EXCEPT !.step = IF s.chan[c].charging THEN 0 ELSE @]],
        hub |-> [s.hub EXCEPT !.blind = FALSE]]

\* How long the battery has been seen, and the healing of its strikes.
Watched(k, volts) ==
  LET healed == /\ k.strikes > 0 /\ Reached(k.heal, HealTime)
                /\ k.state \notin {"FINAL_FAULT", "JIT_RETRY_WAIT"}
  IN [k EXCEPT !.steady = IF volts \notin ValidVolts THEN 0
                          ELSE IF @ = 0 THEN 1 ELSE @,
               !.strikes = IF healed THEN 0 ELSE @,
               !.heal = IF healed THEN 0 ELSE @]

Seen(s, r) == Each(BlindOver(s), LAMBDA k, c : Watched(k, r.volts[c]))

InputLost(s, r) ==
  LET idle == SafeIdle(Each(s, LAMBDA k, c :
                IF k.state = "FINAL_FAULT" THEN k ELSE DeadBatteryTick(k, c, r)))
  IN Each(idle, LAMBDA k, c :
       IF k.state = "FINAL_FAULT" THEN k
       ELSE DeadBatteryTick([k EXCEPT !.state = "INPUT_WAIT"], c, r))

HandleJitTrip(s, c) ==
  LET k == s.chan[c]
      struck == [k EXCEPT !.strikes = @ + 1, !.heal = 1]
      parked == [StopOneChannel(struck) EXCEPT
                   !.before = k.duty, !.state = "JIT_RETRY_WAIT",
                   !.lockout = IF s.hub.manual THEN 0 ELSE LockoutTime]
  IN IF struck.strikes >= 3
     THEN Disconnected(
            [chan |-> [s.chan EXCEPT
               ![c] = [struck EXCEPT !.state = "FINAL_FAULT", !.strikes = 3]],
             hub |-> [s.hub EXCEPT !.retry = NoChannel]], TRUE)
     ELSE [chan |-> [s.chan EXCEPT ![c] = parked],
           hub |-> [s.hub EXCEPT !.retry =
              IF ~s.hub.manual /\ @ = NoChannel THEN c ELSE @]]

JitServed(s, c) ==
  IF s.chan[c].trip /\ s.chan[c].state \notin {"FINAL_FAULT", "JIT_RETRY_WAIT"}
  THEN HandleJitTrip(s, c) ELSE s

Waiting(s) == {c \in Channels : s.chan[c].state = "JIT_RETRY_WAIT"}

\* Serves the pointer only: nobody adopts a channel that waits without it.
ServiceRetryOfPointer(s) ==
  LET c == s.hub.retry
      k == StopOneChannel(s.chan[c])
  IN IF c \notin Waiting(s) THEN [s EXCEPT !.hub.retry = NoChannel]
     ELSE IF k.lockout > 0
     THEN [s EXCEPT !.chan[c] = k, !.hub.retry = c]
     ELSE [s EXCEPT !.hub.retry = NoChannel, !.chan[c] =
             Applied([k EXCEPT !.state = "BULK", !.trip = FALSE], RetryDuty(k))]

ServiceRetry(s) ==
  LET c == IF s.hub.retry # NoChannel \/ Waiting(s) = {} THEN s.hub.retry
           ELSE CHOOSE w \in Waiting(s) : \A v \in Waiting(s) : w <= v
      k == StopOneChannel(s.chan[c])
  IN IF c \notin Waiting(s) THEN [s EXCEPT !.hub.retry = NoChannel]
     ELSE IF k.lockout > 0
     THEN [s EXCEPT !.chan[c] = k, !.hub.retry = c]
     ELSE [s EXCEPT !.hub.retry = NoChannel, !.chan[c] =
             Applied([k EXCEPT !.state = "BULK", !.trip = FALSE], RetryDuty(k))]

RestingInState(k) == k.rest > 1 /\ k.state = "THERMAL_REST"

\* Thermal rest: a deadline that outlives every change of state in between.
Resting(k) == k.rest > 1
Rested(k) ==
  IF k.rest = 0 THEN k
  ELSE [k EXCEPT !.rest = 0, !.hot = 0,
                 !.state = IF @ = "THERMAL_REST" THEN "OFF" ELSE @]
AtMax(k, amps) ==
  /\ HotTime > 0 /\ RestTime > 0
  /\ k.state = "BULK" /\ amps \in {"hot", "hard"}

RestBegun(k) ==
  [StopOneChannel(k) EXCEPT !.rest = RestTime + 1, !.hot = 0, !.charged = 0,
                            !.charging = FALSE, !.state = "THERMAL_REST"]

Warmed(k, amps) ==
  [k EXCEPT !.hot = IF ~AtMax(k, amps) THEN 0 ELSE IF @ = 0 THEN 1 ELSE @]

\* The rest of the pass on one channel that is not waiting for a retry.
Driven(k, c, r, manual) ==
  LET ticked == DeadBatteryTick(k, c, r)
      rested == Rested(ticked)
      warm == Warmed(rested, r.amps[c])
  IN IF Resting(ticked)
     THEN [StopOneChannel(ticked) EXCEPT !.state = "THERMAL_REST"]
     ELSE IF Reached(warm.hot, HotTime) THEN RestBegun(rested)
     ELSE IF manual THEN ManualDriveChannel(warm, r.volts[c])
     ELSE RegulateChannel(warm, c, r)

InputBack(k) ==
  IF k.state # "INPUT_WAIT" THEN k
  ELSE [k EXCEPT !.state = "OFF", !.duty = 0, !.strikes = 0]

Rearmed(k) ==
  [k EXCEPT !.rearm = FALSE, !.lockout = 0, !.trip = FALSE, !.state = "MANUAL"]

DriveAll(s, r) ==
  LET back == Each(s, LAMBDA k, c : InputBack(k))
      again == {c \in Waiting(back) : s.hub.manual /\ back.chan[c].rearm}
      ready == Each(back, LAMBDA k, c : IF c \in again THEN Rearmed(k) ELSE k)
  IN [Each(ready, LAMBDA k, c :
         IF c \in Waiting(ready) THEN k ELSE Driven(k, c, r, s.hub.manual))
        EXCEPT !.hub.retry = IF @ \in again THEN NoChannel ELSE @]

\* Drives the twin in the pass of a final fault.
PoweredOnce(s, r) ==
  LET struck == JitServed(JitServed(s, 0), 1)
  IN DriveAll(IF s.hub.manual THEN struck ELSE ServiceRetry(struck), r)

Powered(s, r) ==
  LET struck == JitServed(JitServed(s, 0), 1)
      served == IF s.hub.manual THEN struck ELSE ServiceRetry(struck)
  IN IF served.hub.relayOpen THEN Disconnected(served, r.present)
     ELSE DriveAll(served, r)
-----------------------------------------------------------------------------
(* One pass of the control task, by the gate of Charger_Evaluate where it  *)
(* ends.                                                                   *)

Becomes(s) == chan' = s.chan /\ hub' = s.hub

\* Jitter_Run and the scenario-7 verdict come before Charger_Evaluate; Fault's
\* detection is frozen in manual mode, and entering it clears the bit.
Entered(r) ==
  LET now == [chan |-> [c \in Channels |-> Aged(chan[c])],
              hub |-> [hub EXCEPT !.silence = Lesser(@ + 1, LinkTime)]]
  IN EvaluateTechnicalFault(JitterRun(now),
                            [r EXCEPT !.lost = @ /\ ~hub.manual])

Told(switched, r) ==
  [r EXCEPT !.lost = @ /\ ~hub.manual /\ ~switched.hub.manual]

HeldOpen(s) ==
  s.hub.relayOpen \/ \E c \in Channels : s.chan[c].state = "FINAL_FAULT"

PassSuspended(s) ==
  /\ hub.suspended > 0
  /\ Becomes(Each(s, LAMBDA k, c : [k EXCEPT !.pwm = 0]))

PassLocked(s, r) == s.hub.locked /\ Becomes(Disconnected(s, r.present))

PassDisconnected(s, r) == HeldOpen(s) /\ Becomes(Disconnected(s, r.present))

PassFaulted(s, r) ==
  /\ ~HeldOpen(s) /\ r.fault
  /\ LET idle == SafeIdle(s) IN
     Becomes(IF ~r.valid THEN idle
             ELSE Each(idle, LAMBDA k, c : DeadBatteryTick(k, c, r)))

PassBlind(s, r) ==
  /\ ~HeldOpen(s) /\ ~r.fault /\ ~r.valid
  /\ Becomes(PausedOnBlind(s))

PassNoInput(s, r) ==
  /\ ~HeldOpen(s) /\ ~r.fault /\ r.valid /\ ~r.permitted
  /\ Becomes(InputLost(Seen(s, r), r))

PassPowered(s, r) ==
  /\ ~HeldOpen(s) /\ ~r.fault /\ r.valid /\ r.permitted
  /\ Becomes(Powered(Seen(s, r), r))

PassUnlocked(switched, r) ==
  LET told == Told(switched, r)
      s == Mirrored(switched, told)
  IN \/ PassDisconnected(s, told) \/ PassFaulted(s, told) \/ PassBlind(s, told)
     \/ PassNoInput(s, told) \/ PassPowered(s, told)

Pass(r) ==
  LET s == Entered(r)
  IN \/ PassSuspended(s)
     \/ /\ hub.suspended = 0
        /\ PassLocked(s, r) \/ (~s.hub.locked /\ PassUnlocked(ModeSwitched(s), r))
-----------------------------------------------------------------------------
(* Between two passes.                                                     *)

\* LM393: an over-current pulse on a channel.
Edge(c) ==
  /\ ~chan[c].edge
  /\ chan' = [chan EXCEPT ![c].edge = TRUE]
  /\ UNCHANGED hub

\* A flash write pauses the charger; pauses nest.
Suspend ==
  /\ hub.suspended < MaxSuspend
  /\ hub' = [hub EXCEPT !.suspended = @ + 1]
  /\ UNCHANGED chan

Resume ==
  /\ hub.suspended > 0
  /\ hub' = [hub EXCEPT !.suspended = @ - 1]
  /\ UNCHANGED chan

\* Every frame of the panel feeds the dead-man.
Heard == [hub EXCEPT !.silence = 0]

Frame == "poll" \in Requests /\ hub' = Heard /\ UNCHANGED chan

SetManualTestMode(on) ==
  /\ "manual" \in Requests
  /\ hub' = [Heard EXCEPT !.requested = on]
  /\ UNCHANGED chan

SetEnable(c, on) ==
  /\ "enable" \in Requests
  /\ chan' = [chan EXCEPT ![c].enabled = on]
  /\ hub' = Heard

SetDutyFixedEnable(c, on) ==
  /\ "fix" \in Requests
  /\ chan' = [chan EXCEPT ![c].fixed = on]
  /\ hub' = Heard

SetDutyFixed(c, duty) ==
  /\ "command" \in Requests
  /\ chan' = [chan EXCEPT ![c].command = duty, ![c].rearm = @ \/ hub.manual]
  /\ hub' = Heard

RestartedFromFinal == {"BAT_LOST", "MANUAL"}

NotRestarted == {"FINAL_FAULT", "BAT_LOST", "MANUAL"}

\* Clearing the scenario-5 verdict restarts the charge of both channels.
RestartCycle ==
  /\ "restart" \in Requests
  /\ chan' = [c \in Channels |->
       LET cool == [chan[c] EXCEPT !.rest = 0, !.hot = 0]
       IN IF cool.condemned \/ cool.state \in NotRestarted THEN cool
          ELSE StartOver(cool)]
  /\ hub' = Heard

\* So does clearing scenario-6 verdicts, except for the channels whose bit the
\* written mask keeps (a bit without its verdict is left to the boot replay).
ClearDead(kept) ==
  /\ "clear" \in Requests
  /\ \A c \in kept : chan[c].condemned
  /\ chan' = [c \in Channels |->
       LET fresh == [chan[c] EXCEPT !.condemned = FALSE, !.charged = 0,
                       !.charging = FALSE, !.gap = GapTime, !.rest = 0,
                       !.hot = 0]
       IN IF c \in kept THEN chan[c]
          ELSE IF fresh.state \in NotRestarted THEN fresh
          ELSE StartOver(fresh)]
  /\ hub' = Heard

Panel ==
  \/ Frame \/ RestartCycle
  \/ \E kept \in SUBSET Channels : ClearDead(kept)
  \/ \E on \in BOOLEAN :
       \/ SetManualTestMode(on)
       \/ \E c \in Channels : SetEnable(c, on) \/ SetDutyFixedEnable(c, on)
  \/ \E c \in Channels, duty \in Duties : SetDutyFixed(c, duty)

Next ==
  \/ \E r \in Readings : Pass(r)
  \/ \E c \in Channels : Edge(c)
  \/ Suspend \/ Resume \/ Panel

Spec == Init /\ [][Next]_vars
-----------------------------------------------------------------------------
(* Charger_RegulateChannel: a condemned channel is not charged, by the     *)
(* automatic charge nor by a fixed duty from the panel.                    *)
DeadStaysOff ==
  \A c \in Channels : chan[c].condemned /\ ~hub.manual => chan[c].pwm = 0
=============================================================================
