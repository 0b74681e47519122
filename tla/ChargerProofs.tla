--------------------------- MODULE ChargerProofs ---------------------------
(***************************************************************************)
(* The charger for every duty, time and reading: the types, what a strike  *)
(* leads to, that a final fault, a verdict and the opened relay hold, that *)
(* a condemned channel is not driven, that a thermal rest is served, and   *)
(* that a battery is condemned no sooner than its charge time is up; then  *)
(* what a trip leads to: the lockout, the turn of the twins, the verdict   *)
(* of an open transistor and the resume after a blind pause.               *)
(***************************************************************************)
EXTENDS MCChargerTrips, MCChargerClocks, TLAPS

ReadingStates ==
  [valid : BOOLEAN, present : BOOLEAN, permitted : BOOLEAN, fault : BOOLEAN,
   lost : BOOLEAN, absent : SUBSET Channels, allowed : BOOLEAN,
   volts : [Channels -> Volts], amps : [Channels -> Amps],
   want : [Channels -> Duties], done : [Channels -> BOOLEAN]]
Chargers == [chan : [Channels -> ChannelRecords], hub : HubRecords]
-----------------------------------------------------------------------------
(* Types: numbers.                                                         *)

LEMMA Limits ==
  /\ MaxDuty \in Nat /\ StartDuty \in 1 .. MaxDuty /\ PidRise \in Nat
  /\ SecondRetryDuty \in Nat /\ OpenDuty \in Nat
  /\ LockoutTime \in Nat \ {0} /\ HealTime \in Nat /\ SettleTime \in Nat
  /\ LinkTime \in Nat /\ OpenTime \in Nat
  /\ HotTime \in Nat /\ RestTime \in Nat /\ DeadTime \in Nat
  /\ GapTime \in Nat /\ GoneTime \in Nat /\ MaxSuspend \in Nat
  BY ChargerAssumption

\* The values a step writes without looking at what was there.
LEMMA Constants ==
  /\ 0 \in Duties /\ StartDuty \in Duties
  /\ 0 \in 0 .. LockoutTime /\ LockoutTime \in 0 .. LockoutTime
  /\ 0 \in 0 .. HealTime + 1 /\ 1 \in 0 .. HealTime + 1
  /\ 0 \in 0 .. SettleTime + 1 /\ 1 \in 0 .. SettleTime + 1
  /\ 0 \in 0 .. HotTime + 1 /\ 1 \in 0 .. HotTime + 1
  /\ 0 \in 0 .. RestTime + 1 /\ RestTime + 1 \in 0 .. RestTime + 1
  /\ 0 \in 0 .. OpenTime + 1 /\ 1 \in 0 .. OpenTime + 1
  /\ 0 \in 0 .. DeadTime /\ 0 \in 0 .. GapTime /\ GapTime \in 0 .. GapTime
  /\ 0 \in 0 .. GoneTime + 1 /\ 1 \in 0 .. GoneTime + 1
  /\ 0 \in 0 .. 3 /\ 3 \in 0 .. 3 /\ 0 \in 0 .. LinkTime /\ 0 \in 0 .. MaxSuspend
  BY Limits DEF Duties

LEMMA OlderTyped ==
  ASSUME NEW limit \in Nat, NEW stamp \in 0 .. limit + 1
  PROVE  Older(stamp, limit) \in 0 .. limit + 1
  BY DEF Older, Lesser

LEMMA SoonerTyped ==
  ASSUME NEW limit \in Nat, NEW n \in 0 .. limit
  PROVE  Sooner(n) \in 0 .. limit
  BY DEF Sooner, Greater

LEMMA LesserTyped ==
  ASSUME NEW limit \in Nat, NEW n \in Nat
  PROVE  Lesser(n, limit) \in 0 .. limit
  BY DEF Lesser

LEMMA RetryDutyTyped ==
  ASSUME NEW k \in ChannelRecords PROVE RetryDuty(k) \in Nat
<1>1. k.before \in Nat
  BY Limits DEF ChannelRecords, Duties
<1>. DEFINE half == k.before \div 2
<1>2. half \in Nat
  BY <1>1
<1>. HIDE DEF half
<1>3. RetryDuty(k) =
        LET capped == IF k.strikes > 1 THEN Lesser(half, SecondRetryDuty) ELSE half
        IN Lesser(IF capped = 0 /\ k.before > 0 THEN 1 ELSE capped, MaxDuty)
  BY DEF RetryDuty, half
<1>. QED
  BY <1>1, <1>2, <1>3, Limits DEF Lesser
-----------------------------------------------------------------------------
(* Types: one channel.                                                     *)

LEMMA IdleTyped == Idle \in ChannelRecords
  BY Constants DEF Idle, ChannelRecords, States

LEMMA AppliedTyped ==
  ASSUME NEW k \in ChannelRecords, NEW duty \in Nat
  PROVE  Applied(k, duty) \in ChannelRecords
<1>1. Lesser(duty, MaxDuty) \in Duties
  BY LesserTyped, Limits DEF Duties
<1>. QED
  BY <1>1 DEF Applied, ChannelRecords

LEMMA StoppedTyped ==
  ASSUME NEW k \in ChannelRecords
  PROVE  /\ Silent(k) \in ChannelRecords
         /\ StopOneChannel(k) \in ChannelRecords
         /\ ResetChannelToOff(k) \in ChannelRecords
         /\ StartOver(k) \in ChannelRecords
<1>1. ASSUME NEW j \in ChannelRecords
      PROVE  Silent(j) \in ChannelRecords /\ StopOneChannel(j) \in ChannelRecords
  <2>. DEFINE i == Silent(j)
  <2>1. i \in ChannelRecords
    BY Constants DEF Silent, ChannelRecords
  <2>. HIDE DEF i
  <2>2. [i EXCEPT !.saved = 0, !.grace = FALSE] \in ChannelRecords
    BY <2>1, Constants DEF ChannelRecords
  <2>. QED
    BY <2>1, <2>2 DEF StopOneChannel, i
<1>2. ResetChannelToOff(k) \in ChannelRecords
  BY Constants DEF ResetChannelToOff, ChannelRecords, States
<1>. QED
  BY <1>1, <1>2 DEF StartOver

LEMMA AgedTyped ==
  ASSUME NEW k \in ChannelRecords PROVE Aged(k) \in ChannelRecords
<1>1. /\ Sooner(k.lockout) \in 0 .. LockoutTime
      /\ Older(k.heal, HealTime) \in 0 .. HealTime + 1
      /\ Older(k.steady, SettleTime) \in 0 .. SettleTime + 1
      /\ Older(k.hot, HotTime) \in 0 .. HotTime + 1
      /\ Older(k.open, OpenTime) \in 0 .. OpenTime + 1
      /\ Older(k.gone, GoneTime) \in 0 .. GoneTime + 1
  BY SoonerTyped, OlderTyped, Limits DEF ChannelRecords
<1>2. /\ k.rest \in 0 .. RestTime + 1
      /\ k.step + 1 \in Nat /\ k.gap + 1 \in Nat
  BY Limits DEF ChannelRecords
<1>3. (IF k.rest > 1 THEN k.rest - 1 ELSE k.rest) \in 0 .. RestTime + 1
  BY <1>2, Limits
<1>4. /\ Lesser(k.step + 1, DeadTime) \in 0 .. DeadTime
      /\ Lesser(k.gap + 1, GapTime) \in 0 .. GapTime
  BY <1>2, LesserTyped, Limits
<1>5. (IF k.charging THEN Lesser(k.step + 1, DeadTime) ELSE 0) \in 0 .. DeadTime
  BY <1>4, Constants
<1>. QED
  BY <1>1, <1>3, <1>4, <1>5, ZenonT(60) DEF Aged, ChannelRecords

LEMMA IdleChannelTyped ==
  ASSUME NEW k \in ChannelRecords PROVE IdleChannel(k) \in ChannelRecords
<1>. DEFINE j == StopOneChannel(k)
<1>1. j \in ChannelRecords
  BY StoppedTyped
<1>2. IdleChannel(k) =
        [j EXCEPT !.before = 0, !.lockout = 0,
           !.state = IF k.state \in HeldThroughIdle THEN @ ELSE "OFF",
           !.strikes = IF k.state \in HeldThroughIdle THEN @ ELSE 0]
  BY DEF IdleChannel
<1>. DEFINE held == IF k.state \in HeldThroughIdle THEN j.state ELSE "OFF"
            strikes == IF k.state \in HeldThroughIdle THEN j.strikes ELSE 0
<1>3. held \in States /\ strikes \in 0 .. 3
  BY <1>1, Constants DEF ChannelRecords, States
<1>. HIDE DEF j, held, strikes
<1>4. [j EXCEPT !.before = 0, !.lockout = 0, !.state = held, !.strikes = strikes]
        \in ChannelRecords
  BY <1>1, <1>3, Constants DEF ChannelRecords
<1>. QED
  BY <1>2, <1>4 DEF held, strikes

LEMMA SwapTyped ==
  ASSUME NEW k \in ChannelRecords, NEW c \in Channels, NEW r \in ReadingStates
  PROVE  DeadSwap(k, c, r) \in ChannelRecords
  BY Constants, ZenonT(60) DEF DeadSwap, ChannelRecords

LEMMA ClockTyped ==
  ASSUME NEW j \in ChannelRecords PROVE DeadClock(j) \in ChannelRecords
<1>1. j.charged + j.step \in Nat
  BY Limits DEF ChannelRecords
<1>. DEFINE total == Lesser(j.charged + j.step, DeadTime)
<1>2. total \in 0 .. DeadTime
  BY <1>1, LesserTyped, Limits
<1>. HIDE DEF total
<1>3. (j.condemned \/ total = DeadTime) \in BOOLEAN
  OBVIOUS
<1>4. [j EXCEPT !.charged = total, !.step = 0,
                !.condemned = @ \/ total = DeadTime] \in ChannelRecords
  BY <1>2, <1>3, Constants DEF ChannelRecords
<1>5. /\ [j EXCEPT !.charged = 0, !.charging = FALSE] \in ChannelRecords
      /\ [j EXCEPT !.charging = FALSE, !.gap = 0] \in ChannelRecords
      /\ [j EXCEPT !.charged = 0] \in ChannelRecords
      /\ [j EXCEPT !.charged = @] \in ChannelRecords
      /\ [j EXCEPT !.charging = TRUE, !.step = 0] \in ChannelRecords
  BY Constants, ZenonT(60) DEF ChannelRecords
<1>. QED
  BY <1>4, <1>5 DEF DeadClock, total

LEMMA DeadTyped ==
  ASSUME NEW k \in ChannelRecords, NEW c \in Channels, NEW r \in ReadingStates
  PROVE  DeadBatteryTick(k, c, r) \in ChannelRecords
  BY SwapTyped, ClockTyped DEF DeadBatteryTick
-----------------------------------------------------------------------------
(* Steps that do not strike a channel out.                                 *)

\* A step on a channel that neither makes nor ends a final fault, and gives no
\* strike.
Like(k, j) ==
  /\ j \in ChannelRecords
  /\ j.strikes \in {0, k.strikes}
  /\ j.state = "FINAL_FAULT" <=> k.state = "FINAL_FAULT"

LEMMA StoppedLike ==
  ASSUME NEW k \in ChannelRecords
  PROVE  /\ Like(k, Silent(k)) /\ Silent(k).pwm = 0
         /\ Like(k, StopOneChannel(k)) /\ StopOneChannel(k).pwm = 0
         /\ StopOneChannel(k).state = k.state
         /\ StopOneChannel(k).strikes = k.strikes
         /\ k.state # "FINAL_FAULT" => Like(k, StartOver(k))
         /\ StartOver(k).pwm = 0
<1>1. /\ Silent(k) \in ChannelRecords /\ StopOneChannel(k) \in ChannelRecords
      /\ ResetChannelToOff(k) \in ChannelRecords /\ StartOver(k) \in ChannelRecords
  BY StoppedTyped
<1>2. \A j \in ChannelRecords :
        /\ Silent(j).state = j.state /\ Silent(j).strikes = j.strikes
        /\ Silent(j).pwm = 0
        /\ StopOneChannel(j).state = j.state
        /\ StopOneChannel(j).strikes = j.strikes /\ StopOneChannel(j).pwm = 0
  BY DEF Silent, StopOneChannel, ChannelRecords
<1>3. /\ ResetChannelToOff(k).state = "OFF"
      /\ ResetChannelToOff(k).strikes = k.strikes
  BY DEF ResetChannelToOff, ChannelRecords
<1>. QED
  BY <1>1, <1>2, <1>3 DEF Like, StartOver

LEMMA AppliedLike ==
  ASSUME NEW k \in ChannelRecords, NEW duty \in Nat
  PROVE  Like(k, Applied(k, duty)) /\ Applied(k, duty).state = k.state
<1>1. Applied(k, duty) \in ChannelRecords
  BY AppliedTyped
<1>2. Applied(k, duty).state = k.state /\ Applied(k, duty).strikes = k.strikes
  BY DEF Applied, ChannelRecords
<1>. QED
  BY <1>1, <1>2 DEF Like

LEMMA AgedLike ==
  ASSUME NEW k \in ChannelRecords PROVE Like(k, Aged(k))
<1>1. Aged(k).state = k.state /\ Aged(k).strikes = k.strikes
  BY DEF Aged, ChannelRecords
<1>. QED
  BY <1>1, AgedTyped DEF Like

LEMMA IdleChannelLike ==
  ASSUME NEW k \in ChannelRecords
  PROVE  Like(k, IdleChannel(k)) /\ IdleChannel(k).pwm = 0
<1>. DEFINE j == StopOneChannel(k)
<1>1. /\ j \in ChannelRecords /\ j.state = k.state /\ j.strikes = k.strikes
      /\ j.pwm = 0
  BY StoppedTyped, StoppedLike
<1>2. IdleChannel(k) =
        [j EXCEPT !.before = 0, !.lockout = 0,
           !.state = IF k.state \in HeldThroughIdle THEN @ ELSE "OFF",
           !.strikes = IF k.state \in HeldThroughIdle THEN @ ELSE 0]
  BY DEF IdleChannel
<1>. HIDE DEF j
<1>3. /\ IdleChannel(k).pwm = 0
      /\ IdleChannel(k).state = IF k.state \in HeldThroughIdle THEN k.state ELSE "OFF"
      /\ IdleChannel(k).strikes = IF k.state \in HeldThroughIdle THEN k.strikes ELSE 0
  BY <1>1, <1>2 DEF ChannelRecords
<1>. QED
  BY <1>3, IdleChannelTyped DEF Like, HeldThroughIdle

LEMMA DeadLike ==
  ASSUME NEW k \in ChannelRecords, NEW c \in Channels, NEW r \in ReadingStates
  PROVE  LET j == DeadBatteryTick(k, c, r)
         IN /\ Like(k, j) /\ j.state = k.state /\ j.pwm = k.pwm
            /\ j.strikes = k.strikes
<1>1. LET j == DeadSwap(k, c, r)
      IN /\ j \in ChannelRecords
         /\ j.state = k.state /\ j.pwm = k.pwm /\ j.strikes = k.strikes
  BY Constants, ZenonT(60) DEF DeadSwap, ChannelRecords
<1>2. ASSUME NEW j \in ChannelRecords
      PROVE  /\ DeadClock(j).state = j.state /\ DeadClock(j).pwm = j.pwm
             /\ DeadClock(j).strikes = j.strikes
  BY DEF DeadClock, ChannelRecords
<1>3. DeadBatteryTick(k, c, r) \in ChannelRecords
  BY DeadTyped
<1>. QED
  BY <1>1, <1>2, <1>3 DEF DeadBatteryTick, Like

LEMMA RegulatedLike ==
  ASSUME NEW k \in ChannelRecords, k.state # "FINAL_FAULT",
         NEW volts \in Volts, NEW want \in Duties, NEW done \in BOOLEAN
  PROVE  /\ Like(k, Regulated(k, volts, want, done))
         /\ Like(k, BlindResume(k, want))
         /\ Like(k, FixedDuty(k, volts))
<1>1. want \in Nat /\ k.duty \in Nat /\ k.saved \in Nat /\ k.command \in Nat
  BY Limits DEF Duties, ChannelRecords
<1>2. Like(k, Regulated(k, volts, want, done))
  <2>. DEFINE grace == k.grace /\ k.state = "ABSORB" /\ volts # "full" /\ ~done
              graced == [k EXCEPT !.grace = grace]
              stage == Stage(graced, volts, done)
              staged == [graced EXCEPT !.state = stage]
              duty == IF stage = "FLOAT" THEN Sooner(k.duty)
                      ELSE Lesser(want, k.duty + PidRise)
  <2>1. grace \in BOOLEAN
    OBVIOUS
  <2>. HIDE DEF grace
  <2>2. /\ graced \in ChannelRecords
        /\ graced.state = k.state /\ graced.strikes = k.strikes
    BY <2>1 DEF ChannelRecords
  <2>. HIDE DEF graced
  <2>3. stage \in States \ {"FINAL_FAULT"}
    BY DEF Stage, States
  <2>. HIDE DEF stage
  <2>4. /\ staged \in ChannelRecords
        /\ staged.state # "FINAL_FAULT" /\ staged.strikes = k.strikes
    BY <2>2, <2>3 DEF ChannelRecords
  <2>5. k.duty \in 0 .. k.duty /\ want \in Nat /\ k.duty + PidRise \in Nat
    BY <1>1, Limits
  <2>6. Sooner(k.duty) \in Nat
    BY <1>1 DEF Sooner, Greater
  <2>7. Lesser(want, k.duty + PidRise) \in Nat
    BY <2>5 DEF Lesser
  <2>8. duty \in Nat
    BY <2>6, <2>7
  <2>9. Regulated(k, volts, want, done) = Applied(staged, duty)
    BY DEF Regulated, staged, duty, stage, graced, grace
  <2>. HIDE DEF staged, duty
  <2>10. Like(staged, Applied(staged, duty))
    BY <2>4, <2>8, AppliedLike
  <2>. QED
    BY <2>4, <2>9, <2>10 DEF Like
<1>3. Like(k, BlindResume(k, want))
  <2>. DEFINE share == (k.saved * 7) \div 10
              duty == Greater(StartDuty, Lesser(share, want))
              on == Applied(k, duty)
              grace == k.state = "ABSORB"
  <2>1. share \in Nat
    BY <1>1
  <2>. HIDE DEF share
  <2>2. duty \in Nat
    BY <1>1, <2>1, Limits DEF Greater, Lesser
  <2>. HIDE DEF duty
  <2>3. Like(k, on)
    BY <2>2, AppliedLike
  <2>4. grace \in BOOLEAN
    OBVIOUS
  <2>5. BlindResume(k, want) = [on EXCEPT !.saved = 0, !.grace = grace]
    BY DEF BlindResume, on, duty, share, grace
  <2>6. ASSUME NEW j \in ChannelRecords, NEW bit \in BOOLEAN
        PROVE  Like(j, [j EXCEPT !.saved = 0, !.grace = bit])
    BY Constants DEF Like, ChannelRecords
  <2>. HIDE DEF on, grace
  <2>7. Like(on, [on EXCEPT !.saved = 0, !.grace = grace])
    BY <2>3, <2>4, <2>6 DEF Like
  <2>. QED
    BY <2>3, <2>5, <2>7 DEF Like
<1>4. Like(k, FixedDuty(k, volts))
  <2>. DEFINE free == [k EXCEPT !.saved = 0, !.grace = FALSE]
              begun == [free EXCEPT !.state = IF @ = "OFF" THEN "BULK" ELSE @]
  <2>1. free \in ChannelRecords /\ Like(k, free) /\ free.state = k.state
    BY Constants DEF Like, ChannelRecords
  <2>. HIDE DEF free
  <2>2. begun \in ChannelRecords /\ Like(k, begun)
    BY <2>1 DEF Like, ChannelRecords, States
  <2>3. FixedDuty(k, volts) = IF volts \in {"full", "over"} THEN Applied(free, 0)
                              ELSE Applied(begun, k.command)
    BY DEF FixedDuty, free, begun
  <2>. HIDE DEF begun
  <2>4. Like(free, Applied(free, 0)) /\ Like(begun, Applied(begun, k.command))
    BY <1>1, <2>1, <2>2, AppliedLike
  <2>. QED
    BY <2>1, <2>2, <2>3, <2>4 DEF Like
<1>. QED
  BY <1>2, <1>3, <1>4

LEMMA RegulateLike ==
  ASSUME NEW k \in ChannelRecords, k.state # "FINAL_FAULT",
         NEW c \in Channels, NEW r \in ReadingStates
  PROVE  /\ Like(k, RegulateChannel(k, c, r))
         /\ Like(k, ManualDriveChannel(k, r.volts[c]))
<1>1. /\ r.volts[c] \in Volts /\ r.want[c] \in Duties /\ r.done[c] \in BOOLEAN
      /\ k.command \in Nat /\ StartDuty \in Nat
  BY Limits DEF ReadingStates, ChannelRecords, Duties
<1>2. /\ Like(k, k) /\ Like(k, StartOver(k))
      /\ Like(k, FixedDuty(k, r.volts[c])) /\ Like(k, BlindResume(k, r.want[c]))
  BY <1>1, StoppedLike, RegulatedLike DEF Like
<1>3. Like(k, [StopOneChannel(k) EXCEPT !.state = "OFF"])
  <2>. DEFINE j == StopOneChannel(k)
  <2>1. j \in ChannelRecords /\ j.strikes = k.strikes
    BY StoppedTyped, StoppedLike
  <2>. HIDE DEF j
  <2>2. Like(k, [j EXCEPT !.state = "OFF"])
    BY <2>1 DEF Like, ChannelRecords, States
  <2>. QED
    BY <2>2 DEF j
<1>4. Like(k, Applied([k EXCEPT !.state = "BULK"], StartDuty)) /\ Like(k, Applied(k, 0))
  <2>. DEFINE j == [k EXCEPT !.state = "BULK"]
  <2>1. j \in ChannelRecords /\ Like(k, j)
    BY DEF Like, ChannelRecords, States
  <2>. HIDE DEF j
  <2>2. Like(j, Applied(j, StartDuty)) /\ Like(k, Applied(k, 0))
    BY <1>1, <2>1, AppliedLike
  <2>. QED
    BY <2>1, <2>2 DEF Like, j
<1>5. Like(k, Regulated([k EXCEPT !.saved = 0], r.volts[c], r.want[c], r.done[c]))
  <2>. DEFINE j == [k EXCEPT !.saved = 0]
  <2>1. j \in ChannelRecords /\ Like(k, j) /\ j.state # "FINAL_FAULT"
    BY Constants DEF Like, ChannelRecords
  <2>. HIDE DEF j
  <2>2. Like(j, Regulated(j, r.volts[c], r.want[c], r.done[c]))
    BY <1>1, <2>1, RegulatedLike
  <2>. QED
    BY <2>1, <2>2 DEF Like, j
<1>6. Like(k, RegulateChannel(k, c, r))
  BY <1>2, <1>3, <1>4, <1>5 DEF RegulateChannel
<1>7. Like(k, ManualDriveChannel(k, r.volts[c]))
  <2>. DEFINE j == [k EXCEPT !.state = "MANUAL"]
              duty == IF ~k.enabled \/ r.volts[c] = "over" THEN 0 ELSE k.command
  <2>1. j \in ChannelRecords /\ Like(k, j)
    BY DEF Like, ChannelRecords, States
  <2>2. duty \in Nat
    BY <1>1
  <2>. HIDE DEF j, duty
  <2>3. Like(j, Applied(j, duty))
    BY <2>1, <2>2, AppliedLike
  <2>. QED
    BY <2>1, <2>3 DEF Like, ManualDriveChannel, j, duty
<1>. QED
  BY <1>6, <1>7

\* The rest of a pass on a channel.
LEMMA DrivenLike ==
  ASSUME NEW k \in ChannelRecords, k.state # "FINAL_FAULT",
         NEW c \in Channels, NEW r \in ReadingStates, NEW manual \in BOOLEAN
  PROVE  Like(k, Driven(k, c, r, manual))
<1>. DEFINE ticked == DeadBatteryTick(k, c, r)
            rested == Rested(ticked)
            warm == Warmed(rested, r.amps[c])
<1>1. ticked \in ChannelRecords /\ Like(k, ticked)
  BY DeadLike DEF Like
<1>. HIDE DEF ticked
<1>2. rested \in ChannelRecords /\ Like(ticked, rested)
  <2>. DEFINE state == IF ticked.state = "THERMAL_REST" THEN "OFF" ELSE ticked.state
              j == [ticked EXCEPT !.rest = 0, !.hot = 0, !.state = state]
  <2>1. state \in States /\ (state = "FINAL_FAULT" <=> ticked.state = "FINAL_FAULT")
    BY <1>1 DEF ChannelRecords, States
  <2>2. rested = IF ticked.rest = 0 THEN ticked ELSE j
    BY DEF Rested
  <2>. HIDE DEF state
  <2>3. j \in ChannelRecords /\ j.state = state /\ j.strikes = ticked.strikes
    BY <1>1, <2>1, Constants DEF ChannelRecords
  <2>. HIDE DEF rested, j
  <2>. QED
    BY <1>1, <2>1, <2>2, <2>3 DEF Like
<1>. HIDE DEF rested
<1>3. warm \in ChannelRecords /\ Like(rested, warm)
  <2>1. (IF ~AtMax(rested, r.amps[c]) THEN 0 ELSE IF rested.hot = 0 THEN 1
         ELSE rested.hot) \in 0 .. HotTime + 1
    BY <1>2, Constants DEF ChannelRecords
  <2>. QED
    BY <1>2, <2>1 DEF Warmed, Like, ChannelRecords
<1>. HIDE DEF warm
<1>4. Like(k, [StopOneChannel(ticked) EXCEPT !.state = "THERMAL_REST"])
  <2>. DEFINE j == StopOneChannel(ticked)
  <2>1. j \in ChannelRecords /\ Like(ticked, j)
    BY <1>1, StoppedLike DEF Like
  <2>. HIDE DEF j
  <2>2. Like(j, [j EXCEPT !.state = "THERMAL_REST"])
    BY <1>1, <2>1 DEF Like, ChannelRecords, States
  <2>. QED
    BY <1>1, <2>1, <2>2 DEF Like, j
<1>5. Like(k, RestBegun(rested))
  <2>. DEFINE j == StopOneChannel(rested)
  <2>1. j \in ChannelRecords /\ Like(rested, j)
    BY <1>2, StoppedLike DEF Like
  <2>. HIDE DEF j
  <2>. DEFINE i == [j EXCEPT !.rest = RestTime + 1, !.hot = 0, !.charged = 0,
                             !.charging = FALSE, !.state = "THERMAL_REST"]
  <2>2. i \in ChannelRecords /\ i.state = "THERMAL_REST" /\ i.strikes = j.strikes
    BY <2>1, Constants, ZenonT(60) DEF ChannelRecords, States
  <2>3. RestBegun(rested) = i
    BY DEF RestBegun, i, j
  <2>. HIDE DEF i
  <2>. QED
    BY <1>1, <1>2, <2>1, <2>2, <2>3 DEF Like
<1>6. /\ Like(warm, RegulateChannel(warm, c, r))
      /\ Like(warm, ManualDriveChannel(warm, r.volts[c]))
  BY <1>1, <1>2, <1>3, RegulateLike DEF Like
<1>7. /\ Like(k, RegulateChannel(warm, c, r))
      /\ Like(k, ManualDriveChannel(warm, r.volts[c]))
  BY <1>1, <1>2, <1>3, <1>6 DEF Like
<1>. QED
  BY <1>4, <1>5, <1>7 DEF Driven, ticked, rested, warm

LEMMA BackLike ==
  ASSUME NEW k \in ChannelRecords
  PROVE  /\ Like(k, InputBack(k))
         /\ k.state # "FINAL_FAULT" => Like(k, Rearmed(k))
         /\ \A volts \in Volts : Like(k, Watched(k, volts))
<1>1. Like(k, InputBack(k))
  <2>. DEFINE j == [k EXCEPT !.state = "OFF", !.duty = 0, !.strikes = 0]
  <2>1. j \in ChannelRecords /\ j.state = "OFF" /\ j.strikes = 0
    BY Constants DEF ChannelRecords, States
  <2>2. InputBack(k) = IF k.state # "INPUT_WAIT" THEN k ELSE j
    BY DEF InputBack
  <2>. HIDE DEF j
  <2>. QED
    BY <2>1, <2>2 DEF Like
<1>2. k.state # "FINAL_FAULT" => Like(k, Rearmed(k))
  BY Constants DEF Rearmed, Like, ChannelRecords, States
<1>3. ASSUME NEW volts \in Volts PROVE Like(k, Watched(k, volts))
  <2>. DEFINE healed == /\ k.strikes > 0 /\ Reached(k.heal, HealTime)
                        /\ k.state \notin {"FINAL_FAULT", "JIT_RETRY_WAIT"}
  <2>1. healed \in BOOLEAN
    OBVIOUS
  <2>. HIDE DEF healed
  <2>2. Like(k, [k EXCEPT !.steady = IF volts \notin ValidVolts THEN 0
                                     ELSE IF @ = 0 THEN 1 ELSE @,
                          !.strikes = IF healed THEN 0 ELSE @,
                          !.heal = IF healed THEN 0 ELSE @])
    BY <2>1, Constants, ZenonT(60) DEF Like, ChannelRecords
  <2>. QED
    BY <2>2 DEF Watched, healed
<1>. QED
  BY <1>1, <1>2, <1>3
-----------------------------------------------------------------------------
(* The same for the whole charger.                                         *)

Moves(s, t) ==
  /\ t \in Chargers
  /\ t.hub.relayOpen = s.hub.relayOpen /\ t.hub.locked = s.hub.locked
  /\ \A c \in Channels : Like(s.chan[c], t.chan[c])

Silenced(t) == \A c \in Channels : t.chan[c].pwm = 0

LEMMA MovesOn ==
  ASSUME NEW s, NEW t, NEW u, Moves(s, t), Moves(t, u) PROVE Moves(s, u)
  BY DEF Moves, Like

LEMMA ChargerFields ==
  ASSUME NEW s \in Chargers
  PROVE  /\ s.hub \in HubRecords /\ s.chan \in [Channels -> ChannelRecords]
         /\ \A c \in Channels : s.chan[c] \in ChannelRecords
  BY DEF Chargers

LEMMA EachMoves ==
  ASSUME NEW s \in Chargers, NEW f \in [Channels -> ChannelRecords],
         \A c \in Channels : Like(s.chan[c], f[c])
  PROVE  Moves(s, [s EXCEPT !.chan = f])
<1>1. /\ [s EXCEPT !.chan = f] \in Chargers
      /\ [s EXCEPT !.chan = f].hub = s.hub /\ [s EXCEPT !.chan = f].chan = f
  BY DEF Chargers
<1>. QED
  BY <1>1 DEF Moves

LEMMA JitterMoves ==
  ASSUME NEW s \in Chargers PROVE Moves(s, JitterRun(s))
<1>. DEFINE f == [c \in Channels |->
              [s.chan[c] EXCEPT !.trip = @ \/ s.chan[c].edge, !.edge = FALSE]]
<1>1. ASSUME NEW k \in ChannelRecords
      PROVE  Like(k, [k EXCEPT !.trip = @ \/ k.edge, !.edge = FALSE])
  <2>. DEFINE latched == k.trip \/ k.edge
  <2>1. latched \in BOOLEAN
    OBVIOUS
  <2>. HIDE DEF latched
  <2>2. Like(k, [k EXCEPT !.trip = latched, !.edge = FALSE])
    BY <2>1, ZenonT(60) DEF Like, ChannelRecords
  <2>. QED
    BY <2>2 DEF latched
<1>2. \A c \in Channels : Like(s.chan[c], f[c])
  BY <1>1, ChargerFields
<1>3. f \in [Channels -> ChannelRecords]
  BY <1>2 DEF Like
<1>4. JitterRun(s) = [s EXCEPT !.chan = f]
  BY DEF JitterRun, Each
<1>. HIDE DEF f
<1>. QED
  BY <1>2, <1>3, <1>4, EachMoves

LEMMA Rebuilt ==
  ASSUME NEW s \in Chargers, NEW f \in [Channels -> ChannelRecords],
         NEW h \in HubRecords,
         h.relayOpen = s.hub.relayOpen, h.locked = s.hub.locked,
         \A c \in Channels : Like(s.chan[c], f[c])
  PROVE  Moves(s, [chan |-> f, hub |-> h])
  BY DEF Moves, Chargers

\* A pass's beginning may reach a verdict; it changes nothing else that lasts.
LEMMA EnteredMoves ==
  ASSUME TypeOK, NEW r
  PROVE  LET e == Entered(r)
         IN /\ e \in Chargers /\ e.hub.relayOpen = hub.relayOpen
            /\ hub.locked => e.hub.locked
            /\ \A c \in Channels : Like(chan[c], e.chan[c])
<1>. DEFINE s == [chan |-> chan, hub |-> hub]
            f == [c \in Channels |-> Aged(chan[c])]
            h == [hub EXCEPT !.silence = Lesser(@ + 1, LinkTime)]
            now == [chan |-> f, hub |-> h]
            j == JitterRun(now)
            told == [r EXCEPT !.lost = @ /\ ~hub.manual]
            opened == [c \in Channels |->
              [j.chan[c] EXCEPT !.open =
                 IF j.hub.manual \/ ~OpenSign(j.chan[c], c, told) THEN 0
                 ELSE IF @ = 0 THEN 1 ELSE @]]
            timed == OpenTimed(j, told)
            verdict == /\ ~j.hub.manual
                       /\ \/ ShortSign(j)
                          \/ \E c \in Channels :
                               Reached(timed.chan[c].open, OpenTime)
<1>1. s \in Chargers
  BY DEF TypeOK, Chargers
<1>2. f \in [Channels -> ChannelRecords] /\ \A c \in Channels : Like(chan[c], f[c])
  BY AgedLike, AgedTyped DEF TypeOK
<1>3. h \in HubRecords /\ h.relayOpen = hub.relayOpen /\ h.locked = hub.locked
  <2>1. hub.silence + 1 \in Nat
    BY Limits DEF TypeOK, HubRecords
  <2>2. Lesser(hub.silence + 1, LinkTime) \in 0 .. LinkTime
    BY <2>1, LesserTyped, Limits
  <2>. QED
    BY <2>2 DEF TypeOK, HubRecords
<1>. HIDE DEF f, h
<1>4. Moves(s, now)
  BY <1>1, <1>2, <1>3, Rebuilt
<1>5. Moves(now, j)
  BY <1>4, JitterMoves DEF Moves
<1>. HIDE DEF now, told
<1>6. j \in Chargers
  BY <1>5 DEF Moves
<1>. HIDE DEF j
<1>7. \A c \in Channels : opened[c] \in ChannelRecords /\ Like(j.chan[c], opened[c])
  <2>. TAKE c \in Channels
  <2>. DEFINE k == j.chan[c]
              open == IF j.hub.manual \/ ~OpenSign(k, c, told) THEN 0
                      ELSE IF k.open = 0 THEN 1 ELSE k.open
  <2>1. k \in ChannelRecords
    BY <1>6, ChargerFields
  <2>2. open \in 0 .. OpenTime + 1
    BY <2>1, Constants DEF ChannelRecords
  <2>3. opened[c] = [k EXCEPT !.open = open]
    OBVIOUS
  <2>. HIDE DEF k, open, opened
  <2>4. [k EXCEPT !.open = open] \in ChannelRecords /\ Like(k, [k EXCEPT !.open = open])
    BY <2>1, <2>2 DEF Like, ChannelRecords
  <2>. QED
    BY <2>3, <2>4 DEF k
<1>8. Moves(j, timed)
  <2>1. opened \in [Channels -> ChannelRecords]
    BY <1>7
  <2>2. timed = [j EXCEPT !.chan = opened]
    BY DEF OpenTimed, Each
  <2>. HIDE DEF opened, timed
  <2>. QED
    BY <1>6, <1>7, <2>1, <2>2, EachMoves
<1>9. verdict \in BOOLEAN
  OBVIOUS
<1>10. Entered(r) = IF j.hub.locked \/ ~told.valid THEN j
                    ELSE [timed EXCEPT !.hub.locked = verdict]
  BY DEF Entered, EvaluateTechnicalFault, j, told, now, f, h
<1>. HIDE DEF verdict, timed
<1>11. LET t == [timed EXCEPT !.hub.locked = verdict]
       IN /\ t \in Chargers /\ t.chan = timed.chan
          /\ t.hub.relayOpen = timed.hub.relayOpen
  BY <1>8, <1>9 DEF Moves, Chargers, HubRecords
<1>12. Moves(s, j) /\ Moves(s, timed)
  BY <1>4, <1>5, <1>8, MovesOn DEF j
<1>13. CASE j.hub.locked \/ ~told.valid
  BY <1>10, <1>12, <1>13 DEF Moves
<1>14. CASE ~(j.hub.locked \/ ~told.valid)
  <2>1. ~hub.locked
    BY <1>12, <1>14 DEF Moves
  <2>2. \A c \in Channels : Like(chan[c], timed.chan[c])
    BY <1>12 DEF Moves
  <2>3. timed.hub.relayOpen = hub.relayOpen
    BY <1>12 DEF Moves
  <2>. HIDE DEF s
  <2>. QED
    BY <1>10, <1>11, <1>14, <2>1, <2>2, <2>3
<1>. QED
  BY <1>13, <1>14

LEMMA ExitMoves ==
  ASSUME NEW s \in Chargers
  PROVE  Moves(s, EnterManualTestMode(s)) /\ Moves(s, ExitManualTestMode(s))
<1>1. Moves(s, EnterManualTestMode(s))
  <2>. DEFINE f == [c \in Channels |-> [s.chan[c] EXCEPT !.saved = 0, !.grace = FALSE]]
              h == [s.hub EXCEPT !.manual = TRUE, !.silence = 0, !.blind = FALSE]
  <2>1. ASSUME NEW k \in ChannelRecords
        PROVE  Like(k, [k EXCEPT !.saved = 0, !.grace = FALSE])
    BY Constants DEF Like, ChannelRecords
  <2>2. \A c \in Channels : Like(s.chan[c], f[c])
    BY <2>1, ChargerFields
  <2>3. f \in [Channels -> ChannelRecords]
    BY <2>2 DEF Like
  <2>4. h \in HubRecords /\ h.relayOpen = s.hub.relayOpen /\ h.locked = s.hub.locked
    BY ChargerFields, Constants DEF HubRecords
  <2>5. EnterManualTestMode(s) = [chan |-> f, hub |-> h]
    BY DEF EnterManualTestMode
  <2>. HIDE DEF f, h
  <2>. QED
    BY <2>2, <2>3, <2>4, <2>5, Rebuilt
<1>2. Moves(s, ExitManualTestMode(s))
  <2>. DEFINE g(k) == [StopOneChannel(k) EXCEPT
                 !.trip = @ /\ k.state # "JIT_RETRY_WAIT",
                 !.state = IF @ = "FINAL_FAULT" THEN @ ELSE "OFF",
                 !.lockout = 0, !.steady = 0, !.strikes = 0, !.before = 0,
                 !.rearm = FALSE]
              f == [c \in Channels |-> g(s.chan[c])]
              h == [s.hub EXCEPT !.requested = FALSE, !.manual = FALSE,
                                 !.retry = NoChannel]
  <2>1. ASSUME NEW k \in ChannelRecords PROVE Like(k, g(k))
    <3>. DEFINE j == StopOneChannel(k)
                trip == j.trip /\ k.state # "JIT_RETRY_WAIT"
                state == IF j.state = "FINAL_FAULT" THEN j.state ELSE "OFF"
                q == [j EXCEPT !.trip = trip, !.state = state]
                i == [q EXCEPT !.lockout = 0, !.steady = 0, !.strikes = 0,
                               !.before = 0, !.rearm = FALSE]
    <3>1. j \in ChannelRecords /\ j.state = k.state
      BY StoppedTyped, StoppedLike
    <3>2. trip \in BOOLEAN
      OBVIOUS
    <3>3. state \in States /\ (state = "FINAL_FAULT" <=> k.state = "FINAL_FAULT")
      BY <3>1 DEF States
    <3>4. g(k) = i
      OBVIOUS
    <3>. HIDE DEF j, trip, state, g
    <3>5. q \in ChannelRecords /\ q.state = state
      BY <3>1, <3>2, <3>3, ZenonT(60) DEF ChannelRecords
    <3>. HIDE DEF q
    <3>6. i \in ChannelRecords /\ i.state = q.state /\ i.strikes = 0
      BY <3>5, Constants, ZenonT(60) DEF ChannelRecords
    <3>. HIDE DEF i
    <3>. QED
      BY <3>3, <3>4, <3>5, <3>6 DEF Like
  <2>. HIDE DEF g
  <2>2. \A c \in Channels : Like(s.chan[c], f[c])
    BY <2>1, ChargerFields
  <2>3. f \in [Channels -> ChannelRecords]
    BY <2>2 DEF Like
  <2>4. h \in HubRecords /\ h.relayOpen = s.hub.relayOpen /\ h.locked = s.hub.locked
    BY ChargerFields DEF HubRecords
  <2>5. ExitManualTestMode(s) = [chan |-> f, hub |-> h]
    BY DEF ExitManualTestMode, g
  <2>. HIDE DEF f, h
  <2>. QED
    BY <2>2, <2>3, <2>4, <2>5, Rebuilt
<1>. QED
  BY <1>1, <1>2

LEMMA ModeMoves ==
  ASSUME NEW s \in Chargers PROVE Moves(s, ModeSwitched(s))
<1>. DEFINE asked == IF s.hub.requested = s.hub.manual THEN s
                     ELSE IF s.hub.requested THEN EnterManualTestMode(s)
                     ELSE ExitManualTestMode(s)
<1>1. Moves(s, s)
  BY ChargerFields DEF Moves, Like
<1>2. Moves(s, asked) /\ asked \in Chargers
  BY <1>1, ExitMoves DEF Moves
<1>. HIDE DEF asked
<1>3. Moves(asked, ExitManualTestMode(asked))
  BY <1>2, ExitMoves
<1>4. Moves(s, ExitManualTestMode(asked))
  BY <1>2, <1>3, MovesOn
<1>. QED
  BY <1>2, <1>4 DEF ModeSwitched, asked

LEMMA MirroredMoves ==
  ASSUME NEW s \in Chargers, NEW r PROVE Moves(s, Mirrored(s, r))
<1>. DEFINE g(k, c) ==
       IF r.lost /\ c \in r.absent /\ k.state \notin {"BAT_LOST", "FINAL_FAULT"}
       THEN [StopOneChannel(k) EXCEPT !.state = "BAT_LOST"]
       ELSE [k EXCEPT !.state = IF ~r.lost /\ @ = "BAT_LOST" THEN "OFF" ELSE @]
            f == [c \in Channels |-> g(s.chan[c], c)]
<1>1. ASSUME NEW k \in ChannelRecords, NEW c \in Channels PROVE Like(k, g(k, c))
  <2>. DEFINE j == StopOneChannel(k)
              i == [j EXCEPT !.state = "BAT_LOST"]
              state == IF ~r.lost /\ k.state = "BAT_LOST" THEN "OFF" ELSE k.state
  <2>1. j \in ChannelRecords /\ j.strikes = k.strikes
    BY StoppedTyped, StoppedLike
  <2>2. state \in States /\ (state = "FINAL_FAULT" <=> k.state = "FINAL_FAULT")
    BY DEF States, ChannelRecords
  <2>3. g(k, c) = IF r.lost /\ c \in r.absent
                     /\ k.state \notin {"BAT_LOST", "FINAL_FAULT"}
                  THEN i ELSE [k EXCEPT !.state = state]
    OBVIOUS
  <2>. HIDE DEF j, state, g
  <2>4. i \in ChannelRecords /\ i.state = "BAT_LOST" /\ i.strikes = k.strikes
    BY <2>1 DEF ChannelRecords, States
  <2>5. Like(k, [k EXCEPT !.state = state])
    BY <2>2 DEF Like, ChannelRecords
  <2>. HIDE DEF i
  <2>. QED
    BY <2>3, <2>4, <2>5 DEF Like
<1>2. Mirrored(s, r) = [s EXCEPT !.chan = f]
  BY DEF Mirrored, Each
<1>. HIDE DEF g
<1>3. \A c \in Channels : Like(s.chan[c], f[c])
  BY <1>1, ChargerFields
<1>4. f \in [Channels -> ChannelRecords]
  BY <1>3 DEF Like
<1>. HIDE DEF f
<1>. QED
  BY <1>2, <1>3, <1>4, EachMoves
-----------------------------------------------------------------------------
(* The ways a pass ends.                                                   *)

LEMMA SilencedMoves ==
  ASSUME NEW s \in Chargers
  PROVE  LET t == Each(s, LAMBDA k, c : [k EXCEPT !.pwm = 0])
         IN Moves(s, t) /\ Silenced(t)
<1>. DEFINE f == [c \in Channels |-> [s.chan[c] EXCEPT !.pwm = 0]]
<1>1. ASSUME NEW k \in ChannelRecords
      PROVE  Like(k, [k EXCEPT !.pwm = 0]) /\ [k EXCEPT !.pwm = 0].pwm = 0
  BY Constants DEF Like, ChannelRecords
<1>2. \A c \in Channels : Like(s.chan[c], f[c]) /\ f[c].pwm = 0
  BY <1>1, ChargerFields
<1>3. f \in [Channels -> ChannelRecords]
  BY <1>2 DEF Like
<1>. HIDE DEF f
<1>4. Moves(s, [s EXCEPT !.chan = f])
  BY <1>2, <1>3, EachMoves
<1>5. [s EXCEPT !.chan = f].chan = f
  BY DEF Chargers
<1>6. Silenced([s EXCEPT !.chan = f])
  BY <1>2, <1>5 DEF Silenced
<1>. QED
  BY <1>4, <1>6 DEF Each, f

LEMMA DisconnectedTo ==
  ASSUME NEW s \in Chargers, NEW present \in BOOLEAN
  PROVE  LET t == Disconnected(s, present)
         IN /\ t \in Chargers /\ Silenced(t) /\ t.hub.relayOpen
            /\ t.hub.locked = s.hub.locked
            /\ \A c \in Channels : Like(s.chan[c], t.chan[c])
<1>. DEFINE f == [c \in Channels |-> Silent(s.chan[c])]
            h == [s.hub EXCEPT !.coil = present, !.relayOpen = TRUE]
<1>1. \A c \in Channels : Like(s.chan[c], f[c]) /\ f[c].pwm = 0
  BY StoppedLike, ChargerFields
<1>2. f \in [Channels -> ChannelRecords]
  BY <1>1 DEF Like
<1>3. h \in HubRecords /\ h.relayOpen /\ h.locked = s.hub.locked
  BY ChargerFields DEF HubRecords
<1>. HIDE DEF f, h
<1>4. [chan |-> f, hub |-> h] \in Chargers
  BY <1>2, <1>3 DEF Chargers
<1>. QED
  BY <1>1, <1>3, <1>4 DEF Disconnected, Silenced, f, h

LEMMA SafeIdleMoves ==
  ASSUME NEW s \in Chargers, ~s.hub.relayOpen
  PROVE  Moves(s, SafeIdle(s)) /\ Silenced(SafeIdle(s))
<1>. DEFINE f == [c \in Channels |-> IdleChannel(s.chan[c])]
            h == [s.hub EXCEPT !.coil = FALSE, !.relayOpen = FALSE,
                               !.retry = NoChannel, !.blind = FALSE]
<1>1. \A c \in Channels : Like(s.chan[c], f[c]) /\ f[c].pwm = 0
  BY IdleChannelLike, ChargerFields
<1>2. f \in [Channels -> ChannelRecords]
  BY <1>1 DEF Like
<1>3. s.hub.relayOpen = FALSE
  BY ChargerFields DEF HubRecords
<1>4. h \in HubRecords /\ h.relayOpen = s.hub.relayOpen /\ h.locked = s.hub.locked
  BY <1>3, ChargerFields DEF HubRecords
<1>. HIDE DEF f, h
<1>5. Moves(s, [chan |-> f, hub |-> h])
  BY <1>1, <1>2, <1>4, Rebuilt
<1>. QED
  BY <1>1, <1>5 DEF SafeIdle, Silenced, f, h

\* The scenario-6 clock of every channel.
LEMMA TickedMoves ==
  ASSUME NEW s \in Chargers, NEW r \in ReadingStates
  PROVE  LET t == Each(s, LAMBDA k, c : DeadBatteryTick(k, c, r))
         IN Moves(s, t) /\ (Silenced(s) => Silenced(t))
<1>. DEFINE f == [c \in Channels |-> DeadBatteryTick(s.chan[c], c, r)]
<1>1. \A c \in Channels : Like(s.chan[c], f[c]) /\ f[c].pwm = s.chan[c].pwm
  BY DeadLike, ChargerFields
<1>2. f \in [Channels -> ChannelRecords]
  BY <1>1 DEF Like
<1>. HIDE DEF f
<1>3. Moves(s, [s EXCEPT !.chan = f])
  BY <1>1, <1>2, EachMoves
<1>4. [s EXCEPT !.chan = f].chan = f
  BY DEF Chargers
<1>5. Silenced(s) => Silenced([s EXCEPT !.chan = f])
  BY <1>1, <1>4 DEF Silenced
<1>. QED
  BY <1>3, <1>5 DEF Each, f

LEMMA PausedMoves ==
  ASSUME NEW s \in Chargers
  PROVE  Moves(s, PausedOnBlind(s)) /\ Silenced(PausedOnBlind(s))
<1>. DEFINE kept(k) == IF Active(k) /\ k.enabled /\ ~s.hub.manual THEN k.duty ELSE 0
            g(k) == [Silent(k) EXCEPT
                       !.saved = IF s.hub.blind THEN @ ELSE kept(k),
                       !.grace = @ /\ k.state = "ABSORB",
                       !.step = IF k.charging THEN 0 ELSE @]
            f == [c \in Channels |-> g(s.chan[c])]
            h == [s.hub EXCEPT !.coil = FALSE, !.blind = TRUE]
<1>0. ASSUME NEW j \in ChannelRecords, NEW duty \in Duties, NEW bit \in BOOLEAN,
             NEW time \in 0 .. DeadTime
      PROVE  [j EXCEPT !.saved = duty, !.grace = bit, !.step = time]
               \in ChannelRecords
  BY DEF ChannelRecords
<1>1. ASSUME NEW k \in ChannelRecords PROVE Like(k, g(k)) /\ g(k).pwm = 0
  <2>. DEFINE j == Silent(k)
              saved == IF s.hub.blind THEN j.saved ELSE kept(k)
              grace == j.grace /\ k.state = "ABSORB"
              step == IF k.charging THEN 0 ELSE j.step
              i == [j EXCEPT !.saved = saved, !.grace = grace, !.step = step]
  <2>1. j \in ChannelRecords /\ j.pwm = 0 /\ Like(k, j)
    BY StoppedTyped, StoppedLike
  <2>2. kept(k) \in Duties
    BY Constants DEF ChannelRecords
  <2>. HIDE DEF kept
  <2>3. g(k) = i
    OBVIOUS
  <2>. HIDE DEF g, j
  <2>4. saved \in Duties /\ grace \in BOOLEAN /\ step \in 0 .. DeadTime
    BY <2>1, <2>2, Constants DEF ChannelRecords
  <2>. HIDE DEF saved, grace, step
  <2>5. i \in ChannelRecords
    BY <1>0, <2>1, <2>4
  <2>6. i.pwm = 0 /\ i.state = j.state /\ i.strikes = j.strikes
    BY <2>1 DEF ChannelRecords
  <2>. HIDE DEF i
  <2>. QED
    BY <2>1, <2>3, <2>5, <2>6 DEF Like
<1>2. PausedOnBlind(s) = [chan |-> f, hub |-> h]
  BY DEF PausedOnBlind
<1>. HIDE DEF g
<1>3. \A c \in Channels : Like(s.chan[c], f[c]) /\ f[c].pwm = 0
  BY <1>1, ChargerFields
<1>4. f \in [Channels -> ChannelRecords]
  BY <1>3 DEF Like
<1>5. h \in HubRecords /\ h.relayOpen = s.hub.relayOpen /\ h.locked = s.hub.locked
  BY ChargerFields DEF HubRecords
<1>. HIDE DEF f, h
<1>6. Moves(s, [chan |-> f, hub |-> h])
  BY <1>3, <1>4, <1>5, Rebuilt
<1>. QED
  BY <1>2, <1>3, <1>6 DEF Silenced

LEMMA SeenMoves ==
  ASSUME NEW s \in Chargers, NEW r \in ReadingStates
  PROVE  Moves(s, Seen(s, r))
<1>. DEFINE g(k) == [k EXCEPT !.step = IF k.charging THEN 0 ELSE @]
            f == [c \in Channels |-> g(s.chan[c])]
            h == [s.hub EXCEPT !.blind = FALSE]
            b == BlindOver(s)
            w == [c \in Channels |-> Watched(b.chan[c], r.volts[c])]
<1>1. ASSUME NEW k \in ChannelRecords PROVE Like(k, g(k))
  <2>. DEFINE step == IF k.charging THEN 0 ELSE k.step
  <2>1. step \in 0 .. DeadTime
    BY Constants DEF ChannelRecords
  <2>. HIDE DEF step
  <2>2. Like(k, [k EXCEPT !.step = step])
    BY <2>1 DEF Like, ChannelRecords
  <2>. QED
    BY <2>2 DEF step
<1>2. b = IF ~s.hub.blind THEN s ELSE [chan |-> f, hub |-> h]
  BY DEF BlindOver
<1>. HIDE DEF g, b
<1>3. \A c \in Channels : Like(s.chan[c], f[c])
  BY <1>1, ChargerFields
<1>4. f \in [Channels -> ChannelRecords]
  BY <1>3 DEF Like
<1>5. h \in HubRecords /\ h.relayOpen = s.hub.relayOpen /\ h.locked = s.hub.locked
  BY ChargerFields DEF HubRecords
<1>. HIDE DEF f, h
<1>6. Moves(s, [chan |-> f, hub |-> h])
  BY <1>3, <1>4, <1>5, Rebuilt
<1>7. Moves(s, s)
  BY ChargerFields DEF Moves, Like
<1>8. Moves(s, b) /\ b \in Chargers
  BY <1>2, <1>6, <1>7 DEF Moves
<1>9. \A c \in Channels : Like(b.chan[c], w[c])
  BY <1>8, BackLike, ChargerFields DEF ReadingStates
<1>10. w \in [Channels -> ChannelRecords]
  BY <1>9 DEF Like
<1>11. Seen(s, r) = [b EXCEPT !.chan = w]
  BY DEF Seen, Each, b
<1>. HIDE DEF w
<1>12. Moves(b, Seen(s, r))
  BY <1>8, <1>9, <1>10, <1>11, EachMoves
<1>. QED
  BY <1>8, <1>12, MovesOn

LEMMA InputLostMoves ==
  ASSUME NEW s \in Chargers, NEW r \in ReadingStates, ~s.hub.relayOpen,
         \A c \in Channels : s.chan[c].state # "FINAL_FAULT"
  PROVE  Moves(s, InputLost(s, r)) /\ Silenced(InputLost(s, r))
<1>. DEFINE f == [c \in Channels |-> IF s.chan[c].state = "FINAL_FAULT"
                    THEN s.chan[c] ELSE DeadBatteryTick(s.chan[c], c, r)]
            ticked == [s EXCEPT !.chan = f]
            idle == SafeIdle(ticked)
            waiting(k) == [k EXCEPT !.state = "INPUT_WAIT"]
            g(k, c) == IF k.state = "FINAL_FAULT" THEN k
                       ELSE DeadBatteryTick(waiting(k), c, r)
            h == [c \in Channels |-> g(idle.chan[c], c)]
<1>1. \A c \in Channels : Like(s.chan[c], f[c])
  BY DeadLike, ChargerFields
<1>2. f \in [Channels -> ChannelRecords]
  BY <1>1 DEF Like
<1>3. InputLost(s, r) = [idle EXCEPT !.chan = h]
  BY DEF InputLost, Each
<1>. HIDE DEF f
<1>4. Moves(s, ticked)
  BY <1>1, <1>2, EachMoves
<1>. HIDE DEF ticked
<1>5. Moves(ticked, idle) /\ Silenced(idle)
  BY <1>4, SafeIdleMoves DEF Moves
<1>. HIDE DEF idle
<1>6. Moves(s, idle)
  BY <1>4, <1>5, MovesOn
<1>7. ASSUME NEW k \in ChannelRecords, NEW c \in Channels
      PROVE  Like(k, g(k, c)) /\ g(k, c).pwm = k.pwm
  <2>. DEFINE j == waiting(k)
  <2>1. /\ j \in ChannelRecords /\ j.pwm = k.pwm
        /\ k.state # "FINAL_FAULT" => Like(k, j)
    BY DEF Like, ChannelRecords, States
  <2>. HIDE DEF waiting
  <2>2. Like(j, DeadBatteryTick(j, c, r)) /\ DeadBatteryTick(j, c, r).pwm = j.pwm
    BY <2>1, DeadLike
  <2>. QED
    BY <2>1, <2>2 DEF Like
<1>. HIDE DEF g
<1>8. idle \in Chargers
  BY <1>5 DEF Moves
<1>9. \A c \in Channels : Like(idle.chan[c], h[c]) /\ h[c].pwm = 0
  BY <1>5, <1>7, <1>8, ChargerFields DEF Silenced
<1>10. h \in [Channels -> ChannelRecords]
  BY <1>9 DEF Like
<1>. HIDE DEF h
<1>11. Moves(idle, [idle EXCEPT !.chan = h])
  BY <1>8, <1>9, <1>10, EachMoves
<1>12. [idle EXCEPT !.chan = h].chan = h
  BY <1>8 DEF Chargers
<1>. QED
  BY <1>3, <1>6, <1>9, <1>11, <1>12, MovesOn DEF Silenced
-----------------------------------------------------------------------------
(* A strike, and what it may lead to.                                      *)

\* Three strikes are a final fault, and a final fault opens the relay.
Sound(s) ==
  /\ \A c \in Channels : s.chan[c].strikes = 3 => s.chan[c].state = "FINAL_FAULT"
  /\ \A c \in Channels : s.chan[c].state = "FINAL_FAULT" => s.hub.relayOpen

\* Nothing that lasts is taken back.
Holds(s, t) ==
  /\ s.hub.locked => t.hub.locked
  /\ s.hub.relayOpen => t.hub.relayOpen
  /\ \A c \in Channels :
       s.chan[c].state = "FINAL_FAULT" => t.chan[c].state = "FINAL_FAULT"

LEMMA HoldsOn ==
  ASSUME NEW s, NEW t, NEW u, Holds(s, t), Holds(t, u) PROVE Holds(s, u)
  BY DEF Holds

LEMMA MovesHold ==
  ASSUME NEW s, NEW t, Moves(s, t)
  PROVE  /\ t \in Chargers /\ Holds(s, t) /\ (Sound(s) => Sound(t))
         /\ t.hub.relayOpen = s.hub.relayOpen /\ t.hub.locked = s.hub.locked
  BY DEF Moves, Like, Sound, Holds

LEMMA DisconnectedHolds ==
  ASSUME NEW s \in Chargers, NEW present \in BOOLEAN,
         \A c \in Channels : s.chan[c].strikes = 3 => s.chan[c].state = "FINAL_FAULT"
  PROVE  LET t == Disconnected(s, present)
         IN /\ t \in Chargers /\ Silenced(t) /\ Sound(t) /\ Holds(s, t)
            /\ t.hub.locked = s.hub.locked
<1>. DEFINE t == Disconnected(s, present)
<1>1. /\ t \in Chargers /\ Silenced(t) /\ t.hub.relayOpen
      /\ t.hub.locked = s.hub.locked
      /\ \A c \in Channels : Like(s.chan[c], t.chan[c])
  BY DisconnectedTo
<1>. HIDE DEF t
<1>2. Sound(t) /\ Holds(s, t)
  BY <1>1 DEF Sound, Holds, Like
<1>. QED
  BY <1>1, <1>2 DEF t

\* A channel that takes its strike, by its old record k.
LEMMA Struck ==
  ASSUME NEW k \in ChannelRecords, k.strikes # 3, NEW manual \in BOOLEAN
  PROVE  LET j == [k EXCEPT !.strikes = @ + 1, !.heal = 1]
         IN /\ j.strikes = k.strikes + 1
            /\ [j EXCEPT !.state = "FINAL_FAULT", !.strikes = 3] \in ChannelRecords
            /\ [j EXCEPT !.state = "FINAL_FAULT", !.strikes = 3].state = "FINAL_FAULT"
            /\ k.strikes + 1 < 3 =>
                 LET i == [StopOneChannel(j) EXCEPT
                             !.before = k.duty, !.state = "JIT_RETRY_WAIT",
                             !.lockout = IF manual THEN 0 ELSE LockoutTime]
                 IN /\ i \in ChannelRecords /\ i.state = "JIT_RETRY_WAIT"
                    /\ i.strikes # 3
<1>. DEFINE count == k.strikes + 1
            j == [k EXCEPT !.strikes = count, !.heal = 1]
            i == StopOneChannel(j)
            time == IF manual THEN 0 ELSE LockoutTime
<1>1. count \in 0 .. 3 /\ (count < 3 => count # 3)
  BY DEF ChannelRecords
<1>2. time \in 0 .. LockoutTime /\ k.duty \in Duties
  BY Constants DEF ChannelRecords
<1>0. ASSUME NEW n \in 0 .. 3
      PROVE  LET p == [k EXCEPT !.strikes = n, !.heal = 1]
             IN p \in ChannelRecords /\ p.strikes = n
  BY Constants DEF ChannelRecords
<1>. HIDE DEF count, time
<1>3. j \in ChannelRecords /\ j.strikes = count
  BY <1>0, <1>1
<1>. HIDE DEF j
<1>4. i \in ChannelRecords /\ i.strikes = count
  BY <1>3, StoppedTyped, StoppedLike
<1>. HIDE DEF i
<1>5. LET p == [i EXCEPT !.before = k.duty, !.state = "JIT_RETRY_WAIT",
                         !.lockout = time]
      IN /\ p \in ChannelRecords /\ p.state = "JIT_RETRY_WAIT"
         /\ p.strikes = count
  BY <1>2, <1>4 DEF ChannelRecords, States
<1>6. LET p == [j EXCEPT !.state = "FINAL_FAULT", !.strikes = 3]
      IN p \in ChannelRecords /\ p.state = "FINAL_FAULT"
  BY <1>3, Constants DEF ChannelRecords, States
<1>. QED
  BY <1>1, <1>3, <1>5, <1>6 DEF count, time, j, i

LEMMA TripHolds ==
  ASSUME NEW s \in Chargers, Sound(s), NEW c \in Channels,
         s.chan[c].state # "FINAL_FAULT"
  PROVE  LET t == HandleJitTrip(s, c)
         IN /\ t \in Chargers /\ Sound(t) /\ Holds(s, t)
            /\ t.hub.locked = s.hub.locked
<1>. DEFINE k == s.chan[c]
            j == [k EXCEPT !.strikes = @ + 1, !.heal = 1]
            final == [j EXCEPT !.state = "FINAL_FAULT", !.strikes = 3]
            parked == [StopOneChannel(j) EXCEPT
                         !.before = k.duty, !.state = "JIT_RETRY_WAIT",
                         !.lockout = IF s.hub.manual THEN 0 ELSE LockoutTime]
            h == [s.hub EXCEPT !.retry = NoChannel]
            g == [s.hub EXCEPT !.retry =
                    IF ~s.hub.manual /\ @ = NoChannel THEN c ELSE @]
            over == [chan |-> [s.chan EXCEPT ![c] = final], hub |-> h]
            wait == [chan |-> [s.chan EXCEPT ![c] = parked], hub |-> g]
<1>1. /\ k \in ChannelRecords /\ k.strikes # 3 /\ s.hub.manual \in BOOLEAN
      /\ s.chan \in [Channels -> ChannelRecords] /\ k.strikes \in 0 .. 3
  BY ChargerFields DEF Sound, HubRecords, ChannelRecords
<1>2. /\ j.strikes = k.strikes + 1
      /\ final \in ChannelRecords /\ final.state = "FINAL_FAULT"
      /\ k.strikes + 1 < 3 => /\ parked \in ChannelRecords
                              /\ parked.state = "JIT_RETRY_WAIT"
                              /\ parked.strikes # 3
  BY <1>1, Struck, ZenonT(60)
<1>3. HandleJitTrip(s, c) =
        IF j.strikes >= 3 THEN Disconnected(over, TRUE) ELSE wait
  BY DEF HandleJitTrip
<1>4. /\ h \in HubRecords /\ h.locked = s.hub.locked
      /\ h.relayOpen = s.hub.relayOpen
  BY ChargerFields DEF HubRecords
<1>5. /\ g \in HubRecords /\ g.locked = s.hub.locked
      /\ g.relayOpen = s.hub.relayOpen
  BY ChargerFields DEF HubRecords
<1>. HIDE DEF j, final, parked, h, g
<1>6. CASE j.strikes >= 3
  <2>1. over \in Chargers
    BY <1>1, <1>2, <1>4 DEF Chargers
  <2>2. \A d \in Channels :
          over.chan[d].strikes = 3 => over.chan[d].state = "FINAL_FAULT"
    BY <1>1, <1>2 DEF Sound
  <2>3. Holds(s, over)
    BY <1>1, <1>2, <1>4 DEF Holds
  <2>4. over.hub.locked = s.hub.locked
    BY <1>4
  <2>. HIDE DEF over
  <2>5. LET t == Disconnected(over, TRUE)
        IN /\ t \in Chargers /\ Sound(t) /\ Holds(over, t)
           /\ t.hub.locked = over.hub.locked
    BY <2>1, <2>2, DisconnectedHolds
  <2>6. Holds(s, Disconnected(over, TRUE))
    BY <2>3, <2>5, HoldsOn
  <2>. QED
    BY <1>3, <1>6, <2>4, <2>5, <2>6
<1>7. CASE ~(j.strikes >= 3)
  <2>1. k.strikes + 1 < 3
    BY <1>1, <1>2, <1>7
  <2>2. wait \in Chargers
    BY <1>1, <1>2, <1>5, <2>1 DEF Chargers
  <2>3. Sound(wait) /\ Holds(s, wait)
    BY <1>1, <1>2, <1>5, <2>1 DEF Sound, Holds
  <2>4. wait.hub.locked = s.hub.locked
    BY <1>5
  <2>. HIDE DEF over, wait
  <2>. QED
    BY <1>3, <1>7, <2>2, <2>3, <2>4
<1>. QED
  BY <1>6, <1>7

LEMMA ServedHolds ==
  ASSUME NEW s \in Chargers, Sound(s), NEW c \in Channels
  PROVE  LET t == JitServed(s, c)
         IN /\ t \in Chargers /\ Sound(t) /\ Holds(s, t)
            /\ t.hub.locked = s.hub.locked
  BY TripHolds DEF JitServed, Holds

LEMMA RetryMoves ==
  ASSUME NEW s \in Chargers
  PROVE  Moves(s, ServiceRetry(s))
<1>. DEFINE first == CHOOSE w \in Waiting(s) : \A v \in Waiting(s) : w <= v
            c == IF s.hub.retry # NoChannel \/ Waiting(s) = {} THEN s.hub.retry
                 ELSE first
            k == StopOneChannel(s.chan[c])
            on == [k EXCEPT !.state = "BULK", !.trip = FALSE]
<1>1. s.hub \in HubRecords /\ s.chan \in [Channels -> ChannelRecords]
  BY ChargerFields
<1>2. ServiceRetry(s) =
        IF c \notin Waiting(s) THEN [s EXCEPT !.hub.retry = NoChannel]
        ELSE IF k.lockout > 0 THEN [s EXCEPT !.chan[c] = k, !.hub.retry = c]
        ELSE [s EXCEPT !.hub.retry = NoChannel,
                       !.chan[c] = Applied(on, RetryDuty(k))]
  BY DEF ServiceRetry
<1>. HIDE DEF c
<1>3. ASSUME NEW d \in Channels \cup {NoChannel}
      PROVE  Moves(s, [s EXCEPT !.hub.retry = d])
  BY <1>1 DEF Moves, Chargers, HubRecords, Like
<1>4. CASE c \notin Waiting(s)
  BY <1>2, <1>3, <1>4
<1>5. CASE c \in Waiting(s)
  <2>1. c \in Channels /\ s.chan[c] \in ChannelRecords
        /\ s.chan[c].state = "JIT_RETRY_WAIT"
    BY <1>1, <1>5 DEF Waiting
  <2>2. k \in ChannelRecords /\ Like(s.chan[c], k)
    BY <2>1, StoppedLike, StoppedTyped
  <2>3. k.state = "JIT_RETRY_WAIT"
    BY <2>1, StoppedLike
  <2>. HIDE DEF k
  <2>4. on \in ChannelRecords /\ Like(k, on)
    BY <2>2, <2>3, ZenonT(60) DEF Like, ChannelRecords, States
  <2>. HIDE DEF on
  <2>5. RetryDuty(k) \in Nat
    BY <2>2, RetryDutyTyped
  <2>6. Like(on, Applied(on, RetryDuty(k)))
    BY <2>4, <2>5, AppliedLike
  <2>7. Like(s.chan[c], Applied(on, RetryDuty(k)))
    BY <2>2, <2>4, <2>6 DEF Like
  <2>8. ASSUME NEW j, Like(s.chan[c], j), NEW d \in Channels \cup {NoChannel},
               NEW t, t = [s EXCEPT !.hub.retry = d, !.chan[c] = j]
        PROVE  Moves(s, t)
    <3>1. t \in Chargers /\ t.hub.relayOpen = s.hub.relayOpen
          /\ t.hub.locked = s.hub.locked /\ t.chan = [s.chan EXCEPT ![c] = j]
      BY <1>1, <2>1, <2>8 DEF Chargers, HubRecords, Like
    <3>2. \A e \in Channels : Like(s.chan[e], t.chan[e])
      BY <1>1, <2>1, <2>8, <3>1 DEF Like
    <3>. QED
      BY <3>1, <3>2 DEF Moves
  <2>9. [s EXCEPT !.chan[c] = k, !.hub.retry = c]
          = [s EXCEPT !.hub.retry = c, !.chan[c] = k]
    BY DEF Chargers
  <2>10. Moves(s, [s EXCEPT !.hub.retry = c, !.chan[c] = k])
    BY <2>1, <2>2, <2>8
  <2>11. Moves(s, [s EXCEPT !.hub.retry = NoChannel,
                            !.chan[c] = Applied(on, RetryDuty(k))])
    BY <2>7, <2>8
  <2>. QED
    BY <1>2, <1>5, <2>9, <2>10, <2>11
<1>. QED
  BY <1>4, <1>5

LEMMA DriveMoves ==
  ASSUME NEW s \in Chargers, NEW r \in ReadingStates,
         \A c \in Channels : s.chan[c].state # "FINAL_FAULT"
  PROVE  Moves(s, DriveAll(s, r))
<1>. DEFINE f == [c \in Channels |-> InputBack(s.chan[c])]
            back == [s EXCEPT !.chan = f]
            again == {c \in Waiting(back) : s.hub.manual /\ back.chan[c].rearm}
            g == [c \in Channels |-> IF c \in again THEN Rearmed(back.chan[c])
                                     ELSE back.chan[c]]
            ready == [back EXCEPT !.chan = g]
            h == [c \in Channels |-> IF c \in Waiting(ready) THEN ready.chan[c]
                    ELSE Driven(ready.chan[c], c, r, s.hub.manual)]
            driven == [ready EXCEPT !.chan = h]
<1>1. DriveAll(s, r) =
        [driven EXCEPT !.hub.retry = IF @ \in again THEN NoChannel ELSE @]
  BY DEF DriveAll, Each, driven, h, ready, g, back, again, f
<1>2. \A c \in Channels : Like(s.chan[c], f[c])
  BY BackLike, ChargerFields
<1>3. f \in [Channels -> ChannelRecords]
  BY <1>2 DEF Like
<1>. HIDE DEF f
<1>4. Moves(s, back)
  BY <1>2, <1>3, EachMoves
<1>. HIDE DEF back, again
<1>5. back \in Chargers /\ \A c \in Channels : /\ back.chan[c] \in ChannelRecords
                                               /\ back.chan[c].state # "FINAL_FAULT"
  BY <1>4, ChargerFields DEF Moves, Like
<1>6. \A c \in Channels : Like(back.chan[c], g[c])
  <2>1. \A c \in Channels : Like(back.chan[c], back.chan[c])
    BY <1>5 DEF Like
  <2>. QED
    BY <1>5, <2>1, BackLike
<1>7. g \in [Channels -> ChannelRecords]
  BY <1>6 DEF Like
<1>. HIDE DEF g
<1>8. Moves(back, ready)
  BY <1>5, <1>6, <1>7, EachMoves
<1>. HIDE DEF ready
<1>9. ready \in Chargers
      /\ \A c \in Channels : /\ ready.chan[c] \in ChannelRecords
                             /\ ready.chan[c].state # "FINAL_FAULT"
  BY <1>5, <1>8, ChargerFields DEF Moves, Like
<1>10. \A c \in Channels : Like(ready.chan[c], h[c])
  <2>1. \A c \in Channels : Like(ready.chan[c], ready.chan[c])
    BY <1>9 DEF Like
  <2>2. s.hub.manual \in BOOLEAN
    BY ChargerFields DEF HubRecords
  <2>. QED
    BY <1>9, <2>1, <2>2, DrivenLike
<1>11. h \in [Channels -> ChannelRecords]
  BY <1>10 DEF Like
<1>. HIDE DEF h
<1>12. Moves(ready, driven)
  BY <1>9, <1>10, <1>11, EachMoves
<1>. HIDE DEF driven
<1>13. Moves(s, driven)
  BY <1>4, <1>8, <1>12, MovesOn
<1>. DEFINE retry == IF driven.hub.retry \in again THEN NoChannel
                     ELSE driven.hub.retry
<1>14. retry \in Channels \cup {NoChannel}
  BY <1>12, ChargerFields DEF Moves, HubRecords
<1>. HIDE DEF retry
<1>15. LET t == [driven EXCEPT !.hub.retry = retry]
       IN /\ t \in Chargers /\ t.chan = driven.chan
          /\ t.hub.relayOpen = driven.hub.relayOpen
          /\ t.hub.locked = driven.hub.locked
  BY <1>12, <1>14 DEF Moves, Chargers, HubRecords
<1>. QED
  BY <1>1, <1>13, <1>15 DEF Moves, retry

\* Where a pass leads: nothing that lasts is taken back, and a relay that is
\* open, or a verdict, leaves no channel driven.
Ends(s, t) ==
  /\ t \in Chargers /\ Sound(t) /\ Holds(s, t)
  /\ t.hub.relayOpen \/ t.hub.locked => Silenced(t)

LEMMA PoweredEnds ==
  ASSUME NEW s \in Chargers, Sound(s), ~s.hub.relayOpen, ~s.hub.locked,
         NEW r \in ReadingStates
  PROVE  Ends(s, Powered(s, r)) /\ ~Powered(s, r).hub.locked
<1>. DEFINE once == JitServed(s, 0)
            struck == JitServed(once, 1)
            served == IF s.hub.manual THEN struck ELSE ServiceRetry(struck)
<1>1. 0 \in Channels /\ 1 \in Channels
  BY DEF Channels
<1>2. once \in Chargers /\ Sound(once) /\ Holds(s, once)
      /\ once.hub.locked = s.hub.locked
  BY <1>1, ServedHolds
<1>. HIDE DEF once
<1>3. struck \in Chargers /\ Sound(struck) /\ Holds(once, struck)
      /\ struck.hub.locked = once.hub.locked
  BY <1>1, <1>2, ServedHolds
<1>. HIDE DEF struck
<1>4. Moves(struck, struck) /\ Moves(struck, ServiceRetry(struck))
  BY <1>3, RetryMoves, ChargerFields DEF Moves, Like
<1>5. served \in Chargers /\ Sound(served) /\ Holds(struck, served)
      /\ served.hub.locked = s.hub.locked
  BY <1>2, <1>3, <1>4, MovesHold
<1>6. Powered(s, r) = IF served.hub.relayOpen THEN Disconnected(served, r.present)
                      ELSE DriveAll(served, r)
  BY DEF Powered, served, struck, once
<1>. HIDE DEF served
<1>7. Holds(s, served)
  BY <1>2, <1>3, <1>5, HoldsOn
<1>8. CASE served.hub.relayOpen
  <2>1. r.present \in BOOLEAN
    BY DEF ReadingStates
  <2>2. LET t == Disconnected(served, r.present)
        IN /\ t \in Chargers /\ Silenced(t) /\ Sound(t) /\ Holds(served, t)
           /\ t.hub.locked = served.hub.locked
    BY <1>5, <2>1, DisconnectedHolds DEF Sound
  <2>. QED
    BY <1>5, <1>6, <1>7, <1>8, <2>2, HoldsOn DEF Ends
<1>9. CASE ~served.hub.relayOpen
  <2>. DEFINE t == DriveAll(served, r)
  <2>1. Moves(served, t)
    BY <1>5, <1>9, DriveMoves DEF Sound
  <2>. HIDE DEF t
  <2>2. /\ t \in Chargers /\ Holds(served, t) /\ Sound(t)
        /\ t.hub.relayOpen = served.hub.relayOpen
        /\ t.hub.locked = served.hub.locked
    BY <1>5, <2>1, MovesHold
  <2>3. Holds(s, t)
    BY <1>7, <2>2, HoldsOn
  <2>. QED
    BY <1>5, <1>6, <1>9, <2>2, <2>3 DEF Ends, t
<1>. QED
  BY <1>8, <1>9

\* Charger_Evaluate below the suspension and the verdict.
LEMMA UnlockedEnds ==
  ASSUME NEW w \in Chargers, Sound(w), ~w.hub.locked, NEW q \in ReadingStates,
         PassUnlocked(w, q)
  PROVE  \E t : Ends(w, t) /\ Becomes(t) /\ ~t.hub.locked
<1>. DEFINE r == Told(w, q)
            s == Mirrored(w, r)
<1>1. r \in ReadingStates
  <2>. DEFINE lost == q.lost /\ ~hub.manual /\ ~w.hub.manual
  <2>1. lost \in BOOLEAN
    OBVIOUS
  <2>2. r = [q EXCEPT !.lost = lost]
    BY DEF Told
  <2>. HIDE DEF lost, r
  <2>. QED
    BY <2>1, <2>2 DEF ReadingStates
<1>2. \/ PassDisconnected(s, r) \/ PassFaulted(s, r) \/ PassBlind(s, r)
      \/ PassNoInput(s, r) \/ PassPowered(s, r)
  BY DEF PassUnlocked
<1>. HIDE DEF r
<1>3. Moves(w, s)
  BY MirroredMoves
<1>. HIDE DEF s
<1>4. s \in Chargers /\ Sound(s) /\ Holds(w, s) /\ ~s.hub.locked
  BY <1>3, MovesHold
<1>5. SUFFICES \E t : Ends(s, t) /\ Becomes(t) /\ ~t.hub.locked
  BY <1>4, HoldsOn DEF Ends
<1>6. ASSUME NEW t, Moves(s, t), Silenced(t) PROVE Ends(s, t) /\ ~t.hub.locked
  BY <1>4, <1>6, MovesHold DEF Ends
<1>7. CASE PassDisconnected(s, r)
  <2>1. LET t == Disconnected(s, r.present)
        IN /\ t \in Chargers /\ Silenced(t) /\ Sound(t) /\ Holds(s, t)
           /\ t.hub.locked = s.hub.locked
    BY <1>1, <1>4, DisconnectedHolds DEF Sound, ReadingStates
  <2>. QED
    BY <1>4, <1>7, <2>1 DEF Ends, PassDisconnected
<1>8. CASE PassFaulted(s, r)
  <2>. DEFINE idle == SafeIdle(s)
              t == Each(idle, LAMBDA k, c : DeadBatteryTick(k, c, r))
  <2>1. Becomes(IF ~r.valid THEN idle ELSE t) /\ ~s.hub.relayOpen
    BY <1>8 DEF PassFaulted, HeldOpen
  <2>2. Moves(s, idle) /\ Silenced(idle)
    BY <1>4, <2>1, SafeIdleMoves
  <2>3. Moves(idle, t) /\ Silenced(t)
    BY <1>1, <2>2, TickedMoves DEF Moves
  <2>. HIDE DEF idle, t
  <2>4. Moves(s, t)
    BY <2>2, <2>3, MovesOn
  <2>. QED
    BY <1>6, <2>1, <2>2, <2>3, <2>4
<1>9. CASE PassBlind(s, r)
  BY <1>4, <1>6, <1>9, PausedMoves DEF PassBlind
<1>10. ASSUME ~HeldOpen(s)
       PROVE  LET t == Seen(s, r)
              IN /\ Moves(s, t) /\ t \in Chargers /\ Sound(t) /\ Holds(s, t)
                 /\ ~t.hub.relayOpen /\ ~t.hub.locked
                 /\ \A c \in Channels : t.chan[c].state # "FINAL_FAULT"
  <2>1. Moves(s, Seen(s, r))
    BY <1>1, <1>4, SeenMoves
  <2>. QED
    BY <1>4, <1>10, <2>1, MovesHold DEF HeldOpen, Sound
<1>11. CASE PassNoInput(s, r)
  <2>. DEFINE seen == Seen(s, r)
              t == InputLost(seen, r)
  <2>1. Becomes(t) /\ ~HeldOpen(s)
    BY <1>11 DEF PassNoInput
  <2>2. /\ Moves(s, seen) /\ seen \in Chargers /\ ~seen.hub.relayOpen
        /\ \A c \in Channels : seen.chan[c].state # "FINAL_FAULT"
    BY <1>10, <2>1
  <2>. HIDE DEF seen
  <2>3. Moves(seen, t) /\ Silenced(t)
    BY <1>1, <2>2, InputLostMoves
  <2>. HIDE DEF t
  <2>4. Moves(s, t)
    BY <2>2, <2>3, MovesOn
  <2>. QED
    BY <1>6, <2>1, <2>3, <2>4
<1>12. CASE PassPowered(s, r)
  <2>. DEFINE seen == Seen(s, r)
              t == Powered(seen, r)
  <2>1. Becomes(t) /\ ~HeldOpen(s)
    BY <1>12 DEF PassPowered
  <2>2. /\ seen \in Chargers /\ Sound(seen) /\ Holds(s, seen)
        /\ ~seen.hub.relayOpen /\ ~seen.hub.locked
    BY <1>10, <2>1
  <2>. HIDE DEF seen
  <2>3. Ends(seen, t) /\ ~t.hub.locked
    BY <1>1, <2>2, PoweredEnds
  <2>. HIDE DEF t
  <2>4. Ends(s, t)
    BY <2>2, <2>3, HoldsOn DEF Ends
  <2>. QED
    BY <2>1, <2>3, <2>4
<1>. QED
  BY <1>2, <1>7, <1>8, <1>9, <1>11, <1>12
-----------------------------------------------------------------------------
(* The steps of the specification.                                         *)

Whole == [chan |-> chan, hub |-> hub]
WholeNext == [chan |-> chan', hub |-> hub']

\* Every reachable state: typed, with three strikes a final fault, a final fault
\* behind an open relay, and nothing driven behind that or a verdict.
ChargerInv ==
  /\ TypeOK /\ Sound(Whole)
  /\ hub.relayOpen \/ hub.locked => Silenced(Whole)

LEMMA WholeTyped ==
  /\ TypeOK <=> Whole \in Chargers
  /\ Whole.chan = chan /\ Whole.hub = hub
  BY DEF TypeOK, Whole, Chargers

LEMMA BecomesNext ==
  ASSUME NEW t \in Chargers, Becomes(t)
  PROVE  chan' = t.chan /\ hub' = t.hub /\ WholeNext = t
  BY DEF Becomes, WholeNext, Chargers

LEMMA PassEnds ==
  ASSUME ChargerInv, NEW r \in Readings, Pass(r)
  PROVE  \E t : Ends(Whole, t) /\ Becomes(t)
<1>. DEFINE e == Entered(r)
<1>1. r \in ReadingStates
  BY ChargerAssumption DEF ReadingStates
<1>2. /\ e \in Chargers /\ e.hub.relayOpen = hub.relayOpen
      /\ hub.locked => e.hub.locked
      /\ \A c \in Channels : Like(chan[c], e.chan[c])
  BY EnteredMoves DEF ChargerInv
<1>3. \/ PassSuspended(e) \/ PassLocked(e, r)
      \/ ~e.hub.locked /\ PassUnlocked(ModeSwitched(e), r)
  BY DEF Pass
<1>. HIDE DEF e
<1>4. Sound(e) /\ Holds(Whole, e)
  BY <1>2, WholeTyped DEF ChargerInv, Sound, Holds, Like
<1>5. SUFFICES \E t : Ends(e, t) /\ Becomes(t)
  BY <1>4, HoldsOn DEF Ends
<1>6. CASE PassSuspended(e)
  <2>. DEFINE t == Each(e, LAMBDA k, c : [k EXCEPT !.pwm = 0])
  <2>1. Becomes(t) /\ Moves(e, t) /\ Silenced(t)
    BY <1>2, <1>6, SilencedMoves DEF PassSuspended
  <2>. HIDE DEF t
  <2>. QED
    BY <1>4, <2>1, MovesHold DEF Ends
<1>7. CASE PassLocked(e, r)
  <2>1. LET t == Disconnected(e, r.present)
        IN t \in Chargers /\ Silenced(t) /\ Sound(t) /\ Holds(e, t)
    BY <1>1, <1>2, <1>4, DisconnectedHolds DEF Sound, ReadingStates
  <2>. QED
    BY <1>7, <2>1 DEF Ends, PassLocked
<1>8. CASE ~e.hub.locked /\ PassUnlocked(ModeSwitched(e), r)
  <2>. DEFINE w == ModeSwitched(e)
  <2>1. Moves(e, w)
    BY <1>2, ModeMoves
  <2>. HIDE DEF w
  <2>2. w \in Chargers /\ Sound(w) /\ Holds(e, w) /\ ~w.hub.locked
    BY <1>4, <1>8, <2>1, MovesHold
  <2>3. \E t : Ends(w, t) /\ Becomes(t)
    BY <1>1, <1>8, <2>2, UnlockedEnds DEF w
  <2>. QED
    BY <2>2, <2>3, HoldsOn DEF Ends
<1>. QED
  BY <1>3, <1>6, <1>7, <1>8

\* What comes between two passes leaves what lasts, and drives nothing.
LEMMA BetweenHolds ==
  ASSUME ChargerInv, NEW f, NEW h \in HubRecords, chan' = f, hub' = h,
         f = [c \in Channels |-> f[c]],
         h.relayOpen = hub.relayOpen, h.locked = hub.locked,
         \A c \in Channels : /\ Like(chan[c], f[c])
                             /\ f[c].pwm = chan[c].pwm \/ f[c].pwm = 0
  PROVE  ChargerInv' /\ Holds(Whole, WholeNext)
<1>1. f \in [Channels -> ChannelRecords]
  BY DEF Like
<1>2. TypeOK'
  BY <1>1 DEF TypeOK
<1>3. WholeNext.chan = f /\ WholeNext.hub = h
  BY DEF WholeNext
<1>4. Sound(WholeNext) /\ Holds(Whole, WholeNext)
  BY <1>3, WholeTyped DEF ChargerInv, Sound, Holds, Like
<1>5. hub'.relayOpen \/ hub'.locked => Silenced(WholeNext)
  BY <1>3, WholeTyped DEF ChargerInv, Silenced
<1>6. Whole' = WholeNext
  BY DEF Whole, WholeNext
<1>. QED
  BY <1>2, <1>4, <1>5, <1>6 DEF ChargerInv, Sound, Silenced

LEMMA HeardTyped ==
  ASSUME TypeOK
  PROVE  Heard \in HubRecords /\ Heard.relayOpen = hub.relayOpen
         /\ Heard.locked = hub.locked
  BY Constants DEF TypeOK, Heard, HubRecords

LEMMA EdgeHolds ==
  ASSUME ChargerInv, NEW c \in Channels, Edge(c)
  PROVE  ChargerInv' /\ Holds(Whole, WholeNext)
<1>. DEFINE f == [chan EXCEPT ![c].edge = TRUE]
<1>1. chan \in [Channels -> ChannelRecords] /\ hub \in HubRecords
  BY DEF ChargerInv, TypeOK
<1>2. ASSUME NEW k \in ChannelRecords
      PROVE  /\ Like(k, k) /\ Like(k, [k EXCEPT !.edge = TRUE])
             /\ [k EXCEPT !.edge = TRUE].pwm = k.pwm
  BY DEF Like, ChannelRecords
<1>3. \A d \in Channels : Like(chan[d], f[d]) /\ f[d].pwm = chan[d].pwm
  BY <1>1, <1>2
<1>4. f = [d \in Channels |-> f[d]]
  BY <1>1
<1>5. chan' = f /\ hub' = hub
  BY DEF Edge
<1>. HIDE DEF f
<1>. QED
  BY <1>1, <1>3, <1>4, <1>5, BetweenHolds

LEMMA HubHolds ==
  ASSUME ChargerInv, Suspend \/ Resume \/ Frame
                     \/ \E on \in BOOLEAN : SetManualTestMode(on)
  PROVE  ChargerInv' /\ Holds(Whole, WholeNext)
<1>1. chan \in [Channels -> ChannelRecords] /\ hub \in HubRecords
  BY DEF ChargerInv, TypeOK
<1>2. \A c \in Channels : Like(chan[c], chan[c])
  BY <1>1 DEF Like
<1>3. chan = [c \in Channels |-> chan[c]] /\ chan' = chan
  BY <1>1 DEF Suspend, Resume, Frame, SetManualTestMode
<1>4. SUFFICES hub' \in HubRecords /\ hub'.relayOpen = hub.relayOpen
               /\ hub'.locked = hub.locked
  BY <1>1, <1>2, <1>3, BetweenHolds
<1>5. Heard \in HubRecords /\ Heard.relayOpen = hub.relayOpen
      /\ Heard.locked = hub.locked
  BY HeardTyped DEF ChargerInv
<1>6. CASE Suspend
  BY <1>1, <1>6, Limits DEF Suspend, HubRecords
<1>7. CASE Resume
  BY <1>1, <1>7, Limits DEF Resume, HubRecords
<1>8. CASE Frame
  BY <1>5, <1>8 DEF Frame
<1>9. CASE \E on \in BOOLEAN : SetManualTestMode(on)
  BY <1>5, <1>9 DEF SetManualTestMode, HubRecords
<1>. QED
  BY <1>6, <1>7, <1>8, <1>9

LEMMA SwitchHolds ==
  ASSUME ChargerInv, NEW c \in Channels, NEW on \in BOOLEAN,
         NEW duty \in Duties,
         \/ SetEnable(c, on) \/ SetDutyFixedEnable(c, on)
         \/ SetDutyFixed(c, duty)
  PROVE  ChargerInv' /\ Holds(Whole, WholeNext)
<1>1. chan \in [Channels -> ChannelRecords] /\ hub \in HubRecords
  BY DEF ChargerInv, TypeOK
<1>2. Heard \in HubRecords /\ Heard.relayOpen = hub.relayOpen
      /\ Heard.locked = hub.locked
  BY HeardTyped DEF ChargerInv
<1>3. ASSUME NEW j, Like(chan[c], j), j.pwm = chan[c].pwm,
             chan' = [chan EXCEPT ![c] = j], hub' = Heard
      PROVE  ChargerInv' /\ Holds(Whole, WholeNext)
  <2>. DEFINE f == [chan EXCEPT ![c] = j]
  <2>1. f = [d \in Channels |-> f[d]]
    BY <1>1
  <2>2. \A d \in Channels : Like(chan[d], f[d]) /\ f[d].pwm = chan[d].pwm
    BY <1>1, <1>3 DEF Like
  <2>3. chan' = f
    BY <1>3
  <2>. HIDE DEF f
  <2>. QED
    BY <1>2, <1>3, <2>1, <2>2, <2>3, BetweenHolds
<1>4. CASE SetEnable(c, on)
  <2>. DEFINE j == [chan[c] EXCEPT !.enabled = on]
  <2>1. Like(chan[c], j) /\ j.pwm = chan[c].pwm
    BY <1>1 DEF Like, ChannelRecords
  <2>2. chan' = [chan EXCEPT ![c] = j] /\ hub' = Heard
    BY <1>1, <1>4 DEF SetEnable
  <2>. QED
    BY <1>3, <2>1, <2>2
<1>5. CASE SetDutyFixedEnable(c, on)
  <2>. DEFINE j == [chan[c] EXCEPT !.fixed = on]
  <2>1. Like(chan[c], j) /\ j.pwm = chan[c].pwm
    BY <1>1 DEF Like, ChannelRecords
  <2>2. chan' = [chan EXCEPT ![c] = j] /\ hub' = Heard
    BY <1>1, <1>5 DEF SetDutyFixedEnable
  <2>. QED
    BY <1>3, <2>1, <2>2
<1>6. CASE SetDutyFixed(c, duty)
  <2>. DEFINE rearm == chan[c].rearm \/ hub.manual
              j == [chan[c] EXCEPT !.command = duty, !.rearm = rearm]
  <2>1. rearm \in BOOLEAN
    OBVIOUS
  <2>2. chan' = [chan EXCEPT ![c] = j] /\ hub' = Heard
    BY <1>1, <1>6 DEF SetDutyFixed
  <2>. HIDE DEF rearm
  <2>3. ASSUME NEW k \in ChannelRecords, NEW bit \in BOOLEAN
        PROVE  LET i == [k EXCEPT !.command = duty, !.rearm = bit]
               IN Like(k, i) /\ i.pwm = k.pwm
    BY DEF Like, ChannelRecords
  <2>4. Like(chan[c], j) /\ j.pwm = chan[c].pwm
    BY <1>1, <2>1, <2>3
  <2>. HIDE DEF j
  <2>. QED
    BY <1>3, <2>2, <2>4
<1>. QED
  BY <1>4, <1>5, <1>6

\* The panel clears verdicts.
Clears == \E kept \in SUBSET Channels : ClearDead(kept)

LEMMA RestartHolds ==
  ASSUME ChargerInv, RestartCycle \/ Clears
  PROVE  ChargerInv' /\ Holds(Whole, WholeNext)
<1>. DEFINE cool(k) == [k EXCEPT !.rest = 0, !.hot = 0]
            fresh(k) == [k EXCEPT !.condemned = FALSE, !.charged = 0,
                           !.charging = FALSE, !.gap = GapTime, !.rest = 0,
                           !.hot = 0]
            a(k) == IF cool(k).condemned \/ cool(k).state \in NotRestarted
                    THEN cool(k) ELSE StartOver(cool(k))
            b(k) == IF fresh(k).state \in NotRestarted
                    THEN fresh(k) ELSE StartOver(fresh(k))
            f == [c \in Channels |-> a(chan[c])]
            g(S) == [c \in Channels |->
                       IF c \in S THEN chan[c] ELSE b(chan[c])]
<1>1. chan \in [Channels -> ChannelRecords] /\ hub \in HubRecords
  BY DEF ChargerInv, TypeOK
<1>2. Heard \in HubRecords /\ Heard.relayOpen = hub.relayOpen
      /\ Heard.locked = hub.locked
  BY HeardTyped DEF ChargerInv
<1>3. ASSUME NEW k \in ChannelRecords
      PROVE  /\ cool(k) \in ChannelRecords /\ Like(k, cool(k))
             /\ cool(k).pwm = k.pwm
             /\ fresh(k) \in ChannelRecords /\ Like(k, fresh(k))
             /\ fresh(k).pwm = k.pwm
  BY Constants, ZenonT(60) DEF Like, ChannelRecords
<1>4. hub' = Heard /\ (chan' = f \/ \E S \in SUBSET Channels : chan' = g(S))
  <2>1. CASE RestartCycle
    BY <2>1 DEF RestartCycle
  <2>2. CASE Clears
    <3>1. PICK S \in SUBSET Channels : ClearDead(S)
      BY <2>2 DEF Clears
    <3>. QED
      BY <3>1 DEF ClearDead
  <2>. QED
    BY <2>1, <2>2
<1>. HIDE DEF cool, fresh
<1>5. ASSUME NEW k \in ChannelRecords
      PROVE  /\ Like(k, a(k)) /\ (a(k).pwm = k.pwm \/ a(k).pwm = 0)
             /\ Like(k, b(k)) /\ (b(k).pwm = k.pwm \/ b(k).pwm = 0)
  <2>1. ASSUME NEW j \in ChannelRecords, Like(k, j), j.state \notin NotRestarted
        PROVE  Like(k, StartOver(j)) /\ StartOver(j).pwm = 0
    BY <2>1, StoppedLike DEF Like, NotRestarted
  <2>. QED
    BY <1>3, <2>1
<1>. HIDE DEF a, b
<1>6. \A c \in Channels :
        /\ Like(chan[c], f[c]) /\ (f[c].pwm = chan[c].pwm \/ f[c].pwm = 0)
        /\ \A S \in SUBSET Channels :
             /\ Like(chan[c], g(S)[c])
             /\ g(S)[c].pwm = chan[c].pwm \/ g(S)[c].pwm = 0
  <2>1. ASSUME NEW k \in ChannelRecords PROVE Like(k, k)
    BY DEF Like
  <2>. QED
    BY <1>1, <1>5, <2>1
<1>7. /\ f = [c \in Channels |-> f[c]]
      /\ \A S \in SUBSET Channels : g(S) = [c \in Channels |-> g(S)[c]]
  OBVIOUS
<1>. HIDE DEF f, g
<1>8. CASE chan' = f
  BY <1>2, <1>4, <1>6, <1>7, <1>8, BetweenHolds
<1>9. ASSUME NEW S \in SUBSET Channels, chan' = g(S)
      PROVE  ChargerInv' /\ Holds(Whole, WholeNext)
  BY <1>2, <1>4, <1>6, <1>7, <1>9, BetweenHolds
<1>. QED
  BY <1>4, <1>8, <1>9

LEMMA StepHolds ==
  ASSUME ChargerInv, [Next]_vars
  PROVE  ChargerInv' /\ Holds(Whole, WholeNext)
<1>1. ASSUME NEW r \in Readings, Pass(r)
      PROVE  ChargerInv' /\ Holds(Whole, WholeNext)
  <2>1. PICK t : Ends(Whole, t) /\ Becomes(t)
    BY <1>1, PassEnds
  <2>2. t \in Chargers /\ Sound(t) /\ Holds(Whole, t)
        /\ (t.hub.relayOpen \/ t.hub.locked => Silenced(t))
    BY <2>1 DEF Ends
  <2>3. WholeNext = t /\ chan' = t.chan /\ hub' = t.hub
    BY <2>1, <2>2, BecomesNext
  <2>4. TypeOK' /\ Sound(WholeNext)
    BY <2>2, <2>3 DEF TypeOK, Chargers
  <2>5. Whole' = WholeNext
    BY DEF Whole, WholeNext
  <2>. QED
    BY <2>2, <2>3, <2>4, <2>5 DEF ChargerInv, Sound, Silenced
<1>2. CASE UNCHANGED vars
  <2>1. Whole' = Whole /\ WholeNext = Whole /\ ChargerInv'
    BY <1>2 DEF vars, Whole, WholeNext, ChargerInv, TypeOK, Sound, Silenced
  <2>. QED
    BY <2>1 DEF Holds
<1>3. ASSUME Panel PROVE ChargerInv' /\ Holds(Whole, WholeNext)
  <2>1. 0 \in Duties
    BY Constants
  <2>. QED
    BY <1>3, <2>1, HubHolds, RestartHolds, SwitchHolds DEF Panel, Clears
<1>. QED
  BY <1>1, <1>2, <1>3, EdgeHolds, HubHolds DEF Next

LEMMA StartsSound ==
  ASSUME Init PROVE ChargerInv
<1>1. ASSUME NEW dead \in BOOLEAN, NEW on \in BOOLEAN
      PROVE  LET k == [Idle EXCEPT !.condemned = dead, !.enabled = on]
             IN /\ k \in ChannelRecords /\ k.strikes = 0
                /\ k.state = "OFF" /\ k.pwm = 0
  <2>1. Idle.strikes = 0 /\ Idle.state = "OFF" /\ Idle.pwm = 0
    BY DEF Idle
  <2>. QED
    BY <2>1, IdleTyped, ZenonT(60) DEF ChannelRecords
<1>2. PICK dead \in [Channels -> BOOLEAN], on \in [Channels -> BOOLEAN] :
        chan = [c \in Channels |-> [Idle EXCEPT !.condemned = dead[c],
                                               !.enabled = on[c]]]
  BY DEF Init
<1>3. \A c \in Channels : /\ chan[c] \in ChannelRecords /\ chan[c].strikes = 0
                          /\ chan[c].state = "OFF" /\ chan[c].pwm = 0
  BY <1>1, <1>2
<1>4. /\ chan \in [Channels -> ChannelRecords]
      /\ \A c \in Channels : /\ chan[c].strikes = 0
                             /\ chan[c].state = "OFF" /\ chan[c].pwm = 0
  BY <1>2, <1>3
<1>5. hub \in HubRecords /\ hub.relayOpen = FALSE /\ hub.locked = FALSE
  BY Constants DEF Init, HubRecords
<1>6. TypeOK
  BY <1>4, <1>5 DEF TypeOK
<1>7. Sound(Whole)
  BY <1>4, WholeTyped DEF Sound
<1>. QED
  BY <1>5, <1>6, <1>7 DEF ChargerInv
-----------------------------------------------------------------------------
(* The slow clocks of a channel: the thermal rest and the dead battery's.   *)

\* A step on a channel that leaves a field of these as it was.
Slow ==
  {"rest", "condemned", "charged", "charging", "gap", "step", "edge", "trip", "open"}
As(f, k, j) == f \in DOMAIN j /\ j[f] = k[f]

LEMMA SlowSame ==
  ASSUME NEW f \in Slow, NEW k, f \in DOMAIN k, NEW duty
  PROVE  /\ As(f, k, k) /\ As(f, k, Applied(k, duty))
         /\ As(f, k, Silent(k)) /\ As(f, k, StopOneChannel(k))
         /\ As(f, k, StartOver(k)) /\ As(f, k, IdleChannel(k))
<1>1. ASSUME NEW j, f \in DOMAIN j
      PROVE  /\ As(f, j, Silent(j)) /\ As(f, j, StopOneChannel(j))
             /\ As(f, j, ResetChannelToOff(j))
  BY <1>1 DEF As, Slow, Silent, StopOneChannel, ResetChannelToOff
<1>2. As(f, k, Applied(k, duty))
  <2>. DEFINE n == Lesser(duty, MaxDuty)
  <2>1. Applied(k, duty) = [k EXCEPT !.duty = n, !.pwm = n]
    BY DEF Applied
  <2>. HIDE DEF n
  <2>. QED
    BY <2>1 DEF As, Slow
<1>3. As(f, k, IdleChannel(k))
  <2>. DEFINE j == StopOneChannel(k)
              state == IF k.state \in HeldThroughIdle THEN j.state ELSE "OFF"
              strikes == IF k.state \in HeldThroughIdle THEN j.strikes ELSE 0
  <2>1. As(f, k, j)
    BY <1>1
  <2>2. IdleChannel(k) = [j EXCEPT !.before = 0, !.lockout = 0,
                                   !.state = state, !.strikes = strikes]
    BY DEF IdleChannel
  <2>. HIDE DEF j, state, strikes
  <2>. QED
    BY <2>1, <2>2 DEF As, Slow
<1>. QED
  BY <1>1, <1>2, <1>3 DEF As, StartOver

LEMMA RegulateSlow ==
  ASSUME NEW f \in Slow, NEW k, f \in DOMAIN k, NEW c, NEW r
  PROVE  As(f, k, RegulateChannel(k, c, r))
<1>. DEFINE t == RegulateChannel(k, c, r)
            free == [k EXCEPT !.saved = 0, !.grace = FALSE]
            begun == [free EXCEPT !.state = IF @ = "OFF" THEN "BULK" ELSE @]
            bulk == [k EXCEPT !.state = "BULK"]
            clean == [k EXCEPT !.saved = 0]
            off == [StopOneChannel(k) EXCEPT !.state = "OFF"]
<1>1. /\ As(f, k, free) /\ As(f, k, bulk) /\ As(f, k, clean)
      /\ As(f, k, StopOneChannel(k))
  BY SlowSame DEF As, Slow
<1>2. As(f, k, off) /\ As(f, k, begun)
  <2>. DEFINE j == StopOneChannel(k)
              state == IF free.state = "OFF" THEN "BULK" ELSE free.state
  <2>1. off = [j EXCEPT !.state = "OFF"] /\ begun = [free EXCEPT !.state = state]
    OBVIOUS
  <2>2. As(f, k, j) /\ As(f, k, free)
    BY <1>1
  <2>. HIDE DEF j, state, off, begun, free
  <2>3. As(f, k, off)
    BY <2>1, <2>2 DEF As, Slow
  <2>4. As(f, k, begun)
    BY <2>1, <2>2 DEF As, Slow
  <2>. QED
    BY <2>3, <2>4
<1>. HIDE DEF free, begun, bulk, clean, off
<1>3. ASSUME NEW j, As(f, k, j), NEW duty PROVE As(f, k, Applied(j, duty))
  <2>1. f \in DOMAIN j
    BY <1>3 DEF As
  <2>2. As(f, j, Applied(j, duty))
    BY <2>1, SlowSame
  <2>. QED
    BY <1>3, <2>2 DEF As
<1>4. As(f, k, FixedDuty(k, r.volts[c]))
  <2>1. \E duty : \/ FixedDuty(k, r.volts[c]) = Applied(free, duty)
                  \/ FixedDuty(k, r.volts[c]) = Applied(begun, duty)
    BY DEF FixedDuty, free, begun
  <2>. QED
    BY <1>1, <1>2, <1>3, <2>1
<1>5. As(f, k, BlindResume(k, r.want[c]))
  <2>1. PICK duty : BlindResume(k, r.want[c]) =
          [Applied(k, duty) EXCEPT !.saved = 0, !.grace = k.state = "ABSORB"]
    BY DEF BlindResume
  <2>. DEFINE on == Applied(k, duty)
              grace == k.state = "ABSORB"
  <2>2. As(f, k, on)
    BY SlowSame
  <2>. HIDE DEF on, grace
  <2>3. As(f, k, [on EXCEPT !.saved = 0, !.grace = grace])
    BY <2>2 DEF As, Slow
  <2>. QED
    BY <2>1, <2>3 DEF on, grace
<1>6. As(f, k, Regulated(clean, r.volts[c], r.want[c], r.done[c]))
  <2>. DEFINE grace == /\ clean.grace /\ clean.state = "ABSORB"
                       /\ r.volts[c] # "full" /\ ~r.done[c]
              graced == [clean EXCEPT !.grace = grace]
              stage == Stage(graced, r.volts[c], r.done[c])
              staged == [graced EXCEPT !.state = stage]
  <2>1. \E duty : Regulated(clean, r.volts[c], r.want[c], r.done[c])
                    = Applied(staged, duty)
    BY DEF Regulated
  <2>. HIDE DEF grace
  <2>2. As(f, k, graced)
    BY <1>1 DEF As, Slow
  <2>. HIDE DEF graced, stage
  <2>3. As(f, k, staged)
    BY <2>2 DEF As, Slow
  <2>. QED
    BY <1>3, <2>1, <2>3
<1>7. \/ t = k \/ t = off \/ t = FixedDuty(k, r.volts[c]) \/ t = StartOver(k)
      \/ t = Applied(bulk, StartDuty) \/ t = Applied(k, 0)
      \/ t = BlindResume(k, r.want[c])
      \/ t = Regulated(clean, r.volts[c], r.want[c], r.done[c])
  BY DEF RegulateChannel, bulk, clean, off
<1>. HIDE DEF t
<1>8. As(f, k, t)
  BY <1>1, <1>2, <1>3, <1>4, <1>5, <1>6, <1>7, SlowSame
<1>. QED
  BY <1>8 DEF t

LEMMA ManualSlow ==
  ASSUME NEW f \in Slow, NEW k, f \in DOMAIN k, NEW volts
  PROVE  As(f, k, ManualDriveChannel(k, volts))
<1>. DEFINE j == [k EXCEPT !.state = "MANUAL"]
<1>1. As(f, k, j)
  BY DEF As, Slow
<1>2. \E duty : ManualDriveChannel(k, volts) = Applied(j, duty)
  BY DEF ManualDriveChannel
<1>. HIDE DEF j
<1>. QED
  BY <1>1, <1>2, SlowSame DEF As, Slow
-----------------------------------------------------------------------------
(* Scenario 6: a condemned channel outside the manual mode is not driven.  *)

\* A channel that waits for its retry or for its battery is not driven: these
\* are the states RegulateChannel leaves as it finds them.
Hushed(k) == k.state \in {"JIT_RETRY_WAIT", "BAT_LOST"} => k.pwm = 0
Calm(s) == \A c \in Channels : Hushed(s.chan[c])
Spared(s) ==
  \A c \in Channels :
    s.chan[c].rest > 1 \/ (~s.hub.manual /\ s.chan[c].condemned)
      => s.chan[c].pwm = 0

Same(k, j) == j.state = k.state /\ j.pwm = k.pwm

LEMMA FieldsSame ==
  ASSUME NEW k \in ChannelRecords, NEW n, NEW bit \in BOOLEAN
  PROVE  /\ Same(k, Aged(k))
         /\ Same(k, [k EXCEPT !.trip = bit, !.edge = FALSE])
         /\ Same(k, [k EXCEPT !.open = n])
         /\ Same(k, [k EXCEPT !.saved = 0, !.grace = FALSE])
         /\ Same(k, [k EXCEPT !.step = n])
<1>1. Same(k, Aged(k))
  BY DEF Same, Aged, ChannelRecords
<1>2. Same(k, [k EXCEPT !.trip = bit, !.edge = FALSE])
  BY ZenonT(60) DEF Same, ChannelRecords
<1>3. /\ Same(k, [k EXCEPT !.open = n])
      /\ Same(k, [k EXCEPT !.saved = 0, !.grace = FALSE])
      /\ Same(k, [k EXCEPT !.step = n])
  BY DEF Same, ChannelRecords
<1>. QED
  BY <1>1, <1>2, <1>3

LEMMA SameHushed ==
  ASSUME NEW k, NEW j, Same(k, j) \/ j.pwm = 0, Hushed(k)
  PROVE  Hushed(j)
  BY DEF Same, Hushed

LEMMA NowTyped ==
  ASSUME TypeOK
  PROVE  [chan |-> [c \in Channels |-> Aged(chan[c])],
          hub |-> [hub EXCEPT !.silence = Lesser(@ + 1, LinkTime)]] \in Chargers
<1>. DEFINE aged == [c \in Channels |-> Aged(chan[c])]
            h == [hub EXCEPT !.silence = Lesser(@ + 1, LinkTime)]
<1>1. h \in HubRecords
  <2>1. hub.silence + 1 \in Nat
    BY Limits DEF TypeOK, HubRecords
  <2>2. Lesser(hub.silence + 1, LinkTime) \in 0 .. LinkTime
    BY <2>1, LesserTyped, Limits
  <2>. QED
    BY <2>2 DEF TypeOK, HubRecords
<1>2. aged \in [Channels -> ChannelRecords]
  BY AgedTyped DEF TypeOK
<1>. QED
  BY <1>1, <1>2 DEF Chargers

LEMMA EnteredCalm ==
  ASSUME TypeOK, NEW r, Calm(Whole)
  PROVE  Calm(Entered(r))
<1>. SUFFICES ASSUME NEW c \in Channels
              PROVE  Same(chan[c], Entered(r).chan[c])
  BY SameHushed, WholeTyped DEF Calm
<1>. DEFINE aged == [d \in Channels |-> Aged(chan[d])]
            h == [hub EXCEPT !.silence = Lesser(@ + 1, LinkTime)]
            now == [chan |-> aged, hub |-> h]
            j == JitterRun(now)
            told == [r EXCEPT !.lost = @ /\ ~hub.manual]
            timed == OpenTimed(j, told)
            v == /\ ~j.hub.manual
                 /\ \/ ShortSign(j)
                    \/ \E d \in Channels : Reached(timed.chan[d].open, OpenTime)
<1>1. aged[c] \in ChannelRecords /\ Same(chan[c], aged[c])
  BY AgedTyped, FieldsSame DEF TypeOK
<1>2. now \in Chargers
  BY NowTyped
<1>3. now.chan = aged
  OBVIOUS
<1>. HIDE DEF aged, h, now
<1>4. j.chan[c] = [aged[c] EXCEPT !.trip = @ \/ aged[c].edge, !.edge = FALSE]
  BY <1>2, <1>3 DEF JitterRun, Each, Chargers
<1>5. j \in Chargers /\ j.chan[c] \in ChannelRecords
  BY <1>2, JitterMoves, ChargerFields DEF Moves
<1>6. Same(aged[c], j.chan[c])
  <2>. DEFINE bit == aged[c].trip \/ aged[c].edge
  <2>1. bit \in BOOLEAN
    OBVIOUS
  <2>2. j.chan[c] = [aged[c] EXCEPT !.trip = bit, !.edge = FALSE]
    BY <1>4
  <2>. HIDE DEF bit, j
  <2>. QED
    BY <1>1, <2>1, <2>2, FieldsSame
<1>. HIDE DEF j, told
<1>7. Same(j.chan[c], timed.chan[c])
  <2>. DEFINE n == IF j.hub.manual \/ ~OpenSign(j.chan[c], c, told) THEN 0
                   ELSE IF j.chan[c].open = 0 THEN 1 ELSE j.chan[c].open
  <2>1. timed.chan[c] = [j.chan[c] EXCEPT !.open = n]
    BY <1>5 DEF OpenTimed, Each, Chargers
  <2>. HIDE DEF n, timed
  <2>. QED
    BY <1>5, <2>1, FieldsSame
<1>8. Entered(r) = IF j.hub.locked \/ ~told.valid THEN j
                   ELSE [timed EXCEPT !.hub.locked = v]
  BY DEF Entered, EvaluateTechnicalFault, j, told, now, aged, h
<1>9. timed = [chan |-> timed.chan, hub |-> timed.hub]
  BY <1>5 DEF OpenTimed, Each, Chargers
<1>. HIDE DEF timed, v
<1>10. [timed EXCEPT !.hub.locked = v].chan = timed.chan
  BY <1>9
<1>. QED
  BY <1>1, <1>6, <1>7, <1>8, <1>10 DEF Same

LEMMA ModeCalm ==
  ASSUME NEW s \in Chargers, Calm(s)
  PROVE  Calm(ModeSwitched(s))
<1>1. ASSUME NEW u \in Chargers, Calm(u)
      PROVE  Calm(EnterManualTestMode(u)) /\ Calm(ExitManualTestMode(u))
  <2>1. ASSUME NEW c \in Channels
        PROVE  /\ Same(u.chan[c], EnterManualTestMode(u).chan[c])
               /\ ExitManualTestMode(u).chan[c].pwm = 0
    <3>1. u.chan[c] \in ChannelRecords
      BY ChargerFields
    <3>2. EnterManualTestMode(u).chan[c]
            = [u.chan[c] EXCEPT !.saved = 0, !.grace = FALSE]
      BY DEF EnterManualTestMode
    <3>3. ExitManualTestMode(u).chan[c].pwm = StopOneChannel(u.chan[c]).pwm
      <4>. DEFINE k == StopOneChannel(u.chan[c])
                  trip == k.trip /\ u.chan[c].state # "JIT_RETRY_WAIT"
                  state == IF k.state = "FINAL_FAULT" THEN k.state ELSE "OFF"
      <4>1. ExitManualTestMode(u).chan[c] =
              [k EXCEPT !.trip = trip, !.state = state, !.lockout = 0,
                        !.steady = 0, !.strikes = 0, !.before = 0,
                        !.rearm = FALSE]
        BY DEF ExitManualTestMode
      <4>2. k \in ChannelRecords
        BY <3>1, StoppedTyped
      <4>. HIDE DEF k, trip, state
      <4>. QED
        BY <4>1, <4>2 DEF k, ChannelRecords
    <3>. QED
      BY <3>1, <3>2, <3>3, FieldsSame, StoppedLike
  <2>. QED
    BY <1>1, <2>1, SameHushed DEF Calm
<1>. DEFINE asked == IF s.hub.requested = s.hub.manual THEN s
                     ELSE IF s.hub.requested THEN EnterManualTestMode(s)
                     ELSE ExitManualTestMode(s)
<1>2. asked \in Chargers /\ Calm(asked)
  BY <1>1, ExitMoves DEF Moves
<1>. HIDE DEF asked
<1>3. Calm(ExitManualTestMode(asked))
  BY <1>1, <1>2
<1>. QED
  BY <1>2, <1>3 DEF ModeSwitched, asked

LEMMA MirroredCalm ==
  ASSUME NEW s \in Chargers, NEW r, Calm(s)
  PROVE  Calm(Mirrored(s, r))
<1>. SUFFICES ASSUME NEW c \in Channels PROVE Hushed(Mirrored(s, r).chan[c])
  BY DEF Calm
<1>. DEFINE k == s.chan[c]
            j == StopOneChannel(k)
            lost == /\ r.lost /\ c \in r.absent
                    /\ k.state \notin {"BAT_LOST", "FINAL_FAULT"}
            state == IF ~r.lost /\ k.state = "BAT_LOST" THEN "OFF" ELSE k.state
<1>1. k \in ChannelRecords /\ j \in ChannelRecords /\ j.pwm = 0 /\ Hushed(k)
  BY ChargerFields, StoppedLike, StoppedTyped DEF Calm
<1>2. Mirrored(s, r).chan[c] = IF lost THEN [j EXCEPT !.state = "BAT_LOST"]
                               ELSE [k EXCEPT !.state = state]
  BY DEF Mirrored, Each, Chargers
<1>3. state = k.state \/ state = "OFF"
  OBVIOUS
<1>. HIDE DEF k, j, lost, state
<1>4. /\ [j EXCEPT !.state = "BAT_LOST"].pwm = 0
      /\ [k EXCEPT !.state = state].pwm = k.pwm
      /\ [k EXCEPT !.state = state].state = state
  BY <1>1 DEF ChannelRecords
<1>. QED
  BY <1>1, <1>2, <1>3, <1>4 DEF Hushed

LEMMA SeenCalm ==
  ASSUME NEW s \in Chargers, NEW r, Calm(s)
  PROVE  Calm(Seen(s, r))
<1>. SUFFICES ASSUME NEW c \in Channels PROVE Hushed(Seen(s, r).chan[c])
  BY DEF Calm
<1>. DEFINE k == s.chan[c]
            n == IF k.charging THEN 0 ELSE k.step
            j == BlindOver(s).chan[c]
<1>1. k \in ChannelRecords /\ Hushed(k)
  BY ChargerFields DEF Calm
<1>2. j = k \/ j = [k EXCEPT !.step = n]
  BY DEF BlindOver
<1>3. BlindOver(s) = [chan |-> BlindOver(s).chan, hub |-> BlindOver(s).hub]
  BY DEF BlindOver, Chargers
<1>4. Seen(s, r).chan[c] = Watched(j, r.volts[c])
  BY <1>3 DEF Seen, Each
<1>. HIDE DEF k, n, j
<1>5. Same(k, j) /\ Hushed(j)
  <2>1. Same(k, j)
    BY <1>1, <1>2 DEF Same, ChannelRecords
  <2>. QED
    BY <1>1, <2>1, SameHushed
<1>6. DOMAIN j = DOMAIN k /\ "state" \in DOMAIN k /\ "pwm" \in DOMAIN k
  BY <1>1, <1>2 DEF ChannelRecords
<1>7. Same(j, Watched(j, r.volts[c]))
  <2>. DEFINE steady == IF r.volts[c] \notin ValidVolts THEN 0
                        ELSE IF j.steady = 0 THEN 1 ELSE j.steady
              healed == /\ j.strikes > 0 /\ Reached(j.heal, HealTime)
                        /\ j.state \notin {"FINAL_FAULT", "JIT_RETRY_WAIT"}
              strikes == IF healed THEN 0 ELSE j.strikes
              heal == IF healed THEN 0 ELSE j.heal
  <2>1. Watched(j, r.volts[c]) =
          [j EXCEPT !.steady = steady, !.strikes = strikes, !.heal = heal]
    BY DEF Watched
  <2>2. j = [k EXCEPT !.step = j.step]
    BY <1>1, <1>2 DEF ChannelRecords
  <2>. HIDE DEF steady, strikes, heal
  <2>. QED
    BY <1>1, <1>6, <2>1, <2>2 DEF Same, ChannelRecords
<1>. QED
  BY <1>4, <1>5, <1>7, SameHushed

LEMMA ServedCalm ==
  ASSUME NEW s \in Chargers, Sound(s), NEW c \in Channels, Calm(s)
  PROVE  Calm(JitServed(s, c))
<1>. DEFINE k == s.chan[c]
            j == [k EXCEPT !.strikes = @ + 1, !.heal = 1]
            final == [j EXCEPT !.state = "FINAL_FAULT", !.strikes = 3]
            parked == [StopOneChannel(j) EXCEPT
                         !.before = k.duty, !.state = "JIT_RETRY_WAIT",
                         !.lockout = IF s.hub.manual THEN 0 ELSE LockoutTime]
            over == [chan |-> [s.chan EXCEPT ![c] = final],
                     hub |-> [s.hub EXCEPT !.retry = NoChannel]]
            waiting == HandleJitTrip(s, c)
<1>. SUFFICES ASSUME k.state # "FINAL_FAULT" PROVE Calm(waiting)
  BY DEF JitServed
<1>1. /\ k \in ChannelRecords /\ k.strikes # 3 /\ s.hub.manual \in BOOLEAN
      /\ s.chan \in [Channels -> ChannelRecords]
  BY ChargerFields DEF Sound, HubRecords
<1>2. CASE j.strikes >= 3
  <2>1. waiting = Disconnected(over, TRUE)
    BY <1>2 DEF HandleJitTrip
  <2>2. over.chan \in [Channels -> ChannelRecords]
    BY <1>1, Struck, ZenonT(60)
  <2>. HIDE DEF over
  <2>3. \A d \in Channels : waiting.chan[d] = Silent(over.chan[d])
    BY <2>1 DEF Disconnected
  <2>. HIDE DEF waiting
  <2>. QED
    BY <2>2, <2>3, StoppedLike DEF Calm, Hushed
<1>3. CASE ~(j.strikes >= 3)
  <2>1. waiting.chan = [s.chan EXCEPT ![c] = parked]
    BY <1>3 DEF HandleJitTrip
  <2>2. j \in ChannelRecords
    <3>1. ASSUME NEW n \in 0 .. 3
          PROVE  [k EXCEPT !.strikes = n, !.heal = 1] \in ChannelRecords
      BY <1>1, Constants DEF ChannelRecords
    <3>2. k.strikes + 1 \in 0 .. 3
      BY <1>1 DEF ChannelRecords
    <3>. QED
      BY <3>1, <3>2
  <2>. HIDE DEF j
  <2>. DEFINE i == StopOneChannel(j)
              time == IF s.hub.manual THEN 0 ELSE LockoutTime
  <2>3. i \in ChannelRecords /\ i.pwm = 0
    BY <2>2, StoppedTyped, StoppedLike
  <2>4. parked = [i EXCEPT !.before = k.duty, !.state = "JIT_RETRY_WAIT",
                           !.lockout = time]
    OBVIOUS
  <2>. HIDE DEF i, time, parked
  <2>5. parked.pwm = 0
    BY <2>3, <2>4 DEF ChannelRecords
  <2>6. \A d \in Channels : waiting.chan[d] = s.chan[d] \/ waiting.chan[d] = parked
    BY <1>1, <2>1
  <2>. HIDE DEF waiting
  <2>. QED
    BY <2>5, <2>6 DEF Calm, Hushed
<1>. QED
  BY <1>2, <1>3

LEMMA RetryCalm ==
  ASSUME NEW s \in Chargers, Calm(s)
  PROVE  Calm(ServiceRetry(s))
<1>. DEFINE t == ServiceRetry(s)
            first == CHOOSE w \in Waiting(s) : \A v \in Waiting(s) : w <= v
            c == IF s.hub.retry # NoChannel \/ Waiting(s) = {} THEN s.hub.retry
                 ELSE first
            k == StopOneChannel(s.chan[c])
            on == [k EXCEPT !.state = "BULK", !.trip = FALSE]
            driven == Applied(on, RetryDuty(k))
<1>1. t = IF c \notin Waiting(s) THEN [s EXCEPT !.hub.retry = NoChannel]
          ELSE IF k.lockout > 0 THEN [s EXCEPT !.chan[c] = k, !.hub.retry = c]
          ELSE [s EXCEPT !.hub.retry = NoChannel, !.chan[c] = driven]
  BY DEF ServiceRetry
<1>. HIDE DEF t, c
<1>. SUFFICES Calm(t)
  BY DEF t
<1>2. CASE c \notin Waiting(s)
  BY <1>1, <1>2 DEF Calm, Chargers
<1>3. CASE c \in Waiting(s)
  <2>1. c \in Channels /\ s.chan \in [Channels -> ChannelRecords]
    BY <1>3, ChargerFields DEF Waiting
  <2>2. k \in ChannelRecords /\ k.pwm = 0
    BY <2>1, StoppedTyped, StoppedLike
  <2>3. t.chan = [s.chan EXCEPT ![c] = k] \/ t.chan = [s.chan EXCEPT ![c] = driven]
    BY <1>1, <1>3 DEF Chargers
  <2>. HIDE DEF k
  <2>4. driven.state = "BULK"
    BY <2>2 DEF Applied, ChannelRecords
  <2>. HIDE DEF driven
  <2>5. \A d \in Channels :
          t.chan[d] = s.chan[d] \/ t.chan[d] = k \/ t.chan[d] = driven
    BY <2>1, <2>3
  <2>. QED
    BY <2>2, <2>4, <2>5 DEF Calm, Hushed
<1>. QED
  BY <1>2, <1>3

\* What the regulator leaves behind, by hand and by itself.
Settled(k, manual) ==
  Hushed(k) /\ (k.rest > 1 \/ (~manual /\ k.condemned) => k.pwm = 0)

LEMMA AppliedFields ==
  ASSUME NEW k \in ChannelRecords, NEW duty
  PROVE  /\ Applied(k, duty).state = k.state
         /\ Applied(k, duty).condemned = k.condemned
  BY DEF Applied, ChannelRecords

LEMMA RegulateSettles ==
  ASSUME NEW k \in ChannelRecords, Hushed(k), ~(k.rest > 1),
         k.state \notin {"FINAL_FAULT", "JIT_RETRY_WAIT", "INPUT_WAIT"},
         NEW c \in Channels, NEW r \in ReadingStates
  PROVE  Settled(RegulateChannel(k, c, r), FALSE)
<1>. DEFINE t == RegulateChannel(k, c, r)
<1>1. CASE k.state = "BAT_LOST"
  <2>1. t = k
    BY <1>1 DEF RegulateChannel
  <2>. HIDE DEF t
  <2>. QED
    BY <1>1, <2>1 DEF Settled, Hushed, t
<1>2. CASE k.state # "BAT_LOST" /\ Barred(k, r)
  <2>. DEFINE j == StopOneChannel(k)
  <2>1. t = [j EXCEPT !.state = "OFF"]
    BY <1>2 DEF RegulateChannel
  <2>2. j \in ChannelRecords /\ j.pwm = 0
    BY StoppedTyped, StoppedLike
  <2>. HIDE DEF t, j
  <2>3. t.pwm = 0
    BY <2>1, <2>2 DEF ChannelRecords
  <2>. QED
    BY <2>3 DEF Settled, Hushed, t
<1>3. CASE k.state # "BAT_LOST" /\ ~Barred(k, r)
  <2>1. ~k.condemned
    BY <1>3 DEF Barred
  <2>. DEFINE Fine(j) == j.pwm = 0 \/ (~j.condemned /\ Hushed(j))
              free == [k EXCEPT !.saved = 0, !.grace = FALSE]
              begun == [free EXCEPT !.state = IF @ = "OFF" THEN "BULK" ELSE @]
              bulk == [k EXCEPT !.state = "BULK"]
              clean == [k EXCEPT !.saved = 0]
  <2>2. ASSUME NEW j \in ChannelRecords, ~j.condemned,
               j.state \notin {"JIT_RETRY_WAIT", "BAT_LOST"}, NEW duty
        PROVE  Fine(Applied(j, duty))
    BY <2>2, AppliedFields DEF Hushed
  <2>3. /\ free \in ChannelRecords /\ ~free.condemned /\ free.state = k.state
        /\ clean \in ChannelRecords /\ ~clean.condemned /\ clean.state = k.state
        /\ bulk \in ChannelRecords /\ ~bulk.condemned /\ bulk.state = "BULK"
    BY <2>1, Constants DEF ChannelRecords, States
  <2>. HIDE DEF free, clean, bulk, t
  <2>4. /\ begun \in ChannelRecords /\ ~begun.condemned
        /\ begun.state = IF k.state = "OFF" THEN "BULK" ELSE k.state
    BY <2>3 DEF ChannelRecords, States
  <2>. HIDE DEF begun, Fine
  <2>5. Fine(FixedDuty(k, r.volts[c]))
    <3>1. \E duty : \/ FixedDuty(k, r.volts[c]) = Applied(free, duty)
                    \/ FixedDuty(k, r.volts[c]) = Applied(begun, duty)
      BY DEF FixedDuty, free, begun
    <3>. QED
      BY <1>3, <2>2, <2>3, <2>4, <3>1
  <2>6. Fine(StartOver(k))
    BY StoppedLike DEF Fine
  <2>7. Fine(Applied(bulk, StartDuty)) /\ Fine(Applied(k, 0))
    BY <1>3, <2>1, <2>2, <2>3
  <2>8. Fine(BlindResume(k, r.want[c]))
    <3>1. PICK duty : BlindResume(k, r.want[c]) =
            [Applied(k, duty) EXCEPT !.saved = 0, !.grace = k.state = "ABSORB"]
      BY DEF BlindResume
    <3>. DEFINE on == Applied(k, duty)
                grace == k.state = "ABSORB"
    <3>2. on.state = k.state /\ ~on.condemned
      BY <2>1, AppliedFields
    <3>3. "state" \in DOMAIN on /\ "condemned" \in DOMAIN on
      BY DEF Applied, ChannelRecords
    <3>. HIDE DEF on, grace
    <3>4. [on EXCEPT !.saved = 0, !.grace = grace].state = on.state
          /\ [on EXCEPT !.saved = 0, !.grace = grace].condemned = on.condemned
      BY <3>3
    <3>. QED
      BY <1>3, <3>1, <3>2, <3>4 DEF Fine, Hushed, on, grace
  <2>9. Fine(Regulated(clean, r.volts[c], r.want[c], r.done[c]))
    <3>. DEFINE grace == /\ clean.grace /\ clean.state = "ABSORB"
                         /\ r.volts[c] # "full" /\ ~r.done[c]
                graced == [clean EXCEPT !.grace = grace]
                stage == Stage(graced, r.volts[c], r.done[c])
                staged == [graced EXCEPT !.state = stage]
    <3>1. \E duty : Regulated(clean, r.volts[c], r.want[c], r.done[c])
                      = Applied(staged, duty)
      BY DEF Regulated
    <3>2. grace \in BOOLEAN
      OBVIOUS
    <3>. HIDE DEF grace
    <3>3. graced \in ChannelRecords /\ ~graced.condemned
      BY <2>3, <3>2 DEF ChannelRecords
    <3>. HIDE DEF graced
    <3>4. stage \in {"BULK", "ABSORB", "FLOAT"}
      BY DEF Stage
    <3>. HIDE DEF stage
    <3>5. staged \in ChannelRecords /\ ~staged.condemned /\ staged.state = stage
      BY <3>3, <3>4 DEF ChannelRecords, States
    <3>. HIDE DEF staged
    <3>. QED
      BY <2>2, <3>1, <3>4, <3>5
  <2>10. \/ t = FixedDuty(k, r.volts[c]) \/ t = StartOver(k)
         \/ t = Applied(bulk, StartDuty) \/ t = Applied(k, 0)
         \/ t = BlindResume(k, r.want[c])
         \/ t = Regulated(clean, r.volts[c], r.want[c], r.done[c])
    BY <1>3 DEF RegulateChannel, t, bulk, clean
  <2>11. Fine(t)
    BY <2>5, <2>6, <2>7, <2>8, <2>9, <2>10
  <2>12. t.rest = k.rest
    BY RegulateSlow DEF As, Slow, ChannelRecords, t
  <2>. QED
    BY <2>11, <2>12 DEF Fine, Settled, Hushed, t
<1>. QED
  BY <1>1, <1>2, <1>3

LEMMA DrivenSettles ==
  ASSUME NEW k \in ChannelRecords, Hushed(k),
         k.state \notin {"FINAL_FAULT", "JIT_RETRY_WAIT", "INPUT_WAIT"},
         NEW c \in Channels, NEW r \in ReadingStates, NEW manual \in BOOLEAN
  PROVE  Settled(Driven(k, c, r, manual), manual)
<1>. DEFINE ticked == DeadBatteryTick(k, c, r)
            rested == Rested(ticked)
            warm == Warmed(rested, r.amps[c])
            stopped == [StopOneChannel(ticked) EXCEPT !.state = "THERMAL_REST"]
            byHand == ManualDriveChannel(warm, r.volts[c])
            bySelf == RegulateChannel(warm, c, r)
            t == Driven(k, c, r, manual)
            Idles(j) == j.state \notin {"FINAL_FAULT", "JIT_RETRY_WAIT", "INPUT_WAIT"}
<1>1. ticked \in ChannelRecords /\ Same(k, ticked)
  BY DeadLike DEF Like, Same
<1>. DEFINE onward == IF Reached(warm.hot, HotTime) THEN RestBegun(rested)
                      ELSE IF manual THEN byHand ELSE bySelf
<1>2. \/ t = stopped \/ t = RestBegun(rested)
      \/ (manual /\ t = byHand /\ ~Resting(ticked))
      \/ (~manual /\ t = bySelf /\ ~Resting(ticked))
  <2>1. t = IF Resting(ticked) THEN stopped ELSE onward
    BY DEF Driven
  <2>. HIDE DEF t, stopped, byHand, bySelf, warm, rested, ticked
  <2>2. CASE Resting(ticked)
    BY <2>1, <2>2
  <2>3. CASE ~Resting(ticked) /\ Reached(warm.hot, HotTime)
    BY <2>1, <2>3
  <2>4. CASE ~Resting(ticked) /\ ~Reached(warm.hot, HotTime) /\ manual
    BY <2>1, <2>4
  <2>5. CASE ~Resting(ticked) /\ ~Reached(warm.hot, HotTime) /\ ~manual
    BY <2>1, <2>5
  <2>. QED
    BY <2>2, <2>3, <2>4, <2>5
<1>. HIDE DEF ticked, t, onward
<1>3. /\ rested \in ChannelRecords /\ Hushed(rested) /\ Idles(rested)
      /\ ~Resting(ticked) => ~(rested.rest > 1)
  <2>. DEFINE state == IF ticked.state = "THERMAL_REST" THEN "OFF" ELSE ticked.state
              j == [ticked EXCEPT !.rest = 0, !.hot = 0, !.state = state]
  <2>1. rested = ticked \/ rested = j
    BY DEF Rested
  <2>2. state \in States /\ (state = "OFF" \/ state = ticked.state)
    BY <1>1 DEF ChannelRecords, States
  <2>. HIDE DEF rested, state
  <2>3. /\ j \in ChannelRecords /\ j.state = state /\ j.pwm = ticked.pwm
        /\ j.rest = 0
    BY <1>1, <2>2, Constants DEF ChannelRecords
  <2>. HIDE DEF j
  <2>. QED
    BY <1>1, <2>1, <2>2, <2>3 DEF Same, Hushed, Resting
<1>. HIDE DEF rested
<1>4. warm \in ChannelRecords /\ Same(rested, warm) /\ warm.rest = rested.rest
  <2>. DEFINE hot == IF ~AtMax(rested, r.amps[c]) THEN 0
                     ELSE IF rested.hot = 0 THEN 1 ELSE rested.hot
  <2>1. hot \in 0 .. HotTime + 1
    BY <1>3, Constants DEF ChannelRecords
  <2>2. warm = [rested EXCEPT !.hot = hot]
    BY DEF Warmed
  <2>. HIDE DEF hot, warm
  <2>. QED
    BY <1>3, <2>1, <2>2 DEF Same, ChannelRecords
<1>. HIDE DEF warm
<1>5. stopped.pwm = 0
  <2>. DEFINE j == StopOneChannel(ticked)
  <2>1. j \in ChannelRecords /\ j.pwm = 0
    BY <1>1, StoppedTyped, StoppedLike
  <2>. HIDE DEF j
  <2>. QED
    BY <2>1 DEF j, ChannelRecords
<1>6. RestBegun(rested).pwm = 0
  <2>. DEFINE j == StopOneChannel(rested)
  <2>1. j \in ChannelRecords /\ j.pwm = 0
    BY <1>3, StoppedTyped, StoppedLike
  <2>2. RestBegun(rested) =
          [j EXCEPT !.rest = RestTime + 1, !.hot = 0, !.charged = 0,
                    !.charging = FALSE, !.state = "THERMAL_REST"]
    BY DEF RestBegun
  <2>. HIDE DEF j
  <2>. QED
    BY <2>1, <2>2 DEF ChannelRecords
<1>7. byHand.state = "MANUAL"
  <2>. DEFINE j == [warm EXCEPT !.state = "MANUAL"]
  <2>1. j \in ChannelRecords /\ j.state = "MANUAL"
    BY <1>4 DEF ChannelRecords, States
  <2>2. \E duty : byHand = Applied(j, duty)
    BY DEF ManualDriveChannel
  <2>. HIDE DEF j, byHand
  <2>. QED
    BY <2>1, <2>2, AppliedFields
<1>8. ~Resting(ticked) => Settled(bySelf, FALSE)
  BY <1>3, <1>4, RegulateSettles, SameHushed DEF Same
<1>9. byHand.rest = warm.rest
  BY <1>4, ManualSlow DEF As, Slow, ChannelRecords
<1>. HIDE DEF stopped, byHand, bySelf
<1>10. Settled(t, manual)
  BY <1>2, <1>3, <1>4, <1>5, <1>6, <1>7, <1>8, <1>9 DEF Settled, Hushed
<1>. QED
  BY <1>10 DEF t

LEMMA DriveSettles ==
  ASSUME NEW s \in Chargers, NEW r \in ReadingStates, Calm(s),
         \A c \in Channels : s.chan[c].state # "FINAL_FAULT"
  PROVE  Calm(DriveAll(s, r)) /\ Spared(DriveAll(s, r))
<1>. DEFINE f == [c \in Channels |-> InputBack(s.chan[c])]
            back == [s EXCEPT !.chan = f]
            again == {c \in Waiting(back) : s.hub.manual /\ back.chan[c].rearm}
            g == [c \in Channels |-> IF c \in again THEN Rearmed(back.chan[c])
                                     ELSE back.chan[c]]
            ready == [back EXCEPT !.chan = g]
            h == [c \in Channels |-> IF c \in Waiting(ready) THEN ready.chan[c]
                    ELSE Driven(ready.chan[c], c, r, s.hub.manual)]
            driven == [ready EXCEPT !.chan = h]
            t == DriveAll(s, r)
<1>1. t = [driven EXCEPT !.hub.retry = IF @ \in again THEN NoChannel ELSE @]
  BY DEF DriveAll, Each
<1>2. /\ back.chan = f /\ ready.chan = g
      /\ t.chan = h /\ t.hub.manual = s.hub.manual
  <2>. HIDE DEF f, g, h
  <2>1. back.chan = f /\ back.hub = s.hub
    BY DEF Chargers
  <2>2. back = [chan |-> f, hub |-> s.hub]
    BY DEF Chargers
  <2>. HIDE DEF back
  <2>3. ready = [chan |-> g, hub |-> s.hub]
    BY <2>2
  <2>. HIDE DEF ready
  <2>4. driven = [chan |-> h, hub |-> s.hub]
    BY <2>3
  <2>. HIDE DEF driven
  <2>. DEFINE retry == IF s.hub.retry \in again THEN NoChannel ELSE s.hub.retry
  <2>5. t = [chan |-> h, hub |-> [s.hub EXCEPT !.retry = retry]]
    BY <1>1, <2>4
  <2>. HIDE DEF retry, t
  <2>6. [s.hub EXCEPT !.retry = retry].manual = s.hub.manual
    BY ChargerFields DEF HubRecords
  <2>. QED
    BY <2>1, <2>3, <2>5, <2>6
<1>. HIDE DEF back, ready, driven, t
<1>3. ASSUME NEW c \in Channels
      PROVE  /\ f[c] \in ChannelRecords /\ Hushed(f[c])
             /\ f[c].state \notin {"FINAL_FAULT", "INPUT_WAIT"}
  <2>. DEFINE k == s.chan[c]
              j == [k EXCEPT !.state = "OFF", !.duty = 0, !.strikes = 0]
  <2>1. k \in ChannelRecords /\ Hushed(k) /\ k.state # "FINAL_FAULT"
    BY ChargerFields DEF Calm
  <2>2. f[c] = IF k.state # "INPUT_WAIT" THEN k ELSE j
    BY DEF InputBack
  <2>. HIDE DEF k, f
  <2>3. j \in ChannelRecords /\ j.state = "OFF"
    BY <2>1, Constants DEF ChannelRecords, States
  <2>. HIDE DEF j
  <2>. QED
    BY <2>1, <2>2, <2>3 DEF Hushed
<1>. HIDE DEF f
<1>4. ASSUME NEW c \in Channels
      PROVE  /\ g[c] \in ChannelRecords /\ Hushed(g[c])
             /\ g[c].state \notin {"FINAL_FAULT", "INPUT_WAIT"}
  <2>. DEFINE k == f[c]
  <2>0. k \in ChannelRecords /\ k = f[c]
    BY <1>3
  <2>1. Rearmed(k) \in ChannelRecords /\ Rearmed(k).state = "MANUAL"
    <3>. HIDE DEF k
    <3>1. Rearmed(k) \in ChannelRecords
      BY <1>3, <2>0, BackLike DEF Like
    <3>2. Rearmed(k).state = "MANUAL"
      BY <2>0 DEF Rearmed, ChannelRecords
    <3>. QED
      BY <3>1, <3>2
  <2>2. g[c] = k \/ g[c] = Rearmed(k)
    BY <1>2
  <2>. HIDE DEF g, k
  <2>3. Hushed(Rearmed(k))
    BY <2>1 DEF Hushed
  <2>. QED
    BY <1>3, <2>1, <2>2, <2>3 DEF k
<1>. HIDE DEF g
<1>5. ASSUME NEW c \in Channels PROVE Settled(h[c], s.hub.manual)
  <2>1. s.hub.manual \in BOOLEAN
    BY ChargerFields DEF HubRecords
  <2>2. CASE c \in Waiting(ready)
    <3>1. h[c] = g[c] /\ g[c].state = "JIT_RETRY_WAIT"
      BY <1>2, <2>2 DEF Waiting
    <3>. HIDE DEF h
    <3>. QED
      BY <1>4, <3>1 DEF Settled, Hushed
  <2>3. CASE c \notin Waiting(ready)
    <3>1. h[c] = Driven(g[c], c, r, s.hub.manual) /\ g[c].state # "JIT_RETRY_WAIT"
      BY <1>2, <2>3 DEF Waiting
    <3>. HIDE DEF h
    <3>. QED
      BY <1>4, <2>1, <3>1, DrivenSettles
  <2>. QED
    BY <2>2, <2>3
<1>. HIDE DEF h
<1>6. Calm(t) /\ Spared(t)
  BY <1>2, <1>5 DEF Settled, Calm, Spared
<1>. QED
  BY <1>6 DEF t

LEMMA SilencedSettles ==
  ASSUME NEW t, Silenced(t) PROVE Calm(t) /\ Spared(t)
  BY DEF Silenced, Calm, Hushed, Spared

LEMMA PoweredSettles ==
  ASSUME NEW s \in Chargers, Sound(s), Calm(s), NEW r \in ReadingStates
  PROVE  Calm(Powered(s, r)) /\ Spared(Powered(s, r))
<1>. DEFINE once == JitServed(s, 0)
            struck == JitServed(once, 1)
            served == IF s.hub.manual THEN struck ELSE ServiceRetry(struck)
<1>1. 0 \in Channels /\ 1 \in Channels
  BY DEF Channels
<1>2. once \in Chargers /\ Sound(once) /\ Calm(once)
  BY <1>1, ServedHolds, ServedCalm
<1>. HIDE DEF once
<1>3. struck \in Chargers /\ Sound(struck) /\ Calm(struck)
  BY <1>1, <1>2, ServedHolds, ServedCalm
<1>. HIDE DEF struck
<1>4. served \in Chargers /\ Sound(served) /\ Calm(served)
  BY <1>3, RetryMoves, RetryCalm, MovesHold
<1>5. Powered(s, r) = IF served.hub.relayOpen THEN Disconnected(served, r.present)
                      ELSE DriveAll(served, r)
  BY DEF Powered, served, struck, once
<1>. HIDE DEF served
<1>6. Silenced(Disconnected(served, r.present))
  BY <1>4, DisconnectedTo DEF ReadingStates
<1>7. CASE served.hub.relayOpen
  BY <1>5, <1>6, <1>7, SilencedSettles
<1>8. CASE ~served.hub.relayOpen
  BY <1>4, <1>5, <1>8, DriveSettles DEF Sound
<1>. QED
  BY <1>7, <1>8

\* A pass ends with the channels calm and a condemned one off.
LEMMA UnlockedSettles ==
  ASSUME NEW w \in Chargers, Sound(w), Calm(w), NEW q \in ReadingStates,
         PassUnlocked(w, q)
  PROVE  \E t : Becomes(t) /\ Calm(t) /\ Spared(t)
<1>. DEFINE r == Told(w, q)
            s == Mirrored(w, r)
<1>1. r \in ReadingStates
  <2>. DEFINE lost == q.lost /\ ~hub.manual /\ ~w.hub.manual
  <2>1. lost \in BOOLEAN
    OBVIOUS
  <2>2. r = [q EXCEPT !.lost = lost]
    BY DEF Told
  <2>. HIDE DEF lost, r
  <2>. QED
    BY <2>1, <2>2 DEF ReadingStates
<1>2. \/ PassDisconnected(s, r) \/ PassFaulted(s, r) \/ PassBlind(s, r)
      \/ PassNoInput(s, r) \/ PassPowered(s, r)
  BY DEF PassUnlocked
<1>3. s \in Chargers /\ Sound(s) /\ Calm(s)
  BY MirroredMoves, MovesHold, MirroredCalm
<1>. HIDE DEF s, r
<1>4. ASSUME NEW t, Becomes(t), Silenced(t)
      PROVE  \E u : Becomes(u) /\ Calm(u) /\ Spared(u)
  BY <1>4, SilencedSettles
<1>5. CASE PassDisconnected(s, r)
  <2>1. Silenced(Disconnected(s, r.present))
    BY <1>1, <1>3, DisconnectedTo DEF ReadingStates
  <2>. QED
    BY <1>4, <1>5, <2>1 DEF PassDisconnected
<1>6. CASE PassFaulted(s, r)
  <2>. DEFINE idle == SafeIdle(s)
              t == Each(idle, LAMBDA k, c : DeadBatteryTick(k, c, r))
  <2>1. Becomes(IF ~r.valid THEN idle ELSE t) /\ ~s.hub.relayOpen
    BY <1>6 DEF PassFaulted, HeldOpen
  <2>2. Moves(s, idle) /\ Silenced(idle)
    BY <1>3, <2>1, SafeIdleMoves
  <2>3. Silenced(t)
    BY <1>1, <2>2, TickedMoves DEF Moves
  <2>. HIDE DEF idle, t
  <2>. QED
    BY <1>4, <2>1, <2>2, <2>3
<1>7. CASE PassBlind(s, r)
  BY <1>3, <1>4, <1>7, PausedMoves DEF PassBlind
<1>8. ASSUME ~HeldOpen(s)
      PROVE  LET t == Seen(s, r)
             IN /\ t \in Chargers /\ Sound(t) /\ Calm(t) /\ ~t.hub.relayOpen
                /\ \A c \in Channels : t.chan[c].state # "FINAL_FAULT"
  <2>1. Moves(s, Seen(s, r)) /\ Calm(Seen(s, r))
    BY <1>1, <1>3, SeenMoves, SeenCalm
  <2>. QED
    BY <1>3, <1>8, <2>1, MovesHold DEF HeldOpen, Sound
<1>9. CASE PassNoInput(s, r)
  <2>1. Becomes(InputLost(Seen(s, r), r)) /\ ~HeldOpen(s)
    BY <1>9 DEF PassNoInput
  <2>2. Silenced(InputLost(Seen(s, r), r))
    BY <1>1, <1>8, <2>1, InputLostMoves
  <2>. QED
    BY <1>4, <2>1, <2>2
<1>10. CASE PassPowered(s, r)
  <2>1. Becomes(Powered(Seen(s, r), r)) /\ ~HeldOpen(s)
    BY <1>10 DEF PassPowered
  <2>2. Calm(Powered(Seen(s, r), r)) /\ Spared(Powered(Seen(s, r), r))
    BY <1>1, <1>8, <2>1, PoweredSettles
  <2>. QED
    BY <2>1, <2>2
<1>. QED
  BY <1>2, <1>5, <1>6, <1>7, <1>9, <1>10

LEMMA PassSettles ==
  ASSUME ChargerInv, Calm(Whole), NEW r \in Readings, Pass(r)
  PROVE  Calm(WholeNext) /\ Spared(WholeNext)
<1>. DEFINE e == Entered(r)
<1>. SUFFICES \E t : Becomes(t) /\ Calm(t) /\ Spared(t)
  BY DEF Becomes, Calm, Spared, WholeNext
<1>1. r \in ReadingStates
  BY ChargerAssumption DEF ReadingStates
<1>2. /\ e \in Chargers /\ e.hub.relayOpen = hub.relayOpen
      /\ \A c \in Channels : Like(chan[c], e.chan[c])
  BY EnteredMoves DEF ChargerInv
<1>3. \/ PassSuspended(e) \/ PassLocked(e, r) \/ PassUnlocked(ModeSwitched(e), r)
  BY DEF Pass
<1>4. Calm(e)
  BY EnteredCalm DEF ChargerInv
<1>. HIDE DEF e
<1>5. Sound(e)
  BY <1>2, WholeTyped DEF ChargerInv, Sound, Like
<1>6. CASE PassSuspended(e)
  <2>. DEFINE t == Each(e, LAMBDA k, c : [k EXCEPT !.pwm = 0])
  <2>1. Becomes(t) /\ Silenced(t)
    BY <1>2, <1>6, SilencedMoves DEF PassSuspended
  <2>. HIDE DEF t
  <2>. QED
    BY <2>1, SilencedSettles
<1>7. CASE PassLocked(e, r)
  <2>1. Silenced(Disconnected(e, r.present))
    BY <1>1, <1>2, DisconnectedTo DEF ReadingStates
  <2>. QED
    BY <1>7, <2>1, SilencedSettles DEF PassLocked
<1>8. CASE PassUnlocked(ModeSwitched(e), r)
  <2>1. ModeSwitched(e) \in Chargers /\ Sound(ModeSwitched(e))
    BY <1>2, <1>5, ModeMoves, MovesHold
  <2>2. Calm(ModeSwitched(e))
    BY <1>2, <1>4, ModeCalm
  <2>. QED
    BY <1>1, <1>8, <2>1, <2>2, UnlockedSettles
<1>. QED
  BY <1>3, <1>6, <1>7, <1>8

\* Between two passes a channel is stopped, or keeps its state, its duty and,
\* unless its verdict is cleared, the verdict.
Keeps(k, j) ==
  /\ j.rest \in {0, k.rest}
  /\ j.pwm = 0 \/ (Same(k, j) /\ (j.condemned => k.condemned))

LEMMA BetweenSettles ==
  ASSUME Calm(Whole), Spared(Whole), hub'.manual = hub.manual,
         \A c \in Channels : Keeps(chan[c], chan'[c])
  PROVE  Calm(WholeNext) /\ Spared(WholeNext)
<1>. SUFFICES ASSUME NEW c \in Channels
              PROVE  /\ Hushed(chan'[c])
                     /\ chan'[c].rest > 1 \/ (~hub'.manual /\ chan'[c].condemned)
                          => chan'[c].pwm = 0
  BY DEF Calm, Spared, WholeNext
<1>1. /\ Hushed(chan[c])
      /\ chan[c].rest > 1 \/ (chan[c].condemned /\ ~hub.manual)
           => chan[c].pwm = 0
  BY WholeTyped DEF Calm, Spared
<1>. QED
  BY <1>1 DEF Keeps, Same, Hushed

LEMMA PanelSettles ==
  ASSUME ChargerInv, Calm(Whole), Spared(Whole),
         Panel \/ Suspend \/ Resume \/ \E c \in Channels : Edge(c)
  PROVE  Calm(WholeNext) /\ Spared(WholeNext)
<1>1. chan \in [Channels -> ChannelRecords] /\ hub \in HubRecords
  BY DEF ChargerInv, TypeOK
<1>2. hub'.manual = hub.manual
  <2>1. Heard.manual = hub.manual
    BY <1>1 DEF Heard, HubRecords
  <2>2. CASE Suspend \/ Resume
    BY <1>1, <2>2 DEF Suspend, Resume, HubRecords
  <2>3. CASE \E on \in BOOLEAN : SetManualTestMode(on)
    <3>1. PICK on \in BOOLEAN : hub' = [Heard EXCEPT !.requested = on]
      BY <2>3 DEF SetManualTestMode
    <3>. QED
      BY <1>1, <2>1, <3>1 DEF Heard, HubRecords
  <2>4. CASE Clears
    BY <2>1, <2>4 DEF Clears, ClearDead
  <2>. QED
    BY <2>1, <2>2, <2>3, <2>4 DEF Panel, Edge, Frame, RestartCycle, Clears,
                            SetEnable, SetDutyFixedEnable, SetDutyFixed
<1>. SUFFICES ASSUME NEW c \in Channels PROVE Keeps(chan[c], chan'[c])
  BY <1>2, BetweenSettles DEF Keeps
<1>3. chan[c] \in ChannelRecords
  BY <1>1
<1>4. ASSUME NEW k \in ChannelRecords PROVE Keeps(k, k)
  BY DEF Keeps, Same
<1>5. CASE chan' = chan
  BY <1>3, <1>4, <1>5
<1>6. ASSUME NEW d \in Channels, NEW j, chan' = [chan EXCEPT ![d] = j],
             Keeps(chan[d], j)
      PROVE  Keeps(chan[c], chan'[c])
  BY <1>1, <1>3, <1>4, <1>6
<1>7. ASSUME NEW d \in Channels, Edge(d) PROVE Keeps(chan[c], chan'[c])
  <2>1. Keeps(chan[d], [chan[d] EXCEPT !.edge = TRUE])
    BY <1>1 DEF Keeps, Same, ChannelRecords
  <2>2. chan' = [chan EXCEPT ![d] = [chan[d] EXCEPT !.edge = TRUE]]
    BY <1>1, <1>7 DEF Edge
  <2>. QED
    BY <1>6, <2>1, <2>2
<1>8. ASSUME NEW d \in Channels, NEW on \in BOOLEAN,
             SetEnable(d, on) \/ SetDutyFixedEnable(d, on)
      PROVE  Keeps(chan[c], chan'[c])
  <2>1. /\ Keeps(chan[d], [chan[d] EXCEPT !.enabled = on])
        /\ Keeps(chan[d], [chan[d] EXCEPT !.fixed = on])
    BY <1>1 DEF Keeps, Same, ChannelRecords
  <2>2. \/ chan' = [chan EXCEPT ![d] = [chan[d] EXCEPT !.enabled = on]]
        \/ chan' = [chan EXCEPT ![d] = [chan[d] EXCEPT !.fixed = on]]
    BY <1>1, <1>8 DEF SetEnable, SetDutyFixedEnable
  <2>. QED
    BY <1>6, <2>1, <2>2
<1>9. ASSUME NEW d \in Channels, NEW duty \in Duties, SetDutyFixed(d, duty)
      PROVE  Keeps(chan[c], chan'[c])
  <2>. DEFINE rearm == chan[d].rearm \/ hub.manual
              j == [chan[d] EXCEPT !.command = duty, !.rearm = rearm]
  <2>1. chan' = [chan EXCEPT ![d] = j]
    BY <1>1, <1>9 DEF SetDutyFixed
  <2>. HIDE DEF rearm
  <2>2. Keeps(chan[d], j)
    BY <1>1, ZenonT(60) DEF Keeps, Same, ChannelRecords
  <2>. HIDE DEF j
  <2>. QED
    BY <1>6, <2>1, <2>2
<1>. DEFINE k == chan[c]
            cool == [k EXCEPT !.rest = 0, !.hot = 0]
            fresh == [k EXCEPT !.condemned = FALSE, !.charged = 0,
                        !.charging = FALSE, !.gap = GapTime, !.rest = 0,
                        !.hot = 0]
<1>10. cool \in ChannelRecords /\ fresh \in ChannelRecords
  BY <1>3, Constants, ZenonT(60) DEF ChannelRecords
<1>11. Keeps(k, cool) /\ Keeps(k, fresh)
  <2>1. Same(k, cool) /\ cool.condemned = k.condemned /\ cool.rest = 0
    BY <1>3 DEF Same, ChannelRecords
  <2>2. Same(k, fresh) /\ ~fresh.condemned /\ fresh.rest = 0
    BY <1>3 DEF Same, ChannelRecords
  <2>. HIDE DEF cool, fresh, k
  <2>. QED
    BY <2>1, <2>2 DEF Keeps
<1>12. Keeps(k, StartOver(cool)) /\ Keeps(k, StartOver(fresh))
  <2>1. StartOver(cool).pwm = 0 /\ StartOver(fresh).pwm = 0
    BY <1>10, StoppedLike
  <2>2. cool.rest = 0 /\ fresh.rest = 0
    BY <1>3 DEF ChannelRecords
  <2>3. "rest" \in DOMAIN cool /\ "rest" \in DOMAIN fresh
    BY <1>10 DEF ChannelRecords
  <2>. HIDE DEF cool, fresh, k
  <2>4. StartOver(cool).rest = 0 /\ StartOver(fresh).rest = 0
    BY <2>2, <2>3, SlowSame DEF As, Slow
  <2>. QED
    BY <2>1, <2>4 DEF Keeps
<1>13. CASE RestartCycle \/ Clears
  <2>1. \/ chan'[c] = cool \/ chan'[c] = StartOver(cool)
        \/ chan'[c] = fresh \/ chan'[c] = StartOver(fresh) \/ chan'[c] = k
    <3>1. CASE RestartCycle
      BY <3>1 DEF RestartCycle
    <3>2. CASE Clears
      <4>1. PICK S \in SUBSET Channels : ClearDead(S)
        BY <3>2 DEF Clears
      <4>. QED
        BY <4>1 DEF ClearDead
    <3>. QED
      BY <1>13, <3>1, <3>2
  <2>. HIDE DEF cool, fresh
  <2>. QED
    BY <1>3, <1>4, <1>11, <1>12, <2>1 DEF k
<1>. QED
  BY <1>5, <1>7, <1>8, <1>9, <1>13
     DEF Panel, Clears, Frame, SetManualTestMode, Suspend, Resume
-----------------------------------------------------------------------------
(* The charge clock and the rest, up to the tick of a pass.                *)

\* A step on a channel before its tick: no clock moves on, the time since the
\* last tick may be dropped, and the state is at most left for a silent one.
Carried(k, j) ==
  /\ j \in ChannelRecords
  /\ j.rest = k.rest /\ j.gap = k.gap /\ j.condemned = k.condemned
  /\ j.charged = k.charged /\ j.charging = k.charging
  /\ j.step \in {k.step, 0}
  /\ j.state \in {k.state, "OFF", "BAT_LOST"}
  /\ ~k.edge /\ ~k.trip => ~j.edge /\ ~j.trip

Untripped(k) ==
  ~k.edge /\ ~k.trip /\ k.state \notin {"FINAL_FAULT", "JIT_RETRY_WAIT"}

CarriedAll(s, t) == \A c \in Channels : Carried(s.chan[c], t.chan[c])
Plainly(s) == \A c \in Channels : Untripped(s.chan[c])

LEMMA CarriedOn ==
  ASSUME NEW k, NEW j, NEW i, Carried(k, j), Carried(j, i)
  PROVE  Carried(k, i)
  BY DEF Carried

LEMMA CarriedUntripped ==
  ASSUME NEW s, NEW t, CarriedAll(s, t), Plainly(s)
  PROVE  Plainly(t)
  BY DEF CarriedAll, Carried, Plainly, Untripped

LEMMA AllCarriedOn ==
  ASSUME NEW s, NEW t, NEW u, CarriedAll(s, t), CarriedAll(t, u)
  PROVE  CarriedAll(s, u)
  BY CarriedOn DEF CarriedAll

LEMMA StepsCarry ==
  ASSUME NEW k \in ChannelRecords
  PROVE  /\ Carried(k, k) /\ Carried(k, Silent(k))
         /\ Carried(k, StopOneChannel(k)) /\ Carried(k, IdleChannel(k))
         /\ Carried(k, InputBack(k))
<1>1. ASSUME NEW j \in ChannelRecords
      PROVE  /\ Carried(j, j) /\ Carried(j, Silent(j))
             /\ Carried(j, StopOneChannel(j))
  <2>1. Silent(j) \in ChannelRecords /\ StopOneChannel(j) \in ChannelRecords
    BY StoppedTyped
  <2>2. Carried(j, Silent(j))
    BY <2>1 DEF Carried, Silent, ChannelRecords
  <2>3. Carried(j, StopOneChannel(j))
    BY <2>1 DEF Carried, StopOneChannel, Silent, ChannelRecords
  <2>. QED
    BY <2>2, <2>3 DEF Carried
<1>2. Carried(k, IdleChannel(k))
  <2>. DEFINE j == StopOneChannel(k)
              state == IF k.state \in HeldThroughIdle THEN j.state ELSE "OFF"
              strikes == IF k.state \in HeldThroughIdle THEN j.strikes ELSE 0
  <2>1. Carried(k, j) /\ (state = j.state \/ state = "OFF")
    BY <1>1
  <2>2. IdleChannel(k) = [j EXCEPT !.before = 0, !.lockout = 0,
                                   !.state = state, !.strikes = strikes]
    BY DEF IdleChannel
  <2>3. IdleChannel(k) \in ChannelRecords
    BY IdleChannelTyped
  <2>. HIDE DEF j, state, strikes
  <2>4. Carried(j, IdleChannel(k))
    BY <2>1, <2>2, <2>3 DEF Carried, ChannelRecords
  <2>. QED
    BY <2>1, <2>4, CarriedOn
<1>3. Carried(k, InputBack(k))
  <2>. DEFINE j == [k EXCEPT !.state = "OFF", !.duty = 0, !.strikes = 0]
  <2>1. InputBack(k) = IF k.state # "INPUT_WAIT" THEN k ELSE j
    BY DEF InputBack
  <2>2. j \in ChannelRecords
    BY Constants DEF ChannelRecords, States
  <2>3. Carried(k, j)
    BY <2>2 DEF Carried, ChannelRecords
  <2>. QED
    BY <1>1, <2>1, <2>3
<1>. QED
  BY <1>1, <1>2, <1>3

LEMMA EnteredCarries ==
  ASSUME TypeOK, NEW r, NEW c \in Channels
  PROVE  Carried(Aged(chan[c]), Entered(r).chan[c])
<1>. DEFINE aged == [d \in Channels |-> Aged(chan[d])]
            h == [hub EXCEPT !.silence = Lesser(@ + 1, LinkTime)]
            now == [chan |-> aged, hub |-> h]
            j == JitterRun(now)
            told == [r EXCEPT !.lost = @ /\ ~hub.manual]
            timed == OpenTimed(j, told)
            bit == aged[c].trip \/ aged[c].edge
            n == IF j.hub.manual \/ ~OpenSign(j.chan[c], c, told) THEN 0
                 ELSE IF j.chan[c].open = 0 THEN 1 ELSE j.chan[c].open
<1>1. aged[c] = Aged(chan[c]) /\ aged[c] \in ChannelRecords
  BY AgedTyped DEF TypeOK
<1>2. now.chan = aged /\ now \in Chargers
  BY NowTyped
<1>. HIDE DEF aged, h, now
<1>3. /\ j.chan[c] = [aged[c] EXCEPT !.trip = @ \/ aged[c].edge, !.edge = FALSE]
      /\ j \in Chargers
  BY <1>2, JitterMoves DEF JitterRun, Each, Chargers, Moves
<1>4. Carried(Aged(chan[c]), j.chan[c])
  <2>1. j.chan[c] = [aged[c] EXCEPT !.trip = bit, !.edge = FALSE]
    BY <1>3
  <2>2. j.chan[c] \in ChannelRecords
    BY <1>3, ChargerFields
  <2>3. ~aged[c].edge /\ ~aged[c].trip => ~bit
    OBVIOUS
  <2>. HIDE DEF bit, j
  <2>. QED
    BY <1>1, <2>1, <2>2, <2>3 DEF Carried, ChannelRecords
<1>5. \E v : Entered(r) = IF j.hub.locked \/ ~told.valid THEN j
                          ELSE [timed EXCEPT !.hub.locked = v]
  BY DEF Entered, EvaluateTechnicalFault, j, told, now, aged, h
<1>. HIDE DEF j, told
<1>6. /\ timed.chan[c] = [j.chan[c] EXCEPT !.open = n]
      /\ timed = [chan |-> timed.chan, hub |-> timed.hub]
  <2>1. j.chan[c] \in ChannelRecords
    BY <1>3, ChargerFields
  <2>2. timed.chan[c] = [j.chan[c] EXCEPT !.open = n]
    BY <1>3, <2>1 DEF OpenTimed, Each, Chargers
  <2>3. timed = [chan |-> timed.chan, hub |-> timed.hub]
    BY <1>3 DEF OpenTimed, Each, Chargers
  <2>. QED
    BY <2>2, <2>3
<1>7. n \in 0 .. OpenTime + 1
  BY <1>3, Constants, ChargerFields DEF ChannelRecords
<1>. HIDE DEF timed, n
<1>8. Carried(j.chan[c], timed.chan[c])
  <2>1. timed.chan[c] \in ChannelRecords
    BY <1>4, <1>6, <1>7 DEF Carried, ChannelRecords
  <2>. QED
    BY <1>4, <1>6, <2>1 DEF Carried, ChannelRecords
<1>9. Entered(r).chan[c] \in {j.chan[c], timed.chan[c]}
  BY <1>5, <1>6
<1>. QED
  BY <1>4, <1>8, <1>9, CarriedOn

LEMMA ModeCarries ==
  ASSUME NEW s \in Chargers PROVE CarriedAll(s, ModeSwitched(s))
<1>1. ASSUME NEW u \in Chargers
      PROVE  /\ CarriedAll(u, EnterManualTestMode(u))
             /\ CarriedAll(u, ExitManualTestMode(u))
             /\ EnterManualTestMode(u) \in Chargers
  <2>0. EnterManualTestMode(u) \in Chargers /\ ExitManualTestMode(u) \in Chargers
    BY ExitMoves DEF Moves
  <2>1. ASSUME NEW c \in Channels
        PROVE  /\ Carried(u.chan[c], EnterManualTestMode(u).chan[c])
               /\ Carried(u.chan[c], ExitManualTestMode(u).chan[c])
    <3>. DEFINE k == StopOneChannel(u.chan[c])
                trip == k.trip /\ u.chan[c].state # "JIT_RETRY_WAIT"
                state == IF k.state = "FINAL_FAULT" THEN k.state ELSE "OFF"
                in == EnterManualTestMode(u).chan[c]
                out == ExitManualTestMode(u).chan[c]
    <3>1. out = [k EXCEPT !.trip = trip, !.state = state, !.lockout = 0,
                          !.steady = 0, !.strikes = 0, !.before = 0,
                          !.rearm = FALSE]
      BY DEF ExitManualTestMode
    <3>2. in = [u.chan[c] EXCEPT !.saved = 0, !.grace = FALSE]
      BY DEF EnterManualTestMode
    <3>3. in \in ChannelRecords /\ out \in ChannelRecords
      BY <2>0, ChargerFields
    <3>4. u.chan[c] \in ChannelRecords /\ Carried(u.chan[c], k)
      BY <1>1, ChargerFields, StepsCarry
    <3>5. /\ ~k.trip => ~trip
          /\ state \in {k.state, "OFF"}
      OBVIOUS
    <3>. HIDE DEF k, trip, state, in, out
    <3>6. Carried(u.chan[c], in)
      BY <3>2, <3>3, <3>4 DEF Carried, ChannelRecords
    <3>7. Carried(k, out)
      BY <3>1, <3>3, <3>4, <3>5 DEF Carried, ChannelRecords
    <3>8. Carried(u.chan[c], out)
      BY <3>4, <3>7, CarriedOn
    <3>. QED
      BY <3>6, <3>8 DEF in, out
  <2>. QED
    BY <2>0, <2>1 DEF CarriedAll
<1>. DEFINE asked == IF s.hub.requested = s.hub.manual THEN s
                     ELSE IF s.hub.requested THEN EnterManualTestMode(s)
                     ELSE ExitManualTestMode(s)
<1>2. asked \in Chargers /\ CarriedAll(s, asked)
  BY <1>1, ExitMoves, ChargerFields, StepsCarry DEF Moves, CarriedAll
<1>. HIDE DEF asked
<1>3. CarriedAll(s, ExitManualTestMode(asked))
  BY <1>1, <1>2, AllCarriedOn
<1>. QED
  BY <1>2, <1>3 DEF ModeSwitched, asked

LEMMA MirroredCarries ==
  ASSUME NEW s \in Chargers, NEW r PROVE CarriedAll(s, Mirrored(s, r))
<1>. SUFFICES ASSUME NEW c \in Channels
              PROVE  Carried(s.chan[c], Mirrored(s, r).chan[c])
  BY DEF CarriedAll
<1>. DEFINE k == s.chan[c]
            j == StopOneChannel(k)
            t == Mirrored(s, r).chan[c]
            state == IF ~r.lost /\ k.state = "BAT_LOST" THEN "OFF" ELSE k.state
<1>1. t = [j EXCEPT !.state = "BAT_LOST"] \/ t = [k EXCEPT !.state = state]
  BY DEF Mirrored, Each, Chargers
<1>2. k \in ChannelRecords /\ Carried(k, j)
  BY ChargerFields, StepsCarry
<1>3. state \in {k.state, "OFF"} /\ state \in States
  BY <1>2 DEF ChannelRecords, States
<1>. HIDE DEF k, j, state, t
<1>4. /\ [j EXCEPT !.state = "BAT_LOST"] \in ChannelRecords
      /\ [k EXCEPT !.state = state] \in ChannelRecords
  BY <1>2, <1>3 DEF Carried, ChannelRecords, States
<1>5. Carried(j, [j EXCEPT !.state = "BAT_LOST"])
  BY <1>2, <1>4 DEF Carried, ChannelRecords
<1>6. Carried(k, [k EXCEPT !.state = state])
  BY <1>2, <1>3, <1>4 DEF Carried, ChannelRecords
<1>7. Carried(k, t)
  BY <1>1, <1>2, <1>5, <1>6, CarriedOn
<1>. QED
  BY <1>7 DEF k, t

LEMMA SeenCarries ==
  ASSUME NEW s \in Chargers, NEW r \in ReadingStates
  PROVE  CarriedAll(s, Seen(s, r))
<1>. SUFFICES ASSUME NEW c \in Channels
              PROVE  Carried(s.chan[c], Seen(s, r).chan[c])
  BY DEF CarriedAll
<1>. DEFINE k == s.chan[c]
            n == IF k.charging THEN 0 ELSE k.step
            j == BlindOver(s).chan[c]
            steady == IF r.volts[c] \notin ValidVolts THEN 0
                      ELSE IF j.steady = 0 THEN 1 ELSE j.steady
            healed == /\ j.strikes > 0 /\ Reached(j.heal, HealTime)
                      /\ j.state \notin {"FINAL_FAULT", "JIT_RETRY_WAIT"}
            strikes == IF healed THEN 0 ELSE j.strikes
            heal == IF healed THEN 0 ELSE j.heal
            t == Seen(s, r).chan[c]
<1>1. j = k \/ j = [k EXCEPT !.step = n]
  BY DEF BlindOver
<1>2. BlindOver(s) = [chan |-> BlindOver(s).chan, hub |-> BlindOver(s).hub]
  BY DEF BlindOver, Chargers
<1>3. t = Watched(j, r.volts[c])
  BY <1>2 DEF Seen, Each
<1>4. t = [j EXCEPT !.steady = steady, !.strikes = strikes, !.heal = heal]
  BY <1>3 DEF Watched
<1>5. k \in ChannelRecords /\ n \in {k.step, 0}
  BY ChargerFields
<1>6. t \in ChannelRecords
  BY SeenMoves, ChargerFields DEF Moves
<1>. HIDE DEF k, n, j, steady, strikes, heal, t
<1>7. j \in ChannelRecords /\ Carried(k, j)
  <2>1. [k EXCEPT !.step = n] \in ChannelRecords
    BY <1>5, Constants DEF ChannelRecords
  <2>2. Carried(k, [k EXCEPT !.step = n])
    BY <1>5, <2>1 DEF Carried, ChannelRecords
  <2>. QED
    BY <1>1, <1>5, <2>1, <2>2, StepsCarry
<1>8. Carried(j, t)
  BY <1>4, <1>6, <1>7 DEF Carried, ChannelRecords
<1>9. Carried(k, t)
  BY <1>7, <1>8, CarriedOn
<1>. QED
  BY <1>9 DEF k, t

\* The exits of a pass that leave every channel as it was, stopped or idle.
LEMMA ExitsCarry ==
  ASSUME NEW s \in Chargers, NEW bit
  PROVE  /\ CarriedAll(s, Disconnected(s, bit))
         /\ CarriedAll(s, SafeIdle(s))
         /\ CarriedAll(s, PausedOnBlind(s))
         /\ CarriedAll(s, Each(s, LAMBDA k, c : [k EXCEPT !.pwm = 0]))
<1>1. ASSUME NEW c \in Channels
      PROVE  /\ Carried(s.chan[c], Disconnected(s, bit).chan[c])
             /\ Carried(s.chan[c], SafeIdle(s).chan[c])
  BY ChargerFields, StepsCarry DEF Disconnected, SafeIdle
<1>2. ASSUME NEW c \in Channels
      PROVE  Carried(s.chan[c], PausedOnBlind(s).chan[c])
  <2>. DEFINE k == s.chan[c]
              j == Silent(k)
              kept == IF Active(k) /\ k.enabled /\ ~s.hub.manual THEN k.duty ELSE 0
              saved == IF s.hub.blind THEN j.saved ELSE kept
              grace == j.grace /\ k.state = "ABSORB"
              step == IF k.charging THEN 0 ELSE j.step
              t == PausedOnBlind(s).chan[c]
  <2>1. t = [j EXCEPT !.saved = saved, !.grace = grace, !.step = step]
    BY DEF PausedOnBlind
  <2>2. k \in ChannelRecords /\ Carried(k, j)
    BY ChargerFields, StepsCarry
  <2>3. j \in ChannelRecords
    BY <2>2 DEF Carried
  <2>4. saved \in Duties /\ grace \in BOOLEAN /\ step \in {j.step, 0}
    BY <2>2, <2>3, Constants DEF ChannelRecords
  <2>. HIDE DEF k, j, saved, grace, step, t
  <2>5. t \in ChannelRecords
    BY <2>1, <2>3, <2>4, Constants DEF ChannelRecords
  <2>6. Carried(j, t)
    BY <2>1, <2>3, <2>4, <2>5 DEF Carried, ChannelRecords
  <2>7. Carried(k, t)
    BY <2>2, <2>6, CarriedOn
  <2>. QED
    BY <2>7 DEF k, t
<1>. DEFINE off == Each(s, LAMBDA k, c : [k EXCEPT !.pwm = 0])
<1>3. ASSUME NEW c \in Channels PROVE Carried(s.chan[c], off.chan[c])
  <2>. DEFINE k == s.chan[c]
  <2>1. off.chan[c] = [k EXCEPT !.pwm = 0]
    BY DEF Each, Chargers
  <2>2. k \in ChannelRecords
    BY ChargerFields
  <2>. HIDE DEF off, k
  <2>3. [k EXCEPT !.pwm = 0] \in ChannelRecords
    BY <2>2, Constants DEF ChannelRecords
  <2>4. Carried(k, [k EXCEPT !.pwm = 0])
    BY <2>2, <2>3 DEF Carried, ChannelRecords
  <2>. QED
    BY <2>1, <2>4 DEF k
<1>4. CarriedAll(s, off)
  BY <1>3 DEF CarriedAll
<1>5. /\ CarriedAll(s, Disconnected(s, bit)) /\ CarriedAll(s, SafeIdle(s))
      /\ CarriedAll(s, PausedOnBlind(s))
  BY <1>1, <1>2 DEF CarriedAll
<1>. QED
  BY <1>4, <1>5, Zenon DEF off
-----------------------------------------------------------------------------
(* The charge clock and the rest, at the tick of a pass and after it.      *)

\* The charge time a tick would find, up to the verdict.
Due(k) == Lesser(k.charged + (IF k.charging THEN k.step ELSE 0), DeadTime)

\* What the ticks of a pass, and what follows them, make of a channel.
Ticked(k, j) ==
  /\ j \in ChannelRecords
  /\ Due(j) <= Due(k)
  /\ j.condemned /\ ~k.condemned => Active(k) /\ Due(k) = DeadTime
  /\ ~Active(k) =>
       /\ ~j.charging
       /\ ~k.charging => j.gap = k.gap /\ (k.gap >= GapTime => j.charged = 0)
  /\ Untripped(k) => Untripped(j)
  /\ k.state \in Rests \cup {"OFF", "BAT_LOST"} /\ j.state \in Rests => Due(j) = 0
  /\ k.rest > 1 => j.rest >= k.rest

LEMMA ClockTypes ==
  ASSUME NEW k \in ChannelRecords
  PROVE  /\ k.charged \in 0 .. DeadTime /\ k.step \in 0 .. DeadTime
         /\ k.gap \in 0 .. GapTime /\ k.rest \in 0 .. RestTime + 1
         /\ k.charged \in Nat /\ k.step \in Nat /\ k.gap \in Nat /\ k.rest \in Nat
         /\ k.charging \in BOOLEAN /\ k.condemned \in BOOLEAN
         /\ k.charged + k.step \in Nat
         /\ Due(k) \in 0 .. DeadTime
         /\ Due(k) = IF k.charging THEN Lesser(k.charged + k.step, DeadTime)
                     ELSE k.charged
<1>1. /\ k.charged \in 0 .. DeadTime /\ k.step \in 0 .. DeadTime
      /\ k.gap \in 0 .. GapTime /\ k.rest \in 0 .. RestTime + 1
      /\ k.charging \in BOOLEAN /\ k.condemned \in BOOLEAN
  BY DEF ChannelRecords
<1>. QED
  BY <1>1, Limits DEF Due, Lesser

\* Two channels with the same charge time owe the same.
LEMMA DueSame ==
  ASSUME NEW k \in ChannelRecords, NEW j \in ChannelRecords,
         j.charged = k.charged \/ j.charged = 0,
         j.charging = k.charging \/ ~j.charging,
         j.step = k.step \/ j.step = 0
  PROVE  Due(j) <= Due(k)
  BY ClockTypes, Limits DEF Lesser

LEMMA SwapFacts ==
  ASSUME NEW k \in ChannelRecords, NEW c \in Channels, NEW r \in ReadingStates
  PROVE  LET i == DeadSwap(k, c, r)
         IN /\ i.state = k.state /\ i.rest = k.rest /\ i.edge = k.edge
            /\ i.trip = k.trip /\ i.gap = k.gap /\ i.charging = k.charging
            /\ i.condemned => k.condemned
            /\ Due(i) <= Due(k)
<1>. DEFINE i == DeadSwap(k, c, r)
<1>1. \/ i = [k EXCEPT !.gone = 0] \/ i = [k EXCEPT !.gone = 1]
      \/ i = [k EXCEPT !.condemned = FALSE, !.charged = 0] \/ i = k
  BY DEF DeadSwap
<1>2. i \in ChannelRecords
  BY SwapTyped
<1>. HIDE DEF i
<1>3. /\ i.state = k.state /\ i.rest = k.rest /\ i.edge = k.edge
      /\ i.trip = k.trip /\ i.gap = k.gap /\ i.charging = k.charging
      /\ i.step = k.step
      /\ i.condemned => k.condemned
      /\ i.charged \in {k.charged, 0}
  BY <1>1, <1>2 DEF ChannelRecords
<1>4. Due(i) <= Due(k)
  BY <1>2, <1>3, DueSame
<1>. QED
  BY <1>3, <1>4 DEF i

\* What DeadClock makes of a channel: it condemns only a charge whose time is
\* up, and no path of it adds to the time that is due.
Clocked(i, j) ==
  /\ j.state = i.state /\ j.rest = i.rest /\ j.edge = i.edge /\ j.trip = i.trip
  /\ Due(j) <= Due(i)
  /\ j.condemned /\ ~i.condemned => Active(i) /\ Due(i) = DeadTime
  /\ ~Active(i) =>
       /\ ~j.charging
       /\ ~i.charging => j.gap = i.gap /\ (i.gap >= GapTime => j.charged = 0)
  /\ i.state \in Rests \/ i.rest # 0 => j.charged = 0 /\ ~j.charging

LEMMA ClockFacts ==
  ASSUME NEW i \in ChannelRecords PROVE Clocked(i, DeadClock(i))
<1>. DEFINE j == DeadClock(i)
            cut == DeadTime = 0 \/ i.state \in Rests \/ i.rest # 0
            total == Lesser(i.charged + i.step, DeadTime)
            verdict == i.condemned \/ total = DeadTime
            charged == IF i.gap >= GapTime THEN 0 ELSE i.charged
<1>1. j \in ChannelRecords
  BY ClockTyped
<1>2. /\ cut => j = [i EXCEPT !.charged = 0, !.charging = FALSE]
      /\ ~cut /\ ~Active(i) /\ i.charging
           => j = [i EXCEPT !.charging = FALSE, !.gap = 0]
      /\ ~cut /\ ~Active(i) /\ ~i.charging => j = [i EXCEPT !.charged = charged]
      /\ ~cut /\ Active(i) /\ ~i.charging
           => j = [i EXCEPT !.charging = TRUE, !.step = 0]
      /\ ~cut /\ Active(i) /\ i.charging
           => j = [i EXCEPT !.charged = total, !.step = 0, !.condemned = verdict]
  BY DEF DeadClock, Rests
<1>3. i.charging => total = Due(i)
  BY ClockTypes
<1>4. i.gap >= GapTime => charged = 0
  OBVIOUS
<1>5. charged \in {i.charged, 0}
  OBVIOUS
<1>6. verdict /\ ~i.condemned => total = DeadTime
  OBVIOUS
<1>7. i.state \in Rests \/ i.rest # 0 => cut
  OBVIOUS
<1>8. Active(i) => i.state \notin Rests
  BY DEF Active, Rests
<1>. HIDE DEF j, total, verdict, charged
<1>9. CASE cut
  <2>1. /\ j.charged = 0 /\ ~j.charging /\ j.condemned = i.condemned
        /\ j.gap = i.gap /\ j.state = i.state /\ j.rest = i.rest
        /\ j.edge = i.edge /\ j.trip = i.trip /\ j.step = i.step
    BY <1>1, <1>2, <1>9 DEF ChannelRecords
  <2>2. Due(j) <= Due(i)
    BY <1>1, <2>1, DueSame
  <2>. QED
    BY <2>1, <2>2 DEF Clocked, j
<1>. HIDE DEF cut
<1>10. CASE ~cut /\ ~Active(i) /\ i.charging
  <2>1. /\ j.charged = i.charged /\ ~j.charging /\ j.condemned = i.condemned
        /\ j.state = i.state /\ j.rest = i.rest
        /\ j.edge = i.edge /\ j.trip = i.trip /\ j.step = i.step
    BY <1>1, <1>2, <1>10 DEF ChannelRecords
  <2>2. Due(j) <= Due(i)
    BY <1>1, <2>1, DueSame
  <2>. QED
    BY <1>7, <1>10, <2>1, <2>2 DEF Clocked, j
<1>11. CASE ~cut /\ ~Active(i) /\ ~i.charging
  <2>1. /\ j.charged = charged /\ j.charging = i.charging
        /\ j.condemned = i.condemned /\ j.gap = i.gap
        /\ j.state = i.state /\ j.rest = i.rest
        /\ j.edge = i.edge /\ j.trip = i.trip /\ j.step = i.step
    BY <1>1, <1>2, <1>11 DEF ChannelRecords
  <2>2. Due(j) <= Due(i)
    BY <1>1, <1>5, <2>1, DueSame
  <2>. QED
    BY <1>4, <1>7, <1>11, <2>1, <2>2 DEF Clocked, j
<1>12. CASE ~cut /\ Active(i) /\ ~i.charging
  <2>1. /\ j.charged = i.charged /\ j.charging /\ j.condemned = i.condemned
        /\ j.state = i.state /\ j.rest = i.rest
        /\ j.edge = i.edge /\ j.trip = i.trip /\ j.step = 0
    BY <1>1, <1>2, <1>12 DEF ChannelRecords
  <2>2. Due(j) <= Due(i)
    BY <1>1, <1>12, <2>1, ClockTypes, Limits DEF Lesser
  <2>. QED
    BY <1>7, <1>12, <2>1, <2>2 DEF Clocked, j
<1>13. CASE ~cut /\ Active(i) /\ i.charging
  <2>1. /\ j.charged = total /\ j.condemned = verdict /\ j.charging
        /\ j.state = i.state /\ j.rest = i.rest
        /\ j.edge = i.edge /\ j.trip = i.trip /\ j.step = 0
    BY <1>1, <1>2, <1>13 DEF ChannelRecords
  <2>2. Due(j) <= Due(i)
    BY <1>1, <1>3, <1>13, <2>1, ClockTypes, Limits DEF Lesser
  <2>. QED
    BY <1>3, <1>6, <1>7, <1>13, <2>1, <2>2 DEF Clocked, j
<1>. QED
  BY <1>9, <1>10, <1>11, <1>12, <1>13

LEMMA TickFacts ==
  ASSUME NEW k \in ChannelRecords, NEW c \in Channels, NEW r \in ReadingStates
  PROVE  /\ DeadBatteryTick(k, c, r) \in ChannelRecords
         /\ Clocked(k, DeadBatteryTick(k, c, r))
<1>. DEFINE i == DeadSwap(k, c, r)
            j == DeadBatteryTick(k, c, r)
<1>1. /\ i.state = k.state /\ i.rest = k.rest /\ i.edge = k.edge
      /\ i.trip = k.trip /\ i.gap = k.gap /\ i.charging = k.charging
      /\ i.condemned => k.condemned
      /\ Due(i) <= Due(k)
  BY SwapFacts
<1>2. i \in ChannelRecords /\ j \in ChannelRecords
  BY SwapTyped, DeadTyped
<1>3. Clocked(i, j)
  BY <1>2, ClockFacts DEF DeadBatteryTick
<1>4. Active(i) <=> Active(k)
  BY <1>1 DEF Active
<1>5. Due(i) \in 0 .. DeadTime /\ Due(j) \in 0 .. DeadTime /\ Due(k) \in 0 .. DeadTime
  BY <1>2, ClockTypes
<1>. HIDE DEF i, j
<1>6. Due(j) <= Due(k) /\ (Due(i) = DeadTime => Due(k) = DeadTime)
  BY <1>1, <1>3, <1>5, Limits DEF Clocked
<1>7. Clocked(k, j)
  BY <1>1, <1>3, <1>4, <1>6 DEF Clocked
<1>. QED
  BY <1>2, <1>7 DEF j

\* The states the regulator can leave a channel in.
Onward(from, to) ==
  /\ to \in {from, "OFF", "BULK", "ABSORB", "FLOAT"}
  /\ from \in {"OFF", "BAT_LOST"} => to \in {from, "OFF", "BULK"}

LEMMA RegulateStates ==
  ASSUME NEW k \in ChannelRecords, NEW c \in Channels, NEW r \in ReadingStates
  PROVE  Onward(k.state, RegulateChannel(k, c, r).state)
<1>. DEFINE t == RegulateChannel(k, c, r)
            free == [k EXCEPT !.saved = 0, !.grace = FALSE]
            begun == [free EXCEPT !.state = IF @ = "OFF" THEN "BULK" ELSE @]
            bulk == [k EXCEPT !.state = "BULK"]
            clean == [k EXCEPT !.saved = 0]
            off == [StopOneChannel(k) EXCEPT !.state = "OFF"]
            resumed == BlindResume(k, r.want[c])
            climbed == Regulated(clean, r.volts[c], r.want[c], r.done[c])
            fixed == FixedDuty(k, r.volts[c])
<1>1. /\ free \in ChannelRecords /\ free.state = k.state
      /\ clean \in ChannelRecords /\ clean.state = k.state
      /\ bulk \in ChannelRecords /\ bulk.state = "BULK"
  BY Constants DEF ChannelRecords, States
<1>2. StartOver(k).state = "OFF"
  BY DEF StartOver, StopOneChannel, ResetChannelToOff, Silent, ChannelRecords
<1>3. off.state = "OFF"
  <2>. DEFINE j == StopOneChannel(k)
  <2>1. j \in ChannelRecords
    BY StoppedTyped
  <2>. HIDE DEF j
  <2>. QED
    BY <2>1 DEF j, ChannelRecords
<1>4. \/ t = k \/ t = off \/ t = fixed \/ t = StartOver(k)
      \/ t = Applied(bulk, StartDuty) \/ t = Applied(k, 0)
      \/ t = resumed /\ Active(k)
      \/ t = climbed /\ k.state \notin {"OFF", "BAT_LOST"}
  BY DEF RegulateChannel
<1>. HIDE DEF off, free, clean, bulk, t, resumed, climbed, fixed
<1>5. /\ begun \in ChannelRecords
      /\ begun.state = IF k.state = "OFF" THEN "BULK" ELSE k.state
  BY <1>1 DEF ChannelRecords, States
<1>. HIDE DEF begun
<1>6. fixed.state \in {k.state, begun.state}
  <2>1. \E duty : fixed = Applied(free, duty) \/ fixed = Applied(begun, duty)
    BY DEF FixedDuty, free, begun, fixed
  <2>. QED
    BY <1>1, <1>5, <2>1, AppliedFields
<1>7. resumed.state = k.state
  <2>1. PICK duty : resumed =
          [Applied(k, duty) EXCEPT !.saved = 0, !.grace = k.state = "ABSORB"]
    BY DEF BlindResume, resumed
  <2>. DEFINE on == Applied(k, duty)
              grace == k.state = "ABSORB"
  <2>2. on.state = k.state /\ "state" \in DOMAIN on
    BY AppliedFields DEF Applied, ChannelRecords
  <2>. HIDE DEF on, grace
  <2>3. [on EXCEPT !.saved = 0, !.grace = grace].state = on.state
    BY <2>2
  <2>. QED
    BY <2>1, <2>2, <2>3 DEF on, grace
<1>8. climbed.state \in {"BULK", "ABSORB", "FLOAT"}
  <2>. DEFINE grace == /\ clean.grace /\ clean.state = "ABSORB"
                       /\ r.volts[c] # "full" /\ ~r.done[c]
              graced == [clean EXCEPT !.grace = grace]
              stage == Stage(graced, r.volts[c], r.done[c])
              staged == [graced EXCEPT !.state = stage]
  <2>1. \E duty : climbed = Applied(staged, duty)
    BY DEF Regulated, climbed
  <2>2. grace \in BOOLEAN
    OBVIOUS
  <2>. HIDE DEF grace
  <2>3. graced \in ChannelRecords
    BY <1>1, <2>2 DEF ChannelRecords
  <2>. HIDE DEF graced
  <2>4. stage \in {"BULK", "ABSORB", "FLOAT"}
    BY DEF Stage
  <2>. HIDE DEF stage
  <2>5. staged \in ChannelRecords /\ staged.state = stage
    BY <2>3, <2>4 DEF ChannelRecords, States
  <2>. HIDE DEF staged
  <2>. QED
    BY <2>1, <2>4, <2>5, AppliedFields
<1>9. Applied(bulk, StartDuty).state = "BULK" /\ Applied(k, 0).state = k.state
  BY <1>1, AppliedFields
<1>10. Onward(k.state, t.state)
  BY <1>2, <1>3, <1>4, <1>5, <1>6, <1>7, <1>8, <1>9 DEF Onward, Active
<1>. QED
  BY <1>10 DEF t

\* What follows the tick in the pass leaves its clocks alone.
After(i, j) ==
  /\ j \in ChannelRecords
  /\ j.charged = i.charged /\ j.charging = i.charging /\ j.step = i.step
  /\ j.condemned = i.condemned /\ j.gap = i.gap
  /\ j.edge = i.edge /\ j.trip = i.trip

LEMMA StoppedSlow ==
  ASSUME NEW k \in ChannelRecords
  PROVE  /\ After(k, StopOneChannel(k)) /\ StopOneChannel(k).rest = k.rest
<1>1. StopOneChannel(k) \in ChannelRecords
  BY StoppedTyped
<1>. QED
  BY <1>1 DEF After, StopOneChannel, Silent, ChannelRecords

LEMMA RegulateSlowly ==
  ASSUME NEW k \in ChannelRecords, k.state # "FINAL_FAULT",
         NEW c \in Channels, NEW r \in ReadingStates
  PROVE  /\ After(k, RegulateChannel(k, c, r))
         /\ After(k, ManualDriveChannel(k, r.volts[c]))
<1>. DEFINE t == RegulateChannel(k, c, r)
            m == ManualDriveChannel(k, r.volts[c])
<1>1. t \in ChannelRecords /\ m \in ChannelRecords
  BY RegulateLike DEF Like
<1>2. ASSUME NEW f \in Slow PROVE As(f, k, t) /\ As(f, k, m)
  <2>1. f \in DOMAIN k
    BY DEF Slow, ChannelRecords
  <2>. QED
    BY <2>1, RegulateSlow, ManualSlow
<1>. HIDE DEF t, m
<1>3. /\ t.charged = k.charged /\ t.charging = k.charging /\ t.step = k.step
      /\ t.condemned = k.condemned /\ t.gap = k.gap
      /\ t.edge = k.edge /\ t.trip = k.trip
  BY <1>2 DEF As, Slow
<1>4. /\ m.charged = k.charged /\ m.charging = k.charging /\ m.step = k.step
      /\ m.condemned = k.condemned /\ m.gap = k.gap
      /\ m.edge = k.edge /\ m.trip = k.trip
  BY <1>2 DEF As, Slow
<1>. QED
  BY <1>1, <1>3, <1>4 DEF After, t, m

LEMMA AfterTick ==
  ASSUME NEW k \in ChannelRecords, NEW i \in ChannelRecords, Clocked(k, i),
         NEW j, After(i, j),
         Untripped(k) => j.state \notin {"FINAL_FAULT", "JIT_RETRY_WAIT"},
         \/ k.state \notin Rests \cup {"OFF", "BAT_LOST"}
         \/ k.state \in Rests \/ k.rest # 0 \/ j.state \notin Rests,
         k.rest > 1 => j.rest >= k.rest
  PROVE  Ticked(k, j)
<1>1. j \in ChannelRecords /\ Due(j) = Due(i)
  BY DEF After, Due
<1>2. i.charged = 0 /\ ~i.charging => Due(i) = 0
  BY Limits DEF Due, Lesser
<1>3. Untripped(k) => Untripped(j)
  BY DEF Clocked, After, Untripped
<1>. QED
  BY <1>1, <1>2, <1>3 DEF Clocked, After, Ticked

LEMMA DrivenTicks ==
  ASSUME NEW k \in ChannelRecords, k.state # "FINAL_FAULT",
         NEW c \in Channels, NEW r \in ReadingStates,
         NEW manual \in BOOLEAN
  PROVE  Ticked(k, Driven(k, c, r, manual))
<1>. DEFINE ticked == DeadBatteryTick(k, c, r)
            rested == Rested(ticked)
            warm == Warmed(rested, r.amps[c])
            stopped == [StopOneChannel(ticked) EXCEPT !.state = "THERMAL_REST"]
            begun == RestBegun(rested)
            byHand == ManualDriveChannel(warm, r.volts[c])
            bySelf == RegulateChannel(warm, c, r)
            t == Driven(k, c, r, manual)
<1>1. ticked \in ChannelRecords /\ Clocked(k, ticked)
  BY TickFacts
<1>2. \/ t = stopped /\ Resting(ticked)
      \/ t \in {begun, byHand, bySelf} /\ ~Resting(ticked)
  BY Zenon DEF Driven
<1>. HIDE DEF ticked, t
<1>3. /\ After(ticked, rested) /\ rested.state \in {ticked.state, "OFF"}
  <2>. DEFINE state == IF ticked.state = "THERMAL_REST" THEN "OFF" ELSE ticked.state
              j == [ticked EXCEPT !.rest = 0, !.hot = 0, !.state = state]
  <2>1. rested = ticked \/ rested = j
    BY DEF Rested
  <2>2. state \in States /\ (state = "OFF" \/ state = ticked.state)
    BY <1>1 DEF ChannelRecords, States
  <2>. HIDE DEF rested, state
  <2>3. j \in ChannelRecords
    BY <1>1, <2>2, Constants DEF ChannelRecords
  <2>4. After(ticked, j) /\ j.state = state
    BY <1>1, <2>3 DEF After, ChannelRecords
  <2>. HIDE DEF j
  <2>5. After(ticked, ticked)
    BY <1>1 DEF After
  <2>. QED
    BY <2>1, <2>2, <2>4, <2>5
<1>. HIDE DEF rested
<1>4. After(ticked, warm) /\ warm.state = rested.state
  <2>. DEFINE hot == IF ~AtMax(rested, r.amps[c]) THEN 0
                     ELSE IF rested.hot = 0 THEN 1 ELSE rested.hot
  <2>0. rested \in ChannelRecords
    BY <1>3 DEF After
  <2>1. hot \in 0 .. HotTime + 1
    BY <2>0, Constants DEF ChannelRecords
  <2>2. warm = [rested EXCEPT !.hot = hot]
    BY DEF Warmed
  <2>. HIDE DEF hot, warm
  <2>3. warm \in ChannelRecords
    BY <2>0, <2>1, <2>2 DEF ChannelRecords
  <2>. QED
    BY <1>3, <2>0, <2>2, <2>3 DEF After, ChannelRecords
<1>. HIDE DEF warm
<1>5. /\ rested \in ChannelRecords /\ warm \in ChannelRecords
      /\ warm.state # "FINAL_FAULT"
  BY <1>1, <1>3, <1>4 DEF After, Clocked
<1>6. /\ k.rest = ticked.rest /\ k.state = ticked.state
      /\ k.rest \in Nat
  BY <1>1, ClockTypes DEF Clocked
<1>7. After(ticked, stopped) /\ stopped.rest = k.rest /\ stopped.state = "THERMAL_REST"
  <2>. DEFINE j == StopOneChannel(ticked)
  <2>1. j \in ChannelRecords /\ After(ticked, j) /\ j.rest = ticked.rest
    BY <1>1, StoppedTyped, StoppedSlow
  <2>. HIDE DEF j
  <2>2. stopped \in ChannelRecords
    BY <2>1 DEF ChannelRecords, States, j
  <2>. QED
    BY <1>6, <2>1, <2>2 DEF After, ChannelRecords, j
<1>8. /\ begun \in ChannelRecords /\ ~begun.charging /\ begun.charged = 0
      /\ begun.condemned = ticked.condemned /\ begun.gap = ticked.gap
      /\ begun.edge = ticked.edge /\ begun.trip = ticked.trip
      /\ begun.state = "THERMAL_REST"
  <2>. DEFINE j == StopOneChannel(rested)
              i == [j EXCEPT !.rest = RestTime + 1, !.hot = 0, !.charged = 0,
                             !.charging = FALSE, !.state = "THERMAL_REST"]
  <2>1. j \in ChannelRecords /\ After(rested, j)
    BY <1>5, StoppedTyped, StoppedSlow
  <2>2. begun = i
    BY DEF RestBegun
  <2>. HIDE DEF j, begun
  <2>3. i \in ChannelRecords
    BY <2>1, Constants, ZenonT(60) DEF ChannelRecords, States
  <2>4. /\ ~i.charging /\ i.charged = 0 /\ i.condemned = j.condemned
        /\ i.gap = j.gap /\ i.edge = j.edge /\ i.trip = j.trip
        /\ i.state = "THERMAL_REST"
    BY <2>1 DEF ChannelRecords
  <2>. QED
    BY <1>3, <2>1, <2>2, <2>3, <2>4 DEF After
<1>9. After(ticked, byHand) /\ byHand.state = "MANUAL"
  <2>. DEFINE j == [warm EXCEPT !.state = "MANUAL"]
  <2>1. byHand \in ChannelRecords /\ After(warm, byHand)
    BY <1>5, RegulateSlowly DEF After
  <2>2. j \in ChannelRecords /\ j.state = "MANUAL"
    BY <1>5 DEF ChannelRecords, States
  <2>3. \E duty : byHand = Applied(j, duty)
    BY DEF ManualDriveChannel
  <2>. HIDE DEF j, byHand
  <2>. QED
    BY <1>4, <2>1, <2>2, <2>3, AppliedFields DEF After
<1>10. After(ticked, bySelf) /\ Onward(warm.state, bySelf.state)
  BY <1>4, <1>5, RegulateStates, RegulateSlowly DEF After
<1>. HIDE DEF stopped, begun, byHand, bySelf
<1>11. t = stopped /\ Resting(ticked) => Ticked(k, t)
  BY <1>1, <1>6, <1>7, AfterTick DEF Resting
<1>12. t = begun /\ ~Resting(ticked) => Ticked(k, t)
  <2>1. Due(begun) = 0
    BY <1>8, Limits DEF Due, Lesser
  <2>2. ~Resting(ticked) => ~(k.rest > 1)
    BY <1>6 DEF Resting
  <2>3. Due(begun) <= Due(k)
    BY <2>1, ClockTypes
  <2>4. Untripped(k) => Untripped(begun)
    BY <1>1, <1>8 DEF Clocked, Untripped
  <2>5. begun.condemned /\ ~k.condemned => Active(k) /\ Due(k) = DeadTime
    BY <1>1, <1>8 DEF Clocked
  <2>6. ~Active(k) => /\ ~begun.charging
                      /\ ~k.charging => /\ begun.gap = k.gap
                                        /\ k.gap >= GapTime => begun.charged = 0
    BY <1>1, <1>8 DEF Clocked
  <2>7. ~Resting(ticked) => Ticked(k, begun)
    BY <1>8, <2>1, <2>2, <2>3, <2>4, <2>5, <2>6 DEF Ticked
  <2>. QED
    BY <2>7
<1>13. t = byHand /\ ~Resting(ticked) => Ticked(k, t)
  BY <1>1, <1>6, <1>9, AfterTick DEF Resting, Rests
<1>14. t = bySelf /\ ~Resting(ticked) => Ticked(k, t)
  <2>1. Untripped(k) => bySelf.state \notin {"FINAL_FAULT", "JIT_RETRY_WAIT"}
    BY <1>3, <1>4, <1>6, <1>10 DEF Untripped, Onward
  <2>2. \/ k.state \notin Rests \cup {"OFF", "BAT_LOST"}
        \/ k.state \in Rests \/ bySelf.state \notin Rests
    BY <1>3, <1>4, <1>6, <1>10 DEF Onward, Rests
  <2>. QED
    BY <1>1, <1>6, <1>10, <2>1, <2>2, AfterTick DEF Resting
<1>15. Ticked(k, t)
  BY <1>2, <1>11, <1>12, <1>13, <1>14
<1>. QED
  BY <1>15 DEF t

\* Without an input the clock ticks twice, the second time on the waiting state.
LEMMA WaitTicks ==
  ASSUME NEW k \in ChannelRecords, NEW c \in Channels, NEW r \in ReadingStates,
         k.state # "FINAL_FAULT"
  PROVE  LET i == IdleChannel(DeadBatteryTick(k, c, r))
         IN /\ i.state # "FINAL_FAULT"
            /\ Ticked(k, DeadBatteryTick([i EXCEPT !.state = "INPUT_WAIT"], c, r))
<1>. DEFINE once == DeadBatteryTick(k, c, r)
            idle == IdleChannel(once)
            wait == [idle EXCEPT !.state = "INPUT_WAIT"]
            twice == DeadBatteryTick(wait, c, r)
<1>1. once \in ChannelRecords /\ Clocked(k, once)
  BY TickFacts
<1>. HIDE DEF once
<1>2. Carried(once, idle)
  BY <1>1, StepsCarry
<1>. HIDE DEF idle
<1>3. idle \in ChannelRecords /\ idle.state # "FINAL_FAULT"
  BY <1>1, <1>2 DEF Carried, Clocked
<1>4. wait \in ChannelRecords
  BY <1>3 DEF ChannelRecords, States
<1>5. /\ wait.rest = idle.rest /\ wait.gap = idle.gap
      /\ wait.condemned = idle.condemned /\ wait.charged = idle.charged
      /\ wait.charging = idle.charging /\ wait.step = idle.step
      /\ wait.edge = idle.edge /\ wait.trip = idle.trip
      /\ wait.state = "INPUT_WAIT"
  BY <1>3, <1>4 DEF ChannelRecords
<1>. HIDE DEF wait
<1>6. twice \in ChannelRecords /\ Clocked(wait, twice)
  BY <1>4, TickFacts
<1>. HIDE DEF twice
<1>7. Due(wait) <= Due(once)
  BY <1>1, <1>2, <1>4, <1>5, DueSame DEF Carried
<1>8. /\ Due(k) \in Nat /\ Due(once) \in Nat /\ Due(wait) \in Nat /\ Due(twice) \in Nat
      /\ k.rest \in Nat
  BY <1>1, <1>4, <1>6, ClockTypes, Limits
<1>9. Due(twice) <= Due(k)
  BY <1>1, <1>6, <1>7, <1>8 DEF Clocked
<1>10. ~Active(wait)
  BY <1>5 DEF Active
<1>11. /\ twice.condemned /\ ~k.condemned => Active(k) /\ Due(k) = DeadTime
       /\ twice.rest = k.rest
       /\ ~k.edge /\ ~k.trip => ~twice.edge /\ ~twice.trip
       /\ twice.state = "INPUT_WAIT"
  BY <1>1, <1>2, <1>5, <1>6, <1>10 DEF Clocked, Carried
<1>12. ~Active(k) =>
         /\ ~twice.charging
         /\ ~k.charging => /\ twice.gap = k.gap
                           /\ k.gap >= GapTime => twice.charged = 0
  BY <1>1, <1>2, <1>5, <1>6, <1>10 DEF Clocked, Carried
<1>13. Ticked(k, twice)
  BY <1>6, <1>8, <1>9, <1>11, <1>12 DEF Ticked, Untripped, Rests
<1>. QED
  BY <1>3, <1>13 DEF once, idle, wait, twice

\* A pass over a channel: what precedes its tick, and the rest from the tick on.
Served(k, j) == \E m : Carried(k, m) /\ Ticked(m, j)
ServedAll(s, t) == \A c \in Channels : Served(s.chan[c], t.chan[c])

LEMMA InputLostServes ==
  ASSUME NEW s \in Chargers, Plainly(s), NEW r \in ReadingStates
  PROVE  ServedAll(s, InputLost(s, r))
<1>. SUFFICES ASSUME NEW c \in Channels
              PROVE  Served(s.chan[c], InputLost(s, r).chan[c])
  BY DEF ServedAll
<1>. DEFINE k == s.chan[c]
            f == [d \in Channels |-> IF s.chan[d].state = "FINAL_FAULT"
                    THEN s.chan[d] ELSE DeadBatteryTick(s.chan[d], d, r)]
            ticked == [s EXCEPT !.chan = f]
            idle == SafeIdle(ticked)
            i == idle.chan[c]
            t == InputLost(s, r)
<1>1. k \in ChannelRecords /\ k.state # "FINAL_FAULT"
  BY ChargerFields DEF Plainly, Untripped
<1>2. ticked.chan = f
  BY DEF Chargers
<1>3. i = IdleChannel(DeadBatteryTick(k, c, r))
  BY <1>1, <1>2 DEF SafeIdle
<1>4. idle = [chan |-> idle.chan, hub |-> idle.hub]
  BY DEF SafeIdle
<1>5. t = [idle EXCEPT !.chan = [d \in Channels |->
             IF idle.chan[d].state = "FINAL_FAULT" THEN idle.chan[d]
             ELSE DeadBatteryTick([idle.chan[d] EXCEPT !.state = "INPUT_WAIT"], d, r)]]
  BY DEF InputLost, Each
<1>. HIDE DEF idle, t, k
<1>6. i.state # "FINAL_FAULT"
  BY <1>1, <1>3, WaitTicks
<1>7. t.chan[c] = DeadBatteryTick([i EXCEPT !.state = "INPUT_WAIT"], c, r)
  BY <1>4, <1>5, <1>6
<1>8. Ticked(k, t.chan[c])
  BY <1>1, <1>3, <1>7, WaitTicks
<1>9. Carried(k, k)
  BY <1>1, StepsCarry
<1>. QED
  BY <1>8, <1>9 DEF Served, k, t

LEMMA FaultedServes ==
  ASSUME NEW s \in Chargers, NEW r \in ReadingStates, NEW t,
         \A c \in Channels :
           t.chan[c] = DeadBatteryTick(IdleChannel(s.chan[c]), c, r)
  PROVE  ServedAll(s, t)
<1>. SUFFICES ASSUME NEW c \in Channels PROVE Served(s.chan[c], t.chan[c])
  BY DEF ServedAll
<1>. DEFINE k == s.chan[c]
            i == IdleChannel(k)
            j == DeadBatteryTick(i, c, r)
<1>1. k \in ChannelRecords /\ Carried(k, i)
  BY ChargerFields, StepsCarry
<1>. HIDE DEF k, i
<1>2. i \in ChannelRecords
  BY <1>1 DEF Carried
<1>3. j \in ChannelRecords /\ Clocked(i, j)
  BY <1>2, TickFacts
<1>. HIDE DEF j
<1>4. After(j, j)
  BY <1>3 DEF After
<1>5. i.rest \in Nat
  BY <1>2, ClockTypes
<1>6. Ticked(i, j)
  BY <1>2, <1>3, <1>4, <1>5, AfterTick DEF Clocked, Untripped, Rests
<1>. QED
  BY <1>1, <1>6 DEF Served, k, i, j

\* No strike, no retry: the pass drives every channel.
LEMMA PoweredServes ==
  ASSUME NEW s \in Chargers, Plainly(s), ~s.hub.relayOpen, NEW r \in ReadingStates
  PROVE  ServedAll(s, Powered(s, r))
<1>. SUFFICES ASSUME NEW c \in Channels
              PROVE  Served(s.chan[c], Powered(s, r).chan[c])
  BY DEF ServedAll
<1>. DEFINE served == IF s.hub.manual THEN s ELSE ServiceRetry(s)
            t == DriveAll(served, r)
            k == s.chan[c]
<1>1. JitServed(s, 0) = s /\ JitServed(s, 1) = s
  BY DEF JitServed, Plainly, Untripped, Channels
<1>2. Waiting(s) = {}
  BY DEF Waiting, Plainly, Untripped
<1>3. /\ served \in Chargers /\ served.chan = s.chan
      /\ served.hub.relayOpen = s.hub.relayOpen
      /\ served.hub.manual = s.hub.manual
  <2>. DEFINE u == [s EXCEPT !.hub.retry = NoChannel]
  <2>1. ServiceRetry(s) = u
    BY <1>2 DEF ServiceRetry
  <2>2. s = [chan |-> s.chan, hub |-> s.hub]
    BY DEF Chargers
  <2>3. u = [chan |-> s.chan, hub |-> [s.hub EXCEPT !.retry = NoChannel]]
    BY <2>2
  <2>4. /\ [s.hub EXCEPT !.retry = NoChannel] \in HubRecords
        /\ [s.hub EXCEPT !.retry = NoChannel].relayOpen = s.hub.relayOpen
        /\ [s.hub EXCEPT !.retry = NoChannel].manual = s.hub.manual
    BY ChargerFields DEF HubRecords
  <2>5. u \in Chargers
    BY <2>3, <2>4, ChargerFields DEF Chargers
  <2>. HIDE DEF u
  <2>. QED
    BY <2>1, <2>3, <2>4, <2>5
<1>4. Powered(s, r) = t
  BY <1>1, <1>3 DEF Powered
<1>. HIDE DEF served
<1>. DEFINE f == [d \in Channels |-> InputBack(s.chan[d])]
            back == [served EXCEPT !.chan = f]
            again == {d \in Waiting(back) : served.hub.manual /\ back.chan[d].rearm}
            g == [d \in Channels |-> IF d \in again THEN Rearmed(back.chan[d])
                                     ELSE back.chan[d]]
            ready == [back EXCEPT !.chan = g]
            h == [d \in Channels |-> IF d \in Waiting(ready) THEN ready.chan[d]
                    ELSE Driven(ready.chan[d], d, r, served.hub.manual)]
            driven == [ready EXCEPT !.chan = h]
<1>5. t = [driven EXCEPT !.hub.retry = IF @ \in again THEN NoChannel ELSE @]
  BY <1>3 DEF DriveAll, Each
<1>6. back = [chan |-> f, hub |-> served.hub]
  BY <1>3 DEF Chargers
<1>7. ASSUME NEW d \in Channels
      PROVE  /\ f[d] \in ChannelRecords /\ Carried(s.chan[d], f[d])
             /\ f[d].state \notin {"FINAL_FAULT", "JIT_RETRY_WAIT"}
  <2>1. s.chan[d] \in ChannelRecords /\ Carried(s.chan[d], f[d])
    BY ChargerFields, StepsCarry
  <2>. HIDE DEF f
  <2>. QED
    BY <2>1 DEF Carried, Plainly, Untripped
<1>. HIDE DEF f, t, back
<1>8. Waiting(back) = {}
  BY <1>6, <1>7 DEF Waiting
<1>9. again = {}
  BY <1>8
<1>. HIDE DEF again
<1>10. g = f
  <2>1. g = [d \in Channels |-> f[d]]
    BY <1>6, <1>9
  <2>2. f = [d \in Channels |-> f[d]]
    BY DEF f
  <2>. QED
    BY <2>1, <2>2
<1>. HIDE DEF g
<1>11. ready = [chan |-> f, hub |-> served.hub]
  BY <1>6, <1>10
<1>. HIDE DEF ready
<1>12. Waiting(ready) = {}
  BY <1>7, <1>11 DEF Waiting
<1>13. h[c] = Driven(f[c], c, r, s.hub.manual)
  BY <1>3, <1>11, <1>12
<1>. HIDE DEF h
<1>14. driven = [chan |-> h, hub |-> served.hub]
  BY <1>11
<1>. HIDE DEF driven
<1>15. t.chan = h
  <2>. DEFINE retry == IF served.hub.retry \in again THEN NoChannel
                       ELSE served.hub.retry
  <2>1. t = [driven EXCEPT !.hub.retry = retry]
    BY <1>5, <1>14
  <2>. HIDE DEF retry
  <2>. QED
    BY <1>14, <2>1
<1>16. s.hub.manual \in BOOLEAN
  BY ChargerFields DEF HubRecords
<1>17. Ticked(f[c], t.chan[c])
  BY <1>7, <1>13, <1>15, <1>16, DrivenTicks
<1>. QED
  BY <1>4, <1>7, <1>17 DEF Served

LEMMA CarriedServed ==
  ASSUME NEW s, NEW t, NEW u, CarriedAll(s, t), ServedAll(t, u)
  PROVE  ServedAll(s, u)
<1>. SUFFICES ASSUME NEW c \in Channels PROVE Served(s.chan[c], u.chan[c])
  BY DEF ServedAll
<1>1. PICK m : Carried(t.chan[c], m) /\ Ticked(m, u.chan[c])
  BY DEF ServedAll, Served
<1>2. Carried(s.chan[c], m)
  BY <1>1, CarriedOn DEF CarriedAll
<1>. QED
  BY <1>1, <1>2 DEF Served

\* What a pass that drives nothing for good leaves behind.
Passed(s, t, valid) ==
  \/ ServedAll(s, t) /\ ~s.hub.relayOpen
  \/ CarriedAll(s, t) /\ (t.hub.relayOpen \/ ~valid)

LEMMA UnlockedServes ==
  ASSUME NEW w \in Chargers, Plainly(w), NEW q \in ReadingStates,
         PassUnlocked(w, q)
  PROVE  \E t : Becomes(t) /\ Passed(w, t, q.valid)
<1>. DEFINE r == Told(w, q)
            s == Mirrored(w, r)
<1>1. r \in ReadingStates /\ r.valid = q.valid
  <2>. DEFINE lost == q.lost /\ ~hub.manual /\ ~w.hub.manual
  <2>1. lost \in BOOLEAN
    OBVIOUS
  <2>2. r = [q EXCEPT !.lost = lost]
    BY DEF Told
  <2>. HIDE DEF lost, r
  <2>. QED
    BY <2>1, <2>2 DEF ReadingStates
<1>2. \/ PassDisconnected(s, r) \/ PassFaulted(s, r) \/ PassBlind(s, r)
      \/ PassNoInput(s, r) \/ PassPowered(s, r)
  BY DEF PassUnlocked
<1>. HIDE DEF r
<1>3. /\ s \in Chargers /\ s.hub.relayOpen = w.hub.relayOpen
      /\ CarriedAll(w, s) /\ Plainly(s)
  BY MirroredMoves, MirroredCarries, CarriedUntripped DEF Moves
<1>. HIDE DEF s
<1>4. ASSUME NEW t, Becomes(t), CarriedAll(s, t), t.hub.relayOpen \/ ~q.valid
      PROVE  \E u : Becomes(u) /\ Passed(w, u, q.valid)
  BY <1>3, <1>4, AllCarriedOn DEF Passed
<1>5. ASSUME NEW t, Becomes(t), ServedAll(s, t), ~s.hub.relayOpen
      PROVE  \E u : Becomes(u) /\ Passed(w, u, q.valid)
  BY <1>3, <1>5, CarriedServed DEF Passed
<1>6. CASE PassDisconnected(s, r)
  <2>. DEFINE t == Disconnected(s, r.present)
  <2>1. CarriedAll(s, t)
    BY <1>3, ExitsCarry
  <2>2. t.hub.relayOpen
    BY <1>3, ChargerFields DEF Disconnected, HubRecords
  <2>. QED
    BY <1>4, <1>6, <2>1, <2>2 DEF PassDisconnected
<1>7. CASE PassFaulted(s, r)
  <2>. DEFINE idle == SafeIdle(s)
              t == Each(idle, LAMBDA k, c : DeadBatteryTick(k, c, r))
  <2>1. Becomes(IF ~r.valid THEN idle ELSE t) /\ ~s.hub.relayOpen
    BY <1>7 DEF PassFaulted, HeldOpen
  <2>2. CarriedAll(s, idle)
    BY <1>3, ExitsCarry
  <2>3. ASSUME NEW c \in Channels
        PROVE  t.chan[c] = DeadBatteryTick(IdleChannel(s.chan[c]), c, r)
    BY DEF Each, SafeIdle
  <2>. HIDE DEF idle, t
  <2>4. ServedAll(s, t)
    BY <1>1, <1>3, <2>3, FaultedServes
  <2>. QED
    BY <1>1, <1>4, <1>5, <2>1, <2>2, <2>4
<1>8. CASE PassBlind(s, r)
  <2>1. Becomes(PausedOnBlind(s)) /\ ~q.valid
    BY <1>1, <1>8 DEF PassBlind
  <2>2. CarriedAll(s, PausedOnBlind(s))
    BY <1>3, ExitsCarry
  <2>. QED
    BY <1>4, <2>1, <2>2
<1>9. LET seen == Seen(s, r)
      IN /\ seen \in Chargers /\ CarriedAll(s, seen) /\ Plainly(seen)
         /\ seen.hub.relayOpen = s.hub.relayOpen
  BY <1>1, <1>3, SeenMoves, SeenCarries, CarriedUntripped DEF Moves
<1>10. CASE PassNoInput(s, r)
  <2>1. Becomes(InputLost(Seen(s, r), r)) /\ ~s.hub.relayOpen
    BY <1>10 DEF PassNoInput, HeldOpen
  <2>2. ServedAll(Seen(s, r), InputLost(Seen(s, r), r))
    BY <1>1, <1>9, InputLostServes
  <2>. QED
    BY <1>5, <1>9, <2>1, <2>2, CarriedServed
<1>11. CASE PassPowered(s, r)
  <2>1. Becomes(Powered(Seen(s, r), r)) /\ ~s.hub.relayOpen
    BY <1>11 DEF PassPowered, HeldOpen
  <2>2. ServedAll(Seen(s, r), Powered(Seen(s, r), r))
    BY <1>1, <1>9, <2>1, PoweredServes
  <2>. QED
    BY <1>5, <1>9, <2>1, <2>2, CarriedServed
<1>. QED
  BY <1>2, <1>6, <1>7, <1>8, <1>10, <1>11

\* A whole pass over a channel: the clocks are read at most as far as they have
\* run, and not at all in a pass that looks at nothing or ends in a verdict.
LEMMA PassServes ==
  ASSUME ChargerInv, Plainly(Whole), NEW r \in Readings, Pass(r)
  PROVE  /\ Plainly(WholeNext)
         /\ \A c \in Channels :
              \/ Served(Aged(chan[c]), chan'[c]) /\ ~hub.relayOpen /\ ~hub.locked
              \/ /\ Carried(Aged(chan[c]), chan'[c])
                 /\ hub'.relayOpen \/ hub'.locked \/ ~Looks(r)
<1>. DEFINE e == Entered(r)
            a == [chan |-> [c \in Channels |-> Aged(chan[c])], hub |-> hub]
<1>1. r \in ReadingStates
  BY ChargerAssumption DEF ReadingStates
<1>2. /\ e \in Chargers /\ e.hub.relayOpen = hub.relayOpen
      /\ hub.locked => e.hub.locked
  BY EnteredMoves DEF ChargerInv
<1>3. CarriedAll(a, e)
  BY EnteredCarries DEF ChargerInv, CarriedAll
<1>4. Plainly(a) /\ \A c \in Channels : a.chan[c] = Aged(chan[c])
  <2>. SUFFICES ASSUME NEW c \in Channels PROVE Untripped(Aged(chan[c]))
    BY DEF Plainly
  <2>1. chan[c] \in ChannelRecords /\ Untripped(chan[c])
    BY WholeTyped DEF Plainly, ChargerInv, TypeOK
  <2>2. /\ Aged(chan[c]).edge = chan[c].edge /\ Aged(chan[c]).trip = chan[c].trip
        /\ Aged(chan[c]).state = chan[c].state
    BY <2>1 DEF Aged, ChannelRecords
  <2>. QED
    BY <2>1, <2>2 DEF Untripped
<1>5. \/ PassSuspended(e)
      \/ hub.suspended = 0 /\ PassLocked(e, r)
      \/ hub.suspended = 0 /\ ~e.hub.locked /\ PassUnlocked(ModeSwitched(e), r)
  BY DEF Pass
<1>. HIDE DEF e, a
<1>6. Plainly(e)
  BY <1>3, <1>4, CarriedUntripped
<1>7. SUFFICES \E t : /\ Becomes(t)
                      /\ \/ ServedAll(a, t) /\ ~hub.relayOpen /\ ~hub.locked
                         \/ CarriedAll(a, t)
                            /\ (t.hub.relayOpen \/ t.hub.locked \/ ~Looks(r))
  <2>1. ASSUME NEW m, NEW k, NEW j, Untripped(k), Carried(k, m), Ticked(m, j)
        PROVE  Untripped(j)
    BY <2>1 DEF Carried, Ticked, Untripped
  <2>2. ASSUME NEW m, NEW k, Untripped(k), Carried(k, m) PROVE Untripped(m)
    BY <2>2 DEF Carried, Untripped
  <2>. QED
    BY <1>4, <1>7, <2>1, <2>2
       DEF Becomes, ServedAll, Served, CarriedAll, Plainly, WholeNext
<1>8. CASE PassSuspended(e)
  <2>. DEFINE t == Each(e, LAMBDA k, c : [k EXCEPT !.pwm = 0])
  <2>1. Becomes(t) /\ hub.suspended > 0
    BY <1>8, Zenon DEF PassSuspended
  <2>2. CarriedAll(e, t)
    BY <1>2, ExitsCarry, Zenon
  <2>. HIDE DEF t
  <2>3. ~Looks(r)
    BY <2>1 DEF Looks
  <2>. QED
    BY <1>3, <2>1, <2>2, <2>3, AllCarriedOn
<1>9. CASE PassLocked(e, r)
  <2>. DEFINE t == Disconnected(e, r.present)
  <2>1. Becomes(t) /\ CarriedAll(e, t)
    BY <1>2, <1>9, ExitsCarry DEF PassLocked
  <2>2. t.hub.relayOpen
    BY <1>2, ChargerFields DEF Disconnected, HubRecords
  <2>. HIDE DEF t
  <2>. QED
    BY <1>3, <2>1, <2>2, AllCarriedOn
<1>10. CASE ~e.hub.locked /\ PassUnlocked(ModeSwitched(e), r)
  <2>. DEFINE w == ModeSwitched(e)
  <2>1. /\ w \in Chargers /\ CarriedAll(e, w) /\ Plainly(w)
        /\ w.hub.relayOpen = hub.relayOpen
    BY <1>2, <1>6, ModeMoves, ModeCarries, CarriedUntripped DEF Moves
  <2>. HIDE DEF w
  <2>2. PICK t : Becomes(t) /\ Passed(w, t, r.valid)
    BY <1>1, <1>10, <2>1, UnlockedServes DEF w
  <2>3. CarriedAll(a, w)
    BY <1>3, <2>1, AllCarriedOn
  <2>4. CASE ServedAll(w, t) /\ ~w.hub.relayOpen
    BY <1>2, <1>10, <2>1, <2>2, <2>3, <2>4, CarriedServed
  <2>5. CASE CarriedAll(w, t) /\ (t.hub.relayOpen \/ ~r.valid)
    <3>1. CarriedAll(a, t)
      BY <2>3, <2>5, AllCarriedOn
    <3>. QED
      BY <2>2, <2>5, <3>1 DEF Looks
  <2>. QED
    BY <2>2, <2>4, <2>5 DEF Passed
<1>. QED
  BY <1>5, <1>8, <1>9, <1>10

\* The same in the channel's own clocks, before and after the pass.
LEMMA AgedClocks ==
  ASSUME NEW k \in ChannelRecords
  PROVE  LET a == Aged(k)
         IN /\ a \in ChannelRecords /\ a.state = k.state
            /\ a.condemned = k.condemned /\ a.charged = k.charged
            /\ a.charging = k.charging /\ a.gap = Lesser(k.gap + 1, GapTime)
            /\ a.rest = IF k.rest > 1 THEN k.rest - 1 ELSE k.rest
            /\ Due(a) <= Due(k) + 1
<1>. DEFINE a == Aged(k)
<1>1. a \in ChannelRecords
  BY AgedTyped
<1>2. /\ a.state = k.state
      /\ a.condemned = k.condemned /\ a.charged = k.charged
      /\ a.charging = k.charging /\ a.gap = Lesser(k.gap + 1, GapTime)
      /\ a.rest = IF k.rest > 1 THEN k.rest - 1 ELSE k.rest
      /\ a.step = IF k.charging THEN Lesser(k.step + 1, DeadTime) ELSE 0
  BY DEF Aged, ChannelRecords
<1>. HIDE DEF a
<1>3. Due(a) <= Due(k) + 1
  BY <1>1, <1>2, ClockTypes, Limits DEF Lesser
<1>. QED
  BY <1>1, <1>2, <1>3 DEF a

LEMMA CarriedClocks ==
  ASSUME NEW k \in ChannelRecords, NEW j, Carried(Aged(k), j)
  PROVE  /\ j \in ChannelRecords /\ Due(j) <= Due(k) + 1
         /\ j.condemned = k.condemned /\ j.charged = k.charged
         /\ j.charging = k.charging /\ j.gap = Lesser(k.gap + 1, GapTime)
         /\ j.rest = IF k.rest > 1 THEN k.rest - 1 ELSE k.rest
         /\ j.state \in {k.state, "OFF", "BAT_LOST"}
<1>. DEFINE a == Aged(k)
<1>1. /\ a \in ChannelRecords /\ a.state = k.state
      /\ a.condemned = k.condemned /\ a.charged = k.charged
      /\ a.charging = k.charging /\ a.gap = Lesser(k.gap + 1, GapTime)
      /\ a.rest = IF k.rest > 1 THEN k.rest - 1 ELSE k.rest
      /\ Due(a) <= Due(k) + 1
  BY AgedClocks
<1>. HIDE DEF a
<1>2. Carried(a, j)
  BY DEF a
<1>3. j \in ChannelRecords /\ Due(j) <= Due(a)
  BY <1>1, <1>2, DueSame DEF Carried
<1>4. Due(j) \in Nat /\ Due(a) \in Nat /\ Due(k) \in Nat
  BY <1>1, <1>3, ClockTypes, Limits
<1>. QED
  BY <1>1, <1>2, <1>3, <1>4 DEF Carried

LEMMA ServedClocks ==
  ASSUME NEW k \in ChannelRecords, NEW j, Served(Aged(k), j)
  PROVE  /\ j \in ChannelRecords /\ Due(j) <= Due(k) + 1
         /\ j.condemned /\ ~k.condemned => Active(k) /\ Due(k) + 1 >= DeadTime
         /\ ~Active(k) =>
              /\ ~j.charging
              /\ ~k.charging =>
                   /\ j.gap = Lesser(k.gap + 1, GapTime)
                   /\ k.gap + 1 >= GapTime => j.charged = 0
         /\ k.state \in Rests /\ j.state \in Rests => Due(j) = 0
         /\ k.rest > 2 => j.rest >= k.rest - 1
<1>1. PICK m : Carried(Aged(k), m) /\ Ticked(m, j)
  BY DEF Served
<1>2. /\ m \in ChannelRecords /\ Due(m) <= Due(k) + 1
      /\ m.condemned = k.condemned /\ m.charged = k.charged
      /\ m.charging = k.charging /\ m.gap = Lesser(k.gap + 1, GapTime)
      /\ m.rest = IF k.rest > 1 THEN k.rest - 1 ELSE k.rest
      /\ m.state \in {k.state, "OFF", "BAT_LOST"}
  BY <1>1, CarriedClocks
<1>3. j \in ChannelRecords /\ Due(j) <= Due(m)
  BY <1>1 DEF Ticked
<1>4. /\ Due(j) \in Nat /\ Due(m) \in Nat /\ Due(k) \in Nat
      /\ k.gap \in Nat /\ k.rest \in Nat /\ j.rest \in Nat
  BY <1>2, <1>3, ClockTypes, Limits
<1>5. Active(m) => Active(k)
  BY <1>2 DEF Active
<1>6. Due(j) <= Due(k) + 1
  BY <1>2, <1>3, <1>4
<1>7. j.condemned /\ ~k.condemned => Active(k) /\ Due(k) + 1 >= DeadTime
  BY <1>1, <1>2, <1>4, <1>5, Limits DEF Ticked
<1>8. k.gap + 1 >= GapTime => m.gap >= GapTime
  BY <1>2, <1>4, Limits DEF Lesser
<1>9. ~Active(k) =>
        /\ ~j.charging
        /\ ~k.charging =>
             /\ j.gap = Lesser(k.gap + 1, GapTime)
             /\ k.gap + 1 >= GapTime => j.charged = 0
  BY <1>1, <1>2, <1>5, <1>8 DEF Ticked
<1>10. k.state \in Rests /\ j.state \in Rests => Due(j) = 0
  BY <1>1, <1>2 DEF Ticked, Rests
<1>11. k.rest > 2 => j.rest >= k.rest - 1
  BY <1>1, <1>2, <1>4 DEF Ticked
<1>. QED
  BY <1>3, <1>6, <1>7, <1>9, <1>10, <1>11

\* Between two passes: the panel forgives, it never adds.
Left(k, j) ==
  /\ j \in ChannelRecords
  /\ j.rest \in {0, k.rest} /\ j.gap \in {k.gap, GapTime}
  /\ j.condemned => k.condemned
  /\ j.charged \in {0, k.charged} /\ (j.charging => k.charging)
  /\ j.step = k.step
  /\ Untripped(k) => Untripped(j)

LEMMA PanelLeaves ==
  ASSUME TypeOK, TypeOK', Panel \/ Suspend \/ Resume, NEW c \in Channels
  PROVE  Left(chan[c], chan'[c])
<1>1. chan \in [Channels -> ChannelRecords]
  BY DEF TypeOK
<1>2. chan[c] \in ChannelRecords /\ chan'[c] \in ChannelRecords
  BY DEF TypeOK
<1>3. ASSUME NEW k \in ChannelRecords PROVE Left(k, k)
  BY DEF Left
<1>4. CASE chan' = chan
  BY <1>2, <1>3, <1>4
<1>5. ASSUME NEW d \in Channels, NEW j, chan' = [chan EXCEPT ![d] = j],
             Left(chan[d], j)
      PROVE  Left(chan[c], chan'[c])
  BY <1>1, <1>2, <1>3, <1>5
<1>6. ASSUME NEW d \in Channels, NEW on \in BOOLEAN,
             SetEnable(d, on) \/ SetDutyFixedEnable(d, on)
      PROVE  Left(chan[c], chan'[c])
  <2>1. /\ Left(chan[d], [chan[d] EXCEPT !.enabled = on])
        /\ Left(chan[d], [chan[d] EXCEPT !.fixed = on])
    BY <1>1 DEF Left, Untripped, ChannelRecords
  <2>2. \/ chan' = [chan EXCEPT ![d] = [chan[d] EXCEPT !.enabled = on]]
        \/ chan' = [chan EXCEPT ![d] = [chan[d] EXCEPT !.fixed = on]]
    BY <1>1, <1>6 DEF SetEnable, SetDutyFixedEnable
  <2>. QED
    BY <1>5, <2>1, <2>2
<1>7. ASSUME NEW d \in Channels, NEW duty \in Duties, SetDutyFixed(d, duty)
      PROVE  Left(chan[c], chan'[c])
  <2>. DEFINE rearm == chan[d].rearm \/ hub.manual
              j == [chan[d] EXCEPT !.command = duty, !.rearm = rearm]
  <2>1. chan' = [chan EXCEPT ![d] = j]
    BY <1>1, <1>7 DEF SetDutyFixed
  <2>2. rearm \in BOOLEAN
    OBVIOUS
  <2>. HIDE DEF rearm
  <2>3. /\ j.rest = chan[d].rest /\ j.gap = chan[d].gap
        /\ j.condemned = chan[d].condemned /\ j.charged = chan[d].charged
        /\ j.charging = chan[d].charging /\ j.step = chan[d].step
        /\ j.edge = chan[d].edge /\ j.trip = chan[d].trip
        /\ j.state = chan[d].state
    BY <1>1 DEF ChannelRecords
  <2>. HIDE DEF j
  <2>4. j \in ChannelRecords
    BY <1>1, <2>1 DEF TypeOK
  <2>5. Left(chan[d], j)
    BY <2>3, <2>4 DEF Left, Untripped
  <2>. QED
    BY <1>5, <2>1, <2>5
<1>. DEFINE k == chan[c]
            cool == [k EXCEPT !.rest = 0, !.hot = 0]
            fresh == [k EXCEPT !.condemned = FALSE, !.charged = 0,
                        !.charging = FALSE, !.gap = GapTime, !.rest = 0,
                        !.hot = 0]
<1>8. Left(k, cool) /\ Left(k, fresh)
  <2>1. cool \in ChannelRecords /\ fresh \in ChannelRecords
    BY <1>2, Constants, ZenonT(60) DEF ChannelRecords
  <2>2. Left(k, cool)
    BY <1>2, <2>1 DEF Left, Untripped, ChannelRecords
  <2>3. Left(k, fresh)
    BY <1>2, <2>1 DEF Left, Untripped, ChannelRecords
  <2>. QED
    BY <2>2, <2>3
<1>9. ASSUME NEW j \in ChannelRecords PROVE Left(j, StartOver(j))
  <2>1. StartOver(j) \in ChannelRecords
    BY <1>9, StoppedTyped
  <2>2. ASSUME NEW f \in Slow PROVE As(f, j, StartOver(j))
    <3>1. f \in DOMAIN j
      BY <1>9 DEF Slow, ChannelRecords
    <3>. QED
      BY <3>1, SlowSame
  <2>3. StartOver(j).state = "OFF"
    BY <1>9 DEF StartOver, StopOneChannel, ResetChannelToOff, Silent, ChannelRecords
  <2>. DEFINE t == StartOver(j)
  <2>. HIDE DEF t
  <2>4. /\ t.rest = j.rest /\ t.gap = j.gap /\ t.condemned = j.condemned
        /\ t.charged = j.charged /\ t.charging = j.charging /\ t.step = j.step
        /\ t.edge = j.edge /\ t.trip = j.trip
    BY <2>2 DEF As, Slow, t
  <2>. QED
    BY <2>1, <2>3, <2>4 DEF Left, Untripped, t
<1>10. CASE RestartCycle \/ Clears
  <2>1. \/ chan'[c] = cool \/ chan'[c] = StartOver(cool)
        \/ chan'[c] = fresh \/ chan'[c] = StartOver(fresh) \/ chan'[c] = k
    <3>1. CASE RestartCycle
      BY <3>1 DEF RestartCycle
    <3>2. CASE Clears
      <4>1. PICK S \in SUBSET Channels : ClearDead(S)
        BY <3>2 DEF Clears
      <4>. QED
        BY <4>1 DEF ClearDead
    <3>. QED
      BY <1>10, <3>1, <3>2
  <2>. HIDE DEF cool, fresh, k
  <2>2. Left(cool, StartOver(cool)) /\ Left(fresh, StartOver(fresh))
    BY <1>8, <1>9 DEF Left
  <2>3. Left(k, StartOver(cool)) /\ Left(k, StartOver(fresh))
    BY <1>8, <2>2 DEF Left
  <2>. QED
    BY <1>2, <1>3, <1>8, <2>1, <2>3 DEF k
<1>. QED
  BY <1>4, <1>6, <1>7, <1>10
     DEF Panel, Clears, Frame, SetManualTestMode, Suspend, Resume
-----------------------------------------------------------------------------
(* The theorems.                                                           *)

LEMMA ChargerInvariant == Spec => []ChargerInv
<1>1. ChargerInv /\ [Next]_vars => ChargerInv'
  BY StepHolds
<1>. QED
  BY <1>1, StartsSound, PTL DEF Spec

(* Charger.c's state: whatever the board reads, the panel sends and the    *)
(* comparators report, every duty stays under the ceiling, every clock in  *)
(* its window and the strikes of a channel at three or fewer.              *)
THEOREM ChargerTyped == Spec => []TypeOK
<1>1. ChargerInv => TypeOK
  BY DEF ChargerInv
<1>. QED
  BY <1>1, ChargerInvariant, PTL

(* Charger_FinalDisconnect, for every reading, timing and command: behind  *)
(* a final fault, a verdict of scenario 7 or the opened relay no channel   *)
(* switches, and a final fault never leaves the relay closed.              *)
THEOREM NothingSwitchesAfterTheEnd == Spec => []StruckOut
<1>1. ChargerInv => StruckOut
  BY WholeTyped DEF ChargerInv, Sound, Silenced, StruckOut
<1>. QED
  BY <1>1, ChargerInvariant, PTL

(* Charger.h, FINAL_FAULT and scenario 7: no pass, no command and no event *)
(* takes back a final fault, a verdict or the opened relay.                *)
THEOREM LatchesAreKept == Spec => LatchesHold
<1>. DEFINE Kept ==
       /\ hub.locked => hub'.locked
       /\ hub.relayOpen => hub'.relayOpen
       /\ \A c \in Channels :
            chan[c].state = "FINAL_FAULT" => chan'[c].state = "FINAL_FAULT"
<1>1. ChargerInv /\ [Next]_vars => Kept
  <2>1. WholeNext.chan = chan' /\ WholeNext.hub = hub'
    BY DEF WholeNext
  <2>. QED
    BY <2>1, StepHolds, WholeTyped DEF Holds
<1>2. Spec => [][Kept]_vars
  BY <1>1, ChargerInvariant, PTL DEF Spec
<1>. QED
  BY <1>2 DEF LatchesHold

\* Every reachable state again, with what scenario 6 needs: the states the
\* regulator passes by are silent, so no verdict finds one of them driven.
CondemnedInv == ChargerInv /\ Calm(Whole) /\ Spared(Whole)

LEMMA CondemnedStarts == Init => CondemnedInv
<1>. SUFFICES ASSUME Init PROVE CondemnedInv
  OBVIOUS
<1>1. ASSUME NEW c \in Channels PROVE chan[c].pwm = 0
  <2>1. PICK dead \in [Channels -> BOOLEAN], on \in [Channels -> BOOLEAN] :
          chan = [d \in Channels |-> [Idle EXCEPT !.condemned = dead[d],
                                                 !.enabled = on[d]]]
    BY DEF Init
  <2>2. ASSUME NEW bit, NEW tib
        PROVE  [Idle EXCEPT !.condemned = bit, !.enabled = tib].pwm = 0
    BY DEF Idle
  <2>. QED
    BY <2>1, <2>2
<1>. QED
  BY <1>1, StartsSound, WholeTyped DEF CondemnedInv, Calm, Hushed, Spared

LEMMA CondemnedHolds == CondemnedInv /\ [Next]_vars => CondemnedInv'
<1>. SUFFICES ASSUME CondemnedInv, [Next]_vars PROVE CondemnedInv'
  OBVIOUS
<1>1. ChargerInv'
  BY StepHolds DEF CondemnedInv
<1>2. Whole' = WholeNext
  BY DEF Whole, WholeNext
<1>3. CASE UNCHANGED vars
  <2>1. WholeNext = Whole
    BY <1>3 DEF vars, Whole, WholeNext
  <2>2. Calm(WholeNext) /\ Spared(WholeNext)
    BY <2>1 DEF CondemnedInv
  <2>. QED
    BY <1>1, <1>2, <2>2 DEF CondemnedInv, Calm, Spared
<1>4. CASE Next
  <2>1. Calm(WholeNext) /\ Spared(WholeNext)
    BY <1>4, PassSettles, PanelSettles DEF Next, CondemnedInv
  <2>. QED
    BY <1>1, <1>2, <2>1 DEF CondemnedInv, Calm, Spared
<1>. QED
  BY <1>3, <1>4

LEMMA CondemnedInvariant == Spec => []CondemnedInv
  BY CondemnedStarts, CondemnedHolds, PTL DEF Spec

(* Charger_RegulateChannel, scenario 6: whatever restarts, retries, blind  *)
(* pauses, thermal rests and commands come in between, outside the manual  *)
(* mode a channel whose battery is condemned is never driven, in the very  *)
(* pass of the verdict included.                                           *)
THEOREM CondemnedStayOff == Spec => []DeadStaysOff
<1>1. CondemnedInv => DeadStaysOff
  BY WholeTyped DEF CondemnedInv, Spared, DeadStaysOff
<1>. QED
  BY <1>1, CondemnedInvariant, PTL

\* Every reachable state of the clocks' runs: what a rest still owes is on its
\* clock; the charge time due is no longer than the spell seen outside; and a
\* pause seen outside is a pause on the channel's own clock.
ClockInv ==
  /\ CondemnedInv /\ Plainly(Whole)
  /\ owed \in Nat
  /\ owed > 0 => chan[0].rest > owed
  /\ spell \in 0 .. DeadTime /\ pause \in 0 .. LongPause
  /\ \/ hub.relayOpen \/ hub.locked
     \/ /\ Due(chan[0]) <= spell
        /\ pause > 0 => /\ ~chan[0].charging
                        /\ chan[0].gap >= Lesser(pause - 1, GapTime)
        /\ pause = LongPause => chan[0].charged = 0

LEMMA ClockIsNext == ClockNext => [Next]_vars
<1>1. 0 \in Channels
  BY DEF Channels
<1>2. ClockPanel => Panel
  BY <1>1 DEF ClockPanel, PanelByHand, PanelSwitches, Panel
<1>. QED
  BY <1>2 DEF ClockNext, ClockPass, Next

LEMMA ClockStarts == ClockInit => ClockInv
<1>. SUFFICES ASSUME ClockInit PROVE ClockInv
  OBVIOUS
<1>1. CondemnedInv
  BY CondemnedStarts DEF ClockInit
<1>2. ASSUME NEW c \in Channels
      PROVE  /\ Untripped(chan[c])
             /\ ~chan[c].charging /\ chan[c].charged = 0
  <2>1. PICK dead \in [Channels -> BOOLEAN], on \in [Channels -> BOOLEAN] :
          chan = [d \in Channels |-> [Idle EXCEPT !.condemned = dead[d],
                                                 !.enabled = on[d]]]
    BY DEF ClockInit, Init
  <2>2. ASSUME NEW bit, NEW tib
        PROVE  LET k == [Idle EXCEPT !.condemned = bit, !.enabled = tib]
               IN /\ ~k.edge /\ ~k.trip /\ k.state = "OFF"
                  /\ ~k.charging /\ k.charged = 0
    BY DEF Idle
  <2>. QED
    BY <2>1, <2>2 DEF Untripped
<1>3. Due(chan[0]) = 0
  BY <1>2, Limits DEF Due, Lesser, Channels
<1>4. owed = 0 /\ spell = 0 /\ pause = 0 /\ LongPause \in Nat /\ LongPause > 1
  BY Limits DEF ClockInit, LongPause, Greater
<1>. QED
  BY <1>1, <1>2, <1>3, <1>4, Limits, WholeTyped DEF ClockInv, Plainly

\* What a pass makes of the watch and of the clocks it stands for.
LEMMA PassKeepsClocks ==
  ASSUME ClockInv, NEW r \in Readings, ClockPass(r)
  PROVE  /\ Plainly(WholeNext) /\ owed' \in Nat
         /\ owed' > 0 => chan'[0].rest > owed'
         /\ spell' \in 0 .. DeadTime /\ pause' \in 0 .. LongPause
         /\ \/ hub'.relayOpen \/ hub'.locked
            \/ /\ Due(chan'[0]) <= spell'
               /\ pause' > 0 => /\ ~chan'[0].charging
                                /\ chan'[0].gap >= Lesser(pause' - 1, GapTime)
               /\ pause' = LongPause => chan'[0].charged = 0
         /\ ~chan[0].condemned /\ chan'[0].condemned => spell' >= DeadTime
<1>. DEFINE k == chan[0]
            j == chan'[0]
<1>1. /\ 0 \in Channels /\ k \in ChannelRecords
      /\ ChargerInv /\ CondemnedInv /\ Pass(r)
  BY DEF ClockInv, CondemnedInv, ChargerInv, TypeOK, Channels, ClockPass
<1>2. /\ Plainly(WholeNext)
      /\ \/ Served(Aged(k), j) /\ ~hub.relayOpen /\ ~hub.locked
         \/ /\ Carried(Aged(k), j)
            /\ hub'.relayOpen \/ hub'.locked \/ ~Looks(r)
  BY <1>1, PassServes DEF ClockInv
<1>3. /\ hub.relayOpen => hub'.relayOpen
      /\ hub.locked => hub'.locked
  BY <1>1, PassEnds, WholeTyped DEF Ends, Holds, Becomes
<1>4. /\ owed' = IF j.rest > RestTime THEN RestTime ELSE Sooner(owed)
      /\ pause' = IF Active(k) THEN 0
                  ELSE IF ~Looks(r) THEN pause ELSE Lesser(pause + 1, LongPause)
      /\ spell' = IF SeenAtRest(r) \/ pause' = LongPause
                  THEN 0 ELSE Lesser(spell + 1, DeadTime)
  BY DEF ClockPass
<1>5. SeenAtRest(r) => k.state \in Rests /\ j.state \in Rests
  BY DEF SeenAtRest
<1>6. /\ owed \in Nat /\ spell \in 0 .. DeadTime /\ pause \in 0 .. LongPause
      /\ owed > 0 => k.rest > owed
      /\ \/ hub.relayOpen \/ hub.locked
         \/ /\ Due(k) <= spell
            /\ pause > 0 => ~k.charging /\ k.gap >= Lesser(pause - 1, GapTime)
            /\ pause = LongPause => k.charged = 0
  BY DEF ClockInv
<1>7. LongPause \in Nat /\ LongPause > 1 /\ LongPause > GapTime
      /\ (LongPause = GapTime + 1 \/ (LongPause = 2 /\ GapTime = 0))
  BY Limits DEF LongPause, Greater
<1>8. Active(k) => k.state \notin Rests
  BY DEF Active, Rests
<1>9. k.gap \in Nat /\ k.rest \in Nat /\ Due(k) \in Nat
  BY <1>1, ClockTypes, Limits
<1>. HIDE DEF k
<1>10. spell' \in 0 .. DeadTime /\ pause' \in 0 .. LongPause
  BY <1>4, <1>6, <1>7, Limits DEF Lesser
<1>11. CASE Served(Aged(k), j) /\ ~hub.relayOpen /\ ~hub.locked
  <2>. HIDE DEF j
  <2>1. /\ j \in ChannelRecords /\ Due(j) <= Due(k) + 1
        /\ j.condemned /\ ~k.condemned => Active(k) /\ Due(k) + 1 >= DeadTime
        /\ ~Active(k) =>
             /\ ~j.charging
             /\ ~k.charging =>
                  /\ j.gap = Lesser(k.gap + 1, GapTime)
                  /\ k.gap + 1 >= GapTime => j.charged = 0
        /\ k.state \in Rests /\ j.state \in Rests => Due(j) = 0
        /\ k.rest > 2 => j.rest >= k.rest - 1
    BY <1>1, <1>11, ServedClocks
  <2>2. j.gap \in Nat /\ j.rest \in Nat /\ Due(j) \in 0 .. DeadTime
        /\ (j.charged = 0 /\ ~j.charging => Due(j) = 0)
    BY <2>1, ClockTypes, Limits
  <2>3. owed' \in Nat /\ (owed' > 0 => j.rest > owed')
    BY <1>4, <1>6, <1>9, <2>1, <2>2, Limits DEF Sooner, Greater
  <2>4. pause' > 0 => ~j.charging /\ j.gap >= Lesser(pause' - 1, GapTime)
    BY <1>4, <1>6, <1>7, <1>9, <1>11, <2>1, <2>2, Limits DEF Lesser
  <2>5. pause' = LongPause => j.charged = 0
    BY <1>4, <1>6, <1>7, <1>9, <1>11, <2>1, <2>2, Limits DEF Lesser
  <2>6. pause' = LongPause => Due(j) = 0
    BY <1>7, <2>2, <2>4, <2>5
  <2>7. Due(j) <= spell'
    BY <1>4, <1>5, <1>6, <1>9, <1>11, <2>1, <2>2, <2>6, Limits DEF Lesser
  <2>8. ~k.condemned /\ j.condemned => spell' >= DeadTime
    BY <1>4, <1>5, <1>6, <1>7, <1>8, <1>9, <1>11, <2>1, <2>2, Limits DEF Lesser
  <2>. QED
    BY <1>2, <1>10, <2>3, <2>4, <2>5, <2>7, <2>8 DEF j, k
<1>12. CASE Carried(Aged(k), j) /\ (hub'.relayOpen \/ hub'.locked \/ ~Looks(r))
  <2>. HIDE DEF j
  <2>1. /\ j \in ChannelRecords /\ Due(j) <= Due(k) + 1
        /\ j.condemned = k.condemned /\ j.charged = k.charged
        /\ j.charging = k.charging /\ j.gap = Lesser(k.gap + 1, GapTime)
        /\ j.rest = IF k.rest > 1 THEN k.rest - 1 ELSE k.rest
    BY <1>1, <1>12, CarriedClocks
  <2>2. j.gap \in Nat /\ j.rest \in Nat /\ Due(j) \in 0 .. DeadTime
        /\ (j.charged = 0 /\ ~j.charging => Due(j) = 0)
    BY <2>1, ClockTypes, Limits
  <2>3. owed' \in Nat /\ (owed' > 0 => j.rest > owed')
    BY <1>4, <1>6, <1>9, <2>1, <2>2, Limits DEF Sooner, Greater
  <2>4. CASE hub'.relayOpen \/ hub'.locked
    BY <1>2, <1>10, <2>1, <2>3, <2>4 DEF j, k
  <2>5. CASE ~Looks(r) /\ ~hub.relayOpen /\ ~hub.locked
    <3>1. ~SeenAtRest(r)
      BY <2>5 DEF SeenAtRest
    <3>2. pause' = IF Active(k) THEN 0 ELSE pause
      BY <1>4, <2>5
    <3>3. pause' > 0 => ~j.charging /\ j.gap >= Lesser(pause' - 1, GapTime)
      BY <1>6, <1>9, <2>1, <2>5, <3>2, Limits DEF Lesser
    <3>4. pause' = LongPause => j.charged = 0
      BY <1>6, <1>7, <2>1, <2>5, <3>2
    <3>5. Due(j) <= spell'
      BY <1>4, <1>6, <1>7, <1>9, <2>1, <2>2, <2>5, <3>1, <3>3, <3>4, Limits
         DEF Lesser
    <3>. QED
      BY <1>2, <1>10, <2>1, <2>3, <3>3, <3>4, <3>5 DEF j, k
  <2>. QED
    BY <1>3, <1>12, <2>4, <2>5
<1>. QED
  BY <1>2, <1>11, <1>12

LEMMA ClockHolds == ClockInv /\ [ClockNext]_clockVars => ClockInv'
<1>. SUFFICES ASSUME ClockInv, [ClockNext]_clockVars PROVE ClockInv'
  OBVIOUS
<1>. DEFINE k == chan[0]
            j == chan'[0]
<1>1. CondemnedInv' /\ CondemnedInv
  BY ClockIsNext, CondemnedHolds DEF ClockInv, clockVars
<1>2. /\ 0 \in Channels /\ k \in ChannelRecords /\ j \in ChannelRecords
      /\ TypeOK /\ TypeOK'
  BY <1>1 DEF CondemnedInv, ChargerInv, TypeOK, Channels
<1>3. Whole' = WholeNext /\ Whole.chan = chan /\ WholeNext.chan = chan'
  BY DEF Whole, WholeNext
<1>4. Plainly(Whole)' <=> Plainly(WholeNext)
  BY <1>3 DEF Plainly
<1>5. ASSUME UNCHANGED <<spell, pause>>, \A c \in Channels : Left(chan[c], chan'[c]),
             hub.relayOpen => hub'.relayOpen, hub.locked => hub'.locked,
             owed' \in Nat, owed' > 0 => j.rest > owed'
      PROVE  ClockInv'
  <2>1. Plainly(WholeNext)
    BY <1>3, <1>5 DEF ClockInv, Plainly, Left
  <2>2. /\ j.gap \in {k.gap, GapTime} /\ j.charged \in {0, k.charged}
        /\ (j.charging => k.charging) /\ j.step = k.step
    BY <1>2, <1>5 DEF Left
  <2>. HIDE DEF j, k
  <2>3. Due(j) <= Due(k)
    BY <1>2, <2>2, DueSame, ClockTypes
  <2>4. Due(j) \in Nat /\ Due(k) \in Nat /\ k.gap \in Nat /\ LongPause \in Nat
    BY <1>2, ClockTypes, Limits DEF LongPause, Greater
  <2>5. spell \in 0 .. DeadTime /\ pause \in 0 .. LongPause
    BY DEF ClockInv
  <2>6. Lesser(pause - 1, GapTime) <= GapTime
    BY <2>4, <2>5, Limits DEF Lesser
  <2>7. Lesser(pause - 1, GapTime) \in Int
    BY <2>4, <2>5, Limits DEF Lesser
  <2>8. \/ hub.relayOpen \/ hub.locked
        \/ /\ Due(k) <= spell
           /\ pause > 0 => ~k.charging /\ k.gap >= Lesser(pause - 1, GapTime)
           /\ pause = LongPause => k.charged = 0
    BY DEF ClockInv, k
  <2>9. \/ hub'.relayOpen \/ hub'.locked
        \/ /\ Due(j) <= spell
           /\ pause > 0 => ~j.charging /\ j.gap >= Lesser(pause - 1, GapTime)
           /\ pause = LongPause => j.charged = 0
    BY <1>5, <2>2, <2>3, <2>4, <2>5, <2>6, <2>7, <2>8, Limits
  <2>. QED
    BY <1>1, <1>4, <1>5, <2>1, <2>5, <2>9, Limits DEF ClockInv, j, k
<1>6. CASE UNCHANGED <<chan, hub, owed, spell, pause>>
  <2>1. ASSUME NEW i \in ChannelRecords PROVE Left(i, i)
    BY DEF Left
  <2>2. \A c \in Channels : Left(chan[c], chan'[c])
    BY <1>2, <1>6, <2>1 DEF TypeOK
  <2>. QED
    BY <1>5, <1>6, <2>2 DEF ClockInv
<1>7. ASSUME NEW r \in Readings, ClockPass(r) PROVE ClockInv'
  BY <1>1, <1>4, <1>7, PassKeepsClocks DEF ClockInv
<1>8. CASE \/ ClockPanel
           \/ (Suspend \/ Resume) /\ UNCHANGED <<mode, owed, spell, pause>>
  <2>1. Panel \/ Suspend \/ Resume
    BY <1>2, <1>8 DEF ClockPanel, PanelByHand, PanelSwitches, Panel
  <2>2. \A c \in Channels : Left(chan[c], chan'[c])
    BY <1>2, <2>1, PanelLeaves
  <2>3. /\ hub.relayOpen => hub'.relayOpen
        /\ hub.locked => hub'.locked
    BY <1>1, <2>1, StepHolds, WholeTyped, <1>3 DEF Holds, Next, CondemnedInv, WholeNext
  <2>4. UNCHANGED <<spell, pause>>
    BY <1>8 DEF ClockPanel
  <2>5. \/ owed' = owed /\ j.rest # 0 /\ j.rest = k.rest
        \/ owed' = 0 \/ UNCHANGED <<chan, owed>>
    BY <1>2, <1>8, <2>2 DEF ClockPanel, Left, Suspend, Resume
  <2>6. owed' \in Nat /\ (owed' > 0 => j.rest > owed')
    BY <2>5 DEF ClockInv
  <2>. QED
    BY <1>5, <2>2, <2>3, <2>4, <2>6
<1>9. CASE UNCHANGED clockVars
  BY <1>6, <1>9 DEF clockVars, vars
<1>. QED
  BY <1>7, <1>8, <1>9 DEF ClockNext

LEMMA ClockInvariant == ClockSpec => []ClockInv
  BY ClockStarts, ClockHolds, PTL DEF ClockSpec

(* The thermal rest, for every rest, duty and reading: once begun it is    *)
(* served in full before the channel switches again, through input waits,  *)
(* battery losses, manual mode, blind pauses and flash writes.             *)
THEOREM RestsAreServed == ClockSpec => []RestIsServed
<1>1. ClockInv => RestIsServed
  <2>. SUFFICES ASSUME ClockInv, chan[0].pwm > 0 PROVE owed = 0
    BY DEF RestIsServed
  <2>1. chan[0] \in ChannelRecords /\ owed \in Nat
    BY DEF ClockInv, CondemnedInv, ChargerInv, TypeOK, Channels
  <2>2. chan[0].rest \in Nat /\ chan[0].pwm \in Nat
    BY <2>1, Limits DEF ChannelRecords, Duties
  <2>3. ~(chan[0].rest > 1)
    BY <2>2, WholeTyped DEF ClockInv, CondemnedInv, Spared, Channels
  <2>. QED
    BY <2>1, <2>2, <2>3 DEF ClockInv
<1>. QED
  BY <1>1, ClockInvariant, PTL

(* Charger_DeadBatteryTick, for every charge time, gap and reading: a      *)
(* battery is condemned only after DeadTime of charge in one spell, which  *)
(* a FLOAT, a thermal rest or a pause longer than GapTime would have       *)
(* ended; no outage, swap, command or flash write lends it time.           *)
THEOREM VerdictsTakeTheirTime == ClockSpec => NoVerdictTooSoon
<1>. DEFINE Earned == ~chan[0].condemned /\ chan'[0].condemned => spell' >= DeadTime
<1>1. ClockInv /\ ClockInv' /\ [ClockNext]_clockVars => [Earned]_clockVars
  <2>. SUFFICES ASSUME ClockInv, ClockInv', ClockNext PROVE Earned
    BY DEF clockVars, vars
  <2>1. 0 \in Channels /\ TypeOK /\ TypeOK'
    BY DEF ClockInv, CondemnedInv, ChargerInv, Channels
  <2>2. CASE \E r \in Readings : ClockPass(r)
    BY <2>2, PassKeepsClocks
  <2>3. CASE ClockPanel \/ Suspend \/ Resume
    <3>1. Panel \/ Suspend \/ Resume
      BY <2>1, <2>3 DEF ClockPanel, PanelByHand, PanelSwitches, Panel
    <3>. QED
      BY <2>1, <3>1, PanelLeaves DEF Left
  <2>. QED
    BY <2>2, <2>3 DEF ClockNext
<1>2. ClockSpec => [][Earned]_clockVars
  BY <1>1, ClockInvariant, PTL DEF ClockSpec
<1>. QED
  BY <1>2 DEF NoVerdictTooSoon
-----------------------------------------------------------------------------
(* The trips: a step that neither hears, strikes, revives nor drives.      *)

\* The comparator's latch and the open transistor's debounce stay; a wait stays
\* the wait it was; the output stays as it was, or goes.
Still(k, j) ==
  /\ j \in ChannelRecords
  /\ j.trip = k.trip /\ j.edge = k.edge /\ j.open = k.open
  /\ j.state = "JIT_RETRY_WAIT" =>
       k.state = "JIT_RETRY_WAIT" /\ j.lockout = k.lockout
  /\ \/ j.duty = k.duty /\ j.pwm = k.pwm
     \/ j.duty = 0 /\ j.pwm = 0
  /\ j.state = "BAT_LOST" => k.state = "BAT_LOST" \/ (j.duty = 0 /\ j.pwm = 0)

StillAll(s, t) ==
  /\ \A c \in Channels : Still(s.chan[c], t.chan[c])
  /\ t.hub.manual = s.hub.manual /\ t.hub.requested = s.hub.requested
  /\ t.hub.retry \in {s.hub.retry, NoChannel}

Off(t) == \A c \in Channels : t.chan[c].duty = 0 /\ t.chan[c].pwm = 0

LEMMA StillOn ==
  ASSUME NEW k, NEW j, NEW i, Still(k, j), Still(j, i) PROVE Still(k, i)
  BY DEF Still

LEMMA AllStillOn ==
  ASSUME NEW s, NEW t, NEW u, StillAll(s, t), StillAll(t, u)
  PROVE  StillAll(s, u)
<1>1. \A c \in Channels : Still(s.chan[c], u.chan[c])
  BY StillOn DEF StillAll
<1>. QED
  BY <1>1 DEF StillAll

LEMMA StepsStill ==
  ASSUME NEW k \in ChannelRecords
  PROVE  /\ Still(k, k) /\ Still(k, Silent(k))
         /\ Still(k, StopOneChannel(k)) /\ Still(k, IdleChannel(k))
         /\ Silent(k).duty = 0 /\ Silent(k).pwm = 0
         /\ StopOneChannel(k).duty = 0 /\ StopOneChannel(k).pwm = 0
         /\ IdleChannel(k).duty = 0 /\ IdleChannel(k).pwm = 0
<1>. DEFINE p == Silent(k)
            j == StopOneChannel(k)
            i == IdleChannel(k)
            state == IF k.state \in HeldThroughIdle THEN j.state ELSE "OFF"
            strikes == IF k.state \in HeldThroughIdle THEN j.strikes ELSE 0
<1>1. p \in ChannelRecords /\ j \in ChannelRecords /\ i \in ChannelRecords
  BY StoppedTyped, IdleChannelTyped
<1>2. /\ p.trip = k.trip /\ p.edge = k.edge /\ p.open = k.open
      /\ p.state = k.state /\ p.lockout = k.lockout /\ p.duty = 0 /\ p.pwm = 0
  BY DEF Silent, ChannelRecords
<1>3. /\ j.trip = k.trip /\ j.edge = k.edge /\ j.open = k.open
      /\ j.state = k.state /\ j.lockout = k.lockout /\ j.duty = 0 /\ j.pwm = 0
  BY DEF StopOneChannel, Silent, ChannelRecords
<1>4. i = [j EXCEPT !.before = 0, !.lockout = 0, !.state = state,
                    !.strikes = strikes]
  BY DEF IdleChannel
<1>5. /\ state = j.state \/ state = "OFF"
      /\ state # "JIT_RETRY_WAIT"
  BY <1>3 DEF HeldThroughIdle
<1>. HIDE DEF p, j, i, state, strikes
<1>6. /\ i.trip = j.trip /\ i.edge = j.edge /\ i.open = j.open
      /\ i.state = state /\ i.duty = 0 /\ i.pwm = 0
  BY <1>1, <1>3, <1>4 DEF ChannelRecords
<1>7. Still(k, p) /\ Still(k, j)
  BY <1>1, <1>2, <1>3 DEF Still
<1>8. Still(k, i)
  BY <1>1, <1>3, <1>5, <1>6 DEF Still
<1>. QED
  BY <1>2, <1>3, <1>6, <1>7, <1>8 DEF Still, p, j, i

\* The tick of the charge clock touches nothing but that clock.
Fast ==
  {"state", "trip", "edge", "open", "lockout", "duty", "pwm", "saved", "fixed"}

LEMMA TickFast ==
  ASSUME NEW f \in Fast, NEW k, f \in DOMAIN k, NEW c, NEW r
  PROVE  As(f, k, DeadBatteryTick(k, c, r))
<1>1. As(f, k, DeadSwap(k, c, r))
  BY DEF As, Fast, DeadSwap
<1>2. ASSUME NEW j, f \in DOMAIN j PROVE As(f, j, DeadClock(j))
  <2>. DEFINE charged == IF j.gap >= GapTime THEN 0 ELSE j.charged
              total == Lesser(j.charged + j.step, DeadTime)
              verdict == j.condemned \/ total = DeadTime
  <2>1. \/ DeadClock(j) = j
        \/ DeadClock(j) = [j EXCEPT !.charged = 0, !.charging = FALSE]
        \/ DeadClock(j) = [j EXCEPT !.charging = FALSE, !.gap = 0]
        \/ DeadClock(j) = [j EXCEPT !.charged = charged]
        \/ DeadClock(j) = [j EXCEPT !.charging = TRUE, !.step = 0]
        \/ DeadClock(j) = [j EXCEPT !.charged = total, !.step = 0,
                                    !.condemned = verdict]
    BY DEF DeadClock
  <2>. HIDE DEF charged, total, verdict
  <2>. QED
    BY <1>2, <2>1 DEF As, Fast
<1>. QED
  BY <1>1, <1>2 DEF As, DeadBatteryTick

LEMMA TickStill ==
  ASSUME NEW k \in ChannelRecords, NEW c \in Channels, NEW r \in ReadingStates
  PROVE  LET j == DeadBatteryTick(k, c, r)
         IN Still(k, j) /\ j.duty = k.duty /\ j.pwm = k.pwm
<1>. DEFINE j == DeadBatteryTick(k, c, r)
<1>1. ASSUME NEW f \in Fast PROVE As(f, k, j)
  <2>1. f \in DOMAIN k
    BY DEF Fast, ChannelRecords
  <2>. QED
    BY <2>1, TickFast
<1>2. j \in ChannelRecords
  BY TickFacts
<1>. HIDE DEF j
<1>3. /\ j.trip = k.trip /\ j.edge = k.edge /\ j.open = k.open
      /\ j.state = k.state /\ j.lockout = k.lockout
      /\ j.duty = k.duty /\ j.pwm = k.pwm
  BY <1>1 DEF As, Fast
<1>. QED
  BY <1>2, <1>3 DEF Still, j
LEMMA MirroredStill ==
  ASSUME NEW s \in Chargers, NEW r
  PROVE  StillAll(s, Mirrored(s, r)) /\ Mirrored(s, r).hub = s.hub
<1>. DEFINE t == Mirrored(s, r)
<1>1. t.hub = s.hub
  BY DEF Mirrored, Each, Chargers
<1>2. ASSUME NEW c \in Channels PROVE Still(s.chan[c], t.chan[c])
  <2>. DEFINE k == s.chan[c]
              j == StopOneChannel(k)
              i == t.chan[c]
              state == IF ~r.lost /\ k.state = "BAT_LOST" THEN "OFF" ELSE k.state
  <2>1. i = [j EXCEPT !.state = "BAT_LOST"] \/ i = [k EXCEPT !.state = state]
    BY DEF Mirrored, Each, Chargers
  <2>2. /\ k \in ChannelRecords /\ Still(k, j) /\ j \in ChannelRecords
        /\ j.duty = 0 /\ j.pwm = 0
    BY ChargerFields, StepsStill DEF Still
  <2>3. state \in {k.state, "OFF"} /\ i \in ChannelRecords
    BY MirroredMoves, ChargerFields DEF Moves
  <2>. HIDE DEF k, j, state, t
  <2>4. CASE i = [j EXCEPT !.state = "BAT_LOST"]
    <3>1. Still(j, i)
      BY <2>2, <2>3, <2>4 DEF Still, ChannelRecords
    <3>. QED
      BY <2>2, <3>1, StillOn DEF k
  <2>5. CASE i = [k EXCEPT !.state = state]
    <3>1. Still(k, i)
      BY <2>2, <2>3, <2>5 DEF Still, ChannelRecords
    <3>. QED
      BY <3>1 DEF k
  <2>. QED
    BY <2>1, <2>4, <2>5
<1>. QED
  BY <1>1, <1>2 DEF StillAll

LEMMA SeenStill ==
  ASSUME NEW s \in Chargers, NEW r \in ReadingStates
  PROVE  /\ StillAll(s, Seen(s, r))
         /\ Seen(s, r).hub = [s.hub EXCEPT !.blind = FALSE]
<1>. DEFINE t == Seen(s, r)
<1>0. /\ BlindOver(s) = [chan |-> BlindOver(s).chan, hub |-> BlindOver(s).hub]
      /\ BlindOver(s).hub = [s.hub EXCEPT !.blind = FALSE]
  <2>1. s.hub.blind \in BOOLEAN /\ s.hub \in HubRecords
    BY ChargerFields DEF HubRecords
  <2>2. ~s.hub.blind => s.hub = [s.hub EXCEPT !.blind = FALSE]
    BY <2>1 DEF HubRecords
  <2>. QED
    BY <2>2 DEF BlindOver, Chargers
<1>1. t.hub = [s.hub EXCEPT !.blind = FALSE]
  BY <1>0 DEF Seen, Each
<1>2. /\ t.hub.manual = s.hub.manual /\ t.hub.requested = s.hub.requested
      /\ t.hub.retry = s.hub.retry
  BY <1>1, ChargerFields DEF HubRecords
<1>3. ASSUME NEW c \in Channels PROVE Still(s.chan[c], t.chan[c])
  <2>. DEFINE k == s.chan[c]
              n == IF k.charging THEN 0 ELSE k.step
              j == BlindOver(s).chan[c]
              steady == IF r.volts[c] \notin ValidVolts THEN 0
                        ELSE IF j.steady = 0 THEN 1 ELSE j.steady
              healed == /\ j.strikes > 0 /\ Reached(j.heal, HealTime)
                        /\ j.state \notin {"FINAL_FAULT", "JIT_RETRY_WAIT"}
              strikes == IF healed THEN 0 ELSE j.strikes
              heal == IF healed THEN 0 ELSE j.heal
              i == t.chan[c]
  <2>1. j = k \/ j = [k EXCEPT !.step = n]
    BY DEF BlindOver
  <2>2. i = [j EXCEPT !.steady = steady, !.strikes = strikes, !.heal = heal]
    BY <1>0 DEF Seen, Each, Watched
  <2>3. k \in ChannelRecords /\ n \in {k.step, 0}
    BY ChargerFields
  <2>4. i \in ChannelRecords
    BY SeenMoves, ChargerFields DEF Moves
  <2>. HIDE DEF k, n, j, steady, strikes, heal, t
  <2>5. [k EXCEPT !.step = n] \in ChannelRecords
    BY <2>3, Constants DEF ChannelRecords
  <2>6. /\ j \in ChannelRecords
        /\ j.trip = k.trip /\ j.edge = k.edge /\ j.open = k.open
        /\ j.state = k.state /\ j.lockout = k.lockout
        /\ j.duty = k.duty /\ j.pwm = k.pwm
    BY <2>1, <2>3, <2>5 DEF ChannelRecords
  <2>7. /\ i.trip = j.trip /\ i.edge = j.edge /\ i.open = j.open
        /\ i.state = j.state /\ i.lockout = j.lockout
        /\ i.duty = j.duty /\ i.pwm = j.pwm
    BY <2>2, <2>6 DEF ChannelRecords
  <2>8. Still(k, i)
    BY <2>4, <2>6, <2>7 DEF Still
  <2>. QED
    BY <2>8 DEF k
<1>. QED
  BY <1>1, <1>2, <1>3 DEF StillAll

\* The exits of a pass that leave every channel off.
LEMMA ExitsStill ==
  ASSUME NEW s \in Chargers, NEW bit
  PROVE  /\ StillAll(s, Disconnected(s, bit)) /\ Off(Disconnected(s, bit))
         /\ StillAll(s, SafeIdle(s)) /\ Off(SafeIdle(s))
         /\ StillAll(s, PausedOnBlind(s)) /\ Off(PausedOnBlind(s))
<1>1. ASSUME NEW c \in Channels
      PROVE  LET p == Disconnected(s, bit).chan[c]
                 i == SafeIdle(s).chan[c]
             IN /\ Still(s.chan[c], p) /\ p.duty = 0 /\ p.pwm = 0
                /\ Still(s.chan[c], i) /\ i.duty = 0 /\ i.pwm = 0
  BY ChargerFields, StepsStill DEF Disconnected, SafeIdle
<1>2. ASSUME NEW c \in Channels
      PROVE  LET t == PausedOnBlind(s).chan[c]
             IN Still(s.chan[c], t) /\ t.duty = 0 /\ t.pwm = 0
  <2>. DEFINE k == s.chan[c]
              j == Silent(k)
              kept == IF Active(k) /\ k.enabled /\ ~s.hub.manual THEN k.duty ELSE 0
              saved == IF s.hub.blind THEN j.saved ELSE kept
              grace == j.grace /\ k.state = "ABSORB"
              step == IF k.charging THEN 0 ELSE j.step
              t == PausedOnBlind(s).chan[c]
  <2>1. t = [j EXCEPT !.saved = saved, !.grace = grace, !.step = step]
    BY DEF PausedOnBlind
  <2>2. k \in ChannelRecords /\ Still(k, j) /\ j.duty = 0 /\ j.pwm = 0
    BY ChargerFields, StepsStill
  <2>3. j \in ChannelRecords
    BY <2>2 DEF Still
  <2>4. saved \in Duties /\ grace \in BOOLEAN /\ step \in {j.step, 0}
    BY <2>2, <2>3, Constants DEF ChannelRecords
  <2>. HIDE DEF k, j, saved, grace, step, t
  <2>5. t \in ChannelRecords
    BY <2>1, <2>3, <2>4, Constants DEF ChannelRecords
  <2>6. Still(j, t) /\ t.duty = 0 /\ t.pwm = 0
    BY <2>1, <2>2, <2>3, <2>5 DEF Still, ChannelRecords
  <2>7. Still(k, t)
    BY <2>2, <2>6, StillOn
  <2>. QED
    BY <2>6, <2>7 DEF k, t
<1>3. LET Kept(h) == /\ h.manual = s.hub.manual
                     /\ h.requested = s.hub.requested
                     /\ h.retry \in {s.hub.retry, NoChannel}
      IN /\ Kept(Disconnected(s, bit).hub) /\ Kept(SafeIdle(s).hub)
         /\ Kept(PausedOnBlind(s).hub)
  BY ChargerFields DEF Disconnected, SafeIdle, PausedOnBlind, HubRecords
<1>. QED
  BY <1>1, <1>2, <1>3 DEF StillAll, Off

LEMMA TickedStill ==
  ASSUME NEW s \in Chargers, Off(s), NEW r \in ReadingStates, NEW t,
         t.hub = s.hub,
         \A c \in Channels : t.chan[c] = DeadBatteryTick(s.chan[c], c, r)
  PROVE  StillAll(s, t) /\ Off(t)
  BY ChargerFields, TickStill DEF StillAll, Off

LEMMA InputLostStill ==
  ASSUME NEW s \in Chargers, NEW r \in ReadingStates,
         \A c \in Channels : s.chan[c].state # "FINAL_FAULT"
  PROVE  /\ StillAll(s, InputLost(s, r)) /\ Off(InputLost(s, r))
         /\ ~InputLost(s, r).hub.blind
<1>. DEFINE f == [d \in Channels |-> IF s.chan[d].state = "FINAL_FAULT"
                    THEN s.chan[d] ELSE DeadBatteryTick(s.chan[d], d, r)]
            ticked == [s EXCEPT !.chan = f]
            idle == SafeIdle(ticked)
            t == InputLost(s, r)
<1>1. ticked.chan = f /\ ticked.hub = s.hub
  BY DEF Chargers
<1>2. \A d \in Channels : s.chan[d] \in ChannelRecords
  BY ChargerFields
<1>3. ASSUME NEW d \in Channels
      PROVE  /\ idle.chan[d] = IdleChannel(DeadBatteryTick(s.chan[d], d, r))
             /\ Still(s.chan[d], idle.chan[d])
             /\ idle.chan[d].duty = 0 /\ idle.chan[d].pwm = 0
             /\ idle.chan[d].state # "FINAL_FAULT"
  <2>. DEFINE once == DeadBatteryTick(s.chan[d], d, r)
  <2>1. idle.chan[d] = IdleChannel(once)
    BY <1>1 DEF SafeIdle
  <2>2. Still(s.chan[d], once) /\ once \in ChannelRecords
    BY <1>2, TickStill DEF Still
  <2>3. IdleChannel(once).state # "FINAL_FAULT"
    BY <1>2, WaitTicks
  <2>. HIDE DEF once
  <2>4. /\ Still(once, IdleChannel(once))
        /\ IdleChannel(once).duty = 0 /\ IdleChannel(once).pwm = 0
    BY <2>2, StepsStill
  <2>. HIDE DEF idle
  <2>. QED
    BY <2>1, <2>2, <2>3, <2>4, StillOn DEF once
<1>4. /\ idle = [chan |-> idle.chan, hub |-> idle.hub]
      /\ idle.hub = [s.hub EXCEPT !.coil = FALSE, !.relayOpen = FALSE,
                                  !.retry = NoChannel, !.blind = FALSE]
  BY <1>1 DEF SafeIdle
<1>5. t = [idle EXCEPT !.chan = [d \in Channels |->
             IF idle.chan[d].state = "FINAL_FAULT" THEN idle.chan[d]
             ELSE DeadBatteryTick([idle.chan[d] EXCEPT !.state = "INPUT_WAIT"], d, r)]]
  BY DEF InputLost, Each
<1>. HIDE DEF idle, t
<1>6. ASSUME NEW d \in Channels
      PROVE  /\ Still(s.chan[d], t.chan[d])
             /\ t.chan[d].duty = 0 /\ t.chan[d].pwm = 0
  <2>. DEFINE i == idle.chan[d]
              wait == [i EXCEPT !.state = "INPUT_WAIT"]
  <2>1. t.chan[d] = DeadBatteryTick(wait, d, r)
    BY <1>3, <1>4, <1>5
  <2>2. i \in ChannelRecords /\ i.duty = 0 /\ i.pwm = 0
    BY <1>3 DEF Still
  <2>. HIDE DEF i
  <2>3. wait \in ChannelRecords
    BY <2>2 DEF ChannelRecords, States
  <2>4. Still(i, wait) /\ wait.duty = 0 /\ wait.pwm = 0
    BY <2>2, <2>3 DEF Still, ChannelRecords
  <2>. HIDE DEF wait
  <2>5. /\ Still(wait, t.chan[d])
        /\ t.chan[d].duty = 0 /\ t.chan[d].pwm = 0
    BY <2>1, <2>3, <2>4, TickStill
  <2>. QED
    BY <1>3, <2>4, <2>5, StillOn DEF i
<1>7. /\ t.hub.manual = s.hub.manual /\ t.hub.requested = s.hub.requested
      /\ t.hub.retry = NoChannel /\ ~t.hub.blind
  <2>1. t.hub = idle.hub
    BY <1>4, <1>5
  <2>. QED
    BY <1>4, <2>1, ChargerFields DEF HubRecords
<1>8. StillAll(s, t) /\ Off(t)
  BY <1>6, <1>7 DEF StillAll, Off
<1>. QED
  BY <1>7, <1>8 DEF t
-----------------------------------------------------------------------------
(* The trips: a pass up to the strikes.                                    *)

\* A pass hears the comparator, ages the lockout, and times a driven stage that
\* draws nothing.
Hears(k, j) ==
  /\ j \in ChannelRecords
  /\ j.trip = (k.trip \/ k.edge) /\ ~j.edge
  /\ j.state = k.state /\ j.duty = k.duty /\ j.pwm = k.pwm /\ j.saved = k.saved
  /\ j.lockout = Sooner(k.lockout) /\ j.fixed = k.fixed

Timed(k, j, c, r) ==
  \/ j.open = 0
  \/ k.duty > OpenDuty /\ r.amps[c] = "zero" /\ j.open <= k.open + 1

LEMMA EnteredHears ==
  ASSUME TypeOK, NEW r \in ReadingStates
  PROVE  LET e == Entered(r)
         IN /\ \A c \in Channels :
                 /\ Hears(chan[c], e.chan[c])
                 /\ r.valid /\ ~hub.locked => Timed(chan[c], e.chan[c], c, r)
                 /\ e.chan[c].open <= chan[c].open + 1
            /\ e.hub.manual = hub.manual /\ e.hub.requested = hub.requested
            /\ e.hub.retry = hub.retry /\ e.hub.blind = hub.blind
            /\ e.hub.suspended = hub.suspended
            /\ e.hub.locked =>
                 \/ hub.locked
                 \/ r.valid /\ hub.relayOpen /\ \E c \in Channels : e.chan[c].trip
                 \/ r.valid /\ \E c \in Channels : e.chan[c].open > OpenTime
<1>. DEFINE aged == [d \in Channels |-> Aged(chan[d])]
            h == [hub EXCEPT !.silence = Lesser(@ + 1, LinkTime)]
            now == [chan |-> aged, hub |-> h]
            j == JitterRun(now)
            told == [r EXCEPT !.lost = @ /\ ~hub.manual]
            timed == OpenTimed(j, told)
            open == \E d \in Channels : Reached(timed.chan[d].open, OpenTime)
            v == ~j.hub.manual /\ (ShortSign(j) \/ open)
            e == Entered(r)
<1>1. \A c \in Channels :
        /\ chan[c] \in ChannelRecords /\ aged[c] \in ChannelRecords
        /\ aged[c] = Aged(chan[c])
  BY AgedTyped DEF TypeOK
<1>2. now.chan = aged /\ now.hub = h /\ now \in Chargers
  BY NowTyped
<1>3. /\ h.manual = hub.manual /\ h.requested = hub.requested
      /\ h.retry = hub.retry /\ h.blind = hub.blind
      /\ h.suspended = hub.suspended /\ h.relayOpen = hub.relayOpen
      /\ h.locked = hub.locked /\ h \in HubRecords
  <2>1. h \in HubRecords
    BY <1>2 DEF Chargers
  <2>. QED
    BY <2>1 DEF TypeOK, HubRecords
<1>. HIDE DEF aged, h, now
<1>4. /\ \A c \in Channels :
           j.chan[c] = [aged[c] EXCEPT !.trip = @ \/ aged[c].edge, !.edge = FALSE]
      /\ j \in Chargers /\ j.hub = h
      /\ \A c \in Channels : j.chan[c] \in ChannelRecords
  <2>1. j \in Chargers
    BY <1>2, JitterMoves DEF Moves
  <2>. QED
    BY <1>2, <2>1, ChargerFields DEF JitterRun, Each, Chargers
<1>5. ASSUME NEW c \in Channels
      PROVE  /\ Hears(chan[c], j.chan[c])
             /\ j.chan[c].open = Older(chan[c].open, OpenTime)
  <2>. DEFINE k == chan[c]
              a == aged[c]
              i == j.chan[c]
              bit == a.trip \/ a.edge
  <2>0. a = Aged(k) /\ k \in ChannelRecords /\ a \in ChannelRecords
    BY <1>1
  <2>2. i = [a EXCEPT !.trip = bit, !.edge = FALSE]
    BY <1>4
  <2>. HIDE DEF a, i, k
  <2>1. /\ a.trip = k.trip /\ a.edge = k.edge /\ a.state = k.state
        /\ a.duty = k.duty /\ a.pwm = k.pwm /\ a.saved = k.saved
        /\ a.lockout = Sooner(k.lockout) /\ a.fixed = k.fixed
        /\ a.open = Older(k.open, OpenTime)
    <3>. DEFINE step == IF k.charging THEN Lesser(k.step + 1, DeadTime) ELSE 0
                rest == IF k.rest > 1 THEN k.rest - 1 ELSE k.rest
    <3>1. a = [k EXCEPT !.lockout = Sooner(@), !.heal = Older(@, HealTime),
                 !.steady = Older(@, SettleTime), !.hot = Older(@, HotTime),
                 !.rest = rest, !.open = Older(@, OpenTime), !.step = step,
                 !.gap = Lesser(@ + 1, GapTime), !.gone = Older(@, GoneTime)]
      BY <2>0 DEF Aged
    <3>. HIDE DEF step, rest
    <3>. QED
      BY <2>0, <3>1 DEF ChannelRecords
  <2>3. bit = (k.trip \/ k.edge)
    BY <2>1
  <2>. HIDE DEF bit
  <2>4. i.trip = bit /\ i.edge = FALSE
    BY <2>0, <2>2, ZenonT(60) DEF ChannelRecords
  <2>5. /\ i.state = a.state /\ i.duty = a.duty /\ i.pwm = a.pwm
        /\ i.saved = a.saved /\ i.lockout = a.lockout /\ i.fixed = a.fixed
        /\ i.open = a.open
    BY <2>0, <2>2 DEF ChannelRecords
  <2>6. i \in ChannelRecords
    BY <1>4 DEF i
  <2>7. Hears(k, i)
    BY <2>1, <2>3, <2>4, <2>5, <2>6 DEF Hears
  <2>. QED
    BY <2>1, <2>5, <2>7 DEF k, i
<1>6. e = IF j.hub.locked \/ ~told.valid THEN j
          ELSE [timed EXCEPT !.hub.locked = v]
  BY DEF Entered, EvaluateTechnicalFault, j, told, now, aged, h
<1>7. told.valid = r.valid /\ told.amps = r.amps
  BY DEF ReadingStates
<1>8. \A c \in Channels :
        timed.chan[c] = [j.chan[c] EXCEPT !.open =
          IF j.hub.manual \/ ~OpenSign(j.chan[c], c, told) THEN 0
          ELSE IF @ = 0 THEN 1 ELSE @]
  <2>1. timed = [j EXCEPT !.chan = [c \in Channels |->
             [j.chan[c] EXCEPT !.open =
                IF j.hub.manual \/ ~OpenSign(j.chan[c], c, told) THEN 0
                ELSE IF @ = 0 THEN 1 ELSE @]]]
    BY DEF OpenTimed, Each
  <2>. HIDE DEF j, told, timed
  <2>. QED
    BY <1>4, <2>1, Zenon DEF Chargers
<1>9. timed = [chan |-> timed.chan, hub |-> h]
  <2>1. \E f : timed = [j EXCEPT !.chan = f]
    BY Zenon DEF OpenTimed, Each
  <2>. HIDE DEF j, timed
  <2>. QED
    BY <1>4, <2>1 DEF Chargers
<1>. HIDE DEF j, told, timed, e
<1>10. ASSUME NEW c \in Channels
       PROVE  /\ Hears(chan[c], timed.chan[c])
              /\ Timed(chan[c], timed.chan[c], c, r)
              /\ j.chan[c].open <= chan[c].open + 1
              /\ timed.chan[c].open <= chan[c].open + 1
              /\ timed.chan[c].duty = j.chan[c].duty
  <2>. DEFINE k == chan[c]
              a == j.chan[c]
              i == timed.chan[c]
              sign == ~j.hub.manual /\ OpenSign(a, c, told)
              n == IF ~sign THEN 0 ELSE IF a.open = 0 THEN 1 ELSE a.open
  <2>1. i = [a EXCEPT !.open = n]
    BY <1>8
  <2>2. sign => k.duty > OpenDuty /\ r.amps[c] = "zero"
    BY <1>5, <1>7 DEF OpenSign, Hears
  <2>. HIDE DEF sign
  <2>3. k.open \in 0 .. OpenTime + 1
    BY <1>1 DEF ChannelRecords
  <2>4. a \in ChannelRecords /\ a.open = Older(k.open, OpenTime)
    BY <1>4, <1>5
  <2>5. a.open \in Nat /\ a.open <= k.open + 1
    BY <2>3, <2>4, Limits DEF Older, Lesser
  <2>6. /\ n \in 0 .. OpenTime + 1 /\ n <= k.open + 1
        /\ n = 0 \/ sign
    BY <2>3, <2>4, <2>5, Limits DEF ChannelRecords
  <2>. HIDE DEF a, i, n
  <2>7. /\ i \in ChannelRecords /\ i.open = n /\ i.trip = a.trip
        /\ i.edge = a.edge /\ i.state = a.state /\ i.duty = a.duty
        /\ i.pwm = a.pwm /\ i.saved = a.saved /\ i.lockout = a.lockout
        /\ i.fixed = a.fixed
    BY <2>1, <2>4, <2>6 DEF ChannelRecords
  <2>8. Hears(k, i)
    BY <1>5, <2>7 DEF Hears, a
  <2>9. Timed(k, i, c, r)
    BY <2>2, <2>6, <2>7 DEF Timed
  <2>. QED
    BY <2>5, <2>6, <2>7, <2>8, <2>9 DEF k, a, i
<1>11. CASE hub.locked \/ ~r.valid
  <2>1. e = j
    BY <1>3, <1>4, <1>6, <1>7, <1>11
  <2>. HIDE DEF v
  <2>2. \A c \in Channels : Hears(chan[c], e.chan[c])
    BY <1>5, <2>1
  <2>3. \A c \in Channels : e.chan[c].open <= chan[c].open + 1
    BY <1>10, <2>1
  <2>. QED
    BY <1>3, <1>4, <1>11, <2>1, <2>2, <2>3 DEF e
<1>12. CASE ~hub.locked /\ r.valid
  <2>1. e = [timed EXCEPT !.hub.locked = v]
    BY <1>3, <1>4, <1>6, <1>7, <1>12
  <2>2. v => \/ hub.relayOpen /\ \E c \in Channels : j.chan[c].trip
             \/ \E c \in Channels : timed.chan[c].open > OpenTime
    BY <1>3, <1>4 DEF ShortSign, Reached
  <2>. HIDE DEF v
  <2>3. e = [chan |-> timed.chan, hub |-> [h EXCEPT !.locked = v]]
    BY <1>9, <2>1
  <2>4. /\ e.hub.manual = hub.manual /\ e.hub.requested = hub.requested
        /\ e.hub.retry = hub.retry /\ e.hub.blind = hub.blind
        /\ e.hub.suspended = hub.suspended /\ e.hub.locked = v
    BY <1>3, <2>3 DEF HubRecords
  <2>5. e.chan = timed.chan
    BY <2>3
  <2>6. \A c \in Channels : j.chan[c].trip <=> e.chan[c].trip
    BY <1>5, <1>10, <2>5 DEF Hears
  <2>7. /\ \A c \in Channels : Hears(chan[c], e.chan[c])
        /\ \A c \in Channels : Timed(chan[c], e.chan[c], c, r)
        /\ \A c \in Channels : e.chan[c].open <= chan[c].open + 1
    BY <1>10, <2>5
  <2>. QED
    BY <1>12, <2>2, <2>4, <2>5, <2>6, <2>7 DEF e
<1>. QED
  BY <1>11, <1>12
-----------------------------------------------------------------------------
(* The trips: what a pass without a verdict makes of the channels.         *)

\* A channel that goes on charging has the duty and the saved duty it had; one
\* that was charging goes on, or has lost its battery.
Charges(k, j) ==
  /\ Active(j) => Active(k) /\ j.saved = k.saved /\ j.duty = k.duty
  /\ Active(k) => Active(j) \/ j.state = "BAT_LOST"
  /\ j.fixed = k.fixed

\* What a channel that charges into a blind pause has saved.
Saves(k, j, blind) ==
  Active(j) =>
    /\ Active(k)
    /\ j.saved = 0 \/ j.saved = IF blind THEN k.saved ELSE k.duty

LEMMA ChargesOn ==
  ASSUME NEW k, NEW j, NEW i, Charges(k, j), Charges(j, i),
         i.state = "BAT_LOST" \/ j.state # "BAT_LOST"
  PROVE  Charges(k, i)
  BY DEF Charges, Active

LEMMA MirroredCharges ==
  ASSUME NEW s \in Chargers, NEW r, NEW c \in Channels
  PROVE  Charges(s.chan[c], Mirrored(s, r).chan[c])
<1>. DEFINE k == s.chan[c]
            j == StopOneChannel(k)
            i == Mirrored(s, r).chan[c]
            state == IF ~r.lost /\ k.state = "BAT_LOST" THEN "OFF" ELSE k.state
<1>1. i = [j EXCEPT !.state = "BAT_LOST"] \/ i = [k EXCEPT !.state = state]
  BY DEF Mirrored, Each, Chargers
<1>2. k \in ChannelRecords /\ j \in ChannelRecords
  BY ChargerFields, StoppedTyped
<1>3. state = k.state \/ (state = "OFF" /\ k.state = "BAT_LOST")
  OBVIOUS
<1>4. j.fixed = k.fixed
  BY <1>2 DEF StopOneChannel, Silent, ChannelRecords
<1>. HIDE DEF k, j, i, state
<1>5. CASE i = [j EXCEPT !.state = "BAT_LOST"]
  <2>1. i.state = "BAT_LOST" /\ i.fixed = j.fixed
    BY <1>2, <1>5 DEF ChannelRecords
  <2>. QED
    BY <1>4, <2>1 DEF Charges, Active, k, i
<1>6. CASE i = [k EXCEPT !.state = state]
  <2>1. /\ i.state = state /\ i.fixed = k.fixed /\ i.saved = k.saved
        /\ i.duty = k.duty
    BY <1>2, <1>6 DEF ChannelRecords
  <2>. QED
    BY <1>3, <2>1 DEF Charges, Active, k, i
<1>. QED
  BY <1>1, <1>5, <1>6

LEMMA SeenCharges ==
  ASSUME NEW s \in Chargers, NEW r, NEW c \in Channels
  PROVE  LET j == Seen(s, r).chan[c]
         IN Charges(s.chan[c], j) /\ j.state = s.chan[c].state
<1>. DEFINE k == s.chan[c]
            n == IF k.charging THEN 0 ELSE k.step
            j == BlindOver(s).chan[c]
            steady == IF r.volts[c] \notin ValidVolts THEN 0
                      ELSE IF j.steady = 0 THEN 1 ELSE j.steady
            healed == /\ j.strikes > 0 /\ Reached(j.heal, HealTime)
                      /\ j.state \notin {"FINAL_FAULT", "JIT_RETRY_WAIT"}
            strikes == IF healed THEN 0 ELSE j.strikes
            heal == IF healed THEN 0 ELSE j.heal
            i == Seen(s, r).chan[c]
<1>1. j = k \/ j = [k EXCEPT !.step = n]
  BY DEF BlindOver
<1>2. BlindOver(s) = [chan |-> BlindOver(s).chan, hub |-> BlindOver(s).hub]
  BY DEF BlindOver, Chargers
<1>3. i = [j EXCEPT !.steady = steady, !.strikes = strikes, !.heal = heal]
  BY <1>2 DEF Seen, Each, Watched
<1>4. k \in ChannelRecords
  BY ChargerFields
<1>. HIDE DEF k, n, j, steady, strikes, heal, i
<1>5. /\ DOMAIN j = DOMAIN k
      /\ j.state = k.state /\ j.duty = k.duty /\ j.saved = k.saved
      /\ j.fixed = k.fixed
  BY <1>1, <1>4 DEF ChannelRecords
<1>6. {"state", "duty", "saved", "fixed"} \subseteq DOMAIN k
  BY <1>4 DEF ChannelRecords
<1>7. /\ i.state = j.state /\ i.duty = j.duty /\ i.saved = j.saved
      /\ i.fixed = j.fixed
  BY <1>3, <1>5, <1>6
<1>. QED
  BY <1>5, <1>7 DEF Charges, Active, k, i

LEMMA PausedSaves ==
  ASSUME NEW s \in Chargers, NEW c \in Channels
  PROVE  Saves(s.chan[c], PausedOnBlind(s).chan[c], s.hub.blind)
<1>. DEFINE k == s.chan[c]
            j == Silent(k)
            kept == IF Active(k) /\ k.enabled /\ ~s.hub.manual THEN k.duty ELSE 0
            saved == IF s.hub.blind THEN j.saved ELSE kept
            grace == j.grace /\ k.state = "ABSORB"
            step == IF k.charging THEN 0 ELSE j.step
            t == PausedOnBlind(s).chan[c]
<1>1. t = [j EXCEPT !.saved = saved, !.grace = grace, !.step = step]
  BY DEF PausedOnBlind
<1>2. k \in ChannelRecords /\ j \in ChannelRecords
  BY ChargerFields, StoppedTyped
<1>3. j.saved = k.saved /\ j.state = k.state
  BY <1>2 DEF Silent, ChannelRecords
<1>4. saved = 0 \/ saved = IF s.hub.blind THEN k.saved ELSE k.duty
  BY <1>3
<1>. HIDE DEF k, j, saved, grace, step, t
<1>5. t.saved = saved /\ t.state = j.state
  BY <1>1, <1>2 DEF ChannelRecords
<1>. QED
  BY <1>3, <1>4, <1>5 DEF Saves, Active, k, t

LEMMA DisconnectedSaves ==
  ASSUME NEW s \in Chargers, NEW bit, NEW c \in Channels, s.hub.blind
  PROVE  Saves(s.chan[c], Disconnected(s, bit).chan[c], TRUE)
<1>. DEFINE k == s.chan[c]
            t == Disconnected(s, bit).chan[c]
<1>1. t = Silent(k) /\ k \in ChannelRecords
  BY ChargerFields DEF Disconnected
<1>2. t.saved = k.saved /\ t.state = k.state
  BY <1>1 DEF Silent, ChannelRecords
<1>. QED
  BY <1>2 DEF Saves, Active

LEMMA MirroredWaits ==
  ASSUME NEW s \in Chargers, NEW r, ~r.lost, NEW c \in Channels,
         s.chan[c].state = "JIT_RETRY_WAIT"
  PROVE  Mirrored(s, r).chan[c].state = "JIT_RETRY_WAIT"
<1>. DEFINE k == s.chan[c]
            state == IF ~r.lost /\ k.state = "BAT_LOST" THEN "OFF" ELSE k.state
<1>1. Mirrored(s, r).chan[c] = [k EXCEPT !.state = state]
  BY DEF Mirrored, Each, Chargers
<1>2. k \in ChannelRecords /\ state = "JIT_RETRY_WAIT"
  BY ChargerFields
<1>. HIDE DEF k, state
<1>. QED
  BY <1>1, <1>2 DEF ChannelRecords

\* A pass that ends with every channel off, and with none that goes on waiting
\* while the charger is powered.
Leaves(w, t, q) ==
  /\ StillAll(w, t) /\ Off(t)
  /\ \/ t.hub.relayOpen \/ ~q.valid \/ ~q.permitted
     \/ \A c \in Channels : t.chan[c].state # "JIT_RETRY_WAIT"
  /\ t.hub.blind =>
       \A c \in Channels : Saves(w.chan[c], t.chan[c], w.hub.blind)

\* A powered pass before its strikes.
Reaches(w, s, q) ==
  /\ s \in Chargers /\ Sound(s) /\ ~s.hub.relayOpen
  /\ StillAll(w, s) /\ s.hub.retry = w.hub.retry /\ ~s.hub.blind
  /\ \A c \in Channels :
       /\ Charges(w.chan[c], s.chan[c])
       /\ ~q.lost /\ w.chan[c].state = "JIT_RETRY_WAIT"
            => s.chan[c].state = "JIT_RETRY_WAIT"

LEMMA UnlockedForks ==
  ASSUME NEW w \in Chargers, Sound(w), NEW q \in ReadingStates,
         PassUnlocked(w, q)
  PROVE  \/ \E t : Becomes(t) /\ Leaves(w, t, q)
         \/ q.valid /\ \E s : \E r \in ReadingStates :
                         Reaches(w, s, q) /\ Becomes(Powered(s, r))
<1>. DEFINE r == Told(w, q)
            s == Mirrored(w, r)
<1>1. /\ r \in ReadingStates /\ r.valid = q.valid
      /\ r.permitted = q.permitted /\ (~q.lost => ~r.lost)
  <2>. DEFINE lost == q.lost /\ ~hub.manual /\ ~w.hub.manual
  <2>1. lost \in BOOLEAN /\ (~q.lost => ~lost)
    OBVIOUS
  <2>2. r = [q EXCEPT !.lost = lost]
    BY DEF Told
  <2>. HIDE DEF lost, r
  <2>3. r.valid = q.valid /\ r.permitted = q.permitted /\ r.lost = lost
    BY <2>1, <2>2 DEF ReadingStates
  <2>4. r \in ReadingStates
    BY <2>1, <2>2 DEF ReadingStates
  <2>. QED
    BY <2>1, <2>3, <2>4
<1>2. \/ PassDisconnected(s, r) \/ PassFaulted(s, r) \/ PassBlind(s, r)
      \/ PassNoInput(s, r) \/ PassPowered(s, r)
  BY DEF PassUnlocked
<1>. HIDE DEF r
<1>3. Moves(w, s)
  BY MirroredMoves
<1>4. StillAll(w, s) /\ s.hub = w.hub
  BY MirroredStill
<1>5. \A c \in Channels :
        /\ Charges(w.chan[c], s.chan[c])
        /\ ~q.lost /\ w.chan[c].state = "JIT_RETRY_WAIT"
             => s.chan[c].state = "JIT_RETRY_WAIT"
  BY <1>1, MirroredCharges, MirroredWaits
<1>. HIDE DEF s
<1>6. s \in Chargers /\ Sound(s)
  BY <1>3, MovesHold
<1>7. ASSUME NEW t, Becomes(t), StillAll(s, t), Off(t),
             \/ t.hub.relayOpen \/ ~q.valid \/ ~q.permitted
             \/ \A c \in Channels : t.chan[c].state # "JIT_RETRY_WAIT",
             t.hub.blind => \A c \in Channels :
                              Saves(s.chan[c], t.chan[c], s.hub.blind)
      PROVE  \E u : Becomes(u) /\ Leaves(w, u, q)
  <2>1. StillAll(w, t)
    BY <1>4, <1>7, AllStillOn
  <2>2. t.hub.blind => \A c \in Channels :
                         Saves(w.chan[c], t.chan[c], w.hub.blind)
    BY <1>4, <1>5, <1>7 DEF Saves, Charges
  <2>3. Leaves(w, t, q)
    BY <1>7, <2>1, <2>2 DEF Leaves
  <2>. QED
    BY <1>7, <2>3
<1>8. CASE PassDisconnected(s, r)
  <2>. DEFINE t == Disconnected(s, r.present)
  <2>1. Becomes(t)
    BY <1>8 DEF PassDisconnected
  <2>2. StillAll(s, t) /\ Off(t)
    BY <1>6, ExitsStill
  <2>3. t.hub.relayOpen /\ t.hub.blind = s.hub.blind
    BY <1>6, ChargerFields DEF Disconnected, HubRecords
  <2>4. s.hub.blind => \A c \in Channels : Saves(s.chan[c], t.chan[c], TRUE)
    BY <1>6, DisconnectedSaves
  <2>. HIDE DEF t
  <2>. QED
    BY <1>7, <2>1, <2>2, <2>3, <2>4 DEF Saves
<1>9. CASE PassFaulted(s, r)
  <2>. DEFINE idle == SafeIdle(s)
              t == Each(idle, LAMBDA k, c : DeadBatteryTick(k, c, r))
  <2>1. Becomes(IF ~r.valid THEN idle ELSE t) /\ ~s.hub.relayOpen
    BY <1>9 DEF PassFaulted, HeldOpen
  <2>2. idle \in Chargers
    BY <1>6, <2>1, SafeIdleMoves DEF Moves
  <2>3. /\ StillAll(s, idle) /\ Off(idle) /\ ~idle.hub.blind
    <3>1. ~idle.hub.blind
      BY <1>6, ChargerFields DEF SafeIdle, HubRecords
    <3>. QED
      BY <1>6, <3>1, ExitsStill
  <2>4. \A c \in Channels : idle.chan[c].state # "JIT_RETRY_WAIT"
    <3>1. ASSUME NEW k \in ChannelRecords
          PROVE  IdleChannel(k).state # "JIT_RETRY_WAIT"
      <4>. DEFINE j == StopOneChannel(k)
                  state == IF k.state \in HeldThroughIdle THEN j.state ELSE "OFF"
                  strikes == IF k.state \in HeldThroughIdle THEN j.strikes ELSE 0
      <4>1. IdleChannel(k) = [j EXCEPT !.before = 0, !.lockout = 0,
                                !.state = state, !.strikes = strikes]
        BY DEF IdleChannel
      <4>2. j \in ChannelRecords /\ j.state = k.state
        BY StoppedTyped, StoppedLike
      <4>3. state # "JIT_RETRY_WAIT"
        BY <4>2 DEF HeldThroughIdle
      <4>. HIDE DEF j, state, strikes
      <4>. QED
        BY <4>1, <4>2, <4>3 DEF ChannelRecords
    <3>. QED
      BY <1>6, <3>1, ChargerFields DEF SafeIdle
  <2>5. /\ t.hub = idle.hub
        /\ \A c \in Channels : t.chan[c] = DeadBatteryTick(idle.chan[c], c, r)
    BY <2>2 DEF Each, Chargers
  <2>. HIDE DEF idle, t
  <2>6. StillAll(idle, t) /\ Off(t)
    BY <1>1, <2>2, <2>3, <2>5, TickedStill
  <2>7. /\ StillAll(s, t) /\ ~t.hub.blind
        /\ \A c \in Channels : t.chan[c].state # "JIT_RETRY_WAIT"
    BY <2>3, <2>4, <2>5, <2>6, AllStillOn DEF StillAll, Still
  <2>. QED
    BY <1>7, <2>1, <2>3, <2>4, <2>6, <2>7
<1>10. CASE PassBlind(s, r)
  <2>. DEFINE t == PausedOnBlind(s)
  <2>1. Becomes(t) /\ ~r.valid
    BY <1>10 DEF PassBlind
  <2>2. StillAll(s, t) /\ Off(t)
    BY <1>6, ExitsStill
  <2>3. \A c \in Channels : Saves(s.chan[c], t.chan[c], s.hub.blind)
    BY <1>6, PausedSaves
  <2>. HIDE DEF t
  <2>. QED
    BY <1>1, <1>7, <2>1, <2>2, <2>3
<1>11. ASSUME ~HeldOpen(s)
       PROVE  LET t == Seen(s, r)
              IN /\ t \in Chargers /\ Sound(t) /\ ~t.hub.relayOpen
                 /\ \A c \in Channels :
                      /\ t.chan[c].state # "FINAL_FAULT"
                      /\ Charges(s.chan[c], t.chan[c])
                      /\ t.chan[c].state = s.chan[c].state
                 /\ StillAll(s, t) /\ t.hub.retry = s.hub.retry
                 /\ ~t.hub.blind
  <2>1. Moves(s, Seen(s, r))
    BY <1>1, <1>6, SeenMoves
  <2>2. /\ StillAll(s, Seen(s, r))
        /\ Seen(s, r).hub = [s.hub EXCEPT !.blind = FALSE]
    BY <1>1, <1>6, SeenStill
  <2>3. Seen(s, r).hub.retry = s.hub.retry /\ ~Seen(s, r).hub.blind
    BY <1>6, <2>2, ChargerFields DEF HubRecords
  <2>4. \A c \in Channels : /\ Charges(s.chan[c], Seen(s, r).chan[c])
                            /\ Seen(s, r).chan[c].state = s.chan[c].state
    BY <1>6, SeenCharges
  <2>. QED
    BY <1>6, <1>11, <2>1, <2>2, <2>3, <2>4, MovesHold DEF HeldOpen
<1>12. CASE PassNoInput(s, r)
  <2>. DEFINE seen == Seen(s, r)
              t == InputLost(seen, r)
  <2>1. Becomes(t) /\ ~HeldOpen(s) /\ ~r.permitted
    BY <1>12 DEF PassNoInput
  <2>2. /\ seen \in Chargers /\ StillAll(s, seen)
        /\ \A c \in Channels : seen.chan[c].state # "FINAL_FAULT"
    BY <1>11, <2>1
  <2>. HIDE DEF seen
  <2>3. StillAll(seen, t) /\ Off(t) /\ ~t.hub.blind
    BY <1>1, <2>2, InputLostStill
  <2>. HIDE DEF t
  <2>4. StillAll(s, t)
    BY <2>2, <2>3, AllStillOn
  <2>. QED
    BY <1>1, <1>7, <2>1, <2>3, <2>4
<1>13. CASE PassPowered(s, r)
  <2>. DEFINE seen == Seen(s, r)
  <2>1. Becomes(Powered(seen, r)) /\ ~HeldOpen(s) /\ q.valid
    BY <1>1, <1>13 DEF PassPowered
  <2>2. /\ seen \in Chargers /\ Sound(seen) /\ ~seen.hub.relayOpen
        /\ StillAll(s, seen) /\ seen.hub.retry = s.hub.retry
        /\ ~seen.hub.blind
        /\ \A c \in Channels : /\ Charges(s.chan[c], seen.chan[c])
                               /\ seen.chan[c].state = s.chan[c].state
    BY <1>11, <2>1
  <2>. HIDE DEF seen
  <2>3. StillAll(w, seen)
    BY <1>4, <2>2, AllStillOn
  <2>4. \A c \in Channels : Charges(w.chan[c], seen.chan[c])
    BY <1>5, <2>2, ChargesOn
  <2>5. Reaches(w, seen, q)
    BY <1>4, <1>5, <2>2, <2>3, <2>4 DEF Reaches
  <2>. QED
    BY <1>1, <2>1, <2>5
<1>. QED
  BY <1>2, <1>8, <1>9, <1>10, <1>12, <1>13
-----------------------------------------------------------------------------
(* The trips: the strikes, the retry, and the drive of a powered pass.     *)

\* A channel parked by a strike, for the whole lockout.
Parks(k, j, manual) ==
  /\ j \in ChannelRecords
  /\ k.trip /\ k.state # "JIT_RETRY_WAIT"
  /\ j.trip /\ j.state = "JIT_RETRY_WAIT" /\ j.open = k.open
  /\ j.duty = 0 /\ j.pwm = 0
  /\ ~manual => j.lockout = LockoutTime

\* The hub but for the pointer, or but for the flag of a blind pause.
HubKept(g, h) ==
  /\ h.manual = g.manual /\ h.requested = g.requested
  /\ h.blind = g.blind /\ h.relayOpen = g.relayOpen

LEMMA ParkedParks ==
  ASSUME NEW k \in ChannelRecords, k.trip, k.state # "JIT_RETRY_WAIT",
         k.strikes + 1 < 3, k.strikes # 3, NEW manual \in BOOLEAN,
         NEW j, j = [k EXCEPT !.strikes = @ + 1, !.heal = 1]
  PROVE  Parks(k, [StopOneChannel(j) EXCEPT
                     !.before = k.duty, !.state = "JIT_RETRY_WAIT",
                     !.lockout = IF manual THEN 0 ELSE LockoutTime], manual)
<1>. DEFINE i == StopOneChannel(j)
            n == IF manual THEN 0 ELSE LockoutTime
            t == [i EXCEPT !.before = k.duty, !.state = "JIT_RETRY_WAIT",
                           !.lockout = n]
<1>1. t \in ChannelRecords
  BY Struck
<1>2. j \in ChannelRecords
  <2>1. k.strikes + 1 \in 0 .. 3
    BY DEF ChannelRecords
  <2>. QED
    BY <2>1, Constants DEF ChannelRecords
<1>3. j.trip = k.trip /\ j.open = k.open
  BY DEF ChannelRecords
<1>4. i \in ChannelRecords /\ Still(j, i) /\ i.duty = 0 /\ i.pwm = 0
  BY <1>2, StepsStill DEF Still
<1>5. i.trip /\ i.open = k.open
  BY <1>3, <1>4 DEF Still
<1>. HIDE DEF i, n
<1>6. /\ t.trip = i.trip /\ t.open = i.open /\ t.duty = i.duty /\ t.pwm = i.pwm
      /\ t.state = "JIT_RETRY_WAIT" /\ t.lockout = n
  BY <1>4 DEF ChannelRecords
<1>7. ~manual => n = LockoutTime
  BY DEF n
<1>. HIDE DEF t
<1>8. Parks(k, t, manual)
  BY <1>1, <1>4, <1>5, <1>6, <1>7 DEF Parks
<1>. QED
  BY <1>8 DEF t, n, i

\* Where one channel's strike leads: nowhere, to its parking, or to the end.
LEMMA ServedShape ==
  ASSUME NEW s \in Chargers, Sound(s), NEW c \in Channels
  PROVE  LET t == JitServed(s, c)
         IN \/ t.hub.relayOpen
            \/ t = s /\ (s.chan[c].trip => s.chan[c].state = "JIT_RETRY_WAIT")
            \/ /\ Parks(s.chan[c], t.chan[c], s.hub.manual)
               /\ \A d \in Channels \ {c} : t.chan[d] = s.chan[d]
               /\ HubKept(s.hub, t.hub)
               /\ t.hub.retry \in {s.hub.retry, c}
               /\ s.hub.retry \in Channels => t.hub.retry = s.hub.retry
<1>. DEFINE k == s.chan[c]
            j == [k EXCEPT !.strikes = @ + 1, !.heal = 1]
            final == [j EXCEPT !.state = "FINAL_FAULT", !.strikes = 3]
            parked == [StopOneChannel(j) EXCEPT
                         !.before = k.duty, !.state = "JIT_RETRY_WAIT",
                         !.lockout = IF s.hub.manual THEN 0 ELSE LockoutTime]
            h == [s.hub EXCEPT !.retry = NoChannel]
            retry == IF ~s.hub.manual /\ s.hub.retry = NoChannel THEN c
                     ELSE s.hub.retry
            g == [s.hub EXCEPT !.retry = retry]
            over == [chan |-> [s.chan EXCEPT ![c] = final], hub |-> h]
            wait == [chan |-> [s.chan EXCEPT ![c] = parked], hub |-> g]
            struck == k.trip /\ k.state \notin {"FINAL_FAULT", "JIT_RETRY_WAIT"}
<1>1. /\ k \in ChannelRecords /\ s.hub.manual \in BOOLEAN
      /\ s.chan \in [Channels -> ChannelRecords] /\ k.strikes \in 0 .. 3
      /\ s.hub \in HubRecords
  BY ChargerFields DEF HubRecords, ChannelRecords
<1>2. HandleJitTrip(s, c) =
        IF j.strikes >= 3 THEN Disconnected(over, TRUE) ELSE wait
  BY DEF HandleJitTrip
<1>3. JitServed(s, c) = IF struck THEN HandleJitTrip(s, c) ELSE s
  BY DEF JitServed
<1>4. CASE ~struck
  <2>1. k.state = "FINAL_FAULT" => s.hub.relayOpen
    BY DEF Sound
  <2>. QED
    BY <1>3, <1>4, <2>1
<1>5. CASE struck /\ j.strikes >= 3
  <2>1. Disconnected(over, TRUE).hub.relayOpen
    BY <1>1 DEF Disconnected, HubRecords
  <2>. QED
    BY <1>2, <1>3, <1>5, <2>1
<1>6. CASE struck /\ ~(j.strikes >= 3)
  <2>1. j.strikes = k.strikes + 1 /\ k.strikes # 3
    BY <1>1, <1>6 DEF Sound, ChannelRecords
  <2>2. k.strikes + 1 < 3
    BY <1>1, <1>6, <2>1
  <2>3. Parks(k, parked, s.hub.manual)
    BY <1>1, <1>6, <2>1, <2>2, ParkedParks
  <2>4. retry \in {s.hub.retry, c}
        /\ (s.hub.retry \in Channels => retry = s.hub.retry)
    BY DEF Channels, NoChannel
  <2>. HIDE DEF retry, parked, struck, over, j
  <2>5. g.retry = retry /\ HubKept(s.hub, g)
    BY <1>1 DEF HubRecords, HubKept
  <2>. HIDE DEF g
  <2>6. /\ wait.hub = g /\ wait.chan[c] = parked
        /\ \A d \in Channels \ {c} : wait.chan[d] = s.chan[d]
    BY <1>1
  <2>7. JitServed(s, c) = wait
    BY <1>2, <1>3, <1>6
  <2>. HIDE DEF wait
  <2>. QED
    BY <2>3, <2>4, <2>5, <2>6, <2>7
<1>. QED
  BY <1>4, <1>5, <1>6

\* Both strikes: behind a closed relay a latch is a wait.
Strikes(s, t) ==
  /\ t \in Chargers /\ Sound(t)
  /\ HubKept(s.hub, t.hub)
  /\ t.hub.retry # s.hub.retry =>
       s.hub.retry \notin Channels /\ t.hub.retry \in Channels
         /\ t.chan[t.hub.retry].state = "JIT_RETRY_WAIT"
  /\ \A c \in Channels :
       /\ \/ t.chan[c] = s.chan[c]
          \/ Parks(s.chan[c], t.chan[c], s.hub.manual)
       /\ t.chan[c].trip => t.chan[c].state = "JIT_RETRY_WAIT"

LEMMA StruckShape ==
  ASSUME NEW s \in Chargers, Sound(s)
  PROVE  LET t == JitServed(JitServed(s, 0), 1)
         IN t.hub.relayOpen \/ Strikes(s, t)
<1>. DEFINE once == JitServed(s, 0)
            t == JitServed(once, 1)
<1>1. 0 \in Channels /\ 1 \in Channels /\ \A c \in Channels : c = 0 \/ c = 1
  BY DEF Channels
<1>2. once \in Chargers /\ Sound(once) /\ Holds(s, once)
  BY <1>1, ServedHolds
<1>3. \/ once.hub.relayOpen
      \/ once = s /\ (s.chan[0].trip => s.chan[0].state = "JIT_RETRY_WAIT")
      \/ /\ Parks(s.chan[0], once.chan[0], s.hub.manual)
         /\ \A d \in Channels \ {0} : once.chan[d] = s.chan[d]
         /\ HubKept(s.hub, once.hub)
         /\ once.hub.retry \in {s.hub.retry, 0}
         /\ s.hub.retry \in Channels => once.hub.retry = s.hub.retry
  BY <1>1, ServedShape
<1>. HIDE DEF once
<1>4. t \in Chargers /\ Sound(t) /\ Holds(once, t)
  BY <1>1, <1>2, ServedHolds
<1>5. \/ t.hub.relayOpen
      \/ t = once /\ (once.chan[1].trip => once.chan[1].state = "JIT_RETRY_WAIT")
      \/ /\ Parks(once.chan[1], t.chan[1], once.hub.manual)
         /\ \A d \in Channels \ {1} : t.chan[d] = once.chan[d]
         /\ HubKept(once.hub, t.hub)
         /\ t.hub.retry \in {once.hub.retry, 1}
         /\ once.hub.retry \in Channels => t.hub.retry = once.hub.retry
  BY <1>1, <1>2, ServedShape
<1>. HIDE DEF t
<1>6. CASE once.hub.relayOpen
  BY <1>4, <1>6 DEF Holds, t, once
<1>7. CASE t.hub.relayOpen
  BY <1>7 DEF t, once
<1>8. CASE ~once.hub.relayOpen /\ ~t.hub.relayOpen
  <2>1. 0 # 1
    OBVIOUS
  <2>2. /\ once.chan[1] = s.chan[1] /\ t.chan[0] = once.chan[0]
        /\ HubKept(s.hub, once.hub) /\ HubKept(once.hub, t.hub)
    BY <1>1, <1>3, <1>5, <1>8, <2>1 DEF HubKept
  <2>3. HubKept(s.hub, t.hub) /\ once.hub.manual = s.hub.manual
    BY <2>2 DEF HubKept
  <2>4. /\ \/ once.chan[0] = s.chan[0]
           \/ Parks(s.chan[0], once.chan[0], s.hub.manual)
        /\ once.chan[0].trip => once.chan[0].state = "JIT_RETRY_WAIT"
        /\ once.hub.retry # s.hub.retry =>
             /\ s.hub.retry \notin Channels /\ once.hub.retry = 0
             /\ once.chan[0].state = "JIT_RETRY_WAIT"
    BY <1>3, <1>8 DEF Parks
  <2>5. /\ \/ t.chan[1] = once.chan[1]
           \/ Parks(once.chan[1], t.chan[1], once.hub.manual)
        /\ t.chan[1].trip => t.chan[1].state = "JIT_RETRY_WAIT"
        /\ t.hub.retry # once.hub.retry =>
             /\ once.hub.retry \notin Channels /\ t.hub.retry = 1
             /\ t.chan[1].state = "JIT_RETRY_WAIT"
    BY <1>5, <1>8 DEF Parks
  <2>6. t.hub.retry # s.hub.retry =>
          s.hub.retry \notin Channels /\ t.hub.retry \in Channels
            /\ t.chan[t.hub.retry].state = "JIT_RETRY_WAIT"
    <3>1. CASE t.hub.retry = once.hub.retry
      BY <1>1, <2>2, <2>4, <3>1
    <3>2. CASE t.hub.retry # once.hub.retry
      BY <1>1, <2>4, <2>5, <3>2
    <3>. QED
      BY <3>1, <3>2
  <2>7. Strikes(s, t)
    BY <1>1, <1>4, <2>2, <2>3, <2>4, <2>5, <2>6 DEF Strikes
  <2>. QED
    BY <2>7 DEF t, once
<1>. QED
  BY <1>6, <1>7, <1>8

\* Where the retry pointer leads: p is the channel it serves.
Retries(s, t, p) ==
  /\ t \in Chargers /\ HubKept(s.hub, t.hub)
  /\ s.hub.retry \in Channels => p = s.hub.retry
  /\ s.hub.retry \notin Channels => p \in Waiting(s) \/ Waiting(s) = {}
  /\ \A d \in Channels \ {p} : t.chan[d] = s.chan[d]
  /\ \/ /\ p \notin Waiting(s) /\ t.hub.retry = NoChannel
        /\ p \in Channels => t.chan[p] = s.chan[p]
     \/ /\ p \in Waiting(s) /\ s.chan[p].lockout > 0 /\ t.hub.retry = p
        /\ Still(s.chan[p], t.chan[p]) /\ t.chan[p].state = "JIT_RETRY_WAIT"
     \/ /\ p \in Waiting(s) /\ s.chan[p].lockout = 0 /\ t.hub.retry = NoChannel
        /\ t.chan[p].state = "BULK" /\ ~t.chan[p].trip
        /\ t.chan[p].open = s.chan[p].open

LEMMA RetryShape ==
  ASSUME NEW s \in Chargers
  PROVE  \E p : Retries(s, ServiceRetry(s), p)
<1>. DEFINE first == CHOOSE w \in Waiting(s) : \A v \in Waiting(s) : w <= v
            p == IF s.hub.retry # NoChannel \/ Waiting(s) = {} THEN s.hub.retry
                 ELSE first
            k == s.chan[p]
            j == StopOneChannel(k)
            on == [j EXCEPT !.state = "BULK", !.trip = FALSE]
            t == ServiceRetry(s)
            f == [s.chan EXCEPT ![p] = j]
            g == [s.chan EXCEPT ![p] = Applied(on, RetryDuty(j))]
            none == [s.hub EXCEPT !.retry = NoChannel]
            mine == [s.hub EXCEPT !.retry = p]
<1>1. /\ s.hub \in HubRecords /\ s.chan \in [Channels -> ChannelRecords]
      /\ s = [chan |-> s.chan, hub |-> s.hub]
      /\ s.hub.retry \in Channels \cup {NoChannel}
  BY ChargerFields DEF Chargers, HubRecords
<1>2. \/ p \notin Waiting(s) /\ t.chan = s.chan /\ t.hub = none
      \/ p \in Waiting(s) /\ j.lockout > 0 /\ t.chan = f /\ t.hub = mine
      \/ p \in Waiting(s) /\ ~(j.lockout > 0) /\ t.chan = g /\ t.hub = none
  <2>. DEFINE next == Applied(on, RetryDuty(j))
              a == [s EXCEPT !.hub.retry = NoChannel]
              b == [s EXCEPT !.chan[p] = j, !.hub.retry = p]
              d == [s EXCEPT !.hub.retry = NoChannel, !.chan[p] = next]
  <2>1. t = IF p \notin Waiting(s) THEN a ELSE IF j.lockout > 0 THEN b ELSE d
    BY DEF ServiceRetry
  <2>. HIDE DEF p, j, next, t
  <2>2. a.chan = s.chan /\ a.hub = none
    BY DEF Chargers
  <2>3. b.chan = f /\ b.hub = mine
    BY DEF Chargers, HubRecords
  <2>4. d.chan = g /\ d.hub = none
    BY DEF Chargers, HubRecords, next
  <2>. HIDE DEF a, b, d, f, g, none, mine
  <2>. QED
    BY <2>1, <2>2, <2>3, <2>4
<1>3. t \in Chargers
  BY RetryMoves DEF Moves
<1>4. /\ HubKept(s.hub, none) /\ none.retry = NoChannel
      /\ HubKept(s.hub, mine) /\ mine.retry = p
  <2>. HIDE DEF p
  <2>. QED
    BY <1>1 DEF HubRecords, HubKept
<1>5. /\ s.hub.retry \in Channels => p = s.hub.retry
      /\ s.hub.retry \notin Channels => p \in Waiting(s) \/ Waiting(s) = {}
  <2>1. Waiting(s) # {} => first \in Waiting(s)
    <3>. DEFINE some == Waiting(s)
    <3>1. some \subseteq {0, 1}
      BY DEF Waiting, Channels
    <3>. HIDE DEF some
    <3>2. some # {} => \E w \in some : \A v \in some : w <= v
      <4>1. CASE 0 \in some
        <5>1. \A v \in some : 0 <= v
          BY <3>1
        <5>. QED
          BY <4>1, <5>1
      <4>2. CASE 0 \notin some
        <5>1. \A v \in some : v = 1
          BY <3>1, <4>2
        <5>. QED
          BY <5>1
      <4>. QED
        BY <4>1, <4>2
    <3>. QED
      BY <3>2 DEF some
  <2>2. NoChannel \notin Channels
    BY DEF NoChannel, Channels
  <2>. HIDE DEF first
  <2>. QED
    BY <1>1, <2>1, <2>2
<1>. HIDE DEF p, t, none, mine
<1>6. CASE p \notin Waiting(s)
  <2>1. t.chan = s.chan /\ t.hub = none
    BY <1>2, <1>6
  <2>2. Retries(s, t, p)
    BY <1>3, <1>4, <1>5, <1>6, <2>1 DEF Retries
  <2>. QED
    BY <2>2 DEF t
<1>7. CASE p \in Waiting(s)
  <2>1. p \in Channels /\ k \in ChannelRecords /\ k.state = "JIT_RETRY_WAIT"
    BY <1>1, <1>7 DEF Waiting
  <2>2. /\ j \in ChannelRecords /\ Still(k, j) /\ j.state = "JIT_RETRY_WAIT"
        /\ j.duty = 0 /\ j.pwm = 0
    BY <2>1, StepsStill, StoppedLike DEF Still
  <2>. HIDE DEF k, j
  <2>3. j.lockout = k.lockout /\ j.open = k.open /\ j.lockout \in Nat
    BY <2>2, Limits DEF Still, ChannelRecords
  <2>4. CASE j.lockout > 0
    <3>1. t.chan = f /\ t.hub = mine
      BY <1>2, <1>7, <2>4
    <3>2. f[p] = j /\ \A d \in Channels \ {p} : f[d] = s.chan[d]
      BY <1>1, <2>1
    <3>. HIDE DEF f
    <3>3. Retries(s, t, p)
      BY <1>3, <1>4, <1>5, <1>7, <2>2, <2>3, <2>4, <3>1, <3>2 DEF Retries, k
    <3>. QED
      BY <3>3 DEF t
  <2>5. CASE ~(j.lockout > 0)
    <3>1. t.chan = g /\ t.hub = none
      BY <1>2, <1>7, <2>5
    <3>. DEFINE duty == Lesser(RetryDuty(j), MaxDuty)
                i == Applied(on, RetryDuty(j))
    <3>2. i = [on EXCEPT !.duty = duty, !.pwm = duty]
      BY DEF Applied
    <3>3. g[p] = i /\ \A d \in Channels \ {p} : g[d] = s.chan[d]
      BY <1>1, <2>1
    <3>. HIDE DEF g, i, duty
    <3>4. /\ on.state = "BULK" /\ ~on.trip /\ on.open = j.open
          /\ {"state", "trip", "open"} \subseteq DOMAIN on
      BY <2>2, ZenonT(60) DEF ChannelRecords
    <3>. HIDE DEF on
    <3>5. i.state = "BULK" /\ ~i.trip /\ i.open = k.open
      BY <2>3, <3>2, <3>4
    <3>6. k.lockout = 0
      BY <2>3, <2>5
    <3>7. Retries(s, t, p)
      BY <1>3, <1>4, <1>5, <1>7, <3>1, <3>3, <3>5, <3>6 DEF Retries, k
    <3>. QED
      BY <3>7 DEF t
  <2>. QED
    BY <2>4, <2>5
<1>. QED
  BY <1>6, <1>7

\* What the drive begins with: a channel back from its input outage, or re-armed
\* by the panel.
Readied(k, j, manual) ==
  j = InputBack(k) \/ (manual /\ j = Rearmed(InputBack(k)))

Drives(s, t, r) ==
  /\ t \in Chargers /\ HubKept(s.hub, t.hub)
  /\ t.hub.retry = s.hub.retry \/ (s.hub.manual /\ t.hub.retry = NoChannel)
  /\ \A c \in Channels : \E k :
       /\ Readied(s.chan[c], k, s.hub.manual)
       /\ t.chan[c] = IF k.state = "JIT_RETRY_WAIT" THEN k
                      ELSE Driven(k, c, r, s.hub.manual)

LEMMA DriveShape ==
  ASSUME NEW s \in Chargers, NEW r \in ReadingStates,
         \A c \in Channels : s.chan[c].state # "FINAL_FAULT"
  PROVE  Drives(s, DriveAll(s, r), r)
<1>. DEFINE f == [c \in Channels |-> InputBack(s.chan[c])]
            back == [s EXCEPT !.chan = f]
            again == {c \in Waiting(back) : s.hub.manual /\ back.chan[c].rearm}
            g == [c \in Channels |-> IF c \in again THEN Rearmed(back.chan[c])
                                     ELSE back.chan[c]]
            ready == [back EXCEPT !.chan = g]
            h == [c \in Channels |-> IF c \in Waiting(ready) THEN ready.chan[c]
                    ELSE Driven(ready.chan[c], c, r, s.hub.manual)]
            driven == [ready EXCEPT !.chan = h]
            retry == IF s.hub.retry \in again THEN NoChannel ELSE s.hub.retry
            hub1 == [s.hub EXCEPT !.retry = retry]
            t == DriveAll(s, r)
<1>1. t = [driven EXCEPT !.hub.retry = IF @ \in again THEN NoChannel ELSE @]
  BY DEF DriveAll, Each
<1>2. t \in Chargers
  BY DriveMoves DEF Moves
<1>3. back.chan = f /\ ready.chan = g /\ t.chan = h /\ t.hub = hub1
  <2>. HIDE DEF f, g, h
  <2>1. back.chan = f /\ back.hub = s.hub
    BY DEF Chargers
  <2>2. back = [chan |-> f, hub |-> s.hub]
    BY DEF Chargers
  <2>. HIDE DEF back
  <2>3. ready = [chan |-> g, hub |-> s.hub]
    BY <2>2
  <2>. HIDE DEF ready
  <2>4. driven = [chan |-> h, hub |-> s.hub]
    BY <2>3
  <2>. HIDE DEF driven
  <2>5. t = [chan |-> h, hub |-> hub1]
    BY <1>1, <2>4
  <2>. HIDE DEF hub1, t
  <2>. QED
    BY <2>1, <2>3, <2>5
<1>4. again = {} \/ s.hub.manual
  BY ChargerFields DEF HubRecords
<1>. HIDE DEF back, ready, driven, t, again
<1>5. retry = s.hub.retry \/ (s.hub.manual /\ retry = NoChannel)
  BY <1>4
<1>. HIDE DEF retry
<1>6. HubKept(s.hub, t.hub) /\ t.hub.retry = retry
  BY <1>3, ChargerFields DEF HubRecords, HubKept
<1>7. ASSUME NEW c \in Channels
      PROVE  /\ Readied(s.chan[c], g[c], s.hub.manual)
             /\ t.chan[c] = IF g[c].state = "JIT_RETRY_WAIT" THEN g[c]
                            ELSE Driven(g[c], c, r, s.hub.manual)
  <2>1. g[c] = IF c \in again THEN Rearmed(InputBack(s.chan[c]))
               ELSE InputBack(s.chan[c])
    BY <1>3
  <2>2. t.chan[c] = IF g[c].state = "JIT_RETRY_WAIT" THEN g[c]
                    ELSE Driven(g[c], c, r, s.hub.manual)
    <3>1. t.chan[c] = IF c \in Waiting(ready) THEN g[c]
                      ELSE Driven(g[c], c, r, s.hub.manual)
      BY <1>3
    <3>2. c \in Waiting(ready) <=> g[c].state = "JIT_RETRY_WAIT"
      BY <1>3 DEF Waiting
    <3>. QED
      BY <3>1, <3>2
  <2>. HIDE DEF g
  <2>. QED
    BY <1>4, <2>1, <2>2 DEF Readied
<1>8. Drives(s, t, r)
  BY <1>2, <1>5, <1>6, <1>7 DEF Drives
<1>. QED
  BY <1>8 DEF t

\* The drive of one channel: its clock has ticked, and then it rests, or is
\* driven by hand, or regulated.
Warms(k, w) ==
  /\ w \in ChannelRecords
  /\ w.trip = k.trip /\ w.edge = k.edge /\ w.open = k.open
  /\ w.duty = k.duty /\ w.pwm = k.pwm /\ w.saved = k.saved /\ w.fixed = k.fixed
  /\ w.state = k.state \/ (k.state = "THERMAL_REST" /\ w.state = "OFF")

LEMMA DrivenShape ==
  ASSUME NEW k \in ChannelRecords, NEW c \in Channels, NEW r \in ReadingStates,
         NEW manual \in BOOLEAN
  PROVE  LET t == Driven(k, c, r, manual)
         IN \/ /\ t.state = "THERMAL_REST" /\ t.duty = 0 /\ t.pwm = 0
               /\ t.trip = k.trip /\ t.edge = k.edge /\ t.open = k.open
            \/ \E w : /\ Warms(k, w)
                      /\ t = IF manual THEN ManualDriveChannel(w, r.volts[c])
                             ELSE RegulateChannel(w, c, r)
<1>. DEFINE ticked == DeadBatteryTick(k, c, r)
            rested == Rested(ticked)
            warm == Warmed(rested, r.amps[c])
            stopped == [StopOneChannel(ticked) EXCEPT !.state = "THERMAL_REST"]
            begun == RestBegun(rested)
            onward == IF manual THEN ManualDriveChannel(warm, r.volts[c])
                      ELSE RegulateChannel(warm, c, r)
            t == Driven(k, c, r, manual)
            Same9(i, j) == /\ j.trip = i.trip /\ j.edge = i.edge
                           /\ j.open = i.open /\ j.duty = i.duty
                           /\ j.pwm = i.pwm /\ j.saved = i.saved
                           /\ j.fixed = i.fixed
<1>1. /\ ticked \in ChannelRecords /\ Same9(k, ticked)
      /\ ticked.state = k.state
  <2>1. ticked \in ChannelRecords
    BY TickFacts
  <2>2. \A f \in Fast : As(f, k, ticked)
    BY TickFast DEF Fast, ChannelRecords
  <2>. HIDE DEF ticked
  <2>. QED
    BY <2>1, <2>2 DEF As, Fast
<1>2. t \in {stopped, begun, onward}
  BY Zenon DEF Driven
<1>. HIDE DEF ticked, t
<1>3. /\ rested \in ChannelRecords /\ Same9(ticked, rested)
      /\ \/ rested.state = ticked.state
         \/ ticked.state = "THERMAL_REST" /\ rested.state = "OFF"
  <2>. DEFINE state == IF ticked.state = "THERMAL_REST" THEN "OFF" ELSE ticked.state
              j == [ticked EXCEPT !.rest = 0, !.hot = 0, !.state = state]
  <2>1. rested = ticked \/ rested = j
    BY DEF Rested
  <2>2. /\ state \in States
        /\ \/ state = ticked.state
           \/ ticked.state = "THERMAL_REST" /\ state = "OFF"
    BY <1>1 DEF ChannelRecords, States
  <2>. HIDE DEF rested, state
  <2>3. j \in ChannelRecords
    BY <1>1, <2>2, Constants DEF ChannelRecords
  <2>4. Same9(ticked, j) /\ j.state = state
    BY <1>1, <2>3 DEF ChannelRecords
  <2>. HIDE DEF j
  <2>. QED
    BY <1>1, <2>1, <2>2, <2>3, <2>4
<1>. HIDE DEF rested
<1>4. Warms(k, warm)
  <2>. DEFINE hot == IF ~AtMax(rested, r.amps[c]) THEN 0
                     ELSE IF rested.hot = 0 THEN 1 ELSE rested.hot
  <2>1. hot \in 0 .. HotTime + 1
    BY <1>3, Constants DEF ChannelRecords
  <2>2. warm = [rested EXCEPT !.hot = hot]
    BY DEF Warmed
  <2>. HIDE DEF hot, warm
  <2>3. warm \in ChannelRecords
    BY <1>3, <2>1, <2>2 DEF ChannelRecords
  <2>4. Same9(rested, warm) /\ warm.state = rested.state
    BY <1>3, <2>2 DEF ChannelRecords
  <2>. QED
    BY <1>1, <1>3, <2>3, <2>4 DEF Warms
<1>. HIDE DEF warm
<1>5. ASSUME NEW i \in ChannelRecords
      PROVE  LET j == StopOneChannel(i)
             IN /\ j \in ChannelRecords /\ j.trip = i.trip /\ j.edge = i.edge
                /\ j.open = i.open /\ j.duty = 0 /\ j.pwm = 0
  BY StepsStill DEF Still
<1>6. /\ stopped.state = "THERMAL_REST" /\ stopped.duty = 0 /\ stopped.pwm = 0
      /\ stopped.trip = k.trip /\ stopped.edge = k.edge
      /\ stopped.open = k.open
  <2>. DEFINE j == StopOneChannel(ticked)
  <2>1. /\ j \in ChannelRecords /\ j.trip = k.trip /\ j.edge = k.edge
        /\ j.open = k.open /\ j.duty = 0 /\ j.pwm = 0
    BY <1>1, <1>5
  <2>. HIDE DEF j
  <2>. QED
    BY <2>1 DEF ChannelRecords, j
<1>7. /\ begun.state = "THERMAL_REST" /\ begun.duty = 0 /\ begun.pwm = 0
      /\ begun.trip = k.trip /\ begun.edge = k.edge /\ begun.open = k.open
  <2>. DEFINE j == StopOneChannel(rested)
  <2>1. /\ j \in ChannelRecords /\ j.trip = k.trip /\ j.edge = k.edge
        /\ j.open = k.open /\ j.duty = 0 /\ j.pwm = 0
    BY <1>1, <1>3, <1>5
  <2>2. begun =
          [j EXCEPT !.rest = RestTime + 1, !.hot = 0, !.charged = 0,
                    !.charging = FALSE, !.state = "THERMAL_REST"]
    BY DEF RestBegun
  <2>. HIDE DEF j, begun
  <2>. QED
    BY <2>1, <2>2 DEF ChannelRecords
<1>8. CASE t \in {stopped, begun}
  BY <1>6, <1>7, <1>8 DEF t
<1>9. CASE t = onward
  <2>. HIDE DEF t
  <2>. QED
    BY <1>4, <1>9 DEF t
<1>. QED
  BY <1>2, <1>8, <1>9

\* A channel that waits for its retry or for its battery is off.
Level(k) ==
  k.state \in {"JIT_RETRY_WAIT", "BAT_LOST"} => k.duty = 0 /\ k.pwm = 0

Even(k) == {"duty", "pwm"} \subseteq DOMAIN k /\ k.pwm = k.duty

LEMMA AppliedEven ==
  ASSUME NEW k, {"duty", "pwm"} \subseteq DOMAIN k, NEW duty
  PROVE  Even(Applied(k, duty)) /\ Applied(k, duty).pwm = Lesser(duty, MaxDuty)
<1>. DEFINE n == Lesser(duty, MaxDuty)
<1>1. Applied(k, duty) = [k EXCEPT !.duty = n, !.pwm = n]
  BY DEF Applied
<1>. HIDE DEF n
<1>. QED
  BY <1>1 DEF Even, n

LEMMA StartOverOff ==
  ASSUME NEW k \in ChannelRecords
  PROVE  /\ StartOver(k).duty = 0 /\ StartOver(k).pwm = 0
         /\ StopOneChannel(k).duty = 0 /\ StopOneChannel(k).pwm = 0
         /\ StartOver(k).state = "OFF"
<1>1. ResetChannelToOff(k) \in ChannelRecords
  BY StoppedTyped
<1>2. ResetChannelToOff(k).state = "OFF"
  BY DEF ResetChannelToOff, ChannelRecords
<1>. QED
  BY <1>1, <1>2, StepsStill, StoppedLike DEF StartOver

\* RegulateChannel drives what it shows.
LEMMA RegulateLevels ==
  ASSUME NEW k \in ChannelRecords, Level(k),
         k.state \notin {"FINAL_FAULT", "INPUT_WAIT"},
         NEW c \in Channels, NEW r \in ReadingStates
  PROVE  Even(RegulateChannel(k, c, r))
<1>. DEFINE t == RegulateChannel(k, c, r)
            free == [k EXCEPT !.saved = 0, !.grace = FALSE]
            begun == [free EXCEPT !.state = IF @ = "OFF" THEN "BULK" ELSE @]
            bulk == [k EXCEPT !.state = "BULK"]
            clean == [k EXCEPT !.saved = 0]
            stopped == StopOneChannel(k)
            off == [stopped EXCEPT !.state = "OFF"]
            Has(j) == {"duty", "pwm"} \subseteq DOMAIN j
<1>1. Has(k) /\ Has(free) /\ Has(begun) /\ Has(bulk) /\ Has(clean)
  BY DEF ChannelRecords
<1>2. Even(off)
  <2>1. stopped \in ChannelRecords /\ stopped.duty = 0 /\ stopped.pwm = 0
    BY StoppedTyped, StartOverOff
  <2>. HIDE DEF stopped
  <2>. QED
    BY <2>1 DEF Even, ChannelRecords
<1>3. Even(StartOver(k))
  BY StoppedTyped, StartOverOff DEF Even, ChannelRecords
<1>4. \/ t = k /\ k.state \in {"JIT_RETRY_WAIT", "BAT_LOST"}
      \/ t = off \/ t = FixedDuty(k, r.volts[c]) \/ t = StartOver(k)
      \/ t = Applied(bulk, StartDuty) \/ t = Applied(k, 0)
      \/ t = BlindResume(k, r.want[c])
      \/ t = Regulated(clean, r.volts[c], r.want[c], r.done[c])
  BY DEF RegulateChannel, bulk, clean, off
<1>5. Even(FixedDuty(k, r.volts[c]))
  <2>1. \E duty : \/ FixedDuty(k, r.volts[c]) = Applied(free, duty)
                  \/ FixedDuty(k, r.volts[c]) = Applied(begun, duty)
    BY DEF FixedDuty, free, begun
  <2>. HIDE DEF free, begun
  <2>. QED
    BY <1>1, <2>1, AppliedEven
<1>6. Even(BlindResume(k, r.want[c]))
  <2>1. PICK duty : BlindResume(k, r.want[c]) =
          [Applied(k, duty) EXCEPT !.saved = 0, !.grace = k.state = "ABSORB"]
    BY DEF BlindResume
  <2>. DEFINE on == Applied(k, duty)
              grace == k.state = "ABSORB"
  <2>2. Even(on)
    BY <1>1, AppliedEven
  <2>. HIDE DEF on, grace
  <2>3. Even([on EXCEPT !.saved = 0, !.grace = grace])
    BY <2>2 DEF Even
  <2>. QED
    BY <2>1, <2>3 DEF on, grace
<1>7. Even(Regulated(clean, r.volts[c], r.want[c], r.done[c]))
  <2>. DEFINE grace == /\ clean.grace /\ clean.state = "ABSORB"
                       /\ r.volts[c] # "full" /\ ~r.done[c]
              graced == [clean EXCEPT !.grace = grace]
              stage == Stage(graced, r.volts[c], r.done[c])
              staged == [graced EXCEPT !.state = stage]
  <2>1. \E duty : Regulated(clean, r.volts[c], r.want[c], r.done[c])
                    = Applied(staged, duty)
    BY DEF Regulated
  <2>. HIDE DEF grace
  <2>2. Has(graced)
    BY <1>1
  <2>. HIDE DEF graced, stage
  <2>3. Has(staged)
    BY <2>2
  <2>. HIDE DEF staged
  <2>. QED
    BY <2>1, <2>3, AppliedEven
<1>8. Even(Applied(bulk, StartDuty)) /\ Even(Applied(k, 0))
  <2>. HIDE DEF bulk
  <2>. QED
    BY <1>1, AppliedEven
<1>9. Even(k) \/ k.state \notin {"JIT_RETRY_WAIT", "BAT_LOST"}
  BY <1>1 DEF Level, Even
<1>. HIDE DEF t, off, bulk, clean
<1>10. Even(t)
  BY <1>2, <1>3, <1>4, <1>5, <1>6, <1>7, <1>8, <1>9
<1>. QED
  BY <1>10 DEF t

\* Half a promise of the blind pause: what a charging channel has saved is the
\* most it is driven with, in parts of ten.
Gentle(n) == Greater(StartDuty, (n * 7) \div 10)

LEMMA RegulateGently ==
  ASSUME PidRise <= StartDuty, NEW k \in ChannelRecords,
         Active(k), ~k.fixed, k.duty = 0,
         NEW c \in Channels, NEW r \in ReadingStates
  PROVE  RegulateChannel(k, c, r).pwm <= Gentle(k.saved)
<1>. DEFINE t == RegulateChannel(k, c, r)
            seven == (k.saved * 7) \div 10
            clean == [k EXCEPT !.saved = 0]
            stopped == StopOneChannel(k)
            off == [stopped EXCEPT !.state = "OFF"]
            want == r.want[c]
<1>1. /\ want \in Nat /\ seven \in Nat /\ k.saved \in Nat
      /\ k.state \in {"BULK", "ABSORB"}
  BY Limits DEF ReadingStates, ChannelRecords, Duties, Active
<1>2. \/ t = off \/ t = StartOver(k)
      \/ t = BlindResume(k, want)
      \/ k.saved = 0 /\ t = Regulated(clean, r.volts[c], want, r.done[c])
  BY <1>1 DEF RegulateChannel, Active, clean, off, stopped, want
<1>3. off.pwm = 0 /\ StartOver(k).pwm = 0
  <2>1. stopped \in ChannelRecords /\ stopped.pwm = 0
    BY StoppedTyped, StartOverOff
  <2>. HIDE DEF stopped
  <2>2. off.pwm = 0
    BY <2>1 DEF ChannelRecords
  <2>. QED
    BY <2>2, StartOverOff
<1>4. {"duty", "pwm"} \subseteq DOMAIN k /\ {"duty", "pwm"} \subseteq DOMAIN clean
  BY DEF ChannelRecords
<1>5. 0 <= Gentle(k.saved)
  BY <1>1, Limits DEF Gentle, Greater
<1>6. BlindResume(k, want).pwm <= Gentle(k.saved)
  <2>. DEFINE duty == Greater(StartDuty, Lesser(seven, want))
              on == Applied(k, duty)
              grace == k.state = "ABSORB"
  <2>1. BlindResume(k, want) = [on EXCEPT !.saved = 0, !.grace = grace]
    BY DEF BlindResume
  <2>2. Even(on) /\ on.pwm = Lesser(duty, MaxDuty)
    BY <1>4, AppliedEven
  <2>. HIDE DEF seven, want
  <2>3. Lesser(duty, MaxDuty) <= Greater(StartDuty, seven)
    BY <1>1, Limits DEF Lesser, Greater
  <2>. HIDE DEF on, grace, duty
  <2>4. BlindResume(k, want).pwm = on.pwm
    BY <2>1, <2>2 DEF Even
  <2>. QED
    BY <2>2, <2>3, <2>4 DEF Gentle, seven
<1>7. Regulated(clean, r.volts[c], want, r.done[c]).pwm <= Gentle(k.saved)
  <2>. DEFINE grace == /\ clean.grace /\ clean.state = "ABSORB"
                       /\ r.volts[c] # "full" /\ ~r.done[c]
              graced == [clean EXCEPT !.grace = grace]
              stage == Stage(graced, r.volts[c], r.done[c])
              staged == [graced EXCEPT !.state = stage]
              duty == IF stage = "FLOAT" THEN Sooner(clean.duty)
                      ELSE Lesser(want, clean.duty + PidRise)
  <2>1. Regulated(clean, r.volts[c], want, r.done[c]) = Applied(staged, duty)
    <3>. HIDE DEF clean, want
    <3>. QED
      BY DEF Regulated, duty, staged, stage, graced, grace
  <2>2. clean.duty = 0
    BY DEF ChannelRecords
  <2>3. Lesser(duty, MaxDuty) <= StartDuty
    <3>. HIDE DEF want, stage, clean
    <3>1. Sooner(clean.duty) = 0
      BY <2>2 DEF Sooner, Greater
    <3>2. Lesser(want, clean.duty + PidRise) \in Nat
          /\ Lesser(want, clean.duty + PidRise) <= StartDuty
      BY <1>1, <2>2, Limits DEF Lesser
    <3>3. duty \in Nat /\ duty <= StartDuty
      BY <3>1, <3>2, Limits
    <3>. HIDE DEF duty
    <3>. QED
      BY <3>3, Limits DEF Lesser
  <2>4. StartDuty <= Gentle(k.saved)
    BY <1>1, Limits DEF Gentle, Greater
  <2>. HIDE DEF grace
  <2>5. {"duty", "pwm"} \subseteq DOMAIN graced
    BY <1>4
  <2>. HIDE DEF graced, stage
  <2>6. {"duty", "pwm"} \subseteq DOMAIN staged
    BY <2>5
  <2>. HIDE DEF staged, duty
  <2>7. Applied(staged, duty).pwm = Lesser(duty, MaxDuty)
    BY <2>6, AppliedEven
  <2>8. Lesser(duty, MaxDuty) \in Int /\ Gentle(k.saved) \in Int
    BY <1>1, <2>3, Limits DEF Gentle, Greater, Lesser, duty, Sooner, clean
  <2>. QED
    BY <2>1, <2>3, <2>4, <2>7, <2>8, Limits
<1>. HIDE DEF t, off, clean, want
<1>8. t.pwm <= Gentle(k.saved)
  BY <1>2, <1>3, <1>5, <1>6, <1>7
<1>. QED
  BY <1>8 DEF t

LEMMA ReadiedFields ==
  ASSUME NEW k \in ChannelRecords, k.state # "FINAL_FAULT", Level(k),
         NEW manual \in BOOLEAN, NEW j, Readied(k, j, manual)
  PROVE  /\ j \in ChannelRecords /\ Level(j) /\ j.open = k.open
         /\ j.state \notin {"FINAL_FAULT", "INPUT_WAIT"}
         /\ ~manual => /\ j.trip = k.trip
                       /\ j = k \/ (k.state = "INPUT_WAIT" /\ j.state = "OFF")
<1>. DEFINE i == InputBack(k)
            off == [k EXCEPT !.state = "OFF", !.duty = 0, !.strikes = 0]
            again == [i EXCEPT !.rearm = FALSE, !.lockout = 0, !.trip = FALSE,
                               !.state = "MANUAL"]
<1>1. /\ off \in ChannelRecords /\ off.state = "OFF" /\ off.open = k.open
      /\ off.trip = k.trip
  BY Constants DEF ChannelRecords, States
<1>2. i = IF k.state # "INPUT_WAIT" THEN k ELSE off
  BY DEF InputBack
<1>. HIDE DEF off, i
<1>3. /\ i \in ChannelRecords /\ Level(i) /\ i.open = k.open /\ i.trip = k.trip
      /\ i.state \notin {"FINAL_FAULT", "INPUT_WAIT"}
      /\ i = k \/ (k.state = "INPUT_WAIT" /\ i.state = "OFF")
  BY <1>1, <1>2 DEF Level
<1>4. again \in ChannelRecords
  BY <1>3, Constants, ZenonT(60) DEF ChannelRecords, States
<1>5. again.open = i.open /\ again.state = "MANUAL"
  BY <1>3 DEF ChannelRecords
<1>6. j = i \/ (manual /\ j = again)
  BY DEF Readied, Rearmed, i
<1>. HIDE DEF again
<1>. QED
  BY <1>3, <1>4, <1>5, <1>6 DEF Level

LEMMA DrivenTrips ==
  ASSUME NEW k \in ChannelRecords, Level(k),
         k.state \notin {"FINAL_FAULT", "JIT_RETRY_WAIT", "INPUT_WAIT"},
         NEW c \in Channels, NEW r \in ReadingStates, NEW manual \in BOOLEAN
  PROVE  LET t == Driven(k, c, r, manual)
         IN /\ t.trip = k.trip /\ t.open = k.open
            /\ t.state # "JIT_RETRY_WAIT" /\ t.pwm = t.duty
            /\ /\ ~manual /\ PidRise <= StartDuty
               /\ Active(k) /\ ~k.fixed /\ k.duty = 0
               => t.pwm <= Gentle(k.saved)
            /\ ~manual /\ k.state = "BAT_LOST" => t.pwm = 0
<1>. DEFINE t == Driven(k, c, r, manual)
<1>0. k.saved \in Nat /\ Gentle(k.saved) \in Int /\ 0 <= Gentle(k.saved)
  BY Limits DEF ChannelRecords, Duties, Gentle, Greater
<1>1. \/ /\ t.state = "THERMAL_REST" /\ t.duty = 0 /\ t.pwm = 0
         /\ t.trip = k.trip /\ t.edge = k.edge /\ t.open = k.open
      \/ \E w : /\ Warms(k, w)
                /\ t = IF manual THEN ManualDriveChannel(w, r.volts[c])
                       ELSE RegulateChannel(w, c, r)
  BY DrivenShape
<1>. HIDE DEF t
<1>2. CASE t.state = "THERMAL_REST" /\ t.duty = 0 /\ t.pwm = 0
           /\ t.trip = k.trip /\ t.open = k.open
  BY <1>0, <1>2 DEF t
<1>3. ASSUME NEW w, Warms(k, w)
      PROVE  /\ w \in ChannelRecords /\ Level(w)
             /\ w.state \notin {"FINAL_FAULT", "JIT_RETRY_WAIT", "INPUT_WAIT"}
             /\ \A f \in {"trip", "open"} : f \in DOMAIN w /\ f \in Slow
             /\ w.trip = k.trip /\ w.open = k.open
  BY <1>3 DEF Warms, Level, Slow, ChannelRecords
<1>4. ASSUME NEW w, Warms(k, w), manual, t = ManualDriveChannel(w, r.volts[c])
      PROVE  /\ t.trip = k.trip /\ t.open = k.open
             /\ t.state # "JIT_RETRY_WAIT" /\ t.pwm = t.duty
  <2>. DEFINE j == [w EXCEPT !.state = "MANUAL"]
  <2>1. j \in ChannelRecords /\ j.state = "MANUAL"
        /\ {"duty", "pwm"} \subseteq DOMAIN j
    BY <1>3, <1>4 DEF ChannelRecords, States
  <2>2. \E duty : t = Applied(j, duty)
    BY <1>4 DEF ManualDriveChannel
  <2>3. As("trip", w, t) /\ As("open", w, t)
    BY <1>3, <1>4, ManualSlow
  <2>. HIDE DEF j
  <2>4. Even(t) /\ t.state = "MANUAL"
    BY <2>1, <2>2, AppliedEven, AppliedFields
  <2>. QED
    BY <1>3, <1>4, <2>3, <2>4 DEF As, Even
<1>5. ASSUME NEW w, Warms(k, w), t = RegulateChannel(w, c, r)
      PROVE  /\ t.trip = k.trip /\ t.open = k.open
             /\ t.state # "JIT_RETRY_WAIT" /\ t.pwm = t.duty
             /\ PidRise <= StartDuty /\ Active(k) /\ ~k.fixed /\ k.duty = 0
                  => t.pwm <= Gentle(k.saved)
             /\ k.state = "BAT_LOST" => t.pwm = 0
  <2>1. Even(t)
    BY <1>3, <1>5, RegulateLevels
  <2>2. Onward(w.state, t.state)
    BY <1>3, <1>5, RegulateStates
  <2>3. As("trip", w, t) /\ As("open", w, t)
    BY <1>3, <1>5, RegulateSlow
  <2>4. PidRise <= StartDuty /\ Active(k) /\ ~k.fixed /\ k.duty = 0
          => t.pwm <= Gentle(k.saved)
    <3>1. Active(k) => Active(w)
      BY <1>5 DEF Warms, Active
    <3>. QED
      BY <1>3, <1>5, <3>1, RegulateGently DEF Warms
  <2>5. k.state = "BAT_LOST" => t.pwm = 0
    <3>1. k.state = "BAT_LOST" => t = w
      BY <1>5 DEF Warms, RegulateChannel
    <3>. QED
      BY <1>3, <1>5, <3>1 DEF Level, Warms
  <2>6. t.trip = k.trip /\ t.open = k.open
    BY <1>3, <1>5, <2>3 DEF As
  <2>7. t.state # "JIT_RETRY_WAIT"
    BY <1>3, <1>5, <2>2 DEF Onward
  <2>8. t.pwm = t.duty
    BY <2>1 DEF Even
  <2>. QED
    BY <2>4, <2>5, <2>6, <2>7, <2>8
<1>. QED
  BY <1>1, <1>2, <1>4, <1>5 DEF t

\* A powered pass: the strikes, the retry, and the drive; or the end.
Works(s, t, r) ==
  \E m, u :
    /\ Strikes(s, m) /\ ~m.hub.relayOpen
    /\ IF s.hub.manual THEN u = m ELSE \E p : Retries(m, u, p)
    /\ Drives(u, t, r)
    /\ u \in Chargers
    /\ \A c \in Channels : /\ u.chan[c].state # "FINAL_FAULT"
                           /\ Level(u.chan[c])

LEMMA StrikesLevel ==
  ASSUME NEW s, \A c \in Channels : Level(s.chan[c]),
         NEW m, Strikes(s, m)
  PROVE  \A c \in Channels : Level(m.chan[c])
  BY DEF Strikes, Parks, Level

LEMMA RetriesLevel ==
  ASSUME NEW s, \A c \in Channels : Level(s.chan[c]),
         NEW u, NEW p, Retries(s, u, p)
  PROVE  \A c \in Channels : Level(u.chan[c])
<1>. SUFFICES ASSUME NEW c \in Channels PROVE Level(u.chan[c])
  OBVIOUS
<1>1. CASE c # p
  BY <1>1 DEF Retries
<1>2. CASE c = p
  <2>1. \/ u.chan[c] = s.chan[c] \/ u.chan[c].state = "BULK"
        \/ Still(s.chan[c], u.chan[c]) /\ s.chan[c].state = "JIT_RETRY_WAIT"
    BY <1>2 DEF Retries, Waiting
  <2>. QED
    BY <2>1 DEF Level, Still
<1>. QED
  BY <1>1, <1>2

LEMMA PoweredWorks ==
  ASSUME NEW s \in Chargers, Sound(s), ~s.hub.relayOpen,
         \A c \in Channels : Level(s.chan[c]), NEW r \in ReadingStates
  PROVE  LET t == Powered(s, r)
         IN \/ t.hub.relayOpen /\ Off(t)
            \/ ~t.hub.relayOpen /\ Works(s, t, r)
<1>. DEFINE m == JitServed(JitServed(s, 0), 1)
            u == IF s.hub.manual THEN m ELSE ServiceRetry(m)
            t == Powered(s, r)
<1>1. t = IF u.hub.relayOpen THEN Disconnected(u, r.present) ELSE DriveAll(u, r)
  BY DEF Powered
<1>. HIDE DEF t
<1>2. m.hub.relayOpen \/ Strikes(s, m)
  BY StruckShape
<1>3. m \in Chargers /\ Sound(m)
  <2>1. 0 \in Channels /\ 1 \in Channels
    BY DEF Channels
  <2>. DEFINE once == JitServed(s, 0)
  <2>2. once \in Chargers /\ Sound(once)
    BY <2>1, ServedHolds
  <2>. HIDE DEF once
  <2>. QED
    BY <2>1, <2>2, ServedHolds DEF once
<1>. HIDE DEF m
<1>4. /\ u \in Chargers /\ u.hub.relayOpen = m.hub.relayOpen /\ Sound(u)
      /\ IF s.hub.manual THEN u = m ELSE \E p : Retries(m, u, p)
  <2>1. Moves(m, ServiceRetry(m))
    BY <1>3, RetryMoves
  <2>2. \E p : Retries(m, ServiceRetry(m), p)
    BY <1>3, RetryShape
  <2>. QED
    BY <1>3, <2>1, <2>2, MovesHold
<1>. HIDE DEF u
<1>5. CASE u.hub.relayOpen
  <2>1. Disconnected(u, r.present).hub.relayOpen
    BY <1>4, ChargerFields DEF Disconnected, HubRecords
  <2>2. Off(Disconnected(u, r.present))
    BY <1>4, ExitsStill
  <2>. QED
    BY <1>1, <1>5, <2>1, <2>2 DEF t
<1>6. CASE ~u.hub.relayOpen
  <2>1. \A c \in Channels : u.chan[c].state # "FINAL_FAULT"
    BY <1>4, <1>6 DEF Sound
  <2>2. Drives(u, t, r)
    BY <1>1, <1>4, <1>6, <2>1, DriveShape
  <2>3. ~t.hub.relayOpen
    BY <1>6, <2>2 DEF Drives, HubKept
  <2>4. \A c \in Channels : Level(m.chan[c])
    BY <1>2, <1>4, <1>6, StrikesLevel
  <2>5. \A c \in Channels : Level(u.chan[c])
    BY <1>4, <2>4, RetriesLevel
  <2>6. Works(s, t, r)
    BY <1>2, <1>4, <1>6, <2>1, <2>2, <2>5 DEF Works
  <2>. QED
    BY <2>3, <2>6 DEF t
<1>. QED
  BY <1>5, <1>6

LEMMA DriveTrips ==
  ASSUME NEW u \in Chargers, NEW t, NEW r \in ReadingStates, Drives(u, t, r),
         NEW c \in Channels, u.chan[c].state # "FINAL_FAULT", Level(u.chan[c])
  PROVE  /\ t.chan[c].open = u.chan[c].open /\ t.chan[c].pwm = t.chan[c].duty
         /\ ~u.hub.manual =>
              /\ t.chan[c].trip = u.chan[c].trip
              /\ t.chan[c].state = "JIT_RETRY_WAIT"
                   <=> u.chan[c].state = "JIT_RETRY_WAIT"
              /\ t.chan[c].state = "JIT_RETRY_WAIT" => t.chan[c] = u.chan[c]
<1>. DEFINE k == u.chan[c]
            i == t.chan[c]
<1>1. k \in ChannelRecords /\ u.hub.manual \in BOOLEAN
  BY ChargerFields DEF HubRecords
<1>2. PICK j : /\ Readied(k, j, u.hub.manual)
               /\ i = IF j.state = "JIT_RETRY_WAIT" THEN j
                      ELSE Driven(j, c, r, u.hub.manual)
  BY DEF Drives
<1>. HIDE DEF k, i
<1>3. /\ j \in ChannelRecords /\ Level(j) /\ j.open = k.open
      /\ j.state \notin {"FINAL_FAULT", "INPUT_WAIT"}
      /\ ~u.hub.manual => /\ j.trip = k.trip
                          /\ j = k \/ (k.state = "INPUT_WAIT" /\ j.state = "OFF")
  BY <1>1, <1>2, ReadiedFields DEF k
<1>4. CASE j.state = "JIT_RETRY_WAIT"
  BY <1>2, <1>3, <1>4 DEF Level, k, i
<1>5. CASE j.state # "JIT_RETRY_WAIT"
  <2>1. /\ i.trip = j.trip /\ i.open = j.open
        /\ i.state # "JIT_RETRY_WAIT" /\ i.pwm = i.duty
    BY <1>1, <1>2, <1>3, <1>5, DrivenTrips
  <2>. QED
    BY <1>3, <1>5, <2>1 DEF k, i
<1>. QED
  BY <1>4, <1>5

LEMMA WorksOpen ==
  ASSUME NEW s \in Chargers, NEW t, NEW r \in ReadingStates, Works(s, t, r)
  PROVE  /\ t \in Chargers
         /\ t.hub.manual = s.hub.manual /\ t.hub.requested = s.hub.requested
         /\ t.hub.blind = s.hub.blind
         /\ \A c \in Channels : /\ t.chan[c].open = s.chan[c].open
                                /\ t.chan[c].pwm = t.chan[c].duty
<1>1. PICK m, u :
        /\ Strikes(s, m) /\ ~m.hub.relayOpen
        /\ IF s.hub.manual THEN u = m ELSE \E p : Retries(m, u, p)
        /\ Drives(u, t, r)
        /\ u \in Chargers
        /\ \A c \in Channels : /\ u.chan[c].state # "FINAL_FAULT"
                               /\ Level(u.chan[c])
  BY DEF Works
<1>2. /\ HubKept(s.hub, m.hub)
      /\ \A c \in Channels : m.chan[c].open = s.chan[c].open
  BY <1>1 DEF Strikes, Parks
<1>3. /\ HubKept(m.hub, u.hub)
      /\ \A c \in Channels : u.chan[c].open = m.chan[c].open
  <2>1. CASE s.hub.manual
    BY <1>1, <2>1 DEF HubKept
  <2>2. ASSUME NEW p, Retries(m, u, p)
        PROVE  /\ HubKept(m.hub, u.hub)
               /\ \A c \in Channels : u.chan[c].open = m.chan[c].open
    <3>1. ASSUME NEW c \in Channels PROVE u.chan[c].open = m.chan[c].open
      <4>1. CASE c # p
        BY <2>2, <4>1 DEF Retries
      <4>2. CASE c = p
        BY <2>2, <4>2 DEF Retries, Still
      <4>. QED
        BY <4>1, <4>2
    <3>. QED
      BY <2>2, <3>1 DEF Retries
  <2>. QED
    BY <1>1, <2>1, <2>2
<1>4. /\ t \in Chargers /\ HubKept(u.hub, t.hub)
      /\ \A c \in Channels : /\ t.chan[c].open = u.chan[c].open
                             /\ t.chan[c].pwm = t.chan[c].duty
  BY <1>1, DriveTrips DEF Drives
<1>. QED
  BY <1>2, <1>3, <1>4 DEF HubKept

\* Outside the manual mode: who waits when the strikes are in, and after the
\* turn of p, which the pointer named or the retry picked.
Turns(m, t, p) ==
  /\ m.hub.retry \in Channels => p = m.hub.retry
  /\ m.hub.retry \notin Channels => p \in Waiting(m) \/ Waiting(m) = {}
  /\ \A c \in Channels :
       /\ t.chan[c].trip => t.chan[c].state = "JIT_RETRY_WAIT"
       /\ c \in Waiting(t) => /\ c \in Waiting(m)
                              /\ t.chan[c].trip = m.chan[c].trip
                              /\ t.chan[c].lockout = m.chan[c].lockout
       /\ c \notin Waiting(t) /\ (c \in Waiting(m) \/ m.chan[c].trip)
            => c = p /\ t.hub.retry = NoChannel /\ m.chan[c].lockout = 0
  /\ \/ p \notin Waiting(m) /\ t.hub.retry = NoChannel
     \/ p \in Waiting(m) /\ m.chan[p].lockout > 0 /\ t.hub.retry = p
     \/ p \in Waiting(m) /\ m.chan[p].lockout = 0 /\ t.hub.retry = NoChannel
          /\ p \notin Waiting(t)

LEMMA WorksTurn ==
  ASSUME NEW s \in Chargers, ~s.hub.manual, NEW t, NEW r \in ReadingStates,
         Works(s, t, r)
  PROVE  \E m, p : Strikes(s, m) /\ Turns(m, t, p)
<1>1. PICK m, u :
        /\ Strikes(s, m) /\ ~m.hub.relayOpen
        /\ IF s.hub.manual THEN u = m ELSE \E p : Retries(m, u, p)
        /\ Drives(u, t, r)
        /\ u \in Chargers
        /\ \A c \in Channels : /\ u.chan[c].state # "FINAL_FAULT"
                               /\ Level(u.chan[c])
  BY DEF Works
<1>2. PICK p : Retries(m, u, p)
  BY <1>1
<1>3. /\ ~u.hub.manual /\ t.hub.retry = u.hub.retry
  BY <1>1, <1>2 DEF Strikes, Retries, Drives, HubKept
<1>4. \A c \in Channels :
        /\ t.chan[c].trip = u.chan[c].trip
        /\ t.chan[c].state = "JIT_RETRY_WAIT"
             <=> u.chan[c].state = "JIT_RETRY_WAIT"
        /\ t.chan[c].state = "JIT_RETRY_WAIT" => t.chan[c] = u.chan[c]
  BY <1>1, <1>3, DriveTrips
<1>5. ASSUME NEW c \in Channels
      PROVE  /\ u.chan[c].trip => u.chan[c].state = "JIT_RETRY_WAIT"
             /\ c \in Waiting(u) => /\ c \in Waiting(m)
                                    /\ u.chan[c].trip = m.chan[c].trip
                                    /\ u.chan[c].lockout = m.chan[c].lockout
             /\ c \notin Waiting(u) /\ (c \in Waiting(m) \/ m.chan[c].trip)
                  => c = p /\ u.hub.retry = NoChannel /\ m.chan[c].lockout = 0
  <2>1. m.chan[c].trip => m.chan[c].state = "JIT_RETRY_WAIT"
    BY <1>1 DEF Strikes
  <2>2. CASE u.chan[c] = m.chan[c]
    BY <2>1, <2>2 DEF Waiting
  <2>3. CASE u.chan[c] # m.chan[c]
    <3>1. c = p
      BY <1>2, <2>3 DEF Retries
    <3>2. \/ /\ p \in Waiting(m) /\ Still(m.chan[c], u.chan[c])
             /\ u.chan[c].state = "JIT_RETRY_WAIT"
          \/ /\ p \in Waiting(m) /\ m.chan[c].lockout = 0
             /\ u.hub.retry = NoChannel
             /\ u.chan[c].state = "BULK" /\ ~u.chan[c].trip
      BY <1>2, <2>3, <3>1 DEF Retries
    <3>. QED
      BY <3>1, <3>2 DEF Waiting, Still
  <2>. QED
    BY <2>2, <2>3
<1>6. \A c \in Channels : c \in Waiting(t) <=> c \in Waiting(u)
  BY <1>4 DEF Waiting
<1>7. \/ p \notin Waiting(m) /\ t.hub.retry = NoChannel
      \/ p \in Waiting(m) /\ m.chan[p].lockout > 0 /\ t.hub.retry = p
      \/ p \in Waiting(m) /\ m.chan[p].lockout = 0 /\ t.hub.retry = NoChannel
           /\ p \notin Waiting(t)
  <2>1. u.chan[p].state = "BULK" => p \notin Waiting(u)
    BY DEF Waiting
  <2>2. p \in Waiting(t) => p \in Waiting(u)
    BY <1>6 DEF Waiting
  <2>. QED
    BY <1>2, <1>3, <2>1, <2>2 DEF Retries
<1>8. ASSUME NEW c \in Channels
      PROVE  /\ t.chan[c].trip => t.chan[c].state = "JIT_RETRY_WAIT"
             /\ c \in Waiting(t) => /\ c \in Waiting(m)
                                    /\ t.chan[c].trip = m.chan[c].trip
                                    /\ t.chan[c].lockout = m.chan[c].lockout
             /\ c \notin Waiting(t) /\ (c \in Waiting(m) \/ m.chan[c].trip)
                  => c = p /\ t.hub.retry = NoChannel /\ m.chan[c].lockout = 0
  <2>1. c \in Waiting(t) => t.chan[c] = u.chan[c]
    BY <1>4 DEF Waiting
  <2>. QED
    BY <1>3, <1>4, <1>5, <1>6, <2>1
<1>9. Turns(m, t, p)
  BY <1>2, <1>7, <1>8 DEF Turns, Retries
<1>. QED
  BY <1>1, <1>9

\* A powered pass drives a channel that charged into a blind pause no harder
\* than by what the pause has saved, and not at all without its battery.
LEMMA WorksGently ==
  ASSUME PidRise <= StartDuty,
         NEW s \in Chargers, ~s.hub.manual, NEW t, NEW r \in ReadingStates,
         Works(s, t, r), NEW c \in Channels, Level(s.chan[c]),
         t.chan[c].state = "JIT_RETRY_WAIT" => t.chan[c].pwm = 0,
         \/ Active(s.chan[c]) /\ ~s.chan[c].fixed /\ s.chan[c].duty = 0
         \/ s.chan[c].state = "BAT_LOST"
  PROVE  \/ t.chan[c].pwm = 0
         \/ Active(s.chan[c]) /\ t.chan[c].pwm <= Gentle(s.chan[c].saved)
<1>. DEFINE k == s.chan[c]
<1>0. /\ k \in ChannelRecords
      /\ k.saved \in Nat /\ Gentle(k.saved) \in Int /\ 0 <= Gentle(k.saved)
  BY ChargerFields, Limits DEF ChannelRecords, Duties, Gentle, Greater
<1>1. PICK m, u :
        /\ Strikes(s, m) /\ ~m.hub.relayOpen
        /\ IF s.hub.manual THEN u = m ELSE \E p : Retries(m, u, p)
        /\ Drives(u, t, r)
        /\ u \in Chargers
        /\ \A d \in Channels : /\ u.chan[d].state # "FINAL_FAULT"
                               /\ Level(u.chan[d])
  BY DEF Works
<1>2. PICK p : Retries(m, u, p)
  BY <1>1
<1>3. ~m.hub.manual /\ ~u.hub.manual
  BY <1>1, <1>2 DEF Strikes, Retries, HubKept
<1>4. CASE m.chan[c] = k
  <2>1. c \notin Waiting(m)
    BY <1>4 DEF Waiting, Active
  <2>2. u.chan[c] = k
    BY <1>2, <1>4, <2>1 DEF Retries
  <2>3. PICK j : /\ Readied(k, j, u.hub.manual)
                 /\ t.chan[c] = IF j.state = "JIT_RETRY_WAIT" THEN j
                                ELSE Driven(j, c, r, u.hub.manual)
    BY <1>1, <2>2 DEF Drives
  <2>4. k.state \notin {"INPUT_WAIT", "JIT_RETRY_WAIT", "FINAL_FAULT"}
    BY DEF Active
  <2>5. j = k
    BY <1>3, <2>3, <2>4 DEF Readied, InputBack
  <2>6. t.chan[c] = Driven(k, c, r, FALSE)
    BY <1>1, <1>3, <2>2, <2>3, <2>4, <2>5, ChargerFields DEF HubRecords
  <2>7. Level(k) /\ k \in ChannelRecords
    BY <1>0
  <2>. HIDE DEF k
  <2>8. \/ Driven(k, c, r, FALSE).pwm = 0
        \/ Active(k) /\ Driven(k, c, r, FALSE).pwm <= Gentle(k.saved)
    BY <2>4, <2>7, DrivenTrips DEF k
  <2>. QED
    BY <2>6, <2>8 DEF k
<1>5. CASE Parks(k, m.chan[c], s.hub.manual)
  <2>1. m.chan[c].state = "JIT_RETRY_WAIT" /\ m.chan[c].lockout = LockoutTime
    BY <1>5 DEF Parks
  <2>2. u.chan[c].state = "JIT_RETRY_WAIT"
    <3>1. m.chan[c].lockout > 0
      BY <2>1, Limits
    <3>. QED
      BY <1>2, <2>1, <3>1, Limits DEF Retries
  <2>3. t.chan[c].state = "JIT_RETRY_WAIT"
    BY <1>1, <1>3, <2>2, DriveTrips
  <2>. QED
    BY <1>0, <2>3
<1>. QED
  BY <1>1, <1>4, <1>5 DEF Strikes

\* Entering the manual mode, or leaving it, drives nothing.
LEMMA ModeStill ==
  ASSUME NEW s \in Chargers, NEW c \in Channels
  PROVE  LET k == s.chan[c]
             j == ModeSwitched(s).chan[c]
         IN /\ j.open = k.open
            /\ \/ j.duty = k.duty /\ j.pwm = k.pwm
               \/ j.duty = 0 /\ j.pwm = 0
            /\ Level(k) => Level(j)
<1>. DEFINE Quiets(k, j) ==
              /\ j.open = k.open
              /\ \/ j.duty = k.duty /\ j.pwm = k.pwm
                 \/ j.duty = 0 /\ j.pwm = 0
              /\ Level(k) => Level(j)
<1>1. ASSUME NEW u \in Chargers
      PROVE  /\ Quiets(u.chan[c], EnterManualTestMode(u).chan[c])
             /\ Quiets(u.chan[c], ExitManualTestMode(u).chan[c])
  <2>. DEFINE i == u.chan[c]
              k == StopOneChannel(i)
              trip == k.trip /\ i.state # "JIT_RETRY_WAIT"
              state == IF k.state = "FINAL_FAULT" THEN k.state ELSE "OFF"
              on == [i EXCEPT !.saved = 0, !.grace = FALSE]
              off == [k EXCEPT !.trip = trip, !.state = state, !.lockout = 0,
                               !.steady = 0, !.strikes = 0, !.before = 0,
                               !.rearm = FALSE]
  <2>1. EnterManualTestMode(u).chan[c] = on
    BY DEF EnterManualTestMode
  <2>2. ExitManualTestMode(u).chan[c] = off
    BY DEF ExitManualTestMode
  <2>3. i \in ChannelRecords /\ Still(i, k) /\ k.duty = 0 /\ k.pwm = 0
    BY ChargerFields, StepsStill
  <2>4. Quiets(i, on)
    <3>. HIDE DEF i
    <3>1. /\ on.open = i.open /\ on.duty = i.duty /\ on.pwm = i.pwm
          /\ on.state = i.state
      BY <2>3 DEF ChannelRecords
    <3>. QED
      BY <3>1 DEF Level
  <2>5. Quiets(i, off)
    <3>1. k \in ChannelRecords /\ k.open = i.open
      BY <2>3 DEF Still
    <3>. HIDE DEF k, trip, state, i
    <3>2. off.open = k.open /\ off.duty = k.duty /\ off.pwm = k.pwm
      BY <3>1 DEF ChannelRecords
    <3>. QED
      BY <2>3, <3>1, <3>2 DEF Level
  <2>. HIDE DEF Quiets, on, off
  <2>. QED
    BY <2>1, <2>2, <2>4, <2>5
<1>. DEFINE asked == IF s.hub.requested = s.hub.manual THEN s
                     ELSE IF s.hub.requested THEN EnterManualTestMode(s)
                     ELSE ExitManualTestMode(s)
<1>2. Quiets(s.chan[c], s.chan[c])
  OBVIOUS
<1>3. asked \in Chargers
  BY ExitMoves DEF Moves
<1>. HIDE DEF Quiets
<1>4. Quiets(s.chan[c], asked.chan[c])
  BY <1>1, <1>2
<1>. HIDE DEF asked
<1>5. Quiets(asked.chan[c], ExitManualTestMode(asked).chan[c])
  BY <1>1, <1>3
<1>6. Quiets(s.chan[c], ExitManualTestMode(asked).chan[c])
  BY <1>4, <1>5 DEF Quiets
<1>7. Quiets(s.chan[c], ModeSwitched(s).chan[c])
  BY <1>4, <1>6 DEF ModeSwitched, asked
<1>. QED
  BY <1>7 DEF Quiets
-----------------------------------------------------------------------------
(* The trips: where a pass ends.                                           *)

\* A suspended pass: the output goes, and that is all.
Pauses(s, t) ==
  /\ t.hub = s.hub
  /\ \A c \in Channels :
       LET k == s.chan[c]
           j == t.chan[c]
       IN /\ j.trip = k.trip /\ j.open = k.open /\ j.state = k.state
          /\ j.lockout = k.lockout /\ j.saved = k.saved
          /\ j.duty = k.duty /\ j.pwm = 0

\* The pass of a verdict.
Ended(s, t) ==
  /\ StillAll(s, t) /\ Off(t) /\ t.hub.relayOpen
  /\ \A c \in Channels : t.chan[c].trip = s.chan[c].trip
  /\ t.hub.blind =>
       s.hub.blind /\ \A c \in Channels : Saves(s.chan[c], t.chan[c], TRUE)

\* From what has entered the pass, and the mode it is in, to its end.
Forks(e, w, q, t) ==
  \/ hub.suspended > 0 /\ Pauses(e, t)
  \/ hub.suspended = 0 /\ e.hub.locked /\ Ended(e, t)
  \/ /\ hub.suspended = 0 /\ ~e.hub.locked /\ ~t.hub.locked
     /\ \/ Leaves(w, t, q)
        \/ q.valid /\ \E s :
             /\ Reaches(w, s, q)
             /\ \/ t.hub.relayOpen /\ Off(t)
                \/ ~t.hub.relayOpen /\ \E r \in ReadingStates : Works(s, t, r)

LEMMA PassForks ==
  ASSUME ChargerInv, \A c \in Channels : Level(chan[c]),
         NEW r \in Readings, Pass(r)
  PROVE  Forks(Entered(r), ModeSwitched(Entered(r)), r, WholeNext)
<1>. DEFINE e == Entered(r)
            w == ModeSwitched(e)
<1>1. r \in ReadingStates
  BY ChargerAssumption DEF ReadingStates
<1>2. /\ e \in Chargers /\ e.hub.relayOpen = hub.relayOpen
      /\ \A c \in Channels : Like(chan[c], e.chan[c])
      /\ e.hub.suspended = hub.suspended
      /\ \A c \in Channels : Hears(chan[c], e.chan[c])
  BY <1>1, EnteredMoves, EnteredHears DEF ChargerInv
<1>3. \/ PassSuspended(e)
      \/ hub.suspended = 0 /\ PassLocked(e, r)
      \/ hub.suspended = 0 /\ ~e.hub.locked /\ PassUnlocked(w, r)
  BY DEF Pass
<1>4. \A c \in Channels : Level(e.chan[c])
  BY <1>2 DEF Hears, Level
<1>. HIDE DEF e
<1>5. Sound(e)
  BY <1>2, WholeTyped DEF ChargerInv, Sound, Like
<1>6. CASE PassSuspended(e)
  <2>. DEFINE f == [c \in Channels |-> [e.chan[c] EXCEPT !.pwm = 0]]
              t == [e EXCEPT !.chan = f]
  <2>1. Becomes(t) /\ hub.suspended > 0
    BY <1>6 DEF PassSuspended, Each
  <2>2. t.chan = f /\ t.hub = e.hub
    BY <1>2 DEF Chargers
  <2>. HIDE DEF t
  <2>3. chan' = f /\ hub' = e.hub
    BY <2>1, <2>2 DEF Becomes
  <2>4. ASSUME NEW c \in Channels
        PROVE  LET k == e.chan[c]
                   j == chan'[c]
               IN /\ j.trip = k.trip /\ j.open = k.open /\ j.state = k.state
                  /\ j.lockout = k.lockout /\ j.saved = k.saved
                  /\ j.duty = k.duty /\ j.pwm = 0
    <3>1. e.chan[c] \in ChannelRecords
      BY <1>2, ChargerFields
    <3>2. chan'[c] = [e.chan[c] EXCEPT !.pwm = 0]
      BY <2>3
    <3>. QED
      BY <3>1, <3>2 DEF ChannelRecords
  <2>5. Pauses(e, WholeNext)
    BY <2>3, <2>4 DEF Pauses, WholeNext
  <2>. QED
    BY <2>1, <2>5 DEF Forks, e
<1>7. CASE hub.suspended = 0 /\ PassLocked(e, r)
  <2>. DEFINE t == Disconnected(e, r.present)
  <2>1. Becomes(t) /\ e.hub.locked
    BY <1>7 DEF PassLocked
  <2>2. StillAll(e, t) /\ Off(t)
    BY <1>2, ExitsStill
  <2>3. t.hub.relayOpen /\ t.hub.blind = e.hub.blind
    BY <1>2, ChargerFields DEF Disconnected, HubRecords
  <2>4. e.hub.blind => \A c \in Channels : Saves(e.chan[c], t.chan[c], TRUE)
    BY <1>2, DisconnectedSaves
  <2>. HIDE DEF t
  <2>5. WholeNext.chan = t.chan /\ WholeNext.hub = t.hub
    BY <2>1 DEF Becomes, WholeNext
  <2>6. StillAll(e, WholeNext) /\ Off(WholeNext)
    BY <2>2, <2>5 DEF StillAll, Off
  <2>7. \A c \in Channels : WholeNext.chan[c].trip = e.chan[c].trip
    BY <2>6 DEF StillAll, Still
  <2>8. Ended(e, WholeNext)
    BY <2>3, <2>4, <2>5, <2>6, <2>7 DEF Ended
  <2>. QED
    BY <1>7, <2>1, <2>8 DEF Forks, e
<1>8. CASE hub.suspended = 0 /\ ~e.hub.locked /\ PassUnlocked(w, r)
  <2>1. w \in Chargers /\ Sound(w) /\ ~w.hub.locked
    BY <1>2, <1>5, <1>8, ModeMoves, MovesHold
  <2>2. \A c \in Channels : Level(w.chan[c])
    BY <1>2, <1>4, ModeStill
  <2>. HIDE DEF w
  <2>3. ~hub'.locked
    BY <1>1, <1>8, <2>1, UnlockedEnds DEF Becomes
  <2>4. \/ \E t : Becomes(t) /\ Leaves(w, t, r)
        \/ r.valid /\ \E s : \E q \in ReadingStates :
                        Reaches(w, s, r) /\ Becomes(Powered(s, q))
    BY <1>1, <1>8, <2>1, UnlockedForks
  <2>5. CASE \E t : Becomes(t) /\ Leaves(w, t, r)
    <3>1. PICK t : Becomes(t) /\ Leaves(w, t, r)
      BY <2>5
    <3>2. WholeNext.chan = t.chan /\ WholeNext.hub = t.hub
      BY <3>1 DEF Becomes, WholeNext
    <3>3. Leaves(w, WholeNext, r)
      BY <3>1, <3>2 DEF Leaves, StillAll, Off
    <3>. QED
      BY <1>8, <2>3, <3>3 DEF Forks, e, w, WholeNext
  <2>6. ASSUME r.valid, NEW s, NEW q \in ReadingStates,
               Reaches(w, s, r), Becomes(Powered(s, q))
        PROVE  Forks(e, w, r, WholeNext)
    <3>. DEFINE t == Powered(s, q)
    <3>1. s \in Chargers /\ Sound(s) /\ ~s.hub.relayOpen /\ StillAll(w, s)
      BY <2>6 DEF Reaches
    <3>2. \A c \in Channels : Level(s.chan[c])
      BY <2>2, <3>1 DEF StillAll, Still, Level
    <3>3. \/ t.hub.relayOpen /\ Off(t)
          \/ ~t.hub.relayOpen /\ Works(s, t, q)
      BY <3>1, <3>2, PoweredWorks
    <3>4. Becomes(t)
      BY <2>6
    <3>. HIDE DEF t
    <3>5. WholeNext.chan = t.chan /\ WholeNext.hub = t.hub
      BY <3>4 DEF Becomes, WholeNext
    <3>6. ASSUME Works(s, t, q) PROVE WholeNext = t
      <4>1. t \in Chargers
        BY <3>1, <3>6, WorksOpen
      <4>. QED
        BY <3>4, <4>1, BecomesNext
    <3>7. \/ WholeNext.hub.relayOpen /\ Off(WholeNext)
          \/ ~WholeNext.hub.relayOpen /\ Works(s, WholeNext, q)
      BY <3>3, <3>5, <3>6 DEF Off
    <3>8. ~WholeNext.hub.locked
      BY <2>3 DEF WholeNext
    <3>. QED
      BY <1>8, <2>6, <3>7, <3>8 DEF Forks
  <2>. QED
    BY <2>4, <2>5, <2>6 DEF e, w
<1>. QED
  BY <1>3, <1>6, <1>7, <1>8
-----------------------------------------------------------------------------
(* The trips: between two passes.                                          *)

\* A channel between two passes: kept, or restarted.
Remains(k, j) ==
  /\ j.trip = k.trip /\ j.open = k.open
  /\ j.condemned => k.condemned
  /\ \/ j.state = k.state /\ j.lockout = k.lockout /\ j.saved = k.saved
          /\ j.duty = k.duty /\ j.pwm = k.pwm
     \/ j.state = "OFF" /\ j.duty = 0 /\ j.pwm = 0

\* Who waited goes on waiting, or nobody does but the condemned.
WaitsOn ==
  \/ \A c \in Channels : /\ chan'[c].state = chan[c].state
                         /\ chan'[c].lockout = chan[c].lockout
  \/ \A c \in Channels :
       chan'[c].state = "JIT_RETRY_WAIT" => chan'[c].condemned

LEMMA RestartRemains ==
  ASSUME NEW k \in ChannelRecords, NEW j,
         \/ j = [k EXCEPT !.rest = 0, !.hot = 0]
         \/ j = [k EXCEPT !.condemned = FALSE, !.charged = 0,
                   !.charging = FALSE, !.gap = GapTime, !.rest = 0, !.hot = 0]
  PROVE  /\ j.state = k.state /\ Remains(k, j)
         /\ Remains(k, StartOver(j)) /\ StartOver(j).state = "OFF"
<1>1. j \in ChannelRecords
  <2>1. [k EXCEPT !.rest = 0, !.hot = 0] \in ChannelRecords
    BY Constants DEF ChannelRecords
  <2>2. [k EXCEPT !.condemned = FALSE, !.charged = 0, !.charging = FALSE,
           !.gap = GapTime, !.rest = 0, !.hot = 0] \in ChannelRecords
    BY Constants, ZenonT(60) DEF ChannelRecords
  <2>. QED
    BY <2>1, <2>2
<1>2. /\ j.trip = k.trip /\ j.open = k.open /\ (j.condemned => k.condemned)
      /\ j.state = k.state /\ j.lockout = k.lockout /\ j.saved = k.saved
      /\ j.duty = k.duty /\ j.pwm = k.pwm
  BY DEF ChannelRecords
<1>. DEFINE t == StartOver(j)
<1>3. t.duty = 0 /\ t.pwm = 0 /\ t.state = "OFF"
  BY <1>1, StartOverOff
<1>4. ASSUME NEW f \in Slow PROVE As(f, j, t)
  <2>1. f \in DOMAIN j
    BY <1>1, <1>4 DEF Slow, ChannelRecords
  <2>. QED
    BY <2>1, SlowSame
<1>. HIDE DEF t
<1>5. t.trip = j.trip /\ t.open = j.open /\ t.condemned = j.condemned
  BY <1>4 DEF As, Slow
<1>. QED
  BY <1>2, <1>3, <1>5 DEF Remains, t

LEMMA PanelRemains ==
  ASSUME TypeOK, TypeOK', Panel \/ Suspend \/ Resume \/ \E c \in Channels : Edge(c)
  PROVE  /\ WaitsOn /\ \A c \in Channels : Remains(chan[c], chan'[c])
         /\ hub'.manual = hub.manual /\ hub'.retry = hub.retry
         /\ hub'.blind = hub.blind /\ hub'.relayOpen = hub.relayOpen
         /\ hub'.locked = hub.locked
         /\ "manual" \notin Requests => hub'.requested = hub.requested
<1>1. /\ chan \in [Channels -> ChannelRecords] /\ hub \in HubRecords
      /\ \A c \in Channels : chan[c] \in ChannelRecords
                             /\ chan'[c] \in ChannelRecords
  BY DEF TypeOK
<1>2. ASSUME NEW k \in ChannelRecords PROVE Remains(k, k)
  BY DEF Remains
<1>. DEFINE Alike(k, j) == Remains(k, j) /\ j.state = k.state
                           /\ j.lockout = k.lockout
            Goal == WaitsOn /\ \A c \in Channels : Remains(chan[c], chan'[c])
<1>3. ASSUME chan' = chan PROVE Goal
  BY <1>1, <1>2, <1>3 DEF WaitsOn
<1>4. ASSUME NEW d \in Channels, NEW j, chan' = [chan EXCEPT ![d] = j],
             Alike(chan[d], j)
      PROVE  Goal
  BY <1>1, <1>2, <1>4 DEF WaitsOn
<1>5. ASSUME NEW d \in Channels, NEW bit \in BOOLEAN
      PROVE  /\ Alike(chan[d], [chan[d] EXCEPT !.enabled = bit])
             /\ Alike(chan[d], [chan[d] EXCEPT !.fixed = bit])
             /\ Alike(chan[d], [chan[d] EXCEPT !.edge = bit])
  BY <1>1 DEF Remains, ChannelRecords
<1>6. ASSUME NEW d \in Channels, Edge(d) PROVE Goal
  <2>1. chan' = [chan EXCEPT ![d] = [chan[d] EXCEPT !.edge = TRUE]]
    BY <1>1, <1>6 DEF Edge
  <2>2. Alike(chan[d], [chan[d] EXCEPT !.edge = TRUE])
    BY <1>5
  <2>. HIDE DEF Goal, Alike
  <2>. QED
    BY <1>4, <2>1, <2>2
<1>7. ASSUME NEW d \in Channels, NEW on \in BOOLEAN,
             SetEnable(d, on) \/ SetDutyFixedEnable(d, on)
      PROVE  Goal
  <2>1. \/ chan' = [chan EXCEPT ![d] = [chan[d] EXCEPT !.enabled = on]]
        \/ chan' = [chan EXCEPT ![d] = [chan[d] EXCEPT !.fixed = on]]
    BY <1>1, <1>7 DEF SetEnable, SetDutyFixedEnable
  <2>. HIDE DEF Goal, Alike
  <2>. QED
    BY <1>4, <1>5, <2>1
<1>8. ASSUME NEW d \in Channels, NEW duty \in Duties, SetDutyFixed(d, duty)
      PROVE  Goal
  <2>. DEFINE rearm == chan[d].rearm \/ hub.manual
              j == [chan[d] EXCEPT !.command = duty, !.rearm = rearm]
  <2>1. chan' = [chan EXCEPT ![d] = j]
    BY <1>1, <1>8 DEF SetDutyFixed
  <2>. HIDE DEF rearm
  <2>2. /\ j.trip = chan[d].trip /\ j.open = chan[d].open
        /\ j.condemned = chan[d].condemned /\ j.state = chan[d].state
        /\ j.lockout = chan[d].lockout /\ j.saved = chan[d].saved
        /\ j.duty = chan[d].duty /\ j.pwm = chan[d].pwm
    BY <1>1 DEF ChannelRecords
  <2>. HIDE DEF j
  <2>3. Alike(chan[d], j)
    BY <2>2 DEF Remains
  <2>. HIDE DEF Goal, Alike
  <2>. QED
    BY <1>4, <2>1, <2>3
<1>9. ASSUME RestartCycle \/ Clears PROVE Goal
  <2>1. ASSUME NEW c \in Channels
        PROVE  /\ Remains(chan[c], chan'[c])
               /\ chan'[c].state = "JIT_RETRY_WAIT" => chan'[c].condemned
    <3>. DEFINE k == chan[c]
                cool == [k EXCEPT !.rest = 0, !.hot = 0]
                fresh == [k EXCEPT !.condemned = FALSE, !.charged = 0,
                            !.charging = FALSE, !.gap = GapTime, !.rest = 0,
                            !.hot = 0]
    <3>1. \/ /\ chan'[c] = cool
             /\ cool.condemned \/ cool.state \in NotRestarted
          \/ chan'[c] = StartOver(cool)
          \/ chan'[c] = fresh /\ fresh.state \in NotRestarted
          \/ chan'[c] = StartOver(fresh)
          \/ chan'[c] = k /\ k.condemned
      <4>1. CASE RestartCycle
        BY <4>1 DEF RestartCycle
      <4>2. CASE Clears
        <5>1. PICK S \in SUBSET Channels : ClearDead(S)
          BY <4>2 DEF Clears
        <5>2. CASE c \in S
          BY <5>1, <5>2 DEF ClearDead
        <5>3. CASE c \notin S
          BY <5>1, <5>3 DEF ClearDead
        <5>. QED
          BY <5>2, <5>3
      <4>. QED
        BY <1>9, <4>1, <4>2
    <3>2. k \in ChannelRecords
      BY <1>1
    <3>3. /\ Remains(k, k)
          /\ Remains(k, cool) /\ Remains(k, StartOver(cool))
          /\ Remains(k, fresh) /\ Remains(k, StartOver(fresh))
          /\ StartOver(cool).state = "OFF" /\ StartOver(fresh).state = "OFF"
      BY <1>2, <3>2, RestartRemains
    <3>. HIDE DEF cool, fresh
    <3>. QED
      BY <3>1, <3>3 DEF NotRestarted, k
  <2>. QED
    BY <2>1 DEF WaitsOn
<1>10. Goal
  <2>. HIDE DEF Goal
  <2>. QED
    BY <1>3, <1>6, <1>7, <1>8, <1>9
       DEF Panel, Clears, Frame, SetManualTestMode, Suspend, Resume
<1>. DEFINE Kept(h) ==
       /\ h.manual = hub.manual /\ h.retry = hub.retry
       /\ h.blind = hub.blind /\ h.relayOpen = hub.relayOpen
       /\ h.locked = hub.locked
       /\ "manual" \notin Requests => h.requested = hub.requested
<1>11. Kept(hub) /\ Kept(Heard)
  BY <1>1 DEF Heard, HubRecords
<1>12. ASSUME Suspend \/ Resume PROVE Kept(hub')
  BY <1>1, <1>12 DEF Suspend, Resume, HubRecords
<1>13. ASSUME NEW on \in BOOLEAN, SetManualTestMode(on) PROVE Kept(hub')
  <2>1. hub' = [Heard EXCEPT !.requested = on] /\ "manual" \in Requests
    BY <1>13 DEF SetManualTestMode
  <2>. QED
    BY <1>1, <2>1 DEF Heard, HubRecords
<1>14. Kept(hub')
  <2>1. ASSUME Panel PROVE Kept(hub')
    <3>. HIDE DEF Kept
    <3>. QED
      <4>1. ASSUME Clears PROVE Kept(hub')
        BY <1>11, <4>1 DEF Clears, ClearDead
      <4>. QED
        BY <1>11, <1>13, <2>1, <4>1
           DEF Panel, Frame, RestartCycle, Clears,
               SetEnable, SetDutyFixedEnable, SetDutyFixed
  <2>2. ASSUME NEW c \in Channels, Edge(c) PROVE Kept(hub')
    BY <1>11, <2>2 DEF Edge
  <2>. QED
    BY <1>12, <2>1, <2>2
<1>. QED
  BY <1>10, <1>14

\* Every reachable state once more: a channel that waits for its retry or its
\* battery is off, and the output is the mirrored duty, or cut.
TripInv ==
  /\ CondemnedInv
  /\ \A c \in Channels :
       Level(chan[c]) /\ chan[c].pwm \in {0, chan[c].duty}

LEMMA TripStarts ==
  ASSUME Init
  PROVE  /\ TripInv
         /\ hub = [relayOpen |-> FALSE, coil |-> FALSE, locked |-> FALSE,
                   blind |-> FALSE, retry |-> NoChannel, suspended |-> 0,
                   requested |-> FALSE, manual |-> FALSE, silence |-> 0]
         /\ \A c \in Channels :
              /\ chan[c].state = "OFF" /\ ~chan[c].trip /\ chan[c].open = 0
              /\ chan[c].duty = 0 /\ chan[c].pwm = 0
<1>1. CondemnedInv
  BY CondemnedStarts
<1>2. ASSUME NEW c \in Channels
      PROVE  /\ chan[c].state = "OFF" /\ ~chan[c].trip /\ chan[c].open = 0
             /\ chan[c].duty = 0 /\ chan[c].pwm = 0
  <2>1. PICK dead \in [Channels -> BOOLEAN], on \in [Channels -> BOOLEAN] :
          chan = [d \in Channels |-> [Idle EXCEPT !.condemned = dead[d],
                                                 !.enabled = on[d]]]
    BY DEF Init
  <2>2. ASSUME NEW bit, NEW tib
        PROVE  LET k == [Idle EXCEPT !.condemned = bit, !.enabled = tib]
               IN /\ k.state = "OFF" /\ ~k.trip /\ k.open = 0
                  /\ k.duty = 0 /\ k.pwm = 0
    BY DEF Idle
  <2>. QED
    BY <2>1, <2>2
<1>. QED
  BY <1>1, <1>2 DEF TripInv, Level, Init

LEMMA PassLevels ==
  ASSUME TripInv, NEW r \in Readings, Pass(r), NEW c \in Channels
  PROVE  Level(chan'[c]) /\ chan'[c].pwm \in {0, chan'[c].duty}
<1>. DEFINE e == Entered(r)
            w == ModeSwitched(e)
<1>1. ChargerInv /\ r \in ReadingStates
      /\ \A d \in Channels : Hears(chan[d], e.chan[d])
  BY ChargerAssumption, EnteredHears
     DEF TripInv, CondemnedInv, ChargerInv, ReadingStates
<1>2. Forks(e, w, r, WholeNext)
  BY <1>1, PassForks DEF TripInv
<1>3. Hushed(chan'[c])
  BY PassSettles DEF TripInv, CondemnedInv, Calm, WholeNext
<1>4. chan'[c] = WholeNext.chan[c]
  BY DEF WholeNext
<1>. HIDE DEF e, w
<1>5. CASE Pauses(e, WholeNext)
  <2>1. Level(chan[c])
    BY DEF TripInv
  <2>. QED
    BY <1>1, <1>4, <1>5, <2>1 DEF Pauses, Hears, Level
<1>6. CASE Off(WholeNext)
  BY <1>4, <1>6 DEF Off, Level
<1>7. ASSUME NEW s \in Chargers, NEW q \in ReadingStates,
             Works(s, WholeNext, q)
      PROVE  Level(chan'[c]) /\ chan'[c].pwm \in {0, chan'[c].duty}
  <2>1. chan'[c].pwm = chan'[c].duty
    BY <1>4, <1>7, WorksOpen
  <2>. QED
    BY <1>3, <2>1 DEF Level, Hushed
<1>. QED
  BY <1>2, <1>5, <1>6, <1>7 DEF Forks, Ended, Leaves, Reaches

LEMMA TripHeld == TripInv /\ [Next]_vars => TripInv'
<1>. SUFFICES ASSUME TripInv, [Next]_vars PROVE TripInv'
  OBVIOUS
<1>1. CondemnedInv'
  BY CondemnedHolds DEF TripInv
<1>2. CASE UNCHANGED vars
  BY <1>1, <1>2 DEF TripInv, vars
<1>3. ASSUME NEW r \in Readings, Pass(r) PROVE TripInv'
  BY <1>1, <1>3, PassLevels DEF TripInv
<1>4. CASE Panel \/ Suspend \/ Resume \/ \E c \in Channels : Edge(c)
  <2>1. TypeOK /\ TypeOK'
    BY <1>1 DEF TripInv, CondemnedInv, ChargerInv
  <2>2. \A c \in Channels : Remains(chan[c], chan'[c])
    BY <1>4, <2>1, PanelRemains
  <2>3. \A c \in Channels :
          Level(chan'[c]) /\ chan'[c].pwm \in {0, chan'[c].duty}
    BY <2>2 DEF TripInv, Remains, Level
  <2>. QED
    BY <1>1, <2>3 DEF TripInv
<1>. QED
  BY <1>2, <1>3, <1>4 DEF Next

\* The passes and the steps in between of the trips' runs.
LEMMA TripIsNext ==
  ASSUME [MCNext]_mcvars
  PROVE  /\ [Next]_vars
         /\ \/ \E r \in Readings : MCPass(r) /\ Pass(r)
            \/ UNCHANGED vars
            \/ Panel \/ Suspend \/ Resume \/ \E c \in Channels : Edge(c)
  BY DEF MCNext, MCPass, MCEdge, mcvars, Next

\* A step of the trips' runs that is no pass: the watch stands still, and a
\* wait that ends is counted no more.
Stands ==
  /\ since' = since /\ lit' = lit /\ paused' = paused
  /\ \A c \in Channels :
       \/ waited'[c] = 0
       \/ /\ waited'[c] = waited[c]
          /\ chan[c].state = "JIT_RETRY_WAIT"
               => chan'[c].state = "JIT_RETRY_WAIT"

LEMMA TripBetween ==
  ASSUME TripInv, TripInv', [MCNext]_mcvars, ~\E r \in Readings : MCPass(r)
  PROVE  /\ Stands
         /\ WaitsOn /\ \A c \in Channels : Remains(chan[c], chan'[c])
         /\ hub'.manual = hub.manual /\ hub'.retry = hub.retry
         /\ hub'.blind = hub.blind /\ hub'.relayOpen = hub.relayOpen
         /\ hub'.locked = hub.locked
         /\ "manual" \notin Requests => hub'.requested = hub.requested
<1>0. TypeOK /\ TypeOK'
  BY DEF TripInv, CondemnedInv, ChargerInv
<1>1. CASE UNCHANGED mcvars
  <2>1. chan' = chan /\ hub' = hub /\ Stands
    BY <1>1 DEF mcvars, vars, Stands
  <2>2. WaitsOn /\ \A c \in Channels : Remains(chan[c], chan'[c])
    BY <2>1 DEF WaitsOn, Remains
  <2>. QED
    BY <2>1, <2>2
<1>2. ASSUME NEW d \in Channels, MCEdge(d) PROVE Edge(d) /\ Stands
  <2>1. /\ Edge(d) /\ waited' = waited
        /\ since' = since /\ lit' = lit /\ paused' = paused
    BY <1>2 DEF MCEdge
  <2>2. ASSUME NEW c \in Channels PROVE chan'[c].state = chan[c].state
    <3>1. chan[c] \in ChannelRecords /\ chan \in [Channels -> ChannelRecords]
      BY <1>0 DEF TypeOK
    <3>2. chan' = [chan EXCEPT ![d] = [chan[d] EXCEPT !.edge = TRUE]]
      BY <2>1, <3>1 DEF Edge
    <3>. QED
      BY <3>1, <3>2 DEF ChannelRecords
  <2>. QED
    BY <2>1, <2>2 DEF Stands
<1>3. ASSUME MCNext, ~\E c \in Channels : MCEdge(c)
      PROVE  (Suspend \/ Resume \/ Panel) /\ Stands
  BY <1>3 DEF MCNext, Stands
<1>4. UNCHANGED mcvars
      \/ ((Panel \/ Suspend \/ Resume \/ \E c \in Channels : Edge(c)) /\ Stands)
  BY <1>2, <1>3
<1>. QED
  BY <1>0, <1>1, <1>4, PanelRemains

LEMMA PlainMode ==
  ASSUME NEW s \in Chargers, ~s.hub.manual, ~s.hub.requested
  PROVE  ModeSwitched(s) = s
<1>1. s.hub.manual = s.hub.requested
  BY ChargerFields DEF HubRecords
<1>. QED
  BY <1>1 DEF ModeSwitched

\* What a pass of the trips' runs begins with, the manual mode aside.
LEMMA TripPass ==
  ASSUME TripInv, NEW r \in Readings, Pass(r)
  PROVE  LET e == Entered(r)
         IN /\ r \in ReadingStates /\ e \in Chargers
            /\ \A c \in Channels : Hears(chan[c], e.chan[c])
            /\ e.hub.manual = hub.manual /\ e.hub.requested = hub.requested
            /\ e.hub.retry = hub.retry /\ e.hub.blind = hub.blind
            /\ e.hub.relayOpen = hub.relayOpen
            /\ Forks(e, ModeSwitched(e), r, WholeNext)
            /\ ~hub.manual /\ ~hub.requested => ModeSwitched(e) = e
  BY ChargerAssumption, EnteredHears, EnteredMoves, PassForks, PlainMode
     DEF TripInv, CondemnedInv, ChargerInv, ReadingStates

\* Of a channel of the trips' runs, z passes after its comparator was first
\* heard: a wait still has what is missing of the lockout, and until the lockout
\* is over the latch stays.
Owes(k, z) ==
  /\ k.state = "JIT_RETRY_WAIT" => k.trip /\ k.lockout + z >= LockoutTime
  /\ z < LockoutTime => k.trip

LEMMA StillOwes ==
  ASSUME NEW s, NEW t, StillAll(s, t), NEW c \in Channels, NEW z,
         Owes(s.chan[c], z)
  PROVE  Owes(t.chan[c], z)
  BY DEF StillAll, Still, Owes

LEMMA WorksOwes ==
  ASSUME NEW s \in Chargers, ~s.hub.manual, NEW t, NEW r \in ReadingStates,
         Works(s, t, r), NEW c \in Channels, NEW z \in Nat, Owes(s.chan[c], z)
  PROVE  /\ Owes(t.chan[c], z)
         /\ t.chan[c].trip => t.chan[c].state = "JIT_RETRY_WAIT"
<1>1. PICK m, p : Strikes(s, m) /\ Turns(m, t, p)
  BY WorksTurn
<1>2. /\ Owes(m.chan[c], z)
      /\ m.chan[c].trip => m.chan[c].state = "JIT_RETRY_WAIT"
  BY <1>1, Limits DEF Strikes, Parks, Owes
<1>3. /\ t.chan[c].trip => t.chan[c].state = "JIT_RETRY_WAIT"
      /\ c \in Waiting(t) => /\ c \in Waiting(m)
                             /\ t.chan[c].trip = m.chan[c].trip
                             /\ t.chan[c].lockout = m.chan[c].lockout
      /\ c \notin Waiting(t) /\ m.chan[c].trip => m.chan[c].lockout = 0
  BY <1>1 DEF Turns
<1>4. CASE c \in Waiting(t)
  BY <1>2, <1>3, <1>4 DEF Waiting, Owes
<1>5. CASE c \notin Waiting(t)
  <2>1. t.chan[c].state # "JIT_RETRY_WAIT"
    BY <1>5 DEF Waiting
  <2>2. z >= LockoutTime
    <3>1. CASE m.chan[c].trip
      BY <1>2, <1>3, <1>5, <3>1 DEF Owes
    <3>2. CASE ~m.chan[c].trip
      BY <1>2, <3>2, Limits DEF Owes
    <3>. QED
      BY <3>1, <3>2
  <2>. QED
    BY <1>3, <2>1, <2>2, Limits DEF Owes
<1>. QED
  BY <1>3, <1>4, <1>5

\* Every reachable state of the trips' runs without the manual mode: behind a
\* closed relay a latch is a silent channel, and the lockout runs out with the
\* time since the comparator was heard.
ParkedInv ==
  /\ TripInv
  /\ since \in [Channels -> 0 .. LockoutTime]
  /\ \/ hub.relayOpen
     \/ /\ ~hub.manual /\ ~hub.requested
        /\ \A c \in Channels : /\ Owes(chan[c], since[c])
                               /\ chan[c].trip => chan[c].pwm = 0

LEMMA ParkedStarts == MCInit => ParkedInv
<1>. SUFFICES ASSUME MCInit PROVE ParkedInv
  OBVIOUS
<1>1. /\ TripInv /\ ~hub.manual /\ ~hub.requested
      /\ \A c \in Channels : chan[c].state = "OFF" /\ ~chan[c].trip
  BY TripStarts DEF MCInit
<1>2. since = [c \in Channels |-> LockoutTime]
  BY DEF MCInit
<1>. QED
  BY <1>1, <1>2, Limits DEF ParkedInv, Owes

LEMMA PassParks ==
  ASSUME ParkedInv, TripInv', NEW r \in Readings, MCPass(r)
  PROVE  ParkedInv'
<1>. DEFINE e == Entered(r)
<1>1. /\ TripInv /\ Pass(r)
      /\ since' = [c \in Channels |->
                     IF chan[c].edge /\ ~chan[c].trip THEN 0
                     ELSE Lesser(since[c] + 1, LockoutTime)]
  BY DEF ParkedInv, MCPass
<1>2. since' \in [Channels -> 0 .. LockoutTime]
  BY <1>1, Limits DEF ParkedInv, Lesser
<1>3. CASE hub'.relayOpen
  BY <1>2, <1>3 DEF ParkedInv
<1>4. CASE ~hub'.relayOpen
  <2>1. ~hub.relayOpen
    <3>1. ChargerInv /\ [Next]_vars
      BY <1>1 DEF TripInv, CondemnedInv, Next
    <3>2. Holds(Whole, WholeNext)
      BY <3>1, StepHolds
    <3>. QED
      BY <1>4, <3>2 DEF Holds, Whole, WholeNext
  <2>2. /\ r \in ReadingStates /\ e \in Chargers
        /\ \A c \in Channels : Hears(chan[c], e.chan[c])
        /\ e.hub.manual = hub.manual /\ e.hub.requested = hub.requested
        /\ Forks(e, ModeSwitched(e), r, WholeNext)
        /\ ~hub.manual /\ ~hub.requested => ModeSwitched(e) = e
    BY <1>1, TripPass
  <2>. HIDE DEF e
  <2>3. /\ ~hub.manual /\ ~hub.requested
        /\ \A c \in Channels : Owes(chan[c], since[c])
    BY <2>1 DEF ParkedInv
  <2>4. ASSUME NEW c \in Channels PROVE Owes(e.chan[c], since'[c])
    <3>. DEFINE k == chan[c]
                j == e.chan[c]
    <3>1. /\ since[c] \in 0 .. LockoutTime /\ k.lockout \in 0 .. LockoutTime
          /\ k.trip \in BOOLEAN /\ k.edge \in BOOLEAN
      BY DEF ParkedInv, TripInv, CondemnedInv, ChargerInv, TypeOK, ChannelRecords
    <3>2. /\ j.trip = (k.trip \/ k.edge) /\ j.state = k.state
          /\ j.lockout = Sooner(k.lockout)
      BY <2>2 DEF Hears
    <3>3. Owes(k, since[c])
      BY <2>3
    <3>4. since'[c] = IF k.edge /\ ~k.trip THEN 0
                      ELSE Lesser(since[c] + 1, LockoutTime)
      BY <1>1
    <3>. HIDE DEF k, j
    <3>. QED
      BY <3>1, <3>2, <3>3, <3>4, Limits DEF Owes, Sooner, Greater, Lesser, k, j
  <2>5. ASSUME \A c \in Channels : /\ Owes(chan'[c], since'[c])
                                   /\ chan'[c].trip => chan'[c].pwm = 0,
               ~hub'.manual, ~hub'.requested
        PROVE  ParkedInv'
    BY <1>2, <2>5 DEF ParkedInv
  <2>6. WholeNext.chan = chan' /\ WholeNext.hub = hub'
    BY DEF WholeNext
  <2>7. CASE Pauses(e, WholeNext)
    <3>1. ~hub'.manual /\ ~hub'.requested
      BY <2>2, <2>3, <2>6, <2>7 DEF Pauses
    <3>2. \A c \in Channels : Owes(chan'[c], since'[c]) /\ chan'[c].pwm = 0
      BY <2>4, <2>6, <2>7 DEF Pauses, Owes
    <3>. QED
      BY <2>5, <3>1, <3>2
  <2>8. CASE StillAll(e, WholeNext) /\ Off(WholeNext)
    <3>1. ~hub'.manual /\ ~hub'.requested
      BY <2>2, <2>3, <2>6, <2>8 DEF StillAll
    <3>2. \A c \in Channels : Owes(chan'[c], since'[c]) /\ chan'[c].pwm = 0
      BY <2>4, <2>6, <2>8, StillOwes DEF Off
    <3>. QED
      BY <2>5, <3>1, <3>2
  <2>9. ASSUME NEW s, Reaches(e, s, r), NEW q \in ReadingStates,
               Works(s, WholeNext, q)
        PROVE  ParkedInv'
    <3>1. s \in Chargers /\ StillAll(e, s)
      BY <2>9 DEF Reaches
    <3>2. ~s.hub.manual /\ ~s.hub.requested
      BY <2>2, <2>3, <3>1 DEF StillAll
    <3>3. ~hub'.manual /\ ~hub'.requested
      BY <2>6, <2>9, <3>1, <3>2, WorksOpen
    <3>4. ASSUME NEW c \in Channels
          PROVE  /\ Owes(chan'[c], since'[c])
                 /\ chan'[c].trip => chan'[c].pwm = 0
      <4>1. Owes(s.chan[c], since'[c]) /\ since'[c] \in Nat
        BY <1>2, <2>4, <3>1, StillOwes, Limits
      <4>2. /\ Owes(chan'[c], since'[c])
            /\ chan'[c].trip => chan'[c].state = "JIT_RETRY_WAIT"
        BY <2>6, <2>9, <3>1, <3>2, <4>1, WorksOwes
      <4>3. Level(chan'[c])
        BY DEF TripInv
      <4>. QED
        BY <4>2, <4>3 DEF Level
    <3>. QED
      BY <2>5, <3>3, <3>4
  <2>. QED
    BY <1>4, <2>2, <2>3, <2>6, <2>7, <2>8, <2>9 DEF Forks, Ended, Leaves
<1>. QED
  BY <1>3, <1>4

LEMMA ParkedHolds ==
  ASSUME "manual" \notin Requests
  PROVE  ParkedInv /\ [MCNext]_mcvars => ParkedInv'
<1>. SUFFICES ASSUME ParkedInv, [MCNext]_mcvars PROVE ParkedInv'
  OBVIOUS
<1>1. TripInv'
  BY TripIsNext, TripHeld DEF ParkedInv
<1>2. ASSUME NEW r \in Readings, MCPass(r) PROVE ParkedInv'
  BY <1>1, <1>2, PassParks
<1>3. CASE ~\E r \in Readings : MCPass(r)
  <2>1. /\ since' = since
        /\ \A c \in Channels : Remains(chan[c], chan'[c])
        /\ hub'.manual = hub.manual /\ hub'.relayOpen = hub.relayOpen
        /\ hub'.requested = hub.requested
    BY <1>1, <1>3, TripBetween DEF Stands, ParkedInv
  <2>. QED
    BY <1>1, <2>1 DEF ParkedInv, Remains, Owes
<1>. QED
  BY <1>2, <1>3

(* Charger_HandleJitTrip, for every length of the lockout, every reading   *)
(* and every order of edges, flash writes, restarts and commands short of  *)
(* the manual mode: a channel whose comparator fired is not driven before  *)
(* its lockout is over.                                                    *)
THEOREM TripsAreParked ==
  ASSUME "manual" \notin Requests PROVE MCSpec => []ParkedUntilLockout
<1>1. ParkedInv => ParkedUntilLockout
  <2>. SUFFICES ASSUME ParkedInv, NEW c \in Channels, chan[c].pwm > 0
                PROVE  since[c] >= LockoutTime
    BY DEF ParkedUntilLockout
  <2>1. ~hub.relayOpen
    BY Constants DEF ParkedInv, TripInv, CondemnedInv, ChargerInv, Silenced, Whole
  <2>. QED
    BY <2>1, Limits DEF ParkedInv, Owes
<1>. QED
  BY <1>1, ParkedStarts, ParkedHolds, PTL DEF MCSpec

\* A stage above the duty that must draw has been unseen no longer than flash
\* writes may last, or draws by now.
Drawn(k, n) ==
  k.duty > OpenDuty => k.open <= n \/ (k.pwm > 0 /\ n = MaxPause)

\* Every reachable state of the trips' runs, the manual mode included.
OpenInv ==
  /\ TripInv
  /\ paused \in 0 .. MaxPause
  /\ hub.locked => hub.relayOpen /\ \E c \in Channels : chan[c].trip
  /\ hub.relayOpen => \A c \in Channels : chan[c].duty = 0
  /\ \A c \in Channels : Drawn(chan[c], paused)

LEMMA OpenStarts == MaxPause \in Nat /\ MCInit => OpenInv
<1>. SUFFICES ASSUME MaxPause \in Nat, MCInit PROVE OpenInv
  OBVIOUS
<1>1. /\ TripInv /\ ~hub.locked
      /\ \A c \in Channels : chan[c].duty = 0
  BY TripStarts DEF MCInit
<1>2. paused = 0
  BY DEF MCInit
<1>. QED
  BY <1>1, <1>2, Limits DEF OpenInv, Drawn

\* What is on the open transistor's clock when a pass has heard the comparators.
LEMMA EnteredDrawn ==
  ASSUME MaxPause \in Nat, MaxPause < OpenTime, OpenInv,
         NEW r \in Readings, MCPass(r)
  PROVE  LET e == Entered(r)
         IN /\ paused' \in 0 .. MaxPause
            /\ e.hub.locked => hub.relayOpen /\ \E c \in Channels : e.chan[c].trip
            /\ hub.relayOpen => \A c \in Channels : e.chan[c].duty = 0
            /\ \A c \in Channels :
                 /\ hub.suspended > 0 /\ e.chan[c].duty > OpenDuty
                      => e.chan[c].open <= paused'
                 /\ r.valid /\ ~e.hub.locked
                      => e.chan[c].open <= paused' \/ paused' = MaxPause
<1>. DEFINE e == Entered(r)
<1>1. /\ TypeOK /\ r \in ReadingStates /\ Plausible(r)
      /\ hub.suspended > 0 => paused < MaxPause
      /\ paused' = IF Drawing(r) THEN 0 ELSE Lesser(paused + 1, MaxPause)
  BY ChargerAssumption
     DEF OpenInv, TripInv, CondemnedInv, ChargerInv, MCPass, ReadingStates
<1>2. /\ \A c \in Channels :
           /\ Hears(chan[c], e.chan[c])
           /\ r.valid /\ ~hub.locked => Timed(chan[c], e.chan[c], c, r)
           /\ e.chan[c].open <= chan[c].open + 1
      /\ e.hub.locked =>
           \/ hub.locked
           \/ r.valid /\ hub.relayOpen /\ \E c \in Channels : e.chan[c].trip
           \/ r.valid /\ \E c \in Channels : e.chan[c].open > OpenTime
  BY <1>1, EnteredHears
<1>3. \A c \in Channels :
        /\ chan[c].open \in Nat /\ chan[c].duty \in Nat
        /\ e.chan[c].open \in Nat
  BY <1>1, <1>2, Limits DEF TypeOK, ChannelRecords, Duties, Hears
<1>4. hub.locked => e.hub.locked
  BY <1>1, EnteredMoves
<1>. HIDE DEF e
<1>5. paused \in 0 .. MaxPause /\ paused' \in 0 .. MaxPause
  BY <1>1 DEF OpenInv, Lesser
<1>6. hub.relayOpen => \A c \in Channels : e.chan[c].duty = 0
  BY <1>2 DEF OpenInv, Hears
<1>7. ASSUME NEW c \in Channels, chan[c].duty > OpenDuty, r.amps[c] = "zero"
      PROVE  chan[c].open <= paused /\ ~Drawing(r)
  <2>1. chan[c].pwm = 0
    BY <1>1, <1>7 DEF Plausible
  <2>2. Drawn(chan[c], paused)
    BY DEF OpenInv
  <2>. QED
    BY <1>7, <2>1, <2>2 DEF Drawn, Drawing
<1>8. ASSUME NEW c \in Channels, r.valid, ~hub.locked
      PROVE  \/ e.chan[c].open = 0
             \/ e.chan[c].open <= paused + 1 /\ ~Drawing(r)
  BY <1>2, <1>3, <1>5, <1>7, <1>8 DEF Timed
<1>9. e.hub.locked => hub.relayOpen /\ \E c \in Channels : e.chan[c].trip
  <2>1. CASE hub.locked
    <3>1. hub.relayOpen /\ \E c \in Channels : chan[c].trip
      BY <2>1 DEF OpenInv
    <3>. QED
      BY <1>2, <3>1 DEF Hears
  <2>2. CASE ~hub.locked /\ e.hub.locked
    <3>1. ASSUME r.valid, NEW c \in Channels, e.chan[c].open > OpenTime
          PROVE  FALSE
      BY <1>3, <1>5, <1>8, <2>2, <3>1, Limits
    <3>. QED
      BY <1>2, <2>2, <3>1
  <2>. QED
    BY <2>1, <2>2
<1>10. ASSUME NEW c \in Channels, hub.suspended > 0, e.chan[c].duty > OpenDuty
       PROVE  e.chan[c].open <= paused'
  <2>1. chan[c].duty > OpenDuty /\ paused < MaxPause
    BY <1>1, <1>2, <1>10 DEF Hears
  <2>2. chan[c].open <= paused
    BY <1>5, <2>1 DEF OpenInv, Drawn
  <2>3. CASE Drawing(r)
    <3>1. r.valid /\ r.amps[c] = "some"
      BY <2>1, <2>3 DEF Drawing
    <3>2. ~hub.locked
      <4>1. hub.locked => chan[c].duty = 0
        BY DEF OpenInv
      <4>. QED
        BY <2>1, <4>1, Limits
    <3>3. e.chan[c].open = 0
      BY <1>2, <3>1, <3>2 DEF Timed
    <3>. QED
      BY <1>5, <3>3
  <2>4. CASE ~Drawing(r)
    <3>1. paused' = paused + 1
      BY <1>1, <1>5, <2>1, <2>4 DEF Lesser
    <3>. QED
      BY <1>2, <1>3, <1>5, <2>2, <3>1
  <2>. QED
    BY <2>3, <2>4
<1>11. ASSUME NEW c \in Channels, r.valid, ~e.hub.locked
       PROVE  e.chan[c].open <= paused' \/ paused' = MaxPause
  <2>1. ~hub.locked
    BY <1>4, <1>11
  <2>2. CASE e.chan[c].open = 0
    BY <1>5, <2>2
  <2>3. CASE e.chan[c].open <= paused + 1 /\ ~Drawing(r)
    <3>1. paused' = paused + 1 \/ paused' = MaxPause
      BY <1>1, <1>5, <2>3 DEF Lesser
    <3>. QED
      BY <2>3, <3>1
  <2>. QED
    BY <1>8, <1>11, <2>1, <2>2, <2>3
<1>. QED
  BY <1>5, <1>6, <1>9, <1>10, <1>11 DEF e

LEMMA PassOpens ==
  ASSUME MaxPause \in Nat, MaxPause < OpenTime, OpenInv, TripInv',
         NEW r \in Readings, MCPass(r)
  PROVE  OpenInv'
<1>. DEFINE e == Entered(r)
            w == ModeSwitched(e)
<1>1. /\ TripInv /\ Pass(r)
  BY DEF OpenInv, MCPass
<1>2. /\ e \in Chargers /\ Forks(e, w, r, WholeNext)
      /\ e.hub.relayOpen = hub.relayOpen
  BY <1>1, TripPass
<1>3. \A c \in Channels : w.chan[c].open = e.chan[c].open
  BY <1>2, ModeStill
<1>4. /\ paused' \in 0 .. MaxPause
      /\ e.hub.locked => hub.relayOpen /\ \E c \in Channels : e.chan[c].trip
      /\ hub.relayOpen => \A c \in Channels : e.chan[c].duty = 0
      /\ \A c \in Channels :
           /\ hub.suspended > 0 /\ e.chan[c].duty > OpenDuty
                => e.chan[c].open <= paused'
           /\ r.valid /\ ~e.hub.locked
                => e.chan[c].open <= paused' \/ paused' = MaxPause
  BY EnteredDrawn
<1>. HIDE DEF e, w
<1>5. WholeNext.chan = chan' /\ WholeNext.hub = hub'
  BY DEF WholeNext
<1>6. ASSUME hub'.locked => hub'.relayOpen /\ \E c \in Channels : chan'[c].trip,
             hub'.relayOpen => \A c \in Channels : chan'[c].duty = 0,
             \A c \in Channels : Drawn(chan'[c], paused')
      PROVE  OpenInv'
  BY <1>4, <1>6 DEF OpenInv, Drawn
<1>7. ASSUME Off(WholeNext) PROVE \A c \in Channels : chan'[c].duty = 0 /\ Drawn(chan'[c], paused')
  BY <1>5, <1>7, Limits DEF Off, Drawn
<1>8. CASE hub.suspended > 0 /\ Pauses(e, WholeNext)
  <2>1. /\ hub' = e.hub
        /\ \A c \in Channels : /\ chan'[c].duty = e.chan[c].duty
                               /\ chan'[c].open = e.chan[c].open
                               /\ chan'[c].trip = e.chan[c].trip
    BY <1>5, <1>8 DEF Pauses
  <2>2. \A c \in Channels : Drawn(chan'[c], paused')
    BY <1>4, <1>8, <2>1 DEF Drawn
  <2>. QED
    BY <1>2, <1>4, <1>6, <2>1, <2>2
<1>9. CASE e.hub.locked /\ Ended(e, WholeNext)
  <2>1. /\ hub'.relayOpen /\ Off(WholeNext)
        /\ \A c \in Channels : chan'[c].trip = e.chan[c].trip
    BY <1>5, <1>9 DEF Ended
  <2>. QED
    BY <1>4, <1>6, <1>7, <1>9, <2>1
<1>10. CASE ~WholeNext.hub.locked /\ Off(WholeNext)
  BY <1>5, <1>6, <1>7, <1>10
<1>11. ASSUME ~e.hub.locked, ~WholeNext.hub.locked, ~WholeNext.hub.relayOpen,
              r.valid, NEW s, Reaches(w, s, r), NEW q \in ReadingStates,
              Works(s, WholeNext, q)
       PROVE  OpenInv'
  <2>1. ASSUME NEW c \in Channels PROVE Drawn(chan'[c], paused')
    <3>1. s.chan[c].open = w.chan[c].open /\ s \in Chargers
      BY <1>11 DEF Reaches, StillAll, Still
    <3>2. chan'[c].open = s.chan[c].open /\ chan'[c].pwm = chan'[c].duty
      BY <1>5, <1>11, <3>1, WorksOpen
    <3>3. chan'[c].open <= paused' \/ paused' = MaxPause
      BY <1>3, <1>4, <1>11, <3>1, <3>2
    <3>4. chan'[c].duty \in Nat
      BY DEF TripInv, CondemnedInv, ChargerInv, TypeOK, ChannelRecords, Duties
    <3>. QED
      BY <3>2, <3>3, <3>4, Limits DEF Drawn
  <2>. QED
    BY <1>5, <1>6, <1>11, <2>1
<1>. QED
  BY <1>2, <1>8, <1>9, <1>10, <1>11 DEF Forks, Leaves

LEMMA OpenHolds ==
  ASSUME MaxPause \in Nat, MaxPause < OpenTime
  PROVE  OpenInv /\ [MCNext]_mcvars => OpenInv'
<1>. SUFFICES ASSUME OpenInv, [MCNext]_mcvars PROVE OpenInv'
  OBVIOUS
<1>1. TripInv'
  BY TripIsNext, TripHeld DEF OpenInv
<1>2. ASSUME NEW r \in Readings, MCPass(r) PROVE OpenInv'
  BY <1>1, <1>2, PassOpens
<1>3. CASE ~\E r \in Readings : MCPass(r)
  <2>1. /\ paused' = paused
        /\ \A c \in Channels : Remains(chan[c], chan'[c])
        /\ hub'.relayOpen = hub.relayOpen /\ hub'.locked = hub.locked
    BY <1>1, <1>3, TripBetween DEF Stands, OpenInv
  <2>2. \A c \in Channels : Drawn(chan'[c], paused')
    BY <2>1, Limits DEF OpenInv, Remains, Drawn
  <2>3. hub'.relayOpen => \A c \in Channels : chan'[c].duty = 0
    BY <2>1 DEF OpenInv, Remains
  <2>4. hub'.locked => hub'.relayOpen /\ \E c \in Channels : chan'[c].trip
    BY <2>1 DEF OpenInv, Remains
  <2>5. paused' \in 0 .. MaxPause
    BY <2>1 DEF OpenInv
  <2>. QED
    BY <1>1, <2>2, <2>3, <2>4, <2>5 DEF OpenInv
<1>. QED
  BY <1>2, <1>3

(* Charger_EvaluateTechnicalFault, for every debounce longer than flash    *)
(* writes can keep a stage unseen, the manual mode included: as long as a  *)
(* driven stage draws current, no verdict of scenario 7 comes from an open *)
(* transistor; each has a comparator's latch and the opened relay.         *)
THEOREM OpenVerdictsAreReal ==
  ASSUME MaxPause \in Nat, MaxPause < OpenTime
  PROVE  MCSpec => []OpenVerdictIsReal
<1>1. OpenInv => OpenVerdictIsReal
  BY DEF OpenInv, OpenVerdictIsReal
<1>. QED
  BY <1>1, OpenStarts, OpenHolds, PTL DEF MCSpec

\* Every reachable state of the trips' runs without the manual mode: into a
\* blind pause goes a silent channel, and what it has saved is its duty or none.
Dimmed(k, n) == k.duty = 0 /\ (Active(k) => k.saved \in {0, n})

BlindInv ==
  /\ ParkedInv
  /\ \A c \in Channels : lit[c] \in Duties
  /\ hub.relayOpen \/ ~hub.blind \/ \A c \in Channels : Dimmed(chan[c], lit[c])

LEMMA BlindStarts == MCInit => BlindInv
<1>. SUFFICES ASSUME MCInit PROVE BlindInv
  OBVIOUS
<1>1. ParkedInv /\ ~hub.blind
  BY ParkedStarts, TripStarts DEF MCInit
<1>2. lit = [c \in Channels |-> 0]
  BY DEF MCInit
<1>. QED
  BY <1>1, <1>2, Constants DEF BlindInv

\* The pass that ends a blind pause, behind a closed relay.
Resumes ==
  hub.blind /\ ~hub'.blind =>
    \A c \in Channels :
      Active(chan[c]) /\ ~chan[c].fixed => chan'[c].pwm <= Gentle(lit[c])

LEMMA GentleRises ==
  ASSUME NEW n \in Duties, NEW m \in {0, n}
  PROVE  /\ Gentle(m) \in Int /\ Gentle(n) \in Int
         /\ 0 <= Gentle(n) /\ Gentle(m) <= Gentle(n)
<1>1. n \in Nat /\ StartDuty \in Nat
  BY Limits DEF Duties
<1>2. (0 * 7) \div 10 = 0 /\ (n * 7) \div 10 \in Nat
  BY <1>1
<1>. QED
  BY <1>1, <1>2 DEF Gentle, Greater

LEMMA PassBlinds ==
  ASSUME PidRise <= StartDuty, BlindInv, ParkedInv',
         NEW r \in Readings, MCPass(r), ~hub'.relayOpen
  PROVE  BlindInv' /\ Resumes
<1>. DEFINE e == Entered(r)
<1>1. /\ ParkedInv /\ TripInv /\ TripInv' /\ Pass(r) /\ TypeOK /\ TypeOK'
      /\ lit' = [c \in Channels |->
                   IF ~hub'.blind THEN 0
                   ELSE IF hub.blind THEN lit[c] ELSE chan[c].duty]
  BY DEF BlindInv, ParkedInv, TripInv, CondemnedInv, ChargerInv, MCPass
<1>2. ~hub.relayOpen
  <2>1. ChargerInv /\ [Next]_vars
    BY <1>1 DEF TripInv, CondemnedInv, Next
  <2>2. Holds(Whole, WholeNext)
    BY <2>1, StepHolds
  <2>. QED
    BY <2>2 DEF Holds, Whole, WholeNext
<1>3. ~hub.manual /\ ~hub.requested
  BY <1>1, <1>2 DEF ParkedInv
<1>4. /\ r \in ReadingStates /\ e \in Chargers
      /\ \A c \in Channels : Hears(chan[c], e.chan[c])
      /\ e.hub.manual = hub.manual /\ e.hub.blind = hub.blind
      /\ Forks(e, e, r, WholeNext)
  <2>1. /\ Forks(e, ModeSwitched(e), r, WholeNext)
        /\ ModeSwitched(e) = e
    BY <1>1, <1>3, TripPass
  <2>2. Forks(e, e, r, WholeNext)
    BY <2>1
  <2>. QED
    BY <1>1, <2>2, TripPass
<1>. HIDE DEF e
<1>5. \A c \in Channels :
        /\ chan[c].duty \in Duties /\ chan[c].saved \in Duties
        /\ lit[c] \in Duties /\ lit'[c] \in Duties
  <2>1. \A c \in Channels : chan[c].duty \in Duties /\ chan[c].saved \in Duties
    BY <1>1 DEF TypeOK, ChannelRecords
  <2>. QED
    BY <1>1, <2>1, Constants DEF BlindInv
<1>6. hub.blind => \A c \in Channels : Dimmed(chan[c], lit[c])
  BY <1>2 DEF BlindInv
<1>7. WholeNext.chan = chan' /\ WholeNext.hub = hub'
  BY DEF WholeNext
<1>8. ASSUME hub'.blind => \A c \in Channels : Dimmed(chan'[c], lit'[c]), Resumes
      PROVE  BlindInv' /\ Resumes
  <2>1. hub'.relayOpen \/ ~hub'.blind
        \/ \A c \in Channels : Dimmed(chan'[c], lit'[c])
    BY <1>8
  <2>. QED
    BY <1>5, <1>8, <2>1 DEF BlindInv, Dimmed, Active
<1>9. CASE Pauses(e, WholeNext)
  <2>1. hub'.blind = hub.blind
    BY <1>4, <1>7, <1>9 DEF Pauses
  <2>2. ASSUME hub'.blind, NEW c \in Channels PROVE Dimmed(chan'[c], lit'[c])
    <3>1. lit'[c] = lit[c] /\ Dimmed(chan[c], lit[c])
      BY <1>1, <1>6, <2>1, <2>2
    <3>2. /\ chan'[c].duty = chan[c].duty /\ chan'[c].state = chan[c].state
          /\ chan'[c].saved = chan[c].saved
      BY <1>4, <1>7, <1>9 DEF Pauses, Hears
    <3>. QED
      BY <3>1, <3>2 DEF Dimmed, Active
  <2>. QED
    BY <1>8, <2>1, <2>2 DEF Resumes
<1>10. CASE Leaves(e, WholeNext, r)
  <2>1. /\ \A c \in Channels : chan'[c].duty = 0 /\ chan'[c].pwm = 0
        /\ hub'.blind => \A c \in Channels :
                           Saves(e.chan[c], chan'[c], hub.blind)
    BY <1>4, <1>7, <1>10 DEF Leaves, Off
  <2>2. ASSUME hub'.blind, NEW c \in Channels PROVE Dimmed(chan'[c], lit'[c])
    <3>1. /\ Saves(e.chan[c], chan'[c], hub.blind) /\ chan'[c].duty = 0
          /\ lit'[c] = IF hub.blind THEN lit[c] ELSE chan[c].duty
      BY <1>1, <2>1, <2>2
    <3>2. /\ e.chan[c].state = chan[c].state /\ e.chan[c].saved = chan[c].saved
          /\ e.chan[c].duty = chan[c].duty
      BY <1>4 DEF Hears
    <3>3. hub.blind => Dimmed(chan[c], lit[c])
      BY <1>6
    <3>. QED
      BY <3>1, <3>2, <3>3 DEF Dimmed, Saves, Active
  <2>3. Resumes
    BY <1>5, <2>1, GentleRises DEF Resumes
  <2>. QED
    BY <1>8, <2>2, <2>3
<1>11. ASSUME NEW s, Reaches(e, s, r), NEW q \in ReadingStates,
              Works(s, WholeNext, q)
       PROVE  BlindInv' /\ Resumes
  <2>1. /\ s \in Chargers /\ StillAll(e, s) /\ ~s.hub.blind
        /\ \A c \in Channels : Charges(e.chan[c], s.chan[c])
    BY <1>11 DEF Reaches
  <2>2. ~hub'.blind /\ ~s.hub.manual
    BY <1>3, <1>4, <1>7, <1>11, <2>1, WorksOpen DEF StillAll
  <2>3. ASSUME hub.blind, NEW c \in Channels,
               Active(chan[c]), ~chan[c].fixed
        PROVE  chan'[c].pwm <= Gentle(lit[c])
    <3>1. Dimmed(chan[c], lit[c]) /\ Level(chan[c]) /\ Level(chan'[c])
      BY <1>1, <1>6, <2>3 DEF TripInv
    <3>2. /\ Active(e.chan[c]) /\ ~e.chan[c].fixed /\ e.chan[c].duty = 0
          /\ e.chan[c].saved = chan[c].saved /\ Level(e.chan[c])
      BY <1>4, <2>3, <3>1 DEF Hears, Active, Dimmed, Level
    <3>3. /\ Level(s.chan[c]) /\ s.chan[c].duty = 0
          /\ \/ Active(s.chan[c]) /\ ~s.chan[c].fixed
             \/ s.chan[c].state = "BAT_LOST"
      BY <2>1, <3>2 DEF StillAll, Still, Level, Charges
    <3>4. Active(s.chan[c]) => s.chan[c].saved = chan[c].saved
      BY <2>1, <3>2 DEF Charges
    <3>5. chan'[c].state = "JIT_RETRY_WAIT" => chan'[c].pwm = 0
      BY <3>1 DEF Level
    <3>6. \/ chan'[c].pwm = 0
          \/ Active(s.chan[c]) /\ chan'[c].pwm <= Gentle(s.chan[c].saved)
      BY <1>7, <1>11, <2>1, <2>2, <3>3, <3>5, WorksGently
    <3>7. chan[c].saved \in {0, lit[c]}
      BY <2>3, <3>1 DEF Dimmed
    <3>8. chan'[c].pwm \in Nat
      BY <1>1, Limits DEF TypeOK, ChannelRecords, Duties
    <3>. QED
      BY <1>5, <3>4, <3>6, <3>7, <3>8, GentleRises
  <2>. QED
    BY <1>8, <2>2, <2>3 DEF Resumes
<1>. QED
  BY <1>4, <1>7, <1>9, <1>10, <1>11 DEF Forks, Ended

LEMMA BlindHolds ==
  ASSUME "manual" \notin Requests, PidRise <= StartDuty
  PROVE  BlindInv /\ [MCNext]_mcvars =>
           /\ BlindInv'
           /\ hub.blind /\ ~hub'.blind /\ ~hub'.manual
                => \A c \in Channels :
                     Active(chan[c]) /\ ~chan[c].fixed
                       => chan'[c].pwm <= Greater(StartDuty, (lit[c] * 7) \div 10)
<1>. SUFFICES ASSUME BlindInv, [MCNext]_mcvars PROVE BlindInv' /\ Resumes
  BY DEF Resumes, Gentle
<1>1. ParkedInv'
  BY ParkedHolds DEF BlindInv
<1>2. TripInv /\ TripInv'
  BY <1>1 DEF BlindInv, ParkedInv
<1>3. ASSUME NEW r \in Readings, MCPass(r) PROVE BlindInv' /\ Resumes
  <2>1. CASE ~hub'.relayOpen
    BY <1>1, <1>3, <2>1, PassBlinds
  <2>2. CASE hub'.relayOpen
    <3>1. \A c \in Channels : chan'[c].pwm = 0 /\ lit[c] \in Duties
      BY <1>2, <2>2
         DEF BlindInv, TripInv, CondemnedInv, ChargerInv, Silenced, Whole
    <3>2. \A c \in Channels : chan[c].duty \in Duties
      BY <1>2 DEF TripInv, CondemnedInv, ChargerInv, TypeOK, ChannelRecords
    <3>3. lit' = [c \in Channels |->
                    IF ~hub'.blind THEN 0
                    ELSE IF hub.blind THEN lit[c] ELSE chan[c].duty]
      BY <1>3 DEF MCPass
    <3>4. \A c \in Channels : lit'[c] \in Duties
      BY <3>1, <3>2, <3>3, Constants
    <3>5. Resumes
      BY <3>1, GentleRises DEF Resumes
    <3>. QED
      BY <1>1, <2>2, <3>4, <3>5 DEF BlindInv
  <2>. QED
    BY <2>1, <2>2
<1>4. CASE ~\E r \in Readings : MCPass(r)
  <2>1. /\ lit' = lit /\ hub'.blind = hub.blind
        /\ hub'.relayOpen = hub.relayOpen
        /\ \A c \in Channels : Remains(chan[c], chan'[c])
    BY <1>2, <1>4, TripBetween DEF Stands
  <2>2. hub'.relayOpen \/ ~hub'.blind
        \/ \A c \in Channels : Dimmed(chan'[c], lit'[c])
    BY <2>1 DEF BlindInv, Remains, Dimmed, Active
  <2>3. \A c \in Channels : lit'[c] \in Duties
    BY <2>1 DEF BlindInv
  <2>. QED
    BY <1>1, <2>1, <2>2, <2>3 DEF BlindInv, Resumes
<1>. QED
  BY <1>3, <1>4

(* Charger_PauseOnBlind and Charger_RegulateChannel, for every duty and    *)
(* every flicker of the snapshot, with a regulator that climbs by no more  *)
(* than the soft start and without the manual mode: what a channel had     *)
(* before a blind pause comes back at seven tenths at most.                *)
THEOREM BlindResumesAreGentle ==
  ASSUME "manual" \notin Requests, PidRise <= StartDuty
  PROVE  MCSpec => BlindResumeIsGentle
<1>. DEFINE Gently ==
       hub.blind /\ ~hub'.blind /\ ~hub'.manual
         => \A c \in Channels :
              Active(chan[c]) /\ ~chan[c].fixed
                => chan'[c].pwm <= Greater(StartDuty, (lit[c] * 7) \div 10)
<1>1. MCSpec => [][Gently]_mcvars
  <2>1. BlindInv /\ [MCNext]_mcvars => BlindInv' /\ Gently
    BY BlindHolds
  <2>. HIDE DEF Gently
  <2>. QED
    BY <2>1, BlindStarts, PTL DEF MCSpec
<1>. QED
  BY <1>1 DEF BlindResumeIsGentle

\* Channel c, n quiet passes into its wait: the pointer is on it, or free and
\* on nobody else's turn, or on the twin, whose lockout ends first.
InTurn(s, c, n) ==
  /\ c \in Waiting(s) /\ n + s.chan[c].lockout <= LongestWait
  /\ \/ s.hub.retry = c /\ s.chan[c].lockout > 0
     \/ s.hub.retry = NoChannel /\ Waiting(s) \subseteq {c}
     \/ \E d \in Waiting(s) \ {c} :
          /\ s.hub.retry = d /\ s.chan[d].lockout > 0
          /\ n + s.chan[d].lockout <= LongestWait

\* Behind the strikes a latch is a wait.
Latched(s) ==
  \A c \in Channels : s.chan[c].trip => s.chan[c].state = "JIT_RETRY_WAIT"

LEMMA TurnBegins ==
  ASSUME NEW s, NEW m, NEW t \in Chargers, NEW p, Strikes(s, m), Turns(m, t, p),
         NEW c \in Waiting(t)
  PROVE  InTurn(t, c, 1)
<1>1. /\ \A d \in Channels : t.chan[d].lockout \in 0 .. LockoutTime
      /\ c \in Channels /\ Waiting(t) \subseteq Channels
  BY ChargerFields DEF ChannelRecords, Waiting
<1>2. \A d \in Channels : 1 + t.chan[d].lockout <= LongestWait
  BY <1>1, Limits DEF LongestWait
<1>3. /\ c \in Waiting(m)
      /\ \A d \in Channels : d \in Waiting(t) =>
           d \in Waiting(m) /\ t.chan[d].lockout = m.chan[d].lockout
      /\ \A d \in Channels : d \notin Waiting(t) /\ d \in Waiting(m)
           => t.hub.retry = NoChannel
  BY <1>1 DEF Turns
<1>4. p \in Channels /\ (m.hub.retry \notin Channels => p \in Waiting(m))
  BY <1>3 DEF Turns, Waiting
<1>5. CASE p \in Waiting(m) /\ m.chan[p].lockout > 0 /\ t.hub.retry = p
  <2>1. p \in Waiting(t)
    BY <1>3, <1>4, <1>5 DEF Channels, NoChannel
  <2>. QED
    BY <1>1, <1>2, <1>3, <1>5, <2>1 DEF InTurn
<1>6. CASE p \notin Waiting(t) /\ t.hub.retry = NoChannel
  <2>1. Waiting(t) \subseteq {c}
    BY <1>1, <1>4, <1>6 DEF Channels
  <2>. QED
    BY <1>1, <1>2, <1>6, <2>1 DEF InTurn
<1>. QED
  BY <1>3, <1>4, <1>5, <1>6 DEF Turns

LEMMA TurnGoesOn ==
  ASSUME NEW o \in Chargers, NEW s, NEW m, NEW t, NEW p,
         Strikes(s, m), Turns(m, t, p),
         Latched(s), Waiting(s) = Waiting(o), s.hub.retry = o.hub.retry,
         \A d \in Waiting(o) : s.chan[d].lockout = Sooner(o.chan[d].lockout),
         NEW c \in Waiting(t), NEW n \in Nat, InTurn(o, c, n)
  PROVE  InTurn(t, c, n + 1)
<1>1. /\ \A d \in Channels : o.chan[d].lockout \in Nat
      /\ \A i : Waiting(i) \subseteq Channels
  BY ChargerFields DEF ChannelRecords, Waiting
<1>2. \A d \in Channels : m.chan[d] = s.chan[d]
  BY DEF Strikes, Parks, Latched
<1>3. Waiting(m) = Waiting(o)
  BY <1>2 DEF Waiting
<1>4. \A d \in Waiting(o) : m.chan[d].lockout =
                              IF o.chan[d].lockout = 0 THEN 0
                              ELSE o.chan[d].lockout - 1
  BY <1>1, <1>2 DEF Sooner, Greater
<1>5. /\ c \in Waiting(m) /\ c \in Channels
      /\ \A d \in Channels : d \in Waiting(t) =>
           d \in Waiting(m) /\ t.chan[d].lockout = m.chan[d].lockout
      /\ \A d \in Channels : d \notin Waiting(t) /\ d \in Waiting(m)
           => t.hub.retry = NoChannel
      /\ m.hub.retry \in Channels => p = m.hub.retry
      /\ m.hub.retry \notin Channels => p \in Waiting(m)
  BY <1>1 DEF Turns
<1>6. LongestWait \in Nat /\ n + o.chan[c].lockout <= LongestWait
  BY Limits DEF LongestWait, InTurn
<1>7. o.hub.retry \in Channels => m.hub.retry = o.hub.retry
  BY DEF Strikes
<1>8. CASE p = c
  <2>1. m.chan[c].lockout > 0 /\ t.hub.retry = c
    BY <1>5, <1>8 DEF Turns
  <2>2. /\ t.chan[c].lockout = m.chan[c].lockout
        /\ m.chan[c].lockout = o.chan[c].lockout - 1
    BY <1>1, <1>3, <1>4, <1>5, <2>1
  <2>. QED
    BY <1>1, <1>5, <1>6, <2>1, <2>2 DEF InTurn
<1>9. CASE o.hub.retry = c
  BY <1>5, <1>7, <1>8, <1>9
<1>10. CASE o.hub.retry = NoChannel /\ Waiting(o) \subseteq {c}
  <2>1. p \in Waiting(m)
    <3>1. CASE m.hub.retry \notin Channels
      BY <1>5, <3>1
    <3>2. CASE m.hub.retry \in Channels
      <4>1. m.hub.retry # s.hub.retry
        BY <1>10, <3>2 DEF Channels, NoChannel
      <4>2. m.hub.retry \in Waiting(m)
        BY <3>2, <4>1 DEF Strikes, Waiting
      <4>. QED
        BY <1>5, <3>2, <4>2
    <3>. QED
      BY <3>1, <3>2
  <2>. QED
    BY <1>3, <1>8, <1>10, <2>1
<1>11. ASSUME NEW d \in Waiting(o) \ {c}, o.hub.retry = d,
              o.chan[d].lockout > 0, n + o.chan[d].lockout <= LongestWait
       PROVE  InTurn(t, c, n + 1)
  <2>1. d \in Channels /\ p = d /\ d \in Waiting(m)
    BY <1>1, <1>3, <1>5, <1>7, <1>11
  <2>2. m.chan[d].lockout = o.chan[d].lockout - 1
    BY <1>1, <1>4, <1>11, <2>1
  <2>3. n + 1 + t.chan[c].lockout <= LongestWait
    <3>1. t.chan[c].lockout = IF o.chan[c].lockout = 0 THEN 0
                              ELSE o.chan[c].lockout - 1
      BY <1>3, <1>4, <1>5
    <3>. QED
      BY <1>1, <1>5, <1>6, <1>11, <2>1, <3>1
  <2>4. CASE m.chan[d].lockout > 0 /\ t.hub.retry = d
    <3>1. d \in Waiting(t)
      BY <1>5, <2>1, <2>4 DEF Channels, NoChannel
    <3>2. t.chan[d].lockout = o.chan[d].lockout - 1
      BY <1>5, <2>1, <2>2, <3>1
    <3>3. n + 1 + t.chan[d].lockout <= LongestWait /\ t.chan[d].lockout > 0
      BY <1>1, <1>11, <2>1, <2>2, <2>4, <3>2
    <3>. QED
      BY <1>11, <2>3, <2>4, <3>1, <3>3 DEF InTurn
  <2>5. CASE t.hub.retry = NoChannel /\ d \notin Waiting(t)
    <3>1. Waiting(t) \subseteq {c}
      BY <1>1, <1>5, <1>11, <2>1, <2>5 DEF Channels
    <3>. QED
      BY <2>3, <2>5, <3>1 DEF InTurn
  <2>. QED
    BY <2>1, <2>4, <2>5 DEF Turns
<1>. QED
  BY <1>9, <1>10, <1>11 DEF InTurn

\* Every reachable state of the trips' runs without the manual mode: a wait
\* that quiet passes count is in its turn.
WaitInv ==
  /\ ParkedInv
  /\ \A c \in Channels :
       /\ waited[c] \in 0 .. LongestWait
       /\ waited[c] > 0 => /\ Latched(Whole) /\ InTurn(Whole, c, waited[c])
                           /\ ~chan[c].condemned

LEMMA WaitStarts == MCInit => WaitInv
<1>. SUFFICES ASSUME MCInit PROVE WaitInv
  OBVIOUS
<1>1. ParkedInv /\ waited = [c \in Channels |-> 0]
  BY ParkedStarts DEF MCInit
<1>. QED
  BY <1>1, Limits DEF WaitInv, LongestWait

\* A quiet powered pass that leaves a channel waiting.
LEMMA QuietWorks ==
  ASSUME ParkedInv, NEW r \in Readings, MCPass(r), Quiet(r),
         NEW c \in Waiting(WholeNext)
  PROVE  \E s : \E q \in ReadingStates :
           /\ Reaches(Entered(r), s, r) /\ Works(s, WholeNext, q)
           /\ ~s.hub.manual
<1>. DEFINE e == Entered(r)
<1>1. /\ TripInv /\ Pass(r)
      /\ r.valid /\ r.permitted /\ hub.suspended = 0 /\ ~hub'.relayOpen
  BY DEF ParkedInv, MCPass, Quiet
<1>2. ~hub.relayOpen
  <2>1. ChargerInv /\ [Next]_vars
    BY <1>1 DEF TripInv, CondemnedInv, Next
  <2>2. Holds(Whole, WholeNext)
    BY <2>1, StepHolds
  <2>. QED
    BY <1>1, <2>2 DEF Holds, Whole, WholeNext
<1>3. ~hub.manual /\ ~hub.requested
  BY <1>2 DEF ParkedInv
<1>4. ModeSwitched(e) = e /\ Forks(e, ModeSwitched(e), r, WholeNext)
      /\ e.hub.manual = hub.manual
  BY <1>1, <1>3, TripPass
<1>5. Forks(e, e, r, WholeNext)
  BY <1>4
<1>. HIDE DEF e
<1>6. c \in Channels /\ WholeNext.chan[c].state = "JIT_RETRY_WAIT"
  BY DEF Waiting
<1>7. WholeNext.hub = hub'
  BY DEF WholeNext
<1>8. ~Leaves(e, WholeNext, r) /\ ~Ended(e, WholeNext)
  BY <1>1, <1>6, <1>7 DEF Leaves, Ended
<1>9. PICK s : /\ Reaches(e, s, r)
               /\ \E q \in ReadingStates : Works(s, WholeNext, q)
  BY <1>1, <1>5, <1>7, <1>8 DEF Forks
<1>10. ~s.hub.manual
  BY <1>3, <1>4, <1>9 DEF Reaches, StillAll
<1>. QED
  BY <1>9, <1>10 DEF e

LEMMA PassWaits ==
  ASSUME WaitInv, ParkedInv', NEW r \in Readings, MCPass(r),
         NEW c \in Channels
  PROVE  /\ waited'[c] \in 0 .. LongestWait
         /\ waited'[c] > 0 => /\ Latched(WholeNext)
                              /\ InTurn(WholeNext, c, waited'[c])
                              /\ ~chan'[c].condemned
<1>. DEFINE e == Entered(r)
            n == waited[c]
<1>1. /\ ParkedInv /\ TripInv /\ TypeOK /\ TypeOK' /\ Pass(r)
      /\ waited'[c] =
           IF Quiet(r) /\ chan'[c].state = "JIT_RETRY_WAIT" /\ ~chan'[c].condemned
           THEN Lesser(n + 1, LongestWait + 1) ELSE 0
  BY DEF WaitInv, ParkedInv, TripInv, CondemnedInv, ChargerInv, MCPass
<1>2. LongestWait \in Nat /\ n \in 0 .. LongestWait
  BY Limits DEF WaitInv, LongestWait
<1>3. WholeNext.chan = chan' /\ WholeNext.hub = hub' /\ WholeNext \in Chargers
  BY <1>1 DEF WholeNext, TypeOK, Chargers
<1>4. CASE waited'[c] = 0
  BY <1>2, <1>4
<1>5. CASE waited'[c] # 0
  <2>1. /\ Quiet(r) /\ ~chan'[c].condemned /\ c \in Waiting(WholeNext)
        /\ waited'[c] = Lesser(n + 1, LongestWait + 1)
    BY <1>1, <1>3, <1>5 DEF Waiting
  <2>2. /\ e \in Chargers /\ e.hub.retry = hub.retry
        /\ \A d \in Channels : Hears(chan[d], e.chan[d])
    BY <1>1, TripPass
  <2>3. PICK s : \E q \in ReadingStates :
          /\ Reaches(e, s, r) /\ Works(s, WholeNext, q) /\ ~s.hub.manual
    BY <1>1, <2>1, QuietWorks
  <2>. HIDE DEF e, n
  <2>4. s \in Chargers /\ StillAll(e, s) /\ s.hub.retry = e.hub.retry
    BY <2>3 DEF Reaches
  <2>5. PICK m, p : Strikes(s, m) /\ Turns(m, WholeNext, p)
    BY <2>3, <2>4, WorksTurn
  <2>6. Latched(WholeNext)
    BY <2>5 DEF Turns, Latched
  <2>7. InTurn(WholeNext, c, n + 1)
    <3>1. CASE n = 0
      <4>1. InTurn(WholeNext, c, 1)
        BY <1>3, <2>1, <2>5, TurnBegins
      <4>. QED
        BY <3>1, <4>1
    <3>2. CASE n # 0
      <4>1. Latched(Whole) /\ InTurn(Whole, c, n)
        BY <1>2, <3>2 DEF WaitInv, n
      <4>2. \A d \in Channels : ~chan[d].edge /\ ~r.lost
        BY <2>1 DEF Quiet
      <4>3. ASSUME NEW d \in Channels
            PROVE  /\ s.chan[d].trip => s.chan[d].state = "JIT_RETRY_WAIT"
                   /\ s.chan[d].state = "JIT_RETRY_WAIT"
                        <=> chan[d].state = "JIT_RETRY_WAIT"
                   /\ s.chan[d].state = "JIT_RETRY_WAIT" =>
                        s.chan[d].lockout = Sooner(chan[d].lockout)
        <5>1. chan[d].trip => chan[d].state = "JIT_RETRY_WAIT"
          BY <4>1, WholeTyped DEF Latched
        <5>2. /\ e.chan[d].trip = (chan[d].trip \/ chan[d].edge)
              /\ e.chan[d].state = chan[d].state
              /\ e.chan[d].lockout = Sooner(chan[d].lockout)
          BY <2>2 DEF Hears
        <5>3. /\ s.chan[d].trip = e.chan[d].trip
              /\ s.chan[d].state = "JIT_RETRY_WAIT" =>
                   /\ e.chan[d].state = "JIT_RETRY_WAIT"
                   /\ s.chan[d].lockout = e.chan[d].lockout
              /\ e.chan[d].state = "JIT_RETRY_WAIT"
                   => s.chan[d].state = "JIT_RETRY_WAIT"
          BY <2>3, <2>4, <4>2 DEF StillAll, Still, Reaches
        <5>. QED
          BY <4>2, <5>1, <5>2, <5>3
      <4>4. /\ Latched(s) /\ Waiting(s) = Waiting(Whole)
            /\ s.hub.retry = Whole.hub.retry
            /\ \A d \in Waiting(Whole) :
                 s.chan[d].lockout = Sooner(Whole.chan[d].lockout)
        BY <2>2, <2>4, <4>3, WholeTyped DEF Latched, Waiting
      <4>5. n \in Nat /\ Whole \in Chargers
        BY <1>1, <1>2, WholeTyped
      <4>. QED
        BY <2>1, <2>5, <4>1, <4>4, <4>5, TurnGoesOn
    <3>. QED
      BY <3>1, <3>2
  <2>8. n + 1 <= LongestWait
    <3>1. chan'[c].lockout \in Nat
      BY <1>1, Limits DEF TypeOK, ChannelRecords
    <3>. QED
      BY <1>2, <1>3, <2>7, <3>1 DEF InTurn
  <2>9. waited'[c] = n + 1
    BY <1>2, <2>1, <2>8 DEF Lesser
  <2>. QED
    BY <1>2, <2>1, <2>6, <2>7, <2>8, <2>9
<1>. QED
  BY <1>4, <1>5

LEMMA WaitHolds ==
  ASSUME "manual" \notin Requests
  PROVE  WaitInv /\ [MCNext]_mcvars => WaitInv'
<1>. SUFFICES ASSUME WaitInv, [MCNext]_mcvars PROVE WaitInv'
  OBVIOUS
<1>1. ParkedInv'
  BY ParkedHolds DEF WaitInv
<1>2. Whole' = WholeNext
  BY DEF Whole, WholeNext
<1>3. SUFFICES ASSUME NEW c \in Channels
               PROVE  /\ waited'[c] \in 0 .. LongestWait
                      /\ waited'[c] > 0 => /\ Latched(WholeNext)
                                           /\ InTurn(WholeNext, c, waited'[c])
                                           /\ ~chan'[c].condemned
  BY <1>1, <1>2 DEF WaitInv, Latched, InTurn, Waiting, LongestWait
<1>4. ASSUME NEW r \in Readings, MCPass(r)
      PROVE  /\ waited'[c] \in 0 .. LongestWait
             /\ waited'[c] > 0 => /\ Latched(WholeNext)
                                  /\ InTurn(WholeNext, c, waited'[c])
                                  /\ ~chan'[c].condemned
  BY <1>1, <1>4, PassWaits
<1>5. CASE ~\E r \in Readings : MCPass(r)
  <2>1. TripInv /\ TripInv'
    BY <1>1 DEF WaitInv, ParkedInv
  <2>2. /\ Stands /\ WaitsOn
        /\ \A d \in Channels : Remains(chan[d], chan'[d])
        /\ hub'.retry = hub.retry
    BY <1>5, <2>1, TripBetween
  <2>3. CASE waited'[c] = 0
    BY <2>3, Limits DEF LongestWait
  <2>4. CASE waited'[c] # 0
    <3>1. /\ waited'[c] = waited[c] /\ waited[c] \in 0 .. LongestWait
          /\ chan[c].state = "JIT_RETRY_WAIT"
               => chan'[c].state = "JIT_RETRY_WAIT"
      BY <2>2, <2>4 DEF Stands, WaitInv
    <3>2. /\ waited[c] > 0 /\ Latched(Whole) /\ InTurn(Whole, c, waited[c])
          /\ ~chan[c].condemned
      BY <2>4, <3>1, Limits DEF WaitInv, LongestWait
    <3>3. /\ chan'[c].state = "JIT_RETRY_WAIT" /\ ~chan'[c].condemned
      BY <2>2, <3>1, <3>2, WholeTyped DEF InTurn, Waiting, Remains
    <3>4. \A d \in Channels : /\ chan'[d].state = chan[d].state
                              /\ chan'[d].lockout = chan[d].lockout
                              /\ chan'[d].trip = chan[d].trip
      BY <2>2, <3>3 DEF WaitsOn, Remains
    <3>5. /\ WholeNext.chan = chan' /\ WholeNext.hub = hub'
          /\ Whole.chan = chan /\ Whole.hub = hub
      BY WholeTyped DEF WholeNext
    <3>6. Waiting(WholeNext) = Waiting(Whole)
      BY <3>4, <3>5 DEF Waiting
    <3>7. Latched(WholeNext)
      BY <3>2, <3>4, <3>5 DEF Latched
    <3>8. InTurn(WholeNext, c, waited[c])
      BY <2>2, <3>2, <3>4, <3>5, <3>6 DEF InTurn, Waiting
    <3>. QED
      BY <3>1, <3>2, <3>3, <3>7, <3>8
  <2>. QED
    BY <2>3, <2>4
<1>. QED
  BY <1>4, <1>5

(* Charger_ServiceRetry, for every lockout, every reading and every        *)
(* command short of the manual mode: whichever of the two tripped first    *)
(* and wherever the retry pointer went in between, a channel without a     *)
(* scenario-6 verdict waits a lockout and one more quiet pass at most.     *)
THEOREM RetriesCome ==
  ASSUME "manual" \notin Requests PROVE MCSpec => []RetryComesInTime
<1>1. WaitInv => RetryComesInTime
  BY Limits DEF WaitInv, RetryComesInTime, LongestWait
<1>. QED
  BY <1>1, WaitStarts, WaitHolds, PTL DEF MCSpec
=============================================================================
