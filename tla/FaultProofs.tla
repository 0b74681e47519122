---------------------------- MODULE FaultProofs ----------------------------
(***************************************************************************)
(* Proofs about Fault for every tick rate, every set of readings and every *)
(* value the panel may write.                                              *)
(***************************************************************************)
EXTENDS MCFault, TLAPS

\* A margin takes at most a quarter of the input window.
MarginsFit(a) ==
  /\ 4 * a.hystLowMv <= a.inputMaxMv - a.inputMinMv
  /\ 4 * a.hystHighMv <= a.inputMaxMv - a.inputMinMv

\* What one application of the clamps makes of any ten numbers.
LEMMA ClampLands ==
  ASSUME NEW a \in Alarms
  PROVE  /\ ClampAlarms(a) \in Alarms
         /\ WindowsHold(ClampAlarms(a))
         /\ Ordered(ClampAlarms(a))
         /\ MarginsFit(ClampAlarms(a))
<1> DEFINE back == Bound(a.backMv, 4000, 9000)
           absent == Lesser(Bound(a.absentMv, 3000, 8000), back - 500)
           top == Bound(a.inputMaxMv, 24000, 30000)
           bottom == Lesser(Bound(a.inputMinMv, 18000, 24000), top - 1000)
           span == Greater(top, bottom + 1000) - bottom
           cap == Lesser(span \div 4, FAULT_INPUT_HYST_MAX_MV)
           low == Lesser(a.hystLowMv, cap)
           high == Lesser(a.hystHighMv, cap)
           disconnect == Bound(a.disconnectMv, 14000, 15000)
           disconnectDeb == Bound(a.disconnectDebMs, 50, 1000)
           absentDeb == Bound(a.absentDebMs, 100, 5000)
           recover == Bound(a.recoverMs, 100, 5000)
<1>1. ClampAlarms(a) =
        [disconnectMv |-> disconnect, disconnectDebMs |-> disconnectDeb,
         absentMv |-> absent, backMv |-> Greater(back, absent + 500),
         absentDebMs |-> absentDeb, recoverMs |-> recover,
         inputMinMv |-> bottom, inputMaxMv |-> Greater(top, bottom + 1000),
         hystLowMv |-> low, hystHighMv |-> high]
  BY DEF ClampAlarms
<1>2. /\ a.disconnectMv \in Nat /\ a.disconnectDebMs \in Nat
      /\ a.absentMv \in Nat /\ a.backMv \in Nat
      /\ a.absentDebMs \in Nat /\ a.recoverMs \in Nat
      /\ a.inputMinMv \in Nat /\ a.inputMaxMv \in Nat
      /\ a.hystLowMv \in Nat /\ a.hystHighMv \in Nat
  BY DEF Alarms
<1>3. /\ disconnect \in Nat /\ Within(disconnect, 14000, 15000)
      /\ disconnectDeb \in Nat /\ Within(disconnectDeb, 50, 1000)
      /\ absentDeb \in Nat /\ Within(absentDeb, 100, 5000)
      /\ recover \in Nat /\ Within(recover, 100, 5000)
  BY <1>2 DEF Bound, Lesser, Greater, Within
<1>4. /\ absent \in Nat /\ Within(absent, 3000, 8000)
      /\ back \in Nat /\ Within(back, 4000, 9000)
      /\ absent + 500 <= back
      /\ Greater(back, absent + 500) = back
  BY <1>2 DEF Bound, Lesser, Greater, Within
<1>5. /\ bottom \in Nat /\ Within(bottom, 18000, 24000)
      /\ top \in Nat /\ Within(top, 24000, 30000)
      /\ bottom + 1000 <= top
      /\ Greater(top, bottom + 1000) = top
  BY <1>2 DEF Bound, Lesser, Greater, Within
<1>6. span = top - bottom /\ span \in Nat
  BY <1>5
<1> HIDE DEF back, absent, top, bottom, span, disconnect, disconnectDeb,
         absentDeb, recover
<1>7. span \div 4 \in Nat /\ 4 * (span \div 4) <= span
  BY <1>6
<1>8. /\ low \in Nat /\ Within(low, 0, 3000) /\ 4 * low <= span
      /\ high \in Nat /\ Within(high, 0, 3000) /\ 4 * high <= span
  BY <1>2, <1>6, <1>7 DEF Lesser, FAULT_INPUT_HYST_MAX_MV, Within
<1> HIDE DEF low, high
<1>9. bottom + low + 500 <= top - high
  BY <1>5, <1>6, <1>8
<1>10. ClampAlarms(a) \in Alarms
  BY <1>1, <1>3, <1>4, <1>5, <1>8 DEF Alarms
<1>11. WindowsHold(ClampAlarms(a))
  BY <1>1, <1>3, <1>4, <1>5, <1>8 DEF WindowsHold
<1>12. Ordered(ClampAlarms(a))
  BY <1>1, <1>4, <1>5, <1>9 DEF Ordered
<1>13. MarginsFit(ClampAlarms(a))
  BY <1>1, <1>5, <1>6, <1>8 DEF MarginsFit
<1> QED
  BY <1>10, <1>11, <1>12, <1>13

\* Numbers that respect the windows and the order are left alone.
LEMMA ClampKeeps ==
  ASSUME NEW a \in Alarms, WindowsHold(a), Ordered(a), MarginsFit(a)
  PROVE  ClampAlarms(a) = a
<1> DEFINE span == a.inputMaxMv - a.inputMinMv
           cap == Lesser(span \div 4, FAULT_INPUT_HYST_MAX_MV)
<1>1. /\ Bound(a.disconnectMv, 14000, 15000) = a.disconnectMv
      /\ Bound(a.disconnectDebMs, 50, 1000) = a.disconnectDebMs
      /\ Bound(a.absentDebMs, 100, 5000) = a.absentDebMs
      /\ Bound(a.recoverMs, 100, 5000) = a.recoverMs
  BY DEF Alarms, WindowsHold, Within, Bound, Lesser, Greater
<1>2. /\ Bound(a.backMv, 4000, 9000) = a.backMv
      /\ Lesser(Bound(a.absentMv, 3000, 8000), a.backMv - 500) = a.absentMv
      /\ Greater(a.backMv, a.absentMv + 500) = a.backMv
  BY DEF Alarms, WindowsHold, Ordered, Within, Bound, Lesser, Greater
<1>3. /\ Bound(a.inputMaxMv, 24000, 30000) = a.inputMaxMv
      /\ Lesser(Bound(a.inputMinMv, 18000, 24000), a.inputMaxMv - 1000)
           = a.inputMinMv
      /\ Greater(a.inputMaxMv, a.inputMinMv + 1000) = a.inputMaxMv
  BY DEF Alarms, WindowsHold, Ordered, Within, Bound, Lesser, Greater
<1>4. /\ span \in Nat
      /\ 4 * a.hystLowMv <= span /\ a.hystLowMv \in Nat
      /\ 4 * a.hystHighMv <= span /\ a.hystHighMv \in Nat
      /\ a.hystLowMv <= 3000 /\ a.hystHighMv <= 3000
  BY DEF Alarms, WindowsHold, Ordered, MarginsFit, Within
<1>5. Lesser(a.hystLowMv, cap) = a.hystLowMv
      /\ Lesser(a.hystHighMv, cap) = a.hystHighMv
  <2> HIDE DEF span
  <2>1. /\ span \div 4 \in Nat
        /\ a.hystLowMv <= span \div 4 /\ a.hystHighMv <= span \div 4
    BY <1>4
  <2> QED
    BY <1>4, <2>1 DEF Lesser, FAULT_INPUT_HYST_MAX_MV
<1>6. ClampAlarms(a) =
        [disconnectMv |-> a.disconnectMv,
         disconnectDebMs |-> a.disconnectDebMs,
         absentMv |-> a.absentMv, backMv |-> a.backMv,
         absentDebMs |-> a.absentDebMs, recoverMs |-> a.recoverMs,
         inputMinMv |-> a.inputMinMv, inputMaxMv |-> a.inputMaxMv,
         hystLowMv |-> a.hystLowMv, hystHighMv |-> a.hystHighMv]
  <2> HIDE DEF cap
  <2> QED
    BY <1>1, <1>2, <1>3, <1>5 DEF ClampAlarms, cap
<1> QED
  BY <1>6 DEF Alarms

\* Writing one field of a set of numbers gives a set of numbers.
LEMMA WriteOneField ==
  ASSUME NEW a \in Alarms, NEW field \in Fields, NEW value \in Nat
  PROVE  [a EXCEPT ![field] = value] \in Alarms
  BY DEF Alarms, Fields, DisconnectFields, AbsenceFields, WindowFields,
         HystFields

\* Every write of the panel leaves a set the clamps have settled.
LEMMA WrittenLands ==
  ASSUME NEW a \in Alarms, NEW field \in Fields, NEW value \in Nat
  PROVE  /\ Written(a, field, value) \in Alarms
         /\ WindowsHold(Written(a, field, value))
         /\ Ordered(Written(a, field, value))
         /\ MarginsFit(Written(a, field, value))
<1> DEFINE v == IF field \in HystFields
                THEN Lesser(value, FAULT_INPUT_HYST_MAX_MV) ELSE value
<1>1. v \in Nat
  BY DEF Lesser, FAULT_INPUT_HYST_MAX_MV
<1>2. Written(a, field, value) = ClampAlarms([a EXCEPT ![field] = v])
  BY DEF Written
<1> HIDE DEF v
<1>3. [a EXCEPT ![field] = v] \in Alarms
  BY <1>1, WriteOneField
<1> QED
  BY <1>2, <1>3, ClampLands
-----------------------------------------------------------------------------
AlarmInv ==
  /\ alarm \in Alarms
  /\ WindowsHold(alarm)
  /\ Ordered(alarm)
  /\ MarginsFit(alarm)

StateInv ==
  /\ inputValid \in BOOLEAN /\ permitted \in BOOLEAN
  /\ batLost \in BOOLEAN /\ manual \in BOOLEAN
  /\ absentCh \in [Channels -> BOOLEAN]
  /\ overSince \in Since /\ absentSince \in Since
  /\ healthySince \in Since /\ now \in Since

\* The compiled defaults satisfy the windows.
LEMMA DefaultsFit == Init => AlarmInv
  BY DEF Init, AlarmInv, Defaults, Alarms, WindowsHold, Ordered, MarginsFit,
         Within

\* Only the panel and the charger's hook touch the thresholds.
LEMMA AlarmStep == AlarmInv /\ [Next]_vars => AlarmInv'
<1> SUFFICES ASSUME AlarmInv, [Next]_vars
             PROVE  AlarmInv'
  OBVIOUS
<1>1. ASSUME NEW q \in Requests, SetParam(q[1], q[2])
      PROVE  AlarmInv'
  <2>1. q[1] \in Fields /\ q[2] \in Nat
    BY FaultAssumption
  <2> QED
    BY <1>1, <2>1, WrittenLands DEF SetParam, AlarmInv
<1>2. CASE OnSupervisionChange
  BY <1>2, ClampLands DEF OnSupervisionChange, AlarmInv
<1>3. CASE Evaluate \/ EnterManualTestMode \/ ExitManualTestMode
           \/ UNCHANGED vars
  <2>1. UNCHANGED alarm
    BY <1>3 DEF Evaluate, InvalidPass, ManualPass, JudgePass,
                EnterManualTestMode, ExitManualTestMode, vars
  <2> QED
    BY <2>1 DEF AlarmInv
<1> QED
  BY <1>1, <1>2, <1>3 DEF Next, Panel

LEMMA StateInit == Init => StateInv
<1>1. 0 \in Since
  BY FaultAssumption DEF Since
<1>2. NothingAbsent \in [Channels -> BOOLEAN]
  BY DEF NothingAbsent
<1> QED
  BY <1>1, <1>2 DEF Init, StateInv, Since

LEMMA StateStep == StateInv /\ [Next]_vars => StateInv'
<1> SUFFICES ASSUME StateInv, [Next]_vars
             PROVE  StateInv'
  OBVIOUS
<1>1. ASSUME NextTick
      PROVE  now' \in Since
  <2>1. PICK d \in PassTicks : now' = (now + d) % TickMod
    BY <1>1 DEF NextTick
  <2> QED
    BY <2>1, FaultAssumption DEF StateInv, Since
<1>2. 0 \in Since
  BY FaultAssumption DEF Since
<1>3. ASSUME NEW r \in Readings, JudgePass(r)
      PROVE  StateInv'
  <2>1. now' \in Since
    BY <1>1, <1>3 DEF JudgePass
  <2>2. overSince' \in Since /\ absentSince' \in Since
        /\ healthySince' \in Since
    BY <1>2, <1>3, <2>1 DEF JudgePass, Running, Noted, StateInv
  <2>3. inputValid' \in BOOLEAN /\ permitted' \in BOOLEAN
        /\ batLost' \in BOOLEAN /\ manual' \in BOOLEAN
    BY <1>3 DEF JudgePass, UpdateInputPermission, StateInv
  <2>4. absentCh' \in [Channels -> BOOLEAN]
    BY <1>3 DEF JudgePass
  <2> QED
    BY <2>1, <2>2, <2>3, <2>4 DEF StateInv
<1>4. ASSUME NEW valid \in BOOLEAN, NEW v, ManualPass(valid, v)
      PROVE  StateInv'
  BY <1>1, <1>2, <1>4 DEF ManualPass, UpdateInputPermission,
     RestartDebounces, NothingAbsent, StateInv
<1>5. CASE InvalidPass
  BY <1>1, <1>2, <1>5 DEF InvalidPass, UpdateInputPermission,
     RestartDebounces, NothingAbsent, StateInv
<1>6. CASE Panel \/ OnSupervisionChange
  BY <1>6 DEF Panel, SetParam, OnSupervisionChange, sinceTicks, StateInv
<1>7. CASE EnterManualTestMode \/ ExitManualTestMode \/ UNCHANGED vars
  BY <1>7 DEF EnterManualTestMode, ExitManualTestMode, sinceTicks, vars,
     StateInv
<1> QED
  BY <1>3, <1>4, <1>5, <1>6, <1>7 DEF Next, Evaluate

\* A healthy pass has no cause of the alarm: this is where the order of the
\* thresholds matters.
LEMMA HealthyHasNoCause ==
  ASSUME AlarmInv, NEW r \in Readings, Healthy(r)
  PROVE  /\ ~AnyOver(r) /\ ~AnyHalfLow(r)
         /\ \A ch \in Channels :
              ~Over(r, ch) /\ ~HalfLow(r, ch)
                /\ ~(r.half[ch] < FAULT_BAT_HARD_ABSENT_MV)
<1>1. /\ alarm.absentMv \in Nat /\ alarm.backMv \in Nat
      /\ alarm.absentMv < alarm.backMv /\ 4000 <= alarm.backMv
  BY DEF AlarmInv, Alarms, WindowsHold, Ordered, Within
<1>2. \A ch \in Channels : r.half[ch] \in Nat
  BY FaultAssumption
<1>3. /\ ~AnyOver(r)
      /\ \A ch \in Channels : r.half[ch] >= alarm.backMv
  BY DEF Healthy
<1> QED
  BY <1>1, <1>2, <1>3
     DEF AnyOver, AnyHalfLow, HalfLow, FAULT_BAT_HARD_ABSENT_MV

LEMMA VerdictStep ==
  AlarmInv /\ OneVerdictAtATime /\ [Next]_vars => OneVerdictAtATime'
<1> SUFFICES ASSUME AlarmInv, OneVerdictAtATime, [Next]_vars
             PROVE  OneVerdictAtATime'
  OBVIOUS
<1>1. ASSUME NEW r \in Readings, JudgePass(r)
      PROVE  OneVerdictAtATime'
  <2> SUFFICES ASSUME healthySince' # 0
               PROVE  overSince' = 0 /\ absentSince' = 0
                      /\ ~BatteryAbsentForReset'
    BY DEF OneVerdictAtATime
  <2>1. Healthy(r)
    BY <1>1 DEF JudgePass, Running
  <2>2. overSince' = 0 /\ absentSince' = 0
    BY <1>1, <2>1, HealthyHasNoCause DEF JudgePass, Running
  <2>3. \A ch \in Channels : ~absentCh'[ch]
    BY <1>1, <2>1, HealthyHasNoCause DEF JudgePass
  <2> QED
    BY <2>2, <2>3 DEF BatteryAbsentForReset
<1>2. ASSUME RestartDebounces
      PROVE  OneVerdictAtATime'
  BY <1>2 DEF RestartDebounces, OneVerdictAtATime
<1>3. CASE Panel \/ OnSupervisionChange \/ EnterManualTestMode
           \/ ExitManualTestMode \/ UNCHANGED vars
  BY <1>3 DEF Panel, SetParam, OnSupervisionChange, EnterManualTestMode,
     ExitManualTestMode, sinceTicks, vars, OneVerdictAtATime,
     BatteryAbsentForReset
<1> QED
  BY <1>1, <1>2, <1>3 DEF Next, Evaluate, InvalidPass, ManualPass
-----------------------------------------------------------------------------
\* The thresholds always stay in their windows, whatever the panel writes.
THEOREM FaultTypeCorrect == Spec => []TypeOK
<1>1. Init => AlarmInv /\ StateInv
  BY DefaultsFit, StateInit
<1>2. AlarmInv /\ StateInv /\ [Next]_vars => AlarmInv' /\ StateInv'
  BY AlarmStep, StateStep
<1>3. AlarmInv /\ StateInv => TypeOK
  BY DEF AlarmInv, StateInv, TypeOK
<1> QED
  BY <1>1, <1>2, <1>3, PTL DEF Spec

\* No sequence of panel writes crosses absent with back, nor inverts the input
\* window or its inner band.
THEOREM ThresholdsStayOrdered == Spec => []ThresholdsOrdered
<1>1. AlarmInv => ThresholdsOrdered
  BY DEF AlarmInv, ThresholdsOrdered
<1> QED
  BY <1>1, DefaultsFit, AlarmStep, PTL DEF Spec

\* The thresholds in force are always a fixed point of the clamps, so applying
\* them again, as the charger's hook does, changes nothing.
THEOREM ClampsSettle == Spec => []ClampSettled
<1>1. AlarmInv => ClampSettled
  BY ClampKeeps DEF AlarmInv, ClampSettled
<1> QED
  BY <1>1, DefaultsFit, AlarmStep, PTL DEF Spec

\* Loss and return of the pack are never timed by the same pass.
THEOREM VerdictsExclude == Spec => []OneVerdictAtATime
<1>1. Init => AlarmInv /\ OneVerdictAtATime
  BY DefaultsFit DEF Init, OneVerdictAtATime
<1> QED
  BY <1>1, AlarmStep, VerdictStep, PTL DEF Spec
-----------------------------------------------------------------------------
(***************************************************************************)
(* What the outside world saw: the observer of MCFault measures each cause *)
(* by itself, and its measure covers the module's start ticks.             *)
(***************************************************************************)

\* Time between two ticks of the wrapping counter.
LEMMA ElapsedIs ==
  ASSUME NEW a \in Since, NEW b \in Since
  PROVE  Elapsed(a, b) = IF a <= b THEN b - a ELSE b - a + TickMod
<1>1. TickMod \in Nat /\ TickMod > 0 /\ a \in 0..TickMod-1 /\ b \in 0..TickMod-1
  BY FaultAssumption DEF Since
<1>2. CASE a <= b
  BY <1>1, <1>2 DEF Elapsed
<1>3. CASE ~(a <= b)
  BY <1>1, <1>3 DEF Elapsed
<1>4. QED BY <1>2, <1>3

LEMMA ElapsedBetween ==
  ASSUME NEW a \in Since, NEW b \in Since, NEW c \in Since
  PROVE  /\ Elapsed(a, c) \in Nat /\ Elapsed(a, b) \in Nat
         /\ Elapsed(a, c) <= Elapsed(a, b) + Elapsed(b, c)
  BY ElapsedIs, FaultAssumption DEF Since

LEMMA TicksBounded ==
  ASSUME NEW ms \in Nat, ms <= 5000
  PROVE  TicksOf(ms) \in Nat /\ TicksOf(ms) <= MaxRun
<1> DEFINE scaled == ms * TickHz
           most == 5000 * TickHz
<1>1. TickHz \in Nat /\ ms \in Nat
  BY FaultAssumption
<1>2. scaled \in Nat /\ most \in Nat /\ scaled <= most
  BY <1>1
<1>3. TicksOf(ms) = (scaled + 999) \div 1000 /\ TicksOf(5000) = (most + 999) \div 1000
  BY DEF TicksOf
<1> HIDE DEF scaled, most
<1>4. QED BY <1>2, <1>3, RunAssumption

RunLengths == -1 .. MaxRun

\* A run that goes on for one more pass.
Grown(n) == IF n = -1 THEN 0 ELSE Lesser(n + Elapsed(now, now'), MaxRun)

\* A running debounce is no older than the run the world measured.
Covers(since, n) ==
  since # 0 => n >= 0 /\ n >= Lesser(Elapsed(since, now), MaxRun)

RunInv ==
  /\ run \in [over : RunLengths, absent : RunLengths, healthy : RunLengths]
  /\ Covers(overSince, run.over)
  /\ Covers(absentSince, run.absent)
  /\ Covers(healthySince, run.healthy)

\* The world's run outlives a debounce from one pass to the next.
LEMMA RunGrows ==
  ASSUME NEW since \in Since, NEW n \in RunLengths, Covers(since, n),
         now \in Since, now' \in Since
  PROVE  /\ Grown(n) \in Nat /\ Grown(n) <= MaxRun
         /\ since # 0 => Grown(n) >= Lesser(Elapsed(since, now'), MaxRun)
<1>1. MaxRun \in Nat /\ Elapsed(now, now') \in Nat
  BY RunAssumption, ElapsedBetween
<1>2. n \in Int /\ -1 <= n
  BY <1>1 DEF RunLengths
<1>3. Grown(n) \in Nat /\ Grown(n) <= MaxRun
  BY <1>1, <1>2 DEF Grown, Lesser
<1>4. ASSUME since # 0
      PROVE  Grown(n) >= Lesser(Elapsed(since, now'), MaxRun)
  <2>1. /\ Elapsed(since, now) \in Nat /\ Elapsed(since, now') \in Nat
        /\ Elapsed(since, now') <= Elapsed(since, now) + Elapsed(now, now')
    BY ElapsedBetween
  <2>2. n >= 0 /\ n >= Lesser(Elapsed(since, now), MaxRun)
    BY <1>4 DEF Covers
  <2>3. n \in Nat /\ Grown(n) = Lesser(n + Elapsed(now, now'), MaxRun)
    BY <1>2, <2>2 DEF Grown
  <2>4. QED BY <1>1, <2>1, <2>2, <2>3 DEF Lesser
<1>5. QED BY <1>3, <1>4

LEMMA CoverStep ==
  ASSUME NEW since \in Since, NEW n \in RunLengths, Covers(since, n),
         now \in Since, now' \in Since,
         NEW since2, NEW n2,
         since2 # 0 => since2 = Noted(since, now') /\ n2 = Grown(n)
  PROVE  since2 # 0 => n2 >= 0 /\ n2 >= Lesser(Elapsed(since2, now'), MaxRun)
<1> SUFFICES ASSUME since2 # 0
             PROVE  n2 >= 0 /\ n2 >= Lesser(Elapsed(since2, now'), MaxRun)
  OBVIOUS
<1>1. n2 = Grown(n) /\ n2 \in Nat
  BY RunGrows
<1>2. CASE since # 0
  <2>1. since2 = since
    BY <1>2 DEF Noted
  <2>2. QED BY <1>1, <1>2, <2>1, RunGrows
<1>3. CASE since = 0
  <2>1. since2 = now' /\ Elapsed(now', now') = 0
    BY <1>3, ElapsedIs DEF Noted, Since
  <2>2. Lesser(Elapsed(since2, now'), MaxRun) = 0
    BY <2>1, RunAssumption DEF Lesser
  <2>3. QED BY <1>1, <2>2
<1>4. QED BY <1>2, <1>3

\* A debounce that is done at this tick has been measured in full.
LEMMA DoneRun ==
  ASSUME NEW since \in Since, NEW n \in RunLengths, NEW ms \in Nat, ms <= 5000,
         now \in Since, now' \in Since, Covers(since, n),
         DebounceDone(since, now', ms)
  PROVE  Grown(n) >= TicksOf(ms)
<1> DEFINE length == Grown(n)
           age == Elapsed(since, now')
           span == TicksOf(ms)
<1>0. since # 0
  BY DEF DebounceDone
<1>1. age >= span
  BY DEF DebounceDone
<1>2. length \in Nat /\ length >= Lesser(age, MaxRun)
  <2>1. length \in Nat
    BY RunGrows
  <2>2. Grown(n) >= Lesser(Elapsed(since, now'), MaxRun)
    BY <1>0, RunGrows
  <2>3. QED BY <2>1, <2>2
<1>3. span \in Nat /\ span <= MaxRun
  <2>1. TicksOf(ms) \in Nat /\ TicksOf(ms) <= MaxRun
    BY TicksBounded
  <2>2. QED BY <2>1
<1>4. age \in Nat
  BY ElapsedBetween
<1> HIDE DEF length, age, span
<1>5. length >= span
  BY <1>1, <1>2, <1>3, <1>4, RunAssumption DEF Lesser
<1>6. QED BY <1>5 DEF length, span

LEMMA RunBroken == Broken \in [over : RunLengths, absent : RunLengths, healthy : RunLengths]
  BY RunAssumption DEF Broken, RunLengths

\* One judging pass: the run of each cause goes on exactly while the pass finds
\* the cause, and every debounce it leaves running is covered.
LEMMA JudgeCovered ==
  ASSUME AlarmInv, StateInv, StateInv', RunInv, NEW r \in Readings, ObsJudge(r)
  PROVE  RunInv'
<1>1. /\ run.over \in RunLengths /\ run.absent \in RunLengths
      /\ run.healthy \in RunLengths
      /\ overSince \in Since /\ absentSince \in Since /\ healthySince \in Since
      /\ now \in Since /\ now' \in Since
  BY DEF RunInv, StateInv
<1>2. /\ Covers(overSince, run.over) /\ Covers(absentSince, run.absent)
      /\ Covers(healthySince, run.healthy)
  BY DEF RunInv
<1> DEFINE absent == permitted' /\ AnyHalfLow(r)
           o == Longer(run.over, AnyOver(r))
           a == Longer(run.absent, absent)
           h == Longer(run.healthy, Healthy(r))
<1>3. run' = [over |-> o, absent |-> a, healthy |-> h]
  BY DEF ObsJudge
<1>4. /\ o = IF AnyOver(r) THEN Grown(run.over) ELSE -1
      /\ a = IF absent THEN Grown(run.absent) ELSE -1
      /\ h = IF Healthy(r) THEN Grown(run.healthy) ELSE -1
  BY DEF Longer, Grown
<1>5. /\ Grown(run.over) \in RunLengths
      /\ Grown(run.absent) \in RunLengths
      /\ Grown(run.healthy) \in RunLengths
      /\ -1 \in RunLengths
  BY <1>1, <1>2, RunGrows, RunAssumption DEF RunLengths
<1>6. o \in RunLengths /\ a \in RunLengths /\ h \in RunLengths
  BY <1>4, <1>5
<1>7. overSince' # 0 => overSince' = Noted(overSince, now') /\ o = Grown(run.over)
  BY <1>4 DEF ObsJudge, JudgePass, Running
<1>8. absentSince' # 0
        => absentSince' = Noted(absentSince, now') /\ a = Grown(run.absent)
  <2>1. permitted' <=> Permission(permitted, r.vIn)
    BY DEF ObsJudge, JudgePass, UpdateInputPermission
  <2>2. SUFFICES ASSUME absentSince' # 0
                 PROVE  /\ absentSince' = Noted(absentSince, now')
                        /\ a = Grown(run.absent)
    OBVIOUS
  <2>3. absentSince' = Running(Permission(permitted, r.vIn) /\ AnyHalfLow(r), absentSince, now')
    BY DEF ObsJudge, JudgePass
  <2>4. /\ Permission(permitted, r.vIn) /\ AnyHalfLow(r)
        /\ absentSince' = Noted(absentSince, now')
    BY <2>2, <2>3 DEF Running
  <2>5. permitted'
    BY <2>1, <2>4
  <2>6. QED BY <1>4, <2>4, <2>5
<1>9. healthySince' # 0
        => healthySince' = Noted(healthySince, now') /\ h = Grown(run.healthy)
  BY <1>4 DEF ObsJudge, JudgePass, Running
<1> HIDE DEF o, a, h
<1>10. run'.over = o /\ run'.absent = a /\ run'.healthy = h
  BY <1>3
<1>11. run' \in [over : RunLengths, absent : RunLengths, healthy : RunLengths]
  BY <1>3, <1>6
<1>12. Covers(overSince, run.over)'
  BY <1>1, <1>2, <1>7, <1>10, CoverStep DEF Covers
<1>13. Covers(absentSince, run.absent)'
  BY <1>1, <1>2, <1>8, <1>10, CoverStep DEF Covers
<1>14. Covers(healthySince, run.healthy)'
  BY <1>1, <1>2, <1>9, <1>10, CoverStep DEF Covers
<1>15. QED BY <1>11, <1>12, <1>13, <1>14 DEF RunInv

LEMMA RunStep == AlarmInv /\ StateInv /\ RunInv /\ [ObsNext]_obsVars => RunInv'
<1> SUFFICES ASSUME AlarmInv, StateInv, RunInv, [ObsNext]_obsVars
             PROVE  RunInv'
  OBVIOUS
<1>1. [Next]_vars
  BY DEF ObsNext, ObsPass, ObsBlind, ObsJudge, ObsOther, Next, Evaluate,
         obsVars, vars
<1>2. StateInv'
  BY <1>1, StateStep
<1>3. ASSUME NEW r \in Readings, ObsJudge(r) PROVE RunInv'
  BY <1>2, <1>3, JudgeCovered
<1>4. CASE ObsBlind
  <2>1. overSince' = 0 /\ absentSince' = 0 /\ healthySince' = 0 /\ run' = Broken
    BY <1>4 DEF ObsBlind, InvalidPass, ManualPass, RestartDebounces
  <2>2. QED BY <2>1, RunBroken DEF RunInv, Covers
<1>5. CASE ObsOther
  <2>1. UNCHANGED <<sinceTicks, now, run>>
    BY <1>5 DEF ObsOther, Panel, SetParam, OnSupervisionChange,
                EnterManualTestMode, ExitManualTestMode
  <2>2. QED BY <2>1 DEF sinceTicks, RunInv, Covers, Elapsed
<1>6. CASE UNCHANGED obsVars
  BY <1>6 DEF obsVars, vars, RunInv, Covers, Elapsed
<1>7. QED BY <1>3, <1>4, <1>5, <1>6 DEF ObsNext, ObsPass

ObsInv == AlarmInv /\ StateInv /\ RunInv

LEMMA Observed == ObsSpec => []ObsInv
<1>1. ObsInit => ObsInv
  <2> SUFFICES ASSUME ObsInit PROVE ObsInv
    OBVIOUS
  <2>1. AlarmInv /\ StateInv
    BY DefaultsFit, StateInit DEF ObsInit
  <2>2. overSince = 0 /\ absentSince = 0 /\ healthySince = 0 /\ run = Broken
    BY DEF ObsInit, Init
  <2>3. RunInv
    BY <2>2, RunBroken DEF RunInv, Covers
  <2>4. QED BY <2>1, <2>3 DEF ObsInv
<1>2. ObsInv /\ [ObsNext]_obsVars => ObsInv'
  <2> SUFFICES ASSUME ObsInv, [ObsNext]_obsVars PROVE ObsInv'
    OBVIOUS
  <2>1. [Next]_vars
    BY DEF ObsNext, ObsPass, ObsBlind, ObsJudge, ObsOther, Next, Evaluate,
           obsVars, vars
  <2>2. AlarmInv' /\ StateInv'
    BY <2>1, AlarmStep, StateStep DEF ObsInv
  <2>3. RunInv'
    BY RunStep DEF ObsInv
  <2>4. QED BY <2>2, <2>3 DEF ObsInv
<1>3. QED BY <1>1, <1>2, PTL DEF ObsSpec

LEMMA DebounceTimes ==
  ASSUME AlarmInv
  PROVE  /\ alarm.disconnectDebMs \in Nat /\ alarm.disconnectDebMs <= 5000
         /\ alarm.absentDebMs \in Nat /\ alarm.absentDebMs <= 5000
         /\ alarm.recoverMs \in Nat /\ alarm.recoverMs <= 5000
<1>1. /\ alarm.disconnectDebMs \in Nat /\ alarm.absentDebMs \in Nat
      /\ alarm.recoverMs \in Nat
  BY DEF AlarmInv, Alarms
<1>2. /\ alarm.disconnectDebMs <= 1000 /\ alarm.absentDebMs <= 5000
      /\ alarm.recoverMs <= 5000
  BY DEF AlarmInv, WindowsHold, Within
<1>3. QED BY <1>1, <1>2

\* What a pass that judges a debounce done has behind it.
LEMMA DoneIsMeasured ==
  ASSUME ObsInv, NEW r \in Readings, ObsJudge(r)
  PROVE  /\ AnyOver(r) /\ DebounceDone(overSince, now', alarm.disconnectDebMs)
              => run'.over >= TicksOf(alarm.disconnectDebMs)
         /\ Permission(permitted, r.vIn) /\ AnyHalfLow(r) =>
              (DebounceDone(absentSince, now', alarm.absentDebMs)
                => run'.absent >= TicksOf(alarm.absentDebMs))
         /\ Healthy(r) /\ DebounceDone(healthySince, now', alarm.recoverMs)
              => run'.healthy >= TicksOf(alarm.recoverMs)
<1>1. now' \in Since
  <2>1. [Next]_vars
    BY DEF ObsJudge, Next, Evaluate
  <2>2. QED BY <2>1, StateStep DEF ObsInv, StateInv
<1>2. /\ run.over \in RunLengths /\ run.absent \in RunLengths
      /\ run.healthy \in RunLengths
      /\ overSince \in Since /\ absentSince \in Since /\ healthySince \in Since
      /\ now \in Since
  BY DEF ObsInv, RunInv, StateInv
<1>3. /\ Covers(overSince, run.over) /\ Covers(absentSince, run.absent)
      /\ Covers(healthySince, run.healthy)
  BY DEF ObsInv, RunInv
<1>4. /\ alarm.disconnectDebMs \in Nat /\ alarm.disconnectDebMs <= 5000
      /\ alarm.absentDebMs \in Nat /\ alarm.absentDebMs <= 5000
      /\ alarm.recoverMs \in Nat /\ alarm.recoverMs <= 5000
  BY DebounceTimes DEF ObsInv
<1>5. /\ run'.over = Longer(run.over, AnyOver(r))
      /\ run'.absent = Longer(run.absent, permitted' /\ AnyHalfLow(r))
      /\ run'.healthy = Longer(run.healthy, Healthy(r))
  BY DEF ObsJudge
<1>6. permitted' <=> Permission(permitted, r.vIn)
  BY DEF ObsJudge, JudgePass, UpdateInputPermission
<1>7. /\ AnyOver(r) => run'.over = Grown(run.over)
      /\ Permission(permitted, r.vIn) /\ AnyHalfLow(r)
           => run'.absent = Grown(run.absent)
      /\ Healthy(r) => run'.healthy = Grown(run.healthy)
  BY <1>5, <1>6 DEF Longer, Grown
<1>8. ASSUME DebounceDone(overSince, now', alarm.disconnectDebMs)
      PROVE  Grown(run.over) >= TicksOf(alarm.disconnectDebMs)
  BY <1>1, <1>2, <1>3, <1>4, <1>8, DoneRun
<1>9. ASSUME DebounceDone(absentSince, now', alarm.absentDebMs)
      PROVE  Grown(run.absent) >= TicksOf(alarm.absentDebMs)
  BY <1>1, <1>2, <1>3, <1>4, <1>9, DoneRun
<1>10. ASSUME DebounceDone(healthySince, now', alarm.recoverMs)
       PROVE  Grown(run.healthy) >= TicksOf(alarm.recoverMs)
  BY <1>1, <1>2, <1>3, <1>4, <1>10, DoneRun
<1>11. AnyOver(r) /\ DebounceDone(overSince, now', alarm.disconnectDebMs)
         => run'.over >= TicksOf(alarm.disconnectDebMs)
  BY <1>7, <1>8, Zenon
<1>12. Permission(permitted, r.vIn) /\ AnyHalfLow(r) =>
         (DebounceDone(absentSince, now', alarm.absentDebMs)
            => run'.absent >= TicksOf(alarm.absentDebMs))
  BY <1>7, <1>9, Zenon
<1>13. Healthy(r) /\ DebounceDone(healthySince, now', alarm.recoverMs)
         => run'.healthy >= TicksOf(alarm.recoverMs)
  BY <1>7, <1>10, Zenon
<1>14. QED BY <1>11, <1>12, <1>13, Zenon

LEMMA OnlyJudgesMoveTheAlarm ==
  ASSUME [ObsNext]_obsVars, batLost' # batLost
  PROVE  (manual' /\ ~batLost') \/ \E r \in Readings : ObsJudge(r)
  BY DEF ObsNext, ObsPass, ObsBlind, ObsOther, InvalidPass, ManualPass, Panel,
         SetParam, OnSupervisionChange, EnterManualTestMode,
         ExitManualTestMode, obsVars, vars

LEMMA RaisedStep ==
  ASSUME ObsInv, [ObsNext]_obsVars, ~batLost, batLost'
  PROVE  \/ run'.over >= TicksOf(alarm.disconnectDebMs)
         \/ run'.absent >= TicksOf(alarm.absentDebMs)
<1>1. PICK r \in Readings : ObsJudge(r)
  BY OnlyJudgesMoveTheAlarm
<1>2. \/ /\ AnyOver(r)
         /\ DebounceDone(overSince, now', alarm.disconnectDebMs)
      \/ /\ Permission(permitted, r.vIn) /\ AnyHalfLow(r)
         /\ DebounceDone(absentSince, now', alarm.absentDebMs)
  BY <1>1 DEF ObsJudge, JudgePass
<1>3. QED BY <1>1, <1>2, DoneIsMeasured, Zenon

LEMMA ReleasedStep ==
  ASSUME ObsInv, [ObsNext]_obsVars, batLost, ~batLost', ~manual'
  PROVE  run'.healthy >= TicksOf(alarm.recoverMs)
<1>1. PICK r \in Readings : ObsJudge(r)
  BY OnlyJudgesMoveTheAlarm
<1>2. Healthy(r) /\ DebounceDone(healthySince, now', alarm.recoverMs)
  BY <1>1 DEF ObsJudge, JudgePass
<1>3. QED BY <1>1, <1>2, DoneIsMeasured, Zenon

\* No battery-lost alarm without the cause seen in every pass of a whole
\* debounce, measured from outside: for every tick rate, wrap and pass spacing
\* and every sequence of blind passes, manual tests and panel writes.
THEOREM AlarmsNeedCauses == ObsSpec => AlarmNeedsCause
<1>1. ObsInv /\ [ObsNext]_obsVars
      => [~batLost /\ batLost' =>
            \/ run'.over >= TicksOf(alarm.disconnectDebMs)
            \/ run'.absent >= TicksOf(alarm.absentDebMs)]_obsVars
  BY RaisedStep
<1>2. QED BY <1>1, Observed, PTL DEF ObsSpec, AlarmNeedsCause

\* Nothing but the bench's manual test takes the alarm back before the pack has
\* looked healthy for the whole recovery time.
THEOREM AlarmsHold == ObsSpec => AlarmHoldsUntilHealthy
<1>1. ObsInv /\ [ObsNext]_obsVars
      => [batLost /\ ~batLost' =>
            manual' \/ run'.healthy >= TicksOf(alarm.recoverMs)]_obsVars
  BY ReleasedStep
<1>2. QED BY <1>1, Observed, PTL DEF ObsSpec, AlarmHoldsUntilHealthy
-----------------------------------------------------------------------------
(***************************************************************************)
(* The reboot: ten writes over the compiled defaults, in the stored order. *)
(***************************************************************************)

Settled(a) == WindowsHold(a) /\ Ordered(a) /\ MarginsFit(a)

\* The stages of a replay, one write after the other.
LEMMA ReplayStages ==
  ASSUME NEW saved
  PROVE  \E s : /\ s[0] = Defaults
                /\ s[1] = Written(s[0], "disconnectMv", saved["disconnectMv"])
                /\ s[2] = Written(s[1], "disconnectDebMs", saved["disconnectDebMs"])
                /\ s[3] = Written(s[2], "absentMv", saved["absentMv"])
                /\ s[4] = Written(s[3], "backMv", saved["backMv"])
                /\ s[5] = Written(s[4], "absentDebMs", saved["absentDebMs"])
                /\ s[6] = Written(s[5], "recoverMs", saved["recoverMs"])
                /\ s[7] = Written(s[6], "inputMinMv", saved["inputMinMv"])
                /\ s[8] = Written(s[7], "inputMaxMv", saved["inputMaxMv"])
                /\ s[9] = Written(s[8], "hystLowMv", saved["hystLowMv"])
                /\ s[10] = Written(s[9], "hystHighMv", saved["hystHighMv"])
                /\ Replay(saved) = s[10]
<1> DEFINE W(a, n) == Written(a, ReplayOrder[n], saved[ReplayOrder[n]])
           Body(f) == [n \in 0 .. Len(ReplayOrder) |->
                         IF n = 0 THEN Defaults ELSE W(f[n - 1], n)]
           s0 == Defaults
           s1 == W(s0, 1)
           s2 == W(s1, 2)
           s3 == W(s2, 3)
           s4 == W(s3, 4)
           s5 == W(s4, 5)
           s6 == W(s5, 6)
           s7 == W(s6, 7)
           s8 == W(s7, 8)
           s9 == W(s8, 9)
           s10 == W(s9, 10)
           g == [n \in 0 .. Len(ReplayOrder) |->
                   IF n = 0 THEN s0 ELSE IF n = 1 THEN s1 ELSE IF n = 2 THEN s2
                   ELSE IF n = 3 THEN s3 ELSE IF n = 4 THEN s4
                   ELSE IF n = 5 THEN s5 ELSE IF n = 6 THEN s6
                   ELSE IF n = 7 THEN s7 ELSE IF n = 8 THEN s8
                   ELSE IF n = 9 THEN s9 ELSE s10]
           s == CHOOSE f : f = Body(f)
<1>1. Len(ReplayOrder) = 10
  BY DEF ReplayOrder
<1>2. g = Body(g)
  <2>1. \A n \in 0 .. 10 : g[n] = IF n = 0 THEN Defaults ELSE W(g[n - 1], n)
    <3> HIDE DEF W
    <3> SUFFICES ASSUME NEW n \in 0 .. 10
                 PROVE  g[n] = IF n = 0 THEN Defaults ELSE W(g[n - 1], n)
      OBVIOUS
    <3>1. \/ n = 0 \/ n = 1 \/ n = 2 \/ n = 3 \/ n = 4 \/ n = 5 \/ n = 6
          \/ n = 7 \/ n = 8 \/ n = 9 \/ n = 10
      OBVIOUS
    <3>2. QED BY <1>1, <3>1
  <2> HIDE DEF W, s0, s1, s2, s3, s4, s5, s6, s7, s8, s9, s10
  <2>2. QED BY <1>1, <2>1
<1>3. s = Body(s)
  <2> HIDE DEF g, Body
  <2>1. \E f : f = Body(f)
    BY <1>2
  <2>2. QED BY <2>1
<1>4. Replay(saved) = s[10]
  BY <1>1 DEF Replay
<1> HIDE DEF s, g
<1>5. /\ s[0] = Defaults
      /\ s[1] = W(s[0], 1) /\ s[2] = W(s[1], 2) /\ s[3] = W(s[2], 3)
      /\ s[4] = W(s[3], 4) /\ s[5] = W(s[4], 5) /\ s[6] = W(s[5], 6)
      /\ s[7] = W(s[6], 7) /\ s[8] = W(s[7], 8) /\ s[9] = W(s[8], 9)
      /\ s[10] = W(s[9], 10)
  <2>1. \A n \in 0 .. 10 : s[n] = IF n = 0 THEN Defaults ELSE W(s[n - 1], n)
    <3> HIDE DEF W
    <3>1. QED BY <1>1, <1>3
  <2> HIDE DEF W, Body
  <2>2. QED BY <2>1
<1>6. /\ ReplayOrder[1] = "disconnectMv" /\ ReplayOrder[2] = "disconnectDebMs"
      /\ ReplayOrder[3] = "absentMv" /\ ReplayOrder[4] = "backMv"
      /\ ReplayOrder[5] = "absentDebMs" /\ ReplayOrder[6] = "recoverMs"
      /\ ReplayOrder[7] = "inputMinMv" /\ ReplayOrder[8] = "inputMaxMv"
      /\ ReplayOrder[9] = "hystLowMv" /\ ReplayOrder[10] = "hystHighMv"
  BY DEF ReplayOrder
<1>7. QED
  <2> WITNESS s
  <2>1. QED BY <1>4, <1>5, <1>6

Numbers(d, dd, absent, back, deb, rec, min, max, lo, hi) ==
  [disconnectMv |-> d, disconnectDebMs |-> dd, absentMv |-> absent,
   backMv |-> back, absentDebMs |-> deb, recoverMs |-> rec,
   inputMinMv |-> min, inputMaxMv |-> max, hystLowMv |-> lo, hystHighMv |-> hi]

\* A write that leaves a settled set is the write and nothing else.
LEMMA WriteSettles ==
  ASSUME NEW a \in Alarms, NEW field \in Fields, NEW value \in Nat,
         NEW b \in Alarms, b = [a EXCEPT ![field] = value], Settled(b)
  PROVE  Written(a, field, value) = b
<1>1. ASSUME field \in HystFields PROVE Lesser(value, FAULT_INPUT_HYST_MAX_MV) = value
  <2>1. b[field] = value
    BY DEF Alarms, Fields, DisconnectFields, AbsenceFields, WindowFields, HystFields
  <2>2. b.hystLowMv <= 3000 /\ b.hystHighMv <= 3000
    BY DEF Settled, WindowsHold, Within
  <2>3. value <= 3000
    BY <1>1, <2>1, <2>2 DEF HystFields
  <2>4. QED BY <2>3 DEF Lesser, FAULT_INPUT_HYST_MAX_MV
<1>2. Written(a, field, value) = ClampAlarms(b)
  <2>1. CASE field \in HystFields
    BY <1>1, <2>1 DEF Written
  <2>2. CASE field \notin HystFields
    BY <2>2 DEF Written
  <2>3. QED BY <2>1, <2>2
<1>3. QED BY <1>2, ClampKeeps DEF Settled

\* The replay lowers a stored absent threshold to what the compiled return
\* threshold leaves room for, and gives every other number back.
LEMMA ReplayGives ==
  ASSUME NEW a \in Alarms, Settled(a)
  PROVE  Replay(a) =
           Numbers(a.disconnectMv, a.disconnectDebMs, Lesser(a.absentMv, 6500),
                   a.backMv, a.absentDebMs, a.recoverMs, a.inputMinMv,
                   a.inputMaxMv, a.hystLowMv, a.hystHighMv)
<1> DEFINE d == a.disconnectMv
           dd == a.disconnectDebMs
           absent == Lesser(a.absentMv, 6500)
           back == a.backMv
           deb == a.absentDebMs
           rec == a.recoverMs
           min == a.inputMinMv
           max == a.inputMaxMv
           lo == a.hystLowMv
           hi == a.hystHighMv
           cap == Lesser((max - min) \div 4, FAULT_INPUT_HYST_MAX_MV)
           low == Lesser(500, cap)
           R1 == Numbers(d, 150, 6000, 7000, 1000, 1000, 21000, 28000, 500, 500)
           R2 == Numbers(d, dd, 6000, 7000, 1000, 1000, 21000, 28000, 500, 500)
           R3 == Numbers(d, dd, absent, 7000, 1000, 1000, 21000, 28000, 500, 500)
           R4 == Numbers(d, dd, absent, back, 1000, 1000, 21000, 28000, 500, 500)
           R5 == Numbers(d, dd, absent, back, deb, 1000, 21000, 28000, 500, 500)
           R6 == Numbers(d, dd, absent, back, deb, rec, 21000, 28000, 500, 500)
           R7 == Numbers(d, dd, absent, back, deb, rec, min, 28000, 500, 500)
           R8 == Numbers(d, dd, absent, back, deb, rec, min, max, low, low)
           R9 == Numbers(d, dd, absent, back, deb, rec, min, max, lo, low)
           R10 == Numbers(d, dd, absent, back, deb, rec, min, max, lo, hi)
<1>1. /\ d \in Nat /\ Within(d, 14000, 15000)
      /\ dd \in Nat /\ Within(dd, 50, 1000)
      /\ a.absentMv \in Nat /\ Within(a.absentMv, 3000, 8000)
      /\ back \in Nat /\ Within(back, 4000, 9000) /\ a.absentMv + 500 <= back
      /\ deb \in Nat /\ Within(deb, 100, 5000)
      /\ rec \in Nat /\ Within(rec, 100, 5000)
  BY DEF Alarms, Settled, WindowsHold, Ordered
<1>2. /\ min \in Nat /\ Within(min, 18000, 24000)
      /\ max \in Nat /\ Within(max, 24000, 30000) /\ min + 1000 <= max
      /\ lo \in Nat /\ Within(lo, 0, 3000) /\ 4 * lo <= max - min
      /\ hi \in Nat /\ Within(hi, 0, 3000) /\ 4 * hi <= max - min
  BY DEF Alarms, Settled, WindowsHold, Ordered, MarginsFit
<1>3. /\ absent \in Nat /\ Within(absent, 3000, 6500) /\ absent + 500 <= back
  BY <1>1 DEF Lesser, Within
<1>4. low \in Nat /\ Within(low, 0, 500) /\ 4 * low <= max - min
  BY <1>2 DEF Lesser, Within, FAULT_INPUT_HYST_MAX_MV
<1>5. Lesser(Bound(a.absentMv, 3000, 8000), 6500) = absent
  BY <1>1 DEF Bound, Lesser, Greater, Within
<1>6. /\ Bound(max, 24000, 30000) = max
      /\ Lesser(Bound(min, 18000, 24000), max - 1000) = min
      /\ Greater(max, min + 1000) = max
  BY <1>2 DEF Bound, Lesser, Greater, Within
<1> HIDE DEF d, dd, absent, back, deb, rec, min, max, lo, hi, low
<1>7. Defaults = Numbers(14800, 150, 6000, 7000, 1000, 1000, 21000, 28000, 500, 500)
      /\ Defaults \in Alarms
  BY DEF Defaults, Numbers, Alarms
<1>8. /\ R1 \in Alarms /\ Settled(R1) /\ R2 \in Alarms /\ Settled(R2)
      /\ R4 \in Alarms /\ Settled(R4) /\ R5 \in Alarms /\ Settled(R5)
      /\ R6 \in Alarms /\ Settled(R6) /\ R7 \in Alarms /\ Settled(R7)
  BY <1>1, <1>2, <1>3
     DEF Numbers, Alarms, Settled, WindowsHold, Ordered, MarginsFit, Within
<1>9. R3 \in Alarms /\ R8 \in Alarms
  BY <1>1, <1>2, <1>3, <1>4 DEF Numbers, Alarms
<1>10. /\ R9 \in Alarms /\ Settled(R9) /\ R10 \in Alarms /\ Settled(R10)
  BY <1>1, <1>2, <1>3, <1>4
     DEF Numbers, Alarms, Settled, WindowsHold, Ordered, MarginsFit, Within
<1>11. Written(Defaults, "disconnectMv", d) = R1
  <2>1. R1 = [Defaults EXCEPT !["disconnectMv"] = d]
    BY <1>7 DEF Numbers
  <2>2. QED BY <1>1, <1>7, <1>8, <2>1, WriteSettles DEF Fields, DisconnectFields
<1>12. Written(R1, "disconnectDebMs", dd) = R2
  <2>1. R2 = [R1 EXCEPT !["disconnectDebMs"] = dd]
    BY DEF Numbers
  <2>2. QED BY <1>1, <1>8, <2>1, WriteSettles DEF Fields, DisconnectFields
<1>13. Written(R2, "absentMv", a.absentMv) = R3
  <2>1. [R2 EXCEPT !["absentMv"] = a.absentMv]
          = Numbers(d, dd, a.absentMv, 7000, 1000, 1000, 21000, 28000, 500, 500)
    BY DEF Numbers
  <2>2. Written(R2, "absentMv", a.absentMv)
          = ClampAlarms(Numbers(d, dd, a.absentMv, 7000, 1000, 1000, 21000, 28000, 500, 500))
    BY <2>1 DEF Written, HystFields
  <2>3. /\ Bound(d, 14000, 15000) = d /\ Bound(dd, 50, 1000) = dd
        /\ Bound(1000, 100, 5000) = 1000 /\ Bound(7000, 4000, 9000) = 7000
        /\ Bound(28000, 24000, 30000) = 28000
        /\ Lesser(Bound(21000, 18000, 24000), 28000 - 1000) = 21000
        /\ Greater(28000, 21000 + 1000) = 28000
        /\ Lesser(500, Lesser((28000 - 21000) \div 4, FAULT_INPUT_HYST_MAX_MV)) = 500
        /\ Greater(7000, absent + 500) = 7000
    BY <1>1, <1>3
       DEF Bound, Lesser, Greater, Within, FAULT_INPUT_HYST_MAX_MV
  <2>4. Lesser(Bound(a.absentMv, 3000, 8000), 7000 - 500) = absent
    BY <1>5
  <2>5. QED BY <2>2, <2>3, <2>4 DEF ClampAlarms, Numbers
<1>14. Written(R3, "backMv", back) = R4
  <2>1. R4 = [R3 EXCEPT !["backMv"] = back]
    BY DEF Numbers
  <2>2. QED BY <1>1, <1>8, <1>9, <2>1, WriteSettles DEF Fields, AbsenceFields
<1>15. Written(R4, "absentDebMs", deb) = R5
  <2>1. R5 = [R4 EXCEPT !["absentDebMs"] = deb]
    BY DEF Numbers
  <2>2. QED BY <1>1, <1>8, <2>1, WriteSettles DEF Fields, AbsenceFields
<1>16. Written(R5, "recoverMs", rec) = R6
  <2>1. R6 = [R5 EXCEPT !["recoverMs"] = rec]
    BY DEF Numbers
  <2>2. QED BY <1>1, <1>8, <2>1, WriteSettles DEF Fields, AbsenceFields
<1>17. Written(R6, "inputMinMv", min) = R7
  <2>1. R7 = [R6 EXCEPT !["inputMinMv"] = min]
    BY DEF Numbers
  <2>2. QED BY <1>2, <1>8, <2>1, WriteSettles DEF Fields, WindowFields
<1>18. Written(R7, "inputMaxMv", max) = R8
  <2>1. [R7 EXCEPT !["inputMaxMv"] = max]
          = Numbers(d, dd, absent, back, deb, rec, min, max, 500, 500)
    BY DEF Numbers
  <2>2. Written(R7, "inputMaxMv", max)
          = ClampAlarms(Numbers(d, dd, absent, back, deb, rec, min, max, 500, 500))
    BY <2>1 DEF Written, HystFields
  <2>3. /\ Bound(d, 14000, 15000) = d /\ Bound(dd, 50, 1000) = dd
        /\ Bound(deb, 100, 5000) = deb /\ Bound(rec, 100, 5000) = rec
        /\ Bound(back, 4000, 9000) = back
        /\ Lesser(Bound(absent, 3000, 8000), back - 500) = absent
        /\ Greater(back, absent + 500) = back
    BY <1>1, <1>3 DEF Bound, Lesser, Greater, Within
  <2>4. low = Lesser(500, Lesser((max - min) \div 4, FAULT_INPUT_HYST_MAX_MV))
    BY DEF low, max, min
  <2>5. QED BY <1>6, <2>2, <2>3, <2>4 DEF ClampAlarms, Numbers
<1>19. Written(R8, "hystLowMv", lo) = R9
  <2>1. R9 = [R8 EXCEPT !["hystLowMv"] = lo]
    BY DEF Numbers
  <2>2. R8 \in Alarms /\ R9 \in Alarms /\ Settled(R9)
    BY <1>9, <1>10
  <2>3. "hystLowMv" \in Fields /\ lo \in Nat
    BY <1>2 DEF Fields, HystFields
  <2> HIDE DEF R8, R9
  <2>4. QED BY <2>1, <2>2, <2>3, WriteSettles
<1>20. Written(R9, "hystHighMv", hi) = R10
  <2>1. R10 = [R9 EXCEPT !["hystHighMv"] = hi]
    BY DEF Numbers
  <2>2. R9 \in Alarms /\ R10 \in Alarms /\ Settled(R10)
    BY <1>9, <1>10
  <2>3. "hystHighMv" \in Fields /\ hi \in Nat
    BY <1>2 DEF Fields, HystFields
  <2> HIDE DEF R9, R10
  <2>4. QED BY <2>1, <2>2, <2>3, WriteSettles
<1>21. /\ a["disconnectMv"] = d /\ a["disconnectDebMs"] = dd
       /\ a["absentMv"] = a.absentMv /\ a["backMv"] = back
       /\ a["absentDebMs"] = deb /\ a["recoverMs"] = rec
       /\ a["inputMinMv"] = min /\ a["inputMaxMv"] = max
       /\ a["hystLowMv"] = lo /\ a["hystHighMv"] = hi
  BY DEF d, dd, back, deb, rec, min, max, lo, hi
<1> HIDE DEF R1, R2, R3, R4, R5, R6, R7, R8, R9, R10
<1>22. Replay(a) = R10
  BY <1>11, <1>12, <1>13, <1>14, <1>15, <1>16, <1>17, <1>18, <1>19, <1>20,
     <1>21, ReplayStages
<1>23. QED
  BY <1>22 DEF R10, d, dd, absent, back, deb, rec, min, max, lo, hi

\* The reboot costs the panel nothing but a high absent threshold, whatever was
\* stored: the windows a write re-imposes never clip one written before it.
THEOREM RebootsKeepTheRest == Spec => []RebootKeepsTheRest
<1>1. ASSUME AlarmInv, NEW f \in Fields \ {"absentMv"}
      PROVE  Replay(alarm)[f] = alarm[f]
  <2>1. Replay(alarm) =
          Numbers(alarm.disconnectMv, alarm.disconnectDebMs,
                  Lesser(alarm.absentMv, 6500), alarm.backMv,
                  alarm.absentDebMs, alarm.recoverMs, alarm.inputMinMv,
                  alarm.inputMaxMv, alarm.hystLowMv, alarm.hystHighMv)
    BY <1>1, ReplayGives DEF AlarmInv, Settled
  <2>2. QED
    BY <1>1, <2>1
       DEF Numbers, Fields, DisconnectFields, AbsenceFields, WindowFields, HystFields
<1>2. AlarmInv => RebootKeepsTheRest
  BY <1>1 DEF RebootKeepsTheRest
<1>3. QED BY <1>2, DefaultsFit, AlarmStep, PTL DEF Spec
=============================================================================
