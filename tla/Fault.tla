------------------------------- MODULE Fault -------------------------------
(***************************************************************************)
(* Modules/Fault: the battery-lost alarm with its three debounces, the     *)
(* alarm thresholds the panel writes, and the shared input permission.     *)
(*                                                                         *)
(* Evaluate runs once per control pass.  The setters run in the            *)
(* communication task under the kernel lock, so each is one step; they     *)
(* write one field and re-impose the windows of the whole set.  Times are  *)
(* kept as the code keeps them: the start tick, with 0 for "not running",  *)
(* of a tick counter that wraps.                                           *)
(***************************************************************************)
EXTENDS Integers, Sequences

CONSTANTS
  TickHz,      \* osKernelGetTickFreq: 1000 on the board
  TickMod,     \* the tick counter wraps here: 2^32
  PassTicks,   \* the ticks that may lie between two control passes
  Readings,    \* snapshots and channel activity a pass may meet
  Requests     \* the <<field, value>> pairs the panel writes

DisconnectFields == {"disconnectMv", "disconnectDebMs"}
AbsenceFields == {"absentMv", "backMv", "absentDebMs", "recoverMs"}
WindowFields == {"inputMinMv", "inputMaxMv"}
HystFields == {"hystLowMv", "hystHighMv"}
Fields == DisconnectFields \cup AbsenceFields \cup WindowFields \cup HystFields

Channels == {0, 1}    \* 0 charges the high half, 1 the low half

ASSUME FaultAssumption ==
  /\ TickHz \in Nat \ {0}
  /\ TickMod \in Nat \ {0}
  /\ PassTicks \subseteq Nat \ {0}
  /\ Requests \subseteq Fields \X Nat
  /\ Readings \subseteq [vIn : Nat, half : [Channels -> Nat],
                         active : SUBSET Channels]

Lesser(a, b) == IF a < b THEN a ELSE b
Greater(a, b) == IF a > b THEN a ELSE b
Bound(v, lo, hi) == Greater(lo, Lesser(v, hi))
-----------------------------------------------------------------------------
(* The thresholds.                                                         *)

FAULT_INPUT_HYST_MAX_MV == 3000
FAULT_BAT_HARD_ABSENT_MV == 3000

Alarms ==
  [disconnectMv : Nat, disconnectDebMs : Nat, absentMv : Nat, backMv : Nat,
   absentDebMs : Nat, recoverMs : Nat, inputMinMv : Nat, inputMaxMv : Nat,
   hystLowMv : Nat, hystHighMv : Nat]

Defaults ==
  [disconnectMv |-> 14800, disconnectDebMs |-> 150,
   absentMv |-> 6000, backMv |-> 7000, absentDebMs |-> 1000,
   recoverMs |-> 1000, inputMinMv |-> 21000, inputMaxMv |-> 28000,
   hystLowMv |-> 500, hystHighMv |-> 500]

\* Each field's own window, the 500 mV between absent and back, the 1 V
\* between the ends of the input window, a quarter of that for each margin.
ClampAlarms(a) ==
  LET back == Bound(a.backMv, 4000, 9000)
      absent == Lesser(Bound(a.absentMv, 3000, 8000), back - 500)
      top == Bound(a.inputMaxMv, 24000, 30000)
      bottom == Lesser(Bound(a.inputMinMv, 18000, 24000), top - 1000)
      span == Greater(top, bottom + 1000) - bottom
      cap == Lesser(span \div 4, FAULT_INPUT_HYST_MAX_MV)
  IN [disconnectMv |-> Bound(a.disconnectMv, 14000, 15000),
      disconnectDebMs |-> Bound(a.disconnectDebMs, 50, 1000),
      absentMv |-> absent,
      backMv |-> Greater(back, absent + 500),
      absentDebMs |-> Bound(a.absentDebMs, 100, 5000),
      recoverMs |-> Bound(a.recoverMs, 100, 5000),
      inputMinMv |-> bottom,
      inputMaxMv |-> Greater(top, bottom + 1000),
      hystLowMv |-> Lesser(a.hystLowMv, cap),
      hystHighMv |-> Lesser(a.hystHighMv, cap)]

\* One write by the panel or by the replay at boot.
Written(a, field, value) ==
  ClampAlarms([a EXCEPT ![field] =
    IF field \in HystFields THEN Lesser(value, FAULT_INPUT_HYST_MAX_MV)
    ELSE value])

\* EspLink_NvmInit replays a stored record in the order of its ids, through
\* the same setters, over the compiled defaults.
ReplayWithoutMargins ==
  <<"disconnectMv", "disconnectDebMs", "absentMv", "backMv", "absentDebMs",
    "recoverMs", "inputMinMv", "inputMaxMv">>
ReplayOrder ==
  <<"disconnectMv", "disconnectDebMs", "absentMv", "backMv", "absentDebMs",
    "recoverMs", "inputMinMv", "inputMaxMv", "hystLowMv", "hystHighMv">>

Replay(saved) ==
  LET after[n \in 0 .. Len(ReplayOrder)] ==
        IF n = 0 THEN Defaults
        ELSE Written(after[n - 1], ReplayOrder[n], saved[ReplayOrder[n]])
  IN after[Len(ReplayOrder)]
-----------------------------------------------------------------------------
VARIABLES
  alarm,         \* FAULT_ALARM_T__G__Alarm and the two Schmitt margins
  inputValid,    \* BOOL__G__InputSnapshotValid
  permitted,     \* BOOL__G__InputPermitted
  batLost,       \* FAULT_CHARGER_BAT_LOST in the mask
  absentCh,      \* BOOL__G__BatteryAbsentCh0 and Ch1
  overSince, absentSince, healthySince,   \* start ticks, 0 = not running
  now,           \* the kernel tick of the pass
  manual         \* the charger's manual test mode is active

vars == <<alarm, inputValid, permitted, batLost, absentCh, overSince,
          absentSince, healthySince, now, manual>>

sinceTicks == <<overSince, absentSince, healthySince>>

\* ForReset is the disjunction of the two channel flags wherever it is set.
BatteryAbsentForReset == \E ch \in Channels : absentCh[ch]

NothingAbsent == [ch \in Channels |-> FALSE]

Init ==
  /\ alarm = Defaults
  /\ inputValid = FALSE
  /\ permitted = FALSE
  /\ batLost = FALSE
  /\ absentCh = NothingAbsent
  /\ overSince = 0 /\ absentSince = 0 /\ healthySince = 0
  /\ now \in 0 .. TickMod - 1
  /\ manual = FALSE
-----------------------------------------------------------------------------
(* The communication task.                                                 *)

SetParam(field, value) ==
  /\ alarm' = Written(alarm, field, value)
  /\ UNCHANGED <<inputValid, permitted, batLost, absentCh, sinceTicks, now,
                 manual>>

OnSupervisionChange ==
  /\ alarm' = ClampAlarms(alarm)
  /\ UNCHANGED <<inputValid, permitted, batLost, absentCh, sinceTicks, now,
                 manual>>
-----------------------------------------------------------------------------
(* One control pass.                                                       *)

\* Rtos_MillisecondsToTicks rounds up.
TicksOf(ms) == (ms * TickHz + 999) \div 1000

Elapsed(since, tick) == (tick - since) % TickMod

\* DebounceDone: the first call of a run only notes the tick.  At tick 0 the
\* note says "not running" and the next pass notes again.
NotedAnew(since, tick) == tick
Noted(since, tick) == IF since = 0 THEN tick ELSE since
RunsOnThroughGaps(holds, since, tick) ==
  IF holds THEN Noted(since, tick) ELSE since
Running(holds, since, tick) == IF holds THEN Noted(since, tick) ELSE 0
DebounceDone(since, tick, ms) ==
  since # 0 /\ TicksOf(ms) # 0 /\ Elapsed(since, tick) >= TicksOf(ms)

Permission(was, v) ==
  /\ v >= alarm.inputMinMv
  /\ v <= alarm.inputMaxMv
  /\ \/ was
     \/ /\ v >= alarm.inputMinMv + alarm.hystLowMv
        /\ v <= alarm.inputMaxMv - alarm.hystHighMv

NextTick == \E d \in PassTicks : now' = (now + d) % TickMod

UpdateInputPermission(valid, v) ==
  /\ inputValid' = valid
  /\ permitted' = (valid /\ Permission(permitted, v))

FreezeDebounces ==
  /\ UNCHANGED sinceTicks
  /\ absentCh' = NothingAbsent
RestartDebounces ==
  /\ overSince' = 0 /\ absentSince' = 0 /\ healthySince' = 0
  /\ absentCh' = NothingAbsent

\* Manual test mode: nothing new latches and nothing clears.
ManualPass(valid, v) ==
  /\ manual
  /\ NextTick
  /\ UpdateInputPermission(valid, v)
  /\ RestartDebounces
  /\ UNCHANGED <<alarm, batLost, manual>>

InvalidPass ==
  /\ ~manual
  /\ NextTick
  /\ UpdateInputPermission(FALSE, 0)
  /\ RestartDebounces
  /\ UNCHANGED <<alarm, batLost, manual>>

\* A half pumped over the disconnect level, judged only while its own channel
\* pumps or the alarm stands.
Over(r, ch) ==
  (ch \in r.active \/ batLost) /\ r.half[ch] > alarm.disconnectMv
AnyOver(r) == \E ch \in Channels : Over(r, ch)

HalfLow(r, ch) == r.half[ch] < alarm.absentMv
AnyHalfLow(r) == \E ch \in Channels : HalfLow(r, ch)

Healthy(r) == ~AnyOver(r) /\ \A ch \in Channels : r.half[ch] >= alarm.backMv

JudgePass(r) ==
  LET ok == Permission(permitted, r.vIn)
      over == AnyOver(r)
      absent == ok /\ AnyHalfLow(r)
      lost == \/ over /\ DebounceDone(overSince, now', alarm.disconnectDebMs)
              \/ absent /\ DebounceDone(absentSince, now', alarm.absentDebMs)
      back == Healthy(r) /\ DebounceDone(healthySince, now', alarm.recoverMs)
  IN /\ ~manual
     /\ NextTick
     /\ UpdateInputPermission(TRUE, r.vIn)
     /\ absentCh' = [ch \in Channels |->
                       \/ Over(r, ch)
                       \/ ok /\ HalfLow(r, ch)
                       \/ r.half[ch] < FAULT_BAT_HARD_ABSENT_MV]
     /\ overSince' = Running(over, overSince, now')
     /\ absentSince' = Running(absent, absentSince, now')
     /\ healthySince' = Running(Healthy(r) /\ ~back, healthySince, now')
     /\ batLost' = ((batLost \/ lost) /\ ~back)
     /\ UNCHANGED <<alarm, manual>>
-----------------------------------------------------------------------------
(* The charger enters and leaves manual test mode in its own Evaluate.     *)

EnterManualTestMode ==
  /\ ~manual
  /\ manual' = TRUE
  /\ batLost' = FALSE
  /\ UNCHANGED <<alarm, inputValid, permitted, absentCh, sinceTicks, now>>

ExitManualTestMode ==
  /\ manual
  /\ manual' = FALSE
  /\ UNCHANGED <<alarm, inputValid, permitted, batLost, absentCh, sinceTicks,
                 now>>
-----------------------------------------------------------------------------
Evaluate ==
  \/ InvalidPass \/ ManualPass(FALSE, 0)
  \/ \E r \in Readings : JudgePass(r) \/ ManualPass(TRUE, r.vIn)

Panel == \E q \in Requests : SetParam(q[1], q[2])

Next ==
  \/ Evaluate \/ Panel \/ OnSupervisionChange
  \/ EnterManualTestMode \/ ExitManualTestMode

Spec == Init /\ [][Next]_vars /\ WF_vars(Evaluate)
-----------------------------------------------------------------------------
Since == 0 .. TickMod - 1

Within(v, lo, hi) == lo <= v /\ v <= hi

\* The windows are those fault.h and the panel contract promise.
WindowsHold(a) ==
  /\ Within(a.disconnectMv, 14000, 15000)
  /\ Within(a.disconnectDebMs, 50, 1000)
  /\ Within(a.absentMv, 3000, 8000) /\ Within(a.backMv, 4000, 9000)
  /\ Within(a.absentDebMs, 100, 5000) /\ Within(a.recoverMs, 100, 5000)
  /\ Within(a.inputMinMv, 18000, 24000)
  /\ Within(a.inputMaxMv, 24000, 30000)
  /\ Within(a.hystLowMv, 0, 3000) /\ Within(a.hystHighMv, 0, 3000)

Ordered(a) ==
  /\ a.absentMv + 500 <= a.backMv
  /\ a.inputMinMv + 1000 <= a.inputMaxMv
  /\ a.inputMinMv + a.hystLowMv + 500 <= a.inputMaxMv - a.hystHighMv

TypeOK ==
  /\ alarm \in Alarms /\ WindowsHold(alarm)
  /\ inputValid \in BOOLEAN /\ permitted \in BOOLEAN
  /\ batLost \in BOOLEAN /\ manual \in BOOLEAN
  /\ absentCh \in [Channels -> BOOLEAN]
  /\ overSince \in Since /\ absentSince \in Since
  /\ healthySince \in Since /\ now \in Since

\* After any sequence of panel writes there is a pack voltage that is neither
\* absent nor back, and an input voltage at which a released permission arms:
\* the clamps of func__Fault_ClampAlarms never undo one another.
ThresholdsOrdered == Ordered(alarm)

\* The clamps settle in one application ("safe to call this function
\* repeatedly"), so the charger's supervision hook never moves a threshold.
ClampSettled == ClampAlarms(alarm) = alarm

\* No pass counts towards losing the pack and towards its return: while the
\* recovery runs neither loss debounce does and no removal is signalled.
OneVerdictAtATime ==
  healthySince # 0 =>
    overSince = 0 /\ absentSince = 0 /\ ~BatteryAbsentForReset

\* A reboot replays every stored threshold but absentMv to the value it had.
RebootKeepsTheRest ==
  \A f \in Fields \ {"absentMv"} : Replay(alarm)[f] = alarm[f]

=============================================================================
