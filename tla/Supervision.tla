---------------------------- MODULE Supervision ----------------------------
(***************************************************************************)
(* What restarts the board: the ADC supervisor of the measurement task     *)
(* (Measurement_SuperviseAdc over bsp_adc.c) and the multi-task watchdog   *)
(* (bsp_iwdg.c), with the boot both of them lead to.                       *)
(*                                                                         *)
(* Tick is the passing of time; the tasks run between ticks in any order,  *)
(* or not at all.  A stamp is its age; 0 stands for "not active" where the *)
(* code keeps a flag beside the stamp, and the age is then one more.  Only *)
(* the watchdog subtracts two readings of the clock, so its ages are kept  *)
(* modulo the clock's range.                                               *)
(***************************************************************************)
EXTENDS Integers

CONSTANTS
  Slots,     \* the supervised tasks: "measurement" and others
  Window,    \* MEASUREMENT_ADC_RECOVER_WINDOW_MS
  Retry,     \* MEASUREMENT_ADC_RECOVER_RETRY_MS
  Warmup,    \* MEASUREMENT_WARMUP_FRAME_COUNT
  Stale,     \* BSP_IWDG_STALE_MS
  Reload,    \* the watchdog's timeout
  Slice,     \* how long a task of the same priority may delay the control task
  Clock      \* the range of the millisecond clock, 2^32

ASSUME SupervisionAssumption ==
  /\ "measurement" \in Slots
  /\ {Window, Retry, Warmup, Stale, Reload, Slice, Clock} \subseteq Nat \ {0}
  /\ Stale + Slice + Reload <= Clock

VARIABLES
  adc,     \* the measurement task: its driver's and supervisor's state
  marks,   \* what a reset leaves behind: the .noinit cookie, RCC->CSR's flags
  dog,     \* ticks until the watchdog bites
  age,     \* [Slots -> ticks since the task's check-in, modulo Clock]
  poll     \* ticks since PollKick's caller read the clock, or NoPoll

vars == <<adc, marks, dog, age, poll>>

NoPoll == -1
Sources == {"power", "software"}
Older(stamp, limit) ==
  IF stamp = 0 \/ stamp > limit THEN stamp ELSE stamp + 1

AdcStates ==
  [ready : BOOLEAN,      \* Init has run
   running : BOOLEAN,    \* BOOL__G__Running
   warm : 0 .. Warmup, valid : BOOLEAN,
   stall : 0 .. Window + 1, retried : BOOLEAN,
   recover : 0 .. Retry, healthy : 0 .. Window + 1,
   used : BOOLEAN, latched : BOOLEAN]

TypeOK ==
  /\ adc \in AdcStates
  /\ marks \in [cookie : BOOLEAN, flags : SUBSET Sources]
  /\ dog \in 0 .. Reload
  /\ age \in [Slots -> 0 .. Clock - 1]
  /\ poll \in NoPoll .. Slice

Asleep ==
  [ready |-> FALSE, running |-> FALSE, warm |-> 0, valid |-> FALSE,
   stall |-> 0, retried |-> FALSE, recover |-> 0, healthy |-> 0,
   used |-> FALSE, latched |-> FALSE]

\* The scheduler starts with every stamp at the clock's zero.
Boots ==
  /\ adc' = Asleep
  /\ dog' = Reload
  /\ age' = [s \in Slots |-> 0]
  /\ poll' = NoPoll

Init ==
  /\ adc = Asleep
  /\ marks \in [cookie : BOOLEAN, flags : {{"power"}}]
  /\ dog = Reload
  /\ age = [s \in Slots |-> 0]
  /\ poll = NoPoll
-----------------------------------------------------------------------------
(* Time, and the resets nobody in the program decided.                     *)

\* The control task, once it read the clock, is only delayed by a time slice.
Tick ==
  /\ dog > 0 /\ poll < Slice
  /\ dog' = dog - 1
  /\ age' = [s \in Slots |-> (age[s] + 1) % Clock]
  /\ poll' = IF poll = NoPoll THEN NoPoll ELSE poll + 1
  /\ adc' = [adc EXCEPT !.stall = Older(@, Window),
                        !.healthy = Older(@, Window),
                        !.recover = IF @ < Retry THEN @ + 1 ELSE @]
  /\ UNCHANGED marks

WatchdogReset == dog = 0 /\ Boots /\ UNCHANGED marks

\* RAM keeps what it will through a power dip.
PowerCycle ==
  /\ Boots
  /\ \E kept \in BOOLEAN : marks' = [cookie |-> kept, flags |-> {"power"}]

\* The panel's reset command.
PanelReset ==
  /\ Boots
  /\ marks' = [marks EXCEPT !.flags = @ \cup {"software"}]
-----------------------------------------------------------------------------
(* The measurement task.                                                   *)

WasRecoveryReset ==
  marks.cookie /\ "software" \in marks.flags /\ "power" \notin marks.flags

\* BspAdc_Init consumes the marks, Measurement_Init reads the verdict, and
\* BspAdc_Start may fail.
Start(started) ==
  /\ ~adc.ready
  /\ adc' = [Asleep EXCEPT !.ready = TRUE, !.running = started,
                           !.used = WasRecoveryReset]
  /\ marks' = [cookie |-> FALSE, flags |-> {}]
  /\ UNCHANGED <<dog, age, poll>>

\* Measurement_Run: a latched supervisor never publishes again; without a
\* frame the warm-up starts over.
Measured(frame) ==
  IF adc.latched \/ frame # "copied"
  THEN [adc EXCEPT !.warm = 0, !.valid = FALSE,
                   !.running = @ /\ (adc.latched \/ frame # "stopped")]
  ELSE LET warm == IF adc.warm < Warmup THEN adc.warm + 1 ELSE Warmup
       IN [adc EXCEPT !.warm = warm, !.valid = warm = Warmup]

\* A stray frame does not end the outage.
HealthyKeepsStall(a) ==
  LET kept == [a EXCEPT !.retried = FALSE]
  IN IF ~a.used THEN kept
     ELSE IF a.healthy = 0 THEN [kept EXCEPT !.healthy = 1]
     ELSE IF a.healthy > Window
     THEN [kept EXCEPT !.used = FALSE, !.healthy = 0]
     ELSE kept

\* A valid frame; a minute of them gives the reset back.
Healthy(a) ==
  LET kept == [a EXCEPT !.stall = 0, !.retried = FALSE]
  IN IF ~a.used THEN kept
     ELSE IF a.healthy = 0 THEN [kept EXCEPT !.healthy = 1]
     ELSE IF a.healthy > Window
     THEN [kept EXCEPT !.used = FALSE, !.healthy = 0]
     ELSE kept

\* The sound minute counts on through an outage.
StalledKeepsSound(a) ==
  IF a.stall # 0 THEN a
  ELSE [a EXCEPT !.stall = 1, !.retried = FALSE, !.recover = 0]

Stalled(a) ==
  IF a.stall # 0 THEN [a EXCEPT !.healthy = 0]
  ELSE [a EXCEPT !.healthy = 0, !.stall = 1, !.retried = FALSE, !.recover = 0]

RecoverDue(a) == a.warm = 0 /\ (~a.retried \/ a.recover = Retry)

RecoveredAnew(a, started) ==
  IF RecoverDue(a)
  THEN [a EXCEPT !.retried = TRUE, !.recover = 0, !.running = started,
                 !.stall = 0]
  ELSE a

Recovered(a, started) ==
  IF RecoverDue(a)
  THEN [a EXCEPT !.retried = TRUE, !.recover = 0, !.running = started]
  ELSE a

GivesUp(a) == ~a.latched /\ ~a.valid /\ Stalled(a).stall > Window

\* SuperviseAdc without the reset.
Supervised(a, started) ==
  IF a.latched THEN a
  ELSE IF a.valid THEN Healthy(a)
  ELSE IF GivesUp(a) THEN [Stalled(a) EXCEPT !.latched = TRUE]
  ELSE Recovered(Stalled(a), started)

\* A pass a millisecond at most.
Due(frame) ==
  /\ adc.ready /\ age["measurement"] # 0
  /\ frame = "copied" => adc.running

CheckedIn(s) == age' = [age EXCEPT ![s] = 0]

MeasurementPass(frame, started) ==
  /\ Due(frame)
  /\ ~(GivesUp(Measured(frame)) /\ ~adc.used)
  /\ adc' = Supervised(Measured(frame), started)
  /\ CheckedIn("measurement")
  /\ UNCHANGED <<marks, dog, poll>>

\* BspAdc_TriggerRecoveryReset.
RecoveryReset(frame) ==
  /\ Due(frame)
  /\ GivesUp(Measured(frame)) /\ ~adc.used
  /\ Boots
  /\ marks' = [cookie |-> TRUE, flags |-> marks.flags \cup {"software"}]
-----------------------------------------------------------------------------
(* The other tasks.                                                        *)

OtherTask(s) ==
  /\ s # "measurement" /\ age[s] # 0
  /\ CheckedIn(s)
  /\ UNCHANGED <<adc, marks, dog, poll>>

\* The control task reads the clock for PollKick; a task of its own priority
\* may get a time slice before the comparison.
ReadClock ==
  /\ poll = NoPoll
  /\ poll' = 0
  /\ UNCHANGED <<adc, marks, dog, age>>

SilenceMisread(s) == (poll - age[s]) % Clock

\* nowMs - last, in the width of the clock.
Silence(s) == (age[s] - poll) % Clock

PollKickForOne ==
  /\ poll # NoPoll
  /\ poll' = NoPoll
  /\ dog' = IF \E s \in Slots : Silence(s) < Stale THEN Reload ELSE dog
  /\ UNCHANGED <<adc, marks, age>>

PollKick ==
  /\ poll # NoPoll
  /\ poll' = NoPoll
  /\ dog' = IF \A s \in Slots : Silence(s) < Stale THEN Reload ELSE dog
  /\ UNCHANGED <<adc, marks, age>>

Frames == {"copied", "unstable", "stopped"}

Next ==
  \/ Tick \/ WatchdogReset \/ PowerCycle \/ PanelReset
  \/ \E ok \in BOOLEAN :
       Start(ok) \/ \E frame \in Frames : MeasurementPass(frame, ok)
  \/ \E frame \in Frames : RecoveryReset(frame)
  \/ \E s \in Slots : OtherTask(s)
  \/ ReadClock \/ PollKick

Spec == Init /\ [][Next]_vars
-----------------------------------------------------------------------------
(* bsp_iwdg.h: "worst-case hang detection ~1.5 s + one timeout": no task   *)
(* is ever silent longer, whatever the others and the control task do. The *)
(* ages then never come near the range of the clock.                       *)
HungTaskIsReset == \A s \in Slots : age[s] < Stale + Slice + Reload
=============================================================================
