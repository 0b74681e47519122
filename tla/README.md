# TLA+ models of the ChangeOver UPS firmware

This directory models, model-checks and proves properties of the firmware in
`src/Firmware`: the STM32F103 program of a 24 V UPS board that switches a load
between the mains supply and two 12 V batteries in series, charges the batteries
and reports to an ESP web panel. All paths below are relative to the repository,
module paths to `src/Firmware`.

## 1. Inventory

The firmware runs under FreeRTOS (CMSIS-RTOS2). The tasks that touch the state
modelled here (`Config/Inc/rtos_config.h:12-16`); each preempts those below it:

| task | priority | period | calls |
|---|---|---|---|
| measurement | Low2, time-sliced with control | 1 ms | Measurement_Run, SuperviseAdc |
| control | Low2 | 10 ms | GetSnapshot, Fault_Evaluate, Jitter_Run, Charger_EvaluateTechnicalFault, McuPowerPath_Run, Imbalance_Evaluate, Changeover_Evaluate, Charger_Evaluate, Diag, watchdog kick |
| communication | Low1 | 100 ms | UART frames (SET_PARAM, resets, table pushes), telemetry, NVM save, deferred reboot |
| user interface | Low | | lamps and buzzer |

Interrupts: PB4 (mains detect), two over-current comparators, UART, ADC.

| component | state it keeps | operations | what makes it correct |
|---|---|---|---|
| Changeover | battery line PB11, application state, timers, scenario-8 verdict, rest peaks, retry budget | Evaluate, SetParam, WeakVerdictReset | a low pack is cut in time; no retry loop; a condemned pack does not feed; the path comes back |
| McuPowerPath | Q1 (PB5), its shadow flag, the 5 s qualification timer | Run, PB4 interrupt | the MCU always has a supply; no break of the input is missed |
| Fault | fault mask, alarm thresholds, shared input permission, debounces | Evaluate, threshold setters, Set, Clear | thresholds stay consistent and survive a reboot; an alarm needs a continuous cause |
| Charger | per channel: stage, duty, strikes, retry, thermal rest, dead-battery verdict; relay; suspension depth | Evaluate, EvaluateTechnicalFault, setters, SetSuspended | no pulses in a lockout, a rest, a verdict or a flash write; the third strike is final; a retry comes |
| Jitter / EXTI | comparator flags and latches | Run, ChannelTripped, ClearChannel | no event lost or seen by the wrong channel |
| Imbalance (scenario 5) | charge cycle, events, cycles, latch | Evaluate, SetParam | an event needs a whole charge and a whole rest, a charge gives one; the verdict outlives everything but a swap |
| Measurement, ADC | snapshot, filters, supervisor | Run, GetSnapshot, SuperviseAdc | a blind ADC is reported; one reset per outage |
| Watchdog | check-in times | CheckIn, PollKick | a hung task resets the board; a healthy board is left alone |
| EspLink NVM | two flash banks, serial number, dirty counter, retry budget | Init, MarkDirty, Tick, FlushForReset, SaveNow | no acknowledged value lost; a crash leaves a good record |
| CalLut | staged and active calibration table, two flash pages | StageBegin, StagePoint, Commit, Tick | the table in use and the stored one are never half written |
| Diag | counters, history, two flash pages | Tick, RecordFault, SaveNow | a crash-safe save that never meets another writer |
| EspLink | frame parser, sessions, reset authorization | Run, HandleFrame | no reset without authorization |
| rtos_time, drivers, UI, ESP panels, host tools | | | see `PROJECT.json` |

Interactions: the control pass is a fixed call order over one snapshot; Fault,
Imbalance and Charger veto or gate Changeover; Imbalance hears the application
state of the previous pass; the communication task writes parameters into every
module, under the kernel lock in some (Fault, Charger) and without it in others
(Changeover); three modules suspend the charger for flash writes through one
depth counter.

`PROJECT.json` lists every component and, under `hazards`, what is hard to test.

## 2. Modules

| module | models | source |
|---|---|---|
| `Changeover` | one action per exit of `Evaluate`, the panel's writes, the reset key one assignment at a time | `Modules/Changeover/changeover.c` |
| `McuPowerPath` | `Run` statement by statement against the PB4 interrupt | `Modules/McuPowerPath/mcu_power_path.c`, `Bsp/Src/bsp_gpio.c`, `Bsp/Src/bsp_exti.c` |
| `Fault` | `Evaluate`, the threshold setters with their clamps, the replay at boot | `Modules/Fault/fault.c`, `Modules/EspLink/esp_link_nvm.c` (replay), `Rtos/Src/rtos_time.c` (rounding) |
| `Charger` | the charger's pass on both channels, the comparators, the panel's commands | `Modules/Charger/charger.c`, `Modules/Jitter/jitter.c`, `Bsp/Src/bsp_exti.c`, `Rtos/Src/task_control.c` (order) |
| `Imbalance` | scenario 5: `Evaluate`, the stored slots, the boot | `Modules/Imbalance/imbalance.c`, `Rtos/Src/task_control.c` (previous state) |
| `Supervision` | ADC supervisor, recovery reset and its marks, watchdog, boots | `Modules/Measurement/measurement.c`, `Bsp/Src/bsp_adc.c`, `Bsp/Src/bsp_iwdg.c`, `Rtos/Src/task_*.c` |
| `FlashStores` | the table's and the history's pages, their writers, the charger's suspension | `Modules/CalLut/cal_lut.c`, `Modules/Diag/diag.c`, `Modules/EspLink/esp_link_nvm.c` (suspension), `Bsp/Src/bsp_flash.c` |
| `DurableStore` | abstract: a configuration in use, a stored one, a save owed | `Modules/EspLink/esp_link_nvm.h` |
| `EspLinkNvm` | the two-bank parameter store step by step, the reset it meets | `Modules/EspLink/esp_link_nvm.c`, `Modules/CalLut/cal_lut.c` (delayed reset) |

Each has a TLC instance `MC...` with observers of what the outside saw, so that
the properties need not trust the module's own bookkeeping; Changeover has a
second one in which the world may settle (`MCChangeoverLive`), Charger one for
trips (`MCChargerTrips`) and one for its long clocks (`MCChargerClocks`).
`...Proofs` modules hold the TLAPS proofs.

### Changeover

Variables keep the C names in short: `protect` is `ChangeoverProtectAsserted`
(and PB11, which the code always writes with it), `bootPending`, `lowLatched`,
`weakVerdict`, `restPeak`, `lastRestPeak`, `failCount`, `parked` are the globals
of the same name. A start tick with its active flag is one timer: `Off` or the
passes elapsed, saturating at `MaxAge`. Every early return of
`Changeover_Evaluate` is an action: `InvalidPass`, `FaultPass`, `VetoPass`,
`WeakBlockPass`, `BootConnect`, `BootWait`, `CutPending`, `Cut`, `Hold`,
`Reconnect`; what the code does before a return (the window tracking, the rest
peak, the refill by the mains) is part of each. `WeakVerdictReset` takes no lock
in a task of lower priority than the control task, so it is a program counter
(`resetPc`) between whose steps a control pass may run, `MaxPreempt` times.

### McuPowerPath

One action per statement of `Run` that reads or writes shared state. The
interrupt runs before the next statement (`Running`) except inside the masked
read-and-write of the BSP. `startAge` counts passes since the start tick.

### Fault

`ManualPass`, `InvalidPass` and `JudgePass` are the three ways through
`Fault_Evaluate`. The ten thresholds and margins are one record, `alarm`, and
`ClampAlarms` the whole of `func__Fault_ClampAlarms`, with the code's compiled
numbers. Start ticks stay ticks, with 0 for "not running", of a counter that
wraps at `TickMod`; `Noted` is the code's way round a start at tick 0. The
setters run under the kernel lock, hence one step each. `Replay` folds a stored
record through the setters as `NvmInit` does at boot.

### Charger

`chan` is the per-channel struct with the channel's PWM, dead-battery clocks,
interrupt flag and Jitter latch; `hub` is what the channels share: relay, coil,
technical verdict, blind flag, retry pointer, suspension depth, manual mode and
its dead-man. A control pass runs Jitter_Run, EvaluateTechnicalFault and
Charger_Evaluate without the communication task in between (it has the lower
priority), so a pass is one step, written as the code runs it: a chain of
operators, each from the whole charger to the whole charger, named after the
function or the block they stand for. The disjuncts of `Pass` are the exits of
`Charger_Evaluate`: suspended, locked, disconnected, faulted, blind, without
input, powered. Between passes come comparator edges, suspensions and the
panel's commands. Voltages and currents are the bands the code compares; what
the PID answers and when soak and taper are over is the reading's choice, so the
properties hold for any regulator.

### Imbalance

`kept` is what NVM keeps, `cycle` the RAM of a charge cycle. `Evaluated` follows
the code: aging, pending panel reset, thermal rest, absence, swap, the edges of
the charging state, the full-charge flag, the window, the episode, the commit and
the latch. The flags no decision reads and the beeps are left out.

### Supervision

`Tick` is a millisecond, scaled down. Tasks run between ticks in any order or not
at all. The control task reads the clock (`ReadClock`) before it compares
(`PollKick`), and a task of its own priority may get a slice and check in between:
the difference is taken in the width of the clock, as in the code. Resets differ
in what they leave: the recovery reset sets the cookie and the software flag, a
power cycle keeps or loses the cookie but sets the power flag.

### FlashStores

`comm` is the communication task's flash writer step by step: suspend, poll the
gates, erase, program, resume, adopt. The parameter save of EspLinkNvm uses the
same steps without touching these pages. The control task's pass falls between
any two of them as a single step, because its priority is higher. A pass that
saves the history is two steps, the suspension (`DiagSuspends`) and the write with
what follows it (`DiagSave`), and only the power may fail between them. A cut may
leave any page half written. A table is a value, a
staged point is the table it was sent with, a checksum is equality.

### EspLinkNvm

`pc` is where the communication task stands in one run: `frames`, then `NvmTick`,
then `CalLut_Tick`, with `SaveNow` in between as `copy` (one parameter a step),
`erase`, `program`, `verify`, `finish`. `ControlEdit` is the control task, which
preempts at every such step but is not preempted itself, so value and dirty mark
move together. `NvmChangeSeq` and its copy are compared only for equality:
`changed` is their inequality. A bank is a record or `Blank`; an erase or a
program that fails, or that the power cuts short, leaves either. The refinement
mapping to `DurableStore` reads the stored configuration as what a boot would
find (`BootConfig`) and the owed save as a dirty counter that is not 0.

## 3. Runs

| run | expects | shows |
|---|---|---|
| `changeover` | pass | a low pack is cut in time through the hysteresis band, also after a reset key torn by a pass; no condemned pack feeds alone; attempt budget and parked flag stay in step; no mains-free reconnect after a low-battery cut without a rest at the floor |
| `changeover_live` | pass | the path comes back with the mains for good; a rested pack is given its attempt |
| `mcu_power_path` | pass | an input loss between any two statements leaves the MCU supplied; the qualification starts again after every break, also one between two passes; a steady input takes over |
| `fault` | pass | alarms need an unbroken cause and an unbroken recovery, losses are not missed over blind passes, manual tests and tick wraps; nine of ten thresholds survive a replay |
| `nvm` | pass | a boot at any moment finds a recent set; no lost debt; refinement of `DurableStore`; every edit reaches the flash once it works, or has had its whole budget of saves fail |
| `charger` | pass | the third strike disconnects for good; a tripped channel is silent for its lockout and revived within one pass more; no open-transistor verdict on stages that draw current; a gentle resume after blind snapshots |
| `charger_clocks` | pass | a thermal rest is served in full; no battery is condemned before its time; a condemned one stays off outside the manual mode |
| `charger_dead` | violation | finding 1 |
| `imbalance` | pass | an event needs a full charge and a whole rest and is counted on mains, a charge adds one at most; events and verdict fall only to what may clear them |
| `imbalance_stability` | violation | finding 2 |
| `supervision` | pass | a hung task resets the board in time and a healthy board is never bitten; an ADC outage is reset for once and then reported |
| `flash` | pass | no gate pulses while a page is written; a boot finds the acknowledged table and history or newer ones; every suspension is given back |

### Bounds

- Changeover: voltages are one or two per interval between the thresholds the
  code compares with (20.8, 21.0, 21.2 V, the rest floor), so every comparison
  goes both ways. `Duration` is 1 or 2 passes instead of 300, with the other
  windows longer than it as on the board; only their order matters to the
  guards. `MaxAge` is where timers saturate, at or above every window, so no
  guard tells a saturated age from a larger one. `MaxPreempt` is below
  `Duration`: the watchdog bites after 1.5 s, half of the 3 s filters, so a reset
  cannot be stretched over a whole filter. One preemption is enough for each
  pair of assignments to be separated.
- McuPowerPath: `StablePasses` = 3; the edges, permissions and statements are all
  there. The proofs hold for every value.
- Fault: two ticks a second and a counter of 8, so debounces round to one or two
  ticks and start ticks meet 0 and the wrap constantly; `MaxRun` = 10 is the
  longest debounce the panel can set, in ticks (`RunAssumption`). Readings lie on both sides of each threshold.
  The four panel writes move each clamp that couples two fields; the proofs
  cover all values.
- EspLinkNvm: two parameters, one of each writer, two values, a serial number
  that wraps at 4 (the smallest at which a signed difference still orders
  neighbours), a debounce of 2 runs and one retry. Two banks are all there are.
- Charger, trips: two channels, three comparator pulses on one (what a final
  fault takes) and two on the other, so that either may trip while its twin waits,
  is revived or is struck out. A lockout of 2 passes is the least
  in which a twin can trip in the middle. The panel restarts cycles; its other
  commands are in the proofs. Duties are 0, start, maximum: the code
  compares a duty with nothing else but the level above which a stage must draw
  current, set between start and maximum. Blind and lost readings do not meet in
  one behaviour (`Worlds`): their product is the bound. `MaxPause` = 1: a flash
  write hides a driven stage for one pass, below the 2 of the debounce, as on
  the board, where the debounce has the longer time.
- Charger, clocks: one channel charges; `RestTime` is 3 passes and `DeadTime` 4,
  longer than the pauses that interrupt them. A `DeadTime` of 3 is too short to tell
  a clock that was reset from one that was kept: starting a charge and its clock
  takes two passes by itself. The panel's hand and its automatic commands are two
  `Modes`.
- Imbalance: one value in each band of the difference; a rest of 3 passes, a
  stability and an in-charge wait of 1, swaps after 2, and two events, latched
  cycles and clean cycles, the least at which a counter has a middle.
- Supervision: a window of 3 ticks, a retry of 2, a watchdog of 3 and a clock of
  8, so stamps wrap all the time; one more task than the measurement.
- FlashStores: two tables of two points, two histories, serial numbers that wrap
  at 4, two polls with a control pass in at most every other. Symmetric tables.

### Fairness

Weak fairness only. The control task's pass (`Pass`, `ObsPass`, `BeginPass`) and
the communication task's run (`Task` of `EspLinkNvm`) are RTOS loops
that never return. `OnInputIrq` is an interrupt, the
statements of `Run` are straight-line code. What the world does (mains, voltages,
failing flash, panel) has no fairness; liveness says what follows once it
settles. What must come in time in the other modules is stated as a bound a
safety property checks and needs no fairness: `RetryComesInTime`,
`OutageIsReported`, `HungTaskIsReset`.

### Findings

1. `charger_dead`: `ManualDriveChannel` drives the commanded duty of a channel
   with a latched dead-battery verdict. The comment at the gate in
   `RegulateChannel` says the verdict is above the manual path too.
2. `imbalance_stability`: the over-limit timer is only written while a window is
   open. Started in a short discharge it survives into the rest window, whose
   first over-limit pass then counts an event without the stability time.

### Observed deviations without a run

What modelling showed beside the findings. No property contradicts them: where
one touches them, it is stated for the rest.

- Changeover: the boot connection and the veto cut do not end the rest peak, so a
  voltage from before a veto passes the rest-floor test (`RestedBeforeReconnect`
  speaks of low-battery cuts). The windows keep ageing through invalid snapshots,
  against `changeover.c:440-442`. A control pass between two assignments of
  `WeakVerdictReset` leaves the healthy window as old as the uptime.
- McuPowerPath: an input that drops and returns between two statements leaves Q1
  open with its flag closed; a later release does not reconnect. It does not
  starve the MCU: `InputLossKeepsBattery` is proved. A break served after `Run` has
  decided to open Q1 does not call the cut off if the line is back by then: only
  the level is looked at (`CutIfPresent`). `FullQualification` speaks of breaks
  served before the decision.
- Fault: the replay writes `absentMv` before `backMv` and cuts a stored absent
  threshold above the compiled back threshold less 500 mV.
- EspLink: the flush runs when a reset is armed, three runs before it happens; an
  edit in those runs is acknowledged and lost.
- Charger: one comparator pulse is counted again when something other than the
  revival moves its channel out of the wait with the latch set, so a final fault
  may come after fewer than three pulses. A channel that trips again can be revived
  before one that waited longer, against the comment on a strict order.
- Charger, scenario 6: a FLOAT resets the charge clock only in the next pass that
  runs it. A restart key before that, or while blind passes and flash writes put
  it off, loses the FLOAT: the verdict then comes sooner than
  `charger.c:2379` ("24 h of charging without one FLOAT") lets one expect.
  `NoVerdictTooSoon` speaks of the FLOAT a pass has seen.
- Imbalance: `chargingAllowed` falls at the rising edge of the last charge the
  latch allows, not at its end. A flicker shorter than the swap time, or a boot,
  makes the charge in progress a new one and spends a cycle. Clearing the latch
  with the events at the maximum latches again in the next pass. A channel that
  is disabled while it rests hot no longer counts as uncharged: the charge then
  reads complete without a new charge. `ReadingsAssumption` and `Offered` leave
  that last case out.

## 4. Proofs

Each property of a watch (a history variable of an MC module that only observes)
is proved for the watched specification of the run, with the constants left open.

`ChangeoverProofs`: from `TimesAssumption` and `InputsAssumption`, for all
voltages, masks, windows and preemption bounds: type correctness,
`PathMatchesState`, the action property `CondemnedPackNeverFeeds`, and
`ParkedWhenSpent`. The last is not inductive. `BudgetInv` adds what holds between
the assignments of a reset: after the one that clears the counter the counter is
still 0, because no pass in between can count a failure. That in turn needs
`MaxPreempt < Duration`: a new mains-free reconnect may only have begun after the
reset forgot the old one, and its cut timer cannot be full within the passes that
interrupted the reset.
For the watched specification: `LowPackIsCut` and `RestedBeforeReconnect`.
`Counted` ties the outside count of low passes to the cut timer, which the latch
keeps running; `PeakSeen` says the rest peak is one that was seen since the cut.
The weak block is the step that makes it need more: it cuts and does not forget
the peak, and may, because a verdict is never pending with a boot and has no peak
while the load is on (`weakVerdict /\ ~protect => restPeak = 0`).

`McuPowerPathProofs`: `InputLossKeepsBattery` is inductive with one more fact,
that a closed switch under a flag that says open happens only within the
hand-over; no type invariant is needed. `FullQualification` needs `HeldInv`: the
timer is younger than the outside run of permitted passes in every statement but
the two between setting the flag and writing the start. There the
old start is still in place, but no statement reads it. A served break restarts
the outside run and stops the timer (`HeldBreak`), wherever in `Run` it falls.

`FaultProofs`: `AlarmInv` says each threshold is in its own window, the coupled
ones are ordered and the Schmitt margins are at most a quarter of the input
window. A lemma shows that `ClampAlarms` establishes it from any natural numbers
and another that it makes `ClampAlarms` the identity; the rest of the state is
untouched by the setters. `OneVerdictAtATime` needs the order of the absent and
back thresholds, which is why the clamps and the debounces are proved together.
`AlarmNeedsCause` and `AlarmHoldsUntilHealthy` follow from `RunInv`: a debounce in
progress is no older than the run the watch measured (`Covers`), kept over the
wrap of the tick by a lemma that elapsed times add up modulo the counter unless
the sum passes it. The watch saturates at `MaxRun`, so `RunAssumption` asks that
the longest debounce lie below it. `RebootKeepsTheRest` follows the replay field
by field: with `AlarmInv` each write is clamped by compiled values that do not
touch it, except `absentMv`, written before the `backMv` that would admit it.

`EspLinkNvmProofs`: from `NvmAssumption` and `BlankAssumption`, for any
parameters, values, debounce, budget and serial width above 2: type correctness,
`CleanMeansStored`, and that `EspLinkNvm` implements `DurableStore`. `StoreInv`
adds: the bank that holds the newest serial number is never the target of a save
(`KnownBankKept`); what is copied equals what is in use unless a change is on
record (`CopyFaithful`); a save about to answer TRUE has made its record the one
a boot finds (`VerifiedBoots`), for which the next serial must be newer across
the wrap and not the other way round (`NextIsNewer`); and only a timed save
without a change counts above the debounce (`DebounceBounded`), without which
the dirty counter has no bound. `BootIsRecent` adds that the bank no save touches
is as recent as the last verified save (`KnownRecent`), and that the other holds
nothing, something as recent, or a record that loses the boot (`TargetRecent`);
`UseRecent` carries the copied values through the save, since edits race the copy.

`SupervisionProofs`: from `SupervisionAssumption`, for any tasks and times and
any clock at least as wide as stale time, slice and timeout together:
type correctness and `HungTaskIsReset`. The invariant bounds each age together with the
watchdog's counter, `age[s] + dog <= Stale + Slice + Reload - 1`: a kick is given
only when every age was below `Stale` at most a slice ago, and from then on age
and counter move by one against each other. It keeps the ages away from the wrap,
without which the width of the difference would matter.
The account of the ADC's outages (`OneResetPerOutage`, `LatchIsEarned`,
`OutageIsReported`) is `OutageInv`: the watch has a budget exactly when the reset
of this outage is not spent, in RAM or by the marks the reset left; the
supervisor's sound time is the outside one, its stall no older than the time
without a valid frame; and the count of blind passes is at most one window for a reset already made plus the stall's age
(`BlindCounted`). `HealthyBoardRuns` needs `PolledFeeds`: the watchdog's counter
and the time since the last poll that found all tasks fresh make up the timeout.

`FlashStoresProofs`: from `FlashStoresAssumption`: type correctness, `QuietFlash`,
`SuspensionReturned`, and `WritersTakeTurns`, which no run repeats: writers that
meet would suspend twice, and `SuspensionReturned` sees that too. `IInv` adds that the table of a commit
stays that of its push (`TableHeld`), the depth in each phase of the writer and of
the history's save (`DepthHeld`), and what the polls have seen (`GatesHeld`): the
wait is bounded, so the writer may go on without having seen the gates low, and it is right to
because a control pass fell within the polls (`Period < Polls`) and left them low.
For `BootIsAckedOrNewer` and `HistorySurvives`, `TablesInv` says that the RAM's
account of the newest page describes the flash (`CalDescribes`) and that the page
a commit spends holds an admissible table or loses the boot
(`TargetExpendable`), with serials compared modulo their width.

`ImbalanceProofs`: from `ImbalanceAssumption` and `ReadingsAssumption`, for all
limits, waits and budgets: type correctness, `VerdictIsKept`, `OneEventPerCharge`,
`EventIsConfirmed` and `EventsAreForgivenByCleanCycles`. `GoneInv` ties the
module's absence stamp to the passes in which a battery was seen gone; `ChargeInv`
says why a cycle without a charge since its event has its event recorded or cannot
be full: either a fresh full charge is required, or the charger cannot be parked
in FLOAT. `CycleInv` says the cycle's marks claim no more than the watch saw: full
only after a full charge, its rest and its clean cycles no larger than those
counted outside. `Told` says that what the watch of scenario 5 hears of the mains
is what the last pass left, so an event comes at the latest in the first pass on
battery. `CycleInv` is not inductive without the deferred reset: while one is
pending the rest may be old, but then the cycle is not full.

`ChargerProofs`: from `ChargerAssumption`, for the specification of Charger
itself, so for any limits, readings and commands, both worlds of the run and the
manual mode: type correctness, `StruckOut`, `DeadStaysOff` and the action property
`LatchesHold`; and for the specification of the clocks' runs `RestIsServed` and
`NoVerdictTooSoon`.
The invariant adds that three strikes are a final fault on either channel: a
fourth strike would leave the counter's range, and it cannot come because a final
fault is served no more. A step of a pass is shown to be one of two kinds: it
`Moves` the channels without a strike, without making or ending a final fault,
and leaves relay and verdict alone; or it is the strike itself, which may do both
but then opens the relay. The exits of the pass (`Ends`) then leave no channel
driven behind an open relay.
`DeadStaysOff` is not inductive: the regulator returns early in the retry wait and
on a lost battery, before the gate of the verdict. `Calm` adds that a channel in
one of these states is not driven, and is shown to hold after every stage of a
pass, not only at its end, since a retry may revive a condemned channel a few
statements before the regulator stops it.
For `RestIsServed` and `NoVerdictTooSoon`, `ClockInv` ties what the watch outside
counts to the channel's own clocks: the ticks a rest still owes are less than
`rest`, the charge time due is no more than the spell, and a pause is as long on
`gap` as the watch saw it, unless the relay or the verdict of scenario 7 has ended
the channel. A pass is split in two at the channel's tick: what precedes it
(`Carried`) moves no clock, and the tick with what follows it (`Ticked`) adds no
charge time, shortens no rest and condemns only a charge whose time is up. Every
exit of the pass is shown to be one or both, without strikes, as in those runs.

For the specification of the trips' run (`MCChargerTrips`), for any limits,
lockouts, readings and pulses and with every command of the panel but the manual
mode: `ParkedUntilLockout`, `RetryComesInTime` and, with `PidRise <= StartDuty`,
`BlindResumeIsGentle`; with `MaxPause < OpenTime`, and the manual mode included,
`OpenVerdictIsReal`. None of the four is inductive. A pass is read as a way from
the state in which the comparators were heard (`Entered`) to its end: steps that
move nothing of a trip (`Still`), strikes that park a channel for the whole lockout,
the retry, and a drive that gives pulses only to a channel without a latch.

- `TripInv`: a channel in the retry wait or without its battery is off, and an
  output is the mirrored duty or cut, so a look at the duty says what switches.
- `ParkedInv`: behind a closed relay a latch is a silent channel, and what the
  lockout still owes is covered by the time since the comparator was heard
  (`Owes`), through restarts that leave the wait with the latch set.
- `WaitInv`: a wait that quiet passes count is in its turn (`InTurn`): the pointer
  is on it with its lockout running, or free with nobody else waiting, or on the
  twin, whose lockout ends before the bound. The bound is the lockout and one more
  pass: the strike that parks a channel while the twin is revived starts its count
  one pass before its lockout can be served.
- `BlindInv`: a blind pause finds a channel silent, with nothing saved or the duty it
  had when the snapshot went. `PidRise <= StartDuty` is needed for a channel that had
  none: the pass that resumes regulates it from zero, and this climb must stay
  within the soft start the property allows.
- `OpenInv`: the age of a stage without current is at most the run of passes in
  which it could not be seen (`Drawn`), hence below the debounce; without that the
  verdict could ripen across flash writes.

Only model-checked, and why:

- Liveness under fairness, beyond this prover: `MainsRestoresPath`,
  `RestedPackIsRetried`, `QualifiedInputTakesOver`, `LossIsReported` and
  `EditsReachFlash`.

Relations of constants the Charger theorems state as hypotheses, since
`ChargerAssumption` does not give them:

- `PidRise <= StartDuty`: 8 against 10 permille in `charger.h`
  (`CHG_PID_MAX_STEP_PERMILLE`, `CHG_DUTY_START_PERMILLE`); the panel may set a
  larger step, and a climb from nothing may then exceed the soft start.
- `MaxPause < OpenTime`: a flash write is shorter than the debounce of the open
  transistor. A page erase takes 40 ms at most (`bsp_flash.c:18`); the debounce is
  50 ms above the disconnect debounce of Fault (`charger.c:3555-3561`), which is at
  least 50 ms (`fault.h:136`), so 100 ms.
- No manual mode in three of them: leaving it puts a channel in OFF and drops its
  latch with the lockout, so a trip just before is not waited out.

## 5. Limits

- The 49.7-day wrap of the tick is modelled in Fault and Supervision and left out
  of the others: a difference of ticks survives one wrap, and only a window
  that stays open for 49.7 days would read as young again, which saturation hides.
- Changeover's zero-tick return is not modelled: the clamps keep every duration
  positive. The six lamp and buzzer parameters of scenario 8 are left out.
- `RestedPackIsRetried` is stated for a quiet panel: raising the floor or
  switching the scenario off in mid-outage moves what a rested pack is.
- A CRC that accepts a torn record, and parameters whose setter refuses a stored
  value, are outside EspLinkNvm; module Fault shows the second for thresholds.
- Charger: limits and profile are constants of a run; the bring-up mode is
  compiled out. Both channels are installed, as on the board. The panel may clear
  one verdict of slot 203 or several (`ClearDead`); writing a bit that has no
  verdict yet (`esp_link.c:520-525`) is not modelled, since `charger.h:1254-1267`
  reserves it for the replay of the stored slots at boot.
- The communication task never sees half a control pass and never interrupts one,
  because its priority is lower: that is why its commands fall between passes, and
  why nothing but power comes between the two steps of a history save. A slice goes only to the
  measurement task.
- Not modelled, and why: the PID, filters, conversions and calibration
  arithmetic (numeric, no control state a property would speak of); frame
  parsing and sessions of EspLink (byte level, covered by host tests); the UART
  rings and register-level drivers; the user interface (presentation of state
  other modules own); the protection and flash-lock modules (compiled out); the
  ESP panels and host tools (separate programs). HAL, CMSIS and FreeRTOS are
  vendored.
- There is no module that composes the whole control pass: its state would be the
  product of Fault, Imbalance, Changeover and Charger, and each of them sees the
  others through a few bits that its readings already choose freely.

## 6. Plan

1. EspLink's sessions and the reset authorization against the delayed reset.
2. The UART transmit ring between task and interrupt.
3. `RtosTime` conversions and Diag's uptime over the tick wrap, as operators
   against a reference.
4. Proofs beyond the present provers: the five liveness properties.
