---------------------------- MODULE McuPowerPath ----------------------------
(***************************************************************************)
(* The board's own supply: Modules/McuPowerPath.  Q1 (PB5) connects the    *)
(* battery to the MCU rail.  The control task's Run disconnects it once    *)
(* the shared input permission of the Fault module has held for 5 s; the   *)
(* PB4 input-detect interrupt reconnects it at once when the input drops.  *)
(*                                                                         *)
(* The interrupt preempts the task between any two of its statements, and  *)
(* the equally-prioritised measurement task may be scheduled there for a   *)
(* time slice, so Run is modelled statement by statement.  Reads of the    *)
(* volatile flags and writes to the flags and the pin are steps; a test    *)
(* and the idempotent clear it guards are one.  A pending edge is served   *)
(* before the next statement (Running), except inside the masked         *)
(* read-and-write of the BSP, which is one step and sees either level.     *)
(***************************************************************************)
EXTENDS Naturals

CONSTANT StablePasses    \* MCU_POWER_INPUT_STABLE_MS, in control passes

ASSUME StableAssumption == StablePasses \in Nat \ {0}

VARIABLES
  pb4,         \* the input-detect line: TRUE while the DC input is there
  irqPending,  \* a PB4 edge waits for its interrupt
  batteryOn,   \* PB5: Q1 conducts and the battery feeds the MCU
  connected,   \* BOOL__G__BatteryConnected, the module's idea of batteryOn
  timerActive, \* BOOL__G__McuPowerTimerActive
  startAge,    \* passes since UINT32_T__G__McuPowerStartTick was written
  permission,  \* what Fault_GetInputPermission told this pass
  pc           \* the statement of Run the task will execute next

vars == <<pb4, irqPending, batteryOn, connected, timerActive, startAge,
          permission, pc>>

Permissions == {"permitted", "released", "invalid"}
Statements ==
  {"idle", "testConnected", "testTimer", "armStart", "clearConnected",
   "clearTimer", "cutIfPresent", "setConnected", "releaseTest", "writePin"}

Init ==
  /\ pb4 \in BOOLEAN
  /\ irqPending = FALSE
  /\ batteryOn = TRUE
  /\ connected = TRUE
  /\ timerActive = FALSE
  /\ startAge = 0
  /\ permission = "invalid"
  /\ pc = "idle"
-----------------------------------------------------------------------------
(* The world and the interrupt.                                            *)

LineEdge ==
  /\ pb4' = ~pb4
  /\ irqPending' = TRUE
  /\ UNCHANGED <<batteryOn, connected, timerActive, startAge, permission, pc>>

IrqKeepsTimer ==
  /\ irqPending
  /\ irqPending' = FALSE
  /\ batteryOn' = (batteryOn \/ ~pb4)
  /\ connected' = (connected \/ ~pb4)
  /\ UNCHANGED <<pb4, timerActive, startAge, permission, pc>>

OnInputIrq ==
  /\ irqPending
  /\ irqPending' = FALSE
  /\ \/ pb4 /\ UNCHANGED <<batteryOn, connected, timerActive>>
     \/ /\ ~pb4
        /\ batteryOn' = TRUE
        /\ connected' = TRUE
        /\ timerActive' = FALSE
  /\ UNCHANGED <<pb4, startAge, permission, pc>>
-----------------------------------------------------------------------------
(* One pass of Run.                                                        *)

Older(age) == IF age < StablePasses THEN age + 1 ELSE age

Running == ~irqPending

Goto(from, to) == Running /\ pc = from /\ pc' = to

\* Reads the permission and the tick; an invalid snapshot ends in the
\* cancel-and-keep branch.
BeginPass(p) ==
  /\ Running /\ pc = "idle"
  /\ permission' = p
  /\ startAge' = Older(startAge)
  /\ \/ /\ p = "permitted"
        /\ pc' = "testConnected"
        /\ UNCHANGED timerActive
     \/ /\ p = "released"
        /\ pc' = "releaseTest"
        /\ timerActive' = FALSE
     \/ /\ p = "invalid"
        /\ pc' = "idle"
        /\ timerActive' = FALSE
  /\ UNCHANGED <<pb4, irqPending, batteryOn, connected>>

TestConnected ==
  /\ Running /\ pc = "testConnected"
  /\ \/ connected /\ pc' = "testTimer" /\ UNCHANGED timerActive
     \/ ~connected /\ pc' = "idle" /\ timerActive' = FALSE
  /\ UNCHANGED <<pb4, irqPending, batteryOn, connected, startAge, permission>>

RearmEachPass ==
  /\ Running /\ pc = "testTimer"
  /\ timerActive' = TRUE
  /\ pc' = IF timerActive /\ startAge >= StablePasses
             THEN "clearConnected" ELSE "armStart"
  /\ UNCHANGED <<pb4, irqPending, batteryOn, connected, startAge, permission>>

TestTimer ==
  /\ Running /\ pc = "testTimer"
  /\ \/ ~timerActive /\ timerActive' = TRUE /\ pc' = "armStart"
     \/ /\ timerActive
        /\ pc' = IF startAge >= StablePasses THEN "clearConnected" ELSE "idle"
        /\ UNCHANGED timerActive
  /\ UNCHANGED <<pb4, irqPending, batteryOn, connected, startAge, permission>>

ArmStart ==
  /\ Goto("armStart", "idle")
  /\ startAge' = 0
  /\ UNCHANGED <<pb4, irqPending, batteryOn, connected, timerActive, permission>>

ClearConnected ==
  /\ Goto("clearConnected", "clearTimer")
  /\ connected' = FALSE
  /\ UNCHANGED <<pb4, irqPending, batteryOn, timerActive, startAge, permission>>

ClearTimer ==
  /\ Goto("clearTimer", "cutIfPresent")
  /\ timerActive' = FALSE
  /\ UNCHANGED <<pb4, irqPending, batteryOn, connected, startAge, permission>>

CutWithoutLiveVeto ==
  /\ pc = "cutIfPresent"
  /\ batteryOn' = FALSE
  /\ pc' = "idle"
  /\ UNCHANGED <<pb4, irqPending, connected, timerActive, startAge, permission>>

\* BspGpio_DisconnectBatteryPathIfInputPresent, interrupts masked.
CutIfPresent ==
  /\ pc = "cutIfPresent"
  /\ batteryOn' = ~pb4
  /\ pc' = IF pb4 THEN "idle" ELSE "setConnected"
  /\ UNCHANGED <<pb4, irqPending, connected, timerActive, startAge, permission>>

SetConnected ==
  /\ Goto("setConnected", "idle")
  /\ connected' = TRUE
  /\ UNCHANGED <<pb4, irqPending, batteryOn, timerActive, startAge, permission>>

ReleaseTest ==
  /\ Running /\ pc = "releaseTest"
  /\ pc' = IF connected THEN "idle" ELSE "writePin"
  /\ UNCHANGED <<pb4, irqPending, batteryOn, connected, timerActive, startAge,
                 permission>>

WritePin ==
  /\ Goto("writePin", "setConnected")
  /\ batteryOn' = TRUE
  /\ UNCHANGED <<pb4, irqPending, connected, timerActive, startAge, permission>>

Task ==
  \/ TestConnected \/ TestTimer \/ ArmStart
  \/ ClearConnected \/ ClearTimer \/ CutIfPresent \/ SetConnected
  \/ ReleaseTest \/ WritePin

Next ==
  \/ LineEdge \/ OnInputIrq
  \/ \E p \in Permissions : BeginPass(p)
  \/ Task

Spec == Init /\ [][Next]_vars

\* Interrupts are served, a pass that began goes on, and while the permission
\* holds the 10 ms loop keeps starting passes that see it.
FairSpec ==
  /\ Spec
  /\ WF_vars(OnInputIrq) /\ WF_vars(Task) /\ WF_vars(BeginPass("permitted"))
-----------------------------------------------------------------------------
TypeOK ==
  /\ pb4 \in BOOLEAN /\ irqPending \in BOOLEAN
  /\ batteryOn \in BOOLEAN /\ connected \in BOOLEAN /\ timerActive \in BOOLEAN
  /\ startAge \in 0..StablePasses
  /\ permission \in Permissions
  /\ pc \in Statements

\* The MCU always has a supply: once the interrupt of an input loss is served the
\* battery feeds the rail, wherever in Run the loss fell.
InputLossKeepsBattery == ~pb4 /\ ~irqPending => batteryOn

\* When Run believes the battery is off and is not deciding, it is off: the
\* early return of an already disconnected path never skips a needed cut.
OffFlagIsTrue == pc = "idle" /\ ~connected => ~batteryOn

\* A steady input and a steady permission do hand the MCU over to the DC input.
QualifiedInputTakesOver ==
  <>[](pb4 /\ permission = "permitted") => <>[]~batteryOn
=============================================================================
