----------------------------- MODULE EspLinkNvm -----------------------------
(***************************************************************************)
(* The parameter store of Modules/EspLink: two flash banks written in      *)
(* turn, a debounced save in the communication task, and the reset the     *)
(* panel may ask for.  The control task, of higher priority, changes its   *)
(* own persisted slots at any moment; power may fail at any moment.        *)
(*                                                                         *)
(* A record is valid or it is not: the CRC is taken to reject every bank   *)
(* that was not programmed to the end.  The values are taken to be ones    *)
(* the setters accept as they are (module Fault shows where that fails).   *)
(***************************************************************************)
EXTENDS Integers, Sequences

CONSTANTS
  Order,         \* the persisted ids in the order the save copies them
  ControlSlots,  \* those the control task writes (200..203)
  Values,
  Defaults,      \* the compiled values
  SeqMod,        \* serial numbers wrap here: 2^16
  SaveDelay,     \* ESP_LINK_NVM_SAVE_DELAY_RUNS
  SaveRetries,   \* ESP_LINK_NVM_SAVE_RETRIES
  ResetDelay,    \* CAL_LUT_RESET_DELAY_RUNS
  Blank          \* a bank that is erased, or programmed in part

Slots == {Order[i] : i \in DOMAIN Order}
Configs == [Slots -> Values]

ASSUME NvmAssumption ==
  /\ Order \in Seq(Slots) /\ Order # <<>>
  /\ ControlSlots \subseteq Slots
  /\ Defaults \in Configs
  /\ SeqMod \in Nat /\ SeqMod > 2
  /\ SaveDelay \in Nat /\ SaveDelay > 1
  /\ SaveRetries \in Nat
  /\ ResetDelay \in Nat \ {0}

Banks == {"A", "B"}
Serials == 0 .. SeqMod - 1
Records == [seq : Serials, vals : Configs]

ASSUME BlankAssumption == Blank \notin Records

VARIABLES
  bank,         \* the two flash banks
  live,         \* the parameters in use
  newestSeq, newestIsB,   \* the newest record and the bank that holds it
  dirtyRuns,    \* runs since the last change, 0 = clean
  retries, parked,
  changed,      \* NvmChangeSeq moved since the save in progress began
  pc,           \* where the communication task stands; "off" = no power
  caller,       \* who called SaveNow
  next, buf,    \* the copy loop and the record it fills
  ok,           \* what SaveNow will return
  resetRuns     \* UINT8_T__G__ResetRuns of CalLut

known == <<newestSeq, newestIsB>>
debt == <<dirtyRuns, retries, parked, changed>>
save == <<caller, next, buf, ok>>
vars == <<bank, live, known, debt, pc, save, resetRuns>>
-----------------------------------------------------------------------------
(* What a boot finds.                                                      *)

NewerUnsigned(a, b) == a > b
\* SeqCompare as the sign of a 16-bit difference.
Newer(a, b) == (a - b) % SeqMod \in 1 .. (SeqMod - 1) \div 2

Valid(b) == bank[b] # Blank
\* Both valid: A unless B is newer.
BootsB ==
  Valid("B") /\ (Valid("A") => Newer(bank["B"].seq, bank["A"].seq))
BootBank == IF BootsB THEN "B" ELSE "A"
BootConfig ==
  IF \E b \in Banks : Valid(b) THEN bank[BootBank].vals ELSE Defaults

Init ==
  /\ bank = [b \in Banks |-> Blank]
  /\ live = Defaults
  /\ newestSeq = 0 /\ newestIsB = FALSE
  /\ dirtyRuns = 0 /\ retries = 0 /\ parked = FALSE /\ changed = FALSE
  /\ pc = "frames"
  /\ caller = "tick" /\ next = 1 /\ buf = Defaults /\ ok = FALSE
  /\ resetRuns = 0

\* Statics are zeroed, then NvmInit replays the newest valid record.
Boot ==
  /\ pc = "off" /\ pc' = "frames"
  /\ live' = BootConfig
  /\ newestSeq' = IF \E b \in Banks : Valid(b) THEN bank[BootBank].seq ELSE 0
  /\ newestIsB' = BootsB
  /\ dirtyRuns' = 0 /\ retries' = 0 /\ parked' = FALSE /\ changed' = FALSE
  /\ resetRuns' = 0
  /\ UNCHANGED <<bank, save>>
-----------------------------------------------------------------------------
(* Edits.                                                                  *)

MarkDirtyKeepsBudget ==
  /\ dirtyRuns' = 1 /\ changed' = TRUE /\ parked' = FALSE /\ UNCHANGED retries
MarkDirty ==
  /\ dirtyRuns' = 1 /\ retries' = 0 /\ parked' = FALSE /\ changed' = TRUE

\* A slot moved in a control pass, which the lower task cannot interrupt.
ControlEdit(v) ==
  /\ pc # "off"
  /\ live' = [s \in Slots |-> IF s \in ControlSlots THEN v[s] ELSE live[s]]
  /\ MarkDirty
  /\ UNCHANGED <<bank, known, pc, save, resetRuns>>

\* SET_PARAM marks the store only when the applied value is a new one.
SetParam(s, v) ==
  /\ pc = "frames" /\ live[s] # v
  /\ live' = [live EXCEPT ![s] = v]
  /\ MarkDirty
  /\ UNCHANGED <<bank, known, pc, save, resetRuns>>
-----------------------------------------------------------------------------
(* SaveNow, called by NvmTick and by the flush before a reset.             *)

Target == IF newestIsB THEN "A" ELSE "B"
NewRecord == [seq |-> (newestSeq + 1) % SeqMod, vals |-> buf]

BeginSave(who) ==
  /\ pc' = "copy" /\ caller' = who /\ next' = 1
  /\ changed' = FALSE
  /\ UNCHANGED <<buf, ok>>

Fails == pc' = "finish" /\ ok' = FALSE

CopyOne ==
  /\ pc = "copy"
  /\ buf' = [buf EXCEPT ![Order[next]] = live[Order[next]]]
  /\ next' = next + 1
  /\ pc' = IF next = Len(Order) THEN "erase" ELSE "copy"
  /\ UNCHANGED <<bank, live, known, debt, caller, ok, resetRuns>>

\* An erase that fails may have erased the first page of the bank.
Erase ==
  /\ pc = "erase"
  /\ \/ /\ bank' = [bank EXCEPT ![Target] = Blank]
        /\ pc' = "program" /\ UNCHANGED ok
     \/ /\ bank' \in {bank, [bank EXCEPT ![Target] = Blank]}
        /\ Fails
  /\ UNCHANGED <<live, known, debt, caller, next, buf, resetRuns>>

\* Either answer of the driver may come with a bank that is complete or not.
Program ==
  /\ pc = "program"
  /\ bank' \in {bank, [bank EXCEPT ![Target] = NewRecord]}
  /\ (pc' = "verify" /\ UNCHANGED ok) \/ Fails
  /\ UNCHANGED <<live, known, debt, caller, next, buf, resetRuns>>

VerifyTrusts ==
  /\ pc = "verify" /\ pc' = "finish"
  /\ ok' = TRUE
  /\ newestSeq' = NewRecord.seq /\ newestIsB' = (Target = "B")
  /\ UNCHANGED <<bank, live, debt, caller, next, buf, resetRuns>>
Verify ==
  /\ pc = "verify" /\ pc' = "finish"
  /\ ok' = (bank[Target] = NewRecord)
  /\ IF ok'
     THEN newestSeq' = NewRecord.seq /\ newestIsB' = (Target = "B")
     ELSE UNCHANGED known
  /\ UNCHANGED <<bank, live, debt, caller, next, buf, resetRuns>>

CleanRegardless == dirtyRuns' = 0 /\ retries' = 0
\* The save covers the debt only if nothing changed since it began.
CleanIfUnchanged ==
  IF changed THEN UNCHANGED <<dirtyRuns, retries>>
  ELSE dirtyRuns' = 0 /\ retries' = 0

FinishTick ==
  /\ pc = "finish" /\ caller = "tick" /\ pc' = "calLutTick"
  /\ \/ ok /\ CleanIfUnchanged /\ UNCHANGED parked
     \/ ~ok /\ changed /\ UNCHANGED <<dirtyRuns, retries, parked>>
     \/ /\ ~ok /\ ~changed
        /\ dirtyRuns' = SaveDelay
        /\ IF retries < SaveRetries
           THEN retries' = retries + 1 /\ UNCHANGED parked
           ELSE parked' = TRUE /\ UNCHANGED retries
  /\ UNCHANGED <<bank, live, known, changed, save, resetRuns>>

FinishFlush ==
  /\ pc = "finish" /\ caller = "flush" /\ pc' = "frames"
  /\ IF ok
     THEN /\ CleanIfUnchanged
          /\ parked' = (parked /\ changed)
          /\ resetRuns' = ResetDelay
     ELSE UNCHANGED <<dirtyRuns, retries, parked, resetRuns>>
  /\ UNCHANGED <<bank, live, known, changed, save>>
-----------------------------------------------------------------------------
(* One run of the communication task: frames, NvmTick, CalLut_Tick.        *)

\* LUT_RESET with its grant: flush what is dirty, then arm the reset.
ResetFrame ==
  /\ pc = "frames"
  /\ IF dirtyRuns = 0
     THEN resetRuns' = ResetDelay /\ UNCHANGED <<debt, pc, save>>
     ELSE /\ BeginSave("flush")
          /\ UNCHANGED <<dirtyRuns, retries, parked, resetRuns>>
  /\ UNCHANGED <<bank, live, known>>

NvmTick ==
  /\ pc = "frames"
  /\ IF dirtyRuns = 0 \/ parked
     THEN pc' = "calLutTick" /\ UNCHANGED <<debt, save>>
     ELSE /\ dirtyRuns' = dirtyRuns + 1
          /\ IF dirtyRuns + 1 < SaveDelay
             THEN pc' = "calLutTick" /\ UNCHANGED <<changed, save>>
             ELSE BeginSave("tick")
          /\ UNCHANGED <<retries, parked>>
  /\ UNCHANGED <<bank, live, known, resetRuns>>

CalLutTick ==
  /\ pc = "calLutTick"
  /\ resetRuns' = IF resetRuns = 0 THEN 0 ELSE resetRuns - 1
  /\ pc' = IF resetRuns = 1 THEN "off" ELSE "frames"
  /\ UNCHANGED <<bank, live, known, debt, save>>

\* Power fails, or the watchdog bites.  A step on the flash may or may not
\* have got to its end.
PowerLoss ==
  /\ pc # "off" /\ pc' = "off"
  /\ bank' \in {bank}
       \cup (IF pc = "erase" THEN {[bank EXCEPT ![Target] = Blank]} ELSE {})
       \cup (IF pc = "program" THEN {[bank EXCEPT ![Target] = NewRecord]}
             ELSE {})
  /\ UNCHANGED <<live, known, debt, save, resetRuns>>

Task ==
  \/ NvmTick \/ CopyOne \/ Erase \/ Program \/ Verify
  \/ FinishTick \/ FinishFlush \/ CalLutTick

Panel == ResetFrame \/ \E s \in Slots, v \in Values : SetParam(s, v)
Control == \E v \in [ControlSlots -> Values] : ControlEdit(v)

Next == Task \/ Panel \/ Control \/ PowerLoss \/ Boot

\* The communication task's 100 ms loop never ends.
Spec == Init /\ [][Next]_vars /\ WF_vars(Task)
-----------------------------------------------------------------------------
Places == {"off", "frames", "copy", "erase", "program", "verify", "finish",
           "calLutTick"}

TypeOK ==
  /\ bank \in [Banks -> Records \cup {Blank}]
  /\ live \in Configs /\ buf \in Configs
  /\ newestSeq \in Serials /\ newestIsB \in BOOLEAN
  /\ dirtyRuns \in 0 .. SaveDelay + 1
  /\ retries \in 0 .. SaveRetries
  /\ parked \in BOOLEAN /\ changed \in BOOLEAN /\ ok \in BOOLEAN
  /\ pc \in Places /\ caller \in {"tick", "flush"}
  /\ next \in 1 .. Len(Order) + 1
  /\ resetRuns \in 0 .. ResetDelay

\* Between saves a clean store holds what the board uses: no order of edits,
\* failed saves, retries, flushes and power losses ends the debt too early.
CleanMeansStored ==
  (pc # "off" /\ dirtyRuns = 0) => BootConfig = live

\* The refinement: whatever happens to the pages, a boot brings back what
\* DurableStore allows.
Durable ==
  INSTANCE DurableStore WITH stored <- BootConfig, unsaved <- dirtyRuns # 0
ImplementsDurableStore == Durable!Spec

=============================================================================
