-------------------------- MODULE EspLinkNvmProofs --------------------------
(***************************************************************************)
(* Proofs about EspLinkNvm, for every set of parameters and values, every  *)
(* debounce, retry budget and width of the serial number.                  *)
(***************************************************************************)
EXTENDS MCEspLinkNvm, TLAPS

KnownBank == IF newestIsB THEN "B" ELSE "A"

\* The bank a save never touches is empty or holds the newest serial number.
KnownBankKept == bank[KnownBank] # Blank => bank[KnownBank].seq = newestSeq

\* Only a timed save that met no change runs above the debounce.
DebounceBounded ==
  pc \notin Saving \cup {"off"} \/ (pc \in Saving /\ (caller = "flush" \/ changed))
    => dirtyRuns <= SaveDelay

\* While nothing changes, what has been copied is what is in use.
CopyFaithful ==
  /\ pc \in Saving => dirtyRuns # 0
  /\ pc = "copy" => next <= Len(Order)
  /\ pc = "copy" /\ ~changed =>
       \A i \in 1 .. next - 1 : buf[Order[i]] = live[Order[i]]
  /\ pc \in {"erase", "program", "verify"} /\ ~changed => buf = live
  /\ pc = "finish" /\ ok /\ ~changed => buf = live

\* A save that will answer TRUE has made its copy the one a boot finds.
VerifiedBoots == pc = "finish" /\ ok => BootConfig = buf

StoreInv ==
  /\ TypeOK
  /\ KnownBankKept
  /\ DebounceBounded
  /\ CopyFaithful
  /\ VerifiedBoots
  /\ CleanMeansStored
-----------------------------------------------------------------------------
(***************************************************************************)
(* Facts about the operators.                                              *)
(***************************************************************************)

\* Every position of the copy order holds a persisted parameter, and every
\* parameter has a position.
LEMMA OrderCoversSlots ==
  /\ Len(Order) \in Nat \ {0} /\ DOMAIN Order = 1 .. Len(Order)
  /\ \A i \in 1 .. Len(Order) : Order[i] \in Slots
  /\ \A s \in Slots : \E i \in 1 .. Len(Order) : Order[i] = s
<1>1. Order \in Seq(Slots) /\ Order # <<>>
  BY NvmAssumption
<1>2. Len(Order) \in Nat \ {0} /\ DOMAIN Order = 1 .. Len(Order)
  BY <1>1
<1> QED
  BY <1>2 DEF Slots

\* The next serial number is newer than the one before, across the wrap, and
\* not the other way round.
LEMMA NextIsNewer ==
  ASSUME NEW n \in Serials
  PROVE  /\ (n + 1) % SeqMod \in Serials
         /\ Newer((n + 1) % SeqMod, n)
         /\ ~Newer(n, (n + 1) % SeqMod)
<1>1. SeqMod \in Nat /\ SeqMod > 2 /\ n \in Nat /\ n < SeqMod
  BY NvmAssumption DEF Serials
<1>2. CASE n + 1 < SeqMod
  <2>1. (n + 1) % SeqMod = n + 1
    BY <1>1, <1>2
  <2>2. ((n + 1) - n) % SeqMod = 1
    BY <1>1
  <2>3. (n - (n + 1)) % SeqMod = SeqMod - 1
    BY <1>1
  <2> QED
    BY <1>1, <1>2, <2>1, <2>2, <2>3 DEF Serials, Newer
<1>3. CASE n + 1 = SeqMod
  <2>1. (n + 1) % SeqMod = 0
    BY <1>1, <1>3
  <2>2. (0 - n) % SeqMod = 1
    BY <1>1, <1>3
  <2>3. (n - 0) % SeqMod = SeqMod - 1
    BY <1>1, <1>3
  <2> QED
    BY <1>1, <1>3, <2>1, <2>2, <2>3 DEF Serials, Newer
<1> QED
  BY <1>1, <1>2, <1>3

\* Whatever the banks hold, a boot brings up a configuration.
LEMMA BootConfigTyped ==
  ASSUME bank \in [Banks -> Records \cup {Blank}]
  PROVE  BootConfig \in Configs
<1>1. Defaults \in Configs
  BY NvmAssumption
<1>2. ASSUME NEW b \in Banks, Valid(b)
      PROVE  bank[b].vals \in Configs
  BY <1>2 DEF Valid, Records
<1>3. (\E b \in Banks : Valid(b)) => Valid(BootBank) /\ BootBank \in Banks
  BY DEF BootBank, BootsB, Banks
<1> QED
  BY <1>1, <1>2, <1>3 DEF BootConfig
-----------------------------------------------------------------------------
(***************************************************************************)
(* The invariant holds at the start and is kept by every step.             *)
(***************************************************************************)

\* The numbers the code assigns lie in the ranges of its counters.
LEMMA Ranges ==
  /\ 0 \in 0 .. SaveDelay + 1 /\ 1 \in 0 .. SaveDelay + 1
  /\ SaveDelay \in 0 .. SaveDelay + 1
  /\ 0 \in 0 .. SaveRetries
  /\ 0 \in 0 .. ResetDelay /\ ResetDelay \in 0 .. ResetDelay
  /\ 0 \in Serials /\ 1 \in 1 .. Len(Order) + 1
  BY NvmAssumption, OrderCoversSlots DEF Serials

\* A board that never saved satisfies the invariant.
LEMMA InitStore == Init => StoreInv
<1> SUFFICES ASSUME Init PROVE StoreInv
  OBVIOUS
<1>1. BootConfig = Defaults
  BY DEF Init, BootConfig, Valid
<1>2. Defaults \in Configs /\ SeqMod \in Nat /\ SeqMod > 2 /\ SaveRetries \in Nat
      /\ SaveDelay \in Nat /\ SaveDelay > 1 /\ ResetDelay \in Nat
  BY NvmAssumption
<1>3. TypeOK
  BY <1>2, Ranges DEF Init, TypeOK, Places
<1>4. KnownBankKept
  BY DEF Init, KnownBankKept, KnownBank, Banks
<1>5. pc = "frames" /\ dirtyRuns <= SaveDelay
  BY <1>2 DEF Init
<1> QED
  BY <1>1, <1>3, <1>4, <1>5
     DEF Init, StoreInv, DebounceBounded, CopyFaithful, Saving, VerifiedBoots,
         CleanMeansStored

\* The record a save builds is a record.
LEMMA RecordTyped ==
  ASSUME newestSeq \in Serials, buf \in Configs
  PROVE  NewRecord \in Records
  BY NextIsNewer DEF NewRecord, Records

\* A boot remembers a serial number, and the bank that holds it.
LEMMA BootFindsKnown ==
  ASSUME bank \in [Banks -> Records \cup {Blank}], Boot
  PROVE  /\ newestSeq' \in Serials /\ newestIsB' \in BOOLEAN
         /\ KnownBankKept'
<1>1. 0 \in Serials
  BY NvmAssumption DEF Serials
<1>2. BootsB \in BOOLEAN
  BY DEF BootsB, Valid
<1>3. CASE \E b \in Banks : Valid(b)
  <2>1. Valid(BootBank) /\ BootBank \in Banks
    BY <1>3 DEF BootBank, BootsB, Banks
  <2>2. bank[BootBank].seq \in Serials
    BY <2>1 DEF Valid, Records
  <2>3. newestSeq' = bank[BootBank].seq /\ newestIsB' = BootsB /\ bank' = bank
    BY <1>3 DEF Boot
  <2>4. KnownBank' = BootBank
    BY <2>3 DEF KnownBank, BootBank
  <2> QED
    BY <1>2, <2>2, <2>3, <2>4 DEF KnownBankKept
<1>4. CASE ~\E b \in Banks : Valid(b)
  <2>1. \A b \in Banks : bank[b] = Blank
    BY <1>4 DEF Valid
  <2>2. newestSeq' = 0 /\ newestIsB' = BootsB /\ bank' = bank
    BY <1>4 DEF Boot
  <2>3. KnownBank' \in Banks
    BY DEF KnownBank, Banks
  <2> QED
    BY <1>1, <1>2, <2>1, <2>2, <2>3 DEF KnownBankKept
<1> QED
  BY <1>3, <1>4

\* Every variable stays in its range.
LEMMA TypeStep == TypeOK /\ DebounceBounded /\ CopyFaithful /\ [Next]_vars => TypeOK'
<1> SUFFICES ASSUME TypeOK, DebounceBounded, CopyFaithful, [Next]_vars
             PROVE  TypeOK'
  OBVIOUS
<1> USE DEF TypeOK, Places, known, debt, save
<1>1. CASE NvmTick
  <2>1. dirtyRuns' \in 0 .. SaveDelay + 1
    BY <1>1, NvmAssumption DEF NvmTick, DebounceBounded, Saving, BeginSave
  <2> QED
    BY <1>1, <2>1, Ranges DEF NvmTick, BeginSave
<1>2. CASE CopyOne
  <2>1. next \in 1 .. Len(Order) /\ next + 1 \in 1 .. Len(Order) + 1
    BY <1>2, OrderCoversSlots DEF CopyOne, CopyFaithful
  <2>2. Order[next] \in Slots /\ live[Order[next]] \in Values
    BY <2>1, OrderCoversSlots DEF Configs
  <2>3. buf' \in Configs
    BY <1>2, <2>2 DEF CopyOne, Configs
  <2> QED
    BY <1>2, <2>1, <2>3 DEF CopyOne, debt, known
<1>3. CASE Erase
  <2>1. Target \in Banks
    BY DEF Target, Banks
  <2>2. bank' \in [Banks -> Records \cup {Blank}]
    BY <1>3, <2>1 DEF Erase
  <2> QED
    BY <1>3, <2>2 DEF Erase, Fails
<1>4. CASE Program
  <2>1. Target \in Banks
    BY DEF Target, Banks
  <2>2. bank' \in [Banks -> Records \cup {Blank}]
    BY <1>4, <2>1, RecordTyped DEF Program
  <2> QED
    BY <1>4, <2>2 DEF Program, Fails
<1>5. CASE Verify
  <2>1. NewRecord.seq \in Serials
    BY RecordTyped DEF Records
  <2>2. (bank[Target] = NewRecord) \in BOOLEAN /\ (Target = "B") \in BOOLEAN
    OBVIOUS
  <2> QED
    BY <1>5, <2>1, <2>2 DEF Verify
<1>6. CASE FinishTick
  <2>1. retries' \in 0 .. SaveRetries
    BY <1>6, NvmAssumption DEF FinishTick, CleanIfUnchanged
  <2> QED
    BY <1>6, <2>1, Ranges DEF FinishTick, CleanIfUnchanged
<1>7. CASE FinishFlush
  BY <1>7, Ranges DEF FinishFlush, CleanIfUnchanged
<1>8. CASE CalLutTick
  <2>1. resetRuns' \in 0 .. ResetDelay
    BY <1>8, NvmAssumption DEF CalLutTick
  <2> QED
    BY <1>8, <2>1 DEF CalLutTick
<1>9. CASE ResetFrame
  BY <1>9, Ranges DEF ResetFrame, BeginSave
<1>10. ASSUME NEW s \in Slots, NEW v \in Values, SetParam(s, v)
      PROVE  TypeOK'
  <2>1. live' \in Configs
    BY <1>10 DEF SetParam, Configs
  <2> QED
    BY <1>10, <2>1, Ranges DEF SetParam, MarkDirty
<1>11. ASSUME NEW v \in [ControlSlots -> Values], ControlEdit(v)
      PROVE  TypeOK'
  <2>1. live' \in Configs
    BY <1>11, NvmAssumption DEF ControlEdit, Configs
  <2> QED
    BY <1>11, <2>1, Ranges DEF ControlEdit, MarkDirty
<1>12. CASE PowerLoss
  <2>1. Target \in Banks
    BY DEF Target, Banks
  <2>2. bank' \in [Banks -> Records \cup {Blank}]
    BY <1>12, <2>1, RecordTyped DEF PowerLoss
  <2> QED
    BY <1>12, <2>2 DEF PowerLoss, save, debt
<1>13. CASE Boot
  <2>1. live' \in Configs
    BY <1>13, BootConfigTyped DEF Boot
  <2>2. newestSeq' \in Serials /\ newestIsB' \in BOOLEAN
    BY <1>13, BootFindsKnown DEF Boot
  <2> QED
    BY <1>13, <2>1, <2>2, Ranges DEF Boot
<1>14. CASE UNCHANGED vars
  BY <1>14 DEF vars, known, debt, save
<1> QED
  BY <1>1, <1>2, <1>3, <1>4, <1>5, <1>6, <1>7, <1>8, <1>9, <1>10, <1>11,
       <1>12, <1>13, <1>14
     DEF Next, Task, Panel, Control

\* No step writes to the bank of the newest record.
LEMMA KnownStep == TypeOK /\ KnownBankKept /\ [Next]_vars => KnownBankKept'
<1> SUFFICES ASSUME TypeOK, KnownBankKept, [Next]_vars
             PROVE  KnownBankKept'
  OBVIOUS
<1> USE DEF KnownBankKept, KnownBank, known
<1>1. CASE NvmTick \/ CopyOne \/ FinishTick \/ FinishFlush \/ CalLutTick \/ ResetFrame \/ UNCHANGED vars
  BY <1>1
     DEF NvmTick, CopyOne, FinishTick, FinishFlush, CalLutTick, ResetFrame, vars
<1>2. ASSUME NEW s \in Slots, NEW v \in Values, SetParam(s, v)
      PROVE  KnownBankKept'
  BY <1>2 DEF SetParam
<1>3. ASSUME NEW v \in [ControlSlots -> Values], ControlEdit(v)
      PROVE  KnownBankKept'
  BY <1>3 DEF ControlEdit
<1>4. CASE Erase \/ Program \/ PowerLoss
  <2>1. newestSeq' = newestSeq /\ newestIsB' = newestIsB
    BY <1>4 DEF Erase, Program, PowerLoss
  <2>2. KnownBank # Target
    BY DEF KnownBank, Target
  <2>3. bank' \in {bank, [bank EXCEPT ![Target] = Blank],
                    [bank EXCEPT ![Target] = NewRecord]}
    BY <1>4 DEF Erase, Program, PowerLoss
  <2>4. bank \in [Banks -> Records \cup {Blank}] /\ KnownBank \in Banks
    BY DEF TypeOK, KnownBank, Banks
  <2>5. bank'[KnownBank] = bank[KnownBank]
    BY <2>2, <2>3, <2>4
  <2> QED
    BY <2>1, <2>5
<1>5. CASE Verify
  <2>1. CASE ~ok'
    BY <1>5, <2>1 DEF Verify
  <2>2. CASE ok'
    <3>1. bank'[Target] = NewRecord /\ newestSeq' = NewRecord.seq
          /\ newestIsB' = (Target = "B")
      BY <1>5, <2>2 DEF Verify
    <3>2. KnownBank' = Target
      BY <3>1 DEF KnownBank, Target
    <3> QED
      BY <3>1, <3>2 DEF KnownBankKept
  <2> QED
    BY <2>1, <2>2
<1>6. CASE Boot
  BY <1>6, BootFindsKnown DEF TypeOK
<1> QED
  BY <1>1, <1>2, <1>3, <1>4, <1>5, <1>6
     DEF Next, Task, Panel, Control

\* An edit restarts the debounce, and only a timed save outgrows it.
LEMMA DebounceStep == TypeOK /\ DebounceBounded /\ [Next]_vars => DebounceBounded'
<1> SUFFICES ASSUME TypeOK, DebounceBounded, [Next]_vars
             PROVE  DebounceBounded'
  OBVIOUS
<1> USE NvmAssumption DEF TypeOK, DebounceBounded, Saving, debt, save
<1>1. CASE NvmTick
  BY <1>1 DEF NvmTick, BeginSave
<1>2. CASE CopyOne \/ Erase \/ Program \/ Verify
  BY <1>2 DEF CopyOne, Erase, Program, Verify, Fails
<1>3. CASE FinishTick
  BY <1>3 DEF FinishTick, CleanIfUnchanged
<1>4. CASE FinishFlush
  BY <1>4 DEF FinishFlush, CleanIfUnchanged
<1>5. CASE CalLutTick
  BY <1>5 DEF CalLutTick
<1>6. CASE ResetFrame
  BY <1>6 DEF ResetFrame, BeginSave
<1>7. ASSUME NEW s \in Slots, NEW v \in Values, SetParam(s, v)
      PROVE  DebounceBounded'
  BY <1>7 DEF SetParam, MarkDirty
<1>8. ASSUME NEW v \in [ControlSlots -> Values], ControlEdit(v)
      PROVE  DebounceBounded'
  BY <1>8 DEF ControlEdit, MarkDirty
<1>9. CASE PowerLoss
  BY <1>9 DEF PowerLoss
<1>10. CASE Boot
  BY <1>10 DEF Boot
<1>11. CASE UNCHANGED vars
  BY <1>11 DEF vars
<1> QED
  BY <1>1, <1>2, <1>3, <1>4, <1>5, <1>6, <1>7, <1>8, <1>9, <1>10, <1>11
     DEF Next, Task, Panel, Control

\* The copy follows the parameters in use, or a change is on record.
LEMMA CopyStep == TypeOK /\ CopyFaithful /\ [Next]_vars => CopyFaithful'
<1> SUFFICES ASSUME TypeOK, CopyFaithful, [Next]_vars
             PROVE  CopyFaithful'
  OBVIOUS
<1> USE DEF TypeOK, CopyFaithful, Saving, debt, save
<1>1. CASE NvmTick
  BY <1>1, OrderCoversSlots, NvmAssumption DEF NvmTick, BeginSave
<1>2. CASE CopyOne
  <2>1. next \in 1 .. Len(Order) /\ Len(Order) \in Nat /\ ~(pc' \in {"program", "verify", "finish"})
        /\ next' = next + 1 /\ live' = live /\ changed' = changed
        /\ dirtyRuns' = dirtyRuns /\ dirtyRuns # 0
    BY <1>2, OrderCoversSlots DEF CopyOne
  <2>2. pc' = "copy" => next' <= Len(Order)
    BY <1>2, <2>1 DEF CopyOne
  <2>3. ASSUME ~changed
        PROVE  \A i \in 1 .. next : buf'[Order[i]] = live[Order[i]]
    <3> SUFFICES ASSUME NEW i \in 1 .. next
                 PROVE  buf'[Order[i]] = live[Order[i]]
      OBVIOUS
    <3>1. Order[i] \in Slots /\ Order[next] \in Slots
      BY <2>1, OrderCoversSlots
    <3>2. buf' = [buf EXCEPT ![Order[next]] = live[Order[next]]]
          /\ buf \in [Slots -> Values]
      BY <1>2 DEF CopyOne, Configs
    <3>3. CASE Order[i] = Order[next]
      BY <3>1, <3>2, <3>3
    <3>4. CASE Order[i] # Order[next]
      <4>1. i \in 1 .. next - 1
        BY <2>1, <3>4
      <4>2. buf[Order[i]] = live[Order[i]]
        BY <1>2, <2>3, <4>1 DEF CopyOne
      <4> QED
        BY <3>1, <3>2, <3>4, <4>2
    <3> QED
      BY <3>3, <3>4
  <2>4. pc' = "copy" /\ ~changed' =>
          \A i \in 1 .. next' - 1 : buf'[Order[i]] = live'[Order[i]]
    BY <2>1, <2>3
  <2>5. pc' = "erase" /\ ~changed' => buf' = live'
    <3> SUFFICES ASSUME pc' = "erase", ~changed PROVE buf' = live
      BY <2>1
    <3>1. next = Len(Order)
      BY <1>2 DEF CopyOne
    <3>2. \A s \in Slots : buf'[s] = live[s]
      BY <2>3, <3>1, OrderCoversSlots
    <3>3. buf' \in [Slots -> Values] /\ live \in [Slots -> Values]
      <4>1. Order[next] \in Slots
        BY <2>1, OrderCoversSlots
      <4> QED
        BY <1>2, <4>1 DEF CopyOne, Configs
    <3> QED
      BY <3>2, <3>3
  <2> QED
    BY <2>1, <2>2, <2>4, <2>5
<1>3. CASE Erase \/ Program \/ Verify
  BY <1>3 DEF Erase, Program, Verify, Fails
<1>4. CASE FinishTick \/ FinishFlush
  BY <1>4 DEF FinishTick, FinishFlush
<1>5. CASE CalLutTick
  BY <1>5 DEF CalLutTick
<1>6. CASE ResetFrame
  BY <1>6, OrderCoversSlots, NvmAssumption DEF ResetFrame, BeginSave
<1>7. ASSUME NEW s \in Slots, NEW v \in Values, SetParam(s, v)
      PROVE  CopyFaithful'
  BY <1>7 DEF SetParam, MarkDirty
<1>8. ASSUME NEW v \in [ControlSlots -> Values], ControlEdit(v)
      PROVE  CopyFaithful'
  BY <1>8 DEF ControlEdit, MarkDirty
<1>9. CASE PowerLoss
  BY <1>9 DEF PowerLoss
<1>10. CASE Boot
  BY <1>10 DEF Boot
<1>11. CASE UNCHANGED vars
  BY <1>11 DEF vars
<1> QED
  BY <1>1, <1>2, <1>3, <1>4, <1>5, <1>6, <1>7, <1>8, <1>9, <1>10, <1>11
     DEF Next, Task, Panel, Control

\* What a boot finds depends on the banks alone.
LEMMA BootKept == bank' = bank => BootConfig' = BootConfig
  BY DEF BootConfig, BootBank, BootsB, Valid
\* Once the bank a save wrote reads back, it wins at a boot over the other one.
LEMMA SavedBankBoots ==
  ASSUME TypeOK, KnownBankKept, bank[Target] = NewRecord
  PROVE  BootConfig = buf
<1>1. NewRecord \in Records /\ NewRecord # Blank
  BY RecordTyped, BlankAssumption DEF TypeOK
<1>2. /\ NewRecord.vals = buf /\ NewRecord.seq = (newestSeq + 1) % SeqMod
      /\ Newer(NewRecord.seq, newestSeq) /\ ~Newer(newestSeq, NewRecord.seq)
  BY NextIsNewer DEF NewRecord, TypeOK
<1>3. Valid(Target) /\ Target \in Banks
  BY <1>1 DEF Valid, Target, Banks
<1>4. CASE newestIsB
  <2>1. Target = "A" /\ KnownBank = "B"
    BY <1>4 DEF Target, KnownBank
  <2>2. ~BootsB
    BY <1>2, <1>3, <2>1 DEF BootsB, Valid, KnownBankKept
  <2> QED
    BY <1>2, <1>3, <2>1, <2>2 DEF BootConfig, BootBank
<1>5. CASE ~newestIsB
  <2>1. Target = "B" /\ KnownBank = "A"
    BY <1>5 DEF Target, KnownBank
  <2>2. BootsB
    BY <1>2, <1>3, <2>1 DEF BootsB, Valid, KnownBankKept
  <2> QED
    BY <1>2, <1>3, <2>1, <2>2 DEF BootConfig, BootBank
<1> QED
  BY <1>4, <1>5

\* A verified save is what a boot finds, and the debt ends only with one.
LEMMA BootStep == StoreInv /\ [Next]_vars => (VerifiedBoots /\ CleanMeansStored)'
<1> SUFFICES ASSUME StoreInv, [Next]_vars
             PROVE  (VerifiedBoots /\ CleanMeansStored)'
  OBVIOUS
<1> USE DEF StoreInv, VerifiedBoots, CleanMeansStored, CopyFaithful, Saving,
     debt, save
<1>1. CASE NvmTick
  <2>1. dirtyRuns \in Nat /\ dirtyRuns + 1 # 0
    BY DEF TypeOK
  <2>2. dirtyRuns' = 0 => dirtyRuns = 0
    BY <1>1, <2>1 DEF NvmTick
  <2> QED
    BY <1>1, <2>2, BootKept DEF NvmTick, BeginSave
<1>2. CASE CopyOne
  BY <1>2, BootKept DEF CopyOne
<1>3. CASE Erase \/ Program \/ PowerLoss
  BY <1>3 DEF Erase, Program, PowerLoss, Fails
<1>4. CASE Verify
  <2>1. dirtyRuns # 0 /\ dirtyRuns' = dirtyRuns
    BY <1>4 DEF Verify
  <2>2. bank' = bank /\ buf' = buf /\ ok' = (bank[Target] = NewRecord)
    BY <1>4 DEF Verify
  <2>3. bank[Target] = NewRecord => BootConfig = buf
    BY SavedBankBoots
  <2> QED
    BY <2>1, <2>2, <2>3, BootKept
<1>5. CASE FinishTick
  <2>1. SaveDelay # 0
    BY NvmAssumption
  <2> QED
    BY <1>5, <2>1, BootKept DEF FinishTick, CleanIfUnchanged
<1>6. CASE FinishFlush
  BY <1>6, BootKept DEF FinishFlush, CleanIfUnchanged
<1>7. CASE CalLutTick
  BY <1>7, BootKept DEF CalLutTick
<1>8. CASE ResetFrame
  BY <1>8, BootKept DEF ResetFrame, BeginSave
<1>9. ASSUME NEW s \in Slots, NEW v \in Values, SetParam(s, v)
      PROVE  (VerifiedBoots /\ CleanMeansStored)'
  BY <1>9 DEF SetParam, MarkDirty
<1>10. ASSUME NEW v \in [ControlSlots -> Values], ControlEdit(v)
      PROVE  (VerifiedBoots /\ CleanMeansStored)'
  BY <1>10, BootKept DEF ControlEdit, MarkDirty
<1>11. CASE Boot
  BY <1>11, BootKept DEF Boot
<1>12. CASE UNCHANGED vars
  BY <1>12, BootKept DEF vars
<1> QED
  BY <1>1, <1>2, <1>3, <1>4, <1>5, <1>6, <1>7, <1>8, <1>9, <1>10, <1>11, <1>12
     DEF Next, Task, Panel, Control

\* The invariant is kept by every step.
LEMMA StoreStep == StoreInv /\ [Next]_vars => StoreInv'
  BY TypeStep, KnownStep, DebounceStep, CopyStep, BootStep DEF StoreInv
-----------------------------------------------------------------------------
(***************************************************************************)
(* The refinement of DurableStore.                                         *)
(***************************************************************************)

ConfigTyped == BootConfig \in Configs

\* A boot always brings up a configuration.
LEMMA StoreBoots == StoreInv => ConfigTyped
  BY BootConfigTyped DEF StoreInv, TypeOK, ConfigTyped

\* A board that never saved uses the compiled values and would boot with them.
LEMMA RefineInit == Init => Durable!Init
<1> SUFFICES ASSUME Init PROVE Durable!Init
  OBVIOUS
<1>1. BootConfig = Defaults /\ Defaults \in Configs
  BY NvmAssumption DEF Init, BootConfig, Valid
<1> QED
  BY <1>1 DEF Init, Durable!Init


\* Every step of the firmware edits, persists, boots, or is not seen.
LEMMA RefineStep == StoreInv /\ ConfigTyped' /\ [Next]_vars => [Durable!Next]_(Durable!storeVars)
<1> SUFFICES ASSUME StoreInv, ConfigTyped', [Next]_vars
             PROVE  [Durable!Next]_(Durable!storeVars)
  OBVIOUS
<1> USE DEF Durable!storeVars, debt
<1>1. CASE NvmTick
  <2>1. dirtyRuns \in Nat /\ dirtyRuns + 1 # 0
    BY DEF StoreInv, TypeOK
  <2>2. (dirtyRuns' # 0) = (dirtyRuns # 0)
    BY <1>1, <2>1 DEF NvmTick
  <2> QED
    BY <1>1, <2>2, BootKept DEF NvmTick
<1>2. CASE CopyOne
  BY <1>2, BootKept DEF CopyOne
<1>3. CASE Verify
  BY <1>3, BootKept DEF Verify
<1>4. CASE CalLutTick
  BY <1>4, BootKept DEF CalLutTick
<1>5. CASE ResetFrame
  BY <1>5, BootKept DEF ResetFrame, BeginSave
<1>6. CASE UNCHANGED vars
  BY <1>6, BootKept DEF vars
<1>7. CASE Erase \/ Program \/ PowerLoss
  <2>1. BootConfig' \in Configs
    BY DEF ConfigTyped
  <2>2. live' = live /\ dirtyRuns' = dirtyRuns
    BY <1>7 DEF Erase, Program, PowerLoss
  <2>3. CASE bank' = bank
    BY <2>2, <2>3, BootKept
  <2>4. CASE bank' # bank
    <3>1. dirtyRuns # 0
      BY <1>7, <2>4 DEF Erase, Program, PowerLoss, StoreInv, CopyFaithful,
           Saving
    <3> QED
      BY <2>1, <2>2, <3>1 DEF Durable!Persist, Durable!Next
  <2> QED
    BY <2>3, <2>4
<1>8. CASE FinishTick \/ FinishFlush
  <2>1. dirtyRuns # 0 /\ SaveDelay # 0 /\ pc = "finish"
    BY <1>8, NvmAssumption
       DEF FinishTick, FinishFlush, StoreInv, CopyFaithful, Saving
  <2>2. bank' = bank /\ live' = live /\ BootConfig' = BootConfig
    BY <1>8, BootKept DEF FinishTick, FinishFlush
  <2>3. CASE dirtyRuns' = 0
    <3>1. ok /\ ~changed
      BY <1>8, <2>1, <2>3 DEF FinishTick, FinishFlush, CleanIfUnchanged
    <3>2. BootConfig = live
      BY <2>1, <3>1 DEF StoreInv, CopyFaithful, VerifiedBoots
    <3>3. live \in Configs
      BY DEF StoreInv, TypeOK
    <3> QED
      BY <2>1, <2>2, <2>3, <3>2, <3>3 DEF Durable!Persist, Durable!Next
  <2>4. CASE dirtyRuns' # 0
    BY <2>1, <2>2, <2>4
  <2> QED
    BY <2>3, <2>4
<1>9. ASSUME NEW s \in Slots, NEW v \in Values, SetParam(s, v)
      PROVE  [Durable!Next]_(Durable!storeVars)
  <2>1. live' \in Configs
    BY <1>9 DEF SetParam, StoreInv, TypeOK, Configs
  <2> QED
    BY <1>9, <2>1, BootKept DEF SetParam, MarkDirty, Durable!Edit, Durable!Next
<1>10. ASSUME NEW v \in [ControlSlots -> Values], ControlEdit(v)
      PROVE  [Durable!Next]_(Durable!storeVars)
  <2>1. live' \in Configs
    BY <1>10 DEF ControlEdit, StoreInv, TypeOK, Configs
  <2> QED
    BY <1>10, <2>1, BootKept DEF ControlEdit, MarkDirty, Durable!Edit,
         Durable!Next
<1>11. CASE Boot
  BY <1>11, BootKept DEF Boot, Durable!Boot, Durable!Next
<1> QED
  BY <1>1, <1>2, <1>3, <1>4, <1>5, <1>6, <1>7, <1>8, <1>9, <1>10, <1>11
     DEF Next, Task, Panel, Control
-----------------------------------------------------------------------------
\* Every serial number, counter and buffer of the store stays in its range, for
\* any debounce and retry budget.
THEOREM StoreTypeCorrect == Spec => []TypeOK
<1>1. StoreInv => TypeOK
  BY DEF StoreInv
<1> QED
  BY <1>1, InitStore, StoreStep, PTL DEF Spec

\* No order of edits, flushes, failed saves and power losses ends the debt of a
\* save before the flash holds what is in use.
THEOREM CleanStoreIsSafe == Spec => []CleanMeansStored
<1>1. StoreInv => CleanMeansStored
  BY DEF StoreInv
<1> QED
  BY <1>1, InitStore, StoreStep, PTL DEF Spec

\* The two-bank store keeps the promise of DurableStore.
THEOREM StoreIsDurable == Spec => ImplementsDurableStore
  BY InitStore, StoreStep, StoreBoots, RefineInit, RefineStep, PTL
     DEF Spec, ImplementsDurableStore, Durable!Spec
-----------------------------------------------------------------------------
(***************************************************************************)
(* What a boot may find: the observers of MCEspLinkNvm.                    *)
(***************************************************************************)

Covers(h, config) == \A s \in Slots : config[s] \in h[s]

\* The bank no save touches is as recent as the last verified save; without
\* one a boot falls back to the compiled values.
KnownRecent ==
  Covers(held, IF bank[KnownBank] = Blank THEN Defaults ELSE bank[KnownBank].vals)

\* The bank a save writes holds something as recent, or it loses.
TargetRecent ==
  \/ bank[Target] = Blank
  \/ Covers(held, bank[Target].vals)
  \/ BootBank = KnownBank /\ bank[KnownBank] # Blank

\* What is in use is recent, and so is what a save has copied.
UseRecent ==
  /\ pc # "off" => Covers(held, live)
  /\ pc \in Saving =>
       Covers(during, live) /\ \A s \in Slots : during[s] \subseteq held[s]
  /\ pc = "copy" =>
       \A i \in 1 .. next - 1 : buf[Order[i]] \in during[Order[i]]
  /\ pc \in Saving \ {"copy"} => Covers(during, buf)

RecentInv == StoreInv /\ KnownRecent /\ TargetRecent /\ UseRecent

\* Whatever a boot takes then is recent.
LEMMA RecentBoots ==
  ASSUME RecentInv PROVE BootIsRecent
<1>0. Target \in Banks /\ KnownBank \in Banks /\ Target # KnownBank
      /\ BootBank \in Banks /\ \A b \in Banks : b = Target \/ b = KnownBank
  BY DEF Target, KnownBank, BootBank, Banks
<1>1. CASE \E b \in Banks : Valid(b)
  <2>1. Valid(BootBank) /\ BootConfig = bank[BootBank].vals
    BY <1>1 DEF BootConfig, BootBank, BootsB, Banks
  <2>2. CASE BootBank = KnownBank
    BY <2>1, <2>2 DEF RecentInv, KnownRecent, Covers, Valid, BootIsRecent
  <2>3. CASE BootBank # KnownBank
    BY <1>0, <2>1, <2>3
    DEF RecentInv, TargetRecent, Covers, Valid, BootIsRecent
  <2> QED
    BY <2>2, <2>3
<1>2. CASE ~\E b \in Banks : Valid(b)
  <2>1. BootConfig = Defaults /\ bank[KnownBank] = Blank
    BY <1>0, <1>2 DEF BootConfig, Valid
  <2> QED
    BY <2>1 DEF RecentInv, KnownRecent, Covers, BootIsRecent
<1> QED
  BY <1>1, <1>2

\* Short of a boot and of a verified save, the observers only grow, and a save
\* that begins starts a new account.
LEMMA Grows ==
  ASSUME Observe, pc # "off", ~(pc = "verify" /\ ok' /\ pc' = "finish")
  PROVE  /\ \A s \in Slots : held'[s] = held[s] \cup {live'[s]}
         /\ ~Starts => \A s \in Slots : during'[s] = during[s] \cup {live'[s]}
         /\ Starts => \A s \in Slots : during'[s] = {live[s]}
  BY DEF Observe, AlsoLive, OnlyLive

\* A step that leaves the banks alone.
LEMMA BanksKept ==
  ASSUME KnownRecent, TargetRecent, UNCHANGED <<bank, known>>,
         \A s \in Slots : held[s] \subseteq held'[s]
  PROVE  (KnownRecent /\ TargetRecent)'
<1>1. KnownBank' = KnownBank /\ Target' = Target /\ BootBank' = BootBank
  BY DEF KnownBank, Target, BootBank, BootsB, Valid, known
<1> QED
  BY <1>1 DEF KnownRecent, TargetRecent, Covers

\* A step of a save on its bank.
LEMMA TargetWritten ==
  ASSUME RecentInv, UNCHANGED <<known, live>>, pc \in {"erase", "program"},
         NEW page \in {Blank, NewRecord}, page # Blank => pc = "program",
         bank' = [bank EXCEPT ![Target] = page],
         \A s \in Slots : held[s] \subseteq held'[s]
  PROVE  (KnownRecent /\ TargetRecent)'
<1>1. /\ KnownBank' = KnownBank /\ Target' = Target /\ Target # KnownBank
      /\ Target \in Banks /\ KnownBank \in Banks
  BY DEF KnownBank, Target, known, Banks
<1>2. bank'[KnownBank] = bank[KnownBank] /\ bank'[Target] = page
  BY <1>1 DEF RecentInv, StoreInv, TypeOK
<1>3. KnownRecent'
  BY <1>1, <1>2 DEF RecentInv, KnownRecent, Covers
<1>4. page # Blank => Covers(held', page.vals)
  <2> SUFFICES ASSUME page # Blank, NEW s \in Slots
               PROVE  page.vals[s] \in held'[s]
    BY DEF Covers
  <2>1. page.vals = buf /\ pc \in Saving \ {"copy"} /\ pc \in Saving
    BY DEF NewRecord, Saving
  <2> QED
    BY <2>1 DEF RecentInv, UseRecent, Covers
<1>5. TargetRecent'
  BY <1>1, <1>2, <1>4 DEF TargetRecent, Covers
<1> QED
  BY <1>3, <1>5

\* The account of the parameters in use, whatever the step.
LEMMA UseGrows ==
  ASSUME RecentInv, Observe, pc # "off", pc' # "copy",
         ~(pc = "verify" /\ ok' /\ pc' = "finish"),
         pc' \in Saving => pc \in Saving \ {"copy"} /\ buf' = buf
  PROVE  UseRecent'
<1>1. ~Starts
  BY DEF Starts
<1>2. \A s \in Slots : held'[s] = held[s] \cup {live'[s]}
                       /\ during'[s] = during[s] \cup {live'[s]}
  BY <1>1, Grows
<1> QED
  BY <1>2 DEF RecentInv, UseRecent, Covers, Saving

LEMMA VerifyRecent ==
  ASSUME RecentInv, Verify, Observe PROVE (KnownRecent /\ TargetRecent /\ UseRecent)'
<1>0. pc = "verify" /\ pc' = "finish" /\ ~Starts /\ pc # "off"
      /\ UNCHANGED <<bank, live, buf>> /\ ok' = (bank[Target] = NewRecord)
  BY DEF Verify, Starts
<1>1. CASE ~ok'
  <2>1. UNCHANGED <<bank, known>>
    BY <1>1 DEF Verify
  <2>2. \A s \in Slots : held[s] \subseteq held'[s]
    BY <1>0, <1>1, Grows
  <2>3. UseRecent'
    BY <1>0, <1>1, UseGrows DEF Saving
  <2> QED
    BY <2>1, <2>2, <2>3, BanksKept DEF RecentInv
<1>2. CASE ok'
  <2>1. /\ bank[Target] = NewRecord /\ newestSeq' = NewRecord.seq
        /\ newestIsB' = (Target = "B")
    BY <1>0, <1>2 DEF Verify
  <2>2. KnownBank' = Target /\ Target' = KnownBank
    BY <2>1 DEF KnownBank, Target
  <2>3. held' = during
        /\ \A s \in Slots : during'[s] = during[s] \cup {live[s]}
    BY <1>0, <1>2 DEF Observe, AlsoLive
  <2>4. Covers(during, buf) /\ Covers(during, live)
    BY <1>0 DEF RecentInv, UseRecent, Saving
  <2>5. NewRecord # Blank /\ NewRecord.vals = buf
    BY RecordTyped, BlankAssumption DEF RecentInv, StoreInv, TypeOK, NewRecord
  <2>6. KnownRecent'
    BY <1>0, <2>1, <2>2, <2>3, <2>4, <2>5 DEF KnownRecent
  <2>7. BootBank' = Target
    <3>1. /\ Newer(NewRecord.seq, newestSeq) /\ ~Newer(newestSeq, NewRecord.seq)
      BY NextIsNewer DEF NewRecord, RecentInv, StoreInv, TypeOK
    <3>2. BootBank' = BootBank
      BY <1>0 DEF BootBank, BootsB, Valid
    <3>3. bank[KnownBank] # Blank => bank[KnownBank].seq = newestSeq
      BY DEF RecentInv, StoreInv, KnownBankKept
    <3>4. CASE newestIsB
      BY <2>1, <2>5, <3>1, <3>2, <3>3, <3>4
      DEF BootBank, BootsB, Valid, KnownBank, Target
    <3>5. CASE ~newestIsB
      BY <2>1, <2>5, <3>1, <3>2, <3>3, <3>5
      DEF BootBank, BootsB, Valid, KnownBank, Target
    <3> QED
      BY <3>4, <3>5
  <2>8. TargetRecent'
    BY <1>0, <2>1, <2>2, <2>5, <2>7 DEF TargetRecent
  <2>9. UseRecent'
    BY <1>0, <2>3, <2>4 DEF UseRecent, Covers, Saving
  <2> QED
    BY <2>6, <2>8, <2>9
<1> QED
  BY <1>1, <1>2

LEMMA BootRecent ==
  ASSUME RecentInv, Boot, Observe PROVE (KnownRecent /\ TargetRecent /\ UseRecent)'
<1>1. /\ pc = "off" /\ pc' = "frames" /\ bank' = bank
      /\ live' = BootConfig /\ newestIsB' = BootsB
      /\ \A s \in Slots : held'[s] = {live'[s]}
  BY DEF Boot, Observe
<1>2. /\ KnownBank' = BootBank /\ BootBank' = BootBank
      /\ KnownBank' \in Banks /\ Target' \in Banks
  BY <1>1 DEF KnownBank, BootBank, BootsB, Valid, Banks, Target
<1>3. UseRecent'
  BY <1>1 DEF UseRecent, Covers, Saving
<1>4. Covers(held', BootConfig)
  BY <1>1 DEF Covers
<1>5. CASE \E b \in Banks : Valid(b)
  <2>1. Valid(BootBank)
    BY <1>5 DEF BootBank, BootsB, Banks
  <2>2. BootConfig = bank[BootBank].vals
    BY <1>5 DEF BootConfig
  <2> QED
    BY <1>1, <1>2, <1>3, <1>4, <2>1, <2>2 DEF KnownRecent, TargetRecent, Valid
<1>6. CASE ~\E b \in Banks : Valid(b)
  <2>1. BootConfig = Defaults
    BY <1>6 DEF BootConfig
  <2> QED
    BY <1>1, <1>2, <1>3, <1>4, <1>6, <2>1 DEF KnownRecent, TargetRecent, Valid
<1> QED
  BY <1>5, <1>6

LEMMA StartRecent ==
  ASSUME RecentInv, Observe, Starts, next' = 1, UNCHANGED <<bank, known, live>>
  PROVE  (KnownRecent /\ TargetRecent /\ UseRecent)'
<1>1. pc = "frames" /\ pc' = "copy"
  BY DEF Starts
<1>2. \A s \in Slots : held'[s] = held[s] \cup {live[s]}
                       /\ during'[s] = {live[s]}
  BY <1>1, Grows
<1>3. Covers(held, live)
  BY <1>1 DEF RecentInv, UseRecent
<1>4. UseRecent'
  BY <1>1, <1>2, <1>3 DEF UseRecent, Covers, Saving
<1>5. \A s \in Slots : held[s] \subseteq held'[s]
  BY <1>2
<1> QED
  BY <1>4, <1>5, BanksKept DEF RecentInv

LEMMA CopyRecent ==
  ASSUME RecentInv, CopyOne, Observe PROVE (KnownRecent /\ TargetRecent /\ UseRecent)'
<1>1. /\ pc = "copy" /\ pc' \in {"copy", "erase"} /\ ~Starts
      /\ UNCHANGED <<bank, known, live>>
      /\ next' = next + 1
      /\ pc' = "erase" => next = Len(Order)
      /\ buf' = [buf EXCEPT ![Order[next]] = live[Order[next]]]
  BY DEF CopyOne, Starts
<1>a. next \in 1 .. Len(Order)
  BY <1>1, OrderCoversSlots DEF RecentInv, StoreInv, CopyFaithful, TypeOK
<1>b. buf \in [Slots -> Values]
  BY DEF RecentInv, StoreInv, TypeOK, Configs
<1>2. \A s \in Slots : held'[s] = held[s] \cup {live[s]}
                       /\ during'[s] = during[s] \cup {live[s]}
  BY <1>1, Grows
<1>3. \A i \in 1 .. next : buf'[Order[i]] \in during'[Order[i]]
  <2> SUFFICES ASSUME NEW i \in 1 .. next
               PROVE  buf'[Order[i]] \in during'[Order[i]]
    OBVIOUS
  <2>0. i \in 1 .. Len(Order)
    BY <1>a, OrderCoversSlots
  <2>1. Order[i] \in Slots /\ Order[next] \in Slots
    BY <1>a, <2>0, OrderCoversSlots
  <2>2. CASE Order[i] = Order[next]
    BY <1>1, <1>b, <1>2, <2>1, <2>2
  <2>3. CASE Order[i] # Order[next]
    <3>1. i \in 1 .. next - 1
      BY <1>a, <2>3
    <3>2. buf[Order[i]] \in during[Order[i]]
      BY <1>1, <3>1 DEF RecentInv, UseRecent
    <3> QED
      BY <1>1, <1>b, <1>2, <2>1, <2>3, <3>2
  <2> QED
    BY <2>2, <2>3
<1>4. pc' = "copy" =>
        \A i \in 1 .. next' - 1 : buf'[Order[i]] \in during'[Order[i]]
  BY <1>1, <1>a, <1>3, OrderCoversSlots
<1>5. pc' = "erase" => Covers(during', buf')
  BY <1>1, <1>a, <1>3, OrderCoversSlots DEF Covers
<1>6. Covers(held, live) /\ Covers(during, live)
      /\ \A s \in Slots : during[s] \subseteq held[s]
  BY <1>1 DEF RecentInv, UseRecent, Saving
<1>7. UseRecent'
  BY <1>1, <1>2, <1>4, <1>5, <1>6 DEF UseRecent, Covers, Saving
<1>8. \A s \in Slots : held[s] \subseteq held'[s]
  BY <1>2
<1> QED
  BY <1>1, <1>7, <1>8, BanksKept DEF RecentInv

\* An edit: the new value joins both accounts.
LEMMA EditRecent ==
  ASSUME RecentInv, Observe, pc # "off", UNCHANGED <<bank, known, pc, save>>
  PROVE  (KnownRecent /\ TargetRecent /\ UseRecent)'
<1>1. ~Starts /\ ~(pc = "verify" /\ ok' /\ pc' = "finish")
  BY DEF Starts
<1>2. \A s \in Slots : held'[s] = held[s] \cup {live'[s]}
                       /\ during'[s] = during[s] \cup {live'[s]}
  BY <1>1, Grows
<1>3. pc = "copy" => \A i \in 1 .. next - 1 : Order[i] \in Slots
  BY OrderCoversSlots DEF RecentInv, StoreInv, CopyFaithful, TypeOK
<1>4. UseRecent'
  BY <1>2, <1>3 DEF RecentInv, UseRecent, Covers, Saving, save
<1> QED
  BY <1>2, <1>4, BanksKept DEF RecentInv

LEMMA WriteRecent ==
  ASSUME RecentInv, Observe, Erase \/ Program \/ PowerLoss
  PROVE  (KnownRecent /\ TargetRecent /\ UseRecent)'
<1>1. /\ pc # "off" /\ pc' # "copy" /\ UNCHANGED <<known, live>> /\ buf' = buf
      /\ ~(pc = "verify" /\ ok' /\ pc' = "finish") /\ ~Starts
      /\ pc' \in Saving => pc \in Saving \ {"copy"}
  BY DEF Erase, Program, PowerLoss, Fails, Starts, Saving, save
<1>2. UseRecent'
  BY <1>1, UseGrows
<1>3. \A s \in Slots : held[s] \subseteq held'[s]
  BY <1>1, Grows
<1>4. CASE bank' = bank
  BY <1>1, <1>2, <1>3, <1>4, BanksKept DEF RecentInv
<1>5. CASE pc = "erase" /\ bank' = [bank EXCEPT ![Target] = Blank]
  BY <1>1, <1>2, <1>3, <1>5, TargetWritten
<1>6. CASE pc = "program" /\ bank' = [bank EXCEPT ![Target] = NewRecord]
  BY <1>1, <1>2, <1>3, <1>6, TargetWritten
<1> QED
  BY <1>4, <1>5, <1>6 DEF Erase, Program, PowerLoss

\* A step between saves.
LEMMA IdleRecent ==
  ASSUME RecentInv, Observe, pc # "off", pc # "verify", pc' \notin Saving,
         UNCHANGED <<bank, known>>
  PROVE  (KnownRecent /\ TargetRecent /\ UseRecent)'
<1>1. UseRecent'
  BY UseGrows DEF Saving
<1>2. \A s \in Slots : held[s] \subseteq held'[s]
  BY Grows
<1> QED
  BY <1>1, <1>2, BanksKept DEF RecentInv

LEMMA RecentStep == RecentInv /\ [ObsNext]_obsVars => RecentInv'
<1> SUFFICES ASSUME RecentInv, [ObsNext]_obsVars PROVE RecentInv'
  OBVIOUS
<1>0. StoreInv'
  <2>1. [Next]_vars
    BY DEF ObsNext, ObsTask, ObsPanel, ObsControl, ObsPowerLoss, ObsBoot, Next,
           obsVars
  <2> QED
    BY <2>1, StoreStep DEF RecentInv
<1> SUFFICES (KnownRecent /\ TargetRecent /\ UseRecent)'
  BY <1>0 DEF RecentInv
<1>1. CASE NvmTick /\ Observe
  <2>1. CASE pc' = "copy"
    BY <1>1, <2>1, StartRecent DEF NvmTick, BeginSave, Starts, save
  <2>2. CASE pc' # "copy"
    BY <1>1, <2>2, IdleRecent DEF NvmTick, BeginSave, Saving
  <2> QED
    BY <2>1, <2>2
<1>2. CASE CopyOne /\ Observe
  BY <1>2, CopyRecent
<1>3. CASE (Erase \/ Program \/ PowerLoss) /\ Observe
  BY <1>3, WriteRecent
<1>4. CASE Verify /\ Observe
  BY <1>4, VerifyRecent
<1>5. CASE (FinishTick \/ FinishFlush \/ CalLutTick) /\ Observe
  BY <1>5, IdleRecent DEF FinishTick, FinishFlush, CalLutTick, Saving
<1>6. CASE ResetFrame /\ Observe
  <2>1. CASE pc' = "copy"
    BY <1>6, <2>1, StartRecent DEF ResetFrame, BeginSave, Starts, save
  <2>2. CASE pc' # "copy"
    BY <1>6, <2>2, IdleRecent DEF ResetFrame, BeginSave, Saving
  <2> QED
    BY <2>1, <2>2
<1>7. ASSUME Observe, NEW s \in Slots, NEW v \in Values, SetParam(s, v)
      PROVE  (KnownRecent /\ TargetRecent /\ UseRecent)'
  BY <1>7, EditRecent DEF SetParam
<1>8. ASSUME Observe, NEW v \in [ControlSlots -> Values], ControlEdit(v)
      PROVE  (KnownRecent /\ TargetRecent /\ UseRecent)'
  BY <1>8, EditRecent DEF ControlEdit
<1>9. CASE Boot /\ Observe
  BY <1>9, BootRecent
<1>10. CASE UNCHANGED obsVars
  BY <1>10
  DEF obsVars, vars, known, save, RecentInv, KnownRecent, TargetRecent,
      UseRecent, Covers, KnownBank, Target, BootBank, BootsB, Valid
<1> QED
  BY <1>1, <1>2, <1>3, <1>4, <1>5, <1>6, <1>7, <1>8, <1>9, <1>10
  DEF ObsNext, ObsTask, ObsPanel, ObsControl, ObsPowerLoss, ObsBoot, Task,
      Panel, Control

LEMMA RecentInit == ObsInit => RecentInv
<1> SUFFICES ASSUME ObsInit PROVE RecentInv
  OBVIOUS
<1>1. StoreInv /\ Init
  BY InitStore DEF ObsInit
<1>2. /\ KnownBank \in Banks /\ Target \in Banks
      /\ bank[KnownBank] = Blank /\ bank[Target] = Blank
      /\ live = Defaults /\ pc = "frames"
  BY <1>1 DEF Init, KnownBank, Target, Banks
<1>3. Covers(held, live)
  BY DEF ObsInit, OnlyLive, Covers
<1> QED
  BY <1>1, <1>2, <1>3
  DEF RecentInv, KnownRecent, TargetRecent, UseRecent, Saving

\* A boot at any moment, in the middle of an erase or of programming too,
\* brings back for every parameter a value it had since the last verified save
\* began: never the other bank's older record, across the wrap of the serial
\* number.
THEOREM BootsAreRecent == ObsSpec => []BootIsRecent
  BY RecentInit, RecentStep, RecentBoots, PTL DEF ObsSpec
=============================================================================
