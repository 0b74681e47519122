------------------------- MODULE FlashStoresProofs -------------------------
(***************************************************************************)
(* The types of the two stores, the charger's pause around every flash     *)
(* write, and what a boot may find, for any tables, histories, serial      *)
(* range and polling bounds.                                               *)
(***************************************************************************)
EXTENDS MCFlashStores, TLAPS

CalStates ==
  [active : Tables \cup {NoTable}, seq : Seqs, newest : Sides,
   open : BOOLEAN, stage : [Points -> Tables \cup {NoTable}]]
CommStates ==
  [pc : {"idle", "quiet", "erase", "program", "adopt"}, who : {"cal", "nvm"},
   polls : 0 .. Polls, table : Tables \cup {NoTable}]
HistoryStates == [active : Histories, dirty : BOOLEAN, saving : BOOLEAN]
Pages(Data) == {Bad} \cup [seq : Seqs, data : Data]
-----------------------------------------------------------------------------
(* Types.                                                                  *)

LEMMA SeqsHold ==
  /\ 0 \in Seqs /\ 1 \in Seqs
  /\ \A n \in Seqs : Next16(n) \in Seqs
<1>1. 0 \in Seqs /\ 1 \in Seqs
  BY FlashStoresAssumption DEF Seqs
<1>2. ASSUME NEW n \in Seqs PROVE Next16(n) \in Seqs
  BY FlashStoresAssumption, SMT DEF Seqs, Next16
<1>. QED
  BY <1>1, <1>2

LEMMA SidesHold ==
  /\ \A pages : CalNewest(pages) \in Sides /\ DiagNewest(pages) \in Sides
  /\ \A side \in Sides : Other(side) \in Sides
  /\ Target \in Sides /\ DiagTarget \in Sides
  BY DEF CalNewest, DiagNewest, Sides, Other, Target, DiagTarget

\* The newest page of a store with a sound page is sound.
LEMMA NewestIsSound ==
  ASSUME NEW pages, Valid(pages) # {}
  PROVE  pages[DiagNewest(pages)] # Bad
<1>1. DiagNewest(pages) \in Valid(pages)
  BY DEF Valid, DiagNewest, Sides
<1>. QED
  BY <1>1 DEF Valid

LEMMA HistoryTyped ==
  ASSUME NEW pages \in PagesOf(Histories)
  PROVE  BootHistory(pages) \in Histories
<1>1. CASE Valid(pages) = {}
  BY <1>1, FlashStoresAssumption DEF BootHistory
<1>2. CASE Valid(pages) # {}
  <2>1. pages[DiagNewest(pages)] \in [seq : Seqs, data : Histories]
    BY <1>2, NewestIsSound, SidesHold DEF PagesOf
  <2>. QED
    BY <1>2, <2>1 DEF BootHistory
<1>. QED
  BY <1>1, <1>2

LEMMA PageFields ==
  ASSUME NEW pages \in PagesOf(Tables), NEW side \in Sides
  PROVE  /\ pages[side].seq \in Seqs
         /\ pages[side].data \in Tables \cup {NoTable}
<1>1. pages[side] \in {Bad} \cup [seq : Seqs, data : Tables]
  BY DEF PagesOf
<1>2. CASE pages[side] = Bad
  BY <1>2, SeqsHold DEF Bad
<1>3. CASE pages[side] \in [seq : Seqs, data : Tables]
  BY <1>3
<1>. QED
  BY <1>1, <1>2, <1>3

LEMMA FreshTyped == Fresh \in CalStates
  BY SeqsHold DEF Fresh, CalStates, Sides, NoPoints

LEMMA LoadedTyped ==
  ASSUME NEW pages \in PagesOf(Tables) PROVE Loaded(pages) \in CalStates
<1>. DEFINE side == CalNewest(pages)
<1>1. side \in Sides
  BY SidesHold
<1>2. pages[side].seq \in Seqs /\ pages[side].data \in Tables \cup {NoTable}
  BY <1>1, PageFields
<1>. HIDE DEF side
<1>3. [Fresh EXCEPT !.active = pages[side].data, !.seq = pages[side].seq,
                    !.newest = side] \in CalStates
  BY <1>1, <1>2, FreshTyped DEF CalStates
<1>. QED
  BY <1>3, FreshTyped DEF Loaded, side

LEMMA ZeroTyped == 0 \in 0 .. 1 /\ 0 \in 0 .. Period /\ 0 \in 0 .. Polls
  BY FlashStoresAssumption

LEMMA IdleTyped == Idle \in CommStates
  BY ZeroTyped DEF Idle, CommStates

LEMMA BootsTyped ==
  ASSUME calPages' \in PagesOf(Tables), diagPages' \in PagesOf(Histories),
         Boots
  PROVE  TypeOK'
<1>1. cal' \in CalStates
  BY LoadedTyped DEF Boots
<1>2. history' \in HistoryStates
  BY HistoryTyped DEF Boots, HistoryStates
<1>3. comm' \in CommStates
  BY IdleTyped DEF Boots
<1>4. depth' \in 0 .. 1 /\ late' \in 0 .. Period
  BY FlashStoresAssumption, ZeroTyped DEF Boots
<1>5. gates' \in BOOLEAN
  BY DEF Boots
<1>. QED
  BY <1>1, <1>2, <1>3, <1>4, <1>5
  DEF TypeOK, CalStates, CommStates, HistoryStates

LEMMA StoredTyped ==
  ASSUME TypeOK, NEW page \in Pages(Tables)
  PROVE  Stored(page) \in PagesOf(Tables)
  BY SidesHold DEF TypeOK, PagesOf, Stored, Pages

LEMMA DiagPagesTyped ==
  ASSUME TypeOK, NEW ok \in BOOLEAN, NEW page \in DiagPages(ok)
  PROVE  [diagPages EXCEPT ![DiagTarget] = page] \in PagesOf(Histories)
<1>1. DiagRecord \in [seq : Seqs, data : Histories]
  <2>1. history.active \in Histories
    BY DEF TypeOK
  <2>2. CASE Valid(diagPages) = {}
    BY <2>1, <2>2, SeqsHold DEF DiagRecord
  <2>3. CASE Valid(diagPages) # {}
    <3>1. diagPages[DiagNewest(diagPages)] \in [seq : Seqs, data : Histories]
      BY <2>3, NewestIsSound, SidesHold DEF PagesOf, TypeOK
    <3>2. Next16(diagPages[DiagNewest(diagPages)].seq) \in Seqs
      BY <3>1, SeqsHold
    <3>. QED
      BY <2>1, <2>3, <3>2 DEF DiagRecord
  <2>. QED
    BY <2>2, <2>3
<1>2. diagPages[DiagTarget] \in Pages(Histories)
  BY SidesHold DEF TypeOK, PagesOf, Pages
<1>3. page \in Pages(Histories)
  BY <1>1, <1>2 DEF DiagPages, Pages
<1>. QED
  BY <1>3, SidesHold DEF TypeOK, PagesOf, Pages

(* The inductive invariant.                                                *)

\* A commit in progress carries a table.
TableHeld ==
  comm.who = "cal" /\ comm.pc # "idle" => comm.table \in Tables

\* One suspension, held by the comm task's writer from its first poll to the
\* end of its programming, or by SaveNow when no such writer is at work.
Paused == comm.pc \in {"quiet", "erase", "program"}
DepthHeld ==
  /\ depth = IF Paused \/ history.saving THEN 1 ELSE 0
  /\ ~(Paused /\ history.saving)

\* A gate that pulses was set before the suspension: since then no control
\* pass came, and each poll has counted towards its period.
GatesHeld ==
  /\ QuietFlash
  /\ comm.pc = "quiet" /\ gates => comm.polls <= late

IInv == TypeOK /\ TableHeld /\ DepthHeld /\ GatesHeld

LEMMA IdleHolds ==
  ASSUME TypeOK', comm' = Idle, depth' = 0, ~history'.saving PROVE IInv'
  BY DEF IInv, TableHeld, DepthHeld, Paused, GatesHeld, QuietFlash, Writing, Idle

LEMMA BootsHold ==
  ASSUME calPages' \in PagesOf(Tables), diagPages' \in PagesOf(Histories),
         Boots
  PROVE  IInv'
  BY BootsTyped, IdleHolds DEF Boots

\* A step that leaves the writer and the gates alone.
LEMMA SameWriterHolds ==
  ASSUME IInv, TypeOK', UNCHANGED <<comm, depth, gates, late, history.saving>>
  PROVE  IInv'
  BY DEF IInv, TableHeld, DepthHeld, Paused, GatesHeld, QuietFlash, Writing

LEMMA SuspendsHolds ==
  ASSUME IInv, NEW writer \in {"cal", "nvm"}, NEW table \in Tables \cup {NoTable},
         Suspends(writer, table), writer = "cal" => table \in Tables,
         ~history.saving
  PROVE  IInv'
<1>1. comm' = [pc |-> "quiet", who |-> writer, polls |-> 0, table |-> table]
  BY DEF Suspends
<1>2. depth' = 1
  BY DEF Suspends, IInv, DepthHeld, Paused
<1>3. TypeOK'
  BY <1>1, <1>2, FlashStoresAssumption DEF Suspends, IInv, TypeOK
<1>4. late \in Nat /\ late' = late
  BY FlashStoresAssumption DEF Suspends, IInv, TypeOK
<1>. QED
  BY <1>1, <1>2, <1>3, <1>4
  DEF Suspends, IInv, TableHeld, DepthHeld, Paused, GatesHeld, QuietFlash, Writing

LEMMA CommSavesHold ==
  ASSUME IInv, CommSaves, ~history.saving PROVE IInv'
<1>. USE DEF IInv, Paused
<1>h. ~history'.saving
  BY DEF CommSaves, Quiet, Poll, EraseDone, EraseFails, Program, Adopt
<1>a. comm \in CommStates
  BY DEF CommStates, TypeOK
<1>0. Idle \in CommStates /\ comm \in CommStates
  BY <1>a, IdleTyped
<1>1. CASE Quiet
  <2>0. comm' \in CommStates
    BY <1>1, <1>a, ZeroTyped DEF Quiet, CommStates
  <2>1. TypeOK'
    BY <1>1, <2>0 DEF Quiet, TypeOK, CommStates
  <2>2. ~gates
    BY <1>1, FlashStoresAssumption DEF Quiet, TypeOK, GatesHeld
  <2>. QED
    BY <1>h, <1>0, <1>1, <2>1, <2>2
    DEF Quiet, TableHeld, DepthHeld, GatesHeld, QuietFlash, Writing, CommStates
<1>2. CASE Poll
  <2>1. comm.polls + 1 \in 0 .. Polls /\ late + 1 \in 0 .. Period
    BY <1>2, FlashStoresAssumption DEF Poll, TypeOK
  <2>2. TypeOK'
    BY <1>2, <2>1 DEF Poll, TypeOK
  <2>3. comm.polls + 1 <= late + 1
    BY <1>2, FlashStoresAssumption DEF Poll, TypeOK, GatesHeld
  <2>4. comm' = [comm EXCEPT !.polls = comm.polls + 1] /\ comm.pc = "quiet"
        /\ late' = late + 1 /\ UNCHANGED <<depth, gates>>
    BY <1>2 DEF Poll
  <2>. QED
    BY <1>h, <1>0, <2>2, <2>3, <2>4
    DEF TableHeld, DepthHeld, GatesHeld, QuietFlash, Writing, CommStates
<1>3. CASE EraseDone
  <2>1. calPages' \in PagesOf(Tables)
    BY <1>3, StoredTyped DEF EraseDone, Pages
  <2>2. TypeOK'
    BY <1>3, <2>1 DEF EraseDone, TypeOK
  <2>. QED
    BY <1>h, <1>0, <1>3, <2>2
    DEF EraseDone, TableHeld, DepthHeld, GatesHeld, QuietFlash, Writing, CommStates
<1>4. CASE EraseFails
  <2>1. calPages' \in PagesOf(Tables)
    BY <1>4, StoredTyped DEF EraseFails, Pages, TypeOK
  <2>2. depth' = 0
    BY <1>4 DEF EraseFails, Resumes, DepthHeld
  <2>3. TypeOK'
    BY <1>0, <1>4, <2>1, <2>2 DEF EraseFails, TypeOK, CommStates
  <2>. QED
    BY <1>h, <1>4, <2>2, <2>3, IdleHolds DEF EraseFails
<1>5. ASSUME NEW ok \in BOOLEAN, Program(ok) PROVE IInv'
  <2>1. calPages' \in PagesOf(Tables)
    <3>1. CASE comm.who = "nvm"
      BY <1>5, <3>1 DEF Program, Stored, TypeOK
    <3>2. CASE comm.who = "cal"
      <4>1. comm.table \in Tables
        BY <1>5, <3>2 DEF Program, TableHeld
      <4>2. Next16(cal.seq) \in Seqs
        BY SeqsHold DEF TypeOK
      <4>3. Record \in [seq : Seqs, data : Tables]
        BY <4>1, <4>2 DEF Record
      <4>. QED
        BY <1>5, <4>3, StoredTyped DEF Program, Pages
    <3>. QED
      BY <1>0, <3>1, <3>2 DEF CommStates
  <2>2. depth' = 0
    BY <1>5 DEF Program, Resumes, DepthHeld
  <2>3. CASE ok /\ comm.who = "cal"
    <3>1. comm' = [comm EXCEPT !.pc = "adopt"]
      BY <1>5, <2>3 DEF Program
    <3>2. TypeOK'
      BY <1>5, <2>1, <2>2, <3>1 DEF Program, TypeOK
    <3>3. comm.table \in Tables
      BY <1>5, <2>3 DEF Program, TableHeld
    <3>. QED
      BY <1>h, <1>0, <2>2, <3>1, <3>2, <3>3
      DEF TableHeld, DepthHeld, GatesHeld, QuietFlash, Writing, CommStates
  <2>4. CASE ~(ok /\ comm.who = "cal")
    <3>1. comm' = Idle
      BY <1>5, <2>4 DEF Program
    <3>2. TypeOK'
      BY <1>0, <1>5, <2>1, <2>2, <3>1 DEF Program, TypeOK, CommStates
    <3>. QED
      BY <1>h, <2>2, <3>1, <3>2, IdleHolds
  <2>. QED
    BY <2>3, <2>4
<1>6. CASE Adopt
  <2>1. calPages[Target].seq \in Seqs
        /\ calPages[Target].data \in Tables \cup {NoTable}
    BY SidesHold, PageFields DEF TypeOK
  <2>2. cal' \in CalStates
    BY <1>6, <2>1, SidesHold DEF Adopt, TypeOK, CalStates
  <2>3. depth' = 0 /\ comm' = Idle
    BY <1>6 DEF Adopt, DepthHeld
  <2>4. TypeOK'
    BY <1>0, <1>6, <2>2, <2>3 DEF Adopt, TypeOK, CalStates, CommStates
  <2>. QED
    BY <1>h, <2>3, <2>4, IdleHolds
<1>. QED
  BY <1>1, <1>2, <1>3, <1>4, <1>5, <1>6 DEF CommSaves

LEMMA DiagSuspendsHolds ==
  ASSUME IInv, DiagSuspends PROVE IInv'
<1>1. ~Paused /\ depth' = 1 /\ ~gates' /\ UNCHANGED <<comm, late>>
  BY DEF DiagSuspends, IInv, DepthHeld
<1>2. history' \in HistoryStates /\ history'.saving
  BY DEF DiagSuspends, IInv, TypeOK, HistoryStates
<1>3. gates' \in BOOLEAN
  BY DEF DiagSuspends
<1>4. TypeOK'
  BY <1>1, <1>2, <1>3 DEF DiagSuspends, IInv, TypeOK, HistoryStates
<1>. QED
  BY <1>1, <1>2, <1>4
  DEF IInv, TableHeld, DepthHeld, Paused, GatesHeld, QuietFlash, Writing

LEMMA DiagSaveHolds ==
  ASSUME IInv, NEW ok \in BOOLEAN, DiagSave(ok) PROVE IInv'
<1>1. diagPages' \in PagesOf(Histories)
  BY DiagPagesTyped DEF DiagSave, DiagWrites, IInv
<1>2. ~Paused /\ depth' = 0 /\ ~gates' /\ UNCHANGED <<comm, gates, late>>
  BY DEF DiagSave, DiagWrites, Resumes, IInv, DepthHeld, GatesHeld, QuietFlash
<1>3. history' \in HistoryStates /\ ~history'.saving
  BY DEF DiagSave, DiagWrites, IInv, TypeOK, HistoryStates
<1>4. TypeOK'
  BY <1>1, <1>2, <1>3 DEF DiagSave, DiagWrites, IInv, TypeOK, HistoryStates
<1>. QED
  BY <1>2, <1>3, <1>4
  DEF IInv, TableHeld, DepthHeld, Paused, GatesHeld, QuietFlash, Writing

LEMMA CutInDiagSaveHolds ==
  ASSUME IInv, CutInDiagSave PROVE IInv'
<1>1. PICK page \in DiagPages(TRUE) :
        diagPages' = [diagPages EXCEPT ![DiagTarget] = page]
  BY DEF CutInDiagSave, DiagPages
<1>2. diagPages' \in PagesOf(Histories)
  BY <1>1, DiagPagesTyped DEF IInv
<1>3. calPages' \in PagesOf(Tables)
  BY DEF CutInDiagSave, IInv, TypeOK
<1>. QED
  BY <1>2, <1>3, BootsHold DEF CutInDiagSave

LEMMA StepHolds ==
  ASSUME IInv, [Next]_vars PROVE IInv'
<1>a. history \in HistoryStates
  BY DEF IInv, TypeOK, HistoryStates
<1>1. ASSUME NEW ok \in BOOLEAN, StageBegin(ok) PROVE IInv'
  <2>1. TypeOK'
    BY <1>1 DEF StageBegin, IInv, TypeOK, NoPoints
  <2>. QED
    BY <1>1, <2>1, SameWriterHolds DEF StageBegin
<1>2. ASSUME NEW p \in Points, NEW t \in Tables, StagePoint(p, t) PROVE IInv'
  <2>1. TypeOK'
    BY <1>2 DEF StagePoint, IInv, TypeOK
  <2>. QED
    BY <1>2, <2>1, SameWriterHolds DEF StagePoint
<1>3. ASSUME NEW t \in Tables, Commit(t), ~history.saving PROVE IInv'
  BY <1>3, SuspendsHolds DEF Commit
<1>4. CASE NvmSave /\ ~history.saving
  BY <1>4, SuspendsHolds DEF NvmSave
<1>5. CASE CommSaves /\ ~history.saving
  BY <1>5, CommSavesHold
<1>6. ASSUME NEW pulsing \in BOOLEAN, ControlPass(pulsing), ~history.saving
      PROVE  IInv'
  <2>0. late' \in 0 .. Period
    BY <1>6, ZeroTyped DEF ControlPass
  <2>a. gates' \in BOOLEAN
    BY <1>6 DEF ControlPass
  <2>1. TypeOK'
    BY <1>6, <2>0, <2>a DEF ControlPass, IInv, TypeOK
  <2>2. Paused => ~gates'
    <3>1. Paused => ~(depth = 0)
      BY DEF IInv, DepthHeld
    <3>2. gates' <=> depth = 0 /\ pulsing
      BY <1>6 DEF ControlPass
    <3>. QED
      BY <3>1, <3>2
  <2>. QED
    BY <1>6, <2>1, <2>2
    DEF ControlPass, IInv, TableHeld, DepthHeld, Paused, GatesHeld, QuietFlash,
        Writing
<1>7. ASSUME NEW h \in Histories, Records(h) PROVE IInv'
  <2>1. history' \in HistoryStates /\ history'.saving = history.saving
    BY <1>7, <1>a DEF Records, HistoryStates
  <2>2. TypeOK'
    BY <1>7, <2>1 DEF Records, IInv, TypeOK, HistoryStates
  <2>. QED
    BY <1>7, <2>1, <2>2, SameWriterHolds DEF Records
<1>8. ASSUME NEW ok \in BOOLEAN, DiagSave(ok) PROVE IInv'
  BY <1>8, DiagSaveHolds
<1>9. CASE PowerCut
  BY <1>9, BootsHold DEF PowerCut, IInv, TypeOK
<1>10. CASE CutInDiagSave
  BY <1>10, CutInDiagSaveHolds
<1>11. CASE UNCHANGED vars
  BY <1>11 DEF vars, IInv, TypeOK, TableHeld, DepthHeld, Paused, GatesHeld,
               QuietFlash, Writing
<1>12. CASE DiagSuspends
  BY <1>12, DiagSuspendsHolds
<1>. QED
  BY <1>1, <1>2, <1>3, <1>4, <1>5, <1>6, <1>7, <1>8, <1>9, <1>10, <1>11, <1>12
  DEF Next, Comm, Control

LEMMA InitHolds ==
  ASSUME Init PROVE IInv
<1>1. calPages \in PagesOf(Tables) /\ diagPages \in PagesOf(Histories)
  BY DEF Init, PagesOf
<1>2. cal \in CalStates /\ comm \in CommStates
  BY FreshTyped, IdleTyped DEF Init
<1>3. history \in HistoryStates
  BY FlashStoresAssumption DEF Init, HistoryStates
<1>a. depth \in 0 .. 1 /\ late \in 0 .. Period
  BY ZeroTyped DEF Init
<1>b. gates \in BOOLEAN
  BY DEF Init
<1>4. TypeOK
  BY <1>1, <1>2, <1>3, <1>a, <1>b
  DEF TypeOK, CalStates, CommStates, HistoryStates
<1>. QED
  BY <1>4
  DEF Init, IInv, TableHeld, DepthHeld, Paused, GatesHeld, QuietFlash, Writing,
      Idle

LEMMA Inductive == Spec => []IInv
  BY InitHolds, StepHolds, PTL DEF Spec
-----------------------------------------------------------------------------
(* Every variable stays in its type, through every cut and failed write:   *)
(* a page holds a whole record or does not validate, a suspension is never *)
(* counted twice or below zero.                                            *)
THEOREM FlashTypeCorrect == Spec => []TypeOK
<1>1. IInv => TypeOK
  BY DEF IInv
<1>. QED
  BY <1>1, Inductive, PTL

(* CalLut_SuspendCharger, EspLink_NvmSuspendCharger: no charger gate       *)
(* pulses during an erase or a program, however many polls the wait has,   *)
(* as long as a control pass comes within fewer; nor during SaveNow's.     *)
THEOREM FlashIsQuiet == Spec => []QuietFlash
<1>1. IInv => QuietFlash
  BY DEF IInv, GatesHeld
<1>. QED
  BY <1>1, Inductive, PTL

(* Charger_SetSuspended: the depth is one exactly while a writer of the    *)
(* comm task or SaveNow is at work; no failing path keeps it.              *)
THEOREM SuspensionsReturn == Spec => []SuspensionReturned
<1>1. IInv => SuspensionReturned
  BY DEF IInv, DepthHeld, Paused, SuspensionReturned, Writing
<1>. QED
  BY <1>1, Inductive, PTL

(* Diag_SaveNow: the history is never saved while another writer erases or *)
(* programs, wherever the control pass falls.                              *)
THEOREM WritersAlternate == Spec => []WritersTakeTurns
<1>1. IInv => WritersTakeTurns
  BY DEF IInv, DepthHeld, Paused, Writing, WritersTakeTurns
<1>. QED
  BY <1>1, Inductive, PTL
-----------------------------------------------------------------------------
(* What a boot finds: the observers of MCFlashStores.                      *)

\* What RAM holds is the page it calls the newest; Bad is Fresh's.
CalDescribes ==
  calPages[cal.newest] = [seq |-> cal.seq, data |-> cal.active]

\* The page a commit may touch: it loses against the one in use, or it holds
\* a table whose commit began after the last answer.
TargetExpendable ==
  \/ calPages[Target] = Bad
  \/ calPages[Target].data \in tables
  \/ CalNewest(calPages) = cal.newest /\ calPages[cal.newest] # Bad

\* Before it is read back, the page holds the record or nothing.
AdoptHeld == comm.pc = "adopt" => calPages[Target] \in {Bad, Record}

TablesInv ==
  CalDescribes /\ cal.active \in tables /\ TargetExpendable /\ AdoptHeld

MCIInv == IInv /\ TablesInv /\ HistorySurvives

LEMMA SerialGap ==
  ASSUME NEW s \in Seqs
  PROVE  /\ (Next16(s) - s) % SeqMod = 1
         /\ (s - Next16(s)) % SeqMod = SeqMod - 1
         /\ 1 \in 1 .. SeqMod \div 2 - 1
         /\ SeqMod - 1 > SeqMod \div 2
<1>0. SeqMod \in Nat /\ SeqMod >= 4 /\ s \in 0 .. SeqMod - 1
  BY FlashStoresAssumption DEF Seqs
<1>1. CASE s = SeqMod - 1
  BY <1>0, <1>1 DEF Next16
<1>2. CASE s # SeqMod - 1
  BY <1>0, <1>2 DEF Next16
<1>. QED
  BY <1>1, <1>2

\* The successor of a page's serial number wins on the other page.
LEMMA NextWins ==
  ASSUME NEW Data, NEW pages \in PagesOf(Data), NEW side \in Sides,
         NEW record, record.seq = Next16(pages[side].seq),
         record # Bad, pages[Other(side)] = record
  PROVE  CalNewest(pages) = Other(side) /\ DiagNewest(pages) = Other(side)
<1>0. pages[side].seq \in Seqs
  <2>1. pages[side] = Bad \/ pages[side] \in [seq : Seqs, data : Data]
    BY DEF PagesOf
  <2>. QED
    BY <2>1, SeqsHold DEF Bad
<1>1. CASE side = "A"
  <2>1. pages["B"] = record
    BY <1>1 DEF Other
  <2>2. Gap(pages) = SeqMod - 1
    BY <1>0, <1>1, <2>1, SerialGap DEF Gap
  <2>3. "B" \in Valid(pages) /\ Valid(pages) # {"A"}
    BY <2>1 DEF Valid, Sides
  <2>4. ~(Gap(pages) < SeqMod \div 2) /\ Gap(pages) \notin 1 .. SeqMod \div 2 - 1
    BY <1>0, <2>2, SerialGap, FlashStoresAssumption
  <2>. QED
    BY <1>1, <2>3, <2>4 DEF CalNewest, DiagNewest, Other
<1>2. CASE side = "B"
  <2>1. pages["A"] = record
    BY <1>2 DEF Other
  <2>2. Gap(pages) = 1
    BY <1>0, <1>2, <2>1, SerialGap DEF Gap
  <2>3. "A" \in Valid(pages) /\ (Valid(pages) = {"A"} \/ Valid(pages) = Sides)
    BY <2>1 DEF Valid, Sides
  <2>4. Gap(pages) < SeqMod \div 2 /\ Gap(pages) \in 1 .. SeqMod \div 2 - 1
    BY <1>0, <2>2, SerialGap, FlashStoresAssumption
  <2>. QED
    BY <1>2, <2>3, <2>4 DEF CalNewest, DiagNewest, Other
<1>. QED
  BY <1>1, <1>2 DEF Sides

LEMMA StepIsNext ==
  ASSUME [MCNext]_mcvars PROVE [Next]_vars
  BY DEF MCNext, mcvars
-----------------------------------------------------------------------------
(* The history.                                                            *)

LEMMA DiagRecordSound ==
  ASSUME TypeOK PROVE DiagRecord # Bad
<1>1. DiagRecord.data \in Histories
  BY DEF DiagRecord, TypeOK
<1>. QED
  BY <1>1, FlashStoresAssumption DEF Bad

\* A store whose older page was rewritten boots to the record, one whose
\* older page was spoilt to what it would have booted to.
LEMMA RecordBoots ==
  ASSUME TypeOK, diagPages' \in PagesOf(Histories),
         diagPages' = [diagPages EXCEPT ![DiagTarget] = DiagRecord]
  PROVE  BootHistory(diagPages') = history.active
<1>1. DiagTarget \in Sides /\ diagPages'[DiagTarget] = DiagRecord
  BY SidesHold DEF TypeOK, PagesOf
<1>2. DiagRecord # Bad /\ DiagRecord.data = history.active
  BY DiagRecordSound DEF DiagRecord
<1>3. DiagNewest(diagPages') = DiagTarget
  <2>1. CASE Valid(diagPages) = {}
    <3>1. DiagTarget = "A" /\ diagPages["B"] = Bad
      BY <2>1 DEF DiagTarget, Valid, Sides
    <3>2. Valid(diagPages') = {"A"}
      BY <1>1, <1>2, <3>1 DEF Valid, Sides, TypeOK, PagesOf
    <3>. QED
      BY <3>1, <3>2 DEF DiagNewest, Sides
  <2>2. CASE Valid(diagPages) # {}
    <3>. DEFINE newest == DiagNewest(diagPages)
    <3>1. newest \in Sides /\ DiagTarget = Other(newest)
      BY <2>2, SidesHold DEF DiagTarget
    <3>2. diagPages'[newest] = diagPages[newest]
      BY <3>1 DEF Other, Sides, TypeOK, PagesOf
    <3>3. DiagRecord.seq = Next16(diagPages[newest].seq)
      BY <2>2 DEF DiagRecord
    <3>. HIDE DEF newest
    <3>. QED
      BY <1>1, <1>2, <3>1, <3>2, <3>3, NextWins
  <2>. QED
    BY <2>1, <2>2
<1>4. Valid(diagPages') # {}
  BY <1>1, <1>2 DEF Valid
<1>. QED
  BY <1>1, <1>2, <1>3, <1>4 DEF BootHistory

LEMMA SpoiltBoots ==
  ASSUME TypeOK, diagPages' = [diagPages EXCEPT ![DiagTarget] = Bad]
  PROVE  BootHistory(diagPages') = BootHistory(diagPages)
<1>1. CASE Valid(diagPages) = {}
  <2>1. Valid(diagPages') = {}
    BY <1>1 DEF Valid, Sides, TypeOK, PagesOf
  <2>. QED
    BY <1>1, <2>1 DEF BootHistory
<1>2. CASE Valid(diagPages) # {}
  <2>. DEFINE newest == DiagNewest(diagPages)
  <2>1. newest \in Sides /\ DiagTarget = Other(newest) /\ DiagTarget \in Sides
    BY <1>2, SidesHold DEF DiagTarget
  <2>2. diagPages[newest] # Bad
    BY <1>2, NewestIsSound
  <2>. HIDE DEF newest
  <2>3. diagPages'[newest] = diagPages[newest] /\ diagPages'[Other(newest)] = Bad
    BY <2>1 DEF Other, Sides, TypeOK, PagesOf
  <2>4. Valid(diagPages') = {newest}
    BY <2>1, <2>2, <2>3 DEF Valid, Other, Sides
  <2>5. DiagNewest(diagPages') = newest
    BY <2>1, <2>4 DEF DiagNewest, Sides
  <2>6. BootHistory(diagPages) = diagPages[newest].data
    BY <1>2 DEF BootHistory, newest
  <2>7. BootHistory(diagPages') = diagPages'[newest].data
    BY <2>4, <2>5 DEF BootHistory
  <2>. QED
    BY <2>3, <2>6, <2>7
<1>. QED
  BY <1>1, <1>2

LEMMA SavedHistory ==
  ASSUME IInv, HistorySurvives, Saved, ~Cut, ObserveHistories
  PROVE  HistorySurvives'
<1>1. PICK ok \in BOOLEAN : DiagSave(ok)
  BY DEF Saved
<1>2. PICK page \in DiagPages(ok) :
        diagPages' = [diagPages EXCEPT ![DiagTarget] = page]
  BY <1>1 DEF DiagSave, DiagWrites
<1>3. diagPages' \in PagesOf(Histories)
  BY <1>2, DiagPagesTyped DEF IInv
<1>4. diagPages'[DiagTarget] = page
  BY <1>2, SidesHold DEF IInv, TypeOK, PagesOf
<1>5. \/ histories' = {history.active} /\ page = DiagRecord
      \/ histories' = histories \cup {history.active}
  BY <1>4 DEF ObserveHistories
<1>6. CASE page = DiagRecord
  <2>1. BootHistory(diagPages') = history.active
    BY <1>2, <1>3, <1>6, RecordBoots DEF IInv
  <2>. QED
    BY <1>5, <2>1 DEF HistorySurvives
<1>7. CASE page # DiagRecord
  <2>1. BootHistory(diagPages') = BootHistory(diagPages)
    <3>1. CASE page = Bad
      BY <1>2, <3>1, SpoiltBoots DEF IInv
    <3>2. CASE page = diagPages[DiagTarget]
      <4>1. diagPages' = diagPages
        BY <1>2, <3>2 DEF IInv, TypeOK, PagesOf
      <4>. QED
        BY <4>1
    <3>. QED
      BY <1>7, <3>1, <3>2 DEF DiagPages
  <2>. QED
    BY <1>5, <1>7, <2>1 DEF HistorySurvives
<1>. QED
  BY <1>6, <1>7

LEMMA HistoryKept ==
  ASSUME IInv, HistorySurvives, [MCNext]_mcvars PROVE HistorySurvives'
<1>1. CASE MCNext /\ Cut
  BY <1>1 DEF MCNext, ObserveHistories, Cut, PowerCut, CutInDiagSave, Boots,
              HistorySurvives
<1>2. CASE MCNext /\ ~Cut /\ Saved
  BY <1>2, SavedHistory DEF MCNext
<1>3. CASE MCNext /\ ~Cut /\ ~Saved
  <2>1. histories' = histories
    BY <1>3 DEF MCNext, ObserveHistories
  <2>2. diagPages' = diagPages
    BY <1>3
    DEF MCNext, Next, Comm, Control, CommSaves, Cut, Saved, StageBegin, StagePoint, Commit,
        NvmSave, Suspends, Quiet, Poll, EraseDone, EraseFails, Program, Adopt,
        ControlPass, Records, DiagSuspends
  <2>. QED
    BY <2>1, <2>2 DEF HistorySurvives
<1>4. CASE UNCHANGED mcvars
  BY <1>4 DEF mcvars, vars, HistorySurvives
<1>. QED
  BY <1>1, <1>2, <1>3, <1>4
-----------------------------------------------------------------------------
(* The tables.                                                             *)

LEMMA TargetIsOther ==
  ASSUME TypeOK
  PROVE  /\ Target = Other(cal.newest) /\ Target # cal.newest
         /\ Target \in Sides /\ cal.newest \in Sides
  BY DEF TypeOK, Target, Other, Sides

\* What the invariant is for.
LEMMA TablesBoot ==
  ASSUME TypeOK, TablesInv PROVE BootIsAckedOrNewer
<1>. DEFINE side == CalNewest(calPages)
<1>0. cal.newest \in Sides /\ Target \in Sides /\ Target # cal.newest
  BY TargetIsOther
<1>1. side \in Sides
  BY SidesHold
<1>2. CASE Valid(calPages) = {}
  <2>1. calPages[cal.newest] = Bad
    BY <1>0, <1>2 DEF Valid
  <2>2. cal.active = NoTable
    BY <2>1 DEF TablesInv, CalDescribes, Bad
  <2>. QED
    BY <1>2, <2>2 DEF TablesInv, BootIsAckedOrNewer, Loaded, Fresh
<1>3. CASE Valid(calPages) # {}
  <2>1. Loaded(calPages).active = calPages[side].data
    BY <1>3 DEF Loaded, Fresh
  <2>2. side \in Valid(calPages)
    BY <1>3 DEF CalNewest, Valid, Sides
  <2>3. calPages[side] # Bad
    BY <2>2 DEF Valid
  <2>. HIDE DEF side
  <2>4. CASE side = cal.newest
    BY <2>1, <2>4 DEF TablesInv, CalDescribes, BootIsAckedOrNewer
  <2>5. CASE side # cal.newest
    <3>1. side = Target
      BY <1>0, <1>1, <2>5 DEF Sides
    <3>2. calPages[Target].data \in tables
      BY <2>3, <2>5, <3>1 DEF TablesInv, TargetExpendable, side
    <3>. QED
      BY <2>1, <3>1, <3>2 DEF BootIsAckedOrNewer
  <2>. QED
    BY <2>4, <2>5
<1>. QED
  BY <1>2, <1>3

LEMMA PageIsItsFields ==
  ASSUME NEW pages \in PagesOf(Tables), NEW side \in Sides
  PROVE  pages[side] = [seq |-> pages[side].seq, data |-> pages[side].data]
<1>1. pages[side] \in {Bad} \cup [seq : Seqs, data : Tables]
  BY DEF PagesOf
<1>2. CASE pages[side] = Bad
  BY <1>2 DEF Bad
<1>3. CASE pages[side] \in [seq : Seqs, data : Tables]
  BY <1>3
<1>. QED
  BY <1>1, <1>2, <1>3

LEMMA CutTables ==
  ASSUME TypeOK, Cut, ObserveTables PROVE TablesInv'
<1>1. calPages' = calPages /\ cal' = Loaded(calPages) /\ comm' = Idle
      /\ tables' = {cal'.active}
  BY DEF Cut, PowerCut, CutInDiagSave, Boots, ObserveTables
<1>2. AdoptHeld'
  BY <1>1 DEF AdoptHeld, Idle
<1>3. CASE Valid(calPages) = {}
  <2>1. cal' = Fresh
    BY <1>1, <1>3 DEF Loaded
  <2>2. calPages["A"] = Bad /\ calPages["B"] = Bad
    BY <1>3 DEF Valid, Sides
  <2>3. CalDescribes'
    BY <1>1, <2>1, <2>2 DEF CalDescribes, Fresh, Bad
  <2>4. TargetExpendable'
    BY <1>1, <2>1, <2>2 DEF TargetExpendable, Target, Fresh
  <2>. QED
    BY <1>1, <1>2, <2>3, <2>4 DEF TablesInv
<1>4. CASE Valid(calPages) # {}
  <2>. DEFINE side == CalNewest(calPages)
  <2>1. side \in Valid(calPages)
    BY <1>4 DEF CalNewest, Valid, Sides
  <2>2. side \in Sides /\ calPages[side] # Bad
    BY <2>1 DEF Valid
  <2>3. /\ cal'.active = calPages[side].data /\ cal'.seq = calPages[side].seq
        /\ cal'.newest = side
    BY <1>1, <1>4 DEF Loaded, Fresh
  <2>4. CalDescribes'
    <3>. HIDE DEF side
    <3>. QED
      BY <1>1, <2>2, <2>3, PageIsItsFields DEF CalDescribes, TypeOK
  <2>5. TargetExpendable'
    BY <1>1, <2>2, <2>3 DEF TargetExpendable
  <2>. QED
    BY <1>1, <1>2, <2>4, <2>5 DEF TablesInv
<1>. QED
  BY <1>3, <1>4

LEMMA AnsweredTables ==
  ASSUME IInv, TypeOK', TablesInv, Answered, ~Cut, ObserveTables
  PROVE  TablesInv'
<1>. DEFINE target == Target
<1>0. target = Other(cal.newest) /\ target # cal.newest
      /\ target \in Sides /\ cal.newest \in Sides
  BY TargetIsOther DEF IInv
<1>1. /\ comm.pc = "adopt" /\ calPages[target] # Bad /\ calPages' = calPages
      /\ tables' = {comm.table} /\ comm' = Idle
  BY DEF Answered, Adopt, ObserveTables
<1>2. calPages[target] = Record
  BY <1>1 DEF TablesInv, AdoptHeld
<1>3. /\ cal'.active = comm.table /\ cal'.seq = Next16(cal.seq)
      /\ cal'.newest = target
  BY <1>1, <1>2 DEF Answered, Adopt, IInv, TypeOK, Record
<1>4. CalDescribes'
  BY <1>1, <1>2, <1>3 DEF CalDescribes, Record
<1>5. TargetExpendable'
  <2>1. Record.seq = Next16(calPages[cal.newest].seq)
    BY DEF Record, TablesInv, CalDescribes
  <2>2. calPages \in PagesOf(Tables)
    BY DEF IInv, TypeOK
  <2>3. CalNewest(calPages) = target
    <3>. HIDE DEF target
    <3>. QED
      BY <1>0, <1>1, <1>2, <2>1, <2>2, NextWins
  <2>. QED
    BY <1>1, <1>3, <2>3 DEF TargetExpendable
<1>6. AdoptHeld'
  BY <1>1 DEF AdoptHeld, Idle
<1>. QED
  BY <1>1, <1>3, <1>4, <1>5, <1>6 DEF TablesInv

\* A step that leaves the pages and what RAM knows of them; the push's
\* staging is not part of it.
LEMMA SamePagesKeep ==
  ASSUME TablesInv, calPages' = calPages, tables \subseteq tables',
         UNCHANGED <<cal.active, cal.seq, cal.newest>>,
         comm' = comm \/ comm'.pc # "adopt"
  PROVE  TablesInv'
<1>1. Target' = Target
  BY DEF Target
<1>2. CalDescribes' /\ cal'.active \in tables'
  BY DEF TablesInv, CalDescribes
<1>3. TargetExpendable'
  BY <1>1 DEF TablesInv, TargetExpendable
<1>4. AdoptHeld'
  BY <1>1 DEF TablesInv, AdoptHeld, Record
<1>. QED
  BY <1>2, <1>3, <1>4 DEF TablesInv

\* A step of the writer: the target page becomes Bad or the record.
LEMMA WrittenKeeps ==
  ASSUME IInv, TablesInv, cal' = cal, NEW page \in {Bad, Record},
         calPages' = Stored(page), tables \subseteq tables',
         page # Bad /\ comm.who = "cal" => comm.table \in tables',
         comm'.pc = "adopt" => comm.who = "cal" /\ comm'.table = comm.table
  PROVE  TablesInv'
<1>0. Target' = Target /\ Target \in Sides /\ cal.newest \in Sides
      /\ Target # cal.newest /\ calPages \in PagesOf(Tables)
  BY TargetIsOther DEF Target, IInv, TypeOK
<1>1. CASE comm.who = "nvm"
  <2>1. calPages' = calPages
    BY <1>1 DEF Stored
  <2>. QED
    BY <1>1, <2>1, SamePagesKeep
<1>2. CASE comm.who = "cal"
  <2>1. calPages'[cal.newest] = calPages[cal.newest] /\ calPages'[Target] = page
    BY <1>0, <1>2 DEF Stored, PagesOf
  <2>2. CalDescribes' /\ cal'.active \in tables'
    BY <2>1 DEF TablesInv, CalDescribes
  <2>3. TargetExpendable'
    BY <1>0, <1>2, <2>1 DEF TargetExpendable, Record
  <2>4. AdoptHeld'
    BY <1>0, <2>1 DEF AdoptHeld, Record
  <2>. QED
    BY <2>2, <2>3, <2>4 DEF TablesInv
<1>. QED
  BY <1>1, <1>2 DEF IInv, TypeOK

LEMMA CommSavesTables ==
  ASSUME IInv, TablesInv, CommSaves, ~Cut, ~Answered, ObserveTables
  PROVE  TablesInv'
<1>0. tables \subseteq tables'
      /\ (comm.pc = "program" /\ comm.who = "cal" => comm.table \in tables')
  BY DEF ObserveTables
<1>a. comm \in CommStates /\ Idle.pc = "idle"
  BY DEF IInv, TypeOK, CommStates, Idle
<1>1. CASE Quiet \/ Poll
  <2>1. comm'.pc # "adopt"
    BY <1>1, <1>a DEF Quiet, Poll, CommStates
  <2>. QED
    BY <1>0, <1>1, <2>1, SamePagesKeep DEF Quiet, Poll
<1>2. CASE EraseDone
  <2>1. comm'.pc = "program"
    BY <1>2, <1>a DEF EraseDone, CommStates
  <2>. QED
    BY <1>0, <1>2, <2>1, WrittenKeeps DEF EraseDone
<1>3. CASE EraseFails
  <2>1. comm'.pc = "idle" /\ cal' = cal
    BY <1>3, <1>a DEF EraseFails
  <2>2. CASE calPages' = calPages
    BY <1>0, <2>1, <2>2, SamePagesKeep
  <2>3. CASE calPages' = Stored(Bad)
    BY <1>0, <2>1, <2>3, WrittenKeeps
  <2>. QED
    BY <1>3, <2>2, <2>3 DEF EraseFails
<1>4. ASSUME NEW ok \in BOOLEAN, Program(ok) PROVE TablesInv'
  <2>1. PICK page \in {Bad, Record} : calPages' = Stored(page)
    BY <1>4 DEF Program
  <2>2. comm'.pc = "adopt" => comm.who = "cal" /\ comm'.table = comm.table
    BY <1>4, <1>a DEF Program, CommStates
  <2>3. cal' = cal /\ comm.pc = "program"
    BY <1>4 DEF Program
  <2>. QED
    BY <1>0, <2>1, <2>2, <2>3, WrittenKeeps
<1>5. CASE Adopt
  <2>1. calPages' = calPages /\ cal' = cal /\ comm'.pc = "idle"
    BY <1>5, <1>a DEF Adopt, Answered
  <2>. QED
    BY <1>0, <2>1, SamePagesKeep
<1>. QED
  BY <1>1, <1>2, <1>3, <1>4, <1>5 DEF CommSaves

LEMMA TablesKept ==
  ASSUME IInv, TypeOK', TablesInv, [MCNext]_mcvars PROVE TablesInv'
<1>1. CASE MCNext /\ Cut
  BY <1>1, CutTables DEF MCNext, IInv
<1>2. CASE MCNext /\ ~Cut /\ Answered
  BY <1>2, AnsweredTables DEF MCNext
<1>3. CASE MCNext /\ ~Cut /\ ~Answered
  <2>0. ObserveTables /\ tables \subseteq tables'
    BY <1>3 DEF MCNext, ObserveTables
  <2>a. cal \in CalStates
    BY DEF IInv, TypeOK, CalStates
  <2>1. ASSUME NEW ok \in BOOLEAN, StageBegin(ok) PROVE TablesInv'
    <3>1. UNCHANGED <<cal.active, cal.seq, cal.newest>>
      BY <2>1, <2>a DEF StageBegin, CalStates
    <3>. QED
      BY <2>0, <2>1, <3>1, SamePagesKeep DEF StageBegin
  <2>2. ASSUME NEW p \in Points, NEW t \in Tables, StagePoint(p, t)
        PROVE  TablesInv'
    <3>1. UNCHANGED <<cal.active, cal.seq, cal.newest>>
      BY <2>2, <2>a DEF StagePoint, CalStates
    <3>. QED
      BY <2>0, <2>2, <3>1, SamePagesKeep DEF StagePoint
  <2>3. ASSUME NEW writer, NEW table, Suspends(writer, table)
        PROVE  TablesInv'
    BY <2>0, <2>3, SamePagesKeep DEF Suspends
  <2>4. CASE CommSaves
    BY <1>3, <2>0, <2>4, CommSavesTables
  <2>5. CASE UNCHANGED <<calPages, cal, comm>>
    BY <2>0, <2>5, SamePagesKeep
  <2>. QED
    BY <1>3, <2>1, <2>2, <2>3, <2>4, <2>5
    DEF MCNext, Next, Comm, Control, Cut, Commit, NvmSave, ControlPass,
        Records, DiagSuspends, DiagSave, DiagWrites
<1>4. CASE UNCHANGED mcvars
  BY <1>4, SamePagesKeep DEF mcvars, vars
<1>. QED
  BY <1>1, <1>2, <1>3, <1>4
-----------------------------------------------------------------------------
LEMMA MCInitHolds ==
  ASSUME MCInit PROVE MCIInv
<1>1. IInv
  BY InitHolds DEF MCInit
<1>2. calPages = [s \in Sides |-> Bad] /\ diagPages = [s \in Sides |-> Bad]
      /\ cal = Fresh /\ comm = Idle
  BY DEF MCInit, Init
<1>3. TablesInv
  <2>1. calPages["A"] = Bad /\ calPages["B"] = Bad
    BY <1>2 DEF Sides
  <2>. QED
    BY <1>2, <2>1
    DEF TablesInv, CalDescribes, TargetExpendable, AdoptHeld, Target, Fresh,
        Idle, Bad, MCInit
<1>4. HistorySurvives
  BY <1>2 DEF HistorySurvives, BootHistory, Valid, MCInit
<1>. QED
  BY <1>1, <1>3, <1>4 DEF MCIInv

LEMMA MCInductive == MCSpec => []MCIInv
<1>1. MCIInv /\ [MCNext]_mcvars => MCIInv'
  <2>. SUFFICES ASSUME MCIInv, [MCNext]_mcvars PROVE MCIInv'
    OBVIOUS
  <2>1. IInv'
    BY StepIsNext, StepHolds DEF MCIInv
  <2>2. TypeOK'
    BY <2>1 DEF IInv
  <2>. QED
    BY <2>1, <2>2, TablesKept, HistoryKept DEF MCIInv
<1>. QED
  BY <1>1, MCInitHolds, PTL DEF MCSpec

(* CalLut_Commit, CalLut_Init: whatever erase or program fails, wherever   *)
(* the power is cut, a boot loads the last table the panel was told is     *)
(* stored or one whose commit began later: the commit spends the page that *)
(* loses, and its record wins against the other one.                       *)
THEOREM AckedTablesBoot == MCSpec => []BootIsAckedOrNewer
<1>1. MCIInv => BootIsAckedOrNewer
  BY TablesBoot DEF MCIInv, IInv
<1>. QED
  BY <1>1, MCInductive, PTL

(* Diag_SaveNow, Diag_Init: the same for the history.                      *)
THEOREM HistoriesSurvive == MCSpec => []HistorySurvives
<1>1. MCIInv => HistorySurvives
  BY DEF MCIInv
<1>. QED
  BY <1>1, MCInductive, PTL
=============================================================================
