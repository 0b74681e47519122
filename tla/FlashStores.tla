---------------------------- MODULE FlashStores ----------------------------
(***************************************************************************)
(* Two stores of two flash pages each, and the charger that must not       *)
(* switch while a page is erased or programmed: the current table the      *)
(* panel pushes (Modules/CalLut, in the comm task, which also runs the     *)
(* parameter save of EspLinkNvm) and the history (Modules/Diag, in the     *)
(* control task).  The control task has the higher priority: its pass      *)
(* falls between any two steps of the comm task and nothing falls into it, *)
(* except power: a pass is one step, one that saves the history two.       *)
(*                                                                         *)
(* Both channels' points are one set, a point is the table it was sent     *)
(* with, and a checksum is equality.  Programming may store something else *)
(* than it was given without a flag.  The debounce of the history's save   *)
(* (diag.c:319-345) is left open: a pass with a change saves it or not.    *)
(***************************************************************************)
EXTENDS Integers

CONSTANTS
  Tables, NoTable,   \* what the panel pushes
  Points,            \* of a table
  Histories, Empty,  \* what Diag records
  SeqMod,            \* 2^16
  Polls, Period      \* polls of the gates; polls within which control passes

Sides == {"A", "B"}
\* A page that does not validate.
Bad == [seq |-> 0, data |-> NoTable]

ASSUME FlashStoresAssumption ==
  /\ NoTable \notin Tables \cup Histories /\ Empty \in Histories
  /\ SeqMod \in Nat /\ SeqMod > 2 /\ SeqMod % 2 = 0
  /\ Polls \in Nat /\ Period \in Nat /\ Period < Polls

VARIABLES
  calPages, diagPages,
  cal,       \* CalLut's RAM
  comm,      \* the comm task's flash writer
  history,   \* Diag's Active record, its Dirty, and SaveNow under way
  depth,     \* UINT8_T__G__ChargerSuspendDepth
  gates,     \* a charger gate is pulsing
  late       \* polls of the comm task since the last control pass

vars == <<calPages, diagPages, cal, comm, history, depth, gates, late>>

Seqs == 0 .. SeqMod - 1
PagesOf(Data) == [Sides -> {Bad} \cup [seq : Seqs, data : Data]]

TypeOK ==
  /\ calPages \in PagesOf(Tables) /\ diagPages \in PagesOf(Histories)
  /\ cal \in [active : Tables \cup {NoTable}, seq : Seqs, newest : Sides,
              open : BOOLEAN, stage : [Points -> Tables \cup {NoTable}]]
  /\ comm \in [pc : {"idle", "quiet", "erase", "program", "adopt"},
               who : {"cal", "nvm"}, polls : 0 .. Polls,
               table : Tables \cup {NoTable}]
  /\ history \in [active : Histories, dirty : BOOLEAN, saving : BOOLEAN]
  /\ depth \in 0 .. 1 /\ gates \in BOOLEAN /\ late \in 0 .. Period
-----------------------------------------------------------------------------
(* The serial numbers.                                                     *)

Other(side) == IF side = "A" THEN "B" ELSE "A"
Next16(seq) == (seq + 1) % SeqMod
Valid(pages) == {side \in Sides : pages[side] # Bad}
Gap(pages) == (pages["A"].seq - pages["B"].seq) % SeqMod

\* CalLut_Init: a tie goes to page A.
CalNewest(pages) ==
  IF Valid(pages) = Sides
  THEN IF Gap(pages) < SeqMod \div 2 THEN "A" ELSE "B"
  ELSE IF Valid(pages) = {"A"} THEN "A" ELSE "B"

\* Diag_Init and Diag_SaveNow: a tie goes to page B.
DiagNewest(pages) ==
  IF Valid(pages) = Sides
  THEN IF Gap(pages) \in 1 .. SeqMod \div 2 - 1 THEN "A" ELSE "B"
  ELSE IF Valid(pages) = {"A"} THEN "A" ELSE "B"

NoPoints == [p \in Points |-> NoTable]

Fresh == [active |-> NoTable, seq |-> 0, newest |-> "A", open |-> FALSE,
          stage |-> NoPoints]

\* What a boot loads.
Loaded(pages) ==
  LET side == CalNewest(pages)
  IN IF Valid(pages) = {} THEN Fresh
     ELSE [Fresh EXCEPT !.active = pages[side].data, !.seq = pages[side].seq,
                        !.newest = side]

BootHistory(pages) ==
  IF Valid(pages) = {} THEN Empty ELSE pages[DiagNewest(pages)].data

Idle == [pc |-> "idle", who |-> "cal", polls |-> 0, table |-> NoTable]
-----------------------------------------------------------------------------
(* The panel's push, in the comm task.                                     *)

StageBegin(accepted) ==
  /\ comm.pc = "idle"
  /\ cal' = IF accepted THEN [cal EXCEPT !.open = TRUE, !.stage = NoPoints]
            ELSE [cal EXCEPT !.open = FALSE]
  /\ UNCHANGED <<calPages, diagPages, comm, history, depth, gates, late>>

\* A chunk may come again, and may be of an older push.
StagePoint(p, table) ==
  /\ comm.pc = "idle" /\ cal.open
  /\ cal' = [cal EXCEPT !.stage[p] = table]
  /\ UNCHANGED <<calPages, diagPages, comm, history, depth, gates, late>>

Missing == {p \in Points : cal.stage[p] = NoTable}

\* The checks of Commit before it touches the flash: the rest is refused.
MayCommit(table) ==
  cal.open /\ Missing = {} /\ \A p \in Points : cal.stage[p] = table

\* SetSuspended(true) of a writer.
Suspends(writer, table) ==
  /\ comm.pc = "idle"
  /\ depth' = depth + 1
  /\ comm' = [pc |-> "quiet", who |-> writer, polls |-> 0, table |-> table]
  /\ UNCHANGED <<calPages, diagPages, cal, history, gates, late>>

Commit(table) == MayCommit(table) /\ Suspends("cal", table)
NvmSave == Suspends("nvm", NoTable)

QuietAtOnce ==
  /\ comm.pc = "quiet"
  /\ comm' = [comm EXCEPT !.pc = "erase", !.polls = 0]
  /\ UNCHANGED <<calPages, diagPages, cal, history, depth, gates, late>>

\* Both gates read 0, or every poll is spent.
Quiet ==
  /\ comm.pc = "quiet" /\ (~gates \/ comm.polls = Polls)
  /\ comm' = [comm EXCEPT !.pc = "erase", !.polls = 0]
  /\ UNCHANGED <<calPages, diagPages, cal, history, depth, gates, late>>

Poll ==
  /\ comm.pc = "quiet" /\ gates /\ comm.polls < Polls /\ late < Period
  /\ comm' = [comm EXCEPT !.polls = @ + 1]
  /\ late' = late + 1
  /\ UNCHANGED <<calPages, diagPages, cal, history, depth, gates>>

Resumes == depth' = depth - 1

\* Written for two sound pages.
TargetOfTwo ==
  IF Valid(calPages) = Sides THEN Other(CalNewest(calPages)) ELSE "A"

\* Ping-pong: never the page of the newest record.
Target == IF cal.newest = "B" THEN "A" ELSE "B"
Stored(page) ==
  IF comm.who = "nvm" THEN calPages ELSE [calPages EXCEPT ![Target] = page]

EraseDone ==
  /\ comm.pc = "erase"
  /\ calPages' = Stored(Bad)
  /\ comm' = [comm EXCEPT !.pc = "program"]
  /\ UNCHANGED <<diagPages, cal, history, depth, gates, late>>

EraseFails ==
  /\ comm.pc = "erase"
  /\ calPages' \in {calPages, Stored(Bad)}
  /\ Resumes /\ comm' = Idle
  /\ UNCHANGED <<diagPages, cal, history, gates, late>>

Record == [seq |-> Next16(cal.seq), data |-> comm.table]

\* Half words one by one: a failure may come after the last one.
Program(ok) ==
  /\ comm.pc = "program"
  /\ calPages' \in {Stored(Bad), Stored(Record)}
  /\ Resumes
  /\ comm' = IF ok /\ comm.who = "cal" THEN [comm EXCEPT !.pc = "adopt"]
             ELSE Idle
  /\ UNCHANGED <<diagPages, cal, history, gates, late>>

\* What is stored is read back; only then it is the table in use.
Adopt ==
  /\ comm.pc = "adopt"
  /\ cal' = IF calPages[Target] = Bad THEN cal
            ELSE [cal EXCEPT !.active = calPages[Target].data,
                             !.seq = calPages[Target].seq,
                             !.newest = Target, !.open = FALSE]
  /\ comm' = Idle
  /\ UNCHANGED <<calPages, diagPages, history, depth, gates, late>>
-----------------------------------------------------------------------------
(* The control task.                                                       *)

\* The charger's pass: a suspension holds both gates off.
ControlPass(pulsing) ==
  /\ gates' = (depth = 0 /\ pulsing)
  /\ late' = 0
  /\ UNCHANGED <<calPages, diagPages, cal, comm, history, depth>>

\* A fault, a power event, a charge second; and the panel's clear.
Records(h) ==
  /\ h # history.active
  /\ history' = [history EXCEPT !.active = h, !.dirty = TRUE]
  /\ UNCHANGED <<calPages, diagPages, cal, comm, depth, gates, late>>

DiagTargetOfTwo ==
  IF Valid(diagPages) = Sides THEN Other(DiagNewest(diagPages)) ELSE "A"

DiagTarget == IF Valid(diagPages) = {} THEN "A" ELSE Other(DiagNewest(diagPages))
DiagRecord ==
  [seq |-> IF Valid(diagPages) = {} THEN 1
           ELSE Next16(diagPages[DiagNewest(diagPages)].seq),
   data |-> history.active]

SaveDue == history.dirty

\* SaveNow waits for the other writer, then suspends the charger itself and
\* stops both gates.
DiagSuspends ==
  /\ SaveDue /\ depth = 0
  /\ depth' = depth + 1 /\ gates' = FALSE
  /\ history' = [history EXCEPT !.saving = TRUE]
  /\ UNCHANGED <<calPages, diagPages, cal, comm, late>>

DiagPages(ok) ==
  IF ok THEN {Bad, DiagRecord} ELSE {Bad, DiagRecord, diagPages[DiagTarget]}

DiagWrites(ok) ==
  /\ history.saving
  /\ \E page \in DiagPages(ok) :
       diagPages' = [diagPages EXCEPT ![DiagTarget] = page]
  /\ history' = [history EXCEPT !.dirty = ~ok, !.saving = FALSE]
  /\ UNCHANGED <<calPages, cal, comm, gates, late>>

DiagSaveFailsSuspended(ok) == DiagWrites(ok) /\ depth' = IF ok THEN 0 ELSE depth

\* The write, and the suspension given back whatever became of it.
DiagSave(ok) == DiagWrites(ok) /\ Resumes
-----------------------------------------------------------------------------
(* Power: a cut, the watchdog, or the reset the panel asks for, and the    *)
(* boot that follows.                                                      *)

Boots ==
  /\ cal' = Loaded(calPages')
  /\ history' = [active |-> BootHistory(diagPages'), dirty |-> FALSE,
                 saving |-> FALSE]
  /\ comm' = Idle /\ depth' = 0 /\ gates' = FALSE /\ late' = 0

PowerCut == UNCHANGED <<calPages, diagPages>> /\ Boots

CutInDiagSave ==
  /\ history.saving
  /\ \E page \in {Bad, DiagRecord} :
       diagPages' = [diagPages EXCEPT ![DiagTarget] = page]
  /\ UNCHANGED calPages
  /\ Boots
-----------------------------------------------------------------------------
Init ==
  /\ calPages = [s \in Sides |-> Bad] /\ diagPages = [s \in Sides |-> Bad]
  /\ cal = Fresh
  /\ comm = Idle
  /\ history = [active |-> Empty, dirty |-> FALSE, saving |-> FALSE]
  /\ depth = 0 /\ gates = FALSE /\ late = 0

CommSaves ==
  \/ Quiet \/ Poll \/ EraseDone \/ EraseFails
  \/ (\E ok \in BOOLEAN : Program(ok)) \/ Adopt

Comm ==
  \/ \E ok \in BOOLEAN : StageBegin(ok)
  \/ \E p \in Points, t \in Tables : StagePoint(p, t)
  \/ (\E t \in Tables : Commit(t)) \/ NvmSave
  \/ CommSaves

Control ==
  \/ \E pulsing \in BOOLEAN : ControlPass(pulsing)
  \/ \E h \in Histories : Records(h)
  \/ DiagSuspends

Next ==
  \/ ~history.saving /\ (Comm \/ Control)
  \/ \E ok \in BOOLEAN : DiagSave(ok)
  \/ PowerCut \/ CutInDiagSave

Spec == Init /\ [][Next]_vars
-----------------------------------------------------------------------------
Writing == comm.pc \in {"erase", "program"}
Saved == \E ok \in BOOLEAN : DiagSave(ok)

(* CalLut_SuspendCharger, EspLink_NvmSuspendCharger: no gate pulses while  *)
(* the comm task erases or programs, though the control task runs in       *)
(* between and the wait for the gates is bounded; nor while SaveNow does.  *)
QuietFlash == Writing \/ history.saving => ~gates

(* Charger_SetSuspended: every path of the three writers, the failing ones *)
(* too, gives its suspension back, and only once.                          *)
SuspensionReturned ==
  depth = 1 <=> comm.pc = "quiet" \/ Writing \/ history.saving

(* Diag_SaveNow (diag.c:745): the history is never saved while another     *)
(* writer erases or programs.                                              *)
WritersTakeTurns == ~(history.saving /\ Writing)
=============================================================================
