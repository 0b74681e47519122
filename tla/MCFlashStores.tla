--------------------------- MODULE MCFlashStores ---------------------------
(* The two stores for TLC, with observers of what a boot may find.         *)
EXTENDS FlashStores, TLC

VARIABLES
  tables,     \* of the last commit answered OK, or of the boot, and the
              \* tables programmed since
  histories   \* of the last save that validates, or of the boot, and those
              \* whose save began since

mcvars == <<vars, tables, histories>>

MCInit == Init /\ tables = {NoTable} /\ histories = {Empty}

Answered == Adopt /\ calPages[Target] # Bad
Cut == PowerCut \/ CutInDiagSave

ObserveTables ==
  tables' = IF Cut THEN {cal'.active}
            ELSE IF Answered THEN {comm.table}
            ELSE IF comm.pc = "program" /\ comm.who = "cal"
            THEN tables \cup {comm.table}
            ELSE tables

ObserveHistories ==
  histories' =
    IF Cut THEN {history'.active}
    ELSE IF Saved /\ diagPages'[DiagTarget] = DiagRecord /\ ~history'.dirty
    THEN {history.active}
    ELSE IF Saved THEN histories \cup {history.active}
    ELSE histories

MCNext == Next /\ ObserveTables /\ ObserveHistories

MCSpec == MCInit /\ [][MCNext]_mcvars

Alike == Permutations(Tables)
-----------------------------------------------------------------------------
(* CalLut_Commit, CalLut_Init: whatever failed or was cut, a boot loads    *)
(* the last table the panel was told is stored, or a later one it sent     *)
(* whole; never an older one and never none.                               *)
BootIsAckedOrNewer == Loaded(calPages).active \in tables

(* Diag_SaveNow, Diag_Init: the same for the history.                      *)
HistorySurvives == BootHistory(diagPages) \in histories
=============================================================================
