---------------------------- MODULE MCEspLinkNvm ----------------------------
(***************************************************************************)
(* EspLinkNvm for TLC, with observers: the values each parameter has had   *)
(* since the last verified save began, and the timed saves that failed     *)
(* since the last edit.                                                    *)
(***************************************************************************)
EXTENDS EspLinkNvm

MCOrder == <<"absentMv", "slot200">>
MCControlSlots == {"slot200"}
MCDefaults == [s \in {"absentMv", "slot200"} |-> 0]

VARIABLES
  held,    \* values since the last verified save began copying
  during,  \* values since the save in progress began copying
  failed   \* timed saves begun since the last edit that failed; -1 while one
           \* is in progress that the edit came too late for

obsVars == <<vars, held, during, failed>>

OnlyLive == [s \in Slots |-> {live[s]}]
AlsoLive(h) == [s \in Slots |-> h[s] \cup {live'[s]}]

ObsInit == Init /\ held = OnlyLive /\ during = OnlyLive /\ failed = 0

Starts == pc = "frames" /\ pc' = "copy"
Observe ==
  /\ during' = IF pc = "off" THEN [s \in Slots |-> {live'[s]}]
               ELSE IF Starts THEN OnlyLive
               ELSE AlsoLive(during)
  /\ held' = IF pc = "off" THEN [s \in Slots |-> {live'[s]}]
             ELSE IF pc = "verify" /\ ok' /\ pc' = "finish" THEN during
             ELSE AlsoLive(held)

Saving == {"copy", "erase", "program", "verify", "finish"}

SaveEnds ==
  CASE ok -> 0
    [] ~ok /\ caller = "flush" -> IF failed < 0 THEN 0 ELSE failed
    [] ~ok /\ caller = "tick" ->
         IF failed > SaveRetries THEN failed ELSE failed + 1

ObsTask ==
  /\ Task /\ Observe
  /\ failed' = IF pc = "finish" THEN SaveEnds ELSE failed
ObsPanel ==
  /\ Panel /\ Observe
  /\ failed' = IF live' # live THEN 0 ELSE failed
ObsControl ==
  /\ Control /\ Observe
  /\ failed' = IF pc \in Saving THEN -1 ELSE 0
ObsPowerLoss == PowerLoss /\ Observe /\ UNCHANGED failed
ObsBoot == Boot /\ Observe /\ failed' = 0
ObsNext == ObsTask \/ ObsPanel \/ ObsControl \/ ObsPowerLoss \/ ObsBoot

ObsSpec == ObsInit /\ [][ObsNext]_obsVars /\ WF_obsVars(ObsTask)
-----------------------------------------------------------------------------
\* A boot at any moment, also one in the middle of an erase or of programming,
\* brings back for each parameter a value no older than the last verified save:
\* never the other bank's older record, across the wrap of the serial number.
BootIsRecent == \A s \in Slots : BootConfig[s] \in held[s]

\* Once the flash works, the power holds and the edits stop, every change is
\* stored, unless all the saves the last edit was entitled to failed before: the
\* first one and SaveRetries more, whatever failed before that edit.
EditsReachFlash ==
  <>[][Task /\ (pc' = "finish" => ok')]_vars =>
    <>[](dirtyRuns = 0 \/ failed > SaveRetries \/ pc = "off")
=============================================================================
