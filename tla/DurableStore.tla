---------------------------- MODULE DurableStore ----------------------------
(***************************************************************************)
(* What the parameter store promises (esp_link_nvm.h), without flash       *)
(* pages: a configuration in use, the one a boot would bring back, and     *)
(* whether the board still owes a save.                                    *)
(***************************************************************************)
CONSTANT Configs   \* the values of all persisted parameters together

VARIABLES live, stored, unsaved

storeVars == <<live, stored, unsaved>>

Init == live \in Configs /\ stored = live /\ unsaved = FALSE

Edit ==
  /\ live' \in Configs
  /\ unsaved' = TRUE
  /\ UNCHANGED stored

\* Only while a save is owed may the stored configuration move, and the debt
\* ends only when the configuration in use is the stored one.
Persist ==
  /\ unsaved
  /\ stored' \in Configs
  /\ unsaved' \in BOOLEAN
  /\ ~unsaved' => stored' = live
  /\ UNCHANGED live

Boot ==
  /\ live' = stored
  /\ unsaved' = FALSE
  /\ UNCHANGED stored

Next == Edit \/ Persist \/ Boot

Spec == Init /\ [][Next]_storeVars
=============================================================================
