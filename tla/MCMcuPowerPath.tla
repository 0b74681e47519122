--------------------------- MODULE MCMcuPowerPath ---------------------------
(* McuPowerPath for TLC, with an observer of how long the input qualified. *)
EXTENDS McuPowerPath

\* Consecutive passes that found the input permitted, with no break of the
\* input line served between them or during one.
VARIABLE heldRun

MCInit == Init /\ heldRun = 0

\* A pass still deciding when the break is served is the first of a new run; one
\* past its decision is left to the veto on the live line (CutIfPresent).
Deciding == {"testConnected", "testTimer", "armStart"}
Cutting == {"clearConnected", "clearTimer", "cutIfPresent"}

AfterBreak ==
  IF pc \in Cutting THEN heldRun ELSE IF pc \in Deciding THEN 1 ELSE 0

MCNext ==
  \/ (LineEdge \/ Task) /\ UNCHANGED heldRun
  \/ OnInputIrq /\ heldRun' = IF pb4 THEN heldRun ELSE AfterBreak
  \/ \E p \in Permissions :
       /\ BeginPass(p)
       /\ heldRun' = IF p # "permitted" THEN 0
                     ELSE IF heldRun <= StablePasses THEN heldRun + 1 ELSE heldRun

MCSpec ==
  /\ MCInit /\ [][MCNext]_<<vars, heldRun>>
  /\ WF_vars(OnInputIrq) /\ WF_vars(Task) /\ WF_vars(BeginPass("permitted"))
-----------------------------------------------------------------------------
\* Q1 opens only after the permission held in every pass of the 5 s window, with
\* no break of the input line between: an invalid snapshot, a release, or a
\* break shorter than a pass starts the window again.
FullQualification ==
  [][batteryOn /\ ~batteryOn' => heldRun > StablePasses]_<<vars, heldRun>>
=============================================================================
