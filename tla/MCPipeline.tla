----------------------------- MODULE MCPipeline -----------------------------
(***************************************************************************)
(* Pipeline for TLC, with what the documentation and the comments say of a *)
(* run where the code does something else.                                 *)
(***************************************************************************)
EXTENDS Pipeline

(* "the run is saved as `stopped` with the reason" (README, Ending a run       *)
(* early): a run that announced a stop is not recorded as done.                *)
AnnouncedStopIsNotDone == announced => record # "done"
=============================================================================
