----------------------------- MODULE MCNodeJobs -----------------------------
(* Instances of NodeJobs: two jobs, of which one has a verdict, two workers   *)
(* and a restart; the findings need one job and one worker.                   *)
EXTENDS NodeJobs
=============================================================================
