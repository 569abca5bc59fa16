----------------------------- MODULE MCCiMaster -----------------------------
(***************************************************************************)
(* One worker with two variants on two branches. Workers share nothing but *)
(* the master's thread, which one worker can end as well as two.           *)
(***************************************************************************)
EXTENDS CiMaster, TLC

MCVariantsOf == "w1" :> <<"v1", "v2">>
MCBranchOf == "v1" :> "dev" @@ "v2" :> "main"
=============================================================================
