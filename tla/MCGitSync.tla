----------------------------- MODULE MCGitSync -----------------------------
(***************************************************************************)
(* Three commits in a row on the client, the second of which adds a file   *)
(* and an LFS asset and the third of which leaves the asset alone, and one *)
(* commit made on the node.                                                *)
(***************************************************************************)
EXTENDS GitSync, TLC

MCAncestors ==
  "c0" :> {"c0"} @@ "c1" :> {"c0", "c1"} @@ "c2" :> {"c0", "c1", "c2"} @@ "d1" :> {"c0", "d1"}

Holds(src, new, asset) == "src" :> src @@ "new" :> new @@ "asset" :> asset

MCTreeOf ==
  "c0" :> Holds("s0", None, None) @@ "c1" :> Holds("s1", "n", "a")
    @@ "c2" :> Holds("s0", "n", "a") @@ "d1" :> Holds("s1", None, None)
=============================================================================
