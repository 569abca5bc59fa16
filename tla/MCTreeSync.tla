----------------------------- MODULE MCTreeSync -----------------------------
(***************************************************************************)
(* Two directories of one file each, which the client may replace by files *)
(* or by links to one another, under edits on both sides.                  *)
(***************************************************************************)
EXTENDS TreeSync, TLC

Top(n) == <<n>>
Sub(n) == <<n, "f">>

MCPaths == {Top("a"), Sub("a"), Top("b"), Sub("b")}
MCOrder == Top("a") :> 0 @@ Top("b") :> 1 @@ Sub("a") :> 2 @@ Sub("b") :> 3

Tree(files) == files @@ [p \in MCPaths |-> Absent]
Both(c, d) ==
  Tree(Top("a") :> Dir @@ Sub("a") :> File(c) @@ Top("b") :> Dir @@ Sub("b") :> File(d))

MCTracked == {Sub("a"), Sub("b")}
MCNodeInit == Both("v0", "v0")
MCLocalInit == Tree(Top("b") :> Dir @@ Sub("b") :> File("v1"))
MCLocalTrees ==
  { Tree(Top("a") :> Link(Top("b")) @@ Top("b") :> Dir @@ Sub("b") :> File("v1")),
    Tree(Top("a") :> Dir @@ Sub("a") :> File("v0") @@ Top("b") :> File("v1")) }
MCOptions == {{"delete"}, {"force"}, {"pull"}, {"pull", "delete"}}
=============================================================================
