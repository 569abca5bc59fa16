----------------------------- MODULE MCMessages -----------------------------
(* Two messages of one sender, second and subject: their files are named   *)
(* alike but for the number the deposit tool appends.                      *)
EXTENDS Messages, TLC

CONSTANTS m1, m2

MCMessages == {m1, m2}
Symmetric == Permutations(MCMessages)

MCBase == [m \in MCMessages |-> "base"]
=============================================================================
