------------------------------- MODULE MCNntpd -------------------------------
(* An instance of Nntpd by itself for TLC. *)
EXTENDS Nntpd, TLC

CONSTANTS test, other

(* A cross-post, and a header of commas only. *)
MCNewsgroups == {<<other, test>>, <<>>}
MCMade == [g \in Groups |-> g]
MCSymmetry == Permutations(Sessions)
=============================================================================
