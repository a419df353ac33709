---------------------------- MODULE MCMakhorFeeds ----------------------------
(* Instances of MakhorFeeds for TLC. *)
EXTENDS MakhorFeeds
CONSTANTS g1, g2

(* A document that lists an item twice, and one of an item with neither     *)
(* guid nor link and two more.                                              *)
MCDocs == {<<g1, g1>>, <<NoGuid, g2, g1>>}
MCOneItem == {<<g1>>}
=============================================================================
