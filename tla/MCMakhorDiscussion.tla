-------------------------- MODULE MCMakhorDiscussion --------------------------
(* What people write: makhor's comments, hats and revisions, and the news   *)
(* server's articles.  They share no state: one run checks the four, each   *)
(* behaviour being one of them.  Their clients are the same model values,   *)
(* so that one small set of permutations is the symmetry of all four.       *)
EXTENDS MakhorComments, MakhorHats, MakhorRevisions, Nntpd, TLC

CONSTANTS ann, p1, test, other, alias, deep

VARIABLE part

MCTagMods == {<<ann, p1>>}

(* A cross-post, a header of commas only, and names with slashes: alias has *)
(* the directory of test, deep lies below that of other.                    *)
MCNewsgroups == {<<other, test>>, <<>>, <<deep, alias>>}
MCMade == [g \in Groups |-> CASE g \in {test, alias} -> test [] OTHER -> other]

MCSymmetry == Permutations(Clients) \cup Permutations(Members) \cup Permutations(Labels)

(* Both sessions post, and one of them reads, if no name has a slash:        *)
(* readers change nothing that another session sees.  Such names come once,  *)
(* with the article m.                                                       *)
Reads(s) == sess[s].cur # NoGroup \/ sess[s].to # NoGroup
Slashed(s) == sess[s].todo = <<deep, alias>>
FewReaders ==
    \A s, r \in Sessions : Reads(s) => (Reads(r) => s = r) /\ ~Slashed(r) /\ aliased = {}
SlashedOnce ==
    \A s \in Sessions : ~Slashed(s) /\ Slashed(s)' => aliased = {} /\ sess'[s].msg \notin Blank

(* One reply is written before its parent, or is its own, and no comment on  *)
(* another post then: enough for rings of one to three replies.              *)
Young(c) == comments[c].parent >= c
OneYoungParent ==
    \A c, k \in Ids : Young(c) => comments[k].post = p1 /\ (Young(k) => c = k)

(* One deletion of a thread is reported as done; others may fail. *)
OneReported == Cardinality(reported) <= 1

DiscussionInit ==
    /\ CommentsInit
    /\ HatsInit
    /\ RevisionsInit
    /\ NewsInit
    /\ part \in {"comments", "hats", "revisions", "news"}

DiscussionNext ==
    /\ UNCHANGED part
    /\ \/ part = "comments" /\ CommentsNext /\ OneYoungParent' /\ OneReported'
          /\ UNCHANGED <<hatVars, revisionVars, newsVars>>
       \/ part = "hats" /\ HatsNext /\ UNCHANGED <<commentVars, revisionVars, newsVars>>
       \/ part = "revisions" /\ RevisionsNext /\ UNCHANGED <<commentVars, hatVars, newsVars>>
       \/ part = "news" /\ NewsNext /\ FewReaders' /\ SlashedOnce
          /\ UNCHANGED <<commentVars, hatVars, revisionVars>>

DiscussionSpec ==
    DiscussionInit /\ [][DiscussionNext]_<<commentVars, hatVars, revisionVars, newsVars, part>>
=============================================================================
