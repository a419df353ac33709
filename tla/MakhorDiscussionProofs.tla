----------------------- MODULE MakhorDiscussionProofs -----------------------
(***************************************************************************)
(* Proofs about what is written in makhor: the history of a post           *)
(* (MakhorRevisions) and the hats of posts and comments (MakhorHats), for  *)
(* every number of users, requests, hats and edits; and what the RSS       *)
(* import (MakhorFeeds) posts, for any feeds, documents and limits and any *)
(* number of sync requests.                                                *)
(***************************************************************************)
EXTENDS MakhorHats, MakhorRevisions, MakhorFeeds, FiniteSetTheorems, TLAPS

-----------------------------------------------------------------------------
(* The history of a post.                                                   *)

Open == {e \in Editors : edit[e] # NoEdit}

(* Every edit that has begun is under way, in the history or failed. *)
EditsCounted == Len(revisions) + Cardinality(Open) <= begun

(* An edit under way changes a text that the post has had.  Unless the     *)
(* current text was written behind its back, it is the one the edit has     *)
(* read.                                                                    *)
EditsSound ==
    \A e \in Open :
        /\ edit[e].old \in shown /\ edit[e].new \in Drafts /\ edit[e].new # edit[e].old
        /\ edit[e].old = current \/ current \in crossed

(* The first text to enter the history is the original. *)
OriginalFirst ==
    IF revisions = <<>>
    THEN current = Original /\ shown = {Original}
    ELSE revisions[1] = Original

(* The current text is not the last one of the history, but for crossings. *)
LastDiffers ==
    /\ current \in shown
    /\ crossed = {} /\ revisions # <<>> => revisions[Len(revisions)] # current

RevisionsIInv ==
    /\ RevisionsTypeOK
    /\ EditsCounted
    /\ EditsSound
    /\ OriginalFirst
    /\ LastDiffers
    /\ HistoryComplete
    /\ HistoryTrue

(* A new post has no history yet.                                           *)
LEMMA RevisionsInitIInv == RevisionsInit => RevisionsIInv
<1> SUFFICES ASSUME RevisionsInit PROVE RevisionsIInv
  OBVIOUS
<1>1. Open = {}
  BY DEF RevisionsInit, Open
<1>2. Cardinality(Open) = 0
  BY <1>1, FS_EmptySet
<1>3. RevisionsTypeOK
  BY DraftsAssumption, EditsAssumption DEF RevisionsInit, RevisionsTypeOK, NoEdit
<1>4. /\ EditsCounted /\ EditsSound /\ OriginalFirst /\ LastDiffers
      /\ HistoryComplete /\ HistoryTrue
  BY <1>1, <1>2 DEF RevisionsInit, EditsCounted, EditsSound, OriginalFirst, LastDiffers,
     HistoryComplete, HistoryTrue, GetPostRevisions, ToSet
<1> QED
  BY <1>3, <1>4 DEF RevisionsIInv

(* An edit that begins reads the current text, and is one more. *)
LEMMA EditPostSubmitKeeps ==
  ASSUME RevisionsIInv, NEW e \in Editors, NEW d \in Drafts, EditPostSubmit(e, d)
  PROVE  RevisionsIInv'
<1> USE DEF EditPostSubmit
<1>1. /\ UNCHANGED <<current, revisions, shown, crossed>> /\ begun' = begun + 1
      /\ begun \in Nat /\ begun' \in 0..MaxEdits /\ current \in Drafts /\ current \in shown
  BY EditsAssumption DEF RevisionsIInv, RevisionsTypeOK, LastDiffers
<1> DEFINE new == [old |-> current, new |-> d]
<1>2. new # NoEdit /\ new.old = current /\ new.new = d /\ d # current
  BY <1>1, DraftsAssumption DEF NoEdit
<1>3. \A f \in Editors : edit'[f] = IF f = e THEN new ELSE edit[f]
  BY DEF RevisionsIInv, RevisionsTypeOK
<1>4. RevisionsTypeOK'
  BY <1>1 DEF RevisionsIInv, RevisionsTypeOK
<1> HIDE DEF new
<1>5. e \notin Open /\ Open' = Open \cup {e}
  BY <1>2, <1>3 DEF Open
<1>6. EditsCounted'
  <2>1. IsFiniteSet(Open)
    BY EditsAssumption, FS_Subset DEF Open
  <2>2. Cardinality(Open') = Cardinality(Open) + 1
    BY <1>5, <2>1, FS_AddElement
  <2>3. Cardinality(Open) \in Nat /\ Len(revisions) \in Nat
    BY <2>1, FS_CardinalityType DEF RevisionsIInv, RevisionsTypeOK
  <2> QED
    BY <1>1, <2>2, <2>3 DEF RevisionsIInv, EditsCounted
<1>7. EditsSound'
  BY <1>1, <1>2, <1>3, <1>5 DEF RevisionsIInv, EditsSound, Open
<1>8. OriginalFirst' /\ LastDiffers' /\ HistoryComplete' /\ HistoryTrue'
  BY <1>1 DEF RevisionsIInv, OriginalFirst, LastDiffers, HistoryComplete, HistoryTrue, GetPostRevisions
<1> QED
  BY <1>4, <1>6, <1>7, <1>8 DEF RevisionsIInv

(* An edit that ends is one less. *)
LEMMA OneEditLess ==
  ASSUME RevisionsIInv, NEW e \in Open, edit' = [edit EXCEPT ![e] = NoEdit]
  PROVE  /\ Open' = Open \ {e} /\ \A f \in Open' : edit'[f] = edit[f]
         /\ Cardinality(Open) \in Nat /\ Cardinality(Open') = Cardinality(Open) - 1
<1>1. Open' = Open \ {e} /\ \A f \in Open' : edit'[f] = edit[f]
  BY DEF Open, RevisionsIInv, RevisionsTypeOK
<1>2. IsFiniteSet(Open)
  BY EditsAssumption, FS_Subset DEF Open
<1> QED
  BY <1>1, <1>2, FS_RemoveElement, FS_CardinalityType

(* An edit that fails leaves the post alone. *)
LEMMA EditFailsKeeps ==
  ASSUME RevisionsIInv, NEW e \in Editors, EditFails(e)
  PROVE  RevisionsIInv'
<1> USE DEF EditFails
<1>1. e \in Open
  BY DEF Open
<1>2. RevisionsTypeOK'
  BY DEF RevisionsIInv, RevisionsTypeOK, NoEdit
<1>3. Len(revisions) \in Nat /\ begun \in Nat
  BY EditsAssumption DEF RevisionsIInv, RevisionsTypeOK
<1>0. /\ Open' = Open \ {e} /\ \A f \in Open' : edit'[f] = edit[f]
      /\ Cardinality(Open) \in Nat /\ Cardinality(Open') = Cardinality(Open) - 1
  BY <1>1, OneEditLess
<1>4. EditsCounted' /\ EditsSound'
  BY <1>0, <1>3 DEF RevisionsIInv, EditsCounted, EditsSound
<1>5. OriginalFirst' /\ LastDiffers' /\ HistoryComplete' /\ HistoryTrue'
  BY DEF RevisionsIInv, OriginalFirst, LastDiffers, HistoryComplete, HistoryTrue, GetPostRevisions
<1> QED
  BY <1>2, <1>4, <1>5 DEF RevisionsIInv

(* A place before the last of a list that has grown by one. *)
LEMMA LastOrEarlier ==
  ASSUME NEW n \in Nat, NEW m, m = n + 1, NEW k \in 1..(m - 1)
  PROVE  k = n \/ k \in 1..(n - 1)
  OBVIOUS

(* The transaction of an edit. *)
LEMMA UpdatePostKeeps ==
  ASSUME RevisionsIInv, NEW e \in Editors, UpdatePostWithRevision(e)
  PROVE  RevisionsIInv'
<1>1. e \in Open /\ edit' = [edit EXCEPT ![e] = NoEdit]
  BY DEF UpdatePostWithRevision, Open
<1>2. PICK old, new : edit[e].old = old /\ edit[e].new = new
  OBVIOUS
<1>3. /\ old \in shown /\ old \in Drafts /\ new \in Drafts /\ new # old
      /\ old = current \/ current \in crossed
      /\ revisions \in Seq(Drafts) /\ Len(revisions) \in Nat /\ begun \in Nat
  BY <1>1, <1>2, EditsAssumption DEF RevisionsIInv, RevisionsTypeOK, EditsSound
<1>4. /\ revisions' = Append(revisions, old) /\ current' = new /\ shown' = shown \cup {new}
      /\ crossed \subseteq crossed' /\ crossed' \subseteq crossed \cup {new}
      /\ \A f \in Open : f # e => new \in crossed'
      /\ begun' = begun
  BY <1>2 DEF UpdatePostWithRevision, Open
<1>5. /\ revisions' \in Seq(Drafts) /\ Len(revisions') = Len(revisions) + 1
      /\ revisions'[Len(revisions) + 1] = old
      /\ \A k \in 1..Len(revisions) : revisions'[k] = revisions[k]
      /\ DOMAIN revisions = 1..Len(revisions) /\ DOMAIN revisions' = 1..(Len(revisions) + 1)
  BY <1>3, <1>4
<1>6. GetPostRevisions' = GetPostRevisions \cup {old}
  BY <1>3, <1>5 DEF GetPostRevisions, ToSet
<1>0. /\ Open' = Open \ {e} /\ \A f \in Open' : edit'[f] = edit[f]
      /\ Cardinality(Open) \in Nat /\ Cardinality(Open') = Cardinality(Open) - 1
  BY <1>1, OneEditLess
<1>7. EditsCounted'
  BY <1>0, <1>3, <1>4, <1>5 DEF RevisionsIInv, EditsCounted
<1>8. RevisionsTypeOK'
  <2>1. Cardinality(Open') \in Nat
    <3>1. IsFiniteSet(Open) /\ Open' = Open \ {e}
      BY <1>0, EditsAssumption, FS_Subset DEF Open
    <3> QED
      BY <3>1, FS_RemoveElement, FS_CardinalityType
  <2>2. Len(revisions') <= begun'
    BY <1>3, <1>4, <1>5, <1>7, <2>1 DEF EditsCounted
  <2>3. edit' \in [Editors -> [old : Drafts \cup {NoDraft}, new : Drafts \cup {NoDraft}]]
    BY <1>1 DEF RevisionsIInv, RevisionsTypeOK, NoEdit
  <2> QED
    BY <1>3, <1>4, <1>5, <2>2, <2>3 DEF RevisionsIInv, RevisionsTypeOK
<1>9. EditsSound'
  BY <1>0, <1>4 DEF RevisionsIInv, EditsSound
<1>10. OriginalFirst'
  BY <1>3, <1>4, <1>5 DEF RevisionsIInv, OriginalFirst
<1>11. LastDiffers'
  BY <1>3, <1>4, <1>5 DEF LastDiffers
<1>12. HistoryComplete'
  BY <1>3, <1>4, <1>6 DEF RevisionsIInv, HistoryComplete
<1>13. HistoryTrue'
  <2>1. GetPostRevisions' \subseteq shown'
    BY <1>3, <1>4, <1>6 DEF RevisionsIInv, HistoryTrue
  <2>2. ASSUME crossed' = {}, NEW k \in 1..(Len(revisions') - 1)
        PROVE  revisions'[k] # revisions'[k + 1]
    <3>1. crossed = {} /\ old = current
      BY <1>3, <1>4, <2>2
    <3>2. CASE k = Len(revisions)
      BY <1>3, <1>5, <3>1, <3>2 DEF RevisionsIInv, LastDiffers
    <3>3. CASE k \in 1..(Len(revisions) - 1)
      BY <1>3, <1>5, <3>1, <3>3 DEF RevisionsIInv, HistoryTrue
    <3>4. k = Len(revisions) \/ k \in 1..(Len(revisions) - 1)
      <4>1. Len(revisions) \in Nat /\ Len(revisions') = Len(revisions) + 1
        BY <1>3, <1>5
      <4>2. k \in 1..(Len(revisions') - 1)
        BY <2>2
      <4> QED
        BY <4>1, <4>2, LastOrEarlier
    <3> QED
      BY <3>2, <3>3, <3>4
  <2> QED
    BY <2>1, <2>2 DEF HistoryTrue
<1> QED
  BY <1>7, <1>8, <1>9, <1>10, <1>11, <1>12, <1>13 DEF RevisionsIInv

(* Edits, with whatever comes between the read and the write of one,        *)
(* preserve the invariant.                                                  *)
LEMMA RevisionsStep == RevisionsIInv /\ [RevisionsNext]_revisionVars => RevisionsIInv'
<1> SUFFICES ASSUME RevisionsIInv, [RevisionsNext]_revisionVars PROVE RevisionsIInv'
  OBVIOUS
<1>1. CASE UNCHANGED revisionVars
  BY <1>1 DEF revisionVars, RevisionsIInv, RevisionsTypeOK, EditsCounted, EditsSound, Open,
     OriginalFirst, LastDiffers, HistoryComplete, HistoryTrue, GetPostRevisions
<1>2. CASE RevisionsNext
  BY <1>2, EditPostSubmitKeeps, EditFailsKeeps, UpdatePostKeeps DEF RevisionsNext
<1> QED
  BY <1>1, <1>2

(* The history of a post is true and, but for overtaken edits, complete;    *)
(* the text the post was published with is never lost (EditPostSubmit and   *)
(* UpdatePostWithRevision, any number of editors at once).                  *)
THEOREM AlwaysHistoryKept == RevisionsSpec => []HistoryKept
<1>1. RevisionsIInv => HistoryKept
  <2> SUFFICES ASSUME RevisionsIInv PROVE OriginalKept
    BY DEF RevisionsIInv, HistoryKept
  <2>1. CASE revisions = <<>>
    BY <2>1 DEF RevisionsIInv, OriginalFirst, OriginalKept
  <2>2. CASE revisions # <<>>
    <3>1. 1 \in DOMAIN revisions
      BY <2>2 DEF RevisionsIInv, RevisionsTypeOK
    <3> QED
      BY <2>2, <3>1 DEF RevisionsIInv, OriginalFirst, OriginalKept, GetPostRevisions, ToSet
  <2> QED
    BY <2>1, <2>2
<1> QED
  BY <1>1, RevisionsInitIInv, RevisionsStep, PTL DEF RevisionsSpec

-----------------------------------------------------------------------------
(* Hats.                                                                    *)

(* A request that has verified a hat publishes under a hat of its user's.   *)
CallsSound ==
    \A c \in Clients :
        /\ call[c].op \in {"publish", "grant_hat"} => call[c].user \in Members
        /\ call[c].op = "publish" /\ call[c].hat # 0 =>
             call[c].hat \in HatIds /\ hats[call[c].hat].user = call[c].user

WorksSound ==
    \A w \in DOMAIN works :
        works[w].hat # 0 => works[w].hat \in HatIds /\ hats[works[w].hat].user = works[w].author

(* The three sets that GrantsLogged counts. *)
Granted(u) == {h \in HatIds : hats[h].user = u}
Logged(u) == {k \in DOMAIN modlog : modlog[k] = [action |-> "grant_hat", user |-> u]}
Owed(u) == {c \in Clients : call[c].op = "grant_hat" /\ call[c].user = u}

(* The requests that owe the log an entry. *)
Owing == {c \in Clients : call[c].op \in {"grant_hat", "revoke_hat"}}

HatsIInv ==
    /\ HatsTypeOK
    /\ CallsSound
    /\ WorksSound
    /\ OneHatPerLabel
    /\ GrantsLogged

(* What is counted about a user is finite, and its number a natural one.    *)
LEMMA CountsTyped ==
  ASSUME HatsTypeOK, NEW u
  PROVE  /\ IsFiniteSet(Granted(u)) /\ Cardinality(Granted(u)) \in Nat
         /\ IsFiniteSet(Logged(u)) /\ Cardinality(Logged(u)) \in Nat
         /\ IsFiniteSet(Owed(u)) /\ Cardinality(Owed(u)) \in Nat
         /\ IsFiniteSet(Owing) /\ Cardinality(Owing) \in Nat
<1>1. /\ HatIds = 1..Len(hats) /\ DOMAIN modlog = 1..Len(modlog)
      /\ Len(hats) \in Int /\ Len(modlog) \in Int
  BY DEF HatsTypeOK, HatIds
<1>2. IsFiniteSet(HatIds) /\ IsFiniteSet(DOMAIN modlog)
  BY <1>1, FS_Interval
<1>3. /\ Granted(u) \subseteq HatIds /\ Logged(u) \subseteq DOMAIN modlog
      /\ Owed(u) \subseteq Clients /\ Owing \subseteq Clients
  BY DEF Granted, Logged, Owed, Owing
<1>4. /\ IsFiniteSet(Granted(u)) /\ IsFiniteSet(Logged(u))
      /\ IsFiniteSet(Owed(u)) /\ IsFiniteSet(Owing)
  BY <1>2, <1>3, HatsAssumption, FS_Subset
<1> QED
  BY <1>4, FS_CardinalityType

(* Hats stay, and with them their owners. *)
HatsStay ==
    /\ hats' \in Seq(HatRow) /\ Len(hats') <= MaxHats
    /\ HatIds \subseteq HatIds' /\ \A h \in HatIds : hats'[h].user = hats[h].user

(* Without hats there are no wearers and nothing to log.                    *)
LEMMA HatsInitIInv == HatsInit => HatsIInv
<1> SUFFICES ASSUME HatsInit PROVE HatsIInv
  OBVIOUS
<1> USE DEF HatsInit
<1>1. HatsTypeOK
  BY HatsAssumption DEF HatsTypeOK, NoCall
<1>2. CallsSound /\ WorksSound /\ OneHatPerLabel
  BY DEF CallsSound, WorksSound, OneHatPerLabel, HatIds, NoCall
<1>3. GrantsLogged
  <2> SUFFICES ASSUME NEW u \in Members
      PROVE Cardinality(Granted(u)) = 0 /\ Cardinality(Logged(u)) = 0 /\ Cardinality(Owed(u)) = 0
    BY DEF GrantsLogged, Granted, Logged, Owed
  <2>1. Granted(u) = {} /\ Logged(u) = {} /\ Owed(u) = {}
    BY DEF Granted, Logged, Owed, HatIds, NoCall
  <2> QED
    BY <2>1, FS_EmptySet
<1> QED
  BY <1>1, <1>2, <1>3 DEF HatsIInv

(* What is said of requests and works depends on the owners of hats only. *)
LEMMA OwnersSuffice ==
  ASSUME HatsIInv, HatsStay, UNCHANGED works,
         \A c \in Clients : call'[c] = call[c] \/ call'[c].op \notin {"publish", "grant_hat"}
                          \/ (call'[c].op = "grant_hat" /\ call'[c].user \in Members)
  PROVE  CallsSound' /\ WorksSound'
<1>1. CallsSound'
  <2> SUFFICES ASSUME NEW c \in Clients PROVE CallsSound!(c)'
    BY DEF CallsSound
  <2>1. CASE call'[c] = call[c]
    BY <2>1 DEF HatsIInv, CallsSound, HatsStay
  <2>2. CASE call'[c] # call[c]
    BY <2>2
  <2> QED
    BY <2>1, <2>2
<1>2. WorksSound'
  BY DEF HatsIInv, WorksSound, HatsStay
<1> QED
  BY <1>1, <1>2

(* The count of the grants is right if the hats of a user and the entries   *)
(* that are there, due or lost change together.                             *)
LEMMA GrantsCounted ==
  ASSUME HatsIInv, HatsTypeOK',
         \A u \in Members :
            \E n, l, d \in Int :
               /\ Cardinality(Granted(u))' = Cardinality(Granted(u)) + n
               /\ Cardinality(Logged(u))' = Cardinality(Logged(u)) + l
               /\ Cardinality(Owed(u))' = Cardinality(Owed(u)) + d
               /\ l + d <= n /\ n <= l + d + (unlogged' - unlogged)
  PROVE  GrantsLogged'
<1> SUFFICES ASSUME NEW u \in Members
    PROVE  /\ Cardinality(Logged(u))' + Cardinality(Owed(u))' <= Cardinality(Granted(u))'
           /\ Cardinality(Granted(u))' <= Cardinality(Logged(u))' + Cardinality(Owed(u))' + unlogged'
  BY DEF GrantsLogged, Granted, Logged, Owed
<1>1. /\ Cardinality(Logged(u)) + Cardinality(Owed(u)) <= Cardinality(Granted(u))
      /\ Cardinality(Granted(u)) <= Cardinality(Logged(u)) + Cardinality(Owed(u)) + unlogged
  BY DEF HatsIInv, GrantsLogged, Granted, Logged, Owed
<1>2. /\ Cardinality(Logged(u)) \in Nat /\ Cardinality(Owed(u)) \in Nat
      /\ Cardinality(Granted(u)) \in Nat /\ unlogged \in Nat /\ unlogged' \in Nat
  BY CountsTyped DEF HatsIInv, HatsTypeOK
<1>3. PICK n, l, d \in Int :
        /\ Cardinality(Granted(u))' = Cardinality(Granted(u)) + n
        /\ Cardinality(Logged(u))' = Cardinality(Logged(u)) + l
        /\ Cardinality(Owed(u))' = Cardinality(Owed(u)) + d
        /\ l + d <= n /\ n <= l + d + (unlogged' - unlogged)
  OBVIOUS
<1>4. PICK g, k, w \in Nat : /\ g = Cardinality(Granted(u)) /\ k = Cardinality(Logged(u))
                            /\ w = Cardinality(Owed(u))
  BY <1>2
<1>5. /\ Cardinality(Granted(u))' = g + n /\ Cardinality(Logged(u))' = k + l
      /\ Cardinality(Owed(u))' = w + d
  BY <1>3, <1>4
<1>6. k + w <= g /\ g <= k + w + unlogged
  BY <1>1, <1>4
<1>7. (k + l) + (w + d) <= g + n /\ g + n <= (k + l) + (w + d) + unlogged'
  <2>1. PICK x, y \in Nat : x = unlogged /\ y = unlogged'
    BY <1>2
  <2>2. l + d <= n /\ n <= l + d + (y - x) /\ k + w <= g /\ g <= k + w + x
    BY <1>3, <1>6, <2>1
  <2>3. (k + l) + (w + d) <= g + n /\ g + n <= (k + l) + (w + d) + y
    BY ONLY <2>2, n \in Int, l \in Int, d \in Int, g \in Nat, k \in Nat, w \in Nat, x \in Nat, y \in Nat
  <2> QED
    BY <2>1, <2>3
<1> QED
  BY <1>5, <1>7

(* An entry that nothing changes. *)
LEMMA SameCount ==
  ASSUME HatsIInv, NEW u
  PROVE  /\ (UNCHANGED modlog => Logged(u)' = Logged(u))
         /\ (UNCHANGED call => Owed(u)' = Owed(u))
         /\ (UNCHANGED hats => Granted(u)' = Granted(u))
BY DEF Logged, Owed, Granted, HatIds

(* verifyUserHat: the hat is the user's at the time. *)
LEMMA VerifyKeeps ==
  ASSUME HatsIInv, NEW c \in Clients, NEW m \in Members, NEW h \in 0..MaxHats, verifyUserHat(c, m, h)
  PROVE  HatsIInv'
<1> DEFINE new == [op |-> "publish", user |-> m, hat |-> IF UserOwnsHat(m, h) THEN h ELSE 0]
<1>0. UNCHANGED <<hats, works, modlog, revokes, unlogged>> /\ call[c].op = "idle"
  BY DEF verifyUserHat
<1>1. \A d \in Clients : call'[d] = IF d = c THEN new ELSE call[d]
  BY DEF verifyUserHat, HatsIInv, HatsTypeOK
<1>2. HatsTypeOK'
  BY HatsAssumption DEF verifyUserHat, HatsIInv, HatsTypeOK
<1>3. CallsSound'
  <2> SUFFICES ASSUME NEW d \in Clients PROVE CallsSound!(d)'
    BY DEF CallsSound
  <2>1. CASE d = c
    BY <1>0, <1>1, <2>1 DEF UserOwnsHat, HatIds
  <2>2. CASE d # c
    BY <1>0, <1>1, <2>2 DEF HatsIInv, CallsSound, HatIds
  <2> QED
    BY <2>1, <2>2
<1>4. WorksSound' /\ OneHatPerLabel'
  BY <1>0 DEF HatsIInv, WorksSound, OneHatPerLabel, HatIds
<1>5. GrantsLogged'
  <2>1. ASSUME NEW u PROVE Owed(u)' = Owed(u) /\ Granted(u)' = Granted(u) /\ Logged(u)' = Logged(u)
    BY <1>0, <1>1, SameCount DEF Owed
  <2> QED
    BY <1>0, <2>1 DEF HatsIInv, GrantsLogged, Granted, Logged, Owed
<1> QED
  BY <1>2, <1>3, <1>4, <1>5 DEF HatsIInv

(* The request that is done owes nothing. *)
LEMMA PublishKeeps ==
  ASSUME HatsIInv, NEW c \in Clients, Publish(c)
  PROVE  HatsIInv'
<1>0. UNCHANGED <<hats, modlog, revokes, unlogged>> /\ call[c].op = "publish"
  BY DEF Publish
<1>1. \A d \in Clients : call'[d] = IF d = c THEN NoCall ELSE call[d]
  BY DEF Publish, HatsIInv, HatsTypeOK
<1>2. PICK work : /\ work = [author |-> call[c].user, hat |-> call[c].hat]
                  /\ works' = Append(works, work)
  BY DEF Publish
<1>3. /\ work \in [author : Members, hat : 0..MaxHats]
      /\ work.hat # 0 => work.hat \in HatIds /\ hats[work.hat].user = work.author
  BY <1>0, <1>2 DEF HatsIInv, HatsTypeOK, CallsSound
<1>4. /\ works' \in Seq([author : Members, hat : 0..MaxHats]) /\ Len(works') <= MaxWorks
      /\ \A w \in DOMAIN works' :
           works'[w] = work \/ (w \in DOMAIN works /\ works'[w] = works[w])
  <2> DEFINE Work == [author : Members, hat : 0..MaxHats]
  <2>1. /\ works \in Seq(Work) /\ work \in Work /\ works' = Append(works, work)
        /\ Len(works) < MaxWorks
    BY <1>2, <1>3 DEF HatsIInv, HatsTypeOK, Publish
  <2> HIDE DEF Work
  <2>2. works' \in Seq(Work) /\ Len(works') <= MaxWorks
    BY <2>1, HatsAssumption
  <2>3. \A w \in DOMAIN works' : works'[w] = work \/ (w \in DOMAIN works /\ works'[w] = works[w])
    BY <2>1
  <2> QED
    BY <2>2, <2>3 DEF Work
<1>5. HatsTypeOK'
  <2>1. NoCall \in [op : {"idle", "publish", "grant_hat", "revoke_hat"},
                    user : Members \cup {"nobody"}, hat : 0..MaxHats]
    BY HatsAssumption DEF NoCall
  <2> QED
    BY <1>0, <1>4, <2>1 DEF Publish, HatsIInv, HatsTypeOK
<1>6. CallsSound' /\ OneHatPerLabel'
  BY <1>0, <1>1 DEF HatsIInv, CallsSound, OneHatPerLabel, HatIds, NoCall
<1>7. WorksSound'
  BY <1>0, <1>3, <1>4 DEF HatsIInv, WorksSound, HatIds
<1>8. GrantsLogged'
  <2>1. ASSUME NEW u PROVE Owed(u)' = Owed(u) /\ Granted(u)' = Granted(u) /\ Logged(u)' = Logged(u)
    BY <1>0, <1>1, SameCount DEF Owed, NoCall
  <2> QED
    BY <1>0, <2>1 DEF HatsIInv, GrantsLogged, Granted, Logged, Owed
<1> QED
  BY <1>5, <1>6, <1>7, <1>8 DEF HatsIInv

(* A grant: a hat more, and an entry more that is due. *)
LEMMA CreateHatKeeps ==
  ASSUME HatsIInv, NEW c \in Clients, NEW m \in Members, NEW l \in Labels, CreateHat(c, m, l)
  PROVE  HatsIInv'
<1>0. /\ UNCHANGED <<works, modlog, revokes, unlogged>> /\ call[c].op = "idle"
      /\ LabelFree(m, l)
  BY DEF CreateHat
<1> DEFINE hat == [user |-> m, label |-> l, active |-> TRUE]
<1>1. hats' = Append(hats, hat) /\ hat \in HatRow /\ hat.user = m /\ hat.label = l
  BY DEF CreateHat, HatRow
<1> HIDE DEF hat
<1>2. PICK n \in Nat : n = Len(hats)
  BY DEF HatsIInv, HatsTypeOK
<1>3. /\ hats' \in Seq(HatRow) /\ Len(hats') <= MaxHats
      /\ HatIds' = HatIds \cup {n + 1} /\ n + 1 \notin HatIds /\ hats'[n + 1] = hat
      /\ \A h \in HatIds : hats'[h] = hats[h]
  BY <1>1, <1>2, HatsAssumption DEF HatsIInv, HatsTypeOK, HatIds, CreateHat
<1> DEFINE new == [op |-> "grant_hat", user |-> m, hat |-> 0]
<1>4. call' = [call EXCEPT ![c] = new] /\ new.op = "grant_hat" /\ new.user = m
  BY DEF CreateHat
<1>5. \A d \in Clients : call'[d] = IF d = c THEN new ELSE call[d]
  BY <1>4 DEF HatsIInv, HatsTypeOK
<1>6. HatsTypeOK'
  BY <1>0, <1>3, <1>4, HatsAssumption DEF HatsIInv, HatsTypeOK
<1> HIDE DEF new
<1>7. CallsSound' /\ WorksSound'
  <2>1. HatsStay
    BY <1>3 DEF HatsStay
  <2> QED
    BY <1>0, <1>4, <1>5, <2>1, OwnersSuffice
<1>8. OneHatPerLabel'
  <2> SUFFICES ASSUME NEW g \in HatIds', NEW h \in HatIds',
                      hats'[g].user = hats'[h].user, hats'[g].label = hats'[h].label
               PROVE  g = h
    BY DEF OneHatPerLabel
  <2>1. \A k \in HatIds : ~(hats'[k].user = m /\ hats'[k].label = l)
    BY <1>0, <1>3 DEF LabelFree
  <2>2. hats'[n + 1].user = m /\ hats'[n + 1].label = l
    BY <1>1, <1>3
  <2>3. CASE g \in HatIds /\ h \in HatIds
    BY <1>3, <2>3 DEF HatsIInv, OneHatPerLabel
  <2> QED
    BY <1>3, <2>1, <2>2, <2>3
<1>9. GrantsLogged'
  <2> SUFFICES ASSUME NEW u \in Members
      PROVE  \E i \in {0, 1} : /\ Cardinality(Granted(u))' = Cardinality(Granted(u)) + i
                               /\ Cardinality(Logged(u))' = Cardinality(Logged(u)) + 0
                               /\ Cardinality(Owed(u))' = Cardinality(Owed(u)) + i
    <3>1. \A u \in Members : \E i, j, k \in Int :
               /\ Cardinality(Granted(u))' = Cardinality(Granted(u)) + i
               /\ Cardinality(Logged(u))' = Cardinality(Logged(u)) + j
               /\ Cardinality(Owed(u))' = Cardinality(Owed(u)) + k
               /\ j + k <= i /\ i <= j + k + (unlogged' - unlogged)
      <4>1. unlogged' - unlogged = 0
        BY <1>0 DEF HatsIInv, HatsTypeOK
      <4> QED
        BY <4>1
    <3> QED
      BY <1>6, <3>1, GrantsCounted
  <2>1. /\ IsFiniteSet(Granted(u)) /\ IsFiniteSet(Owed(u))
        /\ Cardinality(Granted(u)) \in Nat /\ Cardinality(Owed(u)) \in Nat
        /\ Cardinality(Logged(u)) \in Nat /\ Logged(u)' = Logged(u)
    BY <1>0, CountsTyped, SameCount DEF HatsIInv
  <2>2. CASE u = m
    <3>1. /\ Granted(u)' = Granted(u) \cup {n + 1} /\ n + 1 \notin Granted(u)
          /\ Owed(u)' = Owed(u) \cup {c} /\ c \notin Owed(u)
      <4>1. Granted(u)' = Granted(u) \cup {n + 1} /\ n + 1 \notin Granted(u)
        BY <1>1, <1>3, <2>2 DEF Granted
      <4>2. Owed(u)' = Owed(u) \cup {c} /\ c \notin Owed(u)
        BY <1>0, <1>4, <1>5, <2>2 DEF Owed
      <4> QED
        BY <4>1, <4>2
    <3>2. /\ Cardinality(Granted(u))' = Cardinality(Granted(u)) + 1
          /\ Cardinality(Owed(u))' = Cardinality(Owed(u)) + 1
      BY <2>1, <3>1, FS_AddElement
    <3> QED
      BY <2>1, <3>2
  <2>3. CASE u # m
    <3>1. Granted(u)' = Granted(u) /\ Owed(u)' = Owed(u)
      <4>1. Granted(u)' = Granted(u)
        BY <1>1, <1>3, <2>3 DEF Granted
      <4>2. Owed(u)' = Owed(u)
        BY <1>0, <1>4, <1>5, <2>3 DEF Owed
      <4> QED
        BY <4>1, <4>2
    <3> QED
      BY <2>1, <3>1
  <2> QED
    BY <2>2, <2>3
<1> QED
  BY <1>6, <1>7, <1>8, <1>9 DEF HatsIInv

(* A change of a hat's label or state. *)
LEMMA HatEdited ==
  ASSUME HatsIInv, NEW h \in HatIds, NEW hat \in HatRow, hat.user = hats[h].user,
         hats' = [hats EXCEPT ![h] = hat]
  PROVE  /\ HatsStay /\ HatIds' = HatIds
         /\ \A g \in HatIds : hats'[g] = IF g = h THEN hat ELSE hats[g]
         /\ \A u : Granted(u)' = Granted(u)
<1>1. hats \in Seq(HatRow) /\ Len(hats) <= MaxHats /\ h \in 1..Len(hats)
  BY DEF HatsIInv, HatsTypeOK, HatIds
<1>2. /\ hats' \in Seq(HatRow) /\ Len(hats') = Len(hats) /\ DOMAIN hats' = DOMAIN hats
      /\ \A g \in DOMAIN hats : hats'[g] = IF g = h THEN hat ELSE hats[g]
  BY <1>1
<1>3. HatsStay /\ HatIds' = HatIds
  BY <1>1, <1>2 DEF HatsStay, HatIds
<1>4. \A u : Granted(u)' = Granted(u)
  BY <1>2 DEF Granted, HatIds
<1> QED
  BY <1>2, <1>3, <1>4 DEF HatIds

(* RevokeHat, ReactivateHat: the label stays. *)
LEMMA LabelStays ==
  ASSUME HatsIInv, NEW h \in HatIds, NEW on \in BOOLEAN, hats' = [hats EXCEPT ![h].active = on]
  PROVE  HatsStay /\ OneHatPerLabel' /\ \A u : Granted(u)' = Granted(u)
<1> DEFINE hat == [hats[h] EXCEPT !.active = on]
<1>1. hats[h] \in HatRow
  BY DEF HatsIInv, HatsTypeOK, HatIds
<1>2. /\ hat \in HatRow /\ hat.user = hats[h].user /\ hat.label = hats[h].label
      /\ hats' = [hats EXCEPT ![h] = hat]
  BY <1>1 DEF HatRow
<1> HIDE DEF hat
<1>3. /\ HatsStay /\ HatIds' = HatIds
      /\ \A g \in HatIds : hats'[g] = IF g = h THEN hat ELSE hats[g]
      /\ \A u : Granted(u)' = Granted(u)
  BY <1>2, HatEdited
<1>4. OneHatPerLabel'
  BY <1>2, <1>3 DEF HatsIInv, OneHatPerLabel
<1> QED
  BY <1>3, <1>4

(* RevokeHat: the hat goes, and the log gets the entry that is due.         *)
LEMMA RevokeHatKeeps ==
  ASSUME HatsIInv, NEW c \in Clients, NEW h \in HatIds, RevokeHat(c, h)
  PROVE  HatsIInv'
<1> DEFINE new == [op |-> "revoke_hat", user |-> "nobody", hat |-> 0]
<1>0. /\ UNCHANGED <<works, modlog, unlogged>> /\ call[c].op = "idle"
      /\ hats' = [hats EXCEPT ![h].active = FALSE]
      /\ revokes' = revokes + 1 /\ revokes < MaxRevokes
      /\ call' = [call EXCEPT ![c] = new]
  BY DEF RevokeHat
<1>1. /\ new \in [op : {"idle", "publish", "grant_hat", "revoke_hat"},
                  user : Members \cup {"nobody"}, hat : 0..MaxHats]
      /\ new.op = "revoke_hat"
  BY HatsAssumption
<1> HIDE DEF new
<1>2. \A d \in Clients : call'[d] = IF d = c THEN new ELSE call[d]
  BY <1>0 DEF HatsIInv, HatsTypeOK
<1>3. HatsStay /\ OneHatPerLabel' /\ \A u : Granted(u)' = Granted(u)
  BY <1>0, LabelStays
<1>4. HatsTypeOK'
  BY SMTT(30), <1>0, <1>1, <1>3, HatsAssumption DEF HatsIInv, HatsTypeOK, HatsStay
<1>5. CallsSound' /\ WorksSound'
  BY <1>0, <1>1, <1>2, <1>3, OwnersSuffice
<1>6. GrantsLogged'
  <2>1. ASSUME NEW u PROVE Owed(u)' = Owed(u) /\ Logged(u)' = Logged(u)
    BY <1>0, <1>1, <1>2, SameCount DEF Owed
  <2> QED
    BY <1>0, <1>3, <2>1 DEF HatsIInv, GrantsLogged, Granted, Logged, Owed
<1> QED
  BY <1>3, <1>4, <1>5, <1>6 DEF HatsIInv

(* What only changes hats keeps the rest. *)
LEMMA HatsOnly ==
  ASSUME HatsIInv, HatsStay, OneHatPerLabel', \A u : Granted(u)' = Granted(u),
         UNCHANGED <<works, modlog, call, revokes, unlogged>>
  PROVE  HatsIInv'
<1>1. HatsTypeOK'
  BY DEF HatsIInv, HatsTypeOK, HatsStay
<1>2. CallsSound' /\ WorksSound'
  BY OwnersSuffice
<1>3. GrantsLogged'
  <2>1. ASSUME NEW u PROVE Owed(u)' = Owed(u) /\ Logged(u)' = Logged(u)
    BY SameCount
  <2> QED
    BY <2>1 DEF HatsIInv, GrantsLogged, Granted, Logged, Owed
<1> QED
  BY <1>1, <1>2, <1>3 DEF HatsIInv

(* UpdateHat changes the label and nobody's right to it.                    *)
LEMMA UpdateHatKeeps ==
  ASSUME HatsIInv, NEW h \in HatIds, NEW l \in Labels, UpdateHat(h, l)
  PROVE  HatsIInv'
<1> DEFINE hat == [hats[h] EXCEPT !.label = l]
<1>0. /\ LabelFree(hats[h].user, l) /\ hats' = [hats EXCEPT ![h] = hat]
      /\ UNCHANGED <<works, modlog, call, revokes, unlogged>>
  BY DEF UpdateHat
<1>1. hats[h] \in HatRow
  BY DEF HatsIInv, HatsTypeOK, HatIds
<1>2. hat \in HatRow /\ hat.user = hats[h].user /\ hat.label = l
  BY <1>1 DEF HatRow
<1> HIDE DEF hat
<1>3. /\ HatsStay /\ HatIds' = HatIds
      /\ \A g \in HatIds : hats'[g] = IF g = h THEN hat ELSE hats[g]
      /\ \A u : Granted(u)' = Granted(u)
  BY <1>0, <1>2, HatEdited
<1>4. OneHatPerLabel'
  BY <1>0, <1>2, <1>3 DEF HatsIInv, OneHatPerLabel, LabelFree
<1> QED
  BY <1>0, <1>3, <1>4, HatsOnly

(* ReactivateHat: a revoked hat is worn again.                              *)
LEMMA ReactivateHatKeeps ==
  ASSUME HatsIInv, NEW h \in HatIds, ReactivateHat(h)
  PROVE  HatsIInv'
<1>1. /\ hats' = [hats EXCEPT ![h].active = TRUE]
      /\ UNCHANGED <<works, modlog, call, revokes, unlogged>>
  BY DEF ReactivateHat
<1>2. HatsStay /\ OneHatPerLabel' /\ \A u : Granted(u)' = Granted(u)
  BY <1>1, LabelStays
<1> QED
  BY <1>1, <1>2, HatsOnly

(* An entry that is due is written or lost. *)
LEMMA LogModerationKeeps ==
  ASSUME HatsIInv, NEW c \in Clients, LogModeration(c)
  PROVE  HatsIInv'
<1> DEFINE entry == [action |-> call[c].op, user |-> call[c].user]
<1>0. /\ UNCHANGED <<hats, works, revokes>> /\ call[c].op \in {"grant_hat", "revoke_hat"}
      /\ call' = [call EXCEPT ![c] = NoCall]
      /\ \/ modlog' = Append(modlog, entry) /\ unlogged' = unlogged
         \/ unlogged' = unlogged + 1 /\ modlog' = modlog
  BY DEF LogModeration
<1> DEFINE Entry == [action : {"grant_hat", "revoke_hat"}, user : Members \cup {"nobody"}]
<1>1. /\ entry \in Entry /\ modlog \in Seq(Entry) /\ unlogged \in Nat
      /\ \A u : entry = [action |-> "grant_hat", user |-> u] <=> c \in Owed(u)
  BY <1>0 DEF HatsIInv, HatsTypeOK, Owed
<1>2. /\ NoCall \in [op : {"idle", "publish", "grant_hat", "revoke_hat"},
                     user : Members \cup {"nobody"}, hat : 0..MaxHats]
      /\ NoCall.op = "idle"
  BY HatsAssumption DEF NoCall
<1>3. \A d \in Clients : call'[d] = IF d = c THEN NoCall ELSE call[d]
  BY <1>0 DEF HatsIInv, HatsTypeOK
<1> HIDE DEF entry, Entry
<1>4. HatsTypeOK'
  <2>1. modlog' \in Seq(Entry) /\ unlogged' \in Nat
    BY SMTT(30), <1>0, <1>1
  <2> QED
    BY <1>0, <1>2, <2>1 DEF HatsIInv, HatsTypeOK, Entry
<1>5. CallsSound' /\ WorksSound' /\ OneHatPerLabel'
  <2>1. HatsStay
    BY <1>0 DEF HatsIInv, HatsTypeOK, HatsStay, HatIds
  <2>2. OneHatPerLabel'
    BY <1>0 DEF HatsIInv, OneHatPerLabel, HatIds
  <2> QED
    BY <1>0, <1>2, <1>3, <2>1, <2>2, OwnersSuffice
<1>6. GrantsLogged'
  <2> SUFFICES ASSUME NEW u \in Members
      PROVE  \E n, l, d \in Int :
               /\ Cardinality(Granted(u))' = Cardinality(Granted(u)) + n
               /\ Cardinality(Logged(u))' = Cardinality(Logged(u)) + l
               /\ Cardinality(Owed(u))' = Cardinality(Owed(u)) + d
               /\ l + d <= n /\ n <= l + d + (unlogged' - unlogged)
    BY <1>4, GrantsCounted
  <2>1. /\ IsFiniteSet(Logged(u)) /\ IsFiniteSet(Owed(u)) /\ Cardinality(Granted(u)) \in Nat
        /\ Cardinality(Owed(u)) \in Nat /\ Cardinality(Logged(u)) \in Nat
        /\ Granted(u)' = Granted(u)
    BY <1>0, CountsTyped, SameCount DEF HatsIInv
  <2>2. Owed(u)' = Owed(u) \ {c}
    BY <1>2, <1>3 DEF Owed
  <2>3. Cardinality(Owed(u))' = Cardinality(Owed(u)) + IF c \in Owed(u) THEN -1 ELSE 0
    <3>1. Cardinality(Owed(u) \ {c})
            = IF c \in Owed(u) THEN Cardinality(Owed(u)) - 1 ELSE Cardinality(Owed(u))
      BY <2>1, FS_RemoveElement
    <3>2. PICK d \in Nat : d = Cardinality(Owed(u))
      BY <2>1
    <3>3. /\ c \in Owed(u) => Cardinality(Owed(u) \ {c}) = d + (-1)
          /\ c \notin Owed(u) => Cardinality(Owed(u) \ {c}) = d + 0
      BY <3>1, <3>2
    <3> QED
      BY <2>2, <3>2, <3>3
  <2>4. CASE modlog' = Append(modlog, entry) /\ unlogged' = unlogged
    <3>1. PICK k \in Nat : k = Len(modlog)
      BY <1>1
    <3>2. /\ DOMAIN modlog' = DOMAIN modlog \cup {k + 1} /\ k + 1 \notin DOMAIN modlog
          /\ modlog'[k + 1] = entry /\ \A i \in DOMAIN modlog : modlog'[i] = modlog[i]
      BY <1>1, <2>4, <3>1
    <3>3. /\ Logged(u)' = IF c \in Owed(u) THEN Logged(u) \cup {k + 1} ELSE Logged(u)
          /\ k + 1 \notin Logged(u)
      BY <1>1, <3>2 DEF Logged
    <3>4. Cardinality(Logged(u))' = Cardinality(Logged(u)) + IF c \in Owed(u) THEN 1 ELSE 0
      <4>1. Cardinality(Logged(u) \cup {k + 1}) = Cardinality(Logged(u)) + 1
        BY <2>1, <3>3, FS_AddElement
      <4>2. PICK l \in Nat : l = Cardinality(Logged(u))
        BY <2>1
      <4> QED
        BY <3>3, <4>1, <4>2
    <3>5. unlogged' - unlogged = 0
      BY <1>1, <2>4
    <3> QED
      BY <2>1, <2>3, <3>4, <3>5
  <2>5. CASE unlogged' = unlogged + 1 /\ modlog' = modlog
    <3>1. Logged(u)' = Logged(u) /\ unlogged' - unlogged = 1
      BY <1>1, <2>5 DEF Logged
    <3> QED
      BY <2>1, <2>3, <3>1
  <2> QED
    BY <1>0, <2>4, <2>5
<1> QED
  BY <1>4, <1>5, <1>6 DEF HatsIInv

(* The entries of the requests that are cut off are lost, those of one user *)
(* among them.                                                              *)
LEMMA ServerEndsKeeps ==
  ASSUME HatsIInv, ServerEnds
  PROVE  HatsIInv'
<1>0. /\ UNCHANGED <<hats, works, modlog, revokes>> /\ call' = [c \in Clients |-> NoCall]
      /\ unlogged' = unlogged + Cardinality(Owing)
  BY DEF ServerEnds, Owing
<1>1. unlogged \in Nat /\ IsFiniteSet(Owing) /\ Cardinality(Owing) \in Nat
  BY CountsTyped DEF HatsIInv, HatsTypeOK
<1>2. /\ NoCall \in [op : {"idle", "publish", "grant_hat", "revoke_hat"},
                     user : Members \cup {"nobody"}, hat : 0..MaxHats]
      /\ NoCall.op = "idle"
  BY HatsAssumption DEF NoCall
<1>3. HatsTypeOK'
  BY <1>0, <1>1, <1>2 DEF HatsIInv, HatsTypeOK
<1>4. CallsSound' /\ WorksSound' /\ OneHatPerLabel'
  BY <1>0, <1>2 DEF HatsIInv, CallsSound, WorksSound, OneHatPerLabel, HatIds
<1>5. GrantsLogged'
  <2> SUFFICES ASSUME NEW u \in Members
      PROVE  \E n, l, d \in Int :
               /\ Cardinality(Granted(u))' = Cardinality(Granted(u)) + n
               /\ Cardinality(Logged(u))' = Cardinality(Logged(u)) + l
               /\ Cardinality(Owed(u))' = Cardinality(Owed(u)) + d
               /\ l + d <= n /\ n <= l + d + (unlogged' - unlogged)
    BY <1>3, GrantsCounted
  <2>1. PICK g, k, d, o \in Nat : /\ g = Cardinality(Granted(u)) /\ k = Cardinality(Logged(u))
                                  /\ d = Cardinality(Owed(u)) /\ o = Cardinality(Owing)
    BY CountsTyped DEF HatsIInv
  <2>2. Granted(u)' = Granted(u) /\ Logged(u)' = Logged(u)
    BY <1>0, SameCount
  <2>3. Owed(u)' = {} /\ Owed(u) \subseteq Owing
    BY <1>0, <1>2 DEF Owed, Owing
  <2>4. Cardinality(Owed(u))' = 0 /\ d <= o
    BY <1>1, <2>1, <2>3, FS_Subset, FS_EmptySet
  <2>5. unlogged' - unlogged = o
    BY <1>0, <1>1, <2>1
  <2>6. /\ Cardinality(Granted(u))' = g + 0 /\ Cardinality(Logged(u))' = k + 0
        /\ Cardinality(Owed(u))' = d + (-d) /\ -d \in Int
        /\ 0 + (-d) <= 0 /\ 0 <= 0 + (-d) + (unlogged' - unlogged)
    BY <2>1, <2>2, <2>4, <2>5
  <2> QED
    BY <2>1, <2>6
<1> QED
  BY <1>3, <1>4, <1>5 DEF HatsIInv

(* Every request about hats preserves the invariant.                        *)
LEMMA HatsStep == HatsIInv /\ [HatsNext]_hatVars => HatsIInv'
<1> SUFFICES ASSUME HatsIInv, [HatsNext]_hatVars PROVE HatsIInv'
  OBVIOUS
<1>1. CASE UNCHANGED hatVars
  BY ZenonT(40), <1>1 DEF hatVars, HatsIInv, HatsTypeOK, CallsSound, WorksSound, OneHatPerLabel, GrantsLogged, HatIds
<1>2. CASE HatsNext
  BY <1>2, VerifyKeeps, PublishKeeps, CreateHatKeeps, RevokeHatKeeps, UpdateHatKeeps,
     ReactivateHatKeeps, LogModerationKeeps, ServerEndsKeeps DEF HatsNext
<1> QED
  BY <1>1, <1>2

(* Nobody speaks under another's hat, nobody has a hat twice, and the log   *)
(* tells of every grant that was not lost to an error or an end (the hat    *)
(* handlers of handlers/admin.go, SubmitPost and SubmitComment, any number  *)
(* of them at once).                                                        *)
THEOREM AlwaysHatsInOrder == HatsSpec => []HatsInOrder
<1>1. HatsIInv => HatsInOrder
  <2> SUFFICES ASSUME HatsIInv PROVE HatBelongsToAuthor
    BY DEF HatsIInv, HatsInOrder
  <2> QED
    BY DEF HatsIInv, WorksSound, HatBelongsToAuthor, HatShown, GetUserHats
<1> QED
  BY <1>1, HatsInitIInv, HatsStep, PTL DEF HatsSpec

-----------------------------------------------------------------------------
(* The feeds: imports.                                                      *)

PollPcs == {"fetch", "item", "create", "record", "finish"}
QueueRow == [id : Feeds, limit : Nat]
Poller == [pc : PollPcs \cup {"idle", "start", "next", "select", "exit"}, queue : Seq(QueueRow),
           feed : Feeds \cup {NoFeed}, limit : Nat, doc : Seq(Guids \cup {NoGuid}),
           post : Nat, imported : Nat]

(* A goroutine in the middle of an import has an item in hand, and its post *)
(* once that is inserted; a poll under way has room for one more item.      *)
ImportSound(q, saved) ==
    /\ q.pc \in PollPcs => q.feed \in Feeds
    /\ q.pc \in {"create", "record"} => q.doc # <<>> /\ Head(q.doc) \in Guids
    /\ q.pc = "record" => [id |-> q.post, feed |-> q.feed, guid |-> Head(q.doc)] \in saved
    /\ q.pc \in {"fetch", "item", "create", "record"} => q.limit = 0 \/ q.imported < q.limit
    /\ q.limit > 0 => q.imported <= q.limit

ImportsSound ==
    /\ proc \in [Procs -> Poller]
    /\ \A p \in Procs : ImportSound(proc[p], posts)
    /\ server = "down" => \A p \in Procs : proc[p].pc = "idle"
    /\ IsFiniteSet(posts)

(* As long as nothing came between the statements of an import: polls of a  *)
(* feed do not overlap,                                                     *)
PollsApart ==
    \A p, q \in Procs : p # q /\ Polling(p) /\ Polling(q) => proc[p].feed # proc[q].feed

(* a feed in work has its row,                                              *)
RowsKept ==
    \A p \in Procs :
        /\ Polling(p) => feed[proc[p].feed].st = "row"
        /\ \A k \in DOMAIN proc[p].queue : feed[proc[p].queue[k].id].st = "row"

(* a post of a feed that is not gone is recorded, or about to be,           *)
Recording(p, f, g) == proc[p].pc = "record" /\ proc[p].feed = f /\ Head(proc[p].doc) = g
PostsRecorded ==
    \A a \in posts :
        \/ feed[a.feed].st = "gone" \/ Imported(a.feed, a.guid)
        \/ \E p \in Procs : Recording(p, a.feed, a.guid)

(* and a post is inserted only for an item without one.                     *)
ItemsMissing ==
    \A p \in Procs : proc[p].pc = "create" => ~Imported(proc[p].feed, Head(proc[p].doc))

Undisturbed ==
    ~disturbed => PollsApart /\ RowsKept /\ PostsRecorded /\ ItemsMissing /\ ImportedOnce

FeedsIInv ==
    /\ TypeOK
    /\ ImportsSound
    /\ ItemsHavePosts
    /\ Undisturbed

(* What a goroutine that polls is. *)
LEMMA PollerIs ==
  ASSUME FeedsIInv, NEW p \in Procs
  PROVE  /\ proc \in [Procs -> Poller] /\ proc[p] \in Poller /\ ImportSound(proc[p], posts)
         /\ proc[p].pc \in PollPcs \cup {"idle", "start", "next", "select", "exit"}
         /\ proc[p].queue \in Seq(QueueRow) /\ proc[p].feed \in Feeds \cup {NoFeed}
         /\ proc[p].limit \in Nat /\ proc[p].doc \in Seq(Guids \cup {NoGuid})
         /\ proc[p].post \in Nat /\ proc[p].imported \in Nat
<1>1. proc \in [Procs -> Poller] /\ ImportSound(proc[p], posts)
  BY DEF FeedsIInv, ImportsSound
<1>2. proc[p] \in Poller
  BY <1>1
<1> QED
  BY <1>1, <1>2 DEF Poller

(* A goroutine polls at the program points of pollFeed.                     *)
LEMMA PollingIs ==
  ASSUME NEW p
  PROVE  Polling(p) <=> proc[p].pc \in PollPcs
  BY DEF Polling, PollPcs

(* A goroutine moves; the tables follow.                                    *)
LEMMA PollerStep ==
  ASSUME FeedsIInv, NEW p \in Procs, NEW new \in Poller, proc' = [proc EXCEPT ![p] = new],
         server' = server, server # "down", feed' \in [Feeds -> FeedRow],
         posts \subseteq posts', posts' \subseteq PostRow, IsFiniteSet(posts'),
         items' \subseteq ItemRow, ItemsHavePosts', disturbed' \in BOOLEAN,
         ImportSound(new, posts'), Undisturbed'
  PROVE  FeedsIInv'
<1>1. proc \in [Procs -> Poller] /\ server \in {"up", "stopping", "draining", "down"}
  BY DEF FeedsIInv, ImportsSound, TypeOK
<1>2. proc' \in [Procs -> Poller] /\ proc'[p] = new /\ \A q \in Procs \ {p} : proc'[q] = proc[q]
  BY <1>1
<1>3. \A q \in Procs : ImportSound(proc'[q], posts')
  <2> SUFFICES ASSUME NEW q \in Procs \ {p} PROVE ImportSound(proc[q], posts')
    BY <1>2
  <2> QED
    BY PollerIs DEF ImportSound
<1>4. ImportsSound'
  BY <1>2, <1>3 DEF ImportsSound, ImportSound
<1>5. TypeOK'
  <2>1. ASSUME NEW q \in Procs
        PROVE  /\ proc'[q].pc \in {"idle", "start", "next", "select", "exit",
                                   "fetch", "item", "create", "record", "finish"}
               /\ Polling(q)' => proc'[q].feed \in Feeds /\ proc'[q].limit \in Nat
               /\ proc'[q].doc \in Seq(Guids \cup {NoGuid})
    <3>1. proc'[q] \in Poller /\ (proc'[q].pc \in PollPcs => proc'[q].feed \in Feeds)
      BY <1>2, <1>3 DEF ImportSound
    <3> QED
      BY <3>1 DEF Poller, PollPcs, Polling
  <2> QED
    BY <1>1, <2>1 DEF TypeOK
<1> QED
  BY <1>4, <1>5 DEF FeedsIInv

(* A goroutine moves between the statements of its imports. *)
LEMMA PollerMoves ==
  ASSUME FeedsIInv, NEW p \in Procs, NEW new \in Poller, proc' = [proc EXCEPT ![p] = new],
         server' = server, server # "down", posts' = posts, items' = items,
         feed' \in [Feeds -> FeedRow], \A f \in Feeds : feed'[f].st = feed[f].st,
         disturbed' \in BOOLEAN, disturbed => disturbed',
         ImportSound(new, posts), proc[p].pc # "record", new.pc # "record",
         ~disturbed' =>
           /\ new.pc \in PollPcs =>
                \/ proc[p].pc \in PollPcs /\ new.feed = proc[p].feed
                \/ feed[new.feed].st = "row" /\ \A q \in Procs \ {p} : Polling(q) => proc[q].feed # new.feed
           /\ \A k \in DOMAIN new.queue : feed[new.queue[k].id].st = "row"
           /\ new.pc = "create" => ~Imported(new.feed, Head(new.doc))
  PROVE  FeedsIInv'
<1>1. proc \in [Procs -> Poller] /\ posts \subseteq PostRow /\ items \subseteq ItemRow /\ IsFiniteSet(posts)
  BY DEF FeedsIInv, ImportsSound, TypeOK
<1>2. proc' \in [Procs -> Poller] /\ proc'[p] = new /\ \A q \in Procs \ {p} : proc'[q] = proc[q]
  BY <1>1
<1>3. \A f, g : Imported(f, g)' <=> Imported(f, g)
  BY DEF Imported
<1>4. Undisturbed'
  <2> SUFFICES ASSUME ~disturbed'
               PROVE  PollsApart' /\ RowsKept' /\ PostsRecorded' /\ ItemsMissing' /\ ImportedOnce'
    BY DEF Undisturbed
  <2>1. PollsApart /\ RowsKept /\ PostsRecorded /\ ItemsMissing /\ ImportedOnce
    BY DEF FeedsIInv, Undisturbed
  <2>2. \A q \in Procs \ {p} : (Polling(q)' <=> Polling(q)) /\ proc'[q].feed = proc[q].feed
    BY <1>2, PollingIs DEF Polling
  <2>3. Polling(p)' <=> new.pc \in PollPcs
    BY <1>2 DEF Polling, PollPcs
  <2>4. new.pc \in PollPcs => new.feed \in Feeds
    BY DEF ImportSound
  <2>5. new.pc \in PollPcs =>
          feed[new.feed].st = "row" /\ \A q \in Procs \ {p} : Polling(q) => proc[q].feed # new.feed
    BY <2>1, PollingIs DEF PollsApart, RowsKept
  <2>6. PollsApart'
    <3> SUFFICES ASSUME NEW q \in Procs, NEW r \in Procs, q # r, Polling(q)', Polling(r)'
                 PROVE  proc'[q].feed # proc'[r].feed
      BY DEF PollsApart
    <3>1. CASE q # p /\ r # p
      BY <2>1, <2>2, <3>1 DEF PollsApart
    <3>2. CASE q = p
      BY <1>2, <2>2, <2>3, <2>5, <3>2
    <3>3. CASE r = p
      BY <1>2, <2>2, <2>3, <2>5, <3>3
    <3> QED
      BY <3>1, <3>2, <3>3
  <2>7. RowsKept'
    <3> SUFFICES ASSUME NEW q \in Procs
                 PROVE  /\ Polling(q)' => feed'[proc'[q].feed].st = "row"
                        /\ \A k \in DOMAIN proc'[q].queue : feed'[proc'[q].queue[k].id].st = "row"
      BY DEF RowsKept
    <3>1. proc'[q] \in Poller
      BY <1>2
    <3>2. \A k \in DOMAIN proc'[q].queue : proc'[q].queue[k].id \in Feeds
      <4>1. proc'[q].queue \in Seq(QueueRow)
        BY <3>1 DEF Poller
      <4>2. \A k \in DOMAIN proc'[q].queue : proc'[q].queue[k] \in QueueRow
        BY <4>1
      <4> QED
        BY <4>2 DEF QueueRow
    <3>3. CASE q = p
      BY <1>2, <2>3, <2>4, <2>5, <3>2, <3>3
    <3>4. CASE q # p
      <4>1. Polling(q) => proc[q].feed \in Feeds
        BY PollerIs, PollingIs DEF ImportSound
      <4> QED
        BY <1>2, <2>1, <2>2, <3>2, <3>4, <4>1 DEF RowsKept
    <3> QED
      BY <3>3, <3>4
  <2>8. PostsRecorded'
    <3> SUFFICES ASSUME NEW a \in posts
                 PROVE  \/ feed'[a.feed].st = "gone" \/ Imported(a.feed, a.guid)
                        \/ \E q \in Procs : Recording(q, a.feed, a.guid)'
      BY <1>3 DEF PostsRecorded
    <3>1. a.feed \in Feeds
      BY <1>1 DEF PostRow
    <3>2. \A q \in Procs : Recording(q, a.feed, a.guid) => Recording(q, a.feed, a.guid)'
      BY <1>2 DEF Recording
    <3> QED
      BY <2>1, <3>1, <3>2 DEF PostsRecorded
  <2>9. ItemsMissing'
    BY <1>2, <1>3, <2>1 DEF ItemsMissing
  <2> QED
    BY <2>1, <2>6, <2>7, <2>8, <2>9 DEF ImportedOnce
<1>5. ItemsHavePosts'
  BY DEF FeedsIInv, ItemsHavePosts
<1> QED
  BY <1>1, <1>4, <1>5, PollerStep

(* A goroutine that does not poll yet. *)
LEMMA PollerIdle ==
  /\ Idle \in Poller /\ Idle.pc = "idle" /\ Idle.queue = <<>> /\ Idle.limit = 0
  /\ Idle.imported = 0 /\ ImportSound(Idle, posts)
<1>1. Idle \in Poller /\ Idle.pc = "idle" /\ Idle.queue = <<>> /\ Idle.limit = 0 /\ Idle.imported = 0
  BY DEF Idle, Poller
<1> QED
  BY <1>1 DEF ImportSound, PollPcs

(* The poll of a feed begins: it is disturbed if another one is under way. *)
LEMMA PollFeedKeeps ==
  ASSUME FeedsIInv, NEW p \in Procs, NEW row \in QueueRow, NEW rest \in Seq(QueueRow),
         PollFeed(p, row, rest), UNCHANGED <<feed, items, posts, server>>, server # "down",
         proc[p].pc # "record",
         ~disturbed => /\ feed[row.id].st = "row"
                       /\ \A k \in DOMAIN rest : feed[rest[k].id].st = "row"
  PROVE  FeedsIInv'
<1> DEFINE new == [Idle EXCEPT !.pc = "fetch", !.queue = rest, !.feed = row.id, !.limit = row.limit]
<1>1. row.id \in Feeds /\ row.limit \in Nat
  BY DEF QueueRow
<1>3. proc' = [proc EXCEPT ![p] = new]
  BY DEF PollFeed
<1>4. /\ new \in Poller /\ new.pc = "fetch" /\ new.feed = row.id /\ new.queue = rest
      /\ new.limit = row.limit /\ new.imported = 0
  BY <1>1, PollerIdle DEF Poller, PollPcs
<1> HIDE DEF new
<1>5. ImportSound(new, posts)
  BY <1>1, <1>4 DEF ImportSound
<1>6. disturbed' = (disturbed \/ \E q \in Procs \ {p} : Polling(q) /\ proc[q].feed = row.id)
  BY DEF PollFeed, Disturb
<1>7. disturbed \in BOOLEAN /\ feed \in [Feeds -> FeedRow]
  BY DEF FeedsIInv, TypeOK
<1>8. disturbed' \in BOOLEAN /\ (disturbed => disturbed')
  BY <1>6, <1>7
<1>9. ~disturbed' => ~disturbed /\ \A q \in Procs \ {p} : Polling(q) => proc[q].feed # row.id
  BY <1>6, <1>7
<1> QED
  BY <1>3, <1>4, <1>5, <1>7, <1>8, <1>9, PollerMoves

(* On to the next item. *)
LEMMA ContinueIs ==
  ASSUME FeedsIInv, NEW p \in Procs, proc[p].doc # <<>>
  PROVE  \E new \in Poller :
           /\ Continue(p) = [proc EXCEPT ![p] = new]
           /\ new = [proc[p] EXCEPT !.pc = "item", !.doc = Tail(proc[p].doc), !.post = 0]
           /\ new.pc = "item" /\ new.feed = proc[p].feed /\ new.queue = proc[p].queue
           /\ new.limit = proc[p].limit /\ new.imported = proc[p].imported
<1> DEFINE new == [proc[p] EXCEPT !.pc = "item", !.doc = Tail(proc[p].doc), !.post = 0]
<1>1. proc \in [Procs -> Poller] /\ proc[p] \in Poller
  BY PollerIs
<1>2. Tail(proc[p].doc) \in Seq(Guids \cup {NoGuid})
  BY PollerIs
<1>3. Continue(p) = [proc EXCEPT ![p] = new]
  BY <1>1 DEF Continue
<1>4. /\ new \in Poller
      /\ new.pc = "item" /\ new.feed = proc[p].feed /\ new.queue = proc[p].queue
      /\ new.limit = proc[p].limit /\ new.imported = proc[p].imported
  BY <1>1, <1>2 DEF Poller, PollPcs
<1> QED
  BY <1>3, <1>4

(* What the invariant says of the tables, and that they are finite.         *)
LEMMA FeedsTyped ==
  ASSUME FeedsIInv
  PROVE  /\ feed \in [Feeds -> FeedRow] /\ items \subseteq ItemRow /\ posts \subseteq PostRow
         /\ server \in {"up", "stopping", "draining", "down"} /\ disturbed \in BOOLEAN
         /\ IsFiniteSet(posts) /\ Cardinality(posts) \in Nat
         /\ (server # "down" <=> Alive) /\ Loop \in Procs /\ Reqs \subseteq Procs
  BY FS_CardinalityType DEF FeedsIInv, TypeOK, ImportsSound, Alive, Procs

(* The queue of a poll: the rows that are due. *)
LEMMA DueRows ==
  ASSUME FeedsIInv,
         NEW q \in SetToSeqs({[id |-> f, limit |-> feed[f].limit] : f \in {g \in Feeds : Due(g)}})
  PROVE  q \in Seq(QueueRow) /\ \A k \in DOMAIN q : feed[q[k].id].st = "row"
<1> DEFINE D == {g \in Feeds : Due(g)}
           S == {[id |-> f, limit |-> feed[f].limit] : f \in D}
           b == [f \in D |-> [id |-> f, limit |-> feed[f].limit]]
<1>1. IsFiniteSet(D)
  BY FeedsAssumption, FS_Subset
<1>2. b \in Surjection(D, S)
  BY DEF Surjection
<1>3. IsFiniteSet(S) /\ Cardinality(S) \in Nat
  <2> HIDE DEF b, D, S
  <2> QED
    BY <1>1, <1>2, FS_Surjection, FS_CardinalityType
<1>4. S \subseteq QueueRow
  <2>1. \A f \in Feeds : feed[f] \in FeedRow
    BY FeedsTyped
  <2> QED
    BY <2>1 DEF FeedRow, QueueRow
<1>5. \A x \in S : feed[x.id].st = "row"
  BY DEF Due
<1>6. q \in [1..Cardinality(S) -> S]
  BY DEF SetToSeqs
<1> HIDE DEF S
<1>7. q \in Seq(QueueRow)
  BY <1>3, <1>4, <1>6
<1>8. \A k \in DOMAIN q : q[k] \in S
  BY <1>6
<1> QED
  BY <1>5, <1>7, <1>8

(* pollAll reads its rows, or cannot. *)
LEMMA PollAllKeeps ==
  ASSUME FeedsIInv, PollAll \/ PollAllFails
  PROVE  FeedsIInv'
<1>1. /\ Loop \in Procs /\ server # "down" /\ proc[Loop].pc \in {"start", "select"}
      /\ server' = server /\ posts' = posts /\ items' = items /\ feed' = feed /\ disturbed' = disturbed
      /\ feed \in [Feeds -> FeedRow] /\ disturbed \in BOOLEAN
  BY FeedsTyped DEF PollAll, PollAllFails, Alive
<1>2. CASE PollAll
  <2> PICK q \in SetToSeqs({[id |-> f, limit |-> feed[f].limit] : f \in {g \in Feeds : Due(g)}}) :
         proc' = [proc EXCEPT ![Loop] = [Idle EXCEPT !.pc = "next", !.queue = q]]
    BY <1>2 DEF PollAll
  <2> DEFINE new == [Idle EXCEPT !.pc = "next", !.queue = q]
  <2>1. q \in Seq(QueueRow) /\ \A k \in DOMAIN q : feed[q[k].id].st = "row"
    BY DueRows
  <2>2. new \in Poller /\ new.pc = "next" /\ new.queue = q /\ new.limit = 0
    BY <2>1, PollerIdle DEF Poller, PollPcs
  <2> HIDE DEF new
  <2>3. ImportSound(new, posts) /\ new.pc \notin PollPcs
    BY <2>2 DEF ImportSound, PollPcs
  <2> QED
    BY <1>1, <2>1, <2>2, <2>3, PollerMoves DEF new
<1>3. CASE PollAllFails
  <2> DEFINE new == [Idle EXCEPT !.pc = "select"]
  <2>1. new \in Poller /\ new.pc = "select" /\ new.queue = <<>> /\ new.limit = 0
    BY PollerIdle DEF Poller, PollPcs
  <2>2. proc' = [proc EXCEPT ![Loop] = new]
    BY <1>3 DEF PollAllFails
  <2> HIDE DEF new
  <2>3. ImportSound(new, posts) /\ new.pc \notin PollPcs
    BY <2>1 DEF ImportSound, PollPcs
  <2>4. \A k \in DOMAIN new.queue : feed[new.queue[k].id].st = "row"
    BY <2>1
  <2> QED
    BY <1>1, <2>1, <2>2, <2>3, <2>4, PollerMoves
<1> QED
  BY <1>2, <1>3

(* A goroutine goes on to a place outside of a poll. *)
LEMMA GoesOn ==
  ASSUME FeedsIInv, NEW p \in Procs, proc[p].pc \notin PollPcs, server # "down",
         NEW pc \in {"select", "exit"}, proc' = [proc EXCEPT ![p].pc = pc],
         server' = server, posts' = posts, items' = items, feed' = feed, disturbed' = disturbed
  PROVE  FeedsIInv'
<1> DEFINE new == [proc[p] EXCEPT !.pc = pc]
<1>1. proc \in [Procs -> Poller] /\ proc[p] \in Poller /\ ImportSound(proc[p], posts)
  BY PollerIs
<1>2. proc' = [proc EXCEPT ![p] = new]
  BY <1>1
<1>3. /\ new \in Poller /\ new.pc = pc /\ new.queue = proc[p].queue /\ new.limit = proc[p].limit
      /\ new.imported = proc[p].imported
  BY <1>1 DEF Poller, PollPcs
<1> HIDE DEF new
<1>4. ImportSound(new, posts) /\ new.pc \notin PollPcs /\ new.pc # "record" /\ new.pc # "create"
  BY <1>1, <1>3 DEF ImportSound, PollPcs
<1>5. ~disturbed => \A k \in DOMAIN new.queue : feed[new.queue[k].id].st = "row"
  BY <1>3 DEF FeedsIInv, Undisturbed, RowsKept
<1>6. proc[p].pc # "record"
  BY DEF PollPcs
<1> QED
  BY <1>2, <1>3, <1>4, <1>5, <1>6, FeedsTyped, PollerMoves

(* The poller takes the next feed of its queue, or goes to rest.            *)
LEMMA NextFeedKeeps ==
  ASSUME FeedsIInv, NextFeed
  PROVE  FeedsIInv'
<1> DEFINE q == proc[Loop].queue
<1>1. Loop \in Procs /\ server # "down" /\ proc[Loop].pc = "next" /\ UNCHANGED <<feed, items, posts, server>>
  BY FeedsTyped DEF NextFeed, Alive
<1>2. proc[Loop].pc \notin PollPcs /\ proc[Loop].pc # "record" /\ q \in Seq(QueueRow)
  BY <1>1, PollerIs DEF PollPcs
<1>3. CASE q = <<>>
  BY <1>1, <1>2, <1>3, GoesOn DEF NextFeed
<1>4. CASE q # <<>>
  <2>1. PollFeed(Loop, Head(q), Tail(q))
    BY <1>4 DEF NextFeed
  <2>2. /\ Head(q) \in QueueRow /\ Tail(q) \in Seq(QueueRow) /\ Head(q) = q[1] /\ 1 \in DOMAIN q
        /\ \A k \in DOMAIN Tail(q) : k + 1 \in DOMAIN q /\ Tail(q)[k] = q[k + 1]
    BY <1>2, <1>4
  <2>3. ~disturbed => \A k \in DOMAIN q : feed[q[k].id].st = "row"
    BY <1>1 DEF FeedsIInv, Undisturbed, RowsKept
  <2> HIDE DEF q
  <2>4. ~disturbed => feed[Head(q).id].st = "row" /\ \A k \in DOMAIN Tail(q) : feed[Tail(q)[k].id].st = "row"
    BY <2>2, <2>3
  <2> QED
    BY <1>1, <1>2, <2>1, <2>2, <2>4, PollFeedKeeps
<1> QED
  BY <1>3, <1>4

(* A sync request starts a poll of its feed.                                *)
LEMMA PollFeedNowKeeps ==
  ASSUME FeedsIInv, NEW r \in Reqs, NEW f \in Feeds, PollFeedNow(r, f)
  PROVE  FeedsIInv'
<1> DEFINE row == [id |-> f, limit |-> feed[f].limit]
<1>1. /\ server # "down" /\ proc[r].pc # "record" /\ feed[f].st = "row" /\ PollFeed(r, row, <<>>)
      /\ UNCHANGED <<feed, items, posts, server>>
  BY DEF PollFeedNow
<1>2. r \in Procs
  BY DEF Procs
<1>3. feed[f].limit \in Nat
  <2>1. feed[f] \in FeedRow
    BY FeedsTyped
  <2> QED
    BY <2>1 DEF FeedRow
<1>4. row \in QueueRow /\ row.id = f
  BY <1>3 DEF QueueRow
<1> HIDE DEF row
<1>5. <<>> \in Seq(QueueRow) /\ \A k \in DOMAIN <<>> : feed[<<>>[k].id].st = "row"
  OBVIOUS
<1> QED
  BY <1>1, <1>2, <1>4, <1>5, PollFeedKeeps

(* What the goroutines of a new process are. *)
LEMMA FreshIs ==
  /\ Fresh \in [Procs -> Poller]
  /\ \A p \in Procs : /\ Fresh[p].pc \in {"idle", "start"} /\ Fresh[p].queue = <<>>
                       /\ Fresh[p].limit = 0 /\ ImportSound(Fresh[p], posts)
<1> DEFINE first == [Idle EXCEPT !.pc = "start"]
<1>1. /\ first \in Poller /\ first.pc = "start" /\ first.queue = <<>> /\ first.limit = 0
      /\ first.imported = 0
  BY PollerIdle DEF Poller, PollPcs
<1>2. \A p \in Procs : Fresh[p] = IF p = Loop THEN first ELSE Idle
  BY DEF Fresh
<1> HIDE DEF first
<1>3. ImportSound(first, posts)
  BY <1>1 DEF ImportSound, PollPcs
<1>4. \A p \in Procs : Fresh[p] \in {first, Idle}
  BY <1>2
<1>5. Fresh \in [Procs -> Poller]
  <2>1. DOMAIN Fresh = Procs /\ Fresh = [p \in Procs |-> Fresh[p]]
    BY DEF Fresh
  <2>2. \A p \in Procs : Fresh[p] \in Poller
    BY <1>1, <1>4, PollerIdle
  <2> QED
    BY <2>1, <2>2
<1> QED
  BY <1>1, <1>3, <1>4, <1>5, PollerIdle

(* There are no feeds, posts and items at first, and nobody polls.          *)
LEMMA FeedsInit ==
  ASSUME Init
  PROVE  FeedsIInv
<1> USE DEF Init
<1>1. /\ proc \in [Procs -> Poller]
      /\ \A p \in Procs : /\ proc[p].pc \in {"idle", "start"} /\ proc[p].queue = <<>>
                          /\ proc[p].limit = 0 /\ ImportSound(proc[p], posts)
                          /\ proc[p].doc \in Seq(Guids \cup {NoGuid})
  BY FreshIs DEF Poller
<1>2. feed \in [Feeds -> FeedRow] /\ IsFiniteSet(posts)
  BY FS_EmptySet DEF NoRow, FeedRow
<1>3. \A p \in Procs : ~Polling(p)
  BY <1>1 DEF Polling
<1>4. TypeOK
  <2>1. \A p \in Procs : proc[p].pc \in {"idle", "start", "next", "select", "exit",
                           "fetch", "item", "create", "record", "finish"}
    BY <1>1
  <2> QED
    BY <1>1, <1>2, <1>3, <2>1 DEF TypeOK
<1>5. ImportsSound
  BY <1>1, <1>2 DEF ImportsSound
<1>6. ItemsHavePosts
  BY DEF ItemsHavePosts
<1>7. Undisturbed
  BY <1>1, <1>3 DEF Undisturbed, PollsApart, RowsKept, PostsRecorded, ItemsMissing, ImportedOnce
<1> QED
  BY <1>4, <1>5, <1>6, <1>7 DEF FeedsIInv

(* The poller sees the closed stop channel.                                 *)
LEMMA StopSeenKeeps ==
  ASSUME FeedsIInv, StopSeen
  PROVE  FeedsIInv'
<1>1. Loop \in Procs /\ proc[Loop].pc \notin PollPcs /\ server # "down"
  BY FeedsTyped DEF StopSeen, PollPcs
<1> QED
  BY <1>1, GoesOn DEF StopSeen

(* A poll under way stays with its feed. *)
LEMMA PollGoesOn ==
  ASSUME FeedsIInv, NEW p \in Procs, NEW new \in Poller, proc' = [proc EXCEPT ![p] = new],
         UNCHANGED <<feed, items, posts, server>>, Alive,
         proc[p].pc \in {"fetch", "item", "create"}, new.pc \in PollPcs \ {"record"},
         new.feed = proc[p].feed, new.queue = proc[p].queue,
         new.limit = proc[p].limit, new.imported = proc[p].imported,
         new.pc = "create" => new.doc # <<>> /\ Head(new.doc) \in Guids,
         disturbed' \in BOOLEAN, disturbed => disturbed',
         new.pc = "create" /\ ~disturbed' => ~Imported(new.feed, Head(new.doc))
  PROVE  FeedsIInv'
<1>1. ImportSound(proc[p], posts) /\ proc[p].pc \in PollPcs /\ proc[p].pc # "record"
  BY PollerIs DEF PollPcs
<1>2. ImportSound(new, posts)
  BY <1>1 DEF ImportSound, PollPcs
<1>3. ~disturbed => \A k \in DOMAIN new.queue : feed[new.queue[k].id].st = "row"
  BY DEF FeedsIInv, Undisturbed, RowsKept
<1>4. feed \in [Feeds -> FeedRow] /\ server # "down"
  BY FeedsTyped
<1> QED
  BY <1>1, <1>2, <1>3, <1>4, PollerMoves

(* A goroutine in another place of its poll, *)
LEMMA GoesTo ==
  ASSUME FeedsIInv, NEW p \in Procs, NEW pc \in PollPcs
  PROVE  \E new \in Poller :
           /\ [proc EXCEPT ![p].pc = pc] = [proc EXCEPT ![p] = new]
           /\ new.pc = pc /\ new.doc = proc[p].doc /\ new.feed = proc[p].feed
           /\ new.queue = proc[p].queue
           /\ new.limit = proc[p].limit /\ new.imported = proc[p].imported
<1> DEFINE new == [proc[p] EXCEPT !.pc = pc]
<1>1. proc \in [Procs -> Poller] /\ proc[p] \in Poller
  BY PollerIs
<1>2. [proc EXCEPT ![p].pc = pc] = [proc EXCEPT ![p] = new]
  BY <1>1
<1>3. /\ new \in Poller
      /\ new.pc = pc /\ new.doc = proc[p].doc /\ new.feed = proc[p].feed /\ new.queue = proc[p].queue
      /\ new.limit = proc[p].limit /\ new.imported = proc[p].imported
  BY <1>1 DEF Poller, PollPcs
<1> QED
  BY <1>2, <1>3

(* and with a document. *)
LEMMA HasDoc ==
  ASSUME FeedsIInv, NEW p \in Procs, NEW d \in Seq(Guids \cup {NoGuid})
  PROVE  \E new \in Poller :
           /\ [proc EXCEPT ![p].pc = "item", ![p].doc = d] = [proc EXCEPT ![p] = new]
           /\ new.pc = "item" /\ new.feed = proc[p].feed /\ new.queue = proc[p].queue
           /\ new.limit = proc[p].limit /\ new.imported = proc[p].imported
<1> DEFINE new == [proc[p] EXCEPT !.pc = "item", !.doc = d]
<1>1. proc \in [Procs -> Poller] /\ proc[p] \in Poller
  BY PollerIs
<1>2. [proc EXCEPT ![p].pc = "item", ![p].doc = d] = [proc EXCEPT ![p] = new]
  BY <1>1
<1>3. /\ new \in Poller
      /\ new.pc = "item" /\ new.feed = proc[p].feed /\ new.queue = proc[p].queue
      /\ new.limit = proc[p].limit /\ new.imported = proc[p].imported
  BY <1>1 DEF Poller, PollPcs
<1> QED
  BY <1>2, <1>3

(* A fetched document is what its feed lists, or the poll fails.            *)
LEMMA FetchKeeps ==
  ASSUME FeedsIInv, NEW p \in Procs, Fetch(p)
  PROVE  FeedsIInv'
<1>1. /\ Alive /\ proc[p].pc = "fetch" /\ UNCHANGED <<feed, items, posts, server, disturbed>>
      /\ disturbed \in BOOLEAN
  BY FeedsTyped DEF Fetch
<1>2. ASSUME NEW d \in Docs, proc' = [proc EXCEPT ![p].pc = "item", ![p].doc = d]
      PROVE  FeedsIInv'
  <2>1. d \in Seq(Guids \cup {NoGuid}) /\ "item" \in PollPcs
    BY DocsAssumption DEF PollPcs
  <2> PICK new \in Poller :
           /\ [proc EXCEPT ![p].pc = "item", ![p].doc = d] = [proc EXCEPT ![p] = new]
           /\ new.pc = "item" /\ new.feed = proc[p].feed /\ new.queue = proc[p].queue
           /\ new.limit = proc[p].limit /\ new.imported = proc[p].imported
    BY <2>1, HasDoc
  <2> QED
    BY <1>1, <1>2, <2>1, PollGoesOn
<1>3. ASSUME proc' = [proc EXCEPT ![p].pc = "finish"]
      PROVE  FeedsIInv'
  <2>1. "finish" \in PollPcs
    BY DEF PollPcs
  <2> PICK new \in Poller :
           /\ [proc EXCEPT ![p].pc = "finish"] = [proc EXCEPT ![p] = new]
           /\ new.pc = "finish" /\ new.doc = proc[p].doc /\ new.feed = proc[p].feed
           /\ new.queue = proc[p].queue
           /\ new.limit = proc[p].limit /\ new.imported = proc[p].imported
    BY <2>1, GoesTo
  <2> QED
    BY <1>1, <1>3, <2>1, PollGoesOn
<1> QED
  BY <1>2, <1>3 DEF Fetch

(* An item without a row is one that no goroutine has posted, unless        *)
(* something came between (RSSItemExists).                                  *)
LEMMA CheckItemKeeps ==
  ASSUME FeedsIInv, NEW p \in Procs, CheckItem(p)
  PROVE  FeedsIInv'
<1> DEFINE g == Head(proc[p].doc)
<1>1. /\ Alive /\ proc[p].pc = "item" /\ proc[p].doc # <<>> /\ UNCHANGED <<feed, items, posts, server>>
      /\ disturbed \in BOOLEAN /\ proc[p].doc \in Seq(Guids \cup {NoGuid}) /\ g \in Guids \cup {NoGuid}
  BY FeedsTyped, PollerIs DEF CheckItem
<1>2. ASSUME proc' = Continue(p), UNCHANGED disturbed
      PROVE  FeedsIInv'
  <2>1. "item" \in PollPcs
    BY DEF PollPcs
  <2> PICK new \in Poller :
           /\ Continue(p) = [proc EXCEPT ![p] = new]
           /\ new.pc = "item" /\ new.feed = proc[p].feed /\ new.queue = proc[p].queue
           /\ new.limit = proc[p].limit /\ new.imported = proc[p].imported
    BY <1>1, ContinueIs
  <2> QED
    BY <1>1, <1>2, <2>1, PollGoesOn
<1>3. ASSUME g # NoGuid, proc' = [proc EXCEPT ![p].pc = "create"], Disturb(Imported(proc[p].feed, g))
      PROVE  FeedsIInv'
  <2>1. "create" \in PollPcs
    BY DEF PollPcs
  <2>2. /\ disturbed' \in BOOLEAN /\ (disturbed => disturbed')
        /\ ~disturbed' => ~Imported(proc[p].feed, g)
    BY <1>1, <1>3 DEF Disturb
  <2> PICK new \in Poller :
           /\ [proc EXCEPT ![p].pc = "create"] = [proc EXCEPT ![p] = new]
           /\ new.pc = "create" /\ new.doc = proc[p].doc /\ new.feed = proc[p].feed
           /\ new.queue = proc[p].queue
           /\ new.limit = proc[p].limit /\ new.imported = proc[p].imported
    BY <1>1, <2>1, GoesTo
  <2> QED
    BY <1>1, <1>3, <2>1, <2>2, PollGoesOn
<1> QED
  BY <1>2, <1>3 DEF CheckItem

(* A document without items left ends the poll.                             *)
LEMMA LastItemKeeps ==
  ASSUME FeedsIInv, NEW p \in Procs, LastItem(p)
  PROVE  FeedsIInv'
<1>1. /\ Alive /\ proc[p].pc = "item" /\ UNCHANGED <<feed, items, posts, server, disturbed>>
      /\ proc' = [proc EXCEPT ![p].pc = "finish"] /\ disturbed \in BOOLEAN
      /\ proc[p].doc \in Seq(Guids \cup {NoGuid}) /\ "finish" \in PollPcs
  BY FeedsTyped, PollerIs DEF LastItem, PollPcs
<1> PICK new \in Poller :
           /\ [proc EXCEPT ![p].pc = "finish"] = [proc EXCEPT ![p] = new]
           /\ new.pc = "finish" /\ new.doc = proc[p].doc /\ new.feed = proc[p].feed
           /\ new.queue = proc[p].queue
           /\ new.limit = proc[p].limit /\ new.imported = proc[p].imported
  BY <1>1, GoesTo
<1> QED
  BY <1>1, PollGoesOn

(* A post that could not be inserted is passed over.                        *)
LEMMA CreatePostFailsKeeps ==
  ASSUME FeedsIInv, NEW p \in Procs, CreatePostFails(p)
  PROVE  FeedsIInv'
<1>1. /\ Alive /\ proc[p].pc = "create" /\ UNCHANGED <<feed, items, posts, server, disturbed>>
      /\ proc' = Continue(p) /\ disturbed \in BOOLEAN /\ "item" \in PollPcs
  BY FeedsTyped DEF CreatePostFails, PollPcs
<1>2. proc[p].doc # <<>>
  BY <1>1, PollerIs DEF ImportSound
<1> PICK new \in Poller :
           /\ Continue(p) = [proc EXCEPT ![p] = new]
           /\ new.pc = "item" /\ new.feed = proc[p].feed /\ new.queue = proc[p].queue
           /\ new.limit = proc[p].limit /\ new.imported = proc[p].imported
  BY <1>2, ContinueIs
<1> QED
  BY <1>1, PollGoesOn

(* The end of a poll: the poller goes back to its rows, a request is over. *)
LEMMA FinishedIs ==
  ASSUME FeedsIInv, NEW p \in Procs
  PROVE  \E new \in Poller :
           /\ Finished(p) = [proc EXCEPT ![p] = new]
           /\ new.pc \in {"idle", "next"} /\ new.queue \in {<<>>, proc[p].queue}
           /\ new.limit = 0 /\ new.imported = 0
<1> DEFINE back == [Idle EXCEPT !.pc = "next", !.queue = proc[p].queue]
           new == IF p = Loop THEN back ELSE Idle
<1>1. proc[p].queue \in Seq(QueueRow)
  BY PollerIs
<1>2. /\ back \in Poller /\ back.pc = "next" /\ back.queue = proc[p].queue
      /\ back.limit = 0 /\ back.imported = 0
  BY <1>1, PollerIdle DEF Poller, PollPcs
<1>3. Finished(p) = [proc EXCEPT ![p] = new]
  BY DEF Finished
<1> HIDE DEF back
<1>4. /\ new \in Poller /\ new.pc \in {"idle", "next"} /\ new.queue \in {<<>>, proc[p].queue}
      /\ new.limit = 0 /\ new.imported = 0
  BY <1>2, PollerIdle
<1> QED
  BY <1>3, <1>4

(* The end of a poll writes last_polled, or fails to.                       *)
LEMMA UpdateFeedKeeps ==
  ASSUME FeedsIInv, NEW p \in Procs, UpdateFeedPolled(p) \/ UpdateFeedFails(p)
  PROVE  FeedsIInv'
<1>1. /\ server # "down" /\ proc[p].pc = "finish" /\ UNCHANGED <<items, posts, server, disturbed>>
      /\ proc' = Finished(p) /\ disturbed \in BOOLEAN /\ feed \in [Feeds -> FeedRow]
      /\ feed' \in {feed, [feed EXCEPT ![proc[p].feed].due = FALSE]}
  BY FeedsTyped DEF UpdateFeedPolled, UpdateFeedFails
<1> PICK new \in Poller :
           /\ Finished(p) = [proc EXCEPT ![p] = new]
           /\ new.pc \in {"idle", "next"} /\ new.queue \in {<<>>, proc[p].queue}
           /\ new.limit = 0 /\ new.imported = 0
  BY FinishedIs
<1>2. feed' \in [Feeds -> FeedRow] /\ \A f \in Feeds : feed'[f].st = feed[f].st
  <2> DEFINE off == [feed[proc[p].feed] EXCEPT !.due = FALSE]
  <2>1. CASE feed' = feed
    BY <1>1, <2>1
  <2>2. CASE feed' = [feed EXCEPT ![proc[p].feed] = off]
    <3>1. proc[p].feed \in Feeds
      BY <1>1, PollerIs DEF ImportSound, PollPcs
    <3>2. off \in FeedRow /\ off.st = feed[proc[p].feed].st
      BY <1>1, <3>1, ZenonT(60) DEF FeedRow
    <3> HIDE DEF off
    <3> QED
      BY <1>1, <2>2, <3>1, <3>2
  <2> QED
    BY <1>1, <2>1, <2>2
<1>3. ImportSound(new, posts) /\ new.pc \notin PollPcs
  BY DEF ImportSound, PollPcs
<1>4. ~disturbed => \A k \in DOMAIN new.queue : feed[new.queue[k].id].st = "row"
  BY DEF FeedsIInv, Undisturbed, RowsKept
<1> QED
  BY <1>1, <1>2, <1>3, <1>4, PollerMoves

(* A poll under way stays apart from the others and has its row. *)
LEMMA StaysApart ==
  ASSUME FeedsIInv, NEW p \in Procs, NEW new \in Poller, proc' = [proc EXCEPT ![p] = new],
         feed' = feed, ~disturbed, proc[p].pc \in PollPcs,
         new.feed = proc[p].feed, new.queue = proc[p].queue
  PROVE  PollsApart' /\ RowsKept'
<1>1. proc \in [Procs -> Poller] /\ PollsApart /\ RowsKept
  BY DEF FeedsIInv, ImportsSound, Undisturbed
<1>2. \A q \in Procs : proc'[q].feed = proc[q].feed /\ proc'[q].queue = proc[q].queue
  BY <1>1
<1>3. \A q \in Procs : Polling(q)' => Polling(q)
  <2> SUFFICES ASSUME NEW q \in Procs, Polling(q)' PROVE Polling(q)
    OBVIOUS
  <2>1. proc[q].pc \in PollPcs \/ proc'[q].pc = proc[q].pc
    BY <1>1
  <2> QED
    BY <2>1 DEF Polling, PollPcs
<1>4. PollsApart'
  BY <1>1, <1>2, <1>3 DEF PollsApart
<1>5. RowsKept'
  BY <1>1, <1>2, <1>3 DEF RowsKept
<1> QED
  BY <1>4, <1>5

(* An undisturbed post is the first of its item. *)
LEMMA NoPostYet ==
  ASSUME FeedsIInv, ~disturbed, NEW p \in Procs, proc[p].pc = "create", NEW a \in posts,
         a.feed = proc[p].feed, a.guid = Head(proc[p].doc)
  PROVE  FALSE
<1>1. PollsApart /\ RowsKept /\ PostsRecorded /\ ItemsMissing
  BY DEF FeedsIInv, Undisturbed
<1>2. Polling(p)
  BY DEF Polling
<1>3. feed[a.feed].st # "gone"
  BY <1>1, <1>2 DEF RowsKept
<1>4. ~Imported(a.feed, a.guid)
  BY <1>1 DEF ItemsMissing
<1>5. PICK q \in Procs : Recording(q, a.feed, a.guid)
  BY <1>1, <1>3, <1>4 DEF PostsRecorded
<1>6. q # p /\ Polling(q) /\ proc[q].feed = proc[p].feed
  BY <1>5 DEF Recording, Polling
<1> QED
  BY <1>1, <1>2, <1>6 DEF PollsApart

(* The post is inserted, and its goroutine remembers it.                    *)
LEMMA CreatePostKeeps ==
  ASSUME FeedsIInv, NEW p \in Procs, CreatePost(p)
  PROVE  FeedsIInv'
<1> DEFINE id == Cardinality(posts) + 1
           post == [id |-> id, feed |-> proc[p].feed, guid |-> Head(proc[p].doc)]
<1>1. /\ Alive /\ proc[p].pc = "create" /\ UNCHANGED <<feed, items, server>>
      /\ posts' = posts \cup {post}
  BY DEF CreatePost
<1>2. /\ feed \in [Feeds -> FeedRow] /\ items \subseteq ItemRow /\ posts \subseteq PostRow
      /\ disturbed \in BOOLEAN /\ server # "down" /\ id \in Nat
      /\ proc \in [Procs -> Poller] /\ proc[p] \in Poller
  BY <1>1, FeedsTyped, PollerIs
<1>3. /\ proc[p].doc # <<>> /\ Head(proc[p].doc) \in Guids /\ proc[p].feed \in Feeds
      /\ (proc[p].limit = 0 \/ proc[p].imported < proc[p].limit)
      /\ (proc[p].limit > 0 => proc[p].imported <= proc[p].limit)
  BY <1>1, PollerIs DEF ImportSound, PollPcs
<1>4. post \in PostRow /\ post \in posts' /\ post.feed = proc[p].feed /\ post.guid = Head(proc[p].doc)
  BY <1>1, <1>2, <1>3 DEF PostRow
<1>5. posts \subseteq posts' /\ posts' \subseteq PostRow /\ IsFiniteSet(posts')
  BY <1>1, <1>2, <1>4, FeedsTyped, FS_AddElement
<1>6. ItemsHavePosts'
  BY <1>1, <1>5 DEF FeedsIInv, ItemsHavePosts
<1>7. ASSUME proc' = [proc EXCEPT ![p].pc = "record", ![p].post = id], UNCHANGED disturbed
      PROVE  FeedsIInv'
  <2> DEFINE new == [proc[p] EXCEPT !.pc = "record", !.post = id]
  <2> HIDE DEF id
  <2>1. proc' = [proc EXCEPT ![p] = new]
    BY <1>2, <1>7
  <2>2. /\ new \in Poller /\ new.pc = "record" /\ new.post = id /\ new.feed = proc[p].feed
        /\ new.doc = proc[p].doc /\ new.queue = proc[p].queue /\ new.limit = proc[p].limit
        /\ new.imported = proc[p].imported
    BY <1>2 DEF Poller, PollPcs
  <2> HIDE DEF new
  <2>3. ImportSound(new, posts')
    BY <1>3, <1>4, <2>2 DEF ImportSound
  <2>4. /\ proc'[p] = new /\ \A q \in Procs \ {p} : proc'[q] = proc[q]
    BY <1>2, <2>1
  <2>5. \A f, g : Imported(f, g)' <=> Imported(f, g)
    BY <1>1 DEF Imported
  <2>6. Undisturbed'
    <3> SUFFICES ASSUME ~disturbed'
                 PROVE  PollsApart' /\ RowsKept' /\ PostsRecorded' /\ ItemsMissing' /\ ImportedOnce'
      BY DEF Undisturbed
    <3>0. ~disturbed /\ proc[p].pc \in PollPcs /\ feed' = feed
      BY <1>1, <1>7 DEF PollPcs
    <3>1. PostsRecorded /\ ItemsMissing /\ ImportedOnce
      BY <3>0 DEF FeedsIInv, Undisturbed
    <3>2. PollsApart' /\ RowsKept'
      BY <2>1, <2>2, <3>0, StaysApart
    <3>3. PostsRecorded'
      <4> SUFFICES ASSUME NEW a \in posts'
                   PROVE  \/ feed[a.feed].st = "gone" \/ Imported(a.feed, a.guid)
                          \/ \E q \in Procs : Recording(q, a.feed, a.guid)'
        BY <3>0, <2>5 DEF PostsRecorded
      <4>1. CASE a = post
        BY <1>4, <2>2, <2>4, <4>1 DEF Recording
      <4>2. CASE a \in posts
        <5>1. \A q \in Procs : Recording(q, a.feed, a.guid) => Recording(q, a.feed, a.guid)'
          BY <1>1, <2>4 DEF Recording
        <5> QED
          BY <3>1, <4>2, <5>1 DEF PostsRecorded
      <4> QED
        BY <1>1, <4>1, <4>2
    <3>4. ItemsMissing'
      BY <2>2, <2>4, <2>5, <3>1 DEF ItemsMissing
    <3>5. ImportedOnce'
      <4>1. \A a \in posts : ~(a.feed = post.feed /\ a.guid = post.guid)
        BY <1>1, <1>4, <3>0, NoPostYet
      <4> HIDE DEF post
      <4> QED
        BY <1>1, <3>1, <4>1 DEF ImportedOnce
    <3> QED
      BY <3>2, <3>3, <3>4, <3>5
  <2>7. server' = server /\ feed' \in [Feeds -> FeedRow] /\ items' \subseteq ItemRow /\ disturbed' \in BOOLEAN
    BY <1>1, <1>2, <1>7
  <2> QED
    BY <1>2, <1>5, <1>6, <2>1, <2>2, <2>3, <2>6, <2>7, PollerStep
<1>8. ASSUME proc' = Continue(p), Disturb(TRUE)
      PROVE  FeedsIInv'
  <2> PICK new \in Poller :
           /\ Continue(p) = [proc EXCEPT ![p] = new]
           /\ new.pc = "item" /\ new.feed = proc[p].feed /\ new.queue = proc[p].queue
           /\ new.limit = proc[p].limit /\ new.imported = proc[p].imported
    BY <1>3, ContinueIs
  <2>1. ImportSound(new, posts')
    BY <1>3 DEF ImportSound
  <2>2. Undisturbed' /\ disturbed' \in BOOLEAN
    BY <1>8 DEF Disturb, Undisturbed
  <2>3. server' = server /\ feed' \in [Feeds -> FeedRow] /\ items' \subseteq ItemRow
    BY <1>1, <1>2
  <2> QED
    BY <1>2, <1>5, <1>6, <1>8, <2>1, <2>2, <2>3, PollerStep
<1> QED
  BY <1>7, <1>8 DEF CreatePost

(* The row of the item is inserted beside its post, or is lost, which       *)
(* counts as a disturbance.                                                 *)
LEMMA CreateRSSItemKeeps ==
  ASSUME FeedsIInv, NEW p \in Procs, CreateRSSItem(p)
  PROVE  FeedsIInv'
<1> DEFINE n == proc[p].imported + 1
           f0 == proc[p].feed
           g0 == Head(proc[p].doc)
           row == [feed |-> f0, guid |-> g0, post |-> proc[p].post]
           pc == IF Full(proc[p].limit, n) THEN "finish" ELSE "item"
<1>1. /\ Alive /\ proc[p].pc = "record" /\ UNCHANGED <<feed, posts, server>>
      /\ proc' = [Continue(p) EXCEPT ![p].imported = n, ![p].pc = pc]
  BY DEF CreateRSSItem
<1>2. /\ feed \in [Feeds -> FeedRow] /\ items \subseteq ItemRow /\ posts \subseteq PostRow
      /\ disturbed \in BOOLEAN /\ server # "down" /\ IsFiniteSet(posts)
      /\ proc \in [Procs -> Poller] /\ proc[p] \in Poller /\ proc[p].post \in Nat
      /\ proc[p].imported \in Nat /\ proc[p].limit \in Nat
  BY <1>1, FeedsTyped, PollerIs
<1>3. /\ proc[p].doc # <<>> /\ g0 \in Guids /\ f0 \in Feeds
      /\ (proc[p].limit = 0 \/ proc[p].imported < proc[p].limit)
      /\ [id |-> proc[p].post, feed |-> f0, guid |-> g0] \in posts
  BY <1>1, PollerIs DEF ImportSound, PollPcs
<1>4. row \in ItemRow /\ row.feed = f0 /\ row.guid = g0 /\ row.post = proc[p].post
  BY <1>2, <1>3 DEF ItemRow
<1>5. \/ ~Imported(f0, g0) /\ items' = items \cup {row} /\ disturbed' = disturbed
      \/ items' = items /\ Disturb(~Imported(f0, g0))
  BY DEF CreateRSSItem
<1> HIDE DEF row
<1>6. /\ items' \subseteq ItemRow /\ items \subseteq items' /\ disturbed' \in BOOLEAN
      /\ disturbed => disturbed'
      /\ \A i \in items' \ items : i = row
  BY <1>2, <1>4, <1>5 DEF Disturb
<1>7. ItemsHavePosts'
  <2> SUFFICES ASSUME NEW i \in items'
               PROVE  [id |-> i.post, feed |-> i.feed, guid |-> i.guid] \in posts
    BY <1>1 DEF ItemsHavePosts
  <2>1. CASE i \in items
    BY <2>1 DEF FeedsIInv, ItemsHavePosts
  <2>2. CASE i = row
    BY <1>3, <1>4, <2>2
  <2> QED
    BY <1>6, <2>1, <2>2
<1>8. \A f, g : Imported(f, g) => Imported(f, g)'
  BY <1>6 DEF Imported
<1>9. \A f, g : Imported(f, g)' /\ f # f0 => Imported(f, g)
  BY <1>4, <1>6 DEF Imported
<1>10. ~disturbed' => \E i \in items' : i.feed = f0 /\ i.guid = g0
  <2>1. CASE items' = items \cup {row}
    BY <1>4, <2>1
  <2>2. CASE items' = items /\ Disturb(~Imported(f0, g0))
    <3>1. ~disturbed' => Imported(f0, g0)
      BY <2>2 DEF Disturb
    <3> QED
      BY <2>2, <3>1 DEF Imported
  <2> QED
    BY <1>5, <2>1, <2>2
<1> PICK old \in Poller :
           /\ Continue(p) = [proc EXCEPT ![p] = old]
           /\ old.pc = "item" /\ old.feed = proc[p].feed /\ old.queue = proc[p].queue
           /\ old.limit = proc[p].limit /\ old.imported = proc[p].imported
  BY <1>3, ContinueIs
<1> DEFINE new == [old EXCEPT !.imported = n, !.pc = pc]
<1>11. pc \in {"item", "finish"} /\ n \in Nat
  BY <1>2
<1>12. pc = "item" => proc[p].limit = 0 \/ n < proc[p].limit
  BY <1>2 DEF Full
<1>13. proc[p].limit > 0 => n <= proc[p].limit
  BY <1>2, <1>3
<1> HIDE DEF pc, n
<1>14. proc' = [proc EXCEPT ![p] = new]
  BY <1>1, <1>2
<1>15. /\ new \in Poller /\ new.pc = pc /\ new.feed = proc[p].feed /\ new.queue = proc[p].queue
       /\ new.limit = proc[p].limit /\ new.imported = n
  BY <1>11 DEF Poller, PollPcs
<1> HIDE DEF new
<1>16. ImportSound(new, posts')
  BY <1>3, <1>11, <1>12, <1>13, <1>15 DEF ImportSound
<1>17. proc'[p] = new /\ \A q \in Procs \ {p} : proc'[q] = proc[q]
  BY <1>2, <1>14
<1>18. Undisturbed'
  <2> SUFFICES ASSUME ~disturbed'
               PROVE  PollsApart' /\ RowsKept' /\ PostsRecorded' /\ ItemsMissing' /\ ImportedOnce'
    BY DEF Undisturbed
  <2>1. ~disturbed /\ proc[p].pc \in PollPcs /\ feed' = feed
    BY <1>1, <1>6 DEF PollPcs
  <2>2. PollsApart /\ PostsRecorded /\ ItemsMissing /\ ImportedOnce
    BY <2>1 DEF FeedsIInv, Undisturbed
  <2>3. PollsApart' /\ RowsKept'
    BY <1>14, <1>15, <2>1, StaysApart
  <2>4. PostsRecorded'
    <3> SUFFICES ASSUME NEW a \in posts
                 PROVE  \/ feed[a.feed].st = "gone" \/ Imported(a.feed, a.guid)'
                        \/ \E q \in Procs : Recording(q, a.feed, a.guid)'
      BY <1>1 DEF PostsRecorded
    <3>1. \A q \in Procs \ {p} : Recording(q, a.feed, a.guid) => Recording(q, a.feed, a.guid)'
      BY <1>17 DEF Recording
    <3>2. Recording(p, a.feed, a.guid) => Imported(a.feed, a.guid)'
      BY <1>10 DEF Recording, Imported
    <3> QED
      BY <1>8, <2>2, <3>1, <3>2 DEF PostsRecorded
  <2>5. ItemsMissing'
    <3> SUFFICES ASSUME NEW q \in Procs, proc'[q].pc = "create"
                 PROVE  ~Imported(proc[q].feed, Head(proc[q].doc))'
      BY DEF ItemsMissing
    <3>1. q # p /\ proc'[q] = proc[q]
      BY <1>11, <1>15, <1>17
    <3>2. Polling(q) /\ Polling(p)
      BY <1>1, <3>1 DEF Polling
    <3>3. proc[q].feed # f0
      BY <2>2, <3>1, <3>2 DEF PollsApart
    <3>4. ~Imported(proc[q].feed, Head(proc[q].doc))
      BY <2>2, <3>1 DEF ItemsMissing
    <3> QED
      BY <1>9, <3>1, <3>3, <3>4
  <2>6. ImportedOnce'
    BY <1>1, <2>2 DEF ImportedOnce
  <2> QED
    BY <2>3, <2>4, <2>5, <2>6
<1>19. server' = server /\ feed' \in [Feeds -> FeedRow] /\ posts \subseteq posts' /\ posts' \subseteq PostRow
       /\ IsFiniteSet(posts')
  BY <1>1, <1>2
<1> QED
  BY <1>2, <1>6, <1>7, <1>14, <1>15, <1>16, <1>18, <1>19, PollerStep

(* What is queued are feeds.                                                *)
LEMMA QueuedFeeds ==
  ASSUME FeedsIInv, NEW p \in Procs
  PROVE  \A k \in DOMAIN proc[p].queue : proc[p].queue[k].id \in Feeds
<1>1. proc[p].queue \in Seq(QueueRow)
  BY PollerIs
<1>2. \A k \in DOMAIN proc[p].queue : proc[p].queue[k] \in QueueRow
  BY <1>1
<1> QED
  BY <1>2 DEF QueueRow

(* Rows change their options, or are new. *)
LEMMA RowsChange ==
  ASSUME FeedsIInv, UNCHANGED <<items, posts, proc, server, disturbed>>,
         feed' \in [Feeds -> FeedRow],
         \A f \in Feeds : feed'[f].st = feed[f].st \/ (feed[f].st = "new" /\ feed'[f].st = "row")
  PROVE  FeedsIInv'
<1>1. posts \subseteq PostRow /\ proc \in [Procs -> Poller] /\ \A p \in Procs : ImportSound(proc[p], posts)
  BY DEF FeedsIInv, TypeOK, ImportsSound
<1>2. TypeOK' /\ ImportsSound' /\ ItemsHavePosts'
  <2>1. TypeOK'
    BY DEF FeedsIInv, TypeOK, Polling
  <2>2. ImportsSound' /\ ItemsHavePosts'
    BY DEF FeedsIInv, ImportsSound, ItemsHavePosts
  <2> QED
    BY <2>1, <2>2
<1>3. Undisturbed'
  <2> SUFFICES ASSUME ~disturbed
               PROVE  PollsApart' /\ RowsKept' /\ PostsRecorded' /\ ItemsMissing' /\ ImportedOnce'
    BY DEF Undisturbed
  <2>1. PollsApart /\ RowsKept /\ PostsRecorded /\ ItemsMissing /\ ImportedOnce
    BY DEF FeedsIInv, Undisturbed
  <2>2. PollsApart' /\ ItemsMissing' /\ ImportedOnce'
    BY <2>1 DEF PollsApart, Polling, ItemsMissing, ImportedOnce, Imported
  <2>3. RowsKept'
    <3> SUFFICES ASSUME NEW p \in Procs
                 PROVE  /\ Polling(p) => feed'[proc[p].feed].st = "row"
                        /\ \A k \in DOMAIN proc[p].queue : feed'[proc[p].queue[k].id].st = "row"
      BY DEF RowsKept, Polling
    <3>1. Polling(p) => proc[p].feed \in Feeds
      BY <1>1, PollingIs DEF ImportSound
    <3>2. \A k \in DOMAIN proc[p].queue : proc[p].queue[k].id \in Feeds
      BY QueuedFeeds
    <3> QED
      BY <2>1, <3>1, <3>2 DEF RowsKept
  <2>4. PostsRecorded'
    <3> SUFFICES ASSUME NEW a \in posts
                 PROVE  \/ feed'[a.feed].st = "gone" \/ Imported(a.feed, a.guid)
                        \/ \E p \in Procs : Recording(p, a.feed, a.guid)
      BY DEF PostsRecorded, Imported, Recording
    <3>1. a.feed \in Feeds
      BY <1>1 DEF PostRow
    <3> QED
      BY <2>1, <3>1 DEF PostsRecorded
  <2> QED
    BY <2>1, <2>2, <2>3, <2>4
<1> QED
  BY <1>2, <1>3 DEF FeedsIInv

(* Requests create and edit feeds, and time makes them due.                 *)
LEMMA FeedRowsKeep ==
  ASSUME FeedsIInv, NEW f \in Feeds, CreateRSSFeed(f) \/ UpdateRSSFeed(f) \/ BecomeDue(f)
  PROVE  FeedsIInv'
<1>1. feed \in [Feeds -> FeedRow] /\ UNCHANGED <<items, posts, proc, server, disturbed>>
  BY FeedsTyped DEF CreateRSSFeed, UpdateRSSFeed, BecomeDue
<1>2. feed[f] \in FeedRow
  BY <1>1
<1>3. ASSUME NEW new \in FeedRow, feed' = [feed EXCEPT ![f] = new],
             new.st = feed[f].st \/ (feed[f].st = "new" /\ new.st = "row")
      PROVE  FeedsIInv'
  <2>1. feed' \in [Feeds -> FeedRow]
    BY <1>1, <1>3
  <2>2. \A g \in Feeds : feed'[g].st = feed[g].st \/ (feed[g].st = "new" /\ feed'[g].st = "row")
    BY <1>1, <1>3
  <2> QED
    BY <1>1, <2>1, <2>2, RowsChange
<1>4. CASE CreateRSSFeed(f)
  <2> PICK v \in BOOLEAN, l \in Limits \ {0} :
         feed' = [feed EXCEPT ![f] =
           [st |-> "row", active |-> TRUE, onView |-> v, due |-> TRUE, limit |-> l]]
    BY <1>4 DEF CreateRSSFeed
  <2> DEFINE new == [st |-> "row", active |-> TRUE, onView |-> v, due |-> TRUE, limit |-> l]
  <2>1. new \in FeedRow /\ new.st = "row" /\ feed[f].st = "new"
    BY <1>4, LimitsAssumption DEF CreateRSSFeed, FeedRow
  <2>2. feed' = [feed EXCEPT ![f] = new]
    OBVIOUS
  <2> HIDE DEF new
  <2> QED
    BY <1>3, <2>1, <2>2
<1>5. CASE UpdateRSSFeed(f)
  <2> PICK a \in BOOLEAN, v \in BOOLEAN, l \in Limits :
         feed' = [feed EXCEPT ![f].active = a, ![f].onView = v, ![f].limit = l]
    BY <1>5 DEF UpdateRSSFeed
  <2> DEFINE new == [feed[f] EXCEPT !.active = a, !.onView = v, !.limit = l]
  <2>1. new \in FeedRow /\ new.st = feed[f].st
    BY <1>2, LimitsAssumption DEF FeedRow
  <2>2. feed' = [feed EXCEPT ![f] = new]
    BY <1>1
  <2> HIDE DEF new
  <2> QED
    BY <1>3, <2>1, <2>2
<1>6. CASE BecomeDue(f)
  <2> DEFINE new == [feed[f] EXCEPT !.due = TRUE]
  <2>1. new \in FeedRow /\ new.st = feed[f].st
    BY <1>2 DEF FeedRow
  <2>2. feed' = [feed EXCEPT ![f] = new]
    BY <1>1, <1>6 DEF BecomeDue
  <2> HIDE DEF new
  <2> QED
    BY <1>3, <2>1, <2>2
<1> QED
  BY <1>4, <1>5, <1>6

(* A feed goes, and perhaps its item rows with it. *)
LEMMA DeleteRSSFeedKeeps ==
  ASSUME FeedsIInv, NEW f \in Feeds, DeleteRSSFeed(f)
  PROVE  FeedsIInv'
<1>1. /\ UNCHANGED <<posts, proc, server>> /\ feed' = [feed EXCEPT ![f] = NoRow("gone")]
      /\ items' \subseteq items /\ \A i \in items : i.feed # f => i \in items'
      /\ disturbed' = (disturbed \/ \E p \in Procs :
                  \/ Polling(p) /\ proc[p].feed = f
                  \/ \E k \in DOMAIN proc[p].queue : proc[p].queue[k].id = f)
  BY DEF DeleteRSSFeed, Disturb
<1>2. /\ feed \in [Feeds -> FeedRow] /\ items \subseteq ItemRow /\ posts \subseteq PostRow
      /\ disturbed \in BOOLEAN /\ proc \in [Procs -> Poller]
  BY FeedsTyped, PollerIs, Loop \in Procs DEF Procs
<1>3. NoRow("gone") \in FeedRow /\ NoRow("gone").st = "gone"
  BY DEF NoRow, FeedRow
<1>4. /\ feed' \in [Feeds -> FeedRow] /\ feed'[f].st = "gone" /\ \A g \in Feeds \ {f} : feed'[g] = feed[g]
      /\ disturbed' \in BOOLEAN
  <2> HIDE DEF NoRow
  <2> QED
    BY <1>1, <1>2, <1>3
<1>5. TypeOK'
  <2>1. \A p \in Procs :
        /\ proc'[p].pc \in {"idle", "start", "next", "select", "exit",
                           "fetch", "item", "create", "record", "finish"}
        /\ Polling(p)' => proc'[p].feed \in Feeds /\ proc'[p].limit \in Nat
        /\ proc'[p].doc \in Seq(Guids \cup {NoGuid})
    BY <1>1 DEF FeedsIInv, TypeOK, Polling
  <2> QED
    BY <1>1, <1>2, <1>4, <2>1, FeedsTyped DEF TypeOK
<1>6. ImportsSound' /\ ItemsHavePosts'
  BY <1>1 DEF FeedsIInv, ImportsSound, ItemsHavePosts
<1>7. Undisturbed'
  <2> SUFFICES ASSUME ~disturbed'
               PROVE  PollsApart' /\ RowsKept' /\ PostsRecorded' /\ ItemsMissing' /\ ImportedOnce'
    BY DEF Undisturbed
  <2>1. /\ ~disturbed
        /\ \A p \in Procs : /\ Polling(p) => proc[p].feed # f
                            /\ \A k \in DOMAIN proc[p].queue : proc[p].queue[k].id # f
    BY <1>1
  <2>2. PollsApart /\ RowsKept /\ PostsRecorded /\ ItemsMissing /\ ImportedOnce
    BY <2>1 DEF FeedsIInv, Undisturbed
  <2>3. PollsApart' /\ ImportedOnce'
    BY <1>1, <2>2 DEF PollsApart, Polling, ImportedOnce
  <2>4. ItemsMissing'
    <3>1. \A h, g : Imported(h, g)' => Imported(h, g)
      BY <1>1 DEF Imported
    <3> QED
      BY <1>1, <2>2, <3>1 DEF ItemsMissing
  <2>5. RowsKept'
    <3> SUFFICES ASSUME NEW p \in Procs
                 PROVE  /\ Polling(p) => feed'[proc[p].feed].st = "row"
                        /\ \A k \in DOMAIN proc[p].queue : feed'[proc[p].queue[k].id].st = "row"
      BY <1>1 DEF RowsKept, Polling
    <3>1. Polling(p) => proc[p].feed \in Feeds
      BY PollerIs, PollingIs DEF ImportSound
    <3>2. \A k \in DOMAIN proc[p].queue : proc[p].queue[k].id \in Feeds
      BY QueuedFeeds
    <3> QED
      BY <1>4, <2>1, <2>2, <3>1, <3>2 DEF RowsKept
  <2>6. PostsRecorded'
    <3> SUFFICES ASSUME NEW a \in posts
                 PROVE  \/ feed'[a.feed].st = "gone" \/ Imported(a.feed, a.guid)'
                        \/ \E p \in Procs : Recording(p, a.feed, a.guid)
      BY <1>1 DEF PostsRecorded, Recording
    <3>1. a.feed \in Feeds
      BY <1>2 DEF PostRow
    <3>2. a.feed # f /\ Imported(a.feed, a.guid) => Imported(a.feed, a.guid)'
      BY <1>1 DEF Imported
    <3> QED
      BY <1>4, <2>2, <3>1, <3>2 DEF PostsRecorded
  <2> QED
    BY <2>3, <2>4, <2>5, <2>6
<1> QED
  BY <1>5, <1>6, <1>7 DEF FeedsIInv

(* The goroutines are those of a new process, or none. *)
LEMMA ProcessChanges ==
  ASSUME FeedsIInv, UNCHANGED <<feed, items, posts>>, server' \in {"up", "down"},
         disturbed' \in BOOLEAN, disturbed => disturbed',
         ~disturbed' => \A p \in Procs : proc[p].pc # "record",
         proc' \in [Procs -> Poller],
         \A p \in Procs : /\ proc'[p].pc = "idle" \/ (proc'[p].pc = "start" /\ server' = "up")
                          /\ proc'[p].queue = <<>> /\ ImportSound(proc'[p], posts)
  PROVE  FeedsIInv'
<1>1. \A p \in Procs : ~Polling(p)'
  BY DEF Polling
<1>2. TypeOK'
  <2>1. \A p \in Procs :
        /\ proc'[p].pc \in {"idle", "start", "next", "select", "exit",
                           "fetch", "item", "create", "record", "finish"}
        /\ proc'[p].doc \in Seq(Guids \cup {NoGuid})
    BY DEF Poller
  <2>2. feed' \in [Feeds -> FeedRow] /\ items' \subseteq ItemRow /\ posts' \subseteq PostRow
    BY FeedsTyped
  <2> QED
    BY <1>1, <2>1, <2>2 DEF TypeOK
<1>3. ImportsSound' /\ ItemsHavePosts'
  BY DEF FeedsIInv, ImportsSound, ItemsHavePosts
<1>4. Undisturbed'
  <2> SUFFICES ASSUME ~disturbed'
               PROVE  PollsApart' /\ RowsKept' /\ PostsRecorded' /\ ItemsMissing' /\ ImportedOnce'
    BY DEF Undisturbed
  <2>1. PostsRecorded /\ ImportedOnce /\ \A p \in Procs : proc[p].pc # "record"
    BY DEF FeedsIInv, Undisturbed
  <2>2. PollsApart' /\ RowsKept' /\ ItemsMissing' /\ ImportedOnce'
    BY <1>1, <2>1 DEF PollsApart, RowsKept, ItemsMissing, ImportedOnce
  <2>3. PostsRecorded'
    BY <2>1 DEF PostsRecorded, Imported, Recording
  <2> QED
    BY <2>2, <2>3
<1> QED
  BY <1>2, <1>3, <1>4 DEF FeedsIInv

(* The process is told to stop, stops, dies or starts.                      *)
LEMMA ServerKeeps ==
  ASSUME FeedsIInv, Signal \/ StopReturns \/ MainReturns \/ Kill \/ Start
  PROVE  FeedsIInv'
<1>1. CASE Signal \/ StopReturns
  <2>1. server' \in {"stopping", "draining"} /\ server # "down" /\ UNCHANGED <<feed, items, posts, proc, disturbed>>
    BY <1>1 DEF Signal, StopReturns
  <2>2. TypeOK'
    BY <2>1 DEF FeedsIInv, TypeOK, Polling
  <2>3. ImportsSound' /\ ItemsHavePosts'
    BY <2>1 DEF FeedsIInv, ImportsSound, ItemsHavePosts
  <2>4. Undisturbed'
    BY <2>1 DEF FeedsIInv, Undisturbed, PollsApart, RowsKept, PostsRecorded, ItemsMissing, ImportedOnce,
                Polling, Imported, Recording
  <2> QED
    BY <2>2, <2>3, <2>4 DEF FeedsIInv
<1>2. CASE Exit
  <2>1. /\ server' = "down" /\ UNCHANGED <<feed, items, posts>> /\ proc' = [p \in Procs |-> Idle]
        /\ disturbed' = (disturbed \/ \E p \in Procs : proc[p].pc = "record")
    BY <1>2 DEF Exit, Disturb
  <2>2. disturbed \in BOOLEAN /\ Idle \in Poller /\ Idle.pc = "idle" /\ Idle.queue = <<>>
        /\ ImportSound(Idle, posts)
    BY FeedsTyped, PollerIdle
  <2> HIDE DEF Idle
  <2> QED
    BY <2>1, <2>2, ProcessChanges
<1>3. CASE Start
  <2>1. server = "down" /\ server' = "up" /\ proc' = Fresh /\ UNCHANGED <<feed, items, posts, disturbed>>
    BY <1>3, FeedsTyped DEF Start
  <2>2. \A p \in Procs : proc[p].pc = "idle"
    BY <2>1 DEF FeedsIInv, ImportsSound
  <2> QED
    BY <2>1, <2>2, FeedsTyped, FreshIs, ProcessChanges
<1> QED
  BY <1>1, <1>2, <1>3 DEF MainReturns, Kill

(* Every step of an import keeps the invariant,                             *)
LEMMA ImportStepKeeps ==
  ASSUME FeedsIInv, NEW p \in Procs, ImportStep(p)
  PROVE  FeedsIInv'
  BY FetchKeeps, CheckItemKeeps, LastItemKeeps, CreatePostKeeps, CreatePostFailsKeeps,
     CreateRSSItemKeeps, UpdateFeedKeeps DEF ImportStep

(* and so does every step.                                                  *)
LEMMA FeedsStep ==
  ASSUME FeedsIInv, [Next]_vars
  PROVE  FeedsIInv'
<1>1. Loop \in Procs /\ Reqs \subseteq Procs
  BY FeedsTyped
<1>2. CASE LoopStep
  BY <1>1, <1>2, PollAllKeeps, NextFeedKeeps, StopSeenKeeps, ImportStepKeeps DEF LoopStep
<1>3. CASE \E r \in Reqs : ImportStep(r) \/ \E f \in Feeds : PollFeedNow(r, f)
  BY <1>1, <1>3, ImportStepKeeps, PollFeedNowKeeps
<1>4. CASE \E f \in Feeds : CreateRSSFeed(f) \/ UpdateRSSFeed(f) \/ DeleteRSSFeed(f) \/ BecomeDue(f)
  BY <1>4, FeedRowsKeep, DeleteRSSFeedKeeps
<1>5. CASE Signal \/ StopReturns \/ MainReturns \/ Kill \/ Start
  BY <1>5, ServerKeeps
<1>6. CASE UNCHANGED vars
  <2> USE <1>6 DEF vars
  <2>1. TypeOK'
    BY DEF FeedsIInv, TypeOK, Polling
  <2>2. ImportsSound' /\ ItemsHavePosts'
    BY DEF FeedsIInv, ImportsSound, ItemsHavePosts
  <2>3. Undisturbed'
    BY DEF FeedsIInv, Undisturbed, PollsApart, RowsKept, PostsRecorded, ItemsMissing, ImportedOnce,
           Polling, Imported, Recording
  <2> QED
    BY <2>1, <2>2, <2>3 DEF FeedsIInv
<1> QED
  BY <1>2, <1>3, <1>4, <1>5, <1>6 DEF Next

(* The record of imports is true through overlapping polls, failed          *)
(* statements, deleted feeds and ends of the process (pollFeed): a recorded *)
(* item has its post, an undisturbed item one post only, and a poll stays   *)
(* within max_items_per_poll.                                               *)
THEOREM AlwaysImportsTrue == Spec => []ImportsTrue
<1>1. Init => FeedsIInv
  BY FeedsInit
<1>2. FeedsIInv /\ [Next]_vars => FeedsIInv'
  BY FeedsStep
<1>3. FeedsIInv => ImportsTrue
  <2> SUFFICES ASSUME FeedsIInv PROVE ImportsTrue
    OBVIOUS
  <2>1. PollLimited
    BY PollerIs DEF PollLimited, ImportSound
  <2> QED
    BY <2>1 DEF FeedsIInv, ImportsTrue, ImportedOnceUndisturbed, Undisturbed
<1> QED
  BY <1>1, <1>2, <1>3, PTL DEF Spec

=============================================================================
