----------------------------- MODULE MakhorHats -----------------------------
(***************************************************************************)
(* Hats in makhor (tools/makhor, db/hats.go, handlers/admin.go): roles an  *)
(* admin grants, under which a user may publish a post or a comment, and   *)
(* the public moderation log (db/modlog.go).                               *)
(*                                                                         *)
(* SubmitPost and SubmitComment verify the hat first and then insert; a    *)
(* grant or a revocation is written first and logged after it.  Between    *)
(* the two, other requests run and the process may end.  A label stands    *)
(* for a hat's name and organization.                                      *)
(***************************************************************************)
EXTENDS Integers, FiniteSets, Sequences

CONSTANTS
    Members,    \* accounts
    Labels,
    Clients,    \* request goroutines
    MaxHats,    \* bounds for model checking: hats,
    MaxWorks,   \* posts and comments,
    MaxRevokes  \* and revocations

ASSUME HatsAssumption ==
    /\ MaxHats \in Nat /\ MaxWorks \in Nat /\ MaxRevokes \in Nat
    /\ IsFiniteSet(Clients)

VARIABLES
    hats,       \* table hats, indexed by id
    works,      \* posts and comments: author and hat (0: none)
    modlog,     \* table moderation_log
    call,       \* the requests between their two statements
    revokes,    \* how many revocations have been made
    unlogged    \* history: log entries that a failure or an end prevented

hatVars == <<hats, works, modlog, call, revokes, unlogged>>

HatRow == [user : Members, label : Labels, active : BOOLEAN]
NoCall == [op |-> "idle", user |-> "nobody", hat |-> 0]

HatsInit ==
    /\ hats = <<>>
    /\ works = <<>>
    /\ modlog = <<>>
    /\ call = [c \in Clients |-> NoCall]
    /\ revokes = 0
    /\ unlogged = 0

HatIds == DOMAIN hats

(* UNIQUE(user_id, name, organization), revoked hats included. *)
LabelFree(u, l) == \A h \in HatIds : ~(hats[h].user = u /\ hats[h].label = l)

UserOwnsHat(u, h) == h \in HatIds /\ hats[h].user = u /\ hats[h].active

(* GetHatsForPosts, GetHatsForComments: also hats revoked since. *)
HatShown(w) == {hats[h] : h \in HatIds \cap {works[w].hat}}

(* The hats a form offers. *)
GetUserHats(u) == {h \in HatIds : hats[h].user = u /\ hats[h].active}

-----------------------------------------------------------------------------
(* verifyUserHat: a hat that is not the user's counts as none. *)
verifyUserHat(c, u, h) ==
    /\ call[c].op = "idle"
    /\ call' = [call EXCEPT ![c] = [op |-> "publish", user |-> u,
                                    hat |-> IF UserOwnsHat(u, h) THEN h ELSE 0]]
    /\ UNCHANGED <<hats, works, modlog, revokes, unlogged>>

(* CreatePostWithHat, CreateComment. *)
Publish(c) ==
    /\ call[c].op = "publish" /\ Len(works) < MaxWorks
    /\ works' = Append(works, [author |-> call[c].user, hat |-> call[c].hat])
    /\ call' = [call EXCEPT ![c] = NoCall]
    /\ UNCHANGED <<hats, modlog, revokes, unlogged>>

(* AdminGrantHatSubmit and CreateHat; the INSERT fails on a second hat.     *)
CreateHat(c, u, l) ==
    /\ call[c].op = "idle" /\ Len(hats) < MaxHats
    /\ LabelFree(u, l)
    /\ hats' = Append(hats, [user |-> u, label |-> l, active |-> TRUE])
    /\ call' = [call EXCEPT ![c] = [op |-> "grant_hat", user |-> u, hat |-> 0]]
    /\ UNCHANGED <<works, modlog, revokes, unlogged>>

(* AdminRevokeHat and RevokeHat; its log entry names no user. *)
RevokeHat(c, h) ==
    /\ call[c].op = "idle" /\ revokes < MaxRevokes
    /\ hats' = [hats EXCEPT ![h].active = FALSE]
    /\ revokes' = revokes + 1
    /\ call' = [call EXCEPT ![c] = [op |-> "revoke_hat", user |-> "nobody", hat |-> 0]]
    /\ UNCHANGED <<works, modlog, unlogged>>

(* LogModeration, whose error is ignored. *)
LogModeration(c) ==
    /\ call[c].op \in {"grant_hat", "revoke_hat"}
    /\ \/ modlog' = Append(modlog, [action |-> call[c].op, user |-> call[c].user]) /\ UNCHANGED unlogged
       \/ unlogged' = unlogged + 1 /\ UNCHANGED modlog
    /\ call' = [call EXCEPT ![c] = NoCall]
    /\ UNCHANGED <<hats, works, revokes>>

(* AdminEditHatSubmit and UpdateHat: owner and state stay.  No entry in the *)
(* moderation log.                                                          *)
UpdateHatUnchecked(h, l) ==
    /\ hats[h].label # l
    /\ hats' = [hats EXCEPT ![h].label = l]
    /\ UNCHANGED <<works, modlog, call, revokes, unlogged>>

UpdateHat(h, l) ==
    /\ hats[h].label # l /\ LabelFree(hats[h].user, l)
    /\ hats' = [hats EXCEPT ![h].label = l]
    /\ UNCHANGED <<works, modlog, call, revokes, unlogged>>

(* AdminReactivateHat and ReactivateHat, without an entry as well. *)
ReactivateHat(h) ==
    /\ ~hats[h].active
    /\ hats' = [hats EXCEPT ![h].active = TRUE]
    /\ UNCHANGED <<works, modlog, call, revokes, unlogged>>

(* The process ends with requests under way. *)
ServerEnds ==
    /\ \E c \in Clients : call[c].op # "idle"
    /\ unlogged' = unlogged +
         Cardinality({c \in Clients : call[c].op \in {"grant_hat", "revoke_hat"}})
    /\ call' = [c \in Clients |-> NoCall]
    /\ UNCHANGED <<hats, works, modlog, revokes>>

HatsNext ==
    \/ \E c \in Clients, u \in Members :
         \/ \E h \in 0..MaxHats : verifyUserHat(c, u, h)
         \/ \E l \in Labels : CreateHat(c, u, l)
    \/ \E c \in Clients : Publish(c) \/ LogModeration(c) \/ \E h \in HatIds : RevokeHat(c, h)
    \/ \E h \in HatIds : ReactivateHat(h) \/ \E l \in Labels : UpdateHat(h, l)
    \/ ServerEnds

HatsSpec == HatsInit /\ [][HatsNext]_hatVars

-----------------------------------------------------------------------------
(* Type invariant. *)
HatsTypeOK ==
    /\ hats \in Seq(HatRow) /\ Len(hats) <= MaxHats
    /\ works \in Seq([author : Members, hat : 0..MaxHats]) /\ Len(works) <= MaxWorks
    /\ modlog \in Seq([action : {"grant_hat", "revoke_hat"}, user : Members \cup {"nobody"}])
    /\ call \in [Clients -> [op : {"idle", "publish", "grant_hat", "revoke_hat"},
                             user : Members \cup {"nobody"}, hat : 0..MaxHats]]
    /\ revokes \in 0..MaxRevokes
    /\ unlogged \in Nat

(* Nobody speaks under a hat that is not theirs: whatever is granted,       *)
(* edited, revoked and reactivated while a post or comment is on its way,   *)
(* the hat shown beside it is there and its author's; and one of the hats   *)
(* the author is offered, unless it was revoked.                            *)
HatBelongsToAuthor ==
    \A w \in DOMAIN works : works[w].hat # 0 =>
        /\ HatShown(w) # {}
        /\ \A hat \in HatShown(w) :
             /\ hat.user = works[w].author
             /\ hat.active => works[w].hat \in GetUserHats(works[w].author)

(* A user has each label at most once, among active and revoked hats, also  *)
(* after edits and reactivations, so that a hat that was revoked cannot be  *)
(* there a second time as an active one.                                    *)
OneHatPerLabel ==
    \A g, h \in HatIds :
        hats[g].user = hats[h].user /\ hats[g].label = hats[h].label => g = h

(* The public log shows every grant, and names the user, unless its entry   *)
(* is still to come or was lost to an error or the end of the process: as   *)
(* many hats of a user as grants in the log.                                *)
GrantsLogged ==
    \A u \in Members :
        LET granted == Cardinality({h \in HatIds : hats[h].user = u})
            logged == Cardinality({k \in DOMAIN modlog : modlog[k] = [action |-> "grant_hat", user |-> u]})
            due == Cardinality({c \in Clients : call[c].op = "grant_hat" /\ call[c].user = u})
        IN  logged + due <= granted /\ granted <= logged + due + unlogged

-----------------------------------------------------------------------------
(* Hats are worn by those they were granted to, once per label, and the log *)
(* tells of every grant.                                                    *)
HatsInOrder ==
    /\ HatsTypeOK
    /\ HatBelongsToAuthor
    /\ OneHatPerLabel
    /\ GrantsLogged
=============================================================================
