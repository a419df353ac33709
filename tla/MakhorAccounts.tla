--------------------------- MODULE MakhorAccounts ---------------------------
(***************************************************************************)
(* Registration by invite code in makhor (tools/makhor): the tables users  *)
(* and invites, and the handlers RegisterSubmit and CreateInvite.          *)
(*                                                                         *)
(* RegisterSubmit is a check-then-act sequence of four separate SQL        *)
(* statements, and CreateInvite one of two.  Each statement is a step, any *)
(* of them may fail, the server may restart between any two, and handlers  *)
(* run concurrently.  Row ids grow (INTEGER PRIMARY KEY AUTOINCREMENT).    *)
(***************************************************************************)
EXTENDS Integers, FiniteSets

CONSTANTS
    Names, Emails,   \* valid usernames and addresses
    Codes,           \* invite codes that may be generated
    Reqs,            \* request goroutines
    None,            \* SQL NULL in name, address and code columns
    PendingLimit,    \* unused invites an account may have (5 in the code)
    MaxUsers         \* bound on the users table, for model checking

ASSUME NoneAssumption == None \notin Names \cup Emails \cup Codes
ASSUME LimitsAssumption == PendingLimit \in Nat \ {0} /\ MaxUsers \in Nat
ASSUME ReqsAssumption == IsFiniteSet(Reqs)

VARIABLES
    users,    \* table users
    nextId,   \* next id of table users
    invites,  \* table invites
    req,      \* the request goroutines
    \* History variables: no step of the system reads them.
    issued,   \* codes that were generated
    uncounted \* counting the pending invites has failed once

vars == <<users, nextId, invites, req, issued, uncounted>>

-----------------------------------------------------------------------------
NoId == 0
Ids == Nat \ {0}

(* via remembers the invite code a user registered with (history). *)
UserRow == [id : Ids, username : Names, email : Emails, invitedBy : Nat,
            via : Codes \cup {None}]
InviteRow == [code : Codes, createdBy : Ids, usedBy : Nat]

Pcs == {"idle", "check", "insert", "use", "newinvite"}

(* by: the inviter RegisterSubmit copied from the invite, or the creator of *)
(* a new invite; uid: the user it has inserted.                             *)
Request ==
    [pc : Pcs, username : Names \cup {None}, email : Emails \cup {None},
     code : Codes \cup {None}, by : Nat, uid : Nat]

IdleRequest ==
    [pc |-> "idle", username |-> None, email |-> None, code |-> None,
     by |-> NoId, uid |-> NoId]

Done(r) == req' = [req EXCEPT ![r] = IdleRequest]
Goto(r, pc) == req' = [req EXCEPT ![r].pc = pc]

(* The row count CreateUser asks for; the UNIQUE columns enforce the same. *)
Taken(n, e) == \E u \in users : u.username = n \/ u.email = e

(* The database `makhor -create-admin` leaves: one user nobody invited. *)
Init ==
    /\ \E n \in Names, e \in Emails :
         users = {[id |-> 1, username |-> n, email |-> e, invitedBy |-> NoId,
                   via |-> None]}
    /\ nextId = 2
    /\ invites = {}
    /\ req = [r \in Reqs |-> IdleRequest]
    /\ issued = {}
    /\ uncounted = FALSE

-----------------------------------------------------------------------------
(* RegisterSubmit reads the invite with GetInviteByCode and goes on when it *)
(* is unused, keeping only the id of its creator.                           *)
RegisterSubmit(r, n, e) ==
    /\ req[r].pc = "idle"
    /\ \E i \in invites :
        /\ i.usedBy = NoId
        /\ req' = [req EXCEPT ![r] =
             [IdleRequest EXCEPT !.pc = "check", !.username = n, !.email = e,
                                 !.code = i.code, !.by = i.createdBy]]
    /\ UNCHANGED <<users, nextId, invites, issued, uncounted>>

(* CreateUser, first statement: is the name or the address taken? *)
CheckUser(r) ==
    /\ req[r].pc = "check"
    /\ IF Taken(req[r].username, req[r].email) THEN Done(r) ELSE Goto(r, "insert")
    /\ UNCHANGED <<users, nextId, invites, issued, uncounted>>

(* The row of a user who registers. *)
NewUser(r) ==
    [id |-> nextId, username |-> req[r].username, email |-> req[r].email,
     invitedBy |-> req[r].by, via |-> req[r].code]

(* CreateUser, second statement: INSERT, which the UNIQUE columns refuse    *)
(* when another request got there first.                                    *)
InsertUser(r) ==
    /\ req[r].pc = "insert"
    /\ IF Taken(req[r].username, req[r].email)
       THEN Done(r) /\ UNCHANGED <<users, nextId>>
       ELSE /\ nextId <= MaxUsers
            /\ users' = users \cup {NewUser(r)}
            /\ nextId' = nextId + 1
            /\ req' = [req EXCEPT ![r].pc = "use", ![r].uid = nextId]
    /\ UNCHANGED <<invites, issued, uncounted>>

(* The WHERE clause of UseInvite. *)
CodeMatches(i, c) == i.code = c
StillUnused(i, c) == i.usedBy = NoId
Redeemable(i, c) == i.code = c /\ i.usedBy = NoId

(* UseInvite: UPDATE ... WHERE code = ? AND used_by IS NULL.  RegisterSubmit *)
(* drops the error it returns when no row was left to update, and goes on to *)
(* mail a login link (MakhorLogin).                                          *)
UseInvite(r) ==
    /\ req[r].pc = "use"
    /\ invites' = {IF Redeemable(i, req[r].code)
                   THEN [i EXCEPT !.usedBy = req[r].uid] ELSE i : i \in invites}
    /\ Done(r)
    /\ UNCHANGED <<users, nextId, issued, uncounted>>

(* GetPendingInviteCount. *)
Pending(u) == Cardinality({i \in invites : i.createdBy = u.id /\ i.usedBy = NoId})

(* May u have one more? *)
UpToLimit(u) == Pending(u) <= PendingLimit
UnderLimit(u) == Pending(u) < PendingLimit

(* userCreateInvite and CreateInvite, GetPendingInviteCount: refuse a user  *)
(* with too many unused invites.                                            *)
CountPending(r, u) ==
    /\ req[r].pc = "idle"
    /\ UnderLimit(u)
    /\ req' = [req EXCEPT ![r] = [IdleRequest EXCEPT !.pc = "newinvite", !.by = u.id]]
    /\ UNCHANGED <<users, nextId, invites, issued, uncounted>>

(* The count fails; both handlers drop the error and go on with 0. *)
CountFails(r, u) ==
    /\ req[r].pc = "idle"
    /\ uncounted' = TRUE
    /\ req' = [req EXCEPT ![r] = [IdleRequest EXCEPT !.pc = "newinvite", !.by = u.id]]
    /\ UNCHANGED <<users, nextId, invites, issued>>

(* DB.CreateInvite: INSERT with a fresh random code. *)
CreateInvite(r) ==
    /\ req[r].pc = "newinvite"
    /\ \E c \in Codes \ issued :
        /\ issued' = issued \cup {c}
        /\ invites' = invites \cup
             {[code |-> c, createdBy |-> req[r].by, usedBy |-> NoId]}
    /\ Done(r)
    /\ UNCHANGED <<users, nextId, uncounted>>

(* A statement of the handler fails, and the handler ends there. *)
Abort(r) ==
    /\ req[r].pc # "idle"
    /\ Done(r)
    /\ UNCHANGED <<users, nextId, invites, issued, uncounted>>

(* The server is restarted, perhaps with -create-admin for a new address;   *)
(* handlers that were running are gone.                                     *)
Restart ==
    /\ req' = [r \in Reqs |-> IdleRequest]
    /\ \/ UNCHANGED <<users, nextId>>
       \/ \E n \in Names, e \in Emails :
            /\ ~Taken(n, e)
            /\ nextId <= MaxUsers
            /\ users' = users \cup {[id |-> nextId, username |-> n, email |-> e,
                                     invitedBy |-> NoId, via |-> None]}
            /\ nextId' = nextId + 1
    /\ UNCHANGED <<invites, issued, uncounted>>

Next ==
    \/ \E r \in Reqs :
        \/ \E n \in Names, e \in Emails : RegisterSubmit(r, n, e)
        \/ CheckUser(r) \/ InsertUser(r) \/ UseInvite(r)
        \/ \E u \in users : CountPending(r, u) \/ CountFails(r, u)
        \/ CreateInvite(r)
        \/ Abort(r)
    \/ Restart

Spec == Init /\ [][Next]_vars
-----------------------------------------------------------------------------
(* Every variable has its type. *)
TypeOK ==
    /\ users \subseteq UserRow
    /\ nextId \in Ids
    /\ invites \subseteq InviteRow
    /\ req \in [Reqs -> Request]
    /\ issued \subseteq Codes
    /\ uncounted \in BOOLEAN

(* users.username and users.email stay unique although the check and the    *)
(* INSERT are separate statements of concurrent registrations.              *)
AccountsUnique ==
    \A u, v \in users : (u.username = v.username \/ u.email = v.email) => u = v

(* GetInviteTree recurses from a user to those it invited.  An inviter is   *)
(* an older row than the invitee, so the recursion meets no user twice and  *)
(* comes to an end, and the inviter is there to be shown.                   *)
InviteTreeWellFounded ==
    \A u \in users : u.invitedBy # NoId =>
        /\ u.invitedBy < u.id
        /\ \E v \in users : v.id = u.invitedBy

(* The invites table tells the truth: an invite marked used is marked with  *)
(* a user that exists, registered with that code, and is credited to the    *)
(* creator of the invite.                                                   *)
UsedInviteMatchesUser ==
    \A i \in invites : i.usedBy # NoId =>
        \E u \in users :
            u.id = i.usedBy /\ u.via = i.code /\ u.invitedBy = i.createdBy

(* A used invite stays with the user it was used by, also when a second     *)
(* registration that read it as unused reaches UseInvite later.             *)
UsedInviteIsFinal ==
    [][\A i \in invites : i.usedBy # NoId => i \in invites']_vars

(* invites.go, UseInvite: "Uses atomic update to prevent race conditions":  *)
(* an invite code lets in one user.                                         *)
OneUserPerInvite ==
    \A u, v \in users : u.via # None /\ u.via = v.via => u = v

(* users.go and auth.go, "Limit pending invites": the count and the INSERT  *)
(* are separate statements, so concurrent submissions can exceed the limit, *)
(* but, unless a count has failed, by no more than the requests that passed *)
(* the check together.                                                      *)
PendingBounded ==
    ~uncounted => \A u \in users :
        Pending(u) + Cardinality({r \in Reqs : req[r].pc = "newinvite" /\ req[r].by = u.id})
            <= PendingLimit - 1 + Cardinality(Reqs)

-----------------------------------------------------------------------------
(* The tables users and invites agree, whatever registrations and invite    *)
(* forms run at once and wherever they stop: unique names and addresses, an *)
(* invite tree without cycles, redeemed invites that name their user.       *)
AccountsConsistent ==
    /\ TypeOK
    /\ AccountsUnique
    /\ InviteTreeWellFounded
    /\ UsedInviteMatchesUser
=============================================================================
