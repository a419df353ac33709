----------------------------- MODULE MakhorLogin -----------------------------
(***************************************************************************)
(* Login links and email-change links of makhor (tools/makhor): the tables *)
(* login_tokens and email_change_tokens, the handlers that fill and redeem *)
(* them, and the sessions that come out.                                   *)
(*                                                                         *)
(* A handler is a goroutine; each SQL statement or transaction it runs is  *)
(* one step, and any statement may fail.  Mail is unreliable: a link may   *)
(* be redeemed never, late, or by several requests at once.  Random tokens *)
(* do not repeat.  The clock, stored times and their comparison are as in  *)
(* MakhorSessions.                                                         *)
(***************************************************************************)
EXTENDS Integers

CONSTANTS
    Users, Emails,
    Tokens,            \* login tokens that may be generated
    ChangeTokens,      \* email-change tokens that may be generated
    Sids,              \* session tokens that may be generated
    Reqs,              \* request goroutines
    None,              \* an absent token, user or address
    LoginTokenExpiry, EmailChangeTokenExpiry,
    ZoneOffset,        \* local time of the server minus UTC
    MaxRequestTime,    \* longest a request stays in flight
    MaxTime            \* bound on the clock, for model checking

ASSUME NoneAssumption ==
    /\ None \notin Users \cup Emails \cup Tokens \cup ChangeTokens \cup Sids
    /\ None \notin Nat
ASSUME DurationsAssumption ==
    /\ LoginTokenExpiry \in Nat
    /\ EmailChangeTokenExpiry \in Nat
    /\ ZoneOffset \in Int
    /\ MaxRequestTime \in Nat
    /\ MaxTime \in Nat

VARIABLES
    now,
    email,         \* users.email
    banned,        \* accounts with users.is_banned
    loginTokens,   \* table login_tokens
    changeTokens,  \* table email_change_tokens
    sessions,      \* rows ever inserted into sessions
    req,           \* the request goroutines
    \* History variables: no step of the system reads them.
    issued,        \* when each login token was created, None before
    changesIssued, \* email-change tokens that were created
    applied        \* how often each email-change token moved an address

vars == <<now, email, banned, loginTokens, changeTokens, sessions, req,
          issued, changesIssued, applied>>

-----------------------------------------------------------------------------
LoginTokenRow  == [token : Tokens, email : Emails, expires : Int, used : BOOLEAN]
ChangeTokenRow == [token : ChangeTokens, user : Users, newEmail : Emails,
                   expires : Int, used : BOOLEAN]
(* A session row, with the login token and the time it was created. *)
SessionRow     == [token : Sids, user : Users, from : Tokens, at : Nat]

Pcs == {"idle", "newtoken", "lookup", "newsession", "newchange"}

Request ==
    [pc : Pcs, email : Emails \cup {None}, token : Tokens \cup {None},
     user : Users \cup {None}, since : Nat]

IdleRequest ==
    [pc |-> "idle", email |-> None, token |-> None, user |-> None, since |-> 0]

(* A time as the SQLite driver writes it. *)
Stored(t) == t + ZoneOffset

Done(r) == req' = [req EXCEPT ![r] = IdleRequest]

(* GetUserByEmail: the accounts with address e, at most one. *)
GetUserByEmail(e) == {u \in Users : email[u] = e}

Init ==
    /\ now = 0
    /\ email \in [Users -> Emails]
    /\ \A u, v \in Users : email[u] = email[v] => u = v
    /\ banned = {}
    /\ loginTokens = {}
    /\ changeTokens = {}
    /\ sessions = {}
    /\ req = [r \in Reqs |-> IdleRequest]
    /\ issued = [t \in Tokens |-> None]
    /\ changesIssued = {}
    /\ applied = [t \in ChangeTokens |-> 0]

-----------------------------------------------------------------------------
(* LoginSubmit up to CreateLoginToken: an unknown or banned address gets    *)
(* no token.                                                                *)
LoginSubmit(r, e) ==
    /\ req[r].pc = "idle"
    /\ \E u \in GetUserByEmail(e) : u \notin banned
    /\ req' = [req EXCEPT ![r] =
         [IdleRequest EXCEPT !.pc = "newtoken", !.email = e, !.since = now]]
    /\ UNCHANGED <<now, email, banned, loginTokens, changeTokens, sessions,
                   issued, changesIssued, applied>>

CreateLoginToken(r) ==
    /\ req[r].pc = "newtoken"
    /\ \E t \in Tokens :
        /\ issued[t] = None
        /\ issued' = [issued EXCEPT ![t] = now]
        /\ loginTokens' = loginTokens \cup
             {[token |-> t, email |-> req[r].email,
               expires |-> Stored(now + LoginTokenExpiry), used |-> FALSE]}
    /\ Done(r)
    /\ UNCHANGED <<now, email, banned, changeTokens, sessions, changesIssued, applied>>

(* The WHERE clause both kinds of link are redeemed with. *)
UsableAgain(row, t) == row.token = t /\ row.expires >= now
Usable(row, t) == row.token = t /\ ~row.used /\ row.expires >= now

(* LoginVerify, ValidateLoginToken: UPDATE ... SET used ... RETURNING email *)
(* is one statement.                                                        *)
ValidateLoginToken(r, t) ==
    /\ req[r].pc = "idle"
    /\ \E row \in loginTokens :
        /\ Usable(row, t)
        /\ loginTokens' = (loginTokens \ {row}) \cup {[row EXCEPT !.used = TRUE]}
        /\ req' = [req EXCEPT ![r] =
             [IdleRequest EXCEPT !.pc = "lookup", !.token = t,
                                 !.email = row.email, !.since = now]]
    /\ UNCHANGED <<now, email, banned, changeTokens, sessions,
                   issued, changesIssued, applied>>

(* LoginVerify, GetUserByEmail: whoever has the address now.  When nobody   *)
(* has it any more the link is spent for nothing.                           *)
LookupUser(r) ==
    /\ req[r].pc = "lookup"
    /\ IF GetUserByEmail(req[r].email) = {}
       THEN Done(r)
       ELSE \E u \in GetUserByEmail(req[r].email) :
              req' = [req EXCEPT ![r].pc = "newsession", ![r].user = u]
    /\ UNCHANGED <<now, email, banned, loginTokens, changeTokens, sessions,
                   issued, changesIssued, applied>>

(* LoginVerify, CreateSession. *)
CreateSession(r) ==
    /\ req[r].pc = "newsession"
    /\ \E s \in Sids :
        /\ \A row \in sessions : row.token # s
        /\ sessions' = sessions \cup
             {[token |-> s, user |-> req[r].user, from |-> req[r].token, at |-> now]}
    /\ Done(r)
    /\ UNCHANGED <<now, email, banned, loginTokens, changeTokens,
                   issued, changesIssued, applied>>
-----------------------------------------------------------------------------
(* ChangeEmailSubmit of a logged-in user u: refuse an address in use.  u's  *)
(* own address is refused as well.                                          *)
ChangeEmailSubmit(r, u, e) ==
    /\ req[r].pc = "idle"
    /\ GetUserByEmail(e) = {}
    /\ req' = [req EXCEPT ![r] =
         [IdleRequest EXCEPT !.pc = "newchange", !.user = u, !.email = e, !.since = now]]
    /\ UNCHANGED <<now, email, banned, loginTokens, changeTokens, sessions,
                   issued, changesIssued, applied>>

CreateEmailChangeToken(r) ==
    /\ req[r].pc = "newchange"
    /\ \E t \in ChangeTokens \ changesIssued :
        /\ changesIssued' = changesIssued \cup {t}
        /\ changeTokens' = changeTokens \cup
             {[token |-> t, user |-> req[r].user, newEmail |-> req[r].email,
               expires |-> Stored(now + EmailChangeTokenExpiry), used |-> FALSE]}
    /\ Done(r)
    /\ UNCHANGED <<now, email, banned, loginTokens, sessions, issued, applied>>

(* The UNIQUE constraint on users.email admits the move. *)
AddressFree(row) == GetUserByEmail(row.newEmail) \subseteq {row.user}

(* UseEmailChangeToken, one transaction: mark the row used and move the     *)
(* address.  users.email is UNIQUE: when another account has taken the      *)
(* address the UPDATE fails and the mark is rolled back with it.            *)
UseEmailChangeToken(t) ==
    /\ \E row \in changeTokens :
        /\ Usable(row, t)
        /\ AddressFree(row)
        /\ changeTokens' = (changeTokens \ {row}) \cup {[row EXCEPT !.used = TRUE]}
        /\ email' = [email EXCEPT ![row.user] = row.newEmail]
    /\ applied' = [applied EXCEPT ![t] = @ + 1]
    /\ UNCHANGED <<now, banned, loginTokens, sessions, req, issued, changesIssued>>
-----------------------------------------------------------------------------
(* A statement fails, or the server restarts: the handler ends there. *)
Abort(r) ==
    /\ req[r].pc # "idle"
    /\ Done(r)
    /\ UNCHANGED <<now, email, banned, loginTokens, changeTokens, sessions,
                   issued, changesIssued, applied>>

(* Bans come and go: MakhorSessions says how. *)
SetBanned(u) ==
    /\ banned' = IF u \in banned THEN banned \ {u} ELSE banned \cup {u}
    /\ UNCHANGED <<now, email, loginTokens, changeTokens, sessions, req,
                   issued, changesIssued, applied>>

(* What a DELETE ... WHERE expires_at < now leaves of a table: a row of     *)
(* this very second may go or stay.                                         *)
Kept(table) ==
    {{row \in table : row.expires >= Stored(now)} \ due :
        due \in SUBSET {row \in table : row.expires = Stored(now)}}

(* CleanupExpired: the statements on the two token tables. *)
CleanupExpired ==
    /\ \/ /\ loginTokens' \in Kept(loginTokens)
          /\ UNCHANGED changeTokens
       \/ /\ changeTokens' \in Kept(changeTokens)
          /\ UNCHANGED loginTokens
    /\ UNCHANGED <<now, email, banned, sessions, req, issued, changesIssued, applied>>

Tick ==
    /\ now < MaxTime
    /\ \A r \in Reqs : req[r].pc # "idle" => now < req[r].since + MaxRequestTime
    /\ now' = now + 1
    /\ UNCHANGED <<email, banned, loginTokens, changeTokens, sessions, req,
                   issued, changesIssued, applied>>

Next ==
    \/ \E r \in Reqs :
        \/ \E e \in Emails : LoginSubmit(r, e)
        \/ \E t \in Tokens : ValidateLoginToken(r, t)
        \/ \E u \in Users, e \in Emails : ChangeEmailSubmit(r, u, e)
        \/ CreateLoginToken(r) \/ LookupUser(r) \/ CreateSession(r)
        \/ CreateEmailChangeToken(r) \/ Abort(r)
    \/ \E t \in ChangeTokens : UseEmailChangeToken(t)
    \/ \E u \in Users : SetBanned(u)
    \/ CleanupExpired
    \/ Tick

Spec == Init /\ [][Next]_vars
-----------------------------------------------------------------------------
(* Every variable has its type. *)
TypeOK ==
    /\ now \in Nat
    /\ email \in [Users -> Emails]
    /\ banned \subseteq Users
    /\ loginTokens \subseteq LoginTokenRow
    /\ changeTokens \subseteq ChangeTokenRow
    /\ sessions \subseteq SessionRow
    /\ req \in [Reqs -> Request]
    /\ issued \in [Tokens -> Nat \cup {None}]
    /\ changesIssued \subseteq ChangeTokens
    /\ applied \in [ChangeTokens -> Nat]

(* db.go, login_tokens: "Tokens are single-use".  However many requests     *)
(* redeem a login link at once, and whatever fails or is cleaned up in      *)
(* between, at most one session ever comes out of it.                       *)
SingleUse ==
    \A a, b \in sessions : a.from = b.from => a = b

(* db.go, login_tokens: "... and expire after 15 minutes".  A session is    *)
(* created within the life of its link plus the time one request takes; but *)
(* that life is longer than LoginTokenExpiry where local time is ahead of   *)
(* UTC, and shorter where it is behind.                                     *)
NoLateLogin ==
    \A row \in sessions :
        /\ issued[row.from] # None
        /\ row.at <= issued[row.from] + LoginTokenExpiry + ZoneOffset + MaxRequestTime

(* An email-change link moves an address at most once: opening it again,    *)
(* after the user has moved on, does not bring the address back.            *)
ChangeAppliedOnce == \A t \in ChangeTokens : applied[t] <= 1

(* No two accounts share an address, although the check for a free address  *)
(* is made when the link is asked for and the move when it is opened.       *)
EmailsUnique == \A u, v \in Users : email[u] = email[v] => u = v

-----------------------------------------------------------------------------
(* A login link works once and in its time, through all interleavings of    *)
(* the statements of LoginVerify with each other and with the clean-up.     *)
LinksWorkOnce ==
    /\ TypeOK
    /\ SingleUse
    /\ NoLateLogin

(* Confirmations of address changes, two of one link or of two accounts for *)
(* one address, apply a change once and leave addresses unique.             *)
AddressChangesSafe ==
    /\ ChangeAppliedOnce
    /\ EmailsUnique

(* Links, of logins and of address changes, do what they were made for, and *)
(* that once.                                                               *)
LinksSafe == LinksWorkOnce /\ AddressChangesSafe
=============================================================================
