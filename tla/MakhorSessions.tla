--------------------------- MODULE MakhorSessions ---------------------------
(***************************************************************************)
(* Sessions, the in-memory session cache and bans of the makhor link       *)
(* aggregator (tools/makhor).  How a session comes to be is in MakhorLogin *)
(* and is one step here.                                                   *)
(*                                                                         *)
(* Every HTTP request runs in its own goroutine.  It first goes through    *)
(* the Auth middleware (cache lookup; on a miss two database reads and a   *)
(* cache fill) and then through one handler.  Each database statement and  *)
(* each critical section of the cache mutex is one atomic step, and steps  *)
(* of concurrent requests, of the hourly clean-up, of the cache sweeper    *)
(* and of the makhor-admin process interleave freely.                      *)
(*                                                                         *)
(* SQL tables are sets of rows.  Random tokens never repeat.  The clock    *)
(* ticks in whole seconds, the resolution of datetime('now').  The SQLite  *)
(* driver stores a time.Time as its String(), the server's local time with *)
(* a fraction of a second, and SQL compares the strings: a stored time is  *)
(* off from datetime('now'), which is UTC, by the zone of the server, and  *)
(* is greater than the string of the very second it falls in.              *)
(***************************************************************************)
EXTENDS Integers

CONSTANTS
    Users,             \* accounts
    NoUser,            \* "nobody": the absent user of a request context
    Inviter,           \* users.invited_by, fixed here
    Operated,          \* accounts an operator manages with makhor-admin
    Sids,              \* session tokens that may be generated
    NoSid,             \* an absent cookie
    Reqs,              \* request goroutines
    SessionExpiry, SessionCacheTTL,
    ZoneOffset,        \* local time of the server minus UTC
    MaxRequestTime,    \* longest a request stays in flight, in seconds
    MaxTime            \* bound on the clock, for model checking

ASSUME UsersAssumption == NoUser \notin Users
ASSUME InviterAssumption == Inviter \in [Users -> Users \cup {NoUser}]
ASSUME OperatedAssumption == Operated \subseteq Users
ASSUME SidsAssumption == NoSid \notin Sids
ASSUME DurationsAssumption ==
    /\ SessionExpiry \in Nat
    /\ SessionCacheTTL \in Nat \ {0}
    /\ ZoneOffset \in Int
    /\ MaxRequestTime \in Nat
    /\ MaxTime \in Nat

VARIABLES
    now,          \* wall clock
    banned,       \* users.is_banned
    admin,        \* users.is_admin
    sessions,     \* table sessions
    cache,        \* SessionCache.cache
    req,          \* the request goroutines
    \* History variables: no step of the system reads them.
    owner,        \* the account each session was created for
    lastValid,    \* last second in which a session row was valid
    lastUnbanned, \* last second in which an account was not banned
    lastAdmin     \* last second in which an account was an admin

db      == <<banned, admin, sessions>>
history == <<owner, lastValid, lastUnbanned, lastAdmin>>
vars    == <<now, db, cache, req, history>>

-----------------------------------------------------------------------------
Never == -1

Snapshot == [id : Users, banned : BOOLEAN, admin : BOOLEAN]
Anonymous == [id |-> NoUser, banned |-> FALSE, admin |-> FALSE]

SessionRow == [token : Sids, user : Users, expires : Int]
CachedSession == [token : Sids, user : Snapshot, expires : Nat]

Pcs == {"idle", "select", "purge", "getuser", "set", "serve"}

Request ==
    [pc : Pcs, cookie : Sids \cup {NoSid}, uid : Users \cup {NoUser},
     user : Snapshot \cup {Anonymous}, since : Nat]

IdleRequest ==
    [pc |-> "idle", cookie |-> NoSid, uid |-> NoUser, user |-> Anonymous,
     since |-> 0]

(* A time as the driver writes it. *)
Stored(t) == t + ZoneOffset

Done(r) == req' = [req EXCEPT ![r] = IdleRequest]
Goto(r, pc) == req' = [req EXCEPT ![r].pc = pc]

(* The row GetUserByID returns: a copy, not a reference to the table. *)
GetUserByID(u) == [id |-> u, banned |-> banned[u], admin |-> admin[u]]

Init ==
    /\ now = 0
    /\ banned = [u \in Users |-> FALSE]
    /\ admin \in [Users -> BOOLEAN]
    /\ sessions = {}
    /\ cache = {}
    /\ req = [r \in Reqs |-> IdleRequest]
    /\ owner = [s \in Sids |-> NoUser]
    /\ lastValid = [s \in Sids |-> Never]
    /\ lastUnbanned = [u \in Users |-> 0]
    /\ lastAdmin = [u \in Users |-> IF admin[u] THEN 0 ELSE Never]

-----------------------------------------------------------------------------
(* SessionCache.Get: an entry for the token that has not yet expired. *)
CacheHitStale(e, c) == e.token = c
CacheHitAnyToken(e, c) == now < e.expires
CacheHit(e, c) == e.token = c /\ now < e.expires

(* A request arrives, with the cookie c of a session created earlier or    *)
(* with none, and goes through SessionCache.Get and the middleware's        *)
(* cache-hit branch.  Which handler it is for is chosen when one runs: the  *)
(* middleware does the same for all of them.                                *)
Arrive(r) ==
    /\ req[r].pc = "idle"
    /\ \E c \in {NoSid} \cup {s \in Sids : owner[s] # NoUser} :
        LET hits == {e \in cache : CacheHit(e, c)}
            arrived == [IdleRequest EXCEPT !.cookie = c, !.since = now] IN
        \/ /\ c = NoSid
           /\ req' = [req EXCEPT ![r] = [arrived EXCEPT !.pc = "serve"]]
        \/ /\ c # NoSid
           /\ hits = {}
           /\ req' = [req EXCEPT ![r] = [arrived EXCEPT !.pc = "select"]]
        \/ \E e \in hits :
             req' = [req EXCEPT ![r] =
                 [arrived EXCEPT !.pc = "serve",
                     !.user = IF e.user.banned THEN Anonymous ELSE e.user]]
    /\ UNCHANGED <<now, db, cache, owner>>

SessionValid(row) == row.expires >= now

(* ValidateSession, first statement: SELECT user_id FROM sessions ... *)
SelectSession(r) ==
    LET rows == {row \in sessions : row.token = req[r].cookie /\ SessionValid(row)} IN
    /\ req[r].pc = "select"
    /\ IF rows = {}
       THEN Goto(r, "purge")
       ELSE \E row \in rows :
              req' = [req EXCEPT ![r].pc = "getuser", ![r].uid = row.user]
    /\ UNCHANGED <<now, db, cache, owner>>

(* ValidateSession, ErrNoRows branch: DELETE the expired row, if any. *)
PurgeSession(r) ==
    /\ req[r].pc = "purge"
    /\ sessions' = {row \in sessions : row.token # req[r].cookie \/ SessionValid(row)}
    /\ Goto(r, "serve")
    /\ UNCHANGED <<now, banned, admin, cache, owner>>

(* ValidateSession, last statement: GetUserByID. *)
LoadUser(r) ==
    /\ req[r].pc = "getuser"
    /\ req' = [req EXCEPT ![r].pc = "set", ![r].user = GetUserByID(req[r].uid)]
    /\ UNCHANGED <<now, db, cache, owner>>

(* Either read fails (a busy or closed database): the request goes on       *)
(* without a user and nothing is cached.                                    *)
LookupError(r) ==
    /\ req[r].pc \in {"select", "getuser"}
    /\ Goto(r, "serve")
    /\ UNCHANGED <<now, db, cache, owner>>

(* The entry SessionCache.Set writes. *)
Entry(r) ==
    [token |-> req[r].cookie, expires |-> now + SessionCacheTTL, user |-> req[r].user]

(* SessionCache.Set; a banned user is cached but not put into the context. *)
CacheSet(r) ==
    /\ req[r].pc = "set"
    /\ cache' = {e \in cache : e.token # req[r].cookie} \cup {Entry(r)}
    /\ req' = [req EXCEPT ![r].pc = "serve",
                   ![r].user = IF @.banned THEN Anonymous ELSE @]
    /\ UNCHANGED <<now, db, owner>>
-----------------------------------------------------------------------------
(* A page, or an error page: nothing modelled here changes. *)
ServePage(r) ==
    /\ req[r].pc = "serve"
    /\ Done(r)
    /\ UNCHANGED <<now, db, cache, owner>>

(* The end of LoginVerify, for account u whose login link has been checked:  *)
(* CreateSession.  Nothing here asks whether the account is banned.          *)
CreateSession(r, u) ==
    /\ req[r].pc = "serve"
    /\ \E s \in Sids :
        /\ owner[s] = NoUser
        /\ sessions' = sessions \cup
             {[token |-> s, user |-> u, expires |-> Stored(now + SessionExpiry)]}
        /\ owner' = [owner EXCEPT ![s] = u]
    /\ Done(r)
    /\ UNCHANGED <<now, banned, admin, cache>>

(* Logout: DeleteSession by cookie; the session cache is not told. *)
Logout(r) ==
    /\ req[r].pc = "serve"
    /\ req[r].cookie # NoSid
    /\ sessions' = {row \in sessions : row.token # req[r].cookie}
    /\ Done(r)
    /\ UNCHANGED <<now, banned, admin, cache, owner>>

(* AdminBanUserSubmit: an admin, or the inviter of the target, bans; the    *)
(* actor is the copy in the request context.  When the ban should end       *)
(* (ban_expires_at) is left out: CheckAndClearExpiredBans has no caller.    *)
BanUser(r, target) ==
    LET actor == req[r].user IN
    /\ req[r].pc = "serve"
    /\ actor.id # NoUser
    /\ actor.id # target
    /\ actor.admin \/ Inviter[target] = actor.id
    /\ banned' = [banned EXCEPT ![target] = TRUE]
    /\ Done(r)
    /\ UNCHANGED <<now, admin, sessions, cache, owner>>

(* AdminUnbanUser. *)
UnbanUser(r, target) ==
    /\ req[r].pc = "serve"
    /\ req[r].user.admin
    /\ banned' = [banned EXCEPT ![target] = FALSE]
    /\ Done(r)
    /\ UNCHANGED <<now, admin, sessions, cache, owner>>
-----------------------------------------------------------------------------
(* The makhor-admin command: another process on the same database file.     *)
AdminCLI ==
    /\ \E u \in Operated :
         \/ \E b \in BOOLEAN : banned' = [banned EXCEPT ![u] = b] /\ UNCHANGED admin
         \/ \E b \in BOOLEAN : admin' = [admin EXCEPT ![u] = b] /\ UNCHANGED banned
    /\ UNCHANGED <<now, sessions, cache, req, owner>>

(* CleanupExpired, hourly: its statement on the sessions table compares two *)
(* stored times, so a row of this very second may go or stay.               *)
CleanupExpired ==
    /\ \E due \in SUBSET {row \in sessions : row.expires = Stored(now)} :
         sessions' = {row \in sessions : row.expires >= Stored(now)} \ due
    /\ UNCHANGED <<now, banned, admin, cache, req, owner>>

(* SessionCache.cleanup, every minute, under the write lock. *)
CacheCleanup ==
    /\ cache' = {e \in cache : now <= e.expires}
    /\ UNCHANGED <<now, db, req, owner>>

(* The server process stops and starts again: memory is lost. *)
Restart ==
    /\ cache' = {}
    /\ req' = [r \in Reqs |-> IdleRequest]
    /\ UNCHANGED <<now, db, owner>>

(* Time passes; no request is in flight for longer than MaxRequestTime. *)
Tick ==
    /\ now < MaxTime
    /\ \A r \in Reqs : req[r].pc # "idle" => now < req[r].since + MaxRequestTime
    /\ now' = now + 1
    /\ UNCHANGED <<db, cache, req, owner>>

RequestStep(r) ==
    \/ Arrive(r)
    \/ SelectSession(r) \/ PurgeSession(r) \/ LoadUser(r) \/ CacheSet(r)
    \/ LookupError(r)
    \/ ServePage(r)
    \/ \E u \in Users : CreateSession(r, u) \/ BanUser(r, u) \/ UnbanUser(r, u)
    \/ Logout(r)

Step ==
    \/ \E r \in Reqs : RequestStep(r)
    \/ AdminCLI \/ CleanupExpired \/ CacheCleanup \/ Restart \/ Tick

(* What the history variables remember of every step. *)
Remember ==
    /\ lastValid' = [s \in Sids |->
         IF \E row \in sessions' : row.token = s /\ row.expires >= now'
         THEN now' ELSE lastValid[s]]
    /\ lastUnbanned' = [u \in Users |-> IF ~banned'[u] THEN now' ELSE lastUnbanned[u]]
    /\ lastAdmin' = [u \in Users |-> IF admin'[u] THEN now' ELSE lastAdmin[u]]

Next == Step /\ Remember

Spec == Init /\ [][Next]_vars
-----------------------------------------------------------------------------
(* Every variable has its type: tables hold rows of their schema, a request *)
(* is at one of its program points.                                         *)
TypeOK ==
    /\ now \in Nat
    /\ banned \in [Users -> BOOLEAN]
    /\ admin \in [Users -> BOOLEAN]
    /\ sessions \subseteq SessionRow
    /\ cache \subseteq CachedSession
    /\ req \in [Reqs -> Request]
    /\ owner \in [Sids -> Users \cup {NoUser}]
    /\ lastValid \in [Sids -> Nat \cup {Never}]
    /\ lastUnbanned \in [Users -> Nat \cup {Never}]
    /\ lastAdmin \in [Users -> Nat \cup {Never}]

Authenticated(r) == req[r].pc = "serve" /\ req[r].user.id # NoUser

(* A request acts only as the account its session was created for, also     *)
(* when the identity comes from the cache.                                  *)
RightAccount ==
    \A r \in Reqs : Authenticated(r) =>
        req[r].cookie # NoSid /\ req[r].user.id = owner[req[r].cookie]

(* The longest the copy of a user row in a request context can be out of    *)
(* date: the request that filled the cache, the life of the cache entry,    *)
(* and the request that hit it.                                             *)
StaleBound == SessionCacheTTL + 2 * MaxRequestTime

(* A served request's session row was valid, and its account not banned,    *)
(* less than StaleBound seconds ago: logout, expiry and ban all take effect *)
(* by then, although nothing invalidates the session cache.                 *)
AccessExpires ==
    \A r \in Reqs : Authenticated(r) =>
        /\ now < lastValid[req[r].cookie] + StaleBound
        /\ now < lastUnbanned[req[r].user.id] + StaleBound

(* A demoted admin loses the admin handlers within the same bound. *)
AdminExpires ==
    \A r \in Reqs : Authenticated(r) /\ req[r].user.admin =>
        now < lastAdmin[req[r].user.id] + StaleBound

-----------------------------------------------------------------------------
(* Rights end in time: every variable has its type, and neither the access  *)
(* of a session nor the rights of an admin outlive their end by more than   *)
(* the cache and two requests allow.                                        *)
RightsExpire ==
    /\ TypeOK
    /\ AccessExpires
    /\ AdminExpires
=============================================================================
