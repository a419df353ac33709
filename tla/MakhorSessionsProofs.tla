------------------------ MODULE MakhorSessionsProofs ------------------------
(***************************************************************************)
(* What MakhorSessions guarantees for any number of accounts, sessions and *)
(* requests, any cache TTL and any zone of the server, proved with TLAPS.  *)
(*                                                                         *)
(* The argument follows a copy of a users row from the read that made it   *)
(* through the request that made it, the cache, and the request that found *)
(* it there, and says at each station how old it can be.                   *)
(***************************************************************************)
EXTENDS MakhorSessions, TLAPS

(* History is not ahead of the clock, and what is so now is remembered.     *)
HistoryCurrent ==
    /\ \A s \in Sids : lastValid[s] <= now
    /\ \A u \in Users : lastUnbanned[u] <= now /\ lastAdmin[u] <= now
    /\ \A row \in sessions : SessionValid(row) => lastValid[row.token] = now
    /\ \A u \in Users : ~banned[u] => lastUnbanned[u] = now
    /\ \A u \in Users : admin[u] => lastAdmin[u] = now

(* A session row names the account the session was created for. *)
SessionsOwned == \A row \in sessions : row.user = owner[row.token]

(* The copy u of a users row, got for the session c, is of the session's    *)
(* account, and what it allows was so at time t or later.                   *)
Vouched(c, u, t) ==
    /\ c \in Sids /\ u \in Snapshot
    /\ u.id = owner[c]
    /\ t <= lastValid[c]
    /\ ~u.banned => t <= lastUnbanned[u.id]
    /\ u.admin => t <= lastAdmin[u.id]

(* A cache entry was vouched for by the request that filled it. *)
EntrySound(e) == Vouched(e.token, e.user, e.expires - SessionCacheTTL - MaxRequestTime)

(* A request within its time, at each of its program points. *)
Sound(q) ==
    q.pc # "idle" =>
        /\ q.since <= now /\ now <= q.since + MaxRequestTime
        /\ q.cookie # NoSid => owner[q.cookie] # NoUser
        /\ q.pc \in {"select", "purge", "getuser"} => q.cookie # NoSid /\ q.user = Anonymous
        /\ q.pc = "getuser" => q.uid = owner[q.cookie] /\ q.since <= lastValid[q.cookie]
        /\ q.pc = "set" => Vouched(q.cookie, q.user, q.since)
        /\ q.pc = "serve" =>
             \/ q.user = Anonymous
             \/ /\ ~q.user.banned
                /\ Vouched(q.cookie, q.user, q.since + 1 - SessionCacheTTL - MaxRequestTime)

IInv ==
    /\ TypeOK
    /\ HistoryCurrent
    /\ SessionsOwned
    /\ \A e \in cache : EntrySound(e)
    /\ \A r \in Reqs : Sound(req[r])
-----------------------------------------------------------------------------
(* At the start nobody is logged in, and the cache is empty.                *)
LEMMA InitIInv == Init => IInv
<1> SUFFICES ASSUME Init PROVE IInv
  OBVIOUS
<1>1. TypeOK
  BY UsersAssumption, SidsAssumption
  DEF Init, TypeOK, Request, IdleRequest, Pcs, Anonymous, Never
<1>2. HistoryCurrent
  BY DEF Init, HistoryCurrent, Never
<1>3. SessionsOwned /\ \A e \in cache : EntrySound(e)
  BY DEF Init, SessionsOwned
<1>4. \A r \in Reqs : Sound(req[r])
  BY DEF Init, Sound, IdleRequest
<1> QED
  BY <1>1, <1>2, <1>3, <1>4 DEF IInv

(* What Remember adds to a step: history only grows, and is current again.  *)
LEMMA HistoryGrows ==
  ASSUME TypeOK, HistoryCurrent, Remember, now' \in Nat, now <= now',
         sessions' \subseteq SessionRow, banned' \in [Users -> BOOLEAN], admin' \in [Users -> BOOLEAN]
  PROVE  /\ lastValid' \in [Sids -> Nat \cup {Never}]
         /\ lastUnbanned' \in [Users -> Nat \cup {Never}]
         /\ lastAdmin' \in [Users -> Nat \cup {Never}]
         /\ \A s \in Sids : lastValid[s] <= lastValid'[s]
         /\ \A u \in Users : lastUnbanned[u] <= lastUnbanned'[u] /\ lastAdmin[u] <= lastAdmin'[u]
         /\ HistoryCurrent'
<1>1. /\ lastValid' \in [Sids -> Nat \cup {Never}]
      /\ \A s \in Sids : lastValid[s] <= lastValid'[s] /\ lastValid'[s] <= now'
      /\ \A row \in sessions' : row.expires >= now' => lastValid'[row.token] = now'
  BY DEF TypeOK, HistoryCurrent, Remember, Never, SessionRow
<1>2. /\ lastUnbanned' \in [Users -> Nat \cup {Never}]
      /\ \A u \in Users : lastUnbanned[u] <= lastUnbanned'[u] /\ lastUnbanned'[u] <= now'
      /\ \A u \in Users : ~banned'[u] => lastUnbanned'[u] = now'
  BY DEF TypeOK, HistoryCurrent, Remember, Never
<1>3. /\ lastAdmin' \in [Users -> Nat \cup {Never}]
      /\ \A u \in Users : lastAdmin[u] <= lastAdmin'[u] /\ lastAdmin'[u] <= now'
      /\ \A u \in Users : admin'[u] => lastAdmin'[u] = now'
  BY DEF TypeOK, HistoryCurrent, Remember, Never
<1> QED
  BY <1>1, <1>2, <1>3 DEF HistoryCurrent, SessionValid

(* Sessions get an owner and keep it. *)
OwnersKept == \A s \in Sids : owner[s] # NoUser => owner'[s] = owner[s]

(* What a copy was vouched for, it is still, and all the more for an        *)
(* earlier time.                                                            *)
LEMMA VouchedStays ==
  ASSUME TypeOK, TypeOK', OwnersKept,
         \A s \in Sids : lastValid[s] <= lastValid'[s],
         \A u \in Users : lastUnbanned[u] <= lastUnbanned'[u] /\ lastAdmin[u] <= lastAdmin'[u],
         NEW c, NEW u, NEW t \in Int, NEW s \in Int, s <= t, Vouched(c, u, t)
  PROVE  Vouched(c, u, s)'
<1>1. c \in Sids /\ u \in Snapshot /\ u.id \in Users /\ u.id = owner[c] /\ owner'[c] = owner[c]
  BY UsersAssumption DEF Vouched, Snapshot, OwnersKept
<1>2. s <= lastValid'[c]
  BY <1>1 DEF Vouched, TypeOK, Never
<1>3. (~u.banned => s <= lastUnbanned'[u.id]) /\ (u.admin => s <= lastAdmin'[u.id])
  BY <1>1 DEF Vouched, TypeOK, Never
<1> QED
  BY <1>1, <1>2, <1>3 DEF Vouched

(* A cache entry stays vouched for. *)
LEMMA EntryStaysSound ==
  ASSUME TypeOK, TypeOK', OwnersKept,
         \A s \in Sids : lastValid[s] <= lastValid'[s],
         \A u \in Users : lastUnbanned[u] <= lastUnbanned'[u] /\ lastAdmin[u] <= lastAdmin'[u],
         NEW e \in CachedSession, EntrySound(e)
  PROVE  EntrySound(e)'
<1>1. e.expires - SessionCacheTTL - MaxRequestTime \in Int
  BY DurationsAssumption DEF CachedSession
<1> QED
  BY <1>1, VouchedStays DEF EntrySound

(* A request stays as it should be, as long as it is within its time. *)
LEMMA RequestStaysSound ==
  ASSUME TypeOK, TypeOK', OwnersKept,
         \A s \in Sids : lastValid[s] <= lastValid'[s],
         \A u \in Users : lastUnbanned[u] <= lastUnbanned'[u] /\ lastAdmin[u] <= lastAdmin'[u],
         NEW q \in Request, Sound(q), now <= now',
         q.pc # "idle" => now' <= q.since + MaxRequestTime
  PROVE  Sound(q)'
<1> SUFFICES ASSUME q.pc # "idle" PROVE Sound(q)'
  BY DEF Sound
<1>1. q.since \in Nat /\ q.since \in Int /\ q.since + 1 - SessionCacheTTL - MaxRequestTime \in Int
      /\ q.cookie \in Sids \cup {NoSid}
  BY DurationsAssumption DEF Request
<1>2. q.cookie # NoSid => owner'[q.cookie] = owner[q.cookie] /\ owner[q.cookie] # NoUser
  BY <1>1 DEF Sound, OwnersKept
<1>3. q.pc = "getuser" => q.uid = owner'[q.cookie] /\ q.since <= lastValid'[q.cookie]
  BY <1>1, <1>2 DEF Sound, TypeOK, Never
<1>4. q.pc = "set" => Vouched(q.cookie, q.user, q.since)'
  BY <1>1, VouchedStays DEF Sound
<1>5. q.pc = "serve" =>
           \/ q.user = Anonymous
           \/ /\ ~q.user.banned
              /\ Vouched(q.cookie, q.user, q.since + 1 - SessionCacheTTL - MaxRequestTime)'
  BY <1>1, VouchedStays DEF Sound
<1>6. q.since <= now'
  BY <1>1 DEF Sound, TypeOK
<1> QED
  BY <1>2, <1>3, <1>4, <1>5, <1>6 DEF Sound

(* A step of the request r, which leaves it as new, with the tables and the *)
(* cache it leaves.                                                         *)
LEMMA RequestStepKeeps ==
  ASSUME IInv, NEW r \in Reqs, NEW new \in Request, req' = [req EXCEPT ![r] = new],
         now' = now, Remember, OwnersKept, owner' \in [Sids -> Users \cup {NoUser}],
         banned' \in [Users -> BOOLEAN], admin' \in [Users -> BOOLEAN],
         sessions' \subseteq SessionRow, SessionsOwned',
         cache' \subseteq CachedSession, \A e \in cache' : e \in cache \/ EntrySound(e),
         Sound(new)
  PROVE  IInv'
<1>1. /\ TypeOK' /\ HistoryCurrent'
      /\ \A s \in Sids : lastValid[s] <= lastValid'[s]
      /\ \A u \in Users : lastUnbanned[u] <= lastUnbanned'[u] /\ lastAdmin[u] <= lastAdmin'[u]
  <2>1. now' \in Nat /\ now <= now' /\ TypeOK /\ HistoryCurrent
    BY DEF IInv, TypeOK
  <2>2. /\ lastValid' \in [Sids -> Nat \cup {Never}]
        /\ lastUnbanned' \in [Users -> Nat \cup {Never}]
        /\ lastAdmin' \in [Users -> Nat \cup {Never}]
        /\ \A s \in Sids : lastValid[s] <= lastValid'[s]
        /\ \A u \in Users : lastUnbanned[u] <= lastUnbanned'[u] /\ lastAdmin[u] <= lastAdmin'[u]
        /\ HistoryCurrent'
    BY <2>1, HistoryGrows
  <2>3. req' \in [Reqs -> Request]
    BY <2>1 DEF TypeOK
  <2> QED
    BY <2>1, <2>2, <2>3 DEF TypeOK
<1>2. ASSUME NEW e \in cache'
      PROVE  EntrySound(e)'
  <2>1. e \in CachedSession /\ EntrySound(e) /\ TypeOK
    BY DEF IInv
  <2> QED
    BY <1>1, <2>1, EntryStaysSound
<1>3. ASSUME NEW p \in Reqs
      PROVE  Sound(req[p])'
  <2>1. req[p] \in Request /\ req'[p] = IF p = r THEN new ELSE req[p]
    BY DEF IInv, TypeOK
  <2>2. PICK q \in Request : q = req'[p] /\ Sound(q)
    BY <2>1 DEF IInv
  <2>3. TypeOK /\ now <= now' /\ (q.pc # "idle" => now' <= q.since + MaxRequestTime)
    BY <2>2 DEF Sound, IInv, TypeOK
  <2>4. Sound(q)'
    BY <1>1, <2>2, <2>3, RequestStaysSound
  <2> QED
    BY <2>2, <2>4
<1> QED
  BY <1>1, <1>2, <1>3 DEF IInv
-----------------------------------------------------------------------------
(* A request that ends. *)
LEMMA IdleSound == IdleRequest \in Request /\ Sound(IdleRequest)
  BY UsersAssumption, SidsAssumption DEF IdleRequest, Request, Pcs, Anonymous, Sound

(* A request comes in: without a user, or with the one of a cache entry,    *)
(* which is as old as the entry allows.                                     *)
LEMMA ArriveKeeps ==
  ASSUME IInv, NEW r \in Reqs, Arrive(r), Remember
  PROVE  IInv'
<1>1. PICK c \in {NoSid} \cup {s \in Sids : owner[s] # NoUser} : Arrive(r)!2!(c)
  BY DEF Arrive
<1> DEFINE arrived == [IdleRequest EXCEPT !.cookie = c, !.since = now]
<1>2. PICK new : /\ req' = [req EXCEPT ![r] = new]
                 /\ \/ c = NoSid /\ new = [arrived EXCEPT !.pc = "serve"]
                    \/ c # NoSid /\ new = [arrived EXCEPT !.pc = "select"]
                    \/ \E e \in cache :
                         /\ CacheHit(e, c)
                         /\ new = [arrived EXCEPT !.pc = "serve",
                                     !.user = IF e.user.banned THEN Anonymous ELSE e.user]
  BY <1>1
<1>3. now \in Nat /\ now <= now + MaxRequestTime
  BY DurationsAssumption DEF IInv, TypeOK
<1>4. new \in Request /\ Sound(new)
  <2>1. ASSUME NEW pc \in {"serve", "select"}, pc = "select" => c # NoSid,
               new = [arrived EXCEPT !.pc = pc]
        PROVE  new \in Request /\ Sound(new)
    <3>1. /\ new.pc = pc /\ new.cookie = c /\ new.since = now /\ new.user = Anonymous
          /\ new \in Request
      BY <1>3, <2>1, UsersAssumption DEF IdleRequest, Request, Pcs, Anonymous
    <3>2. c # NoSid => owner[c] # NoUser
      OBVIOUS
    <3> HIDE DEF arrived
    <3> QED
      BY <1>3, <2>1, <3>1, <3>2 DEF Sound
  <2>3. ASSUME NEW e \in cache, CacheHit(e, c),
               new = [arrived EXCEPT !.pc = "serve",
                        !.user = IF e.user.banned THEN Anonymous ELSE e.user]
        PROVE  new \in Request /\ Sound(new)
    <3>1. /\ e \in CachedSession /\ e.token = c /\ now < e.expires /\ e.expires \in Nat
          /\ Vouched(c, e.user, e.expires - SessionCacheTTL - MaxRequestTime)
      BY <2>3 DEF CacheHit, IInv, TypeOK, EntrySound, CachedSession
    <3>2. now + 1 - SessionCacheTTL - MaxRequestTime <= e.expires - SessionCacheTTL - MaxRequestTime
      BY <1>3, <3>1, DurationsAssumption
    <3>3. Vouched(c, e.user, now + 1 - SessionCacheTTL - MaxRequestTime)
      BY <1>3, <3>1, <3>2, DurationsAssumption DEF Vouched, IInv, TypeOK, Never, Snapshot
    <3>4. c # NoSid /\ e.user \in Snapshot
      BY <3>1, SidsAssumption DEF Vouched
    <3>5. /\ new.pc = "serve" /\ new.cookie = c /\ new.since = now /\ new.uid = NoUser
          /\ new.user = IF e.user.banned THEN Anonymous ELSE e.user
          /\ new \in Request
      BY <1>3, <2>3, <3>4, UsersAssumption DEF IdleRequest, Request, Pcs, Anonymous
    <3> HIDE DEF arrived
    <3> QED
      BY <1>3, <3>3, <3>4, <3>5 DEF Sound
  <2> QED
    BY <1>2, <2>1, <2>3
<1>5. UNCHANGED <<now, banned, admin, sessions, cache, owner>>
  BY DEF Arrive, db
<1>6. OwnersKept /\ SessionsOwned'
  BY <1>5 DEF OwnersKept, IInv, SessionsOwned
<1> QED
  BY <1>2, <1>4, <1>5, <1>6, RequestStepKeeps DEF IInv, TypeOK

(* A row that is valid now vouches for the session at this time. *)
LEMMA SelectSessionKeeps ==
  ASSUME IInv, NEW r \in Reqs, SelectSession(r), Remember
  PROVE  IInv'
<1>1. /\ req[r] \in Request /\ Sound(req[r]) /\ req[r].pc = "select"
      /\ UNCHANGED <<now, banned, admin, sessions, cache, owner>>
  BY DEF IInv, TypeOK, SelectSession, db
<1>2. OwnersKept /\ SessionsOwned'
  BY <1>1 DEF OwnersKept, IInv, SessionsOwned
<1>3. CASE Goto(r, "purge")
  <2> DEFINE new == [req[r] EXCEPT !.pc = "purge"]
  <2>1. new \in Request /\ Sound(new) /\ req' = [req EXCEPT ![r] = new]
    BY <1>1, <1>3 DEF Request, Pcs, Sound, Goto
  <2> HIDE DEF new
  <2> QED
    BY <1>1, <1>2, <2>1, RequestStepKeeps DEF IInv, TypeOK
<1>4. ASSUME NEW row \in sessions, row.token = req[r].cookie, SessionValid(row),
             req' = [req EXCEPT ![r].pc = "getuser", ![r].uid = row.user]
      PROVE  IInv'
  <2> DEFINE new == [req[r] EXCEPT !.pc = "getuser", !.uid = row.user]
  <2>1. row \in SessionRow /\ row.user = owner[req[r].cookie]
        /\ lastValid[req[r].cookie] = now
    BY <1>4 DEF IInv, TypeOK, SessionsOwned, HistoryCurrent
  <2>2. new \in Request /\ req' = [req EXCEPT ![r] = new]
    BY <1>1, <1>4, <2>1 DEF Request, Pcs, SessionRow, IInv, TypeOK
  <2>3. Sound(new)
    BY <1>1, <2>1 DEF Sound, Request, IInv, TypeOK
  <2> HIDE DEF new
  <2> QED
    BY <1>1, <1>2, <2>2, <2>3, RequestStepKeeps DEF IInv, TypeOK
<1> QED
  BY <1>3, <1>4 DEF SelectSession

(* Deleting an expired row takes nothing from anybody. *)
LEMMA PurgeSessionKeeps ==
  ASSUME IInv, NEW r \in Reqs, PurgeSession(r), Remember
  PROVE  IInv'
<1> DEFINE new == [req[r] EXCEPT !.pc = "serve"]
<1>1. /\ req[r] \in Request /\ Sound(req[r]) /\ req[r].pc = "purge"
      /\ UNCHANGED <<now, banned, admin, cache, owner>> /\ sessions' \subseteq sessions
  BY DEF IInv, TypeOK, PurgeSession
<1>2. OwnersKept /\ SessionsOwned'
  BY <1>1 DEF OwnersKept, IInv, SessionsOwned
<1>3. new \in Request /\ Sound(new) /\ req' = [req EXCEPT ![r] = new]
  BY <1>1 DEF Request, Pcs, Sound, Goto, PurgeSession
<1> HIDE DEF new
<1> QED
  BY <1>1, <1>2, <1>3, RequestStepKeeps DEF IInv, TypeOK

(* A query that fails ends the request as an anonymous one.                 *)
LEMMA LookupErrorKeeps ==
  ASSUME IInv, NEW r \in Reqs, LookupError(r), Remember
  PROVE  IInv'
<1> DEFINE new == [req[r] EXCEPT !.pc = "serve"]
<1>1. /\ req[r] \in Request /\ Sound(req[r]) /\ req[r].pc \in {"select", "getuser"}
      /\ UNCHANGED <<now, banned, admin, sessions, cache, owner>>
  BY DEF IInv, TypeOK, LookupError, db
<1>2. OwnersKept /\ SessionsOwned'
  BY <1>1 DEF OwnersKept, IInv, SessionsOwned
<1>3. new \in Request /\ Sound(new) /\ req' = [req EXCEPT ![r] = new]
  BY <1>1 DEF Request, Pcs, Sound, Goto, LookupError
<1> HIDE DEF new
<1> QED
  BY <1>1, <1>2, <1>3, RequestStepKeeps DEF IInv, TypeOK

(* The row that is read vouches for what it says at this time. *)
LEMMA LoadUserKeeps ==
  ASSUME IInv, NEW r \in Reqs, LoadUser(r), Remember
  PROVE  IInv'
<1> DEFINE u == req[r].uid
<1> DEFINE new == [req[r] EXCEPT !.pc = "set", !.user = GetUserByID(u)]
<1>1. /\ req[r] \in Request /\ Sound(req[r]) /\ req[r].pc = "getuser"
      /\ UNCHANGED <<now, banned, admin, sessions, cache, owner>>
  BY DEF IInv, TypeOK, LoadUser, db
<1>2. OwnersKept /\ SessionsOwned'
  BY <1>1 DEF OwnersKept, IInv, SessionsOwned
<1>3. /\ req[r].cookie \in Sids /\ u = owner[req[r].cookie] /\ u \in Users
      /\ req[r].since <= lastValid[req[r].cookie] /\ req[r].since <= now
  BY <1>1 DEF Sound, Request, IInv, TypeOK
<1>4. GetUserByID(u) \in Snapshot
  BY <1>3 DEF GetUserByID, Snapshot, IInv, TypeOK
<1>5. new \in Request /\ req' = [req EXCEPT ![r] = new]
  BY <1>1, <1>4 DEF Request, Pcs, LoadUser, IInv, TypeOK
<1>6. Vouched(req[r].cookie, GetUserByID(u), req[r].since)
  BY <1>3, <1>4 DEF Vouched, GetUserByID, IInv, HistoryCurrent
<1>7. Sound(new)
  BY <1>1, <1>6 DEF Sound, Request
<1> HIDE DEF new, u
<1> QED
  BY <1>1, <1>2, <1>5, <1>7, RequestStepKeeps DEF IInv, TypeOK

(* What is put into the cache was vouched for by this request, which is not *)
(* older than MaxRequestTime.                                               *)
LEMMA CacheSetKeeps ==
  ASSUME IInv, NEW r \in Reqs, CacheSet(r), Remember
  PROVE  IInv'
<1> DEFINE q == req[r]
<1> DEFINE new == [q EXCEPT !.pc = "serve", !.user = IF @.banned THEN Anonymous ELSE @]
<1>1. /\ q \in Request /\ Sound(q) /\ q.pc = "set"
      /\ UNCHANGED <<now, banned, admin, sessions, owner>>
      /\ cache' \subseteq cache \cup {Entry(r)}
  BY DEF IInv, TypeOK, CacheSet, db
<1>2. OwnersKept /\ SessionsOwned'
  BY <1>1 DEF OwnersKept, IInv, SessionsOwned
<1>3. /\ q.since \in Nat /\ now \in Nat
      /\ q.since <= now /\ now <= q.since + MaxRequestTime
      /\ q.cookie \in Sids /\ q.user \in Snapshot /\ Vouched(q.cookie, q.user, q.since)
  BY <1>1 DEF Sound, Request, IInv, TypeOK, Vouched
<1>4. \A t \in Int : t <= q.since => Vouched(q.cookie, q.user, t)
  BY <1>3 DEF Vouched, IInv, TypeOK, Never, Snapshot
<1>5. Entry(r) \in CachedSession /\ EntrySound(Entry(r))
  <2>1. now + SessionCacheTTL - SessionCacheTTL - MaxRequestTime <= q.since
    BY <1>3, DurationsAssumption
  <2>2. Vouched(q.cookie, q.user, now + SessionCacheTTL - SessionCacheTTL - MaxRequestTime)
    BY <1>3, <1>4, <2>1, DurationsAssumption
  <2> QED
    BY <1>3, <2>2, DurationsAssumption DEF EntrySound, Entry, CachedSession
<1>6. new \in Request /\ req' = [req EXCEPT ![r] = new]
  BY <1>1 DEF Request, Pcs, CacheSet, IInv, TypeOK
<1>7. Sound(new)
  <2>1. q.since + 1 - SessionCacheTTL - MaxRequestTime <= q.since
    BY <1>3, DurationsAssumption
  <2>2. Vouched(q.cookie, q.user, q.since + 1 - SessionCacheTTL - MaxRequestTime)
    BY <1>3, <1>4, <2>1, DurationsAssumption
  <2>3. /\ new.pc = "serve" /\ new.cookie = q.cookie /\ new.since = q.since
        /\ new.user = IF q.user.banned THEN Anonymous ELSE q.user
    BY <1>1 DEF Request
  <2> HIDE DEF new
  <2> QED
    BY <1>1, <1>3, <2>2, <2>3 DEF Sound
<1> HIDE DEF new, q
<1> QED
  BY <1>1, <1>2, <1>5, <1>6, <1>7, RequestStepKeeps DEF IInv, TypeOK

(* A handler that ends the request, after changing bans or deleting rows.   *)
LEMMA HandlerKeeps ==
  ASSUME IInv, NEW r \in Reqs, Done(r), Remember, UNCHANGED <<now, admin, cache, owner>>,
         banned' \in [Users -> BOOLEAN], sessions' \subseteq sessions
  PROVE  IInv'
<1>1. OwnersKept /\ SessionsOwned'
  BY DEF OwnersKept, IInv, SessionsOwned
<1> QED
  BY <1>1, IdleSound, RequestStepKeeps DEF IInv, TypeOK, Done

(* A new session has a token nothing else refers to. *)
LEMMA CreateSessionKeeps ==
  ASSUME IInv, NEW r \in Reqs, NEW u \in Users, CreateSession(r, u), Remember
  PROVE  IInv'
<1>1. PICK s \in Sids :
        /\ owner[s] = NoUser
        /\ sessions' = sessions \cup
             {[token |-> s, user |-> u, expires |-> Stored(now + SessionExpiry)]}
        /\ owner' = [owner EXCEPT ![s] = u]
  BY DEF CreateSession
<1>2. Done(r) /\ UNCHANGED <<now, banned, admin, cache>>
  BY DEF CreateSession
<1>3. owner' \in [Sids -> Users \cup {NoUser}] /\ OwnersKept
  BY <1>1 DEF IInv, TypeOK, OwnersKept
<1>4. sessions' \subseteq SessionRow
  BY <1>1, DurationsAssumption DEF IInv, TypeOK, SessionRow, Stored
<1>5. SessionsOwned'
  <2> SUFFICES ASSUME NEW row \in sessions'
               PROVE  row.user = owner'[row.token]
    BY DEF SessionsOwned
  <2>1. CASE row \in sessions
    <3>1. row.token \in Sids /\ row.user \in Users /\ row.user = owner[row.token]
      BY <2>1 DEF IInv, TypeOK, SessionRow, SessionsOwned
    <3> QED
      BY <3>1, <1>3, UsersAssumption DEF OwnersKept
  <2>2. CASE row = [token |-> s, user |-> u, expires |-> Stored(now + SessionExpiry)]
    BY <2>2, <1>1 DEF IInv, TypeOK
  <2> QED
    BY <1>1, <2>1, <2>2
<1> QED
  BY <1>2, <1>3, <1>4, <1>5, IdleSound, RequestStepKeeps DEF IInv, TypeOK, Done

(* Every step of a request preserves the invariant.                         *)
LEMMA RequestStepIInv ==
  ASSUME IInv, NEW r \in Reqs, RequestStep(r), Remember
  PROVE  IInv'
<1>1. CASE ServePage(r)
  BY <1>1, HandlerKeeps DEF ServePage, db, IInv, TypeOK
<1>2. CASE Logout(r)
  BY <1>2, HandlerKeeps DEF Logout, IInv, TypeOK
<1>3. ASSUME NEW u \in Users, BanUser(r, u) \/ UnbanUser(r, u)
      PROVE  IInv'
  BY <1>3, HandlerKeeps DEF BanUser, UnbanUser, IInv, TypeOK
<1> QED
  BY <1>1, <1>2, <1>3, ArriveKeeps, SelectSessionKeeps, PurgeSessionKeeps, LoadUserKeeps,
     CacheSetKeeps, LookupErrorKeeps, CreateSessionKeeps DEF RequestStep

(* The command, the clean-ups, a restart and the clock: steps that change   *)
(* requests only by ending them.                                            *)
LEMMA BackgroundStepKeeps ==
  ASSUME IInv, Remember, UNCHANGED owner, now' \in Nat, now <= now',
         banned' \in [Users -> BOOLEAN], admin' \in [Users -> BOOLEAN],
         sessions' \subseteq sessions, cache' \subseteq cache,
         \/ UNCHANGED req
         \/ req' = [r \in Reqs |-> IdleRequest],
         now' # now => \A r \in Reqs : req[r].pc # "idle" => now' <= req[r].since + MaxRequestTime
  PROVE  IInv'
<1>1. TypeOK /\ HistoryCurrent /\ SessionsOwned /\ OwnersKept
  BY DEF IInv, OwnersKept
<1>2. /\ lastValid' \in [Sids -> Nat \cup {Never}]
      /\ lastUnbanned' \in [Users -> Nat \cup {Never}]
      /\ lastAdmin' \in [Users -> Nat \cup {Never}]
      /\ \A s \in Sids : lastValid[s] <= lastValid'[s]
      /\ \A u \in Users : lastUnbanned[u] <= lastUnbanned'[u] /\ lastAdmin[u] <= lastAdmin'[u]
      /\ HistoryCurrent'
  <2>1. sessions' \subseteq SessionRow
    BY <1>1 DEF TypeOK
  <2> QED
    BY <1>1, <2>1, HistoryGrows
<1>3. TypeOK'
  BY <1>1, <1>2, IdleSound DEF TypeOK
<1>4. SessionsOwned'
  BY <1>1 DEF SessionsOwned
<1>5. ASSUME NEW e \in cache'
      PROVE  EntrySound(e)'
  <2>1. e \in CachedSession /\ EntrySound(e)
    BY <1>1 DEF IInv, TypeOK
  <2> QED
    BY <1>1, <1>2, <1>3, <2>1, EntryStaysSound
<1>6. ASSUME NEW r \in Reqs
      PROVE  Sound(req[r])'
  <2>1. PICK q \in Request : /\ q = req'[r] /\ Sound(q)
                             /\ q.pc # "idle" => now' <= q.since + MaxRequestTime
    <3>1. CASE UNCHANGED req
      <4>1. req[r] \in Request /\ Sound(req[r])
        BY DEF IInv, TypeOK
      <4> QED
        BY <3>1, <4>1 DEF Sound
    <3>2. CASE req' = [p \in Reqs |-> IdleRequest]
      BY <3>2, IdleSound DEF IdleRequest
    <3> QED
      BY <3>1, <3>2
  <2>2. Sound(q)'
    BY <1>1, <1>2, <1>3, <2>1, RequestStaysSound
  <2> QED
    BY <2>1, <2>2
<1> QED
  BY <1>2, <1>3, <1>4, <1>5, <1>6 DEF IInv

(* Every action preserves the invariant.                                    *)
LEMMA NextIInv == IInv /\ [Next]_vars => IInv'
<1> SUFFICES ASSUME IInv, [Next]_vars PROVE IInv'
  OBVIOUS
<1>0. now \in Nat /\ banned \in [Users -> BOOLEAN] /\ admin \in [Users -> BOOLEAN]
  BY DEF IInv, TypeOK
<1>1. CASE \E r \in Reqs : RequestStep(r) /\ Remember
  BY <1>1, RequestStepIInv
<1>2. CASE AdminCLI /\ Remember
  <2>1. banned' \in [Users -> BOOLEAN] /\ admin' \in [Users -> BOOLEAN]
    BY <1>0, <1>2 DEF AdminCLI
  <2> QED
    BY <1>0, <1>2, <2>1, BackgroundStepKeeps DEF AdminCLI
<1>3. CASE CleanupExpired /\ Remember
  BY <1>0, <1>3, BackgroundStepKeeps DEF CleanupExpired
<1>4. CASE CacheCleanup /\ Remember
  BY <1>0, <1>4, BackgroundStepKeeps DEF CacheCleanup, db
<1>5. CASE Restart /\ Remember
  BY <1>0, <1>5, BackgroundStepKeeps DEF Restart, db
<1>6. CASE Tick /\ Remember
  <2>1. now' \in Nat /\ now <= now'
    BY <1>0, <1>6 DEF Tick
  <2>2. \A r \in Reqs : req[r].pc # "idle" => now' <= req[r].since + MaxRequestTime
    BY <1>0, <1>6, DurationsAssumption DEF Tick, IInv, TypeOK, Request
  <2> QED
    BY <1>0, <1>6, <2>1, <2>2, BackgroundStepKeeps DEF Tick, db
<1>7. CASE UNCHANGED vars
  BY <1>7 DEF vars, db, history, IInv, TypeOK, HistoryCurrent, SessionValid, SessionsOwned,
              EntrySound, Sound, Vouched
<1> QED
  BY <1>1, <1>2, <1>3, <1>4, <1>5, <1>6, <1>7 DEF Next, Step
-----------------------------------------------------------------------------
(* The invariant that the theorems below follow from: no copy of a users    *)
(* row, in the cache or in a request, is that of another account, and none  *)
(* is older than its station allows.                                        *)
THEOREM Invariance == Spec => []IInv
  BY InitIInv, NextIInv, PTL DEF Spec

(* The middleware never gives a request another account than the one its    *)
(* session was created for, whether the identity was read or cached.        *)
THEOREM AlwaysRightAccount == Spec => []RightAccount
<1>1. IInv => RightAccount
  BY SidsAssumption DEF IInv, RightAccount, Authenticated, Sound, Vouched, Anonymous
<1> QED
  BY <1>1, Invariance, PTL

(* Logout, expiry, a ban and a demotion take effect within the cache TTL    *)
(* plus the time of two requests, although the cache is never invalidated:  *)
(* one request fills the cache late, and another uses the entry at its end. *)
THEOREM AlwaysRightsExpire == Spec => []RightsExpire
<1>1. IInv => RightsExpire
  <2> SUFFICES ASSUME IInv, NEW r \in Reqs, Authenticated(r)
               PROVE  /\ now < lastValid[req[r].cookie] + StaleBound
                      /\ now < lastUnbanned[req[r].user.id] + StaleBound
                      /\ req[r].user.admin => now < lastAdmin[req[r].user.id] + StaleBound
    BY DEF IInv, RightsExpire, AccessExpires, AdminExpires
  <2> DEFINE q == req[r]
  <2>1. /\ q \in Request /\ q.since \in Nat /\ now \in Nat
        /\ now <= q.since + MaxRequestTime
        /\ ~q.user.banned
        /\ Vouched(q.cookie, q.user, q.since + 1 - SessionCacheTTL - MaxRequestTime)
    BY DEF IInv, TypeOK, Authenticated, Sound, Anonymous, Request
  <2>2. /\ q.cookie \in Sids /\ q.user.id \in Users
        /\ lastValid[q.cookie] \in Int /\ lastUnbanned[q.user.id] \in Int
        /\ lastAdmin[q.user.id] \in Int
    BY <2>1 DEF Vouched, Snapshot, IInv, TypeOK, Never
  <2>3. /\ q.since + 1 - SessionCacheTTL - MaxRequestTime <= lastValid[q.cookie]
        /\ q.since + 1 - SessionCacheTTL - MaxRequestTime <= lastUnbanned[q.user.id]
        /\ q.user.admin => q.since + 1 - SessionCacheTTL - MaxRequestTime <= lastAdmin[q.user.id]
    BY <2>1 DEF Vouched
  <2> HIDE DEF q
  <2>4. \A last \in Int : q.since + 1 - SessionCacheTTL - MaxRequestTime <= last
                            => now < last + StaleBound
    BY <2>1, DurationsAssumption DEF StaleBound
  <2> QED
    BY <2>2, <2>3, <2>4 DEF q
<1> QED
  BY <1>1, Invariance, PTL
=============================================================================
