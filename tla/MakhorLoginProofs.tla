-------------------------- MODULE MakhorLoginProofs --------------------------
(***************************************************************************)
(* What MakhorLogin guarantees for any number of accounts, links and       *)
(* requests, any expiry and any zone of the server, proved with TLAPS.     *)
(***************************************************************************)
EXTENDS MakhorLogin, TLAPS

(* A login link that was made and can no longer be redeemed: its row is     *)
(* marked, or cleaned up.                                                   *)
Spent(t) == issued[t] # None /\ \A row \in loginTokens : row.token = t => row.used

(* One row per link, with the expiry it was made with. *)
TokensSound ==
    /\ \A row \in loginTokens :
         /\ issued[row.token] # None
         /\ row.expires = Stored(issued[row.token] + LoginTokenExpiry)
    /\ \A a, b \in loginTokens : a.token = b.token => a = b

(* A session comes from a link that is spent, in its time; one per link.    *)
SessionsSound ==
    /\ \A row \in sessions : Spent(row.from)
    /\ NoLateLogin
    /\ SingleUse

(* LoginVerify after it has redeemed the link. *)
Redeeming(r) == req[r].pc \in {"lookup", "newsession"}

(* A request within its time.  One that redeemed a link did so while the    *)
(* link was valid; nobody else has it, and no session came from it yet.     *)
RequestSound(r) ==
    /\ req[r].pc # "idle" => now <= req[r].since + MaxRequestTime
    /\ req[r].pc \in {"newtoken", "newchange"} => req[r].email \in Emails
    /\ req[r].pc \in {"newsession", "newchange"} => req[r].user \in Users
    /\ Redeeming(r) =>
         /\ req[r].token \in Tokens
         /\ Spent(req[r].token)
         /\ req[r].since <= issued[req[r].token] + LoginTokenExpiry + ZoneOffset
         /\ \A row \in sessions : row.from # req[r].token

RequestsSound ==
    /\ \A r \in Reqs : RequestSound(r)
    /\ \A r, p \in Reqs : Redeeming(r) /\ Redeeming(p) /\ req[r].token = req[p].token => r = p

(* An email-change link has one row, and has moved no address while the row *)
(* is not marked.                                                           *)
ChangesSound ==
    /\ \A row \in changeTokens :
         row.token \in changesIssued /\ (~row.used => applied[row.token] = 0)
    /\ \A a, b \in changeTokens : a.token = b.token => a = b
    /\ \A t \in ChangeTokens \ changesIssued : applied[t] = 0
    /\ ChangeAppliedOnce

IInv ==
    /\ TypeOK
    /\ TokensSound
    /\ SessionsSound
    /\ RequestsSound
    /\ ChangesSound
    /\ EmailsUnique
-----------------------------------------------------------------------------
(* At the start no link has been made.                                      *)
LEMMA InitIInv == Init => IInv
<1> SUFFICES ASSUME Init PROVE IInv
  OBVIOUS
<1>1. TypeOK
  BY DEF Init, TypeOK, Request, IdleRequest, Pcs
<1>2. TokensSound /\ SessionsSound /\ ChangesSound /\ EmailsUnique
  BY DEF Init, TokensSound, SessionsSound, NoLateLogin, SingleUse, ChangesSound,
         ChangeAppliedOnce, EmailsUnique
<1>3. RequestsSound
  BY DEF Init, RequestsSound, RequestSound, Redeeming, IdleRequest
<1> QED
  BY <1>1, <1>2, <1>3 DEF IInv

(* A goroutine that is between requests.                                    *)
LEMMA IdleTyped == IdleRequest \in Request /\ IdleRequest.pc = "idle"
  BY DEF IdleRequest, Request, Pcs

(* No step gives a link that is spent a row that can be redeemed. *)
LinksStaySpent ==
    /\ \A t \in Tokens : issued[t] # None => issued'[t] = issued[t]
    /\ \A row \in loginTokens' : row \in loginTokens \/ row.used \/ issued[row.token] = None

(* A link that can no longer be redeemed stays so, whatever step keeps the  *)
(* rows that were there as they were, or uses them up.                      *)
LEMMA SpentStays ==
  ASSUME IInv, LinksStaySpent, NEW t \in Tokens, Spent(t)
  PROVE  Spent(t)' /\ issued'[t] = issued[t]
  BY DEF LinksStaySpent, Spent

(* A step of the request r, which leaves it as new. *)
LEMMA RequestsStaySound ==
  ASSUME IInv, NEW r \in Reqs, NEW new \in Request, req' = [req EXCEPT ![r] = new],
         now' = now, LinksStaySpent,
         \A row \in sessions' \ sessions : Redeeming(r) /\ row.from = req[r].token,
         new.pc # "idle" => now <= new.since + MaxRequestTime,
         new.pc \in {"newtoken", "newchange"} => new.email \in Emails,
         new.pc \in {"newsession", "newchange"} => new.user \in Users,
         new.pc \in {"lookup", "newsession"} =>
            /\ new.token \in Tokens
            /\ Spent(new.token)'
            /\ new.since <= issued'[new.token] + LoginTokenExpiry + ZoneOffset
            /\ \A row \in sessions' : row.from # new.token
            /\ \A p \in Reqs \ {r} : Redeeming(p) => req[p].token # new.token
  PROVE  RequestsSound'
<1>1. \A p \in Reqs : req'[p] = IF p = r THEN new ELSE req[p]
  BY DEF IInv, TypeOK
<1>2. ASSUME NEW p \in Reqs PROVE RequestSound(p)'
  <2>1. CASE p = r
    BY <1>1, <2>1 DEF RequestSound, Redeeming
  <2>2. CASE p # r
    <3>1. RequestSound(p) /\ req'[p] = req[p]
      BY <1>1, <2>2 DEF IInv, RequestsSound
    <3>2. ASSUME Redeeming(p)
          PROVE  /\ Spent(req[p].token)' /\ issued'[req[p].token] = issued[req[p].token]
                 /\ \A row \in sessions' : row.from # req[p].token
      <4>1. req[p].token \in Tokens /\ Spent(req[p].token)
        BY <3>1, <3>2 DEF RequestSound
      <4>2. \A row \in sessions' : row.from # req[p].token
        BY <2>2, <3>1, <3>2 DEF RequestSound, IInv, RequestsSound
      <4>3. PICK t \in Tokens : t = req[p].token /\ Spent(t)
        BY <4>1
      <4>4. Spent(t)' /\ issued'[t] = issued[t]
        BY <4>3, SpentStays
      <4> QED
        BY <3>1, <4>2, <4>3, <4>4
    <3>3. Redeeming(p)' <=> Redeeming(p)
      BY <3>1 DEF Redeeming
    <3> QED
      BY <3>1, <3>2, <3>3 DEF RequestSound
  <2> QED
    BY <2>1, <2>2
<1>3. ASSUME NEW p \in Reqs, NEW q \in Reqs, Redeeming(p)', Redeeming(q)',
             req'[p].token = req'[q].token
      PROVE  p = q
  BY <1>1, <1>3 DEF Redeeming, IInv, RequestsSound
<1> QED
  BY <1>2, <1>3 DEF RequestsSound

(* A step of the request r that touches no table. *)
LEMMA RequestOnlyKeeps ==
  ASSUME IInv, NEW r \in Reqs, NEW new \in Request, req' = [req EXCEPT ![r] = new],
         UNCHANGED <<now, email, banned, loginTokens, changeTokens, sessions,
                     issued, changesIssued, applied>>,
         new.pc # "idle" => now <= new.since + MaxRequestTime,
         new.pc \in {"newtoken", "newchange"} => new.email \in Emails,
         new.pc \in {"newsession", "newchange"} => new.user \in Users,
         new.pc \in {"lookup", "newsession"} =>
            Redeeming(r) /\ new.token = req[r].token /\ new.since = req[r].since
  PROVE  IInv'
<1>1. TypeOK'
  BY DEF IInv, TypeOK
<1>2. TokensSound' /\ SessionsSound' /\ ChangesSound' /\ EmailsUnique'
  BY DEF IInv, TokensSound, SessionsSound, NoLateLogin, SingleUse, ChangesSound,
         ChangeAppliedOnce, EmailsUnique, Spent
<1>3. LinksStaySpent
  BY DEF LinksStaySpent
<1>4. new.pc \in {"lookup", "newsession"} =>
        /\ new.token \in Tokens
        /\ Spent(new.token)'
        /\ new.since <= issued'[new.token] + LoginTokenExpiry + ZoneOffset
        /\ \A row \in sessions' : row.from # new.token
        /\ \A p \in Reqs \ {r} : Redeeming(p) => req[p].token # new.token
  BY DEF IInv, RequestsSound, RequestSound, Spent
<1>5. RequestsSound'
  BY <1>3, <1>4, RequestsStaySound
<1> QED
  BY <1>1, <1>2, <1>5 DEF IInv

(* LoginSubmit: nothing but the request changes.                            *)
LEMMA LoginSubmitKeeps ==
  ASSUME IInv, NEW r \in Reqs, NEW e \in Emails, LoginSubmit(r, e)
  PROVE  IInv'
<1> DEFINE new == [IdleRequest EXCEPT !.pc = "newtoken", !.email = e, !.since = now]
<1>1. now \in Nat
  BY DEF IInv, TypeOK
<1>2. new \in Request /\ new.pc = "newtoken" /\ new.email = e /\ new.since = now
  BY <1>1 DEF IdleRequest, Request, Pcs
<1>3. now <= now + MaxRequestTime
  BY <1>1, DurationsAssumption
<1> HIDE DEF new
<1>4. req' = [req EXCEPT ![r] = new]
  BY DEF LoginSubmit, new
<1> QED
  BY <1>2, <1>3, <1>4, RequestOnlyKeeps DEF LoginSubmit

(* ChangeEmailSubmit: nothing but the request changes.                      *)
LEMMA ChangeEmailSubmitKeeps ==
  ASSUME IInv, NEW r \in Reqs, NEW u \in Users, NEW e \in Emails, ChangeEmailSubmit(r, u, e)
  PROVE  IInv'
<1> DEFINE new == [IdleRequest EXCEPT !.pc = "newchange", !.user = u, !.email = e, !.since = now]
<1>1. now \in Nat
  BY DEF IInv, TypeOK
<1>2. new \in Request /\ new.pc = "newchange" /\ new.user = u /\ new.email = e /\ new.since = now
  BY <1>1 DEF IdleRequest, Request, Pcs
<1>3. now <= now + MaxRequestTime
  BY <1>1, DurationsAssumption
<1> HIDE DEF new
<1>4. req' = [req EXCEPT ![r] = new]
  BY DEF ChangeEmailSubmit, new
<1> QED
  BY <1>2, <1>3, <1>4, RequestOnlyKeeps DEF ChangeEmailSubmit

(* A request that ends leaves everything else alone.                        *)
LEMMA DoneKeeps ==
  ASSUME IInv, NEW r \in Reqs, Done(r),
         UNCHANGED <<now, email, banned, loginTokens, changeTokens, sessions,
                     issued, changesIssued, applied>>
  PROVE  IInv'
<1> DEFINE new == IdleRequest
<1>1. new \in Request /\ new.pc = "idle" /\ req' = [req EXCEPT ![r] = new]
  BY IdleTyped DEF Done
<1> HIDE DEF new
<1> QED
  BY <1>1, RequestOnlyKeeps

(* The lookup by address: the request remembers the account it found.       *)
LEMMA LookupUserKeeps ==
  ASSUME IInv, NEW r \in Reqs, LookupUser(r)
  PROVE  IInv'
<1>1. CASE Done(r)
  BY <1>1, DoneKeeps DEF LookupUser
<1>2. ASSUME NEW u \in Users, req' = [req EXCEPT ![r].pc = "newsession", ![r].user = u]
      PROVE  IInv'
  <2> DEFINE new == [req[r] EXCEPT !.pc = "newsession", !.user = u]
  <2>1. req[r] \in Request /\ req[r].pc = "lookup" /\ Redeeming(r) /\ RequestSound(r)
    BY DEF IInv, TypeOK, LookupUser, Redeeming, RequestsSound
  <2>2. /\ new \in Request /\ new.pc = "newsession" /\ new.user = u
        /\ new.since = req[r].since /\ new.token = req[r].token
        /\ req' = [req EXCEPT ![r] = new]
    BY <1>2, <2>1 DEF Request, Pcs, IInv, TypeOK
  <2>3. now <= new.since + MaxRequestTime
    BY <2>1, <2>2 DEF RequestSound
  <2> HIDE DEF new
  <2> QED
    BY <2>1, <2>2, <2>3, RequestOnlyKeeps DEF LookupUser
<1> QED
  BY <1>1, <1>2 DEF LookupUser, GetUserByEmail

(* CreateLoginToken: the new link is for the account found, and expires     *)
(* later.                                                                   *)
LEMMA CreateLoginTokenKeeps ==
  ASSUME IInv, NEW r \in Reqs, CreateLoginToken(r)
  PROVE  IInv'
<1>1. PICK t \in Tokens :
        /\ issued[t] = None
        /\ issued' = [issued EXCEPT ![t] = now]
        /\ loginTokens' = loginTokens \cup
             {[token |-> t, email |-> req[r].email,
               expires |-> Stored(now + LoginTokenExpiry), used |-> FALSE]}
  BY DEF CreateLoginToken
<1>2. /\ Done(r) /\ req[r].pc = "newtoken"
      /\ UNCHANGED <<now, email, banned, changeTokens, sessions, changesIssued, applied>>
  BY DEF CreateLoginToken
<1> DEFINE row == [token |-> t, email |-> req[r].email,
                   expires |-> Stored(now + LoginTokenExpiry), used |-> FALSE]
<1>3. row \in LoginTokenRow /\ row.token = t /\ row.expires = Stored(now + LoginTokenExpiry)
  <2>1. req[r].email \in Emails /\ now \in Nat
    BY <1>2 DEF IInv, TypeOK, RequestsSound, RequestSound
  <2> QED
    BY <2>1, DurationsAssumption DEF LoginTokenRow, Stored
<1>4. now # None /\ issued'[t] = now /\ \A x \in Tokens \ {t} : issued'[x] = issued[x]
  BY <1>1, NoneAssumption DEF IInv, TypeOK
<1> HIDE DEF row
<1>5. loginTokens' = loginTokens \cup {row}
  BY <1>1 DEF row
<1>6. TypeOK'
  BY <1>1, <1>2, <1>3, <1>5, IdleTyped DEF IInv, TypeOK, Done
<1>7. TokensSound'
  BY <1>1, <1>3, <1>4, <1>5 DEF IInv, TypeOK, TokensSound, LoginTokenRow, Stored
<1>8. LinksStaySpent
  BY <1>1, <1>3, <1>4, <1>5 DEF LinksStaySpent
<1>9. SessionsSound'
  <2>1. ASSUME NEW x \in sessions
        PROVE  Spent(x.from)' /\ issued'[x.from] = issued[x.from]
    BY <1>8, SpentStays DEF IInv, TypeOK, SessionsSound, SessionRow
  <2> QED
    BY <1>2, <2>1 DEF IInv, SessionsSound, NoLateLogin, SingleUse
<1>10. RequestsSound'
  <2> DEFINE new == IdleRequest
  <2>1. new \in Request /\ new.pc = "idle" /\ req' = [req EXCEPT ![r] = new]
    BY <1>2, IdleTyped DEF Done
  <2> HIDE DEF new
  <2> QED
    BY <1>2, <1>8, <2>1, RequestsStaySound
<1>11. ChangesSound' /\ EmailsUnique'
  BY <1>2 DEF IInv, ChangesSound, ChangeAppliedOnce, EmailsUnique
<1> QED
  BY <1>6, <1>7, <1>9, <1>10, <1>11 DEF IInv

(* The row that is marked was the link's only one, so that the link is      *)
(* spent by this request and was by no other.                               *)
LEMMA ValidateLoginTokenKeeps ==
  ASSUME IInv, NEW r \in Reqs, NEW t \in Tokens, ValidateLoginToken(r, t)
  PROVE  IInv'
<1>1. PICK row \in loginTokens :
        /\ Usable(row, t)
        /\ loginTokens' = (loginTokens \ {row}) \cup {[row EXCEPT !.used = TRUE]}
        /\ req' = [req EXCEPT ![r] =
             [IdleRequest EXCEPT !.pc = "lookup", !.token = t,
                                 !.email = row.email, !.since = now]]
  BY DEF ValidateLoginToken
<1>2. /\ req[r].pc = "idle"
      /\ UNCHANGED <<now, email, banned, changeTokens, sessions, issued, changesIssued, applied>>
  BY DEF ValidateLoginToken
<1> DEFINE marked == [row EXCEPT !.used = TRUE]
<1> DEFINE new == [IdleRequest EXCEPT !.pc = "lookup", !.token = t,
                                      !.email = row.email, !.since = now]
<1>3. /\ row \in LoginTokenRow /\ row.token = t /\ ~row.used /\ row.expires >= now
      /\ now \in Nat /\ issued[t] \in Nat
      /\ row.expires = Stored(issued[t] + LoginTokenExpiry)
  BY <1>1 DEF Usable, IInv, TypeOK, TokensSound
<1>4. /\ marked \in LoginTokenRow /\ marked.token = t /\ marked.used
      /\ marked.expires = row.expires
  BY <1>3 DEF LoginTokenRow
<1>5. /\ new \in Request /\ new.pc = "lookup" /\ new.token = t /\ new.since = now
  BY <1>3 DEF IdleRequest, Request, Pcs, LoginTokenRow
<1>6. /\ now <= now + MaxRequestTime
      /\ now <= issued[t] + LoginTokenExpiry + ZoneOffset
  BY <1>3, DurationsAssumption DEF Stored
<1> HIDE DEF marked, new
<1>7. loginTokens' = (loginTokens \ {row}) \cup {marked} /\ req' = [req EXCEPT ![r] = new]
  BY <1>1 DEF marked, new
<1>8. TypeOK'
  BY <1>2, <1>4, <1>5, <1>7 DEF IInv, TypeOK
<1>9. TokensSound'
  BY <1>2, <1>3, <1>4, <1>7 DEF IInv, TokensSound, Stored
<1>10. LinksStaySpent
  BY <1>2, <1>4, <1>7 DEF LinksStaySpent
<1>11. ~Spent(t) /\ Spent(t)'
  <2>1. issued'[t] # None
    BY <1>1, <1>2, <1>3 DEF IInv, TokensSound
  <2>2. \A x \in loginTokens' : x.token = t => x.used
    BY <1>3, <1>4, <1>7 DEF IInv, TokensSound
  <2> QED
    BY <1>3, <2>1, <2>2 DEF Spent
<1>12. SessionsSound'
  <2>1. ASSUME NEW x \in sessions PROVE Spent(x.from)'
    BY <1>10, SpentStays DEF IInv, TypeOK, SessionsSound, SessionRow
  <2> QED
    BY <1>2, <2>1 DEF IInv, SessionsSound, NoLateLogin, SingleUse
<1>13. RequestsSound'
  <2>1. \A x \in sessions : x.from # t
    BY <1>11 DEF IInv, SessionsSound
  <2>2. \A p \in Reqs \ {r} : Redeeming(p) => req[p].token # t
    BY <1>11 DEF IInv, RequestsSound, RequestSound
  <2> QED
    BY <1>2, <1>5, <1>6, <1>7, <1>10, <1>11, <2>1, <2>2, RequestsStaySound
<1>14. ChangesSound' /\ EmailsUnique'
  BY <1>2 DEF IInv, ChangesSound, ChangeAppliedOnce, EmailsUnique
<1> QED
  BY <1>8, <1>9, <1>12, <1>13, <1>14 DEF IInv

(* The session comes in time, and is the first from its link. *)
LEMMA CreateSessionKeeps ==
  ASSUME IInv, NEW r \in Reqs, CreateSession(r)
  PROVE  IInv'
<1>1. PICK s \in Sids :
        sessions' = sessions \cup
          {[token |-> s, user |-> req[r].user, from |-> req[r].token, at |-> now]}
  BY DEF CreateSession
<1>2. /\ Done(r) /\ req[r].pc = "newsession"
      /\ UNCHANGED <<now, email, banned, loginTokens, changeTokens, issued, changesIssued, applied>>
  BY DEF CreateSession
<1> DEFINE row == [token |-> s, user |-> req[r].user, from |-> req[r].token, at |-> now]
<1>3. /\ req[r] \in Request /\ RequestSound(r) /\ Redeeming(r) /\ now \in Nat
  BY <1>2 DEF IInv, TypeOK, RequestsSound, Redeeming
<1>4. /\ req[r].user \in Users /\ req[r].token \in Tokens /\ Spent(req[r].token)
      /\ issued[req[r].token] \in Nat /\ issued[req[r].token] # None
      /\ \A x \in sessions : x.from # req[r].token
  BY <1>2, <1>3 DEF RequestSound, Spent, IInv, TypeOK
<1>5. now <= issued[req[r].token] + LoginTokenExpiry + ZoneOffset + MaxRequestTime
  BY <1>2, <1>3, <1>4, DurationsAssumption DEF RequestSound, Request
<1>6. row \in SessionRow /\ row.from = req[r].token /\ row.at = now
  BY <1>3, <1>4 DEF SessionRow
<1> HIDE DEF row
<1>7. sessions' = sessions \cup {row}
  BY <1>1 DEF row
<1>8. TypeOK'
  BY <1>2, <1>6, <1>7, IdleTyped DEF IInv, TypeOK, Done
<1>9. TokensSound' /\ ChangesSound' /\ EmailsUnique'
  BY <1>2 DEF IInv, TokensSound, ChangesSound, ChangeAppliedOnce, EmailsUnique
<1>10. SessionsSound'
  <2>1. \A x \in sessions' : Spent(x.from)'
    BY <1>2, <1>4, <1>6, <1>7 DEF IInv, SessionsSound, Spent
  <2>2. NoLateLogin'
    BY <1>2, <1>4, <1>5, <1>6, <1>7 DEF IInv, SessionsSound, NoLateLogin
  <2>3. SingleUse'
    BY <1>4, <1>6, <1>7 DEF IInv, SessionsSound, SingleUse
  <2> QED
    BY <2>1, <2>2, <2>3 DEF SessionsSound
<1>11. RequestsSound'
  <2> DEFINE new == IdleRequest
  <2>1. new \in Request /\ new.pc = "idle" /\ req' = [req EXCEPT ![r] = new]
    BY <1>2, IdleTyped DEF Done
  <2>2. LinksStaySpent
    BY <1>2 DEF LinksStaySpent
  <2>3. \A x \in sessions' \ sessions : Redeeming(r) /\ x.from = req[r].token
    BY <1>3, <1>6, <1>7
  <2> HIDE DEF new
  <2> QED
    BY <1>2, <2>1, <2>2, <2>3, RequestsStaySound
<1> QED
  BY <1>8, <1>9, <1>10, <1>11 DEF IInv

(* CreateEmailChangeToken: the new link is for the user who asked.          *)
LEMMA CreateEmailChangeTokenKeeps ==
  ASSUME IInv, NEW r \in Reqs, CreateEmailChangeToken(r)
  PROVE  IInv'
<1>1. PICK t \in ChangeTokens \ changesIssued :
        /\ changesIssued' = changesIssued \cup {t}
        /\ changeTokens' = changeTokens \cup
             {[token |-> t, user |-> req[r].user, newEmail |-> req[r].email,
               expires |-> Stored(now + EmailChangeTokenExpiry), used |-> FALSE]}
  BY DEF CreateEmailChangeToken
<1>2. /\ Done(r) /\ req[r].pc = "newchange"
      /\ UNCHANGED <<now, email, banned, loginTokens, sessions, issued, applied>>
  BY DEF CreateEmailChangeToken
<1> DEFINE row == [token |-> t, user |-> req[r].user, newEmail |-> req[r].email,
                   expires |-> Stored(now + EmailChangeTokenExpiry), used |-> FALSE]
<1>3. row \in ChangeTokenRow /\ row.token = t
  <2>1. req[r].email \in Emails /\ req[r].user \in Users /\ now \in Nat
    BY <1>2 DEF IInv, TypeOK, RequestsSound, RequestSound
  <2> QED
    BY <2>1, DurationsAssumption DEF ChangeTokenRow, Stored
<1> HIDE DEF row
<1>4. changeTokens' = changeTokens \cup {row}
  BY <1>1 DEF row
<1>5. TypeOK'
  BY <1>1, <1>2, <1>3, <1>4, IdleTyped DEF IInv, TypeOK, Done
<1>6. ChangesSound'
  BY <1>1, <1>2, <1>3, <1>4 DEF IInv, ChangesSound, ChangeAppliedOnce
<1>7. TokensSound' /\ SessionsSound' /\ EmailsUnique'
  BY <1>2 DEF IInv, TokensSound, SessionsSound, Spent, NoLateLogin, SingleUse, EmailsUnique
<1>8. RequestsSound'
  <2> DEFINE new == IdleRequest
  <2>1. new \in Request /\ new.pc = "idle" /\ req' = [req EXCEPT ![r] = new]
    BY <1>2, IdleTyped DEF Done
  <2>2. LinksStaySpent
    BY <1>2 DEF LinksStaySpent
  <2> HIDE DEF new
  <2> QED
    BY <1>2, <2>1, <2>2, RequestsStaySound
<1> QED
  BY <1>5, <1>6, <1>7, <1>8 DEF IInv

(* The link had moved no address, and the address is nobody else's. *)
LEMMA UseEmailChangeTokenKeeps ==
  ASSUME IInv, NEW t \in ChangeTokens, UseEmailChangeToken(t)
  PROVE  IInv'
<1>1. PICK row \in changeTokens :
        /\ Usable(row, t) /\ AddressFree(row)
        /\ changeTokens' = (changeTokens \ {row}) \cup {[row EXCEPT !.used = TRUE]}
        /\ email' = [email EXCEPT ![row.user] = row.newEmail]
  BY DEF UseEmailChangeToken
<1>2. /\ applied' = [applied EXCEPT ![t] = @ + 1]
      /\ UNCHANGED <<now, banned, loginTokens, sessions, req, issued, changesIssued>>
  BY DEF UseEmailChangeToken
<1> DEFINE marked == [row EXCEPT !.used = TRUE]
<1>3. /\ row \in ChangeTokenRow /\ row.token = t /\ ~row.used
      /\ row.user \in Users /\ row.newEmail \in Emails
      /\ t \in changesIssued /\ applied[t] = 0
  BY <1>1 DEF Usable, IInv, TypeOK, ChangesSound, ChangeTokenRow
<1>4. marked \in ChangeTokenRow /\ marked.token = t /\ marked.used
  BY <1>3 DEF ChangeTokenRow
<1> HIDE DEF marked
<1>5. changeTokens' = (changeTokens \ {row}) \cup {marked}
  BY <1>1 DEF marked
<1>6. applied'[t] = 1 /\ \A x \in ChangeTokens \ {t} : applied'[x] = applied[x]
  BY <1>2, <1>3 DEF IInv, TypeOK
<1>7. TypeOK'
  BY <1>1, <1>2, <1>3, <1>4, <1>5 DEF IInv, TypeOK
<1>8. ChangesSound'
  BY <1>2, <1>3, <1>4, <1>5, <1>6 DEF IInv, TypeOK, ChangesSound, ChangeAppliedOnce, ChangeTokenRow
<1>9. EmailsUnique'
  BY <1>1, <1>3 DEF IInv, TypeOK, EmailsUnique, AddressFree, GetUserByEmail
<1>10. TokensSound' /\ SessionsSound'
  BY <1>2 DEF IInv, TokensSound, SessionsSound, Spent, NoLateLogin, SingleUse
<1>11. RequestsSound'
  BY <1>2 DEF IInv, RequestsSound, RequestSound, Redeeming, Spent
<1> QED
  BY <1>7, <1>8, <1>9, <1>10, <1>11 DEF IInv

(* The clean-up takes rows away, which spends links and never frees them.   *)
LEMMA CleanupExpiredKeeps ==
  ASSUME IInv, CleanupExpired
  PROVE  IInv'
<1>1. /\ loginTokens' \subseteq loginTokens /\ changeTokens' \subseteq changeTokens
      /\ UNCHANGED <<now, email, banned, sessions, req, issued, changesIssued, applied>>
  BY DEF CleanupExpired, Kept
<1>2. TypeOK' /\ TokensSound' /\ ChangesSound' /\ EmailsUnique'
  BY <1>1 DEF IInv, TypeOK, TokensSound, ChangesSound, ChangeAppliedOnce, EmailsUnique
<1>3. SessionsSound'
  BY <1>1 DEF IInv, SessionsSound, Spent, NoLateLogin, SingleUse
<1>4. RequestsSound'
  BY <1>1 DEF IInv, RequestsSound, RequestSound, Redeeming, Spent
<1> QED
  BY <1>2, <1>3, <1>4 DEF IInv

(* Time passes; what has expired stays expired.                             *)
LEMMA TickKeeps ==
  ASSUME IInv, Tick
  PROVE  IInv'
<1>1. /\ now \in Nat /\ now' = now + 1
      /\ UNCHANGED <<email, banned, loginTokens, changeTokens, sessions, req,
                     issued, changesIssued, applied>>
  BY DEF IInv, TypeOK, Tick
<1>2. TypeOK' /\ TokensSound' /\ ChangesSound' /\ EmailsUnique' /\ SessionsSound'
  BY <1>1 DEF IInv, TypeOK, TokensSound, ChangesSound, ChangeAppliedOnce, EmailsUnique,
              SessionsSound, Spent, NoLateLogin, SingleUse
<1>3. ASSUME NEW r \in Reqs PROVE RequestSound(r)'
  <2>1. req[r].pc # "idle" => now' <= req[r].since + MaxRequestTime
    <3>1. req[r].since \in Nat
      BY DEF IInv, TypeOK, Request
    <3> QED
      BY <1>1, <3>1, DurationsAssumption DEF Tick
  <2> QED
    BY <1>1, <2>1 DEF IInv, RequestsSound, RequestSound, Redeeming, Spent
<1>4. RequestsSound'
  BY <1>1, <1>3 DEF IInv, RequestsSound, Redeeming
<1> QED
  BY <1>2, <1>4 DEF IInv

(* Every action preserves the invariant.                                    *)
LEMMA NextIInv == IInv /\ [Next]_vars => IInv'
<1> SUFFICES ASSUME IInv, [Next]_vars PROVE IInv'
  OBVIOUS
<1>1. ASSUME NEW r \in Reqs, Abort(r) PROVE IInv'
  BY <1>1, DoneKeeps DEF Abort
<1>2. ASSUME NEW u \in Users, SetBanned(u) PROVE IInv'
  BY <1>2 DEF SetBanned, IInv, TypeOK, TokensSound, SessionsSound, NoLateLogin, SingleUse,
              RequestsSound, RequestSound, Redeeming, Spent, ChangesSound, ChangeAppliedOnce,
              EmailsUnique
<1>3. CASE UNCHANGED vars
  BY <1>3 DEF vars, IInv, TypeOK, TokensSound, SessionsSound, NoLateLogin, SingleUse,
              RequestsSound, RequestSound, Redeeming, Spent, ChangesSound, ChangeAppliedOnce,
              EmailsUnique
<1> QED
  BY <1>1, <1>2, <1>3, LoginSubmitKeeps, ValidateLoginTokenKeeps, ChangeEmailSubmitKeeps,
     CreateLoginTokenKeeps, LookupUserKeeps, CreateSessionKeeps, CreateEmailChangeTokenKeeps,
     UseEmailChangeTokenKeeps, CleanupExpiredKeeps, TickKeeps DEF Next
-----------------------------------------------------------------------------
(* The invariant that the theorems below follow from: links that are spent  *)
(* stay spent, and every token, session and request under way is that of    *)
(* the account it was made for.                                             *)
THEOREM Invariance == Spec => []IInv
  BY InitIInv, NextIInv, PTL DEF Spec

(* At most one session comes out of a login link, however many requests     *)
(* redeem it at once and whatever fails in between, and none later than the *)
(* link's life, as the zone of the server makes it, plus one request.       *)
THEOREM AlwaysLinksWorkOnce == Spec => []LinksWorkOnce
<1>1. IInv => LinksWorkOnce
  BY DEF IInv, LinksWorkOnce, SessionsSound
<1> QED
  BY <1>1, Invariance, PTL

(* An email-change link moves an address at most once, and no two accounts  *)
(* come to share one, although an address is checked long before it moves.  *)
THEOREM AlwaysAddressChangesSafe == Spec => []AddressChangesSafe
<1>1. IInv => AddressChangesSafe
  BY DEF IInv, AddressChangesSafe, ChangesSound
<1> QED
  BY <1>1, Invariance, PTL

(* Both together.                                                           *)
THEOREM AlwaysLinksSafe == Spec => []LinksSafe
<1>1. LinksWorkOnce /\ AddressChangesSafe => LinksSafe
  BY DEF LinksSafe
<1> QED
  BY <1>1, AlwaysLinksWorkOnce, AlwaysAddressChangesSafe, PTL
=============================================================================
