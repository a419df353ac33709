------------------------ MODULE MakhorAccountsProofs ------------------------
(***************************************************************************)
(* What MakhorAccounts guarantees for any number of names, codes, requests *)
(* and users, proved with TLAPS.                                           *)
(***************************************************************************)
EXTENDS MakhorAccounts, FiniteSetTheorems, TLAPS

Exists(id) == \E u \in users : u.id = id

(* Ids are handed out in increasing order. *)
IdsIssued == \A u \in users : u.id < nextId

(* An invite was made by somebody, under a code that belongs to it. *)
InvitesIssued ==
    /\ \A i \in invites : i.code \in issued /\ Exists(i.createdBy)
    /\ \A i, j \in invites : i.code = j.code => i.createdBy = j.createdBy

Registering(r) == req[r].pc \in {"check", "insert", "use"}

(* A registration under way carries the creator of the invite it read, and  *)
(* the row it will have inserted carries both.                              *)
RequestsConsistent ==
    \A r \in Reqs :
        /\ req[r].pc = "newinvite" => Exists(req[r].by)
        /\ Registering(r) =>
            /\ req[r].username \in Names /\ req[r].email \in Emails
            /\ req[r].code \in Codes
            /\ Exists(req[r].by)
            /\ \E i \in invites : i.code = req[r].code /\ i.createdBy = req[r].by
        /\ req[r].pc = "use" =>
            \E u \in users :
                u.id = req[r].uid /\ u.via = req[r].code /\ u.invitedBy = req[r].by

IInv ==
    /\ TypeOK
    /\ IdsIssued
    /\ InvitesIssued
    /\ RequestsConsistent
    /\ AccountsUnique
    /\ InviteTreeWellFounded
    /\ UsedInviteMatchesUser
-----------------------------------------------------------------------------
(* The database -create-admin leaves satisfies the invariant. *)
LEMMA InitIInv == Init => IInv
<1> SUFFICES ASSUME Init PROVE IInv
  OBVIOUS
<1> PICK n \in Names, e \in Emails :
      users = {[id |-> 1, username |-> n, email |-> e, invitedBy |-> NoId,
                via |-> None]}
  BY DEF Init
<1>0. uncounted \in BOOLEAN
  BY Zenon DEF Init
<1>1. TypeOK
  BY <1>0 DEF Init, TypeOK, UserRow, InviteRow, Request, IdleRequest, Pcs, Ids, NoId
<1>2. IdsIssued /\ AccountsUnique /\ InviteTreeWellFounded
  BY DEF Init, IdsIssued, AccountsUnique, InviteTreeWellFounded, NoId
<1>3. InvitesIssued /\ RequestsConsistent /\ UsedInviteMatchesUser
  BY DEF Init, InvitesIssued, RequestsConsistent, UsedInviteMatchesUser,
         Registering, IdleRequest
<1> QED
  BY <1>1, <1>2, <1>3 DEF IInv

(* A step that only ends the request r keeps the invariant. *)
LEMMA DoneKeeps ==
  ASSUME IInv, NEW r \in Reqs, Done(r), UNCHANGED <<users, nextId, invites, issued, uncounted>>
  PROVE  IInv'
<1>1. TypeOK'
  BY NoneAssumption DEF IInv, TypeOK, Done, IdleRequest, Request, Pcs, NoId
<1>2. RequestsConsistent'
  BY DEF IInv, TypeOK, Done, IdleRequest, RequestsConsistent, Registering, Exists
<1> QED
  BY <1>1, <1>2 DEF IInv, IdsIssued, InvitesIssued, Exists, AccountsUnique,
         InviteTreeWellFounded, UsedInviteMatchesUser

(* A row that CreateUser inserts keeps what the invariant says of tables. *)
LEMMA NewRowKeeps ==
  ASSUME IInv, NEW row \in UserRow, row.id = nextId, ~Taken(row.username, row.email),
         row.invitedBy # NoId => Exists(row.invitedBy),
         users' = users \cup {row}, nextId' = nextId + 1, UNCHANGED <<invites, issued, uncounted>>
  PROVE  /\ users' \subseteq UserRow /\ nextId' \in Ids
         /\ IdsIssued' /\ InvitesIssued' /\ AccountsUnique'
         /\ InviteTreeWellFounded' /\ UsedInviteMatchesUser'
         /\ \A id : Exists(id) => Exists(id)'
<1>1. users' \subseteq UserRow /\ nextId' \in Ids
  BY DEF IInv, TypeOK, Ids
<1>2. IdsIssued'
  BY DEF IInv, TypeOK, IdsIssued, UserRow, Ids
<1>3. \A id : Exists(id) => Exists(id)'
  BY DEF Exists
<1>4. InvitesIssued'
  BY <1>3 DEF IInv, InvitesIssued, Exists
<1>5. AccountsUnique'
  BY DEF IInv, AccountsUnique, Taken
<1>6. InviteTreeWellFounded'
  <2> SUFFICES ASSUME NEW u \in users', u.invitedBy # NoId
               PROVE  u.invitedBy < u.id /\ \E v \in users' : v.id = u.invitedBy
    BY DEF InviteTreeWellFounded
  <2>1. CASE u \in users
    BY <2>1 DEF IInv, InviteTreeWellFounded
  <2>2. CASE u = row
    BY <2>2 DEF IInv, Exists, IdsIssued
  <2> QED
    BY <2>1, <2>2
<1>7. UsedInviteMatchesUser'
  BY DEF IInv, UsedInviteMatchesUser
<1> QED
  BY <1>1, <1>2, <1>3, <1>4, <1>5, <1>6, <1>7

(* A step of RegisterSubmit or of CreateInvite that touches no table. *)
LEMMA RequestStepKeeps ==
  ASSUME IInv, NEW r \in Reqs, NEW new \in Request, req' = [req EXCEPT ![r] = new],
         UNCHANGED <<users, nextId, invites, issued>>, uncounted' \in BOOLEAN,
         new.pc \in {"check", "insert", "newinvite"},
         new.pc = "newinvite" => Exists(new.by),
         new.pc \in {"check", "insert"} =>
            /\ new.username \in Names /\ new.email \in Emails /\ new.code \in Codes
            /\ Exists(new.by)
            /\ \E i \in invites : i.code = new.code /\ i.createdBy = new.by
  PROVE  IInv'
<1>1. TypeOK'
  BY DEF IInv, TypeOK
<1>2. RequestsConsistent'
  <2> SUFFICES ASSUME NEW s \in Reqs
               PROVE RequestsConsistent!(s)'
    BY DEF RequestsConsistent
  <2>1. CASE s = r
    BY <2>1 DEF IInv, TypeOK, Registering, Exists
  <2>2. CASE s # r
    <3>1. req'[s] = req[s]
      BY <2>2 DEF IInv, TypeOK
    <3> QED
      BY <3>1 DEF IInv, RequestsConsistent, Registering, Exists
  <2> QED
    BY <2>1, <2>2
<1> QED
  BY <1>1, <1>2 DEF IInv, IdsIssued, InvitesIssued, Exists, AccountsUnique,
         InviteTreeWellFounded, UsedInviteMatchesUser

(* A registration form arrives: nothing but the request changes.            *)
LEMMA RegisterSubmitKeeps ==
  ASSUME IInv, NEW r \in Reqs, NEW n \in Names, NEW e \in Emails, RegisterSubmit(r, n, e)
  PROVE  IInv'
<1> PICK i \in invites :
      req' = [req EXCEPT ![r] =
        [IdleRequest EXCEPT !.pc = "check", !.username = n, !.email = e,
                            !.code = i.code, !.by = i.createdBy]]
  BY DEF RegisterSubmit
<1> DEFINE new == [IdleRequest EXCEPT !.pc = "check", !.username = n, !.email = e,
                                      !.code = i.code, !.by = i.createdBy]
<1>1. i \in InviteRow /\ Exists(i.createdBy)
  BY DEF IInv, TypeOK, InvitesIssued
<1>2. /\ new \in Request /\ new.pc = "check" /\ new.username = n /\ new.email = e
      /\ new.code = i.code /\ new.by = i.createdBy
  BY <1>1 DEF Request, IdleRequest, InviteRow, Pcs, Ids, NoId
<1>3. UNCHANGED <<users, nextId, invites, issued>> /\ uncounted' \in BOOLEAN
  BY DEF RegisterSubmit, IInv, TypeOK
<1>4. new.code \in Codes
  BY <1>1, <1>2 DEF InviteRow
<1> HIDE DEF new
<1>5. req' = [req EXCEPT ![r] = new]
  BY DEF new
<1> QED
  BY ZenonT(40), <1>1, <1>2, <1>3, <1>4, <1>5, RequestStepKeeps

(* The check that a name is free only decides how the request goes on.      *)
LEMMA CheckUserKeeps ==
  ASSUME IInv, NEW r \in Reqs, CheckUser(r)
  PROVE  IInv'
<1>1. CASE Done(r)
  BY <1>1, DoneKeeps DEF CheckUser
<1>2. CASE Goto(r, "insert")
  <2> DEFINE new == [req[r] EXCEPT !.pc = "insert"]
  <2>1. req[r] \in Request /\ Registering(r)
    BY DEF IInv, TypeOK, CheckUser, Registering
  <2>2. /\ new \in Request /\ new.pc = "insert" /\ new.username = req[r].username
        /\ new.email = req[r].email /\ new.code = req[r].code /\ new.by = req[r].by
    BY <2>1 DEF Request, Pcs
  <2>3. req' = [req EXCEPT ![r] = new]
    BY <1>2 DEF Goto
  <2>4. /\ new.username \in Names /\ new.email \in Emails /\ new.code \in Codes
        /\ Exists(new.by)
        /\ \E i \in invites : i.code = new.code /\ i.createdBy = new.by
    BY <2>1, <2>2 DEF IInv, RequestsConsistent
  <2>5. UNCHANGED <<users, nextId, invites, issued>> /\ uncounted' \in BOOLEAN
    BY DEF CheckUser, IInv, TypeOK
  <2> HIDE DEF new
  <2> QED
    BY <2>2, <2>3, <2>4, <2>5, RequestStepKeeps
<1> QED
  BY <1>1, <1>2 DEF CheckUser

(* A new invite is begun, whether its creator's invites were counted or not. *)
LEMMA CountPendingKeeps ==
  ASSUME IInv, NEW r \in Reqs, NEW u \in users, CountPending(r, u) \/ CountFails(r, u)
  PROVE  IInv'
<1> DEFINE new == [IdleRequest EXCEPT !.pc = "newinvite", !.by = u.id]
<1>1. new \in Request /\ new.pc = "newinvite" /\ new.by = u.id
  BY DEF IInv, TypeOK, UserRow, Request, IdleRequest, Pcs, Ids, NoId
<1>2. Exists(new.by)
  BY <1>1 DEF Exists
<1>3. /\ req' = [req EXCEPT ![r] = new]
      /\ UNCHANGED <<users, nextId, invites, issued>> /\ uncounted' \in BOOLEAN
  BY DEF CountPending, CountFails, IInv, TypeOK, UserRow
<1> HIDE DEF new
<1> QED
  BY <1>1, <1>2, <1>3, RequestStepKeeps
(* The INSERT, refused or done. *)
LEMMA InsertUserKeeps ==
  ASSUME IInv, NEW r \in Reqs, InsertUser(r)
  PROVE  IInv'
<1>1. CASE Taken(req[r].username, req[r].email)
  BY <1>1, DoneKeeps DEF InsertUser
<1>2. CASE ~Taken(req[r].username, req[r].email)
  <2> DEFINE row == NewUser(r)
  <2>1. /\ users' = users \cup {row} /\ nextId' = nextId + 1
        /\ req' = [req EXCEPT ![r].pc = "use", ![r].uid = nextId]
        /\ UNCHANGED <<invites, issued, uncounted>>
    BY <1>2 DEF InsertUser
  <2>2. /\ req[r] \in Request /\ req[r].username \in Names /\ req[r].email \in Emails
        /\ req[r].code \in Codes /\ Exists(req[r].by)
        /\ \E i \in invites : i.code = req[r].code /\ i.createdBy = req[r].by
    BY DEF IInv, TypeOK, InsertUser, RequestsConsistent, Registering
  <2>3. /\ row \in UserRow /\ row.id = nextId /\ row.username = req[r].username
        /\ row.email = req[r].email /\ row.invitedBy = req[r].by
        /\ row.via = req[r].code
    BY <2>2 DEF NewUser, UserRow, Request, IInv, TypeOK
  <2> HIDE DEF row
  <2>4. /\ users' \subseteq UserRow /\ nextId' \in Ids
        /\ IdsIssued' /\ InvitesIssued' /\ AccountsUnique'
        /\ InviteTreeWellFounded' /\ UsedInviteMatchesUser'
        /\ \A id : Exists(id) => Exists(id)'
    BY <1>2, <2>1, <2>2, <2>3, NewRowKeeps
  <2>5. TypeOK'
    BY <2>1, <2>2, <2>4 DEF IInv, TypeOK, Request, Pcs, Ids
  <2>6. RequestsConsistent'
    <3> SUFFICES ASSUME NEW s \in Reqs
                 PROVE RequestsConsistent!(s)'
      BY DEF RequestsConsistent
    <3>1. CASE s = r
      <4>1. /\ req'[s].pc = "use" /\ req'[s].uid = nextId /\ req'[s].by = req[r].by
            /\ req'[s].code = req[r].code /\ req'[s].username = req[r].username
            /\ req'[s].email = req[r].email
        BY <2>1, <2>2, <3>1 DEF IInv, TypeOK, Request
      <4>2. row \in users'
        BY <2>1
      <4> QED
        BY <2>1, <2>2, <2>3, <2>4, <4>1, <4>2 DEF Registering
    <3>2. CASE s # r
      <4>1. req'[s] = req[s]
        BY <2>1, <3>2 DEF IInv, TypeOK
      <4>2. users \subseteq users' /\ invites' = invites
        BY <2>1
      <4> QED
        BY <2>4, <4>1, <4>2 DEF IInv, RequestsConsistent, Registering
    <3> QED
      BY <3>1, <3>2
  <2> QED
    BY <2>4, <2>5, <2>6 DEF IInv
<1> QED
  BY <1>1, <1>2

(* The UPDATE of the invite: codes and creators stay what they were, and    *)
(* the user it names is the one the request inserted.                       *)
LEMMA UseInviteKeeps ==
  ASSUME IInv, NEW r \in Reqs, UseInvite(r)
  PROVE  IInv'
<1> DEFINE upd(i) == IF Redeemable(i, req[r].code)
                     THEN [i EXCEPT !.usedBy = req[r].uid] ELSE i
<1>1. /\ invites' = {upd(i) : i \in invites} /\ Done(r)
      /\ UNCHANGED <<users, nextId, issued, uncounted>>
  BY DEF UseInvite
<1>2. req[r] \in Request /\ invites \subseteq InviteRow
  BY DEF IInv, TypeOK
<1>3. \A i \in invites :
        /\ upd(i) \in InviteRow /\ upd(i).code = i.code /\ upd(i).createdBy = i.createdBy
        /\ \/ upd(i).usedBy = i.usedBy
           \/ i.code = req[r].code /\ upd(i).usedBy = req[r].uid
  BY <1>2 DEF Redeemable, InviteRow, Request
<1>4. PICK u \in users :
        u.id = req[r].uid /\ u.via = req[r].code /\ u.invitedBy = req[r].by
  BY DEF IInv, RequestsConsistent, UseInvite
<1>5. PICK j \in invites : j.code = req[r].code /\ j.createdBy = req[r].by
  BY DEF IInv, RequestsConsistent, UseInvite, Registering
<1> HIDE DEF upd
<1>6. TypeOK'
  BY <1>1, <1>3, NoneAssumption
  DEF IInv, TypeOK, Done, IdleRequest, Request, Pcs, NoId
<1>7. InvitesIssued'
  BY <1>1, <1>3 DEF IInv, InvitesIssued, Exists
<1>8. RequestsConsistent'
  <2> SUFFICES ASSUME NEW s \in Reqs
               PROVE RequestsConsistent!(s)'
    BY DEF RequestsConsistent
  <2>1. CASE s = r
    BY <1>1, <2>1 DEF Done, IdleRequest, Registering, IInv, TypeOK
  <2>2. CASE s # r
    <3>1. req'[s] = req[s] /\ users' = users
      BY <1>1, <2>2 DEF IInv, TypeOK, Done
    <3>2. \A i \in invites : \E k \in invites' : k.code = i.code /\ k.createdBy = i.createdBy
      BY <1>1, <1>3
    <3> QED
      BY <3>1, <3>2 DEF IInv, RequestsConsistent, Registering, Exists
  <2> QED
    BY <2>1, <2>2
<1>9. UsedInviteMatchesUser'
  <2> SUFFICES ASSUME NEW k \in invites', k.usedBy # NoId
               PROVE  \E v \in users' :
                        v.id = k.usedBy /\ v.via = k.code /\ v.invitedBy = k.createdBy
    BY DEF UsedInviteMatchesUser
  <2>1. PICK i \in invites : k = upd(i)
    BY <1>1
  <2>2. CASE k.usedBy = i.usedBy
    BY <1>1, <1>3, <2>1, <2>2 DEF IInv, UsedInviteMatchesUser
  <2>3. CASE i.code = req[r].code /\ k.usedBy = req[r].uid
    <3>1. k.code = req[r].code /\ k.createdBy = req[r].by
      BY <1>3, <1>5, <2>1, <2>3 DEF IInv, InvitesIssued
    <3> QED
      BY <1>1, <1>4, <2>3, <3>1
  <2> QED
    BY <1>3, <2>1, <2>2, <2>3
<1> QED
  BY <1>1, <1>6, <1>7, <1>8, <1>9 DEF IInv, IdsIssued, AccountsUnique, InviteTreeWellFounded
(* The INSERT of an invite under a code nobody has. *)
LEMMA CreateInviteKeeps ==
  ASSUME IInv, NEW r \in Reqs, CreateInvite(r)
  PROVE  IInv'
<1> PICK c \in Codes \ issued :
      /\ issued' = issued \cup {c}
      /\ invites' = invites \cup
           {[code |-> c, createdBy |-> req[r].by, usedBy |-> NoId]}
  BY DEF CreateInvite
<1> DEFINE new == [code |-> c, createdBy |-> req[r].by, usedBy |-> NoId]
<1>1. Done(r) /\ UNCHANGED <<users, nextId, uncounted>> /\ Exists(req[r].by)
  BY DEF CreateInvite, IInv, RequestsConsistent
<1>2. /\ new \in InviteRow /\ new.code = c /\ new.createdBy = req[r].by
      /\ new.usedBy = NoId
  BY <1>1 DEF Exists, IInv, TypeOK, UserRow, InviteRow, NoId, Ids
<1> HIDE DEF new
<1>3. invites' = invites \cup {new}
  BY DEF new
<1>4. TypeOK'
  BY <1>1, <1>2, <1>3, NoneAssumption
  DEF IInv, TypeOK, Done, IdleRequest, Request, Pcs, NoId
<1>5. InvitesIssued'
  BY <1>1, <1>2, <1>3 DEF IInv, InvitesIssued, Exists
<1>6. RequestsConsistent'
  BY <1>1, <1>3 DEF IInv, TypeOK, Done, IdleRequest, RequestsConsistent, Registering, Exists
<1>7. UsedInviteMatchesUser'
  BY <1>1, <1>2, <1>3 DEF IInv, UsedInviteMatchesUser
<1> QED
  BY <1>1, <1>4, <1>5, <1>6, <1>7
  DEF IInv, IdsIssued, AccountsUnique, InviteTreeWellFounded

(* A restart, with or without -create-admin. *)
LEMMA RestartKeeps ==
  ASSUME IInv, Restart
  PROVE  IInv'
<1>1. req' = [r \in Reqs |-> IdleRequest] /\ UNCHANGED <<invites, issued, uncounted>>
  BY DEF Restart
<1>2. req' \in [Reqs -> Request]
  BY <1>1, NoneAssumption DEF IdleRequest, Request, Pcs, NoId
<1>3. RequestsConsistent'
  BY <1>1 DEF RequestsConsistent, Registering, IdleRequest
<1>4. CASE UNCHANGED <<users, nextId>>
  BY <1>1, <1>2, <1>3, <1>4 DEF IInv, TypeOK, IdsIssued, InvitesIssued, Exists,
       AccountsUnique, InviteTreeWellFounded, UsedInviteMatchesUser
<1>5. CASE \E n \in Names, e \in Emails :
             /\ ~Taken(n, e)
             /\ users' = users \cup {[id |-> nextId, username |-> n, email |-> e,
                                      invitedBy |-> NoId, via |-> None]}
             /\ nextId' = nextId + 1
  <2> PICK n \in Names, e \in Emails :
             /\ ~Taken(n, e)
             /\ users' = users \cup {[id |-> nextId, username |-> n, email |-> e,
                                      invitedBy |-> NoId, via |-> None]}
             /\ nextId' = nextId + 1
    BY <1>5
  <2> DEFINE row == [id |-> nextId, username |-> n, email |-> e,
                     invitedBy |-> NoId, via |-> None]
  <2>1. /\ row \in UserRow /\ row.id = nextId /\ row.invitedBy = NoId
        /\ ~Taken(row.username, row.email)
    BY DEF IInv, TypeOK, UserRow, NoId
  <2> HIDE DEF row
  <2>2. users' = users \cup {row}
    BY DEF row
  <2>3. /\ users' \subseteq UserRow /\ nextId' \in Ids
        /\ IdsIssued' /\ InvitesIssued' /\ AccountsUnique'
        /\ InviteTreeWellFounded' /\ UsedInviteMatchesUser'
    BY <1>1, <2>1, <2>2, NewRowKeeps
  <2> QED
    BY <1>1, <1>2, <1>3, <2>3 DEF IInv, TypeOK
<1> QED
  BY <1>4, <1>5 DEF Restart

(* Every action preserves the invariant.                                    *)
LEMMA NextIInv == IInv /\ [Next]_vars => IInv'
<1> SUFFICES ASSUME IInv, [Next]_vars PROVE IInv'
  OBVIOUS
<1>1. CASE UNCHANGED vars
  BY <1>1 DEF vars, IInv, TypeOK, IdsIssued, InvitesIssued, Exists, RequestsConsistent,
       Registering, AccountsUnique, InviteTreeWellFounded, UsedInviteMatchesUser
<1>2. ASSUME NEW r \in Reqs, NEW n \in Names, NEW e \in Emails, RegisterSubmit(r, n, e)
      PROVE  IInv'
  BY <1>2, RegisterSubmitKeeps
<1>3. ASSUME NEW r \in Reqs, CheckUser(r) PROVE IInv'
  BY <1>3, CheckUserKeeps
<1>4. ASSUME NEW r \in Reqs, InsertUser(r) PROVE IInv'
  BY <1>4, InsertUserKeeps
<1>5. ASSUME NEW r \in Reqs, UseInvite(r) PROVE IInv'
  BY <1>5, UseInviteKeeps
<1>6. ASSUME NEW r \in Reqs, NEW u \in users, CountPending(r, u) \/ CountFails(r, u)
      PROVE  IInv'
  BY <1>6, CountPendingKeeps
<1>7. ASSUME NEW r \in Reqs, CreateInvite(r) PROVE IInv'
  BY <1>7, CreateInviteKeeps
<1>8. ASSUME NEW r \in Reqs, Abort(r) PROVE IInv'
  BY <1>8, DoneKeeps DEF Abort
<1>9. CASE Restart
  BY <1>9, RestartKeeps
<1> QED
  BY <1>1, <1>2, <1>3, <1>4, <1>5, <1>6, <1>7, <1>8, <1>9 DEF Next
-----------------------------------------------------------------------------
(* The invariant the theorems below rest on. *)
THEOREM Invariance == Spec => []IInv
<1> QED
  BY InitIInv, NextIInv, PTL DEF Spec

(* Every variable keeps its type. *)
THEOREM TypeCorrect == Spec => []TypeOK
<1>1. IInv => TypeOK
  BY DEF IInv
<1> QED
  BY <1>1, Invariance, PTL

(* However registrations interleave, fail or are cut short by a restart, no *)
(* two users share a name or an address.                                    *)
THEOREM UniqueAccounts == Spec => []AccountsUnique
<1>1. IInv => AccountsUnique
  BY DEF IInv
<1> QED
  BY <1>1, Invariance, PTL

(* GetInviteTree descends to younger rows only, so it terminates. *)
THEOREM InviteTreeTerminates == Spec => []InviteTreeWellFounded
<1>1. IInv => InviteTreeWellFounded
  BY DEF IInv
<1> QED
  BY <1>1, Invariance, PTL

(* A used invite names a user that registered with it and that is credited  *)
(* to its creator.                                                          *)
THEOREM InvitesTellTheTruth == Spec => []UsedInviteMatchesUser
<1>1. IInv => UsedInviteMatchesUser
  BY DEF IInv
<1> QED
  BY <1>1, Invariance, PTL

(* Together: the tables users and invites agree in every reachable state,    *)
(* whatever registrations and invite forms run at once.                     *)
THEOREM ConsistentAccounts == Spec => []AccountsConsistent
<1>1. IInv => AccountsConsistent
  BY DEF IInv, AccountsConsistent
<1> QED
  BY <1>1, Invariance, PTL

(* UseInvite never takes an invite from the user it was first used by. *)
THEOREM UsedInvitesStay == Spec => UsedInviteIsFinal
<1>1. IInv /\ [Next]_vars => [\A i \in invites : i.usedBy # NoId => i \in invites']_vars
  <2> SUFFICES ASSUME IInv, Next, NEW i \in invites, i.usedBy # NoId
               PROVE  i \in invites'
    OBVIOUS
  <2>1. CASE UNCHANGED invites
    BY <2>1
  <2>2. ASSUME NEW r \in Reqs, UseInvite(r) PROVE i \in invites'
    BY <2>2 DEF UseInvite, Redeemable
  <2>3. ASSUME NEW r \in Reqs, CreateInvite(r) PROVE i \in invites'
    BY <2>3 DEF CreateInvite
  <2> QED
    BY <2>1, <2>2, <2>3
    DEF Next, RegisterSubmit, CheckUser, InsertUser, CountPending, CountFails, Abort, Restart
<1> QED
  BY <1>1, Invariance, PTL DEF Spec, UsedInviteIsFinal

-----------------------------------------------------------------------------
(* The limit on pending invites.                                            *)

PendingOf(id) == {i \in invites : i.createdBy = id /\ i.usedBy = NoId}
Creating(id) == {r \in Reqs : req[r].pc = "newinvite" /\ req[r].by = id}

Room(id) ==
    Cardinality(PendingOf(id)) + Cardinality(Creating(id)) <= PendingLimit - 1 + Cardinality(Reqs)

(* Every account, also one to come, has room for what it has begun.         *)
LimitSound == \A id : IsFiniteSet(PendingOf(id)) /\ (~uncounted => Room(id))

(* The numbers of the limit. *)
LEMMA RoomTyped ==
  ASSUME NEW id, IsFiniteSet(PendingOf(id))
  PROVE  /\ Cardinality(PendingOf(id)) \in Nat
         /\ IsFiniteSet(Creating(id)) /\ Cardinality(Creating(id)) \in Nat
         /\ Cardinality(Creating(id)) <= Cardinality(Reqs) /\ Cardinality(Reqs) \in Nat
<1>1. IsFiniteSet(Creating(id)) /\ Cardinality(Creating(id)) <= Cardinality(Reqs)
  BY ReqsAssumption, FS_Subset DEF Creating
<1> QED
  BY <1>1, ReqsAssumption, FS_CardinalityType

(* ... and of the next state. *)
LEMMA CreatingTyped ==
  ASSUME NEW id
  PROVE  /\ IsFiniteSet(Creating(id)') /\ Cardinality(Creating(id)') \in Nat
         /\ Cardinality(Creating(id)') <= Cardinality(Reqs)
<1>1. IsFiniteSet(Creating(id)') /\ Cardinality(Creating(id)') <= Cardinality(Reqs)
  BY ReqsAssumption, FS_Subset DEF Creating
<1> QED
  BY <1>1, FS_CardinalityType

(* No new invite and no new request for one. *)
LEMMA FewerFit ==
  ASSUME NEW id, IsFiniteSet(PendingOf(id)), Room(id),
         PendingOf(id)' \subseteq PendingOf(id), Creating(id)' \subseteq Creating(id)
  PROVE  IsFiniteSet(PendingOf(id)') /\ Room(id)'
<1>1. PICK p, q, n \in Nat : /\ p = Cardinality(PendingOf(id)) /\ q = Cardinality(Creating(id))
                             /\ n = Cardinality(Reqs)
  BY RoomTyped
<1>2. IsFiniteSet(PendingOf(id)') /\ Cardinality(PendingOf(id)') <= p /\ Cardinality(PendingOf(id)') \in Nat
  BY <1>1, FS_Subset, FS_CardinalityType
<1>3. Cardinality(Creating(id)') <= q /\ Cardinality(Creating(id)') \in Nat
  BY <1>1, RoomTyped, CreatingTyped, FS_Subset
<1>4. p + q <= PendingLimit - 1 + n
  BY <1>1 DEF Room
<1>5. Cardinality(PendingOf(id)') + Cardinality(Creating(id)') <= PendingLimit - 1 + n
  BY <1>2, <1>3, <1>4, LimitsAssumption
<1> QED
  BY <1>1, <1>2, <1>5 DEF Room

(* A step that touches neither keeps the limit. *)
LEMMA FewerKeep ==
  ASSUME LimitSound, uncounted' = uncounted,
         \A id : PendingOf(id)' \subseteq PendingOf(id) /\ Creating(id)' \subseteq Creating(id)
  PROVE  LimitSound'
<1> SUFFICES ASSUME NEW id PROVE IsFiniteSet(PendingOf(id)') /\ (~uncounted => Room(id)')
  BY DEF LimitSound
<1>1. IsFiniteSet(PendingOf(id)')
  BY FS_Subset DEF LimitSound
<1>2. ~uncounted => Room(id)'
  BY FewerFit DEF LimitSound
<1> QED
  BY <1>1, <1>2

(* Every account starts without invites. *)
LEMMA InitLimit == Init => LimitSound
<1> SUFFICES ASSUME Init, NEW id PROVE IsFiniteSet(PendingOf(id)) /\ Room(id)
  BY DEF LimitSound
<1>1. PendingOf(id) = {} /\ Creating(id) = {}
  BY DEF Init, PendingOf, Creating, IdleRequest
<1>2. Cardinality(Reqs) \in Nat
  BY ReqsAssumption, FS_CardinalityType
<1> QED
  BY <1>1, <1>2, FS_EmptySet, LimitsAssumption DEF Room

(* An account whose invites were counted has room for one more request, as  *)
(* these are no more than there can be.                                     *)
LEMMA CountPendingLimit ==
  ASSUME IInv, LimitSound, NEW r \in Reqs, NEW u \in users, CountPending(r, u)
  PROVE  LimitSound'
<1>1. /\ UnderLimit(u) /\ UNCHANGED <<invites, uncounted>>
      /\ req' = [req EXCEPT ![r] = [IdleRequest EXCEPT !.pc = "newinvite", !.by = u.id]]
  BY DEF CountPending
<1>2. \A s \in Reqs \ {r} : req'[s] = req[s]
  BY <1>1 DEF IInv, TypeOK
<1>3. req'[r].by = u.id
  BY <1>1 DEF IInv, TypeOK, IdleRequest
<1> SUFFICES ASSUME NEW id PROVE IsFiniteSet(PendingOf(id)') /\ (~uncounted => Room(id)')
  BY <1>1 DEF LimitSound
<1>4. PendingOf(id)' = PendingOf(id) /\ IsFiniteSet(PendingOf(id))
  BY <1>1 DEF PendingOf, LimitSound
<1>5. CASE id = u.id
  <2>1. PICK p, n \in Nat : p = Cardinality(PendingOf(id)) /\ n = Cardinality(Reqs)
    BY <1>4, RoomTyped
  <2>2. p < PendingLimit
    BY <1>1, <1>5, <2>1 DEF UnderLimit, Pending, PendingOf
  <2>3. Cardinality(Creating(id)') \in Nat /\ Cardinality(Creating(id)') <= n
    BY <2>1, CreatingTyped
  <2>4. p + Cardinality(Creating(id)') <= PendingLimit - 1 + n
    BY <2>2, <2>3, LimitsAssumption
  <2> QED
    BY <1>4, <2>1, <2>4 DEF Room
<1>6. CASE id # u.id
  <2>1. Creating(id)' \subseteq Creating(id)
    BY <1>2, <1>3, <1>6 DEF Creating
  <2> QED
    BY <1>4, <2>1, FewerFit DEF LimitSound
<1> QED
  BY <1>5, <1>6

(* The INSERT turns a request for an invite into an invite. *)
LEMMA CreateInviteLimit ==
  ASSUME IInv, LimitSound, NEW r \in Reqs, CreateInvite(r)
  PROVE  LimitSound'
<1>0. PICK c \in Codes \ issued :
        invites' = invites \cup {[code |-> c, createdBy |-> req[r].by, usedBy |-> NoId]}
  BY DEF CreateInvite
<1> DEFINE new == [code |-> c, createdBy |-> req[r].by, usedBy |-> NoId]
<1>1. invites' = invites \cup {new} /\ new.createdBy = req[r].by
  BY <1>0
<1> HIDE DEF new
<1>2. req[r].pc = "newinvite" /\ Done(r) /\ uncounted' = uncounted
  BY DEF CreateInvite
<1>3. req'[r].pc = "idle" /\ \A s \in Reqs \ {r} : req'[s] = req[s]
  BY <1>2 DEF Done, IdleRequest, IInv, TypeOK
<1> SUFFICES ASSUME NEW id PROVE IsFiniteSet(PendingOf(id)') /\ (~uncounted => Room(id)')
  BY <1>2 DEF LimitSound
<1>4. IsFiniteSet(PendingOf(id))
  BY DEF LimitSound
<1>5. CASE id = req[r].by
  <2>1. PICK p, q, n \in Nat : /\ p = Cardinality(PendingOf(id)) /\ q = Cardinality(Creating(id))
                               /\ n = Cardinality(Reqs)
    BY <1>4, RoomTyped
  <2>2. PendingOf(id)' \subseteq PendingOf(id) \cup {new}
    BY <1>1 DEF PendingOf
  <2>3. IsFiniteSet(PendingOf(id) \cup {new}) /\ Cardinality(PendingOf(id) \cup {new}) \in {p, p + 1}
    BY <1>4, <2>1, FS_AddElement
  <2>4. /\ IsFiniteSet(PendingOf(id)') /\ Cardinality(PendingOf(id)') \in Nat
        /\ Cardinality(PendingOf(id)') <= p + 1
    <3>1. IsFiniteSet(PendingOf(id)') /\ Cardinality(PendingOf(id)') <= Cardinality(PendingOf(id) \cup {new})
      BY <2>2, <2>3, FS_Subset
    <3>2. Cardinality(PendingOf(id)') \in Nat
      BY <3>1, FS_CardinalityType
    <3> QED
      BY <2>3, <3>1, <3>2
  <2>5. Creating(id)' = Creating(id) \ {r} /\ r \in Creating(id)
    BY <1>2, <1>3, <1>5 DEF Creating
  <2>6. Cardinality(Creating(id)') = q - 1
    <3>1. IsFiniteSet(Creating(id))
      BY <1>4, RoomTyped
    <3>2. Cardinality(Creating(id) \ {r}) = Cardinality(Creating(id)) - 1
      BY <2>5, <3>1, FS_RemoveElement
    <3> QED
      BY <2>1, <2>5, <3>2
  <2>7. ASSUME ~uncounted PROVE Room(id)'
    <3>1. p + q <= PendingLimit - 1 + n
      BY <2>1, <2>7 DEF LimitSound, Room
    <3>2. Cardinality(PendingOf(id)') + Cardinality(Creating(id)') <= PendingLimit - 1 + n
      BY <2>4, <2>6, <3>1, LimitsAssumption
    <3> QED
      BY <2>1, <3>2 DEF Room
  <2> QED
    BY <2>4, <2>7
<1>6. CASE id # req[r].by
  <2>1. PendingOf(id)' = PendingOf(id) /\ Creating(id)' \subseteq Creating(id)
    BY <1>1, <1>3, <1>6 DEF PendingOf, Creating
  <2> QED
    BY <1>4, <2>1, FewerFit DEF LimitSound
<1> QED
  BY <1>5, <1>6

(* A redeemed invite is not pending any more. *)
LEMMA UseInviteLimit ==
  ASSUME IInv, LimitSound, NEW r \in Reqs, UseInvite(r)
  PROVE  LimitSound'
<1>1. /\ invites' = {IF Redeemable(i, req[r].code) THEN [i EXCEPT !.usedBy = req[r].uid] ELSE i : i \in invites}
      /\ Done(r) /\ uncounted' = uncounted
  BY DEF UseInvite
<1>2. req[r].uid # NoId
  BY DEF UseInvite, IInv, TypeOK, RequestsConsistent, UserRow, Ids, NoId
<1>3. ASSUME NEW id, NEW k \in PendingOf(id)' PROVE k \in PendingOf(id)
  <2>1. PICK i \in invites : k = IF Redeemable(i, req[r].code) THEN [i EXCEPT !.usedBy = req[r].uid] ELSE i
    BY <1>1, <1>3 DEF PendingOf
  <2>2. k.usedBy = NoId /\ k.createdBy = id
    BY <1>3 DEF PendingOf
  <2>3. ~Redeemable(i, req[r].code)
    <3>1. i \in InviteRow
      BY DEF IInv, TypeOK
    <3> QED
      BY <1>2, <2>1, <2>2, <3>1 DEF InviteRow
  <2> QED
    BY <2>1, <2>2, <2>3 DEF PendingOf
<1>4. \A id : Creating(id)' \subseteq Creating(id)
  BY <1>1 DEF Done, IdleRequest, Creating, IInv, TypeOK
<1> QED
  BY <1>1, <1>3, <1>4, FewerKeep

(* No other step adds an invite, or a request for one. *)
LEMMA LimitStep == IInv /\ LimitSound /\ [Next]_vars => LimitSound'
<1> SUFFICES ASSUME IInv, LimitSound, [Next]_vars PROVE LimitSound'
  OBVIOUS
<1>1. CASE UNCHANGED vars
  BY <1>1, FewerKeep DEF vars, PendingOf, Creating
<1>2. ASSUME NEW r \in Reqs, NEW n \in Names, NEW e \in Emails, RegisterSubmit(r, n, e)
      PROVE  LimitSound'
  <2>1. /\ UNCHANGED <<invites, uncounted>> /\ req'[r].pc = "check"
        /\ \A s \in Reqs \ {r} : req'[s] = req[s]
    BY <1>2 DEF RegisterSubmit, IInv, TypeOK, IdleRequest
  <2> QED
    BY <2>1, FewerKeep DEF PendingOf, Creating
<1>3. ASSUME NEW r \in Reqs, CheckUser(r) \/ InsertUser(r) \/ Abort(r) PROVE LimitSound'
  <2>1. /\ UNCHANGED <<invites, uncounted>> /\ req'[r].pc \in {"idle", "insert", "use"}
        /\ \A s \in Reqs \ {r} : req'[s] = req[s]
    BY <1>3 DEF CheckUser, InsertUser, Abort, Done, Goto, IInv, TypeOK, IdleRequest, Request
  <2> QED
    BY <2>1, FewerKeep DEF PendingOf, Creating
<1>4. CASE Restart
  <2>1. UNCHANGED <<invites, uncounted>> /\ \A s \in Reqs : req'[s].pc = "idle"
    BY <1>4 DEF Restart, IdleRequest
  <2> QED
    BY <2>1, FewerKeep DEF PendingOf, Creating
<1>5. ASSUME NEW r \in Reqs, NEW u \in users, CountFails(r, u) PROVE LimitSound'
  BY <1>5 DEF CountFails, LimitSound, PendingOf
<1> QED
  BY <1>1, <1>2, <1>3, <1>4, <1>5, CountPendingLimit, CreateInviteLimit, UseInviteLimit DEF Next

(* Unless a count has failed, an account exceeds the limit on pending       *)
(* invites by no more than the requests that can pass the check together,   *)
(* however many there are.                                                  *)
THEOREM AlwaysPendingBounded == Spec => []PendingBounded
<1>1. Spec => []LimitSound
  BY InitIInv, NextIInv, InitLimit, LimitStep, PTL DEF Spec
<1>2. LimitSound => PendingBounded
  BY DEF LimitSound, Room, PendingOf, Creating, PendingBounded, Pending
<1> QED
  BY <1>1, <1>2, PTL
=============================================================================
