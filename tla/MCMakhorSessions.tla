-------------------------- MODULE MCMakhorSessions --------------------------
(* Two instances of MakhorSessions for TLC.  In the first, two accounts and *)
(* two sessions share the cache, and time is short; u1 invited u2.  In the  *)
(* second, one account with one session is banned, demoted and logged out   *)
(* while time passes.                                                       *)
EXTENDS MakhorSessions, TLC

CONSTANTS u1, u2

VARIABLE part

MCInviter == [u \in Users |-> IF u = u2 THEN u1 ELSE NoUser]
MCSymmetry == Permutations(Sids) \cup Permutations(Reqs)

Within ==
    IF part = "two accounts"
    THEN now <= 1 /\ \A r \in Reqs : req[r].pc # "idle" => req[r].since = now
    ELSE /\ \A s \in Sids : owner[s] # u2
         /\ \A s, t \in Sids : owner[s] # NoUser /\ owner[t] # NoUser => s = t
         /\ ~banned[u2]

SessionsInit ==
    /\ Init
    /\ \/ part = "two accounts"
       \/ part = "one account" /\ ~admin[u2]

SessionsNext ==
    /\ Next /\ UNCHANGED part
    /\ Within'
    /\ part = "two accounts" => UNCHANGED admin

SessionsSpec == SessionsInit /\ [][SessionsNext]_<<vars, part>>
=============================================================================
