---------------------------- MODULE MCMakhorLogin ----------------------------
(* The login links and the rate limiter in front of them.  The limiter only *)
(* lets a request through or refuses it, which LoginSubmit's being an       *)
(* action that may not happen covers: a behaviour is one of the links or    *)
(* one of the limiter.  The limiter's addresses are the model values of      *)
(* Emails, so that the permutations of Emails are its symmetry too.          *)
EXTENDS MakhorLogin, MakhorRateLimiter, TLC

VARIABLE part

(* The server's clock is one hour behind UTC. *)
MCZoneOffset == -1

MCSymmetry == Permutations(Sids) \cup Permutations(Reqs) \cup Permutations(Tokens)
              \cup Permutations(ChangeTokens) \cup Permutations(Users)
              \cup Permutations(Emails)

LoginInit == Init /\ RateInit /\ part \in {"links", "limiter"}

LoginNext ==
    /\ UNCHANGED part
    /\ \/ part = "links" /\ Next /\ UNCHANGED rateVars
       \/ part = "limiter" /\ RateNext /\ UNCHANGED vars

LoginSpec == LoginInit /\ [][LoginNext]_<<vars, rateVars, part>>
=============================================================================
