--------------------------- MODULE MakhorVoteCount ---------------------------
(***************************************************************************)
(* What the vote buttons of makhor promise: a vote is toggled in one step, *)
(* the score of the post or comment moves with it, and the caller is told  *)
(* the score and the vote it left behind.  MakhorVotes implements this.    *)
(***************************************************************************)
EXTENDS Integers

CONSTANTS
    Users,
    Items,     \* posts and comments
    Reqs,      \* request goroutines
    NoReply

VARIABLES
    items,     \* the posts and comments that exist
    votes,     \* the pairs <<user, item>> with a vote
    score,     \* the score column
    ret        \* what each request's last toggle returned

vars == <<items, votes, score, ret>>

Reply == [user : Users, item : Items, score : Int, voted : BOOLEAN]

Init ==
    /\ items = {}
    /\ votes = {}
    /\ score = [t \in Items |-> 0]
    /\ ret = [r \in Reqs |-> NoReply]

Create(t) ==
    /\ items' = items \cup {t}
    /\ UNCHANGED <<votes, score, ret>>

Toggle(r, u, t) ==
    LET had == <<u, t>> \in votes IN
    /\ t \in items
    /\ votes' = IF had THEN votes \ {<<u, t>>} ELSE votes \cup {<<u, t>>}
    /\ score' = [score EXCEPT ![t] = IF had THEN @ - 1 ELSE @ + 1]
    /\ ret' = [ret EXCEPT ![r] =
         [user |-> u, item |-> t, score |-> score'[t], voted |-> ~had]]
    /\ UNCHANGED items

(* Requests end, or fail, and what they were told is forgotten. *)
Forget ==
    /\ \E R \in SUBSET Reqs :
         ret' = [r \in Reqs |-> IF r \in R THEN NoReply ELSE ret[r]]
    /\ UNCHANGED <<items, votes, score>>

Next ==
    \/ \E t \in Items : Create(t)
    \/ \E r \in Reqs, u \in Users, t \in Items : Toggle(r, u, t)
    \/ Forget

Spec == Init /\ [][Next]_vars
=============================================================================
