----------------------------- MODULE MakhorVotes -----------------------------
(***************************************************************************)
(* Voting in makhor (tools/makhor): toggleVote, one deferred SQLite        *)
(* transaction of a SELECT and two writes, run by concurrent requests on   *)
(* pooled connections.                                                     *)
(*                                                                         *)
(* The database is in WAL mode.  A transaction reads the snapshot of its   *)
(* first statement.  Its first write needs the one write lock, and fails   *)
(* (SQLITE_BUSY_SNAPSHOT) when anything was committed after the snapshot   *)
(* was taken; waiting for the lock may time out (SQLITE_BUSY).  Writes are *)
(* visible to others at commit.                                            *)
(***************************************************************************)
EXTENDS Integers, FiniteSets

CONSTANTS
    Users,
    Items,     \* ids of posts and comments
    Reqs,      \* request goroutines, each with a connection
    Nobody,    \* no request
    NoReply    \* no result yet

ASSUME UsersFinite == IsFiniteSet(Users)
ASSUME NobodyAssumption == Nobody \notin Reqs

VARIABLES
    items,               \* posts and comments that exist
    votes, score,        \* committed rows of votes, and the score columns
    lock,                \* holder of the write lock
    newVotes, newScore,  \* the same tables as the lock holder sees them
    tx,                  \* the transactions
    ret                  \* what toggleVote last returned to each request

vars == <<items, votes, score, lock, newVotes, newScore, tx, ret>>

-----------------------------------------------------------------------------
(* had: what the SELECT found; stale: something was committed since then;   *)
(* reply: the score RETURNING gave.                                         *)
Tx == [pc : {"write", "score", "commit"}, user : Users, item : Items,
       had : BOOLEAN, stale : BOOLEAN, reply : Int] \cup {[pc |-> "idle"]}

NoTx == [pc |-> "idle"]

Reply == [user : Users, item : Items, score : Int, voted : BOOLEAN]

(* Every snapshot that is open becomes an old one. *)
Outdated(txs) ==
    [r \in Reqs |-> IF txs[r].pc = "idle" THEN txs[r] ELSE [txs[r] EXCEPT !.stale = TRUE]]

(* How a toggle moves the score. *)
Moved(n, had) == IF had THEN n - 1 ELSE n + 1

Init ==
    /\ items = {}
    /\ votes = {} /\ newVotes = {}
    /\ score = [t \in Items |-> 0] /\ newScore = score
    /\ lock = Nobody
    /\ tx = [r \in Reqs |-> NoTx]
    /\ ret = [r \in Reqs |-> NoReply]

-----------------------------------------------------------------------------
(* createPostFull and CreateComment insert with score 0. *)
Create(t) ==
    /\ lock = Nobody
    /\ t \notin items
    /\ items' = items \cup {t}
    /\ tx' = Outdated(tx)
    /\ UNCHANGED <<votes, score, lock, newVotes, newScore, ret>>

(* Any other write of the program, such as logAction: it commits by itself. *)
OtherWrite ==
    /\ lock = Nobody
    /\ tx' = Outdated(tx)
    /\ UNCHANGED <<items, votes, score, lock, newVotes, newScore, ret>>

(* BEGIN and the SELECT, for any id the client names. *)
SelectVote(r, u, t) ==
    /\ tx[r] = NoTx
    /\ tx' = [tx EXCEPT ![r] =
         [pc |-> "write", user |-> u, item |-> t, had |-> <<u, t>> \in votes,
          stale |-> FALSE, reply |-> 0]]
    /\ ret' = [ret EXCEPT ![r] = NoReply]
    /\ UNCHANGED <<items, votes, score, lock, newVotes, newScore>>

(* SQLite lets a transaction write on top of its own snapshot only. *)
MayWrite(r) == lock = Nobody /\ ~tx[r].stale

WriteAfterPoolRead(r) ==
    LET v == <<tx[r].user, tx[r].item>> IN
    /\ tx[r].pc = "write"
    /\ lock = Nobody
    /\ tx[r].had \/ v \notin newVotes
    /\ lock' = r
    /\ newVotes' = IF tx[r].had THEN newVotes \ {v} ELSE newVotes \cup {v}
    /\ tx' = [tx EXCEPT ![r].pc = "score"]
    /\ UNCHANGED <<items, votes, score, newScore, ret>>

(* DELETE of the row found, or INSERT: takes the lock.  A second row for    *)
(* the same user and item is refused (UNIQUE).                              *)
WriteVote(r) ==
    LET v == <<tx[r].user, tx[r].item>> IN
    /\ tx[r].pc = "write"
    /\ MayWrite(r)
    /\ tx[r].had \/ v \notin newVotes
    /\ lock' = r
    /\ newVotes' = IF tx[r].had THEN newVotes \ {v} ELSE newVotes \cup {v}
    /\ tx' = [tx EXCEPT ![r].pc = "score"]
    /\ UNCHANGED <<items, votes, score, newScore, ret>>

UpdateWithoutRow(r) ==
    /\ tx[r].pc = "score"
    /\ newScore' = IF tx[r].item \in items
                   THEN [newScore EXCEPT ![tx[r].item] = Moved(@, tx[r].had)]
                   ELSE newScore
    /\ tx' = [tx EXCEPT ![r].pc = "commit",
                        ![r].reply = IF tx[r].item \in items
                                     THEN newScore'[tx[r].item] ELSE NoReply]
    /\ UNCHANGED <<items, votes, score, lock, newVotes, ret>>

(* UPDATE ... SET score = score +- 1 ... RETURNING score: without a row to  *)
(* update Scan returns ErrNoRows and the transaction is rolled back (Abort).*)
UpdateScore(r) ==
    /\ tx[r].pc = "score"
    /\ tx[r].item \in items
    /\ newScore' = [newScore EXCEPT ![tx[r].item] = Moved(@, tx[r].had)]
    /\ tx' = [tx EXCEPT ![r].pc = "commit", ![r].reply = newScore'[tx[r].item]]
    /\ UNCHANGED <<items, votes, score, lock, newVotes, ret>>

Commit(r) ==
    /\ tx[r].pc = "commit"
    /\ votes' = newVotes
    /\ score' = newScore
    /\ lock' = Nobody
    /\ tx' = [Outdated(tx) EXCEPT ![r] = NoTx]
    /\ ret' = [ret EXCEPT ![r] =
         [user |-> tx[r].user, item |-> tx[r].item, score |-> tx[r].reply,
          voted |-> ~tx[r].had]]
    /\ UNCHANGED <<items, newVotes, newScore>>

(* A statement or the commit fails: deferred Rollback. *)
Abort(r) ==
    /\ tx[r].pc # "idle"
    /\ tx' = [tx EXCEPT ![r] = NoTx]
    /\ IF lock = r
       THEN lock' = Nobody /\ newVotes' = votes /\ newScore' = score
       ELSE UNCHANGED <<lock, newVotes, newScore>>
    /\ UNCHANGED <<items, votes, score, ret>>

(* The process dies; what was not committed is gone. *)
Crash ==
    /\ tx' = [r \in Reqs |-> NoTx]
    /\ ret' = [r \in Reqs |-> NoReply]
    /\ lock' = Nobody
    /\ newVotes' = votes
    /\ newScore' = score
    /\ UNCHANGED <<items, votes, score>>

Next ==
    \/ \E t \in Items : Create(t)
    \/ OtherWrite
    \/ \E r \in Reqs :
        \/ \E u \in Users, t \in Items : SelectVote(r, u, t)
        \/ WriteVote(r) \/ UpdateScore(r) \/ Commit(r) \/ Abort(r)
    \/ Crash

Spec == Init /\ [][Next]_vars
-----------------------------------------------------------------------------
(* Every variable has its type. *)
TypeOK ==
    /\ items \subseteq Items
    /\ votes \subseteq Users \X Items
    /\ newVotes \subseteq Users \X Items
    /\ score \in [Items -> Int]
    /\ newScore \in [Items -> Int]
    /\ lock \in Reqs \cup {Nobody}
    /\ tx \in [Reqs -> Tx]
    /\ ret \in [Reqs -> Reply \cup {NoReply}]

Voters(t) == {u \in Users : <<u, t>> \in votes}

(* The score shown with a post or a comment is the number of its votes,     *)
(* although votes and scores are separate tables that toggleVote changes    *)
(* one after the other on the strength of an earlier read.                  *)
ScoreCountsVotes == \A t \in Items : score[t] = Cardinality(Voters(t))

(* No vote is left on a post or comment that does not exist, although       *)
(* VotePost never asks whether it does.                                     *)
NoOrphanVotes == \A v \in votes : v[2] \in items

(* Every way out of toggleVote gives the write lock back.                   *)
LockHeldByWriter == lock # Nobody => tx[lock].pc \in {"score", "commit"}

(* The tables as they are committed; the lock, the transactions and what    *)
(* the holder of the lock has written are hidden.                           *)
VoteCount == INSTANCE MakhorVoteCount
               WITH items <- items, votes <- votes, score <- score, ret <- ret

(* toggleVote is atomic, and what it returns is the state it left behind.   *)
ImplementsVoteCount == VoteCount!Spec

-----------------------------------------------------------------------------
(* Votes and scores agree in every committed state: scores count votes,     *)
(* votes have their item, and only a transaction that writes holds the      *)
(* lock.                                                                    *)
VotesConsistent ==
    /\ TypeOK
    /\ ScoreCountsVotes
    /\ NoOrphanVotes
    /\ LockHeldByWriter
=============================================================================
