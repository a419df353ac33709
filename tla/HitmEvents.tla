------------------------------ MODULE HitmEvents ------------------------------
(***************************************************************************)
(* The backend of hitm towards its page: the event streams of /events, fed *)
(* by the goroutine that saves flows, and the pages of a job's results.    *)
(*                                                                         *)
(* Streams are registered by the remote address of their connection, which *)
(* the streams of one HTTP/2 connection share.                             *)
(***************************************************************************)
EXTENDS Integers, FiniteSets, Sequences

CONSTANTS
    Streams,
    RemoteAddr,     \* the address of a stream
    StreamSize,     \* capacity of a stream's channel
    MaxEvents,      \* bound on the events, for model checking
    DefaultLimit,   \* results in a page
    MaxResults      \* bound on the results of a job, for model checking

ASSUME EventsAssumption ==
    /\ StreamSize \in Nat \ {0} /\ DefaultLimit \in Nat \ {0}
    /\ MaxEvents \in Nat /\ MaxResults \in Nat

VARIABLES
    Connections,    \* address to stream
    stream,         \* channel and last event of each stream
    published,      \* number of events
    slow,           \* history: streams that lost an event to a full channel,
    shared,         \*   and those whose address another stream used meanwhile
    Results         \* number of results of a job

eventVars == <<Connections, stream, published, slow, shared, Results>>

Closed == [open |-> FALSE, ch |-> <<>>, last |-> 0]
SameAddr(s) == {t \in Streams \ {s} : RemoteAddr[t] = RemoteAddr[s] /\ stream[t].open}

EventsInit ==
    /\ Connections = [a \in {} |-> 0]
    /\ stream = [s \in Streams |-> Closed]
    /\ published = 0 /\ slow = {} /\ shared = {} /\ Results = 0

-----------------------------------------------------------------------------
(* /events: the channel is registered; from here on it is to have all.      *)
OpenStream(s) ==
    /\ ~stream[s].open
    /\ stream' = [stream EXCEPT ![s] = [open |-> TRUE, ch |-> <<>>, last |-> published]]
    /\ Connections' = [a \in DOMAIN Connections \cup {RemoteAddr[s]} |->
                         IF a = RemoteAddr[s] THEN s ELSE Connections[a]]
    /\ slow' = slow \ {s}
    /\ shared' = IF SameAddr(s) = {} THEN shared \ {s} ELSE shared \cup SameAddr(s) \cup {s}
    /\ UNCHANGED <<published, Results>>

ReadStream(s) ==
    /\ stream[s].open /\ stream[s].ch # <<>>
    /\ stream' = [stream EXCEPT ![s].ch = Tail(@), ![s].last = Head(stream[s].ch)]
    /\ UNCHANGED <<Connections, published, slow, shared, Results>>

(* The page goes away: the entry of its address is deleted. *)
CloseStream(s) ==
    /\ stream[s].open
    /\ stream' = [stream EXCEPT ![s] = Closed]
    /\ Connections' = [a \in DOMAIN Connections \ {RemoteAddr[s]} |-> Connections[a]]
    /\ UNCHANGED <<published, slow, shared, Results>>

(* The goroutine of Backend: to all registered channels with room, under    *)
(* ConnMutex.                                                               *)
Registered == {Connections[a] : a \in DOMAIN Connections}
Full == {s \in Registered : Len(stream[s].ch) = StreamSize}

BroadcastUntilFull ==
    /\ published < MaxEvents
    /\ published' = published + 1
    /\ stream' = [s \in Streams |->
         IF s \in Registered /\ Full = {} THEN [stream[s] EXCEPT !.ch = Append(@, published')]
         ELSE stream[s]]
    /\ slow' = slow \cup Full
    /\ UNCHANGED <<Connections, shared, Results>>

Broadcast ==
    /\ published < MaxEvents
    /\ published' = published + 1
    /\ stream' = [s \in Streams |->
         IF s \in Registered \ Full THEN [stream[s] EXCEPT !.ch = Append(@, published')]
         ELSE stream[s]]
    /\ slow' = slow \cup Full
    /\ UNCHANGED <<Connections, shared, Results>>

(* A running job finds something. *)
AppendResult ==
    /\ Results < MaxResults
    /\ Results' = Results + 1
    /\ UNCHANGED <<Connections, stream, published, slow, shared>>

(* /jobs/results: the numbers of the results of a page; without parameters  *)
(* all of them if they are few.                                             *)
Lesser(a, b) == IF a < b THEN a ELSE b

jobsResults(offset, limit, total) ==
    LET start == Lesser(offset, total) IN (start + 1)..Lesser(start + limit, total)

jobsResultsPlain(total) ==
    IF total <= DefaultLimit THEN 1..total ELSE jobsResults(0, DefaultLimit, total)

EventsNext ==
    \/ \E s \in Streams : OpenStream(s) \/ ReadStream(s) \/ CloseStream(s)
    \/ Broadcast \/ AppendResult

EventsSpec == EventsInit /\ [][EventsNext]_eventVars

-----------------------------------------------------------------------------
(* Type invariant; only open streams are registered, under their address.   *)
EventsTypeOK ==
    /\ published \in 0..MaxEvents /\ Results \in 0..MaxResults
    /\ \A a \in DOMAIN Connections :
         stream[Connections[a]].open /\ RemoteAddr[Connections[a]] = a
    /\ \A s \in Streams : Len(stream[s].ch) <= StreamSize

(* An open stream has every event since it was opened, read or in its       *)
(* channel, in order: unless its own channel was full, or another stream of *)
(* the same address was opened.  Other streams that are slow, open or close *)
(* do not matter.                                                           *)
NoSilentGap ==
    \A s \in Streams \ (slow \cup shared) :
        stream[s].open =>
            /\ Len(stream[s].ch) = published - stream[s].last
            /\ \A k \in 1..Len(stream[s].ch) : stream[s].ch[k] = stream[s].last + k

(* Pages of any length tile the results, each result on one page, and the   *)
(* first page is what is shown without parameters.                          *)
PagesTile ==
    \A limit \in 1..(MaxResults + 1) :
        /\ \A r \in 1..Results :
             \E k \in 0..MaxResults :
                 \A j \in 0..MaxResults : r \in jobsResults(j * limit, limit, Results) <=> j = k
        /\ \A k \in 0..MaxResults :
             jobsResults(k * limit, limit, Results) \subseteq 1..Results
    /\ jobsResultsPlain(Results) = jobsResults(0, DefaultLimit, Results)

-----------------------------------------------------------------------------
(* What the page of hitm is sent is complete: streams have no silent gap,   *)
(* and the pages of a job's results tile them.                              *)
StreamsAndPages ==
    /\ EventsTypeOK
    /\ NoSilentGap
    /\ PagesTile
=============================================================================
