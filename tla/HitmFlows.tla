------------------------------ MODULE HitmFlows ------------------------------
(***************************************************************************)
(* The flows of hitm, the recording proxy of                               *)
(* users/hanemile/projects/go/hitm: every request a listener handles gets  *)
(* an id from FlowCounter, is put into the listener's map (which evicts    *)
(* when it is full) and goes through the channel OutFlow to one goroutine  *)
(* that saves it; with the response it goes there again.  After a restart  *)
(* the saved flows are loaded, but the listeners serve before that, and    *)
(* the goroutine that empties OutFlow starts after it.  If they cannot be  *)
(* loaded, everything starts all the same, with the counter at zero.       *)
(*                                                                         *)
(* A flow is known by the number of its request, `n', which the program    *)
(* does not have; ids are what it has.  The store is not in the            *)
(* repository; it is taken to replace a flow by its id.                    *)
(***************************************************************************)
EXTENDS Integers, FiniteSets, Sequences, Functions

CONSTANTS
    Conns,      \* proxied connections
    MaxFlows,   \* flows kept in memory
    OutSize,    \* capacity of OutFlow
    MaxReqs     \* bound on requests and starts together, for model checking

ASSUME FlowsAssumption == MaxFlows \in Nat \ {0} /\ OutSize \in Nat \ {0} /\ MaxReqs \in Nat \ {0}

VARIABLES
    FlowCounter,
    conn,       \* what each connection is at, with its request's id and n
    Flows,      \* the listener's map: id to n
    nextEvictID,
    OutFlow,
    store,      \* the database: id to n and whether there is a response
    PersistedFlows,
    restore,    \* what restoreState is at, and the highest id it found
    served,     \* history: number of requests so far,
    early,      \*   those that got their id from a counter not restored,
    late,       \*   flows put into the map after a younger one was evicted
    starts

flowVars == <<FlowCounter, conn, Flows, nextEvictID, OutFlow, store, PersistedFlows,
              restore, served, early, late, starts>>

NoRequest == [at |-> "read", id |-> 0, n |-> 0]
NoFlows == [i \in {} |-> 0]

FlowsInit ==
    /\ FlowCounter = 0
    /\ conn = [c \in Conns |-> NoRequest]
    /\ Flows = NoFlows /\ nextEvictID = 0
    /\ OutFlow = <<>> /\ store = NoFlows /\ PersistedFlows = NoFlows
    /\ restore = [at |-> "load", max |-> 0]
    /\ served = 0 /\ early = {} /\ late = {} /\ starts = 1

Put(f, i, v) == [j \in DOMAIN f \cup {i} |-> IF j = i THEN v ELSE f[j]]
Least(S) == CHOOSE i \in S : \A j \in S : i <= j
Goto(c, stage) == conn' = [conn EXCEPT ![c].at = stage]

-----------------------------------------------------------------------------
(* A request is read and gets its id. *)
NewFlow(c) ==
    /\ conn[c].at = "read" /\ served + starts <= MaxReqs
    /\ FlowCounter' = FlowCounter + 1
    /\ served' = served + 1
    /\ early' = IF restore.at \in {"attach", "done"} THEN early ELSE early \cup {served'}
    /\ conn' = [conn EXCEPT ![c] = [at |-> "insert", id |-> FlowCounter', n |-> served']]
    /\ UNCHANGED <<Flows, nextEvictID, OutFlow, store, PersistedFlows, restore, late, starts>>

(* evictOldFlows: the flow that goes from a map that is too large, and the  *)
(* cursor after that.  The cursor runs up to the first id in the map; past  *)
(* FlowCounter, the least one is looked for.                                *)
Ahead(f) == {i \in DOMAIN f : i = nextEvictID \/ i \in nextEvictID..FlowCounter}

evictNoFallback(f) ==
    LET ahead == Ahead(f)
    IN  CASE Cardinality(DOMAIN f) <= MaxFlows -> [gone |-> {}, next |-> nextEvictID]
          [] ahead # {} -> [gone |-> {Least(ahead)}, next |-> Least(ahead) + 1]
          [] OTHER -> [gone |-> {}, next |-> nextEvictID]

evictOldFlows(f) ==
    LET ahead == Ahead(f)
        least == Least(IF ahead # {} THEN ahead ELSE DOMAIN f)
    IN  IF Cardinality(DOMAIN f) <= MaxFlows THEN [gone |-> {}, next |-> nextEvictID]
        ELSE [gone |-> {least}, next |-> least + 1]

(* The flow goes into the map, under FlowMutex. *)
InsertFlow(c) ==
    LET f == Put(Flows, conn[c].id, conn[c].n)
        e == evictOldFlows(f)
    IN  /\ conn[c].at = "insert"
        /\ Flows' = [i \in DOMAIN f \ e.gone |-> f[i]]
        /\ nextEvictID' = e.next
        /\ late' = (IF conn[c].id < nextEvictID THEN late \cup {conn[c].id} ELSE late)
                      \cap DOMAIN Flows'
        /\ Goto(c, "publish")
        /\ UNCHANGED <<FlowCounter, OutFlow, store, PersistedFlows, restore, served, early, starts>>

(* OutFlow <- *fl, which waits for room. *)
Publish(c) ==
    /\ conn[c].at \in {"publish", "respond"}
    /\ Len(OutFlow) < OutSize
    /\ OutFlow' = Append(OutFlow, [id |-> conn[c].id, n |-> conn[c].n, resp |-> conn[c].at = "respond"])
    /\ Goto(c, IF conn[c].at = "publish" THEN "forward" ELSE "read")
    /\ UNCHANGED <<FlowCounter, Flows, nextEvictID, store, PersistedFlows, restore, served,
                   early, late, starts>>

(* The server answers, or the request fails, is dropped or times out. *)
RoundTrip(c, ok) ==
    /\ conn[c].at = "forward"
    /\ Goto(c, IF ok THEN "respond" ELSE "read")
    /\ UNCHANGED <<FlowCounter, Flows, nextEvictID, OutFlow, store, PersistedFlows, restore,
                   served, early, late, starts>>

-----------------------------------------------------------------------------
(* The goroutine of Backend: the first flow of OutFlow is saved. *)
Drain ==
    /\ restore.at \in {"done", "failed"} /\ OutFlow # <<>>
    /\ LET f == Head(OutFlow) IN store' = Put(store, f.id, [n |-> f.n, resp |-> f.resp])
    /\ OutFlow' = Tail(OutFlow)
    /\ UNCHANGED <<FlowCounter, conn, Flows, nextEvictID, PersistedFlows, restore, served,
                   early, late, starts>>

(* restoreState: the saved flows are loaded, then the counter is compared   *)
(* with the highest id, then it is set, and then the listener gets them.    *)
RestoreLoad ==
    /\ restore.at = "load"
    /\ restore' = [at |-> "compare",
                   max |-> IF DOMAIN store = {} THEN 0
                           ELSE CHOOSE i \in DOMAIN store : \A j \in DOMAIN store : i >= j]
    /\ UNCHANGED <<FlowCounter, conn, Flows, nextEvictID, OutFlow, store, PersistedFlows,
                   served, early, late, starts>>

RestoreFails ==
    /\ restore.at = "load"
    /\ restore' = [restore EXCEPT !.at = "failed"]
    /\ UNCHANGED <<FlowCounter, conn, Flows, nextEvictID, OutFlow, store, PersistedFlows,
                   served, early, late, starts>>

RestoreCompare ==
    /\ restore.at = "compare"
    /\ restore' = [restore EXCEPT !.at = IF restore.max > FlowCounter THEN "set" ELSE "attach"]
    /\ UNCHANGED <<FlowCounter, conn, Flows, nextEvictID, OutFlow, store, PersistedFlows,
                   served, early, late, starts>>

RestoreCount ==
    /\ restore.at = "set"
    /\ FlowCounter' = Cardinality(DOMAIN store)
    /\ restore' = [restore EXCEPT !.at = "attach"]
    /\ UNCHANGED <<conn, Flows, nextEvictID, OutFlow, store, PersistedFlows, served, early, late, starts>>

RestoreSet ==
    /\ restore.at = "set"
    /\ FlowCounter' = restore.max
    /\ restore' = [restore EXCEPT !.at = "attach"]
    /\ UNCHANGED <<conn, Flows, nextEvictID, OutFlow, store, PersistedFlows, served, early, late, starts>>

RestoreAttach ==
    /\ restore.at = "attach"
    /\ PersistedFlows' = [i \in DOMAIN store |-> store[i].n]
    /\ restore' = [restore EXCEPT !.at = "done"]
    /\ UNCHANGED <<FlowCounter, conn, Flows, nextEvictID, OutFlow, store, served, early, late, starts>>

(* The process ends, at any time, and starts again with the database. *)
HitmStarts ==
    /\ served + starts < MaxReqs
    /\ starts' = starts + 1
    /\ FlowCounter' = 0
    /\ conn' = [c \in Conns |-> NoRequest]
    /\ Flows' = NoFlows /\ nextEvictID' = 0 /\ late' = {}
    /\ OutFlow' = <<>> /\ PersistedFlows' = NoFlows
    /\ restore' = [at |-> "load", max |-> 0]
    /\ UNCHANGED <<store, served, early>>

FlowsNext ==
    \/ \E c \in Conns : NewFlow(c) \/ InsertFlow(c) \/ Publish(c) \/ \E ok \in BOOLEAN : RoundTrip(c, ok)
    \/ Drain \/ RestoreLoad \/ RestoreFails \/ RestoreCompare \/ RestoreSet \/ RestoreAttach
    \/ HitmStarts

FlowsSpec == FlowsInit /\ [][FlowsNext]_flowVars

-----------------------------------------------------------------------------
(* /history: the flows in memory, and the loaded ones with other ids. *)
history == {<<i, Flows[i]>> : i \in DOMAIN Flows}
             \cup {<<i, PersistedFlows[i]>> : i \in DOMAIN PersistedFlows \ DOMAIN Flows}

(* /flow: what is opened for an id. *)
flow(i) == IF i \in DOMAIN Flows THEN Flows[i] ELSE PersistedFlows[i]

-----------------------------------------------------------------------------
(* Type invariant. *)
FlowsTypeOK ==
    /\ FlowCounter \in 0..(MaxReqs + 1) /\ served \in 0..MaxReqs
    /\ \A c \in Conns :
         /\ conn[c].at \in {"read", "insert", "publish", "forward", "respond"}
         /\ conn[c].id \in 0..FlowCounter \/ conn[c].n \in early
    /\ Range(Flows) \subseteq 1..served
    /\ Len(OutFlow) <= OutSize
    /\ \A i \in DOMAIN store : store[i].n \in 1..served /\ store[i].resp \in BOOLEAN
    /\ Range(PersistedFlows) \subseteq 1..served
    /\ restore.at \in {"load", "compare", "set", "attach", "done", "failed"}

(* A listener never keeps more than MaxFlows flows, in whatever order the   *)
(* connections put theirs into the map and wherever the cursor is.          *)
FlowsBounded == Cardinality(DOMAIN Flows) <= MaxFlows

(* The flow that is evicted is the oldest one in the map, except for flows  *)
(* that came into the map after a younger one was evicted.                  *)
OldestEvicted ==
    [][\A i \in DOMAIN Flows \ DOMAIN Flows' :
         starts' = starts => \A j \in DOMAIN Flows' : j < i => j \in late']_flowVars

(* A saved flow is never replaced by another request's, through ends of the *)
(* process at any time, unless one of the two got its id before the counter *)
(* was restored, or in a process that could not load the saved flows.       *)
FlowsNotReplaced ==
    [][\A i \in DOMAIN store :
         store'[i].n # store[i].n => {store[i].n, store'[i].n} \cap early # {}]_flowVars

(* A saved response is never lost to the version of the flow without it.    *)
ResponseStays ==
    [][\A i \in DOMAIN store :
         store[i].resp /\ store'[i].n = store[i].n => store'[i].resp]_flowVars

(* What the history lists under an id is what opens, also when an early     *)
(* request took the id of a loaded flow.                                    *)
OpensWhatItLists == \A entry \in history : flow(entry[1]) = entry[2]

-----------------------------------------------------------------------------
(* The flows in memory are bounded, and the history and the page of a flow  *)
(* agree.                                                                   *)
FlowsListed ==
    /\ FlowsTypeOK
    /\ FlowsBounded
    /\ OpensWhatItLists

(* No step loses a flow it should keep: eviction takes the oldest, a saved  *)
(* flow is not replaced by another, a saved response not by its absence.    *)
FlowsKept ==
    /\ OldestEvicted
    /\ FlowsNotReplaced
    /\ ResponseStays
=============================================================================
