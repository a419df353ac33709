----------------------------- MODULE StatusBoard -----------------------------
(***************************************************************************)
(* Collecting and serving in the fleet dashboard (tools/status-board): the *)
(* background collector, requests that find the cache too old and collect  *)
(* themselves, the bounded fan-out of one round over all machines, the     *)
(* network rates computed from the previous scrape, and publication.       *)
(*                                                                         *)
(* Time is in ticks.  A scrape, virsh, df and zpool end, but take any      *)
(* time.  The contents of a page other than the rates, and the file of     *)
(* samples behind the forecasts, are left out.                             *)
(***************************************************************************)
EXTENDS Integers, FiniteSets

CONSTANTS
    NVMs,              \* machines in the inventory
    Clients,           \* pages, API requests and event streams
    Loop, Nobody,      \* the collector; no goroutine
    FanOut,            \* scrapes at a time (6 in the code)
    Interval,          \* pause of the collector
    MaxAge,            \* age at which a request wants a new round
    MaxGap,            \* longest time a rate is computed over (600 s)
    OtherCounts,       \* per machine, counters of other interfaces (0: of none)
    MaxTime, MaxBytes  \* bounds (MaxBytes per machine), for model checking

ASSUME SizesAssumption ==
    /\ NVMs \in Nat /\ FanOut \in Nat \ {0} /\ Interval \in Nat
    /\ MaxAge \in [Clients -> Nat \ {0}] /\ MaxGap \in Nat /\ MaxTime \in Nat
    /\ MaxBytes \in [1..NVMs -> Nat] /\ OtherCounts \in [1..NVMs -> SUBSET Nat]
ASSUME ActorsAssumption == Loop \notin Clients /\ Nobody \notin Clients \cup {Loop}

VARIABLES
    now,
    sent, booted,   \* per machine: bytes sent in all, and up to its last boot
    collectMu,      \* holder of collectMu
    proc,           \* the collector and the requests
    netPrev,        \* netPrev: counter and time of the last answer
    cache,          \* cachedVMs, ..., cachedAt
    \* History variables: no step of the system reads them.
    rounds,         \* rounds begun
    seen            \* the round each client was served last

vars == <<now, sent, booted, collectMu, proc, netPrev, cache, rounds, seen>>

-----------------------------------------------------------------------------
Actors == Clients \cup {Loop}
VMs == 1..NVMs
Never == -1

(* rate: what is shown as sent since the last answer.  History: most is     *)
(* what was, if both answers held the counter of the machine's interface,   *)
(* and the counter of this one otherwise.                                   *)
Stat == [rate : Int, most : Nat]
Unreachable == [rate |-> 0, most |-> 0]
NoStats == [v \in VMs |-> Unreachable]
PrevRow == [count : Nat, at : Nat \cup {Never}, sent : Nat, own : BOOLEAN]
NeverScraped == [count |-> 0, at |-> Never, sent |-> 0, own |-> TRUE]

(* next: machines whose scrape has begun; busy: those it is not over for,   *)
(* the slots taken in sem; wake: end of the collector's pause.              *)
Idle == [pc |-> "idle", round |-> 0, next |-> 0, busy |-> {}, vms |-> NoStats,
         wake |-> 0]

Primed == cache.at # Never
Fresh(c) == Primed /\ now - cache.at < MaxAge[c]

Serve(c, n) == seen' = [seen EXCEPT ![c] = n]
To(p, pc) == proc' = [proc EXCEPT ![p].pc = pc]
Rest(p) == proc' = [proc EXCEPT ![p] = [Idle EXCEPT !.wake = now + Interval]]
Return(p) == proc' = [proc EXCEPT ![p] = Idle]

Init ==
    /\ now = 0
    /\ sent = [v \in VMs |-> 0] /\ booted = sent
    /\ collectMu = Nobody
    /\ proc = [p \in Actors |-> Idle]
    /\ netPrev = [v \in VMs |-> NeverScraped]
    /\ cache = [at |-> Never, round |-> 0, vms |-> NoStats]
    /\ rounds = 0
    /\ seen = [c \in Clients |-> 0]

-----------------------------------------------------------------------------
(* cachedOrRefresh, for a page, a summary or a turn of an event stream. *)
CachedOrRefresh(c) ==
    /\ proc[c].pc = "idle"
    /\ IF Fresh(c) THEN Serve(c, cache.round) /\ UNCHANGED proc
                   ELSE To(c, "refresh") /\ UNCHANGED seen
    /\ UNCHANGED <<now, sent, booted, collectMu, netPrev, cache, rounds>>

(* The collector's pause is over. *)
Wake ==
    /\ proc[Loop].pc = "idle"
    /\ now >= proc[Loop].wake
    /\ To(Loop, "refresh")
    /\ UNCHANGED <<now, sent, booted, collectMu, netPrev, cache, rounds, seen>>

(* collectMu.TryLock *)
AlwaysFree == TRUE
MuFree == collectMu = Nobody

(* refresh begins a round, *)
BeginRound(p) ==
    /\ proc[p].pc = "refresh"
    /\ MuFree
    /\ collectMu' = p
    /\ rounds' = rounds + 1
    /\ proc' = [proc EXCEPT ![p] = [Idle EXCEPT !.pc = "collect", !.round = rounds + 1]]
    /\ UNCHANGED <<now, sent, booted, netPrev, cache, seen>>

(* or, while another one runs, returns the cache as it is. *)
ReturnCache(p) ==
    /\ proc[p].pc = "refresh"
    /\ ~MuFree
    /\ IF p = Loop THEN Rest(p) /\ UNCHANGED seen
                   ELSE Return(p) /\ Serve(p, cache.round)
    /\ UNCHANGED <<now, sent, booted, collectMu, netPrev, cache, rounds>>

BeginVMOneSlotShort(p) ==
    LET v == proc[p].next + 1 IN
    /\ proc[p].pc = "collect"
    /\ v \in VMs
    /\ Cardinality(proc[p].busy) < FanOut - 1
    /\ proc' = [proc EXCEPT ![p].next = v, ![p].busy = @ \cup {v}]
    /\ UNCHANGED <<now, sent, booted, collectMu, netPrev, cache, rounds, seen>>

(* collectAll: the next machine gets a goroutine once sem has room. *)
BeginVM(p) ==
    LET v == proc[p].next + 1 IN
    /\ proc[p].pc = "collect"
    /\ v \in VMs
    /\ Cardinality(proc[p].busy) < FanOut
    /\ proc' = [proc EXCEPT ![p].next = v, ![p].busy = @ \cup {v}]
    /\ UNCHANGED <<now, sent, booted, collectMu, netPrev, cache, rounds, seen>>

(* collectVM: the bytes sent since the previous scrape, where it is recent  *)
(* and the counter has not gone back.                                       *)
AnyDelta(count, prev) == count - prev.count
Delta(count, prev) ==
    IF prev.at # Never /\ now - prev.at > 0 /\ now - prev.at < MaxGap /\ count >= prev.count
    THEN count - prev.count ELSE 0

(* collectVM without an answer of the node exporter; the slot is given back *)
(* by a deferred receive.                                                   *)
ScrapeFails(p, v) ==
    /\ v \in proc[p].busy
    /\ proc' = [proc EXCEPT ![p].vms[v] = Unreachable, ![p].busy = @ \ {v}]
    /\ UNCHANGED <<now, sent, booted, collectMu, netPrev, cache, rounds, seen>>

(* An answer, of which fetchMetrics does not look at the status: it holds   *)
(* the counter of the machine's interface, which starts at 0 when the       *)
(* machine boots, or only another interface, or none, which counts as 0.    *)
Answers(v) ==
    [own : {TRUE}, count : {sent[v] - booted[v]}] \cup [own : {FALSE}, count : OtherCounts[v]]

(* collectVM with an answer. *)
Scrape(p, v) ==
    LET prev == netPrev[v]
        real == sent[v] - prev.sent IN
    /\ v \in proc[p].busy
    /\ \E a \in Answers(v) :
         /\ proc' = [proc EXCEPT ![p].busy = @ \ {v},
              ![p].vms[v] = [rate |-> Delta(a.count, prev),
                             most |-> IF a.own /\ prev.own THEN real ELSE a.count]]
         /\ netPrev' = [netPrev EXCEPT ![v] =
              [count |-> a.count, at |-> now, sent |-> sent[v], own |-> a.own]]
    /\ UNCHANGED <<now, sent, booted, collectMu, cache, rounds, seen>>

(* wg.Wait is over; storagebox, zpools and fleet; the cache is swapped. *)
Publish(p) ==
    /\ proc[p].pc = "collect"
    /\ proc[p].next = NVMs /\ proc[p].busy = {}
    /\ cache' = [at |-> now, round |-> proc[p].round, vms |-> proc[p].vms]
    /\ To(p, "unlock")
    /\ UNCHANGED <<now, sent, booted, collectMu, netPrev, rounds, seen>>

(* The deferred Unlock; refresh returns its own results. *)
EndRound(p) ==
    /\ proc[p].pc = "unlock"
    /\ collectMu' = Nobody
    /\ IF p = Loop THEN Rest(p) /\ UNCHANGED seen
                   ELSE Return(p) /\ Serve(p, proc[p].round)
    /\ UNCHANGED <<now, sent, booted, netPrev, cache, rounds>>

-----------------------------------------------------------------------------
Tick ==
    /\ now < MaxTime
    /\ now' = now + 1
    /\ UNCHANGED <<sent, booted, collectMu, proc, netPrev, cache, rounds, seen>>

(* A machine sends something, or boots. *)
Send(v) ==
    /\ sent[v] < MaxBytes[v]
    /\ sent' = [sent EXCEPT ![v] = @ + 1]
    /\ UNCHANGED <<now, booted, collectMu, proc, netPrev, cache, rounds, seen>>

Boot(v) ==
    /\ booted' = [booted EXCEPT ![v] = sent[v]]
    /\ UNCHANGED <<now, sent, collectMu, proc, netPrev, cache, rounds, seen>>

Round(p) ==
    \/ BeginRound(p) \/ ReturnCache(p) \/ BeginVM(p)
    \/ \E v \in VMs : Scrape(p, v) \/ ScrapeFails(p, v)
    \/ Publish(p) \/ EndRound(p)

Next ==
    \/ \E c \in Clients : CachedOrRefresh(c)
    \/ Wake
    \/ \E p \in Actors : Round(p)
    \/ Tick
    \/ \E v \in VMs : Send(v) \/ Boot(v)

Spec == Init /\ [][Next]_vars

(* Goroutines that can run do, and a scrape ends (3 s client timeout). *)
FairSpec == Spec /\ \A p \in Actors : WF_vars(Round(p))
-----------------------------------------------------------------------------
(* Every variable has its type. *)
TypeOK ==
    /\ now \in Nat /\ rounds \in Nat
    /\ sent \in [VMs -> Nat] /\ booted \in [VMs -> Nat]
    /\ collectMu \in Actors \cup {Nobody}
    /\ proc \in [Actors -> [pc : {"idle", "refresh", "collect", "unlock"}, round : Nat,
                            next : 0..NVMs, busy : SUBSET VMs, vms : [VMs -> Stat],
                            wake : Nat]]
    /\ netPrev \in [VMs -> PrevRow]
    /\ cache \in [at : Nat \cup {Never}, round : Nat, vms : [VMs -> Stat]]
    /\ seen \in [Clients -> Nat]

(* collectAll paces its scrapes, and refresh keeps a second round, of a     *)
(* request or of the collector, from adding its own: no more than FanOut    *)
(* scrapes are under way in the process.                                    *)
FanOutBounded ==
    Cardinality({x \in Actors \X VMs : x[2] \in proc[x[1]].busy}) <= FanOut

(* A rate on the board is never negative and never more than the machine    *)
(* really sent since the last answer, across reboots and failed scrapes.    *)
(* Next to an answer without the counter of its interface, it is never more *)
(* than the whole counter, which is what is shown then.                     *)
RateSound(vms) == \A v \in VMs : 0 <= vms[v].rate /\ vms[v].rate <= vms[v].most
RateNotOverstated == RateSound(cache.vms)

(* A client that asks again, as an event stream does, is never shown an     *)
(* older round than before, whoever collected it.                           *)
ServedInOrder == [][\A c \in Clients : seen'[c] >= seen[c]]_vars

(* Every request, and every turn of the collector, comes to an end.         *)
Answered == \A p \in Actors : proc[p].pc # "idle" ~> proc[p].pc = "idle"

-----------------------------------------------------------------------------
(* One round at a time within its slots, and no rate above what a machine   *)
(* has sent.                                                                *)
RoundsBounded ==
    /\ TypeOK
    /\ FanOutBounded
    /\ RateNotOverstated
==============================================================================
