-------------------------- MODULE MakhorRateLimiter --------------------------
(***************************************************************************)
(* The sliding-window rate limiter in front of /login and /register of     *)
(* makhor (tools/makhor): the map of recent request times per IP address,  *)
(* Allow and the cleanup goroutine, each of which holds the mutex for all  *)
(* of its work.                                                            *)
(***************************************************************************)
EXTENDS Integers, Sequences, FiniteSets

CONSTANTS
    IPs,
    Limit,          \* requests allowed per window (5 in the code)
    Window,         \* length of the window (a minute)
    MaxTrackedIPs,  \* bound on the map (10000)
    MaxClock         \* bound on the clock, for model checking

ASSUME RateAssumption ==
    /\ Limit \in Nat \ {0}
    /\ Window \in Nat \ {0}
    /\ MaxTrackedIPs \in Nat
    /\ MaxClock \in Nat

VARIABLES
    clock,
    requests,    \* RateLimiter.requests: times of the tracked addresses
    refused,    \* the addresses refused since the clock last moved
    \* History variables: no step of the limiter reads them.
    served,      \* times of the requests let through, of the last window
    overflowed   \* some request was let through without being tracked

rateVars == <<clock, requests, refused, served, overflowed>>

-----------------------------------------------------------------------------
InWindow(t, at) == t > at - Window

RecentShort(times) == SelectSeq(times, LAMBDA t : t > clock - Window + 1)
Recent(times) == SelectSeq(times, LAMBDA t : InWindow(t, clock))

Times(ip) == IF ip \in DOMAIN requests THEN requests[ip] ELSE <<>>

Put(ip, times) ==
    [i \in DOMAIN requests \cup {ip} |-> IF i = ip THEN times ELSE requests[i]]

RateInit ==
    /\ clock = 0
    /\ requests = [i \in {} |-> <<>>]
    /\ refused = {}
    /\ served = [ip \in IPs |-> <<>>]
    /\ overflowed = FALSE

(* Allow refuses an address that has used up its window. *)
Reject(ip) ==
    /\ Len(Recent(Times(ip))) >= Limit
    /\ requests' = Put(ip, Recent(Times(ip)))
    /\ refused' = refused \cup {ip}
    /\ UNCHANGED <<clock, served, overflowed>>

(* Is there no room to track the address? *)
NoRoom(ip) == Recent(Times(ip)) = <<>> /\ Cardinality(DOMAIN requests) >= MaxTrackedIPs

(* Allow lets a request through and notes its time, or, when the map is     *)
(* full, does not note it.                                                  *)
Accept(ip) ==
    /\ Len(Recent(Times(ip))) < Limit
    /\ IF NoRoom(ip)
       THEN overflowed' = TRUE /\ UNCHANGED requests
       ELSE requests' = Put(ip, Append(Recent(Times(ip)), clock)) /\ UNCHANGED overflowed
    /\ served' = [served EXCEPT ![ip] = Append(@, clock)]
    /\ UNCHANGED <<clock, refused>>

(* cleanup, every minute: forget the addresses without a recent request. *)
Cleanup ==
    /\ requests' = [ip \in {i \in DOMAIN requests : Recent(requests[i]) # <<>>} |->
                      Recent(requests[ip])]
    /\ UNCHANGED <<clock, refused, served, overflowed>>

RateTick ==
    /\ clock < MaxClock
    /\ clock' = clock + 1
    /\ refused' = {}
    /\ served' = [ip \in IPs |-> SelectSeq(served[ip], LAMBDA t : InWindow(t, clock + 1))]
    /\ UNCHANGED <<requests, overflowed>>

(* A client whose untracked requests are let through without end is cut     *)
(* off after MaxServed of them, for model checking.                         *)
MaxServed == Limit + 1

RateNext ==
    \/ \E ip \in IPs : Reject(ip) \/ (Len(served[ip]) < MaxServed /\ Accept(ip))
    \/ Cleanup
    \/ RateTick

RateSpec == RateInit /\ [][RateNext]_rateVars
-----------------------------------------------------------------------------
(* Every variable has its type; an address in the map has a request there.  *)
RateTypeOK ==
    /\ clock \in Nat
    /\ DOMAIN requests \subseteq IPs
    /\ \A ip \in DOMAIN requests : requests[ip] \in Seq(Nat) /\ requests[ip] # <<>>
    /\ refused \subseteq IPs
    /\ served \in [IPs -> Seq(Nat)]
    /\ overflowed \in BOOLEAN

(* "Prevent unbounded growth": the limiter's memory is bounded, whatever    *)
(* addresses requests come from.                                            *)
MemoryBounded ==
    /\ Cardinality(DOMAIN requests) <= MaxTrackedIPs
    /\ \A ip \in DOMAIN requests : Len(requests[ip]) <= Limit

(* As long as the map has never been full, no address gets more than Limit  *)
(* requests through in any window, clean-ups between them notwithstanding.  *)
LimitHolds ==
    ~overflowed => \A ip \in IPs : Len(served[ip]) <= Limit

(* No lockout: an address is refused only when Limit of its requests were   *)
(* let through within the last window, refused attempts not counting.       *)
RefusedOnlyOverLimit ==
    \A ip \in refused : Len(served[ip]) >= Limit

-----------------------------------------------------------------------------
(* What the limiter promises: bounded memory, a limit in every window, and  *)
(* no refusal without cause.                                                *)
LimiterHolds ==
    /\ RateTypeOK
    /\ MemoryBounded
    /\ LimitHolds
    /\ RefusedOnlyOverLimit
=============================================================================
