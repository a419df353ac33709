---------------------------- MODULE HitmIntercept ----------------------------
(***************************************************************************)
(* Held requests of hitm.  While Intercept is on, the goroutine of a       *)
(* decrypted connection registers a channel for its request and waits for  *)
(* the user's decision, two minutes at most.  The handlers of /forward and *)
(* /drop look the channel up under InterceptMutex and send on it.  The     *)
(* channel has no buffer: a send and its receive are one step, and a send  *)
(* that nobody receives waits for ever.  /forward unlocks before it sends, *)
(* /drop after that.                                                       *)
(*                                                                         *)
(* A version of a request is the handler that edited it, or Original.      *)
(***************************************************************************)
EXTENDS Integers, FiniteSets, Functions

CONSTANTS
    Tunnels,    \* decrypted connections
    Handlers,   \* concurrent requests to the backend
    Original,   \* the request as the client sent it
    MaxHeld     \* bound on the number of requests, for model checking

ASSUME HandlersAssumption == MaxHeld \in Nat /\ {Original, "free"} \cap Handlers = {}

VARIABLES
    Intercept,  \* the switch
    tunnel,     \* what each connection is at, its request's id and version
    Intercepts, \* the channels: id to connection
    InterceptPayload,   \* edited requests: id to version
    mutex,      \* who holds InterceptMutex over several steps: a handler or "free"
    handler,    \* what each handler is at
    lastID,
    held,       \* history: the requests that were held,
    sent,       \*   what was sent to the server: id to version,
    verdicts    \*   decisions that were received, <<id, decision>>

interceptVars == <<Intercept, tunnel, Intercepts, InterceptPayload, mutex, handler, lastID,
                   held, sent, verdicts>>

NoTunnel == [at |-> "read", id |-> 0, req |-> Original]
NoHandler == [op |-> "none", id |-> 0, ch |-> "none"]
Empty == [i \in {} |-> 0]

InterceptInit ==
    /\ Intercept = FALSE
    /\ tunnel = [t \in Tunnels |-> NoTunnel]
    /\ Intercepts = Empty /\ InterceptPayload = Empty
    /\ mutex = "free"
    /\ handler = [h \in Handlers |-> NoHandler]
    /\ lastID = 0 /\ held = {} /\ sent = Empty /\ verdicts = {}

With(f, i, v) == [j \in DOMAIN f \cup {i} |-> IF j = i THEN v ELSE f[j]]
Without(f, i) == [j \in DOMAIN f \ {i} |-> f[j]]
Move(t, stage) == tunnel' = [tunnel EXCEPT ![t].at = stage]

-----------------------------------------------------------------------------
(* /intercept. *)
SetIntercept(on) ==
    /\ Intercept # on
    /\ Intercept' = on
    /\ UNCHANGED <<tunnel, Intercepts, InterceptPayload, mutex, handler, lastID, held, sent, verdicts>>

(* ProcessDecryptedTraffic: a request, and whether to hold it. *)
ReadRequest(t) ==
    /\ tunnel[t].at = "read" /\ lastID < MaxHeld
    /\ lastID' = lastID + 1
    /\ tunnel' = [tunnel EXCEPT ![t] = [at |-> IF Intercept THEN "register" ELSE "send",
                                        id |-> lastID', req |-> Original]]
    /\ UNCHANGED <<Intercept, Intercepts, InterceptPayload, mutex, handler, held, sent, verdicts>>

Register(t) ==
    /\ tunnel[t].at = "register" /\ mutex = "free"
    /\ Intercepts' = With(Intercepts, tunnel[t].id, t)
    /\ held' = held \cup {tunnel[t].id}
    /\ Move(t, "wait")
    /\ UNCHANGED <<Intercept, InterceptPayload, mutex, handler, lastID, sent, verdicts>>

(* time.After, and then the entry is deleted. *)
TimeoutAgain(t) ==
    /\ tunnel[t].at = "wait" /\ mutex = "free"
    /\ Move(t, "register")
    /\ UNCHANGED <<Intercept, Intercepts, InterceptPayload, mutex, handler, lastID, held, sent, verdicts>>

Timeout(t) ==
    /\ tunnel[t].at = "wait"
    /\ Move(t, "expire")
    /\ UNCHANGED <<Intercept, Intercepts, InterceptPayload, mutex, handler, lastID, held, sent, verdicts>>

Expire(t) ==
    /\ tunnel[t].at = "expire" /\ mutex = "free"
    /\ Intercepts' = Without(Intercepts, tunnel[t].id)
    /\ tunnel' = [tunnel EXCEPT ![t] = NoTunnel]
    /\ UNCHANGED <<Intercept, InterceptPayload, mutex, handler, lastID, held, sent, verdicts>>

(* Forwarded: the edited request replaces the original, both entries go.    *)
Apply(t) ==
    LET id == tunnel[t].id
    IN  /\ tunnel[t].at = "apply" /\ mutex = "free"
        /\ tunnel' = [tunnel EXCEPT ![t].at = "send",
             ![t].req = IF id \in DOMAIN InterceptPayload THEN InterceptPayload[id] ELSE @]
        /\ Intercepts' = Without(Intercepts, id)
        /\ InterceptPayload' = Without(InterceptPayload, id)
        /\ UNCHANGED <<Intercept, mutex, handler, lastID, held, sent, verdicts>>

SendRequest(t) ==
    /\ tunnel[t].at = "send"
    /\ sent' = With(sent, tunnel[t].id, tunnel[t].req)
    /\ tunnel' = [tunnel EXCEPT ![t] = NoTunnel]
    /\ UNCHANGED <<Intercept, Intercepts, InterceptPayload, mutex, handler, lastID, held, verdicts>>

-----------------------------------------------------------------------------
(* /forward with an edited request, up to the send.  An id that has no      *)
(* entry is answered with 404.                                              *)
ForwardLocked(h, id) ==
    /\ handler[h] = NoHandler /\ mutex = "free" /\ id \in DOMAIN Intercepts
    /\ InterceptPayload' = With(InterceptPayload, id, h)
    /\ handler' = [handler EXCEPT ![h] = [op |-> "forward", id |-> id, ch |-> Intercepts[id]]]
    /\ mutex' = h
    /\ UNCHANGED <<Intercept, tunnel, Intercepts, lastID, held, sent, verdicts>>

Forward(h, id) ==
    /\ handler[h] = NoHandler /\ mutex = "free" /\ id \in DOMAIN Intercepts
    /\ InterceptPayload' = With(InterceptPayload, id, h)
    /\ handler' = [handler EXCEPT ![h] = [op |-> "forward", id |-> id, ch |-> Intercepts[id]]]
    /\ UNCHANGED <<Intercept, tunnel, Intercepts, mutex, lastID, held, sent, verdicts>>

(* /drop, up to the send. *)
Drop(h, id) ==
    /\ handler[h] = NoHandler /\ mutex = "free" /\ id \in DOMAIN Intercepts
    /\ handler' = [handler EXCEPT ![h] = [op |-> "drop", id |-> id, ch |-> Intercepts[id]]]
    /\ mutex' = h
    /\ UNCHANGED <<Intercept, tunnel, Intercepts, InterceptPayload, lastID, held, sent, verdicts>>

(* Is somebody waiting for what the handler sends? *)
Receiving(h) ==
    LET t == handler[h].ch
    IN  t \in Tunnels /\ tunnel[t].at = "wait" /\ tunnel[t].id = handler[h].id

(* The send and the receive.  A dropped request leaves its entry behind.    *)
Decide(h) ==
    LET t == handler[h].ch
    IN  /\ handler[h] # NoHandler /\ Receiving(h)
        /\ tunnel' = [tunnel EXCEPT ![t] =
             IF handler[h].op = "forward" THEN [@ EXCEPT !.at = "apply"] ELSE NoTunnel]
        /\ verdicts' = verdicts \cup {<<handler[h].id, handler[h].op>>}
        /\ mutex' = IF mutex = h THEN "free" ELSE mutex
        /\ handler' = [handler EXCEPT ![h] = NoHandler]
        /\ UNCHANGED <<Intercept, Intercepts, InterceptPayload, lastID, held, sent>>

TunnelStep(t) ==
    Register(t) \/ Timeout(t) \/ Expire(t) \/ Apply(t) \/ SendRequest(t)

InterceptNext ==
    \/ \E on \in BOOLEAN : SetIntercept(on)
    \/ \E t \in Tunnels : ReadRequest(t) \/ TunnelStep(t)
    \/ \E h \in Handlers :
         \/ Decide(h)
         \/ \E id \in 1..lastID : Forward(h, id) \/ Drop(h, id)

InterceptSpec == InterceptInit /\ [][InterceptNext]_interceptVars

(* Goroutines go on when they can, and the timer fires. *)
InterceptFairness ==
    /\ \A t \in Tunnels : WF_interceptVars(TunnelStep(t))
    /\ \A h \in Handlers : WF_interceptVars(Decide(h))

-----------------------------------------------------------------------------
(* A drop that nobody receives keeps the mutex, and with it every request   *)
(* that is held from then on.                                               *)
LockedUp == mutex # "free" /\ ~Receiving(mutex)

(* Type invariant. *)
InterceptTypeOK ==
    /\ Intercept \in BOOLEAN
    /\ \A t \in Tunnels :
         /\ tunnel[t].at \in {"read", "register", "wait", "expire", "apply", "send"}
         /\ tunnel[t].id \in 0..lastID /\ tunnel[t].req \in Handlers \cup {Original}
         /\ tunnel[t].at = "read" => tunnel[t] = NoTunnel
    /\ DOMAIN Intercepts \subseteq 1..lastID /\ Range(Intercepts) \subseteq Tunnels
    /\ Range(InterceptPayload) \subseteq Handlers
    /\ mutex \in Handlers \cup {"free"}
    /\ held \subseteq 1..lastID
    /\ verdicts \subseteq (1..lastID) \X {"forward", "drop"}

(* A request that was held reaches the server only as a version of the      *)
(* user's that was forwarded, and one that was dropped or timed out never   *)
(* does, however forwards, drops and the timer race; the others pass as     *)
(* they are.                                                                *)
SentAsDecided ==
    \A id \in DOMAIN sent :
        IF id \in held
        THEN sent[id] # Original /\ <<id, "forward">> \in verdicts /\ <<id, "drop">> \notin verdicts
        ELSE sent[id] = Original

(* An answer is true: a request whose forward was confirmed is sent, on its *)
(* way, or stuck behind a late drop; it has not timed out.                  *)
ForwardedIsSent ==
    \A id \in 1..lastID :
        <<id, "forward">> \in verdicts =>
            \/ id \in DOMAIN sent
            \/ \E t \in Tunnels : tunnel[t].id = id /\ tunnel[t].at \in {"apply", "send"}

(* The mutex is lost for good only by a drop of a request whose wait had    *)
(* ended when the drop found its entry or was about to send: forwarded,     *)
(* dropped before, or timed out.  Forwards, sends and time-outs never lock  *)
(* the listener up.                                                         *)
LockedUpByLateDrop ==
    LockedUp =>
        LET d == handler[mutex]
        IN  /\ d.op = "drop"
            /\ \/ \E op \in {"forward", "drop"} : <<d.id, op>> \in verdicts
               \/ \E t \in Tunnels : tunnel[t].id = d.id /\ tunnel[t].at = "expire"

(* A held request does not stay held: the user decides or the timer does,   *)
(* unless the listener is locked up.                                        *)
HeldRequestsEnd ==
    \A t \in Tunnels : tunnel[t].at = "wait" ~> (tunnel[t].at \in {"read", "send"} \/ LockedUp)

-----------------------------------------------------------------------------
(* Held requests go as the user decided, confirmations are true, and only a *)
(* late drop locks the listener up.                                         *)
DecisionsKept ==
    /\ InterceptTypeOK
    /\ SentAsDecided
    /\ ForwardedIsSent
    /\ LockedUpByLateDrop
=============================================================================
