------------------------------ MODULE SshRouter ------------------------------
(***************************************************************************)
(* The SSH router (tools/sshrouter): where a connection goes, and one      *)
(* channel of it.  handleChannel runs two copying goroutines and two that  *)
(* forward requests, and closes both ends when the copies are done.        *)
(*                                                                         *)
(* The client and the target do what the protocol lets them do.  What they *)
(* send is a sequence that the ssh library takes apart, in order: data     *)
(* into a buffer, requests into a Go channel with room for a few, on which *)
(* it waits when that is full.  A target may send Window units the router  *)
(* has not read; the router never reads a target's stderr.                 *)
(*                                                                         *)
(* A message is [m, n].  The n of a client's data is the number of its     *)
(* requests when it was sent if all had been answered, and 0 if not.       *)
(***************************************************************************)
EXTENDS Integers, Sequences, SequencesExt

CONSTANTS
    Routes,      \* Config.Routes: pattern to target
    Default,     \* Config.Default, or NoTarget
    NoTarget,
    Logins,      \* user names: sequences of characters
    ReqCap,      \* room for requests of a channel in the library (16)
    Window,      \* what may be sent unread (2 MiB)
    MaxIn, MaxAsked, MaxOut, MaxErr   \* bounds on what client and target send

ASSUME SshAssumption ==
    /\ \A n \in {ReqCap, Window} : n \in Nat \ {0}
    /\ \A n \in {MaxIn, MaxAsked, MaxOut, MaxErr} : n \in Nat
    /\ Logins \subseteq Seq(STRING) /\ DOMAIN Routes \subseteq Seq(STRING)
    /\ \A p \in DOMAIN Routes : Routes[p] # NoTarget

VARIABLES
    login, target,   \* who is connected, and to what
    chan,            \* the channel: "none", "refused", "open", "closed"
    up, down,        \* what client and target sent and the library has yet to see
    cl,              \* the client: input and requests sent, ends, what it got
    tg,              \* the target: the same
    src, dst,        \* the router's ends: buffer, requests, eof, closed
    copyIn, copyOut, \* the copying goroutines, and the data in hand
    askIn, askOut,   \* the goroutines that forward requests
    visits           \* history: <<user, target>> of all connections

sshVars == <<login, target, chan, up, down, cl, tg, src, dst, copyIn, copyOut,
             askIn, askOut, visits>>
session == <<up, down, cl, tg, src, dst, copyIn, copyOut, askIn, askOut>>

-----------------------------------------------------------------------------
(* getTarget.  A pattern that ends in a star matches what begins as it      *)
(* does; of several, the order of a Go map decides.                         *)
Star(p) == p # <<>> /\ Last(p) = "*"
Matching(user) == {p \in DOMAIN Routes : Star(p) /\ IsPrefix(Front(p), user)}

GetTarget(user) ==
    IF user \in DOMAIN Routes THEN {Routes[user]}
    ELSE IF Matching(user) # {} THEN {Routes[p] : p \in Matching(user)}
    ELSE {Default} \ {NoTarget}

FreshEnd == [buf |-> <<>>, reqs |-> 0, eof |-> FALSE, closed |-> FALSE]
FreshPeer == [sent |-> 0, err |-> 0, asked |-> 0, answered |-> 0, got |-> 0, heard |-> 0,
              eof |-> FALSE, closed |-> FALSE]
Msg(kind) == [m |-> kind, n |-> 0]
Copying == [at |-> "read", hold |-> 0]
CopyDone == [at |-> "done", hold |-> 0]

FreshSession ==
    /\ up = <<>> /\ down = <<>>
    /\ cl = FreshPeer /\ tg = FreshPeer
    /\ src = FreshEnd /\ dst = FreshEnd
    /\ copyIn = Copying /\ copyOut = Copying
    /\ askIn = "next" /\ askOut = "next"

SshInit ==
    /\ login = <<>> /\ target = NoTarget /\ chan = "none" /\ visits = {}
    /\ FreshSession

(* handleConn: no route, or a target that cannot be reached, ends the       *)
(* connection.                                                              *)
HandleConn(user) ==
    /\ target = NoTarget
    /\ \E t \in GetTarget(user) :
         /\ login' = user /\ target' = t
         /\ visits' = visits \cup {<<user, t>>}
    /\ UNCHANGED <<chan, session>>

(* The client goes; serverConn.Wait returns and everything is closed.       *)
Disconnect ==
    /\ target # NoTarget /\ chan \in {"none", "refused"}
    /\ login' = <<>> /\ target' = NoTarget /\ chan' = "none"
    /\ UNCHANGED <<session, visits>>

(* handleChannel: the target refuses the channel, or it is opened and then  *)
(* accepted.                                                                *)
OpenChannel ==
    /\ target # NoTarget /\ chan = "none"
    /\ chan' \in {"refused", "open"}
    /\ UNCHANGED <<login, target, visits, session>>

Running == chan \in {"open", "closed"}
Rest == <<login, target, visits>>

-----------------------------------------------------------------------------
(* The client.  What the two peers send to channels the router has closed   *)
(* goes nowhere; only an exit status is looked at, as one that is lost.     *)
Ask ==
    /\ chan = "open" /\ ~cl.closed /\ cl.asked < MaxAsked
    /\ up' = Append(up, Msg("req")) /\ cl' = [cl EXCEPT !.asked = @ + 1]
    /\ UNCHANGED <<Rest, chan, down, tg, src, dst, copyIn, copyOut, askIn, askOut>>

Input ==
    /\ chan = "open" /\ ~cl.eof /\ cl.sent < MaxIn
    /\ up' = Append(up, [m |-> "in", n |-> IF cl.asked = cl.answered THEN cl.asked ELSE 0])
    /\ cl' = [cl EXCEPT !.sent = @ + 1]
    /\ UNCHANGED <<Rest, chan, down, tg, src, dst, copyIn, copyOut, askIn, askOut>>

ClientEnds(what) ==
    /\ chan = "open" /\ ~cl.closed /\ (what = "eof" => ~cl.eof)
    /\ up' = Append(up, Msg(what))
    /\ cl' = [cl EXCEPT !.eof = TRUE, !.closed = (what = "close")]
    /\ UNCHANGED <<Rest, chan, down, tg, src, dst, copyIn, copyOut, askIn, askOut>>

(* The target: output, errors, the exit status, the end of its output, and  *)
(* the end of the channel.                                                  *)
Unread == tg.sent - cl.got - (IF copyOut.at = "write" THEN 1 ELSE 0) + tg.err

Output(what) ==
    /\ chan = "open" /\ ~tg.eof /\ Unread < Window
    /\ IF what = "out" THEN tg.sent < MaxOut ELSE tg.err < MaxErr
    /\ down' = Append(down, Msg(what))
    /\ tg' = IF what = "out" THEN [tg EXCEPT !.sent = @ + 1] ELSE [tg EXCEPT !.err = @ + 1]
    /\ UNCHANGED <<Rest, chan, up, cl, src, dst, copyIn, copyOut, askIn, askOut>>

Exit ==
    /\ Running /\ ~tg.closed /\ tg.asked = 0
    /\ down' = Append(down, Msg("req")) /\ tg' = [tg EXCEPT !.asked = 1]
    /\ UNCHANGED <<Rest, chan, up, cl, src, dst, copyIn, copyOut, askIn, askOut>>

TargetEnds(what) ==
    /\ chan = "open" /\ ~tg.closed /\ (what = "eof" => ~tg.eof)
    /\ down' = Append(down, Msg(what))
    /\ tg' = [tg EXCEPT !.eof = TRUE, !.closed = (what = "close")]
    /\ UNCHANGED <<Rest, chan, up, cl, src, dst, copyIn, copyOut, askIn, askOut>>

Answer ==
    /\ tg.answered < tg.heard /\ ~tg.closed
    /\ tg' = [tg EXCEPT !.answered = @ + 1]
    /\ UNCHANGED <<Rest, chan, up, down, cl, src, dst, copyIn, copyOut, askIn, askOut>>

-----------------------------------------------------------------------------
(* The library's loop, for one message.  A request waits for room. *)
Room(end, msg) == msg.m = "req" => end.reqs < ReqCap

Take(end, msg) ==
    CASE msg.m = "req" -> [end EXCEPT !.reqs = @ + 1]
      [] msg.m = "err" -> end
      [] msg.m = "eof" -> [end EXCEPT !.eof = TRUE]
      [] msg.m = "close" -> [end EXCEPT !.eof = TRUE, !.closed = TRUE]
      [] OTHER -> [end EXCEPT !.buf = Append(@, msg.n)]

MuxUp ==
    /\ up # <<>> /\ Room(src, Head(up))
    /\ src' = Take(src, Head(up)) /\ up' = Tail(up)
    /\ UNCHANGED <<Rest, chan, down, cl, tg, dst, copyIn, copyOut, askIn, askOut>>

MuxDown ==
    /\ down # <<>> /\ Room(dst, Head(down))
    /\ dst' = Take(dst, Head(down)) /\ down' = Tail(down)
    /\ UNCHANGED <<Rest, chan, up, cl, tg, src, copyIn, copyOut, askIn, askOut>>

(* io.Copy(dstChannel, srcChannel) and CloseWrite.  A write fails when the  *)
(* other end is closed, which the copy finds out only by writing.           *)
CopyIn ==
    /\ chan = "open"
    /\ \/ /\ copyIn.at = "read" /\ src.buf # <<>>
          /\ copyIn' = [at |-> "write", hold |-> Head(src.buf)]
          /\ src' = [src EXCEPT !.buf = Tail(@)]
          /\ UNCHANGED tg
       \/ /\ copyIn.at = "write"
          /\ IF dst.closed THEN copyIn' = CopyDone /\ UNCHANGED tg
             ELSE copyIn' = Copying /\ tg' = [tg EXCEPT !.got = @ + 1]
          /\ UNCHANGED src
       \/ /\ copyIn.at = "read" /\ src.buf = <<>> /\ src.eof
          /\ copyIn' = CopyDone
          /\ UNCHANGED <<src, tg>>
    /\ UNCHANGED <<Rest, chan, up, down, cl, dst, copyOut, askIn, askOut>>

(* io.Copy(srcChannel, dstChannel) and CloseWrite. *)
CopyOut ==
    /\ chan = "open"
    /\ \/ /\ copyOut.at = "read" /\ dst.buf # <<>>
          /\ copyOut' = [copyOut EXCEPT !.at = "write"]
          /\ dst' = [dst EXCEPT !.buf = Tail(@)]
          /\ UNCHANGED cl
       \/ /\ copyOut.at = "write"
          /\ IF src.closed THEN copyOut' = CopyDone /\ UNCHANGED cl
             ELSE copyOut' = Copying /\ cl' = [cl EXCEPT !.got = @ + 1]
          /\ UNCHANGED dst
       \/ /\ copyOut.at = "read" /\ dst.buf = <<>> /\ dst.eof
          /\ copyOut' = CopyDone
          /\ UNCHANGED <<dst, cl>>
    /\ UNCHANGED <<Rest, chan, up, down, tg, src, copyIn, askIn, askOut>>

(* forwardChannelRequests(dstChannel, srcRequests): SendRequest, the wait   *)
(* for the answer, and Reply.                                               *)
AskInDropped ==
    /\ Running /\ askIn = "next" /\ src.reqs > 0
    /\ src' = [src EXCEPT !.reqs = @ - 1]
    /\ cl' = [cl EXCEPT !.answered = @ + 1]
    /\ UNCHANGED <<Rest, chan, up, down, tg, dst, copyIn, copyOut, askIn, askOut>>

AskIn ==
    /\ Running /\ askIn = "next" /\ src.reqs > 0
    /\ src' = [src EXCEPT !.reqs = @ - 1]
    /\ IF dst.closed \/ chan = "closed" THEN askIn' = "done" /\ UNCHANGED tg
       ELSE askIn' = "reply" /\ tg' = [tg EXCEPT !.heard = @ + 1]
    /\ UNCHANGED <<Rest, chan, up, down, cl, dst, copyIn, copyOut, askOut>>

Reply ==
    /\ askIn = "reply"
    /\ \/ /\ tg.answered = tg.heard
          /\ askIn' = "next" /\ cl' = [cl EXCEPT !.answered = @ + 1]
       \/ /\ tg.answered < tg.heard /\ dst.closed
          /\ askIn' = "done" /\ UNCHANGED cl
    /\ UNCHANGED <<Rest, chan, up, down, tg, src, dst, copyIn, copyOut, askOut>>

(* forwardChannelRequests(srcChannel, dstRequests): the exit status, which  *)
(* wants no reply.                                                          *)
AskOut ==
    /\ Running /\ askOut = "next" /\ dst.reqs > 0
    /\ dst' = [dst EXCEPT !.reqs = @ - 1]
    /\ IF src.closed \/ chan = "closed" THEN askOut' = "done" /\ UNCHANGED cl
       ELSE cl' = [cl EXCEPT !.heard = @ + 1] /\ UNCHANGED askOut
    /\ UNCHANGED <<Rest, chan, up, down, tg, src, copyIn, copyOut, askIn>>

AskEnds ==
    /\ Running
    /\ \/ askIn = "next" /\ src.reqs = 0 /\ src.closed /\ askIn' = "done" /\ UNCHANGED askOut
       \/ askOut = "next" /\ dst.reqs = 0 /\ dst.closed /\ askOut' = "done" /\ UNCHANGED askIn
    /\ UNCHANGED <<Rest, chan, up, down, cl, tg, src, dst, copyIn, copyOut>>

(* wg.Wait, and both channels are closed. *)
CopiesEither == copyIn.at = "done" \/ copyOut.at = "done"
AllFourDone ==
    copyIn.at = "done" /\ copyOut.at = "done" /\ askIn = "done" /\ askOut = "done"
CopiesDone == copyIn.at = "done" /\ copyOut.at = "done"

CloseBoth ==
    /\ chan = "open" /\ CopiesDone
    /\ chan' = "closed"
    /\ UNCHANGED <<Rest, session>>

Router ==
    \/ MuxUp \/ MuxDown \/ CopyIn \/ CopyOut
    \/ AskIn \/ Reply \/ AskOut \/ AskEnds \/ CloseBoth

SshNext ==
    \/ \E user \in Logins : HandleConn(user)
    \/ Disconnect \/ OpenChannel
    \/ Ask \/ Input \/ Exit \/ Answer
    \/ \E what \in {"eof", "close"} : ClientEnds(what) \/ TargetEnds(what)
    \/ \E what \in {"out", "err"} : Output(what)
    \/ Router

SshSpec == SshInit /\ [][SshNext]_sshVars
-----------------------------------------------------------------------------
(* Type invariant; what has arrived was sent.                               *)
SshTypeOK ==
    /\ target = NoTarget => login = <<>>
    /\ chan \in {"none", "refused", "open", "closed"}
    /\ src.reqs \in 0..ReqCap /\ dst.reqs \in 0..ReqCap
    /\ copyIn.at \in {"read", "write", "done"} /\ copyOut.at \in {"read", "write", "done"}
    /\ askIn \in {"next", "reply", "done"} /\ askOut \in {"next", "done"}
    /\ tg.got <= cl.sent /\ cl.got <= tg.sent
    /\ cl.answered <= tg.answered /\ tg.answered <= tg.heard /\ tg.heard <= cl.asked
    /\ cl.heard <= tg.asked

(* A user is always sent to the same target, over all connections, unless   *)
(* several patterns match and none is the user's own name.                  *)
RouteStable ==
    \A v, w \in visits :
        v[1] = w[1] /\ v[2] # w[2] =>
            v[1] \notin DOMAIN Routes /\ \E p, q \in Matching(v[1]) : p # q

(* All of the target's output reaches a client that has not closed the      *)
(* channel itself before the router closes it, also when the client ended   *)
(* its input long before.                                                   *)
OutputComplete ==
    chan = "closed" /\ ~src.closed /\ tg.closed => cl.got = tg.sent

ExitLost == chan = "closed" /\ tg.asked = 1 /\ cl.heard = 0

(* The exit status can be lost, since nothing waits for the goroutine that  *)
(* forwards it; but not while the client keeps its input open and sends     *)
(* nothing to a target that has closed.                                     *)
ExitLostOnlyAfterInput == ExitLost => cl.eof \/ (cl.sent > tg.got /\ dst.closed)

(* Input that a client sends after the answer to its last request (a        *)
(* shell, a command) does not reach the target before that request, though  *)
(* different goroutines forward them.                                       *)
InputFollowsRequest == [][tg'.got > tg.got => tg.heard >= copyIn.hold]_sshVars

(* The library's loop waits for room for a request nobody will take: the    *)
(* goroutine that forwards them ended with the target's channel.            *)
Jammed == up # <<>> /\ ~Room(src, Head(up)) /\ askIn = "done"

(* Every step of the router uses up something that was sent or ends a       *)
(* goroutine, so it comes to rest; these say that it does not rest early.   *)
(* Once the target has closed and the client has ended its input, the       *)
(* router goes on until the channel is closed, unless the client's requests *)
(* jam the connection.                                                      *)
SessionEnds ==
    dst.closed /\ cl.eof /\ chan = "open" /\ ~Jammed => ENABLED Router

(* A target whose window is full waits for the router only as long as the   *)
(* router is at it, unless what the target wrote to stderr fills the window.*)
OutputFlows ==
    chan = "open" /\ Unread = Window /\ tg.err < Window => ENABLED Router

-----------------------------------------------------------------------------
(* A session goes where it always goes, its output arrives, and its exit    *)
(* status is lost only in the case named.                                   *)
SessionsServed ==
    /\ SshTypeOK
    /\ RouteStable
    /\ OutputComplete
    /\ ExitLostOnlyAfterInput

(* The router neither stops early nor lets a target wait.                   *)
RouterGoesOn == SessionEnds /\ OutputFlows
=============================================================================
