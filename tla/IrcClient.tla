------------------------------ MODULE IrcClient ------------------------------
(***************************************************************************)
(* The small IRC client of the bots under ops/pkgs (dwdwarn, xkcdbot,      *)
(* diskwatch, syswatch, tagesschau, weatherman carry a copy each).  One    *)
(* goroutine connects, registers, joins and then reads until an error;     *)
(* privmsg is called from the goroutine of the bot.  They share `joined'   *)
(* under a mutex, so that each access is one step.                         *)
(*                                                                         *)
(* The connection may die without the client knowing, until its next read  *)
(* or the watchdog of four minutes fails.  A write on a dead connection    *)
(* may succeed (the message is lost), and a write on a live one may run    *)
(* into its deadline.  A kick is answered by JOIN, which the server may    *)
(* refuse; `joined' stays TRUE meanwhile.                                  *)
(***************************************************************************)
EXTENDS Integers

VARIABLES
    phase,      \* where runForever is
    joined,     \* the flag privmsg looks at
    alive,      \* does the connection work?
    inChannel   \* does the server have the bot in the channel?

clientVars == <<phase, joined, alive, inChannel>>

ClientInit ==
    /\ phase = "dial"
    /\ joined = FALSE
    /\ alive = FALSE
    /\ inChannel = FALSE

-----------------------------------------------------------------------------
(* connect: the dial, and setConn(conn, false). *)
Dial ==
    /\ phase = "dial"
    /\ phase' = "register"
    /\ joined' = FALSE
    /\ alive' = TRUE
    /\ inChannel' = FALSE

(* The join is refused, or nothing is read for 30 seconds: a sleep, and the *)
(* next attempt.                                                            *)
RegisterFails ==
    /\ phase = "register"
    /\ phase' = "dial"
    /\ alive' = FALSE
    /\ UNCHANGED <<joined, inChannel>>

(* RPL_ENDOFNAMES: setConn(conn, true). *)
JoinDone ==
    /\ phase = "register" /\ alive
    /\ phase' = "serve"
    /\ joined' = TRUE
    /\ inChannel' = TRUE
    /\ UNCHANGED alive

(* serve: a read fails, or the watchdog does. *)
ReadFailsForGood ==
    /\ phase = "serve" /\ ~alive
    /\ phase' = "stopped"
    /\ joined' = FALSE
    /\ UNCHANGED <<alive, inChannel>>

ReadFails ==
    /\ phase = "serve" /\ ~alive
    /\ phase' = "dial"
    /\ joined' = FALSE
    /\ UNCHANGED <<alive, inChannel>>

(* A KICK, and later the server's answer to the JOIN. *)
Kicked ==
    /\ phase = "serve" /\ inChannel
    /\ inChannel' = FALSE
    /\ UNCHANGED <<phase, joined, alive>>

Rejoined ==
    /\ phase = "serve" /\ alive /\ ~inChannel
    /\ inChannel' = TRUE
    /\ UNCHANGED <<phase, joined, alive>>

(* The network or the server ends the connection. *)
ConnectionDies ==
    /\ alive
    /\ alive' = FALSE
    /\ inChannel' = FALSE
    /\ UNCHANGED <<phase, joined>>

ClientNext ==
    Dial \/ RegisterFails \/ JoinDone \/ ReadFails \/ Kicked \/ Rejoined \/ ConnectionDies

(* privmsg: TRUE when the line was written, FALSE when the bot is not       *)
(* joined or the write fails.                                               *)
privmsg(ok) ==
    /\ ok => joined
    /\ joined' = ok
    /\ UNCHANGED <<phase, alive, inChannel>>

(* Does a line that was written reach the channel? *)
Delivered == alive /\ inChannel

(* The goroutine of runForever goes on, and a server that is tried again    *)
(* and again lets the bot in.                                               *)
ClientFairness ==
    /\ WF_clientVars(Dial)
    /\ WF_clientVars(ReadFails)
    /\ WF_clientVars(RegisterFails \/ JoinDone)
    /\ SF_clientVars(JoinDone)

-----------------------------------------------------------------------------
(* Type invariant. *)
ClientTypeOK ==
    /\ phase \in {"dial", "register", "serve"}
    /\ joined \in BOOLEAN
    /\ alive \in BOOLEAN
    /\ inChannel \in BOOLEAN

(* privmsg is never let through to a connection that has not joined: before *)
(* the join and after a failed read the flag is down.                       *)
JoinedOnlyServing == joined => phase = "serve"

(* A write failed although the connection lives: nothing raises the flag    *)
(* again before a read fails.                                               *)
Muted == phase = "serve" /\ alive /\ ~joined

(* The bot comes back after every loss of the connection, except from being *)
(* muted.                                                                   *)
ComesBack == []<>(joined \/ Muted)
=============================================================================
