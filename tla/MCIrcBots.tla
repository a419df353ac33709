------------------------------ MODULE MCIrcBots ------------------------------
(* One run for the bots: a behaviour is one of xkcdbot, of dwdwarn, of a     *)
(* bot that watches levels, of a bot that reports at fixed hours, or of      *)
(* syswatch's disks.  Each has its client.                                   *)
EXTENDS IrcAnnouncers, IrcWatchers, IrcReports

VARIABLE bot

BotsInit ==
    /\ ClientInit /\ XkcdInit /\ DwdInit /\ WatchInit /\ MountInit /\ ReportInit
    /\ bot \in {"xkcd", "dwd", "watch", "mount", "report"}
    /\ bot # "watch" => kind = "diskwatch"
    /\ bot # "report" => reporter = "weatherman" /\ now = 0

BotsNext ==
    /\ UNCHANGED bot
    /\ \/ bot = "xkcd" /\ XkcdNext /\ UNCHANGED <<dwdVars, watchVars, mountVars, reportVars>>
       \/ bot = "dwd" /\ DwdNext /\ UNCHANGED <<xkcdVars, watchVars, mountVars, reportVars>>
       \/ bot = "watch" /\ WatchNext /\ UNCHANGED <<xkcdVars, dwdVars, mountVars, reportVars>>
       \/ bot = "report" /\ ReportNext /\ UNCHANGED <<xkcdVars, dwdVars, watchVars, mountVars>>
       \/ bot = "mount" /\ MountNext
          /\ UNCHANGED <<clientVars, xkcdVars, dwdVars, watchVars, reportVars>>

botVars == <<clientVars, xkcdVars, dwdVars, watchVars, mountVars, reportVars, bot>>

(* uptimebot and, taken alone, syswatch's disks have no client. *)
HasClient == bot \in {"xkcd", "dwd", "report"} \/ (bot = "watch" /\ kind # "uptimebot")

BotsSpec == BotsInit /\ [][BotsNext]_botVars /\ (HasClient => ClientFairness)

(* ComesBack, for the bots with a client: every loss of the connection is    *)
(* followed by a new join, unless a failed write has muted the bot.          *)
BotsComeBack == HasClient => ComesBack
=============================================================================
