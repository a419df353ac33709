------------------------------ MODULE IrcReports ------------------------------
(***************************************************************************)
(* The bots that report at fixed hours: ops/pkgs/tagesschau (headlines,    *)
(* several hours a day, one line per story) and ops/pkgs/weatherman (the   *)
(* forecast, once a day).  Both sleep until the next posting time, fetch   *)
(* and post, and then compute the next posting time from the clock.  A     *)
(* fetch or a post may take longer than the time to the next one.          *)
(***************************************************************************)
EXTENDS IrcClient, FiniteSets

CONSTANTS
    Day,        \* ticks of a day
    PostHours,  \* tagesschau: when to post
    PostHour,   \* weatherman: when to post
    Stories,    \* number of headlines
    Horizon     \* bound on the time, for model checking

ASSUME DayAssumption == Day \in Nat \ {0} /\ Horizon \in Nat /\ Day <= Horizon /\ Stories \in Nat
ASSUME HoursAssumption == PostHours \subseteq 0..(Day - 1) /\ PostHours # {} /\ PostHour \in 0..(Day - 1)

VARIABLES
    reporter,   \* which bot this is
    now,
    stage,      \* where main is
    until,      \* the posting time it sleeps to, or slept to
    left,       \* lines still to be posted
    reports,    \* history: how many reports were begun for a posting time,
    kept,       \*   the posting times it woke up for,
    missed      \*   and those that came while it was at work

reportVars == <<reporter, now, stage, until, left, reports, kept, missed>>

ReportInit ==
    /\ reporter \in {"tagesschau", "weatherman"}
    /\ now \in 0..(Day - 1)
    /\ stage = "plan" /\ until = 0 /\ left = 0
    /\ reports = [t \in 0..(Horizon + 2 * Day) |-> 0]
    /\ kept = {} /\ missed = 0..now

TagesschauClient == ClientNext
WeathermanClient == ClientNext

-----------------------------------------------------------------------------
(* nextDelay of tagesschau: the first of today's and tomorrow's hours that  *)
(* is to come.                                                              *)
HoursAround(t) == {(t \div Day + d) * Day + h : d \in 0..1, h \in PostHours}

nextHourFromNow(t) ==
    CHOOSE u \in HoursAround(t) : u >= t /\ \A v \in HoursAround(t) : v >= t => u <= v

nextHour(t) ==
    CHOOSE u \in HoursAround(t) : u > t /\ \A v \in HoursAround(t) : v > t => u <= v

(* nextDelay of weatherman. *)
nextDay(t) ==
    LET next == (t \div Day) * Day + PostHour IN IF next > t THEN next ELSE next + Day

IsPostTime(t) == t % Day \in (IF reporter = "tagesschau" THEN PostHours ELSE {PostHour})

Tick ==
    /\ now < Horizon
    /\ now' = now + 1
    /\ missed' = IF IsPostTime(now') /\ (stage # "sleep" \/ until <= now)
                 THEN missed \cup {now'} ELSE missed
    /\ UNCHANGED <<reporter, stage, until, left, reports, kept, clientVars>>

Plan ==
    /\ stage = "plan"
    /\ until' = IF reporter = "tagesschau" THEN nextHour(now) ELSE nextDay(now)
    /\ stage' = "sleep"
    /\ UNCHANGED <<reporter, now, left, reports, kept, missed, clientVars>>

Wake ==
    /\ stage = "sleep" /\ now >= until
    /\ stage' = "fetch"
    /\ kept' = kept \cup {until}
    /\ UNCHANGED <<reporter, now, until, left, reports, missed, clientVars>>

(* fetchTopStories, fetchForecast: what is there is posted, a failure is    *)
(* logged and this posting time is given up.                                *)
Fetch(ok) ==
    /\ stage = "fetch"
    /\ stage' = IF ok THEN "post" ELSE "plan"
    /\ left' = CASE ~ok -> 0
                 [] ok /\ reporter = "tagesschau" -> 1 + Stories
                 [] OTHER -> 1
    /\ UNCHANGED <<reporter, now, until, reports, kept, missed, clientVars>>

(* postOnce: a marker line and the headlines, until a line cannot be        *)
(* posted; the forecast is one line.                                        *)
postOnce(ok) ==
    /\ stage = "post"
    /\ privmsg(ok)
    /\ left' = IF ok THEN left - 1 ELSE 0
    /\ stage' = IF left' = 0 THEN "plan" ELSE "post"
    /\ reports' = IF ok /\ (reporter = "weatherman" \/ left = 1 + Stories)
                  THEN [reports EXCEPT ![until] = @ + 1] ELSE reports
    /\ UNCHANGED <<reporter, now, until, kept, missed>>

ReportNext ==
    \/ reporter = "tagesschau" /\ TagesschauClient /\ UNCHANGED reportVars
    \/ reporter = "weatherman" /\ WeathermanClient /\ UNCHANGED reportVars
    \/ Tick \/ Plan \/ Wake
    \/ \E ok \in BOOLEAN : Fetch(ok) \/ postOnce(ok)

(* The bot runs, whichever of the two it is. *)
ReportSpec == ClientInit /\ ReportInit /\ [][ReportNext]_<<clientVars, reportVars>>

-----------------------------------------------------------------------------
(* Type invariant; lines are left to post exactly while posting. *)
ReportsTypeOK ==
    /\ now \in 0..Horizon
    /\ until \in 0..(Horizon + 2 * Day)
    /\ stage \in {"plan", "sleep", "fetch", "post"}
    /\ left \in 0..(1 + Stories) /\ (left > 0 <=> stage = "post")
    /\ kept \cup missed \subseteq 0..(Horizon + 2 * Day)

(* A posting time gets one report at most, however fast it is posted and    *)
(* however late the bot wakes up.                                           *)
ReportOnce == \A t \in DOMAIN reports : reports[t] <= 1

(* No posting time is slept through: when it comes, the bot wakes up for    *)
(* it, or is still at work on an earlier one.                               *)
NothingOverslept ==
    stage = "sleep" =>
        \A t \in 1..now : IsPostTime(t) => t \in kept \cup missed \/ t = until

-----------------------------------------------------------------------------
(* One report for every posting time, and none slept through.               *)
ReportsInTime ==
    /\ ReportsTypeOK
    /\ ReportOnce
    /\ NothingOverslept
=============================================================================
