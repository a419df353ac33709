---------------------------- MODULE IrcAnnouncers ----------------------------
(***************************************************************************)
(* The bots that announce news in a channel (ops/pkgs/xkcdbot and          *)
(* ops/pkgs/dwdwarn), with their state files.  Polls, posts and saves are  *)
(* separate steps: the connection changes in between and the process may   *)
(* end.                                                                    *)
(***************************************************************************)
EXTENDS IrcClient, FiniteSets

CONSTANTS
    MaxComic,   \* bound on the numbers of comics, for model checking
    Cells,      \* the warn cells
    Kinds       \* what tells two warnings of a cell apart

ASSUME ComicAssumption == MaxComic \in Nat \ {0}
ASSUME CellsAssumption == Cells \subseteq Nat

VARIABLES
    latest,     \* xkcd: the latest comic there is,
    lastSeen,   \*   the number in the state file, 0: no file,
    comic,      \*   what the poll is at,
    comicSent,  \*   history: how often each comic reached the channel,
    baseline,   \*   history: the comic that was the latest at the first run,
    unrecorded, \*   history: announced but not recorded,
    comicLost,  \*     and comics written to a channel the bot was not in;
    feed,       \* dwdwarn: the warnings of the DWD now,
    seen,       \*   the announced ones in memory
    seenFile,   \*   and in the state file,
    poll,       \*   what the poll is at,
    told,       \*   history: how often a warning reached the channel since it was new,
    unheard,    \*   history: marked as seen and did not reach the channel,
    unsaved     \*   history: warnings whose mark was lost, unsaved or unreadable

xkcdVars == <<latest, lastSeen, comic, comicSent, baseline, unrecorded, comicLost>>
dwdVars == <<feed, seen, seenFile, poll, told, unheard, unsaved>>

Warnings == Cells \X Kinds
(* Announcements are counted up to two. *)
Twice(n) == IF n < 2 THEN n + 1 ELSE n

NoComic == [at |-> "idle", num |-> 0]
NoPoll == [at |-> "idle", w |-> {}, new |-> {}, posted |-> FALSE, clear |-> {}]

XkcdInit ==
    /\ latest = 1 /\ lastSeen = 0
    /\ comic = NoComic
    /\ comicSent = [n \in 1..MaxComic |-> 0]
    /\ baseline = 0
    /\ unrecorded = {} /\ comicLost = {}

DwdInit ==
    /\ feed = {} /\ seen = {} /\ seenFile = {}
    /\ poll = NoPoll
    /\ told = [x \in Warnings |-> 0]
    /\ unheard = {} /\ unsaved = {}

-----------------------------------------------------------------------------
(* xkcdbot, its copy of the client ... *)
XkcdClient == ClientNext

PublishComic ==
    /\ latest < MaxComic
    /\ latest' = latest + 1
    /\ UNCHANGED <<lastSeen, comic, comicSent, baseline, unrecorded, comicLost, clientVars>>

(* ... and main: fetchLatest and readLastSeen.  The first run writes the    *)
(* state without an announcement, if it can.                                *)
XkcdPoll ==
    /\ comic = NoComic
    /\ \/ lastSeen = 0 /\ lastSeen' = latest /\ baseline' = latest /\ UNCHANGED comic
       \/ /\ lastSeen # 0 /\ latest > lastSeen
          /\ comic' = [at |-> "post", num |-> latest]
          /\ UNCHANGED <<lastSeen, baseline>>
    /\ UNCHANGED <<latest, comicSent, unrecorded, comicLost, clientVars>>

(* A line that was written is in the channel, or lost. *)
ComicWritten(ok) ==
    /\ privmsg(ok)
    /\ comicSent' = IF ok /\ Delivered THEN [comicSent EXCEPT ![comic.num] = Twice(@)] ELSE comicSent
    /\ comicLost' = IF ok /\ ~Delivered THEN comicLost \cup {comic.num} ELSE comicLost

XkcdPostRecordAnyway(ok) ==
    /\ comic.at = "post"
    /\ ComicWritten(ok)
    /\ comic' = [comic EXCEPT !.at = "record"]
    /\ UNCHANGED <<latest, lastSeen, baseline, unrecorded>>

(* Not posted: the next poll tries again. *)
XkcdPost(ok) ==
    /\ comic.at = "post"
    /\ ComicWritten(ok)
    /\ comic' = IF ok THEN [comic EXCEPT !.at = "record"] ELSE NoComic
    /\ UNCHANGED <<latest, lastSeen, baseline, unrecorded>>

(* writeLastSeen. *)
writeLastSeen ==
    /\ comic.at = "record"
    /\ \/ lastSeen' = comic.num /\ UNCHANGED unrecorded
       \/ unrecorded' = unrecorded \cup {comic.num} /\ UNCHANGED lastSeen
    /\ comic' = NoComic
    /\ UNCHANGED <<latest, comicSent, baseline, comicLost, clientVars>>

(* The process ends and systemd starts it again. *)
XkcdRestart ==
    /\ comic # NoComic
    /\ unrecorded' = unrecorded \cup (IF comic.at = "record" THEN {comic.num} ELSE {})
    /\ comic' = NoComic
    /\ phase' = "dial" /\ joined' = FALSE /\ alive' = FALSE /\ inChannel' = FALSE
    /\ UNCHANGED <<latest, lastSeen, comicSent, baseline, comicLost>>

XkcdNext ==
    \/ XkcdClient /\ UNCHANGED xkcdVars
    \/ PublishComic \/ XkcdPoll \/ writeLastSeen \/ XkcdRestart
    \/ \E ok \in BOOLEAN : XkcdPost(ok)

-----------------------------------------------------------------------------
(* dwdwarn, its copy of the client ... *)
DwdClient == ClientNext

FeedChanges(x) ==
    /\ feed' = (feed \ {x}) \cup ({x} \ feed)
    /\ UNCHANGED <<seen, seenFile, poll, told, unheard, unsaved, clientVars>>

(* ... and main: fetchWarnings; what is new is marked as seen before it is  *)
(* posted.                                                                  *)
DwdFetch ==
    /\ poll = NoPoll
    /\ poll' = [NoPoll EXCEPT !.at = "post", !.w = feed, !.new = feed \ seen]
    /\ seen' = seen \cup feed
    /\ UNCHANGED <<feed, seenFile, told, unheard, unsaved, clientVars>>

(* One message, cell by cell, that reaches the channel or is lost; the      *)
(* first that cannot be written ends the loop.                              *)
DwdPost(x, ok) ==
    /\ poll.at = "post" /\ x \in poll.new
    /\ \A y \in poll.new : x[1] <= y[1]
    /\ privmsg(ok)
    /\ IF ok
       THEN /\ poll' = [poll EXCEPT !.new = @ \ {x}, !.posted = TRUE]
            /\ IF Delivered
               THEN told' = [told EXCEPT ![x] = Twice(@)] /\ UNCHANGED unheard
               ELSE unheard' = unheard \cup {x} /\ UNCHANGED told
       ELSE /\ poll' = [poll EXCEPT !.new = {}]
            /\ unheard' = unheard \cup poll.new
            /\ UNCHANGED told
    /\ UNCHANGED <<feed, seen, seenFile, unsaved>>

(* The cells to give the all-clear for: some mark in memory, no warning.    *)
(* Only a round that has posted something looks for them.                   *)
DwdQuiet ==
    /\ poll.at = "post" /\ poll.new = {}
    /\ poll' = [poll EXCEPT !.at = "clear",
         !.clear = IF poll.posted THEN {x[1] : x \in seen} \ {x[1] : x \in poll.w} ELSE {}]
    /\ UNCHANGED <<feed, seen, seenFile, told, unheard, unsaved, clientVars>>

DwdAllClear(c, ok) ==
    /\ poll.at = "clear" /\ c \in poll.clear
    /\ privmsg(ok)
    /\ poll' = [poll EXCEPT !.clear = @ \ {c}]
    /\ UNCHANGED <<feed, seen, seenFile, told, unheard, unsaved>>

(* The marks of warnings that are over go, and saveSeen, which may fail.    *)
DwdSave ==
    /\ poll.at = "clear" /\ poll.clear = {}
    /\ seen' = seen \cap poll.w
    /\ told' = [x \in Warnings |-> IF x \in poll.w THEN told[x] ELSE 0]
    /\ unheard' = unheard \cap poll.w
    /\ \/ seenFile' = seen' /\ unsaved' = unsaved \cap poll.w
       \/ UNCHANGED <<seenFile, unsaved>>
    /\ poll' = NoPoll
    /\ UNCHANGED <<feed, clientVars>>

(* loadSeen; main starts fresh if the file cannot be read.                  *)
DwdRestart ==
    /\ seen' \in {seenFile, {}}
    /\ unsaved' = unsaved \cup (seen \ seen')
    /\ unheard' = unheard \cup (seen' \ seen) \cup poll.new
    /\ poll' = NoPoll
    /\ phase' = "dial" /\ joined' = FALSE /\ alive' = FALSE /\ inChannel' = FALSE
    /\ UNCHANGED <<feed, seenFile, told>>

DwdNext ==
    \/ DwdClient /\ UNCHANGED dwdVars
    \/ DwdFetch \/ DwdQuiet \/ DwdSave \/ DwdRestart
    \/ \E x \in Warnings : FeedChanges(x) \/ \E ok \in BOOLEAN : DwdPost(x, ok)
    \/ \E c \in Cells, ok \in BOOLEAN : DwdAllClear(c, ok)

(* A behaviour is one of xkcdbot, while dwdwarn stands still, or the other  *)
(* way round.                                                               *)
AnnouncersSpec ==
    /\ ClientInit /\ XkcdInit /\ DwdInit
    /\ [][(XkcdNext /\ UNCHANGED dwdVars) \/ (DwdNext /\ UNCHANGED xkcdVars)]_<<clientVars, xkcdVars, dwdVars>>

-----------------------------------------------------------------------------
(* Type invariant. *)
AnnouncersTypeOK ==
    /\ latest \in 1..MaxComic /\ lastSeen \in 0..latest
    /\ comic \in [at : {"idle", "post", "record"}, num : 0..latest]
    /\ baseline \in 0..lastSeen /\ comicSent \in [1..MaxComic -> 0..2]
    /\ unrecorded \cup comicLost \subseteq 1..latest
    /\ feed \cup seen \cup seenFile \subseteq Warnings
    /\ poll.at \in {"idle", "post", "clear"} /\ poll.w \subseteq Warnings
    /\ poll.new \subseteq poll.w /\ poll.clear \subseteq Cells
    /\ told \in [Warnings -> 0..2] /\ unheard \cup unsaved \subseteq Warnings

(* xkcdbot announces a comic once, through reconnects and retries; again    *)
(* only if the end of the process or a failed write kept it from recording  *)
(* the announcement.  What was the latest at the first run is not new.      *)
ComicOnce ==
    \A n \in 1..MaxComic :
        /\ comicSent[n] > 1 => n \in unrecorded
        /\ comicSent[n] > 0 => n > baseline

(* The state file never runs ahead of the channel: the comic it names came  *)
(* there, or is the one of the first run, or was written to a connection    *)
(* that had died or left the channel without the bot noticing: that comic   *)
(* is not announced again.                                                  *)
ComicRecordedWhenSent ==
    lastSeen # baseline => comicSent[lastSeen] > 0 \/ lastSeen \in comicLost

(* dwdwarn announces a warning at most once while it lasts, unless its mark *)
(* was lost: with the process before it was saved, or with a state file     *)
(* that could not be read at the start.                                     *)
WarningOnce == \A x \in Warnings : told[x] > 1 => x \in unsaved

(* Between two polls, a warning the bot counts as announced came to the     *)
(* channel, or its message was lost or not posted: it is not tried again.   *)
WarningToldOrUnheard ==
    poll = NoPoll => \A x \in seen : told[x] > 0 \/ x \in unheard

-----------------------------------------------------------------------------
(* Comics and warnings are announced once, over a connection that has       *)
(* joined, and the state is ahead of the channel only by messages that were *)
(* lost or could not be posted.                                             *)
AnnouncedOnce ==
    /\ ClientTypeOK
    /\ JoinedOnlyServing
    /\ AnnouncersTypeOK
    /\ ComicOnce
    /\ ComicRecordedWhenSent
    /\ WarningOnce
    /\ WarningToldOrUnheard
=============================================================================
