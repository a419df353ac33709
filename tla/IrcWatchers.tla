----------------------------- MODULE IrcWatchers -----------------------------
(***************************************************************************)
(* The bots that report changes of levels in a channel: ops/pkgs/diskwatch *)
(* (disks of hosts), ops/pkgs/uptimebot (checks, up or down) and           *)
(* ops/pkgs/syswatch (backups, memory, load, failed units, and disks with  *)
(* a hysteresis).  All compare a poll with the state of the last one, and  *)
(* tell the channel about differences.                                     *)
(*                                                                         *)
(* diskwatch and syswatch keep the state in memory, post item by item,     *)
(* ignore whether privmsg succeeds, and save at the end of the poll.       *)
(* uptimebot is started by a timer: it loads the state, posts all changes  *)
(* over a connection of its own, of which it ignores the writes that fail, *)
(* and saves only after that.  A state file that cannot be read is taken   *)
(* for none by diskwatch and syswatch, and ends uptimebot.                 *)
(***************************************************************************)
EXTENDS IrcClient, FiniteSets

CONSTANTS
    Watched,    \* hosts, checks, units
    Unknown,    \* no value in the state
    Thresholds, \* syswatch: free space to alert on, in half percents
    MaxFree     \* bound on free space, for model checking

Levels == 0..2  \* ok, warn, crit; for uptimebot 0 is up and 1 is down

ASSUME UnknownAssumption == Unknown \notin Levels
ASSUME ThresholdsAssumption == Thresholds \subseteq Nat \ {0} /\ MaxFree \in Nat

(* The checks of syswatch that have no hysteresis. *)
SyswatchChecks == {"backups", "memory", "load", "failed units"}

VARIABLES
    kind,       \* which bot this is, or which check of syswatch
    reading,    \* the poll: Unknown for what could not be read
    todo,       \* what of the poll is still to be compared
    known,      \* the state in memory
    saved,      \* the state file
    view,       \* history: the level the channel was told last, or knows
    off,        \* history: what the channel may be wrong about, see Lost
    free,       \* syswatch: free space of a mount at its last check,
    armed,      \*   the threshold alerted on, 0: none,
    armedFile,  \*   and as saved;
    traced,     \*   history: any one of the thresholds,
    low,        \*   the least free space since the last alert for it,
    swung       \*   and whether the space was more than a percent above that since

watchVars == <<kind, reading, todo, known, saved, view, off>>
mountVars == <<free, armed, armedFile, traced, low, swung>>

WatchInit ==
    /\ kind \in {"diskwatch", "uptimebot"} \cup SyswatchChecks
    /\ reading = [h \in Watched |-> Unknown]
    /\ todo = {}
    /\ known = [h \in Watched |-> Unknown]
    /\ saved = [h \in Watched |-> Unknown]
    /\ view = [h \in Watched |-> 0]
    /\ off = {}

MountInit ==
    /\ free = MaxFree
    /\ armed = 0 /\ armedFile = 0
    /\ traced \in Thresholds /\ low = MaxFree /\ swung = TRUE

-----------------------------------------------------------------------------
DiskwatchClient == ClientNext
SyswatchClient == ClientNext

(* Is a change announced?  diskwatch: a first sighting only if it is a      *)
(* warning.                                                                 *)
diskwatchAnnounces(prev, cur) == IF prev = Unknown THEN cur > 0 ELSE cur # prev

(* syswatch: memory and load count as ok at first, and a backup unit as     *)
(* healthy; failed units are one item, their list.                          *)
checkMem(prev, cur) == cur # (IF prev = Unknown THEN 0 ELSE prev)
checkLoad(prev, cur) == cur # (IF prev = Unknown THEN 0 ELSE prev)
checkBackups(prev, cur) ==
    \/ cur # 0 /\ (prev = Unknown \/ prev # cur)
    \/ cur = 0 /\ prev # Unknown /\ prev # 0
checkFailedUnits(prev, cur) == cur # (IF prev = Unknown THEN 0 ELSE prev)

(* uptimebot: a first sighting is silent. *)
transitions(h) == known[h] # Unknown /\ reading[h] # Unknown /\ known[h] # reading[h]

-----------------------------------------------------------------------------
(* diskwatch and syswatch: the checks of all items, at the same time. *)
Probe ==
    /\ kind # "uptimebot" /\ todo = {}
    /\ \E r \in [Watched -> Levels \cup {Unknown}] :
         reading' = r /\ todo' = {h \in Watched : r[h] # Unknown}
    /\ todo' # {}
    /\ UNCHANGED <<kind, known, saved, view, off, clientVars>>

(* A message that reached the channel sets things right, one that did not   *)
(* leaves it wrong about the item.                                          *)
Told(h) ==
    /\ view' = [view EXCEPT ![h] = reading[h]]
    /\ off' = off \ {h}

Lost(h) == off' = off \cup {h} /\ UNCHANGED view

Announces(h) ==
    CASE kind = "diskwatch" -> diskwatchAnnounces(known[h], reading[h])
      [] kind = "backups" -> checkBackups(known[h], reading[h])
      [] kind = "memory" -> checkMem(known[h], reading[h])
      [] kind = "load" -> checkLoad(known[h], reading[h])
      [] kind = "failed units" -> checkFailedUnits(known[h], reading[h])

ComparePostKeep(h, ok) ==
    /\ kind # "uptimebot" /\ h \in todo
    /\ IF Announces(h)
       THEN /\ privmsg(ok)
            /\ IF ok /\ Delivered THEN Told(h) ELSE Lost(h)
       ELSE ok /\ UNCHANGED <<view, off, clientVars>>
    /\ known' = IF known[h] = Unknown THEN [known EXCEPT ![h] = reading[h]] ELSE known
    /\ todo' = todo \ {h}
    /\ UNCHANGED <<kind, reading, saved>>

(* One item: the new level is stored, whether or not it was posted. *)
ComparePost(h, ok) ==
    /\ kind # "uptimebot" /\ h \in todo
    /\ IF Announces(h)
       THEN /\ privmsg(ok)
            /\ IF ok /\ Delivered THEN Told(h) ELSE Lost(h)
       ELSE ok /\ UNCHANGED <<view, off, clientVars>>
    /\ known' = [known EXCEPT ![h] = reading[h]]
    /\ todo' = todo \ {h}
    /\ UNCHANGED <<kind, reading, saved>>

(* saveState, save. *)
Save ==
    /\ kind # "uptimebot" /\ todo = {} /\ saved # known
    /\ saved' = known
    /\ UNCHANGED <<kind, reading, todo, known, view, off, clientVars>>

(* syswatch drops the state of a backup unit that is gone. *)
UnitGone(h) ==
    /\ kind = "backups" /\ todo = {} /\ known[h] # Unknown
    /\ known' = [known EXCEPT ![h] = Unknown]
    /\ off' = IF view[h] # 0 THEN off \cup {h} ELSE off
    /\ UNCHANGED <<kind, reading, todo, saved, view, clientVars>>

(* The process ends and starts again with the file, or fresh if it cannot   *)
(* be read.  Announcements that are not in the file may be made again, or   *)
(* be out of date.                                                          *)
Restart ==
    /\ kind # "uptimebot"
    /\ known' \in {saved, [h \in Watched |-> Unknown]}
    /\ todo' = {}
    /\ off' = off \cup {h \in Watched : known[h] # known'[h]}
    /\ phase' = "dial" /\ joined' = FALSE /\ alive' = FALSE /\ inChannel' = FALSE
    /\ UNCHANGED <<kind, reading, saved, view>>

-----------------------------------------------------------------------------
(* uptimebot: loadState and runChecks; a target without an answer has no    *)
(* entry.                                                                   *)
runChecks ==
    /\ kind = "uptimebot" /\ todo = {}
    /\ \E r \in [Watched -> {0, 1, Unknown}] : reading' = r
    /\ known' = saved
    /\ todo' = Watched
    /\ UNCHANGED <<kind, saved, view, off, clientVars>>

(* postToIRC: after the join all changes are written, errors are ignored,   *)
(* and any of the lines may be lost; the state is saved, or the process     *)
(* ends before that.  A check that was not in the state is recorded         *)
(* silently, one without an answer is forgotten.                            *)
postToIRC ==
    /\ kind = "uptimebot" /\ todo = Watched
    /\ \E heard \in SUBSET {h \in Watched : transitions(h)} :
         /\ view' = [h \in Watched |-> IF h \in heard THEN reading[h] ELSE view[h]]
         /\ \/ /\ saved' = reading
               /\ off' = {h \in Watched : \/ h \in off \ heard
                                          \/ transitions(h) /\ h \notin heard
                                          \/ reading[h] = Unknown \/ known[h] = Unknown}
            \/ off' = off \cup heard /\ UNCHANGED saved
    /\ todo' = {}
    /\ UNCHANGED <<kind, reading, known, clientVars>>

(* ... or it fails before the join: the process ends without saving, and    *)
(* the next run finds the same changes.                                     *)
postToIRCFails ==
    /\ kind = "uptimebot" /\ todo = Watched
    /\ \E h \in Watched : transitions(h)
    /\ todo' = {}
    /\ UNCHANGED <<kind, reading, known, saved, view, off, clientVars>>

WatchNext ==
    \/ /\ kind = "diskwatch" /\ DiskwatchClient
       /\ UNCHANGED watchVars
    \/ /\ kind \in SyswatchChecks /\ SyswatchClient
       /\ UNCHANGED watchVars
    \/ Probe \/ Save \/ Restart
    \/ runChecks \/ postToIRC \/ postToIRCFails
    \/ \E h \in Watched : UnitGone(h) \/ \E ok \in BOOLEAN : ComparePost(h, ok)

-----------------------------------------------------------------------------
(* syswatch, the disks.  The most severe threshold the free space is below, *)
(* 0 for none.                                                              *)
worstCrossed(pct) ==
    LET crossed == {t \in Thresholds : pct < t}
    IN  IF crossed = {} THEN 0 ELSE CHOOSE t \in crossed : \A u \in crossed : t <= u

(* The space must be one percent above the threshold for an alert to end.   *)
RecoveredAtOnce(pct) == armed # 0 /\ pct >= armed
Recovered(pct) == armed # 0 /\ pct >= armed + 2

checkDisks(pct) ==
    LET cur == worstCrossed(pct)
        alert == cur # 0 /\ (armed = 0 \/ cur < armed)
    IN  /\ free' = pct
        /\ armed' = CASE alert -> cur
                      [] ~alert /\ Recovered(pct) -> worstCrossed(pct)
                      [] OTHER -> armed
        /\ low' = IF pct < low \/ (alert /\ cur = traced) THEN pct ELSE low
        /\ swung' = IF alert /\ cur = traced THEN FALSE ELSE swung \/ pct > low + 2
        /\ UNCHANGED <<armedFile, traced>>

SaveMount ==
    /\ armedFile # armed
    /\ armedFile' = armed
    /\ UNCHANGED <<free, armed, traced, low, swung>>

(* A restart, with the file or fresh. *)
RestartMount ==
    /\ armed' \in {armedFile, 0} \ {armed}
    /\ swung' = TRUE
    /\ UNCHANGED <<free, armedFile, traced, low>>

(* The mount is gone at a check, and later there again. *)
MountGone ==
    /\ armed # 0
    /\ armed' = 0
    /\ swung' = TRUE
    /\ UNCHANGED <<free, armedFile, traced, low>>

MountNext == SaveMount \/ RestartMount \/ MountGone \/ \E pct \in 0..MaxFree : checkDisks(pct)

(* The levels and the disks are independent of each other. *)
WatchersSpec ==
    /\ ClientInit /\ WatchInit /\ MountInit
    /\ [][(WatchNext /\ UNCHANGED mountVars) \/ (MountNext /\ UNCHANGED <<clientVars, watchVars>>)]_<<clientVars, watchVars, mountVars>>

-----------------------------------------------------------------------------
(* Type invariant. *)
WatchersTypeOK ==
    /\ reading \in [Watched -> Levels \cup {Unknown}]
    /\ todo \subseteq Watched
    /\ known \in [Watched -> Levels \cup {Unknown}]
    /\ saved \in [Watched -> Levels \cup {Unknown}]
    /\ view \in [Watched -> Levels]
    /\ off \subseteq Watched
    /\ free \in 0..MaxFree
    /\ armed \in Thresholds \cup {0} /\ armedFile \in Thresholds \cup {0}
    /\ traced \in Thresholds /\ low \in 0..MaxFree /\ swung \in BOOLEAN

(* The channel knows what the bot knows: the last thing it was told about   *)
(* an item is the level in the state (nothing said: ok), through polls with *)
(* and without answers and through restarts.  It is wrong about an item     *)
(* only from a message that did not arrive, an announcement that was not    *)
(* saved or not read back, or an item that was forgotten, and then until    *)
(* the next change that arrives.                                            *)
ChannelKnows ==
    \A h \in Watched \ off :
        LET state == IF kind = "uptimebot" THEN saved[h] ELSE known[h]
        IN  view[h] = IF state = Unknown THEN 0 ELSE state

(* syswatch's alert of a mount is up to date after every check: it is at    *)
(* least as severe as the space calls for, and it ends once the space is    *)
(* one percent above the threshold.  (A restart goes back to the file, or   *)
(* to no alert.)                                                            *)
AlertFitsSpace ==
    [][free' # free =>
         /\ worstCrossed(free') # 0 => armed' # 0 /\ armed' <= worstCrossed(free')
         /\ armed' # 0 => free' < armed' + 2]_mountVars

(* No flapping: between two alerts for the same threshold the free space    *)
(* has swung by more than one percent, however it moves around thresholds   *)
(* that lie close together.                                                 *)
NoFlapping ==
    [][armed' = traced /\ (armed = 0 \/ armed' < armed) /\ ~swung' => swung]_mountVars

-----------------------------------------------------------------------------
(* The channel knows what the watching bots know, up to the losses named in *)
(* ChannelKnows.                                                            *)
WatchersTell ==
    /\ WatchersTypeOK
    /\ ChannelKnows

(* syswatch's alerts for a mount fit the space there is and do not flap.    *)
DiskAlertsSteady ==
    /\ AlertFitsSpace
    /\ NoFlapping
=============================================================================
