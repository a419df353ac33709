----------------------------- MODULE BotsProofs -----------------------------
(***************************************************************************)
(* What the IRC bots guarantee for any number of comics, warnings, watched *)
(* things, thresholds and posting hours, proved with TLAPS: the bots that  *)
(* announce news (IrcAnnouncers), that watch levels (IrcWatchers) and that *)
(* report at fixed hours (IrcReports), each with its copy of the client    *)
(* (IrcClient).                                                            *)
(***************************************************************************)
EXTENDS IrcAnnouncers, IrcWatchers, IrcReports, NaturalsInduction, WellFoundedInduction, TLAPS

-----------------------------------------------------------------------------
(* The client.                                                              *)

ClientSound == ClientTypeOK /\ JoinedOnlyServing

(* Whatever the connection does, the flag is up only while serving. *)
LEMMA ClientKeeps == ClientSound /\ ClientNext => ClientSound'
<1> SUFFICES ASSUME ClientSound, ClientNext PROVE ClientSound'
  OBVIOUS
<1>1. CASE Dial
  BY <1>1 DEF ClientSound, ClientTypeOK, JoinedOnlyServing, Dial
<1>2. CASE RegisterFails
  BY <1>2 DEF ClientSound, ClientTypeOK, JoinedOnlyServing, RegisterFails
<1>3. CASE JoinDone
  BY <1>3 DEF ClientSound, ClientTypeOK, JoinedOnlyServing, JoinDone
<1>4. CASE ReadFails
  BY <1>4 DEF ClientSound, ClientTypeOK, JoinedOnlyServing, ReadFails
<1>5. CASE Kicked
  BY <1>5 DEF ClientSound, ClientTypeOK, JoinedOnlyServing, Kicked
<1>6. CASE Rejoined
  BY <1>6 DEF ClientSound, ClientTypeOK, JoinedOnlyServing, Rejoined
<1>7. CASE ConnectionDies
  BY <1>7 DEF ClientSound, ClientTypeOK, JoinedOnlyServing, ConnectionDies
<1> QED
  BY <1>1, <1>2, <1>3, <1>4, <1>5, <1>6, <1>7 DEF ClientNext

(* A message, written or not. *)
LEMMA PrivmsgKeeps == ASSUME ClientSound, NEW ok \in BOOLEAN, privmsg(ok) PROVE ClientSound'
BY DEF ClientSound, ClientTypeOK, JoinedOnlyServing, privmsg

(* Whatever does not touch the connection. *)
LEMMA ClientStays == ASSUME ClientSound, UNCHANGED clientVars PROVE ClientSound'
BY DEF clientVars, ClientSound, ClientTypeOK, JoinedOnlyServing

(* A process that has just started dials, *)
LEMMA ClientInitSound == ClientInit => ClientSound
BY DEF ClientInit, ClientSound, ClientTypeOK, JoinedOnlyServing

(* and one that starts again as well. *)
LEMMA ClientRestarts ==
  ASSUME phase' = "dial", joined' = FALSE, alive' = FALSE, inChannel' = FALSE PROVE ClientSound'
BY DEF ClientSound, ClientTypeOK, JoinedOnlyServing

-----------------------------------------------------------------------------
(* Comics.                                                                  *)

XkcdTyped ==
    /\ latest \in 1..MaxComic /\ lastSeen \in 0..latest
    /\ comic \in [at : {"idle", "post", "record"}, num : 0..latest]
    /\ baseline \in 0..lastSeen /\ comicSent \in [1..MaxComic -> 0..2]
    /\ unrecorded \cup comicLost \subseteq 1..latest

(* The comic of a poll is a new one, and was announced, or lost, when it is *)
(* about to be recorded.                                                    *)
ComicSound ==
    /\ comic.at # "idle" => comic.num > lastSeen /\ lastSeen # 0
    /\ comic.at = "record" => comicSent[comic.num] > 0 \/ comic.num \in comicLost

(* What was announced is recorded, about to be, or known not to be.         *)
SentSound ==
    \A n \in 1..MaxComic :
        comicSent[n] > 0 =>
            n <= lastSeen \/ n \in unrecorded \/ (comic.at = "record" /\ comic.num = n)

(* Before the first run nothing has been announced. *)
FirstRunSound == lastSeen = 0 => \A n \in 1..MaxComic : comicSent[n] = 0

XkcdIInv ==
    /\ XkcdTyped
    /\ ComicSound
    /\ SentSound
    /\ FirstRunSound
    /\ ComicOnce
    /\ ComicRecordedWhenSent

(* Before the first run there is no state file. *)
LEMMA XkcdInitIInv == XkcdInit => XkcdIInv
BY ComicAssumption DEF XkcdInit, NoComic, XkcdIInv, XkcdTyped, ComicSound, SentSound, FirstRunSound,
                       ComicOnce, ComicRecordedWhenSent

(* A new comic appears: nothing has been said about it. *)
LEMMA PublishComicKeeps == ASSUME XkcdIInv, PublishComic PROVE XkcdIInv'
BY ComicAssumption DEF PublishComic, XkcdIInv, XkcdTyped, ComicSound, SentSound, FirstRunSound,
                       ComicOnce, ComicRecordedWhenSent

(* The poll takes the latest comic if it is newer than the recorded one.    *)
LEMMA XkcdPollKeeps == ASSUME XkcdIInv, XkcdPoll PROVE XkcdIInv'
<1>1. /\ comic = NoComic /\ UNCHANGED <<latest, comicSent, unrecorded, comicLost>>
      /\ \/ lastSeen = 0 /\ lastSeen' = latest /\ baseline' = latest /\ comic' = comic
         \/ /\ lastSeen # 0 /\ latest > lastSeen
            /\ comic' = [at |-> "post", num |-> latest]
            /\ UNCHANGED <<lastSeen, baseline>>
  BY DEF XkcdPoll
<1>2. CASE lastSeen = 0 /\ lastSeen' = latest /\ baseline' = latest /\ comic' = comic
  BY <1>1, <1>2, ComicAssumption
     DEF NoComic, XkcdIInv, XkcdTyped, ComicSound, SentSound, FirstRunSound, ComicOnce, ComicRecordedWhenSent
<1>3. CASE /\ lastSeen # 0 /\ latest > lastSeen
           /\ comic' = [at |-> "post", num |-> latest]
           /\ UNCHANGED <<lastSeen, baseline>>
  BY <1>1, <1>3, ComicAssumption
     DEF NoComic, XkcdIInv, XkcdTyped, ComicSound, SentSound, FirstRunSound, ComicOnce, ComicRecordedWhenSent
<1> QED
  BY <1>1, <1>2, <1>3

(* The announcement: of a comic that is not recorded, and has not been      *)
(* announced unless a record of it was lost.                                *)
LEMMA XkcdPostKeeps == ASSUME XkcdIInv, NEW ok \in BOOLEAN, XkcdPost(ok) PROVE XkcdIInv'
<1>1. PICK n \in 1..latest : n = comic.num
  BY DEF XkcdPost, XkcdIInv, XkcdTyped, ComicSound
<1>2. /\ comic.at = "post" /\ UNCHANGED <<latest, lastSeen, baseline, unrecorded>>
      /\ comic \in [at : {"idle", "post", "record"}, num : 0..latest]
      /\ n > lastSeen /\ n \in 1..MaxComic
  BY <1>1, ComicAssumption DEF XkcdPost, XkcdIInv, XkcdTyped, ComicSound
<1>3. CASE ok
  <2>1. /\ comic' = [comic EXCEPT !.at = "record"]
        /\ \/ comicSent' = [comicSent EXCEPT ![n] = Twice(@)] /\ comicLost' = comicLost
           \/ comicSent' = comicSent /\ comicLost' = comicLost \cup {n}
    BY <1>1, <1>3 DEF XkcdPost, ComicWritten
  <2>2. comic' \in [at : {"idle", "post", "record"}, num : 0..latest] /\ comic'.at = "record" /\ comic'.num = n
    BY <1>1, <1>2, <2>1
  <2>3. /\ comicSent' \in [1..MaxComic -> 0..2] /\ (comicSent'[n] > 0 \/ n \in comicLost')
        /\ comicLost \subseteq comicLost' /\ comicLost' \subseteq 1..latest
        /\ \A m \in 1..MaxComic \ {n} : comicSent'[m] = comicSent[m]
        /\ comicSent'[n] > 1 => comicSent[n] > 0
    <3>1. Twice(comicSent[n]) \in 1..2 /\ (Twice(comicSent[n]) > 1 => comicSent[n] > 0)
      BY <1>2 DEF XkcdIInv, XkcdTyped, Twice
    <3>2. comicSent \in [1..MaxComic -> 0..2] /\ comicLost \subseteq 1..latest
      BY DEF XkcdIInv, XkcdTyped
    <3>3. comicSent[n] \in 0..2 /\ n \in 1..latest
      BY <1>1, <1>2, <3>2
    <3>4. CASE comicSent' = [comicSent EXCEPT ![n] = Twice(@)] /\ comicLost' = comicLost
      BY <1>2, <3>1, <3>2, <3>4
    <3>5. CASE comicSent' = comicSent /\ comicLost' = comicLost \cup {n}
      BY <3>2, <3>3, <3>5
    <3> QED
      BY <2>1, <3>4, <3>5
  <2>4. comicSent[n] > 0 => n \in unrecorded
    BY <1>2 DEF XkcdIInv, XkcdTyped, SentSound
  <2>5. XkcdTyped' /\ ComicSound'
    BY <1>2, <2>2, <2>3 DEF XkcdIInv, XkcdTyped, ComicSound
  <2>6. SentSound'
    <3> SUFFICES ASSUME NEW m \in 1..MaxComic, comicSent'[m] > 0, m # n
                 PROVE  m <= lastSeen \/ m \in unrecorded
      BY <1>2, <2>2 DEF SentSound
    <3> QED
      BY <1>2, <2>3 DEF XkcdIInv, SentSound
  <2>7. FirstRunSound'
    <3>1. lastSeen # 0
      BY <1>2 DEF XkcdIInv, ComicSound
    <3> QED
      BY <1>2, <3>1 DEF FirstRunSound
  <2>8. ComicOnce'
    <3> SUFFICES ASSUME NEW m \in 1..MaxComic
                 PROVE  (comicSent'[m] > 1 => m \in unrecorded) /\ (comicSent'[m] > 0 => m > baseline)
      BY <1>2 DEF ComicOnce
    <3>1. n > baseline
      BY <1>2 DEF XkcdIInv, XkcdTyped
    <3>2. CASE m = n
      BY <2>3, <2>4, <3>1, <3>2
    <3>3. CASE m # n
      BY <2>3, <3>3 DEF XkcdIInv, ComicOnce
    <3> QED
      BY <3>2, <3>3
  <2>9. ComicRecordedWhenSent'
    <3>1. lastSeen # n /\ (lastSeen # baseline => lastSeen \in 1..MaxComic)
      BY <1>2, ComicAssumption DEF XkcdIInv, XkcdTyped
    <3> QED
      BY <1>2, <2>3, <3>1 DEF XkcdIInv, ComicRecordedWhenSent
  <2> QED
    BY <2>5, <2>6, <2>7, <2>8, <2>9 DEF XkcdIInv
<1>4. CASE ~ok
  <2>1. comicSent' = comicSent /\ comicLost' = comicLost /\ comic' = NoComic
    BY <1>4 DEF XkcdPost, ComicWritten
  <2> QED
    BY <1>2, <2>1, ComicAssumption
       DEF NoComic, XkcdIInv, XkcdTyped, ComicSound, SentSound, FirstRunSound, ComicOnce, ComicRecordedWhenSent
<1> QED
  BY <1>3, <1>4

(* The state file is written, or not; or the process ends before that.      *)
LEMMA XkcdRecordKeeps == ASSUME XkcdIInv, writeLastSeen \/ XkcdRestart PROVE XkcdIInv'
<1>1. /\ UNCHANGED <<latest, comicSent, baseline, comicLost>> /\ comic' = NoComic
      /\ \/ comic.at = "record" /\ lastSeen' = comic.num /\ unrecorded' = unrecorded
         \/ /\ lastSeen' = lastSeen
            /\ unrecorded' = unrecorded \cup (IF comic.at = "record" THEN {comic.num} ELSE {})
  BY DEF writeLastSeen, XkcdRestart
<1>2. comic.at = "record" => comic.num \in 1..latest /\ comic.num > lastSeen
  BY DEF XkcdIInv, XkcdTyped, ComicSound
<1>3. CASE comic.at = "record" /\ lastSeen' = comic.num /\ unrecorded' = unrecorded
  BY <1>1, <1>2, <1>3, ComicAssumption
     DEF NoComic, XkcdIInv, XkcdTyped, ComicSound, SentSound, FirstRunSound, ComicOnce, ComicRecordedWhenSent
<1>4. CASE /\ lastSeen' = lastSeen
           /\ unrecorded' = unrecorded \cup (IF comic.at = "record" THEN {comic.num} ELSE {})
  <2>1. unrecorded \subseteq unrecorded' /\ (comic.at = "record" => comic.num \in unrecorded')
    BY <1>4
  <2>2. unrecorded' \subseteq 1..latest
    BY <1>2, <1>4 DEF XkcdIInv, XkcdTyped
  <2>3. XkcdTyped' /\ ComicSound'
    BY <1>1, <1>4, <2>2 DEF NoComic, XkcdIInv, XkcdTyped, ComicSound
  <2>4. SentSound'
    BY <1>1, <1>4, <2>1 DEF XkcdIInv, SentSound
  <2>5. FirstRunSound' /\ ComicOnce' /\ ComicRecordedWhenSent'
    BY <1>1, <1>4, <2>1 DEF XkcdIInv, FirstRunSound, ComicOnce, ComicRecordedWhenSent
  <2> QED
    BY <2>3, <2>4, <2>5 DEF XkcdIInv
<1> QED
  BY <1>1, <1>3, <1>4

(* xkcdbot, step by step. *)
LEMMA XkcdNextIInv ==
  ASSUME ClientSound, XkcdIInv, XkcdNext PROVE ClientSound' /\ XkcdIInv'
<1>1. CASE XkcdClient /\ UNCHANGED xkcdVars
  <2>1. XkcdIInv'
    BY <1>1 DEF xkcdVars, XkcdIInv, XkcdTyped, ComicSound, SentSound, FirstRunSound, ComicOnce,
                ComicRecordedWhenSent
  <2> QED
    BY <1>1, <2>1, ClientKeeps DEF XkcdClient
<1>2. CASE PublishComic \/ XkcdPoll \/ writeLastSeen
  <2>1. UNCHANGED clientVars
    BY <1>2 DEF PublishComic, XkcdPoll, writeLastSeen
  <2>2. ClientSound'
    BY <2>1, ClientStays
  <2> QED
    BY <1>2, <2>2, PublishComicKeeps, XkcdPollKeeps, XkcdRecordKeeps
<1>3. CASE XkcdRestart
  <2>1. ClientSound'
    BY <1>3, ClientRestarts DEF XkcdRestart
  <2> QED
    BY <1>3, <2>1, XkcdRecordKeeps
<1>4. ASSUME NEW ok \in BOOLEAN, XkcdPost(ok) PROVE ClientSound' /\ XkcdIInv'
  <2>1. privmsg(ok)
    BY <1>4 DEF XkcdPost, ComicWritten
  <2> QED
    BY <1>4, <2>1, PrivmsgKeeps, XkcdPostKeeps
<1> QED
  BY <1>1, <1>2, <1>3, <1>4 DEF XkcdNext

-----------------------------------------------------------------------------
(* Warnings.                                                                *)

Poll == [at : {"idle", "post", "clear"}, w : SUBSET Warnings, new : SUBSET Warnings,
         posted : BOOLEAN, clear : SUBSET Cells]

DwdTyped ==
    /\ feed \in SUBSET Warnings /\ seen \in SUBSET Warnings /\ seenFile \in SUBSET Warnings
    /\ poll \in Poll /\ told \in [Warnings -> 0..2]
    /\ unheard \in SUBSET Warnings /\ unsaved \in SUBSET Warnings

(* What is new in a poll is marked already; between polls nothing is.       *)
PollSound ==
    /\ poll.new \subseteq poll.w /\ poll.new \subseteq seen
    /\ poll.at # "post" => poll.new = {}

(* A marked warning was announced, or will be in this poll, or a message    *)
(* was lost; one that was announced is marked, or its mark was lost; one    *)
(* that is about to be announced was not, unless its mark was lost.         *)
MarksSound ==
    \A x \in Warnings :
        /\ x \in seen => told[x] > 0 \/ x \in unheard \/ x \in poll.new
        /\ told[x] > 0 => x \in seen \/ x \in unsaved
        /\ x \in poll.new /\ told[x] > 0 => x \in unsaved
        /\ told[x] > 1 => x \in unsaved

DwdIInv == DwdTyped /\ PollSound /\ MarksSound

(* A poll that has ended, and the poll of a bot that has just started.      *)
LEMMA NoPollTyped == NoPoll \in Poll /\ NoPoll.at = "idle" /\ NoPoll.new = {} /\ NoPoll.w = {}
BY DEF NoPoll, Poll

(* Without a state file nothing is marked. *)
LEMMA DwdInitIInv == DwdInit => DwdIInv
<1> SUFFICES ASSUME DwdInit PROVE DwdIInv
  OBVIOUS
<1>1. DwdTyped
  BY NoPollTyped DEF DwdInit, DwdTyped
<1> QED
  BY <1>1, NoPollTyped DEF DwdInit, DwdIInv, PollSound, MarksSound

(* The first announcement of a poll that no mark kept back.                 *)
LEMMA DwdFetchKeeps == ASSUME DwdIInv, DwdFetch PROVE DwdIInv'
<1>1. /\ poll = NoPoll /\ seen' = seen \cup feed
      /\ poll' = [NoPoll EXCEPT !.at = "post", !.w = feed, !.new = feed \ seen]
      /\ UNCHANGED <<feed, seenFile, told, unheard, unsaved>>
  BY DEF DwdFetch
<1> DEFINE p1 == [poll EXCEPT !.at = "post"]
           p2 == [p1 EXCEPT !.w = feed]
           p3 == [p2 EXCEPT !.new = feed \ seen]
<1>2. poll' = p3
  BY <1>1
<1>3. p1 \in Poll /\ p1.at = "post"
  BY DEF DwdIInv, DwdTyped, Poll
<1> HIDE DEF p1
<1>4. p2 \in Poll /\ p2.at = "post" /\ p2.w = feed
  BY <1>3 DEF DwdIInv, DwdTyped, Poll
<1> HIDE DEF p2
<1>5. p3 \in Poll /\ p3.at = "post" /\ p3.w = feed /\ p3.new = feed \ seen
  BY <1>4 DEF DwdIInv, DwdTyped, Poll
<1> HIDE DEF p3
<1>6. DwdTyped'
  BY <1>1, <1>2, <1>5 DEF DwdIInv, DwdTyped
<1>7. PollSound'
  BY <1>1, <1>2, <1>5 DEF PollSound
<1>8. MarksSound'
  BY <1>1, <1>2, <1>5, NoPollTyped DEF DwdIInv, DwdTyped, MarksSound
<1> QED
  BY <1>6, <1>7, <1>8 DEF DwdIInv

(* One message: the warning was not announced since it was new, or the poll *)
(* ends and all that it had to say counts as unheard.                       *)
LEMMA DwdPostKeeps ==
  ASSUME DwdIInv, NEW x \in Warnings, NEW ok \in BOOLEAN, DwdPost(x, ok) PROVE DwdIInv'
<1>1. /\ poll.at = "post" /\ x \in poll.new /\ poll \in Poll /\ told \in [Warnings -> 0..2]
      /\ UNCHANGED <<feed, seen, seenFile, unsaved>>
  BY DEF DwdPost, DwdIInv, DwdTyped
<1>2. CASE ok
  <2>1. /\ poll' = [poll EXCEPT !.new = @ \ {x}, !.posted = TRUE]
        /\ \/ told' = [told EXCEPT ![x] = Twice(@)] /\ unheard' = unheard
           \/ told' = told /\ unheard' = unheard \cup {x}
    BY <1>2 DEF DwdPost
  <2>2. /\ poll' \in Poll /\ poll'.at = "post" /\ poll'.w = poll.w /\ poll'.new = poll.new \ {x}
    BY <1>1, <2>1 DEF Poll
  <2>3. /\ told' \in [Warnings -> 0..2] /\ (told'[x] > 0 \/ x \in unheard')
        /\ unheard \subseteq unheard'
        /\ \A y \in Warnings \ {x} : told'[y] = told[y]
        /\ told'[x] > 1 => told[x] > 0
    BY <1>1, <2>1 DEF Twice
  <2>4. DwdTyped' /\ PollSound'
    BY <1>1, <2>1, <2>2, <2>3 DEF DwdIInv, DwdTyped, PollSound
  <2>5. MarksSound'
    <3> SUFFICES ASSUME NEW y \in Warnings
                 PROVE  /\ y \in seen => told'[y] > 0 \/ y \in unheard' \/ y \in poll'.new
                        /\ told'[y] > 0 => y \in seen \/ y \in unsaved
                        /\ y \in poll'.new /\ told'[y] > 0 => y \in unsaved
                        /\ told'[y] > 1 => y \in unsaved
      BY <1>1, <2>1 DEF MarksSound
    <3>1. CASE y = x
      BY <1>1, <2>2, <2>3, <3>1 DEF DwdIInv, PollSound, MarksSound
    <3>2. CASE y # x
      BY <2>2, <2>3, <3>2 DEF DwdIInv, MarksSound
    <3> QED
      BY <3>1, <3>2
  <2> QED
    BY <2>4, <2>5 DEF DwdIInv
<1>3. CASE ~ok
  <2>1. poll' = [poll EXCEPT !.new = {}] /\ unheard' = unheard \cup poll.new /\ told' = told
    BY <1>3 DEF DwdPost
  <2>2. poll' \in Poll /\ poll'.at = "post" /\ poll'.w = poll.w /\ poll'.new = {}
    BY <1>1, <2>1 DEF Poll
  <2>3. DwdTyped'
    BY <1>1, <2>1, <2>2 DEF DwdIInv, DwdTyped, Poll
  <2> QED
    BY <1>1, <2>1, <2>2, <2>3 DEF DwdIInv, PollSound, MarksSound
<1> QED
  BY <1>2, <1>3

(* The all-clear, for cells without a warning. *)
LEMMA DwdClearKeeps ==
  ASSUME DwdIInv, DwdQuiet \/ \E c \in Cells, ok \in BOOLEAN : DwdAllClear(c, ok) PROVE DwdIInv'
<1>1. PICK clear \in SUBSET Cells : poll' = [poll EXCEPT !.at = "clear", !.clear = clear]
  <2>1. CASE DwdQuiet
    <3>1. {x[1] : x \in seen} \subseteq Cells
      BY DEF DwdIInv, DwdTyped, Warnings
    <3> QED
      BY <2>1, <3>1 DEF DwdQuiet
  <2>2. CASE \E c \in Cells, ok \in BOOLEAN : DwdAllClear(c, ok)
    BY ZenonT(40), <2>2 DEF DwdAllClear, DwdIInv, DwdTyped, Poll
  <2> QED
    BY <2>1, <2>2
<1>2. /\ poll.new = {} /\ poll \in Poll
      /\ UNCHANGED <<feed, seen, seenFile, told, unheard, unsaved>>
  BY DEF DwdQuiet, DwdAllClear, DwdIInv, DwdTyped, PollSound
<1>3. poll' \in Poll /\ poll'.at = "clear" /\ poll'.w = poll.w /\ poll'.new = {}
  BY <1>1, <1>2 DEF Poll
<1> QED
  BY <1>2, <1>3 DEF DwdIInv, DwdTyped, PollSound, MarksSound

(* The marks of warnings that are over go, with what is known of them.      *)
LEMMA DwdSaveKeeps == ASSUME DwdIInv, DwdSave PROVE DwdIInv'
<1>1. /\ poll' = NoPoll /\ seen' = seen \cap poll.w /\ unheard' = unheard \cap poll.w
      /\ told' = [x \in Warnings |-> IF x \in poll.w THEN told[x] ELSE 0]
      /\ seenFile' \in {seenFile, seen'} /\ unsaved' \in {unsaved, unsaved \cap poll.w}
      /\ poll.new = {} /\ feed' = feed
  BY DEF DwdSave, DwdIInv, PollSound
<1>2. DwdTyped'
  BY <1>1, NoPollTyped DEF DwdIInv, DwdTyped
<1>3. PollSound'
  BY <1>1, NoPollTyped DEF PollSound
<1>4. MarksSound'
  <2> SUFFICES ASSUME NEW y \in Warnings
               PROVE  /\ y \in seen' => told'[y] > 0 \/ y \in unheard'
                      /\ told'[y] > 0 => y \in seen' \/ y \in unsaved'
                      /\ told'[y] > 1 => y \in unsaved'
    BY <1>1, NoPollTyped DEF MarksSound
  <2>1. CASE y \in poll.w
    <3>1. told'[y] = told[y]
      BY <1>1, <2>1
    <3> QED
      BY <1>1, <2>1, <3>1 DEF DwdIInv, MarksSound
  <2>2. CASE y \notin poll.w
    <3>1. told'[y] = 0
      BY <1>1, <2>2
    <3> QED
      BY <1>1, <2>2, <3>1
  <2> QED
    BY <2>1, <2>2
<1> QED
  BY <1>2, <1>3, <1>4 DEF DwdIInv

(* The process starts again with the file: marks and messages are lost.     *)
LEMMA DwdRestartKeeps == ASSUME DwdIInv, DwdRestart PROVE DwdIInv'
<1>1. /\ seen' \in {seenFile, {}} /\ unsaved' = unsaved \cup (seen \ seen') /\ poll' = NoPoll
      /\ unheard' = unheard \cup (seen' \ seen) \cup poll.new
      /\ UNCHANGED <<feed, seenFile, told>>
  BY DEF DwdRestart
<1>2. DwdTyped'
  BY <1>1, NoPollTyped DEF DwdIInv, DwdTyped, Poll
<1> QED
  BY <1>1, <1>2, NoPollTyped DEF DwdIInv, PollSound, MarksSound

(* dwdwarn, step by step. *)
LEMMA DwdNextIInv ==
  ASSUME ClientSound, DwdIInv, DwdNext PROVE ClientSound' /\ DwdIInv'
<1>1. CASE DwdClient /\ UNCHANGED dwdVars
  <2>1. DwdIInv'
    BY <1>1 DEF dwdVars, DwdIInv, DwdTyped, PollSound, MarksSound
  <2> QED
    BY <1>1, <2>1, ClientKeeps DEF DwdClient
<1>2. CASE DwdFetch \/ DwdQuiet \/ DwdSave
  <2>1. UNCHANGED clientVars
    BY <1>2 DEF DwdFetch, DwdQuiet, DwdSave
  <2>2. ClientSound'
    BY <2>1, ClientStays
  <2> QED
    BY <1>2, <2>2, DwdFetchKeeps, DwdClearKeeps, DwdSaveKeeps
<1>3. CASE DwdRestart
  <2>1. ClientSound'
    BY <1>3, ClientRestarts DEF DwdRestart
  <2> QED
    BY <1>3, <2>1, DwdRestartKeeps
<1>4. ASSUME NEW x \in Warnings, FeedChanges(x) PROVE ClientSound' /\ DwdIInv'
  <2>1. ClientSound'
    BY <1>4, ClientStays DEF FeedChanges
  <2>2. feed' \in SUBSET Warnings /\ UNCHANGED <<seen, seenFile, poll, told, unheard, unsaved>>
    BY <1>4 DEF FeedChanges, DwdIInv, DwdTyped
  <2> QED
    BY <2>1, <2>2 DEF DwdIInv, DwdTyped, PollSound, MarksSound
<1>5. ASSUME NEW x \in Warnings, NEW ok \in BOOLEAN, DwdPost(x, ok) PROVE ClientSound' /\ DwdIInv'
  <2>1. privmsg(ok)
    BY <1>5 DEF DwdPost
  <2> QED
    BY <1>5, <2>1, PrivmsgKeeps, DwdPostKeeps
<1>6. ASSUME NEW c \in Cells, NEW ok \in BOOLEAN, DwdAllClear(c, ok) PROVE ClientSound' /\ DwdIInv'
  <2>1. privmsg(ok)
    BY <1>6 DEF DwdAllClear
  <2> QED
    BY <1>6, <2>1, PrivmsgKeeps, DwdClearKeeps
<1> QED
  BY <1>1, <1>2, <1>3, <1>4, <1>5, <1>6 DEF DwdNext

(* News are announced once, over a connection that has joined, but for      *)
(* announcements whose record or mark was lost; what is recorded or marked  *)
(* was announced, or counts as unheard.                                     *)
THEOREM AlwaysAnnouncedOnce == AnnouncersSpec => []AnnouncedOnce
<1> DEFINE I == ClientSound /\ XkcdIInv /\ DwdIInv
<1>1. ClientInit /\ XkcdInit /\ DwdInit => I
  BY ClientInitSound, XkcdInitIInv, DwdInitIInv
<1>2. /\ I
      /\ [(XkcdNext /\ UNCHANGED dwdVars) \/ (DwdNext /\ UNCHANGED xkcdVars)]_<<clientVars, xkcdVars, dwdVars>>
      => I'
  <2>1. ASSUME I, XkcdNext, UNCHANGED dwdVars PROVE I'
    <3>1. DwdIInv'
      BY <2>1 DEF dwdVars, DwdIInv, DwdTyped, PollSound, MarksSound
    <3> QED
      BY <2>1, <3>1, XkcdNextIInv
  <2>2. ASSUME I, DwdNext, UNCHANGED xkcdVars PROVE I'
    <3>1. XkcdIInv'
      BY <2>2 DEF xkcdVars, XkcdIInv, XkcdTyped, ComicSound, SentSound, FirstRunSound, ComicOnce,
                  ComicRecordedWhenSent
    <3> QED
      BY <2>2, <3>1, DwdNextIInv
  <2>3. ASSUME I, UNCHANGED <<clientVars, xkcdVars, dwdVars>> PROVE I'
    <3>1. ClientSound'
      BY <2>3, ClientStays
    <3>2. XkcdIInv'
      BY <2>3 DEF xkcdVars, XkcdIInv, XkcdTyped, ComicSound, SentSound, FirstRunSound, ComicOnce,
                  ComicRecordedWhenSent
    <3>3. DwdIInv'
      BY <2>3 DEF dwdVars, DwdIInv, DwdTyped, PollSound, MarksSound
    <3> QED
      BY <3>1, <3>2, <3>3
  <2> QED
    BY <2>1, <2>2, <2>3
<1>3. I => AnnouncedOnce
  <2> SUFFICES ASSUME I PROVE AnnouncedOnce
    OBVIOUS
  <2>1. AnnouncersTypeOK
    BY DEF XkcdIInv, XkcdTyped, DwdIInv, DwdTyped, PollSound, Poll, AnnouncersTypeOK
  <2>2. WarningOnce
    BY DEF DwdIInv, MarksSound, WarningOnce
  <2>3. WarningToldOrUnheard
    BY NoPollTyped DEF DwdIInv, DwdTyped, MarksSound, WarningToldOrUnheard
  <2> QED
    BY <2>1, <2>2, <2>3 DEF ClientSound, XkcdIInv, AnnouncedOnce
<1> QED
  BY <1>1, <1>2, <1>3, PTL DEF AnnouncersSpec

-----------------------------------------------------------------------------
(* Numbers: least elements, and the days of a clock.                        *)

(* A set of natural numbers has a least one. *)
LEMMA LeastExists ==
  ASSUME NEW S \in SUBSET Nat, S # {}
  PROVE  \E x \in S : \A y \in S : x <= y
<1> DEFINE R == {ss \in Nat \X Nat : ss[1] < ss[2]}
<1>1. IsWellFoundedOn(R, Nat)
  BY NatLessThanWellFounded DEF OpToRel
<1>2. PICK x \in S : \A y \in S : ~(<<y, x>> \in R)
  BY <1>1, WFMin
<1>3. ASSUME NEW y \in S PROVE x <= y
  <2>1. <<y, x>> \in Nat \X Nat /\ <<y, x>>[1] = y /\ <<y, x>>[2] = x
    OBVIOUS
  <2>2. ~(y < x)
    BY <1>2, <2>1
  <2> QED
    BY <2>2
<1> QED
  BY <1>3

-----------------------------------------------------------------------------
(* Levels.                                                                  *)

(* What a level in the state says; nothing in the state says ok. *)
Says(x) == IF x = Unknown THEN 0 ELSE x

Level == Levels \cup {Unknown}

WatchTyped ==
    /\ kind \in {"diskwatch", "uptimebot"} \cup SyswatchChecks
    /\ reading \in [Watched -> Level] /\ known \in [Watched -> Level] /\ saved \in [Watched -> Level]
    /\ todo \subseteq Watched /\ view \in [Watched -> Levels] /\ off \subseteq Watched

(* What is still to be compared was read; uptimebot compares with the file. *)
TodoSound ==
    /\ kind # "uptimebot" => \A h \in todo : reading[h] # Unknown
    /\ kind = "uptimebot" => \A h \in todo : known[h] = saved[h]

WatchIInv == WatchTyped /\ TodoSound /\ ChannelKnows

(* The level the channel should know of an item. *)
State(h) == IF kind = "uptimebot" THEN saved[h] ELSE known[h]

(* ChannelKnows, with the names of these proofs. *)
LEMMA KnowsSays == ChannelKnows <=> \A h \in Watched \ off : view[h] = Says(State(h))
BY DEF ChannelKnows, Says, State

(* ... and of the next state. *)
LEMMA KnowsSaysNext ==
  ChannelKnows' <=> \A h \in Watched \ off' : view'[h] = Says(IF kind' = "uptimebot" THEN saved'[h] ELSE known'[h])
BY DEF ChannelKnows, Says

(* Nothing is known, and nothing was said. *)
LEMMA WatchInitIInv == WatchInit => WatchIInv
BY UnknownAssumption DEF WatchInit, WatchIInv, WatchTyped, TodoSound, ChannelKnows, Level, Levels

(* A poll changes nothing that was known. *)
LEMMA ProbeKeeps == ASSUME WatchIInv, Probe \/ runChecks PROVE WatchIInv'
<1>1. CASE Probe
  <2>1. /\ kind # "uptimebot" /\ UNCHANGED <<kind, known, saved, view, off>>
        /\ reading' \in [Watched -> Level] /\ todo' = {h \in Watched : reading'[h] # Unknown}
    BY <1>1 DEF Probe, Level
  <2> QED
    BY <2>1 DEF WatchIInv, WatchTyped, TodoSound, ChannelKnows
<1>2. CASE runChecks
  <2>1. /\ kind = "uptimebot" /\ UNCHANGED <<kind, saved, view, off>>
        /\ known' = saved /\ todo' = Watched /\ reading' \in [Watched -> Level]
    BY <1>2 DEF runChecks, Level, Levels
  <2> QED
    BY <2>1 DEF WatchIInv, WatchTyped, TodoSound, ChannelKnows
<1> QED
  BY <1>1, <1>2

(* What is not announced is what the channel knows.                         *)
LEMMA SilenceIsKnown ==
  ASSUME WatchIInv, NEW h \in Watched, kind # "uptimebot", reading[h] \in Levels, ~Announces(h)
  PROVE  reading[h] = Says(known[h])
<1>1. known[h] \in Level /\ kind \in {"diskwatch"} \cup SyswatchChecks
  BY DEF WatchIInv, WatchTyped
<1>2. CASE kind = "diskwatch"
  BY <1>1, <1>2 DEF Announces, diskwatchAnnounces, Says, Level, Levels
<1>3. CASE kind = "backups"
  BY <1>1, <1>3 DEF Announces, checkBackups, Says, Level, Levels
<1>4. CASE kind = "memory"
  BY <1>1, <1>4 DEF Announces, checkMem, Says, Level, Levels
<1>5. CASE kind = "load"
  BY <1>1, <1>5 DEF Announces, checkLoad, Says, Level, Levels
<1>6. CASE kind = "failed units"
  BY <1>1, <1>6 DEF Announces, checkFailedUnits, Says, Level, Levels
<1> QED
  BY <1>1, <1>2, <1>3, <1>4, <1>5, <1>6 DEF SyswatchChecks

(* One item is compared: it is told, or lost, or the channel knew it.       *)
LEMMA ComparePostKeeps ==
  ASSUME WatchIInv, NEW h \in Watched, NEW ok \in BOOLEAN, ComparePost(h, ok)
  PROVE  WatchIInv'
<1>1. /\ kind # "uptimebot" /\ h \in todo /\ todo' = todo \ {h} /\ UNCHANGED <<kind, reading, saved>>
      /\ known' = [known EXCEPT ![h] = reading[h]]
  BY DEF ComparePost
<1>2. reading[h] \in Levels /\ reading[h] # Unknown
  BY <1>1, UnknownAssumption DEF WatchIInv, WatchTyped, TodoSound, Level
<1>3. /\ known' \in [Watched -> Level] /\ known'[h] = reading[h]
      /\ \A g \in Watched \ {h} : known'[g] = known[g]
  BY <1>1, <1>2 DEF WatchIInv, WatchTyped, Level
<1>4. \A g \in Watched \ off : view[g] = Says(known[g])
  BY <1>1, KnowsSays DEF WatchIInv, State
<1>5. TodoSound'
  BY <1>1 DEF WatchIInv, TodoSound
<1>6. CASE Told(h)
  <2>1. /\ view' \in [Watched -> Levels] /\ view'[h] = reading[h] /\ off' = off \ {h}
        /\ \A g \in Watched \ {h} : view'[g] = view[g]
    BY <1>2, <1>6 DEF Told, WatchIInv, WatchTyped
  <2>2. WatchTyped'
    BY <1>1, <1>3, <2>1 DEF WatchIInv, WatchTyped
  <2>3. \A g \in Watched \ off' : view'[g] = Says(known'[g])
    BY <1>2, <1>3, <1>4, <2>1 DEF Says
  <2> QED
    BY <1>1, <1>5, <2>2, <2>3, KnowsSaysNext DEF WatchIInv
<1>7. CASE Lost(h)
  <2>1. off' = off \cup {h} /\ view' = view
    BY <1>7 DEF Lost
  <2>2. WatchTyped'
    BY <1>1, <1>3, <2>1 DEF WatchIInv, WatchTyped
  <2>3. \A g \in Watched \ off' : view'[g] = Says(known'[g])
    BY <1>3, <1>4, <2>1
  <2> QED
    BY <1>1, <1>5, <2>2, <2>3, KnowsSaysNext DEF WatchIInv
<1>8. CASE ~Announces(h)
  <2>1. off' = off /\ view' = view
    BY <1>8 DEF ComparePost
  <2>2. WatchTyped'
    BY <1>1, <1>3, <2>1 DEF WatchIInv, WatchTyped
  <2>3. reading[h] = Says(known[h]) /\ reading[h] = Says(known'[h])
    BY <1>1, <1>2, <1>3, <1>8, SilenceIsKnown DEF Says
  <2>4. \A g \in Watched \ off' : view'[g] = Says(known'[g])
    BY <1>3, <1>4, <2>1, <2>3
  <2> QED
    BY <1>1, <1>5, <2>2, <2>4, KnowsSaysNext DEF WatchIInv
<1> QED
  BY <1>6, <1>7, <1>8 DEF ComparePost

(* The state is saved, an item is forgotten, or the process starts again:   *)
(* where the state changes, the channel may be wrong.                       *)
LEMMA StateKeeps ==
  ASSUME WatchIInv, Save \/ Restart \/ \E h \in Watched : UnitGone(h)
  PROVE  WatchIInv'
<1>1. CASE Save
  BY <1>1 DEF Save, WatchIInv, WatchTyped, TodoSound, ChannelKnows
<1>2. CASE Restart
  <2>1. /\ kind # "uptimebot" /\ known' \in {saved, [h \in Watched |-> Unknown]} /\ todo' = {}
        /\ UNCHANGED <<kind, reading, saved, view>>
        /\ off' = off \cup {h \in Watched : known[h] # known'[h]}
    BY <1>2 DEF Restart
  <2>0. known' \in [Watched -> Level]
    BY <2>1 DEF WatchIInv, WatchTyped, Level
  <2>2. WatchTyped' /\ TodoSound'
    BY <2>0, <2>1 DEF WatchIInv, WatchTyped, TodoSound
  <2>3. \A g \in Watched \ off' : view'[g] = Says(known'[g])
    BY <2>1, KnowsSays DEF WatchIInv, State
  <2> QED
    BY <2>1, <2>2, <2>3, KnowsSaysNext DEF WatchIInv
<1>3. ASSUME NEW h \in Watched, UnitGone(h) PROVE WatchIInv'
  <2>1. /\ kind = "backups" /\ known' = [known EXCEPT ![h] = Unknown] /\ todo = {}
        /\ UNCHANGED <<kind, reading, todo, saved, view>>
        /\ off' \in {off, off \cup {h}} /\ (view[h] # 0 => h \in off')
    BY <1>3 DEF UnitGone
  <2>2. /\ known' \in [Watched -> Level] /\ known'[h] = Unknown
        /\ \A g \in Watched \ {h} : known'[g] = known[g]
    BY <2>1 DEF WatchIInv, WatchTyped, Level
  <2>3. WatchTyped' /\ TodoSound'
    BY <2>1, <2>2 DEF WatchIInv, WatchTyped, TodoSound
  <2>4. \A g \in Watched \ off' : view'[g] = Says(known'[g])
    BY <2>1, <2>2, KnowsSays DEF WatchIInv, State, Says
  <2> QED
    BY <2>1, <2>3, <2>4, KnowsSaysNext DEF WatchIInv
<1> QED
  BY <1>1, <1>2, <1>3

(* uptimebot posts the changes, and of what was lost, could not be saved or *)
(* has no answer, the channel may be wrong about; or it fails, and nothing  *)
(* happened.                                                                *)
LEMMA PostToIrcKeeps ==
  ASSUME WatchIInv, postToIRC \/ postToIRCFails
  PROVE  WatchIInv'
<1>1. kind = "uptimebot" /\ todo = Watched /\ todo' = {} /\ UNCHANGED <<kind, reading, known>>
  BY DEF postToIRC, postToIRCFails
<1>2. \A h \in Watched : known[h] = saved[h]
  BY <1>1 DEF WatchIInv, TodoSound
<1>3. \A h \in Watched \ off : view[h] = Says(saved[h])
  BY <1>1, KnowsSays DEF WatchIInv, State
<1>4. CASE postToIRCFails
  BY <1>1, <1>4 DEF postToIRCFails, WatchIInv, WatchTyped, TodoSound, ChannelKnows
<1>5. CASE postToIRC
  <2>1. PICK heard \in SUBSET {h \in Watched : transitions(h)} :
          /\ view' = [h \in Watched |-> IF h \in heard THEN reading[h] ELSE view[h]]
          /\ \/ /\ saved' = reading
                /\ off' = {h \in Watched : \/ h \in off \ heard
                                           \/ transitions(h) /\ h \notin heard
                                           \/ reading[h] = Unknown \/ known[h] = Unknown}
             \/ off' = off \cup heard /\ saved' = saved
    BY <1>5 DEF postToIRC
  <2>2. /\ \A h \in Watched : view'[h] = IF h \in heard THEN reading[h] ELSE view[h]
        /\ \A h \in heard : transitions(h)
    BY <2>1
  <2>3. view' \in [Watched -> Levels]
    BY <2>1, Zenon DEF WatchIInv, WatchTyped, transitions, Level
  <2>4. CASE /\ saved' = reading
             /\ off' = {h \in Watched : \/ h \in off \ heard
                                        \/ transitions(h) /\ h \notin heard
                                        \/ reading[h] = Unknown \/ known[h] = Unknown}
    <3>1. WatchTyped' /\ TodoSound'
      BY <1>1, <2>3, <2>4 DEF WatchIInv, WatchTyped, TodoSound
    <3>2. ASSUME NEW g \in Watched \ off' PROVE view'[g] = Says(saved'[g])
      <4>1. /\ reading[g] # Unknown /\ known[g] # Unknown /\ saved'[g] = reading[g]
            /\ g \notin off \/ g \in heard
            /\ transitions(g) => g \in heard
        BY <2>4, <3>2
      <4>2. CASE g \in heard
        BY <2>2, <4>1, <4>2 DEF Says
      <4>3. CASE g \notin heard
        BY <1>2, <1>3, <2>2, <4>1, <4>3 DEF transitions, Says
      <4> QED
        BY <4>2, <4>3
    <3> QED
      BY <1>1, <3>1, <3>2, KnowsSaysNext DEF WatchIInv
  <2>5. CASE off' = off \cup heard /\ saved' = saved
    <3>1. WatchTyped' /\ TodoSound'
      BY <1>1, <2>3, <2>5 DEF WatchIInv, WatchTyped, TodoSound
    <3>2. \A g \in Watched \ off' : view'[g] = Says(saved'[g])
      BY <1>3, <2>2, <2>5
    <3> QED
      BY <1>1, <3>1, <3>2, KnowsSaysNext DEF WatchIInv
  <2> QED
    BY <2>1, <2>4, <2>5
<1> QED
  BY <1>4, <1>5

(* The watching bots, step by step. *)
LEMMA WatchStep == WatchIInv /\ (WatchNext \/ UNCHANGED watchVars) => WatchIInv'
<1> SUFFICES ASSUME WatchIInv, WatchNext \/ UNCHANGED watchVars PROVE WatchIInv'
  OBVIOUS
<1>1. CASE UNCHANGED watchVars
  BY <1>1 DEF watchVars, WatchIInv, WatchTyped, TodoSound, ChannelKnows
<1>2. CASE WatchNext
  BY <1>1, <1>2, ProbeKeeps, StateKeeps, PostToIrcKeeps, ComparePostKeeps DEF WatchNext
<1> QED
  BY <1>1, <1>2

-----------------------------------------------------------------------------
(* Disks.                                                                   *)

MountTyped ==
    /\ free \in 0..MaxFree /\ low \in 0..MaxFree
    /\ armed \in Thresholds \cup {0} /\ armedFile \in Thresholds \cup {0}
    /\ traced \in Thresholds /\ swung \in BOOLEAN

(* While the space has not swung since the last alert for a threshold, the  *)
(* alert is still on, or a more severe one is, and the least free space     *)
(* since is below it: an alert that ends shows a swing.                     *)
ArmedUntilSwung == ~swung => armed # 0 /\ armed <= traced /\ low < armed

MountIInv == MountTyped /\ ArmedUntilSwung

(* The most severe threshold crossed is one, it is crossed, and no other is *)
(* more severe.                                                             *)
LEMMA WorstCrossedIs ==
  ASSUME NEW pct \in Nat
  PROVE  /\ worstCrossed(pct) \in Thresholds \cup {0}
         /\ worstCrossed(pct) # 0 => pct < worstCrossed(pct)
         /\ \A t \in Thresholds : pct < t => worstCrossed(pct) # 0 /\ worstCrossed(pct) <= t
<1> DEFINE crossed == {t \in Thresholds : pct < t}
<1>1. CASE crossed = {}
  BY <1>1 DEF worstCrossed
<1>2. CASE crossed # {}
  <2>1. crossed \in SUBSET Nat /\ 0 \notin crossed
    BY ThresholdsAssumption
  <2>2. \E t \in crossed : \A u \in crossed : t <= u
    BY <1>2, <2>1, LeastExists
  <2>3. worstCrossed(pct) = CHOOSE t \in crossed : \A u \in crossed : t <= u
    BY <1>2 DEF worstCrossed
  <2>4. worstCrossed(pct) \in crossed /\ \A u \in crossed : worstCrossed(pct) <= u
    BY <2>2, <2>3
  <2> QED
    BY <2>1, <2>4
<1> QED
  BY <1>1, <1>2

(* Before the first check, no alert is on. *)
LEMMA MountInitIInv == MountInit => MountIInv
BY ThresholdsAssumption DEF MountInit, MountIInv, MountTyped, ArmedUntilSwung

(* A check by what it does: with the worst threshold crossed, an alert is   *)
(* on, ends, or stays as it is.                                             *)
LEMMA CheckCases ==
  ASSUME MountIInv, NEW pct \in 0..MaxFree, checkDisks(pct)
  PROVE  \E cur \in Thresholds \cup {0} :
            /\ cur = worstCrossed(pct) /\ (cur # 0 => pct < cur)
            /\ free' = pct /\ UNCHANGED <<armedFile, traced>>
            /\ low' \in {pct, low} /\ low' <= pct
            /\ swung' \in BOOLEAN
            /\ \/ /\ cur # 0 /\ (armed = 0 \/ cur < armed) /\ armed' = cur
                  /\ ~swung' => cur = traced \/ ~swung
               \/ /\ ~(cur # 0 /\ (armed = 0 \/ cur < armed))
                  /\ armed # 0 /\ pct >= armed + 2 /\ armed' = cur
                  /\ swung' = (swung \/ pct > low + 2)
               \/ /\ ~(cur # 0 /\ (armed = 0 \/ cur < armed))
                  /\ armed = 0 \/ pct < armed + 2
                  /\ armed' = armed /\ (~swung' => ~swung) /\ low' <= low
<1> DEFINE cur == worstCrossed(pct)
           alert == cur # 0 /\ (armed = 0 \/ cur < armed)
<1>1. pct \in Nat /\ low \in Nat /\ swung \in BOOLEAN /\ (armed = 0 \/ armed \in Nat)
  BY ThresholdsAssumption DEF MountIInv, MountTyped
<1>2. cur \in Thresholds \cup {0} /\ (cur # 0 => pct < cur)
  BY <1>1, WorstCrossedIs
<1>3. /\ free' = pct /\ UNCHANGED <<armedFile, traced>>
      /\ armed' = CASE alert -> cur
                    [] ~alert /\ Recovered(pct) -> cur
                    [] OTHER -> armed
      /\ low' = IF pct < low \/ (alert /\ cur = traced) THEN pct ELSE low
      /\ swung' = IF alert /\ cur = traced THEN FALSE ELSE swung \/ pct > low + 2
  BY Zenon DEF checkDisks
<1>4. low' \in {pct, low} /\ low' <= pct /\ (~alert => low' <= low)
  BY <1>1, <1>3
<1>5. /\ swung' \in BOOLEAN /\ (~swung' => (alert /\ cur = traced) \/ ~swung)
      /\ ~alert => swung' = (swung \/ pct > low + 2)
  BY <1>3, Zenon
<1>6. CASE alert
  <2>1. armed' = cur
    BY <1>3, <1>6
  <2> QED
    BY <1>2, <1>3, <1>4, <1>5, <1>6, <2>1
<1>7. CASE ~alert /\ Recovered(pct)
  <2>1. armed' = cur
    BY <1>3, <1>7
  <2>2. armed # 0 /\ pct >= armed + 2
    BY <1>7 DEF Recovered
  <2> QED
    BY <1>2, <1>3, <1>4, <1>5, <1>7, <2>1, <2>2
<1>8. CASE ~alert /\ ~Recovered(pct)
  <2>1. armed' = armed
    BY <1>3, <1>8
  <2>2. armed = 0 \/ pct < armed + 2
    BY <1>1, <1>8 DEF Recovered
  <2> QED
    BY <1>2, <1>3, <1>4, <1>5, <1>8, <2>1, <2>2
<1> QED
  BY <1>6, <1>7, <1>8

(* A check of the disks keeps the invariant, *)
LEMMA CheckDisksKeeps ==
  ASSUME MountIInv, NEW pct \in 0..MaxFree, checkDisks(pct) PROVE MountIInv'
<1>1. PICK cur \in Thresholds \cup {0} :
            /\ cur = worstCrossed(pct) /\ (cur # 0 => pct < cur)
            /\ free' = pct /\ UNCHANGED <<armedFile, traced>>
            /\ low' \in {pct, low} /\ low' <= pct
            /\ swung' \in BOOLEAN
            /\ \/ /\ cur # 0 /\ (armed = 0 \/ cur < armed) /\ armed' = cur
                  /\ ~swung' => cur = traced \/ ~swung
               \/ /\ ~(cur # 0 /\ (armed = 0 \/ cur < armed))
                  /\ armed # 0 /\ pct >= armed + 2 /\ armed' = cur
                  /\ swung' = (swung \/ pct > low + 2)
               \/ /\ ~(cur # 0 /\ (armed = 0 \/ cur < armed))
                  /\ armed = 0 \/ pct < armed + 2
                  /\ armed' = armed /\ (~swung' => ~swung) /\ low' <= low
  BY CheckCases
<1>2. MountTyped'
  BY <1>1 DEF MountIInv, MountTyped
<1>3. /\ armed \in Nat /\ cur \in Nat /\ traced \in Nat /\ low \in Nat /\ pct \in Nat /\ low' \in Nat
      /\ armed' \in Nat /\ traced' = traced
  BY <1>1, <1>2, ThresholdsAssumption DEF MountIInv, MountTyped
<1>4. ArmedUntilSwung'
  <2> SUFFICES ASSUME ~swung' PROVE armed' # 0 /\ armed' <= traced /\ low' < armed'
    BY <1>3 DEF ArmedUntilSwung
  <2>1. CASE /\ cur # 0 /\ (armed = 0 \/ cur < armed) /\ armed' = cur
             /\ ~swung' => cur = traced \/ ~swung
    BY <1>1, <1>3, <2>1 DEF MountIInv, ArmedUntilSwung
  <2>2. CASE armed # 0 /\ pct >= armed + 2 /\ armed' = cur /\ swung' = (swung \/ pct > low + 2)
    <3>1. ~swung /\ ~(pct > low + 2)
      BY <2>2
    <3>2. low < armed
      BY <3>1 DEF MountIInv, ArmedUntilSwung
    <3> QED
      BY <1>3, <2>2, <3>1, <3>2
  <2>3. CASE armed' = armed /\ (~swung' => ~swung) /\ low' <= low
    BY <1>3, <2>3 DEF MountIInv, ArmedUntilSwung
  <2> QED
    BY <1>1, <2>1, <2>2, <2>3
<1> QED
  BY <1>2, <1>4 DEF MountIInv

(* and so does every step.                                                  *)
LEMMA MountStep == MountIInv /\ (MountNext \/ UNCHANGED mountVars) => MountIInv'
<1> SUFFICES ASSUME MountIInv, MountNext \/ UNCHANGED mountVars PROVE MountIInv'
  OBVIOUS
<1>1. CASE SaveMount
  BY <1>1 DEF SaveMount, MountIInv, MountTyped, ArmedUntilSwung
<1>2. CASE RestartMount \/ MountGone
  BY <1>2 DEF RestartMount, MountGone, MountIInv, MountTyped, ArmedUntilSwung
<1>3. CASE UNCHANGED mountVars
  BY <1>3 DEF mountVars, MountIInv, MountTyped, ArmedUntilSwung
<1> QED
  BY <1>1, <1>2, <1>3, CheckDisksKeeps DEF MountNext

(* The invariant of the bots that watch. *)
LEMMA WatchersIInv == WatchersSpec => [](WatchIInv /\ MountIInv)
<1> DEFINE I == WatchIInv /\ MountIInv
<1>1. WatchInit /\ MountInit => I
  BY WatchInitIInv, MountInitIInv
<1>2. /\ I
      /\ [(WatchNext /\ UNCHANGED mountVars) \/ (MountNext /\ UNCHANGED <<clientVars, watchVars>>)]_<<clientVars, watchVars, mountVars>>
      => I'
  BY WatchStep, MountStep
<1> QED
  BY <1>1, <1>2, PTL DEF WatchersSpec

(* The channel knows the level of everything watched, but for messages that *)
(* were lost and states that were.                                          *)
THEOREM AlwaysWatchersTell == WatchersSpec => []WatchersTell
<1>1. WatchIInv /\ MountIInv => WatchersTell
  BY DEF WatchIInv, WatchTyped, MountIInv, MountTyped, WatchersTypeOK, WatchersTell, Level
<1> QED
  BY <1>1, WatchersIInv, PTL

(* The alert for a mount fits the space found at every check, for any set   *)
(* of thresholds, and is not raised again before the space has swung by     *)
(* more than a percent.                                                     *)
THEOREM AlwaysDiskAlertsSteady == WatchersSpec => DiskAlertsSteady
<1> DEFINE N == (WatchNext /\ UNCHANGED mountVars) \/ (MountNext /\ UNCHANGED <<clientVars, watchVars>>)
           Fits == free' # free =>
                     /\ worstCrossed(free') # 0 => armed' # 0 /\ armed' <= worstCrossed(free')
                     /\ armed' # 0 => free' < armed' + 2
           Steady == armed' = traced /\ (armed = 0 \/ armed' < armed) /\ ~swung' => swung
<1>1. ASSUME MountIInv, N PROVE Fits
  <2> SUFFICES ASSUME free' # free PROVE Fits
    OBVIOUS
  <2>1. PICK pct \in 0..MaxFree : checkDisks(pct)
    BY <1>1 DEF mountVars, MountNext, SaveMount, RestartMount, MountGone
  <2>2. PICK cur \in Thresholds \cup {0} :
            /\ cur = worstCrossed(pct) /\ (cur # 0 => pct < cur) /\ free' = pct
            /\ \/ cur # 0 /\ armed' = cur
               \/ /\ ~(cur # 0 /\ (armed = 0 \/ cur < armed))
                  /\ armed' = cur
               \/ /\ ~(cur # 0 /\ (armed = 0 \/ cur < armed))
                  /\ armed = 0 \/ pct < armed + 2
                  /\ armed' = armed
    BY <1>1, <2>1, CheckCases
  <2>3. armed \in Nat /\ cur \in Nat /\ pct \in Nat
    BY <1>1, <2>2, ThresholdsAssumption DEF MountIInv, MountTyped
  <2>4. worstCrossed(free') = cur /\ free' = pct
    BY <2>2
  <2> QED
    BY <2>2, <2>3, <2>4
<1>2. ASSUME MountIInv, MountIInv' PROVE Steady
  <2> SUFFICES ASSUME armed' = traced, armed = 0 \/ armed' < armed, ~swung PROVE FALSE
    OBVIOUS
  <2>1. armed # 0 /\ armed <= traced /\ armed \in Nat /\ traced \in Nat
    BY <1>2, ThresholdsAssumption DEF MountIInv, MountTyped, ArmedUntilSwung
  <2> QED
    BY <2>1
<1>3. MountIInv /\ MountIInv' /\ [N]_<<clientVars, watchVars, mountVars>> => [Fits]_mountVars
  BY <1>1
<1>4. MountIInv /\ MountIInv' => [Steady]_mountVars
  BY <1>2
<1>5. WatchersSpec => [][N]_<<clientVars, watchVars, mountVars>>
  BY PTL DEF WatchersSpec
<1>6. WatchersSpec => [][Fits]_mountVars
  BY <1>3, <1>5, WatchersIInv, PTL
<1>7. WatchersSpec => [][Steady]_mountVars
  BY <1>4, WatchersIInv, PTL
<1> QED
  BY <1>6, <1>7 DEF DiskAlertsSteady, AlertFitsSpace, NoFlapping

-----------------------------------------------------------------------------
(* Reports.                                                                 *)

Times == 0..(Horizon + 2 * Day)

(* A time is so many whole days and a time of the day. *)
LEMMA DayAndHour ==
  ASSUME NEW t \in Nat
  PROVE  t \div Day \in Nat /\ t % Day \in 0..(Day - 1) /\ t = (t \div Day) * Day + (t % Day)
<1>1. t \div Day \in Nat /\ t % Day \in 0..(Day - 1)
  BY DayAssumption
<1>2. PICK q \in Nat, r \in 0..(Day - 1) : q = t \div Day /\ r = t % Day
  BY <1>1
<1>3. t % Day = t - (t \div Day) * Day
  BY DayAssumption
<1>4. q * Day \in Nat
  BY DayAssumption
<1>5. r = t - q * Day
  BY <1>2, <1>3, Zenon
<1>6. t = q * Day + r
  BY <1>4, <1>5, DayAssumption
<1> QED
  BY <1>1, <1>2, <1>6, Zenon

(* Later days lie a day or more apart. *)
LEMMA DaysApart ==
  ASSUME NEW a \in Nat, NEW b \in Nat, a < b
  PROVE  a * Day \in Nat /\ b * Day \in Nat /\ a * Day + Day <= b * Day
<1>1. PICK c \in Nat : b = (a + 1) + c
  <2>1. b - (a + 1) \in Nat /\ b = (a + 1) + (b - (a + 1))
    OBVIOUS
  <2> QED
    BY <2>1
<1>2. ((a + 1) + c) * Day = a * Day + Day + c * Day
  BY DayAssumption
<1>3. a * Day \in Nat /\ c * Day \in Nat
  BY DayAssumption
<1> QED
  BY <1>1, <1>2, <1>3, DayAssumption

(* What lies between a time and the end of the next day is on one of these  *)
(* two days.                                                                *)
LEMMA TodayOrTomorrow ==
  ASSUME NEW t \in Nat, NEW u \in Nat, t < u, u < ((t \div Day) + 2) * Day
  PROVE  u \div Day \in {t \div Day, (t \div Day) + 1}
<1>1. PICK p, q, r, h \in Nat : p = t \div Day /\ q = u \div Day /\ r = t % Day /\ h = u % Day
  BY DayAndHour
<1>2. t = p * Day + r /\ u = q * Day + h /\ r < Day /\ h < Day /\ p * Day \in Nat /\ q * Day \in Nat
  BY <1>1, DayAndHour, DayAssumption
<1>3. ~(q < p)
  <2> SUFFICES ASSUME q < p PROVE FALSE
    OBVIOUS
  <2>1. q * Day + Day <= p * Day
    BY DaysApart
  <2> QED
    BY <1>2, <2>1, DayAssumption
<1>4. ~(p + 1 < q)
  <2> SUFFICES ASSUME p + 1 < q PROVE FALSE
    OBVIOUS
  <2>1. (p + 2) * Day \in Nat /\ (p + 2) * Day <= q * Day
    <3>1. CASE q = p + 2
      BY <1>2, <3>1
    <3>2. CASE p + 2 < q
      BY <3>2, DaysApart, DayAssumption
    <3> QED
      BY <3>1, <3>2
  <2> QED
    BY <1>1, <1>2, <2>1
<1> QED
  BY <1>1, <1>3, <1>4

PostHoursOf(who) == IF who = "tagesschau" THEN PostHours ELSE {PostHour}

(* The next posting time is to come, within two days, and no posting time   *)
(* comes before it.                                                         *)
NextPost(hours, t, u) ==
    /\ u \in Nat /\ t < u /\ u < t + 2 * Day
    /\ \A v \in Nat : t < v /\ v < u => v % Day \notin hours

(* Posting hours are times of the day. *)
LEMMA HoursTyped == PostHours # {} /\ \A h \in PostHours : h \in Nat /\ h < Day
<1>1. PostHours # {} /\ \A h \in PostHours : h \in 0..(Day - 1)
  BY HoursAssumption, Zenon
<1> QED
  BY <1>1, DayAssumption

(* nextDelay of tagesschau. *)
LEMMA NextHourIs == ASSUME NEW t \in Nat PROVE NextPost(PostHours, t, nextHour(t))
<1> DEFINE later == {u \in HoursAround(t) : u > t}
<1>1. PICK p, r \in Nat : p = t \div Day /\ r = t % Day
  BY DayAndHour
<1>2. t = p * Day + r /\ r < Day /\ p * Day \in Nat
  BY <1>1, DayAndHour, DayAssumption
<1>3. (p + 1) * Day = p * Day + Day /\ (p + 2) * Day = p * Day + 2 * Day /\ (p + 0) * Day = p * Day
  BY <1>2, DayAssumption
<1>4. \A d \in 0..1, h \in PostHours : (p + d) * Day + h \in Nat
  <2> SUFFICES ASSUME NEW d \in 0..1, NEW h \in PostHours PROVE (p + d) * Day + h \in Nat
    OBVIOUS
  <2>1. h \in Nat
    BY HoursTyped
  <2> QED
    BY <1>2, <1>3, <2>1, DayAssumption
<1>5. HoursAround(t) = {(p + d) * Day + h : d \in 0..1, h \in PostHours}
  BY <1>1 DEF HoursAround
<1>6. HoursAround(t) \subseteq Nat
  <2> SUFFICES ASSUME NEW u \in HoursAround(t) PROVE u \in Nat
    OBVIOUS
  <2>1. PICK d \in 0..1, h \in PostHours : u = (p + d) * Day + h
    BY <1>5
  <2> QED
    BY <1>4, <2>1, Zenon
<1>7. PICK tomorrow \in later : tomorrow < t + 2 * Day
  <2>1. PICK h \in PostHours : h \in Nat /\ h < Day
    BY HoursTyped, Zenon
  <2>2. (p + 1) * Day + h \in HoursAround(t)
    BY <1>5
  <2>3. (p + 1) * Day + h > t /\ (p + 1) * Day + h < t + 2 * Day
    BY <1>2, <1>3, <2>1, DayAssumption
  <2> QED
    BY <2>2, <2>3
<1>8. later \in SUBSET Nat /\ later # {}
  BY <1>6, <1>7
<1>9. \E u \in later : \A v \in later : u <= v
  BY <1>8, LeastExists
<1>10. PICK u \in Nat : u = nextHour(t) /\ u \in HoursAround(t) /\ u > t /\ \A v \in HoursAround(t) : v > t => u <= v
  BY <1>6, <1>9 DEF nextHour
<1>11. u < t + 2 * Day
  BY <1>7, <1>8, <1>10, DayAssumption
<1>12. u < (p + 2) * Day
  <2>1. PICK d \in 0..1, h \in PostHours : u = (p + d) * Day + h
    BY <1>5, <1>10
  <2>2. h \in Nat /\ h < Day
    BY HoursTyped
  <2> QED
    BY <1>2, <1>3, <2>1, <2>2, DayAssumption
<1>13. ASSUME NEW v \in Nat, t < v, v < u PROVE v % Day \notin PostHours
  <2> SUFFICES ASSUME v % Day \in PostHours PROVE FALSE
    OBVIOUS
  <2>1. v < (p + 2) * Day
    BY <1>2, <1>3, <1>12, <1>13, DayAssumption
  <2>2. PICK d \in 0..1 : v \div Day = p + d
    <3>1. v \div Day \in {p, p + 1}
      BY <1>1, <1>13, <2>1, TodayOrTomorrow
    <3>2. CASE v \div Day = p
      BY <3>2
    <3>3. CASE v \div Day = p + 1
      BY <3>3
    <3> QED
      BY <3>1, <3>2, <3>3
  <2>3. v = (v \div Day) * Day + (v % Day)
    BY DayAndHour
  <2>4. v \in HoursAround(t)
    <3>1. PICK h \in PostHours : h = v % Day
      OBVIOUS
    <3>2. v = (p + d) * Day + h
      BY <2>2, <2>3, <3>1, Zenon
    <3> QED
      BY <1>5, <3>2
  <2> QED
    BY <1>10, <1>13, <2>4
<1> QED
  BY <1>10, <1>11, <1>13 DEF NextPost

(* nextDelay of weatherman. *)
LEMMA NextDayIs == ASSUME NEW t \in Nat PROVE NextPost({PostHour}, t, nextDay(t))
<1>1. PICK p, r \in Nat : p = t \div Day /\ r = t % Day
  BY DayAndHour
<1>2. t = p * Day + r /\ r < Day /\ p * Day \in Nat
  BY <1>1, DayAndHour, DayAssumption
<1>3. (p + 1) * Day = p * Day + Day /\ (p + 2) * Day = p * Day + 2 * Day
  BY <1>2, DayAssumption
<1>4. PostHour \in Nat /\ PostHour < Day
  BY HoursAssumption, DayAssumption
<1>5. PICK u \in Nat : u = nextDay(t) /\ t < u /\ u < t + 2 * Day /\ u < (p + 2) * Day
                       /\ u \in {p * Day + PostHour, p * Day + PostHour + Day}
                       /\ (p * Day + PostHour > t => u = p * Day + PostHour)
  <2>1. nextDay(t) = IF p * Day + PostHour > t THEN p * Day + PostHour ELSE p * Day + PostHour + Day
    BY <1>1 DEF nextDay
  <2>2. CASE p * Day + PostHour > t
    BY <1>2, <1>3, <1>4, <2>1, <2>2, DayAssumption
  <2>3. CASE ~(p * Day + PostHour > t)
    BY <1>2, <1>3, <1>4, <2>1, <2>3, DayAssumption
  <2> QED
    BY <2>2, <2>3
<1>6. ASSUME NEW v \in Nat, t < v, v < u PROVE v % Day # PostHour
  <2> SUFFICES ASSUME v % Day = PostHour PROVE FALSE
    OBVIOUS
  <2>1. v < (p + 2) * Day
    BY <1>2, <1>3, <1>5, <1>6, DayAssumption
  <2>2. v \div Day \in {p, p + 1}
    BY <1>1, <1>6, <2>1, TodayOrTomorrow
  <2>3. v = (v \div Day) * Day + PostHour
    BY DayAndHour, Zenon
  <2>4. v = p * Day + PostHour \/ v = p * Day + Day + PostHour
    BY <1>3, <2>2, <2>3
  <2> QED
    BY <1>2, <1>4, <1>5, <1>6, <2>4, DayAssumption
<1> QED
  BY <1>5, <1>6 DEF NextPost

ReportTyped ==
    /\ reporter \in {"tagesschau", "weatherman"}
    /\ now \in 0..Horizon /\ until \in Times
    /\ stage \in {"plan", "sleep", "fetch", "post"}
    /\ left \in 0..(1 + Stories) /\ (left > 0 <=> stage = "post")
    /\ reports \in [Times -> 0..1]
    /\ kept \subseteq Times /\ missed \subseteq Times

(* A report is begun at its posting time or later, and not again: the       *)
(* posting time slept to, or being worked on with the first line to come,   *)
(* has none.                                                                *)
BegunSound ==
    /\ \A t \in Times : reports[t] > 0 => t <= now
    /\ stage \in {"sleep", "fetch"} => reports[until] = 0
    /\ stage = "post" /\ (reporter = "weatherman" \/ left = 1 + Stories) => reports[until] = 0
    /\ stage \in {"fetch", "post"} => until <= now
    /\ stage = "post" /\ reporter = "weatherman" => left = 1

(* Every posting time so far was kept or missed, or is the one slept to;    *)
(* and the one slept to is the next.                                        *)
HoursSound ==
    /\ \A t \in 1..now : IsPostTime(t) => t \in kept \cup missed \/ (stage = "sleep" /\ t = until)
    /\ stage = "sleep" => \A t \in Nat : now < t /\ t < until => ~IsPostTime(t)

ReportIInv == ReportTyped /\ BegunSound /\ HoursSound

(* The times to come are far enough from the horizon. *)
LEMMA TimesAhead ==
  /\ Horizon + 2 * Day \in Nat /\ 0..Horizon \subseteq Times /\ Times \subseteq Nat
  /\ \A t \in 0..Horizon, u \in Nat : u < t + 2 * Day => u \in Times
BY DayAssumption DEF Times

(* The process starts on some day, and what came before is not its business. *)
LEMMA ReportInitIInv == ReportInit => ReportIInv
<1> SUFFICES ASSUME ReportInit PROVE ReportIInv
  OBVIOUS
<1>1. now \in 0..Horizon /\ 0 \in Times /\ missed \subseteq Times
  BY TimesAhead, DayAssumption DEF ReportInit
<1>2. reports \in [Times -> 0..1] /\ \A t \in Times : reports[t] = 0
  BY DEF ReportInit, Times
<1>3. left \in 0..(1 + Stories) /\ ~(left > 0)
  BY DayAssumption DEF ReportInit
<1>4. ReportTyped
  BY <1>1, <1>2, <1>3 DEF ReportInit, ReportTyped
<1>5. BegunSound
  <2>1. stage = "plan"
    BY DEF ReportInit
  <2> QED
    BY <1>2, <2>1 DEF BegunSound
<1>6. HoursSound
  BY <1>1 DEF ReportInit, HoursSound
<1> QED
  BY <1>4, <1>5, <1>6 DEF ReportIInv

(* Time passes: the posting time that comes is missed, slept through to, or *)
(* none.                                                                    *)
LEMMA TickKeeps == ASSUME ReportIInv, Tick PROVE ReportIInv'
<1>1. /\ now < Horizon /\ now' = now + 1
      /\ missed' = IF IsPostTime(now') /\ (stage # "sleep" \/ until <= now) THEN missed \cup {now'} ELSE missed
      /\ UNCHANGED <<reporter, stage, until, left, reports, kept>>
  BY DEF Tick
<1>2. now \in Nat /\ now' \in 0..Horizon /\ now' \in Times /\ until \in Nat
  BY <1>1, TimesAhead, DayAssumption DEF ReportIInv, ReportTyped
<1>3. missed \subseteq missed' /\ missed' \subseteq Times
  BY <1>1, <1>2 DEF ReportIInv, ReportTyped
<1>4. ReportTyped'
  BY <1>1, <1>2, <1>3 DEF ReportIInv, ReportTyped
<1>5. BegunSound'
  BY <1>1, <1>2, TimesAhead DEF ReportIInv, BegunSound
<1>6. ASSUME NEW t \in 1..now', IsPostTime(t)
      PROVE  t \in kept \cup missed' \/ (stage = "sleep" /\ t = until)
  <2>1. CASE t \in 1..now
    BY <1>3, <1>6, <2>1 DEF ReportIInv, HoursSound
  <2>2. CASE t = now'
    <3>1. CASE stage # "sleep" \/ until <= now
      BY <1>1, <1>6, <2>2, <3>1
    <3>2. CASE stage = "sleep" /\ now < until
      <4>1. ~(t < until)
        BY <1>1, <1>2, <1>6, <2>2, <3>2 DEF ReportIInv, HoursSound
      <4> QED
        BY <1>1, <1>2, <2>2, <3>2, <4>1
    <3> QED
      BY <1>2, <3>1, <3>2
  <2> QED
    BY <1>1, <1>2, <2>1, <2>2
<1>7. \A t : IsPostTime(t)' = IsPostTime(t)
  BY <1>1 DEF IsPostTime
<1>8. HoursSound'
  BY <1>1, <1>2, <1>6, <1>7 DEF ReportIInv, HoursSound
<1> QED
  BY <1>4, <1>5, <1>8 DEF ReportIInv

(* The bot goes to sleep until the next posting time: no report of it has   *)
(* begun, and no other comes before.                                        *)
LEMMA PlanKeeps == ASSUME ReportIInv, Plan PROVE ReportIInv'
<1>1. /\ stage = "plan" /\ stage' = "sleep" /\ UNCHANGED <<reporter, now, left, reports, kept, missed>>
      /\ until' = IF reporter = "tagesschau" THEN nextHour(now) ELSE nextDay(now)
  BY DEF Plan
<1>2. now \in Nat /\ now \in 0..Horizon
  BY TimesAhead DEF ReportIInv, ReportTyped
<1>3. NextPost(PostHoursOf(reporter), now, until')
  <2>1. CASE reporter = "tagesschau"
    BY <1>1, <1>2, <2>1, NextHourIs DEF PostHoursOf
  <2>2. CASE reporter # "tagesschau"
    BY <1>1, <1>2, <2>2, NextDayIs DEF PostHoursOf
  <2> QED
    BY <2>1, <2>2
<1>4. until' \in Nat /\ now < until' /\ until' \in Times
  BY <1>2, <1>3, TimesAhead DEF NextPost
<1>5. \A t \in Nat : now < t /\ t < until' => ~IsPostTime(t)
  BY <1>3 DEF NextPost, IsPostTime, PostHoursOf
<1>6. \A t : IsPostTime(t)' = IsPostTime(t)
  BY <1>1 DEF IsPostTime
<1>7. ReportTyped'
  BY <1>1, <1>4 DEF ReportIInv, ReportTyped
<1>8. reports[until'] = 0
  BY <1>2, <1>4 DEF ReportIInv, ReportTyped, BegunSound
<1>9. BegunSound'
  BY <1>1, <1>8 DEF ReportIInv, BegunSound
<1>10. HoursSound'
  BY <1>1, <1>5, <1>6 DEF ReportIInv, HoursSound
<1> QED
  BY <1>7, <1>9, <1>10 DEF ReportIInv

(* The bot wakes up for a posting time, and fetches what it reports.        *)
LEMMA WakeFetchKeeps ==
  ASSUME ReportIInv, Wake \/ \E ok \in BOOLEAN : Fetch(ok) PROVE ReportIInv'
<1>1. CASE Wake
  <2>1. /\ stage = "sleep" /\ now >= until /\ stage' = "fetch" /\ kept' = kept \cup {until}
        /\ UNCHANGED <<reporter, now, until, left, reports, missed>>
    BY <1>1 DEF Wake
  <2>2. now \in Nat /\ until \in Nat /\ until <= now
    BY <2>1, TimesAhead DEF ReportIInv, ReportTyped
  <2>3. ReportTyped' /\ BegunSound'
    BY <2>1, <2>2 DEF ReportIInv, ReportTyped, BegunSound
  <2>4. \A t : IsPostTime(t)' = IsPostTime(t)
    BY <2>1 DEF IsPostTime
  <2>5. HoursSound'
    BY <2>1, <2>4 DEF ReportIInv, HoursSound
  <2> QED
    BY <2>3, <2>5 DEF ReportIInv
<1>2. ASSUME NEW ok \in BOOLEAN, Fetch(ok) PROVE ReportIInv'
  <2>1. /\ stage = "fetch" /\ stage' = IF ok THEN "post" ELSE "plan"
        /\ left' = CASE ~ok -> 0
                     [] ok /\ reporter = "tagesschau" -> 1 + Stories
                     [] OTHER -> 1
        /\ UNCHANGED <<reporter, now, until, reports, kept, missed>>
    BY <1>2, Zenon DEF Fetch
  <2>2. /\ left' \in 0..(1 + Stories) /\ (left' > 0 <=> stage' = "post")
        /\ stage' = "post" /\ reporter = "weatherman" => left' = 1
        /\ stage' \in {"plan", "post"}
    <3>1. CASE ~ok
      BY <2>1, <3>1, DayAssumption
    <3>2. CASE ok /\ reporter = "tagesschau"
      <4>1. stage' = "post" /\ left' = 1 + Stories
        BY <2>1, <3>2
      <4> QED
        BY <3>2, <4>1, DayAssumption
    <3>3. CASE ok /\ reporter # "tagesschau"
      <4>1. stage' = "post" /\ left' = 1
        BY <2>1, <3>3
      <4> QED
        BY <3>3, <4>1, DayAssumption
    <3> QED
      BY <3>1, <3>2, <3>3
  <2>3. ReportTyped' /\ BegunSound'
    BY <2>1, <2>2 DEF ReportIInv, ReportTyped, BegunSound
  <2>4. \A t : IsPostTime(t)' = IsPostTime(t)
    BY <2>1 DEF IsPostTime
  <2>5. HoursSound'
    BY <2>1, <2>2, <2>4 DEF ReportIInv, HoursSound
  <2> QED
    BY <2>3, <2>5 DEF ReportIInv
<1> QED
  BY <1>1, <1>2

(* One line: the first begins the report, and there is no first line again. *)
LEMMA PostOnceKeeps ==
  ASSUME ReportIInv, NEW ok \in BOOLEAN, postOnce(ok) PROVE ReportIInv'
<1> DEFINE first == ok /\ (reporter = "weatherman" \/ left = 1 + Stories)
<1>1. /\ stage = "post" /\ left' = (IF ok THEN left - 1 ELSE 0)
      /\ stage' = (IF left' = 0 THEN "plan" ELSE "post")
      /\ reports' = (IF first THEN [reports EXCEPT ![until] = @ + 1] ELSE reports)
      /\ UNCHANGED <<reporter, now, until, kept, missed>>
  BY DEF postOnce
<1>2. /\ left \in 1..(1 + Stories) /\ until \in Times /\ until <= now /\ reports \in [Times -> 0..1]
      /\ reporter = "weatherman" => left = 1
      /\ first => reports[until] = 0
  BY <1>1, DayAssumption DEF ReportIInv, ReportTyped, BegunSound
<1>3. left' \in 0..Stories /\ (left' > 0 <=> stage' = "post") /\ stage' \in {"plan", "post"}
  <2>1. CASE ok
    BY <1>1, <1>2, <2>1, DayAssumption
  <2>2. CASE ~ok
    BY <1>1, <2>2, DayAssumption
  <2> QED
    BY <2>1, <2>2
<1>4. left' # 1 + Stories /\ left' \in 0..(1 + Stories)
  BY <1>3, DayAssumption
<1>5. stage' = "post" => reporter # "weatherman"
  <2>1. reporter = "weatherman" => left' = 0
    BY <1>1, <1>2
  <2> QED
    BY <1>1, <2>1
<1>6. reports' \in [Times -> 0..1] /\ \A t \in Times : reports'[t] > 0 => t <= now
  <2>1. CASE first
    <3>1. reports' = [reports EXCEPT ![until] = @ + 1]
      BY <1>1, <2>1
    <3>2. reports'[until] = 1 /\ \A t \in Times \ {until} : reports'[t] = reports[t]
      BY <1>2, <2>1, <3>1
    <3>3. reports' \in [Times -> 0..1]
      BY <1>2, <2>1, <3>1
    <3> QED
      BY <1>2, <3>2, <3>3 DEF ReportIInv, BegunSound
  <2>2. CASE ~first
    <3>1. reports' = reports
      BY <1>1, <2>2
    <3> QED
      BY <1>2, <3>1 DEF ReportIInv, BegunSound
  <2> QED
    BY <2>1, <2>2
<1>7. ReportTyped'
  BY <1>1, <1>3, <1>4, <1>6 DEF ReportIInv, ReportTyped
<1>8. BegunSound'
  BY <1>1, <1>2, <1>3, <1>4, <1>5, <1>6 DEF BegunSound
<1>9. \A t : IsPostTime(t)' = IsPostTime(t)
  BY <1>1 DEF IsPostTime
<1>10. HoursSound'
  BY <1>1, <1>3, <1>9 DEF ReportIInv, HoursSound
<1> QED
  BY <1>7, <1>8, <1>10 DEF ReportIInv

(* One report for every posting time, and none slept through.               *)
THEOREM AlwaysReportsInTime == ReportSpec => []ReportsInTime
<1>1. ClientInit /\ ReportInit => ReportIInv
  BY ReportInitIInv
<1>2. ReportIInv /\ [ReportNext]_<<clientVars, reportVars>> => ReportIInv'
  <2> SUFFICES ASSUME ReportIInv, [ReportNext]_<<clientVars, reportVars>> PROVE ReportIInv'
    OBVIOUS
  <2>1. CASE UNCHANGED reportVars
    BY <2>1 DEF reportVars, ReportIInv, ReportTyped, BegunSound, HoursSound, IsPostTime
  <2> QED
    BY <2>1, TickKeeps, PlanKeeps, WakeFetchKeeps, PostOnceKeeps DEF ReportNext
<1>3. ReportIInv => ReportsInTime
  <2> SUFFICES ASSUME ReportIInv PROVE ReportsInTime
    OBVIOUS
  <2>1. ReportsTypeOK
    BY DEF ReportIInv, ReportTyped, ReportsTypeOK, Times
  <2>2. ReportOnce
    BY DEF ReportIInv, ReportTyped, ReportOnce
  <2>3. NothingOverslept
    BY DEF ReportIInv, HoursSound, NothingOverslept
  <2> QED
    BY <2>1, <2>2, <2>3 DEF ReportsInTime
<1> QED
  BY <1>1, <1>2, <1>3, PTL DEF ReportSpec
=============================================================================
