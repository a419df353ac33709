----------------------------- MODULE MakhorFeeds -----------------------------
(***************************************************************************)
(* RSS import in makhor (tools/makhor): the poller goroutine, the "sync    *)
(* now" requests that poll concurrently with it, the tables rss_feeds,     *)
(* rss_items and posts, and the start and shutdown of the server process.  *)
(*                                                                         *)
(* Importing an item is three SQL statements: is there an rss_items row,   *)
(* INSERT the post, INSERT the rss_items row.  Each is a step.  Feed       *)
(* documents are whatever the remote server sends.  last_polled is kept as *)
(* whether the feed is due; rss_poll_log and last_error, which nothing but *)
(* the statistics page reads, are left out.                                *)
(***************************************************************************)
EXTENDS Integers, SequencesExt

CONSTANTS
    Feeds,      \* ids of rss_feeds, never reused
    NoFeed,     \* no feed
    Guids,      \* item guids, or links of items without one
    NoGuid,     \* an item with neither
    Docs,       \* documents a feed may serve: sequences of guids
    Limits,     \* values of max_items_per_poll
    Reqs,       \* request goroutines
    Loop,       \* the poller's goroutine
    MaxPosts    \* bound on the posts table, for model checking

ASSUME ProcsAssumption == Loop \notin Reqs
ASSUME FeedsAssumption == NoFeed \notin Feeds /\ IsFiniteSet(Feeds)
ASSUME DocsAssumption ==
    NoGuid \notin Guids /\ Docs \subseteq Seq(Guids \cup {NoGuid})
ASSUME LimitsAssumption == Limits \subseteq Nat /\ MaxPosts \in Nat

VARIABLES
    feed,       \* table rss_feeds
    items,      \* table rss_items
    posts,      \* posts imported from feeds
    proc,       \* the goroutines that poll
    server,     \* the server process
    disturbed   \* history: did something come between the statements of an import?

vars == <<feed, items, posts, proc, server, disturbed>>

-----------------------------------------------------------------------------
Procs == Reqs \cup {Loop}

FeedRow == [st : {"new", "row", "gone"}, active : BOOLEAN, onView : BOOLEAN,
            due : BOOLEAN, limit : Nat]
ItemRow == [feed : Feeds, guid : Guids, post : Nat]
PostRow == [id : Nat, feed : Feeds, guid : Guids]

(* A goroutine.  feed and limit are of the row as it was when the poll was  *)
(* decided on; doc holds the items still to look at; queue is what is left  *)
(* of the rows pollAll has read.                                            *)
Idle == [pc |-> "idle", queue |-> <<>>, feed |-> NoFeed, limit |-> 0,
         doc |-> <<>>, post |-> 0, imported |-> 0]

Polling(p) == proc[p].pc \in {"fetch", "item", "create", "record", "finish"}

(* Polls have overlapped, a statement has failed or a process has ended.    *)
Disturb(cond) == disturbed' = (disturbed \/ cond)

Alive == server \in {"up", "stopping", "draining"}

(* HasRSSItem. *)
Imported(f, g) == \E i \in items : i.feed = f /\ i.guid = g

(* An id without a row. *)
NoRow(st) == [st |-> st, active |-> FALSE, onView |-> FALSE, due |-> FALSE, limit |-> 0]

(* What a new process starts with: New and Poller.Start. *)
Fresh == [p \in Procs |-> IF p = Loop THEN [Idle EXCEPT !.pc = "start"] ELSE Idle]

Init ==
    /\ feed = [f \in Feeds |-> NoRow("new")]
    /\ items = {}
    /\ posts = {}
    /\ proc = Fresh
    /\ server = "up"
    /\ disturbed = FALSE

-----------------------------------------------------------------------------
(* GetFeedsDueForPolling: the rows pollAll works on. *)
Due(f) ==
    /\ feed[f].st = "row"
    /\ feed[f].active /\ ~feed[f].onView /\ feed[f].due

(* pollAll, at once after Start and whenever the ticker has fired. *)
PollAll ==
    /\ Alive
    /\ proc[Loop].pc \in {"start", "select"}
    /\ \E q \in SetToSeqs({[id |-> f, limit |-> feed[f].limit] : f \in {g \in Feeds : Due(g)}}) :
         proc' = [proc EXCEPT ![Loop] = [Idle EXCEPT !.pc = "next", !.queue = q]]
    /\ UNCHANGED <<feed, items, posts, server, disturbed>>

(* GetFeedsDueForPolling fails. *)
PollAllFails ==
    /\ Alive
    /\ proc[Loop].pc \in {"start", "select"}
    /\ proc' = [proc EXCEPT ![Loop] = [Idle EXCEPT !.pc = "select"]]
    /\ UNCHANGED <<feed, items, posts, server, disturbed>>

(* Goroutine p begins to poll the feed of a row it has read. *)
PollFeed(p, row, rest) ==
    /\ proc' = [proc EXCEPT ![p] =
         [Idle EXCEPT !.pc = "fetch", !.queue = rest, !.feed = row.id, !.limit = row.limit]]
    /\ Disturb(\E q \in Procs \ {p} : Polling(q) /\ proc[q].feed = row.id)

NextFeedOrAgain ==
    /\ Alive
    /\ proc[Loop].pc = "next"
    /\ IF proc[Loop].queue = <<>>
       THEN proc' = [proc EXCEPT ![Loop].pc = "start"] /\ UNCHANGED disturbed
       ELSE PollFeed(Loop, Head(proc[Loop].queue), Tail(proc[Loop].queue))
    /\ UNCHANGED <<feed, items, posts, server>>

(* pollAll's loop over the rows; it does not look at the stop channel. *)
NextFeed ==
    /\ Alive
    /\ proc[Loop].pc = "next"
    /\ IF proc[Loop].queue = <<>>
       THEN proc' = [proc EXCEPT ![Loop].pc = "select"] /\ UNCHANGED disturbed
       ELSE PollFeed(Loop, Head(proc[Loop].queue), Tail(proc[Loop].queue))
    /\ UNCHANGED <<feed, items, posts, server>>

(* The select statement finds the stop channel closed. *)
StopSeen ==
    /\ server = "stopping"
    /\ proc[Loop].pc = "select"
    /\ proc' = [proc EXCEPT ![Loop].pc = "exit"]
    /\ UNCHANGED <<feed, items, posts, server, disturbed>>

(* SyncTagFeed, PollFeedNow: poll this feed now, due or not. *)
PollFeedNow(r, f) ==
    /\ server \in {"up", "stopping"}
    /\ proc[r].pc = "idle"
    /\ feed[f].st = "row"
    /\ PollFeed(r, [id |-> f, limit |-> feed[f].limit], <<>>)
    /\ UNCHANGED <<feed, items, posts, server>>
-----------------------------------------------------------------------------
(* pollFeed: the document arrives, or does not. *)
Fetch(p) ==
    /\ Alive
    /\ proc[p].pc = "fetch"
    /\ \/ \E d \in Docs : proc' = [proc EXCEPT ![p].pc = "item", ![p].doc = d]
       \/ proc' = [proc EXCEPT ![p].pc = "finish"]
    /\ UNCHANGED <<feed, items, posts, server, disturbed>>

(* On to the next item of the document. *)
Continue(p) == [proc EXCEPT ![p].pc = "item", ![p].doc = Tail(@), ![p].post = 0]

(* Skip an item that cannot be identified or was imported before.  When the *)
(* query fails HasRSSItem says no.                                          *)
CheckItem(p) ==
    LET g == Head(proc[p].doc) IN
    /\ Alive
    /\ proc[p].pc = "item"
    /\ proc[p].doc # <<>>
    /\ \/ /\ g = NoGuid \/ Imported(proc[p].feed, g)
          /\ proc' = Continue(p)
          /\ UNCHANGED disturbed
       \/ /\ g # NoGuid
          /\ proc' = [proc EXCEPT ![p].pc = "create"]
          /\ Disturb(Imported(proc[p].feed, g))
    /\ UNCHANGED <<feed, items, posts, server>>

LastItem(p) ==
    /\ Alive
    /\ proc[p].pc = "item"
    /\ proc[p].doc = <<>>
    /\ proc' = [proc EXCEPT ![p].pc = "finish"]
    /\ UNCHANGED <<feed, items, posts, server, disturbed>>

(* CreatePostWithSourceAndTime commits a post and reads it back; when only  *)
(* the read fails the post is there but the item counts as failed.          *)
CreatePost(p) ==
    LET id == Cardinality(posts) + 1 IN
    /\ Alive
    /\ proc[p].pc = "create"
    /\ id <= MaxPosts
    /\ posts' = posts \cup {[id |-> id, feed |-> proc[p].feed, guid |-> Head(proc[p].doc)]}
    /\ \/ /\ proc' = [proc EXCEPT ![p].pc = "record", ![p].post = id]
          /\ UNCHANGED disturbed
       \/ /\ proc' = Continue(p)
          /\ Disturb(TRUE)
    /\ UNCHANGED <<feed, items, server>>

CreatePostErrorIgnored(p) ==
    /\ Alive
    /\ proc[p].pc = "create"
    /\ proc' = [proc EXCEPT ![p].pc = "record"]
    /\ UNCHANGED <<feed, items, posts, server, disturbed>>

(* The post cannot be created: the poll goes on with the next item. *)
CreatePostFails(p) ==
    /\ Alive
    /\ proc[p].pc = "create"
    /\ proc' = Continue(p)
    /\ UNCHANGED <<feed, items, posts, server, disturbed>>

(* Has the poll imported as many items as it may?  n counts this one. *)
Full(limit, n) == limit > 0 /\ n >= limit

(* CreateRSSItem: the INSERT, refused for a second row of the same item     *)
(* (UNIQUE), and perhaps for a feed that is gone; its error is dropped.     *)
CreateRSSItem(p) ==
    LET n == proc[p].imported + 1 IN
    /\ Alive
    /\ proc[p].pc = "record"
    /\ \/ /\ ~Imported(proc[p].feed, Head(proc[p].doc))
          /\ items' = items \cup
               {[feed |-> proc[p].feed, guid |-> Head(proc[p].doc), post |-> proc[p].post]}
          /\ UNCHANGED disturbed
       \/ /\ UNCHANGED items
          /\ Disturb(~Imported(proc[p].feed, Head(proc[p].doc)))
    /\ proc' = [Continue(p) EXCEPT ![p].imported = n,
                                   ![p].pc = IF Full(proc[p].limit, n) THEN "finish" ELSE "item"]
    /\ UNCHANGED <<feed, posts, server>>

(* UpdateFeedPolled or UpdateFeedError; back to pollAll, or to the client. *)
Finished(p) ==
    [proc EXCEPT ![p] = IF p = Loop THEN [Idle EXCEPT !.pc = "next", !.queue = proc[p].queue]
                                    ELSE Idle]

StillDueAfterPoll(p) ==
    /\ Alive
    /\ proc[p].pc = "finish"
    /\ proc' = Finished(p)
    /\ UNCHANGED <<feed, items, posts, server, disturbed>>

UpdateFeedPolled(p) ==
    /\ Alive
    /\ proc[p].pc = "finish"
    /\ feed' = [feed EXCEPT ![proc[p].feed].due = FALSE]
    /\ proc' = Finished(p)
    /\ UNCHANGED <<items, posts, server, disturbed>>

(* The UPDATE fails; pollFeed's callers do not notice. *)
UpdateFeedFails(p) ==
    /\ Alive
    /\ proc[p].pc = "finish"
    /\ proc' = Finished(p)
    /\ UNCHANGED <<feed, items, posts, server, disturbed>>
-----------------------------------------------------------------------------
(* AddTagFeed and the API: a new row is due at once, and its limit is not 0.*)
CreateRSSFeed(f) ==
    /\ Alive
    /\ feed[f].st = "new"
    /\ \E v \in BOOLEAN, l \in Limits \ {0} :
         feed' = [feed EXCEPT ![f] =
           [st |-> "row", active |-> TRUE, onView |-> v, due |-> TRUE, limit |-> l]]
    /\ UNCHANGED <<items, posts, proc, server, disturbed>>

(* UpdateTagFeed and UpdateFeedSubmit; the former lets the limit be 0. *)
UpdateRSSFeed(f) ==
    /\ Alive
    /\ feed[f].st = "row"
    /\ \E a, v \in BOOLEAN, l \in Limits :
         feed' = [feed EXCEPT ![f].active = a, ![f].onView = v, ![f].limit = l]
    /\ UNCHANGED <<items, posts, proc, server, disturbed>>

(* DeleteRSSFeed, also by DeleteTag.  ON DELETE CASCADE works on the        *)
(* connections that have foreign keys switched on.                          *)
DeleteRSSFeed(f) ==
    /\ Alive
    /\ feed[f].st = "row"
    /\ feed' = [feed EXCEPT ![f] = NoRow("gone")]
    /\ items' \in {items, {i \in items : i.feed # f}}
    /\ Disturb(\E p \in Procs :
                  \/ Polling(p) /\ proc[p].feed = f
                  \/ \E k \in DOMAIN proc[p].queue : proc[p].queue[k].id = f)
    /\ UNCHANGED <<posts, proc, server>>

(* interval_minutes have passed since the feed was polled. *)
BecomeDue(f) ==
    /\ feed[f].st = "row"
    /\ ~feed[f].due
    /\ feed' = [feed EXCEPT ![f].due = TRUE]
    /\ UNCHANGED <<items, posts, proc, server, disturbed>>
-----------------------------------------------------------------------------
(* SIGTERM: the signal goroutine calls Poller.Stop, which closes the stop   *)
(* channel and waits for the poller.                                        *)
Signal ==
    /\ server = "up"
    /\ server' = "stopping"
    /\ UNCHANGED <<feed, items, posts, proc, disturbed>>

(* Stop returns and server.Shutdown begins: no new connections. *)
StopReturns ==
    /\ server = "stopping"
    /\ proc[Loop].pc = "exit"
    /\ server' = "draining"
    /\ UNCHANGED <<feed, items, posts, proc, disturbed>>

(* The process ends: its goroutines are cut off where they are. *)
Exit ==
    /\ server' = "down"
    /\ proc' = [p \in Procs |-> Idle]
    /\ Disturb(\E p \in Procs : proc[p].pc = "record")
    /\ UNCHANGED <<feed, items, posts>>

(* ListenAndServe returns as soon as Shutdown has begun, and main with it;  *)
(* nothing waits for the requests still being served.                       *)
MainReturns == server = "draining" /\ Exit

(* The process is killed, or the machine goes down. *)
Kill == Alive /\ Exit

(* The next process; an import that was cut off is not taken up again. *)
Start ==
    /\ ~Alive
    /\ server' = "up"
    /\ proc' = Fresh
    /\ UNCHANGED <<feed, items, posts, disturbed>>

ImportStep(p) ==
    \/ Fetch(p) \/ CheckItem(p) \/ LastItem(p)
    \/ CreatePost(p) \/ CreatePostFails(p) \/ CreateRSSItem(p)
    \/ UpdateFeedPolled(p) \/ UpdateFeedFails(p)

LoopStep == PollAll \/ PollAllFails \/ NextFeed \/ StopSeen \/ ImportStep(Loop)

Next ==
    \/ LoopStep
    \/ \E r \in Reqs : ImportStep(r) \/ \E f \in Feeds : PollFeedNow(r, f)
    \/ \E f \in Feeds : CreateRSSFeed(f) \/ UpdateRSSFeed(f) \/ DeleteRSSFeed(f) \/ BecomeDue(f)
    \/ Signal \/ StopReturns \/ MainReturns \/ Kill \/ Start

(* The poller's goroutine runs on: a fetch ends, at the latest by the       *)
(* client's 30 second timeout.  select chooses at random among the channels *)
(* that are ready, and the database does not fail for ever.                 *)
Fairness ==
    /\ WF_vars(LoopStep)
    /\ SF_vars(StopSeen)
    /\ WF_vars(StopReturns) /\ WF_vars(MainReturns)
    /\ SF_vars(PollAll)
    /\ \A f \in Feeds : SF_vars(proc[Loop].feed = f /\ UpdateFeedPolled(Loop))

Spec == Init /\ [][Next]_vars
FairSpec == Spec /\ Fairness
-----------------------------------------------------------------------------
(* Every variable has its type. *)
TypeOK ==
    /\ feed \in [Feeds -> FeedRow]
    /\ items \subseteq ItemRow
    /\ posts \subseteq PostRow
    /\ server \in {"up", "stopping", "draining", "down"}
    /\ disturbed \in BOOLEAN
    /\ \A p \in Procs :
        /\ proc[p].pc \in {"idle", "start", "next", "select", "exit",
                           "fetch", "item", "create", "record", "finish"}
        /\ Polling(p) => proc[p].feed \in Feeds /\ proc[p].limit \in Nat
        /\ proc[p].doc \in Seq(Guids \cup {NoGuid})

(* An rss_items row names a post that was imported from that very item:     *)
(* "already imported" is never said of an item nobody can read, wherever    *)
(* the poll was cut off.                                                    *)
ItemsHavePosts ==
    \A i \in items : [id |-> i.post, feed |-> i.feed, guid |-> i.guid] \in posts

(* One post per item. *)
ImportedOnce ==
    \A a, b \in posts : a.feed = b.feed /\ a.guid = b.guid => a = b

(* As long as polls of a feed do not overlap, no statement of an import     *)
(* fails and no process ends between the two INSERTs, an item becomes one   *)
(* post, also when the document lists it twice, across polls and restarts.  *)
ImportedOnceUndisturbed == ~disturbed => ImportedOnce

(* max_items_per_poll bounds what one poll imports, 0 meaning no bound.     *)
PollLimited ==
    \A p \in Procs : proc[p].limit > 0 => proc[p].imported <= proc[p].limit

(* SIGTERM ends the process: whatever feeds are due, fail or are added, the *)
(* poller comes back to its select and sees the closed channel, Poller.Stop *)
(* returns and main goes on.                                                *)
StopTerminates == server = "stopping" ~> ~Alive

(* No feed starves: a feed that is due is polled, or is switched off, or    *)
(* the server stops, however other feeds fail.                              *)
FeedsArePolled ==
    \A f \in Feeds : (Due(f) /\ server = "up") ~> (~Due(f) \/ server # "up")

-----------------------------------------------------------------------------
(* The record of imports is true through overlapping polls, failures and    *)
(* ends of the process: recorded items have their post, an undisturbed item *)
(* one post only, and a poll stays within its limit.                        *)
ImportsTrue ==
    /\ TypeOK
    /\ ItemsHavePosts
    /\ ImportedOnceUndisturbed
    /\ PollLimited
==============================================================================
