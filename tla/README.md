# TLA+ models of hefe3

hefe3 is a NixOS monorepo. Most of it is declarative configuration; the
programs it keeps are `tools/makhor` (a link aggregator), `tools/status-board`
(a fleet dashboard), `tools/sshrouter`, `ops/pkgs/nntpd` (a news server), seven
IRC bots under `ops/pkgs`, and some personal projects, among them the
intercepting proxy `hitm`. This directory holds TLA+ models of the programs
that keep state, TLC configurations that check them on small instances, and
TLAPS proofs.

## Inventory

### makhor

A Go web server over one SQLite database. Every HTTP request is a goroutine;
beside them run the session-cache sweeper, the rate limiter's sweeper, the
hourly clean-up of expired rows, the RSS poller and, on demand, the separate
process `makhor-admin`. They interact through the database (a pool of
connections; most handlers are sequences of separate statements without a
transaction) and through two maps in memory, each under a mutex.

| Part | State | Operations | What is hard | What makes it correct |
|---|---|---|---|---|
| Sessions (`middleware.go`, `users.go`) | `sessions`, `users.is_banned`, `users.is_admin`, the session cache | the Auth middleware, login's last step, logout, ban, unban, clean-up, `makhor-admin` | the cache is never invalidated, and is filled from reads made earlier | a request acts as its own account; bans, logouts and demotions take effect within a bound |
| Login links, address changes (`auth.go`, `users.go`) | `login_tokens`, `email_change_tokens`, `users.email` | ask for a link, open it, ask for a change, confirm it | two requests with one link; checks made long before the write; times stored in local time | links are single-use and expire, addresses stay unique |
| Accounts, invites (`auth.go`, `invites.go`) | `users`, `invites` | register, create an invite, `-create-admin` | check-then-act over four statements, errors dropped | names and addresses unique, invites and inviters agree, the invite tree is a tree |
| Votes (`votes.go`) | `votes`, `score` columns | toggle | a deferred transaction that reads before it writes, crashes, busy errors | the score is the number of votes; the toggle is atomic |
| Rate limiter (`middleware.go`) | request times per address | `Allow`, `cleanup` | window boundaries, a full map | limits hold, memory is bounded, nobody is refused without cause |
| RSS import (`poller.go`, `rss.go`) | `rss_feeds`, `rss_items`, `posts` | poll, sync now, edit and delete feeds | polls overlap, statements fail, the process ends in between | one post per item, the limit per poll, no feed starves |
| Start and shutdown (`main.go`) | the goroutines | signal, `Poller.Stop`, `Shutdown` | who waits for whom | shutdown ends, and does not cut requests off |
| Tags (`tags.go`, `posts.go`) | `tags`, `tag_admins`, `post_tags`, `rss_feeds` | create, delete, appoint, remove from a post, publish, list | checks and writes are separate statements; deletion touches five tables | a deleted tag leaves nothing behind, listings and counts agree, authority comes from above |
| Collections (`collections.go`) | `collections`, `collection_tags` | create, save, delete, show | one statement per tag, no transaction, foreign keys on one connection only | a page shows what its owner chose |
| Search (`search.go`) | `posts_fts` and its triggers | setup, triggers, search | setup is interrupted and never repaired | a search finds what is there |
| Comments (`comments.go`) | the comment tree | write, delete, delete a thread, blur, show | threads deleted row by row, parents unchecked | pages can be read, deletions are complete |
| Hats, moderation log (`hats.go`, `admin.go`, `modlog.go`) | `hats`, `moderation_log`, the hat of a post | grant, edit, revoke, reactivate, publish under | verified before the insert, logged after the grant | nobody speaks under another's hat |
| Revisions (`posts.go`) | `posts`, `post_revisions` | edit | edits from stale reads | no text that was shown is lost but for named races |
| Logs, statistics, backup, JSON API, generated feeds, mail, images | tables and files of their own | single statements, or reads | little | *not modelled* |

### The other programs

| Part | State | Operations | What is hard | What makes it correct |
|---|---|---|---|---|
| nntpd (`nntpd.go`) | articles by group and by message id, the spool directory, a cursor per connection | GROUP, LISTGROUP, NEXT, LAST, ARTICLE, OVER, POST, start | readers look at a group outside the lock; file errors are only logged; a crash within a cross-post | nothing acknowledged is lost, the index is exact, readers never follow a number to nothing |
| status-board, collecting (`main.go`) | the cached round, the previous counters of every VM, a mutex per process and a semaphore per round | background round, page, summary, event stream | requests collect too when the cache is old; machines reboot and time out | one bounded round at a time, no client goes back in time, rates are real |

| status-board, report (`main.go`, `backupsizes.go`, `kernelorg.go`) | repository sizes, kernel releases, disk samples, each with a file | walk, fetch, restart, compute a page | roll-ups over shared and missing repositories, files cut off by a restart | a page says what was found last |
| IRC bots (`ops/pkgs/*/main.go`) | the connection and `joined`, what was announced, a state file | connect, join, read, post, poll, save | the connection dies between any two steps; a state that moves on without the message | news once, the channel knows what the bot knows, no report overslept |
| hitm (`main.go`) | flows in a map and a store, held requests, certificate files, event streams | proxy, hold, forward, drop, restore, handshake, stream | channels without a buffer, a lock held over a send, ids taken before the counter is restored | what is sent is what was decided, flows are not replaced, certificates fit |
| sshrouter (`main.go`) | a channel's four forwarding goroutines | route, forward data and requests, close | who waits for whom; unread windows | output complete, a session ends |

**ircc** is an IRC client in OCaml, **nntpc** a terminal news reader;
**vokobe** and **vokobe2** are site generators.

The components and the hazards of the code, each at its line, are listed in
`PROJECT.json`.

## Modules

| Module | Models | Composed of / used by |
|---|---|---|
| `MakhorSessions` | Auth middleware, session cache, bans, logout | `MakhorSessionsProofs` |
| `MakhorLogin` | login and address-change links | its last step is `CreateSession` of `MakhorSessions`; `MakhorLoginProofs` |
| `MakhorAccounts` | registration and invites | `MakhorAccountsProofs` |
| `MakhorVotes` | `toggleVote` on SQLite | `MakhorContentProofs`; implements `MakhorVoteCount` |
| `MakhorVoteCount` | what a vote button promises | |
| `MakhorRateLimiter` | `RateLimiter` | |
| `MakhorFeeds` | RSS poller, sync requests, feed tables, process life cycle | `MakhorDiscussionProofs` |
| `MakhorTags` | tags, tag admins, feeds of a tag, listings of posts | publishing is `CreatePost`; the import of a feed is in `MakhorFeeds`; `MakhorContentProofs` |
| `MakhorCollections` | collections and their pages | `MakhorContentProofs` |
| `MakhorSearch` | the full-text index | `MakhorContentProofs` |
| `MakhorComments` | comment threads | |
| `MakhorHats` | hats and their log entries | `MakhorDiscussionProofs` |
| `MakhorRevisions` | edits of a post | `MakhorDiscussionProofs` |
| `Nntpd` | the news server: store, spool, sessions | `ServicesProofs` |
| `StatusBoard` | collecting and serving in the dashboard | `ServicesProofs` |
| `StatusReport` | what a page of the dashboard says | `ServicesProofs` |
| `IrcClient` | the client the bots have a copy of | extended by the next three; `BotsProofs` |
| `IrcAnnouncers` | xkcdbot, dwdwarn | composes with `IrcClient`; `BotsProofs` |
| `IrcWatchers` | diskwatch, uptimebot, syswatch | composes with `IrcClient`; `BotsProofs` |
| `IrcReports` | tagesschau, weatherman | composes with `IrcClient`; `BotsProofs` |
| `HitmFlows`, `HitmIntercept`, `HitmCerts`, `HitmEvents` | hitm | `ProxiesProofs` |
| `SshRouter` | routes, and one channel | `ProxiesProofs` |

`MC...` modules add constants and symmetry for TLC, and put parts that share
no state into one run: a variable `part` (or `bot`) chosen in the initial state
says which of them a behaviour is about, and the others stand still. Where
parts have symmetric actors they use the same model values for them, so that
the permutations of one small set are a symmetry of every part.

`...Proofs` modules extend the modules they are about and hold the theorems;
one of them holds those of several small modules of one program.

### How state and actions correspond to the code

Everywhere: an SQL table is a set of rows (or a function from ids), one SQL
statement or one critical section of a mutex is one atomic action, and a
handler is a program counter `pc` in `req` (or `tx`, `proc`) with what the
handler remembers between its statements. Random tokens and codes never
repeat. A statement may fail wherever the code has an error path; a restart
loses memory and keeps tables.

* **MakhorSessions.** `Arrive` is the middleware up to `SessionCache.Get`;
  `SelectSession`, `PurgeSession`, `LoadUser` are the statements of
  `ValidateSession`; `CacheSet` is `SessionCache.Set`. The handler that runs
  then is one of `ServePage`, `CreateSession`, `Logout`, `BanUser`,
  `UnbanUser`, with the permission checks of the handlers, made on the copy of
  the user in the request context. `AdminCLI` is the `makhor-admin` process.
  `lastValid`, `lastUnbanned`, `lastAdmin`, `owner` are history.
  Time is in whole seconds. The SQLite driver stores a `time.Time` in the
  server's zone and SQL compares strings, hence `Stored` and `ZoneOffset`.
* **MakhorLogin.** `LoginSubmit`, `CreateLoginToken`, `ValidateLoginToken`,
  `LookupUser`, `CreateSession` follow one link; `ChangeEmailSubmit`,
  `CreateEmailChangeToken`, `UseEmailChangeToken` the other. `Abort` is any
  error return or a restart.
* **MakhorAccounts.** `RegisterSubmit` reads the invite; `CheckUser` and
  `InsertUser` are the two statements of `CreateUser`; `UseInvite` is the
  `UPDATE`, whose error the handler drops. `CountPending` and `CreateInvite`
  are the two statements of the invite forms. When the count fails the handler
  reads it as 0 (`CountFails`); the history variable `uncounted` remembers that
  this has happened, and `PendingBounded` promises nothing from then on.
* **MakhorVotes.** `SelectVote`, `WriteVote`, `UpdateScore`, `Commit`,
  `Abort` are `toggleVote`. SQLite in WAL mode is modelled by the committed
  tables, the tables as the lock holder sees them, the write lock, and a
  `stale` mark on every transaction whose snapshot is older than the last
  commit: such a transaction cannot write. `OtherWrite` stands for every other
  commit of the program.
* **MakhorRateLimiter.** `Reject` and `Accept` are the outcomes of `Allow`,
  `Cleanup` one turn of the sweeper.
* **MakhorFeeds.** The poller's goroutine goes through `PollAll`, `NextFeed`,
  the steps of `pollFeed` (`Fetch`, `CheckItem`, `CreatePost`,
  `CreateRSSItem`, ...), `UpdateFeedPolled` and `StopSeen`. A sync request
  enters the same steps by `PollFeedNow`. A document is any member of `Docs`,
  lists items twice and contains items without an identifier. `last_polled`
  is kept as whether the feed is due. `Signal`, `StopReturns`, `MainReturns`,
  `Kill`, `Start` are the life of the process. `disturbed` is history.
* **Nntpd.** `arts`, `low`, `high`, `byMsgID` are the store, `dirs` and `spool`
  the directory. `LoadSpool` and `SeedWelcomeGroup` are the two ways of
  `newStore`. `post` holds the lock from `PostLock` to `PostDone` and takes a
  step for the number, the map entry and the file of each group, because
  readers outside the lock can see these apart. `LookupGroup` then
  `SelectGroup` is GROUP, `LookupGroup` or `ListCurrent` then `SelectList`
  LISTGROUP, `ReadNumbers` begins NEXT, LAST and OVER, which `MoveNext`,
  `MoveLast` and `Answer` end. `WriteArticle` may leave the file, or the
  directory, missing or incomplete. `writeArticle` joins the group's name, as a
  client sent it, to the path of the spool: `Made` is the directory this makes at
  the top of the spool, which can be that of another group (`a/` and `a`), and
  `Deep` the groups whose files lie below it, where `LoadSpool` does not look.
  A file that cannot be read at the start is passed over. `acked`, `aliased` and
  `failures` are history.
* **StatusBoard.** `CachedOrRefresh` is the check of the cache's age,
  `BeginRound` and `ReturnCache` the outcomes of `collectMu.TryLock`,
  `BeginVM`, `Scrape`, `ScrapeFails` the fan-out of `collectAll`, `Publish` the
  swap of the cache, `EndRound` the unlock. A machine is the number of bytes it
  has `sent` and how many of these were before it last `booted`. An answer holds
  this counter or, as the status is not looked at, another one or none, which
  counts as 0 (`Answers`); `own` says which. `rounds`, `seen`, the fields `real`,
  `most` and `own`, and `netPrev[v].sent` are history.

* **MakhorTags.** A handler that decides by something another request can
  change is two actions, its checks and its write (`CreateTagSubmit` then
  `CreateTag`, `DeleteTagSubmit` then `DeleteTag`, `SubmitPost` then
  `CreatePost`, `RemovePostTag` then `RemoveTagFromPost`, `AddTagFeed` then
  `CreateTagFeed`, ...). The queries behind the pages are operators
  (`GetPostsByTag`, `GetHotPosts`, `GetAllTagsWithCounts`, ...) over the tables;
  a list is the set of its posts. A tag name is the sequence of its parts. A
  link (`Link`) is the domain `extractDomain` finds in it, whether the four LIKE
  patterns of `GetPostsByDomain` find that domain where it stands (`plain`), and
  which domains they find elsewhere in the link (`within`); `LinkMatches` is the
  patterns.
* **MakhorCollections.** `EditCollectionSubmit` begins a save, then
  `RemoveTagFromCollection` and `AddTagToCollection` are one statement each
  (`Execute`), whose error the handlers drop; `EndProcess` ends all saves where
  they are. The history variable `failed` remembers the collections whose last
  save lost a statement in this way. Which connection of the pool a statement
  gets, and so whether foreign keys hold, is a choice.
* **MakhorSearch.** `CheckTable`, `CreateTable`, `CreateTrigger`, `Populate`
  are the statements of `setupFTS`, each of which may fail (`SetupFails`: the
  server goes on); `AfterInsert`, `AfterUpdate` are what the triggers do.
* **MakhorComments.** `SubmitComment` takes any integer as the parent: a comment
  of another post, one that does not exist yet, the comment's own id. (Foreign
  keys hold on one connection of the pool only.) `descendants` is the query of
  `DeleteCommentTree`, which does not end on a ring of comments (`endless`),
  `UpdateNext` one of its updates, `EndDeletions` the end of the process.
  `GetPostComments` with `flattenComments` is the page.
* **MakhorHats.** `verifyUserHat` then `Publish`; a grant or a revocation is
  followed by `LogModeration`, or its loss.
* **MakhorRevisions.** `EditPostSubmit` reads, `UpdatePostWithRevision` is the
  transaction.
* **StatusReport.** `ScanTargetRepo`, `RollupRestic`, `ResticBucket` are what a page
  says of backups; `Walk`, `PublishSizes`, `OpenSizes`, `SizesWritten`, `SaveFails`
  the sizer: the map is swapped, then the file is opened and with that emptied, then
  written, and either may fail without a trace; `Fetch`, `OpenReleases`,
  `ReleasesWritten`, `WriteFails`, `Level` the kernels. A file that cannot be read
  at the start is as none. `filed`, the sizes last written whole, is history.
  `Forecast` is the least-squares line in exact rational arithmetic. Version strings
  are branch and patch level.
* **IrcClient.** `Dial`, `JoinDone` or `RegisterFails`, `ReadFails` are
  `runForever`; `privmsg` is called by the bots. `alive` and `inChannel` are the
  server's side, which the client does not see.
* **IrcAnnouncers, IrcWatchers, IrcReports.** One action per poll, message and
  save of every bot. Dwdwarn, diskwatch and syswatch start fresh when their state
  file cannot be read (`DwdRestart`, `Restart`). uptimebot's `postToIRC` drops the
  errors of its writes after the join: any of the lines arrive, and the state is
  saved. `comicSent`, `comicLost` (written to a connection that had died), `told`,
  `unsaved`, and what the channel was told last are history.
* **HitmFlows.** `NewFlow` takes the id, `InsertFlow` is the critical section
  of `FlowMutex`, `Publish` the send on `OutFlow`, `Drain` the goroutine that
  saves. `HitmStarts` ends the process and starts it; the `Restore...` actions
  are `restoreState`, which runs beside the listeners and returns when the saved
  flows cannot be loaded (`RestoreFails`), while everything else goes on. `Ahead`
  is the part of the map that the cursor of `evictOldFlows` still reaches.
* **HitmIntercept.** `Register` to `Decide` and `Apply`, `Timeout` and `Expire`
  follow a held request; `Forward` and `Drop` are the handlers. A send on a
  channel without a buffer and its receive are one step.
* **HitmCerts.** `EnsureCert` file operation by file operation, under `Lock`.
  Any error of a read, not only a missing file, leads to a new key or certificate
  (`NoKey`, `MakeCert`), and each file operation may fail (`OpenFails`, ...).
  `rekeyed` and `spoiled` are history: files in which a key was replaced, or a
  certificate lost.
* **HitmEvents.** `Broadcast` and the life of a stream; `jobsResults` a page.
* **SshRouter.** `CopyIn`, `CopyOut`, `AskIn`, `AskOut` are the four goroutines
  of a channel, `CopiesDone` the wait group. `MuxUp`, `MuxDown`, `Take`, `Room`
  are the ssh library: in-order dispatch, a bounded buffer of requests per
  channel, windows.

## Runs

| Run | Shows | Bounds |
|---|---|---|
| `sessions` | `RightAccount`: never somebody else's account; `AccessExpires`, `AdminExpires`: logout, expiry, ban, demotion take effect within cache TTL plus two request times | either 2 accounts, 2 sessions, 2 requests in 1 second: a cache fill, a hit and a concurrent change all fit; or 1 account, 1 session, 2 requests, 3 seconds: one more than the bound, so that a violation could be seen |
| `login` | `SingleUse`, `NoLateLogin`, `ChangeAppliedOnce`, `EmailsUnique`; of the limiter `MemoryBounded`, `LimitHolds`, `RefusedOnlyOverLimit` | 2 accounts, 3 addresses, 1 login link, 2 change links, 2 requests, a server behind UTC; limiter: 3 addresses with room for 2, a window of 2 in 5 ticks |
| `accounts` | `AccountsUnique`, `InviteTreeWellFounded`, `UsedInviteMatchesUser`, `PendingBounded`, `UsedInviteIsFinal` | 3 users, 3 codes, 2 requests: two registrations race for one invite |
| `feeds` | `ItemsHavePosts`, `ImportedOnceUndisturbed`, `PollLimited` | 1 feed, 2 items, the poller and a sync request, 2 posts |
| `feeds_live` | `StopTerminates`, `FeedsArePolled` | 2 feeds, fair scheduling |
| `content` | votes: `ScoreCountsVotes`, `NoOrphanVotes`, `LockHeldByWriter`, and that `MakhorVotes` implements `MakhorVoteCount`; tags: `OrphansOnlyByRace`, `DeletedTagEmpty`, `ListedIsBrowsable`, `TagPagesAgree`, `ApiCountsEnough`, `SubtagAuthority`; collections: `PageShowsChoice`, `SavedAsChosen`; search: `SearchExact`, `OneEntryPerPost` | votes: 2 users, 2 items, 3 transactions (a writer, a stale reader, a waiter); tags: a chain of 3 names, 1 post, 1 feed, 2 requests, 4 writes; collections: 2 of them, of different users, 2 windows, 2 tags with one post each, and at one time either saves that overlap or a save that failed (`OneCollectionEach`); search: 2 posts, 2 texts |
| `discussion` | comments: `PageReadable`, `ThreadDeleted`, `NoHoles`; hats: `HatBelongsToAuthor`, `OneHatPerLabel`, `GrantsLogged`; revisions: `OriginalKept`, `HistoryComplete`, `HistoryTrue`; news: `DurableUnlessFailed`, `SnapshotValid`, `IndexExact` | 3 comments on 2 posts: a chain of three, a reply across posts, and one comment with a parent that is not older (`OneYoungParent`): rings of one to three; one reported deletion (`OneReported`); 2 hats, 2 labels, 1 post under a hat; 4 edits by 2 requests; 2 news sessions that both post and of which one also reads, 4 groups, of which one shares the directory of another and one is not read back (such names are posted to once), 3 articles (the seeded one, one with an id, one without), 2 numbers per group, 1 failing file: a cross-post, a repost, a gap and a restart fit |
| `ircbots` | `BotsComeBack`, `JoinedOnlyServing`; `ComicOnce`, `ComicRecordedWhenSent`; `WarningOnce`, `WarningToldOrUnheard`; `ChannelKnows`, `AlertFitsSpace`, `NoFlapping`; `ReportOnce`, `NothingOverslept` | 3 comics, 2 warnings, 1 watched item of every kind, thresholds of 2, 4, 6 and 10 percent up to 12 percent free, days of 4 hours over 9 hours: a midnight and two reports in neighbouring hours |
| `proxies` | flows: `FlowsBounded`, `OldestEvicted`, `FlowsNotReplaced`, `ResponseStays`, `OpensWhatItLists`; held requests: `SentAsDecided`, `ForwardedIsSent`, `LockedUpByLateDrop`, `HeldRequestsEnd`; certificates: `CertFits`, `OneCertPerHost`; `NoSilentGap`, `PagesTile`; SSH: `RouteStable`, `OutputComplete`, `ExitLostOnlyAfterInput`, `InputFollowsRequest`, `SessionEnds`, `OutputFlows` | room for 1 flow, 5 requests and starts; 2 connections, 2 handlers, 3 requests; 3 hosts of which 2 share files, 2 handshakes; 3 streams of which 2 share an address; a window and a request buffer of 1, 2 requests, 1 unit of input, output and stderr each: every buffer fills |
| `status_board` | `FanOutBounded`, `RateNotOverstated`, `ServedInOrder`, `Answered`; `BadgeHidesOnlyEmpty`, `SnapshotsCountedOnce`, `SizesOfLastWalk`, `KernelJudged`, `ReleasesKept`, `ForecastOnLine` | the collector and a client, 2 machines and 1 slot, ages and pauses in the ratio of the code (1 to 2), 3 ticks: one more than the gap over which a rate is computed; 2 repositories that 2 paths share, snapshots of 23, 26, 27, 49, 170 and 800 hours, so on both sides of the limits of 24, 26, 48, 168 and 720 hours, 2 branches, disk samples over 9 hours |
| `accounts_invite` | one invite lets two users in | violated |
| `nntpd_durable` | a failing file loses an acknowledged article | violated |

The properties the configurations name are conjunctions, one per question, of
the parts in the table; each conjunction has the type invariant of its module
as its first part:

| Property | Parts |
|---|---|
| `RightsExpire` | `AccessExpires`, `AdminExpires` |
| `LinksSafe` | `SingleUse`, `NoLateLogin` (`LinksWorkOnce`); `ChangeAppliedOnce`, `EmailsUnique` (`AddressChangesSafe`) |
| `LimiterHolds` | `MemoryBounded`, `LimitHolds`, `RefusedOnlyOverLimit` |
| `AccountsConsistent` | `AccountsUnique`, `InviteTreeWellFounded`, `UsedInviteMatchesUser` |
| `ImportsTrue` | `ItemsHavePosts`, `ImportedOnceUndisturbed`, `PollLimited` |
| `VotesConsistent` | `ScoreCountsVotes`, `NoOrphanVotes`, `LockHeldByWriter` |
| `TagsConsistent`, `ListingsAgree` | `OrphansOnlyByRace`, `DeletedTagEmpty`, `SubtagAuthority`; `ListedIsBrowsable`, `TagPagesAgree`, `ApiCountsEnough` |
| `CollectionsAsChosen`, `SearchTrue` | `PageShowsChoice`, `SavedAsChosen`; `SearchExact`, `OneEntryPerPost` |
| `ThreadsConsistent`, `HatsInOrder`, `HistoryKept` | `PageReadable`, `ThreadDeleted`, `NoHoles`; `HatBelongsToAuthor`, `OneHatPerLabel`, `GrantsLogged`; `OriginalKept`, `HistoryComplete`, `HistoryTrue` |
| `NewsKept` | `SnapshotValid`, `IndexExact` (`NewsReadable`), `DurableUnlessFailed` |
| `AnnouncedOnce` | `JoinedOnlyServing`, `ComicOnce`, `ComicRecordedWhenSent`, `WarningOnce`, `WarningToldOrUnheard` |
| `WatchersTell`, `DiskAlertsSteady`, `ReportsInTime` | `ChannelKnows`; `AlertFitsSpace`, `NoFlapping`; `ReportOnce`, `NothingOverslept` |
| `FlowsListed`, `FlowsKept` | `FlowsBounded`, `OpensWhatItLists`; `OldestEvicted`, `FlowsNotReplaced`, `ResponseStays` |
| `DecisionsKept`, `CertsMatch`, `StreamsAndPages` | `SentAsDecided`, `ForwardedIsSent`, `LockedUpByLateDrop`; `CertFits`, `OneCertPerHost`; `NoSilentGap`, `PagesTile` |
| `SessionsServed`, `RouterGoesOn` | `RouteStable`, `OutputComplete`, `ExitLostOnlyAfterInput`; `SessionEnds`, `OutputFlows` |
| `RoundsBounded`, `ReportTrue`, `FetchedTrue` | `FanOutBounded`, `RateNotOverstated`; `BadgeHidesOnlyEmpty`, `SnapshotsCountedOnce`, `ForecastOnLine`; `SizesOfLastWalk`, `KernelJudged` |

Where a row has two conjunctions of one module, the type invariant is in the
first. A mutant in `PROJECT.json` breaks a conjunction as a whole, so it shows
that one of its parts can fail, not that each of them can.

Deadlock is checked except in runs with a part that may stop: a bot without a
connection, a channel that is closed, a bounded number of comments, requests or
restarts that is used up.

The violated runs are disagreements between the code and its own comments,
described under "findings" in `PROJECT.json`: `UseInvite` is atomic "to prevent
race conditions", but its error is dropped after the user has been created; and
"restarting the server doesn't lose anything already posted", but `POST` is
answered with 240 whatever became of the file.

Many properties are about the code up to some event that the property names. Where
such an exemption leaves a hazard uncaught, it is one of these:
`LimitHolds` says nothing once the map of addresses has overflowed;
`ImportedOnceUndisturbed` says nothing of an import in which polls overlapped or a
statement failed (`disturbed`); the badge may hide a repository that is missing or
empty; `SearchExact` says nothing after a setup that was interrupted; `NoSilentGap`
nothing of a stream whose channel was full or whose address another one shares;
`SavedAsChosen` nothing of a save that lost a statement; `ChannelKnows`,
`WarningOnce` and `ComicRecordedWhenSent` nothing of what a lost message or a state
file that could not be read has touched; `FlowsNotReplaced` nothing of requests
that got their id before the counter was restored, or without that; `CertFits` and
`OneCertPerHost` nothing of keys and certificates that failed reads or writes have
replaced; `DurableUnlessFailed` nothing of groups whose directory is shared or
not read back.

### What the models show beside that

The exceptions written into the properties are behaviours of the code that a
reader of its comments would not expect.

* makhor: `Logout` does not call `InvalidateSession`, so the cookie works until its
  cache entry expires (`AccessExpires` bounds that). "Skip if already imported" is a
  check that two overlapping polls both pass. `main` returns as soon as `Shutdown`
  begins. A subtag can be created while its parent is being deleted, and posts,
  feeds and admins reach a tag that is gone. A search index whose setup was cut
  short stays so. `GetPostComments` "retrieves all comments", but a reply to a
  comment of another post, to itself or to a comment that does not exist is counted
  and not shown. An edit that overtakes another removes a text from the history.
  Deleting a thread that is a ring of comments runs a query without an end. A
  collection keeps other tags than its form's when one statement of the save fails,
  and nothing tells. `GetPostsByDomain` "retrieves all posts from a specific
  domain", but a post of `https://host?x=1` shows the domain `host` and is not on
  the page of that domain.
* nntpd: a group whose name has a slash is written to a directory below the spool's
  first level, and is gone after a restart; `a/` has the files of `a`, which it
  overwrites. An article sent with an empty `Message-ID` header is known under a
  made-up id that a restart forgets.
* status-board: requests collect when the cache is older than 30 or 45 seconds,
  although "only a totally unprimed cache does a live round". The badge "shows the
  STALEST target" but skips one that is missing or empty. Without a list of releases
  every kernel is shown as out of support. A forecast may be 0 with space left. A
  repository whose walk fails disappears from the sizes. A rate is "since last
  scrape", but after an answer without an interface it is the whole counter since
  boot. The sizes shown after a restart can be those of the walk before the last, as
  the file is written after the map and its errors are dropped.
* bots: a write that times out on a live connection mutes the bot until that
  connection ends; `joined` stays true after a kick; dwdwarn marks a warning as
  seen before it posts, and says all clear only in a round that posted something
  new; syswatch's first checks run before the join, so its first alerts are
  lost; uptimebot forgets a check that gave no answer, and saves its state whether
  or not its lines were written; dwdwarn announces everything again, and the
  watchers forget what they said, after a start with an unreadable file; xkcdbot
  records a comic that it wrote to a dead connection; it answers a `PING`
  in `serve` with the whole line, as `TrimPrefix` looks for `PONG`.
* hitm: a drop that comes after the wait has ended holds `InterceptMutex` for
  ever. `restoreState` "resumes the id counters so new ids don't collide with
  persisted ones", but a request served before it takes the id of a saved flow, and
  so do the requests after it when the saved flows cannot be loaded. A key that cannot be
  read for any reason is replaced, beside the old certificate.
  Hosts that differ in a dot or a hyphen share certificate files under
  different locks.
* sshrouter: input can overtake a request that has not been answered, an exit
  status is lost when nobody waits for the goroutine that carries it, `stderr`
  is never read and fills the window, a client's close arrives as the end of
  input only.

### Fairness

`FairSpec` of `MakhorFeeds`: the poller's goroutine keeps running
(weak fairness of its steps; a fetch ends by the client's 30 second timeout).
`select` picks at random among ready channels, so a closed stop channel is
not passed over for ever (strong fairness of `StopSeen`). The database does
not fail at every attempt (strong fairness of `PollAll`, and of
`UpdateFeedPolled` per feed). Requests, administrators and remote servers owe
nothing.

`BoardSpec` (the collector's part): the goroutine of a request or of the
collector that has begun a round goes on (weak fairness per goroutine). Scrapes
end, at the latest by the HTTP client's timeout of 3 seconds. Clients need not
ask, time need not pass, and the collector need not wake.

`ClientFairness` of `IrcClient`: `runForever` goes on (weak fairness of dialling,
of the handshake's end and of reads, which have a deadline of four minutes), and
a server that is tried again and again lets the bot in (strong fairness of
`JoinDone`).

`InterceptFairness` of `HitmIntercept`: a goroutine that can go on does, and the
timer of two minutes fires. The user owes nothing.

That the SSH router does not rest early needs no fairness: `SessionEnds` and
`OutputFlows` say of every state in which it rests that it may.

## Proofs

Proved with TLAPS for every value of the constants.

* **`MakhorAccountsProofs`**: `TypeOK`, `AccountsUnique`,
  `InviteTreeWellFounded`, `UsedInviteMatchesUser` as invariants, and
  `UsedInviteIsFinal` as an action property. None of the last three is
  inductive: what `UseInvite` writes is decided by what a request read several
  statements earlier. The inductive invariant `IInv` adds that ids below
  `nextId` only are in use (`IdsIssued`), that a code has at most one row and
  its creator exists (`InvitesIssued`), and that every request remembers an
  inviter that exists and is older than its user, and a user that really
  registered with its code (`RequestsConsistent`). `ConsistentAccounts`
  combines the invariants into `AccountsConsistent`, as the run states it.
  `AlwaysPendingBounded` has an invariant of its own, `LimitSound`: for every id,
  also of an account to come, the unused invites and the requests about to add
  one fit into the limit and the number of requests (`Room`). Counting leaves
  room for one more, as at most all requests can have passed the check, and the
  `INSERT` takes from the requests what it adds to the invites.
* **`MakhorSessionsProofs`**: `RightAccount`, `RightsExpire`. The invariant
  follows a copy of a users row from the read that made it. `Vouched(c, u, t)`
  says that the account of cookie `c` is that of `u`, and that what `u` allows
  was so at time `t` or later; `Sound` says it of a request at each of its
  program points with the time the request began, and `EntrySound` of a cache
  entry with the time its expiry gives away. The bound of `RightsExpire` is the
  sum of these: one request time to read and fill the cache, the TTL in it, one
  request time after the hit. `HistoryCurrent` ties history to the tables, and
  `SessionsOwned` says that session ids never change hands.
* **`MakhorLoginProofs`**: `LinksWorkOnce`, `AddressChangesSafe`, together
  `LinksSafe`. A link is `Spent` when it was made and has no row left that could be
  redeemed; no step takes that back. Every session comes from a spent link
  (`SessionsSound`), every request that has redeemed one is alone with it
  (`RequestsSound`), the rows carry the expiry as it was stored (`TokensSound`), and
  a change that was not applied has its row unmarked (`ChangesSound`).
  `EmailsUnique` is inductive with these, by the `UNIQUE` constraint.
* **`MakhorContentProofs`**: `SearchTrue`, from what is true of the index at each
  statement of its setup (`SetupSound`). `CollectionsAsChosen`: rows and the tags
  saves still have to add were chosen by the owner (`RowsChosen`, `JobsChosen`), and
  a save that overlaps with no other, and has lost no statement, will leave the tags
  of its form (`SavesTrue`). `TagsConsistent` and `ListingsAgree`: a tag is active
  or in `late`, the tags a request with stale checks wrote to (`KnownTag`), wherever
  a post, a feed or an admin refers to it (`PostSound`, `FeedSound`, `AdminSound`),
  and for its subtags (`ParentSound`); a creator, and a request to create, have an
  authority from above that history keeps (`CreatorSound`, `ReqSound`). The API
  counts pairs of an active tag and a post, the page lists posts by any tag: that
  the sum is no less than the posts on the page (`ApiCountsEnough`) rests on no post
  keeping a deleted tag. That a post is found by the domain of its link is said of
  links with the host where the patterns look for it. Votes: `TypeOK`,
  `ScoreCountsVotes`, `NoOrphanVotes`, `LockHeldByWriter`, combined into
  `VotesConsistent`, and that `MakhorVotes` implements `MakhorVoteCount`. The
  inductive invariant adds: the lock holder is the one transaction in a writing
  state (`LockOwned`); a transaction that is not stale has read what is committed
  (`SnapshotCurrent`); and what the lock holder sees differs from what is committed
  by exactly its own vote, then also its score (`PagesConsistent`). With these,
  `Commit` is a `Toggle` of the abstract specification, and every other step is
  `Create`, `Forget` or a stutter.
* **`MakhorDiscussionProofs`**: `HistoryKept`. Open edits read a text that was
  shown, the current one but for crossings (`EditsSound`); the first text of the
  history is the original (`OriginalFirst`); and the number of edits bounds its
  length (`EditsCounted`). `HatsInOrder`: a request that has verified a hat, and a
  text under one, are its owner's (`CallsSound`, `WorksSound`), since no step gives
  a hat away; `GrantsLogged` counts three finite sets, and each step is shown to
  change these counts by what it owes the log. `ImportsTrue`: a goroutine that has
  inserted a post remembers it, and its row is in the table, so the item it then
  records has its post (`ImportSound`). That nothing is posted twice needs more, all
  of it only until something comes between two statements (`Undisturbed`): no two
  goroutines poll one feed (`PollsApart`), the feeds in work and in the queue have
  rows (`RowsKept`), every post is recorded or about to be (`PostsRecorded`), and
  who is about to post an item has found it missing (`ItemsMissing`). Only then does
  the check of `RSSItemExists` speak for the posts too.
* **`ProxiesProofs`**: `CertsMatch`, from mutual exclusion (`LocksHeld`), what the
  two files of a host can be between any two file operations (`FileSound`), and what
  the handshake with the lock knows of them (`ShakeSound`), each up to a key that
  was replaced (`rekeyed`) or a certificate that was (`spoiled`); a step of a
  handshake is local to its host if that shares no files (`StepIsLocal`).
  `DecisionsKept`: a request on its way is decided as far as it has come
  (`TunnelsSound`), a channel in the map is waited on or was decided
  (`EntriesSound`), and a handler that holds the mutex sends to such a channel
  (`MutexSound`). `StreamsAndPages`: a stream of its own address is in the map
  (`AloneSound`) and its channel holds all events from the last one read on
  (`NoGap`); a result is on the page of its quotient by the limit and no other.
  `FlowsListed`, `FlowsKept`: a piece of a flow, wherever it is on its way, has an
  id that no other flow has unless one of them got it while the counter was not
  restored, or could not be (`UniqueIds`, `OnlyEarly`), the queue and the store
  respect the order of pieces (`QueueInOrder`, `StoreInOrder`), and the map's cursor
  passes only flows that came late (`MapSound`). `SessionsServed`,
  `InputFollowsRequest`: what has been sent is counted over its stations. A unit of
  output is in the library's queue, in a buffer, in the hand of `io.Copy` or at the
  client, and their sum is what the target sent as long as the client has not closed
  (`OutputCounted`; `InputCounted`, `RequestsUp` and `RequestsDown` bound the other
  three streams); a copy that is done has a reason (`InputEnds`, `OutputEnds`). Data
  carries the number of requests its sender knew to be answered, and that number is
  never ahead of the answers (`InputMarked`). What a user was routed to is a target
  of `GetTarget` (`Routed`), which has two only for a name without a route of its
  own that two patterns match (`TwoTargets`).
* **`BotsProofs`**: `AnnouncedOnce`, from what is recorded or about to be of every
  comic that was announced (`SentSound`), and of marks and announcements of every
  warning in a poll (`MarksSound`), up to marks that were lost with the process or
  its file. `WatchersTell`: what a poll still has to compare was read, and for
  uptimebot with the file (`TodoSound`); what a bot does not announce is what the
  channel knows, unless a message or the state was lost (`off`). `DiskAlertsSteady`,
  two action properties: until the space has swung, an alert at least as severe is
  on and the least space since is below it (`ArmedUntilSwung`); `WorstCrossedIs`
  says that the threshold `checkDisks` looks for exists. `ReportsInTime`: every
  posting time so far was kept or missed or is slept to, and none lies between now
  and that one (`HoursSound`), by `NextHourIs` and `NextDayIs`: the next posting
  time as the code computes it, from today's and tomorrow's hours, is the next there
  is.
* **`ServicesProofs`**: `NewsReadable`, `DurableUnlessFailed`, together `NewsKept`.
  Only the holder of the lock is in the middle of a post (`OneWriter`); the number
  it took is free until the article is stored, and then holds that article
  (`SlotsSound`), although readers see the two apart; the bound on numbers leaves
  room for the groups still ahead (`RoomLeft`); articles lie between low and high
  (`NumbersInRange`), which after a restart rests on the greatest file name found.
  The index lacks at most the article being written (`IndexSound`). What was
  answered with 240, or will be, is in memory and on disk at its number, and nobody
  writes there again (`PromisesKept`), as long as no file has failed and in groups
  that have their directory to themselves (`Alone`): an article that goes to another
  group's directory is seen from its number on (`SlotsSound`). `RoundsBounded`,
  `ServedInOrder`: only the holder of `collectMu` is in a round and scrapes
  (`OneCollector`), the rounds of the goroutine, the cache and the clients are
  ordered (`RoundsOrdered`), and a counter that was answered has lost since then at
  most what was sent before the last boot (`CountersAgree`), so a difference of
  counters, or the counter alone after a reboot, is no more than what was sent.
  Beside an answer without the counter the rate is only known to be no more than the
  whole counter. Of `FetchedTrue`, `SizesOfLastWalk`: the map is that of the last
  completed walk or, before the first, of what was filed when the process started;
  the file is what was filed last, or missing, or cut off (`WalkRecorded`).
  `KernelJudged`, `ReleasesKept`: the map holds the first release of each branch of
  the last list (`ReleasesSound`), which is the newest, as `ParseIs` shows of a list
  that is newest first.

The assumptions are the named `ASSUME`s of the modules. They say that null values
are distinct from the values they stand beside, that limits are natural numbers (and
`MaxFlows`, `OutSize`, `StreamSize`, `DefaultLimit`, `MaxReqs`, `MaxComic`, `Day`
and the thresholds positive), that the users who vote, the clients of `MakhorHats`,
the request goroutines of `MakhorAccounts`, the editors of a post, the posts and the
names of tags, the feeds and the newsgroups are finitely many (the proofs count
them, or what belongs to them), that with a tag name its prefixes are names too,
that no route leads to the value for "no target", that posting hours are hours of
the day, and that the clock's bound is at least a day.

Only model-checked:

* liveness, which is outside the prover's reach: `FeedsArePolled`, `StopTerminates`,
  `Answered`, `HeldRequestsEnd`, `BotsComeBack`; and `ENABLED`: `RouterGoesOn`, which
  speaks of the states in which the router rests;
* what is computed by recursion over data: the flattening of comments
  (`ThreadsConsistent`), the roll-up of backups and the sums of the forecast
  (`ReportTrue`), what `SelectSeq` keeps of a window of requests (`LimiterHolds`).
  The library's induction theorems take the formula to be proved as a parameter,
  which the installed provers cannot instantiate.

## Not modelled

* makhor: `ban_expires_at` (nothing that runs reads it), `PollTagFeeds` (nothing
  calls it), the poll log, statistics, the action log, backup and restore, the
  JSON API's reads, generated feeds and their cache, ranking and snippets of the
  search, bodies and edits of comments, mail, images, configuration, logging and
  templates: reads without a decision, single appends, input and output.
* status-board: layout and graphs, the parsing of metrics, and the pages that
  only show configuration.
* bots: what is fetched and how a message reads; the `-post-now` flag of
  tagesschau. An empty line from the server, on which weatherman's `serve`
  indexes an empty list, is not an input of the model.
* hitm: starting, stopping and restoring listeners, the map pages, and the
  functions of fuzzing and spidering jobs, which are called but not in the
  repository; that `DumpRequest` and `RoundTrip` share a body; page limits near
  the largest integer; the expiry of a cached certificate, which is never
  checked.
* sshrouter: authentication, global requests, several channels at once, the
  client's windows; the loss of a connection is a close.
* nntpc, ircc, vokobe, vokobe2 and the NixOS configuration: user interfaces, text
  in and text out, declarations. The reasons are in `PROJECT.json`.

## State of the project

The models and the proofs are complete as far as planned: every safety property
of a run is a theorem but for the ones listed under "Only model-checked", each
with its reason. Those would need another prover. Of the program, what could be
added is listed under "Not modelled"; the parts with most state of their own are
the JSON API's writes, which repeat those of the handlers, and the restore of a
backup under a running server.
