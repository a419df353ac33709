-------------------------------- MODULE Nntpd --------------------------------
(***************************************************************************)
(* The news server (ops/pkgs/nntpd): articles in memory, their files in    *)
(* the spool directory, which is read back at start, and one goroutine per *)
(* connection.                                                             *)
(*                                                                         *)
(* post holds the write lock for all groups of an article; readers take    *)
(* the read lock for a lookup but look at a group again after giving it    *)
(* back, so they see a post half done.  (Such an access may also abort the *)
(* Go process: that is a Crash.)  Errors of spool files are only logged.   *)
(*                                                                         *)
(* A group's name is joined to the path of the spool as the client wrote   *)
(* it: "a/" has the directory of "a", and the files of "alt/test" lie where *)
(* loadSpool, which reads one level of directories, does not look.         *)
(*                                                                         *)
(* LIST, and ARTICLE with the current number or an id, change nothing.     *)
(***************************************************************************)
EXTENDS Integers, Sequences, FiniteSets, FiniteSetsExt

CONSTANTS
    Groups, NoGroup,
    Welcome,               \* the group seeded in an empty spool
    Msgs, WelcomeMsg,      \* articles, each with its message id
    Posts,                 \* those clients send
    Blank,                 \* of these, those sent with an empty Message-ID header
    Newsgroups,            \* Newsgroups headers: sequences of group names
    Made,                  \* the directory of the spool that a name's path is or begins with
    Deep,                  \* the names whose path ends elsewhere: below it, or outside
    Sessions, NoSession,
    Nothing,               \* no article, no file
    Cut,                   \* a file that ends before the Message-ID header
    MaxNum, MaxFailures    \* bounds on article numbers and on failing files

ASSUME NamesAssumption ==
    /\ Welcome \in Groups /\ WelcomeMsg \in Msgs \ Blank
    /\ Posts \subseteq Msgs /\ Blank \subseteq Posts
    /\ Newsgroups \subseteq Seq(Groups)
    /\ NoSession \notin Sessions /\ NoGroup \notin Groups
    /\ Nothing \notin Msgs /\ Cut \notin Msgs /\ Nothing # Cut
    /\ MaxNum \in Nat \ {0} /\ MaxFailures \in Nat
ASSUME GroupsAssumption == IsFiniteSet(Groups)
(* filepath.Join: a directory is named as loadSpool names its group.  *)
ASSUME DirectoriesAssumption ==
    /\ Made \in [Groups -> Groups \cup {NoGroup}] /\ Deep \subseteq Groups
    /\ \A g \in Groups :
         /\ g \notin Deep => Made[g] # NoGroup
         /\ Made[g] # NoGroup => Made[Made[g]] = Made[g] /\ Made[g] \notin Deep
    /\ Made[Welcome] = Welcome

VARIABLES
    up,               \* the process runs
    groups, arts,     \* store.groups and the articles of each
    low, high,        \* group.low, group.high
    byMsgID,          \* store.byMsgID
    dirs, spool,      \* directories and files of the spool
    lock,             \* holder of the write lock
    sess,             \* the sessions
    \* History variables: no step of the system reads them.
    acked,            \* <<group, number, article>> answered with 240
    aliased,          \* groups whose directory another group's article went to
    failures          \* spool files that could not be written or read

memory == <<groups, arts, low, high, byMsgID>>
disk == <<dirs, spool>>
newsVars == <<up, memory, disk, lock, sess, acked, aliased, failures>>

-----------------------------------------------------------------------------
Nums == 1..MaxNum
Slot == Msgs \cup {Cut, Nothing}
Nowhere == <<>>
Locs == Groups \X Nums

(* cur, art: curGroup and curArtNum; to: the group named in the command;    *)
(* nums: numbers read from a group; todo, msg, stored: the article being    *)
(* posted, its groups left, and where it is stored.                         *)
Pcs == {"off", "ready", "group", "list", "reply", "next", "last",
        "lock", "number", "store", "write"}
Session ==
    [pc : Pcs, cur : Groups \cup {NoGroup}, art : 0..MaxNum,
     to : Groups \cup {NoGroup}, nums : SUBSET Nums,
     todo : Seq(Groups), msg : Slot, stored : SUBSET Locs]

Off == [pc |-> "off", cur |-> NoGroup, art |-> 0, to |-> NoGroup, nums |-> {},
        todo |-> <<>>, msg |-> Nothing, stored |-> {}]

Set(s, new) == sess' = [sess EXCEPT ![s] = new]

(* sortedNumbers *)
Numbers(g) == {n \in Nums : arts[g][n] # Nothing}

First(S) == IF S = {} THEN 0 ELSE Min(S)

NewsInit ==
    /\ up = FALSE
    /\ groups = {}
    /\ arts = [g \in Groups |-> [n \in Nums |-> Nothing]]
    /\ low = [g \in Groups |-> 0] /\ high = low
    /\ byMsgID = [m \in Msgs |-> Nowhere]
    /\ dirs = {}
    /\ spool = arts
    /\ lock = NoSession
    /\ sess = [s \in Sessions |-> Off]
    /\ acked = {} /\ aliased = {}
    /\ failures = 0

-----------------------------------------------------------------------------
(* group.high as loadSpool sets it. *)
Highest(S) == IF S = {} THEN 0 ELSE Max(S)

(* byMsgID for the articles a.  parseArticle finds no id in a cut file, or  *)
(* behind an empty Message-ID header; of several copies the one read last   *)
(* is kept.                                                                 *)
Holders(a, m) == {l \in Locs : a[l[1]][l[2]] = m}
IndexOf(a, index) ==
    \A m \in Msgs :
        IF m \in Blank \/ Holders(a, m) = {} THEN index[m] = Nowhere
                                             ELSE index[m] \in Holders(a, m)

(* loadSpool, when there is a group in the spool; bad files are skipped. *)
LoadSpool ==
    /\ dirs # {}
    /\ \E bad \in SUBSET {l \in Locs : spool[l[1]][l[2]] # Nothing} :
        /\ arts' = [g \in Groups |-> [n \in Nums |->
                      IF <<g, n>> \in bad THEN Nothing ELSE spool[g][n]]]
        /\ failures' = failures + Cardinality(bad)
        /\ failures' <= MaxFailures
    /\ groups' = dirs
    /\ low' = [g \in Groups |-> First({n \in Nums : arts'[g][n] # Nothing})]
    /\ high' = [g \in Groups |-> Highest({n \in Nums : arts'[g][n] # Nothing})]
    /\ byMsgID' \in [Msgs -> Locs \cup {Nowhere}]
    /\ IndexOf(arts', byMsgID')
    /\ UNCHANGED disk

(* What MkdirAll and WriteFile leave for loadSpool to find.                 *)
DirsWith(g) == dirs \cup ({Made[g]} \ {NoGroup})
Filed(g, n, c) == IF g \in Deep THEN spool ELSE [spool EXCEPT ![Made[g]][n] = c]

(* writeArticle: the file is written, or the failure is logged; MkdirAll or *)
(* the opening fails, or the file is left incomplete.                       *)
WriteArticle(g, n, m) ==
    \/ /\ dirs' = DirsWith(g)
       /\ spool' = Filed(g, n, m)
       /\ UNCHANGED failures
    \/ /\ dirs' \in {dirs, DirsWith(g)}
       /\ \/ UNCHANGED spool
          \/ dirs' = DirsWith(g) /\ spool' = Filed(g, n, Cut)
       /\ failures < MaxFailures
       /\ failures' = failures + 1

(* seedWelcomeGroup, when there is none. *)
SeedWelcomeGroup ==
    /\ dirs = {}
    /\ groups' = {Welcome}
    /\ arts' = [arts EXCEPT ![Welcome][1] = WelcomeMsg]
    /\ low' = [low EXCEPT ![Welcome] = 1]
    /\ high' = [high EXCEPT ![Welcome] = 1]
    /\ byMsgID' = [byMsgID EXCEPT ![WelcomeMsg] = <<Welcome, 1>>]
    /\ WriteArticle(Welcome, 1, WelcomeMsg)

(* newStore, and the listener. *)
Start ==
    /\ ~up
    /\ up' = TRUE
    /\ LoadSpool \/ SeedWelcomeGroup
    /\ UNCHANGED <<lock, sess, acked, aliased>>

(* The process ends, maybe while it writes a file. *)
Crash ==
    /\ up
    /\ up' = FALSE
    /\ groups' = {}
    /\ arts' = [g \in Groups |-> [n \in Nums |-> Nothing]]
    /\ low' = [g \in Groups |-> 0] /\ high' = low'
    /\ byMsgID' = [m \in Msgs |-> Nowhere]
    /\ \/ UNCHANGED disk
       \/ \E s \in Sessions :
            LET g == Head(sess[s].todo) IN
            /\ sess[s].pc = "write"
            /\ dirs' = DirsWith(g)
            /\ spool' \in {spool, Filed(g, high[g], Cut), Filed(g, high[g], sess[s].msg)}
    /\ lock' = NoSession
    /\ sess' = [s \in Sessions |-> Off]
    /\ UNCHANGED <<acked, aliased, failures>>

-----------------------------------------------------------------------------
Ready(s) == sess[s].pc = "ready"
Unlocked == lock = NoSession
Shared == <<up, memory, disk, lock, acked, aliased, failures>>

Accept(s) ==
    /\ up
    /\ sess[s].pc = "off"
    /\ Set(s, [Off EXCEPT !.pc = "ready"])
    /\ UNCHANGED Shared

(* QUIT, or the next command cannot be read. *)
Close(s) ==
    /\ Ready(s)
    /\ Set(s, Off)
    /\ UNCHANGED Shared

(* cmdGroup, and cmdListGroup with an argument: the lookup of a group. *)
LookupGroup(s, g, pc) ==
    /\ Ready(s) /\ Unlocked
    /\ g \in groups
    /\ Set(s, [sess[s] EXCEPT !.pc = pc, !.to = g])
    /\ UNCHANGED Shared

(* cmdListGroup without an argument. *)
ListCurrent(s) ==
    /\ Ready(s)
    /\ sess[s].cur # NoGroup
    /\ Set(s, [sess[s] EXCEPT !.pc = "list", !.to = sess[s].cur])
    /\ UNCHANGED Shared

(* The rest of cmdGroup, without the lock. *)
SelectGroup(s) ==
    LET g == sess[s].to IN
    /\ sess[s].pc = "group"
    /\ Set(s, [sess[s] EXCEPT !.pc = "reply", !.cur = g, !.to = NoGroup,
                              !.nums = Numbers(g), !.art = First(Numbers(g))])
    /\ UNCHANGED Shared

(* The rest of cmdListGroup, without the lock: an empty group becomes the   *)
(* current one while the current number stays.                              *)
SelectList(s) ==
    LET g == sess[s].to IN
    /\ sess[s].pc = "list"
    /\ Set(s, [sess[s] EXCEPT !.pc = "reply", !.cur = g, !.to = NoGroup,
                              !.nums = Numbers(g),
                              !.art = IF Numbers(g) = {} THEN @ ELSE Min(Numbers(g))])
    /\ UNCHANGED Shared

(* cmdNextLast and cmdOver: the numbers, under the read lock. *)
ReadNumbers(s, pc) ==
    /\ Ready(s) /\ Unlocked
    /\ sess[s].cur # NoGroup
    /\ Set(s, [sess[s] EXCEPT !.pc = pc, !.nums = Numbers(sess[s].cur)])
    /\ UNCHANGED Shared

(* The neighbour cmdNextLast steps to: a number that is not in the list has *)
(* the first one as its successor.                                          *)
After(nums, n) == IF n \in nums THEN {k \in nums : k > n} ELSE nums
Before(nums, n) == IF n \in nums THEN {k \in nums : k < n} ELSE {}

(* The rest of cmdNextLast, without the lock. *)
MoveNext(s) ==
    LET S == After(sess[s].nums, sess[s].art) IN
    /\ sess[s].pc = "next"
    /\ Set(s, [sess[s] EXCEPT !.pc = "ready", !.nums = {},
                              !.art = IF S = {} THEN @ ELSE Min(S)])
    /\ UNCHANGED Shared

MoveLast(s) ==
    LET S == Before(sess[s].nums, sess[s].art) IN
    /\ sess[s].pc = "last"
    /\ Set(s, [sess[s] EXCEPT !.pc = "ready", !.nums = {},
                              !.art = IF S = {} THEN @ ELSE Max(S)])
    /\ UNCHANGED Shared

(* The answer of GROUP, LISTGROUP and OVER: it reads low and high, and OVER *)
(* the articles, without the lock.                                          *)
Answer(s) ==
    /\ sess[s].pc = "reply"
    /\ Set(s, [sess[s] EXCEPT !.pc = "ready", !.nums = {}])
    /\ UNCHANGED Shared

(* cmdArticle with a number: resolveArticle. *)
Article(s, n) ==
    /\ Ready(s) /\ Unlocked
    /\ sess[s].cur # NoGroup
    /\ n \in Numbers(sess[s].cur)
    /\ Set(s, [sess[s] EXCEPT !.art = n])
    /\ UNCHANGED Shared

-----------------------------------------------------------------------------
(* cmdPost and the start of post.  The id of a Blank article is made up, so *)
(* nothing has it yet; other ids are the client's, and it may send one      *)
(* twice.                                                                   *)
Post(s, gs, m) ==
    /\ Ready(s)
    /\ m \in Blank => /\ Holders(arts, m) = {} /\ Holders(spool, m) = {}
                      /\ \A t \in Sessions : sess[t].msg # m
    /\ Set(s, [sess[s] EXCEPT !.pc = "lock", !.todo = gs, !.msg = m])
    /\ UNCHANGED Shared

PostLock(s) ==
    /\ sess[s].pc = "lock"
    /\ Unlocked
    /\ \A g \in Groups :
         high[g] + Cardinality({i \in DOMAIN sess[s].todo : sess[s].todo[i] = g}) <= MaxNum
    /\ lock' = s
    /\ Set(s, [sess[s] EXCEPT !.pc = "number"])
    /\ UNCHANGED <<up, memory, disk, acked, aliased, failures>>

(* One turn of the loop over the groups: a number, *)
PostNumber(s) ==
    LET g == Head(sess[s].todo) IN
    /\ sess[s].pc = "number"
    /\ sess[s].todo # <<>>
    /\ groups' = groups \cup {g}
    /\ high' = [high EXCEPT ![g] = @ + 1]
    /\ low' = [low EXCEPT ![g] = IF @ = 0 THEN high'[g] ELSE @]
    /\ Set(s, [sess[s] EXCEPT !.pc = "store"])
    /\ aliased' = IF g \in Deep \/ Made[g] = g THEN aliased ELSE aliased \cup {Made[g]}
    /\ UNCHANGED <<up, arts, byMsgID, disk, lock, acked, failures>>

(* the article in the map, *)
PostStore(s) ==
    LET g == Head(sess[s].todo) IN
    /\ sess[s].pc = "store"
    /\ arts' = [arts EXCEPT ![g][high[g]] = sess[s].msg]
    /\ Set(s, [sess[s] EXCEPT !.pc = "write"])
    /\ UNCHANGED <<up, groups, low, high, byMsgID, disk, lock, acked, aliased, failures>>

WriteFirstOnly(s) ==
    LET g == Head(sess[s].todo) IN
    /\ sess[s].pc = "write"
    /\ IF sess[s].stored = {} THEN WriteArticle(g, high[g], sess[s].msg)
                              ELSE UNCHANGED <<dirs, spool, failures>>
    /\ byMsgID' = [byMsgID EXCEPT ![sess[s].msg] = <<g, high[g]>>]
    /\ Set(s, [sess[s] EXCEPT !.pc = "number", !.todo = Tail(@),
                              !.stored = @ \cup {<<g, high[g]>>}])
    /\ UNCHANGED <<up, groups, arts, low, high, lock, acked, aliased>>

(* its file, and the index. *)
PostWrite(s) ==
    LET g == Head(sess[s].todo) IN
    /\ sess[s].pc = "write"
    /\ WriteArticle(g, high[g], sess[s].msg)
    /\ byMsgID' = [byMsgID EXCEPT ![sess[s].msg] = <<g, high[g]>>]
    /\ Set(s, [sess[s] EXCEPT !.pc = "number", !.todo = Tail(@),
                              !.stored = @ \cup {<<g, high[g]>>}])
    /\ UNCHANGED <<up, groups, arts, low, high, lock, acked, aliased>>

(* 240, whatever became of the files. *)
PostDone(s) ==
    /\ sess[s].pc = "number"
    /\ sess[s].todo = <<>>
    /\ lock' = NoSession
    /\ acked' = acked \cup {<<l[1], l[2], sess[s].msg>> : l \in sess[s].stored}
    /\ Set(s, [sess[s] EXCEPT !.pc = "ready", !.msg = Nothing, !.stored = {}])
    /\ UNCHANGED <<up, memory, disk, aliased, failures>>

Read(s) ==
    \/ \E g \in Groups : LookupGroup(s, g, "group") \/ LookupGroup(s, g, "list")
    \/ ListCurrent(s) \/ SelectGroup(s) \/ SelectList(s)
    \/ ReadNumbers(s, "next") \/ ReadNumbers(s, "last") \/ ReadNumbers(s, "reply")
    \/ MoveNext(s) \/ MoveLast(s) \/ Answer(s)
    \/ \E n \in Nums : Article(s, n)

Write(s) ==
    \/ \E gs \in Newsgroups, m \in Posts : Post(s, gs, m)
    \/ PostLock(s) \/ PostNumber(s) \/ PostStore(s) \/ PostWrite(s) \/ PostDone(s)

NewsNext ==
    \/ Start \/ Crash
    \/ \E s \in Sessions : Accept(s) \/ Close(s) \/ Read(s) \/ Write(s)

NewsSpec == NewsInit /\ [][NewsNext]_newsVars
-----------------------------------------------------------------------------
(* Every variable has its type. *)
NewsTypeOK ==
    /\ up \in BOOLEAN /\ failures \in 0..MaxFailures
    /\ groups \subseteq Groups /\ dirs \subseteq Groups
    /\ arts \in [Groups -> [Nums -> Slot]] /\ spool \in [Groups -> [Nums -> Slot]]
    /\ low \in [Groups -> 0..MaxNum] /\ high \in [Groups -> 0..MaxNum]
    /\ byMsgID \in [Msgs -> Locs \cup {Nowhere}]
    /\ lock \in Sessions \cup {NoSession}
    /\ sess \in [Sessions -> Session]
    /\ acked \subseteq Groups \X Nums \X Msgs /\ aliased \subseteq Groups

(* Groups that have their directory to themselves.                          *)
Alone(g) == g \notin Deep /\ Made[g] = g /\ g \notin aliased

(* Although spool files are written while others post, read and crash, an   *)
(* article answered with 240 is under its group and number whenever the     *)
(* server runs, unless a file of the spool has failed, or the group's       *)
(* directory is shared or not read back: writeArticle takes any name.       *)
DurableUnlessFailed ==
    up /\ failures = 0 => \A a \in acked : Alone(a[1]) => arts[a[1]][a[2]] = a[3]

(* "restarting the server doesn't lose anything already posted" (the head   *)
(* of nntpd.go).                                                            *)
Durable == up => \A a \in acked : arts[a[1]][a[2]] = a[3]

(* What a command read from a group, with or without the lock, it can still *)
(* use when it answers: cmdNextLast and cmdOver dereference an article for  *)
(* every number, OVER's default range low..high leaves none of them out,    *)
(* and the estimate of GROUP is not below the count.                        *)
SnapshotValid ==
    \A s \in Sessions : \A n \in sess[s].nums :
        LET g == sess[s].cur IN
        arts[g][n] # Nothing /\ low[g] <= n /\ n <= high[g]

(* ARTICLE <id> shows an article that has that id, and, if the id is in the *)
(* article's own header, misses none that is not just being posted: posts   *)
(* to several groups, retried posts, reused numbers and restarts included.  *)
IndexExact ==
    \A m \in Msgs :
        /\ byMsgID[m] # Nowhere => arts[byMsgID[m][1]][byMsgID[m][2]] = m
        /\ m \notin Blank /\ byMsgID[m] = Nowhere /\ Holders(arts, m) # {} =>
             lock # NoSession /\ sess[lock].msg = m

-----------------------------------------------------------------------------
(* What a session was told about a group stays readable, and the index by   *)
(* message id is exact, also after restarts.                                *)
NewsReadable ==
    /\ NewsTypeOK
    /\ SnapshotValid
    /\ IndexExact

(* What was posted is kept and can be read.                                 *)
NewsKept == NewsReadable /\ DurableUnlessFailed
=============================================================================
