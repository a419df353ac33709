--------------------------- MODULE ServicesProofs ---------------------------
(***************************************************************************)
(* What the news server (Nntpd) guarantees for any finite set of groups,   *)
(* any articles, sessions and numbers, and what the dashboard guarantees   *)
(* of its rounds (StatusBoard), for any number of machines, clients and    *)
(* slots, and of the sizes and kernel releases it shows (StatusReport);    *)
(* proved with TLAPS.                                                      *)
(***************************************************************************)
EXTENDS Nntpd, StatusBoard, StatusReport, FiniteSetTheorems, NaturalsInduction,
        WellFoundedInduction, TLAPS

-----------------------------------------------------------------------------
(* The news server.                                                         *)

Writing == {"number", "store", "write"}

(* The lock is held by the session that posts, between PostLock and         *)
(* PostDone.                                                                *)
OneWriter == \A s \in Sessions : sess[s].pc \in Writing <=> lock = s

(* A process that does not run has no memory and no sessions.               *)
DownEmpty ==
    ~up =>
        /\ lock = NoSession /\ \A s \in Sessions : sess[s] = Off
        /\ \A g \in Groups : low[g] = 0 /\ high[g] = 0 /\ \A n \in Nums : arts[g][n] = Nothing
        /\ \A m \in Msgs : byMsgID[m] = Nowhere

(* What the command a session has begun will need.                          *)
CommandSound(s) ==
    /\ s.pc \in {"group", "list"} => s.to \in Groups
    /\ s.nums # {} => s.cur \in Groups
    /\ s.pc \in Writing \cup {"lock"} => s.msg \in Posts
    /\ s.pc \in {"store", "write"} => s.todo # <<>>
    /\ s.pc \notin Writing => s.stored = {}
CommandsSound == \A s \in Sessions : CommandSound(sess[s])

(* The bound on numbers, which PostLock looks at, is never exceeded.        *)
Places(q, g) == {i \in DOMAIN q : q[i] = g}
Ahead(s) == IF s.pc = "number" THEN s.todo ELSE Tail(s.todo)
RoomLeft ==
    \A s \in Sessions : lock = s =>
        \A g \in Groups : high[g] + Cardinality(Places(Ahead(sess[s]), g)) <= MaxNum

(* Articles lie between low and high, and low is set with the first.        *)
NumbersInRange ==
    \A g \in Groups :
        /\ low[g] <= high[g] /\ (low[g] = 0 => high[g] = 0)
        /\ \A n \in Numbers(g) : low[g] <= n /\ n <= high[g]

(* The number given to the article being posted is its own, and if the file *)
(* goes to another group's directory, that is known.                        *)
SlotSound(s) ==
    LET g == Head(s.todo) IN
    /\ s.pc = "store" => high[g] \in Nums /\ arts[g][high[g]] = Nothing
    /\ s.pc = "write" => high[g] \in Nums /\ arts[g][high[g]] = s.msg
    /\ s.pc \in {"store", "write"} /\ g \notin Deep => Made[g] = g \/ Made[g] \in aliased
SlotsSound == \A s \in Sessions : SlotSound(sess[s])

(* The index points to articles, and lacks, of those with an id of their    *)
(* own, only the one that is in the map but not yet in the index.           *)
IndexSound ==
    \A m \in Msgs :
        /\ byMsgID[m] # Nowhere => arts[byMsgID[m][1]][byMsgID[m][2]] = m
        /\ m \notin Blank /\ byMsgID[m] = Nowhere /\ Holders(arts, m) # {} =>
             \E s \in Sessions : sess[s].pc = "write" /\ sess[s].msg = m

(* What has been answered with 240, or will be, and the place being written.*)
Promised(a) ==
    \/ a \in acked
    \/ \E s \in Sessions : sess[s].msg = a[3] /\ <<a[1], a[2]>> \in sess[s].stored
BeingWritten(g, n) ==
    \E s \in Sessions : sess[s].pc = "write" /\ g = Head(sess[s].todo) /\ n = high[g]

(* Unless a file has failed, it is in memory, and not written again, and on *)
(* disk if the group has its directory to itself.                           *)
PromisesKept ==
    failures = 0 =>
        \A a \in Groups \X Nums \X Msgs : Promised(a) /\ Alone(a[1]) =>
            /\ a[1] \in dirs /\ spool[a[1]][a[2]] = a[3]
            /\ up => arts[a[1]][a[2]] = a[3]
            /\ ~BeingWritten(a[1], a[2])

NewsIInv ==
    /\ NewsTypeOK
    /\ OneWriter
    /\ DownEmpty
    /\ CommandsSound
    /\ RoomLeft
    /\ NumbersInRange
    /\ SlotsSound
    /\ SnapshotValid
    /\ IndexSound
    /\ PromisesKept

-----------------------------------------------------------------------------
(* Sets of article numbers, and places in a list of groups.                 *)

(* The bounds are numbers. *)
LEMMA BoundsTyped == MaxNum \in Nat /\ MaxNum >= 1 /\ MaxFailures \in Nat
  BY NamesAssumption

(* A set of natural numbers has a least one. *)
LEMMA LeastNumber ==
  ASSUME NEW S \in SUBSET Nat, S # {}
  PROVE  Min(S) \in S /\ \A y \in S : Min(S) <= y
<1> DEFINE R == {ss \in Nat \X Nat : ss[1] < ss[2]}
<1>1. IsWellFoundedOn(R, Nat)
  BY NatLessThanWellFounded DEF OpToRel
<1>2. PICK x \in S : \A y \in S : ~(<<y, x>> \in R)
  BY <1>1, WFMin
<1>3. ASSUME NEW y \in S PROVE x <= y
  <2>1. <<y, x>> \in Nat \X Nat /\ <<y, x>>[1] = y /\ <<y, x>>[2] = x
    OBVIOUS
  <2>2. ~(y < x)
    BY <1>2, <2>1
  <2> QED
    BY <2>2
<1> QED
  BY <1>3 DEF Min

(* The first of some article numbers. *)
LEMMA FirstIs ==
  ASSUME NEW S \in SUBSET Nums
  PROVE  /\ First(S) \in 0..MaxNum
         /\ S = {} => First(S) = 0
         /\ S # {} => First(S) \in S /\ First(S) >= 1 /\ \A n \in S : First(S) <= n
<1>1. CASE S = {}
  BY <1>1, BoundsTyped DEF First
<1>2. CASE S # {}
  <2>1. S \in SUBSET Nat
    BY DEF Nums
  <2>2. Min(S) \in S /\ \A n \in S : Min(S) <= n
    BY <1>2, <2>1, LeastNumber
  <2> QED
    <3>1. First(S) = Min(S)
      BY <1>2 DEF First
    <3>2. First(S) \in S /\ First(S) \in 1..MaxNum
      BY <2>2, <3>1 DEF Nums
    <3>3. First(S) \in Nat /\ First(S) >= 1 /\ First(S) <= MaxNum
      BY <3>2, BoundsTyped
    <3> QED
      BY <1>2, <2>2, <3>1, <3>2, <3>3, BoundsTyped
<1> QED
  BY <1>1, <1>2

(* ... and the last. *)
LEMMA HighestIs ==
  ASSUME NEW S \in SUBSET Nums
  PROVE  /\ Highest(S) \in 0..MaxNum
         /\ S = {} => Highest(S) = 0
         /\ S # {} => Highest(S) \in S /\ Highest(S) >= 1 /\ \A n \in S : n <= Highest(S)
<1>1. CASE S = {}
  BY <1>1, BoundsTyped DEF Highest
<1>2. CASE S # {}
  <2> DEFINE Mirrored == {MaxNum - n : n \in S}
  <2>1. Mirrored \in SUBSET Nat /\ Mirrored # {}
    <3>1. ASSUME NEW n \in 1..MaxNum PROVE MaxNum - n \in Nat
      BY BoundsTyped
    <3> QED
      BY <1>2, <3>1 DEF Nums
  <2>2. Min(Mirrored) \in Mirrored /\ \A k \in Mirrored : Min(Mirrored) <= k
    BY <2>1, LeastNumber
  <2>3. PICK x \in S : Min(Mirrored) = MaxNum - x
    BY <2>2
  <2>4. ASSUME NEW n \in S PROVE x >= n
    <3>1. MaxNum - x <= MaxNum - n
      BY <2>2, <2>3
    <3> QED
      BY <3>1, BoundsTyped DEF Nums
  <2>5. Max(S) \in S /\ \A n \in S : Max(S) >= n
    BY <2>4 DEF Max
  <2> HIDE DEF Mirrored
  <2>6. Highest(S) = Max(S)
    BY <1>2 DEF Highest
  <2> QED
    <3>2. Highest(S) \in S /\ Highest(S) \in 1..MaxNum
      BY <2>5, <2>6 DEF Nums
    <3>3. Highest(S) \in Nat /\ Highest(S) >= 1 /\ Highest(S) <= MaxNum
      BY <3>2, BoundsTyped
    <3>4. ASSUME NEW n \in S PROVE n <= Highest(S)
      <4>1. n \in Nat /\ Highest(S) >= n
        BY <2>5, <2>6, BoundsTyped DEF Nums
      <4> QED
        BY <3>3, <4>1
    <3> QED
      BY <1>2, <3>2, <3>3, <3>4, BoundsTyped
<1> QED
  BY <1>1, <1>2

(* There are finitely many places in a list. *)
LEMMA PlacesFinite ==
  ASSUME NEW q \in Seq(Groups), NEW g
  PROVE  IsFiniteSet(Places(q, g)) /\ Cardinality(Places(q, g)) \in Nat
<1>1. IsFiniteSet(1..Len(q))
  BY FS_Interval
<1>2. Places(q, g) \subseteq 1..Len(q)
  BY DEF Places
<1> QED
  BY <1>1, <1>2, FS_Subset, FS_CardinalityType

(* The rest of a list has no more places for a group, and one less for the  *)
(* group at its head.                                                       *)
LEMMA PlacesTail ==
  ASSUME NEW q \in Seq(Groups), q # <<>>, NEW g
  PROVE  /\ Cardinality(Places(Tail(q), g)) <= Cardinality(Places(q, g))
         /\ g = Head(q) => Cardinality(Places(Tail(q), g)) + 1 <= Cardinality(Places(q, g))
<1> DEFINE T == Places(Tail(q), g)
           S == Places(q, g)
           f == [i \in T |-> i + 1]
<1>1. /\ Tail(q) \in Seq(Groups) /\ Len(Tail(q)) = Len(q) - 1 /\ Len(q) \in Nat
      /\ \A i \in 1..Len(Tail(q)) : Tail(q)[i] = q[i + 1]
  OBVIOUS
<1>2. IsFiniteSet(S) /\ Cardinality(S) \in Nat /\ IsFiniteSet(T) /\ Cardinality(T) \in Nat
  BY <1>1, PlacesFinite
<1>3. f \in [T -> S \ {1}] /\ \A i, j \in T : f[i] = f[j] => i = j
  BY <1>1 DEF Places
<1>4. f \in Injection(T, S \ {1})
  BY <1>3 DEF Injection, IsInjective
<1>5. IsFiniteSet(S \ {1}) /\ Cardinality(S \ {1}) = IF 1 \in S THEN Cardinality(S) - 1 ELSE Cardinality(S)
  BY <1>2, FS_RemoveElement
<1>6. Cardinality(T) <= Cardinality(S \ {1})
  BY <1>4, <1>5, FS_Injection
<1>7. g = Head(q) => 1 \in S
  BY DEF Places
<1> HIDE DEF T, S, f
<1>8. Cardinality(T) <= Cardinality(S) /\ (1 \in S => Cardinality(T) + 1 <= Cardinality(S))
  BY <1>2, <1>5, <1>6
<1> QED
  BY <1>7, <1>8 DEF T, S

-----------------------------------------------------------------------------
(* Readers, and what they leave alone.                                      *)

(* What the invariant says of one session. *)
LEMMA SessionTyped ==
  ASSUME NewsTypeOK, NEW s \in Sessions
  PROVE  /\ sess[s] \in Session
         /\ sess[s].pc \in Pcs /\ sess[s].cur \in Groups \cup {NoGroup} /\ sess[s].art \in 0..MaxNum
         /\ sess[s].to \in Groups \cup {NoGroup} /\ sess[s].nums \in SUBSET Nums
         /\ sess[s].todo \in Seq(Groups) /\ sess[s].msg \in Slot /\ sess[s].stored \in SUBSET Locs
<1>1. sess[s] \in Session
  BY DEF NewsTypeOK
<1> QED
  BY <1>1 DEF Session

(* A session that is connected runs in a process that is up.                *)
LEMMA ConnectedUp ==
  ASSUME NewsIInv, NEW s \in Sessions, sess[s].pc # "off"
  PROVE  up
  BY DEF NewsIInv, DownEmpty, Off

(* The server starts with nothing. *)
LEMMA NewsInitIInv == NewsInit => NewsIInv
<1> SUFFICES ASSUME NewsInit PROVE NewsIInv
  OBVIOUS
<1>1. /\ up = FALSE /\ groups = {} /\ lock = NoSession /\ acked = {} /\ aliased = {} /\ failures = 0 /\ dirs = {}
      /\ arts = [g \in Groups |-> [n \in Nums |-> Nothing]] /\ spool = arts
      /\ low = [g \in Groups |-> 0] /\ high = low
      /\ byMsgID = [m \in Msgs |-> Nowhere] /\ sess = [s \in Sessions |-> Off]
  BY DEF NewsInit
<1>2. NoSession \notin Sessions
  BY NamesAssumption
<1>3. Off \in Session
  BY BoundsTyped DEF Off, Session, Pcs, Slot
<1>4. NewsTypeOK
  <2>1. up \in BOOLEAN /\ failures \in 0..MaxFailures
    <3>1. 0 \in 0..MaxFailures
      BY BoundsTyped
    <3> QED
      BY <1>1, <3>1
  <2>2. groups \subseteq Groups /\ dirs \subseteq Groups
    BY <1>1
  <2>3. arts \in [Groups -> [Nums -> Slot]] /\ spool \in [Groups -> [Nums -> Slot]]
    BY <1>1 DEF Slot
  <2>4. low \in [Groups -> 0..MaxNum] /\ high \in [Groups -> 0..MaxNum]
    BY <1>1, BoundsTyped
  <2>5. byMsgID \in [Msgs -> Locs \cup {Nowhere}]
    BY <1>1
  <2>6. /\ lock \in Sessions \cup {NoSession} /\ sess \in [Sessions -> Session]
        /\ acked \subseteq Groups \X Nums \X Msgs /\ aliased \subseteq Groups
    BY <1>1, <1>3
  <2> QED
    BY <2>1, <2>2, <2>3, <2>4, <2>5, <2>6 DEF NewsTypeOK
<1>5. \A s \in Sessions : sess[s] = Off /\ Off.pc = "off" /\ Off.nums = {} /\ Off.stored = {}
  BY <1>1 DEF Off
<1>6. OneWriter /\ RoomLeft
  BY <1>1, <1>2, <1>5 DEF OneWriter, RoomLeft, Writing
<1>7. DownEmpty
  BY <1>1 DEF DownEmpty
<1>8. CommandsSound /\ SlotsSound /\ SnapshotValid
  BY <1>5 DEF CommandsSound, CommandSound, SlotsSound, SlotSound, SnapshotValid, Writing
<1>9. NumbersInRange /\ IndexSound
  <2>1. \A g \in Groups : Numbers(g) = {} /\ low[g] = 0 /\ high[g] = 0
    BY <1>1 DEF Numbers
  <2>2. Nothing \notin Msgs
    BY NamesAssumption
  <2>3. \A m \in Msgs : Holders(arts, m) = {} /\ byMsgID[m] = Nowhere
    BY <1>1, <2>2 DEF Holders, Locs
  <2> QED
    BY <2>1, <2>3 DEF NumbersInRange, IndexSound
<1>10. PromisesKept
  BY <1>1, <1>5 DEF PromisesKept, Promised
<1> QED
  BY <1>4, <1>6, <1>7, <1>8, <1>9, <1>10 DEF NewsIInv

(* A step of one session that does not post keeps the invariant, if what it *)
(* remembers from now on is true.                                           *)
LEMMA SessionStep ==
  ASSUME NewsIInv, up, NEW s \in Sessions, NEW new \in Session, Set(s, new), UNCHANGED Shared,
         sess[s].pc \notin Writing, new.pc \notin Writing, CommandSound(new),
         \A n \in new.nums : LET g == new.cur IN
             arts[g][n] # Nothing /\ low[g] <= n /\ n <= high[g]
  PROVE  NewsIInv'
<1>1. UNCHANGED <<up, groups, arts, low, high, byMsgID, dirs, spool, lock, acked, aliased, failures>>
  BY DEF Shared, memory, disk
<1>2. sess' = [sess EXCEPT ![s] = new] /\ sess \in [Sessions -> Session]
  BY DEF Set, NewsIInv, NewsTypeOK
<1>3. sess'[s] = new /\ \A t \in Sessions \ {s} : sess'[t] = sess[t]
  BY <1>2
<1>4. NewsTypeOK'
  BY <1>1, <1>2 DEF NewsIInv, NewsTypeOK
<1>5. OneWriter'
  BY <1>1, <1>3 DEF NewsIInv, OneWriter
<1>6. lock # s
  BY DEF NewsIInv, OneWriter
<1>7. RoomLeft'
  <2>1. ASSUME NEW t \in Sessions, lock' = t PROVE sess'[t] = sess[t]
    BY <1>1, <1>3, <1>6, <2>1
  <2> QED
    BY <1>1, <2>1 DEF NewsIInv, RoomLeft, Ahead
<1>8. DownEmpty'
  BY <1>1 DEF DownEmpty
<1>9. CommandsSound'
  BY <1>3 DEF NewsIInv, CommandsSound, CommandSound
<1>10. new.pc # "store" /\ new.pc # "write"
  BY DEF Writing
<1>11. SlotsSound'
  BY <1>1, <1>3, <1>10 DEF NewsIInv, SlotsSound, SlotSound
<1>12. SnapshotValid'
  BY <1>1, <1>3 DEF NewsIInv, SnapshotValid
<1>13. NumbersInRange'
  BY <1>1 DEF NewsIInv, NumbersInRange, Numbers
<1>14. sess[s].pc # "write"
  BY DEF Writing
<1>15. IndexSound'
  <2>1. \A m : (\E t \in Sessions : sess[t].pc = "write" /\ sess[t].msg = m) =>
                 (\E t \in Sessions : sess'[t].pc = "write" /\ sess'[t].msg = m)
    BY <1>3, <1>14
  <2>2. \A m \in Msgs : Holders(arts, m)' = Holders(arts, m)
    BY <1>1 DEF Holders
  <2> QED
    BY <1>1, <2>1, <2>2 DEF NewsIInv, IndexSound
<1>16. PromisesKept'
  <2>1. ASSUME NEW a, Promised(a)' PROVE Promised(a)
    <3>1. new.stored = {}
      BY DEF CommandSound
    <3> QED
      BY <1>1, <1>3, <2>1, <3>1 DEF Promised
  <2>2. ASSUME NEW g, NEW n, BeingWritten(g, n)' PROVE BeingWritten(g, n)
    BY <1>1, <1>3, <1>10, <2>2 DEF BeingWritten
  <2> QED
    BY <1>1, <2>1, <2>2 DEF NewsIInv, PromisesKept, Alone
<1> QED
  BY <1>4, <1>5, <1>7, <1>8, <1>9, <1>11, <1>12, <1>13, <1>15, <1>16 DEF NewsIInv

(* The numbers of a group are those of its articles. *)
LEMMA NumbersAre ==
  ASSUME NewsIInv, NEW g \in Groups
  PROVE  /\ Numbers(g) \in SUBSET Nums
         /\ \A n \in Numbers(g) : arts[g][n] # Nothing /\ low[g] <= n /\ n <= high[g]
  BY DEF NewsIInv, NumbersInRange, Numbers

(* Connections come and go. *)
LEMMA ConnectKeeps ==
  ASSUME NewsIInv, NEW s \in Sessions, Accept(s) \/ Close(s)
  PROVE  NewsIInv'
<1>1. Off \in Session /\ [Off EXCEPT !.pc = "ready"] \in Session
  <2>1. Off \in Session
    BY BoundsTyped DEF Off, Session, Pcs, Slot
  <2> QED
    BY <2>1 DEF Session, Pcs
<1>2. sess[s].pc \notin Writing
  BY DEF Accept, Close, Ready, Writing
<1>3. up /\ UNCHANGED Shared
  BY ConnectedUp DEF Accept, Close, Ready
<1>4. CASE Accept(s)
  <2> DEFINE new == [Off EXCEPT !.pc = "ready"]
  <2>1. new.pc = "ready" /\ new.nums = {} /\ new.stored = {}
    BY DEF Off
  <2>2. new.pc \notin Writing /\ CommandSound(new)
    BY <2>1 DEF Writing, CommandSound
  <2>3. Set(s, new)
    BY <1>4 DEF Accept
  <2> HIDE DEF new
  <2> QED
    BY <1>1, <1>2, <1>3, <2>1, <2>2, <2>3, SessionStep DEF new
<1>5. CASE Close(s)
  <2>1. Off.pc = "off" /\ Off.nums = {} /\ Off.stored = {}
    BY DEF Off
  <2>2. Off.pc \notin Writing /\ CommandSound(Off)
    BY <2>1 DEF Writing, CommandSound
  <2>3. Set(s, Off)
    BY <1>5 DEF Close
  <2> QED
    BY <1>1, <1>2, <1>3, <2>1, <2>2, <2>3, SessionStep
<1> QED
  BY <1>4, <1>5

(* The fields of a session whose command names a group. *)
LEMMA BeginCommand ==
  ASSUME NewsIInv, NEW s \in Sessions, Ready(s), NEW pc \in {"group", "list"}, NEW g \in Groups,
         Set(s, [sess[s] EXCEPT !.pc = pc, !.to = g]), UNCHANGED Shared
  PROVE  NewsIInv'
<1> DEFINE new == [sess[s] EXCEPT !.pc = pc, !.to = g]
<1>1. sess[s] \in Session
  BY SessionTyped DEF NewsIInv
<1>2. new \in Session
  BY <1>1 DEF Session, Pcs
<1>3. new.pc = pc /\ new.to = g /\ new.nums = sess[s].nums /\ new.cur = sess[s].cur /\ new.stored = sess[s].stored
  BY <1>1 DEF Session
<1>4. sess[s].pc = "ready" /\ sess[s].pc \notin Writing /\ new.pc \notin Writing
  BY <1>3 DEF Ready, Writing
<1>5. CommandSound(new)
  BY <1>3, <1>4 DEF NewsIInv, CommandsSound, CommandSound, Writing
<1>6. \A n \in new.nums : arts[new.cur][n] # Nothing /\ low[new.cur] <= n /\ n <= high[new.cur]
  BY <1>3 DEF NewsIInv, SnapshotValid
<1>7. up
  BY <1>4, ConnectedUp
<1> HIDE DEF new
<1> QED
  BY <1>2, <1>4, <1>5, <1>6, <1>7, SessionStep DEF new

(* A session reads the numbers of a group, which becomes or is its current  *)
(* one.                                                                     *)
LEMMA ReadGroup ==
  ASSUME NewsIInv, NEW s \in Sessions, sess[s].pc \in {"ready", "group", "list"},
         NEW g \in Groups, NEW n \in 0..MaxNum, NEW to \in Groups \cup {NoGroup},
         NEW pc \in {"reply", "next", "last"},
         Set(s, [sess[s] EXCEPT !.pc = pc, !.cur = g, !.to = to, !.nums = Numbers(g), !.art = n]),
         UNCHANGED Shared
  PROVE  NewsIInv'
<1> DEFINE new == [sess[s] EXCEPT !.pc = pc, !.cur = g, !.to = to, !.nums = Numbers(g), !.art = n]
<1>1. sess[s] \in Session
  BY SessionTyped DEF NewsIInv
<1>2. Numbers(g) \in SUBSET Nums
  BY NumbersAre
<1>3. new \in Session
  BY <1>1, <1>2 DEF Session, Pcs
<1>4. new.pc = pc /\ new.cur = g /\ new.nums = Numbers(g) /\ new.stored = sess[s].stored
  BY <1>1 DEF Session
<1>5. sess[s].pc \notin Writing /\ new.pc \notin Writing /\ new.pc \notin {"lock", "group", "list", "store", "write"}
  BY <1>4 DEF Writing
<1>6. CommandSound(new)
  BY <1>4, <1>5 DEF NewsIInv, CommandsSound, CommandSound
<1>7. \A k \in new.nums : arts[new.cur][k] # Nothing /\ low[new.cur] <= k /\ k <= high[new.cur]
  BY <1>4, NumbersAre
<1>8. up
  BY ConnectedUp
<1> HIDE DEF new
<1> QED
  BY <1>3, <1>5, <1>6, <1>7, <1>8, SessionStep DEF new

(* A session forgets the numbers, and may move to another article. *)
LEMMA EndCommand ==
  ASSUME NewsIInv, NEW s \in Sessions, sess[s].pc \notin Writing, sess[s].pc # "off",
         NEW n \in 0..MaxNum,
         Set(s, [sess[s] EXCEPT !.pc = "ready", !.nums = {}, !.art = n]), UNCHANGED Shared
  PROVE  NewsIInv'
<1> DEFINE new == [sess[s] EXCEPT !.pc = "ready", !.nums = {}, !.art = n]
<1>1. sess[s] \in Session
  BY SessionTyped DEF NewsIInv
<1>2. new \in Session
  BY <1>1 DEF Session, Pcs
<1>3. new.pc = "ready" /\ new.nums = {} /\ new.stored = sess[s].stored
  BY <1>1 DEF Session
<1>4. new.pc \notin Writing /\ CommandSound(new)
  BY <1>3 DEF NewsIInv, CommandsSound, CommandSound, Writing
<1>5. up
  BY ConnectedUp
<1> HIDE DEF new
<1> QED
  BY <1>2, <1>3, <1>4, <1>5, SessionStep DEF new

(* Where NEXT and LAST lead.                                                *)
LEMMA NeighboursTyped ==
  ASSUME NEW nums \in SUBSET Nums, NEW n \in 0..MaxNum
  PROVE  /\ (IF After(nums, n) = {} THEN n ELSE Min(After(nums, n))) \in 0..MaxNum
         /\ (IF Before(nums, n) = {} THEN n ELSE Max(Before(nums, n))) \in 0..MaxNum
<1>1. After(nums, n) \in SUBSET Nums /\ Before(nums, n) \in SUBSET Nums
  BY DEF After, Before
<1>2. After(nums, n) # {} => Min(After(nums, n)) \in 0..MaxNum
  BY <1>1, FirstIs DEF First
<1>3. Before(nums, n) # {} => Max(Before(nums, n)) \in 0..MaxNum
  BY <1>1, HighestIs DEF Highest
<1> QED
  BY <1>2, <1>3

(* The commands that only read. *)
LEMMA ReadKeeps ==
  ASSUME NewsIInv, NEW s \in Sessions, Read(s)
  PROVE  NewsIInv'
<1>1. /\ sess[s] \in Session
      /\ sess[s].pc \in Pcs /\ sess[s].cur \in Groups \cup {NoGroup} /\ sess[s].art \in 0..MaxNum
      /\ sess[s].to \in Groups \cup {NoGroup} /\ sess[s].nums \in SUBSET Nums
  BY SessionTyped DEF NewsIInv
<1>2. ASSUME NEW g \in Groups, LookupGroup(s, g, "group") \/ LookupGroup(s, g, "list") PROVE NewsIInv'
  BY <1>2, BeginCommand DEF LookupGroup
<1>3. CASE ListCurrent(s)
  <2>1. sess[s].cur \in Groups
    BY <1>1, <1>3 DEF ListCurrent
  <2> QED
    BY <1>3, <2>1, BeginCommand DEF ListCurrent
<1>4. CASE SelectGroup(s)
  <2>1. sess[s].pc = "group" /\ sess[s].to \in Groups
    BY <1>4 DEF SelectGroup, NewsIInv, CommandsSound, CommandSound
  <2>2. First(Numbers(sess[s].to)) \in 0..MaxNum
    BY <2>1, NumbersAre, FirstIs
  <2>3. /\ UNCHANGED Shared
        /\ Set(s, [sess[s] EXCEPT !.pc = "reply", !.cur = sess[s].to, !.to = NoGroup,
                     !.nums = Numbers(sess[s].to), !.art = First(Numbers(sess[s].to))])
    BY <1>4 DEF SelectGroup
  <2> QED
    BY <2>1, <2>2, <2>3, ReadGroup
<1>5. CASE SelectList(s)
  <2> DEFINE n == IF Numbers(sess[s].to) = {} THEN sess[s].art ELSE Min(Numbers(sess[s].to))
  <2>1. sess[s].pc = "list" /\ sess[s].to \in Groups
    BY <1>5 DEF SelectList, NewsIInv, CommandsSound, CommandSound
  <2>2. n \in 0..MaxNum
    BY <1>1, <2>1, NumbersAre, FirstIs DEF First
  <2>3. /\ UNCHANGED Shared
        /\ Set(s, [sess[s] EXCEPT !.pc = "reply", !.cur = sess[s].to, !.to = NoGroup,
                     !.nums = Numbers(sess[s].to), !.art = n])
    BY <1>5 DEF SelectList
  <2> HIDE DEF n
  <2> QED
    BY <2>1, <2>2, <2>3, ReadGroup
<1>6. ASSUME NEW pc \in {"next", "last", "reply"}, ReadNumbers(s, pc) PROVE NewsIInv'
  <2>1. sess[s].pc = "ready" /\ sess[s].cur \in Groups /\ UNCHANGED Shared
    BY <1>1, <1>6 DEF ReadNumbers, Ready
  <2>2. Set(s, [sess[s] EXCEPT !.pc = pc, !.nums = Numbers(sess[s].cur)])
    BY <1>6 DEF ReadNumbers
  <2>3. [sess[s] EXCEPT !.pc = pc, !.nums = Numbers(sess[s].cur)] =
          [sess[s] EXCEPT !.pc = pc, !.cur = sess[s].cur, !.to = sess[s].to,
                          !.nums = Numbers(sess[s].cur), !.art = sess[s].art]
    BY <1>1 DEF Session
  <2>4. Set(s, [sess[s] EXCEPT !.pc = pc, !.cur = sess[s].cur, !.to = sess[s].to,
                               !.nums = Numbers(sess[s].cur), !.art = sess[s].art])
    BY <2>2, <2>3
  <2> QED
    BY <1>1, <2>1, <2>4, ReadGroup
<1>7. CASE MoveNext(s)
  <2> DEFINE S == After(sess[s].nums, sess[s].art)
             n == IF S = {} THEN sess[s].art ELSE Min(S)
  <2>1. sess[s].pc = "next" /\ UNCHANGED Shared
    BY <1>7 DEF MoveNext
  <2>2. Set(s, [sess[s] EXCEPT !.pc = "ready", !.nums = {}, !.art = n])
    BY <1>7 DEF MoveNext
  <2>3. n \in 0..MaxNum /\ sess[s].pc \notin Writing
    BY <1>1, <2>1, NeighboursTyped DEF Writing
  <2> HIDE DEF n
  <2> QED
    BY <2>1, <2>2, <2>3, EndCommand
<1>8. CASE MoveLast(s)
  <2> DEFINE S == Before(sess[s].nums, sess[s].art)
             n == IF S = {} THEN sess[s].art ELSE Max(S)
  <2>1. sess[s].pc = "last" /\ UNCHANGED Shared
    BY <1>8 DEF MoveLast
  <2>2. Set(s, [sess[s] EXCEPT !.pc = "ready", !.nums = {}, !.art = n])
    BY <1>8 DEF MoveLast
  <2>3. n \in 0..MaxNum /\ sess[s].pc \notin Writing
    BY <1>1, <2>1, NeighboursTyped DEF Writing
  <2> HIDE DEF n
  <2> QED
    BY <2>1, <2>2, <2>3, EndCommand
<1>9. CASE Answer(s)
  <2>1. sess[s].pc = "reply" /\ sess[s].pc \notin Writing /\ UNCHANGED Shared
    BY <1>9 DEF Answer, Writing
  <2>2. Set(s, [sess[s] EXCEPT !.pc = "ready", !.nums = {}])
    BY <1>9 DEF Answer
  <2>3. [sess[s] EXCEPT !.pc = "ready", !.nums = {}] =
          [sess[s] EXCEPT !.pc = "ready", !.nums = {}, !.art = sess[s].art]
    BY <1>1 DEF Session
  <2>4. Set(s, [sess[s] EXCEPT !.pc = "ready", !.nums = {}, !.art = sess[s].art])
    BY <2>2, <2>3
  <2> QED
    BY <1>1, <2>1, <2>4, EndCommand
<1>10. ASSUME NEW n \in Nums, Article(s, n) PROVE NewsIInv'
  <2> DEFINE new == [sess[s] EXCEPT !.art = n]
  <2>1. sess[s].pc = "ready" /\ UNCHANGED Shared /\ Set(s, new)
    BY <1>10 DEF Article, Ready
  <2>2. n \in 0..MaxNum
    BY BoundsTyped DEF Nums
  <2>3. new \in Session
    BY <1>1, <2>2 DEF Session
  <2>4. /\ new.pc = "ready" /\ new.nums = sess[s].nums /\ new.cur = sess[s].cur
        /\ new.stored = sess[s].stored
    BY <1>1, <2>1 DEF Session
  <2>5. sess[s].pc \notin Writing /\ new.pc \notin Writing /\ CommandSound(new)
    BY <2>1, <2>4 DEF NewsIInv, CommandsSound, CommandSound, Writing
  <2>6. \A k \in new.nums : arts[new.cur][k] # Nothing /\ low[new.cur] <= k /\ k <= high[new.cur]
    BY <2>4 DEF NewsIInv, SnapshotValid
  <2>7. up
    BY <2>1, ConnectedUp
  <2> HIDE DEF new
  <2> QED
    BY <2>1, <2>3, <2>5, <2>6, <2>7, SessionStep
<1> QED
  BY <1>2, <1>3, <1>4, <1>5, <1>6, <1>7, <1>8, <1>9, <1>10 DEF Read

(* POST: the article has arrived. *)
LEMMA PostKeeps ==
  ASSUME NewsIInv, NEW s \in Sessions, NEW gs \in Newsgroups, NEW m \in Posts, Post(s, gs, m)
  PROVE  NewsIInv'
<1> DEFINE new == [sess[s] EXCEPT !.pc = "lock", !.todo = gs, !.msg = m]
<1>1. sess[s] \in Session
  BY SessionTyped DEF NewsIInv
<1>2. sess[s].pc = "ready" /\ UNCHANGED Shared /\ Set(s, new)
  BY DEF Post, Ready
<1>3. gs \in Seq(Groups) /\ m \in Slot
  BY NamesAssumption DEF Slot
<1>4. new \in Session
  BY <1>1, <1>3 DEF Session, Pcs
<1>5. /\ new.pc = "lock" /\ new.nums = sess[s].nums /\ new.cur = sess[s].cur
      /\ new.stored = sess[s].stored /\ new.msg = m
  BY <1>1 DEF Session
<1>6. sess[s].pc \notin Writing /\ new.pc \notin Writing /\ CommandSound(new)
  BY <1>2, <1>5 DEF NewsIInv, CommandsSound, CommandSound, Writing
<1>7. \A k \in new.nums : arts[new.cur][k] # Nothing /\ low[new.cur] <= k /\ k <= high[new.cur]
  BY <1>5 DEF NewsIInv, SnapshotValid
<1>8. up
  BY <1>2, ConnectedUp
<1> HIDE DEF new
<1> QED
  BY <1>2, <1>4, <1>6, <1>7, <1>8, SessionStep

-----------------------------------------------------------------------------
(* Starting and ending.                                                     *)

(* An article is at a place, not nowhere. *)
LEMMA PlacesAre == \A l \in Locs : l # Nowhere
  BY DEF Locs, Nowhere

(* loadSpool: what was answered is in the spool, and is read back unless a  *)
(* file fails.                                                              *)
LEMMA LoadSpoolKeeps ==
  ASSUME NewsIInv, ~up, up', LoadSpool, UNCHANGED <<lock, sess, acked, aliased>>
  PROVE  NewsIInv'
<1>1. PICK bad \in SUBSET {l \in Locs : spool[l[1]][l[2]] # Nothing} :
        /\ arts' = [g \in Groups |-> [n \in Nums |-> IF <<g, n>> \in bad THEN Nothing ELSE spool[g][n]]]
        /\ failures' = failures + Cardinality(bad) /\ failures' <= MaxFailures
  BY DEF LoadSpool
<1>2. /\ groups' = dirs /\ dirs' = dirs /\ spool' = spool
      /\ low' = [g \in Groups |-> First({n \in Nums : arts'[g][n] # Nothing})]
      /\ high' = [g \in Groups |-> Highest({n \in Nums : arts'[g][n] # Nothing})]
      /\ byMsgID' \in [Msgs -> Locs \cup {Nowhere}] /\ IndexOf(arts', byMsgID')
  BY DEF LoadSpool, disk
<1>3. lock = NoSession /\ \A s \in Sessions : sess[s] = Off
  BY DEF NewsIInv, DownEmpty
<1>4. /\ OneWriter' /\ CommandsSound' /\ RoomLeft' /\ SlotsSound' /\ SnapshotValid'
      /\ \A a : Promised(a)' <=> a \in acked
      /\ \A g, n : ~BeingWritten(g, n)'
  <2>1. lock' = NoSession /\ \A s \in Sessions : sess'[s] = Off
    BY <1>3
  <2>2. \A s \in Sessions : sess'[s].pc = "off" /\ sess'[s].nums = {} /\ sess'[s].stored = {} /\ lock' # s
    BY <2>1, NamesAssumption DEF Off
  <2> QED
    BY <2>2 DEF OneWriter, CommandsSound, CommandSound, RoomLeft, SlotsSound, SlotSound,
       SnapshotValid, Promised, BeingWritten, Writing
<1>5. IsFiniteSet(bad) /\ Cardinality(bad) \in Nat
  <2>1. IsFiniteSet(Nums)
    BY FS_Interval, BoundsTyped DEF Nums
  <2>2. IsFiniteSet(Locs)
    BY <2>1, GroupsAssumption, FS_Product DEF Locs
  <2> QED
    BY <2>2, FS_Subset, FS_CardinalityType
<1>6. failures \in Nat /\ failures <= MaxFailures /\ spool \in [Groups -> [Nums -> Slot]]
  BY BoundsTyped DEF NewsIInv, NewsTypeOK
<1>7. arts' \in [Groups -> [Nums -> Slot]]
  BY <1>1, <1>6 DEF Slot
<1>8. ASSUME NEW g \in Groups
      PROVE  /\ low'[g] = First(Numbers(g)') /\ high'[g] = Highest(Numbers(g)')
             /\ Numbers(g)' \in SUBSET Nums
  BY <1>2 DEF Numbers
<1>9. NewsTypeOK'
  <2>1. failures' \in 0..MaxFailures
    BY <1>1, <1>5, <1>6, BoundsTyped
  <2>2. low' \in [Groups -> 0..MaxNum] /\ high' \in [Groups -> 0..MaxNum]
    <3>1. \A g \in Groups : low'[g] \in 0..MaxNum /\ high'[g] \in 0..MaxNum
      BY <1>8, FirstIs, HighestIs
    <3> QED
      BY <1>2, <3>1
  <2> QED
    BY <1>2, <1>3, <1>7, <2>1, <2>2 DEF NewsIInv, NewsTypeOK
<1>10. DownEmpty'
  BY DEF DownEmpty
<1>11. NumbersInRange'
  <2> SUFFICES ASSUME NEW g \in Groups
               PROVE  /\ low'[g] <= high'[g] /\ (low'[g] = 0 => high'[g] = 0)
                      /\ \A n \in Numbers(g)' : low'[g] <= n /\ n <= high'[g]
    BY DEF NumbersInRange
  <2>1. CASE Numbers(g)' = {}
    BY <1>8, <2>1, FirstIs, HighestIs
  <2>2. CASE Numbers(g)' # {}
    <3>1. low'[g] >= 1 /\ low'[g] \in 0..MaxNum /\ \A n \in Numbers(g)' : low'[g] <= n
      BY <1>8, <2>2, FirstIs
    <3>2. high'[g] \in Numbers(g)' /\ \A n \in Numbers(g)' : n <= high'[g]
      BY <1>8, <2>2, HighestIs
    <3>3. low'[g] <= high'[g] /\ low'[g] # 0
      BY <3>1, <3>2
    <3> QED
      BY <3>1, <3>2, <3>3
  <2> QED
    BY <2>1, <2>2
<1>12. IndexSound'
  <2> SUFFICES ASSUME NEW m \in Msgs
               PROVE  /\ byMsgID'[m] # Nowhere => arts'[byMsgID'[m][1]][byMsgID'[m][2]] = m
                      /\ m \notin Blank /\ Holders(arts, m)' # {} => byMsgID'[m] # Nowhere
    BY DEF IndexSound
  <2>1. IF m \in Blank \/ Holders(arts', m) = {} THEN byMsgID'[m] = Nowhere
                                                ELSE byMsgID'[m] \in Holders(arts', m)
    BY <1>2 DEF IndexOf
  <2>2. \A l \in Holders(arts', m) : l \in Locs /\ arts'[l[1]][l[2]] = m
    BY DEF Holders
  <2>3. Holders(arts, m)' = Holders(arts', m)
    BY DEF Holders
  <2> QED
    BY <2>1, <2>2, <2>3, PlacesAre
<1>13. PromisesKept'
  <2> SUFFICES ASSUME failures' = 0, NEW a \in Groups \X Nums \X Msgs, a \in acked, Alone(a[1])
               PROVE  a[1] \in dirs /\ spool[a[1]][a[2]] = a[3] /\ arts'[a[1]][a[2]] = a[3]
    BY <1>2, <1>4 DEF PromisesKept, Alone
  <2>1. failures = 0 /\ Cardinality(bad) = 0
    BY <1>1, <1>5, <1>6
  <2>2. bad = {}
    BY <1>5, <2>1, FS_EmptySet
  <2>3. arts'[a[1]][a[2]] = spool[a[1]][a[2]]
    BY <1>1, <2>2
  <2>4. Promised(a)
    BY DEF Promised
  <2> QED
    BY <2>1, <2>3, <2>4 DEF NewsIInv, PromisesKept, Alone
<1> QED
  BY <1>4, <1>9, <1>10, <1>11, <1>12, <1>13 DEF NewsIInv

(* Where a file goes, and where not.                                        *)
LEMMA FiledIs ==
  ASSUME NewsTypeOK, NEW g \in Groups, NEW n \in Nums, NEW c \in Slot
  PROVE  /\ dirs \subseteq DirsWith(g) /\ DirsWith(g) \subseteq Groups
         /\ Filed(g, n, c) \in [Groups -> [Nums -> Slot]]
         /\ \A h \in Groups, k \in Nums :
              g \in Deep \/ h # Made[g] \/ k # n => Filed(g, n, c)[h][k] = spool[h][k]
         /\ g \notin Deep /\ Made[g] = g => g \in DirsWith(g) /\ Filed(g, n, c)[g][n] = c
<1>1. spool \in [Groups -> [Nums -> Slot]] /\ dirs \subseteq Groups
  BY DEF NewsTypeOK
<1>2. Made[g] \in Groups \cup {NoGroup} /\ NoGroup \notin Groups
  BY DirectoriesAssumption, NamesAssumption
<1>3. dirs \subseteq DirsWith(g) /\ DirsWith(g) \subseteq Groups
  BY <1>1, <1>2 DEF DirsWith
<1>4. CASE g \in Deep
  BY <1>1, <1>3, <1>4 DEF Filed
<1>5. CASE g \notin Deep
  <2>1. Filed(g, n, c) = [spool EXCEPT ![Made[g]][n] = c] /\ Made[g] \in Groups
    BY <1>2, <1>5, DirectoriesAssumption DEF Filed
  <2>2. Filed(g, n, c) \in [Groups -> [Nums -> Slot]]
    BY <1>1, <2>1
  <2>3. \A h \in Groups, k \in Nums : h # Made[g] \/ k # n => Filed(g, n, c)[h][k] = spool[h][k]
    BY <1>1, <2>1
  <2>4. Made[g] = g => g \in DirsWith(g) /\ Filed(g, n, c)[g][n] = c
    BY <1>1, <1>2, <2>1 DEF DirsWith
  <2> QED
    BY <1>3, <1>5, <2>2, <2>3, <2>4
<1> QED
  BY <1>4, <1>5

(* Writing a file: only that file changes, in the directory the name leads  *)
(* to, and unless it is counted as a failure it is there in full.           *)
LEMMA WriteIs ==
  ASSUME NewsTypeOK, NEW g \in Groups, NEW n \in Nums, NEW m \in Msgs, WriteArticle(g, n, m)
  PROVE  /\ failures' \in 0..MaxFailures /\ (failures' = 0 => failures = 0)
         /\ dirs \subseteq dirs' /\ dirs' \subseteq Groups
         /\ spool' \in [Groups -> [Nums -> Slot]]
         /\ \A h \in Groups, k \in Nums :
              g \in Deep \/ h # Made[g] \/ k # n => spool'[h][k] = spool[h][k]
         /\ failures' = 0 /\ g \notin Deep /\ Made[g] = g => g \in dirs' /\ spool'[g][n] = m
<1>1. failures \in Nat /\ failures <= MaxFailures /\ spool \in [Groups -> [Nums -> Slot]] /\ dirs \subseteq Groups
  BY BoundsTyped DEF NewsTypeOK
<1>2. m \in Slot /\ Cut \in Slot
  BY DEF Slot
<1>3. CASE dirs' = DirsWith(g) /\ spool' = Filed(g, n, m) /\ UNCHANGED failures
  <2>1. failures' \in 0..MaxFailures /\ (failures' = 0 => failures = 0)
    BY <1>1, <1>3, BoundsTyped
  <2> QED
    BY <1>2, <1>3, <2>1, FiledIs
<1>4. CASE /\ dirs' \in {dirs, DirsWith(g)}
           /\ UNCHANGED spool \/ spool' = Filed(g, n, Cut)
           /\ failures < MaxFailures /\ failures' = failures + 1
  <2>1. failures' \in 0..MaxFailures /\ failures' # 0
    BY <1>1, <1>4, BoundsTyped
  <2>2. dirs \subseteq dirs' /\ dirs' \subseteq Groups
    BY <1>1, <1>2, <1>4, FiledIs
  <2>3. /\ spool' \in [Groups -> [Nums -> Slot]]
        /\ \A h \in Groups, k \in Nums :
             g \in Deep \/ h # Made[g] \/ k # n => spool'[h][k] = spool[h][k]
    <3>1. CASE UNCHANGED spool
      BY <1>1, <3>1
    <3>2. CASE spool' = Filed(g, n, Cut)
      BY <1>2, <3>2, FiledIs
    <3> QED
      BY <1>4, <3>1, <3>2
  <2> QED
    BY <2>1, <2>2, <2>3
<1> QED
  BY <1>3, <1>4 DEF WriteArticle

(* seedWelcomeGroup: there was no group, so nothing was ever answered.      *)
LEMMA SeedKeeps ==
  ASSUME NewsIInv, ~up, up', SeedWelcomeGroup, UNCHANGED <<lock, sess, acked, aliased>>
  PROVE  NewsIInv'
<1>1. /\ dirs = {} /\ groups' = {Welcome}
      /\ arts' = [arts EXCEPT ![Welcome][1] = WelcomeMsg]
      /\ low' = [low EXCEPT ![Welcome] = 1] /\ high' = [high EXCEPT ![Welcome] = 1]
      /\ byMsgID' = [byMsgID EXCEPT ![WelcomeMsg] = <<Welcome, 1>>]
      /\ WriteArticle(Welcome, 1, WelcomeMsg)
  BY DEF SeedWelcomeGroup
<1>2. Welcome \in Groups /\ WelcomeMsg \in Msgs /\ WelcomeMsg \notin Blank
  BY NamesAssumption
<1>3. 1 \in Nums /\ 1 \in 0..MaxNum
  BY BoundsTyped DEF Nums
<1>4. /\ lock = NoSession /\ \A s \in Sessions : sess[s] = Off
      /\ \A g \in Groups : low[g] = 0 /\ high[g] = 0 /\ \A n \in Nums : arts[g][n] = Nothing
      /\ \A m \in Msgs : byMsgID[m] = Nowhere
  BY DEF NewsIInv, DownEmpty
<1>5. /\ OneWriter' /\ CommandsSound' /\ RoomLeft' /\ SlotsSound' /\ SnapshotValid'
      /\ \A a : Promised(a)' <=> a \in acked
      /\ \A g, n : ~BeingWritten(g, n)'
  <2>1. lock' = NoSession /\ \A s \in Sessions : sess'[s] = Off
    BY <1>4
  <2>2. \A s \in Sessions : sess'[s].pc = "off" /\ sess'[s].nums = {} /\ sess'[s].stored = {} /\ lock' # s
    BY <2>1, NamesAssumption DEF Off
  <2> QED
    BY <2>2 DEF OneWriter, CommandsSound, CommandSound, RoomLeft, SlotsSound, SlotSound,
       SnapshotValid, Promised, BeingWritten, Writing
<1>6. NewsTypeOK
  BY DEF NewsIInv
<1>7. /\ failures' \in 0..MaxFailures /\ (failures' = 0 => failures = 0)
      /\ dirs' \subseteq Groups /\ spool' \in [Groups -> [Nums -> Slot]]
  BY <1>1, <1>2, <1>3, <1>6, WriteIs
<1>8. /\ arts \in [Groups -> [Nums -> Slot]] /\ low \in [Groups -> 0..MaxNum]
      /\ high \in [Groups -> 0..MaxNum] /\ byMsgID \in [Msgs -> Locs \cup {Nowhere}]
  BY <1>6 DEF NewsTypeOK
<1>9. NewsTypeOK'
  <2>1. arts' \in [Groups -> [Nums -> Slot]]
    BY <1>1, <1>2, <1>3, <1>8 DEF Slot
  <2>2. low' \in [Groups -> 0..MaxNum] /\ high' \in [Groups -> 0..MaxNum]
    BY <1>1, <1>3, <1>8
  <2>3. byMsgID' \in [Msgs -> Locs \cup {Nowhere}]
    BY <1>1, <1>2, <1>3, <1>8 DEF Locs
  <2> QED
    BY <1>1, <1>2, <1>6, <1>7, <2>1, <2>2, <2>3 DEF NewsTypeOK
<1>10. DownEmpty'
  BY DEF DownEmpty
<1>11. NumbersInRange'
  <2> SUFFICES ASSUME NEW g \in Groups
               PROVE  /\ low'[g] <= high'[g] /\ (low'[g] = 0 => high'[g] = 0)
                      /\ \A n \in Numbers(g)' : low'[g] <= n /\ n <= high'[g]
    BY DEF NumbersInRange
  <2>1. CASE g = Welcome
    <3>1. low'[g] = 1 /\ high'[g] = 1
      BY <1>1, <1>2, <1>8, <2>1
    <3>2. \A n \in Nums : arts'[g][n] # Nothing => n = 1
      BY <1>1, <1>2, <1>3, <1>4, <1>8
    <3> QED
      BY <3>1, <3>2 DEF Numbers
  <2>2. CASE g # Welcome
    <3>1. low'[g] = 0 /\ high'[g] = 0 /\ arts'[g] = arts[g]
      BY <1>1, <1>4, <1>8, <2>2
    <3> QED
      BY <1>4, <3>1 DEF Numbers
  <2> QED
    BY <2>1, <2>2
<1>12. IndexSound'
  <2> SUFFICES ASSUME NEW m \in Msgs
               PROVE  /\ byMsgID'[m] # Nowhere => arts'[byMsgID'[m][1]][byMsgID'[m][2]] = m
                      /\ Holders(arts, m)' # {} => byMsgID'[m] # Nowhere
    BY DEF IndexSound
  <2>1. CASE m = WelcomeMsg
    <3>1. byMsgID'[m] = <<Welcome, 1>> /\ <<Welcome, 1>> \in Locs
      BY <1>1, <1>2, <1>3, <1>8, <2>1 DEF Locs
    <3>2. arts'[Welcome][1] = m
      BY <1>1, <1>2, <1>3, <1>8, <2>1
    <3> QED
      BY <3>1, <3>2, PlacesAre
  <2>2. CASE m # WelcomeMsg
    <3>1. byMsgID'[m] = Nowhere
      BY <1>1, <1>4, <1>8, <2>2
    <3>2. \A g \in Groups, n \in Nums : arts'[g][n] # m
      BY <1>1, <1>2, <1>3, <1>4, <1>8, <2>2, NamesAssumption
    <3>3. Holders(arts, m)' = {}
      BY <3>2 DEF Holders, Locs
    <3> QED
      BY <3>1, <3>3
  <2> QED
    BY <2>1, <2>2
<1>13. PromisesKept'
  <2> SUFFICES ASSUME failures' = 0, NEW a \in Groups \X Nums \X Msgs, a \in acked, Alone(a[1])
               PROVE  FALSE
    BY <1>5 DEF PromisesKept, Alone
  <2>1. failures = 0 /\ Promised(a)
    BY <1>7 DEF Promised
  <2> QED
    BY <1>1, <2>1 DEF NewsIInv, PromisesKept, Alone
<1> QED
  BY <1>5, <1>9, <1>10, <1>11, <1>12, <1>13 DEF NewsIInv

(* The process starts. *)
LEMMA StartKeeps == NewsIInv /\ Start => NewsIInv'
  BY LoadSpoolKeeps, SeedKeeps DEF Start

(* The session that has an article in hand.                                 *)
LEMMA WriterIs ==
  ASSUME NewsIInv, NEW s \in Sessions, sess[s].pc \in Writing
  PROVE  /\ up /\ lock = s /\ \A t \in Sessions \ {s} : sess[t].pc \notin Writing
         /\ sess[s].todo \in Seq(Groups) /\ sess[s].msg \in Posts /\ sess[s].msg \in Msgs
         /\ sess[s].todo # <<>> => Head(sess[s].todo) \in Groups /\ Tail(sess[s].todo) \in Seq(Groups)
<1>1. lock = s /\ \A t \in Sessions \ {s} : sess[t].pc \notin Writing
  BY DEF NewsIInv, OneWriter
<1>2. sess[s].todo \in Seq(Groups)
  BY SessionTyped DEF NewsIInv
<1>3. sess[s].msg \in Posts /\ sess[s].msg \in Msgs
  BY NamesAssumption DEF NewsIInv, CommandsSound, CommandSound
<1>4. sess[s].pc # "off"
  BY DEF Writing
<1>5. up
  BY <1>4, ConnectedUp
<1> QED
  BY <1>1, <1>2, <1>3, <1>5

(* ... and the number it has for it.                                        *)
LEMMA SlotIs ==
  ASSUME NewsIInv, NEW s \in Sessions, sess[s].pc \in {"store", "write"}
  PROVE  LET g == Head(sess[s].todo) IN
         /\ g \in Groups /\ Tail(sess[s].todo) \in Seq(Groups) /\ sess[s].todo # <<>>
         /\ high[g] \in Nums
         /\ sess[s].pc = "store" => arts[g][high[g]] = Nothing
         /\ sess[s].pc = "write" => arts[g][high[g]] = sess[s].msg
         /\ g \notin Deep => Made[g] = g \/ Made[g] \in aliased
<1>1. sess[s].todo # <<>> /\ sess[s].pc \in Writing
  BY DEF NewsIInv, CommandsSound, CommandSound, Writing
<1>2. Head(sess[s].todo) \in Groups /\ Tail(sess[s].todo) \in Seq(Groups)
  BY <1>1, WriterIs
<1>3. SlotSound(sess[s])
  BY DEF NewsIInv, SlotsSound
<1> QED
  BY <1>1, <1>2, <1>3 DEF SlotSound

(* What is being written does not touch the file of another article, if     *)
(* that one's group has its directory to itself.                            *)
LEMMA OtherFiles ==
  ASSUME NewsIInv, NEW s \in Sessions, sess[s].pc = "write",
         NEW h \in Groups, NEW k \in Nums, Alone(h), ~BeingWritten(h, k)
  PROVE  LET g == Head(sess[s].todo) IN g \in Deep \/ h # Made[g] \/ k # high[g]
<1> DEFINE g == Head(sess[s].todo)
<1>1. g \notin Deep => Made[g] = g \/ Made[g] \in aliased
  BY SlotIs
<1>2. h # g \/ k # high[g]
  BY DEF BeingWritten
<1>3. h \notin aliased
  BY DEF Alone
<1> QED
  BY <1>1, <1>2, <1>3

(* The process ends: what was answered stays on disk, also when a file was  *)
(* being written, as that one is not yet answered for.                      *)
LEMMA CrashKeeps == NewsIInv /\ Crash => NewsIInv'
<1> SUFFICES ASSUME NewsIInv, Crash PROVE NewsIInv'
  OBVIOUS
<1>1. /\ up' = FALSE /\ groups' = {} /\ lock' = NoSession /\ acked' = acked /\ aliased' = aliased /\ failures' = failures
      /\ arts' = [g \in Groups |-> [n \in Nums |-> Nothing]]
      /\ low' = [g \in Groups |-> 0] /\ high' = low' /\ byMsgID' = [m \in Msgs |-> Nowhere]
      /\ sess' = [s \in Sessions |-> Off]
  BY DEF Crash
<1>2. /\ OneWriter' /\ CommandsSound' /\ RoomLeft' /\ SlotsSound' /\ SnapshotValid'
      /\ \A a : Promised(a)' <=> a \in acked
      /\ \A g, n : ~BeingWritten(g, n)'
  <2>1. \A s \in Sessions : sess'[s].pc = "off" /\ sess'[s].nums = {} /\ sess'[s].stored = {} /\ lock' # s
    BY <1>1, NamesAssumption DEF Off
  <2> QED
    BY <1>1, <2>1 DEF OneWriter, CommandsSound, CommandSound, RoomLeft, SlotsSound, SlotSound,
       SnapshotValid, Promised, BeingWritten, Writing
<1>3. DownEmpty'
  BY <1>1 DEF DownEmpty
<1>4. /\ spool \in [Groups -> [Nums -> Slot]] /\ dirs \subseteq Groups
      /\ failures \in 0..MaxFailures /\ acked \subseteq Groups \X Nums \X Msgs /\ aliased \subseteq Groups
  BY DEF NewsIInv, NewsTypeOK
<1>5. /\ dirs \subseteq dirs' /\ dirs' \subseteq Groups /\ spool' \in [Groups -> [Nums -> Slot]]
      /\ \A h \in Groups, n \in Nums : Alone(h) /\ ~BeingWritten(h, n) => spool'[h][n] = spool[h][n]
  <2> DEFINE written(s) ==
        LET g == Head(sess[s].todo) IN
        /\ sess[s].pc = "write"
        /\ dirs' = DirsWith(g)
        /\ spool' \in {spool, Filed(g, high[g], Cut), Filed(g, high[g], sess[s].msg)}
  <2>4. ASSUME NEW g \in Groups, NEW n \in Nums, NEW c \in Slot
        PROVE  /\ Filed(g, n, c) \in [Groups -> [Nums -> Slot]]
               /\ \A h \in Groups, k \in Nums :
                    g \in Deep \/ h # Made[g] \/ k # n => Filed(g, n, c)[h][k] = spool[h][k]
    <3>1. NewsTypeOK
      BY DEF NewsIInv
    <3> QED
      BY <3>1, FiledIs
  <2>1. CASE UNCHANGED disk
    BY <1>4, <2>1 DEF disk
  <2>2. CASE \E s \in Sessions : written(s)
    <3> PICK s \in Sessions : written(s)
      BY <2>2
    <3> DEFINE g == Head(sess[s].todo)
    <3>1. g \in Groups /\ high[g] \in Nums /\ NewsTypeOK
      BY SlotIs DEF NewsIInv
    <3>2. Cut \in Slot /\ sess[s].msg \in Slot
      BY WriterIs DEF Slot, Writing
    <3>3. \A h \in Groups, n \in Nums : Alone(h) /\ ~BeingWritten(h, n) =>
            g \in Deep \/ h # Made[g] \/ n # high[g]
      BY OtherFiles
    <3> HIDE DEF g
    <3>4. /\ spool' \in [Groups -> [Nums -> Slot]]
          /\ \A h \in Groups, n \in Nums :
               g \in Deep \/ h # Made[g] \/ n # high[g] => spool'[h][n] = spool[h][n]
      <4>1. CASE UNCHANGED spool
        BY <1>4, <4>1
      <4>2. ASSUME NEW c \in Slot, spool' = Filed(g, high[g], c)
            PROVE  /\ spool' \in [Groups -> [Nums -> Slot]]
                   /\ \A h \in Groups, n \in Nums :
                        g \in Deep \/ h # Made[g] \/ n # high[g] => spool'[h][n] = spool[h][n]
        <5>1. /\ Filed(g, high[g], c) \in [Groups -> [Nums -> Slot]]
              /\ \A h \in Groups, k \in Nums :
                   g \in Deep \/ h # Made[g] \/ k # high[g] => Filed(g, high[g], c)[h][k] = spool[h][k]
          BY <2>4, <3>1
        <5> QED
          BY <4>2, <5>1
      <4>3. \/ UNCHANGED spool \/ spool' = Filed(g, high[g], Cut)
            \/ spool' = Filed(g, high[g], sess[s].msg)
        BY DEF g
      <4> QED
        BY <3>2, <4>1, <4>2, <4>3
    <3>5. dirs \subseteq dirs' /\ dirs' \subseteq Groups
      BY <1>4, <3>1, <3>2, FiledIs DEF g
    <3> QED
      BY <3>3, <3>4, <3>5
  <2>3. UNCHANGED disk \/ \E s \in Sessions : written(s)
    BY DEF Crash
  <2> QED
    BY <2>1, <2>2, <2>3
<1>6. NewsTypeOK'
  <2>1. Off \in Session
    BY BoundsTyped DEF Off, Session, Pcs, Slot
  <2>2. sess' \in [Sessions -> Session]
    BY <1>1, <2>1
  <2>3. arts' \in [Groups -> [Nums -> Slot]] /\ low' \in [Groups -> 0..MaxNum]
    BY <1>1, BoundsTyped DEF Slot
  <2>4. byMsgID' \in [Msgs -> Locs \cup {Nowhere}]
    BY <1>1
  <2> QED
    BY <1>1, <1>4, <1>5, <2>2, <2>3, <2>4 DEF NewsTypeOK
<1>7. NumbersInRange'
  <2>1. \A g \in Groups : low'[g] = 0 /\ high'[g] = 0 /\ Numbers(g)' = {}
    BY <1>1 DEF Numbers
  <2> QED
    BY <2>1 DEF NumbersInRange
<1>8. IndexSound'
  <2>1. Nothing \notin Msgs
    BY NamesAssumption
  <2>2. \A m \in Msgs : Holders(arts, m)' = {} /\ byMsgID'[m] = Nowhere
    BY <1>1, <2>1 DEF Holders, Locs
  <2> QED
    BY <2>2 DEF IndexSound
<1>9. PromisesKept'
  <2> SUFFICES ASSUME failures = 0, NEW a \in Groups \X Nums \X Msgs, a \in acked, Alone(a[1])
               PROVE  a[1] \in dirs' /\ spool'[a[1]][a[2]] = a[3]
    BY <1>1, <1>2 DEF PromisesKept, Alone
  <2>1. Promised(a)
    BY DEF Promised
  <2>2. a[1] \in dirs /\ spool[a[1]][a[2]] = a[3] /\ ~BeingWritten(a[1], a[2])
    BY <2>1 DEF NewsIInv, PromisesKept, Alone
  <2> QED
    BY <1>5, <2>2
<1> QED
  BY <1>2, <1>3, <1>6, <1>7, <1>8, <1>9 DEF NewsIInv

(* One session moves. *)
LEMMA SetIs ==
  ASSUME NewsIInv, NEW s \in Sessions, NEW new \in Session, Set(s, new)
  PROVE  /\ sess' \in [Sessions -> Session] /\ sess'[s] = new
         /\ \A t \in Sessions \ {s} : sess'[t] = sess[t]
<1>1. sess \in [Sessions -> Session]
  BY DEF NewsIInv, NewsTypeOK
<1> QED
  BY <1>1 DEF Set

(* post takes the write lock. *)
LEMMA PostLockKeeps ==
  ASSUME NewsIInv, NEW s \in Sessions, PostLock(s)
  PROVE  NewsIInv'
<1> DEFINE new == [sess[s] EXCEPT !.pc = "number"]
<1>1. /\ sess[s].pc = "lock" /\ lock = NoSession /\ lock' = s /\ Set(s, new)
      /\ UNCHANGED <<up, groups, arts, low, high, byMsgID, dirs, spool, acked, aliased, failures>>
  BY DEF PostLock, Unlocked, memory, disk
<1>2. sess[s] \in Session
  BY SessionTyped DEF NewsIInv
<1>3. new \in Session
  BY <1>2 DEF Session, Pcs
<1>4. /\ new.pc = "number" /\ new.nums = sess[s].nums /\ new.cur = sess[s].cur
      /\ new.stored = sess[s].stored /\ new.msg = sess[s].msg /\ new.todo = sess[s].todo
  BY <1>2 DEF Session
<1> HIDE DEF new
<1>5. sess' \in [Sessions -> Session] /\ sess'[s] = new /\ \A t \in Sessions \ {s} : sess'[t] = sess[t]
  BY <1>1, <1>3, SetIs
<1>6. \A t \in Sessions : sess[t].pc \notin Writing
  BY <1>1, NamesAssumption DEF NewsIInv, OneWriter
<1>7. NewsTypeOK'
  BY <1>1, <1>5 DEF NewsIInv, NewsTypeOK
<1>8. OneWriter'
  BY <1>1, <1>4, <1>5, <1>6 DEF OneWriter, Writing
<1>9. DownEmpty'
  <2>1. up
    BY <1>1, ConnectedUp
  <2> QED
    BY <1>1, <2>1 DEF DownEmpty
<1>10. CommandsSound'
  <2>1. CommandSound(new)
    <3>1. CommandSound(sess[s])
      BY DEF NewsIInv, CommandsSound
    <3> QED
      BY <1>1, <1>4, <3>1 DEF CommandSound, Writing
  <2> QED
    BY <1>5, <2>1 DEF NewsIInv, CommandsSound, CommandSound
<1>11. RoomLeft'
  <2> SUFFICES ASSUME NEW g \in Groups
               PROVE  high[g] + Cardinality(Places(sess[s].todo, g)) <= MaxNum
    BY <1>1, <1>4, <1>5 DEF RoomLeft, Ahead
  <2> QED
    BY DEF PostLock, Places
<1>12. NumbersInRange'
  BY <1>1 DEF NewsIInv, NumbersInRange, Numbers
<1>13. SlotsSound'
  BY <1>1, <1>4, <1>5 DEF NewsIInv, SlotsSound, SlotSound
<1>14. SnapshotValid'
  BY <1>1, <1>4, <1>5 DEF NewsIInv, SnapshotValid
<1>15. IndexSound'
  <2>1. \A m : ~ \E t \in Sessions : sess[t].pc = "write" /\ sess[t].msg = m
    BY <1>6 DEF Writing
  <2>2. \A m \in Msgs : Holders(arts, m)' = Holders(arts, m)
    BY <1>1 DEF Holders
  <2> QED
    BY <1>1, <2>1, <2>2 DEF NewsIInv, IndexSound
<1>16. PromisesKept'
  <2>1. ASSUME NEW a, Promised(a)' PROVE Promised(a)
    BY <1>1, <1>4, <1>5, <2>1 DEF Promised
  <2>2. ASSUME NEW g, NEW n PROVE ~BeingWritten(g, n)'
    <3>1. \A t \in Sessions : sess'[t].pc # "write"
      BY <1>4, <1>5, <1>6 DEF Writing
    <3> QED
      BY <3>1 DEF BeingWritten
  <2> QED
    BY <1>1, <2>1, <2>2 DEF NewsIInv, PromisesKept, Alone
<1> QED
  BY <1>7, <1>8, <1>9, <1>10, <1>11, <1>12, <1>13, <1>14, <1>15, <1>16 DEF NewsIInv

(* post takes the next number of a group, which is above all it has. *)
LEMMA PostNumberKeeps ==
  ASSUME NewsIInv, NEW s \in Sessions, PostNumber(s)
  PROVE  NewsIInv'
<1> DEFINE g == Head(sess[s].todo)
           new == [sess[s] EXCEPT !.pc = "store"]
           n == high[g] + 1
<1>1. /\ sess[s].pc = "number" /\ sess[s].todo # <<>> /\ groups' = groups \cup {g} /\ Set(s, new)
      /\ high' = [high EXCEPT ![g] = n] /\ low' = [low EXCEPT ![g] = IF @ = 0 THEN high'[g] ELSE @]
      /\ aliased' = IF g \in Deep \/ Made[g] = g THEN aliased ELSE aliased \cup {Made[g]}
      /\ UNCHANGED <<up, arts, byMsgID, dirs, spool, lock, acked, failures>>
  BY DEF PostNumber, disk
<1>2. sess[s].pc \in Writing
  BY <1>1 DEF Writing
<1>3. /\ up /\ lock = s /\ \A t \in Sessions \ {s} : sess[t].pc \notin Writing
      /\ sess[s].todo \in Seq(Groups) /\ sess[s].msg \in Posts /\ sess[s].msg \in Msgs
      /\ g \in Groups /\ Tail(sess[s].todo) \in Seq(Groups)
  BY <1>1, <1>2, WriterIs
<1>4. sess[s] \in Session
  BY SessionTyped DEF NewsIInv
<1>5. new \in Session
  BY <1>4 DEF Session, Pcs
<1>6. /\ new.pc = "store" /\ new.nums = sess[s].nums /\ new.cur = sess[s].cur
      /\ new.stored = sess[s].stored /\ new.msg = sess[s].msg /\ new.todo = sess[s].todo
  BY <1>4 DEF Session
<1> HIDE DEF new
<1>7. sess' \in [Sessions -> Session] /\ sess'[s] = new /\ \A t \in Sessions \ {s} : sess'[t] = sess[t]
  BY <1>1, <1>5, SetIs
<1>8. /\ high \in [Groups -> 0..MaxNum] /\ low \in [Groups -> 0..MaxNum]
      /\ arts \in [Groups -> [Nums -> Slot]] /\ byMsgID \in [Msgs -> Locs \cup {Nowhere}]
      /\ high[g] \in 0..MaxNum /\ low[g] \in 0..MaxNum
  BY <1>3 DEF NewsIInv, NewsTypeOK
<1>9. \A h \in Groups : high[h] + Cardinality(Places(sess[s].todo, h)) <= MaxNum
  BY <1>1, <1>3 DEF NewsIInv, RoomLeft, Ahead
<1>10. \A h \in Groups : /\ Cardinality(Places(sess[s].todo, h)) \in Nat
                         /\ Cardinality(Places(Tail(sess[s].todo), h)) \in Nat
  BY <1>3, PlacesFinite
<1>11. n \in Nums
  <2>1. Cardinality(Places(sess[s].todo, g)) >= 1
    <3>1. Cardinality(Places(Tail(sess[s].todo), g)) + 1 <= Cardinality(Places(sess[s].todo, g))
      BY <1>1, <1>3, PlacesTail
    <3> QED
      BY <1>3, <1>10, <3>1
  <2>2. high[g] + Cardinality(Places(sess[s].todo, g)) <= MaxNum /\ Cardinality(Places(sess[s].todo, g)) \in Nat
    BY <1>3, <1>9, <1>10
  <2> HIDE DEF g
  <2> QED
    BY <1>8, <2>1, <2>2, BoundsTyped DEF Nums
<1>12. /\ low[g] <= high[g] /\ (low[g] = 0 => high[g] = 0)
       /\ \A k \in Numbers(g) : low[g] <= k /\ k <= high[g]
  BY <1>3 DEF NewsIInv, NumbersInRange
<1>13. high'[g] = n /\ low'[g] = IF low[g] = 0 THEN n ELSE low[g]
  BY <1>1, <1>3, <1>8
<1>14. \A h \in Groups \ {g} : high'[h] = high[h] /\ low'[h] = low[h]
  BY <1>1, <1>8
<1>15. \A h : Numbers(h)' = Numbers(h)
  BY <1>1 DEF Numbers
<1> HIDE DEF g
<1>16. high' \in [Groups -> 0..MaxNum] /\ low' \in [Groups -> 0..MaxNum]
  <2>1. n \in 0..MaxNum
    BY <1>11, BoundsTyped DEF Nums
  <2>2. high' \in [Groups -> 0..MaxNum]
    BY <1>1, <1>8, <2>1
  <2>3. high'[g] \in 0..MaxNum
    BY <1>3, <2>2
  <2> QED
    BY <1>1, <1>8, <2>2, <2>3
<1>17. NewsTypeOK' /\ aliased \subseteq aliased'
  <2>1. aliased' \subseteq Groups /\ aliased \subseteq aliased'
    BY <1>1, <1>3, DirectoriesAssumption DEF NewsIInv, NewsTypeOK
  <2> QED
    BY <1>1, <1>3, <1>7, <1>16, <2>1 DEF NewsIInv, NewsTypeOK
<1>18. OneWriter'
  BY <1>1, <1>3, <1>6, <1>7 DEF OneWriter, Writing
<1>19. DownEmpty'
  BY <1>1, <1>3 DEF DownEmpty
<1>20. CommandsSound'
  <2>1. CommandSound(new)
    <3>1. CommandSound(sess[s])
      BY DEF NewsIInv, CommandsSound
    <3> QED
      BY <1>1, <1>6, <3>1 DEF CommandSound, Writing
  <2> QED
    BY <1>7, <2>1 DEF NewsIInv, CommandsSound, CommandSound
<1>21. RoomLeft'
  <2> SUFFICES ASSUME NEW h \in Groups
               PROVE  high'[h] + Cardinality(Places(Tail(sess[s].todo), h)) <= MaxNum
    BY <1>1, <1>3, <1>6, <1>7 DEF RoomLeft, Ahead
  <2>1. /\ Cardinality(Places(Tail(sess[s].todo), h)) <= Cardinality(Places(sess[s].todo, h))
        /\ h = g => Cardinality(Places(Tail(sess[s].todo), h)) + 1 <= Cardinality(Places(sess[s].todo, h))
    BY <1>1, <1>3, PlacesTail DEF g
  <2>2. high[h] \in Nat /\ MaxNum \in Nat
    BY <1>8, BoundsTyped
  <2> QED
    BY <1>9, <1>10, <1>13, <1>14, <2>1, <2>2
<1>22. NumbersInRange'
  <2> SUFFICES ASSUME NEW h \in Groups
               PROVE  /\ low'[h] <= high'[h] /\ (low'[h] = 0 => high'[h] = 0)
                      /\ \A k \in Numbers(h) : low'[h] <= k /\ k <= high'[h]
    BY <1>15 DEF NumbersInRange
  <2>1. CASE h = g
    <3>1. Numbers(g) \subseteq Nums
      BY DEF Numbers
    <3>2. low[g] = 0 => Numbers(g) = {}
      BY <1>12, <3>1, BoundsTyped DEF Nums
    <3> QED
      BY <1>8, <1>12, <1>13, <2>1, <3>1, <3>2, BoundsTyped DEF Nums
  <2>2. CASE h # g
    BY <1>14, <2>2 DEF NewsIInv, NumbersInRange
  <2> QED
    BY <2>1, <2>2
<1>23. arts[g][n] = Nothing
  <2>1. n \notin Numbers(g)
    BY <1>8, <1>12
  <2> QED
    BY <1>11, <2>1 DEF Numbers
<1>24. SlotsSound'
  <2>1. SlotSound(sess[s])'
    <3>1. g \notin Deep => Made[g] = g \/ Made[g] \in aliased'
      BY <1>1
    <3> QED
      BY <1>1, <1>6, <1>7, <1>11, <1>13, <1>23, <3>1 DEF SlotSound, g
  <2>2. ASSUME NEW t \in Sessions \ {s} PROVE SlotSound(sess[t])'
    BY <1>3, <1>7, <2>2 DEF SlotSound, Writing
  <2> QED
    BY <2>1, <2>2 DEF SlotsSound
<1>25. SnapshotValid'
  <2> SUFFICES ASSUME NEW t \in Sessions, NEW k \in sess[t].nums
               PROVE  LET h == sess[t].cur IN arts[h][k] # Nothing /\ low'[h] <= k /\ k <= high'[h]
    BY <1>1, <1>6, <1>7 DEF SnapshotValid
  <2> DEFINE h == sess[t].cur
  <2>1. h \in Groups /\ k \in Nums
    BY SessionTyped DEF NewsIInv, CommandsSound, CommandSound
  <2>2. arts[h][k] # Nothing
    BY DEF NewsIInv, SnapshotValid
  <2>3. k \in Numbers(h)
    BY <2>1, <2>2 DEF Numbers
  <2> HIDE DEF h
  <2>4. low'[h] <= k /\ k <= high'[h]
    BY <1>15, <1>22, <2>1, <2>3 DEF NumbersInRange
  <2> QED
    BY <2>2, <2>4 DEF h
<1>26. IndexSound'
  <2>1. \A m : (\E t \in Sessions : sess[t].pc = "write" /\ sess[t].msg = m) =>
                 (\E t \in Sessions : sess'[t].pc = "write" /\ sess'[t].msg = m)
    BY <1>1, <1>7
  <2>2. \A m \in Msgs : Holders(arts, m)' = Holders(arts, m)
    BY <1>1 DEF Holders
  <2> QED
    BY <1>1, <2>1, <2>2 DEF NewsIInv, IndexSound
<1>27. PromisesKept'
  <2>1. ASSUME NEW a, Promised(a)' PROVE Promised(a)
    BY <1>1, <1>6, <1>7, <2>1 DEF Promised
  <2>2. ASSUME NEW h, NEW k PROVE ~BeingWritten(h, k)'
    <3>1. \A t \in Sessions : sess'[t].pc # "write"
      BY <1>3, <1>6, <1>7 DEF Writing
    <3> QED
      BY <3>1 DEF BeingWritten
  <2>3. ASSUME NEW h, Alone(h)' PROVE Alone(h)
    BY <1>17, <2>3 DEF Alone
  <2> QED
    BY <1>1, <2>1, <2>2, <2>3 DEF NewsIInv, PromisesKept
<1> QED
  BY <1>17, <1>18, <1>19, <1>20, <1>21, <1>22, <1>24, <1>25, <1>26, <1>27 DEF NewsIInv

(* post puts the article in the map. *)
LEMMA PostStoreKeeps ==
  ASSUME NewsIInv, NEW s \in Sessions, PostStore(s)
  PROVE  NewsIInv'
<1> DEFINE g == Head(sess[s].todo)
           new == [sess[s] EXCEPT !.pc = "write"]
           m == sess[s].msg
           n == high[g]
<1>1. /\ sess[s].pc = "store" /\ Set(s, new) /\ arts' = [arts EXCEPT ![g][n] = m]
      /\ UNCHANGED <<up, groups, low, high, byMsgID, dirs, spool, lock, acked, aliased, failures>>
  BY DEF PostStore, disk
<1>2. sess[s].pc \in Writing
  BY <1>1 DEF Writing
<1>3. /\ up /\ lock = s /\ \A t \in Sessions \ {s} : sess[t].pc \notin Writing
      /\ m \in Posts /\ m \in Msgs
  BY <1>2, WriterIs
<1>4. /\ g \in Groups /\ n \in Nums /\ arts[g][n] = Nothing
      /\ g \notin Deep => Made[g] = g \/ Made[g] \in aliased
  BY <1>1, SlotIs
<1>5. sess[s] \in Session
  BY SessionTyped DEF NewsIInv
<1>6. new \in Session
  BY <1>5 DEF Session, Pcs
<1>7. /\ new.pc = "write" /\ new.nums = sess[s].nums /\ new.cur = sess[s].cur
      /\ new.stored = sess[s].stored /\ new.msg = m /\ new.todo = sess[s].todo
  BY <1>5 DEF Session
<1> HIDE DEF new
<1>8. sess' \in [Sessions -> Session] /\ sess'[s] = new /\ \A t \in Sessions \ {s} : sess'[t] = sess[t]
  BY <1>1, <1>6, SetIs
<1>9. /\ arts \in [Groups -> [Nums -> Slot]] /\ byMsgID \in [Msgs -> Locs \cup {Nowhere}]
      /\ high \in [Groups -> 0..MaxNum] /\ low \in [Groups -> 0..MaxNum]
  BY DEF NewsIInv, NewsTypeOK
<1>10. m \in Slot /\ m # Nothing /\ Nothing \notin Msgs
  BY <1>3, NamesAssumption DEF Slot
<1> HIDE DEF g, n, m
<1>11. /\ arts' \in [Groups -> [Nums -> Slot]] /\ arts'[g][n] = m
       /\ \A h \in Groups, k \in Nums : h # g \/ k # n => arts'[h][k] = arts[h][k]
  BY <1>1, <1>4, <1>9, <1>10
<1>12. NewsTypeOK'
  BY <1>1, <1>8, <1>11 DEF NewsIInv, NewsTypeOK
<1>13. OneWriter'
  BY <1>1, <1>3, <1>7, <1>8 DEF OneWriter, Writing
<1>14. DownEmpty'
  BY <1>1, <1>3 DEF DownEmpty
<1>15. CommandsSound'
  <2>1. CommandSound(new)
    <3>1. CommandSound(sess[s])
      BY DEF NewsIInv, CommandsSound
    <3> QED
      BY <1>1, <1>7, <3>1 DEF CommandSound, Writing, m
  <2> QED
    BY <1>8, <2>1 DEF NewsIInv, CommandsSound, CommandSound
<1>16. RoomLeft'
  <2>1. Ahead(sess[s])' = Ahead(sess[s])
    BY <1>1, <1>7, <1>8 DEF Ahead
  <2> QED
    BY <1>1, <1>3, <2>1 DEF NewsIInv, RoomLeft
<1>17. NumbersInRange'
  <2> SUFFICES ASSUME NEW h \in Groups, NEW k \in Nums, arts'[h][k] # Nothing
               PROVE  low[h] <= k /\ k <= high[h]
    BY <1>1 DEF NewsIInv, NumbersInRange, Numbers
  <2>1. CASE h = g /\ k = n
    BY <1>4, <1>9, <2>1 DEF NewsIInv, NumbersInRange, Nums, n
  <2>2. CASE h # g \/ k # n
    BY <1>11, <2>2 DEF NewsIInv, NumbersInRange, Numbers
  <2> QED
    BY <2>1, <2>2
<1>18. SlotsSound'
  <2>1. SlotSound(sess[s])'
    BY <1>1, <1>4, <1>7, <1>8, <1>11 DEF SlotSound, g, n
  <2>2. ASSUME NEW t \in Sessions \ {s} PROVE SlotSound(sess[t])'
    BY <1>3, <1>8, <2>2 DEF SlotSound, Writing
  <2> QED
    BY <2>1, <2>2 DEF SlotsSound
<1>19. \A h \in Groups, k \in Nums : arts[h][k] # Nothing => arts'[h][k] = arts[h][k]
  BY <1>4, <1>11
<1>20. SnapshotValid'
  <2> SUFFICES ASSUME NEW t \in Sessions, NEW k \in sess[t].nums
               PROVE  LET h == sess[t].cur IN arts'[h][k] # Nothing /\ low[h] <= k /\ k <= high[h]
    BY <1>1, <1>7, <1>8 DEF SnapshotValid
  <2>1. sess[t].cur \in Groups /\ k \in Nums
    BY SessionTyped DEF NewsIInv, CommandsSound, CommandSound
  <2> QED
    BY <1>19, <2>1 DEF NewsIInv, SnapshotValid
<1>21. IndexSound'
  <2> SUFFICES ASSUME NEW x \in Msgs
               PROVE  /\ byMsgID[x] # Nowhere => arts'[byMsgID[x][1]][byMsgID[x][2]] = x
                      /\ x \notin Blank /\ byMsgID[x] = Nowhere /\ Holders(arts, x)' # {} =>
                           \E t \in Sessions : sess'[t].pc = "write" /\ sess'[t].msg = x
    BY <1>1 DEF IndexSound
  <2>1. ASSUME byMsgID[x] # Nowhere PROVE arts'[byMsgID[x][1]][byMsgID[x][2]] = x
    <3>1. arts[byMsgID[x][1]][byMsgID[x][2]] = x
      BY <2>1 DEF NewsIInv, IndexSound
    <3>2. byMsgID[x][1] \in Groups /\ byMsgID[x][2] \in Nums
      BY <1>9, <2>1 DEF Locs
    <3> QED
      BY <1>10, <1>19, <3>1, <3>2
  <2>2. CASE x = m
    BY <1>7, <1>8, <2>1, <2>2
  <2>3. CASE x # m
    <3>1. Holders(arts, x)' = Holders(arts, x)
      BY <1>4, <1>10, <1>11, <2>3 DEF Holders, Locs
    <3>2. ~(sess[s].pc = "write")
      BY <1>1
    <3> QED
      BY <1>8, <2>1, <3>1, <3>2 DEF NewsIInv, IndexSound
  <2> QED
    BY <2>2, <2>3
<1>22. ASSUME failures = 0, NEW a \in Groups \X Nums \X Msgs, Promised(a), Alone(a[1])
       PROVE  a[1] # g \/ a[2] # n
  <2>1. arts[a[1]][a[2]] = a[3] /\ a[3] \in Msgs
    BY <1>3, <1>22 DEF NewsIInv, PromisesKept, Alone
  <2> QED
    BY <1>4, <1>10, <2>1
<1>23. PromisesKept'
  <2>1. ASSUME NEW a, Promised(a)' PROVE Promised(a)
    BY <1>1, <1>7, <1>8, <2>1 DEF Promised, m
  <2>2. ASSUME NEW h, NEW k, BeingWritten(h, k)' PROVE h = g /\ k = n
    <3>1. \A t \in Sessions \ {s} : sess'[t].pc # "write"
      BY <1>3, <1>8 DEF Writing
    <3> QED
      BY <1>1, <1>7, <1>8, <2>2, <3>1 DEF BeingWritten, g, n
  <2> SUFFICES ASSUME failures = 0, NEW a \in Groups \X Nums \X Msgs, Promised(a), Alone(a[1])
               PROVE  /\ a[1] \in dirs /\ spool[a[1]][a[2]] = a[3]
                      /\ arts'[a[1]][a[2]] = a[3] /\ ~BeingWritten(a[1], a[2])'
    BY <1>1, <2>1 DEF PromisesKept, Alone
  <2>3. /\ a[1] \in dirs /\ spool[a[1]][a[2]] = a[3] /\ arts[a[1]][a[2]] = a[3]
        /\ a[1] \in Groups /\ a[2] \in Nums
    BY <1>3 DEF NewsIInv, PromisesKept, Alone
  <2>4. a[1] # g \/ a[2] # n
    BY <1>22
  <2> QED
    BY <1>11, <2>2, <2>3, <2>4
<1> QED
  BY <1>12, <1>13, <1>14, <1>15, <1>16, <1>17, <1>18, <1>20, <1>21, <1>23 DEF NewsIInv

(* post writes the file, and sets the index.                                *)
LEMMA PostWriteKeeps ==
  ASSUME NewsIInv, NEW s \in Sessions, PostWrite(s)
  PROVE  NewsIInv'
<1> DEFINE g == Head(sess[s].todo)
           m == sess[s].msg
           n == high[g]
           new == [sess[s] EXCEPT !.pc = "number", !.todo = Tail(@), !.stored = @ \cup {<<g, n>>}]
<1>1. /\ sess[s].pc = "write" /\ Set(s, new) /\ WriteArticle(g, n, m)
      /\ byMsgID' = [byMsgID EXCEPT ![m] = <<g, n>>]
      /\ UNCHANGED <<up, groups, arts, low, high, lock, acked, aliased>>
  BY DEF PostWrite
<1>2. sess[s].pc \in Writing
  BY <1>1 DEF Writing
<1>3. /\ up /\ lock = s /\ \A t \in Sessions \ {s} : sess[t].pc \notin Writing
      /\ m \in Posts /\ m \in Msgs
  BY <1>2, WriterIs
<1>4. g \in Groups /\ n \in Nums /\ arts[g][n] = m /\ Tail(sess[s].todo) \in Seq(Groups)
  BY <1>1, SlotIs
<1>5. sess[s] \in Session /\ sess[s].stored \in SUBSET Locs /\ <<g, n>> \in Locs
  BY <1>4, SessionTyped DEF NewsIInv, Locs
<1>6. new \in Session
  BY <1>4, <1>5 DEF Session, Pcs
<1>7. /\ new.pc = "number" /\ new.nums = sess[s].nums /\ new.cur = sess[s].cur
      /\ new.stored = sess[s].stored \cup {<<g, n>>} /\ new.msg = m /\ new.todo = Tail(sess[s].todo)
  BY <1>5 DEF Session
<1> HIDE DEF new
<1>8. sess' \in [Sessions -> Session] /\ sess'[s] = new /\ \A t \in Sessions \ {s} : sess'[t] = sess[t]
  BY <1>1, <1>6, SetIs
<1>9. byMsgID \in [Msgs -> Locs \cup {Nowhere}] /\ NewsTypeOK
  BY DEF NewsIInv, NewsTypeOK
<1> HIDE DEF g, n, m
<1>10. /\ failures' \in 0..MaxFailures /\ (failures' = 0 => failures = 0)
       /\ dirs \subseteq dirs' /\ dirs' \subseteq Groups
       /\ spool' \in [Groups -> [Nums -> Slot]]
       /\ \A h \in Groups, k \in Nums : g \in Deep \/ h # Made[g] \/ k # n => spool'[h][k] = spool[h][k]
       /\ failures' = 0 /\ g \notin Deep /\ Made[g] = g => g \in dirs' /\ spool'[g][n] = m
  BY <1>1, <1>3, <1>4, <1>9, WriteIs
<1>11. /\ byMsgID' \in [Msgs -> Locs \cup {Nowhere}] /\ byMsgID'[m] = <<g, n>>
       /\ \A x \in Msgs \ {m} : byMsgID'[x] = byMsgID[x]
  BY <1>1, <1>3, <1>5, <1>9
<1>12. NewsTypeOK'
  BY <1>1, <1>8, <1>9, <1>10, <1>11 DEF NewsTypeOK
<1>13. OneWriter'
  BY <1>1, <1>3, <1>7, <1>8 DEF OneWriter, Writing
<1>14. DownEmpty'
  BY <1>1, <1>3 DEF DownEmpty
<1>15. CommandsSound'
  <2>1. CommandSound(new)
    <3>1. CommandSound(sess[s])
      BY DEF NewsIInv, CommandsSound
    <3> QED
      BY <1>1, <1>7, <3>1 DEF CommandSound, Writing, m
  <2> QED
    BY <1>8, <2>1 DEF NewsIInv, CommandsSound, CommandSound
<1>16. RoomLeft'
  <2>1. Ahead(sess[s])' = Ahead(sess[s])
    BY <1>1, <1>7, <1>8 DEF Ahead
  <2> QED
    BY <1>1, <1>3, <2>1 DEF NewsIInv, RoomLeft
<1>17. NumbersInRange'
  BY <1>1 DEF NewsIInv, NumbersInRange, Numbers
<1>18. SlotsSound'
  <2>1. ASSUME NEW t \in Sessions PROVE sess'[t].pc \notin {"store", "write"}
    BY <1>3, <1>7, <1>8, <2>1 DEF Writing
  <2> QED
    BY <2>1 DEF SlotsSound, SlotSound
<1>19. SnapshotValid'
  BY <1>1, <1>7, <1>8 DEF NewsIInv, SnapshotValid
<1>20. IndexSound'
  <2> SUFFICES ASSUME NEW x \in Msgs
               PROVE  /\ byMsgID'[x] # Nowhere => arts[byMsgID'[x][1]][byMsgID'[x][2]] = x
                      /\ x \notin Blank /\ byMsgID'[x] = Nowhere /\ Holders(arts, x) # {} =>
                           \E t \in Sessions : sess'[t].pc = "write" /\ sess'[t].msg = x
    BY <1>1 DEF IndexSound, Holders
  <2>1. CASE x = m
    BY <1>4, <1>5, <1>11, <2>1, PlacesAre
  <2>2. CASE x # m
    <3>1. byMsgID'[x] = byMsgID[x]
      BY <1>11, <2>2
    <3>2. \A t \in Sessions : sess[t].pc = "write" => t = s
      BY <1>3 DEF Writing
    <3>3. ~ \E t \in Sessions : sess[t].pc = "write" /\ sess[t].msg = x
      BY <2>2, <3>2 DEF m
    <3> QED
      BY <3>1, <3>3 DEF NewsIInv, IndexSound
  <2> QED
    BY <2>1, <2>2
<1>21. \A h \in Groups, k \in Nums : Alone(h) /\ ~BeingWritten(h, k) => g \in Deep \/ h # Made[g] \/ k # n
  BY <1>1, OtherFiles DEF g, n
<1>22. PromisesKept'
  <2>1. ASSUME NEW a \in Groups \X Nums \X Msgs, Promised(a)'
        PROVE  Promised(a) \/ (a[1] = g /\ a[2] = n /\ a[3] = m)
    BY <1>1, <1>7, <1>8, <2>1 DEF Promised, m
  <2>2. ASSUME NEW h, NEW k PROVE ~BeingWritten(h, k)'
    <3>1. \A t \in Sessions : sess'[t].pc # "write"
      BY <1>3, <1>7, <1>8 DEF Writing
    <3> QED
      BY <3>1 DEF BeingWritten
  <2> SUFFICES ASSUME failures' = 0, NEW a \in Groups \X Nums \X Msgs, Promised(a)', Alone(a[1])
               PROVE  /\ a[1] \in dirs' /\ spool'[a[1]][a[2]] = a[3]
                      /\ arts[a[1]][a[2]] = a[3]
    BY <1>1, <2>2 DEF PromisesKept, Alone
  <2>3. CASE a[1] = g /\ a[2] = n /\ a[3] = m
    BY <1>4, <1>10, <2>3 DEF Alone
  <2>4. CASE Promised(a)
    <3>1. /\ a[1] \in dirs /\ spool[a[1]][a[2]] = a[3] /\ arts[a[1]][a[2]] = a[3]
          /\ ~BeingWritten(a[1], a[2])
      BY <1>3, <1>10, <2>4 DEF NewsIInv, PromisesKept, Alone
    <3>3. a[1] \in Groups /\ a[2] \in Nums
      OBVIOUS
    <3>2. g \in Deep \/ a[1] # Made[g] \/ a[2] # n
      BY <1>21, <3>1, <3>3
    <3>4. spool'[a[1]][a[2]] = spool[a[1]][a[2]]
      BY <1>10, <3>2, <3>3
    <3> QED
      BY <1>10, <3>1, <3>4
  <2> QED
    BY <2>1, <2>3, <2>4
<1> QED
  BY <1>12, <1>13, <1>14, <1>15, <1>16, <1>17, <1>18, <1>19, <1>20, <1>22 DEF NewsIInv

(* post gives the lock back, and 240 is answered.                           *)
LEMMA PostDoneKeeps ==
  ASSUME NewsIInv, NEW s \in Sessions, PostDone(s)
  PROVE  NewsIInv'
<1> DEFINE new == [sess[s] EXCEPT !.pc = "ready", !.msg = Nothing, !.stored = {}]
           m == sess[s].msg
<1>1. /\ sess[s].pc = "number" /\ Set(s, new) /\ lock' = NoSession
      /\ acked' = acked \cup {<<l[1], l[2], m>> : l \in sess[s].stored}
      /\ UNCHANGED <<up, groups, arts, low, high, byMsgID, dirs, spool, aliased, failures>>
  BY DEF PostDone, memory, disk
<1>2. sess[s].pc \in Writing
  BY <1>1 DEF Writing
<1>3. /\ up /\ lock = s /\ \A t \in Sessions \ {s} : sess[t].pc \notin Writing /\ m \in Msgs
  BY <1>2, WriterIs
<1>4. sess[s] \in Session /\ sess[s].stored \in SUBSET Locs
  BY SessionTyped DEF NewsIInv
<1>5. new \in Session
  BY <1>4 DEF Session, Pcs, Slot
<1>6. /\ new.pc = "ready" /\ new.nums = sess[s].nums /\ new.cur = sess[s].cur
      /\ new.stored = {} /\ new.msg = Nothing
  BY <1>4 DEF Session
<1> HIDE DEF new
<1>7. sess' \in [Sessions -> Session] /\ sess'[s] = new /\ \A t \in Sessions \ {s} : sess'[t] = sess[t]
  BY <1>1, <1>5, SetIs
<1>8. acked \subseteq Groups \X Nums \X Msgs
  BY DEF NewsIInv, NewsTypeOK
<1>9. m \in Msgs
  BY <1>2, WriterIs
<1> HIDE DEF m
<1>10. acked' \subseteq Groups \X Nums \X Msgs
  BY <1>1, <1>4, <1>8, <1>9 DEF Locs
<1>11. NewsTypeOK'
  BY <1>1, <1>7, <1>10 DEF NewsIInv, NewsTypeOK
<1>12. \A t \in Sessions : sess'[t].pc \notin Writing
  BY <1>3, <1>6, <1>7 DEF Writing
<1>13. \A t \in Sessions : lock' # t
  BY <1>1, NamesAssumption
<1>14. OneWriter'
  BY <1>12, <1>13 DEF OneWriter
<1>15. DownEmpty'
  BY <1>1, <1>3 DEF DownEmpty
<1>16. CommandsSound'
  <2>1. CommandSound(new)
    <3>1. CommandSound(sess[s])
      BY DEF NewsIInv, CommandsSound
    <3> QED
      BY <1>1, <1>6, <3>1 DEF CommandSound, Writing
  <2> QED
    BY <1>7, <2>1 DEF NewsIInv, CommandsSound, CommandSound
<1>17. RoomLeft'
  BY <1>13 DEF RoomLeft
<1>18. NumbersInRange'
  BY <1>1 DEF NewsIInv, NumbersInRange, Numbers
<1>19. SlotsSound'
  BY <1>12 DEF SlotsSound, SlotSound, Writing
<1>20. SnapshotValid'
  BY <1>1, <1>6, <1>7 DEF NewsIInv, SnapshotValid
<1>21. IndexSound'
  <2>1. \A t \in Sessions : sess[t].pc # "write"
    BY <1>1, <1>3 DEF Writing
  <2>2. \A x \in Msgs : Holders(arts, x)' = Holders(arts, x)
    BY <1>1 DEF Holders
  <2> QED
    BY <1>1, <2>1, <2>2 DEF NewsIInv, IndexSound
<1>22. PromisesKept'
  <2>1. ASSUME NEW a \in Groups \X Nums \X Msgs, Promised(a)' PROVE Promised(a)
    <3>1. CASE a \in acked'
      <4>1. CASE a \in acked
        BY <4>1 DEF Promised
      <4>2. CASE a \in {<<l[1], l[2], m>> : l \in sess[s].stored}
        <5> PICK l \in sess[s].stored : a = <<l[1], l[2], m>>
          BY <4>2
        <5>1. l = <<l[1], l[2]>> /\ a[1] = l[1] /\ a[2] = l[2] /\ a[3] = m
          BY <1>4 DEF Locs
        <5>2. <<a[1], a[2]>> \in sess[s].stored
          BY <5>1
        <5> QED
          BY <5>1, <5>2 DEF Promised, m
      <4> QED
        BY <1>1, <3>1, <4>1, <4>2
    <3>2. CASE \E t \in Sessions : sess'[t].msg = a[3] /\ <<a[1], a[2]>> \in sess'[t].stored
      BY <1>6, <1>7, <3>2 DEF Promised
    <3> QED
      BY <2>1, <3>1, <3>2 DEF Promised
  <2>2. ASSUME NEW h, NEW k PROVE ~BeingWritten(h, k)'
    BY <1>12 DEF BeingWritten, Writing
  <2> QED
    BY <1>1, <2>1, <2>2 DEF NewsIInv, PromisesKept, Alone
<1> QED
  BY <1>11, <1>14, <1>15, <1>16, <1>17, <1>18, <1>19, <1>20, <1>21, <1>22 DEF NewsIInv

(* Every step of the server.                                                *)
LEMMA NewsStep == NewsIInv /\ [NewsNext]_newsVars => NewsIInv'
<1> SUFFICES ASSUME NewsIInv, [NewsNext]_newsVars PROVE NewsIInv'
  OBVIOUS
<1>1. CASE Start
  BY <1>1, StartKeeps
<1>2. CASE Crash
  BY <1>2, CrashKeeps
<1>3. ASSUME NEW s \in Sessions, Accept(s) \/ Close(s) PROVE NewsIInv'
  BY <1>3, ConnectKeeps
<1>4. ASSUME NEW s \in Sessions, Read(s) PROVE NewsIInv'
  BY <1>4, ReadKeeps
<1>5. ASSUME NEW s \in Sessions, Write(s) PROVE NewsIInv'
  BY <1>5, PostKeeps, PostLockKeeps, PostNumberKeeps, PostStoreKeeps, PostWriteKeeps, PostDoneKeeps
     DEF Write
<1>6. CASE UNCHANGED newsVars
  <2>1. UNCHANGED <<up, groups, arts, low, high, byMsgID, dirs, spool, lock, sess, acked, aliased, failures>>
    BY <1>6 DEF newsVars, memory, disk
  <2>2. NewsTypeOK' /\ OneWriter' /\ DownEmpty'
    BY <2>1 DEF NewsIInv, NewsTypeOK, OneWriter, DownEmpty
  <2>3. CommandsSound' /\ RoomLeft' /\ SlotsSound' /\ SnapshotValid'
    BY <2>1 DEF NewsIInv, CommandsSound, CommandSound, RoomLeft, Ahead, SlotsSound, SlotSound, SnapshotValid
  <2>4. NumbersInRange' /\ IndexSound'
    BY <2>1 DEF NewsIInv, NumbersInRange, Numbers, IndexSound, Holders
  <2>5. PromisesKept'
    BY <2>1 DEF NewsIInv, PromisesKept, Promised, BeingWritten, Alone
  <2> QED
    BY <2>2, <2>3, <2>4, <2>5 DEF NewsIInv
<1> QED
  BY <1>1, <1>2, <1>3, <1>4, <1>5, <1>6 DEF NewsNext

(* What a session was told about a group stays readable, and ARTICLE <id>   *)
(* shows an article with that id and misses none, however reading commands, *)
(* which look at a group outside the lock, are interleaved with posts, and  *)
(* after restarts.                                                          *)
THEOREM AlwaysNewsReadable == NewsSpec => []NewsReadable
<1>1. NewsIInv => NewsReadable
  <2> SUFFICES ASSUME NewsIInv PROVE IndexExact
    BY DEF NewsIInv, NewsReadable
  <2>1. ASSUME NEW s \in Sessions, sess[s].pc = "write" PROVE lock = s /\ s # NoSession
    BY <2>1, NamesAssumption DEF NewsIInv, OneWriter, Writing
  <2> QED
    BY <2>1 DEF NewsIInv, IndexSound, IndexExact
<1> QED
  BY <1>1, NewsInitIInv, NewsStep, PTL DEF NewsSpec

(* An article answered with 240 is under its group and number whenever the  *)
(* server runs, after any crashes, unless a spool file has failed or the    *)
(* directory of the group is not its own: no number is given out twice, and *)
(* no name's path leads to a file it does not share.                        *)
THEOREM AlwaysDurableUnlessFailed == NewsSpec => []DurableUnlessFailed
<1>1. NewsIInv => DurableUnlessFailed
  <2> SUFFICES ASSUME NewsIInv, up, failures = 0, NEW a \in acked, Alone(a[1]) PROVE arts[a[1]][a[2]] = a[3]
    BY DEF DurableUnlessFailed
  <2>1. a \in Groups \X Nums \X Msgs /\ Promised(a)
    BY DEF NewsIInv, NewsTypeOK, Promised
  <2> QED
    BY <2>1 DEF NewsIInv, PromisesKept, Alone
<1> QED
  BY <1>1, NewsInitIInv, NewsStep, PTL DEF NewsSpec

(* What was posted is kept and can be read, both together.                  *)
THEOREM AlwaysNewsKept == NewsSpec => []NewsKept
<1>1. NewsReadable /\ DurableUnlessFailed => NewsKept
  BY DEF NewsKept
<1> QED
  BY <1>1, AlwaysNewsReadable, AlwaysDurableUnlessFailed, PTL

-----------------------------------------------------------------------------
(* The dashboard: rounds of collecting.                                     *)

Proc == [pc : {"idle", "refresh", "collect", "unlock"}, round : Nat,
         next : 0..NVMs, busy : SUBSET VMs, vms : [VMs -> Stat], wake : Nat]

(* Only the holder of collectMu is in a round, and scrapes.                 *)
InRound(q, holds) ==
    /\ q.pc \in {"collect", "unlock"} <=> holds
    /\ q.busy # {} => q.pc = "collect"
    /\ Cardinality(q.busy) <= FanOut
OneCollector == \A p \in Actors : InRound(proc[p], collectMu = p)

(* Since the last answer a machine has sent, and its counter, if the answer *)
(* held it, has lost at most what was sent before its last boot.            *)
CountersAgree ==
    \A v \in VMs : /\ booted[v] <= sent[v]
                   /\ netPrev[v].sent <= sent[v]
                   /\ netPrev[v].own => netPrev[v].sent - netPrev[v].count <= booted[v]

RatesSound == RateSound(cache.vms) /\ \A p \in Actors : RateSound(proc[p].vms)

(* The round under way is the youngest, then the one in the cache, then     *)
(* those the clients were shown.                                            *)
RoundSound(q, n, published) ==
    /\ q.round <= n
    /\ q.pc \in {"collect", "unlock"} => q.round = n
    /\ q.pc = "unlock" => published = n
RoundsOrdered ==
    /\ cache.round <= rounds
    /\ \A c \in Clients : seen[c] <= cache.round
    /\ \A p \in Actors : RoundSound(proc[p], rounds, cache.round)

BoardIInv ==
    /\ TypeOK
    /\ OneCollector
    /\ CountersAgree
    /\ RatesSound
    /\ RoundsOrdered

(* A step in which one goroutine moves, and the rest of the state keeps or  *)
(* gains what the invariant says of it.                                     *)
LEMMA GoroutineStep ==
  ASSUME BoardIInv, NEW p \in Actors, NEW new \in Proc, proc' = [proc EXCEPT ![p] = new],
         now' = now, sent' = sent, booted' = booted, cache' = cache,
         collectMu' \in Actors \cup {Nobody},
         \A q \in Actors \ {p} : (collectMu' = q) = (collectMu = q),
         InRound(new, collectMu' = p),
         netPrev' \in [VMs -> PrevRow],
         CountersAgree', RateSound(new.vms),
         rounds' \in Nat, rounds <= rounds', rounds' # rounds => collectMu = Nobody,
         seen' \in [Clients -> Nat], \A c \in Clients : seen'[c] <= cache.round,
         RoundSound(new, rounds', cache.round)
  PROVE  BoardIInv'
<1>1. proc \in [Actors -> Proc] /\ TypeOK
  BY DEF BoardIInv, TypeOK, Proc
<1>2. proc' \in [Actors -> Proc] /\ proc'[p] = new /\ \A q \in Actors \ {p} : proc'[q] = proc[q]
  BY <1>1
<1>3. TypeOK'
  BY <1>1, <1>2 DEF TypeOK, Proc
<1>4. OneCollector'
  <2> SUFFICES ASSUME NEW q \in Actors PROVE InRound(proc'[q], collectMu' = q)
    BY DEF OneCollector, InRound
  <2>1. CASE q = p
    BY <1>2, <2>1
  <2>2. CASE q # p
    <3>1. proc'[q] = proc[q] /\ (collectMu' = q) = (collectMu = q)
      BY <1>2, <2>2
    <3>2. InRound(proc[q], collectMu = q)
      BY DEF BoardIInv, OneCollector
    <3> QED
      BY <3>1, <3>2
  <2> QED
    BY <2>1, <2>2
<1>5. RatesSound'
  BY <1>2 DEF BoardIInv, RatesSound, RateSound
<1>6. RoundsOrdered'
  <2>1. cache.round \in Nat /\ rounds \in Nat
    BY <1>1 DEF TypeOK
  <2>2. cache'.round <= rounds'
    BY <2>1 DEF BoardIInv, RoundsOrdered
  <2>3. ASSUME NEW q \in Actors PROVE RoundSound(proc'[q], rounds', cache.round)
    <3>1. CASE q = p
      BY <1>2, <3>1 DEF RoundSound
    <3>2. CASE q # p
      <4>1. proc'[q] = proc[q] /\ RoundSound(proc[q], rounds, cache.round) /\ proc[q].round \in Nat
        BY <1>1, <1>2, <3>2 DEF BoardIInv, RoundsOrdered, Proc
      <4>2. CASE rounds' = rounds
        BY <4>1, <4>2 DEF RoundSound
      <4>3. CASE rounds' # rounds
        <5>1. collectMu # q
          BY <4>3, ActorsAssumption DEF Actors
        <5>2. proc[q].pc \notin {"collect", "unlock"}
          BY <5>1 DEF BoardIInv, OneCollector, InRound
        <5> QED
          BY <2>1, <4>1, <5>2 DEF RoundSound
      <4> QED
        BY <4>2, <4>3
    <3> QED
      BY <3>1, <3>2
  <2> QED
    BY <2>2, <2>3 DEF RoundsOrdered
<1> QED
  BY <1>3, <1>4, <1>5, <1>6 DEF BoardIInv

(* What a goroutine of the dashboard is.                                    *)
LEMMA GoroutineIs ==
  ASSUME BoardIInv, NEW p \in Actors
  PROVE  /\ proc \in [Actors -> Proc] /\ proc[p] \in Proc /\ InRound(proc[p], collectMu = p)
         /\ RateSound(proc[p].vms) /\ RoundSound(proc[p], rounds, cache.round)
         /\ proc[p].round \in Nat /\ rounds \in Nat /\ cache.round \in Nat
<1>1. proc \in [Actors -> Proc] /\ rounds \in Nat /\ cache.round \in Nat
  BY DEF BoardIInv, TypeOK, Proc
<1>2. proc[p] \in Proc /\ proc[p].round \in Nat
  BY <1>1 DEF Proc
<1>3. InRound(proc[p], collectMu = p)
  BY DEF BoardIInv, OneCollector
<1>4. RateSound(proc[p].vms) /\ RoundSound(proc[p], rounds, cache.round)
  BY DEF BoardIInv, RatesSound, RoundsOrdered
<1> QED
  BY <1>1, <1>2, <1>3, <1>4

(* A goroutine outside of a round. *)
LEMMA IdleIs ==
  ASSUME NEW w \in Nat, NEW n \in Nat, NEW pc \in {"idle", "refresh", "collect", "unlock"},
         NEW q, q = [pc |-> pc, round |-> n, next |-> 0, busy |-> {}, vms |-> NoStats, wake |-> w]
  PROVE  /\ q \in Proc /\ RateSound(q.vms) /\ q.pc = pc /\ q.round = n /\ q.busy = {}
         /\ Cardinality(q.busy) <= FanOut
<1>1. Unreachable \in Stat /\ Unreachable.rate = 0 /\ Unreachable.most = 0
  BY DEF Unreachable, Stat
<1>2. NoStats \in [VMs -> Stat] /\ RateSound(NoStats)
  BY <1>1 DEF NoStats, RateSound
<1>3. 0 \in 0..NVMs
  BY SizesAssumption
<1>4. q \in Proc /\ q.vms = NoStats /\ q.busy = {} /\ q.pc = pc /\ q.round = n
  BY <1>2, <1>3 DEF Idle, Proc
<1>5. Cardinality({}) <= FanOut
  BY FS_EmptySet, SizesAssumption
<1> QED
  BY <1>2, <1>4, <1>5

(* The start of the dashboard. *)
LEMMA BoardInit == Init => BoardIInv
<1> SUFFICES ASSUME Init PROVE BoardIInv
  OBVIOUS
<1>1. /\ now = 0 /\ sent = [v \in VMs |-> 0] /\ booted = sent /\ collectMu = Nobody
      /\ proc = [p \in Actors |-> Idle] /\ netPrev = [v \in VMs |-> NeverScraped]
      /\ cache = [at |-> Never, round |-> 0, vms |-> NoStats]
      /\ rounds = 0 /\ seen = [c \in Clients |-> 0]
  BY DEF Init
<1>2. Idle = [pc |-> "idle", round |-> 0, next |-> 0, busy |-> {}, vms |-> NoStats, wake |-> 0]
  BY DEF Idle
<1>3. /\ Idle \in Proc /\ RateSound(Idle.vms) /\ Idle.pc = "idle" /\ Idle.round = 0 /\ Idle.busy = {}
      /\ Cardinality(Idle.busy) <= FanOut
  BY <1>2, 0 \in Nat, IdleIs
<1>4. Idle.vms = NoStats /\ NoStats \in [VMs -> Stat]
  BY <1>3 DEF Idle, Proc
<1>5. TypeOK
  <2>1. NeverScraped \in PrevRow
    BY DEF NeverScraped, PrevRow
  <2>2. proc \in [Actors -> Proc]
    BY <1>1, <1>3
  <2>3. cache \in [at : Nat \cup {Never}, round : Nat, vms : [VMs -> Stat]]
    BY <1>1, <1>4
  <2> QED
    BY <1>1, <2>1, <2>2, <2>3 DEF TypeOK, Proc
<1>6. OneCollector
  BY <1>1, <1>3, ActorsAssumption DEF OneCollector, InRound, Actors
<1>7. CountersAgree
  BY <1>1 DEF CountersAgree, NeverScraped
<1>8. RatesSound
  BY <1>1, <1>3, <1>4 DEF RatesSound
<1>9. RoundsOrdered
  BY <1>1, <1>3 DEF RoundsOrdered, RoundSound
<1> QED
  BY <1>5, <1>6, <1>7, <1>8, <1>9 DEF BoardIInv

(* A goroutine returns, or the collector pauses. *)
LEMMA LeaveIs ==
  ASSUME BoardIInv, NEW p \in Actors, Rest(p) \/ Return(p)
  PROVE  \E new \in Proc : /\ proc' = [proc EXCEPT ![p] = new]
                           /\ RateSound(new.vms) /\ new.pc = "idle" /\ new.round = 0
                           /\ InRound(new, FALSE)
<1>1. CASE Rest(p)
  <2> DEFINE new == [Idle EXCEPT !.wake = now + Interval]
  <2>1. now + Interval \in Nat
    BY SizesAssumption DEF BoardIInv, TypeOK
  <2>2. new = [pc |-> "idle", round |-> 0, next |-> 0, busy |-> {}, vms |-> NoStats, wake |-> now + Interval]
    BY DEF Idle
  <2>3. proc' = [proc EXCEPT ![p] = new]
    BY <1>1 DEF Rest
  <2> HIDE DEF new
  <2>4. new \in Proc /\ RateSound(new.vms) /\ new.pc = "idle" /\ new.round = 0 /\ new.busy = {}
        /\ Cardinality(new.busy) <= FanOut
    BY <2>1, <2>2, 0 \in Nat, IdleIs, SMTT(30)
  <2> QED
    BY <2>3, <2>4 DEF InRound
<1>2. CASE Return(p)
  <2>1. Idle = [pc |-> "idle", round |-> 0, next |-> 0, busy |-> {}, vms |-> NoStats, wake |-> 0]
    BY DEF Idle
  <2>2. proc' = [proc EXCEPT ![p] = Idle]
    BY <1>2 DEF Return
  <2>3. Idle \in Proc /\ RateSound(Idle.vms) /\ Idle.pc = "idle" /\ Idle.round = 0 /\ Idle.busy = {}
        /\ Cardinality(Idle.busy) <= FanOut
    BY <2>1, 0 \in Nat, IdleIs
  <2> QED
    BY <2>2, <2>3 DEF InRound
<1> QED
  BY <1>1, <1>2

(* A goroutine that moves to another program point keeps its round, its     *)
(* semaphore and the machines it has scraped.                               *)
LEMMA ToIs ==
  ASSUME BoardIInv, NEW p \in Actors, NEW pc \in {"idle", "refresh", "collect", "unlock"}, To(p, pc)
  PROVE  \E new \in Proc : /\ proc' = [proc EXCEPT ![p] = new]
                           /\ new.pc = pc /\ new.round = proc[p].round /\ new.busy = proc[p].busy
                           /\ new.vms = proc[p].vms /\ RateSound(new.vms)
<1> DEFINE new == [proc[p] EXCEPT !.pc = pc]
<1>1. proc[p] \in Proc /\ RateSound(proc[p].vms) /\ proc \in [Actors -> Proc]
  BY GoroutineIs
<1>2. proc' = [proc EXCEPT ![p] = new]
  BY <1>1 DEF To
<1>3. /\ new \in Proc /\ new.pc = pc /\ new.round = proc[p].round /\ new.busy = proc[p].busy
      /\ new.vms = proc[p].vms
  BY <1>1 DEF Proc
<1> HIDE DEF new
<1> QED
  BY <1>1, <1>2, <1>3

(* Serve shows one client a round. *)
LEMMA ServeIs ==
  ASSUME BoardIInv, NEW c \in Clients, NEW n \in Nat, Serve(c, n)
  PROVE  seen' \in [Clients -> Nat] /\ seen'[c] = n /\ \A d \in Clients \ {c} : seen'[d] = seen[d]
<1>1. seen \in [Clients -> Nat]
  BY DEF BoardIInv, TypeOK
<1> QED
  BY <1>1 DEF Serve

(* A request finds the cache fresh, or begins a refresh; or the collector's *)
(* pause is over.                                                           *)
LEMMA RefreshStarts ==
  ASSUME BoardIInv, (\E c \in Clients : CachedOrRefresh(c)) \/ Wake
  PROVE  BoardIInv' /\ \A d \in Clients : seen'[d] >= seen[d]
<1>1. /\ TypeOK /\ netPrev \in [VMs -> PrevRow]
      /\ collectMu \in Actors \cup {Nobody} /\ seen \in [Clients -> Nat] /\ cache.round \in Nat
      /\ rounds \in Nat /\ rounds <= rounds /\ \A d \in Clients : seen[d] \in Nat /\ seen[d] <= cache.round
  BY DEF BoardIInv, TypeOK, RoundsOrdered
<1>2. /\ now' = now /\ sent' = sent /\ booted' = booted /\ collectMu' = collectMu
      /\ netPrev' = netPrev /\ cache' = cache /\ rounds' = rounds
  BY DEF CachedOrRefresh, Wake
<1>3. CountersAgree'
  BY <1>2 DEF BoardIInv, CountersAgree
<1>4. ASSUME NEW p \in Actors, proc[p].pc = "idle", To(p, "refresh"), UNCHANGED seen
      PROVE  BoardIInv' /\ \A d \in Clients : seen'[d] >= seen[d]
  <2> PICK new \in Proc : /\ proc' = [proc EXCEPT ![p] = new]
                          /\ new.pc = "refresh" /\ new.round = proc[p].round /\ new.busy = proc[p].busy
                          /\ new.vms = proc[p].vms /\ RateSound(new.vms)
    BY <1>4, ToIs
  <2>1. InRound(proc[p], collectMu = p) /\ RoundSound(proc[p], rounds, cache.round)
    BY GoroutineIs
  <2>2. InRound(new, collectMu' = p) /\ RoundSound(new, rounds', cache.round)
    BY <1>2, <1>4, <2>1 DEF InRound, RoundSound
  <2>3. seen' = seen
    BY <1>4
  <2>4. BoardIInv'
    BY <1>1, <1>2, <1>3, <2>2, <2>3, GoroutineStep
  <2> QED
    BY <1>1, <2>3, <2>4
<1>5. ASSUME NEW c \in Clients, Serve(c, cache.round), UNCHANGED proc
      PROVE  BoardIInv' /\ \A d \in Clients : seen'[d] >= seen[d]
  <2>1. seen' \in [Clients -> Nat] /\ seen'[c] = cache.round /\ \A d \in Clients \ {c} : seen'[d] = seen[d]
    BY <1>1, <1>5, ServeIs
  <2>2. \A d \in Clients : seen'[d] <= cache.round /\ seen'[d] >= seen[d]
    BY <1>1, <2>1
  <2>3. TypeOK'
    BY <1>1, <1>2, <1>5, <2>1 DEF TypeOK
  <2>4. OneCollector' /\ RatesSound'
    BY <1>2, <1>5 DEF BoardIInv, OneCollector, InRound, RatesSound, RateSound
  <2>5. RoundsOrdered'
    BY <1>2, <1>5, <2>2 DEF BoardIInv, RoundsOrdered, RoundSound
  <2> QED
    BY <1>3, <2>2, <2>3, <2>4, <2>5 DEF BoardIInv
<1>6. ASSUME NEW c \in Clients, CachedOrRefresh(c)
      PROVE  BoardIInv' /\ \A d \in Clients : seen'[d] >= seen[d]
  BY <1>4, <1>5, <1>6 DEF CachedOrRefresh, Actors
<1>7. CASE Wake
  BY <1>4, <1>7 DEF Wake, Actors
<1> QED
  BY <1>6, <1>7

(* A goroutine takes collectMu and begins a round, or finds it taken. *)
LEMMA RoundBegins ==
  ASSUME BoardIInv, NEW p \in Actors, BeginRound(p) \/ ReturnCache(p)
  PROVE  BoardIInv' /\ \A d \in Clients : seen'[d] >= seen[d]
<1>1. /\ TypeOK /\ netPrev \in [VMs -> PrevRow]
      /\ collectMu \in Actors \cup {Nobody} /\ seen \in [Clients -> Nat] /\ cache.round \in Nat
      /\ rounds \in Nat /\ rounds <= rounds /\ \A d \in Clients : seen[d] \in Nat /\ seen[d] <= cache.round
      /\ cache.round <= rounds
  BY DEF BoardIInv, TypeOK, RoundsOrdered
<1>2. now' = now /\ sent' = sent /\ booted' = booted /\ netPrev' = netPrev /\ cache' = cache
  BY DEF BeginRound, ReturnCache
<1>3. CountersAgree'
  BY <1>2 DEF BoardIInv, CountersAgree
<1>4. proc[p].pc = "refresh" /\ InRound(proc[p], collectMu = p) /\ proc \in [Actors -> Proc]
  BY GoroutineIs DEF BeginRound, ReturnCache
<1>5. CASE BeginRound(p)
  <2> DEFINE new == [Idle EXCEPT !.pc = "collect", !.round = rounds + 1]
  <2>1. /\ collectMu = Nobody /\ collectMu' = p /\ rounds' = rounds + 1 /\ seen' = seen
        /\ proc' = [proc EXCEPT ![p] = new]
    BY <1>5 DEF BeginRound, MuFree
  <2>2. new = [pc |-> "collect", round |-> rounds + 1, next |-> 0, busy |-> {}, vms |-> NoStats, wake |-> 0]
    <3>1. [Idle EXCEPT !.pc = "collect"] =
            [pc |-> "collect", round |-> 0, next |-> 0, busy |-> {}, vms |-> NoStats, wake |-> 0]
      BY DEF Idle
    <3>2. new = [[Idle EXCEPT !.pc = "collect"] EXCEPT !.round = rounds + 1]
      OBVIOUS
    <3>3. \A n : [[pc |-> "collect", round |-> 0, next |-> 0, busy |-> {}, vms |-> NoStats, wake |-> 0]
                     EXCEPT !.round = n] =
            [pc |-> "collect", round |-> n, next |-> 0, busy |-> {}, vms |-> NoStats, wake |-> 0]
      OBVIOUS
    <3> QED
      BY <3>1, <3>2, <3>3
  <2> HIDE DEF new
  <2>0. rounds + 1 \in Nat
    BY <1>1
  <2>3. /\ new \in Proc /\ RateSound(new.vms) /\ new.pc = "collect" /\ new.round = rounds + 1
        /\ new.busy = {} /\ Cardinality(new.busy) <= FanOut
    BY <2>2, <2>0, 0 \in Nat, IdleIs
  <2>4. InRound(new, collectMu' = p) /\ RoundSound(new, rounds', cache.round)
    BY <1>1, <2>1, <2>3 DEF InRound, RoundSound
  <2>5. \A q \in Actors \ {p} : (collectMu' = q) = (collectMu = q)
    BY <2>1, ActorsAssumption DEF Actors
  <2>6. rounds' \in Nat /\ rounds <= rounds' /\ collectMu' \in Actors \cup {Nobody}
    BY <1>1, <2>1
  <2>7. BoardIInv'
    BY <1>1, <1>2, <1>3, <2>1, <2>3, <2>4, <2>5, <2>6, GoroutineStep
  <2> QED
    BY <1>1, <2>1, <2>7
<1>6. CASE ReturnCache(p)
  <2>1. /\ collectMu' = collectMu /\ rounds' = rounds /\ (Rest(p) \/ Return(p))
        /\ seen' = seen \/ (p \in Clients /\ Serve(p, cache.round))
    <3>1. CASE p = Loop
      BY <1>6, <3>1 DEF ReturnCache
    <3>2. CASE p # Loop
      BY <1>6, <3>2 DEF ReturnCache, Actors
    <3> QED
      BY <3>1, <3>2
  <2> PICK new \in Proc : /\ proc' = [proc EXCEPT ![p] = new]
                          /\ RateSound(new.vms) /\ new.pc = "idle" /\ new.round = 0
                          /\ InRound(new, FALSE)
    BY <2>1, LeaveIs
  <2>2. collectMu # p
    BY <1>4 DEF InRound
  <2>3. InRound(new, collectMu' = p) /\ RoundSound(new, rounds', cache.round)
    BY <1>1, <2>1, <2>2 DEF InRound, RoundSound
  <2>4. seen' \in [Clients -> Nat] /\ \A d \in Clients : seen'[d] <= cache.round /\ seen'[d] >= seen[d]
    <3>1. CASE seen' = seen
      BY <1>1, <3>1
    <3>2. CASE p \in Clients /\ Serve(p, cache.round)
      <4>1. seen' \in [Clients -> Nat] /\ seen'[p] = cache.round /\ \A d \in Clients \ {p} : seen'[d] = seen[d]
        BY <1>1, <3>2, ServeIs
      <4> QED
        BY <1>1, <3>2, <4>1
    <3> QED
      BY <2>1, <3>1, <3>2
  <2>5. BoardIInv'
    BY <1>1, <1>2, <1>3, <2>1, <2>3, <2>4, GoroutineStep
  <2> QED
    BY <2>4, <2>5
<1> QED
  BY <1>5, <1>6

(* The slots of a round. *)
LEMMA BusyFinite ==
  ASSUME BoardIInv, NEW p \in Actors
  PROVE  proc[p].busy \subseteq VMs /\ IsFiniteSet(proc[p].busy) /\ Cardinality(proc[p].busy) \in Nat
<1>1. proc[p].busy \subseteq VMs
  BY GoroutineIs DEF Proc
<1>2. IsFiniteSet(VMs)
  BY FS_Interval, SizesAssumption DEF VMs
<1> QED
  BY <1>1, <1>2, FS_Subset, FS_CardinalityType

(* The next machine of a round gets a slot. *)
LEMMA SlotTaken ==
  ASSUME BoardIInv, NEW p \in Actors, BeginVM(p)
  PROVE  BoardIInv' /\ \A d \in Clients : seen'[d] >= seen[d]
<1> DEFINE v == proc[p].next + 1
           new == [proc[p] EXCEPT !.next = v, !.busy = @ \cup {v}]
<1>1. /\ TypeOK /\ netPrev \in [VMs -> PrevRow]
      /\ collectMu \in Actors \cup {Nobody} /\ seen \in [Clients -> Nat] /\ cache.round \in Nat
      /\ rounds \in Nat /\ rounds <= rounds /\ \A d \in Clients : seen[d] \in Nat /\ seen[d] <= cache.round
  BY DEF BoardIInv, TypeOK, RoundsOrdered
<1>2. /\ now' = now /\ sent' = sent /\ booted' = booted /\ netPrev' = netPrev /\ cache' = cache
      /\ collectMu' = collectMu /\ rounds' = rounds /\ seen' = seen
      /\ proc[p].pc = "collect" /\ v \in VMs /\ Cardinality(proc[p].busy) < FanOut
  BY DEF BeginVM
<1>3. CountersAgree'
  BY <1>2 DEF BoardIInv, CountersAgree
<1>4. /\ proc[p] \in Proc /\ proc \in [Actors -> Proc] /\ InRound(proc[p], collectMu = p)
      /\ RateSound(proc[p].vms) /\ RoundSound(proc[p], rounds, cache.round)
  BY GoroutineIs
<1>5. proc' = [proc EXCEPT ![p] = new]
  BY <1>4 DEF BeginVM
<1>6. v \in 0..NVMs /\ proc[p].busy \cup {v} \in SUBSET VMs
  BY <1>2, <1>4, SizesAssumption DEF VMs, Proc
<1>7. /\ new \in Proc /\ new.pc = "collect" /\ new.round = proc[p].round
      /\ new.busy = proc[p].busy \cup {v} /\ new.vms = proc[p].vms
  BY <1>2, <1>4, <1>6 DEF Proc
<1> HIDE DEF new
<1>8. Cardinality(new.busy) <= FanOut
  <2>1. IsFiniteSet(proc[p].busy) /\ Cardinality(proc[p].busy) \in Nat
    BY BusyFinite
  <2>2. Cardinality(proc[p].busy \cup {v}) =
          IF v \in proc[p].busy THEN Cardinality(proc[p].busy) ELSE Cardinality(proc[p].busy) + 1
    BY <2>1, FS_AddElement
  <2> QED
    BY <1>2, <1>7, <2>1, <2>2, SizesAssumption
<1>9. InRound(new, collectMu' = p) /\ RoundSound(new, rounds', cache.round)
  BY <1>2, <1>4, <1>7, <1>8 DEF InRound, RoundSound
<1>10. BoardIInv'
  BY <1>1, <1>2, <1>3, <1>4, <1>5, <1>7, <1>9, GoroutineStep
<1> QED
  BY <1>1, <1>2, <1>10

(* A scrape of a round ends and gives its slot back. *)
LEMMA ScrapeOver ==
  ASSUME BoardIInv, NEW p \in Actors, NEW v \in proc[p].busy, NEW stat \in Stat,
         0 <= stat.rate /\ stat.rate <= stat.most,
         proc' = [proc EXCEPT ![p] = [proc[p] EXCEPT !.vms = [proc[p].vms EXCEPT ![v] = stat],
                                                     !.busy = proc[p].busy \ {v}]],
         now' = now, sent' = sent, booted' = booted, cache' = cache, collectMu' = collectMu,
         rounds' = rounds, seen' = seen, CountersAgree',
         netPrev' \in [VMs -> PrevRow]
  PROVE  BoardIInv' /\ \A d \in Clients : seen'[d] >= seen[d]
<1> DEFINE new == [proc[p] EXCEPT !.vms = [proc[p].vms EXCEPT ![v] = stat], !.busy = proc[p].busy \ {v}]
<1>1. /\ collectMu \in Actors \cup {Nobody} /\ seen \in [Clients -> Nat] /\ cache.round \in Nat
      /\ rounds \in Nat /\ rounds <= rounds /\ \A d \in Clients : seen[d] \in Nat /\ seen[d] <= cache.round
  BY DEF BoardIInv, TypeOK, RoundsOrdered
<1>2. /\ proc[p] \in Proc /\ proc \in [Actors -> Proc] /\ InRound(proc[p], collectMu = p)
      /\ RateSound(proc[p].vms) /\ RoundSound(proc[p], rounds, cache.round)
  BY GoroutineIs
<1>3. proc' = [proc EXCEPT ![p] = new]
  BY <1>2
<1>4. proc[p].vms \in [VMs -> Stat] /\ proc[p].busy \subseteq VMs
  BY <1>2 DEF Proc
<1>5. [proc[p].vms EXCEPT ![v] = stat] \in [VMs -> Stat] /\ proc[p].busy \ {v} \in SUBSET VMs
  BY <1>4
<1>6. /\ new \in Proc /\ new.pc = proc[p].pc /\ new.round = proc[p].round
      /\ new.busy = proc[p].busy \ {v} /\ new.vms = [proc[p].vms EXCEPT ![v] = stat]
  BY <1>2, <1>5 DEF Proc
<1> HIDE DEF new
<1>7. RateSound(new.vms)
  <2> SUFFICES ASSUME NEW u \in VMs PROVE 0 <= new.vms[u].rate /\ new.vms[u].rate <= new.vms[u].most
    BY DEF RateSound
  <2>1. CASE u = v
    BY <1>4, <1>6, <2>1
  <2>2. CASE u # v
    BY <1>2, <1>4, <1>6, <2>2 DEF RateSound
  <2> QED
    BY <2>1, <2>2
<1>8. Cardinality(new.busy) <= FanOut
  <2>1. IsFiniteSet(proc[p].busy) /\ Cardinality(proc[p].busy) \in Nat /\ Cardinality(proc[p].busy) <= FanOut
    BY <1>2, BusyFinite DEF InRound
  <2>2. Cardinality(new.busy) \in Nat /\ Cardinality(new.busy) <= Cardinality(proc[p].busy)
    BY <1>6, <2>1, FS_Subset, FS_CardinalityType
  <2> QED
    BY <2>1, <2>2, SizesAssumption
<1>9. InRound(new, collectMu' = p) /\ RoundSound(new, rounds', cache.round)
  BY <1>2, <1>6, <1>8 DEF InRound, RoundSound
<1>10. BoardIInv'
  BY <1>1, <1>2, <1>3, <1>6, <1>7, <1>9, GoroutineStep
<1> QED
  BY <1>1, <1>10

(* collectVM: what a rate says was sent is at most what was sent since the  *)
(* previous scrape.                                                         *)
LEMMA ScrapeKeeps ==
  ASSUME BoardIInv, NEW p \in Actors, NEW v \in VMs, Scrape(p, v) \/ ScrapeFails(p, v)
  PROVE  BoardIInv' /\ \A d \in Clients : seen'[d] >= seen[d]
<1>1. /\ now' = now /\ sent' = sent /\ booted' = booted /\ cache' = cache
      /\ collectMu' = collectMu /\ rounds' = rounds /\ seen' = seen /\ v \in proc[p].busy
  BY DEF Scrape, ScrapeFails
<1>2. /\ now \in Nat /\ sent \in [VMs -> Nat] /\ booted \in [VMs -> Nat]
      /\ netPrev \in [VMs -> PrevRow]
      /\ proc \in [Actors -> Proc] /\ proc[p] \in Proc
  BY GoroutineIs DEF BoardIInv, TypeOK
<1>3. CASE ScrapeFails(p, v)
  <2>1. Unreachable \in Stat /\ Unreachable.rate = 0 /\ Unreachable.most = 0
    BY DEF Unreachable, Stat
  <2>2. /\ netPrev' = netPrev
        /\ proc' = [proc EXCEPT ![p] = [proc[p] EXCEPT !.vms = [proc[p].vms EXCEPT ![v] = Unreachable],
                                                       !.busy = proc[p].busy \ {v}]]
    BY <1>2, <1>3 DEF ScrapeFails
  <2>3. CountersAgree'
    BY <1>1, <2>2 DEF BoardIInv, CountersAgree
  <2>4. 0 <= Unreachable.rate /\ Unreachable.rate <= Unreachable.most
    BY <2>1
  <2>5. netPrev' \in [VMs -> PrevRow]
    BY <1>2, <2>2
  <2> QED
    BY <1>1, <2>1, <2>2, <2>3, <2>4, <2>5, ScrapeOver
<1>4. CASE Scrape(p, v)
  <2> DEFINE prev == netPrev[v]
             real == sent[v] - prev.sent
  <2> PICK a \in Answers(v) :
        /\ proc' = [proc EXCEPT ![p].busy = @ \ {v},
              ![p].vms[v] = [rate |-> Delta(a.count, prev),
                             most |-> IF a.own /\ prev.own THEN real ELSE a.count]]
        /\ netPrev' = [netPrev EXCEPT ![v] =
              [count |-> a.count, at |-> now, sent |-> sent[v], own |-> a.own]]
    BY <1>4 DEF Scrape
  <2> DEFINE most == IF a.own /\ prev.own THEN real ELSE a.count
             stat == [rate |-> Delta(a.count, prev), most |-> most]
             last == [count |-> a.count, at |-> now, sent |-> sent[v], own |-> a.own]
  <2>1. /\ sent[v] \in Nat /\ booted[v] \in Nat /\ prev.count \in Nat /\ prev.sent \in Nat
        /\ booted[v] <= sent[v] /\ prev.sent <= sent[v] /\ prev.own \in BOOLEAN
        /\ prev.own => prev.sent - prev.count <= booted[v]
    BY <1>2 DEF BoardIInv, CountersAgree, PrevRow
  <2>2. /\ netPrev' = [netPrev EXCEPT ![v] = last]
        /\ proc' = [proc EXCEPT ![p] = [proc[p] EXCEPT !.vms = [proc[p].vms EXCEPT ![v] = stat],
                                                       !.busy = proc[p].busy \ {v}]]
    BY <1>2
  <2>3. a.count \in Nat /\ a.own \in BOOLEAN /\ (a.own => a.count = sent[v] - booted[v]) /\ real \in Nat
    <3> DEFINE count == sent[v] - booted[v]
    <3>1. count \in Nat /\ real \in Nat
      BY <2>1
    <3> HIDE DEF count, real
    <3>5. OtherCounts[v] \subseteq Nat
      <4>1. OtherCounts \in [1..NVMs -> SUBSET Nat] /\ v \in 1..NVMs
        BY SizesAssumption, Zenon DEF VMs
      <4> QED
        BY <4>1
    <3>2. a \in [own : {TRUE}, count : {count}] \/ a \in [own : {FALSE}, count : OtherCounts[v]]
      BY DEF Answers, count
    <3>3. CASE a \in [own : {TRUE}, count : {count}]
      <4>1. a.own \in {TRUE} /\ a.count \in {count}
        BY <3>3, Zenon
      <4> QED
        BY <3>1, <4>1 DEF count
    <3>4. CASE a \in [own : {FALSE}, count : OtherCounts[v]]
      <4>1. a.own \in {FALSE} /\ a.count \in OtherCounts[v]
        BY <3>4, Zenon
      <4> QED
        BY <3>1, <3>5, <4>1
    <3> QED
      BY <3>2, <3>3, <3>4
  <2> HIDE DEF prev
  <2>4. Delta(a.count, prev) \in Int /\ 0 <= Delta(a.count, prev) /\ Delta(a.count, prev) <= most
    <3>1. CASE Delta(a.count, prev) = 0
      BY <2>1, <2>3, <3>1
    <3>2. CASE Delta(a.count, prev) # 0
      <4>1. Delta(a.count, prev) = a.count - prev.count /\ a.count >= prev.count
        BY <3>2 DEF Delta
      <4>2. CASE a.own /\ prev.own
        BY <2>1, <2>3, <4>1, <4>2
      <4>3. CASE ~(a.own /\ prev.own)
        BY <2>1, <2>3, <4>1, <4>3
      <4> QED
        BY <4>2, <4>3
    <3> QED
      BY <3>1, <3>2
  <2>5. stat \in Stat /\ stat.rate = Delta(a.count, prev) /\ stat.most = most
    BY <2>3, <2>4 DEF Stat
  <2>6. last \in PrevRow
    BY <1>2, <2>1, <2>3 DEF PrevRow
  <2>7. netPrev' \in [VMs -> PrevRow]
    BY <1>2, <2>2, <2>6
  <2>8. CountersAgree'
    <3> SUFFICES ASSUME NEW u \in VMs
                 PROVE  /\ booted[u] <= sent[u] /\ netPrev'[u].sent <= sent[u]
                        /\ netPrev'[u].own => netPrev'[u].sent - netPrev'[u].count <= booted[u]
      BY <1>1 DEF CountersAgree
    <3>1. CASE u = v
      <4>1. netPrev'[u] = last
        BY <1>2, <2>2, <3>1
      <4>2. last.sent = sent[v] /\ last.count = a.count /\ last.own = a.own
        OBVIOUS
      <4> QED
        BY <2>1, <2>3, <3>1, <4>1, <4>2
    <3>2. CASE u # v
      BY <1>2, <2>2, <3>2 DEF BoardIInv, CountersAgree
    <3> QED
      BY <3>1, <3>2
  <2> HIDE DEF stat, last
  <2>9. 0 <= stat.rate /\ stat.rate <= stat.most
    BY <2>4, <2>5
  <2> QED
    BY <1>1, <2>2, <2>5, <2>7, <2>8, <2>9, ScrapeOver
<1> QED
  BY <1>3, <1>4

(* The cache is swapped for the round under way. *)
LEMMA PublishKeeps ==
  ASSUME BoardIInv, NEW p \in Actors, Publish(p)
  PROVE  BoardIInv' /\ \A d \in Clients : seen'[d] >= seen[d]
<1>1. /\ now' = now /\ sent' = sent /\ booted' = booted /\ collectMu' = collectMu
      /\ netPrev' = netPrev /\ rounds' = rounds /\ seen' = seen
      /\ cache' = [at |-> now, round |-> proc[p].round, vms |-> proc[p].vms]
      /\ proc[p].pc = "collect" /\ proc[p].busy = {} /\ To(p, "unlock")
  BY DEF Publish
<1>2. /\ proc \in [Actors -> Proc] /\ proc[p] \in Proc /\ InRound(proc[p], collectMu = p)
      /\ RateSound(proc[p].vms) /\ RoundSound(proc[p], rounds, cache.round)
      /\ proc[p].round \in Nat /\ rounds \in Nat /\ cache.round \in Nat
  BY GoroutineIs
<1>3. proc[p].round = rounds /\ collectMu = p
  BY <1>1, <1>2 DEF RoundSound, InRound
<1>4. /\ TypeOK /\ now \in Nat /\ seen \in [Clients -> Nat]
      /\ \A d \in Clients : seen[d] \in Nat /\ seen[d] <= cache.round /\ cache.round <= rounds
  BY DEF BoardIInv, TypeOK, RoundsOrdered
<1> PICK new \in Proc : /\ proc' = [proc EXCEPT ![p] = new]
                        /\ new.pc = "unlock" /\ new.round = proc[p].round /\ new.busy = proc[p].busy
                        /\ new.vms = proc[p].vms /\ RateSound(new.vms)
  BY <1>1, ToIs
<1>5. proc' \in [Actors -> Proc] /\ proc'[p] = new /\ \A q \in Actors \ {p} : proc'[q] = proc[q]
  BY <1>2
<1>6. /\ cache' \in [at : Nat \cup {Never}, round : Nat, vms : [VMs -> Stat]]
      /\ cache'.round = rounds /\ cache'.vms = proc[p].vms
  BY <1>1, <1>2, <1>3, <1>4 DEF Proc
<1>7. TypeOK'
  BY <1>1, <1>4, <1>5, <1>6 DEF TypeOK, Proc
<1>8. OneCollector'
  <2>1. InRound(new, collectMu = p)
    BY <1>1, <1>2 DEF InRound
  <2>2. \A q \in Actors \ {p} : InRound(proc'[q], collectMu = q)
    BY <1>5 DEF BoardIInv, OneCollector
  <2> QED
    BY <1>1, <1>5, <2>1, <2>2 DEF OneCollector, InRound
<1>9. CountersAgree'
  BY <1>1 DEF BoardIInv, CountersAgree
<1>10. RatesSound'
  BY <1>2, <1>5, <1>6 DEF BoardIInv, RatesSound, RateSound
<1>11. RoundsOrdered'
  <2>1. \A d \in Clients : seen[d] <= rounds
    BY <1>2, <1>4
  <2>2. ASSUME NEW q \in Actors PROVE RoundSound(proc'[q], rounds, rounds)
    <3>1. CASE q = p
      BY <1>2, <1>3, <1>5, <3>1 DEF RoundSound
    <3>2. CASE q # p
      BY <1>5, <3>2 DEF BoardIInv, RoundsOrdered, RoundSound
    <3> QED
      BY <3>1, <3>2
  <2> QED
    BY <1>1, <1>2, <1>6, <2>1, <2>2 DEF RoundsOrdered, RoundSound
<1> QED
  BY <1>1, <1>4, <1>7, <1>8, <1>9, <1>10, <1>11 DEF BoardIInv

(* The round is over, and a client is served it. *)
LEMMA RoundEnds ==
  ASSUME BoardIInv, NEW p \in Actors, EndRound(p)
  PROVE  BoardIInv' /\ \A d \in Clients : seen'[d] >= seen[d]
<1>1. /\ netPrev \in [VMs -> PrevRow]
      /\ seen \in [Clients -> Nat]
      /\ \A d \in Clients : seen[d] \in Nat /\ seen[d] <= cache.round
  BY DEF BoardIInv, TypeOK, RoundsOrdered
<1>2. /\ proc \in [Actors -> Proc] /\ InRound(proc[p], collectMu = p)
      /\ RoundSound(proc[p], rounds, cache.round)
      /\ proc[p].round \in Nat /\ rounds \in Nat /\ cache.round \in Nat
  BY GoroutineIs
<1>3. /\ now' = now /\ sent' = sent /\ booted' = booted /\ netPrev' = netPrev /\ cache' = cache
      /\ rounds' = rounds /\ collectMu' = Nobody /\ proc[p].pc = "unlock"
  BY DEF EndRound
<1>4. (Rest(p) \/ Return(p)) /\ (seen' = seen \/ (p \in Clients /\ Serve(p, proc[p].round)))
  <2>1. CASE p = Loop
    BY <2>1 DEF EndRound
  <2>2. CASE p # Loop
    BY <2>2 DEF EndRound, Actors
  <2> QED
    BY <2>1, <2>2
<1> PICK new \in Proc : /\ proc' = [proc EXCEPT ![p] = new]
                        /\ RateSound(new.vms) /\ new.pc = "idle" /\ new.round = 0
                        /\ InRound(new, FALSE)
  BY <1>4, LeaveIs
<1>5. collectMu = p /\ cache.round = rounds /\ proc[p].round = rounds
  BY <1>2, <1>3 DEF InRound, RoundSound
<1>6. collectMu' \in Actors \cup {Nobody} /\ \A q \in Actors : collectMu' # q
  BY <1>3, ActorsAssumption DEF Actors
<1>7. InRound(new, collectMu' = p) /\ RoundSound(new, rounds', cache.round)
  BY <1>2, <1>3, <1>6 DEF InRound, RoundSound
<1>8. \A q \in Actors \ {p} : (collectMu' = q) = (collectMu = q)
  BY <1>5, <1>6
<1>9. CountersAgree'
  BY <1>3 DEF BoardIInv, CountersAgree
<1>10. seen' \in [Clients -> Nat] /\ \A d \in Clients : seen'[d] <= cache.round /\ seen'[d] >= seen[d]
  <2>1. CASE seen' = seen
    BY <1>1, <2>1
  <2>2. CASE p \in Clients /\ Serve(p, proc[p].round)
    <3>1. seen' \in [Clients -> Nat] /\ seen'[p] = proc[p].round /\ \A d \in Clients \ {p} : seen'[d] = seen[d]
      BY <1>2, <2>2, ServeIs
    <3> QED
      BY <1>1, <1>2, <1>5, <2>2, <3>1
  <2> QED
    BY <1>4, <2>1, <2>2
<1>11. rounds <= rounds'
  BY <1>2, <1>3
<1>12. BoardIInv'
  BY <1>1, <1>2, <1>3, <1>6, <1>7, <1>8, <1>9, <1>10, <1>11, GoroutineStep
<1> QED
  BY <1>10, <1>12

(* Time passes; a machine sends, or boots and counts from 0 again. *)
LEMMA MachinesRun ==
  ASSUME BoardIInv, Tick \/ \E v \in VMs : Send(v) \/ Boot(v)
  PROVE  BoardIInv' /\ \A d \in Clients : seen'[d] >= seen[d]
<1>1. /\ collectMu' = collectMu /\ proc' = proc /\ netPrev' = netPrev /\ cache' = cache
      /\ rounds' = rounds /\ seen' = seen
  BY DEF Tick, Send, Boot
<1>2. /\ now \in Nat /\ sent \in [VMs -> Nat] /\ booted \in [VMs -> Nat]
      /\ netPrev \in [VMs -> PrevRow]
      /\ \A d \in Clients : seen[d] \in Nat
  BY DEF BoardIInv, TypeOK
<1>3. OneCollector' /\ RatesSound' /\ RoundsOrdered'
  BY <1>1 DEF BoardIInv, OneCollector, InRound, RatesSound, RateSound, RoundsOrdered, RoundSound
<1>4. /\ now' \in Nat /\ sent' \in [VMs -> Nat] /\ booted' \in [VMs -> Nat]
      /\ \A v \in VMs : sent[v] <= sent'[v] /\ booted[v] <= booted'[v] /\ booted'[v] <= sent'[v]
  <2>1. \A v \in VMs : sent[v] \in Nat /\ booted[v] \in Nat /\ booted[v] <= sent[v]
    BY <1>2 DEF BoardIInv, CountersAgree
  <2>2. CASE Tick
    BY <1>2, <2>1, <2>2 DEF Tick
  <2>3. CASE \E v \in VMs : Send(v)
    <3> PICK v \in VMs : Send(v)
      BY <2>3
    <3>1. now' = now /\ booted' = booted /\ sent' = [sent EXCEPT ![v] = sent[v] + 1]
      BY DEF Send
    <3>2. sent' \in [VMs -> Nat] /\ sent'[v] = sent[v] + 1 /\ \A u \in VMs \ {v} : sent'[u] = sent[u]
      BY <1>2, <2>1, <3>1
    <3> QED
      BY <1>2, <2>1, <3>1, <3>2
  <2>4. CASE \E v \in VMs : Boot(v)
    <3> PICK v \in VMs : Boot(v)
      BY <2>4
    <3>1. now' = now /\ sent' = sent /\ booted' = [booted EXCEPT ![v] = sent[v]]
      BY DEF Boot
    <3>2. booted' \in [VMs -> Nat] /\ booted'[v] = sent[v] /\ \A u \in VMs \ {v} : booted'[u] = booted[u]
      BY <1>2, <2>1, <3>1
    <3> QED
      BY <1>2, <2>1, <3>1, <3>2
  <2> QED
    BY <2>2, <2>3, <2>4
<1>5. TypeOK'
  BY <1>1, <1>4 DEF BoardIInv, TypeOK
<1>6. CountersAgree'
  <2> SUFFICES ASSUME NEW v \in VMs
               PROVE  /\ booted'[v] <= sent'[v] /\ netPrev[v].sent <= sent'[v]
                      /\ netPrev[v].own => netPrev[v].sent - netPrev[v].count <= booted'[v]
    BY <1>1 DEF CountersAgree
  <2>1. /\ booted[v] <= sent[v] /\ netPrev[v].sent <= sent[v]
        /\ netPrev[v].own => netPrev[v].sent - netPrev[v].count <= booted[v]
        /\ netPrev[v].own \in BOOLEAN /\ booted[v] \in Nat /\ sent[v] \in Nat /\ netPrev[v].sent \in Nat /\ netPrev[v].count \in Nat
        /\ booted'[v] \in Nat /\ sent'[v] \in Nat
    BY <1>2, <1>4 DEF BoardIInv, CountersAgree, PrevRow
  <2> QED
    BY <1>4, <2>1
<1> QED
  BY <1>1, <1>2, <1>3, <1>5, <1>6 DEF BoardIInv

(* Every step of the dashboard. *)
LEMMA BoardStep == BoardIInv /\ [Next]_vars => BoardIInv' /\ \A d \in Clients : seen'[d] >= seen[d]
<1> SUFFICES ASSUME BoardIInv, [Next]_vars
             PROVE  BoardIInv' /\ \A d \in Clients : seen'[d] >= seen[d]
  OBVIOUS
<1>1. CASE (\E c \in Clients : CachedOrRefresh(c)) \/ Wake
  BY <1>1, RefreshStarts
<1>2. ASSUME NEW p \in Actors, Round(p)
      PROVE  BoardIInv' /\ \A d \in Clients : seen'[d] >= seen[d]
  <2>1. CASE BeginRound(p) \/ ReturnCache(p)
    BY <2>1, RoundBegins
  <2>2. CASE BeginVM(p)
    BY <2>2, SlotTaken
  <2>3. CASE \E v \in VMs : Scrape(p, v) \/ ScrapeFails(p, v)
    BY <2>3, ScrapeKeeps
  <2>4. CASE Publish(p)
    BY <2>4, PublishKeeps
  <2>5. CASE EndRound(p)
    BY <2>5, RoundEnds
  <2> QED
    BY <1>2, <2>1, <2>2, <2>3, <2>4, <2>5 DEF Round
<1>3. CASE Tick \/ \E v \in VMs : Send(v) \/ Boot(v)
  BY <1>3, MachinesRun
<1>4. CASE UNCHANGED vars
  <2>1. \A d \in Clients : seen[d] \in Nat
    BY DEF BoardIInv, TypeOK
  <2> QED
    BY <1>4, <2>1 DEF vars, BoardIInv, TypeOK, OneCollector, InRound, CountersAgree, RatesSound, RateSound,
       RoundsOrdered, RoundSound
<1> QED
  BY <1>1, <1>2, <1>3, <1>4 DEF Next

(* No more scrapes are under way than there are slots, whoever collects,    *)
(* and no rate on the board is above what the machine really sent, across   *)
(* reboots and failed scrapes.                                              *)
THEOREM AlwaysRoundsBounded == Spec => []RoundsBounded
<1>1. ASSUME BoardIInv PROVE FanOutBounded
  <2> DEFINE S == {x \in Actors \X VMs : x[2] \in proc[x[1]].busy}
  <2>1. \A x \in S : x[1] = collectMu
    BY <1>1 DEF BoardIInv, OneCollector, InRound
  <2>2. CASE S = {}
    <3>1. Cardinality(S) = 0
      <4> HIDE DEF S
      <4> QED
        BY <2>2, FS_EmptySet
    <3>2. 0 <= FanOut
      BY SizesAssumption
    <3> QED
      BY <3>1, <3>2 DEF FanOutBounded
  <2>3. CASE S # {}
    <3>1. collectMu \in Actors
      BY <2>1, <2>3
    <3> DEFINE T == proc[collectMu].busy
               f == [x \in S |-> x[2]]
    <3>2. f \in Injection(S, T)
      <4>1. f \in [S -> T]
        BY <2>1
      <4>2. \A x, y \in S : f[x] = f[y] => x = y
        BY <2>1
      <4> HIDE DEF f, S, T
      <4> QED
        BY <4>1, <4>2 DEF Injection, IsInjective
    <3>3. IsFiniteSet(T) /\ Cardinality(T) \in Nat /\ Cardinality(T) <= FanOut
      BY <1>1, <3>1, BusyFinite DEF BoardIInv, OneCollector, InRound
    <3> HIDE DEF f, S, T
    <3>4. IsFiniteSet(S) /\ Cardinality(S) <= Cardinality(T)
      BY <3>2, <3>3, FS_Injection
    <3>5. Cardinality(S) \in Nat
      BY <3>4, FS_CardinalityType
    <3> QED
      BY <3>3, <3>4, <3>5, SizesAssumption DEF FanOutBounded, S
  <2> QED
    BY <2>2, <2>3
<1>2. BoardIInv => RateNotOverstated /\ TypeOK
  BY DEF BoardIInv, RatesSound, RateSound, RateNotOverstated
<1>3. BoardIInv => RoundsBounded
  BY <1>1, <1>2 DEF RoundsBounded
<1> QED
  BY <1>3, BoardInit, BoardStep, PTL DEF Spec

(* No client is shown an older round than before. *)
THEOREM AlwaysServedInOrder == Spec => ServedInOrder
<1>1. BoardIInv /\ [Next]_vars => [\A c \in Clients : seen'[c] >= seen[c]]_vars
  BY BoardStep
<1> QED
  BY <1>1, BoardInit, BoardStep, PTL DEF Spec, ServedInOrder

-----------------------------------------------------------------------------
(* The dashboard: sizes and releases.                                       *)

(* What this process found last is shown and being filed; the file holds    *)
(* what was filed last, if anything.                                        *)
WalkRecorded ==
    /\ walk = [pc |-> walk.pc, todo |-> walk.todo, fresh |-> walk.fresh]
    /\ walk.pc \in {"rest", "walk", "save"} /\ (walk.todo # {} => walk.pc = "walk")
    /\ walk.pc = "save" => walk.fresh # NoEntries /\ walk.fresh = lastWalk
    /\ SizesOfLastWalk
    /\ sizesFile \in {NoFile, Torn, filed}

(* A list of releases, and what is made of one.                             *)
Listing(list) == list \in Seq(Release) /\ NewestFirst(list)
Of(list, b) == {i \in DOMAIN list : list[i].branch = b}
Parsed(rels, list) ==
    /\ DOMAIN rels = {list[i].branch : i \in DOMAIN list}
    /\ \A b \in DOMAIN rels : rels[b] = list[Min(Of(list, b))]

(* The releases are those of the list fetched or read last; so is the file, *)
(* which has one.                                                           *)
ReleasesSound ==
    /\ Listing(fetched) /\ Listing(fetch)
    /\ kernelFile \notin {NoFile, Torn} => Listing(kernelFile) /\ kernelFile # <<>>
    /\ Parsed(kernelReleases, fetched)

(* The sizes shown are all of those of one walk: of the last one this       *)
(* process completed, or before the first of the last one that was filed,   *)
(* or none, through writes that fail and starts between any two steps.      *)
THEOREM AlwaysSizesOfLastWalk == BackupsSpec => []SizesOfLastWalk
<1>1. BackupsInit => WalkRecorded
  BY DEF BackupsInit, WalkRecorded, Resting, SizesOfLastWalk
<1>2. WalkRecorded /\ [BackupsNext]_backupVars => WalkRecorded'
  <2> SUFFICES ASSUME WalkRecorded, [BackupsNext]_backupVars PROVE WalkRecorded'
    OBVIOUS
  <2>1. CASE BeginWalk
    <3>1. walk' = [pc |-> "walk", todo |-> Repos, fresh |-> NoEntries]
          /\ UNCHANGED <<repoSizes, sizesFile, lastWalk, filed>>
      BY <2>1 DEF BeginWalk
    <3> QED
      BY <3>1 DEF WalkRecorded, SizesOfLastWalk
  <2>2. CASE PublishSizes
    <3>1. CASE walk.fresh = NoEntries
      <4>1. walk' = Resting /\ UNCHANGED <<repoSizes, sizesFile, lastWalk, filed>>
        BY <2>2, <3>1 DEF PublishSizes
      <4> QED
        BY <4>1 DEF WalkRecorded, Resting, SizesOfLastWalk
    <3>2. CASE walk.fresh # NoEntries
      <4>1. repoSizes' = walk.fresh /\ lastWalk' = walk.fresh /\ UNCHANGED <<sizesFile, filed>>
        BY <2>2, <3>2 DEF PublishSizes
      <4>2. walk' = [walk EXCEPT !.pc = "save"]
        BY <2>2, <3>2 DEF PublishSizes
      <4>3. walk.todo = {}
        BY <2>2 DEF PublishSizes
      <4>4. walk' = [pc |-> "save", todo |-> {}, fresh |-> walk.fresh]
        BY <4>2, <4>3 DEF WalkRecorded
      <4> QED
        BY <3>2, <4>1, <4>4 DEF WalkRecorded, SizesOfLastWalk
    <3> QED
      BY <3>1, <3>2
  <2>3. CASE OpenSizes
    BY <2>3 DEF OpenSizes, WalkRecorded, SizesOfLastWalk
  <2>4. CASE SizesWritten
    <3>1. walk.fresh # NoEntries /\ walk.fresh = lastWalk /\ repoSizes = lastWalk
      BY <2>4 DEF SizesWritten, WalkRecorded, SizesOfLastWalk
    <3> QED
      BY <2>4, <3>1 DEF SizesWritten, WalkRecorded, Resting, SizesOfLastWalk
  <2>5. CASE SaveFails
    BY <2>5 DEF SaveFails, WalkRecorded, Resting, SizesOfLastWalk
  <2>6. CASE RestartSizer
    BY <2>6 DEF RestartSizer, WalkRecorded, Resting, SizesOfLastWalk
  <2>7. ASSUME NEW r \in Repos, Walk(r) PROVE WalkRecorded'
    <3>1. walk.todo # {} /\ UNCHANGED <<repoSizes, sizesFile, lastWalk, filed>>
      BY <2>7 DEF Walk
    <3>2. walk.pc = "walk"
      BY <3>1 DEF WalkRecorded
    <3>3. \E todo, fresh : walk' = [pc |-> "walk", todo |-> todo, fresh |-> fresh]
      <4>1. CASE walk' = [walk EXCEPT !.todo = @ \ {r}]
        <5>1. walk' = [pc |-> "walk", todo |-> walk.todo \ {r}, fresh |-> walk.fresh]
          BY <3>2, <4>1 DEF WalkRecorded
        <5> QED
          BY <5>1
      <4>2. CASE \E size \in Sizes : walk' = [walk EXCEPT !.todo = @ \ {r}, !.fresh = (r :> size) @@ @]
        <5> PICK size \in Sizes : walk' = [walk EXCEPT !.todo = @ \ {r}, !.fresh = (r :> size) @@ @]
          BY <4>2
        <5> DEFINE fresh == (r :> size) @@ walk.fresh
        <5>1. walk' = [walk EXCEPT !.todo = walk.todo \ {r}, !.fresh = fresh]
          OBVIOUS
        <5> HIDE DEF fresh
        <5>2. walk' = [pc |-> "walk", todo |-> walk.todo \ {r}, fresh |-> fresh]
          BY <3>2, <5>1 DEF WalkRecorded
        <5> QED
          BY <5>2
      <4> QED
        BY <2>7, <4>1, <4>2 DEF Walk
    <3> QED
      BY <3>1, <3>3 DEF WalkRecorded, SizesOfLastWalk
  <2>8. CASE UNCHANGED backupVars
    BY <2>8 DEF backupVars, WalkRecorded, SizesOfLastWalk
  <2> QED
    BY <2>1, <2>2, <2>3, <2>4, <2>5, <2>6, <2>7, <2>8 DEF BackupsNext
<1>3. WalkRecorded => SizesOfLastWalk
  BY DEF WalkRecorded
<1> QED
  BY <1>1, <1>2, <1>3, PTL DEF BackupsSpec

(* The patch levels of a list are numbers. *)
LEMMA ReleasesAre ==
  ASSUME NEW list, Listing(list), NEW i \in DOMAIN list
  PROVE  list[i].patch \in Nat /\ list[i].eol \in BOOLEAN
<1>1. list[i] \in Release
  BY DEF Listing
<1>2. list[i].patch \in Patches /\ list[i].eol \in BOOLEAN
  BY <1>1 DEF Release
<1> QED
  BY <1>2, ReportAssumption

(* The first release of a branch is the newest. *)
LEMMA ParseIs ==
  ASSUME NEW list, Listing(list)
  PROVE  /\ Parsed(Parse(list), list)
         /\ list # <<>> => Parse(list) # NoEntries
         /\ \A b : Of(list, b) # {} =>
              LET i == Min(Of(list, b)) IN
              /\ i \in Of(list, b) /\ \A j \in Of(list, b) \ {i} : list[j].patch < list[i].patch
<1>1. list \in Seq(Release) /\ NewestFirst(list) /\ DOMAIN list \subseteq Nat
  BY DEF Listing
<1>2. Parsed(Parse(list), list)
  BY DEF Parsed, Parse, Of
<1>3. ASSUME list # <<>> PROVE Parse(list) # NoEntries
  <2>1. 1 \in DOMAIN list
    BY <1>1, <1>3
  <2>2. list[1].branch \in DOMAIN Parse(list)
    BY <2>1 DEF Parse
  <2>3. DOMAIN NoEntries = {}
    BY DEF NoEntries
  <2> QED
    BY <2>2, <2>3
<1>4. ASSUME NEW b, Of(list, b) # {}
      PROVE  LET i == Min(Of(list, b)) IN
              /\ i \in Of(list, b) /\ \A j \in Of(list, b) \ {i} : list[j].patch < list[i].patch
  <2> DEFINE i == Min(Of(list, b))
  <2>1. Of(list, b) \in SUBSET Nat
    BY <1>1 DEF Of
  <2>2. i \in Of(list, b) /\ \A j \in Of(list, b) : i <= j
    BY <1>4, <2>1, LeastNumber
  <2>3. ASSUME NEW j \in Of(list, b) \ {i} PROVE list[j].patch < list[i].patch
    <3> HIDE DEF i
    <3>1. i < j /\ i \in DOMAIN list /\ j \in DOMAIN list /\ list[i].branch = list[j].branch
      BY <2>1, <2>2 DEF Of
    <3>2. list[i].patch > list[j].patch
      BY <1>1, <3>1 DEF NewestFirst
    <3>3. list[i].patch \in Nat /\ list[j].patch \in Nat
      BY <3>1, ReleasesAre
    <3> QED
      BY <3>2, <3>3
  <2> QED
    BY <2>2, <2>3
<1> QED
  BY <1>2, <1>3, <1>4

(* Nothing is fetched and nothing is known at first. *)
LEMMA NoReleases ==
  /\ Listing(<<>>) /\ Parsed(NoEntries, <<>>)
<1>1. NewestFirst(<<>>) /\ <<>> \in Seq(Release)
  BY DEF NewestFirst
<1> QED
  BY <1>1 DEF Listing, Parsed, NoEntries

(* Every step of the fetcher; one that forgets releases starts it with no   *)
(* file, a torn one or one that cannot be read.                             *)
LEMMA FetcherStep ==
  ReleasesSound /\ [KernelNext]_kernelVars =>
    /\ ReleasesSound'
    /\ kernelReleases # NoEntries /\ kernelReleases' = NoEntries =>
         kernelFile \in {NoFile, Torn} \/ unread'
<1> SUFFICES ASSUME ReleasesSound, [KernelNext]_kernelVars
             PROVE  /\ ReleasesSound'
                    /\ kernelReleases # NoEntries /\ kernelReleases' = NoEntries =>
                         kernelFile \in {NoFile, Torn} \/ unread'
  OBVIOUS
<1>1. ASSUME NEW list \in Listings, NewestFirst(list), Fetch(list)
      PROVE  ReleasesSound' /\ kernelReleases' # NoEntries
  <2>1. Listing(list)
    <3>1. list \in Seq(Release)
      <4>1. CASE list = <<>>
        BY <4>1
      <4>2. CASE \E r \in Release : list = <<r>>
        BY <4>2
      <4>3. CASE \E r, q \in Release : list = <<r, q>>
        BY <4>3
      <4> QED
        BY <1>1, <4>1, <4>2, <4>3 DEF Listings
    <3> QED
      BY <1>1, <3>1 DEF Listing
  <2>2. /\ kernelReleases' = Parse(list) /\ fetched' = list /\ list # <<>>
        /\ kernelFile' = kernelFile /\ fetch' = list
    BY <1>1 DEF Fetch
  <2>3. Parsed(Parse(list), list) /\ Parse(list) # NoEntries
    BY <2>1, <2>2, ParseIs
  <2> QED
    BY <2>1, <2>2, <2>3 DEF ReleasesSound, Listing, NewestFirst, Parsed, Of
<1>2. CASE ReleasesWritten
  <2>1. kernelFile' = fetch /\ fetch # <<>> /\ fetch' = <<>> /\ UNCHANGED <<kernelReleases, fetched>>
    BY <1>2 DEF ReleasesWritten
  <2>2. Listing(<<>>)
    BY NoReleases
  <2> QED
    BY <2>1, <2>2 DEF ReleasesSound, Listing, NewestFirst, Parsed, Of
<1>3. CASE RestartFetcher
  <2>1. fetch' = <<>> /\ kernelFile' = kernelFile
    BY <1>3 DEF RestartFetcher
  <2>2. Listing(<<>>) /\ Parsed(NoEntries, <<>>)
    BY NoReleases
  <2>3. CASE kernelFile \in {NoFile, Torn} \/ unread'
    <3>1. kernelReleases' = NoEntries /\ fetched' = <<>>
      BY <1>3, <2>3 DEF RestartFetcher
    <3> QED
      BY <2>1, <2>2, <2>3, <3>1 DEF ReleasesSound, Listing, NewestFirst, Parsed, Of
  <2>4. CASE ~(kernelFile \in {NoFile, Torn} \/ unread')
    <3>1. kernelReleases' = Parse(kernelFile) /\ fetched' = kernelFile
      BY <1>3, <2>4 DEF RestartFetcher
    <3>2. Listing(kernelFile) /\ kernelFile # <<>>
      BY <2>4 DEF ReleasesSound
    <3>3. Parsed(Parse(kernelFile), kernelFile) /\ Parse(kernelFile) # NoEntries
      BY <3>2, ParseIs
    <3> QED
      BY <2>1, <2>2, <3>1, <3>2, <3>3 DEF ReleasesSound, Listing, NewestFirst, Parsed, Of
  <2> QED
    BY <2>3, <2>4
<1>4. CASE UNCHANGED kernelVars
  BY <1>4 DEF kernelVars, ReleasesSound, Listing, NewestFirst, Parsed, Of
<1>5. CASE OpenReleases
  <2>1. kernelFile' = Torn /\ UNCHANGED <<kernelReleases, fetch, fetched>>
    BY <1>5 DEF OpenReleases
  <2> QED
    BY <2>1 DEF ReleasesSound, Listing, NewestFirst, Parsed, Of
<1>6. CASE WriteFails
  <2>1. fetch' = <<>> /\ UNCHANGED <<kernelReleases, kernelFile, fetched>>
    BY <1>6 DEF WriteFails
  <2>2. Listing(<<>>)
    BY NoReleases
  <2> QED
    BY <2>1, <2>2 DEF ReleasesSound, Listing, NewestFirst, Parsed, Of
<1>7. CASE kernelReleases' = kernelReleases
  BY <1>1, <1>2, <1>3, <1>4, <1>5, <1>6, <1>7 DEF KernelNext
<1>8. CASE RestartFetcher
  BY <1>3, <1>8 DEF RestartFetcher
<1> QED
  BY <1>1, <1>2, <1>4, <1>5, <1>6, <1>7, <1>8 DEF KernelNext, ReleasesWritten, OpenReleases, WriteFails, kernelVars

(* Nothing has been fetched or read from a file at first.                   *)
LEMMA FetcherStart == KernelInit => ReleasesSound
  BY NoReleases DEF KernelInit, ReleasesSound

(* A booted kernel is judged by the newest release of its branch in the     *)
(* list fetched last, or read at the start.                                 *)
THEOREM AlwaysKernelJudged == KernelSpec => []KernelJudged
<1>1. ASSUME ReleasesSound, NEW b \in Branches, NEW p \in Patches
      PROVE  LET of == Of(fetched, b)
                 newest == Max({fetched[i].patch : i \in of})
                 eol == \E i \in of : fetched[i].patch = newest /\ fetched[i].eol
             IN  Level(b, p) = IF of = {} \/ eol \/ newest - p > 10 THEN "bad"
                               ELSE IF newest - p > 3 THEN "warn" ELSE "ok"
  <2> DEFINE of == Of(fetched, b)
             patches == {fetched[i].patch : i \in of}
             newest == Max(patches)
             k == Min(of)
             rel == fetched[k]
  <2>1. Listing(fetched) /\ Parsed(kernelReleases, fetched)
    BY <1>1 DEF ReleasesSound
  <2>2. b \in DOMAIN kernelReleases <=> of # {}
    BY <2>1 DEF Parsed, Of
  <2>3. CASE of = {}
    BY <2>2, <2>3 DEF Level
  <2>4. CASE of # {}
    <3>1. k \in of /\ \A j \in of \ {k} : fetched[j].patch < rel.patch
      BY <2>1, <2>4, ParseIs
    <3>2. kernelReleases[b] = rel
      BY <2>1, <2>2, <2>4 DEF Parsed
    <3>3. \A j \in of : fetched[j].patch \in Nat /\ fetched[j].eol \in BOOLEAN
      BY <2>1, ReleasesAre DEF Of
    <3>4. p \in Nat /\ rel.patch \in Nat /\ rel.eol \in BOOLEAN
      BY <3>1, <3>3, ReportAssumption
    <3> HIDE DEF of, rel, k
    <3>5. newest = rel.patch
      <4>1. rel.patch \in patches /\ \A y \in patches : rel.patch >= y
        BY <3>1, <3>3, <3>4 DEF rel
      <4>2. patches \subseteq Nat
        BY <3>3
      <4> HIDE DEF patches
      <4>3. \A x \in patches : (\A y \in patches : x >= y) => x = rel.patch
        BY <3>4, <4>1, <4>2
      <4> QED
        BY <4>1, <4>3 DEF Max
    <3>6. (\E i \in of : fetched[i].patch = newest /\ fetched[i].eol) <=> rel.eol
      <4>1. \A i \in of : fetched[i].patch = newest => i = k
        BY <3>1, <3>3, <3>4, <3>5
      <4> QED
        BY <3>1, <3>5, <4>1 DEF rel
    <3> HIDE DEF newest
    <3>7. (newest - p > 10 <=> Larger(rel.patch - p, 0) > 10) /\ (newest - p > 3 <=> Larger(rel.patch - p, 0) > 3)
      BY <3>4, <3>5 DEF Larger
    <3>8. Level(b, p) = IF rel.eol \/ Larger(rel.patch - p, 0) > 10 THEN "bad"
                        ELSE IF Larger(rel.patch - p, 0) > 3 THEN "warn" ELSE "ok"
      BY <2>2, <2>4, <3>2 DEF Level
    <3> QED
      BY <2>4, <3>6, <3>7, <3>8 DEF newest, of
  <2> QED
    BY <2>3, <2>4
<1>2. ReleasesSound => KernelJudged
  BY <1>1 DEF KernelJudged, Of
<1> QED
  BY <1>2, FetcherStart, FetcherStep, PTL DEF KernelSpec

(* The page shows the sizes and judges the kernels by what was found last.  *)
THEOREM AlwaysFetchedTrue == BackupsSpec /\ KernelSpec => []FetchedTrue
<1>1. SizesOfLastWalk /\ KernelJudged => FetchedTrue
  BY DEF FetchedTrue
<1> QED
  BY <1>1, AlwaysSizesOfLastWalk, AlwaysKernelJudged, PTL

(* Once known, releases are not forgotten, unless the process is started    *)
(* again with a file that is missing, cut off or cannot be read.            *)
THEOREM AlwaysReleasesKept == KernelSpec => ReleasesKept
<1>1. ReleasesSound /\ [KernelNext]_kernelVars =>
        [kernelReleases # NoEntries /\ kernelReleases' = NoEntries =>
           kernelFile \in {NoFile, Torn} \/ unread']_kernelVars
  BY FetcherStep
<1> QED
  BY <1>1, FetcherStart, FetcherStep, PTL DEF KernelSpec, ReleasesKept

=============================================================================
