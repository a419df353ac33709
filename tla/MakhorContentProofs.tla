------------------------ MODULE MakhorContentProofs ------------------------
(***************************************************************************)
(* What MakhorSearch, MakhorCollections and MakhorTags guarantee for any   *)
(* number of posts, texts, collections and requests, and any finite tree   *)
(* of tag names; and that MakhorVotes keeps scores equal to vote counts    *)
(* and implements MakhorVoteCount, for any finite number of users and any  *)
(* number of items and requests; proved with TLAPS.                        *)
(***************************************************************************)
EXTENDS MakhorSearch, MakhorCollections, MakhorTags, MakhorVotes, FiniteSetTheorems, TLAPS

-----------------------------------------------------------------------------
(* Search.                                                                  *)

AllTriggers == {"insert", "delete", "update"}

(* Every entry is true, and every post that is not deleted has one. *)
IndexComplete ==
    /\ \A d \in Docs, t \in Texts : <<d, t>> \in entries => text[d] = t
    /\ \A d \in Docs \ removed : text[d] # NoText => <<d, text[d]>> \in entries

(* While no setup has been cut short: the table is there from the first     *)
(* statement on, nothing is written before the last, and afterwards the     *)
(* triggers keep the index complete.                                        *)
SetupSound ==
    ~interrupted =>
        /\ ~fts => entries = {} /\ triggers = {} /\ setup \in {"down", "check", "table", "up"}
        /\ setup = "table" => ~fts
        /\ setup \in {"insert", "delete", "update", "populate"} => entries = {}
        /\ setup = "insert" => triggers = {}
        /\ setup = "delete" => triggers = {"insert"}
        /\ setup = "update" => triggers = {"insert", "delete"}
        /\ setup = "populate" => triggers = AllTriggers
        /\ fts /\ setup \in {"down", "check", "up"} => triggers = AllTriggers /\ IndexComplete

SearchIInv == SearchTypeOK /\ SetupSound

(* The stages of populating the index, counted out.                         *)
LEMMA StepsAre ==
  /\ {Steps[k] : k \in 1..Len(Steps)} = {"table", "insert", "delete", "update", "populate"}
  /\ {Steps[k] : k \in 2..Len(Steps)} = {"insert", "delete", "update", "populate"}
  /\ Steps[2] = "insert" /\ Steps[3] = "delete" /\ Steps[4] = "update" /\ Steps[5] = "populate"
  /\ Stages = {"down", "check", "up", "table", "insert", "delete", "update", "populate"}
<1>1. /\ Len(Steps) = 5 /\ Steps[1] = "table" /\ Steps[2] = "insert" /\ Steps[3] = "delete"
      /\ Steps[4] = "update" /\ Steps[5] = "populate"
  BY DEF Steps
<1>2. 1..5 = {1, 2, 3, 4, 5} /\ 2..5 = {2, 3, 4, 5}
  OBVIOUS
<1> HIDE DEF Steps
<1>3. {Steps[k] : k \in 1..Len(Steps)} = {"table", "insert", "delete", "update", "populate"}
  BY <1>1, <1>2
<1>4. {Steps[k] : k \in 2..Len(Steps)} = {"insert", "delete", "update", "populate"}
  BY <1>1, <1>2
<1> QED
  BY <1>1, <1>3, <1>4 DEF Stages

(* There may be posts, but no index of them yet.                            *)
LEMMA SearchInitIInv == SearchInit => SearchIInv
  BY StepsAre DEF SearchInit, SearchIInv, SearchTypeOK, SetupSound

(* The steps of setupFTS, and the start and end of the process. *)
LEMMA SetupKeeps ==
  ASSUME SearchIInv,
         \/ StartServer \/ CheckTable \/ CreateTable \/ Populate \/ SetupFails \/ StopServer
         \/ \E k \in 2..4 : CreateTrigger(k)
  PROVE  SearchIInv'
<1> USE StepsAre DEF SearchIInv
<1>1. CASE StartServer
  BY <1>1 DEF StartServer, SearchTypeOK, SetupSound, IndexComplete
<1>2. CASE CheckTable
  BY <1>2 DEF CheckTable, SearchTypeOK, SetupSound, IndexComplete
<1>3. CASE CreateTable
  BY <1>3 DEF CreateTable, SearchTypeOK, SetupSound
<1>4. CASE Populate
  <2>1. SearchTypeOK'
    BY <1>4 DEF Populate, SearchTypeOK
  <2>2. ~interrupted => fts /\ triggers = AllTriggers /\ entries = {}
    BY <1>4 DEF Populate, SetupSound, SearchTypeOK
  <2>3. ~interrupted => IndexComplete'
    BY <1>4, <2>2 DEF Populate, IndexComplete, SearchTypeOK
  <2> QED
    BY <1>4, <2>1, <2>2, <2>3 DEF Populate, SetupSound
<1>5. CASE SetupFails
  BY <1>5 DEF SetupFails, SearchTypeOK, SetupSound, IndexComplete
<1>6. CASE StopServer
  BY <1>6 DEF StopServer, SearchTypeOK, SetupSound, IndexComplete
<1>7. ASSUME NEW k \in 2..4, CreateTrigger(k) PROVE SearchIInv'
  <2>1. PICK this, next :
          /\ setup = this /\ setup' = next /\ triggers' = triggers \cup {this}
          /\ \/ this = "insert" /\ next = "delete"
             \/ this = "delete" /\ next = "update"
             \/ this = "update" /\ next = "populate"
    <3>1. k = 2 \/ k = 3 \/ k = 4
      OBVIOUS
    <3> QED
      BY <1>7, <3>1 DEF CreateTrigger
  <2>2. UNCHANGED <<text, removed, fts, entries, interrupted>>
    BY <1>7 DEF CreateTrigger
  <2>3. SearchTypeOK'
    BY <2>1, <2>2 DEF SearchTypeOK
  <2> QED
    BY <2>1, <2>2, <2>3 DEF SetupSound, AllTriggers
<1> QED
  BY <1>1, <1>2, <1>3, <1>4, <1>5, <1>6, <1>7

(* The posts, through the triggers. *)
LEMMA PostsKeepIndex ==
  ASSUME SearchIInv, NEW d \in Docs,
         \/ \E t \in Texts : InsertPost(d, t) \/ UpdatePost(d, t)
         \/ RemovePost(d)
  PROVE  SearchIInv'
<1>1. PICK t \in Texts, r \in SUBSET {d} :
        /\ text' = [text EXCEPT ![d] = t] /\ removed' = removed \cup r
        /\ text[d] # NoText \/ r = {}
        /\ \/ text[d] = NoText /\ entries' = AfterInsert(d, t)
           \/ text[d] # NoText /\ entries' = AfterUpdate(d, t)
  <2>1. text \in [Docs -> Texts \cup {NoText}]
    BY DEF SearchIInv, SearchTypeOK
  <2>2. ASSUME NEW t \in Texts, InsertPost(d, t) \/ UpdatePost(d, t)
        PROVE  \E x \in Texts : /\ text' = [text EXCEPT ![d] = x] /\ removed' = removed \cup {}
                                /\ \/ text[d] = NoText /\ entries' = AfterInsert(d, x)
                                   \/ text[d] # NoText /\ entries' = AfterUpdate(d, x)
    BY <2>2 DEF InsertPost, UpdatePost
  <2>3. CASE RemovePost(d)
    <3>1. text[d] \in Texts /\ text' = [text EXCEPT ![d] = text[d]]
      BY <2>1, <2>3 DEF RemovePost
    <3> QED
      BY <2>3, <3>1 DEF RemovePost
  <2> QED
    BY <2>2, <2>3
<1>2. UNCHANGED <<fts, triggers, setup, interrupted>> /\ setup = "up"
  BY DEF InsertPost, UpdatePost, RemovePost
<1>3. SearchTypeOK'
  BY <1>1, <1>2, TextsAssumption DEF SearchIInv, SearchTypeOK, AfterInsert, AfterUpdate
<1>4. CASE ~interrupted /\ fts
  <2>1. triggers = AllTriggers /\ IndexComplete
    BY <1>2, <1>4 DEF SearchIInv, SetupSound
  <2>2. entries' = (entries \ {<<d, text[d]>>}) \cup {<<d, t>>}
    BY <1>1, <2>1, TextsAssumption DEF AfterInsert, AfterUpdate, AllTriggers, IndexComplete,
       SearchIInv, SearchTypeOK
  <2>3. IndexComplete'
    BY <1>1, <2>1, <2>2, TextsAssumption DEF IndexComplete, SearchIInv, SearchTypeOK
  <2> QED
    BY <1>2, <1>3, <1>4, <2>1, <2>3 DEF SearchIInv, SetupSound
<1>5. CASE ~interrupted /\ ~fts
  BY <1>1, <1>2, <1>3, <1>5 DEF SearchIInv, SetupSound, AfterInsert, AfterUpdate
<1>6. CASE interrupted
  BY <1>2, <1>3, <1>6 DEF SearchIInv, SetupSound
<1> QED
  BY <1>4, <1>5, <1>6

(* Starts, crashes and writes of posts preserve the invariant.              *)
LEMMA SearchNextIInv == SearchIInv /\ [SearchNext]_searchVars => SearchIInv'
<1> SUFFICES ASSUME SearchIInv, [SearchNext]_searchVars PROVE SearchIInv'
  OBVIOUS
<1>1. CASE UNCHANGED searchVars
  BY <1>1 DEF searchVars, SearchIInv, SearchTypeOK, SetupSound, IndexComplete
<1> QED
  BY <1>1, SetupKeeps, PostsKeepIndex DEF SearchNext

(* A search finds exactly the posts with its words that are not deleted,    *)
(* through edits, deletions and restarts, unless the one setup of the index *)
(* was cut short.                                                           *)
THEOREM AlwaysSearchTrue == SearchSpec => []SearchTrue
<1>1. SearchIInv => SearchTrue
  <2> SUFFICES ASSUME SearchIInv PROVE SearchExact /\ OneEntryPerPost
    BY DEF SearchIInv, SearchTrue
  <2>1. SearchExact
    <3> SUFFICES ASSUME setup = "up", ~interrupted, fts, NEW t \in Texts
                 PROVE  SearchPostsFTS(t) = SearchPosts(t)
      BY DEF SearchExact, SearchPostsFTS
    <3>1. IndexComplete
      BY DEF SearchIInv, SetupSound
    <3> QED
      BY <3>1, TextsAssumption DEF IndexComplete, SearchPostsFTS, SearchPosts
  <2>2. OneEntryPerPost
    <3> SUFFICES ASSUME "update" \in triggers, ~interrupted, NEW a \in entries, NEW b \in entries,
                        a[1] = b[1]
                 PROVE  a = b
      BY DEF OneEntryPerPost
    <3>1. IndexComplete
      <4>1. fts /\ setup \in {"down", "check", "up"}
        BY StepsAre DEF SearchIInv, SetupSound, SearchTypeOK
      <4> QED
        BY <4>1 DEF SearchIInv, SetupSound
    <3>2. PICK d \in Docs, t \in Texts : a = <<d, t>>
      BY DEF SearchIInv, SearchTypeOK
    <3>3. PICK e \in Docs, x \in Texts : b = <<e, x>>
      BY DEF SearchIInv, SearchTypeOK
    <3> QED
      BY <3>1, <3>2, <3>3 DEF IndexComplete
  <2> QED
    BY <2>1, <2>2
<1> QED
  BY <1>1, SearchInitIInv, SearchNextIInv, PTL DEF SearchSpec
-----------------------------------------------------------------------------
(* Collections.                                                             *)

(* A row left over or not, its tag was chosen for its collection, and a new *)
(* id has no rows.                                                          *)
RowsChosen ==
    \A c \in Colls, t \in CollTags :
        <<c, t>> \in tagRows => t \in chosen[c] /\ owner[c] # NoOwner

(* The tags a save will add were chosen for the collection it is for. *)
JobsChosen ==
    \A w \in Windows :
        /\ job[w].on = 0 => job[w].remove = {} /\ job[w].add = {}
        /\ job[w].on # 0 => owner[job[w].on] # NoOwner /\ job[w].add \subseteq chosen[job[w].on]

(* A save that is alone, and of which no statement has failed, will leave  *)
(* the tags of its form. *)
SavesTrue ==
    \A c \in Colls \ mixed :
        /\ \A v, w \in Windows : job[v].on = c /\ job[w].on = c => v = w
        /\ Exists(c) /\ c \notin failed =>
             /\ (\A w \in Windows : job[w].on # c) => GetCollectionTags(c) = form[c]
             /\ \A w \in Windows : job[w].on = c =>
                  (GetCollectionTags(c) \ job[w].remove) \cup job[w].add = form[c]

CollIInv == CollTypeOK /\ RowsChosen /\ JobsChosen /\ SavesTrue

(* Without collections there is nothing to choose.                          *)
LEMMA CollInitIInv == CollInit => CollIInv
<1> SUFFICES ASSUME CollInit PROVE CollIInv
  OBVIOUS
<1>1. 0 \notin Colls
  BY DEF Colls
<1>2. CollTypeOK
  BY DEF CollInit, CollTypeOK, NoJob, JobRow
<1>3. RowsChosen /\ JobsChosen
  BY DEF CollInit, RowsChosen, JobsChosen, NoJob
<1>4. SavesTrue
  BY <1>1, OwnersAssumption DEF CollInit, SavesTrue, NoJob, Exists
<1> QED
  BY <1>2, <1>3, <1>4 DEF CollIInv

(* A save begins, on a collection that was not there or with the tags that  *)
(* are in it.                                                               *)
LEMMA BeginKeeps ==
  ASSUME CollIInv, NEW w \in Windows, NEW c \in Colls, NEW u \in Owners,
         NEW tags \in SUBSET CollTags,
         \/ CreateCollectionSubmit(w, u, c, tags) \/ EditCollectionSubmit(w, u, c, tags)
  PROVE  CollIInv'
<1>1. PICK remove \in SUBSET CollTags :
        /\ Begin(w, c, remove, tags)
        /\ c \notin failed' => remove = GetCollectionTags(c)
        /\ failed' \in {failed, failed \cup {c}, failed \ {c}}
        /\ owner' = [owner EXCEPT ![c] = u]
        /\ tagRows' = tagRows
        /\ \/ chosen' = [chosen EXCEPT ![c] = tags] /\ owner[c] = NoOwner
           \/ chosen' = [chosen EXCEPT ![c] = @ \cup tags]
  <2>1. CASE CreateCollectionSubmit(w, u, c, tags)
    <3>1. GetCollectionTags(c) = {} /\ owner[c] = NoOwner
      BY <2>1 DEF CreateCollectionSubmit, NextId, CollIInv, RowsChosen, GetCollectionTags
    <3> QED
      BY <2>1, <3>1 DEF CreateCollectionSubmit
  <2>2. CASE EditCollectionSubmit(w, u, c, tags)
    <3>1. owner = [owner EXCEPT ![c] = u] /\ GetCollectionTags(c) \in SUBSET CollTags
      BY <2>2 DEF EditCollectionSubmit, CollIInv, CollTypeOK, GetCollectionTags
    <3>2. PICK read \in SUBSET GetCollectionTags(c) :
            /\ Begin(w, c, read, tags)
            /\ failed' = IF read = GetCollectionTags(c) THEN failed \ {c} ELSE failed \cup {c}
      BY <2>2 DEF EditCollectionSubmit
    <3>3. read \in SUBSET CollTags
      BY <3>1
    <3> QED
      BY <2>2, <3>1, <3>2, <3>3 DEF EditCollectionSubmit
  <2> QED
    BY <2>1, <2>2
<1> DEFINE new == [on |-> c, remove |-> remove, add |-> tags]
<1>2. /\ new \in JobRow /\ new.on = c /\ new.remove = remove /\ new.add = tags
      /\ job[w].on = 0 /\ c # 0
  BY <1>1 DEF JobRow, Begin, Colls
<1>3. /\ job' = [job EXCEPT ![w] = new]
      /\ form' = [form EXCEPT ![c] = tags]
      /\ mixed' = IF \E v \in Windows : job[v].on = c THEN mixed \cup {c} ELSE mixed
  BY <1>1 DEF Begin
<1> HIDE DEF new
<1>4. CollTypeOK'
  BY <1>1, <1>2, <1>3 DEF CollIInv, CollTypeOK
<1>5. /\ \A v \in Windows : job'[v] = IF v = w THEN new ELSE job[v]
      /\ \A d \in Colls : owner'[d] = IF d = c THEN u ELSE owner[d]
      /\ \A d \in Colls : form'[d] = IF d = c THEN tags ELSE form[d]
      /\ \A d \in Colls \ {c} : chosen'[d] = chosen[d]
      /\ tags \subseteq chosen'[c] /\ (owner[c] # NoOwner => chosen[c] \subseteq chosen'[c])
  BY <1>1, <1>3 DEF CollIInv, CollTypeOK
<1>6. RowsChosen'
  BY <1>1, <1>5, OwnersAssumption DEF CollIInv, RowsChosen
<1>7. JobsChosen'
  <2> SUFFICES ASSUME NEW v \in Windows
               PROVE  /\ job'[v].on = 0 => job'[v].remove = {} /\ job'[v].add = {}
                      /\ job'[v].on # 0 => /\ owner'[job'[v].on] # NoOwner
                                           /\ job'[v].add \subseteq chosen'[job'[v].on]
    BY DEF JobsChosen
  <2>1. CASE v = w
    BY <1>2, <1>5, <2>1, OwnersAssumption
  <2>2. CASE v # w
    <3>1. job'[v] = job[v] /\ job[v] \in JobRow
      BY <1>5, <2>2 DEF CollIInv, CollTypeOK
    <3>2. job[v].on \in Colls \cup {0}
      BY <3>1 DEF JobRow
    <3> QED
      BY <1>5, <3>1, <3>2, OwnersAssumption DEF CollIInv, JobsChosen
  <2> QED
    BY <2>1, <2>2
<1>8. SavesTrue'
  <2> SUFFICES ASSUME NEW d \in Colls \ mixed' PROVE SavesTrue!(d)'
    BY DEF SavesTrue
  <2>1. d \in Colls \ mixed /\ GetCollectionTags(d)' = GetCollectionTags(d)
    BY <1>1, <1>3 DEF GetCollectionTags
  <2>2. CASE d = c
    <3>1. \A v \in Windows : job'[v].on = c <=> v = w
      BY <1>2, <1>3, <1>5, <2>2
    <3> QED
      BY <1>1, <1>2, <1>5, <2>1, <2>2, <3>1
  <2>3. CASE d # c
    <3>1. \A v \in Windows : job'[v].on = d <=> job[v].on = d /\ v # w
      BY <1>2, <1>5, <2>3
    <3>2. job[w].on # d
      BY <1>2 DEF Colls
    <3>3. SavesTrue!(d) /\ (d \notin failed' => d \notin failed)
      BY <1>1, <2>1, <2>3 DEF CollIInv, SavesTrue
    <3> QED
      BY <1>5, <2>1, <2>3, <3>1, <3>2, <3>3 DEF Exists
  <2> QED
    BY <2>2, <2>3
<1> QED
  BY <1>4, <1>6, <1>7, <1>8 DEF CollIInv

(* One statement of a save, or its end. *)
LEMMA SaveStepKeeps ==
  ASSUME CollIInv, NEW w \in Windows,
         \/ \E t \in CollTags : RemoveTagFromCollection(w, t) \/ AddTagToCollection(w, t)
         \/ Saved(w)
  PROVE  CollIInv'
<1>0. UNCHANGED <<owner, form, chosen, mixed>>
  BY DEF RemoveTagFromCollection, AddTagToCollection, Saved
<1> DEFINE c == job[w].on
<1>1. PICK new \in JobRow :
        /\ job' = [job EXCEPT ![w] = new]
        /\ \/ new.on = c /\ new.add \subseteq job[w].add /\ new.remove \subseteq job[w].remove
           \/ new.on = 0 /\ new.add = {} /\ new.remove = {} /\ job[w].remove = {} /\ job[w].add = {}
        /\ failed' \in {failed, failed \cup {c}} /\ (c = 0 => failed' = failed)
        /\ \/ tagRows' = tagRows /\ new.remove = job[w].remove /\ new.add = job[w].add
           \/ tagRows' = tagRows /\ c \in failed'
           \/ \E t \in job[w].remove : /\ tagRows' = tagRows \ {<<c, t>>}
                                       /\ new.remove = job[w].remove \ {t} /\ new.add = job[w].add
           \/ \E t \in job[w].add : /\ tagRows' = tagRows \cup {<<c, t>>} /\ job[w].remove = {}
                                    /\ new.remove = {} /\ new.add = job[w].add \ {t}
  <2>1. job[w] \in JobRow
    BY DEF CollIInv, CollTypeOK
  <2>2. ASSUME NEW t \in CollTags, RemoveTagFromCollection(w, t)
        PROVE  \E new \in JobRow : /\ job' = [job EXCEPT ![w] = new] /\ new.on = c
                                   /\ t \in job[w].remove /\ c # 0
                                   /\ \/ tagRows' = tagRows \ {<<c, t>>} /\ failed' = failed
                                      \/ tagRows' = tagRows /\ failed' = failed \cup {c}
                                   /\ new.remove = job[w].remove \ {t} /\ new.add = job[w].add
    <3> DEFINE next == [job[w] EXCEPT !.remove = @ \ {t}]
    <3>1. /\ next \in JobRow /\ next.on = c
          /\ next.remove = job[w].remove \ {t} /\ next.add = job[w].add
      BY <2>1 DEF JobRow
    <3>2. /\ job' = [job EXCEPT ![w] = next] /\ t \in job[w].remove
          /\ \/ tagRows' = tagRows \ {<<c, t>>} /\ failed' = failed
             \/ tagRows' = tagRows /\ failed' = failed \cup {c}
      BY <2>2 DEF RemoveTagFromCollection, Execute
    <3>3. c # 0
      BY <2>2 DEF CollIInv, JobsChosen, RemoveTagFromCollection
    <3> HIDE DEF next
    <3> QED
      BY <3>1, <3>2, <3>3
  <2>3. ASSUME NEW t \in CollTags, AddTagToCollection(w, t)
        PROVE  \E new \in JobRow : /\ job' = [job EXCEPT ![w] = new] /\ new.on = c
                                   /\ t \in job[w].add /\ job[w].remove = {} /\ c # 0
                                   /\ \/ tagRows' = tagRows \cup {<<c, t>>} /\ failed' = failed
                                      \/ tagRows' = tagRows /\ failed' = failed \cup {c}
                                   /\ new.remove = {} /\ new.add = job[w].add \ {t}
    <3>1. c # 0
      BY <2>3 DEF CollIInv, JobsChosen, AddTagToCollection
    <3> DEFINE next == [job[w] EXCEPT !.add = @ \ {t}]
    <3>2. /\ next \in JobRow /\ next.on = c
          /\ next.remove = job[w].remove /\ next.add = job[w].add \ {t}
      BY <2>1 DEF JobRow
    <3>3. /\ job' = [job EXCEPT ![w] = next] /\ t \in job[w].add /\ job[w].remove = {}
          /\ \/ tagRows' = tagRows \cup {<<c, t>>} /\ failed' = failed
             \/ tagRows' = tagRows /\ failed' = failed \cup {c}
      BY <2>3 DEF AddTagToCollection, Execute
    <3> HIDE DEF next
    <3> QED
      BY <3>1, <3>2, <3>3
  <2>4. CASE Saved(w)
    <3>1. /\ NoJob \in JobRow /\ NoJob.on = 0 /\ NoJob.add = {} /\ NoJob.remove = {}
      BY DEF NoJob, JobRow
    <3> QED
      BY <2>4, <3>1 DEF Saved
  <2> QED
    BY <2>2, <2>3, <2>4
<1>2. /\ job[w] \in JobRow /\ c \in Colls \cup {0}
      /\ \A v \in Windows : job'[v] = IF v = w THEN new ELSE job[v]
      /\ c = 0 => job[w].remove = {} /\ job[w].add = {}
      /\ c # 0 => owner[c] # NoOwner /\ job[w].add \subseteq chosen[c]
  BY <1>1 DEF CollIInv, CollTypeOK, JobsChosen, JobRow
<1>3. CollTypeOK' /\ RowsChosen'
  <2>1. tagRows' \subseteq tagRows \cup {<<d, t>> : d \in {c} \ {0}, t \in job[w].add}
    BY <1>1, <1>2
  <2>2. tagRows' \subseteq Colls \X CollTags
    BY <1>2, <2>1 DEF CollIInv, CollTypeOK, JobRow
  <2>3. CollTypeOK'
    <3>1. failed' \subseteq Colls
      BY <1>1, <1>2 DEF CollIInv, CollTypeOK
    <3> QED
      BY <1>0, <1>1, <2>2, <3>1 DEF CollIInv, CollTypeOK
  <2>4. RowsChosen'
    BY <1>0, <1>2, <2>1 DEF CollIInv, RowsChosen
  <2> QED
    BY <2>3, <2>4
<1>4. JobsChosen'
  <2> SUFFICES ASSUME NEW v \in Windows PROVE JobsChosen!(v)'
    BY DEF JobsChosen
  <2>1. CASE v = w
    BY <1>0, <1>1, <1>2, <2>1
  <2>2. CASE v # w
    BY <1>0, <1>2, <2>2 DEF CollIInv, JobsChosen
  <2> QED
    BY <2>1, <2>2
<1>5. SavesTrue'
  <2> SUFFICES ASSUME NEW d \in Colls \ mixed PROVE SavesTrue!(d)'
    BY <1>0 DEF SavesTrue
  <2>0. d # 0 /\ SavesTrue!(d)
    <3>1. d # 0
      BY DEF Colls
    <3>2. SavesTrue
      BY DEF CollIInv
    <3> HIDE DEF c
    <3>3. SavesTrue!(d)
      BY <3>2, Zenon DEF SavesTrue
    <3> QED
      BY <3>1, <3>3, Zenon
  <2>1. CASE d # c
    <3>1. GetCollectionTags(d)' = GetCollectionTags(d)
      BY <1>1, <2>1 DEF GetCollectionTags
    <3>2. \A v \in Windows : job'[v].on = d <=> job[v].on = d /\ v # w
      BY <1>1, <1>2, <2>0, <2>1
    <3>3. d \notin failed' => d \notin failed
      BY <1>1
    <3> QED
      BY <1>0, <1>2, <2>0, <2>1, <3>1, <3>2, <3>3 DEF Exists
  <2>2. CASE d = c
    <3>1. \A v \in Windows \ {w} : job[v].on # d /\ job'[v].on # d
      BY <1>2, <2>0, <2>2
    <3>2. ASSUME Exists(d), d \notin failed'
          PROVE  /\ (GetCollectionTags(d)' \ new.remove) \cup new.add = form[d]
      BY <1>1, <1>2, <2>0, <2>2, <3>2 DEF GetCollectionTags, JobRow
    <3>3. Exists(d)' <=> Exists(d)
      BY <1>0 DEF Exists
    <3>4. \/ new.on = d
          \/ new.on # d /\ new.remove = {} /\ new.add = {}
      BY <1>1, <2>0, <2>2
    <3> QED
      BY <1>0, <1>2, <3>1, <3>2, <3>3, <3>4
  <2> QED
    BY <2>1, <2>2
<1> QED
  BY <1>3, <1>4, <1>5 DEF CollIInv

(* The id of a deleted collection is not one that has never been used.      *)
LEMMA DeleteKeeps ==
  ASSUME CollIInv, NEW u \in Owners, NEW c \in Colls, DeleteCollectionSubmit(u, c)
  PROVE  CollIInv'
<1>1. /\ UNCHANGED <<job, form, chosen, mixed, failed>>
      /\ \A d \in Colls : owner'[d] = IF d = c THEN Deleted ELSE owner[d]
      /\ tagRows' \subseteq tagRows
      /\ \A d \in Colls \ {c}, t \in CollTags : <<d, t>> \in tagRows' <=> <<d, t>> \in tagRows
  BY DEF DeleteCollectionSubmit, CollIInv, CollTypeOK
<1>2. Deleted # NoOwner /\ Deleted \notin Owners
  BY OwnersAssumption DEF Deleted
<1>3. CollTypeOK'
  BY DEF DeleteCollectionSubmit, CollIInv, CollTypeOK
<1>4. RowsChosen'
  BY <1>1, <1>2 DEF CollIInv, RowsChosen
<1>5. JobsChosen'
  <2>1. \A w \in Windows : job[w].on \in Colls \cup {0}
    BY DEF CollIInv, CollTypeOK, JobRow
  <2> QED
    BY <1>1, <1>2, <2>1 DEF CollIInv, JobsChosen
<1>6. SavesTrue'
  <2> SUFFICES ASSUME NEW d \in Colls \ mixed PROVE SavesTrue!(d)'
    BY <1>1 DEF SavesTrue
  <2>1. CASE d = c
    BY <1>1, <1>2, <2>1 DEF CollIInv, SavesTrue, Exists
  <2>2. CASE d # c
    <3>1. GetCollectionTags(d)' = GetCollectionTags(d)
      BY <1>1, <2>2 DEF GetCollectionTags
    <3> QED
      BY <1>1, <2>2, <3>1 DEF CollIInv, SavesTrue, Exists
  <2> QED
    BY <2>1, <2>2
<1> QED
  BY <1>3, <1>4, <1>5, <1>6 DEF CollIInv

(* A collection without its tags, and a process that ends within saves: the *)
(* collections concerned are among those of which a statement is missing.   *)
LEMMA LostKeeps ==
  ASSUME CollIInv,
         \/ \E u \in Owners, c \in Colls, tags \in SUBSET CollTags : CreatedOnly(u, c, tags)
         \/ EndProcess
  PROVE  CollIInv'
<1>1. CASE EndProcess
  <2>1. /\ UNCHANGED <<owner, tagRows, form, chosen, mixed>>
        /\ job' = [w \in Windows |-> NoJob]
        /\ failed' = failed \cup {c \in Colls : \E w \in Windows : job[w].on = c}
    BY <1>1 DEF EndProcess
  <2>2. NoJob \in JobRow /\ NoJob.on = 0 /\ NoJob.remove = {} /\ NoJob.add = {}
    BY DEF NoJob, JobRow
  <2> HIDE DEF NoJob
  <2>3. CollTypeOK'
    BY <2>1, <2>2 DEF CollIInv, CollTypeOK
  <2>4. RowsChosen' /\ JobsChosen'
    BY <2>1, <2>2 DEF CollIInv, RowsChosen, JobsChosen
  <2>5. SavesTrue'
    <3> SUFFICES ASSUME NEW c \in Colls \ mixed PROVE SavesTrue!(c)'
      BY <2>1 DEF SavesTrue
    <3>1. \A w \in Windows : job'[w].on # c
      BY <2>1, <2>2 DEF Colls
    <3>2. ASSUME Exists(c), c \notin failed'
          PROVE  GetCollectionTags(c) = form[c]
      BY <2>1, <3>2 DEF CollIInv, SavesTrue
    <3>3. GetCollectionTags(c)' = GetCollectionTags(c) /\ (Exists(c)' <=> Exists(c))
      BY <2>1 DEF GetCollectionTags, Exists
    <3> QED
      BY <2>1, <3>1, <3>2, <3>3
  <2> QED
    BY <2>3, <2>4, <2>5 DEF CollIInv
<1>2. ASSUME NEW u \in Owners, NEW c \in Colls, NEW tags \in SUBSET CollTags,
             CreatedOnly(u, c, tags)
      PROVE  CollIInv'
  <2>1. /\ UNCHANGED <<tagRows, job, mixed>>
        /\ owner[c] = NoOwner /\ failed' = failed \cup {c}
        /\ \A d \in Colls : owner'[d] = IF d = c THEN u ELSE owner[d]
        /\ \A d \in Colls : form'[d] = IF d = c THEN tags ELSE form[d]
        /\ \A d \in Colls : chosen'[d] = IF d = c THEN tags ELSE chosen[d]
    BY <1>2 DEF CreatedOnly, NextId, CollIInv, CollTypeOK
  <2>2. CollTypeOK'
    BY <1>2 DEF CreatedOnly, CollIInv, CollTypeOK
  <2>3. RowsChosen'
    BY <2>1, OwnersAssumption DEF CollIInv, RowsChosen
  <2>4. JobsChosen'
    <3>1. \A w \in Windows : job[w].on \in Colls \cup {0}
      BY DEF CollIInv, CollTypeOK, JobRow
    <3> QED
      BY <2>1, <3>1, OwnersAssumption DEF CollIInv, JobsChosen
  <2>5. SavesTrue'
    <3> SUFFICES ASSUME NEW d \in Colls \ mixed PROVE SavesTrue!(d)'
      BY <2>1 DEF SavesTrue
    <3>1. GetCollectionTags(d)' = GetCollectionTags(d)
      BY <2>1 DEF GetCollectionTags
    <3> QED
      BY <2>1, <3>1 DEF CollIInv, SavesTrue, Exists
  <2> QED
    BY <2>2, <2>3, <2>4, <2>5 DEF CollIInv
<1> QED
  BY <1>1, <1>2

(* Forms, the steps of their saves, and deletions preserve the invariant.   *)
LEMMA CollNextIInv == CollIInv /\ [CollNext]_collVars => CollIInv'
<1> SUFFICES ASSUME CollIInv, [CollNext]_collVars PROVE CollIInv'
  OBVIOUS
<1>1. CASE UNCHANGED collVars
  BY <1>1 DEF collVars, CollIInv, CollTypeOK, RowsChosen, JobsChosen, SavesTrue, Exists,
              GetCollectionTags
<1> QED
  BY <1>1, BeginKeeps, SaveStepKeeps, DeleteKeeps, LostKeeps DEF CollNext

(* The page of a collection shows only what its owner chose for it, also    *)
(* where deletions leave rows behind, and saves that do not overlap and of   *)
(* which no statement is lost leave the tags of the last form.              *)
THEOREM AlwaysCollectionsAsChosen == CollSpec => []CollectionsAsChosen
<1>1. CollIInv => CollectionsAsChosen
  <2> SUFFICES ASSUME CollIInv PROVE PageShowsChoice /\ SavedAsChosen
    BY DEF CollIInv, CollectionsAsChosen
  <2>1. PageShowsChoice
    <3> SUFFICES ASSUME NEW u \in Owners, NEW c \in Colls, NEW i \in CollectionDetailPage(u, c)
                 PROVE  TagsOf[i] \cap chosen[c] # {}
      BY DEF PageShowsChoice
    <3>1. PICK t \in CollTags : t \in TagsOf[i] /\ <<c, t>> \in tagRows
      BY DEF CollectionDetailPage, GetPostsForCollection, GetCollectionTags
    <3> QED
      BY <3>1 DEF CollIInv, RowsChosen
  <2>2. SavedAsChosen
    BY DEF CollIInv, SavesTrue, SavedAsChosen
  <2> QED
    BY <2>1, <2>2
<1> QED
  BY <1>1, CollInitIInv, CollNextIInv, PTL DEF CollSpec

-----------------------------------------------------------------------------
(* Tags.                                                                    *)

(* A tag is active, or one of those that were written to too late. *)
KnownTag(n) == Active(n) \/ n \in late

(* What stands in for the creation of a tag by u. *)
Authorized(u, n) ==
    u \in SiteAdmins \/ \E k \in 1..(Len(n) - 1) : <<SubSeq(n, 1, k), u>> \in moderated

(* A request that has passed its checks: as long as nobody else has written *)
(* since, what it has read is still so; what it has read of moderators      *)
(* stays true for good.                                                     *)
ReqSound(r) ==
    /\ req[r].op # "idle" => req[r].user \in TagUsers
    /\ req[r].op = "createTag" => \A n \in req[r].tags : Authorized(req[r].user, n)
    /\ ~req[r].stale /\ req[r].op = "createTag" =>
         \A n \in req[r].tags : Len(n) > 1 => Active(GetParentTagName(n))
    /\ ~req[r].stale /\ req[r].op = "deleteTag" =>
         \A n \in req[r].tags : \A m \in Below(n) : ~Active(m)
    /\ ~req[r].stale /\ req[r].op = "submit" => \A n \in req[r].tags : KnownTag(n)

(* Nothing is at a deleted tag but what came too late. *)
PostSound(p) ==
    /\ \A n \in post[p].tags : KnownTag(n)
    /\ post[p].st # "none" => post[p].author \in TagUsers
FeedSound(f) == feedTag[f] \in Names => KnownTag(feedTag[f])
AdminSound(a) == KnownTag(a[1]) /\ a \in moderated

CreatorSound(n) == creator[n] # NoUser => <<n, creator[n]>> \in moderated /\ Authorized(creator[n], n)

ParentSound(n) == Active(n) /\ Len(n) > 1 => Active(GetParentTagName(n)) \/ n \in late

TagsIInv ==
    /\ TagsTypeOK
    /\ \A r \in TagReqs : ReqSound(r)
    /\ \A p \in Posts : PostSound(p)
    /\ \A f \in Feeds : FeedSound(f)
    /\ \A a \in admins : AdminSound(a)
    /\ \A n \in Names : CreatorSound(n) /\ ParentSound(n)

(* A subtag's parent is a tag name above it, of which it is a child.        *)
LEMMA ParentIsAbove ==
  ASSUME NEW n \in Names, Len(n) > 1
  PROVE  /\ GetParentTagName(n) \in Names /\ n \in Children(GetParentTagName(n))
         /\ Len(GetParentTagName(n)) = Len(n) - 1
         /\ \A k \in 1..Len(GetParentTagName(n)) :
              SubSeq(GetParentTagName(n), 1, k) = SubSeq(n, 1, k) /\ SubSeq(n, 1, k) \in Names
<1>1. PICK S : n \in Seq(S)
  BY NamesAssumption
<1>2. PICK len \in Nat : len = Len(n) /\ len > 1
  BY <1>1
<1>3. PICK f : f = SubSeq(n, 1, len - 1)
  OBVIOUS
<1>4. f = GetParentTagName(n)
  BY <1>2, <1>3 DEF GetParentTagName, Front
<1>5. /\ f \in Seq(S) /\ Len(f) = len - 1 /\ \A k \in 1..(len - 1) : f[k] = n[k]
  BY <1>1, <1>2, <1>3
<1>6. \A k \in 1..(len - 1) : SubSeq(n, 1, k) \in Names
  BY <1>2, NamesAssumption
<1>7. f \in Names
  BY <1>2, <1>3, <1>6
<1>8. ASSUME NEW k \in 1..(len - 1) PROVE SubSeq(f, 1, k) = SubSeq(n, 1, k)
  <2>1. SubSeq(f, 1, k) = [i \in 1..k |-> f[i]] /\ SubSeq(n, 1, k) = [i \in 1..k |-> n[i]]
    BY <1>1, <1>2, <1>5
  <2>2. \A i \in 1..k : f[i] = n[i]
    BY <1>2, <1>5
  <2> QED
    BY <2>1, <2>2
<1>9. SubSeq(f, 1, Len(f)) = SubSeq(n, 1, Len(f))
  BY <1>2, <1>5, <1>8
<1>10. n \in Children(f)
  BY <1>2, <1>5, <1>9 DEF Children, Below, IsStrictPrefix, IsPrefix
<1> QED
  BY <1>2, <1>4, <1>5, <1>6, <1>7, <1>8, <1>10

(* What a handler remembers between its checks and its write. *)
TagReq(op, u, T) == [IdleReq EXCEPT !.op = op, !.user = u, !.tags = T]
PostTagReq(op, u, T, o) == [IdleReq EXCEPT !.op = op, !.user = u, !.tags = T, !.on = o]
FeedReq(op, u, o) == [IdleReq EXCEPT !.op = op, !.user = u, !.on = o]

Ops == {"submit", "createTag", "deleteTag", "removeTag", "addFeed", "deleteFeed"}

(* A request's row before its tags and its post or feed are filled in.      *)
LEMMA OpUserRow ==
  ASSUME NEW op \in Ops, NEW u \in TagUsers
  PROVE  \E row \in ReqRow : /\ row = [IdleReq EXCEPT !.op = op, !.user = u]
                            /\ row.op = op /\ row.user = u /\ ~row.stale
<1>1. IdleReq \in ReqRow /\ ~IdleReq.stale
  BY DEF IdleReq, ReqRow
<1> DEFINE r1 == [IdleReq EXCEPT !.op = op]
           r2 == [r1 EXCEPT !.user = u]
<1>2. r2 = [IdleReq EXCEPT !.op = op, !.user = u]
  OBVIOUS
<1>3. r1 \in ReqRow /\ r1.op = op /\ ~r1.stale
  BY <1>1 DEF ReqRow, Ops
<1> HIDE DEF r1
<1>4. r2 \in ReqRow /\ r2.op = op /\ r2.user = u /\ ~r2.stale
  BY <1>3 DEF ReqRow
<1> HIDE DEF r2
<1> QED
  BY <1>2, <1>4

(* The row of a request about tags. *)
LEMMA TagReqRow ==
  ASSUME NEW op \in Ops, NEW u \in TagUsers, NEW T \in SUBSET Names
  PROVE  /\ TagReq(op, u, T) \in ReqRow /\ TagReq(op, u, T).op = op
         /\ TagReq(op, u, T).user = u /\ TagReq(op, u, T).tags = T
         /\ ~TagReq(op, u, T).stale
<1>1. PICK row \in ReqRow : /\ row = [IdleReq EXCEPT !.op = op, !.user = u]
                            /\ row.op = op /\ row.user = u /\ ~row.stale
  BY OpUserRow
<1>2. TagReq(op, u, T) = [row EXCEPT !.tags = T]
  BY <1>1 DEF TagReq
<1> QED
  BY <1>1, <1>2 DEF ReqRow

(* The row of a request about tags of a post. *)
LEMMA PostTagReqRow ==
  ASSUME NEW op \in Ops, NEW u \in TagUsers, NEW T \in SUBSET Names, NEW o \in Posts
  PROVE  /\ PostTagReq(op, u, T, o) \in ReqRow /\ PostTagReq(op, u, T, o).op = op
         /\ PostTagReq(op, u, T, o).user = u
<1>1. PICK row : row = TagReq(op, u, T)
  OBVIOUS
<1>2. row \in ReqRow /\ row.op = op /\ row.user = u
  BY <1>1, TagReqRow
<1>3. PostTagReq(op, u, T, o) = [row EXCEPT !.on = o]
  BY <1>1 DEF TagReq, PostTagReq
<1> QED
  BY <1>2, <1>3 DEF ReqRow

(* The row of a request about a feed. *)
LEMMA FeedReqRow ==
  ASSUME NEW op \in Ops, NEW u \in TagUsers, NEW o \in Feeds
  PROVE  /\ FeedReq(op, u, o) \in ReqRow /\ FeedReq(op, u, o).op = op
         /\ FeedReq(op, u, o).user = u
<1>1. PICK row \in ReqRow : /\ row = [IdleReq EXCEPT !.op = op, !.user = u]
                            /\ row.op = op /\ row.user = u /\ ~row.stale
  BY OpUserRow
<1>2. FeedReq(op, u, o) = [row EXCEPT !.on = o]
  BY <1>1 DEF FeedReq
<1> QED
  BY <1>1, <1>2 DEF ReqRow

(* A request that has passed its checks changes nothing else. *)
LEMMA PassKeeps ==
  ASSUME TagsIInv, NEW r \in TagReqs, NEW row \in ReqRow, Pass(r, row),
         UNCHANGED <<status, creator, admins, post, feedTag, late, moderated>>,
         req'[r] = row => ReqSound(r)'
  PROVE  TagsIInv'
<1>1. /\ req' = [req EXCEPT ![r] = row] /\ req \in [TagReqs -> ReqRow]
      /\ served \in 0..MaxServed /\ served < MaxServed /\ served' = served + 1
  BY DEF Pass, Serve, TagsIInv, TagsTypeOK
<1>2. /\ req' \in [TagReqs -> ReqRow] /\ req'[r] = row
      /\ \A q \in TagReqs \ {r} : req'[q] = req[q]
  BY <1>1
<1>3. TagsTypeOK'
  BY <1>1, <1>2, ServedAssumption DEF TagsIInv, TagsTypeOK
<1>4. ASSUME NEW q \in TagReqs \ {r} PROVE ReqSound(q)'
  BY <1>2 DEF TagsIInv, ReqSound, Authorized, KnownTag, Active
<1>5. /\ \A p \in Posts : PostSound(p)'
      /\ \A f \in Feeds : FeedSound(f)'
      /\ \A a \in admins : AdminSound(a)'
      /\ \A n \in Names : CreatorSound(n)'
      /\ \A n \in Names : ParentSound(n)'
      /\ admins' = admins
  BY DEF TagsIInv, PostSound, FeedSound, AdminSound, CreatorSound, ParentSound, Authorized, KnownTag, Active
<1>6. \A q \in TagReqs : ReqSound(q)'
  BY <1>2, <1>4
<1> QED
  BY <1>3, <1>5, <1>6 DEF TagsIInv

(* After a write the other requests only know what stays true.              *)
LEMMA DoneKeeps ==
  ASSUME TagsIInv, NEW r \in TagReqs, Done(r), moderated \subseteq moderated'
  PROVE  req' \in [TagReqs -> ReqRow] /\ served' = served /\ \A q \in TagReqs : ReqSound(q)'
<1>1. req \in [TagReqs -> ReqRow] /\ IdleReq \in ReqRow /\ IdleReq.op = "idle"
  BY DEF TagsIInv, TagsTypeOK, IdleReq, ReqRow
<1>2. ASSUME NEW q \in TagReqs
      PROVE  /\ req'[q] \in ReqRow
             /\ \/ req'[q].op = "idle"
                \/ /\ req'[q].op = req[q].op /\ req'[q].user = req[q].user /\ req'[q].tags = req[q].tags
                   /\ req'[q].stale
  <2>1. CASE q = r \/ req[q].op = "idle"
    BY <1>1, <2>1 DEF Done
  <2>2. CASE q # r /\ req[q].op # "idle"
    <3>1. req'[q] = [req[q] EXCEPT !.stale = TRUE]
      BY <2>2 DEF Done
    <3>2. req[q] \in ReqRow
      BY <1>1
    <3> QED
      BY <3>1, <3>2 DEF ReqRow
  <2> QED
    BY <2>1, <2>2
<1>3. req' \in [TagReqs -> ReqRow]
  <2>1. req' = [q \in TagReqs |-> req'[q]]
    BY DEF Done
  <2> QED
    BY <1>2, <2>1
<1>4. ASSUME NEW q \in TagReqs PROVE ReqSound(q)'
  <2>1. ReqSound(q)
    BY DEF TagsIInv
  <2>2. CASE req'[q].op = "idle"
    BY <2>2 DEF ReqSound
  <2>3. CASE req'[q].op # "idle"
    <3>1. /\ req'[q].op = req[q].op /\ req'[q].user = req[q].user /\ req'[q].tags = req[q].tags
          /\ req'[q].stale
      BY <1>2, <2>3
    <3> QED
      BY <2>1, <3>1 DEF ReqSound, Authorized
  <2> QED
    BY <2>2, <2>3
<1> QED
  BY <1>3, <1>4 DEF Done

(* As long as no tag changes its status, requests keep what they have read. *)
LEMMA RequestsKeep ==
  ASSUME TagsIInv, UNCHANGED <<status, req>>, late \subseteq late', moderated \subseteq moderated'
  PROVE  /\ \A q \in TagReqs : ReqSound(q)'
         /\ \A n : KnownTag(n) => KnownTag(n)'
         /\ \A n \in Names : ParentSound(n)'
BY DEF TagsIInv, ReqSound, Authorized, KnownTag, Active, ParentSound

(* The default tags that migrate inserts include the parents of each.       *)
LEMMA TagsInitIInv == TagsInit => TagsIInv
<1> SUFFICES ASSUME TagsInit PROVE TagsIInv
  OBVIOUS
<1>1. IdleReq \in ReqRow /\ IdleReq.op = "idle"
  BY DEF IdleReq, ReqRow
<1>2. NoPost \in PostRow /\ NoPost.tags = {} /\ NoPost.st = "none"
  BY DEF NoPost, PostRow
<1>3. TagsTypeOK
  <2>1. /\ status \in [Names -> {"none", "active", "inactive"}]
        /\ creator \in [Names -> TagUsers \cup {NoUser}]
        /\ post \in [Posts -> PostRow] /\ feedTag \in [Feeds -> Names \cup {NoTag, Gone}]
        /\ req \in [TagReqs -> ReqRow] /\ admins = {} /\ late = {} /\ moderated = {}
    BY <1>1, <1>2 DEF TagsInit
  <2>2. served \in 0..MaxServed
    BY ServedAssumption DEF TagsInit
  <2> QED
    BY <2>1, <2>2 DEF TagsTypeOK
<1>4. (\A r \in TagReqs : ReqSound(r)) /\ \A p \in Posts : PostSound(p)
  BY <1>1, <1>2 DEF TagsInit, ReqSound, PostSound
<1>5. \A f \in Feeds : FeedSound(f)
  BY NamesAssumption DEF TagsInit, FeedSound
<1>6. ASSUME NEW n \in Names PROVE ParentSound(n)
  <2> SUFFICES ASSUME Active(n), Len(n) > 1 PROVE Active(GetParentTagName(n))
    BY DEF ParentSound
  <2>1. n \in DefaultTags /\ GetParentTagName(n) \in Names
    BY ParentIsAbove DEF TagsInit, Active
  <2>2. PICK len \in Nat : len = Len(n) /\ len > 1
    BY NamesAssumption
  <2>3. GetParentTagName(n) \in DefaultTags
    BY <2>1, <2>2, NamesAssumption DEF GetParentTagName, Front
  <2> QED
    BY <2>1, <2>3 DEF TagsInit, Active
<1>7. (\A a \in admins : AdminSound(a)) /\ \A n \in Names : CreatorSound(n)
  BY DEF TagsInit, CreatorSound
<1> QED
  BY <1>3, <1>4, <1>5, <1>6, <1>7 DEF TagsIInv

(* SeedTagCreators: the root user, a site admin. *)
LEMMA SeedKeeps == ASSUME TagsIInv, SeedTagCreators PROVE TagsIInv'
<1>1. /\ \A n \in Names : creator'[n] = creator[n] \/ creator'[n] = RootUser
      /\ creator' \in [Names -> TagUsers \cup {NoUser}]
      /\ moderated' = moderated \cup {<<n, RootUser>> : n \in {m \in Names : creator'[m] = RootUser}}
      /\ UNCHANGED <<status, admins, post, feedTag, req, served, late>>
  BY TagUsersAssumption DEF SeedTagCreators, TagsIInv, TagsTypeOK
<1>2. TagsTypeOK'
  BY <1>1, TagUsersAssumption DEF TagsIInv, TagsTypeOK
<1>3. /\ \A q \in TagReqs : ReqSound(q)'
      /\ \A n : KnownTag(n) => KnownTag(n)'
      /\ \A n \in Names : ParentSound(n)'
  BY <1>1, RequestsKeep
<1>4. ASSUME NEW n \in Names PROVE CreatorSound(n)'
  BY <1>1, TagUsersAssumption DEF TagsIInv, CreatorSound, Authorized
<1>5. /\ \A p \in Posts : PostSound(p)'
      /\ \A f \in Feeds : FeedSound(f)'
      /\ \A a \in admins : AdminSound(a)'
      /\ admins' = admins
  BY <1>1, <1>3 DEF TagsIInv, PostSound, FeedSound, AdminSound
<1> QED
  BY <1>2, <1>3, <1>4, <1>5 DEF TagsIInv

(* Creators and admins of a tag have been its moderators. *)
LEMMA ModeratorsKnown ==
  ASSUME TagsIInv, NEW n \in Names, NEW u \in TagUsers, IsTagCreator(n, u) \/ IsTagAdmin(n, u)
  PROVE  <<n, u>> \in moderated
<1>1. CASE IsTagCreator(n, u)
  BY <1>1, TagUsersAssumption DEF IsTagCreator, TagsIInv, CreatorSound
<1>2. CASE IsTagAdmin(n, u)
  BY <1>2 DEF IsTagAdmin, TagsIInv, AdminSound
<1> QED
  BY <1>1, <1>2

(* The checks of a creation: the user has authority, the parent is there.   *)
LEMMA CreateTagSubmitKeeps ==
  ASSUME TagsIInv, NEW r \in TagReqs, NEW u \in People, NEW n \in Names, CreateTagSubmit(r, u, n)
  PROVE  TagsIInv'
<1>1. u \in TagUsers
  BY DEF People
<1>2. PICK row : row = TagReq("createTag", u, {n})
  OBVIOUS
<1>3. /\ row \in ReqRow /\ row.op = "createTag" /\ row.user = u /\ row.tags = {n}
      /\ Pass(r, row) /\ UNCHANGED <<status, creator, admins, post, feedTag, late, moderated>>
      /\ Len(n) > 1 => Active(GetParentTagName(n))
  <2>1. {n} \in SUBSET Names /\ "createTag" \in Ops
    BY DEF Ops
  <2>2. row \in ReqRow /\ row.op = "createTag" /\ row.user = u /\ row.tags = {n}
    BY <1>1, <1>2, <2>1, TagReqRow
  <2>3. Pass(r, row)
    BY <1>2 DEF CreateTagSubmit, TagReq
  <2> QED
    BY <2>2, <2>3 DEF CreateTagSubmit
<1>4. Authorized(u, n)
  <2> SUFFICES ASSUME u \notin SiteAdmins PROVE Authorized(u, n)
    BY DEF Authorized
  <2>1. Len(n) > 1 /\ CanCreateSubtag(GetParentTagName(n), u)
    <3>1. Len(n) \in Nat /\ Len(n) > 0
      BY NamesAssumption
    <3>2. IF Len(n) = 1 THEN u \in SiteAdmins ELSE CanCreateSubtag(GetParentTagName(n), u)
      BY DEF CreateTagSubmit
    <3>3. Len(n) # 1
      BY <3>2, Zenon
    <3>4. CanCreateSubtag(GetParentTagName(n), u)
      BY <3>2, <3>3, Zenon
    <3>5. PICK len \in Nat : len = Len(n)
      BY <3>1
    <3>6. len > 0 /\ len # 1
      BY <3>1, <3>3, <3>5, Zenon
    <3>7. len > 1
      BY <3>6
    <3> QED
      BY <3>4, <3>5, <3>7
  <2>2. PICK k \in 1..Len(GetParentTagName(n)) :
           \/ IsTagCreator(SubSeq(GetParentTagName(n), 1, k), u)
           \/ IsTagAdmin(SubSeq(GetParentTagName(n), 1, k), u)
    BY <2>1 DEF CanCreateSubtag
  <2>3. /\ SubSeq(GetParentTagName(n), 1, k) = SubSeq(n, 1, k) /\ SubSeq(n, 1, k) \in Names
        /\ k \in 1..(Len(n) - 1)
    BY <2>1, ParentIsAbove
  <2>4. <<SubSeq(n, 1, k), u>> \in moderated
    BY <1>1, <2>2, <2>3, ModeratorsKnown
  <2> QED
    BY <2>3, <2>4 DEF Authorized
<1>5. req'[r] = row => ReqSound(r)'
  BY <1>1, <1>2, <1>3, <1>4 DEF ReqSound, Authorized, Active
<1> QED
  BY <1>2, <1>3, <1>5, PassKeeps

(* The checks of a deletion: no active tag is below. *)
LEMMA DeleteTagSubmitKeeps ==
  ASSUME TagsIInv, NEW r \in TagReqs, NEW u \in People, NEW n \in Names, DeleteTagSubmit(r, u, n)
  PROVE  TagsIInv'
<1>1. u \in TagUsers
  BY DEF People
<1>2. PICK row : row = TagReq("deleteTag", u, {n})
  OBVIOUS
<1>3. /\ row \in ReqRow /\ row.op = "deleteTag" /\ row.user = u /\ row.tags = {n}
      /\ Pass(r, row) /\ UNCHANGED <<status, creator, admins, post, feedTag, late, moderated>>
      /\ GetTagChildCount(n) = 0
  <2>1. {n} \in SUBSET Names /\ "deleteTag" \in Ops
    BY DEF Ops
  <2>2. row \in ReqRow /\ row.op = "deleteTag" /\ row.user = u /\ row.tags = {n}
    BY <1>1, <1>2, <2>1, TagReqRow
  <2>3. Pass(r, row)
    BY <1>2 DEF DeleteTagSubmit, TagReq
  <2> QED
    BY <2>2, <2>3 DEF DeleteTagSubmit
<1>4. \A m \in Below(n) : ~Active(m)
  <2> DEFINE S == {m \in Below(n) : Active(m)}
  <2>1. IsFiniteSet(S)
    BY NamesAssumption, FS_Subset DEF Below
  <2>2. Cardinality(S) = 0
    BY <1>3 DEF GetTagChildCount
  <2>3. S = {}
    BY <2>1, <2>2, FS_EmptySet
  <2> QED
    BY <2>3
<1>5. req'[r] = row => ReqSound(r)'
  BY <1>1, <1>2, <1>3, <1>4 DEF ReqSound, Active
<1> QED
  BY <1>2, <1>3, <1>5, PassKeeps

(* The checks of the other handlers: what they read of tags is about posts  *)
(* to come.                                                                 *)
LEMMA OtherSubmitsKeep ==
  ASSUME TagsIInv, NEW r \in TagReqs,
         \/ \E u \in People, n \in Names : AddTagFeed(r, u, n)
         \/ \E u \in People, n \in Names, p \in Posts : RemovePostTag(r, u, p, n)
         \/ \E u \in People, f \in Feeds : DeleteTagFeed(r, u, f)
  PROVE  TagsIInv'
<1>1. PICK row \in ReqRow : /\ Pass(r, row) /\ row.user \in TagUsers
                            /\ row.op \in {"addFeed", "removeTag", "deleteFeed"}
  <2>1. ASSUME NEW u \in People, NEW n \in Names, AddTagFeed(r, u, n)
        PROVE  \E row \in ReqRow : /\ Pass(r, row) /\ row.user \in TagUsers
                                   /\ row.op \in {"addFeed", "removeTag", "deleteFeed"}
    <3>1. u \in TagUsers
      BY DEF People
    <3>2. {n} \in SUBSET Names /\ "addFeed" \in Ops
      BY DEF Ops
    <3>3. PICK row : row = TagReq("addFeed", u, {n})
      OBVIOUS
    <3>4. row \in ReqRow /\ row.op = "addFeed" /\ row.user = u
      BY <3>1, <3>2, <3>3, TagReqRow
    <3>5. Pass(r, row)
      BY <2>1, <3>3 DEF AddTagFeed, TagReq
    <3> QED
      BY <3>1, <3>4, <3>5
  <2>2. ASSUME NEW u \in People, NEW n \in Names, NEW p \in Posts, RemovePostTag(r, u, p, n)
        PROVE  \E row \in ReqRow : /\ Pass(r, row) /\ row.user \in TagUsers
                                   /\ row.op \in {"addFeed", "removeTag", "deleteFeed"}
    <3>1. u \in TagUsers
      BY DEF People
    <3>2. {n} \in SUBSET Names /\ "removeTag" \in Ops
      BY DEF Ops
    <3>3. PICK row : row = PostTagReq("removeTag", u, {n}, p)
      OBVIOUS
    <3>4. row \in ReqRow /\ row.op = "removeTag" /\ row.user = u
      BY <3>1, <3>2, <3>3, PostTagReqRow
    <3>5. Pass(r, row)
      BY <2>2, <3>3 DEF RemovePostTag, PostTagReq
    <3> QED
      BY <3>1, <3>4, <3>5
  <2>3. ASSUME NEW u \in People, NEW f \in Feeds, DeleteTagFeed(r, u, f)
        PROVE  \E row \in ReqRow : /\ Pass(r, row) /\ row.user \in TagUsers
                                   /\ row.op \in {"addFeed", "removeTag", "deleteFeed"}
    <3>1. u \in TagUsers
      BY DEF People
    <3>2. "deleteFeed" \in Ops
      BY DEF Ops
    <3>3. PICK row : row = FeedReq("deleteFeed", u, f)
      OBVIOUS
    <3>4. row \in ReqRow /\ row.op = "deleteFeed" /\ row.user = u
      BY <3>1, <3>2, <3>3, FeedReqRow
    <3>5. Pass(r, row)
      BY <2>3, <3>3 DEF DeleteTagFeed, FeedReq
    <3> QED
      BY <3>1, <3>4, <3>5
  <2> QED
    BY <2>1, <2>2, <2>3
<1>2. UNCHANGED <<status, creator, admins, post, feedTag, late, moderated>>
  BY DEF AddTagFeed, RemovePostTag, DeleteTagFeed
<1>3. req'[r] = row => ReqSound(r)'
  BY <1>1 DEF ReqSound
<1> QED
  BY <1>1, <1>2, <1>3, PassKeeps

(* A post to come, with tags that are active, or that of a feed. *)
LEMMA SubmitsKeep ==
  ASSUME TagsIInv, NEW r \in TagReqs,
         \/ \E u \in People, names \in SUBSET Names : SubmitPost(r, u, names)
         \/ \E f \in Feeds : PollTagFeed(r, f)
  PROVE  TagsIInv'
<1>1. PICK u \in TagUsers, T \in SUBSET Names :
         Pass(r, TagReq("submit", u, T)) /\ \A n \in T : KnownTag(n)
  <2>1. CASE \E u \in People, names \in SUBSET Names : SubmitPost(r, u, names)
    BY <2>1 DEF SubmitPost, People, KnownTag, TagReq
  <2>2. CASE \E f \in Feeds : PollTagFeed(r, f)
    <3>1. PICK f \in Feeds : PollTagFeed(r, f)
      BY <2>2
    <3>2. feedTag[f] \in Names /\ KnownTag(feedTag[f])
      BY <3>1 DEF PollTagFeed, TagsIInv, FeedSound
    <3>3. Pass(r, TagReq("submit", Bot, {feedTag[f]})) /\ Bot \in TagUsers
      BY <3>1, TagUsersAssumption DEF PollTagFeed, TagReq
    <3>4. {feedTag[f]} \in SUBSET Names /\ \A n \in {feedTag[f]} : KnownTag(n)
      BY <3>2
    <3> QED
      BY <3>3, <3>4
  <2> QED
    BY <2>1, <2>2
<1>2. /\ TagReq("submit", u, T) \in ReqRow /\ TagReq("submit", u, T).op = "submit"
      /\ TagReq("submit", u, T).user = u /\ TagReq("submit", u, T).tags = T
  <2>1. "submit" \in Ops
    BY DEF Ops
  <2> QED
    BY <2>1, TagReqRow
<1>3. UNCHANGED <<status, creator, admins, post, feedTag, late, moderated>>
  BY DEF SubmitPost, PollTagFeed
<1>4. req'[r] = TagReq("submit", u, T) => ReqSound(r)'
  BY <1>1, <1>2, <1>3 DEF ReqSound, KnownTag, Active
<1> QED
  BY <1>1, <1>2, <1>3, <1>4, PassKeeps

(* CreateTag, the write: the parent was there unless somebody has written   *)
(* since, and then the new tag counts as late.                              *)
LEMMA CreateTagKeeps ==
  ASSUME TagsIInv, NEW r \in TagReqs, NEW n \in Names, CreateTag(r, n) PROVE TagsIInv'
<1>1. /\ req[r].op = "createTag" /\ n \in req[r].tags /\ Done(r)
      /\ UNCHANGED <<admins, post, feedTag>>
  BY DEF CreateTag
<1>2. CASE status[n] # "none"
  <2>1. UNCHANGED <<status, creator, moderated, late>>
    BY <1>2 DEF CreateTag
  <2>2. req' \in [TagReqs -> ReqRow] /\ served' = served /\ \A q \in TagReqs : ReqSound(q)'
    BY <1>1, <2>1, DoneKeeps
  <2>3. TagsTypeOK'
    BY <1>1, <2>1, <2>2 DEF TagsIInv, TagsTypeOK
  <2>4. /\ \A p \in Posts : PostSound(p)'
        /\ \A f \in Feeds : FeedSound(f)'
        /\ \A a \in admins : AdminSound(a)'
        /\ \A m \in Names : CreatorSound(m)'
        /\ \A m \in Names : ParentSound(m)'
        /\ admins' = admins
    BY <1>1, <2>1 DEF TagsIInv, PostSound, FeedSound, AdminSound, CreatorSound, ParentSound,
                      Authorized, KnownTag, Active
  <2> QED
    BY <2>2, <2>3, <2>4 DEF TagsIInv
<1>3. CASE status[n] = "none"
  <2>1. PICK u : u = req[r].user
    OBVIOUS
  <2>2. ReqSound(r) /\ r \in TagReqs
    BY DEF TagsIInv
  <2>3. u \in TagUsers /\ Authorized(u, n)
    BY <1>1, <2>1, <2>2 DEF ReqSound
  <2>4. /\ status' = [status EXCEPT ![n] = "active"]
        /\ creator' = [creator EXCEPT ![n] = u]
        /\ moderated' = moderated \cup {<<n, u>>}
        /\ late' = IF req[r].stale THEN late \cup {n} ELSE late
    BY <1>3, <2>1 DEF CreateTag, Written
  <2>5. req' \in [TagReqs -> ReqRow] /\ served' = served /\ \A q \in TagReqs : ReqSound(q)'
    BY <1>1, <2>4, DoneKeeps
  <2>6. TagsTypeOK'
    BY <1>1, <2>3, <2>4, <2>5 DEF TagsIInv, TagsTypeOK
  <2>7. /\ \A m \in Names \ {n} : status'[m] = status[m] /\ creator'[m] = creator[m]
        /\ status'[n] = "active" /\ creator'[n] = u /\ late \subseteq late'
    BY <2>4 DEF TagsIInv, TagsTypeOK
  <2>8. /\ \A m : KnownTag(m) => KnownTag(m)'
        /\ \A m : Active(m) => Active(m)'
    BY <2>7 DEF KnownTag, Active
  <2>9. /\ \A p \in Posts : PostSound(p)'
        /\ \A f \in Feeds : FeedSound(f)'
        /\ \A a \in admins : AdminSound(a)'
        /\ admins' = admins
    BY <1>1, <2>4, <2>8 DEF TagsIInv, PostSound, FeedSound, AdminSound
  <2>10. ASSUME NEW m \in Names PROVE CreatorSound(m)'
    <3>1. PICK v : v = creator'[m]
      OBVIOUS
    <3>2. v # NoUser => <<m, v>> \in moderated' /\ Authorized(v, m)
      <4>1. CASE m = n
        BY <2>3, <2>4, <2>7, <3>1, <4>1
      <4>2. CASE m # n
        BY <2>4, <2>7, <3>1, <4>2 DEF TagsIInv, CreatorSound
      <4> QED
        BY <4>1, <4>2
    <3>3. Authorized(v, m) => Authorized(v, m)'
      BY <2>4 DEF Authorized
    <3> QED
      BY <3>1, <3>2, <3>3 DEF CreatorSound, Authorized
  <2>11. ASSUME NEW m \in Names PROVE ParentSound(m)'
    <3>1. CASE m = n
      <4> SUFFICES ASSUME Len(n) > 1, ~req[r].stale PROVE Active(GetParentTagName(n))'
        BY <2>4, <3>1 DEF ParentSound
      <4>1. Active(GetParentTagName(n))
        BY <1>1, <2>2 DEF ReqSound
      <4> QED
        BY <2>7, <4>1 DEF Active
    <3>2. CASE m # n
      BY <2>7, <2>8, <3>2 DEF TagsIInv, ParentSound, Active
    <3> QED
      BY <3>1, <3>2
  <2> QED
    BY <2>5, <2>6, <2>9, <2>10, <2>11 DEF TagsIInv
<1> QED
  BY <1>2, <1>3

(* DeleteTag, the transaction: what stood at the tag is gone, and no active *)
(* tag is below unless somebody has written since.                          *)
LEMMA DeleteTagKeeps ==
  ASSUME TagsIInv, NEW r \in TagReqs, NEW n \in Names, DeleteTag(r, n) PROVE TagsIInv'
<1>1. /\ req[r].op = "deleteTag" /\ n \in req[r].tags /\ Done(r)
      /\ UNCHANGED <<creator, moderated>>
      /\ status' = [status EXCEPT ![n] = "inactive"]
      /\ late' = IF req[r].stale THEN late \cup Children(n) ELSE late
      /\ admins' = {a \in admins : a[1] # n}
      /\ feedTag' = [f \in Feeds |-> IF feedTag[f] = n THEN Gone ELSE feedTag[f]]
      /\ post' = [p \in Posts |-> [post[p] EXCEPT !.tags = @ \ {n}]]
  BY DEF DeleteTag, Written
<1>2. req' \in [TagReqs -> ReqRow] /\ served' = served /\ \A q \in TagReqs : ReqSound(q)'
  BY <1>1, DoneKeeps
<1>3. ASSUME NEW p \in Posts
      PROVE  /\ post'[p] \in PostRow /\ post'[p].tags = post[p].tags \ {n}
             /\ post'[p].st = post[p].st /\ post'[p].author = post[p].author
  <2>1. post[p] \in PostRow
    BY DEF TagsIInv, TagsTypeOK
  <2>2. post'[p] = [post[p] EXCEPT !.tags = post[p].tags \ {n}]
    BY <1>1
  <2> QED
    BY <2>1, <2>2 DEF PostRow
<1>4. TagsTypeOK'
  <2>1. post' \in [Posts -> PostRow]
    BY <1>1, <1>3
  <2>2. status' \in [Names -> {"none", "active", "inactive"}]
    BY <1>1 DEF TagsIInv, TagsTypeOK
  <2>3. feedTag' \in [Feeds -> Names \cup {NoTag, Gone}]
    BY <1>1 DEF TagsIInv, TagsTypeOK
  <2>4. late' \subseteq Names /\ admins' \subseteq Names \X TagUsers
    BY <1>1 DEF TagsIInv, TagsTypeOK, Children, Below
  <2> QED
    BY <1>1, <1>2, <2>1, <2>2, <2>3, <2>4 DEF TagsIInv, TagsTypeOK
<1>5. /\ \A m \in Names \ {n} : status'[m] = status[m]
      /\ status'[n] = "inactive" /\ late \subseteq late'
  BY <1>1 DEF TagsIInv, TagsTypeOK
<1>6. \A m : m # n /\ KnownTag(m) => KnownTag(m)'
  BY <1>5 DEF KnownTag, Active
<1>7. \A p \in Posts : PostSound(p)'
  BY <1>3, <1>6 DEF TagsIInv, PostSound
<1>8. \A f \in Feeds : FeedSound(f)'
  BY <1>1, <1>6, NamesAssumption DEF TagsIInv, FeedSound
<1>9. \A a \in admins' : AdminSound(a)'
  BY <1>1, <1>6 DEF TagsIInv, AdminSound
<1>10. \A m \in Names : CreatorSound(m)'
  BY <1>1 DEF TagsIInv, CreatorSound, Authorized
<1>11. ASSUME NEW m \in Names PROVE ParentSound(m)'
  <2> SUFFICES ASSUME Active(m)', Len(m) > 1, m \notin late' PROVE Active(GetParentTagName(m))'
    BY DEF ParentSound
  <2>1. Active(m) /\ m \notin late /\ m # n
    BY <1>5 DEF Active
  <2>2. Active(GetParentTagName(m))
    BY <2>1 DEF TagsIInv, ParentSound
  <2>3. m \in Children(GetParentTagName(m)) /\ GetParentTagName(m) \in Names
    BY ParentIsAbove
  <2>4. GetParentTagName(m) # n
    <3> SUFFICES ASSUME m \in Children(n) PROVE FALSE
      BY <2>3
    <3>1. ~req[r].stale
      BY <1>1
    <3>2. ReqSound(r) /\ m \in Below(n)
      BY DEF TagsIInv, Children
    <3> QED
      BY <1>1, <2>1, <3>1, <3>2 DEF ReqSound
  <2> QED
    BY <1>5, <2>2, <2>3, <2>4 DEF Active
<1> QED
  BY <1>2, <1>4, <1>7, <1>8, <1>9, <1>10, <1>11 DEF TagsIInv

(* What keeps the tags, their creators and late as they are, changes posts, *)
(* feeds and admins only.                                                   *)
LEMMA TagsStay ==
  ASSUME TagsIInv, UNCHANGED <<status, creator>>, late \subseteq late', moderated \subseteq moderated'
  PROVE  /\ \A n \in Names : CreatorSound(n)'
         /\ \A n \in Names : ParentSound(n)'
         /\ \A n : KnownTag(n) => KnownTag(n)'
BY DEF TagsIInv, CreatorSound, ParentSound, Authorized, KnownTag, Active

(* createPostFull: the tags of the post were known when it was submitted.   *)
LEMMA CreatePostKeeps ==
  ASSUME TagsIInv, NEW r \in TagReqs, NEW p \in Posts, CreatePost(r, p) PROVE TagsIInv'
<1>1. PICK u, T : u = req[r].user /\ T = req[r].tags
  OBVIOUS
<1>2. /\ req[r].op = "submit" /\ Done(r)
      /\ post' = [post EXCEPT ![p] = [st |-> "shown", author |-> u, tags |-> T, recent |-> TRUE]]
      /\ late' = IF req[r].stale THEN late \cup T ELSE late
      /\ UNCHANGED <<status, creator, admins, feedTag, moderated>>
  BY <1>1 DEF CreatePost, Written
<1>3. req[r] \in ReqRow /\ ReqSound(r)
  BY DEF TagsIInv, TagsTypeOK
<1>4. u \in TagUsers /\ T \subseteq Names
  BY <1>1, <1>2, <1>3 DEF ReqSound, ReqRow
<1>5. req' \in [TagReqs -> ReqRow] /\ served' = served /\ \A q \in TagReqs : ReqSound(q)'
  BY <1>2, DoneKeeps
<1>6. /\ \A n \in Names : CreatorSound(n)'
      /\ \A n \in Names : ParentSound(n)'
      /\ \A n : KnownTag(n) => KnownTag(n)'
  BY <1>2, TagsStay
<1> DEFINE row == [st |-> "shown", author |-> u, tags |-> T, recent |-> TRUE]
<1>7. row \in PostRow /\ row.author = u /\ row.tags = T
  BY <1>4 DEF PostRow
<1>8. post' = [post EXCEPT ![p] = row]
  BY <1>2
<1> HIDE DEF row
<1>9. TagsTypeOK'
  BY <1>2, <1>4, <1>5, <1>7, <1>8 DEF TagsIInv, TagsTypeOK
<1>10. \A n \in T : KnownTag(n)'
  BY <1>1, <1>2, <1>3, <1>6 DEF ReqSound, KnownTag
<1>11. ASSUME NEW x \in Posts PROVE PostSound(x)'
  <2>1. CASE x = p
    <3>1. post'[x] = row
      BY <1>8, <2>1 DEF TagsIInv, TagsTypeOK
    <3> QED
      BY <1>4, <1>7, <1>10, <3>1 DEF PostSound
  <2>2. CASE x # p
    <3>1. post'[x] = post[x]
      BY <1>8, <2>2 DEF TagsIInv, TagsTypeOK
    <3> QED
      BY <1>6, <3>1 DEF TagsIInv, PostSound
  <2> QED
    BY <2>1, <2>2
<1>12. /\ \A f \in Feeds : FeedSound(f)'
       /\ \A a \in admins : AdminSound(a)'
       /\ admins' = admins
  BY <1>2, <1>6 DEF TagsIInv, FeedSound, AdminSound
<1> QED
  BY <1>5, <1>6, <1>9, <1>11, <1>12 DEF TagsIInv

(* AddTagAdmin and RemoveTagAdmin: an admin added to a deleted tag makes    *)
(* the tag a late one.                                                      *)
LEMMA TagAdminsKeep ==
  ASSUME TagsIInv, NEW u \in People, NEW v \in People, NEW n \in Names,
         AddTagAdmin(u, n, v) \/ RemoveTagAdmin(u, n, v)
  PROVE  TagsIInv'
<1>1. v \in TagUsers
  BY DEF People
<1>2. /\ UNCHANGED <<status, creator, post, feedTag, req>>
      /\ served < MaxServed /\ served' = served + 1
      /\ late \subseteq late' /\ late' \subseteq late \cup {n}
      /\ moderated \subseteq moderated' /\ moderated' \subseteq moderated \cup {<<n, v>>}
      /\ admins' \subseteq admins \cup {<<n, v>>}
  BY DEF AddTagAdmin, RemoveTagAdmin, Serve
<1>3. <<n, v>> \in admins' => KnownTag(n)' /\ <<n, v>> \in moderated'
  BY DEF AddTagAdmin, RemoveTagAdmin, KnownTag, Active
<1>4. /\ \A m \in Names : CreatorSound(m)'
      /\ \A m \in Names : ParentSound(m)'
      /\ \A m : KnownTag(m) => KnownTag(m)'
  BY <1>2, TagsStay
<1>5. \A q \in TagReqs : ReqSound(q)'
  BY <1>2, RequestsKeep
<1>6. TagsTypeOK'
  BY <1>1, <1>2, ServedAssumption DEF TagsIInv, TagsTypeOK
<1>7. /\ \A p \in Posts : PostSound(p)'
      /\ \A f \in Feeds : FeedSound(f)'
  BY <1>2, <1>4 DEF TagsIInv, PostSound, FeedSound
<1>8. ASSUME NEW a \in admins' PROVE AdminSound(a)'
  <2>1. CASE a \in admins
    BY <1>2, <1>4, <2>1 DEF TagsIInv, AdminSound
  <2>2. CASE a = <<n, v>>
    <3>1. a[1] = n
      BY <2>2
    <3> QED
      BY <1>3, <2>2, <3>1 DEF AdminSound
  <2> QED
    BY <1>2, <2>1, <2>2
<1> QED
  BY <1>4, <1>5, <1>6, <1>7, <1>8 DEF TagsIInv

(* The author of a post, or a moderator, takes a tag off it.                *)
LEMMA RemoveTagKeeps ==
  ASSUME TagsIInv, NEW r \in TagReqs, RemoveTagFromPost(r) PROVE TagsIInv'
<1>1. PICK o, T : o = req[r].on /\ T = req[r].tags
  OBVIOUS
<1>2. /\ Done(r) /\ post' = [post EXCEPT ![o].tags = @ \ T]
      /\ UNCHANGED <<status, creator, admins, feedTag, late, moderated>>
  BY <1>1 DEF RemoveTagFromPost
<1>3. /\ req' \in [TagReqs -> ReqRow] /\ served' = served
      /\ \A q \in TagReqs : ReqSound(q)'
  BY <1>2, DoneKeeps
<1>4. ASSUME NEW x \in Posts
      PROVE  /\ post'[x] \in PostRow /\ post'[x].tags \subseteq post[x].tags
             /\ post'[x].st = post[x].st /\ post'[x].author = post[x].author
  <2>1. post[x] \in PostRow /\ post \in [Posts -> PostRow]
    BY DEF TagsIInv, TagsTypeOK
  <2>2. post'[x] = IF x = o THEN [post[x] EXCEPT !.tags = post[x].tags \ T] ELSE post[x]
    BY <1>2, <2>1
  <2> QED
    BY <2>1, <2>2 DEF PostRow
<1>5. post' \in [Posts -> PostRow]
  <2>1. post' = [x \in Posts |-> post'[x]]
    BY <1>2 DEF TagsIInv, TagsTypeOK
  <2> QED
    BY <1>4, <2>1
<1>6. TagsTypeOK'
  BY <1>2, <1>3, <1>5 DEF TagsIInv, TagsTypeOK
<1>7. /\ \A n \in Names : CreatorSound(n)'
      /\ \A n \in Names : ParentSound(n)'
      /\ \A n : KnownTag(n) => KnownTag(n)'
  BY <1>2, TagsStay
<1>8. /\ \A p \in Posts : PostSound(p)'
      /\ \A f \in Feeds : FeedSound(f)'
      /\ \A a \in admins : AdminSound(a)'
      /\ admins' = admins
  BY <1>2, <1>4, <1>7 DEF TagsIInv, PostSound, FeedSound, AdminSound
<1> QED
  BY <1>3, <1>6, <1>7, <1>8 DEF TagsIInv

(* DeletePost, and the passing of time.                                     *)
LEMMA PostChangesKeep ==
  ASSUME TagsIInv, NEW p \in Posts, GetOld(p) \/ \E u \in People : DeletePost(u, p) PROVE TagsIInv'
<1>1. /\ UNCHANGED <<status, creator, admins, feedTag, req, served, late, moderated>>
      /\ \/ post' = [post EXCEPT ![p].recent = FALSE]
         \/ post[p].st # "none" /\ post' = [post EXCEPT ![p].st = "deleted"]
  BY DEF GetOld, DeletePost
<1>2. ASSUME NEW x \in Posts
      PROVE  /\ post'[x] \in PostRow /\ post'[x].tags = post[x].tags
             /\ post'[x].st # "none" => post[x].st # "none"
             /\ post'[x].author = post[x].author
  <2>1. post[x] \in PostRow /\ post \in [Posts -> PostRow]
    BY DEF TagsIInv, TagsTypeOK
  <2>2. \/ post'[x] = post[x]
        \/ post'[x] = [post[x] EXCEPT !.recent = FALSE]
        \/ post[x].st # "none" /\ post'[x] = [post[x] EXCEPT !.st = "deleted"]
    BY <1>1, <2>1
  <2> QED
    BY <2>1, <2>2 DEF PostRow
<1>3. post' \in [Posts -> PostRow]
  <2>1. post' = [x \in Posts |-> post'[x]]
    BY <1>1 DEF TagsIInv, TagsTypeOK
  <2> QED
    BY <1>2, <2>1
<1>4. TagsTypeOK'
  BY <1>1, <1>3 DEF TagsIInv, TagsTypeOK
<1>5. /\ \A n \in Names : CreatorSound(n)'
      /\ \A n \in Names : ParentSound(n)'
      /\ \A n : KnownTag(n) => KnownTag(n)'
  BY <1>1, TagsStay
<1>6. \A q \in TagReqs : ReqSound(q)'
  BY <1>1, RequestsKeep
<1>7. /\ \A x \in Posts : PostSound(x)'
      /\ \A f \in Feeds : FeedSound(f)'
      /\ \A a \in admins : AdminSound(a)'
      /\ admins' = admins
  BY <1>1, <1>2, <1>5 DEF TagsIInv, PostSound, FeedSound, AdminSound
<1> QED
  BY <1>4, <1>5, <1>6, <1>7 DEF TagsIInv

(* Feeds come and go; one added to a deleted tag makes the tag a late one.  *)
LEMMA FeedChangesKeep ==
  ASSUME TagsIInv, NEW r \in TagReqs,
         DeleteFeedRow(r) \/ \E n \in Names, f \in Feeds : CreateTagFeed(r, f, n)
  PROVE  TagsIInv'
<1>1. PICK o, n : /\ Done(r) /\ UNCHANGED <<status, creator, admins, post, moderated>>
                  /\ feedTag' = [feedTag EXCEPT ![o] = n]
                  /\ late \subseteq late' /\ late' \subseteq Names
                  /\ n = Gone \/ (n \in Names /\ KnownTag(n)')
  <2>1. CASE DeleteFeedRow(r)
    BY <2>1 DEF DeleteFeedRow, TagsIInv, TagsTypeOK
  <2>2. ASSUME NEW n \in Names, NEW f \in Feeds, CreateTagFeed(r, f, n)
        PROVE  /\ Done(r) /\ UNCHANGED <<status, creator, admins, post, moderated>>
               /\ feedTag' = [feedTag EXCEPT ![f] = n]
               /\ late \subseteq late' /\ late' \subseteq Names
               /\ KnownTag(n)'
    BY <2>2 DEF CreateTagFeed, TagsIInv, TagsTypeOK, KnownTag, Active
  <2> QED
    BY <2>1, <2>2
<1>2. /\ req' \in [TagReqs -> ReqRow] /\ served' = served
      /\ \A q \in TagReqs : ReqSound(q)'
  BY <1>1, DoneKeeps
<1>3. /\ \A m \in Names : CreatorSound(m)'
      /\ \A m \in Names : ParentSound(m)'
      /\ \A m : KnownTag(m) => KnownTag(m)'
  BY <1>1, TagsStay
<1>4. feedTag' \in [Feeds -> Names \cup {NoTag, Gone}]
  BY <1>1 DEF TagsIInv, TagsTypeOK
<1>5. TagsTypeOK'
  BY <1>1, <1>2, <1>4 DEF TagsIInv, TagsTypeOK
<1>6. ASSUME NEW f \in Feeds PROVE FeedSound(f)'
  <2>1. feedTag'[f] = feedTag[f] \/ feedTag'[f] = n
    BY <1>1 DEF TagsIInv, TagsTypeOK
  <2>2. PICK m : m = feedTag'[f]
    OBVIOUS
  <2>3. m \in Names => KnownTag(m)'
    BY <1>1, <1>3, <2>1, <2>2, NamesAssumption DEF TagsIInv, FeedSound
  <2> QED
    BY <2>2, <2>3 DEF FeedSound, KnownTag, Active
<1>7. /\ \A p \in Posts : PostSound(p)'
      /\ \A a \in admins : AdminSound(a)'
      /\ admins' = admins
  BY <1>1, <1>3 DEF TagsIInv, PostSound, AdminSound
<1> QED
  BY <1>2, <1>3, <1>5, <1>6, <1>7 DEF TagsIInv

(* Every request preserves the invariant, whatever comes between its checks *)
(* and its write.                                                           *)
LEMMA TagsNextIInv == TagsIInv /\ [TagsNext]_tagVars => TagsIInv'
<1> SUFFICES ASSUME TagsIInv, [TagsNext]_tagVars PROVE TagsIInv'
  OBVIOUS
<1>1. CASE UNCHANGED tagVars
  BY <1>1 DEF tagVars, TagsIInv, TagsTypeOK, ReqSound, PostSound, FeedSound, AdminSound,
              CreatorSound, ParentSound, Authorized, KnownTag, Active
<1>2. CASE SeedTagCreators
  BY <1>2, SeedKeeps
<1>3. ASSUME NEW r \in TagReqs, NEW u \in People, NEW n \in Names,
             \/ CreateTagSubmit(r, u, n)
             \/ DeleteTagSubmit(r, u, n)
             \/ AddTagFeed(r, u, n)
             \/ \E p \in Posts : RemovePostTag(r, u, p, n)
      PROVE  TagsIInv'
  BY <1>3, CreateTagSubmitKeeps, DeleteTagSubmitKeeps, OtherSubmitsKeep
<1>4. ASSUME NEW r \in TagReqs, NEW n \in Names,
             CreateTag(r, n) \/ DeleteTag(r, n) \/ \E f \in Feeds : CreateTagFeed(r, f, n)
      PROVE  TagsIInv'
  BY <1>4, CreateTagKeeps, DeleteTagKeeps, FeedChangesKeep
<1>5. ASSUME NEW u \in People, NEW v \in People, NEW n \in Names,
             AddTagAdmin(u, n, v) \/ RemoveTagAdmin(u, n, v)
      PROVE  TagsIInv'
  BY <1>5, TagAdminsKeep
<1>6. ASSUME NEW r \in TagReqs,
             \/ \E u \in People, names \in SUBSET Names : SubmitPost(r, u, names)
             \/ \E p \in Posts : CreatePost(r, p)
             \/ RemoveTagFromPost(r) \/ DeleteFeedRow(r)
             \/ \E f \in Feeds : PollTagFeed(r, f) \/ \E u \in People : DeleteTagFeed(r, u, f)
      PROVE  TagsIInv'
  BY <1>6, SubmitsKeep, CreatePostKeeps, RemoveTagKeeps, FeedChangesKeep, OtherSubmitsKeep
<1>7. ASSUME NEW p \in Posts, GetOld(p) \/ \E u \in People : DeletePost(u, p) PROVE TagsIInv'
  BY <1>7, PostChangesKeep
<1>8. CASE TagsNext
  BY <1>2, <1>3, <1>4, <1>5, <1>6, <1>7, <1>8 DEF TagsNext
<1> QED
  BY <1>1, <1>8

(* The tree of tags is in order but for the races that late names: no       *)
(* active subtag without its parent, no post, feed or admin at a deleted    *)
(* tag, no creator who never was a moderator above.                         *)
THEOREM AlwaysTagsConsistent == TagsSpec => []TagsConsistent
<1>1. TagsIInv => TagsConsistent
  <2> SUFFICES ASSUME TagsIInv PROVE TagsConsistent
    OBVIOUS
  <2>1. TagsTypeOK
    BY DEF TagsIInv
  <2>2. OrphansOnlyByRace
    BY DEF TagsIInv, ParentSound, OrphansOnlyByRace
  <2>3. DeletedTagEmpty
    <3> SUFFICES ASSUME NEW n \in Names, status[n] = "inactive", n \notin late
                 PROVE  /\ \A p \in Posts : n \notin post[p].tags
                        /\ \A f \in Feeds : feedTag[f] # n
                        /\ \A u \in TagUsers : <<n, u>> \notin admins
      BY DEF DeletedTagEmpty
    <3>1. ~KnownTag(n)
      BY DEF KnownTag, Active
    <3> QED
      BY <3>1 DEF TagsIInv, PostSound, FeedSound, AdminSound
  <2>4. SubtagAuthority
    BY DEF TagsIInv, CreatorSound, Authorized, SubtagAuthority
  <2> QED
    BY <2>1, <2>2, <2>3, <2>4 DEF TagsConsistent
<1> QED
  BY <1>1, TagsInitIInv, TagsNextIInv, PTL DEF TagsSpec

(* Every post that a visitor finds in a list is also on the page of an      *)
(* active tag, of its author and, if its link is plain, of its domain,      *)
(* unless one of its tags was written to too late.                          *)
THEOREM AlwaysListedIsBrowsable == TagsSpec => []ListedIsBrowsable
<1>1. TagsIInv => ListedIsBrowsable
  <2> SUFFICES ASSUME TagsIInv, NEW view \in {"new", "top", "hot"},
                      NEW p \in HomePage(NoUser, view, <<>>)
               PROVE  /\ \/ \E n \in Names : p \in TagDetailPage(n, "hot")
                         \/ post[p].tags \cap late # {}
                      /\ p \in GetUserPosts(post[p].author)
                      /\ LinkOf[p] # NoLink /\ LinkOf[p].plain =>
                           p \in GetPostsByDomain(LinkOf[p].domain)
    BY DEF ListedIsBrowsable
  <2>1. p \in Shown /\ p \in TagFilter(NoUser)
    BY DEF HomePage, GetNewestPosts, GetTopPosts, GetHotPosts
  <2>2. p \in Posts /\ post[p].st = "shown" /\ PostSound(p) /\ post[p] \in PostRow
    BY <2>1 DEF Shown, TagsIInv, TagsTypeOK
  <2>3. NoUser \notin SiteAdmins /\ NoUser \notin TagUsers
    BY TagUsersAssumption
  <2>4. PICK n \in post[p].tags : TRUE
    BY <2>1, <2>2, <2>3 DEF TagFilter, PostSound
  <2>5. n \in Names /\ KnownTag(n)
    BY <2>2, <2>4 DEF PostRow, PostSound
  <2>6. Active(n) => p \in TagDetailPage(n, "hot")
    BY <2>1, <2>4 DEF TagDetailPage, GetPosts, Tagged
  <2> QED
    BY <2>1, <2>2, <2>4, <2>5, <2>6 DEF KnownTag, GetUserPosts, GetPostsByDomain, LinkMatches
<1> QED
  BY <1>1, TagsInitIInv, TagsNextIInv, PTL DEF TagsSpec

(* The tags that the tags page and the pages of tags list are active, and   *)
(* the number beside each is that of the posts with it or a tag below.      *)
LEMMA ListedTags ==
  ASSUME NEW t \in GetRootTags \cup UNION {GetChildTags(n) : n \in {m \in Names : Active(m)}}
  PROVE  t.tag \in Names /\ Active(t.tag) /\ t.posts = DistinctPosts(t.tag)
<1>1. CASE t \in GetRootTags
  <2>1. PICK n \in Names : /\ Active(n) /\ Len(n) = 1
                           /\ t = [tag |-> n, posts |-> DistinctPosts(n),
                                   subtags |-> Cardinality({m \in Children(n) : Active(m)})]
    BY <1>1 DEF GetRootTags
  <2> QED
    BY <2>1
<1>2. CASE \E n \in Names : t \in GetChildTags(n)
  <2>1. PICK n \in Names : t \in GetChildTags(n)
    BY <1>2
  <2>2. PICK m \in Children(n) : /\ Active(m)
                                 /\ t = [tag |-> m, posts |-> DistinctPosts(m)]
    BY <2>1 DEF GetChildTags
  <2> QED
    BY <2>2 DEF Children, Below
<1> QED
  BY <1>1, <1>2

(* The number beside a tag is the number of posts on the tag's page, the    *)
(* views of that page and the filtered front page show the same posts, and  *)
(* the tag's feed has no others.                                            *)
THEOREM AlwaysTagPagesAgree == TagsSpec => []TagPagesAgree
<1>1. TagsIInv => TagPagesAgree
  <2> SUFFICES ASSUME TagsIInv,
                      NEW t \in GetRootTags \cup UNION {GetChildTags(n) : n \in {m \in Names : Active(m)}}
               PROVE  /\ t.posts = Cardinality(TagDetailPage(t.tag, "hot"))
                      /\ TagDetailPage(t.tag, "hot") = TagDetailPage(t.tag, "new")
                      /\ TagDetailPage(t.tag, "top") \subseteq TagDetailPage(t.tag, "hot")
                      /\ HomePage(NoUser, "hot", t.tag) = TagDetailPage(t.tag, "hot")
                      /\ TagsFeed(t.tag) \subseteq TagDetailPage(t.tag, "hot")
    BY DEF TagPagesAgree
  <2>1. PICK n \in Names : n = t.tag /\ Active(n) /\ t.posts = DistinctPosts(n)
    BY ListedTags
  <2>2. \A p \in Posts : post[p].tags \subseteq Names
    BY DEF TagsIInv, TagsTypeOK, PostRow
  <2>3. /\ TagDetailPage(n, "hot") = Tagged(n)
        /\ TagDetailPage(n, "new") = Tagged(n)
        /\ TagDetailPage(n, "top") \subseteq Tagged(n)
    BY <2>1 DEF TagDetailPage, GetPosts, GetPostsByTag
  <2>4. DistinctPosts(n) = Cardinality(Tagged(n))
    <3>1. Tagged(n) = {p \in Shown : \E m \in post[p].tags : m = n \/ IsStrictPrefix(n, m)}
      BY <2>2 DEF Tagged, Below, Shown
    <3> QED
      BY <3>1 DEF DistinctPosts
  <2>5. HomePage(NoUser, "hot", n) = Tagged(n)
    <3>1. n # <<>>
      BY NamesAssumption
    <3> QED
      BY <3>1 DEF HomePage, GetPosts
  <2>6. TagsFeed(n) \subseteq Tagged(n)
    <3>1. {c.tag : c \in GetChildTags(n)} \subseteq Below(n)
      BY DEF GetChildTags, Children
    <3> QED
      BY <3>1 DEF TagsFeed, GetPostsByTags, Tagged
  <2> QED
    BY <2>1, <2>3, <2>4, <2>5, <2>6
<1> QED
  BY <1>1, TagsInitIInv, TagsNextIInv, PTL DEF TagsSpec

(* A tag and those below it are finitely many. *)
LEMMA TagsBelowFinite ==
  ASSUME NEW n \in Names
  PROVE  IsFiniteSet({n} \cup Below(n))
<1>1. {n} \cup Below(n) \subseteq Names
  BY DEF Below
<1> QED
  BY <1>1, NamesAssumption, FS_Subset

(* What the API counts for a tag is never less than the posts on the tag's  *)
(* page: as deleting a tag takes it off its posts, every post on the page   *)
(* is in at least one of the pairs that are counted.                        *)
THEOREM AlwaysApiCountsEnough == TagsSpec => []ApiCountsEnough
<1>1. TagsIInv => ApiCountsEnough
  <2> SUFFICES ASSUME TagsIInv, NEW n \in Names, late \cap ({n} \cup Below(n)) = {}
               PROVE  GetAllTagsWithCounts(n) >= Cardinality(TagDetailPage(n, "hot"))
    BY DEF ApiCountsEnough
  <2> DEFINE T == {n} \cup Below(n)
             Page == TagDetailPage(n, "hot")
             Pairs == {x \in T \X Shown : Active(x[1]) /\ x[1] \in post[x[2]].tags}
             OnPage == {x \in Pairs : x[2] \in Page}
             PostOf == [x \in OnPage |-> x[2]]
  <2>1. IsFiniteSet(Pairs) /\ IsFiniteSet(OnPage)
    <3>1. IsFiniteSet(Shown)
      BY PostsAssumption, FS_Subset DEF Shown
    <3>2. IsFiniteSet(T \X Shown)
      BY <3>1, TagsBelowFinite, FS_Product
    <3>3. IsFiniteSet(Pairs)
      BY <3>2, FS_Subset
    <3> QED
      BY <3>3, FS_Subset
  <2>2. PostOf \in [OnPage -> Page]
    OBVIOUS
  <2>3. ASSUME NEW p \in Page PROVE \E x \in OnPage : PostOf[x] = p
    <3>1. p \in Tagged(n)
      BY DEF TagDetailPage, GetPosts
    <3>2. p \in Shown /\ p \in Posts /\ PostSound(p)
      BY <3>1 DEF Tagged, Shown, TagsIInv
    <3>3. PICK m \in post[p].tags : m \in T
      BY <3>1 DEF Tagged
    <3>4. Active(m)
      BY <3>2, <3>3 DEF PostSound, KnownTag
    <3>5. <<m, p>> \in OnPage
      BY <3>2, <3>3, <3>4
    <3> QED
      BY <3>5
  <2>4. PostOf \in Surjection(OnPage, Page)
    BY <2>2, <2>3 DEF Surjection
  <2>5. Cardinality(Page) <= Cardinality(OnPage) /\ IsFiniteSet(Page)
    BY <2>1, <2>4, FS_Surjection
  <2>6. Cardinality(OnPage) <= Cardinality(Pairs)
    BY <2>1, FS_Subset
  <2>7. /\ Cardinality(Page) \in Nat /\ Cardinality(OnPage) \in Nat
        /\ Cardinality(Pairs) \in Nat /\ GetAllTagsWithCounts(n) = Cardinality(Pairs)
    BY <2>1, <2>5, FS_CardinalityType DEF GetAllTagsWithCounts
  <2> HIDE DEF Page, OnPage, Pairs
  <2> QED
    BY <2>5, <2>6, <2>7 DEF Page
<1> QED
  BY <1>1, TagsInitIInv, TagsNextIInv, PTL DEF TagsSpec

(* The lists, tag pages and counts agree: what ListingsAgree says.          *)
THEOREM AlwaysListingsAgree == TagsSpec => []ListingsAgree
<1>1. ListedIsBrowsable /\ TagPagesAgree /\ ApiCountsEnough => ListingsAgree
  BY DEF ListingsAgree
<1> QED
  BY <1>1, AlwaysListedIsBrowsable, AlwaysTagPagesAgree, AlwaysApiCountsEnough, PTL

-----------------------------------------------------------------------------
(* Votes.                                                                   *)

Ballot(r) == <<tx[r].user, tx[r].item>>

Toggled(r) == IF tx[r].had THEN votes \ {Ballot(r)} ELSE votes \cup {Ballot(r)}

(* The write lock belongs to the one transaction that has written. *)
LockOwned ==
    /\ LockHeldByWriter
    /\ \A r \in Reqs : tx[r].pc \in {"score", "commit"} => lock = r /\ ~tx[r].stale

(* A snapshot that is not outdated still says what is committed. *)
SnapshotCurrent ==
    \A r \in Reqs : tx[r].pc # "idle" /\ ~tx[r].stale => (tx[r].had <=> Ballot(r) \in votes)

(* What the holder of the lock has changed so far. *)
PagesConsistent ==
    /\ lock = Nobody => newVotes = votes /\ newScore = score
    /\ \A r \in Reqs :
        /\ tx[r].pc = "score" => newVotes = Toggled(r) /\ newScore = score
        /\ tx[r].pc = "commit" =>
            /\ tx[r].item \in items
            /\ newVotes = Toggled(r)
            /\ newScore = [score EXCEPT ![tx[r].item] = Moved(@, tx[r].had)]
            /\ tx[r].reply = newScore[tx[r].item]

IInv ==
    /\ TypeOK
    /\ LockOwned
    /\ SnapshotCurrent
    /\ PagesConsistent
    /\ ScoreCountsVotes
    /\ NoOrphanVotes
-----------------------------------------------------------------------------
(* Nothing is committed yet. *)
LEMMA InitIInv == Init => IInv
<1> SUFFICES ASSUME Init PROVE IInv
  OBVIOUS
<1>1. TypeOK
  BY DEF Init, TypeOK, Tx, NoTx
<1>2. LockOwned /\ SnapshotCurrent /\ PagesConsistent /\ NoOrphanVotes
  BY DEF Init, LockOwned, LockHeldByWriter, SnapshotCurrent, PagesConsistent,
         NoOrphanVotes, NoTx
<1>3. ScoreCountsVotes
  <2> SUFFICES ASSUME NEW t \in Items PROVE score[t] = Cardinality(Voters(t))
    BY DEF ScoreCountsVotes
  <2>1. Voters(t) = {} /\ score[t] = 0
    BY DEF Init, Voters
  <2> QED
    BY <2>1, FS_EmptySet
<1> QED
  BY <1>1, <1>2, <1>3 DEF IInv

(* A transaction at work has all its fields. *)
LEMMA TxFields ==
  ASSUME TypeOK, NEW r \in Reqs, tx[r].pc # "idle"
  PROVE  /\ tx[r] \in [pc : {"write", "score", "commit"}, user : Users, item : Items,
                       had : BOOLEAN, stale : BOOLEAN, reply : Int]
         /\ tx[r].pc \in {"write", "score", "commit"} /\ tx[r].user \in Users
         /\ tx[r].item \in Items /\ tx[r].had \in BOOLEAN /\ tx[r].stale \in BOOLEAN
         /\ tx[r].reply \in Int
<1>1. tx[r] \in Tx
  BY DEF TypeOK
<1> QED
  BY <1>1 DEF Tx

(* Outdating the snapshots keeps everything else of the transactions. *)
LEMMA OutdatedTx ==
  ASSUME TypeOK
  PROVE  /\ Outdated(tx) \in [Reqs -> Tx]
         /\ \A r \in Reqs :
              /\ Outdated(tx)[r].pc = tx[r].pc
              /\ tx[r].pc # "idle" => Outdated(tx)[r].stale
<1> SUFFICES ASSUME NEW r \in Reqs
             PROVE  /\ Outdated(tx)[r] \in Tx
                    /\ Outdated(tx)[r].pc = tx[r].pc
                    /\ tx[r].pc # "idle" => Outdated(tx)[r].stale
  BY DEF Outdated
<1>1. CASE tx[r].pc = "idle"
  BY <1>1 DEF Outdated, TypeOK
<1>2. CASE tx[r].pc # "idle"
  <2>1. tx[r] \in [pc : {"write", "score", "commit"}, user : Users, item : Items,
                   had : BOOLEAN, stale : BOOLEAN, reply : Int]
    BY <1>2, TxFields
  <2> QED
    BY <1>2, <2>1 DEF Outdated, Tx
<1> QED
  BY <1>1, <1>2

(* Toggling the vote of one user moves the number of voters of the item by  *)
(* one and leaves the other items alone.                                    *)
LEMMA ToggleCounts ==
  ASSUME TypeOK, ScoreCountsVotes, NEW u \in Users, NEW t \in Items, NEW had \in BOOLEAN,
         had <=> <<u, t>> \in votes,
         votes' = IF had THEN votes \ {<<u, t>>} ELSE votes \cup {<<u, t>>},
         score' = [score EXCEPT ![t] = Moved(@, had)]
  PROVE  ScoreCountsVotes'
<1> SUFFICES ASSUME NEW x \in Items PROVE score'[x] = Cardinality(Voters(x)')
  BY DEF ScoreCountsVotes
<1>1. IsFiniteSet(Voters(x))
  BY FS_Subset, UsersFinite DEF Voters
<1>2. score[x] = Cardinality(Voters(x)) /\ score[x] \in Int
  BY DEF ScoreCountsVotes, TypeOK
<1>3. CASE x # t
  <2>1. Voters(x)' = Voters(x) /\ score'[x] = score[x]
    BY <1>3 DEF Voters, TypeOK
  <2> QED
    BY <1>2, <2>1
<1>4. CASE x = t /\ had
  <2>1. Voters(x)' = Voters(x) \ {u} /\ u \in Voters(x)
    BY <1>4 DEF Voters
  <2>2. score'[x] = score[x] - 1
    BY <1>4 DEF Moved, TypeOK
  <2>3. Cardinality(Voters(x) \ {u}) = Cardinality(Voters(x)) - 1
    BY <1>1, <2>1, FS_RemoveElement
  <2> QED
    BY <1>2, <2>1, <2>2, <2>3
<1>5. CASE x = t /\ ~had
  <2>1. Voters(x)' = Voters(x) \cup {u} /\ u \notin Voters(x)
    BY <1>5 DEF Voters
  <2>2. score'[x] = score[x] + 1
    BY <1>5 DEF Moved, TypeOK
  <2>3. Cardinality(Voters(x) \cup {u}) = Cardinality(Voters(x)) + 1
    BY <1>1, <2>1, FS_AddElement
  <2> QED
    BY <1>2, <2>1, <2>2, <2>3
<1> QED
  BY <1>3, <1>4, <1>5
-----------------------------------------------------------------------------
(* Writes of other parts of the program, among them new posts: they only    *)
(* outdate the snapshots.                                                   *)
LEMMA OtherCommitKeeps ==
  ASSUME IInv, lock = Nobody, tx' = Outdated(tx), items \subseteq items', items' \subseteq Items,
         UNCHANGED <<votes, score, lock, newVotes, newScore, ret>>
  PROVE  IInv'
<1>1. TypeOK' /\ \A r \in Reqs : /\ tx'[r].pc = tx[r].pc
                                 /\ tx[r].pc # "idle" => tx'[r].stale
  BY OutdatedTx DEF IInv, TypeOK
<1>2. \A r \in Reqs : tx[r].pc \notin {"score", "commit"}
  BY NobodyAssumption DEF IInv, LockOwned
<1>3. LockOwned' /\ SnapshotCurrent' /\ PagesConsistent'
  BY <1>1, <1>2 DEF IInv, LockOwned, LockHeldByWriter, SnapshotCurrent, PagesConsistent
<1>4. ScoreCountsVotes' /\ NoOrphanVotes'
  BY DEF IInv, ScoreCountsVotes, Voters, NoOrphanVotes
<1> QED
  BY <1>1, <1>3, <1>4 DEF IInv

(* The SELECT: the snapshot says what is committed. *)
LEMMA SelectVoteKeeps ==
  ASSUME IInv, NEW r \in Reqs, NEW u \in Users, NEW t \in Items, SelectVote(r, u, t)
  PROVE  IInv'
<1> DEFINE fresh(h) == [pc |-> "write", user |-> u, item |-> t, had |-> h,
                        stale |-> FALSE, reply |-> 0]
           new == fresh(<<u, t>> \in votes)
<1>1. /\ tx' = [tx EXCEPT ![r] = new] /\ ret' = [ret EXCEPT ![r] = NoReply]
      /\ UNCHANGED <<items, votes, score, lock, newVotes, newScore>>
  BY DEF SelectVote
<1>2. /\ new \in Tx /\ new.pc = "write" /\ new.user = u /\ new.item = t
      /\ (new.had <=> <<u, t>> \in votes) /\ ~new.stale
  <2>1. \A h \in BOOLEAN :
          /\ fresh(h) \in Tx /\ fresh(h).pc = "write" /\ fresh(h).user = u
          /\ fresh(h).item = t /\ fresh(h).had = h /\ fresh(h).stale = FALSE
    BY DEF Tx
  <2>2. (<<u, t>> \in votes) \in BOOLEAN
    OBVIOUS
  <2> HIDE DEF fresh
  <2> QED
    BY <2>1, <2>2, Zenon
<1> HIDE DEF new
<1>3. tx[r].pc = "idle"
  BY DEF SelectVote, NoTx
<1>4. tx'[r] = new /\ \A s \in Reqs : s # r => tx'[s] = tx[s]
  BY <1>1 DEF IInv, TypeOK
<1>5. TypeOK'
  BY <1>1, <1>2 DEF IInv, TypeOK
<1>6. LockOwned'
  BY <1>1, <1>2, <1>3, <1>4, NobodyAssumption DEF IInv, LockOwned, LockHeldByWriter, TypeOK
<1>7. SnapshotCurrent'
  BY <1>1, <1>2, <1>4 DEF IInv, SnapshotCurrent, Ballot
<1>8. PagesConsistent'
  BY <1>1, <1>2, <1>4 DEF IInv, PagesConsistent, Toggled, Ballot
<1>9. ScoreCountsVotes' /\ NoOrphanVotes'
  BY <1>1 DEF IInv, ScoreCountsVotes, Voters, NoOrphanVotes
<1> QED
  BY <1>5, <1>6, <1>7, <1>8, <1>9 DEF IInv

(* A step of the transaction r that keeps what it is about. *)
LEMMA AdvanceTx ==
  ASSUME TypeOK, NEW r \in Reqs, tx[r].pc # "idle", NEW pc \in {"score", "commit"},
         NEW n \in Int, tx' = [tx EXCEPT ![r].pc = pc, ![r].reply = n]
  PROVE  /\ tx' \in [Reqs -> Tx]
         /\ tx'[r].pc = pc /\ tx'[r].user = tx[r].user /\ tx'[r].item = tx[r].item
         /\ tx'[r].had = tx[r].had /\ tx'[r].stale = tx[r].stale /\ tx'[r].reply = n
         /\ \A s \in Reqs : s # r => tx'[s] = tx[s]
<1>1. tx[r] \in [pc : {"write", "score", "commit"}, user : Users, item : Items,
                 had : BOOLEAN, stale : BOOLEAN, reply : Int]
  BY TxFields
<1>2. tx \in [Reqs -> Tx]
  BY DEF TypeOK
<1>3. tx' = [tx EXCEPT ![r] = [tx[r] EXCEPT !.pc = pc, !.reply = n]]
  BY <1>1, <1>2
<1>4. [tx[r] EXCEPT !.pc = pc, !.reply = n] \in Tx
  BY <1>1 DEF Tx
<1> QED
  BY <1>1, <1>2, <1>3, <1>4

(* The first write: on top of a current snapshot. *)
LEMMA WriteVoteKeeps ==
  ASSUME IInv, NEW r \in Reqs, WriteVote(r)
  PROVE  IInv'
<1>1. /\ tx[r].pc = "write" /\ lock = Nobody /\ ~tx[r].stale /\ lock' = r
      /\ newVotes' = IF tx[r].had THEN newVotes \ {Ballot(r)} ELSE newVotes \cup {Ballot(r)}
      /\ tx' = [tx EXCEPT ![r].pc = "score"]
      /\ UNCHANGED <<items, votes, score, newScore, ret>>
  BY DEF WriteVote, MayWrite, Ballot
<1>2. /\ tx[r].user \in Users /\ tx[r].item \in Items /\ tx[r].reply \in Int
      /\ tx[r] \in [pc : {"write", "score", "commit"}, user : Users, item : Items,
                    had : BOOLEAN, stale : BOOLEAN, reply : Int]
  BY <1>1, TxFields DEF IInv
<1>3. tx' = [tx EXCEPT ![r].pc = "score", ![r].reply = tx[r].reply]
  BY <1>1, <1>2 DEF IInv, TypeOK
<1>4. /\ tx' \in [Reqs -> Tx]
      /\ tx'[r].pc = "score" /\ tx'[r].user = tx[r].user /\ tx'[r].item = tx[r].item
      /\ tx'[r].had = tx[r].had /\ tx'[r].stale = tx[r].stale
      /\ \A s \in Reqs : s # r => tx'[s] = tx[s]
  BY ZenonT(40), <1>1, <1>2, <1>3, AdvanceTx DEF IInv
<1>5. \A s \in Reqs : tx[s].pc \notin {"score", "commit"}
  BY <1>1, NobodyAssumption DEF IInv, LockOwned
<1>6. TypeOK'
  BY <1>1, <1>2, <1>4 DEF IInv, TypeOK, Ballot
<1>7. LockOwned'
  BY <1>1, <1>4, <1>5 DEF LockOwned, LockHeldByWriter
<1>8. SnapshotCurrent'
  BY <1>1, <1>4 DEF IInv, SnapshotCurrent, Ballot
<1>9. PagesConsistent'
  BY <1>1, <1>4, <1>5, NobodyAssumption DEF IInv, PagesConsistent, Toggled, Ballot
<1>10. ScoreCountsVotes' /\ NoOrphanVotes'
  BY <1>1 DEF IInv, ScoreCountsVotes, Voters, NoOrphanVotes
<1> QED
  BY <1>6, <1>7, <1>8, <1>9, <1>10 DEF IInv
(* The second write: the score follows the vote. *)
LEMMA UpdateScoreKeeps ==
  ASSUME IInv, NEW r \in Reqs, UpdateScore(r)
  PROVE  IInv'
<1> DEFINE n == newScore'[tx[r].item]
<1>1. /\ tx[r].pc = "score" /\ tx[r].item \in items
      /\ newScore' = [newScore EXCEPT ![tx[r].item] = Moved(@, tx[r].had)]
      /\ tx' = [tx EXCEPT ![r].pc = "commit", ![r].reply = n]
      /\ UNCHANGED <<items, votes, score, lock, newVotes, ret>>
  BY DEF UpdateScore
<1>2. tx[r].item \in Items /\ lock = r /\ ~tx[r].stale
  BY <1>1, TxFields DEF IInv, LockOwned
<1>3. newScore' \in [Items -> Int] /\ n \in Int
  BY <1>1, <1>2 DEF IInv, TypeOK, Moved
<1> HIDE DEF n
<1>4. /\ tx' \in [Reqs -> Tx]
      /\ tx'[r].pc = "commit" /\ tx'[r].user = tx[r].user /\ tx'[r].item = tx[r].item
      /\ tx'[r].had = tx[r].had /\ tx'[r].stale = tx[r].stale /\ tx'[r].reply = n
      /\ \A s \in Reqs : s # r => tx'[s] = tx[s]
  BY <1>1, <1>3, AdvanceTx DEF IInv
<1>5. \A s \in Reqs : s # r => tx[s].pc \notin {"score", "commit"}
  BY <1>2 DEF IInv, LockOwned
<1>6. TypeOK'
  BY <1>1, <1>3, <1>4 DEF IInv, TypeOK
<1>7. LockOwned'
  BY <1>1, <1>2, <1>4 DEF IInv, LockOwned, LockHeldByWriter
<1>8. SnapshotCurrent'
  BY <1>1, <1>4 DEF IInv, SnapshotCurrent, Ballot
<1>9. PagesConsistent'
  <2>1. newVotes = Toggled(r) /\ newScore = score
    BY <1>1 DEF IInv, PagesConsistent
  <2>2. newVotes' = Toggled(r)'
    BY <1>1, <1>4, <2>1 DEF Toggled, Ballot
  <2>3. newScore' = [score' EXCEPT ![tx'[r].item] = Moved(@, tx'[r].had)]
    BY <1>1, <1>4, <2>1
  <2>4. tx'[r].reply = newScore'[tx'[r].item]
    BY <1>4 DEF n
  <2>5. lock' # Nobody /\ tx'[r].item \in items'
    BY <1>1, <1>2, <1>4, NobodyAssumption
  <2>6. \A s \in Reqs : tx'[s].pc \in {"score", "commit"} => s = r
    BY <1>4, <1>5
  <2> QED
    BY <1>4, <2>2, <2>3, <2>4, <2>5, <2>6 DEF PagesConsistent
<1>10. ScoreCountsVotes' /\ NoOrphanVotes'
  BY <1>1 DEF IInv, ScoreCountsVotes, Voters, NoOrphanVotes
<1> QED
  BY <1>6, <1>7, <1>8, <1>9, <1>10 DEF IInv

(* What a commit installs. *)
LEMMA CommitToggles ==
  ASSUME IInv, NEW r \in Reqs, Commit(r)
  PROVE  /\ tx[r].user \in Users /\ tx[r].item \in items /\ tx[r].item \in Items
         /\ tx[r].had \in BOOLEAN
         /\ tx[r].had <=> Ballot(r) \in votes
         /\ votes' = Toggled(r)
         /\ score' = [score EXCEPT ![tx[r].item] = Moved(@, tx[r].had)]
         /\ tx[r].reply = score'[tx[r].item]
         /\ tx[r].reply \in Int
<1>1. tx[r].pc = "commit" /\ votes' = newVotes /\ score' = newScore
  BY DEF Commit
<1>2. ~tx[r].stale
  BY <1>1 DEF IInv, LockOwned
<1> QED
  BY <1>1, <1>2, TxFields DEF IInv, SnapshotCurrent, PagesConsistent

(* The commit: vote and score appear together. *)
LEMMA CommitKeeps ==
  ASSUME IInv, NEW r \in Reqs, Commit(r)
  PROVE  IInv'
<1>1. /\ tx[r].pc = "commit" /\ votes' = newVotes /\ score' = newScore /\ lock' = Nobody
      /\ tx' = [Outdated(tx) EXCEPT ![r] = NoTx]
      /\ ret' = [ret EXCEPT ![r] =
           [user |-> tx[r].user, item |-> tx[r].item, score |-> tx[r].reply,
            voted |-> ~tx[r].had]]
      /\ UNCHANGED <<items, newVotes, newScore>>
  BY DEF Commit
<1>2. /\ Outdated(tx) \in [Reqs -> Tx]
      /\ \A s \in Reqs : /\ Outdated(tx)[s].pc = tx[s].pc
                         /\ tx[s].pc # "idle" => Outdated(tx)[s].stale
  BY OutdatedTx DEF IInv
<1>3. \A s \in Reqs : \/ tx'[s].pc = "idle"
                      \/ tx'[s].pc = tx[s].pc /\ tx'[s].stale /\ s # r
  BY <1>1, <1>2 DEF NoTx
<1>4. \A s \in Reqs : tx'[s].pc \notin {"score", "commit"}
  BY <1>1, <1>3 DEF IInv, LockOwned
<1>5. TypeOK'
  <2>1. tx' \in [Reqs -> Tx]
    BY <1>1, <1>2 DEF Tx, NoTx
  <2>2. \A h \in BOOLEAN :
          [user |-> tx[r].user, item |-> tx[r].item, score |-> tx[r].reply,
           voted |-> h] \in Reply
    BY CommitToggles DEF Reply
  <2>3. ret' \in [Reqs -> Reply \cup {NoReply}]
    <3>1. (~tx[r].had) \in BOOLEAN
      OBVIOUS
    <3>2. [user |-> tx[r].user, item |-> tx[r].item, score |-> tx[r].reply,
           voted |-> ~tx[r].had] \in Reply
      BY <2>2, <3>1, Zenon
    <3> QED
      BY <1>1, <3>2 DEF IInv, TypeOK
  <2> QED
    BY <1>1, <2>1, <2>3 DEF IInv, TypeOK
<1>6. LockOwned' /\ SnapshotCurrent' /\ PagesConsistent'
  BY <1>1, <1>3, <1>4 DEF LockOwned, LockHeldByWriter, SnapshotCurrent, PagesConsistent
<1>7. ScoreCountsVotes'
  BY CommitToggles, ToggleCounts DEF IInv, Toggled, Ballot
<1>8. NoOrphanVotes'
  <2>1. votes' = Toggled(r) /\ tx[r].item \in items /\ items' = items
    BY <1>1, CommitToggles
  <2>2. Ballot(r)[2] \in items
    BY <2>1 DEF Ballot
  <2>3. \A v \in votes' : v \in votes \/ v = Ballot(r)
    BY <2>1 DEF Toggled
  <2> QED
    BY <2>1, <2>2, <2>3 DEF IInv, NoOrphanVotes
<1> QED
  BY <1>5, <1>6, <1>7, <1>8 DEF IInv
(* A rollback: the lock is free and the pages are as committed. *)
LEMMA AbortKeeps ==
  ASSUME IInv, NEW r \in Reqs, Abort(r)
  PROVE  IInv'
<1>1. /\ tx[r].pc # "idle" /\ tx' = [tx EXCEPT ![r] = NoTx]
      /\ UNCHANGED <<items, votes, score, ret>>
  BY DEF Abort
<1>2. tx'[r].pc = "idle" /\ \A s \in Reqs : s # r => tx'[s] = tx[s]
  BY <1>1 DEF IInv, TypeOK, NoTx
<1>3. tx' \in [Reqs -> Tx]
  BY <1>1 DEF IInv, TypeOK, NoTx, Tx
<1>4. SnapshotCurrent'
  BY <1>1, <1>2 DEF IInv, SnapshotCurrent, Ballot
<1>5. ScoreCountsVotes' /\ NoOrphanVotes'
  BY <1>1 DEF IInv, ScoreCountsVotes, Voters, NoOrphanVotes
<1>6. CASE lock = r
  <2>1. lock' = Nobody /\ newVotes' = votes /\ newScore' = score
    BY <1>6 DEF Abort
  <2>2. \A s \in Reqs : tx'[s].pc \notin {"score", "commit"}
    BY <1>2, <1>6 DEF IInv, LockOwned
  <2>3. TypeOK'
    BY <1>1, <1>3, <2>1 DEF IInv, TypeOK
  <2>4. LockOwned' /\ PagesConsistent'
    BY <1>1, <2>1, <2>2 DEF LockOwned, LockHeldByWriter, PagesConsistent
  <2> QED
    BY <1>4, <1>5, <2>3, <2>4 DEF IInv
<1>7. CASE lock # r
  <2>1. UNCHANGED <<lock, newVotes, newScore>>
    BY <1>7 DEF Abort
  <2>2. TypeOK'
    BY <1>1, <1>3, <2>1 DEF IInv, TypeOK
  <2>3. LockOwned'
    BY <1>2, <1>7, <2>1 DEF IInv, TypeOK, LockOwned, LockHeldByWriter
  <2>4. PagesConsistent'
    BY <1>1, <1>2, <2>1 DEF IInv, PagesConsistent, Toggled, Ballot
  <2> QED
    BY <1>4, <1>5, <2>2, <2>3, <2>4 DEF IInv
<1> QED
  BY <1>6, <1>7

(* A crash leaves what was committed. *)
LEMMA CrashKeeps ==
  ASSUME IInv, Crash
  PROVE  IInv'
<1>1. TypeOK'
  BY DEF IInv, TypeOK, Crash, Tx, NoTx
<1>2. LockOwned' /\ SnapshotCurrent' /\ PagesConsistent'
  BY DEF Crash, NoTx, LockOwned, LockHeldByWriter, SnapshotCurrent, PagesConsistent
<1>3. ScoreCountsVotes' /\ NoOrphanVotes'
  BY DEF Crash, IInv, ScoreCountsVotes, Voters, NoOrphanVotes
<1> QED
  BY <1>1, <1>2, <1>3 DEF IInv

(* Every action preserves the invariant.                                    *)
LEMMA NextIInv == IInv /\ [Next]_vars => IInv'
<1> SUFFICES ASSUME IInv, [Next]_vars PROVE IInv'
  OBVIOUS
<1>1. CASE UNCHANGED vars
  BY <1>1 DEF vars, IInv, TypeOK, LockOwned, LockHeldByWriter, SnapshotCurrent,
       PagesConsistent, Toggled, Ballot, ScoreCountsVotes, Voters, NoOrphanVotes
<1>2. ASSUME NEW t \in Items, Create(t) PROVE IInv'
  BY <1>2, OtherCommitKeeps DEF Create, IInv, TypeOK
<1>3. CASE OtherWrite
  BY <1>3, OtherCommitKeeps DEF OtherWrite, IInv, TypeOK
<1>4. ASSUME NEW r \in Reqs, NEW u \in Users, NEW t \in Items, SelectVote(r, u, t)
      PROVE  IInv'
  BY <1>4, SelectVoteKeeps
<1>5. ASSUME NEW r \in Reqs, WriteVote(r) PROVE IInv'
  BY <1>5, WriteVoteKeeps
<1>6. ASSUME NEW r \in Reqs, UpdateScore(r) PROVE IInv'
  BY <1>6, UpdateScoreKeeps
<1>7. ASSUME NEW r \in Reqs, Commit(r) PROVE IInv'
  BY <1>7, CommitKeeps
<1>8. ASSUME NEW r \in Reqs, Abort(r) PROVE IInv'
  BY <1>8, AbortKeeps
<1>9. CASE Crash
  BY <1>9, CrashKeeps
<1> QED
  BY <1>1, <1>2, <1>3, <1>4, <1>5, <1>6, <1>7, <1>8, <1>9 DEF Next
-----------------------------------------------------------------------------
(* The invariant the theorems below rest on. *)
THEOREM Invariance == Spec => []IInv
<1> QED
  BY InitIInv, NextIInv, PTL DEF Spec

(* Every variable keeps its type. *)
THEOREM TypeCorrect == Spec => []TypeOK
<1>1. IInv => TypeOK
  BY DEF IInv
<1> QED
  BY <1>1, Invariance, PTL

(* Scores are vote counts, whatever transactions overlap, fail or are cut   *)
(* off by a crash.                                                          *)
THEOREM ScoresAreCounts == Spec => []ScoreCountsVotes
<1>1. IInv => ScoreCountsVotes
  BY DEF IInv
<1> QED
  BY <1>1, Invariance, PTL

(* A vote for an id that does not exist is never committed. *)
THEOREM VotesHaveItems == Spec => []NoOrphanVotes
<1>1. IInv => NoOrphanVotes
  BY DEF IInv
<1> QED
  BY <1>1, Invariance, PTL

(* The write lock is never left behind. *)
THEOREM LockReleased == Spec => []LockHeldByWriter
<1>1. IInv => LockHeldByWriter
  BY DEF IInv, LockOwned
<1> QED
  BY <1>1, Invariance, PTL

(* Together: votes and scores agree in every committed state, for any       *)
(* number of overlapping toggles, failures and crashes.                     *)
THEOREM ConsistentVotes == Spec => []VotesConsistent
<1>1. VotesConsistent <=> TypeOK /\ ScoreCountsVotes /\ NoOrphanVotes /\ LockHeldByWriter
  BY DEF VotesConsistent
<1> QED
  BY <1>1, TypeCorrect, ScoresAreCounts, VotesHaveItems, LockReleased, PTL

(* A commit is the atomic toggle of the abstract specification. *)
LEMMA CommitImplements ==
  ASSUME IInv, NEW r \in Reqs, Commit(r)
  PROVE  VoteCount!Toggle(r, tx[r].user, tx[r].item)
<1>1. /\ tx[r].item \in items /\ tx[r].item \in Items /\ tx[r].had \in BOOLEAN
      /\ tx[r].had <=> <<tx[r].user, tx[r].item>> \in votes
      /\ votes' = IF tx[r].had THEN votes \ {<<tx[r].user, tx[r].item>>}
                               ELSE votes \cup {<<tx[r].user, tx[r].item>>}
      /\ score' = [score EXCEPT ![tx[r].item] = Moved(@, tx[r].had)]
      /\ tx[r].reply = score'[tx[r].item]
  BY CommitToggles DEF Ballot, Toggled
<1>2. /\ ret' = [ret EXCEPT ![r] = [user |-> tx[r].user, item |-> tx[r].item,
                                    score |-> tx[r].reply, voted |-> ~tx[r].had]]
      /\ UNCHANGED items
  BY DEF Commit
<1>3. score' = [score EXCEPT ![tx[r].item] =
                  IF <<tx[r].user, tx[r].item>> \in votes THEN @ - 1 ELSE @ + 1]
  BY <1>1 DEF Moved
<1>4. (~tx[r].had) = (<<tx[r].user, tx[r].item>> \notin votes)
  BY <1>1
<1> QED
  BY <1>1, <1>2, <1>3, <1>4 DEF VoteCount!Toggle

(* toggleVote, with its snapshot, its lock and its failures, implements the *)
(* one-step toggle of MakhorVoteCount.                                      *)
THEOREM Refinement == Spec => ImplementsVoteCount
<1>1. Init => VoteCount!Init
  BY DEF Init, VoteCount!Init
<1>2. IInv /\ [Next]_vars => [VoteCount!Next]_(VoteCount!vars)
  <2> SUFFICES ASSUME IInv, [Next]_vars
               PROVE  VoteCount!Next \/ UNCHANGED VoteCount!vars
    BY DEF VoteCount!vars
  <2>1. ASSUME NEW t \in Items, Create(t) PROVE VoteCount!Next
    BY <2>1 DEF Create, VoteCount!Next, VoteCount!Create
  <2>2. ASSUME NEW r \in Reqs, NEW u \in Users, NEW t \in Items, SelectVote(r, u, t)
        PROVE  VoteCount!Next
    <3>1. ret' = [s \in Reqs |-> IF s \in {r} THEN NoReply ELSE ret[s]]
      BY <2>2 DEF SelectVote, IInv, TypeOK
    <3> QED
      BY <2>2, <3>1 DEF SelectVote, VoteCount!Next, VoteCount!Forget
  <2>3. ASSUME NEW r \in Reqs, Commit(r) PROVE VoteCount!Next
    <3>1. tx[r].user \in Users /\ tx[r].item \in Items
      BY <2>3, CommitToggles
    <3> QED
      BY <2>3, <3>1, CommitImplements DEF VoteCount!Next
  <2>4. CASE Crash
    <3>1. ret' = [s \in Reqs |-> IF s \in Reqs THEN NoReply ELSE ret[s]]
      BY <2>4 DEF Crash
    <3> QED
      BY <2>4, <3>1 DEF Crash, VoteCount!Next, VoteCount!Forget
  <2>5. CASE UNCHANGED <<items, votes, score, ret>>
    BY <2>5 DEF VoteCount!vars
  <2> QED
    BY <2>1, <2>2, <2>3, <2>4, <2>5
    DEF Next, vars, OtherWrite, WriteVote, UpdateScore, Abort
<1> QED
  BY <1>1, <1>2, Invariance, PTL DEF Spec, ImplementsVoteCount, VoteCount!Spec

=============================================================================
