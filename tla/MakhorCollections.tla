-------------------------- MODULE MakhorCollections --------------------------
(***************************************************************************)
(* Collections in makhor (tools/makhor, db/collections.go and              *)
(* handlers/collections.go): a user's named set of tags and the page of    *)
(* the posts with one of them.                                             *)
(*                                                                         *)
(* Saving a collection is one statement per tag, outside a transaction, so *)
(* the saves of two browser windows interleave, also with a deletion.      *)
(* PRAGMA foreign_keys reaches one connection of the pool only: on the     *)
(* others a deletion does not cascade and an INSERT into a deleted         *)
(* collection is not refused.  Which connection a statement gets is not    *)
(* known, so both outcomes are modelled.  Any statement may fail, and the  *)
(* handlers drop the errors of those that read, remove or add tags; the    *)
(* process may also end within a save.                                     *)
(***************************************************************************)
EXTENDS Integers, FiniteSets

CONSTANTS
    Owners,     \* accounts
    NoOwner,    \* an id without a row
    MaxColl,    \* ids are 1..MaxColl, given out in order (AUTOINCREMENT)
    CollTags,   \* tags
    CollItems,      \* posts
    TagsOf,     \* the tags of each post
    Windows     \* request goroutines

ASSUME OwnersAssumption == NoOwner \notin Owners /\ "deleted" \notin Owners \cup {NoOwner}
ASSUME ItemsAssumption == MaxColl \in Nat /\ TagsOf \in [CollItems -> SUBSET CollTags]

VARIABLES
    owner,      \* table collections: the owner of each id, see Row
    tagRows,    \* table collection_tags
    job,        \* the saves in progress
    form,       \* history: the tags of the last save of a collection
    chosen,     \* history: all tags its owner ever saved in it
    mixed,      \* history: collections of which two saves overlapped
    failed      \* history: collections whose last save lost a statement

collVars == <<owner, tagRows, job, form, chosen, mixed, failed>>

Colls == 1..MaxColl
Deleted == "deleted"
Exists(c) == owner[c] \in Owners

(* A save: what is left to remove and to add. *)
NoJob == [on |-> 0, remove |-> {}, add |-> {}]
JobRow == [on : Colls \cup {0}, remove : SUBSET CollTags, add : SUBSET CollTags]

CollInit ==
    /\ owner = [c \in Colls |-> NoOwner]
    /\ tagRows = {}
    /\ job = [w \in Windows |-> NoJob]
    /\ form = [c \in Colls |-> {}]
    /\ chosen = [c \in Colls |-> {}]
    /\ mixed = {} /\ failed = {}

GetCollectionTags(c) == {t \in CollTags : <<c, t>> \in tagRows}

(* GetPostsForCollection, behind GetCollectionByID's test of the owner. *)
GetPostsForCollection(c) == {i \in CollItems : TagsOf[i] \cap GetCollectionTags(c) # {}}

CollectionDetailPage(u, c) == IF owner[c] = u THEN GetPostsForCollection(c) ELSE {}

-----------------------------------------------------------------------------
(* The id the INSERT gets: never one that has been used. *)
AnyFreeId(c) == ~Exists(c) /\ \A d \in 1..(c - 1) : Exists(d)
NextId(c) == owner[c] = NoOwner /\ \A d \in 1..(c - 1) : owner[d] # NoOwner

Begin(w, c, remove, add) ==
    /\ job[w].on = 0
    /\ job' = [job EXCEPT ![w] = [on |-> c, remove |-> remove, add |-> add]]
    /\ form' = [form EXCEPT ![c] = add]
    /\ mixed' = IF \E v \in Windows : job[v].on = c THEN mixed \cup {c} ELSE mixed

(* CreateCollectionSubmit: CreateCollection, and the tags are still to come *)
CreateCollectionSubmit(w, u, c, tags) ==
    /\ NextId(c)
    /\ owner' = [owner EXCEPT ![c] = u]
    /\ chosen' = [chosen EXCEPT ![c] = tags]
    /\ Begin(w, c, {}, tags)
    /\ UNCHANGED <<tagRows, failed>>

(* ... unless the row cannot be read back: "Failed to create collection".   *)
CreatedOnly(u, c, tags) ==
    /\ NextId(c)
    /\ owner' = [owner EXCEPT ![c] = u]
    /\ chosen' = [chosen EXCEPT ![c] = tags]
    /\ form' = [form EXCEPT ![c] = tags]
    /\ failed' = failed \cup {c}
    /\ UNCHANGED <<tagRows, job, mixed>>

(* EditCollectionSubmit: it will remove the tags it has read, and add those *)
(* of the form.  What GetCollectionTags fails to read is not missed.        *)
EditCollectionSubmit(w, u, c, tags) ==
    /\ owner[c] = u
    /\ chosen' = [chosen EXCEPT ![c] = @ \cup tags]
    /\ \E read \in SUBSET GetCollectionTags(c) :
         /\ Begin(w, c, read, tags)
         /\ failed' = IF read = GetCollectionTags(c) THEN failed \ {c} ELSE failed \cup {c}
    /\ UNCHANGED <<owner, tagRows>>

(* One statement; its error is ignored. *)
Execute(c, rows) ==
    \/ tagRows' = rows /\ UNCHANGED failed
    \/ UNCHANGED tagRows /\ failed' = failed \cup {c}

RemoveTagFromCollection(w, t) ==
    /\ t \in job[w].remove
    /\ Execute(job[w].on, tagRows \ {<<job[w].on, t>>})
    /\ job' = [job EXCEPT ![w].remove = @ \ {t}]
    /\ UNCHANGED <<owner, form, chosen, mixed>>

(* INSERT OR IGNORE. *)
AddTagToCollection(w, t) ==
    /\ job[w].remove = {} /\ t \in job[w].add
    /\ Execute(job[w].on, tagRows \cup {<<job[w].on, t>>})
    /\ job' = [job EXCEPT ![w].add = @ \ {t}]
    /\ UNCHANGED <<owner, form, chosen, mixed>>

Saved(w) ==
    /\ job[w].on # 0 /\ job[w].remove = {} /\ job[w].add = {}
    /\ job' = [job EXCEPT ![w] = NoJob]
    /\ UNCHANGED <<owner, tagRows, form, chosen, mixed, failed>>

(* The process ends, and with it the saves. *)
EndProcess ==
    /\ \E w \in Windows : job[w].on # 0
    /\ job' = [w \in Windows |-> NoJob]
    /\ failed' = failed \cup {c \in Colls : \E w \in Windows : job[w].on = c}
    /\ UNCHANGED <<owner, tagRows, form, chosen, mixed>>

(* DeleteCollectionSubmit, with or without the cascade. *)
DeleteCollectionSubmit(u, c) ==
    /\ owner[c] = u
    /\ owner' = [owner EXCEPT ![c] = Deleted]
    /\ tagRows' \in {tagRows, {row \in tagRows : row[1] # c}}
    /\ UNCHANGED <<job, form, chosen, mixed, failed>>

CollNext ==
    \/ \E w \in Windows, u \in Owners, c \in Colls, tags \in SUBSET CollTags :
         CreateCollectionSubmit(w, u, c, tags) \/ EditCollectionSubmit(w, u, c, tags)
    \/ \E u \in Owners, c \in Colls, tags \in SUBSET CollTags : CreatedOnly(u, c, tags)
    \/ \E w \in Windows, t \in CollTags :
         RemoveTagFromCollection(w, t) \/ AddTagToCollection(w, t)
    \/ \E w \in Windows : Saved(w)
    \/ \E u \in Owners, c \in Colls : DeleteCollectionSubmit(u, c)
    \/ EndProcess

CollSpec == CollInit /\ [][CollNext]_collVars

-----------------------------------------------------------------------------
(* Type invariant. *)
CollTypeOK ==
    /\ owner \in [Colls -> Owners \cup {NoOwner, Deleted}]
    /\ tagRows \subseteq Colls \X CollTags
    /\ job \in [Windows -> JobRow]
    /\ form \in [Colls -> SUBSET CollTags]
    /\ chosen \in [Colls -> SUBSET CollTags]
    /\ mixed \subseteq Colls /\ failed \subseteq Colls

(* The page of a collection shows only posts with a tag that its owner has  *)
(* put into this collection, although deletions leave rows behind and saves *)
(* come after a deletion: the ids of deleted collections are not reused.    *)
PageShowsChoice ==
    \A u \in Owners, c \in Colls :
        \A i \in CollectionDetailPage(u, c) : TagsOf[i] \cap chosen[c] # {}

(* Once its saves are done, and no two of them overlapped, a collection     *)
(* holds exactly the tags of the last form, unless a statement of that save *)
(* failed or the process ended within it; what an earlier save left behind  *)
(* is made good by the next one.                                            *)
SavedAsChosen ==
    \A c \in Colls \ (mixed \cup failed) :
        Exists(c) /\ (\A w \in Windows : job[w].on # c) =>
            GetCollectionTags(c) = form[c]

-----------------------------------------------------------------------------
(* A collection is what its owner chose, through saves from two windows and *)
(* deletions, and through statements that fail.                             *)
CollectionsAsChosen ==
    /\ CollTypeOK
    /\ PageShowsChoice
    /\ SavedAsChosen
=============================================================================
