---------------------------- MODULE MakhorSearch ----------------------------
(***************************************************************************)
(* Full-text search in makhor (tools/makhor, db/search.go): the FTS5 table *)
(* posts_fts, the triggers that keep it in step with posts, and setupFTS,  *)
(* which creates them one statement at a time when a server starts on a    *)
(* database without the table.  A statement may fail, which is logged and  *)
(* the server goes on, and the process may end between two statements; the *)
(* next start finds the table and does nothing more.                       *)
(*                                                                         *)
(* A text stands for the words of a title and body, and a query for the    *)
(* texts it matches.                                                       *)
(***************************************************************************)
EXTENDS Integers, FiniteSets, Sequences

CONSTANTS
    Docs,       \* post ids
    Texts,
    NoText      \* a post id not used yet

ASSUME TextsAssumption == NoText \notin Texts

VARIABLES
    text,       \* table posts: title and body
    removed,    \* posts with is_deleted
    fts,        \* does posts_fts exist?
    entries,    \* the entries of posts_fts
    triggers,   \* the triggers that exist
    setup,      \* how far setupFTS is, or "down"
    interrupted \* history: a setup did not come to its end

searchVars == <<text, removed, fts, entries, triggers, setup, interrupted>>

Steps == <<"table", "insert", "delete", "update", "populate">>
Stages == {"down", "check", "up"} \cup {Steps[k] : k \in 1..Len(Steps)}

(* An empty database, or one of a version without full-text search. *)
SearchInit ==
    /\ text \in [Docs -> Texts \cup {NoText}]
    /\ removed \in SUBSET {d \in Docs : text[d] # NoText}
    /\ fts = FALSE
    /\ entries = {}
    /\ triggers = {}
    /\ setup = "down"
    /\ interrupted = FALSE

-----------------------------------------------------------------------------
(* New, migrate. *)
StartServer ==
    /\ setup = "down"
    /\ setup' = "check"
    /\ UNCHANGED <<text, removed, fts, entries, triggers, interrupted>>

(* Does the table exist? *)
CheckTable ==
    /\ setup = "check"
    /\ setup' = IF fts THEN "up" ELSE "table"
    /\ UNCHANGED <<text, removed, fts, entries, triggers, interrupted>>

CreateTable ==
    /\ setup = "table"
    /\ fts' = TRUE
    /\ setup' = "insert"
    /\ UNCHANGED <<text, removed, entries, triggers, interrupted>>

CreateTrigger(k) ==
    /\ k \in 2..4 /\ setup = Steps[k]
    /\ triggers' = triggers \cup {Steps[k]}
    /\ setup' = Steps[k + 1]
    /\ UNCHANGED <<text, removed, fts, entries, interrupted>>

(* The posts that were there before, without the deleted ones. *)
Populate ==
    /\ setup = "populate"
    /\ entries' = entries \cup {<<d, text[d]>> : d \in {e \in Docs : text[e] # NoText} \ removed}
    /\ setup' = "up"
    /\ UNCHANGED <<text, removed, fts, triggers, interrupted>>

(* A statement of setupFTS fails: a warning is logged and the server runs.  *)
SetupFails ==
    /\ setup \in {Steps[k] : k \in 1..Len(Steps)}
    /\ setup' = "up"
    /\ interrupted' = (interrupted \/ fts)
    /\ UNCHANGED <<text, removed, fts, entries, triggers>>

(* The process ends. *)
StopServer ==
    /\ setup # "down"
    /\ setup' = "down"
    /\ interrupted' = (interrupted \/ setup \in {Steps[k] : k \in 2..Len(Steps)})
    /\ UNCHANGED <<text, removed, fts, entries, triggers>>

-----------------------------------------------------------------------------
(* posts_fts_insert and posts_fts_update. *)
AfterInsert(d, new) == IF "insert" \in triggers THEN entries \cup {<<d, new>>} ELSE entries

AfterUpdateKeep(d, new) ==
    IF "update" \in triggers THEN entries \cup {<<d, new>>} ELSE entries

AfterUpdate(d, new) ==
    IF "update" \in triggers THEN (entries \ {<<d, text[d]>>}) \cup {<<d, new>>} ELSE entries

InsertPost(d, t) ==
    /\ setup = "up" /\ text[d] = NoText
    /\ text' = [text EXCEPT ![d] = t]
    /\ entries' = AfterInsert(d, t)
    /\ UNCHANGED <<removed, fts, triggers, setup, interrupted>>

(* An edit.  A vote, which updates the score, is the case of the same text. *)
UpdatePost(d, t) ==
    /\ setup = "up" /\ text[d] # NoText
    /\ text' = [text EXCEPT ![d] = t]
    /\ entries' = AfterUpdate(d, t)
    /\ UNCHANGED <<removed, fts, triggers, setup, interrupted>>

(* DeletePost sets is_deleted, an update as well. *)
RemovePost(d) ==
    /\ setup = "up" /\ text[d] # NoText
    /\ removed' = removed \cup {d}
    /\ entries' = AfterUpdate(d, text[d])
    /\ UNCHANGED <<text, fts, triggers, setup, interrupted>>

SearchNext ==
    \/ StartServer \/ CheckTable \/ CreateTable \/ Populate \/ SetupFails \/ StopServer
    \/ \E k \in 2..4 : CreateTrigger(k)
    \/ \E d \in Docs, t \in Texts : InsertPost(d, t) \/ UpdatePost(d, t)
    \/ \E d \in Docs : RemovePost(d)

SearchSpec == SearchInit /\ [][SearchNext]_searchVars

-----------------------------------------------------------------------------
(* SearchPosts, the fallback on LIKE. *)
SearchPosts(t) == {d \in Docs \ removed : text[d] = t}

(* SearchPostsFTS. *)
SearchPostsFTS(t) ==
    IF fts THEN {d \in Docs \ removed : <<d, t>> \in entries} ELSE SearchPosts(t)

(* Type invariant. *)
SearchTypeOK ==
    /\ text \in [Docs -> Texts \cup {NoText}]
    /\ removed \subseteq {d \in Docs : text[d] # NoText}
    /\ entries \subseteq Docs \X Texts
    /\ triggers \subseteq {"insert", "delete", "update"}
    /\ setup \in Stages
    /\ fts \in BOOLEAN /\ interrupted \in BOOLEAN

(* While the server answers requests, a search finds exactly the posts with *)
(* that text that are not deleted, before and after edits and restarts; the *)
(* exception is a setup that was cut short once, which no restart repairs.  *)
SearchExact ==
    setup = "up" /\ ~interrupted => \A t \in Texts : SearchPostsFTS(t) = SearchPosts(t)

(* The index lists no post under two texts: the word a post no longer has   *)
(* does not find it.                                                        *)
OneEntryPerPost ==
    "update" \in triggers /\ ~interrupted =>
        \A a, b \in entries : a[1] = b[1] => a = b

-----------------------------------------------------------------------------
(* A search finds what is there and nothing else, through edits, deletions, *)
(* restarts and an interrupted setup.                                       *)
SearchTrue ==
    /\ SearchTypeOK
    /\ SearchExact
    /\ OneEntryPerPost
=============================================================================
