--------------------------- MODULE MakhorRevisions ---------------------------
(***************************************************************************)
(* Edits of a post and its history in makhor (tools/makhor, db/posts.go    *)
(* UpdatePostWithRevision, handlers/posts.go EditPostSubmit).  The handler *)
(* reads the post, and a later transaction stores what it has read as a    *)
(* revision and writes the new text: an edit in between is overwritten.    *)
(* A draft stands for a title with a body.                                 *)
(***************************************************************************)
EXTENDS Integers, FiniteSets, SequencesExt

CONSTANTS
    Drafts,
    Original,   \* the text the post was published with
    NoDraft,
    Editors,    \* request goroutines
    MaxEdits    \* bound on edits, for model checking

ASSUME DraftsAssumption == Original \in Drafts /\ NoDraft \notin Drafts
ASSUME EditsAssumption == MaxEdits \in Nat /\ IsFiniteSet(Editors)

VARIABLES
    current,    \* title and body in table posts
    revisions,  \* table post_revisions
    edit,       \* the edits between their read and their transaction
    begun,      \* how many edits have begun
    shown,      \* history: the texts the post has had
    crossed     \* history: texts written while another edit was under way

revisionVars == <<current, revisions, edit, begun, shown, crossed>>

NoEdit == [old |-> NoDraft, new |-> NoDraft]

RevisionsInit ==
    /\ current = Original
    /\ revisions = <<>>
    /\ edit = [e \in Editors |-> NoEdit]
    /\ begun = 0
    /\ shown = {Original}
    /\ crossed = {}

-----------------------------------------------------------------------------
(* EditPostSubmit: without a change nothing is written. *)
EditPostSubmit(e, d) ==
    /\ edit[e] = NoEdit /\ begun < MaxEdits
    /\ d # current
    /\ edit' = [edit EXCEPT ![e] = [old |-> current, new |-> d]]
    /\ begun' = begun + 1
    /\ UNCHANGED <<current, revisions, shown, crossed>>

UpdateKeepingNew(e) ==
    /\ edit[e] # NoEdit
    /\ revisions' = Append(revisions, edit[e].new)
    /\ current' = edit[e].new
    /\ shown' = shown \cup {edit[e].new}
    /\ crossed' = IF \E f \in Editors \ {e} : edit[f] # NoEdit
                  THEN crossed \cup {edit[e].new} ELSE crossed
    /\ edit' = [edit EXCEPT ![e] = NoEdit]
    /\ UNCHANGED begun

(* The transaction ... *)
UpdatePostWithRevision(e) ==
    /\ edit[e] # NoEdit
    /\ revisions' = Append(revisions, edit[e].old)
    /\ current' = edit[e].new
    /\ shown' = shown \cup {edit[e].new}
    /\ crossed' = IF \E f \in Editors \ {e} : edit[f] # NoEdit
                  THEN crossed \cup {edit[e].new} ELSE crossed
    /\ edit' = [edit EXCEPT ![e] = NoEdit]
    /\ UNCHANGED begun

(* ... or its failure, or the end of the process: nothing is written. *)
EditFails(e) ==
    /\ edit[e] # NoEdit
    /\ edit' = [edit EXCEPT ![e] = NoEdit]
    /\ UNCHANGED <<current, revisions, begun, shown, crossed>>

RevisionsNext ==
    \E e \in Editors :
        UpdatePostWithRevision(e) \/ EditFails(e) \/ \E d \in Drafts : EditPostSubmit(e, d)

RevisionsSpec == RevisionsInit /\ [][RevisionsNext]_revisionVars

-----------------------------------------------------------------------------
GetPostRevisions == ToSet(revisions)

(* Type invariant. *)
RevisionsTypeOK ==
    /\ current \in Drafts
    /\ revisions \in Seq(Drafts) /\ Len(revisions) <= begun
    /\ edit \in [Editors -> [old : Drafts \cup {NoDraft}, new : Drafts \cup {NoDraft}]]
    /\ begun \in 0..MaxEdits
    /\ shown \subseteq Drafts /\ crossed \subseteq Drafts

(* The text a post was published with is never lost: it is the current one  *)
(* or in the history, also when edits overtake each other.                  *)
OriginalKept == Original \in GetPostRevisions \cup {current}

(* The history is complete but for overtaken edits: a text that readers saw *)
(* is current, or a revision, or was written while another edit, which had  *)
(* read the text before it, was under way.                                  *)
HistoryComplete == shown \subseteq GetPostRevisions \cup {current} \cup crossed

(* The history shows nothing that was not published: every revision was the *)
(* text of the post at some time, and two neighbours in the history are     *)
(* equal only when edits overtook each other.                               *)
HistoryTrue ==
    /\ GetPostRevisions \subseteq shown
    /\ crossed = {} => \A k \in 1..(Len(revisions) - 1) : revisions[k] # revisions[k + 1]

-----------------------------------------------------------------------------
(* The history of a post is true and, but for edits that were overtaken,    *)
(* complete.                                                                *)
HistoryKept ==
    /\ RevisionsTypeOK
    /\ OriginalKept
    /\ HistoryComplete
    /\ HistoryTrue
=============================================================================
