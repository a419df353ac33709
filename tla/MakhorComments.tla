--------------------------- MODULE MakhorComments ---------------------------
(***************************************************************************)
(* Comments in makhor (tools/makhor, db/comments.go, handlers/comments.go):*)
(* writing, editing, deleting one or a whole thread, blurring, and the     *)
(* threaded page of a post.                                                *)
(*                                                                         *)
(* The deletion of a thread reads the ids of the thread and then updates   *)
(* them one by one without a transaction, so that others write, blur and   *)
(* delete in between, and an update may fail halfway.  The other handlers  *)
(* are one action: what they read before they write does not change.       *)
(* SubmitComment takes any number for a parent: foreign keys hold on one   *)
(* connection of the pool only, so a parent may be on another post, be     *)
(* deleted, not be there yet, or be the comment itself.  Replies then may  *)
(* form a ring, below which the query of a deletion never comes to an end. *)
(* Bodies, and with them edits, are left out.  Ids and created_at grow     *)
(* together.                                                               *)
(***************************************************************************)
EXTENDS Integers, FiniteSets, SequencesExt

CONSTANTS
    Writers,    \* accounts
    SiteMods,   \* those with is_admin
    TagMods,    \* pairs of an account and a post it may moderate by a tag
    Threads,    \* posts
    Deleters,   \* request goroutines that delete threads
    MaxComments \* bound on comments, for model checking

ASSUME WritersAssumption == SiteMods \subseteq Writers /\ TagMods \subseteq Writers \X Threads
ASSUME CommentsAssumption == MaxComments \in Nat

VARIABLES
    comments,   \* table comments, indexed by id
    task,       \* the ids a thread's deletion has read and not yet updated
    single,     \* history: comments deleted for themselves, or as the top of a thread
    reported    \* history: <<root, ids>>, the threads whose deletion was reported
                \* as done, and how many comments there were when it began

commentVars == <<comments, task, single, reported>>

CommentRow == [post : Threads, author : Writers, parent : 0..MaxComments,
               deleted : BOOLEAN, blurred : BOOLEAN]

NoTask == [root |-> 0, ids |-> <<>>, seen |-> 0, endless |-> FALSE]

CommentsInit ==
    /\ comments = <<>>
    /\ task = [d \in Deleters |-> NoTask]
    /\ single = {}
    /\ reported = {}

Ids == DOMAIN comments
OnPost(p) == {c \in Ids : comments[c].post = p}
Replies(c) == {k \in Ids : comments[k].parent = c}
InOrder(ids) == SetToSortSeq(ids, <)

(* The comments above a comment; the comment is one of them in a ring. *)
Above(c) ==
    LET Up[k \in 0..Len(comments)] ==
            IF k = 0 THEN {comments[c].parent}
            ELSE Up[k - 1] \cup {comments[j].parent : j \in Up[k - 1] \cap Ids}
    IN  Up[Len(comments)] \ {0}

-----------------------------------------------------------------------------
(* flattenComments: a comment, and below it the threads of its replies, no  *)
(* more levels of them than there are comments.                             *)
flattenComments(roots, kids) ==
    LET Thread[n \in 0..Len(comments), c \in Ids] ==
            IF n = 0 THEN <<>>
            ELSE <<c>> \o FlattenSeq([k \in DOMAIN kids[c] |-> Thread[n - 1, kids[c][k]]])
    IN  FlattenSeq([k \in DOMAIN roots |-> Thread[Len(comments), roots[k]]])

(* Depths are set in the order of created_at: a younger parent's is still 0. *)
Depth(c) ==
    LET D[k \in Ids] ==
            CASE comments[k].parent = 0 -> 0
              [] comments[k].parent \in 1..(k - 1) -> D[comments[k].parent] + 1
              [] OTHER -> 1
    IN  D[c]

(* A reply hangs below its parent if the parent is on the same post.        *)
GetPostComments(p) ==
    LET kids == [c \in Ids |-> InOrder(Replies(c) \cap OnPost(p))]
        Roots(b) == InOrder({c \in OnPost(p) : comments[c].parent = 0 /\ comments[c].blurred = b})
    IN  flattenComments(Roots(FALSE), kids) \o flattenComments(Roots(TRUE), kids)

GetRecentComments == {c \in Ids : ~comments[c].deleted}

(* comment_count of the lists of posts. *)
CommentCount(p) == Cardinality({c \in OnPost(p) : ~comments[c].deleted})

-----------------------------------------------------------------------------
isCommentModerator(u, c) == u \in SiteMods \/ <<u, comments[c].post>> \in TagMods
canModerateComment(u, c) == comments[c].author = u \/ isCommentModerator(u, c)

SubmitComment(u, p, parent) ==
    /\ Len(comments) < MaxComments
    /\ comments' = Append(comments,
         [post |-> p, author |-> u, parent |-> parent,
          deleted |-> FALSE, blurred |-> FALSE])
    /\ UNCHANGED <<task, single, reported>>

DeleteComment(u, c) ==
    /\ comments[c].author = u \/ u \in SiteMods
    /\ comments' = [comments EXCEPT ![c].deleted = TRUE]
    /\ single' = single \cup {c}
    /\ UNCHANGED <<task, reported>>

BlurComment(u, c) ==
    /\ isCommentModerator(u, c)
    /\ comments' = [comments EXCEPT ![c].blurred = TRUE]
    /\ UNCHANGED <<task, single, reported>>

UnblurComment(u, c) ==
    /\ isCommentModerator(u, c)
    /\ comments' = [comments EXCEPT ![c].blurred = FALSE]
    /\ UNCHANGED <<task, single, reported>>

(* The recursive query of DeleteCommentTree: level by level from the root,  *)
(* if that is in no ring; it follows replies to other posts as well.        *)
descendants(c) ==
    LET Level[k \in 0..Len(comments)] ==
            IF k = 0 THEN <<c>>
            ELSE FlattenSeq([i \in DOMAIN Level[k - 1] |-> InOrder(Replies(Level[k - 1][i]))])
    IN  FlattenSeq([k \in 1..(Len(comments) + 1) |-> Level[k - 1]])

DeleteCommentTree(d, u, c) ==
    /\ task[d] = NoTask
    /\ canModerateComment(u, c)
    /\ task' = [task EXCEPT ![d] =
         IF c \in Above(c) THEN [NoTask EXCEPT !.root = c, !.endless = TRUE]
         ELSE [NoTask EXCEPT !.root = c, !.ids = descendants(c), !.seen = Len(comments)]]
    /\ UNCHANGED <<comments, single, reported>>

UpdateLast(d) ==
    /\ task[d].ids # <<>>
    /\ comments' = [comments EXCEPT ![Last(task[d].ids)].deleted = TRUE]
    /\ single' = single \cup ({Last(task[d].ids)} \cap {task[d].root})
    /\ task' = [task EXCEPT ![d].ids = Front(@)]
    /\ UNCHANGED reported

(* One UPDATE of the loop ... *)
UpdateNext(d) ==
    /\ task[d].ids # <<>>
    /\ comments' = [comments EXCEPT ![Head(task[d].ids)].deleted = TRUE]
    /\ single' = single \cup ({Head(task[d].ids)} \cap {task[d].root})
    /\ task' = [task EXCEPT ![d].ids = Tail(@)]
    /\ UNCHANGED reported

(* ... which may fail: the handler answers with an error and leaves what is *)
(* done as it is ...                                                        *)
UpdateFails(d) ==
    /\ task[d].ids # <<>>
    /\ task' = [task EXCEPT ![d] = NoTask]
    /\ UNCHANGED <<comments, single, reported>>

(* ... or all are done, and the deletion is logged. *)
TreeDeleted(d) ==
    /\ task[d].root # 0 /\ task[d].ids = <<>> /\ ~task[d].endless
    /\ reported' = reported \cup {<<task[d].root, task[d].seen>>}
    /\ task' = [task EXCEPT ![d] = NoTask]
    /\ UNCHANGED <<comments, single>>

(* The process ends, for one because an endless query has used up the       *)
(* memory.                                                                  *)
EndDeletions ==
    /\ \E d \in Deleters : task[d] # NoTask
    /\ task' = [d \in Deleters |-> NoTask]
    /\ UNCHANGED <<comments, single, reported>>

CommentsNext ==
    \/ \E u \in Writers, p \in Threads, parent \in 0..MaxComments : SubmitComment(u, p, parent)
    \/ \E u \in Writers, c \in Ids :
         \/ DeleteComment(u, c) \/ BlurComment(u, c) \/ UnblurComment(u, c)
         \/ \E d \in Deleters : DeleteCommentTree(d, u, c)
    \/ \E d \in Deleters : UpdateNext(d) \/ UpdateFails(d) \/ TreeDeleted(d)
    \/ EndDeletions

CommentsSpec == CommentsInit /\ [][CommentsNext]_commentVars

-----------------------------------------------------------------------------
(* A comment and those above it. *)
Chain(c) == {c} \cup Above(c)

(* The comments of a post that hang below a top, all on the post. *)
Threaded(p) ==
    {c \in Ids : Chain(c) \subseteq OnPost(p) /\ \E t \in Chain(c) : comments[t].parent = 0}

(* Type invariant. *)
CommentsTypeOK ==
    /\ comments \in Seq(CommentRow) /\ Len(comments) <= MaxComments
    /\ \A d \in Deleters :
         /\ task[d].root \in Ids \cup {0} /\ task[d].seen \in 0..Len(comments)
         /\ ToSet(task[d].ids) \subseteq Ids
         /\ task[d].endless => task[d].ids = <<>>
    /\ single \subseteq Ids
    /\ reported \subseteq Ids \X (0..Len(comments))

(* The page of a post can be read as a thread, whatever was written,        *)
(* deleted and blurred in which order: it shows exactly the comments that   *)
(* hang below a top with all their ancestors on the post, each once; in a   *)
(* thread without a reply older than its parent, a reply's parent is the    *)
(* last comment above it that is indented one step less; and no thread      *)
(* follows one with a blurred top unless its own top is blurred.  The       *)
(* comment count is that of the page, unless a parent is not on the post or *)
(* replies form a ring: such replies, and those below them, are counted and *)
(* not shown.                                                               *)
PageReadable ==
    \A p \in Threads :
        LET page == GetPostComments(p)
            shown == Threaded(p)
            top == [c \in shown |-> CHOOSE t \in Chain(c) : comments[t].parent = 0]
            inAge == {c \in shown : \A k \in shown : top[k] = top[c] => comments[k].parent < k}
        IN  /\ IsInjective(page) /\ ToSet(page) = shown
            /\ \A k \in DOMAIN page :
                 comments[page[k]].parent # 0 /\ page[k] \in inAge =>
                    \E j \in 1..(k - 1) :
                       /\ page[j] = comments[page[k]].parent
                       /\ Depth(page[k]) = Depth(page[j]) + 1
                       /\ \A i \in (j + 1)..(k - 1) : Depth(page[i]) > Depth(page[j])
            /\ \A j, k \in DOMAIN page :
                 j < k /\ comments[top[page[j]]].blurred => comments[top[page[k]]].blurred
            /\ (\A c \in OnPost(p) : /\ comments[c].parent \in OnPost(p) \cup {0}
                                     /\ c \notin Above(c)) =>
                 CommentCount(p) = Cardinality(ToSet(page) \cap GetRecentComments)

(* DeleteCommentTree "soft-deletes a comment and all its descendants": when *)
(* it has reported success, every comment of the thread that existed when   *)
(* it began is deleted; only replies written since then are left, and the   *)
(* replies to them that were written before them.                           *)
ThreadDeleted ==
    \A r \in reported : \A c \in Ids :
        /\ r[1] \in Chain(c)
        /\ \A k \in Chain(c) \cap Ids : r[1] \in Chain(k) => k <= r[2]
        => comments[c].deleted

(* The deletion of a thread goes from its top down, so that one that fails  *)
(* halfway leaves no reply deleted below a comment that is still there.     *)
NoHoles ==
    \A c \in Ids : comments[c].deleted =>
        c \in single \/ comments[comments[c].parent].deleted

-----------------------------------------------------------------------------
(* Threads stay readable and deletions of threads are complete from the top *)
(* down.                                                                    *)
ThreadsConsistent ==
    /\ CommentsTypeOK
    /\ PageReadable
    /\ ThreadDeleted
    /\ NoHoles
=============================================================================
