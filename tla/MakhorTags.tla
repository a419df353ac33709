----------------------------- MODULE MakhorTags -----------------------------
(***************************************************************************)
(* Tags, tag admins, the tags of posts, the feeds of tags, and the queries *)
(* behind the pages that list posts and tags (tools/makhor, db/tags.go,    *)
(* db/posts.go, handlers/tags.go, handlers/posts.go).                      *)
(*                                                                         *)
(* A handler first reads what it needs to decide and then writes; the two  *)
(* are separate statements on the database, so other requests come between *)
(* them.  Such a handler is two actions: its checks, and the write it then *)
(* makes.  Where nothing can change what was read (the author of a post,   *)
(* the creator of a tag) the handler is one action.  A request that is     *)
(* refused changes nothing.                                                *)
(*                                                                         *)
(* A tag name "a::b::c" is the sequence of its parts, so the SQL pattern   *)
(* name || '::%' is "a proper extension of name".  Titles, texts, scores   *)
(* and pages of a list are left out: a list is the set of its posts.       *)
(***************************************************************************)
EXTENDS Integers, FiniteSets, SequencesExt

CONSTANTS
    TagUsers,      \* accounts
    SiteAdmins, \* accounts with is_admin; who they are is MakhorAccounts' subject
    RootUser,   \* the site admin with the smallest id
    Bot,        \* the account of the poller
    NoUser,     \* no account: an anonymous visitor, or creator_id NULL
    Names,      \* tag names
    DefaultTags,\* the tags migrate puts into an empty table
    Posts,      \* post ids
    Sites,      \* domains of links
    LinkOf,     \* a post's URL, NoLink for a text post
    NoLink,
    Feeds,      \* feed ids
    NoTag,      \* a feed id not used yet
    Gone,       \* a feed id whose row has been deleted; ids are not reused
    TagReqs,       \* request goroutines
    MaxServed   \* bound on the requests served, for model checking

ASSUME TagUsersAssumption ==
    /\ SiteAdmins \subseteq TagUsers /\ RootUser \in SiteAdmins
    /\ Bot \in TagUsers \ SiteAdmins /\ NoUser \notin TagUsers
ASSUME NamesAssumption ==
    /\ IsFiniteSet(Names)
    /\ \A n \in Names : n \in Seq(Range(n)) /\ Len(n) > 0
    /\ \A n \in Names : \A k \in 1..Len(n) : SubSeq(n, 1, k) \in Names
    /\ NoTag \notin Names /\ Gone \notin Names
    /\ DefaultTags \subseteq Names
    /\ \A n \in DefaultTags : \A k \in 1..Len(n) : SubSeq(n, 1, k) \in DefaultTags
ASSUME PostsAssumption == IsFiniteSet(Posts)
(* domain: what extractDomain finds in a link.  plain: it stands between    *)
(* "://" or "://www." and a slash or the link's end; in user@host, host?x   *)
(* and host#x it does not.  within: domains that stand so elsewhere in it.  *)
Link == [domain : Sites, plain : BOOLEAN, within : SUBSET Sites]
ASSUME LinksAssumption == NoLink \notin Link /\ LinkOf \in [Posts -> Link \cup {NoLink}]
ASSUME ServedAssumption == MaxServed \in Nat

VARIABLES
    status,     \* table tags: no row, active, or is_active = FALSE
    creator,    \* tags.creator_id
    admins,     \* table tag_admins
    post,       \* tables posts and post_tags
    feedTag,    \* table rss_feeds: the tag of a feed
    req,        \* the requests that have passed their checks
    served,     \* how many requests have passed their checks
    late,       \* history: tags written to after their deletion, see Written
    moderated   \* history: who has ever been creator or admin of a tag

tagVars == <<status, creator, admins, post, feedTag, req, served, late, moderated>>

-----------------------------------------------------------------------------
(* Table posts with post_tags; recent: inside the window of the query.  *)
PostRow == [st : {"none", "shown", "deleted"}, author : TagUsers \cup {NoUser},
            tags : SUBSET Names, recent : BOOLEAN]
NoPost == [st |-> "none", author |-> NoUser, tags |-> {}, recent |-> FALSE]

(* A request between its checks and its write.  stale: another request has  *)
(* written since.                                                           *)
IdleReq == [op |-> "idle", user |-> NoUser, tags |-> {}, on |-> 0, stale |-> FALSE]
ReqRow == [op : {"idle", "submit", "createTag", "deleteTag", "removeTag",
                 "addFeed", "deleteFeed"},
           user : TagUsers \cup {NoUser}, tags : SUBSET Names, on : Posts \cup Feeds \cup {0},
           stale : BOOLEAN]

(* A database as migrate leaves it: default tags without a creator. *)
TagsInit ==
    /\ status = [n \in Names |-> IF n \in DefaultTags THEN "active" ELSE "none"]
    /\ creator = [n \in Names |-> NoUser]
    /\ admins = {}
    /\ post = [p \in Posts |-> NoPost]
    /\ feedTag = [f \in Feeds |-> NoTag]
    /\ req = [r \in TagReqs |-> IdleReq]
    /\ served = 0
    /\ late = {}
    /\ moderated = {}

Active(n) == n \in Names /\ status[n] = "active"

(* GetParentTagName. *)
GetParentTagName(n) == Front(n)

(* What the pattern name || '::%' matches. *)
Below(n) == {m \in Names : IsStrictPrefix(n, m)}

(* Direct children: LIKE name || '::%' and NOT LIKE name || '::_%::%'. *)
Children(n) == {m \in Below(n) : Len(m) = Len(n) + 1}

-----------------------------------------------------------------------------
(* Permissions. *)
IsTagCreator(n, u) == creator[n] = u
IsTagAdmin(n, u) == <<n, u>> \in admins

CanModerateTag(n, u) == u \in SiteAdmins \/ IsTagCreator(n, u) \/ IsTagAdmin(n, u)

CanManageTagAdmins(n, u) == u \in SiteAdmins \/ IsTagCreator(n, u)

CanManageTagFeed(u, n) == u \in SiteAdmins \/ IsTagCreator(n, u) \/ IsTagAdmin(n, u)

CanDeleteTag(n, u) == u \in SiteAdmins \/ IsTagCreator(n, u)

(* The search goes up from the parent and ends at the first name that is    *)
(* not an active tag.                                                       *)
CanCreateSubtag(n, u) ==
    \/ u \in SiteAdmins
    \/ \E k \in 1..Len(n) :
         /\ \A j \in k..Len(n) : Active(SubSeq(n, 1, j))
         /\ IsTagCreator(SubSeq(n, 1, k), u) \/ IsTagAdmin(SubSeq(n, 1, k), u)

(* TagExists looks at deleted tags as well. *)
TagExists(n) == status[n] # "none"

GetTagChildCount(n) == Cardinality({m \in Below(n) : Active(m)})

-----------------------------------------------------------------------------
(* The lists of posts, for viewer v.  GetPosts for a tag and getPostsByTag  *)
(* do not ask whether the tags they match are active.                       *)
Shown == {p \in Posts : post[p].st = "shown"}
Recent == {p \in Posts : post[p].recent}

TaggedActive(n) ==
    {p \in Shown : \E m \in post[p].tags : Active(m) /\ (m = n \/ m \in Below(n))}

Tagged(n) == {p \in Shown : n \in post[p].tags \/ post[p].tags \cap Below(n) # {}}

(* The clause that hides posts without tags unless v is author or admin. *)
TagFilter(v) == {p \in Posts : v \in SiteAdmins \/ post[p].tags # {} \/ post[p].author = v}

GetPosts(n) == Tagged(n)

GetPostsByTag(n, hours) == {p \in Tagged(n) : hours > 0 => p \in Recent}

GetNewestPosts(v) == Shown \cap TagFilter(v)

GetTopPosts(v, hours) == {p \in Shown \cap TagFilter(v) : hours > 0 => p \in Recent}

GetHotPosts(v) == Shown \cap Recent \cap TagFilter(v)

(* The four LIKE patterns. *)
LinkMatches(l, d) == (l.plain /\ l.domain = d) \/ d \in l.within
GetPostsByDomain(d) == {p \in Shown : LinkOf[p] # NoLink /\ LinkMatches(LinkOf[p], d)}

GetUserPosts(u) == {p \in Shown : post[p].author = u}

(* The pages.  HomePage without a tag filter has n = <<>>; the default     *)
(* period of the top view has a limit.                                     *)
HomePage(v, view, n) ==
    CASE view = "new" -> GetNewestPosts(v)
      [] view = "top" -> GetTopPosts(v, 1)
      [] view = "hot" -> IF n = <<>> THEN GetHotPosts(v) ELSE GetPosts(n)

TagDetailPage(n, view) ==
    CASE ~Active(n) -> {}
      [] Active(n) /\ view = "new" -> GetPostsByTag(n, 0)
      [] Active(n) /\ view = "top" -> GetPostsByTag(n, 1)
      [] Active(n) /\ view = "hot" -> GetPosts(n)

GetPostsByTags(names) == {p \in Shown : post[p].tags \cap names # {}}

(* PostCount of GetRootTags and of GetChildTags: COUNT(DISTINCT post_id). *)
DistinctPosts(n) ==
    Cardinality({p \in Shown : \E m \in post[p].tags : m = n \/ IsStrictPrefix(n, m)})

GetRootTags == {[tag |-> n, posts |-> DistinctPosts(n),
                 subtags |-> Cardinality({m \in Children(n) : Active(m)})] :
                n \in {m \in Names : Active(m) /\ Len(m) = 1}}

GetChildTags(n) == {[tag |-> m, posts |-> DistinctPosts(m)] : m \in {c \in Children(n) : Active(c)}}

(* GetAllTagsWithCounts adds up the counts of the active tags, so a post    *)
(* counts once per tag: the sum is the number of pairs of tag and post.     *)
GetAllTagsWithCounts(n) ==
    Cardinality({x \in ({n} \cup Below(n)) \X Shown : Active(x[1]) /\ x[1] \in post[x[2]].tags})

(* RSSTagsMulti: the tag and its direct children. *)
TagsFeed(n) == GetPostsByTags({n} \cup {c.tag : c \in GetChildTags(n)})

-----------------------------------------------------------------------------
(* A request passes its checks ... *)
Serve == served < MaxServed /\ served' = served + 1
Pass(r, row) == Serve /\ req[r].op = "idle" /\ req' = [req EXCEPT ![r] = row]

(* ... and later writes, behind the back of the requests that are waiting.  *)
Done(r) ==
    /\ UNCHANGED served
    /\ req' = [q \in TagReqs |-> CASE q = r -> IdleReq
                               [] q # r /\ req[q].op = "idle" -> IdleReq
                               [] OTHER -> [req[q] EXCEPT !.stale = TRUE]]

(* late: the tags a request wrote to although what it had read about them   *)
(* may no longer have been so.                                              *)
Written(r, names) == late' = IF req[r].stale THEN late \cup names ELSE late

People == TagUsers \ {Bot}

(* SeedTagCreators, at every start of the server. *)
SeedTagCreators ==
    /\ \E n \in Names : status[n] # "none" /\ creator[n] = NoUser
    /\ creator' = [n \in Names |->
         IF status[n] # "none" /\ creator[n] = NoUser THEN RootUser ELSE creator[n]]
    /\ moderated' = moderated \cup {<<n, RootUser>> : n \in {m \in Names : creator'[m] = RootUser}}
    /\ UNCHANGED <<status, admins, post, feedTag, req, served, late>>

(* CreateTagSubmit and CreateTag.  Tag names are UNIQUE. *)
CreateTagSubmit(r, u, n) ==
    /\ IF Len(n) = 1 THEN u \in SiteAdmins ELSE CanCreateSubtag(GetParentTagName(n), u)
    /\ ~TagExists(n)
    /\ Len(n) > 1 => Active(GetParentTagName(n))
    /\ Pass(r, [IdleReq EXCEPT !.op = "createTag", !.user = u, !.tags = {n}])
    /\ UNCHANGED <<status, creator, admins, post, feedTag, late, moderated>>

CreateTag(r, n) ==
    /\ req[r].op = "createTag" /\ n \in req[r].tags
    /\ IF status[n] = "none"
       THEN /\ status' = [status EXCEPT ![n] = "active"]
            /\ creator' = [creator EXCEPT ![n] = req[r].user]
            /\ moderated' = moderated \cup {<<n, req[r].user>>}
            /\ Written(r, {n})
       ELSE UNCHANGED <<status, creator, moderated, late>>
    /\ Done(r)
    /\ UNCHANGED <<admins, post, feedTag>>

(* The handler DeleteTag, with its count of active subtags ... *)
DeleteTagSubmit(r, u, n) ==
    /\ status[n] # "none"
    /\ CanDeleteTag(n, u)
    /\ GetTagChildCount(n) = 0
    /\ Pass(r, [IdleReq EXCEPT !.op = "deleteTag", !.user = u, !.tags = {n}])
    /\ UNCHANGED <<status, creator, admins, post, feedTag, late, moderated>>

DeleteTagOnly(r, n) ==
    /\ req[r].op = "deleteTag" /\ n \in req[r].tags
    /\ status' = [status EXCEPT ![n] = "inactive"]
    /\ Written(r, Children(n))
    /\ Done(r)
    /\ UNCHANGED <<creator, moderated, post, feedTag, admins>>

(* ... and the transaction of the database's DeleteTag. *)
DeleteTag(r, n) ==
    /\ req[r].op = "deleteTag" /\ n \in req[r].tags
    /\ post' = [p \in Posts |-> [post[p] EXCEPT !.tags = @ \ {n}]]
    /\ feedTag' = [f \in Feeds |-> IF feedTag[f] = n THEN Gone ELSE feedTag[f]]
    /\ admins' = {a \in admins : a[1] # n}
    /\ status' = [status EXCEPT ![n] = "inactive"]
    /\ Written(r, Children(n))
    /\ Done(r)
    /\ UNCHANGED <<creator, moderated>>

(* AddTagAdmin: it does not ask whether the tag is active. *)
AddTagAdmin(u, n, v) ==
    /\ status[n] # "none"
    /\ Serve
    /\ CanManageTagAdmins(n, u)
    /\ admins' = admins \cup {<<n, v>>}
    /\ moderated' = moderated \cup {<<n, v>>}
    /\ late' = IF Active(n) THEN late ELSE late \cup {n}
    /\ UNCHANGED <<status, creator, post, feedTag, req>>

RemoveTagAdmin(u, n, v) ==
    /\ Serve
    /\ CanManageTagAdmins(n, u)
    /\ <<n, v>> \in admins
    /\ admins' = admins \ {<<n, v>>}
    /\ UNCHANGED <<status, creator, post, feedTag, req, late, moderated>>

(* SubmitPost: every name entered is an active tag (GetTagByName), one at   *)
(* least.                                                                   *)
SubmitPost(r, u, names) ==
    /\ names # {}
    /\ \A n \in names : Active(n)
    /\ Pass(r, [IdleReq EXCEPT !.op = "submit", !.user = u, !.tags = names])
    /\ UNCHANGED <<status, creator, admins, post, feedTag, late, moderated>>

(* The poller has read a feed's row and fetches; what it creates has the    *)
(* tag of that row, whatever became of the row and the tag.                 *)
PollTagFeed(r, f) ==
    /\ feedTag[f] \in Names
    /\ Pass(r, [IdleReq EXCEPT !.op = "submit", !.user = Bot, !.tags = {feedTag[f]}])
    /\ UNCHANGED <<status, creator, admins, post, feedTag, late, moderated>>

(* createPostFull, one transaction. *)
CreatePost(r, p) ==
    /\ req[r].op = "submit"
    /\ post[p].st = "none"
    /\ post' = [post EXCEPT ![p] = [st |-> "shown", author |-> req[r].user,
                                    tags |-> req[r].tags, recent |-> TRUE]]
    /\ Written(r, req[r].tags)
    /\ Done(r)
    /\ UNCHANGED <<status, creator, admins, feedTag, moderated>>

(* DeletePost. *)
DeletePost(u, p) ==
    /\ post[p].st # "none"
    /\ post[p].author = u \/ u \in SiteAdmins
    /\ post' = [post EXCEPT ![p].st = "deleted"]
    /\ UNCHANGED <<status, creator, admins, feedTag, req, served, late, moderated>>

(* RemovePostTag and RemoveTagFromPost. *)
RemovePostTag(r, u, p, n) ==
    /\ post[p].st # "none"
    /\ post[p].author = u \/ CanModerateTag(n, u) \/ u \in SiteAdmins
    /\ Pass(r, [IdleReq EXCEPT !.op = "removeTag", !.user = u, !.tags = {n}, !.on = p])
    /\ UNCHANGED <<status, creator, admins, post, feedTag, late, moderated>>

RemoveTagFromPost(r) ==
    /\ req[r].op = "removeTag"
    /\ post' = [post EXCEPT ![req[r].on].tags = @ \ req[r].tags]
    /\ Done(r)
    /\ UNCHANGED <<status, creator, admins, feedTag, late, moderated>>

(* AddTagFeed: it asks whether the tag has a row, not whether it is active. *)
AddTagFeed(r, u, n) ==
    /\ status[n] # "none"
    /\ CanManageTagFeed(u, n)
    /\ Pass(r, [IdleReq EXCEPT !.op = "addFeed", !.user = u, !.tags = {n}])
    /\ UNCHANGED <<status, creator, admins, post, feedTag, late, moderated>>

CreateTagFeed(r, f, n) ==
    /\ req[r].op = "addFeed" /\ n \in req[r].tags
    /\ feedTag[f] = NoTag
    /\ feedTag' = [feedTag EXCEPT ![f] = n]
    /\ late' = IF Active(n) THEN late ELSE late \cup {n}
    /\ Done(r)
    /\ UNCHANGED <<status, creator, admins, post, moderated>>

(* DeleteTagFeed. *)
DeleteTagFeed(r, u, f) ==
    /\ feedTag[f] \in Names
    /\ CanManageTagFeed(u, feedTag[f])
    /\ Pass(r, [IdleReq EXCEPT !.op = "deleteFeed", !.user = u, !.on = f])
    /\ UNCHANGED <<status, creator, admins, post, feedTag, late, moderated>>

DeleteFeedRow(r) ==
    /\ req[r].op = "deleteFeed"
    /\ feedTag' = [feedTag EXCEPT ![req[r].on] = Gone]
    /\ Done(r)
    /\ UNCHANGED <<status, creator, admins, post, late, moderated>>

(* Time passes. *)
GetOld(p) ==
    /\ post[p].recent
    /\ post' = [post EXCEPT ![p].recent = FALSE]
    /\ UNCHANGED <<status, creator, admins, feedTag, req, served, late, moderated>>

TagsNext ==
    \/ SeedTagCreators
    \/ \E r \in TagReqs, u \in People, n \in Names :
         \/ CreateTagSubmit(r, u, n)
         \/ DeleteTagSubmit(r, u, n)
         \/ AddTagFeed(r, u, n)
         \/ \E p \in Posts : RemovePostTag(r, u, p, n)
    \/ \E r \in TagReqs, n \in Names :
         CreateTag(r, n) \/ DeleteTag(r, n) \/ \E f \in Feeds : CreateTagFeed(r, f, n)
    \/ \E u, v \in People, n \in Names : AddTagAdmin(u, n, v) \/ RemoveTagAdmin(u, n, v)
    \/ \E r \in TagReqs, u \in People, names \in SUBSET Names : SubmitPost(r, u, names)
    \/ \E r \in TagReqs, p \in Posts : CreatePost(r, p)
    \/ \E r \in TagReqs : RemoveTagFromPost(r) \/ DeleteFeedRow(r)
    \/ \E r \in TagReqs, f \in Feeds : PollTagFeed(r, f) \/ \E u \in People : DeleteTagFeed(r, u, f)
    \/ \E p \in Posts : GetOld(p) \/ \E u \in People : DeletePost(u, p)

TagsSpec == TagsInit /\ [][TagsNext]_tagVars

-----------------------------------------------------------------------------
(* Type invariant. *)
TagsTypeOK ==
    /\ status \in [Names -> {"none", "active", "inactive"}]
    /\ creator \in [Names -> TagUsers \cup {NoUser}]
    /\ admins \subseteq Names \X TagUsers
    /\ post \in [Posts -> PostRow]
    /\ feedTag \in [Feeds -> Names \cup {NoTag, Gone}]
    /\ req \in [TagReqs -> ReqRow]
    /\ served \in 0..MaxServed
    /\ late \subseteq Names
    /\ moderated \subseteq Names \X TagUsers

(* "Cannot delete tag with child tags. Delete children first.": a subtag    *)
(* stands under a deleted parent only if a creation and a deletion came     *)
(* between each other's checks and writes.                                  *)
OrphansOnlyByRace ==
    \A n \in Names : Active(n) /\ Len(n) > 1 => Active(GetParentTagName(n)) \/ n \in late

(* DeleteTag "marks a tag as inactive and removes it from all posts", and   *)
(* drops its feeds and admins: nothing is left behind or comes later except *)
(* from requests that were under way, or through the handlers that take a   *)
(* deleted tag.                                                             *)
DeletedTagEmpty ==
    \A n \in Names : status[n] = "inactive" /\ n \notin late =>
        /\ \A p \in Posts : n \notin post[p].tags
        /\ \A f \in Feeds : feedTag[f] # n
        /\ \A u \in TagUsers : <<n, u>> \notin admins

(* Every post that a visitor finds on the hot, top or newest page is also   *)
(* on the page of a tag that exists, on the page of its author and, if the  *)
(* domain stands in its link as the patterns of GetPostsByDomain have it,   *)
(* on that of its domain, however its tags were removed or deleted since (a *)
(* deleted tag has no page).                                                *)
ListedIsBrowsable ==
    \A view \in {"new", "top", "hot"} : \A p \in HomePage(NoUser, view, <<>>) :
        /\ \/ \E n \in Names : p \in TagDetailPage(n, "hot")
           \/ post[p].tags \cap late # {}
        /\ p \in GetUserPosts(post[p].author)
        /\ LinkOf[p] # NoLink /\ LinkOf[p].plain => p \in GetPostsByDomain(LinkOf[p].domain)

(* The counts beside the tags agree with the pages behind them: the number  *)
(* on the tags page is the length of the tag's page, all of it in the hot   *)
(* and the newest view, the front page filtered by the tag shows the same,  *)
(* the tag's feed nothing more.                                             *)
TagPagesAgree ==
    \A t \in GetRootTags \cup UNION {GetChildTags(n) : n \in {m \in Names : Active(m)}} :
        /\ t.posts = Cardinality(TagDetailPage(t.tag, "hot"))
        /\ TagDetailPage(t.tag, "hot") = TagDetailPage(t.tag, "new")
        /\ TagDetailPage(t.tag, "top") \subseteq TagDetailPage(t.tag, "hot")
        /\ HomePage(NoUser, "hot", t.tag) = TagDetailPage(t.tag, "hot")
        /\ TagsFeed(t.tag) \subseteq TagDetailPage(t.tag, "hot")

(* The API counts for a tag all the posts on the tag's page: it counts by   *)
(* active tags only, the page lists posts by any tag, but no post keeps a   *)
(* deleted one, unless that was written to too late.                        *)
ApiCountsEnough ==
    \A n \in Names : late \cap ({n} \cup Below(n)) = {} =>
        GetAllTagsWithCounts(n) >= Cardinality(TagDetailPage(n, "hot"))

(* "Subtags can be created by anyone who can moderate the parent tag": the  *)
(* creator of a tag below another is a site admin or has at some time been  *)
(* creator or admin of a tag above it; the creator of a root tag is a site  *)
(* admin.                                                                   *)
SubtagAuthority ==
    \A n \in Names :
        \/ creator[n] = NoUser
        \/ creator[n] \in SiteAdmins
        \/ \E k \in 1..(Len(n) - 1) : <<SubSeq(n, 1, k), creator[n]>> \in moderated

-----------------------------------------------------------------------------
(* The tree of tags is in order but for the races that are named: no subtag *)
(* without its parent, nothing left at a deleted tag, nobody a creator      *)
(* without authority.                                                       *)
TagsConsistent ==
    /\ TagsTypeOK
    /\ OrphansOnlyByRace
    /\ DeletedTagEmpty
    /\ SubtagAuthority

(* The pages that list posts and tags agree with each other: every listed   *)
(* post can be browsed to, and the counts are those of the pages behind     *)
(* them.                                                                    *)
ListingsAgree ==
    /\ ListedIsBrowsable
    /\ TagPagesAgree
    /\ ApiCountsEnough
=============================================================================
