--------------------------- MODULE MCMakhorContent ---------------------------
(* Tags, collections, search and votes share no state that a step of one    *)
(* reads of another: one run checks the four, each behaviour being one of   *)
(* them.  Their users, requests and items (for collections, a tag and the   *)
(* one post with it) are the same model values, so that one small set of    *)
(* permutations is the symmetry of all four.                                *)
EXTENDS MakhorTags, MakhorCollections, MakhorSearch, MakhorVotes, TLC

VARIABLE part

MCNames == {<<"a">>, <<"a", "b">>, <<"a", "b", "c">>}
MCDefault == {<<"a">>}
(* A link with a path. *)
MCLinkOf == [p \in Posts |-> [domain |-> CHOOSE d \in Sites : TRUE, plain |-> TRUE, within |-> {}]]
MCTagsOf == [i \in CollItems |-> {i}]
MCSymmetry == Permutations(Windows) \cup Permutations(Owners) \cup Permutations(Items)

(* The collections belong to different users, saves fail in one of them,    *)
(* and overlap in none then.                                                *)
OneCollectionEach ==
    /\ \A c, d \in Colls : Exists(c) /\ owner[c] = owner[d] => c = d
    /\ \A c, d \in failed : c = d
    /\ failed = {} \/ mixed = {}

ContentInit ==
    /\ TagsInit
    /\ CollInit
    /\ SearchInit
    /\ Init
    /\ \/ part \in {"tags", "collections", "votes"} /\ text = [d \in Docs |-> NoText]
       \/ part = "search"

ContentNext ==
    /\ UNCHANGED part
    /\ \/ part = "tags" /\ TagsNext /\ UNCHANGED <<collVars, searchVars, vars>>
       \/ part = "collections" /\ CollNext /\ OneCollectionEach' /\ UNCHANGED <<tagVars, searchVars, vars>>
       \/ part = "search" /\ SearchNext /\ UNCHANGED <<tagVars, collVars, vars>>
       \/ part = "votes" /\ Next /\ UNCHANGED <<tagVars, collVars, searchVars>>

ContentSpec == ContentInit /\ [][ContentNext]_<<tagVars, collVars, searchVars, vars, part>>
=============================================================================
