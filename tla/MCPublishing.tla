---------------------------- MODULE MCPublishing ----------------------------
(***************************************************************************)
(* Small instances of PublishingAPI for TLC.                               *)
(***************************************************************************)
EXTENDS PublishingAPI, TLC

CONSTANTS t1, t2, root, d1, d2, s1, s2, q1, q2

(* Every update carries a slug that t1 does not have.                      *)
OtherSlug == {s2}

NoSubtopics  == {<<>>}
SomeSubtopics == {<<>>, <<t1>>}

SeedVersion(slug, subtopics) ==
  [ state |-> StatePublished, release |-> Nil, details |-> d1, slug |-> slug,
    subtopics |-> subtopics, subtopicsLink |-> subtopics # Nil ]

(* One topic.                                                              *)
SeedOne == [id \in {t1} |-> SeedVersion(s1, Nil)]

(* A topic t1 and its parent t2, for runs about subtopics and about        *)
(* requests that must leave the other topic alone.                         *)
SeedFamily == (t1 :> SeedVersion(s1, Nil)) @@ (t2 :> SeedVersion(s2, <<t1>>))

Symmetry == Permutations(Requests)

=============================================================================
