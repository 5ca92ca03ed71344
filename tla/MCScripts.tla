----------------------------- MODULE MCScripts -----------------------------
(***************************************************************************)
(* Small instances of TopicScripts for TLC: seed-database creates topic t  *)
(* and its subtopic ts under the root; add-topics creates a topic n with   *)
(* the title, and so the slug, of t under the root.                        *)
(***************************************************************************)
EXTENDS TopicScripts, TLC

CONSTANTS root, t, ts, n, d1, r1, none, st, sts

SeedVersion(slug, list) ==
  [ state |-> StatePublished, release |-> Nil, details |-> d1, slug |-> slug,
    subtopics |-> list, subtopicsLink |-> list \notin {Nil, <<>>} ]

(* The root topic is inserted without a slug, which no title gives: none   *)
(* stands for it, and only the root topic itself is found by it.           *)
SeedTree ==
  (root :> SeedVersion(none, <<>>)) @@ (t :> SeedVersion(st, <<ts>>)) @@
  (ts :> SeedVersion(sts, Nil)) @@ (n :> SeedVersion(st, Nil))

SeedData == <<t>>

AddData ==
  << [parentID |-> root, ids |-> {n}, unused |-> TRUE],
     [parentID |-> ts, ids |-> {n}, unused |-> TRUE] >>

NoSubtopics == {<<>>}

ASSUME DataAssumption == StartsBare /\ OnePlaceEach

=============================================================================
