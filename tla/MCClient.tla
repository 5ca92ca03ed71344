------------------------------ MODULE MCClient ------------------------------
(***************************************************************************)
(* A small instance of TopicClient for TLC: a topic t1 that the root topic *)
(* lists and that is not live yet.  The caller edits and publishes it at   *)
(* once, which takes four store calls; its other PUT calls are refused.    *)
(***************************************************************************)
EXTENDS TopicClient, TLC

CONSTANTS root, t1, r1, d1, s1

SeedVersion(list) ==
  [ state |-> StatePublished, release |-> Nil, details |-> d1, slug |-> s1,
    subtopics |-> list, subtopicsLink |-> FALSE ]

SeedPair == [id \in Ids |-> SeedVersion(IF id = root THEN <<t1>> ELSE Nil)]

NoSubtopics == {<<>>}

Calls ==
  { [ handler |-> "PutTopic", id |-> t1,
      update |-> [ state |-> StatePublished, release |-> r1, details |-> d1,
                   slug |-> Blank, subtopics |-> <<>> ] ] }

=============================================================================
