------------------------------ MODULE MCSystem ------------------------------
(***************************************************************************)
(* Small instances of TopicSystem for TLC: the root topic and topics that  *)
(* it lists.                                                               *)
(***************************************************************************)
EXTENDS TopicSystem, TLC

CONSTANTS root, t1, t2, t3, r1, d1, s1, MaxSeen

TheListing == IF t3 \in Ids THEN <<t2, t3, t1>> ELSE <<t2, t1>>

Listings == {<<>>, TheListing}

SeedVersion(list) ==
  [ state |-> StatePublished, release |-> r1, details |-> d1, slug |-> s1,
    subtopics |-> list, subtopicsLink |-> FALSE ]

SeedTree ==
  [id \in Ids |-> SeedVersion(IF id = root THEN TheListing ELSE Nil)]

(* Bounds: only the root topic comes to list subtopics, and a GET request  *)
(* is followed while at most MaxSeen versions of the topics to read come   *)
(* up, one less for a single topic.  Readers write nothing, so one at a    *)
(* time is enough.                                                         *)
Versions(r) == IF listed[r] = {} THEN MaxSeen - 1 ELSE MaxSeen

Bound ==
  /\ Cardinality({r \in Readers : ~ReaderIdle(r)}) <= 1
  /\ \A r \in Readers : Cardinality(seen[r]) <= Versions(r)
  /\ \A id \in Stored \ {root} : topics[id].next.subtopics = Nil

=============================================================================
