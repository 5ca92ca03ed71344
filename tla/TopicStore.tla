----------------------------- MODULE TopicStore -----------------------------
(***************************************************************************)
(* The MongoDB collection of topic documents, as the seeding scripts leave *)
(* it.  A single document is read and written atomically; nothing holds a  *)
(* lock from one call to the next.                                         *)
(***************************************************************************)
EXTENDS TopicModel

CONSTANTS
  Seed,         \* Seed[id]: the version the seeding scripts write for topic id
  Missing,      \* ids without a document at the start
  Unpublished   \* ids whose document has only a next subdocument at the start

ASSUME StoreAssumption ==
  /\ Seed \in [Ids -> Version]
  /\ \A id \in Ids : /\ Seed[id].state = StatePublished
                     /\ id # TopicRoot =>
                          /\ Seed[id].subtopics # <<>>
                          /\ Seed[id].subtopicsLink <=> Seed[id].subtopics # Nil

VARIABLE topics   \* topics[id]: the document of topic id, Nil if there is none

-----------------------------------------------------------------------------
(* scripts/utils/topic.js, generateTopic: a seeded topic is live from the  *)
(* start.  A topic that was never published has no current subdocument.    *)

generateTopic(id) == [current |-> Seed[id], next |-> Seed[id]]

newTopic(id) ==
  [current |-> Nil, next |-> [Seed[id] EXCEPT !.state = StateCreated]]

InitTopics ==
  topics = [id \in Ids |-> IF id \in Missing THEN Nil
                           ELSE IF id \in Unpublished THEN newTopic(id)
                           ELSE generateTopic(id)]

Stored == {id \in Ids : topics[id] # Nil}

=============================================================================
