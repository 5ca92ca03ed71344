-------------------------- MODULE TopicPublication --------------------------
(***************************************************************************)
(* What the service promises of a topic: an editor changes the draft and   *)
(* only the draft, and publishing puts the whole draft live at one moment, *)
(* after which draft and live version are the same (models/topic.go,       *)
(* TopicResponse, and the comment at the head of models/state.go).         *)
(***************************************************************************)
EXTENDS TopicModel

VARIABLES
  draft,   \* draft[id]: the next version of each topic, Nil if there is no topic
  live     \* live[id]: the version the public sees, Nil until first published

vars == <<draft, live>>

Init ==
  /\ draft \in [Ids -> Version \cup {Nil}]
  /\ live \in [Ids -> Version \cup {Nil}]
  /\ \A id \in Ids : live[id] # Nil => /\ draft[id] # Nil
                                       /\ live[id].state = StatePublished

(* Any version may become the draft.                                       *)
Edit(id) ==
  /\ draft[id] # Nil
  /\ draft'[id] \in Version
  /\ draft' = [draft EXCEPT ![id] = draft'[id]]
  /\ UNCHANGED live

Publish(id) ==
  /\ draft[id] # Nil
  /\ draft' = [draft EXCEPT ![id] = AsPublished(@)]
  /\ live' = [live EXCEPT ![id] = AsPublished(draft[id])]

Next == \E id \in Ids : Edit(id) \/ Publish(id)

Spec == Init /\ [][Next]_vars

=============================================================================
