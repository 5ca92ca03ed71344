--------------------------- MODULE PublishingAPI ---------------------------
(***************************************************************************)
(* The private PUT endpoints of a topic: every request is handled by a     *)
(* goroutine of its own, and each call it makes to the store is one step,  *)
(* so that the calls of concurrent requests interleave.  A request slot in *)
(* Requests is reused as soon as its request is answered: behaviours have  *)
(* any number of requests, at most Cardinality(Requests) of them at once.  *)
(* The slots stand for the goroutines of all instances of the service that *)
(* share the database.                                                     *)
(***************************************************************************)
EXTENDS TopicStore

CONSTANTS
  Requests,   \* request slots
  Targets,    \* ids that requests name: a bound of the instances
  Serial      \* TRUE: a request is accepted only when no other is in progress

ASSUME ConcurrencyAssumption == Serial \in BOOLEAN /\ Targets \subseteq Ids

VARIABLES
  pc,      \* pc[q]: the store call that q makes next, "idle" if none
  req,     \* req[q]: the accepted request, Nil when idle
  copy,    \* copy[q]: the topic read by publishTopic and synchronised, or Nil
  resp,    \* resp[q]: the status of the last answer, Nil while in progress
  window   \* history: published forms of the drafts the topic had, from the
           \* update of the publish request in q (its arrival, for PUT state) to
           \* its read of the topic; no action reads it

vars == <<topics, pc, req, copy, resp, window>>

StoreCalls == {"UpdateReleaseDate", "UpdateState", "CheckTopicExists",
               "UpdateTopic", "GetTopic", "UpsertTopic"}

ReleaseRequest == [handler : {"PutReleaseDate"}, id : Ids, release : Dates]
StateRequest   == [handler : {"PutState"}, id : Ids, state : States]
TopicRequest   == [handler : {"PutTopic"}, id : Ids, update : ValidUpdate]

Request == ReleaseRequest \cup StateRequest \cup TopicRequest

ASSUME RequestAssumption == Nil \notin Request \cup Statuses

Publishes(r) ==
  \/ r.handler = "PutState" /\ r.state = StatePublished
  \/ r.handler = "PutTopic" /\ r.update.state = StatePublished

Idle(q) == pc[q] = "idle"

Init ==
  /\ InitTopics
  /\ pc = [q \in Requests |-> "idle"]
  /\ req = [q \in Requests |-> Nil]
  /\ copy = [q \in Requests |-> Nil]
  /\ resp = [q \in Requests |-> Nil]
  /\ window = [q \in Requests |-> {}]

-----------------------------------------------------------------------------
(* The ways a handler goes on: to its next store call, or to the answer.   *)

Accept(q, r, call) ==
  /\ pc' = [pc EXCEPT ![q] = call]
  /\ req' = [req EXCEPT ![q] = r]
  /\ resp' = [resp EXCEPT ![q] = Nil]
  /\ UNCHANGED <<topics, copy>>

Reject(q, err) ==
  /\ resp' = [resp EXCEPT ![q] = handleError[err]]
  /\ UNCHANGED <<topics, pc, req, copy>>

Goto(q, call) ==
  /\ pc' = [pc EXCEPT ![q] = call]
  /\ UNCHANGED <<req, resp>>

Reply(q, status) ==
  /\ pc' = [pc EXCEPT ![q] = "idle"]
  /\ req' = [req EXCEPT ![q] = Nil]
  /\ copy' = [copy EXCEPT ![q] = Nil]
  /\ resp' = [resp EXCEPT ![q] = status]

(* Wrong: every error is taken for a topic that is not there.              *)
ReplyErrorNotFound(q, err) == Reply(q, handleError["ErrTopicNotFound"])

ReplyError(q, err) == Reply(q, handleError[err])

(* The handlers write the error of publishTopic and then fall through to   *)
(* WriteHeader(200), which net/http ignores once a status is written.      *)
PublishReply(q, err) ==
  LET written == IF err = NoError THEN Nil ELSE handleError[err]
  IN  Reply(q, WriteHeader(written, 200))

-----------------------------------------------------------------------------
(* api/topic_private.go: the handlers up to their first store call.        *)

CanArrive(q) == Idle(q) /\ (Serial => \A p \in Requests : Idle(p))

putTopicReleaseDatePrivateHandler(q) ==
  /\ CanArrive(q)
  /\ \/ \E err \in ReadErrors : Reject(q, err)
     \/ \E date \in {Blank, Malformed} : Reject(q, ValidateRelease(date))
     \/ \E id \in Targets, date \in Dates :
          /\ ValidateRelease(date) = NoError
          /\ Accept(q, [handler |-> "PutReleaseDate", id |-> id, release |-> date],
                    "UpdateReleaseDate")

putTopicStatePrivateHandler(q) ==
  /\ CanArrive(q)
  /\ \/ Reject(q, ParseState(Malformed))
     \/ \E id \in Targets, state \in States :
          Accept(q, [handler |-> "PutState", id |-> id, state |-> state],
                 IF state = StatePublished THEN "GetTopic" ELSE "UpdateState")

putTopicPrivateHandler(q) ==
  /\ CanArrive(q)
  /\ \/ \E err \in ReadErrors : Reject(q, err)
     \/ \E err \in {ValidateUpdate(u) : u \in TopicUpdate} \ {NoError} : Reject(q, err)
     \/ \E id \in Targets, u \in ValidUpdate :
          Accept(q, [handler |-> "PutTopic", id |-> id, update |-> u],
                 "CheckTopicExists")

-----------------------------------------------------------------------------
(* mongo/topic_store.go: the store calls, each with what the handler does  *)
(* with its result.  A call that reports an error of the driver may or may *)
(* not have been applied.                                                  *)

At(q, call) == pc[q] = call

Found(q) == topics[req[q].id] # Nil

Store(q, doc) == topics' = [topics EXCEPT ![req[q].id] = doc]

StoreFailed(q) == UNCHANGED topics /\ ReplyError(q, "StoreError")

(* Wrong: the matched count of the update is not looked at.                *)
NotFoundUnnoticed(q) == ~Found(q) /\ UNCHANGED topics /\ Reply(q, 200)

NotFound(q) == /\ ~Found(q)
               /\ UNCHANGED topics
               /\ ReplyError(q, "ErrTopicNotFound")

UpdateReleaseDate(q) ==
  /\ At(q, "UpdateReleaseDate")
  /\ \/ /\ Found(q)
        /\ Store(q, setReleaseDate(topics[req[q].id], req[q].release))
        /\ Reply(q, 200) \/ ReplyError(q, "StoreError")
     \/ NotFound(q)
     \/ StoreFailed(q)

UpdateState(q) ==
  /\ At(q, "UpdateState")
  /\ \/ /\ Found(q)
        /\ Store(q, setState(topics[req[q].id], req[q].state))
        /\ Reply(q, 200) \/ ReplyError(q, "StoreError")
     \/ NotFound(q)
     \/ StoreFailed(q)

CheckTopicExists(q) ==
  /\ At(q, "CheckTopicExists")
  /\ \/ Found(q) /\ Goto(q, "UpdateTopic") /\ UNCHANGED <<topics, copy>>
     \/ NotFound(q)
     \/ StoreFailed(q)

(* Wrong: a failed update starts again from the check.                     *)
UpdateTopicRetried(q) ==
  /\ At(q, "UpdateTopic")
  /\ \/ /\ Found(q)
        /\ Store(q, createTopicUpdateQuery(topics[req[q].id], req[q].update))
        /\ \/ /\ Publishes(req[q])
              /\ Goto(q, "GetTopic") /\ UNCHANGED copy
           \/ /\ ~Publishes(req[q])
              /\ Reply(q, 200)
     \/ NotFound(q)
     \/ UNCHANGED <<topics, copy>> /\ Goto(q, "CheckTopicExists")

UpdateTopic(q) ==
  /\ At(q, "UpdateTopic")
  /\ \/ /\ Found(q)
        /\ Store(q, createTopicUpdateQuery(topics[req[q].id], req[q].update))
        /\ \/ /\ Publishes(req[q])
              /\ Goto(q, "GetTopic") /\ UNCHANGED copy
           \/ /\ ~Publishes(req[q])
              /\ Reply(q, 200)
           \/ ReplyError(q, "StoreError")
     \/ NotFound(q)
     \/ StoreFailed(q)

(* publishTopic: read the topic, synchronise the local copy ...            *)
GetTopic(q) ==
  /\ At(q, "GetTopic")
  /\ UNCHANGED topics
  /\ \/ /\ Found(q)
        /\ copy' = [copy EXCEPT ![q] = publishedCopy(topics[req[q].id])]
        /\ Goto(q, "UpsertTopic")
     \/ ~Found(q) /\ PublishReply(q, "ErrTopicNotFound")
     \/ PublishReply(q, "StoreError")

(* ... and write it back.  The upsert inserts the copy when the document   *)
(* has gone, and then reports that it was not found.                       *)
UpsertTopic(q) ==
  /\ At(q, "UpsertTopic")
  /\ \/ /\ Store(q, copy[q])
        /\ \/ Found(q) /\ PublishReply(q, NoError)
           \/ ~Found(q) /\ PublishReply(q, "ErrTopicNotFound")
           \/ PublishReply(q, "StoreError")
     \/ UNCHANGED topics /\ PublishReply(q, "StoreError")

-----------------------------------------------------------------------------
(* An instance of the service is killed with the request in progress: it   *)
(* ends where it is, without an answer.                                    *)
Abandon(q) ==
  /\ ~Idle(q)
  /\ pc' = [pc EXCEPT ![q] = "idle"]
  /\ req' = [req EXCEPT ![q] = Nil]
  /\ copy' = [copy EXCEPT ![q] = Nil]
  /\ UNCHANGED <<topics, resp>>

Arrive(q) ==
  \/ putTopicReleaseDatePrivateHandler(q)
  \/ putTopicStatePrivateHandler(q)
  \/ putTopicPrivateHandler(q)

StoreCall(q) ==
  \/ UpdateReleaseDate(q)
  \/ UpdateState(q)
  \/ CheckTopicExists(q)
  \/ UpdateTopic(q)
  \/ GetTopic(q)
  \/ UpsertTopic(q)

Step == \E q \in Requests : Arrive(q) \/ StoreCall(q) \/ Abandon(q)

(* The published form of the draft of topic id after the step, if any.     *)
draftsNow(id) ==
  IF topics'[id] = Nil THEN {} ELSE {AsPublished(topics'[id].next)}

Observe ==
  window' = [q \in Requests |->
               IF pc'[q] = "GetTopic" THEN window[q] \cup draftsNow(req'[q].id)
               ELSE IF pc'[q] = "UpsertTopic" THEN window[q]
               ELSE {}]

Next == Step /\ Observe

(* A store call returns: the driver gives up at its query timeout.         *)
Fairness == \A q \in Requests : WF_vars(StoreCall(q) /\ Observe)

Spec == Init /\ [][Next]_vars

FairSpec == Spec /\ Fairness

-----------------------------------------------------------------------------
(* Properties.                                                             *)

Live(id)  == IF topics[id] = Nil THEN Nil ELSE topics[id].current
Draft(id) == IF topics[id] = Nil THEN Nil ELSE topics[id].next

(* What the position of a handler says of its request: it is not answered, *)
(* it has passed validation, only a publish request comes to the two last  *)
(* calls, and only the upsert has a copy to write.                         *)
SlotOK(q) ==
  /\ pc[q] = "idle" <=> req[q] = Nil
  /\ pc[q] # "idle" => resp[q] = Nil
  /\ pc[q] = "UpdateReleaseDate" => req[q] \in ReleaseRequest
  /\ pc[q] = "UpdateState" => req[q] \in StateRequest /\ ~Publishes(req[q])
  /\ pc[q] \in {"CheckTopicExists", "UpdateTopic"} => req[q] \in TopicRequest
  /\ pc[q] \in {"GetTopic", "UpsertTopic"} =>
       req[q] \in StateRequest \cup TopicRequest /\ Publishes(req[q])
  /\ copy[q] # Nil <=> pc[q] = "UpsertTopic"

(* Every variable holds what its Go type allows: in particular, no document *)
(* ever holds a state or a date that validation would have refused.         *)
TypeOK ==
  /\ topics \in [Ids -> TopicDoc \cup {Nil}]
  /\ pc \in [Requests -> StoreCalls \cup {"idle"}]
  /\ req \in [Requests -> Request \cup {Nil}]
  /\ copy \in [Requests -> TopicDoc \cup {Nil}]
  /\ resp \in [Requests -> Statuses \cup {Nil}]
  /\ window \in [Requests -> SUBSET Version]
  /\ \A q \in Requests : SlotOK(q)

(* What the public sees of a topic is always in the state "published",     *)
(* whatever edits, crashes and failed calls happen around it.              *)
LivePublished ==
  \A id \in Ids : Live(id) # Nil => Live(id).state = StatePublished

Linked(v) == v.subtopicsLink <=> v.subtopics \notin {Nil, <<>>}

(* A version of a topic, draft or live, links to its subtopics exactly     *)
(* when it has some, through any sequence of updates and publishes; the    *)
(* root topic has no links.                                                *)
LinksMatchSubtopics ==
  \A id \in Ids \ {TopicRoot} :
    /\ Draft(id) # Nil => Linked(Draft(id))
    /\ Live(id) # Nil => Linked(Live(id))

LiveComesFromWindow(id) ==
  \/ Live(id)' = Live(id)
  \/ \E q \in Requests : /\ pc[q] = "UpsertTopic"
                          /\ req[q].id = id
                          /\ Live(id)' \in window[q]

(* The live version changes only by a publish request for that topic, and  *)
(* then to the published form of a draft that the topic really had before  *)
(* the request read it and not before its own update was stored: what goes *)
(* live may be overtaken, but it is never invented or left over.           *)
PublishWritesSeenDraft == [][\A id \in Ids : LiveComesFromWindow(id)]_vars

(* The fields of a draft that each update call is for.                     *)
Edits ==
  [ UpdateReleaseDate |-> {"release"},
    UpdateState       |-> {"state"},
    UpdateTopic       |-> {"state", "release", "details", "subtopics", "subtopicsLink"} ]

EditedBy(q, id) ==
  /\ pc[q] \in DOMAIN Edits
  /\ req[q].id = id
  /\ Nil \notin {Draft(id), Draft(id)'}
  /\ \A f \in DOMAIN Draft(id) \ Edits[pc[q]] : Draft(id)'[f] = Draft(id)[f]
  /\ Live(id)' = Live(id)

OverwrittenBy(q, id) ==
  /\ pc[q] = "UpsertTopic"
  /\ req[q].id = id
  /\ Draft(id)' \in window[q]
  /\ Live(id)' = Draft(id)'

(* What editors have put in a draft stays: a field of it changes by a      *)
(* request for that topic and that field, which leaves the rest and the    *)
(* live version alone, or it is lost to a publish request for the topic,   *)
(* which may put back, in both places, a draft that it has seen.           *)
DraftsAreKept ==
  [][ \A id \in Ids : Draft(id)' # Draft(id) =>
        \E q \in Requests : EditedBy(q, id) \/ OverwrittenBy(q, id) ]_vars

(* The version has the contents that the update sets.  The slug of the     *)
(* update is not one of them; UpdateSetsSlug below is about it.            *)
Carries(v, u) ==
  /\ v.details = u.details
  /\ v.release = u.release
  /\ v.subtopics = Optional(u.subtopics)

(* The last store call of the request r has had its effect on the document *)
(* doc.  For a publish request that is the write of publishTopic, which    *)
(* makes the topic live as it was read: what was read is another matter.   *)
Applied(r, doc) ==
  IF Publishes(r)
  THEN doc.current = doc.next /\ doc.current.state = StatePublished
  ELSE /\ r.handler = "PutReleaseDate" => doc.next.release = r.release
       /\ r.handler = "PutState" => doc.next.state = r.state
       /\ r.handler = "PutTopic" =>
            Carries(doc.next, r.update) /\ doc.next.state = r.update.state

Answers(q, status) == req[q] # Nil /\ req'[q] = Nil /\ resp'[q] = status

(* Between the update of the publish request in q and its read, the draft  *)
(* was changed by somebody else.                                           *)
Overtaken(q) == \E v, w \in window[q] : v # w

PublishedAsRead(q, v) ==
  /\ v \in window[q]
  /\ req[q].handler = "PutTopic" => Carries(v, req[q].update) \/ Overtaken(q)

AnswerHolds(q) ==
  Answers(q, 200) =>
    /\ topics'[req[q].id] # Nil
    /\ Applied(req[q], topics'[req[q].id])
    /\ Publishes(req[q]) => PublishedAsRead(q, topics'[req[q].id].current)

(* What the answer 200 means, however the request was interleaved with     *)
(* others.  At that moment an edit that does not publish is in the draft.  *)
(* After a publish request the topic is live and equal to the draft, with  *)
(* a draft that it had since the request's own update; that is the update  *)
(* itself, with all that it sets, unless another write changed the draft   *)
(* after the update and before publishTopic read it.  (Then the update may *)
(* be lost altogether, though it was answered 200.)                        *)
AcknowledgedIsApplied == [][\A q \in Requests : AnswerHolds(q)]_vars

(* With one request at a time, an update that asks for the published state *)
(* and is answered 200 is live with the title, description, keywords,      *)
(* release date and subtopics of that update.                              *)
AcknowledgedUpdateIsLive ==
  [][ \A q \in Requests, id \in Ids :
        /\ Answers(q, 200)
        /\ req[q].handler = "PutTopic" /\ req[q].id = id /\ Publishes(req[q])
        => Carries(Live(id)', req[q].update) ]_vars

(* Every request ends: it is answered, or its instance is gone.            *)
RequestsEnd == \A q \in Requests : ~Idle(q) ~> Idle(q)

(* With one request at a time, the handlers implement the abstract         *)
(* publication of topics.                                                  *)
Publication == INSTANCE TopicPublication
  WITH draft <- [id \in Ids |-> Draft(id)], live <- [id \in Ids |-> Live(id)]

PublicationSpec == Publication!Spec

-----------------------------------------------------------------------------
(* What the comments say and the code does not do.  Each of these is       *)
(* refuted by a run.                                                       *)

(* models/state.go:10-16: a topic goes from created to completed, from     *)
(* completed to published, and back to created when it is next edited.     *)
StatesFollowTable ==
  [][ \A id \in Ids :
        /\ Draft(id) # Nil /\ Draft(id)' # Nil
        /\ Draft(id)'.state # Draft(id).state
        => TransitionAllowed(Draft(id).state, Draft(id)'.state) ]_vars

(* swagger.yaml:455-466: an update carries the slug of the topic, among    *)
(* the fields it requires.                                                 *)
UpdateSetsSlug ==
  [][ \A q \in Requests, id \in Ids :
        /\ Answers(q, 200)
        /\ req[q].handler = "PutTopic" /\ req[q].id = id /\ req[q].update.slug # Blank
        => Draft(id)'.slug = req[q].update.slug ]_vars

(* models/topic.go:24-25: publishing copies the next over the current, so  *)
(* that what goes live is the next version stored at that moment.          *)
PublishCopiesNext ==
  [][ \A id \in Ids : Live(id)' # Live(id) => Live(id)' = AsPublished(Draft(id)) ]_vars

=============================================================================
