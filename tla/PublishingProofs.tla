-------------------------- MODULE PublishingProofs --------------------------
(***************************************************************************)
(* Theorems about PublishingAPI, for every set of topics, of request slots *)
(* and of field values, with and without concurrent requests.              *)
(***************************************************************************)
EXTENDS PublishingAPI, TLAPS

-----------------------------------------------------------------------------
(* Lemmas about the pure functions of TopicModel.                          *)

(* The domain of the transition table.                                     *)
LEMMA StatesValue == States = {"created", "published", "completed"}
BY DEF States, stateTransitionTable

(* A body that passes validation can be stored field by field.             *)
LEMMA ValidUpdateFields ==
  ASSUME NEW u \in ValidUpdate
  PROVE  /\ u.state \in States
         /\ u.release \in Dates
         /\ u.details \in Details
         /\ u.subtopics \in SubtopicLists
BY ModelAssumption
   DEF ValidUpdate, TopicUpdate, ValidateUpdate, ParseState, ValidateRelease, NoError

(* Marking a version as published yields a version.                        *)
LEMMA AsPublishedType ==
  ASSUME NEW v \in Version
  PROVE  /\ AsPublished(v) \in Version
         /\ AsPublished(v).state = StatePublished
         /\ AsPublished(v).subtopics = v.subtopics
         /\ AsPublished(v).subtopicsLink = v.subtopicsLink
         /\ AsPublished(v).slug = v.slug
         /\ AsPublished(AsPublished(v)) = AsPublished(v)
BY StatesValue DEF AsPublished, Version, StatePublished

(* The three updates keep a document well formed and leave its current     *)
(* subdocument alone; an update of the whole topic sets what it names.     *)
LEMMA SetReleaseDateDoc ==
  ASSUME NEW doc \in TopicDoc, NEW date \in Dates
  PROVE  /\ setReleaseDate(doc, date) \in TopicDoc
         /\ setReleaseDate(doc, date).current = doc.current
         /\ setReleaseDate(doc, date).next.release = date
         /\ setReleaseDate(doc, date).next.slug = doc.next.slug
         /\ setReleaseDate(doc, date).next.subtopics = doc.next.subtopics
         /\ setReleaseDate(doc, date).next.subtopicsLink = doc.next.subtopicsLink
BY DEF setReleaseDate, TopicDoc, Version

LEMMA SetStateDoc ==
  ASSUME NEW doc \in TopicDoc, NEW state \in States
  PROVE  /\ setState(doc, state) \in TopicDoc
         /\ setState(doc, state).current = doc.current
         /\ setState(doc, state).next.state = state
         /\ setState(doc, state).next.slug = doc.next.slug
         /\ setState(doc, state).next.subtopics = doc.next.subtopics
         /\ setState(doc, state).next.subtopicsLink = doc.next.subtopicsLink
BY DEF setState, TopicDoc, Version

(* What every version but the root's is like: it links to its subtopics    *)
(* exactly when it has some, and its list, when there is one, is not empty. *)
Tidy(v) == Linked(v) /\ v.subtopics # <<>>

LEMMA UpdateQueryDoc ==
  ASSUME NEW doc \in TopicDoc, NEW u \in ValidUpdate
  PROVE  /\ createTopicUpdateQuery(doc, u) \in TopicDoc
         /\ createTopicUpdateQuery(doc, u).current = doc.current
         /\ Carries(createTopicUpdateQuery(doc, u).next, u)
         /\ createTopicUpdateQuery(doc, u).next.state = u.state
         /\ createTopicUpdateQuery(doc, u).next.slug = doc.next.slug
         /\ Tidy(createTopicUpdateQuery(doc, u).next)
<1>1. u.subtopics \in Seq(Ids) /\ u.subtopics # Nil
  BY ValidUpdateFields, ModelAssumption
<1>2. /\ createTopicUpdateQuery(doc, u).current = doc.current
      /\ createTopicUpdateQuery(doc, u).next =
           [doc.next EXCEPT !.details       = u.details,
                            !.release       = u.release,
                            !.state         = u.state,
                            !.subtopics     = Optional(u.subtopics),
                            !.subtopicsLink = u.subtopics # <<>>]
      /\ createTopicUpdateQuery(doc, u) \in TopicDoc
  BY <1>1, ValidUpdateFields DEF createTopicUpdateQuery, TopicDoc, Version, Optional
<1>3. doc.next \in Version
  BY DEF TopicDoc
<1>4. /\ createTopicUpdateQuery(doc, u).next.subtopics = Optional(u.subtopics)
      /\ createTopicUpdateQuery(doc, u).next.subtopicsLink = (u.subtopics # <<>>)
      /\ createTopicUpdateQuery(doc, u).next.state = u.state
      /\ createTopicUpdateQuery(doc, u).next.slug = doc.next.slug
      /\ Carries(createTopicUpdateQuery(doc, u).next, u)
  BY <1>2, <1>3 DEF Version, Carries
<1>5. Tidy(createTopicUpdateQuery(doc, u).next)
  BY <1>1, <1>4 DEF Tidy, Linked, Optional
<1> QED
  BY <1>2, <1>4, <1>5

(* What publishTopic writes back: one published version, in both places.   *)
LEMMA PublishedCopyDoc ==
  ASSUME NEW doc \in TopicDoc
  PROVE  /\ publishedCopy(doc) \in TopicDoc
         /\ publishedCopy(doc).current = AsPublished(doc.next)
         /\ publishedCopy(doc).next = AsPublished(doc.next)
BY AsPublishedType DEF publishedCopy, syncNextAndCurrentTopic, TopicDoc

-----------------------------------------------------------------------------
(* Type correctness.  Every step ends in one of the five ways below, each  *)
(* of which changes one slot only; the history variable is added last.     *)

CoreOK ==
  /\ topics \in [Ids -> TopicDoc \cup {Nil}]
  /\ pc \in [Requests -> StoreCalls \cup {"idle"}]
  /\ req \in [Requests -> Request \cup {Nil}]
  /\ copy \in [Requests -> TopicDoc \cup {Nil}]
  /\ resp \in [Requests -> Statuses \cup {Nil}]
  /\ \A q \in Requests : SlotOK(q)

TopicsOK == topics \in [Ids -> TopicDoc \cup {Nil}]

(* Every error the handlers report has a status.                           *)
LEMMA ErrorStatus ==
  \A err \in {"ErrTopicNotFound", "ErrContentNotFound", "ErrNotFound",
               "ErrUnableToReadMessage", "ErrEmptyRequestBody",
               "ErrInvalidReleaseDate", "ErrTopicInvalidState",
               "ErrTopicMissingFields", "ErrInternalServer", "StoreError"} :
    handleError[err] \in Statuses /\ handleError[err] # 200
BY DEF handleError, Statuses

LEMMA ReplyType ==
  ASSUME CoreOK, TopicsOK', NEW q \in Requests, NEW status \in Statuses,
         Reply(q, status)
  PROVE  CoreOK'
BY RequestAssumption, ModelAssumption
   DEF CoreOK, TopicsOK, Reply, SlotOK, StoreCalls, Publishes

LEMMA RejectType ==
  ASSUME CoreOK, NEW q \in Requests, Idle(q),
         NEW err, handleError[err] \in Statuses, Reject(q, err)
  PROVE  CoreOK'
BY DEF CoreOK, Reject, Idle, SlotOK, StoreCalls, Publishes

LEMMA AcceptType ==
  ASSUME CoreOK, NEW q \in Requests, Idle(q), NEW r \in Request, NEW call \in StoreCalls,
         Accept(q, r, call),
         call = "UpdateReleaseDate" => r \in ReleaseRequest,
         call = "UpdateState" => r \in StateRequest /\ ~Publishes(r),
         call = "CheckTopicExists" => r \in TopicRequest,
         call = "GetTopic" => r \in StateRequest /\ Publishes(r),
         call \notin {"UpdateTopic", "UpsertTopic"}
  PROVE  CoreOK'
BY RequestAssumption, ModelAssumption
   DEF CoreOK, Accept, Idle, SlotOK, StoreCalls, Publishes

LEMMA GotoType ==
  ASSUME CoreOK, TopicsOK', NEW q \in Requests, NEW call \in StoreCalls,
         Goto(q, call), UNCHANGED copy,
         req[q] \in TopicRequest, copy[q] = Nil,
         call \in {"UpdateTopic", "GetTopic"},
         call = "GetTopic" => Publishes(req[q])
  PROVE  CoreOK'
BY RequestAssumption, ModelAssumption
   DEF CoreOK, TopicsOK, Goto, SlotOK, StoreCalls, Publishes, Request

(* A document written to the request's topic keeps the collection typed.   *)
LEMMA StoreType ==
  ASSUME TopicsOK, NEW q \in Requests, NEW doc \in TopicDoc, Store(q, doc)
  PROVE  TopicsOK'
BY DEF TopicsOK, Store

LEMMA StoreErrorReply ==
  ASSUME CoreOK, TopicsOK', NEW q \in Requests, ReplyError(q, "StoreError")
  PROVE  CoreOK'
BY ErrorStatus, ReplyType DEF ReplyError

LEMMA FailureType ==
  ASSUME CoreOK, NEW q \in Requests, NotFound(q) \/ StoreFailed(q)
  PROVE  CoreOK'
<1>1. TopicsOK'
  BY DEF CoreOK, TopicsOK, NotFound, StoreFailed
<1>2. ReplyError(q, "ErrTopicNotFound") \/ ReplyError(q, "StoreError")
  BY DEF NotFound, StoreFailed
<1> QED
  BY <1>1, <1>2, ErrorStatus, ReplyType DEF ReplyError

LEMMA PublishReplyType ==
  ASSUME CoreOK, TopicsOK', NEW q \in Requests,
         NEW err \in {NoError, "ErrTopicNotFound", "StoreError"},
         PublishReply(q, err)
  PROVE  CoreOK'
<1>1. PICK status \in Statuses : Reply(q, status)
  <2>1. CASE err = NoError
    BY <2>1 DEF PublishReply, WriteHeader, Statuses
  <2>2. CASE err # NoError
    BY <2>2, ErrorStatus DEF PublishReply, WriteHeader, Statuses
  <2> QED
    BY <2>1, <2>2
<1> QED
  BY <1>1, ReplyType

LEMMA ArriveType ==
  ASSUME CoreOK, NEW q \in Requests, Arrive(q)
  PROVE  CoreOK'
<1> Idle(q)
  BY DEF Arrive, putTopicReleaseDatePrivateHandler, putTopicStatePrivateHandler,
         putTopicPrivateHandler, CanArrive
<1>1. CASE putTopicReleaseDatePrivateHandler(q)
  <2>1. CASE \E err \in ReadErrors : Reject(q, err)
    BY <2>1, RejectType, ErrorStatus DEF ReadErrors
  <2>2. CASE \E date \in {Blank, Malformed} : Reject(q, ValidateRelease(date))
    BY <2>2, RejectType, ErrorStatus, ModelAssumption DEF ValidateRelease
  <2>3. ASSUME NEW id \in Targets, NEW date \in Dates,
               Accept(q, [handler |-> "PutReleaseDate", id |-> id, release |-> date],
                      "UpdateReleaseDate")
        PROVE  CoreOK'
    BY <2>3, AcceptType, ConcurrencyAssumption DEF ReleaseRequest, Request, StoreCalls
  <2> QED
    BY <1>1, <2>1, <2>2, <2>3 DEF putTopicReleaseDatePrivateHandler
<1>2. CASE putTopicStatePrivateHandler(q)
  <2>1. CASE Reject(q, ParseState(Malformed))
    BY <2>1, RejectType, ErrorStatus, ModelAssumption DEF ParseState
  <2>2. ASSUME NEW id \in Targets, NEW state \in States,
               Accept(q, [handler |-> "PutState", id |-> id, state |-> state],
                      IF state = StatePublished THEN "GetTopic" ELSE "UpdateState")
        PROVE  CoreOK'
    <3> DEFINE r == [handler |-> "PutState", id |-> id, state |-> state]
    <3>1. r \in StateRequest /\ r \in Request
      BY ConcurrencyAssumption DEF StateRequest, Request
    <3>2. Publishes(r) <=> state = StatePublished
      BY DEF Publishes
    <3> QED
      BY <2>2, <3>1, <3>2, AcceptType DEF StoreCalls
  <2> QED
    BY <1>2, <2>1, <2>2 DEF putTopicStatePrivateHandler
<1>3. CASE putTopicPrivateHandler(q)
  <2>1. CASE \E err \in ReadErrors : Reject(q, err)
    BY <2>1, RejectType, ErrorStatus DEF ReadErrors
  <2>2. ASSUME NEW u \in TopicUpdate, ValidateUpdate(u) # NoError,
               Reject(q, ValidateUpdate(u))
        PROVE  CoreOK'
    <3>1. ValidateUpdate(u) \in
            {"ErrTopicMissingFields", "ErrTopicInvalidState", "ErrInvalidReleaseDate"}
      BY <2>2 DEF ValidateUpdate, ParseState, ValidateRelease
    <3> QED
      BY <2>2, <3>1, RejectType, ErrorStatus
  <2>3. ASSUME NEW id \in Targets, NEW u \in ValidUpdate,
               Accept(q, [handler |-> "PutTopic", id |-> id, update |-> u],
                      "CheckTopicExists")
        PROVE  CoreOK'
    BY <2>3, AcceptType, ConcurrencyAssumption DEF TopicRequest, Request, StoreCalls
  <2> QED
    BY <1>3, <2>1, <2>2, <2>3 DEF putTopicPrivateHandler
<1> QED
  BY <1>1, <1>2, <1>3 DEF Arrive

(* The document and the request that a store call works on.                *)
LEMMA CallContext ==
  ASSUME CoreOK, NEW q \in Requests, ~Idle(q)
  PROVE  /\ req[q] \in Request
         /\ req[q].id \in Ids
         /\ TopicsOK
         /\ Found(q) => topics[req[q].id] \in TopicDoc
BY RequestAssumption
   DEF CoreOK, SlotOK, Idle, TopicsOK, Found, Request, ReleaseRequest, StateRequest,
       TopicRequest

LEMMA UpdateReleaseDateType ==
  ASSUME CoreOK, NEW q \in Requests, UpdateReleaseDate(q)
  PROVE  CoreOK'
<1>1. ~Idle(q) /\ req[q] \in ReleaseRequest
  BY DEF UpdateReleaseDate, At, Idle, CoreOK, SlotOK
<1>2. ASSUME Found(q), Store(q, setReleaseDate(topics[req[q].id], req[q].release)),
             Reply(q, 200) \/ ReplyError(q, "StoreError")
      PROVE  CoreOK'
  <2>1. setReleaseDate(topics[req[q].id], req[q].release) \in TopicDoc
    BY <1>1, <1>2, CallContext, SetReleaseDateDoc DEF ReleaseRequest
  <2>2. TopicsOK'
    BY <1>1, <1>2, <2>1, CallContext, StoreType
  <2> QED
    BY <1>2, <2>2, ReplyType, StoreErrorReply DEF Statuses
<1> QED
  BY <1>2, FailureType DEF UpdateReleaseDate

LEMMA UpdateStateType ==
  ASSUME CoreOK, NEW q \in Requests, UpdateState(q)
  PROVE  CoreOK'
<1>1. ~Idle(q) /\ req[q] \in StateRequest
  BY DEF UpdateState, At, Idle, CoreOK, SlotOK
<1>2. ASSUME Found(q), Store(q, setState(topics[req[q].id], req[q].state)),
             Reply(q, 200) \/ ReplyError(q, "StoreError")
      PROVE  CoreOK'
  <2>1. setState(topics[req[q].id], req[q].state) \in TopicDoc
    BY <1>1, <1>2, CallContext, SetStateDoc DEF StateRequest
  <2>2. TopicsOK'
    BY <1>1, <1>2, <2>1, CallContext, StoreType
  <2> QED
    BY <1>2, <2>2, ReplyType, StoreErrorReply DEF Statuses
<1> QED
  BY <1>2, FailureType DEF UpdateState

LEMMA CheckTopicExistsType ==
  ASSUME CoreOK, NEW q \in Requests, CheckTopicExists(q)
  PROVE  CoreOK'
<1>1. CASE Found(q) /\ Goto(q, "UpdateTopic") /\ UNCHANGED <<topics, copy>>
  <2>1. req[q] \in TopicRequest /\ copy[q] = Nil
    BY DEF CheckTopicExists, At, CoreOK, SlotOK
  <2>2. TopicsOK'
    BY <1>1 DEF CoreOK, TopicsOK
  <2> QED
    BY <1>1, <2>1, <2>2, GotoType DEF StoreCalls
<1> QED
  BY <1>1, FailureType DEF CheckTopicExists

LEMMA UpdateTopicType ==
  ASSUME CoreOK, NEW q \in Requests, UpdateTopic(q)
  PROVE  CoreOK'
<1>1. ~Idle(q) /\ req[q] \in TopicRequest /\ copy[q] = Nil
  BY DEF UpdateTopic, At, Idle, CoreOK, SlotOK
<1>2. ASSUME Found(q), Store(q, createTopicUpdateQuery(topics[req[q].id], req[q].update))
      PROVE  TopicsOK'
  <2>1. createTopicUpdateQuery(topics[req[q].id], req[q].update) \in TopicDoc
    BY <1>1, <1>2, CallContext, UpdateQueryDoc DEF TopicRequest
  <2> QED
    BY <1>1, <1>2, <2>1, CallContext, StoreType
<1>3. CASE /\ Found(q)
           /\ Store(q, createTopicUpdateQuery(topics[req[q].id], req[q].update))
           /\ Publishes(req[q]) /\ Goto(q, "GetTopic") /\ UNCHANGED copy
  BY <1>1, <1>2, <1>3, GotoType DEF StoreCalls
<1>4. CASE /\ Found(q)
           /\ Store(q, createTopicUpdateQuery(topics[req[q].id], req[q].update))
           /\ Reply(q, 200) \/ ReplyError(q, "StoreError")
  BY <1>2, <1>4, ReplyType, StoreErrorReply DEF Statuses
<1> QED
  BY <1>3, <1>4, FailureType DEF UpdateTopic

LEMMA GetTopicType ==
  ASSUME CoreOK, NEW q \in Requests, GetTopic(q)
  PROVE  CoreOK'
<1>1. ~Idle(q) /\ TopicsOK'
  BY DEF GetTopic, At, Idle, CoreOK, TopicsOK
<1>2. ASSUME Found(q),
             copy' = [copy EXCEPT ![q] = publishedCopy(topics[req[q].id])],
             Goto(q, "UpsertTopic")
      PROVE  CoreOK'
  <2>1. publishedCopy(topics[req[q].id]) \in TopicDoc
    BY <1>1, <1>2, CallContext, PublishedCopyDoc
  <2>2. publishedCopy(topics[req[q].id]) # Nil
    BY <2>1, ModelAssumption
  <2> QED
    BY <1>1, <1>2, <2>1, <2>2 
       DEF GetTopic, At, CoreOK, TopicsOK, Goto, SlotOK, StoreCalls, Publishes
<1>3. CASE \E err \in {"ErrTopicNotFound", "StoreError"} : PublishReply(q, err)
  BY <1>1, <1>3, PublishReplyType
<1> QED
  BY <1>2, <1>3 DEF GetTopic

LEMMA UpsertTopicType ==
  ASSUME CoreOK, NEW q \in Requests, UpsertTopic(q)
  PROVE  CoreOK'
<1>1. ~Idle(q) /\ copy[q] \in TopicDoc
  BY DEF UpsertTopic, At, Idle, CoreOK, SlotOK
<1>2. TopicsOK'
  BY <1>1, CallContext, StoreType DEF UpsertTopic, TopicsOK
<1>3. \E err \in {NoError, "ErrTopicNotFound", "StoreError"} : PublishReply(q, err)
  BY DEF UpsertTopic
<1> QED
  BY <1>2, <1>3, PublishReplyType

LEMMA StoreCallType ==
  ASSUME CoreOK, NEW q \in Requests, StoreCall(q)
  PROVE  CoreOK'
BY UpdateReleaseDateType, UpdateStateType, CheckTopicExistsType, UpdateTopicType,
   GetTopicType, UpsertTopicType DEF StoreCall

LEMMA AbandonType ==
  ASSUME CoreOK, NEW q \in Requests, Abandon(q)
  PROVE  CoreOK'
BY RequestAssumption, ModelAssumption
   DEF CoreOK, Abandon, SlotOK, StoreCalls, Publishes

(* A seeded document is well formed.                                       *)
LEMMA SeedType ==
  ASSUME NEW id \in Ids
  PROVE  /\ Seed[id] \in Version
         /\ generateTopic(id) \in TopicDoc
         /\ newTopic(id) \in TopicDoc
BY StoreAssumption, StatesValue
   DEF generateTopic, newTopic, TopicDoc, Version, StateCreated

LEMMA StepType ==
  ASSUME CoreOK, Step
  PROVE  CoreOK'
BY ArriveType, StoreCallType, AbandonType DEF Step

(* The history variable: only published versions enter a window.           *)
LEMMA ObserveType ==
  ASSUME TypeOK, CoreOK', Observe
  PROVE  TypeOK'
<1>1. ASSUME NEW q \in Requests, req'[q] # Nil
      PROVE  draftsNow(req'[q].id) \subseteq Version
  <2>1. req'[q].id \in Ids
    BY <1>1 DEF CoreOK, Request, ReleaseRequest, StateRequest, TopicRequest
  <2>2. CASE topics'[req'[q].id] = Nil
    BY <2>2 DEF draftsNow
  <2>3. CASE topics'[req'[q].id] # Nil
    <3>1. topics'[req'[q].id].next \in Version
      BY <2>1, <2>3 DEF CoreOK, TopicDoc
    <3> QED
      BY <2>3, <3>1, AsPublishedType DEF draftsNow
  <2> QED
    BY <2>2, <2>3
<1>2. ASSUME NEW q \in Requests PROVE window'[q] \subseteq Version
  <2>1. CASE pc'[q] = "GetTopic"
    <3>1. req'[q] # Nil
      BY <2>1 DEF CoreOK, SlotOK
    <3> QED
      BY <1>1, <2>1, <3>1 DEF Observe, TypeOK
  <2> QED
    BY <2>1 DEF Observe, TypeOK
<1>3. window' \in [Requests -> SUBSET Version]
  BY <1>2 DEF Observe
<1> QED
  BY <1>3 DEF CoreOK, TypeOK

LEMMA TypeInit == Init => TypeOK
<1> SUFFICES ASSUME Init PROVE TypeOK
  OBVIOUS
<1>1. topics \in [Ids -> TopicDoc \cup {Nil}]
  BY SeedType DEF Init, InitTopics
<1> QED
  BY <1>1, ModelAssumption DEF Init, TypeOK, SlotOK, StoreCalls

LEMMA TypeStep == TypeOK /\ [Next]_vars => TypeOK'
<1> SUFFICES ASSUME TypeOK, [Next]_vars PROVE TypeOK'
  OBVIOUS
<1>1. CASE Next
  BY <1>1, StepType, ObserveType DEF Next, TypeOK, CoreOK
<1>2. CASE UNCHANGED vars
  BY <1>2 DEF vars, TypeOK, SlotOK
<1> QED
  BY <1>1, <1>2

(* Whatever the requests, their interleaving, the failures of the store    *)
(* and the crashes, every variable stays well typed and every handler is   *)
(* where its request belongs.                                              *)
THEOREM TypeCorrect == Spec => []TypeOK
BY TypeInit, TypeStep, PTL DEF Spec

-----------------------------------------------------------------------------
(* Safety.  What a step may do to the collection, and to the copy held by  *)
(* a publish request; the invariants follow from these two facts.          *)

(* An update document changes the draft only, keeps its slug, and keeps it *)
(* tidy.                                                                   *)
EditOf(doc, new) ==
  /\ new.current = doc.current
  /\ new.next.slug = doc.next.slug
  /\ Tidy(doc.next) => Tidy(new.next)

EditStep ==
  \E id \in Ids, new \in TopicDoc :
    /\ topics[id] \in TopicDoc
    /\ EditOf(topics[id], new)
    /\ topics' = [topics EXCEPT ![id] = new]

UpsertStep ==
  \E q \in Requests : pc[q] = "UpsertTopic" /\ Store(q, copy[q])

LEMMA SetReleaseDateIsEdit ==
  ASSUME NEW doc \in TopicDoc, NEW date \in Dates
  PROVE  EditOf(doc, setReleaseDate(doc, date))
BY SetReleaseDateDoc DEF EditOf, Tidy, Linked

LEMMA SetStateIsEdit ==
  ASSUME NEW doc \in TopicDoc, NEW state \in States
  PROVE  EditOf(doc, setState(doc, state))
BY SetStateDoc DEF EditOf, Tidy, Linked

LEMMA UpdateQueryIsEdit ==
  ASSUME NEW doc \in TopicDoc, NEW u \in ValidUpdate
  PROVE  EditOf(doc, createTopicUpdateQuery(doc, u))
BY UpdateQueryDoc DEF EditOf, Tidy, Linked

LEMMA EditStepIntro ==
  ASSUME NEW id \in Ids, NEW new \in TopicDoc, topics[id] \in TopicDoc,
         EditOf(topics[id], new), topics' = [topics EXCEPT ![id] = new]
  PROVE  EditStep
BY DEF EditStep

LEMMA StepTopics ==
  ASSUME CoreOK, Step
  PROVE  UNCHANGED topics \/ EditStep \/ UpsertStep
<1> USE DEF CoreOK
<1>0. CoreOK /\ TopicsOK
  BY DEF CoreOK, TopicsOK
<1>1. ASSUME NEW q \in Requests, UpdateReleaseDate(q)
      PROVE  UNCHANGED topics \/ EditStep
  <2>1. ~Idle(q) /\ req[q] \in ReleaseRequest
    BY <1>1 DEF UpdateReleaseDate, At, Idle, SlotOK
  <2>2. CASE Found(q) /\ Store(q, setReleaseDate(topics[req[q].id], req[q].release))
    <3>1. topics[req[q].id] \in TopicDoc /\ req[q].id \in Ids
      BY <1>0, <2>1, <2>2, CallContext
    <3>2. /\ setReleaseDate(topics[req[q].id], req[q].release) \in TopicDoc
          /\ EditOf(topics[req[q].id], setReleaseDate(topics[req[q].id], req[q].release))
      BY <2>1, <3>1, SetReleaseDateDoc, SetReleaseDateIsEdit DEF ReleaseRequest
    <3> QED
      BY <2>2, <3>1, <3>2, EditStepIntro DEF Store
  <2> QED
    BY <1>1, <2>2 DEF UpdateReleaseDate, NotFound, StoreFailed
<1>2. ASSUME NEW q \in Requests, UpdateState(q)
      PROVE  UNCHANGED topics \/ EditStep
  <2>1. ~Idle(q) /\ req[q] \in StateRequest
    BY <1>2 DEF UpdateState, At, Idle, SlotOK
  <2>2. CASE Found(q) /\ Store(q, setState(topics[req[q].id], req[q].state))
    <3>1. topics[req[q].id] \in TopicDoc /\ req[q].id \in Ids
      BY <1>0, <2>1, <2>2, CallContext
    <3>2. /\ setState(topics[req[q].id], req[q].state) \in TopicDoc
          /\ EditOf(topics[req[q].id], setState(topics[req[q].id], req[q].state))
      BY <2>1, <3>1, SetStateDoc, SetStateIsEdit DEF StateRequest
    <3> QED
      BY <2>2, <3>1, <3>2, EditStepIntro DEF Store
  <2> QED
    BY <1>2, <2>2 DEF UpdateState, NotFound, StoreFailed
<1>3. ASSUME NEW q \in Requests, UpdateTopic(q)
      PROVE  UNCHANGED topics \/ EditStep
  <2>1. ~Idle(q) /\ req[q] \in TopicRequest
    BY <1>3 DEF UpdateTopic, At, Idle, SlotOK
  <2>2. CASE /\ Found(q)
             /\ Store(q, createTopicUpdateQuery(topics[req[q].id], req[q].update))
    <3>1. topics[req[q].id] \in TopicDoc /\ req[q].id \in Ids
      BY <1>0, <2>1, <2>2, CallContext
    <3>2. /\ createTopicUpdateQuery(topics[req[q].id], req[q].update) \in TopicDoc
          /\ EditOf(topics[req[q].id], createTopicUpdateQuery(topics[req[q].id], req[q].update))
      BY <2>1, <3>1, UpdateQueryDoc, UpdateQueryIsEdit DEF TopicRequest
    <3> QED
      BY <2>2, <3>1, <3>2, EditStepIntro DEF Store
  <2> QED
    BY <1>3, <2>2 DEF UpdateTopic, NotFound, StoreFailed
<1>4. ASSUME NEW q \in Requests, UpsertTopic(q)
      PROVE  UNCHANGED topics \/ UpsertStep
  BY <1>4 DEF UpsertTopic, At, UpsertStep
<1>5. ASSUME NEW q \in Requests, \/ Arrive(q) \/ Abandon(q)
                                 \/ CheckTopicExists(q) \/ GetTopic(q)
      PROVE  UNCHANGED topics
  BY <1>5 DEF Arrive, putTopicReleaseDatePrivateHandler, putTopicStatePrivateHandler,
              putTopicPrivateHandler, Accept, Reject, Abandon, CheckTopicExists,
              NotFound, StoreFailed, GetTopic
<1> QED
  BY <1>1, <1>2, <1>3, <1>4, <1>5 DEF Step, StoreCall

LEMMA TopicsEffect ==
  ASSUME TypeOK, [Next]_vars
  PROVE  UNCHANGED topics \/ EditStep \/ UpsertStep
BY StepTopics DEF TypeOK, CoreOK, Next, vars

(* A request that is about to upsert was already about to, with the same   *)
(* request and copy, or has just read its topic, which did not change.     *)
KeptCopy(q) ==
  pc[q] = "UpsertTopic" /\ UNCHANGED <<req[q], copy[q]>>

FreshCopy(q) ==
  /\ pc[q] = "GetTopic"
  /\ Found(q)
  /\ req[q] \in Request
  /\ Publishes(req[q])
  /\ copy'[q] = publishedCopy(topics[req[q].id])
  /\ UNCHANGED <<topics, req[q]>>

LEMMA StepCopy ==
  ASSUME CoreOK, Step, NEW q \in Requests, pc'[q] = "UpsertTopic"
  PROVE  KeptCopy(q) \/ FreshCopy(q)
<1> USE DEF CoreOK
<1>1. ASSUME NEW p \in Requests, Arrive(p)
      PROVE  KeptCopy(q)
  BY <1>1 DEF Arrive, putTopicReleaseDatePrivateHandler, putTopicStatePrivateHandler,
              putTopicPrivateHandler, CanArrive, Idle, Accept, Reject, KeptCopy
<1>2. ASSUME NEW p \in Requests, NEW status, Reply(p, status)
      PROVE  KeptCopy(q)
  BY <1>2 DEF Reply, KeptCopy
<1>3. ASSUME NEW p \in Requests, NotFound(p) \/ StoreFailed(p)
      PROVE  KeptCopy(q)
  BY <1>2, <1>3 DEF NotFound, StoreFailed, ReplyError
<1>4. ASSUME NEW p \in Requests, UpdateReleaseDate(p) \/ UpdateState(p)
      PROVE  KeptCopy(q)
  BY <1>2, <1>3, <1>4 DEF UpdateReleaseDate, UpdateState, ReplyError
<1>5. ASSUME NEW p \in Requests, CheckTopicExists(p)
      PROVE  KeptCopy(q)
  BY <1>3, <1>5 DEF CheckTopicExists, Goto, KeptCopy
<1>6. ASSUME NEW p \in Requests, UpdateTopic(p)
      PROVE  KeptCopy(q)
  <2>1. CASE Goto(p, "GetTopic") /\ UNCHANGED copy
    BY <2>1 DEF Goto, KeptCopy
  <2> QED
    BY <1>2, <1>3, <1>6, <2>1 DEF UpdateTopic, ReplyError
<1>7. ASSUME NEW p \in Requests, UpsertTopic(p)
      PROVE  KeptCopy(q)
  BY <1>2, <1>7 DEF UpsertTopic, PublishReply
<1>8. ASSUME NEW p \in Requests, GetTopic(p)
      PROVE  KeptCopy(q) \/ FreshCopy(q)
  <2>1. pc[p] = "GetTopic" /\ ~Idle(p) /\ Publishes(req[p]) /\ req[p] \in Request
    BY <1>8, RequestAssumption DEF GetTopic, At, Idle, SlotOK, Request
  <2>2. CASE /\ Found(p)
             /\ copy' = [copy EXCEPT ![p] = publishedCopy(topics[req[p].id])]
             /\ Goto(p, "UpsertTopic")
    BY <1>8, <2>1, <2>2 DEF Goto, KeptCopy, FreshCopy, GetTopic
  <2> QED
    BY <1>2, <1>8, <2>2 DEF GetTopic, PublishReply
<1>9. ASSUME NEW p \in Requests, Abandon(p)
      PROVE  KeptCopy(q)
  BY <1>9 DEF Abandon, KeptCopy
<1> QED
  BY <1>1, <1>4, <1>5, <1>6, <1>7, <1>8, <1>9 DEF Step, StoreCall

LEMMA CopyEffect ==
  ASSUME TypeOK, [Next]_vars, NEW q \in Requests, pc'[q] = "UpsertTopic"
  PROVE  KeptCopy(q) \/ FreshCopy(q)
<1>1. CASE Step
  BY <1>1, StepCopy DEF TypeOK, CoreOK
<1>2. CASE UNCHANGED vars
  BY <1>2 DEF vars, KeptCopy
<1> QED
  BY <1>1, <1>2 DEF Next

(* The copy to be written is one published version in both places.         *)
CopyPublished(q) ==
  pc[q] = "UpsertTopic" =>
    copy[q].current = copy[q].next /\ copy[q].next.state = StatePublished

LEMMA CopyPublishedStep ==
  ASSUME CoreOK, Step, \A q \in Requests : CopyPublished(q), NEW q \in Requests
  PROVE  CopyPublished(q)'
<1> SUFFICES ASSUME pc'[q] = "UpsertTopic"
             PROVE  copy'[q].current = copy'[q].next /\ copy'[q].next.state = StatePublished
  BY DEF CopyPublished
<1>1. CASE KeptCopy(q)
  BY <1>1 DEF KeptCopy, CopyPublished
<1>2. CASE FreshCopy(q)
  <2> DEFINE doc == topics[req[q].id]
  <2>1. doc \in TopicDoc /\ doc.next \in Version
    BY <1>2 DEF FreshCopy, Found, CoreOK, Request, ReleaseRequest, StateRequest,
                TopicRequest, TopicDoc
  <2> QED
    BY <1>2, <2>1, PublishedCopyDoc, AsPublishedType DEF FreshCopy
<1> QED
  BY <1>1, <1>2, StepCopy

(* No request removes a document.                                          *)
LEMMA StoredGrows ==
  ASSUME CoreOK, Step
  PROVE  Stored \subseteq Stored'
<1>1. CASE EditStep
  BY <1>1, ModelAssumption DEF EditStep, Stored, CoreOK
<1>2. CASE UpsertStep
  <2>1. PICK q \in Requests : pc[q] = "UpsertTopic" /\ Store(q, copy[q])
    BY <1>2 DEF UpsertStep
  <2>2. copy[q] # Nil
    BY <2>1 DEF CoreOK, SlotOK
  <2> QED
    BY <2>1, <2>2 DEF Store, Stored, CoreOK
<1>3. CASE UNCHANGED topics
  BY <1>3 DEF Stored
<1> QED
  BY <1>1, <1>2, <1>3, StepTopics

(* Nor does one add a document: a handler that writes a copy back finds    *)
(* its topic.                                                              *)
UpsertFinds == \A q \in Requests : pc[q] = "UpsertTopic" => Found(q)

LEMMA UpsertFindsStep ==
  ASSUME CoreOK, Step, UpsertFinds
  PROVE  UpsertFinds'
<1> SUFFICES ASSUME NEW q \in Requests, pc'[q] = "UpsertTopic"
             PROVE  Found(q)'
  BY DEF UpsertFinds, Found
<1>1. CASE KeptCopy(q)
  <2>1. req'[q] = req[q] /\ req[q].id \in Stored
    BY <1>1, CallContext DEF KeptCopy, UpsertFinds, Found, Stored, Idle
  <2> QED
    BY <2>1, StoredGrows DEF Found, Stored
<1>2. CASE FreshCopy(q)
  BY <1>2 DEF FreshCopy, Found
<1> QED
  BY <1>1, <1>2, StepCopy

LEMMA StoredKept ==
  ASSUME CoreOK, Step, UpsertFinds
  PROVE  Stored' = Stored
<1>1. CASE EditStep
  BY <1>1, ModelAssumption DEF EditStep, Stored, CoreOK
<1>2. CASE UpsertStep
  <2>1. PICK q \in Requests : pc[q] = "UpsertTopic" /\ Store(q, copy[q])
    BY <1>2 DEF UpsertStep
  <2>2. copy[q] # Nil /\ req[q].id \in Stored
    BY <2>1, CallContext DEF CoreOK, SlotOK, Idle, UpsertFinds, Found, Stored
  <2> QED
    BY <2>1, <2>2 DEF Store, Stored, CoreOK
<1>3. CASE UNCHANGED topics
  BY <1>3 DEF Stored
<1> QED
  BY <1>1, <1>2, <1>3, StepTopics

(* The strengthening that the safety invariants need: the copy waiting to  *)
(* be written is one published version, in both places, of a draft in the  *)
(* window of its request, and tidy.                                        *)
CopyOK(q) ==
  pc[q] = "UpsertTopic" =>
    /\ copy[q].current = copy[q].next
    /\ copy[q].next.state = StatePublished
    /\ copy[q].next \in window[q]
    /\ req[q].id # TopicRoot => Tidy(copy[q].next)

(* What is in the window of a publish request: before the read the draft   *)
(* as it is, and from its update to its end the draft that it wrote.       *)
WindowOK(q) ==
  /\ pc[q] = "GetTopic" /\ Found(q) => AsPublished(topics[req[q].id].next) \in window[q]
  /\ pc[q] \in {"GetTopic", "UpsertTopic"} /\ req[q].handler = "PutTopic" =>
       \E v \in window[q] : Carries(v, req[q].update)

TidyTopics ==
  \A id \in Ids \ {TopicRoot} :
    /\ Draft(id) # Nil => Tidy(Draft(id))
    /\ Live(id) # Nil => Tidy(Live(id))

SafetyInv ==
  /\ TypeOK
  /\ LivePublished
  /\ TidyTopics
  /\ \A q \in Requests : CopyOK(q) /\ WindowOK(q)

(* A request comes between its update and its upsert in three ways: it was *)
(* there already, or it has just stored its update, or it publishes a      *)
(* state and has just arrived.                                             *)
StaysToPublish(q) ==
  /\ pc[q] \in {"GetTopic", "UpsertTopic"}
  /\ req'[q] = req[q]

HasUpdated(q) ==
  /\ pc'[q] = "GetTopic"
  /\ req'[q].id \in Ids
  /\ topics'[req'[q].id] \in TopicDoc
  /\ Carries(topics'[req'[q].id].next, req'[q].update)

LEMMA ComesToPublish ==
  ASSUME CoreOK, Step, NEW q \in Requests, pc'[q] \in {"GetTopic", "UpsertTopic"}
  PROVE  StaysToPublish(q) \/ HasUpdated(q) \/ req'[q].handler # "PutTopic"
<1> USE DEF CoreOK
<1>1. ASSUME NEW p \in Requests, Arrive(p)
      PROVE  StaysToPublish(q) \/ req'[q].handler # "PutTopic"
  BY <1>1 DEF Arrive, putTopicReleaseDatePrivateHandler, putTopicStatePrivateHandler,
              putTopicPrivateHandler, CanArrive, Idle, Accept, Reject, StaysToPublish
<1>2. ASSUME NEW p \in Requests, NEW status, Reply(p, status)
      PROVE  StaysToPublish(q)
  BY <1>2 DEF Reply, StaysToPublish
<1>3. ASSUME NEW p \in Requests, NotFound(p) \/ StoreFailed(p)
      PROVE  StaysToPublish(q)
  BY <1>2, <1>3 DEF NotFound, StoreFailed, ReplyError
<1>4. ASSUME NEW p \in Requests, UpdateReleaseDate(p) \/ UpdateState(p) \/ UpsertTopic(p)
      PROVE  StaysToPublish(q)
  BY <1>2, <1>3, <1>4 DEF UpdateReleaseDate, UpdateState, UpsertTopic, ReplyError,
                          PublishReply
<1>5. ASSUME NEW p \in Requests, CheckTopicExists(p)
      PROVE  StaysToPublish(q)
  <2>1. CASE Goto(p, "UpdateTopic")
    BY <2>1 DEF Goto, StaysToPublish
  <2> QED
    BY <1>3, <1>5, <2>1 DEF CheckTopicExists
<1>6. ASSUME NEW p \in Requests, UpdateTopic(p)
      PROVE  StaysToPublish(q) \/ HasUpdated(q)
  <2>1. CASE /\ Found(p)
             /\ Store(p, createTopicUpdateQuery(topics[req[p].id], req[p].update))
             /\ Goto(p, "GetTopic")
    <3> DEFINE new == createTopicUpdateQuery(topics[req[p].id], req[p].update)
    <3>1. ~Idle(p) /\ req[p] \in TopicRequest
      BY <1>6 DEF UpdateTopic, At, Idle, SlotOK
    <3>2. topics[req[p].id] \in TopicDoc /\ req[p].id \in Ids
      BY <2>1, <3>1, CallContext
    <3>3. new \in TopicDoc /\ Carries(new.next, req[p].update)
      BY <3>1, <3>2, UpdateQueryDoc DEF TopicRequest
    <3>4. topics'[req[p].id] = new /\ req' = req
      BY <2>1, <3>2 DEF Store, Goto
    <3>5. CASE p = q
      BY <2>1, <3>2, <3>3, <3>4, <3>5 DEF HasUpdated, Goto
    <3>6. CASE p # q
      BY <2>1, <3>6 DEF StaysToPublish, Goto
    <3> QED
      BY <3>5, <3>6
  <2> QED
    BY <1>2, <1>3, <1>6, <2>1 DEF UpdateTopic, ReplyError
<1>7. ASSUME NEW p \in Requests, GetTopic(p)
      PROVE  StaysToPublish(q)
  <2>1. CASE Goto(p, "UpsertTopic")
    BY <1>7, <2>1 DEF GetTopic, At, Goto, StaysToPublish
  <2> QED
    BY <1>2, <1>7, <2>1 DEF GetTopic, PublishReply
<1>8. ASSUME NEW p \in Requests, Abandon(p)
      PROVE  StaysToPublish(q)
  BY <1>8 DEF Abandon, StaysToPublish
<1> QED
  BY <1>1, <1>4, <1>5, <1>6, <1>7, <1>8 DEF Step, StoreCall

(* The window grows until the read and keeps what it has until the upsert. *)
LEMMA ObserveGrows ==
  ASSUME Observe, NEW q \in Requests, pc'[q] \in {"GetTopic", "UpsertTopic"}
  PROVE  window[q] \subseteq window'[q]
BY DEF Observe

(* Publishing a version keeps its contents.                                *)
LEMMA AsPublishedCarries ==
  ASSUME NEW v \in Version, NEW u, Carries(v, u)
  PROVE  Carries(AsPublished(v), u)
BY DEF Carries, AsPublished, Version

LEMMA ObserveWindow ==
  ASSUME Observe, NEW q \in Requests, WindowOK(q),
         pc'[q] \in {"GetTopic", "UpsertTopic"} =>
           StaysToPublish(q) \/ HasUpdated(q) \/ req'[q].handler # "PutTopic"
  PROVE  WindowOK(q)'
<1>1. ASSUME pc'[q] = "GetTopic", topics'[req'[q].id] # Nil
      PROVE  AsPublished(topics'[req'[q].id].next) \in window'[q]
  BY <1>1 DEF Observe, draftsNow
<1>2. ASSUME pc'[q] \in {"GetTopic", "UpsertTopic"}, req'[q].handler = "PutTopic"
      PROVE  \E v \in window'[q] : Carries(v, req'[q].update)
  <2>1. CASE StaysToPublish(q)
    BY <1>2, <2>1, ObserveGrows DEF StaysToPublish, WindowOK
  <2>2. CASE HasUpdated(q)
    <3> DEFINE doc == topics'[req'[q].id]
    <3>1. doc.next \in Version /\ doc # Nil
      BY <2>2, ModelAssumption DEF HasUpdated, TopicDoc
    <3>2. Carries(AsPublished(doc.next), req'[q].update)
      BY <2>2, <3>1, AsPublishedCarries DEF HasUpdated
    <3> QED
      BY <1>1, <2>2, <3>1, <3>2 DEF HasUpdated
  <2> QED
    BY <1>2, <2>1, <2>2
<1> QED
  BY <1>1, <1>2 DEF WindowOK, Found, Carries

LEMMA WindowStep ==
  ASSUME SafetyInv, [Next]_vars, NEW q \in Requests
  PROVE  WindowOK(q)'
<1>1. CASE Next
  <2>1. CoreOK /\ WindowOK(q)
    BY DEF SafetyInv, TypeOK, CoreOK
  <2> QED
    BY <1>1, <2>1, ComesToPublish, ObserveWindow DEF Next
<1>2. CASE UNCHANGED vars
  BY <1>2 DEF SafetyInv, WindowOK, Found, Carries, vars
<1> QED
  BY <1>1, <1>2

LEMMA WindowKept ==
  ASSUME [Next]_vars, NEW q \in Requests, pc'[q] = "UpsertTopic"
  PROVE  window'[q] = window[q]
BY DEF Next, Observe, vars

LEMMA CopyStep ==
  ASSUME SafetyInv, [Next]_vars, NEW q \in Requests
  PROVE  CopyOK(q)'
<1> SUFFICES ASSUME pc'[q] = "UpsertTopic"
             PROVE  /\ copy'[q].current = copy'[q].next
                    /\ copy'[q].next.state = StatePublished
                    /\ copy'[q].next \in window'[q]
                    /\ req'[q].id # TopicRoot => Tidy(copy'[q].next)
  BY DEF CopyOK, Tidy, Linked
<1>1. CASE KeptCopy(q)
  <2>1. CopyOK(q) /\ pc[q] = "UpsertTopic" /\ UNCHANGED <<req[q], copy[q]>>
    BY <1>1 DEF SafetyInv, KeptCopy
  <2> QED
    BY <2>1, WindowKept DEF CopyOK, Tidy, Linked
<1>2. CASE FreshCopy(q) /\ Next
  <2> DEFINE doc == topics[req[q].id]
  <2>1. req[q].id \in Ids /\ doc \in TopicDoc
    BY <1>2 DEF FreshCopy, Found, SafetyInv, TypeOK, Request, ReleaseRequest,
                StateRequest, TopicRequest
  <2>2. doc.next \in Version
    BY <2>1 DEF TopicDoc
  <2>3. copy'[q].current = AsPublished(doc.next) /\ copy'[q].next = AsPublished(doc.next)
    BY <1>2, <2>1, PublishedCopyDoc DEF FreshCopy
  <2>4. req'[q] = req[q] /\ topics' = topics /\ doc # Nil /\ req[q] # Nil
    BY <1>2, RequestAssumption DEF FreshCopy, Found
  <2>5. AsPublished(doc.next) \in window'[q]
    BY <1>2, WindowKept DEF FreshCopy, SafetyInv, WindowOK
  <2>6. req[q].id # TopicRoot => Tidy(doc.next)
    <3>1. Draft(req[q].id) = doc.next /\ doc.next # Nil
      BY <2>2, <2>4, ModelAssumption DEF Draft
    <3> QED
      BY <2>1, <3>1 DEF SafetyInv, TidyTopics
  <2> QED
    BY <2>2, <2>3, <2>4, <2>5, <2>6, AsPublishedType DEF Tidy, Linked
<1>3. CASE UNCHANGED vars
  BY <1>1, <1>3 DEF KeptCopy, vars
<1> QED
  BY <1>1, <1>2, <1>3, CopyEffect DEF SafetyInv

(* One document is replaced by another: the live versions stay published   *)
(* and all versions tidy if the new document is.                           *)
LEMMA PutSafe ==
  ASSUME SafetyInv, NEW id \in Ids, NEW doc \in TopicDoc,
         topics' = [topics EXCEPT ![id] = doc],
         doc.current # Nil => doc.current.state = StatePublished,
         id # TopicRoot => /\ Tidy(doc.next)
                           /\ doc.current # Nil => Tidy(doc.current)
  PROVE  (LivePublished /\ TidyTopics)'
<1>1. topics \in [Ids -> TopicDoc \cup {Nil}] /\ doc # Nil
  BY ModelAssumption DEF SafetyInv, TypeOK
<1>2. topics'[id] = doc /\ \A i \in Ids : i # id => topics'[i] = topics[i]
  BY <1>1
<1>3. \A i \in Ids : i # id => Draft(i)' = Draft(i) /\ Live(i)' = Live(i)
  BY <1>2 DEF Draft, Live
<1>4. \A i \in Ids : i = id => Draft(i)' = doc.next /\ Live(i)' = doc.current
  BY <1>1, <1>2 DEF Draft, Live
<1>5. LivePublished'
  BY <1>3, <1>4 DEF SafetyInv, LivePublished
<1>6. TidyTopics'
  BY <1>3, <1>4 DEF SafetyInv, TidyTopics, Tidy, Linked
<1> QED
  BY <1>5, <1>6

LEMMA EditSafe ==
  ASSUME SafetyInv, EditStep
  PROVE  /\ (LivePublished /\ TidyTopics)'
         /\ \A i \in Ids : Live(i)' = Live(i)
<1>1. PICK id \in Ids, new \in TopicDoc :
        /\ topics[id] \in TopicDoc
        /\ EditOf(topics[id], new)
        /\ topics' = [topics EXCEPT ![id] = new]
  BY DEF EditStep
<1>2. topics \in [Ids -> TopicDoc \cup {Nil}] /\ new # Nil /\ topics[id] # Nil
  BY <1>1, ModelAssumption DEF SafetyInv, TypeOK
<1>3. \A i \in Ids : Live(i)' = Live(i)
  BY <1>1, <1>2 DEF Live, EditOf
<1>4. Draft(id) # Nil /\ Draft(id) = topics[id].next /\ Live(id) = topics[id].current
  BY <1>1, <1>2, ModelAssumption DEF Draft, Live, TopicDoc
<1>5. new.current # Nil => new.current.state = StatePublished
  BY <1>1, <1>4 DEF SafetyInv, LivePublished, EditOf
<1>6. id # TopicRoot => /\ Tidy(new.next)
                        /\ new.current # Nil => Tidy(new.current)
  BY <1>1, <1>4 DEF SafetyInv, TidyTopics, EditOf
<1> QED
  BY <1>1, <1>3, <1>5, <1>6, PutSafe

LEMMA TopicsStep ==
  ASSUME SafetyInv, [Next]_vars
  PROVE  (LivePublished /\ TidyTopics)'
<1>1. CASE UNCHANGED topics
  BY <1>1 DEF SafetyInv, LivePublished, TidyTopics, Live, Draft, Tidy, Linked
<1>2. CASE EditStep
  BY <1>2, EditSafe
<1>3. CASE UpsertStep
  <2>1. PICK q \in Requests : pc[q] = "UpsertTopic" /\ Store(q, copy[q])
    BY <1>3 DEF UpsertStep
  <2>2. /\ req[q].id \in Ids
        /\ copy[q] \in TopicDoc
        /\ copy[q].current = copy[q].next
        /\ copy[q].next.state = StatePublished
        /\ req[q].id # TopicRoot => Tidy(copy[q].next)
    BY <2>1 DEF SafetyInv, TypeOK, SlotOK, CopyOK, StateRequest, TopicRequest
  <2> QED
    BY <2>1, <2>2, PutSafe DEF Store
<1> QED
  BY <1>1, <1>2, <1>3, TopicsEffect DEF SafetyInv

LEMMA SafetyInit == Init => SafetyInv
<1> SUFFICES ASSUME Init PROVE SafetyInv
  OBVIOUS
<1>1. ASSUME NEW id \in Ids
      PROVE  topics[id] \in {Nil, newTopic(id), generateTopic(id)}
  BY DEF Init, InitTopics
<1>2. ASSUME NEW id \in Ids
      PROVE  /\ Live(id) \in {Nil, Seed[id]}
             /\ \/ Draft(id) = Nil
                \/ /\ Draft(id).subtopics = Seed[id].subtopics
                   /\ Draft(id).subtopicsLink = Seed[id].subtopicsLink
  <2>1. CASE topics[id] = Nil
    BY <2>1 DEF Live, Draft
  <2>2. CASE topics[id] # Nil /\ topics[id] = newTopic(id)
    BY <2>2, SeedType DEF Live, Draft, newTopic, Version
  <2>3. CASE topics[id] # Nil /\ topics[id] = generateTopic(id)
    BY <2>3 DEF Live, Draft, generateTopic
  <2> QED
    BY <1>1, <2>1, <2>2, <2>3
<1>3. LivePublished
  BY <1>2, StoreAssumption DEF LivePublished
<1>4. TidyTopics
  BY <1>2, StoreAssumption DEF TidyTopics, Tidy, Linked
<1>5. \A q \in Requests : CopyOK(q)
  BY DEF Init, CopyOK
<1>6. \A q \in Requests : WindowOK(q)
  BY DEF Init, WindowOK
<1> QED
  BY <1>3, <1>4, <1>5, <1>6, TypeInit DEF SafetyInv

LEMMA SafetyStep == SafetyInv /\ [Next]_vars => SafetyInv'
BY TypeStep, CopyStep, WindowStep, TopicsStep DEF SafetyInv

THEOREM Safety == Spec => []SafetyInv
BY SafetyInit, SafetyStep, PTL DEF Spec

(* The public never sees a version that is not in the published state.     *)
THEOREM LiveIsPublished == Spec => []LivePublished
BY Safety, PTL DEF SafetyInv

(* Subtopic links and subtopic lists agree in every draft and live version. *)
THEOREM LinksAreConsistent == Spec => []LinksMatchSubtopics
<1>1. SafetyInv => LinksMatchSubtopics
  BY DEF SafetyInv, TidyTopics, Tidy, LinksMatchSubtopics
<1> QED
  BY <1>1, Safety, PTL


-----------------------------------------------------------------------------
(* Action properties.                                                      *)

LEMMA LiveStep ==
  ASSUME SafetyInv, [Next]_vars, NEW id \in Ids
  PROVE  LiveComesFromWindow(id)
<1>1. CASE UNCHANGED topics
  BY <1>1 DEF LiveComesFromWindow, Live
<1>2. CASE EditStep
  BY <1>2, EditSafe DEF LiveComesFromWindow
<1>3. CASE UpsertStep
  <2>1. PICK q \in Requests : pc[q] = "UpsertTopic" /\ Store(q, copy[q])
    BY <1>3 DEF UpsertStep
  <2>2. /\ req[q].id \in Ids
        /\ copy[q] # Nil
        /\ copy[q].current \in window[q]
    BY <2>1 DEF SafetyInv, TypeOK, SlotOK, CopyOK, StateRequest, TopicRequest
  <2>3. CASE req[q].id = id
    <3>1. Live(id)' = copy[q].current
      BY <2>1, <2>2, <2>3 DEF Live, Store, SafetyInv, TypeOK
    <3> QED
      BY <2>1, <2>2, <2>3, <3>1 DEF LiveComesFromWindow
  <2>4. CASE req[q].id # id
    <3>1. Live(id)' = Live(id)
      BY <2>1, <2>2, <2>4 DEF Live, Store, SafetyInv, TypeOK
    <3> QED
      BY <3>1 DEF LiveComesFromWindow
  <2> QED
    BY <2>3, <2>4
<1> QED
  BY <1>1, <1>2, <1>3, TopicsEffect DEF SafetyInv

(* Whatever the interleaving, a publish writes a draft that the topic had  *)
(* while the request was handled, marked as published, and nothing else    *)
(* changes the live version.                                               *)
THEOREM PublishFreshness == Spec => PublishWritesSeenDraft
<1>1. SafetyInv /\ [Next]_vars => [\A id \in Ids : LiveComesFromWindow(id)]_vars
  BY LiveStep
<1> QED
  BY <1>1, Safety, PTL DEF Spec, PublishWritesSeenDraft

(* What becomes of a draft in a step: the property of one topic.           *)
DraftKept(id) ==
  Draft(id)' # Draft(id) => \E q \in Requests : EditedBy(q, id) \/ OverwrittenBy(q, id)

(* An update changes no field of the draft but those that it is for.       *)
OnlyChanges(v, w, fields) == \A f \in DOMAIN v \ fields : w[f] = v[f]

LEMMA EditFields ==
  /\ DOMAIN Edits = {"UpdateReleaseDate", "UpdateState", "UpdateTopic"}
  /\ Edits["UpdateReleaseDate"] = {"release"}
  /\ Edits["UpdateState"] = {"state"}
  /\ Edits["UpdateTopic"] = {"state", "release", "details", "subtopics", "subtopicsLink"}
BY DEF Edits

LEMMA SetReleaseDateOnly ==
  ASSUME NEW doc \in TopicDoc, NEW date \in Dates
  PROVE  OnlyChanges(doc.next, setReleaseDate(doc, date).next, {"release"})
<1>1. doc.next \in Version /\ setReleaseDate(doc, date).next = [doc.next EXCEPT !.release = date]
  BY DEF setReleaseDate, TopicDoc
<1> QED
  BY <1>1 DEF OnlyChanges, Version

LEMMA SetStateOnly ==
  ASSUME NEW doc \in TopicDoc, NEW state \in States
  PROVE  OnlyChanges(doc.next, setState(doc, state).next, {"state"})
<1>1. doc.next \in Version /\ setState(doc, state).next = [doc.next EXCEPT !.state = state]
  BY DEF setState, TopicDoc
<1> QED
  BY <1>1 DEF OnlyChanges, Version

LEMMA UpdateQueryOnly ==
  ASSUME NEW doc \in TopicDoc, NEW u \in ValidUpdate
  PROVE  OnlyChanges(doc.next, createTopicUpdateQuery(doc, u).next,
                     {"state", "release", "details", "subtopics", "subtopicsLink"})
<1>1. doc.next \in Version /\ DOMAIN doc.next = {"state", "release", "details", "slug",
                                                 "subtopics", "subtopicsLink"}
  BY DEF TopicDoc, Version
<1>2. createTopicUpdateQuery(doc, u).next.slug = doc.next.slug
  BY UpdateQueryDoc
<1> QED
  BY <1>1, <1>2 DEF OnlyChanges

LEMMA EditKeepsDrafts ==
  ASSUME SafetyInv, NEW q \in Requests, NEW id \in Ids, NEW new \in TopicDoc,
         ~Idle(q), Found(q), pc[q] \in DOMAIN Edits, Store(q, new),
         new.current = topics[req[q].id].current,
         OnlyChanges(topics[req[q].id].next, new.next, Edits[pc[q]])
  PROVE  DraftKept(id)
<1>1. req[q].id \in Ids /\ topics[req[q].id] \in TopicDoc
  BY CallContext DEF SafetyInv, TypeOK, CoreOK
<1>2. topics' = [topics EXCEPT ![req[q].id] = new] /\ topics \in [Ids -> TopicDoc \cup {Nil}]
  BY DEF Store, SafetyInv, TypeOK
<1>3. CASE req[q].id = id
  <2>1. topics'[id] = new /\ topics[id] \in TopicDoc
    BY <1>1, <1>2, <1>3
  <2>2. topics[id] # Nil /\ topics'[id] # Nil
    BY <2>1, ModelAssumption
  <2>3. /\ Draft(id) = topics[id].next /\ Live(id) = topics[id].current
        /\ Draft(id)' = new.next /\ Live(id)' = new.current
    BY <2>1, <2>2 DEF Draft, Live
  <2>4. Nil \notin {Draft(id), Draft(id)'}
    BY <2>1, <2>3, ModelAssumption DEF TopicDoc
  <2>5. EditedBy(q, id)
    BY <1>3, <2>3, <2>4 DEF EditedBy, OnlyChanges
  <2> QED
    BY <2>5 DEF DraftKept
<1>4. CASE req[q].id # id
  <2>1. topics'[id] = topics[id]
    BY <1>1, <1>2, <1>4
  <2> QED
    BY <2>1 DEF DraftKept, Draft
<1> QED
  BY <1>3, <1>4

LEMMA UpsertKeepsDrafts ==
  ASSUME SafetyInv, NEW q \in Requests, NEW id \in Ids, pc[q] = "UpsertTopic",
         Store(q, copy[q])
  PROVE  DraftKept(id)
<1>1. /\ req[q].id \in Ids
      /\ copy[q] # Nil
      /\ copy[q].next \in window[q] /\ copy[q].current = copy[q].next
  BY DEF SafetyInv, TypeOK, SlotOK, CopyOK, StateRequest, TopicRequest
<1>2. topics' = [topics EXCEPT ![req[q].id] = copy[q]] /\ topics \in [Ids -> TopicDoc \cup {Nil}]
  BY DEF Store, SafetyInv, TypeOK
<1>3. CASE req[q].id = id
  <2>1. topics'[id] = copy[q]
    BY <1>1, <1>2, <1>3
  <2>2. Draft(id)' = copy[q].next /\ Live(id)' = copy[q].current
    BY <1>1, <2>1 DEF Draft, Live
  <2>3. OverwrittenBy(q, id)
    BY <1>1, <1>3, <2>2 DEF OverwrittenBy
  <2> QED
    BY <2>3 DEF DraftKept
<1>4. CASE req[q].id # id
  <2>1. topics'[id] = topics[id]
    BY <1>1, <1>2, <1>4
  <2> QED
    BY <2>1 DEF DraftKept, Draft
<1> QED
  BY <1>3, <1>4

LEMMA DraftStep ==
  ASSUME SafetyInv, [Next]_vars, NEW id \in Ids
  PROVE  DraftKept(id)
<1>0. TypeOK /\ CoreOK
  BY DEF SafetyInv, TypeOK, CoreOK
<1>1. CASE UNCHANGED topics
  BY <1>1 DEF DraftKept, Draft
<1>2. ASSUME NEW q \in Requests, UpdateReleaseDate(q)
      PROVE  DraftKept(id)
  <2>1. ~Idle(q) /\ req[q] \in ReleaseRequest /\ pc[q] = "UpdateReleaseDate"
    BY <1>0, <1>2 DEF UpdateReleaseDate, At, Idle, CoreOK, SlotOK
  <2>2. CASE Found(q) /\ Store(q, setReleaseDate(topics[req[q].id], req[q].release))
    <3>1. topics[req[q].id] \in TopicDoc /\ req[q].release \in Dates
      BY <1>0, <2>1, <2>2, CallContext DEF ReleaseRequest
    <3>2. /\ setReleaseDate(topics[req[q].id], req[q].release) \in TopicDoc
          /\ setReleaseDate(topics[req[q].id], req[q].release).current = topics[req[q].id].current
      BY <3>1, SetReleaseDateDoc
    <3>3. pc[q] \in DOMAIN Edits
      BY <2>1, EditFields
    <3>4. OnlyChanges(topics[req[q].id].next,
                      setReleaseDate(topics[req[q].id], req[q].release).next, Edits[pc[q]])
      BY <2>1, <3>1, EditFields, SetReleaseDateOnly
    <3> QED
      BY <2>1, <2>2, <3>2, <3>3, <3>4, EditKeepsDrafts
  <2> QED
    BY <1>1, <1>2, <2>2 DEF UpdateReleaseDate, NotFound, StoreFailed
<1>3. ASSUME NEW q \in Requests, UpdateState(q)
      PROVE  DraftKept(id)
  <2>1. ~Idle(q) /\ req[q] \in StateRequest /\ pc[q] = "UpdateState"
    BY <1>0, <1>3 DEF UpdateState, At, Idle, CoreOK, SlotOK
  <2>2. CASE Found(q) /\ Store(q, setState(topics[req[q].id], req[q].state))
    <3>1. topics[req[q].id] \in TopicDoc /\ req[q].state \in States
      BY <1>0, <2>1, <2>2, CallContext DEF StateRequest
    <3>2. /\ setState(topics[req[q].id], req[q].state) \in TopicDoc
          /\ setState(topics[req[q].id], req[q].state).current = topics[req[q].id].current
      BY <3>1, SetStateDoc
    <3>3. pc[q] \in DOMAIN Edits
      BY <2>1, EditFields
    <3>4. OnlyChanges(topics[req[q].id].next,
                      setState(topics[req[q].id], req[q].state).next, Edits[pc[q]])
      BY <2>1, <3>1, EditFields, SetStateOnly
    <3> QED
      BY <2>1, <2>2, <3>2, <3>3, <3>4, EditKeepsDrafts
  <2> QED
    BY <1>1, <1>3, <2>2 DEF UpdateState, NotFound, StoreFailed
<1>4. ASSUME NEW q \in Requests, UpdateTopic(q)
      PROVE  DraftKept(id)
  <2>1. ~Idle(q) /\ req[q] \in TopicRequest /\ pc[q] = "UpdateTopic"
    BY <1>0, <1>4 DEF UpdateTopic, At, Idle, CoreOK, SlotOK
  <2>2. CASE /\ Found(q)
             /\ Store(q, createTopicUpdateQuery(topics[req[q].id], req[q].update))
    <3>1. topics[req[q].id] \in TopicDoc /\ req[q].update \in ValidUpdate
      BY <1>0, <2>1, <2>2, CallContext DEF TopicRequest
    <3>2. /\ createTopicUpdateQuery(topics[req[q].id], req[q].update) \in TopicDoc
          /\ createTopicUpdateQuery(topics[req[q].id], req[q].update).current =
               topics[req[q].id].current
      BY <3>1, UpdateQueryDoc
    <3>3. pc[q] \in DOMAIN Edits
      BY <2>1, EditFields
    <3>4. OnlyChanges(topics[req[q].id].next,
                      createTopicUpdateQuery(topics[req[q].id], req[q].update).next, Edits[pc[q]])
      BY <2>1, <3>1, EditFields, UpdateQueryOnly
    <3> QED
      BY <2>1, <2>2, <3>2, <3>3, <3>4, EditKeepsDrafts
  <2> QED
    BY <1>1, <1>4, <2>2 DEF UpdateTopic, NotFound, StoreFailed
<1>5. ASSUME NEW q \in Requests, UpsertTopic(q)
      PROVE  DraftKept(id)
  BY <1>1, <1>5, UpsertKeepsDrafts DEF UpsertTopic, At
<1>6. ASSUME NEW q \in Requests, \/ Arrive(q) \/ Abandon(q)
                                 \/ CheckTopicExists(q) \/ GetTopic(q)
      PROVE  DraftKept(id)
  BY <1>1, <1>6 DEF Arrive, putTopicReleaseDatePrivateHandler, putTopicStatePrivateHandler,
              putTopicPrivateHandler, Accept, Reject, Abandon, CheckTopicExists,
              NotFound, StoreFailed, GetTopic
<1> QED
  BY <1>1, <1>2, <1>3, <1>4, <1>5, <1>6 DEF Next, Step, StoreCall, vars

(* However requests interleave, a draft loses what editors have put in it  *)
(* only to an edit of the same field, or to a publish request in progress, *)
(* which puts back a draft that the topic had during that request.         *)
THEOREM EditsAreKept == Spec => DraftsAreKept
<1>1. SafetyInv /\ [Next]_vars => [\A id \in Ids : DraftKept(id)]_vars
  BY DraftStep
<1> QED
  BY <1>1, Safety, PTL DEF Spec, DraftsAreKept, DraftKept

(* An answer 200 that slot p gives is an answer to the request of p only.  *)
LEMMA OnlyReplies ==
  ASSUME CoreOK, NEW p \in Requests, NEW q \in Requests, NEW status,
         Reply(p, status), Answers(q, 200)
  PROVE  p = q /\ status = 200
<1>1. p = q
  BY DEF Reply, Answers, CoreOK
<1> QED
  BY <1>1 DEF Reply, Answers, CoreOK

(* A call that fails is not answered 200.                                  *)
LEMMA FailureAnswers ==
  ASSUME CoreOK, NEW p \in Requests, NEW q \in Requests, Answers(q, 200)
  PROVE  /\ ~ReplyError(p, "StoreError")
         /\ ~ReplyError(p, "ErrTopicNotFound")
         /\ ~PublishReply(p, "StoreError")
         /\ ~PublishReply(p, "ErrTopicNotFound")
<1>1. handleError["StoreError"] = 500 /\ handleError["ErrTopicNotFound"] = 404
  BY DEF handleError
<1>2. ~Reply(p, 500) /\ ~Reply(p, 404)
  BY OnlyReplies
<1>3. Nil \notin {500, 404}
  BY RequestAssumption DEF Statuses
<1> QED
  BY <1>1, <1>2, <1>3 DEF ReplyError, PublishReply, NoError, WriteHeader

(* A step that answers a request 200 leaves its topic with the request in  *)
(* effect.                                                                 *)
LEMMA AnswerApplied ==
  ASSUME CoreOK, \A p \in Requests : CopyPublished(p), Step,
         NEW q \in Requests, Answers(q, 200)
  PROVE  topics'[req[q].id] # Nil /\ Applied(req[q], topics'[req[q].id])
<1>0. /\ topics \in [Ids -> TopicDoc \cup {Nil}]
      /\ req \in [Requests -> Request \cup {Nil}]
      /\ resp \in [Requests -> Statuses \cup {Nil}]
  BY DEF CoreOK
<1>1. ASSUME NEW p \in Requests, Arrive(p)
      PROVE  FALSE
  BY <1>0, <1>1 DEF Arrive, putTopicReleaseDatePrivateHandler,
     putTopicStatePrivateHandler, putTopicPrivateHandler, CanArrive, Idle, Accept,
     Reject, Answers, CoreOK, SlotOK
<1>2. ASSUME NEW p \in Requests, Abandon(p)
      PROVE  FALSE
  BY <1>0, <1>2, RequestAssumption
     DEF Abandon, Answers, Statuses, CoreOK, SlotOK, Idle
<1>3. ASSUME NEW p \in Requests, UpdateReleaseDate(p)
      PROVE  topics'[req[q].id] # Nil /\ Applied(req[q], topics'[req[q].id])
  <2>1. /\ Found(p)
        /\ Store(p, setReleaseDate(topics[req[p].id], req[p].release))
        /\ Reply(p, 200)
    BY <1>3, FailureAnswers DEF UpdateReleaseDate, NotFound, StoreFailed
  <2>2. p = q
    BY <2>1, OnlyReplies
  <2>3. ~Idle(q) /\ req[q] \in ReleaseRequest
    BY <1>0, <1>3, <2>2 DEF UpdateReleaseDate, At, Idle, CoreOK, SlotOK
  <2>4. topics[req[q].id] \in TopicDoc /\ req[q].id \in Ids
    BY <1>0, <2>1, <2>2, <2>3, CallContext
  <2> DEFINE new == setReleaseDate(topics[req[q].id], req[q].release)
  <2>5. new \in TopicDoc /\ new.next.release = req[q].release
    BY <2>3, <2>4, SetReleaseDateDoc DEF ReleaseRequest
  <2>6. topics'[req[q].id] = new
    BY <1>0, <2>1, <2>2, <2>4 DEF Store
  <2> QED
    BY <2>3, <2>5, <2>6, ModelAssumption DEF Applied, Publishes, ReleaseRequest
<1>4. ASSUME NEW p \in Requests, UpdateState(p)
      PROVE  topics'[req[q].id] # Nil /\ Applied(req[q], topics'[req[q].id])
  <2>1. /\ Found(p)
        /\ Store(p, setState(topics[req[p].id], req[p].state))
        /\ Reply(p, 200)
    BY <1>4, FailureAnswers DEF UpdateState, NotFound, StoreFailed
  <2>2. p = q
    BY <2>1, OnlyReplies
  <2>3. ~Idle(q) /\ req[q] \in StateRequest /\ ~Publishes(req[q])
    BY <1>0, <1>4, <2>2 DEF UpdateState, At, Idle, CoreOK, SlotOK
  <2>4. topics[req[q].id] \in TopicDoc /\ req[q].id \in Ids
    BY <1>0, <2>1, <2>2, <2>3, CallContext
  <2> DEFINE new == setState(topics[req[q].id], req[q].state)
  <2>5. new \in TopicDoc /\ new.next.state = req[q].state
    BY <2>3, <2>4, SetStateDoc DEF StateRequest
  <2>6. topics'[req[q].id] = new
    BY <1>0, <2>1, <2>2, <2>4 DEF Store
  <2> QED
    BY <2>3, <2>5, <2>6, ModelAssumption DEF Applied, StateRequest
<1>5. ASSUME NEW p \in Requests, CheckTopicExists(p)
      PROVE  FALSE
  BY <1>0, <1>5, FailureAnswers
     DEF CheckTopicExists, NotFound, StoreFailed, Goto, Answers
<1>6. ASSUME NEW p \in Requests, UpdateTopic(p)
      PROVE  topics'[req[q].id] # Nil /\ Applied(req[q], topics'[req[q].id])
  <2>1. /\ Found(p)
        /\ Store(p, createTopicUpdateQuery(topics[req[p].id], req[p].update))
        /\ ~Publishes(req[p])
        /\ Reply(p, 200)
    BY <1>6, FailureAnswers DEF UpdateTopic, NotFound, StoreFailed, Goto, Answers
  <2>2. p = q
    BY <2>1, OnlyReplies
  <2>3. ~Idle(q) /\ req[q] \in TopicRequest
    BY <1>0, <1>6, <2>2 DEF UpdateTopic, At, Idle, CoreOK, SlotOK
  <2>4. topics[req[q].id] \in TopicDoc /\ req[q].id \in Ids
    BY <1>0, <2>1, <2>2, <2>3, CallContext
  <2> DEFINE new == createTopicUpdateQuery(topics[req[q].id], req[q].update)
  <2>5. /\ new \in TopicDoc
        /\ Carries(new.next, req[q].update)
        /\ new.next.state = req[q].update.state
    BY <2>3, <2>4, UpdateQueryDoc DEF TopicRequest
  <2>6. topics'[req[q].id] = new
    BY <1>0, <2>1, <2>2, <2>4 DEF Store
  <2> QED
    BY <2>1, <2>2, <2>3, <2>5, <2>6, ModelAssumption DEF Applied, TopicRequest
<1>7. ASSUME NEW p \in Requests, GetTopic(p)
      PROVE  FALSE
  BY <1>0, <1>7, FailureAnswers DEF GetTopic, Goto, Answers
<1>8. ASSUME NEW p \in Requests, UpsertTopic(p)
      PROVE  topics'[req[q].id] # Nil /\ Applied(req[q], topics'[req[q].id])
  <2>1. Found(p) /\ Store(p, copy[p]) /\ PublishReply(p, NoError)
    BY <1>8, FailureAnswers DEF UpsertTopic
  <2>2. p = q
    BY <2>1, OnlyReplies DEF PublishReply
  <2>3. /\ copy[q] \in TopicDoc
        /\ copy[q] # Nil
        /\ copy[q].current = copy[q].next
        /\ copy[q].current.state = StatePublished
        /\ Publishes(req[q])
        /\ req[q].id \in Ids
    BY <1>8, <2>2 DEF UpsertTopic, At, CoreOK, SlotOK, CopyPublished, StateRequest, TopicRequest
  <2>4. topics'[req[q].id] = copy[q]
    BY <1>0, <2>1, <2>2, <2>3 DEF Store
  <2> QED
    BY <2>3, <2>4 DEF Applied
<1> QED
  BY <1>1, <1>2, <1>3, <1>4, <1>5, <1>6, <1>7, <1>8 DEF Step, StoreCall

(* The step that answers a publish request 200 is its upsert.              *)
LEMMA PublishAnswered ==
  ASSUME CoreOK, Step, NEW q \in Requests, Answers(q, 200),
         Publishes(req[q])
  PROVE  pc[q] = "UpsertTopic" /\ Found(q) /\ Store(q, copy[q])
<1>1. ASSUME NEW p \in Requests, Arrive(p)
      PROVE  FALSE
  BY <1>1 DEF Arrive, putTopicReleaseDatePrivateHandler, putTopicStatePrivateHandler,
     putTopicPrivateHandler, CanArrive, Idle, Accept, Reject, Answers, CoreOK, SlotOK
<1>2. ASSUME NEW p \in Requests, Abandon(p)
      PROVE  FALSE
  BY <1>2, RequestAssumption DEF Abandon, Answers, Statuses, CoreOK, SlotOK, Idle
<1>3. ASSUME NEW p \in Requests, UpdateReleaseDate(p) \/ UpdateState(p)
      PROVE  FALSE
  <2>1. Reply(p, 200)
    BY <1>3, FailureAnswers DEF UpdateReleaseDate, UpdateState, NotFound, StoreFailed
  <2>2. p = q
    BY <2>1, OnlyReplies
  <2> QED
    BY <1>3, <2>2 DEF UpdateReleaseDate, UpdateState, At, CoreOK, SlotOK,
                      ReleaseRequest, Publishes
<1>4. ASSUME NEW p \in Requests, CheckTopicExists(p) \/ GetTopic(p)
      PROVE  FALSE
  BY <1>4, FailureAnswers
     DEF CheckTopicExists, GetTopic, NotFound, StoreFailed, Goto, Answers
<1>5. ASSUME NEW p \in Requests, UpdateTopic(p)
      PROVE  FALSE
  <2>1. ~Publishes(req[p]) /\ Reply(p, 200)
    BY <1>5, FailureAnswers DEF UpdateTopic, NotFound, StoreFailed, Goto, Answers
  <2> QED
    BY <2>1, OnlyReplies
<1>6. ASSUME NEW p \in Requests, UpsertTopic(p)
      PROVE  pc[q] = "UpsertTopic" /\ Found(q) /\ Store(q, copy[q])
  <2>1. Found(p) /\ Store(p, copy[p]) /\ PublishReply(p, NoError)
    BY <1>6, FailureAnswers DEF UpsertTopic
  <2>2. p = q
    BY <2>1, OnlyReplies DEF PublishReply
  <2> QED
    BY <1>6, <2>1, <2>2 DEF UpsertTopic, At
<1> QED
  BY <1>1, <1>2, <1>3, <1>4, <1>5, <1>6 DEF Step, StoreCall

(* What goes live with that answer is a draft from the window of the       *)
(* request, and its own update unless others are there too.                *)
LEMMA AnswerPublishes ==
  ASSUME CoreOK, Step, NEW q \in Requests, CopyOK(q), WindowOK(q),
         Answers(q, 200), Publishes(req[q])
  PROVE  PublishedAsRead(q, topics'[req[q].id].current)
<1>1. pc[q] = "UpsertTopic" /\ Store(q, copy[q])
  BY PublishAnswered
<1>2. req[q].id \in Ids /\ topics'[req[q].id] = copy[q]
  BY <1>1, CallContext DEF Store, CoreOK, Idle
<1>3. copy[q].current \in window[q]
  BY <1>1 DEF CopyOK
<1>4. ASSUME req[q].handler = "PutTopic", ~Carries(copy[q].current, req[q].update)
      PROVE  Overtaken(q)
  <2>1. PICK v \in window[q] : Carries(v, req[q].update)
    BY <1>1, <1>4 DEF WindowOK
  <2> QED
    BY <1>3, <1>4, <2>1 DEF Overtaken
<1> QED
  BY <1>2, <1>3, <1>4 DEF PublishedAsRead

LEMMA AnswerStep ==
  ASSUME SafetyInv, Step, NEW q \in Requests
  PROVE  AnswerHolds(q)
<1>1. CoreOK /\ \A p \in Requests : CopyPublished(p)
  BY DEF SafetyInv, TypeOK, CoreOK, CopyOK, CopyPublished
<1>2. CopyOK(q) /\ WindowOK(q)
  BY DEF SafetyInv
<1> QED
  BY <1>1, <1>2, AnswerApplied, AnswerPublishes DEF AnswerHolds

(* However requests interleave, one that is answered 200 and does not      *)
(* publish is in the draft at that moment; one that publishes has put live *)
(* a draft that the topic had after its own update and before its read,    *)
(* and what it sent itself unless another write came between the two.      *)
THEOREM Acknowledged == Spec => AcknowledgedIsApplied
<1>1. SafetyInv /\ [Next]_vars => [\A q \in Requests : AnswerHolds(q)]_vars
  BY AnswerStep DEF Next
<1> QED
  BY <1>1, Safety, PTL DEF Spec, AcknowledgedIsApplied

-----------------------------------------------------------------------------
(* With one request at a time, the handlers implement                      *)
(* TopicPublication.  The invariant: no two requests are in progress, and  *)
(* the copy waiting to be written is the published form of the document as *)
(* it still is.                                                            *)
SerialInv ==
  /\ \A p, q \in Requests : ~Idle(p) /\ ~Idle(q) => p = q
  /\ \A q \in Requests : pc[q] = "UpsertTopic" =>
       Found(q) /\ copy[q] = publishedCopy(topics[req[q].id])

LEMMA SerialSlots ==
  ASSUME Serial, TypeOK, SerialInv, [Next]_vars
  PROVE  \A p, q \in Requests : ~Idle(p)' /\ ~Idle(q)' => p = q
<1> USE DEF TypeOK, SerialInv
<1>1. ASSUME NEW r \in Requests, Arrive(r)
      PROVE  \A p, q \in Requests : ~Idle(p)' /\ ~Idle(q)' => p = q
  BY <1>1 DEF Arrive, putTopicReleaseDatePrivateHandler, putTopicStatePrivateHandler,
              putTopicPrivateHandler, CanArrive, Idle, Accept, Reject
<1>2. ASSUME NEW r \in Requests, StoreCall(r) \/ Abandon(r)
      PROVE  /\ ~Idle(r)
             /\ \A p \in Requests : p # r => pc'[p] = pc[p]
  BY <1>2 DEF StoreCall, UpdateReleaseDate, UpdateState, CheckTopicExists, UpdateTopic,
              GetTopic, UpsertTopic, Abandon, At, Idle, NotFound, StoreFailed, Goto,
              ReplyError, PublishReply, Reply
<1>3. CASE \E r \in Requests : StoreCall(r) \/ Abandon(r)
  BY <1>2, <1>3 DEF Idle
<1>4. CASE UNCHANGED vars
  BY <1>4 DEF vars, Idle
<1> QED
  BY <1>1, <1>3, <1>4 DEF Next, Step

LEMMA SerialCopies ==
  ASSUME Serial, TypeOK, SerialInv, [Next]_vars,
         NEW q \in Requests, pc'[q] = "UpsertTopic"
  PROVE  /\ topics'[req'[q].id] # Nil
         /\ copy'[q] = publishedCopy(topics'[req'[q].id])
<1>1. CASE FreshCopy(q)
  BY <1>1 DEF FreshCopy, Found
<1>2. CASE UNCHANGED vars
  BY <1>2 DEF vars, SerialInv, Found
<1>3. CASE KeptCopy(q) /\ Next
  <2>1. pc[q] = "UpsertTopic" /\ ~Idle(q)
    BY <1>3 DEF KeptCopy, Idle
  <2>2. ASSUME NEW r \in Requests, Arrive(r)
        PROVE  FALSE
    BY <2>1, <2>2 DEF Arrive, putTopicReleaseDatePrivateHandler,
       putTopicStatePrivateHandler, putTopicPrivateHandler, CanArrive
  <2>3. ASSUME NEW r \in Requests, StoreCall(r) \/ Abandon(r)
        PROVE  FALSE
    <3>1. ~Idle(r)
      BY <2>3 DEF StoreCall, UpdateReleaseDate, UpdateState, CheckTopicExists,
         UpdateTopic, GetTopic, UpsertTopic, Abandon, At, Idle
    <3>2. r = q
      BY <2>1, <3>1 DEF SerialInv
    <3>3. CASE Abandon(q)
      BY <3>3 DEF Abandon, TypeOK
    <3>4. CASE StoreCall(q)
      <4>1. UpsertTopic(q)
        BY <2>1, <3>4 DEF StoreCall, UpdateReleaseDate, UpdateState, CheckTopicExists,
           UpdateTopic, GetTopic, At
      <4> QED
        BY <4>1 DEF UpsertTopic, PublishReply, Reply, TypeOK
    <3> QED
      BY <2>3, <3>2, <3>3, <3>4
  <2> QED
    BY <1>3, <2>2, <2>3 DEF Next, Step
<1> QED
  BY <1>1, <1>2, <1>3, CopyEffect

LEMMA SerialStep ==
  ASSUME Serial, TypeOK, SerialInv, [Next]_vars
  PROVE  SerialInv'
BY SerialSlots, SerialCopies DEF SerialInv, Found

LEMMA SerialInit == Init => SerialInv
BY DEF Init, SerialInv, Idle

(* The abstract specification speaks of the same versions.                 *)
LEMMA SameModel ==
  /\ Publication!Version = Version
  /\ Publication!StatePublished = StatePublished
  /\ \A v : Publication!AsPublished(v) = AsPublished(v)
BY DEF Publication!Version, Version, Publication!States, States,
       Publication!stateTransitionTable, stateTransitionTable,
       Publication!AsPublished, AsPublished,
       Publication!StatePublished, StatePublished

(* The initial collection maps to an initial state of the abstract         *)
(* specification.                                                          *)
LEMMA PublicationInit == Init => Publication!Init
<1> SUFFICES ASSUME Init PROVE Publication!Init
  OBVIOUS
<1>1. TypeOK /\ LivePublished
  BY SafetyInit DEF SafetyInv
<1>2. ASSUME NEW id \in Ids
      PROVE  /\ Draft(id) \in Version \cup {Nil}
             /\ Live(id) \in Version \cup {Nil}
             /\ Live(id) # Nil => Draft(id) # Nil /\ Live(id).state = StatePublished
  BY <1>1, ModelAssumption DEF TypeOK, TopicDoc, Draft, Live, LivePublished
<1> QED
  <2>1. [id \in Ids |-> Draft(id)] \in [Ids -> Version \cup {Nil}]
    BY <1>2
  <2>2. [id \in Ids |-> Live(id)] \in [Ids -> Version \cup {Nil}]
    BY <1>2
  <2> QED
    BY <1>2, <2>1, <2>2, SameModel DEF Publication!Init

(* Every step maps to a step of the abstract specification or to none.     *)
LEMMA PublicationStep ==
  ASSUME Serial, TypeOK, SerialInv, [Next]_vars
  PROVE  [Publication!Next]_Publication!vars
<1>1. CASE UNCHANGED topics
  BY <1>1 DEF Publication!vars, Draft, Live
<1>2. CASE EditStep
  <2>1. PICK id \in Ids, new \in TopicDoc :
          /\ topics[id] \in TopicDoc
          /\ EditOf(topics[id], new)
          /\ topics' = [topics EXCEPT ![id] = new]
    BY <1>2 DEF EditStep
  <2>2. topics \in [Ids -> TopicDoc \cup {Nil}] /\ new # Nil /\ topics[id] # Nil
    BY <2>1, ModelAssumption DEF TypeOK
  <2>3. \A i \in Ids : Live(i)' = Live(i)
    BY <2>1, <2>2 DEF Live, EditOf
  <2>4. \A i \in Ids : i # id => Draft(i)' = Draft(i)
    BY <2>1, <2>2 DEF Draft
  <2>5. /\ Draft(id) # Nil
        /\ Draft(id)' = new.next
        /\ new.next \in Version
        /\ new.next.slug = Draft(id).slug
    BY <2>1, <2>2, ModelAssumption DEF Draft, TopicDoc, EditOf
  <2>6. Publication!Edit(id)
    <3>1. [i \in Ids |-> Draft(i)]'
            = [[i \in Ids |-> Draft(i)] EXCEPT ![id] = new.next]
      BY <2>4, <2>5
    <3>2. [i \in Ids |-> Live(i)]' = [i \in Ids |-> Live(i)]
      BY <2>3
    <3> QED
      BY <2>5, <3>1, <3>2, SameModel DEF Publication!Edit
  <2> QED
    BY <2>6 DEF Publication!Next
<1>3. CASE UpsertStep
  <2>1. PICK q \in Requests, id \in Ids :
          pc[q] = "UpsertTopic" /\ Store(q, copy[q]) /\ id = req[q].id
    BY <1>3 DEF UpsertStep, TypeOK, SlotOK, StateRequest, TopicRequest
  <2>2. /\ topics \in [Ids -> TopicDoc \cup {Nil}]
        /\ topics[id] # Nil
        /\ topics[id] \in TopicDoc
        /\ copy[q] = publishedCopy(topics[id])
        /\ copy[q] # Nil
    BY <2>1 DEF TypeOK, SlotOK, SerialInv, Found, StateRequest, TopicRequest
  <2>3. Draft(id) = topics[id].next /\ Draft(id) # Nil
    BY <2>2, ModelAssumption DEF Draft, TopicDoc
  <2>4. copy[q].next = AsPublished(Draft(id)) /\ copy[q].current = AsPublished(Draft(id))
    BY <2>2, <2>3, PublishedCopyDoc
  <2>5. Draft(id)' = copy[q].next /\ Live(id)' = copy[q].current
    BY <2>1, <2>2 DEF Draft, Live, Store
  <2>6. \A i \in Ids : i # id => Draft(i)' = Draft(i) /\ Live(i)' = Live(i)
    BY <2>1, <2>2 DEF Draft, Live, Store
  <2>7. Publication!Publish(id)
    <3>1. [i \in Ids |-> Draft(i)]'
            = [[i \in Ids |-> Draft(i)] EXCEPT ![id] = AsPublished(Draft(id))]
      BY <2>4, <2>5, <2>6
    <3>2. [i \in Ids |-> Live(i)]'
            = [[i \in Ids |-> Live(i)] EXCEPT ![id] = AsPublished(Draft(id))]
      BY <2>4, <2>5, <2>6
    <3> QED
      BY <2>3, <3>1, <3>2, SameModel DEF Publication!Publish
  <2> QED
    BY <2>2, <2>7 DEF Publication!Next
<1> QED
  BY <1>1, <1>2, <1>3, TopicsEffect

(* One request at a time: the draft alone is edited, and a publish puts    *)
(* the draft live as it is at that moment, crashes and failed calls of the *)
(* store notwithstanding.                                                  *)
THEOREM SerialRefinement ==
  ASSUME Serial
  PROVE  Spec => PublicationSpec
<1>1. Init => SerialInv /\ Publication!Init
  BY SerialInit, PublicationInit
<1>2. TypeOK /\ SerialInv /\ [Next]_vars => SerialInv'
  BY SerialStep
<1>3. TypeOK /\ SerialInv /\ [Next]_vars => [Publication!Next]_Publication!vars
  BY PublicationStep
<1> QED
  BY <1>1, <1>2, <1>3, TypeCorrect, PTL DEF Spec, PublicationSpec, Publication!Spec

-----------------------------------------------------------------------------
(* What one request at a time adds for editors.  The invariant: from its   *)
(* update to its upsert, the draft of the topic is the one that the        *)
(* publishing update wrote.                                                *)
UpdateHeld ==
  \A q \in Requests :
    pc[q] \in {"GetTopic", "UpsertTopic"} /\ req[q].handler = "PutTopic" =>
      Found(q) /\ Carries(topics[req[q].id].next, req[q].update)

(* A step is one of the request in progress, or of the one that arrives:   *)
(* whoever is past its update took that step itself.                       *)
LEMMA SerialActor ==
  ASSUME Serial, TypeOK, SerialInv, Next,
         NEW q \in Requests, pc'[q] \in {"GetTopic", "UpsertTopic"}
  PROVE  Arrive(q) \/ StoreCall(q)
<1>1. PICK r \in Requests : Arrive(r) \/ StoreCall(r) \/ Abandon(r)
  BY DEF Next, Step
<1>2. CASE Arrive(r)
  BY <1>2 DEF Arrive, putTopicReleaseDatePrivateHandler, putTopicStatePrivateHandler,
              putTopicPrivateHandler, CanArrive, Idle, Accept, Reject, TypeOK
<1>3. CASE StoreCall(r) \/ Abandon(r)
  <2>1. ~Idle(r) /\ \A p \in Requests : p # r => pc'[p] = pc[p]
    BY <1>3 DEF StoreCall, UpdateReleaseDate, UpdateState, CheckTopicExists, UpdateTopic,
                GetTopic, UpsertTopic, Abandon, At, Idle, NotFound, StoreFailed, Goto,
                ReplyError, PublishReply, Reply, TypeOK
  <2>2. r = q
    BY <2>1 DEF SerialInv, Idle
  <2>3. ~Abandon(q)
    BY DEF Abandon, TypeOK
  <2> QED
    BY <1>3, <2>2, <2>3
<1> QED
  BY <1>1, <1>2, <1>3

LEMMA UpdateHeldStep ==
  ASSUME Serial, TypeOK, SerialInv, UpdateHeld, [Next]_vars
  PROVE  UpdateHeld'
<1> SUFFICES ASSUME NEW q \in Requests, pc'[q] \in {"GetTopic", "UpsertTopic"},
                    req'[q].handler = "PutTopic"
             PROVE  /\ topics'[req'[q].id] # Nil
                    /\ Carries(topics'[req'[q].id].next, req'[q].update)
  BY DEF UpdateHeld, Found
<1>1. CASE UNCHANGED vars
  BY <1>1 DEF vars, UpdateHeld, Found
<1>2. ASSUME Next, Arrive(q) PROVE FALSE
  BY <1>2 DEF Arrive, putTopicReleaseDatePrivateHandler, putTopicStatePrivateHandler,
              putTopicPrivateHandler, CanArrive, Idle, Accept, Reject, TypeOK
<1>3. CASE Next /\ UpdateTopic(q)
  <2>1. /\ Found(q)
        /\ Store(q, createTopicUpdateQuery(topics[req[q].id], req[q].update))
        /\ req' = req
    BY <1>3 DEF UpdateTopic, NotFound, StoreFailed, ReplyError, Reply, Goto, TypeOK
  <2>2. req[q] \in TopicRequest /\ ~Idle(q)
    BY <1>3 DEF UpdateTopic, At, TypeOK, SlotOK, Idle
  <2>3. topics[req[q].id] \in TopicDoc /\ req[q].id \in Ids
    BY <2>1, <2>2 DEF TopicRequest, TypeOK, Found
  <2> DEFINE new == createTopicUpdateQuery(topics[req[q].id], req[q].update)
  <2>4. new \in TopicDoc /\ Carries(new.next, req[q].update)
    BY <2>2, <2>3, UpdateQueryDoc DEF TopicRequest
  <2>5. topics'[req[q].id] = new
    BY <2>1, <2>3 DEF Store, TypeOK
  <2> QED
    BY <2>1, <2>4, <2>5, ModelAssumption
<1>4. CASE Next /\ GetTopic(q)
  BY <1>4 DEF GetTopic, At, Goto, PublishReply, Reply, TypeOK, UpdateHeld, Found
<1>5. ASSUME UpdateReleaseDate(q) \/ UpdateState(q) \/ CheckTopicExists(q) \/ UpsertTopic(q)
      PROVE  FALSE
  BY <1>5 DEF UpdateReleaseDate, UpdateState, CheckTopicExists, UpsertTopic, At, NotFound,
              StoreFailed, Goto, ReplyError, PublishReply, Reply, TypeOK
<1> QED
  BY <1>1, <1>2, <1>3, <1>4, <1>5, SerialActor DEF StoreCall

LEMMA UpdateGoesLive ==
  ASSUME TypeOK, SerialInv, UpdateHeld, Next,
         NEW q \in Requests, NEW id \in Ids, Answers(q, 200),
         req[q].handler = "PutTopic", req[q].id = id, Publishes(req[q])
  PROVE  Carries(Live(id)', req[q].update)
<1> DEFINE doc == topics[id]
<1>1. CoreOK
  BY DEF TypeOK, CoreOK
<1>2. pc[q] = "UpsertTopic" /\ Found(q) /\ Store(q, copy[q])
  BY <1>1, PublishAnswered DEF Next
<1>3. doc \in TopicDoc
  BY <1>1, <1>2, CallContext DEF Idle
<1>4. copy[q] = publishedCopy(doc) /\ Carries(doc.next, req[q].update)
  BY <1>2 DEF SerialInv, UpdateHeld
<1>5. copy[q] \in TopicDoc /\ copy[q].current = AsPublished(doc.next)
  BY <1>3, <1>4, PublishedCopyDoc
<1>6. Carries(AsPublished(doc.next), req[q].update)
  BY <1>3, <1>4, AsPublishedCarries DEF TopicDoc
<1>7. topics'[id] = copy[q] /\ copy[q] # Nil
  BY <1>1, <1>2, <1>3, <1>5, ModelAssumption DEF Store, CoreOK
<1> QED
  BY <1>5, <1>6, <1>7 DEF Live

(* One request at a time: an update that asks for the published state and  *)
(* is answered 200 is live with the title, description, keywords, release  *)
(* date and subtopics of that update, not with those of an earlier draft,  *)
(* whatever failed before it.  (Its slug is not among them.)               *)
THEOREM UpdatesGoLive ==
  ASSUME Serial
  PROVE  Spec => AcknowledgedUpdateIsLive
<1>1. Init => SerialInv /\ UpdateHeld
  BY SerialInit DEF Init, UpdateHeld
<1>2. TypeOK /\ SerialInv /\ UpdateHeld /\ [Next]_vars => (SerialInv /\ UpdateHeld)'
  BY SerialStep, UpdateHeldStep
<1>3. TypeOK /\ SerialInv /\ UpdateHeld /\ [Next]_vars =>
        [\A q \in Requests, id \in Ids :
           /\ Answers(q, 200)
           /\ req[q].handler = "PutTopic" /\ req[q].id = id /\ Publishes(req[q])
           => Carries(Live(id)', req[q].update)]_vars
  BY UpdateGoesLive
<1> QED
  BY <1>1, <1>2, <1>3, TypeCorrect, PTL DEF Spec, AcknowledgedUpdateIsLive

-----------------------------------------------------------------------------
(* What RequestsEnd rests on beside fairness: a request makes at most four *)
(* store calls, whatever they return and whatever the others do.           *)
CallsLeft ==
  [ idle |-> 0, UpdateReleaseDate |-> 1, UpdateState |-> 1, UpsertTopic |-> 1,
    GetTopic |-> 2, UpdateTopic |-> 3, CheckTopicExists |-> 4 ]

Advances(q) == CallsLeft[pc'[q]] < CallsLeft[pc[q]]

LEMMA EveryCallAdvances ==
  ASSUME CoreOK, NEW q \in Requests, StoreCall(q) \/ Abandon(q)
  PROVE  Advances(q)
<1> USE DEF CoreOK, SlotOK, StoreCalls, CallsLeft, Advances
<1>1. CASE UpdateReleaseDate(q) \/ UpdateState(q)
  BY <1>1 DEF UpdateReleaseDate, UpdateState, At, NotFound, StoreFailed, ReplyError, Reply
<1>2. CASE CheckTopicExists(q) \/ UpdateTopic(q)
  BY <1>2 DEF CheckTopicExists, UpdateTopic, At, NotFound, StoreFailed, ReplyError, Reply,
              Goto
<1>3. CASE GetTopic(q) \/ UpsertTopic(q)
  BY <1>3 DEF GetTopic, UpsertTopic, At, PublishReply, Reply, Goto
<1>4. CASE Abandon(q)
  BY <1>4 DEF Abandon, Idle
<1> QED
  BY <1>1, <1>2, <1>3, <1>4 DEF StoreCall

LEMMA OneSlotMoves ==
  ASSUME CoreOK, NEW p \in Requests, NEW q \in Requests, p # q,
         Arrive(p) \/ StoreCall(p) \/ Abandon(p)
  PROVE  pc'[q] = pc[q]
<1> USE DEF CoreOK, Accept, Reject, Goto, Reply, ReplyError, PublishReply, NotFound,
            StoreFailed
<1>1. CASE Arrive(p)
  BY <1>1 DEF Arrive, putTopicReleaseDatePrivateHandler, putTopicStatePrivateHandler,
              putTopicPrivateHandler
<1>2. CASE StoreCall(p)
  BY <1>2 DEF StoreCall, UpdateReleaseDate, UpdateState, CheckTopicExists, UpdateTopic,
              GetTopic, UpsertTopic
<1>3. CASE Abandon(p)
  BY <1>3 DEF Abandon
<1> QED
  BY <1>1, <1>2, <1>3

(* A request in progress stays where it is until one of its own calls, and *)
(* each of these brings it nearer its end: no error, missing topic or      *)
(* interleaving leads a handler back.                                      *)
THEOREM RequestsAdvance ==
  Spec => [][\A q \in Requests : ~Idle(q) /\ pc'[q] # pc[q] => Advances(q)]_vars
<1>1. ASSUME TypeOK, Next, NEW q \in Requests, ~Idle(q), pc'[q] # pc[q]
      PROVE  Advances(q)
  <2>1. CoreOK
    BY <1>1 DEF TypeOK, CoreOK
  <2>2. PICK p \in Requests : Arrive(p) \/ StoreCall(p) \/ Abandon(p)
    BY <1>1 DEF Next, Step
  <2>3. p = q
    BY <1>1, <2>1, <2>2, OneSlotMoves
  <2>4. ~Arrive(q)
    BY <1>1 DEF Arrive, putTopicReleaseDatePrivateHandler, putTopicStatePrivateHandler,
                putTopicPrivateHandler, CanArrive
  <2> QED
    BY <2>1, <2>2, <2>3, <2>4, EveryCallAdvances
<1>2. TypeOK /\ [Next]_vars =>
        [\A q \in Requests : ~Idle(q) /\ pc'[q] # pc[q] => Advances(q)]_vars
  BY <1>1
<1> QED
  BY <1>2, TypeCorrect, PTL DEF Spec

=============================================================================
