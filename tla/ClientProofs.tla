---------------------------- MODULE ClientProofs ----------------------------
(***************************************************************************)
(* Theorems about TopicClient, for every number of attempts and of slots,  *)
(* for both kinds of instances, and wherever connections break.            *)
(***************************************************************************)
EXTENDS TopicClient, ReadProofs

-----------------------------------------------------------------------------
(* The service stays well typed when it is called through the client.      *)

ServiceOK ==
  /\ CoreOK
  /\ ReadTypeOK
  /\ \A q \in Requests : CopyPublished(q)

LEMMA CoreTopics ==
  ASSUME CoreOK
  PROVE  TopicsOK
BY DEF CoreOK, TopicsOK

(* The steps that touch neither the store nor a slot.                      *)
LEMMA QuietService ==
  ASSUME ServiceOK, UNCHANGED <<topics, pc, req, copy, slotVars>>, NoAnswers
  PROVE  ServiceOK'
<1>1. CoreOK'
  BY DEF ServiceOK, CoreOK, NoAnswers, SlotOK
<1>2. ReadTypeOK'
  BY DEF ServiceOK, ReadTypeOK, NoAnswers, NoAnswer, slotVars
<1>3. \A q \in Requests : CopyPublished(q)'
  BY DEF ServiceOK, CopyPublished
<1> QED
  BY <1>1, <1>2, <1>3 DEF ServiceOK

(* The steps of a PUT request.                                             *)
LEMMA PutService ==
  ASSUME ServiceOK, Step, UNCHANGED slotVars, NoAnswer
  PROVE  ServiceOK'
<1>1. CoreOK'
  BY StepType DEF ServiceOK
<1>2. ReadTypeOK'
  BY DEF ServiceOK, ReadTypeOK, NoAnswer, slotVars
<1>3. \A q \in Requests : CopyPublished(q)'
  BY CopyPublishedStep DEF ServiceOK
<1> QED
  BY <1>1, <1>2, <1>3 DEF ServiceOK

(* The steps of a GET request, when the last answers are forgotten or not. *)
LEMMA GetService ==
  ASSUME ServiceOK, ReadTypeOK', UNCHANGED <<topics, pc, req, copy>>,
         resp' \in {resp, [q \in Requests |-> Nil]}
  PROVE  ServiceOK'
<1>1. CoreOK'
  BY DEF ServiceOK, CoreOK, SlotOK
<1>2. \A q \in Requests : CopyPublished(q)'
  BY DEF ServiceOK, CopyPublished
<1> QED
  BY <1>1, <1>2 DEF ServiceOK

LEMMA HandlerArrives ==
  ASSUME NEW q \in Requests, call.fn \in DOMAIN Puts, PutHandler(q)
  PROVE  Arrive(q)
BY DEF PutHandler, Puts, Arrive

LEMMA GetArrives ==
  ASSUME NEW r \in Readers, private \in BOOLEAN, GetHandler(r)
  PROVE  \/ ReadError(r, "ErrTopicNotFound")
         \/ \E request \in ReadRequest :
              ReadRecv(r, request) /\ request.private = private
<1>1. CASE private = TRUE
  BY <1>1, PrivateArrives DEF GetHandler
<1>2. CASE private = FALSE
  BY <1>2, PublicArrives DEF GetHandler
<1> QED
  BY <1>1, <1>2

-----------------------------------------------------------------------------
(* Type correctness of the call, by the way in which a step changes it.    *)

CallInv ==
  /\ ClientTypeOK
  /\ CanSend => tries < MaxAttempts
  /\ reply # Nil => /\ reply \in Received
                    /\ call.fn # Navigation => reply.body \in Seq(Item)

LEMMA AnswersReceived ==
  /\ Broken \in Received /\ Broken.body \in Seq(Item)
  /\ \A status \in {401, 405} \cup Statuses :
       Refusal(status) \in Received /\ Refusal(status).body \in Seq(Item)
  /\ \A answered \in Answer : answered \in Received /\ answered.body \in Seq(Item)
<1>1. <<>> \in Seq(Item) /\ <<>> \in Seq(Item \cup [lang : Languages])
  OBVIOUS
<1>2. ASSUME NEW s \in Seq(Item) PROVE s \in Seq(Item \cup [lang : Languages])
  OBVIOUS
<1> QED
  BY <1>1, <1>2 DEF Broken, Refusal, Received, Answer

LEMMA NothingIsNil ==
  /\ Nil \notin Requests \cup Readers
  /\ Nil \notin Received
  /\ Requests \cap Readers = {}
BY ClientAssumption, ReceivedAssumption

LEMMA BeginCallDoes ==
  ASSUME BeginCall
  PROVE  /\ Free
         /\ UNCHANGED <<topics, pc, req, copy, slotVars, private, tries, slot, reply>>
         /\ NoAnswers
         /\ outcome' \in {Nil, [err |-> TRUE, code |-> 0, body |-> <<>>]}
BY DEF BeginCall, PutTopicStatePrivate, PutTopicReleasePrivate, PutTopicPrivate,
       GetTopicPublic, GetSubtopicsPublic, GetRootTopicsPublic, GetTopicPrivate,
       GetSubtopicsPrivate, GetRootTopicsPrivate, GetNavigationPublic,
       PutCall, GetCall, Begin, Fails

LEMMA BeginCallType ==
  ASSUME CallInv, BeginCall
  PROVE  CallInv'
<1>1. outcome' \in Outcome \cup {Nil}
  <2>1. <<>> \in Seq(Item \cup [lang : Languages])
    OBVIOUS
  <2>2. [err |-> TRUE, code |-> 0, body |-> <<>>] \in Outcome
    BY <2>1 DEF Outcome
  <2> QED
    BY <2>2, BeginCallDoes
<1>2. slot = Nil /\ reply = Nil /\ tries = 0
  BY BeginCallDoes DEF CallInv, ClientTypeOK
<1>3. slot' = Nil /\ reply' = Nil /\ tries' = 0 /\ private' = private
  BY <1>2, BeginCallDoes
<1> QED
  BY <1>1, <1>3, ClientAssumption, NothingIsNil DEF CallInv, ClientTypeOK, CanSend

(* An answer comes back at once, or a slot takes the request.              *)
LEMMA AnswerType ==
  ASSUME CallInv, CanSend, NEW answered \in Received,
         call.fn # Navigation => answered.body \in Seq(Item),
         tries' = tries + 1, reply' = answered, outcome' = Nil,
         UNCHANGED <<private, call, slot>>
  PROVE  CallInv'
<1>1. ~Free' /\ slot' = Nil /\ reply' # Nil
  BY NothingIsNil DEF CanSend, Free
<1>2. tries' \in 0..MaxAttempts
  BY ClientAssumption DEF CallInv, ClientTypeOK
<1> QED
  BY <1>1, <1>2, NothingIsNil DEF CallInv, ClientTypeOK, CanSend

LEMMA SlotType ==
  ASSUME CallInv, CanSend, slot' # Nil,
         \/ slot' \in Requests /\ pc'[slot'] # "idle" /\ req'[slot'] = call.arg
         \/ slot' \in Readers /\ rpc'[slot'] # "idle" /\ rreq'[slot'].id = call.arg,
         tries' = tries + 1, outcome' = Nil, UNCHANGED <<private, call, reply>>
  PROVE  CallInv'
<1>1. ~Free' /\ reply' = Nil
  BY DEF CanSend, Free
<1>2. tries' \in 0..MaxAttempts
  BY ClientAssumption DEF CallInv, ClientTypeOK
<1> QED
  BY <1>1, <1>2, NothingIsNil DEF CallInv, ClientTypeOK, CanSend, Idle, ReaderIdle

(* A request that its handler does not accept is refused.                  *)
LEMMA ArriveRefuses ==
  ASSUME CoreOK, NEW q \in Requests, Arrive(q), pc'[q] = "idle"
  PROVE  resp'[q] \in Statuses /\ resp'[q] # 200
<1>1. ASSUME NEW r, NEW call_ \in StoreCalls, Accept(q, r, call_)
      PROVE  FALSE
  BY <1>1 DEF Accept, CoreOK, StoreCalls
<1>2. ASSUME NEW err \in {"ErrUnableToReadMessage", "ErrEmptyRequestBody",
                          "ErrInvalidReleaseDate", "ErrTopicInvalidState",
                          "ErrTopicMissingFields"}, Reject(q, err)
      PROVE  resp'[q] \in Statuses /\ resp'[q] # 200
  <2>1. resp'[q] = handleError[err]
    BY <1>2 DEF Reject, CoreOK
  <2> QED
    BY <1>2, <2>1, ErrorStatus
<1>3. CASE putTopicReleaseDatePrivateHandler(q)
  <2>1. ASSUME NEW date \in {Blank, Malformed}
        PROVE  ValidateRelease(date) = "ErrInvalidReleaseDate"
    BY ModelAssumption DEF ValidateRelease
  <2>2. ~\E r : Accept(q, r, "UpdateReleaseDate")
    BY <1>1 DEF StoreCalls
  <2>3. \E err \in ReadErrors \cup {"ErrInvalidReleaseDate"} : Reject(q, err)
    BY <1>3, <2>1, <2>2 DEF putTopicReleaseDatePrivateHandler
  <2> QED
    BY <1>2, <2>3 DEF ReadErrors
<1>4. CASE putTopicStatePrivateHandler(q)
  <2>1. ParseState(Malformed) = "ErrTopicInvalidState"
    BY ModelAssumption DEF ParseState
  <2>2. "GetTopic" \in StoreCalls /\ "UpdateState" \in StoreCalls
    BY DEF StoreCalls
  <2>3. ~\E r : Accept(q, r, "GetTopic") \/ Accept(q, r, "UpdateState")
    BY <1>1, <2>2
  <2>4. Reject(q, "ErrTopicInvalidState")
    BY <1>4, <2>1, <2>3 DEF putTopicStatePrivateHandler
  <2> QED
    BY <1>2, <2>4
<1>5. CASE putTopicPrivateHandler(q)
  <2>1. ASSUME NEW u, ValidateUpdate(u) # NoError
        PROVE  ValidateUpdate(u) \in {"ErrInvalidReleaseDate", "ErrTopicInvalidState",
                                      "ErrTopicMissingFields"}
    BY <2>1 DEF ValidateUpdate, ParseState, ValidateRelease, NoError
  <2>2. "CheckTopicExists" \in StoreCalls
    BY DEF StoreCalls
  <2>3. ~\E r : Accept(q, r, "CheckTopicExists")
    BY <1>1, <2>2
  <2>4. \E err \in ReadErrors \cup {"ErrInvalidReleaseDate", "ErrTopicInvalidState",
                                    "ErrTopicMissingFields"} : Reject(q, err)
    BY <1>5, <2>1, <2>3 DEF putTopicPrivateHandler
  <2> QED
    BY <1>2, <2>4 DEF ReadErrors
<1> QED
  BY <1>3, <1>4, <1>5 DEF Arrive

LEMMA PutDoes ==
  ASSUME ServiceOK, CanSend, Put
  PROVE  /\ Step /\ UNCHANGED slotVars /\ NoAnswer
         /\ \A q \in Requests : ~Idle(q) => pc'[q] = pc[q]
         /\ UNCHANGED topics
         /\ tries' = tries + 1
         /\ call.fn \in DOMAIN Puts
         /\ \/ /\ \E status \in Statuses \ {200} : reply' = Refusal(status)
               /\ slot' = slot
            \/ /\ slot' \in Requests /\ pc'[slot'] \notin {"idle", "UpsertTopic"}
               /\ req'[slot'] = call.arg
               /\ reply' = reply
<1>1. PICK q \in FreeSlots :
        /\ PutHandler(q)
        /\ IF Idle(q)'
           THEN call.arg = Nil /\ reply' = Refusal(resp'[q]) /\ UNCHANGED slot
           ELSE req'[q] = call.arg /\ slot' = q /\ UNCHANGED reply
  BY DEF Put
<1>2. q \in Requests /\ Idle(q)
  BY DEF FreeSlots, IdleSlots
<1>3. Arrive(q)
  BY <1>1, <1>2, HandlerArrives DEF Put
<1>4. UNCHANGED topics /\ \A p \in Requests : p # q => pc'[p] = pc[p]
  BY <1>3 DEF Arrive, putTopicReleaseDatePrivateHandler, putTopicStatePrivateHandler,
              putTopicPrivateHandler, Accept, Reject, ServiceOK, CoreOK
<1>5. CASE pc'[q] = "idle"
  BY <1>1, <1>2, <1>3, <1>4, <1>5, ArriveRefuses DEF Idle, Put, Step, ServiceOK
<1>6. CASE pc'[q] # "idle"
  <2>1. pc'[q] # "UpsertTopic"
    BY <1>2, <1>3
       DEF Arrive, putTopicReleaseDatePrivateHandler, putTopicStatePrivateHandler,
           putTopicPrivateHandler, Accept, Reject, ServiceOK, CoreOK, Idle
  <2> QED
    BY <1>1, <1>2, <1>3, <1>4, <1>6, <2>1 DEF Idle, Put, Step
<1> QED
  BY <1>5, <1>6

LEMMA GetDoes ==
  ASSUME ServiceOK, CanSend, private \in BOOLEAN, Get
  PROVE  /\ ReadTypeOK'
         /\ UNCHANGED <<topics, pc, req, copy>>
         /\ resp' = [q \in Requests |-> Nil]
         /\ tries' = tries + 1
         /\ call.fn \in PublicGets \cup PrivateGets
         /\ \/ reply' \in Answer /\ reply'.body = <<>> /\ slot' = slot
            \/ /\ slot' \in Readers /\ rpc'[slot'] # "idle"
               /\ rreq'[slot'].id = call.arg /\ rreq'[slot'].private = private
               /\ items'[slot'] = <<>>
               /\ reply' = reply
<1>1. PICK r \in Readers :
        /\ GetHandler(r)
        /\ IF ReaderIdle(r)'
           THEN call.arg = TopicRoot /\ reply' = answer'[r] /\ UNCHANGED slot
           ELSE rreq'[r].id = call.arg /\ slot' = r /\ UNCHANGED reply
  BY DEF Get
<1>2. CASE ReadError(r, "ErrTopicNotFound")
  <2>1. ReadTypeOK'
    BY <1>2, ReadErrorType DEF ServiceOK
  <2>2. rpc'[r] = "idle" /\ answer'[r] = [status |-> 404, body |-> <<>>]
    BY <1>2 DEF ReadError, ReadAnswer, handleError, ServiceOK, ReadTypeOK
  <2>3. [status |-> 404, body |-> <<>>] \in Answer
    BY DEF Answer, Statuses
  <2> QED
    BY <1>1, <2>1, <2>2, <2>3 DEF Get, ReaderIdle
<1>3. ASSUME NEW request \in ReadRequest, ReadRecv(r, request), request.private = private
      PROVE  /\ ReadTypeOK'
             /\ rpc'[r] = "GetTopic" /\ rreq'[r] = request /\ items'[r] = <<>>
  <2>1. ReadTypeOK'
    BY <1>3, ReadRecvType DEF ServiceOK
  <2>2. rpc'[r] = "GetTopic" /\ rreq'[r] = request /\ items'[r] = <<>>
    BY <1>3 DEF ReadRecv, ReaderIdle, ServiceOK, ReadTypeOK
  <2> QED
    BY <2>1, <2>2
<1> QED
  BY <1>1, <1>2, <1>3, GetArrives DEF Get, ReaderIdle

LEMMA SendType ==
  ASSUME ServiceOK, CallInv, Send
  PROVE  CallInv'
<1>0. CanSend /\ outcome' = Nil /\ UNCHANGED <<private, call>>
      /\ private \in BOOLEAN
  BY DEF Send, CallInv, ClientTypeOK
<1>1. ASSUME NEW answered \in Received,
             call.fn # Navigation => answered.body \in Seq(Item), Answered(answered)
      PROVE  CallInv'
  BY <1>0, <1>1, AnswerType DEF Answered
<1>2. CASE NotSent
  BY <1>1, <1>2, AnswersReceived DEF NotSent
<1>3. CASE NotRouted \/ isAuthenticated \/ isAuthorised
  <2>1. {401, 403, 404, 405, 500} \subseteq {401, 405} \cup Statuses
    BY DEF Statuses
  <2> QED
    BY <1>1, <1>3, <2>1, AnswersReceived DEF NotRouted, isAuthenticated, isAuthorised
<1>4. CASE Put
  BY <1>0, <1>4, PutDoes, AnswerType, SlotType, AnswersReceived, NothingIsNil
<1>5. CASE Get
  BY <1>0, <1>5, GetDoes, AnswerType, SlotType, AnswersReceived, NothingIsNil
<1>6. CASE getNavigationHandler
  <2>1. ASSUME NEW lang \in Languages
        PROVE  [status |-> 200, body |-> <<[lang |-> lang]>>] \in Received
    <3>1. [lang |-> lang] \in Item \cup [lang : Languages]
      OBVIOUS
    <3>2. <<[lang |-> lang]>> \in Seq(Item \cup [lang : Languages])
      BY <3>1
    <3> QED
      BY <3>2 DEF Received, Statuses
  <2> QED
    BY <1>1, <1>6, <2>1 DEF getNavigationHandler, getNavItems, Languages
<1> QED
  BY <1>2, <1>3, <1>4, <1>5, <1>6 DEF Send

LEMMA BreakType ==
  ASSUME CallInv, Break
  PROVE  CallInv'
<1>1. slot' = Nil /\ reply' \in Received /\ reply'.body \in Seq(Item) /\ ~Free'
  BY AnswersReceived DEF Break, CallInv, ClientTypeOK, Free
<1> QED
  BY <1>1, NothingIsNil DEF Break, CallInv, ClientTypeOK, CanSend

(* A body stays a list of topics when their contents are not found in it.  *)
LEMMA EmptyItem ==
  ASSUME NEW item \in Item
  PROVE  [item EXCEPT !.doc = [current |-> Nil, next |-> Nil]] \in Item
BY DEF Item

LEMMA UnmarshalledType ==
  ASSUME NEW body \in Seq(Item)
  PROVE  Unmarshalled(body) \in Seq(Item)
<1>1. ASSUME NEW i \in DOMAIN body
      PROVE  [body[i] EXCEPT !.doc = [current |-> Nil, next |-> Nil]] \in Item
  BY <1>1, EmptyItem
<1>2. Len(body) \in Nat /\ DOMAIN body = 1..Len(body)
  OBVIOUS
<1> DEFINE emptied == [i \in DOMAIN body |->
                         [body[i] EXCEPT !.doc = [current |-> Nil, next |-> Nil]]]
<1>3. emptied \in [1..Len(body) -> Item]
  BY <1>1, <1>2
<1>4. emptied \in Seq(Item)
  BY <1>2, <1>3
<1> QED
  BY <1>4 DEF Unmarshalled

LEMMA ReturnType ==
  ASSUME CallInv, callTopicAPI
  PROVE  CallInv'
<1>1. /\ slot' = Nil /\ reply' = Nil /\ private' = private
      /\ reply \in Received /\ ~Free
      /\ call.fn # Navigation => reply.body \in Seq(Item)
  BY DEF callTopicAPI, CallInv, ClientTypeOK
<1>2. CASE Retry
  <2>1. ~Free' /\ tries' = tries /\ tries < MaxAttempts /\ outcome' = Nil
    BY <1>1, <1>2 DEF Retry, Free
  <2> QED
    BY <1>1, <2>1, NothingIsNil DEF CallInv, ClientTypeOK, CanSend
<1>3. ASSUME NEW err \in BOOLEAN, NEW code \in {0, 401, 405} \cup Statuses,
             NEW body \in Seq(Item \cup [lang : Languages]), Returned(err, code, body)
      PROVE  CallInv'
  <2>1. outcome' \in Outcome
    <3>1. [err |-> err, code |-> code, body |-> body] \in Outcome
      BY DEF Outcome
    <3> QED
      BY <1>3, <3>1 DEF Returned
  <2>2. Free' /\ tries' = 0
    BY <1>3 DEF Returned, Free
  <2> QED
    BY <1>1, <2>1, <2>2, ClientAssumption, NothingIsNil DEF CallInv, ClientTypeOK, CanSend
<1>4. <<>> \in Seq(Item \cup [lang : Languages])
  OBVIOUS
<1>5. ASSUME reply.status # Aborted
      PROVE  reply.status \in {0, 401, 405} \cup Statuses
  BY <1>1, <1>5 DEF Received
<1>6. Unmarshalled(reply.body) \in Seq(Item \cup [lang : Languages])
  <2>1. CASE call.fn # Navigation
    <3>1. Unmarshalled(reply.body) \in Seq(Item)
      BY <1>1, <2>1, UnmarshalledType
    <3> QED
      BY <3>1
  <2>2. CASE call.fn = Navigation
    BY <1>1, <2>2 DEF Unmarshalled, Received, Navigation, PublicGets, PrivateGets
  <2> QED
    BY <2>1, <2>2
<1>7. CASE Returned(TRUE, 500, <<>>)
  <2>1. 500 \in {0, 401, 405} \cup Statuses
    BY DEF Statuses
  <2> QED
    BY <1>3, <1>4, <1>7, <2>1
<1>8. CASE reply.status # Aborted /\ Returned(TRUE, reply.status, <<>>)
  BY <1>3, <1>4, <1>5, <1>8
<1>9. CASE reply.status # Aborted /\ Returned(FALSE, reply.status, Unmarshalled(reply.body))
  BY <1>3, <1>5, <1>6, <1>9
<1> QED
  BY <1>2, <1>7, <1>8, <1>9 DEF callTopicAPI

(* A request keeps its slot until it is answered or its instance is gone.  *)
LEMMA RequestKept ==
  ASSUME CoreOK, NEW p \in Requests, NEW q \in Requests,
         StoreCall(p) \/ Abandon(p), pc'[q] # "idle"
  PROVE  /\ pc[q] # "idle" /\ req'[q] = req[q]
         /\ p # q => pc'[q] = pc[q]
<1> DEFINE Kept == /\ pc[q] # "idle" /\ req'[q] = req[q]
                   /\ p # q => pc'[q] = pc[q]
<1>1. ASSUME NEW status, Reply(p, status) PROVE Kept
  BY <1>1 DEF Reply, CoreOK
<1>2. ASSUME NEW err, ReplyError(p, err) \/ PublishReply(p, err) PROVE Kept
  BY <1>1, <1>2 DEF ReplyError, PublishReply
<1>3. ASSUME NEW next, pc[p] # "idle", Goto(p, next) PROVE Kept
  BY <1>3 DEF Goto, CoreOK
<1>4. CASE Abandon(p)
  BY <1>4 DEF Abandon, CoreOK
<1>5. CASE NotFound(p) \/ StoreFailed(p)
  BY <1>2, <1>5 DEF NotFound, StoreFailed
<1>6. CASE UpdateReleaseDate(p) \/ UpdateState(p)
  BY <1>1, <1>2, <1>5, <1>6 DEF UpdateReleaseDate, UpdateState
<1>7. CASE CheckTopicExists(p)
  BY <1>3, <1>5, <1>7 DEF CheckTopicExists, At
<1>8. CASE UpdateTopic(p)
  BY <1>1, <1>2, <1>3, <1>5, <1>8 DEF UpdateTopic, At
<1>9. CASE GetTopic(p)
  BY <1>2, <1>3, <1>9 DEF GetTopic, At
<1>10. CASE UpsertTopic(p)
  BY <1>2, <1>10 DEF UpsertTopic
<1> QED
  BY <1>4, <1>6, <1>7, <1>8, <1>9, <1>10 DEF StoreCall

LEMMA ReaderRequestKept ==
  ASSUME ReadTypeOK, NEW r \in Readers, NEW x \in Readers,
         ReadCall(r) \/ ReadAbandon(r), rpc'[x] # "idle"
  PROVE  rpc[x] # "idle" /\ rreq'[x] = rreq[x]
<1>1. CASE x # r
  BY <1>1, OthersKept DEF ReadKept
<1>2. CASE x = r
  <2>1. ASSUME NEW status, NEW body, ReadAnswer(r, status, body) PROVE FALSE
    BY <1>2, <2>1 DEF ReadAnswer, ReadTypeOK
  <2>2. ASSUME NEW err, ReadError(r, err) PROVE FALSE
    BY <2>1, <2>2 DEF ReadError
  <2>3. ASSUME NEW ids, ReadNext(r, ids) PROVE rreq' = rreq
    BY <2>3 DEF ReadNext
  <2>4. ASSUME NEW collected, Continue(r, collected) PROVE rreq' = rreq
    BY <2>1, <2>2, <2>4 DEF Continue, NothingToList
  <2>5. CASE ReadTopic(r)
    BY <1>2, <2>1, <2>2, <2>3, <2>5 DEF ReadTopic, ServeTopic, ListSubtopics, NothingToList
  <2>6. CASE ReadSubtopic(r)
    BY <1>2, <2>1, <2>4, <2>6 DEF ReadSubtopic, Skip
  <2>7. CASE ReadAbandon(r)
    BY <1>2, <2>7 DEF ReadAbandon, ReadTypeOK
  <2> QED
    BY <2>5, <2>6, <2>7 DEF ReadCall
<1> QED
  BY <1>1, <1>2

LEMMA AnswerOfType ==
  ASSUME ServiceOK', slot \in Requests \cup Readers
  PROVE  AnswerOf \in Received /\ AnswerOf.body \in Seq(Item)
<1>1. CASE slot \in Requests
  <2>1. resp'[slot] \in Statuses \cup {Nil}
    BY <1>1 DEF ServiceOK, CoreOK
  <2> QED
    BY <1>1, <2>1, AnswersReceived DEF AnswerOf
<1>2. CASE slot \notin Requests /\ slot \in Readers
  <2>1. answer'[slot] \in Answer \cup {Nil}
    BY <1>2 DEF ServiceOK, ReadTypeOK
  <2> QED
    BY <1>2, <2>1, AnswersReceived DEF AnswerOf
<1> QED
  BY <1>1, <1>2

LEMMA DeliverType ==
  ASSUME CallInv, ServiceOK', Deliver,
         slot \in Requests /\ pc'[slot] # "idle" => req'[slot] = req[slot],
         slot \in Readers /\ rpc'[slot] # "idle" => rreq'[slot] = rreq[slot]
  PROVE  CallInv'
<1>1. outcome' = Nil /\ UNCHANGED <<private, call, tries>>
  BY DEF Deliver
<1>2. CASE Ends
  <2>1. slot \in Requests \cup Readers /\ slot # Nil /\ ~Free
    BY <1>2, NothingIsNil DEF Ends, CallInv, ClientTypeOK
  <2>2. slot' = Nil /\ reply' \in Received /\ reply'.body \in Seq(Item)
    BY <1>2, <2>1, AnswerOfType DEF Deliver
  <2> QED
    BY <1>1, <2>1, <2>2, NothingIsNil DEF CallInv, ClientTypeOK, CanSend, Free
<1>3. CASE ~Ends
  <2>1. UNCHANGED <<slot, reply>>
    BY <1>3 DEF Deliver
  <2>2. /\ slot \in Requests => pc'[slot] # "idle" /\ req'[slot] = call.arg
        /\ slot \in Readers => rpc'[slot] # "idle" /\ rreq'[slot].id = call.arg
    BY <1>3 DEF Ends, CallInv, ClientTypeOK
  <2> QED
    BY <1>1, <2>1, <2>2 DEF CallInv, ClientTypeOK, CanSend, Free, Idle, ReaderIdle
<1> QED
  BY <1>2, <1>3

LEMMA PutStepType ==
  ASSUME ServiceOK, CallInv, NEW q \in Requests, StoreCall(q) \/ Abandon(q), PutStep(q)
  PROVE  ServiceOK' /\ CallInv'
<1>1. ServiceOK'
  BY PutService DEF PutStep, Step
<1>2. slot \in Requests /\ pc'[slot] # "idle" => req'[slot] = req[slot]
  BY RequestKept DEF ServiceOK
<1>3. slot \in Readers => rreq'[slot] = rreq[slot]
  BY DEF PutStep, slotVars
<1> QED
  BY <1>1, <1>2, <1>3, DeliverType DEF PutStep

LEMMA GetStepType ==
  ASSUME ServiceOK, CallInv, NEW r \in Readers, ReadCall(r) \/ ReadAbandon(r), GetStep(r)
  PROVE  ServiceOK' /\ CallInv'
<1>1. ReadTypeOK'
  <2>1. CASE ReadAbandon(r)
    BY <2>1 DEF ReadAbandon, NoAnswer, ReadTypeOK, ServiceOK
  <2>2. CASE ReadCall(r)
    BY <2>2, CoreTopics, ReadTopicType, ReadSubtopicType DEF ReadCall, ServiceOK
  <2> QED
    BY <2>1, <2>2
<1>2. ServiceOK'
  BY <1>1, GetService DEF GetStep
<1>3. slot \in Readers /\ rpc'[slot] # "idle" => rreq'[slot] = rreq[slot]
  BY ReaderRequestKept DEF ServiceOK
<1>4. slot \in Requests => req'[slot] = req[slot]
  BY DEF GetStep
<1> QED
  BY <1>2, <1>3, <1>4, DeliverType DEF GetStep

LEMMA ClientStepType ==
  ASSUME ServiceOK, CallInv, ClientStep
  PROVE  ServiceOK' /\ CallInv'
<1>1. CASE BeginCall
  BY <1>1, BeginCallDoes, BeginCallType, QuietService
<1>2. CASE Send
  <2>1. CallInv' /\ CanSend /\ private \in BOOLEAN
    BY <1>2, SendType DEF Send, CallInv, ClientTypeOK
  <2>2. ASSUME NEW answered, Answered(answered) PROVE ServiceOK'
    BY <2>2, QuietService DEF Answered
  <2>3. CASE Put
    BY <2>1, <2>3, PutDoes, PutService
  <2>4. CASE Get
    BY <2>1, <2>4, GetDoes, GetService
  <2> QED
    BY <1>2, <2>1, <2>2, <2>3, <2>4 DEF Send, NotSent, NotRouted, isAuthenticated,
       isAuthorised, getNavigationHandler
<1>3. CASE Break
  BY <1>3, BreakType, QuietService DEF Break
<1>4. CASE callTopicAPI
  BY <1>4, ReturnType, QuietService DEF callTopicAPI
<1> QED
  BY <1>1, <1>2, <1>3, <1>4 DEF ClientStep

(* The wipe touches neither a slot nor the call.                           *)
LEMMA WipeType ==
  ASSUME ServiceOK, CallInv, wipeDatabase
  PROVE  ServiceOK' /\ CallInv'
<1>1. ServiceOK'
  BY DEF wipeDatabase, NoAnswers, NoAnswer, slotVars, ServiceOK, CoreOK, SlotOK,
         ReadTypeOK, CopyPublished
<1>2. CallInv'
  BY DEF wipeDatabase, slotVars, CallInv, ClientTypeOK, CanSend, Free, Idle, ReaderIdle
<1> QED
  BY <1>1, <1>2

LEMMA ClientTypeStep ==
  ASSUME ServiceOK, CallInv, [ClientNext]_clientVars
  PROVE  ServiceOK' /\ CallInv'
<1>1. CASE ClientStep
  BY <1>1, ClientStepType
<1>2. CASE ServiceStep
  BY <1>2, PutStepType, GetStepType DEF ServiceStep
<1>3. CASE UNCHANGED clientVars
  <2>1. ServiceOK'
    BY <1>3 DEF clientVars, vars, readVars, slotVars, ServiceOK, CoreOK, SlotOK,
                ReadTypeOK, CopyPublished
  <2>2. CallInv'
    BY <1>3 DEF clientVars, vars, readVars, slotVars, callVars, CallInv, ClientTypeOK,
                CanSend, Free, Idle, ReaderIdle
  <2> QED
    BY <2>1, <2>2
<1> QED
  BY <1>1, <1>2, <1>3, WipeType DEF ClientNext

LEMMA ClientTypeInit == ClientInit => ServiceOK /\ CallInv
<1> SUFFICES ASSUME ClientInit PROVE ServiceOK /\ CallInv
  OBVIOUS
<1>1. CoreOK /\ \A q \in Requests : CopyPublished(q)
  BY TypeInit DEF ClientInit, Init, TypeOK, CoreOK, CopyPublished
<1>2. ReadTypeOK
  BY DEF ClientInit, ReadInit, ReadTypeOK
<1>3. CallInv
  BY ClientAssumption, NothingIsNil DEF ClientInit, CallInv, ClientTypeOK, CanSend, Free
<1> QED
  BY <1>1, <1>2, <1>3 DEF ServiceOK

THEOREM ClientCorrect == ClientSpec => [](ServiceOK /\ CallInv)
<1>1. ServiceOK /\ CallInv /\ [ClientNext]_clientVars => (ServiceOK /\ CallInv)'
  BY ClientTypeStep
<1> QED
  BY <1>1, ClientTypeInit, PTL DEF ClientSpec

(* The client never waits for a slot that has answered, and sends no       *)
(* request more often than it may.                                         *)
THEOREM ClientTypeCorrect == ClientSpec => []ClientTypeOK
<1>1. CallInv => ClientTypeOK
  BY DEF CallInv
<1> QED
  BY <1>1, ClientCorrect, PTL

-----------------------------------------------------------------------------
(* What a PUT call reports.  The invariant: a slot that the call waits for *)
(* handles an attempt of the call, and an answer 200 has come only after   *)
(* an attempt has taken effect.                                            *)

EffectInv ==
  /\ attempts \subseteq {q \in Requests : ~Idle(q)}
  /\ slot \in Requests => slot \in attempts /\ call.fn \in DOMAIN Puts
  /\ slot \in Readers => call.fn \in Gets
  /\ reply # Nil /\ call.fn \in DOMAIN Puts /\ reply.status = 200 => effect

LEMMA KindsOfCalls ==
  DOMAIN Puts \cap Gets = {} /\ Navigation \notin DOMAIN Puts \cup Gets
BY DEF Puts, Gets, PublicGets, PrivateGets, Navigation

(* The histories: an attempt is remembered while its handler runs, and     *)
(* nothing is forgotten before the call returns.                           *)
LEMMA CallObserved ==
  ASSUME ObserveCall, attempts \subseteq Requests
  PROVE  /\ attempts' \subseteq {q \in Requests : pc'[q] # "idle"}
         /\ ~Free' /\ slot' \in Requests /\ pc'[slot'] # "idle" => slot' \in attempts'
         /\ ~Free' /\ effect => effect'
         /\ ~Free' => \A q \in attempts : TakesEffect(q) => effect'
BY DEF ObserveCall, Idle

(* An answer 200 is given by the last store call of a request only.        *)
LEMMA AnsweredAtEnd ==
  ASSUME CoreOK, NEW p \in Requests, NEW q \in Requests, StoreCall(p) \/ Abandon(p),
         Answers(q, 200)
  PROVE  pc[q] = LastCall(req[q])
<1>1. ~Abandon(p)
  BY RequestAssumption DEF Abandon, Answers, Statuses, CoreOK, SlotOK, Idle
<1>2. ASSUME NEW status, Reply(p, status) PROVE p = q
  BY <1>2, OnlyReplies DEF Reply, Answers, CoreOK
<1>3. CASE UpdateReleaseDate(p)
  <2>1. p = q
    BY <1>2, <1>3 DEF UpdateReleaseDate, ReplyError, NotFound, StoreFailed
  <2>2. pc[q] = "UpdateReleaseDate" /\ req[q] \in ReleaseRequest
    BY <1>3, <2>1 DEF UpdateReleaseDate, At, CoreOK, SlotOK
  <2>3. req[q].handler = "PutReleaseDate" /\ ~Publishes(req[q])
    BY <2>2 DEF ReleaseRequest, Publishes
  <2> QED
    BY <2>2, <2>3 DEF LastCall
<1>4. CASE UpdateState(p)
  <2>1. p = q
    BY <1>2, <1>4 DEF UpdateState, ReplyError, NotFound, StoreFailed
  <2> QED
    BY <1>4, <2>1 DEF UpdateState, At, CoreOK, SlotOK, LastCall, StateRequest
<1>5. CASE CheckTopicExists(p)
  BY <1>5, FailureAnswers DEF CheckTopicExists, NotFound, StoreFailed, Goto, Answers
<1>6. CASE UpdateTopic(p)
  <2>1. Reply(p, 200) /\ ~Publishes(req[p])
    BY <1>6, FailureAnswers DEF UpdateTopic, NotFound, StoreFailed, Goto, Answers
  <2>2. p = q
    BY <1>2, <2>1
  <2> QED
    BY <1>6, <2>1, <2>2 DEF UpdateTopic, At, CoreOK, SlotOK, LastCall, TopicRequest
<1>7. CASE GetTopic(p)
  BY <1>7, FailureAnswers DEF GetTopic, Goto, Answers
<1>8. CASE UpsertTopic(p)
  <2>1. p = q
    BY <1>2, <1>8 DEF UpsertTopic, PublishReply
  <2>2. pc[q] = "UpsertTopic" /\ Publishes(req[q])
    BY <1>8, <2>1 DEF UpsertTopic, At, CoreOK, SlotOK
  <2> QED
    BY <2>2 DEF LastCall
<1> QED
  BY <1>1, <1>3, <1>4, <1>5, <1>6, <1>7, <1>8 DEF StoreCall

LEMMA AnsweredTakesEffect ==
  ASSUME ServiceOK, ServiceOK', NEW p \in Requests, StoreCall(p) \/ Abandon(p),
         NEW q \in Requests, ~Idle(q), pc'[q] = "idle", resp'[q] = 200
  PROVE  TakesEffect(q)
<1>1. Answers(q, 200)
  BY DEF Answers, ServiceOK, CoreOK, SlotOK, Idle
<1>2. Step
  BY DEF Step
<1> QED
  BY <1>1, <1>2, AnsweredAtEnd, AnswerApplied DEF TakesEffect, ServiceOK, Idle

LEMMA SendEffect ==
  ASSUME ServiceOK, CallInv, EffectInv, Send, ObserveCall
  PROVE  EffectInv'
<1>0. CanSend /\ ~Free' /\ call' = call /\ slot = Nil /\ reply = Nil /\ private \in BOOLEAN
  BY DEF Send, CanSend, Free, CallInv, ClientTypeOK
<1>1. ASSUME NEW answered, reply' = answered, slot' = Nil,
             call.fn \in DOMAIN Puts => answered.status # 200
      PROVE  EffectInv'
  BY <1>0, <1>1, CallObserved, NothingIsNil DEF EffectInv, Idle
<1>2. CASE NotSent \/ NotRouted \/ isAuthenticated \/ isAuthorised
  <2>1. Broken.status # 200 /\ \A status : Refusal(status).status = status
    BY DEF Broken, Refusal, Aborted
  <2> QED
    BY <1>0, <1>1, <1>2, <2>1
       DEF NotSent, NotRouted, isAuthenticated, isAuthorised, Answered
<1>3. CASE Put
  <2>1. CASE slot' \in Requests /\ pc'[slot'] # "idle" /\ reply' = reply
    BY <1>0, <1>3, <2>1, PutDoes, CallObserved, NothingIsNil DEF EffectInv, Idle
  <2>2. ASSUME NEW status \in Statuses \ {200}, reply' = Refusal(status), slot' = slot
        PROVE  EffectInv'
    BY <1>0, <1>1, <2>2 DEF Refusal
  <2> QED
    BY <1>0, <1>3, <2>1, <2>2, PutDoes
<1>4. CASE Get
  <2>1. call.fn \in Gets /\ call.fn \notin DOMAIN Puts
    BY <1>0, <1>4, GetDoes, KindsOfCalls DEF Gets
  <2>2. CASE slot' \in Readers /\ reply' = reply
    BY <1>0, <2>1, <2>2, CallObserved, NothingIsNil DEF EffectInv, Idle
  <2>3. CASE slot' = slot
    BY <1>0, <1>1, <2>1, <2>3
  <2> QED
    BY <1>0, <1>4, <2>2, <2>3, GetDoes
<1>5. CASE getNavigationHandler
  BY <1>0, <1>1, <1>5, KindsOfCalls DEF getNavigationHandler, Answered
<1> QED
  BY <1>2, <1>3, <1>4, <1>5 DEF Send

LEMMA ServiceEffect ==
  ASSUME ServiceOK, ServiceOK', CallInv, EffectInv, ServiceStep, ObserveCall
  PROVE  EffectInv'
<1>1. Deliver
  BY DEF ServiceStep, PutStep, GetStep
<1>2. call' = call /\ (Free' <=> Free)
  BY <1>1 DEF Deliver, Free
<1>3. CASE ~Ends
  <2>1. UNCHANGED <<slot, reply>>
    BY <1>1, <1>3 DEF Deliver
  <2>2. slot # Nil \/ reply # Nil => ~Free
    BY DEF CallInv, ClientTypeOK
  <2>3. slot \in Requests => pc'[slot] # "idle" /\ slot # Nil
    BY <1>3, NothingIsNil DEF Ends
  <2> QED
    BY <1>2, <2>1, <2>2, <2>3, CallObserved DEF EffectInv, Idle
<1>4. CASE Ends
  <2>1. slot' = Nil /\ reply' = AnswerOf /\ ~Free
    BY <1>1, <1>4, NothingIsNil DEF Deliver, Ends, CallInv, ClientTypeOK
  <2>2. ASSUME call.fn \in DOMAIN Puts, AnswerOf.status = 200
        PROVE  effect'
    <3>1. slot \in Requests /\ ~Idle(slot) /\ pc'[slot] = "idle" /\ slot \in attempts
      BY <1>4, <2>2, KindsOfCalls DEF Ends, EffectInv, CallInv, ClientTypeOK
    <3>2. resp'[slot] = 200
      BY <2>2, <3>1 DEF AnswerOf, Broken, Refusal, Aborted
    <3>3. PICK p \in Requests : StoreCall(p) \/ Abandon(p)
      BY <3>1 DEF ServiceStep, GetStep, Idle
    <3>4. TakesEffect(slot)
      BY <3>1, <3>2, <3>3, AnsweredTakesEffect
    <3> QED
      BY <1>2, <2>1, <3>1, <3>4, CallObserved DEF EffectInv
  <2> QED
    BY <1>2, <2>1, <2>2, CallObserved, NothingIsNil DEF EffectInv, Idle
<1> QED
  BY <1>3, <1>4

LEMMA EffectStep ==
  ASSUME ServiceOK, ServiceOK', CallInv, EffectInv, [ClientNext]_clientVars
  PROVE  EffectInv'
<1>1. CASE BeginCall /\ ObserveCall
  <2>1. slot' = Nil /\ reply' = Nil
    BY <1>1, BeginCallDoes DEF CallInv, ClientTypeOK
  <2> QED
    BY <1>1, <2>1, CallObserved, NothingIsNil DEF EffectInv, Idle
<1>2. CASE Send /\ ObserveCall
  BY <1>2, SendEffect
<1>3. CASE Break /\ ObserveCall
  <2>1. slot' = Nil /\ reply'.status # 200
    BY <1>3 DEF Break, Broken, Aborted
  <2> QED
    BY <1>3, <2>1, CallObserved, NothingIsNil DEF EffectInv, Idle
<1>4. CASE callTopicAPI /\ ObserveCall
  <2>1. slot' = Nil /\ reply' = Nil
    BY <1>4 DEF callTopicAPI, CallInv, ClientTypeOK
  <2> QED
    BY <1>4, <2>1, CallObserved, NothingIsNil DEF EffectInv, Idle
<1>5. CASE ServiceStep /\ ObserveCall
  BY <1>5, ServiceEffect
<1>6. CASE UNCHANGED clientVars
  BY <1>6 DEF clientVars, vars, callVars, clientHistories, EffectInv, Idle
<1>7. CASE wipeDatabase /\ ObserveCall
  <2>1. UNCHANGED <<pc, call, slot, reply>> /\ (Free' <=> Free)
    BY <1>7 DEF wipeDatabase, Free
  <2>2. slot # Nil \/ reply # Nil => ~Free
    BY DEF CallInv, ClientTypeOK
  <2>3. slot \in Requests => pc[slot] # "idle" /\ slot # Nil
    BY NothingIsNil DEF CallInv, ClientTypeOK, Idle
  <2> QED
    BY <1>7, <2>1, <2>2, <2>3, CallObserved DEF EffectInv, Idle
<1> QED
  BY <1>1, <1>2, <1>3, <1>4, <1>5, <1>6, <1>7 DEF ClientNext, ClientStep

(* Only a PUT call looks out for wipes.                                    *)
LostInv == lost => ~Free /\ call.fn \in DOMAIN Puts

LEMMA LostStep ==
  ASSUME LostInv, [ClientNext]_clientVars
  PROVE  LostInv'
<1>1. CASE ObserveCall
  BY <1>1 DEF ObserveCall, LostInv
<1>2. CASE UNCHANGED clientVars
  BY <1>2 DEF clientVars, callVars, clientHistories, LostInv, Free
<1> QED
  BY <1>1, <1>2 DEF ClientNext

ClientInv == ServiceOK /\ CallInv /\ EffectInv /\ LostInv

LEMMA ClientInvInit == ClientInit => ClientInv
<1> SUFFICES ASSUME ClientInit PROVE EffectInv /\ LostInv
  BY ClientTypeInit DEF ClientInv
<1> QED
  BY NothingIsNil DEF ClientInit, EffectInv, LostInv

LEMMA ClientInvStep == ClientInv /\ [ClientNext]_clientVars => ClientInv'
BY ClientTypeStep, EffectStep, LostStep DEF ClientInv

THEOREM ClientEffects == ClientSpec => []ClientInv
BY ClientInvInit, ClientInvStep, PTL DEF ClientSpec

(* Wherever connections break and however often a request is sent, a PUT   *)
(* call that returns no error has taken effect.                            *)
THEOREM ReportsAreTrue == ClientSpec => ReportedIsApplied
<1>1. ASSUME ClientInv, ClientNext, PutReturns, ~outcome'.err \/ outcome'.code = 200
      PROVE  effect
  <2>1. callTopicAPI /\ reply \in Received
    <3>1. ~BeginCall
      BY <1>1 DEF PutReturns, BeginCall, PutTopicStatePrivate, PutTopicReleasePrivate,
         PutTopicPrivate, GetTopicPublic, GetSubtopicsPublic, GetRootTopicsPublic,
         GetTopicPrivate, GetSubtopicsPrivate, GetRootTopicsPrivate,
         GetNavigationPublic, PutCall, GetCall, Begin, Fails
    <3>2. callTopicAPI
      BY <1>1, <3>1 DEF ClientNext, ClientStep, PutReturns, Send, Break, ServiceStep,
                        PutStep, GetStep, Deliver, wipeDatabase
    <3> QED
      BY <1>1, <3>2 DEF callTopicAPI, ClientInv, CallInv
  <2>2. reply.status = 200
    <3>1. reply.status \in {Aborted, 401, 405} \cup Statuses
      BY <2>1 DEF Received
    <3>3. ~Retry
      BY <1>1 DEF Retry, PutReturns
    <3>4. ~Returned(TRUE, 500, <<>>)
      BY <1>1 DEF Returned
    <3>5. ASSUME Returned(TRUE, reply.status, <<>>)
          PROVE  reply.status = 200
      BY <1>1, <3>5 DEF Returned
    <3>6. reply.status # Aborted /\ (~UnexpectedCode(reply.status) \/ reply.status = 200)
      BY <2>1, <3>3, <3>4, <3>5 DEF callTopicAPI
    <3> QED
      BY <3>1, <3>6 DEF UnexpectedCode, Statuses
  <2> QED
    BY <1>1, <2>1, <2>2 DEF ClientInv, EffectInv, PutReturns, callTopicAPI
<1>2. ClientInv /\ [ClientNext]_clientVars =>
        [PutReturns /\ (~outcome'.err \/ outcome'.code = 200) => effect]_clientVars
  BY <1>1
<1> QED
  BY <1>2, ClientEffects, PTL DEF ClientSpec, ReportedIsApplied

-----------------------------------------------------------------------------
(* What a PUT call that is refused leaves behind.  The invariant: before   *)
(* the second attempt, only the handler of the first can have changed a    *)
(* topic, and then the topic is there, unless topics were wiped meanwhile; *)
(* so it is before the write-back.                                         *)

Kept(q) == Found(q) \/ lost

ChangeInv ==
  /\ tries = 0 => slot = Nil /\ attempts = {} /\ ~changed
  /\ tries = 1 /\ slot # Nil =>
       attempts = Requests \cap {slot} /\ (changed => slot \in Requests /\ Kept(slot))
  /\ tries = 1 /\ slot \in Requests /\ pc[slot] = "UpsertTopic" => Kept(slot)
  /\ tries = 1 /\ reply # Nil /\ reply.status \in 400..499 =>
       attempts = {} /\ (~changed \/ (reply.status = 404 /\ lost))

(* A wipe during a PUT call is not forgotten before the call returns, and  *)
(* only a wipe takes a topic away.                                         *)
LEMMA LossObserved ==
  ASSUME ObserveCall, ~Free', call' = call, call.fn \in DOMAIN Puts
  PROVE  /\ lost => lost'
         /\ Loses => lost'
BY DEF ObserveCall

LEMMA RepliedBy ==
  ASSUME CoreOK, NEW p \in Requests, NEW q \in Requests, NEW status,
         Reply(p, status), ~Idle(q), pc'[q] = "idle"
  PROVE  p = q /\ resp'[q] = status
BY DEF Reply, CoreOK, Idle

(* A step of one request leaves the position of the others alone.          *)
LEMMA OthersAreKept ==
  ASSUME CoreOK, NEW p \in Requests, NEW q \in Requests, p # q,
         StoreCall(p) \/ Abandon(p)
  PROVE  pc'[q] = pc[q]
<1>1. ASSUME NEW status, Reply(p, status) PROVE pc'[q] = pc[q]
  BY <1>1 DEF Reply, CoreOK
<1>2. ASSUME NEW err, ReplyError(p, err) \/ PublishReply(p, err) PROVE pc'[q] = pc[q]
  BY <1>1, <1>2 DEF ReplyError, PublishReply
<1>3. ASSUME NEW next, Goto(p, next) PROVE pc'[q] = pc[q]
  BY <1>3 DEF Goto, CoreOK
<1>4. CASE Abandon(p)
  BY <1>4 DEF Abandon, CoreOK
<1>5. CASE NotFound(p) \/ StoreFailed(p)
  BY <1>2, <1>5 DEF NotFound, StoreFailed
<1>6. CASE UpdateReleaseDate(p) \/ UpdateState(p)
  BY <1>1, <1>2, <1>5, <1>6 DEF UpdateReleaseDate, UpdateState
<1>7. CASE CheckTopicExists(p)
  BY <1>3, <1>5, <1>7 DEF CheckTopicExists
<1>8. CASE UpdateTopic(p)
  BY <1>1, <1>2, <1>3, <1>5, <1>8 DEF UpdateTopic
<1>9. CASE GetTopic(p)
  BY <1>2, <1>3, <1>9 DEF GetTopic
<1>10. CASE UpsertTopic(p)
  BY <1>2, <1>10 DEF UpsertTopic
<1> QED
  BY <1>4, <1>6, <1>7, <1>8, <1>9, <1>10 DEF StoreCall

(* A request that changes a topic has found it, unless it writes back.     *)
LEMMA ChangedFound ==
  ASSUME CoreOK, NEW p \in Requests, StoreCall(p) \/ Abandon(p),
         NEW q \in Requests, Changes(q), pc[q] = "UpsertTopic" => Kept(q)
  PROVE  Kept(q)
<1>1. p = q
  BY OthersAreKept DEF Changes
<1> QED
  BY <1>1 DEF Changes, StoreCall, Abandon, UpdateReleaseDate, UpdateState,
     CheckTopicExists, UpdateTopic, GetTopic, UpsertTopic, NotFound, StoreFailed,
     Kept, At

(* A request that is refused after it was accepted has not found its topic. *)
LEMMA RefusedNotFound ==
  ASSUME CoreOK, NEW p \in Requests, StoreCall(p) \/ Abandon(p),
         NEW q \in Requests, ~Idle(q), pc'[q] = "idle",
         resp'[q] # Nil, resp'[q] \in 400..499
  PROVE  ~Found(q) /\ resp'[q] = 404
<1>1. handleError["StoreError"] = 500 /\ handleError["ErrTopicNotFound"] = 404
  BY DEF handleError
<1>2. ~Reply(p, 200) /\ ~Reply(p, 500)
  BY RepliedBy
<1>3. ~ReplyError(p, "StoreError") /\ ~PublishReply(p, "StoreError")
  BY <1>1, <1>2, RequestAssumption
     DEF ReplyError, PublishReply, NoError, WriteHeader, Statuses
<1>4. ~PublishReply(p, NoError)
  BY <1>2, RequestAssumption DEF PublishReply, NoError, WriteHeader, Statuses
<1>5. ReplyError(p, "ErrTopicNotFound") \/ PublishReply(p, "ErrTopicNotFound") =>
        resp'[q] = 404
  BY <1>1, RepliedBy, RequestAssumption
     DEF ReplyError, PublishReply, NoError, WriteHeader, Statuses
<1>6. ~Abandon(p)
  BY DEF Abandon, CoreOK, SlotOK, Idle
<1>7. p = q
  BY <1>6, OthersAreKept DEF Idle
<1>8. ~Goto(q, "UpdateTopic") /\ ~Goto(q, "GetTopic") /\ ~Goto(q, "UpsertTopic")
  BY DEF Goto, CoreOK
<1>9. CASE UpdateReleaseDate(q) \/ UpdateState(q)
  BY <1>2, <1>3, <1>5, <1>7, <1>9 DEF UpdateReleaseDate, UpdateState, NotFound, StoreFailed
<1>10. CASE CheckTopicExists(q) \/ UpdateTopic(q)
  BY <1>2, <1>3, <1>5, <1>7, <1>8, <1>10
     DEF CheckTopicExists, UpdateTopic, NotFound, StoreFailed
<1>11. CASE GetTopic(q)
  BY <1>3, <1>5, <1>7, <1>8, <1>11 DEF GetTopic
<1>12. CASE UpsertTopic(q)
  BY <1>3, <1>4, <1>5, <1>7, <1>12 DEF UpsertTopic
<1> QED
  BY <1>6, <1>7, <1>9, <1>10, <1>11, <1>12 DEF StoreCall

(* A request stays the same while its handler runs.                         *)
LEMMA RequestStays ==
  ASSUME CoreOK, NEW p \in Requests, StoreCall(p) \/ Abandon(p),
         NEW q \in Requests, pc'[q] # "idle"
  PROVE  req'[q] = req[q]
<1>1. ASSUME NEW status, Reply(p, status) PROVE req'[q] = req[q]
  BY <1>1 DEF Reply, CoreOK
<1>2. ASSUME NEW err, ReplyError(p, err) \/ PublishReply(p, err) PROVE req'[q] = req[q]
  BY <1>1, <1>2 DEF ReplyError, PublishReply
<1>3. ASSUME NEW next, Goto(p, next) PROVE req'[q] = req[q]
  BY <1>3 DEF Goto
<1>4. CASE Abandon(p)
  BY <1>4 DEF Abandon, CoreOK
<1>5. CASE NotFound(p) \/ StoreFailed(p)
  BY <1>2, <1>5 DEF NotFound, StoreFailed
<1>6. CASE UpdateReleaseDate(p) \/ UpdateState(p)
  BY <1>1, <1>2, <1>5, <1>6 DEF UpdateReleaseDate, UpdateState
<1>7. CASE CheckTopicExists(p)
  BY <1>3, <1>5, <1>7 DEF CheckTopicExists
<1>8. CASE UpdateTopic(p)
  BY <1>1, <1>2, <1>3, <1>5, <1>8 DEF UpdateTopic
<1>9. CASE GetTopic(p)
  BY <1>2, <1>3, <1>9 DEF GetTopic
<1>10. CASE UpsertTopic(p)
  BY <1>2, <1>10 DEF UpsertTopic
<1> QED
  BY <1>4, <1>6, <1>7, <1>8, <1>9, <1>10 DEF StoreCall

(* No step of the service starts a request.                                *)
LEMMA StillBusy ==
  ASSUME CoreOK, NEW p \in Requests, StoreCall(p) \/ Abandon(p),
         NEW q \in Requests, pc[q] = "idle"
  PROVE  pc'[q] = "idle"
<1>1. p # q
  BY DEF StoreCall, UpdateReleaseDate, UpdateState, CheckTopicExists, UpdateTopic,
         GetTopic, UpsertTopic, At, Abandon, Idle
<1> QED
  BY <1>1, OthersAreKept

LEMMA ChangesObserved ==
  ASSUME ObserveCall, attempts \subseteq Requests
  PROVE  /\ Free' => attempts' = {} /\ ~changed'
         /\ attempts' \subseteq {q \in attempts \cup {slot'} : q \in Requests /\ pc'[q] # "idle"}
         /\ ~Free' /\ slot' \in Requests /\ pc'[slot'] # "idle" => slot' \in attempts'
         /\ changed' => changed \/ \E q \in attempts : Changes(q)
BY DEF ObserveCall, Idle

(* A step that leaves the slots and the store alone.                       *)
LEMMA QuietChange ==
  ASSUME ClientInv, ChangeInv, ObserveCall, UNCHANGED <<topics, pc, req>>,
         slot' = Nil, tries' \in {0, tries},
         tries' = 0 => tries = 0 \/ Free',
         reply' = Nil \/ reply'.status \notin 400..499
  PROVE  ChangeInv'
<1>2. attempts \subseteq Requests
  BY DEF ClientInv, EffectInv
<1>3. \A q \in Requests : ~Changes(q)
  BY DEF Changes
<1>4. tries' = 0 => attempts' = {} /\ ~changed'
  BY <1>2, <1>3, ChangesObserved, NothingIsNil DEF ChangeInv
<1> QED
  BY <1>4, NothingIsNil DEF ChangeInv

LEMMA SendChange ==
  ASSUME ClientInv, ChangeInv, Send, ObserveCall
  PROVE  ChangeInv'
<1>0. /\ CanSend /\ ~Free' /\ slot = Nil /\ reply = Nil /\ private \in BOOLEAN
      /\ tries \in Nat /\ ServiceOK /\ attempts \subseteq Requests
  BY ClientAssumption
     DEF Send, CanSend, Free, ClientInv, CallInv, ClientTypeOK, EffectInv
<1>1. tries' = tries + 1 /\ UNCHANGED topics
  BY <1>0, PutDoes, GetDoes
     DEF Send, NotSent, NotRouted, isAuthenticated, isAuthorised, getNavigationHandler,
         Answered
<1>3. \/ slot' = Nil
      \/ /\ slot' \in Requests \cup Readers /\ reply' = Nil
         /\ slot' \in Requests => pc'[slot'] \notin {"idle", "UpsertTopic"}
  BY <1>0, PutDoes, GetDoes, NothingIsNil
     DEF Send, NotSent, NotRouted, isAuthenticated, isAuthorised, getNavigationHandler,
         Answered
<1>4. tries' = 1 => attempts' = Requests \cap {slot'} /\ ~changed'
  <2> SUFFICES ASSUME tries' = 1 PROVE attempts' = Requests \cap {slot'} /\ ~changed'
    OBVIOUS
  <2>1. tries = 0 /\ attempts = {} /\ ~changed
    BY <1>0, <1>1 DEF ChangeInv
  <2>2. ~changed'
    BY <1>0, <2>1, ChangesObserved
  <2>3. attempts' \subseteq {q \in {slot'} : q \in Requests}
    BY <1>0, <2>1, ChangesObserved
  <2>4. slot' \in Requests => slot' \in attempts'
    <3>1. slot' \in Requests => pc'[slot'] # "idle"
      BY <1>3, NothingIsNil
    <3> QED
      BY <1>0, <3>1, ChangesObserved, Zenon
  <2> QED
    BY <2>2, <2>3, <2>4
<1>5. tries' # 0
  BY <1>0, <1>1
<1>6. tries' = 1 /\ reply' # Nil => attempts' = {} /\ ~changed'
  BY <1>3, <1>4, NothingIsNil
<1>7. tries' = 1 /\ slot' # Nil =>
        /\ attempts' = Requests \cap {slot'}
        /\ changed' => slot' \in Requests /\ Kept(slot)'
  BY <1>4
<1>8. ~(slot' \in Requests /\ pc'[slot'] = "UpsertTopic")
  BY <1>3, NothingIsNil
<1> QED
  BY <1>5, <1>6, <1>7, <1>8, Zenon DEF ChangeInv

(* The answer of the handler, or nothing yet.                              *)
LEMMA ServiceChange ==
  ASSUME ClientInv, ClientInv', ChangeInv, ServiceStep, ObserveCall
  PROVE  ChangeInv'
<1>0. /\ CoreOK /\ Deliver /\ attempts \subseteq Requests
      /\ tries' = tries /\ (Free' <=> Free)
      /\ slot # Nil => reply = Nil /\ ~Free
      /\ Free => tries = 0
  BY DEF ServiceStep, PutStep, GetStep, Deliver, Free, ClientInv, ServiceOK, EffectInv,
         CallInv, ClientTypeOK
<1>1. \/ \E p \in Requests : StoreCall(p) \/ Abandon(p)
      \/ UNCHANGED <<topics, pc, req>>
  BY DEF ServiceStep, GetStep
<1>2. ASSUME slot \in Requests
      PROVE  /\ ~Free' /\ call' = call /\ call.fn \in DOMAIN Puts
             /\ lost => lost'
  <2>1. ~Free' /\ call' = call /\ call.fn \in DOMAIN Puts
    BY <1>0, <1>2, NothingIsNil DEF Deliver, ClientInv, EffectInv
  <2> QED
    BY <2>1, LossObserved
<1>3. ASSUME tries = 1, slot \in Requests, Changes(slot)
      PROVE  Kept(slot)
  <2>1. PICK p \in Requests : StoreCall(p) \/ Abandon(p)
    BY <1>1, <1>3 DEF Changes
  <2> QED
    BY <1>0, <1>3, <2>1, ChangedFound DEF ChangeInv
<1>4. ASSUME slot \in Requests, pc'[slot] # "idle"
      PROVE  slot' = slot
  BY <1>0, <1>4, ClientAssumption DEF Deliver, Ends
<1>10. ASSUME slot \in Requests, Kept(slot), pc'[slot] # "idle"
       PROVE  Found(slot)' \/ lost'
  <2>1. slot' = slot
    BY <1>4, <1>10
  <2>2. CASE lost
    BY <1>2, <1>10, <2>2
  <2>3. CASE Found(slot)
    <3>1. CASE UNCHANGED <<topics, pc, req>>
      BY <2>1, <2>3, <3>1 DEF Found, Stored
    <3>2. CASE \E p \in Requests : StoreCall(p) \/ Abandon(p)
      <4>1. req'[slot] = req[slot]
        BY <1>0, <1>10, <3>2, RequestStays
      <4>2. Stored \subseteq Stored'
        BY <1>0, <3>2, StoredGrows DEF Step
      <4>3. req[slot].id \in Ids
        BY <1>0, <1>2, <1>10, CallContext DEF ClientInv, CallInv, ClientTypeOK
      <4> QED
        BY <2>1, <2>3, <4>1, <4>2, <4>3 DEF Found, Stored
    <3> QED
      BY <1>1, <3>1, <3>2
  <2> QED
    BY <1>10, <2>2, <2>3 DEF Kept
<1>9. ASSUME tries = 1, slot \in Requests, pc'[slot] = "UpsertTopic"
      PROVE  Found(slot)' \/ lost'
  <2>0. slot' = slot
    BY <1>4, <1>9
  <2>1. CASE UNCHANGED <<topics, pc, req>>
    <3>1. Kept(slot)
      BY <1>9, <2>1 DEF ChangeInv
    <3> QED
      BY <1>9, <1>10, <3>1
  <2>2. CASE \E p \in Requests : StoreCall(p) \/ Abandon(p)
    <3>1. KeptCopy(slot) \/ FreshCopy(slot)
      BY <1>0, <1>9, <2>2, StepCopy DEF Step
    <3>2. CASE KeptCopy(slot)
      <4>1. Kept(slot)
        BY <1>9, <3>2 DEF KeptCopy, ChangeInv
      <4> QED
        BY <1>9, <1>10, <4>1
    <3>3. CASE FreshCopy(slot)
      BY <2>0, <3>3 DEF FreshCopy, Found
    <3> QED
      BY <3>1, <3>2, <3>3
  <2> QED
    BY <1>1, <2>1, <2>2
<1>5. CASE ~Ends
  <2>1. slot' = slot /\ reply' = reply
    BY <1>0, <1>5 DEF Deliver
  <2>2. slot \in Requests => pc'[slot] # "idle"
    BY <1>5 DEF Ends
  <2>3. attempts = {} => attempts' \subseteq {q \in {slot} : q \in Requests}
    BY <1>0, <2>1, ChangesObserved
  <2>4. attempts = {} /\ ~changed => ~changed'
    BY <1>0, ChangesObserved
  <2>5. tries = 0 => slot = Nil /\ attempts' = {} /\ ~changed'
    BY <2>3, <2>4, NothingIsNil DEF ChangeInv
  <2>6. ASSUME tries = 1, slot # Nil
        PROVE  /\ attempts' = Requests \cap {slot}
               /\ changed' => slot \in Requests /\ (Found(slot)' \/ lost')
    <3>1. attempts = Requests \cap {slot} /\ (changed => slot \in Requests /\ Kept(slot))
      BY <2>6 DEF ChangeInv
    <3>2. attempts' \subseteq {q \in attempts \cup {slot} : q \in Requests}
      BY <1>0, <2>1, ChangesObserved
    <3>3. slot \in Requests => slot \in attempts'
      BY <1>0, <2>1, <2>2, <2>6, ChangesObserved
    <3>4. changed' => slot \in Requests /\ Kept(slot)
      BY <1>0, <1>3, <2>6, <3>1, ChangesObserved
    <3> QED
      BY <1>10, <2>1, <2>2, <3>1, <3>2, <3>3, <3>4
  <2>7. ASSUME tries = 1, reply # Nil, reply.status \in 400..499
        PROVE  attempts' = {} /\ (~changed' \/ (reply.status = 404 /\ lost'))
    <3>1. attempts = {} /\ (~changed \/ (reply.status = 404 /\ lost))
      BY <2>7 DEF ChangeInv
    <3>2. slot = Nil /\ ~Free
      BY <1>0, <2>7 DEF ClientInv, CallInv, ClientTypeOK
    <3>3. attempts' = {}
      BY <2>3, <3>1, <3>2, NothingIsNil
    <3>4. lost => lost'
      BY <1>0, <3>2 DEF ClientInv, LostInv, Deliver, ObserveCall
    <3> QED
      BY <2>4, <3>1, <3>3, <3>4
  <2> QED
    BY <1>0, <1>9, <2>1, <2>5, <2>6, <2>7 DEF ChangeInv, Kept, Found
<1>6. CASE Ends
  <2>1. slot' = Nil /\ reply' = AnswerOf /\ slot # Nil
    BY <1>0, <1>6, NothingIsNil DEF Deliver, Ends
  <2>2. tries' # 0
    BY <1>0, <2>1 DEF ChangeInv
  <2>3. ASSUME tries = 1, AnswerOf.status \in 400..499
        PROVE  attempts' = {} /\ (~changed' \/ (AnswerOf.status = 404 /\ lost'))
    <3>1. attempts = Requests \cap {slot} /\ (changed => slot \in Requests /\ Kept(slot))
      BY <2>1, <2>3 DEF ChangeInv
    <3>2. attempts' \subseteq {q \in attempts \cup {Nil} : q \in Requests /\ pc'[q] # "idle"}
      BY <1>0, <2>1, ChangesObserved
    <3>3. CASE slot \in Requests
      <4>1. pc'[slot] = "idle" /\ ~Idle(slot)
        BY <1>6, <3>3, NothingIsNil DEF Ends, ClientInv, CallInv, ClientTypeOK
      <4>2. resp'[slot] # Nil /\ resp'[slot] \in 400..499
        BY <2>3, <3>3 DEF AnswerOf, Broken, Refusal, Aborted
      <4>3. PICK p \in Requests : StoreCall(p) \/ Abandon(p)
        BY <3>3, <4>1 DEF ServiceStep, GetStep, Idle
      <4>4. ~Found(slot) /\ AnswerOf.status = 404
        BY <1>0, <3>3, <4>1, <4>2, <4>3, RefusedNotFound DEF AnswerOf, Refusal
      <4>5. changed' => Kept(slot)
        BY <1>0, <1>3, <2>3, <3>1, <3>3, ChangesObserved
      <4>6. changed' => lost'
        BY <1>2, <3>3, <4>4, <4>5 DEF Kept
      <4> QED
        BY <3>1, <3>2, <4>1, <4>4, <4>6, NothingIsNil
    <3>4. CASE slot \notin Requests
      <4>1. ~changed'
        BY <1>0, <3>1, <3>4, ChangesObserved
      <4> QED
        BY <3>1, <3>2, <3>4, <4>1, NothingIsNil
    <3> QED
      BY <3>3, <3>4
  <2> QED
    BY <1>0, <2>1, <2>2, <2>3, NothingIsNil DEF ChangeInv
<1> QED
  BY <1>5, <1>6

(* A wipe during a PUT call is noted as such.                              *)
LEMMA WipeChange ==
  ASSUME ClientInv, ChangeInv, wipeDatabase, ObserveCall
  PROVE  ChangeInv'
<1>1. /\ UNCHANGED <<pc, req, call, slot, reply, tries>> /\ (Free' <=> Free)
      /\ slot # Nil \/ reply # Nil => ~Free
      /\ attempts \subseteq Requests
      /\ CoreOK
  BY DEF wipeDatabase, Free, ClientInv, CallInv, ClientTypeOK, EffectInv, ServiceOK
<1>2. \A q \in Requests : ~Changes(q)
  BY <1>1 DEF Changes
<1>3. /\ changed' => changed
      /\ attempts' \subseteq {q \in attempts \cup {slot} : q \in Requests}
  BY <1>1, <1>2, ChangesObserved
<1>4. ASSUME slot \in Requests
      PROVE  /\ slot \in attempts'
             /\ Kept(slot) => lost'
  <2>1. ~Free /\ ~Idle(slot) /\ call.fn \in DOMAIN Puts
    BY <1>1, <1>4, NothingIsNil DEF ClientInv, CallInv, ClientTypeOK, EffectInv
  <2>2. slot \in attempts'
    BY <1>1, <1>4, <2>1, ChangesObserved DEF Idle
  <2>3. lost \/ Loses => lost'
    BY <1>1, <2>1, LossObserved
  <2>4. Found(slot) => Loses
    BY <1>1, <1>4, <2>1, CallContext DEF wipeDatabase, Found, Loses, Stored
  <2> QED
    BY <2>2, <2>3, <2>4 DEF Kept
<1>5. reply # Nil /\ lost => lost'
  BY <1>1 DEF ClientInv, LostInv, ObserveCall
<1>6. tries = 0 => slot = Nil /\ attempts' = {} /\ ~changed'
  BY <1>3, NothingIsNil DEF ChangeInv
<1>7. tries = 1 /\ slot # Nil =>
        attempts' = Requests \cap {slot} /\ (changed' => slot \in Requests /\ lost')
  BY <1>3, <1>4 DEF ChangeInv
<1>8. tries = 1 /\ slot \in Requests /\ pc[slot] = "UpsertTopic" => lost'
  BY <1>4 DEF ChangeInv
<1>9. tries = 1 /\ reply # Nil /\ reply.status \in 400..499 =>
        attempts' = {} /\ (~changed' \/ (reply.status = 404 /\ lost'))
  <2>1. reply # Nil => slot = Nil
    BY DEF ClientInv, CallInv, ClientTypeOK
  <2> QED
    BY <1>3, <1>5, <2>1, NothingIsNil DEF ChangeInv
<1> QED
  BY <1>1, <1>6, <1>7, <1>8, <1>9 DEF ChangeInv, Kept

LEMMA ChangeStep ==
  ASSUME ClientInv, ClientInv', ChangeInv, [ClientNext]_clientVars
  PROVE  ChangeInv'
<1>1. CASE BeginCall /\ ObserveCall
  <2>1. slot' = Nil /\ reply' = Nil /\ tries' = tries /\ tries = 0
    BY <1>1, BeginCallDoes DEF ClientInv, CallInv, ClientTypeOK
  <2> QED
    BY <1>1, <2>1, BeginCallDoes, QuietChange
<1>2. CASE Send /\ ObserveCall
  BY <1>2, SendChange
<1>3. CASE Break /\ ObserveCall
  <2>1. slot' = Nil /\ reply'.status \notin 400..499 /\ tries' = tries
    BY <1>3 DEF Break, Broken, Aborted
  <2> QED
    BY <1>3, <2>1, QuietChange DEF Break
<1>4. CASE callTopicAPI /\ ObserveCall
  <2>1. slot' = Nil /\ reply' = Nil /\ UNCHANGED <<topics, pc, req>>
    BY <1>4 DEF callTopicAPI, ClientInv, CallInv, ClientTypeOK
  <2>2. tries' = tries \/ (tries' = 0 /\ Free')
    BY <1>4 DEF callTopicAPI, Retry, Returned, Free
  <2> QED
    BY <1>4, <2>1, <2>2, QuietChange
<1>5. CASE ServiceStep /\ ObserveCall
  BY <1>5, ServiceChange
<1>6. CASE UNCHANGED clientVars
  BY <1>6 DEF clientVars, vars, callVars, clientHistories, ChangeInv, Kept, Found
<1>7. CASE wipeDatabase /\ ObserveCall
  BY <1>7, WipeChange
<1> QED
  BY <1>1, <1>2, <1>3, <1>4, <1>5, <1>6, <1>7 DEF ClientNext, ClientStep

LEMMA ChangeInit == ClientInit => ChangeInv
BY NothingIsNil DEF ClientInit, ChangeInv

(* A PUT call that the service refused at the first attempt has changed no *)
(* topic, whatever else the service was doing, but for the answer 404 to a *)
(* call during which topics were wiped.                                    *)
THEOREM RefusalsAreClean == ClientSpec => RefusalsChangeNothing
<1>1. ASSUME ClientInv, ChangeInv, ClientNext, PutReturns, tries = 1,
             outcome'.code \in 400..499
      PROVE  ~changed \/ (outcome'.code = 404 /\ lost)
  <2>1. reply \in Received /\ reply # Nil /\ callTopicAPI
    <3>1. ~BeginCall
      BY <1>1, BeginCallDoes DEF PutReturns
    <3>2. callTopicAPI
      BY <1>1, <3>1 DEF ClientNext, ClientStep, PutReturns, Send, Break, ServiceStep,
                        PutStep, GetStep, Deliver, wipeDatabase
    <3> QED
      BY <1>1, <3>2 DEF callTopicAPI, ClientInv, CallInv
  <2>2. reply.status = outcome'.code
    <3>1. ~Retry
      BY <1>1 DEF Retry, PutReturns
    <3>2. ~Returned(TRUE, 500, <<>>)
      <4>1. Returned(TRUE, 500, <<>>) => outcome'.code = 500
        BY DEF Returned
      <4>2. 500 \notin 400..499
        OBVIOUS
      <4> QED
        BY <1>1, <4>1, <4>2, Zenon
    <3>3. ASSUME NEW err, NEW body, Returned(err, reply.status, body)
          PROVE  reply.status = outcome'.code
      BY <3>3 DEF Returned
    <3> QED
      BY <2>1, <3>1, <3>2, <3>3 DEF callTopicAPI
  <2> QED
    BY <1>1, <2>1, <2>2 DEF ChangeInv
<1>2. ClientSpec => [](ClientInv /\ ChangeInv)
  BY ClientInvInit, ClientInvStep, ChangeInit, ChangeStep, PTL DEF ClientSpec
<1>3. ClientInv /\ ChangeInv /\ [ClientNext]_clientVars =>
        [PutReturns /\ tries = 1 /\ outcome'.code \in 400..499 =>
           ~changed \/ (outcome'.code = 404 /\ lost)]_clientVars
  BY <1>1
<1> QED
  BY <1>2, <1>3, PTL DEF ClientSpec, RefusalsChangeNothing

-----------------------------------------------------------------------------
(* What a GET call returns.  The invariant: the items that a reader of the *)
(* call's request has collected, or that came back from it, could have     *)
(* been read since the call began, if the function is one for this kind of *)
(* instance.                                                               *)

Matching == private = (call.fn \in PrivateGets)

(* What a read could return now.                                           *)
ServedNow ==
  \A id \in Stored :
    [ id  |-> id,
      doc |-> [topics[id] EXCEPT !.next = IF call.fn \in PublicGets THEN Nil ELSE @] ]
      \in served

ServedInv ==
  /\ ~Free /\ call.fn \in Gets => ServedNow
  /\ slot \in Readers => rreq[slot].private = private
  /\ slot \in Readers /\ Matching => ElementsOf(items[slot]) \subseteq served
  /\ reply # Nil /\ call.fn \in Gets /\ Matching => ElementsOf(reply.body) \subseteq served

LEMMA NoElements == ElementsOf(<<>>) = {}
BY DEF ElementsOf

LEMMA ServedGrows ==
  ASSUME ObserveCall, ~Free', call'.fn \in Gets
  PROVE  served \subseteq served' /\ ServedNow'
BY DEF ObserveCall, ServedNow, Meant

(* The steps that end, or begin, what the call waits for.                  *)
LEMMA NothingServed ==
  ASSUME ObserveCall, slot' = Nil, reply' = Nil \/ reply'.body = <<>>
  PROVE  ServedInv'
BY ServedGrows, NoElements, NothingIsNil DEF ServedInv

LEMMA ItemServed ==
  ASSUME CoreOK, ServedInv, ~Free, call.fn \in Gets, Matching, slot \in Readers,
         NEW id \in Stored
  PROVE  TheItem(rreq[slot], id, topics[id]) \in served
<1>1. topics[id] \in TopicDoc
  BY CoreTopics, DocumentsRead
<1>2. call.fn \in PublicGets <=> ~private
  BY DEF Matching, Gets, PublicGets, PrivateGets
<1>3. private \in BOOLEAN
  BY DEF Matching
<1>4. TheItem(rreq[slot], id, topics[id]) =
        [ id  |-> id,
          doc |-> [topics[id] EXCEPT !.next = IF call.fn \in PublicGets THEN Nil ELSE @] ]
  BY <1>1, <1>2, <1>3 DEF ServedInv, TheItem, Visible, TopicDoc
<1> QED
  BY <1>4 DEF ServedInv, ServedNow

(* A read collects, or answers, what is in a set that holds all that may   *)
(* be read.                                                                *)
Collects(r, S) ==
  /\ rpc'[r] # "idle" => ElementsOf(items'[r]) \subseteq S
  /\ answer'[r] # Nil => ElementsOf(answer'[r].body) \subseteq S

LEMMA AnswerCollects ==
  ASSUME ReadTypeOK, NEW r \in Readers, NEW S, NEW status, NEW body,
         ReadAnswer(r, status, body), ElementsOf(body) \subseteq S
  PROVE  Collects(r, S)
<1>1. rpc'[r] = "idle" /\ answer'[r] = [status |-> status, body |-> body]
  BY DEF ReadAnswer, ReadTypeOK
<1> QED
  BY <1>1 DEF Collects

LEMMA ErrorCollects ==
  ASSUME ReadTypeOK, NEW r \in Readers, NEW S, NEW err, ReadError(r, err)
  PROVE  Collects(r, S)
BY AnswerCollects, NoElements DEF ReadError

LEMMA ContinueCollects ==
  ASSUME ReadTypeOK, NEW r \in Readers, NEW S, NEW collected,
         ElementsOf(collected) \subseteq S, Continue(r, collected)
  PROVE  Collects(r, S)
<1>1. CASE More(r)
  BY <1>1 DEF Continue, ReadTypeOK, NoAnswer, Collects
<1>2. CASE ~More(r)
  BY <1>2, AnswerCollects, ErrorCollects DEF Continue, NothingToList
<1> QED
  BY <1>1, <1>2

LEMMA CallCollects ==
  ASSUME ReadTypeOK, TopicsOK, NEW r \in Readers, ReadCall(r), NEW S,
         ElementsOf(items[r]) \subseteq S,
         \A id \in Stored : TheItem(rreq[r], id, topics[id]) \in S
  PROVE  Collects(r, S)
<1>1. CASE ReadTopic(r)
  <2>1. ASSUME rreq[r].id \in Stored, ServeTopic(r, topics[rreq[r].id])
        PROVE  Collects(r, S)
    <3>1. ElementsOf(<<TheItem(rreq[r], rreq[r].id, topics[rreq[r].id])>>) \subseteq S
      BY <2>1 DEF ElementsOf
    <3> QED
      BY <2>1, <3>1, AnswerCollects DEF ServeTopic
  <2>2. ASSUME NEW ids, ReadNext(r, ids) PROVE Collects(r, S)
    BY <2>2 DEF ReadNext, NoAnswer, Collects
  <2>3. ASSUME NEW listing, ListSubtopics(r, listing) PROVE Collects(r, S)
    BY <2>2, <2>3, ErrorCollects DEF ListSubtopics, NothingToList
  <2> QED
    BY <1>1, <2>1, <2>3, ErrorCollects DEF ReadTopic
<1>2. CASE ReadSubtopic(r)
  <2> DEFINE id   == Head(rest[r])
             item == TheItem(rreq[r], id, topics[id])
  <2>1. ASSUME id \in Stored PROVE ElementsOf(Append(items[r], item)) \subseteq S
    <3>1. item \in Item /\ items[r] \in Seq(Item)
      BY <2>1, DocumentsRead, ItemType DEF ReadTypeOK
    <3>2. item \in S
      BY <2>1
    <3> QED
      BY <3>1, <3>2, AppendElements
  <2> QED
    BY <1>2, <2>1, AnswerCollects, ContinueCollects, NoElements DEF ReadSubtopic, Skip
<1> QED
  BY <1>1, <1>2 DEF ReadCall

LEMMA SendServed ==
  ASSUME ClientInv, ServedInv, Send, ObserveCall
  PROVE  ServedInv'
<1>0. /\ CanSend /\ ~Free' /\ call' = call /\ private' = private
      /\ slot = Nil /\ reply = Nil /\ private \in BOOLEAN /\ ServiceOK
  BY DEF Send, CanSend, Free, ClientInv, CallInv, ClientTypeOK
<1>1. CASE NotSent \/ NotRouted \/ isAuthenticated \/ isAuthorised
  BY <1>0, <1>1, NothingServed DEF NotSent, NotRouted, isAuthenticated, isAuthorised,
                                   Answered, Broken, Refusal
<1>2. CASE Put \/ getNavigationHandler
  <2>1. call.fn \notin Gets /\ slot' \notin Readers
    BY <1>0, <1>2, PutDoes, KindsOfCalls, NothingIsNil DEF getNavigationHandler, Answered
  <2> QED
    BY <1>0, <2>1 DEF ServedInv
<1>3. CASE Get
  <2>1. CASE slot' = slot /\ reply'.body = <<>>
    BY <1>0, <2>1, NothingServed
  <2>2. CASE /\ slot' \in Readers /\ rreq'[slot'].private = private
             /\ items'[slot'] = <<>> /\ reply' = reply
    BY <1>0, <2>2, ServedGrows, NoElements DEF ServedInv
  <2> QED
    BY <1>0, <1>3, <2>1, <2>2, GetDoes
<1> QED
  BY <1>1, <1>2, <1>3 DEF Send

(* A step of a PUT request.                                                *)
LEMMA PutServed ==
  ASSUME ClientInv, ServedInv, NEW q \in Requests, PutStep(q), ObserveCall
  PROVE  ServedInv'
<1>0. call' = call /\ private' = private /\ (Free' <=> Free) /\ UNCHANGED slotVars /\ Deliver
  BY DEF PutStep, Deliver, Free
<1>1. CASE slot' = slot /\ reply' = reply
  <2>1. slot \in Readers \/ reply # Nil => ~Free
    BY NothingIsNil DEF ClientInv, CallInv, ClientTypeOK
  <2>2. slot \in Readers => call.fn \in Gets
    BY DEF ClientInv, EffectInv
  <2> QED
    BY <1>0, <1>1, <2>1, <2>2, ServedGrows DEF ServedInv, slotVars, Matching
<1>2. CASE Ends /\ slot' = Nil
  <2>1. slot \notin Readers
    BY <1>0, <1>2, NothingIsNil
       DEF Ends, slotVars, ClientInv, CallInv, ClientTypeOK, ReaderIdle
  <2>2. call.fn \notin Gets
    BY <1>2, <2>1, KindsOfCalls DEF Ends, ClientInv, EffectInv
  <2> QED
    BY <1>0, <1>2, <2>2, NothingIsNil DEF ServedInv
<1> QED
  BY <1>0, <1>1, <1>2 DEF Deliver

(* A step of a GET request.                                                *)
LEMMA GetServed ==
  ASSUME ClientInv, ServedInv, NEW r \in Readers, ReadCall(r) \/ ReadAbandon(r),
         GetStep(r), ObserveCall
  PROVE  ServedInv'
<1>0. /\ call' = call /\ private' = private /\ (Free' <=> Free) /\ Deliver
      /\ UNCHANGED <<topics, pc, req, copy, resp>>
      /\ ServiceOK /\ ReadTypeOK /\ TopicsOK
  BY CoreTopics DEF GetStep, Deliver, Free, ClientInv, ServiceOK
<1>1. CASE slot \notin Readers
  <2>1. ~Ends
    BY <1>0, <1>1 DEF Ends, ClientInv, CallInv, ClientTypeOK, Idle
  <2>2. slot' = slot /\ reply' = reply /\ (reply # Nil => ~Free)
    BY <1>0, <2>1 DEF Deliver, ClientInv, CallInv, ClientTypeOK
  <2> QED
    BY <1>0, <1>1, <2>2, ServedGrows DEF ServedInv, Matching
<1>2. CASE slot \in Readers
  <2>1. call.fn \in Gets /\ ~Free /\ reply = Nil /\ slot # Nil /\ slot \notin Requests
    BY <1>2, NothingIsNil DEF ClientInv, EffectInv, CallInv, ClientTypeOK
  <2>2. Matching => Collects(slot, served)
    <3>1. CASE ReadKept(slot)
      BY <1>2, <3>1 DEF ReadKept, Collects, ServedInv
    <3>2. CASE ReadAbandon(slot)
      BY <1>0, <1>2, <3>2 DEF ReadAbandon, NoAnswer, ReadTypeOK, Collects
    <3>3. CASE ReadCall(slot)
      BY <1>0, <1>2, <2>1, <3>3, CallCollects, ItemServed DEF ServedInv, ServiceOK
    <3> QED
      BY <1>0, <1>2, <3>1, <3>2, <3>3, OthersKept
  <2>3. CASE Ends
    <3>1. slot' = Nil /\ reply' = IF answer'[slot] = Nil THEN Broken ELSE answer'[slot]
      BY <1>0, <2>1, <2>3 DEF Deliver, AnswerOf
    <3>2. Matching => ElementsOf(reply'.body) \subseteq served
      BY <2>2, <3>1, NoElements DEF Collects, Broken
    <3> QED
      BY <1>0, <2>1, <3>1, <3>2, ServedGrows, NothingIsNil DEF ServedInv, Matching
  <2>4. CASE ~Ends
    <3>1. slot' = slot /\ reply' = reply /\ rpc'[slot] # "idle"
      BY <1>0, <1>2, <2>4 DEF Deliver, Ends
    <3>2. rreq'[slot] = rreq[slot]
      BY <1>0, <1>2, <3>1, ReaderRequestKept
    <3>3. Matching => ElementsOf(items'[slot]) \subseteq served
      BY <2>2, <3>1 DEF Collects
    <3> QED
      BY <1>0, <2>1, <3>1, <3>2, <3>3, ServedGrows DEF ServedInv, Matching
  <2> QED
    BY <2>3, <2>4
<1> QED
  BY <1>1, <1>2

LEMMA ServedStep ==
  ASSUME ClientInv, ServedInv, [ClientNext]_clientVars
  PROVE  ServedInv'
<1>1. CASE BeginCall /\ ObserveCall
  <2>1. slot' = Nil /\ reply' = Nil
    BY <1>1, BeginCallDoes DEF ClientInv, CallInv, ClientTypeOK
  <2> QED
    BY <1>1, <2>1, NothingServed
<1>2. CASE Send /\ ObserveCall
  BY <1>2, SendServed
<1>3. CASE Break /\ ObserveCall
  BY <1>3, NothingServed DEF Break, Broken
<1>4. CASE callTopicAPI /\ ObserveCall
  <2>1. slot' = Nil /\ reply' = Nil
    BY <1>4 DEF callTopicAPI, ClientInv, CallInv, ClientTypeOK
  <2> QED
    BY <1>4, <2>1, NothingServed
<1>5. CASE ServiceStep /\ ObserveCall
  BY <1>5, PutServed, GetServed DEF ServiceStep
<1>6. CASE UNCHANGED clientVars
  BY <1>6 DEF clientVars, vars, readVars, slotVars, callVars, clientHistories,
              ServedInv, ServedNow, Matching, Free, Stored, ElementsOf
<1>7. CASE wipeDatabase /\ ObserveCall
  <2>1. /\ UNCHANGED <<slotVars, private, call, slot, reply>>
        /\ Free' <=> Free
    BY <1>7 DEF wipeDatabase, Free
  <2>2. Stored' = {}
    BY <1>7 DEF wipeDatabase, Stored
  <2>3. ~Free /\ call.fn \in Gets => served \subseteq served'
    BY <1>7, <2>1 DEF ObserveCall
  <2>4. /\ slot \in Readers => ~Free /\ call.fn \in Gets
        /\ reply # Nil => ~Free
    BY NothingIsNil DEF ClientInv, EffectInv, CallInv, ClientTypeOK
  <2> QED
    BY <2>1, <2>2, <2>3, <2>4 DEF ServedInv, ServedNow, Matching, ElementsOf, slotVars
<1> QED
  BY <1>1, <1>2, <1>3, <1>4, <1>5, <1>6, <1>7 DEF ClientNext, ClientStep

LEMMA ServedInit == ClientInit => ServedInv
BY NothingIsNil DEF ClientInit, ServedInv, Free

(* Whatever is edited and published meanwhile, and however often the       *)
(* request is sent, a GET call returns topics as they were during the      *)
(* call, or empty ones where the function is for the other kind of         *)
(* instance.                                                               *)
THEOREM GetsReturnThePast == ClientSpec => ReturnedWasServed
<1> DEFINE Right(i) == LET item == outcome'.body[i]
                       IN  \/ item \in served
                           \/ Empty(item) /\ private # (call.fn \in PrivateGets)
<1>1. ASSUME ClientInv, ServedInv, ClientNext, outcome' # Nil, ~Free, call.fn \in Gets,
             NEW i \in DOMAIN outcome'.body
      PROVE  Right(i)
  <2>1. callTopicAPI /\ reply # Nil /\ reply.body \in Seq(Item)
    <3>1. ~BeginCall
      BY <1>1, BeginCallDoes
    <3>2. callTopicAPI
      BY <1>1, <3>1 DEF ClientNext, ClientStep, Send, Break, ServiceStep,
                        PutStep, GetStep, Deliver, wipeDatabase
    <3> QED
      BY <1>1, <3>2, KindsOfCalls DEF callTopicAPI, ClientInv, CallInv
  <2>2. outcome'.body = Unmarshalled(reply.body)
    <3>1. ~Retry
      BY <1>1 DEF Retry
    <3>2. ASSUME NEW err, NEW code, Returned(err, code, <<>>)
          PROVE  FALSE
      BY <1>1, <3>2 DEF Returned
    <3>3. Returned(FALSE, reply.status, Unmarshalled(reply.body))
      BY <2>1, <3>1, <3>2 DEF callTopicAPI
    <3> QED
      BY <3>3 DEF Returned
  <2>3. CASE Matching
    <3>1. outcome'.body = reply.body
      BY <1>1, <2>2, <2>3 DEF Unmarshalled, Matching, Gets, PublicGets, PrivateGets
    <3>2. reply.body[i] \in served
      BY <1>1, <2>1, <2>3, <3>1 DEF ServedInv, ElementsOf
    <3> QED
      BY <3>1, <3>2
  <2>4. CASE ~Matching
    <3>1. Empty(outcome'.body[i])
      <4>1. private \in BOOLEAN
        BY <1>1 DEF ClientInv, CallInv, ClientTypeOK
      <4>2. outcome'.body = [j \in DOMAIN reply.body |->
              [reply.body[j] EXCEPT !.doc = [current |-> Nil, next |-> Nil]]]
        BY <1>1, <2>2, <2>4, <4>1 DEF Unmarshalled, Matching, Gets, PublicGets, PrivateGets
      <4>3. i \in DOMAIN reply.body /\ reply.body[i] \in Item
        BY <1>1, <2>1, <4>2
      <4> QED
        BY <4>2, <4>3 DEF Empty, Item
    <3> QED
      BY <2>4, <3>1 DEF Matching
  <2> QED
    BY <2>3, <2>4
<1>2. ClientSpec => [](ClientInv /\ ServedInv)
  BY ClientInvInit, ClientInvStep, ServedInit, ServedStep, PTL DEF ClientSpec
<1>3. ClientInv /\ ServedInv /\ [ClientNext]_clientVars =>
        [outcome' # Nil /\ ~Free /\ call.fn \in Gets =>
           \A i \in DOMAIN outcome'.body : Right(i)]_clientVars
  BY <1>1
<1> QED
  BY <1>2, <1>3, PTL DEF ClientSpec, ReturnedWasServed

=============================================================================
