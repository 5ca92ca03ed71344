---------------------------- MODULE TopicClient ----------------------------
(***************************************************************************)
(* A caller of the Go client in sdk/, with the way of its requests through *)
(* the router and the checks in front of the handlers.  The caller makes   *)
(* one call at a time; a call sends its request, and the HTTP client under *)
(* it may send it again when the connection breaks or the answer is a      *)
(* server error, while the handler of the request it gave up still runs.   *)
(***************************************************************************)
EXTENDS PublishingAPI, ReadAPI

CONSTANTS
  PutRequests,           \* the PUT requests that the caller makes: a bound
  EnablePermissionsAuth, \* config: permissions are checked too
  MaxAttempts            \* how often the HTTP client sends a request

ASSUME ClientAssumption ==
  /\ PutRequests \subseteq Request
  /\ EnablePermissionsAuth \in BOOLEAN
  /\ MaxAttempts \in Nat \ {0}
  /\ Requests \cap Readers = {} /\ Nil \notin Requests \cup Readers

Languages == {"en", "cy"}

(* What the HTTP client receives: an answer of the service, or the break   *)
(* of the connection, which has the status Aborted.                        *)
Received ==
  [ status : {Aborted, 401, 405} \cup Statuses,
    body   : Seq(Item \cup [lang : Languages]) ]

ASSUME ReceivedAssumption == Nil \notin Received

VARIABLES
  private,  \* EnablePrivateEndpoints of the instance at the caller's URL
  call,     \* the call in progress, Nil if there is none
  tries,    \* how often the request of the call was sent
  slot,     \* the slot that handles the request sent last, Nil if none
  reply,    \* what came back for it, Nil if nothing yet
  outcome,  \* what the last step returned to the caller, Nil if nothing
  attempts, \* history: slots that handle a request of the call
  effect,   \* history: the call's PUT request has taken effect
  changed,  \* history: an attempt of the call changed a topic
  lost,     \* history: topics were wiped since the call, a PUT, began
  served    \* history: all that a read could have returned since the call began

callVars == <<private, call, tries, slot, reply, outcome>>

clientHistories == <<attempts, effect, changed, lost, served>>

clientVars == <<vars, readVars, callVars, clientHistories>>

-----------------------------------------------------------------------------
(* sdk/client.go and sdk/client_private.go: the functions of the client,   *)
(* by the handler that a PUT request is for and by what a GET asks for.    *)

Puts ==
  [ PutTopicStatePrivate   |-> "PutState",
    PutTopicReleasePrivate |-> "PutReleaseDate",
    PutTopicPrivate        |-> "PutTopic" ]

PublicGets  == {"GetTopicPublic", "GetSubtopicsPublic", "GetRootTopicsPublic"}
PrivateGets == {"GetTopicPrivate", "GetSubtopicsPrivate", "GetRootTopicsPrivate"}

Navigation == "GetNavigationPublic"

Free == call = Nil

(* resp tells, like answer, what was answered since the last step of the   *)
(* caller.                                                                 *)
NoAnswers ==
  /\ resp' = [q \in Requests |-> Nil]
  /\ NoAnswer

(* A call begins: the request is made from its arguments.                  *)
Begin(fn, arg) ==
  /\ Free
  /\ call' = [fn |-> fn, arg |-> arg]
  /\ outcome' = Nil

(* An error before the request is sent has no status code.                 *)
Fails ==
  /\ Free
  /\ outcome' = [err |-> TRUE, code |-> 0, body |-> <<>>]
  /\ UNCHANGED call

(* The URL of a call may not parse, depending on the id.  Nil stands for a *)
(* state or a payload that the service refuses.                            *)
PutCall(fn) ==
  \/ \E r \in PutRequests : r.handler = Puts[fn] /\ Begin(fn, r)
  \/ Begin(fn, Nil)
  \/ Fails

PutTopicStatePrivate   == PutCall("PutTopicStatePrivate")
PutTopicReleasePrivate == PutCall("PutTopicReleasePrivate")
PutTopicPrivate        == PutCall("PutTopicPrivate")

GetCall(fn) ==
  \/ \E id \in Targets : Begin(fn, id)
  \/ Fails

GetTopicPublic       == GetCall("GetTopicPublic")
GetSubtopicsPublic   == GetCall("GetSubtopicsPublic")
GetRootTopicsPublic  == Begin("GetRootTopicsPublic", TopicRoot)
GetTopicPrivate      == GetCall("GetTopicPrivate")
GetSubtopicsPrivate  == GetCall("GetSubtopicsPrivate")
GetRootTopicsPrivate == Begin("GetRootTopicsPrivate", TopicRoot)

GetNavigationPublic ==
  \/ \E lang \in Languages : Begin(Navigation, lang)
  \/ Fails

BeginCall ==
  /\ \/ PutTopicStatePrivate \/ PutTopicReleasePrivate \/ PutTopicPrivate
     \/ GetTopicPublic \/ GetSubtopicsPublic \/ GetRootTopicsPublic
     \/ GetTopicPrivate \/ GetSubtopicsPrivate \/ GetRootTopicsPrivate
     \/ GetNavigationPublic
  /\ UNCHANGED <<topics, pc, req, copy, slotVars, private, tries, slot, reply>>
  /\ NoAnswers

-----------------------------------------------------------------------------
(* The way of a request to its handler.                                    *)

Broken == [status |-> Aborted, body |-> <<>>]

Refusal(status) == [status |-> status, body |-> <<>>]

CanSend == ~Free /\ slot = Nil /\ reply = Nil

Answered(answered) ==
  /\ tries' = tries + 1
  /\ reply' = answered
  /\ UNCHANGED <<topics, pc, req, copy, slot, slotVars>>
  /\ NoAnswers

(* No connection, or one that breaks before a handler has the request.     *)
NotSent == Answered(Broken)

(* api/api.go: a public instance has no PUT endpoints, but a GET endpoint  *)
(* at the path of PUT /topics/{id}.                                        *)
NotRouted ==
  /\ ~private
  /\ call.fn \in DOMAIN Puts
  /\ Answered(Refusal(IF call.fn = "PutTopicPrivate" THEN 405 ELSE 404))

(* The checks in front of every private handler: of the identity, and of   *)
(* the permissions if the configuration asks for them; both ask Zebedee.   *)
isAuthenticated == private /\ \E status \in {401, 500} : Answered(Refusal(status))

isAuthorised ==
  /\ private
  /\ EnablePermissionsAuth
  /\ \E status \in {403, 500} : Answered(Refusal(status))

(* A PUT request comes to its handler, which either accepts it for a slot  *)
(* or refuses it at once.                                                  *)
PutHandler(q) ==
  CASE call.fn = "PutTopicStatePrivate"   -> putTopicStatePrivateHandler(q)
    [] call.fn = "PutTopicReleasePrivate" -> putTopicReleaseDatePrivateHandler(q)
    [] call.fn = "PutTopicPrivate"        -> putTopicPrivateHandler(q)

IdleSlots == {q \in Requests : Idle(q)}

(* Any slot would do.                                                      *)
FreeSlots == IF IdleSlots = {} THEN {} ELSE {CHOOSE q \in IdleSlots : TRUE}

Put ==
  /\ private
  /\ call.fn \in DOMAIN Puts
  /\ \E q \in FreeSlots :
       /\ PutHandler(q)
       /\ IF Idle(q)'
          THEN call.arg = Nil /\ reply' = Refusal(resp'[q]) /\ UNCHANGED slot
          ELSE req'[q] = call.arg /\ slot' = q /\ UNCHANGED reply
  /\ tries' = tries + 1
  /\ UNCHANGED slotVars /\ NoAnswer

(* api/api.go: the GET handlers of the instance.                           *)
GetHandler(r) ==
  LET ofTopic     == call.fn \in {"GetTopicPublic", "GetTopicPrivate"}
      ofSubtopics == call.fn \in {"GetSubtopicsPublic", "GetSubtopicsPrivate"}
      ofRoot      == call.fn \in {"GetRootTopicsPublic", "GetRootTopicsPrivate"}
  IN  IF private
      THEN \/ ofTopic /\ getTopicPrivateHandler(r)
           \/ ofSubtopics /\ getSubtopicsPrivateHandler(r)
           \/ ofRoot /\ getRootTopicsPrivateHandler(r)
      ELSE \/ ofTopic /\ getTopicPublicHandler(r)
           \/ ofSubtopics /\ getSubtopicsPublicHandler(r)
           \/ ofRoot /\ getRootTopicsPublicHandler(r)

Get ==
  /\ call.fn \in PublicGets \cup PrivateGets
  /\ \E r \in Readers :
       /\ GetHandler(r)
       /\ IF ReaderIdle(r)'
          THEN call.arg = TopicRoot /\ reply' = answer'[r] /\ UNCHANGED slot
          ELSE rreq'[r].id = call.arg /\ slot' = r /\ UNCHANGED reply
  /\ tries' = tries + 1
  /\ resp' = [q \in Requests |-> Nil]
  /\ UNCHANGED <<topics, pc, req, copy>>

(* api/navigation.go: the menu is a constant of each language.             *)
getNavItems(lang) == <<[lang |-> lang]>>

getNavigationHandler ==
  /\ call.fn = Navigation
  /\ Answered([status |-> 200,
               body |-> getNavItems(IF call.arg = "cy" THEN "cy" ELSE "en")])

Send ==
  /\ CanSend
  /\ \/ NotSent
     \/ NotRouted
     \/ isAuthenticated
     \/ isAuthorised
     \/ Put
     \/ Get
     \/ getNavigationHandler
  /\ outcome' = Nil
  /\ UNCHANGED <<private, call>>

(* The connection breaks, or times out; the handler does not notice.       *)
Break ==
  /\ slot # Nil
  /\ slot' = Nil
  /\ reply' = Broken
  /\ outcome' = Nil
  /\ UNCHANGED <<topics, pc, req, copy, slotVars, private, call, tries>>
  /\ NoAnswers

-----------------------------------------------------------------------------
(* The end of callTopicAPI, and what its callers make of the answer.       *)

Returned(err, code, body) ==
  /\ outcome' = [err |-> err, code |-> code, body |-> body]
  /\ call' = Nil
  /\ tries' = 0

(* Wrong: only the errors of the server are errors.                        *)
UnexpectedServerError(status) == status >= 500

UnexpectedCode(status) == status < 200 \/ status >= 400

(* Wrong: the bodies of both kinds of instances are read alike.            *)
UnmarshalledAlike(body) == body

(* A function for one kind of instance finds no topic in what the other    *)
(* kind sends: only the ids match.                                         *)
Unmarshalled(body) ==
  IF call.fn \in (IF private THEN PublicGets ELSE PrivateGets)
  THEN [i \in DOMAIN body |-> [body[i] EXCEPT !.doc = [current |-> Nil, next |-> Nil]]]
  ELSE body

(* Wrong: the last attempt is not counted.                                 *)
RetryOnceMore ==
  /\ reply.status = Aborted \/ reply.status >= 500
  /\ tries <= MaxAttempts
  /\ outcome' = Nil
  /\ UNCHANGED <<call, tries>>

(* The HTTP client sends the request again.                                *)
Retry ==
  /\ reply.status = Aborted \/ reply.status >= 500
  /\ tries < MaxAttempts
  /\ outcome' = Nil
  /\ UNCHANGED <<call, tries>>

callTopicAPI ==
  /\ ~Free
  /\ reply # Nil
  /\ \/ Retry
     \/ reply.status = Aborted /\ Returned(TRUE, 500, <<>>)
     \/ /\ reply.status # Aborted /\ UnexpectedCode(reply.status)
        /\ Returned(TRUE, reply.status, <<>>)
     \/ /\ reply.status # Aborted /\ ~UnexpectedCode(reply.status)
        /\ \/ Returned(FALSE, reply.status, Unmarshalled(reply.body))
           \/ Returned(TRUE, reply.status, <<>>)
  /\ reply' = Nil
  /\ UNCHANGED <<topics, pc, req, copy, slotVars, private, slot>>
  /\ NoAnswers

-----------------------------------------------------------------------------
(* The service, and the answer on its way back.                            *)

Ends ==
  \/ slot \in Requests /\ pc'[slot] = "idle"
  \/ slot \in Readers /\ rpc'[slot] = "idle"

AnswerOf ==
  IF slot \in Requests
  THEN IF resp'[slot] = Nil THEN Broken ELSE Refusal(resp'[slot])
  ELSE IF answer'[slot] = Nil THEN Broken ELSE answer'[slot]

Deliver ==
  /\ IF Ends THEN slot' = Nil /\ reply' = AnswerOf ELSE UNCHANGED <<slot, reply>>
  /\ outcome' = Nil
  /\ UNCHANGED <<private, call, tries>>

PutStep(q) == UNCHANGED slotVars /\ NoAnswer /\ Deliver

GetStep(r) == UNCHANGED <<topics, pc, req, copy, resp>> /\ Deliver

ServiceStep ==
  \/ \E q \in Requests : (StoreCall(q) \/ Abandon(q)) /\ PutStep(q)
  \/ \E r \in Readers : (ReadCall(r) \/ ReadAbandon(r)) /\ GetStep(r)

-----------------------------------------------------------------------------
(* The operator drops the collection (scripts/wipe-database), while calls  *)
(* and handlers are in progress.                                           *)
wipeDatabase ==
  /\ Stored # {}
  /\ topics' = [id \in Ids |-> Nil]
  /\ outcome' = Nil
  /\ UNCHANGED <<pc, req, copy, slotVars, private, call, tries, slot, reply>>
  /\ NoAnswers

-----------------------------------------------------------------------------
(* The histories, and the specification.                                   *)

Gets == PublicGets \cup PrivateGets

LastCall(r) ==
  IF Publishes(r) THEN "UpsertTopic"
  ELSE CASE r.handler = "PutReleaseDate" -> "UpdateReleaseDate"
         [] r.handler = "PutState"       -> "UpdateState"
         [] r.handler = "PutTopic"       -> "UpdateTopic"

(* The last store call of the request in q is made, and has had its effect: *)
(* an edit is in the draft, or the topic is live as publishTopic read it.  *)
TakesEffect(q) ==
  /\ ~Idle(q) /\ Idle(q)'
  /\ pc[q] = LastCall(req[q])
  /\ topics'[req[q].id] # Nil
  /\ Applied(req[q], topics'[req[q].id])

Changes(q) == topics' # topics /\ pc'[q] # pc[q]

Loses == \E id \in Stored : topics'[id] = Nil

(* What a GET function promises of a topic.                                *)
Meant(id, doc) ==
  [ id  |-> id,
    doc |-> [doc EXCEPT !.next = IF call'.fn \in PublicGets THEN Nil ELSE @] ]

(* The history of PublishingAPI is not kept.                               *)
ObserveCall ==
  /\ UNCHANGED window
  /\ attempts' = IF Free' THEN {}
                 ELSE {q \in attempts \cup (Requests \cap {slot'}) : ~Idle(q)'}
  /\ effect' = (~Free' /\ (effect \/ \E q \in attempts : TakesEffect(q)))
  /\ changed' = (~Free' /\ (changed \/ \E q \in attempts : Changes(q)))
  /\ lost' = (~Free' /\ call'.fn \in DOMAIN Puts /\ (lost \/ Loses))
  /\ served' = IF Free' THEN {}
               ELSE IF call'.fn \notin Gets THEN {}
               ELSE served \cup {Meant(id, topics'[id]) : id \in Stored'}

ClientInit ==
  /\ Init
  /\ ReadInit
  /\ private \in BOOLEAN
  /\ call = Nil
  /\ tries = 0
  /\ slot = Nil
  /\ reply = Nil
  /\ outcome = Nil
  /\ attempts = {}
  /\ effect = FALSE
  /\ changed = FALSE
  /\ lost = FALSE
  /\ served = {}

ClientStep ==
  \/ BeginCall
  \/ Send
  \/ Break
  \/ callTopicAPI

ClientNext == (ClientStep \/ ServiceStep \/ wipeDatabase) /\ ObserveCall

(* Store calls return, and the HTTP client sends, retries and gives up.    *)
(* Nothing is assumed of connections: that one breaks, or times out, is    *)
(* never needed for a call to end.                                         *)
ClientFairness ==
  /\ \A q \in Requests : WF_vars(StoreCall(q) /\ PutStep(q) /\ UNCHANGED window)
  /\ \A r \in Readers : WF_slotVars(ReadCall(r) /\ GetStep(r))
  /\ WF_callVars(Send \/ callTopicAPI)

ClientSpec == ClientInit /\ [][ClientNext]_clientVars

FairClientSpec == ClientSpec /\ ClientFairness

-----------------------------------------------------------------------------
(* Properties.                                                             *)

Outcome ==
  [ err : BOOLEAN, code : {0, 401, 405} \cup Statuses,
    body : Seq(Item \cup [lang : Languages]) ]

(* A call waits for one thing at a time: for the slot that handles its     *)
(* request, which is busy with it, or for the HTTP client to look at what  *)
(* came back; it never waits for a slot that has already answered.         *)
ClientTypeOK ==
  /\ private \in BOOLEAN
  /\ tries \in 0..MaxAttempts
  /\ slot \in Requests \cup Readers \cup {Nil}
  /\ outcome \in Outcome \cup {Nil}
  /\ slot # Nil => reply = Nil /\ ~Free
  /\ Free => reply = Nil /\ tries = 0
  /\ slot \in Requests => ~Idle(slot) /\ req[slot] = call.arg
  /\ slot \in Readers => ~ReaderIdle(slot) /\ rreq[slot].id = call.arg

PutReturns == outcome' # Nil /\ ~Free /\ call.fn \in DOMAIN Puts

(* A PUT call that returns no error has taken effect, by one of its        *)
(* attempts, and so has one whose error has the code 200: there it was     *)
(* only the body of the answer that could not be read.  An update that     *)
(* publishes has taken effect when its write-back has made the topic live; *)
(* AcknowledgedIsApplied says with which contents.                         *)
ReportedIsApplied ==
  [][ PutReturns /\ (~outcome'.err \/ outcome'.code = 200) => effect ]_clientVars

(* A PUT call whose request was sent once and that returns an error of the *)
(* caller has changed nothing, but for one case: topics were wiped during  *)
(* the call, and the code is 404.  Then the draft may have been updated    *)
(* before, or the topic inserted again after, by UpsertTopic, which then   *)
(* reports that it did not find it.  After the code 500, or more than one  *)
(* attempt, the caller cannot know.                                        *)
RefusalsChangeNothing ==
  [][ PutReturns /\ tries = 1 /\ outcome'.code \in 400..499 =>
        ~changed \/ (outcome'.code = 404 /\ lost) ]_clientVars

Empty(item) == item.doc = [current |-> Nil, next |-> Nil]

(* What a GET call returns without an error was stored at some moment of   *)
(* the call, a public function returning live versions only.  A topic      *)
(* without contents is one that was not live, or comes from an instance    *)
(* of the other kind.                                                      *)
ReturnedWasServed ==
  [][ outcome' # Nil /\ ~Free /\ call.fn \in Gets =>
        \A i \in DOMAIN outcome'.body :
          LET item == outcome'.body[i]
          IN  \/ item \in served
              \/ Empty(item) /\ private # (call.fn \in PrivateGets) ]_clientVars

(* Every call returns.                                                     *)
CallsEnd == ~Free ~> Free

=============================================================================
