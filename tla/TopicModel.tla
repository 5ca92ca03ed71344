----------------------------- MODULE TopicModel -----------------------------
(***************************************************************************)
(* The topic document of dp-topic-api, the requests that change it, and    *)
(* the pure functions the service applies to both: validation, the state   *)
(* table, the update documents sent to MongoDB, and the mapping of errors  *)
(* to HTTP statuses.  Everything here is constant level.                   *)
(*                                                                         *)
(* In this and the other modules an operator whose comment begins with     *)
(* "Wrong:" is used by no specification.  It is the operator after it with *)
(* a plausible bug, and PROJECT.json names the property that finds the bug *)
(* when it takes that operator's place.                                    *)
(***************************************************************************)
EXTENDS ApiErrors, Naturals, Sequences

CONSTANTS
  Ids,            \* topic ids that requests may name
  TopicRoot,      \* the id "topic_root" of the document that lists the top level
  Details,        \* values of title, description and keywords, taken together
  Dates,          \* release dates in RFC3339 form
  Slugs,          \* slugs
  SentSlugs,      \* slugs in request bodies; Blank is none
  SubtopicLists,  \* lists of subtopic ids in request bodies; <<>> is none or empty
  Blank,          \* a request field that is missing or empty
  Malformed,      \* a request field that is present and does not parse
  Nil             \* a nil pointer, an absent document or an absent value

-----------------------------------------------------------------------------
(* models/state.go: the states and the table of transitions between them.  *)

StatePublished == "published"
StateCreated   == "created"

stateTransitionTable ==
  [ created   |-> {"completed"},
    published |-> {"created"},
    completed |-> {"published"} ]

States == DOMAIN stateTransitionTable

TransitionAllowed(from, to) ==
  from \in States /\ to \in stateTransitionTable[from]

-----------------------------------------------------------------------------
(* models/topic.go: one subdocument ("current" or "next") and the topic    *)
(* document holding both.  A document always has a next subdocument;       *)
(* current is absent until the topic is first published.  The list of      *)
(* subtopic ids is absent (Nil) or an array, which may be empty.           *)

Version ==
  [ state         : States,
    release       : Dates \cup {Nil},
    details       : Details,
    slug          : Slugs,
    subtopics     : Seq(Ids) \cup {Nil},
    subtopicsLink : BOOLEAN ]

TopicDoc == [current : Version \cup {Nil}, next : Version]

(* The body of PUT /topics/{id} once decoded.                              *)
TopicUpdate ==
  [ state     : States \cup {Blank, Malformed},
    release   : Dates \cup {Blank, Malformed},
    details   : Details \cup {Blank},
    slug      : SentSlugs,
    subtopics : SubtopicLists ]

ASSUME ModelAssumption ==
  /\ TopicRoot \notin {Nil, Blank, Malformed}
  /\ Nil \notin Version \cup TopicDoc \cup Dates \cup Ids \cup Seq(Ids)
  /\ {Blank, Malformed} \cap (States \cup Dates \cup Details) = {}
  /\ Blank # Malformed
  /\ SentSlugs \subseteq Slugs \cup {Blank}
  /\ SubtopicLists \subseteq Seq(Ids)
  /\ <<>> \in SubtopicLists

-----------------------------------------------------------------------------
(* Decoding and validation of request bodies.  NoError stands for err=nil. *)

NoError == "NoError"

(* What ReadReleaseDate and ReadTopicUpdate report for a body they cannot  *)
(* decode: io.EOF on an empty body, any other decoding error otherwise.    *)
ReadErrors == {"ErrEmptyRequestBody", "ErrUnableToReadMessage"}

ParseState(name) ==
  IF name \in States THEN NoError ELSE "ErrTopicInvalidState"

ValidateRelease(date) ==
  IF date \in Dates THEN NoError ELSE "ErrInvalidReleaseDate"

(* Wrong: the state of an update is not parsed.                            *)
ValidateUpdateAnyState(u) ==
  IF Blank \in {u.state, u.details, u.release}
  THEN "ErrTopicMissingFields"
  ELSE ValidateRelease(u.release)

(* The slug of an update is not looked at: it may be missing.              *)
ValidateUpdate(u) ==
  IF Blank \in {u.state, u.details, u.release}
  THEN "ErrTopicMissingFields"
  ELSE IF ParseState(u.state) # NoError
  THEN ParseState(u.state)
  ELSE ValidateRelease(u.release)

(* Bodies that pass validation.                                            *)
ValidUpdate == {u \in TopicUpdate : ValidateUpdate(u) = NoError}

-----------------------------------------------------------------------------
(* net/http keeps the first status written to a response.                  *)
WriteHeader(status, code) == IF status = Nil THEN code ELSE status

-----------------------------------------------------------------------------
(* mongo/topic_store.go: what each update does to the matched document.    *)
(* next.last_updated is bumped by all of them and is never served, so it   *)
(* is left out.                                                            *)

(* Wrong: the date is set in the current subdocument too.                  *)
setReleaseDateInBoth(doc, date) ==
  [ current |-> IF doc.current = Nil THEN Nil
                ELSE [doc.current EXCEPT !.release = date],
    next    |-> [doc.next EXCEPT !.release = date] ]

setReleaseDate(doc, date) == [doc EXCEPT !.next.release = date]

(* Wrong: a topic whose state is set loses its release date.               *)
setStateUnscheduled(doc, state) ==
  [doc EXCEPT !.next = [@ EXCEPT !.state = state, !.release = Nil]]

setState(doc, state) == [doc EXCEPT !.next.state = state]

(* The list that an update leaves in the document: an empty one is unset.  *)
Optional(list) == IF list = <<>> THEN Nil ELSE list

(* Wrong: the link stays when the list is removed.                         *)
createTopicUpdateQueryKeepingLink(doc, u) ==
  [doc EXCEPT !.next = [@ EXCEPT !.details       = u.details,
                                 !.release       = u.release,
                                 !.state         = u.state,
                                 !.subtopics     = Optional(u.subtopics),
                                 !.subtopicsLink = @ \/ u.subtopics # <<>>]]

(* Wrong: the release date of the update is dropped.                       *)
createTopicUpdateQueryNoRelease(doc, u) ==
  [doc EXCEPT !.next = [@ EXCEPT !.details       = u.details,
                                 !.state         = u.state,
                                 !.subtopics     = Optional(u.subtopics),
                                 !.subtopicsLink = u.subtopics # <<>>]]

(* The optional list and its link are set together or unset together.  The *)
(* query does not set the slug: the one that was sent is dropped.          *)
createTopicUpdateQuery(doc, u) ==
  [doc EXCEPT !.next = [@ EXCEPT !.details       = u.details,
                                 !.release       = u.release,
                                 !.state         = u.state,
                                 !.subtopics     = Optional(u.subtopics),
                                 !.subtopicsLink = u.subtopics # <<>>]]

(* api/topic_private.go: what publishTopic does to its local copy.         *)
AsPublished(v) == [v EXCEPT !.state = StatePublished]

syncNextAndCurrentTopic(topic) == [current |-> topic.next, next |-> topic.next]

(* Wrong: the next subdocument is copied with the state it had.            *)
publishedCopyAsIs(topic) == syncNextAndCurrentTopic(topic)

(* Wrong: the next subdocument is left out of the publication.             *)
publishedCopyOfCurrent(topic) == [topic EXCEPT !.current = AsPublished(topic.next)]

(* Wrong: what is published loses its release date.                        *)
publishedCopyUndated(topic) ==
  syncNextAndCurrentTopic([topic EXCEPT !.next = [AsPublished(@) EXCEPT !.release = Nil]])

publishedCopy(topic) ==
  syncNextAndCurrentTopic([topic EXCEPT !.next = AsPublished(@)])

=============================================================================
