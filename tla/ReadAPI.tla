------------------------------ MODULE ReadAPI ------------------------------
(***************************************************************************)
(* The GET endpoints of topics and subtopics, public (web) and private     *)
(* (publishing).  A list of subtopics is put together from one read of the *)
(* parent and one read of each listed topic; the documents may change      *)
(* between the reads.                                                      *)
(***************************************************************************)
EXTENDS TopicStore, FiniteSets

CONSTANTS
  Readers,        \* slots for GET requests, reused like those of PUT requests
  PrivateReaders, \* the slots of instances that run with private endpoints
  ReadFailures    \* TRUE: a read of the store may fail

ASSUME ReadAssumption == PrivateReaders \subseteq Readers /\ ReadFailures \in BOOLEAN

VARIABLES
  rpc,     \* rpc[r]: the read that r makes next, "idle" if none
  rreq,    \* rreq[r]: the request, Nil when idle
  rest,    \* rest[r]: the subtopic ids still to be read
  items,   \* items[r]: the documents collected so far, each with its id
  answer   \* answer[r]: what the last step answered to r, Nil if it did not

slotVars == <<rpc, rreq, rest, items>>

readVars == <<slotVars, answer>>

(* A panic in a handler is recovered by net/http, which closes the         *)
(* connection before any status is written.                                *)
Aborted == 0

ReadRequest == [list : BOOLEAN, private : BOOLEAN, id : Ids \cup {TopicRoot}]

Item == [id : Ids, doc : [current : Version \cup {Nil}, next : Version \cup {Nil}]]

Answer == [status : Statuses \cup {Aborted}, body : Seq(Item)]

ASSUME AnswerAssumption == Nil \notin ReadRequest \cup Answer

ReaderIdle(r) == rpc[r] = "idle"

ReadInit ==
  /\ rpc = [r \in Readers |-> "idle"]
  /\ rreq = [r \in Readers |-> Nil]
  /\ rest = [r \in Readers |-> <<>>]
  /\ items = [r \in Readers |-> <<>>]
  /\ answer = [r \in Readers |-> Nil]

NoAnswer == answer' = [r \in Readers |-> Nil]

ReadRecv(r, request) ==
  /\ ReaderIdle(r)
  /\ rpc' = [rpc EXCEPT ![r] = "GetTopic"]
  /\ rreq' = [rreq EXCEPT ![r] = request]
  /\ NoAnswer
  /\ UNCHANGED <<rest, items>>

ReadAnswer(r, status, body) ==
  /\ rpc' = [rpc EXCEPT ![r] = "idle"]
  /\ rreq' = [rreq EXCEPT ![r] = Nil]
  /\ rest' = [rest EXCEPT ![r] = <<>>]
  /\ items' = [items EXCEPT ![r] = <<>>]
  /\ answer' = [x \in Readers |-> IF x # r THEN Nil
                                  ELSE [status |-> status, body |-> body]]

ReadError(r, err) == ReadAnswer(r, handleError[err], <<>>)

-----------------------------------------------------------------------------
(* api/topic_public.go and api/topic_private.go: the handlers up to the    *)
(* first read.  The public ones do not serve the root topic by its id.     *)

PublicRead(r, list) ==
  \E id \in Ids \cup {TopicRoot} :
    LET request == [list |-> list, private |-> FALSE, id |-> id]
    IN  IF id = TopicRoot
        THEN ReaderIdle(r) /\ ReadError(r, "ErrTopicNotFound")
        ELSE ReadRecv(r, request)

PrivateRead(r, list) ==
  \E id \in Ids \cup {TopicRoot} :
    ReadRecv(r, [list |-> list, private |-> TRUE, id |-> id])

getTopicPublicHandler(r)      == PublicRead(r, FALSE)
getSubtopicsPublicHandler(r)  == PublicRead(r, TRUE)
getTopicPrivateHandler(r)     == PrivateRead(r, FALSE)
getSubtopicsPrivateHandler(r) == PrivateRead(r, TRUE)

getRootTopicsPublicHandler(r) ==
  ReadRecv(r, [list |-> TRUE, private |-> FALSE, id |-> TopicRoot])

getRootTopicsPrivateHandler(r) ==
  ReadRecv(r, [list |-> TRUE, private |-> TRUE, id |-> TopicRoot])

-----------------------------------------------------------------------------
(* Wrong: the whole document is served to everyone.                        *)
VisibleToAll(request, doc) == doc

(* The reads.  What a caller sees of a document: a private one both        *)
(* subdocuments, a public one the current, which is Nil before the topic   *)
(* is first published.                                                     *)

Visible(request, doc) ==
  IF request.private THEN doc ELSE [current |-> doc.current, next |-> Nil]

(* The subdocument that lists the subtopics of the topic.                  *)
Listing(request, doc) == IF request.private THEN doc.next ELSE doc.current

TheItem(request, id, doc) == [id |-> id, doc |-> Visible(request, doc)]

ServeTopic(r, doc) ==
  ReadAnswer(r, 200, <<TheItem(rreq[r], rreq[r].id, doc)>>)

ReadNext(r, ids) ==
  /\ rpc' = [rpc EXCEPT ![r] = "GetSubtopic"]
  /\ rest' = [rest EXCEPT ![r] = ids]
  /\ NoAnswer
  /\ UNCHANGED <<rreq, items>>

(* The handlers' answer when there is nothing to make a list from.         *)
NothingToList(r) ==
  ReadError(r, IF rreq[r].private THEN "ErrInternalServer" ELSE "ErrContentNotFound")

(* Wrong: only an empty list is noticed, one that is absent is followed.   *)
ListSubtopicsUnchecked(r, listing) ==
  IF listing = Nil THEN NothingToList(r)
  ELSE IF listing.subtopics = <<>> THEN ReadError(r, "ErrNotFound")
  ELSE ReadNext(r, listing.subtopics)

ListSubtopics(r, listing) ==
  IF listing = Nil THEN NothingToList(r)
  ELSE IF listing.subtopics \in {Nil, <<>>} THEN ReadError(r, "ErrNotFound")
  ELSE ReadNext(r, listing.subtopics)

(* GetTopic for the id of the request: of the topic asked for, or of the   *)
(* parent whose subtopics are listed.                                      *)
ReadTopic(r) ==
  LET id    == rreq[r].id
      known == id \in Stored
  IN
  /\ rpc[r] = "GetTopic"
  /\ \/ ReadFailures /\ ReadError(r, "StoreError")
     \/ ~known /\ ReadError(r, "ErrTopicNotFound")
     \/ known /\ ~rreq[r].list /\ ServeTopic(r, topics[id])
     \/ known /\ rreq[r].list /\ ListSubtopics(r, Listing(rreq[r], topics[id]))

More(r) == Len(rest[r]) > 1

(* The end of the loop over the subtopic ids with the items collected:     *)
(* one more read, or the answer.                                           *)
Continue(r, collected) ==
  IF More(r)
  THEN /\ rest' = [rest EXCEPT ![r] = Tail(@)]
       /\ items' = [items EXCEPT ![r] = collected]
       /\ NoAnswer
       /\ UNCHANGED <<rpc, rreq>>
  ELSE IF collected = <<>>
  THEN NothingToList(r)
  ELSE ReadAnswer(r, 200, collected)

(* Wrong: the list ends at the first subtopic that cannot be read.         *)
SkipRest(r) == ReadAnswer(r, 200, items[r])

(* Wrong: a subtopic that cannot be read starts the list again.            *)
SkipBack(r) ==
  /\ rpc' = [rpc EXCEPT ![r] = "GetTopic"]
  /\ rest' = [rest EXCEPT ![r] = <<>>]
  /\ items' = [items EXCEPT ![r] = <<>>]
  /\ NoAnswer
  /\ UNCHANGED rreq

Skip(r) == Continue(r, items[r])

(* Wrong: the private handler dereferences the current subdocument too.    *)
PanicsForAll(request, doc) == doc.current = Nil

(* The public handler dereferences the current subdocument of each topic   *)
(* it lists; the private one passes on what it has read.                   *)
Panics(request, doc) == ~request.private /\ doc.current = Nil

(* GetTopic for the next listed id.  Any error of the read is taken for a  *)
(* missing subtopic, which is left out.                                    *)
ReadSubtopic(r) ==
  LET request == rreq[r]
      id      == Head(rest[r])
      known   == id \in Stored
  IN
  /\ rpc[r] = "GetSubtopic"
  /\ \/ (ReadFailures \/ ~known) /\ Skip(r)
     \/ /\ known /\ Panics(request, topics[id])
        /\ ReadAnswer(r, Aborted, <<>>)
     \/ /\ known /\ ~Panics(request, topics[id])
        /\ Continue(r, Append(items[r], TheItem(request, id, topics[id])))

-----------------------------------------------------------------------------

(* api/api.go, Setup: an instance registers the public or the private      *)
(* endpoints, never both.                                                  *)
ReadArrive(r) ==
  \/ /\ r \notin PrivateReaders
     /\ \/ getTopicPublicHandler(r)
        \/ getSubtopicsPublicHandler(r)
        \/ getRootTopicsPublicHandler(r)
  \/ /\ r \in PrivateReaders
     /\ \/ getTopicPrivateHandler(r)
        \/ getSubtopicsPrivateHandler(r)
        \/ getRootTopicsPrivateHandler(r)

ReadCall(r) == ReadTopic(r) \/ ReadSubtopic(r)

(* An instance of the service is killed with the request in progress.      *)
ReadAbandon(r) ==
  /\ ~ReaderIdle(r)
  /\ rpc' = [rpc EXCEPT ![r] = "idle"]
  /\ rreq' = [rreq EXCEPT ![r] = Nil]
  /\ rest' = [rest EXCEPT ![r] = <<>>]
  /\ items' = [items EXCEPT ![r] = <<>>]
  /\ NoAnswer

ReadStep ==
  /\ \E r \in Readers : ReadArrive(r) \/ ReadCall(r) \/ ReadAbandon(r)
  /\ UNCHANGED topics

-----------------------------------------------------------------------------
(* Properties.                                                             *)

(* What a slot holds fits the request in it: a single topic needs no list, *)
(* and the topics collected and still to be read are those of one listing. *)
ReadTypeOK ==
  /\ rpc \in [Readers -> {"idle", "GetTopic", "GetSubtopic"}]
  /\ rreq \in [Readers -> ReadRequest \cup {Nil}]
  /\ rest \in [Readers -> Seq(Ids)]
  /\ items \in [Readers -> Seq(Item)]
  /\ answer \in [Readers -> Answer \cup {Nil}]
  /\ \A r \in Readers :
       /\ rpc[r] = "idle" <=> rreq[r] = Nil
       /\ rpc[r] = "GetSubtopic" <=> rest[r] # <<>>
       /\ items[r] # <<>> => rpc[r] = "GetSubtopic"

=============================================================================
