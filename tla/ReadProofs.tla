----------------------------- MODULE ReadProofs -----------------------------
(***************************************************************************)
(* Lemmas about ReadAPI, which the proofs about its two compositions share: *)
(* whatever the documents, a step keeps the slots of the readers well      *)
(* typed.                                                                  *)
(***************************************************************************)
EXTENDS ReadAPI, PublishingProofs

(* The documents that readers read.                                        *)
LEMMA DocumentsRead ==
  ASSUME TopicsOK, NEW id \in Stored
  PROVE  id \in Ids /\ topics[id] \in TopicDoc /\ topics[id].next # Nil
BY ModelAssumption DEF TopicsOK, Stored, TopicDoc

-----------------------------------------------------------------------------
(* Type correctness of the readers, by the way in which a step ends.       *)

LEMMA ReadRecvType ==
  ASSUME ReadTypeOK, NEW r \in Readers, NEW request \in ReadRequest,
         ReadRecv(r, request)
  PROVE  ReadTypeOK'
BY AnswerAssumption DEF ReadTypeOK, ReadRecv, ReaderIdle, NoAnswer

LEMMA ReadAnswerType ==
  ASSUME ReadTypeOK, NEW r \in Readers, NEW status \in Statuses \cup {Aborted},
         NEW body \in Seq(Item), ReadAnswer(r, status, body)
  PROVE  ReadTypeOK'
<1>1. [status |-> status, body |-> body] \in Answer
  BY DEF Answer
<1> QED
  BY <1>1 DEF ReadTypeOK, ReadAnswer

LEMMA ReadErrorType ==
  ASSUME ReadTypeOK, NEW r \in Readers,
         NEW err \in {"ErrTopicNotFound", "ErrContentNotFound", "ErrNotFound",
                      "ErrInternalServer", "StoreError"},
         ReadError(r, err)
  PROVE  ReadTypeOK'
<1>1. handleError[err] \in Statuses /\ <<>> \in Seq(Item)
  BY ErrorStatus
<1> QED
  BY <1>1, ReadAnswerType DEF ReadError

LEMMA ReadNextType ==
  ASSUME ReadTypeOK, NEW r \in Readers, NEW ids \in Seq(Ids), ids # <<>>,
         ~ReaderIdle(r), ReadNext(r, ids)
  PROVE  ReadTypeOK'
BY DEF ReadTypeOK, ReadNext, ReaderIdle, NoAnswer

LEMMA NothingToListType ==
  ASSUME ReadTypeOK, NEW r \in Readers, NothingToList(r)
  PROVE  ReadTypeOK'
BY ReadErrorType DEF NothingToList

LEMMA TailOfLonger ==
  ASSUME NEW S, NEW s \in Seq(S), Len(s) > 1
  PROVE  /\ Head(s) \in S
         /\ Tail(s) \in Seq(S)
         /\ Tail(s) # <<>>
<1>1. s # <<>> /\ Len(s) \in Nat
  OBVIOUS
<1>2. Head(s) \in S /\ Tail(s) \in Seq(S) /\ Len(Tail(s)) = Len(s) - 1
  BY <1>1
<1>3. Len(Tail(s)) # 0
  BY <1>1, <1>2
<1> QED
  BY <1>2, <1>3

LEMMA ContinueType ==
  ASSUME ReadTypeOK, NEW r \in Readers, rpc[r] = "GetSubtopic",
         NEW collected \in Seq(Item), Continue(r, collected)
  PROVE  ReadTypeOK'
<1>1. CASE More(r)
  <2>1. Tail(rest[r]) \in Seq(Ids) /\ Tail(rest[r]) # <<>>
    BY <1>1, TailOfLonger DEF More, ReadTypeOK
  <2> QED
    BY <1>1, <2>1 DEF Continue, ReadTypeOK, NoAnswer
<1>2. CASE ~More(r) /\ collected = <<>>
  BY <1>2, NothingToListType DEF Continue
<1>3. CASE ~More(r) /\ collected # <<>>
  BY <1>3, ReadAnswerType DEF Continue, Statuses
<1> QED
  BY <1>1, <1>2, <1>3

(* A document yields an item, and a version that can be listed.            *)
LEMMA ItemType ==
  ASSUME NEW request, NEW id \in Ids, NEW doc \in TopicDoc
  PROVE  /\ TheItem(request, id, doc) \in Item
         /\ Listing(request, doc) \in Version \cup {Nil}
BY DEF TheItem, Visible, Item, TopicDoc, Listing

LEMMA ReadTopicType ==
  ASSUME TopicsOK, ReadTypeOK, NEW r \in Readers, ReadTopic(r)
  PROVE  ReadTypeOK'
<1> DEFINE id  == rreq[r].id
           doc == topics[id]
<1>1. CASE ReadError(r, "StoreError") \/ ReadError(r, "ErrTopicNotFound")
  BY <1>1, ReadErrorType
<1>2. CASE id \in Stored /\ ServeTopic(r, doc)
  <2>1. TheItem(rreq[r], id, doc) \in Item
    BY <1>2, DocumentsRead, ItemType
  <2>2. <<TheItem(rreq[r], id, doc)>> \in Seq(Item)
    BY <2>1
  <2> QED
    BY <1>2, <2>2, ReadAnswerType DEF ServeTopic, Statuses
<1>3. CASE id \in Stored /\ ListSubtopics(r, Listing(rreq[r], doc))
  <2> DEFINE listing == Listing(rreq[r], doc)
  <2>1. listing \in Version \cup {Nil}
    BY <1>3, DocumentsRead, ItemType
  <2>2. CASE listing = Nil
    BY <1>3, <2>2, NothingToListType DEF ListSubtopics
  <2>3. CASE listing # Nil /\ listing.subtopics \in {Nil, <<>>}
    BY <1>3, <2>3, ReadErrorType DEF ListSubtopics
  <2>4. CASE listing # Nil /\ listing.subtopics \notin {Nil, <<>>}
    <3>1. listing.subtopics \in Seq(Ids) /\ listing.subtopics # <<>>
      BY <2>1, <2>4 DEF Version
    <3>2. ReadNext(r, listing.subtopics) /\ ~ReaderIdle(r)
      BY <1>3, <2>4 DEF ListSubtopics, ReadTopic, ReaderIdle
    <3> QED
      BY <3>1, <3>2, ReadNextType
  <2> QED
    BY <2>2, <2>3, <2>4
<1> QED
  BY <1>1, <1>2, <1>3 DEF ReadTopic

LEMMA ReadSubtopicType ==
  ASSUME TopicsOK, ReadTypeOK, NEW r \in Readers, ReadSubtopic(r)
  PROVE  ReadTypeOK'
<1> DEFINE id   == Head(rest[r])
           item == TheItem(rreq[r], id, topics[id])
<1>1. rpc[r] = "GetSubtopic" /\ items[r] \in Seq(Item)
  BY DEF ReadSubtopic, ReadTypeOK
<1>2. CASE Skip(r)
  BY <1>1, <1>2, ContinueType DEF Skip
<1>3. CASE ReadAnswer(r, Aborted, <<>>)
  <2>1. <<>> \in Seq(Item)
    OBVIOUS
  <2> QED
    BY <1>3, <2>1, ReadAnswerType
<1>4. CASE id \in Stored /\ Continue(r, Append(items[r], item))
  <2>1. item \in Item
    BY <1>4, DocumentsRead, ItemType
  <2>2. Append(items[r], item) \in Seq(Item)
    BY <1>1, <2>1
  <2> QED
    BY <1>1, <1>4, <2>2, ContinueType
<1> QED
  BY <1>2, <1>3, <1>4 DEF ReadSubtopic

(* A request arrives as one that is read, or is answered at once.          *)
LEMMA PublicArrives ==
  ASSUME NEW r \in Readers,
         \/ getTopicPublicHandler(r)
         \/ getSubtopicsPublicHandler(r)
         \/ getRootTopicsPublicHandler(r)
  PROVE  \/ ReadError(r, "ErrTopicNotFound")
         \/ \E request \in ReadRequest : ReadRecv(r, request) /\ request.private = FALSE
<1>1. ASSUME NEW list \in BOOLEAN, PublicRead(r, list)
      PROVE  \/ ReadError(r, "ErrTopicNotFound")
             \/ \E request \in ReadRequest :
                  ReadRecv(r, request) /\ request.private = FALSE
  <2>1. PICK id \in Ids \cup {TopicRoot} :
          \/ ReadError(r, "ErrTopicNotFound")
          \/ ReadRecv(r, [list |-> list, private |-> FALSE, id |-> id])
    BY <1>1 DEF PublicRead
  <2>2. [list |-> list, private |-> FALSE, id |-> id] \in ReadRequest
    BY DEF ReadRequest
  <2> QED
    BY <2>1, <2>2
<1>2. [list |-> TRUE, private |-> FALSE, id |-> TopicRoot] \in ReadRequest
  BY DEF ReadRequest
<1> QED
  BY <1>1, <1>2 DEF getTopicPublicHandler, getSubtopicsPublicHandler,
                    getRootTopicsPublicHandler

LEMMA PrivateArrives ==
  ASSUME NEW r \in Readers,
         \/ getTopicPrivateHandler(r)
         \/ getSubtopicsPrivateHandler(r)
         \/ getRootTopicsPrivateHandler(r)
  PROVE  \E request \in ReadRequest : ReadRecv(r, request) /\ request.private = TRUE
<1>1. ASSUME NEW list \in BOOLEAN, PrivateRead(r, list)
      PROVE  \E request \in ReadRequest :
               ReadRecv(r, request) /\ request.private = TRUE
  <2>1. PICK id \in Ids \cup {TopicRoot} :
          ReadRecv(r, [list |-> list, private |-> TRUE, id |-> id])
    BY <1>1 DEF PrivateRead
  <2>2. [list |-> list, private |-> TRUE, id |-> id] \in ReadRequest
    BY DEF ReadRequest
  <2> QED
    BY <2>1, <2>2
<1>2. [list |-> TRUE, private |-> TRUE, id |-> TopicRoot] \in ReadRequest
  BY DEF ReadRequest
<1> QED
  BY <1>1, <1>2 DEF getTopicPrivateHandler, getSubtopicsPrivateHandler,
                    getRootTopicsPrivateHandler

LEMMA ReadArrives ==
  ASSUME NEW r \in Readers, ReadArrive(r)
  PROVE  \/ ReadError(r, "ErrTopicNotFound")
         \/ \E request \in ReadRequest :
              /\ ReadRecv(r, request)
              /\ request.private <=> r \in PrivateReaders
BY PublicArrives, PrivateArrives DEF ReadArrive

LEMMA ReadStepType ==
  ASSUME TopicsOK, ReadTypeOK, ReadStep
  PROVE  ReadTypeOK'
<1>1. PICK r \in Readers : ReadArrive(r) \/ ReadCall(r) \/ ReadAbandon(r)
  BY DEF ReadStep
<1>2. CASE ReadArrive(r)
  BY <1>2, ReadArrives, ReadRecvType, ReadErrorType
<1>3. CASE ReadCall(r)
  BY <1>3, ReadTopicType, ReadSubtopicType DEF ReadCall
<1>4. CASE ReadAbandon(r)
  BY <1>4 DEF ReadAbandon, NoAnswer, ReadTypeOK
<1> QED
  BY <1>1, <1>2, <1>3, <1>4

-----------------------------------------------------------------------------
(* Facts about sequences and statuses, and about the slots that a step     *)
(* leaves alone.                                                           *)

ElementsOf(l) == {l[i] : i \in DOMAIN l}

LEMMA AppendElements ==
  ASSUME NEW S, NEW s \in Seq(S), NEW x \in S
  PROVE  ElementsOf(Append(s, x)) \subseteq ElementsOf(s) \cup {x}
BY DEF ElementsOf

LEMMA TailElements ==
  ASSUME NEW S, NEW s \in Seq(S), s # <<>>
  PROVE  /\ Head(s) \in ElementsOf(s)
         /\ ElementsOf(Tail(s)) \subseteq ElementsOf(s)
<1>1. 1 \in DOMAIN s /\ Head(s) = s[1]
  OBVIOUS
<1>2. ASSUME NEW i \in DOMAIN Tail(s) PROVE i + 1 \in DOMAIN s /\ Tail(s)[i] = s[i + 1]
  OBVIOUS
<1> QED
  BY <1>1, <1>2 DEF ElementsOf

LEMMA StatusAnswered ==
  /\ \A err \in {"ErrTopicNotFound", "ErrContentNotFound", "ErrNotFound",
                 "ErrInternalServer", "StoreError"} : handleError[err] # Aborted
  /\ 200 # Aborted
BY DEF handleError, Aborted

(* A step does nothing to the request of r.                                *)
ReadKept(r) ==
  /\ rpc'[r] = rpc[r] /\ rreq'[r] = rreq[r]
  /\ rest'[r] = rest[r] /\ items'[r] = items[r]
  /\ answer'[r] = Nil

(* A step for one reader leaves the others alone.                          *)
LEMMA OthersKept ==
  ASSUME ReadTypeOK, NEW r \in Readers, NEW x \in Readers, x # r,
         ReadArrive(r) \/ ReadCall(r) \/ ReadAbandon(r)
  PROVE  ReadKept(x)
<1>1. ASSUME NEW request, ReadRecv(r, request) PROVE ReadKept(x)
  BY <1>1 DEF ReadTypeOK, ReadRecv, NoAnswer, ReadKept
<1>2. ASSUME NEW status, NEW body, ReadAnswer(r, status, body) PROVE ReadKept(x)
  BY <1>2 DEF ReadTypeOK, ReadAnswer, ReadKept
<1>3. ASSUME NEW err, ReadError(r, err) PROVE ReadKept(x)
  BY <1>2, <1>3 DEF ReadError
<1>4. ASSUME NEW ids, ReadNext(r, ids) PROVE ReadKept(x)
  BY <1>4 DEF ReadTypeOK, ReadNext, NoAnswer, ReadKept
<1>5. ASSUME NEW collected, Continue(r, collected) PROVE ReadKept(x)
  <2>1. CASE More(r)
    BY <1>5, <2>1 DEF Continue, ReadTypeOK, NoAnswer, ReadKept
  <2>2. CASE ~More(r)
    BY <1>2, <1>3, <1>5, <2>2 DEF Continue, NothingToList
  <2> QED
    BY <2>1, <2>2
<1>6. CASE ReadArrive(r)
  BY <1>1, <1>3, <1>6, ReadArrives
<1>7. ASSUME NEW listing, ListSubtopics(r, listing) PROVE ReadKept(x)
  BY <1>3, <1>4, <1>7 DEF ListSubtopics, NothingToList
<1>8. CASE ReadTopic(r)
  BY <1>2, <1>3, <1>7, <1>8 DEF ReadTopic, ServeTopic
<1>9. CASE ReadSubtopic(r)
  BY <1>2, <1>5, <1>9 DEF ReadSubtopic, Skip
<1>10. CASE ReadAbandon(r)
  BY <1>10 DEF ReadAbandon, NoAnswer, ReadTypeOK, ReadKept
<1> QED
  BY <1>6, <1>8, <1>9, <1>10 DEF ReadCall

=============================================================================
