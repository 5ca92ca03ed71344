---------------------------- MODULE SystemProofs ----------------------------
(***************************************************************************)
(* Theorems about TopicSystem, for every set of topics, of slots and of    *)
(* field values, with any number of editors and readers, and whether or    *)
(* not reads of the store fail.                                            *)
(***************************************************************************)
EXTENDS TopicSystem, ReadProofs

-----------------------------------------------------------------------------
(* A reader changes nothing that the invariant of the editors is about.    *)
LEMMA EditorsStep == SafetyInv /\ [SystemNext]_systemVars => SafetyInv'
<1> SUFFICES ASSUME SafetyInv, [SystemNext]_systemVars PROVE SafetyInv'
  OBVIOUS
<1>1. CASE Next
  BY <1>1, SafetyStep
<1>2. CASE ReadStep /\ UNCHANGED publishingVars
  <2>1. UNCHANGED vars
    BY <1>2 DEF ReadStep, publishingVars, vars
  <2> QED
    BY <2>1, SafetyStep
<1>3. CASE UNCHANGED systemVars
  <2>1. UNCHANGED vars
    BY <1>3 DEF systemVars, publishingVars, vars
  <2> QED
    BY <2>1, SafetyStep
<1> QED
  BY <1>1, <1>2, <1>3 DEF SystemNext

LEMMA SafetyTopics ==
  ASSUME SafetyInv
  PROVE  TopicsOK
BY DEF SafetyInv, TypeOK, TopicsOK

LEMMA ReadTypeStep ==
  ASSUME SafetyInv, ReadTypeOK, [SystemNext]_systemVars
  PROVE  ReadTypeOK'
<1>1. CASE ReadStep
  BY <1>1, SafetyTopics, ReadStepType
<1>2. CASE UNCHANGED slotVars /\ NoAnswer
  BY <1>2 DEF slotVars, NoAnswer, ReadTypeOK
<1>3. CASE UNCHANGED systemVars
  BY <1>3 DEF systemVars, readVars, slotVars, ReadTypeOK
<1> QED
  BY <1>1, <1>2, <1>3 DEF SystemNext

LEMMA SystemTypeInit == SystemInit => SafetyInv /\ ReadTypeOK
<1> SUFFICES ASSUME SystemInit PROVE SafetyInv /\ ReadTypeOK
  OBVIOUS
<1>1. SafetyInv
  BY SafetyInit DEF SystemInit
<1>2. ReadTypeOK
  BY DEF SystemInit, ReadInit, ReadTypeOK
<1> QED
  BY <1>1, <1>2

(* Editors keep all that they keep without readers, and every reader's     *)
(* slot holds what fits the request in it.                                 *)
THEOREM SystemSafety == SystemSpec => [](SafetyInv /\ ReadTypeOK)
<1>1. SafetyInv /\ ReadTypeOK /\ [SystemNext]_systemVars => (SafetyInv /\ ReadTypeOK)'
  BY EditorsStep, ReadTypeStep
<1> QED
  BY <1>1, SystemTypeInit, PTL DEF SystemSpec

(* The slots of GET requests are well typed, and hold lists only while a   *)
(* list is read.                                                           *)
THEOREM ReadsTypeCorrect == SystemSpec => []ReadTypeOK
BY SystemSafety, PTL

-----------------------------------------------------------------------------
(* What readers are served.  The invariant: the histories of a request     *)
(* hold what the topics it may read are like now, the ids still to be read *)
(* come from a listing in them, and so do the items collected.             *)

ListingsOf(request) ==
  IF topics[request.id] = Nil THEN {}
  ELSE {v.subtopics : v \in {MayList(request, topics[request.id])} \ {Nil}} \ {Nil}

Wanted(r) ==
  IF rreq[r].list THEN UNION {ElementsOf(l) : l \in listed[r]} ELSE {rreq[r].id}

SeesNow(r) ==
  /\ rreq[r].list => ListingsOf(rreq[r]) \subseteq listed[r]
  /\ \A id \in Wanted(r) \cap Stored : MaySee(rreq[r], id, topics[id]) \in seen[r]

ReaderOK(r) ==
  rreq[r] # Nil =>
    /\ rreq[r].private <=> r \in PrivateReaders
    /\ SeesNow(r)
    /\ ElementsOf(items[r]) \subseteq seen[r]
    /\ rpc[r] = "GetSubtopic" => /\ rreq[r].list
                                 /\ ElementsOf(rest[r]) \subseteq Wanted(r)

SystemInv ==
  /\ SafetyInv
  /\ ReadTypeOK
  /\ \A r \in Readers : ReaderOK(r)

(* What else a step may do to the request of r.                            *)
ReadBegun(r) ==
  /\ rreq'[r] \in ReadRequest
  /\ rreq'[r].private <=> r \in PrivateReaders
  /\ rpc'[r] = "GetTopic" /\ items'[r] = <<>>
  /\ answer'[r] = Nil

MayAbort(r) == r \notin PrivateReaders /\ rreq[r].list /\ NotLiveListed(r)

ReadEnded(r) ==
  /\ rreq'[r] = Nil
  /\ answer'[r] # Nil =>
       /\ ElementsOf(answer'[r].body) \subseteq seen[r]
       /\ answer'[r].status = Aborted => MayAbort(r)

ReadListed(r) ==
  /\ rreq[r] # Nil /\ rreq'[r] = rreq[r] /\ rreq[r].list
  /\ rpc'[r] = "GetSubtopic" /\ items'[r] = <<>>
  /\ rest'[r] \in listed[r]
  /\ answer'[r] = Nil

ReadWentOn(r) ==
  /\ rreq[r] # Nil /\ rreq'[r] = rreq[r] /\ rpc[r] = "GetSubtopic"
  /\ ElementsOf(rest'[r]) \subseteq ElementsOf(rest[r])
  /\ ElementsOf(items'[r]) \subseteq seen[r]
  /\ answer'[r] = Nil

ReadOutcome(r) ==
  ReadKept(r) \/ ReadBegun(r) \/ ReadEnded(r) \/ ReadListed(r) \/ ReadWentOn(r)

LEMMA AnswerEnds ==
  ASSUME ReadTypeOK, NEW r \in Readers, NEW status, NEW body,
         ReadAnswer(r, status, body), ElementsOf(body) \subseteq seen[r],
         status = Aborted => MayAbort(r)
  PROVE  ReadEnded(r)
<1>1. rreq'[r] = Nil
  BY DEF ReadTypeOK, ReadAnswer
<1>2. answer'[r] = [status |-> status, body |-> body]
  BY DEF ReadAnswer
<1> QED
  BY <1>1, <1>2 DEF ReadEnded

LEMMA ErrorEnds ==
  ASSUME ReadTypeOK, NEW r \in Readers,
         NEW err \in {"ErrTopicNotFound", "ErrContentNotFound", "ErrNotFound",
                      "ErrInternalServer", "StoreError"},
         ReadError(r, err)
  PROVE  ReadEnded(r)
<1>1. ElementsOf(<<>>) \subseteq seen[r]
  BY DEF ElementsOf
<1> QED
  BY <1>1, StatusAnswered, AnswerEnds DEF ReadError

(* What a request may read now is in its history as it is now.             *)
LEMMA ItemSeen ==
  ASSUME SafetyInv, NEW r \in Readers, SeesNow(r), NEW id \in Wanted(r) \cap Stored
  PROVE  TheItem(rreq[r], id, topics[id]) \in seen[r]
<1>1. topics[id] \in TopicDoc
  BY SafetyTopics, DocumentsRead
<1>2. TheItem(rreq[r], id, topics[id]) = MaySee(rreq[r], id, topics[id])
  BY <1>1 DEF TheItem, MaySee, Visible, TopicDoc
<1> QED
  BY <1>2 DEF SeesNow

LEMMA ListingSeen ==
  ASSUME SafetyInv, NEW r \in Readers, SeesNow(r), rreq[r].list, rreq[r].id \in Stored,
         NEW listing, listing = Listing(rreq[r], topics[rreq[r].id]), listing # Nil,
         listing.subtopics # Nil
  PROVE  listing.subtopics \in listed[r]
<1>1. listing = MayList(rreq[r], topics[rreq[r].id])
  BY DEF Listing, MayList
<1>2. listing.subtopics \in ListingsOf(rreq[r])
  BY <1>1 DEF ListingsOf, Stored
<1> QED
  BY <1>2 DEF SeesNow

LEMMA ContinueOutcome ==
  ASSUME SystemInv, NEW r \in Readers, rpc[r] = "GetSubtopic",
         NEW collected \in Seq(Item), ElementsOf(collected) \subseteq seen[r],
         Continue(r, collected)
  PROVE  ReadOutcome(r)
<1> USE DEF SystemInv
<1>1. CASE More(r)
  <2>1. rest[r] \in Seq(Ids) /\ rest[r] # <<>> /\ rreq[r] # Nil
    BY DEF ReadTypeOK
  <2>2. /\ rest'[r] = Tail(rest[r]) /\ items'[r] = collected
        /\ rreq'[r] = rreq[r] /\ answer'[r] = Nil
    BY <1>1 DEF Continue, ReadTypeOK, NoAnswer
  <2>3. ElementsOf(rest'[r]) \subseteq ElementsOf(rest[r])
    BY <2>1, <2>2, TailElements
  <2> QED
    BY <2>1, <2>2, <2>3 DEF ReadWentOn, ReadOutcome
<1>2. CASE ~More(r) /\ collected = <<>>
  BY <1>2, ErrorEnds DEF Continue, NothingToList, ReadOutcome
<1>3. CASE ~More(r) /\ collected # <<>>
  BY <1>3, AnswerEnds, StatusAnswered DEF Continue, ReadOutcome
<1> QED
  BY <1>1, <1>2, <1>3

LEMMA ReadTopicOutcome ==
  ASSUME SystemInv, NEW r \in Readers, ReadTopic(r)
  PROVE  ReadOutcome(r)
<1> USE DEF SystemInv
<1> DEFINE id      == rreq[r].id
           doc     == topics[id]
           listing == Listing(rreq[r], doc)
<1>0. /\ rreq[r] # Nil /\ items[r] = <<>> /\ SeesNow(r)
      /\ rpc[r] = "GetTopic"
  BY DEF ReadTopic, ReadTypeOK, ReaderOK
<1>1. CASE ReadError(r, "StoreError") \/ ReadError(r, "ErrTopicNotFound")
  BY <1>1, ErrorEnds DEF ReadOutcome
<1>2. CASE id \in Stored /\ ~rreq[r].list /\ ServeTopic(r, doc)
  <2>1. TheItem(rreq[r], id, doc) \in seen[r]
    BY <1>0, <1>2, ItemSeen DEF Wanted
  <2>2. ElementsOf(<<TheItem(rreq[r], id, doc)>>) \subseteq seen[r]
    BY <2>1 DEF ElementsOf
  <2> QED
    BY <1>2, <2>2, AnswerEnds, StatusAnswered DEF ServeTopic, ReadOutcome
<1>3. CASE id \in Stored /\ rreq[r].list /\ ListSubtopics(r, listing)
  <2>1. CASE listing = Nil
    BY <1>3, <2>1, ErrorEnds DEF ListSubtopics, NothingToList, ReadOutcome
  <2>2. CASE listing # Nil /\ listing.subtopics \in {Nil, <<>>}
    BY <1>3, <2>2, ErrorEnds DEF ListSubtopics, ReadOutcome
  <2>3. CASE listing # Nil /\ listing.subtopics \notin {Nil, <<>>}
    <3>1. ReadNext(r, listing.subtopics)
      BY <1>3, <2>3 DEF ListSubtopics
    <3>2. /\ rpc'[r] = "GetSubtopic" /\ rest'[r] = listing.subtopics
          /\ rreq'[r] = rreq[r] /\ items'[r] = items[r] /\ answer'[r] = Nil
      BY <3>1 DEF ReadNext, ReadTypeOK, NoAnswer
    <3>3. listing.subtopics \in listed[r]
      BY <1>0, <1>3, <2>3, ListingSeen
    <3> QED
      BY <1>0, <1>3, <3>2, <3>3 DEF ReadListed, ReadOutcome
  <2> QED
    BY <2>1, <2>2, <2>3
<1> QED
  BY <1>1, <1>2, <1>3 DEF ReadTopic

LEMMA ReadSubtopicOutcome ==
  ASSUME SystemInv, NEW r \in Readers, ReadSubtopic(r)
  PROVE  ReadOutcome(r)
<1> USE DEF SystemInv
<1> DEFINE id   == Head(rest[r])
           item == TheItem(rreq[r], id, topics[id])
<1>0. /\ rpc[r] = "GetSubtopic" /\ items[r] \in Seq(Item)
      /\ rest[r] \in Seq(Ids) /\ rest[r] # <<>>
      /\ rreq[r] # Nil
  BY DEF ReadSubtopic, ReadTypeOK
<1>1. /\ SeesNow(r) /\ ElementsOf(items[r]) \subseteq seen[r]
      /\ rreq[r].private <=> r \in PrivateReaders
      /\ id \in Wanted(r)
  BY <1>0, TailElements DEF ReaderOK
<1>2. CASE Skip(r)
  BY <1>0, <1>1, <1>2, ContinueOutcome DEF Skip
<1>3. CASE id \in Stored /\ Panics(rreq[r], topics[id])
           /\ ReadAnswer(r, Aborted, <<>>)
  <2>1. MayAbort(r)
    BY <1>0, <1>1, <1>3 DEF Panics, ReaderOK, Wanted, ElementsOf, MayAbort, NotLiveListed
  <2>2. ElementsOf(<<>>) \subseteq seen[r]
    BY DEF ElementsOf
  <2> QED
    BY <1>3, <2>1, <2>2, AnswerEnds DEF ReadOutcome
<1>4. CASE id \in Stored /\ Continue(r, Append(items[r], item))
  <2>1. item \in Item /\ item \in seen[r]
    BY <1>1, <1>4, SafetyTopics, DocumentsRead, ItemType, ItemSeen
  <2>2. /\ Append(items[r], item) \in Seq(Item)
        /\ ElementsOf(Append(items[r], item)) \subseteq seen[r]
    BY <1>0, <1>1, <2>1, AppendElements
  <2> QED
    BY <1>0, <1>4, <2>2, ContinueOutcome
<1> QED
  BY <1>2, <1>3, <1>4 DEF ReadSubtopic

LEMMA ReadArriveOutcome ==
  ASSUME SystemInv, NEW r \in Readers, ReadArrive(r)
  PROVE  ReadOutcome(r)
<1>1. CASE ReadError(r, "ErrTopicNotFound")
  BY <1>1, ErrorEnds DEF SystemInv, ReadOutcome
<1>2. ASSUME NEW request \in ReadRequest, ReadRecv(r, request),
             request.private <=> r \in PrivateReaders
      PROVE  ReadBegun(r)
  <2>1. rreq'[r] = request /\ rpc'[r] = "GetTopic" /\ items'[r] = items[r] /\ answer'[r] = Nil
    BY <1>2 DEF ReadRecv, SystemInv, ReadTypeOK, NoAnswer
  <2>2. items[r] = <<>>
    BY <1>2 DEF ReadRecv, ReaderIdle, SystemInv, ReadTypeOK
  <2> QED
    BY <1>2, <2>1, <2>2 DEF ReadBegun
<1> QED
  BY <1>1, <1>2, ReadArrives DEF ReadOutcome

LEMMA ReadAbandonOutcome ==
  ASSUME SystemInv, NEW r \in Readers, ReadAbandon(r)
  PROVE  ReadOutcome(r)
BY DEF ReadAbandon, NoAnswer, SystemInv, ReadTypeOK, ReadEnded, ReadOutcome

LEMMA SystemOutcome ==
  ASSUME SystemInv, SystemNext, NEW x \in Readers
  PROVE  ReadOutcome(x)
<1>1. CASE UNCHANGED slotVars /\ NoAnswer
  BY <1>1 DEF slotVars, NoAnswer, ReadKept, ReadOutcome
<1>2. CASE ReadStep
  <2>1. PICK r \in Readers : ReadArrive(r) \/ ReadCall(r) \/ ReadAbandon(r)
    BY <1>2 DEF ReadStep
  <2>2. CASE x = r
    BY <2>1, <2>2, ReadArriveOutcome, ReadTopicOutcome, ReadSubtopicOutcome,
       ReadAbandonOutcome DEF ReadCall
  <2>3. CASE x # r
    BY <2>1, <2>3, OthersKept DEF SystemInv, ReadOutcome
  <2> QED
    BY <2>2, <2>3
<1> QED
  BY <1>1, <1>2 DEF SystemNext

-----------------------------------------------------------------------------
(* The histories: they see the present, and forget nothing of a request.   *)

LEMMA HistoriesSee ==
  ASSUME ObserveReads, NEW r \in Readers, rreq'[r] # Nil
  PROVE  SeesNow(r)'
<1>1. ASSUME rreq'[r].list PROVE ListingsNow(rreq'[r]) \subseteq listed'[r]
  BY <1>1 DEF ObserveReads
<1>2. \A id \in MayRead(r) \cap Stored' : MaySee(rreq'[r], id, topics'[id]) \in seen'[r]
  BY DEF ObserveReads
<1>3. ListingsNow(rreq'[r]) = ListingsOf(rreq[r])' /\ MayRead(r) = Wanted(r)'
  BY DEF ListingsNow, ListingsOf, MayList, MayRead, Wanted, ElementsOf
<1> QED
  BY <1>1, <1>2, <1>3 DEF SeesNow, MaySee

LEMMA HistoriesGrow ==
  ASSUME ObserveReads, NEW r \in Readers, rreq'[r] # Nil, rreq'[r] = rreq[r]
  PROVE  /\ seen[r] \subseteq seen'[r]
         /\ rreq[r].list => listed[r] \subseteq listed'[r]
         /\ Wanted(r) \subseteq Wanted(r)'
<1>1. seen[r] \subseteq seen'[r]
  BY DEF ObserveReads
<1>2. rreq[r].list => listed[r] \subseteq listed'[r]
  BY DEF ObserveReads
<1> QED
  BY <1>1, <1>2 DEF Wanted

LEMMA ReaderStep ==
  ASSUME SystemInv, SystemNext, NEW r \in Readers
  PROVE  ReaderOK(r)'
<1> SUFFICES ASSUME rreq'[r] # Nil
             PROVE  /\ rreq'[r].private <=> r \in PrivateReaders
                    /\ ElementsOf(items'[r]) \subseteq seen'[r]
                    /\ rpc'[r] = "GetSubtopic" =>
                         rreq'[r].list /\ ElementsOf(rest'[r]) \subseteq Wanted(r)'
  <2>1. rreq'[r] # Nil => SeesNow(r)'
    BY HistoriesSee DEF SystemNext
  <2> QED
    BY <2>1 DEF ReaderOK, ElementsOf
<1>0. ObserveReads
  BY DEF SystemNext
<1>1. CASE ReadKept(r)
  BY <1>0, <1>1, HistoriesGrow DEF ReadKept, SystemInv, ReaderOK
<1>2. CASE ReadBegun(r)
  BY <1>2 DEF ReadBegun, ElementsOf
<1>3. CASE ReadListed(r)
  <2>1. ElementsOf(items'[r]) = {}
    BY <1>3 DEF ReadListed, ElementsOf
  <2>2. ElementsOf(rest'[r]) \subseteq Wanted(r)
    BY <1>3 DEF ReadListed, Wanted
  <2> QED
    BY <1>0, <1>3, <2>1, <2>2, HistoriesGrow DEF ReadListed, SystemInv, ReaderOK
<1>4. CASE ReadWentOn(r)
  BY <1>0, <1>4, HistoriesGrow DEF ReadWentOn, SystemInv, ReaderOK
<1> QED
  BY <1>1, <1>2, <1>3, <1>4, SystemOutcome DEF ReadOutcome, ReadEnded

LEMMA SystemInvInit == SystemInit => SystemInv
<1> SUFFICES ASSUME SystemInit PROVE SystemInv
  OBVIOUS
<1>1. \A r \in Readers : ReaderOK(r)
  BY DEF SystemInit, ReadInit, ReaderOK
<1> QED
  BY <1>1, SystemTypeInit DEF SystemInv

LEMMA SystemInvStep == SystemInv /\ [SystemNext]_systemVars => SystemInv'
<1> SUFFICES ASSUME SystemInv, [SystemNext]_systemVars PROVE SystemInv'
  OBVIOUS
<1>1. SafetyInv' /\ ReadTypeOK'
  BY EditorsStep, ReadTypeStep DEF SystemInv
<1>2. ASSUME NEW r \in Readers PROVE ReaderOK(r)'
  <2>1. CASE SystemNext
    BY <2>1, ReaderStep
  <2>2. CASE UNCHANGED systemVars
    BY <2>2 DEF systemVars, readVars, slotVars, SystemInv, ReaderOK, SeesNow, Wanted,
                ListingsOf, Stored, MaySee, MayList, ElementsOf
  <2> QED
    BY <2>1, <2>2
<1> QED
  BY <1>1, <1>2 DEF SystemInv

THEOREM SystemCorrect == SystemSpec => []SystemInv
BY SystemInvInit, SystemInvStep, PTL DEF SystemSpec

(* Whatever is edited and published while a request is served, every item  *)
(* of its answer is what its caller may see of a topic it asked for, as    *)
(* that topic was at some moment of the request: never a draft to the      *)
(* public.                                                                 *)
THEOREM ReadsServeThePast == SystemSpec => ReadsWhatWasStored
<1>1. ASSUME SystemInv, SystemNext, NEW r \in Readers, AnswersRead(r),
             NEW i \in DOMAIN answer'[r].body
      PROVE  answer'[r].body[i] \in seen[r]
  <2>1. rreq[r] # Nil /\ rreq'[r] = Nil /\ answer'[r] # Nil
    BY <1>1 DEF AnswersRead
  <2>2. ReadEnded(r)
    BY <1>1, <2>1, SystemOutcome, AnswerAssumption
       DEF ReadOutcome, ReadKept, ReadBegun, ReadListed, ReadWentOn
  <2> QED
    BY <1>1, <2>1, <2>2 DEF ReadEnded, ElementsOf
<1>2. SystemInv /\ [SystemNext]_systemVars =>
        [\A r \in Readers : AnswersRead(r) =>
           \A i \in DOMAIN answer'[r].body : answer'[r].body[i] \in seen[r]]_systemVars
  BY <1>1
<1> QED
  BY <1>2, SystemCorrect, PTL DEF SystemSpec, ReadsWhatWasStored

(* No request of an editor is left without an answer, and one of the       *)
(* public only over a live list that names a topic not published yet.      *)
THEOREM AbortsExplained == SystemSpec => AbortsHaveCause
<1>1. ASSUME SystemInv, SystemNext, NEW r \in Readers, AnswersRead(r),
             answer'[r].status = Aborted
      PROVE  MayAbort(r)
  BY <1>1, SystemOutcome
     DEF AnswersRead, ReadOutcome, ReadKept, ReadBegun, ReadListed, ReadWentOn, ReadEnded
<1>2. SystemInv /\ [SystemNext]_systemVars =>
        [\A r \in Readers : AnswersRead(r) /\ answer'[r].status = Aborted =>
           r \notin PrivateReaders /\ rreq[r].list /\ NotLiveListed(r)]_systemVars
  BY <1>1 DEF MayAbort
<1> QED
  BY <1>2, SystemCorrect, PTL DEF SystemSpec, AbortsHaveCause

-----------------------------------------------------------------------------
(* Lists are complete.  The invariant: the topics collected are those that *)
(* a listing of the parent names up to some place n, and the ids still to  *)
(* be read are all that it names after n.                                  *)

ServesUpTo(body, l, n) ==
  \E at \in [DOMAIN body -> 1..n] :
    /\ \A i, j \in DOMAIN body : i < j => at[i] < at[j]
    /\ \A i \in DOMAIN body : body[i].id = l[at[i]] /\ l[at[i]] \in Stored
    /\ ~ReadFailures =>
         \A k \in 1..n : l[k] \in Stored => \E i \in DOMAIN body : at[i] = k

IsRest(ids, l, n) ==
  /\ Len(ids) = Len(l) - n
  /\ \A k \in 1..Len(ids) : ids[k] = l[n + k]

ListUpTo(r, l, n) ==
  /\ n \in 0..Len(l)
  /\ IsRest(rest[r], l, n)
  /\ ServesUpTo(items[r], l, n)

ListOK(r) ==
  rpc[r] = "GetSubtopic" =>
    \E l \in listed[r] \cap Seq(Ids), n \in Nat : ListUpTo(r, l, n)

LEMMA ServeNothing ==
  ASSUME NEW l
  PROVE  ServesUpTo(<<>>, l, 0)
<1> DEFINE at == [i \in {} |-> 0]
<1>1. DOMAIN <<>> = {} /\ 1..0 = {}
  OBVIOUS
<1>2. at \in [{} -> 1..0]
  OBVIOUS
<1> HIDE DEF at
<1> QED
  BY <1>1, <1>2 DEF ServesUpTo

LEMMA ServeSkip ==
  ASSUME NEW body, NEW l, NEW n \in Nat, ServesUpTo(body, l, n),
         ReadFailures \/ l[n + 1] \notin Stored
  PROVE  ServesUpTo(body, l, n + 1)
<1>1. PICK at \in [DOMAIN body -> 1..n] :
        /\ \A i, j \in DOMAIN body : i < j => at[i] < at[j]
        /\ \A i \in DOMAIN body : body[i].id = l[at[i]] /\ l[at[i]] \in Stored
        /\ ~ReadFailures =>
             \A k \in 1..n : l[k] \in Stored => \E i \in DOMAIN body : at[i] = k
  BY DEF ServesUpTo
<1>2. at \in [DOMAIN body -> 1..(n + 1)]
  OBVIOUS
<1>3. ~ReadFailures =>
        \A k \in 1..(n + 1) : l[k] \in Stored => \E i \in DOMAIN body : at[i] = k
  <2> SUFFICES ASSUME ~ReadFailures, NEW k \in 1..(n + 1), l[k] \in Stored
               PROVE  \E i \in DOMAIN body : at[i] = k
    OBVIOUS
  <2>1. k \in 1..n
    OBVIOUS
  <2> QED
    BY <1>1, <2>1
<1> QED
  BY <1>1, <1>2, <1>3 DEF ServesUpTo

LEMMA ServeMore ==
  ASSUME NEW body \in Seq(Item), NEW l, NEW n \in Nat, ServesUpTo(body, l, n),
         NEW item \in Item, item.id = l[n + 1], l[n + 1] \in Stored
  PROVE  ServesUpTo(Append(body, item), l, n + 1)
<1> DEFINE more == Append(body, item)
           last == Len(body) + 1
<1>1. PICK at \in [DOMAIN body -> 1..n] :
        /\ \A i, j \in DOMAIN body : i < j => at[i] < at[j]
        /\ \A i \in DOMAIN body : body[i].id = l[at[i]] /\ l[at[i]] \in Stored
        /\ ~ReadFailures =>
             \A k \in 1..n : l[k] \in Stored => \E i \in DOMAIN body : at[i] = k
  BY DEF ServesUpTo
<1>2. /\ DOMAIN body = 1..Len(body) /\ Len(body) \in Nat
      /\ DOMAIN more = 1..last
      /\ \A i \in DOMAIN body : more[i] = body[i]
      /\ more[last] = item
  OBVIOUS
<1> HIDE DEF more
<1> DEFINE to == [i \in DOMAIN more |-> IF i = last THEN n + 1 ELSE at[i]]
<1>3. \A i \in DOMAIN more : i # last => i \in DOMAIN body
  BY <1>2
<1>4. to \in [DOMAIN more -> 1..(n + 1)]
  BY <1>2, <1>3
<1>5. ASSUME NEW i \in DOMAIN more, NEW j \in DOMAIN more, i < j
      PROVE  to[i] < to[j]
  <2>1. i \in DOMAIN body /\ to[i] = at[i] /\ at[i] \in 1..n
    BY <1>2, <1>3, <1>5
  <2>2. CASE j = last
    BY <2>1, <2>2
  <2>3. CASE j # last
    <3>1. j \in DOMAIN body /\ to[j] = at[j]
      BY <1>3, <2>3
    <3> QED
      BY <1>1, <1>5, <2>1, <3>1
  <2> QED
    BY <2>2, <2>3
<1>6. ASSUME NEW i \in DOMAIN more
      PROVE  more[i].id = l[to[i]] /\ l[to[i]] \in Stored
  <2>1. CASE i = last
    BY <1>2, <2>1
  <2>2. CASE i # last
    BY <1>1, <1>2, <1>3, <2>2
  <2> QED
    BY <2>1, <2>2
<1>7. ASSUME ~ReadFailures, NEW k \in 1..(n + 1), l[k] \in Stored
      PROVE  \E i \in DOMAIN more : to[i] = k
  <2>1. CASE k = n + 1
    BY <1>2, <2>1
  <2>2. CASE k # n + 1
    <3>1. PICK i \in DOMAIN body : at[i] = k
      BY <1>1, <1>7, <2>2
    <3>2. i \in DOMAIN more /\ i # last
      BY <1>2
    <3> QED
      BY <3>1, <3>2
  <2> QED
    BY <2>1, <2>2
<1> HIDE DEF to
<1> QED
  BY <1>4, <1>5, <1>6, <1>7 DEF ServesUpTo, more

LEMMA ServedAll ==
  ASSUME NEW body, NEW l \in Seq(Ids), ServesUpTo(body, l, Len(l))
  PROVE  Serves(body, l)
<1>1. DOMAIN l = 1..Len(l)
  OBVIOUS
<1> QED
  BY <1>1 DEF Serves, ServesUpTo

(* What a step does to a list in the making.                               *)
ListBegun(r) ==
  /\ rest'[r] \in listed[r] \cap Seq(Ids)
  /\ items'[r] = <<>>

ListWentOn(r) ==
  /\ rpc[r] = "GetSubtopic" /\ rpc'[r] = "GetSubtopic"
  /\ \A l \in Seq(Ids), n \in Nat :
       ListUpTo(r, l, n) => /\ n + 1 <= Len(l)
                            /\ IsRest(rest'[r], l, n + 1)
                            /\ ServesUpTo(items'[r], l, n + 1)

ListAnswered(r) ==
  /\ rpc'[r] = "idle"
  /\ answer'[r] # Nil /\ rreq[r].list /\ answer'[r].status = 200 =>
       /\ rpc[r] = "GetSubtopic"
       /\ \A l \in Seq(Ids), n \in Nat : ListUpTo(r, l, n) => Serves(answer'[r].body, l)

ListOutcome(r) ==
  \/ ReadKept(r)
  \/ rpc'[r] = "GetTopic" /\ answer'[r] = Nil
  \/ rreq'[r] = rreq[r] /\ rreq[r] # Nil /\ answer'[r] = Nil
       /\ (ListBegun(r) \/ ListWentOn(r))
  \/ ListAnswered(r)

LEMMA RestGoesOn ==
  ASSUME NEW l \in Seq(Ids), NEW n \in 0..Len(l), NEW ids \in Seq(Ids),
         IsRest(ids, l, n), ids # <<>>
  PROVE  /\ Head(ids) = l[n + 1]
         /\ n + 1 <= Len(l)
         /\ Len(ids) > 1 => IsRest(Tail(ids), l, n + 1)
         /\ ~(Len(ids) > 1) => n + 1 = Len(l)
<1>1. Len(ids) = Len(l) - n /\ Len(ids) \in Nat /\ Len(ids) # 0 /\ Len(l) \in Nat
  BY DEF IsRest
<1>2. Head(ids) = ids[1] /\ 1 \in 1..Len(ids)
  BY <1>1
<1>3. Head(ids) = l[n + 1]
  BY <1>2 DEF IsRest
<1>4. /\ Len(Tail(ids)) = Len(ids) - 1
      /\ \A k \in 1..Len(Tail(ids)) : Tail(ids)[k] = ids[k + 1]
  BY <1>1
<1>5. IsRest(Tail(ids), l, n + 1)
  <2>1. ASSUME NEW k \in 1..Len(Tail(ids)) PROVE Tail(ids)[k] = l[(n + 1) + k]
    <3>1. k + 1 \in 1..Len(ids) /\ n + (k + 1) = (n + 1) + k
      BY <1>1, <1>4
    <3>2. ids[k + 1] = l[n + (k + 1)]
      BY <3>1 DEF IsRest
    <3> QED
      BY <1>4, <3>1, <3>2
  <2>2. Len(Tail(ids)) = Len(l) - (n + 1)
    BY <1>1, <1>4
  <2> QED
    BY <2>1, <2>2 DEF IsRest
<1> QED
  BY <1>1, <1>3, <1>5

LEMMA ListAnswerEnds ==
  ASSUME ReadTypeOK, NEW r \in Readers, NEW status, NEW body,
         ReadAnswer(r, status, body),
         rreq[r].list /\ status = 200 =>
           /\ rpc[r] = "GetSubtopic"
           /\ \A l \in Seq(Ids), n \in Nat : ListUpTo(r, l, n) => Serves(body, l)
  PROVE  ListOutcome(r)
<1>1. rpc'[r] = "idle" /\ answer'[r] = [status |-> status, body |-> body]
  BY DEF ReadTypeOK, ReadAnswer
<1> QED
  BY <1>1 DEF ListOutcome, ListAnswered

LEMMA ListErrorEnds ==
  ASSUME ReadTypeOK, NEW r \in Readers,
         NEW err \in {"ErrTopicNotFound", "ErrContentNotFound", "ErrNotFound",
                      "ErrInternalServer", "StoreError"},
         ReadError(r, err)
  PROVE  ListOutcome(r)
<1>1. handleError[err] # 200
  BY DEF handleError
<1> QED
  BY <1>1, ListAnswerEnds DEF ReadError

(* The step of the loop: the next id of the listing has been looked up,    *)
(* and its topic is collected or left out.                                 *)
LEMMA ContinueLists ==
  ASSUME ReadTypeOK, NEW r \in Readers, rpc[r] = "GetSubtopic",
         NEW collected \in Seq(Item), Continue(r, collected),
         \A l \in Seq(Ids), n \in Nat :
           ListUpTo(r, l, n) => ServesUpTo(collected, l, n + 1)
  PROVE  ListOutcome(r)
<1>1. rest[r] \in Seq(Ids) /\ rest[r] # <<>> /\ rreq[r] # Nil
  BY DEF ReadTypeOK
<1>2. CASE More(r)
  <2>1. /\ rest'[r] = Tail(rest[r]) /\ items'[r] = collected
        /\ rreq'[r] = rreq[r] /\ rpc'[r] = rpc[r] /\ answer'[r] = Nil
    BY <1>2 DEF Continue, ReadTypeOK, NoAnswer
  <2>2. ASSUME NEW l \in Seq(Ids), NEW n \in Nat, ListUpTo(r, l, n)
        PROVE  n + 1 <= Len(l) /\ IsRest(Tail(rest[r]), l, n + 1)
    BY <1>1, <1>2, <2>2, RestGoesOn DEF ListUpTo, More
  <2> QED
    BY <1>1, <2>1, <2>2 DEF ListOutcome, ListWentOn
<1>3. CASE ~More(r) /\ collected = <<>>
  BY <1>3, ListErrorEnds DEF Continue, NothingToList
<1>4. CASE ~More(r) /\ collected # <<>>
  <2>1. ASSUME NEW l \in Seq(Ids), NEW n \in Nat, ListUpTo(r, l, n)
        PROVE  Serves(collected, l)
    <3>1. n + 1 = Len(l)
      BY <1>1, <1>4, <2>1, RestGoesOn DEF ListUpTo, More
    <3> QED
      BY <2>1, <3>1, ServedAll
  <2> QED
    BY <1>4, <2>1, ListAnswerEnds DEF Continue
<1> QED
  BY <1>2, <1>3, <1>4

LEMMA ReadTopicLists ==
  ASSUME SystemInv, NEW r \in Readers, ReadTopic(r)
  PROVE  ListOutcome(r)
<1> USE DEF SystemInv
<1> DEFINE id      == rreq[r].id
           listing == Listing(rreq[r], topics[id])
<1>0. /\ rreq[r] # Nil /\ items[r] = <<>> /\ SeesNow(r)
      /\ rpc[r] = "GetTopic"
  BY DEF ReadTopic, ReadTypeOK, ReaderOK
<1>1. CASE ReadError(r, "StoreError") \/ ReadError(r, "ErrTopicNotFound")
  BY <1>1, ListErrorEnds
<1>2. CASE ~rreq[r].list /\ ServeTopic(r, topics[id])
  BY <1>2, ListAnswerEnds DEF ServeTopic
<1>3. CASE id \in Stored /\ rreq[r].list /\ ListSubtopics(r, listing)
  <2>1. CASE listing = Nil
    BY <1>3, <2>1, ListErrorEnds DEF ListSubtopics, NothingToList
  <2>2. CASE listing # Nil /\ listing.subtopics \in {Nil, <<>>}
    BY <1>3, <2>2, ListErrorEnds DEF ListSubtopics
  <2>3. CASE listing # Nil /\ listing.subtopics \notin {Nil, <<>>}
    <3>1. ReadNext(r, listing.subtopics)
      BY <1>3, <2>3 DEF ListSubtopics
    <3>2. /\ rest'[r] = listing.subtopics
          /\ rreq'[r] = rreq[r] /\ items'[r] = items[r] /\ answer'[r] = Nil
      BY <3>1 DEF ReadNext, ReadTypeOK, NoAnswer
    <3>3. listing \in Version
      BY <1>3, <2>3, SafetyTopics, DocumentsRead, ItemType
    <3>4. listing.subtopics \in listed[r] \cap Seq(Ids)
      BY <1>0, <1>3, <2>3, <3>3, ListingSeen DEF Version
    <3> QED
      BY <1>0, <3>2, <3>4 DEF ListBegun, ListOutcome
  <2> QED
    BY <2>1, <2>2, <2>3
<1> QED
  BY <1>1, <1>2, <1>3 DEF ReadTopic

LEMMA ReadSubtopicLists ==
  ASSUME SystemInv, NEW r \in Readers, ReadSubtopic(r)
  PROVE  ListOutcome(r)
<1> USE DEF SystemInv
<1> DEFINE id   == Head(rest[r])
           item == TheItem(rreq[r], id, topics[id])
<1>1. /\ rpc[r] = "GetSubtopic" /\ items[r] \in Seq(Item)
      /\ rest[r] \in Seq(Ids) /\ rest[r] # <<>>
  BY DEF ReadSubtopic, ReadTypeOK
<1>2. ASSUME NEW l \in Seq(Ids), NEW n \in Nat, ListUpTo(r, l, n)
      PROVE  id = l[n + 1] /\ ServesUpTo(items[r], l, n)
  BY <1>1, <1>2, RestGoesOn DEF ListUpTo
<1>3. CASE (ReadFailures \/ id \notin Stored) /\ Skip(r)
  <2>1. \A l \in Seq(Ids), n \in Nat :
          ListUpTo(r, l, n) => ServesUpTo(items[r], l, n + 1)
    BY <1>2, <1>3, ServeSkip
  <2> QED
    BY <1>1, <1>3, <2>1, ContinueLists DEF Skip
<1>4. CASE ReadAnswer(r, Aborted, <<>>)
  BY <1>4, StatusAnswered, ListAnswerEnds
<1>5. CASE id \in Stored /\ Continue(r, Append(items[r], item))
  <2>1. item \in Item /\ item.id = id
    BY <1>5, SafetyTopics, DocumentsRead, ItemType DEF TheItem
  <2>2. Append(items[r], item) \in Seq(Item)
    BY <1>1, <2>1
  <2>3. \A l \in Seq(Ids), n \in Nat :
          ListUpTo(r, l, n) => ServesUpTo(Append(items[r], item), l, n + 1)
    BY <1>1, <1>2, <1>5, <2>1, ServeMore
  <2> QED
    BY <1>1, <1>5, <2>2, <2>3, ContinueLists
<1> QED
  BY <1>3, <1>4, <1>5 DEF ReadSubtopic

LEMMA SystemLists ==
  ASSUME SystemInv, SystemNext, NEW x \in Readers
  PROVE  ListOutcome(x)
<1> USE DEF SystemInv
<1>1. CASE UNCHANGED slotVars /\ NoAnswer
  BY <1>1 DEF slotVars, NoAnswer, ReadKept, ListOutcome
<1>2. ASSUME ReadArrive(x) PROVE ListOutcome(x)
  <2>1. ASSUME NEW request \in ReadRequest, ReadRecv(x, request)
        PROVE  ListOutcome(x)
    BY <2>1 DEF ReadRecv, ReadTypeOK, NoAnswer, ListOutcome
  <2> QED
    BY <1>2, <2>1, ReadArrives, ListErrorEnds
<1>3. ASSUME ReadAbandon(x) PROVE ListOutcome(x)
  BY <1>3 DEF ReadAbandon, NoAnswer, ReadTypeOK, ListOutcome, ListAnswered
<1>4. CASE ReadStep
  <2>1. PICK r \in Readers : ReadArrive(r) \/ ReadCall(r) \/ ReadAbandon(r)
    BY <1>4 DEF ReadStep
  <2>2. CASE x = r
    BY <1>2, <1>3, <2>1, <2>2, ReadTopicLists, ReadSubtopicLists DEF ReadCall
  <2>3. CASE x # r
    BY <2>1, <2>3, OthersKept DEF ListOutcome
  <2> QED
    BY <2>2, <2>3
<1> QED
  BY <1>1, <1>4 DEF SystemNext

(* What keeps the promise while a list is read: the service neither adds   *)
(* nor removes a topic.                                                    *)
LEMMA SystemStored ==
  ASSUME SystemInv, UpsertFinds, [SystemNext]_systemVars
  PROVE  UpsertFinds' /\ Stored' = Stored
<1>1. CASE Next
  <2>1. CoreOK /\ Step
    BY <1>1 DEF SystemInv, SafetyInv, TypeOK, CoreOK, Next
  <2> QED
    BY <2>1, UpsertFindsStep, StoredKept
<1>2. CASE (ReadStep /\ UNCHANGED publishingVars) \/ UNCHANGED systemVars
  BY <1>2 DEF ReadStep, systemVars, publishingVars, UpsertFinds, Found, Stored
<1> QED
  BY <1>1, <1>2 DEF SystemNext

LEMMA ListStep ==
  ASSUME SystemInv, UpsertFinds, SystemNext, NEW r \in Readers, ListOK(r)
  PROVE  ListOK(r)'
<1> SUFFICES ASSUME rpc'[r] = "GetSubtopic"
             PROVE  \E l \in listed'[r] \cap Seq(Ids), n \in Nat : ListUpTo(r, l, n)'
  BY DEF ListOK
<1>1. Stored' = Stored
  BY SystemStored
<1>2. rreq'[r] # Nil /\ rreq'[r] = rreq[r] /\ (ListBegun(r) \/ ListWentOn(r) \/ ReadKept(r))
  <2>1. ReadTypeOK'
    BY ReadTypeStep DEF SystemInv
  <2>2. rreq'[r] # Nil
    BY <2>1 DEF ReadTypeOK
  <2> QED
    BY <2>2, SystemLists DEF ListOutcome, ListAnswered, ReadKept
<1>3. listed[r] \subseteq listed'[r]
  <2>1. rreq[r].list
    <3>1. ReaderOK(r)'
      BY ReaderStep
    <3> QED
      BY <1>2, <3>1 DEF ReaderOK
  <2> QED
    BY <1>2, <2>1, HistoriesGrow DEF SystemNext
<1>4. ASSUME NEW l, NEW n \in 0..Len(l), IsRest(rest'[r], l, n),
             ServesUpTo(items'[r], l, n)
      PROVE  ListUpTo(r, l, n)'
  <2>1. ServesUpTo(items[r], l, n)'
    BY <1>1, <1>4 DEF ServesUpTo
  <2>2. IsRest(rest[r], l, n)'
    BY <1>4 DEF IsRest
  <2> QED
    BY <2>1, <2>2 DEF ListUpTo
<1>5. CASE ReadKept(r)
  <2>1. PICK l \in listed[r] \cap Seq(Ids), n \in Nat : ListUpTo(r, l, n)
    BY <1>5 DEF ReadKept, ListOK
  <2>2. ListUpTo(r, l, n)'
    BY <1>4, <1>5, <2>1 DEF ReadKept, ListUpTo
  <2> QED
    BY <1>3, <2>1, <2>2
<1>6. CASE ListBegun(r)
  <2>1. PICK l \in listed'[r] \cap Seq(Ids) : l = rest'[r]
    BY <1>3, <1>6 DEF ListBegun
  <2>2. IsRest(rest'[r], l, 0) /\ 0 \in 0..Len(l)
    BY <2>1 DEF IsRest
  <2>3. ServesUpTo(items'[r], l, 0)
    BY <1>6, ServeNothing DEF ListBegun
  <2>4. ListUpTo(r, l, 0)'
    BY <1>4, <2>2, <2>3
  <2> QED
    BY <2>1, <2>4
<1>7. CASE ListWentOn(r)
  <2>1. PICK l \in listed[r] \cap Seq(Ids), n \in Nat : ListUpTo(r, l, n)
    BY <1>7 DEF ListWentOn, ListOK
  <2>2. /\ n + 1 <= Len(l) /\ IsRest(rest'[r], l, n + 1)
        /\ ServesUpTo(items'[r], l, n + 1)
    BY <1>7, <2>1 DEF ListWentOn
  <2>3. n + 1 \in 0..Len(l) /\ n + 1 \in Nat
    BY <2>1, <2>2
  <2>4. ListUpTo(r, l, n + 1)'
    BY <1>4, <2>2, <2>3
  <2> QED
    BY <1>3, <2>1, <2>3, <2>4
<1> QED
  BY <1>2, <1>5, <1>6, <1>7

LEMMA ListServed ==
  ASSUME SystemInv, SystemNext, NEW r \in Readers, ListOK(r),
         AnswersRead(r), rreq[r].list, answer'[r].status = 200
  PROVE  \E l \in listed[r] : Serves(answer'[r].body, l)
<1>1. rreq[r] # Nil /\ rreq'[r] = Nil /\ answer'[r] # Nil
  BY DEF AnswersRead
<1>2. ListAnswered(r)
  BY <1>1, SystemLists DEF ListOutcome, ReadKept
<1>3. PICK l \in listed[r] \cap Seq(Ids), n \in Nat : ListUpTo(r, l, n)
  BY <1>1, <1>2 DEF ListAnswered, ListOK
<1> QED
  BY <1>1, <1>2, <1>3 DEF ListAnswered

(* A list answered 200 is one that the parent had during the request: its  *)
(* stored topics in its order, all of them unless a read failed, whatever  *)
(* is edited, published and read meanwhile.                                *)
THEOREM ListsAreComplete == SystemSpec => ListIsComplete
<1> DEFINE ListInv == UpsertFinds /\ \A r \in Readers : ListOK(r)
<1>1. SystemInit => ListInv
  BY DEF SystemInit, Init, ReadInit, UpsertFinds, ListOK
<1>2. SystemInv /\ ListInv /\ [SystemNext]_systemVars => ListInv'
  <2>1. CASE SystemNext
    BY <2>1, SystemStored, ListStep
  <2>2. CASE UNCHANGED systemVars
    BY <2>2 DEF systemVars, publishingVars, readVars, slotVars, UpsertFinds, Found,
                ListOK, ListUpTo, IsRest, ServesUpTo, Stored
  <2> QED
    BY <2>1, <2>2
<1>3. SystemInv /\ ListInv /\ [SystemNext]_systemVars =>
        [\A r \in Readers :
           AnswersRead(r) /\ rreq[r].list /\ answer'[r].status = 200 =>
             \E l \in listed[r] : Serves(answer'[r].body, l)]_systemVars
  BY ListServed
<1> QED
  BY <1>1, <1>2, <1>3, SystemCorrect, PTL DEF SystemSpec, ListIsComplete

-----------------------------------------------------------------------------
(* What the public is sent.  The invariant: what a public request has      *)
(* collected may be sent.                                                  *)
PublicItems(body, list) == \A i \in DOMAIN body : PublicItem(body[i], list)

ItemsPublic(r) == rreq[r] # Nil /\ ~rreq[r].private => PublicItems(items[r], rreq[r].list)

PublicInv == \A r \in Readers : ItemsPublic(r)

(* What a step leaves of the request of r, or answers to it, may be sent.  *)
PublicOutcome(r) ==
  /\ rreq'[r] # Nil => PublicItems(items'[r], rreq'[r].list)
  /\ answer'[r] # Nil => PublicItems(answer'[r].body, rreq[r].list)

LEMMA NoItems == \A list : PublicItems(<<>>, list)
BY DEF PublicItems

(* The live version of any document may be sent.                           *)
LEMMA StoredItemPublic ==
  ASSUME SafetyInv, NEW request, ~request.private, NEW id \in Stored
  PROVE  PublicItem(TheItem(request, id, topics[id]), FALSE)
<1> DEFINE item == TheItem(request, id, topics[id])
<1>1. id \in Ids /\ topics[id] \in TopicDoc /\ topics[id] # Nil
  BY SafetyTopics, DocumentsRead DEF Stored
<1>2. item.id = id /\ item.doc.current = Live(id) /\ item.doc.next = Nil
  BY <1>1 DEF TheItem, Visible, Live
<1>3. Live(id) # Nil => Live(id).state = StatePublished
  BY <1>1 DEF SafetyInv, LivePublished
<1>4. Live(id) # Nil /\ id # TopicRoot => Linked(Live(id))
  BY <1>1 DEF SafetyInv, TidyTopics, Tidy
<1> QED
  BY <1>2, <1>3, <1>4 DEF PublicItem

LEMMA AnswerPublic ==
  ASSUME ReadTypeOK, NEW r \in Readers, NEW status, NEW body,
         ReadAnswer(r, status, body), PublicItems(body, rreq[r].list)
  PROVE  PublicOutcome(r)
<1>1. rreq'[r] = Nil /\ answer'[r] = [status |-> status, body |-> body]
  BY DEF ReadTypeOK, ReadAnswer
<1> QED
  BY <1>1 DEF PublicOutcome

LEMMA ErrorPublic ==
  ASSUME ReadTypeOK, NEW r \in Readers, NEW err, ReadError(r, err)
  PROVE  PublicOutcome(r)
BY NoItems, AnswerPublic DEF ReadError

LEMMA ContinuePublic ==
  ASSUME ReadTypeOK, NEW r \in Readers, NEW collected, rreq[r] # Nil,
         PublicItems(collected, rreq[r].list), Continue(r, collected)
  PROVE  PublicOutcome(r)
<1>1. CASE More(r)
  <2>1. items'[r] = collected /\ rreq'[r] = rreq[r] /\ answer'[r] = Nil
    BY <1>1 DEF Continue, ReadTypeOK, NoAnswer
  <2> QED
    BY <2>1 DEF PublicOutcome
<1>2. CASE ~More(r) /\ collected = <<>>
  BY <1>2, ErrorPublic DEF Continue, NothingToList
<1>3. CASE ~More(r) /\ collected # <<>>
  BY <1>3, AnswerPublic DEF Continue
<1> QED
  BY <1>1, <1>2, <1>3

LEMMA ReadTopicPublic ==
  ASSUME SafetyInv, ReadTypeOK, NEW r \in Readers, ~rreq[r].private, ReadTopic(r)
  PROVE  PublicOutcome(r)
<1> DEFINE id      == rreq[r].id
           listing == Listing(rreq[r], topics[id])
<1>1. CASE ReadError(r, "StoreError") \/ ReadError(r, "ErrTopicNotFound")
  BY <1>1, ErrorPublic
<1>2. CASE id \in Stored /\ ~rreq[r].list /\ ServeTopic(r, topics[id])
  <2>1. PublicItem(TheItem(rreq[r], id, topics[id]), rreq[r].list)
    BY <1>2, StoredItemPublic DEF PublicItem
  <2>2. PublicItems(<<TheItem(rreq[r], id, topics[id])>>, rreq[r].list)
    BY <2>1 DEF PublicItems
  <2> QED
    BY <1>2, <2>2, AnswerPublic DEF ServeTopic
<1>3. CASE ListSubtopics(r, listing)
  <2>1. CASE ReadNext(r, listing.subtopics)
    <3>1. items'[r] = items[r] /\ items[r] = <<>> /\ answer'[r] = Nil
      BY <2>1 DEF ReadTopic, ReadNext, ReadTypeOK, NoAnswer
    <3> QED
      BY <3>1, NoItems DEF PublicOutcome
  <2> QED
    BY <1>3, <2>1, ErrorPublic DEF ListSubtopics, NothingToList
<1> QED
  BY <1>1, <1>2, <1>3 DEF ReadTopic

LEMMA ReadSubtopicPublic ==
  ASSUME SafetyInv, ReadTypeOK, NEW r \in Readers, ItemsPublic(r), ~rreq[r].private,
         ReadSubtopic(r)
  PROVE  PublicOutcome(r)
<1> DEFINE id   == Head(rest[r])
           item == TheItem(rreq[r], id, topics[id])
<1>1. rreq[r] # Nil /\ items[r] \in Seq(Item) /\ PublicItems(items[r], rreq[r].list)
  BY DEF ReadSubtopic, ReadTypeOK, ItemsPublic
<1>2. CASE Skip(r)
  BY <1>1, <1>2, ContinuePublic DEF Skip
<1>3. CASE ReadAnswer(r, Aborted, <<>>)
  BY <1>3, NoItems, AnswerPublic
<1>4. CASE /\ id \in Stored /\ ~Panics(rreq[r], topics[id])
           /\ Continue(r, Append(items[r], item))
  <2>1. item.doc.current # Nil
    BY <1>4 DEF Panics, TheItem, Visible
  <2>2. PublicItem(item, FALSE)
    BY <1>4, StoredItemPublic
  <2>3. PublicItem(item, rreq[r].list)
    BY <2>1, <2>2 DEF PublicItem
  <2>4. \A i \in DOMAIN Append(items[r], item) :
          Append(items[r], item)[i] \in ElementsOf(items[r]) \cup {item}
    BY <1>1 DEF ElementsOf
  <2>5. PublicItems(Append(items[r], item), rreq[r].list)
    BY <1>1, <2>3, <2>4 DEF PublicItems, ElementsOf
  <2> QED
    BY <1>1, <1>4, <2>5, ContinuePublic
<1> QED
  BY <1>2, <1>3, <1>4 DEF ReadSubtopic

LEMMA ReadArrivePublic ==
  ASSUME ReadTypeOK, NEW r \in Readers, ReadArrive(r)
  PROVE  PublicOutcome(r)
<1>1. CASE ReadError(r, "ErrTopicNotFound")
  BY <1>1, ErrorPublic
<1>2. ASSUME NEW request \in ReadRequest, ReadRecv(r, request)
      PROVE  PublicOutcome(r)
  <2>1. items'[r] = items[r] /\ items[r] = <<>> /\ answer'[r] = Nil
    BY <1>2 DEF ReadRecv, ReaderIdle, ReadTypeOK, NoAnswer
  <2> QED
    BY <2>1, NoItems DEF PublicOutcome
<1> QED
  BY <1>1, <1>2, ReadArrives

LEMMA PublicServed ==
  ASSUME SystemInv, PublicInv, SystemNext, NEW x \in Readers \ PrivateReaders
  PROVE  PublicOutcome(x)
<1>0. SafetyInv /\ ReadTypeOK /\ ItemsPublic(x) /\ ReaderOK(x)
  BY DEF SystemInv, PublicInv
<1>1. rreq[x] # Nil => ~rreq[x].private
  BY <1>0 DEF ReaderOK
<1>2. CASE ReadKept(x)
  BY <1>0, <1>1, <1>2 DEF ReadKept, ItemsPublic, PublicOutcome
<1>3. CASE UNCHANGED slotVars /\ NoAnswer
  BY <1>2, <1>3 DEF slotVars, NoAnswer, ReadKept
<1>4. CASE ReadStep
  <2>1. PICK r \in Readers : ReadArrive(r) \/ ReadCall(r) \/ ReadAbandon(r)
    BY <1>4 DEF ReadStep
  <2>2. CASE x # r
    BY <1>0, <1>2, <2>1, <2>2, OthersKept
  <2>3. CASE ReadArrive(x)
    BY <1>0, <2>3, ReadArrivePublic
  <2>4. CASE ReadCall(x)
    <3>1. rreq[x] # Nil
      BY <1>0, <2>4 DEF ReadCall, ReadTopic, ReadSubtopic, ReadTypeOK
    <3> QED
      BY <1>0, <1>1, <2>4, <3>1, ReadTopicPublic, ReadSubtopicPublic DEF ReadCall
  <2>5. CASE ReadAbandon(x)
    BY <1>0, <2>5 DEF ReadAbandon, NoAnswer, ReadTypeOK, PublicOutcome
  <2> QED
    BY <2>1, <2>2, <2>3, <2>4, <2>5
<1> QED
  BY <1>3, <1>4 DEF SystemNext

LEMMA PublicStep ==
  ASSUME SystemInv, PublicInv, [SystemNext]_systemVars
  PROVE  PublicInv'
<1> SUFFICES ASSUME NEW r \in Readers, rreq'[r] # Nil, ~rreq'[r].private
             PROVE  PublicItems(items'[r], rreq'[r].list)
  BY DEF PublicInv, ItemsPublic, PublicItems, PublicItem, Linked
<1>1. CASE SystemNext
  <2>1. r \notin PrivateReaders
    BY <1>1, ReaderStep DEF ReaderOK
  <2> QED
    BY <1>1, <2>1, PublicServed DEF PublicOutcome
<1>2. CASE UNCHANGED systemVars
  BY <1>2 DEF systemVars, readVars, slotVars, PublicInv, ItemsPublic
<1> QED
  BY <1>1, <1>2

(* Writers and readers together: nothing but whole, published and          *)
(* consistently linked versions is sent to the public.                     *)
THEOREM PublicIsPublished == SystemSpec => PublicSeesPublished
<1>1. SystemInit => PublicInv
  BY DEF SystemInit, ReadInit, PublicInv, ItemsPublic
<1>2. SystemInv /\ PublicInv /\ [SystemNext]_systemVars => PublicInv'
  BY PublicStep
<1>3. SystemInv /\ PublicInv /\ [SystemNext]_systemVars =>
        [\A r \in Readers \ PrivateReaders : AnswersRead(r) =>
           \A i \in DOMAIN answer'[r].body :
             PublicItem(answer'[r].body[i], rreq[r].list)]_systemVars
  BY PublicServed DEF PublicOutcome, PublicItems, AnswersRead
<1> QED
  BY <1>1, <1>2, <1>3, SystemCorrect, PTL DEF SystemSpec, PublicSeesPublished

-----------------------------------------------------------------------------
(* Readers disturb nothing: the editors of the whole system behave as they *)
(* do alone, so that all that is proved of them holds beside any readers.  *)
THEOREM EditorsAsAlone == SystemSpec => Spec
<1>1. SystemInit => Init
  BY DEF SystemInit
<1>2. [SystemNext]_systemVars => [Next]_vars
  BY DEF SystemNext, ReadStep, systemVars, publishingVars, vars
<1> QED
  BY <1>1, <1>2, PTL DEF SystemSpec, Spec

(* Beside any readers, an answer 200 to a PUT means what it means without: *)
(* the edit is in the draft; a publish request has put live a draft of its *)
(* window, its own update unless another write came before its read.       *)
THEOREM SystemAcknowledges == SystemSpec => AcknowledgedIsApplied
BY EditorsAsAlone, Acknowledged, PTL

(* Beside any readers, with one PUT request at a time, the service         *)
(* implements TopicPublication.                                            *)
THEOREM SystemPublishes ==
  ASSUME Serial
  PROVE  SystemSpec => PublicationSpec
BY EditorsAsAlone, SerialRefinement, PTL

-----------------------------------------------------------------------------
(* A read is bounded: a list takes one read of the parent, and then one of *)
(* each topic that the parent listed at that read.                         *)
ReadAdvances(r) ==
  \/ rreq'[r] = Nil
  \/ rpc[r] = "GetTopic" /\ rpc'[r] = "GetSubtopic" /\ rest'[r] \in listed[r]
  \/ /\ rpc[r] = "GetSubtopic" /\ rpc'[r] = "GetSubtopic"
     /\ rest'[r] = Tail(rest[r]) /\ Len(rest'[r]) < Len(rest[r])

LEMMA AnswerAdvances ==
  ASSUME ReadTypeOK, NEW r \in Readers, NEW status, NEW body, ReadAnswer(r, status, body)
  PROVE  ReadAdvances(r)
BY DEF ReadTypeOK, ReadAnswer, ReadAdvances

LEMMA ContinueAdvances ==
  ASSUME ReadTypeOK, NEW r \in Readers, NEW collected, rpc[r] = "GetSubtopic",
         Continue(r, collected)
  PROVE  ReadAdvances(r)
<1>1. CASE More(r)
  <2>1. rest[r] \in Seq(Ids) /\ rest[r] # <<>>
    BY DEF ReadTypeOK
  <2>2. Len(Tail(rest[r])) < Len(rest[r])
    BY <2>1
  <2> QED
    BY <1>1, <2>2 DEF Continue, ReadTypeOK, ReadAdvances
<1>2. CASE ~More(r)
  BY <1>2, AnswerAdvances DEF Continue, NothingToList, ReadError
<1> QED
  BY <1>1, <1>2

LEMMA ReadCallAdvances ==
  ASSUME SystemInv, NEW r \in Readers, ReadCall(r)
  PROVE  ReadAdvances(r)
<1>0. ReadTypeOK
  BY DEF SystemInv
<1>1. CASE ReadSubtopic(r)
  BY <1>0, <1>1, AnswerAdvances, ContinueAdvances DEF ReadSubtopic, Skip
<1>2. CASE ReadTopic(r)
  <2>1. ReadEnded(r) \/ ReadListed(r)
    BY <1>0, <1>2, ReadTopicOutcome
       DEF ReadOutcome, ReadTopic, ReadTypeOK, ReadKept, ReadBegun, ReadWentOn, ReadAnswer,
           ReadError, ServeTopic, ListSubtopics, NothingToList, ReadNext
  <2> QED
    BY <1>2, <2>1 DEF ReadEnded, ReadListed, ReadTopic, ReadAdvances
<1> QED
  BY <1>1, <1>2 DEF ReadCall

(* A GET request in progress stays where it is until one of its own reads, *)
(* and each of these brings it nearer its end: what editors make of the    *)
(* list meanwhile does not lengthen it.                                    *)
THEOREM ReadsAdvance ==
  SystemSpec =>
    [][ \A r \in Readers :
          rreq[r] # Nil /\ ~UNCHANGED <<rpc[r], rreq[r], rest[r], items[r]>> =>
            ReadAdvances(r) ]_systemVars
<1>1. ASSUME SystemInv, SystemNext, NEW r \in Readers, rreq[r] # Nil,
             ~UNCHANGED <<rpc[r], rreq[r], rest[r], items[r]>>
      PROVE  ReadAdvances(r)
  <2>1. ReadTypeOK /\ rpc[r] # "idle"
    BY <1>1 DEF SystemInv, ReadTypeOK
  <2>2. PICK x \in Readers : ReadArrive(x) \/ ReadCall(x) \/ ReadAbandon(x)
    BY <1>1 DEF SystemNext, ReadStep, slotVars
  <2>3. x = r
    BY <1>1, <2>1, <2>2, OthersKept DEF ReadKept
  <2>4. CASE ReadArrive(r)
    <3>1. CASE ReadError(r, "ErrTopicNotFound")
      BY <2>1, <3>1, AnswerAdvances DEF ReadError
    <3> QED
      BY <2>1, <2>4, <3>1, ReadArrives DEF ReadRecv, ReaderIdle
  <2>5. CASE ReadAbandon(r)
    BY <2>1, <2>5 DEF ReadAbandon, ReadTypeOK, ReadAdvances
  <2> QED
    BY <1>1, <2>2, <2>3, <2>4, <2>5, ReadCallAdvances
<1>2. SystemInv /\ [SystemNext]_systemVars =>
        [\A r \in Readers :
           rreq[r] # Nil /\ ~UNCHANGED <<rpc[r], rreq[r], rest[r], items[r]>> =>
             ReadAdvances(r)]_systemVars
  BY <1>1
<1> QED
  BY <1>2, SystemCorrect, PTL DEF SystemSpec

=============================================================================
