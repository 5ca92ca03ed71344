----------------------------- MODULE TreeProofs -----------------------------
(***************************************************************************)
(* Theorems about the tree that the operator's scripts build in            *)
(* TopicScripts, beside any writes of the service: every topic is listed   *)
(* somewhere, and in one place only, but for what was interfered with.     *)
(***************************************************************************)
EXTENDS ScriptsProofs

-----------------------------------------------------------------------------
(* The topics that a topic's document lists, and those that are listed or  *)
(* recorded.                                                               *)

ListedBy(id) == UNION {RangeOf(list) : list \in listsOf(id)}

Placed == Listed \cup disturbed

(* The lists of a document.                                                *)
ListsIn(doc) == {v.subtopics : v \in {doc.current, doc.next} \ {Nil}} \ {Nil}

LEMMA ListedByListed ==
  /\ \A id \in Ids : ListedBy(id) \subseteq Listed
  /\ \A x \in Listed : \E id \in Ids : x \in ListedBy(id)
BY DEF ListedBy, Listed

(* A list that the service makes or removes is recorded.                   *)
LEMMA ServiceListedBy ==
  ASSUME ObserveScripts, UNCHANGED scriptVars, NEW id \in Ids
  PROVE  /\ ListedBy(id) \subseteq ListedBy(id)' \cup disturbed'
         /\ ListedBy(id)' \subseteq ListedBy(id) \cup disturbed'
         /\ \A list \in listsOf(id)' \ listsOf(id) : RangeOf(list) \subseteq disturbed'
<1>1. ASSUME NEW list \in (listsOf(id)' \ listsOf(id)) \cup (listsOf(id) \ listsOf(id)')
      PROVE  RangeOf(list) \subseteq disturbed'
  <2>1. topics' # topics
    BY <1>1 DEF listsOf, versions
  <2>2. RangeOf(list) \subseteq relisted
    BY <1>1, <2>1 DEF relisted
  <2> QED
    BY <2>2 DEF ObserveScripts
<1> QED
  BY <1>1 DEF ListedBy

(* A document that is put lists its own topics; the others list as before. *)
LEMMA PutListedBy ==
  ASSUME TopicsOK, NEW id \in Ids, NEW doc \in TopicDoc,
         topics' = [topics EXCEPT ![id] = doc]
  PROVE  /\ \A i \in Ids \ {id} : listsOf(i)' = listsOf(i) /\ ListedBy(i)' = ListedBy(i)
         /\ listsOf(id)' = ListsIn(doc)
         /\ ListedBy(id)' = ListsOf(doc)
<1>1. \A i \in Ids \ {id} : versions(i)' = versions(i)
  BY DEF TopicsOK, versions
<1>2. versions(id)' = {doc.current, doc.next} \ {Nil}
  BY ModelAssumption DEF TopicsOK, versions
<1>3. listsOf(id)' = ListsIn(doc)
  BY <1>2 DEF listsOf, ListsIn
<1>4. ListedBy(id)' = ListsOf(doc)
  BY <1>3 DEF ListedBy, ListsOf, ListsIn
<1> QED
  BY <1>1, <1>3, <1>4 DEF listsOf, ListedBy

(* The seeded version of a topic lists its children.                       *)
LEMMA SeedLists ==
  ASSUME NEW id \in Ids
  PROVE  /\ ListsOf(generateTopic(id)) = Children(id)
         /\ ListsOf(newTopic(id)) = Children(id)
<1>1. Seed[id] # Nil /\ Seed[id] \in Version
  BY SeedType, ModelAssumption
<1>2. newTopic(id).next # Nil /\ newTopic(id).next.subtopics = Seed[id].subtopics
  BY <1>1, SeedType, ModelAssumption DEF newTopic, Version, TopicDoc
<1>3. Seed[id].subtopics = Nil => Children(id) = {}
  BY DEF Children, subtopicsOf, RangeOf
<1> QED
  BY <1>1, <1>2, <1>3 DEF ListsOf, generateTopic, newTopic, Children, subtopicsOf

-----------------------------------------------------------------------------
(* What is stored stays stored, but for a wipe, and what is newly stored   *)
(* was inserted by the script or put back by a request.                    *)

LEMMA ScriptStored ==
  ASSUME ScriptsInv, [ScriptsNext]_allVars, ~wipe
  PROVE  /\ Stored \subseteq Stored'
         /\ \A id \in Stored' \ Stored :
              \/ /\ step = "insertOne" /\ id = top.id
                 /\ topics' = [topics EXCEPT ![id] = generateTopic(id)]
              \/ \E q \in Requests : pc[q] = "UpsertTopic" /\ req[q].id = id
<1> USE DEF ScriptsInv
<1>0. TopicsOK /\ TypeOK /\ CoreOK
  BY DEF SafetyInv, TypeOK, TopicsOK, CoreOK
<1>1. CASE UNCHANGED topics
  BY <1>1 DEF Stored
<1>2. CASE Next
  BY <1>0, <1>2, StoredGrows, NewlyStored DEF Next
<1>3. CASE ScriptStep
  <2>1. CASE InsertStep /\ top.id \notin Stored
    <3>1. step = "insertOne" /\ top.id \in Ids
      BY <2>1, TopType DEF InsertStep
    <3>2. topics' = [topics EXCEPT ![top.id] = generateTopic(top.id)]
      BY <2>1 DEF InsertStep, insertedDoc
    <3> QED
      BY <1>0, <2>1, <3>1, <3>2 DEF Stored, TopicsOK
  <2>2. CASE InsertStep /\ top.id \in Stored
    BY <1>1, <2>2 DEF InsertStep, insertedDoc
  <2>3. CASE ListStep
    <3>1. parentTopic \in TopicDoc /\ parentTopic # Nil
      BY <2>3, ParentIsTopic, ModelAssumption DEF ListStep
    <3> QED
      BY <1>0, <2>3, <3>1 DEF ListStep, parentStored, Stored, TopicsOK
  <2>4. CASE EditStep
    BY <1>0, <2>4, ModelAssumption DEF EditStep, Stored, TopicsOK
  <2> QED
    BY <1>0, <1>1, <1>3, <2>1, <2>2, <2>3, <2>4, ScriptEffect
<1>4. CASE UNCHANGED allVars
  BY <1>1, <1>4 DEF allVars, vars
<1> QED
  BY <1>2, <1>3, <1>4 DEF ScriptsNext

-----------------------------------------------------------------------------
(* The calls of createTopic in progress.                                   *)

FramesOK ==
  \A i \in DOMAIN stack :
    /\ RangeOf(stack[i].left) \subseteq Children(stack[i].id)
    /\ i + 1 \in DOMAIN stack => /\ stack[i].id \in Children(stack[i + 1].id)
                                 /\ stack[i].parentID = stack[i + 1].id
    /\ stack[i].parentID = Nil => stack[i].id = TopicRoot

LEMMA CallIndex ==
  ASSUME NEW S, NEW s \in Seq(S), s # <<>>, NEW x \in S, NEW y \in S
  PROVE  LET r == <<x>> \o (<<y>> \o Tail(s))
         IN  /\ DOMAIN r = 1 .. Len(s) + 1
             /\ r[1] = x /\ r[2] = y
             /\ \A i \in 2 .. Len(s) : r[i + 1] = s[i]
OBVIOUS

LEMMA RangeTail ==
  ASSUME NEW S, NEW s \in Seq(S), s # <<>>
  PROVE  RangeOf(Tail(s)) \subseteq RangeOf(s) /\ Head(s) \in RangeOf(s)
BY PopIndex DEF RangeOf

LEMMA RangePush ==
  ASSUME NEW S, NEW s \in Seq(S), NEW x \in S
  PROVE  RangeOf(<<x>> \o s) \subseteq {x} \cup RangeOf(s)
<1> DEFINE r == <<x>> \o s
<1>1. /\ DOMAIN r = 1 .. Len(s) + 1 /\ DOMAIN s = 1 .. Len(s) /\ Len(s) \in Nat
      /\ r[1] = x
      /\ \A i \in 1 .. Len(s) : r[i + 1] = s[i]
  BY PushIndex
<1> HIDE DEF r
<1>2. ASSUME NEW i \in DOMAIN r, i # 1
      PROVE  r[i] \in RangeOf(s)
  <2>1. i - 1 \in DOMAIN s /\ (i - 1) + 1 = i
    BY <1>1, <1>2
  <2>2. r[i] = s[i - 1]
    BY <1>1, <2>1
  <2> QED
    BY <2>1, <2>2 DEF RangeOf
<1>3. RangeOf(r) \subseteq {x} \cup RangeOf(s)
  BY <1>1, <1>2 DEF RangeOf
<1> QED
  BY <1>3 DEF r

LEMMA EmptySeq ==
  ASSUME NEW S, NEW s \in Seq(S), s # <<>>
  PROVE  Len(s) # 0
OBVIOUS

LEMMA RangeGrows ==
  ASSUME NEW S, NEW s \in Seq(S), NEW x \in S
  PROVE  RangeOf(s) \cup {x} \subseteq RangeOf(Append(s, x))
<1>1. /\ DOMAIN Append(s, x) = 1 .. Len(s) + 1 /\ DOMAIN s = 1 .. Len(s) /\ Len(s) \in Nat
      /\ Append(s, x)[Len(s) + 1] = x
      /\ \A i \in 1 .. Len(s) : Append(s, x)[i] = s[i]
  OBVIOUS
<1>2. Len(s) + 1 \in DOMAIN Append(s, x) /\ \A i \in DOMAIN s : i \in DOMAIN Append(s, x)
  BY <1>1
<1> QED
  BY <1>1, <1>2 DEF RangeOf

LEMMA FramesStarted ==
  ASSUME NEW parentID \in Ids \cup {Nil}, NEW id \in Ids, Call(parentID, id, <<>>),
         parentID = Nil => id = TopicRoot
  PROVE  FramesOK'
<1> DEFINE frame == [parentID |-> parentID, id |-> id, left |-> subtopicsOf(id)]
<1>1. stack' = <<frame>>
  BY DEF Call
<1>2. DOMAIN stack' = {1} /\ stack'[1] = frame
  BY <1>1
<1> QED
  BY <1>2 DEF FramesOK, Children, RangeOf, subtopicsOf

LEMMA FramesPopped ==
  ASSUME ControlOK, FramesOK, stack # <<>>, stack' = Tail(stack)
  PROVE  FramesOK'
<1>1. /\ DOMAIN stack = 1 .. Len(stack) /\ Len(stack) \in Nat
      /\ DOMAIN stack' = 1 .. Len(stack) - 1
      /\ \A i \in 1 .. Len(stack) - 1 : stack'[i] = stack[i + 1]
  BY PopIndex DEF ControlOK
<1>2. ASSUME NEW i \in DOMAIN stack'
      PROVE  /\ RangeOf(stack'[i].left) \subseteq Children(stack'[i].id)
             /\ i + 1 \in DOMAIN stack' => /\ stack'[i].id \in Children(stack'[i + 1].id)
                                           /\ stack'[i].parentID = stack'[i + 1].id
             /\ stack'[i].parentID = Nil => stack'[i].id = TopicRoot
  <2>1. i + 1 \in DOMAIN stack /\ stack'[i] = stack[i + 1]
    BY <1>1
  <2>2. i + 1 \in DOMAIN stack' => /\ (i + 1) + 1 \in DOMAIN stack
                                   /\ stack'[i + 1] = stack[(i + 1) + 1]
    BY <1>1
  <2> QED
    BY <2>1, <2>2 DEF FramesOK
<1> QED
  BY <1>2 DEF FramesOK, Children, RangeOf, subtopicsOf

LEMMA FramesPushed ==
  ASSUME ControlOK, FramesOK, createSubtopic
  PROVE  FramesOK'
<1> DEFINE new    == [parentID |-> top.id, id |-> Head(top.left),
                      left |-> subtopicsOf(Head(top.left))]
           caller == [top EXCEPT !.left = Tail(@)]
<1>1. /\ stack # <<>> /\ stack \in Seq(Frame)
      /\ top \in Frame /\ top.left \in Seq(Ids) /\ top.left # <<>>
      /\ top.id \in Ids
      /\ stack' = <<new>> \o (<<caller>> \o Tail(stack))
  BY TopType DEF createSubtopic, Runs, Call, ControlOK
<1>2. Head(top.left) \in Ids /\ Tail(top.left) \in Seq(Ids)
  BY <1>1, PopFront
<1>3. caller \in Frame /\ new \in Frame
  BY <1>1, <1>2, SubtopicsType DEF Frame
<1>4. /\ top = stack[1]
      /\ DOMAIN stack = 1 .. Len(stack) /\ Len(stack) \in Nat \ {0}
  BY <1>1, PopIndex DEF top
<1>5. /\ RangeOf(Tail(top.left)) \subseteq Children(top.id)
      /\ Head(top.left) \in Children(top.id)
  <2>1. RangeOf(top.left) \subseteq Children(top.id)
    BY <1>4 DEF FramesOK
  <2> QED
    BY <1>1, <2>1, RangeTail
<1>6. /\ new.parentID = top.id /\ new.id = Head(top.left)
      /\ RangeOf(new.left) \subseteq Children(new.id)
      /\ caller.parentID = top.parentID /\ caller.id = top.id
      /\ caller.left = Tail(top.left)
  BY <1>1 DEF Frame, Children
<1> HIDE DEF new, caller
<1>7. /\ DOMAIN stack' = 1 .. Len(stack) + 1
      /\ stack'[1] = new /\ stack'[2] = caller
      /\ \A i \in 2 .. Len(stack) : stack'[i + 1] = stack[i]
  BY <1>1, <1>3, CallIndex
<1>8. ASSUME NEW i \in DOMAIN stack'
      PROVE  /\ RangeOf(stack'[i].left) \subseteq Children(stack'[i].id)
             /\ i + 1 \in DOMAIN stack' => /\ stack'[i].id \in Children(stack'[i + 1].id)
                                           /\ stack'[i].parentID = stack'[i + 1].id
             /\ stack'[i].parentID = Nil => stack'[i].id = TopicRoot
  <2>1. CASE i = 1
    BY <1>1, <1>4, <1>5, <1>6, <1>7, <2>1, ModelAssumption
  <2>2. CASE i = 2
    <3>1. 3 \in DOMAIN stack' => 2 \in DOMAIN stack /\ stack'[3] = stack[2]
      BY <1>4, <1>7
    <3> QED
      BY <1>4, <1>5, <1>6, <1>7, <2>2, <3>1 DEF FramesOK
  <2>3. CASE i > 2
    <3>1. /\ i - 1 \in 2 .. Len(stack) /\ i - 1 \in DOMAIN stack /\ stack'[i] = stack[i - 1]
          /\ i + 1 \in DOMAIN stack' =>
               (i - 1) + 1 \in DOMAIN stack /\ stack'[i + 1] = stack[(i - 1) + 1]
      <4>1. i - 1 \in 2 .. Len(stack) /\ (i - 1) + 1 = i
        BY <1>4, <1>7, <2>3
      <4>2. i + 1 \in DOMAIN stack' => i \in 2 .. Len(stack)
        BY <1>4, <1>7, <2>3
      <4> QED
        BY <1>4, <1>7, <4>1, <4>2
    <3> QED
      BY <3>1 DEF FramesOK
  <2> QED
    BY <1>4, <1>7, <2>1, <2>2, <2>3
<1> QED
  BY <1>8 DEF FramesOK, Children, RangeOf, subtopicsOf

-----------------------------------------------------------------------------
(* No orphans.  The argument: a topic that is stored and listed nowhere is *)
(* a child of a call in progress, which will list it, or has just been     *)
(* inserted by the innermost call, and was interfered with otherwise.  A   *)
(* call leaves no child behind: when it returns its topic is stored, and   *)
(* then its children were listed with it, or all of them are recorded.     *)

UnderWay == UNION {Children(f.id) : f \in RangeOf(stack)}

Late ==
  IF step \in {"insertContent", "findParent", "updateTopic"} /\ inserted
  THEN {top.id} ELSE {}

Accounted == Stored \subseteq Placed \cup {TopicRoot} \cup UnderWay \cup Late

ChildrenPlaced ==
  /\ \A id \in Stored : Children(id) \subseteq Placed
  /\ \A q \in Requests : pc[q] = "UpsertTopic" /\ req[q].id \notin Stored
                           => Children(req[q].id) \subseteq disturbed

CallsOK ==
  /\ step = "findTopicBySlug" /\ ~inserted => top.id \in Stored
  /\ step \in {"insertContent", "findParent", "updateTopic"} =>
       top.id \in Stored \/ family(top) \subseteq disturbed
  /\ step = "updateTopic" =>
       /\ parentStored
       /\ top.id \in ListsOf(parentTopic)
       /\ ListedBy(top.parentID) \subseteq ListsOf(parentTopic) \cup disturbed

OrphanInv == FramesOK /\ Accounted /\ ChildrenPlaced /\ CallsOK

(* What is listed or recorded remains so, but for a wipe.                  *)
LEMMA PlacedGrows ==
  ASSUME ScriptsInv, CallsOK, [ScriptsNext]_allVars, ~wipe
  PROVE  Placed \subseteq Placed'
<1> USE DEF ScriptsInv
<1>0. TopicsOK
  BY DEF SafetyInv, TypeOK, TopicsOK
<1>1. CASE UNCHANGED allVars
  BY <1>1 DEF allVars, vars, histories, Placed, Listed, listsOf, versions
<1>2. CASE UNCHANGED scriptVars /\ ObserveScripts
  <2>1. \A id \in Ids : ListedBy(id) \subseteq ListedBy(id)' \cup disturbed'
    BY <1>2, ServiceListedBy
  <2>2. disturbed \subseteq disturbed'
    BY <1>2, DisturbedGrows
  <2> QED
    BY <2>1, <2>2 DEF Placed, Listed, ListedBy
<1>3. CASE ScriptStep /\ ObserveScripts
  <2>0. disturbed \subseteq disturbed'
    BY <1>3, DisturbedGrows
  <2>1. CASE UNCHANGED topics
    BY <2>0, <2>1 DEF Placed, Listed, listsOf, versions
  <2>2. CASE InsertStep /\ top.id \in Stored
    BY <2>1, <2>2 DEF InsertStep, insertedDoc
  <2>3. CASE InsertStep /\ top.id \notin Stored
    <3>1. top.id \in Ids /\ generateTopic(top.id) \in TopicDoc
      BY <2>3, TopType, SeedType DEF InsertStep
    <3>2. topics' = [topics EXCEPT ![top.id] = generateTopic(top.id)]
      BY <2>3 DEF InsertStep, insertedDoc
    <3>3. \A i \in Ids \ {top.id} : ListedBy(i)' = ListedBy(i)
      BY <1>0, <3>1, <3>2, PutListedBy
    <3>4. ListedBy(top.id) = {}
      BY <2>3, <3>1 DEF ListedBy, listsOf, versions, Stored
    <3> QED
      BY <2>0, <3>3, <3>4 DEF Placed, Listed, ListedBy
  <2>4. CASE ListStep
    <3>1. step = "updateTopic" /\ top.parentID \in Ids /\ parentTopic \in TopicDoc
      BY <2>4, ParentIsTopic DEF ListStep
    <3>2. PICK p \in Ids : p = top.parentID
      BY <3>1
    <3>3. topics' = [topics EXCEPT ![p] = parentTopic]
      BY <2>4, <3>2 DEF ListStep
    <3>4. /\ \A i \in Ids \ {p} : ListedBy(i)' = ListedBy(i)
          /\ ListedBy(p)' = ListsOf(parentTopic)
      BY <1>0, <3>1, <3>3, PutListedBy
    <3>5. ListedBy(p) \subseteq ListsOf(parentTopic) \cup disturbed
      BY <3>1, <3>2 DEF CallsOK
    <3>6. \A i \in Ids : ListedBy(i) \subseteq Placed'
      <4> SUFFICES ASSUME NEW i \in Ids PROVE ListedBy(i) \subseteq Placed'
        OBVIOUS
      <4>1. ListedBy(i)' \subseteq Placed' /\ disturbed' \subseteq Placed'
        BY DEF Placed, Listed, ListedBy
      <4> QED
        BY <2>0, <3>4, <3>5, <4>1
    <3> QED
      BY <2>0, <3>6 DEF Placed, Listed, ListedBy
  <2>5. CASE updateTopicReleaseData
    BY <1>2, <1>3, <2>5 DEF updateTopicReleaseData
  <2> QED
    BY <1>3, <2>1, <2>2, <2>3, <2>4, <2>5, ScriptWrites
<1> QED
  BY <1>1, <1>2, <1>3 DEF ScriptsNext

LEMMA ChildrenStep ==
  ASSUME ScriptsInv, ListedInv, OneDocumentInv, OrphanInv, [ScriptsNext]_allVars
  PROVE  ChildrenPlaced'
<1> USE DEF ScriptsInv, OrphanInv
<1>1. CASE wipe
  <2>1. ScriptStep /\ ObserveScripts /\ UNCHANGED <<pc, req>>
    <3>1. runs' # runs
      BY <1>1 DEF wipe, Start, ControlOK
    <3> QED
      BY <1>1, <3>1 DEF ScriptsNext, allVars, scriptVars
  <2>2. Stored' = {}
    BY <1>1 DEF wipe, Stored
  <2>3. Stored \cup disturbed \subseteq disturbed'
    BY <2>1, <2>2, DisturbedGrows
  <2>4. Placed \subseteq disturbed'
    BY <2>3 DEF ListedInv, Placed, Known
  <2>5. ASSUME NEW q \in Requests, pc[q] = "UpsertTopic"
        PROVE  Children(req[q].id) \subseteq disturbed'
    BY <2>3, <2>4, <2>5 DEF ChildrenPlaced
  <2>6. \A q \in Requests : pc'[q] = "UpsertTopic" => Children(req'[q].id) \subseteq disturbed'
    BY <2>1, <2>5
  <2> QED
    BY <2>2, <2>6 DEF ChildrenPlaced, Children, RangeOf, subtopicsOf
<1>2. CASE ~wipe
  <2>0. /\ Stored \subseteq Stored' /\ Placed \subseteq Placed'
        /\ disturbed \subseteq disturbed' /\ disturbed' \subseteq Placed'
    BY <1>2, ScriptStored, PlacedGrows, DisturbedGrows
       DEF ScriptsNext, allVars, histories, Placed
  <2>1. ASSUME NEW id \in Stored'
        PROVE  Children(id) \subseteq Placed'
    <3>1. CASE id \in Stored
      BY <2>0, <3>1 DEF ChildrenPlaced
    <3>2. CASE /\ step = "insertOne" /\ id = top.id
               /\ topics' = [topics EXCEPT ![id] = generateTopic(id)]
      <4>1. id \in Ids /\ generateTopic(id) \in TopicDoc /\ TopicsOK
        BY <2>1, SeedType DEF Stored, SafetyInv, TypeOK, TopicsOK
      <4>2. ListedBy(id)' = Children(id)
        BY <3>2, <4>1, PutListedBy, SeedLists
      <4> QED
        BY <4>1, <4>2 DEF Placed, Listed, ListedBy
    <3>3. CASE id \notin Stored /\ \E q \in Requests : pc[q] = "UpsertTopic" /\ req[q].id = id
      BY <2>0, <3>3 DEF ChildrenPlaced
    <3> QED
      BY <1>2, <2>1, <3>1, <3>2, <3>3, ScriptStored
  <2>2. ASSUME NEW q \in Requests, pc'[q] = "UpsertTopic", req'[q].id \notin Stored'
        PROVE  Children(req'[q].id) \subseteq disturbed'
    <3>1. CASE KeptCopy(q)
      BY <2>0, <2>2, <3>1 DEF KeptCopy, ChildrenPlaced
    <3>2. CASE FreshCopy(q)
      BY <2>2, <3>2 DEF FreshCopy, Found, Stored, Request, ReleaseRequest, StateRequest,
                        TopicRequest
    <3>3. CASE [Next]_vars
      BY <2>2, <3>1, <3>2, <3>3, CopyEffect DEF SafetyInv
    <3>4. CASE UNCHANGED <<pc, req, copy, resp>>
      BY <2>2, <3>1, <3>4 DEF KeptCopy
    <3> QED
      BY <3>3, <3>4 DEF ScriptsNext, allVars
  <2> QED
    BY <2>1, <2>2 DEF ChildrenPlaced, Children, RangeOf, subtopicsOf
<1> QED
  BY <1>1, <1>2

(* The frames: a call is pushed for a child of the topic that makes it.    *)
LEMMA FramesStep ==
  ASSUME ScriptsInv, FramesOK, [ScriptsNext]_allVars
  PROVE  FramesOK'
<1> USE DEF ScriptsInv
<1>1. CASE UNCHANGED stack
  BY <1>1 DEF FramesOK, Children, RangeOf, subtopicsOf
<1>2. CASE seedDatabase
  BY <1>2, FramesStarted, ScriptAssumption DEF seedDatabase
<1>3. CASE End
  BY <1>3 DEF End, FramesOK
<1>4. CASE forEach
  <2>1. ASSUME todo # <<>>, NEW id \in itemIDs(Head(todo)),
               Call(Head(todo).parentID, id, <<>>)
        PROVE  FramesOK'
    <3>1. Head(todo) \in ScriptItem
      BY <2>1, PopFront DEF ControlOK
    <3>2. Head(todo).parentID \in Ids /\ id \in Ids /\ Head(todo).parentID # Nil
      BY <2>1, <3>1, ModelAssumption DEF ScriptItem, itemIDs
    <3> QED
      BY <2>1, <3>2, FramesStarted
  <2> QED
    BY <1>3, <1>4, <2>1 DEF forEach
<1>5. CASE createSubtopic
  BY <1>5, FramesPushed
<1>6. CASE Return /\ step \notin {"idle", "forEach"}
  BY <1>6, TopType, FramesPopped DEF Return
<1>7. CASE ScriptStep
  BY <1>1, <1>2, <1>3, <1>4, <1>5, <1>6, <1>7
     DEF ScriptStep, ScriptCall, addTopics, findTopicByID, findTopicBySlug, insertOne,
         insertContent, findParent, updateTopic, addSubtopicThrows, scriptStops, wipe,
         updateTopicReleaseData, Inserted, Goes, Runs, scriptVars
<1> QED
  BY <1>1, <1>7 DEF ScriptsNext, scriptVars, allVars

(* Where a script is says what is stored and what is to be written.        *)

LEMMA KeptCalls ==
  ASSUME CallsOK, UNCHANGED <<step, stack, inserted, parentTopic>>,
         Stored \subseteq Stored', disturbed \subseteq disturbed',
         \A id \in Ids : ListedBy(id)' \subseteq ListedBy(id) \cup disturbed'
  PROVE  CallsOK'
<1>1. top' = top
  BY DEF top
<1>2. step = "updateTopic" =>
        \A id \in Ids : id = top.parentID
          => ListedBy(id)' \subseteq ListsOf(parentTopic) \cup disturbed'
  BY DEF CallsOK
<1>3. step = "updateTopic" =>
        /\ top'.parentID \in Stored'
        /\ top'.id \in ListsOf(parentTopic)'
        /\ ListedBy(top.parentID)' \subseteq ListsOf(parentTopic)' \cup disturbed'
  BY <1>1, <1>2 DEF CallsOK, parentStored, Stored, ListsOf, RangeOf
<1>4. family(top)' = family(top)
  BY <1>1 DEF family, subtopicsOf, RangeOf
<1> QED
  BY <1>1, <1>3, <1>4 DEF CallsOK, parentStored

LEMMA FoundParentCalls ==
  ASSUME ScriptsInv, CallsOK, findParent, ~Return, disturbed \subseteq disturbed'
  PROVE  CallsOK'
<1> USE DEF ScriptsInv
<1>1. /\ step = "findParent" /\ step' = "updateTopic"
      /\ topics' = topics /\ stack' = stack
      /\ parentStored
      /\ HasList(topics[top.parentID].next) /\ HasList(topics[top.parentID].current)
      /\ parentTopic' = addedTo(topics[top.parentID], top.id)
  BY DEF findParent, Runs
<1>2. PICK p \in Ids : p = top.parentID
  BY <1>1 DEF parentStored, Stored
<1>3. PICK id \in Ids : id = top.id
  BY <1>1, TopType
<1>4. topics[p] \in TopicDoc /\ p \in Stored
  BY <1>1, <1>2 DEF parentStored, Stored, SafetyInv, TypeOK
<1>5. /\ topics[p].current \in Version /\ topics[p].next \in Version
      /\ parentTopic'.current = Pushed(topics[p].current, id)
      /\ parentTopic'.next = Pushed(topics[p].next, id)
  BY <1>1, <1>2, <1>3, <1>4, AddedType DEF TopicDoc
<1>6. ASSUME NEW v \in {topics[p].current, topics[p].next}
      PROVE  /\ RangeOf(v.subtopics) \cup {id} \subseteq RangeOf(Pushed(v, id).subtopics)
             /\ Pushed(v, id) # Nil /\ Pushed(v, id).subtopics # Nil
  <2>1. v \in Version /\ HasList(v)
    BY <1>1, <1>2, <1>5
  <2>2. v.subtopics \in Seq(Ids)
    BY <2>1 DEF HasList, Version
  <2>3. Pushed(v, id) \in Version /\ Pushed(v, id).subtopics = Append(v.subtopics, id)
    BY <1>3, <2>1, PushedType
  <2>4. Append(v.subtopics, id) \in Seq(Ids)
    BY <1>3, <2>2
  <2>5. RangeOf(v.subtopics) \cup {id} \subseteq RangeOf(Append(v.subtopics, id))
    BY <1>3, <2>2, RangeGrows
  <2> QED
    BY <2>3, <2>4, <2>5, ModelAssumption
<1>7. ListsOf(topics[p]) \cup {id} \subseteq ListsOf(parentTopic')
  BY <1>5, <1>6 DEF ListsOf
<1>8. ListedBy(p) = ListsOf(topics[p])
  BY <1>4, ModelAssumption DEF ListedBy, listsOf, versions, ListsOf
<1>9. ListedBy(p)' = ListedBy(p) /\ Stored' = Stored /\ top' = top
  BY <1>1 DEF ListedBy, listsOf, versions, Stored, top
<1>10. /\ parentStored'
       /\ top'.id \in ListsOf(parentTopic)'
       /\ ListedBy(top.parentID)' \subseteq ListsOf(parentTopic)'
  <2>1. p = top'.parentID /\ id = top'.id
    BY <1>2, <1>3, <1>9
  <2>2. ListsOf(parentTopic)' = ListsOf(parentTopic')
    BY DEF ListsOf, RangeOf
  <2>3. ListedBy(top.parentID)' \subseteq ListsOf(parentTopic')
    BY <1>7, <1>8, <1>9, <2>1
  <2> QED
    BY <1>4, <1>7, <1>9, <2>1, <2>2, <2>3 DEF parentStored
<1>11. top.id \in Stored \/ family(top) \subseteq disturbed
  BY <1>1 DEF CallsOK
<1>12. family(top)' = family(top)
  BY <1>9 DEF family, subtopicsOf, RangeOf
<1> QED
  BY <1>1, <1>9, <1>10, <1>11, <1>12 DEF CallsOK

(* A call that goes on to the next, with the collection as it was or with  *)
(* the topic inserted.                                                     *)
LEMMA GoesCalls ==
  ASSUME NEW call, Goes(call), call # "updateTopic",
         call = "findTopicBySlug" /\ ~inserted' => top.id \in Stored',
         call \in {"insertContent", "findParent"} =>
           top.id \in Stored' \/ family(top) \subseteq disturbed'
  PROVE  CallsOK'
<1>1. step' = call /\ top' = top
  BY DEF Goes, top
<1>2. family(top)' = family(top)
  BY <1>1 DEF family, subtopicsOf, RangeOf
<1> QED
  BY <1>1, <1>2 DEF CallsOK

LEMMA LeftCalls ==
  ASSUME step' \in {"idle", "forEach", "createTopic"}
  PROVE  CallsOK'
BY DEF CallsOK

LEMMA ReturnLeaves ==
  ASSUME Return \/ End \/ \E parentID, id, callers : Call(parentID, id, callers)
  PROVE  step' \in {"idle", "forEach", "createTopic"}
BY DEF Return, End, Call

(* When the insertion was made or not, the topic is stored, or its family  *)
(* is recorded.                                                            *)
LEMMA InsertedDone ==
  ASSUME ScriptsInv, CallsOK, ObserveScripts, findTopicBySlug \/ insertOne, Inserted,
         findTopicBySlug => ~inserted', Stored \subseteq Stored'
  PROVE  top.id \in Stored' \/ family(top) \subseteq disturbed'
<1> USE DEF ScriptsInv
<1>1. step' # "idle" /\ step \in {"findTopicBySlug", "insertOne"}
  BY DEF Inserted, Return, Goes, findTopicBySlug, insertOne, Runs
<1>2. CASE findTopicBySlug
  <2>1. step = "findTopicBySlug" /\ ~inserted'
    BY <1>2 DEF findTopicBySlug, Runs
  <2>2. CASE inserted
    BY <1>1, <2>1, <2>2 DEF ObserveScripts, turnedAway
  <2>3. CASE ~inserted
    BY <2>1, <2>3 DEF CallsOK
  <2> QED
    BY <2>2, <2>3
<1>3. CASE insertOne
  <2>1. step = "insertOne"
    BY <1>3 DEF insertOne, Runs
  <2>2. CASE ~inserted'
    BY <1>1, <2>1, <2>2 DEF ObserveScripts, turnedAway
  <2>3. CASE topics' = insertedDoc
    <3>1. top.id \in Ids
      BY <2>1, TopType
    <3> QED
      BY <2>3, <3>1, SeedType, ModelAssumption DEF insertedDoc, Stored, SafetyInv, TypeOK
  <2> QED
    BY <1>3, <2>2, <2>3 DEF insertOne
<1> QED
  BY <1>2, <1>3

LEMMA CallsStep ==
  ASSUME ScriptsInv, CallsOK, [ScriptsNext]_allVars
  PROVE  CallsOK'
<1> USE DEF ScriptsInv
<1>1. CASE UNCHANGED allVars
  <2>1. /\ Stored' = Stored /\ disturbed' = disturbed
        /\ \A id \in Ids : ListedBy(id)' = ListedBy(id)
    BY <1>1 DEF allVars, vars, histories, Stored, ListedBy, listsOf, versions
  <2> QED
    BY <1>1, <2>1, KeptCalls DEF allVars, scriptVars
<1>2. CASE wipe
  BY <1>2, LeftCalls DEF wipe, Start
<1>3. CASE ScriptsNext /\ ~wipe
  <2>0. ObserveScripts /\ Stored \subseteq Stored' /\ disturbed \subseteq disturbed'
    BY <1>3, ScriptStored, DisturbedGrows DEF ScriptsNext
  <2>1. CASE UNCHANGED scriptVars
    BY <2>0, <2>1, KeptCalls, ServiceListedBy DEF scriptVars
  <2>2. CASE seedDatabase \/ addTopics \/ forEach \/ createSubtopic
    BY <2>2, LeftCalls, ReturnLeaves
       DEF seedDatabase, addTopics, forEach, createSubtopic
  <2>3. CASE addSubtopicThrows \/ scriptStops
    BY <2>3, LeftCalls, ReturnLeaves DEF addSubtopicThrows, scriptStops
  <2>4. CASE Return
    BY <2>4, LeftCalls, ReturnLeaves
  <2>5. CASE findTopicByID
    BY <2>0, <2>5, GoesCalls DEF findTopicByID
  <2>6. CASE (findTopicBySlug \/ insertOne) /\ Inserted /\ (findTopicBySlug => ~inserted')
    BY <2>0, <2>4, <2>6, InsertedDone, GoesCalls DEF Inserted
  <2>7. CASE findTopicBySlug /\ Goes("insertOne")
    BY <2>7, GoesCalls
  <2>8. CASE insertContent
    BY <2>0, <2>4, <2>8, GoesCalls DEF insertContent, Runs, CallsOK
  <2>9. CASE findParent
    BY <2>0, <2>4, <2>9, FoundParentCalls
  <2>10. CASE updateTopic
    BY <2>4, <2>10 DEF updateTopic
  <2>11. CASE ScriptStep
    <3>1. findTopicBySlug => Goes("insertOne") \/ (Inserted /\ ~inserted')
      BY DEF findTopicBySlug
    <3>2. insertOne => Inserted /\ ~findTopicBySlug
      BY DEF insertOne, findTopicBySlug, Runs
    <3> QED
      BY <1>3, <2>1, <2>2, <2>3, <2>5, <2>6, <2>7, <2>8, <2>9, <2>10, <2>11, <3>1, <3>2
         DEF ScriptStep, ScriptCall, updateTopicReleaseData
  <2> QED
    BY <1>3, <2>1, <2>11 DEF ScriptsNext
<1> QED
  BY <1>1, <1>2, <1>3

(* Every stored topic stays accounted for.                                 *)

LEMMA AccountedBy ==
  ASSUME Accounted, Placed \subseteq Placed',
         Stored' \subseteq Stored \cup Placed' \cup {TopicRoot} \cup Late',
         UnderWay \subseteq UnderWay' \cup Placed',
         Late \subseteq Late' \cup UnderWay' \cup Placed' \cup {TopicRoot}
  PROVE  Accounted'
BY DEF Accounted

(* A call returns when its children are placed; its topic is a child of    *)
(* its caller's.                                                           *)
LEMMA PoppedUnderWay ==
  ASSUME ControlOK, FramesOK, stack # <<>>, stack' = Tail(stack)
  PROVE  /\ UnderWay \subseteq UnderWay' \cup Children(top.id)
         /\ Tail(stack) # <<>> => top.id \in UnderWay'
<1>1. RangeOf(stack) \subseteq {top} \cup RangeOf(stack')
  BY RangePop DEF ControlOK, top
<1>2. Tail(stack) # <<>> => 2 \in DOMAIN stack /\ stack[2] \in RangeOf(stack')
  <2>1. SUFFICES ASSUME Tail(stack) # <<>>
                 PROVE  2 \in DOMAIN stack /\ stack[2] \in RangeOf(stack')
    OBVIOUS
  <2>2. /\ DOMAIN stack = 1 .. Len(stack) /\ Len(stack) \in Nat \ {0}
        /\ DOMAIN Tail(stack) = 1 .. Len(stack) - 1
        /\ \A i \in 1 .. Len(stack) - 1 : Tail(stack)[i] = stack[i + 1]
        /\ Tail(stack) \in Seq(Frame)
    BY PopIndex, PopFront DEF ControlOK
  <2>3. Len(Tail(stack)) = Len(stack) - 1 /\ Len(Tail(stack)) # 0
    BY <2>1, <2>2, EmptySeq
  <2>4. 2 \in DOMAIN stack /\ 1 \in DOMAIN Tail(stack) /\ Tail(stack)[1] = stack[2]
    BY <2>2, <2>3
  <2> QED
    BY <2>4 DEF RangeOf
<1>3. Tail(stack) # <<>> => top.id \in Children(stack[2].id)
  <2>1. top = stack[1] /\ 1 \in DOMAIN stack
    BY PopIndex DEF top, ControlOK
  <2>2. 2 \in DOMAIN stack => stack[1].id \in Children(stack[2].id)
    BY <2>1 DEF FramesOK
  <2> QED
    BY <1>2, <2>1, <2>2
<1>4. UnderWay' = UNION {Children(f.id) : f \in RangeOf(stack')}
  BY DEF UnderWay, Children, RangeOf, subtopicsOf
<1> QED
  BY <1>1, <1>2, <1>3, <1>4 DEF UnderWay

LEMMA CalledUnderWay ==
  ASSUME ControlOK, createSubtopic
  PROVE  UnderWay \subseteq UnderWay'
<1> DEFINE new    == [parentID |-> top.id, id |-> Head(top.left),
                      left |-> subtopicsOf(Head(top.left))]
           caller == [top EXCEPT !.left = Tail(@)]
<1>1. /\ stack # <<>> /\ stack \in Seq(Frame)
      /\ top \in Frame /\ top.left \in Seq(Ids) /\ top.left # <<>>
      /\ top.id \in Ids
      /\ stack' = <<new>> \o (<<caller>> \o Tail(stack))
  BY TopType DEF createSubtopic, Runs, Call, ControlOK
<1>2. Head(top.left) \in Ids /\ Tail(top.left) \in Seq(Ids)
  BY <1>1, PopFront
<1>3. caller \in Frame /\ new \in Frame /\ caller.id = top.id
  BY <1>1, <1>2, SubtopicsType DEF Frame
<1> HIDE DEF new, caller
<1>4. /\ DOMAIN stack' = 1 .. Len(stack) + 1
      /\ stack'[2] = caller
      /\ \A i \in 2 .. Len(stack) : stack'[i + 1] = stack[i]
  BY <1>1, <1>3, CallIndex
<1>5. top = stack[1] /\ DOMAIN stack = 1 .. Len(stack) /\ Len(stack) \in Nat \ {0}
  BY <1>1, PopIndex DEF top
<1>6. ASSUME NEW i \in DOMAIN stack
      PROVE  \E j \in DOMAIN stack' : stack'[j].id = stack[i].id
  <2>1. i + 1 \in DOMAIN stack'
    BY <1>4, <1>5
  <2>2. stack'[i + 1].id = stack[i].id
    BY <1>3, <1>4, <1>5
  <2> QED
    BY <2>1, <2>2
<1> QED
  BY <1>6 DEF UnderWay, Children, RangeOf, subtopicsOf

LEMMA ReturnAccounted ==
  ASSUME ScriptsInv, OrphanInv, Placed \subseteq Placed', Return,
         step \in {"findTopicBySlug", "insertOne", "insertContent", "findParent",
                   "updateTopic"},
         Stored' \subseteq Stored \cup Placed' \cup {TopicRoot},
         top.parentID = Nil \/ top.id \in Stored \/ family(top) \subseteq disturbed,
         Late \subseteq UnderWay' \cup Placed' \cup {TopicRoot}
  PROVE  Accounted'
<1> USE DEF ScriptsInv, OrphanInv
<1>1. stack # <<>> /\ stack' = Tail(stack) /\ top.id \in Ids
  BY TopType DEF Return
<1>2. top.parentID = Nil => Children(top.id) = {}
  <2>1. top = stack[1] /\ 1 \in DOMAIN stack
    BY <1>1, PopIndex DEF top, ControlOK
  <2>2. top.parentID = Nil => top.id = TopicRoot
    BY <2>1 DEF FramesOK
  <2>3. subtopicsOf(TopicRoot) = <<>>
    BY ScriptAssumption DEF subtopicsOf
  <2> QED
    BY <2>2, <2>3 DEF Children, RangeOf
<1>3. Children(top.id) \subseteq Placed
  BY <1>2 DEF ChildrenPlaced, family, Children, Placed
<1>4. UnderWay \subseteq UnderWay' \cup Placed'
  BY <1>1, <1>3, PoppedUnderWay
<1> QED
  BY <1>4, AccountedBy

LEMMA ScriptAccounted ==
  ASSUME ScriptsInv, OrphanInv, ScriptStep, ObserveScripts, Placed \subseteq Placed', ~wipe
  PROVE  Accounted'
<1> USE DEF ScriptsInv, OrphanInv
<1>0. disturbed' \subseteq Placed'
  BY DEF Placed
<1>1. CASE UNCHANGED <<stack, topics>> /\ Late \subseteq Late'
  <2>1. UnderWay' = UnderWay /\ Stored' = Stored
    BY <1>1 DEF UnderWay, Children, RangeOf, subtopicsOf, Stored
  <2> QED
    BY <1>1, <2>1, AccountedBy
<1>2. CASE UNCHANGED topics /\ stack = <<>>
  <2>1. UnderWay = {} /\ Late = {} /\ Stored' = Stored
    BY <1>2 DEF UnderWay, RangeOf, Late, Stored, ControlOK
  <2> QED
    BY <2>1, AccountedBy
<1>3. CASE End /\ step # "idle" /\ UNCHANGED topics
  <2>1. UnderWay \subseteq cutOff
    BY <1>3 DEF UnderWay, cutOff, End, family, Children
  <2>2. Late \subseteq cutOff
    <3>1. Late # {} => Late = {top.id} /\ stack # <<>>
      BY DEF Late, ControlOK
    <3>2. stack # <<>> => top \in RangeOf(stack)
      BY RangeTail DEF ControlOK, top
    <3> QED
      BY <1>3, <3>1, <3>2 DEF cutOff, End, family
  <2>3. Stored' = Stored
    BY <1>3 DEF Stored
  <2> QED
    BY <1>0, <2>1, <2>2, <2>3, AccountedBy DEF ObserveScripts
<1>4. CASE createSubtopic
  <2>1. UnderWay \subseteq UnderWay'
    BY <1>4, CalledUnderWay
  <2>2. Late = {} /\ Stored' = Stored
    BY <1>4 DEF Late, Stored, createSubtopic, Runs
  <2> QED
    BY <2>1, <2>2, AccountedBy
<1>5. CASE findTopicByID
  BY <1>1, <1>5 DEF findTopicByID, Runs, Goes, Late
<1>6. CASE findTopicBySlug
  <2>1. Late = {} /\ UNCHANGED topics /\ step = "findTopicBySlug"
    BY <1>6 DEF findTopicBySlug, Runs, Late
  <2>2. CASE Return /\ top.parentID = Nil
    BY <2>1, <2>2, ReturnAccounted DEF Stored
  <2>3. CASE ~Return
    BY <1>1, <1>6, <2>1, <2>3 DEF findTopicBySlug, Inserted, Goes
  <2> QED
    BY <1>6, <2>2, <2>3 DEF findTopicBySlug, Inserted, Goes, Return
<1>7. CASE insertOne
  <2>1. Late = {} /\ step = "insertOne" /\ top.id \in Ids /\ step' # "idle"
    BY <1>7, TopType DEF insertOne, Runs, Late, Inserted, Return, Goes
  <2>2. Stored' \subseteq Stored \cup {top.id}
    BY <1>7, <2>1 DEF insertOne, insertedDoc, Stored, SafetyInv, TypeOK
  <2>3. ~inserted' => top.id \in Placed'
    <3>1. ~inserted' => top.id \in turnedAway
      BY <2>1 DEF turnedAway, family
    <3> QED
      BY <1>0, <3>1 DEF ObserveScripts
  <2>4. CASE top.parentID = Nil /\ Return
    <3>1. top.id = TopicRoot
      <4>1. top = stack[1] /\ 1 \in DOMAIN stack
        BY <2>1, PopIndex DEF top, ControlOK
      <4> QED
        BY <2>4, <4>1 DEF FramesOK
    <3> QED
      BY <2>1, <2>2, <2>4, <3>1, ReturnAccounted
  <2>5. CASE Goes("insertContent")
    <3>1. inserted' => top.id \in Late'
      BY <2>5 DEF Goes, Late, top
    <3>2. UnderWay' = UnderWay
      BY <2>5 DEF Goes, UnderWay, Children, RangeOf, subtopicsOf
    <3>3. inserted' \in BOOLEAN
      BY <1>7 DEF insertOne
    <3> QED
      BY <2>1, <2>2, <2>3, <3>1, <3>2, <3>3, AccountedBy
  <2> QED
    BY <1>7, <2>4, <2>5 DEF insertOne, Inserted
<1>8. CASE insertContent
  <2>1. step = "insertContent" /\ UNCHANGED topics
    BY <1>8 DEF insertContent, Runs
  <2>2. CASE Goes("findParent")
    BY <1>1, <1>8, <2>1, <2>2 DEF insertContent, Goes, Late, top
  <2>3. CASE ~inserted /\ Return
    BY <2>1, <2>3, ReturnAccounted DEF Late, Stored, CallsOK
  <2> QED
    BY <1>8, <2>2, <2>3 DEF insertContent
<1>9. CASE findParent
  <2>1. step = "findParent" /\ UNCHANGED topics /\ inserted' = inserted
    BY <1>9 DEF findParent, Runs
  <2>2. CASE Return
    <3>1. Late \subseteq {top.id}
      BY DEF Late
    <3>2. CASE Tail(stack) = <<>>
      <4>1. top.id \in withoutParent
        BY <2>1, <2>2, <3>2 DEF Return, withoutParent
      <4>2. top.id \in Placed'
        BY <1>0, <4>1 DEF ObserveScripts
      <4> QED
        BY <2>1, <2>2, <3>1, <4>2, ReturnAccounted DEF Stored, CallsOK
    <3>3. CASE Tail(stack) # <<>>
      <4>1. top.id \in UnderWay'
        BY <2>1, <2>2, <3>3, TopType, PoppedUnderWay DEF Return
      <4> QED
        BY <2>1, <2>2, <3>1, <4>1, ReturnAccounted DEF Stored, CallsOK
    <3> QED
      BY <3>2, <3>3
  <2>3. CASE ~Return
    BY <1>1, <1>9, <2>1, <2>3 DEF findParent, Late, top
  <2> QED
    BY <2>2, <2>3
<1>10. CASE updateTopic
  <2>1. step = "updateTopic" /\ Return /\ parentStored /\ parentTopic \in TopicDoc
        /\ top.parentID \in Ids
    BY <1>10, ParentIsTopic DEF updateTopic, Runs, CallsOK
  <2>2. PICK p \in Ids : p = top.parentID
    BY <2>1
  <2>3. topics' = [topics EXCEPT ![p] = parentTopic] /\ TopicsOK
    BY <1>10, <2>1, <2>2 DEF updateTopic, SafetyInv, TypeOK, TopicsOK
  <2>4. ListedBy(p)' = ListsOf(parentTopic)
    BY <2>1, <2>3, PutListedBy
  <2>5. top.id \in Placed'
    <3>1. ListedBy(p)' \subseteq Placed'
      BY DEF Placed, Listed, ListedBy
    <3> QED
      BY <2>1, <2>4, <3>1 DEF CallsOK
  <2>6. Stored' \subseteq Stored
    BY <2>1, <2>2, <2>3 DEF Stored, parentStored, TopicsOK
  <2> QED
    BY <2>1, <2>5, <2>6, ReturnAccounted DEF Late, CallsOK
<1>11. CASE seedDatabase \/ addTopics \/ forEach
  <2>1. UNCHANGED topics /\ step \in {"idle", "forEach"}
    BY <1>11 DEF seedDatabase, addTopics, forEach, Start
  <2> QED
    BY <1>2, <2>1 DEF ControlOK
<1>12. CASE addSubtopicThrows \/ scriptStops
  BY <1>3, <1>12 DEF addSubtopicThrows, scriptStops
<1>13. CASE updateTopicReleaseData
  <2>1. UNCHANGED scriptVars /\ Stored' \subseteq Stored
    BY <1>13 DEF updateTopicReleaseData, Stored, SafetyInv, TypeOK
  <2>2. UnderWay' = UnderWay /\ Late' = Late
    BY <2>1 DEF scriptVars, UnderWay, Late, top, Children, RangeOf, subtopicsOf
  <2> QED
    BY <2>1, <2>2, AccountedBy
<1> QED
  BY <1>4, <1>5, <1>6, <1>7, <1>8, <1>9, <1>10, <1>11, <1>12, <1>13
     DEF ScriptStep, ScriptCall

LEMMA AccountedStep ==
  ASSUME ScriptsInv, OneDocumentInv, OrphanInv, [ScriptsNext]_allVars
  PROVE  Accounted'
<1> USE DEF ScriptsInv, OrphanInv
<1>1. CASE wipe
  BY <1>1 DEF wipe, Accounted, Stored
<1>2. CASE ~wipe
  <2>0. Placed \subseteq Placed'
    BY <1>2, PlacedGrows
  <2>1. CASE UNCHANGED allVars
    BY <2>1 DEF allVars, vars, scriptVars, histories, Accounted, Stored, Placed, Listed,
                listsOf, versions, UnderWay, Children, RangeOf, subtopicsOf, Late, top
  <2>2. CASE ScriptStep /\ ObserveScripts
    BY <1>2, <2>0, <2>2, ScriptAccounted
  <2>3. CASE Next /\ UNCHANGED scriptVars
    <3>1. Stored' \subseteq Stored \cup disturbed
      BY <2>3, NewlyStored DEF SafetyInv, OneDocumentInv
    <3>2. UnderWay' = UnderWay /\ Late' = Late
      BY <2>3 DEF scriptVars, UnderWay, Late, top, Children, RangeOf, subtopicsOf
    <3> QED
      BY <2>0, <3>1, <3>2, AccountedBy DEF Placed
  <2> QED
    BY <2>1, <2>2, <2>3 DEF ScriptsNext
<1> QED
  BY <1>1, <1>2

LEMMA OrphanStep ==
  ScriptsInv /\ ListedInv /\ OneDocumentInv /\ OrphanInv /\ [ScriptsNext]_allVars
    => OrphanInv'
BY FramesStep, AccountedStep, ChildrenStep, CallsStep DEF OrphanInv

(* What a stored topic lists at the start is what its seed lists.          *)
LEMMA ListsAtStart ==
  ASSUME ScriptsInit, NEW id \in Ids
  PROVE  /\ id \notin Missing => id \in Stored /\ ListedBy(id) = Children(id)
         /\ id \in Missing => id \notin Stored /\ listsOf(id) = {}
         /\ listsOf(id) \subseteq {subtopicsOf(id)}
<1>1. /\ id \notin Missing => topics[id] \in {newTopic(id), generateTopic(id)}
      /\ id \in Missing => topics[id] = Nil
  BY DEF ScriptsInit, Init, InitTopics
<1>2. /\ newTopic(id) \in TopicDoc /\ generateTopic(id) \in TopicDoc
      /\ newTopic(id) # Nil /\ generateTopic(id) # Nil
  BY SeedType, ModelAssumption
<1>3. newTopic(id).next.subtopics = Seed[id].subtopics
  BY SeedType DEF newTopic, Version
<1>4. topics[id] # Nil => ListedBy(id) = ListsOf(topics[id])
  BY DEF ListedBy, listsOf, versions, ListsOf
<1>5. \A list \in listsOf(id) : list = Seed[id].subtopics /\ list # Nil
  BY <1>1, <1>3 DEF listsOf, versions, newTopic, generateTopic
<1> QED
  BY <1>1, <1>2, <1>4, <1>5, SeedLists DEF Stored, listsOf, versions, subtopicsOf

LEMMA OrphanInit ==
  ASSUME StartsBare
  PROVE  ScriptsInit => OrphanInv
<1> SUFFICES ASSUME ScriptsInit PROVE OrphanInv
  OBVIOUS
<1>1. \A id \in Ids : /\ id \notin Missing => id \in Stored /\ ListedBy(id) = Children(id)
                      /\ id \in Missing => id \notin Stored
  BY ListsAtStart
<1>2. \A id \in Stored : Children(id) \subseteq Placed
  BY <1>1 DEF Placed, Listed, ListedBy, Stored
<1>3. Accounted
  BY <1>1, <1>2 DEF StartsBare, Accounted, Stored
<1>4. FramesOK /\ CallsOK
  BY DEF ScriptsInit, FramesOK, CallsOK
<1>5. ChildrenPlaced
  BY <1>2 DEF ChildrenPlaced, ScriptsInit, Init
<1> QED
  BY <1>3, <1>4, <1>5 DEF OrphanInv

(* A script that is killed anywhere, beside any writes of the service,     *)
(* leaves no topic below the root that no topic lists, but for those whose *)
(* creation was cut off or interfered with: an error of the insertion, a   *)
(* slug in use, a parent that is missing, a wipe, an edit of the list.     *)
THEOREM OrphansAreRecorded ==
  ASSUME StartsBare
  PROVE  ScriptsSpec => []OrphansWereCut
<1>1. ScriptsInv /\ OrphanInv => OrphansWereCut
  <2> SUFFICES ASSUME ScriptsInv, OrphanInv PROVE OrphansWereCut
    OBVIOUS
  <2> DEFINE inProgress == UNION {family(f) : f \in RangeOf(stack)}
  <2>1. UnderWay \subseteq inProgress
    BY DEF UnderWay, family, Children
  <2>2. Late \subseteq inProgress
    <3>1. Late # {} => Late = {top.id} /\ stack # <<>> /\ stack \in Seq(Frame)
      BY DEF Late, ScriptsInv, ControlOK
    <3>2. Late # {} => top \in RangeOf(stack)
      BY <3>1, RangeTail DEF top
    <3> QED
      BY <3>1, <3>2 DEF family
  <2> QED
    BY <2>1, <2>2 DEF OrphanInv, Accounted, Placed, OrphansWereCut
<1>2. ScriptsInit => ScriptsInv /\ ListedInv /\ OneDocumentInv /\ OrphanInv
  BY OrphanInit, ScriptsInvInit, ListedInit DEF ScriptsInit, Init, OneDocumentInv
<1>3. ScriptsInv /\ ListedInv /\ OneDocumentInv /\ OrphanInv /\ [ScriptsNext]_allVars
        => (ScriptsInv /\ ListedInv /\ OneDocumentInv /\ OrphanInv)'
  BY ScriptsInvStep, ListedStep, OneDocumentStep, OrphanStep
<1> QED
  BY <1>1, <1>2, <1>3, PTL DEF ScriptsSpec

-----------------------------------------------------------------------------
(* Listed once.  The argument: a topic that is listed is stored, and a     *)
(* topic that is stored is not inserted again, so a topic that was just    *)
(* inserted is in no list but those that were interfered with; and the     *)
(* children that are listed by the insertion of their topic were listed    *)
(* nowhere before, since they are added to a topic that is stored.         *)

NoRepeat(list) ==
  \A i, j \in DOMAIN list : i # j /\ list[i] = list[j] => list[i] \in disturbed

OnceOK ==
  \A id \in Ids :
    /\ \A list \in listsOf(id) : NoRepeat(list)
    /\ \A other \in Ids \ {id} : ListedBy(id) \cap ListedBy(other) \subseteq disturbed

(* The children of a topic that is not stored are not listed yet.          *)
NotYetListed == \A id \in Ids \ Stored : Children(id) \cap Listed \subseteq disturbed

(* A topic is created for its place: by the topic that lists it, or as a   *)
(* top-level topic.                                                        *)
InPlace(frame) == \A id \in Ids : frame.id \in Children(id) => id = frame.parentID

PlacesOK ==
  /\ \A frame \in RangeOf(stack) : InPlace(frame)
  /\ \A item \in RangeOf(todo) : \A id \in Ids : item.ids \cap Children(id) = {}

(* A topic that was inserted is not listed yet, and the copy of its parent *)
(* is as the parent will be.                                               *)
ListingOK ==
  /\ step = "findParent" \/ (step = "insertContent" /\ inserted) =>
       (top.id \in Listed => top.id \in disturbed)
  /\ step = "updateTopic" =>
       /\ \A list \in ListsIn(parentTopic) : NoRepeat(list)
       /\ \A other \in Ids \ {top.parentID} :
            ListsOf(parentTopic) \cap ListedBy(other) \subseteq disturbed
       /\ ListsOf(parentTopic) \subseteq Placed \cup {top.id}

OnceInv == OnceOK /\ NotYetListed /\ PlacesOK /\ ListingOK

LEMMA OnceOKListedOnce == OnceOK => ListedOnce
<1> SUFFICES ASSUME OnceOK, NEW id \in Ids, NEW list \in listsOf(id)
             PROVE  /\ NoRepeat(list)
                    /\ \A other \in Ids \ {id} : \A others \in listsOf(other) :
                         RangeOf(list) \cap RangeOf(others) \subseteq disturbed
  BY DEF ListedOnce, NoRepeat
<1>1. \A other \in Ids \ {id} : \A others \in listsOf(other) :
        RangeOf(list) \subseteq ListedBy(id) /\ RangeOf(others) \subseteq ListedBy(other)
  BY DEF ListedBy
<1> QED
  BY <1>1 DEF OnceOK

(* What is recorded may be repeated.                                       *)
LEMMA RepeatsKept ==
  ASSUME disturbed \subseteq disturbed', NEW list, NoRepeat(list)
  PROVE  NoRepeat(list)'
BY DEF NoRepeat

LEMMA RecordedRepeats ==
  ASSUME NEW list, RangeOf(list) \subseteq disturbed'
  PROVE  NoRepeat(list)'
BY DEF NoRepeat, RangeOf

LEMMA NoRepeatAppend ==
  ASSUME NEW s \in Seq(Ids), NEW id \in Ids, NoRepeat(s),
         id \in RangeOf(s) => id \in disturbed
  PROVE  NoRepeat(Append(s, id))
<1>1. /\ DOMAIN Append(s, id) = 1 .. Len(s) + 1 /\ DOMAIN s = 1 .. Len(s) /\ Len(s) \in Nat
      /\ Append(s, id)[Len(s) + 1] = id
      /\ \A i \in 1 .. Len(s) : Append(s, id)[i] = s[i]
  OBVIOUS
<1>2. \A i \in DOMAIN Append(s, id) : i # Len(s) + 1 => i \in DOMAIN s
  BY <1>1
<1> QED
  BY <1>1, <1>2 DEF NoRepeat, RangeOf

LEMMA ServiceOnce ==
  ASSUME OnceOK, NotYetListed, ObserveScripts, UNCHANGED scriptVars,
         Stored \subseteq Stored'
  PROVE  OnceOK' /\ NotYetListed'
<1>0. disturbed \subseteq disturbed'
  BY DisturbedGrows
<1>1. ASSUME NEW id \in Ids
      PROVE  /\ ListedBy(id)' \subseteq ListedBy(id) \cup disturbed'
             /\ \A list \in listsOf(id)' \ listsOf(id) : RangeOf(list) \subseteq disturbed'
  BY ServiceListedBy
<1>2. ASSUME NEW id \in Ids, NEW list \in listsOf(id)'
      PROVE  NoRepeat(list)'
  BY <1>0, <1>1, <1>2, RepeatsKept, RecordedRepeats DEF OnceOK
<1>3. ASSUME NEW id \in Ids, NEW other \in Ids \ {id}
      PROVE  (ListedBy(id) \cap ListedBy(other))' \subseteq disturbed'
  BY <1>0, <1>1 DEF OnceOK
<1>4. Listed' \subseteq Listed \cup disturbed'
  BY <1>1 DEF Listed, ListedBy
<1>5. NotYetListed'
  BY <1>0, <1>4 DEF NotYetListed, Children, RangeOf, subtopicsOf
<1> QED
  BY <1>2, <1>3, <1>5 DEF OnceOK

LEMMA PutOnce ==
  ASSUME OnceOK, TopicsOK, disturbed \subseteq disturbed',
         NEW id \in Ids, NEW doc \in TopicDoc, topics' = [topics EXCEPT ![id] = doc],
         \A list \in ListsIn(doc) : NoRepeat(list),
         \A other \in Ids \ {id} : ListsOf(doc) \cap ListedBy(other) \subseteq disturbed
  PROVE  OnceOK'
<1>1. /\ \A i \in Ids \ {id} : listsOf(i)' = listsOf(i) /\ ListedBy(i)' = ListedBy(i)
      /\ listsOf(id)' = ListsIn(doc)
      /\ ListedBy(id)' = ListsOf(doc)
  BY PutListedBy
<1>2. ASSUME NEW i \in Ids, NEW list \in listsOf(i)'
      PROVE  NoRepeat(list)'
  <2>1. NoRepeat(list)
    BY <1>1, <1>2 DEF OnceOK
  <2> QED
    BY <2>1, RepeatsKept
<1>3. ASSUME NEW i \in Ids, NEW other \in Ids \ {i}
      PROVE  ListedBy(i)' \cap ListedBy(other)' \subseteq disturbed'
  BY <1>1 DEF OnceOK
<1> QED
  BY <1>2, <1>3 DEF OnceOK

(* The insertion of a topic lists its children, in the one place they have. *)
LEMMA InsertOnce ==
  ASSUME OnePlaceEach, ScriptsInv, OnceOK, NotYetListed, InsertStep, top.id \notin Stored,
         Stored \subseteq Stored', disturbed \subseteq disturbed'
  PROVE  OnceOK' /\ NotYetListed'
<1> USE DEF ScriptsInv
<1>1. PICK id \in Ids : id = top.id
  BY TopType DEF InsertStep
<1>2. /\ topics' = [topics EXCEPT ![id] = generateTopic(id)]
      /\ generateTopic(id) \in TopicDoc
      /\ TopicsOK
  BY <1>1, SeedType DEF InsertStep, insertedDoc, SafetyInv, TypeOK, TopicsOK
<1>3. ListsOf(generateTopic(id)) = Children(id)
  BY SeedLists
<1>4. \A list \in ListsIn(generateTopic(id)) : NoRepeat(list)
  <2>1. ListsIn(generateTopic(id)) \subseteq {subtopicsOf(id)}
    BY DEF ListsIn, generateTopic, subtopicsOf
  <2> QED
    BY <2>1 DEF OnePlaceEach, NoRepeat
<1>5. Children(id) \cap Listed \subseteq disturbed
  BY <1>1 DEF NotYetListed
<1>6. \A other \in Ids \ {id} : Children(id) \cap ListedBy(other) \subseteq disturbed
  BY <1>5, ListedByListed
<1>7. OnceOK'
  BY <1>2, <1>3, <1>4, <1>6, PutOnce
<1>8. Listed' \subseteq Listed \cup Children(id)
  BY <1>2, <1>3, PutLists
<1>9. \A other \in Ids \ Stored' : other # id /\ Children(other) \cap Children(id) = {}
  <2>1. id \in Stored'
    BY <1>2, ModelAssumption DEF Stored, TopicsOK
  <2> QED
    BY <2>1 DEF OnePlaceEach
<1>10. NotYetListed'
  BY <1>8, <1>9 DEF NotYetListed, Children, RangeOf, subtopicsOf
<1> QED
  BY <1>7, <1>10

(* A topic is added to the list of the one parent it has.                  *)
LEMMA ListOnce ==
  ASSUME ScriptsInv, OnceInv, ListStep, Stored \subseteq Stored',
         disturbed \subseteq disturbed'
  PROVE  OnceOK' /\ NotYetListed'
<1> USE DEF ScriptsInv, OnceInv
<1>1. step = "updateTopic" /\ parentTopic \in TopicDoc /\ stack # <<>>
  BY ParentIsTopic, TopType DEF ListStep
<1>2. PICK p \in Ids : p = top.parentID
  BY <1>1, ParentIsTopic
<1>3. topics' = [topics EXCEPT ![p] = parentTopic] /\ TopicsOK /\ p \in Stored
  BY <1>2 DEF ListStep, parentStored, SafetyInv, TypeOK, TopicsOK
<1>4. /\ \A list \in ListsIn(parentTopic) : NoRepeat(list)
      /\ \A other \in Ids \ {p} : ListsOf(parentTopic) \cap ListedBy(other) \subseteq disturbed
      /\ ListsOf(parentTopic) \subseteq Placed \cup {top.id}
  BY <1>1, <1>2 DEF ListingOK
<1>5. OnceOK'
  BY <1>1, <1>3, <1>4, PutOnce
<1>6. Listed' \subseteq Placed \cup {top.id}
  <2>1. Listed' \subseteq Listed \cup ListsOf(parentTopic)
    BY <1>1, <1>3, PutLists
  <2> QED
    BY <1>4, <2>1 DEF Placed
<1>7. \A id \in Ids : top.id \in Children(id) => id = p
  <2>1. top \in RangeOf(stack)
    BY <1>1, RangeTail DEF ControlOK, top
  <2> QED
    BY <1>2, <2>1 DEF PlacesOK, InPlace
<1>8. \A id \in Ids \ Stored' : /\ Children(id) \cap Listed \subseteq disturbed
                                /\ top.id \notin Children(id)
  BY <1>3, <1>7 DEF NotYetListed
<1>9. NotYetListed'
  BY <1>6, <1>8 DEF NotYetListed, Placed, Children, RangeOf, subtopicsOf
<1> QED
  BY <1>5, <1>9

LEMMA OnceStep ==
  ASSUME OnePlaceEach, ScriptsInv, OnceInv, [ScriptsNext]_allVars
  PROVE  OnceOK' /\ NotYetListed'
<1> USE DEF ScriptsInv, OnceInv
<1>1. CASE wipe
  <2>1. \A id \in Ids : listsOf(id)' = {} /\ ListedBy(id)' = {}
    BY <1>1 DEF wipe, ListedBy, listsOf, versions
  <2>2. Listed' = {}
    BY <1>1 DEF wipe, Listed, listsOf, versions
  <2> QED
    BY <2>1, <2>2 DEF OnceOK, NotYetListed
<1>2. CASE UNCHANGED topics /\ disturbed \subseteq disturbed'
  <2>1. /\ \A id \in Ids : listsOf(id)' = listsOf(id) /\ ListedBy(id)' = ListedBy(id)
        /\ Listed' = Listed /\ Stored' = Stored
    BY <1>2 DEF Listed, ListedBy, listsOf, versions, Stored
  <2>2. ASSUME NEW id \in Ids, NEW list \in listsOf(id)
        PROVE  NoRepeat(list)'
    BY <1>2, <2>2, RepeatsKept DEF OnceOK
  <2>3. OnceOK'
    BY <1>2, <2>1, <2>2 DEF OnceOK
  <2> QED
    BY <1>2, <2>1, <2>3 DEF NotYetListed, Children, RangeOf, subtopicsOf
<1>3. CASE UNCHANGED allVars
  BY <1>2, <1>3 DEF allVars, vars, histories
<1>4. CASE ScriptsNext /\ ~wipe
  <2>1. ObserveScripts /\ Stored \subseteq Stored' /\ disturbed \subseteq disturbed'
    BY <1>4, ScriptStored, DisturbedGrows DEF ScriptsNext
  <2>2. CASE UNCHANGED scriptVars
    BY <2>1, <2>2, ServiceOnce
  <2>3. CASE InsertStep
    BY <1>2, <2>1, <2>3, InsertOnce DEF InsertStep, insertedDoc
  <2>4. CASE ListStep
    BY <2>1, <2>4, ListOnce
  <2>5. CASE ScriptStep
    BY <1>2, <1>4, <2>1, <2>2, <2>3, <2>4, <2>5, ScriptWrites DEF updateTopicReleaseData
  <2> QED
    BY <1>4, <2>2, <2>5 DEF ScriptsNext
<1> QED
  BY <1>1, <1>3, <1>4

(* The topics that a script is to create have their places.                *)

LEMMA PlacesCalled ==
  ASSUME NEW parentID \in Ids \cup {Nil}, NEW id \in Ids, NEW callers \in Seq(Frame),
         Call(parentID, id, callers),
         \A f \in Ids : id \in Children(f) => f = parentID,
         \A frame \in RangeOf(callers) : InPlace(frame),
         \A item \in RangeOf(todo') : \A f \in Ids : item.ids \cap Children(f) = {}
  PROVE  PlacesOK'
<1> DEFINE new == [parentID |-> parentID, id |-> id, left |-> subtopicsOf(id)]
<1>1. new \in Frame /\ stack' = <<new>> \o callers /\ new.id = id /\ new.parentID = parentID
  BY SubtopicsType DEF Frame, Call
<1> HIDE DEF new
<1>2. RangeOf(stack') \subseteq {new} \cup RangeOf(callers)
  BY <1>1, RangePush
<1>3. \A frame \in RangeOf(stack') : InPlace(frame)
  BY <1>1, <1>2 DEF InPlace
<1> QED
  BY <1>3 DEF PlacesOK, InPlace, Children, RangeOf, subtopicsOf

LEMMA PlacesStep ==
  ASSUME OnePlaceEach, ScriptsInv, FramesOK, PlacesOK, [ScriptsNext]_allVars
  PROVE  PlacesOK'
<1> USE DEF ScriptsInv
<1>0. <<>> \in Seq(Frame) /\ RangeOf(<<>>) = {}
  BY DEF RangeOf
<1>1. CASE RangeOf(stack') \subseteq RangeOf(stack) /\ RangeOf(todo') \subseteq RangeOf(todo)
  BY <1>1 DEF PlacesOK, InPlace, Children, RangeOf, subtopicsOf
<1>2. CASE seedDatabase
  <2>1. Call(Nil, TopicRoot, <<>>) /\ TopicRoot \in Ids
    BY <1>2, ScriptAssumption DEF seedDatabase
  <2>2. \A item \in RangeOf(todo') : item.ids \subseteq RangeOf(SeedTopics)
    BY <1>2 DEF seedDatabase, RangeOf
  <2> QED
    BY <1>0, <2>1, <2>2, PlacesCalled DEF OnePlaceEach
<1>3. CASE addTopics
  <2>1. todo' = AddTopics /\ RangeOf(stack') = {}
    BY <1>0, <1>3, StartType DEF addTopics
  <2> QED
    BY <2>1 DEF PlacesOK, OnePlaceEach, Children, RangeOf, subtopicsOf
<1>4. CASE End
  BY <1>0, <1>1, <1>4 DEF End
<1>5. CASE forEach
  <2>1. ASSUME todo # <<>>, NEW id \in itemIDs(Head(todo)),
               Call(Head(todo).parentID, id, <<>>), todo' = Tail(todo)
        PROVE  PlacesOK'
    <3>1. Head(todo) \in ScriptItem
      BY <2>1, PopFront DEF ControlOK
    <3>2. Head(todo).parentID \in Ids /\ id \in Ids /\ id \in Head(todo).ids
      BY <2>1, <3>1 DEF ScriptItem, itemIDs
    <3>3. RangeOf(todo') \subseteq RangeOf(todo) /\ Head(todo) \in RangeOf(todo)
      BY <2>1, RangeTail DEF ControlOK
    <3>4. \A f \in Ids : id \notin Children(f)
      BY <3>2, <3>3 DEF PlacesOK
    <3>5. \A item \in RangeOf(todo') : \A f \in Ids : item.ids \cap Children(f) = {}
      BY <3>3 DEF PlacesOK
    <3> QED
      BY <1>0, <2>1, <3>2, <3>4, <3>5, PlacesCalled
  <2> QED
    BY <1>4, <1>5, <2>1 DEF forEach
<1>6. CASE createSubtopic
  <2>1. /\ step = "createTopic" /\ todo' = todo
        /\ stack # <<>> /\ top \in Frame /\ top.left \in Seq(Ids) /\ top.left # <<>>
        /\ top.id \in Ids /\ Tail(stack) \in Seq(Frame)
    BY <1>6, TopType DEF createSubtopic, Runs
  <2> DEFINE caller  == [top EXCEPT !.left = Tail(@)]
             callers == <<caller>> \o Tail(stack)
  <2>2. Call(top.id, Head(top.left), callers)
    BY <1>6 DEF createSubtopic
  <2>3. Head(top.left) \in Ids /\ Tail(top.left) \in Seq(Ids)
    BY <2>1, PopFront
  <2>4. caller \in Frame /\ caller.id = top.id /\ caller.parentID = top.parentID
    BY <2>1, <2>3 DEF Frame
  <2>5. callers \in Seq(Frame) /\ RangeOf(callers) \subseteq {caller} \cup RangeOf(Tail(stack))
    <3> HIDE DEF caller
    <3> QED
      BY <2>1, <2>4, PushFront, RangePush
  <2>6. RangeOf(Tail(stack)) \cup {top} \subseteq RangeOf(stack)
    BY <2>1, RangeTail DEF ControlOK, top
  <2> HIDE DEF caller, callers
  <2>7. \A frame \in RangeOf(callers) : InPlace(frame)
    BY <2>4, <2>5, <2>6 DEF PlacesOK, InPlace
  <2>8. Head(top.left) \in Children(top.id)
    <3>1. top = stack[1] /\ 1 \in DOMAIN stack
      BY <2>1, PopIndex DEF ControlOK, top
    <3>2. RangeOf(top.left) \subseteq Children(top.id)
      BY <3>1 DEF FramesOK
    <3> QED
      BY <2>1, <3>2, RangeTail
  <2>9. \A f \in Ids : Head(top.left) \in Children(f) => f = top.id
    BY <2>1, <2>8 DEF OnePlaceEach
  <2>10. \A item \in RangeOf(todo') : \A f \in Ids : item.ids \cap Children(f) = {}
    BY <2>1 DEF PlacesOK
  <2> QED
    BY <2>1, <2>2, <2>3, <2>5, <2>7, <2>9, <2>10, PlacesCalled
<1>7. CASE Return /\ step \notin {"idle", "forEach"} /\ todo' = todo
  BY <1>1, <1>7, TopType, RangeTail DEF Return, ControlOK
<1>8. CASE UNCHANGED <<stack, todo>>
  BY <1>1, <1>8
<1>9. CASE ScriptStep
  BY <1>2, <1>3, <1>4, <1>5, <1>6, <1>7, <1>8, <1>9
     DEF ScriptStep, ScriptCall, findTopicByID, findTopicBySlug, insertOne,
         insertContent, findParent, updateTopic, addSubtopicThrows, scriptStops, wipe,
         updateTopicReleaseData, Inserted, Goes, Runs, scriptVars
<1> QED
  BY <1>8, <1>9 DEF ScriptsNext, scriptVars, allVars

(* A topic that was inserted is listed nowhere until its parent is written. *)

LEMMA KeptListing ==
  ASSUME ListingOK, UNCHANGED <<step, stack, inserted, parentTopic>>,
         disturbed \subseteq disturbed', Placed \subseteq Placed',
         \A id \in Ids : ListedBy(id)' \subseteq ListedBy(id) \cup disturbed'
  PROVE  ListingOK'
<1>1. top' = top /\ ListsIn(parentTopic)' = ListsIn(parentTopic)
      /\ ListsOf(parentTopic)' = ListsOf(parentTopic)
  BY DEF top, ListsIn, ListsOf, RangeOf
<1>2. Listed' \subseteq Listed \cup disturbed'
  BY DEF Listed, ListedBy
<1>3. step = "findParent" \/ (step = "insertContent" /\ inserted) =>
        (top.id \in Listed' => top.id \in disturbed')
  BY <1>2 DEF ListingOK
<1>4. ASSUME step = "updateTopic"
      PROVE  /\ \A list \in ListsIn(parentTopic) : NoRepeat(list)'
             /\ \A other \in Ids \ {top.parentID} :
                  ListsOf(parentTopic) \cap ListedBy(other)' \subseteq disturbed'
             /\ ListsOf(parentTopic) \subseteq Placed' \cup {top.id}
  <2>1. ASSUME NEW list \in ListsIn(parentTopic)
        PROVE  NoRepeat(list)'
    <3>1. NoRepeat(list)
      BY <1>4, <2>1 DEF ListingOK
    <3> QED
      BY <3>1, RepeatsKept
  <2>2. ASSUME NEW other \in Ids \ {top.parentID}
        PROVE  ListsOf(parentTopic) \cap ListedBy(other)' \subseteq disturbed'
    <3>1. ListsOf(parentTopic) \cap ListedBy(other) \subseteq disturbed
      BY <1>4, <2>2 DEF ListingOK
    <3> QED
      BY <3>1
  <2>3. ListsOf(parentTopic) \subseteq Placed' \cup {top.id}
    BY <1>4 DEF ListingOK
  <2> QED
    BY <2>1, <2>2, <2>3
<1> QED
  BY <1>1, <1>3, <1>4 DEF ListingOK

LEMMA FoundParentListing ==
  ASSUME ScriptsInv, OnceInv, findParent, ~Return, disturbed \subseteq disturbed'
  PROVE  ListingOK'
<1> USE DEF ScriptsInv, OnceInv
<1>1. /\ step = "findParent" /\ step' = "updateTopic"
      /\ topics' = topics /\ stack' = stack
      /\ parentStored
      /\ HasList(topics[top.parentID].next) /\ HasList(topics[top.parentID].current)
      /\ parentTopic' = addedTo(topics[top.parentID], top.id)
  BY DEF findParent, Runs
<1>2. PICK p \in Ids : p = top.parentID
  BY <1>1 DEF parentStored, Stored
<1>3. PICK id \in Ids : id = top.id
  BY <1>1, TopType
<1>4. topics[p] \in TopicDoc /\ p \in Stored
  BY <1>1, <1>2 DEF parentStored, Stored, SafetyInv, TypeOK
<1>5. /\ topics[p].current \in Version /\ topics[p].next \in Version
      /\ parentTopic'.current = Pushed(topics[p].current, id)
      /\ parentTopic'.next = Pushed(topics[p].next, id)
  BY <1>1, <1>2, <1>3, <1>4, AddedType DEF TopicDoc
<1>6. id \in Listed => id \in disturbed
  BY <1>1, <1>3 DEF ListingOK
<1>7. ASSUME NEW v \in {topics[p].current, topics[p].next}
      PROVE  /\ NoRepeat(Pushed(v, id).subtopics)
             /\ RangeOf(Pushed(v, id).subtopics) \subseteq ListedBy(p) \cup {id}
  <2>1. v \in Version /\ HasList(v)
    BY <1>1, <1>2, <1>5
  <2>2. v.subtopics \in Seq(Ids) /\ v.subtopics # Nil /\ v # Nil
    BY <2>1, ModelAssumption DEF HasList, Version
  <2>3. Pushed(v, id).subtopics = Append(v.subtopics, id)
    BY <1>3, <2>1, PushedType
  <2>4. v.subtopics \in listsOf(p)
    BY <1>4, <2>2, ModelAssumption DEF listsOf, versions
  <2>5. RangeOf(v.subtopics) \subseteq ListedBy(p)
    BY <2>4 DEF ListedBy
  <2>6. RangeOf(Append(v.subtopics, id)) \subseteq ListedBy(p) \cup {id}
    BY <1>3, <2>2, <2>5, RangeAppend
  <2>7. NoRepeat(v.subtopics)
    BY <2>4 DEF OnceOK
  <2>8. id \in RangeOf(v.subtopics) => id \in disturbed
    BY <1>6, <2>5, ListedByListed
  <2>9. NoRepeat(Append(v.subtopics, id))
    BY <1>3, <2>2, <2>7, <2>8, NoRepeatAppend
  <2> QED
    BY <2>3, <2>6, <2>9
<1>8. \A list \in ListsIn(parentTopic') :
        NoRepeat(list) /\ RangeOf(list) \subseteq ListedBy(p) \cup {id}
  BY <1>5, <1>7 DEF ListsIn
<1>9. ListsOf(parentTopic') \subseteq ListedBy(p) \cup {id}
  BY <1>8 DEF ListsIn, ListsOf
<1>10. /\ \A i \in Ids : ListedBy(i)' = ListedBy(i)
       /\ Listed' = Listed /\ top' = top
  BY <1>1 DEF ListedBy, Listed, listsOf, versions, top
<1>11. \A other \in Ids \ {p} : ListsOf(parentTopic') \cap ListedBy(other) \subseteq disturbed
  <2> SUFFICES ASSUME NEW other \in Ids \ {p}
               PROVE  ListsOf(parentTopic') \cap ListedBy(other) \subseteq disturbed
    OBVIOUS
  <2>1. ListedBy(p) \cap ListedBy(other) \subseteq disturbed
    BY DEF OnceOK
  <2> QED
    BY <1>6, <1>9, <2>1, ListedByListed
<1>12. ListsOf(parentTopic') \subseteq Placed \cup {id}
  BY <1>9, ListedByListed DEF Placed
<1>13. \A list \in ListsIn(parentTopic') : NoRepeat(list)'
  BY <1>8, RepeatsKept
<1>14. /\ ListsIn(parentTopic)' = ListsIn(parentTopic')
       /\ ListsOf(parentTopic)' = ListsOf(parentTopic')
  BY DEF ListsIn, ListsOf, RangeOf
<1>15. Placed \subseteq Placed'
  BY <1>10 DEF Placed
<1>16. \A other \in Ids \ {p} :
         ListsOf(parentTopic') \cap ListedBy(other)' \subseteq disturbed'
  BY <1>10, <1>11
<1>17. top'.parentID = p /\ top'.id = id
  BY <1>2, <1>3, <1>10
<1> QED
  BY <1>1, <1>12, <1>13, <1>14, <1>15, <1>16, <1>17 DEF ListingOK

LEMMA LeftListing ==
  ASSUME \/ step' \notin {"insertContent", "findParent", "updateTopic"}
         \/ step' = "insertContent" /\ ~inserted'
  PROVE  ListingOK'
BY DEF ListingOK

(* What was just inserted is listed nowhere: it was not stored before, and *)
(* what is listed is stored.                                               *)
LEMMA InsertedListing ==
  ASSUME ScriptsInv, ListedInv, OneDocumentInv, insertOne, Goes("insertContent"),
         disturbed \subseteq disturbed'
  PROVE  ListingOK'
<1> USE DEF ScriptsInv
<1>1. step = "insertOne" /\ inserted /\ step' = "insertContent" /\ stack' = stack
      /\ top' = top
  BY DEF insertOne, Runs, Goes, OneDocumentInv, top
<1>2. CASE ~inserted'
  BY <1>1, <1>2, LeftListing
<1>3. CASE topics' = insertedDoc
  <2>1. CASE top.id \in Stored
    BY <1>1, <2>1 DEF OneDocumentInv, ListingOK
  <2>2. CASE top.id \notin Stored
    <3>1. PICK id \in Ids : id = top.id
      BY <1>1, TopType
    <3>2. topics' = [topics EXCEPT ![id] = generateTopic(id)]
          /\ generateTopic(id) \in TopicDoc /\ TopicsOK
      BY <1>3, <2>2, <3>1, SeedType DEF insertedDoc, SafetyInv, TypeOK, TopicsOK
    <3>3. Listed' \subseteq Listed \cup Children(id)
      BY <3>2, PutLists, SeedLists
    <3>4. Listed \subseteq Known
      BY DEF ListedInv
    <3>5. id \in Children(id) => id \in Known
      <4>1. top = stack[1] /\ 1 \in DOMAIN stack /\ top.left = <<>>
        BY <1>1, TopType, PopIndex DEF ControlOK, top
      <4>2. Created(stack[1]) \subseteq Known
        BY <4>1 DEF ListedInv, StackOK
      <4>3. Children(id) \subseteq Created(stack[1])
        BY <3>1, <4>1 DEF Created, Children, RangeOf
      <4> QED
        BY <4>2, <4>3
    <3>6. id \in Listed' => id \in disturbed'
      BY <2>2, <3>1, <3>3, <3>4, <3>5 DEF Known
    <3> QED
      BY <1>1, <3>1, <3>6 DEF ListingOK
  <2> QED
    BY <2>1, <2>2
<1> QED
  BY <1>2, <1>3 DEF insertOne

LEMMA ListingStep ==
  ASSUME ScriptsInv, ListedInv, OneDocumentInv, CallsOK, OnceInv, [ScriptsNext]_allVars
  PROVE  ListingOK'
<1> USE DEF ScriptsInv, OnceInv
<1>1. CASE UNCHANGED allVars
  <2>1. /\ disturbed' = disturbed /\ Placed' = Placed
        /\ \A id \in Ids : ListedBy(id)' = ListedBy(id)
    BY <1>1 DEF allVars, vars, histories, Placed, Listed, ListedBy, listsOf, versions
  <2> QED
    BY <1>1, <2>1, KeptListing DEF allVars, scriptVars
<1>2. CASE wipe
  BY <1>2, LeftListing DEF wipe, Start
<1>3. CASE ScriptsNext /\ ~wipe
  <2>0. ObserveScripts /\ Placed \subseteq Placed' /\ disturbed \subseteq disturbed'
    BY <1>3, PlacedGrows, DisturbedGrows DEF ScriptsNext
  <2>1. CASE UNCHANGED scriptVars
    BY <2>0, <2>1, KeptListing, ServiceListedBy DEF scriptVars
  <2>2. CASE Return \/ End \/ \E parentID, id, callers : Call(parentID, id, callers)
    BY <2>2, ReturnLeaves, LeftListing
  <2>3. CASE addTopics
    BY <2>3, LeftListing DEF addTopics
  <2>4. CASE findTopicByID
    BY <2>4, LeftListing DEF findTopicByID, Goes
  <2>5. CASE findTopicBySlug
    BY <2>2, <2>5, LeftListing DEF findTopicBySlug, Inserted, Goes
  <2>6. CASE insertOne
    BY <2>0, <2>2, <2>6, InsertedListing DEF insertOne, Inserted
  <2>7. CASE insertContent /\ ~Return
    <3>1. /\ step = "insertContent" /\ inserted /\ step' = "findParent"
          /\ topics' = topics /\ top' = top
      BY <2>7 DEF insertContent, Runs, Goes, top
    <3>2. Listed' = Listed
      BY <3>1 DEF Listed, listsOf, versions
    <3> QED
      BY <2>0, <3>1, <3>2 DEF ListingOK
  <2>8. CASE findParent /\ ~Return
    BY <2>0, <2>8, FoundParentListing
  <2>9. CASE ScriptStep
    BY <1>3, <2>1, <2>2, <2>3, <2>4, <2>5, <2>6, <2>7, <2>8, <2>9
       DEF ScriptStep, ScriptCall, seedDatabase, forEach, createSubtopic, updateTopic,
           addSubtopicThrows, scriptStops, updateTopicReleaseData
  <2> QED
    BY <1>3, <2>1, <2>9 DEF ScriptsNext
<1> QED
  BY <1>1, <1>2, <1>3

LEMMA OnceInit ==
  ASSUME OnePlaceEach
  PROVE  ScriptsInit => OnceInv
<1> SUFFICES ASSUME ScriptsInit PROVE OnceInv
  OBVIOUS
<1>1. ASSUME NEW id \in Ids
      PROVE  /\ \A list \in listsOf(id) : NoRepeat(list)
             /\ ListedBy(id) \subseteq Children(id)
             /\ id \notin Stored => ListedBy(id) = {}
  <2>1. /\ listsOf(id) \subseteq {subtopicsOf(id)}
        /\ id \notin Stored => listsOf(id) = {}
    BY ListsAtStart
  <2> QED
    BY <2>1 DEF OnePlaceEach, NoRepeat, ListedBy, Children
<1>2. OnceOK
  BY <1>1 DEF OnceOK, OnePlaceEach
<1>3. NotYetListed
  <2> SUFFICES ASSUME NEW id \in Ids \ Stored PROVE Children(id) \cap Listed = {}
    BY DEF NotYetListed
  <2>1. \A other \in Ids : Children(id) \cap ListedBy(other) = {}
    BY <1>1 DEF OnePlaceEach
  <2> QED
    BY <2>1, ListedByListed
<1>4. PlacesOK /\ ListingOK
  BY DEF ScriptsInit, PlacesOK, ListingOK, RangeOf
<1> QED
  BY <1>2, <1>3, <1>4 DEF OnceInv

LEMMA OnceInvStep ==
  ASSUME OnePlaceEach
  PROVE  ScriptsInv /\ ListedInv /\ OneDocumentInv /\ FramesOK /\ CallsOK /\ OnceInv
           /\ [ScriptsNext]_allVars => OnceInv'
BY OnceStep, PlacesStep, ListingStep DEF OnceInv

(* A topic that is created again, by a script that is run again or after   *)
(* one that was killed anywhere, beside any writes of the service, is not  *)
(* listed a second time, nor by a second topic, but for what was           *)
(* interfered with: insertTopic prevents it, addSubtopic does not look.    *)
THEOREM TopicsListedOnce ==
  ASSUME OnePlaceEach
  PROVE  ScriptsSpec => []ListedOnce
<1> DEFINE Inv == /\ ScriptsInv /\ ListedInv /\ OneDocumentInv
                  /\ FramesOK /\ CallsOK /\ OnceInv
<1>1. Inv => ListedOnce
  BY OnceOKListedOnce DEF OnceInv
<1>2. ScriptsInit => Inv
  <2>1. ScriptsInit => FramesOK /\ CallsOK /\ OneDocumentInv
    BY DEF ScriptsInit, Init, FramesOK, CallsOK, OneDocumentInv
  <2> QED
    BY <2>1, ScriptsInvInit, ListedInit, OnceInit
<1>3. Inv /\ [ScriptsNext]_allVars => Inv'
  BY ScriptsInvStep, ListedStep, OneDocumentStep, FramesStep, CallsStep, OnceInvStep
<1> QED
  BY <1>1, <1>2, <1>3, PTL DEF ScriptsSpec

=============================================================================
