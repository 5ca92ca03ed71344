--------------------------- MODULE ScriptsProofs ---------------------------
(***************************************************************************)
(* Theorems about TopicScripts: what holds of the collection when the      *)
(* operator's scripts run beside the service, for every set of topics and  *)
(* every tree of topics that the scripts build.                            *)
(***************************************************************************)
EXTENDS TopicScripts, PublishingProofs

-----------------------------------------------------------------------------
(* Lemmas about sequences and about the pure operators.                    *)

LEMMA PushFront ==
  ASSUME NEW S, NEW x \in S, NEW s \in Seq(S)
  PROVE  /\ <<x>> \o s \in Seq(S)
         /\ <<x>> \o s # <<>>
         /\ Head(<<x>> \o s) = x
         /\ Tail(<<x>> \o s) = s
OBVIOUS

LEMMA PopFront ==
  ASSUME NEW S, NEW s \in Seq(S), s # <<>>
  PROVE  Head(s) \in S /\ Tail(s) \in Seq(S)
OBVIOUS

LEMMA PushBack ==
  ASSUME NEW S, NEW x \in S, NEW s \in Seq(S)
  PROVE  Append(s, x) \in Seq(S) /\ Append(s, x) # <<>>
<1>1. Append(s, x) \in Seq(S) /\ Len(Append(s, x)) = Len(s) + 1
  OBVIOUS
<1>2. Len(s) \in Nat /\ Len(<<>>) = 0
  OBVIOUS
<1> QED
  BY <1>1, <1>2

LEMMA RangeType ==
  ASSUME NEW S, NEW s \in Seq(S)
  PROVE  RangeOf(s) \subseteq S
BY DEF RangeOf

(* The subtopics that a script creates for a topic.                        *)
LEMMA SubtopicsType ==
  ASSUME NEW id \in Ids
  PROVE  subtopicsOf(id) \in Seq(Ids)
BY SeedType DEF subtopicsOf, Version

(* Adding a subtopic to a version that has a list.                         *)
LEMMA PushedType ==
  ASSUME NEW v \in Version, HasList(v), NEW id \in Ids
  PROVE  /\ Pushed(v, id) \in Version
         /\ Pushed(v, id).state = v.state
         /\ Pushed(v, id).subtopics = Append(v.subtopics, id)
         /\ Tidy(v) => Tidy(Pushed(v, id))
<1>1. v.subtopics \in Seq(Ids)
  BY DEF HasList, Version
<1>2. /\ Append(v.subtopics, id) \in Seq(Ids)
      /\ Append(v.subtopics, id) # <<>>
      /\ Append(v.subtopics, id) # Nil
  BY <1>1, PushBack, ModelAssumption
<1>3. /\ Pushed(v, id) \in Version
      /\ Pushed(v, id).state = v.state
      /\ Pushed(v, id).subtopicsLink = v.subtopicsLink
      /\ Pushed(v, id).subtopics = Append(v.subtopics, id)
  BY <1>2 DEF Pushed, Version
<1> QED
  BY <1>1, <1>2, <1>3, ModelAssumption DEF Tidy, Linked

-----------------------------------------------------------------------------
(* The control of a script, as ScriptTypeOK states it.                     *)

ControlOK ==
  /\ step \in Steps
  /\ stack \in Seq(Frame)
  /\ todo \in Seq(ScriptItem)
  /\ inserted \in BOOLEAN
  /\ parentTopic \in TopicDoc \cup {Nil}
  /\ runs \in Nat
  /\ stack = <<>> <=> step \in {"idle", "forEach"}
  /\ step = "idle" => todo = <<>>
  /\ step \notin {"idle", "forEach", "createTopic"} => top.left = <<>>
  /\ step \in {"insertContent", "findParent", "updateTopic"} => top.parentID # Nil
  /\ parentTopic # Nil <=> step = "updateTopic"

LEMMA TopType ==
  ASSUME ControlOK, step \notin {"idle", "forEach"}
  PROVE  /\ stack # <<>>
         /\ top \in Frame
         /\ top.id \in Ids
         /\ top.left \in Seq(Ids)
         /\ top.parentID \in Ids \cup {Nil}
         /\ Tail(stack) \in Seq(Frame)
<1>1. stack # <<>> /\ stack \in Seq(Frame)
  BY DEF ControlOK
<1>2. Head(stack) \in Frame /\ Tail(stack) \in Seq(Frame)
  BY <1>1, PopFront
<1> QED
  BY <1>1, <1>2 DEF top, Frame

LEMMA GoesType ==
  ASSUME ControlOK, NEW call \in Steps, Goes(call), UNCHANGED <<todo, runs>>,
         inserted' \in BOOLEAN,
         step \notin {"idle", "forEach", "updateTopic"},
         call \notin {"idle", "forEach", "createTopic", "updateTopic"},
         top.left = <<>>,
         call \in {"insertContent", "findParent"} => top.parentID # Nil
  PROVE  ControlOK'
BY DEF ControlOK, Goes, top

LEMMA CallType ==
  ASSUME ControlOK, parentTopic = Nil,
         NEW parentID \in Ids \cup {Nil}, NEW id \in Ids, NEW callers \in Seq(Frame),
         Call(parentID, id, callers),
         todo' \in Seq(ScriptItem), runs' \in Nat, inserted' \in BOOLEAN
  PROVE  ControlOK'
<1> DEFINE frame == [parentID |-> parentID, id |-> id, left |-> subtopicsOf(id)]
<1>1. frame \in Frame
  BY SubtopicsType DEF Frame
<1>2. stack' \in Seq(Frame) /\ stack' # <<>>
  BY <1>1, PushFront DEF Call
<1> QED
  BY <1>2 DEF ControlOK, Call, Steps

LEMMA ReturnType ==
  ASSUME ControlOK, Return, step \notin {"idle", "forEach"},
         UNCHANGED <<todo, runs>>, inserted' \in BOOLEAN
  PROVE  ControlOK'
BY TopType DEF ControlOK, Return, Steps

LEMMA EndType ==
  ASSUME ControlOK, End
  PROVE  ControlOK'
<1>1. <<>> \in Seq(Frame) /\ <<>> \in Seq(ScriptItem)
  OBVIOUS
<1> QED
  BY <1>1 DEF ControlOK, End, Steps

(* The copy of the parent, with the subtopic in both lists.                *)
LEMMA AddedType ==
  ASSUME NEW doc \in TopicDoc, NEW id \in Ids, HasList(doc.next), HasList(doc.current)
  PROVE  /\ addedTo(doc, id) \in TopicDoc
         /\ addedTo(doc, id) # Nil
         /\ doc.current \in Version
         /\ addedTo(doc, id).current = Pushed(doc.current, id)
         /\ addedTo(doc, id).next = Pushed(doc.next, id)
<1>1. doc.next \in Version /\ doc.current \in Version
  BY DEF HasList, TopicDoc
<1>2. Pushed(doc.next, id) \in Version /\ Pushed(doc.current, id) \in Version
  BY <1>1, PushedType
<1>3. addedTo(doc, id) \in TopicDoc
  BY <1>2 DEF addedTo, TopicDoc
<1> QED
  BY <1>1, <1>3, ModelAssumption DEF addedTo

LEMMA SeedItemsType ==
  [i \in DOMAIN SeedTopics |->
     [parentID |-> TopicRoot, ids |-> {SeedTopics[i]}, unused |-> FALSE]]
  \in Seq(ScriptItem)
<1>1. /\ Len(SeedTopics) \in Nat
      /\ DOMAIN SeedTopics = 1 .. Len(SeedTopics)
      /\ \A i \in 1 .. Len(SeedTopics) : SeedTopics[i] \in Ids
  BY ScriptAssumption
<1> DEFINE items == [i \in DOMAIN SeedTopics |->
                       [parentID |-> TopicRoot, ids |-> {SeedTopics[i]}, unused |-> FALSE]]
<1>2. items \in [1 .. Len(SeedTopics) -> ScriptItem]
  BY <1>1, ScriptAssumption DEF ScriptItem
<1> HIDE DEF items
<1>3. items \in Seq(ScriptItem)
  BY <1>1, <1>2
<1> QED
  BY <1>3 DEF items

LEMMA StartType ==
  ASSUME ControlOK, Start
  PROVE  step = "idle" /\ stack = <<>> /\ todo = <<>> /\ parentTopic = Nil /\ runs' \in Nat
BY DEF ControlOK, Start

LEMMA ForEachControl ==
  ASSUME ControlOK, forEach
  PROVE  ControlOK'
<1>1. parentTopic = Nil /\ <<>> \in Seq(Frame)
  BY DEF ControlOK, forEach
<1>2. CASE End
  BY <1>2, EndType
<1>3. ASSUME todo # <<>>, NEW id \in itemIDs(Head(todo)),
             Call(Head(todo).parentID, id, <<>>), todo' = Tail(todo),
             UNCHANGED <<inserted, runs>>
      PROVE  ControlOK'
  <2>1. Head(todo) \in ScriptItem /\ todo' \in Seq(ScriptItem)
    BY <1>3, PopFront DEF ControlOK
  <2>2. Head(todo).parentID \in Ids /\ id \in Ids
    BY <1>3, <2>1 DEF ScriptItem, itemIDs
  <2>3. inserted' \in BOOLEAN /\ runs' \in Nat
    BY <1>3 DEF ControlOK
  <2> QED
    BY <1>1, <1>3, <2>1, <2>2, <2>3, CallType
<1> QED
  BY <1>2, <1>3 DEF forEach

LEMMA CreateSubtopicControl ==
  ASSUME ControlOK, createSubtopic
  PROVE  ControlOK'
<1>1. step = "createTopic" /\ top.left # <<>> /\ parentTopic = Nil
  BY DEF createSubtopic, Runs, ControlOK
<1>2. top \in Frame /\ top.id \in Ids /\ top.left \in Seq(Ids) /\ Tail(stack) \in Seq(Frame)
  BY <1>1, TopType
<1>3. Head(top.left) \in Ids /\ Tail(top.left) \in Seq(Ids)
  BY <1>1, <1>2, PopFront
<1> DEFINE callers == <<[top EXCEPT !.left = Tail(@)]>> \o Tail(stack)
<1>4. [top EXCEPT !.left = Tail(@)] \in Frame
  BY <1>2, <1>3 DEF Frame
<1>5. callers \in Seq(Frame)
  BY <1>2, <1>4, PushFront
<1>6. Call(top.id, Head(top.left), callers)
  BY DEF createSubtopic
<1>7. todo' \in Seq(ScriptItem) /\ runs' \in Nat /\ inserted' \in BOOLEAN
  BY DEF createSubtopic, Runs, ControlOK
<1> HIDE DEF callers
<1> QED
  BY <1>1, <1>2, <1>3, <1>5, <1>6, <1>7, CallType

LEMMA InsertedControl ==
  ASSUME ControlOK, Inserted, Runs("findTopicBySlug") \/ Runs("insertOne"),
         inserted' \in BOOLEAN
  PROVE  ControlOK'
<1>1. /\ step \in {"findTopicBySlug", "insertOne"}
      /\ top.left = <<>>
      /\ UNCHANGED <<todo, runs>>
  BY DEF Runs, ControlOK
<1>2. CASE Return
  BY <1>1, <1>2, ReturnType
<1>3. CASE top.parentID # Nil /\ Goes("insertContent")
  BY <1>1, <1>3, GoesType DEF Steps
<1> QED
  BY <1>2, <1>3 DEF Inserted

LEMMA FindParentControl ==
  ASSUME ControlOK, TopicsOK, findParent
  PROVE  ControlOK'
<1>1. step = "findParent" /\ UNCHANGED <<todo, runs>> /\ inserted' \in BOOLEAN
  BY DEF findParent, Runs, ControlOK
<1>2. CASE Return
  BY <1>1, <1>2, ReturnType
<1>3. CASE ~Return
  <2> DEFINE doc == topics[top.parentID]
  <2>1. /\ parentStored
        /\ HasList(doc.next) /\ HasList(doc.current)
        /\ parentTopic' = addedTo(doc, top.id)
        /\ step' = "updateTopic"
        /\ UNCHANGED stack
    BY <1>3 DEF findParent
  <2>2. doc \in TopicDoc
    BY <2>1 DEF parentStored, Stored, TopicsOK
  <2>3. top.id \in Ids
    BY <1>1, TopType
  <2>4. parentTopic' \in TopicDoc /\ parentTopic' # Nil
    BY <2>1, <2>2, <2>3, AddedType
  <2> QED
    BY <1>1, <2>1, <2>4 DEF ControlOK, top, Steps
<1> QED
  BY <1>2, <1>3

(* Every step of a script leaves it where its calls belong.                *)
LEMMA ControlStep ==
  ASSUME ControlOK, TopicsOK, ScriptStep
  PROVE  ControlOK'
<1>1. CASE seedDatabase
  <2>1. Call(Nil, TopicRoot, <<>>) /\ TopicRoot \in Ids /\ <<>> \in Seq(Frame)
    BY <1>1, ScriptAssumption DEF seedDatabase
  <2>2. todo' \in Seq(ScriptItem) /\ runs' \in Nat /\ inserted' \in BOOLEAN
        /\ parentTopic = Nil
    BY <1>1, SeedItemsType, StartType DEF seedDatabase, ControlOK
  <2> QED
    BY <2>1, <2>2, CallType
<1>2. CASE addTopics
  BY <1>2, StartType, ScriptAssumption DEF addTopics, ControlOK, Steps
<1>3. CASE forEach
  BY <1>3, ForEachControl
<1>4. CASE createSubtopic
  BY <1>4, CreateSubtopicControl
<1>5. CASE findTopicByID
  BY <1>5, GoesType DEF findTopicByID, Runs, Steps
<1>6. CASE findTopicBySlug
  <2>1. Runs("findTopicBySlug") /\ inserted' \in BOOLEAN
    BY <1>6 DEF findTopicBySlug, ControlOK
  <2>2. CASE Goes("insertOne")
    BY <2>1, <2>2, GoesType DEF Runs, ControlOK, Steps
  <2> QED
    BY <1>6, <2>1, <2>2, InsertedControl DEF findTopicBySlug
<1>7. CASE insertOne
  BY <1>7, InsertedControl DEF insertOne
<1>8. CASE insertContent
  <2>1. /\ step = "insertContent" /\ top.left = <<>> /\ top.parentID # Nil
        /\ UNCHANGED <<todo, runs>> /\ inserted' \in BOOLEAN
    BY <1>8 DEF insertContent, Runs, ControlOK
  <2>2. CASE Goes("findParent")
    BY <2>1, <2>2, GoesType DEF Steps
  <2>3. CASE Return
    BY <2>1, <2>3, ReturnType
  <2> QED
    BY <1>8, <2>2, <2>3 DEF insertContent
<1>9. CASE findParent
  BY <1>9, FindParentControl
<1>10. CASE updateTopic
  BY <1>10, ReturnType DEF updateTopic, Runs, ControlOK
<1>11. CASE addSubtopicThrows \/ scriptStops
  BY <1>11, EndType DEF addSubtopicThrows, scriptStops
<1>12. CASE wipe
  BY <1>12 DEF wipe, Start, ControlOK, top
<1>13. CASE updateTopicReleaseData
  BY <1>13 DEF updateTopicReleaseData, scriptVars, ControlOK, top
<1> QED
  BY <1>1, <1>2, <1>3, <1>4, <1>5, <1>6, <1>7, <1>8, <1>9, <1>10, <1>11, <1>12, <1>13
     DEF ScriptStep, ScriptCall

-----------------------------------------------------------------------------
(* What the step of a script does to the collection.                       *)

InsertStep == step = "insertOne" /\ topics' = insertedDoc

ListStep ==
  /\ step = "updateTopic"
  /\ parentStored
  /\ topics' = [topics EXCEPT ![top.parentID] = parentTopic]

LEMMA ScriptWrites ==
  ASSUME ScriptStep
  PROVE  UNCHANGED topics \/ InsertStep \/ ListStep \/ wipe \/ updateTopicReleaseData
BY DEF ScriptStep, ScriptCall, seedDatabase, addTopics, forEach, createSubtopic,
       findTopicByID, findTopicBySlug, insertContent, findParent, addSubtopicThrows,
       scriptStops, insertOne, updateTopic, Runs, InsertStep, ListStep

LEMMA ScriptEffect ==
  ASSUME TopicsOK, ScriptStep
  PROVE  UNCHANGED topics \/ InsertStep \/ ListStep \/ wipe \/ EditStep
<1>1. CASE updateTopicReleaseData
  <2>1. PICK id \in Targets \cap Stored, date \in Dates :
          topics' = [topics EXCEPT ![id] = setReleaseDate(@, date)]
    BY <1>1 DEF updateTopicReleaseData
  <2>2. topics[id] \in TopicDoc /\ id \in Ids
    BY <2>1 DEF Stored, TopicsOK
  <2> QED
    BY <2>1, <2>2, SetReleaseDateDoc, SetReleaseDateIsEdit, EditStepIntro
<1> QED
  BY <1>1, ScriptWrites

(* The copy of the parent that is about to be written holds, as its live   *)
(* version, one that the parent had since it was read, with the subtopic   *)
(* added; both its versions are as the collection's.                       *)
ParentOK ==
  step = "updateTopic" =>
    /\ parentTopic.current # Nil
    /\ parentTopic.current.state = StatePublished
    /\ top.parentID # TopicRoot =>
         Tidy(parentTopic.current) /\ Tidy(parentTopic.next)
    /\ \E v \in parentWindow :
         HasList(v) /\ parentTopic.current = Pushed(v, top.id)

HistoriesOK ==
  /\ disturbed \in SUBSET Ids
  /\ doubled \in SUBSET Ids
  /\ parentWindow \in SUBSET Version

ScriptsInv ==
  /\ SafetyInv
  /\ ControlOK
  /\ HistoriesOK
  /\ ParentOK

LEMMA ParentIsTopic ==
  ASSUME ControlOK, step = "updateTopic"
  PROVE  top.parentID \in Ids /\ parentTopic \in TopicDoc
BY TopType DEF ControlOK

LEMMA ScriptTopics ==
  ASSUME ScriptsInv, ScriptStep
  PROVE  TopicsOK' /\ (LivePublished /\ TidyTopics)'
<1> USE DEF ScriptsInv
<1>0. TopicsOK
  BY DEF SafetyInv, TypeOK, TopicsOK
<1>1. CASE UNCHANGED topics
  BY <1>0, <1>1
     DEF SafetyInv, TopicsOK, LivePublished, TidyTopics, Live, Draft, Tidy, Linked
<1>2. CASE InsertStep
  <2>1. top.id \in Ids
    BY <1>2, TopType DEF InsertStep
  <2>2. CASE top.id \in Stored
    BY <1>1, <1>2, <2>2 DEF InsertStep, insertedDoc
  <2>3. CASE top.id \notin Stored
    <3>1. topics' = [topics EXCEPT ![top.id] = generateTopic(top.id)]
      BY <1>2, <2>3 DEF InsertStep, insertedDoc
    <3>2. generateTopic(top.id) \in TopicDoc
      BY <2>1, SeedType
    <3>3. /\ generateTopic(top.id).current.state = StatePublished
          /\ top.id # TopicRoot => /\ Tidy(generateTopic(top.id).next)
                                   /\ Tidy(generateTopic(top.id).current)
      BY <2>1, StoreAssumption DEF generateTopic, Tidy, Linked
    <3>4. TopicsOK'
      BY <1>0, <2>1, <3>1, <3>2 DEF TopicsOK
    <3> QED
      BY <2>1, <3>1, <3>2, <3>3, <3>4, PutSafe
  <2> QED
    BY <2>2, <2>3
<1>3. CASE ListStep
  <2>1. step = "updateTopic" /\ top.parentID \in Ids /\ parentTopic \in TopicDoc
    BY <1>3, ParentIsTopic DEF ListStep
  <2>2. /\ parentTopic.current.state = StatePublished
        /\ top.parentID # TopicRoot =>
             Tidy(parentTopic.current) /\ Tidy(parentTopic.next)
    BY <2>1 DEF ParentOK
  <2>3. TopicsOK'
    BY <1>0, <1>3, <2>1 DEF ListStep, TopicsOK
  <2> QED
    BY <1>3, <2>1, <2>2, <2>3, PutSafe DEF ListStep
<1>4. CASE wipe
  BY <1>4 DEF wipe, TopicsOK, LivePublished, TidyTopics, Live, Draft
<1>5. CASE EditStep
  BY <1>0, <1>5, EditSafe DEF EditStep, TopicsOK
<1> QED
  BY <1>0, <1>1, <1>2, <1>3, <1>4, <1>5, ScriptEffect

(* A script leaves the requests alone, so the service's invariant holds    *)
(* after its step as before.                                               *)
LEMMA ScriptSafety ==
  ASSUME ScriptsInv, ScriptStep, UNCHANGED <<pc, req, copy, resp>>, Observe
  PROVE  SafetyInv'
<1> USE DEF ScriptsInv
<1>1. TopicsOK' /\ (LivePublished /\ TidyTopics)'
  BY ScriptTopics
<1>2. CoreOK'
  BY <1>1 DEF SafetyInv, TypeOK, CoreOK, TopicsOK, SlotOK
<1>3. TypeOK'
  BY <1>2, ObserveType DEF SafetyInv
<1>4. ASSUME NEW q \in Requests
      PROVE  CopyOK(q)'
  <2>1. pc'[q] = pc[q] /\ copy'[q] = copy[q] /\ req'[q] = req[q]
    OBVIOUS
  <2>2. CASE pc[q] = "UpsertTopic"
    <3>1. window[q] \subseteq window'[q]
      BY <2>1, <2>2, ObserveGrows
    <3> QED
      BY <2>1, <2>2, <3>1 DEF SafetyInv, CopyOK, Tidy, Linked
  <2> QED
    BY <2>1, <2>2 DEF CopyOK
<1>5. ASSUME NEW q \in Requests
      PROVE  WindowOK(q)'
  <2>1. pc'[q] = pc[q] /\ req'[q] = req[q] /\ WindowOK(q)
    BY DEF SafetyInv
  <2> QED
    BY <2>1, ObserveWindow DEF StaysToPublish
<1> QED
  BY <1>1, <1>3, <1>4, <1>5 DEF SafetyInv

(* The lists of a collection hold topics.                                  *)
ListsOK == \A id \in Ids : listsOf(id) \subseteq Seq(Ids)

LEMMA ListsType == TopicsOK => ListsOK
<1> SUFFICES ASSUME TopicsOK, NEW id \in Ids, NEW list \in listsOf(id)
             PROVE  list \in Seq(Ids)
  BY DEF ListsOK
<1>1. PICK v \in versions(id) : list = v.subtopics /\ list # Nil
  BY DEF listsOf
<1>2. v \in Version
  BY <1>1 DEF versions, TopicsOK, TopicDoc
<1> QED
  BY <1>1, <1>2 DEF Version

LEMMA FamilyType ==
  ASSUME NEW f \in Frame
  PROVE  family(f) \subseteq Ids
BY SubtopicsType, RangeType DEF family, Frame

(* The window of the parent grows until the copy is written.               *)
LEMMA ParentWindowGrows ==
  ASSUME ObserveScripts, step' = "updateTopic"
  PROVE  parentWindow \subseteq parentWindow'
BY DEF ObserveScripts

LEMMA HistoriesStep ==
  ASSUME ScriptsInv, TopicsOK', ObserveScripts,
         step' = "updateTopic" => step \in {"findParent", "updateTopic"}
  PROVE  HistoriesOK'
<1> USE DEF ScriptsInv
<1>0. ListsOK /\ ListsOK'
  <2>1. TopicsOK
    BY DEF SafetyInv, TypeOK, TopicsOK
  <2>2. TopicsOK' => ListsOK'
    BY ListsType, PTL
  <2> QED
    BY <2>1, <2>2, ListsType
<1>1. turnedAway \subseteq Ids
  BY TopType, FamilyType DEF turnedAway
<1>2. withoutParent \subseteq Ids
  BY TopType DEF withoutParent
<1>3. cutOff \subseteq Ids
  <2>1. RangeOf(stack) \subseteq Frame
    BY RangeType DEF ControlOK
  <2> QED
    BY <2>1, FamilyType DEF cutOff
<1>4. wiped \subseteq Ids
  BY DEF wiped
<1>5. relisted \subseteq Ids
  <2> SUFFICES ASSUME NEW id \in Ids, NEW list \in listsOf(id) \cup listsOf(id)'
               PROVE  RangeOf(list) \subseteq Ids
    BY DEF relisted
  <2>1. list \in Seq(Ids)
    BY <1>0 DEF ListsOK
  <2> QED
    BY <2>1, RangeType
<1>6. disturbed' \subseteq Ids
  BY <1>1, <1>2, <1>3, <1>4, <1>5 DEF ObserveScripts, HistoriesOK
<1>7. doubled' \subseteq Ids
  BY TopType DEF ObserveScripts, HistoriesOK
<1>8. parentWindow' \subseteq Version
  <2>1. CASE step' # "updateTopic"
    BY <2>1 DEF ObserveScripts
  <2>2. CASE step' = "updateTopic"
    <3>1. \A id \in Stored' : topics'[id] \in TopicDoc
      BY DEF Stored, TopicsOK
    <3>2. {topics'[id].current : id \in {top.parentID} \cap Stored'} \ {Nil}
            \subseteq Version
      BY <3>1 DEF TopicDoc
    <3> QED
      BY <2>2, <3>2 DEF ObserveScripts, HistoriesOK
  <2> QED
    BY <2>1, <2>2
<1> QED
  BY <1>6, <1>7, <1>8 DEF HistoriesOK

LEMMA KeptParent ==
  ASSUME ScriptsInv, ObserveScripts, UNCHANGED <<step, stack, parentTopic>>
  PROVE  ParentOK'
<1> SUFFICES ASSUME step = "updateTopic" PROVE ParentOK'
  BY DEF ParentOK
<1>1. parentWindow \subseteq parentWindow'
  BY ParentWindowGrows
<1>2. /\ parentTopic'.current # Nil
      /\ parentTopic'.current.state = StatePublished
      /\ top'.parentID # TopicRoot =>
           Tidy(parentTopic'.current) /\ Tidy(parentTopic'.next)
      /\ \E v \in parentWindow' :
           HasList(v) /\ parentTopic'.current = Pushed(v, top'.id)
  BY <1>1 DEF ScriptsInv, ParentOK, top
<1> QED
  BY <1>2 DEF ParentOK, Tidy, Linked, HasList, Pushed, top

LEMMA FoundParent ==
  ASSUME ScriptsInv, findParent, ObserveScripts, step' = "updateTopic"
  PROVE  ParentOK'
<1> USE DEF ScriptsInv
<1> DEFINE doc == topics[top.parentID]
<1>1. /\ step = "findParent"
      /\ topics' = topics /\ stack' = stack
      /\ parentStored
      /\ HasList(doc.next) /\ HasList(doc.current)
      /\ parentTopic' = addedTo(doc, top.id)
  BY DEF findParent, Runs, Return
<1>2. top.id \in Ids /\ top.parentID \in Ids
  BY <1>1, TopType DEF parentStored, Stored
<1>3. doc \in TopicDoc /\ doc # Nil /\ top.parentID \in Stored'
  BY <1>1, ModelAssumption DEF parentStored, Stored, SafetyInv, TypeOK
<1>4. /\ doc.current \in Version /\ doc.next \in Version
      /\ parentTopic'.current = Pushed(doc.current, top.id)
      /\ parentTopic'.next = Pushed(doc.next, top.id)
  BY <1>1, <1>2, <1>3, AddedType DEF TopicDoc
<1>5. /\ Pushed(doc.current, top.id) \in Version
      /\ Pushed(doc.current, top.id).state = doc.current.state
      /\ Tidy(doc.current) => Tidy(Pushed(doc.current, top.id))
      /\ Tidy(doc.next) => Tidy(Pushed(doc.next, top.id))
  BY <1>1, <1>2, <1>4, PushedType
<1>6. Live(top.parentID) = doc.current /\ Draft(top.parentID) = doc.next
      /\ doc.current # Nil /\ doc.next # Nil
  BY <1>3, <1>4, ModelAssumption DEF Live, Draft
<1>7. doc.current.state = StatePublished
  BY <1>2, <1>6 DEF SafetyInv, LivePublished
<1>8. top.parentID # TopicRoot => Tidy(doc.current) /\ Tidy(doc.next)
  BY <1>2, <1>6 DEF SafetyInv, TidyTopics
<1>9. doc.current \in parentWindow'
  BY <1>1, <1>3, <1>6 DEF ObserveScripts
<1>10. /\ parentTopic'.current # Nil
       /\ parentTopic'.current.state = StatePublished
       /\ top.parentID # TopicRoot =>
            Tidy(parentTopic'.current) /\ Tidy(parentTopic'.next)
       /\ HasList(doc.current) /\ parentTopic'.current = Pushed(doc.current, top.id)
  BY <1>1, <1>4, <1>5, <1>7, <1>8, ModelAssumption
<1> QED
  BY <1>1, <1>9, <1>10 DEF ParentOK, Tidy, Linked, HasList, Pushed, top

(* Where the copy of the parent comes from.                                *)
LEMMA AtUpdate ==
  ASSUME ScriptStep, step' = "updateTopic"
  PROVE  findParent \/ UNCHANGED <<step, stack, parentTopic>>
<1>1. ~Return /\ ~End
  BY DEF Return, End
<1>2. ~(\E parentID, id, callers : Call(parentID, id, callers))
  BY DEF Call
<1>3. ~seedDatabase /\ ~addTopics /\ ~forEach /\ ~createSubtopic
  BY <1>1, <1>2 DEF seedDatabase, addTopics, forEach, createSubtopic
<1>4. ~findTopicByID /\ ~findTopicBySlug /\ ~insertOne /\ ~insertContent
  BY <1>1 DEF findTopicByID, findTopicBySlug, insertOne, insertContent, Inserted, Goes
<1>5. ~updateTopic /\ ~addSubtopicThrows /\ ~scriptStops
  BY <1>1 DEF updateTopic, addSubtopicThrows, scriptStops
<1> QED
  BY <1>3, <1>4, <1>5 DEF ScriptStep, ScriptCall, wipe, updateTopicReleaseData, scriptVars

LEMMA ScriptsInvInit == ScriptsInit => ScriptsInv
<1> SUFFICES ASSUME ScriptsInit PROVE ScriptsInv
  OBVIOUS
<1>1. SafetyInv
  BY SafetyInit DEF ScriptsInit
<1>2. <<>> \in Seq(Frame) /\ <<>> \in Seq(ScriptItem)
  OBVIOUS
<1>3. ControlOK
  BY <1>2 DEF ScriptsInit, ControlOK, Steps
<1> QED
  BY <1>1, <1>3 DEF ScriptsInit, ScriptsInv, HistoriesOK, ParentOK

LEMMA ScriptsInvStep == ScriptsInv /\ [ScriptsNext]_allVars => ScriptsInv'
<1> SUFFICES ASSUME ScriptsInv, [ScriptsNext]_allVars PROVE ScriptsInv'
  OBVIOUS
<1>1. CASE Next /\ UNCHANGED scriptVars /\ ObserveScripts
  <2>1. SafetyInv'
    BY <1>1, SafetyStep DEF ScriptsInv
  <2>2. ControlOK'
    BY <1>1 DEF ScriptsInv, ControlOK, scriptVars, top
  <2>3. TopicsOK' /\ UNCHANGED <<step, stack, parentTopic>>
    BY <1>1, <2>1 DEF SafetyInv, TypeOK, TopicsOK, scriptVars
  <2> QED
    BY <1>1, <2>1, <2>2, <2>3, HistoriesStep, KeptParent DEF ScriptsInv
<1>2. CASE ScriptStep /\ UNCHANGED <<pc, req, copy, resp>> /\ Observe /\ ObserveScripts
  <2>1. SafetyInv'
    BY <1>2, ScriptSafety
  <2>2. TopicsOK /\ TopicsOK'
    BY <2>1 DEF ScriptsInv, SafetyInv, TypeOK, TopicsOK
  <2>3. ControlOK'
    BY <1>2, <2>2, ControlStep DEF ScriptsInv
  <2>4. step' = "updateTopic" => step \in {"findParent", "updateTopic"}
    BY <1>2, AtUpdate DEF findParent, Runs
  <2>5. HistoriesOK'
    BY <1>2, <2>2, <2>4, HistoriesStep
  <2>6. ParentOK'
    <3>1. CASE step' # "updateTopic"
      BY <3>1 DEF ParentOK
    <3>2. CASE step' = "updateTopic"
      BY <1>2, <3>2, AtUpdate, FoundParent, KeptParent
    <3> QED
      BY <3>1, <3>2
  <2> QED
    BY <2>1, <2>3, <2>5, <2>6 DEF ScriptsInv
<1>3. CASE UNCHANGED allVars
  <2>1. UNCHANGED vars /\ UNCHANGED scriptVars /\ UNCHANGED histories
    BY <1>3 DEF allVars
  <2>2. SafetyInv'
    BY <2>1, SafetyStep DEF ScriptsInv
  <2>3. ControlOK' /\ HistoriesOK'
    BY <2>1 DEF ScriptsInv, ControlOK, HistoriesOK, scriptVars, histories, top
  <2>4. ParentOK'
    BY <2>1 DEF ScriptsInv, ParentOK, scriptVars, histories, top, Tidy, Linked, HasList, Pushed
  <2> QED
    BY <2>2, <2>3, <2>4 DEF ScriptsInv
<1> QED
  BY <1>1, <1>2, <1>3 DEF ScriptsNext

THEOREM ScriptsSafety == ScriptsSpec => []ScriptsInv
BY ScriptsInvInit, ScriptsInvStep, PTL DEF ScriptsSpec

-----------------------------------------------------------------------------
(* The invariants of the runs.                                             *)

(* A script is always where its calls belong, and holds what they say.     *)
THEOREM ScriptsTypeCorrect == ScriptsSpec => []ScriptTypeOK
<1>1. ScriptsInv => ScriptTypeOK
  BY DEF ScriptsInv, ControlOK, HistoriesOK, ScriptTypeOK
<1> QED
  BY <1>1, ScriptsSafety, PTL

(* With the scripts beside the service, whatever is live is published.     *)
THEOREM ScriptsLivePublished == ScriptsSpec => []LivePublished
<1>1. ScriptsInv => LivePublished
  BY DEF ScriptsInv, SafetyInv
<1> QED
  BY <1>1, ScriptsSafety, PTL

(* addSubtopic never adds a subtopic to a version without a link to it:    *)
(* the version it adds to has a list, and a list that is there has a link. *)
THEOREM ScriptsKeepLinks == ScriptsSpec => []LinksMatchSubtopics
<1>1. ScriptsInv => LinksMatchSubtopics
  BY DEF ScriptsInv, SafetyInv, TidyTopics, Tidy, LinksMatchSubtopics
<1> QED
  BY <1>1, ScriptsSafety, PTL

(* What goes live by a script is a seeded version, or a live version with  *)
(* one subtopic added, never a draft; all else is a publish request.       *)
THEOREM ScriptsExplainLive == ScriptsSpec => LiveIsExplained
<1>1. ASSUME ScriptsInv, ScriptStep, NEW id \in Ids
      PROVE  LiveIsExplainedOf(id)
  <2> USE <1>1 DEF ScriptsInv
  <2>0. TopicsOK
    BY DEF SafetyInv, TypeOK, TopicsOK
  <2>1. CASE Live(id)' = Live(id)
    BY <2>1 DEF LiveIsExplainedOf, LiveComesFromWindow
  <2>2. CASE wipe
    BY <2>2 DEF LiveIsExplainedOf
  <2>3. CASE InsertStep /\ Live(id)' # Live(id)
    <3>1. step = "insertOne" /\ top.id \in Ids
      BY <2>3, TopType DEF InsertStep
    <3>2. topics' # topics
      BY <2>3 DEF Live
    <3>3. top.id \notin Stored /\ topics' = [topics EXCEPT ![top.id] = generateTopic(top.id)]
      BY <2>3, <3>2 DEF InsertStep, insertedDoc
    <3>4. top.id = id
      BY <2>3, <3>1, <3>3 DEF Live
    <3>5. topics[id] = Nil /\ topics'[id] = generateTopic(id) /\ generateTopic(id) # Nil
      BY <2>0, <3>1, <3>3, <3>4, SeedType, ModelAssumption DEF Stored, TopicsOK
    <3>6. Live(id) = Nil /\ Live(id)' = Seed[id]
      BY <3>5 DEF Live, generateTopic
    <3> QED
      BY <3>1, <3>4, <3>6 DEF LiveIsExplainedOf
  <2>4. CASE ListStep /\ Live(id)' # Live(id)
    <3>1. step = "updateTopic" /\ top.parentID \in Ids /\ parentTopic # Nil
      BY <2>4, ParentIsTopic, ModelAssumption DEF ListStep
    <3>2. top.parentID = id
      BY <2>4, <3>1 DEF ListStep, Live
    <3>3. topics'[id] = parentTopic
      BY <2>0, <2>4, <3>1, <3>2 DEF ListStep, TopicsOK
    <3>4. Live(id)' = parentTopic.current
      BY <3>1, <3>3 DEF Live
    <3> QED
      BY <3>1, <3>2, <3>4 DEF ParentOK, LiveIsExplainedOf
  <2>5. CASE EditStep
    BY <2>1, <2>5, EditSafe
  <2>6. CASE UNCHANGED topics
    BY <2>1, <2>6 DEF Live
  <2> QED
    BY <2>0, <2>1, <2>2, <2>3, <2>4, <2>5, <2>6, ScriptEffect
<1>2. ASSUME ScriptsInv, Next, NEW id \in Ids
      PROVE  LiveIsExplainedOf(id)
  BY <1>2, LiveStep DEF ScriptsInv, LiveIsExplainedOf
<1>3. ScriptsInv /\ [ScriptsNext]_allVars
        => [\A id \in Ids : LiveIsExplainedOf(id)]_allVars
  BY <1>1, <1>2 DEF ScriptsNext
<1> QED
  BY <1>3, ScriptsSafety, PTL DEF ScriptsSpec, LiveIsExplained

(* Whatever the scripts wipe, insert or overwrite meanwhile, what an       *)
(* answer 200 says holds at that moment: an edit is in the draft; what a   *)
(* publish request has put live is a draft that the topic had between its  *)
(* own update and its read, and that update itself unless another write,   *)
(* which may be a script's, has changed the draft between the two.         *)
THEOREM ScriptsAcknowledge == ScriptsSpec => AcknowledgedIsApplied
<1>1. ASSUME ScriptsInv, Next, NEW q \in Requests
      PROVE  AnswerHolds(q)
  BY <1>1, AnswerStep DEF ScriptsInv, Next
<1>2. ASSUME UNCHANGED req, NEW q \in Requests
      PROVE  AnswerHolds(q)
  BY <1>2 DEF AnswerHolds, Answers
<1>3. ScriptsInv /\ [ScriptsNext]_allVars => [\A q \in Requests : AnswerHolds(q)]_vars
  BY <1>1, <1>2 DEF ScriptsNext, allVars
<1> QED
  BY <1>3, ScriptsSafety, PTL DEF ScriptsSpec, AcknowledgedIsApplied

-----------------------------------------------------------------------------
(* A second document arises only after a wipe.  The argument: a copy that  *)
(* waits to be written belongs to a stored topic, or to one that was wiped; *)
(* so does a topic that is stored although the finds said it was not.      *)

OneDocumentInv ==
  /\ \A q \in Requests :
       pc[q] = "UpsertTopic" /\ req[q].id \notin Stored => req[q].id \in disturbed
  /\ step = "insertOne" => inserted
  /\ step \in {"findTopicBySlug", "insertOne"} /\ inserted /\ top.id \in Stored
       => top.id \in disturbed
  /\ doubled \subseteq disturbed

(* What is recorded of a topic stays; a topic that goes is recorded.       *)
LEMMA DisturbedGrows ==
  ASSUME ObserveScripts
  PROVE  /\ disturbed \subseteq disturbed'
         /\ \A id \in Stored \ Stored' : id \in disturbed'
BY DEF ObserveScripts, wiped, Stored

(* The service stores a topic that was not there only by an upsert.        *)
LEMMA NewlyStored ==
  ASSUME TypeOK, [Next]_vars, NEW id \in Stored' \ Stored
  PROVE  \E q \in Requests : pc[q] = "UpsertTopic" /\ req[q].id = id
<1>1. id \in Ids /\ topics[id] = Nil /\ topics'[id] # Nil
  BY DEF Stored
<1>2. CASE UNCHANGED topics
  BY <1>1, <1>2
<1>3. CASE EditStep
  BY <1>1, <1>3, ModelAssumption DEF EditStep, TypeOK
<1>4. CASE UpsertStep
  BY <1>1, <1>4 DEF UpsertStep, Store, TypeOK
<1> QED
  BY <1>2, <1>3, <1>4, TopicsEffect

LEMMA CopiesOfStored ==
  ASSUME ScriptsInv, OneDocumentInv, [ScriptsNext]_allVars,
         disturbed \subseteq disturbed',
         \A id \in Stored \ Stored' : id \in disturbed',
         NEW q \in Requests, pc'[q] = "UpsertTopic", req'[q].id \notin Stored'
  PROVE  req'[q].id \in disturbed'
<1>1. CASE KeptCopy(q)
  BY <1>1 DEF KeptCopy, OneDocumentInv
<1>2. CASE FreshCopy(q)
  BY <1>2 DEF FreshCopy, Found, Stored, Request, ReleaseRequest, StateRequest, TopicRequest
<1>3. CASE [Next]_vars
  BY <1>1, <1>2, <1>3, CopyEffect DEF ScriptsInv, SafetyInv
<1>4. CASE UNCHANGED <<pc, req, copy, resp>>
  BY <1>1, <1>4 DEF KeptCopy
<1> QED
  BY <1>3, <1>4 DEF ScriptsNext, allVars

(* A script that is about to insert found nothing under the id.            *)
LEMMA FoundNothing ==
  ASSUME ScriptsInv, OneDocumentInv, ScriptStep, disturbed \subseteq disturbed',
         step' \in {"findTopicBySlug", "insertOne"}, inserted'
  PROVE  top'.id \in Stored' => top'.id \in disturbed'
<1>1. CASE findTopicByID
  BY <1>1 DEF findTopicByID, Goes, Stored, top
<1>2. CASE findTopicBySlug
  <2>1. step = "findTopicBySlug" /\ inserted /\ topics' = topics
    BY <1>2 DEF findTopicBySlug, Runs
  <2>2. stack' = stack
    BY <1>2 DEF findTopicBySlug, Goes
  <2> QED
    BY <2>1, <2>2 DEF OneDocumentInv, Stored, top
<1>3. CASE updateTopicReleaseData
  <2>1. UNCHANGED scriptVars /\ Stored' \subseteq Stored
    BY <1>3 DEF updateTopicReleaseData, Stored, ScriptsInv, SafetyInv, TypeOK
  <2> QED
    BY <2>1 DEF OneDocumentInv, scriptVars, top
<1>4. CASE seedDatabase \/ addTopics \/ forEach \/ createSubtopic
  BY <1>4 DEF seedDatabase, addTopics, forEach, createSubtopic, Call, End
<1>5. CASE insertOne \/ insertContent \/ findParent \/ updateTopic
  BY <1>5 DEF insertOne, insertContent, findParent, updateTopic, Inserted, Goes, Return
<1>6. CASE addSubtopicThrows \/ scriptStops
  BY <1>6 DEF addSubtopicThrows, scriptStops, End
<1>7. CASE wipe
  BY <1>7 DEF wipe, Start
<1> QED
  BY <1>1, <1>2, <1>3, <1>4, <1>5, <1>6, <1>7 DEF ScriptStep, ScriptCall

LEMMA AboutToInsert ==
  ASSUME OneDocumentInv, ScriptStep, step' = "insertOne"
  PROVE  inserted'
<1>1. CASE findTopicBySlug
  BY <1>1 DEF findTopicBySlug, Inserted, Return, Goes
<1>2. CASE updateTopicReleaseData
  BY <1>2 DEF updateTopicReleaseData, scriptVars, OneDocumentInv
<1>3. CASE seedDatabase \/ addTopics \/ forEach \/ createSubtopic \/ findTopicByID
  BY <1>3 DEF seedDatabase, addTopics, forEach, createSubtopic, findTopicByID, Call, End,
              Goes
<1>4. CASE insertOne \/ insertContent \/ findParent \/ updateTopic
  BY <1>4 DEF insertOne, insertContent, findParent, updateTopic, Inserted, Goes, Return
<1>5. CASE addSubtopicThrows \/ scriptStops \/ wipe
  BY <1>5 DEF addSubtopicThrows, scriptStops, End, wipe, Start
<1> QED
  BY <1>1, <1>2, <1>3, <1>4, <1>5 DEF ScriptStep, ScriptCall

LEMMA OneDocumentStep ==
  ScriptsInv /\ OneDocumentInv /\ [ScriptsNext]_allVars => OneDocumentInv'
<1> SUFFICES ASSUME ScriptsInv, OneDocumentInv, [ScriptsNext]_allVars
             PROVE  OneDocumentInv'
  OBVIOUS
<1>1. CASE UNCHANGED allVars
  BY <1>1 DEF allVars, vars, scriptVars, histories, OneDocumentInv, Stored, top
<1>2. CASE ScriptsNext
  <2>1. disturbed \subseteq disturbed' /\ \A id \in Stored \ Stored' : id \in disturbed'
    BY <1>2, DisturbedGrows DEF ScriptsNext
  <2>2. \A q \in Requests :
          pc'[q] = "UpsertTopic" /\ req'[q].id \notin Stored' => req'[q].id \in disturbed'
    BY <2>1, CopiesOfStored
  <2>3. /\ step' = "insertOne" => inserted'
        /\ step' \in {"findTopicBySlug", "insertOne"} /\ inserted' /\ top'.id \in Stored'
             => top'.id \in disturbed'
    <3>1. CASE ScriptStep
      BY <2>1, <3>1, FoundNothing, AboutToInsert
    <3>2. CASE Next /\ UNCHANGED scriptVars
      <4>1. \A id \in Stored' \ Stored : id \in disturbed
        BY <3>2, NewlyStored DEF ScriptsInv, SafetyInv, OneDocumentInv
      <4>2. step' = step /\ inserted' = inserted /\ top' = top
        BY <3>2 DEF scriptVars, top
      <4> QED
        BY <2>1, <4>1, <4>2 DEF OneDocumentInv
    <3> QED
      BY <1>2, <3>1, <3>2 DEF ScriptsNext
  <2>4. doubled' \subseteq disturbed'
    <3>1. step = "insertOne" /\ top.id \in Stored => top.id \in disturbed
      BY DEF OneDocumentInv
    <3>2. doubled' \subseteq doubled \cup
            (IF step = "insertOne" /\ top.id \in Stored THEN {top.id} ELSE {})
      BY <1>2 DEF ScriptsNext, ObserveScripts
    <3> QED
      BY <2>1, <3>1, <3>2 DEF OneDocumentInv
  <2> QED
    BY <2>2, <2>3, <2>4 DEF OneDocumentInv
<1> QED
  BY <1>1, <1>2

(* The index on id is not unique; still, a second document with the id of  *)
(* a topic arises only if the topic was wiped before.                      *)
THEOREM SecondDocumentWasWiped == ScriptsSpec => []OneDocumentPerId
<1>1. ScriptsInit => OneDocumentInv
  BY DEF ScriptsInit, Init, OneDocumentInv
<1>2. OneDocumentInv => OneDocumentPerId
  BY DEF OneDocumentInv, OneDocumentPerId
<1> QED
  BY <1>1, <1>2, OneDocumentStep, ScriptsSafety, PTL DEF ScriptsSpec

-----------------------------------------------------------------------------
(* Listed topics exist.  The argument: what is known, stored or recorded,  *)
(* stays known; the subtopics that a call of createTopic has already       *)
(* created are known, but for the one it waits for, and that one is known  *)
(* when its own call returns.                                              *)

LEMMA PushIndex ==
  ASSUME NEW S, NEW x \in S, NEW s \in Seq(S)
  PROVE  /\ DOMAIN (<<x>> \o s) = 1 .. Len(s) + 1
         /\ (<<x>> \o s)[1] = x
         /\ \A i \in 1 .. Len(s) : (<<x>> \o s)[i + 1] = s[i]
         /\ DOMAIN s = 1 .. Len(s) /\ Len(s) \in Nat
OBVIOUS

LEMMA PopIndex ==
  ASSUME NEW S, NEW s \in Seq(S), s # <<>>
  PROVE  /\ DOMAIN s = 1 .. Len(s) /\ Len(s) \in Nat \ {0}
         /\ Head(s) = s[1]
         /\ DOMAIN Tail(s) = 1 .. Len(s) - 1
         /\ \A i \in 1 .. Len(s) - 1 : Tail(s)[i] = s[i + 1]
OBVIOUS

LEMMA RangePop ==
  ASSUME NEW S, NEW s \in Seq(S), s # <<>>
  PROVE  RangeOf(s) \subseteq {Head(s)} \cup RangeOf(Tail(s))
<1> SUFFICES ASSUME NEW i \in DOMAIN s, i # 1
             PROVE  s[i] \in RangeOf(Tail(s))
  BY PopIndex DEF RangeOf
<1>1. i - 1 \in DOMAIN Tail(s) /\ Tail(s)[i - 1] = s[i]
  BY PopIndex
<1> QED
  BY <1>1 DEF RangeOf

LEMMA RangeAppend ==
  ASSUME NEW S, NEW x \in S, NEW s \in Seq(S)
  PROVE  RangeOf(Append(s, x)) \subseteq RangeOf(s) \cup {x}
BY DEF RangeOf

Known == Stored \cup disturbed

Created(f) == RangeOf(subtopicsOf(f.id)) \ RangeOf(f.left)

StackOK ==
  \A i \in DOMAIN stack : \A x \in Created(stack[i]) :
    x \in Known \/ (i > 1 /\ x = stack[i - 1].id)

ListsOf(doc) ==
  UNION {RangeOf(v.subtopics) :
           v \in {w \in {doc.current, doc.next} \ {Nil} : w.subtopics # Nil}}

ListedInv ==
  /\ Listed \subseteq Known
  /\ StackOK
  /\ step = "updateTopic" => ListsOf(parentTopic) \subseteq Known
  /\ step = "findTopicBySlug" /\ ~inserted => top.id \in Known
  /\ step \in {"insertContent", "findParent", "updateTopic"} => top.id \in Known

LEMMA KnownGrows ==
  ASSUME ObserveScripts
  PROVE  Known \subseteq Known'
BY DisturbedGrows DEF Known

LEMMA ListsOfListed ==
  ASSUME NEW id \in Stored
  PROVE  ListsOf(topics[id]) \subseteq Listed
<1> SUFFICES ASSUME NEW v \in {topics[id].current, topics[id].next} \ {Nil},
                    v.subtopics # Nil
             PROVE  RangeOf(v.subtopics) \subseteq Listed
  BY DEF ListsOf
<1>1. v.subtopics \in listsOf(id) /\ id \in Ids
  BY DEF Stored, listsOf, versions
<1> QED
  BY <1>1 DEF Listed

LEMMA PutLists ==
  ASSUME TopicsOK, NEW id \in Ids, NEW doc \in TopicDoc,
         topics' = [topics EXCEPT ![id] = doc]
  PROVE  Listed' \subseteq Listed \cup ListsOf(doc)
<1>1. \A i \in Ids : i # id => versions(i)' = versions(i)
  BY DEF TopicsOK, versions
<1>2. versions(id)' \subseteq {doc.current, doc.next} \ {Nil}
  BY ModelAssumption DEF TopicsOK, versions
<1>3. ASSUME NEW i \in Ids, NEW list \in listsOf(i)'
      PROVE  RangeOf(list) \subseteq Listed \cup ListsOf(doc)
  <2>1. CASE i = id
    <3>1. PICK v \in {doc.current, doc.next} \ {Nil} : list = v.subtopics /\ list # Nil
      BY <1>2, <1>3, <2>1 DEF listsOf
    <3> QED
      BY <3>1 DEF ListsOf
  <2>2. CASE i # id
    <3>1. list \in listsOf(i)
      BY <1>1, <1>3, <2>2 DEF listsOf
    <3> QED
      BY <3>1 DEF Listed
  <2> QED
    BY <2>1, <2>2
<1> QED
  BY <1>3 DEF Listed

(* A list that the service makes holds topics that are recorded.           *)
LEMMA ServiceLists ==
  ASSUME ObserveScripts, UNCHANGED scriptVars
  PROVE  Listed' \subseteq Listed \cup disturbed'
<1> SUFFICES ASSUME NEW id \in Ids, NEW list \in listsOf(id)', list \notin listsOf(id)
             PROVE  RangeOf(list) \subseteq disturbed'
  BY DEF Listed
<1>1. topics' # topics
  BY DEF listsOf, versions
<1>2. RangeOf(list) \subseteq relisted
  BY <1>1 DEF relisted
<1> QED
  BY <1>2 DEF ObserveScripts

LEMMA ScriptLists ==
  ASSUME ScriptsInv, ListedInv, ScriptStep, ObserveScripts
  PROVE  Listed' \subseteq Known'
<1> USE DEF ScriptsInv
<1>0. TopicsOK /\ Known \subseteq Known' /\ Listed \subseteq Known
  BY KnownGrows DEF SafetyInv, TypeOK, TopicsOK, ListedInv
<1>1. CASE UNCHANGED topics
  <2>1. Listed' = Listed
    BY <1>1 DEF Listed, listsOf, versions
  <2> QED
    BY <1>0, <2>1
<1>2. CASE InsertStep /\ top.id \notin Stored
  <2>1. step = "insertOne" /\ top.id \in Ids /\ stack # <<>> /\ top.left = <<>>
        /\ stack \in Seq(Frame)
    BY <1>2, TopType DEF InsertStep, ControlOK
  <2>2. topics' = [topics EXCEPT ![top.id] = generateTopic(top.id)]
        /\ generateTopic(top.id) \in TopicDoc
    BY <1>2, <2>1, SeedType DEF InsertStep, insertedDoc
  <2>3. ListsOf(generateTopic(top.id)) \subseteq RangeOf(subtopicsOf(top.id))
    BY DEF ListsOf, generateTopic, subtopicsOf
  <2>4. RangeOf(subtopicsOf(top.id)) \subseteq Created(stack[1]) /\ 1 \in DOMAIN stack
    BY <2>1, PopIndex DEF Created, top, RangeOf
  <2>5. RangeOf(subtopicsOf(top.id)) \subseteq Known
    BY <2>4 DEF ListedInv, StackOK
  <2>6. Listed' \subseteq Listed \cup ListsOf(generateTopic(top.id))
    BY <1>0, <2>1, <2>2, PutLists
  <2> QED
    BY <1>0, <2>3, <2>5, <2>6
<1>3. CASE ListStep
  <2>1. step = "updateTopic" /\ top.parentID \in Ids /\ parentTopic \in TopicDoc
    BY <1>3, ParentIsTopic DEF ListStep
  <2>2. Listed' \subseteq Listed \cup ListsOf(parentTopic)
    BY <1>0, <1>3, <2>1, PutLists DEF ListStep
  <2> QED
    BY <1>0, <2>1, <2>2 DEF ListedInv
<1>4. CASE wipe
  BY <1>4 DEF wipe, Listed, listsOf, versions
<1>5. CASE updateTopicReleaseData
  BY <1>0, <1>5, ServiceLists DEF updateTopicReleaseData, Known
<1>6. CASE InsertStep /\ top.id \in Stored
  BY <1>1, <1>6 DEF InsertStep, insertedDoc
<1> QED
  BY <1>0, <1>1, <1>2, <1>3, <1>4, <1>5, <1>6, ScriptWrites

(* The stack.  What is known grows, so a frame that was right stays right. *)

LEMMA StackKept ==
  ASSUME StackOK, Known \subseteq Known', UNCHANGED stack
  PROVE  StackOK'
<1>1. \A i \in DOMAIN stack : \A x \in Created(stack[i]) :
        x \in Known' \/ (i > 1 /\ x = stack[i - 1].id)
  BY DEF StackOK
<1> QED
  BY <1>1 DEF StackOK, Created, subtopicsOf, RangeOf

LEMMA StackPopped ==
  ASSUME ControlOK, StackOK, Known \subseteq Known',
         stack # <<>>, stack' = Tail(stack), top.id \in Known'
  PROVE  StackOK'
<1>1. /\ DOMAIN stack = 1 .. Len(stack) /\ Len(stack) \in Nat
      /\ Head(stack) = stack[1]
      /\ DOMAIN stack' = 1 .. Len(stack) - 1
      /\ \A i \in 1 .. Len(stack) - 1 : stack'[i] = stack[i + 1]
  BY PopIndex DEF ControlOK
<1>2. ASSUME NEW i \in DOMAIN stack', NEW x \in Created(stack'[i])
      PROVE  x \in Known' \/ (i > 1 /\ x = stack'[i - 1].id)
  <2>1. i + 1 \in DOMAIN stack /\ x \in Created(stack[i + 1])
    BY <1>1, <1>2
  <2>2. x \in Known \/ x = stack[i].id
    BY <1>1, <1>2, <2>1 DEF StackOK
  <2>3. CASE i = 1
    BY <1>1, <2>2, <2>3 DEF top
  <2>4. CASE i > 1
    <3>1. stack'[i - 1] = stack[i]
      BY <1>1, <1>2, <2>4
    <3> QED
      BY <2>2, <2>4, <3>1
  <2> QED
    BY <1>1, <1>2, <2>3, <2>4
<1> QED
  BY <1>2 DEF StackOK, Created, subtopicsOf, RangeOf

LEMMA StackStarted ==
  ASSUME NEW parentID \in Ids \cup {Nil}, NEW id \in Ids, Call(parentID, id, <<>>)
  PROVE  StackOK'
<1> DEFINE frame == [parentID |-> parentID, id |-> id, left |-> subtopicsOf(id)]
<1>1. stack' = <<frame>>
  BY DEF Call
<1>2. DOMAIN stack' = {1} /\ stack'[1] = frame
  BY <1>1
<1>3. Created(frame) = {}
  BY DEF Created
<1> QED
  BY <1>2, <1>3 DEF StackOK, Created, subtopicsOf, RangeOf

LEMMA StackPushed ==
  ASSUME ControlOK, StackOK, Known \subseteq Known', createSubtopic
  PROVE  StackOK'
<1> DEFINE new    == [parentID |-> top.id, id |-> Head(top.left),
                      left |-> subtopicsOf(Head(top.left))]
           caller == [top EXCEPT !.left = Tail(@)]
           rest   == Tail(stack)
           below  == <<caller>> \o rest
<1>1. /\ stack # <<>> /\ stack \in Seq(Frame)
      /\ top \in Frame /\ top.left \in Seq(Ids) /\ top.left # <<>>
      /\ rest \in Seq(Frame)
      /\ stack' = <<new>> \o below
  BY TopType DEF createSubtopic, Runs, Call, ControlOK
<1>2. Head(top.left) \in Ids /\ Tail(top.left) \in Seq(Ids)
  BY <1>1, PopFront
<1>3. caller \in Frame /\ new \in Frame
  BY <1>1, <1>2, SubtopicsType DEF Frame
<1>4. below \in Seq(Frame)
  BY <1>1, <1>3, PushFront
<1>5. /\ DOMAIN stack = 1 .. Len(rest) + 1
      /\ stack[1] = top
      /\ \A i \in 1 .. Len(rest) : stack[i + 1] = rest[i]
      /\ Len(rest) \in Nat
  BY <1>1, PopIndex DEF top
<1>6. /\ Len(below) = Len(rest) + 1
      /\ below[1] = caller
      /\ \A i \in 1 .. Len(rest) : below[i + 1] = rest[i]
  BY <1>1, <1>3
<1> HIDE DEF below, rest
<1>7. /\ DOMAIN stack' = 1 .. Len(rest) + 2
      /\ stack'[1] = new
      /\ \A i \in 1 .. Len(below) : stack'[i + 1] = below[i]
  <2> HIDE DEF new
  <2>1. DOMAIN (<<new>> \o below) = 1 .. Len(below) + 1
    BY <1>3, <1>4, PushIndex
  <2>2. /\ (<<new>> \o below)[1] = new
        /\ \A i \in 1 .. Len(below) : (<<new>> \o below)[i + 1] = below[i]
    BY <1>3, <1>4, PushIndex
  <2>3. Len(below) + 1 = Len(rest) + 2
    BY <1>5, <1>6
  <2> QED
    BY <1>1, <2>1, <2>2, <2>3
<1>8. stack'[2] = caller /\ \A i \in 3 .. Len(rest) + 2 : stack'[i] = stack[i - 1]
  <2>1. stack'[2] = caller
    BY <1>5, <1>6, <1>7
  <2>2. ASSUME NEW i \in 3 .. Len(rest) + 2
        PROVE  stack'[i] = stack[i - 1]
    <3>1. i - 1 \in 1 .. Len(below) /\ i - 2 \in 1 .. Len(rest)
          /\ (i - 1) + 1 = i /\ (i - 2) + 1 = i - 1
      BY <1>5, <1>6
    <3>2. stack'[i] = below[i - 1]
      BY <1>7, <3>1
    <3>3. below[i - 1] = rest[i - 2] /\ stack[i - 1] = rest[i - 2]
      BY <1>5, <1>6, <3>1
    <3> QED
      BY <3>2, <3>3
  <2> QED
    BY <2>1, <2>2
<1>9. Created(new) = {} /\ Created(caller) \subseteq Created(top) \cup {new.id}
      /\ caller.id = top.id
  <2>1. RangeOf(top.left) \subseteq {Head(top.left)} \cup RangeOf(Tail(top.left))
    BY <1>1, RangePop
  <2> QED
    BY <1>1, <2>1 DEF Created, Frame
<1> HIDE DEF new, caller
<1>10. ASSUME NEW i \in DOMAIN stack', NEW x \in Created(stack'[i])
       PROVE  x \in Known' \/ (i > 1 /\ x = stack'[i - 1].id)
  <2>1. CASE i = 1
    BY <1>7, <1>9, <1>10, <2>1
  <2>2. CASE i = 2
    <3>1. x \in Created(stack[1]) \cup {new.id}
      BY <1>5, <1>8, <1>9, <1>10, <2>2
    <3>2. \A y \in Created(stack[1]) : y \in Known
      BY <1>5 DEF StackOK
    <3> QED
      BY <1>7, <2>2, <3>1, <3>2
  <2>3. CASE i > 2
    <3>1. i \in 3 .. Len(rest) + 2 /\ i - 1 \in DOMAIN stack /\ x \in Created(stack[i - 1])
      BY <1>5, <1>7, <1>8, <1>10, <2>3
    <3>2. x \in Known \/ x = stack[i - 2].id
      <4>1. (i - 1) - 1 = i - 2
        BY <3>1
      <4> QED
        BY <3>1, <4>1 DEF StackOK
    <3>3. stack'[i - 1].id = stack[i - 2].id
      <4>1. CASE i = 3
        BY <1>5, <1>8, <1>9, <4>1
      <4>2. CASE i > 3
        BY <1>8, <3>1, <4>2
      <4> QED
        BY <2>3, <3>1, <4>1, <4>2
    <3> QED
      BY <2>3, <3>1, <3>2, <3>3
  <2> QED
    BY <1>5, <1>7, <1>10, <2>1, <2>2, <2>3
<1> QED
  BY <1>10 DEF StackOK, Created, subtopicsOf, RangeOf

(* A call of createTopic returns only when its topic is known.             *)
LEMMA ReturnListed ==
  ASSUME ControlOK, StackOK, Known \subseteq Known', Listed' \subseteq Known',
         Return, step \notin {"idle", "forEach"}, top.id \in Known'
  PROVE  ListedInv'
<1>1. StackOK'
  BY TopType, StackPopped DEF Return
<1>2. step' \in {"forEach", "createTopic"}
  BY DEF Return
<1> QED
  BY <1>1, <1>2 DEF ListedInv

LEMMA GoesListed ==
  ASSUME StackOK, Known \subseteq Known', Listed' \subseteq Known',
         NEW call, Goes(call), call # "updateTopic",
         call = "findTopicBySlug" /\ ~inserted' => top.id \in Known',
         call \in {"insertContent", "findParent"} => top.id \in Known'
  PROVE  ListedInv'
<1>1. StackOK' /\ step' = call /\ top' = top
  BY StackKept DEF Goes, top
<1> QED
  BY <1>1 DEF ListedInv

LEMMA InsertedListed ==
  ASSUME ControlOK, StackOK, Known \subseteq Known', Listed' \subseteq Known',
         Inserted, step \in {"findTopicBySlug", "insertOne"}, top.id \in Known'
  PROVE  ListedInv'
BY ReturnListed, GoesListed DEF Inserted

LEMMA EndListed ==
  ASSUME Listed' \subseteq Known', End
  PROVE  ListedInv'
<1>1. stack' = <<>> /\ step' = "idle" /\ DOMAIN <<>> = {}
  BY DEF End
<1> QED
  BY <1>1 DEF ListedInv, StackOK

LEMMA KeptListed ==
  ASSUME ListedInv, Known \subseteq Known', Listed' \subseteq Known',
         UNCHANGED <<step, stack, inserted, parentTopic>>
  PROVE  ListedInv'
<1>1. StackOK' /\ top' = top /\ ListsOf(parentTopic') = ListsOf(parentTopic)
  BY StackKept DEF ListedInv, top
<1>2. /\ step' = "updateTopic" => ListsOf(parentTopic') \subseteq Known'
      /\ step' = "findTopicBySlug" /\ ~inserted' => top'.id \in Known'
      /\ step' \in {"insertContent", "findParent", "updateTopic"} => top'.id \in Known'
  BY <1>1 DEF ListedInv
<1> QED
  BY <1>1, <1>2 DEF ListedInv, ListsOf, RangeOf

(* The copy of the parent lists what the parent lists, and the subtopic.   *)
LEMMA FoundParentListed ==
  ASSUME ScriptsInv, ListedInv, findParent, ~Return,
         Known \subseteq Known', Listed' \subseteq Known'
  PROVE  ListedInv'
<1> USE DEF ScriptsInv
<1> DEFINE doc == topics[top.parentID]
<1>1. /\ step = "findParent" /\ step' = "updateTopic" /\ stack' = stack
      /\ parentStored
      /\ HasList(doc.next) /\ HasList(doc.current)
      /\ parentTopic' = addedTo(doc, top.id)
  BY DEF findParent, Runs
<1>2. top.id \in Ids /\ top.id \in Known
  BY <1>1, TopType DEF ListedInv
<1>3. doc \in TopicDoc /\ ListsOf(doc) \subseteq Known
  BY <1>1, ListsOfListed DEF parentStored, Stored, SafetyInv, TypeOK, ListedInv
<1>4. /\ doc.current \in Version /\ doc.next \in Version
      /\ parentTopic'.current = Pushed(doc.current, top.id)
      /\ parentTopic'.next = Pushed(doc.next, top.id)
  BY <1>1, <1>2, <1>3, AddedType DEF TopicDoc
<1>5. ASSUME NEW v \in {doc.current, doc.next}
      PROVE  RangeOf(Pushed(v, top.id).subtopics) \subseteq Known
  <2>1. v \in Version /\ v # Nil /\ HasList(v) /\ v.subtopics # Nil
    BY <1>1, <1>4, ModelAssumption DEF HasList
  <2>2. v.subtopics \in Seq(Ids) /\ RangeOf(v.subtopics) \subseteq ListsOf(doc)
    BY <2>1 DEF ListsOf, Version
  <2>3. Pushed(v, top.id).subtopics = Append(v.subtopics, top.id)
    BY <1>2, <2>1, PushedType
  <2>4. RangeOf(Append(v.subtopics, top.id)) \subseteq RangeOf(v.subtopics) \cup {top.id}
    BY <1>2, <2>2, RangeAppend
  <2> QED
    BY <1>2, <1>3, <2>2, <2>3, <2>4
<1>6. ListsOf(parentTopic') \subseteq Known'
  BY <1>4, <1>5 DEF ListsOf
<1>7. StackOK' /\ top' = top
  BY <1>1, StackKept DEF ListedInv, top
<1> QED
  BY <1>1, <1>2, <1>6, <1>7 DEF ListedInv, ListsOf, RangeOf

LEMMA ScriptListed ==
  ASSUME ScriptsInv, ListedInv, ScriptStep, ObserveScripts
  PROVE  ListedInv'
<1> USE DEF ScriptsInv
<1>0. /\ Known \subseteq Known' /\ Listed' \subseteq Known' /\ StackOK
      /\ step = "findTopicBySlug" /\ ~inserted => top.id \in Known
      /\ step \in {"insertContent", "findParent", "updateTopic"} => top.id \in Known
  BY KnownGrows, ScriptLists DEF ListedInv
<1>1. CASE seedDatabase
  <2>1. StackOK' /\ step' = "createTopic"
    BY <1>1, StackStarted, ScriptAssumption DEF seedDatabase, Call
  <2> QED
    BY <1>0, <2>1 DEF ListedInv
<1>2. CASE addTopics
  BY <1>0, <1>2, StackKept DEF addTopics, ListedInv
<1>3. CASE forEach
  <2>1. CASE End
    BY <1>0, <2>1, EndListed
  <2>2. ASSUME todo # <<>>, NEW id \in itemIDs(Head(todo)),
               Call(Head(todo).parentID, id, <<>>)
        PROVE  ListedInv'
    <3>1. Head(todo) \in ScriptItem
      BY <2>2, PopFront DEF ControlOK
    <3>2. Head(todo).parentID \in Ids /\ id \in Ids
      BY <2>2, <3>1 DEF ScriptItem, itemIDs
    <3>3. StackOK' /\ step' = "createTopic"
      BY <2>2, <3>2, StackStarted DEF Call
    <3> QED
      BY <1>0, <3>3 DEF ListedInv
  <2> QED
    BY <1>3, <2>1, <2>2 DEF forEach
<1>4. CASE createSubtopic
  BY <1>0, <1>4, StackPushed DEF createSubtopic, Call, ListedInv
<1>5. CASE findTopicByID
  BY <1>0, <1>5, GoesListed DEF findTopicByID, Known
<1>6. CASE findTopicBySlug
  <2>1. CASE Goes("insertOne")
    BY <1>0, <2>1, GoesListed
  <2>2. CASE ~inserted' /\ Inserted
    <3>1. step = "findTopicBySlug" /\ step' # "idle"
      BY <1>6, <2>2 DEF findTopicBySlug, Runs, Inserted, Return, Goes
    <3>2. inserted => top.id \in turnedAway
      BY <2>2, <3>1 DEF turnedAway, family
    <3>3. top.id \in Known'
      BY <1>0, <3>1, <3>2 DEF ObserveScripts, Known
    <3> QED
      BY <1>0, <2>2, <3>1, <3>3, InsertedListed
  <2> QED
    BY <1>6, <2>1, <2>2 DEF findTopicBySlug
<1>7. CASE insertOne
  <2>1. step = "insertOne" /\ step' # "idle" /\ Inserted
    BY <1>7 DEF insertOne, Runs, Inserted, Return, Goes
  <2>2. top.id \in Ids
    BY <2>1, TopType
  <2>3. top.id \in Known'
    <3>1. CASE ~inserted'
      <4>1. top.id \in turnedAway
        BY <2>1, <3>1 DEF turnedAway, family
      <4> QED
        BY <4>1 DEF ObserveScripts, Known
    <3>2. CASE topics' = insertedDoc
      <4>1. top.id \in Stored'
        BY <2>2, <3>2, SeedType, ModelAssumption
           DEF insertedDoc, Stored, SafetyInv, TypeOK
      <4> QED
        BY <4>1 DEF Known
    <3> QED
      BY <1>7, <3>1, <3>2 DEF insertOne
  <2> QED
    BY <1>0, <2>1, <2>3, InsertedListed
<1>8. CASE insertContent
  BY <1>0, <1>8, ReturnListed, GoesListed DEF insertContent, Runs
<1>9. CASE findParent
  BY <1>0, <1>9, ReturnListed, FoundParentListed DEF findParent, Runs
<1>10. CASE updateTopic
  BY <1>0, <1>10, ReturnListed DEF updateTopic, Runs
<1>11. CASE addSubtopicThrows \/ scriptStops
  BY <1>0, <1>11, EndListed DEF addSubtopicThrows, scriptStops
<1>12. CASE wipe \/ updateTopicReleaseData
  BY <1>0, <1>12, KeptListed DEF wipe, updateTopicReleaseData, scriptVars
<1> QED
  BY <1>1, <1>2, <1>3, <1>4, <1>5, <1>6, <1>7, <1>8, <1>9, <1>10, <1>11, <1>12
     DEF ScriptStep, ScriptCall

(* The collection at the start lists only topics that it has.              *)
LEMMA ListedInit == ScriptsInit => ListedInv
<1> SUFFICES ASSUME ScriptsInit PROVE ListedInv
  OBVIOUS
<1>1. ASSUME NEW id \in Ids, NEW list \in listsOf(id)
      PROVE  RangeOf(list) \subseteq Stored
  <2>1. PICK v \in {topics[id].current, topics[id].next} \ {Nil} :
          topics[id] # Nil /\ list = v.subtopics /\ list # Nil
    BY <1>1 DEF listsOf, versions
  <2>2. id \notin Missing /\ topics[id] \in {newTopic(id), generateTopic(id)}
    BY <2>1 DEF ScriptsInit, Init, InitTopics
  <2>3. Seed[id] \in Version
    BY SeedType
  <2>4. v.subtopics = Seed[id].subtopics
    BY <2>1, <2>2, <2>3 DEF newTopic, generateTopic, Version
  <2>5. list \in Seq(Ids \ Missing)
    BY <2>1, <2>2, <2>4, ScriptAssumption
  <2>6. Ids \ Missing \subseteq Stored
    BY SeedType, ModelAssumption DEF ScriptsInit, Init, InitTopics, Stored
  <2> QED
    BY <2>5, <2>6, RangeType
<1>2. Listed \subseteq Known
  BY <1>1 DEF Listed, Known
<1>3. stack = <<>> /\ step = "idle" /\ DOMAIN <<>> = {}
  BY DEF ScriptsInit
<1> QED
  BY <1>2, <1>3 DEF ListedInv, StackOK

LEMMA ListedStep ==
  ScriptsInv /\ ListedInv /\ [ScriptsNext]_allVars => ListedInv'
<1> SUFFICES ASSUME ScriptsInv, ListedInv, [ScriptsNext]_allVars
             PROVE  ListedInv'
  OBVIOUS
<1>1. CASE UNCHANGED allVars
  <2>1. Known' = Known /\ Listed' = Listed
    BY <1>1 DEF allVars, vars, histories, Known, Stored, Listed, listsOf, versions
  <2> QED
    BY <1>1, <2>1, KeptListed DEF allVars, scriptVars, ListedInv
<1>2. CASE Next /\ UNCHANGED scriptVars /\ ObserveScripts
  <2>1. Known \subseteq Known' /\ Listed' \subseteq Known'
    BY <1>2, KnownGrows, ServiceLists DEF ListedInv, Known
  <2> QED
    BY <1>2, <2>1, KeptListed DEF scriptVars
<1>3. CASE ScriptStep /\ ObserveScripts
  BY <1>3, ScriptListed
<1> QED
  BY <1>1, <1>2, <1>3 DEF ScriptsNext

(* Subtopics are created before the topic that lists them, and a topic is  *)
(* listed after it was inserted: a script that is killed anywhere, beside  *)
(* any writes of the service, leaves no list of missing topics, but for    *)
(* those whose creation or listing was interfered with.                    *)
THEOREM ListedTopicsExist == ScriptsSpec => []ListedExist
<1>1. ListedInv => ListedExist
  BY DEF ListedInv, Known, ListedExist
<1> QED
  BY <1>1, ListedInit, ListedStep, ScriptsSafety, PTL DEF ScriptsSpec

=============================================================================
