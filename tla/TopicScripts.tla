---------------------------- MODULE TopicScripts ----------------------------
(***************************************************************************)
(* The operator's scripts beside the running service: seed-database and    *)
(* add-topics, which build trees of topics call by call, wipe-database and *)
(* updatetopicrelease.  The scripts read and write the collection without  *)
(* the service knowing; the operator runs one at a time, and one may stop  *)
(* anywhere: it is killed, or an error of the database is not caught.      *)
(***************************************************************************)
EXTENDS PublishingAPI, Sequences

CONSTANTS
  SeedTopics,   \* ids of the top-level topics of seed-database, in order
  AddTopics,    \* items of add-topics, in order: the parent of each, and the
                \* ids that generateID may draw for it
  MaxRuns       \* how many scripts are run: a bound of the instances

ScriptItem == [parentID : Ids, ids : SUBSET Ids, unused : BOOLEAN]

ASSUME ScriptAssumption ==
  /\ TopicRoot \in Ids
  /\ Seed[TopicRoot].subtopics = <<>>
  /\ \A id \in Ids \ Missing : Seed[id].subtopics \in Seq(Ids \ Missing) \cup {Nil}
  /\ SeedTopics \in Seq(Ids)
  /\ AddTopics \in Seq(ScriptItem)
  /\ MaxRuns \in Nat

VARIABLES
  step,         \* where the script is: the call it makes next, or "idle"
  stack,        \* the calls of createTopic in progress, innermost first
  todo,         \* the items of the script that are still to be created
  inserted,     \* FALSE as soon as something stands against the insertion
  parentTopic,  \* addSubtopic's copy of the parent, with the subtopic added
  runs,         \* how many scripts were run
  disturbed,    \* history: ids whose creation or listing was interfered with
  doubled,      \* history: ids with a second document, which no call returns
  parentWindow  \* history: live versions of the parent since it was read

scriptVars == <<step, stack, todo, inserted, parentTopic, runs>>

histories == <<disturbed, doubled, parentWindow>>

allVars == <<vars, scriptVars, histories>>

ScriptsInit ==
  /\ Init
  /\ step = "idle"
  /\ stack = <<>>
  /\ todo = <<>>
  /\ inserted = FALSE
  /\ parentTopic = Nil
  /\ runs = 0
  /\ disturbed = {}
  /\ doubled = {}
  /\ parentWindow = {}

-----------------------------------------------------------------------------
(* The control of a script.  A call createTopic(parentID, topicData, id)   *)
(* is a frame of the stack; left is what its loop over the subtopics has   *)
(* still to create.                                                        *)

Frame == [parentID : Ids \cup {Nil}, id : Ids, left : Seq(Ids)]

subtopicsOf(id) ==
  IF Seed[id].subtopics = Nil THEN <<>> ELSE Seed[id].subtopics

top == Head(stack)

Runs(call) == step = call /\ UNCHANGED <<todo, runs>>

Goes(call) == step' = call /\ UNCHANGED <<stack, parentTopic>>

Call(parentID, id, callers) ==
  /\ step' = "createTopic"
  /\ stack' = <<[parentID |-> parentID, id |-> id, left |-> subtopicsOf(id)]>> \o callers
  /\ UNCHANGED parentTopic

Return ==
  /\ step' = IF Tail(stack) = <<>> THEN "forEach" ELSE "createTopic"
  /\ stack' = Tail(stack)
  /\ parentTopic' = Nil

Start ==
  /\ step = "idle"
  /\ runs < MaxRuns
  /\ runs' = runs + 1

End ==
  /\ step' = "idle"
  /\ stack' = <<>>
  /\ todo' = <<>>
  /\ parentTopic' = Nil
  /\ inserted' = FALSE
  /\ UNCHANGED runs

-----------------------------------------------------------------------------
(* seed-database and add-topics.                                           *)

(* The root topic has no parent; the collections and indexes are there.    *)
seedDatabase ==
  /\ Start
  /\ Call(Nil, TopicRoot, <<>>)
  /\ todo' = [i \in DOMAIN SeedTopics |->
                [ parentID |-> TopicRoot, ids |-> {SeedTopics[i]}, unused |-> FALSE ]]
  /\ UNCHANGED <<topics, inserted>>

addTopics ==
  /\ Start
  /\ step' = "forEach"
  /\ todo' = AddTopics
  /\ UNCHANGED <<topics, stack, inserted, parentTopic>>

(* generateUnusedID draws until it finds an id that no topic has; while    *)
(* there is none it goes on drawing, which is no step.                     *)
itemIDs(item) == IF item.unused THEN item.ids \ Stored ELSE item.ids

forEach ==
  /\ step = "forEach"
  /\ UNCHANGED topics
  /\ \/ /\ todo # <<>>
        /\ \E id \in itemIDs(Head(todo)) : Call(Head(todo).parentID, id, <<>>)
        /\ todo' = Tail(todo)
        /\ UNCHANGED <<inserted, runs>>
     \/ todo = <<>> /\ End

(* generateUnusedID finds no id that is free.                              *)
Drawing ==
  /\ step = "forEach"
  /\ todo # <<>>
  /\ itemIDs(Head(todo)) = {}

(* The subtopics are created before the topic that lists them.             *)
createSubtopic ==
  /\ Runs("createTopic")
  /\ top.left # <<>>
  /\ Call(top.id, Head(top.left),
          <<[top EXCEPT !.left = Tail(@)]>> \o Tail(stack))
  /\ UNCHANGED <<topics, inserted>>

(* insertTopic: two finds, and the insertion if both found nothing.        *)

liveSlugs == {topics[id].current.slug :
                id \in {i \in Stored : topics[i].current # Nil}}

findTopicByID ==
  /\ Runs("createTopic")
  /\ top.left = <<>>
  /\ inserted' = (top.id \notin Stored)
  /\ Goes("findTopicBySlug")
  /\ UNCHANGED topics

(* Wrong: the root topic goes on to be listed like the others.             *)
InsertedThenListed == Goes("insertContent")

(* createRootTopic ends with the insertion; createTopic goes on.           *)
Inserted ==
  \/ top.parentID = Nil /\ Return
  \/ top.parentID # Nil /\ Goes("insertContent")

(* Wrong: a topic that is there already is only warned of.                 *)
findTopicBySlugWarned ==
  /\ Runs("findTopicBySlug")
  /\ inserted' = TRUE
  /\ Goes("insertOne")
  /\ UNCHANGED topics

(* Wrong: a topic that is there already counts as inserted.                *)
findTopicBySlugCounted ==
  /\ Runs("findTopicBySlug")
  /\ inserted' = TRUE
  /\ IF inserted /\ Seed[top.id].slug \notin liveSlugs
     THEN Goes("insertOne") ELSE Inserted
  /\ UNCHANGED topics

findTopicBySlug ==
  /\ Runs("findTopicBySlug")
  /\ inserted' = (inserted /\ Seed[top.id].slug \notin liveSlugs)
  /\ \/ inserted' /\ Goes("insertOne")
     \/ ~inserted' /\ Inserted
  /\ UNCHANGED topics

(* The index on id is not unique: a document inserted since the finds is   *)
(* no obstacle, and stays the one that every call returns.  An error is    *)
(* caught, whether or not the insertion was made.                          *)
insertedDoc ==
  IF top.id \in Stored THEN topics
  ELSE [topics EXCEPT ![top.id] = generateTopic(top.id)]

(* Wrong: an insertion that failed is taken for done.                      *)
insertOneUnchecked ==
  /\ Runs("insertOne")
  /\ topics' \in {topics, insertedDoc}
  /\ inserted' = TRUE
  /\ Inserted

(* Wrong: a failed insertion is tried again from the finds.                *)
insertOneRetried ==
  /\ Runs("insertOne")
  /\ \/ topics' = insertedDoc /\ inserted' = TRUE /\ Inserted
     \/ UNCHANGED topics /\ inserted' = FALSE /\ Goes("createTopic")

insertOne ==
  /\ Runs("insertOne")
  /\ \/ topics' = insertedDoc /\ inserted' = TRUE
     \/ topics' \in {topics, insertedDoc} /\ inserted' = FALSE
  /\ Inserted

(* Wrong: a topic whose content is there already is not listed.            *)
insertContentOrReturn ==
  /\ Runs("insertContent")
  /\ \/ inserted /\ Goes("findParent")
     \/ Return
  /\ UNCHANGED <<topics, inserted>>

(* The content document of the topic, unless there is one already.         *)
insertContent ==
  /\ Runs("insertContent")
  /\ \/ inserted /\ Goes("findParent")
     \/ ~inserted /\ Return
  /\ UNCHANGED <<topics, inserted>>

(* addSubtopic: read the parent, add the subtopic to both lists of the     *)
(* copy ...                                                                *)

parentStored == top.parentID \in Stored

HasList(v) == IF v = Nil THEN FALSE ELSE v.subtopics # Nil

Pushed(v, id) == [v EXCEPT !.subtopics = Append(@, id)]

(* Wrong: the subdocuments are kept the same, as publishTopic does.        *)
addedToSynced(doc, id) ==
  syncNextAndCurrentTopic([doc EXCEPT !.next = Pushed(@, id)])

addedTo(doc, id) ==
  [ current |-> Pushed(doc.current, id), next |-> Pushed(doc.next, id) ]

(* Wrong: a list that is missing is made.                                  *)
findParentMakingLists ==
  LET doc == topics[top.parentID]
      Made(v) == [v EXCEPT !.subtopics = Append(IF @ = Nil THEN <<>> ELSE @, top.id)]
  IN
  /\ Runs("findParent")
  /\ UNCHANGED <<topics, inserted>>
  /\ \/ ~parentStored /\ Return
     \/ /\ parentStored
        /\ doc.current # Nil
        /\ parentTopic' = [current |-> Made(doc.current), next |-> Made(doc.next)]
        /\ step' = "updateTopic"
        /\ UNCHANGED stack

findParent ==
  LET doc == topics[top.parentID]
  IN
  /\ Runs("findParent")
  /\ UNCHANGED <<topics, inserted>>
  /\ \/ ~parentStored /\ Return
     \/ /\ parentStored
        /\ HasList(doc.next) /\ HasList(doc.current)
        /\ parentTopic' = addedTo(doc, top.id)
        /\ step' = "updateTopic"
        /\ UNCHANGED stack

(* ... and write the whole copy back, if there still is a parent.          *)
updateTopic ==
  /\ Runs("updateTopic")
  /\ topics' = IF parentStored THEN [topics EXCEPT ![top.parentID] = parentTopic]
                               ELSE topics
  /\ Return
  /\ UNCHANGED inserted

(* push throws when a subdocument of the parent, or its list, is absent.   *)
addSubtopicThrows ==
  LET doc == topics[top.parentID]
  IN  /\ step = "findParent"
      /\ parentStored
      /\ ~(HasList(doc.next) /\ HasList(doc.current))
      /\ UNCHANGED topics
      /\ End

(* The script is killed, or a call throws: of the calls only insertOne is  *)
(* in a try block.  (That a call throws after it was applied is this step  *)
(* after that of the call.)                                                *)
scriptStops ==
  /\ step # "idle"
  /\ UNCHANGED topics
  /\ End

ScriptCall ==
  \/ forEach
  \/ createSubtopic
  \/ findTopicByID
  \/ findTopicBySlug
  \/ insertOne
  \/ insertContent
  \/ findParent
  \/ updateTopic
  \/ addSubtopicThrows

-----------------------------------------------------------------------------
(* wipe-database drops the collections.                                    *)
wipe ==
  /\ Start
  /\ topics' = [id \in Ids |-> Nil]
  /\ UNCHANGED <<step, stack, todo, inserted, parentTopic>>

(* updatetopicrelease, which stays open and asks for topics and dates,     *)
(* calls the store's UpdateReleaseDate.                                    *)
updateTopicReleaseData ==
  /\ \E id \in Targets \cap Stored, date \in Dates :
       topics' = [topics EXCEPT ![id] = setReleaseDate(@, date)]
  /\ UNCHANGED scriptVars

ScriptStep ==
  \/ seedDatabase
  \/ addTopics
  \/ ScriptCall
  \/ scriptStops
  \/ wipe
  \/ updateTopicReleaseData

-----------------------------------------------------------------------------
(* The histories.                                                          *)

RangeOf(list) == {list[i] : i \in DOMAIN list}

versions(id) ==
  IF topics[id] = Nil THEN {} ELSE {topics[id].current, topics[id].next} \ {Nil}

listsOf(id) == {v.subtopics : v \in versions(id)} \ {Nil}

Listed == UNION {UNION {RangeOf(list) : list \in listsOf(id)} : id \in Ids}

family(frame) == {frame.id} \cup RangeOf(subtopicsOf(frame.id))

(* Turned away by a slug, or by an error of the insertion.                 *)
turnedAway ==
  IF \/ step = "insertOne" /\ step' # "idle" /\ ~inserted'
     \/ step = "findTopicBySlug" /\ step' # "idle" /\ inserted /\ ~inserted'
  THEN family(top) ELSE {}

(* Inserted, and not listed because the parent is missing; a subtopic is   *)
(* listed by the topic that is being created for its caller.               *)
withoutParent ==
  IF step = "findParent" /\ step' = "forEach" THEN {top.id} ELSE {}

cutOff ==
  IF step # "idle" /\ step' = "idle" THEN UNION {family(f) : f \in RangeOf(stack)}
                                     ELSE {}

wiped == {id \in Ids : topics[id] # Nil /\ topics'[id] = Nil}

(* In a list that a write of the service made or removed.                  *)
relisted ==
  IF topics' # topics /\ UNCHANGED scriptVars
  THEN UNION {RangeOf(list) : list \in
                UNION {(listsOf(id)' \ listsOf(id)) \cup (listsOf(id) \ listsOf(id)')
                         : id \in Ids}}
  ELSE {}

ObserveScripts ==
  /\ disturbed' = disturbed \cup turnedAway \cup withoutParent \cup cutOff
                            \cup wiped \cup relisted
  /\ doubled' = IF step = "insertOne" /\ step' \notin {step, "idle"} /\ top.id \in Stored
                THEN doubled \cup {top.id} ELSE doubled \ wiped
  /\ parentWindow' = IF step' # "updateTopic" THEN {}
                     ELSE parentWindow \cup
                          ({topics'[id].current : id \in {top.parentID} \cap Stored'}
                             \ {Nil})

ScriptsNext ==
  /\ \/ Next /\ UNCHANGED scriptVars
     \/ ScriptStep /\ UNCHANGED <<pc, req, copy, resp>> /\ Observe
  /\ ObserveScripts

(* A call of a script returns.                                             *)
ScriptsFairness == WF_scriptVars(ScriptCall)

ScriptsSpec == ScriptsInit /\ [][ScriptsNext]_allVars

FairScriptsSpec == ScriptsSpec /\ ScriptsFairness

-----------------------------------------------------------------------------
(* What is known of the data of the scripts.                               *)

Children(id) == RangeOf(subtopicsOf(id))

(* Before the first script the collection holds the root topic, at most.   *)
StartsBare == Ids \ Missing \subseteq {TopicRoot}

(* scripts/utils/topic.js makes the id of a subtopic from its topic's id   *)
(* and its position, of which a top-level id has none: a topic has one     *)
(* place in the trees that are seeded.                                     *)
OnePlaceEach ==
  /\ \A id \in Ids : \A i, j \in DOMAIN subtopicsOf(id) :
       i # j => subtopicsOf(id)[i] # subtopicsOf(id)[j]
  /\ \A id \in Ids : \A other \in Ids \ {id} : Children(id) \cap Children(other) = {}
  /\ \A id \in Ids :
       /\ TopicRoot \notin Children(id)
       /\ RangeOf(SeedTopics) \cap Children(id) = {}
       /\ \A item \in RangeOf(AddTopics) : item.ids \cap Children(id) = {}

-----------------------------------------------------------------------------
(* Properties.                                                             *)

Steps == {"idle", "forEach", "createTopic", "findTopicBySlug", "insertOne",
          "insertContent", "findParent", "updateTopic"}

(* Where a script is says what it holds: calls of createTopic in progress, *)
(* each but the first called for a subtopic of the next; all subtopics     *)
(* created before the topic; a parent to add the topic to, and a copy of   *)
(* it only while it is being written.                                      *)
ScriptTypeOK ==
  /\ step \in Steps
  /\ stack \in Seq(Frame)
  /\ todo \in Seq(ScriptItem)
  /\ inserted \in BOOLEAN
  /\ parentTopic \in TopicDoc \cup {Nil}
  /\ runs \in Nat
  /\ disturbed \in SUBSET Ids
  /\ doubled \in SUBSET Ids
  /\ parentWindow \in SUBSET Version
  /\ stack = <<>> <=> step \in {"idle", "forEach"}
  /\ step = "idle" => todo = <<>>
  /\ step \notin {"idle", "forEach", "createTopic"} => top.left = <<>>
  /\ step \in {"insertContent", "findParent", "updateTopic"} => top.parentID # Nil
  /\ parentTopic # Nil <=> step = "updateTopic"

LiveIsExplainedOf(id) ==
  \/ LiveComesFromWindow(id)
  \/ wipe
  \/ step = "insertOne" /\ top.id = id /\ Live(id) = Nil /\ Live(id)' = Seed[id]
  \/ step = "updateTopic" /\ top.parentID = id
     /\ \E v \in parentWindow : HasList(v) /\ Live(id)' = Pushed(v, top.id)

(* The live version of a topic changes by a publish request of a draft it  *)
(* had during that request, or by a wipe, by the insertion of the seeded   *)
(* version where there was none, or by adding one subtopic to a live       *)
(* version that the topic had since the script read it: nothing that was   *)
(* only a draft goes live by a script.                                     *)
LiveIsExplained == [][\A id \in Ids : LiveIsExplainedOf(id)]_allVars

(* A listed topic exists, unless its creation was disturbed: turned away   *)
(* by a slug or an error, cut off, or wiped, or the list was edited.       *)
(* Subtopics come before their parents, and a topic is listed after it was *)
(* inserted, so a script that is killed leaves no list of missing topics.  *)
ListedExist == Listed \subseteq Stored \cup disturbed

(* No topic is listed twice, or by two topics, but after a disturbance:    *)
(* addSubtopic pushes without looking, and insertTopic is what prevents    *)
(* that a script run again lists a topic again.                            *)
ListedOnce ==
  \A id \in Ids : \A list \in listsOf(id) :
    /\ \A i, j \in DOMAIN list : i # j /\ list[i] = list[j] => list[i] \in disturbed
    /\ \A other \in Ids \ {id} : \A others \in listsOf(other) :
         RangeOf(list) \cap RangeOf(others) \subseteq disturbed

(* Every topic below the root is listed by some topic, unless its creation *)
(* is under way or was disturbed.                                          *)
OrphansWereCut ==
  Stored \ (Listed \cup {TopicRoot})
    \subseteq disturbed \cup UNION {family(f) : f \in RangeOf(stack)}

(* A second document with an id arises only if the topic was wiped before: *)
(* by a publish request that was in progress and writes its copy back      *)
(* between the finds and the insertion of a script.                        *)
OneDocumentPerId == doubled \subseteq disturbed

(* Every script ends, unless all the ids that generateUnusedID can draw    *)
(* are used: then it draws for ever, until the operator stops the script.  *)
ScriptsEnd == step # "idle" ~> step = "idle" \/ Drawing

=============================================================================
