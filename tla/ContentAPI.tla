----------------------------- MODULE ContentAPI -----------------------------
(***************************************************************************)
(* GET /topics/{id}/content, public and private: the links that belong to  *)
(* a topic, by type.  A request reads two collections one after the other, *)
(* which the operator's scripts may drop and fill meanwhile.               *)
(*                                                                         *)
(* The bit flags of api/content_query.go are modelled as sets of types,    *)
(* and hrefs as numbers, in their alphabetical order.                      *)
(***************************************************************************)
EXTENDS ApiErrors, Naturals, Sequences, FiniteSets, Functions

CONSTANTS
  Ids,        \* topic ids
  HRefs,      \* hrefs of links
  Titles,     \* titles of links
  LinkLists,  \* the lists of links that documents hold; <<>> is absent or empty
  Documents,  \* documents of the content collection at the start
  Clients,    \* slots for requests
  Editors,    \* the slots of instances with private endpoints
  Blank,      \* the empty string
  Nil         \* a nil pointer or an absent document

(* api/content_query.go: the types, in the order in which they are listed. *)
ContentTypes ==
  << "spotlight", "articles", "bulletins", "methodologies",
     "methodologyarticles", "staticdatasets", "timeseries" >>

Types == {ContentTypes[i] : i \in DOMAIN ContentTypes}

Link == [href : HRefs, title : Titles]

Content == [Types -> LinkLists]

ContentDoc == [current : Content \cup {Nil}, next : Content \cup {Nil}]

Request == [id : Ids, flags : (SUBSET Types) \ {{}}]

ASSUME ContentAssumption ==
  /\ HRefs \subseteq Nat
  /\ LinkLists \subseteq Seq(Link) /\ <<>> \in LinkLists
  /\ Documents \subseteq ContentDoc
  /\ Editors \subseteq Clients
  /\ Nil \notin Content /\ Nil \notin Request /\ Blank \notin Ids

-----------------------------------------------------------------------------
(* The query parameter "type", in lower case and trimmed.                  *)

querySets ==
  [ spotlight           |-> {"spotlight"},
    articles            |-> {"articles"},
    bulletins           |-> {"bulletins"},
    methodologies       |-> {"methodologies"},
    methodologyarticles |-> {"methodologyarticles"},
    staticdatasets      |-> {"staticdatasets"},
    timeseries          |-> {"timeseries"},
    publications        |-> {"articles", "bulletins", "methodologies",
                             "methodologyarticles"},
    datasets            |-> {"staticdatasets", "timeseries"} ]

NoType == "no type in the query"
UnknownType == "a type that does not exist"

Queries == DOMAIN querySets \cup {NoType, UnknownType}

getContentTypeParameter(query) ==
  IF query = NoType THEN Types
  ELSE IF query \in DOMAIN querySets THEN querySets[query]
  ELSE {}

-----------------------------------------------------------------------------
(* models/content.go, AppendLinkInfo.  The title of an href is looked up   *)
(* in a map from hrefs, where a later link has replaced an earlier one.    *)

TitleOf(links, href) ==
  links[CHOOSE i \in DOMAIN links :
          /\ links[i].href = href
          /\ \A j \in DOMAIN links : links[j].href = href => j <= i].title

(* sort.Strings: the hrefs of all links, rearranged to be in order.        *)
sortedHRefs(links) ==
  CHOOSE hrefs \in [DOMAIN links -> HRefs] :
    /\ \A i, j \in DOMAIN links : i < j => hrefs[i] <= hrefs[j]
    /\ \E from \in Bijection(DOMAIN links, DOMAIN links) :
         \A i \in DOMAIN links : hrefs[i] = links[from[i]].href

ItemsOf(type, links, hrefs, id) ==
  [i \in DOMAIN hrefs |->
     [type |-> type, href |-> hrefs[i], title |-> TitleOf(links, hrefs[i]), topic |-> id]]

(* Wrong: each href of the map is listed once, and all links are counted.  *)
AppendLinkInfoOfMap(list, type, links, id) ==
  LET set == {links[i].href : i \in DOMAIN links}
      hrefs == CHOOSE s \in [1..Cardinality(set) -> set] :
                 \A i, j \in DOMAIN s : i < j => s[i] < s[j]
  IN  [ items |-> list.items \o ItemsOf(type, links, hrefs, id),
        total |-> list.total + Len(links) ]

AppendLinkInfo(list, type, links, id) ==
  [ items |-> list.items \o ItemsOf(type, links, sortedHRefs(links), id),
    total |-> list.total + Len(links) ]

NoItems == [items |-> <<>>, total |-> 0]

AppendIfRequired(list, type, flags, content, id) ==
  IF type \in flags THEN AppendLinkInfo(list, type, content[type], id) ELSE list

getRequiredItems(flags, content, id) ==
  LET Add(list, type) == AppendIfRequired(list, type, flags, content, id)
  IN  Add(Add(Add(Add(Add(Add(Add(NoItems,
        "spotlight"), "articles"), "bulletins"), "methodologies"),
        "methodologyarticles"), "staticdatasets"), "timeseries")

(* mongo/topic_store.go, GetContent: the types to fetch are selected one   *)
(* by one, a second time.  The id is selected as "ID", a field that no     *)
(* document has.                                                           *)
contentSelect(content, flags) ==
  IF content = Nil THEN Nil
  ELSE [type \in Types |-> IF type \in flags THEN content[type] ELSE <<>>]

projection(doc, flags) ==
  [ id      |-> Blank,
    current |-> contentSelect(doc.current, flags),
    next    |-> contentSelect(doc.next, flags) ]

-----------------------------------------------------------------------------
(* The collections, and the requests.                                      *)

VARIABLES
  topicIds,   \* the ids that have a topic document
  contents,   \* contents[id]: the content document of topic id, or Nil
  pc,         \* pc[c]: the read that c makes next, "idle" if none
  req,        \* req[c]: the request, Nil when idle
  answer,     \* answer[c]: what the last step answered to c, Nil if it did not
  existed     \* history: existed[c]: the topic that c asks for had a document at
              \* some moment of the request

vars == <<topicIds, contents, pc, req, answer, existed>>

Init ==
  /\ topicIds \in SUBSET Ids
  /\ contents \in [Ids -> Documents \cup {Nil}]
  /\ pc = [c \in Clients |-> "idle"]
  /\ req = [c \in Clients |-> Nil]
  /\ answer = [c \in Clients |-> Nil]
  /\ existed = [c \in Clients |-> FALSE]

Silent == answer' = [c \in Clients |-> Nil]

Answer(c, status, current, next) ==
  /\ pc' = [pc EXCEPT ![c] = "idle"]
  /\ req' = [req EXCEPT ![c] = Nil]
  /\ answer' = [x \in Clients |->
       IF x # c THEN Nil ELSE [status |-> status, current |-> current, next |-> next]]

AnswerError(c, err) == Answer(c, handleError[err], NoItems, NoItems)

(* Wrong: an unknown type passes, and selects nothing.                     *)
AcceptAnyType(c, id, flags) ==
  /\ pc' = [pc EXCEPT ![c] = "CheckTopicExists"]
  /\ req' = [req EXCEPT ![c] = [id |-> id, flags |-> flags]]
  /\ Silent

Accept(c, id, flags) ==
  IF flags = {} THEN AnswerError(c, "ErrContentUnrecognisedParameter")
  ELSE /\ pc' = [pc EXCEPT ![c] = "CheckTopicExists"]
       /\ req' = [req EXCEPT ![c] = [id |-> id, flags |-> flags]]
       /\ Silent

(* The handlers up to the first read.                                      *)
GetContentHandler(c) ==
  /\ pc[c] = "idle"
  /\ \E id \in Ids, query \in Queries : Accept(c, id, getContentTypeParameter(query))
  /\ UNCHANGED <<topicIds, contents>>

(* Wrong: a topic that is not there is only logged.                        *)
CheckTopicExistsUnheeded(c) ==
  /\ pc[c] = "CheckTopicExists"
  /\ \/ /\ pc' = [pc EXCEPT ![c] = "GetContent"]
        /\ Silent
        /\ UNCHANGED req
     \/ AnswerError(c, "StoreError")
  /\ UNCHANGED <<topicIds, contents>>

CheckTopicExists(c) ==
  /\ pc[c] = "CheckTopicExists"
  /\ \/ /\ req[c].id \in topicIds
        /\ pc' = [pc EXCEPT ![c] = "GetContent"]
        /\ Silent
        /\ UNCHANGED req
     \/ req[c].id \notin topicIds /\ AnswerError(c, "ErrTopicNotFound")
     \/ AnswerError(c, "StoreError")
  /\ UNCHANGED <<topicIds, contents>>

(* Wrong: an editor is answered only when both subdocuments have links.    *)
AnswerPrivateBoth(c, current, next) ==
  IF current.total = 0 \/ next.total = 0 THEN AnswerError(c, "ErrContentNotFound")
  ELSE Answer(c, 200, current, next)

AnswerPrivate(c, current, next) ==
  IF current.total = 0 /\ next.total = 0 THEN AnswerError(c, "ErrContentNotFound")
  ELSE Answer(c, 200, current, next)

AnswerPublic(c, current) ==
  IF current.total = 0 THEN AnswerError(c, "ErrContentNotFound")
  ELSE Answer(c, 200, current, NoItems)

getContentPublicHandler(c, content) ==
  IF content.current = Nil THEN AnswerError(c, "ErrContentNotFound")
  ELSE AnswerPublic(c, getRequiredItems(req[c].flags, content.current, content.id))

getContentPrivateHandler(c, content) ==
  IF Nil \in {content.current, content.next} THEN AnswerError(c, "ErrInternalServer")
  ELSE AnswerPrivate(c, getRequiredItems(req[c].flags, content.current, content.id),
                        getRequiredItems(req[c].flags, content.next, content.id))

(* GetContent, and what the handler makes of the document.                 *)
GetContent(c) ==
  LET doc == contents[req[c].id]
  IN
  /\ pc[c] = "GetContent"
  /\ \/ doc = Nil /\ AnswerError(c, "ErrContentNotFound")
     \/ /\ doc # Nil /\ c \notin Editors
        /\ getContentPublicHandler(c, projection(doc, req[c].flags))
     \/ /\ doc # Nil /\ c \in Editors
        /\ getContentPrivateHandler(c, projection(doc, req[c].flags))
     \/ AnswerError(c, "StoreError")
  /\ UNCHANGED <<topicIds, contents>>

(* scripts/wipe-database drops one collection, then the other;             *)
(* scripts/utils/content.js gives a new topic a document without links.    *)
NoLinks == [type \in Types |-> <<>>]

Operator ==
  /\ \/ topicIds' = {} /\ UNCHANGED contents
     \/ contents' = [id \in Ids |-> Nil] /\ UNCHANGED topicIds
     \/ \E id \in Ids \ topicIds : topicIds' = topicIds \cup {id} /\ UNCHANGED contents
     \/ \E id \in Ids : /\ contents[id] = Nil
                        /\ contents' = [contents EXCEPT ![id] =
                                          [current |-> NoLinks, next |-> NoLinks]]
                        /\ UNCHANGED topicIds
  /\ Silent
  /\ UNCHANGED <<pc, req>>

Observe ==
  existed' = [c \in Clients |->
                IF req'[c] = Nil THEN FALSE ELSE existed[c] \/ req'[c].id \in topicIds']

Next ==
  /\ \/ \E c \in Clients : GetContentHandler(c) \/ CheckTopicExists(c) \/ GetContent(c)
     \/ Operator
  /\ Observe

Spec == Init /\ [][Next]_vars

-----------------------------------------------------------------------------
(* Properties.                                                             *)

Item == [type : Types, href : HRefs, title : Titles, topic : Ids \cup {Blank}]

ItemList == [items : Seq(Item), total : Nat]

Response == [status : Statuses, current : ItemList, next : ItemList]

(* The state is well formed: only a request that asks for some type waits, *)
(* and what is answered is a status with two lists of items.               *)
TypeOK ==
  /\ topicIds \subseteq Ids
  /\ contents \in [Ids -> ContentDoc \cup {Nil}]
  /\ pc \in [Clients -> {"idle", "CheckTopicExists", "GetContent"}]
  /\ req \in [Clients -> Request \cup {Nil}]
  /\ answer \in [Clients -> Response \cup {Nil}]
  /\ existed \in [Clients -> BOOLEAN]
  /\ \A c \in Clients : pc[c] = "idle" <=> req[c] = Nil

Answered(c, status) == answer'[c] # Nil /\ req[c] # Nil /\ answer'[c].status = status

Before(type, other) ==
  \E i, j \in DOMAIN ContentTypes :
    i < j /\ ContentTypes[i] = type /\ ContentTypes[j] = other

Shown(list, type, href) ==
  {i \in DOMAIN list.items : list.items[i].type = type /\ list.items[i].href = href}

Stored(links, href) == {k \in DOMAIN links : links[k].href = href}

(* The list shows exactly the links that content holds of the types asked  *)
(* for: the types in their order, the links of a type in the order of      *)
(* their hrefs and as often as they are stored, each with a title that is  *)
(* stored with its href, and a total that agrees.                          *)
Shows(list, content, flags) ==
  /\ \A type \in Types, href \in HRefs :
       Cardinality(Shown(list, type, href)) =
         IF type \in flags THEN Cardinality(Stored(content[type], href)) ELSE 0
  /\ \A i, j \in DOMAIN list.items : i < j =>
       \/ Before(list.items[i].type, list.items[j].type)
       \/ /\ list.items[i].type = list.items[j].type
          /\ list.items[i].href <= list.items[j].href
  /\ \A i \in DOMAIN list.items :
       \E k \in Stored(content[list.items[i].type], list.items[i].href) :
         content[list.items[i].type][k].title = list.items[i].title
  /\ list.total = Len(list.items)

(* A content answer shows the links of the topic asked for: the live ones  *)
(* to the public, and nothing else; an editor sees both subdocuments.      *)
ContentIsComplete ==
  [][ \A c \in Clients : Answered(c, 200) =>
        LET doc == contents[req[c].id]
        IN  /\ Shows(answer'[c].current, doc.current, req[c].flags)
            /\ IF c \in Editors THEN Shows(answer'[c].next, doc.next, req[c].flags)
                                ELSE answer'[c].next = NoItems ]_vars

Holds(content, flags) == \E type \in flags : content[type] # <<>>

(* A request that was found no content for has none: neither subdocument   *)
(* that the caller may see holds a link of the types asked for.            *)
NotFoundHasNone ==
  [][ \A c \in Clients :
        /\ Answered(c, 404) /\ pc[c] = "GetContent"
        /\ contents[req[c].id] # Nil
        => LET doc == contents[req[c].id]
           IN  /\ doc.current # Nil => ~Holds(doc.current, req[c].flags)
               /\ c \in Editors => ~Holds(doc.next, req[c].flags) ]_vars

(* Content is answered only of a topic that had a document at some moment  *)
(* of the request: topic and content may be wiped and filled between the   *)
(* two reads, so the topic may be gone when its content is served, but not *)
(* that of a topic which has been gone all the time.                       *)
ContentOfKnownTopic == [][\A c \in Clients : Answered(c, 200) => existed[c]]_vars

-----------------------------------------------------------------------------
(* What the API description says and the code does not do, as a run shows. *)

(* swagger.yaml:376-385: every item has a link to the topic it belongs to. *)
ItemsNameTopic ==
  [][ \A c \in Clients : Answered(c, 200) =>
        \A i \in DOMAIN answer'[c].current.items :
          answer'[c].current.items[i].topic = req[c].id ]_vars

=============================================================================
