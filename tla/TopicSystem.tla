---------------------------- MODULE TopicSystem ----------------------------
(***************************************************************************)
(* The service as its clients meet it: editors' PUT requests and readers'  *)
(* GET requests on one collection of topics.                               *)
(***************************************************************************)
EXTENDS PublishingAPI, ReadAPI

VARIABLES
  listed,  \* history: listed[r] is every listing of the topic whose subtopics
           \* r asks for, since that request arrived
  seen     \* history: seen[r] is every item that a read of the topic asked for,
           \* or of one so listed, could have returned since then

publishingVars == <<pc, req, copy, resp, window>>

systemVars == <<topics, publishingVars, readVars, listed, seen>>

SystemInit ==
  /\ Init
  /\ ReadInit
  /\ listed = [r \in Readers |-> {}]
  /\ seen = [r \in Readers |-> {}]

(* What the requests promise: the public is served the live versions and   *)
(* lists, an editor (the private endpoints) drafts too, and lists of drafts. *)
MayList(request, doc) == IF request.private THEN doc.next ELSE doc.current

MaySee(request, id, doc) ==
  [ id |-> id,
    doc |-> [doc EXCEPT !.next = IF request.private THEN @ ELSE Nil] ]

ListingsNow(request) ==
  IF topics'[request.id] = Nil THEN {}
  ELSE {v.subtopics : v \in {MayList(request, topics'[request.id])} \ {Nil}} \ {Nil}

MayRead(r) ==
  IF rreq'[r].list THEN UNION {{l[i] : i \in DOMAIN l} : l \in listed'[r]}
                   ELSE {rreq'[r].id}

ObserveReads ==
  /\ listed' = [r \in Readers |->
                  IF rreq'[r] = Nil THEN {}
                  ELSE IF ~rreq'[r].list THEN {}
                  ELSE listed[r] \cup ListingsNow(rreq'[r])]
  /\ seen' = [r \in Readers |->
                IF rreq'[r] = Nil THEN {}
                ELSE seen[r] \cup {MaySee(rreq'[r], id, topics'[id]) :
                                    id \in MayRead(r) \cap Stored'}]

SystemNext ==
  /\ \/ Next /\ UNCHANGED slotVars /\ NoAnswer
     \/ ReadStep /\ UNCHANGED publishingVars
  /\ ObserveReads

SystemSpec == SystemInit /\ [][SystemNext]_systemVars

-----------------------------------------------------------------------------
(* Properties.                                                             *)

AnswersRead(r) == rreq[r] # Nil /\ rreq'[r] = Nil /\ answer'[r] # Nil

(* Every item of an answer is what the caller may see of that topic, as it *)
(* was at some moment of the request; nothing of the draft is public, and  *)
(* what is public was live.                                                *)
ReadsWhatWasStored ==
  [][ \A r \in Readers : AnswersRead(r) =>
        \A i \in DOMAIN answer'[r].body : answer'[r].body[i] \in seen[r]
    ]_systemVars

(* What the public may be sent as a topic, alone or in a list.             *)
PublicItem(item, list) ==
  /\ item.doc.next = Nil
  /\ item.doc.current # Nil =>
       /\ item.doc.current.state = StatePublished
       /\ item.id # TopicRoot => Linked(item.doc.current)
  /\ list => item.doc.current # Nil

(* Every topic that is sent to the public is a whole published version,    *)
(* linked to its subtopics if it has some, whatever editors have put in    *)
(* drafts, published or left half done; in a list it is never an empty one. *)
PublicSeesPublished ==
  [][ \A r \in Readers \ PrivateReaders : AnswersRead(r) =>
        \A i \in DOMAIN answer'[r].body : PublicItem(answer'[r].body[i], rreq[r].list)
    ]_systemVars

(* The topics in body are some of those that l lists, in its order; they   *)
(* are stored, and no stored one is left out unless a read of it failed.   *)
Serves(body, l) ==
  \E at \in [DOMAIN body -> DOMAIN l] :
    /\ \A i, j \in DOMAIN body : i < j => at[i] < at[j]
    /\ \A i \in DOMAIN body : body[i].id = l[at[i]] /\ l[at[i]] \in Stored
    /\ ~ReadFailures =>
         \A k \in DOMAIN l : l[k] \in Stored => \E i \in DOMAIN body : at[i] = k

(* A list answered 200 has exactly the stored topics that the parent       *)
(* listed at some moment of the request, in the order of that listing.     *)
ListIsComplete ==
  [][ \A r \in Readers :
        AnswersRead(r) /\ rreq[r].list /\ answer'[r].status = 200 =>
          \E l \in listed[r] : Serves(answer'[r].body, l)
    ]_systemVars

(* A live list that the parent had during the request names a topic that   *)
(* is stored and not live.                                                 *)
NotLiveListed(r) ==
  \E l \in listed[r] : \E i \in DOMAIN l :
    l[i] \in Stored /\ topics[l[i]].current = Nil

(* The service leaves a request without an answer only if it lists         *)
(* subtopics for the public and a live list of the parent, as it is or was *)
(* during the request, names a topic that has not been published yet: no   *)
(* draft, missing topic or change of the lists brings that about, and it   *)
(* never happens to an editor.                                             *)
AbortsHaveCause ==
  [][ \A r \in Readers : AnswersRead(r) /\ answer'[r].status = Aborted =>
        r \notin PrivateReaders /\ rreq[r].list /\ NotLiveListed(r) ]_systemVars

-----------------------------------------------------------------------------
(* What the API description says and the code does not do, as a run shows. *)

(* swagger.yaml:183-190: a GET is answered 200, 404 or 500, and so is the  *)
(* one of a public reader.                                                 *)
NeverAborts == \A r \in Readers : answer[r] # Nil => answer[r].status # Aborted

=============================================================================
