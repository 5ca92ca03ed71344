# A TLA+ development of dp-topic-api

dp-topic-api serves the topic tree of the ONS website. One code base runs in two
kinds of instance on the same MongoDB database: *public* ("web") instances, which
serve only what has been published, and *private* ("publishing") instances, where
editors read both versions of a topic and change it. This directory holds TLA+
models of the service, TLC configurations that check them on small instances, and
proofs checked by TLAPS.

File and line references are to the sources of this repository.

## 1. The system

### Components

| Component | State it keeps | Operations | What makes it correct |
|---|---|---|---|
| Topic model (`models/topic.go`, `models/state.go`) | none | parse and validate bodies, state table | only known states and dates reach the store |
| Error mapping (`api/api.go`, `apierrors/`) | none | `handleError` | every error has its status |
| Topic store (`mongo/topic_store.go`) | collection `topics`: per id a document with `current` (live) and `next` (draft) | `GetTopic`, `CheckTopicExists`, `UpdateReleaseDate`, `UpdateState`, `UpdateTopic`, `UpsertTopic` | atomic on one document, nothing across calls |
| Publishing endpoints (`api/topic_private.go`) | none but the goroutine of each request | `PUT release-date`, `PUT state`, `PUT topic`, `publishTopic` | edits touch the draft only; publishing makes a draft live; 200 means that the draft has the edit, or that the topic is live |
| Topic and subtopic endpoints (`api/topic_public.go`, `api/topic_private.go`) | none but the goroutine | `GET` one topic, its subtopics, the root list | the public never sees a draft; lists are complete |
| Content endpoints (`api/content.go`, `api/content_query.go`, `models/content.go`) | collection `content` (read only) | `GET content?type=` | exactly the links of the types asked for, sorted, counted |
| Life cycle (`main.go`, `service/`) | database client, health checker, HTTP server, channels, shutdown context | `Run`, `Close`, `run` | shut down in order, within a deadline |
| Operator scripts (`scripts/`) | a script's stack, its copy of a parent; they write the same collections | seed, add topics, wipe, update a release date | killed anywhere, they leave no list of missing topics, and nothing goes live that was only a draft |
| SDK (`sdk/`) | none but the call in progress | one HTTP request per call, sent again when it fails | success means applied; a refusal means unchanged, but for a wipe |
| Routing, identity, permissions (`api/api.go`, `service/service.go`) | none | choose and guard endpoints | an instance answers with the endpoints of its kind |
| Navigation (`api/navigation.go`) | none | answer the menu of a language | |

### How they interact, and what is hard

Handlers share no memory: all interaction goes through the database, one document
per call, from goroutines of any number of instances and from the scripts. Nothing
is locked between two calls of a handler and nothing is versioned. The hard
behaviours follow from this.

* `publishTopic` is a read-modify-write of the whole document (238, 250), and the
  code says that it should lock (232-235). Everything the draft receives in between
  is overwritten.
* `PUT /topics/{id}` makes up to four calls (check, update, read, upsert). Any of
  them can fail before or after it has been applied, and the instance can be killed
  between any two.
* `addSubtopic` of the scripts is a second read-modify-write of the whole document,
  of a parent that editors change; `createTopic` inserts a tree of topics from the
  leaves up and can end after any call; the index on `id` is not unique.
* A list of subtopics is put together from one read of the parent and one of each
  subtopic, while editors change both.
* Content requests read two collections that the scripts drop one after the other.
* The HTTP client under the SDK sends a request again when the connection breaks,
  while the handler of the request it gave up still runs.
* `Close` runs a goroutine against a deadline and returns on whichever comes first,
  with the goroutine at any step.

`PROJECT.json` lists each hazard at its line, with the properties that cover it.

## 2. The modules

```
ApiErrors                 handleError
  TopicModel              documents, requests, validation, update documents (constant level)
    TopicPublication      the abstract specification: draft, live, Edit, Publish
    TopicStore            the collection and what the store's calls do to it
      PublishingAPI       the PUT handlers, one step per store call     <- refines TopicPublication
        TopicScripts      the scripts beside PublishingAPI, one step per database call
      ReadAPI             the GET handlers of topics, one step per read
        TopicSystem       PublishingAPI and ReadAPI on one collection
        TopicClient       a caller of the SDK, routing and guards, PublishingAPI and ReadAPI, and a wipe
  ContentAPI              the GET handlers of content, with the two collections they read
ServiceLifecycle          main, run, Run, Close

PublishingProofs          theorems on PublishingAPI, which the next four build on
  ScriptsProofs           theorems on TopicScripts
    TreeProofs            the tree that scripts leave: nothing unlisted, nothing listed twice
  ReadProofs              lemmas on ReadAPI that the next two share
    SystemProofs          theorems on TopicSystem
    ClientProofs          theorems on TopicClient
ContentProofs             theorems on ContentAPI
LifecycleProofs           theorems on ServiceLifecycle
MCPublishing, MCScripts, MCSystem, MCClient, MCContent, MCLifecycle    instances for TLC
```

An operator whose comment begins "Wrong:" is in no specification. It is the next
operator with a plausible bug; `PROJECT.json` names the property that finds it.

### Correspondence with the code

* **A document** is `[current, next]`; `current` is `Nil` until the topic is first
  published. A version has its state, release date, slug, list of subtopics, whether
  it links to them, and one value `details` for title, description and keywords
  (required or kept together in every operation). `last_updated` is bumped by every
  write and never served (`json:"-"`), so it is left out; so are the id, which
  is the key, and the self and content links, which are functions of it. A list of
  subtopics is `Nil` when the field is absent, which is not the same as an empty one:
  an update unsets it, and the scripts throw on it.
* **A request body** has fields that are valid, `Blank` or `Malformed`. Validation is
  evaluated on every such body, in the order of the code; one that fails is answered
  at once, and one that passes takes a slot.
* **A slot** in `Requests`, `Readers` or `Clients` is a goroutine. It is reused when
  its request ends, so behaviours have any number of requests and bounded overlap.
  `pc[q]` is the *next* store call; each step is one call and what the handler does
  with its result up to the next call or the answer.
* **An update** (`TopicUpdate`) carries a slug like every other field, which is decoded
  and then left out by `createTopicUpdateQuery` (235-244), in the model as in the code.
* **A failing store call** (`StoreFailed` and the `StoreError` alternatives) reports an
  error with the write applied or not. `Abandon` ends a request anywhere without an
  answer: its instance was killed. Nothing is to be recovered at restart, since
  instances keep no state.
* **UpsertTopic** writes even when the document has gone, and then reports
  `ErrTopicNotFound` from the matched count (201-208), as the code does.
* **WriteHeader** keeps the first status, on which the handlers rely when
  `publishTopic` fails (172-183): they do not return, and set 200 afterwards.
* **A handler that panics** is answered `Aborted`: net/http recovers and closes the
  connection. `getSubtopicsPublicByID` can (line 113, `Panics`); its private counterpart
  dereferences no subdocument of a subtopic.
* **A script** (TopicScripts) has a `stack` of the calls of `createTopic` in progress,
  each with its parent, its id and the subtopics still to be created, and `step`, the
  database call it makes next. `inserted` is the flag of `insertTopic`, `parentTopic` the
  copy that `addSubtopic` has changed and not yet written. `insertOne` is the only call
  in a try block, so any other error ends the script (`scriptStops`, which also stands
  for killing it); `push` on an absent list is `addSubtopicThrows`. When every id
  is used, `generateUnusedID` draws for ever: `forEach` then has no step (`Drawing`), and
  only the operator ends the script. The operator runs one script at a time, beside any
  number of requests. `updatetopicrelease` stays open beside the others.
* **Two documents with one id.** Calls find the one that was there first, so the
  collection stays a function from ids, and the second document is kept as a member of
  `doubled`.
* **A call of the SDK** (TopicClient) is in `call`; `slot` is the goroutine that handles
  the request sent last, `reply` what came back for it, `tries` how often it was sent.
  `Break` loses the connection of a request whose handler goes on, and `Retry` sends
  it again: that is the HTTP client under the SDK, outside `src/`, modelled from what
  `callTopicAPI` can observe of it. One caller makes one call at a time; the handlers
  of attempts it gave up overlap with its later calls. The operator may wipe the topics
  at any moment (`wipeDatabase`).
* **Routing and guards.** `NotRouted`, `isAuthenticated` and `isAuthorised` answer before
  a handler. What Zebedee and the authorisation library decide is a free choice.
* **Decoding.** A public function at a private instance, or the reverse, decodes a body
  of the other shape without an error, and finds nothing in it but ids
  (`Unmarshalled`).
* **The navigation menu** is a constant for each language, which is what is kept of it.
* **Type flags** of content queries are sets; hrefs are numbers, for the sort.
  `sortedHRefs` is *the* sorted rearrangement of a list, whatever algorithm finds it.
* **The shutdown** has two processes: `main` waiting on the context, and `closer`, the
  goroutine of `Close`. `cancel` keeps the context's first error, as Go's does.

Histories record what a property of a whole request needs, and no action reads them:
`window` (PublishingAPI: the published forms of the drafts that the topic of a publish
request had since its own update, or for `PUT state` since the request came, up to its
read), `disturbed`, `doubled`, `parentWindow` (TopicScripts), `listed`, `seen` (TopicSystem),
`attempts`, `effect`, `changed`, `lost`, `served` (TopicClient), `existed` (ContentAPI).

## 3. What TLC checks

| Run | Instance | Question |
|---|---|---|
| `publishing_concurrent` | 3 request slots, 1 topic, never published at first | Is the live version always a published form of a draft the topic had during that publish request? Does 200 mean that the edit is in the draft, or that the topic is live, with the update itself unless it was overtaken? Is an edit of a draft lost to nothing but a publish in progress? |
| `publishing_scripts` | the root, a topic with a subtopic, a topic whose slug is taken; 2 scripts and 1 request slot on the root; fairness | While scripts seed, add, wipe and are killed: does every listed topic exist, is none listed twice or left unlisted, is there one document per id, is every change of a live version explained? Does every script end, unless no id is free? |
| `publishing_serial` | 1 slot, a topic and its parent, 2 slugs, lists; fairness | Do the handlers implement `TopicPublication`? Is an acknowledged update live with all it sets? Do links follow lists? Does every request end? |
| `system_reads` | a public reader, an editor's reader and an editor, the root and 3 topics, one missing, one never published | Was everything served visible during the request, and to the public only what is published and linked as its list says? Is a list answered 200 complete and in order? Does only a public list with a topic that is not live break off? |
| `client_calls` | a caller of the SDK, 2 PUT slots, 1 GET slot, 2 attempts, both kinds of instance, reads that may fail; fairness | Does success mean applied, and the refusal of an only attempt unchanged, even though topics may be wiped? Was what a GET returned stored during the call? Does every call return? |
| `lifecycle_shutdown` | 2 clients, fairness | Shutdown order, deadline, exit status, and that a signal ends the process |
| `content` | a public and a private client, every query, collections wiped and filled between the reads | Are exactly the links asked for shown, and 404 only when there are none? Is content served only of a topic that was there during the request? |

Five more runs state what the documentation says and TLC refutes:

| Run | Says | The code |
|---|---|---|
| `publishing_states` | `models/state.go:10-16`: created -> completed -> published -> created | checks only that a state is known |
| `publishing_copies` | `models/topic.go:24-25`: publishing copies `next` over `current` | writes back a copy read earlier, over both |
| `publishing_slug` | `swagger.yaml:455-471`: an update carries a slug, among the fields required | `createTopicUpdateQuery` leaves it out (`mongo/topic_store.go:235-244`); the answer is 200 |
| `system_abort` | `swagger.yaml:183-190`: 200, 404 or 500 | a list naming a topic that was never published panics (`api/topic_public.go:113`) |
| `content_topic` | `swagger.yaml:382-385`: each item has the id of its topic | `GetContent` selects `ID` instead of `id` (`mongo/topic_store.go:94`), so it is empty |

`NeverAborts` is what the API description says; what holds instead is `AbortsHaveCause`
of `system_reads`: no request of an editor breaks off, and a public one only when a live
list names a topic that is stored and not live.

Some properties have an exception, which the model shows to be needed:

* `AcknowledgedIsApplied` compares the contents of an update that publishes with what
  goes live, except where the draft was changed between that update and the read of
  `publishTopic` (`Overtaken`). That happens: a publish request that had read the draft
  before the update puts its copy back, the first request then reads that copy,
  publishes it and is answered 200, and its own update is in neither version. Without
  the exception TLC finds this within seconds. What holds even then is that the topic
  is live, equal to the draft, with a draft of that time. `AcknowledgedUpdateIsLive` has
  no such exception, and is about one request at a time.
* `ScriptsEnd` excepts a script for which no id is free (`Drawing`).
* `ListedExist`, `ListedOnce`, `OrphansWereCut` and `OneDocumentPerId` except topics in
  `disturbed`: a creation turned away by a slug or a failed insertion, a script stopped in
  the middle, a wipe, an edit of the list that names the topic. Each interference is
  recorded for the topics it concerns and no others.
* `RefusalsChangeNothing` is about calls whose request was sent once and refused with
  a code 4xx. An attempt that was given up may have changed the topic, and a 500 may
  come after a write that was applied. And it excepts a 404 after a wipe during the
  call (`lost`): the draft was updated before the wipe, or `UpsertTopic` inserted the
  topic again and reported that it had not found it (201-208).
* `ReportedIsApplied` says of an update that publishes that its write-back has made the
  topic live; with which contents is `AcknowledgedIsApplied`.

### Bounds

* *One topic* is enough in `publishing_concurrent`: no step of a handler reads or writes
  a second document, and requests for different topics share nothing. The serial run
  has two, so that a write to the wrong one would show.
* *Three slots* let a publish be overtaken between its read and its write by an edit
  and by another publish. The theorems have no bound on slots.
* *Scripts*: two runs (`MaxRuns`) let a script be run again after it was killed, and a
  wipe come between two; the tree is two topics deep, so that the recursion returns
  into a loop; `n` has the slug of `t`; a request edits the root, which is the parent
  that the scripts read and write back. `generateUnusedID` draws from a set of one, so
  that the second topic to add finds no free id once the first is there.
* *Client*: `Calls` is the one PUT request that makes all four store calls; the other
  PUT functions are called with arguments that are refused. Two attempts and two PUT
  slots let the handler of the first attempt overtake, or be overtaken by, the second.
* *Values*: one or two of each kind. Nothing branches on a value but the state, of
  which all three occur. `Nil` is a second release date, that of a seeded topic, and is
  what tells the contents of an update from those of the seed: in
  `publishing_concurrent` a publish request by `PUT state` can put the seeded contents
  back over an update. `SentSlugs` are the slugs of updates: `Blank` where no property
  is about them, another one than the topic's in `publishing_serial` and
  `publishing_slug`.
* *Symmetry* is over request slots, in `publishing_concurrent` only, which checks no
  liveness.
* *Bound* in MCSystem (a state constraint, safety runs only): only the root comes to
  list subtopics, and a GET is followed while at most `MaxSeen` item versions come up
  during it, one less for a single topic. `MaxSeen` is 3: of a list, one topic that no
  editor touches and an older and a newer version of the other. Since the other topics
  have no lists, that what is served links to its subtopics as its list says is
  exercised on them by the theorem `PublicIsPublished` only, and on lists by
  `publishing_serial`.
* *Content*: lists that are empty, out of order, or hold one href twice; in a type
  queried alone, in a group, and in the last type. `HRefs` has two values.
* *Readers*: one at a time, since readers write nothing and so cannot affect each
  other.
* *Targets* are the topics that editors and callers address; the others change only
  by scripts, or not at all.

### Fairness

* `FairSpec` of PublishingAPI: each request's store calls are weakly fair. The MongoDB
  driver gives up a call at its query timeout, and the failing answers are
  alternatives of the same action. Nothing is assumed of arrivals or of which
  alternative is taken.
* `ScriptsFairness`: a call of the script that runs returns. Nothing is assumed of the
  requests beside it, nor that scripts are started or killed.
* `ClientFairness`: store calls and reads return as above, and the goroutine of the
  caller goes on (it sends, looks at what came back, and retries or gives up). A
  connection need never break for a call to end, and every read may fail.
* `FairSpec` of ServiceLifecycle: the goroutine of `run` is scheduled, the calls of
  start-up return, and time passes up to the deadline. Requests may run for ever, and
  the goroutine of `Close` may be stuck at any step (`HealthCheck.Stop` has no deadline).
* `lifecycle_shutdown` does not check for deadlock, because the process ends. All other
  runs do.

## 4. What is proved

All theorems hold for every value of the constants that satisfies the named
assumptions, which TLC evaluates in the runs. `ModelAssumption`, `RequestAssumption`,
`AnswerAssumption` and `ReceivedAssumption` say that special values differ from ordinary
ones; `StoreAssumption` that seeded topics are published and linked consistently;
`ConcurrencyAssumption`, `ReadAssumption` and `ClientAssumption` type the constants of
their modules, slots of different kinds being different; `ScriptAssumption` says that the
topics that are there at first list only topics that are there, and that the root is
seeded with an empty list, as `createRootTopic` does; `ContentAssumption` types the
constants of ContentAPI, hrefs being numbers.

Every invariant and action property of a passing run is stated by a theorem.

`PublishingProofs` (any topics, any number of slots):

* `TypeCorrect`: `Spec => []TypeOK`. `TypeOK` includes `SlotOK`, which ties a position
  to the request in the slot, and is inductive: without it, "`UpsertTopic` writes a
  document" could not be shown, since `copy` may be `Nil` elsewhere.
* `LiveIsPublished`, `LinksAreConsistent`: these are not inductive alone, because an
  upsert writes a *copy* read earlier. `SafetyInv` adds that such a copy is a published
  version, consistently linked (`TidyTopics`, `CopyOK`), and that it is in `window[q]`.
* `PublishFreshness`: `Spec => PublishWritesSeenDraft`. Every step that changes a live
  version is an upsert, whose copy is in the window by `SafetyInv`. This is the
  strongest statement that holds of the unlocked read-modify-write: what goes live may
  be out of date, but never invented.
* `Acknowledged`: `Spec => AcknowledgedIsApplied`. The invariant has `WindowOK` and
  `CopyOK` for it: a request between its update and its answer has that update in its
  window, and what it writes back is in the window too, so that the two are one unless
  the window has a second member. The rest is by cases on the step that answers. Without
  the lock no more can be said of 200: an update may be lost, but only to a write that
  came between it and the read.
* `SerialRefinement`: with `Serial`, `Spec => PublicationSpec`. `SerialInv` says that at
  most one slot is busy and that its copy is still that of the stored document; an
  upsert is then `Publish`, other writes are `Edit`, and the rest stutter.
  `publishing_copies` shows that `Serial` is needed.
* `UpdatesGoLive`: with `Serial`, `Spec => AcknowledgedUpdateIsLive`. `UpdateHeld` says
  that from a publishing update to its upsert the stored draft carries that update.
* `EditsAreKept`: `Spec => DraftsAreKept`, call by call: an update call leaves alone the
  live version and the fields it is not for, and what an upsert puts back is in the
  window by `SafetyInv`. It bounds the damage of the missing lock: an acknowledged edit
  can be lost, but only to a later edit of the same field, or to a publish request of the
  same topic that was in progress.
* `RequestsAdvance`: the order behind `RequestsEnd`. Every store call, whatever it
  returns, lowers `CallsLeft` (at most 4), and nothing else moves a request in progress.

`ScriptsProofs` (any trees of topics, any number of runs, requests beside them):

* `ScriptsInv` is `SafetyInv` with what `ScriptTypeOK` says of the control (`ControlOK`),
  the types of the histories, and `ParentOK`: the live version in the copy that
  `updateTopic` will write is one of `parentWindow` with one subtopic added. It gives
  `ScriptsTypeCorrect`, `ScriptsLivePublished`, `ScriptsKeepLinks`, and `ScriptsExplainLive`:
  nothing that was only a draft goes live by a script.
* `ScriptsAcknowledge`: 200 means the same beside the scripts, whose write-backs are
  among the writes that may come between an update and the read that publishes it.
* `SecondDocumentWasWiped`, from `OneDocumentInv`: a request that will upsert a topic that
  is not stored had it wiped, and so had a script that is past its finds, with
  `inserted` true, and whose topic is stored all the same.
* `ListedTopicsExist`, from `ListedInv`: what is named by a list, or by the copy of one
  that a script has still to write, is stored or disturbed, and so are the subtopics
  that the calls of `createTopic` in the stack have already been through. The order
  there (subtopics, topic, link) is what makes it hold.

`TreeProofs` (the same, with a hypothesis on the data of the scripts each, which TLC
evaluates in `publishing_scripts`):

* `OrphansAreRecorded`: with `StartsBare`, `ScriptsSpec => []OrphansWereCut`. `StartsBare`
  says that nothing but the root is stored before the first script, which is how
  `create-db.js` leaves the database. `OrphanInv` accounts for every stored topic: it
  is listed, or disturbed, or the script in progress has it in its stack with the call
  that lists it still to come (`Accounted`, `ChildrenPlaced`, `CallsOK`).
* `TopicsListedOnce`: with `OnePlaceEach`, `ScriptsSpec => []ListedOnce`. `OnePlaceEach` says
  that each topic of the seed and of the added trees has one place in them: a seeded
  topic has the id `topic-<i>` (`insert-topics.js:7`), an added one an id that is not in
  use, and a subtopic its parent's id with an index (`scripts/utils/topic.js:50`).
  `OnceInv` adds that a topic with a parent is created for that parent only (`PlacesOK`),
  that an inserted topic is in no list until its script puts it there (`ListingOK`),
  and that the children of a topic that is not stored are in none (`NotYetListed`).

`SystemProofs` (any readers and editors):

* `ReadsTypeCorrect`, and `ReadsServeThePast`: `SystemSpec => ReadsWhatWasStored`.
  `ReaderOK` says that `listed` and `seen` contain what may be read now, that the ids
  still to be read come from a listing of the request, and that the items collected
  are in `seen`.
* `AbortsExplained`: `SystemSpec => AbortsHaveCause`: the ids still to be read come from
  a listing of the request (`ReaderOK`), so a topic on which the loop breaks off is named
  by one.
* `ListsAreComplete`: `SystemSpec => ListIsComplete`, whether or not reads fail. `ListInv`
  says that the items collected serve the first `n` topics of a listing of the request,
  and that the ids still to be read are the rest of it; that topics stay stored
  (`UpsertFinds`) keeps this true while the list is read.
* `PublicIsPublished`: `SystemSpec => PublicSeesPublished`, of which each side has a part:
  that live versions are published and linked is `SafetyInv` of the writers, that they
  are what is sent, and never an absent one in a list, is `PublicInv` of the readers.
* `EditorsAsAlone`: `SystemSpec => Spec`. Readers disturb nothing, so all theorems of
  `PublishingProofs` hold beside them; `SystemAcknowledges` and `SystemPublishes` (the
  refinement of `TopicPublication` by the whole system) are two of them.
* `ReadsAdvance`: the order behind the end of a GET request. A list takes the read of its
  parent and one of each topic listed then; edits of the list do not lengthen it.

`ClientProofs` (any caller, slots, number of attempts):

* `ClientTypeCorrect`, from `ServiceOK /\ CallInv`: the slot that a call waits for is busy
  with that call's request.
* `ReportsAreTrue`: `ClientSpec => ReportedIsApplied`. `EffectInv` adds that a reply 200 to
  a PUT call implies `effect`, and that the slot waited for is among the `attempts`.
* `RefusalsAreClean`: `ClientSpec => RefusalsChangeNothing`, with a wipe possible at any
  moment. `ChangeInv` says that a single attempt that changed the topic had found it, and
  that it is still there unless topics were wiped during the call (`Kept`): then no later
  call of the attempt is answered 4xx but by a 404 after a wipe (`LossObserved`, `LostInv`).
* `GetsReturnThePast`: `ClientSpec => ReturnedWasServed`. `ServedInv` follows the items from
  the reader of the call's request (a break leaves a reader behind, and its items with
  it) through the reply: if function and instance are of one kind, they are in
  `served`.

`LifecycleProofs` (any set of clients): `LifecycleTypes`, `StoreOutlastsRequests`,
`ChecksOnOpenStore`, `CleanExit`. The inductive `IInv` says, for each step of `main`
(`StartOK`) and of `closer` (`CloseOK`), what is open and what is over by then; in
particular, that the context can only be done before `closer` is by its deadline.

`ContentProofs` (any lists, of any length, with repeated hrefs and in any order):

* `ContentTyped`: `Spec => []TypeOK`: only a request that asks for some type waits.
* `ContentAnswersComplete`: `Spec => ContentIsComplete`. The answer is built type by type
  (`AppendLinkInfo`), as the code does. `AddedShows` says that a list that shows the
  first k-1 types comes to show the first k, and `RequiredShows` chains that; that every
  href is shown as often as it is stored is counted by bijections between index sets.
* `NotFoundMeansNone`: `Spec => NotFoundHasNone`.
* `KnownTopics`: `Spec => ContentOfKnownTopic`. A request that has passed the check has
  seen the topic (`CheckedExisted`), whatever is wiped after it.
* `SortExists`, on which they rest: every list of numbers has a sorted rearrangement, so
  that the `CHOOSE` in `sortedHRefs` finds one. It is proved by induction on the length,
  in first-order form: the least length without one contradicts the well-foundedness
  of `<` (`NatInductionSet`).

Only model-checked:

* Liveness (`RequestsEnd`, `ScriptsEnd`, `CallsEnd`, `SignalEndsProcess`): it needs
  ENABLED, which the provers do not handle. What the code contributes to `RequestsEnd`
  and to the GET calls of `CallsEnd` is proved (`RequestsAdvance`, `ReadsAdvance`);
  that a call that is due is enabled, and so returns, is left to TLC.
* Whatever the runs with `expect` violation refute.

## 5. What is not modelled

* **Configuration** is read once at start; the deadline, the kind of instance and the
  permissions flag are constants or variables of the models.
* **Mocks** and component tests are not part of the service.
* **The health endpoint** of the service and the health checker of the SDK: they report
  what the dp-healthcheck library holds.
* **Headers**: their contents, the tokens in them, `Cache-Control`.
* **Bodies** that are complete and do not decode: no handler sends one.
* **Two upserts of one id at the same moment** inside MongoDB, neither of which finds
  the document: here a call of the store is one step. The duplicates that separate
  calls can produce are modelled.
* **Two scripts at a time**: they are run by hand, and each waits for its own calls.
* **What a caller does after its call has returned** while a handler of it still runs is
  in the behaviours of TopicClient, but no property speaks of it: requests carry no
  identity, so the service cannot promise anything.

### Observed while modelling, not checked by a run

* `GET /topics/{id}` answers 200 with the body `null` for a topic never published
  (`api/topic_public.go:54`).
* With failing reads a list is answered 200 without the topics that could not be read
  (`api/topic_public.go:106-109`). The run checks `ListIsComplete` where reads do not fail;
  the theorem has both, and allows those topics to be left out where reads may fail.
* A topic whose script was killed between its insertion and its listing stays
  unlisted, and running the script again does not list it: `insertTopic` finds it, and
  `createTopic` then returns (`scripts/utils/topic.js:59-65`). `OrphansWereCut` excepts it.
* Two links with one href both get the title of the last (`models/content.go:132`).
* At the deadline the database is closed under running requests, hence the exception
  in `RequestsKeepStore`.
* A fatal error of the server followed by a clean shutdown exits with status 0
  (`main.go:68-73`).

## 6. Plan

1. *Done*: the publishing core, its abstract specification and refinement; readers;
   scripts as steps beside the service; the SDK with routing and guards; content;
   life cycle; a theorem for every invariant and action property of the passing runs.
2. **Progress of the others**: measures as in `RequestsAdvance` for the scripts (the stack
   and what is left to create) and for a call of the SDK (attempts, then calls).
3. **Refinements between the compositions**: a caller of the SDK as editors and readers
   of `TopicSystem`, which needs the histories of both in `TopicClient`.
4. **Deadline and requests**: composing `ServiceLifecycle` with `PublishingAPI`, so that
   the database that closes under a running request is the one it writes to. Today a
   request that ends so is `StoreError` or `Abandon`.
