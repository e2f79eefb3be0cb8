# A verification development of SMQTK-IQR

SMQTK-IQR ranks the descriptors of a data set by relevance to a few examples,
and refines the ranking as a user labels what it shows (IQR: interactive query
refinement). A browser page talks to a search app, the search app to a REST
service, and the service keeps a session per user under a registry that expires
idle ones. The TLA+ modules in this directory model each of these parts: the
session, the registry and its expiration thread, the request threads of the
service, the search app's own part of a session, the upload of files in chunks,
and the page. TLC checks them on small instances; TLAPS proves their invariants
for every instance.

Source paths below are relative to `src/`. `WEB` stands for
`smqtk_iqr/web/search_app/modules`, `JS` for `WEB/iqr/static/js`.

## The system

| Component | State | Operations | Talks to |
|---|---|---|---|
| IQR session, `smqtk_iqr/iqr/iqr_session.py` | four label sets, working set and its seeds, results, feedback, labels of the last refinement, four view caches, a re-entrant lock | label, query neighbours, refine, read views, reset, save, load | neighbour index and ranker (plugins) |
| IQR controller, `smqtk_iqr/iqr/iqr_controller.py` | session, timeout and last-access maps, a re-entrant lock, the expiration thread and its stop event | add, get, remove, `with`, start and stop the thread, expire | sessions, expiration callback |
| IQR service, `smqtk_iqr/web/iqr_service/iqr_server.py` | session classifiers, cached scores, dirty flags; descriptor set, neighbour index and its lock, random uid list | some 30 REST handlers, each in a request thread | controller, sessions, plugins |
| IQR search app, `WEB/iqr/iqr_search.py` | work directory and example data per browser session | proxies of the service, upload ingest, saving and loading a state | service over HTTP, chunked upload |
| Chunked upload, `WEB/file_upload/FileUploadMod.py` and `static/js/flow.js`, `smqtk_upload.js` beside it | chunk map, lock per file, completed files; slots, chunks and progress indicators of a page | receive a chunk, complete a file, hand it over; send, fail, abort | page, search app, login |
| IQR page, `JS/smqtk.iqr_view.js`, `smqtk.iqr_refine_view.js`, `smqtk.iqr_status_view.js` | lists of results and ids, how many are displayed, buttons, examples shown | refine, show more, random ids, initialize, reset, load and save a state | search app |
| Data element views, `JS/smqtk.data_view.js` | label and picture of an element | adjudicate, show | search app |
| Classifier service, `smqtk_iqr/web/classifier_service/classifier_server.py` | classifier collection, immutable labels | add, train from a saved IQR state, classify, remove | saved states of a session |
| Dispatcher and login, `WEB/../__init__.py`, `WEB/login/LoginMod.py` | application instances by prefix, login state | create an instance on first use, log in | the above |
| Web sessions, previews, descriptor computation, `smqtk_iqr/utils/` | stored web session; preview map; batches | read and write back; generate once; compute in batches | MongoDB, files, plugins |

What is hard in it, and what makes each part correct:

- A session fails half-way through operations (a neighbour query, a refinement,
  the loading of a saved state) and keeps caches that several operations must
  drop. Correct: labels never on both sides, the pool is what its seeds account
  for, results and labels of one refinement, no stale view.
- The registry and the service have two levels of locks, taken by request threads
  and by a background thread that removes what the others work on. Correct: no
  deadlock, maps that agree, a handler never loses its session, scores of the
  present classifier.
- The search app keeps beside the service's session a second record of it, in
  memory and on disk, without a lock and without learning that a session has
  expired. Correct: the app can show what the session has, and has the files.
- Uploads are requests that are cut off, served late, or sent by two pages, and
  threads that work under locks which are deleted while others wait for them.
  Correct: what is announced as uploaded is the whole file.
- The page's requests are answered in any order and its callbacks change what
  other callbacks count on. Correct: at rest it shows what the server has.

`PROJECT.json` lists each hazard at its line, with the properties that cover it
or the reason none does.

## Modules

| Module | What it is |
|---|---|
| `Labels` | the four label sets and how labelling, external examples and loading change them; used by session and service |
| `RefinedViews` | abstract: what a session promises to a reader of results, without caches, failures or pool |
| `IqrSession` | a session, one action per method and per way a method fails; implements `RefinedViews` |
| `IqrController` | the registry, its lock and the expiration thread |
| `IqrService` | request threads, session locks and classifier maps, composed with the registry (`C == INSTANCE IqrController`), which it implements |
| `SearchApp` | the app's handlers on one browser session, beside the service's session |
| `ChunkBounds` | how flow.js cuts a file into chunks |
| `ChunkStore` | the upload module of the server; extends `ChunkBounds` |
| `FileUpload` | the pages' flow.js with that server; extends `ChunkStore` |
| `RefineView` | the refine pane and the random pane, and the requests under way |
| `IqrView` | the page: control buttons, uploads, examples, and the session behind it; extends `RefineView` |
| `DataView` | views of data elements, clicks, and the session's labels |
| `*Proofs` | the theorems about the module they are named after |
| `MC*` | constants for TLC |

An operator marked `(Mutant.)` is a faulty variant of the definition after it,
never used by a specification. Each property of a passing run has one, and TLC
finds the property violated when the variant takes the definition's place: the
property does say something about that code.

Some modules have *history variables*: `spoilt` of `IqrView` and `DataView`,
`excused` and `since` of `SearchApp`. They record the known causes after which
the code may be off (two refreshes that overlap, a request that failed after its
effect, a restart), and the properties hold without them. The program has no such
state, no action is guarded by it, and each cause is needed: leaving it out gives
a counterexample. `spoilt` and `since` forget: a refresh that is sent alone, or a
reset or load that has the session to itself, has to put right what was off
before, and the properties are about the state after that too. What a cause
excuses is not covered, and the hazards in `PROJECT.json` say so where that is
all there is of one.

### A session: `IqrSession`

`labels`, `working_set`, `seeds_used`, `results`, `feedback_list` are the fields
of the class. `rank_contrib` holds the four `rank_contrib_*` sets, `cache` the
four `_ordered_*` lists, and `reply` what the last call returned or raised. Every
method takes the session's lock, or (`update_working_set`) is called by a handler
that has it, so a call is one step. A call that raises is a step as well, to the
state the code leaves: `NoPositiveToQuery`, the partial `UpdateWorkingSet`,
`RefineFails` (five places), `SetStateBytesUnreadable`, `SetStateBytesIncomplete`
and `SetStateBytesFails`.

A descriptor is its uuid. A score is the place in a ranking, and `results` is the
ranking its scores give. The neighbour index returns any of `Neighbors[d]`, the
ranker any order of the pool and any feedback drawn from it, the farthest
descriptors are any of the right number. A filtered list keeps the positions of
the full list, which is enough to compare order and content. The ranker is taken
at its contract: it recommends only uuids it was given.

- `LabelsApart`: within each pair of sets nothing is labelled both ways,
  whatever a call mixes, and so for saved states.
- `PoolFromSeeds`: the working set is what the answered seeds account for, also
  after a query that raised half-way.
- `OneRefinement`: results, feedback and contributing labels belong to one
  refinement.
- `CacheCoherent`: every cached view is the view of the last refinement.
- `ImplementsViews`: a reader sees what `RefinedViews` promises; caching is
  invisible.

### The registry: `IqrController`

A method that takes and returns the lock is one step. What can be interleaved is
kept apart: a caller's `with controller:` block, the thread's wait, its reading
of the clock before it asks for the lock, its walk one key at a time, and a join
that waits with the lock held. `Expire` models what the code does: the removal
changes the dictionary being walked, the loop's next turn raises, the lock is
released and the thread is gone.

- `MapsAgree`: timeout and last-access maps have the same keys, all of them
  registered, also in the middle of a walk.
- `OneMonitor`: a running thread is the one `_expire_thread` names.
- `ExpiresOnlyIdle`: when a session is removed by the thread it is overdue at
  that moment, although `now` was read before.
- `FirstExpiration` (liveness): an overdue session is found as long as the
  thread is neither stopped nor dead.

### The service: `IqrService`

All handlers of an existing session begin alike: take the controller, look the
session up, take its lock, give the controller back. This admission is modelled
once (`Begin`, `NotFound`, `Find`, `Lock`), and `Work` then chooses what the
handler does: `AddExternal`, `Adjudicate`, `Classify`, `CannotClassify`, `Reset`,
`SetState`, or `Look` for the handlers and failures that change neither labels
nor maps. `POST /initialize` and `POST /refine` are `Look`: what they do to the
session is `IqrSession`'s. DELETE keeps the controller to the end (`Clear`,
`Remove`, `Leave`), creation looks for the uuid before it takes it (`Check`,
`BeginAdding`, `Add`, `AddFails`). The expiration thread's steps are those of
`IqrController`, with `session_expire_callback` under the session's lock in
`Expire`. A classifier is the pair of label sets it was trained on, and
`scored_by` the classifiers whose scores are cached for a session.

- `HandlerHasSession`: a handler at work holds the lock of the object its uuid
  names now, and finds the uuid in the three maps.
- `ServiceMapsAgree`: with the controller free, the service's maps have exactly
  the registered sessions.
- `ResultsOfClassifier`: cached scores are the present classifier's.
- `StaleOnlyAfterLoad`: a classifier not marked dirty was trained on the labels
  the session has, or these are still the labels a PUT /state has left.
- `RequestsEnd` (liveness): every admitted request is answered.
- Deadlock: the run checks that the threads never wait in a circle.

### The search app: `SearchApp`

Handlers run in threads without a lock. A handler's steps are its calls to the
service and its reads and changes of what handlers share: `_iqr_work_dirs`
(`work_dirs`), `_iqr_example_data` (`listed` and `example_data`), the work
directory (`made`, `directory`), the upload directory and `_completed_files`.
Each handler begins with `get_current_iqr_session` (`Current`), which asks the
service for its sessions, creates one that is missing, and empties the app's
examples when it did or when it does not know the session. Then come
`iqr_ingest_file` (`Ingest`), `set_iqr_state` and `reset_iqr_session`
(`Replace`), `get_iqr_state` (`Save`), and `look` for the handlers that pass a
request on. A call to the service may fail before or after its effect
(`ServiceFails`), the service may drop the session (`Expire`), the user may upload
a file again (`Upload`), and the app may end, in good order or not, and start
again (`Restart`). An example is its file; the service's session is its external
positives.

`set_iqr_session_state` takes any file that was uploaded. `Unzip` reads what this
session saved last, one of `Foreign` (a state the service itself gave out, which
has no data; one of another session), or nothing that is a state. After
`reset_session_local` (`RemoveTree`, `RemakeDir`, `ClearExamples`) the load may
still fail, before the first element or at any of them (`ClearExamples`, `Fill`),
and only a load that gets to the end calls the service (`PutState`), which may
refuse the state or take a part of it.

Two browser sessions share `_completed_files`, which is keyed by file id, that is
by size and name. They meet there only when both upload a file of one id, which
`FileUpload` models with two pages; `SearchApp` is of one session.

The causes after which the app and the service may disagree are five:

| Cause | When |
|---|---|
| `race` | a request that replaces or creates the examples overlaps another that uses them |
| `restart` | the app's memory is gone and the service's session is not |
| `abandoned` | a load fails between its reset and its call to the service (`iqr_search.py:329-365`) |
| `refused` | the service keeps positives that are not of the state a load has put |
| `short` | a state file lacks the data of a positive it names |

`excused` collects them. `since` does too, but starts afresh when a load removes
the old examples or a reset has been answered by the service (`Afresh`), so that
the properties below also say that such a request puts the two in step again,
whatever there was before.

- `PositivesShown`: at rest each external positive of the service is an example
  of the app, if there has been no cause since the examples were last replaced.
- `ExamplesOnDisk`: at rest each example has its file, unless there was a race
  since then: after restarts and loads that ended anywhere, too.
- `UploadsClaimable`: an upload nobody has taken can still be taken, whatever
  requests have failed, without a race or restart before.
- `SavedStateIsWhole` (action property): a state that is saved has the data of
  each external positive, even when examples are ingested while it is put
  together, if there has been no cause since the examples were last replaced.

### Uploads: `ChunkBounds`, `ChunkStore`, `FileUpload`

The three maps of `FileUploadMod` are shared by request threads, so each
statement that touches one is a step: `FindLock`, `Store` (takes the lock),
`Check`, `Write`, `Record`, `DropChunks`, `DropLock`, with the ways each fails
(a KeyError, an IOError). A lock is an object named by the request that made it,
and a request keeps the object it found even when the map has another by then;
this is what lets two requests of one file work at once. A chunk is the bytes it
carries, and reading it moves its position to the end, so that a file written
twice from the same chunks is empty the second time. `GetPath`, `ClearCompleted`
are the claim of a finished file by `iqr_ingest_file`; `Logout` makes the later
requests redirects that end in status 200.

On the page, what one JavaScript callback does is one step. `AddFiles` is
`addFiles` with its handlers and `upload`, for a set of files dropped at once
(`drops`) that the browser lists in any order; each chunk is tested for with a GET
(`Tested`), posted, and `Succeeds` or fails; a failure (`Fails`) aborts the other
chunks of the file and gives out their slots, one `uploadNextChunk` each. A
request may be lost, or served though its answer is (`Lost`, `CutOff`), and a
page left or loaded again while its requests are still served (`Leave`).

The identifiers of files in one list are not compared with each other, so a page
may have two files of one identifier and one progress indicator. The first to be
done takes the indicator, and the other's handler throws from then on: `Succeeds`
then ends before the slot is given out. `OwnIds` says that a page has no such
files.

- `SlotsInUse`: never more chunks under way than slots, and with `OwnIds` never a
  free slot while a chunk waits.
- `Settles`: an outcome is announced once and stands, whatever answers come late.
- `SuccessIsWhole`: when an upload is announced, the file can be fetched by its
  identifier and is whole, byte after byte, and the claim of it succeeds; as long
  as the login lasts and nobody else uploads a file of the same name and size.
- `FullMapIsTaken`: a complete chunk map is being written or dropped by somebody,
  even when requests work under two locks.
- `UploadsEnd` (liveness): each file of a page still open is reported, given
  `OwnIds`.

### The page: `RefineView`, `IqrView`

A click is a step, and so is a callback. Requests under way and answers not yet
heard are two bags: the server takes the requests, and the browser hears the
answers, in any order. What the app and the service make of one request is one
step (`ServerStep`), which may fail before (`Refuse`) or after its effect. The
session is what the page shows of it: whether it has a working set (`wi`), its
ranking and its examples. `pane` holds the fields of the refine view with the
enabled and shown state of its buttons, `random` those of the random pane. The
toggle button is one of the buttons of the top container while the random pane
is off, and a refresh in that time enables or disables it with the others
(`SetTop`).

- `PaneShowsModel`: at rest the pane lists the session's results, shows the first
  of them and shows the button for more exactly when there are more (whether it
  is enabled is another matter), unless two refreshes overlapped or the page
  could not hear of a change.
- `ExamplesShown`: at rest the examples shown are the session's, likewise.
- `RandomInOrder`: the random pane shows its ids in order, each once, and offers
  more while there are more. The converse is not stated, since it fails:
  `restore()` shows the button again (402-405) after 387-390 hid it.
- `RefineEnds` (liveness): the progress bar of a refine goes.
- `LoadIsFollowedUp` (liveness): the four requests that load a state follow each
  other to the initialization, unless one fails.

### Element views: `DataView`

`Make` is the constructor, which asks for the label and the picture,
`SetPositive` and `SetNegative` are the clicks, which change the view at once and
post the change without waiting. `Serve` and `Callback` answer in any order. One
element may have several views, which do not hear of each other.

- `ViewShowsLabel`: at rest a view shows the label the session has, unless it was
  clicked while another request about its element was under way, another view of
  the element was clicked since, or a request failed.
- `LoadingEnds` (liveness): the loading picture is replaced.

## Runs

| Run | Instance and bounds | Distinct states | Shows |
|---|---|---|---|
| `session` | two descriptors, one of them also external; an index that may miss `b`; one saved state that loads and one whose vector does not match; at most one descriptor per labelling call (`MaxBatch`), feedback of at most one (`MaxFeedback`), two automatic negatives per positive | 488,922 | the five properties, no deadlock |
| `controller` | two uuids, objects, callers and expiration threads; timeouts 0 and 1; clock up to `MaxTime` = 3 | 38,308 | the invariants, `ExpiresOnlyIdle`, `FirstExpiration` |
| `service` | one uuid that two objects have in turn, two request threads, one expiration thread, clock up to 2, an indexed and an external descriptor, a saved state that loads and one that stops half-way | 537,891 | the invariants, `RequestsEnd`, no deadlock |
| `search_app` | two handlers, two examples, a state file, two foreign states, eight visits | 680,456 | the four invariants, `SavedStateIsWhole` |
| `upload` | two pages with one file, or one page with two files, dropped at once or one after the other, and a logout; sizes 5 and 4, chunks of 2, two slots | 411,630 | the invariants, `Settles`, `UploadsEnd` |
| `iqr_view` | four uuids shown two at a time, two examples, nine visits | 487,535 | the invariants, `RefineEnds`, `LoadIsFollowedUp` |
| `data_view` | one element; one view with three clicks and a failure, or two views with two clicks | 425,909 | `ViewShowsLabel`, `LoadingEnds` |
| `doc_*` | as above | | one disagreement each, see Findings |

A *visit* (`Visits`) says how often each event may happen at most: clicks,
uploads, expirations, restarts, failures. It bounds the counts only; what happens
in which order, and between which two steps, is open.

Why the bounds are enough. In a session two descriptors give every relation of a
descriptor to the label sets (on both sides, external and adjudicated, in the
pool or not), rankings whose order matters, partial queries and partial loads;
repeated labelling calls of one descriptor reach all the labels a larger batch
does, and `AutonegSelectRatio = 2` reaches every way `refine` fails. For the
registry two of everything give every pairwise race, timeout 0 is "no timeout",
and with timeout 1 three ticks let a session become overdue, be used, and become
overdue again. The service's sessions share nothing but the registry, so one uuid
with two objects is where handlers, DELETE, re-creation and expiration meet. In
the search app every race is one of two handlers, and the visits pair each kind
of request with each other and with an expiration, a restart, a failure or another
upload; each of the five causes is reached, and so is a quiet state after it with
`since` empty and positives at the service. The two foreign states are one without
data and one with other data than its positives need. In
`upload` the two visits are the two ways requests of one file meet or files share
slots; the sizes make a last chunk that is longer than the others and one that is
not; with two slots a failure frees one slot for the next file. On the page two
requests of a kind are what an overlap needs; three results shown by two reach
both states of the button for more; the visits pair those buttons whose requests
change the same view. `data_view` has the two ways a view can go wrong, by its
own clicks and by another's. The clock's bound is the guard of `Tick`, the visits'
bounds are the guard `Takes`, and nothing else is capped. The proofs below remove
the bounds.

`search_app` is symmetric in the handlers and has no liveness property, so it
uses symmetry. Deadlock is checked in `session` and `service`. The page, the app
and the upload really stop when a visit is over; `controller` turns deadlock off
because stopping the thread really can block for good (`doc_stop`). The service's
handlers never stop the thread, so its model leaves that out.

## Fairness

- `IqrController`: time passes, a `with` block ends, a thread that can go on does
  (weak fairness), and the expiration thread, waiting for a lock that becomes
  free again and again, gets it once (strong fairness on `BeginScan`).
- `IqrService`: an admitted request goes on and the expiration thread does (weak
  fairness), and a creation waiting for a controller that becomes free again and
  again gets it (strong fairness).
- `FileUpload`: the browsers go on with some test or answer, and the server with
  some thread (weak fairness of each as a whole). Nothing forces a file to be
  uploaded, an answer to be cut off, or a page to be left.
- `IqrView`, `DataView`: the server answers some request, the browser runs some
  callback (weak fairness of each as a whole).

Handlers run to their end in their own threads, the interpreter switches threads,
and a browser's event loop takes up what has arrived or timed out, which is the
weak part. `threading.RLock` is not a fair lock; the strong part assumes that a
waiting thread is not passed over for ever by others, which the short time the
locks are held makes true in practice. Nothing is assumed of users and callers. A
thread that waits to *enter* the controller at the start of a handler counts as
not yet admitted. `SearchApp` has safety properties only.

## What is proved

TLAPS checks every step, for all values of the constants that satisfy the named
assumptions of the modules (finite `Descriptor`, index answers within `Indexed`,
saved states within the label types and apart, finitely many files, `None`
distinct from the rest, visits that count events, views that are of elements,
foreign state files that are pairs of positives and data). The visits are arbitrary:
the theorems about the page and the app are for any number of events.

`IqrSessionProofs`: `TypeCorrect`, `LabelsStayApart`, `PoolIsFromSeeds`,
`ResultsBelongTogether`, `CachesAreCoherent`, `SessionImplementsViews`.

- `TypeOK` is inductive, and `LabelsApart`, `PoolFromSeeds` and `OneRefinement`
  are with it; the case that matters for the first is a load that stops half-way
  (`PartialLoad`), and the last needs that a ranking of the pool names all of it
  (`OrderIsComplete`, from the library's facts on injections).
- `CachesAreCoherent` follows from `OneRefinement` and `TypeOK`: each view is
  fresh when it is cached (`FilteredViewIsFresh`), and every step that changes a
  refinement drops the caches.
- `SessionImplementsViews`: initial states map to initial states, and each step
  to a step or a stutter of `RefinedViews`, with the four invariants as context.

`IqrControllerProofs`: `TypeCorrect`, `MapsAlwaysAgree`, `OneMonitorOnly`,
`OnlyIdleExpire`, for any number of sessions, callers and threads. Neither
`MapsAgree` nor `OneMonitor` is inductive as it stands. The invariant is

    IInv == TypeOK /\ LockOwner /\ Joining /\ MapsAgree /\ OneMonitor

- `LockOwner`: the holder of the lock is exactly where the lock is held, in a
  `with` block, a join or a walk. Without it a caller could change the maps under
  a thread's walk, whose remaining keys `MapsAgree` speaks of.
- `Joining`: who waits in a join has set the event and still names the thread.
  Together with `OneMonitor` it makes the thread joined the only one there is, so
  that the one started after the join is alone.

`OnlyIdleExpire` follows: with the lock held by a thread, only its `Expire`
removes a session, and what was overdue at the thread's reading of the clock is
overdue now, as the clock has not gone back and no access time lies in the future.

`IqrServiceProofs`: `TypeCorrect`, `HandlersHaveSessions`, `MapsAlwaysAgree`,
`ScoresAreCurrent`, `StaleOnlyAfterALoad` and `ServiceUsesRegistry`, for any
number of threads, sessions, objects and descriptors. The invariant is

    IInv == /\ C!TypeOK /\ OwnTypes /\ RequestTypes /\ LockOwner /\ RequestsOK
            /\ MapsFollow /\ OneUuidEach /\ HandlerHasSession
            /\ ResultsOfClassifier /\ StaleOnlyAfterLoad

- `LockOwner` and `RequestsOK` say who holds the controller at which stage, and
  what such a thread knows of the registry (while it holds the controller, the
  session it found is still the one registered). `MapsFollow`: the three maps have
  one domain, and it is the registry's, but for the uuid that a DELETE has cleared
  and not yet removed.
- `OneUuidEach`: no object is registered under two uuids, so that a handler's work
  on one object leaves what `StaleOnlyAfterLoad` says of other uuids alone.
- `ServiceUsesRegistry` is a refinement, `Spec => C!Spec`: each step of a handler
  is a step of `IqrController` or leaves the registry alone, so that what is
  proved of the registry's safety holds within the service.

`SearchAppProofs`: `TypeCorrect`, `PositivesAreShown`, `ExamplesAreOnDisk`,
`UploadsStayClaimable`, `SavedStatesAreWhole`, for any number of handlers,
examples and state files. The parts of `IInv` are
`Typed` (besides `TypeOK`, each request is only at the stages of its kind, and a
package is unpacked into an entry that is there), `Ready` (a session that is known
has its entry and its directory, or the handler that makes them is at work),
`Disk` (without a race each example has its file, but while a handler empties
first the directory and then the list), `Claims` (without a race or a restart each
upload is completed, or the handler that has claimed it is about to take it), and
`Positives` (with `since` empty the external positives are examples, but while a
load fills the examples in again, and what each handler has read and will pass on
is still what it needs: `Carries`). That a request which replaces the examples
re-establishes `Positives` from nothing is the lemma `AfreshPositives`: it is the
only one to use them, as nobody races, so no other handler carries anything.
`SavedStatesAreWhole` is an action property: only `Collect` makes a state file
(`PackageSteps`), and what it carries is among the examples it reads.

`IqrViewProofs`: `TypeCorrect`, `ResultsAreShown`, `ExamplesAreShown`,
`RandomIsInOrder`, for any number of requests under way and any visit. At rest is
too late to say anything by induction; the invariant says what will bring the
view up to date:

    IInv == Typed /\ RankingNeedsWorkingSet /\ ExamplesFollow /\ PaneFollows

- `PaneFollows`: unless spoilt, at most one request or answer of `info` and
  `results` is under way (`Alone`, with multiplicity one), and either an answer is
  still to be heard whose callback will refresh the pane, or the pane is empty and
  the request or answer under way will fill it with the session's ranking, or
  nothing is under way and the pane shows the ranking. `ExamplesFollow` is the
  same for the examples, `RandomFollows` for the random ids.
- `RankingNeedsWorkingSet`: a session without a working set has no results, so
  that an empty pane is right when the information says so.
- `ServerFacts`, `UserFacts` and `CallbackFacts` say once what each kind of step
  is to the requests, the answers and the views; the invariants use nothing else
  of the actions.

`DataViewProofs`: `TypeCorrect`, `ViewsShowLabels`, for any number of views and
elements. `Typed` includes that requests and answers are bags and that no answer
says positive and negative. `Following` says that a view that is not spoilt shows
the session's label when nothing about its element is under way, and otherwise
that there is exactly one such request or answer and which label it leads to.

`FileUploadProofs`: `UploadTypes`, `SlotsStayInUse`, `FullMapsAreTaken`,
`SuccessesAreWhole` and the action property `OutcomesStay`, for any number of
pages, files, chunks and slots, any chunk size and any file size. The invariant is

    IInv == /\ Types /\ LockHeld /\ Listed /\ InStep /\ Reported /\ HasIndicator
            /\ SlotsInUse /\ FullMapIsTaken /\ GoesWell

- `Listed`, `InStep` and `Reported` join what a page has of a file (its list, the
  status of each chunk, the outcome) to where the requests are on the server. With
  them an answer that is heard is one to a file not yet reported, which is
  `OutcomesStay`, and a file reported as uploaded has had each chunk answered
  with 200. `HasIndicator` is the case in which the handler does not throw.
- `SlotsStayInUse` counts. `uploadNextChunk` takes the chunks in order, one call
  after the other; `StartNext` says so by rank, a chunk being started when fewer
  than `count` are ahead of it. `FirstOnes` shows that these are `count` chunks or
  all: the rank of an element is a bijection from the set onto the numbers below
  its size, by comparing sizes, without induction. `Counts` applies it to the
  backlog, and each step is then a sum: what `abort` frees is what the nested calls
  give out.
- `FullMapsAreTaken`: a map grows only in `Store`, whose request is at `Check`
  next, and `Check` lets a request go only if the map is not full. No lock is
  needed, which is why it holds under two.
- `SuccessesAreWhole` needs the lock, and that nobody else posts to the
  identifier: `GoesWell` says, of such an upload, that its requests all use the
  lock object the map names (`UnderOneLock`, with `LockHeld` mutual exclusion),
  that the map holds exactly the chunks stored until the file is written
  (`MapHasThem`), that this comes when all are stored (`AllStored`), that what is
  saved is whole (`WholeIsSaved`), and that from then on the file is there or has
  been claimed (`KeptWhenDone`). The deletion of the lock, wrong in general
  (finding 4), does no harm then: no request of the file waits any more.
- `Boundaries` and `WholeFile` are the arithmetic of flow.js: the chunks begin at
  byte 0, each where the one before ends, and the last ends with the file, also
  when it is longer than the others or the file is empty.

Only model-checked: the liveness properties, as fairness and ENABLED are beyond
the prover. Facts by induction over data and RECURSIVE operators are beyond it as
well; no module here needs them.

## Findings

Each is a `doc_*` run whose counterexample is an execution of the code.

1. `doc_overdue`: the expiration thread dies after its first expiration, so no
   other session ever expires (`iqr_controller.py:103-115`).
2. `doc_stop`: `stop_expiration_monitor` joins the thread with the lock held; if
   the thread has just woken, both wait for ever (`iqr_controller.py:144-148`).
3. `doc_stale_classifier`: PUT /state leaves the classifier and cached scores of
   the labels it replaced in use (`iqr_server.py:2027-2030`). What does hold is
   `StaleOnlyAfterLoad`.
4. `doc_upload_lock`: the lock of a file is deleted while requests wait for it,
   so two requests of the file work at once under two locks
   (`FileUploadMod.py:126`, against its comment at 58). What does hold is
   `FullMapIsTaken` and `SuccessIsWhole`.
5. `doc_refine_graceful`: a refine that the service refuses leaves the Refine and
   random buttons disabled (`smqtk.iqr_refine_view.js:286`, against
   `iqr_search.py:601`).

Five more are stated at the end of `IqrSession`, `IqrService` and `FileUpload` and
have no run of their own. The first three are invariants that `MCIqrSession.cfg`
refutes, the fourth is a PROPERTY for `MCIqrService.cfg`, and the last an
invariant for `MCFileUpload.cfg` with `FidOf <- Namesakes` and
`Visits <- NamesakesVisits`.

- `EmptyWorkingSetIsRuntimeError`: refining an empty working set is a ValueError,
  and the service's 400 is never given (`iqr_session.py:331`).
- `PositiveViewIsAdjudicated`: the positive view includes external examples
  (`iqr_session.py:451` against 469-470).
- `AtMostOneLabel`: a uuid adjudicated on one side and given as an external
  example on the other is positive and negative at once, which GET /adjudicate
  answers with 500 (`iqr_server.py:1048-1050`).
- `CreationConflictIs409`: of two creations of one uuid the later is 500, not 409
  (`iqr_server.py:818-831`).
- `EachFileHasIndicator`: identifiers leave out all but letters, digits, `-` and
  `_` (`flow.js:268`), so that `a b.png` and `ab.png` of one size, dropped
  together, share an indicator (`smqtk_upload.js:136`). The first to be done
  deletes it (160), the other's handler throws (146): its slot stays free and its
  upload is never reported.

Read in the code and not stated: adjudicated descriptors need not be in the
working set (`iqr_session.py:115` against 243-264); a saved state does not
reproduce a working set that was grown by a positive withdrawn since
(`iqr_session.py:574-575`); GET /get_feedback reads `i` and `j` and never slices
(`iqr_server.py:1445-1452`); `restore` of the random pane shows Show More again
when all ids are displayed (`smqtk.iqr_refine_view.js:402` after 387-390).

## Not modelled

- The service's descriptor set, neighbour index and random uid list: the set and
  the index are plugins with locking of their own outside this repository. The
  cached uid list is replaced only by its own refresh, so its pages are of an
  older set after descriptors are added (`iqr_server.py:1730`).
- The classifier service: a dictionary and a set without a lock, which no other
  part touches. Two of its requests can meet in one place: POST adds the
  classifier and then makes its label immutable (`classifier_server.py:732`), and
  a DELETE between the two leaves an immutable label of a classifier that is gone.
- The dispatcher and the login, of which only the redirect matters to another
  part (`Redirect` in `ChunkStore`); stored web sessions, which each response
  writes back whole (what two writes do is MongoDB's); the preview cache, which a
  view hears of only as a picture or a failure; descriptor computation and the
  command-line tools, sequential code over plugins and files.
- On the page: alerts, page variables, column layout, the bars other than those
  of the two panes, and the negative zone, which nothing fills.
- Vendored JavaScript and style sheets: jQuery, jQuery UI, Bootstrap, bootbox,
  FileSaver. They are some 30,000 of the 33,000 lines of JavaScript in the
  repository, third-party code with tests of their own, called for display and
  transport only. flow.js is third-party as well, but it is the sender of the
  upload's protocol, so `FileUpload` models it from its source.
- A few single-threaded questions of the session that no property is about:
  adjudication outside the working set (`iqr_session.py:243`), and a ranker that
  breaks its contract between the assignments of results and feedback
  (`iqr_session.py:379`).
