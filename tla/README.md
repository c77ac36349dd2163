# TLA+ models of Sreshtha

Sreshtha helps Indian gig workers: it reads their contracts, explains their
rights, finds schemes for them, and answers complaints about orders in a chat.
The program is one FastAPI process over PostgreSQL (`app/`), with a React front
end that polls it. This directory holds TLA+ modules of its core, the TLC
configurations that check them on small instances, and TLAPS proofs of what
holds for every instance. Every definition is translated from the source; line
numbers are in `PROJECT.json`.

## The system

| part | state | operations | what is hard | what makes it correct |
| --- | --- | --- | --- | --- |
| Contract Reader (`contracts/{routes,service,storage,processor,ocr}.py`) | a row of `uploaded_contracts` and a file per contract; the ORM copies that requests and jobs hold | upload, POST `/process`, background job, delete | overlapping requests and jobs on one row, stale copies, a store outside the transaction, crashes | one job at a time; a ready row shows one run; nothing stays "being read"; files match rows; no reading without consent; no page lost that could be read |
| Stages 1 to 3 (`stage1.py`, `stage2.py`, `stage3.py`, `stage3_validator.py`) | pools of chunks within one call | extract, annotate, synthesise, check | one of several provider calls fails or answers badly; chunks end in any order | a ready contract is complete, in order and checked, and another state's law that the guard knows stays out |
| Translation (`contracts/translate.py`) | none between calls | pack rows into chunks, call Mayura, decode, fall back | markers moved or lost in the answer, retries | failures stay local; what is still English is named; no text under another clause but what a lost marker lets in |
| Idiom library (`translate/idioms.py`, `idioms/admin_routes.py`) | a process-wide cache of two tables | scan, reset, admin writes | double-checked locking, invalidation before the commit | the cache is what a load would build; writes keep each other's columns |
| Retrieval and ingestion (`retrieval/`, `scripts/ingest_statute_corpus.py`) | the table of statute chunks, pooled connections | cut, embed, replace rows; look a clause up | a script that dies or runs twice under running lookups; connections held over calls | a statute is the last ingested one, whole; what is near enough is found then; connections come back |
| Chat pipeline, sessions, runners (`l1_cardinal/`, `sessions/`, `runners/`, `repository.py`) | sessions, turns, executions, an in-process replay cache, simulator sessions | message, chip tap, rename, delete, a runner's game | replayed answers, overlapping turns, a failure between two commits, a remote service that fails | what was answered is stored; a refund goes out once; what was deleted is gone; everything ends |
| Chat agents and policies (`l2_agents/`, `policies/`) | none | classify, propose, validate, respond; retries | fifteen rules that rewrite one list in turn, under what earlier turns did | refusals, caps, flags and reviews survive every later rule |
| Accounts and modules (`auth/`, `modules/`, `scripts/bootstrap_tenant.py`) | users, grants, modules, tenants | sign up, grant, revoke, promote, deactivate, register | check-then-set over overlapping requests | somebody can always administer; access falls only by revocation |
| Conversation studio (`conversation_studio/`) | business units, issue types, data points, templates | admin writes, tap a chip | cascades, lists saved together, order of fetchers | a unit takes no issue types of its own along; one list; nothing is said that was not found |
| Schemes and rights (`schemes/`, `rights/`, two translation scripts) | entries and their translations | list, match, open, translate | language fallback while a script commits entry by entry | what is listed opens, in its language; a script that ended is complete |
| Start-up (`main.py`, `migrations/bootstrap.py`, `alembic/env.py`) | starter tables, schema version | create, seed, stamp, upgrade | a start that dies half-way, or meets another | the next start repairs it |

The parts interact through the database and by calls. A POST `/process` commits a
status and queues a background task; the task calls OCR, Stages 1 to 3 and the
translation, and commits after each; the front end polls the row every two
seconds until it is ready or failed. Stage 2 looks its clauses up in the statute
corpus; translation asks the idiom library for placeholders, which the admin
routes invalidate. A chat turn reads the session's earlier turns back from the
database, calls the classifier, Stage 1, the rules and Stage 3, and the runner
posts the resulting actions to a simulator over HTTP; a chip tap writes into the
same session. Cloud Run runs one instance with two concurrent requests
(`cloudbuild.yaml`), so requests do overlap.

`PROJECT.json` lists every part with its status, and the hazards of the code at
their lines with the properties that cover them.

## Modules

**ContractReader**: clients, background jobs and a host that may stop the
process. A step ends where the code hands control to the database or to the
file store: `Upload*` (insert, save, commit at teardown), `Process*` (load and
guards, commit of the reservation, queueing after the response), `Job*` (one
action per commit of `processor.py`, the stage outcomes chosen freely),
`JobRaises`/`Handler*` (the top-level handler, which may raise in turn),
`Delete*` (file first, row in a later commit) and `Crash`. `loc` and `seen` are
the ORM copies of jobs and requests: a flush writes the columns changed since
the copy was loaded, and a commit does not refresh it
(`expire_on_commit=False`). An output is tagged with the job that wrote it, so
that mixed runs can be told apart. A fault is a database or storage call that
raises, at any step of a request or job: also between the commit of a reservation
and the hand-over of its task, where the reply reads an expired column
(`routes.py:122-124`). `contested` is a history variable: the contracts that two POST
`/process` found startable before either had reserved them.

**ContractStatus**: the documented status machine of a contract and its error
message, with liveness, and the two states the code adds to it: *stuck* (shown as
being read, and nobody reads it) and *contested* (two requests to read it were both
let through). `ContractReader!Promise` maps the rows to it.

**Analysis**: one reading of a contract. Stages 2 and 3 share a pool whose chunks
start in order and end in any order; a chunk may raise. A text is abstracted to
what the validator asks of it (is there one, does it advise an action, is it
free of forbidden phrases, does it hold a rule's anchor) and a citation to the
states whose law it names in the very words of the guard's map (`Marked`, in the
map's order): the code recognises no other wording, so a law in other words, or of a
state that is not in the map, is to the model no law at all, and the properties say
nothing of it; of several the code looks at the first.

**Translation**: the packer, the calls with their retries, a request and an
answer as sequences of marker and text tokens, the decoder, the three fallbacks,
the overview, and what the processor stores. A row carries the length it is packed
by (`size`) and the length it is sent with once idioms are replaced
(`sends`); two rows may be of one clause. `Damages` says what Mayura may do to the
markers, losing them included.

**IdiomLibrary**: scanners in the double-checked load and admins in the five
write endpoints, row locks included; tables change when the request's session
commits, after `reset_cache`.

**RefundPolicy** and **Chat**: RefundPolicy has one operator per rule of
`validate()`, in the source's order, over the refund matrix and the caps; a list
of actions is a set, since no rule looks at positions. Chat is a session: the
replay cache, a stage that raises, and the bot's turn, whose actions later turns
get back. Classifier and Stage 1 may answer anything in the given sets; `reply`
keeps what Stage 1 proposed, for the properties. A customer is known by the order
found or by a chip's tap (`Tap`, `client`), which names an order, a customer or
both, not always each other's. A message
that phase 1 refuses (empty or too long) changes nothing and is left out. The
float products of the matrix are exact fractions here, rounded half to even.

**SessionTurns**: the stored side of the same session. Requests (messages and
taps) and the runner are sequences of steps that end in a commit; they read the
row and the transcript, hold a row lock while the route's title is not yet
committed, and may fail between any two steps. A reply is the set of its
actions; what the rules decide is reduced to the one thing Chat shows of them,
that they give no money an earlier turn gave, as far as the request read it
(`MayDecide`, from `FreshNeverRepeats`).

**AccessControl**: requests that each read committed rows in one or more steps,
keep copies, and write what differs from the copies in one commit. Signup,
PATCH of an account with its guards, grants, revocations, registration of
modules, and the operator's script.

**Studio**: the tables of the studio with their foreign keys, unique keys and
cascades; each admin write as a read and a commit, and a tap that fetches the
data points in their order and fills one of the templates. A list of data points
gives each the `sort_order` the client sent, ties included.

**Corpus**: the chunker as an operator over paragraph lengths; the ingestion
script (delete and commit, embed all, insert slab by slab) and the batches of
Stage 2, which keep a pooled connection from their first lookup to the last. What
embeddings decide is an input: a clause is the set of chunks that reach the
similarity threshold for it (`Text`), or blank and then not looked up. Rows are
statutes' chunks, active or not, and those of tenants and other kinds. The index
(HNSW, migration 013) is taken to find what is nearest.

**Guides**: what the queries of schemes and cards compute, as operators over the
tables, and the interleaving of a request's one or two statements with the
commits of the translation script. Going back from an entry is the link of the
front end's detail page.

**Providers**: a call of a model or of the embeddings endpoint with its retries, used
by Corpus for both kinds of calls and on its own for Cardinal's.

**Startup**: starts that die, fail, follow one another or overlap, each a sequence
of transactions over starter tables, `alembic_version` and the schema.

**Ocr**: which pages of an upload reach Stage 1, as an operator of its pages.

**Content** puts Corpus, Guides, Startup, Ocr and Providers into one run. They share no
state but the database server, so a behaviour takes one of them (`scene`)
while the others stand still.

The `MC*` modules only give constants their values; `*_proofs` hold the proofs
of their modules; `Content_proofs` also those of `Studio`, with whose part the
corpus shares lemmas about sequences and folds.

## Runs

| run | instance | shows |
| --- | --- | --- |
| `reader` | two overlapping requests, two jobs, one fault, one crash | one job per contract, and a ready row is one run's, unless two POST `/process` raced; no reading without consent; files match rows; only a stop of the worker and a failing reply leave a contract that nobody reads; a deleted contract stays deleted and takes its file along; and the reader implements `ContractStatus` with its liveness: what is being read ends ready, failed, deleted, raced for or stuck, and failed rows alone show an error, also while a retry is under way |
| `reader_crash` | one request, one crash | **violated**: a stopped worker leaves a row nobody resumes |
| `analysis` | one and three clauses, chunks of one and two, two workers | a ready contract is complete, in order and checked; another state's law stays out if the first law named in the guard's words is of a state the contract does not name; failed batches are never shown; the reading ends |
| `analysis_garbage` | the same | **violated**: an answer that does not parse is stored as a blank text |
| `translation` | one to three rows in one to three chunks, clauses rendered twice, markers lost | a chunk's request exceeds the cap by no more than its idioms have grown, no clause is forgotten, none shows more of another's text than a lost marker lets in, labels are honest, few failures cost few rows, and it ends |
| `idiom_cache` | two scanners, two admins, two idioms, one fault | loads and resets exclude each other, duplicates do not shadow, writes keep other columns, no deadlock |
| `chat` | two turns, nine intents, four messages, five proposals, five orders, one of them of nothing, chips that name an order or a customer | refusals, injection, abuse, soft cap, order total, pivot and repetition survive rule order and earlier turns, each with the cases it excepts spelled out |
| `session_turns` | three requests, two of them together, a rename, a delete, one restart; or a runner's game | what a customer was told is stored with its actions; money is given twice only by replay or overlap; numbers have no gaps and one order; the simulator knows what the transcript knows; a deleted session does not come back; everything ends |
| `access` | two accounts, one module, three requests, two of them together, three databases | somebody can always administer, access falls only by revocation, one first super-admin, one account per address; each with the overlap it excepts spelled out |
| `studio` | two units, two issue types of one code, three data points, three requests, two together | keys hold, a saved list is one administrator's, issue types go only when asked for, from below a deleted unit or with a late arrival's unit, and acknowledgments say what was found |
| `studio_cascade` | the same | **violated**: deleting a unit silently deletes the issue types of the units below it |
| `content` | see below | the corpus, the guides, the start-up, the extraction and Cardinal's calls: their invariants (`Inv`), that every batch, list and call ends (`AllAnswered`), and that a clause with a chunk above the threshold in an ingested statute finds one, and the model is shown what was found (`GroundedOnceIngested`) |

Where several invariants of a module were worth stating separately, its `Inv` is their
conjunction: in Translation `TypeOK`, `RequestFits`, `NothingForgotten`, `HonestLabels`;
in Analysis `TypeOK`, `ReadyInOrder`, `FailedBatchNeverReady`; in Chat `TypeOK`,
`SoftCapReviewed`, `WithinOrder`; in SessionTurns `TypeOK`, `EarlierIsSeen`, `NoGaps`,
`OneOrder`, `OwnNumber`, `CustomerOfOrder`, `SimulatorKnows`; in AccessControl `TypeOK`,
`OneFirst`, `OneAccount`; in Studio (`StudioInv`) `StudioTypeOK`, `OneList`,
`SaysWhatItKnows`; in Content the invariants of its parts: a statute's rows are those of
the run that wiped it last, complete once that is done, and inactive ones go with the
rest (`AsLastIngested`), rows of tenants and of other kinds are untouched, they and
inactive ones unseen (`ForeignStaysOut`), connections come back (`ConnectionsReturned`),
the chunker drops only what is short (`OnlyShortIsLeftOut`), what is listed opens in its
language (`ListedIsServed`), a script that ended is complete (`CompleteWhenDone`), a
start repairs what earlier ones left (`StartsRepair`, `OnlyStampSpoils`), and naming a
language costs no page (`HintCostsNothing`).

The violated properties state what a comment, a test or a document of the
repository says; `findings` in `PROJECT.json` quotes each beside the code. The
counterexamples are a few steps long. Where a passing property leaves out a case
that the code does get wrong (contested contracts, the failing reply, a lost marker,
the growth of idioms, a law in other words, the two gaps of the soft cap, an abuser
whose session was handed over), its comment names the case, and *Known edges*
below describes it.

**Why these bounds are enough.** Two requests and two jobs show every pairwise race;
one contract suffices because no action of the reader but the stop of the worker
touches two. One fault
distinguishes a handler that works from one that does not, and a retry after
it is the second job. Three clauses in chunks of one and two give several
chunks, an incomplete last one, and more chunks than workers. The sizes 250,
500 and 900 against a cap of 800 put one, two or three rows in a chunk, and one
row in none; one row has no text at all, one grows by ten characters when idioms
are replaced, and a clause is rendered twice, in one chunk and in two. The two
states of the guard's map are cited together, the second alone, or neither in the
map's words. `Attempts` is the code's own in Translation. Two idioms are the least
that can share a phrase. In Chat, what passes from turn to turn is the stored
order number, the actions so far and the cache, so two turns reach every pair of
an earlier action and a later rule; the rules also ask whether two turns are over,
which the theorems cover for every number of turns. The order of 40 rupees meets the
floor of 50, the ones of 2000 the soft cap, and the abuser's 1200 makes the
matrix exceed the token. For the abuser's order of nothing the token is 300
(`total_inr or 300`), which `WithinOrder` excepts. One proposal has a refund of -1000
without an order number beside one of 2000, which `SoftCapReviewed` excepts.

In `session_turns`, `access` and `studio` two requests overlap (`Together`) and a third
comes after both, which is what it takes to see what a race left behind.
The two orders of two customers tell an order's customer from another; a number
too large for its column stands for statements that fail; one code for both
issue types makes every move a possible clash of keys; lists put two data points in
either order or at one place. `access` starts from no
account, one super-admin, and two.

In `content` the corpus has two statutes of one chunk each, two runs of the script
with any files and `--reset` or without, and two batches of two clauses with a
single connection between them, the least at which one waits for the other. One
clause is near to both statutes, two to one of them, and one is blank; a tenant's
row and an inactive one stand beside the statutes' own. Two
attempts per call (four in the code) separate the first, a middle and the last
outcome. The chunker is tried on all sections of up to four paragraphs of
lengths 1, 2, 4 and 7, with a limit of six, a minimum of three and two joining
characters, so that paragraphs are short, long, fitting, and too long together
for the joining characters alone. The guides have two
schemes, one of which asks for a state and a card, three languages of which one
is translated into, and a reader who lists, matches and opens while the script
runs, dies once and runs again. Three starts over an empty, an unversioned and
an older database let two overlap and a third find what they left; two tables
with a reference between them stand for the nine, and two revisions for the
sixteen, which are applied in one transaction. Uploads have up to three pages
against a limit of two, and lengths around a threshold of four.

`MaxFaults`, `MaxCrashes`, `MaxWrites`, `MaxTurns`, `MaxRequests`, `Together`,
`MaxStops` and `MaxBoots` are the only bounds of the models that the code lacks.

**Deadlock** is checked for the idiom library, where two kinds of locks meet.
The other systems stop when their requests, inputs or turns are used up; that the
pool's batches and the sessions' row locks block nobody for ever is part of
`AllAnswered` and `AllEnds`.

**Fairness.** `ContractReader!Fairness` says that the event loop goes on as long as a
request is in flight, and the thread pool as long as a job is unfinished: some request
and some job take their next steps, and every provider call has a timeout. That is less
than the code gives, which starves no single one. Users owe no request. `Analysis` and
`Translation` are single calls under way, with weak fairness of the whole: a pool thread
runs what it was given, and calls end or raise. `SessionTurns` runs every request it
has, and the runner. `Content` asks weak fairness of the pool's batches, of the second
statement of a list and of Cardinal's calls, and nothing of the operator's scripts: they
may stop for good anywhere. Nothing is assumed of the answers.

## Proofs

TLAPS proves these theorems for every value of the constants:

| module | theorems |
| --- | --- |
| `ContractReader_proofs` | `TypeCorrect`; `UnconsentedUntouchedHolds`, `FilesMatchRowsHolds`, `OnlyTheReplyStrandsHolds`, `DeletedForGoodHolds`, `DeleteTakesFileHolds`, `SingleRunnerHolds`, `ReadyIsOneRunHolds`, `ErrorIffFailedHolds`, `ImplementsStatusMachine`, for any overlap of requests, faults and crashes |
| `IdiomLibrary_proofs` | `TypeCorrect`, `FreshUnlessOverlappedHolds`, `DuplicateNeverShadowsHolds`, `CommitsOwnColumnsHolds` |
| `Translation_proofs` | `InvHolds`, `FailuresStayLocalHolds`, `OwnTextOnlyHolds`, whatever `Damages` |
| `Analysis_proofs` | `InvHolds`, `RedClausesActHolds`, `ForeignLawStaysOutHolds`, `InOrder` |
| `AccessControl_proofs` | `InvHolds`, `AdminsInChargeHolds`, `OnlyRevocationLowersHolds` |
| `SessionTurns_proofs` | `InvHolds`, `AnsweredIsStoredHolds`, `RefundTwiceOnlyTogetherHolds`, `DeletedIsGoneHolds` |
| `Chat_proofs` | `RefusalsAlwaysHold`, `InjectionAlwaysContained`, `AbuserAlwaysHeld`, `FreshNeverRepeatsHolds`, `PivotAlwaysHeld`, `TypeOKHolds`, `WithinOrderHolds`, `SoftCapReviewedHolds`, `InvHolds` |
| `Content_proofs` | of all of Content: `ContentInvHolds`, `GroundedOnceIngestedHolds`; of the guides: `ListAndDetailAgree`, `AnsweringOnlyAdds`, `AgeOnlyTakesAway`, `ListedIsServedAlways`, `CompleteWhenDoneAlways`; of the chunker: `OnlyShortIsLeftOutHolds`; of the extraction: `HintCostsNothingHolds`; of the studio: `StudioInvHolds`, `OwnTypesSparedHolds` |

They assume only the `ASSUME`s of the modules, which TLC evaluates on every run.
The `ASSUME`s are sorts of the constants and
that the "no such" values differ from real ones, and a few facts of the data:
starter tables refer to earlier ones only and there is at least one
(`StartupAssumption`), a statute file has a section and no foreign row has the
number of a chunk (`CorpusAssumption`, `ForeignAssumption`), the database the studio
starts from keeps its keys (`StudioAssumption`; a list is a function of the data
points, since `admin_routes.py:366-375` refuses one that names a point twice), and the
English text is part of what Tesseract's second model reads (`OcrAssumption`).

*ContractReader.* The properties speak of ready rows, and say nothing of a row
half way. The invariant of the second half of the module adds what a job at each
point has put there (`Phase`), that ORM copies are current (`ReqHolds` and its
companion for jobs), and that nobody else works on the contract of a job or of a
process request (`Alone`), all three of contracts that are not contested: two
overlapping POST `/process` both pass the 409 guard (`routes.py:110`), two jobs then
work on stale copies of one row, which the run reaches. Which contracts these
are is decided by the steps of the requests alone, so no hypothesis on the number
of clients is left. The refinement shows that every step is a step of the status
machine or a stutter, a stop of the worker included. For `OnlyTheReplyStrands`,
`OneFaultInv` adds that at most one job is on the failure path with a row to mark,
and that if it found the row failed already, and writes nothing, whoever had the
contract read again is still at it; `CourseInv`, that a job about to end holds a copy
that is being read, so that its last status is a change and is written.

*IdiomLibrary.* `FreshUnlessOverlapped` is strengthened by what a library still
being loaded contains and by which commits its loader has seen.

*Translation.* `IInv` adds to the properties where the loops are (`Places`), that the
chunk chosen fits (`Fits`), which rows have a result (`Entered`: exactly those behind),
that each attempt but the first answered a hiccup (`Counted`), what a result may be
(`Shown`) and that what is stored was made of the results (`Kept`).
`RequestFits` bounds the sum of one request by the sum the packer computed, which
is over the same rows with the widest marker (`SumBelow`), and by what their idioms
have grown since (`SumsBelow`, `ChunkSent`); these are folds, so the module first
proves by induction what a fold over a sequence of numbers and the concatenation of a
sequence of sequences are. `Shown` rests on the decoder: in every answer the text
behind a row marker is that row's body or what is left of it, or its body and the
next one, whose marker was lost (`Remains`, `Sound`, and `Ordered` of the answer that
lost nothing); a body that still has two separators splits into the row's own texts,
with the swallowed body at the end of the third (`SplitIs`, `SplitSwallowed`). Labels
are honest under such answers too, because no answer holds a text in English.

*Analysis.* `IInv` says what a finished chunk holds at each stage (`Annotated`, `Rendered`:
a rendering of each of its clauses in their order, or nothing if it is lost), that
chunks finish once (`Pool`), and what is shown of a reading that failed too (`Shown`).
`InOrder` is the fact behind `ReadyInOrder`: joined, the rows of all chunks are one
row per clause in the order of the contract, by induction over the chunks, each
full but the last one.

*AccessControl.* The properties speak of what is committed; `IInv` adds what a
request at each point has found (`Found`), what its guards have established and which
of that still holds while no request that could disturb it overlaps (`Guarded`), and
whom a signup under way will promote (`Promoting`). A last super-admin is safe from
updates that do not overlap, access from everything but a revocation.

*SessionTurns.* Four layers. `SafeInv`: what each request has stored, and that what it
read of earlier turns is all of them, whence refunds twice only together or by a replay.
`OrderInv`: who is alone at work has the next number or the last one. `CopyInv`: who is
alone has the order and customer of the row. `Played`: the runner's requests were each
answered and sent before the next began.

*Chat.* A reply is what the rules make of some proposal in some turn (`Made`);
the lemmas then follow one fact through the fifteen rules: a list without
refunds stays so, a flag stays, what is new stays new, and where the matrix is
not consulted no refund is added to those of the first rules. For `Inv` the rules
are followed once for all sets of actions that they do not leave (`Closed`): the
well-typed actions, the affordable ones, and, for the soft cap, the finitely many
refunds a proposal can turn into. The total that the cap looks at is a fold over a
set of integers; it is shown to be the sum in whatever order, and not to grow when
actions are dropped that are not negative. The rules after the cap drop refunds only
without an order number, amount or method (`DroppedAreVoid`), and a negative one is
one that Stage 1 proposed (`NegativesAreProposed`), since no rule prices below 0: the
property names what is left (`Offset`), and claims still waiting for their order
(`AwaitsOrder`). `AbuserHeld` follows where a refund can come from (`Credited`).

*Guides.* Three theorems are about the operators, for any tables and any answers:
the list's all-or-nothing fallback and the detail's own agree while nothing is
written, and the matcher is monotone in every answer but the age. `ListedIsServed`
is strengthened by what a reader between two statements has seen
(`ReadersConsistent`: translations are only added, so a list that found none may
become stale, and a stale list is in English), `CompleteWhenDone` by the entries a
run has behind it (`ScriptConsistent`).

*Corpus.* Between its deletion and its end a run of the script holds in memory what the
table lacks. `CorpusIInv` says so: a run that wiped a statute it was given has each of
its chunks stored or still to store (`Ingesting`), whatever other runs do, since they
would have wiped it in turn; and what it has to store are chunks of its files
(`Pending`, from what `FlattenSeq` joins). `Apart` needs that no two runs overlapped:
one run is at work, on statutes it wiped itself, and a statute has no rows but those of
the run that wiped it, or its inactive ones if none did (`InactiveOf`). `AsLastIngested`
follows, and so does `GroundedOnceIngested`, without `Apart`: the chunks of an ingested
statute are all there to be found (`IngestedIsNear`), a lookup that meets a near row
keeps one (`NearestIs`, `DeduplicatedIs`, `QueryIs`), and what a batch has found stays
until the model is asked (`LookedUpIs`, `BlankIs`, `BatchMatches`). That a prompt has no
chunk twice is an invariant of the whole search (`NoneTwice`). `OnlyShortIsLeftOut`
follows the chunker's buffer from paragraph to paragraph (`Spared`), and every file has
a chunk (`ChunksAre`).

*Startup.* `Stepwise` lists the pairs of schema and stamp there may be and what a
start has behind it at each step, `Undisturbed` what a start that overlaps no other
has read and may rely on, `OneByOne` that without overlaps the stamp is never behind
the schema. Which starts overlap never changes once both have begun
(`BesideLasts`), so "no other so far" is enough.

*Content* joins these invariants with the guides' and a type of Cardinal's calls;
each step is one component's, and the others stand (`CorpusStands`, `StartupStands`,
`GuidesStand`).

*Studio.* The keys are kept because every commit checks them again (`Tabled`, which also
says what requests under way may hold); a deletion keeps them since the units below a
unit are closed under "child of" (`BelowIsClosed`, which rests on a shortest chain of
parents having no unit twice and so at most as many as there are, `ShortestIsSimple`).
`ListsKept` and `Copied` say that a PUT that nobody overlaps deletes exactly the
bindings it read, so that what is left is its list. `OwnTypesSpared` rests on `Vacated`,
what the 409 guard of a unit's deletion has established: the unit had no issue types,
and any that are in it now were sent there by a request that overlaps (`Arrived`).
`Tapped` follows the fetchers in their order: a rider or a restaurant was found after
the order it belongs to, which stands before it in the list.

**Induction over data.** The library's induction theorems take an operator, which no
installed prover can instantiate. `Translation_proofs`, `Analysis_proofs` and
`Content_proofs` do without: a set of numbers that holds 0 and, with each member below
n, its successor holds all of 0..n, since its complement has no least member. A fold or
a concatenation is then shown equal to an explicit function that satisfies the same
equations. `Chat_proofs` and, for the lengths of paragraphs, `Content_proofs` do the
same over the subsets of a finite set, where the inclusion is well-founded
(`SubsetInduction`).

**Left to TLC**: liveness (`Terminates`, `AllEnds`, `AllAnswered` and the fair part of
`ImplementsPromise`) and freedom from deadlock, which need ENABLED. Every other
property of a passing run is a theorem.

## Known edges of the code

Met while modelling, and in the models where they are reachable:

- `_library()` reads the global after the lock was released: a reset in between
  hands the scanner `None` (`idioms.py:237`; 243 calls the reset safe).
- PATCH on an idiom can give two idioms one phrase, which POST refuses.
- Stage 1's answer cut off at the output limit is salvaged and counts as
  complete, against the comment at `stage1.py:113-115`; the smart model's answer
  replaces the fast one's even if it is worse.
- The guard against another state's law knows two laws by one wording each and
  looks at the first match (`stage2.py:361-375`, `stage3.py:570-583`); the law of
  another state, or of one of the two in another spelling, reaches the worker, though
  `SOFTWARE.md:504-506` says it cannot.
- A red clause without an action of its own is not given one, except by a
  fallback (`PRD.md:369`); texts are checked before they are cut to their caps.
- A retry does not start "from scratch": it clears the error only.
- A Stage 3 that raises fails the contract, though a comment calls it soft.
- A claim with a number that finds no order is exempt from both caps in the
  first two turns; the first number mentioned is kept for the session.
- A flagged abuser's second soft claim keeps Stage 1's refund, since the first handed
  the session over (`stage2_validator.py:299`); several refunds of at most 300 each
  are kept in any case.
- Refunds of one order with two amounts may add up to more than the order.
- A session handed over before is exempt from the review after an injection
  attempt, and an unsure Stage 1 adds the escalation that the comment at
  `stage2_validator.py:574-577` rules out for abusers.
- A refund without an amount counts for the safety net and is dropped later, so
  the list of actions may end up empty (`stage2_validator.py:691`).
- Two overlapping POST `/process` both pass the guard and start two jobs on one
  contract (`routes.py:110`, though 113 answers a second request with "already in
  progress"); jobs then write over each other.
- A reply to POST `/process` that fails after the reservation's commit leaves the row at
  ocr_pending, with no task and no way to retry (`routes.py:122-124`), though
  `SOFTWARE.md:462` says that failures set the status to failed.
- `reset_cache()` runs before the commit: a scan in between caches the old tables
  until the next reset (`idioms/admin_routes.py:187`).
- A request may be longer than the cap: idioms are replaced after packing
  (`translate.py:338`), and fields and overview items on their own are not measured
  (`translate.py:443-493`, `217-234`); the comment at 69-71 leaves the headroom between
  800 and the API's 1000 to the idioms.
- A row marker that Mayura loses lets one clause's action run on into the next
  clause's text (`translate.py:427`).
- A message that comes again within the cache's time to live is answered from the
  cache, and its refund is issued again (`pipeline.py:209`, `session_runner.py:92`);
  two messages under way together may both be given the refund.
- An error of the database inside a turn fails the request with a 500, though the
  pipeline's docstring promises a hand-over: the fallback uses the aborted
  transaction. An order number the column cannot hold is one such error.
- A refused message's hand-over reaches the customer and not the transcript; a
  runner whose turn raises leaves its session open; a deleted session's message
  under way makes the row anew, without a user.
- A known customer that came from a chip need not own the known order.
- The guard of the last super-admin counts deactivated ones
  (`modules/admin_routes.py:139`), and two overlapping demotions leave nobody.
- Deleting a business unit silently deletes the issue types of units below it,
  against `conversation_studio/admin_routes.py:171-173`; units may form cycles; two PUTs of
  data points at once may mix their lists; the chips of a unit deactivated
  since can still be tapped; a fetcher whose SQL fails aborts the tap;
  `{{...}}` that is not a placeholder's name stays in the text
  (`render.py:22-25`).
- OpenAI calls retry every exception, though `llm_provider.py` says that anything
  else raises immediately; `get_provider` ignores the language, and `SarvamProvider`
  and the streaming calls have no caller.
- "No filter" (`schemes/service.py:4-6`, `schemas.py:15-16`) holds of the age
  alone: any other open question fails a scheme that asks it (theorems
  `AnsweringOnlyAdds`, `AgeOnlyTakesAway`). A scheme of scope "central", which
  `models.py:573` lists, would suit nobody.
- A language that is half translated hides the other entries from the list until
  the script ends; running the script again re-activates a deactivated
  translation of a card.
- The ingestion script deletes a statute's inactive rows with the others
  (`ingest_statute_corpus.py:64-77` has no `is_active` filter).
- `--reset` with file arguments empties the statutes it was not given; a script
  that dies after its first commit leaves none.
- The chunker drops a buffer of under 200 characters, such as a heading with a
  short opening, before a paragraph that would pass 1500 (`chunker.py:150-158`).
- A PDF with 80 characters of its own text is taken for digital, and its scanned
  pages are not read (`ocr.py:317-326`); `is_low_quality` is read by nobody; text files
  that are not UTF-8 may be taken for UTF-16 (`ocr.py:221`).
- Stage 1 may propose a negative refund (`schemas.py:164`; the `ge=1` of line 16 is
  the simulator's): without an order number it lowers the total compared with the soft
  cap (`stage2_validator.py:608`) and is dropped afterwards.
- Two first starts at once: if one upgrades between the two questions of the
  other (`bootstrap.py:180-181`), the schema is stamped back to 001 and no
  later start can upgrade it.

## Not modelled

Not modelled: the front end (its caching and polling are those of react-query, which
is not in the repository), prompts and wording, the similarity of vectors (whether a
chunk reaches the threshold is an input) and what its index misses, the DDL
and seed rows of single migrations, logins and the expiry of tokens, the bench
and evaluation scripts. `stage1.py`'s repeated clause ids and annotations of
another batch's clause are excluded by `DataAssumption`.
