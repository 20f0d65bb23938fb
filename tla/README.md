# Verification of civpulse-geo

TLA+ models of the geocoding service in `src/civpulse_geo`, TLC runs that
check them on small instances, and TLAPS proofs for instances of any size.

## The system

civpulse-geo answers "where is this address". A request normalizes the address,
looks for stored results, asks providers (remote services and local tables),
lets a cascade of stages agree on one position, stores the results and points
one *official* row at the winner. Admins can name another row or give
coordinates of their own; a command line tool imports county data.

| Part | State it keeps | Operations | Talks to |
|---|---|---|---|
| Geocoding tables (`models/geocoding.py`, `models/address.py`) | `addresses`, `geocoding_results` (one row per address and provider), `official_geocoding` and `admin_overrides` (at most one row per address) | upserts by the services below; nothing is deleted | PostgreSQL, READ COMMITTED |
| Cascade (`services/cascade.py`) | one session and a list of candidates per request | normalize, exact match, fuzzy, LLM correction, consensus, auto-set official, dry run, trace | tables, providers, fuzzy matcher, LLM corrector |
| Legacy pipeline, admin and refresh (`services/geocoding.py`) | one session per request | legacy geocode, set_official (GEO-06, GEO-07), refresh, get_by_provider | tables, providers, cascade |
| Batch endpoints (`api/geocoding.py`, `api/validation.py`) | one session shared by all items, a semaphore | geocode or validate up to 100 items at once, collect per-item status | services |
| Validation (`services/validation.py`) | `validation_results`, `addresses` | find or create address, cache, validate | scourgify provider |
| Fuzzy matcher (`services/fuzzy.py`) | none | query candidates, phonetic tie-break, convert | local tables, own sessions |
| LLM corrector (`services/llm_corrector.py`) | none | correct, guardrails, model check | Ollama |
| Spell corrector (`spell/corrector.py`) | `spell_dictionary`, in-memory SymSpell | rebuild, load, correct | local tables |
| Providers (`providers/`) | none (local ones read imported tables) | geocode, validate | HTTP services, own sessions |
| Command line (`cli/__init__.py`) | staging and provider tables, files | geo-import, bulk loads, Tiger setup, OSM pipeline, dictionary rebuild | tables, docker, files |
| Application (`main.py`, `api/health.py`) | registered providers, corrector, HTTP client in `app.state` | start, drain on SIGTERM, readiness | everything above |

What is hard: requests write the same four tables at the same time with no lock
other than the unique constraints, in transactions of many statements with
provider calls of seconds between them; a provider may time out, a statement
may fail or be the victim of a deadlock, a worker may die; a check made by one
statement is used by another; the legacy loop swallows SQL errors; batch items
share a session; imports commit in batches and swallow errors. `PROJECT.json`
lists these hazards at their lines.

What makes each part correct:

* tables: an official pointer names an existing row of its address; an override
  appears whole and protects the address; an insert-if-absent displaces nothing;
  every visible change is one whole operation; every request ends;
* cascade: consensus does not depend on what it should not, a dry run sets
  nothing, the reply agrees with the tables;
* batch: one item failing does not affect others; a success is durable; a
  rejected batch leaves nothing; every batch is answered;
* local lookups: a known address is found whatever is loaded meanwhile, another
  place says that it is one, NO_MATCH is true;
* spell dictionary: concurrent loads and rebuilds lose no word of each other, and
  nobody ever finds it emptied;
* loads and GIS import: loads that wait for each other's rows all end;
* start: a worker that registers a provider for its data has words to correct with;
* OSM pipeline: a run after an interrupted one ends in a complete state.

## Modules

| Module | What it is |
|---|---|
| `OfficialLedger` | abstract specification: the four tables, one atomic operation per geocoding, selection, override or import |
| `GeocodeRequests` | the requests that write those tables, statement by statement, and PostgreSQL's locks |
| `MCGeocodeRequests` | values of the constants for TLC |
| `GeocodeRequestsProofs` | types, inductive invariant and safety theorems of `GeocodeRequests` |
| `LedgerProofs` | the theorems that `GeocodeRequests` implements `OfficialLedger` and its action properties |
| `Cascade` | one geocoding of the cascade from the lookup to the reply: stages, candidates, election, what is written and what is said |
| `MCCascade` | providers, weights and ZIP codes for TLC |
| `CascadeProofs` | types, safety and the refinement of `OfficialLedger` for `Cascade` |
| `Consensus` | the clustering, scoring and election of one geocoding (`run_consensus`) |
| `MCConsensus` | positions and weights for TLC |
| `ConsensusProofs` | types, drift of centroids, agreement and election, for any candidates |
| `OsmPipeline` | `geo-import osm-pipeline` and its four commands, with interruptions |
| `OsmPipelineProofs` | types and safety of `OsmPipeline` |
| `DataLoading` | the bulk loads, `import`, `setup-tiger`, the rebuild of `spell_dictionary` and the start of API workers, all at once |
| `MCDataLoading` | files, words and providers for TLC |
| `DataLoadingProofs` | types and safety of `DataLoading` |
| `BatchSession` | the items of a batch on their shared session, geocoding or validating |
| `MCBatchSession` | addresses for TLC |
| `BatchSessionProofs` | types and safety of `BatchSession` |
| `LocalLookup` | one lookup in a staging table, in Tiger or by the fuzzy matcher, while loads change the tables |
| `MCLocalLookup` | rows, addresses, scores and sounds for TLC |
| `LocalLookupProofs` | types and safety of `LocalLookup` |

`GeocodeRequests` and `BatchSession` are two views of the same pipeline: the
first has many requests with a session each and keeps who is official, the second
has many items on one session and keeps what the session can still do. What
`LocalLookup` answers is what the first takes as the outcome of a local or fuzzy
provider; the tables it reads are those that `DataLoading` fills, batch by batch.
`Consensus` decides among the candidates that `GeocodeRequests` leaves open.
`Cascade` looks into one of those requests: it has the stages, positions and reply
that the first leaves out, and leaves rival geocodings to it. Both implement
`OfficialLedger`.

### GeocodeRequests

*State.* `address`, `rows`, `official` and `override` are the committed
contents of the four tables; a row is named by its address and provider, which
the unique constraint and the absence of DELETE make as good as its id. Of a
row the model keeps whether it is absent, a NO_MATCH (confidence 0, NULL
coordinates) or a match. `txAddr`, `txRow`, `txOff` and `txOvr` are what each
open transaction has written. `pc` is the next statement of each request,
`found` the remote answers it has yet to write, `seen` the rows as its ORM
session loaded them, `winner` the provider it is about to make official, `broken` whether a swallowed SQL error has aborted its
transaction.

*Steps.* One action is one SQL statement with the computation up to the next:
`Lookup`, `CreateAddress`, `CacheHit`, `CallProviders` (the gather of all
providers), `CascadeUpsert` or `LegacyUpsert` for one remote answer in provider
order, `Resolve` (fuzzy, LLM, consensus: which candidate may be elected),
`AdminCheck`, `PersistWinner`, `WriteOfficial` (DO UPDATE), `InsertOfficial`
(DO NOTHING), `SelectBegin` for GEO-06, `OverrideRow` and `OverrideRecord` for
GEO-07, `ImportAddress`, `ImportRow` and `ImportCheck` for a feature of
geo-import, and `Commit`. `CASCADE_ENABLED` is a setting of each worker, and while it
is changed workers with and without it run side by side; so an operation says which
path it takes (`CascadeOps`, `LegacyOps`), and `OfficialLedger` is told which paths an
instance has (`Paths`): what may become official differs (`Electable`). The two queries of the admin check are one step: an
override record is never deleted and comes with the pointer, so their outcome
is that of the second one. Refresh keeps the address it looked up.

*The session's objects.* The address lookup loads the stored rows
(`selectinload`). Upserts are Core statements that do not touch those objects,
and a later SELECT without `populate_existing` gives the objects back as they
were (`Requeried`); the legacy loop elects by what they say, and the replies
show them. A row first read after the upsert is as written.

*Environment.* At READ COMMITTED a statement sees the committed tables and its
own writes. A write waits while another transaction holds an uncommitted row of
the same unique key (`RowFree`, `OfficialFree` and so on). `Abort` is any failure
that rolls the transaction back, at any statement; `SwallowError` is an SQL
error in the legacy loop, after which the server refuses every statement and
the final COMMIT is a rollback; `Deadlock` is PostgreSQL ending a cycle of
waits by failing one of its members.

*Left out.* Coordinates, confidences other than zero or not, `set_by_stage`,
replies (see `Cascade`) and metrics. A geo-import transaction holds up to 100 features; here it
holds one. Local providers and the fuzzy matcher use their own read-only
sessions. `Elects` lets the stages before consensus elect any provider they
could, so it covers every outcome of `Consensus`, which has no database state.

*Refinement.* `Ledger == INSTANCE OfficialLedger WITH ...` maps the four committed
tables to the ledger's; sessions and statements have no counterpart. `Atomic` says
that every step is one whole operation of the ledger or a stutter.

### Cascade

*State.* The tables of one address: `rows` with the place each provider's row has,
`official`, `stage` (`set_by_stage`) and `override`. Of the request: `pc` and `dry`,
`cands` of all stages, `winner`, the LLM's `correction`, `txRow` and `txOff` which it
has written, and `reply`, the fields of the response that a property speaks of.
`seen` is the session's identity map: a row it has loaded keeps its values until the
session ends, since `expire_on_commit` is off and upserts are Core statements.
`named` and `held` are history: who was official, and which rows there were, since
the lookup.

*Steps.* `Lookup` and `CacheHit`; else `ExactMatch`, `FuzzyMatch` unless an answer is
confident, `LlmCorrection` if there is no candidate at all, `ElectByConsensus`,
`AdminCheck`, `PersistWinner` for a winner without a row, `WriteOfficial` unless the
run is dry, and `Commit`. A reply shows the official row as `ReadPointer` and
`ReadRow` find it, before the commit if an admin has decided or the cache was hit.
`Respond` and `Abort` close the session.

*Abstractions.* Two answers at one place are within 100 m of each other, at two
places over 1.1 km apart, so the clusters are the places and `MayWin` is the election
of `Consensus` with ties open (`PlacesDecideHolds`). Of a confidence the model has
whether it reaches 0.80; a fuzzy match never does. A provider's answer may be a match,
no match or nothing (timeout, error). `PassesGuardrails` is the code's, on state codes
and leading ZIP digits; the correction itself is any.

*Environment.* Admins select and override between any two statements that do not
wait for a row lock. `ImportFeature` runs before the first geocoding of an address
(DATA-03), as the rest of the code assumes. Rival geocodings of the same address are
in `GeocodeRequests`.

### Consensus

*State.* `valid` are the candidates taken so far, `clusters` what they have
formed, then `winner`, `outliers` and `elected`.

*Steps.* `Join` and `Seed` are one turn of the loop over the candidates, which
the code has sorted by descending weight: instead of sorting, a candidate may
come only if it weighs no more than the last, so every order of equals is
covered. A candidate joins the first of the nearest clusters if its centroid is
within 100 m, else it seeds one. `Score` picks the first of the heaviest
clusters and flags what is over 1 km from it; `Elect` takes its member nearest
to the centroid. Every list of candidates is a behaviour that ends with
`Elect`, which is why the run does not ask for a next step.

*Abstractions.* The sphere is a plane and `haversine_m` the Euclidean distance,
compared as squares; at 1 km the difference is far below the rounding of
coordinates. A centroid is the weighted sum beside the weight, so that all
comparisons are exact; binary floating point may decide a tie otherwise. A
weight of 0 is excluded (`WeightsArePositive`).

### OsmPipeline

*State.* `pbf`, the extract: absent, partial or complete; `store`, what each
container's volume holds; `step`, `pc`, `alone`, `force` and `attempt` of the
running command; `result`, the summary the pipeline builds; `worked`, the steps
that have really done something in this run.

*Steps.* `Check` is the idempotency check of a step, `RunDownload`, `Connect`,
`Write` and `Retry` are `osm-download`, `RunNominatim`, `RunBuild` and `Build`
the container commands, `Finish` what follows a step, `Summary` the end. `Kill`
ends the command anywhere and leaves files and volumes as they are. One command
runs at a time. A check of a container may also fail because docker does.

*External.* What images do with the extract: Nominatim imports it by itself
after its container is started on an empty volume (`NominatimImports`); the
others leave a partial volume when they are interrupted or fail, and are not
trusted to reject a truncated extract. Valhalla without any extract may end with
exit code 0 and nothing built (`docker-compose.yml` says so of its first start).

### DataLoading

*State.* `table` (the committed rows of the four staging tables and of what `import`
writes), `tiger` and `featnames` (the Tiger tables), `dict` (the committed
dictionary), `share` and `excl` (its table locks). A process, which is a command or
an API worker, has a place `pc`, the rows of its batch that it has still to write
(`todo`) and those its open transaction has written, whose locks it holds
(`pending`), how far the file is read (`read`), whether its transaction is aborted
(`broken`), the words its rebuild has inserted (`fresh`), and as a worker the
`registered` providers and its `corrector`. A row is its key and one street word, or
`NoWord`: the parsers keep rows without a street name, which the rebuild leaves out.
The rest is history: `wrote`, `lost` and `skipped` say where a word that the
dictionary lacks has gone, `wordless` since whose start or TRUNCATE the sources have
been without any word.

*Steps.* `ReadBatch` parses the next batch; `UpsertRow` writes its rows one by one, in
the order of the file, and waits at a key that another load has written; `CommitBatch`
commits it. So a load that waits can do nothing else but fail. `FeatureFails` is the
exception of a feature that `import` swallows, which leaves its transaction aborted.
`EndOfFile` goes to the rebuild and `EndWithoutRebuild` does not. `Truncate`,
`InsertWords`, `InsertTiger` and `CommitDictionary` are `rebuild_dictionary`; the error
of a missing `tiger.featnames` is dropped in Python and leaves the transaction aborted
on the server, whose COMMIT is then a rollback. `AskNext`, `CountWords`,
`CountStaging`, the rebuild and `LoadCorrector` are the start of a worker;
`SpellBlockFails` is any exception of its block, which `main.py:192` catches: the
worker then serves without a corrector. `LoadFails` and `StopWorker` end a process at
any statement.

*Environment.* An upsert waits for the transaction that wrote its key (`Rivals`);
TRUNCATE takes ACCESS EXCLUSIVE and waits for every reader. `DeadlockVictim` is
PostgreSQL failing one process of a cycle of such waits: of loads that write the same
keys in opposite orders, or of workers that hold ACCESS SHARE and both ask for
TRUNCATE. NAD's batch is one INSERT ... SELECT, which locks its keys one by one too.

*Left out.* File formats, rows the parsers skip for other reasons than a missing
identifier or position, the counts that are printed (`import` counts rows of an aborted
batch as inserted), and what `import` writes beyond one row of a feature
(`GeocodeRequests` has its statements). Scripts, downloads and the contents of
TIGER/Line are external.

### BatchSession

*State.* `pc` of each item, `address` and `rows` as committed, `newAddress` and
`newRows` in the session's transaction, and what the session is: `closed` (without
a connection), `open`, `aborted` (PostgreSQL ignores statements until a rollback) or
`inactive` (SQLAlchemy refuses statements until a rollback). `own` and `stored` are
history: items that failed by themselves, addresses the session has committed
something of.

*Steps.* `BeginItem` is a task's first run, up to its first await; `asyncio.gather`
starts them in order. The semaphore lets in `limit` items. An item that `Enter`s
asks the session for its address: the session takes a connection from the pool,
which always awaits, since `database.py` sets `pool_pre_ping`, and refuses every
other call meanwhile. Then one action is one statement of `validate` or of the
cascade, up to `CommitSession`, which publishes what any item has written. Each
may fail (`ConnectFails`, `StatementFails`, `FlushFails`, `CommitFails`,
`ProviderFails`); the task makes the failure the item's status and rolls nothing
back, so `FindsAborted` meets the next item. `Respond` builds the reply and closes
the session. `OtherCommits` are other requests for the same addresses.

*Left out.* Confidences, the official pointer's content, and the legacy pipeline.
With `N = 1` the module is `POST /validate`.

### LocalLookup

*State.* `points`, the committed rows of the three staging tables, `task` (what is
asked of whom), `pc` (the statement the lookup is at), `cands` of the fuzzy query and
`answer`. `always` is history: the rows that were there all the time.

*Steps.* `ParseAddress`; `FindMatch`, `FindFuzzyMatch` and `FindByPrefix` are the
exact, nearest-house and ZIP-prefix queries that the OpenAddresses, NAD and Macon-Bibb
providers share, and `OaGeocode` to `MaconValidate` are these in the order of each
method: a validation does not ask for the nearest house. `QueryCandidates` and
`PickFuzzy` are the fuzzy matcher; its tie-break query may fail, which leaves the
best score. `TigerGeocode` is Tiger's query with the county filter, `TigerValidate`
its normalizer. `LoadCommits` inserts or replaces a row between any two statements;
`Interrupted` is a failed statement or the stage's timeout.

*External.* PostGIS' `geocode`, `normalize_address`, `word_similarity` and
`dmetaphone`: their outcome is any row of `TigerRows`, or a table of numbers
(`Score`, `Sound`). Coordinates do not matter to any property. A house number is a
number or a value that is none; `MaxInt` is PostgreSQL's largest integer.

## Runs

The runs of `GeocodeRequests` and `Cascade` have one address (`a1`): requests on different
addresses touch different keys and interact in nothing the model keeps. Requests
start again when they end, so that any number of requests follow one another;
only the number in flight is bounded.

| Run | Instance | What it shows |
|---|---|---|
| `Geocode` | 2 requests of every kind, on either path; 1 remote, 1 local and 1 fuzzy provider | types, `OverrideIsComplete`, `OverrideSettles`, `InsertNeverDisplaces`, and `Atomic`: the refinement of `OfficialLedger` |
| `GeocodeLive` | 2 geocodings or overrides, 2 remote providers, fair | every request ends |
| `OverrideRace` | 2 requests | *violated*: "admin_override never overwritten" |
| `RefreshCached` | 2 requests, geocodings and refreshes | *violated*: a refresh "bypasses the cache and calls every registered provider" |
| `Cascade` | 1 remote, 1 local and 1 fuzzy provider, 2 places, 2 states, a ZIP | `ReplyIsHonest`, `OfficialIsEarned`, and `OneGeocoding`: the refinement of `OfficialLedger` |
| `Consensus` | up to 5 candidates, 7 positions, 2 weights | `ElectedIsNear`, `VotersAreNoOutliers`, `AgreementIsKept`, `HeaviestGroupDecides` |
| `OsmPipeline` | 3 attempts, as in the code; nothing else is bounded | `SuccessHasData`, `SummaryIsEarned`, `CompleteExtractIsKept`, `CommandsEnd` |
| `DataLoading` | 2 processes, batches and files of 2 rows, with and without Tiger, with and without an old row | `DictionaryCoversLoads`, `DictionaryNeverEmptied`, `WantOfWordsIsExplained`, `EveryProcessEnds` |
| `TigerMissing` | 1 process, without Tiger | *violated*: the dictionary is "auto-rebuilt after every CLI data-load command", Tiger being optional |
| `BatchSession` | 3 items, 2 addresses, room for 1 or 2 | `OkIsStored`, `RejectedLeavesNothing`, `SomeItemIsServed`, `EveryBatchIsAnswered` |
| `BatchIsolation` | the same | *violated*: "one item failing does not affect other items" |
| `LocalLookup` | 11 rows in 3 tables, 6 addresses | `ExactRowWins`, `NearestHouseWins`, `OtherPlacesAreMarked`, `NoMatchIsTrue`, `NoBetterCandidate` |

Two requests show every race between a check and a write, and between two
writers; one provider of each kind is enough because the code treats the members
of a kind alike, except for the order of the remote upserts, for which
`GeocodeLive` has two. Its geocodings take the cascade, which alone
writes rows out of provider order; legacy geocodings, selections and imports are left
out of that run to keep it small, so that their end is not checked. The proofs are about any number of either.

In `Cascade` two places are agreement and contradiction; one provider of each kind
gives every mix of kinds, the weights make the remote one win or lose against the
local and fuzzy ones together, and one row of each provider is what the session may
have loaded. Places are symmetric. Nothing is bounded: a request ends after at most a
dozen statements, and requests follow one another.

In `Consensus` a unit is 10 m and a weight of 0.40, so `Reach` is 10 and `Stray`
100. The positions have pairs at and just below the limit, two that draw a
centroid away from where it began, one alone and one more than 1 km off. Five
candidates are what five registered providers give; two weights are enough for
most of the trust with a minority of heads. A group `Agree`s when its members
are pairwise within 100 m and everybody else is over 200 m from each of them:
for groups less apart the greedy pass makes no promise. `HeaviestGroupDecides` asks
that the group outweigh all `Loners` together, who agree with nobody and may cluster
in any way, and each other group; of a tie the code promises nothing.

In `DataLoading` two processes are what a race needs: load against load, load against
rebuild, rebuild against start, start against start, and one after the other in either
order. A batch of two rows in either order is what two loads need to deadlock, and a
file may end with it, with a batch of one, or without any; only `import` reads two
batches here, of a feature each. A load that has committed some of its words and then
dies, or waits, is reached with one batch as well; the proofs are for any number. Of two words one is only old, so that a
rebuild may miss one and keep the other, and one entry has no word. A process starts
once (`MaxStarts`), since a later one finds only what the committed state says. The run
needs no next step once all have ended.

In `BatchSession` three items give a first, one that meets it and one that meets what
became of it; with two addresses, items share one or not. More items than the limit
queue, so limits of 1 and 2 show both cases. A batch ends with its answer.

In `LocalLookup` every set of the rows that is a table is a start. With `MaxDistance` 3
and `MaxInt` 50, the block of house 10 has the address itself twice, house 13 exactly at
the limit, 14 just beyond it and 99 beyond PostgreSQL's integers; other rows have
another ZIP of the same prefix, or a street that sounds better but scores less. The
addresses have a whole ZIP, four, three and no digits, and a house number that is none.
Three candidates (5 in the code) of at least four similar rows let LIMIT cut. A lookup
ends with its answer.

*Fairness* (`FairSpec`). The code has timeouts on provider calls and no loop
that waits, so a request that can take its next step does, in the end; a
statement that waits for a row is granted it in the order of arrival, which is
strong fairness of `Advance`. PostgreSQL's deadlock detector acts on every
cycle that persists, which is weak fairness of `Deadlock`. Nothing makes
failures happen. In `OsmPipeline` the commands go on by themselves, requests have
a timeout of 60 s and containers end: weak fairness of `Advance`. In `DataLoading`
some running process goes on as long as one can (weak fairness of their steps and of the
deadlock detector taken together): statements answer and a free lock is granted. No
fairness among processes is asked for, since each has finitely much to do; that their
waits for rows and for the dictionary always end is what `EveryProcessEnds` checks.
In `BatchSession` the
event loop runs every task that is ready, and a statement or provider answers or
fails: weak fairness of each item and of `Respond`.

## Findings

* `OverrideRace`: the admin check of the cascade and its upsert of the official
  row are two statements. An override that commits between them is displaced,
  though `services/cascade.py:17` says it never is. `OverrideSettles` says what
  the code does ensure: once the geocodings that had checked before the
  override are gone, the override stays.
* `TigerMissing`: without `tiger.featnames` the last statement of the rebuild fails
  and its exception is dropped, but the transaction is aborted: the commit is a
  rollback of the TRUNCATE and of all words inserted. No load of a deployment
  without Tiger ever reaches the dictionary, though `spell/corrector.py:134` calls
  the provider optional. `DictionaryCoversLoads` says that this and a load that
  died are the only ways to lack a word.
* `RefreshCached`: `GeocodingService.geocode` does not hand `force_refresh` to the
  cascade, so with the default settings `POST /geocode/{hash}/refresh` is a cache hit,
  though `api/geocoding.py:194` says that it bypasses the cache and asks every
  provider, and the reply names them all as refreshed. A legacy refresh does ask them.
* `BatchIsolation`: items share the session, and nobody rolls back for the next
  one. `api/geocoding.py:392` says that one item failing does not affect others. TLC's
  trace has room for two: the second item asks the session while it connects for the
  first, and is refused. So with the default limit all items but the first fail, where
  the tests of both endpoints, whose service is mocked, expect two successes
  (`tests/test_batch_geocoding_api.py:89`). With `Limits = {1}` the same property shows
  the other way: a failed statement leaves the transaction aborted for all later items.

Seen while modelling, without a run:

* When the two best fuzzy candidates are within the gap, all candidates go to the
  phonetic query, and sound comes before score, so that one far below the gap can
  win; `services/fuzzy.py:105` speaks of those within the gap. `NoBetterCandidate`
  allows it.
* A forced pipeline starts `osm-download` without `--force`. The command finds the file
  and returns, and the summary says OK, against the help of `--force`
  (`cli/__init__.py:1429`), D-14 and `tests/test_osm_cli.py:253`, which counts the calls
  of a mock. `CompleteExtractIsKept` asks nothing of a run with `--force`, so that it
  would hold of a pipeline that passes it on as well.
* A cache hit fills `would_set_official` although it sets nothing and the request may
  not be a dry run; `schemas/geocoding.py:45` says "in dry_run mode". There a stored
  local or fuzzy row votes beside the fresh answer of the same provider, and rows of
  fuzzy, admin and import names weigh 0.50, which no setting says.
* Two effects of the session handing out the objects it loaded before the upserts:
  a NO_MATCH that a legacy refresh turns into a match does not become official,
  and a cascade whose winner was a NO_MATCH before the LLM correction replies with
  that NO_MATCH as the official result (`services/cascade.py:1050`). `ReplyIsHonest`
  names the latter as its only exception (`HiddenByOldObject`), which TLC reaches.
* `osm-download` writes to the final name, and the checks ask only for its
  existence, so what an interrupted download left is skipped as complete and
  built from.
* Two workers that start on an empty dictionary can deadlock over it, and one then
  serves without a corrector. The shipped deployment has one replica that is
  recreated, so this is a hazard of scaling it. Two loads of files with the same rows in
  different orders can deadlock too; the victim's rebuild is then lost.

## Proofs

### GeocodeRequests

The theorems hold for every set of addresses, requests and providers, and any mix of
the two paths, from three assumptions on the constants: provider names are
distinct, `RemoteOrder` lists remote providers, the operations are known.

`TypesHold` is inductive by itself. The safety properties are not: that a
published pointer names a row depends on what the transaction has written, on
what it will write, and on who else may be writing. `IInv` therefore says, for
each operation, what its transaction holds at each statement (`GeocodeInv`,
`SelectInv`, `OverrideInv`, `ImportInv`, `IdleInv`), that an aborted
transaction holds nothing (`BrokenInv`), that two transactions never both hold
the official row of an address (`OnePendingOfficial`), and that an
insert-if-absent that is pending meets no committed row
(`PendingInsertIsFirst`). A step other than a commit changes one session only
(`OwnStepInv` carries the rest); a commit changes the tables, in a way that
keeps what other sessions rely on (`CommitInv`).

| Theorem | Argument |
|---|---|
| `TypesHold`, `OfficialHasRowHolds`, `OverrideIsCompleteHolds` | conjuncts of `IInv` |
| `AtomicHolds` | only a commit changes the tables (`TablesStep`), of an operation this instance has (`RunsKnownOps`), and the commit of each operation is that operation of the ledger, or nothing if the transaction was aborted |
| `InsertNeverDisplacesHolds` | `PendingInsertIsFirst` at the commit |
| `OverrideSettlesHolds` | with the record committed no step takes a session past the check (`AdvanceIsNotPast`) |

`OfficialHasRow` is no property of a run, since `Atomic` implies it.

### Cascade

For any providers, places, positive weights and ZIP table, and any number of
requests one after the other. Each conjunct of `IInv` is about one thing:
where the request is (`ShapeInv`), whom the candidates stand for (`CandsInv`),
who is elected (`WinnerInv`), what is written by whom (`WriteInv`) and what nobody
else writes (`MissInv`), what the tables were (`HistoryInv`), and what the reply says
(`ReplyInv`, `ChoiceInv`). The idea behind the reply is `Accounted`: whatever an
object of the session says of a provider, the tables have said, or will say at the
commit, or it is the NO_MATCH that hides an LLM winner. Each step has a lemma that it
keeps `IInv`; admins and imports share `ElsewhereKeeps`.

| Theorem | Argument |
|---|---|
| `TypesHold` | a conjunct of `IInv` |
| `ReplyIsHonestHolds` | `Accounted` after the commit; candidates have names of their own, so a winner is no outlier |
| `OfficialIsEarnedHolds` | only `Commit` counts (`CommitIsEarned`), and `WriteInv` says what a pending official row goes with |
| `OneGeocodingHolds` | the commit is a `Geocode` of the ledger (`CommitIsGeocode`), admins and imports are its other operations, all else stutters |

### Consensus

For any positions and positive weights, any `Reach <= Stray`, and any number of
candidates, but for one assumption that only `VotersAreNoOutliers` needs:
`DriftIsBounded` has room for half of `Reach` with each candidate, which at 100 m and
1 km is twenty of them. A cache hit has the most, fifteen: the stored rows of six
providers, three fuzzy names, an admin and a GIS import, and fresh answers of four
local providers (more only if an address is imported under further names).

*Where the winner is.* `IInv` says of every cluster, at every moment, that some
member is within reach of its centroid (`EveryClusterHasCore`). A joining member is
within reach of the centroid before, and its own weight only draws the centroid
closer to it (`JoinerIsNear`: the weighted gap stays, the weight grows). `Elect` takes
the member nearest to the winning centroid, which is then within reach.

*Who is in a cluster.* `ClusterInv` adds, for all clusters:

- they are disjoint, and their weights are the trust of their members;
- `CentroidsAreAmongMembers`: a position within reach of all members is within reach
  of the centroid. This is what is needed of "the centroid is a weighted mean", it
  mentions no sum, and it is kept by a join, by convexity of the disc
  (`HullOfJoined`, which rests on Lagrange's identity and `CauchySchwarz`);
- `MembersStayNear`: candidates come sorted (`CandidatesAreSorted`), so a joining one
  weighs no more than the cluster and moves the centroid by at most half of its
  distance (`DriftOfJoined`);
- the winner is the heaviest, and groups that agree are kept together.

Distances are compared by their squares, over the square of the weight
(`FractionsAreOrdered`), so all of this is integer arithmetic. Sums over sets
(`TrustOf...`) are proved by taking a smallest set for which the sum were wrong
(`MinimalSet`), which needs no induction principle with an operator parameter.

| Theorem | Argument |
|---|---|
| `ConsensusTypesHold`, `ElectedIsNearHolds` | from `IInv` |
| `VotersAreNoOutliersHolds` | `MembersStayNear` and `DriftIsBounded` |
| `AgreementIsKeptHolds` | a newcomer that agrees is within reach of the hull of its group (`NearCandidateJoins`), one that does not is over 200 m from each member and cannot be within 100 m of the centroid with its core (`FarCandidateMisses`) |
| `HeaviestGroupDecidesHolds` | the winning cluster is a group that agrees or one of loners only (`HeaviestGroupWins`), and the latter has no more trust than all of them (`TrustGrows`) |
| `PlacesDecideHolds` | with candidates near each other or over 1.1 km apart, places agree (`PlaceAgrees`), so the winner is a place; all others are over 1 km from a centroid within 100 m of the elected |

`PlacesDecide` is no property of a run: it restates what `Cascade` assumes of
`run_consensus`, which `AgreementIsKept` and the invariants imply.

### OsmPipeline

For any number of attempts. `IInv` says of a running pipeline that the steps
with a result are those before `step` (`RecordInv`), what a good result implies
for the data (`DataInv`: the graph needs the extract, since Valhalla may succeed
without one), that OK of a build means it ran (`WorkInv`), and what the program
counter implies for the file and the volume in work (`PcInv`). The lemmas
`Finish...` treat the end of a step once, for all steps.

| Theorem | Argument |
|---|---|
| `OsmTypesHold`, `SuccessHasDataHolds`, `SummaryIsEarnedHolds` | from `IInv` at the summary, where every step is done |
| `CompleteExtractIsKeptHolds` | only `Connect` truncates, and `PcInv` says when it is reached with a complete file: not after a failed attempt, nor without `--force` |

### DataLoading

For any number of processes, files, batch sizes and words. Four conjuncts beside
the types: where a process is tells what it runs, and only the holder of the
exclusive lock is inside a rebuild (`PlaceInv`); only a load of street names that
has read a row has words under way (`WroteInv`); a rebuild that has inserted the
words lacks at most those that *others* commit meanwhile (`CoverInv`); and a rebuild
that found no word, or a worker about to read a dictionary without one, is marked
as `wordless`, unless a rebuild was rolled back (`WordsInv`). The latter is inductive
because the marks are taken at each start and TRUNCATE and only a commit of a batch
changes whether the sources have words. `StepIsStatement` turns a step into one of
its statements; those that commit nothing go through one lemma for each invariant
(`QuietCovers`, `QuietWords`), those that end a process through another
(`Closing...`), and the commits of a batch and of a dictionary have the argument.

| Theorem | Argument |
|---|---|
| `LoadingTypes`, `DictionaryAlwaysCovers` | conjuncts of `IInv` |
| `DictionaryStaysFull` | only a commit that is no rollback changes the dictionary (`DictionaryChanges`); one without words comes from a rebuild that found none, which `WordsInv` marks |
| `WantAlwaysExplained` | a worker starts to serve with a dictionary without words only from `LoadCorrector` (`ServingStarts`), where `WordsInv` has the reason; after an exception it has no corrector |

### BatchSession

For any number of items, addresses and limits. The heart is that at most one item
is ever in the pipeline (`SoloInv`, the cause of the `BatchIsolation` finding): the first task begins with the connection, and
until it has it the others that find room fail. What the session is follows from
where that item stands (`SessionInv`), what its transaction holds from the
statements behind it (`WrittenInv`), and a commit is always somebody's who was
then answered or failed in the reload (`StoredInv`). As long as nobody failed by
himself, some item is still on its way or was served (`SomeoneInv`).

| Theorem | Argument |
|---|---|
| `TypesHold`, `AnsweredItemsAreStored` | conjuncts of `IInv` |
| `RejectionsAreClean`, `SharingAloneRejectsNothing` | `StoredInv` and `SomeoneInv` when all items failed |

### LocalLookup

For any finite tables (`TablesAreFinite`), addresses, scores and sounds, any loads
between statements, and any `MaxInt`, `Limit` and thresholds; Tiger's ratings are
integers, which is what `geocode()` returns (`RatingsAreInt`). `LookupTypesHold` is
inductive by itself: at most `Limit` candidates, one for each row, and a confidence
of the fuzzy answer between 50 and 75 whatever the score. `SearchInv` says what the statements before have
ruled out of the rows that stay: no exact match after the first, none near enough
after the second, none of four digits after the third. Loads only make those rows
fewer, which is why the invariant survives them (`LoadCommitsKeeps`). `CandsInv`
says that what the fuzzy query left out scores no higher than what it took. The
theorems (`ExactAlwaysWins`, `NearestAlwaysWins`, `OtherPlacesAlwaysMarked`,
`NoMatchAlwaysTrue`, `FuzzyAnswerUndominated`) are conjuncts of `IInv`; the lemmas
`Replying...` show once for all statements that an answer has them.

### Only model-checked

`EveryRequestEnds`, `CommandsEnd`, `EveryProcessEnds` and `EveryBatchIsAnswered`:
liveness under fairness is beyond the prover. Every other property of the passing
runs is a theorem.

## Plan

Done, each with its runs and proofs: `GeocodeRequests` and `Cascade` with
`OfficialLedger`,
`Consensus`, `OsmPipeline`, `DataLoading` (the loads, the import, the dictionary and
the start of workers, which were planned as three modules), `BatchSession` (with
validation) and `LocalLookup` (with the fuzzy matcher). What is left:

1. `ConnectionPool`: requests that hold one connection and ask for another
   (`providers/tiger.py:158`), with SQLAlchemy's timeout.
2. `Readiness`: draining on SIGTERM and what `/health/ready` says meanwhile.
3. Theorems: an abstract specification of independent items and how far a batch of
   limit 1 without failures implements it.

## Not modelled

Reverse geocoding, POI search, routing and tiles are stateless proxies. Remote
providers and the call of the LLM are HTTP, whose answer, error or timeout the
models leave open (its guardrails are in `Cascade`). Address normalization, the parsing of files and addresses,
scourgify and `SpellCorrector.correct` are pure functions of text; addresses, words
and rows are values here. The registry of providers is a loop over a dict, whose
outcome is a set in `DataLoading`. Observability, migrations, deployment, scripts
and load tests change none of the state above.
