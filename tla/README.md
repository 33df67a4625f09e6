# A verification development of crypto-governance

The repository harvests governance proposals and forum topics of five DAOs,
keeps every version it ever saw in an object store (bronze), folds them into
slowly changing tables (silver), embeds the current texts (pgvector) and answers
questions over both, on a command line, an API and a dashboard. This directory
holds TLA+ specifications of its moving parts, the TLC configurations that check
them on small instances, and proofs checked by TLAPS. Paths below are relative to
the repository.

    tlc -config MCBronze.cfg MCBronze        # a run (names in PROJECT.json)
    tlapm BronzeProofs.tla                   # the proofs of a module

`PROJECT.json` lists the components, the runs, for each checked property a
mutant of the code that breaks it, the source lines behind every definition, the
hazards of the code and the disagreements found between code and docs.

## 1. Inventory

| Part | Source | State it keeps | Operations |
| --- | --- | --- | --- |
| HTTP client | `data_pipeline/extraction/http.py` | tokens and their time stamp, shared by threads | `acquire`, `request_json` |
| Source listings | `snapshot_client.py`, `discourse_client.py` | cursor or page, what was seen, what was collected | `fetch_proposals`, `fetch_topics`, `topic` |
| Harvest | `data_pipeline/harvest.py`, `extraction/bronze.py` | the bucket; per process the unit, the entities left, the report | `run`, `put`, `write_manifest` |
| Silver build | `data_pipeline/transformation/build_silver.py` | two Iceberg tables; per job the listing of bronze | `build_*`, `merge` |
| Chunking | `ai_agent/chains/chunking.py`, `config/corpus_filters.py` | none | sections, windows, runts, the floor of curation |
| Vector store | `ai_agent/chains/embeddings.py`, `storage/vector_schema.sql` | `document_embeddings`; per loader the work list and the batch | load, filter, embed, insert |
| Maintenance | `scripts/prune_corpus.py`, `scripts/backfill_citation_metadata.py` | none of their own | delete rows, rewrite titles |
| Search | `ai_agent/chains/retrieval.py` | a lazily created HTTP client | `search`, `embed_query` |
| Agent | `ai_agent/graph/*` | the `AgentState` of one question; a lazily created client and usage counter | router, sql, vector, hybrid, synthesis |
| Pipeline | `dags/*` | the task states of one run for each DAG | harvest, build_silver, check_cost_ceiling, embed |
| Trino client | `ai_agent/chains/trino_client.py`, `graph/sql_templates.py` | the attempt and the rows read of one query | `query`, `_run_once` |
| API | `backend_api/` | the event stream of one question; nothing between requests | chat, stream, proposals |
| Dashboard | `dashboard/` | chat page: stage, answer, error, the function that stops its stream; list page: filter, offset, rows, loading, error | ask, retry by POST, choose a filter, load more, navigate |
| Others | `config/`, `ai_agent/graph/llm.py`, `ai_agent/cli.py`, `scripts/eval_sources.py`, `scripts/check_openai.py`, `docker/` | none at run time | - |

How they interact. The DAGs start one harvest process per protocol, then a Spark
job in another container (`docker exec`), then the loader in-process. The parts
share no memory: they communicate through the bucket, the Iceberg tables and
pgvector. The agent reads silver through Trino and the vectors through Postgres;
it writes nothing. The API runs it for the dashboard, once per question, and reads
silver for the list of proposals. The harvest, the loader and the agent's model
calls send their HTTP requests through the HTTP client.

What is hard, and what makes each part correct:

* **HTTP client.** Threads compete for tokens with the lock released during
  sleeps. No window of time may carry more than the rate; waits suffice; every
  request ends and its caller learns the truth.
* **Listings.** The source moves between two pages. Nothing that stood still is
  skipped; the loop ends.
* **Harvest.** HEAD and PUT are two requests, any step can fail, the process can
  die. Bronze is append-only, a version is one object, failures are reported.
* **Silver.** Builds work from an old listing, crash between the two merges, and
  run with changed code. One current row, no gaps, a pure function of bronze.
* **Chunking.** Windows, short last pieces and the floor of curation act on one
  another. No sentence worth finding is lost between two chunks.
* **Vector store.** Money is spent before rows are written, by processes that can
  die or run twice, beside a prune. No chunk is paid for without need, none is
  missing for ever.
* **Agent.** Every answer of a model may be junk. Retrieval respects filters,
  citations are evidence.
* **Trino client.** A query can be abandoned after some of its rows were read, and
  the table can have changed when it is run again. The caller gets one result.
* **API, dashboard.** Streams break at any event, an `EventSource` asks again by
  itself, replies outlive the page or the filter they were for. A question is paid
  for once, the page shows the answer to the last question and the rows that were
  asked for, and says when it has failed.
* **Pipeline.** Retries, orphaned jobs and two DAGs over the same stores. Green
  means delivered; the ceiling holds.

## 2. Modules

| Module | Models | Composition |
| --- | --- | --- |
| `TokenBucket` | class `TokenBucket` | - |
| `HttpClient` | class `HttpClient` | EXTENDS `TokenBucket`: its steps are the bucket's steps plus its own |
| `ObservationLog` | abstract: what bronze promises | - |
| `Bronze` | harvest processes and the bucket | INSTANCE `ObservationLog` (refinement) |
| `Listing` | the two paginated listings | the inside of Bronze's step `List` |
| `Silver` | the fold and the guarded MERGE | its `objects` behave as the observation log, which bronze implements of every entity that one process harvests |
| `Chunking` | how a document is cut, as operators | - |
| `VectorStore` | loader, prune, title backfill | EXTENDS `Chunking`: the chunks of a text are what it cuts; reads the current silver rows |
| `Agent` | one question through the graph | reads the store's chunks |
| `Pipeline` | the two DAGs over the stores, each a set of items | the schedule that Bronze, Silver and VectorStore assume |
| `TrinoQuery` | one call of `query()`, as operators on a record | - |
| `ChatPage` | the chat page, its streams and POSTs, the server side of each | runs the agent, of which it sees the node events |
| `ProposalsPage` | the list page, `list_proposals`, the table that changes meanwhile | EXTENDS `TrinoQuery`: each request holds a query |
| `Dashboard` | the tab: navigation between the two pages | EXTENDS `ChatPage`, `ProposalsPage` |
| `HttpClientProofs`, `BronzeProofs`, `ListingProofs`, `SilverProofs`, `VectorStoreProofs`, `AgentProofs`, `PipelineProofs`, `DashboardProofs` | theorems | EXTEND their module; those of the client cover `TokenBucket`, those of the store `Chunking`, those of the dashboard `ChatPage`, `ProposalsPage` and `TrinoQuery` |
| `MC*` | values for TLC | EXTEND their module |

Definitions marked *Faulty variant* are plausible bugs. No specification uses
them; they are put in the place of the definition they precede to see that a
property notices.

### State and actions against the code

**TokenBucket, HttpClient.** `tokens` and `updated` are `_tokens` and `_updated`,
in sixtieths of a token so that a rate per minute loses no fraction; `clock`
counts seconds. `Take` and `Wait` are the two outcomes of one pass of `acquire`
under the lock, `Wake` the end of the sleep, which may be late. Tokens and waits are
exact: the code divides floats, and a wait that comes out short by the last bit of one
costs another pass through the loop with a wait as small, which moves no token and is
not a step here. In `HttpClient`,
`phase` is the place in `request_json`, `attempt` its loop variable; `Succeed`,
`ClientError`, `Throttled`, `TransportError` and `OtherError` (every exception that is
not retried: a broken chunked body, too many redirects, a body that is not JSON) are the
replies; jitter is covered
by late wake-ups. A `Retry-After` is a natural number or absent (a date falls back
to the backoff in the code; a negative or not-a-number value is not modelled).
`StartWindow` lets an observer start counting
at any moment, so a bound on its count holds for every window.

**Bronze.** `run[h]` is a process of `harvest.py`: `pc`, the unit (one source of one
protocol), `todo`, the contents it `got`, the entity in hand and the failures.
`List`, `Take`, `HeadObject`, `Put`, `UnitDone`, `Manifest` are its steps,
`ListFails`, `TopicFails`, `StoreFails`, `Crash` what goes wrong. A listing may leave
out anything within its limits, as `Listing` says it may; `missed` notes it. A response
has fields of two kinds, what activity moves and what a forum adds for the request
(`Noise`); `HashExclude` is what the two callers of `put` name, `Digest` is
`canonical_hash` of what `Prune` leaves. `stamp` gives the mtimes of each entity's
objects; two puts of one entity never tie. `Versions` is what activity may turn an
entity into. Two harvesters may cover one entity; `Unshared` are the entities that one
alone covers, of which `NewestIsFetched` and `ImplementsLog` speak.
A harvest without `--with-posts` is `Forums = {}`.

**Listing.** `feed` is the source, newest first, without repetitions; `FetchProposals`
and `FetchTopics` are one round of each loop. A page of topics is a set of places of
the feed, and `Foremost` is `collected[:limit]`: of the fresh places the foremost there is
room for. `topic()` fetches one page of posts and is part of
Bronze's `Take`.

**Silver.** `objects` is bronze, `table[1]` and `table[2]` are
`proposal_versions` and `forum_posts`. `Observations`, `FirstSeen`, `Windows` are
the fold, `Stale` the counting of new and changed rows, `Merged` the MERGE, one
atomic commit as Iceberg makes it. `List` ends a listing that took many requests: it has
the objects that were there when it began (`begun`) and any of those put since, so
it may have a later observation of an entity without an earlier one. A `record` is what `record_hash` covers; the
`rest` and the version of the `code` stand for all other columns. `Deploy` changes
the code between jobs. Objects of sources that are not configured are dropped for
proposals and kept for posts, as in the code; the configured set is fixed in a
behaviour.

**Chunking.** A document is a sequence of sections, a heading or none and a body of
words; a word stands for a token. `Sections` is `_split_by_headings`, `Windows` is
`_window`, `Merge` what happens to a piece shorter than `MIN_TOKENS`, `Merged` the loop
over the pieces (a recursive function, so that it can be proved about), `Substantive`
the floor `MIN_BODY_TOKENS` with its exemption for a proposal of one chunk.
`Sentences` and `Said` are what the properties ask for, not code.

**VectorStore.** `rows` is `document_embeddings`; `Load`, `Filter`, `Embed`,
`AnswerLost`, `Insert`, `Crash` are the loader; a crash may leave any part of its batch
inserted (`autocommit=True`). The two queries of a load are one step. `PruneLoad` and
`PruneDelete` are the reads and the one transaction of `prune_corpus.py --apply`.
`Wide` are the headings and titles longer than their columns: an `Insert` or
`BackfillTitles` of one raises (`Fits`), the loader dies of it (`Crash`), on each run
anew. `Bodies` gives each
text its document, and `Spread` is the 100 by which `forum_chunk_index` keeps the
posts of a topic apart; `SpreadAssumption` is the comment beside it.
`paid`, `excused` and `settled` are observers for the bills.

**Agent.** `Router`, `SqlNode`, `VectorNode`, `HybridNode`, `Synthesis` are the
nodes; what models, Trino and the ranking say is chosen freely, a SQL template may
return any of its possible rows because the model may overrule the router's
filters. `rank` orders the chunks by distance, without ties. Every list of results in
the code is in that order, so inside `Search` and `FanOut` lists are sets, of which
`Nearest` is `ORDER BY ... LIMIT`, and `Listed` makes the list that the state holds.
A document belongs to one protocol (`DocumentAssumption`: a space has its own ids, and
`embeddings.py` qualifies a topic's id). The HNSW index is approximate: a ranking
(`Rankings`) orders the chunks its scan reached, which may be any of them, and filters
apply to those. What the properties say of missing passages, they say of chunks that the
index reached. The graph passes no distance cutoff and
no `as_of`, so neither appears here (`as_of` is `SearchAsOf` in `VectorStore`).

**ChatPage.** Requests are numbered in the order they are sent, and an answer is known
by its number. `chat` holds the hooks of the mounted page and `stop` (`stopRef`); a
request has its kind, the visit it belongs to, whether the page still heeds it
(`open`), the node the server completes `next`, the events in its `queue` and how
often the agent ran for it. `Ask` and `AskViaPost` are the two handlers, the enabling
conditions those of the button and the link. `NodeCompletes`, `GraphRaises` and
`ResponseEnds` are the generator in `chat.py`, `ConnectionLost` a network that fails;
`OnNode`, `OnSynthesis`, `OnErrorEvent` and `OnConnectionError` are the listeners of
`streamChat`. Events lost with a connection count as never sent. What a server does
for a closed request is not followed, since nobody sees it. Leaving the page drops
its hooks and closes no stream.

**TrinoQuery, ProposalsPage.** `Posted`, `Read`, `Retried` are an attempt, one payload
(of some rows or of none, any number of times), and the next attempt, which starts from no rows and reads the table there is by
then. A fetch is one run of the page's effect, through the route and the query down to
the promise: `Effect` is the cleanup of the last one (its reply will be ignored, so it
counts as ended) and the new request. `Arrives` and `ArrivesFailed` are `then`, `catch`
and `finally`. `read` (the versions of the table the rows come from) and `missed`
(whether a page of this list failed) are observers. The template orders by creation
time alone; times are distinct here (`DistinctTimes`), and the tie is listed as a hazard.

**Dashboard.** `OpenChat` and `OpenProposals` mount one page and unmount the other.

**Pipeline.** `run[d]` is the latest run of a DAG: its stage, the protocols
harvested, the failures so far. `TaskLosesJob` leaves a Spark job running
(`orphans`), which `OrphanEnds` may commit at any later time. An item costs one
unit; what a lost answer costs is not counted in `spent`.

## 3. Runs

A `violation` run records a disagreement between the code and what a document,
comment or test of the repository says; all others must pass.

| Run | Instance | Shows |
| --- | --- | --- |
| `http_client` | 2 threads, one token, 40 a minute, 2 attempts, Retry-After 0 or 9 with cap 2, 4 acquisitions, 40 s | `RateLimit`, `WireRate`, `SleepSuffices`, `Verdict`, `EveryRequestEnds` |
| `bronze` | 2 harvesters, one of a space with a proposal, one of that space and of a forum with a topic; 2 contents (the proposal is edited once, the topic back and forth), 2 noises | `RunAccountsForAll`, `NewestIsFetched`, `SettledStays`, `ImplementsLog`, `VersionsCaptured` |
| `silver` | proposal, topic with two posts, an unconfigured proposal; 3 objects, 2 code versions, 1 builder | `ExactlyOneCurrent`, `OneVersionAtATime`, `PureFunctionOfBronze`, `PastIsSettled`, `EveryVersionArrives` |
| `silver_overlap` | 2 builders | violation of `ExactlyOneCurrent` |
| `store` | proposal, its twin, two posts of a topic that gets a boilerplate title, one of which may get a heading too wide; 2 chunk schemes, 2 records, batches of 1, 1 lost or deleted vector | `PaidOncePerLoss`, `RerunIsFree`, `SettledIsStored`, `EverySentenceStored`, `ReferenceIsUnique`, `CurrentTextsEmbedded` |
| `store_history` | 1 loader, nothing lost | violation of `HistoryIsFaithful` |
| `listing` | 5 items at first and 2 that arrive, two created in one second twice; limit 4, pages of 2, 3 pages, 3 moves | `ProposalsComplete`, `TopicsComplete`, `ListingEnds` |
| `agent` | 2 protocols, 2 proposals (one of 2 chunks), 2 topics; every ranking of every subset of the 5 chunks | `RightPassages`, `FanOutCovers`, `NarrowedToSql`, `Grounded` |
| `pipeline` | 2 protocols, 3 items, windows of 1 and 2; the backfill retries once, the daily run not at all; ceiling 1, 1 orphan | `GreenMeansDelivered`, `CeilingHolds` |
| `dashboard` | 3 questions, 3 fetches, 3 visits; 3 proposals of 2 protocols, 2 states, pages of 1, 2 attempts, 1 change of the table | `AgentRunsOnce`, `AnswerIsToLastQuestion`, `ProgressIsTrue`, `LoadedInOrder`, `LoadingIsTrue` |
| `dashboard_stranded` | the same, 1 visit | violation of `AnswerOrRetry` |
| `dashboard_gap` | the same, 1 visit | violation of `LoadMoreReachesAll` |

`http_client`, `bronze` and `silver` also check the type invariant of their module.

Why the bounds are enough. Every race in these parts is between two actors or
between one actor and its environment, so two threads, harvesters, builders,
loaders or DAGs show it. A rate of 40 a minute makes waits fall between whole
seconds. Two contents give a version, an edit and a revert; of bronze's two entities one is
harvested by two processes that race, the other by one of them; three objects in silver
give an entity two predecessors, which is where windows can overlap, and a listing a later
object without an earlier one. The twin
shares a row with the proposal, the renamed topic enters and leaves curation, the
second scheme cuts a text differently and can be reverted. The words of the chunks
keep the order `MIN_TOKENS <= MIN_BODY_TOKENS <= overlap < target` of the code's
12, 20, 80 and 400 (`SettingsAssumption`), and the texts have a section cut in two,
a runt after and before a section, and a heading with no body. In the listing a page
boundary can fall between two proposals of one second, and three moves exceed a
page. In the agent `k`, the over-fetch and the context are each smaller than what
there is to find: five chunks against `KBroad = 3` and two fetched by fan-out. The
pipeline's backfill window reaches an item the daily window has left, and the
ceiling can be crossed by one item. The code's retries are 2 for the daily DAG and 1 for
the backfill: the instance has the backfill's, whose run has all the tasks of the other
and more; with one for each TLC has three times the states and finds nothing else, and
the theorems are for any numbers. On the dashboard three questions are a stream, the
POST that repeats it and one more; three visits leave a page and come back to it; three
fetches are two pages and one filter, or a page, its failure and the page after it; two
attempts let a query be abandoned and run again on a changed table. Lists of bounds: `MaxCalls`, `MaxTime`,
`MaxSpare` (HTTP); `MaxObjects`, `MaxCode` (silver); `MaxRecords`, `MaxWaste`
(store); `MaxMoves` (listing); `MaxItems`, `MaxOrphans` (pipeline);
`MaxRequests`, `MaxFetches`, `MaxMoves`, `MaxVisits` (dashboard; its `MaxAttempts`, like
that of the HTTP client, is a constant of the code).

Deadlock is checked except where the system really ends: one request per thread,
one listing, one question, and a tab whose requests have settled and whose bounds are
used up.

### What the violations say

* `silver_overlap`: the build that listed first merges last, and writes its older
  windows over the newer ones. The next undisturbed build repairs it.
* `store_history`: rows are inserted open and never closed, so a search as of a
  later moment finds a superseded text.
* `dashboard_stranded`: the browser's own error event has no data, so the listener that
  should report it throws; `onerror` clears the progress line. Neither answer, nor
  error, nor the retry that is shown beside an error.
* `dashboard_gap`: load-more moves the offset before the request, and a failure leaves it
  there. The next load-more fetches the page after, and its success clears the error.

Six more came up that have no run of their own, because the actors concerned are excluded
from it or because the model does what the code does. A daily harvest and a backfill of one
entity may both ask for a key before either puts it, and the second put replaces the object
with the same body and a later mtime, although `build_silver.py:12-14` says that bronze never
overwrites: an edit stored between the two puts is then older than the text it replaced, and
silver calls the wrong one current. The run `bronze` has this race; `SettledStays` says when
it is over, and `NewestIsFetched` and `ImplementsLog` leave such entities out
(with `Entities` in place of `Unshared` TLC finds both violated). Two loaders compute one work list before
either inserts, and both pay for it (`vector_schema.sql:85-86` says otherwise). A hybrid
question whose SQL returns no row is searched without a constraint
(`nodes.py:137-139`). A document of several headings without bodies yields no chunk,
while one such heading is kept as text. A heading over 255 characters makes the insert
raise on every run, and what is sorted behind its batch is never embedded
(`vector_schema.sql:55`). If an entity gets two new objects while one build lists bronze,
silver may have the second version some time before the first, and then changes what it
says of the moment between them.

### Fairness

* HTTP: steps of a thread inside a request (`requests` has a timeout, sleeps end)
  and the clock. Nothing promises that a request is made. With one request per
  thread weak fairness is enough even for competing wakers.
* Bronze, Silver, VectorStore: `WF(Start)` or `WF(Load)` is the daily schedule. The
  conjunct `[]<>` *(a run without failure)* assumes that the environment does not
  disturb every single run; without it nothing can be promised of a program whose
  every run may crash. It says nothing of which run, or of what happens between. In
  bronze such a run also had complete listings (what a listing may leave out when the
  source moves is the question of `Listing`). In the store it is assumed only if from
  some moment on everything current fits its columns (`AllFit`): while something does
  not, every run dies of it, and `CurrentTextsEmbedded` promises nothing.
* Listing: every page request returns or fails.
* Dashboard: none. Nothing in the code promises that a request ends: `fetch` and
  `EventSource` have no timeout, the agent's search in PostgreSQL has none, and the loop
  over `nextUri` has no bound. What is checked is that the page says truly whether
  something is out (`ProgressIsTrue`, `LoadingIsTrue`): every way in which a request can
  end ends its wait, and nothing else does.
* Agent and Pipeline: none; their properties are safety properties.

## 4. Proofs

For every value of the constants (`TLAPS`, Z3, Zenon and LS4):

| Theorem | States |
| --- | --- |
| `BucketTypeOK`, `BucketRateLimit`, `BucketSleepSuffices` | the bucket's types, the rate in any window, and that waits suffice |
| `HttpImplementsBucket` | a behaviour of the client is a behaviour of the bucket |
| `HttpWireRate` | the rate as the servers see it |
| `HttpTypes`, `HttpVerdict` | the client's types, that callers learn what happened |
| `BronzeTypeOK`, `BronzeSettledStays`, `BronzeRunAccountsForAll` | types, which objects a put can replace, complete reports, for any number of harvesters that may overlap |
| `BronzeImplementsLog`, `BronzeNewest` | bronze is the append-only log of what one process harvests, and its newest object is what was fetched, whatever others overwrite |
| `NoProposalIsSkipped`, `NoTopicIsSkipped` | listings without gaps, however the source moves |
| `SilverTypeOK` | types, for any number of builders |
| `OneIsCurrent`, `OneVersionValid`, `SilverIsPure`, `ThePastIsSettled` | the tables are histories and a pure function of bronze, assuming `OneBuilder` |
| `VectorsStay`, `ReferencesAreUnique` | what was covered stays, references are unique, for any number of loaders |
| `RerunsAreFree`, `VectorsArePaidOnce` | the bills, assuming `OneLoader` |
| `WindowsKeepPhrases`, `MergeKeepsWords` | the two steps of cutting that could lose words do not |
| `CutsKeepSentences` | of any document every sentence stands in a chunk that curation keeps |
| `SentencesAreStored` | every sentence of what is current is in a stored chunk, for any number of loaders |
| `PassagesAreRight`, `FanOutIsFair`, `SqlNarrows`, `AnswersAreGrounded` | what retrieval returns and what an answer rests on |
| `GreenIsDelivered`, `TheCeilingHolds` | a green run has delivered; the ceiling |
| `QuestionsRunOnce`, `AnswersTheLast`, `ProgressTellsTheTruth`, `ListIsInOrder`, `LoadingTellsTheTruth` | what the two pages show |

*The bucket.* `RateLimit` alone is not inductive: it does not know what is still in
the bucket. `Budget` adds it: what the window handed out plus what the bucket
would hold now is at most a full bucket plus the refill since the window opened.
`Take` moves a token from one summand to the other, `Tick` adds at most the refill,
and the cap only lowers the sum. `SleepSuffices` rests on the ceiling in `WaitFor`.
`WireRate` adds the tokens that threads hold but have not sent, of which there are
at most as many as threads, so the set of threads is assumed finite.

*The client.* `CallInv` says of a thread inside the loop that every attempt so far was
one request and none of them a client error or an exception that is not retried. `Verdict` is the part of it that speaks of finished calls. It needs
`WireInv`, by which a thread waits for a token only in phase `acquire`.

*Bronze.* The inductive invariant `IInv` says of each process what it has in hand:
the entity belongs to its unit and reach, and its content was fetched. From it
follow the types and that equal digests of one entity are equal contents, with the
pruned fields of the module. `SettledStays` holds of overlapping harvesters too: only
a process that is past its HEAD puts, and a HEAD that comes after the object finds it.
That nothing is replaced at all needs more: between HEAD and PUT nobody else puts the
key. `NothingToReplace` says so of the entities one process covers (`Unshared`), all of
them in the mapped tasks of one DAG run, not all when a backfill runs beside the daily
one; no theorem assumes more of the harvesters. `ImplementsLog` follows by mapping each
put of an unshared entity to `Observe` and every other step, the puts that replace an
object among them, to a stutter. `RunAccountsForAll` is proved from
an invariant (`AllAccounted`) over the units a run has finished and the entities of
the current one that are no longer in `todo`.

`BronzeNewest` relates three places: upstream, the hand of a harvester, the bucket.
`Traced` says that a content in hand or in the bucket was upstream before, so a new
edit is not there yet. `Sorted` says, of an unshared entity that never went back to an
earlier content, that the live content, and one in hand, is the newest object if it
is an object at all, and that once the live content is stored nothing else is in hand.

*Listings.* Of proposals, `SnapInv` says that what is not yet collected lies below the
cursor or has a collected twin of its second; arrivals are no older than anything,
deletions remove an obligation. Of topics, a change is a *slide*: one topic comes to the
front, every other is where it was or one place farther back, and their order is
kept (`Slides`, shown of `Arrive` and `Bump` by `ArriveSlides` and `BumpSlides`). So
`SlideInv` holds: unread topics that did not move are behind the pages that were read
and behind the read ones, and a topic that was seen is at most `moves` places behind
those pages. The last part gives that fewer changes than a page cannot fill a page with
topics already seen, which is what ends the loop.

*Silver.* First the fold by itself: of any set of observations in which no two of an
entity have one stamp, the windows of an entity follow each other, one is open,
and each moment from the first on is in exactly one. Then each table is the
fold of some objects of bronze (`Fold`), a build in progress has listed, or will
list, at least those (`Awaits`, `Underway`), since they were there when its listing began,
and merging the fold of more objects into the fold of fewer gives the fold of more
(`MergeBuilds`). A crash between the two merges leaves the folds of different sets, which
is all the invariant asks. A listing may have a later observation and not an earlier one,
so the past is settled only where the table has it all (`HasPast`): `PastOfFold` shows
that what else is listed then adds only keys the fold has, or later ones. `OneBuilder` is
needed: `silver_overlap` shows what two do.

*Vector store.* `IInv` has the key constraint, and of each loader that what it has dropped
from its work list is stored or was pruned while it ran; the covered keys
stay because an insert only adds and a prune takes what it deletes out of `settled`.
That chunk numbers of two posts of a topic never meet is arithmetic over `Spread`
(`SpreadFacts`). For the bills, `PaidInv` says that an id that waits to be paid for, or
is neither stored nor in hand, was paid for no more often than it was lost. With two
loaders this is false, as the hazard list says.

*Chunking.* `WindowsKeepPhrases` takes the window that starts last before the phrase, or
the last window. `MergeKeepsWords` says of one merging step that no piece shrinks and that
the new piece's words stand in the last. The loop over the pieces needs induction, which
the library's theorems offer only for a predicate as a parameter; `CountUp` and
`StepByStep` do it by hand: if a claim failed at some place there would be a first such
place (`LeastNumber`, from the well-foundedness of <). With them `FlattenIs` gives what flattening a
sequence of sequences holds, `SectionsAre` what the sections of a document are, `ChunksKeep`
what the merged pieces hold, and `CutsKeepSentences` puts them together: a phrase of a section
is in one of its windows, the window in a chunk, a runt beside a section above the floor
in that section's last chunk, and such chunks are above the floor themselves.
`SentencesAreStored` adds what the store does with them.

*Agent.* Places come from counting: the n-th chunk of a set is the one with n - 1 ahead
of it, and a chunk is among the nearest n if fewer are ahead. `Places` and `EveryPlace`
make this a numbering, `SearchFacts` says what a search returns or misses and why.
`Searched` says that the passages in the state are a search's, `Underway` which node
has set what; `Grounded` is inductive with them.

*Pipeline.* `OnTheWay` follows the items a run owes from task to task: each, or a newer one
of its protocol, has reached the store that the current stage reads. A retried harvest
and an orphaned Spark job only add. `Bill` explains a backfill's costs by two sets: what the
check counted, at most `Ceiling`, and what came into silver later; each item is paid
for at most once because it is then embedded.

*Dashboard.* `ChatInv`: the last request of a visit is the only one that may be open, it is
open exactly while the progress line is shown, and asking clears what was shown. Visits
are counted, so streams of an earlier visit never match. `ListInv`: only the last fetch
is heeded (`OnlyLast`); if the table has not changed since it was posted, the rows it read
are the beginning of the page that is awaited (`Live`); the rows on the page are those
before that page (`Loaded`). `LoadingIsTrue` is a part of it. Navigation is a step of both invariants.

Assumptions. On constants: the named `ASSUME`s of the modules, which TLC evaluates in
every run; they say that sizes are positive, that identifiers are distinct (`PostId`, `NoId`,
`NoContent`, the branches of the graph), and what code elsewhere guarantees
(`SpreadAssumption`, `DocumentAssumption`, `DistinctTimes`). Of single theorems:
`OneBuilder` and `OneLoader`, that is, that runs of one program do not overlap. One DAG run
satisfies them, two DAGs may not; the hazards and `silver_overlap` say what happens then.

Only model-checked: liveness (`EveryRequestEnds`, `VersionsCaptured`,
`EveryVersionArrives`, `CurrentTextsEmbedded`, `ListingEnds`), which is beyond
these provers. Every other
invariant and action property of the passing runs is proved. `SelectSeq`, `SortSeq` and
`Remove` say nothing to the provers, which is why lists in `Agent`, `ProposalsPage`
and `Listing` are defined by place.

## 5. Not modelled

* HTML-to-text cleaning, optional columns and token counting: data.
* Rendering and quoting of SQL; the templates other than the list's, of which `Agent`
  takes any result.
* The LLM client: one request through the HTTP client, sequential, with unit tests. The
  lazily created clients (two threads, two buckets) and the unlocked usage counter are
  listed as hazards.
* The detail, history and health routes and the detail and history pages: one query and
  one fetch each, no state. The title filter works on rows already loaded.
* Distance cutoffs of `search`, which the graph switches off, and how much of the chunks the
  HNSW index reaches, which is a matter of measurement.
* Rounding of floats in the token bucket (section 2).
* The command line, argument parsing and printing around what is modelled.
* `restore_fixture.py` and evaluation scripts: operator tools.
* Two puts with one mtime, and equal stamps in silver.
* A change of the configured protocols between runs (listed as a hazard: posts of a
  removed host make the loader raise).
* Deletions upstream: an entity that disappears keeps its last version current, in
  the code and in the model; no document promises otherwise.

## 6. Plan

Done, in the order of importance of what can be lost: HTTP client and bucket;
bronze and its refinement; silver; vector store and chunking; listings; agent;
pipeline; dashboard with the chat stream and the Trino query.

The safety properties of all of them are proved (section 4).

Left to model: the subset of protocols of a backfill; delivery of items as a liveness
property of a smaller pipeline; the lazily created clients of the API's threads.
