# A TLA+ model of the StatsPlus backend

This directory holds TLA+ modules for the parts of the StatsPlus backend where
several processes share durable state, the TLC configurations that check them on
small instances, and TLAPS proofs of their main invariants. Every definition is
translated from the source; `PROJECT.json` maps each one to its lines and lists
the components, runs, mutants, findings, hazards and theorems.

    tlc -workers 2 -config MCRefreshJobs.cfg MCRefreshJobs     # one run
    tlapm RefreshJobsProofs.tla                                # one proof module

## 1. The system

A Flask application is served by pre-forked Gunicorn workers, each with a few
threads and its own connection pool. All durable state is in one SQL database
(PostgreSQL in production); Redis, where configured, holds caches and short
locks. Around it run

* **scheduled commands** (nightly ledger run, composition, injuries, odds,
  projections, on/off warm), each a process of its own against the database;
* **the residential collector**, a client program on another machine: it polls
  `/collector` routes for instructions, fetches provider data, keeps it in a
  local SQLite outbox and uploads it;
* **operators**, who activate streams, cut seasons over, roll back and repair
  through commands and admin routes.

Two generations of data path coexist. The *legacy* path replaces whole tables:
a refresh job fetches frames and swaps tables in one transaction. The
*database-first* path stores observations and canonical games, composes
immutable *publication versions* of *streams* from them and moves one *pointer*
per stream. Once a stream is activated, the legacy path must stop writing the
table it supersedes: that is where the two meet.

    collector outbox --upload--> observations --enqueue--> composition jobs
                                                                |
    game ledger --corrections, materialisation------------------+--> versions, pointers --> readers
                                                                          |
    refresh jobs --swap tables (fenced by activations)--> legacy tables --+

### Inventory

The state each component keeps, what it does, who it meets and what makes it
correct. *Modelled* components name their module.

| component (main source) | state | operations | interacts with | hard behaviour | correct when |
| --- | --- | --- | --- | --- | --- |
| **Durable refresh jobs** (`job_service.py`, `table_publisher.py`, `data_service.py`) — `RefreshJobs` | `data_refresh_jobs` rows (status, owner, lease, attempt), executor, heartbeats | enqueue, dispatch, claim, heartbeat, progress, publish, finish, fail | every worker process polls the same rows; activations fence tables | leases expiring under live handlers, stale clock reads, lost results, restarts | a superseded attempt publishes nothing, results are final, every job settles |
| **Publication pointers** (`PublicationService` of `collection_control.py`, `serving_season.py`, `ledger_materialization.py`) — `PublicationPointers` | streams, versions, pointer + fence, pointer history, cutover records, repair groups | compose (ledger, observed), hold, correct, activate, cut over, revert, roll back, promote, repair, prune | composition jobs, ledger, operators, readers | sequences of legal moves; compositions prepared before another move; retention between a cutover and its revert | what is served exists, is current, was not rejected, and moves season only by decision |
| **Observation ingestion and composition jobs** (`ObservationIngestionService` and the job half of `PublicationService`, `ledger_runtime.py`) — `CollectionIngest` | manifests, identity leases, observations, receipts, composition jobs | issue, close, ingest, enqueue, claim, compose, mark failed, retry, reconcile | collector clients, composers, publication pointers | one request outliving its lease, replay and conflict in two workers, row locks across services | one observation per identifier, commits in lease order, no accepted observation forgotten |
| **Residential collector** (`app/collector/`) — `ResidentialOutbox` | SQLite outbox, process lease, cached instructions | discover, fetch, store, drain, prune | ingestion routes | lost receipts, two invocations, outbox at its limit, permanent refusals | nothing stored is lost before a matching receipt or a closed manifest |
| Canonical game ledger and correction queue (`canonical_game_ledger.py`, `ledger_*.py`) | accepted games, observations, correction and job rows | accept, correct, stage, backfill | pointers (through jobs) | out-of-order observations, coalesced corrections, interrupted backfill | the newest evidence of a game wins and every correction reaches its jobs |
| **Sportsbook odds collection** (`odds_collection.py`, `odds_schedule.py`, `sportsbook_quotes.py`) — `OddsCollection` | lease row with a fence, quota and tier, poll ledger, quotes | beat: acquire, list, plan, guard, call, ledger, store | paid API, other users of its key | a beat resuming after its lease was taken, a crash between a paid call and its ledger row, postponed games | no slot bought twice, no call below its floor, the budget never too low, quotes never go back |
| **DFS projection collection** (`projection_collection.py`) — `ProjectionArchive` | lease row with a fence | cycle: acquire, fetch, record, close started games | archive, provider cache | commits after the lease is lost | evidence is promoted in the order it was retrieved |
| **Projection archive and retention** (`projection_archive.py`, `projection_retention.py`) — `ProjectionArchive` | polls, snapshots, generations, observations, Latest, closing sets | ingest, confirm, replay a mapping, freeze, prune | projection collection, operators | deletion in batches beside the collector's writes; a freeze after the window | every row a pointer, a closing set or a replay reads is kept |
| DFS snapshot cache (`dfs_snapshot_cache.py`) | in-process flights, Redis values | read, join flight, fetch, publish, discard | provider, other processes | a flight registered after another retired | one provider call per miss; unusable bytes never displace usable ones |
| On/off throttle (`on_off.py`) | Redis slot and reservation keys | claim, reserve, release | requests and the warm job | the slot claimed between reservation and claim | a holder never deletes another's lease |
| Matchup reuse, NBA response cache (`matchup_reuse.py`, `nba_cache.py`) | snapshots under a generation | read generation, capture, reuse | pointers | a pointer moved between the two reads | a reused snapshot belongs to its generation |
| Database-first activation and readers (`database_first_*.py`, `request_reads.py`) | activation rows (in `RefreshJobs` as `activated`) | activate, read, drill | pointers, refresh jobs | activation racing a legacy publication | a superseded table is never written |
| Matchup publications, traditional opponents (`ledger_matchup_materialization.py`, …) | versions of those streams | derive windows | pointers | one window of a family moving alone | the family is of one generation |
| Athlete and event mappings (`*_mapping_repository.py`) | identity lock rows, observation clocks | resolve, observe | catalogs | two creators of one lock row | the clock of an identity only advances |
| Closing lines backfill (`closing_line_backfill.py`) | purchase ledger | run, resume, re-resolve | paid API | a crash between a purchase and its use | a recorded game is never bought again |
| Injuries, rotations, segments, tracking | one table each | upsert per record | providers | none shared | parsing is right |
| Usage events | bounded queue | record, flush | requests | full queue | requests never wait for it |
| Collector tokens, alerts, garbage collection | control rows | issue, revoke, alert, delete | ingestion | — | consumed rows only |
| Natural-language query and LLM budget | daily counter | parse, call | external service | — | — |
| Scoring, boards, reports, routes | none | compute, format | readers | — | arithmetic |
| Provider adapters | sessions | fetch, parse | network | — | parsing |
| Migrations, settings, scripts, analysis | schema | DDL, configuration | all | — | — |

`PROJECT.json` lists under "hazards" where each of these is exposed, at its
line, with the property that would notice, or a note where none does yet.

## 2. Modules

| module | content |
| --- | --- |
| `RefreshJobs` / `MCRefreshJobs` / `RefreshJobsProofs` | refresh jobs: specification, instances, theorems |
| `PublicationPointers` / `MCPublicationPointers` / `PublicationPointersProofs`, `PublicationAuthorityProofs` | the publication control plane; the proofs in two layers: the pointers, and what may become authority |
| `CollectionIngest` / `MCCollectionIngest` / `CollectionIngestProofs` | ingestion and composition jobs |
| `ObservationStore` | abstract specification of acceptance: what a collector may rely on |
| `ResidentialOutbox` / `MCResidentialOutbox` / `ResidentialOutboxProofs` | the collector's outbox, process lease and run loop, over an unreliable channel to the store |
| `OddsCollection` / `MCOddsCollection` / `OddsCollectionProofs` | the odds beats: lease, schedule, credit budget, poll ledger |
| `ProjectionArchive` / `MCProjectionArchive` / `ProjectionArchiveProofs` | projection cycles, the archive, mapping replay, closing sets, retention |
| `FiniteLemmas` | facts several proofs need: a finite set of numbers has a largest and a smallest element, running sums exist and compare as what they add |

They meet at narrow interfaces, each present on both sides. An *activation* is
`ActivateStream` in `PublicationPointers` and `Activate(t)` in `RefreshJobs`. A
*composition* is one transaction in `CollectionIngest` (`Claim`, `ReadEvidence`,
`Finish`) and `Prepare`, `ComposePrepared` in `PublicationPointers`, where
evidence is read before the stream lock is taken. An *upload* is a request of
`CollectionIngest` on the server and `Upload`, `AcceptUpload`, `ReplayUpload`
and the other answers in `ResidentialOutbox`: `ObservationStore` is what the first promises (the property
`ImplementsStore`, proved in `IngestionIsAStore`) and what the second is built
from (its server actions contain the store's `Accept` and `Replay`). So the
client is checked against the abstract store and not against all the
interleavings inside the server.

### 2.1 RefreshJobs

*State.* One row per job (`status`, `owner`, `left`, `attempt`, `operation`); per
dispatcher thread the scan of `dispatch_once` (`scanPc`, free slots `room`,
candidates `todo`); per claim a *run* (`runPc`, its owner, its heartbeat, its
`frames`); the committed publications `pubs`, the `activated` tables and the
start number of each process. Time is a countdown: `left[j]` is the lease's
remaining ticks, and `scanLate`, `txLate` count the ticks since a thread read
the clock it is going to compare with. So a stale clock read is a state and not
an assumption.

*Actions.*

| action | code |
| --- | --- |
| `Enqueue` | the enqueue with its one-active-job-per-operation rule |
| `ReadCapacity`, `Inspect`, `ClaimExhausted`, `ClaimChecked`, `ClaimRow`, `ClaimMissed` | `dispatch_once`: slots, candidate query, the attempt-limit update and the claim as separate statements |
| `Begin`, `Heartbeat`, `Progress`, `Stage`, `HandlerError`, `PublishNothing` | a run: first renewal, heartbeat thread, handler stages, partition of frames |
| `FencePublication`, `CommitPublication`, `AbortPublication` | the publication transaction: lease renewal and final activation fence, swaps and commit |
| `Complete`, `Finish`, `Fail` | terminal updates, conditional on owner and attempt; a failed one leaves the row running |
| `Activate`, `Restart`, `Tick` | a stream superseding a table, a process replaced with all its threads, the clock |

While a publication transaction is between its renewal and its commit it has the
job row locked (`RowLocked`), so other statements on the row wait. Contents of
the frames are abstracted to table names; the progress fraction, the admin
listing and the graceful-shutdown flag are left out.

### 2.2 PublicationPointers

*State.* Per stream a record: enabled, fence, active and previous version, the
versions (season, cutoff, status, evidence, origin of a clone, whether live) and
the pointer history with its revoked and retired marks. Besides: the current
source of each ledger item, prepared compositions of the workers, cutover
records, repair groups, and two history variables (`corrected`, `rejected`) that
record what a property must not see again.

A *source* is an item (a season and cutoff) with a replacement number; a
version's *evidence* is a set of sources. A correction is a composition whose
`fixed` sources replace older ones.

*Actions.* `ReplaceSource`; `RecomposeLedgerBatch`, `RehearseLedger` (ledger
compositions, with `Held`, `Hold`, `Advance` and `Invalidate` as the branches of
`_compose_active_in_session` and `compose_inactive_ledger`); `Prepare`,
`ComposePrepared`, `AbandonPrepared` (observed streams: read, then lock and
check the expectation); `ActivateStream`, `EnableStream`; `CutoverSeason`,
`RevertCutover`; `RollbackStream`, `RollbackFamily`; `PromoteFamily`;
`DeclareRepair`, `PromoteRepair`; `PruneHistory`. Each is a whole transaction:
writers lock the stream rows they touch, so inside a transaction nothing
interleaves; the steps of an observed composition before its lock are separate.
Payload validation and parity evidence can only refuse, so they appear as the
freedom not to take an action.

### 2.3 CollectionIngest

*State.* Manifests (absent, active, superseded) and which have passed
`collect_before`; the identity lease of each collector (held, live, fence); per
handler the request it serves; accepted observations and the fence they
committed under; receipts clients received; the job of each stream (status,
manifest, generation); per composer its claimed slice and the evidence it read;
rows an operator's retry has read but not yet written.

*Actions.* `Receive`, `AcquireLease`, `LeaseBusy`, `RefuseClosed`, `Replay`,
`Conflict`, `Check`, `Insert`, `LockJob`, `FindNoRow`, `LookAgain`,
`JoinExisting`, `CreateJob`, `CreateRace`, `Commit`, `CommitJoined`,
`StaleLease`, `Release` are the steps of one upload, split at each statement
another session can observe. The job row is looked for three times, each time
in a newer snapshot: locked if it is free (`LockJob`), taken for held if it
appears at the second look (`LookAgain`), returned as it is if it appears at the
third (`JoinExisting`), and otherwise created, unless somebody else committed it
first (`CreateRace`). The history variable `missed` collects the observations
that `CommitJoined` stores too late for a composition (`TooLate`) until another
composition reads them. `Die` and `ExpireLease` end requests and leases at
any step. `Claim`, `ReadEvidence`, `Finish`, `RollBackSlice`, `MarkFailed`,
`ComposerDies` are `compose_queued`; `RetryRead` and `RetryWrite` the unlocked
retry; `ReconcilePending` the nightly reconciliation; `ScopedRepair` an operator's
repair of one stream, whose job names no manifest. Row locks are derived from
program positions (`LockedByHandler`, `LockedByComposer`) and not stored.

Left out of this module: catalog ingestion, jobs of ledger streams with their
game lineage, garbage collection of observations, repair groups of jobs.

### 2.4 ResidentialOutbox

*State.* At the server: the status of each instruction, which deadlines have
passed, the observations stored and the receipts issued. On the client's
machine: the rows of the outbox, which of them are beyond retention, the
instruction cache and the process lease. Per invocation: its step, the rows its
drain has read and the result so far; and the uploads in flight.

*Actions.* The run loop (`runner.py`) is split where another invocation or the
server can act: taking the lease, one upload (sent, arriving now or after the
client gave up, answered, lost, busy, refused), discovery, the pruning that a
newer cutoff allows, collecting one row within the outbox's budget, draining
after each row, and the exit. Leases expire under a live run because nobody
renews them; a crash leaves the lease. Server and deadlines move on their own.

Two facts met while modelling, neither of which a document contradicts: a row
that the server refuses for good (its manifest has expired, which the routes
answer with 404) ends every later run in its first drain (`runner.py:556`), so
nothing is discovered until retention removes the row. `DiscoveryUnlessRefused`
states exactly this exception. And while manifests are visible the instruction
cache is never written, because a manifest's `repair_group` is not among the
fields `InstructionCache` allows.

Left out: the rehearsal command, status reports, payload normalisation,
revocation of credentials in the middle of a run. All refusals are one answer:
those of a closed instruction, and those that can meet an open one
(`observation_race`, `stale_lease`).

### 2.5 OddsCollection

*State.* The clock and the credits left at the provider; the lease and its
fence; tier, backoff and the last quota reading; the poll ledger; the quotes
shown; per worker the beat it is in, with its plan, the call in flight and the
time its answer came.

*Actions.* `Begin` takes the lease under a new fence, the free list reports the
quota, `Plan` computes due slots, budget and tier in one transaction, `Dispatch`
applies the guard to the next call, the provider serves it and may fail, the
poll is written to the ledger, its quotes are stored, and the beat ends. Crashes
and lease losses are possible between any two of them; other users may spend
credits; a tip may be postponed. The schedule of `odds_schedule.py` is
translated as operators on the configured windows, so that the budget is
compared with what the beats really buy.

Observations: a poll tagged `final` that is received inside the closing window
suppresses the closing snapshot (`_populated_in`, `odds_schedule.py:78`). A close
within an hour of a delayed tip counts for `_upcoming` but not for
`_event_states`: exception 3 of section 4. The history variable `budget`
holds, per game, what is left of each count that a plan made of its paid calls; a change of the tier or the tip
clears it, because the code counts anew then. Left out: the monthly reset of the
quota, answers without quota headers, the matching of names, and the PrizePicks
feed.

### 2.6 ProjectionArchive

*State.* The lease; a cycle per worker with the evidence it fetched; every poll
and generation ever written, and `live`, the ids of the observations,
generations, polls and snapshots that still exist, so that what pruning forgets
can be compared with the full history; the Latest lines, the active generation,
the marks of the mapping replay, the closing set, and the retention run.

*Actions.* `Begin`, `Fetch`, `FetchCached`, `FetchFails`, `Admit`, `Record`,
`RecordFault`, `RecordFailed`, `LeaseLost`, `Freeze` are a cycle
(`ProjectionCollectionCoordinator.run`). Every archive transaction holds the
scope lock and is one step, but it is *not* fenced by the lease: a cycle may
stop after `Admit` and commit ticks later, when others have polled, failed or
promoted. `Decide` and `ReplayMapping` are an operator's decision. `BeginPrune`
and `PlanParents` read outside the lock; `PruneRows` (one batch per
`observed_at`) and `PruneParents` (generations, then polls, then snapshots)
delete under it with the checks of the code as guards; `StopPrune` is a crash or
a refused batch.

A board is complete or partial and names references; of a reference matter its
market and whether its athlete is resolved. A cycle that is killed is one that
takes no further step. The renewal after a recording is taken with it. Left out:
the cadence (when a cycle is due is open), several providers, games and scopes
(locks and rows are per scope), existing replay generations, the dry run, the
exempt provider and the nightly approval.

## 3. Runs

| run | question | result |
| --- | --- | --- |
| `refresh_jobs` | Do publication order, final results, success-means-published and the activation fence survive expired leases, open transactions and restarts, and is every accepted job recorded as succeeded or failed? | holds, 314,952 states |
| `refresh_overclaim` | Does only a worker that stopped renewing lose its row? | violated: finding 1 |
| `pub_repair` | Does a late composition ever replace newer evidence, does a repaired defect return? | holds, 338,562 states |
| `pub_family` | Over two seasons with a corrected game, cutover, revert, rollback and pruning: is what is served servable, corrected and not rejected, are restore targets kept, do family and season move together, do uncorrected trailing streams wait? | holds, 127,845 states |
| `pub_trailing_correction` | Do trailing streams wait for their Readiness Rule when corrections happen? | violated: finding 2 |
| `pub_self_rollback` | Is rejected content gone for parity streams too? | violated: finding 3 |
| `ingest_races` | Do leases, unique keys and row locks keep commits in order, receipts true and successes complete, does acceptance implement `ObservationStore`, and is accepted evidence composed or its job marked failed? | holds, 828,627 states |
| `ingest_superseded_manifest` | Has a succeeded job composed the active manifest's evidence? | violated: finding 4 |
| `outbox_overlap` | Is anything lost, a live lease taken or a success reported too early when two invocations drain one outbox? | holds, 1,857,679 states |
| `outbox_delivery` | Are rows of open instructions stored and acknowledged unless a newer cutoff governs them, and open manifests found? | holds, 97,620 states |
| `odds_collection` | Are slots bought once, floors kept, the budget never too low and the quotes shown never older? | holds, 1,554,417 states |
| `projection_archive` | Does retention keep what pointers and late freezes read, does promotion keep the order of retrieval, does a recovered line stay? | holds, 882,355 states |

### Properties

* `PublishedInOrder`, `SettledIsFinal`, `SucceededPublished`, `NoSupersededTable`
  (RefreshJobs): a handler that lost its lease cannot swap tables over newer
  ones; a recorded result is never overwritten; success means the recorded
  attempt published; no commit contains a table superseded before it.
* `ActiveIsServable`, `AuthorityKept`, `CorrectionsHold`,
  `RejectedContentStaysGone`, `SeasonMovesTogether`, `FencesAdvance`,
  `CompositionsFresh`, `FamilyMovesTogether`, `TrailingWaits`
  (PublicationPointers): see the comments there, which quote the sentences of
  `docs/ARCHITECTURE.md` and of the code that each one states.
* `FencedCommits`, `SucceededCoversManifest`, `ImplementsStore`
  (CollectionIngest): order of commits, completeness of a success (exception 4 of
  section 4), and the
  refinement of `ObservationStore` (stored are the accepted envelopes, receipts
  those that clients were given). What `ReceiptsMatch` says, one observation for
  an identifier and receipts only for stored payloads, is part of the
  refinement; it is a theorem of its own.
* `NothingLost`, `LeaseCovers`, `CompleteMeansSent` (ResidentialOutbox): an
  envelope leaves the outbox only when it is stored or older than a governed
  cutoff; a lease that has
  not expired stays with its run; exit code 0 leaves nothing to send.
* `BudgetNeverLow`, `SlotBoughtOnce`, `FloorKept`, `ShownInOrder`
  (OddsCollection): the paid polls of a game stay within what every earlier plan counted for
  it; one ledger row per slot; every paid call leaves its floor; a late store
  never overwrites newer quotes.
* `PointersResolve`, `ReplayKept`, `LatestIsReplay`, `PromotedInOrder`,
  `RecoveryKept` (ProjectionArchive). `ReplayKept` compares the closing replay
  of the rows that are left with that of everything ever promoted;
  `LatestIsReplay` compares two algorithms of the code, the incremental Latest
  and the closing fold.
* `EveryJobSettles`, `AcceptedSettles` (every stream is again and again free of
  uncomposed accepted evidence, or its job failed; exception 4 of section 4),
  `OpenRowsDelivered` (a spooled envelope is stored by the server and leaves the
  outbox, unless its instruction closes or a newer cutoff governs it),
  `DiscoveryUnlessRefused`: liveness.

`UncorrectedTrailingWaits` is the part of the Readiness Rule that holds: a
trailing stream that no correction cleared waits. The whole sentence is
`TrailingWaits`, finding 2. `ReplayKept`, `LatestIsReplay`, `BudgetNeverLow` and
`SucceededCoversManifest` have an exception each, which section 4 explains.

Each property of a passing run has a *mutant*: a plausible bug of the mapped
code (a fence that checks the lease only, an unlocked row, a hold that forgets
the Readiness Rule, a rollback without its mark, retention without restore
targets, a replay that matches any payload…) under which TLC must find the
property violated. The mutated forms stand next to the definition they replace.

### Bounds, and why they are enough

*RefreshJobs.* Two processes with one dispatcher thread each, one executor slot,
lease of one tick, `MaxDelay` of one tick between reading the clock and using
it, one restart per process. `MaxClaims` 3 exceeds `MaxAttempts` 2, so a row is
claimed, reclaimed, and closed as exhausted. One job row is enough for the
interference of attempts; a re-enqueued job of the same operation is covered by
the theorem `PublicationsInOrder`, which has no bound. `refresh_overclaim` needs
two dispatcher threads and two jobs. One tick is the shortest lease that can
still be renewed in time, and a longer one adds no order of expiry, renewal and
claim that one tick with delay lacks.

*PublicationPointers.* Two seasons, two cutoffs (before and at the Readiness
Rule), one replaced source, one cutover, one repair group. Streams may have
three versions (the leader two), enough for a served, a previous and a
corrected or cloned one. The observed streams need two workers, so that one
composition is prepared while another commits. Each run takes the kinds of
stream its question needs, since kinds interact only through the leader's
published season, a family or a repair group.

*CollectionIngest.* Two handlers in two processes (two threads of one process
exclude each other by the process's own lock) and one of three workloads, the
one of the manifest that is issued (`MaxIssued` 1): two observations of one
collector, two payloads of one collector under one `client_observation_id`, or
one observation of each of two collectors. A collector that sends two has two
lease grants, so that an expired holder and its successor coexist; the two
collectors hold their leases at once, so that their transactions meet at the job
row. More grants and envelopes are covered by the theorems, which have no bound.
Two job generations. Handlers may die at any step; the composer may crash once.
`ingest_superseded_manifest` issues two manifests.

*ResidentialOutbox.* `outbox_overlap`: two invocations, a manifest and the one
of a newer cutoff that supersedes it, an envelope of the older one, one crash or
expired lease. `outbox_delivery`: one invocation at a time, a bootstrap request
and a manifest of a newer cutoff with an envelope each, and a budget of one row,
so that the outbox is full whenever it is not empty. An upload waits for a busy
server once.

*OddsCollection.* Two games, two beats, a polled window with two slots and a
closing window that wants one poll, credits for three calls, one mishap out of a
crash, an error, a credit spent elsewhere and a postponement. A lease of one
tick with one beat per tick mirrors the five-minute lease and the five-minute
cron: a beat that takes longer than one tick overlaps the next. A postponement
is larger than the hour that `_upcoming` forgives.

*ProjectionArchive.* Two workers and three cycles, one failure; two boards, a
complete one with an unresolved line and a partial one with a repost of the
other line; three instants with the tip at the second and a window of zero
ticks, so that rows of the first two instants expire before a freeze at the
third. `MaxCycles` bounds the fence and with it polls and generations.

Symmetry is used for processes, composition workers, invocations and beats where no
constant tells them apart and the run checks no liveness. Deadlock checking is
off for `PublicationPointers`, `CollectionIngest`, `OddsCollection` and
`ProjectionArchive`: with every bounded resource (clock included) used up they
may rightly stop. It is on for `RefreshJobs` and `ResidentialOutbox`.

### Fairness

* `refresh_jobs`: weak fairness of each dispatcher's steps (the poll loop of
  a live process, which is restarted when it dies), of each run's own steps
  (an executor thread keeps running what it was given) and of the clock.
  Heartbeats, restarts, errors and activations are never required.
* `ingest_races`: weak fairness of the end of a request's transaction, once it
  holds or has found its job row (nothing is left to wait for), and of the
  composer (`compose_queued` is scheduled). Earlier steps of a request, uploads,
  retries, reconciliation and lease expiry are never required.
* `outbox_delivery`: weak fairness of the invocation (the scheduler keeps
  starting runs and a run keeps going) and of the expiry of a crashed run's
  lease; strong fairness of token, discovery, storing and receiving the receipt:
  a server that is asked again and again answers some day, though any single
  request may be lost, late or met by a busy server. Issuing, expiry of
  instructions, ageing and crashes are never required.

## 4. Findings

1. **A live worker's queued claim is reclaimed** (`refresh_overclaim`).
   `dispatch_once` counts free slots before it claims; the poller and a request
   thread can both count the same slot. The second run waits in the executor's
   queue without a heartbeat, its lease expires and another process claims it,
   although the comment says only a worker that stopped renewing leaves a row.
   The publication fence still keeps results in order (`refresh_jobs`).
2. **A correction lets a trailing stream skip its Readiness Rule**
   (`pub_trailing_correction`). The holds look only at bound pointers; a
   correction of the earlier season that a trailing stream still serves clears
   its pointer, and the next composition of the published season takes it.
3. **A parity stream can become its own rollback target** (`pub_self_rollback`).
   `activate_stream` accepts a version that is already active, makes it the
   previous one too, and a rollback then rejects it and serves its clone.
4. **Evidence of a superseding manifest may stay uncomposed**
   (`ingest_superseded_manifest`). A job queued for the old manifest keeps that
   binding when evidence of the new one arrives, composes the old evidence only
   and ends succeeded; reconciliation requeues failed jobs only.

`PROJECT.json` has the exact lines and quotations.

Four properties hold with an exception that the code forces; no run of the
project checks the whole sentence. TLC gives a counterexample to each sentence
without its exception.

1. *An emptied board is not kept for a late freeze* (`ReplayKept`). A prune finds
   the games whose replays it spares by their expired rows
   (`projection_retention.py:465`). A Complete board that no longer lists the game
   has no row; when it is deleted, a later replay starts from an older board and
   brings back a line that it had cleared. `docs/ARCHITECTURE.md:982` says that a
   late freeze reads identical rows. (With the boards `{raw}` and `{}`, both
   Complete, in the instance of `projection_archive`.)
2. *A recovered line hides, or is hidden by, its twin* (`LatestIsReplay`). The
   mapping replay writes its Latest row as confirmed when it was first observed
   (`projection_archive.py:2204`), although later polls confirmed it. When the
   player's market is also listed under a resolved reference, Latest serves that
   line alone and the closing fold serves both. (With one partial board of the two
   references on one market.)
3. *A small delay after the closing poll is not budgeted* (`BudgetNeverLow`).
   `_upcoming` takes a game as closed for any tip within an hour of the closed one
   (`odds_collection.py:708`), `_event_states` for that very tip only (660). The
   plan polls the delayed game again, against a count of no calls, where
   `_paid_calls` says it never counts low (`odds_schedule.py:207`). (With
   `Postponement = 1`.)
4. *An upload may join a job without its lock* (`SucceededCoversManifest`,
   `AcceptedSettles`). `enqueue_for_observation` looks for the job row twice, and
   `enqueue` a third time; a row that another collector's request, or a repair,
   commits between the last two looks is returned unlocked
   (`collection_control.py:5652`). The comment at 5701 says that holding the row
   until the acceptance commits orders it with a composition; here a composer may
   claim the row, read its evidence and succeed while the upload is still to
   commit. What such an upload stores is in `missed` until another composition
   reads it. (Without `\cup missed`, in the instance of `ingest_races`.)

### Merged steps and stricter guards

Where a definition is coarser or stricter than the lines it stands for:

* `RefreshJobs`. `Owned` compares with the clock of the UPDATE, which the code
  reads just before it (`job_service.py:732`); the stale reads that decide a claim
  or a publication are states. `ClaimRow` takes the slot with the claim, where
  `_submit_claimed` counts it after the commit (525).
* `PublicationPointers`. `DeclareRepair` names the served version and its fence,
  where `_bind_repair_group` asks for a version of the season that exists. A pair
  that is not served can be promoted only once it is, and the model may declare
  it then. Versions of a stream are ordered by creation; the code numbers a
  rollback `current.version + 1`, which may repeat the number of a candidate.
  The lineage check in `PromoteFamily` is the caller's `validate_family`
  (`traditional_opponent_rebuild.py`), not a line of `promote_publication_family`.
* `ResidentialOutbox`. All refusals set the same failure. The server's answer for
  an expired instruction reaches the runner as a code outside
  `DEFERRED_FAILURES` (`runner.py:30`), so only the deferrals that the runner
  finds itself are told apart from failures.
* `OddsCollection`. `Receive` writes the poll's ledger row and the quota reading
  in one step; `_run_locked` saves them one after the other.
* `ProjectionArchive`. `FetchCached` repeats evidence that was recorded; the
  cache is written at the fetch, so a snapshot that its cycle never recorded could
  be repeated too. `ReplayMapping` keeps a line's market, which the code computes
  anew (`projection_archive.py:2335`); it can change for providers without a
  `market_id`. `PlanParents`, and the batch of one `observed_at` in
  `PruneRows`, are one step each of what the code reads in several statements
  outside the lock (`projection_retention.py:463`, 539); each deletion repeats its
  checks under the lock.

## 5. Proofs

TLC explores the instances above; the theorems hold for every value of the
constants that the named assumptions admit. All inductive invariants have also
been checked by TLC on the small instances.

**RefreshJobsProofs** (assumption `RefreshAssumption`: bounds are naturals,
lease, limit and attempts positive, `TablesOf` total). Theorems `TypesHold`,
`SucceededHasPublished`, `PublicationsInOrder`, `PublicationsWritable`,
`ResultsFinal`. The inductive invariant is `TypeOK` with four parts:

* `RowInv` — rows are enqueued in order and earlier rows of an operation are
  settled. Needed because order *across* re-enqueued jobs follows only from the
  one-active-row rule.
* `RunInv` — a run's attempt is at most its row's, and a run inside the swap
  transaction is the current attempt of a running row, with no activated table
  among its frames. This is the fence's meaning, and it is preserved only
  because the row lock excludes claims and the activation fence excludes
  activations while a run is swapping.
* `PubInv` — only a handler past its swaps has published, and one that may
  record success has published or had nothing to publish.
* `ScanInv` — a scanning dispatcher has a candidate left.

**PublicationPointersProofs** (assumptions `StreamSets`, `Bounds`). Theorems
`TypeCorrect`, `ActiveServable`, `AuthorityRetained`, `FencesOnlyAdvance`. The
argument is per stream: `StreamOK` says a stream's pointer names live versions
with a servable status and its history has unique fences not beyond the
pointer's; `StreamStep` says what one transaction may do to one stream (fences
do not fall, a new target has a new fence, live versions stay, history only
gains marks). Each helper (`Advance`, `Hold`, `Invalidate`, `RollBack`,
`Restore`, …) is a lemma that takes `StreamOK` to `StreamOK` by a `StreamStep`,
and steps compose. `CutoverInv` ties cutover records to past fences: while a
record is reversible no fence has moved, therefore its restore targets were not
deleted; without it `AuthorityKept` is not inductive, since a revert needs the
targets that only retention could remove. `PreparedInv` and `RepairInv` type the
records that later actions use.

**CollectionIngestProofs** (assumption `IngestAssumption`; an identifier belongs
to one collector). Theorems `TypesHold`, `ReceiptsNameStored`,
`SuccessCoversManifest`, `CommitsFenced`, `IngestionIsAStore`. The parts of the
invariant:

* `KeyInv` — a request that inserted its row found no committed row of the key
  and no two such requests coexist: the unique index, without which receipts
  are not preserved by a commit.
* `FenceInv` — no fence exceeds the lease row's, no two granted requests share
  one, and a request that may still commit has not committed under its fence.
  The lease check at commit then gives strict order.
* `JobInv` — a row locked by a composer is queued for that composer's manifest,
  is not being written by a handler, and the evidence read is all there is but
  for `missed`. This is what the shared row lock buys: only an upload that joined
  the row without locking it can add evidence while it is composed, and
  `JoinedStep` shows that it is in `missed` then.
* `ItemInv` — a busy handler has an envelope.

`IngestionIsAStore` is the refinement: under the mapping of stored to the
accepted envelopes and of receipts to those given to clients, initial states map
to initial states of `ObservationStore`, a `Commit` is an `Accept` because of
`KeyInv`, a `Replay` is a `Replay`, and every other step stutters.

**PublicationAuthorityProofs** (the same assumptions; extends the former).
Theorems `CorrectionsStay`, `RejectedNeverServed`, `TrailingStreamsWait`,
`SeasonsMoveTogether`, `ComposedFresh`, `FamilyCoupled`. Together with the
theorems above they cover every property that a passing run checks of the
publication control plane. The invariant `AInv` follows the content of the
versions; `ContentOK` is its part for one stream:

* `RowsOK` — what the pointer names has a history row that is not revoked (the
  rollback target a row), and no version with a row is a candidate. Without it a
  cutover could take a version that had served and was rejected.
* `EvidenceOK` — a version cites sources of its own season that are not newer
  than the current ones. That is what makes a composition from current sources
  newer than anything it replaces.
* `CorrectedOK` — nothing that a reader or a writer may still take cites a
  withdrawn source, and a rollback target that does is itself withdrawn.
* `RejectedOK` — the versions that can never serve again are the rejected ones
  *and* those a rollback has cloned (`Spent`). `RejectedContentStaysGone` alone
  is not inductive: a rejected version's clone, or a version whose clone was
  rejected, could come back by a second rollback. Both are superseded, are
  neither served nor the rollback target, and nothing was cloned from a rejected
  one.
* `WaitsOK` — every row that first served a later season was ready or activated,
  and a trailing stream without corrections has lost no pointer. Finding 2 is
  this clause's exception.

`RecordOK` says what a revert relies on while its record is reversible (the
pointer is where the cutover put it, the restore targets are not spent and
withdrawn if corrected), `PreparedOK` what a prepared composition knew of the
version it was prepared against, `MemberOK` the same for a repair group. The
argument has two layers. Per stream, `Keeps` says that one transaction keeps
`ContentOK`, the records' clauses under an unchanged fence and the content of
every version; each helper of the model has a lemma `...Keeps`, and they
compose. Across streams, `Good` adds what `SeasonMoves` and `FreshMoves` ask of
one stream, `GoodStep` says it of all, and each action has a lemma
`...Authority` that concludes `AuthorityStep`: the invariant and the three
action properties. The cutover needs that a nonempty set of candidates has a
newest (`NewestExists`), because a window whose candidates are not found would be
left behind.

The attempt to prove `FamilyMovesTogether` showed that it had said too much: it
asked the reverted cutover, too, to move windows of one season together, but a
revert restores what the cutover found, and that may have been mixed ever since
the windows' first activations (which are not coupled in the code). TLC confirms
the counterexample when only one window starts bound. The property now speaks of
the moves that name new authority: a rollback, and the first activation of a
staged version.

**ResidentialOutboxProofs** (assumption `OutboxAssumption`: items belong to
instructions, manifests and items are finite, a manifest has a cutoff). Theorems
`TypesHold`, `LeaseCovered`, `CompleteRunsSent`, `NothingIsLost`. The invariant is `TypeOK` with `RunInv`, `SentInv` and
`LeaseCovers`:

* `WorkOK`, `ServerOK` — a row in hand belongs to the outbox's items and work to
  manifests the run has found; a receipt names a stored envelope and the cutoff
  to prune by is one that the server governs. These make every deletion
  justified: `NothingIsLost` follows for each step that removes a row.
* `Accounted` — every row the last drain read is deleted, still queued or in
  hand unless the run has noted a failure: exit code 0 is a statement about all
  of them.
* `SentInv` — a run waits for one request only, the one for the row in its hand,
  so that a late answer to another request cannot confirm the wrong row.
* `LeaseCovers` is inductive with these: only the owner, an expiry or a takeover
  changes the lease row.

**OddsCollectionProofs** (assumption `OddsAssumption`: windows are intervals
of offsets before the tip, with a cadence unless they are polled once; lease and
call cost are positive). Theorems `TypesHold`, `FloorIsKept`,
`ShownStaysInOrder`, `NoSlotBoughtTwice`, `BudgetHolds`. Beside types and the bounds of tables by the
clock (`TablesOK`) the invariant has

* `BeatOK`, of every beat, whether or not it still holds its lease: it plans
  one call per game; what it believes of the credits is at most what is left and
  what others spent unseen; a call in flight had its floor.
* `HeldOK`, of a beat that still holds the lease: no poll or quote is newer than
  its own, and no complete poll of a game is of the slot a planned call is for.
  Clauses about the tables hold only under the fence, and they are kept because
  every table write checks the fence.

`SlotBoughtOnce` counts the slot by the tip that the beat was told when it
listed; a tip postponed in between makes a different slot.

`BudgetHolds` needs more, because the number of slots still to come is a sum
over the windows that every step of the clock changes. `Remaining` is what the
game can still get from beats that plan at a given time or later, as a function
of the ledger: zero when it is closed for its tip, else the sum of the slots
`Left` in each window, where a closing window wants one populated poll. The
argument:

* `Remaining` never grows as time passes (`RemainingOrder`) or the ledger grows,
  and a paid poll that a plan called for takes at least one from it
  (`RemainingSpent`): it either fills a slot that counted, or closes the game, or
  populates the closing window.
* What a plan counts is at least what remains when it is made, unless a poll
  closed the game for a tip about this one (`PlanCovers`); here
  `Restarted` is needed, and exception 3 is what happens without it.
* `WantedInv` — every call still pending in the plan of a beat that holds the
  lease is in a window of the present tier, of a game that is not closed. Else a
  call planned before another one closed the game would be paid for by nothing.
* `CountsInv` — every count is natural and at least `Remaining` from any time at
  which the present beat or a later one plans. This is the strengthening that
  makes `BudgetNeverLow` inductive.

The sums exist because windows are finitely many (`FiniteLemmas`), and are
compared summand by summand.

**ProjectionArchiveProofs** (assumptions `BoardsAssumption`, `BoundsAssumption`:
at least one tick, finitely many workers). Theorems `TypesHold`,
`PointersAlwaysResolve`, `PromotionInOrder`, `RecoveredStays`, `ReplayStays`,
`LatestAgrees`. The invariant is
`TypeOK`, `PointersResolve` and

* `RowsInv` — every cycle writes at most one poll under its own fence, a poll at
  most one generation; it bounds the ids that retention reasons about.
* `HistoryInv` — generations name generations and polls that were written, and
  what is live or doomed was.
* `FenceInv` — for every promoted or failed poll ever written, one as new
  survives the plan in progress. Promotion compares with the rows that are left,
  so this is why deleting the rest cannot let older evidence in.
* `RecoveryInv` — relates the evidence of cycles in flight to the mapping
  decision: evidence fetched without the mapping is older than its replay or
  fenced off by a poll that is newer.

`PointersResolve` needs no strengthening about the retention run beyond its own
clauses on the plan: each batch deletes only what its checks under the lock
still find unreferenced.

`ReplayStays` and `LatestAgrees` are about folds over the history of promoted
generations. The proofs describe the fold instead of computing it: what a replay
yields is, for each reference, the row of the last generation that names it
within the `Suffix` of the history, the generations from the last Complete board
on (`History` is the suffix at the end of time). With that, `ReadsInv` is kept
step by step (`ReadsHold`):

* `AcceptInv`, `GensInv` — polls complete before their generations are created,
  a replay generation holds the recovered line only, and the active generation is
  the last promoted one. Generations are thereby promoted in the order in which
  they are numbered, whatever the order of recording.
* `KeptInv` — until the game is closed, every row of the suffix at its start is
  kept. Retention's rule protects it because the plan's times reach back to the
  baseline.
* `BaseInv` — the Complete board that the history starts from is kept, since what
  a plan dooms is older than the plan.
* `TracksInv` — a Latest line is the row of the last generation of the history
  that names its reference, and absent lines are named by none since they were
  cleared. This is the incremental characterisation of the fold.
* `ConfInv` — confirmations are ordered as observations, but for the recovered
  line (exception 2), so that the line confirmed last is the line observed last.

`ReplayOfKept` and `LatestOfReplay` derive the two properties from it.

**Only model-checked.**

* Liveness (`EveryJobSettles`, `AcceptedSettles`, `OpenRowsDelivered`,
  `DiscoveryUnlessRefused`) needs fairness and `ENABLED`, which the provers do
  not reach.
* `ParityRejectedContentStaysGone`, `TrailingWaits` and the other violated
  properties are false.

Every safety property, action property and refinement that a passing run checks
is a theorem.

Facts by induction over data with an operator as parameter, and anything about
a `RECURSIVE` operator, are out of the prover's reach too; the modules use none.

## 6. Plan

Modules still worth writing:

1. The ledger and its correction queue, feeding `ReplaceSource` and
   `RecomposeLedgerBatch`; jobs of ledger streams and repair groups of jobs in
   `CollectionIngest`.
2. In-process and Redis protocols: DFS snapshot single flight, on/off throttle,
   matchup reuse as a reader of moving pointers.
3. Mapping identity clocks, closing-line backfill.

New questions are merged into the existing runs where they share an instance.

### Not modelled

Components marked `not_modelled` in `PROJECT.json` carry their reason. In short:
scoring, boards, reports, natural-language parsing and provider adapters are
pure computation, parsing or I/O; migrations, settings and scripts change no
state at run time; usage events may be dropped by design. Database deadlocks
between `rollback` (which locks the pointer only) and the other writers are not
visible in a model whose transactions are atomic. Numeric content of versions is
abstracted to its evidence.
