-------------------------- MODULE CollectionIngest --------------------------
(***************************************************************************)
(* Acceptance of collector observations and the composition jobs they     *)
(* queue: ObservationIngestionService and the job half of                  *)
(* PublicationService in collection_control.py, and                        *)
(* LedgerRefreshRuntime.compose_queued in ledger_runtime.py.               *)
(*                                                                         *)
(* A handler accepts one envelope under the identity lease of its          *)
(* collector, a row with an expiry and a fence, and checks that lease      *)
(* again in the transaction that stores the observation and queues the     *)
(* composition of its stream.  A composer locks the queued job rows of one *)
(* manifest and keeps them locked until the composition commits.           *)
(*                                                                         *)
(* The model is of PostgreSQL at READ COMMITTED, with one season and one   *)
(* cutoff.  Envelopes are well formed, and each feeds one stream composed  *)
(* from observations whose window is open.  Ledger streams, whose jobs     *)
(* carry game lineage, and repair groups are left out.                     *)
(***************************************************************************)
EXTENDS Integers, FiniteSets

CONSTANTS
    Collectors,       \* collector identities
    Handlers,         \* request threads of the web workers
    Composers,        \* processes that run compose_queued
    Manifests,        \* collection manifests of the season and cutoff
    Streams,          \* NBA and player-diet publication streams
    Items,            \* envelopes, each with its payload
    ProcessOf,        \* the web worker process of a handler
    CollectorOf, ManifestOf, StreamOf,      \* what an envelope names
    KeyOf,            \* its collector and client_observation_id
    MaxIssued,        \* bound: manifests issued
    MaxFence,         \* bound: grants of each identity lease
    MaxGeneration,    \* bound: generation above which nobody reconciles
    MaxCrashes        \* bound: composers lost while they compose

None == "none"

ASSUME IngestAssumption ==
    /\ None \notin Manifests
    /\ CollectorOf \in [Items -> Collectors]
    /\ ManifestOf \in [Items -> Manifests]
    /\ StreamOf \in [Items -> Streams]
    /\ MaxIssued \in Nat
    /\ MaxFence \in [Collectors -> Nat] /\ MaxGeneration \in Nat /\ MaxCrashes \in Nat
    /\ \A i, j \in Items : KeyOf[i] = KeyOf[j] => CollectorOf[i] = CollectorOf[j]

VARIABLES
    manifest,         \* status of each manifest
    closed,           \* manifests whose collect_before has passed
    lease,            \* collector_leases
    request,          \* what each handler is doing
    accepted,         \* collection_observations
    acceptedUnder,    \* the lease fence each observation committed under
    receipts,         \* envelopes a durable receipt was returned for
    job,              \* composition_jobs, one row for each stream
    composed,         \* the observations of a stream's last publication
    missed,           \* history: observations accepted too late, see TooLate
    composer,         \* what each composer is doing
    retrying,         \* failed jobs an operator has read for a retry
    crashes           \* composers lost so far

leaseVars == <<lease, acceptedUnder>>
jobVars == <<job, composed, missed, composer, retrying, crashes>>
vars == <<manifest, closed, lease, request, accepted, acceptedUnder, receipts,
          job, composed, missed, composer, retrying, crashes>>

(* A lease owner is a fresh random token for each grant, so the pair of    *)
(* owner and fence is the fence and whether somebody holds the row.        *)
Lease == [held : BOOLEAN, live : BOOLEAN, fence : Nat]

(* A row is "running" only inside the composer's transaction: the claim,   *)
(* the publication and the final status commit together.                   *)
Job == [status : {None, "queued", "succeeded", "failed"},
        manifest : Manifests \cup {None}, generation : Nat]

(* The transaction of a request is open from "checked" to its commit.  It  *)
(* looks for the job row in up to three statements: it has locked the row  *)
(* in "enqueued"; it has found none once in "unfound" and twice in         *)
(* "unseen"; the third look found a row in "joined" and none in "creating". *)
RequestPc == {"idle", "received", "leased", "checked", "inserted", "enqueued",
              "unfound", "unseen", "joined", "creating", "leaving"}
Request == [pc : RequestPc, item : Items \cup {None}, fence : Nat]
Idle == [pc |-> "idle", item |-> None, fence |-> 0]

(* claims holds the generation of each claimed job and 0 for the others,   *)
(* inputs the evidence read for it.                                        *)
Composer == [pc : {"idle", "claimed", "composing", "marking"},
             manifest : Manifests \cup {None},
             claims : [Streams -> Nat], inputs : [Streams -> SUBSET Items]]
Resting == [pc |-> "idle", manifest |-> None,
            claims |-> [s \in Streams |-> 0], inputs |-> [s \in Streams |-> {}]]

(* Every variable holds a value of its table or its process; a job row has *)
(* a generation from its first write (a row of scoped_repair has no        *)
(* manifest), and a request past the lease has a fence.                    *)
TypeOK ==
    /\ manifest \in [Manifests -> {"unissued", "active", "superseded"}]
    /\ closed \subseteq Manifests
    /\ lease \in [Collectors -> Lease]
    /\ request \in [Handlers -> Request]
    /\ accepted \subseteq Items /\ receipts \subseteq Items
    /\ acceptedUnder \in [Items -> Nat]
    /\ job \in [Streams -> Job]
    /\ composed \in [Streams -> SUBSET Items]
    /\ missed \subseteq Items
    /\ composer \in [Composers -> Composer]
    /\ retrying \subseteq Streams
    /\ crashes \in 0 .. MaxCrashes
    /\ \A s \in Streams : job[s].status # None => job[s].generation > 0
    /\ \A h \in Handlers : request[h].pc \notin {"idle", "received"} => request[h].fence > 0

Init ==
    /\ manifest = [m \in Manifests |-> "unissued"]
    /\ closed = {}
    /\ lease = [c \in Collectors |-> [held |-> FALSE, live |-> FALSE, fence |-> 0]]
    /\ request = [h \in Handlers |-> Idle]
    /\ accepted = {} /\ receipts = {}
    /\ acceptedUnder = [i \in Items |-> 0]
    /\ job = [s \in Streams |-> [status |-> None, manifest |-> None, generation |-> 0]]
    /\ composed = [s \in Streams |-> {}]
    /\ missed = {}
    /\ composer = [c \in Composers |-> Resting]
    /\ retrying = {}
    /\ crashes = 0

-----------------------------------------------------------------------------
(* Manifests. *)

\* create_manifest supersedes the season's active manifest.
IssueManifest(m) ==
    /\ manifest[m] = "unissued"
    /\ Cardinality({n \in Manifests : manifest[n] # "unissued"}) < MaxIssued
    /\ manifest' = [n \in Manifests |->
                      IF n = m THEN "active"
                      ELSE IF manifest[n] = "active" THEN "superseded" ELSE manifest[n]]
    /\ UNCHANGED <<closed, leaseVars, request, accepted, receipts, jobVars>>

\* The clock reaches collect_before.
CloseManifest(m) ==
    /\ manifest[m] # "unissued" /\ m \notin closed
    /\ closed' = closed \cup {m}
    /\ UNCHANGED <<manifest, leaseVars, request, accepted, receipts, jobVars>>

Open(m) == manifest[m] = "active" /\ m \notin closed

-----------------------------------------------------------------------------
(* One request.  What its transaction wrote is seen only when it commits.  *)

CollectorFor(h) == CollectorOf[request[h].item]
StreamFor(h) == StreamOf[request[h].item]

Goto(h, pc) == request' = [request EXCEPT ![h].pc = pc]

\* The local semaphore admits one request of an identity in each process.
Admitted(h, i) ==
    \A g \in Handlers : ProcessOf[g] = ProcessOf[h] /\ request[g].pc # "idle"
                            => CollectorFor(g) # CollectorOf[i]

Receive(h, i) ==
    /\ request[h].pc = "idle"
    /\ manifest[ManifestOf[i]] # "unissued"
    /\ Admitted(h, i)
    /\ request' = [request EXCEPT ![h] = [pc |-> "received", item |-> i, fence |-> 0]]
    /\ UNCHANGED <<manifest, closed, leaseVars, accepted, receipts, jobVars>>

LeaseTaken(c) == lease[c].held /\ lease[c].live

AcquireLease(h) ==
    LET c == CollectorFor(h)
    IN  /\ request[h].pc = "received"
        /\ ~LeaseTaken(c)
        /\ lease[c].fence < MaxFence[c]
        /\ lease' = [lease EXCEPT ![c] = [held |-> TRUE, live |-> TRUE, fence |-> @.fence + 1]]
        /\ request' = [request EXCEPT ![h].pc = "leased", ![h].fence = lease[c].fence + 1]
        /\ UNCHANGED <<manifest, closed, accepted, acceptedUnder, receipts, jobVars>>

LeaseBusy(h) ==
    /\ request[h].pc = "received"
    /\ LeaseTaken(CollectorFor(h))
    /\ request' = [request EXCEPT ![h] = Idle]
    /\ UNCHANGED <<manifest, closed, leaseVars, accepted, receipts, jobVars>>

OpenManifest(h) == Open(ManifestOf[request[h].item])

\* The unique index on the collector and its client_observation_id.
Stored(i) == \E j \in accepted : KeyOf[j] = KeyOf[i]

\* The manifest is checked before the stored observation is looked up, so a
\* replay of an accepted envelope is refused too once its manifest is closed.
RefuseClosed(h) ==
    /\ request[h].pc = "leased"
    /\ ~OpenManifest(h)
    /\ Goto(h, "leaving")
    /\ UNCHANGED <<manifest, closed, leaseVars, accepted, receipts, jobVars>>

\* Mutant: any stored observation of the identifier counts as this one.
MatchesAnything(i) == TRUE

\* The stored observation has the checksum of this envelope.
Matches(i) == i \in accepted

Replay(h) ==
    LET i == request[h].item
    IN  /\ request[h].pc = "leased" /\ OpenManifest(h)
        /\ Stored(i) /\ Matches(i)
        /\ receipts' = receipts \cup {i}
        /\ Goto(h, "leaving")
        /\ UNCHANGED <<manifest, closed, leaseVars, accepted, jobVars>>

\* observation_id_conflict.
Conflict(h) ==
    LET i == request[h].item
    IN  /\ request[h].pc = "leased" /\ OpenManifest(h)
        /\ Stored(i) /\ ~Matches(i)
        /\ Goto(h, "leaving")
        /\ UNCHANGED <<manifest, closed, leaseVars, accepted, receipts, jobVars>>

Check(h) ==
    /\ request[h].pc = "leased" /\ OpenManifest(h)
    /\ ~Stored(request[h].item)
    /\ Goto(h, "checked")
    /\ UNCHANGED <<manifest, closed, leaseVars, accepted, receipts, jobVars>>

\* The unique index makes an insert wait for the transaction that inserted the
\* same key; the one that finds the key committed is an observation_race.
Inserted(g) ==
    request[g].pc \in {"inserted", "enqueued", "unfound", "unseen", "joined", "creating"}

Insert(h) ==
    LET i == request[h].item
    IN  /\ request[h].pc = "checked"
        /\ \A g \in Handlers \ {h} : Inserted(g) => KeyOf[request[g].item] # KeyOf[i]
        /\ Goto(h, IF Stored(i) THEN "leaving" ELSE "inserted")
        /\ UNCHANGED <<manifest, closed, leaseVars, accepted, receipts, jobVars>>

\* Job rows locked by an acceptance or by a composition.
Claimed(c) == {s \in Streams : composer[c].claims[s] > 0}

LockedByHandler(s) == \E h \in Handlers : request[h].pc = "enqueued" /\ StreamFor(h) = s
\* Mutant: the composition does not keep the rows it claimed locked.
LockedByNobody(s) == FALSE

LockedByComposer(s) ==
    \E c \in Composers : composer[c].pc \in {"claimed", "composing"} /\ s \in Claimed(c)
Locked(s) == LockedByHandler(s) \/ LockedByComposer(s)

\* The first look locks the job row, skipping a row that somebody else holds;
\* the second then finds that row and refuses the upload as collector_busy.
LockJob(h) ==
    /\ request[h].pc = "inserted"
    /\ job[StreamFor(h)].status # None
    /\ Goto(h, IF Locked(StreamFor(h)) THEN "leaving" ELSE "enqueued")
    /\ UNCHANGED <<manifest, closed, leaseVars, accepted, receipts, jobVars>>

FindNoRow(h) ==
    /\ request[h].pc = "inserted"
    /\ job[StreamFor(h)].status = None
    /\ Goto(h, "unfound")
    /\ UNCHANGED <<manifest, closed, leaseVars, accepted, receipts, jobVars>>

\* The second look takes a row committed since the first for one that is held.
LookAgain(h) ==
    /\ request[h].pc = "unfound"
    /\ Goto(h, IF job[StreamFor(h)].status # None THEN "leaving" ELSE "unseen")
    /\ UNCHANGED <<manifest, closed, leaseVars, accepted, receipts, jobVars>>

\* enqueue looks a third time, and returns a row committed since the second as
\* it is: neither locked nor queued again, and the upload goes on.
JoinExisting(h) ==
    /\ request[h].pc = "unseen"
    /\ job[StreamFor(h)].status # None
    /\ Goto(h, "joined")
    /\ UNCHANGED <<manifest, closed, leaseVars, accepted, receipts, jobVars>>

CreateJob(h) ==
    /\ request[h].pc = "unseen"
    /\ job[StreamFor(h)].status = None
    /\ Goto(h, "creating")
    /\ UNCHANGED <<manifest, closed, leaseVars, accepted, receipts, jobVars>>

\* The unique index on stream, season and cutoff: somebody else created the row
\* after all three looks.
CreateRace(h) ==
    /\ request[h].pc = "creating"
    /\ job[StreamFor(h)].status # None
    /\ Goto(h, "leaving")
    /\ UNCHANGED <<manifest, closed, leaseVars, accepted, receipts, jobVars>>

\* Mutant: a new job row starts without its first generation.
QueuedUncounted(j, m) ==
    CASE j.status = None -> [status |-> "queued", manifest |-> m, generation |-> 0]
      [] j.status \in {"failed", "succeeded"} ->
            [status |-> "queued", manifest |-> m, generation |-> j.generation + 1]
      [] j.status = "queued" -> j

\* What the acceptance does to the job row it holds.
Queued(j, m) ==
    CASE j.status = None -> [status |-> "queued", manifest |-> m, generation |-> 1]
      [] j.status \in {"failed", "succeeded"} ->
            [status |-> "queued", manifest |-> m, generation |-> j.generation + 1]
      [] j.status = "queued" -> j

\* Mutant: any unexpired lease of the identity will do.
LeaseUnexpired(h) == lease[CollectorFor(h)].live

\* _assert_identity_lease, under the row lock that is held to the commit.
LeaseHeld(h) ==
    LET l == lease[CollectorFor(h)]
    IN  l.held /\ l.live /\ l.fence = request[h].fence

\* The row is locked, or new and created by nobody else.
Enqueued(h) ==
    \/ request[h].pc = "enqueued"
    \/ request[h].pc = "creating" /\ job[StreamFor(h)].status = None

\* The observation, its receipt and the renewed lease of a transaction.
Accepts(h) ==
    LET i == request[h].item
    IN  /\ LeaseHeld(h)
        /\ accepted' = accepted \cup {i}
        /\ acceptedUnder' = [acceptedUnder EXCEPT ![i] = request[h].fence]
        /\ lease' = [lease EXCEPT ![CollectorOf[i]].live = TRUE]
        /\ receipts' = receipts \cup {i}
        /\ Goto(h, "leaving")
        /\ UNCHANGED <<manifest, closed, composed, composer, retrying, crashes>>

Commit(h) ==
    /\ Enqueued(h)
    /\ Accepts(h)
    /\ job' = [job EXCEPT ![StreamFor(h)] = Queued(@, ManifestOf[request[h].item])]
    /\ UNCHANGED missed

\* Beside the job row: the job has succeeded, or a composition has read its
\* evidence, and nothing queues the job for this observation.
TooLate(s) ==
    \/ job[s].status = "succeeded"
    \/ \E c \in Composers : composer[c].pc = "composing" /\ s \in Claimed(c)

CommitJoined(h) ==
    /\ request[h].pc = "joined"
    /\ Accepts(h)
    /\ missed' = IF TooLate(StreamFor(h)) THEN missed \cup {request[h].item} ELSE missed
    /\ UNCHANGED job

StaleLease(h) ==
    /\ Enqueued(h) \/ request[h].pc = "joined"
    /\ ~LeaseHeld(h)
    /\ Goto(h, "leaving")
    /\ UNCHANGED <<manifest, closed, leaseVars, accepted, receipts, jobVars>>

\* _release_identity_lease gives back only this request's own grant.
Release(h) ==
    LET c == CollectorFor(h)
    IN  /\ request[h].pc = "leaving"
        /\ lease' = IF lease[c].held /\ lease[c].fence = request[h].fence
                    THEN [lease EXCEPT ![c].held = FALSE, ![c].live = FALSE]
                    ELSE lease
        /\ request' = [request EXCEPT ![h] = Idle]
        /\ UNCHANGED <<manifest, closed, accepted, acceptedUnder, receipts, jobVars>>

\* The worker process is recycled or killed: its transaction rolls back and
\* its lease stays until it expires.
Die(h) ==
    /\ request[h].pc # "idle"
    /\ request' = [request EXCEPT ![h] = Idle]
    /\ UNCHANGED <<manifest, closed, leaseVars, accepted, receipts, jobVars>>

\* The clock passes lease_expires_at.
ExpireLease(c) ==
    /\ LeaseTaken(c)
    /\ lease' = [lease EXCEPT ![c].live = FALSE]
    /\ UNCHANGED <<manifest, closed, request, accepted, acceptedUnder, receipts, jobVars>>

-----------------------------------------------------------------------------
(* Composition. *)

Evidence(s, m) == {i \in accepted : StreamOf[i] = s /\ ManifestOf[i] = m}

QueuedFor(m) == {s \in Streams : job[s].status = "queued" /\ job[s].manifest = m}

\* The slice of a manifest, or of the jobs without one, is locked as a whole,
\* behind any acceptance.
Claim(c, m) ==
    /\ composer[c].pc = "idle"
    /\ QueuedFor(m) # {}
    /\ \A s \in QueuedFor(m) : ~Locked(s)
    /\ composer' = [composer EXCEPT ![c] =
                      [Resting EXCEPT !.pc = "claimed", !.manifest = m,
                         !.claims = [s \in Streams |->
                                       IF s \in QueuedFor(m) THEN job[s].generation ELSE 0]]]
    /\ UNCHANGED <<manifest, closed, leaseVars, request, accepted, receipts,
                   job, composed, missed, retrying, crashes>>

\* compose_from_observations derives each payload from the manifest's evidence.
ReadEvidence(c) ==
    /\ composer[c].pc = "claimed"
    /\ composer' = [composer EXCEPT
                      ![c].pc = "composing",
                      ![c].inputs = [s \in Streams |->
                                       IF s \in Claimed(c)
                                       THEN Evidence(s, composer[c].manifest) ELSE {}]]
    /\ missed' = missed \ UNION {composer'[c].inputs[s] : s \in Streams}
    /\ UNCHANGED <<manifest, closed, leaseVars, request, accepted, receipts,
                   job, composed, retrying, crashes>>

\* Streams whose evidence is complete succeed and the others fail, in one
\* transaction that asks for the claimed generations.  Nothing is composed
\* from no evidence.
Finish(c, done) ==
    /\ composer[c].pc = "composing"
    /\ done \subseteq {s \in Claimed(c) : composer[c].inputs[s] # {}}
    /\ \A s \in Claimed(c) : job[s].generation = composer[c].claims[s]
    /\ job' = [s \in Streams |->
                 IF s \in done THEN [job[s] EXCEPT !.status = "succeeded"]
                 ELSE IF s \in Claimed(c) THEN [job[s] EXCEPT !.status = "failed"]
                 ELSE job[s]]
    /\ composed' = [s \in Streams |-> IF s \in done THEN composer[c].inputs[s] ELSE composed[s]]
    /\ composer' = [composer EXCEPT ![c] = Resting]
    /\ UNCHANGED <<manifest, closed, leaseVars, request, accepted, receipts,
                   retrying, crashes, missed>>

\* An error rolls the slice back; the failure is marked in a later transaction.
RollBackSlice(c) ==
    /\ composer[c].pc \in {"claimed", "composing"}
    /\ composer' = [composer EXCEPT ![c].pc = "marking"]
    /\ UNCHANGED <<manifest, closed, leaseVars, request, accepted, receipts,
                   job, composed, missed, retrying, crashes>>

\* Mutant: the rolled-back slice is not marked, so it may be claimed and
\* rolled back for ever.
MarkNothing(c) ==
    /\ composer[c].pc = "marking"
    /\ composer' = [composer EXCEPT ![c] = Resting]
    /\ UNCHANGED <<manifest, closed, leaseVars, request, accepted, receipts,
                   job, composed, missed, retrying, crashes>>

\* _mark_slice_failed spares a job that was queued again since.
MarkFailed(c) ==
    LET failing == {s \in Claimed(c) : /\ job[s].status = "queued"
                                       /\ job[s].generation = composer[c].claims[s]}
    IN  /\ composer[c].pc = "marking"
        /\ \A s \in failing : ~Locked(s)
        /\ job' = [s \in Streams |->
                     IF s \in failing THEN [job[s] EXCEPT !.status = "failed"] ELSE job[s]]
        /\ composer' = [composer EXCEPT ![c] = Resting]
        /\ UNCHANGED <<manifest, closed, leaseVars, request, accepted, receipts,
                       composed, missed, retrying, crashes>>

ComposerDies(c) ==
    /\ composer[c].pc # "idle"
    /\ crashes < MaxCrashes
    /\ crashes' = crashes + 1
    /\ composer' = [composer EXCEPT ![c] = Resting]
    /\ UNCHANGED <<manifest, closed, leaseVars, request, accepted, receipts,
                   job, composed, missed, retrying>>

\* retry reads the row without locking it and writes it after whoever holds it.
RetryRead(s) ==
    /\ job[s].status = "failed" /\ s \notin retrying
    /\ retrying' = retrying \cup {s}
    /\ UNCHANGED <<manifest, closed, leaseVars, request, accepted, receipts,
                   job, composed, missed, composer, crashes>>

RetryWrite(s) ==
    /\ s \in retrying /\ ~Locked(s)
    /\ job' = [job EXCEPT ![s].status = "queued"]
    /\ retrying' = retrying \ {s}
    /\ UNCHANGED <<manifest, closed, leaseVars, request, accepted, receipts,
                   composed, missed, composer, crashes>>

\* reconcile_pending requeues failed jobs under the manifest whose identifier
\* sorts first among those that supplied evidence.
Supplied(s) == {m \in Manifests : Evidence(s, m) # {}}

ReconcilePending(first) ==
    LET due == {s \in Streams : job[s].status = "failed" /\ Supplied(s) # {}}
    IN  /\ due # {}
        /\ \A s \in Streams : Supplied(s) # {} => ~Locked(s)
        /\ \A s \in due : first[s] \in Supplied(s) /\ job[s].generation < MaxGeneration
        /\ job' = [s \in Streams |->
                     IF s \in due
                     THEN [status |-> "queued", manifest |-> first[s],
                           generation |-> job[s].generation + 1]
                     ELSE job[s]]
        /\ UNCHANGED <<manifest, closed, leaseVars, request, accepted, receipts,
                       composed, missed, composer, retrying, crashes>>

\* An operator's scoped_repair enqueues a job without a manifest; a row that
\* is there already is returned as it is.
ScopedRepair(s) ==
    /\ job[s].status = None
    /\ job' = [job EXCEPT ![s] = [status |-> "queued", manifest |-> None, generation |-> 1]]
    /\ UNCHANGED <<manifest, closed, leaseVars, request, accepted, receipts,
                   composed, missed, composer, retrying, crashes>>

-----------------------------------------------------------------------------

HandlerStep(h) ==
    \/ AcquireLease(h) \/ LeaseBusy(h) \/ RefuseClosed(h) \/ Replay(h) \/ Conflict(h)
    \/ Check(h) \/ Insert(h) \/ LockJob(h) \/ FindNoRow(h) \/ LookAgain(h)
    \/ JoinExisting(h) \/ CreateJob(h) \/ CreateRace(h)
    \/ Commit(h) \/ CommitJoined(h) \/ StaleLease(h) \/ Release(h)

Composing(c) ==
    \/ \E m \in Manifests \cup {None} : Claim(c, m)
    \/ ReadEvidence(c)
    \/ \E done \in SUBSET Streams : Finish(c, done)
    \/ MarkFailed(c)

Next ==
    \/ \E m \in Manifests : IssueManifest(m) \/ CloseManifest(m)
    \/ \E h \in Handlers, i \in Items : Receive(h, i)
    \/ \E h \in Handlers : HandlerStep(h) \/ Die(h)
    \/ \E c \in Collectors : ExpireLease(c)
    \/ \E c \in Composers : Composing(c) \/ RollBackSlice(c) \/ ComposerDies(c)
    \/ \E s \in Streams : RetryRead(s) \/ RetryWrite(s) \/ ScopedRepair(s)
    \/ \E first \in [Streams -> Manifests] : ReconcilePending(first)

Spec == Init /\ [][Next]_vars

(* A request that has locked or written what it needs goes on to end its   *)
(* transaction, and compose_queued runs on a schedule; nothing else is     *)
(* fair.  These steps of a request change request, those of a composer its *)
(* record.                                                                 *)
Fairness ==
    /\ \A h \in Handlers : WF_request(Commit(h) \/ CommitJoined(h) \/ StaleLease(h))
    /\ \A c \in Composers : WF_composer(Composing(c))

FairSpec == Spec /\ Fairness

-----------------------------------------------------------------------------
(* Properties. *)

(* The observations of one collector commit in the order in which their    *)
(* requests were granted its identity lease: a request that lost its lease *)
(* to an expiry and a takeover commits nothing, however late it resumes    *)
(* (_assert_identity_lease).                                               *)
FencedCommit ==
    \A i \in accepted' \ accepted : \A j \in accepted :
        CollectorOf[j] = CollectorOf[i] => acceptedUnder[j] < acceptedUnder'[i]

FencedCommits == [][FencedCommit]_vars

(* A receipt names the payload that is stored.  Retries, replays and two   *)
(* payloads sent under one client_observation_id, interleaved in two       *)
(* worker processes, leave one observation for the identifier, and only    *)
(* its sender holds a receipt.                                             *)
ReceiptsMatch ==
    /\ \A i \in receipts : i \in accepted
    /\ \A i, j \in accepted : KeyOf[i] = KeyOf[j] => i = j

(* Through leases that expire, handlers that die and transactions that     *)
(* roll back, acceptance is the store the collector's outbox relies on: an *)
(* observation is added once for its key, is never taken away, and a       *)
(* receipt is only issued for a payload that is stored (_ingest).          *)
Store == INSTANCE ObservationStore WITH stored <- accepted

ImplementsStore == Store!Spec

(* A job that succeeded has composed every accepted observation of its     *)
(* stream and manifest, but for those that enqueue let past: no acceptance *)
(* that locked or created the job row slips between what a composition     *)
(* reads and its final status, whatever the order of claims, retries,      *)
(* repairs, reconciliations and rolled-back slices, and one that joined    *)
(* the row of another request slips only past a composition that had read  *)
(* its evidence (enqueue_for_observation, enqueue and compose_queued).     *)
SucceededCoversManifest ==
    \A s \in Streams : job[s].status = "succeeded" =>
        Evidence(s, job[s].manifest) \subseteq composed[s] \cup missed

(* "These streams compose from every accepted observation at compose time, *)
(* so a new one is new input" (enqueue_for_observation): when the job of a *)
(* stream has succeeded, every accepted observation of the season's active *)
(* manifest is composed.                                                   *)
ActiveEvidenceComposed ==
    \A s \in Streams, m \in Manifests :
        job[s].status = "succeeded" /\ manifest[m] = "active"
            => Evidence(s, m) \subseteq composed[s]

(* Nothing accepted waits for ever, but for what enqueue let past: again   *)
(* and again a stream reaches a state in which every other observation     *)
(* accepted for it is composed or its job is marked failed, although       *)
(* uploads are refused while a composition runs and composers die with     *)
(* their slice (compose_queued picks the rolled-back rows again).          *)
Settled(s) ==
    \/ \A m \in Manifests : Evidence(s, m) \subseteq composed[s] \cup missed
    \/ job[s].status = "failed"

AcceptedSettles == \A s \in Streams : []<>Settled(s)

=============================================================================
