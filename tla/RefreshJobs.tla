---------------------------- MODULE RefreshJobs ----------------------------
(***************************************************************************)
(* Durable data-refresh jobs: DataRefreshJobService of job_service.py, the *)
(* publication transaction of table_publisher.py and the refresh handlers  *)
(* of data_service.py that run inside a job.                               *)
(*                                                                         *)
(* Every web worker process owns one service.  Its dispatcher threads (the *)
(* poller and any request thread that enqueued a job) claim rows of the    *)
(* job table with conditional UPDATEs; a claimed row is run by a thread of *)
(* the process's executor while a heartbeat thread renews its lease.  A    *)
(* run is named by the job and by the attempt number its claim wrote.      *)
(*                                                                         *)
(* Time is kept as countdown timers: left[j] is lease_expires_at minus the *)
(* clock, and a thread that read the clock before a database statement     *)
(* carries the ticks that have passed since (scanLate, txLate).            *)
(***************************************************************************)
EXTENDS Integers, FiniteSets

CONSTANTS
    Procs,            \* web worker processes
    Threads,          \* dispatcher threads of one process
    Operations,       \* refresh operation names
    Tables,           \* legacy tables the operations publish
    FencedTables,     \* tables a database-first stream can supersede
    TablesOf,         \* the tables an operation publishes
    Partitioning,     \* operations that drop superseded tables first
    WorkerLimit,      \* max_workers of the executor
    MaxAttempts,      \* MAX_REFRESH_ATTEMPTS
    LeaseTicks,       \* lease_seconds
    MaxJobs,          \* bound: rows ever enqueued
    MaxClaims,        \* bound: claims of one row
    MaxDelay,         \* bound: ticks between a clock read and its use
    MaxRestarts       \* bound: restarts of one process

ASSUME RefreshAssumption ==
    /\ FencedTables \subseteq Tables
    /\ TablesOf \in [Operations -> SUBSET Tables]
    /\ Partitioning \subseteq Operations
    /\ WorkerLimit \in Nat \ {0}
    /\ MaxAttempts \in Nat \ {0}
    /\ LeaseTicks \in Nat \ {0}
    /\ MaxJobs \in Nat
    /\ MaxClaims \in Nat
    /\ MaxDelay \in Nat
    /\ MaxRestarts \in Nat

JobId == 1 .. MaxJobs
Dispatchers == Procs \X Threads
RunId == JobId \X (1 .. MaxClaims)
Life == 0 .. MaxRestarts
Owner == Procs \X Life          \* _process_lease_owner: one per process start
NoOwner == <<>>

VARIABLES
    operation, status, owner, left, attempt,      \* data_refresh_jobs rows
    scanPc, scanLate, room, todo,                 \* dispatcher threads
    runPc, runOwner, beat, frames, txLate,        \* executor and heartbeats
    pubs,                                         \* committed table swaps
    activated,                                    \* superseded tables
    life                                          \* process starts

rowVars  == <<operation, status, owner, left, attempt>>
scanVars == <<scanPc, scanLate, room, todo>>
runVars  == <<runPc, runOwner, beat, frames, txLate>>
vars == <<rowVars, scanVars, runVars, pubs, activated, life>>

Active == {"queued", "running"}                   \* ACTIVE_JOB_STATUSES
Status == Active \cup {"absent", "succeeded", "failed"}
RunPc == {"none", "submitted", "collecting", "staging", "swapping",
          "completing", "finishing", "failing", "ended"}
InFlight == RunPc \ {"none", "ended"}
Ticks == -(MaxDelay + LeaseTicks) .. LeaseTicks

TypeOK ==
    /\ operation \in [JobId -> Operations \cup {"none"}]
    /\ status \in [JobId -> Status]
    /\ owner \in [JobId -> Owner \cup {NoOwner}]
    /\ left \in [JobId -> Ticks]
    /\ attempt \in [JobId -> 0 .. MaxClaims]
    /\ scanPc \in [Dispatchers -> {"idle", "polling", "scanning", "checked"}]
    /\ scanLate \in [Dispatchers -> 0 .. MaxDelay]
    /\ room \in [Dispatchers -> 0 .. WorkerLimit]
    /\ todo \in [Dispatchers -> SUBSET JobId]
    /\ runPc \in [RunId -> RunPc]
    /\ runOwner \in [RunId -> Owner \cup {NoOwner}]
    /\ beat \in [RunId -> BOOLEAN]
    /\ frames \in [RunId -> SUBSET Tables]
    /\ txLate \in [RunId -> 0 .. MaxDelay]
    /\ pubs \in SUBSET RunId
    /\ activated \in SUBSET FencedTables
    /\ life \in [Procs -> Life]

Init ==
    /\ operation = [j \in JobId |-> "none"]
    /\ status = [j \in JobId |-> "absent"]
    /\ owner = [j \in JobId |-> NoOwner]
    /\ left = [j \in JobId |-> 0]
    /\ attempt = [j \in JobId |-> 0]
    /\ scanPc = [d \in Dispatchers |-> "idle"]
    /\ scanLate = [d \in Dispatchers |-> 0]
    /\ room = [d \in Dispatchers |-> 0]
    /\ todo = [d \in Dispatchers |-> {}]
    /\ runPc = [r \in RunId |-> "none"]
    /\ runOwner = [r \in RunId |-> NoOwner]
    /\ beat = [r \in RunId |-> FALSE]
    /\ frames = [r \in RunId |-> {}]
    /\ txLate = [r \in RunId |-> 0]
    /\ pubs = {}
    /\ activated = {}
    /\ life = [p \in Procs |-> 0]

-----------------------------------------------------------------------------
(***************************************************************************)
(* Predicates of the UPDATE statements.                                    *)
(***************************************************************************)

\* Mutant: the lease owner names the thread, not the process start.
SelfThread(d) == d

\* The service instance a dispatcher thread belongs to.
Self(d) == <<d[1], life[d[1]]>>

\* _owned_lease_condition at the current clock.
Owned(r) ==
    /\ status[r[1]] = "running"
    /\ owner[r[1]] = runOwner[r]
    /\ attempt[r[1]] = r[2]
    /\ left[r[1]] > 0

\* stale_filter at the clock value dispatcher d read when it began to scan.
Stale(j, late) == status[j] = "running" /\ left[j] + late <= 0

\* Mutant: only queued rows are candidates, expired leases are never recovered.
ClaimableQueued(j, late) == status[j] = "queued" /\ late \in Nat

Claimable(j, late) == status[j] = "queued" \/ Stale(j, late)

Exhausted(j, late) == Stale(j, late) /\ attempt[j] >= MaxAttempts

\* Mutant: the lease is renewed in a session of its own, which commits (and
\* unlocks the row) before the swaps.
RowUnlocked(j) == j \notin JobId

\* A publication transaction has updated the row and not committed: every
\* other UPDATE of the row waits for it.
RowLocked(j) == \E r \in RunId : r[1] = j /\ runPc[r] = "swapping"

\* _submitted of the service p is running: runs whose future is not done.
Submitted(p) ==
    Cardinality({r \in RunId : /\ runOwner[r] = <<p, life[p]>>
                               /\ runPc[r] \in InFlight})

\* Runs that occupy a thread of the executor.
Executing(p) ==
    Cardinality({r \in RunId : /\ runOwner[r] = <<p, life[p]>>
                               /\ runPc[r] \in InFlight \ {"submitted"}})

\* The oldest n claimable rows: ORDER BY created_at LIMIT capacity.
Candidates(n, late) ==
    {j \in JobId : /\ Claimable(j, late)
                   /\ Cardinality({i \in 1 .. j : Claimable(i, late)}) <= n}

Oldest(S) == CHOOSE j \in S : \A i \in S : j <= i

-----------------------------------------------------------------------------
(***************************************************************************)
(* Enqueue and dispatch.                                                   *)
(***************************************************************************)

\* start: the partial unique index admits one active row per operation.
Enqueue(o) ==
    /\ \A j \in JobId : ~(operation[j] = o /\ status[j] \in Active)
    /\ \E j \in JobId :
        /\ status[j] = "absent"
        /\ \A i \in JobId : i < j => status[i] # "absent"
        /\ operation' = [operation EXCEPT ![j] = o]
        /\ status' = [status EXCEPT ![j] = "queued"]
    /\ UNCHANGED <<owner, left, attempt, scanVars, runVars, pubs, activated, life>>

\* dispatch_once: the free slots are counted under _submitted_lock and the
\* clock is read, both once for the whole scan.
ReadCapacity(d) ==
    LET capacity == WorkerLimit - Submitted(d[1])
    IN  /\ scanPc[d] = "idle"
        /\ capacity > 0
        /\ scanPc' = [scanPc EXCEPT ![d] = "polling"]
        /\ room' = [room EXCEPT ![d] = capacity]
        /\ UNCHANGED <<rowVars, scanLate, todo, runVars, pubs, activated, life>>

\* dispatch_once: the candidate query.
Inspect(d) ==
    LET found == Candidates(room[d], scanLate[d])
    IN  /\ scanPc[d] = "polling"
        /\ scanPc' = [scanPc EXCEPT ![d] = IF found = {} THEN "idle" ELSE "scanning"]
        /\ scanLate' = [scanLate EXCEPT ![d] = IF found = {} THEN 0 ELSE @]
        /\ room' = [room EXCEPT ![d] = 0]
        /\ todo' = [todo EXCEPT ![d] = found]
        /\ UNCHANGED <<rowVars, runVars, pubs, activated, life>>

\* The candidate is settled; the loop goes on to the next one, or ends.
NextCandidate(d, j) ==
    /\ todo' = [todo EXCEPT ![d] = @ \ {j}]
    /\ scanPc' = [scanPc EXCEPT ![d] = IF todo[d] = {j} THEN "idle" ELSE "scanning"]
    /\ scanLate' = [scanLate EXCEPT ![d] = IF todo[d] = {j} THEN 0 ELSE @]
    /\ UNCHANGED room

\* _claim, first UPDATE: a row out of attempts is failed and not claimed.
ClaimExhausted(d) ==
    LET j == Oldest(todo[d])
    IN  /\ scanPc[d] = "scanning"
        /\ ~RowLocked(j)
        /\ Exhausted(j, scanLate[d])
        /\ status' = [status EXCEPT ![j] = "failed"]
        /\ owner' = [owner EXCEPT ![j] = NoOwner]
        /\ left' = [left EXCEPT ![j] = 0]
        /\ NextCandidate(d, j)
        /\ UNCHANGED <<operation, attempt, runVars, pubs, activated, life>>

\* _claim, first UPDATE matched no row, so it locked none.
ClaimChecked(d) ==
    LET j == Oldest(todo[d])
    IN  /\ scanPc[d] = "scanning"
        /\ ~RowLocked(j)
        /\ ~Exhausted(j, scanLate[d])
        /\ scanPc' = [scanPc EXCEPT ![d] = "checked"]
        /\ UNCHANGED <<rowVars, scanLate, room, todo, runVars, pubs, activated, life>>

\* _claim, second UPDATE and commit, then _submit_claimed.
ClaimRow(d) ==
    LET j == Oldest(todo[d])
        r == <<j, attempt[j] + 1>>
    IN  /\ scanPc[d] = "checked"
        /\ ~RowLocked(j)
        /\ Claimable(j, scanLate[d])
        /\ attempt[j] < MaxClaims
        /\ status' = [status EXCEPT ![j] = "running"]
        /\ owner' = [owner EXCEPT ![j] = Self(d)]
        /\ left' = [left EXCEPT ![j] = LeaseTicks - scanLate[d]]
        /\ attempt' = [attempt EXCEPT ![j] = @ + 1]
        /\ runPc' = [runPc EXCEPT ![r] = "submitted"]
        /\ runOwner' = [runOwner EXCEPT ![r] = Self(d)]
        /\ NextCandidate(d, j)
        /\ UNCHANGED <<operation, beat, frames, txLate, pubs, activated, life>>

\* _claim, second UPDATE matched no row: another process was first.
ClaimMissed(d) ==
    LET j == Oldest(todo[d])
    IN  /\ scanPc[d] = "checked"
        /\ ~RowLocked(j)
        /\ ~Claimable(j, scanLate[d])
        /\ NextCandidate(d, j)
        /\ UNCHANGED <<rowVars, runVars, pubs, activated, life>>

-----------------------------------------------------------------------------
(***************************************************************************)
(* A run: _run_claimed, the handler and the publication transaction.       *)
(***************************************************************************)

Renew(j) == left' = [left EXCEPT ![j] = LeaseTicks]

\* An executor thread takes the run; _owned_job decides whether it starts.
Begin(r) ==
    /\ runPc[r] = "submitted"
    /\ Executing(runOwner[r][1]) < WorkerLimit
    /\ IF Owned(r)
       THEN /\ runPc' = [runPc EXCEPT ![r] = "collecting"]
            /\ beat' = [beat EXCEPT ![r] = TRUE]
       ELSE /\ runPc' = [runPc EXCEPT ![r] = "ended"]
            /\ UNCHANGED beat
    /\ UNCHANGED <<rowVars, scanVars, runOwner, frames, txLate, pubs, activated, life>>

\* One turn of _heartbeat_loop: renew, or stop once the lease is lost.
Heartbeat(r) ==
    /\ beat[r]
    /\ ~RowLocked(r[1])
    /\ IF Owned(r) THEN Renew(r[1]) /\ UNCHANGED beat
                   ELSE beat' = [beat EXCEPT ![r] = FALSE] /\ UNCHANGED left
    /\ UNCHANGED <<operation, status, owner, attempt, scanVars,
                   runPc, runOwner, frames, txLate, pubs, activated, life>>

\* _update_owned_progress moves the handler from one stage to the next and
\* renews the lease, or raises StaleLeaseError into the handler.
Progress(r, from, to) ==
    /\ runPc[r] = from
    /\ ~RowLocked(r[1])
    /\ IF Owned(r)
       THEN runPc' = [runPc EXCEPT ![r] = to] /\ Renew(r[1])
       ELSE runPc' = [runPc EXCEPT ![r] = "failing"] /\ UNCHANGED left
    /\ UNCHANGED <<operation, status, owner, attempt, scanVars,
                   runOwner, beat, txLate, pubs, activated, life>>

\* The frames are collected, superseded tables dropped from them when the
\* operation partitions, and the publish stage reported.
Stage(r) ==
    LET o == operation[r[1]]
    IN  /\ Progress(r, "collecting", "staging")
        /\ frames' = [frames EXCEPT ![r] =
                        IF o \in Partitioning THEN TablesOf[o] \ activated
                                              ELSE TablesOf[o]]

\* A provider or transformation error ends the handler before any write.
HandlerError(r) ==
    /\ runPc[r] \in {"collecting", "staging"}
    /\ runPc' = [runPc EXCEPT ![r] = "failing"]
    /\ UNCHANGED <<rowVars, scanVars, runOwner, beat, frames, txLate, pubs, activated, life>>

\* publish with no frame left returns without opening a transaction.
PublishNothing(r) ==
    /\ runPc[r] = "staging"
    /\ frames[r] = {}
    /\ runPc' = [runPc EXCEPT ![r] = "completing"]
    /\ UNCHANGED <<rowVars, scanVars, runOwner, beat, frames, txLate, pubs, activated, life>>

\* Mutant: the transaction never repeats the activation check.
FenceLeaseOnly(r) ==
    /\ runPc[r] = "staging"
    /\ frames[r] # {}
    /\ ~RowLocked(r[1])
    /\ IF Owned(r)
       THEN /\ runPc' = [runPc EXCEPT ![r] = "swapping"]
            /\ txLate' = [txLate EXCEPT ![r] = 0]
       ELSE /\ runPc' = [runPc EXCEPT ![r] = "failing"]
            /\ UNCHANGED txLate
    /\ UNCHANGED <<rowVars, scanVars, runOwner, beat, frames, pubs, activated, life>>

\* Mutant: a refused publication is swallowed and the handler reports success.
FenceSwallowed(r) ==
    /\ runPc[r] = "staging"
    /\ frames[r] # {}
    /\ ~RowLocked(r[1])
    /\ IF Owned(r) /\ frames[r] \cap activated = {}
       THEN /\ runPc' = [runPc EXCEPT ![r] = "swapping"]
            /\ txLate' = [txLate EXCEPT ![r] = 0]
       ELSE /\ runPc' = [runPc EXCEPT ![r] = "completing"]
            /\ UNCHANGED txLate
    /\ UNCHANGED <<rowVars, scanVars, runOwner, beat, frames, pubs, activated, life>>

\* publish up to the swaps: the fence renews the lease on the transaction's
\* connection, then final_fence locks the streams and refuses activated ones.
\* The renewal is visible when the transaction commits.
FencePublication(r) ==
    /\ runPc[r] = "staging"
    /\ frames[r] # {}
    /\ ~RowLocked(r[1])
    /\ IF Owned(r) /\ frames[r] \cap activated = {}
       THEN /\ runPc' = [runPc EXCEPT ![r] = "swapping"]
            /\ txLate' = [txLate EXCEPT ![r] = 0]
       ELSE /\ runPc' = [runPc EXCEPT ![r] = "failing"]
            /\ UNCHANGED txLate
    /\ UNCHANGED <<rowVars, scanVars, runOwner, beat, frames, pubs, activated, life>>

\* Every swap succeeded; renewal and swaps commit together.
CommitPublication(r) ==
    /\ runPc[r] = "swapping"
    /\ runPc' = [runPc EXCEPT ![r] = "completing"]
    /\ left' = [left EXCEPT ![r[1]] = LeaseTicks - txLate[r]]
    /\ txLate' = [txLate EXCEPT ![r] = 0]
    /\ pubs' = pubs \cup {r}
    /\ UNCHANGED <<operation, status, owner, attempt, scanVars,
                   runOwner, beat, frames, activated, life>>

\* A swap failed: the transaction, lease renewal included, rolls back.
AbortPublication(r) ==
    /\ runPc[r] = "swapping"
    /\ runPc' = [runPc EXCEPT ![r] = "failing"]
    /\ txLate' = [txLate EXCEPT ![r] = 0]
    /\ UNCHANGED <<rowVars, scanVars, runOwner, beat, frames, pubs, activated, life>>

\* progress.complete at the end of the handler.
Complete(r) ==
    /\ Progress(r, "completing", "finishing")
    /\ UNCHANGED frames

\* _update_owned with a terminal status, which also clears the lease.
Settle(r, final) ==
    /\ status' = [status EXCEPT ![r[1]] = final]
    /\ owner' = [owner EXCEPT ![r[1]] = NoOwner]
    /\ left' = [left EXCEPT ![r[1]] = 0]

EndRun(r) ==
    /\ runPc' = [runPc EXCEPT ![r] = "ended"]
    /\ beat' = [beat EXCEPT ![r] = FALSE]

\* _finish; StaleLeaseError or a database error falls through to _fail.
Finish(r) ==
    /\ runPc[r] = "finishing"
    /\ ~RowLocked(r[1])
    /\ \/ Owned(r) /\ Settle(r, "succeeded") /\ EndRun(r)
       \/ /\ runPc' = [runPc EXCEPT ![r] = "failing"]
          /\ UNCHANGED <<status, owner, left, beat>>
    /\ UNCHANGED <<operation, attempt, scanVars, runOwner, frames, txLate, pubs, activated, life>>

\* Mutant: the failure is written without the owner and fencing predicate.
FailUnfenced(r) ==
    /\ runPc[r] = "failing"
    /\ ~RowLocked(r[1])
    /\ Settle(r, "failed")
    /\ EndRun(r)
    /\ UNCHANGED <<operation, attempt, scanVars, runOwner, frames, txLate, pubs, activated, life>>

\* _fail; a stale lease, or a database error, leaves the row as it is.
Fail(r) ==
    /\ runPc[r] = "failing"
    /\ ~RowLocked(r[1])
    /\ \/ Owned(r) /\ Settle(r, "failed")
       \/ UNCHANGED <<status, owner, left>>
    /\ EndRun(r)
    /\ UNCHANGED <<operation, attempt, scanVars, runOwner, frames, txLate, pubs, activated, life>>

-----------------------------------------------------------------------------
(***************************************************************************)
(* The environment: stream activation, process restarts, time.             *)
(***************************************************************************)

\* The table's stream is activated; the publication transaction holds the
\* stream row FOR UPDATE, so activation waits for it.
Activate(t) ==
    /\ t \notin activated
    /\ \A r \in RunId : ~(runPc[r] = "swapping" /\ t \in frames[r])
    /\ activated' = activated \cup {t}
    /\ UNCHANGED <<rowVars, scanVars, runVars, pubs, life>>

\* A worker is killed or recycled: threads and open transactions are gone,
\* and start_dispatcher names a new lease owner.
Restart(p) ==
    /\ life[p] < MaxRestarts
    /\ life' = [life EXCEPT ![p] = @ + 1]
    /\ runPc' = [r \in RunId |-> IF runOwner[r] = <<p, life[p]>> /\ runPc[r] \in InFlight
                                 THEN "ended" ELSE runPc[r]]
    /\ beat' = [r \in RunId |-> beat[r] /\ runOwner[r] # <<p, life[p]>>]
    /\ scanPc' = [d \in Dispatchers |-> IF d[1] = p THEN "idle" ELSE scanPc[d]]
    /\ scanLate' = [d \in Dispatchers |-> IF d[1] = p THEN 0 ELSE scanLate[d]]
    /\ room' = [d \in Dispatchers |-> IF d[1] = p THEN 0 ELSE room[d]]
    /\ todo' = [d \in Dispatchers |-> IF d[1] = p THEN {} ELSE todo[d]]
    /\ txLate' = [r \in RunId |-> IF runOwner[r] = <<p, life[p]>> THEN 0 ELSE txLate[r]]
    /\ UNCHANGED <<rowVars, runOwner, frames, pubs, activated>>

\* The clock advances.  No thread is delayed past MaxDelay ticks.
Tick ==
    /\ \A d \in Dispatchers : scanPc[d] # "idle" => scanLate[d] < MaxDelay
    /\ \A r \in RunId : runPc[r] = "swapping" => txLate[r] < MaxDelay
    /\ left' = [j \in JobId |-> IF status[j] = "running" /\ left[j] > -MaxDelay
                                THEN left[j] - 1 ELSE left[j]]
    /\ scanLate' = [d \in Dispatchers |-> IF scanPc[d] = "idle" THEN scanLate[d]
                                          ELSE scanLate[d] + 1]
    /\ txLate' = [r \in RunId |-> IF runPc[r] = "swapping" THEN txLate[r] + 1 ELSE txLate[r]]
    /\ UNCHANGED <<operation, status, owner, attempt, scanPc, room, todo,
                   runPc, runOwner, beat, frames, pubs, activated, life>>

Dispatch(d) ==
    \/ ReadCapacity(d) \/ Inspect(d) \/ ClaimExhausted(d) \/ ClaimChecked(d)
    \/ ClaimRow(d) \/ ClaimMissed(d)

RunStep(r) ==
    \/ Begin(r) \/ Stage(r) \/ PublishNothing(r) \/ FencePublication(r)
    \/ CommitPublication(r) \/ Complete(r) \/ Finish(r) \/ Fail(r)

Next ==
    \/ \E o \in Operations : Enqueue(o)
    \/ \E d \in Dispatchers : Dispatch(d)
    \/ \E r \in RunId : RunStep(r)
    \/ \E r \in RunId : Heartbeat(r) \/ HandlerError(r) \/ AbortPublication(r)
    \/ \E t \in FencedTables : Activate(t)
    \/ \E p \in Procs : Restart(p)
    \/ Tick

Spec == Init /\ [][Next]_vars

\* A live process polls (poll_interval), runs what it was given and the clock
\* advances.  Heartbeats, restarts and handler errors are never required.
FairSpec ==
    /\ Spec
    /\ \A d \in Dispatchers : WF_vars(Dispatch(d))
    /\ \A r \in RunId : WF_vars(RunStep(r))
    /\ WF_vars(Tick)

-----------------------------------------------------------------------------
(***************************************************************************)
(* Properties.                                                             *)
(***************************************************************************)

Settled == {"succeeded", "failed"}

Before(q, r) == q[1] < r[1] \/ (q[1] = r[1] /\ q[2] < r[2])

PublishInOrder ==
    \A r \in pubs' \ pubs : \A q \in pubs :
        operation[q[1]] = operation[r[1]] => Before(q, r)

\* Publications of one operation commit in the order of their claims: a
\* handler that lost its lease to a later attempt, or whose job was closed and
\* re-enqueued, cannot swap its tables in over newer ones
\* (_publication_fence inside AtomicTablePublisher.publish).
PublishedInOrder == [][PublishInOrder]_vars

KeepSettled == \A j \in JobId : status[j] \in Settled => status'[j] = status[j]

\* A recorded result is final: the late _finish or _fail of an earlier attempt
\* never overwrites it, and a closed job is never claimed again.
SettledIsFinal == [][KeepSettled]_vars

\* A job reported as succeeded has published: the attempt recorded in its row
\* committed its swaps, or had no table left to publish.
SucceededPublished ==
    \A j \in JobId : status[j] = "succeeded" =>
        \/ <<j, attempt[j]>> \in pubs
        \/ frames[<<j, attempt[j]>>] = {}

PublishWritable == \A r \in pubs' \ pubs : frames[r] \cap activated' = {}

\* A publication that commits holds no table whose stream was activated, even
\* when the activation landed after the partition (final_fence).
NoSupersededTable == [][PublishWritable]_vars

\* "Only a worker that stopped renewing leaves a row to reclaim": an attempt
\* whose process is alive and is merely queued in that process's executor,
\* behind a full set of running handlers, is never taken from it.
LiveClaimKept ==
    [][\A r \in RunId :
        /\ runPc[r] = "submitted"
        /\ runPc'[r] = "submitted"
        /\ Executing(runOwner[r][1]) >= WorkerLimit
        /\ attempt[r[1]] = r[2]
        => attempt'[r[1]] = r[2]]_vars

\* Every accepted job is eventually recorded as succeeded or failed, through
\* lost leases, restarts and results that could not be recorded.
EveryJobSettles ==
    \A j \in JobId : (status[j] \in Active) ~> (status[j] \in Settled)
=============================================================================
