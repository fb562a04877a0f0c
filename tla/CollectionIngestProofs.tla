----------------------- MODULE CollectionIngestProofs -----------------------
(***************************************************************************)
(* Proofs about CollectionIngest, for any collectors, handlers, composers, *)
(* manifests, streams and envelopes.                                       *)
(*                                                                         *)
(* Each property needs what the interleaved transactions know of one       *)
(* another: what a request that has inserted its row knows of the stored   *)
(* keys (KeyInv), which fences requests and stored observations have       *)
(* (FenceInv), and what a composer that holds a job row knows of that row  *)
(* and of its evidence (JobInv).                                           *)
(***************************************************************************)
EXTENDS CollectionIngest, TLAPS

\* A request that is doing something has an envelope.
ItemInv == \A h \in Handlers : request[h].pc # "idle" => request[h].item \in Items

\* The unique index on the collector and client_observation_id: a request that
\* inserted its row found no committed row of its key, and no two did.
KeyInv ==
    /\ \A h \in Handlers : Inserted(h) => ~Stored(request[h].item)
    /\ \A g, h \in Handlers :
        Inserted(g) /\ Inserted(h) /\ KeyOf[request[g].item] = KeyOf[request[h].item] => g = h
    /\ ReceiptsMatch

\* A request was granted the lease, and one that can still commit.
Granted(h) == request[h].pc \notin {"idle", "received"}
MayCommit(h) == request[h].pc \in {"leased", "checked", "inserted", "enqueued",
                                    "unfound", "unseen", "joined", "creating"}

\* No fence exceeds that of the lease row, no two requests share one, and one
\* that may still commit has not committed under its fence.
FenceInv ==
    /\ \A j \in accepted : acceptedUnder[j] <= lease[CollectorOf[j]].fence
    /\ \A h \in Handlers : Granted(h) => request[h].fence <= lease[CollectorFor(h)].fence
    /\ \A g, h \in Handlers :
        /\ Granted(g) /\ Granted(h) /\ CollectorFor(g) = CollectorFor(h)
        /\ request[g].fence = request[h].fence
        => g = h
    /\ \A h \in Handlers : \A j \in accepted :
        MayCommit(h) /\ CollectorOf[j] = CollectorFor(h) => acceptedUnder[j] # request[h].fence

\* Composer c has the job row of stream s locked.
Holds(c, s) == composer[c].pc \in {"claimed", "composing"} /\ s \in Claimed(c)

\* A locked job row is queued for its composer's manifest, and the evidence it
\* read is all there is but for what was missed; nobody else holds the row.
JobInv ==
    /\ \A c \in Composers, s \in Streams : Holds(c, s) =>
        /\ job[s].status = "queued"
        /\ job[s].manifest = composer[c].manifest
        /\ ~LockedByHandler(s)
        /\ composer[c].pc = "composing" =>
                Evidence(s, composer[c].manifest) \subseteq composer[c].inputs[s] \cup missed
    /\ \A c, d \in Composers, s \in Streams : Holds(c, s) /\ Holds(d, s) => c = d
    /\ \A h \in Handlers : request[h].pc = "enqueued" => job[StreamFor(h)].status # None
    /\ \A s \in retrying : job[s].status # None
    /\ SucceededCoversManifest

IInv == TypeOK /\ ItemInv /\ KeyInv /\ FenceInv /\ JobInv

-----------------------------------------------------------------------------
(***************************************************************************)
(* Types.                                                                  *)
(***************************************************************************)

RequestTypes == request \in [Handlers -> Request]
             /\ \A h \in Handlers : request[h].pc \notin {"idle", "received"} => request[h].fence > 0

JobTypes ==
    /\ job \in [Streams -> Job]
    /\ \A s \in Streams : job[s].status # None => job[s].generation > 0

\* Where a step takes a request.
LEMMA GotoTypes ==
    ASSUME TypeOK, NEW h \in Handlers, NEW p \in RequestPc, Goto(h, p), Granted(h)
    PROVE  RequestTypes'
<1>1. /\ request \in [Handlers -> Request]
      /\ \A g \in Handlers : Granted(g) => request[g].fence > 0
  BY DEF TypeOK, Granted
<1>2. request' = [request EXCEPT ![h] = [request[h] EXCEPT !.pc = p]]
  BY <1>1 DEF Goto
<1>3. /\ [request[h] EXCEPT !.pc = p] \in Request
      /\ [request[h] EXCEPT !.pc = p].fence = request[h].fence
  BY <1>1 DEF Request
<1>4. request' \in [Handlers -> Request]
  BY <1>1, <1>2, <1>3
<1>5. \A g \in Handlers : Granted(g)' => request'[g].fence > 0
  BY <1>1, <1>2, <1>3 DEF Granted
<1> QED
  BY <1>4, <1>5 DEF RequestTypes, Granted

LEMMA IdleTypes ==
    ASSUME TypeOK, NEW h \in Handlers, request' = [request EXCEPT ![h] = Idle]
    PROVE  RequestTypes'
<1>1. RequestTypes
  BY DEF TypeOK, RequestTypes
<1>2. Idle \in Request /\ Idle.pc = "idle"
  BY DEF Idle, Request, RequestPc
<1> QED
  BY <1>1, <1>2 DEF RequestTypes

\* A step that rewrites one lease row with a row.
LEMMA LeaseTypes ==
    ASSUME TypeOK, NEW c \in Collectors, NEW l \in Lease, lease' = [lease EXCEPT ![c] = l]
    PROVE  lease' \in [Collectors -> Lease]
BY DEF TypeOK

LEMMA HandlerTypes ==
    ASSUME TypeOK, ItemInv, NEW h \in Handlers, HandlerStep(h) \/ Die(h)
    PROVE  TypeOK'
<1>1. CASE RefuseClosed(h) \/ Conflict(h) \/ Check(h) \/ Insert(h) \/ LockJob(h) \/ FindNoRow(h)
           \/ LookAgain(h) \/ JoinExisting(h) \/ CreateJob(h) \/ CreateRace(h) \/ StaleLease(h)
  <2>1. PICK p \in RequestPc : Goto(h, p) /\ Granted(h)
    BY <1>1 DEF RefuseClosed, Conflict, Check, Insert, LockJob, FindNoRow, LookAgain,
                JoinExisting, CreateJob, CreateRace, StaleLease, Enqueued, Granted, RequestPc
  <2>2. RequestTypes'
    BY <2>1, GotoTypes
  <2> QED
    BY <1>1, <2>2 DEF RefuseClosed, Conflict, Check, Insert, LockJob, FindNoRow, LookAgain,
                JoinExisting, CreateJob, CreateRace, StaleLease, RequestTypes, TypeOK, leaseVars, jobVars
<1>2. CASE LeaseBusy(h) \/ Die(h)
  BY <1>2, IdleTypes DEF LeaseBusy, Die, RequestTypes, TypeOK, leaseVars, jobVars
<1>3. CASE Replay(h)
  <2>1. RequestTypes'
    BY <1>3, GotoTypes DEF Replay, Granted, RequestPc
  <2> QED
    BY <1>3, <2>1 DEF Replay, Matches, RequestTypes, TypeOK, leaseVars, jobVars
<1>4. CASE AcquireLease(h)
  <2> DEFINE c == CollectorFor(h)
             f == lease[c].fence + 1
  <2>0. c \in Collectors /\ f \in Nat /\ f > 0
    BY <1>4, IngestAssumption DEF AcquireLease, TypeOK, Lease, ItemInv, CollectorFor
  <2>1. RequestTypes'
    <3>1. request' = [request EXCEPT ![h].pc = "leased", ![h].fence = f]
      BY <1>4 DEF AcquireLease
    <3> DEFINE r == [request[h] EXCEPT !.pc = "leased", !.fence = f]
    <3> HIDE DEF f
    <3>2. r \in Request /\ r.fence > 0
      BY <2>0 DEF TypeOK, Request, RequestPc
    <3>3. request' = [request EXCEPT ![h] = r]
      BY <3>1 DEF TypeOK, Request
    <3> HIDE DEF r
    <3> QED
      BY <3>2, <3>3 DEF TypeOK, RequestTypes
  <2>2. lease' \in [Collectors -> Lease]
    <3>1. lease' = [lease EXCEPT ![c] = [held |-> TRUE, live |-> TRUE, fence |-> f]]
      BY <1>4 DEF AcquireLease
    <3>2. [held |-> TRUE, live |-> TRUE, fence |-> f] \in Lease
      BY <2>0 DEF Lease
    <3> QED
      BY <2>0, <3>1, <3>2, LeaseTypes
  <2> QED
    BY <1>4, <2>1, <2>2 DEF AcquireLease, RequestTypes, TypeOK, jobVars
<1>5. CASE Release(h)
  <2>1. RequestTypes'
    BY <1>5, IdleTypes DEF Release
  <2>2. lease' \in [Collectors -> Lease]
    <3> DEFINE c == CollectorFor(h)
    <3>1. c \in Collectors /\ lease[c] \in Lease
      BY <1>5, IngestAssumption DEF Release, TypeOK, ItemInv, CollectorFor
    <3>2. CASE lease' = lease
      BY <3>2 DEF TypeOK
    <3>3. CASE lease' = [lease EXCEPT ![c].held = FALSE, ![c].live = FALSE]
      <4>1. [lease[c] EXCEPT !.held = FALSE, !.live = FALSE] \in Lease
        BY <3>1 DEF Lease
      <4> QED
        BY <3>1, <3>3, <4>1 DEF TypeOK
    <3> QED
      BY <1>5, <3>2, <3>3 DEF Release
  <2> QED
    BY <1>5, <2>1, <2>2 DEF Release, RequestTypes, TypeOK, jobVars
<1>6. CASE Commit(h) \/ CommitJoined(h)
  <2> DEFINE i == request[h].item
  <2>0. i \in Items /\ Granted(h) /\ Accepts(h) /\ missed' \subseteq missed \cup {i}
    BY <1>6 DEF Commit, CommitJoined, Enqueued, ItemInv, Granted
  <2>1. RequestTypes'
    BY <2>0, GotoTypes DEF Accepts, RequestPc
  <2>2. lease' \in [Collectors -> Lease]
    <3> DEFINE c == CollectorOf[i]
    <3>1. c \in Collectors /\ lease[c] \in Lease
      BY <2>0, IngestAssumption DEF TypeOK
    <3>2. lease' = [lease EXCEPT ![c].live = TRUE]
      BY <2>0 DEF Accepts
    <3>3. [lease[c] EXCEPT !.live = TRUE] \in Lease
      BY <3>1 DEF Lease
    <3> HIDE DEF c
    <3> QED
      BY <3>1, <3>2, <3>3 DEF TypeOK
  <2>3. /\ acceptedUnder' \in [Items -> Nat] /\ accepted' \subseteq Items
        /\ receipts' \subseteq Items /\ missed' \subseteq Items
    BY <2>0 DEF Accepts, TypeOK, Request
  <2>4. JobTypes'
    <3>1. StreamOf[i] \in Streams /\ ManifestOf[i] \in Manifests
      BY <2>0, IngestAssumption
    <3> DEFINE q == Queued(job[StreamOf[i]], ManifestOf[i])
    <3>2. q \in Job /\ q.generation > 0
      <4> DEFINE j == job[StreamOf[i]]
                 m == ManifestOf[i]
      <4>1. j \in Job /\ (j.status # None => j.generation > 0)
        BY <3>1 DEF TypeOK
      <4>2. m \in Manifests
        BY <3>1
      <4>3. q = Queued(j, m)
        OBVIOUS
      <4> HIDE DEF j, m, q
      <4>4. CASE j.status = None
        <5>1. q = [status |-> "queued", manifest |-> m, generation |-> 1]
          BY <4>3, <4>4 DEF Queued, None
        <5> QED
          BY <4>2, <5>1 DEF Job
      <4>5. CASE j.status \in {"failed", "succeeded"}
        <5>1. q = [status |-> "queued", manifest |-> m, generation |-> j.generation + 1]
          BY <4>3, <4>5 DEF Queued, None
        <5>2. j.generation + 1 \in Nat /\ j.generation + 1 > 0
          BY <4>1 DEF Job
        <5> QED
          BY <4>2, <5>1, <5>2 DEF Job
      <4>6. CASE j.status = "queued"
        <5>1. q = j
          BY <4>3, <4>6 DEF Queued, None
        <5> QED
          BY <4>1, <4>6, <5>1 DEF None
      <4> QED
        BY <4>1, <4>4, <4>5, <4>6 DEF Job
    <3>3. job' = [job EXCEPT ![StreamOf[i]] = q] \/ job' = job
      BY <1>6 DEF Commit, CommitJoined, StreamFor
    <3> HIDE DEF q
    <3> QED
      BY <3>1, <3>2, <3>3 DEF TypeOK, JobTypes
  <2> QED
    BY <2>0, <2>1, <2>2, <2>3, <2>4 DEF Accepts, RequestTypes, JobTypes, TypeOK
<1> QED
  BY <1>1, <1>2, <1>3, <1>4, <1>5, <1>6 DEF HandlerStep

\* Only the status of some rows changes, each to one that a job can have.
LEMMA StatusTypes ==
    ASSUME TypeOK, NEW S \in SUBSET Streams, \A s \in S : job[s].status # None,
           NEW v \in [S -> {"queued", "succeeded", "failed"}],
           job' = [s \in Streams |-> IF s \in S THEN [job[s] EXCEPT !.status = v[s]] ELSE job[s]]
    PROVE  JobTypes'
<1>1. ASSUME NEW s \in Streams
      PROVE  job'[s] \in Job /\ (job'[s].status # None => job'[s].generation > 0)
  <2>1. job[s] \in Job /\ (job[s].status # None => job[s].generation > 0)
    BY DEF TypeOK
  <2>2. CASE s \in S
    <3> DEFINE j == job[s]
               w == v[s]
    <3>1. job'[s] = [j EXCEPT !.status = w] /\ w \in {"queued", "succeeded", "failed"} /\ j.status # None
      BY <2>2
    <3> HIDE DEF j, w
    <3>2. [j EXCEPT !.status = w] \in Job
      BY <2>1, <3>1 DEF j, Job
    <3>3. [j EXCEPT !.status = w].generation = j.generation
      BY <2>1 DEF j, Job
    <3> QED
      BY <2>1, <3>1, <3>2, <3>3 DEF j
  <2>3. CASE s \notin S
    BY <2>1, <2>3
  <2> QED
    BY <2>2, <2>3
<1>2. DOMAIN job' = Streams /\ job' = [s \in Streams |-> job'[s]]
  OBVIOUS
<1> QED
  BY <1>1, <1>2 DEF JobTypes

LEMMA ComposerTypes ==
    ASSUME TypeOK, NEW c \in Composers, NEW r \in Composer, composer' = [composer EXCEPT ![c] = r]
    PROVE  composer' \in [Composers -> Composer]
BY DEF TypeOK

LEMMA RestingTypes == Resting \in Composer
BY DEF Resting, Composer

LEMMA ComposingTypes ==
    ASSUME TypeOK, JobInv, NEW c \in Composers, Composing(c) \/ RollBackSlice(c) \/ ComposerDies(c)
    PROVE  TypeOK'
<1>1. ASSUME NEW m \in Manifests \cup {None}, Claim(c, m) PROVE TypeOK'
  <2> DEFINE k == [s \in Streams |-> IF s \in QueuedFor(m) THEN job[s].generation ELSE 0]
             r == [Resting EXCEPT !.pc = "claimed", !.manifest = m, !.claims = k]
  <2>1. k \in [Streams -> Nat]
    BY DEF TypeOK, Job
  <2>2. composer' = [composer EXCEPT ![c] = r]
    BY <1>1 DEF Claim
  <2> HIDE DEF k
  <2>3. r \in Composer
    BY <2>1 DEF Resting, Composer
  <2> HIDE DEF r
  <2>4. composer' \in [Composers -> Composer]
    BY <2>2, <2>3, ComposerTypes
  <2> QED
    BY <1>1, <2>4 DEF Claim, TypeOK, leaseVars
<1>2. CASE ReadEvidence(c)
  <2> DEFINE e == [s \in Streams |-> IF s \in Claimed(c) THEN Evidence(s, composer[c].manifest) ELSE {}]
             r == [composer[c] EXCEPT !.pc = "composing", !.inputs = e]
  <2>1. e \in [Streams -> SUBSET Items]
    BY DEF TypeOK, Evidence
  <2>2. composer' = [composer EXCEPT ![c].pc = "composing", ![c].inputs = e]
    BY <1>2 DEF ReadEvidence
  <2> HIDE DEF e
  <2>3. r \in Composer
    <3> DEFINE k == composer[c]
    <3>1. k \in Composer
      BY DEF TypeOK
    <3> HIDE DEF k
    <3>2. [k EXCEPT !.pc = "composing", !.inputs = e] \in Composer
      BY <2>1, <3>1 DEF Composer
    <3> QED
      BY <3>2 DEF k
  <2>4. composer' = [composer EXCEPT ![c] = r]
    BY <2>2 DEF TypeOK, Composer
  <2> HIDE DEF r
  <2>5. composer' \in [Composers -> Composer]
    BY <2>3, <2>4, ComposerTypes
  <2> QED
    BY <1>2, <2>5 DEF ReadEvidence, TypeOK, leaseVars
<1>3. ASSUME NEW done \in SUBSET Streams, Finish(c, done) PROVE TypeOK'
  <2> DEFINE v == [s \in Claimed(c) |-> IF s \in done THEN "succeeded" ELSE "failed"]
  <2>1. v \in [Claimed(c) -> {"queued", "succeeded", "failed"}] /\ Claimed(c) \in SUBSET Streams
    BY DEF Claimed
  <2>2. \A s \in Claimed(c) : job[s].status # None
    BY <1>3, <2>1 DEF Finish, JobInv, Holds, None
  <2>3. job' = [s \in Streams |-> IF s \in Claimed(c) THEN [job[s] EXCEPT !.status = v[s]] ELSE job[s]]
    BY <1>3, <2>1 DEF Finish
  <2> HIDE DEF v
  <2>4. JobTypes'
    BY <2>1, <2>2, <2>3, StatusTypes
  <2>5. composed' \in [Streams -> SUBSET Items]
    BY <1>3 DEF Finish, TypeOK, Composer
  <2>6. composer' \in [Composers -> Composer]
    BY <1>3, ComposerTypes, RestingTypes DEF Finish
  <2> QED
    BY <1>3, <2>4, <2>5, <2>6 DEF Finish, JobTypes, TypeOK, leaseVars
<1>4. CASE MarkFailed(c)
  <2> DEFINE F == {s \in Claimed(c) : /\ job[s].status = "queued"
                                      /\ job[s].generation = composer[c].claims[s]}
             v == [s \in F |-> "failed"]
  <2>1. F \in SUBSET Streams /\ v \in [F -> {"queued", "succeeded", "failed"}]
    BY DEF Claimed
  <2>2. \A s \in F : job[s].status # None
    BY DEF None
  <2>3. job' = [s \in Streams |-> IF s \in F THEN [job[s] EXCEPT !.status = v[s]] ELSE job[s]]
    BY <1>4 DEF MarkFailed
  <2>4. composer' \in [Composers -> Composer]
    BY <1>4, ComposerTypes, RestingTypes DEF MarkFailed
  <2> HIDE DEF F, v
  <2>5. JobTypes'
    BY <2>1, <2>2, <2>3, StatusTypes
  <2> QED
    BY <1>4, <2>4, <2>5 DEF MarkFailed, JobTypes, TypeOK, leaseVars
<1>5. CASE RollBackSlice(c)
  <2>1. composer' \in [Composers -> Composer]
    <3> DEFINE k == composer[c]
               r == [k EXCEPT !.pc = "marking"]
    <3>1. k \in Composer /\ composer' = [composer EXCEPT ![c] = r]
      BY <1>5 DEF RollBackSlice, TypeOK
    <3> HIDE DEF k
    <3>2. r \in Composer
      BY <3>1 DEF Composer
    <3> HIDE DEF r
    <3> QED
      BY <3>1, <3>2, ComposerTypes
  <2> QED
    BY <1>5, <2>1 DEF RollBackSlice, TypeOK, leaseVars
<1>6. CASE ComposerDies(c)
  <2>1. composer' \in [Composers -> Composer]
    BY <1>6, ComposerTypes, RestingTypes DEF ComposerDies
  <2>2. crashes' \in 0 .. MaxCrashes
    BY <1>6, IngestAssumption DEF ComposerDies, TypeOK
  <2> QED
    BY <1>6, <2>1, <2>2 DEF ComposerDies, TypeOK, leaseVars
<1> QED
  BY <1>1, <1>2, <1>3, <1>4, <1>5, <1>6 DEF Composing

\* The clock, manifests, arriving envelopes and operators.
OtherStep ==
    \/ \E m \in Manifests : IssueManifest(m) \/ CloseManifest(m)
    \/ \E h \in Handlers, i \in Items : Receive(h, i)
    \/ \E c \in Collectors : ExpireLease(c)
    \/ \E s \in Streams : RetryRead(s) \/ RetryWrite(s) \/ ScopedRepair(s)
    \/ \E first \in [Streams -> Manifests] : ReconcilePending(first)

LEMMA OtherTypes ==
    ASSUME TypeOK, JobInv, OtherStep
    PROVE  TypeOK'
<1>1. ASSUME NEW m \in Manifests, IssueManifest(m) \/ CloseManifest(m) PROVE TypeOK'
  BY <1>1 DEF IssueManifest, CloseManifest, TypeOK, leaseVars, jobVars
<1>2. ASSUME NEW h \in Handlers, NEW i \in Items, Receive(h, i) PROVE TypeOK'
  <2>1. RequestTypes'
    BY <1>2 DEF Receive, RequestTypes, TypeOK, Request, RequestPc
  <2> QED
    BY <1>2, <2>1 DEF Receive, RequestTypes, TypeOK, leaseVars, jobVars
<1>3. ASSUME NEW c \in Collectors, ExpireLease(c) PROVE TypeOK'
  <2>1. [lease[c] EXCEPT !.live = FALSE] \in Lease
    BY DEF TypeOK, Lease
  <2>2. lease' \in [Collectors -> Lease]
    BY <1>3, <2>1 DEF ExpireLease, TypeOK
  <2> QED
    BY <1>3, <2>2 DEF ExpireLease, TypeOK, jobVars
<1>4. ASSUME NEW s \in Streams, RetryRead(s) PROVE TypeOK'
  BY <1>4 DEF RetryRead, TypeOK, leaseVars
<1>5. ASSUME NEW s \in Streams, RetryWrite(s) PROVE TypeOK'
  <2> DEFINE v == [t \in {s} |-> "queued"]
  <2>1. v \in [{s} -> {"queued", "succeeded", "failed"}] /\ {s} \in SUBSET Streams
    OBVIOUS
  <2>2. \A t \in {s} : job[t].status # None
    BY <1>5 DEF RetryWrite, JobInv
  <2>3. job' = [t \in Streams |-> IF t \in {s} THEN [job[t] EXCEPT !.status = v[t]] ELSE job[t]]
    BY <1>5 DEF RetryWrite, TypeOK
  <2> HIDE DEF v
  <2>4. JobTypes'
    BY <2>1, <2>2, <2>3, StatusTypes
  <2> QED
    BY <1>5, <2>4 DEF RetryWrite, JobTypes, TypeOK, leaseVars
<1>6. ASSUME NEW first \in [Streams -> Manifests], ReconcilePending(first) PROVE TypeOK'
  <2>1. ASSUME NEW s \in Streams
        PROVE  job'[s] \in Job /\ (job'[s].status # None => job'[s].generation > 0)
    <3>1. job[s] \in Job /\ (job[s].status # None => job[s].generation > 0)
      BY DEF TypeOK
    <3>2. CASE job'[s] = job[s]
      BY <3>1, <3>2
    <3>3. CASE job'[s] = [status |-> "queued", manifest |-> first[s], generation |-> job[s].generation + 1]
      <4>1. job[s].generation + 1 \in Nat /\ job[s].generation + 1 > 0
        BY <3>1 DEF Job
      <4>2. first[s] \in Manifests
        OBVIOUS
      <4> QED
        BY <3>3, <4>1, <4>2 DEF Job
    <3> QED
      BY <1>6, <3>2, <3>3 DEF ReconcilePending
  <2>2. job' = [s \in Streams |-> job'[s]]
    BY <1>6 DEF ReconcilePending
  <2>3. JobTypes'
    BY <2>1, <2>2 DEF JobTypes
  <2> QED
    BY <1>6, <2>3 DEF ReconcilePending, JobTypes, TypeOK, leaseVars
<1>7. ASSUME NEW s \in Streams, ScopedRepair(s) PROVE TypeOK'
  <2>1. [status |-> "queued", manifest |-> None, generation |-> 1] \in Job
    BY DEF Job
  <2>2. JobTypes'
    BY <1>7, <2>1 DEF ScopedRepair, JobTypes, TypeOK
  <2> QED
    BY <1>7, <2>2 DEF ScopedRepair, JobTypes, TypeOK, leaseVars
<1> QED
  BY <1>1, <1>2, <1>3, <1>4, <1>5, <1>6, <1>7 DEF OtherStep

-----------------------------------------------------------------------------
(***************************************************************************)
(* Requests.                                                               *)
(***************************************************************************)

\* Every request but that of h stays as it is.
Alone(h) == \A g \in Handlers \ {h} : request'[g] = request[g]

\* Request h keeps its envelope and its fence and goes to p.
Moves(h, p) == Alone(h) /\ request'[h] = [request[h] EXCEPT !.pc = p]

LEMMA GotoMoves ==
    ASSUME TypeOK, NEW h \in Handlers, NEW p, Goto(h, p)
    PROVE  Moves(h, p) /\ request'[h].pc = p /\ request'[h].item = request[h].item
                       /\ request'[h].fence = request[h].fence
BY DEF TypeOK, Goto, Moves, Alone, Request

\* Request h ends, or has only arrived.
Rests(h) == Alone(h) /\ request'[h].pc \in {"idle", "received"}

LEMMA KeepItem ==
    ASSUME ItemInv, NEW h \in Handlers, Alone(h),
           request'[h].pc # "idle" => request'[h].item \in Items
    PROVE  ItemInv'
BY DEF ItemInv, Alone

LEMMA KeepKey ==
    ASSUME KeyInv, NEW h \in Handlers, Alone(h), UNCHANGED <<accepted, receipts>>,
           Inserted(h)' => Inserted(h) /\ request'[h].item = request[h].item
    PROVE  KeyInv'
BY DEF KeyInv, Alone, Inserted, Stored, ReceiptsMatch

LEMMA KeepFence ==
    ASSUME FenceInv, NEW h \in Handlers, Alone(h), UNCHANGED <<accepted, acceptedUnder>>,
           \A c \in Collectors : lease'[c].fence = lease[c].fence,
           ItemInv, ItemInv', TypeOK,
           Granted(h)' => Granted(h) /\ request'[h].item = request[h].item
                                    /\ request'[h].fence = request[h].fence,
           MayCommit(h)' => MayCommit(h)
    PROVE  FenceInv'
<1>1. \A g \in Handlers : Granted(g)' => /\ Granted(g) /\ request'[g].fence = request[g].fence
                                        /\ CollectorFor(g)' = CollectorFor(g)
                                        /\ CollectorFor(g) \in Collectors
  BY IngestAssumption DEF Alone, Granted, CollectorFor, ItemInv
<1>2. \A g \in Handlers : MayCommit(g)' => MayCommit(g) /\ Granted(g)'
  BY DEF Alone, MayCommit, Granted
<1>3. \A j \in accepted : CollectorOf[j] \in Collectors
  BY IngestAssumption DEF TypeOK
<1> QED
  BY <1>1, <1>2, <1>3 DEF FenceInv

\* The job half of the state as far as requests see it.
LEMMA KeepJob ==
    ASSUME JobInv, NEW h \in Handlers, Alone(h), UNCHANGED <<accepted, job, composed, missed, composer, retrying>>,
           request'[h].pc = "enqueued" => /\ job[StreamFor(h)'].status # None
                                          /\ \A c \in Composers : ~Holds(c, StreamFor(h)')
    PROVE  JobInv'
<1>1. \A c \in Composers, s \in Streams : Holds(c, s)' <=> Holds(c, s)
  BY DEF Holds, Claimed
<1>2. \A c \in Composers, s \in Streams : Holds(c, s) => ~LockedByHandler(s)'
  <2> SUFFICES ASSUME NEW c \in Composers, NEW s \in Streams, Holds(c, s),
                      NEW g \in Handlers, request'[g].pc = "enqueued", StreamFor(g)' = s
               PROVE  FALSE
    BY DEF LockedByHandler
  <2>1. CASE g = h
    BY <2>1
  <2>2. CASE g # h
    BY <2>2 DEF Alone, StreamFor, JobInv, LockedByHandler
  <2> QED BY <2>1, <2>2
<1>3. \A c \in Composers, s \in Streams : Evidence(s, composer[c].manifest)' = Evidence(s, composer[c].manifest)
  BY DEF Evidence
<1>4. \A g \in Handlers : request'[g].pc = "enqueued" => job[StreamFor(g)'].status # None
  BY DEF Alone, StreamFor, JobInv
<1>5. SucceededCoversManifest'
  BY DEF JobInv, SucceededCoversManifest, Evidence
<1> QED
  BY <1>1, <1>2, <1>3, <1>4, <1>5 DEF JobInv

Links == ItemInv /\ KeyInv /\ FenceInv /\ JobInv

\* Steps that end a request or let one arrive.
LEMMA RestStep ==
    ASSUME TypeOK, Links, NEW h \in Handlers, Rests(h),
           request'[h].pc # "idle" => request'[h].item \in Items,
           UNCHANGED <<accepted, acceptedUnder, receipts, job, composed, missed, composer, retrying>>,
           \A c \in Collectors : lease'[c].fence = lease[c].fence
    PROVE  Links'
<1>1. Alone(h) /\ ~Inserted(h)' /\ ~Granted(h)' /\ ~MayCommit(h)' /\ request'[h].pc # "enqueued"
  BY DEF Rests, Inserted, Granted, MayCommit
<1>2. ItemInv'
  BY <1>1, KeepItem DEF Links
<1>3. KeyInv'
  BY <1>1, KeepKey DEF Links
<1>4. FenceInv'
  BY <1>1, <1>2, KeepFence DEF Links
<1>5. JobInv'
  BY <1>1, KeepJob DEF Links
<1> QED
  BY <1>2, <1>3, <1>4, <1>5 DEF Links

\* Steps of a granted request that neither insert, lock nor commit.
LEMMA MoveStep ==
    ASSUME TypeOK, Links, NEW h \in Handlers, NEW p, Goto(h, p), Granted(h),
           \/ p = "leaving"
           \/ p = "checked" /\ MayCommit(h)
           \/ p \in {"unfound", "unseen", "joined", "creating"} /\ Inserted(h),
           UNCHANGED <<lease, accepted, acceptedUnder, receipts, job, composed, missed, composer, retrying>>
    PROVE  Links'
<1>1. /\ Alone(h) /\ request'[h].pc = p
      /\ request'[h].item = request[h].item /\ request'[h].fence = request[h].fence
  BY GotoMoves DEF Moves
<1>2. ItemInv'
  BY <1>1, KeepItem DEF Links, ItemInv, Granted
<1>3. KeyInv'
  BY <1>1, KeepKey DEF Links, Inserted
<1>4. FenceInv'
  BY <1>1, <1>2, KeepFence DEF Links, Granted, MayCommit, Inserted
<1>5. JobInv'
  BY <1>1, KeepJob DEF Links
<1> QED
  BY <1>2, <1>3, <1>4, <1>5 DEF Links

\* A replay returns a receipt of a stored observation.
LEMMA ReplayStep ==
    ASSUME TypeOK, Links, NEW h \in Handlers, Replay(h)
    PROVE  Links'
<1>1. /\ Alone(h) /\ request'[h].pc = "leaving"
      /\ request'[h].item = request[h].item /\ request'[h].fence = request[h].fence
  BY GotoMoves DEF Moves, Replay
<1>2. ItemInv'
  BY <1>1, KeepItem DEF Links, ItemInv, Replay
<1>3. KeyInv'
  BY <1>1 DEF Links, KeyInv, Inserted, Alone, Stored, ReceiptsMatch, Replay, Matches
<1>4. FenceInv'
  BY <1>1, <1>2, KeepFence DEF Links, Granted, MayCommit, Replay, leaseVars
<1>5. JobInv'
  BY <1>1, KeepJob DEF Links, Replay, jobVars
<1> QED
  BY <1>2, <1>3, <1>4, <1>5 DEF Links

\* The unique index admits one insertion of a key.
LEMMA InsertStep ==
    ASSUME TypeOK, Links, NEW h \in Handlers, Insert(h)
    PROVE  Links'
<1>0. CASE Stored(request[h].item)
  BY <1>0, MoveStep DEF Insert, Granted, leaseVars, jobVars
<1>a. CASE ~Stored(request[h].item)
  <2>1. /\ Alone(h) /\ request'[h].pc = "inserted"
        /\ request'[h].item = request[h].item /\ request'[h].fence = request[h].fence
    BY <1>a, GotoMoves DEF Moves, Insert
  <2>2. ItemInv'
    BY <2>1, KeepItem DEF Links, ItemInv, Insert
  <2>3. KeyInv'
    <3>1. \A g \in Handlers : request'[g].item = request[g].item =>
            (Stored(request[g].item)' <=> Stored(request[g].item))
      BY DEF Insert, Stored
    <3>2. \A g \in Handlers \ {h} : Inserted(g)' => Inserted(g) /\ request'[g].item = request[g].item
                                                 /\ KeyOf[request[g].item] # KeyOf[request[h].item]
      BY <2>1 DEF Insert, Inserted, Alone
    <3>3. \A g \in Handlers : Inserted(g)' => ~Stored(request[g].item)'
      BY <2>1, <3>1, <3>2, <1>a DEF Links, KeyInv
    <3>4. \A f, g \in Handlers :
            Inserted(f)' /\ Inserted(g)' /\ KeyOf[request'[f].item] = KeyOf[request'[g].item] => f = g
      BY <2>1, <3>2 DEF Links, KeyInv
    <3>5. ReceiptsMatch'
      BY DEF Links, KeyInv, ReceiptsMatch, Insert
    <3> QED
      BY <3>3, <3>4, <3>5 DEF KeyInv
  <2>4. FenceInv'
    BY <2>1, <2>2, KeepFence DEF Links, Granted, MayCommit, Insert, leaseVars
  <2>5. JobInv'
    BY <2>1, KeepJob DEF Links, Insert, jobVars
  <2> QED
    BY <2>2, <2>3, <2>4, <2>5 DEF Links
<1> QED
  BY <1>0, <1>a

\* enqueue_for_observation takes a job row nobody holds, or gives up.
LEMMA LockStep ==
    ASSUME TypeOK, Links, NEW h \in Handlers, LockJob(h)
    PROVE  Links'
<1>0. CASE Locked(StreamFor(h))
  BY <1>0, MoveStep DEF LockJob, Granted, leaseVars, jobVars
<1>a. CASE ~Locked(StreamFor(h))
  <2>1. /\ Alone(h) /\ request'[h].pc = "enqueued"
        /\ request'[h].item = request[h].item /\ request'[h].fence = request[h].fence
    BY <1>a, GotoMoves DEF Moves, LockJob
  <2>2. ItemInv'
    BY <2>1, KeepItem DEF Links, ItemInv, LockJob
  <2>3. KeyInv'
    BY <2>1, KeepKey DEF Links, Inserted, LockJob
  <2>4. FenceInv'
    BY <2>1, <2>2, KeepFence DEF Links, Granted, MayCommit, LockJob, leaseVars
  <2>5. StreamFor(h)' = StreamFor(h) /\ job[StreamFor(h)].status # None
    BY <2>1 DEF StreamFor, LockJob
  <2>6. \A c \in Composers : ~Holds(c, StreamFor(h))
    BY <1>a DEF Locked, LockedByComposer, Holds
  <2>7. JobInv'
    BY <2>1, <2>5, <2>6, KeepJob DEF Links, LockJob, jobVars
  <2> QED
    BY <2>2, <2>3, <2>4, <2>7 DEF Links
<1> QED
  BY <1>0, <1>a

\* A grant takes a fence no request and no stored observation has.
LEMMA AcquireStep ==
    ASSUME TypeOK, Links, NEW h \in Handlers, AcquireLease(h)
    PROVE  Links'
<1> DEFINE c == CollectorFor(h)
<1>1. request[h].item \in Items /\ c \in Collectors /\ lease[c].fence \in Nat
  BY IngestAssumption DEF AcquireLease, Links, ItemInv, CollectorFor, TypeOK, Lease
<1>2. /\ Alone(h) /\ request'[h].pc = "leased" /\ request'[h].item = request[h].item
      /\ request'[h].fence = lease[c].fence + 1
  BY DEF AcquireLease, TypeOK, Request, Alone
<1>3. /\ lease'[c].fence = lease[c].fence + 1
      /\ \A d \in Collectors \ {c} : lease'[d] = lease[d]
  BY <1>1 DEF AcquireLease, TypeOK
<1>4. ItemInv'
  BY <1>1, <1>2, KeepItem DEF Links
<1>5. KeyInv'
  BY <1>2, KeepKey DEF Links, Inserted, AcquireLease
<1>6. JobInv'
  BY <1>2, KeepJob DEF Links, AcquireLease, jobVars
<1>7. FenceInv'
  <2>1. \A d \in Collectors : lease[d].fence \in Nat /\ lease'[d].fence \in Nat /\ lease[d].fence <= lease'[d].fence
    BY <1>1, <1>3 DEF TypeOK, Lease
  <2>2. \A j \in accepted : /\ CollectorOf[j] \in Collectors /\ acceptedUnder[j] \in Nat
                            /\ acceptedUnder[j] <= lease[CollectorOf[j]].fence
    BY IngestAssumption DEF TypeOK, Links, FenceInv
  <2>3. \A g \in Handlers \ {h} : Granted(g)' =>
            /\ Granted(g) /\ request'[g] = request[g] /\ request[g].fence \in Nat
            /\ CollectorFor(g)' = CollectorFor(g) /\ CollectorFor(g) \in Collectors
            /\ request[g].fence <= lease[CollectorFor(g)].fence
    BY <1>2, IngestAssumption DEF Alone, Granted, CollectorFor, TypeOK, Request, Links, ItemInv, FenceInv
  <2>4. CollectorFor(h)' = c
    BY <1>2 DEF CollectorFor
  <2> HIDE DEF c
  <2>5. \A j \in accepted' : acceptedUnder'[j] <= lease'[CollectorOf[j]].fence
    BY <2>1, <2>2 DEF AcquireLease
  <2>6. \A g \in Handlers : Granted(g)' => request'[g].fence <= lease'[CollectorFor(g)'].fence
    BY <1>1, <1>2, <1>3, <2>1, <2>3, <2>4
  <2>7. \A g \in Handlers \ {h} : Granted(g)' /\ CollectorFor(g)' = c => request'[g].fence # request'[h].fence
    BY <1>1, <1>2, <2>3
  <2>8. \A f, g \in Handlers :
            Granted(f)' /\ Granted(g)' /\ CollectorFor(f)' = CollectorFor(g)'
            /\ request'[f].fence = request'[g].fence => f = g
    BY <2>3, <2>4, <2>7 DEF Links, FenceInv
  <2>9. \A g \in Handlers : \A j \in accepted' :
            MayCommit(g)' /\ CollectorOf[j] = CollectorFor(g)' => acceptedUnder'[j] # request'[g].fence
    <3> SUFFICES ASSUME NEW g \in Handlers, NEW j \in accepted, MayCommit(g)',
                        CollectorOf[j] = CollectorFor(g)'
                 PROVE  acceptedUnder[j] # request'[g].fence
      BY DEF AcquireLease
    <3>1. CASE g = h
      BY <3>1, <1>1, <1>2, <2>2, <2>4
    <3>2. CASE g # h
      <4>1. Granted(g)'
        BY DEF MayCommit, Granted
      <4>2. MayCommit(g) /\ request'[g] = request[g] /\ CollectorFor(g)' = CollectorFor(g)
        BY <3>2, <4>1, <2>3 DEF MayCommit
      <4> QED
        BY <4>2 DEF Links, FenceInv
    <3> QED BY <3>1, <3>2
  <2> QED
    BY <2>5, <2>6, <2>8, <2>9 DEF FenceInv
<1> QED
  BY <1>4, <1>5, <1>6, <1>7 DEF Links

LEMMA QueuedIsQueued ==
    ASSUME NEW j \in Job, NEW m
    PROVE  Queued(j, m).status = "queued"
BY DEF Queued, Job, None

\* A commit stores an observation whose key is new, under a fence that is new.
LEMMA AcceptStep ==
    ASSUME TypeOK, Links, NEW h \in Handlers, Accepts(h),
           request[h].pc \in {"enqueued", "joined", "creating"}
    PROVE  ItemInv' /\ KeyInv' /\ FenceInv'
<1> DEFINE i == request[h].item
           c == CollectorOf[i]
<1>1. i \in Items /\ c \in Collectors
  BY IngestAssumption DEF Links, ItemInv
<1>2. /\ Alone(h) /\ request'[h].pc = "leaving"
      /\ request'[h].item = request[h].item /\ request'[h].fence = request[h].fence
  BY GotoMoves DEF Moves, Accepts
<1>3. ItemInv'
  BY <1>1, <1>2, KeepItem DEF Links
<1>4. accepted' = accepted \cup {i} /\ receipts' = receipts \cup {i}
  BY DEF Accepts
<1>5. Inserted(h) /\ ~Stored(i)
  BY <1>1 DEF Inserted, Links, KeyInv
<1>6. KeyInv'
  <2>1. \A g \in Handlers : Inserted(g)' => /\ g # h /\ Inserted(g) /\ request'[g] = request[g]
                                           /\ KeyOf[request[g].item] # KeyOf[i]
    BY <1>2, <1>5 DEF Inserted, Alone, Links, KeyInv
  <2> HIDE DEF i
  <2>2. \A g \in Handlers : Inserted(g)' => ~Stored(request[g].item)'
    BY <2>1, <1>4 DEF Links, KeyInv, Stored
  <2>3. \A f, g \in Handlers :
          Inserted(f)' /\ Inserted(g)' /\ KeyOf[request'[f].item] = KeyOf[request'[g].item] => f = g
    BY <2>1 DEF Links, KeyInv
  <2>4. ReceiptsMatch'
    BY <1>4, <1>5 DEF Links, KeyInv, ReceiptsMatch, Stored
  <2> QED
    BY <2>2, <2>3, <2>4 DEF KeyInv
<1>7. FenceInv'
  <2>1. \A d \in Collectors : lease'[d].fence = lease[d].fence
    BY <1>1 DEF Accepts, TypeOK, Lease
  <2>2. acceptedUnder'[i] = request[h].fence /\ request[h].fence = lease[c].fence /\ i \notin accepted
    BY <1>1, <1>5 DEF Accepts, LeaseHeld, CollectorFor, TypeOK, Stored
  <2>3. \A j \in accepted : /\ acceptedUnder'[j] = acceptedUnder[j] /\ CollectorOf[j] \in Collectors
    BY <2>2, IngestAssumption DEF Accepts, TypeOK
  <2>4. \A g \in Handlers : Granted(g)' =>
            /\ Granted(g) /\ request'[g].fence = request[g].fence
            /\ CollectorFor(g)' = CollectorFor(g) /\ CollectorFor(g) \in Collectors
    BY <1>1, <1>2, IngestAssumption DEF Alone, Granted, CollectorFor, Links, ItemInv
  <2>5. \A g \in Handlers : MayCommit(g)' => g # h /\ MayCommit(g) /\ Granted(g)' /\ Granted(h)
    BY <1>1, <1>2 DEF Alone, MayCommit, Granted
  <2>6. CollectorFor(h) = c
    BY DEF CollectorFor
  <2>7. lease[c].fence \in Nat
    BY <1>1 DEF TypeOK, Lease
  <2> HIDE DEF i, c
  <2>8. \A j \in accepted' : acceptedUnder'[j] <= lease'[CollectorOf[j]].fence
    <3>1. acceptedUnder'[i] <= lease'[c].fence
      BY <1>1, <2>1, <2>2, <2>7
    <3>2. \A j \in accepted : acceptedUnder'[j] <= lease'[CollectorOf[j]].fence
      BY <2>1, <2>3 DEF Links, FenceInv
    <3> QED
      BY <1>4, <3>1, <3>2 DEF c
  <2>9. \A g \in Handlers : Granted(g)' => request'[g].fence <= lease'[CollectorFor(g)'].fence
    BY <2>1, <2>4 DEF Links, FenceInv
  <2>10. \A f, g \in Handlers :
            Granted(f)' /\ Granted(g)' /\ CollectorFor(f)' = CollectorFor(g)'
            /\ request'[f].fence = request'[g].fence => f = g
    BY <2>4 DEF Links, FenceInv
  <2>11. \A g \in Handlers : \A j \in accepted' :
            MayCommit(g)' /\ CollectorOf[j] = CollectorFor(g)' => acceptedUnder'[j] # request'[g].fence
    <3> SUFFICES ASSUME NEW g \in Handlers, NEW j \in accepted', MayCommit(g)',
                        CollectorOf[j] = CollectorFor(g)'
                 PROVE  acceptedUnder'[j] # request'[g].fence
      OBVIOUS
    <3>1. CASE j \in accepted
      BY <3>1, <2>3, <2>4, <2>5 DEF Links, FenceInv
    <3>2. CASE j = i
      BY <3>2, <2>2, <2>4, <2>5, <2>6 DEF Links, FenceInv, c
    <3> QED BY <1>4, <3>1, <3>2
  <2> QED
    BY <2>8, <2>9, <2>10, <2>11 DEF FenceInv
<1> QED
  BY <1>3, <1>6, <1>7

\* What every commit leaves of the job half.
LEMMA AcceptLeaves ==
    ASSUME TypeOK, Links, NEW h \in Handlers, Accepts(h)
    PROVE  /\ UNCHANGED <<composed, composer, retrying>>
           /\ \A d \in Composers, t \in Streams : Holds(d, t)' <=> Holds(d, t)
           /\ \A t \in Streams : LockedByHandler(t)' => LockedByHandler(t)
           /\ \A g \in Handlers : request'[g].pc = "enqueued" =>
                  /\ request[g].pc = "enqueued"
                  /\ StreamFor(g)' = StreamFor(g) /\ StreamFor(g) \in Streams
<1>1. Alone(h) /\ request'[h].pc = "leaving"
  BY GotoMoves DEF Moves, Accepts
<1>2. UNCHANGED <<composed, composer, retrying>>
  BY DEF Accepts
<1>3. \A d \in Composers, t \in Streams : Holds(d, t)' <=> Holds(d, t)
  BY <1>2 DEF Holds, Claimed
<1>4. \A g \in Handlers : request'[g].pc = "enqueued" =>
         /\ request[g].pc = "enqueued"
         /\ StreamFor(g)' = StreamFor(g) /\ StreamFor(g) \in Streams
  BY <1>1, IngestAssumption DEF Alone, StreamFor, Links, ItemInv
<1>5. \A t \in Streams : LockedByHandler(t)' => LockedByHandler(t)
  BY <1>4 DEF LockedByHandler
<1> QED
  BY <1>2, <1>3, <1>4, <1>5

\* A commit that locked or creates the job row queues a job no composer holds.
LEMMA CommitStep ==
    ASSUME TypeOK, Links, NEW h \in Handlers, Commit(h)
    PROVE  Links'
<1> DEFINE i == request[h].item
           s == StreamFor(h)
<1>1. Accepts(h) /\ request[h].pc \in {"enqueued", "creating"} /\ i \in Items /\ s \in Streams
  BY IngestAssumption DEF Commit, Enqueued, Links, ItemInv, StreamFor
<1>2. ItemInv' /\ KeyInv' /\ FenceInv'
  BY <1>1, AcceptStep
<1>3. /\ UNCHANGED <<composed, composer, retrying, missed>>
      /\ \A d \in Composers, t \in Streams : Holds(d, t)' <=> Holds(d, t)
      /\ \A t \in Streams : LockedByHandler(t)' => LockedByHandler(t)
      /\ \A g \in Handlers : request'[g].pc = "enqueued" =>
             request[g].pc = "enqueued" /\ StreamFor(g)' = StreamFor(g) /\ StreamFor(g) \in Streams
  BY <1>1, AcceptLeaves DEF Commit
<1>a. \A t \in Streams \ {s} : \A m : Evidence(t, m)' = Evidence(t, m)
  BY <1>1 DEF Accepts, Evidence, StreamFor
<1>4. job'[s].status = "queued" /\ \A t \in Streams \ {s} : job'[t] = job[t]
  <2>1. job[s] \in Job
    BY <1>1 DEF TypeOK
  <2>2. job' = [job EXCEPT ![s] = Queued(job[s], ManifestOf[i])]
    BY DEF Commit
  <2> HIDE DEF s, i
  <2> QED
    BY <1>1, <2>1, <2>2, QueuedIsQueued DEF TypeOK
<1>5. \A d \in Composers : ~Holds(d, s)
  BY <1>1 DEF Commit, Enqueued, Links, JobInv, LockedByHandler, None
<1> HIDE DEF s, i
<1>6. ASSUME NEW d \in Composers, NEW t \in Streams, Holds(d, t)'
      PROVE  /\ job'[t].status = "queued"
             /\ job'[t].manifest = composer'[d].manifest
             /\ ~LockedByHandler(t)'
             /\ composer'[d].pc = "composing" =>
                    Evidence(t, composer[d].manifest)' \subseteq composer'[d].inputs[t] \cup missed'
  <2>1. Holds(d, t) /\ t # s /\ composer' = composer
    BY <1>3, <1>5, <1>6
  <2>2. Evidence(t, composer[d].manifest)' = Evidence(t, composer[d].manifest)
    <3> DEFINE m == composer[d].manifest
    <3>1. Evidence(t, m)' = Evidence(t, m)
      BY <1>a, <2>1 DEF Evidence
    <3> QED
      BY <2>1, <3>1 DEF Evidence
  <2> QED
    BY <1>3, <1>4, <2>1, <2>2 DEF Links, JobInv
<1>7. \A d, e \in Composers, t \in Streams : Holds(d, t)' /\ Holds(e, t)' => d = e
  BY <1>3 DEF Links, JobInv
<1>8. \A g \in Handlers : request'[g].pc = "enqueued" => job'[StreamFor(g)'].status # None
  BY <1>3, <1>4 DEF Links, JobInv, None
<1>9. \A t \in retrying' : job'[t].status # None
  BY <1>3, <1>4 DEF TypeOK, Links, JobInv, None
<1>10. SucceededCoversManifest'
  <2> SUFFICES ASSUME NEW t \in Streams, job'[t].status = "succeeded"
               PROVE  Evidence(t, job[t].manifest)' \subseteq composed'[t] \cup missed'
    BY DEF SucceededCoversManifest
  <2>1. t # s /\ job'[t] = job[t]
    BY <1>4
  <2>2. Evidence(t, job[t].manifest)' = Evidence(t, job[t].manifest)
    BY <1>a, <2>1 DEF Evidence
  <2> QED
    BY <1>3, <2>1, <2>2 DEF Links, JobInv, SucceededCoversManifest
<1> QED
  BY <1>2, <1>6, <1>7, <1>8, <1>9, <1>10 DEF Links, JobInv

\* A commit that joined the row of another request leaves the job as it is; what
\* it adds past a composition's evidence is missed.
LEMMA JoinedStep ==
    ASSUME TypeOK, Links, NEW h \in Handlers, CommitJoined(h)
    PROVE  Links'
<1> DEFINE i == request[h].item
           s == StreamFor(h)
<1>1. Accepts(h) /\ request[h].pc = "joined" /\ i \in Items /\ s \in Streams
  BY IngestAssumption DEF CommitJoined, Links, ItemInv, StreamFor
<1>2. ItemInv' /\ KeyInv' /\ FenceInv'
  BY <1>1, AcceptStep
<1>3. /\ UNCHANGED <<composed, composer, retrying, job>>
      /\ \A d \in Composers, t \in Streams : Holds(d, t)' <=> Holds(d, t)
      /\ \A t \in Streams : LockedByHandler(t)' => LockedByHandler(t)
      /\ \A g \in Handlers : request'[g].pc = "enqueued" =>
             request[g].pc = "enqueued" /\ StreamFor(g)' = StreamFor(g) /\ StreamFor(g) \in Streams
  BY <1>1, AcceptLeaves DEF CommitJoined
<1>4. \A t \in Streams : \A m : Evidence(t, m)' \subseteq Evidence(t, m) \cup
                                      (IF t = s THEN {i} ELSE {})
  BY <1>1 DEF Accepts, Evidence, StreamFor
<1>5. missed \subseteq missed' /\ (TooLate(s) => i \in missed')
  BY DEF CommitJoined
<1> HIDE DEF s, i
<1>6. ASSUME NEW d \in Composers, NEW t \in Streams, Holds(d, t)'
      PROVE  /\ job'[t].status = "queued"
             /\ job'[t].manifest = composer'[d].manifest
             /\ ~LockedByHandler(t)'
             /\ composer'[d].pc = "composing" =>
                    Evidence(t, composer[d].manifest)' \subseteq composer'[d].inputs[t] \cup missed'
  <2>1. Holds(d, t) /\ composer' = composer /\ job' = job
    BY <1>3, <1>6
  <2>2. ASSUME composer[d].pc = "composing"
        PROVE  Evidence(t, composer[d].manifest)' \subseteq composer[d].inputs[t] \cup missed'
    <3> DEFINE m == composer[d].manifest
    <3>1. Evidence(t, composer[d].manifest)' \subseteq
              Evidence(t, composer[d].manifest) \cup (IF t = s THEN {i} ELSE {})
      BY <1>4, <2>1 DEF Evidence
    <3>2. t = s => i \in missed'
      BY <1>5, <2>1, <2>2 DEF TooLate, Holds
    <3> QED
      BY <1>5, <2>1, <2>2, <3>1, <3>2 DEF Links, JobInv
  <2> QED
    BY <1>3, <2>1, <2>2 DEF Links, JobInv
<1>7. \A d, e \in Composers, t \in Streams : Holds(d, t)' /\ Holds(e, t)' => d = e
  BY <1>3 DEF Links, JobInv
<1>8. \A g \in Handlers : request'[g].pc = "enqueued" => job'[StreamFor(g)'].status # None
  BY <1>3 DEF Links, JobInv
<1>9. \A t \in retrying' : job'[t].status # None
  BY <1>3 DEF Links, JobInv
<1>10. SucceededCoversManifest'
  <2> SUFFICES ASSUME NEW t \in Streams, job[t].status = "succeeded"
               PROVE  Evidence(t, job[t].manifest)' \subseteq composed[t] \cup missed'
    BY <1>3 DEF SucceededCoversManifest
  <2>1. Evidence(t, job[t].manifest)' \subseteq
            Evidence(t, job[t].manifest) \cup (IF t = s THEN {i} ELSE {})
    BY <1>3, <1>4 DEF Evidence
  <2>2. t = s => i \in missed'
    BY <1>5 DEF TooLate
  <2> QED
    BY <1>5, <2>1, <2>2 DEF Links, JobInv, SucceededCoversManifest
<1> QED
  BY <1>2, <1>6, <1>7, <1>8, <1>9, <1>10 DEF Links, JobInv

LEMMA HandlerLinks ==
    ASSUME TypeOK, Links, NEW h \in Handlers, HandlerStep(h) \/ Die(h)
    PROVE  Links'
<1>1. CASE RefuseClosed(h) \/ Conflict(h)
  BY <1>1, MoveStep DEF RefuseClosed, Conflict, Granted, leaseVars, jobVars
<1>2. CASE Check(h)
  BY <1>2, MoveStep DEF Check, Granted, MayCommit, leaseVars, jobVars
<1>3. CASE FindNoRow(h) \/ LookAgain(h) \/ JoinExisting(h) \/ CreateJob(h)
  BY <1>3, MoveStep DEF FindNoRow, LookAgain, JoinExisting, CreateJob, Inserted, Granted,
                        leaseVars, jobVars
<1>4. CASE CreateRace(h) \/ StaleLease(h)
  BY <1>4, MoveStep DEF CreateRace, StaleLease, Enqueued, Granted, leaseVars, jobVars
<1>5. CASE LeaseBusy(h) \/ Die(h)
  <2>1. Rests(h) /\ request'[h].pc = "idle"
    BY <1>5 DEF LeaseBusy, Die, Rests, Alone, Idle, TypeOK
  <2> QED
    BY <1>5, <2>1, RestStep DEF LeaseBusy, Die, leaseVars, jobVars
<1>6. CASE Release(h)
  <2>1. Rests(h) /\ request'[h].pc = "idle"
    BY <1>6 DEF Release, Rests, Alone, Idle, TypeOK
  <2>2. \A c \in Collectors : lease'[c].fence = lease[c].fence
    BY <1>6 DEF Release, TypeOK, Lease
  <2> QED
    BY <1>6, <2>1, <2>2, RestStep DEF Release, jobVars
<1> QED
  BY <1>1, <1>2, <1>3, <1>4, <1>5, <1>6, ReplayStep, InsertStep, LockStep, AcquireStep,
     CommitStep, JoinedStep DEF HandlerStep

-----------------------------------------------------------------------------
(***************************************************************************)
(* Composers, operators and the clock.                                     *)
(***************************************************************************)

LEMMA KeepRequests ==
    ASSUME Links, TypeOK, UNCHANGED <<request, accepted, acceptedUnder, receipts>>,
           \A c \in Collectors : lease'[c].fence = lease[c].fence
    PROVE  ItemInv' /\ KeyInv' /\ FenceInv'
<1>1. ItemInv'
  BY DEF Links, ItemInv
<1>2. KeyInv'
  BY DEF Links, KeyInv, Inserted, Stored, ReceiptsMatch
<1>3. FenceInv'
  <2>1. \A j \in accepted : CollectorOf[j] \in Collectors
    BY IngestAssumption DEF TypeOK
  <2>2. \A h \in Handlers : Granted(h) => CollectorFor(h) \in Collectors
    BY IngestAssumption DEF Links, ItemInv, Granted, CollectorFor
  <2> QED
    BY <2>1, <2>2 DEF Links, FenceInv, Granted, MayCommit, CollectorFor
<1> QED
  BY <1>1, <1>2, <1>3

\* Steps after which nobody holds a row that was not held before, and which
\* change only rows that nobody holds, never to a success.
LEMMA KeepHolds ==
    ASSUME TypeOK, JobInv, ItemInv, UNCHANGED <<request, accepted, composed, missed>>,
           \A d \in Composers, s \in Streams :
              Holds(d, s)' => Holds(d, s) /\ composer'[d] = composer[d],
           \A s \in Streams : job'[s] = job[s] \/
              /\ job'[s].status \in {"queued", "failed"}
              /\ ~Locked(s),
           \A s \in retrying' : job'[s].status # None
    PROVE  JobInv'
<1>1. \A d \in Composers, s \in Streams : Holds(d, s)' => job'[s] = job[s]
  BY DEF Locked, LockedByComposer, Holds
<1>2. \A s \in Streams : LockedByHandler(s)' <=> LockedByHandler(s)
  BY DEF LockedByHandler, StreamFor
<1>3. \A s \in Streams : \A m : {i \in accepted' : StreamOf[i] = s /\ ManifestOf[i] = m} = Evidence(s, m)
  BY DEF Evidence
<1>4. \A d \in Composers, s \in Streams : Holds(d, s)' =>
        /\ job'[s].status = "queued"
        /\ job'[s].manifest = composer'[d].manifest
        /\ ~LockedByHandler(s)'
        /\ composer'[d].pc = "composing" =>
                Evidence(s, composer[d].manifest)' \subseteq composer'[d].inputs[s] \cup missed'
  <2> SUFFICES ASSUME NEW d \in Composers, NEW s \in Streams, Holds(d, s)'
               PROVE  /\ job'[s].status = "queued"
                      /\ job'[s].manifest = composer'[d].manifest
                      /\ ~LockedByHandler(s)'
                      /\ composer'[d].pc = "composing" =>
                              Evidence(s, composer[d].manifest)' \subseteq composer'[d].inputs[s] \cup missed'
    OBVIOUS
  <2>1. Holds(d, s) /\ composer'[d] = composer[d] /\ job'[s] = job[s]
    BY <1>1
  <2>2. Evidence(s, composer[d].manifest)' = Evidence(s, composer[d].manifest)
    BY <2>1 DEF Evidence
  <2> QED
    BY <2>1, <2>2, <1>2 DEF JobInv
<1>5. \A c, d \in Composers, s \in Streams : Holds(c, s)' /\ Holds(d, s)' => c = d
  BY DEF JobInv
<1>6. \A h \in Handlers : request'[h].pc = "enqueued" => job'[StreamFor(h)'].status # None
  <2> SUFFICES ASSUME NEW h \in Handlers, request'[h].pc = "enqueued"
               PROVE  job'[StreamFor(h)'].status # None
    OBVIOUS
  <2>1. request[h].pc = "enqueued" /\ StreamFor(h)' = StreamFor(h) /\ StreamFor(h) \in Streams
    BY IngestAssumption DEF StreamFor, ItemInv
  <2> QED
    BY <2>1 DEF JobInv, None
<1>7. SucceededCoversManifest'
  <2> SUFFICES ASSUME NEW s \in Streams, job'[s].status = "succeeded"
               PROVE  Evidence(s, job[s].manifest)' \subseteq composed'[s] \cup missed'
    BY DEF SucceededCoversManifest
  <2>1. job'[s] = job[s]
    OBVIOUS
  <2>2. Evidence(s, job[s].manifest)' = Evidence(s, job[s].manifest)
    BY <2>1 DEF Evidence
  <2> QED
    BY <2>1, <2>2 DEF JobInv, SucceededCoversManifest
<1> QED
  BY <1>4, <1>5, <1>6, <1>7 DEF JobInv

\* A composer that lets go of its rows.
LEMMA LetGo ==
    ASSUME TypeOK, NEW c \in Composers, NEW r, r.pc \notin {"claimed", "composing"},
           composer' = [composer EXCEPT ![c] = r]
    PROVE  \A d \in Composers, s \in Streams :
              Holds(d, s)' => Holds(d, s) /\ composer'[d] = composer[d]
BY DEF TypeOK, Holds, Claimed

LEMMA ComposerLinks ==
    ASSUME TypeOK, Links, NEW c \in Composers, Composing(c) \/ RollBackSlice(c) \/ ComposerDies(c)
    PROVE  Links'
<1>0. ItemInv' /\ KeyInv' /\ FenceInv'
  <2>1. UNCHANGED <<request, accepted, acceptedUnder, receipts, lease>>
    BY DEF Composing, Claim, ReadEvidence, Finish, MarkFailed, RollBackSlice, ComposerDies, leaseVars
  <2> QED
    BY <2>1, KeepRequests
<1>1. ASSUME NEW m \in Manifests \cup {None}, Claim(c, m) PROVE JobInv'
  <2>1. UNCHANGED <<request, accepted, job, composed, missed, retrying>>
    BY <1>1 DEF Claim
  <2>2. /\ composer'[c].pc = "claimed" /\ composer'[c].manifest = m
        /\ composer'[c].claims = [s \in Streams |-> IF s \in QueuedFor(m) THEN job[s].generation ELSE 0]
        /\ \A d \in Composers \ {c} : composer'[d] = composer[d]
    BY <1>1 DEF Claim, TypeOK, Resting
  <2>3. \A s \in Streams : Holds(c, s)' => s \in QueuedFor(m) /\ ~Locked(s)
    BY <1>1, <2>2 DEF Holds, Claimed, Claim
  <2>4. \A d \in Composers \ {c}, s \in Streams : Holds(d, s)' <=> Holds(d, s)
    BY <2>2 DEF Holds, Claimed
  <2>5. \A s \in Streams : LockedByHandler(s)' <=> LockedByHandler(s)
    BY <2>1 DEF LockedByHandler, StreamFor
  <2>6. ASSUME NEW d \in Composers, NEW s \in Streams, Holds(d, s)'
        PROVE  /\ job'[s].status = "queued"
               /\ job'[s].manifest = composer'[d].manifest
               /\ ~LockedByHandler(s)'
               /\ composer'[d].pc = "composing" =>
                      Evidence(s, composer[d].manifest)' \subseteq composer'[d].inputs[s] \cup missed'
    <3>1. CASE d = c
      BY <3>1, <2>1, <2>2, <2>3, <2>5, <2>6 DEF QueuedFor, Locked
    <3>2. CASE d # c
      <4>1. Holds(d, s) /\ composer'[d] = composer[d]
        BY <3>2, <2>2, <2>4, <2>6
      <4>2. Evidence(s, composer[d].manifest)' = Evidence(s, composer[d].manifest)
        BY <2>1, <4>1 DEF Evidence
      <4> QED
        BY <4>1, <4>2, <2>1, <2>5 DEF Links, JobInv
    <3> QED BY <3>1, <3>2
  <2>7. \A d, e \in Composers, s \in Streams : Holds(d, s)' /\ Holds(e, s)' => d = e
    <3>1. \A d \in Composers \ {c}, s \in Streams : Holds(d, s)' => ~Holds(c, s)'
      BY <2>3, <2>4 DEF Locked, LockedByComposer, Holds
    <3> QED
      BY <3>1, <2>4 DEF Links, JobInv
  <2>8. \A h \in Handlers : request'[h].pc = "enqueued" => job'[StreamFor(h)'].status # None
    BY <2>1 DEF Links, JobInv, StreamFor
  <2>9. SucceededCoversManifest' /\ \A s \in retrying' : job'[s].status # None
    BY <2>1 DEF Links, JobInv, SucceededCoversManifest, Evidence
  <2> QED
    BY <2>6, <2>7, <2>8, <2>9 DEF JobInv
<1>2. CASE ReadEvidence(c)
  <2>1. UNCHANGED <<request, accepted, job, composed, retrying>>
    BY <1>2 DEF ReadEvidence
  <2>2. /\ composer[c].pc = "claimed"
        /\ composer'[c].manifest = composer[c].manifest /\ composer'[c].claims = composer[c].claims
        /\ \A s \in Claimed(c) : composer'[c].inputs[s] = Evidence(s, composer[c].manifest)
        /\ \A d \in Composers \ {c} : composer'[d] = composer[d]
    BY <1>2 DEF ReadEvidence, TypeOK, Composer, Claimed
  <2>9. \A x \in missed \ missed' : StreamOf[x] \in Claimed(c)
    <3>1. missed' = missed \ UNION {composer'[c].inputs[s] : s \in Streams}
      BY <1>2 DEF ReadEvidence
    <3>2. \A s \in Streams : composer'[c].inputs[s] =
              IF s \in Claimed(c) THEN Evidence(s, composer[c].manifest) ELSE {}
      BY <1>2 DEF ReadEvidence, TypeOK, Composer
    <3> SUFFICES ASSUME NEW x \in missed \ missed' PROVE StreamOf[x] \in Claimed(c)
      OBVIOUS
    <3>3. PICK s \in Streams : x \in composer'[c].inputs[s]
      BY <3>1
    <3>4. s \in Claimed(c) /\ x \in Evidence(s, composer[c].manifest)
      BY <3>2, <3>3
    <3> QED
      BY <3>4 DEF Evidence
  <2>3. \A d \in Composers, s \in Streams : Holds(d, s)' => Holds(d, s)
    BY <2>2 DEF Holds, Claimed
  <2>4. \A s \in Streams : LockedByHandler(s)' <=> LockedByHandler(s)
    BY <2>1 DEF LockedByHandler, StreamFor
  <2>5. ASSUME NEW d \in Composers, NEW s \in Streams, Holds(d, s)'
        PROVE  /\ job'[s].status = "queued"
               /\ job'[s].manifest = composer'[d].manifest
               /\ ~LockedByHandler(s)'
               /\ composer'[d].pc = "composing" =>
                      Evidence(s, composer[d].manifest)' \subseteq composer'[d].inputs[s] \cup missed'
    <3>1. Holds(d, s) /\ composer'[d].manifest = composer[d].manifest
      BY <2>2, <2>3, <2>5
    <3>2. Evidence(s, composer[d].manifest)' = Evidence(s, composer[d].manifest)
      BY <2>1, <3>1 DEF Evidence
    <3>3. composer'[d].pc = "composing" =>
              Evidence(s, composer[d].manifest) \subseteq composer'[d].inputs[s] \cup missed'
      <4>1. CASE d = c
        BY <2>2, <3>1, <4>1 DEF Holds
      <4>2. CASE d # c
        <5>1. composer'[d] = composer[d] /\ s \notin Claimed(c)
          BY <2>2, <3>1, <4>2 DEF Links, JobInv, Holds
        <5>2. Evidence(s, composer[d].manifest) \cap missed \subseteq missed'
          BY <2>9, <5>1 DEF Evidence
        <5> QED
          BY <3>1, <5>1, <5>2 DEF Links, JobInv
      <4> QED BY <4>1, <4>2
    <3> QED
      BY <3>1, <3>2, <3>3, <2>1, <2>4 DEF Links, JobInv
  <2>6. \A d, e \in Composers, s \in Streams : Holds(d, s)' /\ Holds(e, s)' => d = e
    BY <2>3 DEF Links, JobInv
  <2>7. \A h \in Handlers : request'[h].pc = "enqueued" => job'[StreamFor(h)'].status # None
    BY <2>1 DEF Links, JobInv, StreamFor
  <2>8. SucceededCoversManifest' /\ \A s \in retrying' : job'[s].status # None
    <3>1. ASSUME NEW s \in Streams, job[s].status = "succeeded"
          PROVE  Evidence(s, job[s].manifest) \subseteq composed[s] \cup missed'
      <4>1. s \notin Claimed(c)
        BY <2>2, <3>1 DEF Links, JobInv, Holds
      <4>2. Evidence(s, job[s].manifest) \cap missed \subseteq missed'
        BY <2>9, <4>1 DEF Evidence
      <4> QED
        BY <3>1, <4>2 DEF Links, JobInv, SucceededCoversManifest
    <3>2. SucceededCoversManifest'
      BY <2>1, <3>1 DEF SucceededCoversManifest, Evidence
    <3> QED
      BY <2>1, <3>2 DEF Links, JobInv
  <2> QED
    BY <1>0, <2>5, <2>6, <2>7, <2>8 DEF JobInv, Links
<1>3. ASSUME NEW done \in SUBSET Streams, Finish(c, done) PROVE JobInv'
  <2>1. UNCHANGED <<request, accepted, missed, retrying>> /\ composer[c].pc = "composing" /\ done \subseteq Claimed(c)
    BY <1>3 DEF Finish
  <2>2. \A d \in Composers, s \in Streams : Holds(d, s)' =>
            Holds(d, s) /\ composer'[d] = composer[d] /\ s \notin Claimed(c)
    <3>1. \A d \in Composers, s \in Streams : Holds(d, s)' =>
            Holds(d, s) /\ composer'[d] = composer[d] /\ d # c
      BY <1>3 DEF Finish, TypeOK, Holds, Claimed, Resting
    <3> QED
      BY <3>1, <2>1 DEF Links, JobInv, Holds
  <2>3. \A s \in Streams \ Claimed(c) : job'[s] = job[s] /\ composed'[s] = composed[s]
    BY <1>3, <2>1 DEF Finish
  <2>4. \A s \in Claimed(c) : /\ s \in Streams /\ job[s] \in Job
                              /\ job'[s].manifest = job[s].manifest
                              /\ job'[s].status = IF s \in done THEN "succeeded" ELSE "failed"
    <3> SUFFICES ASSUME NEW s \in Claimed(c)
                 PROVE  /\ s \in Streams /\ job[s] \in Job
                        /\ job'[s].manifest = job[s].manifest
                        /\ job'[s].status = IF s \in done THEN "succeeded" ELSE "failed"
      OBVIOUS
    <3>1. s \in Streams /\ job[s] \in Job
      BY DEF Claimed, TypeOK
    <3>2. job'[s] = [job[s] EXCEPT !.status = IF s \in done THEN "succeeded" ELSE "failed"]
      BY <1>3, <3>1 DEF Finish
    <3> QED
      BY <3>1, <3>2 DEF Job
  <2>5. \A s \in Streams : LockedByHandler(s)' <=> LockedByHandler(s)
    BY <2>1 DEF LockedByHandler, StreamFor
  <2>6. ASSUME NEW d \in Composers, NEW s \in Streams, Holds(d, s)'
        PROVE  /\ job'[s].status = "queued"
               /\ job'[s].manifest = composer'[d].manifest
               /\ ~LockedByHandler(s)'
               /\ composer'[d].pc = "composing" =>
                      Evidence(s, composer[d].manifest)' \subseteq composer'[d].inputs[s] \cup missed'
    <3>1. Holds(d, s) /\ composer'[d] = composer[d] /\ job'[s] = job[s]
      BY <2>2, <2>3, <2>6
    <3>2. Evidence(s, composer[d].manifest)' = Evidence(s, composer[d].manifest)
      BY <2>1, <3>1 DEF Evidence
    <3> QED
      BY <2>1, <3>1, <3>2, <2>5 DEF Links, JobInv
  <2>7. \A d, e \in Composers, s \in Streams : Holds(d, s)' /\ Holds(e, s)' => d = e
    BY <2>2 DEF Links, JobInv
  <2>8. \A s \in Streams : job[s].status # None => job'[s].status # None
    BY <2>3, <2>4 DEF None
  <2>9. \A h \in Handlers : request'[h].pc = "enqueued" => job'[StreamFor(h)'].status # None
    BY <2>1, <2>8, IngestAssumption DEF Links, JobInv, ItemInv, StreamFor
  <2>10. \A s \in retrying' : job'[s].status # None
    BY <2>1, <2>8 DEF Links, JobInv, TypeOK
  <2>11. SucceededCoversManifest'
    <3> SUFFICES ASSUME NEW s \in Streams, job'[s].status = "succeeded"
                 PROVE  Evidence(s, job[s].manifest)' \subseteq composed'[s] \cup missed'
      BY DEF SucceededCoversManifest
    <3>1. CASE s \in Claimed(c)
      <4>1. s \in done /\ job'[s].manifest = job[s].manifest
        BY <2>4, <3>1
      <4>2. composed'[s] = composer[c].inputs[s]
        BY <1>3, <4>1 DEF Finish
      <4>3. Evidence(s, job[s].manifest) \subseteq composer[c].inputs[s] \cup missed
        BY <2>1, <3>1 DEF Links, JobInv, Holds
      <4>4. Evidence(s, job[s].manifest)' = Evidence(s, job[s].manifest)
        BY <2>1, <4>1 DEF Evidence
      <4> QED
        BY <2>1, <4>2, <4>3, <4>4
    <3>2. CASE s \notin Claimed(c)
      <4>1. job'[s] = job[s] /\ composed'[s] = composed[s]
        BY <2>3, <3>2
      <4>2. Evidence(s, job[s].manifest)' = Evidence(s, job[s].manifest)
        BY <2>1, <4>1 DEF Evidence
      <4> QED
        BY <2>1, <4>1, <4>2 DEF Links, JobInv, SucceededCoversManifest
    <3> QED BY <3>1, <3>2
  <2> QED
    BY <2>6, <2>7, <2>9, <2>10, <2>11 DEF JobInv
<1>4. CASE MarkFailed(c)
  <2>1. \A d \in Composers, s \in Streams : Holds(d, s)' => Holds(d, s) /\ composer'[d] = composer[d]
    BY <1>4, LetGo DEF MarkFailed, Resting
  <2>2. \A s \in Streams : job'[s] = job[s] \/
              /\ job'[s].status \in {"queued", "failed"}
              /\ ~Locked(s)
    <3> SUFFICES ASSUME NEW s \in Streams, job'[s] # job[s]
                 PROVE  job'[s].status \in {"queued", "failed"} /\ ~Locked(s)
      OBVIOUS
    <3>1. job'[s] = [job[s] EXCEPT !.status = "failed"] /\ ~Locked(s)
      BY <1>4 DEF MarkFailed
    <3>2. job[s] \in Job
      BY DEF TypeOK
    <3> QED
      BY <3>1, <3>2 DEF Job
  <2>3. \A s \in retrying' : job'[s].status # None
    BY <1>4, <2>2 DEF MarkFailed, Links, JobInv, TypeOK, None
  <2>4. UNCHANGED <<request, accepted, composed, missed>>
    BY <1>4 DEF MarkFailed
  <2> QED
    BY <1>0, <2>1, <2>2, <2>3, <2>4, KeepHolds DEF Links
<1>5. CASE RollBackSlice(c)
  <2>1. \A d \in Composers, s \in Streams : Holds(d, s)' => Holds(d, s) /\ composer'[d] = composer[d]
    BY <1>5 DEF RollBackSlice, TypeOK, Composer, Holds, Claimed
  <2>2. UNCHANGED <<request, accepted, composed, missed, job, retrying>>
    BY <1>5 DEF RollBackSlice
  <2>3. \A s \in retrying' : job'[s].status # None
    BY <2>2 DEF Links, JobInv
  <2> QED
    BY <1>0, <2>1, <2>2, <2>3, KeepHolds DEF Links
<1>6. CASE ComposerDies(c)
  <2>1. \A d \in Composers, s \in Streams : Holds(d, s)' => Holds(d, s) /\ composer'[d] = composer[d]
    BY <1>6, LetGo DEF ComposerDies, Resting
  <2>2. UNCHANGED <<request, accepted, composed, missed, job, retrying>>
    BY <1>6 DEF ComposerDies
  <2>3. \A s \in retrying' : job'[s].status # None
    BY <2>2 DEF Links, JobInv
  <2> QED
    BY <1>0, <2>1, <2>2, <2>3, KeepHolds DEF Links
<1> QED
  BY <1>0, <1>1, <1>2, <1>3, <1>4, <1>5, <1>6 DEF Composing, Links

LEMMA OtherLinks ==
    ASSUME TypeOK, Links, OtherStep
    PROVE  Links'
<1>1. ASSUME NEW m \in Manifests, IssueManifest(m) \/ CloseManifest(m) PROVE Links'
  <2>1. UNCHANGED <<request, accepted, acceptedUnder, receipts, lease, job, composed, missed, composer, retrying>>
    BY <1>1 DEF IssueManifest, CloseManifest, leaseVars, jobVars
  <2>2. ItemInv' /\ KeyInv' /\ FenceInv'
    BY <2>1, KeepRequests
  <2>3. \A d \in Composers, s \in Streams : Holds(d, s)' => Holds(d, s) /\ composer'[d] = composer[d]
    BY <2>1 DEF Holds, Claimed
  <2>4. \A s \in retrying' : job'[s].status # None
    BY <2>1 DEF Links, JobInv
  <2> QED
    BY <2>1, <2>2, <2>3, <2>4, KeepHolds DEF Links
<1>2. ASSUME NEW h \in Handlers, NEW i \in Items, Receive(h, i) PROVE Links'
  <2>1. Rests(h) /\ request'[h].item \in Items
    BY <1>2 DEF Receive, Rests, Alone, TypeOK
  <2> QED
    BY <1>2, <2>1, RestStep DEF Receive, leaseVars, jobVars
<1>3. ASSUME NEW c \in Collectors, ExpireLease(c) PROVE Links'
  <2>1. /\ UNCHANGED <<request, accepted, acceptedUnder, receipts, job, composed, missed, composer, retrying>>
        /\ \A d \in Collectors : lease'[d].fence = lease[d].fence
    BY <1>3 DEF ExpireLease, jobVars, TypeOK, Lease
  <2>2. ItemInv' /\ KeyInv' /\ FenceInv'
    BY <2>1, KeepRequests
  <2>3. \A d \in Composers, s \in Streams : Holds(d, s)' => Holds(d, s) /\ composer'[d] = composer[d]
    BY <2>1 DEF Holds, Claimed
  <2>4. \A s \in retrying' : job'[s].status # None
    BY <2>1 DEF Links, JobInv
  <2> QED
    BY <2>1, <2>2, <2>3, <2>4, KeepHolds DEF Links
<1>4. ASSUME UNCHANGED <<request, accepted, acceptedUnder, receipts, lease, composed, missed, composer>>,
             \A s \in Streams : job'[s] = job[s] \/
                /\ job'[s].status \in {"queued", "failed"}
                /\ ~Locked(s),
             \A s \in retrying' : job'[s].status # None
      PROVE  Links'
  <2>1. ItemInv' /\ KeyInv' /\ FenceInv'
    BY <1>4, KeepRequests
  <2>2. \A d \in Composers, s \in Streams : Holds(d, s)' => Holds(d, s) /\ composer'[d] = composer[d]
    BY <1>4 DEF Holds, Claimed
  <2> QED
    BY <1>4, <2>1, <2>2, KeepHolds DEF Links
<1>5. ASSUME NEW s \in Streams, RetryRead(s) PROVE Links'
  <2>1. \A t \in retrying' : job'[t].status # None
    BY <1>5 DEF RetryRead, Links, JobInv, None
  <2> QED
    BY <1>4, <1>5, <2>1 DEF RetryRead, leaseVars
<1>6. ASSUME NEW s \in Streams, RetryWrite(s) PROVE Links'
  <2>1. /\ ~Locked(s) /\ job'[s].status = "queued"
        /\ \A t \in Streams \ {s} : job'[t] = job[t]
    BY <1>6 DEF RetryWrite, TypeOK, Job
  <2>2. \A t \in retrying' : job'[t].status # None
    BY <1>6, <2>1 DEF RetryWrite, Links, JobInv, TypeOK
  <2>3. \A t \in Streams : job'[t] = job[t] \/
                /\ job'[t].status \in {"queued", "failed"}
                /\ ~Locked(t)
    BY <2>1
  <2> QED
    BY <1>4, <1>6, <2>2, <2>3 DEF RetryWrite, leaseVars
<1>7. ASSUME NEW first \in [Streams -> Manifests], ReconcilePending(first) PROVE Links'
  <2>1. \A t \in Streams : job'[t] = job[t] \/
                /\ job'[t].status \in {"queued", "failed"}
                /\ ~Locked(t)
    BY <1>7 DEF ReconcilePending
  <2>2. \A t \in retrying' : job'[t].status # None
    BY <1>7, <2>1 DEF ReconcilePending, Links, JobInv, TypeOK, None
  <2> QED
    BY <1>4, <1>7, <2>1, <2>2 DEF ReconcilePending, leaseVars
<1>8. ASSUME NEW s \in Streams, ScopedRepair(s) PROVE Links'
  <2>1. /\ job[s].status = None /\ job'[s].status = "queued"
        /\ \A t \in Streams \ {s} : job'[t] = job[t]
    BY <1>8 DEF ScopedRepair, TypeOK
  <2>2. ~Locked(s)
    BY <2>1 DEF Locked, LockedByHandler, LockedByComposer, Links, JobInv, Holds, None
  <2>3. \A t \in retrying' : job'[t].status # None
    BY <1>8, <2>1 DEF ScopedRepair, Links, JobInv, TypeOK, None
  <2> QED
    BY <1>4, <1>8, <2>1, <2>2, <2>3 DEF ScopedRepair, leaseVars
<1> QED
  BY <1>1, <1>2, <1>3, <1>5, <1>6, <1>7, <1>8 DEF OtherStep

-----------------------------------------------------------------------------
(***************************************************************************)
(* The results.                                                            *)
(***************************************************************************)

LEMMA InitInv == Init => IInv
<1> SUFFICES ASSUME Init PROVE IInv
  OBVIOUS
<1>1. TypeOK
  <2>1. composer \in [Composers -> Composer]
    BY RestingTypes DEF Init
  <2>2. request \in [Handlers -> Request]
    BY DEF Init, Request, RequestPc, Idle
  <2>3. lease \in [Collectors -> Lease] /\ job \in [Streams -> Job]
    BY DEF Init, Lease, Job
  <2> QED
    BY <2>1, <2>2, <2>3, IngestAssumption DEF Init, TypeOK, Idle
<1>2. ItemInv /\ KeyInv /\ FenceInv
  BY DEF Init, ItemInv, KeyInv, FenceInv, Idle, Inserted, Granted, MayCommit, ReceiptsMatch
<1>3. JobInv
  BY DEF Init, JobInv, Idle, Resting, Holds, None, SucceededCoversManifest
<1> QED
  BY <1>1, <1>2, <1>3 DEF IInv

LEMMA InvStep ==
    ASSUME IInv, [Next]_vars
    PROVE  IInv'
<1>0. TypeOK /\ Links /\ ItemInv /\ JobInv
  BY DEF IInv, Links
<1>1. CASE OtherStep
  BY <1>0, <1>1, OtherTypes, OtherLinks DEF IInv, Links
<1>2. ASSUME NEW h \in Handlers, HandlerStep(h) \/ Die(h) PROVE IInv'
  BY <1>0, <1>2, HandlerTypes, HandlerLinks DEF IInv, Links
<1>3. ASSUME NEW c \in Composers, Composing(c) \/ RollBackSlice(c) \/ ComposerDies(c) PROVE IInv'
  BY <1>0, <1>3, ComposingTypes, ComposerLinks DEF IInv, Links
<1>4. CASE UNCHANGED vars
  <2>1. TypeOK'
    BY <1>0, <1>4 DEF TypeOK, vars
  <2>2. UNCHANGED <<request, accepted, acceptedUnder, receipts, lease, job, composed, missed, composer, retrying>>
    BY <1>4 DEF vars
  <2>3. ItemInv' /\ KeyInv' /\ FenceInv'
    BY <1>0, <2>2, KeepRequests
  <2>4. \A d \in Composers, s \in Streams : Holds(d, s)' => Holds(d, s) /\ composer'[d] = composer[d]
    BY <2>2 DEF Holds, Claimed
  <2>5. \A s \in retrying' : job'[s].status # None
    BY <1>0, <2>2 DEF JobInv
  <2>6. JobInv'
    BY <1>0, <2>2, <2>4, <2>5, KeepHolds
  <2> QED
    BY <2>1, <2>3, <2>6 DEF IInv
<1> QED
  BY <1>1, <1>2, <1>3, <1>4 DEF Next, OtherStep

\* The inductive invariant holds in every reachable state.
THEOREM InvHolds == Spec => []IInv
<1> QED
  BY InitInv, InvStep, PTL DEF Spec

\* Leases, requests, observations, jobs and composers keep their types; a job
\* row always has a generation and a granted request always has a fence.
THEOREM TypesHold == Spec => []TypeOK
<1>1. IInv => TypeOK
  BY DEF IInv
<1> QED
  BY <1>1, InvHolds, PTL

\* However requests, replays and conflicting payloads interleave, there is one
\* observation for an identifier and only its sender holds a receipt.
THEOREM ReceiptsNameStored == Spec => []ReceiptsMatch
<1>1. IInv => ReceiptsMatch
  BY DEF IInv, KeyInv
<1> QED
  BY <1>1, InvHolds, PTL

\* A success has composed all evidence of its manifest but for what joined the
\* row of another request too late, for any number of composers, handlers,
\* retries, repairs and failures.
THEOREM SuccessCoversManifest == Spec => []SucceededCoversManifest
<1>1. IInv => SucceededCoversManifest
  BY DEF IInv, JobInv
<1> QED
  BY <1>1, InvHolds, PTL

\* A request that lost its identity lease commits nothing: the observations of
\* one collector commit in the order of the grants.
THEOREM CommitsFenced == Spec => FencedCommits
<1>1. ASSUME IInv, [Next]_vars PROVE FencedCommit
  <2> SUFFICES ASSUME NEW i \in accepted' \ accepted, NEW j \in accepted,
                      CollectorOf[j] = CollectorOf[i]
               PROVE  acceptedUnder[j] < acceptedUnder'[i]
    BY DEF FencedCommit
  <2>1. PICK h \in Handlers : Commit(h) \/ CommitJoined(h)
    BY <1>1 DEF Next, HandlerStep, Composing, IssueManifest, CloseManifest, Receive, AcquireLease,
         LeaseBusy, RefuseClosed, Replay, Conflict, Check, Insert, LockJob, FindNoRow, LookAgain,
         JoinExisting, CreateJob, CreateRace, StaleLease, Release, Die, ExpireLease, Claim,
         ReadEvidence, Finish, MarkFailed, RollBackSlice, ComposerDies, RetryRead, RetryWrite,
         ScopedRepair, ReconcilePending, vars
  <2>2. i = request[h].item /\ i \in Items /\ MayCommit(h) /\ CollectorFor(h) = CollectorOf[i]
    BY <1>1, <2>1 DEF Commit, CommitJoined, Accepts, Enqueued, MayCommit, CollectorFor, IInv, ItemInv
  <2>3. acceptedUnder'[i] = request[h].fence /\ request[h].fence = lease[CollectorOf[i]].fence
    BY <1>1, <2>1, <2>2 DEF Commit, CommitJoined, Accepts, LeaseHeld, CollectorFor, IInv, TypeOK
  <2>4. acceptedUnder[j] <= lease[CollectorOf[i]].fence /\ acceptedUnder[j] # request[h].fence
    BY <1>1, <2>2 DEF IInv, FenceInv
  <2>5. acceptedUnder[j] \in Nat /\ request[h].fence \in Nat
    BY <1>1 DEF IInv, TypeOK, Request
  <2> QED
    BY <2>3, <2>4, <2>5
<1> QED
  BY <1>1, InvHolds, PTL DEF Spec, FencedCommits

\* Acceptance with its leases, locks and rollbacks implements the store the
\* outbox relies on: one observation for a key, receipts of what is stored.
THEOREM IngestionIsAStore == Spec => ImplementsStore
<1>1. Init => Store!Init
  BY DEF Init, Store!Init
<1>2. ASSUME IInv, [Next]_vars PROVE [Store!Next]_(Store!storeVars)
  <2>1. CASE \E h \in Handlers : Commit(h) \/ CommitJoined(h)
    <3>1. PICK h \in Handlers : Commit(h) \/ CommitJoined(h)
      BY <2>1
    <3>2. Inserted(h) /\ request[h].item \in Items /\ ~Stored(request[h].item)
      BY <1>2, <3>1 DEF Commit, CommitJoined, Enqueued, Inserted, IInv, ItemInv, KeyInv
    <3>3. Store!Accept(request[h].item)
      BY <3>1, <3>2 DEF Commit, CommitJoined, Accepts, Stored, Store!Accept, Store!Bound
    <3> QED
      BY <3>2, <3>3 DEF Store!Next
  <2>2. CASE \E h \in Handlers : Replay(h)
    <3>1. PICK h \in Handlers : Replay(h)
      BY <2>2
    <3>2. request[h].item \in Items
      BY <1>2, <3>1 DEF Replay, IInv, ItemInv
    <3>3. Store!Replay(request[h].item)
      BY <3>1 DEF Replay, Matches, Store!Replay
    <3> QED
      BY <3>2, <3>3 DEF Store!Next
  <2>3. CASE ~(\E h \in Handlers : Commit(h) \/ CommitJoined(h) \/ Replay(h))
    <3>1. ASSUME NEW h \in Handlers, HandlerStep(h) \/ Die(h) PROVE UNCHANGED <<accepted, receipts>>
      BY <2>3, <3>1 DEF HandlerStep, AcquireLease, LeaseBusy, RefuseClosed, Conflict, Check, Insert,
           LockJob, FindNoRow, LookAgain, JoinExisting, CreateJob, CreateRace, StaleLease, Release, Die
    <3>2. ASSUME NEW c \in Composers, Composing(c) \/ RollBackSlice(c) \/ ComposerDies(c)
          PROVE  UNCHANGED <<accepted, receipts>>
      BY <3>2 DEF Composing, Claim, ReadEvidence, Finish, MarkFailed, RollBackSlice, ComposerDies
    <3>3. UNCHANGED <<accepted, receipts>>
      BY <1>2, <3>1, <3>2 DEF Next, IssueManifest, CloseManifest, Receive, ExpireLease, RetryRead,
           RetryWrite, ScopedRepair, ReconcilePending, vars
    <3> QED
      BY <3>3 DEF Store!storeVars
  <2> QED
    BY <2>1, <2>2, <2>3
<1> QED
  BY <1>1, <1>2, InvHolds, PTL DEF Spec, ImplementsStore, Store!Spec

=============================================================================
