------------------------- MODULE RefreshJobsProofs -------------------------
(***************************************************************************)
(* Proofs about RefreshJobs, for any number of processes, threads,         *)
(* operations, jobs and attempts and any lease length.                     *)
(***************************************************************************)
EXTENDS RefreshJobs, FiniteSetTheorems, WellFoundedInduction, TLAPS

(***************************************************************************)
(* The inductive invariant.                                                *)
(***************************************************************************)

\* A scan in progress has a candidate left, so Oldest(todo[d]) names a row.
ScanInv ==
    \A d \in Dispatchers : scanPc[d] \in {"scanning", "checked"} => todo[d] # {}

\* Rows are enqueued in order, and an operation's earlier rows are settled.
RowInv ==
    /\ \A j \in JobId : status[j] # "absent" => operation[j] \in Operations
    /\ \A i, j \in JobId : i < j /\ status[j] # "absent" => status[i] # "absent"
    /\ \A i, j \in JobId :
        /\ i < j
        /\ status[i] # "absent"
        /\ status[j] # "absent"
        /\ operation[i] = operation[j]
        => status[i] \in Settled

\* A run exists only for a claimed attempt, and a publication transaction
\* past its fence holds the current attempt of a running row.
RunInv ==
    \A r \in RunId :
        /\ runPc[r] # "none" => /\ r[2] <= attempt[r[1]]
                                /\ status[r[1]] # "absent"
        /\ runPc[r] = "swapping" => /\ status[r[1]] = "running"
                                    /\ attempt[r[1]] = r[2]
                                    /\ frames[r] \cap activated = {}

\* Only a handler past its swaps has published, and one past publish has
\* published or had nothing to publish.
PubInv ==
    /\ \A r \in pubs : runPc[r] \in {"completing", "finishing", "failing", "ended"}
    /\ \A r \in RunId : runPc[r] \in {"completing", "finishing"} =>
                            r \in pubs \/ frames[r] = {}
    /\ \A j \in JobId : status[j] = "succeeded" =>
            /\ <<j, attempt[j]>> \in RunId
            /\ runPc[<<j, attempt[j]>>] = "ended"
            /\ <<j, attempt[j]>> \in pubs \/ frames[<<j, attempt[j]>>] = {}

IInv == TypeOK /\ ScanInv /\ RowInv /\ RunInv /\ PubInv

-----------------------------------------------------------------------------
\* ORDER BY created_at: the oldest row of a nonempty candidate set is in it.
LEMMA OldestIsMember ==
    ASSUME NEW S \in SUBSET JobId, S # {}
    PROVE  Oldest(S) \in S
<1> DEFINE Less == {ss \in Nat \X Nat : ss[1] < ss[2]}
<1>1. S \subseteq Nat
  BY RefreshAssumption DEF JobId
<1>2. IsWellFoundedOn(Less, Nat)
  BY NatLessThanWellFounded, Zenon DEF OpToRel
<1>3. PICK m \in S : \A k \in S : ~(<<k, m>> \in Less)
  <2> HIDE DEF Less
  <2> QED BY <1>1, <1>2, WFMin
<1>4. ASSUME NEW k \in S PROVE m <= k
  <2>1. k \in Nat /\ m \in Nat /\ ~(<<k, m>> \in Less)
    BY <1>1, <1>3
  <2>2. k < m => <<k, m>> \in Less
    BY <2>1
  <2> QED
    BY <2>1, <2>2
<1> QED
  BY <1>4 DEF Oldest

\* The candidate a dispatcher is looking at is a job row.
LEMMA CandidateIsRow ==
    ASSUME TypeOK, ScanInv, NEW d \in Dispatchers,
           scanPc[d] \in {"scanning", "checked"}
    PROVE  Oldest(todo[d]) \in JobId /\ Oldest(todo[d]) \in todo[d]
<1>1. todo[d] \in SUBSET JobId /\ todo[d] # {}
  BY DEF TypeOK, ScanInv
<1> QED
  BY <1>1, OldestIsMember

\* No scan, no run and no row: the initial state satisfies the invariant.
LEMMA InitInv == Init => IInv
<1> SUFFICES ASSUME Init PROVE IInv
  OBVIOUS
<1>1. TypeOK
  BY RefreshAssumption DEF Init, TypeOK, JobId, Status, Active, RunPc, Ticks, Life
<1>2. ScanInv /\ RowInv /\ RunInv /\ PubInv
  BY DEF Init, ScanInv, RowInv, RunInv, PubInv, RunId
<1> QED
  BY <1>1, <1>2 DEF IInv

-----------------------------------------------------------------------------
(***************************************************************************)
(* Every action preserves the invariant: first the types, then the rest.   *)
(***************************************************************************)

\* _submitted counts finitely many runs.
LEMMA SubmittedIsNat == \A p : Submitted(p) \in Nat
<1>1. IsFiniteSet(JobId) /\ IsFiniteSet(1 .. MaxClaims)
  BY RefreshAssumption, FS_Interval DEF JobId
<1>2. IsFiniteSet(RunId)
  BY <1>1, FS_Product DEF RunId
<1>3. TAKE p
<1>4. {r \in RunId : runOwner[r] = <<p, life[p]>> /\ runPc[r] \in InFlight} \subseteq RunId
  OBVIOUS
<1> QED
  BY <1>2, <1>4, FS_Subset, FS_CardinalityType DEF Submitted

\* Moving on to the next candidate keeps the scan's types.
LEMMA NextCandidateTypes ==
    ASSUME TypeOK, ScanInv, NEW d \in Dispatchers, NEW j \in JobId, NextCandidate(d, j)
    PROVE  /\ scanPc' \in [Dispatchers -> {"idle", "polling", "scanning", "checked"}]
           /\ scanLate' \in [Dispatchers -> 0 .. MaxDelay]
           /\ room' \in [Dispatchers -> 0 .. WorkerLimit]
           /\ todo' \in [Dispatchers -> SUBSET JobId]
           /\ scanPc[d] \in {"scanning", "checked"} => ScanInv'
<1>1. /\ scanPc' \in [Dispatchers -> {"idle", "polling", "scanning", "checked"}]
      /\ scanLate' \in [Dispatchers -> 0 .. MaxDelay]
      /\ room' \in [Dispatchers -> 0 .. WorkerLimit]
      /\ todo' \in [Dispatchers -> SUBSET JobId]
  BY RefreshAssumption DEF TypeOK, NextCandidate
<1>2. ASSUME scanPc[d] \in {"scanning", "checked"} PROVE ScanInv'
  <2> SUFFICES ASSUME NEW e \in Dispatchers, scanPc'[e] \in {"scanning", "checked"}
               PROVE  todo'[e] # {}
    BY DEF ScanInv
  <2>1. CASE e = d
    BY <2>1, <1>2 DEF TypeOK, ScanInv, NextCandidate
  <2>2. CASE e # d
    BY <2>2 DEF TypeOK, ScanInv, NextCandidate
  <2> QED
    BY <2>1, <2>2
<1> QED
  BY <1>1, <1>2

\* Types survive every step of a dispatcher thread.
LEMMA DispatchTypes ==
    ASSUME TypeOK, ScanInv, NEW d \in Dispatchers, Dispatch(d)
    PROVE  TypeOK' /\ ScanInv'
<1> USE RefreshAssumption
<1>1. CASE ReadCapacity(d)
  <2>1. WorkerLimit - Submitted(d[1]) > 0 => WorkerLimit - Submitted(d[1]) \in 0 .. WorkerLimit
    BY SubmittedIsNat
  <2> QED
    BY <1>1, <2>1 DEF ReadCapacity, TypeOK, ScanInv, rowVars, runVars
<1>2. CASE Inspect(d)
  <2>1. Candidates(room[d], scanLate[d]) \in SUBSET JobId
    BY DEF Candidates
  <2>2. TypeOK'
    BY <1>2, <2>1 DEF Inspect, TypeOK, rowVars, runVars
  <2>3. ScanInv'
    BY <1>2 DEF Inspect, TypeOK, ScanInv
  <2> QED
    BY <2>2, <2>3
<1>3. CASE ClaimExhausted(d)
  <2> DEFINE j == Oldest(todo[d])
  <2>1. j \in JobId
    BY <1>3, CandidateIsRow DEF ClaimExhausted
  <2>2. NextCandidate(d, j)
    BY <1>3 DEF ClaimExhausted
  <2>3. /\ status' = [status EXCEPT ![j] = "failed"]
        /\ owner' = [owner EXCEPT ![j] = NoOwner]
        /\ left' = [left EXCEPT ![j] = 0]
        /\ scanPc[d] = "scanning"
        /\ UNCHANGED <<operation, attempt, runVars, pubs, activated, life>>
    BY <1>3 DEF ClaimExhausted
  <2> HIDE DEF j
  <2> QED
    BY <2>1, <2>2, <2>3, NextCandidateTypes DEF TypeOK, runVars, Status, Active, Ticks
<1>4. CASE ClaimChecked(d)
  BY <1>4 DEF ClaimChecked, TypeOK, ScanInv, rowVars, runVars
<1>5. CASE ClaimRow(d)
  <2> DEFINE j == Oldest(todo[d])
             r == <<j, attempt[j] + 1>>
  <2>1. j \in JobId
    BY <1>5, CandidateIsRow DEF ClaimRow
  <2>2. NextCandidate(d, j)
    BY <1>5 DEF ClaimRow
  <2>3. attempt[j] \in 0 .. MaxClaims /\ attempt[j] < MaxClaims
    BY <1>5, <2>1 DEF ClaimRow, TypeOK
  <2>4. r \in RunId
    BY <2>1, <2>3 DEF RunId
  <2>5. Self(d) \in Owner
    BY DEF Self, Owner, TypeOK, Dispatchers
  <2>6. /\ status' = [status EXCEPT ![j] = "running"]
        /\ owner' = [owner EXCEPT ![j] = Self(d)]
        /\ left' = [left EXCEPT ![j] = LeaseTicks - scanLate[d]]
        /\ attempt' = [attempt EXCEPT ![j] = @ + 1]
        /\ runPc' = [runPc EXCEPT ![r] = "submitted"]
        /\ runOwner' = [runOwner EXCEPT ![r] = Self(d)]
        /\ scanPc[d] = "checked"
        /\ UNCHANGED <<operation, beat, frames, txLate, pubs, activated, life>>
    BY <1>5 DEF ClaimRow
  <2>7. LeaseTicks - scanLate[d] \in Ticks
    BY DEF TypeOK, Ticks
  <2> HIDE DEF j, r
  <2>8. /\ status' \in [JobId -> Status]
        /\ owner' \in [JobId -> Owner \cup {NoOwner}]
        /\ left' \in [JobId -> Ticks]
        /\ attempt' \in [JobId -> 0 .. MaxClaims]
    BY <2>1, <2>3, <2>5, <2>6, <2>7 DEF TypeOK, Status, Active
  <2>9. /\ runPc' \in [RunId -> RunPc]
        /\ runOwner' \in [RunId -> Owner \cup {NoOwner}]
    BY <2>4, <2>5, <2>6 DEF TypeOK, RunPc
  <2> QED
    BY <2>1, <2>2, <2>6, <2>8, <2>9, NextCandidateTypes DEF TypeOK
<1>6. CASE ClaimMissed(d)
  <2>1. Oldest(todo[d]) \in JobId
    BY <1>6, CandidateIsRow DEF ClaimMissed
  <2> QED
    BY <1>6, <2>1, NextCandidateTypes DEF ClaimMissed, TypeOK, rowVars, runVars
<1> QED
  BY <1>1, <1>2, <1>3, <1>4, <1>5, <1>6 DEF Dispatch

\* Types survive every step of a run, and no step of a run touches a scan.
LEMMA RunTypes ==
    ASSUME TypeOK, ScanInv, RowInv, RunInv, NEW r \in RunId,
           RunStep(r) \/ Heartbeat(r) \/ HandlerError(r) \/ AbortPublication(r)
    PROVE  TypeOK' /\ ScanInv'
<1> USE RefreshAssumption
<1>0. r[1] \in JobId
  BY DEF RunId
<1>t. LeaseTicks \in Ticks /\ 0 \in Ticks /\ LeaseTicks - txLate[r] \in Ticks
  BY DEF Ticks, TypeOK
<1>1. CASE Begin(r)
  BY <1>1 DEF Begin, TypeOK, ScanInv, rowVars, scanVars, RunPc
<1>2. CASE Stage(r)
  <2>1. frames' \in [RunId -> SUBSET Tables]
    <3>1. operation[r[1]] \in Operations
      BY <1>0, <1>2 DEF Stage, Progress, RunInv, RowInv
    <3> QED
      BY <3>1, <1>2 DEF Stage, TypeOK
  <2>2. Progress(r, "collecting", "staging")
    BY <1>2 DEF Stage
  <2>3. left' \in [JobId -> Ticks] /\ runPc' \in [RunId -> RunPc]
    BY <2>2, <1>0, <1>t DEF Progress, Renew, TypeOK, RunPc
  <2> QED
    BY <2>1, <2>2, <2>3 DEF Progress, TypeOK, ScanInv, scanVars
<1>3. CASE PublishNothing(r)
  BY <1>3 DEF PublishNothing, TypeOK, ScanInv, rowVars, scanVars, RunPc
<1>4. CASE FencePublication(r)
  BY <1>4 DEF FencePublication, TypeOK, ScanInv, rowVars, scanVars, RunPc
<1>5. CASE CommitPublication(r)
  BY <1>0, <1>t, <1>5 DEF CommitPublication, TypeOK, ScanInv, scanVars, RunPc
<1>6. CASE Complete(r)
  BY <1>0, <1>t, <1>6 DEF Complete, Progress, Renew, TypeOK, ScanInv, scanVars, RunPc
<1>7. CASE Finish(r)
  <2>1. CASE Settle(r, "succeeded") /\ EndRun(r)
    BY <1>0, <1>t, <1>7, <2>1 DEF Finish, Settle, EndRun, TypeOK, ScanInv, scanVars, RunPc, Status
  <2>2. CASE /\ runPc' = [runPc EXCEPT ![r] = "failing"]
             /\ UNCHANGED <<status, owner, left, beat>>
    BY <1>7, <2>2 DEF Finish, TypeOK, ScanInv, scanVars, RunPc
  <2> QED
    BY <1>7, <2>1, <2>2 DEF Finish
<1>8. CASE Fail(r)
  BY <1>0, <1>t, <1>8 DEF Fail, Settle, EndRun, TypeOK, ScanInv, scanVars, RunPc, Status
<1>9. CASE Heartbeat(r)
  <2>1. left' \in [JobId -> Ticks]
    BY <1>0, <1>t, <1>9 DEF Heartbeat, Renew, TypeOK
  <2>2. beat' \in [RunId -> BOOLEAN]
    BY <1>9 DEF Heartbeat, TypeOK
  <2> QED
    BY <1>9, <2>1, <2>2 DEF Heartbeat, TypeOK, ScanInv, scanVars
<1>10. CASE HandlerError(r)
  BY <1>10 DEF HandlerError, TypeOK, ScanInv, rowVars, scanVars, RunPc
<1>11. CASE AbortPublication(r)
  BY <1>11 DEF AbortPublication, TypeOK, ScanInv, rowVars, scanVars, RunPc
<1> QED
  BY <1>1, <1>2, <1>3, <1>4, <1>5, <1>6, <1>7, <1>8, <1>9, <1>10, <1>11 DEF RunStep

\* Types survive enqueueing, activation, restarts and the clock.
LEMMA EnvironmentTypes ==
    ASSUME TypeOK, ScanInv,
           \/ \E o \in Operations : Enqueue(o)
           \/ \E t \in FencedTables : Activate(t)
           \/ \E p \in Procs : Restart(p)
           \/ Tick
           \/ UNCHANGED vars
    PROVE  TypeOK' /\ ScanInv'
<1> USE RefreshAssumption
<1>1. ASSUME NEW o \in Operations, Enqueue(o) PROVE TypeOK' /\ ScanInv'
  BY <1>1 DEF Enqueue, TypeOK, ScanInv, scanVars, runVars, Status, Active
<1>2. ASSUME NEW t \in FencedTables, Activate(t) PROVE TypeOK' /\ ScanInv'
  BY <1>2 DEF Activate, TypeOK, ScanInv, rowVars, scanVars, runVars
<1>3. ASSUME NEW p \in Procs, Restart(p) PROVE TypeOK' /\ ScanInv'
  <2>1. life' \in [Procs -> Life]
    BY <1>3 DEF Restart, TypeOK, Life
  <2>2. /\ runPc' \in [RunId -> RunPc]
        /\ beat' \in [RunId -> BOOLEAN]
        /\ txLate' \in [RunId -> 0 .. MaxDelay]
    BY <1>3 DEF Restart, TypeOK, RunPc
  <2>3. /\ scanPc' \in [Dispatchers -> {"idle", "polling", "scanning", "checked"}]
        /\ scanLate' \in [Dispatchers -> 0 .. MaxDelay]
        /\ room' \in [Dispatchers -> 0 .. WorkerLimit]
        /\ todo' \in [Dispatchers -> SUBSET JobId]
    BY <1>3 DEF Restart, TypeOK
  <2>4. ScanInv'
    BY <1>3 DEF Restart, TypeOK, ScanInv
  <2> QED
    BY <1>3, <2>1, <2>2, <2>3, <2>4 DEF Restart, TypeOK, rowVars
<1>4. CASE Tick
  <2>1. left' \in [JobId -> Ticks]
    BY <1>4 DEF Tick, TypeOK, Ticks
  <2>2. /\ scanLate' \in [Dispatchers -> 0 .. MaxDelay]
        /\ txLate' \in [RunId -> 0 .. MaxDelay]
    BY <1>4 DEF Tick, TypeOK
  <2> QED
    BY <1>4, <2>1, <2>2 DEF Tick, TypeOK, ScanInv
<1>5. CASE UNCHANGED vars
  BY <1>5 DEF vars, TypeOK, ScanInv, rowVars, scanVars, runVars
<1> QED
  BY <1>1, <1>2, <1>3, <1>4, <1>5

\* Types survive every step from a state of the invariant.
LEMMA TypeStep == IInv /\ [Next]_vars => TypeOK' /\ ScanInv'
  BY DispatchTypes, RunTypes, EnvironmentTypes DEF Next, IInv

\* A step that leaves the rows' identity alone, moves only the run r and does
\* not move it into a transaction keeps RowInv and RunInv.
LEMMA QuietRun ==
    ASSUME IInv, NEW r \in RunId, NEW pc \in RunPc,
           pc \notin {"none", "swapping"}, runPc[r] # "none",
           UNCHANGED <<operation, status, attempt, activated>>,
           runPc' = [runPc EXCEPT ![r] = pc],
           frames' = frames \/ (runPc[r] # "swapping" /\ \E S : frames' = [frames EXCEPT ![r] = S])
    PROVE  RowInv' /\ RunInv'
<1>1. RowInv'
  BY DEF IInv, RowInv
<1>2. RunInv'
  BY DEF IInv, TypeOK, RunInv
<1> QED
  BY <1>1, <1>2

\* Every step of a run preserves the rest of the invariant.
LEMMA RunRest ==
    ASSUME IInv, NEW r \in RunId,
           RunStep(r) \/ Heartbeat(r) \/ HandlerError(r) \/ AbortPublication(r)
    PROVE  RowInv' /\ RunInv' /\ PubInv'
<1> USE DEF IInv
<1>0. r[1] \in JobId /\ r[2] \in 1 .. MaxClaims /\ r = <<r[1], r[2]>>
  BY DEF RunId
<1>1. CASE Begin(r)
  <2>1. RowInv' /\ RunInv'
    BY <1>1, QuietRun DEF Begin, rowVars, RunPc
  <2>2. PubInv'
    BY <1>1 DEF Begin, rowVars, PubInv, TypeOK
  <2> QED BY <2>1, <2>2
<1>2. CASE Stage(r)
  <2>1. RowInv' /\ RunInv'
    BY <1>2, QuietRun DEF Stage, Progress, RunPc
  <2>2. PubInv'
    BY <1>2 DEF Stage, Progress, PubInv, TypeOK
  <2> QED BY <2>1, <2>2
<1>3. CASE PublishNothing(r)
  <2>1. RowInv' /\ RunInv'
    BY <1>3, QuietRun DEF PublishNothing, rowVars, RunPc
  <2>2. PubInv'
    BY <1>3 DEF PublishNothing, rowVars, PubInv, TypeOK
  <2> QED BY <2>1, <2>2
<1>4. CASE FencePublication(r)
  <2>1. RowInv' /\ RunInv'
    BY <1>4 DEF FencePublication, Owned, rowVars, RowInv, RunInv, TypeOK
  <2>2. PubInv'
    BY <1>4 DEF FencePublication, rowVars, PubInv, TypeOK
  <2> QED BY <2>1, <2>2
<1>5. CASE CommitPublication(r)
  <2>1. RowInv' /\ RunInv'
    BY <1>5, QuietRun DEF CommitPublication, RunPc
  <2>2. PubInv'
    BY <1>5 DEF CommitPublication, PubInv, TypeOK
  <2> QED BY <2>1, <2>2
<1>6. CASE Complete(r)
  <2>1. RowInv' /\ RunInv'
    BY <1>6, QuietRun DEF Complete, Progress, RunPc
  <2>2. PubInv'
    BY <1>6 DEF Complete, Progress, PubInv, TypeOK
  <2> QED BY <2>1, <2>2
<1>9. CASE Heartbeat(r)
  BY <1>9 DEF Heartbeat, RowInv, RunInv, PubInv
<1>10. CASE HandlerError(r)
  <2>1. RowInv' /\ RunInv'
    BY <1>10, QuietRun DEF HandlerError, rowVars, RunPc
  <2>2. PubInv'
    BY <1>10 DEF HandlerError, rowVars, PubInv, TypeOK
  <2> QED BY <2>1, <2>2
<1>11. CASE AbortPublication(r)
  <2>1. RowInv' /\ RunInv'
    BY <1>11, QuietRun DEF AbortPublication, rowVars, RunPc
  <2>2. PubInv'
    BY <1>11 DEF AbortPublication, rowVars, PubInv, TypeOK
  <2> QED BY <2>1, <2>2
<1>7. CASE Finish(r)
  <2>1. CASE Owned(r) /\ Settle(r, "succeeded") /\ EndRun(r)
    <3>1. RowInv'
      BY <1>0, <1>7, <2>1 DEF Finish, Owned, Settle, RowInv, TypeOK, Settled
    <3>2. RunInv'
      BY <1>0, <1>7, <2>1 DEF Finish, Owned, Settle, EndRun, RowLocked, RunInv, TypeOK, RunId
    <3>3. PubInv'
      BY <1>0, <1>7, <2>1 DEF Finish, Owned, Settle, EndRun, PubInv, TypeOK
    <3> QED BY <3>1, <3>2, <3>3
  <2>2. CASE runPc' = [runPc EXCEPT ![r] = "failing"] /\ UNCHANGED <<status, owner, left, beat>>
    <3>1. RowInv' /\ RunInv'
      BY <1>7, <2>2, QuietRun DEF Finish, RunPc
    <3>2. PubInv'
      BY <1>7, <2>2 DEF Finish, PubInv, TypeOK
    <3> QED BY <3>1, <3>2
  <2> QED BY <1>7, <2>1, <2>2 DEF Finish
<1>8. CASE Fail(r)
  <2>1. CASE Owned(r) /\ Settle(r, "failed")
    <3>1. RowInv'
      BY <1>0, <1>8, <2>1 DEF Fail, Owned, Settle, RowInv, TypeOK, Settled
    <3>2. RunInv'
      BY <1>0, <1>8, <2>1 DEF Fail, Owned, Settle, EndRun, RowLocked, RunInv, TypeOK, RunId
    <3>3. PubInv'
      BY <1>0, <1>8, <2>1 DEF Fail, Owned, Settle, EndRun, PubInv, TypeOK
    <3> QED BY <3>1, <3>2, <3>3
  <2>2. CASE UNCHANGED <<status, owner, left>>
    <3>1. RowInv' /\ RunInv'
      BY <1>8, <2>2, QuietRun DEF Fail, EndRun, RunPc
    <3>2. PubInv'
      BY <1>8, <2>2 DEF Fail, EndRun, PubInv, TypeOK
    <3> QED BY <3>1, <3>2
  <2> QED BY <1>8, <2>1, <2>2 DEF Fail
<1> QED
  BY <1>1, <1>2, <1>3, <1>4, <1>5, <1>6, <1>7, <1>8, <1>9, <1>10, <1>11 DEF RunStep

\* Every step of a dispatcher preserves the rest of the invariant: a claim
\* waits for the transaction of the attempt it supersedes.
LEMMA DispatchRest ==
    ASSUME IInv, NEW d \in Dispatchers, Dispatch(d)
    PROVE  RowInv' /\ RunInv' /\ PubInv'
<1> USE DEF IInv
<1>1. CASE ReadCapacity(d) \/ Inspect(d) \/ ClaimChecked(d) \/ ClaimMissed(d)
  BY <1>1 DEF ReadCapacity, Inspect, ClaimChecked, ClaimMissed, rowVars, runVars,
              RowInv, RunInv, PubInv
<1>2. CASE ClaimExhausted(d)
  <2> DEFINE j == Oldest(todo[d])
  <2>1. /\ j \in JobId
        /\ ~RowLocked(j)
        /\ status[j] = "running"
        /\ status' = [status EXCEPT ![j] = "failed"]
        /\ UNCHANGED <<operation, attempt, runVars, pubs, activated>>
    BY <1>2, CandidateIsRow DEF ClaimExhausted, Exhausted, Stale
  <2> HIDE DEF j
  <2>2. RowInv'
    BY <2>1 DEF RowInv, TypeOK, Settled
  <2>3. RunInv'
    BY <2>1 DEF RunInv, RowLocked, TypeOK, runVars, RunId
  <2>4. PubInv'
    BY <2>1 DEF PubInv, TypeOK, runVars
  <2> QED BY <2>2, <2>3, <2>4
<1>3. CASE ClaimRow(d)
  <2> DEFINE j == Oldest(todo[d])
             r == <<j, attempt[j] + 1>>
  <2>1. /\ j \in JobId
        /\ ~RowLocked(j)
        /\ status[j] \in {"queued", "running"}
        /\ attempt[j] < MaxClaims
        /\ status' = [status EXCEPT ![j] = "running"]
        /\ attempt' = [attempt EXCEPT ![j] = @ + 1]
        /\ runPc' = [runPc EXCEPT ![r] = "submitted"]
        /\ UNCHANGED <<operation, frames, pubs, activated>>
    BY <1>3, CandidateIsRow DEF ClaimRow, Claimable, Stale
  <2> HIDE DEF j
  <2>2. attempt[j] \in 0 .. MaxClaims /\ r \in RunId /\ r[1] = j /\ r[2] = attempt[j] + 1
    BY <2>1, RefreshAssumption DEF TypeOK, RunId
  <2>3. runPc[r] = "none" /\ r \notin pubs
    BY <2>2 DEF RunInv, PubInv
  <2> HIDE DEF r
  <2>4. RowInv'
    BY <2>1 DEF RowInv, TypeOK, Settled
  <2>5. RunInv'
    <3> SUFFICES ASSUME NEW q \in RunId
                 PROVE  /\ runPc'[q] # "none" => /\ q[2] <= attempt'[q[1]]
                                                 /\ status'[q[1]] # "absent"
                        /\ runPc'[q] = "swapping" => /\ status'[q[1]] = "running"
                                                     /\ attempt'[q[1]] = q[2]
                                                     /\ frames'[q] \cap activated' = {}
      BY DEF RunInv
    <3>1. q[1] \in JobId /\ q[2] \in 1 .. MaxClaims /\ attempt[q[1]] \in 0 .. MaxClaims
      BY DEF RunId, TypeOK
    <3>2. CASE q = r
      BY <3>1, <3>2, <2>1, <2>2, RefreshAssumption DEF TypeOK
    <3>3. CASE q # r
      <4>1. runPc'[q] = runPc[q]
        BY <2>1, <2>2, <3>3 DEF TypeOK
      <4>2. CASE q[1] = j
        BY <4>1, <4>2, <3>1, <2>1, <2>2, RefreshAssumption DEF TypeOK, RunInv, RowLocked
      <4>3. CASE q[1] # j
        BY <4>1, <4>3, <3>1, <2>1 DEF TypeOK, RunInv
      <4> QED BY <4>2, <4>3
    <3> QED BY <3>2, <3>3
  <2>6. PubInv'
    <3>1. ASSUME NEW q \in pubs
          PROVE  runPc'[q] \in {"completing", "finishing", "failing", "ended"}
      BY <2>1, <2>2, <2>3 DEF PubInv, TypeOK
    <3>2. ASSUME NEW q \in RunId, runPc'[q] \in {"completing", "finishing"}
          PROVE  q \in pubs \/ frames[q] = {}
      BY <3>2, <2>1, <2>2 DEF PubInv, TypeOK
    <3>3. ASSUME NEW i \in JobId, status'[i] = "succeeded"
          PROVE  /\ <<i, attempt'[i]>> \in RunId
                 /\ runPc'[<<i, attempt'[i]>>] = "ended"
                 /\ <<i, attempt'[i]>> \in pubs \/ frames[<<i, attempt'[i]>>] = {}
      <4>1. i # j /\ status[i] = "succeeded" /\ attempt'[i] = attempt[i]
        BY <3>3, <2>1 DEF TypeOK
      <4>2. <<i, attempt[i]>> # r
        BY <4>1, <2>1 DEF r
      <4> QED
        BY <4>1, <4>2, <2>1, <2>2 DEF PubInv, TypeOK
    <3> QED BY <2>1, <3>1, <3>2, <3>3 DEF PubInv
  <2> QED BY <2>4, <2>5, <2>6
<1> QED
  BY <1>1, <1>2, <1>3 DEF Dispatch

\* Enqueueing, activation, restarts and the clock preserve the rest.
LEMMA EnvironmentRest ==
    ASSUME IInv,
           \/ \E o \in Operations : Enqueue(o)
           \/ \E t \in FencedTables : Activate(t)
           \/ \E p \in Procs : Restart(p)
           \/ Tick
           \/ UNCHANGED vars
    PROVE  RowInv' /\ RunInv' /\ PubInv'
<1> USE DEF IInv
<1>1. ASSUME NEW o \in Operations, Enqueue(o) PROVE RowInv' /\ RunInv' /\ PubInv'
  <2>1. PICK j \in JobId :
            /\ status[j] = "absent"
            /\ \A i \in JobId : i < j => status[i] # "absent"
            /\ operation' = [operation EXCEPT ![j] = o]
            /\ status' = [status EXCEPT ![j] = "queued"]
    BY <1>1 DEF Enqueue
  <2>2. \A i \in JobId : operation[i] = o => status[i] \in Settled \cup {"absent"}
    BY <1>1 DEF Enqueue, TypeOK, Status, Active, Settled
  <2>3. RowInv'
    BY <2>1, <2>2, RefreshAssumption DEF RowInv, TypeOK, JobId
  <2>4. RunInv' /\ PubInv'
    BY <1>1, <2>1 DEF Enqueue, RunInv, PubInv, TypeOK, runVars, RunId
  <2> QED BY <2>3, <2>4
<1>2. ASSUME NEW t \in FencedTables, Activate(t) PROVE RowInv' /\ RunInv' /\ PubInv'
  <2>1. RunInv'
    BY <1>2 DEF Activate, RunInv, rowVars, runVars
  <2>2. RowInv' /\ PubInv'
    BY <1>2 DEF Activate, RowInv, PubInv, rowVars, runVars
  <2> QED BY <2>1, <2>2
<1>3. ASSUME NEW p \in Procs, Restart(p) PROVE RowInv' /\ RunInv' /\ PubInv'
  <2>1. \A r \in RunId : runPc'[r] = runPc[r] \/ (runPc'[r] = "ended" /\ runPc[r] # "none")
    BY <1>3 DEF Restart, InFlight
  <2>2. UNCHANGED <<operation, status, attempt, frames, pubs, activated>>
    BY <1>3 DEF Restart, rowVars
  <2>3. RowInv' /\ RunInv'
    BY <2>1, <2>2 DEF RowInv, RunInv
  <2>4. PubInv'
    BY <2>1, <2>2 DEF PubInv, TypeOK
  <2> QED BY <2>3, <2>4
<1>4. CASE Tick
  BY <1>4 DEF Tick, RowInv, RunInv, PubInv
<1>5. CASE UNCHANGED vars
  BY <1>5 DEF vars, rowVars, runVars, RowInv, RunInv, PubInv
<1> QED
  BY <1>1, <1>2, <1>3, <1>4, <1>5

\* The invariant is inductive.
LEMMA InvStep == IInv /\ [Next]_vars => IInv'
<1>1. IInv /\ [Next]_vars => RowInv' /\ RunInv' /\ PubInv'
  BY DispatchRest, RunRest, EnvironmentRest DEF Next
<1> QED
  BY <1>1, TypeStep DEF IInv

LEMMA InvHolds == Spec => []IInv
  BY InitInv, InvStep, PTL DEF Spec

-----------------------------------------------------------------------------
(***************************************************************************)
(* The results.                                                            *)
(***************************************************************************)

\* Every field of every row, thread and run keeps its type.
THEOREM TypesHold == Spec => []TypeOK
<1>1. IInv => TypeOK
  BY DEF IInv
<1> QED
  BY <1>1, InvHolds, PTL

\* A job recorded as succeeded has published its tables or had none to publish.
THEOREM SucceededHasPublished == Spec => []SucceededPublished
<1>1. IInv => SucceededPublished
  BY DEF IInv, PubInv, SucceededPublished
<1> QED
  BY <1>1, InvHolds, PTL

\* Only CommitPublication adds a publication.
LEMMA PublisherIsSwapping ==
    ASSUME IInv, [Next]_vars, NEW r \in pubs' \ pubs
    PROVE  r \in RunId /\ runPc[r] = "swapping" /\ UNCHANGED <<operation, activated>>
<1>1. CASE \E q \in RunId : CommitPublication(q)
  BY <1>1 DEF CommitPublication
<1>2. CASE UNCHANGED pubs
  BY <1>2
<1>3. ASSUME NEW q \in RunId, RunStep(q) PROVE CommitPublication(q) \/ UNCHANGED pubs
  BY <1>3 DEF RunStep, Begin, Stage, Progress, PublishNothing, FencePublication, Complete,
              Finish, Fail
<1>4. ASSUME NEW q \in RunId, Heartbeat(q) \/ HandlerError(q) \/ AbortPublication(q)
      PROVE  UNCHANGED pubs
  BY <1>4 DEF Heartbeat, HandlerError, AbortPublication
<1>5. ASSUME NEW d \in Dispatchers, Dispatch(d) PROVE UNCHANGED pubs
  BY <1>5 DEF Dispatch, ReadCapacity, Inspect, ClaimExhausted, ClaimChecked, ClaimRow, ClaimMissed
<1>6. ASSUME \/ \E o \in Operations : Enqueue(o)
             \/ \E t \in FencedTables : Activate(t)
             \/ \E p \in Procs : Restart(p)
             \/ Tick
             \/ UNCHANGED vars
      PROVE  UNCHANGED pubs
  BY <1>6 DEF Enqueue, Activate, Restart, Tick, vars
<1> QED
  BY <1>1, <1>2, <1>3, <1>4, <1>5, <1>6 DEF Next

\* Publications of one operation commit in the order of their claims.
THEOREM PublicationsInOrder == Spec => PublishedInOrder
<1>1. ASSUME IInv, [Next]_vars PROVE PublishInOrder
  <2> SUFFICES ASSUME NEW r \in pubs' \ pubs, NEW q \in pubs,
                      operation[q[1]] = operation[r[1]]
               PROVE  Before(q, r)
    BY DEF PublishInOrder
  <2>1. r \in RunId /\ runPc[r] = "swapping"
    BY <1>1, PublisherIsSwapping
  <2>2. q \in RunId /\ runPc[q] # "none" /\ q # r
    BY <1>1 DEF IInv, TypeOK, PubInv
  <2>3. /\ r[1] \in JobId /\ r[2] \in 1 .. MaxClaims /\ r = <<r[1], r[2]>>
        /\ q[1] \in JobId /\ q[2] \in 1 .. MaxClaims /\ q = <<q[1], q[2]>>
    BY <2>1, <2>2 DEF RunId
  <2>4. /\ status[r[1]] = "running" /\ attempt[r[1]] = r[2]
        /\ status[q[1]] # "absent" /\ q[2] <= attempt[q[1]]
    BY <1>1, <2>1, <2>2 DEF IInv, RunInv
  <2>5. ~(r[1] < q[1])
    BY <1>1, <2>3, <2>4 DEF IInv, RowInv, Settled
  <2> QED
    BY <2>2, <2>3, <2>4, <2>5, RefreshAssumption DEF Before, JobId
<1> QED
  BY <1>1, InvHolds, PTL DEF Spec, PublishedInOrder

\* A committed publication holds no table whose stream was activated.
THEOREM PublicationsWritable == Spec => NoSupersededTable
<1>1. ASSUME IInv, [Next]_vars PROVE PublishWritable
  BY <1>1, PublisherIsSwapping DEF PublishWritable, IInv, RunInv
<1> QED
  BY <1>1, InvHolds, PTL DEF Spec, NoSupersededTable

\* A recorded result is never overwritten.
THEOREM ResultsFinal == Spec => SettledIsFinal
<1>1. ASSUME IInv, [Next]_vars PROVE KeepSettled
  <2> SUFFICES ASSUME NEW j \in JobId, status[j] \in Settled PROVE status'[j] = status[j]
    BY DEF KeepSettled
  <2> USE <1>1 DEF IInv, Settled
  <2>1. ASSUME NEW d \in Dispatchers, Dispatch(d) PROVE status'[j] = status[j]
    <3>1. CASE ReadCapacity(d) \/ Inspect(d) \/ ClaimChecked(d) \/ ClaimMissed(d)
      BY <3>1 DEF ReadCapacity, Inspect, ClaimChecked, ClaimMissed, rowVars
    <3>2. CASE ClaimExhausted(d)
      BY <3>2, CandidateIsRow DEF ClaimExhausted, Exhausted, Stale, TypeOK
    <3>3. CASE ClaimRow(d)
      BY <3>3, CandidateIsRow DEF ClaimRow, Claimable, Stale, TypeOK
    <3> QED BY <2>1, <3>1, <3>2, <3>3 DEF Dispatch
  <2>2. ASSUME NEW r \in RunId, RunStep(r) PROVE status'[j] = status[j]
    <3>0. r[1] \in JobId
      BY DEF RunId
    <3>1. CASE Finish(r) \/ Fail(r)
      BY <3>0, <3>1 DEF Finish, Fail, Settle, Owned, TypeOK
    <3> QED
      BY <2>2, <3>1 DEF RunStep, Begin, Stage, Progress, PublishNothing, FencePublication,
                        CommitPublication, Complete, rowVars
  <2>3. ASSUME NEW r \in RunId, Heartbeat(r) \/ HandlerError(r) \/ AbortPublication(r)
        PROVE  status'[j] = status[j]
    BY <2>3 DEF Heartbeat, HandlerError, AbortPublication, rowVars
  <2>4. ASSUME NEW o \in Operations, Enqueue(o) PROVE status'[j] = status[j]
    BY <2>4 DEF Enqueue, TypeOK
  <2>5. ASSUME \/ \E t \in FencedTables : Activate(t)
               \/ \E p \in Procs : Restart(p)
               \/ Tick
               \/ UNCHANGED vars
        PROVE  status'[j] = status[j]
    BY <2>5 DEF Activate, Restart, Tick, vars, rowVars
  <2> QED
    BY <2>1, <2>2, <2>3, <2>4, <2>5 DEF Next
<1> QED
  BY <1>1, InvHolds, PTL DEF Spec, SettledIsFinal
=============================================================================
