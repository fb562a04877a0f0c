------------------------- MODULE ResidentialOutbox -------------------------
(***************************************************************************)
(* The residential collector: one-shot invocations (runner.py) that keep   *)
(* what they collected in a SQLite outbox (outbox.py) until the server     *)
(* receipts it (client.py), and the instruction cache (cache.py).          *)
(*                                                                         *)
(* An invocation runs under a process lease that nobody renews.  It drains *)
(* the outbox, asks the server for its instructions, removes the rows the  *)
(* server's cutoff makes obsolete, collects, drains after every row it     *)
(* adds, and drains once more.  A lease that expires under a slow run lets *)
(* a second invocation work on the same rows.  Requests may be lost before *)
(* or after the server acts on them, or reach it after the client gave up. *)
(* The server is ObservationStore behind the checks of its instructions.   *)
(*                                                                         *)
(* The client_observation_id contains the checksum, so an envelope is its  *)
(* own key.  One item is one observation of a scope.  A 1000-row page of   *)
(* the outbox holds every row, and credentials are not revoked mid-run.    *)
(***************************************************************************)
EXTENDS Integers, FiniteSets

CONSTANTS
    Invocations,      \* processes of the collector on one machine
    Items,            \* envelopes
    Manifests, Bootstraps,        \* instructions of the server
    InstructionOf,    \* the instruction an envelope was collected for
    CutoffOf,         \* the cutoff of an instruction
    Capacity,         \* rows within the outbox budget
    BusyRetryLimit,   \* waits for a busy server in one upload
    MaxMishaps        \* bound: crashes and lease expiries

None == "none"
Instructions == Manifests \cup Bootstraps

ASSUME OutboxAssumption ==
    /\ InstructionOf \in [Items -> Instructions]
    /\ CutoffOf \in [Instructions -> Nat \ {0}]
    /\ Manifests \cap Bootstraps = {} /\ IsFiniteSet(Manifests) /\ IsFiniteSet(Items)
    /\ Capacity \in Nat /\ BusyRetryLimit \in Nat /\ MaxMishaps \in Nat
    /\ None \notin Invocations /\ "lost" \notin Invocations /\ None \notin Items

VARIABLES
    status,           \* of each instruction, at the server
    past,             \* instructions whose collect_before or expires_at has passed
    stored, receipts, \* the server's observations and the receipts it issued
    outbox,           \* collector_outbox: the envelopes that have a row
    aged,             \* rows older than the 30-day retention
    cache,            \* instructions in the instruction cache
    lease,            \* collector_process_lease
    run,              \* what each invocation is doing
    sent,             \* uploads on their way to the server
    governed,         \* history: the highest cutoff a discovery returned
    mishaps           \* crashes and lease expiries so far

serverVars == <<status, past, stored, receipts>>
localVars == <<outbox, aged, cache, lease>>
vars == <<serverVars, localVars, run, sent, governed, mishaps>>

CutoffFor(i) == CutoffOf[InstructionOf[i]]

(* queue holds the rows a drain has read and not handled.  item_id is      *)
(* AUTOINCREMENT, so a row that is deleted and added again is another row: *)
(* gone holds the rows of the drain that were deleted since it read them.  *)
(* final is what the last drain read, found the instructions of this run,  *)
(* work the observations still to collect.                                 *)
Pc == {"idle", "token", "drain", "upload", "discover", "prune", "collect", "settle"}
Run == [pc : Pc, phase : {"first", "each", "last"}, token : BOOLEAN, transient : BOOLEAN,
        failed : BOOLEAN, late : BOOLEAN, queue : SUBSET Items, gone : SUBSET Items,
        final : SUBSET Items, found : SUBSET Instructions, work : SUBSET Items,
        below : Nat, item : Items \cup {None}, answer : {None, "receipt", "refused", "busy"},
        tries : Nat, overrun : BOOLEAN]

Fresh == [pc |-> "idle", phase |-> "first", token |-> FALSE, transient |-> FALSE,
          failed |-> FALSE, late |-> FALSE, queue |-> {}, gone |-> {}, final |-> {},
          found |-> {}, work |-> {}, below |-> 0, item |-> None, answer |-> None,
          tries |-> 0, overrun |-> FALSE]

(* Every variable has a value of its table or its process, and the work in *)
(* progress belongs to what was found.                                     *)
TypeOK ==
    /\ status \in [Instructions -> {"unissued", "active", "superseded", "succeeded"}]
    /\ past \subseteq Instructions
    /\ stored \subseteq Items /\ receipts \subseteq Items
    /\ outbox \subseteq Items /\ aged \subseteq outbox
    /\ cache \subseteq Instructions
    /\ lease \in [owner : Invocations \cup {None, "lost"}, live : BOOLEAN]
    /\ run \in [Invocations -> Run]
    /\ sent \subseteq [from : Invocations, item : Items, waiting : BOOLEAN]
    /\ governed \in Nat /\ mishaps \in 0 .. MaxMishaps
    /\ \A p \in Invocations : run[p].pc = "upload" => run[p].item \in Items
    /\ \A p \in Invocations : \A i \in run[p].work : InstructionOf[i] \in run[p].found

Init ==
    /\ status = [n \in Instructions |-> "unissued"]
    /\ past = {} /\ stored = {} /\ receipts = {}
    /\ outbox = {} /\ aged = {} /\ cache = {}
    /\ lease = [owner |-> None, live |-> FALSE]
    /\ run = [p \in Invocations |-> Fresh]
    /\ sent = {} /\ governed = 0 /\ mishaps = 0

-----------------------------------------------------------------------------
(* The server. *)

Store == INSTANCE ObservationStore WITH KeyOf <- [i \in Items |-> i]

Issue(n) ==
    /\ status[n] = "unissued"
    /\ status' = [m \in Instructions |->
                    IF m = n THEN "active"
                    ELSE IF {m, n} \subseteq Manifests /\ status[m] = "active" THEN "superseded"
                    ELSE status[m]]
    /\ UNCHANGED <<past, stored, receipts, localVars, run, sent, governed, mishaps>>

\* The clock passes the deadline of an instruction.
Expire(n) ==
    /\ status[n] # "unissued" /\ n \notin past
    /\ past' = past \cup {n}
    /\ UNCHANGED <<status, stored, receipts, localVars, run, sent, governed, mishaps>>

Open(n) == status[n] = "active" /\ n \notin past

\* Mutant: only catalogs are confirmed again.
ConfirmsCatalogs(i) == status[InstructionOf[i]] = "succeeded"

\* A stored observation is confirmed again only while its manifest is open, a
\* stored catalog also after its request succeeded.
Confirms(i) == Open(InstructionOf[i]) \/ status[InstructionOf[i]] = "succeeded"

Answer(r, a) ==
    /\ sent' = sent \ {r}
    /\ run' = IF r.waiting THEN [run EXCEPT ![r.from].answer = a] ELSE run
    /\ UNCHANGED <<past, localVars, governed, mishaps>>

AcceptUpload(r) ==
    LET n == InstructionOf[r.item]
    IN  /\ r \in sent /\ Open(n)
        /\ Store!Accept(r.item)
        /\ status' = IF n \in Bootstraps THEN [status EXCEPT ![n] = "succeeded"] ELSE status
        /\ Answer(r, "receipt")

ReplayUpload(r) ==
    /\ r \in sent /\ Confirms(r.item)
    /\ Store!Replay(r.item)
    /\ Answer(r, "receipt")
    /\ UNCHANGED status

\* No refusal is retryable: manifest_expired and bootstrap_expired once the
\* instruction is closed, observation_race and stale_lease while it is open.
RefuseUpload(r) ==
    /\ r \in sent
    /\ ~(Confirms(r.item) /\ r.item \in stored)
    /\ Answer(r, "refused")
    /\ UNCHANGED <<status, stored, receipts>>

\* 429 while the collector's lease or the composition job is held.
BusyUpload(r) ==
    /\ r \in sent
    /\ Answer(r, "busy")
    /\ UNCHANGED <<status, stored, receipts>>

-----------------------------------------------------------------------------
(* The invocation. *)

Idle(p) == run[p].pc = "idle"
Set(p, r) == run' = [run EXCEPT ![p] = r]

\* Mutant: the lease is released whoever owns it.
ReleasedBlindly(p) == [owner |-> None, live |-> FALSE]

\* release_lease deletes the row only if it is this invocation's.
Released(p) == IF lease.owner = p THEN [owner |-> None, live |-> FALSE] ELSE lease

Exit(p) ==
    /\ Set(p, Fresh)
    /\ lease' = Released(p)

\* acquire_lease takes an expired lease over.
LeaseFree == ~lease.live

\* While the lease is live an invocation ends at once (OutboxBusy).
Start(p) ==
    /\ Idle(p)
    /\ LeaseFree
    /\ lease' = [owner |-> p, live |-> TRUE]
    /\ Set(p, [Fresh EXCEPT !.pc = "token"])
    /\ UNCHANGED <<serverVars, outbox, aged, cache, sent, governed, mishaps>>

\* Mutant: an aged row fails the first drain as it fails the later ones.
DrainingAgedFails(r, phase) ==
    [r EXCEPT !.pc = "drain", !.phase = phase, !.queue = outbox \ aged, !.gone = {},
              !.final = IF phase = "last" THEN outbox ELSE @, !.failed = @ \/ aged # {}]

\* _drain reads the rows; an aged one is only reported.
Draining(r, phase) ==
    [r EXCEPT !.pc = "drain", !.phase = phase, !.queue = outbox \ aged, !.gone = {},
              !.final = IF phase = "last" THEN outbox ELSE @,
              !.failed = @ \/ (phase # "first" /\ aged # {}), !.late = phase = "first" /\ aged # {}]

GetToken(p) ==
    /\ run[p].pc = "token"
    /\ Set(p, Draining([run[p] EXCEPT !.token = TRUE], "first"))
    /\ UNCHANGED <<serverVars, localVars, sent, governed, mishaps>>

\* Without a token the run goes on with what the cache holds.
NoToken(p) ==
    /\ run[p].pc = "token"
    /\ Set(p, [run[p] EXCEPT !.transient = TRUE, !.found = cache \ past, !.pc = "prune"])
    /\ UNCHANGED <<serverVars, localVars, sent, governed, mishaps>>

CredentialRefused(p) ==
    /\ run[p].pc \in {"token", "discover"}
    /\ Exit(p)
    /\ UNCHANGED <<serverVars, outbox, aged, cache, sent, governed, mishaps>>

-----------------------------------------------------------------------------
(* Draining. *)

\* Newest cutoff first.
Upload(p, i) ==
    /\ run[p].pc = "drain" /\ i \in run[p].queue
    /\ \A j \in run[p].queue : CutoffFor(j) <= CutoffFor(i)
    /\ sent' = sent \cup {[from |-> p, item |-> i, waiting |-> TRUE]}
    /\ Set(p, [run[p] EXCEPT !.pc = "upload", !.item = i, !.queue = @ \ {i}, !.tries = 0])
    /\ UNCHANGED <<serverVars, localVars, governed, mishaps>>

Back(r) == [r EXCEPT !.pc = "drain", !.item = None, !.answer = None, !.tries = 0]

\* Rows leave the outbox, for every drain that has read them.
Delete(gone, next) ==
    /\ outbox' = outbox \ gone
    /\ aged' = aged \ gone
    /\ run' = [q \in Invocations |->
                 LET r == next[q] IN
                 [r EXCEPT !.gone = @ \cup (gone \cap (r.queue \cup {r.item} \cup r.final))]]

\* Mutant: any answer of the server counts as a receipt.
AnyAnswer(p) == run[p].answer # None

Receipted(p) == run[p].answer = "receipt"

\* acknowledge deletes the row that was read, and no later row of the envelope.
Acknowledge(p) ==
    LET r == run[p]
    IN  /\ r.pc = "upload" /\ Receipted(p)
        /\ Delete({r.item} \ r.gone, [run EXCEPT ![p] = Back(r)])
        /\ UNCHANGED <<serverVars, cache, lease, sent, governed, mishaps>>

Refused(p) ==
    /\ run[p].pc = "upload" /\ run[p].answer = "refused"
    /\ Set(p, [Back(run[p]) EXCEPT !.failed = TRUE])
    /\ UNCHANGED <<serverVars, localVars, sent, governed, mishaps>>

\* In the last drain a busy server is waited for while the deadline allows.
WaitForServer(p) ==
    LET r == run[p]
        n == InstructionOf[r.item]
    IN  /\ r.pc = "upload" /\ r.answer = "busy"
        /\ r.phase = "last" /\ n \in r.found \cap Manifests /\ n \notin past
        /\ r.tries < BusyRetryLimit
        /\ sent' = sent \cup {[from |-> p, item |-> r.item, waiting |-> TRUE]}
        /\ Set(p, [r EXCEPT !.answer = None, !.tries = @ + 1])
        /\ UNCHANGED <<serverVars, localVars, governed, mishaps>>

GiveUp(p) ==
    /\ run[p].pc = "upload" /\ run[p].answer = "busy"
    /\ Set(p, [Back(run[p]) EXCEPT !.transient = TRUE])
    /\ UNCHANGED <<serverVars, localVars, sent, governed, mishaps>>

\* No answer in time: the request was lost, its answer was, or the server is
\* still to act on it.
TimeOut(p) ==
    LET mine == {r \in sent : r.from = p /\ r.waiting}
    IN  /\ run[p].pc = "upload"
        /\ \E kept \in SUBSET mine :
              sent' = (sent \ mine) \cup {[r EXCEPT !.waiting = FALSE] : r \in kept}
        /\ Set(p, [Back(run[p]) EXCEPT !.transient = TRUE])
        /\ UNCHANGED <<serverVars, localVars, governed, mishaps>>

Drained(p) == run[p].pc = "drain" /\ run[p].queue = {}

\* A refusal of the first drain ends the run unless something may be retried.
EndRefused(p) ==
    /\ Drained(p) /\ run[p].phase = "first"
    /\ run[p].failed /\ ~run[p].transient
    /\ Exit(p)
    /\ UNCHANGED <<serverVars, outbox, aged, cache, sent, governed, mishaps>>

DrainDone(p) ==
    LET r == run[p]
        next == [first |-> "discover", each |-> "collect", last |-> "settle"]
    IN  /\ Drained(p)
        /\ r.phase = "first" => ~r.failed \/ r.transient
        /\ Set(p, [r EXCEPT !.pc = next[r.phase], !.gone = IF r.phase = "last" THEN @ ELSE {},
                            !.failed = IF r.phase = "first" THEN FALSE ELSE @])
        /\ UNCHANGED <<serverVars, localVars, sent, governed, mishaps>>

-----------------------------------------------------------------------------
(* Discovery, the governed cutoff and collection. *)

Visible == {n \in Instructions : Open(n)}
VisibleManifests == Visible \cap Manifests

\* obsolete_before_cutoff is the newest cutoff of the visible manifests.
ObsoleteBefore ==
    IF VisibleManifests = {} THEN 0
    ELSE CHOOSE c \in {CutoffOf[m] : m \in VisibleManifests} :
            \A m \in VisibleManifests : CutoffOf[m] <= c

\* The cache refuses an instruction with a field it does not know, and every
\* manifest of a discovery has one (repair_group).
Cached(found) == IF found \cap Manifests = {} THEN found ELSE cache

Discover(p) ==
    /\ run[p].pc = "discover"
    /\ cache' = Cached(Visible)
    /\ governed' = IF ObsoleteBefore > governed THEN ObsoleteBefore ELSE governed
    /\ Set(p, [run[p] EXCEPT !.pc = "prune", !.found = Visible, !.below = ObsoleteBefore])
    /\ UNCHANGED <<serverVars, outbox, aged, lease, sent, mishaps>>

DiscoveryFails(p) ==
    /\ run[p].pc = "discover"
    /\ Set(p, [run[p] EXCEPT !.pc = "prune", !.found = cache \ past, !.transient = TRUE])
    /\ UNCHANGED <<serverVars, localVars, sent, governed, mishaps>>

\* Mutant: the cutoff itself is obsolete too.
ObsoleteWithCutoff(c) == {i \in outbox : CutoffFor(i) <= c}

Obsolete(c) == {i \in outbox : CutoffFor(i) < c}

\* Mutant: what is collected does not depend on the instructions.
EveryItem(found) == Items

ItemsOf(found) == {i \in Items : InstructionOf[i] \in found}

\* Aged rows make a run transient unless a governed cutoff was applied.
Prune(p) ==
    LET r == run[p]
    IN  /\ r.pc = "prune"
        /\ Delete(Obsolete(r.below),
                  [run EXCEPT ![p] = [r EXCEPT !.pc = "collect", !.work = ItemsOf(r.found),
                                               !.late = FALSE, !.below = 0,
                                               !.transient = @ \/ (r.late /\ r.below = 0)]])
        /\ UNCHANGED <<serverVars, cache, lease, sent, governed, mishaps>>

\* Bootstrap requests are executed before manifests.
NextWork(p, i) ==
    /\ run[p].pc = "collect" /\ i \in run[p].work
    /\ InstructionOf[i] \in Manifests
            => \A j \in run[p].work : InstructionOf[j] \in Manifests

\* Mutant: a full outbox makes room by dropping a row of the oldest cutoff.
RoomByEviction(i) ==
    IF i \in outbox \/ Cardinality(outbox) < Capacity THEN outbox \cup {i}
    ELSE (outbox \ {CHOOSE j \in outbox : \A k \in outbox : CutoffFor(j) <= CutoffFor(k)}) \cup {i}

\* enqueue returns the row the envelope has already; a full outbox refuses it.
Enqueued(i) ==
    IF i \in outbox \/ Cardinality(outbox) < Capacity THEN outbox \cup {i} ELSE outbox

\* collect_before is compared with the clock once, before the first scope.
Begun(p, n) == ItemsOf({n}) \ run[p].work # {}
Executes(p, i) ==
    NextWork(p, i) /\ (InstructionOf[i] \notin past \/ Begun(p, InstructionOf[i]))

\* The observation is spooled and, with a token, the outbox drained.
Collect(p, i) ==
    LET r == [run[p] EXCEPT !.work = @ \ {i}]
        rows == Enqueued(i)
    IN  /\ Executes(p, i)
        /\ i \in rows
        /\ outbox' = rows /\ aged' = aged \cap rows
        /\ Set(p, IF r.token
                  THEN [Draining(r, "each") EXCEPT !.queue = rows \ aged]
                  ELSE [r EXCEPT !.transient = TRUE])
        /\ UNCHANGED <<serverVars, cache, lease, sent, governed, mishaps>>

\* outbox_full, or a response the contract rejects.
NotCollected(p, i) ==
    /\ Executes(p, i)
    /\ Set(p, [run[p] EXCEPT !.work = @ \ {i}, !.failed = TRUE])
    /\ UNCHANGED <<serverVars, localVars, sent, governed, mishaps>>

ProviderFails(p, i) ==
    /\ Executes(p, i)
    /\ Set(p, [run[p] EXCEPT !.work = @ \ {i}, !.transient = TRUE])
    /\ UNCHANGED <<serverVars, localVars, sent, governed, mishaps>>

\* provider_window_unverified: a later run collects the scope.
Defer(p, i) ==
    /\ Executes(p, i)
    /\ Set(p, [run[p] EXCEPT !.work = @ \ {i}])
    /\ UNCHANGED <<serverVars, localVars, sent, governed, mishaps>>

SkipExpired(p, i) ==
    /\ NextWork(p, i) /\ ~Executes(p, i)
    /\ Set(p, [run[p] EXCEPT !.work = @ \ ItemsOf({InstructionOf[i]})])
    /\ UNCHANGED <<serverVars, localVars, sent, governed, mishaps>>

Collected(p) ==
    /\ run[p].pc = "collect" /\ run[p].work = {}
    /\ Set(p, IF run[p].token THEN Draining(run[p], "last")
              ELSE [run[p] EXCEPT !.pc = "settle", !.final = outbox])
    /\ UNCHANGED <<serverVars, localVars, sent, governed, mishaps>>

\* Mutant: refusals of the drains are left out of the disposition.
ExitTransient(p) == IF run[p].transient THEN 10 ELSE IF aged # {} THEN 20 ELSE 0

\* enforce_retention and the disposition, as the exit code of the process; a
\* refused status report can only turn 0 into 20.
ExitCode(p) ==
    IF run[p].transient THEN 10 ELSE IF run[p].failed \/ aged # {} THEN 20 ELSE 0

Settle(p) ==
    /\ run[p].pc = "settle"
    /\ Exit(p)
    /\ UNCHANGED <<serverVars, outbox, aged, cache, sent, governed, mishaps>>

-----------------------------------------------------------------------------
(* The machine and its clock. *)

Crash(p) ==
    /\ ~Idle(p) /\ mishaps < MaxMishaps
    /\ mishaps' = mishaps + 1
    /\ Set(p, Fresh)
    /\ lease' = IF lease.owner = p THEN [lease EXCEPT !.owner = "lost"] ELSE lease
    /\ sent' = {[r EXCEPT !.waiting = @ /\ r.from # p] : r \in sent}
    /\ UNCHANGED <<serverVars, outbox, aged, cache, governed>>

\* The lease of a run that is still going on.
Overrun(p) ==
    /\ lease = [owner |-> p, live |-> TRUE] /\ mishaps < MaxMishaps
    /\ mishaps' = mishaps + 1
    /\ lease' = [lease EXCEPT !.live = FALSE]
    /\ run' = [run EXCEPT ![p].overrun = TRUE]
    /\ UNCHANGED <<serverVars, outbox, aged, cache, sent, governed>>

\* The lease of a run that crashed.
LeaseExpires ==
    /\ lease = [owner |-> "lost", live |-> TRUE]
    /\ lease' = [lease EXCEPT !.live = FALSE]
    /\ UNCHANGED <<serverVars, outbox, aged, cache, run, sent, governed, mishaps>>

\* Thirty days are longer than any run.
Age(i) ==
    /\ i \in outbox \ aged
    /\ \A p \in Invocations : Idle(p)
    /\ InstructionOf[i] \in past
    /\ aged' = aged \cup {i}
    /\ UNCHANGED <<serverVars, outbox, cache, lease, run, sent, governed, mishaps>>

-----------------------------------------------------------------------------

Server == \E r \in sent : AcceptUpload(r) \/ ReplayUpload(r) \/ RefuseUpload(r) \/ BusyUpload(r)

Uploading(p) ==
    \/ Acknowledge(p) \/ Refused(p) \/ WaitForServer(p) \/ GiveUp(p) \/ TimeOut(p)

Working(p) ==
    \/ Start(p) \/ GetToken(p) \/ NoToken(p) \/ CredentialRefused(p)
    \/ \E i \in Items : Upload(p, i)
    \/ Uploading(p)
    \/ EndRefused(p) \/ DrainDone(p) \/ Discover(p) \/ DiscoveryFails(p) \/ Prune(p)
    \/ \E i \in Items : \/ Collect(p, i) \/ NotCollected(p, i) \/ ProviderFails(p, i)
                       \/ Defer(p, i) \/ SkipExpired(p, i)
    \/ Collected(p) \/ Settle(p)

Next ==
    \/ \E n \in Instructions : Issue(n) \/ Expire(n)
    \/ Server
    \/ \E p \in Invocations : Working(p) \/ Crash(p) \/ Overrun(p)
    \/ LeaseExpires
    \/ \E i \in Items : Age(i)

Spec == Init /\ [][Next]_vars

Stores(i) == \E r \in sent : r.item = i /\ r.waiting /\ (AcceptUpload(r) \/ ReplayUpload(r))

(* The scheduler keeps starting runs and a run keeps going; the lease of a *)
(* crashed one expires.  The server is not out of reach forever: a request *)
(* made again and again while it may be stored gets its receipt some day.  *)
Fairness ==
    /\ WF_vars(LeaseExpires)
    /\ \A p \in Invocations :
          WF_vars(Working(p)) /\ SF_vars(GetToken(p)) /\ SF_vars(Discover(p)) /\ SF_vars(Acknowledge(p))
    /\ \A i \in Items : SF_vars(Stores(i))

FairSpec == Spec /\ Fairness

-----------------------------------------------------------------------------
(* Properties. *)

(* "The server receipt, not a local attempt counter, is the deletion       *)
(* boundary" (outbox.py): through crashes, lost answers, a full outbox and *)
(* two runs draining the same rows, an envelope leaves the outbox only     *)
(* when the server has stored it or a cutoff the server governs is newer.  *)
NothingLost ==
    [][\A i \in outbox \ outbox' : i \in stored \/ CutoffFor(i) < governed]_vars

(* An invocation that has not outlived its lease is the only one: a live   *)
(* lease is never taken from it, nor released by a run that overran its    *)
(* own (acquire_lease, release_lease).                                     *)
LeaseCovers ==
    \A p \in Invocations :
        ~Idle(p) /\ ~run[p].overrun => lease = [owner |-> p, live |-> TRUE]

(* A run about to exit with 0 leaves no row behind that its last drain     *)
(* read: the scheduler does not retry, so every row that was not sent must *)
(* show in the exit code (the disposition of run).                         *)
CompleteMeansSent ==
    \A p \in Invocations :
        run[p].pc = "settle" /\ ExitCode(p) = 0 => run[p].final \subseteq run[p].gone

(* A spooled envelope whose instruction stays open is stored by the server *)
(* and acknowledged here, unless a newer cutoff comes to govern it, and    *)
(* that although answers are lost, the server is busy, runs crash and      *)
(* other rows are refused for good (a drain goes on past a failed row).    *)
Delivered(i) == i \in stored /\ i \notin outbox

OpenRowsDelivered ==
    \A i \in Items :
        i \in outbox ~> \/ Delivered(i)
                        \/ ~Open(InstructionOf[i])
                        \/ CutoffFor(i) < governed

(* An invocation "polls discovery, validates each unexpired authorized     *)
(* Bootstrap Request/Manifest, executes every ready NBA scope"             *)
(* (RESIDENTIAL_COLLECTOR.md): a manifest that stays open is found by some *)
(* run, through crashes, lost answers and a busy server.  The exception is *)
(* a row the server will refuse for good: it ends every run in its first   *)
(* drain (runner.py), and only its 30 days of age or a newer cutoff end    *)
(* that.                                                                   *)
RefusedForGood(i) ==
    /\ i \in outbox \ aged
    /\ ~Open(InstructionOf[i]) /\ ~(Confirms(i) /\ i \in stored)

DiscoveryUnlessRefused ==
    \A m \in Manifests :
        Open(m) ~> \/ ~Open(m)
                  \/ \E p \in Invocations : m \in run[p].found
                  \/ \E i \in Items : RefusedForGood(i)

=============================================================================
