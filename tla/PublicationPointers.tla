------------------------- MODULE PublicationPointers -------------------------
(***************************************************************************)
(* The publication control plane (PublicationService in                    *)
(* app/services/collection_control.py).  Every publication stream has      *)
(* versions of the facts it serves and one fenced pointer that names the   *)
(* active version and the rollback target.  Composition, activation, the   *)
(* season cutover and its revert, rollback, repair and family promotion    *)
(* move the pointer; a ledger correction withdraws versions; retention     *)
(* deletes them.                                                           *)
(*                                                                         *)
(* Each writer is one database transaction under the stream and pointer    *)
(* row locks, so it is one action; what it does to one stream is an        *)
(* operator from a stream state to a stream state.  Only the composition   *)
(* of an observed stream reads the pointer before it holds the locks, and  *)
(* is two actions.                                                         *)
(***************************************************************************)
EXTENDS Naturals, FiniteSets

CONSTANTS
    Streams,          \* publication streams
    Leader,           \* PUBLISHED_SEASON_STREAM, player_game_logs
    Ledger,           \* streams composed from the canonical game ledger
    Parity,           \* streams whose activation needs a parity artifact
    Trailing,         \* streams with a Readiness Rule that trails
    Rolling,          \* streams of a last-games window
    Family,           \* the coupled family of streams
    Bound,            \* streams that serve the first season from the start
    NumSeasons,       \* seasons, in their order
    NumCutoffs,       \* cutoffs of a season, in their order
    Manifests,        \* the <<season, cutoff>> pairs that are collected
    ReadyCutoff,      \* the first cutoff at which a Readiness Rule holds
    DaysPerWeek,      \* cutoffs in one retention week
    Workers,          \* threads that compose observed streams
    MaxVersions,      \* version ids
    Quota,            \* per stream: versions it may create
    Revised,          \* items whose accepted source is ever replaced
    MaxSources,       \* replacements of one item's source
    MaxCutovers,      \* season cutovers
    MaxRepairs        \* repair groups

None == 0

Seasons == 1..NumSeasons
Cutoffs == 1..NumCutoffs

Ids == 1..MaxVersions

\* Each game (or observed scope) is identified by the manifest that first
\* covers it; a source is one accepted observation of it.
Items == Manifests
Source == Items \X (1..(MaxSources + 1))

ASSUME StreamSets ==
    /\ Leader \in Ledger
    /\ Ledger \subseteq Streams
    /\ Parity \subseteq Ledger
    /\ Trailing \subseteq Streams \ {Leader}
    /\ Family \subseteq Ledger \ {Leader}
    /\ Rolling \subseteq Streams
    /\ Bound \subseteq Streams

ASSUME Bounds ==
    /\ NumSeasons \in Nat \ {0}
    /\ NumCutoffs \in Nat \ {0}
    /\ Manifests \subseteq Seasons \X Cutoffs
    /\ <<1, 1>> \in Manifests
    /\ ReadyCutoff \in Nat
    /\ DaysPerWeek \in Nat \ {0}
    /\ MaxVersions \in Nat \ {0}
    /\ Quota \in [Streams -> 0..MaxVersions]
    /\ Revised \subseteq Items
    /\ MaxSources \in Nat
    /\ MaxCutovers \in Nat
    /\ MaxRepairs \in Nat

VARIABLES
    stream,      \* each stream's switch, pointer, versions and history
    ledger,      \* the source that is current for each item
    cutovers,    \* audit records of season cutovers
    composing,   \* what each worker prepared and has not yet committed
    repair,      \* the declared repair groups
    corrected,   \* per stream and item: the sources corrections withdrew
    rejected     \* per stream: the versions rollbacks, reverts and repairs rejected

vars == <<stream, ledger, cutovers, composing, repair, corrected, rejected>>

-----------------------------------------------------------------------------
(* Versions, pointer history and what they mean. *)

Status == {"none", "candidate", "active", "superseded", "rollback"}

\* A row of publication_versions.  origin is the version a rollback cloned;
\* activated says that a publication_activations row names the version.
Version == [season : Seasons \cup {None}, cutoff : Cutoffs \cup {None},
            status : Status, evidence : SUBSET Source, activated : BOOLEAN,
            origin : Ids \cup {None}, live : BOOLEAN]

HistoryRow == [pub : Ids, fence : Nat, revoked : BOOLEAN, retired : BOOLEAN]

StreamState == [enabled : BOOLEAN, fence : Nat, active : Ids \cup {None},
                previous : Ids \cup {None}, made : 0..MaxVersions,
                versions : [Ids -> Version], history : SUBSET HistoryRow]

\* What is left of a deleted version: its history rows still name its season.
Deleted(season) == [season |-> season, cutoff |-> None, status |-> "none",
                    evidence |-> {}, activated |-> FALSE, origin |-> None,
                    live |-> FALSE]

NewVersion(season, cutoff, status, evidence) ==
    [season |-> season, cutoff |-> cutoff, status |-> status,
     evidence |-> evidence, activated |-> FALSE, origin |-> None, live |-> TRUE]

\* The items a version of s covers at a cutoff, each with its current source.
Governed(s, season, cutoff) ==
    {i \in Items : /\ i[1] = season
                   /\ IF s \in Rolling THEN i[2] = cutoff ELSE i[2] <= cutoff}

CurrentEvidence(s, season, cutoff) ==
    {<<i, ledger[i]>> : i \in Governed(s, season, cutoff)}

\* _assert_candidate_ledger_lineage: every game still has the cited source.
LineageAccepted(s, pub) == pub.evidence = CurrentEvidence(s, pub.season, pub.cutoff)

\* publication_withdrawn: the version activated and every activation was revoked.
Withdrawn(st, v) ==
    /\ \E h \in st.history : h.pub = v
    /\ \A h \in st.history : h.pub = v => h.revoked

Eligible(h) == ~h.revoked /\ ~h.retired

\* _published_season: the season of the leader's active version.
PublishedSeason(leader) ==
    IF leader.active = None THEN None ELSE leader.versions[leader.active].season

\* _readiness_rule_holds, with the games played standing in the cutoff.
ReadinessRuleHolds(s, cutoff) == s \in Trailing => cutoff >= ReadyCutoff

Demote(versions, ids) ==
    [v \in Ids |-> IF v \in ids THEN [versions[v] EXCEPT !.status = "superseded"]
                                ELSE versions[v]]

Revoke(history, ids) ==
    {[h EXCEPT !.revoked = h.revoked \/ h.pub \in ids] : h \in history}

Retire(history, v) ==
    {[h EXCEPT !.retired = h.retired \/ h.pub = v] : h \in history}

\* _record_pointer_activation.
Activation(v, fence) == [pub |-> v, fence |-> fence, revoked |-> FALSE, retired |-> FALSE]

\* The live versions of a season at a cutoff with one of the statuses.
At(st, season, cutoff, statuses) ==
    {v \in Ids : LET p == st.versions[v]
                 IN  p.live /\ p.season = season /\ p.cutoff = cutoff /\ p.status \in statuses}

Candidates(st, season) ==
    {v \in Ids : LET p == st.versions[v]
                 IN  p.live /\ p.season = season /\ p.status = "candidate"}

\* order_by(cutoff desc, version desc).first()
Newest(st, ids) ==
    {v \in ids : \A w \in ids :
        \/ st.versions[w].cutoff < st.versions[v].cutoff
        \/ st.versions[w].cutoff = st.versions[v].cutoff /\ w <= v}

-----------------------------------------------------------------------------
(* What the writers do to one stream. *)

\* The candidate, if any, that an identical composition returns unchanged.
Existing(st, season, cutoff, evidence, statuses) ==
    {v \in Newest(st, At(st, season, cutoff, statuses)) : st.versions[v].evidence = evidence}

\* _store_candidate_in_session, and the same lines of compose_inactive_ledger.
StoreCandidate(st, season, cutoff, evidence, statuses) ==
    IF Existing(st, season, cutoff, evidence, statuses) # {} THEN st
    ELSE [st EXCEPT
            !.made = @ + 1,
            !.versions = [Demote(@, At(st, season, cutoff, statuses)) EXCEPT
                ![st.made + 1] = NewVersion(season, cutoff, "candidate", evidence)]]

StoredId(st, season, cutoff, evidence, statuses) ==
    IF Existing(st, season, cutoff, evidence, statuses) # {}
    THEN CHOOSE v \in Existing(st, season, cutoff, evidence, statuses) : TRUE
    ELSE st.made + 1

\* (mutant: looks only at versions whose status still offers them)
StaleByStatus(st, season, fixed, keep) ==
    {v \in Ids \ {keep} :
        LET p == st.versions[v]
        IN  /\ p.live /\ p.season = season /\ p.status \in {"active", "candidate"}
            /\ \E e \in p.evidence, f \in fixed : e[1] = f[1] /\ e[2] # f[2]}

\* _invalidate_corrected_ledger_versions: the versions that a reader or a
\* rollback could still reach and that cite another source of a fixed item.
StaleVersions(st, season, fixed, keep) ==
    {v \in Ids \ {keep} :
        LET p == st.versions[v]
        IN  /\ p.live /\ p.season = season
            /\ \/ p.status \in {"active", "candidate"}
               \/ v = st.previous
               \/ \E h \in st.history : h.pub = v /\ ~h.revoked
            /\ \E e \in p.evidence, f \in fixed : e[1] = f[1] /\ e[2] # f[2]}

\* (mutant: clears the pointer and leaves its fence)
InvalidateUnfenced(st, season, fixed, keep) ==
    LET stale == StaleVersions(st, season, fixed, keep)
        cleared == st.active \in stale
    IN  IF stale = {} THEN st
        ELSE [st EXCEPT
                !.active = IF cleared THEN None ELSE @,
                !.previous = IF @ \in stale \/ cleared \/ st.active = None THEN None ELSE @,
                !.versions = Demote(@, {v \in stale : st.versions[v].status \in {"active", "candidate"}}),
                !.history = Revoke(@, stale)]

Invalidate(st, season, fixed, keep) ==
    LET stale == StaleVersions(st, season, fixed, keep)
        cleared == st.active \in stale
    IN  IF stale = {} THEN st
        ELSE [st EXCEPT
                !.fence = IF cleared THEN @ + 1 ELSE @,
                !.active = IF cleared THEN None ELSE @,
                !.previous = IF @ \in stale \/ cleared \/ st.active = None THEN None ELSE @,
                !.versions = Demote(@, {v \in stale : st.versions[v].status \in {"active", "candidate"}}),
                !.history = Revoke(@, stale)]

\* (mutant: may also replace the version an enabled stream serves)
ComposeInactiveReplacing(st, season, cutoff, evidence, fixed) ==
    Invalidate(StoreCandidate(st, season, cutoff, evidence, {"candidate", "active"}), season, fixed,
               StoredId(st, season, cutoff, evidence, {"candidate", "active"}))

\* compose_inactive_ledger: never moves the pointer to the new version.
ComposeInactive(st, season, cutoff, evidence, fixed) ==
    LET statuses == IF st.enabled THEN {"candidate"} ELSE {"candidate", "active"}
    IN  Invalidate(StoreCandidate(st, season, cutoff, evidence, statuses), season, fixed,
                   StoredId(st, season, cutoff, evidence, statuses))

\* Why a composition may not take the pointer of a bound stream.
SeasonHeld(st, published, season) ==
    season # (IF published # None THEN published ELSE st.versions[st.active].season)

EarlierCutoff(s, st, published, season, cutoff) ==
    /\ ~SeasonHeld(st, published, season)
    /\ s \notin Ledger
    /\ st.versions[st.active].season = season
    /\ st.versions[st.active].cutoff > cutoff

NotReady(s, st, season, cutoff) ==
    /\ st.versions[st.active].season # season
    /\ ~ReadinessRuleHolds(s, cutoff)

\* (mutants: no Readiness Rule; no check of the cutoff; no published season)
HeldUnready(s, st, published, season, cutoff) ==
    SeasonHeld(st, published, season) \/ EarlierCutoff(s, st, published, season, cutoff)

HeldInSeason(s, st, published, season, cutoff) ==
    EarlierCutoff(s, st, published, season, cutoff) \/ NotReady(s, st, season, cutoff)

Held(s, st, published, season, cutoff) ==
    \/ SeasonHeld(st, published, season)
    \/ EarlierCutoff(s, st, published, season, cutoff)
    \/ NotReady(s, st, season, cutoff)

\* _hold_candidate_in_session: of a season's candidates the newest stays one;
\* a composition older than what the pointer serves is superseded at once.
Hold(s, st, published, season, cutoff, evidence, fixed) ==
    LET stored == IF s \in Ledger THEN ComposeInactive(st, season, cutoff, evidence, fixed)
                  ELSE StoreCandidate(st, season, cutoff, evidence, {"candidate"})
        held == Candidates(stored, season)
        late == IF EarlierCutoff(s, st, published, season, cutoff)
                THEN {StoredId(st, season, cutoff, evidence, {"candidate"})} ELSE {}
    IN  [stored EXCEPT !.versions = Demote(@, (held \ Newest(stored, held)) \cup late)]

\* (mutant: a repair leaves the displaced version as the rollback target)
AdvanceKeepingTarget(st, season, cutoff, evidence, discard) ==
    LET n == st.made + 1
    IN  [st EXCEPT
            !.fence = @ + 1,
            !.active = n,
            !.previous = st.active,
            !.made = n,
            !.versions = [Demote(@, At(st, season, cutoff, {"active", "candidate"})) EXCEPT
                ![n] = NewVersion(season, cutoff, "active", evidence)],
            !.history = @ \cup {Activation(n, st.fence + 1)}]

\* The pointer takes a new version; discard is the repair-group case.
Advance(st, season, cutoff, evidence, discard) ==
    LET n == st.made + 1
    IN  [st EXCEPT
            !.fence = @ + 1,
            !.active = n,
            !.previous = IF discard THEN None ELSE st.active,
            !.made = n,
            !.versions = [Demote(@, At(st, season, cutoff, {"active", "candidate"})) EXCEPT
                ![n] = NewVersion(season, cutoff, "active", evidence)],
            !.history = @ \cup {Activation(n, st.fence + 1)}]

\* The active version already is this composition.
Composed(st, season, cutoff, evidence) ==
    /\ st.active # None
    /\ LET p == st.versions[st.active]
       IN  p.season = season /\ p.cutoff = cutoff /\ p.evidence = evidence

\* _compose_active_in_session.
ComposeActive(s, st, published, season, cutoff, evidence, fixed) ==
    IF Composed(st, season, cutoff, evidence)
    THEN Invalidate(st, season, fixed, st.active)
    ELSE IF st.active # None /\ Held(s, st, published, season, cutoff)
    THEN Hold(s, st, published, season, cutoff, evidence, fixed)
    ELSE Invalidate(Advance(st, season, cutoff, evidence, FALSE), season, fixed, st.made + 1)

\* (mutant: moves the pointer under its old fence)
MoveUnfenced(st, v) ==
    LET same == {w \in {st.active} : st.versions[w].season = st.versions[v].season}
    IN  [st EXCEPT
            !.active = v,
            !.previous = st.active,
            !.versions = [Demote(@, same) EXCEPT ![v].status = "active", ![v].activated = TRUE],
            !.history = @ \cup {Activation(v, st.fence)}]

\* _move_pointer_to_candidate: only a version of the same season is superseded.
MoveToCandidate(st, v) ==
    LET same == {w \in {st.active} : st.versions[w].season = st.versions[v].season}
    IN  [st EXCEPT
            !.fence = @ + 1,
            !.active = v,
            !.previous = st.active,
            !.versions = [Demote(@, same) EXCEPT ![v].status = "active", ![v].activated = TRUE],
            !.history = @ \cup {Activation(v, st.fence + 1)}]

\* The pointer part of activate_stream: any displaced version is superseded.
ActivateCandidate(st, v) ==
    [st EXCEPT
        !.enabled = TRUE,
        !.fence = @ + 1,
        !.active = v,
        !.previous = st.active,
        !.versions = [Demote(@, {st.active}) EXCEPT ![v].status = "active", ![v].activated = TRUE],
        !.history = @ \cup {Activation(v, st.fence + 1)}]

\* rollback needs a previous version that exists and was not withdrawn.
CanRollBack(st) ==
    /\ st.previous # None
    /\ st.active # None
    /\ st.versions[st.previous].live
    /\ st.versions[st.active].live
    /\ ~Withdrawn(st, st.previous)

\* _record_rollback_history withdraws the current version only when the
\* rollback stays within its season.
WithdrawnByRollback(st) ==
    {v \in {st.active} : st.versions[v].season = st.versions[st.previous].season}

\* (mutant: leaves the rejected version as the next rollback target)
RollBackUnmarked(st) ==
    LET n == st.made + 1
        prior == st.versions[st.previous]
    IN  [st EXCEPT
            !.fence = @ + 1,
            !.active = n,
            !.previous = st.active,
            !.made = n,
            !.versions = [Demote(@, {st.active, st.previous}) EXCEPT
                ![n] = [NewVersion(prior.season, prior.cutoff, "rollback", prior.evidence)
                            EXCEPT !.origin = st.previous]],
            !.history = Retire(@, st.previous) \cup {Activation(n, st.fence + 1)}]

\* rollback: the previous version is cloned into a new one that is served.
RollBack(st) ==
    LET n == st.made + 1
        prior == st.versions[st.previous]
        gone == WithdrawnByRollback(st)
    IN  [st EXCEPT
            !.fence = @ + 1,
            !.active = n,
            !.previous = IF gone # {} THEN None ELSE st.active,
            !.made = n,
            !.versions = [Demote(@, {st.active, st.previous}) EXCEPT
                ![n] = [NewVersion(prior.season, prior.cutoff, "rollback", prior.evidence)
                            EXCEPT !.origin = st.previous]],
            !.history = Retire(Revoke(@, gone), st.previous)
                            \cup {Activation(n, st.fence + 1)}]

-----------------------------------------------------------------------------
(* Season cutover. *)

\* The candidate a cutover to the season would move the stream to.
CutoverCandidate(st, season) ==
    IF st.enabled /\ st.active # None /\ st.versions[st.active].season # season
    THEN Newest(st, Candidates(st, season)) ELSE {}

\* season_candidate_refusal: readiness, one shared authority, current lineage.
CandidateAccepted(s, v, authority) ==
    LET p == stream[s].versions[v]
    IN  /\ ReadinessRuleHolds(s, p.cutoff)
        /\ p.cutoff = authority
        /\ s \in Ledger => LineageAccepted(s, p)

\* Every moved stream and the candidate it moves to; streams whose candidate
\* is refused are left behind, and so is the rest of their coupled family.
CutoverMoves(season) ==
    {m \in Streams \X Ids : m[2] \in CutoverCandidate(stream[m[1]], season)}

CutoverAccepted(season) ==
    LET moves == CutoverMoves(season)
        lead == {m \in moves : m[1] = Leader}
        good == {m \in moves : \E l \in lead :
                    CandidateAccepted(m[1], m[2], stream[Leader].versions[l[2]].cutoff)}
        split == \E m \in moves \ good : m[1] \in Family
    IN  {m \in good : ~(m[1] \in Family /\ split)}

\* _reversible_cutover_targets: the record's fences are all unchanged.
Reversible(c) == \A s \in DOMAIN c.fences : stream[s].fence = c.fences[s]

RestoreTargets(s) ==
    UNION {{c.moved[s].from, c.moved[s].fromPrevious} :
              c \in {d \in cutovers : Reversible(d) /\ s \in DOMAIN d.moved}}

-----------------------------------------------------------------------------
(* Retention. *)

Week(cutoff) == (cutoff - 1) \div DaysPerWeek

\* The latest eligible row of each season; a newer row counts only while its
\* publication still exists.
SeasonLatest(st) ==
    {h.pub : h \in {r \in st.history :
        /\ Eligible(r)
        /\ \A n \in st.history :
            ~ /\ Eligible(n)
              /\ n.fence > r.fence
              /\ st.versions[n.pub].season = st.versions[r.pub].season
              /\ st.versions[n.pub].live}}

\* Superseded versions of a season after the served one, which an Unpublished
\* Season read may still serve: recent ones, and the newest of each week.
AsOf(st, horizon) ==
    LET Later(v) == /\ st.active # None
                    /\ st.versions[v].live
                    /\ st.versions[v].season > st.versions[st.active].season
        servable == {v \in Ids : /\ Later(v)
                                 /\ \/ st.versions[v].status = "candidate"
                                    \/ st.versions[v].status = "superseded" /\ ~Withdrawn(st, v)}
        weekly == {v \in servable : v \in Newest(st, {w \in servable :
                        /\ st.versions[w].season = st.versions[v].season
                        /\ Week(st.versions[w].cutoff) = Week(st.versions[v].cutoff)})}
    IN  {v \in servable : st.versions[v].cutoff >= horizon \/ v \in weekly}

\* (mutant: forgets what a reversible cutover would restore)
KeptWithoutRestore(s, horizon) ==
    LET st == stream[s]
    IN  {st.active, st.previous}
            \cup {v \in Ids : st.versions[v].status = "candidate"}
            \cup SeasonLatest(st)
            \cup AsOf(st, horizon)

\* The keep set of prune_history.
Kept(s, horizon) ==
    LET st == stream[s]
    IN  {st.active, st.previous}
            \cup {v \in Ids : st.versions[v].status = "candidate"}
            \cup SeasonLatest(st)
            \cup RestoreTargets(s)
            \cup AsOf(st, horizon)

-----------------------------------------------------------------------------
(* The initial state: the bound streams serve one activated version. *)

FirstVersion(s) ==
    [NewVersion(1, 1, "active", {<<i, 1>> : i \in Governed(s, 1, 1)}) EXCEPT !.activated = TRUE]

InitStream(s) ==
    IF s \in Bound
    THEN [enabled |-> TRUE, fence |-> 1, active |-> 1, previous |-> None, made |-> 1,
          versions |-> [v \in Ids |-> IF v = 1 THEN FirstVersion(s) ELSE Deleted(None)],
          history |-> {Activation(1, 1)}]
    ELSE [enabled |-> FALSE, fence |-> 0, active |-> None, previous |-> None, made |-> 0,
          versions |-> [v \in Ids |-> Deleted(None)], history |-> {}]

Idle == [phase |-> "idle"]

Init ==
    /\ stream = [s \in Streams |-> InitStream(s)]
    /\ ledger = [i \in Items |-> 1]
    /\ cutovers = {}
    /\ composing = [w \in Workers |-> Idle]
    /\ repair = {}
    /\ corrected = [s \in Streams |-> {}]
    /\ rejected = [s \in Streams |-> {}]

-----------------------------------------------------------------------------
(* Actions. *)

\* The bound on the versions of a stream.
HasRoom(s) == stream[s].made < Quota[s]

\* A corrected game or a new observation replaces an item's accepted source.
ReplaceSource(i) ==
    /\ ledger[i] <= MaxSources
    /\ ledger' = [ledger EXCEPT ![i] = @ + 1]
    /\ UNCHANGED <<stream, cutovers, composing, repair, corrected, rejected>>

\* The sources a correction of these items withdraws.
Replaced(fixed) == {e \in Source : \E f \in fixed : e[1] = f[1] /\ e[2] < f[2]}

\* corrected_provenance: the corrected games with their current source.
Fixes(season) ==
    {{<<i, ledger[i]>> : i \in items} :
        items \in SUBSET {i \in Items : i[1] = season /\ ledger[i] > 1}}

\* recompose_ledger_batch: enabled streams advance, others get a candidate.
\* The leader's own step never changes its season (SeasonMoves), so every
\* stream of the batch reads the same published season.
RecomposeLedgerBatch(batch, season, cutoff, fixed) ==
    LET published == PublishedSeason(stream[Leader])
        Step(s) ==
            LET evidence == CurrentEvidence(s, season, cutoff)
            IN  IF stream[s].enabled
                THEN ComposeActive(s, stream[s], published, season, cutoff, evidence, fixed)
                ELSE ComposeInactive(stream[s], season, cutoff, evidence, fixed)
    IN  /\ batch # {}
        /\ \A s \in batch : HasRoom(s)
        /\ stream' = [s \in Streams |-> IF s \in batch THEN Step(s) ELSE stream[s]]
        /\ corrected' = [s \in Streams |->
                            IF s \in batch THEN corrected[s] \cup Replaced(fixed) ELSE corrected[s]]
        /\ UNCHANGED <<ledger, cutovers, composing, repair, rejected>>

\* compose_inactive_ledger called on its own, by a rehearsal or a rebuild:
\* those carry no correction.
RehearseLedger(s, season, cutoff) ==
    /\ HasRoom(s)
    /\ stream' = [stream EXCEPT ![s] =
                    ComposeInactive(@, season, cutoff, CurrentEvidence(s, season, cutoff), {})]
    /\ UNCHANGED <<ledger, cutovers, composing, repair, corrected, rejected>>

\* activate_stream with a candidate.
ActivateStream(s, v) ==
    LET p == stream[s].versions[v]
    IN  /\ s \in Family => stream[s].active = None
        /\ p.live
        /\ p.status \in (IF s \in Parity THEN {"candidate", "active"} ELSE {"candidate"})
        /\ s \in Ledger => LineageAccepted(s, p)
        /\ ~p.activated
        /\ stream' = [stream EXCEPT ![s] = ActivateCandidate(@, v)]
        /\ UNCHANGED <<ledger, cutovers, composing, repair, corrected, rejected>>

\* activate_stream without one: an observed stream's first collection.
EnableStream(s) ==
    /\ s \notin Ledger
    /\ stream[s].active = None
    /\ ~stream[s].enabled
    /\ stream' = [stream EXCEPT ![s].enabled = TRUE]
    /\ UNCHANGED <<ledger, cutovers, composing, repair, corrected, rejected>>

\* The streams a repair group that is not yet promoted owns for a manifest.
Grouped(season, cutoff) ==
    UNION {DOMAIN g.members : g \in {r \in repair :
              ~r.promoted /\ r.season = season /\ r.cutoff = cutoff}}

\* compose_from_observations until the stream lock: the pointer expectation,
\* then the evidence.
Prepare(w, s, season, cutoff) ==
    /\ composing[w] = Idle
    /\ stream[s].enabled
    /\ s \notin Grouped(season, cutoff)
    /\ composing' = [composing EXCEPT ![w] =
            [phase |-> "prepared", stream |-> s, season |-> season, cutoff |-> cutoff,
             evidence |-> CurrentEvidence(s, season, cutoff),
             fence |-> stream[s].fence, active |-> stream[s].active]]
    /\ UNCHANGED <<stream, ledger, cutovers, repair, corrected, rejected>>

\* (mutant: composes over whatever the pointer names by then)
ExpectationIgnored(c) == c.phase = "prepared"

\* stale_composition, unless the active version already is this composition.
ExpectationHolds(c) ==
    LET st == stream[c.stream]
    IN  \/ Composed(st, c.season, c.cutoff, c.evidence)
        \/ st.fence = c.fence /\ st.active = c.active

ComposePrepared(w) ==
    LET c == composing[w]
    IN  /\ c.phase = "prepared"
        /\ ExpectationHolds(c)
        /\ HasRoom(c.stream)
        /\ stream' = [stream EXCEPT ![c.stream] =
                ComposeActive(c.stream, @, PublishedSeason(stream[Leader]),
                              c.season, c.cutoff, c.evidence, {})]
        /\ composing' = [composing EXCEPT ![w] = Idle]
        /\ UNCHANGED <<ledger, cutovers, repair, corrected, rejected>>

\* The transaction rolls back: a stale expectation, or the worker dies.
AbandonPrepared(w) ==
    /\ composing[w].phase = "prepared"
    /\ composing' = [composing EXCEPT ![w] = Idle]
    /\ UNCHANGED <<stream, ledger, cutovers, repair, corrected, rejected>>

\* cutover_season.
CutoverSeason(season) ==
    LET moves == CutoverAccepted(season)
        To(s) == CHOOSE v \in Ids : <<s, v>> \in moves
        moved == {m[1] : m \in moves}
        result == [s \in Streams |->
                    IF s \in moved THEN MoveToCandidate(stream[s], To(s)) ELSE stream[s]]
    IN  /\ Cardinality(cutovers) < MaxCutovers
        /\ Leader \in moved
        /\ stream' = result
        /\ cutovers' = cutovers \cup
            {[moved |-> [s \in moved |-> [from |-> stream[s].active,
                                          fromPrevious |-> stream[s].previous,
                                          to |-> To(s)]],
              fences |-> [s \in {t \in Streams : stream[t].enabled} |-> result[s].fence]]}
        /\ UNCHANGED <<ledger, composing, repair, corrected, rejected>>

\* Every restoration target of a cutover still exists.
Restorable(s, move) ==
    /\ stream[s].versions[move.from].live
    /\ move.fromPrevious # None => stream[s].versions[move.fromPrevious].live

\* One stream of revert_season_cutover: the promoted version is withdrawn.
Restore(st, move) ==
    [st EXCEPT
        !.fence = @ + 1,
        !.active = move.from,
        !.previous = move.fromPrevious,
        !.versions = [@ EXCEPT ![move.from].status = "active", ![move.to].status = "superseded"],
        !.history = Revoke(@, {move.to}) \cup {Activation(move.from, st.fence + 1)}]

RevertCutover(c) ==
    /\ Reversible(c)
    /\ \A s \in DOMAIN c.moved :
        /\ stream[s].active = c.moved[s].to
        /\ stream[s].previous = c.moved[s].from
        /\ Restorable(s, c.moved[s])
    /\ stream' = [s \in Streams |->
                    IF s \in DOMAIN c.moved THEN Restore(stream[s], c.moved[s]) ELSE stream[s]]
    /\ rejected' = [s \in Streams |->
                        IF s \in DOMAIN c.moved THEN rejected[s] \cup {c.moved[s].to}
                        ELSE rejected[s]]
    /\ UNCHANGED <<ledger, cutovers, composing, repair, corrected>>

\* (mutant: a coupled stream rolls back alone)
RollbackAlone(s) ==
    /\ CanRollBack(stream[s])
    /\ HasRoom(s)
    /\ stream' = [stream EXCEPT ![s] = RollBack(@)]
    /\ rejected' = [rejected EXCEPT ![s] = @ \cup WithdrawnByRollback(stream[s])]
    /\ UNCHANGED <<ledger, cutovers, composing, repair, corrected>>

\* rollback of one stream; a coupled stream refuses.
RollbackStream(s) ==
    /\ s \notin Family
    /\ CanRollBack(stream[s])
    /\ HasRoom(s)
    /\ stream' = [stream EXCEPT ![s] = RollBack(@)]
    /\ rejected' = [rejected EXCEPT ![s] = @ \cup WithdrawnByRollback(stream[s])]
    /\ UNCHANGED <<ledger, cutovers, composing, repair, corrected>>

\* rollback_publication_family: the windows on the newest season roll back.
RollbackFamily ==
    LET ServedSeason(s) == stream[s].versions[stream[s].active].season
        back == {s \in Family : \A t \in Family : ServedSeason(t) <= ServedSeason(s)}
    IN  /\ Family # {}
        /\ \A s \in Family : stream[s].active # None
        /\ \A s \in back : CanRollBack(stream[s]) /\ HasRoom(s)
        /\ stream' = [s \in Streams |-> IF s \in back THEN RollBack(stream[s]) ELSE stream[s]]
        /\ rejected' = [s \in Streams |->
                            IF s \in back THEN rejected[s] \cup WithdrawnByRollback(stream[s])
                            ELSE rejected[s]]
        /\ UNCHANGED <<ledger, cutovers, composing, repair, corrected>>

\* promote_publication_family: staged candidates of the served season and
\* cutoff whose ledger sources are still current replace the whole family.
PromoteFamily(to) ==
    /\ Family # {}
    /\ \A s \in Family :
        LET st == stream[s]
            p == st.versions[to[s]]
        IN  /\ st.active # None
            /\ p.live /\ p.status = "candidate"
            /\ p.season = st.versions[st.active].season
            /\ p.cutoff = st.versions[st.active].cutoff
            /\ LineageAccepted(s, p)
    /\ stream' = [s \in Streams |->
                    IF s \in Family THEN MoveToCandidate(stream[s], to[s]) ELSE stream[s]]
    /\ UNCHANGED <<ledger, cutovers, composing, repair, corrected, rejected>>

\* _bind_repair_group: observed streams whose served versions share a season
\* and a cutoff that the new manifest has not moved before.
DeclareRepair(members, season, cutoff) ==
    /\ Cardinality(repair) < MaxRepairs
    /\ Cardinality(members) >= 2
    /\ \E prior \in Cutoffs :
        /\ prior <= cutoff
        /\ \A s \in members :
            /\ stream[s].active # None
            /\ stream[s].versions[stream[s].active].season = season
            /\ stream[s].versions[stream[s].active].cutoff = prior
    /\ repair' = repair \cup
        {[season |-> season, cutoff |-> cutoff, promoted |-> FALSE,
          members |-> [s \in members |-> [active |-> stream[s].active, fence |-> stream[s].fence]]]}
    /\ UNCHANGED <<stream, ledger, cutovers, composing, corrected, rejected>>

\* promote_repair_group: every guard holds or nothing moves; the displaced
\* versions are superseded and are no rollback target.
PromoteRepair(g) ==
    LET Replace(s) ==
            LET st == Advance(stream[s], g.season, g.cutoff,
                              CurrentEvidence(s, g.season, g.cutoff), TRUE)
            IN  [st EXCEPT !.versions = Demote(@, {g.members[s].active})]
    IN  /\ ~g.promoted
        /\ \A s \in DOMAIN g.members :
            /\ stream[s].active = g.members[s].active
            /\ stream[s].fence = g.members[s].fence
            /\ stream[s].enabled
            /\ HasRoom(s)
        /\ stream' = [s \in Streams |->
                        IF s \in DOMAIN g.members THEN Replace(s) ELSE stream[s]]
        /\ repair' = (repair \ {g}) \cup {[g EXCEPT !.promoted = TRUE]}
        /\ rejected' = [s \in Streams |->
                            IF s \in DOMAIN g.members
                            THEN rejected[s] \cup {g.members[s].active} ELSE rejected[s]]
        /\ UNCHANGED <<ledger, cutovers, composing, corrected>>

\* prune_history as the nightly maintenance calls it: for every stream; the
\* season only narrows what is deleted.
PruneHistory(season, horizon) ==
    LET Doomed(s) == {v \in Ids \ Kept(s, horizon) :
                        /\ stream[s].versions[v].live
                        /\ stream[s].versions[v].season = season}
    IN  /\ stream' = [s \in Streams |-> [stream[s] EXCEPT
                        !.versions = [v \in Ids |-> IF v \in Doomed(s) THEN Deleted(@[v].season)
                                                    ELSE @[v]]]]
        /\ UNCHANGED <<ledger, cutovers, composing, repair, corrected, rejected>>

Compose ==
    \/ \E batch \in SUBSET Ledger, m \in Manifests :
        \E fixed \in Fixes(m[1]) : RecomposeLedgerBatch(batch, m[1], m[2], fixed)
    \/ \E s \in Ledger, m \in Manifests : RehearseLedger(s, m[1], m[2])
    \/ \E w \in Workers, s \in Streams \ Ledger, m \in Manifests : Prepare(w, s, m[1], m[2])
    \/ \E w \in Workers : ComposePrepared(w) \/ AbandonPrepared(w)

Operate ==
    \/ \E s \in Streams, v \in Ids : ActivateStream(s, v)
    \/ \E s \in Streams : EnableStream(s) \/ RollbackStream(s)
    \/ \E season \in Seasons : CutoverSeason(season)
    \/ \E c \in cutovers : RevertCutover(c)
    \/ RollbackFamily
    \/ \E to \in [Family -> Ids] : PromoteFamily(to)
    \/ \E members \in SUBSET (Streams \ Ledger), m \in Manifests : DeclareRepair(members, m[1], m[2])
    \/ \E g \in repair : PromoteRepair(g)

Next ==
    \/ \E i \in Revised : ReplaceSource(i)
    \/ Compose
    \/ Operate
    \/ \E season \in Seasons, horizon \in Cutoffs : PruneHistory(season, horizon)

Spec == Init /\ [][Next]_vars

-----------------------------------------------------------------------------
(* Properties. *)

\* Every pointer, version and history row keeps its type: a pointer never
\* names a version id that was not created, and history rows never carry a
\* fence the pointer has not reached (publication_pointer_history is unique
\* per stream and fence, so such a row would make a later move fail).
TypeOK ==
    /\ stream \in [Streams -> StreamState]
    /\ ledger \in [Items -> 1..(MaxSources + 1)]
    /\ \A s \in Streams :
        /\ {stream[s].active, stream[s].previous} \subseteq 0..stream[s].made
        /\ \A h \in stream[s].history : h.fence <= stream[s].fence
        /\ \A h, k \in stream[s].history : h.fence = k.fence => h = k

\* The comment of compose_inactive_ledger: "Superseding the pointer's target
\* would strand it on a superseded row and make the stream read as missing".
\* Whatever the order of compositions, holds, corrections, repairs, cutovers
\* and rollbacks, an active version exists and has a status readers serve.
ActiveIsServable ==
    \A s \in Streams : stream[s].active # None =>
        LET p == stream[s].versions[stream[s].active]
        IN  p.live /\ p.status \in {"active", "rollback"}

\* docs/ARCHITECTURE.md, retention: every version that can become the served
\* authority is in the keep set.  The rollback target exists, and while a
\* cutover is reversible so does everything its revert would restore.
AuthorityKept ==
    \A s \in Streams :
        /\ stream[s].previous # None => stream[s].versions[stream[s].previous].live
        /\ \A v \in RestoreTargets(s) \ {None} : stream[s].versions[v].live

Cites(s, v, sources) == stream[s].versions[v].evidence \cap sources # {}

\* A ledger correction that a stream composed stays composed: no active
\* version, no candidate, no usable rollback target and no version the
\* retained history still serves cites a source the correction withdrew, not
\* even after later rollbacks, cutovers and reverts.
CorrectionsHold ==
    \A s \in Streams :
        /\ \A v \in Ids :
            /\ stream[s].versions[v].live
            /\ \/ v = stream[s].active
               \/ stream[s].versions[v].status \in {"candidate", "active"}
               \/ \E h \in stream[s].history : h.pub = v /\ ~h.revoked
            => ~Cites(s, v, corrected[s])
        /\ stream[s].previous # None /\ Cites(s, stream[s].previous, corrected[s])
            => Withdrawn(stream[s], stream[s].previous)

\* docs/ARCHITECTURE.md: "a second rollback cannot clone rejected content back
\* into fresh authority"; promote_repair_group: "the displaced version is the
\* defect".  A version that a same-season rollback, a revert or a repair
\* rejected is never served again, is never the rollback target and is never
\* what the served version was cloned from.
RejectedContentGone(streams) ==
    \A s \in streams :
        LET st == stream[s]
        IN  /\ {st.active, st.previous} \cap rejected[s] = {}
            /\ st.active # None => /\ ~Withdrawn(st, st.active)
                                   /\ st.versions[st.active].origin \notin rejected[s]

\* The streams whose served version cannot be activated again: those without
\* parity evidence take only candidates, and a bound family member takes none.
RejectedContentStaysGone == RejectedContentGone(Streams \ (Parity \ Family))

\* The streams whose activation also takes a version that is already active.
ParityRejectedContentStaysGone == RejectedContentGone(Parity \ Family)

ServedSeason(s) == stream[s].versions[stream[s].active].season

\* docs/ARCHITECTURE.md: "composition alone never moves a bound stream off the
\* published season".  A bound stream changes season only to its rollback
\* target's season, to a version an operator activated or cut over to, or (not
\* the leader) to the season the leader publishes; and once there is a
\* published season no correction takes it away.
SeasonMoves ==
    /\ stream[Leader].active # None => stream'[Leader].active # None
    /\ \A s \in Streams :
        LET now == stream[s]
            next == stream'[s]
        IN  /\ now.active # None /\ next.active # None
            /\ next.versions[next.active].season # ServedSeason(s)
            => \/ now.previous # None
                    /\ next.versions[next.active].season = now.versions[now.previous].season
               \/ next.versions[next.active].activated
               \/ s # Leader /\ next.versions[next.active].season = PublishedSeason(stream'[Leader])

SeasonMovesTogether == [][SeasonMoves]_vars

\* Every change of the served version or of what was composed against it
\* takes a new fence, so two pointer states that compositions, repair guards
\* and cutover records compare by fence are never confused.
FenceMoves ==
    \A s \in Streams :
        /\ stream'[s].fence >= stream[s].fence
        /\ stream'[s].active # stream[s].active => stream'[s].fence > stream[s].fence
        /\ stream[s].history # stream'[s].history =>
            \A h \in stream[s].history : \E k \in stream'[s].history :
                /\ k.fence = h.fence /\ k.pub = h.pub
                /\ (h.revoked => k.revoked) /\ (h.retired => k.retired)

FencesAdvance == [][FenceMoves]_vars

\* _read_pointer_expectation: a composition prepared before another one took
\* the pointer is refused, so a newly composed version never replaces one of
\* the same season that cites a newer source of an item both cover; and a job
\* requeued for an earlier cutoff never takes an observed stream's pointer
\* back from a later cutoff.
FreshMoves ==
    \A s \in Streams :
        LET now == stream[s]
            next == stream'[s]
        IN  /\ now.active # None /\ next.active > now.made
            /\ next.versions[next.active].status = "active"
            /\ next.versions[next.active].season = ServedSeason(s)
            => LET old == now.versions[now.active]
                   new == next.versions[next.active]
               IN  /\ \A e \in old.evidence, f \in new.evidence : e[1] = f[1] => e[2] <= f[2]
                   /\ s \notin Ledger => old.cutoff <= new.cutoff

CompositionsFresh == [][FreshMoves]_vars

\* The comment of COUPLED_PUBLICATION_STREAM_FAMILIES: an administrative action
\* cannot create a mixed-generation family.  When an operator moves one window
\* to a rollback or activates a staged version of it, every window that served
\* the same season moves too, unless it has no candidate of that season.  (The
\* revert of a cutover activates nothing: it restores what the cutover found,
\* which may have been mixed since the windows' first activations.)
CoupledMoves ==
    \A s, t \in Family :
        LET next == stream'[s]
            p == next.versions[next.active]
        IN  /\ stream[s].active # None /\ stream[t].active # None
            /\ ServedSeason(s) = ServedSeason(t)
            /\ next.active \notin {None, stream[s].active}
            /\ \/ p.status = "rollback"
               \/ p.activated /\ ~stream[s].versions[next.active].activated
            => \/ stream'[t].active # stream[t].active
               \/ p.status # "rollback" /\ Candidates(stream[t], p.season) = {}

FamilyMovesTogether == [][CoupledMoves]_vars

\* The first version of a season that a trailing stream serves after an earlier
\* season was cut at a ready cutoff, or an operator activated it.
WaitsForReadiness(s) ==
    \A h \in stream[s].history :
        LET Season(k) == stream[s].versions[k.pub].season
            p == stream[s].versions[h.pub]
        IN  /\ p.live
            /\ \A k \in stream[s].history : k.fence < h.fence => Season(k) < p.season
            /\ \E k \in stream[s].history : k.fence < h.fence
            => p.activated \/ ReadinessRuleHolds(s, p.cutoff)

\* The comment of _compose_active_in_session: "A trailing family takes the
\* Published Season only once its Readiness Rule holds; until then it keeps
\* serving its last."
TrailingWaits == \A s \in Trailing : WaitsForReadiness(s)

\* The same for the streams no correction has reached, through cutovers,
\* reverts, rollbacks and promotions of the season they trail.
UncorrectedTrailingWaits == \A s \in Trailing : corrected[s] = {} => WaitsForReadiness(s)

=============================================================================
