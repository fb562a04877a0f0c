------------------------- MODULE ProjectionArchive -------------------------
(***************************************************************************)
(* The projection archive of one provider and season, and the three that   *)
(* write it: collection cycles (ProjectionCollectionCoordinator.run), an   *)
(* operator's mapping decision (ProjectionArchive._replay_mapping) and the *)
(* retention job (ProjectionArchiveRetention.run).  A poll of the provider *)
(* is stored as immutable evidence; when it is newer than all there is, it *)
(* becomes a promoted generation and moves the Latest lines.  After tip a  *)
(* game's closing set is rebuilt by replaying the promoted generations.    *)
(*                                                                         *)
(* Every write is a transaction under the scope lock, so it is one step.   *)
(* The lease of a cycle is not checked in those transactions: a cycle that *)
(* outlived it still commits, and the archive's own fences must order it.  *)
(*                                                                         *)
(* polls and gens are the history of everything stored; live says which    *)
(* rows still exist, so that what pruning forgets can be told apart from   *)
(* what readers need.  A generation also stands for the snapshot it stored *)
(* first.  One game, whose rows are all that the boards hold.              *)
(***************************************************************************)
EXTENDS Integers, Sequences, FiniteSets, FiniteSetsExt

CONSTANTS
    Workers,        \* processes that run collection cycles
    Boards,         \* provider boards: [complete, refs]
    Refs,           \* market references
    Unmapped,       \* the reference whose athlete awaits a decision
    MarketOf,       \* the player's market of a reference
    Tip,            \* the start fence of the game
    Window,         \* RETENTION_WINDOW in ticks
    LeaseTicks,     \* lease_duration in ticks
    CacheTicks,     \* for how long the provider cache repeats a snapshot
    MaxTime,        \* bound on the clock
    MaxCycles,      \* bound on the collection cycles, each of one poll at most
    MaxFaults       \* bound on provider failures and write errors

ASSUME BoardsAssumption ==
    /\ Boards \subseteq [complete : BOOLEAN, refs : SUBSET Refs]
    /\ Unmapped \in Refs /\ DOMAIN MarketOf = Refs
ASSUME BoundsAssumption ==
    /\ {Tip, Window, LeaseTicks, CacheTicks, MaxTime} \subseteq Nat
    /\ {MaxCycles, MaxFaults} \subseteq Nat /\ MaxTime > 0
    /\ IsFiniteSet(Workers)

VARIABLES
    now,            \* the database clock
    decision,       \* the athlete mapping: open, approved, replayed
    lease,          \* the ProjectionCollectionLease row
    cycle,          \* the collection cycle of each worker
    polls,          \* ProviderPoll rows ever written
    gens,           \* ProjectionMaterializationGeneration rows ever written
    live,           \* the observations, generations, polls and snapshots kept
    latest,         \* LatestPlayerProjection rows
    active,         \* active_generation_id of the scope lock row, 0 if unset
    replayed,       \* mapping_replayed_at and mapping_replayed_retrieved_at
    closing,        \* the closing set's memberships
    prune,          \* the retention run
    faults          \* provider failures and write errors so far

archive == <<polls, gens, live, latest, active>>
vars == <<now, decision, lease, cycle, archive, replayed, closing, prune, faults>>

None == [none |-> TRUE]
NotClosed == [frozen |-> FALSE, rows |-> {}]
Absent == [obs |-> 0, gen |-> 0, conf |-> 0]      \* no Latest row
Idle == [pc |-> "idle", fence |-> 0, started |-> 0, accepted |-> 0, ev |-> None]
Resting == [pc |-> "idle", now |-> 0, named |-> FALSE, cursor |-> -1, spare |-> {}, baselines |-> {},
            kept |-> {}, gens |-> {}, polls |-> {}, snaps |-> {}]

Times == 0..MaxTime
GenIds == 1..(MaxCycles + 1)       \* one per poll and one mapping replay
PollIds == 1..MaxCycles
RowIds == GenIds \X Refs
Contents == [board : Boards, mapped : BOOLEAN]
Evidence == [content : Contents, retrieved : Times]
Replays == [complete : {FALSE}, refs : {{Unmapped}}]

TypeOK ==
    /\ now \in Times
    /\ decision \in {"open", "approved", "replayed"}
    /\ lease \in [held : BOOLEAN, fence : 0..MaxCycles, expires : 0..(MaxTime + LeaseTicks)]
    /\ cycle \in [Workers -> [pc : {"idle", "polling", "got", "recording", "closing"},
                              fence : 0..MaxCycles, started : Times, accepted : Times,
                              ev : Evidence \cup {None}]]
    /\ DOMAIN polls \subseteq PollIds
    /\ \A p \in DOMAIN polls :
         polls[p] \in [started : Times, completed : Times, ev : Evidence \cup {None},
                       promoted : BOOLEAN, gen : GenIds \cup {0}]
    /\ DOMAIN gens \subseteq GenIds
    /\ \A g \in DOMAIN gens :
         gens[g] \in [content : Contents \cup [board : Replays, mapped : {TRUE}],
                      retrieved : Times, created : Times,
                      advanced : BOOLEAN, replay : BOOLEAN,
                      snap : GenIds, poll : PollIds, source : GenIds]
    /\ live \in [rows : SUBSET RowIds, gens : SUBSET GenIds,
                 polls : SUBSET PollIds, snaps : SUBSET GenIds]
    /\ latest \in [Refs -> [obs : GenIds, gen : GenIds, conf : Times] \cup {Absent}]
    /\ active \in GenIds \cup {0}
    /\ replayed \in [at : Times, retrieved : Times]
    /\ closing \in [frozen : BOOLEAN, rows : SUBSET RowIds]
    /\ prune \in [pc : {"idle", "rows", "gens", "polls", "snaps"}, now : Times, named : BOOLEAN,
                  cursor : {-1} \cup Times, spare : SUBSET RowIds, baselines : SUBSET GenIds,
                  kept : SUBSET RowIds, gens : SUBSET GenIds, polls : SUBSET PollIds,
                  snaps : SUBSET GenIds]
    /\ faults \in 0..MaxFaults

Init ==
    /\ now = 1 /\ decision = "open" /\ faults = 0
    /\ lease = [held |-> FALSE, fence |-> 0, expires |-> 0]
    /\ cycle = [w \in Workers |-> Idle]
    /\ polls = <<>> /\ gens = <<>>
    /\ live = [rows |-> {}, gens |-> {}, polls |-> {}, snaps |-> {}]
    /\ latest = [r \in Refs |-> Absent]
    /\ active = 0
    /\ replayed = [at |-> 0, retrieved |-> 0]
    /\ closing = NotClosed
    /\ prune = Resting

-----------------------------------------------------------------------------
(* What the rows say. *)

\* _observation_rows: a row is targetable when its identities are resolved.
Targetable(g, r) ==
    r \in gens[g].content.board.refs /\ (r = Unmapped => gens[g].content.mapped)

\* A mapping replay copies observed_at and source_poll_id of its source row.
ObservedAt(row) == gens[gens[row[1]].source].retrieved
SourcePoll(row) == gens[gens[row[1]].source].poll

\* _current_materialization: its snapshot's content_checksum.
CurrentContent == gens[gens[active].snap].content

\* _closing_replay_bounds over the given generations: the newest Complete
\* generation that is no mapping replay, 0 if there is none, and the promoted
\* ones from it on.  Promotion is in retrieval order, so is gens.
Eligible(ids, t) == {g \in ids : gens[g].advanced /\ polls[gens[g].poll].completed <= t}

Baseline(ids, t) ==
    Max({0} \cup {g \in Eligible(ids, t) : gens[g].content.board.complete /\ ~gens[g].replay})

Replayed(ids, t) ==
    LET base == Baseline(ids, t)
    IN  {g \in Eligible(ids, t) : g >= base}

\* _closing_materialization_rows: a Complete board clears the state, any row
\* retires its reference, and a poll that names a player's market retires
\* every line carried for that market.
Retires(g, rows, r) ==
    LET named == {q \in Refs : <<g, q>> \in rows}
    IN  \/ gens[g].content.board.complete
        \/ r \in named
        \/ /\ ~gens[g].replay
           /\ \E q \in named : Targetable(g, q) /\ MarketOf[q] = MarketOf[r]

ClosingRows(ids, rows, t) ==
    LET used == Replayed(ids, t)
    IN  {row \in rows :
            /\ row[1] \in used /\ Targetable(row[1], row[2])
            /\ ~\E h \in used : h > row[1] /\ Retires(h, rows, row[2])}

\* _newest_line_rows of replayed rows: each market's last observed lines.
NewestLines(rows) ==
    {row \in rows : \A s \in rows :
        MarketOf[s[2]] = MarketOf[row[2]] => ObservedAt(s) <= ObservedAt(row)}

-----------------------------------------------------------------------------
(* Collection cycles. *)

Renewed(w) == lease.held /\ lease.fence = cycle[w].fence /\ lease.expires > now

\* Mutant: a renewal adds to the old expiry.
ExtendedFurther == [lease EXCEPT !.expires = @ + LeaseTicks]

Extended == [lease EXCEPT !.expires = now + LeaseTicks]

\* _release_lease finds nothing to release when the fence has moved on.
Released(w) ==
    IF lease.fence = cycle[w].fence
    THEN [lease EXCEPT !.held = FALSE, !.expires = 0] ELSE lease

\* run: which providers are due is the cadence's decision; when none is, the
\* cycle only closes started games.  The owner is the same name everywhere.
Begin(w, pc) ==
    /\ cycle[w].pc = "idle"
    /\ ~(lease.held /\ lease.expires > now)
    /\ lease.fence < MaxCycles
    /\ pc = "closing" => now >= Tip /\ ~closing.frozen
    /\ lease' = [held |-> TRUE, fence |-> lease.fence + 1, expires |-> now + LeaseTicks]
    /\ cycle' = [cycle EXCEPT ![w] = [Idle EXCEPT !.pc = pc, !.fence = lease.fence + 1,
                                                  !.started = IF pc = "polling" THEN now ELSE 0]]
    /\ UNCHANGED <<now, decision, archive, replayed, closing, prune, faults>>

\* get_board maps the athletes after it has the provider's markets.
Mapped(b) == Unmapped \notin b.refs \/ decision # "open"

Got(w, b, t) ==
    cycle' = [cycle EXCEPT ![w].pc = "got",
                           ![w].ev = [content |-> [board |-> b, mapped |-> Mapped(b)],
                                      retrieved |-> t]]

Fetch(w, b) ==
    /\ cycle[w].pc = "polling"
    /\ Got(w, b, now)
    /\ UNCHANGED <<now, decision, lease, archive, replayed, closing, prune, faults>>

\* The provider cache repeats the snapshot of a recorded poll.
FetchCached(w, p) ==
    /\ cycle[w].pc = "polling"
    /\ polls[p].ev # None
    /\ polls[p].ev.retrieved < now /\ now - polls[p].ev.retrieved <= CacheTicks
    /\ \A q \in live.polls : polls[q].ev # None => polls[q].ev.retrieved <= polls[p].ev.retrieved
    /\ Got(w, polls[p].ev.content.board, polls[p].ev.retrieved)
    /\ UNCHANGED <<now, decision, lease, archive, replayed, closing, prune, faults>>

\* The provider fails or only a stale snapshot is left.
FetchFails(w) ==
    /\ cycle[w].pc = "polling"
    /\ faults < MaxFaults
    /\ faults' = faults + 1
    /\ cycle' = [cycle EXCEPT ![w].pc = "got"]
    /\ UNCHANGED <<now, decision, lease, archive, replayed, closing, prune>>

\* The lease is renewed and accepted_at read before the archive transaction.
Admit(w) ==
    /\ cycle[w].pc = "got" /\ Renewed(w)
    /\ lease' = Extended
    /\ cycle' = [cycle EXCEPT ![w].pc = "recording", ![w].accepted = now]
    /\ UNCHANGED <<now, decision, archive, replayed, closing, prune, faults>>

LeaseLost(w) ==
    /\ cycle[w].pc = "got" /\ ~Renewed(w)
    /\ lease' = Released(w)
    /\ cycle' = [cycle EXCEPT ![w] = Idle]
    /\ UNCHANGED <<now, decision, archive, replayed, closing, prune, faults>>

\* record_snapshot raises; the cycle records a failed poll instead.
RecordFault(w) ==
    /\ cycle[w].pc = "recording" /\ cycle[w].ev # None
    /\ faults < MaxFaults
    /\ faults' = faults + 1
    /\ cycle' = [cycle EXCEPT ![w].pc = "got", ![w].ev = None]
    /\ UNCHANGED <<now, decision, lease, archive, replayed, closing, prune>>

-----------------------------------------------------------------------------
(* Ingestion of a snapshot: _ingest_prepared under the scope lock. *)

\* _replayed_result: this very evidence is already recorded.
Recorded(ev) == \E p \in live.polls : polls[p].ev = ev

\* _promotion_fence, _failure_attempt_fence and the active generation.
PromotionFence ==
    {polls[p].ev.retrieved : p \in {q \in live.polls : polls[q].promoted}}
        \cup {replayed.retrieved}

FailureFence == {polls[p].started : p \in {q \in live.polls : polls[q].ev = None}}

\* Mutant: evidence from before the decision is not fenced.
NoFence(ev) == {}

\* _pre_decision_unresolved_fence
UnresolvedFence(ev) ==
    IF ~ev.content.mapped /\ ev.retrieved < replayed.at THEN {replayed.at} ELSE {}

CurrentFence == IF active = 0 THEN {} ELSE {gens[active].retrieved}

Advances(ev) ==
    \A t \in PromotionFence \cup FailureFence \cup UnresolvedFence(ev) \cup CurrentFence :
        ev.retrieved > t

\* _record_current_confirmation: the promoted state is unchanged.  Between a
\* promotion and the next one only a mapping replay changes what the
\* materialization checksum covers.
Confirms(ev) == active # 0 /\ CurrentContent = ev.content /\ ~gens[active].replay

\* Mutant: a partial board confirms every line that Latest carries.
ConfirmedCarried(ev) ==
    [r \in Refs |->
       IF latest[r] # Absent /\ latest[r].conf < ev.retrieved
       THEN [latest[r] EXCEPT !.conf = ev.retrieved] ELSE latest[r]]

\* _confirm_latest
ConfirmedLatest(ev) ==
    [r \in Refs |->
       IF /\ latest[r] # Absent
          /\ ev.content.board.complete \/ r \in ev.content.board.refs
          /\ latest[r].conf < ev.retrieved
       THEN [latest[r] EXCEPT !.conf = ev.retrieved] ELSE latest[r]]

\* _advance_latest: a Complete board replaces the Latest rows.
Line(ev, g) == [obs |-> g, gen |-> g, conf |-> ev.retrieved]
Selected(ev) == {r \in ev.content.board.refs : r = Unmapped => ev.content.mapped}

CompleteLatest(ev, g) == [r \in Refs |-> IF r \in Selected(ev) THEN Line(ev, g) ELSE Absent]

\* _plan_partial_transition and _apply_partial_transition: a Partial board
\* replaces the rows it names and carries the others to its generation.
PartialLatest(ev, g) ==
    [r \in Refs |->
       IF r \in Selected(ev) THEN Line(ev, g)
       ELSE IF r \in ev.content.board.refs \/ latest[r] = Absent THEN Absent
       ELSE [latest[r] EXCEPT !.gen = g]]

AdvancedLatest(ev, g) ==
    IF ev.content.board.complete THEN CompleteLatest(ev, g) ELSE PartialLatest(ev, g)

\* Only the start of a failed attempt is ever read.
NewPoll(w, promoted, g) ==
    [started |-> IF cycle[w].ev = None THEN cycle[w].started ELSE 0, completed |-> cycle[w].accepted,
     ev |-> cycle[w].ev, promoted |-> promoted, gen |-> g]

Confirm(w) ==
    LET ev == cycle[w].ev
        promoted == Advances(ev)
    IN  /\ polls' = Append(polls, NewPoll(w, promoted, active))
        /\ live' = [live EXCEPT !.polls = @ \cup {Len(polls) + 1}]
        /\ latest' = IF promoted THEN ConfirmedLatest(ev) ELSE latest
        /\ UNCHANGED <<gens, active>>

\* _persist_transition: snapshot, poll, generation and observations, and the
\* Latest rows when the generation is promoted.
Persist(w) ==
    LET ev == cycle[w].ev
        g == Len(gens) + 1
        p == Len(polls) + 1
        promoted == Advances(ev)
        snap == IF active # 0 /\ CurrentContent = ev.content THEN gens[active].snap ELSE g
    IN  /\ polls' = Append(polls, NewPoll(w, promoted, g))
        /\ gens' = Append(gens, [content |-> ev.content, retrieved |-> ev.retrieved,
                                 created |-> cycle[w].accepted, advanced |-> promoted,
                                 replay |-> FALSE, snap |-> snap, poll |-> p, source |-> g])
        /\ live' = [rows |-> live.rows \cup ({g} \X ev.content.board.refs),
                    gens |-> live.gens \cup {g}, polls |-> live.polls \cup {p},
                    snaps |-> live.snaps \cup {snap}]
        /\ latest' = IF promoted THEN AdvancedLatest(ev, g) ELSE latest
        /\ active' = IF promoted THEN g ELSE active

\* The renewal that follows a recording: the cycle goes on to the started
\* games, or ends when its lease is gone.
GoesOn(w) ==
    IF Renewed(w)
    THEN /\ lease' = Extended
         /\ cycle' = [cycle EXCEPT ![w] = [Idle EXCEPT !.pc = "closing", !.fence = cycle[w].fence]]
    ELSE /\ lease' = Released(w)
         /\ cycle' = [cycle EXCEPT ![w] = Idle]

Record(w) ==
    /\ cycle[w].pc = "recording" /\ cycle[w].ev # None
    /\ IF Recorded(cycle[w].ev) THEN UNCHANGED archive
       ELSE IF Confirms(cycle[w].ev) THEN Confirm(w) ELSE Persist(w)
    /\ GoesOn(w)
    /\ UNCHANGED <<now, decision, replayed, closing, prune, faults>>

\* record_failed_poll; only the failed outcome of a board that came back is
\* followed by a renewal.
RecordFailed(w) ==
    /\ cycle[w].pc = "recording" /\ cycle[w].ev = None
    /\ polls' = Append(polls, NewPoll(w, FALSE, 0))
    /\ live' = [live EXCEPT !.polls = @ \cup {Len(polls) + 1}]
    /\ \/ GoesOn(w)
       \/ /\ cycle' = [cycle EXCEPT ![w] = [Idle EXCEPT !.pc = "closing", !.fence = cycle[w].fence]]
          /\ UNCHANGED lease
    /\ UNCHANGED <<now, decision, gens, latest, active, replayed, closing, prune, faults>>

\* freeze_closing_projection_set, once the game has started; the cycle ends.
Freeze(w) ==
    /\ cycle[w].pc = "closing"
    /\ closing' = IF now >= Tip /\ ~closing.frozen
                  THEN [frozen |-> TRUE, rows |-> ClosingRows(live.gens, live.rows, Tip)]
                  ELSE closing
    /\ lease' = Released(w)
    /\ cycle' = [cycle EXCEPT ![w] = Idle]
    /\ UNCHANGED <<now, decision, archive, replayed, prune, faults>>

-----------------------------------------------------------------------------
(* The mapping decision and its replay. *)

\* The decision is committed; what was fetched before it stays unresolved.
Decide ==
    /\ decision = "open" /\ now < MaxTime
    /\ decision' = "approved" /\ now' = now + 1
    /\ UNCHANGED <<lease, cycle, archive, replayed, closing, prune, faults>>

\* _replay_scope: the promoted unresolved rows of the active snapshot.
ReplaySources ==
    {g \in live.gens : /\ <<g, Unmapped>> \in live.rows /\ ~Targetable(g, Unmapped)
                      /\ gens[g].advanced /\ gens[g].snap = gens[active].snap}

ReplayMapping ==
    /\ decision = "approved"
    /\ decision' = "replayed"
    /\ IF active = 0 \/ ReplaySources = {} THEN UNCHANGED <<archive, replayed>>
       ELSE LET g == Len(gens) + 1
                s == Max(ReplaySources)
                board == [complete |-> FALSE, refs |-> {Unmapped}]
            IN  /\ gens' = Append(gens,
                      [gens[active] EXCEPT !.content = [board |-> board, mapped |-> TRUE],
                                           !.created = now, !.replay = TRUE, !.source = s])
                /\ live' = [live EXCEPT !.rows = @ \cup {<<g, Unmapped>>}, !.gens = @ \cup {g}]
                /\ latest' = [latest EXCEPT ![Unmapped] =
                                [obs |-> g, gen |-> g, conf |-> gens[s].retrieved]]
                /\ active' = g
                /\ replayed' = [at |-> now, retrieved |-> gens[active].retrieved]
                /\ UNCHANGED polls
    /\ UNCHANGED <<now, lease, cycle, closing, prune, faults>>

-----------------------------------------------------------------------------
(* Retention: _prune_scope of this scope, with its reads outside the scope *)
(* lock and its batches under it.                                          *)

\* _ReplayRule.needs: targetable rows of the baseline, all rows after it.
RuleRows(t) ==
    LET used == Replayed(live.gens, t)
        base == Baseline(live.gens, t)
    IN  {row \in live.rows : row[1] \in used /\ (row[1] = base => Targetable(row[1], row[2]))}

\* Mutant: only today's replay is spared, not that of a game to close.
CurrentRule(t, named) == {t}

\* _replay_rules: a started game that expired rows name is replayed at its
\* start; a closed one is never replayed again.
RuleTimes(t, named) == IF named /\ t >= Tip /\ ~closing.frozen THEN {t, Tip} ELSE {t}

NeededRows(t) == IF closing.frozen THEN {} ELSE UNION {RuleRows(u) : u \in RuleTimes(t, TRUE)}

NeededBaselines(t, named) == {Baseline(live.gens, u) : u \in RuleTimes(t, named)} \ {0}

\* _expired: the row and its generation are older than the window.
OlderThan(row, cutoff) == ObservedAt(row) < cutoff /\ gens[row[1]].created < cutoff

Cutoff == prune.now - Window
Expired(row) == OlderThan(row, Cutoff)

\* _expired_games and _replay_rules, read outside the scope lock.
BeginPrune ==
    /\ prune.pc = "idle"
    /\ \E p \in live.polls : polls[p].completed < now - Window
    /\ LET named == \E row \in live.rows : OlderThan(row, now - Window)
       IN  prune' = [Resting EXCEPT !.pc = "rows", !.now = now, !.named = named,
                        !.spare = {row \in NeededRows(now) : OlderThan(row, now - Window)},
                        !.baselines = NeededBaselines(now, named)]
    /\ UNCHANGED <<now, decision, lease, cycle, archive, replayed, closing, faults>>

InLatest(row) == latest[row[2]].obs = row[1]
InClosing(row) == row \in closing.rows
InActiveSnapshot(row) == active # 0 /\ gens[row[1]].snap = gens[active].snap

\* Mutant: closing memberships do not protect their rows.
ProtectedOpen(row) == InLatest(row) \/ InActiveSnapshot(row) \/ row \in prune.spare

Protected(row) ==
    InLatest(row) \/ InClosing(row) \/ InActiveSnapshot(row) \/ row \in prune.spare

\* A batch of observations in the order of observed_at; what the replays read
\* is computed again before it deletes, and a doomed row among it ends the run.
RowsAhead == {row \in live.rows : Expired(row) /\ ObservedAt(row) > prune.cursor}

PruneRows ==
    /\ prune.pc = "rows" /\ RowsAhead # {}
    /\ LET c == Min({ObservedAt(row) : row \in RowsAhead})
           batch == {row \in RowsAhead : ObservedAt(row) = c}
           doomed == {row \in batch : ~Protected(row)}
       IN  /\ doomed \cap NeededRows(prune.now) = {}
           /\ live' = [live EXCEPT !.rows = @ \ doomed]
           /\ prune' = [prune EXCEPT !.cursor = c, !.kept = @ \cup (batch \ doomed)]
    /\ UNCHANGED <<now, decision, lease, cycle, polls, gens, latest, active,
                   replayed, closing, faults>>

\* Mutant: retention forgets the newest failed attempt.
NewestPromoted ==
    {p \in live.polls : polls[p].promoted /\ \A q \in live.polls : polls[q].promoted => q <= p}

\* _newest_poll: the newest promoted and the newest failed one.
NewestPolls ==
    LET At(p) == IF polls[p].ev = None THEN polls[p].started ELSE polls[p].ev.retrieved
        Newest(S) == {p \in S : \A q \in S : At(q) < At(p) \/ (At(q) = At(p) /\ q <= p)}
    IN  Newest({p \in live.polls : polls[p].promoted})
          \cup Newest({p \in live.polls : polls[p].ev = None})

\* _plan_parents: what outlives the kept observations, closed under the
\* references of generations to polls and snapshots and of polls to both.
PlanParents ==
    LET recent == {row \in live.rows : ~Expired(row)}
        rows == prune.kept \cup recent
        genSeeds == {g \in live.gens :
                       \/ gens[g].created >= Cutoff \/ g = active \/ g \in prune.baselines
                       \/ \E r \in Refs : latest[r].gen = g
                       \/ \E r \in Refs : InClosing(<<g, r>>)}
                    \cup {row[1] : row \in rows}
        pollSeeds == {p \in live.polls : polls[p].completed >= Cutoff}
                     \cup NewestPolls \cup {SourcePoll(row) : row \in rows}
        keptGens == genSeeds \cup ({polls[p].gen : p \in pollSeeds} \ {0})
        keptPolls == pollSeeds \cup {gens[g].poll : g \in keptGens}
        allGens == keptGens \cup ({polls[p].gen : p \in keptPolls} \ {0})
        keptSnaps == {s \in live.snaps : gens[s].retrieved >= Cutoff}
                     \cup {gens[g].snap : g \in allGens}
    IN  /\ prune.pc = "rows" /\ RowsAhead = {}
        /\ prune' = [prune EXCEPT !.pc = "gens", !.gens = live.gens \ allGens,
                                  !.polls = live.polls \ keptPolls,
                                  !.snaps = live.snaps \ keptSnaps,
                                  !.spare = {}, !.baselines = {}, !.kept = {}, !.cursor = -1]
        /\ UNCHANGED <<now, decision, lease, cycle, archive, replayed, closing, faults>>

\* _unreferenced, asked again when the row is deleted.
UnreferencedGens ==
    {g \in prune.gens \cap live.gens :
        /\ g # active /\ \A r \in Refs : latest[r].gen # g
        /\ \A r \in Refs : <<g, r>> \notin live.rows /\ ~InClosing(<<g, r>>)}

UnreferencedPolls ==
    {p \in prune.polls \cap live.polls :
        /\ \A g \in live.gens : gens[g].poll # p
        /\ \A row \in live.rows : SourcePoll(row) # p}

UnreferencedSnaps ==
    {s \in prune.snaps \cap live.snaps :
        /\ \A g \in live.gens \cup {row[1] : row \in live.rows} : gens[g].snap # s
        /\ \A p \in live.polls : polls[p].gen # 0 => gens[polls[p].gen].snap # s}

PruneParents ==
    /\ \/ /\ prune.pc = "gens"
          /\ UnreferencedGens \cap NeededBaselines(prune.now, prune.named) = {}
          /\ live' = [live EXCEPT !.gens = @ \ UnreferencedGens]
          /\ prune' = [prune EXCEPT !.pc = "polls", !.gens = {}, !.named = FALSE]
       \/ /\ prune.pc = "polls"
          /\ live' = [live EXCEPT !.polls = @ \ UnreferencedPolls]
          /\ prune' = [prune EXCEPT !.pc = "snaps", !.polls = {}]
       \/ /\ prune.pc = "snaps"
          /\ live' = [live EXCEPT !.snaps = @ \ UnreferencedSnaps]
          /\ prune' = Resting
    /\ UNCHANGED <<now, decision, lease, cycle, polls, gens, latest, active,
                   replayed, closing, faults>>

\* The job dies or a batch is refused; committed batches stay.
StopPrune ==
    /\ prune.pc # "idle"
    /\ prune' = Resting
    /\ UNCHANGED <<now, decision, lease, cycle, archive, replayed, closing, faults>>

-----------------------------------------------------------------------------

Tick ==
    /\ now < MaxTime
    /\ now' = now + 1
    /\ UNCHANGED <<decision, lease, cycle, archive, replayed, closing, prune, faults>>

CycleStep(w) ==
    \/ \E pc \in {"polling", "closing"} : Begin(w, pc)
    \/ \E b \in Boards : Fetch(w, b)
    \/ (\E p \in live.polls : FetchCached(w, p)) \/ FetchFails(w) \/ Admit(w) \/ LeaseLost(w)
    \/ Record(w) \/ RecordFault(w) \/ RecordFailed(w) \/ Freeze(w)

Next ==
    \/ \E w \in Workers : CycleStep(w)
    \/ Decide \/ ReplayMapping
    \/ BeginPrune \/ PruneRows \/ PlanParents \/ PruneParents \/ StopPrune
    \/ Tick

Spec == Init /\ [][Next]_vars

-----------------------------------------------------------------------------
(* Properties. *)

(* Whatever retention deletes while cycles, decisions and freezes go on    *)
(* between its batches, every Latest line, closing membership and the      *)
(* active generation still resolve, and so does every reference of a kept  *)
(* row to its generation, poll and snapshot (_assert_pointers_resolve).    *)
PointersResolve ==
    /\ \A r \in Refs : latest[r] # Absent =>
          <<latest[r].obs, r>> \in live.rows /\ latest[r].gen \in live.gens
    /\ closing.rows \subseteq live.rows
    /\ active # 0 => active \in live.gens
    /\ \A row \in live.rows : row[1] \in live.gens /\ SourcePoll(row) \in live.polls
    /\ \A g \in live.gens : gens[g].poll \in live.polls /\ gens[g].snap \in live.snaps

\* Every row that was ever written.
Stored == {row \in RowIds : row[1] \in DOMAIN gens /\ row[2] \in gens[row[1]].content.board.refs}

SameReplay == ClosingRows(live.gens, live.rows, Tip) = ClosingRows(DOMAIN gens, Stored, Tip)

\* The board lists the game.
OffersGame(g) == \E r \in Refs : Targetable(g, r)

(* A late freeze reads identical rows after a prune, however old the game: *)
(* as long as the game is not closed, the replay of what is kept yields    *)
(* what the replay of everything ever promoted yields, row by row          *)
(* (_replay_rules and _closing_materialization_rows), when the newest      *)
(* Complete board before the start offered the game, or there is none; a   *)
(* Complete board without the game has no row for retention to find the    *)
(* game by (_expired_games).                                               *)
ReplayKept ==
    LET base == Baseline(DOMAIN gens, Tip)
    IN  ~closing.frozen /\ (base # 0 => OffersGame(base)) => SameReplay

\* The lines a reader is shown from Latest, each market's last confirmed ones.
Shown ==
    {<<latest[r].obs, r>> : r \in
        {q \in Refs : /\ latest[q] # Absent
                      /\ \A s \in Refs : MarketOf[s] = MarketOf[q] => latest[s].conf <= latest[q].conf}}

\* The mapping replay's line is in Latest; lines that share no market with it.
Recovered == latest[Unmapped] # Absent /\ gens[latest[Unmapped].obs].replay

Apart(r) == \A q \in Refs \ {r} : MarketOf[q] = MarketOf[r] => Unmapped \notin {q, r}

(* What a reader is shown is what a replay of the promoted generations     *)
(* yields: the incremental update and the closing fold never disagree, so  *)
(* the start of the game does not change what is served                    *)
(* (_newest_line_rows and _closing_materialization_rows).  Not so for the  *)
(* lines that share their market with one recovered by the mapping replay, *)
(* which confirms it at the time of its first observation.                 *)
LatestIsReplay ==
    LET Judged(rows) == {row \in rows : Recovered => Apart(row[2])}
    IN  Judged(Shown) = Judged(NewestLines(ClosingRows(live.gens, live.rows, MaxTime)))

(* Promotion is in the order of retrieval, although cycles that lost their *)
(* lease still commit and retention forgets old polls: evidence becomes    *)
(* the active generation only when it was retrieved after everything       *)
(* promoted before it and after the start of every attempt that is known   *)
(* to have failed.                                                         *)
Promotion ==
    active' # active /\ ~gens'[active'].replay =>
        \A p \in DOMAIN polls :
            /\ polls[p].promoted => gens'[active'].retrieved > polls[p].ev.retrieved
            /\ polls[p].ev = None => gens'[active'].retrieved > polls[p].started

PromotedInOrder == [][Promotion]_vars

(* A line recovered by a mapping decision is not erased by evidence that   *)
(* still carries the unresolved identity: it leaves Latest only with       *)
(* evidence that no longer names it (_pre_decision_unresolved_fence).      *)
RecoveryKept ==
    [][latest[Unmapped] # Absent /\ latest'[Unmapped] = Absent
          => Unmapped \notin gens'[active'].content.board.refs]_vars

=============================================================================
