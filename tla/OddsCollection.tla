--------------------------- MODULE OddsCollection ---------------------------
(***************************************************************************)
(* Scheduled collection of sportsbook odds from a paid API:                *)
(* OddsCollectionCoordinator (odds_collection.py) carries out the plans of *)
(* odds_schedule.py.  One beat takes a lease of its own with a new fence,  *)
(* lists the events (free, and it reports the quota), plans the paid calls *)
(* that are due under the credit guard, and makes them one by one.  Every  *)
(* write transaction checks the fence; a paid response is first written to *)
(* the poll ledger, then the quotes are stored.                            *)
(*                                                                         *)
(* Beats overlap when one outlives its lease.  They may crash, fail, meet  *)
(* a provider error or share the key with other users.  Time is counted in *)
(* ticks; the provider reports the quota with every answer; the schedule   *)
(* of the catalog agrees with the provider's.                              *)
(***************************************************************************)
EXTENDS Integers, Sequences, FiniteSets

CONSTANTS
    Workers,          \* beats that may run at once
    Events,           \* events as numbers, in the order of their identifiers
    FirstTip,         \* the tip of an event when it is first listed
    Windows,          \* the polling windows, highest precedence first
    Slack,            \* CADENCE_SLACK
    CallCost, Reserve, HaltBelow,     \* credits
    LeaseTicks, TierTicks,            \* LEASE_DURATION, TIER_REEVALUATION
    BackoffMax, AuthBackoff,
    Postponement,     \* ticks a tip moves by
    SameTip,          \* a close counts for a tip at most this far away
    StartCredits,
    MaxTime, MaxMishaps               \* bounds: the clock; faults, errors, credits
                                      \* others spend and postponements together

None == "none"
Never == -1
MinRemaining == 1
Tiers == <<"normal", "degraded", "closing", "halted">>

ASSUME OddsAssumption ==
    /\ Events \subseteq Nat /\ IsFiniteSet(Events)
    /\ FirstTip \in [Events -> Nat]
    /\ Windows \in Seq([kind : STRING, opens : Nat, closes : Nat, cadence : Nat, once : BOOLEAN,
                         tiers : SUBSET STRING])
    /\ \A i \in 1 .. Len(Windows) :
          Windows[i].closes <= Windows[i].opens /\ (Windows[i].once \/ Windows[i].cadence > 0)
    /\ {Slack, Reserve, HaltBelow, BackoffMax, AuthBackoff, Postponement, SameTip, StartCredits} \subseteq Nat
    /\ {CallCost, LeaseTicks, TierTicks} \subseteq Nat \ {0}
    /\ {MaxTime, MaxMishaps} \subseteq Nat
    /\ None \notin Workers

VARIABLES
    now,              \* the clock
    tip,              \* commence_time of each event, at the provider
    credits,          \* x-requests-remaining, at the provider
    lease,            \* the row "odds" of projection_collection_leases
    quota,            \* odds_api_quota_state
    polls,            \* odds_api_polls, without the failed ones
    shown,            \* the poll whose quotes are the latest of an event
    beat,             \* what each worker is doing
    fired,            \* the scheduler has started its beat of this tick
    budget,           \* history: what is left of each count of an event's paid calls
    mishaps

world == <<now, tip, fired>>
tables == <<lease, quota, polls, shown>>
vars == <<world, tables, credits, beat, budget, mishaps>>

-----------------------------------------------------------------------------
(* The schedule of one game. *)

Lowest(a, b) == IF a < b THEN a ELSE b
Highest(a, b) == IF a > b THEN a ELSE b
Indices == 1 .. Len(Windows)

Opens(i, t) == t - Windows[i].opens

\* A window ends where one of higher precedence opens.
Closes(i, t) ==
    LET ends == {t - Windows[i].closes} \cup {Opens(j, t) : j \in 1 .. i - 1}
    IN  CHOOSE c \in ends : \A d \in ends : c <= d

InWindow(i, t, at) == Opens(i, t) <= at /\ at < Closes(i, t)

PopulatedIn(i, t, populated) == Windows[i].once /\ populated # Never /\ populated >= Opens(i, t)

Slots(i, t) == (Closes(i, t) - Opens(i, t) + Windows[i].cadence - 1) \div Windows[i].cadence

\* The latest slot that may be served at a time; negative before the first.
Slot(i, t, at) ==
    Lowest((at + Slack - Opens(i, t)) \div Windows[i].cadence, Slots(i, t) - 1)

-----------------------------------------------------------------------------
(* The ledger as the planner reads it. *)

Latest(times) == IF times = {} THEN Never ELSE CHOOSE a \in times : \A b \in times : b <= a

LastPoll(e) == Latest({r.completed : r \in {q \in polls : q.event = e}})
LastPopulated(e) ==
    Latest({r.completed : r \in {q \in polls : q.event = e /\ q.outcome = "complete"}})

\* _event_states: a close counts for the tip it was taken against.
ClosingDone(e, t) == \E r \in polls : r.event = e /\ r.closing /\ r.tip = t

\* _upcoming: a close counts for about the tip it was taken against.
ClosedAbout(e, t) ==
    \E r \in polls : r.event = e /\ r.closing /\ r.tip - t \in -SameTip .. SameTip

-----------------------------------------------------------------------------
(* The budget. *)

\* Mutant: the slot of the present moment is not counted.
CountedFromNext(i, e, t, at, tier) ==
    IF tier \notin Windows[i].tiers \/ Highest(Opens(i, t), at) >= Closes(i, t) THEN 0
    ELSE IF Windows[i].once THEN IF PopulatedIn(i, t, LastPopulated(e)) THEN 0 ELSE 1
    ELSE Slots(i, t) - Highest(Slot(i, t, at) + 1, 0)

\* The calls of one window from a time on if every answer is populated.
Counted(i, e, t, at, tier) ==
    IF tier \notin Windows[i].tiers \/ Highest(Opens(i, t), at) >= Closes(i, t) THEN 0
    ELSE IF Windows[i].once THEN IF PopulatedIn(i, t, LastPopulated(e)) THEN 0 ELSE 1
    ELSE Slots(i, t) - Highest(Slot(i, t, at), 0)

\* Calls the planner makes from a time to the tip.
PaidCalls(e, t, at, tier) ==
    LET sum[i \in 0 .. Len(Windows)] ==
            IF i = 0 THEN 0 ELSE sum[i - 1] + Counted(i, e, t, at, tier)
    IN  IF ClosedAbout(e, t) THEN 0 ELSE sum[Len(Windows)]

Need(tips, at, tier) ==
    LET upcoming == {e \in Events : tips[e] > at}
        sum[s \in SUBSET upcoming] ==
            IF s = {} THEN 0
            ELSE LET e == CHOOSE x \in s : TRUE
                 IN  PaidCalls(e, tips[e], at, tier) + sum[s \ {e}]
    IN  CallCost * sum[upcoming]

NearlyEmpty(remaining) == remaining < CallCost + MinRemaining

TargetTier(tips, at, remaining) ==
    CASE NearlyEmpty(remaining) -> 4
      [] remaining - Reserve >= Need(tips, at, "normal") -> 1
      [] remaining - Reserve >= Need(tips, at, "degraded") -> 2
      [] remaining - MinRemaining >= Need(tips, at, "closing") -> 3
      [] OTHER -> 4

StepTier(current, target) ==
    IF target > current THEN current + 1 ELSE IF target < current THEN current - 1 ELSE current

\* Tiers are numbered in the order of Tiers.  Only a halted collector is
\* evaluated again before TIER_REEVALUATION.
EvaluateTier(tips, at, remaining) ==
    IF NearlyEmpty(remaining) THEN [tier |-> 4, evaluated |-> at]
    ELSE IF quota.evaluated # Never /\ at - quota.evaluated < TierTicks /\ quota.tier # 4
    THEN [tier |-> quota.tier, evaluated |-> quota.evaluated]
    ELSE [tier |-> StepTier(quota.tier, TargetTier(tips, at, remaining)), evaluated |-> at]

-----------------------------------------------------------------------------
(* The plan of one beat. *)

\* Mutant: a slot is due although a poll served it.
SlotAlwaysDue(e, i, t, at) == TRUE

SlotDue(e, i, t, at) ==
    \/ Windows[i].cadence = 0
    \/ LastPoll(e) = Never
    \/ LastPoll(e) < Opens(i, t) + Slot(i, t, at) * Windows[i].cadence - Slack

Due(tips, at, tier) ==
    {c \in [event : Events, window : Indices] :
        LET t == tips[c.event]
            i == c.window
        IN  /\ InWindow(i, t, at) /\ Tiers[tier] \in Windows[i].tiers
            /\ ~ClosingDone(c.event, t)
            /\ ~PopulatedIn(i, t, LastPopulated(c.event))
            /\ SlotDue(c.event, i, t, at)}

Closing(c) == Windows[c.window].kind = "closing"

\* Closings first, then the earlier tip.
Before(tips, b, c) ==
    \/ Closing(b) /\ ~Closing(c)
    \/ Closing(b) = Closing(c) /\ tips[b.event] < tips[c.event]
    \/ Closing(b) = Closing(c) /\ tips[b.event] = tips[c.event] /\ b.event < c.event

\* The credits a call has to leave: closings may spend the reserve.
Floor(c) == IF Closing(c) THEN MinRemaining ELSE Highest(Reserve, MinRemaining)

\* The calls the budget reaches, counting those planned before each.
PlannedCalls(tips, at, tier, remaining) ==
    LET due == IF tier = 4 THEN {} ELSE Due(tips, at, tier)
    IN  {c \in due : remaining - CallCost * (Cardinality({b \in due : Before(tips, b, c)}) + 1) >= Floor(c)}

-----------------------------------------------------------------------------
(* State. *)

Call == [event : Events, window : Indices]
Poll == [event : Events, tip : Nat, completed : Nat, outcome : {"complete", "empty"}, closing : BOOLEAN]
NoCall == [event |-> Never, window |-> 0]

\* answer is what the provider did with the request that is on its way; unseen
\* (history) what others spent since the worker last saw the quota.
Beat == [pc : {"idle", "list", "calls", "await", "store", "clear"}, began : Int, tips : [Events -> Nat], calls : SUBSET Call,
         call : Call \cup {NoCall}, remaining : Int, received : Int,
         unseen : Nat, answer : {None, "sent", "populated", "empty", "gone", "failed", "halt"}]

Idle == [pc |-> "idle", began |-> 0, tips |-> [e \in Events |-> 0], calls |-> {},
         call |-> NoCall, remaining |-> 0, received |-> Never,
         unseen |-> 0, answer |-> None]

(* Every row and every beat has its type, and a beat waits exactly while   *)
(* its call has no time of receipt.                                        *)
TypeOK ==
    /\ now \in 0 .. MaxTime /\ tip \in [Events -> Nat]
    /\ credits \in Nat
    /\ lease \in [holder : Workers \cup {None}, expires : Nat]
    /\ quota \in [tier : 1 .. 4, evaluated : Nat \cup {Never},
                  failures : Nat, backoff : Nat]
    /\ polls \subseteq Poll
    /\ shown \in [Events -> Nat \cup {Never}]
    /\ beat \in [Workers -> Beat]
    /\ fired \in BOOLEAN /\ budget \in [Events -> SUBSET Int]
    /\ mishaps \in 0 .. MaxMishaps
    /\ \A w \in Workers : beat[w].pc = "await" <=> beat[w].answer # None /\ beat[w].received = Never

Init ==
    /\ now = 0 /\ tip = FirstTip /\ credits = StartCredits
    /\ lease = [holder |-> None, expires |-> 0]
    /\ quota = [tier |-> 1, evaluated |-> Never, failures |-> 0, backoff |-> 0]
    /\ polls = {} /\ shown = [e \in Events |-> Never]
    /\ beat = [w \in Workers |-> Idle]
    /\ fired = FALSE
    /\ budget = [e \in Events |-> {}]
    /\ mishaps = 0

-----------------------------------------------------------------------------
(* The lease. *)

\* Mutant: a write does not look at the fence.
HoldsAnyLease(w) == lease.holder # None

\* _assert_lease and _renew_lease.  The owner's name is the same for all beats
\* and the fence counts the grants: the row names the beat of its last grant,
\* until that releases it.  An expired lease that nobody took still counts.
Holds(w) == lease.holder = w

Set(w, b) == beat' = [beat EXCEPT ![w] = b]

\* _release_lease gives back only this beat's own grant.
End(w) ==
    /\ Set(w, Idle)
    /\ lease' = IF Holds(w) THEN [holder |-> None, expires |-> 0] ELSE lease

LoseLease(w) ==
    /\ beat[w].pc \in {"list", "calls", "store", "clear"}
       \/ beat[w].answer \notin {None, "sent"}
    /\ ~Holds(w)
    /\ Set(w, Idle)
    /\ UNCHANGED <<world, tables, credits, budget, mishaps>>

Free == lease.holder = None \/ lease.expires <= now

\* The scheduler starts one beat per tick.  It acquires the lease and loads the
\* state; in backoff it ends at once.
Begin(w) ==
    /\ beat[w].pc = "idle" /\ Free
    /\ ~fired /\ fired' = TRUE
    /\ IF quota.backoff > now
       THEN /\ lease' = [holder |-> None, expires |-> 0]
            /\ UNCHANGED beat
       ELSE /\ lease' = [holder |-> w, expires |-> now + LeaseTicks]
            /\ Set(w, [Idle EXCEPT !.pc = "list", !.began = now])
    /\ UNCHANGED <<now, tip, quota, polls, shown, credits, budget, mishaps>>

-----------------------------------------------------------------------------
(* Listing and planning. *)

\* 2^(failures - 1) base intervals, at most BackoffMax; AUTH_BACKOFF when the
\* key or the plan is refused.  It counts from the time the beat began.
BackedOff(w, halts, least) ==
    LET failures == quota.failures + 1
        delay == IF halts THEN AuthBackoff
                 ELSE Highest(least, Lowest(BackoffMax, 2 ^ (failures - 1)))
    IN  [quota EXCEPT !.failures = failures, !.backoff = beat[w].began + delay]

Mishap == mishaps < MaxMishaps /\ mishaps' = mishaps + 1

ListFails(w) ==
    /\ beat[w].pc = "list" /\ Holds(w) /\ Mishap
    /\ \E halts \in BOOLEAN : quota' = BackedOff(w, halts, 0)
    /\ End(w)
    /\ UNCHANGED <<world, polls, shown, credits, budget>>

\* The budget's counts hold while the tier and the tip do; a plan adds one.
Budgeted(at, tier) ==
    [e \in Events |->
        (IF tier = quota.tier THEN budget[e] ELSE {}) \cup {PaidCalls(e, tip[e], at, Tiers[tier])}]

\* The free list reports the tips and the quota; the quota that is saved is
\* not read again.  The plan is made for the time the beat began.
Plan(w) ==
    LET began == beat[w].began
        to == EvaluateTier(tip, began, credits)
    IN  /\ beat[w].pc = "list" /\ Holds(w)
        /\ quota' = [quota EXCEPT !.tier = to.tier, !.evaluated = to.evaluated]
        /\ Set(w, [beat[w] EXCEPT !.pc = "calls", !.tips = tip, !.remaining = credits,
                                  !.calls = PlannedCalls(tip, began, to.tier, credits)])
        /\ budget' = Budgeted(began, to.tier)
        /\ UNCHANGED <<world, lease, polls, shown, credits, mishaps>>

-----------------------------------------------------------------------------
(* One paid call. *)

First(w) == CHOOSE c \in beat[w].calls : \A d \in beat[w].calls : d = c \/ Before(beat[w].tips, c, d)

\* Mutant: the cost of the call itself is not counted.
GuardsBefore(w, c) == beat[w].remaining >= Floor(c)

Guards(w, c) == beat[w].remaining - CallCost >= Floor(c)

\* Before every call: the lease is renewed, the window is checked again, and
\* the guard reads the quota of the previous answer.
Dispatch(w) ==
    LET b == beat[w]
        c == First(w)
        rest == b.calls \ {c}
        eligible == InWindow(c.window, b.tips[c.event], now) /\ Guards(w, c)
    IN  /\ b.pc = "calls" /\ b.calls # {} /\ Holds(w)
        /\ lease' = [lease EXCEPT !.expires = now + LeaseTicks]
        /\ Set(w, IF eligible
                  THEN [b EXCEPT !.pc = "await", !.calls = rest, !.call = c,
                                 !.answer = "sent"]
                  ELSE [b EXCEPT !.calls = rest])
        /\ UNCHANGED <<world, quota, polls, shown, credits, budget, mishaps>>

\* What one user spends, the others have not seen.
Spend(cost, by, after) ==
    /\ credits' = credits - cost
    /\ beat' = [w \in Workers |->
                  IF w = by THEN after
                  ELSE IF beat[w].pc \in {"idle", "list"} THEN beat[w]
                  ELSE [beat[w] EXCEPT !.unseen = @ + cost]]

Answered(w, answer, remaining) ==
    [beat[w] EXCEPT !.answer = answer, !.remaining = remaining, !.unseen = 0]

\* A populated answer costs CALL_COST, an empty one nothing.
Serve(w) ==
    /\ beat[w].answer = "sent"
    /\ \/ /\ credits >= CallCost
          /\ Spend(CallCost, w, Answered(w, "populated", credits - CallCost))
          /\ UNCHANGED mishaps
       \/ Spend(0, w, Answered(w, "empty", credits)) /\ UNCHANGED mishaps
       \/ /\ Mishap
          /\ \E answer \in {"gone", "failed", "halt"} : Set(w, [beat[w] EXCEPT !.answer = answer])
          /\ UNCHANGED credits
    /\ UNCHANGED <<world, tables, budget>>

Row(w, outcome, completed) ==
    LET b == beat[w]
    IN  [event |-> b.call.event, tip |-> b.tips[b.call.event], completed |-> completed,
         outcome |-> outcome, closing |-> Closing(b.call)]

\* Mutant: the time of receipt is not reset.
DoneKeepsReceipt(b) == [b EXCEPT !.pc = "calls", !.call = NoCall, !.answer = None]

Done(b) == [b EXCEPT !.pc = "calls", !.call = NoCall, !.answer = None, !.received = Never]

Crossed(w) == now >= beat[w].tips[beat[w].call.event]

\* A populated answer is written to the ledger before anything else; one that
\* crossed the tip is a failed poll, and its quotes are dropped.
Receive(w) ==
    LET b == beat[w]
        paid == b.answer = "populated" /\ ~Crossed(w)
    IN  /\ b.pc = "await" /\ b.answer \in {"populated", "empty"} /\ Holds(w)
        /\ polls' = IF paid THEN polls \cup {Row(w, "complete", now)} ELSE polls
        /\ budget' = IF paid /\ b.tips[b.call.event] = tip[b.call.event]
                     THEN [budget EXCEPT ![b.call.event] = {n - 1 : n \in @}] ELSE budget
        /\ Set(w, IF Crossed(w) THEN Done(b) ELSE [b EXCEPT !.pc = "store", !.received = now])
        /\ UNCHANGED <<world, lease, quota, shown, credits, mishaps>>

\* A failed poll is recorded; an unknown event is passed over, any other error
\* ends the beat in backoff.
CallFailed(w) ==
    /\ beat[w].pc = "await" /\ beat[w].answer \in {"gone", "failed", "halt"} /\ Holds(w)
    /\ IF beat[w].answer = "gone"
       THEN Set(w, Done(beat[w])) /\ UNCHANGED <<quota, lease>>
       ELSE quota' = BackedOff(w, beat[w].answer = "halt", 0) /\ End(w)
    /\ UNCHANGED <<world, polls, shown, credits, budget, mishaps>>

\* Mutant: quotes are stored whoever holds the lease.
StoresAlways(w) == TRUE

Stores(w) == Holds(w)

\* publish_poll stores the quotes; an empty answer is recorded and contradicts
\* nothing.
Store(w) ==
    LET b == beat[w]
    IN  /\ b.pc = "store" /\ Stores(w)
        /\ IF b.answer = "empty"
           THEN polls' = polls \cup {Row(w, "empty", now)} /\ UNCHANGED shown
           ELSE shown' = [shown EXCEPT ![b.call.event] = b.received] /\ UNCHANGED polls
        /\ Set(w, [b EXCEPT !.pc = "clear"])
        /\ UNCHANGED <<world, lease, quota, credits, budget, mishaps>>

\* storage_error: the paid row stays and the next beats back off.
StoreFails(w) ==
    /\ beat[w].pc = "store" /\ beat[w].answer = "populated" /\ Holds(w) /\ Mishap
    /\ quota' = BackedOff(w, FALSE, BackoffMax)
    /\ End(w)
    /\ UNCHANGED <<world, polls, shown, credits, budget>>

\* Failures are cleared; with almost no credits left the collector halts.
Clear(w) ==
    LET b == beat[w]
        cleared == [quota EXCEPT !.failures = 0, !.backoff = 0]
    IN  /\ b.pc = "clear" /\ Holds(w)
        /\ IF b.remaining < HaltBelow
           THEN quota' = [cleared EXCEPT !.tier = 4, !.evaluated = now] /\ End(w)
           ELSE quota' = cleared /\ Set(w, Done(b)) /\ UNCHANGED lease
        /\ UNCHANGED <<world, polls, shown, credits, budget, mishaps>>

Finish(w) ==
    /\ beat[w].pc = "calls" /\ beat[w].calls = {}
    /\ End(w)
    /\ UNCHANGED <<world, quota, polls, shown, credits, budget, mishaps>>

-----------------------------------------------------------------------------
(* Faults and the world. *)

\* An exception ends the beat and releases the lease (run_once).
Fault(w) ==
    /\ beat[w].pc # "idle" /\ beat[w].answer # "sent" /\ Mishap
    /\ End(w)
    /\ UNCHANGED <<world, quota, polls, shown, credits, budget>>

Crash(w) ==
    /\ beat[w].pc # "idle" /\ beat[w].answer # "sent" /\ Mishap
    /\ Set(w, Idle)
    /\ UNCHANGED <<world, tables, credits, budget>>

Tick ==
    /\ now < MaxTime
    /\ now' = now + 1
    /\ fired' = FALSE
    /\ UNCHANGED <<tip, tables, credits, beat, budget, mishaps>>

\* Another user of the key.
OthersSpend ==
    /\ credits > 0 /\ Mishap
    /\ Spend(1, None, Idle)
    /\ UNCHANGED <<world, tables, budget>>

Postpone(e) ==
    /\ now < tip[e] /\ Mishap
    /\ tip' = [tip EXCEPT ![e] = @ + Postponement]
    /\ budget' = [budget EXCEPT ![e] = {}]
    /\ UNCHANGED <<now, fired, tables, credits, beat>>

Working(w) ==
    \/ LoseLease(w) \/ Begin(w) \/ ListFails(w) \/ Plan(w)
    \/ Dispatch(w) \/ Serve(w) \/ Receive(w) \/ CallFailed(w)
    \/ Store(w) \/ StoreFails(w) \/ Clear(w) \/ Finish(w) \/ Fault(w) \/ Crash(w)

Next ==
    \/ \E w \in Workers : Working(w)
    \/ Tick \/ OthersSpend
    \/ \E e \in Events : Postpone(e)

Spec == Init /\ [][Next]_vars

-----------------------------------------------------------------------------
(* Properties. *)

SlotOf(t, at) ==
    {<<i, IF Windows[i].once THEN 0 ELSE Slot(i, t, at)>> : i \in {j \in Indices : InWindow(j, t, at)}}

(* "A fault after the purchase never causes a second one": through beats   *)
(* that outlive their lease, crash or fail after a paid answer arrived, no *)
(* slot of a game, and neither the night nor the closing window, gets two  *)
(* populated polls in the ledger (run, plan_cycle).  The slots are those   *)
(* of the tip the beat was told; one that moves meanwhile moves them.      *)
SlotBoughtOnce ==
    [][\A w \in Workers :
          beat[w].pc = "await" /\ beat'[w].pc = "store" /\ beat[w].answer = "populated" =>
              LET e == beat[w].call.event
                  t == beat[w].tips[e]
              IN  \A q \in polls : q.event = e /\ q.outcome = "complete" =>
                      SlotOf(t, q.completed) \cap SlotOf(t, now) = {}]_vars

(* "x-requests-remaining never reaches 0 because of this job": a call      *)
(* leaves its floor, up to what others spent since the worker last saw the *)
(* quota; a worker never guards with an older one (the guard of run).      *)
FloorKept ==
    [][\A w \in Workers : beat[w].answer = "sent" /\ beat'[w].answer = "populated" =>
          credits' + beat[w].unseen >= Floor(beat[w].call)]_vars

(* The quotes an event shows never go back to an older poll, although a    *)
(* beat may resume with its answer after another took over (the fence).    *)
ShownInOrder == [][\A e \in Events : shown'[e] >= shown[e]]_vars

\* The tip moved, by less than the difference of two games, after its closing poll.
Restarted(e) == \E r \in polls : r.event = e /\ r.closing /\ r.tip # tip[e] /\ r.tip - tip[e] \in -SameTip .. SameTip

(* "This can count high, never low": while the tier holds and the tip does *)
(* not move, the paid polls of a game stay within what _paid_calls counted *)
(* for it in every earlier plan.  Not so for a game that was delayed a     *)
(* little after its closing poll: the budget takes it as closed (_upcoming)*)
(* and the plan polls its windows again (_event_states).                   *)
BudgetNeverLow == \A e \in Events : ~Restarted(e) => \A n \in budget[e] : n >= 0

=============================================================================
