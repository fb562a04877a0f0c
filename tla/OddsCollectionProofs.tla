------------------------ MODULE OddsCollectionProofs ------------------------
(***************************************************************************)
(* Proofs about OddsCollection, for any number of overlapping beats, any   *)
(* games, polling windows and credits.                                     *)
(*                                                                         *)
(* A beat that holds the lease is the only writer, so what it read of the  *)
(* ledger when it planned still holds when it writes (HeldOK).  What a     *)
(* beat knows of the credits is off by at most what others spent since it  *)
(* last saw them, whether it still holds the lease or not (BeatOK).        *)
(*                                                                         *)
(* The budget: Remaining bounds the paid calls a game can still get from   *)
(* the time a beat began, given the ledger.  It never grows, a paid poll   *)
(* takes one from it (WantedInv: the holder's calls are still due), and    *)
(* every count of the budget covers it (CountsInv).                        *)
(***************************************************************************)
EXTENDS OddsCollection, FiniteLemmas, TLAPS

\* A beat plans one call for a game.
OneEach(calls) == \A c, d \in calls : c.event = d.event => c = d

\* What a beat knows of itself and of the credits that are left.
BeatOK(b, at, left) ==
    /\ b.began \in Nat /\ b.began <= at
    /\ OneEach(b.calls)
    /\ b.pc \in {"idle", "list", "calls"} => b.answer = None /\ b.received = Never
    /\ b.pc = "await" => b.answer # None /\ b.received = Never
    /\ b.pc \in {"store", "clear"} => b.answer \in {"populated", "empty"} /\ b.received \in 0 .. at
    /\ b.pc \in {"await", "store", "clear"} =>
          b.call \in Call /\ \A d \in b.calls : d.event # b.call.event
    /\ b.pc \notin {"idle", "list"} => b.remaining <= left + b.unseen
    /\ b.answer = "sent" => b.remaining - CallCost >= Floor(b.call)

Pending(b) == IF b.pc = "await" THEN b.calls \cup {b.call} ELSE b.calls

\* No populated poll of the game is of the slot that a planned call is for.
Unbought(b, c, ledger) ==
    LET i == c.window
        t == b.tips[c.event]
    IN  /\ InWindow(i, t, b.began)
        /\ \A q \in ledger : q.event = c.event =>
              /\ q.completed <= b.began
              /\ q.outcome = "complete" =>
                    q.completed < IF Windows[i].once THEN Opens(i, t)
                                  ELSE Opens(i, t) + Slot(i, t, b.began) * Windows[i].cadence - Slack

\* What the beat that holds the lease knows of the tables.
HeldOK(b, ledger, latest) ==
    /\ b.pc = "list" => \A q \in ledger : q.completed <= b.began
    /\ \A c \in Pending(b) : Unbought(b, c, ledger)
    /\ b.pc = "store" => \A e \in Events : latest[e] <= b.received

TablesOK(at, ledger, latest) ==
    /\ \A q \in ledger : q.completed <= at
    /\ \A e \in Events : latest[e] <= at

IInv ==
    /\ TypeOK
    /\ TablesOK(now, polls, shown)
    /\ \A w \in Workers : BeatOK(beat[w], now, credits)
    /\ \A w \in Workers : Holds(w) => HeldOK(beat[w], polls, shown)

-----------------------------------------------------------------------------
(***************************************************************************)
(* The schedule.                                                           *)
(***************************************************************************)

LEMMA ConstantTypes ==
    /\ Slack \in Nat /\ Reserve \in Nat /\ HaltBelow \in Nat /\ BackoffMax \in Nat
    /\ AuthBackoff \in Nat /\ Postponement \in Nat /\ SameTip \in Nat /\ StartCredits \in Nat
    /\ CallCost \in Nat \ {0} /\ LeaseTicks \in Nat \ {0} /\ TierTicks \in Nat \ {0}
    /\ MaxTime \in Nat /\ MaxMishaps \in Nat
BY OddsAssumption

LEMMA WindowTypes ==
    /\ Len(Windows) \in Nat /\ Indices \subseteq Nat
    /\ \A i \in Indices : /\ Windows[i].opens \in Nat /\ Windows[i].closes \in Nat
                          /\ Windows[i].cadence \in Nat
                          /\ ~Windows[i].once => Windows[i].cadence \in Nat \ {0}
<1> DEFINE R == [kind : STRING, opens : Nat, closes : Nat, cadence : Nat, once : BOOLEAN,
                 tiers : SUBSET STRING]
<1>1. Windows \in Seq(R)
  BY OddsAssumption
<1>2. Len(Windows) \in Nat /\ \A i \in 1 .. Len(Windows) : Windows[i] \in R
  <2> HIDE DEF R
  <2> QED
    BY <1>1
<1>3. \A i \in 1 .. Len(Windows) : Windows[i].once \/ Windows[i].cadence > 0
  BY OddsAssumption
<1>4. ASSUME NEW i \in 1 .. Len(Windows)
      PROVE  /\ Windows[i].opens \in Nat /\ Windows[i].closes \in Nat
             /\ Windows[i].cadence \in Nat
  <2>1. Windows[i] \in R
    BY <1>2
  <2> QED
    BY <2>1
<1> QED
  BY <1>2, <1>3, <1>4 DEF Indices

\* A window is over when one of higher precedence opens.
LEMMA ClosesBefore ==
    ASSUME NEW i \in Indices, NEW t \in Nat
    PROVE  /\ Opens(i, t) \in Int /\ Closes(i, t) \in Int
           /\ \A j \in Indices : j < i => Closes(i, t) <= Opens(j, t)
<1> DEFINE f == [j \in 1 .. i - 1 |-> Opens(j, t)]
           O == {f[j] : j \in 1 .. i - 1}
           ends == {t - Windows[i].closes} \cup O
<1>1. \A j \in Indices : Opens(j, t) \in Int
  BY WindowTypes DEF Opens
<1>2. i \in Nat /\ i - 1 \in Int /\ 1 .. i - 1 \subseteq Indices
  BY WindowTypes DEF Indices
<1>3. IsFiniteSet(ends)
  <2>1. IsFiniteSet(1 .. i - 1)
    BY <1>2, FS_Interval
  <2>2. IsFiniteSet(O)
    BY <2>1, FiniteImage
  <2>3. IsFiniteSet({t - Windows[i].closes})
    BY FS_Singleton
  <2> HIDE DEF O
  <2> QED
    BY <2>2, <2>3, FS_Union
<1>4. ends \subseteq Int
  BY <1>1, <1>2, WindowTypes
<1>5. O = {Opens(j, t) : j \in 1 .. i - 1}
  OBVIOUS
<1>6. \E c \in ends : \A d \in ends : c <= d
  <2>1. ends # {}
    OBVIOUS
  <2>2. ends \subseteq Int => \E c \in ends : \A d \in ends : c <= d
    <3> HIDE DEF ends
    <3> QED
      BY <1>3, <2>1, FiniteHasMin
  <2> HIDE DEF ends
  <2> QED
    BY <1>4, <2>2
<1>7. Closes(i, t) = CHOOSE c \in ends : \A d \in ends : c <= d
  BY <1>5, Zenon DEF Closes
<1>8. Closes(i, t) \in ends /\ \A d \in ends : Closes(i, t) <= d
  <2> HIDE DEF ends
  <2> QED
    BY <1>6, <1>7, Zenon
<1>9. ASSUME NEW j \in Indices, j < i PROVE Opens(j, t) \in ends
  BY <1>2, <1>5, <1>9, WindowTypes DEF Indices
<1> HIDE DEF ends
<1> QED
  BY <1>1, <1>4, <1>8, <1>9

\* The windows of a game do not overlap.
LEMMA OneWindow ==
    ASSUME NEW i \in Indices, NEW j \in Indices, NEW t \in Nat, NEW at \in Int,
           InWindow(i, t, at), InWindow(j, t, at)
    PROVE  i = j
<1>1. i \in Nat /\ j \in Nat
  BY WindowTypes
<1>2. /\ Opens(i, t) \in Int /\ Closes(i, t) \in Int /\ Opens(j, t) \in Int /\ Closes(j, t) \in Int
      /\ j < i => Closes(i, t) <= Opens(j, t)
      /\ i < j => Closes(j, t) <= Opens(i, t)
  BY ClosesBefore
<1> QED
  BY <1>1, <1>2 DEF InWindow

\* Whole numbers of cadences.
LEMMA Division ==
    ASSUME NEW d \in Nat \ {0}
    PROVE  /\ \A x \in Int : x \div d \in Int
           /\ \A x, y \in Int : x <= y => x \div d <= y \div d
           /\ \A x, k \in Int : x < k * d => x \div d < k
OBVIOUS

\* Slots are numbered in the order of time, and what is completed before the
\* slack of a slot is of an earlier one.
LEMMA SlotOrder ==
    ASSUME NEW i \in Indices, ~Windows[i].once, NEW t \in Nat, NEW x \in Int, NEW y \in Int, x <= y
    PROVE  /\ Slots(i, t) \in Int /\ Slot(i, t, x) \in Int /\ Slot(i, t, y) \in Int
           /\ Slot(i, t, x) <= Slot(i, t, y)
           /\ \A z \in Int : z < Opens(i, t) + Slot(i, t, x) * Windows[i].cadence - Slack
                 => Slot(i, t, z) \in Int /\ Slot(i, t, z) < Slot(i, t, y)
<1> DEFINE d == Windows[i].cadence
           o == Opens(i, t)
           last == Slots(i, t) - 1
           q(v) == (v + Slack - o) \div d
<1>1. d \in Nat \ {0} /\ o \in Int /\ Closes(i, t) \in Int /\ Slack \in Nat
  BY WindowTypes, ClosesBefore, ConstantTypes
<1>2. Slots(i, t) \in Int /\ last \in Int
  BY <1>1, Division DEF Slots
<1>3. \A v \in Int : q(v) \in Int /\ Slot(i, t, v) = IF q(v) < last THEN q(v) ELSE last
  BY <1>1, Division DEF Slot, Lowest
<1>4. \A v \in Int : Slot(i, t, v) \in Int
  BY <1>2, <1>3
<1>5. q(x) <= q(y)
  <2>1. x + Slack - o \in Int /\ y + Slack - o \in Int /\ x + Slack - o <= y + Slack - o
    BY <1>1
  <2> QED
    BY <1>1, <2>1, Division
<1>6. Slot(i, t, x) <= Slot(i, t, y)
  BY <1>2, <1>3, <1>5
<1>7. ASSUME NEW z \in Int, z < o + Slot(i, t, x) * d - Slack
      PROVE  Slot(i, t, z) < Slot(i, t, y)
  <2>1. PICK k \in Int : k = Slot(i, t, x)
    BY <1>4
  <2>2. z + Slack - o < k * d /\ z + Slack - o \in Int
    BY <1>1, <1>7, <2>1
  <2>3. q(z) < k
    BY <1>1, <2>2, Division
  <2> HIDE DEF q, last
  <2> QED
    BY <1>2, <1>3, <1>4, <1>6, <2>1, <2>3
<1> QED
  BY <1>2, <1>4, <1>6, <1>7

-----------------------------------------------------------------------------
(***************************************************************************)
(* The ledger, the budget and the plan.                                    *)
(***************************************************************************)

\* The latest of the times of finitely many ticks.
LEMMA LatestBounds ==
    ASSUME NEW T \in SUBSET Nat, NEW at \in Nat, \A x \in T : x <= at
    PROVE  \A x \in T : Latest(T) \in T /\ Latest(T) \in Nat /\ x <= Latest(T)
<1> SUFFICES ASSUME NEW z \in T PROVE Latest(T) \in T /\ \A x \in T : x <= Latest(T)
  OBVIOUS
<1>1. IsFiniteSet(T)
  <2>1. T \subseteq 0 .. at /\ IsFiniteSet(0 .. at)
    BY FS_Interval
  <2> QED
    BY <2>1, FS_Subset
<1>2. \E x \in T : \A y \in T : y <= x
  <2>1. T # {}
    OBVIOUS
  <2>2. T \subseteq Int => \E x \in T : \A y \in T : y <= x
    BY <1>1, <2>1, FiniteHasMax
  <2> QED
    BY <2>2
<1>3. Latest(T) \in T /\ \A y \in T : y <= Latest(T)
  BY <1>2 DEF Latest
<1> QED
  BY <1>3

\* The planner's view of the polls of a game.
LEMMA LastPollBounds ==
    ASSUME TypeOK, NEW at \in Nat, \A q \in polls : q.completed <= at, NEW q \in polls
    PROVE  /\ LastPoll(q.event) \in Nat /\ q.completed <= LastPoll(q.event)
           /\ q.outcome = "complete" => /\ LastPopulated(q.event) \in Nat
                                        /\ q.completed <= LastPopulated(q.event)
<1> DEFINE T == {r.completed : r \in {p \in polls : p.event = q.event}}
           S == {r.completed : r \in {p \in polls : p.event = q.event /\ p.outcome = "complete"}}
<1>1. \A r \in polls : r.completed \in Nat
  BY DEF TypeOK, Poll
<1>2. T \in SUBSET Nat /\ S \in SUBSET Nat /\ (\A x \in T : x <= at) /\ \A x \in S : x <= at
  BY <1>1
<1>3. q.completed \in T /\ (q.outcome = "complete" => q.completed \in S)
  OBVIOUS
<1>4. LastPoll(q.event) = Latest(T) /\ LastPopulated(q.event) = Latest(S)
  BY Zenon DEF LastPoll, LastPopulated
<1> HIDE DEF T, S
<1>5. \A x \in T : Latest(T) \in Nat /\ x <= Latest(T)
  BY <1>2, LatestBounds
<1>6. \A x \in S : Latest(S) \in Nat /\ x <= Latest(S)
  BY <1>2, LatestBounds
<1> QED
  BY <1>3, <1>4, <1>5, <1>6

\* The running sums of a number for each window; the total is the last.
Sums(c, f) == \A i \in 0 .. Len(Windows) : f[i] = IF i = 0 THEN 0 ELSE f[i - 1] + c[i]
SumsTo(c, k) == \E f : Sums(c, f) /\ k = f[Len(Windows)]
Total(c) == CHOOSE k \in Int : SumsTo(c, k)

LEMMA TotalsCompare ==
    ASSUME NEW c \in [Indices -> Int], NEW d \in [Indices -> Int], \A i \in Indices : c[i] <= d[i],
           NEW k \in Int, NEW m \in Int, SumsTo(c, k), SumsTo(d, m)
    PROVE  /\ k <= m
           /\ \A i \in Indices : c[i] + 1 <= d[i] => k + 1 <= m
<1>1. PICK f : Sums(c, f) /\ k = f[Len(Windows)]
  BY DEF SumsTo
<1>2. PICK g : Sums(d, g) /\ m = g[Len(Windows)]
  BY DEF SumsTo
<1>3. Len(Windows) \in Nat /\ Indices = 1 .. Len(Windows)
  BY WindowTypes DEF Indices
<1>4. k <= m /\ \A i \in Indices : c[i] + 1 <= d[i] => k + 1 <= m
  BY <1>1, <1>2, <1>3, SumsCompare DEF Sums
<1> QED
  BY <1>4

LEMMA TotalIsSum ==
    ASSUME NEW c \in [Indices -> Int]
    PROVE  Total(c) \in Int /\ SumsTo(c, Total(c))
<1>1. Len(Windows) \in Nat /\ Indices = 1 .. Len(Windows)
  BY WindowTypes DEF Indices
<1>2. PICK f \in [0 .. Len(Windows) -> Int] : Sums(c, f)
  BY <1>1, SumsExist DEF Sums
<1>3. SumsTo(c, f[Len(Windows)]) /\ f[Len(Windows)] \in Int
  BY <1>1, <1>2 DEF SumsTo
<1> QED
  BY <1>3 DEF Total

Counts(e, t, at, tier) == [i \in Indices |-> Counted(i, e, t, at, tier)]

\* The count of the budget adds up what it counts of each window.
LEMMA PaidCallsSum ==
    ASSUME NEW e \in Events, NEW t \in Nat, NEW at \in Nat, NEW tier
    PROVE  /\ \A i \in Indices : Counted(i, e, t, at, tier) \in Int
           /\ \E k \in Int : /\ SumsTo(Counts(e, t, at, tier), k)
                           /\ PaidCalls(e, t, at, tier) = IF ClosedAbout(e, t) THEN 0 ELSE k
<1> DEFINE n == Len(Windows)
           c == [i \in Indices |-> Counted(i, e, t, at, tier)]
           Sum(f) == f = [i \in 0 .. n |-> IF i = 0 THEN 0 ELSE f[i - 1] + Counted(i, e, t, at, tier)]
           s == CHOOSE f : Sum(f)
<1>1. ASSUME NEW i \in Indices PROVE Counted(i, e, t, at, tier) \in Int
  <2>1. ASSUME ~Windows[i].once PROVE Slots(i, t) - Highest(Slot(i, t, at), 0) \in Int
    <3>1. at \in Int /\ at <= at
      OBVIOUS
    <3>2. Slots(i, t) \in Int /\ Slot(i, t, at) \in Int
      <4> HIDE DEF n, c, Sum, s
      <4> QED
        BY <2>1, <3>1, SlotOrder
    <3> QED
      BY <3>2 DEF Highest
  <2> QED
    BY <2>1 DEF Counted
<1>2. n \in Nat /\ Indices = 1 .. n /\ c \in [1 .. n -> Int]
  BY <1>1, WindowTypes DEF Indices
<1>3. \A i \in 0 .. n : i # 0 => c[i] = Counted(i, e, t, at, tier)
  BY <1>2
<1>4. \E f : Sum(f)
  <2>1. PICK f \in [0 .. n -> Int] : \A i \in 0 .. n : f[i] = IF i = 0 THEN 0 ELSE f[i - 1] + c[i]
    <3> HIDE DEF c, n
    <3> QED
      BY <1>2, SumsExist
  <2>2. \A i \in 0 .. n : f[i] = IF i = 0 THEN 0 ELSE f[i - 1] + Counted(i, e, t, at, tier)
    BY <2>1, <1>3
  <2>3. Sum(f)
    BY <2>1, <2>2
  <2> QED
    BY <2>3
<1>5. Sum(s)
  <2> HIDE DEF Sum
  <2> QED
    BY <1>4
<1>6. PaidCalls(e, t, at, tier) = IF ClosedAbout(e, t) THEN 0 ELSE s[n]
  BY Zenon DEF PaidCalls
<1>7. PICK g : g = s
  OBVIOUS
<1> HIDE DEF s
<1>8. Sums(c, g)
  <2>1. g = [i \in 0 .. n |-> IF i = 0 THEN 0 ELSE g[i - 1] + Counted(i, e, t, at, tier)]
    BY <1>5, <1>7
  <2> HIDE DEF c
  <2> QED
    BY <2>1, <1>3 DEF Sums
<1>9. g[n] \in Int
  <2> HIDE DEF c
  <2> QED
    BY <1>2, <1>8, SumsAreInt DEF Sums
<1>10. SumsTo(c, g[n])
  <2> HIDE DEF c
  <2> QED
    BY <1>8 DEF SumsTo
<1> QED
  BY <1>1, <1>6, <1>7, <1>9, <1>10 DEF Counts

LEMMA PaidCallsInt ==
    ASSUME NEW e \in Events, NEW t \in Nat, NEW at \in Nat, NEW tier
    PROVE  PaidCalls(e, t, at, tier) \in Int
<1>1. PICK k \in Int : PaidCalls(e, t, at, tier) = IF ClosedAbout(e, t) THEN 0 ELSE k
  BY PaidCallsSum
<1> QED
  BY <1>1

\* The calls of a plan have a first one.
LEMMA FirstIsCall ==
    ASSUME NEW b \in Beat, OneEach(b.calls), b.calls # {}
    PROVE  \E c \in b.calls : \A d \in b.calls : d = c \/ Before(b.tips, c, d)
<1>1. /\ b.calls \subseteq Call /\ b.tips \in [Events -> Nat]
      /\ \A c \in b.calls : c.event \in Nat /\ b.tips[c.event] \in Nat
  BY OddsAssumption DEF Beat, Call
<1>2. PICK B \in SUBSET b.calls :
         /\ B # {}
         /\ \A c \in B, d \in b.calls : d \in B \/ (Closing(c) /\ ~Closing(d))
         /\ \A c, d \in B : Closing(c) = Closing(d)
  <2> DEFINE A == {c \in b.calls : Closing(c)}
  <2>1. CASE A = {}
    <3>1. \A c, d \in b.calls : Closing(c) = Closing(d)
      BY <2>1 DEF Closing
    <3> QED
      BY <3>1
  <2>2. CASE A # {}
    <3>1. \A c, d \in A : Closing(c) = Closing(d)
      BY DEF Closing
    <3> QED
      BY <2>2, <3>1
  <2> QED
    BY <2>1, <2>2
<1> DEFINE T == {b.tips[c.event] : c \in B}
<1>3. PICK m \in T : \A x \in T : m <= x
  <2>1. T \in SUBSET Nat /\ T # {}
    BY <1>1, <1>2
  <2> HIDE DEF T
  <2> QED
    BY <2>1, NatHasMin
<1> DEFINE D == {c \in B : b.tips[c.event] = m}
           E == {c.event : c \in D}
<1>4. PICK k \in E : \A x \in E : k <= x
  <2>1. E \in SUBSET Nat /\ E # {}
    BY <1>1, <1>2, <1>3
  <2> HIDE DEF E
  <2> QED
    BY <2>1, NatHasMin
<1>5. PICK c \in D : c.event = k
  BY <1>4
<1>6. ASSUME NEW d \in b.calls, d # c PROVE Before(b.tips, c, d)
  <2>1. c \in b.calls /\ c \in B /\ b.tips[c.event] = m /\ d.event # c.event
    BY <1>2, <1>5, <1>6 DEF OneEach
  <2>2. CASE d \notin B
    BY <1>2, <2>1, <2>2 DEF Before
  <2>3. CASE d \in B
    <3>1. Closing(c) = Closing(d)
      BY <1>2, <2>1, <2>3
    <3>2. m <= b.tips[d.event]
      BY <1>3, <2>3
    <3>3. b.tips[d.event] = m => k < d.event
      <4>1. SUFFICES ASSUME b.tips[d.event] = m PROVE k < d.event
        OBVIOUS
      <4>2. k <= d.event
        BY <1>4, <2>3, <4>1
      <4>3. k \in Nat /\ d.event \in Nat
        BY <1>1, <1>5, <2>1
      <4> QED
        BY <1>5, <2>1, <4>2, <4>3
    <3>4. m \in Nat /\ b.tips[d.event] \in Nat
      BY <1>1, <2>1
    <3> QED
      BY <1>5, <2>1, <3>1, <3>2, <3>3, <3>4 DEF Before
  <2> QED
    BY <2>2, <2>3
<1> QED
  BY <1>2, <1>5, <1>6

LEMMA FirstPlanned ==
    ASSUME NEW w \in Workers, beat[w] \in Beat, OneEach(beat[w].calls), beat[w].calls # {}
    PROVE  First(w) \in beat[w].calls /\ First(w) \in Call
<1>1. \E c \in beat[w].calls : \A d \in beat[w].calls : d = c \/ Before(beat[w].tips, c, d)
  BY FirstIsCall
<1>2. First(w) \in beat[w].calls
  BY <1>1, Zenon DEF First
<1> QED
  BY <1>2 DEF Beat

\* The tier of a plan.
LEMMA TierTypes ==
    ASSUME TypeOK, NEW tips, NEW at \in Nat, NEW remaining
    PROVE  /\ EvaluateTier(tips, at, remaining).tier \in 1 .. 4
           /\ EvaluateTier(tips, at, remaining).evaluated \in Nat \cup {Never}
<1>1. quota.tier \in 1 .. 4 /\ quota.evaluated \in Nat \cup {Never}
  BY DEF TypeOK
<1>2. TargetTier(tips, at, remaining) \in 1 .. 4
  BY DEF TargetTier
<1>3. StepTier(quota.tier, TargetTier(tips, at, remaining)) \in 1 .. 4
  BY <1>1, <1>2 DEF StepTier
<1> QED
  BY <1>1, <1>3 DEF EvaluateTier

\* A plan made from the ledger of its own moment buys no slot again.
LEMMA PlanUnbought ==
    ASSUME TypeOK, NEW b \in Beat, b.began \in Nat, b.tips = tip,
           \A q \in polls : q.completed <= b.began,
           NEW tier, NEW remaining, b.calls = PlannedCalls(tip, b.began, tier, remaining)
    PROVE  OneEach(b.calls) /\ \A c \in b.calls : Unbought(b, c, polls)
<1>1. b.calls \subseteq Due(tip, b.began, tier)
  BY DEF PlannedCalls
<1>2. ASSUME NEW c \in b.calls
      PROVE  /\ c.event \in Events /\ c.window \in Indices /\ tip[c.event] \in Nat
             /\ c = [event |-> c.event, window |-> c.window]
             /\ InWindow(c.window, tip[c.event], b.began)
             /\ ~PopulatedIn(c.window, tip[c.event], LastPopulated(c.event))
             /\ SlotDue(c.event, c.window, tip[c.event], b.began)
  <2>1. c \in Due(tip, b.began, tier)
    BY <1>1
  <2>2. c \in [event : Events, window : Indices]
    BY <2>1 DEF Due
  <2> QED
    BY <2>1, <2>2 DEF Due, TypeOK
<1>3. ASSUME NEW c \in b.calls, NEW d \in b.calls, c.event = d.event PROVE c = d
  <2>1. c.window = d.window
    BY <1>2, <1>3, OneWindow
  <2> QED
    BY <1>2, <1>3, <2>1
<1>4. ASSUME NEW c \in b.calls, NEW q \in polls, q.event = c.event, q.outcome = "complete"
      PROVE  q.completed < IF Windows[c.window].once THEN Opens(c.window, tip[c.event])
                           ELSE Opens(c.window, tip[c.event])
                                + Slot(c.window, tip[c.event], b.began) * Windows[c.window].cadence - Slack
  <2>1. /\ LastPoll(c.event) \in Nat /\ q.completed <= LastPoll(c.event)
        /\ LastPopulated(c.event) \in Nat /\ q.completed <= LastPopulated(c.event)
        /\ q.completed \in Nat
    BY <1>4, LastPollBounds DEF TypeOK, Poll
  <2>2. Opens(c.window, tip[c.event]) \in Int
    BY <1>2, ClosesBefore
  <2>3. CASE Windows[c.window].once
    BY <1>2, <2>1, <2>2, <2>3 DEF PopulatedIn, Never
  <2>4. CASE ~Windows[c.window].once
    <3>1. Slot(c.window, tip[c.event], b.began) \in Int
      BY <1>2, <2>4, SlotOrder
    <3>2. Windows[c.window].cadence \in Nat \ {0} /\ Slack \in Nat
      BY <1>2, <2>4, WindowTypes, ConstantTypes
    <3>3. PICK k \in Int : k = Slot(c.window, tip[c.event], b.began) * Windows[c.window].cadence
      BY <3>1, <3>2
    <3>4. LastPoll(c.event) < Opens(c.window, tip[c.event]) + k - Slack
      BY <1>2, <2>1, <3>2, <3>3 DEF SlotDue, Never
    <3> QED
      BY <2>1, <2>2, <2>4, <3>2, <3>3, <3>4
  <2> QED
    BY <2>3, <2>4
<1>5. ASSUME NEW c \in b.calls PROVE Unbought(b, c, polls)
  BY <1>2, <1>4 DEF Unbought
<1> QED
  BY <1>3, <1>5 DEF OneEach

-----------------------------------------------------------------------------
(***************************************************************************)
(* The steps of a beat.                                                    *)
(***************************************************************************)

Quota == [tier : 1 .. 4, evaluated : Nat \cup {Never}, failures : Nat, backoff : Nat]
Grant == [holder : Workers \cup {None}, expires : Nat]

TableTypes ==
    /\ now \in 0 .. MaxTime /\ tip \in [Events -> Nat]
    /\ credits \in Nat
    /\ lease \in Grant /\ quota \in Quota /\ polls \subseteq Poll
    /\ shown \in [Events -> Nat \cup {Never}]
    /\ fired \in BOOLEAN /\ budget \in [Events -> SUBSET Int]
    /\ mishaps \in 0 .. MaxMishaps

LEMMA TypeParts ==
    /\ TypeOK => TableTypes /\ beat \in [Workers -> Beat]
    /\ TableTypes' /\ beat' \in [Workers -> Beat]
          /\ (\A w \in Workers : BeatOK(beat[w], now, credits)') => TypeOK'
<1>1. TypeOK => TableTypes /\ beat \in [Workers -> Beat]
  BY DEF TypeOK, TableTypes, Quota, Grant
<1>2. ASSUME NEW w \in Workers, beat'[w] \in Beat, BeatOK(beat'[w], now', credits')
      PROVE  beat'[w].pc = "await" <=> beat'[w].answer # None /\ beat'[w].received = Never
  BY <1>2 DEF Beat, BeatOK, Never
<1> QED
  BY <1>1, <1>2 DEF TypeOK, TableTypes, Quota, Grant

\* The state of one beat changes; only the holder of the lease writes.
OnlyHolder(w) ==
    \A v \in Workers \ {w} :
        lease'.holder = v => lease.holder = v /\ polls' = polls /\ shown' = shown

LEMMA OneBeat ==
    ASSUME IInv, NEW w \in Workers, NEW r \in Beat, beat' = [beat EXCEPT ![w] = r],
           now' = now, credits' = credits, BeatOK(r, now, credits),
           OnlyHolder(w), lease'.holder = w => HeldOK(r, polls', shown')
    PROVE  /\ beat' \in [Workers -> Beat]
           /\ \A v \in Workers : BeatOK(beat[v], now, credits)'
           /\ \A v \in Workers : (Holds(v) => HeldOK(beat[v], polls, shown))'
<1>1. beat \in [Workers -> Beat]
  BY TypeParts DEF IInv
<1>2. beat' \in [Workers -> Beat] /\ beat'[w] = r /\ \A v \in Workers : v # w => beat'[v] = beat[v]
  BY <1>1
<1>3. ASSUME NEW v \in Workers PROVE BeatOK(beat'[v], now', credits')
  BY <1>2 DEF IInv
<1>4. ASSUME NEW v \in Workers, lease'.holder = v PROVE HeldOK(beat'[v], polls', shown')
  BY <1>2, <1>4 DEF IInv, OnlyHolder, Holds
<1> QED
  BY <1>2, <1>3, <1>4 DEF Holds

LEMMA OneBeatInv ==
    ASSUME IInv, NEW w \in Workers, NEW r \in Beat, beat' = [beat EXCEPT ![w] = r],
           now' = now, credits' = credits, BeatOK(r, now, credits),
           OnlyHolder(w), lease'.holder = w => HeldOK(r, polls', shown'),
           TableTypes', TablesOK(now, polls', shown')
    PROVE  IInv'
<1>1. /\ beat' \in [Workers -> Beat]
      /\ \A v \in Workers : BeatOK(beat[v], now, credits)'
      /\ \A v \in Workers : (Holds(v) => HeldOK(beat[v], polls, shown))'
  BY OneBeat
<1>2. TypeOK'
  BY <1>1, TypeParts
<1>3. TablesOK(now, polls, shown)'
  BY DEF TablesOK
<1> QED
  BY <1>1, <1>2, <1>3 DEF IInv

LEMMA OwnBeat ==
    ASSUME IInv, NEW w \in Workers
    PROVE  /\ TypeOK /\ TableTypes
           /\ beat[w] \in Beat /\ BeatOK(beat[w], now, credits)
           /\ Holds(w) => HeldOK(beat[w], polls, shown)
           /\ TablesOK(now, polls, shown)
           /\ now \in Nat /\ credits \in Nat
<1>1. TypeOK /\ TableTypes /\ beat[w] \in Beat
  BY TypeParts DEF IInv
<1>2. now \in Nat /\ credits \in Nat
  BY <1>1, ConstantTypes DEF TableTypes
<1> QED
  BY <1>1, <1>2 DEF IInv

LEMMA IdleOK ==
    ASSUME NEW at \in Nat, NEW left \in Nat, NEW ledger, NEW latest
    PROVE  Idle \in Beat /\ BeatOK(Idle, at, left) /\ HeldOK(Idle, ledger, latest)
<1>1. Idle \in Beat
  BY DEF Idle, Beat, Never
<1>2. BeatOK(Idle, at, left)
  BY DEF Idle, BeatOK, OneEach, None, Never
<1> QED
  BY <1>1, <1>2 DEF Idle, HeldOK, Pending

\* The delay of a failure is a number of ticks, at least 0.
LEMMA BackedOffType ==
    ASSUME quota \in Quota, NEW w \in Workers, beat[w].began \in Nat, NEW halts, NEW least \in Nat
    PROVE  BackedOff(w, halts, least) \in Quota
<1> DEFINE failures == quota.failures + 1
           doubled == 2 ^ (failures - 1)
           delay == IF halts THEN AuthBackoff ELSE Highest(least, Lowest(BackoffMax, doubled))
<1>1. failures \in Nat /\ doubled \in Int
  BY DEF Quota
<1>2. delay \in Nat
  <2> HIDE DEF doubled
  <2> QED
    BY <1>1, ConstantTypes DEF Highest, Lowest
<1>3. BackedOff(w, halts, least) = [quota EXCEPT !.failures = failures, !.backoff = beat[w].began + delay]
  BY Zenon DEF BackedOff
<1>4. beat[w].began + delay \in Nat
  <2> HIDE DEF delay
  <2> QED
    BY <1>2
<1> HIDE DEF delay, failures
<1>5. [quota EXCEPT !.failures = failures, !.backoff = beat[w].began + delay] \in Quota
  BY <1>1, <1>4 DEF Quota
<1> QED
  BY <1>3, <1>5

\* The beat ends, with or without its lease, and writes at most the quota.
LEMMA EndInv ==
    ASSUME IInv, NEW w \in Workers,
           beat' = [beat EXCEPT ![w] = Idle],
           lease' = lease \/ lease' = [holder |-> None, expires |-> 0],
           quota' \in Quota, mishaps' \in 0 .. MaxMishaps,
           UNCHANGED <<world, polls, shown, credits, budget>>
    PROVE  IInv'
<1>1. Idle \in Beat /\ BeatOK(Idle, now, credits) /\ HeldOK(Idle, polls', shown')
  BY OwnBeat, IdleOK
<1>2. OnlyHolder(w)
  BY OddsAssumption DEF OnlyHolder
<1>3. TableTypes'
  <2>1. TableTypes
    BY OwnBeat
  <2> QED
    BY <2>1 DEF TableTypes, Grant, world
<1>4. TablesOK(now, polls', shown')
  BY OwnBeat
<1> QED
  BY <1>1, <1>2, <1>3, <1>4, OneBeatInv DEF world

LEMMA EndLease ==
    ASSUME NEW w \in Workers, End(w)
    PROVE  /\ beat' = [beat EXCEPT ![w] = Idle]
           /\ lease' = lease \/ lease' = [holder |-> None, expires |-> 0]
BY DEF End, Set

LEMMA MishapType ==
    ASSUME TableTypes, Mishap
    PROVE  mishaps' \in 0 .. MaxMishaps
BY ConstantTypes DEF TableTypes, Mishap

LEMMA EndsInv ==
    ASSUME IInv, NEW w \in Workers,
           \/ LoseLease(w) \/ ListFails(w) \/ StoreFails(w) \/ Finish(w) \/ Fault(w) \/ Crash(w)
    PROVE  IInv'
<1>1. TableTypes /\ quota \in Quota /\ mishaps \in 0 .. MaxMishaps /\ beat[w].began \in Nat
  BY OwnBeat DEF TableTypes, BeatOK
<1>2. CASE LoseLease(w)
  BY <1>1, <1>2, EndInv DEF LoseLease, Set, tables
<1>3. CASE ListFails(w)
  <2>1. quota' \in Quota
    BY <1>1, <1>3, BackedOffType DEF ListFails
  <2> QED
    BY <1>1, <1>3, <2>1, EndInv, EndLease, MishapType DEF ListFails
<1>4. CASE StoreFails(w)
  <2>1. quota' \in Quota
    BY <1>1, <1>4, BackedOffType, ConstantTypes DEF StoreFails
  <2> QED
    BY <1>1, <1>4, <2>1, EndInv, EndLease, MishapType DEF StoreFails
<1>5. CASE Finish(w) \/ Fault(w)
  BY <1>1, <1>5, EndInv, EndLease, MishapType DEF Finish, Fault
<1>6. CASE Crash(w)
  BY <1>1, <1>6, EndInv, MishapType DEF Crash, Set, tables
<1> QED
  BY <1>2, <1>3, <1>4, <1>5, <1>6

\* The beat takes the lease; nobody else has it then.
LEMMA BeginInv ==
    ASSUME IInv, NEW w \in Workers, Begin(w)
    PROVE  IInv'
<1>0. /\ UNCHANGED <<now, tip, quota, polls, shown, credits, budget, mishaps>> /\ fired' = TRUE
      /\ TableTypes /\ now \in Nat /\ credits \in Nat /\ LeaseTicks \in Nat
      /\ TablesOK(now, polls', shown')
  BY OwnBeat, ConstantTypes DEF Begin
<1>1. CASE quota.backoff > now
  <2>1. lease' = [holder |-> None, expires |-> 0] /\ beat' = beat
    BY <1>1 DEF Begin
  <2>2. TableTypes'
    BY <1>0, <2>1 DEF TableTypes, Grant
  <2>3. \A v \in Workers : lease'.holder # v
    BY <2>1, OddsAssumption
  <2>4. beat' = [beat EXCEPT ![w] = beat[w]]
    BY <2>1, TypeParts DEF IInv
  <2> QED
    BY <1>0, <2>2, <2>3, <2>4, OwnBeat, OneBeatInv DEF OnlyHolder
<1>2. CASE ~(quota.backoff > now)
  <2> DEFINE r == [Idle EXCEPT !.pc = "list", !.began = now]
  <2>1. lease' = [holder |-> w, expires |-> now + LeaseTicks] /\ beat' = [beat EXCEPT ![w] = r]
    BY <1>2 DEF Begin, Set
  <2>2. TableTypes'
    BY <1>0, <2>1 DEF TableTypes, Grant
  <2>3. OnlyHolder(w)
    BY <2>1 DEF OnlyHolder
  <2>4. r \in Beat /\ r.pc = "list" /\ r.calls = {} /\ r.began = now /\ r.answer = None /\ r.received = Never
    <3>1. Idle \in Beat
      BY <1>0, IdleOK
    <3>2. Idle.calls = {} /\ Idle.answer = None /\ Idle.received = Never
      BY DEF Idle
    <3>3. now \in Int
      BY <1>0
    <3>4. r \in Beat
      BY <3>1, <3>3 DEF Beat
    <3> QED
      BY <3>1, <3>2, <3>4 DEF Beat
  <2> HIDE DEF r
  <2>5. BeatOK(r, now, credits)
    BY <1>0, <2>4 DEF BeatOK, OneEach, None
  <2>6. HeldOK(r, polls', shown')
    BY <1>0, <2>4 DEF HeldOK, Pending, TablesOK
  <2> QED
    BY <1>0, <2>1, <2>2, <2>3, <2>4, <2>5, <2>6, OneBeatInv
<1> QED
  BY <1>1, <1>2

\* The plan is made from the tables as they are when the holder reads them.
LEMMA PlanInv ==
    ASSUME IInv, NEW w \in Workers, Plan(w)
    PROVE  IInv'
<1> DEFINE b == beat[w]
           to == EvaluateTier(tip, b.began, credits)
           calls == PlannedCalls(tip, b.began, to.tier, credits)
           r == [b EXCEPT !.pc = "calls", !.tips = tip, !.remaining = credits, !.calls = calls]
<1>1. /\ b.pc = "list" /\ Holds(w) /\ beat' = [beat EXCEPT ![w] = r]
      /\ quota' = [quota EXCEPT !.tier = to.tier, !.evaluated = to.evaluated]
      /\ budget' = Budgeted(b.began, to.tier)
      /\ UNCHANGED <<world, lease, polls, shown, credits, mishaps>>
  BY Zenon DEF Plan, Set
<1>2. /\ TypeOK /\ TableTypes /\ b \in Beat /\ BeatOK(b, now, credits) /\ HeldOK(b, polls, shown)
      /\ TablesOK(now, polls, shown) /\ credits \in Nat /\ tip \in [Events -> Nat]
  BY <1>1, OwnBeat DEF TableTypes
<1>3. b.began \in Nat /\ b.began <= now /\ b.answer = None /\ b.received = Never
  BY <1>1, <1>2 DEF BeatOK
<1>4. quota' \in Quota
  <2>1. quota \in Quota /\ to.tier \in 1 .. 4 /\ to.evaluated \in Nat \cup {Never}
    BY <1>2, <1>3, TierTypes DEF TableTypes
  <2> HIDE DEF to
  <2> QED
    BY <1>1, <2>1 DEF Quota
<1>5. budget' \in [Events -> SUBSET Int]
  <2>1. budget \in [Events -> SUBSET Int]
    BY <1>2 DEF TableTypes
  <2>2. \A e \in Events : PaidCalls(e, tip[e], b.began, Tiers[to.tier]) \in Int
    BY <1>2, <1>3, PaidCallsInt
  <2> HIDE DEF to
  <2> QED
    BY <1>1, <2>1, <2>2 DEF Budgeted
<1>6. calls \in SUBSET Call
  BY DEF PlannedCalls, Due, Call
<1> HIDE DEF to, calls
<1>7. /\ r \in Beat /\ r.pc = "calls" /\ r.tips = tip /\ r.remaining = credits /\ r.calls = calls
      /\ r.began = b.began /\ r.answer = b.answer /\ r.received = b.received /\ r.unseen \in Nat
  <2>1. credits \in Int /\ tip \in [Events -> Nat]
    BY <1>2
  <2>2. r \in Beat
    BY <1>2, <1>6, <2>1 DEF Beat
  <2> QED
    BY <1>2, <2>2 DEF Beat
<1> HIDE DEF r
<1>8. OneEach(r.calls) /\ \A c \in r.calls : Unbought(r, c, polls)
  <2>1. \A q \in polls : q.completed <= r.began
    BY <1>1, <1>2, <1>7 DEF HeldOK
  <2> QED
    BY <1>2, <1>3, <1>7, <2>1, PlanUnbought DEF calls
<1>9. BeatOK(r, now, credits)
  BY <1>2, <1>3, <1>7, <1>8 DEF BeatOK, None
<1>10. HeldOK(r, polls', shown')
  BY <1>1, <1>7, <1>8 DEF HeldOK, Pending
<1>11. OnlyHolder(w)
  BY <1>1 DEF OnlyHolder, Holds
<1>12. TableTypes'
  BY <1>1, <1>2, <1>4, <1>5 DEF TableTypes, world
<1> QED
  BY <1>1, <1>2, <1>7, <1>9, <1>10, <1>11, <1>12, OneBeatInv DEF world

\* A call goes out within what the beat knows of the credits.
LEMMA DispatchInv ==
    ASSUME IInv, NEW w \in Workers, Dispatch(w)
    PROVE  IInv'
<1> DEFINE b == beat[w]
           c == First(w)
           rest == b.calls \ {c}
           sent == [b EXCEPT !.pc = "await", !.calls = rest, !.call = c, !.answer = "sent"]
           passed == [b EXCEPT !.calls = rest]
<1>1. /\ b.pc = "calls" /\ b.calls # {} /\ Holds(w)
      /\ lease' = [lease EXCEPT !.expires = now + LeaseTicks]
      /\ \/ Guards(w, c) /\ beat' = [beat EXCEPT ![w] = sent]
         \/ beat' = [beat EXCEPT ![w] = passed]
      /\ UNCHANGED <<world, quota, polls, shown, credits, budget, mishaps>>
  BY DEF Dispatch, Set
<1>2. /\ TypeOK /\ TableTypes /\ b \in Beat /\ BeatOK(b, now, credits) /\ HeldOK(b, polls, shown)
      /\ TablesOK(now, polls', shown') /\ now \in Nat /\ credits \in Nat /\ LeaseTicks \in Nat
  BY <1>1, OwnBeat, ConstantTypes
<1>3. c \in b.calls /\ c \in Call /\ OneEach(b.calls)
  BY <1>1, <1>2, FirstPlanned DEF BeatOK
<1>4. TableTypes' /\ lease'.holder = lease.holder
  BY <1>1, <1>2 DEF TableTypes, Grant, world
<1>5. OnlyHolder(w)
  BY <1>1, <1>4 DEF OnlyHolder, Holds
<1> HIDE DEF c
<1>6. rest \in SUBSET b.calls /\ rest \in SUBSET Call /\ OneEach(rest) /\ \A d \in rest : d.event # c.event
  BY <1>2, <1>3 DEF OneEach, Beat
<1> HIDE DEF rest
<1>7. CASE Guards(w, c) /\ beat' = [beat EXCEPT ![w] = sent]
  <2>1. /\ sent \in Beat /\ sent.pc = "await" /\ sent.calls = rest /\ sent.call = c
        /\ sent.answer = "sent" /\ sent.began = b.began /\ sent.tips = b.tips
        /\ sent.remaining = b.remaining /\ sent.received = b.received /\ sent.unseen = b.unseen
    BY <1>2, <1>3, <1>6 DEF Beat
  <2> HIDE DEF sent
  <2>2. BeatOK(sent, now, credits)
    BY <1>1, <1>2, <1>3, <1>6, <1>7, <2>1 DEF BeatOK, Guards, None
  <2>3. HeldOK(sent, polls', shown')
    BY <1>1, <1>2, <1>3, <1>6, <2>1 DEF HeldOK, Pending, Unbought
  <2> QED
    BY <1>1, <1>2, <1>4, <1>5, <1>7, <2>1, <2>2, <2>3, OneBeatInv DEF world
<1>8. CASE beat' = [beat EXCEPT ![w] = passed]
  <2>1. /\ passed \in Beat /\ passed.pc = "calls" /\ passed.calls = rest
        /\ passed.answer = b.answer /\ passed.began = b.began /\ passed.tips = b.tips
        /\ passed.remaining = b.remaining /\ passed.received = b.received /\ passed.unseen = b.unseen
    BY <1>1, <1>2, <1>6 DEF Beat
  <2> HIDE DEF passed
  <2>2. BeatOK(passed, now, credits)
    BY <1>1, <1>2, <1>6, <2>1 DEF BeatOK, None
  <2>3. HeldOK(passed, polls', shown')
    BY <1>1, <1>2, <1>6, <2>1 DEF HeldOK, Pending, Unbought
  <2> QED
    BY <1>1, <1>2, <1>4, <1>5, <1>8, <2>1, <2>2, <2>3, OneBeatInv DEF world
<1> QED
  BY <1>1, <1>7, <1>8

\* Credits are spent: whoever does not see it counts it as unseen.
LEMMA SpendInv ==
    ASSUME IInv, NEW cost \in Nat, cost <= credits, NEW by, NEW after,
           Spend(cost, by, after),
           by \in Workers => /\ after \in Beat /\ BeatOK(after, now, credits - cost)
                             /\ Holds(by) => HeldOK(after, polls, shown),
           mishaps' \in 0 .. MaxMishaps, UNCHANGED <<world, tables, budget>>
    PROVE  IInv'
<1>1. /\ TableTypes /\ beat \in [Workers -> Beat] /\ credits \in Nat /\ TablesOK(now, polls, shown)
  BY TypeParts DEF IInv, TableTypes
<1>2. credits' = credits - cost /\ credits' \in Nat
  BY <1>1 DEF Spend
<1>3. ASSUME NEW v \in Workers
      PROVE  /\ beat'[v] \in Beat /\ BeatOK(beat'[v], now, credits')
             /\ Holds(v) => HeldOK(beat'[v], polls, shown)
  <2>0. beat[v] \in Beat /\ BeatOK(beat[v], now, credits) /\ (Holds(v) => HeldOK(beat[v], polls, shown))
    BY <1>1 DEF IInv
  <2>1. CASE v = by
    BY <1>2, <2>1 DEF Spend
  <2>2. CASE v # by /\ beat[v].pc \in {"idle", "list"}
    <3>1. beat'[v] = beat[v]
      BY <2>2 DEF Spend
    <3> QED
      BY <2>0, <2>2, <3>1 DEF BeatOK
  <2>3. CASE v # by /\ beat[v].pc \notin {"idle", "list"}
    <3> DEFINE r == [beat[v] EXCEPT !.unseen = @ + cost]
    <3>1. beat'[v] = r
      BY <2>3 DEF Spend
    <3>2. /\ r \in Beat /\ r.unseen = beat[v].unseen + cost /\ r.pc = beat[v].pc /\ r.tips = beat[v].tips
          /\ r.calls = beat[v].calls /\ r.call = beat[v].call /\ r.began = beat[v].began
          /\ r.answer = beat[v].answer /\ r.received = beat[v].received
          /\ r.remaining = beat[v].remaining /\ r.remaining \in Int /\ beat[v].unseen \in Nat
      BY <2>0 DEF Beat
    <3> HIDE DEF r
    <3>3. BeatOK(r, now, credits')
      BY <1>1, <1>2, <2>0, <3>2 DEF BeatOK
    <3>4. Holds(v) => HeldOK(r, polls, shown)
      BY <2>0, <3>2 DEF HeldOK, Pending, Unbought
    <3> QED
      BY <3>1, <3>2, <3>3, <3>4
  <2> QED
    BY <2>1, <2>2, <2>3
<1>4. beat' \in [Workers -> Beat]
  <2>1. beat' = [v \in Workers |-> beat'[v]]
    BY DEF Spend
  <2> QED
    BY <1>3, <2>1
<1>5. TableTypes'
  BY <1>1, <1>2 DEF TableTypes, world, tables
<1>6. \A v \in Workers : BeatOK(beat[v], now, credits)' /\ (Holds(v) => HeldOK(beat[v], polls, shown))'
  BY <1>3 DEF Holds, world, tables
<1>7. TypeOK'
  BY <1>4, <1>5, <1>6, TypeParts
<1>8. TablesOK(now, polls, shown)'
  BY <1>1 DEF TablesOK, world, tables
<1> QED
  BY <1>6, <1>7, <1>8 DEF IInv

LEMMA ServeInv ==
    ASSUME IInv, NEW w \in Workers, Serve(w)
    PROVE  IInv'
<1> DEFINE b == beat[w]
<1>1. /\ TypeOK /\ TableTypes /\ b \in Beat /\ BeatOK(b, now, credits)
      /\ (Holds(w) => HeldOK(b, polls, shown)) /\ credits \in Nat /\ CallCost \in Nat
      /\ TablesOK(now, polls, shown) /\ mishaps \in 0 .. MaxMishaps
  BY OwnBeat, ConstantTypes DEF TableTypes
<1>2. b.answer = "sent" /\ b.pc = "await" /\ UNCHANGED <<world, tables, budget>>
  <2>1. b.answer = "sent" /\ UNCHANGED <<world, tables, budget>>
    BY DEF Serve
  <2> QED
    BY <1>1, <2>1 DEF BeatOK, Beat, None
<1>3. ASSUME NEW cost \in Nat, cost <= credits, NEW answer \in {"populated", "empty"},
             Spend(cost, w, Answered(w, answer, credits - cost)), mishaps' = mishaps
      PROVE  IInv'
  <2> DEFINE r == [b EXCEPT !.answer = answer, !.remaining = credits - cost, !.unseen = 0]
  <2>1. credits - cost \in Int /\ Answered(w, answer, credits - cost) = r
    BY <1>1, <1>3 DEF Answered
  <2>2. r \in Beat
    BY <1>1, <1>3, <2>1 DEF Beat
  <2>3. /\ r.answer = answer /\ r.remaining = credits - cost /\ r.unseen = 0 /\ r.pc = b.pc
        /\ r.calls = b.calls /\ r.call = b.call /\ r.began = b.began /\ r.received = b.received
        /\ r.tips = b.tips
    BY <1>1 DEF Beat
  <2> HIDE DEF r
  <2>4. BeatOK(r, now, credits - cost)
    BY <1>1, <1>2, <1>3, <2>1, <2>3 DEF BeatOK, None
  <2>5. Holds(w) => HeldOK(r, polls, shown)
    BY <1>1, <1>2, <2>3 DEF HeldOK, Pending, Unbought
  <2> QED
    BY <1>1, <1>2, <1>3, <2>1, <2>2, <2>4, <2>5, SpendInv
<1>4. ASSUME NEW answer \in {"gone", "failed", "halt"}, Mishap, credits' = credits,
             beat' = [beat EXCEPT ![w] = [b EXCEPT !.answer = answer]]
      PROVE  IInv'
  <2> DEFINE r == [b EXCEPT !.answer = answer]
  <2>1. /\ r \in Beat /\ r.answer = answer /\ r.pc = b.pc /\ r.remaining = b.remaining
        /\ r.unseen = b.unseen /\ r.calls = b.calls /\ r.call = b.call /\ r.began = b.began
        /\ r.received = b.received /\ r.tips = b.tips
    BY <1>1, <1>4 DEF Beat
  <2>2. beat' = [beat EXCEPT ![w] = r]
    BY <1>4
  <2> HIDE DEF r
  <2>3. BeatOK(r, now, credits)
    BY <1>1, <1>2, <1>4, <2>1 DEF BeatOK, None
  <2>4. Holds(w) => HeldOK(r, polls, shown)
    BY <1>1, <1>2, <2>1 DEF HeldOK, Pending, Unbought
  <2>5. mishaps' \in 0 .. MaxMishaps
    BY <1>1, <1>4, MishapType
  <2>6. TableTypes'
    BY <1>1, <1>2, <1>4, <2>5 DEF TableTypes, world, tables
  <2>7. OnlyHolder(w)
    BY <1>2 DEF OnlyHolder, tables
  <2>8. /\ now' = now /\ lease' = lease /\ polls' = polls /\ shown' = shown
    BY <1>2 DEF world, tables
  <2>9. TablesOK(now, polls', shown') /\ (lease'.holder = w => HeldOK(r, polls', shown'))
    BY <1>1, <2>4, <2>8 DEF Holds
  <2> QED
    BY <1>4, <2>1, <2>2, <2>3, <2>6, <2>7, <2>8, <2>9, OneBeatInv
<1>5. CASE /\ credits >= CallCost
           /\ Spend(CallCost, w, Answered(w, "populated", credits - CallCost))
           /\ UNCHANGED mishaps
  BY <1>1, <1>3, <1>5
<1>6. CASE Spend(0, w, Answered(w, "empty", credits)) /\ UNCHANGED mishaps
  <2>1. credits - 0 = credits /\ 0 \in Nat /\ 0 <= credits
    BY <1>1
  <2> QED
    BY <1>3, <1>6, <2>1
<1>7. CASE /\ Mishap
           /\ \E answer \in {"gone", "failed", "halt"} : Set(w, [beat[w] EXCEPT !.answer = answer])
           /\ UNCHANGED credits
  BY <1>4, <1>7 DEF Set
<1> QED
  BY <1>5, <1>6, <1>7 DEF Serve

\* The beat turns to its next call.
LEMMA DoneOK ==
    ASSUME NEW b \in Beat, NEW left \in Nat, BeatOK(b, now, left), b.pc \notin {"idle", "list"}
    PROVE  /\ Done(b) \in Beat /\ BeatOK(Done(b), now, left)
           /\ HeldOK(b, polls, shown) => HeldOK(Done(b), polls, shown)
<1> DEFINE r == [b EXCEPT !.pc = "calls", !.call = NoCall, !.answer = None, !.received = Never]
<1>1. Done(b) = r
  BY DEF Done
<1>2. /\ r \in Beat /\ r.pc = "calls" /\ r.answer = None /\ r.received = Never
      /\ r.calls = b.calls /\ r.began = b.began /\ r.tips = b.tips
      /\ r.remaining = b.remaining /\ r.unseen = b.unseen
  <2>1. Never \in Int /\ NoCall \in Call \cup {NoCall}
    BY DEF Never
  <2>2. r \in Beat
    BY <2>1 DEF Beat
  <2> QED
    BY <2>2 DEF Beat
<1> HIDE DEF r
<1>3. BeatOK(r, now, left)
  BY <1>2 DEF BeatOK, None
<1>4. HeldOK(b, polls, shown) => HeldOK(r, polls, shown)
  BY <1>2 DEF HeldOK, Pending, Unbought
<1> QED
  BY <1>1, <1>2, <1>3, <1>4

\* The holder turns to its next call and writes at most the quota.
LEMMA NextCallInv ==
    ASSUME IInv, NEW w \in Workers, beat[w].pc \notin {"idle", "list"},
           beat' = [beat EXCEPT ![w] = Done(beat[w])], quota' \in Quota,
           UNCHANGED <<world, lease, polls, shown, credits, budget, mishaps>>
    PROVE  IInv'
<1>1. /\ TableTypes /\ beat[w] \in Beat /\ BeatOK(beat[w], now, credits)
      /\ (Holds(w) => HeldOK(beat[w], polls, shown)) /\ credits \in Nat
      /\ TablesOK(now, polls, shown)
  BY OwnBeat
<1>2. PICK r \in Beat : /\ r = Done(beat[w]) /\ BeatOK(r, now, credits)
                        /\ Holds(w) => HeldOK(r, polls, shown)
  BY <1>1, DoneOK
<1>3. OnlyHolder(w)
  BY DEF OnlyHolder
<1>4. TableTypes'
  BY <1>1 DEF TableTypes, world
<1>5. /\ now' = now /\ credits' = credits /\ TablesOK(now, polls', shown')
      /\ beat' = [beat EXCEPT ![w] = r] /\ (lease'.holder = w => HeldOK(r, polls', shown'))
  BY <1>1, <1>2 DEF Holds, world
<1> QED
  BY <1>2, <1>3, <1>4, <1>5, OneBeatInv

LEMMA RowType ==
    ASSUME NEW w \in Workers, beat[w] \in Beat, beat[w].call \in Call, now \in Nat,
           NEW outcome \in {"complete", "empty"}
    PROVE  /\ Row(w, outcome, now) \in Poll
           /\ Row(w, outcome, now).event = beat[w].call.event
           /\ Row(w, outcome, now).completed = now
<1>1. beat[w].call.event \in Events /\ beat[w].tips[beat[w].call.event] \in Nat
  BY DEF Beat, Call
<1>2. CASE Closing(beat[w].call)
  <2>1. Row(w, outcome, now) = [event |-> beat[w].call.event, tip |-> beat[w].tips[beat[w].call.event],
                                completed |-> now, outcome |-> outcome, closing |-> TRUE]
    BY <1>2 DEF Row, Closing
  <2> QED
    BY <1>1, <2>1 DEF Poll
<1>3. CASE ~Closing(beat[w].call)
  <2>1. Row(w, outcome, now) = [event |-> beat[w].call.event, tip |-> beat[w].tips[beat[w].call.event],
                                completed |-> now, outcome |-> outcome, closing |-> FALSE]
    BY <1>3 DEF Row, Closing
  <2> QED
    BY <1>1, <2>1 DEF Poll
<1> QED
  BY <1>2, <1>3

\* An answer arrives at the holder: the paid row is of another game than the
\* calls that are still to make.
LEMMA ReceiveInv ==
    ASSUME IInv, NEW w \in Workers, Receive(w)
    PROVE  IInv'
<1> DEFINE b == beat[w]
           paid == b.answer = "populated" /\ ~Crossed(w)
<1>1. /\ b.pc = "await" /\ b.answer \in {"populated", "empty"} /\ Holds(w)
      /\ polls' = IF paid THEN polls \cup {Row(w, "complete", now)} ELSE polls
      /\ UNCHANGED <<world, lease, quota, shown, credits, mishaps>>
  BY DEF Receive
<1>2. /\ TableTypes /\ b \in Beat /\ BeatOK(b, now, credits) /\ HeldOK(b, polls, shown)
      /\ TablesOK(now, polls, shown) /\ now \in Nat /\ credits \in Nat
  BY <1>1, OwnBeat
<1>3. b.call \in Call /\ b.call.event \in Events /\ \A d \in b.calls : d.event # b.call.event
  BY <1>1, <1>2 DEF BeatOK, Call
<1>4. budget' \in [Events -> SUBSET Int]
  <2>1. budget \in [Events -> SUBSET Int]
    BY <1>2 DEF TableTypes
  <2>2. budget' = budget \/ budget' = [budget EXCEPT ![b.call.event] = {n - 1 : n \in @}]
    BY DEF Receive
  <2>3. {n - 1 : n \in budget[b.call.event]} \in SUBSET Int
    BY <1>3, <2>1
  <2> QED
    BY <1>3, <2>1, <2>2, <2>3
<1>5. CASE Crossed(w)
  <2>1. polls' = polls /\ beat' = [beat EXCEPT ![w] = Done(b)]
    BY <1>1, <1>5 DEF Receive, Set
  <2>2. PICK r \in Beat : r = Done(b) /\ BeatOK(r, now, credits) /\ HeldOK(r, polls, shown)
    BY <1>1, <1>2, DoneOK
  <2>3. TableTypes'
    BY <1>1, <1>2, <1>4, <2>1 DEF TableTypes, world
  <2>4. OnlyHolder(w)
    BY <1>1, <2>1 DEF OnlyHolder
  <2> QED
    BY <1>1, <1>2, <2>1, <2>2, <2>3, <2>4, OneBeatInv DEF world
<1>6. CASE ~Crossed(w)
  <2> DEFINE r == [b EXCEPT !.pc = "store", !.received = now]
  <2>1. beat' = [beat EXCEPT ![w] = r]
    BY <1>6 DEF Receive, Set
  <2>2. now \in Int
    BY <1>2
  <2>3. r \in Beat
    BY <1>2, <2>2 DEF Beat
  <2>4. /\ r.pc = "store" /\ r.received = now /\ r.calls = b.calls /\ r.call = b.call
        /\ r.began = b.began /\ r.tips = b.tips /\ r.answer = b.answer
        /\ r.remaining = b.remaining /\ r.unseen = b.unseen
    BY <1>2 DEF Beat
  <2> HIDE DEF r
  <2>5. BeatOK(r, now, credits)
    BY <1>1, <1>2, <1>3, <2>4 DEF BeatOK
  <2>6. /\ polls' \subseteq Poll /\ polls \subseteq polls'
        /\ \A q \in polls' : q \in polls \/ (q.event = b.call.event /\ q.completed = now)
    <3>1. polls \subseteq Poll
      BY <1>2 DEF TableTypes
    <3>2. /\ Row(w, "complete", now) \in Poll
          /\ Row(w, "complete", now).event = b.call.event /\ Row(w, "complete", now).completed = now
      BY <1>2, <1>3, RowType
    <3> QED
      BY <1>1, <3>1, <3>2
  <2>7. HeldOK(r, polls', shown')
    <3>1. \A c \in b.calls : Unbought(b, c, polls)
      BY <1>1, <1>2 DEF HeldOK, Pending
    <3>2. ASSUME NEW c \in b.calls PROVE Unbought(r, c, polls')
      BY <1>3, <2>4, <2>6, <3>1 DEF Unbought
    <3>3. shown' = shown /\ \A e \in Events : shown[e] <= now
      BY <1>1, <1>2 DEF TablesOK
    <3> QED
      BY <2>4, <3>2, <3>3 DEF HeldOK, Pending
  <2>8. TableTypes'
    BY <1>1, <1>2, <1>4, <2>6 DEF TableTypes, world
  <2>9. TablesOK(now, polls', shown')
    BY <1>1, <1>2, <2>6 DEF TablesOK
  <2>10. OnlyHolder(w)
    BY <1>1 DEF OnlyHolder, Holds
  <2> QED
    BY <1>1, <2>1, <2>3, <2>5, <2>7, <2>8, <2>9, <2>10, OneBeatInv DEF world
<1> QED
  BY <1>5, <1>6

LEMMA CallFailedInv ==
    ASSUME IInv, NEW w \in Workers, CallFailed(w)
    PROVE  IInv'
<1>1. /\ TableTypes /\ quota \in Quota /\ mishaps \in 0 .. MaxMishaps /\ beat[w].began \in Nat
      /\ beat[w].pc = "await"
  BY OwnBeat DEF TableTypes, BeatOK, CallFailed
<1>2. CASE beat[w].answer = "gone"
  BY <1>1, <1>2, NextCallInv DEF CallFailed, Set
<1>3. CASE beat[w].answer # "gone"
  <2>1. quota' \in Quota
    BY <1>1, <1>3, BackedOffType DEF CallFailed
  <2>2. End(w) /\ UNCHANGED <<world, polls, shown, credits, budget, mishaps>>
    BY <1>3 DEF CallFailed
  <2> QED
    BY <1>1, <2>1, <2>2, EndInv, EndLease
<1> QED
  BY <1>2, <1>3

LEMMA ClearInv ==
    ASSUME IInv, NEW w \in Workers, Clear(w)
    PROVE  IInv'
<1> DEFINE cleared == [quota EXCEPT !.failures = 0, !.backoff = 0]
<1>1. TableTypes /\ quota \in Quota /\ mishaps \in 0 .. MaxMishaps /\ beat[w].pc = "clear" /\ now \in Nat
  BY OwnBeat DEF TableTypes, Clear
<1>2. cleared \in Quota
  BY <1>1 DEF Quota
<1>3. [cleared EXCEPT !.tier = 4, !.evaluated = now] \in Quota
  <2>1. now \in Nat \cup {Never} /\ 4 \in 1 .. 4
    BY <1>1
  <2> HIDE DEF cleared
  <2> QED
    BY <1>2, <2>1 DEF Quota
<1>4. CASE beat[w].remaining < HaltBelow
  <2>1. quota' \in Quota
    BY <1>3, <1>4 DEF Clear
  <2>2. End(w) /\ UNCHANGED <<world, polls, shown, credits, budget, mishaps>>
    BY <1>4 DEF Clear
  <2> QED
    BY <1>1, <2>1, <2>2, EndInv, EndLease
<1>5. CASE ~(beat[w].remaining < HaltBelow)
  BY <1>1, <1>2, <1>5, NextCallInv DEF Clear, Set
<1> QED
  BY <1>4, <1>5

\* The quotes of the holder are the newest there are.
LEMMA StoreInv ==
    ASSUME IInv, NEW w \in Workers, Store(w)
    PROVE  IInv' /\ \A e \in Events : shown'[e] >= shown[e]
<1> DEFINE b == beat[w]
           r == [b EXCEPT !.pc = "clear"]
<1>1. /\ b.pc = "store" /\ Holds(w) /\ beat' = [beat EXCEPT ![w] = r]
      /\ UNCHANGED <<world, lease, quota, credits, budget, mishaps>>
  BY DEF Store, Stores, Set
<1>2. /\ TableTypes /\ b \in Beat /\ BeatOK(b, now, credits) /\ HeldOK(b, polls, shown)
      /\ TablesOK(now, polls, shown) /\ now \in Nat /\ credits \in Nat
      /\ shown \in [Events -> Nat \cup {Never}] /\ polls \subseteq Poll
  BY <1>1, OwnBeat DEF TableTypes
<1>3. /\ b.call \in Call /\ b.call.event \in Events /\ b.received \in Nat
      /\ \A e \in Events : shown[e] <= b.received
  BY <1>1, <1>2 DEF BeatOK, HeldOK, Call
<1>4. /\ r \in Beat /\ r.pc = "clear" /\ r.calls = b.calls /\ r.call = b.call /\ r.tips = b.tips
      /\ r.began = b.began /\ r.received = b.received /\ r.answer = b.answer
      /\ r.remaining = b.remaining /\ r.unseen = b.unseen
  BY <1>2 DEF Beat
<1> HIDE DEF r
<1>5. BeatOK(r, now, credits)
  BY <1>1, <1>2, <1>4 DEF BeatOK
<1>6. OnlyHolder(w)
  BY <1>1 DEF OnlyHolder, Holds
<1>7. CASE b.answer = "empty"
  <2>1. PICK q \in Poll : /\ q.event = b.call.event /\ q.completed = now
                          /\ polls' = polls \cup {q} /\ shown' = shown
    <3>1. polls' = polls \cup {Row(w, "empty", now)} /\ shown' = shown
      BY <1>7 DEF Store
    <3>2. /\ Row(w, "empty", now) \in Poll
          /\ Row(w, "empty", now).event = b.call.event /\ Row(w, "empty", now).completed = now
      BY <1>2, <1>3, RowType
    <3> QED
      BY <3>1, <3>2
  <2>2. HeldOK(r, polls', shown')
    <3>1. \A c \in b.calls : Unbought(b, c, polls) /\ c.event # b.call.event
      BY <1>1, <1>2 DEF HeldOK, Pending, BeatOK
    <3>2. ASSUME NEW c \in b.calls PROVE Unbought(r, c, polls')
      BY <1>4, <2>1, <3>1 DEF Unbought
    <3> QED
      BY <1>4, <3>2 DEF HeldOK, Pending
  <2>3. TableTypes'
    BY <1>1, <1>2, <2>1 DEF TableTypes, world
  <2>4. TablesOK(now, polls', shown')
    BY <1>2, <2>1 DEF TablesOK
  <2>5. IInv'
    BY <1>1, <1>4, <1>5, <1>6, <2>2, <2>3, <2>4, OneBeatInv DEF world
  <2>6. \A e \in Events : shown'[e] >= shown[e]
    BY <1>2, <2>1 DEF Never
  <2> QED
    BY <2>5, <2>6
<1>8. CASE b.answer # "empty"
  <2>1. shown' = [shown EXCEPT ![b.call.event] = b.received] /\ polls' = polls
    BY <1>8 DEF Store
  <2>2. HeldOK(r, polls', shown')
    <3>1. \A c \in b.calls : Unbought(b, c, polls)
      BY <1>1, <1>2 DEF HeldOK, Pending
    <3> QED
      BY <1>4, <2>1, <3>1 DEF HeldOK, Pending, Unbought
  <2>3. TableTypes'
    BY <1>1, <1>2, <1>3, <2>1 DEF TableTypes, world
  <2>4. b.received <= now
    BY <1>1, <1>2 DEF BeatOK
  <2>5. TablesOK(now, polls', shown')
    BY <1>2, <1>3, <2>1, <2>4 DEF TablesOK
  <2>6. IInv'
    BY <1>1, <1>4, <1>5, <1>6, <2>2, <2>3, <2>5, OneBeatInv DEF world
  <2>7. \A e \in Events : shown'[e] >= shown[e]
    BY <1>2, <1>3, <2>1 DEF Never
  <2> QED
    BY <2>6, <2>7
<1> QED
  BY <1>7, <1>8

-----------------------------------------------------------------------------
(***************************************************************************)
(* The clock, other users of the key, and the league.                      *)
(***************************************************************************)

LEMMA TickInv ==
    ASSUME IInv, Tick
    PROVE  IInv'
<1>1. /\ TableTypes /\ beat \in [Workers -> Beat] /\ TablesOK(now, polls, shown)
      /\ \A w \in Workers : BeatOK(beat[w], now, credits) /\ (Holds(w) => HeldOK(beat[w], polls, shown))
  BY TypeParts DEF IInv
<1>2. /\ now' = now + 1 /\ now' \in 0 .. MaxTime /\ now \in Nat /\ fired' = FALSE
      /\ UNCHANGED <<tip, lease, quota, polls, shown, credits, beat, budget, mishaps>>
  BY <1>1, ConstantTypes DEF Tick, TableTypes, tables
<1>3. TableTypes'
  BY <1>1, <1>2 DEF TableTypes
<1>4. TablesOK(now', polls, shown)
  <2>1. (\A q \in polls : q.completed \in Nat) /\ \A e \in Events : shown[e] \in Int
    BY <1>1 DEF TableTypes, Poll, Never
  <2> QED
    BY <1>1, <1>2, <2>1 DEF TablesOK
<1>5. ASSUME NEW w \in Workers PROVE BeatOK(beat[w], now', credits)
  BY <1>1, <1>2 DEF BeatOK
<1>6. \A w \in Workers : BeatOK(beat[w], now, credits)' /\ (Holds(w) => HeldOK(beat[w], polls, shown))'
  BY <1>1, <1>2, <1>5 DEF Holds
<1>7. TypeOK'
  BY <1>1, <1>2, <1>3, <1>6, TypeParts
<1> QED
  BY <1>2, <1>4, <1>6, <1>7 DEF IInv

LEMMA OthersInv ==
    ASSUME IInv, OthersSpend
    PROVE  IInv'
<1>1. TableTypes /\ credits \in Nat
  BY TypeParts DEF IInv, TableTypes
<1>2. /\ 1 <= credits /\ Spend(1, None, Idle) /\ None \notin Workers
      /\ UNCHANGED <<world, tables, budget>> /\ mishaps' \in 0 .. MaxMishaps
  BY <1>1, OddsAssumption, MishapType DEF OthersSpend
<1> QED
  BY <1>2, SpendInv

LEMMA PostponeInv ==
    ASSUME IInv, NEW e \in Events, Postpone(e)
    PROVE  IInv'
<1>1. /\ TableTypes /\ beat \in [Workers -> Beat] /\ TablesOK(now, polls, shown)
      /\ \A w \in Workers : BeatOK(beat[w], now, credits) /\ (Holds(w) => HeldOK(beat[w], polls, shown))
  BY TypeParts DEF IInv
<1>2. /\ tip' = [tip EXCEPT ![e] = @ + Postponement] /\ budget' = [budget EXCEPT ![e] = {}]
      /\ UNCHANGED <<now, fired, lease, quota, polls, shown, credits, beat>>
      /\ mishaps' \in 0 .. MaxMishaps
  BY <1>1, MishapType DEF Postpone, tables
<1>3. tip' \in [Events -> Nat] /\ budget' \in [Events -> SUBSET Int]
  BY <1>1, <1>2, ConstantTypes DEF TableTypes
<1>4. TableTypes'
  BY <1>1, <1>2, <1>3 DEF TableTypes
<1>5. \A w \in Workers : BeatOK(beat[w], now, credits)' /\ (Holds(w) => HeldOK(beat[w], polls, shown))'
  BY <1>1, <1>2 DEF Holds
<1>6. TypeOK'
  BY <1>1, <1>2, <1>4, <1>5, TypeParts
<1> QED
  BY <1>1, <1>2, <1>5, <1>6 DEF IInv

LEMMA InitInv == Init => IInv
<1> SUFFICES ASSUME Init PROVE IInv
  OBVIOUS
<1>1. TableTypes /\ now \in Nat /\ credits \in Nat
  <2>1. lease \in Grant
    BY DEF Init, Grant
  <2>2. quota \in Quota
    BY DEF Init, Quota
  <2>3. shown \in [Events -> Nat \cup {Never}] /\ budget \in [Events -> SUBSET Int]
    BY ConstantTypes DEF Init
  <2>4. tip \in [Events -> Nat]
    BY OddsAssumption DEF Init
  <2>5. /\ now \in 0 .. MaxTime /\ mishaps \in 0 .. MaxMishaps /\ now \in Nat /\ credits \in Nat
        /\ polls \subseteq Poll
    BY ConstantTypes DEF Init
  <2>6. fired \in BOOLEAN
    BY Zenon DEF Init
  <2> QED
    BY <2>1, <2>2, <2>3, <2>4, <2>5, <2>6 DEF TableTypes
<1>2. TablesOK(now, polls, shown)
  BY DEF Init, TablesOK, Never
<1>3. \A w \in Workers : /\ beat[w] = Idle /\ Idle \in Beat /\ BeatOK(Idle, now, credits)
                         /\ HeldOK(Idle, polls, shown)
  BY <1>1, IdleOK DEF Init
<1>4. beat \in [Workers -> Beat]
  BY <1>3 DEF Init
<1>5. \A w \in Workers : beat[w].pc = "await" <=> beat[w].answer # None /\ beat[w].received = Never
  BY <1>3 DEF Idle
<1>6. TypeOK
  BY <1>1, <1>4, <1>5 DEF TypeOK, TableTypes, Quota, Grant
<1> QED
  BY <1>2, <1>3, <1>6 DEF IInv

LEMMA StepInv == IInv /\ [Next]_vars => IInv'
<1> SUFFICES ASSUME IInv, [Next]_vars PROVE IInv'
  OBVIOUS
<1>1. ASSUME NEW w \in Workers, Working(w) PROVE IInv'
  BY <1>1, EndsInv, BeginInv, PlanInv, DispatchInv, ServeInv, ReceiveInv, CallFailedInv, StoreInv, ClearInv
     DEF Working
<1>2. CASE UNCHANGED vars
  BY <1>2 DEF vars, world, tables, IInv, TypeOK, Holds
<1> QED
  BY <1>1, <1>2, TickInv, OthersInv, PostponeInv DEF Next

LEMMA AlwaysInv == Spec => []IInv
BY InitInv, StepInv, PTL DEF Spec

-----------------------------------------------------------------------------
(***************************************************************************)
(* What holds of every behaviour.                                          *)
(***************************************************************************)

\* Rows, quota and beats keep their types; in particular the credits the
\* provider reports never fall below zero and every plan has a first call.
THEOREM TypesHold == Spec => []TypeOK
<1>1. IInv => TypeOK
  BY DEF IInv
<1> QED
  BY <1>1, AlwaysInv, PTL

\* A beat other than the one that acts keeps its place and its answer.
LEMMA OthersKeep ==
    ASSUME TypeOK, NEW v \in Workers, Working(v), NEW w \in Workers, w # v
    PROVE  beat'[w].pc = beat[w].pc /\ beat'[w].answer = beat[w].answer
<1>1. beat[w] \in Beat /\ beat \in [Workers -> Beat]
  BY TypeParts
<1>2. CASE Serve(v)
  <2>1. \/ beat'[w] = beat[w]
        \/ \E cost : beat'[w] = [beat[w] EXCEPT !.unseen = @ + cost]
    BY <1>1, <1>2 DEF Serve, Spend, Set
  <2> QED
    BY <1>1, <2>1 DEF Beat
<1>3. CASE ~Serve(v)
  <2>1. beat' = beat \/ \E r : beat' = [beat EXCEPT ![v] = r]
    BY <1>3 DEF Working, LoseLease, Begin, ListFails, Plan, Dispatch, Receive, CallFailed, Store,
       StoreFails, Clear, Finish, Fault, Crash, End, Set
  <2> QED
    BY <1>1, <2>1
<1> QED
  BY <1>2, <1>3

\* Only the provider answers a request, and only an answer received by the
\* holder is stored.
LEMMA Arrivals ==
    ASSUME IInv, [Next]_vars, NEW w \in Workers
    PROVE  /\ beat[w].answer = "sent" /\ beat'[w].answer = "populated" => Serve(w)
           /\ beat[w].pc = "await" /\ beat'[w].pc = "store" => Receive(w)
<1>1. TypeOK /\ beat \in [Workers -> Beat] /\ beat[w] \in Beat
  BY TypeParts DEF IInv
<1>2. CASE Working(w) /\ ~Serve(w) /\ ~Receive(w)
  <2>0. ASSUME NEW r, beat' = [beat EXCEPT ![w] = r] PROVE beat'[w] = r
    BY <1>1, <2>0
  <2>1. CASE \/ LoseLease(w) \/ ListFails(w) \/ StoreFails(w) \/ Finish(w) \/ Fault(w) \/ Crash(w)
             \/ CallFailed(w) \/ Clear(w)
    <3>1. Idle.answer = None /\ Idle.pc = "idle"
      BY DEF Idle
    <3>2. Done(beat[w]).answer = None /\ Done(beat[w]).pc = "calls"
      BY <1>1 DEF Done, Beat
    <3>3. beat' = [beat EXCEPT ![w] = Idle] \/ beat' = [beat EXCEPT ![w] = Done(beat[w])]
      BY <2>1, Zenon DEF LoseLease, ListFails, StoreFails, Finish, Fault, Crash, CallFailed, Clear, End, Set
    <3>4. beat'[w] = Idle \/ beat'[w] = Done(beat[w])
      BY <2>0, <3>3
    <3> QED
      BY <3>1, <3>2, <3>4 DEF None
  <2>2. CASE Begin(w)
    <3>1. beat' = beat \/ beat' = [beat EXCEPT ![w] = [Idle EXCEPT !.pc = "list", !.began = now]]
      BY <2>2, Zenon DEF Begin, Set
    <3>2. beat'[w] = beat[w] \/ beat'[w] = [Idle EXCEPT !.pc = "list", !.began = now]
      BY <2>0, <3>1
    <3> QED
      BY <3>2 DEF Idle, None
  <2>3. CASE Plan(w)
    <3>1. PICK T, R, C : beat' = [beat EXCEPT ![w] =
              [beat[w] EXCEPT !.pc = "calls", !.tips = T, !.remaining = R, !.calls = C]]
      BY <2>3, Zenon DEF Plan, Set
    <3>2. beat'[w] = [beat[w] EXCEPT !.pc = "calls", !.tips = T, !.remaining = R, !.calls = C]
      BY <2>0, <3>1
    <3> QED
      BY <1>1, <3>2 DEF Beat
  <2>4. CASE Dispatch(w)
    <3>1. \/ \E C, c : beat' = [beat EXCEPT ![w] =
                 [beat[w] EXCEPT !.pc = "await", !.calls = C, !.call = c, !.answer = "sent"]]
          \/ \E C : beat' = [beat EXCEPT ![w] = [beat[w] EXCEPT !.calls = C]]
      BY <2>4, Zenon DEF Dispatch, Set
    <3>2. \/ \E C, c : beat'[w] =
                 [beat[w] EXCEPT !.pc = "await", !.calls = C, !.call = c, !.answer = "sent"]
          \/ \E C : beat'[w] = [beat[w] EXCEPT !.calls = C]
      BY <2>0, <3>1
    <3> QED
      BY <1>1, <3>2 DEF Beat
  <2>5. CASE Store(w)
    <3>1. beat' = [beat EXCEPT ![w] = [beat[w] EXCEPT !.pc = "clear"]]
      BY <2>5, Zenon DEF Store, Set
    <3>2. beat'[w] = [beat[w] EXCEPT !.pc = "clear"]
      BY <2>0, <3>1
    <3> QED
      BY <1>1, <3>2 DEF Beat
  <2> QED
    BY <1>2, <2>1, <2>2, <2>3, <2>4, <2>5 DEF Working
<1>3. CASE Serve(w) \/ Receive(w)
  <2>1. Serve(w) => beat[w].pc = "await" /\ beat'[w].pc = "await"
    <3> SUFFICES ASSUME Serve(w) PROVE beat[w].pc = "await" /\ beat'[w].pc = "await"
      OBVIOUS
    <3>1. beat[w].answer = "sent" /\ BeatOK(beat[w], now, credits)
      BY DEF Serve, IInv
    <3>2. beat[w].pc = "await"
      BY <1>1, <3>1 DEF BeatOK, Beat, None
    <3>3. \/ \E a, m : beat'[w] = [beat[w] EXCEPT !.answer = a, !.remaining = m, !.unseen = 0]
          \/ \E a : beat'[w] = [beat[w] EXCEPT !.answer = a]
      <4>1. \/ beat'[w] = Answered(w, "populated", credits - CallCost)
            \/ beat'[w] = Answered(w, "empty", credits)
            \/ \E a : beat' = [beat EXCEPT ![w] = [beat[w] EXCEPT !.answer = a]]
        BY DEF Serve, Spend, Set
      <4> QED
        BY <1>1, <4>1 DEF Answered
    <3> QED
      BY <1>1, <3>2, <3>3 DEF Beat
  <2>2. Receive(w) => beat[w].answer # "sent"
    BY DEF Receive
  <2> QED
    BY <1>3, <2>1, <2>2
<1>4. ASSUME NEW v \in Workers, Working(v), v # w
      PROVE  beat'[w].pc = beat[w].pc /\ beat'[w].answer = beat[w].answer
  BY <1>1, <1>4, OthersKeep
<1>5. CASE Tick \/ (\E e \in Events : Postpone(e)) \/ UNCHANGED vars
  BY <1>5 DEF Tick, Postpone, vars
<1>6. CASE OthersSpend
  <2>1. \/ beat'[w] = beat[w]
        \/ \E cost : beat'[w] = [beat[w] EXCEPT !.unseen = @ + cost]
    BY <1>1, <1>6, OddsAssumption DEF OthersSpend, Spend
  <2> QED
    BY <1>1, <2>1 DEF Beat
<1> QED
  BY <1>2, <1>3, <1>4, <1>5, <1>6 DEF Next

\* "x-requests-remaining never reaches 0 because of this job": whatever other
\* users of the key and overlapping beats spend meanwhile, a call leaves its
\* floor up to what was spent unseen (the guard of run before every call).
THEOREM FloorIsKept == Spec => FloorKept
<1>1. ASSUME IInv, [Next]_vars, NEW w \in Workers,
             beat[w].answer = "sent", beat'[w].answer = "populated"
      PROVE  credits' + beat[w].unseen >= Floor(beat[w].call)
  <2>1. Serve(w)
    BY <1>1, Arrivals
  <2>2. /\ beat[w] \in Beat /\ BeatOK(beat[w], now, credits) /\ credits \in Nat /\ CallCost \in Nat
        /\ beat[w].pc = "await"
    BY <1>1, OwnBeat, ConstantTypes DEF BeatOK, Beat, None
  <2>3. beat[w].remaining <= credits + beat[w].unseen /\ beat[w].remaining - CallCost >= Floor(beat[w].call)
    BY <1>1, <2>2 DEF BeatOK
  <2>4. beat[w].remaining \in Int /\ beat[w].unseen \in Nat /\ Floor(beat[w].call) \in Int
    BY <2>2, ConstantTypes DEF Beat, Floor, Highest, MinRemaining
  <2>5. credits' = credits \/ credits' = credits - CallCost \/ credits' = credits - 0
    BY <2>1 DEF Serve, Spend
  <2> QED
    BY <2>2, <2>3, <2>4, <2>5
<1>2. IInv /\ [Next]_vars =>
        \A w \in Workers : beat[w].answer = "sent" /\ beat'[w].answer = "populated" =>
            credits' + beat[w].unseen >= Floor(beat[w].call)
  BY <1>1
<1> QED
  BY <1>2, AlwaysInv, PTL DEF Spec, FloorKept

\* Quotes never go back to an older poll: a beat that resumes after another
\* took the lease finds the fence changed (_assert_lease) and stores nothing.
THEOREM ShownStaysInOrder == Spec => ShownInOrder
<1>1. ASSUME IInv, [Next]_vars PROVE \A e \in Events : shown'[e] >= shown[e]
  <2>1. \A e \in Events : shown[e] >= shown[e]
    BY <1>1 DEF IInv, TypeOK, Never
  <2>2. ASSUME NEW w \in Workers, Store(w) PROVE \A e \in Events : shown'[e] >= shown[e]
    BY <1>1, <2>2, StoreInv
  <2>3. ASSUME NEW w \in Workers, Working(w), ~Store(w) PROVE shown' = shown
    BY <2>3 DEF Working, LoseLease, Begin, ListFails, Plan, Dispatch, Serve, Receive, CallFailed,
       StoreFails, Clear, Finish, Fault, Crash, tables
  <2>4. CASE Tick \/ OthersSpend \/ (\E e \in Events : Postpone(e)) \/ UNCHANGED vars
    BY <2>1, <2>4 DEF Tick, OthersSpend, Postpone, vars, tables
  <2> QED
    BY <1>1, <2>1, <2>2, <2>3, <2>4 DEF Next
<1> QED
  BY <1>1, AlwaysInv, PTL DEF Spec, ShownInOrder

\* A populated answer is of another slot than every populated poll before it.
LEMMA ReceivedFresh ==
    ASSUME IInv, NEW w \in Workers, Receive(w), NEW q \in polls,
           q.event = beat[w].call.event, q.outcome = "complete"
    PROVE  LET t == beat[w].tips[beat[w].call.event]
           IN  SlotOf(t, q.completed) \cap SlotOf(t, now) = {}
<1> DEFINE b == beat[w]
           t == b.tips[b.call.event]
           i == b.call.window
<1>1. /\ b.pc = "await" /\ b \in Beat /\ BeatOK(b, now, credits) /\ HeldOK(b, polls, shown) /\ now \in Nat
      /\ polls \subseteq Poll
  BY OwnBeat DEF Receive, TableTypes
<1>2. b.began \in Nat /\ b.began <= now /\ b.call \in Call
  BY <1>1 DEF BeatOK
<1>3. i \in Indices /\ t \in Nat /\ q.completed \in Nat
  BY <1>1, <1>2 DEF Beat, Call, Poll
<1>4. Unbought(b, b.call, polls)
  BY <1>1 DEF HeldOK, Pending
<1>5. /\ InWindow(i, t, b.began) /\ q.completed <= b.began
      /\ q.completed < IF Windows[i].once THEN Opens(i, t)
                       ELSE Opens(i, t) + Slot(i, t, b.began) * Windows[i].cadence - Slack
  BY <1>4 DEF Unbought
<1> SUFFICES ASSUME NEW x, x \in SlotOf(t, q.completed), x \in SlotOf(t, now) PROVE FALSE
  OBVIOUS
<1> HIDE DEF t, i
<1>6. PICK j \in Indices : /\ InWindow(j, t, q.completed)
                           /\ x = <<j, IF Windows[j].once THEN 0 ELSE Slot(j, t, q.completed)>>
  BY DEF SlotOf
<1>7. PICK k \in Indices : /\ InWindow(k, t, now)
                           /\ x = <<k, IF Windows[k].once THEN 0 ELSE Slot(k, t, now)>>
  BY DEF SlotOf
<1>8. j = k
  BY <1>6, <1>7
<1>9. j = i
  <2>1. Opens(j, t) \in Int /\ Closes(j, t) \in Int
    BY <1>3, ClosesBefore
  <2>2. InWindow(j, t, b.began)
    BY <1>1, <1>2, <1>3, <1>5, <1>6, <1>7, <1>8, <2>1 DEF InWindow
  <2> QED
    BY <1>2, <1>3, <1>5, <2>2, OneWindow
<1>10. CASE Windows[i].once
  <2>1. Opens(i, t) \in Int
    BY <1>3, ClosesBefore
  <2> QED
    BY <1>3, <1>5, <1>6, <1>9, <1>10, <2>1 DEF InWindow
<1>11. CASE ~Windows[i].once
  <2>1. q.completed \in Int /\ q.completed < Opens(i, t) + Slot(i, t, b.began) * Windows[i].cadence - Slack
    BY <1>3, <1>5, <1>11
  <2>2. /\ Slot(i, t, q.completed) \in Int /\ Slot(i, t, now) \in Int
        /\ Slot(i, t, q.completed) < Slot(i, t, now)
    BY <1>1, <1>2, <1>3, <1>11, <2>1, SlotOrder
  <2>3. Slot(i, t, q.completed) = Slot(i, t, now)
    BY <1>6, <1>7, <1>8, <1>9, <1>11
  <2> QED
    BY <2>2, <2>3
<1> QED
  BY <1>10, <1>11

\* "A fault after the purchase never causes a second one" (run): no beat, late,
\* restarted or overlapping, writes a second populated poll of one slot.
THEOREM NoSlotBoughtTwice == Spec => SlotBoughtOnce
<1>1. ASSUME IInv, [Next]_vars, NEW w \in Workers,
             beat[w].pc = "await", beat'[w].pc = "store", NEW q \in polls,
             q.event = beat[w].call.event, q.outcome = "complete"
      PROVE  LET t == beat[w].tips[beat[w].call.event]
             IN  SlotOf(t, q.completed) \cap SlotOf(t, now) = {}
  BY <1>1, Arrivals, ReceivedFresh
<1>2. IInv /\ [Next]_vars =>
        \A w \in Workers :
          beat[w].pc = "await" /\ beat'[w].pc = "store" /\ beat[w].answer = "populated" =>
              LET e == beat[w].call.event
                  t == beat[w].tips[e]
              IN  \A q \in polls : q.event = e /\ q.outcome = "complete" =>
                      SlotOf(t, q.completed) \cap SlotOf(t, now) = {}
  BY <1>1
<1> QED
  BY <1>2, AlwaysInv, PTL DEF Spec, SlotBoughtOnce

-----------------------------------------------------------------------------
(***************************************************************************)
(* The budget.                                                             *)
(***************************************************************************)

\* The slots of a window that the last populated poll served or passed.
Served(i, t, populated) ==
    IF populated = Never THEN 0
    ELSE Highest((populated + Slack - Opens(i, t)) \div Windows[i].cadence + 1, 0)

\* The paid calls that one window can still get, when it was last polled then.
Left(i, t, at, tier, populated) ==
    IF tier \notin Windows[i].tiers \/ Highest(Opens(i, t), at) >= Closes(i, t) THEN 0
    ELSE IF Windows[i].once THEN IF PopulatedIn(i, t, populated) THEN 0 ELSE 1
    ELSE Highest(Slots(i, t) - Highest(Slot(i, t, at), Served(i, t, populated)), 0)

Ticks == Nat \cup {Never}

\* The slot of a time is still to be served.
Unserved(i, t, at, populated) ==
    \/ populated = Never
    \/ populated < IF Windows[i].once THEN Opens(i, t)
                   ELSE Opens(i, t) + Slot(i, t, at) * Windows[i].cadence - Slack

\* The numbers of a window that Left is made of.
LEMMA SlotParts ==
    ASSUME NEW i \in Indices, ~Windows[i].once, NEW t \in Nat
    PROVE  /\ Slots(i, t) \in Int
           /\ \A x \in Int : Slot(i, t, x) \in Int /\ Slot(i, t, x) <= Slots(i, t) - 1
           /\ \A x, y \in Int : x <= y => Slot(i, t, x) <= Slot(i, t, y)
           /\ \A p \in Ticks : Served(i, t, p) \in Nat
           /\ \A p, q \in Ticks : p <= q => Served(i, t, p) <= Served(i, t, q)
           /\ \A x \in Int, p \in Nat : x <= p => Slot(i, t, x) + 1 <= Served(i, t, p)
           /\ \A x \in Int : InWindow(i, t, x) => 0 <= Slot(i, t, x)
           /\ \A x \in Int, p \in Ticks : InWindow(i, t, x) /\ Unserved(i, t, x, p) => Served(i, t, p) <= Slot(i, t, x)
<1> DEFINE d == Windows[i].cadence
           o == Opens(i, t)
           z == Closes(i, t)
           last == Slots(i, t) - 1
           q(v) == (v + Slack - o) \div d
<1>1. d \in Nat \ {0} /\ o \in Int /\ z \in Int /\ Slack \in Nat
  BY WindowTypes, ClosesBefore, ConstantTypes
<1>2. Slots(i, t) = (z - o + d - 1) \div d /\ Slots(i, t) \in Int /\ last \in Int
  BY <1>1, Division DEF Slots
<1>3. \A v \in Int : q(v) \in Int /\ Slot(i, t, v) = IF q(v) < last THEN q(v) ELSE last
  BY <1>1, Division DEF Slot, Lowest
<1>4. \A x, y \in Int : x <= y => q(x) <= q(y)
  <2> TAKE x, y \in Int
  <2> HAVE x <= y
  <2>1. x + Slack - o \in Int /\ y + Slack - o \in Int /\ x + Slack - o <= y + Slack - o
    BY <1>1
  <2> QED
    BY <1>1, <2>1, Division
<1>5. \A p \in Nat : Served(i, t, p) = IF q(p) + 1 > 0 THEN q(p) + 1 ELSE 0
  BY <1>1, <1>3 DEF Served, Highest, Never
<1>6. Served(i, t, Never) = 0
  BY DEF Served
<1>7. o < z => 0 <= last
  <2> SUFFICES ASSUME o < z PROVE 0 <= last
    OBVIOUS
  <2>1. d <= z - o + d - 1 /\ z - o + d - 1 \in Int /\ d \in Int
    BY <1>1
  <2>2. d \div d = 1
    BY <1>1
  <2>3. d \div d <= (z - o + d - 1) \div d
    BY <1>1, <2>1, Division
  <2> QED
    BY <1>2, <2>2, <2>3
<1>8. ASSUME NEW x \in Int, InWindow(i, t, x) PROVE 0 <= q(x) /\ o < z
  <2>1. o <= x /\ x < z
    BY <1>8 DEF InWindow
  <2>2. 0 <= x + Slack - o /\ x + Slack - o \in Int
    BY <1>1, <2>1
  <2>3. 0 \div d = 0
    BY <1>1
  <2>4. 0 \div d <= (x + Slack - o) \div d
    BY <1>1, <2>2, Division
  <2> QED
    BY <1>1, <2>1, <2>3, <2>4
<1>9. ASSUME NEW x \in Int, NEW p \in Ticks, InWindow(i, t, x), Unserved(i, t, x, p)
      PROVE  Served(i, t, p) <= Slot(i, t, x)
  <2>1. 0 <= Slot(i, t, x)
    BY <1>2, <1>3, <1>7, <1>8, <1>9
  <2>2. CASE p = Never
    BY <1>6, <2>1, <2>2
  <2>3. CASE p # Never
    <3>1. PICK k \in Int : k = Slot(i, t, x)
      BY <1>2, <1>3
    <3>2. p \in Nat /\ p + Slack - o < k * d /\ p + Slack - o \in Int
      BY <1>1, <1>9, <2>3, <3>1 DEF Ticks, Unserved
    <3>3. q(p) < k
      BY <1>1, <3>2, Division
    <3> HIDE DEF q
    <3> QED
      BY <1>3, <1>5, <2>1, <3>1, <3>2, <3>3
  <2> QED
    BY <2>2, <2>3
<1> HIDE DEF q, last
<1>10. \A x \in Int : Slot(i, t, x) \in Int /\ Slot(i, t, x) <= Slots(i, t) - 1
  BY <1>2, <1>3 DEF last
<1>11. \A x, y \in Int : x <= y => Slot(i, t, x) <= Slot(i, t, y)
  <2> TAKE x, y \in Int
  <2> HAVE x <= y
  <2>1. q(x) <= q(y)
    BY <1>4
  <2> QED
    BY <1>2, <1>3, <2>1
<1>12. \A p \in Ticks : Served(i, t, p) \in Nat
  BY <1>3, <1>5, <1>6 DEF Ticks
<1>13. \A p, r \in Ticks : p <= r => Served(i, t, p) <= Served(i, t, r)
  <2> TAKE p, r \in Ticks
  <2> HAVE p <= r
  <2>1. CASE p = Never
    BY <1>6, <1>12, <2>1
  <2>2. CASE p # Never
    <3>1. p \in Nat /\ r \in Nat
      BY <2>2 DEF Ticks, Never
    <3>2. q(p) <= q(r)
      BY <1>4, <3>1
    <3> QED
      BY <1>3, <1>5, <3>1, <3>2
  <2> QED
    BY <2>1, <2>2
<1>14. \A x \in Int, p \in Nat : x <= p => Slot(i, t, x) + 1 <= Served(i, t, p)
  <2> TAKE x \in Int, p \in Nat
  <2> HAVE x <= p
  <2>1. q(x) <= q(p) /\ p \in Int
    BY <1>4
  <2>2. q(x) \in Int /\ q(p) \in Int /\ Slot(i, t, x) <= q(x) /\ Slot(i, t, x) \in Int
    BY <1>2, <1>3
  <2>3. q(p) + 1 <= Served(i, t, p) /\ Served(i, t, p) \in Int
    BY <1>5, <2>2
  <2> QED
    BY <2>1, <2>2, <2>3
<1>15. \A x \in Int : InWindow(i, t, x) => 0 <= Slot(i, t, x)
  BY <1>2, <1>3, <1>7, <1>8
<1> QED
  BY <1>2, <1>9, <1>10, <1>11, <1>12, <1>13, <1>14, <1>15

\* Left never grows: neither with time nor with another poll.
LEMMA LeftOrder ==
    ASSUME NEW i \in Indices, NEW t \in Nat, NEW tier, NEW at \in Nat, NEW later \in Nat, at <= later,
           NEW p \in Ticks, NEW after \in Ticks, p <= after
    PROVE  /\ Left(i, t, at, tier, p) \in Nat /\ Left(i, t, later, tier, after) \in Nat
           /\ Left(i, t, later, tier, after) <= Left(i, t, at, tier, p)
<1>1. Opens(i, t) \in Int /\ Closes(i, t) \in Int
  BY ClosesBefore
<1>2. CASE Windows[i].once
  <2>1. PopulatedIn(i, t, p) => PopulatedIn(i, t, after)
    BY <1>1 DEF PopulatedIn, Ticks, Never
  <2>2. Highest(Opens(i, t), at) <= Highest(Opens(i, t), later)
    BY <1>1 DEF Highest
  <2>3. Highest(Opens(i, t), at) \in Int /\ Highest(Opens(i, t), later) \in Int
    BY <1>1 DEF Highest
  <2> QED
    BY <1>1, <1>2, <2>1, <2>2, <2>3 DEF Left
<1>3. CASE ~Windows[i].once
  <2>1. /\ Slots(i, t) \in Int /\ Slot(i, t, at) \in Int /\ Slot(i, t, later) \in Int
        /\ Served(i, t, p) \in Nat /\ Served(i, t, after) \in Nat
        /\ Slot(i, t, at) <= Slot(i, t, later) /\ Served(i, t, p) <= Served(i, t, after)
    <3>1. at \in Int /\ later \in Int
      OBVIOUS
    <3> QED
      BY <1>3, <3>1, SlotParts
  <2>2. Highest(Opens(i, t), at) <= Highest(Opens(i, t), later)
    BY <1>1 DEF Highest
  <2>3. Highest(Opens(i, t), at) \in Int /\ Highest(Opens(i, t), later) \in Int
    BY <1>1 DEF Highest
  <2> DEFINE x == Highest(Slots(i, t) - Highest(Slot(i, t, at), Served(i, t, p)), 0)
             y == Highest(Slots(i, t) - Highest(Slot(i, t, later), Served(i, t, after)), 0)
  <2>4. x \in Nat /\ y \in Nat /\ y <= x
    BY <2>1 DEF Highest
  <2> HIDE DEF x, y
  <2>5. /\ Left(i, t, at, tier, p)
              = IF tier \notin Windows[i].tiers \/ Highest(Opens(i, t), at) >= Closes(i, t) THEN 0 ELSE x
        /\ Left(i, t, later, tier, after)
              = IF tier \notin Windows[i].tiers \/ Highest(Opens(i, t), later) >= Closes(i, t) THEN 0 ELSE y
    BY <1>3 DEF Left, x, y
  <2> QED
    BY <1>1, <2>2, <2>3, <2>4, <2>5
<1> QED
  BY <1>2, <1>3

\* The budget counts at least what is left.
LEMMA LeftCounted ==
    ASSUME NEW i \in Indices, NEW t \in Nat, NEW tier, NEW at \in Nat, NEW e, LastPopulated(e) \in Ticks
    PROVE  Left(i, t, at, tier, LastPopulated(e)) <= Counted(i, e, t, at, tier)
<1>1. CASE tier \notin Windows[i].tiers \/ Highest(Opens(i, t), at) >= Closes(i, t)
  BY <1>1 DEF Left, Counted
<1>2. CASE Windows[i].once
  BY <1>2 DEF Left, Counted
<1>3. CASE ~Windows[i].once
  <2>1. /\ Slots(i, t) \in Int /\ Slot(i, t, at) \in Int /\ Slot(i, t, at) <= Slots(i, t) - 1
        /\ Served(i, t, LastPopulated(e)) \in Nat
    <3>1. at \in Int
      OBVIOUS
    <3> QED
      BY <1>3, <3>1, SlotParts
  <2>2. /\ Opens(i, t) \in Int /\ Closes(i, t) \in Int
        /\ ~(Highest(Opens(i, t), at) >= Closes(i, t)) => Slots(i, t) >= 1
    <3>1. Opens(i, t) \in Int /\ Closes(i, t) \in Int
      BY ClosesBefore
    <3>2. SUFFICES ASSUME ~(Highest(Opens(i, t), at) >= Closes(i, t)) PROVE Slots(i, t) >= 1
      BY <3>1
    <3>3. InWindow(i, t, Opens(i, t))
      BY <3>1, <3>2 DEF InWindow, Highest
    <3>4. 0 <= Slot(i, t, Opens(i, t)) /\ Slot(i, t, Opens(i, t)) <= Slots(i, t) - 1
          /\ Slot(i, t, Opens(i, t)) \in Int
      BY <1>3, <3>1, <3>3, SlotParts
    <3> QED
      BY <2>1, <3>4
  <2> DEFINE x == Highest(Slots(i, t) - Highest(Slot(i, t, at), Served(i, t, LastPopulated(e))), 0)
             y == Slots(i, t) - Highest(Slot(i, t, at), 0)
  <2>3. Slots(i, t) >= 1 => x <= y
    BY <2>1 DEF Highest
  <2> HIDE DEF x, y
  <2>4. /\ Left(i, t, at, tier, LastPopulated(e))
              = IF tier \notin Windows[i].tiers \/ Highest(Opens(i, t), at) >= Closes(i, t) THEN 0 ELSE x
        /\ Counted(i, e, t, at, tier)
              = IF tier \notin Windows[i].tiers \/ Highest(Opens(i, t), at) >= Closes(i, t) THEN 0 ELSE y
    BY <1>3 DEF Left, Counted, x, y
  <2> QED
    BY <1>1, <2>2, <2>3, <2>4
<1> QED
  BY <1>2, <1>3

\* A populated poll of a slot that was not yet served uses up one.
LEMMA LeftSpent ==
    ASSUME NEW i \in Indices, NEW t \in Nat, NEW tier \in Windows[i].tiers, NEW at \in Nat,
           InWindow(i, t, at), NEW p \in Ticks,
           Unserved(i, t, at, p),
           NEW m \in Nat, at <= m
    PROVE  Left(i, t, at, tier, m) + 1 <= Left(i, t, at, tier, p)
<1>1. Opens(i, t) \in Int /\ Closes(i, t) \in Int /\ Opens(i, t) <= at /\ at < Closes(i, t)
  BY ClosesBefore DEF InWindow
<1>2. ~(tier \notin Windows[i].tiers \/ Highest(Opens(i, t), at) >= Closes(i, t))
  BY <1>1 DEF Highest
<1>3. CASE Windows[i].once
  <2>1. ~PopulatedIn(i, t, p) /\ PopulatedIn(i, t, m)
    BY <1>1, <1>3 DEF PopulatedIn, Unserved, Ticks, Never
  <2> QED
    BY <1>2, <1>3, <2>1 DEF Left
<1>4. CASE ~Windows[i].once
  <2>1. /\ Slots(i, t) \in Int /\ Slot(i, t, at) \in Int /\ Slot(i, t, at) <= Slots(i, t) - 1
        /\ 0 <= Slot(i, t, at)
        /\ Served(i, t, p) \in Nat /\ Served(i, t, m) \in Nat /\ Slot(i, t, at) + 1 <= Served(i, t, m)
    <3>1. m \in Ticks /\ at \in Int
      BY DEF Ticks
    <3> QED
      BY <1>4, <3>1, SlotParts
  <2>2. Served(i, t, p) <= Slot(i, t, at)
    <3>1. at \in Int
      OBVIOUS
    <3> QED
      BY <1>4, <3>1, SlotParts
  <2> DEFINE x == Highest(Slots(i, t) - Highest(Slot(i, t, at), Served(i, t, p)), 0)
             y == Highest(Slots(i, t) - Highest(Slot(i, t, at), Served(i, t, m)), 0)
  <2>3. y + 1 <= x
    BY <2>1, <2>2 DEF Highest
  <2> HIDE DEF x, y
  <2>4. Left(i, t, at, tier, p) = x /\ Left(i, t, at, tier, m) = y
    BY <1>2, <1>4 DEF Left, x, y
  <2> QED
    BY <2>3, <2>4
<1> QED
  BY <1>3, <1>4

\* The ledger as the budget sees it.
PopulatedOf(ledger, e) == Latest({r.completed : r \in {q \in ledger : q.event = e /\ q.outcome = "complete"}})
ClosedIn(ledger, e, t) == \E r \in ledger : r.event = e /\ r.closing /\ r.tip = t

LeftOf(t, at, tier, populated) == [i \in Indices |-> Left(i, t, at, tier, populated)]

\* The paid calls a game can still get from beats that begin at a time or later.
Remaining(ledger, e, t, at, tier) ==
    IF ClosedIn(ledger, e, t) THEN 0 ELSE Total(LeftOf(t, at, tier, PopulatedOf(ledger, e)))

LEMMA PopulatedTicks ==
    ASSUME NEW ledger \in SUBSET Poll, NEW m \in Nat, \A q \in ledger : q.completed <= m, NEW e
    PROVE  /\ PopulatedOf(ledger, e) \in Ticks
           /\ \/ PopulatedOf(ledger, e) = Never
              \/ \E q \in ledger : q.event = e /\ q.outcome = "complete" /\ q.completed = PopulatedOf(ledger, e)
           /\ \A q \in ledger : q.event = e /\ q.outcome = "complete" => q.completed <= PopulatedOf(ledger, e)
<1> DEFINE T == {r.completed : r \in {q \in ledger : q.event = e /\ q.outcome = "complete"}}
<1>1. T \in SUBSET Nat /\ \A x \in T : x <= m
  BY DEF Poll
<1>2. PopulatedOf(ledger, e) = Latest(T)
  BY Zenon DEF PopulatedOf
<1>3. T = {} => Latest(T) = Never
  BY DEF Latest
<1>4. \A x \in T : Latest(T) \in T /\ x <= Latest(T)
  <2> HIDE DEF T
  <2> QED
    BY <1>1, LatestBounds
<1>5. \A q \in ledger : q.event = e /\ q.outcome = "complete" => q.completed \in T
  OBVIOUS
<1>6. \A x \in T : \E q \in ledger : q.event = e /\ q.outcome = "complete" /\ q.completed = x
  OBVIOUS
<1> HIDE DEF T
<1> QED
  BY <1>1, <1>2, <1>3, <1>4, <1>5, <1>6 DEF Ticks

\* More polls are never earlier ones.
LEMMA PopulatedGrows ==
    ASSUME NEW after \in SUBSET Poll, NEW ledger \in SUBSET after,
           NEW m \in Nat, \A q \in after : q.completed <= m, NEW e
    PROVE  /\ PopulatedOf(ledger, e) \in Ticks /\ PopulatedOf(after, e) \in Ticks
           /\ PopulatedOf(ledger, e) <= PopulatedOf(after, e)
<1>1. ledger \in SUBSET Poll /\ \A q \in ledger : q.completed <= m
  OBVIOUS
<1>2. PICK x \in Ticks : x = PopulatedOf(after, e)
  BY PopulatedTicks
<1>3. \A q \in ledger : q.event = e /\ q.outcome = "complete" => q.completed <= x
  BY <1>2, PopulatedTicks
<1>4. /\ PopulatedOf(ledger, e) \in Ticks
      /\ \/ PopulatedOf(ledger, e) = Never
         \/ \E q \in ledger : q.event = e /\ q.outcome = "complete" /\ q.completed = PopulatedOf(ledger, e)
  BY <1>1, PopulatedTicks
<1> QED
  BY <1>2, <1>3, <1>4 DEF Ticks, Never

LEMMA TotalNat ==
    ASSUME NEW c \in [Indices -> Int], \A i \in Indices : 0 <= c[i]
    PROVE  Total(c) \in Nat
<1> DEFINE zero == [i \in Indices |-> 0]
<1>1. zero \in [Indices -> Int] /\ SumsTo(zero, 0) /\ \A i \in Indices : zero[i] = 0
  <2>1. Sums(zero, [i \in 0 .. Len(Windows) |-> 0])
    BY WindowTypes DEF Sums, Indices
  <2> QED
    BY <2>1, WindowTypes DEF SumsTo
<1> HIDE DEF zero
<1>2. Total(c) \in Int /\ SumsTo(c, Total(c))
  BY TotalIsSum
<1>3. 0 <= Total(c)
  BY <1>1, <1>2, TotalsCompare
<1> QED
  BY <1>2, <1>3

\* What is left of a game does not grow with time, nor with a poll.
LEMMA RemainingOrder ==
    ASSUME NEW after \in SUBSET Poll, NEW ledger \in SUBSET after,
           NEW m \in Nat, \A q \in after : q.completed <= m, NEW e, NEW t \in Nat, NEW tier,
           NEW at \in Nat, NEW later \in Nat, at <= later
    PROVE  /\ Remaining(ledger, e, t, at, tier) \in Nat /\ Remaining(after, e, t, later, tier) \in Nat
           /\ Remaining(after, e, t, later, tier) <= Remaining(ledger, e, t, at, tier)
<1>1. PICK p \in Ticks, x \in Ticks : p = PopulatedOf(ledger, e) /\ x = PopulatedOf(after, e) /\ p <= x
  BY PopulatedGrows
<1> DEFINE c == LeftOf(t, later, tier, x)
           d == LeftOf(t, at, tier, p)
<1>2. \A i \in Indices : /\ Left(i, t, at, tier, p) \in Nat /\ Left(i, t, later, tier, x) \in Nat
                         /\ Left(i, t, later, tier, x) <= Left(i, t, at, tier, p)
  BY <1>1, LeftOrder
<1>3. c \in [Indices -> Int] /\ d \in [Indices -> Int] /\ \A i \in Indices : 0 <= c[i] /\ c[i] <= d[i]
  BY <1>2 DEF LeftOf
<1> HIDE DEF c, d
<1>5. SumsTo(c, Total(c)) /\ SumsTo(d, Total(d)) /\ Total(c) \in Int /\ Total(d) \in Int
  BY <1>3, TotalIsSum
<1>6. Total(c) <= Total(d)
  BY <1>3, <1>5, TotalsCompare
<1>7. Total(c) \in Nat
  BY <1>3, TotalNat
<1>8. ClosedIn(ledger, e, t) => ClosedIn(after, e, t)
  BY DEF ClosedIn
<1> QED
  BY <1>1, <1>5, <1>6, <1>7, <1>8 DEF Remaining, c, d

\* The populated poll of a planned call uses up one of the calls that remain.
LEMMA RemainingSpent ==
    ASSUME NEW b \in Beat, b.began \in Nat, NEW c \in Call, NEW q \in Poll,
           q.event = c.event, q.outcome = "complete", b.began <= q.completed,
           NEW ledger \in SUBSET Poll, \A r \in ledger : r.completed <= q.completed,
           Unbought(b, c, ledger), ~ClosedIn(ledger, c.event, b.tips[c.event]),
           NEW tier \in Windows[c.window].tiers
    PROVE  /\ Remaining(ledger, c.event, b.tips[c.event], b.began, tier) \in Int
           /\ Remaining(ledger \cup {q}, c.event, b.tips[c.event], b.began, tier) + 1
                <= Remaining(ledger, c.event, b.tips[c.event], b.began, tier)
           /\ Remaining(ledger \cup {q}, c.event, b.tips[c.event], b.began, tier) \in Nat
<1> DEFINE e == c.event
           t == b.tips[c.event]
           k == c.window
           after == ledger \cup {q}
<1>1. e \in Events /\ t \in Nat /\ k \in Indices /\ q.completed \in Nat
  BY DEF Call, Beat, Poll
<1>2. /\ after \in SUBSET Poll /\ ledger \in SUBSET after /\ q \in after
      /\ \A r \in after : r.completed <= q.completed
  BY <1>1
<1>3. /\ InWindow(k, t, b.began)
      /\ \A r \in ledger : r.event = e /\ r.outcome = "complete" =>
            r.completed < IF Windows[k].once THEN Opens(k, t)
                          ELSE Opens(k, t) + Slot(k, t, b.began) * Windows[k].cadence - Slack
  BY DEF Unbought
<1> HIDE DEF after
<1>4. PICK p \in Ticks : p = PopulatedOf(ledger, e) /\ Unserved(k, t, b.began, p)
  <2>1. /\ PopulatedOf(ledger, e) \in Ticks
        /\ \/ PopulatedOf(ledger, e) = Never
           \/ \E r \in ledger : r.event = e /\ r.outcome = "complete" /\ r.completed = PopulatedOf(ledger, e)
    BY <1>1, PopulatedTicks
  <2> QED
    BY <1>3, <2>1 DEF Unserved
<1>5. PopulatedOf(after, e) = q.completed
  <2>1. PICK x \in Ticks : x = PopulatedOf(after, e)
    BY <1>1, <1>2, PopulatedTicks
  <2>2. q.completed <= x
    BY <1>1, <1>2, <2>1, PopulatedTicks
  <2>3. x = Never \/ x <= q.completed
    BY <1>1, <1>2, <2>1, PopulatedTicks
  <2> QED
    BY <1>1, <2>1, <2>2, <2>3 DEF Ticks, Never
<1> DEFINE f == LeftOf(t, b.began, tier, q.completed)
           g == LeftOf(t, b.began, tier, p)
<1>6. q.completed \in Ticks /\ p <= q.completed
  <2>1. PopulatedOf(ledger, e) <= PopulatedOf(after, e)
    BY <1>1, <1>2, PopulatedGrows
  <2> QED
    BY <1>1, <1>4, <1>5, <2>1 DEF Ticks
<1>7. \A i \in Indices : /\ Left(i, t, b.began, tier, p) \in Nat /\ Left(i, t, b.began, tier, q.completed) \in Nat
                         /\ Left(i, t, b.began, tier, q.completed) <= Left(i, t, b.began, tier, p)
  BY <1>1, <1>6, LeftOrder
<1>8. Left(k, t, b.began, tier, q.completed) + 1 <= Left(k, t, b.began, tier, p)
  BY <1>1, <1>3, <1>4, LeftSpent
<1>9. /\ f \in [Indices -> Int] /\ g \in [Indices -> Int] /\ \A i \in Indices : f[i] <= g[i]
      /\ f[k] + 1 <= g[k]
  BY <1>1, <1>7, <1>8 DEF LeftOf
<1> HIDE DEF f, g
<1>10. SumsTo(f, Total(f)) /\ SumsTo(g, Total(g)) /\ Total(f) \in Int /\ Total(g) \in Int
  BY <1>9, TotalIsSum
<1>11. Total(f) + 1 <= Total(g)
  BY <1>1, <1>9, <1>10, TotalsCompare
<1>12. /\ Remaining(ledger, e, t, b.began, tier) = Total(g)
       /\ Remaining(after, e, t, b.began, tier) = IF ClosedIn(after, e, t) THEN 0 ELSE Total(f)
  BY <1>4, <1>5 DEF Remaining, f, g
<1>13. Remaining(after, e, t, b.began, tier) \in Nat
  BY <1>1, <1>2, RemainingOrder
<1>14. 0 <= Total(f)
  <2>1. \A i \in Indices : 0 <= f[i]
    BY <1>7 DEF f, LeftOf
  <2> QED
    BY <1>9, <2>1, TotalNat
<1> QED
  BY <1>10, <1>11, <1>12, <1>13, <1>14 DEF after

-----------------------------------------------------------------------------

\* What a planned call still finds when its answer comes.
Wanted(b, c, ledger, tier) ==
    /\ tier # 4 /\ Tiers[tier] \in Windows[c.window].tiers
    /\ ~ClosedIn(ledger, c.event, b.tips[c.event])

WantedInv == \A w \in Workers : Holds(w) => \A c \in Pending(beat[w]) : Wanted(beat[w], c, polls, quota.tier)

\* The times from which the present beat or a later one plans.
Starts == {now} \cup {beat[w].began : w \in {v \in Workers : Holds(v) /\ beat[v].pc # "idle"}}

\* Every count of the budget covers what remains.
Covers(e, n) ==
    /\ n >= 0
    /\ quota.tier # 4 => \A at \in Starts : Remaining(polls, e, tip[e], at, Tiers[quota.tier]) <= n

CountsInv == \A e \in Events : ~Restarted(e) => \A n \in budget[e] : Covers(e, n)

\* The holder goes on with its plan.
Goes(w) ==
    /\ Holds(w) /\ quota'.tier = quota.tier
    /\ beat'[w].tips = beat[w].tips /\ beat'[w].began = beat[w].began
    /\ beat[w].pc = "idle" => beat'[w].pc = "idle"
    /\ Pending(beat'[w]) \subseteq Pending(beat[w])
    /\ \A r \in polls' : r \in polls \/ \A c \in Pending(beat'[w]) : r.event # c.event

\* The holder has no plan: it has just begun or was lost.
Empties(w) == Pending(beat'[w]) = {} /\ (beat'[w].pc = "idle" \/ beat'[w].began = now)

\* A beat of which only the counts of credits change.
Same(b, r) == /\ r.pc = b.pc /\ r.tips = b.tips /\ r.began = b.began /\ r.calls = b.calls /\ r.call = b.call

LEMMA SameGoes ==
    ASSUME NEW w \in Workers, Holds(w), quota'.tier = quota.tier, polls' = polls, Same(beat[w], beat'[w])
    PROVE  Goes(w)
BY DEF Goes, Same, Pending

LEMMA EndedLease ==
    ASSUME NEW v \in Workers, End(v), None \notin Workers
    PROVE  lease'.holder # v /\ lease'.holder \in {lease.holder, None}
BY DEF End, Holds

\* The steps of the others leave the holder alone.
LEMMA OthersGo ==
    ASSUME IInv, NEW v \in Workers, Working(v), NEW w \in Workers, w # v, lease'.holder = w
    PROVE  Goes(w)
<1>1. beat \in [Workers -> Beat] /\ beat[w] \in Beat /\ lease \in Grant /\ w # None
  BY OwnBeat, TypeParts, OddsAssumption DEF IInv, TableTypes
<1>2. CASE Serve(v)
  <2>1. \/ beat'[w] = beat[w]
        \/ \E cost : beat'[w] = [beat[w] EXCEPT !.unseen = @ + cost]
    BY <1>1, <1>2 DEF Serve, Spend, Set
  <2>2. Same(beat[w], beat'[w])
    BY <1>1, <2>1 DEF Beat, Same
  <2> QED
    BY <1>2, <2>2, SameGoes DEF Serve, tables, Holds
<1>3. CASE LoseLease(v) \/ Finish(v) \/ Fault(v) \/ Crash(v)
  <2>1. beat' = [beat EXCEPT ![v] = Idle] /\ quota' = quota /\ polls' = polls
    BY <1>3 DEF LoseLease, Finish, Fault, Crash, End, Set, tables
  <2>2. lease'.holder \in {lease.holder, None}
    BY <1>3 DEF LoseLease, Finish, Fault, Crash, End, tables
  <2>3. Same(beat[w], beat'[w])
    BY <1>1, <2>1 DEF Same
  <2> QED
    BY <1>1, <2>1, <2>2, <2>3, SameGoes DEF Holds
<1>4. CASE Begin(v)
  BY <1>1, <1>4 DEF Begin
<1>5. CASE \/ ListFails(v) \/ Plan(v) \/ Dispatch(v) \/ Receive(v) \/ CallFailed(v) \/ Store(v)
           \/ StoreFails(v) \/ Clear(v)
  <2>1. Holds(v)
    BY <1>5 DEF ListFails, Plan, Dispatch, Receive, CallFailed, Store, StoreFails, Clear, Stores
  <2>2. CASE End(v)
    BY <1>1, <2>1, <2>2, OddsAssumption, EndedLease DEF Holds
  <2>3. CASE Dispatch(v)
    <3>1. lease' = [lease EXCEPT !.expires = now + LeaseTicks]
      BY <2>3 DEF Dispatch
    <3>2. lease'.holder = lease.holder
      BY <1>1, <3>1 DEF Grant
    <3> QED
      BY <2>1, <3>2 DEF Holds
  <2>4. CASE ~End(v) /\ ~Dispatch(v)
    <3>1. lease' = lease
      BY <1>5, <2>4 DEF ListFails, Plan, Receive, CallFailed, Store, StoreFails, Clear
    <3> QED
      BY <2>1, <3>1 DEF Holds
  <2> QED
    BY <2>2, <2>3, <2>4
<1> QED
  BY <1>2, <1>3, <1>4, <1>5 DEF Working

LEMMA OwnGoes ==
    ASSUME IInv, NEW w \in Workers, Working(w), lease'.holder = w
    PROVE  Goes(w) \/ Plan(w) \/ Empties(w)
<1> DEFINE b == beat[w]
<1>1. /\ beat \in [Workers -> Beat] /\ b \in Beat /\ lease \in Grant /\ w # None
      /\ BeatOK(b, now, credits) /\ now \in Nat
  BY OwnBeat, TypeParts, OddsAssumption DEF IInv, TableTypes
<1>2. ASSUME NEW r, beat' = [beat EXCEPT ![w] = r] PROVE beat'[w] = r
  BY <1>1, <1>2
<1>3. CASE LoseLease(w) \/ ListFails(w) \/ StoreFails(w) \/ Finish(w) \/ Fault(w)
  <2>1. lease'.holder # w
    <3>1. CASE LoseLease(w)
      BY <3>1 DEF LoseLease, Holds, tables
    <3>2. CASE ~LoseLease(w)
      <4>1. End(w)
        BY <1>3, <3>2 DEF ListFails, StoreFails, Finish, Fault
      <4> QED
        BY <4>1, OddsAssumption, EndedLease
    <3> QED
      BY <3>1, <3>2
  <2> QED
    BY <2>1
<1>4. CASE Crash(w)
  <2>1. beat'[w] = Idle
    BY <1>2, <1>4 DEF Crash, Set
  <2> QED
    BY <2>1 DEF Empties, Idle, Pending
<1>5. CASE Begin(w)
  <2>1. beat'[w] = [Idle EXCEPT !.pc = "list", !.began = now]
    BY <1>1, <1>2, <1>5 DEF Begin, Set
  <2> QED
    BY <2>1 DEF Empties, Idle, Pending
<1>6. CASE Dispatch(w)
  <2>1. PICK c, rest :
          /\ rest \subseteq b.calls /\ c \in b.calls
          /\ \/ beat'[w] = [b EXCEPT !.pc = "await", !.calls = rest, !.call = c, !.answer = "sent"]
             \/ beat'[w] = [b EXCEPT !.calls = rest]
    <3>1. First(w) \in b.calls
      BY <1>1, <1>6, FirstPlanned DEF Dispatch, BeatOK
    <3>2. b.calls \ {First(w)} \subseteq b.calls
      OBVIOUS
    <3>3. \/ beat' = [beat EXCEPT ![w] = [b EXCEPT !.pc = "await", !.calls = b.calls \ {First(w)}, !.call = First(w),
                                                  !.answer = "sent"]]
          \/ beat' = [beat EXCEPT ![w] = [b EXCEPT !.calls = b.calls \ {First(w)}]]
      BY <1>6, Zenon DEF Dispatch, Set
    <3>4. \/ beat'[w] = [b EXCEPT !.pc = "await", !.calls = b.calls \ {First(w)}, !.call = First(w),
                                                  !.answer = "sent"]
          \/ beat'[w] = [b EXCEPT !.calls = b.calls \ {First(w)}]
      BY <1>2, <3>3
    <3> QED
      BY <3>1, <3>2, <3>4
  <2>2. /\ Holds(w) /\ b.pc = "calls" /\ quota' = quota /\ polls' = polls
    BY <1>6 DEF Dispatch
  <2>3. /\ beat'[w].tips = b.tips /\ beat'[w].began = b.began /\ beat'[w].calls \subseteq b.calls
        /\ beat'[w].pc = "await" => beat'[w].call = c
    BY <1>1, <2>1, <2>2, ZenonT(60) DEF Beat
  <2>4. Pending(b) = b.calls /\ Pending(beat'[w]) \subseteq b.calls
    BY <2>1, <2>2, <2>3 DEF Pending
  <2> QED
    BY <2>2, <2>3, <2>4 DEF Goes
<1>7. CASE Serve(w)
  <2>1. \/ \E a, m : beat'[w] = [b EXCEPT !.answer = a, !.remaining = m, !.unseen = 0]
        \/ \E a : beat'[w] = [b EXCEPT !.answer = a]
    <3>1. \/ beat'[w] = Answered(w, "populated", credits - CallCost)
          \/ beat'[w] = Answered(w, "empty", credits)
          \/ \E a : beat' = [beat EXCEPT ![w] = [b EXCEPT !.answer = a]]
      BY <1>7 DEF Serve, Spend, Set
    <3> QED
      BY <1>1, <3>1, ZenonT(60) DEF Answered
  <2>2. Same(b, beat'[w])
    BY <1>1, <2>1 DEF Same, Beat
  <2> QED
    BY <1>7, <2>2, SameGoes DEF Serve, tables, Holds
<1>8. ASSUME beat' = [beat EXCEPT ![w] = Done(b)], Holds(w), quota'.tier = quota.tier, polls' = polls,
             b.pc \notin {"idle", "list"}
      PROVE  Goes(w)
  <2>1. beat'[w] = Done(b)
    BY <1>2, <1>8
  <2>2. /\ Done(b).pc = "calls" /\ Done(b).calls = b.calls /\ Done(b).tips = b.tips /\ Done(b).began = b.began
    BY <1>1 DEF Done, Beat
  <2> QED
    BY <1>8, <2>1, <2>2 DEF Goes, Pending
<1>9. CASE Receive(w)
  <2>1. /\ Holds(w) /\ quota' = quota /\ b.pc = "await"
    BY <1>9 DEF Receive
  <2>2. CASE Crossed(w)
    <3>1. polls' = polls /\ beat' = [beat EXCEPT ![w] = Done(b)]
      BY <1>9, <2>2 DEF Receive, Set
    <3> QED
      BY <1>8, <2>1, <3>1
  <2>3. CASE ~Crossed(w)
    <3>1. beat' = [beat EXCEPT ![w] = [b EXCEPT !.pc = "store", !.received = now]]
      BY <1>9, <2>3, Zenon DEF Receive, Set
    <3>2. beat'[w] = [b EXCEPT !.pc = "store", !.received = now]
      BY <1>2, <3>1
    <3>3. /\ beat'[w].pc = "store" /\ beat'[w].calls = b.calls /\ beat'[w].tips = b.tips
          /\ beat'[w].began = b.began
      BY <1>1, <3>2 DEF Beat
    <3>4. \A d \in b.calls : d.event # b.call.event
      BY <1>1, <2>1 DEF BeatOK
    <3>5. \A r \in polls' : r \in polls \/ r.event = b.call.event
      BY <1>9 DEF Receive, Row
    <3> QED
      BY <2>1, <3>3, <3>4, <3>5 DEF Goes, Pending
  <2> QED
    BY <2>2, <2>3
<1>10. CASE CallFailed(w)
  <2>1. b.answer = "gone"
    BY <1>1, <1>10 DEF CallFailed, End, Holds
  <2>2. beat' = [beat EXCEPT ![w] = Done(b)] /\ quota' = quota /\ polls' = polls /\ Holds(w) /\ b.pc = "await"
    BY <1>10, <2>1 DEF CallFailed, Set
  <2> QED
    BY <1>8, <2>2
<1>11. CASE Store(w)
  <2>1. /\ Holds(w) /\ quota' = quota /\ b.pc = "store" /\ beat' = [beat EXCEPT ![w] = [b EXCEPT !.pc = "clear"]]
    BY <1>11, Zenon DEF Store, Stores, Set
  <2>2. beat'[w] = [b EXCEPT !.pc = "clear"]
    BY <1>2, <2>1
  <2>3. /\ beat'[w].pc = "clear" /\ beat'[w].calls = b.calls /\ beat'[w].tips = b.tips
        /\ beat'[w].began = b.began
    BY <1>1, <2>2 DEF Beat
  <2>4. \A d \in b.calls : d.event # b.call.event
    BY <1>1, <2>1 DEF BeatOK
  <2>5. \A r \in polls' : r \in polls \/ r.event = b.call.event
    BY <1>11 DEF Store, Row
  <2> QED
    BY <2>1, <2>3, <2>4, <2>5 DEF Goes, Pending
<1>12. CASE Clear(w)
  <2>1. ~(b.remaining < HaltBelow)
    BY <1>1, <1>12 DEF Clear, End, Holds
  <2>2. /\ beat' = [beat EXCEPT ![w] = Done(b)] /\ quota' = [quota EXCEPT !.failures = 0, !.backoff = 0]
        /\ polls' = polls /\ Holds(w) /\ b.pc = "clear"
    BY <1>12, <2>1, Zenon DEF Clear, Set
  <2>3. quota'.tier = quota.tier
    BY <2>2, OwnBeat DEF TableTypes, Quota
  <2> QED
    BY <1>8, <2>2, <2>3
<1> QED
  BY <1>3, <1>4, <1>5, <1>6, <1>7, <1>9, <1>10, <1>11, <1>12 DEF Working

\* A beat holds the lease because it goes on, has planned or has no plan.
LEMMA HolderMoves ==
    ASSUME IInv, [Next]_vars, NEW w \in Workers, lease'.holder = w
    PROVE  Goes(w) \/ Plan(w) \/ Empties(w)
<1>1. beat[w] \in Beat /\ beat \in [Workers -> Beat] /\ w # None
  BY OwnBeat, TypeParts, OddsAssumption DEF IInv
<1>2. CASE Tick \/ (\E e \in Events : Postpone(e)) \/ UNCHANGED vars
  <2>1. beat' = beat /\ lease' = lease /\ polls' = polls /\ quota' = quota
    BY <1>2 DEF Tick, Postpone, vars, tables
  <2> QED
    BY <2>1, SameGoes DEF Same, Holds
<1>3. CASE OthersSpend
  <2>1. \/ beat'[w] = beat[w]
        \/ \E cost : beat'[w] = [beat[w] EXCEPT !.unseen = @ + cost]
    BY <1>1, <1>3 DEF OthersSpend, Spend
  <2>2. Same(beat[w], beat'[w])
    BY <1>1, <2>1 DEF Beat, Same
  <2> QED
    BY <1>3, <2>2, SameGoes DEF OthersSpend, tables, Holds
<1>4. ASSUME NEW v \in Workers, Working(v) PROVE Goes(w) \/ Plan(w) \/ Empties(w)
  BY <1>4, OwnGoes, OthersGo
<1> QED
  BY <1>2, <1>3, <1>4 DEF Next

\* The holder's calls stay wanted: the tier is that of its plan, and nobody
\* else writes to the ledger.
LEMMA WantedStep ==
    ASSUME IInv, WantedInv, [Next]_vars
    PROVE  WantedInv'
<1> SUFFICES ASSUME NEW w \in Workers, lease'.holder = w, NEW c \in Pending(beat'[w])
             PROVE  Wanted(beat'[w], c, polls', quota'.tier)
  BY DEF WantedInv, Holds
<1>1. CASE Goes(w)
  <2>1. Wanted(beat[w], c, polls, quota.tier)
    BY <1>1 DEF Goes, WantedInv
  <2> QED
    BY <1>1, <2>1 DEF Goes, Wanted, ClosedIn
<1>2. CASE Plan(w)
  <2> DEFINE b == beat[w]
             to == EvaluateTier(tip, b.began, credits)
             calls == PlannedCalls(tip, b.began, to.tier, credits)
  <2>1. /\ b \in Beat /\ beat \in [Workers -> Beat] /\ quota \in Quota /\ polls' = polls
        /\ quota' = [quota EXCEPT !.tier = to.tier, !.evaluated = to.evaluated]
        /\ beat' = [beat EXCEPT ![w] = [b EXCEPT !.pc = "calls", !.tips = tip, !.remaining = credits, !.calls = calls]]
    BY <1>2, OwnBeat, TypeParts, Zenon DEF IInv, TableTypes, Plan, Set
  <2>2. c \in calls /\ beat'[w].tips = tip /\ quota'.tier = to.tier
    <3> HIDE DEF calls, to
    <3>1. beat'[w] = [b EXCEPT !.pc = "calls", !.tips = tip, !.remaining = credits, !.calls = calls]
      BY <2>1
    <3>2. beat'[w].pc = "calls" /\ beat'[w].calls = calls /\ beat'[w].tips = tip
      BY <2>1, <3>1 DEF Beat
    <3> QED
      BY <2>1, <3>2 DEF Pending, Quota
  <2>3. to.tier # 4 /\ c \in Due(tip, b.began, to.tier)
    <3> HIDE DEF to
    <3> QED
      BY <2>2 DEF PlannedCalls
  <2>4. Tiers[to.tier] \in Windows[c.window].tiers /\ ~ClosingDone(c.event, tip[c.event])
    <3> HIDE DEF to
    <3> QED
      BY <2>3 DEF Due
  <2> QED
    BY <2>1, <2>2, <2>3, <2>4 DEF Wanted, ClosedIn, ClosingDone
<1>3. CASE Empties(w)
  BY <1>3 DEF Empties
<1> QED
  BY <1>1, <1>2, <1>3, HolderMoves

\* No beat plans for an earlier time than before.
LEMMA StartsStep ==
    ASSUME IInv, [Next]_vars
    PROVE  /\ Starts \subseteq Nat
           /\ \A later \in Starts' : later \in Nat /\ \E at \in Starts : at <= later
<1>1. Starts \subseteq Nat
  <2>1. now \in Nat /\ \A w \in Workers : beat[w].began \in Nat
    BY TypeParts, ConstantTypes DEF IInv, TableTypes, BeatOK
  <2> QED
    BY <2>1 DEF Starts
<1>2. now \in Starts /\ now \in Nat /\ now' \in Nat /\ now <= now'
  <2>1. now \in Starts
    BY DEF Starts
  <2>2. now' = now \/ now' = now + 1
    BY DEF Next, Working, LoseLease, Begin, ListFails, Plan, Dispatch, Serve, Receive, CallFailed, Store,
       StoreFails, Clear, Finish, Fault, Crash, Tick, OthersSpend, Postpone, vars, world
  <2> QED
    BY <1>1, <2>1, <2>2
<1>3. ASSUME NEW w \in Workers, lease'.holder = w, beat'[w].pc # "idle"
      PROVE  beat'[w].began \in Nat /\ \E at \in Starts : at <= beat'[w].began
  <2>1. CASE Goes(w)
    <3>1. beat'[w].began \in Starts
      BY <1>3, <2>1 DEF Goes, Starts
    <3>2. PICK x \in Nat : x = beat'[w].began /\ x \in Starts
      BY <1>1, <3>1
    <3> QED
      BY <3>2
  <2>2. CASE Plan(w)
    <3>1. beat[w] \in Beat /\ beat \in [Workers -> Beat] /\ Holds(w) /\ beat[w].pc = "list"
      BY <2>2, OwnBeat, TypeParts DEF IInv, Plan
    <3>2. PICK T, R, C : beat' = [beat EXCEPT ![w] =
              [beat[w] EXCEPT !.pc = "calls", !.tips = T, !.remaining = R, !.calls = C]]
      BY <2>2, Zenon DEF Plan, Set
    <3>3. beat'[w].began = beat[w].began
      BY <3>1, <3>2 DEF Beat
    <3>4. beat'[w].began \in Starts
      BY <3>1, <3>3 DEF Starts
    <3>5. PICK x \in Nat : x = beat'[w].began /\ x \in Starts
      BY <1>1, <3>4
    <3> QED
      BY <3>5
  <2>3. CASE Empties(w)
    BY <1>2, <1>3, <2>3 DEF Empties
  <2> QED
    BY <1>3, <2>1, <2>2, <2>3, HolderMoves
<1>4. ASSUME NEW later \in Starts' PROVE later \in Nat /\ \E at \in Starts : at <= later
  <2>1. later = now' \/ \E w \in Workers : lease'.holder = w /\ beat'[w].pc # "idle" /\ later = beat'[w].began
    BY DEF Starts, Holds
  <2> QED
    BY <1>2, <1>3, <2>1
<1> QED
  BY <1>1, <1>4

\* A step that adds no count to a game and does not spend from one.
Carries(e) ==
    /\ tip'[e] = tip[e] /\ budget'[e] = budget[e] /\ polls \subseteq polls'
    /\ quota'.tier \in {quota.tier, 4}

LEMMA CarriesStep ==
    ASSUME IInv, IInv', [Next]_vars, CountsInv, NEW e \in Events, Carries(e), ~Restarted(e)',
           NEW n \in budget'[e]
    PROVE  Covers(e, n)'
<1>1. /\ budget[e] \subseteq Int /\ polls' \in SUBSET Poll /\ polls \in SUBSET polls' /\ tip[e] \in Nat
      /\ now' \in Nat /\ \A q \in polls' : q.completed <= now'
  <2>1. TableTypes /\ TableTypes' /\ TablesOK(now, polls, shown)'
    BY DEF IInv, TypeOK, TableTypes, Quota, Grant
  <2>2. now' \in Nat /\ \A q \in polls' : q.completed <= now'
    BY <2>1, ConstantTypes DEF TableTypes, TablesOK
  <2> QED
    BY <2>1, <2>2 DEF TableTypes, Carries
<1>2. n \in budget[e] /\ n \in Int /\ ~Restarted(e)
  BY <1>1 DEF Carries, Restarted
<1>3. Covers(e, n)
  BY <1>2 DEF CountsInv
<1>4. ASSUME quota'.tier # 4, NEW later \in Starts'
      PROVE  Remaining(polls', e, tip'[e], later, Tiers[quota'.tier]) <= n
  <2>1. PICK at \in Starts : at <= later /\ at \in Nat /\ later \in Nat
    BY StartsStep
  <2>2. quota'.tier = quota.tier /\ tip'[e] = tip[e]
    BY <1>4 DEF Carries
  <2>3. Remaining(polls, e, tip[e], at, Tiers[quota.tier]) <= n
    BY <1>3, <1>4, <2>1, <2>2 DEF Covers
  <2>4. /\ Remaining(polls, e, tip[e], at, Tiers[quota.tier]) \in Nat
        /\ Remaining(polls', e, tip[e], later, Tiers[quota.tier]) \in Nat
        /\ Remaining(polls', e, tip[e], later, Tiers[quota.tier])
             <= Remaining(polls, e, tip[e], at, Tiers[quota.tier])
    BY <1>1, <2>1, RemainingOrder
  <2> QED
    BY <1>2, <2>2, <2>3, <2>4
<1> QED
  BY <1>3, <1>4 DEF Covers

\* While a beat holds the lease, no other plans for an earlier time.
LEMMA CoversFrom ==
    ASSUME IInv, IInv', NEW w \in Workers, Holds(w), lease' = lease, now' = now, beat'[w].began = beat[w].began,
           NEW e \in Events, NEW n \in Int, n >= 0,
           quota'.tier # 4 => Remaining(polls', e, tip'[e], beat[w].began, Tiers[quota'.tier]) <= n
    PROVE  Covers(e, n)'
<1>1. /\ polls' \in SUBSET Poll /\ tip'[e] \in Nat /\ now \in Nat /\ beat[w].began \in Nat
      /\ beat[w].began <= now /\ \A q \in polls' : q.completed <= now
  <2>1. TableTypes' /\ TablesOK(now, polls, shown)' /\ BeatOK(beat[w], now, credits)
    BY DEF IInv, TypeOK, TableTypes, Quota, Grant
  <2> QED
    BY <2>1, ConstantTypes DEF TableTypes, TablesOK, BeatOK
<1>2. ASSUME quota'.tier # 4, NEW later \in Starts'
      PROVE  Remaining(polls', e, tip'[e], later, Tiers[quota'.tier]) <= n
  <2>1. later = now \/ later = beat[w].began
    BY DEF Starts, Holds
  <2>2. later \in Nat /\ beat[w].began <= later
    BY <1>1, <2>1
  <2>3. /\ Remaining(polls', e, tip'[e], beat[w].began, Tiers[quota'.tier]) \in Nat
        /\ Remaining(polls', e, tip'[e], later, Tiers[quota'.tier]) \in Nat
        /\ Remaining(polls', e, tip'[e], later, Tiers[quota'.tier])
             <= Remaining(polls', e, tip'[e], beat[w].began, Tiers[quota'.tier])
    BY <1>1, <2>2, RemainingOrder
  <2> QED
    BY <1>2, <2>3
<1> QED
  BY <1>2 DEF Covers

\* The budget sees a closed game as the plan does, unless its tip moved a little.
LEMMA RemainingCounted ==
    ASSUME TypeOK, NEW m \in Nat, \A q \in polls : q.completed <= m, NEW e \in Events, ~Restarted(e),
           NEW at \in Nat, NEW tier
    PROVE  /\ Remaining(polls, e, tip[e], at, tier) \in Nat /\ PaidCalls(e, tip[e], at, tier) \in Int
           /\ Remaining(polls, e, tip[e], at, tier) <= PaidCalls(e, tip[e], at, tier)
<1>1. polls \in SUBSET Poll /\ tip[e] \in Nat /\ SameTip \in Nat
  BY ConstantTypes DEF TypeOK
<1>2. Remaining(polls, e, tip[e], at, tier) \in Nat
  <2>1. polls \in SUBSET polls /\ at <= at
    OBVIOUS
  <2> QED
    BY <1>1, <2>1, RemainingOrder
<1>3. ClosedAbout(e, tip[e]) <=> ClosedIn(polls, e, tip[e])
  <2>1. ASSUME NEW r \in polls, r.event = e, r.closing, r.tip = tip[e] PROVE ClosedAbout(e, tip[e])
    <3>1. r.tip - tip[e] \in -SameTip .. SameTip
      BY <1>1, <2>1
    <3> QED
      BY <2>1, <3>1 DEF ClosedAbout
  <2> QED
    BY <2>1 DEF ClosedAbout, ClosedIn, Restarted
<1>4. PICK k \in Int : /\ SumsTo(Counts(e, tip[e], at, tier), k)
                      /\ PaidCalls(e, tip[e], at, tier) = IF ClosedAbout(e, tip[e]) THEN 0 ELSE k
  BY <1>1, PaidCallsSum
<1>5. PopulatedOf(polls, e) \in Ticks
  BY <1>1, PopulatedTicks
<1>6. LastPopulated(e) = PopulatedOf(polls, e)
  BY Zenon DEF LastPopulated, PopulatedOf
<1> DEFINE f == LeftOf(tip[e], at, tier, PopulatedOf(polls, e))
           g == Counts(e, tip[e], at, tier)
<1>7. \A i \in Indices : /\ Left(i, tip[e], at, tier, PopulatedOf(polls, e)) \in Nat
                         /\ Left(i, tip[e], at, tier, PopulatedOf(polls, e)) <= Counted(i, e, tip[e], at, tier)
                         /\ Counted(i, e, tip[e], at, tier) \in Int
  <2>1. \A i \in Indices : Counted(i, e, tip[e], at, tier) \in Int
    BY <1>1, PaidCallsSum
  <2>2. ASSUME NEW i \in Indices PROVE Left(i, tip[e], at, tier, PopulatedOf(polls, e)) \in Nat
    <3>1. PopulatedOf(polls, e) <= PopulatedOf(polls, e)
      BY <1>5 DEF Ticks, Never
    <3> QED
      BY <1>1, <1>5, <3>1, LeftOrder
  <2>3. ASSUME NEW i \in Indices
        PROVE  Left(i, tip[e], at, tier, LastPopulated(e)) <= Counted(i, e, tip[e], at, tier)
    BY <1>1, <1>5, <1>6, LeftCounted
  <2> QED
    BY <1>6, <2>1, <2>2, <2>3
<1>8. f \in [Indices -> Int] /\ g \in [Indices -> Int] /\ \A i \in Indices : f[i] <= g[i]
  BY <1>7 DEF LeftOf, Counts
<1> HIDE DEF f, g
<1>9. Total(f) \in Int /\ SumsTo(f, Total(f))
  BY <1>8, TotalIsSum
<1>10. Total(f) <= k
  BY <1>4, <1>8, <1>9, TotalsCompare DEF g
<1>11. Remaining(polls, e, tip[e], at, tier) = IF ClosedIn(polls, e, tip[e]) THEN 0 ELSE Total(f)
  BY DEF Remaining, f
<1> QED
  BY <1>2, <1>3, <1>4, <1>10, <1>11

\* A plan counts what remains, and what it counted before still covers it.
LEMMA PlanCovers ==
    ASSUME IInv, IInv', CountsInv, NEW w \in Workers, Plan(w), NEW e \in Events, ~Restarted(e)',
           NEW n \in budget'[e]
    PROVE  Covers(e, n)'
<1> DEFINE b == beat[w]
           to == EvaluateTier(tip, b.began, credits)
           count == PaidCalls(e, tip[e], b.began, Tiers[to.tier])
<1>1. /\ TypeOK /\ TableTypes /\ TablesOK(now, polls, shown) /\ b \in Beat /\ beat \in [Workers -> Beat]
      /\ b.began \in Nat /\ now \in Nat
  BY OwnBeat, TypeParts DEF IInv, BeatOK
<1>2. /\ b.pc = "list" /\ Holds(w) /\ UNCHANGED <<now, tip, lease, polls>>
      /\ quota' = [quota EXCEPT !.tier = to.tier, !.evaluated = to.evaluated]
      /\ budget' = Budgeted(b.began, to.tier)
  BY Zenon DEF Plan, world
<1>3. beat'[w].began = b.began
  <2>1. PICK T, R, C : beat' = [beat EXCEPT ![w] =
            [b EXCEPT !.pc = "calls", !.tips = T, !.remaining = R, !.calls = C]]
    BY Zenon DEF Plan, Set
  <2> QED
    BY <1>1, <2>1 DEF Beat
<1>4. quota'.tier = to.tier
  <2> HIDE DEF to
  <2> QED
    BY <1>1, <1>2 DEF TableTypes, Quota
<1>5. n = count \/ (n \in budget[e] /\ to.tier = quota.tier)
  <2> HIDE DEF to
  <2> QED
    BY <1>2 DEF Budgeted
<1> HIDE DEF to
<1>6. ~Restarted(e)
  BY <1>2 DEF Restarted
<1>7. CASE n = count
  <2>1. /\ Remaining(polls, e, tip[e], b.began, Tiers[to.tier]) \in Nat /\ n \in Int
        /\ Remaining(polls, e, tip[e], b.began, Tiers[to.tier]) <= n
    BY <1>1, <1>6, <1>7, RemainingCounted DEF TablesOK
  <2>2. n >= 0
    BY <2>1
  <2> QED
    BY <1>2, <1>3, <1>4, <2>1, <2>2, CoversFrom
<1>8. CASE n \in budget[e] /\ to.tier = quota.tier
  <2>1. n \in Int /\ Covers(e, n) /\ n >= 0
    BY <1>1, <1>6, <1>8 DEF CountsInv, Covers, TableTypes
  <2>2. b.began \in Starts
    BY <1>2 DEF Starts
  <2>3. quota'.tier # 4 => Remaining(polls, e, tip[e], b.began, Tiers[quota'.tier]) <= n
    BY <1>4, <1>8, <2>1, <2>2 DEF Covers
  <2> QED
    BY <1>2, <1>3, <2>1, <2>3, CoversFrom
<1> QED
  BY <1>5, <1>7, <1>8

\* A paid answer takes one from each count, and one from what remains.
LEMMA ReceiveCovers ==
    ASSUME IInv, IInv', CountsInv, WantedInv, NEW w \in Workers, Receive(w),
           NEW e \in Events, e = beat[w].call.event,
           beat[w].answer = "populated", ~Crossed(w), beat[w].tips[e] = tip[e],
           ~Restarted(e)', NEW n \in budget'[e]
    PROVE  Covers(e, n)'
<1> DEFINE b == beat[w]
           c == b.call
           q == Row(w, "complete", now)
<1>1. /\ TypeOK /\ TableTypes /\ TablesOK(now, polls, shown) /\ b \in Beat /\ beat \in [Workers -> Beat]
      /\ b.began \in Nat /\ now \in Nat /\ BeatOK(b, now, credits) /\ (Holds(w) => HeldOK(b, polls, shown))
  BY OwnBeat, TypeParts DEF IInv, BeatOK
<1>2. /\ b.pc = "await" /\ Holds(w) /\ UNCHANGED <<now, tip, lease, quota>>
      /\ polls' = polls \cup {q} /\ budget' = [budget EXCEPT ![e] = {k - 1 : k \in @}]
  BY DEF Receive, world
<1>3. c \in Call /\ e = c.event /\ b.began <= now /\ c \in Pending(b)
  BY <1>1, <1>2 DEF BeatOK, Call, Pending
<1>4. q \in Poll /\ q.event = e /\ q.completed = now /\ q.outcome = "complete"
  BY <1>1, <1>3, RowType DEF Row
<1>5. beat'[w].began = b.began
  <2>1. beat' = [beat EXCEPT ![w] = [b EXCEPT !.pc = "store", !.received = now]]
    BY Zenon DEF Receive, Set
  <2> QED
    BY <1>1, <2>1 DEF Beat
<1> HIDE DEF q
<1>6. PICK k \in Int : k \in budget[e] /\ n = k - 1
  BY <1>1, <1>2, <1>3 DEF TableTypes
<1>7. ~Restarted(e)
  BY <1>2 DEF Restarted
<1>8. Covers(e, k) /\ b.began \in Starts
  BY <1>2, <1>3, <1>6, <1>7 DEF CountsInv, Starts
<1>9. /\ quota.tier # 4 /\ Tiers[quota.tier] \in Windows[c.window].tiers /\ ~ClosedIn(polls, e, b.tips[e])
      /\ Unbought(b, c, polls)
  BY <1>1, <1>2, <1>3 DEF WantedInv, Wanted, HeldOK
<1>10. Remaining(polls, e, tip[e], b.began, Tiers[quota.tier]) <= k
  BY <1>8, <1>9 DEF Covers
<1>11. /\ Remaining(polls, e, tip[e], b.began, Tiers[quota.tier]) \in Int
       /\ Remaining(polls', e, tip[e], b.began, Tiers[quota.tier]) + 1
            <= Remaining(polls, e, tip[e], b.began, Tiers[quota.tier])
       /\ Remaining(polls', e, tip[e], b.began, Tiers[quota.tier]) \in Nat
  <2>1. polls \in SUBSET Poll /\ \A r \in polls : r.completed <= q.completed
    BY <1>1, <1>4 DEF TableTypes, TablesOK
  <2>2. b.tips[c.event] = tip[e] /\ c.event = e
    OBVIOUS
  <2>3. /\ Remaining(polls, c.event, b.tips[c.event], b.began, Tiers[quota.tier]) \in Int
        /\ Remaining(polls \cup {q}, c.event, b.tips[c.event], b.began, Tiers[quota.tier]) + 1
             <= Remaining(polls, c.event, b.tips[c.event], b.began, Tiers[quota.tier])
        /\ Remaining(polls \cup {q}, c.event, b.tips[c.event], b.began, Tiers[quota.tier]) \in Nat
    BY <1>1, <1>3, <1>4, <1>9, <2>1, <2>2, RemainingSpent
  <2> QED
    BY <1>2, <2>2, <2>3
<1>12. n >= 0 /\ n \in Int /\ Remaining(polls', e, tip[e], b.began, Tiers[quota.tier]) <= n
  BY <1>6, <1>10, <1>11
<1> QED
  BY <1>2, <1>3, <1>5, <1>12, CoversFrom

LEMMA CountsStep ==
    ASSUME IInv, IInv', CountsInv, WantedInv, [Next]_vars
    PROVE  CountsInv'
<1> SUFFICES ASSUME NEW e \in Events, ~Restarted(e)', NEW n \in budget'[e] PROVE Covers(e, n)'
  BY DEF CountsInv
<1>1. TableTypes /\ budget \in [Events -> SUBSET Int] /\ tip \in [Events -> Nat]
  BY DEF IInv, TypeOK, TableTypes, Quota, Grant
<1>2. ASSUME NEW w \in Workers, Working(w), ~Plan(w), ~Receive(w) PROVE Carries(e)
  <2>1. tip' = tip /\ budget' = budget /\ polls \subseteq polls'
    BY <1>2 DEF Working, LoseLease, Begin, ListFails, Dispatch, Serve, CallFailed, Store,
       StoreFails, Clear, Finish, Fault, Crash, world, tables
  <2>2. quota'.tier \in {quota.tier, 4}
    <3>1. \/ quota' = quota
          \/ \E f, d : quota' = [quota EXCEPT !.failures = f, !.backoff = d]
          \/ \E f, d, a : quota' = [[quota EXCEPT !.failures = f, !.backoff = d] EXCEPT !.tier = 4, !.evaluated = a]
      BY <1>2, Zenon DEF Working, LoseLease, Begin, ListFails, Dispatch, Serve, CallFailed, Store,
         StoreFails, Clear, Finish, Fault, Crash, world, tables, BackedOff
    <3> QED
      BY <1>1, <3>1 DEF TableTypes, Quota
  <2> QED
    BY <2>1, <2>2 DEF Carries
<1>3. CASE \E w \in Workers : Plan(w)
  BY <1>3, PlanCovers
<1>4. ASSUME NEW w \in Workers, Receive(w) PROVE Covers(e, n)'
  <2>1. /\ tip' = tip /\ polls \subseteq polls' /\ quota' = quota
        /\ budget' = IF /\ beat[w].answer = "populated" /\ ~Crossed(w)
                        /\ beat[w].tips[beat[w].call.event] = tip[beat[w].call.event]
                     THEN [budget EXCEPT ![beat[w].call.event] = {k - 1 : k \in @}] ELSE budget
    BY <1>4 DEF Receive, world
  <2>2. CASE budget'[e] = budget[e]
    <3>1. Carries(e)
      BY <2>1, <2>2 DEF Carries
    <3> QED
      BY <3>1, CarriesStep
  <2>3. CASE budget'[e] # budget[e]
    <3>1. /\ e = beat[w].call.event /\ beat[w].answer = "populated" /\ ~Crossed(w)
          /\ beat[w].tips[beat[w].call.event] = tip[beat[w].call.event]
      BY <1>1, <2>1, <2>3
    <3> QED
      BY <1>4, <3>1, ReceiveCovers
  <2> QED
    BY <2>2, <2>3
<1>5. CASE Tick \/ OthersSpend \/ UNCHANGED vars
  <2>1. Carries(e)
    BY <1>5 DEF Carries, Tick, OthersSpend, vars, world, tables
  <2> QED
    BY <2>1, CarriesStep
<1>6. ASSUME NEW d \in Events, Postpone(d) PROVE Covers(e, n)'
  <2>1. /\ tip' = [tip EXCEPT ![d] = @ + Postponement] /\ budget' = [budget EXCEPT ![d] = {}]
        /\ polls' = polls /\ quota' = quota
    BY <1>6 DEF Postpone, tables
  <2>2. e # d
    BY <1>1, <2>1
  <2>3. Carries(e)
    BY <1>1, <2>1, <2>2 DEF Carries
  <2> QED
    BY <2>3, CarriesStep
<1> QED
  BY <1>2, <1>3, <1>4, <1>5, <1>6, CarriesStep DEF Next

\* "This can count high, never low" (_paid_calls): as long as the tier holds
\* and the tip does not move, no game gets more paid polls than any plan
\* counted for it, unless it was delayed a little after its closing poll.
THEOREM BudgetHolds == Spec => []BudgetNeverLow
<1>1. Init => WantedInv /\ CountsInv
  <2> SUFFICES ASSUME Init PROVE WantedInv /\ CountsInv
    OBVIOUS
  <2>1. \A w \in Workers : ~Holds(w)
    BY OddsAssumption DEF Init, Holds
  <2>2. \A e \in Events : budget[e] = {}
    BY DEF Init
  <2> QED
    BY <2>1, <2>2 DEF WantedInv, CountsInv
<1>2. IInv /\ IInv' /\ WantedInv /\ CountsInv /\ [Next]_vars => (WantedInv /\ CountsInv)'
  BY WantedStep, CountsStep
<1>3. CountsInv => BudgetNeverLow
  BY DEF CountsInv, BudgetNeverLow, Covers
<1> QED
  BY <1>1, <1>2, <1>3, AlwaysInv, PTL DEF Spec

=============================================================================
