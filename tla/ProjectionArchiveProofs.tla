---------------------- MODULE ProjectionArchiveProofs ----------------------
(***************************************************************************)
(* Proofs about ProjectionArchive, for any workers, boards and markets,    *)
(* any retention window and any bounds.                                    *)
(*                                                                         *)
(* A cycle that lost its lease still commits and retention forgets polls,  *)
(* so the fences that order promotion are read from what is left: for each *)
(* promoted or failed poll ever written, one at least as new survives      *)
(* (FenceInv).  Evidence still unresolved when a line was recovered is     *)
(* behind one of those fences or behind the replay (RecoveryInv).          *)
(*                                                                         *)
(* What readers are shown is compared with the history of all that was     *)
(* ever promoted since its last Complete board: that board is never        *)
(* pruned (BaseInv), nor is a row that the replay of the closing reads     *)
(* (KeptInv); a Latest line is the last that names its reference in that   *)
(* history (TracksInv), and confirmations are in the order of the          *)
(* observations (ConfInv).                                                 *)
(***************************************************************************)
EXTENDS ProjectionArchive, FiniteLemmas, TLAPS

Lease == [held : BOOLEAN, fence : 0..MaxCycles, expires : 0..(MaxTime + LeaseTicks)]
Cycle == [pc : {"idle", "polling", "got", "recording", "closing"}, fence : 0..MaxCycles,
          started : Times, accepted : Times, ev : Evidence \cup {None}]
PollRow == [started : Times, completed : Times, ev : Evidence \cup {None},
            promoted : BOOLEAN, gen : GenIds \cup {0}]
Gen == [content : Contents \cup [board : Replays, mapped : {TRUE}],
        retrieved : Times, created : Times, advanced : BOOLEAN, replay : BOOLEAN,
        snap : GenIds, poll : PollIds, source : GenIds]
Live == [rows : SUBSET RowIds, gens : SUBSET GenIds, polls : SUBSET PollIds, snaps : SUBSET GenIds]
LatestRow == [obs : GenIds, gen : GenIds, conf : Times]
Retention == [pc : {"idle", "rows", "gens", "polls", "snaps"}, now : Times, named : BOOLEAN,
              cursor : {-1} \cup Times, spare : SUBSET RowIds, baselines : SUBSET GenIds,
              kept : SUBSET RowIds, gens : SUBSET GenIds, polls : SUBSET PollIds,
              snaps : SUBSET GenIds]

\* The types of all but the history.
VarTypes ==
    /\ now \in Times /\ decision \in {"open", "approved", "replayed"}
    /\ lease \in Lease /\ cycle \in [Workers -> Cycle]
    /\ live \in Live /\ latest \in [Refs -> LatestRow \cup {Absent}] /\ active \in GenIds \cup {0}
    /\ replayed \in [at : Times, retrieved : Times]
    /\ closing \in [frozen : BOOLEAN, rows : SUBSET RowIds]
    /\ prune \in Retention /\ faults \in 0..MaxFaults

\* Every cycle writes one poll at most, every poll one generation, and the
\* replay of the decision one more.
Flying == {"polling", "got", "recording"}
InFlight == {w \in Workers : cycle[w].pc \in Flying}

RowsInv ==
    /\ polls \in Seq(PollRow) /\ gens \in Seq(Gen)
    /\ Len(polls) + Cardinality(InFlight) <= lease.fence
    /\ Len(gens) <= Len(polls) + (IF decision = "replayed" THEN 1 ELSE 0)

\* References of the history, which nothing ever changes.
HistoryInv ==
    /\ live.gens \cup live.snaps \subseteq DOMAIN gens
    /\ live.polls \cup prune.polls \subseteq DOMAIN polls
    /\ \A g \in DOMAIN gens :
          /\ gens[g].source \in DOMAIN gens /\ gens[g].snap \in DOMAIN gens
          /\ gens[g].poll \in DOMAIN polls
    /\ \A p \in DOMAIN polls : polls[p].promoted => polls[p].ev # None
    /\ active # 0 => /\ polls[gens[active].poll].promoted
                     /\ polls[gens[active].poll].ev.retrieved = gens[active].retrieved

\* Retention never forgets the newest promoted and the newest failed poll.
Survivors == live.polls \ prune.polls

FenceInv ==
    \A p \in DOMAIN polls :
        /\ polls[p].promoted =>
              \E q \in Survivors : polls[q].promoted /\ polls[q].ev.retrieved >= polls[p].ev.retrieved
        /\ polls[p].ev = None =>
              \E q \in Survivors : polls[q].ev = None /\ polls[q].started >= polls[p].started

\* A fence keeps evidence of that time from promotion for good.
Blocked(t, rows, replay) ==
    \/ t <= replay.retrieved
    \/ \E p \in DOMAIN rows : \/ rows[p].promoted /\ rows[p].ev.retrieved >= t
                              \/ rows[p].ev = None /\ rows[p].started >= t

Fenced(t, rows, replay) == t < replay.at \/ Blocked(t, rows, replay)

\* The evidence of a cycle names the athlete, resolved or not.
Carries(c, mapped) ==
    c.ev # None /\ Unmapped \in c.ev.content.board.refs /\ c.ev.content.mapped = mapped

RecoveryInv ==
    /\ \A w \in Workers : cycle[w].ev # None => cycle[w].ev.retrieved <= now
    /\ decision = "open" => latest[Unmapped] = Absent /\ \A w \in Workers : ~Carries(cycle[w], TRUE)
    /\ decision # "replayed" => replayed.at = 0 /\ replayed.retrieved = 0
    /\ \A w \in Workers : Carries(cycle[w], FALSE) =>
          /\ decision # "open" => cycle[w].ev.retrieved < now
          /\ replayed.at # 0 => cycle[w].ev.retrieved < replayed.at
          /\ latest[Unmapped] # Absent => Fenced(cycle[w].ev.retrieved, polls, replayed)
          /\ \A v \in Workers : Carries(cycle[v], TRUE) =>
                \/ cycle[w].ev.retrieved <= cycle[v].ev.retrieved
                \/ Fenced(cycle[v].ev.retrieved, polls, replayed)
    /\ \A p \in DOMAIN polls :
          polls[p].ev # None => Fenced(polls[p].ev.retrieved, polls, replayed)

IInv == TypeOK /\ RowsInv /\ HistoryInv /\ PointersResolve /\ FenceInv /\ RecoveryInv

-----------------------------------------------------------------------------
(***************************************************************************)
(* Types, sequences and extrema.                                           *)
(***************************************************************************)

LEMMA ConstantTypes ==
    /\ Tip \in Nat /\ Window \in Nat /\ LeaseTicks \in Nat /\ CacheTicks \in Nat
    /\ MaxTime \in Nat /\ MaxCycles \in Nat /\ MaxFaults \in Nat
    /\ Times \subseteq Nat /\ GenIds \subseteq Nat \ {0} /\ PollIds \subseteq Nat \ {0}
    /\ Unmapped \in Refs
BY BoundsAssumption, BoardsAssumption DEF Times, GenIds, PollIds

\* What evidence says; None is no evidence.
LEMMA EvidenceTypes ==
    ASSUME NEW ev \in Evidence
    PROVE  /\ ev # None /\ ev.retrieved \in Times /\ ev.content \in Contents
           /\ ev.content.board \in Boards
           /\ ev.content.board.refs \subseteq Refs /\ ev.content.board.complete \in BOOLEAN
           /\ ev.content.mapped \in BOOLEAN
<1>1. ev.retrieved \in Times /\ ev.content \in Contents
  BY DEF Evidence
<1>2. DOMAIN ev = {"content", "retrieved"}
  BY DEF Evidence
<1>3. DOMAIN None = {"none"}
  BY DEF None
<1>4. ev # None
  BY <1>2, <1>3, "content" # "none"
<1>5. ev.content.board \in Boards /\ ev.content.mapped \in BOOLEAN
  BY <1>1 DEF Contents
<1>6. ev.content.board \in [complete : BOOLEAN, refs : SUBSET Refs]
  BY <1>5, BoardsAssumption
<1>7. ev.content.board.refs \subseteq Refs /\ ev.content.board.complete \in BOOLEAN
  BY <1>6
<1> QED
  BY <1>1, <1>4, <1>5, <1>7

LEMMA TypeParts ==
    /\ TypeOK => VarTypes
    /\ VarTypes /\ RowsInv => TypeOK
    /\ TypeOK' => VarTypes'
    /\ VarTypes' /\ RowsInv' => TypeOK'
<1>1. TypeOK => VarTypes
  BY DEF TypeOK, VarTypes, Lease, Cycle, Live, LatestRow, Retention
<1>2. TypeOK' => VarTypes'
  BY DEF TypeOK, VarTypes, Lease, Cycle, Live, LatestRow, Retention
<1>3. ASSUME VarTypes, RowsInv PROVE TypeOK
  <2>1. lease.fence \in 0..MaxCycles /\ lease.fence \in Nat
    BY <1>3, ConstantTypes DEF VarTypes, Lease
  <2>2. Cardinality(InFlight) \in Nat
    BY BoundsAssumption, FS_Subset, FS_CardinalityType DEF InFlight
  <2>3. /\ Len(polls) \in Nat /\ DOMAIN polls = 1 .. Len(polls)
        /\ \A p \in DOMAIN polls : polls[p] \in PollRow
    BY <1>3 DEF RowsInv
  <2>4. /\ Len(gens) \in Nat /\ DOMAIN gens = 1 .. Len(gens)
        /\ \A g \in DOMAIN gens : gens[g] \in Gen
    BY <1>3 DEF RowsInv
  <2>5. Len(polls) <= MaxCycles /\ Len(gens) <= MaxCycles + 1
    BY <1>3, <2>1, <2>2, <2>3, <2>4, ConstantTypes DEF RowsInv
  <2>6. DOMAIN polls \subseteq PollIds /\ DOMAIN gens \subseteq GenIds
    BY <2>3, <2>4, <2>5, ConstantTypes DEF PollIds, GenIds
  <2> QED
    BY <1>3, <2>3, <2>4, <2>6
    DEF TypeOK, VarTypes, Lease, Cycle, Live, LatestRow, Retention, PollRow, Gen
<1>4. ASSUME VarTypes', RowsInv' PROVE TypeOK'
  <2>1. lease'.fence \in 0..MaxCycles /\ lease'.fence \in Nat
    BY <1>4, ConstantTypes DEF VarTypes, Lease
  <2>2. Cardinality(InFlight') \in Nat
    BY BoundsAssumption, FS_Subset, FS_CardinalityType DEF InFlight
  <2>3. /\ Len(polls') \in Nat /\ DOMAIN polls' = 1 .. Len(polls')
        /\ \A p \in DOMAIN polls' : polls'[p] \in PollRow
    BY <1>4 DEF RowsInv
  <2>4. /\ Len(gens') \in Nat /\ DOMAIN gens' = 1 .. Len(gens')
        /\ \A g \in DOMAIN gens' : gens'[g] \in Gen
    BY <1>4 DEF RowsInv
  <2>5. Len(polls') <= MaxCycles /\ Len(gens') <= MaxCycles + 1
    BY <1>4, <2>1, <2>2, <2>3, <2>4, ConstantTypes DEF RowsInv
  <2>6. DOMAIN polls' \subseteq PollIds /\ DOMAIN gens' \subseteq GenIds
    BY <2>3, <2>4, <2>5, ConstantTypes DEF PollIds, GenIds
  <2> QED
    BY <1>4, <2>3, <2>4, <2>6
    DEF TypeOK, VarTypes, Lease, Cycle, Live, LatestRow, Retention, PollRow, Gen
<1> QED
  BY <1>1, <1>2, <1>3, <1>4

\* A row that is appended.
LEMMA Appended ==
    ASSUME NEW S, NEW s \in Seq(S), NEW x \in S
    PROVE  /\ Append(s, x) \in Seq(S) /\ Len(s) \in Nat /\ Len(Append(s, x)) = Len(s) + 1
           /\ DOMAIN Append(s, x) = DOMAIN s \cup {Len(s) + 1} /\ DOMAIN s = 1 .. Len(s)
           /\ Append(s, x)[Len(s) + 1] = x /\ Len(s) + 1 \notin DOMAIN s
           /\ \A i \in DOMAIN s : Append(s, x)[i] = s[i]
OBVIOUS

\* Max and Min of finitely many numbers.
LEMMA MaxOf ==
    ASSUME NEW S, IsFiniteSet(S), S # {}
    PROVE  S \subseteq Int => Max(S) \in S /\ \A x \in S : x <= Max(S)
<1>1. S \subseteq Int => \E x \in S : \A y \in S : y <= x
  BY FiniteHasMax
<1>2. S \subseteq Int => \E x \in S : \A y \in S : x >= y
  BY <1>1
<1>3. S \subseteq Int => Max(S) \in S /\ \A y \in S : Max(S) >= y
  BY <1>2, Zenon DEF Max
<1> QED
  BY <1>3

LEMMA MinOf ==
    ASSUME NEW S, IsFiniteSet(S), S # {}
    PROVE  S \subseteq Int => Min(S) \in S
<1>1. S \subseteq Int => \E x \in S : \A y \in S : x <= y
  BY FiniteHasMin
<1> QED
  BY <1>1, Zenon DEF Min

LEMMA HistoryTypes ==
    ASSUME TypeOK, RowsInv
    PROVE  /\ Len(polls) \in Nat /\ DOMAIN polls = 1 .. Len(polls) /\ DOMAIN polls \subseteq PollIds
           /\ Len(gens) \in Nat /\ DOMAIN gens = 1 .. Len(gens) /\ DOMAIN gens \subseteq GenIds
           /\ \A p \in DOMAIN polls :
                 /\ polls[p].started \in Times /\ polls[p].completed \in Times
                 /\ polls[p].ev \in Evidence \cup {None} /\ polls[p].promoted \in BOOLEAN
                 /\ polls[p].gen \in GenIds \cup {0}
           /\ \A g \in DOMAIN gens :
                 /\ gens[g] \in Gen /\ gens[g].retrieved \in Times /\ gens[g].created \in Times
                 /\ gens[g].advanced \in BOOLEAN /\ gens[g].replay \in BOOLEAN
                 /\ gens[g].snap \in GenIds /\ gens[g].poll \in PollIds /\ gens[g].source \in GenIds
<1>1. /\ Len(polls) \in Nat /\ DOMAIN polls = 1 .. Len(polls)
      /\ \A p \in DOMAIN polls : polls[p] \in PollRow
  BY DEF RowsInv
<1>2. /\ Len(gens) \in Nat /\ DOMAIN gens = 1 .. Len(gens)
      /\ \A g \in DOMAIN gens : gens[g] \in Gen
  BY DEF RowsInv
<1>3. DOMAIN polls \subseteq PollIds /\ DOMAIN gens \subseteq GenIds
  BY DEF TypeOK
<1>4. \A p \in DOMAIN polls :
         /\ polls[p].started \in Times /\ polls[p].completed \in Times
         /\ polls[p].ev \in Evidence \cup {None} /\ polls[p].promoted \in BOOLEAN
         /\ polls[p].gen \in GenIds \cup {0}
  BY <1>1 DEF PollRow
<1>5. \A g \in DOMAIN gens :
         /\ gens[g].retrieved \in Times /\ gens[g].created \in Times
         /\ gens[g].advanced \in BOOLEAN /\ gens[g].replay \in BOOLEAN
         /\ gens[g].snap \in GenIds /\ gens[g].poll \in PollIds /\ gens[g].source \in GenIds
  BY <1>2 DEF Gen
<1> QED
  BY <1>1, <1>2, <1>3, <1>4, <1>5

\* There is room for the poll of a cycle that is on its way, and for its
\* generation or for the replay's.
LEMMA Room ==
    ASSUME TypeOK, RowsInv
    PROVE  /\ \A w \in InFlight : Len(polls) + 1 \in PollIds /\ Len(gens) + 1 \in GenIds
           /\ decision # "replayed" => Len(gens) + 1 \in GenIds
<1>1. lease.fence \in Nat /\ lease.fence <= MaxCycles
  BY TypeParts, ConstantTypes DEF VarTypes, Lease
<1>2. IsFiniteSet(InFlight) /\ Cardinality(InFlight) \in Nat
  BY BoundsAssumption, FS_Subset, FS_CardinalityType DEF InFlight
<1>3. \A w \in InFlight : Cardinality(InFlight) # 0
  BY <1>2, FS_EmptySet
<1>4. Len(polls) \in Nat /\ Len(gens) \in Nat
  BY HistoryTypes
<1>5. /\ Len(polls) + Cardinality(InFlight) <= lease.fence
      /\ Len(gens) <= Len(polls) + 1
      /\ decision # "replayed" => Len(gens) <= Len(polls)
  BY <1>4 DEF RowsInv
<1> QED
  BY <1>1, <1>2, <1>3, <1>4, <1>5, ConstantTypes DEF PollIds, GenIds

\* A step of a cycle that writes no poll.
LEMMA CycleMoves ==
    ASSUME TypeOK, RowsInv, NEW w \in Workers, NEW c \in Cycle,
           cycle' = [cycle EXCEPT ![w] = c], UNCHANGED <<polls, gens, decision>>,
           lease' \in Lease,
           \/ lease'.fence = lease.fence /\ (c.pc \in Flying => cycle[w].pc \in Flying)
           \/ lease'.fence = lease.fence + 1
    PROVE  cycle' \in [Workers -> Cycle] /\ RowsInv'
<1>1. cycle \in [Workers -> Cycle] /\ lease \in Lease
  BY TypeParts DEF VarTypes
<1>2. cycle' \in [Workers -> Cycle] /\ cycle'[w] = c /\ \A v \in Workers : v # w => cycle'[v] = cycle[v]
  BY <1>1
<1>3. lease.fence \in Nat /\ lease'.fence \in Nat
  BY <1>1, ConstantTypes DEF Lease
<1>4. IsFiniteSet(InFlight) /\ Cardinality(InFlight) \in Nat
  BY BoundsAssumption, FS_Subset, FS_CardinalityType DEF InFlight
<1>5. InFlight' \subseteq InFlight \cup {w} /\ (c.pc \in Flying => w \in InFlight')
      /\ (c.pc \in Flying <=> w \in InFlight') /\ (cycle[w].pc \in Flying <=> w \in InFlight)
  BY <1>2 DEF InFlight
<1>6. IsFiniteSet(InFlight') /\ Cardinality(InFlight') \in Nat
  BY BoundsAssumption, FS_Subset, FS_CardinalityType DEF InFlight
<1>7. Cardinality(InFlight') <= Cardinality(InFlight) + 1
  <2>1. IsFiniteSet(InFlight \cup {w}) /\ Cardinality(InFlight \cup {w}) <= Cardinality(InFlight) + 1
    <3>1. \/ w \in InFlight /\ Cardinality(InFlight \cup {w}) = Cardinality(InFlight)
          \/ w \notin InFlight /\ Cardinality(InFlight \cup {w}) = Cardinality(InFlight) + 1
      BY <1>4, FS_AddElement
    <3> QED
      BY <1>4, <3>1, FS_AddElement
  <2>2. Cardinality(InFlight') <= Cardinality(InFlight \cup {w}) /\ Cardinality(InFlight \cup {w}) \in Nat
    BY <1>5, <2>1, FS_Subset, FS_CardinalityType
  <2> QED
    BY <1>4, <1>6, <2>1, <2>2
<1>8. (c.pc \in Flying => cycle[w].pc \in Flying) => Cardinality(InFlight') <= Cardinality(InFlight)
  <2>1. ASSUME c.pc \in Flying => cycle[w].pc \in Flying PROVE InFlight' \subseteq InFlight
    BY <1>5, <2>1
  <2> QED
    BY <1>4, <2>1, FS_Subset
<1>9. Len(polls) \in Nat
  BY HistoryTypes
<1>10. Len(polls) + Cardinality(InFlight') <= lease'.fence
  BY <1>3, <1>4, <1>6, <1>7, <1>8, <1>9 DEF RowsInv
<1> QED
  BY <1>2, <1>10 DEF RowsInv

\* The step with which a cycle writes its poll.
LEMMA CycleWrites ==
    ASSUME TypeOK, RowsInv, NEW w \in Workers, cycle[w].pc \in Flying, NEW c \in Cycle,
           cycle' = [cycle EXCEPT ![w] = c], c.pc \notin Flying,
           lease' \in Lease, lease'.fence = lease.fence
    PROVE  /\ cycle' \in [Workers -> Cycle]
           /\ Len(polls) + 1 + Cardinality(InFlight') <= lease'.fence
<1>1. cycle \in [Workers -> Cycle] /\ lease \in Lease
  BY TypeParts DEF VarTypes
<1>2. cycle' \in [Workers -> Cycle] /\ cycle'[w] = c /\ \A v \in Workers : v # w => cycle'[v] = cycle[v]
  BY <1>1
<1>3. lease.fence \in Nat
  BY <1>1, ConstantTypes DEF Lease
<1>4. IsFiniteSet(InFlight) /\ Cardinality(InFlight) \in Nat
  BY BoundsAssumption, FS_Subset, FS_CardinalityType DEF InFlight
<1>5. w \in InFlight /\ InFlight' = InFlight \ {w}
  BY <1>2 DEF InFlight
<1>6. Cardinality(InFlight') = Cardinality(InFlight) - 1
  BY <1>4, <1>5, FS_RemoveElement
<1>7. Len(polls) \in Nat
  BY HistoryTypes
<1> QED
  BY <1>2, <1>3, <1>4, <1>6, <1>7 DEF RowsInv

-----------------------------------------------------------------------------
(***************************************************************************)
(* What the steps write.                                                   *)
(***************************************************************************)

LEMMA LeaseMoves ==
    ASSUME TypeOK, NEW w \in Workers
    PROVE  /\ Extended \in Lease /\ Extended.fence = lease.fence
           /\ Released(w) \in Lease /\ Released(w).fence = lease.fence
<1>1. lease \in Lease /\ now \in Times /\ now + LeaseTicks \in 0..(MaxTime + LeaseTicks)
  BY TypeParts, ConstantTypes DEF VarTypes, Times
<1>2. Extended \in Lease /\ Extended.fence = lease.fence
  BY <1>1 DEF Lease, Extended
<1>3. 0 \in 0..(MaxTime + LeaseTicks)
  BY ConstantTypes
<1>4. Released(w) \in Lease /\ Released(w).fence = lease.fence
  BY <1>1, <1>3 DEF Lease, Released
<1> QED
  BY <1>2, <1>4

LEMMA IdleIsCycle ==
    /\ Idle \in Cycle /\ Idle.pc = "idle" /\ Idle.ev = None
    /\ \A f \in 0..MaxCycles :
          LET c == [Idle EXCEPT !.pc = "closing", !.fence = f]
          IN  c \in Cycle /\ c.pc = "closing" /\ c.ev = None
<1>1. 0 \in Times /\ 0 \in 0..MaxCycles
  BY ConstantTypes DEF Times
<1> QED
  BY <1>1 DEF Idle, Cycle

\* After its poll a cycle goes on without evidence or ends.
LEMMA GoesOnMoves ==
    ASSUME TypeOK, NEW w \in Workers, GoesOn(w)
    PROVE  /\ lease' \in Lease /\ lease'.fence = lease.fence
           /\ \E c \in Cycle : /\ cycle' = [cycle EXCEPT ![w] = c]
                               /\ c.ev = None /\ c.pc \notin Flying
<1>1. cycle[w] \in Cycle /\ cycle[w].fence \in 0..MaxCycles
  BY TypeParts DEF VarTypes, Cycle
<1> DEFINE c == [Idle EXCEPT !.pc = "closing", !.fence = cycle[w].fence]
<1>2. c \in Cycle /\ c.ev = None /\ c.pc \notin Flying
  BY <1>1, IdleIsCycle DEF Flying
<1>3. Idle \in Cycle /\ Idle.ev = None /\ Idle.pc \notin Flying
  BY IdleIsCycle DEF Flying
<1>4. \/ lease' = Extended /\ cycle' = [cycle EXCEPT ![w] = c]
      \/ lease' = Released(w) /\ cycle' = [cycle EXCEPT ![w] = Idle]
  BY DEF GoesOn
<1> HIDE DEF c
<1> QED
  BY <1>2, <1>3, <1>4, LeaseMoves

\* The poll a cycle writes.
LEMMA NewPollType ==
    ASSUME TypeOK, NEW w \in Workers, NEW b \in BOOLEAN, NEW g \in GenIds \cup {0}
    PROVE  /\ NewPoll(w, b, g) \in PollRow
           /\ NewPoll(w, b, g).ev = cycle[w].ev /\ NewPoll(w, b, g).promoted = b
           /\ NewPoll(w, b, g).gen = g /\ NewPoll(w, b, g).completed = cycle[w].accepted
           /\ cycle[w].ev = None => NewPoll(w, b, g).started = cycle[w].started
<1>1. cycle[w] \in Cycle
  BY TypeParts DEF VarTypes
<1>2. /\ cycle[w].started \in Times /\ cycle[w].accepted \in Times
      /\ cycle[w].ev \in Evidence \cup {None} /\ 0 \in Times
  BY <1>1, ConstantTypes DEF Cycle, Times
<1>3. (IF cycle[w].ev = None THEN cycle[w].started ELSE 0) \in Times
  BY <1>2
<1> QED
  BY <1>2, <1>3 DEF NewPoll, PollRow

\* Confirmation: one poll, and the rows of Latest at most dated anew.
LEMMA ConfirmWrites ==
    ASSUME TypeOK, RowsInv, NEW w \in Workers, cycle[w].ev # None, Confirm(w)
    PROVE  \E row \in PollRow :
              /\ polls' = Append(polls, row) /\ row.ev = cycle[w].ev
              /\ row.promoted = Advances(cycle[w].ev) /\ row.completed = cycle[w].accepted
              /\ latest' = (IF Advances(cycle[w].ev) THEN ConfirmedLatest(cycle[w].ev) ELSE latest)
              /\ live' = [live EXCEPT !.polls = @ \cup {Len(polls) + 1}]
              /\ latest' \in [Refs -> LatestRow \cup {Absent}]
              /\ \A r \in Refs : /\ latest'[r] = Absent <=> latest[r] = Absent
                                 /\ latest'[r].obs = latest[r].obs /\ latest'[r].gen = latest[r].gen
              /\ UNCHANGED <<gens, active>>
<1> DEFINE ev == cycle[w].ev
<1>1. ev \in Evidence /\ active \in GenIds \cup {0} /\ latest \in [Refs -> LatestRow \cup {Absent}]
  BY TypeParts DEF VarTypes, Cycle
<1>2. ev.retrieved \in Times
  BY <1>1, EvidenceTypes
<1>3. Advances(ev) \in BOOLEAN
  BY DEF Advances
<1>4. PICK row \in PollRow : row = NewPoll(w, Advances(ev), active)
  BY <1>1, <1>3, NewPollType
<1>5. row.ev = ev /\ row.promoted = Advances(ev) /\ row.completed = cycle[w].accepted
  BY <1>1, <1>3, <1>4, NewPollType
<1>6. \A l \in LatestRow : l # Absent
  BY ConstantTypes DEF LatestRow, Absent
<1>7. ASSUME NEW l \in LatestRow
      PROVE  /\ [l EXCEPT !.conf = ev.retrieved] \in LatestRow
             /\ [l EXCEPT !.conf = ev.retrieved].obs = l.obs /\ [l EXCEPT !.conf = ev.retrieved].gen = l.gen
  BY <1>2 DEF LatestRow
<1>8. /\ ConfirmedLatest(ev) \in [Refs -> LatestRow \cup {Absent}]
      /\ \A r \in Refs : /\ ConfirmedLatest(ev)[r] = Absent <=> latest[r] = Absent
                         /\ ConfirmedLatest(ev)[r].obs = latest[r].obs
                         /\ ConfirmedLatest(ev)[r].gen = latest[r].gen
  <2>1. ASSUME NEW r \in Refs
        PROVE  LET x == IF /\ latest[r] # Absent
                           /\ ev.content.board.complete \/ r \in ev.content.board.refs
                           /\ latest[r].conf < ev.retrieved
                        THEN [latest[r] EXCEPT !.conf = ev.retrieved] ELSE latest[r]
               IN  /\ x \in LatestRow \cup {Absent} /\ (x = Absent <=> latest[r] = Absent)
                   /\ x.obs = latest[r].obs /\ x.gen = latest[r].gen
    <3>1. latest[r] \in LatestRow \cup {Absent}
      BY <1>1
    <3>2. CASE latest[r] = Absent
      BY <3>2
    <3>3. CASE latest[r] \in LatestRow
      BY <1>6, <1>7, <3>3
    <3> QED
      BY <3>1, <3>2, <3>3
  <2> HIDE DEF ev
  <2> QED
    BY <2>1 DEF ConfirmedLatest
<1>9. /\ polls' = Append(polls, row)
      /\ live' = [live EXCEPT !.polls = @ \cup {Len(polls) + 1}]
      /\ latest' = (IF Advances(ev) THEN ConfirmedLatest(ev) ELSE latest)
      /\ gens' = gens /\ active' = active
  BY <1>4, Zenon DEF Confirm
<1>10. /\ latest' \in [Refs -> LatestRow \cup {Absent}]
       /\ \A r \in Refs : /\ latest'[r] = Absent <=> latest[r] = Absent
                          /\ latest'[r].obs = latest[r].obs /\ latest'[r].gen = latest[r].gen
  <2>1. CASE latest' = latest
    BY <1>1, <2>1
  <2>2. CASE latest' = ConfirmedLatest(ev)
    BY <1>8, <2>2, Zenon
  <2> QED
    BY <1>9, <2>1, <2>2
<1> QED
  BY <1>5, <1>9, <1>10

\* The lines of a promoted board.
LEMMA AdvancedTypes ==
    ASSUME TypeOK, NEW ev \in Evidence, NEW g \in GenIds
    PROVE  /\ AdvancedLatest(ev, g) \in [Refs -> LatestRow \cup {Absent}]
           /\ \A r \in Refs :
                 \/ AdvancedLatest(ev, g)[r] = Absent
                 \/ /\ AdvancedLatest(ev, g)[r].obs = g /\ AdvancedLatest(ev, g)[r].gen = g
                    /\ r \in ev.content.board.refs
                 \/ /\ AdvancedLatest(ev, g)[r].obs = latest[r].obs
                    /\ AdvancedLatest(ev, g)[r].gen = g /\ latest[r] # Absent
           /\ AdvancedLatest(ev, g)[Unmapped] = Absent =>
                 \/ Unmapped \notin ev.content.board.refs
                 \/ ev.content.mapped = FALSE
           /\ AdvancedLatest(ev, g)[Unmapped] # Absent =>
                 \/ latest[Unmapped] # Absent
                 \/ Unmapped \in ev.content.board.refs /\ ev.content.mapped = TRUE
<1>1. latest \in [Refs -> LatestRow \cup {Absent}] /\ Unmapped \in Refs
  BY TypeParts, ConstantTypes DEF VarTypes
<1>2. /\ ev.retrieved \in Times /\ ev.content.board.refs \subseteq Refs /\ ev.content.mapped \in BOOLEAN
  BY EvidenceTypes
<1>3. \A l \in LatestRow : l # Absent
  BY ConstantTypes DEF LatestRow, Absent
<1>4. Line(ev, g) \in LatestRow /\ Line(ev, g).obs = g /\ Line(ev, g).gen = g
  BY <1>2 DEF LatestRow, Line
<1>5. ASSUME NEW r \in Refs, latest[r] # Absent
      PROVE  /\ [latest[r] EXCEPT !.gen = g] \in LatestRow
             /\ [latest[r] EXCEPT !.gen = g].gen = g
             /\ [latest[r] EXCEPT !.gen = g].obs = latest[r].obs
  <2>1. latest[r] \in LatestRow
    BY <1>1, <1>5
  <2> QED
    BY <2>1 DEF LatestRow
<1>6. /\ Selected(ev) \subseteq ev.content.board.refs
      /\ Unmapped \in Selected(ev) <=> Unmapped \in ev.content.board.refs /\ ev.content.mapped = TRUE
  BY <1>2 DEF Selected
<1> DEFINE x(r) == IF r \in Selected(ev) THEN Line(ev, g)
                   ELSE IF ev.content.board.complete \/ r \in ev.content.board.refs \/ latest[r] = Absent
                        THEN Absent ELSE [latest[r] EXCEPT !.gen = g]
<1>7. AdvancedLatest(ev, g) = [r \in Refs |-> x(r)]
  <2>1. CASE ev.content.board.complete
    BY <2>1 DEF AdvancedLatest, CompleteLatest
  <2>2. CASE ~ev.content.board.complete
    BY <2>2 DEF AdvancedLatest, PartialLatest
  <2> QED
    BY <2>1, <2>2
<1>8. ASSUME NEW r \in Refs
      PROVE  /\ x(r) \in LatestRow \cup {Absent}
             /\ \/ x(r) = Absent
                \/ x(r).obs = g /\ x(r).gen = g /\ r \in ev.content.board.refs
                \/ x(r).obs = latest[r].obs /\ x(r).gen = g /\ latest[r] # Absent
  <2>1. CASE r \in Selected(ev)
    BY <1>4, <1>6, <2>1
  <2>2. CASE r \notin Selected(ev) /\ x(r) = Absent
    BY <2>2
  <2>3. CASE r \notin Selected(ev) /\ latest[r] # Absent /\ x(r) = [latest[r] EXCEPT !.gen = g]
    BY <1>5, <2>3
  <2> QED
    BY <2>1, <2>2, <2>3
<1>9. x(Unmapped) = Absent => Unmapped \notin ev.content.board.refs \/ ev.content.mapped = FALSE
  <2>1. x(Unmapped) = Absent => Unmapped \notin Selected(ev)
    BY <1>3, <1>4
  <2> QED
    BY <1>2, <1>6, <2>1
<1>10. x(Unmapped) # Absent => \/ latest[Unmapped] # Absent
                               \/ Unmapped \in ev.content.board.refs /\ ev.content.mapped = TRUE
  BY <1>6
<1>11. \A r \in Refs : AdvancedLatest(ev, g)[r] = x(r)
  BY <1>7
<1> HIDE DEF x
<1> QED
  BY <1>1, <1>7, <1>8, <1>9, <1>10, <1>11

\* A new generation: a poll, the rows of the board, and the Latest lines when
\* the evidence is newer than every fence.
LEMMA PersistWrites ==
    ASSUME TypeOK, RowsInv, HistoryInv, PointersResolve,
           NEW w \in Workers, cycle[w].pc \in Flying, cycle[w].ev # None, Persist(w)
    PROVE  LET ev == cycle[w].ev
               g == Len(gens) + 1
               p == Len(polls) + 1
           IN  \E row \in PollRow, gen \in Gen, snap \in live.snaps \cup {g} :
                  /\ polls' = Append(polls, row) /\ gens' = Append(gens, gen)
                  /\ row.ev = ev /\ row.promoted = Advances(ev) /\ row.completed = cycle[w].accepted
                  /\ gen.content = ev.content /\ gen.retrieved = ev.retrieved /\ gen.replay = FALSE
                  /\ gen.created = cycle[w].accepted /\ gen.advanced = Advances(ev)
                  /\ snap = (IF active # 0 /\ CurrentContent = ev.content THEN gens[active].snap ELSE g)
                  /\ gen.snap = snap /\ gen.poll = p /\ gen.source = g
                  /\ live' = [rows |-> live.rows \cup ({g} \X ev.content.board.refs),
                              gens |-> live.gens \cup {g}, polls |-> live.polls \cup {p},
                              snaps |-> live.snaps \cup {snap}]
                  /\ live' \in Live
                  /\ latest' = (IF Advances(ev) THEN AdvancedLatest(ev, g) ELSE latest)
                  /\ active' = (IF Advances(ev) THEN g ELSE active)
                  /\ g \in GenIds /\ p \in PollIds
<1> DEFINE ev == cycle[w].ev
           g == Len(gens) + 1
           p == Len(polls) + 1
<1>1. ev \in Evidence /\ active \in GenIds \cup {0} /\ live \in Live /\ cycle[w] \in Cycle
  BY TypeParts DEF VarTypes, Cycle
<1>2. ev.retrieved \in Times /\ ev.content \in Contents /\ ev.content.board.refs \subseteq Refs
  BY <1>1, EvidenceTypes
<1>3. Advances(ev) \in BOOLEAN
  BY DEF Advances
<1>4. g \in GenIds /\ p \in PollIds /\ g \in GenIds \cup {0}
  BY Room DEF InFlight
<1>5. PICK row \in PollRow : row = NewPoll(w, Advances(ev), g)
  BY <1>3, <1>4, NewPollType
<1>6. row.ev = ev /\ row.promoted = Advances(ev) /\ row.completed = cycle[w].accepted
  BY <1>3, <1>4, <1>5, NewPollType
<1>7. PICK snap \in live.snaps \cup {g} :
         snap = IF active # 0 /\ CurrentContent = ev.content THEN gens[active].snap ELSE g
  <2>1. active # 0 => gens[active].snap \in live.snaps
    BY DEF PointersResolve
  <2> QED
    BY <2>1
<1>8. snap \in GenIds
  BY <1>1, <1>4 DEF Live
<1>9. cycle[w].accepted \in Times
  BY <1>1 DEF Cycle
<1>10. PICK gen : gen = [content |-> ev.content, retrieved |-> ev.retrieved,
                         created |-> cycle[w].accepted, advanced |-> Advances(ev),
                         replay |-> FALSE, snap |-> snap, poll |-> p, source |-> g]
  OBVIOUS
<1>11. /\ gen.content = ev.content /\ gen.retrieved = ev.retrieved /\ gen.replay = FALSE
       /\ gen.created = cycle[w].accepted /\ gen.advanced = Advances(ev)
       /\ gen.snap = snap /\ gen.poll = p /\ gen.source = g
  BY <1>10
<1>12. gen \in Gen
  <2> HIDE DEF ev, g, p
  <2> QED
    BY <1>2, <1>3, <1>4, <1>8, <1>9, <1>10 DEF Gen
<1>13. PICK lv : lv = [rows |-> live.rows \cup ({g} \X ev.content.board.refs),
                       gens |-> live.gens \cup {g}, polls |-> live.polls \cup {p},
                       snaps |-> live.snaps \cup {snap}]
  OBVIOUS
<1>14. lv \in Live
  <2>1. {g} \X ev.content.board.refs \subseteq RowIds
    BY <1>2, <1>4 DEF RowIds
  <2> HIDE DEF ev, g, p
  <2> QED
    BY <1>1, <1>4, <1>8, <1>13, <2>1 DEF Live
<1>15. /\ polls' = Append(polls, row) /\ gens' = Append(gens, gen)
       /\ live' = lv
       /\ latest' = (IF Advances(ev) THEN AdvancedLatest(ev, g) ELSE latest)
       /\ active' = (IF Advances(ev) THEN g ELSE active)
  BY <1>5, <1>7, <1>10, <1>13, Zenon DEF Persist
<1> HIDE DEF ev, g, p
<1> QED
  BY <1>4, <1>6, <1>7, <1>11, <1>12, <1>13, <1>14, <1>15 DEF ev, g, p

\* The generation with which a decision is replayed, of the rows of one that
\* is still there.
LEMMA ReplayWrites ==
    ASSUME TypeOK, RowsInv, HistoryInv, PointersResolve, ReplayMapping
    PROVE  LET g == Len(gens) + 1
           IN  /\ decision = "approved" /\ decision' = "replayed"
               /\ UNCHANGED <<now, lease, cycle, polls, closing, prune, faults>>
               /\ \/ UNCHANGED <<archive, replayed>>
                  \/ \E gen \in Gen, s \in live.gens :
                        /\ active # 0 /\ g \in GenIds
                        /\ gens' = Append(gens, gen)
                        /\ gen.retrieved = gens[active].retrieved /\ gen.replay = TRUE
                        /\ gen.snap = gens[active].snap /\ gen.poll = gens[active].poll
                        /\ gen.source = s /\ gens[s].advanced
                        /\ gen.content = [board |-> [complete |-> FALSE, refs |-> {Unmapped}],
                                          mapped |-> TRUE]
                        /\ gen.created = now /\ gen.advanced = gens[active].advanced
                        /\ live' = [live EXCEPT !.rows = @ \cup {<<g, Unmapped>>}, !.gens = @ \cup {g}]
                        /\ latest' = [latest EXCEPT ![Unmapped] =
                                        [obs |-> g, gen |-> g, conf |-> gens[s].retrieved]]
                        /\ active' = g
                        /\ replayed' = [at |-> now, retrieved |-> gens[active].retrieved]
<1> DEFINE g == Len(gens) + 1
           s == Max(ReplaySources)
           board == [complete |-> FALSE, refs |-> {Unmapped}]
           row == [gens[active] EXCEPT !.content = [board |-> board, mapped |-> TRUE],
                                       !.created = now, !.replay = TRUE, !.source = s]
<1>1. decision = "approved" /\ decision' = "replayed"
      /\ UNCHANGED <<now, lease, cycle, closing, prune, faults>>
  BY DEF ReplayMapping
<1>2. CASE active = 0 \/ ReplaySources = {}
  BY <1>1, <1>2 DEF ReplayMapping, archive
<1>3. CASE active # 0 /\ ReplaySources # {}
  <2>1. active \in live.gens /\ live.gens \subseteq DOMAIN gens /\ DOMAIN gens \subseteq GenIds
    BY <1>3, HistoryTypes DEF PointersResolve, HistoryInv
  <2>2. s \in ReplaySources
    <3>1. ReplaySources \subseteq 1 .. Len(gens) /\ Len(gens) \in Nat
      BY <2>1, HistoryTypes DEF ReplaySources
    <3>2. IsFiniteSet(1 .. Len(gens))
      BY <3>1, FS_Interval
    <3>3. IsFiniteSet(ReplaySources)
      BY <3>1, <3>2, FS_Subset
    <3>4. ReplaySources \subseteq Int => s \in ReplaySources
      BY <1>3, <3>3, MaxOf
    <3> QED
      BY <3>1, <3>4
  <2>3. s \in live.gens /\ s \in GenIds /\ now \in Times /\ gens[s].advanced
    BY <2>1, <2>2, TypeParts DEF ReplaySources, VarTypes
  <2>4. gens[active] \in Gen
    BY <2>1, HistoryTypes
  <2>5. board \in Replays
    BY DEF Replays
  <2>6. PICK gen : gen = row
    OBVIOUS
  <2>7. gen \in Gen
    <3>1. [board |-> board, mapped |-> TRUE] \in [board : Replays, mapped : {TRUE}]
      BY <2>5
    <3> HIDE DEF board, s
    <3> QED
      BY <2>3, <2>4, <2>6, <3>1 DEF Gen
  <2>8. /\ gen.retrieved = gens[active].retrieved /\ gen.replay = TRUE
        /\ gen.snap = gens[active].snap /\ gen.poll = gens[active].poll /\ gen.source = s
        /\ gen.content = [board |-> board, mapped |-> TRUE]
        /\ gen.created = now /\ gen.advanced = gens[active].advanced
    <3> HIDE DEF board, s
    <3> QED
      BY <2>4, <2>6 DEF Gen
  <2>9. g \in GenIds
    BY <1>1, Room
  <2>10. /\ gens' = Append(gens, gen)
         /\ live' = [live EXCEPT !.rows = @ \cup {<<g, Unmapped>>}, !.gens = @ \cup {g}]
         /\ latest' = [latest EXCEPT ![Unmapped] = [obs |-> g, gen |-> g, conf |-> gens[s].retrieved]]
         /\ active' = g
         /\ replayed' = [at |-> now, retrieved |-> gens[active].retrieved]
         /\ UNCHANGED polls
    BY <1>3, <2>6, Zenon DEF ReplayMapping
  <2> HIDE DEF s, g, row
  <2> QED
    BY <1>1, <1>3, <2>3, <2>7, <2>8, <2>9, <2>10 DEF g
<1> QED
  BY <1>2, <1>3

\* What retention reads.
LEMMA RowReads ==
    ASSUME TypeOK, RowsInv, HistoryInv, PointersResolve, NEW row \in live.rows
    PROVE  /\ row = <<row[1], row[2]>> /\ row[1] \in live.gens /\ row[2] \in Refs
           /\ row[1] \in DOMAIN gens /\ gens[row[1]].source \in DOMAIN gens
           /\ ObservedAt(row) \in Times
<1>1. row \in RowIds
  BY TypeParts DEF VarTypes, Live
<1>2. row = <<row[1], row[2]>> /\ row[2] \in Refs
  BY <1>1 DEF RowIds
<1>3. row[1] \in live.gens /\ live.gens \subseteq DOMAIN gens
  BY DEF PointersResolve, HistoryInv
<1>4. gens[row[1]].source \in DOMAIN gens
  BY <1>3 DEF HistoryInv
<1> QED
  BY <1>2, <1>3, <1>4, HistoryTypes DEF ObservedAt

LEMMA BaselineType ==
    ASSUME TypeOK, RowsInv, HistoryInv, NEW u
    PROVE  Baseline(live.gens, u) \in GenIds \cup {0}
<1> DEFINE S == {0} \cup {g \in Eligible(live.gens, u) : gens[g].content.board.complete /\ ~gens[g].replay}
<1>1. S \subseteq 0 .. Len(gens) /\ Len(gens) \in Nat /\ S \subseteq GenIds \cup {0} /\ S # {}
  BY HistoryTypes DEF Eligible, HistoryInv
<1>2. IsFiniteSet(S)
  <2>1. IsFiniteSet(0 .. Len(gens))
    BY <1>1, FS_Interval
  <2> HIDE DEF S
  <2> QED
    BY <1>1, <2>1, FS_Subset
<1>3. Baseline(live.gens, u) = Max(S)
  BY Zenon DEF Baseline
<1> HIDE DEF S
<1>4. S \subseteq Int => Max(S) \in S
  BY <1>1, <1>2, MaxOf
<1>5. S \subseteq Int
  BY <1>1
<1> QED
  BY <1>1, <1>3, <1>4, <1>5

\* The steps of retention keep its types; they delete and never add.
LEMMA RestingType == Resting \in Retention /\ Resting.polls = {}
<1>1. 0 \in Times
  BY ConstantTypes DEF Times
<1> QED
  BY <1>1 DEF Resting, Retention

LEMMA BeginPruneTypes ==
    ASSUME TypeOK, RowsInv, HistoryInv, BeginPrune
    PROVE  prune' \in Retention /\ prune'.polls = {}
<1>1. PICK named, spare, baselines :
         /\ named = (\E row \in live.rows : OlderThan(row, now - Window))
         /\ spare = {row \in NeededRows(now) : OlderThan(row, now - Window)}
         /\ baselines = NeededBaselines(now, named)
         /\ prune' = [Resting EXCEPT !.pc = "rows", !.now = now, !.named = named,
                        !.spare = spare, !.baselines = baselines]
  BY Zenon DEF BeginPrune
<1>2. now \in Times /\ live \in Live
  BY TypeParts DEF VarTypes
<1>3. spare \subseteq RowIds
  BY <1>1, <1>2 DEF NeededRows, RuleRows, Live
<1>4. baselines \subseteq GenIds
  BY <1>1, BaselineType DEF NeededBaselines
<1>5. named \in BOOLEAN
  BY <1>1
<1> QED
  BY <1>1, <1>2, <1>3, <1>4, <1>5, RestingType, ZenonT(60) DEF Retention, Resting

LEMMA PruneRowsTypes ==
    ASSUME TypeOK, RowsInv, HistoryInv, PointersResolve, PruneRows
    PROVE  /\ prune' \in Retention /\ prune'.polls = prune.polls
           /\ \E doomed : /\ live' = [live EXCEPT !.rows = @ \ doomed] /\ live' \in Live
                          /\ \A row \in doomed : ~Protected(row)
<1> DEFINE T == {ObservedAt(row) : row \in RowsAhead}
<1>1. PICK c, batch, doomed :
         /\ c = Min(T)
         /\ batch = {row \in RowsAhead : ObservedAt(row) = c}
         /\ doomed = {row \in batch : ~Protected(row)}
         /\ live' = [live EXCEPT !.rows = @ \ doomed]
         /\ prune' = [prune EXCEPT !.cursor = c, !.kept = @ \cup (batch \ doomed)]
         /\ RowsAhead # {}
  BY Zenon DEF PruneRows
<1>2. live \in Live /\ prune \in Retention
  BY TypeParts DEF VarTypes
<1>3. T \subseteq Times /\ T # {}
  BY <1>1, RowReads DEF RowsAhead
<1>4. c \in Times
  <2>1. IsFiniteSet(T)
    <3>1. IsFiniteSet(Times)
      BY ConstantTypes, FS_Interval DEF Times
    <3> HIDE DEF T
    <3> QED
      BY <1>3, <3>1, FS_Subset
  <2>2. T \subseteq Int => Min(T) \in T
    <3> HIDE DEF T
    <3> QED
      BY <1>3, <2>1, MinOf
  <2> QED
    BY <1>1, <1>3, <2>2, ConstantTypes
<1>5. batch \subseteq RowIds
  BY <1>1, <1>2 DEF RowsAhead, Live
<1>6. prune' \in Retention /\ prune'.polls = prune.polls
  BY <1>1, <1>2, <1>4, <1>5 DEF Retention
<1>7. live' \in Live
  BY <1>1, <1>2 DEF Live
<1>8. \A row \in doomed : ~Protected(row)
  BY <1>1
<1> QED
  BY <1>1, <1>6, <1>7, <1>8, Zenon

\* The parents that are to go; the newest polls are not among them.
LEMMA PlanParentsTypes ==
    ASSUME TypeOK, PlanParents
    PROVE  prune' \in Retention /\ prune'.polls \subseteq live.polls \ NewestPolls
<1>1. PICK gs, ps, ss :
         /\ prune' = [prune EXCEPT !.pc = "gens", !.gens = live.gens \ gs,
                                   !.polls = live.polls \ ps, !.snaps = live.snaps \ ss,
                                   !.spare = {}, !.baselines = {}, !.kept = {}, !.cursor = -1]
         /\ NewestPolls \subseteq ps
  <2> DEFINE recent == {row \in live.rows : ~Expired(row)}
             rows == prune.kept \cup recent
             genSeeds == {g \in live.gens :
                            \/ gens[g].created >= Cutoff \/ g = active \/ g \in prune.baselines
                            \/ \E r \in Refs : latest[r].gen = g
                            \/ \E r \in Refs : InClosing(<<g, r>>)}
                         \cup {row[1] : row \in rows}
             pollSeeds == {p \in live.polls : polls[p].completed >= Cutoff}
                          \cup NewestPolls \cup {SourcePoll(row) : row \in rows}
             keptGens == genSeeds \cup ({polls[p].gen : p \in pollSeeds} \ {0})
             keptPolls == pollSeeds \cup {gens[g].poll : g \in keptGens}
             allGens == keptGens \cup ({polls[p].gen : p \in keptPolls} \ {0})
             keptSnaps == {s \in live.snaps : gens[s].retrieved >= Cutoff}
                          \cup {gens[g].snap : g \in allGens}
  <2>1. prune' = [prune EXCEPT !.pc = "gens", !.gens = live.gens \ allGens,
                               !.polls = live.polls \ keptPolls, !.snaps = live.snaps \ keptSnaps,
                               !.spare = {}, !.baselines = {}, !.kept = {}, !.cursor = -1]
    BY Zenon DEF PlanParents
  <2>2. NewestPolls \subseteq keptPolls
    BY Zenon
  <2> HIDE DEF allGens, keptPolls, keptSnaps
  <2> QED
    BY <2>1, <2>2
<1>2. live \in Live /\ prune \in Retention
  BY TypeParts DEF VarTypes
<1>3. live.gens \subseteq GenIds /\ live.polls \subseteq PollIds /\ live.snaps \subseteq GenIds
  BY <1>2 DEF Live
<1>4. /\ live.gens \ gs \in SUBSET GenIds /\ live.polls \ ps \in SUBSET PollIds
      /\ live.snaps \ ss \in SUBSET GenIds
  BY <1>3
<1>5. prune' \in Retention /\ prune'.polls = live.polls \ ps
  BY <1>1, <1>2, <1>4 DEF Retention
<1> QED
  BY <1>1, <1>5

\* The parents that go: nothing refers to them.
LEMMA PruneParentsTypes ==
    ASSUME TypeOK, PruneParents
    PROVE  /\ prune' \in Retention /\ live' \in Live /\ live'.rows = live.rows
           /\ \/ /\ live'.gens = live.gens \ UnreferencedGens
                 /\ live'.polls = live.polls /\ live'.snaps = live.snaps
                 /\ prune'.polls = prune.polls
              \/ /\ live'.polls = live.polls \ UnreferencedPolls
                 /\ live'.gens = live.gens /\ live'.snaps = live.snaps
                 /\ prune'.polls = {}
              \/ /\ live'.snaps = live.snaps \ UnreferencedSnaps
                 /\ live'.gens = live.gens /\ live'.polls = live.polls
                 /\ prune'.polls = {}
<1>1. live \in Live /\ prune \in Retention
  BY TypeParts DEF VarTypes
<1>2. \/ /\ live' = [live EXCEPT !.gens = @ \ UnreferencedGens]
         /\ prune' = [prune EXCEPT !.pc = "polls", !.gens = {}, !.named = FALSE]
      \/ /\ live' = [live EXCEPT !.polls = @ \ UnreferencedPolls]
         /\ prune' = [prune EXCEPT !.pc = "snaps", !.polls = {}]
      \/ /\ live' = [live EXCEPT !.snaps = @ \ UnreferencedSnaps]
         /\ prune' = Resting
  BY DEF PruneParents
<1>3. CASE /\ live' = [live EXCEPT !.gens = @ \ UnreferencedGens]
           /\ prune' = [prune EXCEPT !.pc = "polls", !.gens = {}, !.named = FALSE]
  <2>1. /\ live' \in Live /\ live'.rows = live.rows /\ live'.gens = live.gens \ UnreferencedGens
        /\ live'.polls = live.polls /\ live'.snaps = live.snaps
    BY <1>1, <1>3 DEF Live
  <2>2. prune' \in Retention /\ prune'.polls = prune.polls
    BY <1>1, <1>3 DEF Retention
  <2> QED
    BY <2>1, <2>2
<1>4. CASE /\ live' = [live EXCEPT !.polls = @ \ UnreferencedPolls]
           /\ prune' = [prune EXCEPT !.pc = "snaps", !.polls = {}]
  <2>1. /\ live' \in Live /\ live'.rows = live.rows /\ live'.polls = live.polls \ UnreferencedPolls
        /\ live'.gens = live.gens /\ live'.snaps = live.snaps
    BY <1>1, <1>4 DEF Live
  <2>2. prune' \in Retention /\ prune'.polls = {}
    BY <1>1, <1>4 DEF Retention
  <2> QED
    BY <2>1, <2>2
<1>5. CASE live' = [live EXCEPT !.snaps = @ \ UnreferencedSnaps] /\ prune' = Resting
  <2>1. /\ live' \in Live /\ live'.rows = live.rows /\ live'.snaps = live.snaps \ UnreferencedSnaps
        /\ live'.gens = live.gens /\ live'.polls = live.polls
    BY <1>1, <1>5 DEF Live
  <2> QED
    BY <1>5, <2>1, RestingType
<1> QED
  BY <1>2, <1>3, <1>4, <1>5

\* The steps of a cycle that neither fetch nor write.
CycleSheds(w) ==
    \/ \E pc \in {"polling", "closing"} : Begin(w, pc)
    \/ FetchFails(w) \/ Admit(w) \/ LeaseLost(w) \/ RecordFault(w) \/ Freeze(w)

LEMMA ShedMoves ==
    ASSUME TypeOK, NEW w \in Workers, CycleSheds(w)
    PROVE  /\ \E c \in Cycle :
                 /\ cycle' = [cycle EXCEPT ![w] = c] /\ c.ev \in {None, cycle[w].ev}
                 /\ \/ lease'.fence = lease.fence /\ (c.pc \in Flying => cycle[w].pc \in Flying)
                    \/ lease'.fence = lease.fence + 1
           /\ lease' \in Lease /\ faults' \in 0..MaxFaults
           /\ UNCHANGED <<now, decision, polls, gens, live, latest, active, replayed, prune>>
<1>1. cycle \in [Workers -> Cycle] /\ cycle[w] \in Cycle /\ lease \in Lease /\ now \in Times /\ faults \in 0..MaxFaults
  BY TypeParts DEF VarTypes
<1>2. ASSUME NEW pc \in {"polling", "closing"}, Begin(w, pc)
      PROVE  /\ \E c \in Cycle :
                   /\ cycle' = [cycle EXCEPT ![w] = c] /\ c.ev \in {None, cycle[w].ev}
                   /\ lease'.fence = lease.fence + 1
             /\ lease' \in Lease /\ faults' \in 0..MaxFaults
             /\ UNCHANGED <<now, decision, polls, gens, live, latest, active, replayed, prune>>
  <2>1. lease.fence + 1 \in 0..MaxCycles /\ now + LeaseTicks \in 0..(MaxTime + LeaseTicks) /\ 0 \in Times
    BY <1>1, <1>2, ConstantTypes DEF Begin, Lease, Times
  <2>2. lease' \in Lease /\ lease'.fence = lease.fence + 1
    BY <1>2, <2>1 DEF Begin, Lease
  <2> DEFINE c == [Idle EXCEPT !.pc = pc, !.fence = lease.fence + 1,
                               !.started = IF pc = "polling" THEN now ELSE 0]
  <2>3. c \in Cycle /\ c.ev = None
    <3>1. PICK s \in Times : s = IF pc = "polling" THEN now ELSE 0
      BY <1>1, <2>1
    <3>2. PICK f \in 0..MaxCycles : f = lease.fence + 1
      BY <2>1
    <3>3. LET d == [Idle EXCEPT !.pc = pc, !.fence = f, !.started = s]
          IN  d \in Cycle /\ d.ev = None
      BY <2>1, ConstantTypes DEF Idle, Cycle
    <3>4. c = [Idle EXCEPT !.pc = pc, !.fence = f, !.started = s]
      BY <3>1, <3>2, Zenon
    <3> HIDE DEF c
    <3> QED
      BY <3>3, <3>4
  <2>4. cycle' = [cycle EXCEPT ![w] = c]
    BY <1>2, Zenon DEF Begin
  <2> HIDE DEF c
  <2>5. UNCHANGED <<now, decision, polls, gens, live, latest, active, replayed, prune, faults>>
    BY <1>2 DEF Begin, archive
  <2> QED
    BY <1>1, <2>2, <2>3, <2>4, <2>5
<1>3. CASE FetchFails(w)
  <2>1. [cycle[w] EXCEPT !.pc = "got"] \in Cycle /\ [cycle[w] EXCEPT !.pc = "got"].ev = cycle[w].ev
    BY <1>1 DEF Cycle
  <2>2. cycle' = [cycle EXCEPT ![w] = [cycle[w] EXCEPT !.pc = "got"]]
    BY <1>1, <1>3 DEF FetchFails
  <2>3. cycle[w].pc = "polling" /\ faults' \in 0..MaxFaults
    BY <1>1, <1>3, ConstantTypes DEF FetchFails
  <2>4. UNCHANGED <<now, decision, lease, polls, gens, live, latest, active, replayed, prune>>
    BY <1>3 DEF FetchFails, archive
  <2> QED
    BY <1>1, <2>1, <2>2, <2>3, <2>4 DEF Flying
<1>4. CASE Admit(w)
  <2> DEFINE c == [cycle[w] EXCEPT !.pc = "recording", !.accepted = now]
  <2>1. c \in Cycle /\ c.ev = cycle[w].ev
    BY <1>1 DEF Cycle
  <2>2. cycle' = [cycle EXCEPT ![w] = c]
    BY <1>1, <1>4 DEF Admit
  <2>3. cycle[w].pc = "got" /\ lease' = Extended
    BY <1>4 DEF Admit
  <2>4. UNCHANGED <<now, decision, polls, gens, live, latest, active, replayed, prune, faults>>
    BY <1>4 DEF Admit, archive
  <2> HIDE DEF c
  <2> QED
    BY <1>1, <2>1, <2>2, <2>3, <2>4, LeaseMoves DEF Flying
<1>5. CASE LeaseLost(w) \/ Freeze(w)
  <2>1. cycle' = [cycle EXCEPT ![w] = Idle] /\ lease' = Released(w)
    BY <1>5 DEF LeaseLost, Freeze
  <2>2. UNCHANGED <<now, decision, polls, gens, live, latest, active, replayed, prune, faults>>
    BY <1>5 DEF LeaseLost, Freeze, archive
  <2>3. Idle \in Cycle /\ Idle.ev = None /\ Idle.pc \notin Flying
    BY IdleIsCycle DEF Flying
  <2> QED
    BY <1>1, <2>1, <2>2, <2>3, LeaseMoves
<1>6. CASE RecordFault(w)
  <2> DEFINE c == [cycle[w] EXCEPT !.pc = "got", !.ev = None]
  <2>1. c \in Cycle /\ c.ev = None
    BY <1>1 DEF Cycle
  <2>2. cycle' = [cycle EXCEPT ![w] = c]
    BY <1>1, <1>6 DEF RecordFault
  <2>3. cycle[w].pc = "recording" /\ faults' \in 0..MaxFaults
    BY <1>1, <1>6, ConstantTypes DEF RecordFault
  <2>4. UNCHANGED <<now, decision, lease, polls, gens, live, latest, active, replayed, prune>>
    BY <1>6 DEF RecordFault, archive
  <2> HIDE DEF c
  <2> QED
    BY <1>1, <2>1, <2>2, <2>3, <2>4 DEF Flying
<1> QED
  BY <1>2, <1>3, <1>4, <1>5, <1>6 DEF CycleSheds

\* The steps that fetch.
CycleFetches(w) == (\E b \in Boards : Fetch(w, b)) \/ \E p \in live.polls : FetchCached(w, p)

LEMMA FetchMoves ==
    ASSUME TypeOK, RowsInv, HistoryInv, NEW w \in Workers, CycleFetches(w)
    PROVE  /\ \E c \in Cycle, b \in Boards, t \in Times :
                 /\ cycle' = [cycle EXCEPT ![w] = c] /\ c.ev # None
                 /\ c.ev.content.board = b /\ c.ev.content.mapped = Mapped(b) /\ c.ev.retrieved = t
                 /\ \/ t = now
                    \/ \E p \in live.polls : polls[p].ev # None /\ t = polls[p].ev.retrieved /\ t < now
                 /\ c.pc \in Flying => cycle[w].pc \in Flying
           /\ UNCHANGED <<now, decision, lease, polls, gens, live, latest, active,
                          replayed, closing, prune, faults>>
<1>1. cycle \in [Workers -> Cycle] /\ cycle[w] \in Cycle /\ now \in Times
  BY TypeParts DEF VarTypes
<1>2. ASSUME NEW b \in Boards, NEW t \in Times, Got(w, b, t), cycle[w].pc = "polling"
      PROVE  \E c \in Cycle :
                 /\ cycle' = [cycle EXCEPT ![w] = c] /\ c.ev # None
                 /\ c.ev.content.board = b /\ c.ev.content.mapped = Mapped(b) /\ c.ev.retrieved = t
                 /\ c.pc \in Flying => cycle[w].pc \in Flying
  <2> DEFINE ev == [content |-> [board |-> b, mapped |-> Mapped(b)], retrieved |-> t]
             c == [cycle[w] EXCEPT !.pc = "got", !.ev = ev]
  <2>1. Mapped(b) \in BOOLEAN
    BY DEF Mapped
  <2>2. ev \in Evidence /\ ev.content.board = b /\ ev.content.mapped = Mapped(b) /\ ev.retrieved = t
    BY <2>1 DEF Evidence, Contents
  <2>3. cycle' = [cycle EXCEPT ![w] = c]
    BY <1>1, <1>2 DEF Got
  <2>4. c \in Cycle /\ c.ev = ev
    <3> HIDE DEF ev
    <3> QED
      BY <1>1, <2>2 DEF Cycle
  <2>5. c.ev # None
    BY <2>2, <2>4, EvidenceTypes
  <2> HIDE DEF c, ev
  <2> QED
    BY <1>2, <2>2, <2>3, <2>4, <2>5 DEF Flying
<1>3. ASSUME NEW b \in Boards, Fetch(w, b)
      PROVE  /\ Got(w, b, now) /\ cycle[w].pc = "polling"
             /\ UNCHANGED <<now, decision, lease, polls, gens, live, latest, active,
                            replayed, closing, prune, faults>>
  BY <1>3 DEF Fetch, archive
<1>4. ASSUME NEW p \in live.polls, FetchCached(w, p)
      PROVE  /\ Got(w, polls[p].ev.content.board, polls[p].ev.retrieved) /\ cycle[w].pc = "polling"
             /\ polls[p].ev # None /\ polls[p].ev.retrieved < now
             /\ polls[p].ev.content.board \in Boards /\ polls[p].ev.retrieved \in Times
             /\ UNCHANGED <<now, decision, lease, polls, gens, live, latest, active,
                            replayed, closing, prune, faults>>
  <2>1. /\ Got(w, polls[p].ev.content.board, polls[p].ev.retrieved) /\ cycle[w].pc = "polling"
        /\ polls[p].ev # None /\ polls[p].ev.retrieved < now
        /\ UNCHANGED <<now, decision, lease, polls, gens, live, latest, active,
                       replayed, closing, prune, faults>>
    BY <1>4 DEF FetchCached, archive
  <2>2. polls[p].ev \in Evidence
    BY <2>1, HistoryTypes DEF HistoryInv
  <2> QED
    BY <2>1, <2>2, EvidenceTypes
<1>5. CASE \E b \in Boards : Fetch(w, b)
  BY <1>1, <1>2, <1>3, <1>5
<1>6. CASE \E p \in live.polls : FetchCached(w, p)
  <2>1. PICK p \in live.polls : FetchCached(w, p)
    BY <1>6
  <2> DEFINE b == polls[p].ev.content.board
             t == polls[p].ev.retrieved
  <2>2. b \in Boards /\ t \in Times /\ Got(w, b, t) /\ cycle[w].pc = "polling"
    BY <1>4, <2>1
  <2>3. \E c \in Cycle :
           /\ cycle' = [cycle EXCEPT ![w] = c] /\ c.ev # None
           /\ c.ev.content.board = b /\ c.ev.content.mapped = Mapped(b) /\ c.ev.retrieved = t
           /\ c.pc \in Flying => cycle[w].pc \in Flying
    <3> HIDE DEF b, t
    <3> QED
      BY <1>2, <2>2
  <2>4. polls[p].ev # None /\ t < now
    BY <1>4, <2>1
  <2>5. UNCHANGED <<now, decision, lease, polls, gens, live, latest, active,
                    replayed, closing, prune, faults>>
    BY <1>4, <2>1
  <2> QED
    BY <2>2, <2>3, <2>4, <2>5
<1> QED
  BY <1>5, <1>6 DEF CycleFetches

\* Every step is one of these.
LEMMA StepCases ==
    ASSUME [Next]_vars
    PROVE  \/ UNCHANGED vars \/ Tick \/ Decide \/ ReplayMapping
           \/ BeginPrune \/ PruneRows \/ PlanParents \/ PruneParents \/ StopPrune
           \/ \E w \in Workers : CycleSheds(w) \/ CycleFetches(w) \/ Record(w) \/ RecordFailed(w)
BY Zenon DEF Next, CycleStep, CycleSheds, CycleFetches

\* What a recorded snapshot leaves alone, and its three outcomes.
LEMMA RecordMoves ==
    ASSUME TypeOK, RowsInv, NEW w \in Workers, Record(w)
    PROVE  /\ cycle[w].pc \in Flying /\ cycle[w].ev # None
           /\ cycle' \in [Workers -> Cycle] /\ lease' \in Lease /\ lease'.fence = lease.fence
           /\ \A v \in Workers : cycle'[v].ev \in {cycle[v].ev, None}
           /\ cycle'[w].ev = None
           /\ Len(polls) + 1 + Cardinality(InFlight') <= lease'.fence
           /\ UNCHANGED <<now, decision, replayed, closing, prune, faults>>
           /\ \/ UNCHANGED <<polls, gens, live, latest, active>>
              \/ Confirm(w) \/ Persist(w)
<1>1. /\ cycle[w].pc = "recording" /\ cycle[w].ev # None /\ GoesOn(w)
      /\ UNCHANGED <<now, decision, replayed, closing, prune, faults>>
      /\ \/ UNCHANGED <<polls, gens, live, latest, active>>
         \/ Confirm(w) \/ Persist(w)
  BY DEF Record, archive
<1>2. PICK c \in Cycle : cycle' = [cycle EXCEPT ![w] = c] /\ c.ev = None /\ c.pc \notin Flying
  BY <1>1, GoesOnMoves
<1>3. lease' \in Lease /\ lease'.fence = lease.fence
  BY <1>1, GoesOnMoves
<1>4. cycle[w].pc \in Flying
  BY <1>1 DEF Flying
<1>5. cycle' \in [Workers -> Cycle] /\ Len(polls) + 1 + Cardinality(InFlight') <= lease'.fence
  BY <1>2, <1>3, <1>4, CycleWrites
<1>6. cycle \in [Workers -> Cycle]
  BY TypeParts DEF VarTypes
<1>7. cycle'[w].ev = None /\ \A v \in Workers : cycle'[v].ev \in {cycle[v].ev, None}
  BY <1>2, <1>6
<1> QED
  BY <1>1, <1>3, <1>4, <1>5, <1>7

\* A failed poll.
LEMMA FailedMoves ==
    ASSUME TypeOK, RowsInv, NEW w \in Workers, RecordFailed(w)
    PROVE  /\ cycle[w].pc \in Flying /\ cycle[w].ev = None
           /\ cycle' \in [Workers -> Cycle] /\ lease' \in Lease /\ lease'.fence = lease.fence
           /\ \A v \in Workers : cycle'[v].ev \in {cycle[v].ev, None}
           /\ Len(polls) + 1 + Cardinality(InFlight') <= lease'.fence
           /\ UNCHANGED <<now, decision, gens, latest, active, replayed, closing, prune, faults>>
           /\ \E row \in PollRow :
                 /\ polls' = Append(polls, row) /\ row.ev = None /\ row.promoted = FALSE
                 /\ row.completed = cycle[w].accepted
                 /\ live' = [live EXCEPT !.polls = @ \cup {Len(polls) + 1}]
<1>1. cycle \in [Workers -> Cycle] /\ cycle[w] \in Cycle /\ lease \in Lease
  BY TypeParts DEF VarTypes
<1>2. /\ cycle[w].pc = "recording" /\ cycle[w].ev = None
      /\ polls' = Append(polls, NewPoll(w, FALSE, 0))
      /\ live' = [live EXCEPT !.polls = @ \cup {Len(polls) + 1}]
      /\ UNCHANGED <<now, decision, gens, latest, active, replayed, closing, prune, faults>>
  BY DEF RecordFailed
<1>3. cycle[w].pc \in Flying
  BY <1>2 DEF Flying
<1>4. /\ lease' \in Lease /\ lease'.fence = lease.fence
      /\ \E c \in Cycle : cycle' = [cycle EXCEPT ![w] = c] /\ c.ev = None /\ c.pc \notin Flying
  <2>1. CASE GoesOn(w)
    BY <2>1, GoesOnMoves
  <2>2. CASE /\ cycle' = [cycle EXCEPT ![w] = [Idle EXCEPT !.pc = "closing", !.fence = cycle[w].fence]]
             /\ UNCHANGED lease
    <3>1. cycle[w].fence \in 0..MaxCycles
      BY <1>1 DEF Cycle
    <3> DEFINE c == [Idle EXCEPT !.pc = "closing", !.fence = cycle[w].fence]
    <3>2. c \in Cycle /\ c.ev = None /\ c.pc \notin Flying
      BY <3>1, IdleIsCycle DEF Flying
    <3> HIDE DEF c
    <3> QED
      BY <1>1, <2>2, <3>2 DEF c
  <2> QED
    BY <2>1, <2>2 DEF RecordFailed
<1>5. PICK c \in Cycle : cycle' = [cycle EXCEPT ![w] = c] /\ c.ev = None /\ c.pc \notin Flying
  BY <1>4
<1>6. cycle' \in [Workers -> Cycle] /\ Len(polls) + 1 + Cardinality(InFlight') <= lease'.fence
  BY <1>3, <1>4, <1>5, CycleWrites
<1>7. \A v \in Workers : cycle'[v].ev \in {cycle[v].ev, None}
  BY <1>1, <1>5
<1>8. /\ NewPoll(w, FALSE, 0) \in PollRow /\ NewPoll(w, FALSE, 0).ev = cycle[w].ev
      /\ NewPoll(w, FALSE, 0).promoted = FALSE /\ NewPoll(w, FALSE, 0).completed = cycle[w].accepted
  <2>1. FALSE \in BOOLEAN /\ 0 \in GenIds \cup {0}
    OBVIOUS
  <2> QED
    BY <2>1, NewPollType, Zenon
<1> QED
  BY <1>2, <1>3, <1>4, <1>6, <1>7, <1>8

-----------------------------------------------------------------------------
(***************************************************************************)
(* Types and the size of the history.                                      *)
(***************************************************************************)

LEMMA TypeStep ==
    ASSUME TypeOK, RowsInv, HistoryInv, PointersResolve, [Next]_vars
    PROVE  TypeOK' /\ RowsInv'
<1>0. /\ now \in Times /\ decision \in {"open", "approved", "replayed"}
      /\ lease \in Lease /\ cycle \in [Workers -> Cycle]
      /\ live \in Live /\ latest \in [Refs -> LatestRow \cup {Absent}] /\ active \in GenIds \cup {0}
      /\ replayed \in [at : Times, retrieved : Times]
      /\ closing \in [frozen : BOOLEAN, rows : SUBSET RowIds]
      /\ prune \in Retention /\ faults \in 0..MaxFaults
  BY TypeParts DEF VarTypes
<1>f. /\ polls \in Seq(PollRow) /\ gens \in Seq(Gen) /\ Len(polls) \in Nat /\ Len(gens) \in Nat
      /\ Len(polls) + Cardinality(InFlight) <= lease.fence
      /\ Len(gens) <= Len(polls) + (IF decision = "replayed" THEN 1 ELSE 0)
  BY HistoryTypes DEF RowsInv
<1>s. SUFFICES VarTypes' /\ RowsInv'
  BY TypeParts
<1>1. CASE UNCHANGED vars
  <2>1. RowsInv'
    BY <1>1, <1>f DEF RowsInv, InFlight, vars, archive
  <2>2. VarTypes'
    BY <1>0, <1>1 DEF VarTypes, vars, archive
  <2> QED
    BY <2>1, <2>2
<1>2. CASE Tick
  <2>1. /\ UNCHANGED <<decision, lease, cycle, polls, gens, live, latest, active, replayed,
                       closing, prune, faults>>
        /\ now' \in Times
    BY <1>0, <1>2, ConstantTypes DEF Tick, archive, Times
  <2>2. RowsInv'
    BY <2>1, <1>f DEF RowsInv, InFlight
  <2> QED
    BY <1>0, <2>1, <2>2 DEF VarTypes
<1>3. CASE Decide
  <2>1. /\ UNCHANGED <<lease, cycle, polls, gens, live, latest, active, replayed,
                       closing, prune, faults>>
        /\ now' \in Times /\ decision = "open" /\ decision' = "approved"
    BY <1>0, <1>3, ConstantTypes DEF Decide, archive, Times
  <2>2. RowsInv'
    BY <2>1, <1>f DEF RowsInv, InFlight
  <2> QED
    BY <1>0, <2>1, <2>2 DEF VarTypes
<1>4. CASE ReplayMapping
  <2> DEFINE g == Len(gens) + 1
  <2>1. /\ decision = "approved" /\ decision' = "replayed"
        /\ UNCHANGED <<now, lease, cycle, polls, closing, prune, faults>>
    BY <1>4, ReplayWrites
  <2>2. CASE UNCHANGED <<archive, replayed>>
    <3>1. UNCHANGED <<gens, live, latest, active, replayed>>
      BY <2>2 DEF archive
    <3>2. RowsInv'
      BY <2>1, <3>1, <1>f DEF RowsInv, InFlight
    <3> QED
      BY <1>0, <2>1, <3>1, <3>2 DEF VarTypes
  <2>3. CASE ~UNCHANGED <<archive, replayed>>
    <3>1. PICK gen \in Gen, s \in live.gens :
             /\ active # 0 /\ g \in GenIds
             /\ gens' = Append(gens, gen)
             /\ live' = [live EXCEPT !.rows = @ \cup {<<g, Unmapped>>}, !.gens = @ \cup {g}]
             /\ latest' = [latest EXCEPT ![Unmapped] =
                             [obs |-> g, gen |-> g, conf |-> gens[s].retrieved]]
             /\ active' = g
             /\ replayed' = [at |-> now, retrieved |-> gens[active].retrieved]
      BY <1>4, <2>3, ReplayWrites
    <3> HIDE DEF g
    <3>2. active \in DOMAIN gens /\ s \in DOMAIN gens
      BY <3>1 DEF PointersResolve, HistoryInv
    <3>3. gens[active].retrieved \in Times /\ gens[s].retrieved \in Times
      BY <3>2, HistoryTypes
    <3>4. live' \in Live
      <4>1. PICK row \in RowIds : row = <<g, Unmapped>>
        BY <3>1, ConstantTypes DEF RowIds
      <4>2. live' = [live EXCEPT !.rows = @ \cup {row}, !.gens = @ \cup {g}]
        BY <3>1, <4>1, Zenon
      <4>3. live.rows \cup {row} \in SUBSET RowIds /\ live.gens \cup {g} \in SUBSET GenIds
        BY <1>0, <3>1 DEF Live
      <4>4. PICK R \in SUBSET RowIds, G \in SUBSET GenIds : R = live.rows \cup {row} /\ G = live.gens \cup {g}
        BY <4>3
      <4>5. live' = [live EXCEPT !.rows = R, !.gens = G]
        BY <4>2, <4>4, Zenon
      <4> QED
        BY <1>0, <4>5 DEF Live
    <3>5. latest' \in [Refs -> LatestRow \cup {Absent}]
      <4>1. [obs |-> g, gen |-> g, conf |-> gens[s].retrieved] \in LatestRow
        BY <3>1, <3>3 DEF LatestRow
      <4> QED
        BY <1>0, <3>1, <4>1
    <3>6. replayed' \in [at : Times, retrieved : Times]
      BY <1>0, <3>1, <3>3
    <3>7. gens' \in Seq(Gen) /\ Len(gens') = Len(gens) + 1
      BY <1>f, <3>1, Appended
    <3>8. RowsInv'
      BY <2>1, <1>f, <3>7 DEF RowsInv, InFlight
    <3> QED
      BY <1>0, <2>1, <3>1, <3>4, <3>5, <3>6, <3>8 DEF VarTypes
  <2> QED
    BY <2>2, <2>3
<1>5. CASE BeginPrune \/ PlanParents \/ StopPrune
  <2>1. UNCHANGED <<now, decision, lease, cycle, polls, gens, live, latest, active, replayed,
                    closing, faults>>
    BY <1>5 DEF BeginPrune, PlanParents, StopPrune, archive
  <2>2. prune' \in Retention
    BY <1>5, BeginPruneTypes, PlanParentsTypes, RestingType DEF StopPrune
  <2>3. RowsInv'
    BY <2>1, <1>f DEF RowsInv, InFlight
  <2> QED
    BY <1>0, <2>1, <2>2, <2>3 DEF VarTypes
<1>6. CASE PruneRows \/ PruneParents
  <2>1. UNCHANGED <<now, decision, lease, cycle, polls, gens, latest, active, replayed,
                    closing, faults>>
    BY <1>6 DEF PruneRows, PruneParents
  <2>2. prune' \in Retention /\ live' \in Live
    BY <1>6, PruneRowsTypes, PruneParentsTypes
  <2>3. RowsInv'
    BY <2>1, <1>f DEF RowsInv, InFlight
  <2> QED
    BY <1>0, <2>1, <2>2, <2>3 DEF VarTypes
<1>7. ASSUME NEW w \in Workers, CycleSheds(w) PROVE VarTypes' /\ RowsInv'
  <2>1. /\ lease' \in Lease /\ faults' \in 0..MaxFaults
        /\ UNCHANGED <<now, decision, polls, gens, live, latest, active, replayed, prune>>
    BY <1>7, ShedMoves
  <2>2. PICK c \in Cycle :
           /\ cycle' = [cycle EXCEPT ![w] = c]
           /\ \/ lease'.fence = lease.fence /\ (c.pc \in Flying => cycle[w].pc \in Flying)
              \/ lease'.fence = lease.fence + 1
    BY <1>7, ShedMoves
  <2>3. cycle' \in [Workers -> Cycle] /\ RowsInv'
    BY <2>1, <2>2, CycleMoves
  <2>4. closing' \in [frozen : BOOLEAN, rows : SUBSET RowIds]
    <3>1. CASE Freeze(w)
      <4>1. ClosingRows(live.gens, live.rows, Tip) \subseteq RowIds
        BY <1>0 DEF ClosingRows, Live
      <4> QED
        BY <1>0, <3>1, <4>1 DEF Freeze
    <3>2. CASE closing' = closing
      BY <1>0, <3>2
    <3> QED
      BY <1>7, <3>1, <3>2
      DEF CycleSheds, Begin, FetchFails, Admit, LeaseLost, RecordFault
  <2> QED
    BY <1>0, <2>1, <2>3, <2>4 DEF VarTypes
<1>8. ASSUME NEW w \in Workers, CycleFetches(w) PROVE VarTypes' /\ RowsInv'
  <2>1. UNCHANGED <<now, decision, lease, polls, gens, live, latest, active,
                    replayed, closing, prune, faults>>
    BY <1>8, FetchMoves
  <2>2. PICK c \in Cycle : /\ cycle' = [cycle EXCEPT ![w] = c]
                           /\ c.pc \in Flying => cycle[w].pc \in Flying
    BY <1>8, FetchMoves
  <2>3. cycle' \in [Workers -> Cycle] /\ RowsInv'
    BY <1>0, <2>1, <2>2, CycleMoves
  <2> QED
    BY <1>0, <2>1, <2>3 DEF VarTypes
<1>9. ASSUME NEW w \in Workers, Record(w) PROVE VarTypes' /\ RowsInv'
  <2>1. /\ cycle[w].pc \in Flying /\ cycle[w].ev # None
        /\ cycle' \in [Workers -> Cycle] /\ lease' \in Lease /\ lease'.fence = lease.fence
        /\ Len(polls) + 1 + Cardinality(InFlight') <= lease'.fence
        /\ UNCHANGED <<now, decision, replayed, closing, prune, faults>>
        /\ \/ UNCHANGED <<polls, gens, live, latest, active>>
           \/ Confirm(w) \/ Persist(w)
    BY <1>9, RecordMoves
  <2>2. Cardinality(InFlight') \in Nat /\ lease'.fence \in Nat
    BY <2>1, BoundsAssumption, ConstantTypes, FS_Subset, FS_CardinalityType DEF InFlight, Lease
  <2>3. CASE UNCHANGED <<polls, gens, live, latest, active>>
    <3>1. RowsInv'
      BY <1>f, <2>1, <2>2, <2>3 DEF RowsInv
    <3> QED
      BY <1>0, <2>1, <2>3, <3>1 DEF VarTypes
  <2>4. CASE Confirm(w)
    <3>1. PICK row \in PollRow :
             /\ polls' = Append(polls, row)
             /\ live' = [live EXCEPT !.polls = @ \cup {Len(polls) + 1}]
             /\ latest' \in [Refs -> LatestRow \cup {Absent}]
             /\ UNCHANGED <<gens, active>>
      BY <2>1, <2>4, ConfirmWrites
    <3>2. polls' \in Seq(PollRow) /\ Len(polls') = Len(polls) + 1
      BY <1>f, <3>1, Appended
    <3>3. Len(polls) + 1 \in PollIds
      BY <2>1, Room DEF InFlight
    <3>4. live' \in Live
      BY <1>0, <3>1, <3>3 DEF Live
    <3>5. RowsInv'
      BY <1>f, <2>1, <2>2, <3>1, <3>2 DEF RowsInv
    <3> QED
      BY <1>0, <2>1, <3>1, <3>4, <3>5 DEF VarTypes
  <2>5. CASE Persist(w)
    <3> DEFINE ev == cycle[w].ev
               g == Len(gens) + 1
    <3>1. PICK row \in PollRow, gen \in Gen :
             /\ polls' = Append(polls, row) /\ gens' = Append(gens, gen) /\ live' \in Live
             /\ latest' = (IF Advances(ev) THEN AdvancedLatest(ev, g) ELSE latest)
             /\ active' = (IF Advances(ev) THEN g ELSE active)
             /\ g \in GenIds
      BY <2>1, <2>5, PersistWrites
    <3>2. /\ polls' \in Seq(PollRow) /\ Len(polls') = Len(polls) + 1
          /\ gens' \in Seq(Gen) /\ Len(gens') = Len(gens) + 1
      BY <1>f, <3>1, Appended
    <3>3. ev \in Evidence
      BY <1>0, <2>1 DEF Cycle
    <3>4. latest' \in [Refs -> LatestRow \cup {Absent}] /\ active' \in GenIds \cup {0}
      BY <1>0, <3>1, <3>3, AdvancedTypes
    <3>5. RowsInv'
      BY <1>f, <2>1, <2>2, <3>1, <3>2 DEF RowsInv
    <3> QED
      BY <1>0, <2>1, <3>1, <3>4, <3>5 DEF VarTypes
  <2> QED
    BY <2>1, <2>3, <2>4, <2>5
<1>10. ASSUME NEW w \in Workers, RecordFailed(w) PROVE VarTypes' /\ RowsInv'
  <2>1. /\ cycle[w].pc \in Flying
        /\ cycle' \in [Workers -> Cycle] /\ lease' \in Lease
        /\ Len(polls) + 1 + Cardinality(InFlight') <= lease'.fence
        /\ UNCHANGED <<now, decision, gens, latest, active, replayed, closing, prune, faults>>
    BY <1>10, FailedMoves
  <2>2. PICK row \in PollRow : /\ polls' = Append(polls, row)
                               /\ live' = [live EXCEPT !.polls = @ \cup {Len(polls) + 1}]
    BY <1>10, FailedMoves
  <2>3. polls' \in Seq(PollRow) /\ Len(polls') = Len(polls) + 1
    BY <1>f, <2>2, Appended
  <2>4. Len(polls) + 1 \in PollIds
    BY <2>1, Room DEF InFlight
  <2>5. live' \in Live
    BY <1>0, <2>2, <2>4 DEF Live
  <2>6. RowsInv'
    BY <1>f, <2>1, <2>2, <2>3 DEF RowsInv
  <2> QED
    BY <1>0, <2>1, <2>5, <2>6 DEF VarTypes
<1> QED
  BY <1>1, <1>2, <1>3, <1>4, <1>5, <1>6, <1>7, <1>8, <1>9, <1>10, StepCases

-----------------------------------------------------------------------------
(***************************************************************************)
(* References: the history is append-only, retention only deletes rows     *)
(* that nothing refers to.                                                 *)
(***************************************************************************)

\* The steps that leave the history alone.
LEMMA HistoryUnchanged ==
    ASSUME HistoryInv, UNCHANGED <<polls, gens, active>>,
           live'.gens \subseteq live.gens, live'.snaps \subseteq live.snaps,
           live'.polls \subseteq live.polls, prune'.polls \subseteq live.polls \cup prune.polls
    PROVE  HistoryInv'
BY DEF HistoryInv

LEMMA HistoryStep ==
    ASSUME TypeOK, RowsInv, HistoryInv, PointersResolve, [Next]_vars
    PROVE  HistoryInv'
<1>0. /\ polls \in Seq(PollRow) /\ gens \in Seq(Gen) /\ live \in Live /\ active \in GenIds \cup {0}
      /\ cycle \in [Workers -> Cycle]
  BY TypeParts DEF VarTypes, RowsInv
<1>h. /\ live.gens \cup live.snaps \subseteq DOMAIN gens
      /\ live.polls \cup prune.polls \subseteq DOMAIN polls
      /\ \A g \in DOMAIN gens :
            /\ gens[g].source \in DOMAIN gens /\ gens[g].snap \in DOMAIN gens
            /\ gens[g].poll \in DOMAIN polls
      /\ \A p \in DOMAIN polls : polls[p].promoted => polls[p].ev # None
      /\ active # 0 => /\ polls[gens[active].poll].promoted
                       /\ polls[gens[active].poll].ev.retrieved = gens[active].retrieved
      /\ active # 0 => active \in DOMAIN gens
  BY DEF HistoryInv, PointersResolve
<1>1. CASE \/ UNCHANGED vars \/ Tick \/ Decide \/ BeginPrune \/ PlanParents \/ StopPrune
  <2>1. UNCHANGED <<polls, gens, active, live>>
    BY <1>1 DEF vars, archive, Tick, Decide, BeginPrune, PlanParents, StopPrune
  <2>2. prune'.polls \subseteq live.polls \cup prune.polls
    BY <1>1, BeginPruneTypes, PlanParentsTypes, RestingType DEF vars, Tick, Decide, StopPrune
  <2> QED
    BY <2>1, <2>2, HistoryUnchanged
<1>2. CASE PruneRows
  <2>1. UNCHANGED <<polls, gens, active>>
    BY <1>2 DEF PruneRows
  <2>2. PICK doomed : live' = [live EXCEPT !.rows = @ \ doomed]
    BY <1>2, PruneRowsTypes
  <2>3. live'.gens = live.gens /\ live'.snaps = live.snaps /\ live'.polls = live.polls
    BY <1>0, <2>2 DEF Live
  <2>4. prune'.polls = prune.polls
    BY <1>2, PruneRowsTypes
  <2> QED
    BY <2>1, <2>3, <2>4, HistoryUnchanged
<1>3. CASE PruneParents
  <2>1. UNCHANGED <<polls, gens, active>>
    BY <1>3 DEF PruneParents
  <2>2. /\ live'.gens \subseteq live.gens /\ live'.snaps \subseteq live.snaps
        /\ live'.polls \subseteq live.polls /\ prune'.polls \subseteq prune.polls
    BY <1>3, PruneParentsTypes
  <2> QED
    BY <2>1, <2>2, HistoryUnchanged
<1>4. ASSUME NEW w \in Workers, CycleSheds(w) \/ CycleFetches(w) PROVE HistoryInv'
  <2>1. UNCHANGED <<polls, gens, active, live, prune>>
    BY <1>4, ShedMoves, FetchMoves
  <2> QED
    BY <2>1, HistoryUnchanged
<1>5. CASE ReplayMapping
  <2>1. UNCHANGED <<polls, prune>>
    BY <1>5, ReplayWrites
  <2>2. CASE UNCHANGED <<archive, replayed>>
    <3>1. UNCHANGED <<gens, active, live>>
      BY <2>2 DEF archive
    <3> QED
      BY <2>1, <3>1, HistoryUnchanged
  <2>3. CASE ~UNCHANGED <<archive, replayed>>
    <3> DEFINE g == Len(gens) + 1
    <3>1. PICK gen \in Gen, s \in live.gens :
             /\ active # 0 /\ g \in GenIds
             /\ gens' = Append(gens, gen)
             /\ gen.retrieved = gens[active].retrieved
             /\ gen.snap = gens[active].snap /\ gen.poll = gens[active].poll /\ gen.source = s
             /\ live' = [live EXCEPT !.rows = @ \cup {<<g, Unmapped>>}, !.gens = @ \cup {g}]
             /\ active' = g
      BY <1>5, <2>3, ReplayWrites
    <3>2. /\ DOMAIN gens' = DOMAIN gens \cup {g} /\ gens'[g] = gen
          /\ \A i \in DOMAIN gens : gens'[i] = gens[i]
      BY <1>0, <3>1, Appended
    <3>3. /\ live'.gens = live.gens \cup {g} /\ live'.snaps = live.snaps
          /\ live'.polls = live.polls
      BY <1>0, <3>1 DEF Live
    <3> HIDE DEF g
    <3>4. /\ live'.gens \cup live'.snaps \subseteq DOMAIN gens'
          /\ live'.polls \cup prune'.polls \subseteq DOMAIN polls'
      BY <1>h, <2>1, <3>2, <3>3
    <3>5. s \in DOMAIN gens /\ active \in DOMAIN gens
      BY <1>h, <3>1
    <3>6. \A i \in DOMAIN gens' :
             /\ gens'[i].source \in DOMAIN gens' /\ gens'[i].snap \in DOMAIN gens'
             /\ gens'[i].poll \in DOMAIN polls'
      <4>1. ASSUME NEW i \in DOMAIN gens
            PROVE  /\ gens'[i].source \in DOMAIN gens' /\ gens'[i].snap \in DOMAIN gens'
                   /\ gens'[i].poll \in DOMAIN polls'
        BY <1>h, <2>1, <3>2
      <4>2. /\ gens'[g].source \in DOMAIN gens' /\ gens'[g].snap \in DOMAIN gens'
            /\ gens'[g].poll \in DOMAIN polls'
        BY <1>h, <2>1, <3>1, <3>2, <3>5
      <4> QED
        BY <3>2, <4>1, <4>2
    <3>7. /\ polls'[gens'[active'].poll].promoted
          /\ polls'[gens'[active'].poll].ev.retrieved = gens'[active'].retrieved
      BY <1>h, <2>1, <3>1, <3>2, ZenonT(60)
    <3>8. \A p \in DOMAIN polls' : polls'[p].promoted => polls'[p].ev # None
      BY <1>h, <2>1
    <3> QED
      BY <3>4, <3>6, <3>7, <3>8 DEF HistoryInv
  <2> QED
    BY <2>2, <2>3
<1>6. ASSUME NEW w \in Workers, Record(w) PROVE HistoryInv'
  <2>1. /\ cycle[w].pc \in Flying /\ cycle[w].ev # None /\ UNCHANGED prune
        /\ \/ UNCHANGED <<polls, gens, live, latest, active>>
           \/ Confirm(w) \/ Persist(w)
    BY <1>6, RecordMoves
  <2>2. CASE UNCHANGED <<polls, gens, live, latest, active>>
    BY <2>1, <2>2, HistoryUnchanged
  <2>3. CASE Confirm(w)
    <3> DEFINE n == Len(polls) + 1
    <3>1. PICK row \in PollRow :
             /\ polls' = Append(polls, row) /\ row.ev = cycle[w].ev
             /\ live' = [live EXCEPT !.polls = @ \cup {n}]
             /\ UNCHANGED <<gens, active>>
      BY <2>1, <2>3, ConfirmWrites
    <3>2. /\ DOMAIN polls' = DOMAIN polls \cup {n} /\ polls'[n] = row
          /\ \A i \in DOMAIN polls : polls'[i] = polls[i]
      BY <1>0, <3>1, Appended
    <3>3. /\ live'.gens = live.gens /\ live'.snaps = live.snaps
          /\ live'.polls = live.polls \cup {n}
      BY <1>0, <3>1 DEF Live
    <3> HIDE DEF n
    <3> QED
      BY <1>h, <2>1, <3>1, <3>2, <3>3, ZenonT(60) DEF HistoryInv
  <2>4. CASE Persist(w)
    <3> DEFINE ev == cycle[w].ev
               g == Len(gens) + 1
               n == Len(polls) + 1
    <3>1. PICK row \in PollRow, gen \in Gen, snap \in live.snaps \cup {g} :
             /\ polls' = Append(polls, row) /\ gens' = Append(gens, gen)
             /\ row.ev = ev /\ row.promoted = Advances(ev)
             /\ gen.retrieved = ev.retrieved
             /\ gen.snap = snap /\ gen.poll = n /\ gen.source = g
             /\ live' = [rows |-> live.rows \cup ({g} \X ev.content.board.refs),
                         gens |-> live.gens \cup {g}, polls |-> live.polls \cup {n},
                         snaps |-> live.snaps \cup {snap}]
             /\ active' = (IF Advances(ev) THEN g ELSE active)
      BY <2>1, <2>4, PersistWrites, ZenonT(60)
    <3>2. /\ DOMAIN polls' = DOMAIN polls \cup {n} /\ polls'[n] = row
          /\ \A i \in DOMAIN polls : polls'[i] = polls[i]
      BY <1>0, <3>1, Appended
    <3>3. /\ DOMAIN gens' = DOMAIN gens \cup {g} /\ gens'[g] = gen
          /\ \A i \in DOMAIN gens : gens'[i] = gens[i]
      BY <1>0, <3>1, Appended
    <3>4. /\ live'.gens = live.gens \cup {g} /\ live'.snaps = live.snaps \cup {snap}
          /\ live'.polls = live.polls \cup {n}
      BY <3>1
    <3>5. ev # None
      BY <2>1
    <3> HIDE DEF g, n, ev
    <3>6. /\ live'.gens \cup live'.snaps \subseteq DOMAIN gens'
          /\ live'.polls \cup prune'.polls \subseteq DOMAIN polls'
      <4>1. snap \in live.snaps \cup {g}
        OBVIOUS
      <4>2. live'.gens \subseteq DOMAIN gens' /\ live'.snaps \subseteq DOMAIN gens'
        BY <1>h, <3>3, <3>4, <4>1
      <4>3. live'.polls \subseteq DOMAIN polls' /\ prune'.polls \subseteq DOMAIN polls'
        BY <1>h, <2>1, <3>2, <3>4
      <4> QED
        BY <4>2, <4>3
    <3>7. \A i \in DOMAIN gens' :
             /\ gens'[i].source \in DOMAIN gens' /\ gens'[i].snap \in DOMAIN gens'
             /\ gens'[i].poll \in DOMAIN polls'
      <4>1. snap \in DOMAIN gens'
        BY <1>h, <3>3
      <4>2. /\ gens'[g].source \in DOMAIN gens' /\ gens'[g].snap \in DOMAIN gens'
            /\ gens'[g].poll \in DOMAIN polls'
        BY <3>1, <3>2, <3>3, <4>1
      <4>3. ASSUME NEW i \in DOMAIN gens
            PROVE  /\ gens'[i].source \in DOMAIN gens' /\ gens'[i].snap \in DOMAIN gens'
                   /\ gens'[i].poll \in DOMAIN polls'
        BY <1>h, <3>2, <3>3
      <4> QED
        BY <3>3, <4>2, <4>3
    <3>8. \A p \in DOMAIN polls' : polls'[p].promoted => polls'[p].ev # None
      BY <1>h, <3>1, <3>2, <3>5
    <3>9. active' # 0 => /\ polls'[gens'[active'].poll].promoted
                         /\ polls'[gens'[active'].poll].ev.retrieved = gens'[active'].retrieved
      <4>1. CASE Advances(ev)
        <5>1. active' = g /\ row.promoted = TRUE
          BY <3>1, <4>1
        <5>2. gens'[active'].poll = n /\ gens'[active'].retrieved = ev.retrieved
          BY <3>1, <3>3, <5>1
        <5> QED
          BY <3>1, <3>2, <5>1, <5>2
      <4>2. CASE ~Advances(ev)
        <5>1. active' = active
          BY <3>1, <4>2
        <5>2. active # 0 => gens'[active] = gens[active] /\ gens[active].poll \in DOMAIN polls
          BY <1>h, <3>3
        <5>3. active # 0 => polls'[gens[active].poll] = polls[gens[active].poll]
          BY <3>2, <5>2
        <5> QED
          BY <1>h, <5>1, <5>2, <5>3
      <4> QED
        BY <4>1, <4>2
    <3> QED
      BY <3>6, <3>7, <3>8, <3>9 DEF HistoryInv
  <2> QED
    BY <2>1, <2>2, <2>3, <2>4
<1>7. ASSUME NEW w \in Workers, RecordFailed(w) PROVE HistoryInv'
  <2> DEFINE n == Len(polls) + 1
  <2>1. UNCHANGED <<gens, active, prune>>
    BY <1>7, FailedMoves
  <2>2. PICK row \in PollRow :
           /\ polls' = Append(polls, row) /\ row.promoted = FALSE
           /\ live' = [live EXCEPT !.polls = @ \cup {n}]
    BY <1>7, FailedMoves
  <2>3. /\ DOMAIN polls' = DOMAIN polls \cup {n} /\ polls'[n] = row
        /\ \A i \in DOMAIN polls : polls'[i] = polls[i]
    BY <1>0, <2>2, Appended
  <2>4. /\ live'.gens = live.gens /\ live'.snaps = live.snaps
        /\ live'.polls = live.polls \cup {n}
    BY <1>0, <2>2 DEF Live
  <2> HIDE DEF n
  <2> QED
    BY <1>h, <2>1, <2>2, <2>3, <2>4 DEF HistoryInv
<1> QED
  BY <1>1, <1>2, <1>3, <1>4, <1>5, <1>6, <1>7, StepCases

\* A step that deletes nothing keeps what a row refers to.
LEMMA SourceKept ==
    ASSUME TypeOK, RowsInv, HistoryInv, PointersResolve, NEW row \in live.rows,
           \A i \in DOMAIN gens : gens'[i] = gens[i]
    PROVE  SourcePoll(row)' = SourcePoll(row)
BY RowReads DEF SourcePoll

LEMMA PointersStep ==
    ASSUME TypeOK, RowsInv, HistoryInv, PointersResolve, [Next]_vars
    PROVE  PointersResolve'
<1>0. /\ polls \in Seq(PollRow) /\ gens \in Seq(Gen) /\ live \in Live
      /\ latest \in [Refs -> LatestRow \cup {Absent}]
      /\ closing \in [frozen : BOOLEAN, rows : SUBSET RowIds]
      /\ cycle \in [Workers -> Cycle]
  BY TypeParts DEF VarTypes, RowsInv
<1>h. /\ \A r \in Refs : latest[r] # Absent =>
            <<latest[r].obs, r>> \in live.rows /\ latest[r].gen \in live.gens
      /\ closing.rows \subseteq live.rows
      /\ active # 0 => active \in live.gens
      /\ \A row \in live.rows : row[1] \in live.gens /\ SourcePoll(row) \in live.polls
      /\ \A g \in live.gens : gens[g].poll \in live.polls /\ gens[g].snap \in live.snaps
      /\ live.gens \subseteq DOMAIN gens
  BY DEF PointersResolve, HistoryInv
<1>1. CASE \/ UNCHANGED vars \/ Tick \/ Decide \/ BeginPrune \/ PlanParents \/ StopPrune
  <2>1. UNCHANGED <<gens, active, live, latest, closing>>
    BY <1>1 DEF vars, archive, Tick, Decide, BeginPrune, PlanParents, StopPrune
  <2> QED
    BY <2>1 DEF PointersResolve, SourcePoll
<1>2. CASE PruneRows
  <2>1. UNCHANGED <<gens, active, latest, closing>>
    BY <1>2 DEF PruneRows
  <2>2. PICK doomed : /\ live' = [live EXCEPT !.rows = @ \ doomed]
                      /\ \A row \in doomed : ~Protected(row)
    BY <1>2, PruneRowsTypes
  <2>3. /\ live'.gens = live.gens /\ live'.snaps = live.snaps /\ live'.polls = live.polls
        /\ live'.rows = live.rows \ doomed
    BY <1>0, <2>2 DEF Live
  <2>4. \A r \in Refs : <<latest[r].obs, r>> \notin doomed
    BY <2>2 DEF Protected, InLatest
  <2>5. \A row \in closing.rows : row \notin doomed
    BY <2>2 DEF Protected, InClosing
  <2>6. \A row \in live.rows : SourcePoll(row)' = SourcePoll(row)
    BY <2>1 DEF SourcePoll
  <2> QED
    BY <1>h, <2>1, <2>3, <2>4, <2>5, <2>6 DEF PointersResolve
<1>3. CASE PruneParents
  <2>1. UNCHANGED <<gens, active, latest, closing>>
    BY <1>3 DEF PruneParents
  <2>2. live'.rows = live.rows
    BY <1>3, PruneParentsTypes
  <2>3. \A row \in live.rows : SourcePoll(row)' = SourcePoll(row)
    BY <2>1 DEF SourcePoll
  <2>4. CASE /\ live'.gens = live.gens \ UnreferencedGens
             /\ live'.polls = live.polls /\ live'.snaps = live.snaps
    <3>1. ASSUME NEW r \in Refs, latest[r] # Absent PROVE latest[r].gen \notin UnreferencedGens
      BY <3>1 DEF UnreferencedGens
    <3>2. active \notin UnreferencedGens
      BY DEF UnreferencedGens
    <3>3. ASSUME NEW row \in live.rows PROVE row[1] \notin UnreferencedGens
      <4>1. row = <<row[1], row[2]>> /\ row[2] \in Refs
        BY RowReads
      <4> QED
        BY <4>1 DEF UnreferencedGens
    <3> QED
      BY <1>h, <2>1, <2>2, <2>3, <2>4, <3>1, <3>2, <3>3 DEF PointersResolve
  <2>5. CASE /\ live'.polls = live.polls \ UnreferencedPolls
             /\ live'.gens = live.gens /\ live'.snaps = live.snaps
    <3>1. /\ \A row \in live.rows : SourcePoll(row) \notin UnreferencedPolls
          /\ \A g \in live.gens : gens[g].poll \notin UnreferencedPolls
      BY DEF UnreferencedPolls
    <3> QED
      BY <1>h, <2>1, <2>2, <2>3, <2>5, <3>1 DEF PointersResolve
  <2>6. CASE /\ live'.snaps = live.snaps \ UnreferencedSnaps
             /\ live'.gens = live.gens /\ live'.polls = live.polls
    <3>1. \A g \in live.gens : gens[g].snap \notin UnreferencedSnaps
      BY DEF UnreferencedSnaps
    <3> QED
      BY <1>h, <2>1, <2>2, <2>3, <2>6, <3>1 DEF PointersResolve
  <2> QED
    BY <1>3, <2>4, <2>5, <2>6, PruneParentsTypes
<1>4. ASSUME NEW w \in Workers, CycleSheds(w) \/ CycleFetches(w) PROVE PointersResolve'
  <2>1. UNCHANGED <<gens, active, live, latest>>
    BY <1>4, ShedMoves, FetchMoves
  <2>2. closing'.rows \subseteq live.rows
    <3>1. CASE Freeze(w)
      <4>1. ClosingRows(live.gens, live.rows, Tip) \subseteq live.rows
        BY DEF ClosingRows
      <4> QED
        BY <1>h, <3>1, <4>1 DEF Freeze
    <3>2. CASE closing' = closing
      BY <1>h, <3>2
    <3> QED
      BY <1>4, <3>1, <3>2, FetchMoves
      DEF CycleSheds, Begin, FetchFails, Admit, LeaseLost, RecordFault
  <2>3. \A row \in live.rows : SourcePoll(row)' = SourcePoll(row)
    BY <2>1 DEF SourcePoll
  <2> QED
    BY <1>h, <2>1, <2>2, <2>3 DEF PointersResolve
<1>5. CASE ReplayMapping
  <2>1. UNCHANGED <<polls, closing>>
    BY <1>5, ReplayWrites
  <2>2. CASE UNCHANGED <<archive, replayed>>
    <3>1. UNCHANGED <<gens, active, live, latest>>
      BY <2>2 DEF archive
    <3> QED
      BY <2>1, <3>1 DEF PointersResolve, SourcePoll
  <2>3. CASE ~UNCHANGED <<archive, replayed>>
    <3> DEFINE g == Len(gens) + 1
    <3>1. PICK gen \in Gen, s \in live.gens :
             /\ active # 0 /\ g \in GenIds
             /\ gens' = Append(gens, gen)
             /\ gen.snap = gens[active].snap /\ gen.poll = gens[active].poll /\ gen.source = s
             /\ live' = [live EXCEPT !.rows = @ \cup {<<g, Unmapped>>}, !.gens = @ \cup {g}]
             /\ latest' = [latest EXCEPT ![Unmapped] =
                             [obs |-> g, gen |-> g, conf |-> gens[s].retrieved]]
             /\ active' = g
      BY <1>5, <2>3, ReplayWrites
    <3>2. /\ DOMAIN gens' = DOMAIN gens \cup {g} /\ gens'[g] = gen
          /\ \A i \in DOMAIN gens : gens'[i] = gens[i]
      BY <1>0, <3>1, Appended
    <3>3. /\ live'.gens = live.gens \cup {g} /\ live'.snaps = live.snaps
          /\ live'.polls = live.polls /\ live'.rows = live.rows \cup {<<g, Unmapped>>}
      BY <1>0, <3>1 DEF Live
    <3> HIDE DEF g
    <3>4. ASSUME NEW row \in live'.rows PROVE row[1] \in live'.gens /\ SourcePoll(row)' \in live'.polls
      <4>1. CASE row \in live.rows
        BY <1>h, <3>2, <3>3, <4>1, SourceKept
      <4>2. CASE row = <<g, Unmapped>>
        <5>1. gens'[row[1]].source = s /\ gens'[s] = gens[s]
          BY <1>h, <3>1, <3>2, <4>2
        <5> QED
          BY <1>h, <3>3, <4>2, <5>1 DEF SourcePoll
      <4> QED
        BY <3>3, <4>1, <4>2
    <3>5. \A i \in live'.gens : gens'[i].poll \in live'.polls /\ gens'[i].snap \in live'.snaps
      <4>1. active \in live.gens
        BY <1>h, <3>1
      <4> QED
        BY <1>h, <3>1, <3>2, <3>3, <4>1
    <3>6. ASSUME NEW r \in Refs, latest'[r] # Absent
          PROVE  <<latest'[r].obs, r>> \in live'.rows /\ latest'[r].gen \in live'.gens
      <4>1. CASE r = Unmapped
        <5>1. latest'[r] = [obs |-> g, gen |-> g, conf |-> gens[s].retrieved]
          BY <1>0, <3>1, <4>1
        <5> QED
          BY <3>3, <4>1, <5>1
      <4>2. CASE r # Unmapped
        <5>1. latest'[r] = latest[r]
          BY <1>0, <3>1, <4>2
        <5> QED
          BY <1>h, <3>3, <3>6, <5>1
      <4> QED
        BY <4>1, <4>2
    <3> QED
      BY <1>h, <2>1, <3>1, <3>3, <3>4, <3>5, <3>6 DEF PointersResolve
  <2> QED
    BY <2>2, <2>3
<1>6. ASSUME NEW w \in Workers, Record(w) PROVE PointersResolve'
  <2>1. /\ cycle[w].pc \in Flying /\ cycle[w].ev # None /\ UNCHANGED closing
        /\ \/ UNCHANGED <<polls, gens, live, latest, active>>
           \/ Confirm(w) \/ Persist(w)
    BY <1>6, RecordMoves
  <2>2. CASE UNCHANGED <<polls, gens, live, latest, active>>
    BY <2>1, <2>2 DEF PointersResolve, SourcePoll
  <2>3. CASE Confirm(w)
    <3> DEFINE n == Len(polls) + 1
    <3>1. PICK row \in PollRow :
             /\ live' = [live EXCEPT !.polls = @ \cup {n}]
             /\ \A r \in Refs : /\ latest'[r] = Absent <=> latest[r] = Absent
                                /\ latest'[r].obs = latest[r].obs /\ latest'[r].gen = latest[r].gen
             /\ UNCHANGED <<gens, active>>
      BY <2>1, <2>3, ConfirmWrites
    <3>2. /\ live'.gens = live.gens /\ live'.snaps = live.snaps /\ live'.rows = live.rows
          /\ live'.polls = live.polls \cup {n}
      BY <1>0, <3>1 DEF Live
    <3>3. \A x \in live.rows : SourcePoll(x)' = SourcePoll(x)
      BY <3>1 DEF SourcePoll
    <3> HIDE DEF n
    <3> QED
      BY <1>h, <2>1, <3>1, <3>2, <3>3 DEF PointersResolve
  <2>4. CASE Persist(w)
    <3> DEFINE ev == cycle[w].ev
               g == Len(gens) + 1
               n == Len(polls) + 1
    <3>1. PICK row \in PollRow, gen \in Gen, snap \in live.snaps \cup {g} :
             /\ gens' = Append(gens, gen)
             /\ gen.snap = snap /\ gen.poll = n /\ gen.source = g
             /\ live' = [rows |-> live.rows \cup ({g} \X ev.content.board.refs),
                         gens |-> live.gens \cup {g}, polls |-> live.polls \cup {n},
                         snaps |-> live.snaps \cup {snap}]
             /\ latest' = (IF Advances(ev) THEN AdvancedLatest(ev, g) ELSE latest)
             /\ active' = (IF Advances(ev) THEN g ELSE active)
             /\ g \in GenIds
      BY <2>1, <2>4, PersistWrites
    <3>2. /\ DOMAIN gens' = DOMAIN gens \cup {g} /\ gens'[g] = gen
          /\ \A i \in DOMAIN gens : gens'[i] = gens[i]
      BY <1>0, <3>1, Appended
    <3>3. /\ live'.gens = live.gens \cup {g} /\ live'.snaps = live.snaps \cup {snap}
          /\ live'.polls = live.polls \cup {n}
          /\ live'.rows = live.rows \cup ({g} \X ev.content.board.refs)
      BY <3>1
    <3>4. ev \in Evidence /\ g \in GenIds
      BY <1>0, <2>1, <3>1 DEF Cycle
    <3>l. \A r \in Refs :
             \/ AdvancedLatest(ev, g)[r] = Absent
             \/ /\ AdvancedLatest(ev, g)[r].obs = g /\ AdvancedLatest(ev, g)[r].gen = g
                /\ r \in ev.content.board.refs
             \/ /\ AdvancedLatest(ev, g)[r].obs = latest[r].obs
                /\ AdvancedLatest(ev, g)[r].gen = g /\ latest[r] # Absent
      BY <3>4, AdvancedTypes, ZenonT(60)
    <3> HIDE DEF g, n, ev
    <3>5. ASSUME NEW x \in live'.rows PROVE x[1] \in live'.gens /\ SourcePoll(x)' \in live'.polls
      <4>1. CASE x \in live.rows
        BY <1>h, <3>2, <3>3, <4>1, SourceKept
      <4>2. CASE x \in {g} \X ev.content.board.refs
        <5>1. x[1] = g /\ gens'[x[1]].source = g /\ gens'[g].poll = n
          BY <3>1, <3>2, <4>2
        <5> QED
          BY <3>3, <5>1 DEF SourcePoll
      <4> QED
        BY <3>3, <4>1, <4>2
    <3>6. \A i \in live'.gens : gens'[i].poll \in live'.polls /\ gens'[i].snap \in live'.snaps
      BY <1>h, <3>1, <3>2, <3>3
    <3>7. ASSUME NEW r \in Refs, latest'[r] # Absent
          PROVE  <<latest'[r].obs, r>> \in live'.rows /\ latest'[r].gen \in live'.gens
      <4>1. CASE latest' = latest
        BY <1>h, <3>3, <3>7, <4>1
      <4>2. CASE latest' = AdvancedLatest(ev, g)
        <5>1. \/ latest'[r].obs = g /\ latest'[r].gen = g /\ r \in ev.content.board.refs
              \/ latest'[r].obs = latest[r].obs /\ latest'[r].gen = g /\ latest[r] # Absent
          BY <3>7, <3>l, <4>2
        <5> QED
          BY <1>h, <3>3, <5>1
      <4> QED
        BY <3>1, <4>1, <4>2
    <3>8. active' # 0 => active' \in live'.gens
      BY <1>h, <3>1, <3>3
    <3> QED
      BY <1>h, <2>1, <3>3, <3>5, <3>6, <3>7, <3>8 DEF PointersResolve
  <2> QED
    BY <2>1, <2>2, <2>3, <2>4
<1>7. ASSUME NEW w \in Workers, RecordFailed(w) PROVE PointersResolve'
  <2> DEFINE n == Len(polls) + 1
  <2>1. UNCHANGED <<gens, active, latest, closing>>
    BY <1>7, FailedMoves
  <2>2. PICK row \in PollRow : live' = [live EXCEPT !.polls = @ \cup {n}]
    BY <1>7, FailedMoves
  <2>3. /\ live'.gens = live.gens /\ live'.snaps = live.snaps /\ live'.rows = live.rows
        /\ live'.polls = live.polls \cup {n}
    BY <1>0, <2>2 DEF Live
  <2>4. \A x \in live.rows : SourcePoll(x)' = SourcePoll(x)
    BY <2>1 DEF SourcePoll
  <2> HIDE DEF n
  <2> QED
    BY <1>h, <2>1, <2>3, <2>4 DEF PointersResolve
<1> QED
  BY <1>1, <1>2, <1>3, <1>4, <1>5, <1>6, <1>7, StepCases

-----------------------------------------------------------------------------
(***************************************************************************)
(* The fences: what retention leaves says as much as all there ever was.   *)
(***************************************************************************)

\* Of finitely many rows one is the newest, the last of those as new.
LEMMA HasNewest ==
    ASSUME NEW S, IsFiniteSet(S), S # {}, S \subseteq Int, NEW f, \A x \in S : f[x] \in Int
    PROVE  \E p \in S : \A q \in S : f[q] < f[p] \/ (f[q] = f[p] /\ q <= p)
<1> DEFINE T == {f[x] : x \in S}
<1>1. IsFiniteSet(T) /\ T # {} /\ T \subseteq Int
  BY FiniteImage
<1>2. T \subseteq Int => \E m \in T : \A y \in T : y <= m
  <2> HIDE DEF T
  <2> QED
    BY <1>1, FiniteHasMax
<1>3. PICK m \in T : \A y \in T : y <= m
  BY <1>1, <1>2
<1> DEFINE U == {x \in S : f[x] = m}
<1>4. IsFiniteSet(U) /\ U # {} /\ U \subseteq Int
  <2>1. U # {} /\ U \subseteq Int /\ U \subseteq S
    OBVIOUS
  <2> HIDE DEF U
  <2> QED
    BY <2>1, FS_Subset
<1>5. U \subseteq Int => \E p \in U : \A y \in U : y <= p
  <2> HIDE DEF U
  <2> QED
    BY <1>4, FiniteHasMax
<1>6. PICK p \in U : \A y \in U : y <= p
  BY <1>4, <1>5
<1>7. ASSUME NEW q \in S PROVE f[q] < f[p] \/ (f[q] = f[p] /\ q <= p)
  <2>1. f[q] \in Int /\ m \in Int /\ f[p] = m /\ f[q] <= m
    BY <1>1, <1>3, <1>6
  <2>2. f[q] = m => q <= p
    BY <1>6
  <2> QED
    BY <2>1, <2>2
<1> QED
  BY <1>6, <1>7

\* _newest_poll names one promoted and one failed poll, when there are any.
LEMMA NewestStay ==
    ASSUME TypeOK, RowsInv, HistoryInv, NEW q \in live.polls
    PROVE  /\ polls[q].promoted =>
                 \E p \in NewestPolls \cap live.polls :
                    polls[p].promoted /\ polls[p].ev.retrieved >= polls[q].ev.retrieved
           /\ polls[q].ev = None =>
                 \E p \in NewestPolls \cap live.polls :
                    polls[p].ev = None /\ polls[p].started >= polls[q].started
<1> DEFINE P == {p \in live.polls : polls[p].promoted}
           F == {p \in live.polls : polls[p].ev = None}
           At(p) == IF polls[p].ev = None THEN polls[p].started ELSE polls[p].ev.retrieved
           f == [p \in live.polls |-> At(p)]
           Newest(S) == {p \in S : \A x \in S : At(x) < At(p) \/ (At(x) = At(p) /\ x <= p)}
<1>1. /\ live.polls \subseteq DOMAIN polls /\ DOMAIN polls = 1 .. Len(polls) /\ Len(polls) \in Nat
      /\ \A p \in DOMAIN polls : polls[p].promoted => polls[p].ev # None
  BY HistoryTypes DEF HistoryInv
<1>2. \A p \in live.polls : /\ polls[p].started \in Nat
                            /\ polls[p].ev # None => polls[p].ev.retrieved \in Nat
  BY <1>1, HistoryTypes, EvidenceTypes, ConstantTypes
<1>3. \A p \in live.polls : f[p] \in Int /\ f[p] = At(p)
  BY <1>2
<1>4. IsFiniteSet(live.polls) /\ live.polls \subseteq Int
  <2>1. IsFiniteSet(1 .. Len(polls))
    BY <1>1, FS_Interval
  <2> QED
    BY <1>1, <2>1, FS_Subset
<1>5. NewestPolls = Newest(P) \cup Newest(F)
  BY Zenon DEF NewestPolls
<1>6. ASSUME NEW S \in SUBSET live.polls, q \in S
      PROVE  \E p \in S : p \in Newest(S) /\ f[p] >= f[q]
  <2>1. IsFiniteSet(S) /\ S # {} /\ S \subseteq Int /\ \A x \in S : f[x] \in Int
    BY <1>3, <1>4, <1>6, FS_Subset
  <2>2. PICK p \in S : \A x \in S : f[x] < f[p] \/ (f[x] = f[p] /\ x <= p)
    <3> HIDE DEF f
    <3> QED
      BY <2>1, HasNewest
  <2>3. \A x \in S : At(x) < At(p) \/ (At(x) = At(p) /\ x <= p)
    BY <1>3, <2>2
  <2>4. p \in Newest(S)
    BY <2>3
  <2>5. f[p] >= f[q]
    <3> HIDE DEF f
    <3>1. f[p] \in Int /\ f[q] \in Int /\ (f[q] < f[p] \/ f[q] = f[p])
      BY <1>6, <2>1, <2>2
    <3> QED
      BY <3>1
  <2> QED
    BY <2>4, <2>5
<1>7. ASSUME polls[q].promoted
      PROVE  \E p \in NewestPolls \cap live.polls :
                    polls[p].promoted /\ polls[p].ev.retrieved >= polls[q].ev.retrieved
  <2>1. q \in P /\ P \in SUBSET live.polls
    BY <1>7
  <2>2. PICK p \in P : p \in Newest(P) /\ f[p] >= f[q]
    <3> HIDE DEF P, f, Newest
    <3> QED
      BY <1>6, <2>1
  <2>3. f[p] = polls[p].ev.retrieved /\ f[q] = polls[q].ev.retrieved
    BY <1>1, <1>7, <2>1
  <2>4. p \in NewestPolls /\ p \in live.polls /\ polls[p].promoted
    <3> HIDE DEF Newest
    <3> QED
      BY <1>5, <2>2
  <2> HIDE DEF f
  <2> QED
    BY <2>2, <2>3, <2>4
<1>8. ASSUME polls[q].ev = None
      PROVE  \E p \in NewestPolls \cap live.polls :
                    polls[p].ev = None /\ polls[p].started >= polls[q].started
  <2>1. q \in F /\ F \in SUBSET live.polls
    BY <1>8
  <2>2. PICK p \in F : p \in Newest(F) /\ f[p] >= f[q]
    <3> HIDE DEF F, f, Newest
    <3> QED
      BY <1>6, <2>1
  <2>3. f[p] = polls[p].started /\ f[q] = polls[q].started
    BY <1>1, <1>8, <2>1
  <2>4. p \in NewestPolls /\ p \in live.polls /\ polls[p].ev = None
    <3> HIDE DEF Newest
    <3> QED
      BY <1>5, <2>2
  <2> HIDE DEF f
  <2> QED
    BY <2>2, <2>3, <2>4
<1> QED
  BY <1>7, <1>8

\* A new poll is a survivor.
LEMMA FenceGrows ==
    ASSUME TypeOK, RowsInv, HistoryInv, FenceInv, NEW row \in PollRow,
           polls' = Append(polls, row), row.promoted => row.ev # None,
           live'.polls = live.polls \cup {Len(polls) + 1}, prune' = prune
    PROVE  FenceInv'
<1> DEFINE n == Len(polls) + 1
<1>1. /\ DOMAIN polls' = DOMAIN polls \cup {n} /\ polls'[n] = row /\ n \notin DOMAIN polls
      /\ \A i \in DOMAIN polls : polls'[i] = polls[i]
  BY Appended DEF RowsInv
<1>2. Survivors' = Survivors \cup {n} /\ Survivors \subseteq DOMAIN polls
  BY <1>1 DEF Survivors, HistoryInv
<1>3. row.started \in Nat /\ (row.ev # None => row.ev.retrieved \in Nat)
  BY EvidenceTypes, ConstantTypes DEF PollRow
<1> HIDE DEF n
<1>4. ASSUME NEW p \in DOMAIN polls'
      PROVE  /\ polls'[p].promoted =>
                   \E q \in Survivors' : /\ polls'[q].promoted
                                         /\ polls'[q].ev.retrieved >= polls'[p].ev.retrieved
             /\ polls'[p].ev = None =>
                   \E q \in Survivors' : polls'[q].ev = None /\ polls'[q].started >= polls'[p].started
  <2>1. CASE p = n
    <3>1. polls'[p] = row /\ p \in Survivors'
      BY <1>1, <1>2, <2>1
    <3>2. row.started >= row.started /\ (row.ev # None => row.ev.retrieved >= row.ev.retrieved)
      BY <1>3
    <3> QED
      BY <3>1, <3>2
  <2>2. CASE p \in DOMAIN polls
    <3>1. polls'[p] = polls[p] /\ \A q \in Survivors : polls'[q] = polls[q] /\ q \in Survivors'
      BY <1>1, <1>2, <2>2
    <3>2. /\ polls[p].promoted => \E q \in Survivors :
                polls[q].promoted /\ polls[q].ev.retrieved >= polls[p].ev.retrieved
          /\ polls[p].ev = None => \E q \in Survivors :
                polls[q].ev = None /\ polls[q].started >= polls[p].started
      BY <2>2 DEF FenceInv
    <3> QED
      BY <3>1, <3>2
  <2> QED
    BY <1>1, <2>1, <2>2
<1> QED
  BY <1>4, Zenon DEF FenceInv

LEMMA FenceUnchanged ==
    ASSUME FenceInv, polls' = polls, Survivors \subseteq Survivors'
    PROVE  FenceInv'
BY DEF FenceInv

LEMMA FenceStep ==
    ASSUME TypeOK, RowsInv, HistoryInv, PointersResolve, FenceInv, [Next]_vars
    PROVE  FenceInv'
<1>0. live \in Live /\ prune \in Retention /\ cycle \in [Workers -> Cycle]
  BY TypeParts DEF VarTypes
<1>1. CASE UNCHANGED vars \/ Tick \/ Decide \/ BeginPrune \/ StopPrune
  <2>1. polls' = polls /\ live' = live
    BY <1>1 DEF vars, archive, Tick, Decide, BeginPrune, StopPrune
  <2>2. prune'.polls \subseteq prune.polls
    BY <1>1, BeginPruneTypes, RestingType DEF vars, Tick, Decide, StopPrune
  <2>3. Survivors \subseteq Survivors'
    BY <2>1, <2>2 DEF Survivors
  <2> QED
    BY <2>1, <2>3, FenceUnchanged
<1>2. CASE PlanParents
  <2>1. polls' = polls /\ live' = live
    BY <1>2 DEF PlanParents, archive
  <2>2. prune'.polls \subseteq live.polls \ NewestPolls
    BY <1>2, PlanParentsTypes
  <2>3. NewestPolls \cap live.polls \subseteq Survivors'
    BY <2>1, <2>2 DEF Survivors
  <2>4. /\ Survivors \subseteq live.polls /\ live.polls \subseteq DOMAIN polls
        /\ NewestPolls \cap live.polls \subseteq DOMAIN polls
    BY DEF Survivors, HistoryInv
  <2>5. \A p \in DOMAIN polls : /\ polls[p].started \in Nat
                                /\ polls[p].ev # None => polls[p].ev.retrieved \in Nat
    BY HistoryTypes, EvidenceTypes, ConstantTypes
  <2>6. \A p \in DOMAIN polls : polls[p].promoted => polls[p].ev # None
    BY DEF HistoryInv
  <2>7. ASSUME NEW p \in DOMAIN polls
        PROVE  /\ polls[p].promoted =>
                     \E x \in NewestPolls \cap live.polls :
                        polls[x].promoted /\ polls[x].ev.retrieved >= polls[p].ev.retrieved
               /\ polls[p].ev = None =>
                     \E x \in NewestPolls \cap live.polls :
                        polls[x].ev = None /\ polls[x].started >= polls[p].started
    <3>1. ASSUME polls[p].promoted
          PROVE  \E x \in NewestPolls \cap live.polls :
                    polls[x].promoted /\ polls[x].ev.retrieved >= polls[p].ev.retrieved
      <4>1. PICK q \in Survivors :
               polls[q].promoted /\ polls[q].ev.retrieved >= polls[p].ev.retrieved
        BY <3>1 DEF FenceInv
      <4>2. q \in live.polls /\ q \in DOMAIN polls
        BY <2>4
      <4>3. PICK x \in NewestPolls \cap live.polls :
               polls[x].promoted /\ polls[x].ev.retrieved >= polls[q].ev.retrieved
        BY <4>1, <4>2, NewestStay
      <4>4. /\ polls[p].ev.retrieved \in Nat /\ polls[q].ev.retrieved \in Nat
            /\ polls[x].ev.retrieved \in Nat
        BY <2>4, <2>5, <2>6, <3>1, <4>1, <4>2, <4>3
      <4> QED
        BY <4>1, <4>3, <4>4
    <3>2. ASSUME polls[p].ev = None
          PROVE  \E x \in NewestPolls \cap live.polls :
                    polls[x].ev = None /\ polls[x].started >= polls[p].started
      <4>1. PICK q \in Survivors : polls[q].ev = None /\ polls[q].started >= polls[p].started
        BY <3>2 DEF FenceInv
      <4>2. q \in live.polls /\ q \in DOMAIN polls
        BY <2>4
      <4>3. PICK x \in NewestPolls \cap live.polls :
               polls[x].ev = None /\ polls[x].started >= polls[q].started
        BY <4>1, <4>2, NewestStay
      <4>4. /\ polls[p].started \in Nat /\ polls[q].started \in Nat /\ polls[x].started \in Nat
        BY <2>4, <2>5, <4>2
      <4> QED
        BY <4>1, <4>3, <4>4
    <3> QED
      BY <3>1, <3>2
  <2> QED
    BY <2>1, <2>3, <2>7 DEF FenceInv
<1>3. CASE PruneRows
  <2>1. polls' = polls /\ prune'.polls = prune.polls
    BY <1>3, PruneRowsTypes DEF PruneRows
  <2>2. PICK doomed : live' = [live EXCEPT !.rows = @ \ doomed]
    BY <1>3, PruneRowsTypes
  <2>3. live'.polls = live.polls
    BY <1>0, <2>2 DEF Live
  <2>4. Survivors \subseteq Survivors'
    BY <2>1, <2>3 DEF Survivors
  <2> QED
    BY <2>1, <2>4, FenceUnchanged
<1>4. CASE PruneParents
  <2>1. polls' = polls
    BY <1>4 DEF PruneParents
  <2>2. UnreferencedPolls \subseteq prune.polls
    BY DEF UnreferencedPolls
  <2>3. Survivors \subseteq Survivors'
    BY <1>4, <2>2, PruneParentsTypes DEF Survivors
  <2> QED
    BY <2>1, <2>3, FenceUnchanged
<1>5. ASSUME NEW w \in Workers, CycleSheds(w) \/ CycleFetches(w) PROVE FenceInv'
  <2>1. UNCHANGED <<polls, live, prune>>
    BY <1>5, ShedMoves, FetchMoves
  <2> QED
    BY <2>1, FenceUnchanged DEF Survivors
<1>6. CASE ReplayMapping
  <2>1. UNCHANGED <<polls, prune>>
    BY <1>6, ReplayWrites
  <2>2. live'.polls = live.polls
    <3>1. CASE UNCHANGED <<archive, replayed>>
      BY <3>1 DEF archive
    <3>2. CASE ~UNCHANGED <<archive, replayed>>
      <4>1. PICK row : live' = [live EXCEPT !.rows = @ \cup {row}, !.gens = @ \cup {Len(gens) + 1}]
        BY <1>6, <3>2, ReplayWrites
      <4> QED
        BY <1>0, <4>1 DEF Live
    <3> QED
      BY <3>1, <3>2
  <2>3. Survivors \subseteq Survivors'
    BY <2>1, <2>2 DEF Survivors
  <2> QED
    BY <2>1, <2>3, FenceUnchanged
<1>7. ASSUME NEW w \in Workers, Record(w) PROVE FenceInv'
  <2>1. /\ cycle[w].pc \in Flying /\ cycle[w].ev # None /\ UNCHANGED prune
        /\ \/ UNCHANGED <<polls, gens, live, latest, active>>
           \/ Confirm(w) \/ Persist(w)
    BY <1>7, RecordMoves
  <2>2. CASE UNCHANGED <<polls, gens, live, latest, active>>
    BY <2>1, <2>2, FenceUnchanged DEF Survivors
  <2>3. CASE Confirm(w) \/ Persist(w)
    <3>1. PICK row \in PollRow : /\ polls' = Append(polls, row) /\ row.ev = cycle[w].ev
                                 /\ live'.polls = live.polls \cup {Len(polls) + 1}
      <4>1. CASE Confirm(w)
        <5>1. PICK row \in PollRow : /\ polls' = Append(polls, row) /\ row.ev = cycle[w].ev
                                     /\ live' = [live EXCEPT !.polls = @ \cup {Len(polls) + 1}]
          BY <2>1, <4>1, ConfirmWrites
        <5>2. live'.polls = live.polls \cup {Len(polls) + 1}
          BY <1>0, <5>1 DEF Live
        <5> QED
          BY <5>1, <5>2
      <4>2. CASE Persist(w)
        <5>1. PICK row \in PollRow, snap \in live.snaps \cup {Len(gens) + 1} :
                 /\ polls' = Append(polls, row) /\ row.ev = cycle[w].ev
                 /\ live' = [rows |-> live.rows \cup ({Len(gens) + 1} \X cycle[w].ev.content.board.refs),
                             gens |-> live.gens \cup {Len(gens) + 1},
                             polls |-> live.polls \cup {Len(polls) + 1},
                             snaps |-> live.snaps \cup {snap}]
          BY <2>1, <4>2, PersistWrites
        <5>2. live'.polls = live.polls \cup {Len(polls) + 1}
          BY <5>1
        <5> QED
          BY <5>1, <5>2
      <4> QED
        BY <2>3, <4>1, <4>2
    <3> QED
      BY <2>1, <3>1, FenceGrows
  <2> QED
    BY <2>1, <2>2, <2>3
<1>8. ASSUME NEW w \in Workers, RecordFailed(w) PROVE FenceInv'
  <2>1. prune' = prune
    BY <1>8, FailedMoves
  <2>2. PICK row \in PollRow : /\ polls' = Append(polls, row) /\ row.promoted = FALSE
                               /\ live' = [live EXCEPT !.polls = @ \cup {Len(polls) + 1}]
    BY <1>8, FailedMoves
  <2>3. live'.polls = live.polls \cup {Len(polls) + 1}
    BY <1>0, <2>2 DEF Live
  <2> QED
    BY <2>1, <2>2, <2>3, FenceGrows
<1> QED
  BY <1>1, <1>2, <1>3, <1>4, <1>5, <1>6, <1>7, <1>8, StepCases

-----------------------------------------------------------------------------
(***************************************************************************)
(* What the fences mean for evidence.                                      *)
(***************************************************************************)

\* What is newer than the fences that are left is newer than everything ever
\* promoted or failed; what is not is behind one of them for good.
LEMMA AdvancesMeans ==
    ASSUME TypeOK, RowsInv, HistoryInv, PointersResolve, FenceInv, NEW ev \in Evidence
    PROVE  /\ Advances(ev) => /\ ~Blocked(ev.retrieved, polls, replayed)
                              /\ ev.content.mapped = FALSE => ~(ev.retrieved < replayed.at)
           /\ ~Advances(ev) => Fenced(ev.retrieved, polls, replayed)
<1>1. ev.retrieved \in Nat /\ ev.content.mapped \in BOOLEAN
  BY EvidenceTypes, ConstantTypes
<1>2. replayed.at \in Nat /\ replayed.retrieved \in Nat
  BY TypeParts, ConstantTypes DEF VarTypes
<1>3. \A p \in DOMAIN polls : /\ polls[p].started \in Nat
                              /\ polls[p].ev # None => polls[p].ev.retrieved \in Nat
                              /\ polls[p].promoted => polls[p].ev # None
  BY HistoryTypes, EvidenceTypes, ConstantTypes DEF HistoryInv
<1>4. Survivors \subseteq live.polls /\ live.polls \subseteq DOMAIN polls
  BY DEF Survivors, HistoryInv
<1>5. active # 0 => /\ gens[active].poll \in DOMAIN polls
                    /\ polls[gens[active].poll].promoted
                    /\ polls[gens[active].poll].ev.retrieved = gens[active].retrieved
  BY DEF HistoryInv, PointersResolve
<1>6. ASSUME Advances(ev) PROVE ~Blocked(ev.retrieved, polls, replayed)
  <2>1. /\ \A q \in live.polls : polls[q].promoted => ev.retrieved > polls[q].ev.retrieved
        /\ \A q \in live.polls : polls[q].ev = None => ev.retrieved > polls[q].started
        /\ ev.retrieved > replayed.retrieved
    BY <1>6 DEF Advances, PromotionFence, FailureFence
  <2>2. ASSUME NEW p \in DOMAIN polls, polls[p].promoted PROVE ev.retrieved > polls[p].ev.retrieved
    <3>1. PICK q \in Survivors : polls[q].promoted /\ polls[q].ev.retrieved >= polls[p].ev.retrieved
      BY <2>2 DEF FenceInv
    <3>2. ev.retrieved > polls[q].ev.retrieved /\ q \in DOMAIN polls
      BY <1>4, <2>1, <3>1
    <3> QED
      BY <1>1, <1>3, <2>2, <3>1, <3>2
  <2>3. ASSUME NEW p \in DOMAIN polls, polls[p].ev = None PROVE ev.retrieved > polls[p].started
    <3>1. PICK q \in Survivors : polls[q].ev = None /\ polls[q].started >= polls[p].started
      BY <2>3 DEF FenceInv
    <3>2. ev.retrieved > polls[q].started /\ q \in DOMAIN polls
      BY <1>4, <2>1, <3>1
    <3> QED
      BY <1>1, <1>3, <3>1, <3>2
  <2> QED
    BY <1>1, <1>2, <1>3, <2>1, <2>2, <2>3 DEF Blocked
<1>7. ASSUME Advances(ev), ev.content.mapped = FALSE PROVE ~(ev.retrieved < replayed.at)
  <2>1. ev.retrieved < replayed.at => replayed.at \in UnresolvedFence(ev)
    BY <1>7 DEF UnresolvedFence
  <2>2. ev.retrieved < replayed.at => ev.retrieved > replayed.at
    BY <1>7, <2>1 DEF Advances
  <2> QED
    BY <1>1, <1>2, <2>2
<1>8. ASSUME ~Advances(ev) PROVE Fenced(ev.retrieved, polls, replayed)
  <2>1. PICK t \in PromotionFence \cup FailureFence \cup UnresolvedFence(ev) \cup CurrentFence :
           ~(ev.retrieved > t)
    BY <1>8 DEF Advances
  <2>2. CASE t \in PromotionFence
    <3>1. CASE t = replayed.retrieved
      BY <1>1, <1>2, <2>1, <3>1 DEF Fenced, Blocked
    <3>2. CASE t # replayed.retrieved
      <4>1. PICK q \in live.polls : polls[q].promoted /\ t = polls[q].ev.retrieved
        BY <2>2, <3>2 DEF PromotionFence
      <4>2. q \in DOMAIN polls /\ polls[q].ev.retrieved >= ev.retrieved
        BY <1>1, <1>3, <1>4, <2>1, <4>1
      <4> QED
        BY <4>1, <4>2 DEF Fenced, Blocked
    <3> QED
      BY <3>1, <3>2
  <2>3. CASE t \in FailureFence
    <3>1. PICK q \in live.polls : polls[q].ev = None /\ t = polls[q].started
      BY <2>3 DEF FailureFence
    <3>2. q \in DOMAIN polls /\ polls[q].started >= ev.retrieved
      BY <1>1, <1>3, <1>4, <2>1, <3>1
    <3> QED
      BY <3>1, <3>2 DEF Fenced, Blocked
  <2>4. CASE t \in UnresolvedFence(ev)
    BY <2>4 DEF UnresolvedFence, Fenced
  <2>5. CASE t \in CurrentFence
    <3>1. active # 0 /\ t = gens[active].retrieved
      BY <2>5 DEF CurrentFence
    <3>2. PICK q \in DOMAIN polls : polls[q].promoted /\ polls[q].ev.retrieved = t
      BY <1>5, <3>1
    <3>3. polls[q].ev.retrieved >= ev.retrieved
      BY <1>1, <1>3, <2>1, <3>2
    <3> QED
      BY <3>2, <3>3 DEF Fenced, Blocked
  <2> QED
    BY <2>2, <2>3, <2>4, <2>5
<1> QED
  BY <1>6, <1>7, <1>8

\* A fence stays: polls are only appended and the replay's times only grow.
LEMMA FencedStays ==
    ASSUME NEW t \in Nat, NEW rows, NEW more, NEW old, NEW new, Fenced(t, rows, old),
           \A p \in DOMAIN rows : p \in DOMAIN more /\ more[p] = rows[p],
           old.at \in Nat, old.retrieved \in Nat, new.at \in Nat, new.retrieved \in Nat,
           old.at <= new.at, old.retrieved <= new.retrieved
    PROVE  Fenced(t, more, new)
BY DEF Fenced, Blocked

\* The steps that fetch nothing: cycles at most lose their evidence, polls are
\* appended, each behind a fence, and a line that is recovered is newer than
\* the unresolved evidence or a fence is.
ShedsEvidence ==
    cycle' \in [Workers -> Cycle] /\ \A w \in Workers : cycle'[w].ev \in {cycle[w].ev, None}

PollsFenced ==
    /\ \A p \in DOMAIN polls : p \in DOMAIN polls' /\ polls'[p] = polls[p]
    /\ \A p \in DOMAIN polls' : p \notin DOMAIN polls /\ polls'[p].ev # None =>
          Fenced(polls'[p].ev.retrieved, polls', replayed')

ReplayGrows ==
    /\ replayed' \in [at : Times, retrieved : Times]
    /\ replayed.at <= replayed'.at /\ replayed.retrieved <= replayed'.retrieved
    /\ decision' = "open" => decision = "open"
    /\ decision' # "open" => decision # "open" \/ now < now'
    /\ decision' # "replayed" => replayed'.at = 0 /\ replayed'.retrieved = 0
    /\ replayed' = replayed \/ (decision # "open" /\ replayed'.at = now)

RecoversNewer ==
    latest'[Unmapped] # Absent =>
        \/ latest[Unmapped] # Absent
        \/ /\ decision # "open"
           /\ \A w \in Workers : Carries(cycle[w], FALSE) =>
                 Fenced(cycle[w].ev.retrieved, polls', replayed')

LEMMA RecoveryKeeps ==
    ASSUME TypeOK, RowsInv, RecoveryInv, now' \in Nat, now <= now',
           ShedsEvidence, PollsFenced, ReplayGrows, RecoversNewer
    PROVE  RecoveryInv'
<1> USE DEF ShedsEvidence, PollsFenced, ReplayGrows, RecoversNewer
<1>1. now \in Nat /\ cycle \in [Workers -> Cycle]
      /\ replayed.at \in Nat /\ replayed.retrieved \in Nat
      /\ replayed'.at \in Nat /\ replayed'.retrieved \in Nat
  BY TypeParts, ConstantTypes DEF VarTypes
<1>2. \A w \in Workers : cycle[w].ev # None => cycle[w].ev.retrieved \in Nat
  BY <1>1, EvidenceTypes, ConstantTypes DEF Cycle
<1>3. ASSUME NEW t \in Nat, Fenced(t, polls, replayed) PROVE Fenced(t, polls', replayed')
  BY <1>1, <1>3, FencedStays
<1>4. ASSUME NEW w \in Workers, cycle'[w].ev # None PROVE cycle'[w].ev = cycle[w].ev
  BY <1>4
<1>5. \A w \in Workers, m \in BOOLEAN : Carries(cycle'[w], m) =>
         Carries(cycle[w], m) /\ cycle'[w].ev = cycle[w].ev /\ cycle[w].ev # None
  BY <1>4 DEF Carries
<1>6. \A w \in Workers : cycle'[w].ev # None => cycle'[w].ev.retrieved <= now'
  BY <1>1, <1>2, <1>4 DEF RecoveryInv
<1>7. decision' = "open" => latest'[Unmapped] = Absent /\ \A w \in Workers : ~Carries(cycle'[w], TRUE)
  BY <1>5 DEF RecoveryInv
<1>8. ASSUME NEW w \in Workers, Carries(cycle'[w], FALSE)
      PROVE  /\ decision' # "open" => cycle'[w].ev.retrieved < now'
             /\ replayed'.at # 0 => cycle'[w].ev.retrieved < replayed'.at
             /\ latest'[Unmapped] # Absent => Fenced(cycle'[w].ev.retrieved, polls', replayed')
             /\ \A v \in Workers : Carries(cycle'[v], TRUE) =>
                   \/ cycle'[w].ev.retrieved <= cycle'[v].ev.retrieved
                   \/ Fenced(cycle'[v].ev.retrieved, polls', replayed')
  <2>1. Carries(cycle[w], FALSE) /\ cycle'[w].ev = cycle[w].ev /\ cycle[w].ev # None
    BY <1>5, <1>8
  <2>2. PICK u \in Nat : u = cycle[w].ev.retrieved
    BY <1>2, <2>1
  <2>3. /\ u <= now /\ (decision # "open" => u < now) /\ (replayed.at # 0 => u < replayed.at)
        /\ latest[Unmapped] # Absent => Fenced(u, polls, replayed)
        /\ \A v \in Workers : Carries(cycle[v], TRUE) =>
              u <= cycle[v].ev.retrieved \/ Fenced(cycle[v].ev.retrieved, polls, replayed)
    BY <2>1, <2>2 DEF RecoveryInv
  <2>4. decision' # "open" => u < now'
    BY <1>1, <2>3
  <2>5. replayed'.at # 0 => u < replayed'.at
    BY <1>1, <2>3
  <2>6. latest'[Unmapped] # Absent => Fenced(u, polls', replayed')
    BY <1>3, <2>1, <2>2, <2>3
  <2>7. ASSUME NEW v \in Workers, Carries(cycle'[v], TRUE)
        PROVE  u <= cycle'[v].ev.retrieved \/ Fenced(cycle'[v].ev.retrieved, polls', replayed')
    <3>1. Carries(cycle[v], TRUE) /\ cycle'[v].ev = cycle[v].ev /\ cycle[v].ev # None
      BY <1>5, <2>7
    <3>2. PICK m \in Nat : m = cycle[v].ev.retrieved
      BY <1>2, <3>1
    <3>3. u <= m \/ Fenced(m, polls, replayed)
      BY <2>3, <3>1, <3>2
    <3>4. u <= m \/ Fenced(m, polls', replayed')
      BY <1>3, <3>3
    <3> QED
      BY <3>1, <3>2, <3>4
  <2> QED
    BY <2>1, <2>2, <2>4, <2>5, <2>6, <2>7
<1>9. ASSUME NEW p \in DOMAIN polls', polls'[p].ev # None
      PROVE  Fenced(polls'[p].ev.retrieved, polls', replayed')
  <2>1. CASE p \in DOMAIN polls
    <3>1. polls'[p] = polls[p] /\ polls[p].ev \in Evidence
      BY <1>9, <2>1, HistoryTypes
    <3>2. PICK t \in Nat : t = polls[p].ev.retrieved
      BY <3>1, EvidenceTypes, ConstantTypes
    <3>3. Fenced(t, polls, replayed)
      BY <1>9, <2>1, <3>1, <3>2 DEF RecoveryInv
    <3> QED
      BY <1>3, <3>1, <3>2, <3>3
  <2> QED
    BY <1>9, <2>1
<1> QED
  BY <1>6, <1>7, <1>8, <1>9 DEF RecoveryInv

LEMMA ReplayUnchanged ==
    ASSUME TypeOK, RecoveryInv, decision' = decision, replayed' = replayed
    PROVE  ReplayGrows
<1>1. /\ replayed' \in [at : Times, retrieved : Times]
      /\ replayed.at \in Nat /\ replayed.retrieved \in Nat
  BY TypeParts, ConstantTypes DEF VarTypes
<1> QED
  BY <1>1 DEF ReplayGrows, RecoveryInv

\* A fetch: what is resolved is newer than what is not, or behind a fence.
LEMMA RecoveryFetches ==
    ASSUME TypeOK, RowsInv, HistoryInv, RecoveryInv, NEW w \in Workers, CycleFetches(w)
    PROVE  RecoveryInv'
<1>1. UNCHANGED <<now, decision, polls, latest, replayed>>
  BY FetchMoves
<1>2. PICK c \in Cycle, b \in Boards, t \in Times :
         /\ cycle' = [cycle EXCEPT ![w] = c] /\ c.ev # None
         /\ c.ev.content.board = b /\ c.ev.content.mapped = Mapped(b) /\ c.ev.retrieved = t
         /\ \/ t = now
            \/ \E p \in live.polls : polls[p].ev # None /\ t = polls[p].ev.retrieved /\ t < now
  BY FetchMoves
<1>3. cycle \in [Workers -> Cycle] /\ now \in Nat /\ t \in Nat
  BY TypeParts, ConstantTypes DEF VarTypes
<1>4. cycle'[w] = c /\ \A v \in Workers : v # w => cycle'[v] = cycle[v]
  BY <1>2, <1>3
<1>5. \A v \in Workers : cycle[v].ev # None => cycle[v].ev.retrieved \in Nat
  BY <1>3, EvidenceTypes, ConstantTypes DEF Cycle
<1>6. t <= now /\ (t = now \/ Fenced(t, polls, replayed))
  <2>1. ASSUME NEW p \in live.polls, polls[p].ev # None, t = polls[p].ev.retrieved
        PROVE  Fenced(t, polls, replayed)
    BY <2>1 DEF RecoveryInv, HistoryInv
  <2> QED
    BY <1>2, <1>3, <2>1
<1>7. Carries(c, TRUE) => decision # "open"
  BY <1>2 DEF Carries, Mapped
<1>8. Carries(c, FALSE) => decision = "open"
  BY <1>2 DEF Carries, Mapped
<1>9. \A v \in Workers : cycle'[v].ev # None => cycle'[v].ev.retrieved <= now
  BY <1>2, <1>4, <1>6 DEF RecoveryInv
<1>10. decision = "open" => latest[Unmapped] = Absent /\ \A v \in Workers : ~Carries(cycle'[v], TRUE)
  BY <1>4, <1>7 DEF RecoveryInv
<1>11. ASSUME NEW v \in Workers, Carries(cycle'[v], FALSE)
       PROVE  /\ decision # "open" => cycle'[v].ev.retrieved < now
              /\ replayed.at # 0 => cycle'[v].ev.retrieved < replayed.at
              /\ latest[Unmapped] # Absent => Fenced(cycle'[v].ev.retrieved, polls, replayed)
              /\ \A x \in Workers : Carries(cycle'[x], TRUE) =>
                    \/ cycle'[v].ev.retrieved <= cycle'[x].ev.retrieved
                    \/ Fenced(cycle'[x].ev.retrieved, polls, replayed)
  <2>1. CASE v = w
    <3>1. decision = "open"
      BY <1>4, <1>8, <1>11, <2>1
    <3>2. replayed.at = 0
      BY <3>1 DEF RecoveryInv
    <3> QED
      BY <1>10, <3>1, <3>2
  <2>2. CASE v # w
    <3>1. cycle'[v] = cycle[v] /\ Carries(cycle[v], FALSE)
      BY <1>4, <1>11, <2>2
    <3>2. /\ decision # "open" => cycle[v].ev.retrieved < now
          /\ replayed.at # 0 => cycle[v].ev.retrieved < replayed.at
          /\ latest[Unmapped] # Absent => Fenced(cycle[v].ev.retrieved, polls, replayed)
          /\ \A x \in Workers : Carries(cycle[x], TRUE) =>
                \/ cycle[v].ev.retrieved <= cycle[x].ev.retrieved
                \/ Fenced(cycle[x].ev.retrieved, polls, replayed)
      BY <3>1 DEF RecoveryInv
    <3>3. ASSUME NEW x \in Workers, Carries(cycle'[x], TRUE)
          PROVE  \/ cycle'[v].ev.retrieved <= cycle'[x].ev.retrieved
                 \/ Fenced(cycle'[x].ev.retrieved, polls, replayed)
      <4>1. CASE x = w
        <5>1. cycle'[x].ev.retrieved = t /\ decision # "open"
          BY <1>2, <1>4, <1>7, <3>3, <4>1
        <5>2. cycle[v].ev.retrieved \in Nat
          BY <1>5, <3>1 DEF Carries
        <5> QED
          BY <1>3, <1>6, <3>1, <3>2, <5>1, <5>2
      <4>2. CASE x # w
        BY <1>4, <3>1, <3>2, <3>3, <4>2
      <4> QED
        BY <4>1, <4>2
    <3> QED
      BY <3>1, <3>2, <3>3
  <2> QED
    BY <2>1, <2>2
<1>12. decision # "replayed" => replayed.at = 0 /\ replayed.retrieved = 0
  BY DEF RecoveryInv
<1>13. \A p \in DOMAIN polls : polls[p].ev # None => Fenced(polls[p].ev.retrieved, polls, replayed)
  BY DEF RecoveryInv
<1> QED
  BY <1>1, <1>9, <1>10, <1>11, <1>12, <1>13 DEF RecoveryInv

\* A poll that is written is behind a fence, its own if it is promoted.
LEMMA RecoveryRecords ==
    ASSUME TypeOK, RowsInv, HistoryInv, PointersResolve, FenceInv, RecoveryInv,
           NEW w \in Workers, Record(w)
    PROVE  RecoveryInv'
<1>1. /\ cycle[w].pc \in Flying /\ cycle[w].ev # None
      /\ cycle' \in [Workers -> Cycle] /\ \A v \in Workers : cycle'[v].ev \in {cycle[v].ev, None}
      /\ UNCHANGED <<now, decision, replayed>>
      /\ \/ UNCHANGED <<polls, gens, live, latest, active>>
         \/ Confirm(w) \/ Persist(w)
  BY RecordMoves
<1>2. /\ now \in Nat /\ replayed \in [at : Times, retrieved : Times] /\ cycle[w] \in Cycle
      /\ replayed.at \in Nat /\ replayed.retrieved \in Nat
      /\ polls \in Seq(PollRow)
  BY TypeParts, ConstantTypes DEF VarTypes, RowsInv
<1>3. now' \in Nat /\ now <= now' /\ ReplayGrows /\ ShedsEvidence
  BY <1>1, <1>2, ReplayUnchanged DEF ShedsEvidence
<1>4. CASE UNCHANGED <<polls, gens, live, latest, active>>
  <2>1. PollsFenced /\ RecoversNewer
    BY <1>4 DEF PollsFenced, RecoversNewer
  <2> QED
    BY <1>3, <2>1, RecoveryKeeps
<1>5. PICK e \in Evidence : e = cycle[w].ev
  BY <1>1, <1>2 DEF Cycle
<1>6. Advances(cycle[w].ev) = Advances(e)
  BY <1>5 DEF Advances, UnresolvedFence
<1>7. PICK m \in Nat : m = e.retrieved
  BY EvidenceTypes, ConstantTypes
<1>8. ASSUME NEW row \in PollRow, polls' = Append(polls, row), row.ev = e, row.promoted = Advances(e)
      PROVE  /\ \A p \in DOMAIN polls : p \in DOMAIN polls' /\ polls'[p] = polls[p]
             /\ \A p \in DOMAIN polls' : p \notin DOMAIN polls /\ polls'[p].ev # None =>
                   Fenced(polls'[p].ev.retrieved, polls', replayed)
             /\ Advances(e) => \A u \in Nat : u <= m => Fenced(u, polls', replayed)
  <2> DEFINE n == Len(polls) + 1
  <2>1. /\ DOMAIN polls' = DOMAIN polls \cup {n} /\ polls'[n] = row
        /\ \A i \in DOMAIN polls : polls'[i] = polls[i]
    BY <1>2, <1>8, Appended
  <2> HIDE DEF n
  <2>2. ASSUME Advances(e), NEW u \in Nat, u <= m PROVE Fenced(u, polls', replayed)
    <3>1. polls'[n].promoted /\ polls'[n].ev.retrieved >= u /\ n \in DOMAIN polls'
      BY <1>7, <1>8, <2>1, <2>2
    <3> QED
      BY <3>1 DEF Fenced, Blocked
  <2>3. Fenced(m, polls', replayed)
    <3>1. CASE Advances(e)
      BY <2>2, <3>1
    <3>2. CASE ~Advances(e)
      <4>1. Fenced(m, polls, replayed)
        BY <1>7, <3>2, AdvancesMeans
      <4> QED
        BY <1>2, <2>1, <4>1, FencedStays
    <3> QED
      BY <3>1, <3>2
  <2> QED
    BY <1>7, <1>8, <2>1, <2>2, <2>3
<1>9. CASE Confirm(w)
  <2>1. PICK row \in PollRow :
           /\ polls' = Append(polls, row) /\ row.ev = cycle[w].ev
           /\ row.promoted = Advances(cycle[w].ev)
           /\ \A r \in Refs : latest'[r] = Absent <=> latest[r] = Absent
    BY <1>1, <1>9, ConfirmWrites
  <2>2. latest'[Unmapped] # Absent => latest[Unmapped] # Absent
    BY <2>1, ConstantTypes
  <2>3. /\ \A p \in DOMAIN polls : p \in DOMAIN polls' /\ polls'[p] = polls[p]
        /\ \A p \in DOMAIN polls' : p \notin DOMAIN polls /\ polls'[p].ev # None =>
              Fenced(polls'[p].ev.retrieved, polls', replayed)
    BY <1>5, <1>6, <1>8, <2>1
  <2>4. PollsFenced /\ RecoversNewer
    BY <1>1, <2>2, <2>3 DEF PollsFenced, RecoversNewer
  <2> QED
    BY <1>3, <2>4, RecoveryKeeps
<1>10. CASE Persist(w)
  <2> DEFINE g == Len(gens) + 1
  <2>1. PICK row \in PollRow :
           /\ polls' = Append(polls, row) /\ row.ev = cycle[w].ev
           /\ row.promoted = Advances(cycle[w].ev)
           /\ latest' = (IF Advances(cycle[w].ev) THEN AdvancedLatest(cycle[w].ev, g) ELSE latest)
           /\ g \in GenIds
    BY <1>1, <1>10, PersistWrites
  <2>2. /\ \A p \in DOMAIN polls : p \in DOMAIN polls' /\ polls'[p] = polls[p]
        /\ \A p \in DOMAIN polls' : p \notin DOMAIN polls /\ polls'[p].ev # None =>
              Fenced(polls'[p].ev.retrieved, polls', replayed)
        /\ Advances(e) => \A u \in Nat : u <= m => Fenced(u, polls', replayed)
    BY <1>5, <1>6, <1>8, <2>1
  <2>3. AdvancedLatest(cycle[w].ev, g)[Unmapped] # Absent =>
           \/ latest[Unmapped] # Absent
           \/ Unmapped \in e.content.board.refs /\ e.content.mapped = TRUE
    BY <1>5, <2>1, AdvancedTypes
  <2>4. ASSUME latest'[Unmapped] # Absent, latest[Unmapped] = Absent
        PROVE  /\ decision # "open"
               /\ \A v \in Workers : Carries(cycle[v], FALSE) =>
                     Fenced(cycle[v].ev.retrieved, polls', replayed)
    <3>1. Advances(cycle[w].ev) /\ Advances(e)
      BY <1>6, <2>1, <2>4
    <3>2. Carries(cycle[w], TRUE)
      BY <1>1, <1>5, <2>1, <2>3, <2>4, <3>1 DEF Carries
    <3>3. decision # "open"
      BY <3>2 DEF RecoveryInv
    <3>4. ~Blocked(m, polls, replayed)
      BY <1>7, <3>1, AdvancesMeans
    <3>5. ASSUME NEW v \in Workers, Carries(cycle[v], FALSE)
          PROVE  Fenced(cycle[v].ev.retrieved, polls', replayed)
      <4>1. PICK u \in Nat : u = cycle[v].ev.retrieved
        <5>1. cycle[v].ev \in Evidence
          BY <3>5, TypeParts DEF VarTypes, Cycle, Carries
        <5> QED
          BY <5>1, EvidenceTypes, ConstantTypes
      <4>2. /\ u <= m \/ Fenced(m, polls, replayed)
            /\ replayed.at # 0 => u < replayed.at
        BY <1>5, <1>7, <3>2, <3>5, <4>1 DEF RecoveryInv
      <4>3. CASE u <= m
        BY <2>2, <3>1, <4>1, <4>3
      <4>4. CASE Fenced(m, polls, replayed)
        <5>1. m < replayed.at
          BY <3>4, <4>4 DEF Fenced
        <5>2. u < replayed.at
          BY <1>2, <4>2, <5>1
        <5> QED
          BY <4>1, <5>2 DEF Fenced
      <4> QED
        BY <4>2, <4>3, <4>4
    <3> QED
      BY <3>3, <3>5
  <2>5. PollsFenced /\ RecoversNewer
    BY <1>1, <2>2, <2>4 DEF PollsFenced, RecoversNewer
  <2> QED
    BY <1>3, <2>5, RecoveryKeeps
<1> QED
  BY <1>1, <1>4, <1>9, <1>10

LEMMA RecoveryStep ==
    ASSUME TypeOK, RowsInv, HistoryInv, PointersResolve, FenceInv, RecoveryInv, [Next]_vars
    PROVE  RecoveryInv'
<1>0. /\ now \in Nat /\ replayed \in [at : Times, retrieved : Times]
      /\ replayed.at \in Nat /\ replayed.retrieved \in Nat
      /\ polls \in Seq(PollRow) /\ cycle \in [Workers -> Cycle]
  BY TypeParts, ConstantTypes DEF VarTypes, RowsInv
<1>1. CASE \/ UNCHANGED vars \/ Tick \/ BeginPrune \/ PruneRows \/ PlanParents \/ PruneParents
           \/ StopPrune
  <2>1. UNCHANGED <<decision, cycle, polls, latest, replayed>>
    BY <1>1 DEF vars, archive, Tick, BeginPrune, PruneRows, PlanParents, PruneParents, StopPrune
  <2>2. now' \in Nat /\ now <= now'
    BY <1>0, <1>1 DEF vars, Tick, BeginPrune, PruneRows, PlanParents, PruneParents, StopPrune
  <2>3. ShedsEvidence /\ PollsFenced /\ RecoversNewer
    BY <1>0, <2>1 DEF ShedsEvidence, PollsFenced, RecoversNewer
  <2>4. ReplayGrows
    BY <2>1, ReplayUnchanged
  <2> QED
    BY <2>2, <2>3, <2>4, RecoveryKeeps
<1>2. CASE Decide
  <2>1. UNCHANGED <<cycle, polls, latest, replayed>>
    BY <1>2 DEF archive, Decide
  <2>2. now' \in Nat /\ now <= now' /\ now < now' /\ decision = "open" /\ decision' = "approved"
    BY <1>0, <1>2 DEF Decide
  <2>3. ShedsEvidence /\ PollsFenced /\ RecoversNewer
    BY <1>0, <2>1 DEF ShedsEvidence, PollsFenced, RecoversNewer
  <2>4. replayed.at = 0 /\ replayed.retrieved = 0
    BY <2>2 DEF RecoveryInv
  <2>5. ReplayGrows
    BY <1>0, <2>1, <2>2, <2>4 DEF ReplayGrows
  <2> QED
    BY <2>2, <2>3, <2>5, RecoveryKeeps
<1>3. CASE ReplayMapping
  <2>1. /\ decision = "approved" /\ decision' = "replayed"
        /\ UNCHANGED <<now, cycle, polls>>
    BY <1>3, ReplayWrites
  <2>2. now' \in Nat /\ now <= now' /\ ShedsEvidence /\ PollsFenced
    BY <1>0, <2>1 DEF ShedsEvidence, PollsFenced
  <2>3. replayed.at = 0 /\ replayed.retrieved = 0
    BY <2>1 DEF RecoveryInv
  <2>4. CASE UNCHANGED <<archive, replayed>>
    <3>1. UNCHANGED <<latest, replayed>>
      BY <2>4 DEF archive
    <3>2. ReplayGrows /\ RecoversNewer
      <4>1. ReplayGrows
        BY <1>0, <2>1, <2>3, <3>1 DEF ReplayGrows
      <4>2. RecoversNewer
        BY <3>1 DEF RecoversNewer
      <4> QED
        BY <4>1, <4>2
    <3> QED
      BY <2>2, <3>2, RecoveryKeeps
  <2>5. CASE ~UNCHANGED <<archive, replayed>>
    <3>1. active # 0 /\ replayed' = [at |-> now, retrieved |-> gens[active].retrieved]
      BY <1>3, <2>5, ReplayWrites
    <3>2. gens[active].retrieved \in Times /\ now \in Times
      BY <3>1, HistoryTypes, TypeParts DEF VarTypes, PointersResolve, HistoryInv
    <3>3. replayed' \in [at : Times, retrieved : Times] /\ replayed'.at = now
          /\ replayed'.retrieved = gens[active].retrieved
      BY <3>1, <3>2
    <3>4. gens[active].retrieved \in Nat
      BY <3>2, ConstantTypes
    <3>5. ReplayGrows
      BY <1>0, <2>1, <2>3, <3>3, <3>4 DEF ReplayGrows
    <3>6. \A w \in Workers : Carries(cycle[w], FALSE) => cycle[w].ev.retrieved < now
      BY <2>1 DEF RecoveryInv
    <3>7. RecoversNewer
      BY <2>1, <3>3, <3>6 DEF RecoversNewer, Fenced
    <3> QED
      BY <2>2, <3>5, <3>7, RecoveryKeeps
  <2> QED
    BY <2>4, <2>5
<1>4. ASSUME NEW w \in Workers, CycleSheds(w) PROVE RecoveryInv'
  <2>1. UNCHANGED <<now, decision, polls, latest, replayed>>
    BY <1>4, ShedMoves
  <2>2. PICK c \in Cycle : cycle' = [cycle EXCEPT ![w] = c] /\ c.ev \in {None, cycle[w].ev}
    BY <1>4, ShedMoves
  <2>3. ShedsEvidence
    BY <1>0, <2>2 DEF ShedsEvidence
  <2>4. now' \in Nat /\ now <= now' /\ PollsFenced /\ RecoversNewer /\ ReplayGrows
    <3>1. now' \in Nat /\ now <= now' /\ PollsFenced
      BY <1>0, <2>1 DEF PollsFenced
    <3>2. RecoversNewer
      BY <2>1 DEF RecoversNewer
    <3>3. ReplayGrows
      BY <2>1, ReplayUnchanged
    <3> QED
      BY <3>1, <3>2, <3>3
  <2> QED
    BY <2>3, <2>4, RecoveryKeeps
<1>5. ASSUME NEW w \in Workers, RecordFailed(w) PROVE RecoveryInv'
  <2>1. UNCHANGED <<now, decision, latest, replayed>> /\ ShedsEvidence
    BY <1>5, FailedMoves DEF ShedsEvidence
  <2>2. PICK row \in PollRow : polls' = Append(polls, row) /\ row.ev = None
    BY <1>5, FailedMoves
  <2>3. /\ \A p \in DOMAIN polls : p \in DOMAIN polls' /\ polls'[p] = polls[p]
        /\ \A p \in DOMAIN polls' : p \in DOMAIN polls \/ polls'[p].ev = None
    BY <1>0, <2>2, Appended
  <2>4. now' \in Nat /\ now <= now' /\ PollsFenced /\ RecoversNewer /\ ReplayGrows
    <3>1. now' \in Nat /\ now <= now' /\ PollsFenced
      BY <1>0, <2>1, <2>3 DEF PollsFenced
    <3>2. RecoversNewer
      BY <2>1 DEF RecoversNewer
    <3>3. ReplayGrows
      BY <2>1, ReplayUnchanged
    <3> QED
      BY <3>1, <3>2, <3>3
  <2> QED
    BY <2>1, <2>4, RecoveryKeeps
<1> QED
  BY <1>1, <1>2, <1>3, <1>4, <1>5, RecoveryFetches, RecoveryRecords, StepCases

-----------------------------------------------------------------------------
(***************************************************************************)
(* The invariant and what follows from it.                                 *)
(***************************************************************************)

LEMMA InvInit == Init => IInv
<1> SUFFICES ASSUME Init PROVE IInv
  OBVIOUS
<1>1. /\ now = 1 /\ decision = "open" /\ faults = 0
      /\ lease = [held |-> FALSE, fence |-> 0, expires |-> 0]
      /\ cycle = [w \in Workers |-> Idle] /\ polls = <<>> /\ gens = <<>>
      /\ live = [rows |-> {}, gens |-> {}, polls |-> {}, snaps |-> {}]
      /\ latest = [r \in Refs |-> Absent] /\ active = 0
      /\ replayed = [at |-> 0, retrieved |-> 0] /\ closing = NotClosed /\ prune = Resting
  BY DEF Init
<1>2. RowsInv
  <2>1. polls \in Seq(PollRow) /\ gens \in Seq(Gen) /\ Len(polls) = 0 /\ Len(gens) = 0
    BY <1>1
  <2>2. InFlight = {}
    BY <1>1 DEF InFlight, Flying, Idle
  <2>3. Cardinality(InFlight) = 0
    BY <2>2, FS_EmptySet
  <2> QED
    BY <1>1, <2>1, <2>3 DEF RowsInv
<1>3. VarTypes
  <2>1. 0 \in Times /\ 1 \in Times /\ 0 \in 0..MaxFaults
    BY <1>1, ConstantTypes, BoundsAssumption DEF Times
  <2>2. lease \in Lease
    BY <1>1, ConstantTypes DEF Lease
  <2>3. cycle \in [Workers -> Cycle]
    BY <1>1, IdleIsCycle
  <2>4. live \in Live /\ closing \in [frozen : BOOLEAN, rows : SUBSET RowIds]
    BY <1>1 DEF Live, NotClosed
  <2>5. replayed \in [at : Times, retrieved : Times]
    BY <1>1, <2>1
  <2> QED
    BY <1>1, <2>1, <2>2, <2>3, <2>4, <2>5, RestingType DEF VarTypes
<1>4. TypeOK
  BY <1>2, <1>3, TypeParts
<1>5. DOMAIN polls = {} /\ DOMAIN gens = {}
  BY <1>1
<1>6. HistoryInv
  BY <1>1, <1>5, RestingType DEF HistoryInv
<1>7. PointersResolve
  BY <1>1 DEF PointersResolve, NotClosed
<1>8. FenceInv
  BY <1>5 DEF FenceInv
<1>9. RecoveryInv
  <2>1. \A w \in Workers : cycle[w].ev = None
    BY <1>1, IdleIsCycle
  <2>2. latest[Unmapped] = Absent
    BY <1>1, ConstantTypes
  <2> QED
    BY <1>1, <1>5, <2>1, <2>2 DEF RecoveryInv, Carries
<1> QED
  BY <1>2, <1>4, <1>6, <1>7, <1>8, <1>9 DEF IInv

LEMMA InvStep == IInv /\ [Next]_vars => IInv'
<1> SUFFICES ASSUME IInv, [Next]_vars PROVE IInv'
  OBVIOUS
<1>1. TypeOK /\ RowsInv /\ HistoryInv /\ PointersResolve /\ FenceInv /\ RecoveryInv
  BY DEF IInv
<1>2. TypeOK' /\ RowsInv' /\ HistoryInv'
  BY <1>1, TypeStep, HistoryStep
<1>3. PointersResolve' /\ FenceInv' /\ RecoveryInv'
  BY <1>1, PointersStep, FenceStep, RecoveryStep
<1> QED
  BY <1>2, <1>3 DEF IInv

THEOREM InvHolds == Spec => []IInv
BY InvInit, InvStep, PTL DEF Spec

(* Every row, pointer and counter of the archive keeps its type and its    *)
(* bounds: in particular each cycle writes one poll at most and each poll  *)
(* one generation at most, whatever becomes of its lease.                  *)
THEOREM TypesHold == Spec => []TypeOK
<1>1. IInv => TypeOK
  BY DEF IInv
<1> QED
  BY <1>1, InvHolds, PTL

(* Retention never leaves a Latest line, a closing membership, the active  *)
(* generation or a kept row without what it refers to, however its batches *)
(* interleave with ingestion, mapping replays and freezes.                 *)
THEOREM PointersAlwaysResolve == Spec => []PointersResolve
<1>1. IInv => PointersResolve
  BY DEF IInv
<1> QED
  BY <1>1, InvHolds, PTL

\* A step that moves the active generation.
LEMMA PromotionStep == IInv /\ [Next]_vars => Promotion
<1> SUFFICES ASSUME IInv, [Next]_vars, active' # active, ~gens'[active'].replay,
                    NEW p \in DOMAIN polls
             PROVE  /\ polls[p].promoted => gens'[active'].retrieved > polls[p].ev.retrieved
                    /\ polls[p].ev = None => gens'[active'].retrieved > polls[p].started
  BY DEF Promotion
<1>0. TypeOK /\ RowsInv /\ HistoryInv /\ PointersResolve /\ FenceInv
  BY DEF IInv
<1>1. ~ReplayMapping
  <2> SUFFICES ASSUME ReplayMapping PROVE FALSE
    OBVIOUS
  <2>1. ~UNCHANGED <<archive, replayed>>
    BY DEF archive
  <2>2. PICK gen \in Gen : /\ gens' = Append(gens, gen) /\ gen.replay = TRUE
                           /\ active' = Len(gens) + 1
    BY <1>0, <2>1, ReplayWrites
  <2>3. gens'[active'] = gen
    BY <1>0, <2>2, Appended DEF RowsInv
  <2> QED
    BY <2>2, <2>3
<1>2. PICK w \in Workers : Record(w)
  <2>1. \A w \in Workers : ~CycleSheds(w) /\ ~CycleFetches(w) /\ ~RecordFailed(w)
    BY <1>0, ShedMoves, FetchMoves, FailedMoves
  <2>2. /\ ~UNCHANGED vars /\ ~Tick /\ ~Decide /\ ~BeginPrune /\ ~PruneRows /\ ~PlanParents
        /\ ~PruneParents /\ ~StopPrune
    BY DEF vars, archive, Tick, Decide, BeginPrune, PruneRows, PlanParents, PruneParents, StopPrune
  <2> QED
    BY <1>1, <2>1, <2>2, StepCases
<1>3. cycle[w].pc \in Flying /\ cycle[w].ev # None /\ Persist(w)
  <2>1. /\ cycle[w].pc \in Flying /\ cycle[w].ev # None
        /\ UNCHANGED <<polls, gens, live, latest, active>> \/ Confirm(w) \/ Persist(w)
    BY <1>0, <1>2, RecordMoves
  <2>2. ~Confirm(w)
    BY DEF Confirm
  <2> QED
    BY <2>1, <2>2
<1>4. PICK e \in Evidence : e = cycle[w].ev
  BY <1>0, <1>3, TypeParts DEF VarTypes, Cycle
<1>5. PICK gen \in Gen : /\ gens' = Append(gens, gen) /\ gen.retrieved = cycle[w].ev.retrieved
                         /\ active' = (IF Advances(cycle[w].ev) THEN Len(gens) + 1 ELSE active)
  BY <1>0, <1>3, PersistWrites
<1>6. Advances(cycle[w].ev) /\ active' = Len(gens) + 1
  BY <1>5
<1>7. gens'[active'] = gen
  BY <1>0, <1>5, <1>6, Appended DEF RowsInv
<1>8. Advances(e)
  BY <1>4, <1>6
<1>9. ~Blocked(e.retrieved, polls, replayed)
  BY <1>0, <1>8, AdvancesMeans
<1>10. /\ e.retrieved \in Nat /\ polls[p].started \in Nat
       /\ polls[p].promoted => polls[p].ev.retrieved \in Nat
  BY <1>0, HistoryTypes, EvidenceTypes, ConstantTypes DEF HistoryInv
<1>11. /\ polls[p].promoted => e.retrieved > polls[p].ev.retrieved
       /\ polls[p].ev = None => e.retrieved > polls[p].started
  BY <1>9, <1>10 DEF Blocked
<1> QED
  BY <1>4, <1>5, <1>7, <1>11

(* Promotion follows the order of retrieval although cycles whose lease is *)
(* lost still commit and retention forgets polls: what becomes active is   *)
(* newer than everything ever promoted and every attempt known to have     *)
(* failed, not only than what is left of them.                             *)
THEOREM PromotionInOrder == Spec => PromotedInOrder
BY InvHolds, PromotionStep, PTL DEF Spec, PromotedInOrder

\* A step that takes the athlete's line from Latest.
LEMMA ErasureStep ==
    IInv /\ [Next]_vars =>
        (latest[Unmapped] # Absent /\ latest'[Unmapped] = Absent
            => Unmapped \notin gens'[active'].content.board.refs)
<1> SUFFICES ASSUME IInv, [Next]_vars, latest[Unmapped] # Absent, latest'[Unmapped] = Absent
             PROVE  Unmapped \notin gens'[active'].content.board.refs
  OBVIOUS
<1>0. TypeOK /\ RowsInv /\ HistoryInv /\ PointersResolve /\ FenceInv /\ RecoveryInv
  BY DEF IInv
<1>1. ~ReplayMapping
  <2> SUFFICES ASSUME ReplayMapping PROVE FALSE
    OBVIOUS
  <2>1. ~UNCHANGED <<archive, replayed>>
    BY DEF archive
  <2>2. PICK s \in live.gens : /\ Len(gens) + 1 \in GenIds
                               /\ latest' = [latest EXCEPT ![Unmapped] =
                                     [obs |-> Len(gens) + 1, gen |-> Len(gens) + 1,
                                      conf |-> gens[s].retrieved]]
    BY <1>0, <2>1, ReplayWrites
  <2>3. latest \in [Refs -> LatestRow \cup {Absent}]
    BY <1>0, TypeParts DEF VarTypes
  <2>4. latest'[Unmapped].obs = Len(gens) + 1
    BY <2>2, <2>3, ConstantTypes
  <2> QED
    BY <2>2, <2>4, ConstantTypes DEF Absent
<1>2. PICK w \in Workers : Record(w)
  <2>1. \A w \in Workers : ~CycleSheds(w) /\ ~CycleFetches(w) /\ ~RecordFailed(w)
    BY <1>0, ShedMoves, FetchMoves, FailedMoves
  <2>2. /\ ~UNCHANGED vars /\ ~Tick /\ ~Decide /\ ~BeginPrune /\ ~PruneRows /\ ~PlanParents
        /\ ~PruneParents /\ ~StopPrune
    BY DEF vars, archive, Tick, Decide, BeginPrune, PruneRows, PlanParents, PruneParents, StopPrune
  <2> QED
    BY <1>1, <2>1, <2>2, StepCases
<1>3. cycle[w].pc \in Flying /\ cycle[w].ev # None /\ Persist(w)
  <2>1. /\ cycle[w].pc \in Flying /\ cycle[w].ev # None
        /\ UNCHANGED <<polls, gens, live, latest, active>> \/ Confirm(w) \/ Persist(w)
    BY <1>0, <1>2, RecordMoves
  <2>2. Confirm(w) => \A r \in Refs : latest'[r] = Absent <=> latest[r] = Absent
    BY <1>0, <2>1, ConfirmWrites
  <2>3. ~Confirm(w)
    BY <2>2, ConstantTypes
  <2> QED
    BY <2>1, <2>3
<1>4. PICK e \in Evidence : e = cycle[w].ev
  BY <1>0, <1>3, TypeParts DEF VarTypes, Cycle
<1> DEFINE g == Len(gens) + 1
<1>5. PICK gen \in Gen :
         /\ gens' = Append(gens, gen) /\ gen.content = cycle[w].ev.content /\ g \in GenIds
         /\ latest' = (IF Advances(cycle[w].ev) THEN AdvancedLatest(cycle[w].ev, g) ELSE latest)
         /\ active' = (IF Advances(cycle[w].ev) THEN g ELSE active)
  BY <1>0, <1>3, PersistWrites
<1>6. Advances(cycle[w].ev) /\ active' = g /\ AdvancedLatest(cycle[w].ev, g)[Unmapped] = Absent
  BY <1>5
<1>7. gens'[active'].content = e.content
  BY <1>0, <1>4, <1>5, <1>6, Appended DEF RowsInv
<1>8. Unmapped \notin e.content.board.refs \/ e.content.mapped = FALSE
  BY <1>0, <1>4, <1>5, <1>6, AdvancedTypes
<1>9. ASSUME Unmapped \in e.content.board.refs PROVE FALSE
  <2>1. Carries(cycle[w], FALSE)
    BY <1>3, <1>4, <1>8, <1>9 DEF Carries
  <2>2. Fenced(e.retrieved, polls, replayed)
    BY <1>0, <1>4, <2>1 DEF RecoveryInv
  <2>3. Advances(e)
    BY <1>4, <1>6
  <2>4. ~Blocked(e.retrieved, polls, replayed) /\ ~(e.retrieved < replayed.at)
    BY <1>0, <1>8, <1>9, <2>3, AdvancesMeans
  <2> QED
    BY <2>2, <2>4 DEF Fenced
<1> QED
  BY <1>7, <1>9

(* A line recovered by a mapping decision is not erased by evidence that   *)
(* still carries the unresolved identity, not even by a cycle that fetched *)
(* it before the decision and commits after its lease is lost.             *)
THEOREM RecoveredStays == Spec => RecoveryKept
BY InvHolds, ErasureStep, PTL DEF Spec, RecoveryKept

-----------------------------------------------------------------------------
(***************************************************************************)
(* What a replay reads.                                                    *)
(***************************************************************************)

\* A generation that clears the replayed state, and those a replay starts from.
Resets(g) == gens[g].content.board.complete /\ ~gens[g].replay

Suffix(ids, t) == {g \in Eligible(ids, t) : \A h \in Eligible(ids, t) : Resets(h) => h <= g}

\* Everything promoted since the last Complete board.
History == Suffix(DOMAIN gens, MaxTime)

\* Acceptance: what is recorded was accepted by now, a poll no later than its
\* generation.
AcceptInv ==
    /\ \A w \in Workers : cycle[w].accepted <= now
    /\ \A p \in DOMAIN polls : polls[p].completed <= now
    /\ \A g \in DOMAIN gens : polls[gens[g].poll].completed <= gens[g].created

\* Generations: what a mapping replay holds, whose evidence is promoted, and
\* that the active one is the last of the promoted.
GensInv ==
    /\ \A g \in DOMAIN gens :
          /\ gens[g].replay =>
                gens[g].content = [board |-> [complete |-> FALSE, refs |-> {Unmapped}], mapped |-> TRUE]
          /\ ~gens[g].replay => gens[gens[g].snap].content = gens[g].content
          /\ gens[g].advanced =>
                /\ polls[gens[g].poll].promoted
                /\ polls[gens[g].poll].ev.retrieved = gens[g].retrieved
                /\ active # 0 /\ g <= active
    /\ active # 0 => gens[active].advanced
    /\ live.rows \subseteq Stored

\* Until the game is closed, its rows from the last Complete board before the
\* start on are kept.
KeptInv ==
    ~closing.frozen =>
        \A row \in Stored :
            /\ row[1] \in Suffix(DOMAIN gens, Tip)
            /\ Resets(row[1]) => Targetable(row[1], row[2])
            => row \in live.rows

\* The last Complete board is kept, because a generation that is planned to
\* go is older than the plan.
BaseInv ==
    /\ \A g \in prune.gens : g \in DOMAIN gens /\ gens[g].created <= prune.now
    /\ \A g \in History : Resets(g) => g \in live.gens

\* A Latest line is the last that names its reference.
TracksInv ==
    \A r \in Refs :
        /\ latest[r] = Absent => \A h \in History : ~Targetable(h, r)
        /\ latest[r] # Absent =>
              /\ latest[r].obs \in History /\ Targetable(latest[r].obs, r)
              /\ \A h \in History : h > latest[r].obs => r \notin gens[h].content.board.refs

\* Confirmations are in the order of the observations, but for a line that a
\* mapping replay recovered.
ConfInv ==
    /\ \A r \in Refs : latest[r] # Absent =>
          \E p \in DOMAIN polls : polls[p].promoted /\ latest[r].conf <= polls[p].ev.retrieved
    /\ \A r, q \in Refs :
          latest[r] # Absent /\ latest[q] # Absent /\ (Recovered => Unmapped \notin {r, q}) =>
              /\ latest[r].obs < latest[q].obs => latest[r].conf < latest[q].conf
              /\ latest[r].obs = latest[q].obs => latest[r].conf = latest[q].conf

ReadsInv == AcceptInv /\ GensInv /\ KeptInv /\ BaseInv /\ TracksInv /\ ConfInv

\* Baseline and Replayed, without the maximum.
LEMMA BaselineIs ==
    ASSUME TypeOK, RowsInv, NEW ids \in SUBSET DOMAIN gens, NEW t
    PROVE  LET S == {g \in Eligible(ids, t) : Resets(g)}
           IN  /\ Baseline(ids, t) \in {0} \cup S /\ Baseline(ids, t) \in Nat
               /\ \A g \in S : g <= Baseline(ids, t)
<1> DEFINE S == {g \in Eligible(ids, t) : Resets(g)}
           Z == {0} \cup S
<1>1. Z \subseteq 0 .. Len(gens) /\ Len(gens) \in Nat /\ Z # {} /\ Z \subseteq Nat
  BY HistoryTypes DEF Eligible
<1>2. IsFiniteSet(Z)
  <2>1. IsFiniteSet(0 .. Len(gens))
    BY <1>1, FS_Interval
  <2> HIDE DEF Z
  <2> QED
    BY <1>1, <2>1, FS_Subset
<1>3. Baseline(ids, t) = Max(Z)
  BY Zenon DEF Baseline, Resets
<1>4. Z \subseteq Int => Max(Z) \in Z /\ \A x \in Z : x <= Max(Z)
  <2> HIDE DEF Z
  <2> QED
    BY <1>1, <1>2, MaxOf
<1>5. Z \subseteq Int
  BY <1>1
<1> QED
  BY <1>1, <1>3, <1>4, <1>5

LEMMA ReplayedIs ==
    ASSUME TypeOK, RowsInv, NEW ids \in SUBSET DOMAIN gens, NEW t
    PROVE  /\ Replayed(ids, t) = Suffix(ids, t)
           /\ \A g \in Suffix(ids, t) : g = Baseline(ids, t) <=> Resets(g)
<1> DEFINE base == Baseline(ids, t)
<1>1. /\ base = 0 \/ (base \in Eligible(ids, t) /\ Resets(base))
      /\ base \in Nat /\ \A g \in Eligible(ids, t) : Resets(g) => g <= base
  BY BaselineIs
<1>2. Eligible(ids, t) \subseteq Nat \ {0}
  BY HistoryTypes, ConstantTypes DEF Eligible
<1>3. Replayed(ids, t) = {g \in Eligible(ids, t) : g >= base}
  BY DEF Replayed
<1> HIDE DEF base
<1>4. ASSUME NEW g \in Eligible(ids, t)
      PROVE  g >= base <=> \A h \in Eligible(ids, t) : Resets(h) => h <= g
  BY <1>1, <1>2
<1>5. Replayed(ids, t) = Suffix(ids, t)
  BY <1>3, <1>4 DEF Suffix
<1>6. ASSUME NEW g \in Suffix(ids, t) PROVE g = base <=> Resets(g)
  BY <1>1, <1>2, <1>4 DEF Suffix
<1> QED
  BY <1>5, <1>6 DEF base

\* The effect of every step on what readers see: most steps move no line,
\* and three record something.
Stays ==
    /\ UNCHANGED <<gens, active, latest>>
    /\ DOMAIN polls \subseteq DOMAIN polls' /\ \A p \in DOMAIN polls : polls'[p] = polls[p]
    /\ ~closing'.frozen => ~closing.frozen
    /\ PruneRows \/ live'.rows = live.rows
    /\ PruneParents \/ live'.gens = live.gens
    /\ PlanParents \/ prune'.gens = {} \/ (prune'.gens = prune.gens /\ prune'.now = prune.now)

Records(w) ==
    /\ cycle[w].pc \in Flying /\ cycle[w].ev \in Evidence
    /\ (Confirms(cycle[w].ev) /\ Confirm(w)) \/ Persist(w)
    /\ UNCHANGED <<prune, closing>>

Recovers == ReplayMapping /\ ~UNCHANGED <<archive, replayed>>

LEMMA RecordCases ==
    ASSUME TypeOK, RowsInv, NEW w \in Workers, Record(w)
    PROVE  UNCHANGED archive \/ Records(w)
<1>1. /\ cycle[w].pc \in Flying /\ cycle[w].ev # None /\ UNCHANGED <<prune, closing>>
  BY RecordMoves
<1>2. cycle[w].ev \in Evidence
  BY <1>1, TypeParts DEF VarTypes, Cycle
<1>3. UNCHANGED archive \/ (Confirms(cycle[w].ev) /\ Confirm(w)) \/ Persist(w)
  BY DEF Record
<1> QED
  BY <1>1, <1>2, <1>3, Zenon DEF Records

LEMMA Moves ==
    ASSUME TypeOK, RowsInv, HistoryInv, PointersResolve, [Next]_vars
    PROVE  Stays \/ Recovers \/ \E w \in Workers : Records(w)
<1>0. prune \in Retention /\ live \in Live
  BY TypeParts DEF VarTypes
<1>1. CASE UNCHANGED vars \/ Tick \/ Decide \/ (ReplayMapping /\ UNCHANGED <<archive, replayed>>)
  BY <1>1 DEF vars, archive, Tick, Decide, ReplayMapping, Stays
<1>2. CASE BeginPrune
  <2>1. prune'.gens = {}
    BY <1>2, Zenon DEF BeginPrune, Resting
  <2> QED
    BY <1>2, <2>1 DEF BeginPrune, Stays, archive
<1>3. CASE PruneRows
  <2>1. UNCHANGED <<polls, gens, active, latest, closing>>
    BY <1>3 DEF PruneRows
  <2>2. prune'.gens = prune.gens /\ prune'.now = prune.now
    BY <1>0, <1>3 DEF PruneRows, Retention
  <2>3. PICK doomed : live' = [live EXCEPT !.rows = @ \ doomed]
    BY <1>3, PruneRowsTypes
  <2>4. live'.gens = live.gens
    BY <1>0, <2>3 DEF Live
  <2> QED
    BY <1>3, <2>1, <2>2, <2>4 DEF Stays
<1>4. CASE PlanParents
  BY <1>4 DEF PlanParents, archive, Stays
<1>5. CASE PruneParents
  <2>1. UNCHANGED <<polls, gens, active, latest, closing>>
    BY <1>5 DEF PruneParents
  <2>2. live'.rows = live.rows
    BY <1>5, PruneParentsTypes
  <2>3. prune'.gens = {} \/ (prune'.gens = prune.gens /\ prune'.now = prune.now)
    <3>1. \/ prune' = [prune EXCEPT !.pc = "polls", !.gens = {}, !.named = FALSE]
          \/ prune' = [prune EXCEPT !.pc = "snaps", !.polls = {}]
          \/ prune' = Resting
      BY <1>5, Zenon DEF PruneParents
    <3>2. Resting.gens = {}
      BY DEF Resting
    <3>3. CASE prune' = [prune EXCEPT !.pc = "polls", !.gens = {}, !.named = FALSE]
      BY <1>0, <3>3 DEF Retention
    <3>4. CASE prune' = [prune EXCEPT !.pc = "snaps", !.polls = {}]
      BY <1>0, <3>4 DEF Retention
    <3> QED
      BY <3>1, <3>2, <3>3, <3>4
  <2> QED
    BY <1>5, <2>1, <2>2, <2>3 DEF Stays
<1>6. CASE StopPrune
  <2>1. prune'.gens = {}
    BY <1>6 DEF StopPrune, Resting
  <2> QED
    BY <1>6, <2>1 DEF StopPrune, archive, Stays
<1>7. ASSUME NEW w \in Workers, CycleSheds(w) PROVE Stays
  <2>1. UNCHANGED <<polls, gens, live, latest, active, prune>>
    BY <1>7, ShedMoves
  <2>2. ~closing'.frozen => ~closing.frozen
    BY <1>7 DEF CycleSheds, Begin, FetchFails, Admit, LeaseLost, RecordFault, Freeze
  <2> QED
    BY <2>1, <2>2 DEF Stays
<1>8. ASSUME NEW w \in Workers, CycleFetches(w) PROVE Stays
  BY <1>8, FetchMoves DEF Stays
<1>9. ASSUME NEW w \in Workers, Record(w) PROVE Stays \/ Records(w)
  <2>1. UNCHANGED <<prune, closing>>
    BY <1>9, RecordMoves
  <2> QED
    BY <1>9, <2>1, RecordCases DEF archive, Stays
<1>10. ASSUME NEW w \in Workers, RecordFailed(w) PROVE Stays
  <2>1. UNCHANGED <<gens, latest, active, closing, prune>>
    BY <1>10, FailedMoves
  <2>2. PICK row \in PollRow : /\ polls' = Append(polls, row)
                               /\ live' = [live EXCEPT !.polls = @ \cup {Len(polls) + 1}]
    BY <1>10, FailedMoves
  <2>3. DOMAIN polls \subseteq DOMAIN polls' /\ \A p \in DOMAIN polls : polls'[p] = polls[p]
    BY <2>2, Appended DEF RowsInv
  <2>4. live'.rows = live.rows /\ live'.gens = live.gens
    BY <1>0, <2>2 DEF Live
  <2> QED
    BY <2>1, <2>3, <2>4 DEF Stays
<1>11. CASE ReplayMapping /\ ~UNCHANGED <<archive, replayed>>
  BY <1>11 DEF Recovers
<1> QED
  BY <1>1, <1>2, <1>3, <1>4, <1>5, <1>6, <1>7, <1>8, <1>9, <1>10, <1>11, StepCases

\* A recording appends one poll; a promotion or a replay one generation.
Recording(w, row, gen, snap) ==
    LET g == Len(gens) + 1
        p == Len(polls) + 1
        ev == cycle[w].ev
    IN  /\ polls' = Append(polls, row) /\ gens' = Append(gens, gen)
        /\ row.ev = ev /\ row.promoted = Advances(ev) /\ row.completed = cycle[w].accepted
        /\ gen.content = ev.content /\ gen.retrieved = ev.retrieved /\ gen.replay = FALSE
        /\ gen.created = cycle[w].accepted /\ gen.advanced = Advances(ev)
        /\ snap = (IF active # 0 /\ CurrentContent = ev.content THEN gens[active].snap ELSE g)
        /\ gen.snap = snap /\ gen.poll = p
        /\ live'.rows = live.rows \cup ({g} \X ev.content.board.refs)
        /\ live'.gens = live.gens \cup {g}
        /\ latest' = (IF Advances(ev) THEN AdvancedLatest(ev, g) ELSE latest)
        /\ active' = (IF Advances(ev) THEN g ELSE active)
        /\ DOMAIN gens' = DOMAIN gens \cup {g} /\ g \notin DOMAIN gens /\ gens'[g] = gen
        /\ \A h \in DOMAIN gens : gens'[h] = gens[h] /\ h < g
        /\ DOMAIN polls' = DOMAIN polls \cup {p} /\ p \notin DOMAIN polls /\ polls'[p] = row
        /\ \A q \in DOMAIN polls : polls'[q] = polls[q]
        /\ g \in GenIds

LEMMA PersistShape ==
    ASSUME TypeOK, RowsInv, HistoryInv, PointersResolve,
           NEW w \in Workers, Records(w), Persist(w)
    PROVE  \E row \in PollRow, gen \in Gen, snap \in live.snaps \cup {Len(gens) + 1} :
              Recording(w, row, gen, snap)
<1> DEFINE g == Len(gens) + 1
           n == Len(polls) + 1
           ev == cycle[w].ev
<1>0. ev # None /\ cycle[w].pc \in Flying
  BY EvidenceTypes DEF Records
<1>1. PICK row \in PollRow, gen \in Gen, snap \in live.snaps \cup {g} :
         /\ polls' = Append(polls, row) /\ gens' = Append(gens, gen)
         /\ row.ev = ev /\ row.promoted = Advances(ev) /\ row.completed = cycle[w].accepted
         /\ gen.content = ev.content /\ gen.retrieved = ev.retrieved /\ gen.replay = FALSE
         /\ gen.created = cycle[w].accepted /\ gen.advanced = Advances(ev)
         /\ snap = (IF active # 0 /\ CurrentContent = ev.content THEN gens[active].snap ELSE g)
         /\ gen.snap = snap /\ gen.poll = n
         /\ live' = [rows |-> live.rows \cup ({g} \X ev.content.board.refs),
                     gens |-> live.gens \cup {g}, polls |-> live.polls \cup {n},
                     snaps |-> live.snaps \cup {snap}]
         /\ latest' = (IF Advances(ev) THEN AdvancedLatest(ev, g) ELSE latest)
         /\ active' = (IF Advances(ev) THEN g ELSE active)
         /\ g \in GenIds
  BY <1>0, PersistWrites, ZenonT(60)
<1>2. /\ DOMAIN polls' = DOMAIN polls \cup {n} /\ n \notin DOMAIN polls /\ polls'[n] = row
      /\ \A i \in DOMAIN polls : polls'[i] = polls[i]
  BY <1>1, Appended DEF RowsInv
<1>3. /\ DOMAIN gens' = DOMAIN gens \cup {g} /\ g \notin DOMAIN gens /\ gens'[g] = gen
      /\ \A i \in DOMAIN gens : gens'[i] = gens[i]
  BY <1>1, Appended DEF RowsInv
<1>4. \A i \in DOMAIN gens : i < g
  BY HistoryTypes
<1>5. live'.rows = live.rows \cup ({g} \X ev.content.board.refs) /\ live'.gens = live.gens \cup {g}
  BY <1>1
<1>6. Recording(w, row, gen, snap)
  BY <1>1, <1>2, <1>3, <1>4, <1>5, Zenon DEF Recording
<1> QED
  BY <1>6

\* The same of the mapping replay.
Recovering(gen, s) ==
    LET g == Len(gens) + 1
    IN  /\ gens' = Append(gens, gen)
        /\ gen.retrieved = gens[active].retrieved /\ gen.replay = TRUE
        /\ gen.poll = gens[active].poll
        /\ gen.content = [board |-> [complete |-> FALSE, refs |-> {Unmapped}], mapped |-> TRUE]
        /\ gen.created = now /\ gen.advanced = gens[active].advanced
        /\ active # 0 /\ active \in DOMAIN gens /\ active' = g
        /\ s \in DOMAIN gens /\ gens[s].advanced
        /\ live'.rows = live.rows \cup {<<g, Unmapped>>} /\ live'.gens = live.gens \cup {g}
        /\ latest' = [latest EXCEPT ![Unmapped] =
                        [obs |-> g, gen |-> g, conf |-> gens[s].retrieved]]
        /\ DOMAIN gens' = DOMAIN gens \cup {g} /\ g \notin DOMAIN gens /\ gens'[g] = gen
        /\ \A h \in DOMAIN gens : gens'[h] = gens[h] /\ h < g
        /\ UNCHANGED <<polls, prune, closing, now>>
        /\ g \in GenIds

LEMMA RecoverShape ==
    ASSUME TypeOK, RowsInv, HistoryInv, PointersResolve, Recovers
    PROVE  \E gen \in Gen, s \in live.gens : Recovering(gen, s)
<1> DEFINE g == Len(gens) + 1
<1>0. live \in Live
  BY TypeParts DEF VarTypes
<1>1. PICK gen \in Gen, s \in live.gens :
         /\ active # 0 /\ g \in GenIds
         /\ gens' = Append(gens, gen)
         /\ gen.retrieved = gens[active].retrieved /\ gen.replay = TRUE
         /\ gen.poll = gens[active].poll
         /\ gens[s].advanced
         /\ gen.content = [board |-> [complete |-> FALSE, refs |-> {Unmapped}], mapped |-> TRUE]
         /\ gen.created = now /\ gen.advanced = gens[active].advanced
         /\ live' = [live EXCEPT !.rows = @ \cup {<<g, Unmapped>>}, !.gens = @ \cup {g}]
         /\ latest' = [latest EXCEPT ![Unmapped] =
                         [obs |-> g, gen |-> g, conf |-> gens[s].retrieved]]
         /\ active' = g
  BY ReplayWrites DEF Recovers
<1>2. /\ DOMAIN gens' = DOMAIN gens \cup {g} /\ g \notin DOMAIN gens /\ gens'[g] = gen
      /\ \A i \in DOMAIN gens : gens'[i] = gens[i]
  BY <1>1, Appended DEF RowsInv
<1>3. \A i \in DOMAIN gens : i < g
  BY HistoryTypes
<1>4. live'.rows = live.rows \cup {<<g, Unmapped>>} /\ live'.gens = live.gens \cup {g}
  BY <1>0, <1>1 DEF Live
<1>5. s \in DOMAIN gens /\ active \in DOMAIN gens
  BY <1>1 DEF HistoryInv, PointersResolve
<1>6. UNCHANGED <<polls, prune, closing, now>>
  BY ReplayWrites DEF Recovers
<1>7. Recovering(gen, s)
  BY <1>1, <1>2, <1>3, <1>4, <1>5, <1>6, Zenon DEF Recovering
<1> QED
  BY <1>7

-----------------------------------------------------------------------------
(* Acceptance and generations. *)

LEMMA AcceptStep ==
    ASSUME TypeOK, RowsInv, HistoryInv, PointersResolve, AcceptInv, [Next]_vars
    PROVE  AcceptInv'
<1>0. now \in Nat /\ cycle \in [Workers -> Cycle]
  BY TypeParts, ConstantTypes DEF VarTypes
<1>1. now' \in Nat /\ now <= now'
  <2>1. now' \in Times
    BY TypeStep DEF TypeOK
  <2>2. now' = now \/ now' = now + 1
    <3>1. CASE \/ UNCHANGED vars \/ Tick \/ Decide \/ ReplayMapping
               \/ BeginPrune \/ PruneRows \/ PlanParents \/ PruneParents \/ StopPrune
      BY <3>1 DEF vars, Tick, Decide, ReplayMapping, BeginPrune, PruneRows, PlanParents, PruneParents, StopPrune
    <3>2. ASSUME NEW w \in Workers, CycleSheds(w) \/ CycleFetches(w) \/ Record(w) \/ RecordFailed(w)
          PROVE  now' = now
      BY <3>2, ShedMoves, FetchMoves, RecordMoves, FailedMoves
    <3> QED
      BY <3>1, <3>2, StepCases
  <2> QED
    BY <1>0, <2>1, <2>2, ConstantTypes
<1>2. ASSUME NEW w \in Workers PROVE cycle'[w].accepted \in {cycle[w].accepted, now, 0}
  <2>1. cycle[w] \in Cycle /\ Idle \in Cycle /\ Idle.accepted = 0
    BY <1>0, IdleIsCycle DEF Idle
  <2>2. CASE UNCHANGED cycle
    BY <2>2
  <2>3. ASSUME NEW v \in Workers, NEW c, cycle' = [cycle EXCEPT ![v] = c], c.accepted = 0
        PROVE  cycle'[w].accepted \in {cycle[w].accepted, now, 0}
    BY <1>0, <2>3
  <2>4. ASSUME NEW v \in Workers, NEW pc, Begin(v, pc) PROVE cycle'[w].accepted \in {cycle[w].accepted, now, 0}
    <3> DEFINE c == [Idle EXCEPT !.pc = pc, !.fence = lease.fence + 1,
                                 !.started = IF pc = "polling" THEN now ELSE 0]
    <3>1. cycle' = [cycle EXCEPT ![v] = c]
      BY <2>4, Zenon DEF Begin
    <3>2. c.accepted = 0
      BY DEF Idle
    <3> HIDE DEF c
    <3> QED
      BY <2>3, <3>1, <3>2
  <2>5. ASSUME NEW v \in Workers, NEW b, NEW t, Got(v, b, t)
        PROVE  cycle'[w].accepted = cycle[w].accepted
    BY <1>0, <2>5 DEF Got, Cycle
  <2>6. ASSUME NEW v \in Workers, FetchFails(v) \/ Admit(v) \/ RecordFault(v)
        PROVE  cycle'[w].accepted \in {cycle[w].accepted, now, 0}
    BY <1>0, <2>6 DEF FetchFails, Admit, RecordFault, Cycle
  <2>7. ASSUME NEW v \in Workers, LeaseLost(v) \/ Freeze(v)
        PROVE  cycle'[w].accepted \in {cycle[w].accepted, now, 0}
    BY <2>1, <2>3, <2>7 DEF LeaseLost, Freeze
  <2>8. ASSUME NEW v \in Workers, Record(v) \/ RecordFailed(v)
        PROVE  cycle'[w].accepted \in {cycle[w].accepted, now, 0}
    <3>1. \/ cycle' = [cycle EXCEPT ![v] = Idle]
          \/ cycle' = [cycle EXCEPT ![v] = [Idle EXCEPT !.pc = "closing", !.fence = cycle[v].fence]]
      BY <2>8 DEF Record, RecordFailed, GoesOn
    <3>2. [Idle EXCEPT !.pc = "closing", !.fence = cycle[v].fence].accepted = 0
      BY DEF Idle
    <3> QED
      BY <2>1, <2>3, <3>1, <3>2
  <2>9. CASE \/ UNCHANGED vars \/ Tick \/ Decide \/ ReplayMapping
             \/ BeginPrune \/ PruneRows \/ PlanParents \/ PruneParents \/ StopPrune
    BY <2>2, <2>9 DEF vars, Tick, Decide, ReplayMapping, BeginPrune, PruneRows, PlanParents, PruneParents, StopPrune
  <2>10. ASSUME NEW v \in Workers, CycleSheds(v) \/ CycleFetches(v)
         PROVE  cycle'[w].accepted \in {cycle[w].accepted, now, 0}
    BY <2>4, <2>5, <2>6, <2>7, <2>10 DEF CycleSheds, CycleFetches, Fetch, FetchCached
  <2> QED
    BY <2>8, <2>9, <2>10, StepCases
<1>3. \A w \in Workers : cycle[w].accepted \in Nat /\ cycle[w].accepted <= now
  BY <1>0, ConstantTypes DEF AcceptInv, Cycle
<1>4. \A w \in Workers : cycle'[w].accepted <= now'
  BY <1>0, <1>1, <1>2, <1>3
<1>5. \A p \in DOMAIN polls : polls[p].completed \in Nat /\ polls[p].completed <= now
  BY HistoryTypes, ConstantTypes DEF AcceptInv
<1>6. \A g \in DOMAIN gens : gens[g].poll \in DOMAIN polls /\ polls[gens[g].poll].completed <= gens[g].created
  BY DEF AcceptInv, HistoryInv
<1>7. ASSUME NEW row \in PollRow, NEW w \in Workers,
             polls' = Append(polls, row), row.completed = cycle[w].accepted
      PROVE  /\ \A p \in DOMAIN polls' : polls'[p].completed <= now'
             /\ \A p \in DOMAIN polls : polls'[p] = polls[p]
  <2>1. /\ DOMAIN polls' = DOMAIN polls \cup {Len(polls) + 1} /\ polls'[Len(polls) + 1] = row
        /\ \A i \in DOMAIN polls : polls'[i] = polls[i]
    BY <1>7, Appended DEF RowsInv
  <2> QED
    BY <1>0, <1>1, <1>3, <1>5, <1>7, <2>1
<1>u. CASE UNCHANGED <<gens, polls>>
  BY <1>0, <1>1, <1>4, <1>5, <1>6, <1>u DEF AcceptInv
<1>8. ASSUME UNCHANGED gens, NEW row \in PollRow, NEW w \in Workers,
             polls' = Append(polls, row), row.completed = cycle[w].accepted
      PROVE  AcceptInv'
  BY <1>4, <1>6, <1>7, <1>8 DEF AcceptInv
<1>9. ASSUME NEW w \in Workers, Records(w) PROVE AcceptInv'
  <2>1. CASE Confirm(w)
    <3>1. cycle[w].ev # None
      BY <1>9, EvidenceTypes DEF Records
    <3>2. PICK row \in PollRow : /\ polls' = Append(polls, row) /\ row.completed = cycle[w].accepted
                                /\ UNCHANGED gens
      BY <2>1, <3>1, ConfirmWrites
    <3> QED
      BY <1>8, <3>2
  <2>2. CASE Persist(w)
    <3>1. PICK row \in PollRow, gen \in Gen, snap \in live.snaps \cup {Len(gens) + 1} :
             Recording(w, row, gen, snap)
      BY <1>9, <2>2, PersistShape
    <3> DEFINE g == Len(gens) + 1
               n == Len(polls) + 1
    <3>2. /\ polls' = Append(polls, row) /\ row.completed = cycle[w].accepted
          /\ gen.created = cycle[w].accepted /\ gen.poll = n /\ row \in PollRow
          /\ DOMAIN gens' = DOMAIN gens \cup {g} /\ gens'[g] = gen
          /\ \A h \in DOMAIN gens : gens'[h] = gens[h]
          /\ polls'[n] = row
      BY <3>1 DEF Recording
    <3> HIDE DEF g, n
    <3>3. /\ \A p \in DOMAIN polls' : polls'[p].completed <= now'
          /\ \A p \in DOMAIN polls : polls'[p] = polls[p]
      BY <1>7, <3>2
    <3>4. polls'[gens'[g].poll].completed <= gens'[g].created
      <4>1. polls'[gens'[g].poll] = row /\ gens'[g].created = row.completed
        BY <3>2
      <4>2. row.completed \in Nat
        BY <1>3, <3>2
      <4> QED
        BY <4>1, <4>2
    <3>5. \A h \in DOMAIN gens' : polls'[gens'[h].poll].completed <= gens'[h].created
      BY <1>6, <3>2, <3>3, <3>4, ZenonT(60)
    <3> QED
      BY <1>4, <3>3, <3>5 DEF AcceptInv
  <2> QED
    BY <1>9, <2>1, <2>2 DEF Records
<1>10. CASE Recovers
  <2>1. PICK gen \in Gen, s \in live.gens : Recovering(gen, s)
    BY <1>10, RecoverShape
  <2> DEFINE g == Len(gens) + 1
  <2>2. /\ UNCHANGED polls /\ active \in DOMAIN gens /\ gen.poll = gens[active].poll /\ gen.created = now
        /\ DOMAIN gens' = DOMAIN gens \cup {g} /\ gens'[g] = gen
        /\ \A h \in DOMAIN gens : gens'[h] = gens[h]
    BY <2>1 DEF Recovering
  <2> HIDE DEF g
  <2>3. /\ \A p \in DOMAIN polls' : polls'[p].completed <= now'
    BY <1>0, <1>1, <1>5, <2>2
  <2>4. \A h \in DOMAIN gens' : polls'[gens'[h].poll].completed <= gens'[h].created
    BY <1>5, <1>6, <2>2
  <2> QED
    BY <1>4, <2>3, <2>4 DEF AcceptInv
<1>11. CASE ~Recovers /\ ~\E w \in Workers : Records(w)
  <2>1. UNCHANGED gens
    BY <1>11, Moves DEF Stays
  <2>2. ASSUME NEW w \in Workers, Record(w) PROVE UNCHANGED polls
    BY <1>11, <2>2, RecordCases DEF archive
  <2>3. CASE \/ UNCHANGED vars \/ Tick \/ Decide \/ ReplayMapping
             \/ BeginPrune \/ PruneRows \/ PlanParents \/ PruneParents \/ StopPrune
    BY <1>u, <1>11, <2>1, <2>3 DEF vars, archive, Tick, Decide, ReplayMapping, Recovers,
       BeginPrune, PruneRows, PlanParents, PruneParents, StopPrune
  <2>4. ASSUME NEW w \in Workers, CycleSheds(w) \/ CycleFetches(w) \/ Record(w)
        PROVE  AcceptInv'
    BY <1>u, <2>1, <2>2, <2>4, ShedMoves, FetchMoves
  <2>5. ASSUME NEW w \in Workers, RecordFailed(w) PROVE AcceptInv'
    <3>1. PICK row \in PollRow : polls' = Append(polls, row) /\ row.completed = cycle[w].accepted
      BY <2>5, FailedMoves
    <3> QED
      BY <1>8, <2>1, <3>1
  <2> QED
    BY <2>3, <2>4, <2>5, StepCases
<1> QED
  BY <1>9, <1>10, <1>11

LEMMA GensStep ==
    ASSUME TypeOK, RowsInv, HistoryInv, PointersResolve, GensInv, [Next]_vars
    PROVE  GensInv'
<1>0. /\ DOMAIN gens \subseteq GenIds /\ DOMAIN gens = 1 .. Len(gens) /\ Len(gens) \in Nat
      /\ \A g \in DOMAIN gens : gens[g].poll \in DOMAIN polls /\ gens[g].snap \in DOMAIN gens
      /\ active # 0 => active \in DOMAIN gens
      /\ live.rows \subseteq RowIds
  BY HistoryTypes, TypeParts DEF HistoryInv, PointersResolve, VarTypes, Live
<1>g. /\ \A g \in DOMAIN gens :
            /\ gens[g].replay =>
                  gens[g].content = [board |-> [complete |-> FALSE, refs |-> {Unmapped}], mapped |-> TRUE]
            /\ ~gens[g].replay => gens[gens[g].snap].content = gens[g].content
            /\ gens[g].advanced =>
                  /\ polls[gens[g].poll].promoted
                  /\ polls[gens[g].poll].ev.retrieved = gens[g].retrieved
                  /\ active # 0 /\ g <= active
      /\ active # 0 => gens[active].advanced
      /\ \A row \in live.rows : row[1] \in DOMAIN gens /\ row[2] \in gens[row[1]].content.board.refs
  BY DEF GensInv, Stored
<1>r. live'.rows \subseteq RowIds
  BY TypeStep, TypeParts DEF VarTypes, Live
<1>1. CASE Stays
  <2>1. /\ UNCHANGED <<gens, active>> /\ DOMAIN polls \subseteq DOMAIN polls'
        /\ \A p \in DOMAIN polls : polls'[p] = polls[p]
    BY <1>1 DEF Stays
  <2>2. live'.rows \subseteq live.rows
    <3>1. CASE PruneRows
      <4>1. PICK doomed : live' = [live EXCEPT !.rows = @ \ doomed]
        BY <3>1, PruneRowsTypes
      <4> QED
        BY <4>1, TypeParts DEF VarTypes, Live
    <3> QED
      BY <1>1, <3>1 DEF Stays
  <2>3. live'.rows \subseteq Stored'
    BY <1>g, <1>r, <2>1, <2>2 DEF Stored
  <2> QED
    BY <1>0, <1>g, <2>1, <2>3, ZenonT(30) DEF GensInv
<1>2. ASSUME NEW w \in Workers, Records(w), Confirm(w) PROVE GensInv'
  <2>1. cycle[w].ev # None
    BY <1>2, EvidenceTypes DEF Records
  <2>2. PICK row \in PollRow : /\ polls' = Append(polls, row) /\ UNCHANGED <<gens, active>>
                              /\ live' = [live EXCEPT !.polls = @ \cup {Len(polls) + 1}]
    BY <1>2, <2>1, ConfirmWrites
  <2>3. \A p \in DOMAIN polls : polls'[p] = polls[p]
    BY <2>2, Appended DEF RowsInv
  <2>4. live'.rows = live.rows
    BY <2>2, TypeParts DEF VarTypes, Live
  <2>5. live'.rows \subseteq Stored'
    BY <1>g, <1>r, <2>2, <2>4 DEF Stored
  <2> QED
    BY <1>0, <1>g, <2>2, <2>3, <2>5, ZenonT(60) DEF GensInv
<1>3. ASSUME NEW w \in Workers, Records(w), Persist(w) PROVE GensInv'
  <2> DEFINE g == Len(gens) + 1
             n == Len(polls) + 1
             ev == cycle[w].ev
  <2>1. PICK row \in PollRow, gen \in Gen, snap \in live.snaps \cup {g} : Recording(w, row, gen, snap)
    BY <1>3, PersistShape
  <2>2. /\ row.ev = ev /\ row.promoted = Advances(ev)
        /\ gen.content = ev.content /\ gen.retrieved = ev.retrieved /\ gen.replay = FALSE
        /\ gen.advanced = Advances(ev)
        /\ snap = (IF active # 0 /\ CurrentContent = ev.content THEN gens[active].snap ELSE g)
        /\ gen.snap = snap /\ gen.poll = n
        /\ live'.rows = live.rows \cup ({g} \X ev.content.board.refs)
        /\ active' = (IF Advances(ev) THEN g ELSE active)
        /\ DOMAIN gens' = DOMAIN gens \cup {g} /\ g \notin DOMAIN gens /\ gens'[g] = gen
        /\ \A h \in DOMAIN gens : gens'[h] = gens[h] /\ h < g
        /\ polls'[n] = row /\ \A q \in DOMAIN polls : polls'[q] = polls[q]
        /\ g \in GenIds
    BY <2>1 DEF Recording
  <2> HIDE DEF g, n, ev
  <2>3. g \in Nat \ {0}
    BY <2>2, ConstantTypes
  <2>4. gens'[gen.snap].content = gen.content
    <3>1. CASE active # 0 /\ CurrentContent = ev.content
      <4>1. gen.snap = gens[active].snap /\ gens[active].snap \in DOMAIN gens
        BY <1>0, <2>2, <3>1
      <4>2. gens[gens[active].snap].content = ev.content
        BY <3>1 DEF CurrentContent
      <4> QED
        BY <2>2, <4>1, <4>2
    <3>2. CASE ~(active # 0 /\ CurrentContent = ev.content)
      BY <2>2, <3>2
    <3> QED
      BY <3>1, <3>2
  <2>5. ASSUME NEW h \in DOMAIN gens
        PROVE  /\ gens'[h].replay =>
                     gens'[h].content = [board |-> [complete |-> FALSE, refs |-> {Unmapped}], mapped |-> TRUE]
               /\ ~gens'[h].replay => gens'[gens'[h].snap].content = gens'[h].content
               /\ gens'[h].advanced =>
                     /\ polls'[gens'[h].poll].promoted
                     /\ polls'[gens'[h].poll].ev.retrieved = gens'[h].retrieved
                     /\ active' # 0 /\ h <= active'
    <3>1. /\ gens'[h] = gens[h] /\ gens'[gens[h].snap] = gens[gens[h].snap] /\ h < g
          /\ polls'[gens[h].poll] = polls[gens[h].poll] /\ h \in Nat
      BY <1>0, <2>2
    <3>2. gens[h].advanced => active' # 0 /\ h <= active'
      <4>1. active' = g \/ active' = active
        BY <2>2
      <4>2. g # 0 /\ h <= g
        BY <2>3, <3>1
      <4>3. gens[h].advanced => active # 0 /\ h <= active
        BY <1>g
      <4> QED
        BY <4>1, <4>2, <4>3
    <3>3. /\ gens[h].replay =>
                  gens[h].content = [board |-> [complete |-> FALSE, refs |-> {Unmapped}], mapped |-> TRUE]
          /\ ~gens[h].replay => gens[gens[h].snap].content = gens[h].content
          /\ gens[h].advanced =>
                  /\ polls[gens[h].poll].promoted
                  /\ polls[gens[h].poll].ev.retrieved = gens[h].retrieved
      BY <1>g, Zenon
    <3> QED
      BY <3>1, <3>2, <3>3, Zenon
  <2>6. /\ gens'[g].replay = FALSE /\ gens'[gens'[g].snap].content = gens'[g].content
        /\ gens'[g].advanced =>
              /\ polls'[gens'[g].poll].promoted
              /\ polls'[gens'[g].poll].ev.retrieved = gens'[g].retrieved
              /\ active' # 0 /\ g <= active'
    BY <2>2, <2>3, <2>4
  <2>7. active' # 0 => gens'[active'].advanced
    BY <1>0, <1>g, <2>2
  <2>8. live'.rows \subseteq Stored'
    <3>1. ASSUME NEW x \in live'.rows
          PROVE  x[1] \in DOMAIN gens' /\ x[2] \in gens'[x[1]].content.board.refs
      BY <1>g, <2>2, <3>1
    <3> QED
      BY <1>r, <3>1 DEF Stored
  <2>9. \A h \in DOMAIN gens' :
          /\ gens'[h].replay =>
                     gens'[h].content = [board |-> [complete |-> FALSE, refs |-> {Unmapped}], mapped |-> TRUE]
          /\ ~gens'[h].replay => gens'[gens'[h].snap].content = gens'[h].content
          /\ gens'[h].advanced =>
                     /\ polls'[gens'[h].poll].promoted
                     /\ polls'[gens'[h].poll].ev.retrieved = gens'[h].retrieved
                     /\ active' # 0 /\ h <= active'
    BY <2>2, <2>5, <2>6
  <2> QED
    BY <2>7, <2>8, <2>9 DEF GensInv
<1>4. CASE Recovers
  <2> DEFINE g == Len(gens) + 1
  <2>1. PICK gen \in Gen, s \in live.gens : Recovering(gen, s)
    BY <1>4, RecoverShape
  <2>2. /\ gen.retrieved = gens[active].retrieved /\ gen.replay = TRUE
        /\ gen.poll = gens[active].poll
        /\ gen.content = [board |-> [complete |-> FALSE, refs |-> {Unmapped}], mapped |-> TRUE]
        /\ gen.advanced = gens[active].advanced
        /\ active # 0 /\ active \in DOMAIN gens /\ active' = g
        /\ live'.rows = live.rows \cup {<<g, Unmapped>>}
        /\ DOMAIN gens' = DOMAIN gens \cup {g} /\ gens'[g] = gen
        /\ \A h \in DOMAIN gens : gens'[h] = gens[h] /\ h < g
        /\ UNCHANGED polls /\ g \in GenIds
    BY <2>1 DEF Recovering
  <2> HIDE DEF g
  <2>3. g \in Nat \ {0}
    BY <2>2, ConstantTypes
  <2>4. ASSUME NEW h \in DOMAIN gens
        PROVE  /\ gens'[h] = gens[h] /\ gens'[gens[h].snap] = gens[gens[h].snap]
               /\ h <= active' /\ active' # 0
    BY <1>0, <2>2, <2>3
  <2>5. live'.rows \subseteq Stored'
    <3>1. ASSUME NEW x \in live'.rows
          PROVE  x[1] \in DOMAIN gens' /\ x[2] \in gens'[x[1]].content.board.refs
      BY <1>g, <2>2, <3>1
    <3> QED
      BY <1>r, <3>1 DEF Stored
  <2>6. \A h \in DOMAIN gens' :
          /\ gens'[h].replay =>
                     gens'[h].content = [board |-> [complete |-> FALSE, refs |-> {Unmapped}], mapped |-> TRUE]
          /\ ~gens'[h].replay => gens'[gens'[h].snap].content = gens'[h].content
          /\ gens'[h].advanced =>
                     /\ polls'[gens'[h].poll].promoted
                     /\ polls'[gens'[h].poll].ev.retrieved = gens'[h].retrieved
                     /\ active' # 0 /\ h <= active'
    <3>1. ASSUME NEW h \in DOMAIN gens
          PROVE  /\ gens'[h].replay =>
                     gens'[h].content = [board |-> [complete |-> FALSE, refs |-> {Unmapped}], mapped |-> TRUE]
                 /\ ~gens'[h].replay => gens'[gens'[h].snap].content = gens'[h].content
                 /\ gens'[h].advanced =>
                     /\ polls'[gens'[h].poll].promoted
                     /\ polls'[gens'[h].poll].ev.retrieved = gens'[h].retrieved
                     /\ active' # 0 /\ h <= active'
      <4>1. /\ gens[h].replay =>
                  gens[h].content = [board |-> [complete |-> FALSE, refs |-> {Unmapped}], mapped |-> TRUE]
            /\ ~gens[h].replay => gens[gens[h].snap].content = gens[h].content
            /\ gens[h].advanced =>
                  /\ polls[gens[h].poll].promoted
                  /\ polls[gens[h].poll].ev.retrieved = gens[h].retrieved
        BY <1>g, Zenon
      <4>2. /\ gens'[h] = gens[h] /\ gens'[gens[h].snap] = gens[gens[h].snap]
            /\ h <= active' /\ active' # 0 /\ UNCHANGED polls
        BY <2>2, <2>4
      <4> QED
        BY <4>1, <4>2, Zenon
    <3>2. /\ gens'[g].content = [board |-> [complete |-> FALSE, refs |-> {Unmapped}], mapped |-> TRUE]
          /\ gens'[g].replay = TRUE
      BY <2>2
    <3>3. gens'[g].advanced =>
             /\ polls'[gens'[g].poll].promoted
             /\ polls'[gens'[g].poll].ev.retrieved = gens'[g].retrieved
      BY <1>g, <2>2
    <3>4. active' # 0 /\ g <= active'
      BY <2>2, <2>3
    <3> QED
      BY <2>2, <3>1, <3>2, <3>3, <3>4
  <2>7. gens'[active'].advanced
    BY <1>g, <2>2
  <2> QED
    BY <2>5, <2>6, <2>7 DEF GensInv
<1> QED
  BY <1>1, <1>2, <1>3, <1>4, Moves DEF Records

-----------------------------------------------------------------------------
(* The rows that the closing replay reads. *)

\* What a replay of everything reads grows with the history, until a Complete
\* board clears it.
LEMMA SuffixStays ==
    ASSUME TypeOK, RowsInv, HistoryInv, NEW t \in Int, UNCHANGED gens,
           \A q \in DOMAIN polls : polls'[q] = polls[q]
    PROVE  Suffix(DOMAIN gens, t)' = Suffix(DOMAIN gens, t)
<1>1. \A h \in DOMAIN gens : gens[h].poll \in DOMAIN polls
  BY DEF HistoryInv
<1>2. Eligible(DOMAIN gens, t)' = Eligible(DOMAIN gens, t)
  BY <1>1 DEF Eligible
<1> QED
  BY <1>2 DEF Suffix, Resets

LEMMA SuffixGrows ==
    ASSUME TypeOK, RowsInv, HistoryInv, NEW t \in Int, NEW g \in Nat,
           DOMAIN gens' = DOMAIN gens \cup {g}, g \notin DOMAIN gens,
           \A h \in DOMAIN gens : gens'[h] = gens[h] /\ h < g,
           \A q \in DOMAIN polls : polls'[q] = polls[q]
    PROVE  LET new == gens'[g].advanced /\ polls'[gens'[g].poll].completed <= t
           IN  /\ g \in Suffix(DOMAIN gens, t)' <=> new
               /\ \A h \in DOMAIN gens :
                     h \in Suffix(DOMAIN gens, t)'
                        <=> h \in Suffix(DOMAIN gens, t) /\ ~(new /\ Resets(g)')
               /\ \A h \in DOMAIN gens : Resets(h)' <=> Resets(h)
<1> DEFINE new == gens'[g].advanced /\ polls'[gens'[g].poll].completed <= t
           old == Eligible(DOMAIN gens, t)
<1>1. \A h \in DOMAIN gens : gens[h].poll \in DOMAIN polls /\ h \in Nat
  BY HistoryTypes DEF HistoryInv
<1>2. Eligible(DOMAIN gens, t)' = old \cup {h \in {g} : new}
  BY <1>1 DEF Eligible
<1>3. old \subseteq DOMAIN gens
  BY DEF Eligible
<1>4. \A h \in DOMAIN gens : Resets(h)' <=> Resets(h)
  BY DEF Resets
<1>5. Suffix(DOMAIN gens, t) = {f \in old : \A h \in old : Resets(h) => h <= f}
  BY DEF Suffix
<1>6. Suffix(DOMAIN gens, t)' =
        {f \in old \cup {h \in {g} : new} : \A h \in old \cup {k \in {g} : new} : Resets(h)' => h <= f}
  BY <1>2 DEF Suffix
<1> HIDE DEF old, new
<1>7. g \in Suffix(DOMAIN gens, t)' <=> new
  <2>1. \A h \in old \cup {k \in {g} : new} : h <= g
    BY <1>1, <1>3
  <2>2. g \in old \cup {k \in {g} : new} <=> new
    BY <1>3
  <2> QED
    BY <1>6, <2>1, <2>2
<1>8. ASSUME NEW f \in DOMAIN gens
      PROVE  f \in Suffix(DOMAIN gens, t)' <=> f \in Suffix(DOMAIN gens, t) /\ ~(new /\ Resets(g)')
  <2>1. f \in Nat /\ f < g /\ ~(g <= f) /\ f # g
    BY <1>1
  <2>2. f \in Suffix(DOMAIN gens, t)' <=>
          /\ f \in old
          /\ \A h \in old : Resets(h)' => h <= f
          /\ new => ~Resets(g)'
    BY <1>6, <2>1
  <2> QED
    BY <1>3, <1>4, <1>5, <2>2
<1> QED
  BY <1>4, <1>7, <1>8 DEF new

LEMMA KeptStep ==
    ASSUME TypeOK, RowsInv, HistoryInv, PointersResolve, AcceptInv, KeptInv, [Next]_vars
    PROVE  KeptInv'
<1>0. /\ DOMAIN gens \subseteq Nat /\ live.rows \subseteq RowIds /\ live.gens \subseteq DOMAIN gens
      /\ Tip \in Nat /\ Window \in Nat /\ prune.now \in Nat /\ Tip \in Int
  <2>1. DOMAIN gens \subseteq Nat /\ live.gens \subseteq DOMAIN gens
    BY HistoryTypes, ConstantTypes DEF HistoryInv
  <2>2. live.rows \subseteq RowIds /\ prune.now \in Times
    BY TypeParts DEF VarTypes, Live, Retention
  <2>3. Tip \in Nat /\ Window \in Nat /\ prune.now \in Nat
    BY <2>2, ConstantTypes
  <2>4. Tip \in Int
    BY <2>3
  <2> QED
    BY <2>1, <2>2, <2>3, <2>4
<1> DEFINE Held(row) == /\ row[1] \in Suffix(DOMAIN gens, Tip)
                        /\ Resets(row[1]) => Targetable(row[1], row[2])
<1>i. ~closing.frozen => \A row \in Stored : Held(row) => row \in live.rows
  BY DEF KeptInv
<1>g. KeptInv' <=> (~closing'.frozen => \A row \in Stored' : Held(row)' => row \in live'.rows)
  BY DEF KeptInv
<1>1. CASE Stays /\ ~closing'.frozen
  <2>1. UNCHANGED gens /\ (\A p \in DOMAIN polls : polls'[p] = polls[p]) /\ ~closing.frozen
    BY <1>1 DEF Stays
  <2>2. Suffix(DOMAIN gens, Tip)' = Suffix(DOMAIN gens, Tip)
    BY <1>0, <2>1, SuffixStays
  <2>3. Stored' = Stored
    BY <2>1 DEF Stored
  <2>4. ASSUME NEW row \in Stored', Held(row)' PROVE row \in Stored /\ Held(row)
    BY <2>1, <2>2, <2>3, <2>4 DEF Resets, Targetable
  <2>5. CASE live'.rows = live.rows
    BY <1>g, <1>i, <2>1, <2>4, <2>5
  <2>6. CASE PruneRows
    <3>1. PICK doomed : /\ live' = [live EXCEPT !.rows = @ \ doomed]
                        /\ doomed \subseteq RowsAhead /\ doomed \cap NeededRows(prune.now) = {}
      BY <2>6, Zenon DEF PruneRows
    <3>2. live'.rows = live.rows \ doomed
      BY <3>1, TypeParts DEF VarTypes, Live
    <3>3. ASSUME NEW row \in doomed, row \in Stored, Held(row) PROVE FALSE
      <4>1. row \in live.rows /\ Expired(row)
        BY <3>1, <3>3 DEF RowsAhead
      <4>2. row[1] \in live.gens /\ row[1] \in DOMAIN gens
        BY <1>0, <4>1 DEF PointersResolve
      <4> DEFINE g == row[1]
                 at == polls[gens[g].poll].completed
      <4>3. at \in Nat /\ gens[g].created \in Nat /\ at <= gens[g].created
        BY <4>2, HistoryTypes, ConstantTypes DEF AcceptInv, HistoryInv
      <4>4. gens[g].advanced /\ at <= Tip
        BY <3>3 DEF Suffix, Eligible
      <4>5. at <= prune.now
        <5>1. gens[g].created < Cutoff
          BY <4>1 DEF Expired, OlderThan
        <5>2. Cutoff = prune.now - Window
          BY DEF Cutoff
        <5> HIDE DEF g, at
        <5> QED
          BY <1>0, <4>3, <5>1, <5>2
      <4>6. ASSUME NEW u \in Int, at <= u, u <= Tip PROVE row \in RuleRows(u)
        <5>1. g \in Suffix(live.gens, u)
          <6>1. g \in Eligible(live.gens, u)
            BY <4>2, <4>4, <4>6 DEF Eligible
          <6>2. ASSUME NEW h \in Eligible(live.gens, u) PROVE h \in Eligible(DOMAIN gens, Tip)
            <7>1. h \in DOMAIN gens /\ gens[h].advanced /\ polls[gens[h].poll].completed <= u
              BY <1>0, <6>2 DEF Eligible
            <7>2. polls[gens[h].poll].completed \in Nat
              BY <7>1, HistoryTypes, ConstantTypes DEF HistoryInv
            <7> QED
              BY <1>0, <4>6, <7>1, <7>2 DEF Eligible
          <6> QED
            BY <3>3, <6>1, <6>2 DEF Suffix
        <5>2. /\ Replayed(live.gens, u) = Suffix(live.gens, u)
              /\ \A h \in Suffix(live.gens, u) : h = Baseline(live.gens, u) <=> Resets(h)
          BY <1>0, ReplayedIs
        <5>3. g = Baseline(live.gens, u) => Targetable(row[1], row[2])
          BY <3>3, <5>1, <5>2
        <5> QED
          BY <4>1, <5>1, <5>2, <5>3 DEF RuleRows
      <4> HIDE DEF at, g
      <4>7. row \in NeededRows(prune.now)
        <5>1. \A u \in RuleTimes(prune.now, TRUE) : RuleRows(u) \subseteq NeededRows(prune.now)
          BY <2>1 DEF NeededRows
        <5>2. CASE prune.now >= Tip
          BY <1>0, <2>1, <4>3, <4>4, <4>6, <5>1, <5>2 DEF RuleTimes
        <5>3. CASE ~(prune.now >= Tip)
          BY <1>0, <4>3, <4>5, <4>6, <5>1, <5>3 DEF RuleTimes
        <5> QED
          BY <5>2, <5>3
      <4> QED
        BY <3>1, <3>3, <4>7
    <3> HIDE DEF Held
    <3> QED
      BY <1>g, <1>i, <2>1, <2>4, <3>2, <3>3
  <2> QED
    BY <1>1, <2>5, <2>6 DEF Stays
<1>2. ASSUME NEW w \in Workers, Records(w), Confirm(w), ~closing'.frozen PROVE KeptInv'
  <2>1. cycle[w].ev # None /\ ~closing.frozen
    BY <1>2, EvidenceTypes DEF Records
  <2>2. PICK new \in PollRow : /\ polls' = Append(polls, new) /\ UNCHANGED <<gens, active>>
                              /\ live' = [live EXCEPT !.polls = @ \cup {Len(polls) + 1}]
    BY <1>2, <2>1, ConfirmWrites
  <2>3. \A p \in DOMAIN polls : polls'[p] = polls[p]
    BY <2>2, Appended DEF RowsInv
  <2>4. live'.rows = live.rows
    BY <2>2, TypeParts DEF VarTypes, Live
  <2>5. Suffix(DOMAIN gens, Tip)' = Suffix(DOMAIN gens, Tip)
    BY <1>0, <2>2, <2>3, SuffixStays
  <2>6. Stored' = Stored
    BY <2>2 DEF Stored
  <2>7. ASSUME NEW row \in Stored', Held(row)' PROVE row \in Stored /\ Held(row)
    BY <2>2, <2>5, <2>6, <2>7 DEF Resets, Targetable
  <2> QED
    BY <1>g, <1>i, <2>1, <2>4, <2>7
<1>3. ASSUME NEW g \in GenIds, ~closing'.frozen, ~closing.frozen,
             DOMAIN gens' = DOMAIN gens \cup {g}, g \notin DOMAIN gens,
             \A h \in DOMAIN gens : gens'[h] = gens[h] /\ h < g,
             \A q \in DOMAIN polls : polls'[q] = polls[q],
             live'.rows = live.rows \cup ({g} \X gens'[g].content.board.refs)
      PROVE  KeptInv'
  <2>1. g \in Nat
    BY <1>3, ConstantTypes
  <2>2. /\ \A h \in DOMAIN gens : h \in Suffix(DOMAIN gens, Tip)' => h \in Suffix(DOMAIN gens, Tip)
        /\ \A h \in DOMAIN gens : Resets(h)' <=> Resets(h)
    BY <1>0, <1>3, <2>1, SuffixGrows
  <2>3. ASSUME NEW row \in Stored', Held(row)' PROVE row \in live'.rows
    <3>1. CASE row[1] = g
      <4>1. row \in RowIds /\ row[2] \in gens'[g].content.board.refs
        BY <2>3, <3>1 DEF Stored
      <4>2. row = <<row[1], row[2]>>
        BY <4>1 DEF RowIds
      <4> QED
        BY <1>3, <3>1, <4>1, <4>2
    <3>2. CASE row[1] # g
      <4>1. row[1] \in DOMAIN gens /\ gens'[row[1]] = gens[row[1]]
        BY <1>3, <2>3, <3>2 DEF Stored
      <4>2. row \in Stored
        BY <2>3, <4>1 DEF Stored
      <4>3. Held(row)
        BY <2>2, <2>3, <4>1 DEF Targetable
      <4> QED
        BY <1>3, <1>i, <4>2, <4>3
    <3> QED
      BY <3>1, <3>2
  <2> QED
    BY <1>g, <2>3
<1>4. ASSUME NEW w \in Workers, Records(w), Persist(w), ~closing'.frozen PROVE KeptInv'
  <2> DEFINE g == Len(gens) + 1
  <2>1. PICK row \in PollRow, gen \in Gen, snap \in live.snaps \cup {g} : Recording(w, row, gen, snap)
    BY <1>4, PersistShape
  <2>2. /\ gen.content = cycle[w].ev.content
        /\ live'.rows = live.rows \cup ({g} \X cycle[w].ev.content.board.refs)
        /\ DOMAIN gens' = DOMAIN gens \cup {g} /\ g \notin DOMAIN gens /\ gens'[g] = gen
        /\ \A h \in DOMAIN gens : gens'[h] = gens[h] /\ h < g
        /\ \A q \in DOMAIN polls : polls'[q] = polls[q]
        /\ g \in GenIds
    BY <2>1 DEF Recording
  <2>3. ~closing.frozen
    BY <1>4 DEF Records
  <2> HIDE DEF g
  <2> QED
    BY <1>3, <1>4, <2>2, <2>3
<1>5. CASE Recovers /\ ~closing'.frozen
  <2> DEFINE g == Len(gens) + 1
  <2>1. PICK gen \in Gen, s \in live.gens : Recovering(gen, s)
    BY <1>5, RecoverShape
  <2>2. /\ gen.content = [board |-> [complete |-> FALSE, refs |-> {Unmapped}], mapped |-> TRUE]
        /\ live'.rows = live.rows \cup {<<g, Unmapped>>}
        /\ DOMAIN gens' = DOMAIN gens \cup {g} /\ g \notin DOMAIN gens /\ gens'[g] = gen
        /\ \A h \in DOMAIN gens : gens'[h] = gens[h] /\ h < g
        /\ UNCHANGED <<polls, closing>> /\ g \in GenIds
    BY <2>1 DEF Recovering
  <2> HIDE DEF g
  <2>3. live'.rows = live.rows \cup ({g} \X gens'[g].content.board.refs)
    BY <2>2
  <2> QED
    BY <1>3, <1>5, <2>2, <2>3
<1>6. CASE closing'.frozen
  BY <1>g, <1>6
<1> QED
  BY <1>1, <1>2, <1>4, <1>5, <1>6, Moves DEF Records

LEMMA BaseStep ==
    ASSUME TypeOK, RowsInv, HistoryInv, PointersResolve, AcceptInv, BaseInv, [Next]_vars
    PROVE  BaseInv'
<1>0. /\ DOMAIN gens \subseteq Nat \ {0} /\ live.gens \subseteq DOMAIN gens
      /\ Window \in Nat /\ MaxTime \in Nat /\ prune.now \in Nat
      /\ \A g \in DOMAIN gens : gens[g].created \in Nat
  <2>1. /\ DOMAIN gens \subseteq Nat \ {0} /\ live.gens \subseteq DOMAIN gens
        /\ \A g \in DOMAIN gens : gens[g].created \in Nat
    BY HistoryTypes, ConstantTypes DEF HistoryInv
  <2>2. prune.now \in Times
    BY TypeParts DEF VarTypes, Retention
  <2> QED
    BY <2>1, <2>2, ConstantTypes
<1>i. /\ \A g \in prune.gens : g \in DOMAIN gens /\ gens[g].created <= prune.now
      /\ \A g \in History : Resets(g) => g \in live.gens
  BY DEF BaseInv
<1>1. CASE Stays
  <2>1. UNCHANGED gens /\ (\A p \in DOMAIN polls : polls'[p] = polls[p])
    BY <1>1 DEF Stays
  <2>2. History' = History
    BY <1>0, <2>1, SuffixStays DEF History
  <2>3. \A g : Resets(g)' <=> Resets(g)
    BY <2>1 DEF Resets
  <2>4. \A g \in prune'.gens : g \in DOMAIN gens /\ gens[g].created <= prune'.now
    <3>1. CASE PlanParents
      <4>1. \A g \in prune'.gens : g \in live.gens /\ ~(gens[g].created >= Cutoff)
        BY <3>1, TypeParts, ZenonT(60) DEF PlanParents, VarTypes, Retention
      <4>2. prune'.now = prune.now
        BY <3>1, TypeParts DEF PlanParents, VarTypes, Retention
      <4>3. Cutoff = prune.now - Window
        BY DEF Cutoff
      <4> QED
        BY <1>0, <4>1, <4>2, <4>3
    <3>2. CASE ~PlanParents
      BY <1>1, <1>i, <3>2 DEF Stays
    <3> QED
      BY <3>1, <3>2
  <2>5. ASSUME NEW b \in History, Resets(b) PROVE b \in live'.gens
    <3>1. b \in live.gens
      BY <1>i, <2>5
    <3>2. CASE PruneParents
      <4>1. CASE prune.pc = "gens"
        <5>1. /\ live'.gens = live.gens \ UnreferencedGens
              /\ UnreferencedGens \cap NeededBaselines(prune.now, prune.named) = {}
          BY <3>2, <4>1, TypeParts DEF PruneParents, VarTypes, Live
        <5>2. ASSUME b \in UnreferencedGens PROVE b \in NeededBaselines(prune.now, prune.named)
          <6>1. b \in DOMAIN gens /\ gens[b].created <= prune.now
            BY <1>i, <5>2 DEF UnreferencedGens
          <6>2. polls[gens[b].poll].completed <= prune.now
            <7>1. polls[gens[b].poll].completed \in Nat
              BY <6>1, HistoryTypes, ConstantTypes DEF HistoryInv
            <7>2. polls[gens[b].poll].completed <= gens[b].created
              BY <6>1 DEF AcceptInv
            <7> QED
              BY <1>0, <6>1, <7>1, <7>2
          <6>3. b \in Eligible(live.gens, prune.now)
            BY <2>5, <3>1, <6>2 DEF History, Suffix, Eligible
          <6>4. Eligible(live.gens, prune.now) \subseteq Eligible(DOMAIN gens, MaxTime)
            <7>1. \A g \in DOMAIN gens : polls[gens[g].poll].completed <= MaxTime
              BY HistoryTypes, ConstantTypes DEF HistoryInv, Times
            <7> QED
              BY <1>0, <7>1 DEF Eligible
          <6>5. b \in Suffix(live.gens, prune.now)
            BY <2>5, <6>3, <6>4 DEF History, Suffix
          <6>6. b = Baseline(live.gens, prune.now)
            BY <1>0, <2>5, <6>5, ReplayedIs
          <6>7. prune.now \in RuleTimes(prune.now, prune.named)
            BY DEF RuleTimes
          <6> QED
            BY <1>0, <6>1, <6>6, <6>7 DEF NeededBaselines
        <5> QED
          BY <3>1, <5>1, <5>2
      <4>2. CASE prune.pc # "gens"
        <5>1. live'.gens = live.gens
          BY <3>2, <4>2, TypeParts DEF PruneParents, VarTypes, Live
        <5> QED
          BY <3>1, <5>1
      <4> QED
        BY <4>1, <4>2
    <3> QED
      BY <1>1, <3>1, <3>2 DEF Stays
  <2> QED
    BY <2>1, <2>2, <2>3, <2>4, <2>5 DEF BaseInv
<1>2. ASSUME NEW g \in GenIds, UNCHANGED prune,
             DOMAIN gens' = DOMAIN gens \cup {g}, g \notin DOMAIN gens,
             \A h \in DOMAIN gens : gens'[h] = gens[h] /\ h < g,
             \A q \in DOMAIN polls : polls'[q] = polls[q],
             live'.gens = live.gens \cup {g}
      PROVE  BaseInv'
  <2>1. g \in Nat /\ MaxTime \in Int
    BY <1>0, <1>2, ConstantTypes
  <2>2. /\ \A h \in DOMAIN gens : h \in History' => h \in History
        /\ \A h \in DOMAIN gens : Resets(h)' <=> Resets(h)
    BY <1>2, <2>1, SuffixGrows DEF History
  <2>3. History' \subseteq DOMAIN gens'
    BY DEF History, Suffix, Eligible
  <2>4. \A h \in History' : Resets(h)' => h \in live'.gens
    BY <1>2, <1>i, <2>2, <2>3
  <2>5. \A h \in prune'.gens : h \in DOMAIN gens' /\ gens'[h].created <= prune'.now
    BY <1>2, <1>i
  <2> QED
    BY <2>4, <2>5 DEF BaseInv
<1>3. ASSUME NEW w \in Workers, Records(w), Confirm(w) PROVE BaseInv'
  <2>1. cycle[w].ev # None
    BY <1>3, EvidenceTypes DEF Records
  <2>2. PICK row \in PollRow : /\ polls' = Append(polls, row) /\ UNCHANGED <<gens, active>>
                              /\ live' = [live EXCEPT !.polls = @ \cup {Len(polls) + 1}]
    BY <1>3, <2>1, ConfirmWrites
  <2>3. \A p \in DOMAIN polls : polls'[p] = polls[p]
    BY <2>2, Appended DEF RowsInv
  <2>4. live'.gens = live.gens
    BY <2>2, TypeParts DEF VarTypes, Live
  <2>5. History' = History
    BY <1>0, <2>2, <2>3, SuffixStays DEF History
  <2>6. UNCHANGED <<gens, prune>>
    BY <1>3, <2>2 DEF Records
  <2> QED
    BY <1>i, <2>4, <2>5, <2>6 DEF BaseInv, Resets
<1>4. ASSUME NEW w \in Workers, Records(w), Persist(w) PROVE BaseInv'
  <2> DEFINE g == Len(gens) + 1
  <2>1. PICK row \in PollRow, gen \in Gen, snap \in live.snaps \cup {g} : Recording(w, row, gen, snap)
    BY <1>4, PersistShape
  <2>2. /\ live'.gens = live.gens \cup {g}
        /\ DOMAIN gens' = DOMAIN gens \cup {g} /\ g \notin DOMAIN gens
        /\ \A h \in DOMAIN gens : gens'[h] = gens[h] /\ h < g
        /\ \A q \in DOMAIN polls : polls'[q] = polls[q]
        /\ g \in GenIds
    BY <2>1 DEF Recording
  <2>3. UNCHANGED prune
    BY <1>4 DEF Records
  <2> HIDE DEF g
  <2> QED
    BY <1>2, <2>2, <2>3
<1>5. CASE Recovers
  <2> DEFINE g == Len(gens) + 1
  <2>1. PICK gen \in Gen, s \in live.gens : Recovering(gen, s)
    BY <1>5, RecoverShape
  <2>2. /\ live'.gens = live.gens \cup {g}
        /\ DOMAIN gens' = DOMAIN gens \cup {g} /\ g \notin DOMAIN gens
        /\ \A h \in DOMAIN gens : gens'[h] = gens[h] /\ h < g
        /\ UNCHANGED <<polls, prune>> /\ g \in GenIds
    BY <2>1 DEF Recovering
  <2> HIDE DEF g
  <2> QED
    BY <1>2, <2>2
<1> QED
  BY <1>1, <1>3, <1>4, <1>5, Moves DEF Records

-----------------------------------------------------------------------------
(* The Latest lines. *)

\* A promoted generation joins the history, or starts it anew.
LEMMA HistoryAdds ==
    ASSUME TypeOK, RowsInv, HistoryInv, NEW g \in GenIds,
           DOMAIN gens' = DOMAIN gens \cup {g}, g \notin DOMAIN gens,
           \A h \in DOMAIN gens : gens'[h] = gens[h] /\ h < g,
           \A q \in DOMAIN polls : polls'[q] = polls[q],
           polls'[gens'[g].poll].completed \in Times
    PROVE  /\ History \subseteq DOMAIN gens
           /\ ~gens'[g].advanced => History' = History
           /\ gens'[g].advanced /\ Resets(g)' => History' = {g}
           /\ gens'[g].advanced /\ ~Resets(g)' => History' = History \cup {g}
<1>1. g \in Nat /\ MaxTime \in Nat
  BY ConstantTypes
<1>2. MaxTime \in Int
  BY <1>1
<1>3. polls'[gens'[g].poll].completed <= MaxTime
  BY <1>1 DEF Times
<1>4. History' \subseteq DOMAIN gens \cup {g} /\ History \subseteq DOMAIN gens
  BY DEF History, Suffix, Eligible
<1>5. /\ g \in History' <=> gens'[g].advanced
      /\ \A h \in DOMAIN gens :
            h \in History' <=> h \in History /\ ~(gens'[g].advanced /\ Resets(g)')
  BY <1>1, <1>2, <1>3, SuffixGrows DEF History
<1> QED
  BY <1>4, <1>5, Zenon

\* The three things a promotion does to a line.
LEMMA AdvancedLines ==
    ASSUME NEW ev \in Evidence, NEW g \in GenIds, NEW r \in Refs,
           latest \in [Refs -> LatestRow \cup {Absent}]
    PROVE  LET line == AdvancedLatest(ev, g)[r]
           IN  \/ /\ r \in Selected(ev) /\ line # Absent
                  /\ line.obs = g /\ line.conf = ev.retrieved
               \/ /\ r \notin Selected(ev) /\ line = Absent
                  /\ ev.content.board.complete \/ r \in ev.content.board.refs \/ latest[r] = Absent
               \/ /\ r \notin Selected(ev) /\ r \notin ev.content.board.refs
                  /\ ~ev.content.board.complete /\ line # Absent /\ latest[r] # Absent
                  /\ line.obs = latest[r].obs /\ line.conf = latest[r].conf
<1>1. g # 0 /\ Line(ev, g) # Absent /\ Line(ev, g).obs = g /\ Line(ev, g).conf = ev.retrieved
  BY ConstantTypes DEF Line, Absent
<1>2. latest[r] # Absent => latest[r] \in LatestRow
  OBVIOUS
<1>3. latest[r] # Absent =>
         /\ [latest[r] EXCEPT !.gen = g] # Absent
         /\ [latest[r] EXCEPT !.gen = g].obs = latest[r].obs
         /\ [latest[r] EXCEPT !.gen = g].conf = latest[r].conf
  <2>1. ASSUME NEW l \in LatestRow PROVE
         /\ [l EXCEPT !.gen = g] # Absent
         /\ [l EXCEPT !.gen = g].obs = l.obs
         /\ [l EXCEPT !.gen = g].conf = l.conf
    BY <1>1 DEF LatestRow, Absent
  <2> QED
    BY <1>2, <2>1
<1>4. CASE ev.content.board.complete
  <2>1. AdvancedLatest(ev, g)[r] = IF r \in Selected(ev) THEN Line(ev, g) ELSE Absent
    BY <1>4 DEF AdvancedLatest, CompleteLatest
  <2> QED
    BY <1>1, <1>4, <2>1
<1>5. CASE ~ev.content.board.complete
  <2>1. AdvancedLatest(ev, g)[r] =
          IF r \in Selected(ev) THEN Line(ev, g)
          ELSE IF r \in ev.content.board.refs \/ latest[r] = Absent THEN Absent
          ELSE [latest[r] EXCEPT !.gen = g]
    BY <1>5 DEF AdvancedLatest, PartialLatest
  <2>2. CASE r \in Selected(ev)
    BY <1>1, <2>1, <2>2
  <2>3. CASE r \notin Selected(ev) /\ (r \in ev.content.board.refs \/ latest[r] = Absent)
    BY <2>1, <2>3
  <2>4. CASE r \notin Selected(ev) /\ ~(r \in ev.content.board.refs \/ latest[r] = Absent)
    BY <1>3, <1>5, <2>1, <2>4
  <2> QED
    BY <2>2, <2>3, <2>4
<1> QED
  BY <1>4, <1>5

\* What the content of a generation offers.
Offers(c, r) == r \in c.board.refs /\ (r = Unmapped => c.mapped)

LEMMA TracksParts ==
    /\ TracksInv <=>
        \A r \in Refs :
            /\ latest[r] = Absent => \A h \in History : ~Offers(gens[h].content, r)
            /\ latest[r] # Absent =>
                  /\ latest[r].obs \in History /\ Offers(gens[latest[r].obs].content, r)
                  /\ \A h \in History : h > latest[r].obs => r \notin gens[h].content.board.refs
    /\ TracksInv' <=>
        \A r \in Refs :
            /\ latest'[r] = Absent => \A h \in History' : ~Offers(gens'[h].content, r)
            /\ latest'[r] # Absent =>
                  /\ latest'[r].obs \in History' /\ Offers(gens'[latest'[r].obs].content, r)
                  /\ \A h \in History' : h > latest'[r].obs => r \notin gens'[h].content.board.refs
BY DEF TracksInv, Targetable, Offers

LEMMA TracksStep ==
    ASSUME IInv, GensInv, TracksInv, [Next]_vars
    PROVE  TracksInv'
<1>0. TypeOK /\ RowsInv /\ HistoryInv /\ PointersResolve
  BY DEF IInv
<1>1. /\ DOMAIN gens \subseteq Nat \ {0} /\ MaxTime \in Nat /\ History \subseteq DOMAIN gens
      /\ latest \in [Refs -> LatestRow \cup {Absent}]
  BY <1>0, HistoryTypes, TypeParts, ConstantTypes DEF VarTypes, History, Suffix, Eligible
<1>i. ASSUME NEW r \in Refs
      PROVE  /\ latest[r] = Absent => \A h \in History : ~Offers(gens[h].content, r)
             /\ latest[r] # Absent =>
                 /\ latest[r].obs \in History /\ Offers(gens[latest[r].obs].content, r)
                 /\ \A h \in History : h > latest[r].obs => r \notin gens[h].content.board.refs
  BY TracksParts
<1>2. ASSUME UNCHANGED gens, \A p \in DOMAIN polls : polls'[p] = polls[p],
             \A r \in Refs : /\ latest'[r] = Absent <=> latest[r] = Absent
                             /\ latest'[r].obs = latest[r].obs
      PROVE  TracksInv'
  <2>1. MaxTime \in Int
    BY <1>1
  <2>2. History' = History
    BY <1>0, <1>2, <2>1, SuffixStays DEF History
  <2> QED
    BY <1>2, <1>i, <2>2, TracksParts
<1>3. CASE Stays
  BY <1>2, <1>3 DEF Stays
<1>4. ASSUME NEW w \in Workers, Records(w), Confirm(w) PROVE TracksInv'
  <2>1. cycle[w].ev # None
    BY <1>4, EvidenceTypes DEF Records
  <2>2. PICK row \in PollRow : /\ polls' = Append(polls, row) /\ UNCHANGED <<gens, active>>
                               /\ \A r \in Refs : /\ latest'[r] = Absent <=> latest[r] = Absent
                                                  /\ latest'[r].obs = latest[r].obs
    BY <1>0, <1>4, <2>1, ConfirmWrites
  <2>3. \A p \in DOMAIN polls : polls'[p] = polls[p]
    BY <1>0, <2>2, Appended DEF RowsInv
  <2> QED
    BY <1>2, <2>2, <2>3
<1>a. ASSUME NEW g \in GenIds,
             DOMAIN gens' = DOMAIN gens \cup {g}, g \notin DOMAIN gens,
             \A h \in DOMAIN gens : gens'[h] = gens[h] /\ h < g,
             \A q \in DOMAIN polls : polls'[q] = polls[q],
             polls'[gens'[g].poll].completed \in Times
      PROVE  /\ ~gens'[g].advanced => History' = History
             /\ gens'[g].advanced /\ gens'[g].content.board.complete /\ ~gens'[g].replay => History' = {g}
             /\ gens'[g].advanced /\ ~(gens'[g].content.board.complete /\ ~gens'[g].replay)
                   => History' = History \cup {g}
             /\ \A h \in History : /\ h # g /\ ~(h > g) /\ h \in DOMAIN gens /\ gens'[h] = gens[h]
             /\ \A h \in History' : ~(h > g)
  <2>1. Resets(g)' <=> gens'[g].content.board.complete /\ ~gens'[g].replay
    BY DEF Resets
  <2>2. /\ ~gens'[g].advanced => History' = History
        /\ gens'[g].advanced /\ Resets(g)' => History' = {g}
        /\ gens'[g].advanced /\ ~Resets(g)' => History' = History \cup {g}
    BY <1>0, <1>a, HistoryAdds
  <2>3. \A h \in DOMAIN gens : h # g /\ ~(h > g)
    BY <1>1, <1>a, ConstantTypes
  <2>4. ~(g > g)
    BY ConstantTypes
  <2> QED
    BY <1>1, <1>a, <2>1, <2>2, <2>3, <2>4
<1>b. ASSUME NEW g \in GenIds, NEW e \in Evidence,
             DOMAIN gens' = DOMAIN gens \cup {g}, g \notin DOMAIN gens,
             \A h \in DOMAIN gens : gens'[h] = gens[h] /\ h < g,
             \A q \in DOMAIN polls : polls'[q] = polls[q],
             polls'[gens'[g].poll].completed \in Times,
             gens'[g].content = e.content, gens'[g].replay = FALSE,
             gens'[g].advanced = Advances(e),
             latest' = (IF Advances(e) THEN AdvancedLatest(e, g) ELSE latest),
             active' = (IF Advances(e) THEN g ELSE active)
      PROVE  TracksInv'
  <2>1. /\ ~Advances(e) => History' = History
        /\ Advances(e) /\ e.content.board.complete => History' = {g}
        /\ Advances(e) /\ ~e.content.board.complete => History' = History \cup {g}
        /\ \A h \in History : /\ h # g /\ ~(h > g) /\ h \in DOMAIN gens /\ gens'[h] = gens[h]
        /\ \A h \in History' : ~(h > g)
    BY <1>a, <1>b
  <2>2. \A r \in Refs : Offers(gens'[g].content, r) <=> r \in Selected(e)
    BY <1>b DEF Offers, Selected
  <2>3. CASE ~Advances(e)
    <3>1. History' = History /\ latest' = latest
      BY <1>b, <2>1, <2>3
    <3> QED
      BY <1>i, <2>1, <3>1, TracksParts
  <2>4. CASE Advances(e)
    <3>1. g \in History' /\ \A h \in History' : h = g \/ h \in History
      BY <2>1, <2>4, EvidenceTypes
    <3>2. ASSUME NEW r \in Refs
          PROVE  /\ latest'[r] = Absent => \A h \in History' : ~Offers(gens'[h].content, r)
                 /\ latest'[r] # Absent =>
                       /\ latest'[r].obs \in History' /\ Offers(gens'[latest'[r].obs].content, r)
                       /\ \A h \in History' : h > latest'[r].obs => r \notin gens'[h].content.board.refs
      <4>1. \/ /\ r \in Selected(e) /\ latest'[r] # Absent /\ latest'[r].obs = g
            \/ /\ r \notin Selected(e) /\ latest'[r] = Absent
               /\ e.content.board.complete \/ r \in e.content.board.refs \/ latest[r] = Absent
            \/ /\ r \notin Selected(e) /\ r \notin e.content.board.refs
               /\ ~e.content.board.complete /\ latest'[r] # Absent /\ latest[r] # Absent
               /\ latest'[r].obs = latest[r].obs
        <5>1. latest' = AdvancedLatest(e, g)
          BY <1>b, <2>4
        <5> QED
          BY <1>1, <5>1, AdvancedLines
      <4>2. CASE r \in Selected(e)
        BY <2>1, <2>2, <3>1, <4>1, <4>2
      <4>3. CASE /\ r \notin Selected(e) /\ latest'[r] = Absent
        <5>1. ~Offers(gens'[g].content, r)
          BY <2>2, <4>3
        <5>2. ASSUME ~e.content.board.complete, NEW h \in History PROVE ~Offers(gens'[h].content, r)
          <6>1. CASE latest[r] = Absent
            BY <1>i, <2>1, <6>1
          <6>2. CASE latest[r] # Absent
            <7>1. r \in e.content.board.refs
              BY <4>1, <4>3, <5>2, <6>2
            <7>2. r = Unmapped
              BY <4>3, <7>1 DEF Selected
            <7>3. gens'[active'].content.board.refs = e.content.board.refs
              BY <1>b, <2>4
            <7> QED
              BY <4>3, <6>2, <7>1, <7>2, <7>3, ErasureStep
          <6> QED
            BY <6>1, <6>2
        <5>3. CASE e.content.board.complete
          <6>1. History' = {g}
            BY <2>1, <2>4, <5>3
          <6> QED
            BY <4>3, <5>1, <6>1
        <5>4. CASE ~e.content.board.complete
          BY <3>1, <4>3, <5>1, <5>2, <5>4
        <5> QED
          BY <5>3, <5>4
      <4>4. CASE /\ r \notin Selected(e) /\ r \notin e.content.board.refs
                 /\ ~e.content.board.complete /\ latest'[r] # Absent /\ latest[r] # Absent
                 /\ latest'[r].obs = latest[r].obs
        <5>1. /\ latest[r].obs \in History /\ Offers(gens[latest[r].obs].content, r)
              /\ \A h \in History : h > latest[r].obs => r \notin gens[h].content.board.refs
          BY <1>i, <4>4
        <5>2. latest'[r].obs \in History' /\ Offers(gens'[latest'[r].obs].content, r)
          BY <2>1, <2>4, <4>4, <5>1
        <5>3. r \notin gens'[g].content.board.refs
          BY <1>b, <4>4
        <5>4. \A h \in History' : h > latest'[r].obs => r \notin gens'[h].content.board.refs
          BY <2>1, <3>1, <4>4, <5>1, <5>3
        <5> QED
          BY <4>4, <5>2, <5>4
      <4> QED
        BY <4>1, <4>2, <4>3, <4>4
    <3> QED
      BY <3>2, TracksParts
  <2> QED
    BY <2>3, <2>4
<1>5. ASSUME NEW w \in Workers, Records(w), Persist(w) PROVE TracksInv'
  <2> DEFINE g == Len(gens) + 1
             n == Len(polls) + 1
             ev == cycle[w].ev
  <2>1. PICK row \in PollRow, gen \in Gen, snap \in live.snaps \cup {g} : Recording(w, row, gen, snap)
    BY <1>0, <1>5, PersistShape
  <2>2. /\ gen.content = ev.content /\ gen.replay = FALSE /\ gen.advanced = Advances(ev) /\ gen.poll = n
        /\ latest' = (IF Advances(ev) THEN AdvancedLatest(ev, g) ELSE latest)
        /\ active' = (IF Advances(ev) THEN g ELSE active)
        /\ DOMAIN gens' = DOMAIN gens \cup {g} /\ g \notin DOMAIN gens /\ gens'[g] = gen
        /\ \A h \in DOMAIN gens : gens'[h] = gens[h] /\ h < g
        /\ polls'[n] = row /\ \A q \in DOMAIN polls : polls'[q] = polls[q]
        /\ g \in GenIds
    BY <2>1 DEF Recording
  <2>3. ev \in Evidence
    BY <1>5 DEF Records
  <2> HIDE DEF g, n, ev
  <2>4. polls'[gens'[g].poll].completed \in Times
    BY <2>2 DEF PollRow
  <2> QED
    BY <1>b, <2>2, <2>3, <2>4
<1>c. ASSUME NEW g \in GenIds, NEW l,
             DOMAIN gens' = DOMAIN gens \cup {g}, g \notin DOMAIN gens,
             \A h \in DOMAIN gens : gens'[h] = gens[h] /\ h < g,
             \A q \in DOMAIN polls : polls'[q] = polls[q],
             polls'[gens'[g].poll].completed \in Times,
             gens'[g].content = [board |-> [complete |-> FALSE, refs |-> {Unmapped}], mapped |-> TRUE],
             gens'[g].advanced, l # Absent, l.obs = g,
             latest' = [latest EXCEPT ![Unmapped] = l]
      PROVE  TracksInv'
  <2>1. /\ gens'[g].content.board.refs = {Unmapped} /\ ~gens'[g].content.board.complete
        /\ gens'[g].content.mapped
    BY <1>c
  <2>2. /\ History' = History \cup {g}
        /\ \A h \in History : /\ h # g /\ ~(h > g) /\ h \in DOMAIN gens /\ gens'[h] = gens[h]
        /\ \A h \in History' : ~(h > g)
    BY <1>a, <1>c, <2>1
  <2>3. \A r \in Refs : Offers(gens'[g].content, r) <=> r = Unmapped
    BY <2>1 DEF Offers
  <2>4. \A r \in Refs : latest'[r] = IF r = Unmapped THEN l ELSE latest[r]
    BY <1>1, <1>c
  <2>5. ASSUME NEW r \in Refs
        PROVE  /\ latest'[r] = Absent => \A h \in History' : ~Offers(gens'[h].content, r)
               /\ latest'[r] # Absent =>
                     /\ latest'[r].obs \in History' /\ Offers(gens'[latest'[r].obs].content, r)
                     /\ \A h \in History' : h > latest'[r].obs => r \notin gens'[h].content.board.refs
    <3>1. CASE r = Unmapped
      <4>1. latest'[r] = l /\ latest'[r] # Absent /\ latest'[r].obs = g
        BY <1>c, <2>4, <3>1
      <4>2. Offers(gens'[latest'[r].obs].content, r)
        BY <2>3, <3>1, <4>1
      <4>3. \A h \in History' : ~(h > latest'[r].obs)
        BY <2>2, <4>1
      <4> QED
        BY <2>2, <4>1, <4>2, <4>3
    <3>2. CASE r # Unmapped
      BY <1>i, <2>1, <2>2, <2>3, <2>4, <3>2
    <3> QED
      BY <3>1, <3>2
  <2> QED
    BY <2>5, TracksParts
<1>6. CASE Recovers
  <2> DEFINE g == Len(gens) + 1
  <2>1. PICK gen \in Gen, s \in live.gens : Recovering(gen, s)
    BY <1>0, <1>6, RecoverShape
  <2> DEFINE l == [obs |-> g, gen |-> g, conf |-> gens[s].retrieved]
  <2>2. /\ gen.poll = gens[active].poll
        /\ gen.content = [board |-> [complete |-> FALSE, refs |-> {Unmapped}], mapped |-> TRUE]
        /\ gen.advanced = gens[active].advanced /\ active # 0 /\ active \in DOMAIN gens
        /\ latest' = [latest EXCEPT ![Unmapped] = l]
        /\ DOMAIN gens' = DOMAIN gens \cup {g} /\ g \notin DOMAIN gens /\ gens'[g] = gen
        /\ \A h \in DOMAIN gens : gens'[h] = gens[h] /\ h < g
        /\ UNCHANGED polls /\ g \in GenIds
    BY <2>1 DEF Recovering
  <2> HIDE DEF g
  <2>3. gens'[g].advanced
    BY <2>2 DEF GensInv
  <2>4. polls'[gens'[g].poll].completed \in Times
    BY <1>0, <2>2, HistoryTypes DEF HistoryInv
  <2>5. l # Absent /\ l.obs = g
    BY <2>2, ConstantTypes DEF Absent
  <2> HIDE DEF l
  <2> QED
    BY <1>c, <2>2, <2>3, <2>4, <2>5
<1> QED
  BY <1>3, <1>4, <1>5, <1>6, <1>0, Moves DEF Records

\* The lines of a promotion are younger than everything that is confirmed.
LEMMA Younger ==
    ASSUME TypeOK, RowsInv, HistoryInv, PointersResolve, FenceInv, ConfInv,
           NEW ev \in Evidence, Advances(ev), NEW r \in Refs, latest[r] # Absent
    PROVE  latest[r].conf < ev.retrieved
<1>1. ~Blocked(ev.retrieved, polls, replayed)
  BY AdvancesMeans
<1>2. PICK p \in DOMAIN polls : polls[p].promoted /\ latest[r].conf <= polls[p].ev.retrieved
  BY DEF ConfInv
<1>3. ~(polls[p].ev.retrieved >= ev.retrieved)
  BY <1>1, <1>2 DEF Blocked
<1>4. polls[p].ev.retrieved \in Nat
  BY <1>2, HistoryTypes, EvidenceTypes, ConstantTypes DEF HistoryInv
<1>5. latest[r].conf \in Nat
  BY TypeParts, ConstantTypes DEF VarTypes, LatestRow
<1>6. ev.retrieved \in Nat
  BY EvidenceTypes, ConstantTypes
<1> QED
  BY <1>2, <1>3, <1>4, <1>5, <1>6

\* What a confirmation raises are the lines observed by the active generation.
LEMMA ConfirmedLines ==
    ASSUME TypeOK, RowsInv, HistoryInv, PointersResolve, GensInv, TracksInv,
           NEW ev \in Evidence, Confirms(ev), NEW r \in Refs, latest[r] # Absent
    PROVE  /\ latest[r].obs <= active
           /\ latest[r].obs = active <=> ev.content.board.complete \/ r \in ev.content.board.refs
<1>1. active # 0 /\ active \in DOMAIN gens /\ ~gens[active].replay
  BY DEF Confirms, HistoryInv, PointersResolve
<1>2. gens[active].content = ev.content
  BY <1>1 DEF Confirms, CurrentContent, GensInv
<1>3. gens[active].advanced /\ \A g \in DOMAIN gens : gens[g].advanced => g <= active
  BY <1>1 DEF GensInv
<1>4. active \in History
  <2>1. Eligible(DOMAIN gens, MaxTime) \subseteq {g \in DOMAIN gens : gens[g].advanced}
    BY DEF Eligible
  <2>2. polls[gens[active].poll].completed <= MaxTime
    BY <1>1, HistoryTypes, ConstantTypes DEF HistoryInv, Times
  <2>3. active \in Eligible(DOMAIN gens, MaxTime)
    BY <1>1, <1>3, <2>2 DEF Eligible
  <2> QED
    BY <1>3, <2>1, <2>3 DEF History, Suffix
<1>5. /\ latest[r].obs \in History /\ Offers(gens[latest[r].obs].content, r)
      /\ \A h \in History : h > latest[r].obs => r \notin gens[h].content.board.refs
  BY TracksParts
<1>6. latest[r].obs \in DOMAIN gens /\ gens[latest[r].obs].advanced
  BY <1>5 DEF History, Suffix, Eligible
<1>7. latest[r].obs \in Nat /\ active \in Nat /\ latest[r].obs <= active
  BY <1>1, <1>3, <1>6, HistoryTypes, ConstantTypes
<1>8. ASSUME latest[r].obs = active PROVE r \in ev.content.board.refs
  BY <1>2, <1>5, <1>8 DEF Offers
<1>9. ASSUME ev.content.board.complete PROVE latest[r].obs = active
  <2>1. active <= latest[r].obs
    <3>1. Resets(active)
      BY <1>1, <1>2, <1>9 DEF Resets
    <3>2. active \in Eligible(DOMAIN gens, MaxTime)
      BY <1>4 DEF History, Suffix
    <3> QED
      BY <1>5, <3>1, <3>2 DEF History, Suffix
  <2> QED
    BY <1>7, <2>1
<1>10. ASSUME r \in ev.content.board.refs PROVE latest[r].obs = active
  <2>1. ~(active > latest[r].obs)
    BY <1>2, <1>4, <1>5, <1>10
  <2> QED
    BY <1>7, <2>1
<1> QED
  BY <1>7, <1>8, <1>9, <1>10

\* Promoted evidence p raises the lines up, which are the last observed.
Raises(e, p, up, d) ==
    /\ Advances(e)
    /\ \A g \in DOMAIN gens : gens'[g] = gens[g]
    /\ DOMAIN polls' = DOMAIN polls \cup {p} /\ \A q \in DOMAIN polls : polls'[q] = polls[q]
    /\ polls'[p].promoted /\ polls'[p].ev = e
    /\ \A r \in up : latest'[r].conf = e.retrieved /\ latest'[r].obs = d
    /\ \A r \in Refs \ up : latest'[r] # Absent =>
          /\ latest[r] # Absent /\ latest[r].obs < d
          /\ latest'[r].conf = latest[r].conf /\ latest'[r].obs = latest[r].obs

LEMMA ConfStep ==
    ASSUME IInv, GensInv, TracksInv, ConfInv, [Next]_vars
    PROVE  ConfInv'
<1>0. TypeOK /\ RowsInv /\ HistoryInv /\ PointersResolve /\ FenceInv
  BY DEF IInv
<1>1. /\ latest \in [Refs -> LatestRow \cup {Absent}]
      /\ \A r \in Refs : latest[r] # Absent =>
            latest[r].obs \in DOMAIN gens /\ latest[r].obs \in Nat /\ latest[r].conf \in Nat
  <2>1. latest \in [Refs -> LatestRow \cup {Absent}]
    BY <1>0, TypeParts DEF VarTypes
  <2>2. \A r \in Refs : latest[r] # Absent => latest[r].obs \in DOMAIN gens
    BY DEF TracksInv, History, Suffix, Eligible
  <2>3. \A r \in Refs : latest[r] # Absent => latest[r].obs \in Nat /\ latest[r].conf \in Nat
    BY <2>1, ConstantTypes DEF LatestRow
  <2> QED
    BY <2>1, <2>2, <2>3
<1>i. /\ \A r \in Refs : latest[r] # Absent =>
            \E p \in DOMAIN polls : polls[p].promoted /\ latest[r].conf <= polls[p].ev.retrieved
      /\ \A r, q \in Refs :
            latest[r] # Absent /\ latest[q] # Absent /\ (Recovered => Unmapped \notin {r, q}) =>
                /\ latest[r].obs < latest[q].obs => latest[r].conf < latest[q].conf
                /\ latest[r].obs = latest[q].obs => latest[r].conf = latest[q].conf
  BY DEF ConfInv
<1>g. ConfInv' <=>
        /\ \A r \in Refs : latest'[r] # Absent =>
            \E p \in DOMAIN polls' : polls'[p].promoted /\ latest'[r].conf <= polls'[p].ev.retrieved
        /\ \A r, q \in Refs :
            latest'[r] # Absent /\ latest'[q] # Absent /\ (Recovered' => Unmapped \notin {r, q}) =>
                /\ latest'[r].obs < latest'[q].obs => latest'[r].conf < latest'[q].conf
                /\ latest'[r].obs = latest'[q].obs => latest'[r].conf = latest'[q].conf
  BY DEF ConfInv
<1>u. Unmapped \in Refs
  BY ConstantTypes
<1>r. /\ Recovered <=> latest[Unmapped] # Absent /\ gens[latest[Unmapped].obs].replay
      /\ Recovered' <=> latest'[Unmapped] # Absent /\ gens'[latest'[Unmapped].obs].replay
  BY DEF Recovered
<1>2. ASSUME \A g \in DOMAIN gens : gens'[g] = gens[g],
             DOMAIN polls \subseteq DOMAIN polls', \A p \in DOMAIN polls : polls'[p] = polls[p],
             UNCHANGED latest
      PROVE  ConfInv'
  <2>1. Recovered' <=> Recovered
    BY <1>1, <1>2, <1>r, <1>u
  <2>2. \A r \in Refs : latest[r] # Absent =>
            \E p \in DOMAIN polls' : polls'[p].promoted /\ latest[r].conf <= polls'[p].ev.retrieved
    BY <1>2, <1>i
  <2> QED
    BY <1>2, <1>g, <1>i, <2>1, <2>2
<1>3. CASE Stays
  BY <1>2, <1>3 DEF Stays
<1>4. ASSUME NEW e \in Evidence, NEW p, NEW up \in SUBSET Refs, NEW d \in Nat,
             Raises(e, p, up, d)
      PROVE  ConfInv'
  <2>1. \A r \in Refs : latest[r] # Absent => latest[r].conf < e.retrieved
    BY <1>0, <1>4, Younger DEF Raises
  <2>2. e.retrieved \in Nat
    BY EvidenceTypes, ConstantTypes
  <2>3. ASSUME NEW r \in Refs, latest'[r] # Absent
        PROVE  \E q \in DOMAIN polls' : polls'[q].promoted /\ latest'[r].conf <= polls'[q].ev.retrieved
    <3>1. latest'[r].conf <= e.retrieved
      <4>1. CASE r \in up
        BY <1>4, <2>2, <4>1 DEF Raises
      <4>2. CASE r \notin up
        BY <1>1, <1>4, <2>1, <2>2, <2>3, <4>2 DEF Raises
      <4> QED
        BY <4>1, <4>2
    <3> QED
      BY <1>4, <3>1 DEF Raises
  <2>4. ASSUME NEW r \in Refs, NEW q \in Refs, latest'[r] # Absent, latest'[q] # Absent,
               Recovered' => Unmapped \notin {r, q}
        PROVE  /\ latest'[r].obs < latest'[q].obs => latest'[r].conf < latest'[q].conf
               /\ latest'[r].obs = latest'[q].obs => latest'[r].conf = latest'[q].conf
    <3>1. CASE r \in up /\ q \in up
      BY <1>4, <2>2, <3>1 DEF Raises
    <3>2. CASE r \in up /\ q \notin up
      <4>1. latest'[r].obs = d /\ latest'[q].obs < d /\ latest'[q].obs \in Nat
        BY <1>1, <1>4, <2>4, <3>2 DEF Raises
      <4> QED
        BY <1>4, <4>1 DEF Raises
    <3>3. CASE r \notin up /\ q \in up
      <4>1. latest'[q].obs = d /\ latest'[r].obs < d /\ latest'[r].obs \in Nat
        BY <1>1, <1>4, <2>4, <3>3 DEF Raises
      <4>2. latest'[r].conf < latest'[q].conf
        BY <1>4, <2>1, <2>4, <3>3 DEF Raises
      <4> QED
        BY <1>4, <4>1, <4>2 DEF Raises
    <3>4. CASE r \notin up /\ q \notin up
      <4>1. /\ latest[r] # Absent /\ latest[q] # Absent
            /\ latest'[r].obs = latest[r].obs /\ latest'[q].obs = latest[q].obs
            /\ latest'[r].conf = latest[r].conf /\ latest'[q].conf = latest[q].conf
        BY <1>4, <2>4, <3>4 DEF Raises
      <4>2. Recovered => Unmapped \notin {r, q}
        <5> SUFFICES ASSUME Recovered, Unmapped \in {r, q} PROVE FALSE
          OBVIOUS
        <5>1. Recovered'
          BY <1>1, <1>4, <1>r, <2>4, <4>1 DEF Raises
        <5> QED
          BY <2>4, <5>1
      <4> QED
        BY <1>i, <4>1, <4>2
    <3> QED
      BY <3>1, <3>2, <3>3, <3>4
  <2> QED
    BY <1>g, <2>3, <2>4
<1>5. ASSUME NEW w \in Workers, Records(w), Confirms(cycle[w].ev), Confirm(w) PROVE ConfInv'
  <2>1. PICK e \in Evidence : e = cycle[w].ev
    BY <1>5 DEF Records
  <2>2. PICK row \in PollRow :
           /\ polls' = Append(polls, row) /\ row.ev = e /\ row.promoted = Advances(e)
           /\ latest' = (IF Advances(e) THEN ConfirmedLatest(e) ELSE latest)
           /\ \A r \in Refs : /\ latest'[r] = Absent <=> latest[r] = Absent
                              /\ latest'[r].obs = latest[r].obs
           /\ UNCHANGED <<gens, active>>
    BY <1>0, <1>5, <2>1, EvidenceTypes, ConfirmWrites
  <2>3. PICK n : n = Len(polls) + 1
    OBVIOUS
  <2>4. /\ DOMAIN polls' = DOMAIN polls \cup {n} /\ polls'[n] = row
        /\ \A q \in DOMAIN polls : polls'[q] = polls[q]
    BY <1>0, <2>2, <2>3, Appended DEF RowsInv
  <2>5. CASE ~Advances(e)
    BY <1>2, <2>2, <2>4, <2>5
  <2>6. CASE Advances(e)
    <3>1. PICK up \in SUBSET Refs :
             \A r \in Refs : r \in up <=> latest[r] # Absent /\ (e.content.board.complete \/ r \in e.content.board.refs)
      <4>1. {r \in Refs : latest[r] # Absent /\ (e.content.board.complete \/ r \in e.content.board.refs)} \in SUBSET Refs
        OBVIOUS
      <4> QED
        BY <4>1
    <3>2. active \in Nat
      <4>1. active \in GenIds \cup {0}
        BY <1>0, TypeParts DEF VarTypes
      <4> QED
        BY <4>1, ConstantTypes
    <3>3. ASSUME NEW r \in Refs, latest[r] # Absent
          PROVE  latest[r].obs <= active /\ (latest[r].obs = active <=> r \in up)
      BY <1>0, <1>5, <2>1, <3>1, <3>3, ConfirmedLines
    <3>4. \A r \in up : latest'[r].conf = e.retrieved /\ latest'[r].obs = active
      <4>1. ASSUME NEW r \in up PROVE latest'[r].conf = e.retrieved
        <5>1. latest[r].conf < e.retrieved /\ latest[r] \in LatestRow
          BY <1>0, <1>1, <2>6, <3>1, Younger
        <5>2. latest'[r] = [latest[r] EXCEPT !.conf = e.retrieved]
          BY <2>2, <2>6, <3>1, <5>1 DEF ConfirmedLatest
        <5> QED
          BY <5>1, <5>2 DEF LatestRow
      <4> QED
        BY <2>2, <3>1, <3>3, <4>1
    <3>5. \A r \in Refs \ up : latest'[r] # Absent =>
             /\ latest[r] # Absent /\ latest[r].obs < active
             /\ latest'[r].conf = latest[r].conf /\ latest'[r].obs = latest[r].obs
      <4>1. ASSUME NEW r \in Refs \ up, latest'[r] # Absent PROVE latest'[r] = latest[r]
        BY <2>2, <2>6, <3>1, <4>1 DEF ConfirmedLatest
      <4> QED
        BY <1>1, <2>2, <3>2, <3>3, <4>1
    <3>6. polls'[n].promoted /\ polls'[n].ev = e
      BY <2>2, <2>4, <2>6
    <3>7. Raises(e, n, up, active)
      BY <2>2, <2>4, <2>6, <3>4, <3>5, <3>6 DEF Raises
    <3> QED
      BY <1>4, <3>2, <3>7
  <2> QED
    BY <2>5, <2>6
<1>6. ASSUME NEW w \in Workers, Records(w), Persist(w) PROVE ConfInv'
  <2>1. PICK e \in Evidence : e = cycle[w].ev
    BY <1>6 DEF Records
  <2>2. PICK row \in PollRow, gen \in Gen, snap \in live.snaps \cup {Len(gens) + 1} :
           Recording(w, row, gen, snap)
    BY <1>0, <1>6, PersistShape
  <2>3. PICK g, n : g = Len(gens) + 1 /\ n = Len(polls) + 1
    OBVIOUS
  <2>4. /\ row.ev = e /\ row.promoted = Advances(e)
        /\ latest' = (IF Advances(e) THEN AdvancedLatest(e, g) ELSE latest)
        /\ \A h \in DOMAIN gens : gens'[h] = gens[h] /\ h < g
        /\ DOMAIN polls' = DOMAIN polls \cup {n} /\ polls'[n] = row
        /\ \A q \in DOMAIN polls : polls'[q] = polls[q]
        /\ g \in GenIds
    BY <2>1, <2>2, <2>3 DEF Recording
  <2>5. CASE ~Advances(e)
    BY <1>2, <2>4, <2>5
  <2>6. CASE Advances(e)
    <3>1. PICK up \in SUBSET Refs : \A r \in Refs : r \in up <=> r \in Selected(e)
      <4>1. {r \in Refs : r \in Selected(e)} \in SUBSET Refs
        OBVIOUS
      <4> QED
        BY <4>1
    <3>2. \A r \in Refs :
            \/ r \in up /\ latest'[r].obs = g /\ latest'[r].conf = e.retrieved
            \/ r \notin up /\ latest'[r] = Absent
            \/ /\ r \notin up /\ latest[r] # Absent
               /\ latest'[r].obs = latest[r].obs /\ latest'[r].conf = latest[r].conf
      BY <1>1, <2>4, <2>6, <3>1, AdvancedLines
    <3>3. g \in Nat /\ \A r \in Refs : latest[r] # Absent => latest[r].obs < g
      BY <1>1, <2>4, ConstantTypes
    <3>4. /\ \A r \in up : latest'[r].conf = e.retrieved /\ latest'[r].obs = g
          /\ \A r \in Refs \ up : latest'[r] # Absent =>
                /\ latest[r] # Absent /\ latest[r].obs < g
                /\ latest'[r].conf = latest[r].conf /\ latest'[r].obs = latest[r].obs
      BY <3>2, <3>3
    <3>5. polls'[n].promoted /\ polls'[n].ev = e
      BY <2>4, <2>6
    <3>6. Raises(e, n, up, g)
      BY <2>4, <2>6, <3>4, <3>5 DEF Raises
    <3> QED
      BY <1>4, <3>3, <3>6
  <2> QED
    BY <2>5, <2>6
<1>7. CASE Recovers
  <2>1. PICK gen \in Gen, s \in live.gens : Recovering(gen, s)
    BY <1>0, <1>7, RecoverShape
  <2>2. PICK g, l : g = Len(gens) + 1 /\ l = [obs |-> g, gen |-> g, conf |-> gens[s].retrieved]
    OBVIOUS
  <2>3. /\ gen.replay = TRUE /\ s \in DOMAIN gens /\ gens[s].advanced
        /\ latest' = [latest EXCEPT ![Unmapped] = l]
        /\ gens'[g] = gen /\ UNCHANGED polls
        /\ l # Absent /\ l.obs = g /\ l.conf = gens[s].retrieved
    <3>1. g \in GenIds
      BY <2>1, <2>2 DEF Recovering
    <3>2. l # Absent /\ l.obs = g /\ l.conf = gens[s].retrieved
      BY <2>2, <3>1, ConstantTypes DEF Absent
    <3> QED
      BY <2>1, <2>2, <3>2 DEF Recovering
  <2>4. \A r \in Refs : latest'[r] = IF r = Unmapped THEN l ELSE latest[r]
    BY <1>1, <2>3
  <2>5. Recovered'
    BY <1>r, <1>u, <2>3, <2>4
  <2>6. \E p \in DOMAIN polls : polls[p].promoted /\ l.conf <= polls[p].ev.retrieved
    <3>1. /\ gens[s].poll \in DOMAIN polls /\ polls[gens[s].poll].promoted
          /\ polls[gens[s].poll].ev.retrieved = gens[s].retrieved
      BY <1>0, <2>3 DEF GensInv, HistoryInv
    <3>2. gens[s].retrieved \in Nat
      BY <1>0, <2>3, HistoryTypes, ConstantTypes
    <3> QED
      BY <2>3, <3>1, <3>2
  <2> QED
    BY <1>g, <1>i, <2>3, <2>4, <2>5, <2>6
<1> QED
  BY <1>0, <1>3, <1>5, <1>6, <1>7, Moves DEF Records

-----------------------------------------------------------------------------
(* The invariant. *)

LEMMA ReadsInit == Init => ReadsInv
<1> SUFFICES ASSUME Init PROVE ReadsInv
  OBVIOUS
<1>1. /\ DOMAIN polls = {} /\ DOMAIN gens = {} /\ active = 0 /\ live.rows = {} /\ prune.gens = {}
      /\ latest = [r \in Refs |-> Absent] /\ now = 1
      /\ \A w \in Workers : cycle[w].accepted = 0
  BY DEF Init, Idle, Resting
<1>2. History = {} /\ Stored = {}
  BY <1>1 DEF History, Suffix, Eligible, Stored
<1>3. AcceptInv /\ GensInv /\ KeptInv /\ BaseInv
  BY <1>1, <1>2 DEF AcceptInv, GensInv, KeptInv, BaseInv
<1>4. TracksInv /\ ConfInv
  BY <1>1, <1>2 DEF TracksInv, ConfInv
<1> QED
  BY <1>3, <1>4 DEF ReadsInv

LEMMA ReadsStep == IInv /\ ReadsInv /\ [Next]_vars => ReadsInv'
<1> SUFFICES ASSUME IInv, ReadsInv, [Next]_vars PROVE ReadsInv'
  OBVIOUS
<1>1. /\ TypeOK /\ RowsInv /\ HistoryInv /\ PointersResolve
      /\ AcceptInv /\ GensInv /\ KeptInv /\ BaseInv /\ TracksInv /\ ConfInv
  BY DEF IInv, ReadsInv
<1>2. AcceptInv' /\ GensInv'
  BY <1>1, AcceptStep, GensStep
<1>3. KeptInv' /\ BaseInv'
  BY <1>1, KeptStep, BaseStep
<1>4. TracksInv' /\ ConfInv'
  BY <1>1, TracksStep, ConfStep
<1> QED
  BY <1>2, <1>3, <1>4 DEF ReadsInv

\* What readers see is founded on the history, whatever retention forgets.
THEOREM ReadsHold == Spec => [](IInv /\ ReadsInv)
<1>1. Init => ReadsInv
  BY ReadsInit
<1>2. IInv /\ ReadsInv /\ [Next]_vars => ReadsInv'
  BY ReadsStep
<1> QED
  BY <1>1, <1>2, InvHolds, PTL DEF Spec

-----------------------------------------------------------------------------
(* The two replays. *)

\* While the last Complete board is kept, the replay of what is kept is that
\* of everything, less what is gone.
LEMMA LiveSuffix ==
    ASSUME TypeOK, RowsInv, HistoryInv, NEW t \in Int,
           \A g \in Suffix(DOMAIN gens, t) : Resets(g) => g \in live.gens
    PROVE  Suffix(live.gens, t) = Suffix(DOMAIN gens, t) \cap live.gens
<1> DEFINE base == Baseline(DOMAIN gens, t)
           S == {g \in Eligible(DOMAIN gens, t) : Resets(g)}
<1>1. live.gens \subseteq DOMAIN gens /\ DOMAIN gens \subseteq Nat
  BY HistoryTypes, ConstantTypes DEF HistoryInv
<1>2. Eligible(live.gens, t) = Eligible(DOMAIN gens, t) \cap live.gens
  BY <1>1 DEF Eligible
<1>3. base \in {0} \cup S /\ base \in Nat /\ \A g \in S : g <= base
  BY BaselineIs
<1>4. \A h \in Eligible(DOMAIN gens, t) : h \in Nat \ {0}
  BY HistoryTypes, ConstantTypes DEF Eligible
<1> HIDE DEF base
<1>5. base # 0 => base \in Suffix(DOMAIN gens, t) /\ Resets(base)
  BY <1>3 DEF Suffix
<1>6. base # 0 => base \in Eligible(live.gens, t) /\ Resets(base)
  BY <1>2, <1>3, <1>5
<1>7. ASSUME NEW g \in Suffix(live.gens, t) PROVE g \in Suffix(DOMAIN gens, t)
  <2>1. g \in Eligible(live.gens, t) /\ \A h \in Eligible(live.gens, t) : Resets(h) => h <= g
    BY <1>7 DEF Suffix
  <2>2. ASSUME NEW h \in Eligible(DOMAIN gens, t), Resets(h) PROVE h <= g
    <3>1. h <= base /\ h \in Nat \ {0}
      BY <1>3, <1>4, <2>2
    <3>2. base # 0
      BY <1>3, <3>1
    <3>3. base <= g
      BY <1>6, <2>1, <3>2
    <3>4. g \in Nat
      BY <1>2, <1>4, <2>1
    <3> QED
      BY <1>3, <3>1, <3>3, <3>4
  <2> QED
    BY <1>2, <2>1, <2>2 DEF Suffix
<1>8. Suffix(DOMAIN gens, t) \cap live.gens \subseteq Suffix(live.gens, t)
  BY <1>2 DEF Suffix
<1>9. Suffix(live.gens, t) \subseteq live.gens
  BY DEF Suffix, Eligible
<1> QED
  BY <1>7, <1>8, <1>9

\* After a replayed row, no replayed generation is a Complete board, so a
\* line ends only by being named or by another line of its market.
LEMMA EndsNamed ==
    ASSUME TypeOK, RowsInv, HistoryInv, GensInv, NEW t \in Int,
           NEW g \in Suffix(DOMAIN gens, t), NEW h \in Suffix(DOMAIN gens, t), h > g,
           NEW rows, NEW r \in Refs
    PROVE  /\ ~Resets(h)
           /\ Retires(h, rows, r) <=>
                \E q \in Refs : /\ <<h, q>> \in rows
                                /\ \/ q = r
                                   \/ ~gens[h].replay /\ Targetable(h, q) /\ MarketOf[q] = MarketOf[r]
<1>1. g \in DOMAIN gens /\ h \in DOMAIN gens /\ h \in Eligible(DOMAIN gens, t) /\ g \in Nat /\ h \in Nat
  BY HistoryTypes, ConstantTypes DEF Suffix, Eligible
<1>2. ~Resets(h)
  <2>1. Resets(h) => h <= g
    BY <1>1 DEF Suffix
  <2> QED
    BY <1>1, <2>1
<1>3. ~gens[h].content.board.complete
  BY <1>1, <1>2 DEF GensInv, Resets
<1>4. Retires(h, rows, r) <=>
        \/ <<h, r>> \in rows
        \/ /\ ~gens[h].replay
           /\ \E q \in Refs : <<h, q>> \in rows /\ Targetable(h, q) /\ MarketOf[q] = MarketOf[r]
  BY <1>3 DEF Retires
<1> QED
  BY <1>2, <1>4

\* A late freeze reads what an early one would have read.
LEMMA ReplayOfKept == IInv /\ ReadsInv => ReplayKept
<1> DEFINE base == Baseline(DOMAIN gens, Tip)
           H == Suffix(DOMAIN gens, Tip)
           L == Suffix(live.gens, Tip)
<1> SUFFICES ASSUME IInv, ReadsInv, ~closing.frozen, base # 0 => OffersGame(base)
             PROVE  SameReplay
  BY DEF ReplayKept
<1>0. /\ TypeOK /\ RowsInv /\ HistoryInv /\ PointersResolve /\ GensInv /\ KeptInv
      /\ Tip \in Nat /\ live.gens \subseteq DOMAIN gens /\ live.rows \subseteq Stored
  BY ConstantTypes DEF IInv, ReadsInv, HistoryInv, GensInv
<1>1. Tip \in Int
  BY <1>0
<1>2. \A row \in Stored : row[1] \in H /\ (Resets(row[1]) => Targetable(row[1], row[2])) => row \in live.rows
  BY <1>0 DEF KeptInv
<1>3. \A row \in live.rows : row[1] \in live.gens
  BY <1>0 DEF PointersResolve
<1>4. \A g \in H : Resets(g) => g \in live.gens
  <2> SUFFICES ASSUME NEW g \in H, Resets(g) PROVE g \in live.gens
    OBVIOUS
  <2>1. g = base
    BY <1>0, ReplayedIs
  <2>2. g \in DOMAIN gens /\ DOMAIN gens \subseteq GenIds
    BY <1>0, HistoryTypes DEF Suffix, Eligible
  <2>3. OffersGame(g)
    BY <2>1, <2>2, ConstantTypes
  <2>4. PICK r \in Refs : Targetable(g, r)
    BY <2>3 DEF OffersGame
  <2>5. <<g, r>> \in Stored
    BY <2>2, <2>4 DEF Stored, RowIds, Targetable
  <2>6. <<g, r>> \in live.rows
    BY <1>2, <2>4, <2>5
  <2> QED
    BY <1>3, <2>6
<1>5. L = H \cap live.gens
  BY <1>0, <1>1, <1>4, LiveSuffix
<1>6. Replayed(DOMAIN gens, Tip) = H /\ Replayed(live.gens, Tip) = L
  BY <1>0, ReplayedIs
<1>7. ASSUME NEW g \in H, NEW r \in Refs
      PROVE  (\E h \in H : h > g /\ Retires(h, Stored, r)) <=> (\E h \in L : h > g /\ Retires(h, live.rows, r))
  <2>1. ASSUME NEW h \in H, h > g, Retires(h, Stored, r) PROVE h \in L /\ Retires(h, live.rows, r)
    <3>1. ~Resets(h)
      BY <1>0, <1>1, <1>7, <2>1, EndsNamed
    <3>2. PICK q \in Refs : /\ <<h, q>> \in Stored
                            /\ \/ q = r
                               \/ ~gens[h].replay /\ Targetable(h, q) /\ MarketOf[q] = MarketOf[r]
      BY <1>0, <1>1, <1>7, <2>1, EndsNamed
    <3>3. <<h, q>> \in live.rows
      BY <1>2, <2>1, <3>1, <3>2
    <3>4. h \in L
      BY <1>3, <1>5, <2>1, <3>3
    <3>5. Retires(h, live.rows, r)
      BY <1>0, <1>1, <1>7, <2>1, <3>2, <3>3, EndsNamed
    <3> QED
      BY <3>4, <3>5
  <2>2. ASSUME NEW h \in L, h > g, Retires(h, live.rows, r) PROVE h \in H /\ Retires(h, Stored, r)
    <3>1. h \in H
      BY <1>5, <2>2
    <3>2. PICK q \in Refs : /\ <<h, q>> \in live.rows
                            /\ \/ q = r
                               \/ ~gens[h].replay /\ Targetable(h, q) /\ MarketOf[q] = MarketOf[r]
      BY <1>0, <1>1, <1>7, <2>2, <3>1, EndsNamed
    <3>3. Retires(h, Stored, r)
      BY <1>0, <1>1, <1>7, <2>2, <3>1, <3>2, EndsNamed
    <3> QED
      BY <3>1, <3>3
  <2> HIDE DEF H, L
  <2> QED
    BY <2>1, <2>2
<1>8. \A row \in Stored : row[1] \in DOMAIN gens /\ row[2] \in Refs
  BY DEF Stored, RowIds
<1>9. ClosingRows(live.gens, live.rows, Tip) =
        {row \in live.rows : /\ row[1] \in L /\ Targetable(row[1], row[2])
                             /\ ~\E h \in L : h > row[1] /\ Retires(h, live.rows, row[2])}
  BY <1>6 DEF ClosingRows
<1>10. ClosingRows(DOMAIN gens, Stored, Tip) =
        {row \in Stored : /\ row[1] \in H /\ Targetable(row[1], row[2])
                          /\ ~\E h \in H : h > row[1] /\ Retires(h, Stored, row[2])}
  BY <1>6 DEF ClosingRows
<1> HIDE DEF H, L, base
<1>11. ASSUME NEW row, row[1] \in H, row[2] \in Refs
       PROVE  (\E h \in H : h > row[1] /\ Retires(h, Stored, row[2]))
                 <=> (\E h \in L : h > row[1] /\ Retires(h, live.rows, row[2]))
  BY <1>7, <1>11
<1>12. ASSUME NEW row \in Stored, row[1] \in H, Targetable(row[1], row[2])
       PROVE  row \in live.rows /\ row[1] \in L
  BY <1>2, <1>3, <1>5, <1>12
<1>13. ClosingRows(live.gens, live.rows, Tip) \subseteq ClosingRows(DOMAIN gens, Stored, Tip)
  <2> SUFFICES ASSUME NEW row \in ClosingRows(live.gens, live.rows, Tip)
               PROVE  row \in ClosingRows(DOMAIN gens, Stored, Tip)
    OBVIOUS
  <2>1. /\ row \in Stored /\ row[1] \in H /\ row[2] \in Refs /\ Targetable(row[1], row[2])
        /\ ~\E h \in L : h > row[1] /\ Retires(h, live.rows, row[2])
    BY <1>0, <1>5, <1>8, <1>9
  <2> QED
    BY <1>10, <1>11, <2>1
<1>14. ClosingRows(DOMAIN gens, Stored, Tip) \subseteq ClosingRows(live.gens, live.rows, Tip)
  <2> SUFFICES ASSUME NEW row \in ClosingRows(DOMAIN gens, Stored, Tip)
               PROVE  row \in ClosingRows(live.gens, live.rows, Tip)
    OBVIOUS
  <2>1. /\ row \in Stored /\ row[1] \in H /\ row[2] \in Refs /\ Targetable(row[1], row[2])
        /\ ~\E h \in H : h > row[1] /\ Retires(h, Stored, row[2])
    BY <1>8, <1>10
  <2>2. row \in live.rows /\ row[1] \in L
    BY <1>12, <2>1
  <2> QED
    BY <1>9, <1>11, <2>1, <2>2
<1> QED
  BY <1>13, <1>14 DEF SameReplay

(* A late freeze reads identical rows after a prune, however old the game: *)
(* as long as the game is not closed, what retention leaves replays to     *)
(* what everything ever promoted replays to, row by row, when the newest   *)
(* Complete board before the start offered the game or there is none.      *)
THEOREM ReplayStays == Spec => []ReplayKept
BY ReadsHold, ReplayOfKept, PTL

\* What Latest holds of each reference, in terms of the replay of all that is
\* promoted and kept.
LEMMA LinesKept ==
    ASSUME IInv, ReadsInv
    PROVE  LET L == Suffix(live.gens, MaxTime)
               H == History
           IN  /\ L = H \cap live.gens
               /\ ClosingRows(live.gens, live.rows, MaxTime) =
                    {row \in live.rows : /\ row[1] \in L /\ Targetable(row[1], row[2])
                                         /\ ~\E h \in L : h > row[1] /\ Retires(h, live.rows, row[2])}
               /\ \A r \in Refs : latest[r] # Absent =>
                     /\ latest[r].obs \in L /\ Targetable(latest[r].obs, r)
                     /\ <<latest[r].obs, r>> \in live.rows
               /\ \A h \in L, r \in Refs : Targetable(h, r) => latest[r] # Absent
               /\ \A h \in L, r \in Refs :
                     r \in gens[h].content.board.refs /\ latest[r] # Absent => h <= latest[r].obs
<1> DEFINE L == Suffix(live.gens, MaxTime)
<1>0. /\ TypeOK /\ RowsInv /\ HistoryInv /\ PointersResolve /\ BaseInv
      /\ MaxTime \in Nat /\ live.gens \subseteq DOMAIN gens
  BY ConstantTypes DEF IInv, ReadsInv, HistoryInv
<1>1. MaxTime \in Int
  BY <1>0
<1>2. L = History \cap live.gens
  BY <1>0, <1>1, LiveSuffix DEF BaseInv, History
<1>3. Replayed(live.gens, MaxTime) = L
  BY <1>0, ReplayedIs
<1>t. \A r \in Refs :
        /\ latest[r] = Absent => \A h \in History : ~Targetable(h, r)
        /\ latest[r] # Absent =>
              /\ latest[r].obs \in History /\ Targetable(latest[r].obs, r)
              /\ \A h \in History : h > latest[r].obs => r \notin gens[h].content.board.refs
  BY DEF ReadsInv, TracksInv
<1>4. \A r \in Refs : latest[r] # Absent =>
         /\ latest[r].obs \in L /\ Targetable(latest[r].obs, r) /\ <<latest[r].obs, r>> \in live.rows
  <2>1. \A row \in live.rows : row[1] \in live.gens
    BY <1>0 DEF PointersResolve
  <2>2. \A r \in Refs : latest[r] # Absent => <<latest[r].obs, r>> \in live.rows
    BY <1>0 DEF PointersResolve
  <2> QED
    BY <1>2, <1>t, <2>1, <2>2
<1>5. \A h \in L : h \in Nat
  BY <1>0, <1>2, HistoryTypes, ConstantTypes
<1>6. \A h \in L, r \in Refs :
         r \in gens[h].content.board.refs /\ latest[r] # Absent => h <= latest[r].obs
  <2> SUFFICES ASSUME NEW h \in L, NEW r \in Refs, r \in gens[h].content.board.refs, latest[r] # Absent
               PROVE  h <= latest[r].obs
    OBVIOUS
  <2>1. latest[r].obs \in Nat /\ h \in Nat /\ h \in History
    BY <1>2, <1>4, <1>5
  <2>2. ~(h > latest[r].obs)
    BY <1>t, <2>1
  <2> QED
    BY <2>1, <2>2
<1>7. \A h \in L, r \in Refs : Targetable(h, r) => latest[r] # Absent
  BY <1>2, <1>t
<1>8. ClosingRows(live.gens, live.rows, MaxTime) =
        {row \in live.rows : /\ row[1] \in L /\ Targetable(row[1], row[2])
                             /\ ~\E h \in L : h > row[1] /\ Retires(h, live.rows, row[2])}
  BY <1>3 DEF ClosingRows
<1> QED
  BY <1>2, <1>4, <1>6, <1>7, <1>8

\* The incremental update and the fold agree.
LEMMA LatestOfReplay == IInv /\ ReadsInv => LatestIsReplay
<1> SUFFICES ASSUME IInv, ReadsInv PROVE LatestIsReplay
  OBVIOUS
<1> DEFINE L == Suffix(live.gens, MaxTime)
           R == ClosingRows(live.gens, live.rows, MaxTime)
<1>0. /\ TypeOK /\ RowsInv /\ HistoryInv /\ PointersResolve /\ GensInv /\ ConfInv
      /\ MaxTime \in Nat /\ live.rows \subseteq Stored
  BY ConstantTypes DEF IInv, ReadsInv, GensInv
<1>1. L = History \cap live.gens
  BY LinesKept
<1>2. \A r \in Refs : latest[r] # Absent =>
         /\ latest[r].obs \in L /\ Targetable(latest[r].obs, r) /\ <<latest[r].obs, r>> \in live.rows
  BY LinesKept
<1>3. /\ \A h \in L, r \in Refs : Targetable(h, r) => latest[r] # Absent
      /\ \A h \in L, r \in Refs :
            r \in gens[h].content.board.refs /\ latest[r] # Absent => h <= latest[r].obs
  BY LinesKept
<1>4. R = {row \in live.rows : /\ row[1] \in L /\ Targetable(row[1], row[2])
                               /\ ~\E h \in L : h > row[1] /\ Retires(h, live.rows, row[2])}
  BY LinesKept
<1>5. /\ \A h \in L : h \in DOMAIN gens /\ h \in Nat
      /\ \A row \in live.rows : /\ row[1] \in DOMAIN gens /\ row[2] \in Refs
                                /\ row[2] \in gens[row[1]].content.board.refs
                                /\ row = <<row[1], row[2]>>
  <2>1. \A row \in live.rows : /\ row[1] \in DOMAIN gens /\ row[2] \in Refs
                               /\ row[2] \in gens[row[1]].content.board.refs
                               /\ row = <<row[1], row[2]>>
    BY <1>0 DEF Stored, RowIds
  <2> QED
    BY <1>0, <1>1, <2>1, HistoryTypes, ConstantTypes DEF HistoryInv
<1>6. /\ latest \in [Refs -> LatestRow \cup {Absent}] /\ Absent.conf = 0
      /\ \A r \in Refs : latest[r].conf \in Nat
  <2>1. latest \in [Refs -> LatestRow \cup {Absent}]
    BY <1>0, TypeParts DEF VarTypes
  <2>2. Absent.conf = 0
    BY DEF Absent
  <2>3. ASSUME NEW l \in LatestRow \cup {Absent} PROVE l.conf \in Nat
    <3>1. CASE l \in LatestRow
      BY <3>1, ConstantTypes DEF LatestRow
    <3>2. CASE l = Absent
      BY <2>2, <3>2
    <3> QED
      BY <3>1, <3>2
  <2>4. \A r \in Refs : latest[r].conf \in Nat
    BY <2>1, <2>3
  <2> QED
    BY <2>1, <2>2, <2>4
<1>7. ASSUME NEW g \in L, NEW h \in L, h > g, NEW r \in Refs
      PROVE  Retires(h, live.rows, r) <=>
                \E q \in Refs : /\ <<h, q>> \in live.rows
                                /\ \/ q = r
                                   \/ ~gens[h].replay /\ Targetable(h, q) /\ MarketOf[q] = MarketOf[r]
  <2>1. MaxTime \in Int
    BY <1>0
  <2>2. g \in Suffix(DOMAIN gens, MaxTime) /\ h \in Suffix(DOMAIN gens, MaxTime)
    BY <1>1, <1>7 DEF History
  <2> HIDE DEF L
  <2> QED
    BY <1>0, <1>7, <2>1, <2>2, EndsNamed, ZenonT(60)
<1>8. ASSUME NEW r \in Refs, NEW q \in Refs, latest[r] # Absent, latest[q] # Absent, q # r,
             MarketOf[q] = MarketOf[r], Recovered => Apart(r)
      PROVE  /\ latest[r].obs < latest[q].obs => latest[r].conf < latest[q].conf
             /\ latest[q].obs < latest[r].obs => latest[q].conf < latest[r].conf
             /\ latest[r].obs = latest[q].obs => latest[r].conf = latest[q].conf
  <2>1. Recovered => Unmapped \notin {r, q}
    BY <1>8 DEF Apart
  <2> QED
    BY <1>0, <1>8, <2>1 DEF ConfInv
\* A replayed generation names the recovered athlete alone.
<1>9. ASSUME NEW h \in L, gens[h].replay, NEW q, <<h, q>> \in live.rows PROVE q = Unmapped
  BY <1>0, <1>5, <1>9 DEF GensInv
<1> DEFINE Ok(r) == Recovered => Apart(r)
\* What Latest shows is what the replay leaves, and the newest of its market.
<1>10. ASSUME NEW r \in Refs, latest[r] # Absent, Ok(r),
              \A s \in Refs : MarketOf[s] = MarketOf[r] => latest[s].conf <= latest[r].conf
       PROVE  <<latest[r].obs, r>> \in NewestLines(R)
  <2> DEFINE o == latest[r].obs
  <2>1. o \in L /\ Targetable(o, r) /\ <<o, r>> \in live.rows /\ o \in Nat
    BY <1>2, <1>5, <1>10
  <2>2. ASSUME NEW q \in Refs, latest[q] # Absent, MarketOf[q] = MarketOf[r], q # r
        PROVE  ~(latest[q].obs > o)
    <3>1. latest[q].obs \in Nat
      BY <1>2, <1>5, <2>2
    <3>2. latest[r].obs < latest[q].obs => latest[r].conf < latest[q].conf
      BY <1>8, <1>10, <2>2
    <3>3. ~(latest[r].conf < latest[q].conf)
      BY <1>6, <1>10, <2>2
    <3> QED
      BY <2>1, <3>1, <3>2, <3>3
  <2>3. ASSUME NEW h \in L, h > o PROVE ~Retires(h, live.rows, r)
    <3> SUFFICES ASSUME Retires(h, live.rows, r) PROVE FALSE
      OBVIOUS
    <3>1. PICK q \in Refs : /\ <<h, q>> \in live.rows
                            /\ \/ q = r
                               \/ ~gens[h].replay /\ Targetable(h, q) /\ MarketOf[q] = MarketOf[r]
      BY <1>7, <2>1, <2>3
    <3>2. q \in gens[h].content.board.refs
      BY <1>5, <3>1
    <3>3. q # r
      BY <1>3, <1>5, <1>10, <2>1, <2>3, <3>2
    <3>4. latest[q] # Absent /\ h <= latest[q].obs
      BY <1>3, <3>1, <3>2, <3>3
    <3>5. latest[q].obs \in Nat /\ h \in Nat
      BY <1>2, <1>5, <3>4
    <3>6. latest[q].obs > o
      BY <2>1, <2>3, <3>4, <3>5
    <3> QED
      BY <2>2, <3>1, <3>3, <3>4, <3>6
  <2>4. <<o, r>> \in R
    BY <1>4, <2>1, <2>3
  <2>5. ASSUME NEW s \in R, MarketOf[s[2]] = MarketOf[r] PROVE s[1] = o
    <3>1. /\ s \in live.rows /\ s[1] \in L /\ Targetable(s[1], s[2]) /\ s[2] \in Refs
          /\ s = <<s[1], s[2]>> /\ s[1] \in Nat
          /\ ~\E h \in L : h > s[1] /\ Retires(h, live.rows, s[2])
      BY <1>4, <1>5
    <3>2. latest[s[2]] # Absent /\ s[1] <= latest[s[2]].obs
      BY <1>3, <3>1 DEF Targetable
    <3>3. latest[s[2]].obs \in L /\ latest[s[2]].obs \in Nat /\ <<latest[s[2]].obs, s[2]>> \in live.rows
      BY <1>2, <1>5, <3>1, <3>2
    <3>4. s[1] = latest[s[2]].obs
      <4>1. ~(latest[s[2]].obs > s[1])
        BY <1>7, <3>1, <3>3
      <4> QED
        BY <3>1, <3>2, <3>3, <4>1
    <3>5. CASE s[2] = r
      BY <3>4, <3>5
    <3>6. CASE s[2] # r
      <4>1. ~(s[1] > o)
        BY <2>2, <2>5, <3>1, <3>2, <3>4, <3>6
      <4>2. ~(o > s[1])
        <5> SUFFICES ASSUME o > s[1] PROVE FALSE
          OBVIOUS
        <5>1. ~Retires(o, live.rows, s[2])
          BY <2>1, <3>1
        <5>2. gens[o].replay
          BY <1>7, <2>1, <2>5, <3>1, <5>1
        <5>3. r = Unmapped
          BY <1>9, <2>1, <5>2
        <5>4. Recovered
          BY <1>10, <5>2, <5>3 DEF Recovered
        <5> QED
          BY <1>10, <2>5, <3>1, <3>6, <5>3, <5>4 DEF Apart
      <4> QED
        BY <2>1, <3>1, <4>1, <4>2
    <3> QED
      BY <3>5, <3>6
  <2>6. ASSUME NEW s \in R, MarketOf[s[2]] = MarketOf[r]
        PROVE  ObservedAt(s) <= ObservedAt(<<o, r>>)
    <3>1. s[1] = o
      BY <2>5, <2>6
    <3>2. ObservedAt(s) = ObservedAt(<<o, r>>)
      BY <3>1 DEF ObservedAt
    <3>3. ObservedAt(<<o, r>>) \in Nat
      <4>1. gens[o].source \in DOMAIN gens
        BY <1>0, <1>5, <2>1 DEF HistoryInv
      <4> QED
        BY <1>0, <4>1, HistoryTypes, ConstantTypes DEF ObservedAt
    <3> QED
      BY <3>2, <3>3
  <2> HIDE DEF R, o
  <2>7. <<o, r>> \in NewestLines(R)
    BY <2>4, <2>6 DEF NewestLines
  <2> QED
    BY <2>7 DEF o
\* What the replay leaves is what Latest shows.
<1>11. ASSUME NEW row \in R, Ok(row[2])
       PROVE  /\ row[2] \in Refs /\ latest[row[2]] # Absent /\ row = <<latest[row[2]].obs, row[2]>>
              /\ \A s \in Refs : MarketOf[s] = MarketOf[row[2]] => latest[s].conf <= latest[row[2]].conf
  <2> DEFINE g == row[1]
             r == row[2]
  <2>1. /\ row \in live.rows /\ g \in L /\ Targetable(g, r) /\ r \in Refs
        /\ row = <<g, r>> /\ g \in Nat
        /\ ~\E h \in L : h > g /\ Retires(h, live.rows, r)
    BY <1>4, <1>5
  <2> HIDE DEF g, r
  <2>2. latest[r] # Absent /\ g <= latest[r].obs
    BY <1>3, <2>1 DEF Targetable
  <2>3. latest[r].obs \in L /\ latest[r].obs \in Nat /\ <<latest[r].obs, r>> \in live.rows
    BY <1>2, <1>5, <2>1, <2>2
  <2>4. g = latest[r].obs
    <3>1. ~(latest[r].obs > g)
      BY <1>7, <2>1, <2>3
    <3> QED
      BY <2>1, <2>2, <2>3, <3>1
  <2>5. ASSUME NEW s \in Refs, MarketOf[s] = MarketOf[r] PROVE latest[s].conf <= latest[r].conf
    <3>1. CASE latest[s] = Absent
      BY <1>6, <2>1, <3>1
    <3>2. CASE s = r
      BY <1>6, <3>2
    <3>3. CASE latest[s] # Absent /\ s # r
      <4>1. latest[s].obs \in L /\ latest[s].obs \in Nat /\ <<latest[s].obs, s>> \in live.rows
            /\ Targetable(latest[s].obs, s)
        BY <1>2, <1>5, <3>3
      <4>2. ~(latest[s].obs > g)
        <5> SUFFICES ASSUME latest[s].obs > g PROVE FALSE
          OBVIOUS
        <5>1. ~Retires(latest[s].obs, live.rows, r)
          BY <2>1, <4>1
        <5>2. gens[latest[s].obs].replay
          BY <1>7, <2>1, <2>5, <4>1, <5>1
        <5>3. s = Unmapped
          BY <1>9, <4>1, <5>2
        <5>4. Recovered
          BY <3>3, <5>2, <5>3 DEF Recovered
        <5>5. Apart(r)
          BY <1>11, <5>4 DEF r
        <5> QED
          BY <2>5, <3>3, <5>3, <5>5 DEF Apart
      <4>3. Recovered => Apart(r)
        BY <1>11 DEF r
      <4>4. /\ latest[s].obs < latest[r].obs => latest[s].conf < latest[r].conf
            /\ latest[r].obs = latest[s].obs => latest[r].conf = latest[s].conf
        BY <1>8, <2>1, <2>2, <2>5, <3>3, <4>3
      <4> QED
        BY <1>6, <2>1, <2>4, <4>1, <4>2, <4>4
    <3> QED
      BY <3>1, <3>2, <3>3
  <2> QED
    BY <2>1, <2>2, <2>4, <2>5 DEF r
<1> HIDE DEF R, L
<1>12. ASSUME NEW row, Ok(row[2]) PROVE row \in Shown <=> row \in NewestLines(R)
  <2>1. ASSUME row \in Shown PROVE row \in NewestLines(R)
    <3>1. PICK r \in Refs : /\ latest[r] # Absent /\ row = <<latest[r].obs, r>>
                            /\ \A s \in Refs : MarketOf[s] = MarketOf[r] => latest[s].conf <= latest[r].conf
      BY <2>1 DEF Shown
    <3>2. Ok(r)
      BY <1>12, <3>1
    <3> QED
      BY <1>10, <3>1, <3>2
  <2>2. ASSUME row \in NewestLines(R) PROVE row \in Shown
    <3>1. row \in R
      BY <2>2 DEF NewestLines
    <3>2. /\ row[2] \in Refs /\ latest[row[2]] # Absent /\ row = <<latest[row[2]].obs, row[2]>>
          /\ \A s \in Refs : MarketOf[s] = MarketOf[row[2]] => latest[s].conf <= latest[row[2]].conf
      BY <1>11, <1>12, <3>1
    <3> QED
      BY <3>2 DEF Shown
  <2> QED
    BY <2>1, <2>2
<1>13. {row \in Shown : Ok(row[2])} = {row \in NewestLines(R) : Ok(row[2])}
  BY <1>12
<1> QED
  BY <1>13 DEF LatestIsReplay, R

(* What a reader is shown from Latest is what a replay of the promoted     *)
(* generations yields, line by line, but for lines that share a market     *)
(* with one the mapping replay recovered: the incremental update and the   *)
(* closing fold agree whatever cycles, decisions and retention do.         *)
THEOREM LatestAgrees == Spec => []LatestIsReplay
BY ReadsHold, LatestOfReplay, PTL

=============================================================================
