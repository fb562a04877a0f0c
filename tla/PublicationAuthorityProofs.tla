---------------------- MODULE PublicationAuthorityProofs ----------------------
(***************************************************************************)
(* Further proofs about PublicationPointers: what may become authority.    *)
(*                                                                         *)
(* PublicationPointersProofs shows that every writer keeps a stream        *)
(* consistent.  Here the content of the versions is followed too: which    *)
(* sources they cite, which of them a correction, a rollback, a revert or  *)
(* a repair took out of service, and in which order seasons were served.   *)
(* Again the argument is per stream.  A writer is described by what it     *)
(* leaves alone (Writes), and one lemma for each part of the invariant     *)
(* says when such a step keeps it.                                         *)
(***************************************************************************)
EXTENDS PublicationPointersProofs, FiniteLemmas

(***************************************************************************)
(* The inductive invariant.                                                *)
(***************************************************************************)

\* What the pointer names has served before and has its history rows, and no
\* version with a history row is a candidate; ids not yet made are empty.
RowsOK(st) ==
    /\ st.active # None => \E h \in st.history : h.pub = st.active /\ ~h.revoked
    /\ st.previous # None => \E h \in st.history : h.pub = st.previous
    /\ \A h \in st.history : h.pub <= st.made /\ st.versions[h.pub].status # "candidate"
    /\ \A v \in Ids : v > st.made => st.versions[v] = Deleted(None)

\* A version cites sources of its own season that were accepted.
EvidenceOK(st, led) ==
    \A v \in Ids : \A e \in st.versions[v].evidence :
        e[1][1] = st.versions[v].season /\ e[2] <= led[e[1]]

CitesIn(st, v, sources) == st.versions[v].evidence \cap sources # {}

\* A reader or a writer may still take the version.
Offered(st, v) ==
    /\ st.versions[v].live
    /\ \/ v = st.active
       \/ st.versions[v].status \in {"candidate", "active"}
       \/ \E h \in st.history : h.pub = v /\ ~h.revoked

CorrectedOK(st, led, cor) ==
    /\ \A e \in cor : e \in Source /\ e[2] < led[e[1]]
    /\ \A v \in Ids : Offered(st, v) => ~CitesIn(st, v, cor)
    /\ st.previous # None /\ CitesIn(st, st.previous, cor) => Withdrawn(st, st.previous)

\* The versions that can never serve again: the rejected ones and those that a
\* rollback cloned.
Spent(st, rej) == rej \cup ({st.versions[w].origin : w \in Ids} \ {None})

RejectedOK(st, rej) ==
    /\ rej \subseteq Ids
    /\ \A v \in Spent(st, rej) : /\ v <= st.made
                                 /\ st.versions[v].status \in {"superseded", "none"}
    /\ {st.active, st.previous} \cap Spent(st, rej) = {}
    /\ \A w \in Ids : st.versions[w].origin \notin rej
    /\ st.active # None => st.previous # st.active

\* The rows of a history that first served a season after another one.
Ready(s, st, h) ==
    LET p == st.versions[h.pub]
    IN  /\ p.live
        /\ \A k \in st.history : k.fence < h.fence => st.versions[k.pub].season < p.season
        /\ \E k \in st.history : k.fence < h.fence
        => p.activated \/ ReadinessRuleHolds(s, p.cutoff)

\* A stream that no correction reached has lost no pointer.
WaitsOK(s, st) ==
    /\ \A h \in st.history : Ready(s, st, h)
    /\ st.active = None => st.history = {}

\* While a cutover is reversible the pointer is where it put it, or lost its
\* rollback target to a correction, and its restore targets are not spent.
RecordOK(s, st, m, cor, rej) ==
    /\ st.active = m.to
    /\ st.previous \in {m.from, None}
    /\ st.previous = m.from => ~CitesIn(st, m.from, cor)
    /\ m.fromPrevious # None => /\ \E h \in st.history : h.pub = m.fromPrevious
                                /\ CitesIn(st, m.fromPrevious, cor) => Withdrawn(st, m.fromPrevious)
    /\ s \notin Parity \ Family =>
        /\ {m.from, m.fromPrevious} \cap Spent(st, rej) = {}
        /\ m.from # m.fromPrevious
        /\ m.to # m.fromPrevious

\* What a prepared composition cites was current, and not older than what the
\* version it was prepared against cites.
PreparedOK(c, st, led) ==
    /\ c.stream \notin Ledger
    /\ c.active \in 0..st.made
    /\ \A f \in c.evidence : f[1][1] = c.season /\ f[2] <= led[f[1]]
    /\ c.active # None => \A e \in st.versions[c.active].evidence, f \in c.evidence :
                                e[1] = f[1] => e[2] <= f[2]

\* A repair group replaces versions of its own season and of no later cutoff.
MemberOK(g, s, st) ==
    /\ s \notin Ledger
    /\ g.members[s].active \in 1..st.made
    /\ st.versions[g.members[s].active].season = g.season
    /\ st.versions[g.members[s].active].cutoff <= g.cutoff

ContentOK(s, st, led, cor, rej) ==
    /\ RowsOK(st)
    /\ EvidenceOK(st, led)
    /\ CorrectedOK(st, led, cor)
    /\ s \notin Ledger => cor = {}
    /\ s \notin Parity \ Family => RejectedOK(st, rej)
    /\ s \in Trailing /\ cor = {} => WaitsOK(s, st)

AInv ==
    /\ corrected = [s \in Streams |-> corrected[s]]
    /\ rejected = [s \in Streams |-> rejected[s]]
    /\ \A s \in Streams : ContentOK(s, stream[s], ledger, corrected[s], rejected[s])
    /\ \A c \in cutovers : /\ DOMAIN c.moved \subseteq DOMAIN c.fences
                           /\ Reversible(c) => \A s \in DOMAIN c.moved :
                                RecordOK(s, stream[s], c.moved[s], corrected[s], rejected[s])
    /\ \A w \in Workers : composing[w].phase = "prepared" =>
            PreparedOK(composing[w], stream[composing[w].stream], ledger)
    /\ \A g \in repair : \A s \in DOMAIN g.members : MemberOK(g, s, stream[s])

-----------------------------------------------------------------------------
(* What a writer leaves alone. *)

\* The content of a version never changes; an activation is not undone.
Same(p, q) ==
    /\ q.season = p.season /\ q.cutoff = p.cutoff /\ q.evidence = p.evidence
    /\ q.origin = p.origin /\ q.live = p.live
    /\ p.activated => q.activated

\* A history row after a step that revoked the activations of some versions.
Row(h, k, gone) ==
    /\ k.pub = h.pub /\ k.fence = h.fence
    /\ h.revoked => k.revoked
    /\ h.pub \in gone => k.revoked
    /\ k.revoked => h.revoked \/ h.pub \in gone

\* Versions keep their content, at most one is made, and a version gains
\* status only as the new target of the pointer.
Writes(st, nx, gone) ==
    /\ nx.made \in {st.made, st.made + 1}
    /\ \A v \in Ids : v <= st.made =>
        /\ Same(st.versions[v], nx.versions[v])
        /\ \/ nx.versions[v].status \in {st.versions[v].status, "superseded"}
           \/ v = nx.active /\ nx.versions[v].status = "active"
    /\ \A v \in Ids : v > nx.made => nx.versions[v] = st.versions[v]
    /\ \A h \in st.history : \E k \in nx.history : Row(h, k, gone)

\* The pointer stays or is cleared.
Stays(st, nx, gone) ==
    /\ Writes(st, nx, gone)
    /\ nx.active \in {st.active, None}
    /\ nx.previous \in {st.previous, None}
    /\ nx.active # None => nx.active \notin gone
    /\ nx.active # st.active => st.active \in gone
    /\ \A k \in nx.history : \E h \in st.history : Row(h, k, gone)
    /\ nx.made # st.made => nx.versions[nx.made].origin = None

\* The pointer takes a version, whose activation is recorded.
Moves(st, nx, gone) ==
    /\ Writes(st, nx, gone)
    /\ nx.active \in Ids
    /\ nx.fence = st.fence + 1
    /\ nx.made # st.made => nx.active = nx.made
    /\ Activation(nx.active, nx.fence) \in nx.history
    /\ \A k \in nx.history : k = Activation(nx.active, nx.fence)
                                \/ \E h \in st.history : Row(h, k, gone)

LEMMA IdsNat == Ids \subseteq Nat \ {0} /\ None \notin Ids /\ MaxVersions \in Nat
  BY Bounds DEF Ids, None

LEMMA RowType ==
    ASSUME NEW st, StreamOK(st), NEW h \in st.history
    PROVE  /\ h \in HistoryRow /\ h.pub \in Ids /\ h.pub \in Nat
           /\ h.fence \in Nat /\ h.fence <= st.fence /\ st.fence \in Nat
<1>1. h \in HistoryRow /\ h.fence <= st.fence
  BY DEF StreamOK, HistoryOK
<1>2. h.pub \in Ids /\ h.fence \in Nat
  BY <1>1 DEF HistoryRow
<1> QED
  BY <1>1, <1>2, IdsNat, Fields

LEMMA DemoteContent ==
    ASSUME NEW V \in [Ids -> Version], NEW ids, NEW v \in Ids
    PROVE  /\ Same(V[v], Demote(V, ids)[v])
           /\ Demote(V, ids)[v].status \in {V[v].status, "superseded"}
           /\ v \in ids => Demote(V, ids)[v].status = "superseded"
           /\ v \notin ids => Demote(V, ids)[v] = V[v]
<1>1. V[v] \in Version
  OBVIOUS
<1>2. Demote(V, ids)[v] = IF v \in ids THEN [V[v] EXCEPT !.status = "superseded"] ELSE V[v]
  BY DEF Demote
<1>3. /\ Same(V[v], [V[v] EXCEPT !.status = "superseded"])
      /\ [V[v] EXCEPT !.status = "superseded"].status = "superseded"
  BY <1>1 DEF Version, Same
<1> QED
  BY <1>2, <1>3 DEF Same

LEMMA NewContent ==
    ASSUME NEW season, NEW cutoff, NEW status, NEW evidence
    PROVE  LET p == NewVersion(season, cutoff, status, evidence)
           IN  /\ p.season = season /\ p.cutoff = cutoff /\ p.status = status
               /\ p.evidence = evidence /\ p.origin = None /\ ~p.activated /\ p.live
  BY DEF NewVersion

\* Revoking marks the rows of some versions and no others.
LEMMA RevokeRows ==
    ASSUME NEW history \in SUBSET HistoryRow, NEW gone
    PROVE  /\ \A h \in history : \E k \in Revoke(history, gone) : Row(h, k, gone)
           /\ \A k \in Revoke(history, gone) : \E h \in history : Row(h, k, gone)
<1> DEFINE R(h) == [h EXCEPT !.revoked = h.revoked \/ h.pub \in gone]
<1>1. ASSUME NEW h \in history PROVE Row(h, R(h), gone)
  <2>1. h \in HistoryRow
    OBVIOUS
  <2>2. R(h).pub = h.pub /\ R(h).fence = h.fence /\ R(h).revoked = (h.revoked \/ h.pub \in gone)
    BY <2>1 DEF HistoryRow
  <2> HIDE DEF R
  <2> QED
    BY <2>2 DEF Row
<1>2. Revoke(history, gone) = {R(h) : h \in history}
  BY DEF Revoke
<1> HIDE DEF R
<1> QED
  BY <1>1, <1>2

LEMMA RetireRows ==
    ASSUME NEW history \in SUBSET HistoryRow, NEW v
    PROVE  /\ \A h \in history : \E k \in Retire(history, v) : Row(h, k, {})
           /\ \A k \in Retire(history, v) : \E h \in history : Row(h, k, {})
<1> DEFINE R(h) == [h EXCEPT !.retired = h.retired \/ h.pub = v]
<1>1. ASSUME NEW h \in history PROVE Row(h, R(h), {})
  <2>1. h \in HistoryRow
    OBVIOUS
  <2>2. R(h).pub = h.pub /\ R(h).fence = h.fence /\ R(h).revoked = h.revoked
    BY <2>1 DEF HistoryRow
  <2> HIDE DEF R
  <2> QED
    BY <2>2 DEF Row
<1>2. Retire(history, v) = {R(h) : h \in history}
  BY DEF Retire
<1> HIDE DEF R
<1> QED
  BY <1>1, <1>2

LEMMA SameRows ==
    ASSUME NEW history
    PROVE  \A h \in history : Row(h, h, {})
  BY DEF Row

-----------------------------------------------------------------------------
(* When a step keeps each part of the invariant. *)

\* What two consistent streams on either side of a step say about each other.
LEMMA MadeGrows ==
    ASSUME NEW st, NEW nx, StreamOK(st), StreamOK(nx), NEW gone, Writes(st, nx, gone)
    PROVE  /\ st.made \in Nat /\ nx.made \in Nat /\ st.made <= nx.made /\ nx.made <= MaxVersions
           /\ nx.made # st.made => nx.made = st.made + 1 /\ nx.made \in Ids
           /\ \A v \in Ids : v <= nx.made => v <= st.made \/ (nx.made # st.made /\ v = nx.made)
<1>1. st.made \in Nat /\ nx.made \in Nat /\ nx.made <= MaxVersions
  BY Fields, IdsNat
<1> QED
  BY <1>1, IdsNat DEF Writes, Ids

LEMMA RowsStay ==
    ASSUME NEW st, NEW nx, StreamOK(st), StreamOK(nx), NEW gone, Stays(st, nx, gone), RowsOK(st)
    PROVE  RowsOK(nx)
<1>1. Writes(st, nx, gone)
  BY DEF Stays
<1>2. /\ st.made \in Nat /\ nx.made \in Nat /\ st.made <= nx.made
  BY <1>1, MadeGrows
<1>3. ASSUME nx.active # None PROVE \E k \in nx.history : k.pub = nx.active /\ ~k.revoked
  <2>1. nx.active = st.active /\ nx.active \notin gone
    BY <1>3 DEF Stays
  <2>2. PICK h \in st.history : h.pub = st.active /\ ~h.revoked
    BY <1>3, <2>1 DEF RowsOK
  <2>3. PICK k \in nx.history : Row(h, k, gone)
    BY <1>1 DEF Writes
  <2> QED
    BY <2>1, <2>2, <2>3 DEF Row
<1>4. ASSUME nx.previous # None PROVE \E k \in nx.history : k.pub = nx.previous
  <2>1. nx.previous = st.previous
    BY <1>4 DEF Stays
  <2>2. PICK h \in st.history : h.pub = st.previous
    BY <1>4, <2>1 DEF RowsOK
  <2>3. PICK k \in nx.history : Row(h, k, gone)
    BY <1>1 DEF Writes
  <2> QED
    BY <2>1, <2>2, <2>3 DEF Row
<1>5. ASSUME NEW k \in nx.history
      PROVE  k.pub <= nx.made /\ nx.versions[k.pub].status # "candidate"
  <2>1. PICK h \in st.history : Row(h, k, gone)
    BY DEF Stays
  <2>2. h.pub = k.pub /\ h.pub <= st.made /\ st.versions[h.pub].status # "candidate"
    BY <2>1 DEF Row, RowsOK
  <2>3. h.pub \in Ids /\ h.pub \in Nat
    BY RowType
  <2>4. nx.versions[h.pub].status \in {st.versions[h.pub].status, "superseded", "active"}
    BY <1>1, <2>2, <2>3 DEF Writes
  <2> QED
    BY <1>2, <2>2, <2>3, <2>4
<1>6. ASSUME NEW v \in Ids, v > nx.made PROVE nx.versions[v] = Deleted(None)
  BY <1>1, <1>2, <1>6, IdsNat DEF Writes, RowsOK
<1> QED
  BY <1>3, <1>4, <1>5, <1>6 DEF RowsOK

LEMMA RowsMove ==
    ASSUME NEW st, NEW nx, StreamOK(st), StreamOK(nx), NEW gone, Moves(st, nx, gone), RowsOK(st),
           nx.previous # None => \E h \in st.history : h.pub = nx.previous
    PROVE  RowsOK(nx)
<1>1. Writes(st, nx, gone)
  BY DEF Moves
<1>2. /\ st.made \in Nat /\ nx.made \in Nat /\ st.made <= nx.made
  BY <1>1, MadeGrows
<1> DEFINE a == Activation(nx.active, nx.fence)
<1>3. a \in nx.history /\ a.pub = nx.active /\ ~a.revoked
  BY DEF Moves, Activation
<1>4. ASSUME nx.previous # None PROVE \E k \in nx.history : k.pub = nx.previous
  <2>2. PICK h \in st.history : h.pub = nx.previous
    BY <1>4
  <2>3. PICK k \in nx.history : Row(h, k, gone)
    BY <1>1 DEF Writes
  <2> QED
    BY <2>2, <2>3 DEF Row
<1>5. ASSUME NEW k \in nx.history
      PROVE  k.pub <= nx.made /\ nx.versions[k.pub].status # "candidate"
  <2>1. CASE k = a
    <3>1. nx.active # None
      BY IdsNat DEF Moves
    <3> QED
      BY <1>3, <2>1, <3>1 DEF StreamOK
  <2>2. ASSUME NEW h \in st.history, Row(h, k, gone)
        PROVE  k.pub <= nx.made /\ nx.versions[k.pub].status # "candidate"
    <3>2. h.pub = k.pub /\ h.pub <= st.made /\ st.versions[h.pub].status # "candidate"
      BY <2>2 DEF Row, RowsOK
    <3>3. h.pub \in Ids /\ h.pub \in Nat
      BY RowType
    <3>4. nx.versions[h.pub].status \in {st.versions[h.pub].status, "superseded", "active"}
      BY <1>1, <3>2, <3>3 DEF Writes
    <3> QED
      BY <1>2, <3>2, <3>3, <3>4
  <2> QED
    BY <2>1, <2>2 DEF Moves
<1>6. ASSUME NEW v \in Ids, v > nx.made PROVE nx.versions[v] = Deleted(None)
  BY <1>1, <1>2, <1>6, IdsNat DEF Writes, RowsOK
<1> HIDE DEF a
<1> QED
  BY <1>3, <1>4, <1>5, <1>6 DEF RowsOK

LEMMA EvidenceWrites ==
    ASSUME NEW st, NEW nx, StreamOK(st), StreamOK(nx), NEW gone, Writes(st, nx, gone),
           RowsOK(nx), NEW led, EvidenceOK(st, led),
           nx.made # st.made => \A e \in nx.versions[nx.made].evidence :
                e[1][1] = nx.versions[nx.made].season /\ e[2] <= led[e[1]]
    PROVE  EvidenceOK(nx, led)
<1> SUFFICES ASSUME NEW v \in Ids, NEW e \in nx.versions[v].evidence
             PROVE  e[1][1] = nx.versions[v].season /\ e[2] <= led[e[1]]
  BY DEF EvidenceOK
<1>1. st.made \in Nat /\ nx.made \in Nat /\ v \in Nat
  BY MadeGrows, IdsNat
<1>2. CASE v <= st.made
  BY <1>2 DEF Writes, Same, EvidenceOK
<1>3. CASE v > nx.made
  BY <1>3 DEF RowsOK, Deleted
<1>4. CASE ~(v <= st.made) /\ ~(v > nx.made)
  BY <1>1, <1>4, MadeGrows
<1> QED
  BY <1>2, <1>3, <1>4

\* What is on offer after a step was on offer before it, but for the version
\* the pointer takes and a version that is made.
LEMMA OfferedBefore ==
    ASSUME NEW st, NEW nx, StreamOK(st), StreamOK(nx), NEW gone, Writes(st, nx, gone),
           NEW v \in Ids, v <= st.made, Offered(nx, v), v # nx.active,
           \A k \in nx.history : k.pub = v => \E h \in st.history : Row(h, k, gone)
    PROVE  Offered(st, v)
<1>1. st.versions[v].live
  BY DEF Writes, Same, Offered
<1>2. CASE nx.versions[v].status \in {"candidate", "active"}
  BY <1>1, <1>2 DEF Writes, Offered
<1>3. ASSUME NEW k \in nx.history, k.pub = v, ~k.revoked PROVE Offered(st, v)
  <2>1. PICK h \in st.history : Row(h, k, gone)
    BY <1>3
  <2>2. h.pub = v /\ ~h.revoked
    BY <1>3, <2>1 DEF Row
  <2> QED
    BY <1>1, <2>2 DEF Offered
<1> QED
  BY <1>2, <1>3 DEF Offered

\* A withdrawn version stays withdrawn unless its activation is recorded anew.
LEMMA WithdrawnKept ==
    ASSUME NEW st, NEW nx, NEW gone, NEW v, Withdrawn(st, v),
           \A h \in st.history : \E k \in nx.history : Row(h, k, gone),
           \A k \in nx.history : k.pub = v => \E h \in st.history : Row(h, k, gone)
    PROVE  Withdrawn(nx, v)
<1>1. PICK h \in st.history : h.pub = v
  BY DEF Withdrawn
<1>2. PICK k \in nx.history : Row(h, k, gone)
  OBVIOUS
<1>3. k.pub = v
  BY <1>1, <1>2 DEF Row
<1>4. ASSUME NEW j \in nx.history, j.pub = v PROVE j.revoked
  <2>1. PICK i \in st.history : Row(i, j, gone)
    BY <1>4
  <2> QED
    BY <1>4, <2>1 DEF Row, Withdrawn
<1> QED
  BY <1>2, <1>3, <1>4 DEF Withdrawn

LEMMA CorrectedStay ==
    ASSUME NEW st, NEW nx, StreamOK(st), StreamOK(nx), NEW gone, Stays(st, nx, gone),
           NEW led, NEW cor, NEW fix, CorrectedOK(st, led, cor),
           \A e \in fix : e \in Source /\ e[2] < led[e[1]],
           \A v \in Ids : Offered(nx, v) => ~CitesIn(nx, v, fix),
           nx.previous # None => ~CitesIn(nx, nx.previous, fix),
           nx.made # st.made => ~CitesIn(nx, nx.made, cor)
    PROVE  CorrectedOK(nx, led, cor \cup fix)
<1>1. Writes(st, nx, gone)
  BY DEF Stays
<1>2. ASSUME NEW v \in Ids PROVE v <= st.made => (CitesIn(nx, v, cor) <=> CitesIn(st, v, cor))
  BY <1>1 DEF Writes, Same, CitesIn
<1>3. ASSUME NEW v \in Ids, Offered(nx, v) PROVE ~CitesIn(nx, v, cor)
  <2>1. v <= nx.made
    BY <1>3 DEF Offered, StreamOK
  <2>2. CASE v <= st.made
    <3>1. CASE v = nx.active
      <4>1. v = st.active /\ v # None
        BY <3>1, IdsNat DEF Stays
      <4>2. Offered(st, v)
        BY <4>1 DEF Offered, StreamOK
      <4> QED
        BY <1>2, <2>2, <4>2 DEF CorrectedOK
    <3>2. CASE v # nx.active
      <4>1. Offered(st, v)
        BY <1>1, <1>3, <2>2, <3>2, OfferedBefore DEF Stays
      <4> QED
        BY <1>2, <2>2, <4>1 DEF CorrectedOK
    <3> QED
      BY <3>1, <3>2
  <2> QED
    BY <1>1, <2>1, <2>2, MadeGrows
<1>4. ASSUME nx.previous # None, CitesIn(nx, nx.previous, cor) PROVE Withdrawn(nx, nx.previous)
  <2>1. nx.previous = st.previous /\ st.previous \in Ids /\ st.previous <= st.made
    BY <1>4, Fields DEF Stays, StreamOK
  <2>2. Withdrawn(st, st.previous)
    BY <1>2, <1>4, <2>1 DEF CorrectedOK
  <2> QED
    BY <1>1, <2>1, <2>2, WithdrawnKept DEF Writes, Stays
<1>5. \A v : CitesIn(nx, v, cor \cup fix) <=> CitesIn(nx, v, cor) \/ CitesIn(nx, v, fix)
  BY DEF CitesIn
<1> QED
  BY <1>3, <1>4, <1>5 DEF CorrectedOK

LEMMA CorrectedMove ==
    ASSUME NEW st, NEW nx, StreamOK(st), StreamOK(nx), NEW gone, Moves(st, nx, gone),
           NEW led, NEW cor, CorrectedOK(st, led, cor),
           ~CitesIn(nx, nx.active, cor),
           nx.previous # None /\ CitesIn(nx, nx.previous, cor) => Withdrawn(nx, nx.previous)
    PROVE  CorrectedOK(nx, led, cor)
<1>1. Writes(st, nx, gone)
  BY DEF Moves
<1>3. ASSUME NEW v \in Ids, Offered(nx, v), v # nx.active PROVE ~CitesIn(nx, v, cor)
  <2>1. v <= nx.made
    BY <1>3 DEF Offered, StreamOK
  <2>2. v <= st.made
    BY <1>1, <1>3, <2>1, MadeGrows DEF Moves
  <2>3. \A k \in nx.history : k.pub = v => \E h \in st.history : Row(h, k, gone)
    BY <1>3 DEF Moves, Activation
  <2>4. Offered(st, v)
    BY <1>1, <1>3, <2>2, <2>3, OfferedBefore
  <2> QED
    BY <1>1, <2>2, <2>4 DEF CorrectedOK, Writes, Same, CitesIn
<1> QED
  BY <1>3 DEF CorrectedOK

\* The clones of a step are those before it and what a new version clones.
LEMMA SpentWrites ==
    ASSUME NEW st, NEW nx, StreamOK(st), StreamOK(nx), NEW gone, Writes(st, nx, gone),
           RowsOK(nx), NEW w \in Ids
    PROVE  \/ w <= st.made /\ nx.versions[w].origin = st.versions[w].origin
           \/ nx.made # st.made /\ w = nx.made
           \/ nx.versions[w].origin = None
<1>1. st.made \in Nat /\ nx.made \in Nat /\ w \in Nat
  BY MadeGrows, IdsNat
<1>2. CASE w <= st.made
  BY <1>2 DEF Writes, Same
<1>3. CASE w > nx.made
  BY <1>3 DEF RowsOK, Deleted
<1> QED
  BY <1>1, <1>2, <1>3, MadeGrows

LEMMA RejectedStay ==
    ASSUME NEW st, NEW nx, StreamOK(st), StreamOK(nx), NEW gone, Stays(st, nx, gone),
           RowsOK(nx), NEW rej, RejectedOK(st, rej)
    PROVE  RejectedOK(nx, rej)
<1>1. Writes(st, nx, gone)
  BY DEF Stays
<1>2. ASSUME NEW w \in Ids
      PROVE  nx.versions[w].origin = None
                \/ nx.versions[w].origin = st.versions[w].origin
  BY <1>1, SpentWrites DEF Stays
<1>3. Spent(nx, rej) \subseteq Spent(st, rej)
  BY <1>2 DEF Spent
<1>4. None \notin Spent(st, rej)
  BY IdsNat DEF Spent, RejectedOK
<1>5. {nx.active, nx.previous} \cap Spent(nx, rej) = {}
  BY <1>3, <1>4 DEF Stays, RejectedOK
<1>6. ASSUME NEW v \in Spent(nx, rej)
      PROVE  v <= nx.made /\ nx.versions[v].status \in {"superseded", "none"}
  <2>1. v \in Spent(st, rej) /\ v # nx.active
    BY <1>3, <1>5
  <2>2. v <= st.made /\ st.versions[v].status \in {"superseded", "none"}
    BY <2>1 DEF RejectedOK
  <2>3. v \in Ids
    <3>1. \A w \in Ids : st.versions[w].origin \in Ids \cup {None}
      BY Fields DEF Version
    <3> QED
      BY <2>1, <3>1 DEF Spent, RejectedOK
  <2>4. st.made \in Nat /\ nx.made \in Nat /\ st.made <= nx.made /\ v \in Nat
    BY <1>1, <2>3, MadeGrows, IdsNat
  <2> QED
    BY <1>1, <2>1, <2>2, <2>3, <2>4 DEF Writes
<1>7. ASSUME NEW w \in Ids PROVE nx.versions[w].origin \notin rej
  BY <1>2, IdsNat DEF RejectedOK
<1>8. nx.active # None => nx.previous # nx.active
  BY DEF Stays, RejectedOK
<1> QED
  BY <1>5, <1>6, <1>7, <1>8 DEF RejectedOK

\* A move that adds to the rejected versions and may clone one.
LEMMA RejectedMove ==
    ASSUME NEW st, NEW nx, StreamOK(st), StreamOK(nx), NEW gone, Moves(st, nx, gone),
           RowsOK(nx), NEW rej, RejectedOK(st, rej),
           NEW add \in SUBSET Ids, NEW clone \in Ids \cup {None},
           nx.made # st.made => nx.versions[nx.made].origin = clone,
           \A v \in add \cup ({clone} \ {None}) :
                v <= st.made /\ nx.versions[v].status \in {"superseded", "none"},
           {nx.active, nx.previous} \cap (Spent(st, rej) \cup add \cup ({clone} \ {None})) = {},
           add \cap Spent(st, rej) = {},
           clone \notin rej \cup add,
           nx.previous # nx.active
    PROVE  RejectedOK(nx, rej \cup add)
<1>1. Writes(st, nx, gone)
  BY DEF Moves
<1>2. ASSUME NEW w \in Ids
      PROVE  nx.versions[w].origin \in {None, clone, st.versions[w].origin}
  BY <1>1, SpentWrites
<1>3. Spent(nx, rej \cup add) \subseteq Spent(st, rej) \cup add \cup ({clone} \ {None})
  BY <1>2 DEF Spent
<1>4. {nx.active, nx.previous} \cap Spent(nx, rej \cup add) = {}
  BY <1>3
<1>5. st.made \in Nat /\ nx.made \in Nat /\ st.made <= nx.made
  BY <1>1, MadeGrows
<1>6. ASSUME NEW v \in Spent(nx, rej \cup add)
      PROVE  v <= nx.made /\ nx.versions[v].status \in {"superseded", "none"}
  <2>1. v # nx.active
    BY <1>4
  <2>2. \A w \in Ids : st.versions[w].origin \in Ids \cup {None}
    BY Fields DEF Version
  <2>3. v \in Ids /\ v \in Nat
    BY <1>3, <2>2, IdsNat DEF Spent, RejectedOK
  <2>4. CASE v \in Spent(st, rej)
    <3>1. v <= st.made /\ st.versions[v].status \in {"superseded", "none"}
      BY <2>4 DEF RejectedOK
    <3> QED
      BY <1>1, <1>5, <2>1, <2>3, <3>1 DEF Writes
  <2>5. CASE v \in add \cup ({clone} \ {None})
    BY <1>5, <2>3, <2>5
  <2> QED
    BY <1>3, <2>4, <2>5
<1>7. ASSUME NEW w \in Ids PROVE nx.versions[w].origin \notin rej \cup add
  <2>1. st.versions[w].origin \notin rej
    BY DEF RejectedOK
  <2>2. st.versions[w].origin # None => st.versions[w].origin \in Spent(st, rej)
    BY DEF Spent
  <2>3. None \notin rej \cup add
    BY IdsNat DEF RejectedOK
  <2> QED
    BY <1>2, <2>1, <2>2, <2>3
<1>8. rej \cup add \subseteq Ids
  BY DEF RejectedOK
<1> QED
  BY <1>4, <1>6, <1>7, <1>8 DEF RejectedOK

\* A row that was ready, or not the first of its season, stays so.
LEMMA ReadyKept ==
    ASSUME NEW s, NEW st, NEW nx, StreamOK(st), StreamOK(nx), NEW gone, Writes(st, nx, gone),
           RowsOK(st), NEW h \in st.history, NEW k \in nx.history, Row(h, k, gone),
           \A j \in nx.history : j.fence < k.fence => \E i \in st.history : Row(i, j, gone),
           Ready(s, st, h)
    PROVE  Ready(s, nx, k)
<1> SUFFICES ASSUME nx.versions[k.pub].live,
                    \A j \in nx.history : j.fence < k.fence =>
                        nx.versions[j.pub].season < nx.versions[k.pub].season,
                    NEW b \in nx.history, b.fence < k.fence
             PROVE  nx.versions[k.pub].activated
                        \/ ReadinessRuleHolds(s, nx.versions[k.pub].cutoff)
  BY DEF Ready
<1>1. k.pub = h.pub /\ k.fence = h.fence
  BY DEF Row
<1>2. \A i \in st.history : i.pub \in Ids /\ i.pub <= st.made
  BY RowType DEF RowsOK
<1>3. \A i \in st.history : Same(st.versions[i.pub], nx.versions[i.pub])
  BY <1>2 DEF Writes
<1>4. ASSUME NEW i \in st.history, i.fence < h.fence
      PROVE  st.versions[i.pub].season < st.versions[h.pub].season
  <2>1. PICK j \in nx.history : Row(i, j, gone)
    BY DEF Writes
  <2>2. j.pub = i.pub /\ j.fence = i.fence
    BY <2>1 DEF Row
  <2> QED
    BY <1>1, <1>3, <1>4, <2>2 DEF Same
<1>5. \E i \in st.history : i.fence < h.fence
  <2>1. PICK i \in st.history : Row(i, b, gone)
    OBVIOUS
  <2> QED
    BY <1>1, <2>1 DEF Row
<1>6. st.versions[h.pub].live
  BY <1>1, <1>3 DEF Same
<1>7. st.versions[h.pub].activated \/ ReadinessRuleHolds(s, st.versions[h.pub].cutoff)
  BY <1>4, <1>5, <1>6 DEF Ready
<1> QED
  BY <1>1, <1>3, <1>7 DEF Same

LEMMA WaitsStay ==
    ASSUME NEW s, NEW st, NEW nx, StreamOK(st), StreamOK(nx), NEW gone, Stays(st, nx, gone),
           RowsOK(st), WaitsOK(s, st), nx.active = st.active
    PROVE  WaitsOK(s, nx)
<1>1. Writes(st, nx, gone) /\ \A k \in nx.history : \E h \in st.history : Row(h, k, gone)
  BY DEF Stays
<1>2. ASSUME NEW k \in nx.history PROVE Ready(s, nx, k)
  <2>1. PICK h \in st.history : Row(h, k, gone)
    BY <1>1
  <2>2. Ready(s, st, h)
    BY DEF WaitsOK
  <2> QED
    BY <1>1, <2>1, <2>2, ReadyKept
<1> QED
  BY <1>1, <1>2 DEF WaitsOK

\* A move to a season that was served before, or as an operator or the
\* Readiness Rule decided, or of a stream that served nothing.
LEMMA WaitsMove ==
    ASSUME NEW s, NEW st, NEW nx, StreamOK(st), StreamOK(nx), NEW gone, Moves(st, nx, gone),
           RowsOK(st), WaitsOK(s, st),
           \/ st.history = {}
           \/ \E h \in st.history : st.versions[h.pub].season = nx.versions[nx.active].season
           \/ nx.versions[nx.active].activated
           \/ ReadinessRuleHolds(s, nx.versions[nx.active].cutoff)
    PROVE  WaitsOK(s, nx)
<1> DEFINE a == Activation(nx.active, nx.fence)
<1>1. Writes(st, nx, gone) /\ nx.active # None
  BY IdsNat DEF Moves
<1>2. a.pub = nx.active /\ a.fence = nx.fence /\ nx.fence = st.fence + 1 /\ st.fence \in Nat
  BY Fields DEF Moves, Activation
<1>3. \A k \in nx.history : k = a \/ \E h \in st.history : Row(h, k, gone)
  BY DEF Moves
<1> HIDE DEF a
<1>4. ASSUME NEW k \in nx.history, NEW h \in st.history, Row(h, k, gone) PROVE Ready(s, nx, k)
  <2>1. k.fence \in Nat /\ k.fence <= st.fence
    BY <1>4, RowType DEF Row
  <2>2. \A j \in nx.history : j.fence < k.fence => \E i \in st.history : Row(i, j, gone)
    BY <1>2, <1>3, <2>1
  <2>3. Ready(s, st, h)
    BY DEF WaitsOK
  <2> QED
    BY <1>1, <1>4, <2>2, <2>3, ReadyKept
<1>5. Ready(s, nx, a)
  <2> SUFFICES ASSUME \A j \in nx.history : j.fence < a.fence =>
                          nx.versions[j.pub].season < nx.versions[a.pub].season,
                      NEW b \in nx.history, b.fence < a.fence
               PROVE  nx.versions[a.pub].activated
                        \/ ReadinessRuleHolds(s, nx.versions[a.pub].cutoff)
    BY DEF Ready
  <2>1. PICK i \in st.history : Row(i, b, gone)
    BY <1>2, <1>3
  <2>2. ASSUME NEW h \in st.history PROVE st.versions[h.pub].season # nx.versions[nx.active].season
    <3>1. PICK j \in nx.history : Row(h, j, gone)
      BY <1>1 DEF Writes
    <3>2. j.pub = h.pub /\ j.fence = h.fence /\ h.fence \in Nat /\ h.fence <= st.fence
      BY <3>1, RowType DEF Row
    <3>3. h.pub \in Ids /\ h.pub <= st.made
      BY RowType DEF RowsOK
    <3>4. nx.versions[h.pub].season = st.versions[h.pub].season
      BY <1>1, <3>3 DEF Writes, Same
    <3>5. nx.versions[j.pub].season < nx.versions[a.pub].season
      BY <1>2, <3>2
    <3>6. nx.versions[h.pub].season \in Nat /\ nx.versions[nx.active].season \in Nat
      <4>1. nx.versions[h.pub] \in Version /\ nx.versions[nx.active] \in Version
        BY <1>1, <3>3, Fields
      <4> QED
        BY <4>1, Bounds DEF Version, Seasons, None
    <3> QED
      BY <1>2, <3>2, <3>4, <3>5, <3>6
  <2> QED
    BY <1>2, <2>1, <2>2
<1>6. \A k \in nx.history : Ready(s, nx, k)
  BY <1>3, <1>4, <1>5
<1> QED
  BY <1>1, <1>6 DEF WaitsOK

LEMMA RecordStay ==
    ASSUME NEW s, NEW st, NEW nx, StreamOK(st), StreamOK(nx), NEW gone, Stays(st, nx, gone),
           RowsOK(nx), nx.active = st.active, NEW cor, NEW fix, NEW rej, NEW m,
           RecordOK(s, st, m, cor, rej), m.from \in 1..st.made, m.fromPrevious \in 0..st.made,
           m.fromPrevious # None => st.versions[m.fromPrevious].live,
           \A v \in Ids : Offered(nx, v) => ~CitesIn(nx, v, fix),
           nx.previous # None => ~CitesIn(nx, nx.previous, fix)
    PROVE  RecordOK(s, nx, m, cor \cup fix, rej)
<1>1. Writes(st, nx, gone)
  BY DEF Stays
<1>2. /\ m.from \in Ids /\ m.from <= st.made
      /\ m.fromPrevious # None => m.fromPrevious \in Ids /\ m.fromPrevious <= st.made
  BY Fields, IdsNat DEF Ids, None
<1>3. ASSUME NEW v \in Ids, v <= st.made
      PROVE  /\ nx.versions[v].live = st.versions[v].live
             /\ CitesIn(nx, v, cor \cup fix) <=> CitesIn(st, v, cor) \/ CitesIn(nx, v, fix)
  BY <1>1, <1>3 DEF Writes, Same, CitesIn
<1>4. nx.active = m.to /\ nx.previous \in {m.from, None}
  BY DEF Stays, RecordOK
<1>5. ASSUME nx.previous = m.from PROVE ~CitesIn(nx, m.from, cor \cup fix)
  <2>1. m.from # None /\ st.previous = m.from
    BY <1>2, <1>5, IdsNat DEF Stays
  <2> QED
    BY <1>2, <1>3, <1>5, <2>1 DEF RecordOK
<1>6. ASSUME m.fromPrevious # None
      PROVE  /\ \E k \in nx.history : k.pub = m.fromPrevious
             /\ CitesIn(nx, m.fromPrevious, cor \cup fix) => Withdrawn(nx, m.fromPrevious)
  <2>1. PICK h \in st.history : h.pub = m.fromPrevious
    BY <1>6 DEF RecordOK
  <2>2. PICK k \in nx.history : Row(h, k, gone)
    BY <1>1 DEF Writes
  <2>3. k.pub = m.fromPrevious
    BY <2>1, <2>2 DEF Row
  <2>4. ASSUME CitesIn(st, m.fromPrevious, cor) PROVE Withdrawn(nx, m.fromPrevious)
    <3>1. Withdrawn(st, m.fromPrevious)
      BY <1>6, <2>4 DEF RecordOK
    <3> QED
      BY <1>1, <3>1, WithdrawnKept DEF Stays, Writes
  <2>5. ASSUME CitesIn(nx, m.fromPrevious, fix) PROVE Withdrawn(nx, m.fromPrevious)
    <3>1. ~Offered(nx, m.fromPrevious)
      BY <1>2, <1>6, <2>5
    <3>2. nx.versions[m.fromPrevious].live
      BY <1>2, <1>3, <1>6
    <3> QED
      BY <2>3, <3>1, <3>2 DEF Offered, Withdrawn
  <2> QED
    BY <1>2, <1>3, <1>6, <2>3, <2>4, <2>5
<1>7. Spent(nx, rej) \subseteq Spent(st, rej)
  <2>1. \A w \in Ids : nx.versions[w].origin = None \/ nx.versions[w].origin = st.versions[w].origin
    BY <1>1, SpentWrites DEF Stays
  <2> QED
    BY <2>1 DEF Spent
<1> QED
  BY <1>4, <1>5, <1>6, <1>7 DEF RecordOK

-----------------------------------------------------------------------------
(* The writers that keep the pointer. *)

LEMMA StaysReflexive ==
    ASSUME NEW st, StreamOK(st)
    PROVE  Stays(st, st, {})
  BY SameRows DEF Stays, Writes, Same

\* What _store_candidate_in_session leaves, and the version it returns.
Stored(st, nx, id, season, cutoff, evidence) ==
    /\ Stays(st, nx, {})
    /\ nx.made # st.made => nx.versions[nx.made] = NewVersion(season, cutoff, "candidate", evidence)
    /\ id \in Ids /\ id <= nx.made /\ nx.versions[id].evidence = evidence
    /\ nx.active = st.active /\ nx.previous = st.previous

LEMMA StoreEffect ==
    ASSUME NEW st, StreamOK(st), NEW season \in Seasons, NEW cutoff \in Cutoffs,
           NEW evidence \in SUBSET Source, NEW statuses, st.made < MaxVersions
    PROVE  Stored(st, StoreCandidate(st, season, cutoff, evidence, statuses),
                  StoredId(st, season, cutoff, evidence, statuses), season, cutoff, evidence)
<1>0. PICK nx : nx = StoreCandidate(st, season, cutoff, evidence, statuses)
  OBVIOUS
<1>a. PICK id : id = StoredId(st, season, cutoff, evidence, statuses)
  OBVIOUS
<1> DEFINE old == Existing(st, season, cutoff, evidence, statuses)
           D == Demote(st.versions, At(st, season, cutoff, statuses))
           new == NewVersion(season, cutoff, "candidate", evidence)
           V == [D EXCEPT ![st.made + 1] = new]
<1>1. CASE old # {}
  <2>1. nx = st /\ id \in old
    BY <1>0, <1>a, <1>1 DEF StoreCandidate, StoredId
  <2>2. id \in Ids /\ st.versions[id].evidence = evidence /\ st.versions[id].live
    BY <2>1 DEF Existing, Newest, At
  <2> HIDE DEF old
  <2> QED
    BY <1>0, <1>a, <2>1, <2>2, StaysReflexive DEF StreamOK, Stored
<1>2. CASE ~(old # {})
  <2>1. nx = [st EXCEPT !.made = st.made + 1, !.versions = V] /\ id = st.made + 1
    BY <1>0, <1>a, <1>2 DEF StoreCandidate, StoredId
  <2>2. /\ nx.active = st.active /\ nx.previous = st.previous /\ nx.made = st.made + 1
        /\ nx.versions = V /\ nx.history = st.history
    BY <2>1 DEF StreamOK, StreamState
  <2>3. st.made \in Nat /\ st.made + 1 \in Ids
    BY Fields, IdsNat DEF Ids
  <2>4. D \in [Ids -> Version] /\ st.versions \in [Ids -> Version]
    BY Fields, DemoteType
  <2>5. \A v \in Ids : /\ Same(st.versions[v], D[v])
                       /\ D[v].status \in {st.versions[v].status, "superseded"}
                       /\ v \notin At(st, season, cutoff, statuses) => D[v] = st.versions[v]
    BY <2>4, DemoteContent
  <2>6. \A v \in Ids : v > st.made => v \notin At(st, season, cutoff, statuses)
    <3> SUFFICES ASSUME NEW v \in Ids, v > st.made, st.versions[v].live PROVE FALSE
      BY DEF At
    <3>1. v <= st.made /\ v \in Nat
      BY IdsNat DEF StreamOK
    <3> QED
      BY <2>3, <3>1
  <2> HIDE DEF D, new
  <2>7. V[st.made + 1] = new /\ \A v \in Ids : v # st.made + 1 => V[v] = D[v]
    BY <2>3, <2>4
  <2> HIDE DEF V
  <2>8. new.evidence = evidence /\ new.origin = None
    BY NewContent DEF new
  <2>9. \A v \in Ids : (v <= st.made => v # st.made + 1) /\ (v > st.made + 1 => v > st.made /\ v # st.made + 1)
    BY <2>3, IdsNat
  <2>10. Writes(st, nx, {})
    BY <2>2, <2>5, <2>6, <2>7, <2>9, SameRows DEF Writes
  <2>11. Stays(st, nx, {})
    BY <2>2, <2>7, <2>8, <2>10, SameRows DEF Stays
  <2>12. id \in Ids /\ id <= nx.made /\ nx.versions[id].evidence = evidence /\ nx.versions[nx.made] = new
    BY <2>1, <2>2, <2>3, <2>7, <2>8
  <2> QED
    BY <1>0, <1>a, <2>2, <2>11, <2>12 DEF new, Stored
<1> QED
  BY <1>1, <1>2

LEMMA StoredMade ==
    ASSUME NEW st, StreamOK(st), NEW season \in Seasons, NEW cutoff \in Cutoffs,
           NEW evidence \in SUBSET Source, NEW statuses, st.made < MaxVersions
    PROVE  /\ StoredId(st, season, cutoff, evidence, statuses) \in Ids
           /\ StoredId(st, season, cutoff, evidence, statuses)
                <= StoreCandidate(st, season, cutoff, evidence, statuses).made
           /\ StoreCandidate(st, season, cutoff, evidence, statuses)
                .versions[StoredId(st, season, cutoff, evidence, statuses)].evidence = evidence
           /\ StoreCandidate(st, season, cutoff, evidence, statuses).active = st.active
<1>1. Stored(st, StoreCandidate(st, season, cutoff, evidence, statuses),
             StoredId(st, season, cutoff, evidence, statuses), season, cutoff, evidence)
  BY StoreEffect
<1> QED
  BY <1>1 DEF Stored

LEMMA DemoteEffect ==
    ASSUME NEW st, StreamOK(st), NEW ids, \A v \in ids \cap Ids : v <= st.made, st.active \notin ids
    PROVE  LET nx == [st EXCEPT !.versions = Demote(st.versions, ids)]
           IN  /\ Stays(st, nx, {}) /\ nx.made = st.made
               /\ nx.active = st.active /\ nx.previous = st.previous
<1> DEFINE D == Demote(st.versions, ids)
           nx == [st EXCEPT !.versions = D]
<1>1. /\ nx.active = st.active /\ nx.previous = st.previous /\ nx.made = st.made
      /\ nx.versions = D /\ nx.history = st.history
  BY DEF StreamOK, StreamState
<1>2. \A v \in Ids : /\ Same(st.versions[v], D[v])
                     /\ D[v].status \in {st.versions[v].status, "superseded"}
  BY Fields, DemoteContent
<1>3. \A v \in Ids : v > st.made => D[v] = st.versions[v]
  <2>1. \A v \in Ids : v > st.made => v \notin ids
    BY Fields, IdsNat
  <2> QED
    BY <2>1, Fields, DemoteContent
<1> HIDE DEF D, nx
<1>4. Writes(st, nx, {})
  BY <1>1, <1>2, <1>3, SameRows DEF Writes
<1>5. Stays(st, nx, {})
  BY <1>1, <1>4, SameRows DEF Stays
<1> QED
  BY <1>1, <1>5 DEF nx, D

LEMMA InvalidateEffect ==
    ASSUME NEW st, StreamOK(st), NEW season, NEW fixed, NEW keep
    PROVE  LET nx == Invalidate(st, season, fixed, keep)
           IN  /\ Stays(st, nx, StaleVersions(st, season, fixed, keep))
               /\ nx.made = st.made
               /\ nx.previous # None => nx.previous \notin StaleVersions(st, season, fixed, keep)
               /\ \A v \in StaleVersions(st, season, fixed, keep) :
                        nx.versions[v].status \notin {"active", "candidate"}
<1> DEFINE nx == Invalidate(st, season, fixed, keep)
           stale == StaleVersions(st, season, fixed, keep)
           D == Demote(st.versions, {v \in stale : st.versions[v].status \in {"active", "candidate"}})
<1>1. CASE stale = {}
  <2>1. nx = st
    BY <1>1 DEF Invalidate
  <2> HIDE DEF nx, stale
  <2> QED
    BY <1>1, <2>1, StaysReflexive DEF nx, stale
<1>2. CASE stale # {}
  <2>1. nx = [st EXCEPT
                !.fence = IF st.active \in stale THEN st.fence + 1 ELSE st.fence,
                !.active = IF st.active \in stale THEN None ELSE st.active,
                !.previous = IF st.previous \in stale \/ st.active \in stale \/ st.active = None
                             THEN None ELSE st.previous,
                !.versions = D,
                !.history = Revoke(st.history, stale)]
    BY <1>2 DEF Invalidate
  <2>2. stale \subseteq {v \in Ids : st.versions[v].live}
    BY DEF StaleVersions
  <2> HIDE DEF D, stale
  <2>3. /\ nx.active = (IF st.active \in stale THEN None ELSE st.active)
        /\ nx.previous = (IF st.previous \in stale \/ st.active \in stale \/ st.active = None
                          THEN None ELSE st.previous)
        /\ nx.versions = D /\ nx.history = Revoke(st.history, stale) /\ nx.made = st.made
    BY <2>1 DEF StreamOK, StreamState
  <2> HIDE DEF nx
  <2>4. \A v \in Ids : /\ Same(st.versions[v], D[v])
                       /\ D[v].status \in {st.versions[v].status, "superseded"}
                       /\ v \notin stale => D[v] = st.versions[v]
    BY Fields, DemoteContent DEF D
  <2>5. \A v \in Ids : v > st.made => v \notin stale
    <3>1. st.made \in Nat
      BY Fields, IdsNat
    <3> QED
      BY <2>2, <3>1, IdsNat DEF StreamOK
  <2>6. /\ \A h \in st.history : \E k \in nx.history : Row(h, k, stale)
        /\ \A k \in nx.history : \E h \in st.history : Row(h, k, stale)
    BY <2>3, Fields, RevokeRows
  <2>7. Writes(st, nx, stale)
    BY <2>3, <2>4, <2>5, <2>6 DEF Writes
  <2>8. Stays(st, nx, stale)
    BY <2>3, <2>6, <2>7 DEF Stays
  <2>9. \A v \in stale : nx.versions[v].status \notin {"active", "candidate"}
    BY <2>2, <2>3, <2>4, Fields, DemoteContent DEF D
  <2> QED
    BY <2>3, <2>8, <2>9 DEF nx, stale
<1> QED
  BY <1>1, <1>2

-----------------------------------------------------------------------------
(* One stream, one writer. *)

\* A composed version cites accepted sources of its season, and in a stream
\* of the ledger the current ones.
Accepted(s, season, evidence, led) ==
    \A f \in evidence : /\ f[1][1] = season
                        /\ f[2] <= led[f[1]]
                        /\ s \in Ledger => f[2] = led[f[1]]

\* The corrected items of a season, with their current source.
FixOK(season, fixed, led) ==
    \A f \in fixed : f \in Source /\ f[1][1] = season /\ f[2] = led[f[1]]

\* After a correction withdrew these sources nothing on offer cites them.
Clear(nx, led, fix) ==
    /\ \A e \in fix : e \in Source /\ e[2] < led[e[1]]
    /\ \A v \in Ids : Offered(nx, v) => ~CitesIn(nx, v, fix)
    /\ nx.previous # None => ~CitesIn(nx, nx.previous, fix)

\* What a cutover record says of its stream's versions.
MoveOK(st, m) ==
    /\ m.from \in 1..st.made
    /\ m.fromPrevious \in 0..st.made
    /\ m.fromPrevious # None => st.versions[m.fromPrevious].live

\* A legal step keeps the content of a stream, what the records of reversible
\* cutovers say of it, and the content of every version.
Keeps(s, st, nx, led, cor, ncor, rej, nrej) ==
    /\ StreamStep(st, nx)
    /\ ContentOK(s, nx, led, ncor, nrej)
    /\ \A m : nx.fence = st.fence /\ MoveOK(st, m) /\ RecordOK(s, st, m, cor, rej)
                => RecordOK(s, nx, m, ncor, nrej)
    /\ \A v \in Ids : v <= st.made => Same(st.versions[v], nx.versions[v])

LEMMA SourcePair ==
    ASSUME NEW e \in Source, NEW led \in [Items -> 1..(MaxSources + 1)]
    PROVE  e[1] \in Items /\ e[2] \in Nat /\ led[e[1]] \in Nat
<1>1. MaxSources \in Nat
  BY Bounds
<1> QED
  BY <1>1 DEF Source

LEMMA EvidenceSource ==
    ASSUME NEW st, StreamOK(st), NEW v \in Ids, NEW e \in st.versions[v].evidence
    PROVE  e \in Source
<1>1. st.versions[v] \in Version
  BY Fields
<1> QED
  BY <1>1 DEF Version

LEMMA KeepsTransitive ==
    ASSUME NEW s, NEW st, NEW md, NEW nx, StreamOK(st), NEW led, NEW cor, NEW mcor, NEW ncor,
           NEW rej, NEW mrej, NEW nrej,
           Keeps(s, st, md, led, cor, mcor, rej, mrej), Keeps(s, md, nx, led, mcor, ncor, mrej, nrej)
    PROVE  Keeps(s, st, nx, led, cor, ncor, rej, nrej)
<1>1. StreamStep(st, md) /\ StreamStep(md, nx) /\ StreamStep(st, nx)
  BY StepTransitive DEF Keeps
<1>2. /\ st.made \in Nat /\ md.made \in Nat /\ md.made >= st.made
      /\ st.fence \in Nat /\ md.fence \in Nat /\ nx.fence \in Nat
      /\ st.fence <= md.fence /\ md.fence <= nx.fence
  <2>1. StreamOK(md) /\ StreamOK(nx) /\ md.made >= st.made /\ md.fence >= st.fence /\ nx.fence >= md.fence
    BY <1>1 DEF StreamStep
  <2> QED
    BY <2>1, Fields, IdsNat
<1>3. \A v \in Ids : v <= st.made => v <= md.made
  BY <1>2, IdsNat
<1>4. ASSUME NEW v \in Ids, v <= st.made PROVE Same(st.versions[v], nx.versions[v])
  <2>1. Same(st.versions[v], md.versions[v]) /\ Same(md.versions[v], nx.versions[v])
    BY <1>3, <1>4 DEF Keeps
  <2> QED
    BY <2>1 DEF Same
<1>5. ASSUME NEW m, nx.fence = st.fence, MoveOK(st, m), RecordOK(s, st, m, cor, rej)
      PROVE  RecordOK(s, nx, m, ncor, nrej)
  <2>1. md.fence = st.fence /\ nx.fence = md.fence
    BY <1>2, <1>5
  <2>2. MoveOK(md, m)
    <3>1. m.from \in 1..md.made /\ m.fromPrevious \in 0..md.made
      BY <1>2, <1>5 DEF MoveOK
    <3>2. st.made <= MaxVersions
      BY Fields, IdsNat
    <3>3. m.fromPrevious # None => m.fromPrevious \in Ids
      BY <1>2, <1>5, <3>2, IdsNat DEF MoveOK, Ids, None
    <3>4. m.fromPrevious # None => md.versions[m.fromPrevious].live
      BY <1>1, <1>5, <3>3 DEF StreamStep, MoveOK
    <3> QED
      BY <3>1, <3>4 DEF MoveOK
  <2>3. RecordOK(s, md, m, mcor, mrej)
    BY <1>5, <2>1 DEF Keeps
  <2> QED
    BY <2>1, <2>2, <2>3 DEF Keeps
<1> QED
  BY <1>1, <1>4, <1>5 DEF Keeps

\* A step that keeps the pointer keeps the content of the stream.
LEMMA StayKeeps ==
    ASSUME NEW s, NEW st, NEW nx, StreamOK(st), StreamStep(st, nx), NEW gone, Stays(st, nx, gone),
           NEW led, NEW cor, NEW rej, ContentOK(s, st, led, cor, rej),
           NEW fix, Clear(nx, led, fix), s \notin Ledger => fix = {},
           nx.active = st.active \/ fix # {},
           nx.made # st.made => /\ \A e \in nx.versions[nx.made].evidence :
                                    e[1][1] = nx.versions[nx.made].season /\ e[2] <= led[e[1]]
                                /\ ~CitesIn(nx, nx.made, cor)
    PROVE  Keeps(s, st, nx, led, cor, cor \cup fix, rej, rej)
<1>1. StreamOK(nx) /\ Writes(st, nx, gone)
  BY DEF StreamStep, Stays
<1>2. RowsOK(st) /\ RowsOK(nx)
  BY <1>1, RowsStay DEF ContentOK
<1>3. EvidenceOK(nx, led)
  BY <1>1, <1>2, EvidenceWrites DEF ContentOK
<1>4. CorrectedOK(nx, led, cor \cup fix)
  BY <1>1, CorrectedStay DEF ContentOK, Clear
<1>5. s \notin Ledger => cor \cup fix = {}
  BY DEF ContentOK
<1>6. s \notin Parity \ Family => RejectedOK(nx, rej)
  BY <1>1, <1>2, RejectedStay DEF ContentOK
<1>7. ASSUME s \in Trailing, cor \cup fix = {} PROVE WaitsOK(s, nx)
  <2>1. nx.active = st.active /\ WaitsOK(s, st)
    BY <1>7 DEF ContentOK
  <2> QED
    BY <1>1, <1>2, <2>1, WaitsStay
<1>8. ASSUME NEW m, nx.fence = st.fence, MoveOK(st, m), RecordOK(s, st, m, cor, rej)
      PROVE  RecordOK(s, nx, m, cor \cup fix, rej)
  <2>1. nx.active = st.active
    BY <1>8, Fields DEF StreamStep
  <2> QED
    BY <1>1, <1>2, <1>8, <2>1, RecordStay DEF MoveOK, Clear
<1> QED
  BY <1>1, <1>2, <1>3, <1>4, <1>5, <1>6, <1>7, <1>8 DEF Keeps, ContentOK, Writes

\* A step that moves the pointer keeps it when the new authority was on offer,
\* or is a new version, and what it displaces has served.
LEMMA MoveKeeps ==
    ASSUME NEW s, NEW st, NEW nx, StreamOK(st), StreamStep(st, nx), NEW gone, Moves(st, nx, gone),
           NEW led, NEW cor, NEW rej, NEW nrej, ContentOK(s, st, led, cor, rej),
           nx.previous # None => \E h \in st.history : h.pub = nx.previous,
           nx.made # st.made => \A e \in nx.versions[nx.made].evidence :
                                    e[1][1] = nx.versions[nx.made].season /\ e[2] <= led[e[1]],
           ~CitesIn(nx, nx.active, cor),
           nx.previous # None /\ CitesIn(nx, nx.previous, cor) => Withdrawn(nx, nx.previous),
           RowsOK(nx) /\ s \notin Parity \ Family => RejectedOK(nx, nrej),
           s \in Trailing /\ cor = {} => WaitsOK(s, nx)
    PROVE  Keeps(s, st, nx, led, cor, cor, rej, nrej)
<1>1. StreamOK(nx) /\ Writes(st, nx, gone)
  BY DEF StreamStep, Moves
<1>2. RowsOK(nx)
  BY <1>1, RowsMove DEF ContentOK
<1>3. EvidenceOK(nx, led)
  BY <1>1, <1>2, EvidenceWrites DEF ContentOK
<1>4. CorrectedOK(nx, led, cor)
  BY <1>1, CorrectedMove DEF ContentOK
<1>5. nx.fence # st.fence
  BY Fields DEF Moves
<1> QED
  BY <1>1, <1>2, <1>3, <1>4, <1>5 DEF Keeps, ContentOK, Writes

LEMMA SameKeeps ==
    ASSUME NEW s, NEW st, StreamOK(st), NEW led, NEW cor, NEW rej, ContentOK(s, st, led, cor, rej)
    PROVE  Keeps(s, st, st, led, cor, cor, rej, rej)
  BY StepReflexive DEF Keeps, Same

\* After _invalidate_corrected_ledger_versions nothing on offer cites a source
\* that the correction withdrew, and a pointer it cleared had cited one.
LEMMA InvalidateClear ==
    ASSUME NEW st, StreamOK(st), RowsOK(st), NEW led \in [Items -> 1..(MaxSources + 1)],
           EvidenceOK(st, led), NEW season, NEW fixed, FixOK(season, fixed, led),
           NEW keep \in Ids, \A e \in st.versions[keep].evidence : e[2] = led[e[1]]
    PROVE  LET nx == Invalidate(st, season, fixed, keep)
           IN  /\ Clear(nx, led, Replaced(fixed))
               /\ nx.active = st.active \/ Replaced(fixed) # {}
<1> DEFINE nx == Invalidate(st, season, fixed, keep)
           stale == StaleVersions(st, season, fixed, keep)
           fix == Replaced(fixed)
<1>1. /\ Stays(st, nx, stale) /\ nx.made = st.made
      /\ nx.previous # None => nx.previous \notin stale
      /\ \A v \in stale : nx.versions[v].status \notin {"active", "candidate"}
  BY InvalidateEffect
<1>2. StreamOK(nx)
  BY InvalidateStep DEF StreamStep
<1>3. ASSUME NEW e \in fix
      PROVE  /\ e \in Source /\ e[2] < led[e[1]]
             /\ \E f \in fixed : e[1] = f[1] /\ e[2] # f[2] /\ e[1][1] = season
  <2>1. PICK f \in fixed : e[1] = f[1] /\ e[2] < f[2]
    BY DEF Replaced
  <2>2. e \in Source /\ f \in Source /\ f[1][1] = season /\ f[2] = led[f[1]]
    BY DEF Replaced, FixOK
  <2>3. e[2] \in Nat /\ f[2] \in Nat
    BY <2>2, SourcePair
  <2> QED
    BY <2>1, <2>2, <2>3
<1> HIDE DEF nx, fix
\* A version the writer passes over does not cite them.
<1>4. ASSUME NEW v \in Ids, v \notin stale, st.versions[v].live,
             Offered(st, v) \/ v = st.previous
      PROVE  ~CitesIn(st, v, fix)
  <2> SUFFICES ASSUME NEW e \in st.versions[v].evidence, e \in fix PROVE FALSE
    BY DEF CitesIn
  <2>1. PICK f \in fixed : e[1] = f[1] /\ e[2] # f[2] /\ e[1][1] = season
    BY <1>3
  <2>2. st.versions[v].season = season
    BY <2>1 DEF EvidenceOK
  <2>3. CASE v = keep
    <3>1. e[2] = led[e[1]] /\ e[2] < led[e[1]] /\ e \in Source
      BY <1>3, <2>3
    <3>2. e[2] \in Nat
      BY <3>1, SourcePair
    <3> QED
      BY <3>1, <3>2
  <2>4. CASE v # keep
    <3>1. \/ st.versions[v].status \in {"active", "candidate"}
          \/ v = st.previous
          \/ \E h \in st.history : h.pub = v /\ ~h.revoked
      BY <1>4, IdsNat DEF Offered, RowsOK
    <3> QED
      BY <1>4, <2>1, <2>2, <2>4, <3>1 DEF StaleVersions
  <2> QED
    BY <2>3, <2>4
<1>5. ASSUME NEW v \in Ids, v <= st.made
      PROVE  Same(st.versions[v], nx.versions[v]) /\ (CitesIn(nx, v, fix) <=> CitesIn(st, v, fix))
  BY <1>1, <1>5 DEF Stays, Writes, Same, CitesIn
<1>6. ASSUME NEW v \in Ids, Offered(nx, v) PROVE ~CitesIn(nx, v, fix)
  <2>1. v <= st.made
    BY <1>1, <1>2, <1>6 DEF Offered, StreamOK
  <2>2. v \notin stale
    <3> SUFFICES ASSUME v \in stale PROVE FALSE
      OBVIOUS
    <3> HIDE DEF stale
    <3>1. v # nx.active
      BY <1>1, IdsNat DEF Stays
    <3>2. PICK k \in nx.history : k.pub = v /\ ~k.revoked
      BY <1>1, <1>6, <3>1 DEF Offered
    <3>3. PICK h \in st.history : Row(h, k, stale)
      BY <1>1 DEF Stays
    <3> QED
      BY <3>2, <3>3 DEF Row
  <2>3. Offered(st, v)
    <3> HIDE DEF stale
    <3>1. CASE v = nx.active
      <4>1. v = st.active /\ v # None
        BY <1>1, <3>1, IdsNat DEF Stays
      <4> QED
        BY <4>1 DEF Offered, StreamOK
    <3>2. CASE v # nx.active
      BY <1>1, <1>2, <1>6, <2>1, <3>2, OfferedBefore DEF Stays
    <3> QED
      BY <3>1, <3>2
  <2> QED
    BY <1>4, <1>5, <2>1, <2>2, <2>3 DEF Offered
<1>7. ASSUME nx.previous # None PROVE ~CitesIn(nx, nx.previous, fix)
  <2>1. nx.previous = st.previous /\ nx.previous \notin stale
    BY <1>1, <1>7 DEF Stays
  <2>2. st.previous \in Ids /\ st.previous <= st.made /\ st.versions[st.previous].live
    BY <1>7, <2>1, Fields DEF StreamOK
  <2> QED
    BY <1>4, <1>5, <2>1, <2>2
<1>8. ASSUME nx.active # st.active PROVE fix # {}
  <2>1. st.active \in stale
    BY <1>1, <1>8 DEF Stays
  <2>2. PICK e \in st.versions[st.active].evidence, f \in fixed : e[1] = f[1] /\ e[2] # f[2]
    BY <2>1 DEF StaleVersions
  <2>3. st.active \in Ids
    BY <2>1 DEF StaleVersions
  <2>4. e \in Source /\ f \in Source /\ f[2] = led[f[1]] /\ e[2] <= led[e[1]]
    BY <2>3, EvidenceSource DEF FixOK, EvidenceOK
  <2>5. e[2] \in Nat /\ f[2] \in Nat
    BY <2>4, SourcePair
  <2>6. e[2] < f[2]
    BY <2>2, <2>4, <2>5
  <2> QED
    BY <2>2, <2>4, <2>6 DEF fix, Replaced
<1>9. Clear(nx, led, fix)
  BY <1>3, <1>6, <1>7 DEF Clear
<1> QED
  BY <1>8, <1>9 DEF nx, fix

LEMMA NothingReplaced ==
    Replaced({}) = {} /\ \A st, season, keep : Invalidate(st, season, {}, keep) = st
<1>1. Replaced({}) = {}
  BY DEF Replaced
<1>2. ASSUME NEW st, NEW season, NEW keep PROVE Invalidate(st, season, {}, keep) = st
  <2>1. StaleVersions(st, season, {}, keep) = {}
    BY DEF StaleVersions
  <2> QED
    BY <2>1 DEF Invalidate
<1> QED
  BY <1>1, <1>2

LEMMA InvalidateKeeps ==
    ASSUME NEW s, NEW st, StreamOK(st), NEW led \in [Items -> 1..(MaxSources + 1)],
           NEW cor, NEW rej, ContentOK(s, st, led, cor, rej),
           NEW season, NEW fixed, FixOK(season, fixed, led), s \notin Ledger => fixed = {},
           NEW keep \in Ids, Accepted(s, season, st.versions[keep].evidence, led)
    PROVE  Keeps(s, st, Invalidate(st, season, fixed, keep), led, cor, cor \cup Replaced(fixed), rej, rej)
<1>1. CASE s \notin Ledger
  <2>1. Invalidate(st, season, fixed, keep) = st /\ cor \cup Replaced(fixed) = cor
    BY <1>1, NothingReplaced
  <2> QED
    BY <2>1, SameKeeps
<1>2. CASE s \in Ledger
  <2> DEFINE nx == Invalidate(st, season, fixed, keep)
             stale == StaleVersions(st, season, fixed, keep)
             fix == Replaced(fixed)
  <2>1. \A e \in st.versions[keep].evidence : e[2] = led[e[1]]
    BY <1>2 DEF Accepted
  <2>2. Clear(nx, led, fix) /\ (nx.active = st.active \/ fix # {})
    BY <2>1, InvalidateClear DEF ContentOK
  <2>3. StreamStep(st, nx) /\ Stays(st, nx, stale) /\ nx.made = st.made
    BY InvalidateStep, InvalidateEffect
  <2> HIDE DEF nx, stale, fix
  <2>4. Keeps(s, st, nx, led, cor, cor \cup fix, rej, rej)
    BY <1>2, <2>2, <2>3, StayKeeps
  <2> QED
    BY <2>4 DEF nx, fix
<1> QED
  BY <1>1, <1>2

LEMMA NothingCleared ==
    ASSUME NEW nx, NEW led
    PROVE  Clear(nx, led, {})
  BY DEF Clear, CitesIn

\* What is composed from accepted sources cites none that was withdrawn.
LEMMA AcceptedUncorrected ==
    ASSUME NEW s, NEW st, NEW led \in [Items -> 1..(MaxSources + 1)], NEW cor, NEW rej,
           ContentOK(s, st, led, cor, rej),
           NEW season, NEW evidence, Accepted(s, season, evidence, led)
    PROVE  evidence \cap cor = {}
<1> SUFFICES ASSUME NEW e \in evidence, e \in cor PROVE FALSE
  OBVIOUS
<1>1. s \in Ledger /\ e[2] = led[e[1]]
  BY DEF ContentOK, Accepted
<1>2. e \in Source /\ e[2] < led[e[1]]
  BY DEF ContentOK, CorrectedOK
<1>3. e[2] \in Nat
  BY <1>2, SourcePair
<1> QED
  BY <1>1, <1>2, <1>3

LEMMA StoreKeeps ==
    ASSUME NEW s, NEW st, StreamOK(st), NEW led \in [Items -> 1..(MaxSources + 1)],
           NEW cor, NEW rej, ContentOK(s, st, led, cor, rej),
           NEW season \in Seasons, NEW cutoff \in Cutoffs, NEW evidence \in SUBSET Source,
           Accepted(s, season, evidence, led), st.made < MaxVersions,
           NEW statuses \in SUBSET Status, "active" \in statuses => st.active = None,
           "rollback" \notin statuses
    PROVE  Keeps(s, st, StoreCandidate(st, season, cutoff, evidence, statuses), led, cor, cor, rej, rej)
<1> DEFINE nx == StoreCandidate(st, season, cutoff, evidence, statuses)
<1>1. /\ Stays(st, nx, {}) /\ nx.active = st.active
      /\ nx.made # st.made => nx.versions[nx.made] = NewVersion(season, cutoff, "candidate", evidence)
  BY StoreEffect DEF Stored
<1>2. StreamStep(st, nx)
  BY StoreStep
<1> HIDE DEF nx
<1>3. nx.made # st.made => nx.versions[nx.made].evidence = evidence /\ nx.versions[nx.made].season = season
  BY <1>1, NewContent
<1>4. evidence \cap cor = {}
  BY AcceptedUncorrected
<1>5. nx.made # st.made => /\ \A e \in nx.versions[nx.made].evidence :
                                e[1][1] = nx.versions[nx.made].season /\ e[2] <= led[e[1]]
                           /\ ~CitesIn(nx, nx.made, cor)
  BY <1>3, <1>4 DEF Accepted, CitesIn
<1>6. Keeps(s, st, nx, led, cor, cor \cup {}, rej, rej)
  BY <1>1, <1>2, <1>5, NothingCleared, StayKeeps
<1>7. cor \cup {} = cor
  OBVIOUS
<1> QED
  BY <1>6, <1>7 DEF nx

LEMMA DemoteKeeps ==
    ASSUME NEW s, NEW st, StreamOK(st), NEW led, NEW cor, NEW rej, ContentOK(s, st, led, cor, rej),
           NEW ids, \A v \in ids \cap Ids : v <= st.made, st.active \notin ids
    PROVE  Keeps(s, st, [st EXCEPT !.versions = Demote(st.versions, ids)], led, cor, cor, rej, rej)
<1> DEFINE nx == [st EXCEPT !.versions = Demote(st.versions, ids)]
<1>1. Stays(st, nx, {}) /\ nx.active = st.active /\ nx.made = st.made
  BY DemoteEffect
<1>2. StreamStep(st, nx)
  BY DemoteStep
<1> HIDE DEF nx
<1>3. Keeps(s, st, nx, led, cor, cor \cup {}, rej, rej)
  BY <1>1, <1>2, NothingCleared, StayKeeps
<1>4. cor \cup {} = cor
  OBVIOUS
<1> QED
  BY <1>3, <1>4 DEF nx

\* A composition that does not take the pointer: it stays, or a correction of
\* the season it serves clears it.
Untaken(st, nx, season) ==
    \/ nx.active = st.active
    \/ nx.active = None /\ st.versions[st.active].season = season

LEMMA InvalidateUntaken ==
    ASSUME NEW st, StreamOK(st), NEW season, NEW fixed, NEW keep
    PROVE  LET nx == Invalidate(st, season, fixed, keep)
           IN  /\ Untaken(st, nx, season)
               /\ st.active = keep => nx.active = st.active
<1> DEFINE nx == Invalidate(st, season, fixed, keep)
           stale == StaleVersions(st, season, fixed, keep)
<1>1. Stays(st, nx, stale)
  BY InvalidateEffect
<1>2. \A v \in stale : v # keep /\ st.versions[v].season = season
  BY DEF StaleVersions
<1> HIDE DEF nx, stale
<1>3. nx.active \in {st.active, None} /\ (nx.active # st.active => st.active \in stale)
  BY <1>1 DEF Stays
<1> QED
  BY <1>2, <1>3 DEF nx, Untaken

LEMMA ComposeInactiveKeeps ==
    ASSUME NEW s, NEW st, StreamOK(st), NEW led \in [Items -> 1..(MaxSources + 1)],
           NEW cor, NEW rej, ContentOK(s, st, led, cor, rej),
           NEW season \in Seasons, NEW cutoff \in Cutoffs, NEW evidence \in SUBSET Source,
           Accepted(s, season, evidence, led), st.made < MaxVersions,
           NEW fixed, FixOK(season, fixed, led), s \notin Ledger => fixed = {}
    PROVE  LET nx == ComposeInactive(st, season, cutoff, evidence, fixed)
           IN  /\ Keeps(s, st, nx, led, cor, cor \cup Replaced(fixed), rej, rej)
               /\ Untaken(st, nx, season)
<1> DEFINE statuses == IF st.enabled THEN {"candidate"} ELSE {"candidate", "active"}
           md == StoreCandidate(st, season, cutoff, evidence, statuses)
           id == StoredId(st, season, cutoff, evidence, statuses)
           nx == Invalidate(md, season, fixed, id)
<1>1. /\ statuses \in SUBSET Status /\ "rollback" \notin statuses
      /\ "active" \in statuses => st.active = None
  BY DEF Status, StreamOK
<1>2. ComposeInactive(st, season, cutoff, evidence, fixed) = nx
  BY DEF ComposeInactive
<1> HIDE DEF statuses
<1>3. Keeps(s, st, md, led, cor, cor, rej, rej)
  BY <1>1, StoreKeeps
<1>4. id \in Ids /\ md.versions[id].evidence = evidence /\ md.active = st.active
  BY StoredMade
<1>5. StreamOK(md) /\ ContentOK(s, md, led, cor, rej)
  <2> HIDE DEF md
  <2> QED BY <1>3 DEF Keeps, StreamStep
<1> HIDE DEF md, id
<1>6. Accepted(s, season, md.versions[id].evidence, led)
  BY <1>4
<1>7. Keeps(s, md, nx, led, cor, cor \cup Replaced(fixed), rej, rej)
  BY <1>4, <1>5, <1>6, InvalidateKeeps
<1>8. Untaken(md, nx, season)
  BY <1>5, InvalidateUntaken
<1> HIDE DEF nx
<1>9. Keeps(s, st, nx, led, cor, cor \cup Replaced(fixed), rej, rej)
  BY <1>3, <1>7, KeepsTransitive
<1>10. st.active # None => md.versions[st.active].season = st.versions[st.active].season
  <2>1. st.active # None => st.active \in Ids /\ st.active <= st.made
    BY Fields DEF StreamOK
  <2> QED
    BY <1>3, <2>1 DEF Keeps, Same
<1>11. Untaken(st, nx, season)
  BY <1>4, <1>8, <1>10 DEF Untaken
<1> QED
  BY <1>2, <1>9, <1>11

LEMMA HoldKeeps ==
    ASSUME NEW s \in Streams, NEW st, StreamOK(st), NEW led \in [Items -> 1..(MaxSources + 1)],
           NEW cor, NEW rej, ContentOK(s, st, led, cor, rej), NEW published,
           NEW season \in Seasons, NEW cutoff \in Cutoffs, NEW evidence \in SUBSET Source,
           Accepted(s, season, evidence, led), st.made < MaxVersions,
           NEW fixed, FixOK(season, fixed, led), s \notin Ledger => fixed = {}
    PROVE  LET nx == Hold(s, st, published, season, cutoff, evidence, fixed)
           IN  /\ Keeps(s, st, nx, led, cor, cor \cup Replaced(fixed), rej, rej)
               /\ Untaken(st, nx, season)
<1> DEFINE stored == IF s \in Ledger THEN ComposeInactive(st, season, cutoff, evidence, fixed)
                     ELSE StoreCandidate(st, season, cutoff, evidence, {"candidate"})
           held == Candidates(stored, season)
           late == IF EarlierCutoff(s, st, published, season, cutoff)
                   THEN {StoredId(st, season, cutoff, evidence, {"candidate"})} ELSE {}
           ids == (held \ Newest(stored, held)) \cup late
           ncor == cor \cup Replaced(fixed)
           nx == [stored EXCEPT !.versions = Demote(stored.versions, ids)]
<1>1. Hold(s, st, published, season, cutoff, evidence, fixed) = nx
  BY DEF Hold
<1>2. Keeps(s, st, stored, led, cor, ncor, rej, rej) /\ Untaken(st, stored, season)
  <2>1. CASE s \in Ledger
    BY <2>1, ComposeInactiveKeeps
  <2>2. CASE s \notin Ledger
    <3>1. stored = StoreCandidate(st, season, cutoff, evidence, {"candidate"}) /\ ncor = cor
      BY <2>2, NothingReplaced
    <3>2. stored.active = st.active
      BY <2>2, StoreStep DEF Status
    <3>3. Keeps(s, st, StoreCandidate(st, season, cutoff, evidence, {"candidate"}), led, cor, cor, rej, rej)
      BY StoreKeeps DEF Status
    <3> QED
      BY <3>1, <3>2, <3>3 DEF Untaken
  <2> QED
    BY <2>1, <2>2
<1>3. StreamOK(stored) /\ ContentOK(s, stored, led, ncor, rej)
  <2> HIDE DEF stored, ncor
  <2> QED BY <1>2 DEF Keeps, StreamStep
<1>4. \A v \in late : v <= stored.made /\ v # stored.active
  <2> SUFFICES ASSUME EarlierCutoff(s, st, published, season, cutoff)
               PROVE  LET id == StoredId(st, season, cutoff, evidence, {"candidate"})
                      IN  id <= stored.made /\ id # stored.active
    OBVIOUS
  <2> DEFINE id == StoredId(st, season, cutoff, evidence, {"candidate"})
             old == Existing(st, season, cutoff, evidence, {"candidate"})
  <2>1. stored = StoreCandidate(st, season, cutoff, evidence, {"candidate"})
    BY DEF EarlierCutoff
  <2>2. id <= stored.made /\ stored.active = st.active
    <3> DEFINE md == StoreCandidate(st, season, cutoff, evidence, {"candidate"})
    <3>1. id <= md.made /\ md.active = st.active
      BY StoredMade
    <3> HIDE DEF md, id, stored
    <3> QED
      BY <2>1, <3>1 DEF md
  <2>3. st.made \in Nat /\ st.active <= st.made
    BY Fields, IdsNat DEF StreamOK
  <2>4. CASE old # {}
    <3>1. id \in old
      BY <2>4 DEF StoredId
    <3>2. id \in Ids /\ st.versions[id].status = "candidate"
      BY <3>1 DEF Existing, Newest, At
    <3> HIDE DEF id, old, stored
    <3>3. id # st.active
      BY <3>2, IdsNat DEF StreamOK
    <3> QED
      BY <2>2, <3>3 DEF id
  <2>5. CASE ~(old # {})
    <3>1. id = st.made + 1
      BY <2>5 DEF StoredId
    <3> HIDE DEF id, old, stored
    <3>2. id # st.active
      BY <2>3, <3>1, Fields, IdsNat DEF None
    <3> QED
      BY <2>2, <3>2 DEF id
  <2> QED
    BY <2>4, <2>5
<1> HIDE DEF stored, late
<1>5. \A v \in held : v \in Ids /\ v <= stored.made /\ v # stored.active
  <2> SUFFICES ASSUME NEW v \in held PROVE v \in Ids /\ v <= stored.made /\ v # stored.active
    OBVIOUS
  <2>1. v \in Ids /\ stored.versions[v].live /\ stored.versions[v].status = "candidate"
    BY DEF Candidates
  <2> QED
    BY <1>3, <2>1, IdsNat DEF StreamOK
<1> HIDE DEF held
<1>6. (\A v \in ids \cap Ids : v <= stored.made) /\ stored.active \notin ids
  BY <1>4, <1>5
<1> HIDE DEF ids, ncor
<1>7. Keeps(s, stored, nx, led, ncor, ncor, rej, rej) /\ nx.active = stored.active
  BY <1>3, <1>6, DemoteKeeps, DemoteEffect
<1> HIDE DEF nx
<1>8. Keeps(s, st, nx, led, cor, ncor, rej, rej)
  BY <1>2, <1>7, KeepsTransitive
<1> QED
  BY <1>1, <1>2, <1>7, <1>8 DEF Untaken, ncor

-----------------------------------------------------------------------------
(* The writers that move the pointer. *)

\* What the versions are after a move to a.
Content(st, V, a, n) ==
    /\ \A v \in Ids : v <= st.made =>
        /\ Same(st.versions[v], V[v])
        /\ \/ V[v].status \in {st.versions[v].status, "superseded"}
           \/ v = a /\ V[v].status = "active"
    /\ \A v \in Ids : v > n => V[v] = st.versions[v]

\* The rows of a history after some activations were revoked.
Rows(old, new, gone) ==
    /\ \A h \in old : \E k \in new : Row(h, k, gone)
    /\ \A k \in new : \E h \in old : Row(h, k, gone)

\* The stream after a move.
MovedTo(st, nx, gone, a, p, n, V) ==
    /\ Moves(st, nx, gone)
    /\ nx.active = a /\ nx.previous = p /\ nx.made = n /\ nx.versions = V

LEMMA MovedMoves ==
    ASSUME NEW st, StreamOK(st), NEW a \in Ids, NEW p, NEW n \in {st.made, st.made + 1},
           n # st.made => a = n, NEW V, Content(st, V, a, n),
           NEW history, NEW gone, Rows(st.history, history, gone), NEW f, f = st.fence + 1
    PROVE  MovedTo(st, Moved(st, f, a, p, n, V, history \cup {Activation(a, f)}), gone, a, p, n, V)
<1> DEFINE H == history \cup {Activation(a, f)}
           nx == Moved(st, f, a, p, n, V, H)
<1>1. /\ nx.fence = f /\ nx.active = a /\ nx.previous = p
      /\ nx.made = n /\ nx.versions = V /\ nx.history = H
  <2> HIDE DEF H
  <2> QED BY DEF Moved, StreamOK, StreamState
<1>2. Activation(a, f) \in H /\ \A k \in H : k = Activation(a, f) \/ k \in history
  OBVIOUS
<1>3. \A h \in st.history : \E k \in H : Row(h, k, gone)
  BY DEF Rows
<1>4. \A k \in H : k = Activation(a, f) \/ \E h \in st.history : Row(h, k, gone)
  BY DEF Rows
<1> HIDE DEF H, nx
<1>5. Writes(st, nx, gone)
  BY <1>1, <1>3 DEF Writes, Content
<1>6. Moves(st, nx, gone)
  BY <1>1, <1>2, <1>4, <1>5 DEF Moves
<1>7. MovedTo(st, nx, gone, a, p, n, V)
  BY <1>1, <1>6 DEF MovedTo
<1> QED
  BY <1>7 DEF nx, H

\* The versions when a new one takes the pointer and others are superseded.
LEMMA NewVersions ==
    ASSUME NEW st, StreamOK(st), RowsOK(st), st.made < MaxVersions, NEW ids,
           \A v \in ids \cap Ids : v <= st.made, NEW new, NEW n, n = st.made + 1
    PROVE  LET V == [Demote(st.versions, ids) EXCEPT ![n] = new]
           IN  /\ Content(st, V, n, n) /\ V[n] = new
               /\ \A v \in Ids : v <= st.made => V[v] = Demote(st.versions, ids)[v]
<1> DEFINE D == Demote(st.versions, ids)
           V == [D EXCEPT ![n] = new]
<1>1. st.made \in Nat /\ n \in Ids
  BY Fields, IdsNat DEF Ids
<1>2. D \in [Ids -> Version]
  BY Fields, DemoteType
<1>3. \A v \in Ids : /\ Same(st.versions[v], D[v])
                     /\ D[v].status \in {st.versions[v].status, "superseded"}
                     /\ v \notin ids => D[v] = st.versions[v]
  BY Fields, DemoteContent
<1> HIDE DEF D
<1>4. V[n] = new /\ \A v \in Ids : v # n => V[v] = D[v]
  BY <1>1, <1>2
<1>5. \A v \in Ids : (v <= st.made => v # n) /\ (v > n => v # n /\ v \notin ids)
  BY <1>1, IdsNat
<1> HIDE DEF V
<1>6. Content(st, V, n, n)
  BY <1>3, <1>4, <1>5 DEF Content
<1> QED
  BY <1>4, <1>5, <1>6 DEF V, D

LEMMA RowsSame ==
    ASSUME NEW history
    PROVE  Rows(history, history, {})
  BY SameRows DEF Rows

\* What the pointer names is on offer and has a row in the history.
LEMMA ServedOffered ==
    ASSUME NEW s, NEW st, StreamOK(st), NEW led, NEW cor, NEW rej, ContentOK(s, st, led, cor, rej)
    PROVE  /\ st.active # None => /\ st.active \in Ids /\ st.active <= st.made
                                  /\ Offered(st, st.active)
                                  /\ ~CitesIn(st, st.active, cor)
                                  /\ \E h \in st.history : h.pub = st.active
           /\ st.previous # None => /\ st.previous \in Ids /\ st.previous <= st.made
                                    /\ \E h \in st.history : h.pub = st.previous
<1>1. /\ st.active # None => st.active \in Ids /\ st.active <= st.made
      /\ st.previous # None => st.previous \in Ids /\ st.previous <= st.made
  BY Fields DEF StreamOK
<1>2. st.active # None => Offered(st, st.active)
  BY DEF Offered, StreamOK
<1>3. st.active # None => ~CitesIn(st, st.active, cor)
  BY <1>1, <1>2 DEF ContentOK, CorrectedOK
<1> QED
  BY <1>1, <1>2, <1>3 DEF ContentOK, RowsOK

\* A newly composed version takes the pointer; a repair rejects the old one.
LEMMA NewKeeps ==
    ASSUME NEW s, NEW st, NEW nx, StreamOK(st), StreamStep(st, nx), Moves(st, nx, {}),
           NEW led \in [Items -> 1..(MaxSources + 1)], NEW cor, NEW rej, ContentOK(s, st, led, cor, rej),
           nx.active = st.made + 1, nx.made = st.made + 1, nx.previous \in {None, st.active},
           NEW season, Accepted(s, season, nx.versions[nx.active].evidence, led),
           nx.versions[nx.active].season = season, nx.versions[nx.active].origin = None,
           \/ st.active = None
           \/ st.versions[st.active].season = season
           \/ ReadinessRuleHolds(s, nx.versions[nx.active].cutoff),
           NEW add \in SUBSET {st.active}, st.active = None => add = {},
           add # {} => nx.previous = None /\ nx.versions[st.active].status = "superseded"
    PROVE  Keeps(s, st, nx, led, cor, cor, rej, rej \cup add)
<1>1. /\ st.made \in Nat /\ nx.made # st.made /\ nx.active \in Ids
      /\ nx.active # st.active /\ nx.active # st.previous /\ StreamOK(nx) /\ Writes(st, nx, {})
  <2>1. st.made \in Nat /\ st.active <= st.made /\ st.previous <= st.made
    BY Fields, IdsNat DEF StreamOK
  <2>2. st.active \in Nat /\ st.previous \in Nat
    BY Fields, Bounds DEF Ids, None
  <2> QED
    BY <2>1, <2>2 DEF Moves, StreamStep
<1>2. st.active # None => /\ st.active \in Ids /\ st.active <= st.made /\ ~CitesIn(st, st.active, cor)
                          /\ \E h \in st.history : h.pub = st.active
  BY ServedOffered
<1>3. ~CitesIn(nx, nx.active, cor)
  BY AcceptedUncorrected DEF CitesIn
<1>4. st.active # None => ~CitesIn(nx, st.active, cor)
  BY <1>1, <1>2 DEF Writes, Same, CitesIn
<1>5. \A e \in nx.versions[nx.made].evidence : e[1][1] = nx.versions[nx.made].season /\ e[2] <= led[e[1]]
  BY DEF Accepted
<1>6. ASSUME RowsOK(nx), s \notin Parity \ Family PROVE RejectedOK(nx, rej \cup add)
  <2>1. RejectedOK(st, rej)
    BY <1>6 DEF ContentOK
  <2>2. add \in SUBSET Ids /\ None \in Ids \cup {None} /\ {None} \ {None} = {}
    BY <1>2
  <2>3. \A v \in add : v <= st.made /\ nx.versions[v].status \in {"superseded", "none"}
    BY <1>2
  <2>4. nx.active \notin Spent(st, rej)
    BY <1>1, <2>1 DEF RejectedOK
  <2>5. st.active \notin Spent(st, rej) /\ None \notin rej \cup Spent(st, rej)
    BY <2>1, IdsNat DEF RejectedOK, Spent
  <2>6. nx.previous # nx.active /\ nx.active \notin add /\ nx.previous \notin add
    BY <1>1, IdsNat
  <2>7. /\ {nx.active, nx.previous} \cap (Spent(st, rej) \cup add \cup ({None} \ {None})) = {}
        /\ add \cap Spent(st, rej) = {} /\ None \notin rej \cup add
    BY <2>2, <2>4, <2>5, <2>6, IdsNat
  <2>8. /\ nx.made # st.made => nx.versions[nx.made].origin = None
        /\ \A v \in add \cup ({None} \ {None}) :
                v <= st.made /\ nx.versions[v].status \in {"superseded", "none"}
    BY <2>2, <2>3
  <2> QED
    BY <1>1, <1>6, <2>1, <2>2, <2>6, <2>7, <2>8, RejectedMove
<1>7. ASSUME s \in Trailing, cor = {} PROVE WaitsOK(s, nx)
  <2>1. RowsOK(st) /\ WaitsOK(s, st)
    BY <1>7 DEF ContentOK
  <2>2. st.active = None => st.history = {}
    BY <2>1 DEF WaitsOK
  <2>3. \/ st.history = {}
        \/ \E h \in st.history : st.versions[h.pub].season = nx.versions[nx.active].season
        \/ ReadinessRuleHolds(s, nx.versions[nx.active].cutoff)
    BY <1>2, <2>2
  <2> QED
    BY <1>1, <2>1, <2>3, WaitsMove
<1>8. nx.previous # None => /\ \E h \in st.history : h.pub = nx.previous
                            /\ ~CitesIn(nx, nx.previous, cor)
  BY <1>2, <1>4
<1> QED
  BY <1>3, <1>5, <1>6, <1>7, <1>8, MoveKeeps

\* What a new composition leaves.
Advanced(st, nx, prev, season, cutoff, evidence) ==
    /\ Moves(st, nx, {})
    /\ nx.previous = prev
    /\ nx.active = st.made + 1 /\ nx.made = st.made + 1
    /\ nx.versions[st.made + 1] = NewVersion(season, cutoff, "active", evidence)

LEMMA AdvanceEffect ==
    ASSUME NEW st, StreamOK(st), RowsOK(st), st.made < MaxVersions,
           NEW season, NEW cutoff, NEW evidence, NEW discard
    PROVE  Advanced(st, Advance(st, season, cutoff, evidence, discard),
                    IF discard THEN None ELSE st.active, season, cutoff, evidence)
<1> DEFINE ids == At(st, season, cutoff, {"active", "candidate"})
           new == NewVersion(season, cutoff, "active", evidence)
           prev == IF discard THEN None ELSE st.active
           n == st.made + 1
           f == st.fence + 1
           V == [Demote(st.versions, ids) EXCEPT ![n] = new]
           nx == Moved(st, f, n, prev, n, V, st.history \cup {Activation(n, f)})
<1>1. Advance(st, season, cutoff, evidence, discard) = nx
  BY DEF Advance, Moved
<1>2. st.made \in Nat /\ n \in Ids /\ n \in {st.made, st.made + 1} /\ n = st.made + 1 /\ f = st.fence + 1
  BY Fields, IdsNat DEF Ids
<1>3. \A v \in ids \cap Ids : v <= st.made
  BY DEF At, StreamOK
<1> HIDE DEF ids, new, prev, n, f
<1>4. Content(st, V, n, n) /\ V[n] = new
  BY <1>2, <1>3, NewVersions
<1> HIDE DEF V
<1>5. MovedTo(st, nx, {}, n, prev, n, V)
  <2>1. Rows(st.history, st.history, {})
    BY RowsSame
  <2> QED
    BY <1>2, <1>4, <2>1, MovedMoves
<1> HIDE DEF nx
<1>6. Advanced(st, nx, prev, season, cutoff, evidence)
  BY <1>2, <1>4, <1>5 DEF Advanced, MovedTo, new
<1> QED
  BY <1>1, <1>6 DEF prev

LEMMA AdvanceKeeps ==
    ASSUME NEW s, NEW st, StreamOK(st), st.enabled, st.made < MaxVersions,
           NEW led \in [Items -> 1..(MaxSources + 1)], NEW cor, NEW rej, ContentOK(s, st, led, cor, rej),
           NEW season \in Seasons, NEW cutoff \in Cutoffs, NEW evidence \in SUBSET Source,
           Accepted(s, season, evidence, led),
           \/ st.active = None
           \/ st.versions[st.active].season = season
           \/ ReadinessRuleHolds(s, cutoff)
    PROVE  Keeps(s, st, Advance(st, season, cutoff, evidence, FALSE), led, cor, cor, rej, rej)
<1> DEFINE nx == Advance(st, season, cutoff, evidence, FALSE)
<1>1. StreamStep(st, nx)
  BY AdvanceStep
<1>2. Advanced(st, nx, st.active, season, cutoff, evidence)
  <2>1. Advanced(st, nx, IF FALSE THEN None ELSE st.active, season, cutoff, evidence)
    BY AdvanceEffect DEF ContentOK
  <2> HIDE DEF nx
  <2> QED
    BY <2>1
<1> HIDE DEF nx
<1>3. Moves(st, nx, {}) /\ nx.previous = st.active /\ nx.active = st.made + 1 /\ nx.made = st.made + 1
  BY <1>2 DEF Advanced
<1>4. nx.versions[nx.active] = NewVersion(season, cutoff, "active", evidence)
  BY <1>2 DEF Advanced
<1>5. /\ nx.versions[nx.active].evidence = evidence /\ nx.versions[nx.active].season = season
      /\ nx.versions[nx.active].cutoff = cutoff /\ nx.versions[nx.active].origin = None
  BY <1>4, NewContent
<1>6. Keeps(s, st, nx, led, cor, cor, rej, rej \cup {})
  BY <1>1, <1>3, <1>5, NewKeeps
<1>7. rej \cup {} = rej
  OBVIOUS
<1> QED
  BY <1>6, <1>7 DEF nx

LEMMA InvalidateKept ==
    ASSUME NEW st, StreamOK(st), NEW season, NEW fixed, NEW keep \in Ids
    PROVE  Invalidate(st, season, fixed, keep).versions[keep] = st.versions[keep]
<1> DEFINE stale == StaleVersions(st, season, fixed, keep)
           gone == {v \in stale : st.versions[v].status \in {"active", "candidate"}}
           nx == Invalidate(st, season, fixed, keep)
<1>1. keep \notin gone
  BY DEF StaleVersions
<1>2. CASE stale = {}
  BY <1>2 DEF Invalidate
<1>3. CASE stale # {}
  <2>1. nx.versions = Demote(st.versions, gone)
    BY <1>3 DEF Invalidate, StreamOK, StreamState
  <2> HIDE DEF gone, nx
  <2>2. nx.versions[keep] = st.versions[keep]
    BY <1>1, <2>1, Fields, DemoteType
  <2> QED
    BY <2>2 DEF nx
<1> QED
  BY <1>2, <1>3

\* How a composition ends: the pointer is not taken, or by the new version.
Composes(s, st, nx, published, season, cutoff, evidence) ==
    \/ /\ Untaken(st, nx, season)
       /\ nx.active # st.active => Held(s, st, published, season, cutoff)
    \/ /\ nx.active = st.made + 1
       /\ ~Composed(st, season, cutoff, evidence)
       /\ st.active # None => ~Held(s, st, published, season, cutoff)
       /\ nx.versions[nx.active] = NewVersion(season, cutoff, "active", evidence)

LEMMA ComposeActiveKeeps ==
    ASSUME NEW s \in Streams, NEW st, StreamOK(st), st.enabled, st.made < MaxVersions,
           NEW led \in [Items -> 1..(MaxSources + 1)], NEW cor, NEW rej, ContentOK(s, st, led, cor, rej),
           NEW published, NEW season \in Seasons, NEW cutoff \in Cutoffs, NEW evidence \in SUBSET Source,
           Accepted(s, season, evidence, led),
           NEW fixed, FixOK(season, fixed, led), s \notin Ledger => fixed = {}
    PROVE  LET nx == ComposeActive(s, st, published, season, cutoff, evidence, fixed)
           IN  /\ Keeps(s, st, nx, led, cor, cor \cup Replaced(fixed), rej, rej)
               /\ Composes(s, st, nx, published, season, cutoff, evidence)
<1> DEFINE nx == ComposeActive(s, st, published, season, cutoff, evidence, fixed)
           ncor == cor \cup Replaced(fixed)
<1>1. CASE Composed(st, season, cutoff, evidence)
  <2>1. nx = Invalidate(st, season, fixed, st.active)
    BY <1>1 DEF ComposeActive
  <2>2. st.active \in Ids /\ st.versions[st.active].evidence = evidence
    BY <1>1, Fields DEF Composed
  <2>3. Accepted(s, season, st.versions[st.active].evidence, led)
    BY <2>2
  <2>4. Keeps(s, st, Invalidate(st, season, fixed, st.active), led, cor, ncor, rej, rej)
    BY <2>2, <2>3, InvalidateKeeps
  <2>5. Invalidate(st, season, fixed, st.active).active = st.active
    BY InvalidateUntaken
  <2> HIDE DEF nx, ncor
  <2>6. Composes(s, st, nx, published, season, cutoff, evidence)
    BY <2>1, <2>5 DEF Composes, Untaken
  <2> QED
    BY <2>1, <2>4, <2>6 DEF nx, ncor
<1>2. CASE ~Composed(st, season, cutoff, evidence)
           /\ (st.active # None /\ Held(s, st, published, season, cutoff))
  <2> DEFINE md == Hold(s, st, published, season, cutoff, evidence, fixed)
  <2>1. nx = md
    BY <1>2 DEF ComposeActive
  <2>2. Keeps(s, st, md, led, cor, ncor, rej, rej) /\ Untaken(st, md, season)
    BY HoldKeeps
  <2> HIDE DEF nx, md, ncor
  <2>3. Composes(s, st, nx, published, season, cutoff, evidence)
    BY <1>2, <2>1, <2>2 DEF Composes
  <2> QED
    BY <2>1, <2>2, <2>3 DEF nx, ncor
<1>3. CASE ~Composed(st, season, cutoff, evidence)
           /\ ~(st.active # None /\ Held(s, st, published, season, cutoff))
  <2> DEFINE md == Advance(st, season, cutoff, evidence, FALSE)
             n == st.made + 1
  <2>1. nx = Invalidate(md, season, fixed, n)
    BY <1>3 DEF ComposeActive
  <2>2. \/ st.active = None
        \/ st.versions[st.active].season = season
        \/ ReadinessRuleHolds(s, cutoff)
    BY <1>3 DEF Held, NotReady
  <2>3. Keeps(s, st, md, led, cor, cor, rej, rej)
    BY <2>2, AdvanceKeeps
  <2>4. md.active = n /\ md.versions[n] = NewVersion(season, cutoff, "active", evidence)
    <3>1. PICK p : Advanced(st, md, p, season, cutoff, evidence)
      BY AdvanceEffect DEF ContentOK
    <3> QED
      BY <3>1 DEF Advanced
  <2>5. n \in Ids
    BY Fields, IdsNat DEF Ids
  <2>6. StreamOK(md) /\ ContentOK(s, md, led, cor, rej)
    <3> HIDE DEF md
    <3> QED BY <2>3 DEF Keeps, StreamStep
  <2> HIDE DEF md, n, ncor, nx
  <2>7. Accepted(s, season, md.versions[n].evidence, led)
    BY <2>4, NewContent
  <2>8. Keeps(s, md, Invalidate(md, season, fixed, n), led, cor, ncor, rej, rej)
    BY <2>5, <2>6, <2>7, InvalidateKeeps DEF ncor
  <2>9. Keeps(s, st, nx, led, cor, ncor, rej, rej)
    BY <2>1, <2>3, <2>8, KeepsTransitive
  <2>10. nx.active = n /\ nx.versions[n] = NewVersion(season, cutoff, "active", evidence)
    BY <2>1, <2>4, <2>5, <2>6, InvalidateUntaken, InvalidateKept
  <2>11. Composes(s, st, nx, published, season, cutoff, evidence)
    BY <1>3, <2>10 DEF Composes, n
  <2> QED
    BY <2>9, <2>11 DEF nx, ncor
<1> QED
  BY <1>1, <1>2, <1>3

\* One stream of promote_repair_group.
Replacement(st, season, cutoff, evidence) ==
    Displace(Advance(st, season, cutoff, evidence, TRUE), st.active)

LEMMA ReplaceKeeps ==
    ASSUME NEW s, NEW st, StreamOK(st), st.enabled, st.made < MaxVersions, st.active # None,
           NEW led \in [Items -> 1..(MaxSources + 1)], NEW cor, NEW rej, ContentOK(s, st, led, cor, rej),
           NEW season \in Seasons, NEW cutoff \in Cutoffs, NEW evidence \in SUBSET Source,
           Accepted(s, season, evidence, led), st.versions[st.active].season = season
    PROVE  LET nx == Replacement(st, season, cutoff, evidence)
           IN  /\ Keeps(s, st, nx, led, cor, cor, rej, rej \cup {st.active})
               /\ nx.active = st.made + 1
               /\ nx.versions[nx.active] = NewVersion(season, cutoff, "active", evidence)
<1> DEFINE md == Advance(st, season, cutoff, evidence, TRUE)
           nx == Displace(md, st.active)
           n == st.made + 1
<1>1. StreamStep(st, nx) /\ StreamOK(md)
  BY ReplaceStep, AdvanceStep DEF StreamStep
<1>2. Advanced(st, md, None, season, cutoff, evidence)
  <2>1. Advanced(st, md, IF TRUE THEN None ELSE st.active, season, cutoff, evidence)
    BY AdvanceEffect DEF ContentOK
  <2> HIDE DEF md
  <2> QED
    BY <2>1
<1> HIDE DEF md
<1>3. /\ Moves(st, md, {}) /\ md.previous = None /\ md.active = n /\ md.made = n
      /\ md.versions[n] = NewVersion(season, cutoff, "active", evidence)
  BY <1>2 DEF Advanced
<1>4. /\ nx.active = md.active /\ nx.previous = md.previous /\ nx.made = md.made
      /\ nx.fence = md.fence /\ nx.history = md.history
      /\ nx.versions = Demote(md.versions, {st.active})
  BY <1>1 DEF Displace, StreamOK, StreamState
<1>5. /\ st.made \in Nat /\ st.active \in Ids /\ st.active <= st.made /\ st.active # n
      /\ n \in Ids /\ st.active \in Nat
  <2>1. st.made \in Nat /\ st.active \in Ids /\ st.active <= st.made
    BY Fields, IdsNat DEF StreamOK
  <2> QED
    BY <2>1, IdsNat DEF Ids
<1> HIDE DEF nx
<1>6. \A v \in Ids : /\ Same(md.versions[v], nx.versions[v])
                     /\ v = st.active => nx.versions[v].status = "superseded"
                     /\ v # st.active => nx.versions[v] = md.versions[v]
  BY <1>1, <1>4, Fields, DemoteContent
<1>7. Writes(st, md, {})
  BY <1>3 DEF Moves
<1>8. /\ \A v \in Ids : v <= st.made =>
            /\ Same(st.versions[v], nx.versions[v])
            /\ \/ nx.versions[v].status \in {st.versions[v].status, "superseded"}
               \/ v = nx.active /\ nx.versions[v].status = "active"
      /\ \A v \in Ids : v > nx.made => nx.versions[v] = st.versions[v]
  <2>1. ASSUME NEW v \in Ids, v <= st.made
        PROVE  /\ Same(st.versions[v], nx.versions[v])
               /\ \/ nx.versions[v].status \in {st.versions[v].status, "superseded"}
                  \/ v = nx.active /\ nx.versions[v].status = "active"
    <3>1. /\ Same(st.versions[v], md.versions[v])
          /\ \/ md.versions[v].status \in {st.versions[v].status, "superseded"}
             \/ v = md.active /\ md.versions[v].status = "active"
      BY <1>7, <2>1 DEF Writes
    <3>2. Same(st.versions[v], nx.versions[v])
      BY <1>6, <3>1 DEF Same
    <3>3. nx.versions[v].status \in {md.versions[v].status, "superseded"}
      BY <1>6
    <3> QED
      BY <1>4, <3>1, <3>2, <3>3
  <2>2. ASSUME NEW v \in Ids, v > nx.made PROVE nx.versions[v] = st.versions[v]
    <3>1. v # st.active
      BY <1>3, <1>4, <1>5, <2>2
    <3> QED
      BY <1>4, <1>6, <1>7, <2>2, <3>1, ZenonT(30) DEF Writes
  <2> QED
    BY <2>1, <2>2
<1>9. Writes(st, nx, {})
  BY <1>4, <1>7, <1>8 DEF Writes
<1>10. Moves(st, nx, {})
  BY <1>3, <1>4, <1>9 DEF Moves
<1>11. nx.versions[nx.active] = NewVersion(season, cutoff, "active", evidence)
  BY <1>3, <1>4, <1>5, <1>6
<1>12. /\ nx.versions[nx.active].evidence = evidence /\ nx.versions[nx.active].season = season
       /\ nx.versions[nx.active].origin = None
  BY <1>11, NewContent
<1>13. Keeps(s, st, nx, led, cor, cor, rej, rej \cup {st.active})
  BY <1>1, <1>3, <1>4, <1>5, <1>6, <1>10, <1>12, NewKeeps
<1> QED
  BY <1>3, <1>4, <1>11, <1>13 DEF nx, md, Replacement

\* The versions when the pointer takes an existing one.
LEMMA TakenContent ==
    ASSUME NEW st, StreamOK(st), NEW ids, \A w \in ids \cap Ids : w <= st.made,
           NEW v \in Ids, v <= st.made
    PROVE  /\ Content(st, Taken(Demote(st.versions, ids), v), v, st.made)
           /\ Taken(Demote(st.versions, ids), v)[v].activated
<1> DEFINE D == Demote(st.versions, ids)
           X == [D[v] EXCEPT !.status = "active", !.activated = TRUE]
           V == Taken(D, v)
<1>1. D \in [Ids -> Version]
  BY Fields, DemoteType
<1>2. \A w \in Ids : /\ Same(st.versions[w], D[w])
                     /\ D[w].status \in {st.versions[w].status, "superseded"}
                     /\ w \notin ids => D[w] = st.versions[w]
  BY Fields, DemoteContent
<1>3. V = [D EXCEPT ![v] = X]
  BY DEF Taken
<1> HIDE DEF D
<1>4. D[v] \in Version
  BY <1>1
<1>5. Same(D[v], X) /\ X.status = "active" /\ X.activated
  BY <1>4 DEF Version, Same
<1> HIDE DEF X, V
<1>6. V[v] = X /\ \A w \in Ids : w # v => V[w] = D[w]
  BY <1>1, <1>3
<1>7. \A w \in Ids : w > st.made => w # v /\ w \notin ids
  BY Fields, IdsNat
<1>8. Same(st.versions[v], X)
  BY <1>2, <1>5 DEF Same
<1>9. Content(st, V, v, st.made)
  BY <1>2, <1>5, <1>6, <1>7, <1>8 DEF Content
<1> QED
  BY <1>5, <1>6, <1>9 DEF V, D

\* What the pointer takes was on offer: a candidate, or (of a parity stream
\* outside the family) a version that is already active.
LEMMA TakeKeeps ==
    ASSUME NEW s, NEW st, NEW nx, StreamOK(st), StreamStep(st, nx), Moves(st, nx, {}),
           NEW led, NEW cor, NEW rej, ContentOK(s, st, led, cor, rej),
           NEW v \in Ids, v <= st.made, Offered(st, v), nx.active = v, nx.previous = st.active,
           nx.made = st.made, nx.versions[v].activated,
           s \notin Parity \ Family => /\ v # st.active
                                       /\ st.versions[v].status \in {"candidate", "active"}
    PROVE  Keeps(s, st, nx, led, cor, cor, rej, rej)
<1>1. StreamOK(nx) /\ Writes(st, nx, {})
  BY DEF StreamStep, Moves
<1>2. st.active # None => /\ st.active \in Ids /\ st.active <= st.made /\ ~CitesIn(st, st.active, cor)
                          /\ \E h \in st.history : h.pub = st.active
  BY ServedOffered
<1>3. ~CitesIn(st, v, cor)
  BY DEF ContentOK, CorrectedOK
<1>4. \A w \in Ids : w <= st.made => (CitesIn(nx, w, cor) <=> CitesIn(st, w, cor))
  BY <1>1 DEF Writes, Same, CitesIn
<1>5. ASSUME RowsOK(nx), s \notin Parity \ Family PROVE RejectedOK(nx, rej)
  <2>1. RejectedOK(st, rej) /\ v # st.active /\ st.versions[v].status \in {"candidate", "active"}
    BY <1>5 DEF ContentOK
  <2>2. v \notin Spent(st, rej) /\ st.active \notin Spent(st, rej) /\ None \notin rej
    BY <2>1, IdsNat DEF RejectedOK
  <2>3. RejectedOK(nx, rej \cup {})
    BY <1>1, <1>5, <2>1, <2>2, RejectedMove
  <2>4. rej \cup {} = rej
    OBVIOUS
  <2> QED
    BY <2>3, <2>4
<1>6. ASSUME s \in Trailing, cor = {} PROVE WaitsOK(s, nx)
  BY <1>1, <1>6, WaitsMove DEF ContentOK
<1>7. nx.previous # None => /\ \E h \in st.history : h.pub = nx.previous
                            /\ ~CitesIn(nx, nx.previous, cor)
  BY <1>2, <1>4
<1>8. ~CitesIn(nx, nx.active, cor)
  BY <1>3, <1>4
<1> QED
  BY <1>5, <1>6, <1>7, <1>8, MoveKeeps

LEMMA MoveToCandidateKeeps ==
    ASSUME NEW s, NEW st, StreamOK(st), NEW led, NEW cor, NEW rej, ContentOK(s, st, led, cor, rej),
           st.active # None, NEW v \in Ids, st.versions[v].live, st.versions[v].status = "candidate"
    PROVE  LET nx == MoveToCandidate(st, v)
           IN  /\ Keeps(s, st, nx, led, cor, cor, rej, rej)
               /\ nx.active = v /\ nx.previous = st.active /\ nx.fence = st.fence + 1
               /\ v # st.active /\ nx.versions[v].activated /\ nx.versions[v].status = "active"
<1> DEFINE same == {w \in {st.active} : st.versions[w].season = st.versions[v].season}
           V == Taken(Demote(st.versions, same), v)
           f == st.fence + 1
           nx == Moved(st, f, v, st.active, st.made, V, st.history \cup {Activation(v, f)})
<1>1. MoveToCandidate(st, v) = nx
  BY DEF MoveToCandidate, Moved, Taken, StreamOK, StreamState
<1>2. v <= st.made /\ st.active <= st.made /\ v # st.active
  BY DEF StreamOK
<1>3. StreamStep(st, nx)
  BY <1>1, <1>2, MoveToCandidateStep
<1>4. f = st.fence + 1 /\ \A w \in same \cap Ids : w <= st.made
  BY <1>2
<1>a. Taken(Demote(st.versions, same), v)[v].status = "active"
  BY Fields, DemoteType, TakenVersions
<1> HIDE DEF same, f
<1>5. Content(st, V, v, st.made) /\ V[v].activated
  BY <1>2, <1>4, TakenContent
<1>b. V[v].status = "active"
  BY <1>a
<1> HIDE DEF V
<1>6. MovedTo(st, nx, {}, v, st.active, st.made, V)
  <2>1. Rows(st.history, st.history, {})
    BY RowsSame
  <2> QED
    BY <1>4, <1>5, <2>1, MovedMoves
<1> HIDE DEF nx
<1>7. /\ Moves(st, nx, {}) /\ nx.active = v /\ nx.previous = st.active /\ nx.made = st.made
      /\ nx.versions = V
  BY <1>6 DEF MovedTo
<1>8. Offered(st, v)
  BY DEF Offered
<1>9. Keeps(s, st, nx, led, cor, cor, rej, rej)
  BY <1>2, <1>3, <1>5, <1>7, <1>8, TakeKeeps
<1>10. nx.fence = st.fence + 1
  BY <1>7 DEF Moves
<1> QED
  BY <1>1, <1>2, <1>5, <1>b, <1>7, <1>9, <1>10

LEMMA ActivateCandidateKeeps ==
    ASSUME NEW s, NEW st, StreamOK(st), NEW led, NEW cor, NEW rej, ContentOK(s, st, led, cor, rej),
           NEW v \in Ids, st.versions[v].live, st.versions[v].status \in {"candidate", "active"},
           s \notin Parity \ Family => st.active = None \/ st.versions[v].status = "candidate"
    PROVE  LET nx == ActivateCandidate(st, v)
           IN  /\ Keeps(s, st, nx, led, cor, cor, rej, rej)
               /\ nx.active = v /\ nx.versions[v].activated
<1> DEFINE on == [st EXCEPT !.enabled = TRUE]
           D == Demote(on.versions, {on.active})
           V == Taken(D, v)
           f == on.fence + 1
           nx == Moved(on, f, v, on.active, on.made, V, on.history \cup {Activation(v, f)})
<1>1. /\ on \in StreamState /\ on.enabled /\ on.fence = st.fence /\ on.active = st.active
      /\ on.previous = st.previous /\ on.made = st.made /\ on.versions = st.versions
      /\ on.history = st.history
  BY DEF StreamOK, StreamState
<1>2. StreamOK(on)
  <2> HIDE DEF on
  <2> QED BY <1>1 DEF StreamOK
<1>3. ActivateCandidate(st, v) = nx
  <2>1. on.fence = st.fence /\ on.active = st.active /\ on.made = st.made
        /\ on.versions = st.versions /\ on.history = st.history
    BY <1>1
  <2> QED
    BY <2>1 DEF ActivateCandidate, Moved, Taken, StreamOK, StreamState
<1>4. v <= st.made
  BY DEF StreamOK
<1>5. StreamStep(st, nx)
  BY <1>3, <1>4, ActivateCandidateStep
<1>6. f = on.fence + 1 /\ v <= on.made /\ \A w \in {on.active} \cap Ids : w <= on.made
  <2> HIDE DEF on
  <2> QED BY <1>1, <1>2, <1>4 DEF StreamOK
<1> HIDE DEF on, f
<1>7. Content(on, V, v, on.made) /\ V[v].activated
  BY <1>2, <1>6, TakenContent
<1> HIDE DEF V
<1>8. MovedTo(on, nx, {}, v, on.active, on.made, V)
  <2>1. Rows(on.history, on.history, {})
    BY RowsSame
  <2> QED
    BY <1>2, <1>6, <1>7, <2>1, MovedMoves
<1> HIDE DEF nx
<1>9. /\ Moves(on, nx, {}) /\ nx.active = v /\ nx.previous = st.active /\ nx.made = st.made
      /\ nx.versions = V
  BY <1>1, <1>8 DEF MovedTo
<1>10. Moves(st, nx, {})
  <2>1. Writes(st, nx, {})
    BY <1>1, <1>9 DEF Moves, Writes
  <2> QED
    BY <1>1, <1>9, <2>1 DEF Moves
<1>11. Offered(st, v) /\ (s \notin Parity \ Family => v # st.active)
  BY IdsNat DEF Offered, StreamOK
<1>12. Keeps(s, st, nx, led, cor, cor, rej, rej)
  BY <1>4, <1>5, <1>7, <1>9, <1>10, <1>11, TakeKeeps
<1> QED
  BY <1>3, <1>7, <1>9, <1>12

LEMMA RollbackRows ==
    ASSUME NEW st, StreamOK(st), NEW gone, NEW v
    PROVE  Rows(st.history, Retire(Revoke(st.history, gone), v), gone)
<1> DEFINE R == Revoke(st.history, gone)
           H == Retire(R, v)
<1>1. R \in SUBSET HistoryRow
  BY Fields, RevokeOK DEF HistoryOK, StreamOK
<1>2. /\ \A h \in st.history : \E k \in R : Row(h, k, gone)
      /\ \A k \in R : \E h \in st.history : Row(h, k, gone)
  BY Fields, RevokeRows
<1> HIDE DEF R
<1>3. /\ \A k \in R : \E l \in H : Row(k, l, {})
      /\ \A l \in H : \E k \in R : Row(k, l, {})
  BY <1>1, RetireRows
<1> HIDE DEF H
<1>4. \A h, k, l : Row(h, k, gone) /\ Row(k, l, {}) => Row(h, l, gone)
  BY DEF Row
<1>5. Rows(st.history, H, gone)
  BY <1>2, <1>3, <1>4 DEF Rows
<1> QED
  BY <1>5 DEF H, R

\* rollback: what it clones was not withdrawn, and neither the clone's origin
\* nor what it withdraws can serve again.
LEMMA RollBackKeeps ==
    ASSUME NEW s, NEW st, StreamOK(st), NEW led, NEW cor, NEW rej, ContentOK(s, st, led, cor, rej),
           CanRollBack(st), st.made < MaxVersions
    PROVE  LET nx == RollBack(st)
           IN  /\ Keeps(s, st, nx, led, cor, cor, rej, rej \cup WithdrawnByRollback(st))
               /\ nx.active = st.made + 1
               /\ nx.versions[nx.active].season = st.versions[st.previous].season
               /\ nx.versions[nx.active].status = "rollback"
<1> DEFINE prior == st.versions[st.previous]
           gone == WithdrawnByRollback(st)
           ids == {st.active, st.previous}
           new == [NewVersion(prior.season, prior.cutoff, "rollback", prior.evidence)
                        EXCEPT !.origin = st.previous]
           prev == IF gone # {} THEN None ELSE st.active
           H == Retire(Revoke(st.history, gone), st.previous)
           n == st.made + 1
           f == st.fence + 1
           V == [Demote(st.versions, ids) EXCEPT ![n] = new]
           nx == Moved(st, f, n, prev, n, V, H \cup {Activation(n, f)})
<1>1. RollBack(st) = nx
  BY DEF RollBack, Moved
<1>2. StreamStep(st, nx)
  BY <1>1, RollBackStep
<1>3. /\ new.season = prior.season /\ new.evidence = prior.evidence /\ new.status = "rollback"
      /\ new.origin = st.previous
  <2>1. /\ NewVersion(prior.season, prior.cutoff, "rollback", prior.evidence).season = prior.season
        /\ NewVersion(prior.season, prior.cutoff, "rollback", prior.evidence).evidence = prior.evidence
        /\ NewVersion(prior.season, prior.cutoff, "rollback", prior.evidence).status = "rollback"
    BY DEF NewVersion
  <2> HIDE DEF prior
  <2> QED
    BY DEF NewVersion
<1>4. /\ st.made \in Nat /\ n \in Ids /\ n \in {st.made, st.made + 1} /\ n = st.made + 1
      /\ f = st.fence + 1
  BY Fields, IdsNat DEF Ids
<1>5. /\ st.active # None /\ st.active \in Ids /\ st.active <= st.made
      /\ st.previous # None /\ st.previous \in Ids /\ st.previous <= st.made
      /\ ~Withdrawn(st, st.previous)
      /\ ~CitesIn(st, st.active, cor)
      /\ \E h \in st.history : h.pub = st.active
      /\ \E h \in st.history : h.pub = st.previous
  <2>1. st.active # None /\ st.previous # None /\ ~Withdrawn(st, st.previous)
    BY DEF CanRollBack
  <2> QED
    BY <2>1, ServedOffered
<1>6. gone \in SUBSET {st.active}
  BY DEF WithdrawnByRollback
<1>7. ~CitesIn(st, st.previous, cor)
  BY <1>5 DEF ContentOK, CorrectedOK
<1>8. \A e \in prior.evidence : e[1][1] = prior.season /\ e[2] <= led[e[1]]
  BY <1>5 DEF ContentOK, EvidenceOK
<1>9. Rows(st.history, H, gone)
  BY RollbackRows
<1>a. \A v \in ids \cap Ids : v <= st.made
  BY <1>5
<1>b. \A v \in Ids : v \in ids => Demote(st.versions, ids)[v].status = "superseded"
  BY Fields, DemoteContent
<1>c. st.active \in ids /\ st.previous \in ids
  OBVIOUS
<1> HIDE DEF ids
<1>10. Content(st, V, n, n) /\ V[n] = new /\ \A v \in Ids : v <= st.made => V[v] = Demote(st.versions, ids)[v]
  <2>1. RowsOK(st)
    BY DEF ContentOK
  <2> HIDE DEF new, n
  <2>2. Content(st, V, n, n)
    BY <1>4, <1>a, <2>1, NewVersions
  <2>4. V[n] = new
    <3>1. Demote(st.versions, ids) \in [Ids -> Version]
      BY Fields, DemoteType
    <3> QED BY <1>4, <3>1
  <2>3. \A v \in Ids : v <= st.made => V[v] = Demote(st.versions, ids)[v]
    BY <1>4, <1>a, <2>1, NewVersions
  <2> HIDE DEF V
  <2> QED BY <2>2, <2>3, <2>4
<1> HIDE DEF gone, new, prev, H, f, V
<1>11. V[st.active].status = "superseded" /\ V[st.previous].status = "superseded"
  BY <1>5, <1>10, <1>b, <1>c
<1>12. MovedTo(st, nx, gone, n, prev, n, V)
  <2> HIDE DEF n
  <2> QED BY <1>4, <1>9, <1>10, MovedMoves
<1> HIDE DEF nx
<1>13. /\ Moves(st, nx, gone) /\ nx.active = n /\ nx.previous = prev /\ nx.made = n
       /\ nx.versions = V
  BY <1>12 DEF MovedTo
<1>14. StreamOK(nx) /\ Writes(st, nx, gone) /\ n # st.active /\ n # st.previous
  BY <1>2, <1>4, <1>5, <1>13, IdsNat DEF StreamStep, Moves
<1>15. ~CitesIn(nx, nx.active, cor)
  BY <1>3, <1>7, <1>10, <1>13 DEF CitesIn
<1>16. ~CitesIn(nx, st.active, cor)
  BY <1>5, <1>14 DEF Writes, Same, CitesIn
<1>17. ASSUME RowsOK(nx), s \notin Parity \ Family PROVE RejectedOK(nx, rej \cup gone)
  <2>1. RejectedOK(st, rej)
    BY <1>17 DEF ContentOK
  <2>2. /\ st.active \notin Spent(st, rej) /\ st.previous \notin Spent(st, rej)
        /\ st.active # st.previous /\ n \notin Spent(st, rej) /\ None \notin Spent(st, rej)
        /\ rej \subseteq Spent(st, rej)
    <3>1. rej \subseteq Spent(st, rej)
      BY DEF Spent
    <3>2. None \notin Spent(st, rej)
      BY <2>1, IdsNat DEF RejectedOK, Spent
    <3>3. \A v \in Spent(st, rej) : v <= st.made
      BY <2>1 DEF RejectedOK
    <3>4. n \notin Spent(st, rej)
      BY <1>4, <3>3
    <3> QED
      BY <1>5, <2>1, <3>1, <3>2, <3>4 DEF RejectedOK
  <2>3. gone \in SUBSET Ids /\ st.previous \in Ids \cup {None} /\ {st.previous} \ {None} = {st.previous}
    BY <1>5, <1>6
  <2>4. \A v \in gone \cup {st.previous} : v <= st.made /\ nx.versions[v].status \in {"superseded", "none"}
    BY <1>5, <1>6, <1>11, <1>13
  <2>5. {n, prev} \cap (Spent(st, rej) \cup gone \cup {st.previous}) = {}
    BY <1>5, <1>6, <1>14, <2>2 DEF prev
  <2>6. gone \cap Spent(st, rej) = {} /\ st.previous \notin rej \cup gone
    BY <1>6, <2>2
  <2>7. prev # n
    BY <1>4, <1>14, IdsNat DEF prev
  <2>8. nx.made # st.made => nx.versions[nx.made].origin = st.previous
    BY <1>3, <1>10, <1>13
  <2> HIDE DEF n
  <2> QED
    BY <1>13, <1>14, <1>17, <2>1, <2>3, <2>4, <2>5, <2>6, <2>7, <2>8, RejectedMove
<1>18. ASSUME s \in Trailing, cor = {} PROVE WaitsOK(s, nx)
  <2>1. \E h \in st.history : st.versions[h.pub].season = nx.versions[nx.active].season
    BY <1>3, <1>5, <1>10, <1>13
  <2> QED
    BY <1>13, <1>14, <1>18, <2>1, WaitsMove DEF ContentOK
<1>19. nx.previous # None => nx.previous = st.active
  BY <1>13 DEF prev
<1>20. \A e \in nx.versions[nx.made].evidence : e[1][1] = nx.versions[nx.made].season /\ e[2] <= led[e[1]]
  BY <1>3, <1>8, <1>10, <1>13
<1>21. Keeps(s, st, nx, led, cor, cor, rej, rej \cup gone)
  BY <1>2, <1>5, <1>13, <1>15, <1>16, <1>17, <1>18, <1>19, <1>20, MoveKeeps
<1> QED
  BY <1>1, <1>3, <1>10, <1>13, <1>21 DEF gone

\* revert_season_cutover: the pointer returns to what the cutover displaced,
\* which no correction reached, and the promoted version is withdrawn.
LEMMA RestoreKeeps ==
    ASSUME NEW s, NEW st, StreamOK(st), NEW led, NEW cor, NEW rej, ContentOK(s, st, led, cor, rej),
           NEW m, RecordOK(s, st, m, cor, rej), MoveOK(st, m), m.to \in 1..st.made, m.from # m.to,
           st.previous = m.from, st.versions[m.from].live
    PROVE  LET nx == Restore(st, m)
           IN  /\ Keeps(s, st, nx, led, cor, cor, rej, rej \cup {m.to})
               /\ nx.active = m.from
               /\ nx.versions[m.from].status = "active"
               /\ nx.versions[m.from].activated => st.versions[m.from].activated
<1> DEFINE gone == {m.to}
           V == [st.versions EXCEPT ![m.from].status = "active", ![m.to].status = "superseded"]
           H == Revoke(st.history, gone)
           f == st.fence + 1
           nx == Moved(st, f, m.from, m.fromPrevious, st.made, V, H \cup {Activation(m.from, f)})
<1>1. Restore(st, m) = nx
  BY DEF Restore, Moved, StreamOK, StreamState
<1>2. /\ st.made \in Nat /\ m.from \in Ids /\ m.to \in Ids /\ m.from <= st.made /\ m.to <= st.made
      /\ m.fromPrevious # None => m.fromPrevious \in Ids /\ m.fromPrevious <= st.made
      /\ st.active = m.to /\ st.previous # None /\ st.active # None
  <2>1. st.made \in Nat /\ st.made <= MaxVersions
    BY Fields, IdsNat
  <2>2. st.active = m.to
    BY DEF RecordOK
  <2> QED
    BY <2>1, <2>2, IdsNat DEF MoveOK, Ids, None
<1>3. StreamStep(st, nx)
  <2>1. StreamStep(st, Restore(st, m))
    BY <1>2, RestoreStep DEF MoveOK
  <2> QED
    BY <1>1, <2>1
<1>4. /\ \A v \in Ids : /\ Same(st.versions[v], V[v])
                        /\ v \notin {m.from, m.to} => V[v] = st.versions[v]
      /\ V[m.from].status = "active" /\ V[m.to].status = "superseded"
      /\ V[m.from] = [st.versions[m.from] EXCEPT !.status = "active"]
  <2>1. V = [v \in Ids |-> IF v = m.to THEN [st.versions[v] EXCEPT !.status = "superseded"]
                           ELSE IF v = m.from THEN [st.versions[v] EXCEPT !.status = "active"]
                           ELSE st.versions[v]]
    BY <1>2, Fields
  <2>2. ASSUME NEW v \in Ids, NEW x
        PROVE  /\ Same(st.versions[v], [st.versions[v] EXCEPT !.status = x])
               /\ [st.versions[v] EXCEPT !.status = x].status = x
    <3>1. st.versions[v] \in Version
      BY Fields
    <3> QED
      BY <3>1 DEF Version, Same
  <2>3. \A v \in Ids : Same(st.versions[v], st.versions[v])
    BY DEF Same
  <2> HIDE DEF V
  <2>4. V[m.to] = [st.versions[m.to] EXCEPT !.status = "superseded"]
    BY <1>2, <2>1
  <2>5. V[m.from] = [st.versions[m.from] EXCEPT !.status = "active"]
    BY <1>2, <2>1
  <2>6. \A v \in Ids : v \notin {m.from, m.to} => V[v] = st.versions[v]
    BY <2>1
  <2>7. /\ Same(st.versions[m.to], V[m.to]) /\ V[m.to].status = "superseded"
        /\ Same(st.versions[m.from], V[m.from]) /\ V[m.from].status = "active"
    BY <1>2, <2>2, <2>4, <2>5
  <2> QED
    BY <2>3, <2>5, <2>6, <2>7
<1> HIDE DEF V
<1>5. Content(st, V, m.from, st.made)
  <2>1. \A v \in Ids : v > st.made => v \notin {m.from, m.to}
    BY <1>2, IdsNat
  <2> QED
    BY <1>2, <1>4, <2>1 DEF Content
<1>6. Rows(st.history, H, gone)
  BY Fields, RevokeRows DEF Rows
<1>7. f = st.fence + 1
  OBVIOUS
<1> HIDE DEF gone, H, f
<1>8. MovedTo(st, nx, gone, m.from, m.fromPrevious, st.made, V)
  BY <1>2, <1>5, <1>6, <1>7, MovedMoves
<1> HIDE DEF nx
<1>9. /\ Moves(st, nx, gone) /\ nx.active = m.from /\ nx.previous = m.fromPrevious
      /\ nx.made = st.made /\ nx.versions = V
  BY <1>8 DEF MovedTo
<1>10. StreamOK(nx) /\ Writes(st, nx, gone)
  BY <1>3, <1>9 DEF StreamStep, Moves
<1>11. \A v \in Ids : v <= st.made => (CitesIn(nx, v, cor) <=> CitesIn(st, v, cor))
  BY <1>10 DEF Writes, Same, CitesIn
<1>12. ~CitesIn(st, m.from, cor) /\ ~CitesIn(nx, m.from, cor)
  BY <1>2, <1>11 DEF RecordOK
<1>13. ASSUME m.fromPrevious # None
       PROVE  /\ \E h \in st.history : h.pub = m.fromPrevious
              /\ CitesIn(nx, m.fromPrevious, cor) => Withdrawn(nx, m.fromPrevious)
  <2>1. \E h \in st.history : h.pub = m.fromPrevious
    BY <1>13 DEF RecordOK
  <2>2. ASSUME CitesIn(nx, m.fromPrevious, cor) PROVE Withdrawn(nx, m.fromPrevious)
    <3>1. m.fromPrevious # m.from /\ CitesIn(st, m.fromPrevious, cor)
      BY <1>2, <1>11, <1>12, <1>13, <2>2
    <3>2. Withdrawn(st, m.fromPrevious)
      BY <1>13, <3>1 DEF RecordOK
    <3>3. \A k \in nx.history : k.pub = m.fromPrevious => \E h \in st.history : Row(h, k, gone)
      BY <1>9, <3>1 DEF Moves, Activation
    <3> QED
      BY <1>10, <3>2, <3>3, WithdrawnKept DEF Writes
  <2> QED
    BY <2>1, <2>2
<1>14. ASSUME RowsOK(nx), s \notin Parity \ Family PROVE RejectedOK(nx, rej \cup {m.to})
  <2>1. RejectedOK(st, rej)
    BY <1>14 DEF ContentOK
  <2>2. /\ {m.from, m.fromPrevious} \cap Spent(st, rej) = {}
        /\ m.from # m.fromPrevious /\ m.to # m.fromPrevious
    BY <1>14 DEF RecordOK
  <2>3. m.to \notin Spent(st, rej) /\ None \notin rej
    BY <1>2, <2>1, IdsNat DEF RejectedOK
  <2>4. {m.to} \in SUBSET Ids /\ {None} \ {None} = {}
    BY <1>2
  <2>5. \A v \in {m.to} \cup ({None} \ {None}) :
            v <= st.made /\ nx.versions[v].status \in {"superseded", "none"}
    BY <1>2, <1>4, <1>9
  <2>6. /\ {nx.active, nx.previous} \cap (Spent(st, rej) \cup {m.to} \cup ({None} \ {None})) = {}
        /\ {m.to} \cap Spent(st, rej) = {} /\ None \notin rej \cup {m.to}
        /\ nx.previous # nx.active
    BY <1>2, <1>9, <2>2, <2>3, IdsNat
  <2> QED
    BY <1>9, <1>10, <1>14, <2>1, <2>4, <2>5, <2>6, RejectedMove
<1>15. ASSUME s \in Trailing, cor = {} PROVE WaitsOK(s, nx)
  <2>1. PICK h \in st.history : h.pub = m.from
    BY <1>2 DEF ContentOK, RowsOK
  <2>2. st.versions[h.pub].season = nx.versions[nx.active].season
    BY <1>2, <1>4, <1>9, <2>1 DEF Same
  <2>3. RowsOK(st) /\ WaitsOK(s, st)
    BY <1>15 DEF ContentOK
  <2> QED
    BY <1>9, <1>10, <2>2, <2>3, WaitsMove
<1>16. Keeps(s, st, nx, led, cor, cor, rej, rej \cup {m.to})
  <2>1. nx.previous # None => \E h \in st.history : h.pub = nx.previous
    BY <1>9, <1>13
  <2>2. nx.previous # None /\ CitesIn(nx, nx.previous, cor) => Withdrawn(nx, nx.previous)
    BY <1>9, <1>13
  <2>3. ~CitesIn(nx, nx.active, cor) /\ nx.made = st.made
    BY <1>9, <1>12
  <2> QED
    BY <1>3, <1>9, <1>14, <1>15, <2>1, <2>2, <2>3, MoveKeeps
<1>a. nx.versions = V
  BY <1>9
<1>17. nx.active = m.from /\ nx.versions[m.from].status = "active"
  BY <1>4, <1>9, <1>a
<1>18. nx.versions[m.from].activated => st.versions[m.from].activated
  <2>1. nx.versions[m.from] = [st.versions[m.from] EXCEPT !.status = "active"]
    BY <1>4, <1>a
  <2>2. st.versions[m.from] \in Version
    BY <1>2, Fields
  <2>3. [st.versions[m.from] EXCEPT !.status = "active"].activated => st.versions[m.from].activated
    BY <2>2 DEF Version
  <2> QED
    BY <2>1, <2>3, Zenon
<1> QED
  BY <1>1, <1>16, <1>17, <1>18

-----------------------------------------------------------------------------
(* All streams, one action. *)

\* What SeasonMoves and FreshMoves ask of one stream.
SeasonMove(s, now, next, published) ==
    /\ now.active # None /\ next.active # None
    /\ next.versions[next.active].season # now.versions[now.active].season
    => \/ now.previous # None
            /\ next.versions[next.active].season = now.versions[now.previous].season
       \/ next.versions[next.active].activated
       \/ s # Leader /\ next.versions[next.active].season = published

FreshMove(s, now, next) ==
    /\ now.active # None /\ next.active > now.made
    /\ next.versions[next.active].status = "active"
    /\ next.versions[next.active].season = now.versions[now.active].season
    => LET old == now.versions[now.active]
           new == next.versions[next.active]
       IN  /\ \A e \in old.evidence, f \in new.evidence : e[1] = f[1] => e[2] <= f[2]
           /\ s \notin Ledger => old.cutoff <= new.cutoff

Good(s, now, next, led, cor, ncor, rej, nrej, published) ==
    /\ Keeps(s, now, next, led, cor, ncor, rej, nrej)
    /\ SeasonMove(s, now, next, published)
    /\ FreshMove(s, now, next)

\* What every action but retention and ReplaceSource does to the streams.
GoodStep ==
    /\ stream' = [s \in Streams |-> stream'[s]]
    /\ corrected' = [s \in Streams |-> corrected'[s]]
    /\ rejected' = [s \in Streams |-> rejected'[s]]
    /\ stream[Leader].active # None => stream'[Leader].active # None
    /\ \A s \in Streams : Good(s, stream[s], stream'[s], ledger, corrected[s], corrected'[s],
                               rejected[s], rejected'[s], PublishedSeason(stream'[Leader]))

\* What an action may record beside the streams.
RecordNew(c, streams, cor, rej) ==
    /\ DOMAIN c.moved \subseteq DOMAIN c.fences
    /\ \A s \in DOMAIN c.moved : RecordOK(s, streams[s], c.moved[s], cor[s], rej[s])

LEMMA GoodAll ==
    ASSUME GoodStep
    PROVE  AllStep /\ SeasonMoves /\ FreshMoves
<1>1. AllStep
  BY DEF GoodStep, Good, Keeps, AllStep
<1>2. SeasonMoves
  BY DEF GoodStep, Good, SeasonMove, SeasonMoves, ServedSeason
<1>3. FreshMoves
  BY DEF GoodStep, Good, FreshMove, FreshMoves, ServedSeason
<1> QED
  BY <1>1, <1>2, <1>3

\* What records retain, per stream.
LEMMA MoveFacts ==
    ASSUME IInv, NEW c \in cutovers, Reversible(c), NEW s \in DOMAIN c.moved
    PROVE  /\ s \in Streams /\ MoveOK(stream[s], c.moved[s])
           /\ c.moved[s].to \in 1..stream[s].made /\ c.moved[s].from # c.moved[s].to
           /\ stream[s].versions[c.moved[s].from].live
  BY DEF IInv, CutoverInv, MoveOK

LEMMA RecordsKept ==
    ASSUME IInv, AInv, GoodStep, NEW c \in cutovers
    PROVE  /\ DOMAIN c.moved \subseteq DOMAIN c.fences
           /\ Reversible(c)' => \A s \in DOMAIN c.moved :
                    RecordOK(s, stream'[s], c.moved[s], corrected'[s], rejected'[s])
<1>1. DOMAIN c.moved \subseteq DOMAIN c.fences
  BY DEF AInv
<1>2. ASSUME Reversible(c)', NEW s \in DOMAIN c.moved
      PROVE  RecordOK(s, stream'[s], c.moved[s], corrected'[s], rejected'[s])
  <2>1. AllStep
    BY GoodAll
  <2>2. \A t \in Streams : stream'[t].fence \in Nat /\ stream'[t].fence >= stream[t].fence
    BY <2>1, Fields DEF AllStep, StreamStep
  <2>3. \A t \in DOMAIN c.fences : stream'[t].fence = c.fences[t]
    BY <1>2 DEF Reversible
  <2>4. Reversible(c)
    BY <2>2, <2>3, ReversibleBack
  <2>5. RecordOK(s, stream[s], c.moved[s], corrected[s], rejected[s])
    BY <2>4 DEF AInv
  <2>6. s \in Streams /\ MoveOK(stream[s], c.moved[s])
    BY <1>2, <2>4, MoveFacts
  <2>7. stream'[s].fence = stream[s].fence
    BY <1>1, <1>2, <2>3, <2>4 DEF Reversible
  <2>8. Keeps(s, stream[s], stream'[s], ledger, corrected[s], corrected'[s], rejected[s], rejected'[s])
    BY <2>6 DEF GoodStep, Good
  <2> QED
    BY <2>5, <2>6, <2>7, <2>8 DEF Keeps
<1> QED
  BY <1>1, <1>2

LEMMA PreparedStays ==
    ASSUME NEW st, NEW nx, StreamOK(st), StreamStep(st, nx), NEW led, NEW c, PreparedOK(c, st, led),
           \A v \in Ids : v <= st.made => Same(st.versions[v], nx.versions[v])
    PROVE  PreparedOK(c, nx, led)
<1>1. st.made \in Nat /\ nx.made \in Nat /\ st.made <= nx.made /\ st.made <= MaxVersions
  BY Fields, IdsNat DEF StreamStep
<1>2. c.active \in 0..nx.made
  BY <1>1 DEF PreparedOK
<1>3. c.active # None => c.active \in Ids /\ c.active <= st.made
  BY <1>1, IdsNat DEF PreparedOK, Ids, None
<1> QED
  BY <1>2, <1>3 DEF PreparedOK, Same

LEMMA MemberStays ==
    ASSUME NEW st, NEW nx, StreamOK(st), StreamStep(st, nx), NEW s, NEW g, MemberOK(g, s, st),
           \A v \in Ids : v <= st.made => Same(st.versions[v], nx.versions[v])
    PROVE  MemberOK(g, s, nx)
<1>1. st.made \in Nat /\ nx.made \in Nat /\ st.made <= nx.made /\ st.made <= MaxVersions
  BY Fields, IdsNat DEF StreamStep
<1>2. g.members[s].active \in 1..nx.made
  BY <1>1 DEF MemberOK
<1>3. g.members[s].active \in Ids /\ g.members[s].active <= st.made
  BY <1>1, IdsNat DEF MemberOK, Ids
<1> QED
  BY <1>2, <1>3 DEF MemberOK, Same

LEMMA GoodKeeps ==
    ASSUME IInv, AInv, GoodStep, ledger' = ledger,
           \A c \in cutovers' : c \in cutovers \/ RecordNew(c, stream', corrected', rejected'),
           \A w \in Workers : \/ composing'[w] = composing[w]
                              \/ composing'[w].phase # "prepared"
                              \/ PreparedOK(composing'[w], stream'[composing'[w].stream], ledger),
           \A g \in repair' : \/ \E h \in repair : /\ g.members = h.members
                                                   /\ g.season = h.season /\ g.cutoff = h.cutoff
                              \/ \A s \in DOMAIN g.members : MemberOK(g, s, stream'[s])
    PROVE  AInv'
<1>1. AllStep
  BY GoodAll
<1>2. /\ corrected' = [s \in Streams |-> corrected'[s]]
      /\ rejected' = [s \in Streams |-> rejected'[s]]
  BY DEF GoodStep
<1>3. \A s \in Streams : ContentOK(s, stream'[s], ledger, corrected'[s], rejected'[s])
  BY DEF GoodStep, Good, Keeps
<1>4. \A s \in Streams : /\ StreamOK(stream[s]) /\ StreamStep(stream[s], stream'[s])
                         /\ \A v \in Ids : v <= stream[s].made =>
                                Same(stream[s].versions[v], stream'[s].versions[v])
  BY <1>1 DEF GoodStep, Good, Keeps, IInv
<1>5. ASSUME NEW c \in cutovers'
      PROVE  /\ DOMAIN c.moved \subseteq DOMAIN c.fences
             /\ Reversible(c)' => \A s \in DOMAIN c.moved :
                    RecordOK(s, stream'[s], c.moved[s], corrected'[s], rejected'[s])
  <2>1. CASE c \in cutovers
    BY <2>1, RecordsKept
  <2>2. CASE RecordNew(c, stream', corrected', rejected')
    BY <2>2 DEF RecordNew
  <2> QED
    BY <2>1, <2>2
<1>6. ASSUME NEW w \in Workers, composing'[w].phase = "prepared"
      PROVE  PreparedOK(composing'[w], stream'[composing'[w].stream], ledger)
  <2>1. CASE composing'[w] = composing[w]
    <3>1. /\ PreparedOK(composing[w], stream[composing[w].stream], ledger)
          /\ composing[w].stream \in Streams
      BY <1>6, <2>1 DEF AInv, IInv, PreparedInv
    <3> QED
      BY <1>4, <2>1, <3>1, PreparedStays
  <2> QED
    BY <1>6, <2>1
<1>7. ASSUME NEW g \in repair', NEW s \in DOMAIN g.members
      PROVE  MemberOK(g, s, stream'[s])
  <2>1. ASSUME NEW h \in repair, g.members = h.members, g.season = h.season, g.cutoff = h.cutoff
        PROVE  MemberOK(g, s, stream'[s])
    <3>1. MemberOK(h, s, stream[s]) /\ s \in Streams
      BY <2>1 DEF AInv, IInv, RepairInv
    <3>2. MemberOK(h, s, stream'[s])
      BY <1>4, <3>1, MemberStays
    <3> QED
      BY <2>1, <3>2 DEF MemberOK
  <2> QED
    BY <2>1
<1> QED
  BY <1>2, <1>3, <1>5, <1>6, <1>7 DEF AInv

\* The pointer stays or is cleared.
LEMMA QuietGood ==
    ASSUME NEW s, NEW now, NEW next, StreamOK(now), NEW led, NEW cor, NEW ncor, NEW rej, NEW nrej,
           Keeps(s, now, next, led, cor, ncor, rej, nrej), next.active \in {now.active, None},
           NEW published
    PROVE  Good(s, now, next, led, cor, ncor, rej, nrej, published)
<1>1. now.active # None => now.active \in Ids /\ now.active <= now.made
  BY Fields DEF StreamOK
<1>2. now.active # None => Same(now.versions[now.active], next.versions[now.active])
  BY <1>1 DEF Keeps
<1>3. SeasonMove(s, now, next, published)
  BY <1>2 DEF SeasonMove, Same
<1>4. ~(now.active # None /\ next.active > now.made)
  <2>1. now.made \in Nat /\ None \in Nat /\ None <= now.made
    BY Fields, IdsNat DEF None
  <2>a. now.active # None => now.active \in Nat /\ now.active <= now.made
    BY <1>1, IdsNat
  <2>2. now.active # None => ~(now.active > now.made)
    BY <2>1, <2>a
  <2>3. ~(None > now.made)
    BY <2>1
  <2> QED
    BY <2>2, <2>3
<1>5. FreshMove(s, now, next)
  BY <1>4 DEF FreshMove
<1> QED
  BY <1>3, <1>5 DEF Good

\* The pointer takes a version that an operator activates, or one of its
\* rollback target's season that is no composition.
LEMMA TakenGood ==
    ASSUME NEW s, NEW now, NEW next, StreamOK(now), NEW led, NEW cor, NEW ncor, NEW rej, NEW nrej,
           Keeps(s, now, next, led, cor, ncor, rej, nrej), NEW published,
           \/ next.active \in Ids /\ next.active <= now.made
           \/ next.versions[next.active].status # "active",
           \/ next.versions[next.active].activated
           \/ now.previous # None
                /\ next.versions[next.active].season = now.versions[now.previous].season
    PROVE  Good(s, now, next, led, cor, ncor, rej, nrej, published)
<1>1. SeasonMove(s, now, next, published)
  BY DEF SeasonMove
<1>2. next.active \in Ids /\ next.active <= now.made => ~(next.active > now.made)
  <2>1. now.made \in Nat
    BY Fields, IdsNat
  <2>2. next.active \in Ids => next.active \in Nat
    BY IdsNat
  <2> QED
    BY <2>1, <2>2
<1>3. FreshMove(s, now, next)
  BY <1>2 DEF FreshMove
<1> QED
  BY <1>1, <1>3 DEF Good

LEMMA SomeGood ==
    ASSUME IInv, AInv, NEW set, NEW nx, NEW ncor, NEW nrej,
           stream' = [s \in Streams |-> IF s \in set THEN nx[s] ELSE stream[s]],
           corrected' = [s \in Streams |-> IF s \in set THEN ncor[s] ELSE corrected[s]],
           rejected' = [s \in Streams |-> IF s \in set THEN nrej[s] ELSE rejected[s]],
           \A s \in Streams : s \in set =>
                Good(s, stream[s], nx[s], ledger, corrected[s], ncor[s], rejected[s], nrej[s],
                     PublishedSeason(stream'[Leader])),
           stream[Leader].active # None => stream'[Leader].active # None
    PROVE  GoodStep
<1>1. ASSUME NEW s \in Streams
      PROVE  Good(s, stream[s], stream'[s], ledger, corrected[s], corrected'[s],
                  rejected[s], rejected'[s], PublishedSeason(stream'[Leader]))
  <2>1. CASE s \in set
    BY <2>1
  <2>2. CASE s \notin set
    <3>1. stream'[s] = stream[s] /\ corrected'[s] = corrected[s] /\ rejected'[s] = rejected[s]
      BY <2>2
    <3>2. StreamOK(stream[s]) /\ ContentOK(s, stream[s], ledger, corrected[s], rejected[s])
      BY DEF IInv, AInv
    <3>3. Keeps(s, stream[s], stream[s], ledger, corrected[s], corrected[s], rejected[s], rejected[s])
      BY <3>2, SameKeeps
    <3> QED
      BY <3>1, <3>2, <3>3, QuietGood
  <2> QED
    BY <2>1, <2>2
<1> QED
  BY <1>1 DEF GoodStep

LEMMA OneGood ==
    ASSUME IInv, AInv, NEW s \in Streams, NEW nx, NEW nrej, stream' = [stream EXCEPT ![s] = nx],
           corrected' = corrected, rejected' = [rejected EXCEPT ![s] = nrej],
           Good(s, stream[s], nx, ledger, corrected[s], corrected[s], rejected[s], nrej,
                PublishedSeason(stream'[Leader])),
           s = Leader /\ stream[s].active # None => nx.active # None
    PROVE  GoodStep
<1> DEFINE N == [t \in Streams |-> nx]
           C == [t \in Streams |-> corrected[t]]
           R == [t \in Streams |-> nrej]
<1>1. stream' = [t \in Streams |-> IF t \in {s} THEN N[t] ELSE stream[t]]
  BY DEF IInv
<1>2. corrected' = [t \in Streams |-> IF t \in {s} THEN C[t] ELSE corrected[t]]
  BY DEF AInv
<1>3. rejected' = [t \in Streams |-> IF t \in {s} THEN R[t] ELSE rejected[t]]
  BY DEF AInv
<1>4. N[s] = nx /\ C[s] = corrected[s] /\ R[s] = nrej
  OBVIOUS
<1>5. Leader \in Streams
  BY StreamSets
<1>6. stream[Leader].active # None => stream'[Leader].active # None
  BY <1>1, <1>4, <1>5
<1> HIDE DEF N, C, R
<1>7. \A t \in Streams : t \in {s} =>
            Good(t, stream[t], N[t], ledger, corrected[t], C[t], rejected[t], R[t],
                 PublishedSeason(stream'[Leader]))
  BY <1>4
<1> QED
  BY <1>1, <1>2, <1>3, <1>6, <1>7, SomeGood

\* An action that leaves the streams alone.
LEMMA StillGood ==
    ASSUME IInv, AInv, UNCHANGED <<stream, corrected, rejected>>
    PROVE  GoodStep /\ CoupledMoves
<1>0. PICK E : E = {}
  OBVIOUS
<1> DEFINE N == [t \in Streams |-> stream[t]]
           C == [t \in Streams |-> corrected[t]]
           R == [t \in Streams |-> rejected[t]]
<1>1. stream' = [t \in Streams |-> IF t \in E THEN N[t] ELSE stream[t]]
  BY <1>0 DEF IInv
<1>2. corrected' = [t \in Streams |-> IF t \in E THEN C[t] ELSE corrected[t]]
  BY <1>0 DEF AInv
<1>3. rejected' = [t \in Streams |-> IF t \in E THEN R[t] ELSE rejected[t]]
  BY <1>0 DEF AInv
<1> HIDE DEF N, C, R
<1>4. GoodStep
  <2>1. \A t \in Streams : t \in E =>
            Good(t, stream[t], N[t], ledger, corrected[t], C[t], rejected[t], R[t],
                 PublishedSeason(stream'[Leader]))
    BY <1>0
  <2>2. stream[Leader].active # None => stream'[Leader].active # None
    OBVIOUS
  <2> QED
    BY <1>1, <1>2, <1>3, <2>1, <2>2, SomeGood
<1>5. CoupledMoves
  BY DEF CoupledMoves
<1> QED
  BY <1>4, <1>5

\* No window of the family is moved to a rollback or newly activated.
LEMMA NotCoupled ==
    ASSUME \A s \in Family : stream[s].active # None =>
                \/ stream'[s].active \in {None, stream[s].active}
                \/ /\ stream'[s].versions[stream'[s].active].status # "rollback"
                   /\ stream'[s].versions[stream'[s].active].activated =>
                            stream[s].versions[stream'[s].active].activated
    PROVE  CoupledMoves
  BY DEF CoupledMoves

\* What every step does.
AuthorityStep == AInv' /\ SeasonMoves /\ FreshMoves /\ CoupledMoves

\* The other variables of an action that only moves streams.
LEMMA GoodOnly ==
    ASSUME IInv, AInv, GoodStep, CoupledMoves, UNCHANGED <<ledger, cutovers, composing, repair>>
    PROVE  AuthorityStep
<1>1. AInv'
  BY GoodKeeps
<1> QED
  BY <1>1, GoodAll DEF AuthorityStep

\* Sources of a composition.
LEMMA CurrentAccepted ==
    ASSUME ledger \in [Items -> 1..(MaxSources + 1)], NEW s, NEW season, NEW cutoff
    PROVE  /\ Accepted(s, season, CurrentEvidence(s, season, cutoff), ledger)
           /\ CurrentEvidence(s, season, cutoff) \in SUBSET Source
           /\ \A f \in CurrentEvidence(s, season, cutoff) : f[2] = ledger[f[1]] /\ f[1][1] = season
<1>1. CurrentEvidence(s, season, cutoff) \in SUBSET Source
  BY EvidenceType
<1>2. \A f \in CurrentEvidence(s, season, cutoff) : f[2] = ledger[f[1]] /\ f[1][1] = season
  BY DEF CurrentEvidence, Governed
<1>3. \A f \in CurrentEvidence(s, season, cutoff) : ledger[f[1]] \in Nat
  BY <1>1, SourcePair
<1> QED
  BY <1>1, <1>2, <1>3 DEF Accepted

LEMMA FixesOK ==
    ASSUME ledger \in [Items -> 1..(MaxSources + 1)], NEW season, NEW fixed \in Fixes(season)
    PROVE  FixOK(season, fixed, ledger)
<1>1. PICK items \in SUBSET {i \in Items : i[1] = season /\ ledger[i] > 1} :
            fixed = {<<i, ledger[i]>> : i \in items}
  BY DEF Fixes
<1>2. \A f \in fixed : f[1] \in Items /\ f[1][1] = season /\ f[2] = ledger[f[1]] /\ f \in Source
  BY <1>1 DEF Source
<1> QED
  BY <1>2 DEF FixOK

-----------------------------------------------------------------------------
(* The actions. *)

LEMMA ActivateAuthority ==
    ASSUME IInv, AInv, NEW s \in Streams, NEW v \in Ids, ActivateStream(s, v)
    PROVE  AuthorityStep
<1> DEFINE st == stream[s]
           nx == ActivateCandidate(st, v)
<1>1. /\ StreamOK(st) /\ ContentOK(s, st, ledger, corrected[s], rejected[s])
      /\ st.versions[v].live
      /\ st.versions[v].status \in (IF s \in Parity THEN {"candidate", "active"} ELSE {"candidate"})
      /\ s \in Family => st.active = None
  BY DEF IInv, AInv, ActivateStream
<1>2. /\ stream' = [stream EXCEPT ![s] = nx]
      /\ corrected' = corrected /\ rejected' = [rejected EXCEPT ![s] = rejected[s]]
      /\ UNCHANGED <<ledger, cutovers, composing, repair>>
  BY DEF ActivateStream, AInv
<1> HIDE DEF st
<1>3. /\ Keeps(s, st, nx, ledger, corrected[s], corrected[s], rejected[s], rejected[s])
      /\ nx.active = v /\ nx.versions[v].activated
  BY <1>1, ActivateCandidateKeeps
<1>4. v <= st.made /\ v # None
  BY <1>1, IdsNat DEF StreamOK
<1> HIDE DEF nx
<1>5. Good(s, st, nx, ledger, corrected[s], corrected[s], rejected[s], rejected[s],
           PublishedSeason(stream'[Leader]))
  BY <1>1, <1>3, <1>4, TakenGood
<1>6. GoodStep
  BY <1>2, <1>3, <1>4, <1>5, OneGood DEF st
<1>7. CoupledMoves
  <2>1. \A t \in Streams : t # s => stream'[t] = stream[t]
    BY <1>2 DEF IInv
  <2>2. \A t \in Family : t \in Streams
    BY StreamSets
  <2>3. \A t \in Family : stream[t].active # None => stream'[t].active = stream[t].active
    BY <1>1, <2>1, <2>2 DEF st
  <2> QED
    BY <2>3, NotCoupled
<1> QED
  BY <1>2, <1>6, <1>7, GoodOnly

LEMMA EnableAuthority ==
    ASSUME IInv, AInv, NEW s \in Streams, EnableStream(s)
    PROVE  AuthorityStep
<1> DEFINE st == stream[s]
           nx == [st EXCEPT !.enabled = TRUE]
<1>1. StreamOK(st) /\ ContentOK(s, st, ledger, corrected[s], rejected[s])
  BY DEF IInv, AInv
<1>2. /\ stream' = [stream EXCEPT ![s] = nx]
      /\ corrected' = corrected /\ rejected' = [rejected EXCEPT ![s] = rejected[s]]
      /\ UNCHANGED <<ledger, cutovers, composing, repair>>
  BY DEF EnableStream, AInv
<1>3. AllStep
  BY EnableKeeps
<1>4. stream'[s] = nx /\ \A t \in Streams : t # s => stream'[t] = stream[t]
  BY <1>2 DEF IInv
<1>5. StreamStep(st, nx)
  BY <1>3, <1>4 DEF AllStep
<1> HIDE DEF st
<1>6. /\ nx.fence = st.fence /\ nx.active = st.active /\ nx.previous = st.previous
      /\ nx.made = st.made /\ nx.versions = st.versions /\ nx.history = st.history
  BY <1>1 DEF StreamOK, StreamState
<1> HIDE DEF nx
<1>7. Stays(st, nx, {})
  <2>1. Stays(st, st, {})
    BY <1>1, StaysReflexive
  <2> QED
    BY <1>6, <2>1 DEF Stays, Writes
<1>8. Keeps(s, st, nx, ledger, corrected[s], corrected[s], rejected[s], rejected[s])
  <2>1. Keeps(s, st, nx, ledger, corrected[s], corrected[s] \cup {}, rejected[s], rejected[s])
    BY <1>1, <1>5, <1>6, <1>7, NothingCleared, StayKeeps
  <2>2. corrected[s] \cup {} = corrected[s]
    OBVIOUS
  <2> QED
    BY <2>1, <2>2
<1>9. Good(s, st, nx, ledger, corrected[s], corrected[s], rejected[s], rejected[s],
           PublishedSeason(stream'[Leader]))
  BY <1>1, <1>6, <1>8, QuietGood
<1>10. GoodStep
  BY <1>2, <1>6, <1>9, OneGood DEF st
<1>11. CoupledMoves
  <2>1. \A t \in Family : stream'[t].active = stream[t].active
    BY <1>4, <1>6, StreamSets DEF st
  <2> QED
    BY <2>1, NotCoupled
<1> QED
  BY <1>2, <1>10, <1>11, GoodOnly

LEMMA RehearseAuthority ==
    ASSUME IInv, AInv, NEW s \in Ledger, NEW season \in Seasons, NEW cutoff \in Cutoffs,
           RehearseLedger(s, season, cutoff)
    PROVE  AuthorityStep
<1> DEFINE st == stream[s]
           evidence == CurrentEvidence(s, season, cutoff)
           nx == ComposeInactive(st, season, cutoff, evidence, {})
<1>1. s \in Streams
  BY StreamSets
<1>2. StreamOK(st) /\ ContentOK(s, st, ledger, corrected[s], rejected[s]) /\ st.made < MaxVersions
  BY <1>1, Room DEF IInv, AInv, RehearseLedger
<1>3. /\ stream' = [stream EXCEPT ![s] = nx]
      /\ corrected' = corrected /\ rejected' = [rejected EXCEPT ![s] = rejected[s]]
      /\ UNCHANGED <<ledger, cutovers, composing, repair>>
  BY DEF RehearseLedger, AInv
<1>4. /\ ledger \in [Items -> 1..(MaxSources + 1)]
      /\ Accepted(s, season, evidence, ledger) /\ evidence \in SUBSET Source
  BY CurrentAccepted DEF IInv
<1>5. FixOK(season, {}, ledger) /\ corrected[s] \cup Replaced({}) = corrected[s]
  BY NothingReplaced DEF FixOK
<1> HIDE DEF st, evidence
<1>6. Keeps(s, st, nx, ledger, corrected[s], corrected[s], rejected[s], rejected[s])
  BY <1>2, <1>4, <1>5, ComposeInactiveKeeps
<1>7. nx.active = st.active
  <2>1. PICK statuses : nx = Invalidate(StoreCandidate(st, season, cutoff, evidence, statuses), season, {},
                                        StoredId(st, season, cutoff, evidence, statuses))
    BY DEF ComposeInactive
  <2>2. nx = StoreCandidate(st, season, cutoff, evidence, statuses)
    BY <2>1, NothingReplaced
  <2>3. Stored(st, nx, StoredId(st, season, cutoff, evidence, statuses), season, cutoff, evidence)
    BY <1>2, <1>4, <2>2, StoreEffect
  <2> HIDE DEF nx
  <2> QED
    BY <2>3 DEF Stored
<1> HIDE DEF nx
<1>8. Good(s, st, nx, ledger, corrected[s], corrected[s], rejected[s], rejected[s],
           PublishedSeason(stream'[Leader]))
  BY <1>2, <1>6, <1>7, QuietGood
<1>9. GoodStep
  BY <1>1, <1>3, <1>7, <1>8, OneGood DEF st
<1>10. CoupledMoves
  <2>1. \A t \in Streams : stream'[t] = IF t = s THEN nx ELSE stream[t]
    BY <1>1, <1>3 DEF IInv
  <2>2. \A t \in Family : stream'[t].active = stream[t].active
    BY <1>7, <2>1, StreamSets DEF st
  <2> QED
    BY <2>2, NotCoupled
<1> QED
  BY <1>3, <1>9, <1>10, GoodOnly

LEMMA RollbackAuthority ==
    ASSUME IInv, AInv, NEW s \in Streams, RollbackStream(s)
    PROVE  AuthorityStep
<1> DEFINE st == stream[s]
           nx == RollBack(st)
           gone == WithdrawnByRollback(st)
<1>1. /\ StreamOK(st) /\ ContentOK(s, st, ledger, corrected[s], rejected[s])
      /\ st.made < MaxVersions /\ CanRollBack(st) /\ s \notin Family
  BY Room DEF IInv, AInv, RollbackStream
<1>2. /\ stream' = [stream EXCEPT ![s] = nx]
      /\ corrected' = corrected /\ rejected' = [rejected EXCEPT ![s] = rejected[s] \cup gone]
      /\ UNCHANGED <<ledger, cutovers, composing, repair>>
  BY DEF RollbackStream, AInv
<1> HIDE DEF st
<1>3. /\ Keeps(s, st, nx, ledger, corrected[s], corrected[s], rejected[s], rejected[s] \cup gone)
      /\ nx.active = st.made + 1
      /\ nx.versions[nx.active].season = st.versions[st.previous].season
      /\ nx.versions[nx.active].status = "rollback"
  BY <1>1, RollBackKeeps
<1>4. nx.active # None /\ st.previous # None
  <2>1. st.made \in Nat
    BY <1>1, Fields, IdsNat
  <2> QED
    BY <1>1, <1>3, <2>1 DEF None, CanRollBack
<1> HIDE DEF nx, gone
<1>5. Good(s, st, nx, ledger, corrected[s], corrected[s], rejected[s], rejected[s] \cup gone,
           PublishedSeason(stream'[Leader]))
  BY <1>1, <1>3, <1>4, TakenGood
<1>6. GoodStep
  BY <1>2, <1>4, <1>5, OneGood DEF st
<1>7. CoupledMoves
  <2>1. \A t \in Family : stream'[t].active = stream[t].active
    BY <1>1, <1>2, StreamSets DEF IInv
  <2> QED
    BY <2>1, NotCoupled
<1> QED
  BY <1>2, <1>6, <1>7, GoodOnly

\* Nothing composed from current sources is older than a version of the stream.
LEMMA CurrentNewer ==
    ASSUME NEW st, StreamOK(st), EvidenceOK(st, ledger), ledger \in [Items -> 1..(MaxSources + 1)],
           NEW v \in Ids, NEW s, NEW season, NEW cutoff
    PROVE  \A e \in st.versions[v].evidence, f \in CurrentEvidence(s, season, cutoff) :
                e[1] = f[1] => e[2] <= f[2]
  BY CurrentAccepted DEF EvidenceOK

LEMMA PrepareAuthority ==
    ASSUME IInv, AInv, NEW w \in Workers, NEW s \in Streams \ Ledger, NEW season \in Seasons,
           NEW cutoff \in Cutoffs, Prepare(w, s, season, cutoff)
    PROVE  AuthorityStep
<1> DEFINE evidence == CurrentEvidence(s, season, cutoff)
           c == [phase |-> "prepared", stream |-> s, season |-> season, cutoff |-> cutoff,
                 evidence |-> evidence, fence |-> stream[s].fence, active |-> stream[s].active]
<1>1. /\ UNCHANGED <<stream, ledger, cutovers, repair, corrected, rejected>>
      /\ composing' = [v \in Workers |-> IF v = w THEN c ELSE composing[v]]
  BY DEF Prepare, IInv
<1>2. GoodStep /\ CoupledMoves
  BY <1>1, StillGood
<1>3. /\ StreamOK(stream[s]) /\ EvidenceOK(stream[s], ledger)
      /\ ledger \in [Items -> 1..(MaxSources + 1)]
  BY DEF IInv, AInv, ContentOK
<1>4. Accepted(s, season, evidence, ledger)
  BY <1>3, CurrentAccepted
<1>5. stream[s].active \in 0..stream[s].made /\ (stream[s].active # None => stream[s].active \in Ids)
  <2>1. stream[s].active \in Ids \cup {None} /\ stream[s].active <= stream[s].made
        /\ stream[s].made \in Nat
    BY <1>3, Fields, IdsNat DEF StreamOK
  <2> QED
    BY <2>1, Bounds DEF Ids, None
<1>6. stream[s].active # None =>
            \A e \in stream[s].versions[stream[s].active].evidence, f \in evidence :
                e[1] = f[1] => e[2] <= f[2]
  BY <1>3, <1>5, CurrentNewer
<1>7. /\ c.stream = s /\ c.season = season /\ c.evidence = evidence /\ c.active = stream[s].active
  OBVIOUS
<1> HIDE DEF c, evidence
<1>8. PreparedOK(c, stream[s], ledger)
  BY <1>4, <1>5, <1>6, <1>7 DEF PreparedOK, Accepted
<1>9. \A v \in Workers : \/ composing'[v] = composing[v]
                         \/ PreparedOK(composing'[v], stream'[composing'[v].stream], ledger)
  BY <1>1, <1>7, <1>8
<1>10. AInv'
  BY <1>1, <1>2, <1>9, GoodKeeps
<1> QED
  BY <1>2, <1>10, GoodAll DEF AuthorityStep

LEMMA AbandonAuthority ==
    ASSUME IInv, AInv, NEW w \in Workers, AbandonPrepared(w)
    PROVE  AuthorityStep
<1>1. /\ UNCHANGED <<stream, ledger, cutovers, repair, corrected, rejected>>
      /\ composing' = [v \in Workers |-> IF v = w THEN Idle ELSE composing[v]]
  BY DEF AbandonPrepared, IInv
<1>2. GoodStep /\ CoupledMoves
  BY <1>1, StillGood
<1>3. \A v \in Workers : composing'[v] = composing[v] \/ composing'[v].phase # "prepared"
  BY <1>1 DEF Idle
<1>4. AInv'
  BY <1>1, <1>2, <1>3, GoodKeeps
<1> QED
  BY <1>2, <1>4, GoodAll DEF AuthorityStep

LEMMA DeclareAuthority ==
    ASSUME IInv, AInv, NEW members \in SUBSET (Streams \ Ledger), NEW season \in Seasons,
           NEW cutoff \in Cutoffs, DeclareRepair(members, season, cutoff)
    PROVE  AuthorityStep
<1> DEFINE g == [season |-> season, cutoff |-> cutoff, promoted |-> FALSE,
                 members |-> [s \in members |-> [active |-> stream[s].active,
                                                 fence |-> stream[s].fence]]]
<1>1. /\ UNCHANGED <<stream, ledger, cutovers, composing, corrected, rejected>>
      /\ repair' = repair \cup {g}
  BY DEF DeclareRepair
<1>2. GoodStep /\ CoupledMoves
  BY <1>1, StillGood
<1>3. /\ DOMAIN g.members = members /\ g.season = season /\ g.cutoff = cutoff
      /\ \A s \in members : g.members[s].active = stream[s].active
  OBVIOUS
<1>4. ASSUME NEW s \in members
      PROVE  /\ stream[s].active # None /\ stream[s].versions[stream[s].active].season = season
             /\ stream[s].versions[stream[s].active].cutoff <= cutoff
  BY DEF DeclareRepair
<1> HIDE DEF g
<1>5. ASSUME NEW s \in DOMAIN g.members PROVE MemberOK(g, s, stream'[s])
  <2>1. s \in members /\ s \in Streams \ Ledger /\ StreamOK(stream[s])
    BY <1>3, <1>5 DEF IInv
  <2>2. stream[s].active \in Ids /\ stream[s].active <= stream[s].made /\ stream[s].made \in Nat
    BY <1>4, <2>1, Fields, IdsNat DEF StreamOK
  <2>3. stream[s].active \in 1..stream[s].made
    BY <2>2, Bounds DEF Ids
  <2> QED
    BY <1>1, <1>3, <1>4, <2>1, <2>3 DEF MemberOK
<1>6. \A h \in repair' : \/ \E k \in repair : /\ h.members = k.members
                                              /\ h.season = k.season /\ h.cutoff = k.cutoff
                         \/ \A s \in DOMAIN h.members : MemberOK(h, s, stream'[s])
  BY <1>1, <1>5
<1>7. AInv'
  BY <1>1, <1>2, <1>6, GoodKeeps
<1> QED
  BY <1>2, <1>7, GoodAll DEF AuthorityStep

LEMMA ComposePreparedAuthority ==
    ASSUME IInv, AInv, NEW w \in Workers, ComposePrepared(w)
    PROVE  AuthorityStep
<1>0. PICK c : c = composing[w]
  OBVIOUS
<1> DEFINE s == c.stream
           st == stream[s]
           published == PublishedSeason(stream[Leader])
           nx == ComposeActive(s, st, published, c.season, c.cutoff, c.evidence, {})
<1>1. /\ s \in Streams /\ st.enabled /\ c.season \in Seasons
      /\ c.cutoff \in Cutoffs /\ c.evidence \in SUBSET Source /\ HasRoom(s)
      /\ ExpectationHolds(c) /\ PreparedOK(c, st, ledger)
  BY <1>0 DEF IInv, AInv, PreparedInv, ComposePrepared
<1>2. /\ stream' = [stream EXCEPT ![s] = nx]
      /\ corrected' = corrected /\ rejected' = [rejected EXCEPT ![s] = rejected[s]]
      /\ composing' = [v \in Workers |-> IF v = w THEN Idle ELSE composing[v]]
      /\ UNCHANGED <<ledger, cutovers, repair>>
  BY <1>0 DEF ComposePrepared, AInv, IInv
<1>3. /\ StreamOK(st) /\ ContentOK(s, st, ledger, corrected[s], rejected[s]) /\ st.made < MaxVersions
      /\ ledger \in [Items -> 1..(MaxSources + 1)]
  BY <1>1, Room DEF IInv, AInv
<1>4. s # Leader /\ s \notin Ledger /\ s \notin Family /\ Leader \in Streams
  BY <1>1, StreamSets DEF PreparedOK
<1>5. Accepted(s, c.season, c.evidence, ledger)
  BY <1>1, <1>4 DEF PreparedOK, Accepted
<1>6. FixOK(c.season, {}, ledger) /\ corrected[s] \cup Replaced({}) = corrected[s]
  BY NothingReplaced DEF FixOK
<1>7. PublishedSeason(stream'[Leader]) = published
  <2>1. stream'[Leader] = stream[Leader]
    BY <1>2, <1>4 DEF IInv
  <2> QED
    BY <2>1
<1>8. \/ Composed(st, c.season, c.cutoff, c.evidence)
      \/ st.active = c.active
  BY <1>1 DEF ExpectationHolds
<1> HIDE DEF st, s, published
<1>9. /\ Keeps(s, st, nx, ledger, corrected[s], corrected[s], rejected[s], rejected[s])
      /\ Composes(s, st, nx, published, c.season, c.cutoff, c.evidence)
  <2>1. PICK season, cutoff, evidence, fixed :
            season = c.season /\ cutoff = c.cutoff /\ evidence = c.evidence /\ fixed = {}
    OBVIOUS
  <2>2. /\ season \in Seasons /\ cutoff \in Cutoffs /\ evidence \in SUBSET Source
        /\ Accepted(s, season, evidence, ledger) /\ FixOK(season, fixed, ledger) /\ fixed = {}
    BY <1>1, <1>5, <1>6, <2>1
  <2>3. nx = ComposeActive(s, st, published, season, cutoff, evidence, fixed)
    BY <2>1
  <2> HIDE DEF nx
  <2>4. /\ Keeps(s, st, nx, ledger, corrected[s], corrected[s] \cup Replaced(fixed), rejected[s], rejected[s])
        /\ Composes(s, st, nx, published, season, cutoff, evidence)
    BY <1>1, <1>3, <2>2, <2>3, ComposeActiveKeeps
  <2> QED
    BY <1>6, <2>1, <2>4
<1> HIDE DEF nx
<1>10. Good(s, st, nx, ledger, corrected[s], corrected[s], rejected[s], rejected[s], published)
  <2>1. CASE Untaken(st, nx, c.season)
    BY <1>3, <1>9, <2>1, QuietGood DEF Untaken
  <2>2. CASE /\ nx.active = st.made + 1
             /\ ~Composed(st, c.season, c.cutoff, c.evidence)
             /\ st.active # None => ~Held(s, st, published, c.season, c.cutoff)
             /\ nx.versions[nx.active] = NewVersion(c.season, c.cutoff, "active", c.evidence)
    <3>1. /\ nx.versions[nx.active].season = c.season /\ nx.versions[nx.active].cutoff = c.cutoff
          /\ nx.versions[nx.active].evidence = c.evidence
      BY <2>2, NewContent
    <3>2. st.active # None => /\ ~SeasonHeld(st, published, c.season)
                              /\ ~EarlierCutoff(s, st, published, c.season, c.cutoff)
      BY <2>2 DEF Held
    <3>3. SeasonMove(s, st, nx, published)
      BY <1>4, <3>1, <3>2 DEF SeasonMove, SeasonHeld
    <3>4. st.active # None /\ st.versions[st.active].season = c.season
                => st.versions[st.active].cutoff <= c.cutoff
      <4>1. st.active # None => st.versions[st.active] \in Version
        BY <1>3, Fields
      <4>2. st.active # None => st.versions[st.active].cutoff \in Nat
        BY <4>1, Bounds DEF Version, Cutoffs, None
      <4>3. c.cutoff \in Nat
        BY <1>1 DEF Cutoffs
      <4> QED
        BY <1>4, <3>2, <4>2, <4>3 DEF EarlierCutoff
    <3>5. st.active # None => \A e \in st.versions[st.active].evidence, f \in c.evidence :
                                    e[1] = f[1] => e[2] <= f[2]
      BY <1>1, <1>8, <2>2 DEF PreparedOK
    <3>6. FreshMove(s, st, nx)
      BY <3>1, <3>4, <3>5 DEF FreshMove
    <3> QED
      BY <1>9, <3>3, <3>6 DEF Good
  <2> QED
    BY <1>9, <2>1, <2>2 DEF Composes
<1>11. GoodStep
  BY <1>1, <1>2, <1>4, <1>7, <1>10, OneGood DEF st
<1>12. CoupledMoves
  <2>1. \A t \in Family : stream'[t].active = stream[t].active
    BY <1>2, <1>4, StreamSets DEF IInv
  <2> QED
    BY <2>1, NotCoupled
<1>13. \A v \in Workers : composing'[v] = composing[v] \/ composing'[v].phase # "prepared"
  BY <1>2 DEF Idle
<1>14. AInv'
  BY <1>2, <1>11, <1>13, GoodKeeps
<1> QED
  BY <1>11, <1>12, <1>14, GoodAll DEF AuthorityStep

\* A composition of a ledger stream changes its season to the published one
\* only, and that of the leader never.
LEMMA ComposesGood ==
    ASSUME NEW s, NEW st, NEW nx, StreamOK(st), NEW led, NEW cor, NEW ncor, NEW rej, NEW nrej,
           Keeps(s, st, nx, led, cor, ncor, rej, nrej), s \in Ledger,
           NEW published, NEW season, NEW cutoff, NEW evidence,
           Composes(s, st, nx, published, season, cutoff, evidence),
           st.active # None => \A e \in st.versions[st.active].evidence, f \in evidence :
                                    e[1] = f[1] => e[2] <= f[2],
           s = Leader => published = PublishedSeason(st),
           NEW pub, published # None => pub = published
    PROVE  /\ Good(s, st, nx, led, cor, ncor, rej, nrej, pub)
           /\ s = Leader /\ st.active # None =>
                /\ nx.active # None
                /\ nx.versions[nx.active].season = st.versions[st.active].season
<1>1. st.active # None => /\ st.active \in Ids /\ st.active <= st.made
                          /\ nx.versions[st.active].season = st.versions[st.active].season
  <2>1. st.active # None => st.active \in Ids /\ st.active <= st.made
    BY Fields DEF StreamOK
  <2> QED
    BY <2>1 DEF Keeps, Same
<1>2. CASE /\ Untaken(st, nx, season)
           /\ nx.active # st.active => Held(s, st, published, season, cutoff)
  <2>1. Good(s, st, nx, led, cor, ncor, rej, nrej, pub)
    BY <1>2, QuietGood DEF Untaken
  <2>2. ASSUME s = Leader, st.active # None PROVE nx.active = st.active
    <3>1. published = st.versions[st.active].season
      BY <2>2 DEF PublishedSeason
    <3>2. season = st.versions[st.active].season => ~Held(s, st, published, season, cutoff)
      BY <3>1 DEF Held, SeasonHeld, EarlierCutoff, NotReady
    <3> QED
      BY <1>2, <3>2 DEF Untaken
  <2> QED
    BY <1>1, <2>1, <2>2
<1>3. CASE /\ nx.active = st.made + 1
           /\ st.active # None => ~Held(s, st, published, season, cutoff)
           /\ nx.versions[nx.active] = NewVersion(season, cutoff, "active", evidence)
  <2>1. nx.versions[nx.active].season = season /\ nx.versions[nx.active].evidence = evidence
    BY <1>3, NewContent
  <2>2. st.active # None => ~SeasonHeld(st, published, season)
    BY <1>3 DEF Held
  <2>3. s = Leader /\ st.active # None => season = st.versions[st.active].season
    BY <2>2 DEF SeasonHeld, PublishedSeason
  <2>4. SeasonMove(s, st, nx, pub)
    BY <2>1, <2>2, <2>3 DEF SeasonMove, SeasonHeld
  <2>5. FreshMove(s, st, nx)
    BY <2>1 DEF FreshMove
  <2>6. nx.active # None
    BY <1>3, Fields, Bounds DEF None
  <2> QED
    BY <2>1, <2>3, <2>4, <2>5, <2>6 DEF Good
<1> QED
  BY <1>2, <1>3 DEF Composes

LEMMA RecomposeAuthority ==
    ASSUME IInv, AInv, NEW batch \in SUBSET Ledger, NEW season \in Seasons, NEW cutoff \in Cutoffs,
           NEW fixed \in Fixes(season), RecomposeLedgerBatch(batch, season, cutoff, fixed)
    PROVE  AuthorityStep
<1> DEFINE published == PublishedSeason(stream[Leader])
           Evidence(s) == CurrentEvidence(s, season, cutoff)
           Step(s) == IF stream[s].enabled
                      THEN ComposeActive(s, stream[s], published, season, cutoff, Evidence(s), fixed)
                      ELSE ComposeInactive(stream[s], season, cutoff, Evidence(s), fixed)
           nx == [s \in Streams |-> Step(s)]
           ncor == [s \in Streams |-> corrected[s] \cup Replaced(fixed)]
           nrej == [s \in Streams |-> rejected[s]]
           pub == PublishedSeason(stream'[Leader])
<1>1. /\ stream' = [s \in Streams |-> IF s \in batch THEN nx[s] ELSE stream[s]]
      /\ corrected' = [s \in Streams |-> IF s \in batch THEN ncor[s] ELSE corrected[s]]
      /\ rejected' = [s \in Streams |-> IF s \in batch THEN nrej[s] ELSE rejected[s]]
      /\ UNCHANGED <<ledger, cutovers, composing, repair>>
      /\ \A s \in batch : HasRoom(s)
  BY DEF RecomposeLedgerBatch, AInv
<1>2. FixOK(season, fixed, ledger) /\ ledger \in [Items -> 1..(MaxSources + 1)]
  BY FixesOK DEF IInv
<1>3. ASSUME NEW s \in batch
      PROVE  /\ s \in Ledger /\ s \in Streams /\ StreamOK(stream[s])
             /\ Keeps(s, stream[s], nx[s], ledger, corrected[s], ncor[s], rejected[s], nrej[s])
             /\ Composes(s, stream[s], nx[s], published, season, cutoff, Evidence(s))
             /\ stream[s].active # None =>
                    \A e \in stream[s].versions[stream[s].active].evidence, f \in Evidence(s) :
                        e[1] = f[1] => e[2] <= f[2]
  <2>1. s \in Ledger /\ s \in Streams
    BY StreamSets
  <2>2. /\ StreamOK(stream[s]) /\ ContentOK(s, stream[s], ledger, corrected[s], rejected[s])
        /\ stream[s].made < MaxVersions
    BY <1>1, <2>1, Room DEF IInv, AInv
  <2>3. Accepted(s, season, Evidence(s), ledger) /\ Evidence(s) \in SUBSET Source
    BY <1>2, CurrentAccepted
  <2>4. nx[s] = Step(s) /\ ncor[s] = corrected[s] \cup Replaced(fixed) /\ nrej[s] = rejected[s]
    BY <2>1
  <2>5. stream[s].active # None =>
            \A e \in stream[s].versions[stream[s].active].evidence, f \in Evidence(s) :
                e[1] = f[1] => e[2] <= f[2]
    <3>1. stream[s].active # None => stream[s].active \in Ids
      BY <2>2, Fields
    <3> QED
      BY <1>2, <2>2, <3>1, CurrentNewer DEF ContentOK
  <2> HIDE DEF published, Evidence, nx, ncor, nrej
  <2>a. PICK ev, st : ev = Evidence(s) /\ st = stream[s]
    OBVIOUS
  <2>b. /\ StreamOK(st) /\ ContentOK(s, st, ledger, corrected[s], rejected[s]) /\ st.made < MaxVersions
        /\ Accepted(s, season, ev, ledger) /\ ev \in SUBSET Source
        /\ s \notin Ledger => fixed = {}
    BY <2>1, <2>2, <2>3, <2>a
  <2>6. CASE stream[s].enabled
    <3>1. nx[s] = ComposeActive(s, st, published, season, cutoff, ev, fixed) /\ st.enabled
      BY <2>4, <2>6, <2>a
    <3>a. /\ Keeps(s, st, ComposeActive(s, st, published, season, cutoff, ev, fixed), ledger,
                   corrected[s], corrected[s] \cup Replaced(fixed), rejected[s], rejected[s])
          /\ Composes(s, st, ComposeActive(s, st, published, season, cutoff, ev, fixed),
                      published, season, cutoff, ev)
      BY <1>2, <2>1, <2>b, <3>1, ComposeActiveKeeps
    <3>2. /\ Keeps(s, st, nx[s], ledger, corrected[s], corrected[s] \cup Replaced(fixed),
                   rejected[s], rejected[s])
          /\ Composes(s, st, nx[s], published, season, cutoff, ev)
      BY <3>1, <3>a
    <3> QED
      BY <2>1, <2>2, <2>4, <2>5, <2>a, <3>2
  <2>7. CASE ~stream[s].enabled
    <3>1. nx[s] = ComposeInactive(st, season, cutoff, ev, fixed)
      BY <2>4, <2>7, <2>a
    <3>a. /\ Keeps(s, st, ComposeInactive(st, season, cutoff, ev, fixed), ledger,
                   corrected[s], corrected[s] \cup Replaced(fixed), rejected[s], rejected[s])
          /\ Untaken(st, ComposeInactive(st, season, cutoff, ev, fixed), season)
      BY <1>2, <2>1, <2>b, ComposeInactiveKeeps
    <3>2. /\ Keeps(s, st, nx[s], ledger, corrected[s], corrected[s] \cup Replaced(fixed),
                   rejected[s], rejected[s])
          /\ Untaken(st, nx[s], season)
      BY <3>1, <3>a
    <3>3. st.active = None
      BY <2>2, <2>7, <2>a DEF StreamOK
    <3>4. Composes(s, st, nx[s], published, season, cutoff, ev)
      BY <3>2, <3>3 DEF Composes, Untaken
    <3> QED
      BY <2>1, <2>2, <2>4, <2>5, <2>a, <3>2, <3>4
  <2> QED
    BY <2>6, <2>7
<1> HIDE DEF nx, ncor, nrej, Evidence
<1>4. Leader \in Streams /\ StreamOK(stream[Leader])
  BY StreamSets DEF IInv
<1>5. stream[Leader].active # None =>
            /\ stream'[Leader].active # None
            /\ stream'[Leader].versions[stream'[Leader].active].season
                    = stream[Leader].versions[stream[Leader].active].season
  <2>1. CASE Leader \notin batch
    <3>1. stream'[Leader] = stream[Leader]
      BY <1>1, <1>4, <2>1
    <3> QED
      BY <3>1
  <2>2. CASE Leader \in batch
    <3>1. stream'[Leader] = nx[Leader]
      BY <1>1, <1>4, <2>2
    <3>2. PICK p : p = published /\ p = PublishedSeason(stream[Leader])
      OBVIOUS
    <3>3. Composes(Leader, stream[Leader], nx[Leader], p, season, cutoff, Evidence(Leader))
      BY <1>3, <2>2, <3>2
    <3> HIDE DEF published
    <3>4. stream[Leader].active # None =>
                /\ nx[Leader].active # None
                /\ nx[Leader].versions[nx[Leader].active].season
                        = stream[Leader].versions[stream[Leader].active].season
      BY <1>3, <2>2, <3>2, <3>3, ComposesGood
    <3> QED
      BY <3>1, <3>4
  <2> QED
    BY <2>1, <2>2
<1>6. published # None => pub = published
  BY <1>5 DEF PublishedSeason
<1>7. ASSUME NEW s \in Streams, s \in batch
      PROVE  Good(s, stream[s], nx[s], ledger, corrected[s], ncor[s], rejected[s], nrej[s], pub)
  <2>1. s = Leader => published = PublishedSeason(stream[s])
    OBVIOUS
  <2> HIDE DEF published, pub
  <2> QED
    BY <1>3, <1>6, <1>7, <2>1, ComposesGood
<1>8. GoodStep
  BY <1>1, <1>5, <1>7, SomeGood
<1>9. CoupledMoves
  <2>1. ASSUME NEW t \in Family, stream[t].active # None
        PROVE  \/ stream'[t].active \in {None, stream[t].active}
               \/ /\ stream'[t].versions[stream'[t].active].status # "rollback"
                  /\ ~stream'[t].versions[stream'[t].active].activated
    <3>1. t \in Streams
      BY StreamSets
    <3>2. CASE t \notin batch
      BY <1>1, <3>1, <3>2
    <3>3. CASE t \in batch
      <4>1. stream'[t] = nx[t]
        BY <1>1, <3>1, <3>3
      <4>2. CASE nx[t].versions[nx[t].active] = NewVersion(season, cutoff, "active", Evidence(t))
        <5>1. nx[t].versions[nx[t].active].status = "active" /\ ~nx[t].versions[nx[t].active].activated
          BY <4>2, NewContent
        <5> QED
          BY <4>1, <5>1
      <4>3. CASE Untaken(stream[t], nx[t], season)
        BY <4>1, <4>3 DEF Untaken
      <4> QED
        BY <1>3, <3>3, <4>2, <4>3 DEF Composes
    <3> QED
      BY <3>2, <3>3
  <2> QED
    BY <2>1, NotCoupled
<1> QED
  BY <1>1, <1>8, <1>9, GoodOnly

LEMMA RevertAuthority ==
    ASSUME IInv, AInv, NEW c \in cutovers, RevertCutover(c)
    PROVE  AuthorityStep
<1> DEFINE set == DOMAIN c.moved
           nx == [s \in Streams |-> Restore(stream[s], c.moved[s])]
           ncor == [s \in Streams |-> corrected[s]]
           nrej == [s \in Streams |-> rejected[s] \cup {c.moved[s].to}]
           pub == PublishedSeason(stream'[Leader])
<1>1. /\ stream' = [s \in Streams |-> IF s \in set THEN nx[s] ELSE stream[s]]
      /\ corrected' = [s \in Streams |-> IF s \in set THEN ncor[s] ELSE corrected[s]]
      /\ rejected' = [s \in Streams |-> IF s \in set THEN nrej[s] ELSE rejected[s]]
      /\ UNCHANGED <<ledger, cutovers, composing, repair>>
  BY DEF RevertCutover, AInv
<1>2. ASSUME NEW s \in set
      PROVE  /\ s \in Streams /\ StreamOK(stream[s])
             /\ Keeps(s, stream[s], nx[s], ledger, corrected[s], ncor[s], rejected[s], nrej[s])
             /\ nx[s].active = stream[s].previous /\ nx[s].active # None
             /\ nx[s].active \in Ids /\ nx[s].active <= stream[s].made
             /\ nx[s].versions[nx[s].active].season = stream[s].versions[stream[s].previous].season
             /\ nx[s].versions[nx[s].active].status = "active"
             /\ nx[s].versions[nx[s].active].activated =>
                    stream[s].versions[nx[s].active].activated
  <2>1. PICK m, st : m = c.moved[s] /\ st = stream[s]
    OBVIOUS
  <2>2. Reversible(c) /\ st.active = m.to /\ st.previous = m.from
    BY <1>2, <2>1 DEF RevertCutover
  <2>3. /\ s \in Streams /\ MoveOK(st, m) /\ m.to \in 1..st.made /\ m.from # m.to
        /\ st.versions[m.from].live /\ RecordOK(s, st, m, corrected[s], rejected[s])
    BY <1>2, <2>1, <2>2, MoveFacts DEF AInv
  <2>4. StreamOK(st) /\ ContentOK(s, st, ledger, corrected[s], rejected[s])
    BY <2>1, <2>3 DEF IInv, AInv
  <2>5. nx[s] = Restore(st, m) /\ ncor[s] = corrected[s] /\ nrej[s] = rejected[s] \cup {m.to}
    BY <2>1, <2>3
  <2>6. m.from # None /\ m.from \in Ids /\ m.from <= st.made
    <3>1. st.made \in Nat /\ st.made <= MaxVersions
      BY <2>4, Fields, IdsNat
    <3> QED
      BY <2>3, <3>1, IdsNat DEF MoveOK, Ids, None
  <2> HIDE DEF nx, ncor, nrej
  <2>7. /\ Keeps(s, st, Restore(st, m), ledger, corrected[s], corrected[s], rejected[s],
                 rejected[s] \cup {m.to})
        /\ Restore(st, m).active = m.from /\ Restore(st, m).versions[m.from].status = "active"
        /\ Restore(st, m).versions[m.from].activated => st.versions[m.from].activated
    BY <2>2, <2>3, <2>4, RestoreKeeps
  <2>8. Restore(st, m).versions[m.from].season = st.versions[m.from].season
    BY <2>6, <2>7 DEF Keeps, Same
  <2> QED
    BY <2>1, <2>2, <2>3, <2>4, <2>5, <2>6, <2>7, <2>8
<1> HIDE DEF nx, ncor, nrej
<1>3. ASSUME NEW s \in Streams, s \in set
      PROVE  Good(s, stream[s], nx[s], ledger, corrected[s], ncor[s], rejected[s], nrej[s], pub)
  <2>1. stream[s].previous # None
    BY <1>2, <1>3
  <2> HIDE DEF set, pub
  <2> QED
    BY <1>2, <1>3, <2>1, TakenGood
<1>4. Leader \in Streams
  BY StreamSets
<1>5. stream[Leader].active # None => stream'[Leader].active # None
  BY <1>1, <1>2, <1>4
<1>6. GoodStep
  BY <1>1, <1>3, <1>5, SomeGood
<1>7. CoupledMoves
  <2>1. ASSUME NEW t \in Family, stream[t].active # None
        PROVE  \/ stream'[t].active \in {None, stream[t].active}
               \/ /\ stream'[t].versions[stream'[t].active].status # "rollback"
                  /\ stream'[t].versions[stream'[t].active].activated =>
                        stream[t].versions[stream'[t].active].activated
    <3>1. t \in Streams
      BY StreamSets
    <3>2. CASE t \notin set
      BY <1>1, <3>1, <3>2
    <3>3. CASE t \in set
      <4>1. stream'[t] = nx[t]
        BY <1>1, <3>1, <3>3
      <4>2. nx[t].versions[nx[t].active].status # "rollback"
        BY <1>2, <3>3
      <4>3. nx[t].versions[nx[t].active].activated => stream[t].versions[nx[t].active].activated
        BY <1>2, <3>3
      <4> QED
        BY <4>1, <4>2, <4>3
    <3> QED
      BY <3>2, <3>3
  <2> QED
    BY <2>1, NotCoupled
<1> QED
  BY <1>1, <1>6, <1>7, GoodOnly

LEMMA RollbackFamilyAuthority ==
    ASSUME IInv, AInv, RollbackFamily
    PROVE  AuthorityStep
<1> DEFINE Season(s) == stream[s].versions[stream[s].active].season
           back == {s \in Family : \A t \in Family : Season(t) <= Season(s)}
           nx == [s \in Streams |-> RollBack(stream[s])]
           ncor == [s \in Streams |-> corrected[s]]
           nrej == [s \in Streams |-> rejected[s] \cup WithdrawnByRollback(stream[s])]
           pub == PublishedSeason(stream'[Leader])
<1>1. /\ stream' = [s \in Streams |-> IF s \in back THEN nx[s] ELSE stream[s]]
      /\ corrected' = [s \in Streams |-> IF s \in back THEN ncor[s] ELSE corrected[s]]
      /\ rejected' = [s \in Streams |-> IF s \in back THEN nrej[s] ELSE rejected[s]]
      /\ UNCHANGED <<ledger, cutovers, composing, repair>>
  BY DEF RollbackFamily, AInv
<1>a. \A s \in back : CanRollBack(stream[s]) /\ HasRoom(s) /\ s \in Family
  BY DEF RollbackFamily
<1>b. \A s \in back, t \in Family : Season(t) = Season(s) => t \in back
  OBVIOUS
<1> HIDE DEF back
<1>2. ASSUME NEW s \in back
      PROVE  /\ s \in Streams /\ StreamOK(stream[s]) /\ stream[s].active # None
             /\ Keeps(s, stream[s], nx[s], ledger, corrected[s], ncor[s], rejected[s], nrej[s])
             /\ nx[s].active = stream[s].made + 1 /\ nx[s].active # None
             /\ stream[s].previous # None /\ nx[s].active # stream[s].active
             /\ nx[s].versions[nx[s].active].season = stream[s].versions[stream[s].previous].season
             /\ nx[s].versions[nx[s].active].status = "rollback"
  <2>1. PICK st : st = stream[s]
    OBVIOUS
  <2>2. s \in Streams /\ CanRollBack(st) /\ StreamOK(st) /\ st.made < MaxVersions
    BY <1>a, <2>1, Room, StreamSets DEF IInv
  <2>3. ContentOK(s, st, ledger, corrected[s], rejected[s])
    BY <2>1, <2>2 DEF AInv
  <2>4. /\ nx[s] = RollBack(st) /\ ncor[s] = corrected[s]
        /\ nrej[s] = rejected[s] \cup WithdrawnByRollback(st)
    BY <2>1, <2>2
  <2> HIDE DEF nx, ncor, nrej
  <2>5. /\ Keeps(s, st, RollBack(st), ledger, corrected[s], corrected[s], rejected[s],
                 rejected[s] \cup WithdrawnByRollback(st))
        /\ RollBack(st).active = st.made + 1
        /\ RollBack(st).versions[RollBack(st).active].season = st.versions[st.previous].season
        /\ RollBack(st).versions[RollBack(st).active].status = "rollback"
    BY <2>2, <2>3, RollBackKeeps
  <2>6. st.made + 1 # None /\ st.made + 1 # st.active
    <3>1. st.made \in Nat /\ st.active \in Ids \cup {None} /\ st.active <= st.made
      BY <2>2, Fields, IdsNat DEF StreamOK
    <3> QED
      BY <3>1, Bounds DEF Ids, None
  <2>7. st.previous # None /\ st.active # None
    BY <2>2 DEF CanRollBack
  <2> QED
    BY <2>1, <2>2, <2>4, <2>5, <2>6, <2>7
<1> HIDE DEF nx, ncor, nrej
<1>3. ASSUME NEW s \in Streams, s \in back
      PROVE  Good(s, stream[s], nx[s], ledger, corrected[s], ncor[s], rejected[s], nrej[s], pub)
  <2> HIDE DEF pub
  <2>1. nx[s].versions[nx[s].active].status # "active"
    BY <1>2, <1>3
  <2> QED
    BY <1>2, <1>3, <2>1, TakenGood
<1>4. Leader \in Streams /\ Family \subseteq Streams
  BY StreamSets
<1>5. stream[Leader].active # None => stream'[Leader].active # None
  BY <1>1, <1>2, <1>4
<1>6. GoodStep
  BY <1>1, <1>3, <1>5, SomeGood
<1>7. CoupledMoves
  <2> SUFFICES ASSUME NEW s \in Family, NEW t \in Family, Season(s) = Season(t),
                      stream'[s].active # stream[s].active
               PROVE  stream'[t].active # stream[t].active
    BY DEF CoupledMoves, ServedSeason
  <2>1. s \in back
    BY <1>1, <1>4
  <2>2. t \in back
    BY <1>b, <2>1
  <2>3. stream'[t] = nx[t]
    BY <1>1, <1>4, <2>2
  <2> QED
    BY <1>2, <2>2, <2>3
<1> QED
  BY <1>1, <1>6, <1>7, GoodOnly

LEMMA PromoteFamilyAuthority ==
    ASSUME IInv, AInv, NEW to \in [Family -> Ids], PromoteFamily(to)
    PROVE  AuthorityStep
<1> DEFINE nx == [s \in Streams |-> MoveToCandidate(stream[s], to[s])]
           ncor == [s \in Streams |-> corrected[s]]
           nrej == [s \in Streams |-> rejected[s]]
           pub == PublishedSeason(stream'[Leader])
<1>1. /\ stream' = [s \in Streams |-> IF s \in Family THEN nx[s] ELSE stream[s]]
      /\ corrected' = [s \in Streams |-> IF s \in Family THEN ncor[s] ELSE corrected[s]]
      /\ rejected' = [s \in Streams |-> IF s \in Family THEN nrej[s] ELSE rejected[s]]
      /\ UNCHANGED <<ledger, cutovers, composing, repair>>
  BY DEF PromoteFamily, AInv
<1>2. ASSUME NEW s \in Family
      PROVE  /\ s \in Streams /\ StreamOK(stream[s])
             /\ Keeps(s, stream[s], nx[s], ledger, corrected[s], ncor[s], rejected[s], nrej[s])
             /\ nx[s].active \in Ids /\ nx[s].active <= stream[s].made
             /\ nx[s].active # stream[s].active
             /\ nx[s].versions[nx[s].active].activated
  <2>1. PICK st, v : st = stream[s] /\ v = to[s]
    OBVIOUS
  <2>2. /\ s \in Streams /\ StreamOK(st) /\ ContentOK(s, st, ledger, corrected[s], rejected[s])
        /\ st.active # None /\ v \in Ids
        /\ st.versions[v].live /\ st.versions[v].status = "candidate"
    BY <2>1, StreamSets DEF PromoteFamily, IInv, AInv
  <2>3. nx[s] = MoveToCandidate(st, v) /\ ncor[s] = corrected[s] /\ nrej[s] = rejected[s]
    BY <2>1, <2>2
  <2> HIDE DEF nx, ncor, nrej
  <2>4. /\ Keeps(s, st, MoveToCandidate(st, v), ledger, corrected[s], corrected[s],
                 rejected[s], rejected[s])
        /\ MoveToCandidate(st, v).active = v /\ v # st.active
        /\ MoveToCandidate(st, v).versions[v].activated
    BY <2>2, MoveToCandidateKeeps
  <2>5. v <= st.made
    BY <2>2 DEF StreamOK
  <2> QED
    BY <2>1, <2>2, <2>3, <2>4, <2>5
<1> HIDE DEF nx, ncor, nrej
<1>3. ASSUME NEW s \in Streams, s \in Family
      PROVE  Good(s, stream[s], nx[s], ledger, corrected[s], ncor[s], rejected[s], nrej[s], pub)
  <2> HIDE DEF pub
  <2> QED
    BY <1>2, <1>3, TakenGood
<1>4. Leader \in Streams /\ Family \subseteq Streams /\ Leader \notin Family
  BY StreamSets
<1>5. stream[Leader].active # None => stream'[Leader].active # None
  BY <1>1, <1>4
<1>6. GoodStep
  BY <1>1, <1>3, <1>5, SomeGood
<1>7. CoupledMoves
  BY <1>1, <1>2, <1>4 DEF CoupledMoves
<1> QED
  BY <1>1, <1>6, <1>7, GoodOnly

LEMMA PromoteRepairAuthority ==
    ASSUME IInv, AInv, NEW g \in repair, PromoteRepair(g)
    PROVE  AuthorityStep
<1> DEFINE set == DOMAIN g.members
           nx == [s \in Streams |->
                    Displace(Advance(stream[s], g.season, g.cutoff,
                                     CurrentEvidence(s, g.season, g.cutoff), TRUE),
                             g.members[s].active)]
           ncor == [s \in Streams |-> corrected[s]]
           nrej == [s \in Streams |-> rejected[s] \cup {g.members[s].active}]
           pub == PublishedSeason(stream'[Leader])
           done == [g EXCEPT !.promoted = TRUE]
<1>1. /\ stream' = [s \in Streams |-> IF s \in set THEN nx[s] ELSE stream[s]]
      /\ corrected' = [s \in Streams |-> IF s \in set THEN ncor[s] ELSE corrected[s]]
      /\ rejected' = [s \in Streams |-> IF s \in set THEN nrej[s] ELSE rejected[s]]
      /\ repair' = (repair \ {g}) \cup {done}
      /\ UNCHANGED <<ledger, cutovers, composing>>
  BY DEF PromoteRepair, Displace, AInv
<1>2. g.season \in Seasons /\ g.cutoff \in Cutoffs /\ set \subseteq Streams
  BY DEF IInv, RepairInv
<1>3. ASSUME NEW s \in set
      PROVE  /\ s \in Streams /\ s \notin Ledger /\ nx[s].active # None
             /\ nx[s].versions[nx[s].active].status = "active"
             /\ ~nx[s].versions[nx[s].active].activated
             /\ Good(s, stream[s], nx[s], ledger, corrected[s], ncor[s], rejected[s], nrej[s], pub)
  <2>1. PICK st, evidence : st = stream[s] /\ evidence = CurrentEvidence(s, g.season, g.cutoff)
    OBVIOUS
  <2>2. /\ s \in Streams /\ StreamOK(st) /\ st.enabled /\ HasRoom(s)
        /\ g.members[s].active = st.active
        /\ ledger \in [Items -> 1..(MaxSources + 1)]
    BY <1>2, <2>1 DEF IInv, PromoteRepair
  <2>3. ContentOK(s, st, ledger, corrected[s], rejected[s]) /\ MemberOK(g, s, st)
    BY <2>1, <2>2 DEF AInv
  <2>4. /\ s \notin Ledger /\ st.active \in 1..st.made
        /\ st.versions[st.active].season = g.season
        /\ st.versions[st.active].cutoff <= g.cutoff
    BY <2>2, <2>3 DEF MemberOK
  <2>5. st.made < MaxVersions /\ st.made \in Nat /\ st.active \in Ids /\ st.active # None
    <3>1. st.made < MaxVersions
      BY <2>1, <2>2, Room
    <3>2. st.made \in Nat
      BY <2>2, Fields, IdsNat
    <3> QED
      BY <2>4, <3>1, <3>2, IdsNat DEF Ids, None
  <2>6. evidence \in SUBSET Source /\ Accepted(s, g.season, evidence, ledger)
    BY <2>1, <2>2, CurrentAccepted
  <2>7. nx[s] = Replacement(st, g.season, g.cutoff, evidence)
    BY <2>1, <2>2 DEF Replacement
  <2>8. ncor[s] = corrected[s] /\ nrej[s] = rejected[s] \cup {st.active}
    BY <2>2
  <2> HIDE DEF nx, ncor, nrej, pub, set
  <2>9. LET new == Replacement(st, g.season, g.cutoff, evidence)
        IN  /\ Keeps(s, st, new, ledger, corrected[s], corrected[s], rejected[s],
                     rejected[s] \cup {st.active})
            /\ new.active = st.made + 1
            /\ new.versions[new.active] = NewVersion(g.season, g.cutoff, "active", evidence)
    <3>a. PICK season \in Seasons, cutoff \in Cutoffs : season = g.season /\ cutoff = g.cutoff
      BY <1>2
    <3>1. PICK cor, rej : cor = corrected[s] /\ rej = rejected[s]
      OBVIOUS
    <3>2. st.versions[st.active].season = season /\ ContentOK(s, st, ledger, cor, rej)
          /\ Accepted(s, season, evidence, ledger)
      BY <2>3, <2>4, <2>6, <3>a, <3>1
    <3>3. LET new == Replacement(st, season, cutoff, evidence)
          IN  /\ Keeps(s, st, new, ledger, cor, cor, rej, rej \cup {st.active})
              /\ new.active = st.made + 1
              /\ new.versions[new.active] = NewVersion(season, cutoff, "active", evidence)
      BY <2>2, <2>5, <2>6, <3>2, ReplaceKeeps, SMTT(20)
    <3> QED
      BY <3>a, <3>1, <3>3
  <2>10. /\ Keeps(s, st, nx[s], ledger, corrected[s], ncor[s], rejected[s], nrej[s])
         /\ nx[s].active = st.made + 1
         /\ nx[s].versions[nx[s].active] = NewVersion(g.season, g.cutoff, "active", evidence)
    BY <2>7, <2>8, <2>9
  <2>11. LET p == nx[s].versions[nx[s].active]
         IN  /\ p.season = g.season /\ p.cutoff = g.cutoff /\ p.status = "active"
             /\ p.evidence = evidence /\ ~p.activated
    BY <2>10, NewContent
  <2>12. SeasonMove(s, st, nx[s], pub)
    BY <2>4, <2>11 DEF SeasonMove
  <2>13. \A e \in st.versions[st.active].evidence, f \in evidence : e[1] = f[1] => e[2] <= f[2]
    <3>1. EvidenceOK(st, ledger)
      BY <2>3 DEF ContentOK
    <3> QED
      BY <2>1, <2>2, <2>5, <3>1, CurrentNewer
  <2>14. FreshMove(s, st, nx[s])
    BY <2>4, <2>11, <2>13 DEF FreshMove
  <2>15. nx[s].active # None
    BY <2>5, <2>10 DEF None
  <2> QED
    BY <2>1, <2>2, <2>4, <2>10, <2>11, <2>12, <2>14, <2>15 DEF Good
<1>4. /\ done.members = g.members /\ done.season = g.season /\ done.cutoff = g.cutoff
  OBVIOUS
<1> HIDE DEF nx, ncor, nrej, set, done, pub
<1>5. Leader \in Streams /\ Leader \in Ledger /\ Family \subseteq Streams /\ Family \subseteq Ledger
  BY StreamSets
<1>6. stream[Leader].active # None => stream'[Leader].active # None
  BY <1>1, <1>3, <1>5
<1>7. \A s \in Streams : s \in set =>
            Good(s, stream[s], nx[s], ledger, corrected[s], ncor[s], rejected[s], nrej[s],
                 PublishedSeason(stream'[Leader]))
  BY <1>3 DEF pub
<1>8. GoodStep
  BY <1>1, <1>6, <1>7, SomeGood
<1>9. CoupledMoves
  <2>1. \A t \in Family : stream'[t] = stream[t]
    BY <1>1, <1>3, <1>5
  <2> QED
    BY <2>1, NotCoupled
<1>10. \A h \in repair' : \E k \in repair : /\ h.members = k.members
                                            /\ h.season = k.season /\ h.cutoff = k.cutoff
  BY <1>1, <1>4
<1>11. AInv'
  BY <1>1, <1>8, <1>10, GoodKeeps
<1> QED
  BY <1>8, <1>9, <1>11, GoodAll DEF AuthorityStep

\* A replaced source only makes what versions and corrections cite older.
LEMMA ReplaceSourceAuthority ==
    ASSUME IInv, AInv, NEW i \in Revised, ReplaceSource(i)
    PROVE  AuthorityStep
<1>1. UNCHANGED <<stream, cutovers, composing, repair, corrected, rejected>>
  BY DEF ReplaceSource
<1>2. \A e \in Items : ledger[e] \in Nat /\ ledger'[e] \in Nat /\ ledger[e] <= ledger'[e]
  <2>1. ledger' = [ledger EXCEPT ![i] = @ + 1] /\ i \in Items
    BY Bounds DEF ReplaceSource
  <2>2. \A e \in Items : ledger[e] \in Nat
    BY Bounds DEF IInv
  <2>3. \A e \in Items : ledger'[e] = IF e = i THEN ledger[e] + 1 ELSE ledger[e]
    BY <2>1 DEF IInv
  <2> QED
    BY <2>2, <2>3
<1>3. \A e \in Source : e[1] \in Items /\ e[2] \in Nat
  BY Bounds DEF Source
<1>4. ASSUME NEW s \in Streams
      PROVE  ContentOK(s, stream'[s], ledger', corrected'[s], rejected'[s])
  <2>1. StreamOK(stream[s]) /\ ContentOK(s, stream[s], ledger, corrected[s], rejected[s])
    BY DEF IInv, AInv
  <2>2. EvidenceOK(stream[s], ledger')
    <3>1. ASSUME NEW v \in Ids, NEW e \in stream[s].versions[v].evidence
          PROVE  e[1][1] = stream[s].versions[v].season /\ e[2] <= ledger'[e[1]]
      <4>1. e[1][1] = stream[s].versions[v].season /\ e[2] <= ledger[e[1]]
        BY <2>1 DEF ContentOK, EvidenceOK
      <4>2. e \in Source
        BY <2>1, EvidenceSource
      <4> QED
        BY <1>2, <1>3, <4>1, <4>2
    <3> QED
      BY <3>1 DEF EvidenceOK
  <2>3. CorrectedOK(stream[s], ledger', corrected[s])
    <3>1. CorrectedOK(stream[s], ledger, corrected[s])
      BY <2>1 DEF ContentOK
    <3>2. \A e \in corrected[s] : e \in Source /\ e[2] < ledger'[e[1]]
      BY <1>2, <1>3, <3>1 DEF CorrectedOK
    <3> QED
      BY <3>1, <3>2 DEF CorrectedOK
  <2> QED
    BY <1>1, <2>1, <2>2, <2>3 DEF ContentOK
<1>5. ASSUME NEW w \in Workers, composing[w].phase = "prepared"
      PROVE  PreparedOK(composing[w], stream[composing[w].stream], ledger')
  <2>1. /\ PreparedOK(composing[w], stream[composing[w].stream], ledger)
        /\ composing[w].evidence \in SUBSET Source
    BY <1>5 DEF AInv, IInv, PreparedInv
  <2>2. \A f \in composing[w].evidence : f[2] <= ledger'[f[1]]
    BY <1>2, <1>3, <2>1 DEF PreparedOK
  <2> QED
    BY <2>1, <2>2 DEF PreparedOK
<1>6. AInv'
  BY <1>1, <1>4, <1>5 DEF AInv, Reversible
<1>7. GoodStep /\ CoupledMoves
  BY <1>1, StillGood
<1> QED
  BY <1>6, <1>7, GoodAll DEF AuthorityStep

\* What retention does to a stream: it deletes versions that neither the
\* pointer nor a candidate's status keeps, and leaves their seasons.
Pruned(st, nx) ==
    /\ nx.active = st.active /\ nx.previous = st.previous /\ nx.made = st.made
    /\ nx.fence = st.fence /\ nx.history = st.history
    /\ \A v \in Ids :
        \/ nx.versions[v] = st.versions[v]
        \/ /\ v # st.active /\ v # st.previous /\ st.versions[v].live
           /\ nx.versions[v] = Deleted(st.versions[v].season)

LEMMA DeletedContent ==
    ASSUME NEW season
    PROVE  LET p == Deleted(season)
           IN  /\ p.season = season /\ p.cutoff = None /\ p.status = "none"
               /\ p.evidence = {} /\ ~p.activated /\ p.origin = None /\ ~p.live
  BY DEF Deleted

LEMMA PrunedVersions ==
    ASSUME NEW st, NEW nx, Pruned(st, nx), NEW v \in Ids
    PROVE  LET p == st.versions[v]
               q == nx.versions[v]
           IN  /\ q.season = p.season
               /\ q.evidence = p.evidence \/ q.evidence = {}
               /\ q.cutoff \in {p.cutoff, None} /\ q.status \in {p.status, "none"}
               /\ q.origin \in {p.origin, None}
               /\ q.live \/ v \in {st.active, st.previous} => q = p
<1>1. CASE nx.versions[v] = st.versions[v]
  BY <1>1
<1>2. CASE /\ v # st.active /\ v # st.previous
           /\ nx.versions[v] = Deleted(st.versions[v].season)
  BY <1>2, DeletedContent
<1> QED
  BY <1>1, <1>2 DEF Pruned

LEMMA PrunedSpent ==
    ASSUME NEW st, NEW nx, Pruned(st, nx), NEW rej
    PROVE  Spent(nx, rej) \subseteq Spent(st, rej)
<1>1. \A v \in Ids : nx.versions[v].origin \in {st.versions[v].origin, None}
  BY PrunedVersions
<1> QED
  BY <1>1 DEF Spent

LEMMA PrunedContent ==
    ASSUME NEW s, NEW st, NEW nx, StreamOK(st), Pruned(st, nx),
           NEW led, NEW cor, NEW rej, ContentOK(s, st, led, cor, rej)
    PROVE  ContentOK(s, nx, led, cor, rej)
<1>1. /\ nx.active = st.active /\ nx.previous = st.previous /\ nx.made = st.made
      /\ nx.fence = st.fence /\ nx.history = st.history
  BY DEF Pruned
<1>2. RowsOK(nx)
  <2>1. RowsOK(st)
    BY DEF ContentOK
  <2>2. \A h \in st.history : nx.versions[h.pub].status # "candidate"
    <3>1. ASSUME NEW h \in st.history PROVE nx.versions[h.pub].status # "candidate"
      <4>1. h.pub \in Ids /\ st.versions[h.pub].status # "candidate"
        BY <2>1, RowType DEF RowsOK
      <4> QED
        BY <4>1, PrunedVersions
    <3> QED
      BY <3>1
  <2>3. ASSUME NEW v \in Ids, v > nx.made PROVE nx.versions[v] = Deleted(None)
    <3>1. st.versions[v] = Deleted(None)
      BY <1>1, <2>1, <2>3 DEF RowsOK
    <3>2. ~st.versions[v].live
      BY <3>1, DeletedContent
    <3> QED
      BY <3>1, <3>2 DEF Pruned
  <2> QED
    BY <1>1, <2>1, <2>2, <2>3 DEF RowsOK
<1>3. EvidenceOK(nx, led)
  <2>1. EvidenceOK(st, led)
    BY DEF ContentOK
  <2> QED
    BY <2>1, PrunedVersions DEF EvidenceOK
<1>4. \A v \in Ids : CitesIn(nx, v, cor) => CitesIn(st, v, cor)
  BY PrunedVersions DEF CitesIn
<1>5. CorrectedOK(nx, led, cor)
  <2>1. CorrectedOK(st, led, cor)
    BY DEF ContentOK
  <2>2. ASSUME NEW v \in Ids, Offered(nx, v) PROVE ~CitesIn(nx, v, cor)
    <3>1. nx.versions[v] = st.versions[v]
      BY <2>2, PrunedVersions DEF Offered
    <3>2. Offered(st, v)
      BY <1>1, <2>2, <3>1 DEF Offered
    <3> QED
      BY <1>4, <2>1, <3>2 DEF CorrectedOK
  <2>3. st.previous # None => st.previous \in Ids
    BY Fields
  <2>4. nx.previous # None /\ CitesIn(nx, nx.previous, cor) => Withdrawn(nx, nx.previous)
    <3>1. Withdrawn(st, st.previous) => Withdrawn(nx, nx.previous)
      BY <1>1 DEF Withdrawn
    <3> QED
      BY <1>1, <1>4, <2>1, <2>3, <3>1 DEF CorrectedOK
  <2> QED
    BY <2>1, <2>2, <2>4 DEF CorrectedOK
<1>6. ASSUME s \notin Parity \ Family PROVE RejectedOK(nx, rej)
  <2>1. RejectedOK(st, rej)
    BY <1>6 DEF ContentOK
  <2>2. Spent(nx, rej) \subseteq Spent(st, rej)
    BY PrunedSpent
  <2>3. None \notin rej
    BY <2>1, IdsNat DEF RejectedOK
  <2>4. ASSUME NEW v \in Spent(nx, rej)
        PROVE  v <= nx.made /\ nx.versions[v].status \in {"superseded", "none"}
    <3>1. v <= st.made /\ st.versions[v].status \in {"superseded", "none"}
      BY <2>1, <2>2 DEF RejectedOK
    <3>2. v \in Ids
      <4>1. \A w \in Ids : nx.versions[w].origin \in Ids \cup {None}
        <5>1. \A w \in Ids : st.versions[w].origin \in Ids \cup {None}
          BY Fields DEF Version
        <5> QED
          BY <5>1, PrunedVersions
      <4> QED
        BY <2>1, <4>1 DEF Spent, RejectedOK
    <3> QED
      BY <1>1, <3>1, <3>2, PrunedVersions
  <2>5. \A w \in Ids : nx.versions[w].origin \notin rej
    BY <2>1, <2>3, PrunedVersions DEF RejectedOK
  <2> QED
    BY <1>1, <2>1, <2>2, <2>4, <2>5 DEF RejectedOK
<1>7. ASSUME s \in Trailing, cor = {} PROVE WaitsOK(s, nx)
  <2>1. WaitsOK(s, st)
    BY <1>7 DEF ContentOK
  <2>2. \A h \in st.history : h.pub \in Ids
    BY RowType
  <2>3. ASSUME NEW h \in st.history PROVE Ready(s, nx, h)
    <3>1. Ready(s, st, h)
      BY <2>1 DEF WaitsOK
    <3>2. \A k \in st.history : nx.versions[k.pub].season = st.versions[k.pub].season
      BY <2>2, PrunedVersions
    <3>3. nx.versions[h.pub].live => nx.versions[h.pub] = st.versions[h.pub]
      BY <2>2, PrunedVersions
    <3> QED
      BY <1>1, <3>1, <3>2, <3>3 DEF Ready
  <2> QED
    BY <1>1, <2>1, <2>3 DEF WaitsOK
<1> QED
  BY <1>2, <1>3, <1>5, <1>6, <1>7 DEF ContentOK

LEMMA PrunedRecord ==
    ASSUME NEW s, NEW st, NEW nx, StreamOK(st), Pruned(st, nx), NEW m, MoveOK(st, m),
           NEW cor, NEW rej, RecordOK(s, st, m, cor, rej)
    PROVE  RecordOK(s, nx, m, cor, rej)
<1>1. /\ nx.active = st.active /\ nx.previous = st.previous /\ nx.history = st.history
  BY DEF Pruned
<1>2. m.from \in Ids /\ (m.fromPrevious # None => m.fromPrevious \in Ids)
  <2>1. st.made \in Nat /\ st.made <= MaxVersions
    BY Fields, IdsNat
  <2> QED
    BY <2>1, IdsNat DEF MoveOK, Ids, None
<1>3. \A v \in Ids : CitesIn(nx, v, cor) => CitesIn(st, v, cor)
  BY PrunedVersions DEF CitesIn
<1>4. \A v : Withdrawn(st, v) => Withdrawn(nx, v)
  BY <1>1 DEF Withdrawn
<1>5. Spent(nx, rej) \subseteq Spent(st, rej)
  BY PrunedSpent
<1> QED
  BY <1>1, <1>2, <1>3, <1>4, <1>5 DEF RecordOK

\* Retention moves no pointer and deletes nothing that a record, a prepared
\* composition or a repair group speaks of otherwise than by what it cites.
LEMMA PruneAuthority ==
    ASSUME IInv, AInv, NEW season \in Seasons, NEW horizon \in Cutoffs, PruneHistory(season, horizon)
    PROVE  AuthorityStep
<1> DEFINE Doomed(s) == {v \in Ids \ Kept(s, horizon) : /\ stream[s].versions[v].live
                                                        /\ stream[s].versions[v].season = season}
           W(s) == [v \in Ids |-> IF v \in Doomed(s) THEN Deleted(stream[s].versions[v].season)
                                  ELSE stream[s].versions[v]]
<1>1. /\ stream' = [s \in Streams |-> [stream[s] EXCEPT !.versions = W(s)]]
      /\ UNCHANGED <<ledger, cutovers, composing, repair, corrected, rejected>>
  BY DEF PruneHistory
<1>2. ASSUME NEW s \in Streams
      PROVE  StreamOK(stream[s]) /\ Pruned(stream[s], stream'[s])
  <2>1. StreamOK(stream[s])
    BY DEF IInv
  <2>2. \A v \in Doomed(s) : /\ v # stream[s].active /\ v # stream[s].previous
                             /\ stream[s].versions[v].live
    BY DEF Kept
  <2> HIDE DEF Doomed
  <2>3. \A v \in Ids : W(s)[v] = IF v \in Doomed(s) THEN Deleted(stream[s].versions[v].season)
                                 ELSE stream[s].versions[v]
    OBVIOUS
  <2> HIDE DEF W
  <2>4. stream'[s] = [stream[s] EXCEPT !.versions = W(s)]
    BY <1>1
  <2>5. /\ stream'[s].active = stream[s].active /\ stream'[s].previous = stream[s].previous
        /\ stream'[s].made = stream[s].made /\ stream'[s].fence = stream[s].fence
        /\ stream'[s].history = stream[s].history /\ stream'[s].versions = W(s)
    BY <2>1, <2>4 DEF StreamOK, StreamState
  <2> QED
    BY <2>1, <2>2, <2>3, <2>5 DEF Pruned
<1> HIDE DEF W
<1>3. \A s \in Streams : ContentOK(s, stream'[s], ledger, corrected[s], rejected[s])
  BY <1>2, PrunedContent DEF AInv
<1>4. ASSUME NEW c \in cutovers, Reversible(c)', NEW s \in DOMAIN c.moved
      PROVE  RecordOK(s, stream'[s], c.moved[s], corrected[s], rejected[s])
  <2>1. DOMAIN c.fences \subseteq Streams
    BY DEF IInv, CutoverInv
  <2>2. \A t \in DOMAIN c.fences : stream'[t].fence = stream[t].fence
    BY <1>2, <2>1 DEF Pruned
  <2>3. Reversible(c)
    BY <1>4, <2>2 DEF Reversible
  <2>4. s \in Streams /\ MoveOK(stream[s], c.moved[s])
    BY <1>4, <2>3, MoveFacts
  <2>5. RecordOK(s, stream[s], c.moved[s], corrected[s], rejected[s])
    BY <1>4, <2>3 DEF AInv
  <2> QED
    BY <1>2, <2>4, <2>5, PrunedRecord
<1>5. ASSUME NEW w \in Workers, composing[w].phase = "prepared"
      PROVE  PreparedOK(composing[w], stream'[composing[w].stream], ledger)
  <2>1. PICK c, st, nx : c = composing[w] /\ st = stream[c.stream] /\ nx = stream'[c.stream]
    OBVIOUS
  <2>2. PreparedOK(c, st, ledger) /\ StreamOK(st) /\ Pruned(st, nx)
    BY <1>2, <1>5, <2>1 DEF AInv, IInv, PreparedInv
  <2>3. st.made \in Nat /\ st.made <= MaxVersions /\ nx.made = st.made
    BY <2>2, Fields, IdsNat DEF Pruned
  <2>4. c.active # None => c.active \in Ids
    BY <2>2, <2>3, IdsNat DEF PreparedOK, Ids, None
  <2>5. PreparedOK(c, nx, ledger)
    BY <2>2, <2>3, <2>4, PrunedVersions DEF PreparedOK
  <2> QED
    BY <2>1, <2>5
<1>6. ASSUME NEW g \in repair, NEW s \in DOMAIN g.members
      PROVE  MemberOK(g, s, stream'[s])
  <2>1. PICK st, nx : st = stream[s] /\ nx = stream'[s]
    OBVIOUS
  <2>2. MemberOK(g, s, st) /\ StreamOK(st) /\ Pruned(st, nx) /\ g.cutoff \in Cutoffs
    BY <1>2, <2>1 DEF AInv, IInv, RepairInv
  <2>3. st.made \in Nat /\ st.made <= MaxVersions /\ nx.made = st.made
    BY <2>2, Fields, IdsNat DEF Pruned
  <2>4. g.members[s].active \in Ids
    BY <2>2, <2>3, IdsNat DEF MemberOK, Ids
  <2>5. None <= g.cutoff
    BY <2>2, Bounds DEF Cutoffs, None
  <2>6. LET p == st.versions[g.members[s].active]
            q == nx.versions[g.members[s].active]
        IN  q.season = p.season /\ (q.cutoff = p.cutoff \/ q.cutoff = None)
    BY <2>2, <2>4, PrunedVersions
  <2>7. MemberOK(g, s, nx)
    BY <2>2, <2>3, <2>5, <2>6 DEF MemberOK
  <2> QED
    BY <2>1, <2>7
<1>7. AInv'
  BY <1>1, <1>3, <1>4, <1>5, <1>6 DEF AInv
<1>8. ASSUME NEW s \in Streams
      PROVE  /\ stream'[s].active = stream[s].active /\ stream'[s].made = stream[s].made
             /\ stream[s].active # None => /\ stream[s].active \in Ids
                                           /\ stream'[s].versions[stream[s].active]
                                                = stream[s].versions[stream[s].active]
             /\ ~(stream[s].active > stream[s].made)
  <2>1. stream[s].active \in Ids \cup {None} /\ stream[s].active <= stream[s].made
        /\ stream[s].made \in Nat
    BY <1>2, Fields, IdsNat DEF StreamOK
  <2>2. stream[s].active \in Nat
    BY <2>1, Bounds DEF Ids, None
  <2>3. ~(stream[s].active > stream[s].made)
    BY <2>1, <2>2
  <2> QED
    BY <1>2, <2>1, <2>3, PrunedVersions DEF Pruned
<1>9. SeasonMoves
  BY <1>8, StreamSets DEF SeasonMoves, ServedSeason
<1>10. FreshMoves
  BY <1>8 DEF FreshMoves
<1>11. CoupledMoves
  BY <1>8, StreamSets, NotCoupled
<1> QED
  BY <1>7, <1>9, <1>10, <1>11 DEF AuthorityStep

-----------------------------------------------------------------------------
(* The season cutover. *)

\* order_by(cutoff desc, version desc).first() finds a version.
LEMMA NewestExists ==
    ASSUME NEW st, StreamOK(st), NEW ids, ids \subseteq Ids, ids # {}
    PROVE  \E v \in ids : v \in Newest(st, ids)
<1>1. IsFiniteSet(ids)
  <2>1. IsFiniteSet(Ids)
    BY Bounds, FS_Interval DEF Ids
  <2> QED
    BY <2>1, FS_Subset
<1>2. \A v \in ids : v \in Int /\ st.versions[v].cutoff \in Int
  <2>1. \A v \in ids : v \in Nat
    BY IdsNat
  <2>2. \A v \in ids : st.versions[v].cutoff \in Cutoffs \cup {None}
    BY Fields DEF Version
  <2>3. Cutoffs \cup {None} \subseteq Int
    BY Bounds DEF Cutoffs, None
  <2> QED
    BY <2>1, <2>2, <2>3
<1> DEFINE cut == [v \in ids |-> st.versions[v].cutoff]
           C == {cut[v] : v \in ids}
<1>3. IsFiniteSet(C)
  <2> HIDE DEF cut
  <2> QED
    BY <1>1, FiniteImage
<1>4. C # {} /\ C \subseteq Int /\ \A v \in ids : st.versions[v].cutoff \in C
  BY <1>2
<1>a. \A c \in C : \E v \in ids : st.versions[v].cutoff = c
  OBVIOUS
<1> HIDE DEF C
<1>5. PICK c \in C : \A d \in C : d <= c
  BY <1>3, <1>4, FiniteHasMax
<1> DEFINE last == {v \in ids : st.versions[v].cutoff = c}
<1>6. last # {} /\ last \subseteq Int /\ IsFiniteSet(last)
  <2>1. last # {} /\ last \subseteq Int
    BY <1>2, <1>a
  <2> QED
    BY <1>1, <2>1, FS_Subset
<1> HIDE DEF last
<1>7. PICK v \in last : \A w \in last : w <= v
  BY <1>6, FiniteHasMax
<1>8. v \in ids /\ st.versions[v].cutoff = c
  BY <1>7 DEF last
<1>9. ASSUME NEW w \in ids
      PROVE  \/ st.versions[w].cutoff < st.versions[v].cutoff
             \/ st.versions[w].cutoff = st.versions[v].cutoff /\ w <= v
  <2>1. st.versions[w].cutoff <= c /\ st.versions[w].cutoff \in Int /\ c \in Int
    BY <1>2, <1>4, <1>5
  <2>2. CASE st.versions[w].cutoff = c
    BY <1>7, <1>8, <2>2 DEF last
  <2>3. CASE st.versions[w].cutoff # c
    BY <1>8, <2>1, <2>3
  <2> QED
    BY <2>2, <2>3
<1> QED
  BY <1>8, <1>9 DEF Newest

\* The family moves as one: an accepted window means that none was refused.
LEMMA CutoverFamily ==
    ASSUME NEW season, NEW s \in Family, NEW v, <<s, v>> \in CutoverAccepted(season),
           NEW t \in Family, NEW w, <<t, w>> \in CutoverMoves(season)
    PROVE  <<t, w>> \in CutoverAccepted(season)
  BY DEF CutoverAccepted

\* What a cutover records of a stream it moves.
LEMMA RecordMade ==
    ASSUME NEW s, NEW st, StreamOK(st), NEW led, NEW cor, NEW rej, ContentOK(s, st, led, cor, rej),
           st.active # None, NEW v \in Ids, st.versions[v].live, st.versions[v].status = "candidate"
    PROVE  RecordOK(s, MoveToCandidate(st, v),
                    [from |-> st.active, fromPrevious |-> st.previous, to |-> v], cor, rej)
<1> DEFINE m == [from |-> st.active, fromPrevious |-> st.previous, to |-> v]
<1>1. PICK nx : nx = MoveToCandidate(st, v)
  OBVIOUS
<1>2. /\ Keeps(s, st, MoveToCandidate(st, v), led, cor, cor, rej, rej)
      /\ MoveToCandidate(st, v).active = v /\ MoveToCandidate(st, v).previous = st.active
      /\ v # st.active
  BY MoveToCandidateKeeps
<1>3. /\ Keeps(s, st, nx, led, cor, cor, rej, rej)
      /\ nx.active = v /\ nx.previous = st.active
  BY <1>1, <1>2
<1>4. /\ nx.history = st.history \cup {Activation(v, st.fence + 1)}
      /\ nx.versions = Taken(Demote(st.versions, {w \in {st.active} :
                                    st.versions[w].season = st.versions[v].season}), v)
  BY <1>1 DEF MoveToCandidate, Taken, StreamOK, StreamState
<1>5. \A w \in Ids : /\ nx.versions[w].origin = st.versions[w].origin
                     /\ nx.versions[w].evidence = st.versions[w].evidence
  <2> DEFINE D == Demote(st.versions, {w \in {st.active} :
                                    st.versions[w].season = st.versions[v].season})
  <2>1. st.versions \in [Ids -> Version]
    BY Fields
  <2>2. D \in [Ids -> Version]
    BY <2>1, DemoteType
  <2>3. \A w \in Ids : Same(st.versions[w], D[w])
    BY <2>1, DemoteContent
  <2> HIDE DEF D
  <2>4. nx.versions = Taken(D, v)
    BY <1>4 DEF D
  <2>5. \A w \in Ids : Taken(D, v)[w].origin = D[w].origin /\ Taken(D, v)[w].evidence = D[w].evidence
    <3>1. \A w \in Ids : D[w] \in Version
      BY <2>2
    <3> QED
      BY <2>2, <3>1 DEF Taken, Version
  <2> QED
    BY <2>3, <2>4, <2>5 DEF Same
<1>6. /\ st.active \in Ids /\ ~CitesIn(st, st.active, cor)
      /\ st.previous # None => /\ st.previous \in Ids
                               /\ \E h \in st.history : h.pub = st.previous
  BY ServedOffered
<1>7. ~CitesIn(nx, st.active, cor)
  BY <1>5, <1>6 DEF CitesIn
<1>8. v # st.previous
  <2>1. RowsOK(st) /\ v # None
    BY IdsNat DEF ContentOK
  <2> QED
    BY <1>6, <2>1 DEF RowsOK
<1>9. st.previous # None => /\ \E h \in nx.history : h.pub = st.previous
                            /\ CitesIn(nx, st.previous, cor) => Withdrawn(nx, st.previous)
  <2>1. ASSUME st.previous # None, CitesIn(nx, st.previous, cor) PROVE Withdrawn(nx, st.previous)
    <3>1. CitesIn(st, st.previous, cor)
      BY <1>5, <1>6, <2>1 DEF CitesIn
    <3>2. CorrectedOK(st, led, cor)
      BY DEF ContentOK
    <3>3. Withdrawn(st, st.previous)
      BY <2>1, <3>1, <3>2 DEF CorrectedOK
    <3>4. Activation(v, st.fence + 1).pub # st.previous
      BY <1>8 DEF Activation
    <3> QED
      BY <1>4, <3>3, <3>4 DEF Withdrawn
  <2> QED
    BY <1>4, <1>6, <2>1
<1>10. ASSUME s \notin Parity \ Family
       PROVE  /\ {st.active, st.previous} \cap Spent(nx, rej) = {}
              /\ st.active # st.previous
  <2>1. RejectedOK(st, rej)
    BY <1>10 DEF ContentOK
  <2>2. Spent(nx, rej) = Spent(st, rej)
    BY <1>5 DEF Spent
  <2> QED
    BY <2>1, <2>2 DEF RejectedOK
<1>11. m.from = st.active /\ m.fromPrevious = st.previous /\ m.to = v
  OBVIOUS
<1> HIDE DEF m
<1>12. RecordOK(s, nx, m, cor, rej)
  BY <1>3, <1>7, <1>8, <1>9, <1>10, <1>11 DEF RecordOK
<1> QED
  BY <1>1, <1>12 DEF m

LEMMA CutoverAuthority ==
    ASSUME IInv, AInv, NEW season \in Seasons, CutoverSeason(season)
    PROVE  AuthorityStep
<1> DEFINE moves == CutoverAccepted(season)
           To(s) == CHOOSE v \in Ids : <<s, v>> \in moves
           moved == {m[1] : m \in moves}
           result == [s \in Streams |->
                        IF s \in moved THEN MoveToCandidate(stream[s], To(s)) ELSE stream[s]]
           move(s) == [from |-> stream[s].active, fromPrevious |-> stream[s].previous, to |-> To(s)]
           on == {t \in Streams : stream[t].enabled}
           record == [moved |-> [s \in moved |-> move(s)],
                      fences |-> [s \in on |-> result[s].fence]]
           nx == [s \in Streams |-> MoveToCandidate(stream[s], To(s))]
           ncor == [s \in Streams |-> corrected[s]]
           nrej == [s \in Streams |-> rejected[s]]
           pub == PublishedSeason(stream'[Leader])
<1>1. /\ stream' = [s \in Streams |-> IF s \in moved THEN nx[s] ELSE stream[s]]
      /\ corrected' = [s \in Streams |-> IF s \in moved THEN ncor[s] ELSE corrected[s]]
      /\ rejected' = [s \in Streams |-> IF s \in moved THEN nrej[s] ELSE rejected[s]]
      /\ cutovers' = cutovers \cup {record}
      /\ UNCHANGED <<ledger, composing, repair, corrected, rejected>>
  BY DEF CutoverSeason, AInv
<1>a. Leader \in moved
  BY DEF CutoverSeason
<1>2. ASSUME NEW m \in moves
      PROVE  m \in Streams \X Ids /\ m[2] \in CutoverCandidate(stream[m[1]], season)
  BY DEF CutoverAccepted, CutoverMoves
<1>b. ASSUME NEW s \in Family, NEW t \in Family, s \in moved,
             NEW w, <<t, w>> \in CutoverMoves(season)
      PROVE  t \in moved
  <2>1. PICK m \in moves : m[1] = s
    BY <1>b
  <2>2. m = <<s, m[2]>>
    BY <1>2, <2>1
  <2>3. <<s, m[2]>> \in CutoverAccepted(season)
    BY <2>1, <2>2
  <2>4. <<t, w>> \in moves
    BY <1>b, <2>3, CutoverFamily
  <2> QED
    BY <2>4
<1> HIDE DEF moves
<1>3. ASSUME NEW s \in moved
      PROVE  /\ s \in Streams /\ To(s) \in Ids /\ stream[s].enabled
             /\ stream[s].active # None
             /\ stream[s].versions[stream[s].active].season # season
             /\ stream[s].versions[To(s)].live /\ stream[s].versions[To(s)].status = "candidate"
             /\ stream[s].versions[To(s)].season = season
  <2>1. PICK m \in moves : m[1] = s
    BY <1>3
  <2>2. s \in Streams /\ m[2] \in Ids /\ <<s, m[2]>> \in moves
    BY <1>2, <2>1
  <2>3. To(s) \in Ids /\ <<s, To(s)>> \in moves
    BY <2>2
  <2> HIDE DEF To
  <2>4. To(s) \in CutoverCandidate(stream[s], season)
    BY <1>2, <2>3
  <2>5. /\ stream[s].active # None /\ stream[s].versions[stream[s].active].season # season
        /\ stream[s].enabled /\ To(s) \in Candidates(stream[s], season)
    BY <2>4 DEF CutoverCandidate, Newest
  <2> QED
    BY <2>2, <2>3, <2>5 DEF Candidates
<1> HIDE DEF To, moved
<1>4. ASSUME NEW s \in moved
      PROVE  /\ StreamOK(stream[s])
             /\ Keeps(s, stream[s], nx[s], ledger, corrected[s], ncor[s], rejected[s], nrej[s])
             /\ nx[s].active = To(s) /\ nx[s].active \in Ids /\ nx[s].active <= stream[s].made
             /\ nx[s].active # stream[s].active
             /\ nx[s].versions[nx[s].active].activated
             /\ nx[s].versions[nx[s].active].status = "active"
             /\ nx[s].versions[nx[s].active].season = season
             /\ RecordOK(s, nx[s], move(s), corrected[s], rejected[s])
  <2>1. PICK st, v : st = stream[s] /\ v = To(s)
    OBVIOUS
  <2>2. /\ s \in Streams /\ StreamOK(st) /\ ContentOK(s, st, ledger, corrected[s], rejected[s])
        /\ st.active # None /\ v \in Ids /\ st.versions[v].live
        /\ st.versions[v].status = "candidate" /\ st.versions[v].season = season
    BY <1>3, <2>1 DEF IInv, AInv
  <2>3. nx[s] = MoveToCandidate(st, v) /\ ncor[s] = corrected[s] /\ nrej[s] = rejected[s]
    BY <2>1, <2>2
  <2>4. move(s) = [from |-> st.active, fromPrevious |-> st.previous, to |-> v]
    BY <2>1
  <2> HIDE DEF nx, ncor, nrej, move
  <2>5. /\ Keeps(s, st, MoveToCandidate(st, v), ledger, corrected[s], corrected[s],
                 rejected[s], rejected[s])
        /\ MoveToCandidate(st, v).active = v /\ v # st.active
        /\ MoveToCandidate(st, v).versions[v].activated
        /\ MoveToCandidate(st, v).versions[v].status = "active"
    BY <2>2, MoveToCandidateKeeps
  <2>6. RecordOK(s, MoveToCandidate(st, v),
                 [from |-> st.active, fromPrevious |-> st.previous, to |-> v],
                 corrected[s], rejected[s])
    BY <2>2, RecordMade
  <2>7. v <= st.made
    BY <2>2 DEF StreamOK
  <2>8. MoveToCandidate(st, v).versions[v].season = season
    BY <2>2, <2>5, <2>7 DEF Keeps, Same
  <2> QED
    BY <2>1, <2>2, <2>3, <2>4, <2>5, <2>6, <2>7, <2>8
<1>5. /\ DOMAIN record.moved = moved /\ DOMAIN record.fences = on
      /\ \A s \in moved : record.moved[s] = move(s)
  OBVIOUS
<1>6. moved \subseteq on /\ moved \subseteq Streams
  BY <1>3
<1> HIDE DEF nx, ncor, nrej, record, move, on
<1>7. \A s \in Streams : s \in moved =>
            Good(s, stream[s], nx[s], ledger, corrected[s], ncor[s], rejected[s], nrej[s], pub)
  <2>1. ASSUME NEW s \in Streams, s \in moved
        PROVE  Good(s, stream[s], nx[s], ledger, corrected[s], ncor[s], rejected[s], nrej[s], pub)
    <3> HIDE DEF pub
    <3> QED
      BY <1>4, <2>1, TakenGood
  <2> QED
    BY <2>1
<1>8. stream'[Leader].active # None
  BY <1>1, <1>4, <1>6, <1>a, IdsNat
<1>9. GoodStep
  BY <1>1, <1>7, <1>8, SomeGood
<1>10. RecordNew(record, stream', corrected', rejected')
  <2>1. \A s \in moved : RecordOK(s, stream'[s], record.moved[s], corrected'[s], rejected'[s])
    BY <1>1, <1>4, <1>5, <1>6
  <2> QED
    BY <1>5, <1>6, <2>1 DEF RecordNew
<1>11. AInv'
  <2>1. \A c \in cutovers' : c \in cutovers \/ RecordNew(c, stream', corrected', rejected')
    BY <1>1, <1>10
  <2> QED
    BY <1>1, <1>9, <2>1, GoodKeeps
<1>12. CoupledMoves
  <2> SUFFICES ASSUME NEW s \in Family, NEW t \in Family,
                      stream[s].active # None, stream[t].active # None,
                      ServedSeason(s) = ServedSeason(t),
                      stream'[s].active # stream[s].active
               PROVE  \/ stream'[t].active # stream[t].active
                      \/ /\ stream'[s].versions[stream'[s].active].status # "rollback"
                         /\ Candidates(stream[t],
                                       stream'[s].versions[stream'[s].active].season) = {}
    BY DEF CoupledMoves
  <2>1. s \in Streams /\ t \in Streams
    BY StreamSets
  <2>2. s \in moved /\ stream'[s] = nx[s]
    BY <1>1, <2>1
  <2>3. /\ stream'[s].versions[stream'[s].active].status # "rollback"
        /\ stream'[s].versions[stream'[s].active].season = season
        /\ ServedSeason(s) # season
    BY <1>3, <1>4, <2>2 DEF ServedSeason
  <2>4. ASSUME Candidates(stream[t], season) # {} PROVE stream'[t].active # stream[t].active
    <3>1. StreamOK(stream[t]) /\ stream[t].enabled
      BY <2>1 DEF IInv, StreamOK
    <3>2. Candidates(stream[t], season) \subseteq Ids
      BY DEF Candidates
    <3>3. PICK w \in Ids : w \in Newest(stream[t], Candidates(stream[t], season))
      BY <2>4, <3>1, <3>2, NewestExists
    <3>4. w \in CutoverCandidate(stream[t], season)
      BY <2>3, <3>1, <3>3 DEF CutoverCandidate, ServedSeason
    <3>5. <<t, w>> \in CutoverMoves(season)
      BY <2>1, <3>4 DEF CutoverMoves
    <3>6. t \in moved
      BY <1>b, <2>2, <3>5
    <3> QED
      BY <1>1, <1>4, <2>1, <3>6
  <2> QED
    BY <2>3, <2>4
<1> QED
  BY <1>9, <1>11, <1>12, GoodAll DEF AuthorityStep

-----------------------------------------------------------------------------
(* The theorems. *)

LEMMA InitialContent ==
    ASSUME NEW s, NEW led, \A i \in Items : led[i] = 1
    PROVE  ContentOK(s, InitStream(s), led, {}, {})
<1> DEFINE st == InitStream(s)
           ev == {<<i, 1>> : i \in Governed(s, 1, 1)}
<1>0. None \notin Ids /\ 1 \in Ids /\ \A v \in Ids : v \in Nat /\ (v > 0) /\ (v # 1 => v > 1)
  BY Bounds DEF Ids, None
<1>1. \A e \in ev : e[1][1] = 1 /\ e[2] <= led[e[1]]
  <2>1. \A i \in Governed(s, 1, 1) : i \in Items /\ i[1] = 1
    BY DEF Governed
  <2> QED
    BY <2>1
<1>2. /\ FirstVersion(s).season = 1 /\ FirstVersion(s).evidence = ev
      /\ FirstVersion(s).status = "active" /\ FirstVersion(s).origin = None
  BY DEF FirstVersion, NewVersion
<1>3. LET p == Deleted(None)
      IN  p.evidence = {} /\ p.origin = None /\ p.status = "none"
  BY DeletedContent
<1>4. \/ /\ st.active = 1 /\ st.previous = None /\ st.made = 1
         /\ st.history = {Activation(1, 1)}
         /\ \A v \in Ids : st.versions[v] = IF v = 1 THEN FirstVersion(s) ELSE Deleted(None)
      \/ /\ st.active = None /\ st.previous = None /\ st.made = 0 /\ st.history = {}
         /\ \A v \in Ids : st.versions[v] = Deleted(None)
  BY DEF InitStream
<1> HIDE DEF st, ev
<1>5. Activation(1, 1).pub = 1 /\ Activation(1, 1).fence = 1 /\ ~Activation(1, 1).revoked
  BY DEF Activation
<1>6. RowsOK(st)
  <2>1. CASE st.history = {}
    BY <1>0, <1>4, <2>1 DEF RowsOK, None
  <2>2. CASE st.history # {}
    <3>1. /\ st.active = 1 /\ st.previous = None /\ st.made = 1
          /\ st.history = {Activation(1, 1)}
          /\ \A v \in Ids : st.versions[v] = IF v = 1 THEN FirstVersion(s) ELSE Deleted(None)
      BY <1>4, <2>2
    <3>2. \A v \in Ids : v > st.made => v # 1
      BY <3>1
    <3> QED
      BY <1>0, <1>2, <1>5, <3>1, <3>2 DEF RowsOK
  <2> QED
    BY <2>1, <2>2
<1>7. \A v \in Ids : /\ st.versions[v].origin = None
                     /\ \A e \in st.versions[v].evidence :
                            e[1][1] = st.versions[v].season /\ e[2] <= led[e[1]]
  BY <1>1, <1>2, <1>3, <1>4
<1>8. EvidenceOK(st, led)
  BY <1>7 DEF EvidenceOK
<1>9. CorrectedOK(st, led, {})
  BY DEF CorrectedOK, CitesIn
<1>10. RejectedOK(st, {})
  <2>1. Spent(st, {}) = {}
    BY <1>7 DEF Spent
  <2>2. st.previous = None
    BY <1>4
  <2> QED
    BY <2>1, <2>2 DEF RejectedOK
<1>11. WaitsOK(s, st)
  <2>1. \A h, k \in st.history : ~(k.fence < h.fence)
    BY <1>4, <1>5
  <2>2. st.active = None => st.history = {}
    BY <1>4 DEF None
  <2> QED
    BY <2>1, <2>2 DEF WaitsOK, Ready
<1>12. ContentOK(s, st, led, {}, {})
  BY <1>6, <1>8, <1>9, <1>10, <1>11 DEF ContentOK
<1> QED
  BY <1>12 DEF st

LEMMA InitialAuthority ==
    ASSUME Init
    PROVE  AInv
<1>1. \A i \in Items : ledger[i] = 1
  BY DEF Init
<1>2. \A s \in Streams : ContentOK(s, InitStream(s), ledger, {}, {})
  BY <1>1, InitialContent
<1>3. \A s \in Streams : /\ stream[s] = InitStream(s)
                         /\ corrected[s] = {} /\ rejected[s] = {}
  BY DEF Init
<1>4. /\ corrected = [s \in Streams |-> corrected[s]]
      /\ rejected = [s \in Streams |-> rejected[s]]
  BY DEF Init
<1>5. cutovers = {} /\ repair = {} /\ \A w \in Workers : composing[w].phase # "prepared"
  BY DEF Init, Idle
<1> QED
  BY <1>2, <1>3, <1>4, <1>5 DEF AInv

\* Every step keeps the invariant and moves authority only as it may.
LEMMA AuthorityNext ==
    ASSUME IInv, AInv, [Next]_vars
    PROVE  AuthorityStep
<1>1. CASE Compose
  <2>1. ASSUME NEW batch \in SUBSET Ledger, NEW m \in Manifests, NEW fixed \in Fixes(m[1]),
               RecomposeLedgerBatch(batch, m[1], m[2], fixed)
        PROVE  AuthorityStep
    BY <2>1, ManifestType, RecomposeAuthority
  <2>2. ASSUME NEW s \in Ledger, NEW m \in Manifests, RehearseLedger(s, m[1], m[2])
        PROVE  AuthorityStep
    BY <2>2, ManifestType, RehearseAuthority
  <2>3. ASSUME NEW w \in Workers, NEW s \in Streams \ Ledger, NEW m \in Manifests,
               Prepare(w, s, m[1], m[2])
        PROVE  AuthorityStep
    BY <2>3, ManifestType, PrepareAuthority
  <2>4. ASSUME NEW w \in Workers, ComposePrepared(w) \/ AbandonPrepared(w)
        PROVE  AuthorityStep
    BY <2>4, ComposePreparedAuthority, AbandonAuthority
  <2> QED
    BY <1>1, <2>1, <2>2, <2>3, <2>4 DEF Compose
<1>2. CASE Operate
  <2>1. ASSUME NEW s \in Streams, NEW v \in Ids, ActivateStream(s, v) PROVE AuthorityStep
    BY <2>1, ActivateAuthority
  <2>2. ASSUME NEW s \in Streams, EnableStream(s) \/ RollbackStream(s) PROVE AuthorityStep
    BY <2>2, EnableAuthority, RollbackAuthority
  <2>3. ASSUME NEW season \in Seasons, CutoverSeason(season) PROVE AuthorityStep
    BY <2>3, CutoverAuthority
  <2>4. ASSUME NEW c \in cutovers, RevertCutover(c) PROVE AuthorityStep
    BY <2>4, RevertAuthority
  <2>5. ASSUME RollbackFamily PROVE AuthorityStep
    BY <2>5, RollbackFamilyAuthority
  <2>6. ASSUME NEW to \in [Family -> Ids], PromoteFamily(to) PROVE AuthorityStep
    BY <2>6, PromoteFamilyAuthority
  <2>7. ASSUME NEW members \in SUBSET (Streams \ Ledger), NEW m \in Manifests,
               DeclareRepair(members, m[1], m[2])
        PROVE  AuthorityStep
    BY <2>7, ManifestType, DeclareAuthority
  <2>8. ASSUME NEW g \in repair, PromoteRepair(g) PROVE AuthorityStep
    BY <2>8, PromoteRepairAuthority
  <2> QED
    BY <1>2, <2>1, <2>2, <2>3, <2>4, <2>5, <2>6, <2>7, <2>8 DEF Operate
<1>3. ASSUME NEW i \in Revised, ReplaceSource(i) PROVE AuthorityStep
  BY <1>3, ReplaceSourceAuthority
<1>4. ASSUME NEW season \in Seasons, NEW horizon \in Cutoffs, PruneHistory(season, horizon)
      PROVE  AuthorityStep
  BY <1>4, PruneAuthority
<1>5. CASE UNCHANGED vars
  <2>1. GoodStep /\ CoupledMoves
    BY <1>5, StillGood DEF vars
  <2>2. UNCHANGED <<ledger, cutovers, composing, repair>>
    BY <1>5 DEF vars
  <2> QED
    BY <2>1, <2>2, GoodOnly
<1> QED
  BY <1>1, <1>2, <1>3, <1>4, <1>5 DEF Next

\* The content of the streams is followed in every reachable state: what the
\* versions cite, which of them are spent, and what records, prepared
\* compositions and repair groups may rely on.
THEOREM AuthorityHolds == Spec => []AInv
<1>1. Init => AInv
  BY InitialAuthority
<1>2. IInv /\ AInv /\ [Next]_vars => AInv'
  BY AuthorityNext DEF AuthorityStep
<1> QED
  BY <1>1, <1>2, InvHolds, PTL DEF Spec

\* _invalidate_corrected_ledger_versions reaches every version that a reader, a
\* later rollback, cutover or revert could serve: none of them ever cites a
\* source that a correction of the stream withdrew.
THEOREM CorrectionsStay == Spec => []CorrectionsHold
<1>1. AInv => CorrectionsHold
  <2> SUFFICES ASSUME AInv, NEW s \in Streams
               PROVE  /\ \A v \in Ids : Offered(stream[s], v) => ~CitesIn(stream[s], v, corrected[s])
                      /\ stream[s].previous # None
                            /\ CitesIn(stream[s], stream[s].previous, corrected[s])
                         => Withdrawn(stream[s], stream[s].previous)
    BY DEF CorrectionsHold, Offered, CitesIn, Cites
  <2>1. CorrectedOK(stream[s], ledger, corrected[s])
    BY DEF AInv, ContentOK
  <2> QED
    BY <2>1 DEF CorrectedOK
<1> QED
  BY <1>1, AuthorityHolds, PTL

\* docs/ARCHITECTURE.md: "a second rollback cannot clone rejected content back
\* into fresh authority", whatever is composed, cut over, repaired or reverted
\* in between, for every stream but those whose activation takes a version that
\* already is active (the run of ParityRejectedContentStaysGone refutes those).
THEOREM RejectedNeverServed == Spec => []RejectedContentStaysGone
<1>1. IInv /\ AInv => RejectedContentStaysGone
  <2> SUFFICES ASSUME IInv, AInv, NEW s \in Streams \ (Parity \ Family)
               PROVE  LET st == stream[s]
                      IN  /\ {st.active, st.previous} \cap rejected[s] = {}
                          /\ st.active # None => /\ ~Withdrawn(st, st.active)
                                                 /\ st.versions[st.active].origin \notin rejected[s]
    BY DEF RejectedContentStaysGone, RejectedContentGone
  <2>1. RejectedOK(stream[s], rejected[s]) /\ RowsOK(stream[s]) /\ StreamOK(stream[s])
    BY DEF IInv, AInv, ContentOK
  <2>2. {stream[s].active, stream[s].previous} \cap rejected[s] = {}
    BY <2>1 DEF RejectedOK, Spent
  <2>3. stream[s].active # None => ~Withdrawn(stream[s], stream[s].active)
    BY <2>1 DEF RowsOK, Withdrawn
  <2>4. stream[s].active # None => stream[s].active \in Ids
    BY <2>1, Fields
  <2> QED
    BY <2>1, <2>2, <2>3, <2>4 DEF RejectedOK
<1> QED
  BY <1>1, InvHolds, AuthorityHolds, PTL

\* The comment of _compose_active_in_session: a trailing stream "takes the
\* Published Season only once its Readiness Rule holds", through every order of
\* cutovers, reverts, rollbacks and promotions, until a correction clears it.
THEOREM TrailingStreamsWait == Spec => []UncorrectedTrailingWaits
<1>1. AInv => UncorrectedTrailingWaits
  <2> SUFFICES ASSUME AInv, NEW s \in Trailing, corrected[s] = {} PROVE WaitsForReadiness(s)
    BY DEF UncorrectedTrailingWaits
  <2>1. WaitsOK(s, stream[s])
    BY StreamSets DEF AInv, ContentOK
  <2> QED
    BY <2>1 DEF WaitsOK, Ready, WaitsForReadiness
<1> QED
  BY <1>1, AuthorityHolds, PTL

\* docs/ARCHITECTURE.md: "composition alone never moves a bound stream off the
\* published season": every step that changes the served season goes to the
\* rollback target's season, to an operator's choice or to the leader's season.
THEOREM SeasonsMoveTogether == Spec => SeasonMovesTogether
<1>1. IInv /\ AInv /\ [Next]_vars => SeasonMoves
  BY AuthorityNext DEF AuthorityStep
<1> QED
  BY <1>1, InvHolds, AuthorityHolds, PTL DEF Spec, SeasonMovesTogether

\* _read_pointer_expectation and the repair guards: no newly composed version
\* takes the pointer from one of its season that cites newer sources, however
\* long its worker waited between the two transactions.
THEOREM ComposedFresh == Spec => CompositionsFresh
<1>1. IInv /\ AInv /\ [Next]_vars => FreshMoves
  BY AuthorityNext DEF AuthorityStep
<1> QED
  BY <1>1, InvHolds, AuthorityHolds, PTL DEF Spec, CompositionsFresh

\* COUPLED_PUBLICATION_STREAM_FAMILIES: no rollback, cutover, activation or
\* promotion takes one window of the family and leaves another behind that
\* served the same season and could have moved.
THEOREM FamilyCoupled == Spec => FamilyMovesTogether
<1>1. IInv /\ AInv /\ [Next]_vars => CoupledMoves
  BY AuthorityNext DEF AuthorityStep
<1> QED
  BY <1>1, InvHolds, AuthorityHolds, PTL DEF Spec, FamilyMovesTogether

=============================================================================
