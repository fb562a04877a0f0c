---------------------- MODULE PublicationPointersProofs ----------------------
(***************************************************************************)
(* Proofs about PublicationPointers, for any sets of streams, seasons,     *)
(* cutoffs, manifests and workers and any bounds.                          *)
(*                                                                         *)
(* The argument is per stream: every writer is an operator from stream     *)
(* states to stream states, so one lemma per operator shows that it keeps  *)
(* the stream consistent (StreamOK) and steps legally (StreamStep).  The   *)
(* actions then only have to supply the operators' preconditions, some of  *)
(* which come from what cutover records and prepared compositions retain.  *)
(***************************************************************************)
EXTENDS PublicationPointers, TLAPS

(***************************************************************************)
(* The inductive invariant.                                                *)
(***************************************************************************)

HistoryOK(history, fence) ==
    /\ history \in SUBSET HistoryRow
    /\ \A h \in history : h.fence <= fence
    /\ \A h, k \in history : h.fence = k.fence => h = k

\* The pointer names created versions, its target is servable, and so is a
\* stream that serves enabled; the rollback target has not been deleted.
StreamOK(st) ==
    /\ st \in StreamState
    /\ st.active <= st.made
    /\ st.previous <= st.made
    /\ HistoryOK(st.history, st.fence)
    /\ st.active # None => /\ st.enabled
                           /\ st.versions[st.active].live
                           /\ st.versions[st.active].status \in {"active", "rollback"}
    /\ st.previous # None => st.versions[st.previous].live
    /\ \A v \in Ids : st.versions[v].live => v <= st.made

\* Marks on history rows are only added.
HistoryGrows(old, new) ==
    \A h \in old : \E k \in new :
        /\ k.fence = h.fence /\ k.pub = h.pub
        /\ (h.revoked => k.revoked) /\ (h.retired => k.retired)

\* What every writer but retention does to a stream.
StreamStep(st, nx) ==
    /\ StreamOK(nx)
    /\ nx.fence >= st.fence
    /\ nx.active # st.active => nx.fence > st.fence
    /\ HistoryGrows(st.history, nx.history)
    /\ nx.made >= st.made
    /\ st.enabled => nx.enabled
    /\ \A v \in Ids : st.versions[v].live => nx.versions[v].live

\* A composition between its two transactions; its stream stays enabled.
PreparedInv ==
    \A w \in Workers : composing[w].phase = "prepared" =>
        /\ composing[w].stream \in Streams
        /\ stream[composing[w].stream].enabled
        /\ composing[w].season \in Seasons
        /\ composing[w].cutoff \in Cutoffs
        /\ composing[w].evidence \in SUBSET Source

\* A cutover record names distinct existing versions and past fences, and
\* while it is reversible its restore targets have not been deleted.
CutoverInv ==
    \A c \in cutovers :
        /\ DOMAIN c.moved \subseteq Streams
        /\ DOMAIN c.fences \subseteq Streams
        /\ \A s \in DOMAIN c.fences : /\ c.fences[s] \in Nat
                                      /\ c.fences[s] <= stream[s].fence
        /\ \A s \in DOMAIN c.moved :
            LET m == c.moved[s]
            IN  /\ m.from \in 1..stream[s].made
                /\ m.fromPrevious \in 0..stream[s].made
                /\ m.to \in 1..stream[s].made
                /\ m.from # m.to
                /\ Reversible(c) =>
                    /\ stream[s].versions[m.from].live
                    /\ m.fromPrevious # None => stream[s].versions[m.fromPrevious].live

RepairInv ==
    \A g \in repair :
        /\ g.season \in Seasons
        /\ g.cutoff \in Cutoffs
        /\ DOMAIN g.members \subseteq Streams

IInv ==
    /\ ledger \in [Items -> 1..(MaxSources + 1)]
    /\ stream = [s \in Streams |-> stream[s]]
    /\ \A s \in Streams : StreamOK(stream[s])
    /\ composing = [w \in Workers |-> composing[w]]
    /\ PreparedInv
    /\ CutoverInv
    /\ RepairInv

-----------------------------------------------------------------------------
(* Helpers on versions and histories. *)

LEMMA DemoteType ==
    ASSUME NEW versions \in [Ids -> Version], NEW ids
    PROVE  /\ Demote(versions, ids) \in [Ids -> Version]
           /\ \A v \in Ids : Demote(versions, ids)[v].live = versions[v].live
           /\ \A v \in Ids \ ids : Demote(versions, ids)[v] = versions[v]
  BY DEF Demote, Version, Status

LEMMA NewVersionType ==
    ASSUME NEW season \in Seasons \cup {None}, NEW cutoff \in Cutoffs \cup {None},
           NEW status \in Status, NEW evidence \in SUBSET Source
    PROVE  /\ NewVersion(season, cutoff, status, evidence) \in Version
           /\ NewVersion(season, cutoff, status, evidence).live
           /\ NewVersion(season, cutoff, status, evidence).status = status
  BY DEF NewVersion, Version

LEMMA RevokeOK ==
    ASSUME NEW fence \in Nat, NEW history, HistoryOK(history, fence), NEW ids
    PROVE  HistoryOK(Revoke(history, ids), fence) /\ HistoryGrows(history, Revoke(history, ids))
<1> DEFINE R(h) == [h EXCEPT !.revoked = h.revoked \/ h.pub \in ids]
<1>1. ASSUME NEW h \in history
      PROVE  /\ R(h) \in HistoryRow /\ R(h).fence = h.fence /\ R(h).pub = h.pub
             /\ (h.revoked => R(h).revoked) /\ R(h).retired = h.retired
  BY DEF HistoryOK, HistoryRow
<1>2. Revoke(history, ids) = {R(h) : h \in history}
  BY DEF Revoke
<1> HIDE DEF R
<1>3. HistoryOK(Revoke(history, ids), fence)
  BY <1>1, <1>2 DEF HistoryOK
<1>4. HistoryGrows(history, Revoke(history, ids))
  BY <1>1, <1>2 DEF HistoryGrows
<1> QED
  BY <1>3, <1>4

LEMMA RetireOK ==
    ASSUME NEW fence \in Nat, NEW history, HistoryOK(history, fence), NEW v
    PROVE  HistoryOK(Retire(history, v), fence) /\ HistoryGrows(history, Retire(history, v))
<1> DEFINE R(h) == [h EXCEPT !.retired = h.retired \/ h.pub = v]
<1>1. ASSUME NEW h \in history
      PROVE  /\ R(h) \in HistoryRow /\ R(h).fence = h.fence /\ R(h).pub = h.pub
             /\ R(h).revoked = h.revoked /\ (h.retired => R(h).retired)
  BY DEF HistoryOK, HistoryRow
<1>2. Retire(history, v) = {R(h) : h \in history}
  BY DEF Retire
<1> HIDE DEF R
<1>3. HistoryOK(Retire(history, v), fence)
  BY <1>1, <1>2 DEF HistoryOK
<1>4. HistoryGrows(history, Retire(history, v))
  BY <1>1, <1>2 DEF HistoryGrows
<1> QED
  BY <1>3, <1>4

LEMMA ActivationOK ==
    ASSUME NEW fence \in Nat, NEW history, HistoryOK(history, fence), NEW v \in Ids,
           NEW next, next = fence + 1
    PROVE  /\ HistoryOK(history \cup {Activation(v, next)}, next)
           /\ HistoryGrows(history, history \cup {Activation(v, next)})
<1> DEFINE a == Activation(v, next)
<1>1. a \in HistoryRow /\ a.fence = next
  BY DEF Activation, HistoryRow
<1>2. \A h \in history : h \in HistoryRow /\ h.fence \in Nat /\ h.fence <= fence
  BY DEF HistoryOK, HistoryRow
<1> HIDE DEF a
<1>3. HistoryOK(history \cup {a}, next)
  BY <1>1, <1>2 DEF HistoryOK
<1>4. HistoryGrows(history, history \cup {a})
  BY DEF HistoryGrows
<1> QED
  BY <1>3, <1>4 DEF a

LEMMA GrowsTransitive ==
    ASSUME NEW H1, NEW H2, NEW H3, HistoryGrows(H1, H2), HistoryGrows(H2, H3)
    PROVE  HistoryGrows(H1, H3)
<1> SUFFICES ASSUME NEW h \in H1
             PROVE  \E k \in H3 : /\ k.fence = h.fence /\ k.pub = h.pub
                                  /\ (h.revoked => k.revoked) /\ (h.retired => k.retired)
  BY DEF HistoryGrows
<1>1. PICK i \in H2 : /\ i.fence = h.fence /\ i.pub = h.pub
                      /\ (h.revoked => i.revoked) /\ (h.retired => i.retired)
  BY DEF HistoryGrows
<1>2. PICK k \in H3 : /\ k.fence = i.fence /\ k.pub = i.pub
                      /\ (i.revoked => k.revoked) /\ (i.retired => k.retired)
  BY DEF HistoryGrows
<1> QED
  BY <1>1, <1>2

LEMMA GrowsReflexive ==
    ASSUME NEW H
    PROVE  HistoryGrows(H, H)
  BY DEF HistoryGrows

LEMMA StepTransitive ==
    ASSUME NEW st, NEW md, NEW nx, StreamOK(st), StreamStep(st, md), StreamStep(md, nx)
    PROVE  StreamStep(st, nx)
<1>1. /\ st.fence \in Nat /\ md.fence \in Nat /\ nx.fence \in Nat
      /\ st.made \in Nat /\ md.made \in Nat /\ nx.made \in Nat
  BY Bounds DEF StreamStep, StreamOK, StreamState
<1>2. HistoryGrows(st.history, nx.history)
  BY GrowsTransitive DEF StreamStep
<1>3. nx.fence >= st.fence /\ nx.made >= st.made /\ (nx.active # st.active => nx.fence > st.fence)
  BY <1>1 DEF StreamStep
<1> QED
  BY <1>2, <1>3 DEF StreamStep

LEMMA StepReflexive ==
    ASSUME NEW st, StreamOK(st)
    PROVE  StreamStep(st, st)
<1>1. st.fence \in Nat /\ st.made \in Nat
  BY Bounds DEF StreamOK, StreamState
<1> QED
  BY <1>1, GrowsReflexive DEF StreamStep

-----------------------------------------------------------------------------
(* The writers, on one stream. *)

\* What the fields of a consistent stream are.
LEMMA Fields ==
    ASSUME NEW st, StreamOK(st)
    PROVE  /\ st.enabled \in BOOLEAN
           /\ st.fence \in Nat
           /\ st.active \in Ids \cup {None}
           /\ st.previous \in Ids \cup {None}
           /\ st.made \in 0..MaxVersions
           /\ st.versions \in [Ids -> Version]
           /\ st.history \in SUBSET HistoryRow
  BY DEF StreamOK, StreamState

\* A change of the versions alone that deletes nothing and spares the target
\* of the pointer.
LEMMA VersionsStep ==
    ASSUME NEW st, StreamOK(st), NEW versions \in [Ids -> Version],
           NEW made \in 0..MaxVersions, made >= st.made,
           \A v \in Ids : st.versions[v].live => versions[v].live,
           \A v \in Ids : versions[v].live => v <= made,
           st.active # None => versions[st.active] = st.versions[st.active]
    PROVE  StreamStep(st, [st EXCEPT !.made = made, !.versions = versions])
<1> DEFINE nx == [st EXCEPT !.made = made, !.versions = versions]
<1>1. /\ nx \in StreamState /\ nx.enabled = st.enabled /\ nx.fence = st.fence
      /\ nx.active = st.active /\ nx.previous = st.previous /\ nx.made = made
      /\ nx.versions = versions /\ nx.history = st.history
  BY DEF StreamOK, StreamState
<1> HIDE DEF nx
<1>2. st.active \in Nat /\ st.previous \in Nat /\ st.made \in Nat /\ made \in Nat /\ st.fence \in Nat
  BY Fields, Bounds DEF Ids, None
<1>3. st.previous # None => st.previous \in Ids
  BY Fields DEF StreamOK
<1>4. StreamOK(nx)
  BY <1>1, <1>2, <1>3, Fields DEF StreamOK
<1> QED
  BY <1>1, <1>2, <1>4, GrowsReflexive DEF StreamStep, nx

\* A move of the pointer to a live, servable version under the next fence.
LEMMA PointerStep ==
    ASSUME NEW st, StreamOK(st), NEW nx \in StreamState,
           nx.enabled, nx.fence = st.fence + 1,
           nx.active \in Ids, nx.active <= nx.made,
           nx.previous <= nx.made, nx.made >= st.made,
           HistoryOK(nx.history, nx.fence), HistoryGrows(st.history, nx.history),
           nx.versions[nx.active].live,
           nx.versions[nx.active].status \in {"active", "rollback"},
           nx.previous # None => nx.versions[nx.previous].live,
           \A v \in Ids : st.versions[v].live => nx.versions[v].live,
           \A v \in Ids : nx.versions[v].live => v <= nx.made
    PROVE  StreamStep(st, nx)
<1>1. st.fence \in Nat /\ nx.fence > st.fence /\ nx.fence >= st.fence
  BY Fields
<1>2. StreamOK(nx)
  BY DEF StreamOK
<1> QED
  BY <1>1, <1>2 DEF StreamStep

LEMMA StoreStep ==
    ASSUME NEW st, StreamOK(st), NEW season \in Seasons, NEW cutoff \in Cutoffs,
           NEW evidence \in SUBSET Source, NEW statuses \in SUBSET Status,
           st.made < MaxVersions,
           "active" \in statuses => st.active = None,
           "rollback" \notin statuses
    PROVE  /\ StreamStep(st, StoreCandidate(st, season, cutoff, evidence, statuses))
           /\ StoreCandidate(st, season, cutoff, evidence, statuses).active = st.active
           /\ StoreCandidate(st, season, cutoff, evidence, statuses).enabled = st.enabled
<1> DEFINE D == Demote(st.versions, At(st, season, cutoff, statuses))
           V == [D EXCEPT ![st.made + 1] = NewVersion(season, cutoff, "candidate", evidence)]
<1>1. CASE Existing(st, season, cutoff, evidence, statuses) # {}
  BY <1>1, StepReflexive DEF StoreCandidate
<1>2. CASE ~(Existing(st, season, cutoff, evidence, statuses) # {})
  <2>1. StoreCandidate(st, season, cutoff, evidence, statuses)
            = [st EXCEPT !.made = st.made + 1, !.versions = V]
    BY <1>2 DEF StoreCandidate
  <2>2. st.made \in Nat /\ st.made + 1 \in Ids /\ st.made + 1 \in 0..MaxVersions /\ st.made + 1 >= st.made
    BY Fields, Bounds DEF Ids
  <2>3. D \in [Ids -> Version] /\ \A v \in Ids : D[v].live = st.versions[v].live
    BY Fields, DemoteType
  <2>4. NewVersion(season, cutoff, "candidate", evidence) \in Version
        /\ NewVersion(season, cutoff, "candidate", evidence).live
    BY NewVersionType DEF Status
  <2>5. V \in [Ids -> Version] /\ \A v \in Ids : st.versions[v].live => V[v].live
    BY <2>2, <2>3, <2>4
  <2>a. ASSUME NEW v \in Ids, V[v].live PROVE v <= st.made + 1
    <3>1. v \in Nat
      BY Bounds DEF Ids
    <3>2. v = st.made + 1 \/ st.versions[v].live
      BY <2>2, <2>3, <2>a
    <3> QED
      BY <2>2, <3>1, <3>2 DEF StreamOK
  <2>6. ASSUME st.active # None PROVE V[st.active] = st.versions[st.active]
    <3>1. st.active \in Ids /\ st.active # st.made + 1
      BY <2>2, <2>6, Fields, Bounds DEF StreamOK, Ids
    <3>2. st.active \notin At(st, season, cutoff, statuses)
      BY <2>6, <3>1 DEF At, StreamOK
    <3>3. D[st.active] = st.versions[st.active]
      BY <3>1, <3>2, Fields, DemoteType
    <3> QED
      BY <2>2, <2>3, <3>1, <3>3
  <2> HIDE DEF V, D
  <2>7. StreamStep(st, [st EXCEPT !.made = st.made + 1, !.versions = V])
    BY <2>2, <2>5, <2>6, <2>a, VersionsStep
  <2>8. /\ [st EXCEPT !.made = st.made + 1, !.versions = V].active = st.active
        /\ [st EXCEPT !.made = st.made + 1, !.versions = V].enabled = st.enabled
    BY DEF StreamOK, StreamState
  <2> QED
    BY <2>1, <2>7, <2>8
<1> QED
  BY <1>1, <1>2

LEMMA InvalidateStep ==
    ASSUME NEW st, StreamOK(st), NEW season, NEW fixed, NEW keep
    PROVE  StreamStep(st, Invalidate(st, season, fixed, keep))
<1> DEFINE stale == StaleVersions(st, season, fixed, keep)
           gone == {v \in stale : st.versions[v].status \in {"active", "candidate"}}
           nx == [st EXCEPT
                !.fence = IF st.active \in stale THEN st.fence + 1 ELSE st.fence,
                !.active = IF st.active \in stale THEN None ELSE st.active,
                !.previous = IF st.previous \in stale \/ st.active \in stale \/ st.active = None
                             THEN None ELSE st.previous,
                !.versions = Demote(st.versions, gone),
                !.history = Revoke(st.history, stale)]
<1>1. CASE stale = {}
  BY <1>1, StepReflexive DEF Invalidate
<1>2. CASE stale # {}
  <2>1. Invalidate(st, season, fixed, keep) = nx
    BY <1>2 DEF Invalidate
  <2> HIDE DEF stale
  <2>2. /\ Demote(st.versions, gone) \in [Ids -> Version]
        /\ \A v \in Ids : Demote(st.versions, gone)[v].live = st.versions[v].live
        /\ \A v \in Ids \ gone : Demote(st.versions, gone)[v] = st.versions[v]
    BY Fields, DemoteType
  <2>3. /\ HistoryOK(Revoke(st.history, stale), st.fence)
        /\ HistoryGrows(st.history, Revoke(st.history, stale))
    BY Fields, RevokeOK DEF StreamOK
  <2>4. HistoryOK(Revoke(st.history, stale), st.fence + 1)
    BY <2>3, Fields DEF HistoryOK, HistoryRow
  <2>5. nx \in StreamState
    <3> DEFINE f == IF st.active \in stale THEN st.fence + 1 ELSE st.fence
               a == IF st.active \in stale THEN None ELSE st.active
               p == IF st.previous \in stale \/ st.active \in stale \/ st.active = None
                    THEN None ELSE st.previous
               V == Demote(st.versions, gone)
               H == Revoke(st.history, stale)
    <3>1. f \in Nat /\ a \in Ids \cup {None} /\ p \in Ids \cup {None}
      BY Fields
    <3>2. V \in [Ids -> Version] /\ H \in SUBSET HistoryRow
      BY <2>2, <2>3 DEF HistoryOK
    <3> HIDE DEF f, a, p, V, H
    <3>3. [st EXCEPT !.fence = f, !.active = a, !.previous = p, !.versions = V, !.history = H]
            \in StreamState
      BY <3>1, <3>2 DEF StreamOK, StreamState
    <3> QED
      BY <3>3 DEF f, a, p, V, H
  <2>6. /\ nx.fence = (IF st.active \in stale THEN st.fence + 1 ELSE st.fence)
        /\ nx.active = (IF st.active \in stale THEN None ELSE st.active)
        /\ nx.previous = (IF st.previous \in stale \/ st.active \in stale \/ st.active = None
                          THEN None ELSE st.previous)
        /\ nx.versions = Demote(st.versions, gone)
        /\ nx.history = Revoke(st.history, stale)
        /\ nx.made = st.made /\ nx.enabled = st.enabled
    BY DEF StreamOK, StreamState
  <2>7. nx.active # None => st.active \in Ids \ gone /\ nx.active = st.active
    BY <2>6, Fields
  <2> HIDE DEF nx, gone
  <2>8. StreamOK(nx)
    <3>1. nx.active <= nx.made /\ nx.previous <= nx.made /\ nx.made \in Nat
      BY <2>6, Fields, Bounds DEF StreamOK, None
    <3>2. HistoryOK(nx.history, nx.fence)
      BY <2>3, <2>4, <2>6
    <3>3. nx.previous # None => nx.versions[nx.previous].live
      BY <2>2, <2>6, Fields DEF StreamOK
    <3>4. nx.active # None => /\ nx.enabled
                              /\ nx.versions[nx.active].live
                              /\ nx.versions[nx.active].status \in {"active", "rollback"}
      BY <2>2, <2>6, <2>7 DEF StreamOK
    <3>5. \A v \in Ids : nx.versions[v].live => v <= nx.made
      BY <2>2, <2>6 DEF StreamOK
    <3> QED
      BY <2>5, <3>1, <3>2, <3>3, <3>4, <3>5 DEF StreamOK
  <2>9. /\ nx.fence >= st.fence /\ (nx.active # st.active => nx.fence > st.fence)
        /\ nx.made >= st.made
    BY <2>6, Fields, Bounds
  <2> QED
    BY <2>1, <2>2, <2>3, <2>6, <2>8, <2>9 DEF StreamStep
<1> QED
  BY <1>1, <1>2

LEMMA ComposeInactiveStep ==
    ASSUME NEW st, StreamOK(st), NEW season \in Seasons, NEW cutoff \in Cutoffs,
           NEW evidence \in SUBSET Source, NEW fixed, st.made < MaxVersions
    PROVE  StreamStep(st, ComposeInactive(st, season, cutoff, evidence, fixed))
<1> DEFINE statuses == IF st.enabled THEN {"candidate"} ELSE {"candidate", "active"}
           md == StoreCandidate(st, season, cutoff, evidence, statuses)
           id == StoredId(st, season, cutoff, evidence, statuses)
<1>1. /\ statuses \in SUBSET Status /\ "rollback" \notin statuses
      /\ "active" \in statuses => st.active = None
  BY DEF Status, StreamOK
<1> HIDE DEF statuses
<1>2. StreamStep(st, md)
  BY <1>1, StoreStep
<1>3. StreamStep(md, Invalidate(md, season, fixed, id))
  <2> HIDE DEF md, id
  <2> QED BY <1>2, InvalidateStep DEF StreamStep
<1>4. ComposeInactive(st, season, cutoff, evidence, fixed) = Invalidate(md, season, fixed, id)
  BY DEF ComposeInactive, statuses
<1> HIDE DEF md, id
<1> QED
  BY <1>2, <1>3, <1>4, StepTransitive

\* A demotion that spares the target of the pointer.
LEMMA DemoteStep ==
    ASSUME NEW st, StreamOK(st), NEW ids, st.active \notin ids
    PROVE  StreamStep(st, [st EXCEPT !.versions = Demote(st.versions, ids)])
<1> DEFINE V == Demote(st.versions, ids)
<1>1. /\ V \in [Ids -> Version]
      /\ \A v \in Ids : V[v].live = st.versions[v].live
      /\ \A v \in Ids \ ids : V[v] = st.versions[v]
  BY Fields, DemoteType
<1>2. st.active # None => V[st.active] = st.versions[st.active]
  BY <1>1, Fields
<1>3. st.made \in 0..MaxVersions /\ st.made >= st.made
  BY Fields, Bounds
<1> HIDE DEF V
<1>4. StreamStep(st, [st EXCEPT !.made = st.made, !.versions = V])
  <2>1. \A v \in Ids : V[v].live => v <= st.made
    BY <1>1 DEF StreamOK
  <2> QED
    BY <1>1, <1>2, <1>3, <2>1, VersionsStep
<1>5. [st EXCEPT !.made = st.made, !.versions = V] = [st EXCEPT !.versions = V]
  BY DEF StreamOK, StreamState
<1> QED
  BY <1>4, <1>5 DEF V

LEMMA HoldStep ==
    ASSUME NEW s \in Streams, NEW st, StreamOK(st), NEW published,
           NEW season \in Seasons, NEW cutoff \in Cutoffs,
           NEW evidence \in SUBSET Source, NEW fixed, st.made < MaxVersions
    PROVE  StreamStep(st, Hold(s, st, published, season, cutoff, evidence, fixed))
<1> DEFINE stored == IF s \in Ledger THEN ComposeInactive(st, season, cutoff, evidence, fixed)
                     ELSE StoreCandidate(st, season, cutoff, evidence, {"candidate"})
           held == Candidates(stored, season)
           late == IF EarlierCutoff(s, st, published, season, cutoff)
                   THEN {StoredId(st, season, cutoff, evidence, {"candidate"})} ELSE {}
           ids == (held \ Newest(stored, held)) \cup late
<1>1. StreamStep(st, stored)
  BY ComposeInactiveStep, StoreStep DEF Status
<1>2. StreamOK(stored)
  <2> HIDE DEF stored
  <2> QED BY <1>1 DEF StreamStep
<1>3. stored.active \notin late
  <2> SUFFICES ASSUME EarlierCutoff(s, st, published, season, cutoff),
                      stored.active = StoredId(st, season, cutoff, evidence, {"candidate"})
               PROVE  FALSE
    OBVIOUS
  <2>1. s \notin Ledger
    BY DEF EarlierCutoff
  <2>2. stored.active = st.active
    BY <2>1, StoreStep DEF Status
  <2> HIDE DEF stored
  <2> DEFINE old == Existing(st, season, cutoff, evidence, {"candidate"})
  <2>3. CASE old # {}
    <3>1. st.active \in old
      BY <2>2, <2>3 DEF StoredId
    <3>2. st.active \in Ids /\ st.versions[st.active].status = "candidate"
      BY <3>1 DEF Existing, Newest, At
    <3>3. st.active # None
      BY <3>2, Bounds DEF Ids, None
    <3> QED
      BY <3>2, <3>3 DEF StreamOK
  <2>4. CASE ~(old # {})
    <3>1. st.active = st.made + 1
      BY <2>2, <2>4 DEF StoredId
    <3>2. st.made \in Nat /\ st.active <= st.made
      BY Fields, Bounds DEF StreamOK
    <3> QED
      BY <3>1, <3>2
  <2> QED
    BY <2>3, <2>4
<1>4. stored.active \notin held
  <2> HIDE DEF stored
  <2>1. ASSUME stored.active \in held PROVE FALSE
    <3>1. stored.active \in Ids /\ stored.versions[stored.active].status = "candidate"
      BY <2>1 DEF Candidates
    <3>2. stored.active # None
      BY <3>1, Bounds DEF Ids, None
    <3> QED
      BY <1>2, <3>1, <3>2 DEF StreamOK
  <2> QED
    BY <2>1
<1>5. Hold(s, st, published, season, cutoff, evidence, fixed)
        = [stored EXCEPT !.versions = Demote(stored.versions, ids)]
  BY DEF Hold
<1> HIDE DEF stored, held, late
<1>6. StreamStep(stored, [stored EXCEPT !.versions = Demote(stored.versions, ids)])
  BY <1>2, <1>3, <1>4, DemoteStep
<1> HIDE DEF ids
<1> QED
  BY <1>1, <1>5, <1>6, StepTransitive

\* A stream whose pointer moved, and a version that became active.
Moved(st, f, a, p, n, V, H) ==
    [st EXCEPT !.fence = f, !.active = a, !.previous = p, !.made = n, !.versions = V, !.history = H]

Taken(versions, v) == [versions EXCEPT ![v].status = "active", ![v].activated = TRUE]

\* The pointer of an enabled stream moves to a version under the next fence.
LEMMA MovedStep ==
    ASSUME NEW st, StreamOK(st), st.enabled,
           NEW f, f = st.fence + 1,
           NEW a \in Ids, NEW p \in Ids \cup {None}, NEW n \in 0..MaxVersions,
           n >= st.made, a <= n, p <= n,
           NEW V \in [Ids -> Version],
           \A v \in Ids : st.versions[v].live => V[v].live,
           V[a].live, V[a].status \in {"active", "rollback"},
           p # None => V[p].live,
           \A v \in Ids : V[v].live => v <= n,
           NEW history, HistoryOK(history, st.fence), HistoryGrows(st.history, history)
    PROVE  StreamStep(st, Moved(st, f, a, p, n, V, history \cup {Activation(a, f)}))
<1> DEFINE H == history \cup {Activation(a, f)}
           nx == Moved(st, f, a, p, n, V, H)
<1>1. st.fence \in Nat /\ f \in Nat /\ st \in StreamState
  BY Fields DEF StreamOK
<1>2. HistoryOK(H, f) /\ HistoryGrows(history, H)
  BY <1>1, ActivationOK
<1>3. H \in SUBSET HistoryRow
  BY <1>2 DEF HistoryOK
<1> HIDE DEF H
<1>4. /\ nx \in StreamState /\ nx.enabled = st.enabled /\ nx.fence = f /\ nx.active = a
      /\ nx.previous = p /\ nx.made = n /\ nx.versions = V /\ nx.history = H
  <2>1. nx \in StreamState
    BY <1>1, <1>3 DEF StreamState, Moved
  <2>2. nx.enabled = st.enabled /\ nx.fence = f /\ nx.active = a /\ nx.previous = p
    BY <1>1 DEF StreamState, Moved
  <2>3. nx.made = n /\ nx.versions = V /\ nx.history = H
    BY <1>1 DEF StreamState, Moved
  <2> QED
    BY <2>1, <2>2, <2>3
<1> HIDE DEF nx
<1>5. HistoryGrows(st.history, H)
  BY <1>2, GrowsTransitive
<1>6. StreamStep(st, nx)
  BY <1>2, <1>4, <1>5, PointerStep
<1> QED
  BY <1>6 DEF nx, H

\* A new version takes the pointer; the others keep their liveness.
LEMMA NewVersionStep ==
    ASSUME NEW st, StreamOK(st), st.enabled, st.made < MaxVersions,
           NEW D \in [Ids -> Version], \A v \in Ids : D[v].live = st.versions[v].live,
           NEW new \in Version, new.live, new.status \in {"active", "rollback"},
           NEW previous \in {None, st.active},
           NEW history, HistoryOK(history, st.fence), HistoryGrows(st.history, history),
           NEW n, n = st.made + 1, NEW f, f = st.fence + 1
    PROVE  StreamStep(st, Moved(st, f, n, previous, n, [D EXCEPT ![n] = new],
                                history \cup {Activation(n, f)}))
<1> DEFINE V == [D EXCEPT ![n] = new]
<1>1. st.made \in Nat /\ n \in Ids /\ n \in 0..MaxVersions /\ n >= st.made /\ n <= n
  BY Fields, Bounds DEF Ids
<1>2. /\ V \in [Ids -> Version]
      /\ \A v \in Ids : st.versions[v].live => V[v].live
      /\ V[n] = new
  BY <1>1
<1>3. previous \in Ids \cup {None} /\ (previous # None => V[previous].live)
  BY <1>2, Fields DEF StreamOK
<1>4. previous <= n
  BY <1>1, Fields, Bounds DEF StreamOK, None, Ids
<1>a. ASSUME NEW v \in Ids, V[v].live PROVE v <= n
  <2>1. v \in Nat
    BY Bounds DEF Ids
  <2>2. v = n \/ st.versions[v].live
    BY <1>1, <1>a
  <2> QED
    BY <1>1, <2>1, <2>2 DEF StreamOK
<1> HIDE DEF V
<1>5. StreamStep(st, Moved(st, f, n, previous, n, V, history \cup {Activation(n, f)}))
  BY <1>1, <1>2, <1>3, <1>4, <1>a, MovedStep
<1> QED
  BY <1>5 DEF V

LEMMA AdvanceStep ==
    ASSUME NEW st, StreamOK(st), st.enabled, st.made < MaxVersions,
           NEW season \in Seasons, NEW cutoff \in Cutoffs,
           NEW evidence \in SUBSET Source, NEW discard \in BOOLEAN
    PROVE  /\ StreamStep(st, Advance(st, season, cutoff, evidence, discard))
           /\ Advance(st, season, cutoff, evidence, discard).active = st.made + 1
<1> DEFINE D == Demote(st.versions, At(st, season, cutoff, {"active", "candidate"}))
           new == NewVersion(season, cutoff, "active", evidence)
           prev == IF discard THEN None ELSE st.active
           n == st.made + 1
           f == st.fence + 1
           nx == Moved(st, f, n, prev, n, [D EXCEPT ![n] = new], st.history \cup {Activation(n, f)})
<1>1. D \in [Ids -> Version] /\ \A v \in Ids : D[v].live = st.versions[v].live
  BY Fields, DemoteType
<1>2. new \in Version /\ new.live /\ new.status \in {"active", "rollback"}
  BY NewVersionType DEF Status
<1>3. prev \in {None, st.active}
  OBVIOUS
<1>4. HistoryOK(st.history, st.fence) /\ HistoryGrows(st.history, st.history)
  BY GrowsReflexive DEF StreamOK
<1>5. Advance(st, season, cutoff, evidence, discard) = nx
  BY DEF Advance, Moved
<1>6. nx.active = st.made + 1
  BY DEF StreamOK, StreamState, Moved
<1>7. StreamStep(st, nx)
  <2>1. n = st.made + 1 /\ f = st.fence + 1
    OBVIOUS
  <2> HIDE DEF D, new, prev, n, f
  <2> QED
    BY <1>1, <1>2, <1>3, <1>4, <2>1, NewVersionStep, ZenonT(60)
<1> QED
  BY <1>5, <1>6, <1>7

LEMMA ComposeActiveStep ==
    ASSUME NEW s \in Streams, NEW st, StreamOK(st), st.enabled, st.made < MaxVersions,
           NEW published, NEW season \in Seasons, NEW cutoff \in Cutoffs,
           NEW evidence \in SUBSET Source, NEW fixed
    PROVE  StreamStep(st, ComposeActive(s, st, published, season, cutoff, evidence, fixed))
<1>1. CASE Composed(st, season, cutoff, evidence)
  BY <1>1, InvalidateStep DEF ComposeActive
<1>2. CASE ~Composed(st, season, cutoff, evidence)
           /\ (st.active # None /\ Held(s, st, published, season, cutoff))
  BY <1>2, HoldStep DEF ComposeActive
<1>3. CASE ~Composed(st, season, cutoff, evidence)
           /\ ~(st.active # None /\ Held(s, st, published, season, cutoff))
  <2> DEFINE md == Advance(st, season, cutoff, evidence, FALSE)
  <2>1. StreamStep(st, md)
    BY AdvanceStep
  <2>2. ComposeActive(s, st, published, season, cutoff, evidence, fixed)
            = Invalidate(md, season, fixed, st.made + 1)
    BY <1>3 DEF ComposeActive
  <2> HIDE DEF md
  <2>3. StreamStep(md, Invalidate(md, season, fixed, st.made + 1))
    BY <2>1, InvalidateStep DEF StreamStep
  <2> QED
    BY <2>1, <2>2, <2>3, StepTransitive
<1> QED
  BY <1>1, <1>2, <1>3

\* The pointer takes an existing version, which becomes active.
LEMMA TakeStep ==
    ASSUME NEW st, StreamOK(st), st.enabled, NEW f, f = st.fence + 1,
           NEW v \in Ids, v <= st.made, st.versions[v].live,
           NEW V \in [Ids -> Version],
           \A w \in Ids : V[w].live = st.versions[w].live,
           V[v].status = "active",
           NEW p \in Ids \cup {None}, p <= st.made, p # None => st.versions[p].live,
           NEW history, HistoryOK(history, st.fence), HistoryGrows(st.history, history)
    PROVE  StreamStep(st, Moved(st, f, v, p, st.made, V, history \cup {Activation(v, f)}))
<1>1. st.made \in 0..MaxVersions /\ st.made >= st.made
  BY Fields, Bounds
<1>2. V[v].live /\ V[v].status \in {"active", "rollback"} /\ (p # None => V[p].live)
  OBVIOUS
<1>3. \A w \in Ids : (st.versions[w].live => V[w].live) /\ (V[w].live => w <= st.made)
  BY DEF StreamOK
<1> QED
  BY <1>1, <1>2, <1>3, MovedStep

LEMMA TakenVersions ==
    ASSUME NEW D \in [Ids -> Version], NEW v \in Ids
    PROVE  /\ Taken(D, v) \in [Ids -> Version]
           /\ \A w \in Ids : Taken(D, v)[w].live = D[w].live
           /\ Taken(D, v)[v].status = "active"
<1> DEFINE X == [D[v] EXCEPT !.status = "active", !.activated = TRUE]
<1>1. X \in Version /\ X.status = "active" /\ X.live = D[v].live
  BY DEF Version, Status
<1>2. Taken(D, v) = [D EXCEPT ![v] = X]
  BY DEF Taken
<1> HIDE DEF X
<1> QED
  BY <1>1, <1>2

LEMMA MoveToCandidateStep ==
    ASSUME NEW st, StreamOK(st), st.active # None, NEW v \in Ids, v <= st.made, st.versions[v].live
    PROVE  StreamStep(st, MoveToCandidate(st, v))
<1> DEFINE same == {w \in {st.active} : st.versions[w].season = st.versions[v].season}
           D == Demote(st.versions, same)
           V == Taken(D, v)
           f == st.fence + 1
           nx == Moved(st, f, v, st.active, st.made, V, st.history \cup {Activation(v, f)})
<1>1. D \in [Ids -> Version] /\ \A w \in Ids : D[w].live = st.versions[w].live
  BY Fields, DemoteType
<1>2. MoveToCandidate(st, v) = nx
  BY DEF MoveToCandidate, Moved, Taken, StreamOK, StreamState
<1>3. f = st.fence + 1
  OBVIOUS
<1> HIDE DEF D, f
<1>4. /\ V \in [Ids -> Version] /\ V[v].status = "active"
      /\ \A w \in Ids : V[w].live = st.versions[w].live
  BY <1>1, TakenVersions
<1> HIDE DEF V
<1>5. /\ HistoryOK(st.history, st.fence) /\ HistoryGrows(st.history, st.history)
      /\ st.enabled /\ st.active \in Ids \cup {None} /\ st.active <= st.made
      /\ st.versions[st.active].live
  BY Fields, GrowsReflexive DEF StreamOK
<1>6. StreamStep(st, nx)
  BY <1>3, <1>4, <1>5, TakeStep
<1> QED
  BY <1>2, <1>6

\* activate_stream switches the stream on and moves its pointer.
LEMMA ActivateCandidateStep ==
    ASSUME NEW st, StreamOK(st), NEW v \in Ids, v <= st.made, st.versions[v].live
    PROVE  StreamStep(st, ActivateCandidate(st, v))
<1> DEFINE on == [st EXCEPT !.enabled = TRUE]
           D == Demote(on.versions, {on.active})
           V == Taken(D, v)
           f == on.fence + 1
           nx == Moved(on, f, v, on.active, on.made, V, on.history \cup {Activation(v, f)})
<1>1. /\ on \in StreamState /\ on.enabled /\ on.fence = st.fence /\ on.active = st.active
      /\ on.previous = st.previous /\ on.made = st.made /\ on.versions = st.versions
      /\ on.history = st.history
  BY DEF StreamOK, StreamState
<1>2. StreamOK(on)
  <2> HIDE DEF on
  <2> QED BY <1>1 DEF StreamOK
<1>3. ActivateCandidate(st, v) = nx
  <2>1. on.fence = st.fence /\ on.active = st.active /\ on.made = st.made
        /\ on.versions = st.versions /\ on.history = st.history
    BY <1>1
  <2> QED
    BY <2>1 DEF ActivateCandidate, Moved, Taken, StreamOK, StreamState
<1>4. StreamStep(st, on)
  <2>1. st.fence \in Nat /\ st.made \in Nat
    BY Fields, Bounds
  <2> HIDE DEF on
  <2> QED
    BY <1>1, <1>2, <2>1, GrowsReflexive DEF StreamStep
<1>5. f = on.fence + 1
  OBVIOUS
<1> HIDE DEF on, f
<1>6. D \in [Ids -> Version] /\ \A w \in Ids : D[w].live = on.versions[w].live
  BY <1>2, Fields, DemoteType
<1> HIDE DEF D
<1>7. /\ V \in [Ids -> Version] /\ V[v].status = "active"
      /\ \A w \in Ids : V[w].live = on.versions[w].live
  BY <1>6, TakenVersions
<1> HIDE DEF V
<1>8. /\ HistoryOK(on.history, on.fence) /\ HistoryGrows(on.history, on.history)
      /\ on.enabled /\ on.active \in Ids \cup {None} /\ on.active <= on.made
      /\ (on.active # None => on.versions[on.active].live)
      /\ v <= on.made /\ on.versions[v].live
  BY <1>1, <1>2, Fields, GrowsReflexive DEF StreamOK
<1>9. StreamStep(on, nx)
  BY <1>2, <1>5, <1>7, <1>8, TakeStep
<1> QED
  BY <1>3, <1>4, <1>9, StepTransitive

LEMMA RollBackStep ==
    ASSUME NEW st, StreamOK(st), CanRollBack(st), st.made < MaxVersions
    PROVE  StreamStep(st, RollBack(st))
<1> DEFINE prior == st.versions[st.previous]
           gone == WithdrawnByRollback(st)
           D == Demote(st.versions, {st.active, st.previous})
           new == [NewVersion(prior.season, prior.cutoff, "rollback", prior.evidence)
                        EXCEPT !.origin = st.previous]
           prev == IF gone # {} THEN None ELSE st.active
           H == Retire(Revoke(st.history, gone), st.previous)
           n == st.made + 1
           f == st.fence + 1
           nx == Moved(st, f, n, prev, n, [D EXCEPT ![n] = new], H \cup {Activation(n, f)})
<1>1. D \in [Ids -> Version] /\ \A v \in Ids : D[v].live = st.versions[v].live
  BY Fields, DemoteType
<1>2. new \in Version /\ new.live /\ new.status \in {"active", "rollback"}
  <2>1. st.previous \in Ids /\ prior \in Version
    BY Fields DEF CanRollBack
  <2>2. /\ prior.season \in Seasons \cup {None} /\ prior.cutoff \in Cutoffs \cup {None}
        /\ prior.evidence \in SUBSET Source
    BY <2>1 DEF Version
  <2> HIDE DEF prior
  <2>3. /\ NewVersion(prior.season, prior.cutoff, "rollback", prior.evidence) \in Version
        /\ NewVersion(prior.season, prior.cutoff, "rollback", prior.evidence).live
        /\ NewVersion(prior.season, prior.cutoff, "rollback", prior.evidence).status = "rollback"
    BY <2>2, NewVersionType DEF Status
  <2> QED
    BY <2>1, <2>3 DEF Version
<1>3. prev \in {None, st.active}
  OBVIOUS
<1>4. HistoryOK(H, st.fence) /\ HistoryGrows(st.history, H)
  BY Fields, RevokeOK, RetireOK, GrowsTransitive DEF StreamOK
<1>5. RollBack(st) = nx
  BY DEF RollBack, Moved
<1>6. st.enabled
  BY DEF CanRollBack, StreamOK
<1>7. StreamStep(st, nx)
  <2>1. n = st.made + 1 /\ f = st.fence + 1
    OBVIOUS
  <2> HIDE DEF D, new, prev, H, n, f
  <2> QED
    BY <1>1, <1>2, <1>3, <1>4, <1>6, <2>1, NewVersionStep, ZenonT(60)
<1> QED
  BY <1>5, <1>7

LEMMA RestoreStep ==
    ASSUME NEW st, StreamOK(st), st.active # None, NEW move,
           move.from \in 1..st.made, move.fromPrevious \in 0..st.made, move.to \in 1..st.made,
           move.from # move.to, st.versions[move.from].live,
           move.fromPrevious # None => st.versions[move.fromPrevious].live
    PROVE  StreamStep(st, Restore(st, move))
<1> DEFINE V == [st.versions EXCEPT ![move.from].status = "active", ![move.to].status = "superseded"]
           H == Revoke(st.history, {move.to})
           f == st.fence + 1
           nx == Moved(st, f, move.from, move.fromPrevious, st.made, V,
                       H \cup {Activation(move.from, f)})
<1>1. st.made \in Nat /\ st.made <= MaxVersions
  BY Fields, Bounds
<1>2. /\ move.from \in Ids /\ move.to \in Ids /\ move.fromPrevious \in Ids \cup {None}
      /\ move.from <= st.made /\ move.fromPrevious <= st.made
  BY <1>1, Bounds DEF Ids, None
<1>3. V \in [Ids -> Version] /\ V[move.from].status = "active"
  <2>1. st.versions \in [Ids -> Version] /\ {"active", "superseded"} \subseteq Status
    BY Fields DEF Status
  <2>2. \A v \in Ids, s \in Status : [st.versions[v] EXCEPT !.status = s] \in Version
    BY <2>1 DEF Version
  <2>3. /\ V = [w \in Ids |->
                 IF w = move.to THEN [st.versions[w] EXCEPT !.status = "superseded"]
                 ELSE IF w = move.from THEN [st.versions[w] EXCEPT !.status = "active"]
                 ELSE st.versions[w]]
    BY <1>2, <2>1
  <2>4. V \in [Ids -> Version]
    BY <2>1, <2>2, <2>3
  <2>5. st.versions[move.from] \in Version
    BY <1>2, <2>1
  <2>6. V[move.from].status = "active"
    BY <1>2, <2>3, <2>5 DEF Version
  <2> QED
    BY <2>4, <2>6
<1>4. \A w \in Ids : V[w].live = st.versions[w].live
  BY <1>2, Fields DEF Version
<1>5. HistoryOK(H, st.fence) /\ HistoryGrows(st.history, H)
  BY Fields, RevokeOK DEF StreamOK
<1>6. Restore(st, move) = nx
  BY DEF Restore, Moved, StreamOK, StreamState
<1>7. st.enabled /\ f = st.fence + 1
  BY DEF StreamOK
<1>8. StreamStep(st, nx)
  <2> HIDE DEF V, H, f
  <2> QED BY <1>2, <1>3, <1>4, <1>5, <1>7, TakeStep
<1> QED
  BY <1>6, <1>8

\* One stream of promote_repair_group.
Displace(st, v) == [st EXCEPT !.versions = Demote(@, {v})]

LEMMA ReplaceStep ==
    ASSUME NEW st, StreamOK(st), st.enabled, st.made < MaxVersions,
           NEW season \in Seasons, NEW cutoff \in Cutoffs, NEW evidence \in SUBSET Source
    PROVE  StreamStep(st, Displace(Advance(st, season, cutoff, evidence, TRUE), st.active))
<1> DEFINE md == Advance(st, season, cutoff, evidence, TRUE)
<1>1. StreamStep(st, md) /\ md.active = st.made + 1
  BY AdvanceStep
<1> HIDE DEF md
<1>2. md.active \notin {st.active}
  BY <1>1, Fields, Bounds DEF StreamOK
<1>3. StreamStep(md, Displace(md, st.active))
  BY <1>1, <1>2, DemoteStep DEF StreamStep, Displace
<1>4. StreamStep(st, Displace(md, st.active))
  BY <1>1, <1>3, StepTransitive
<1> QED
  BY <1>4 DEF md

-----------------------------------------------------------------------------
(* The actions. *)

\* Every stream steps legally.
AllStep ==
    /\ stream' = [s \in Streams |-> stream'[s]]
    /\ \A s \in Streams : StreamStep(stream[s], stream'[s])

LEMMA EvidenceType ==
    ASSUME ledger \in [Items -> 1..(MaxSources + 1)], NEW s, NEW season, NEW cutoff
    PROVE  CurrentEvidence(s, season, cutoff) \in SUBSET Source
<1>1. Governed(s, season, cutoff) \subseteq Items
  BY DEF Governed
<1> QED
  BY <1>1 DEF CurrentEvidence, Source

LEMMA Room ==
    ASSUME NEW s \in Streams, StreamOK(stream[s]), HasRoom(s)
    PROVE  stream[s].made < MaxVersions
<1>1. Quota[s] \in 0..MaxVersions /\ stream[s].made \in Nat /\ MaxVersions \in Nat
  BY Bounds, Fields
<1> QED
  BY <1>1 DEF HasRoom

LEMMA ManifestType ==
    ASSUME NEW m \in Manifests
    PROVE  m[1] \in Seasons /\ m[2] \in Cutoffs
  BY Bounds

\* A reversible record was reversible before: fences only grow.
LEMMA ReversibleBack ==
    ASSUME IInv, NEW c \in cutovers, NEW nx,
           \A s \in Streams : nx[s].fence \in Nat /\ nx[s].fence >= stream[s].fence,
           \A s \in DOMAIN c.fences : nx[s].fence = c.fences[s]
    PROVE  Reversible(c)
<1> SUFFICES ASSUME NEW s \in DOMAIN c.fences PROVE stream[s].fence = c.fences[s]
  BY DEF Reversible
<1>1. s \in Streams /\ c.fences[s] \in Nat /\ c.fences[s] <= stream[s].fence
  BY DEF IInv, CutoverInv
<1>2. StreamOK(stream[s])
  BY <1>1 DEF IInv
<1>3. stream[s].fence \in Nat
  BY <1>2, Fields
<1> QED
  BY <1>1, <1>3

\* What cutover records retain survives every legal step.
LEMMA RecordKept ==
    ASSUME IInv, AllStep, NEW c \in cutovers
    PROVE  /\ DOMAIN c.moved \subseteq Streams
           /\ DOMAIN c.fences \subseteq Streams
           /\ \A s \in DOMAIN c.fences : c.fences[s] \in Nat /\ c.fences[s] <= stream'[s].fence
           /\ \A s \in DOMAIN c.moved :
                /\ c.moved[s].from \in 1..stream'[s].made
                /\ c.moved[s].fromPrevious \in 0..stream'[s].made
                /\ c.moved[s].to \in 1..stream'[s].made
                /\ c.moved[s].from # c.moved[s].to
                /\ Reversible(c)' =>
                    /\ stream'[s].versions[c.moved[s].from].live
                    /\ c.moved[s].fromPrevious # None =>
                            stream'[s].versions[c.moved[s].fromPrevious].live
<1>1. DOMAIN c.moved \subseteq Streams /\ DOMAIN c.fences \subseteq Streams
  BY DEF IInv, CutoverInv
<1>2. \A s \in Streams : /\ stream[s].fence \in Nat /\ stream'[s].fence \in Nat
                         /\ stream'[s].fence >= stream[s].fence
                         /\ stream[s].made \in 0..MaxVersions /\ stream'[s].made \in 0..MaxVersions
                         /\ stream'[s].made >= stream[s].made
                         /\ \A v \in Ids : stream[s].versions[v].live => stream'[s].versions[v].live
  BY Fields DEF IInv, AllStep, StreamStep
<1>3. ASSUME NEW s \in DOMAIN c.fences
      PROVE  c.fences[s] \in Nat /\ c.fences[s] <= stream'[s].fence
  <2>1. c.fences[s] \in Nat /\ c.fences[s] <= stream[s].fence
    BY DEF IInv, CutoverInv
  <2> QED
    BY <1>1, <1>2, <2>1
<1>4. ASSUME Reversible(c)' PROVE Reversible(c)
  BY <1>2, <1>4, ReversibleBack DEF Reversible
<1>5. ASSUME NEW s \in DOMAIN c.moved
      PROVE  /\ c.moved[s].from \in 1..stream'[s].made
             /\ c.moved[s].fromPrevious \in 0..stream'[s].made
             /\ c.moved[s].to \in 1..stream'[s].made
             /\ c.moved[s].from # c.moved[s].to
             /\ Reversible(c)' =>
                    /\ stream'[s].versions[c.moved[s].from].live
                    /\ c.moved[s].fromPrevious # None =>
                            stream'[s].versions[c.moved[s].fromPrevious].live
  <2>1. /\ c.moved[s].from \in 1..stream[s].made
        /\ c.moved[s].fromPrevious \in 0..stream[s].made
        /\ c.moved[s].to \in 1..stream[s].made
        /\ c.moved[s].from # c.moved[s].to
        /\ Reversible(c) =>
                    /\ stream[s].versions[c.moved[s].from].live
                    /\ c.moved[s].fromPrevious # None =>
                            stream[s].versions[c.moved[s].fromPrevious].live
    BY DEF IInv, CutoverInv
  <2>2. /\ stream[s].made \in Nat /\ stream'[s].made \in Nat
        /\ stream[s].made <= MaxVersions /\ stream'[s].made >= stream[s].made
        /\ \A v \in Ids : stream[s].versions[v].live => stream'[s].versions[v].live
    BY <1>1, <1>2, Bounds
  <2>3. /\ c.moved[s].from \in 1..stream'[s].made
        /\ c.moved[s].fromPrevious \in 0..stream'[s].made
        /\ c.moved[s].to \in 1..stream'[s].made
    BY <2>1, <2>2
  <2>4. /\ c.moved[s].from \in Ids
        /\ c.moved[s].fromPrevious # None => c.moved[s].fromPrevious \in Ids
    BY <2>1, <2>2, Bounds DEF Ids, None
  <2> QED
    BY <1>4, <2>1, <2>2, <2>3, <2>4
<1> QED
  BY <1>1, <1>3, <1>5

LEMMA CutoverKept ==
    ASSUME IInv, AllStep, cutovers' = cutovers
    PROVE  CutoverInv'
  BY RecordKept DEF CutoverInv

LEMMA PreparedKept ==
    ASSUME IInv, AllStep, composing' = composing
    PROVE  PreparedInv'
  BY DEF IInv, PreparedInv, AllStep, StreamStep

\* An action that only moves streams, or stutters on them, keeps IInv.
LEMMA StepKeeps ==
    ASSUME IInv, AllStep, UNCHANGED <<ledger, cutovers, composing, repair>>
    PROVE  IInv'
<1>1. \A s \in Streams : StreamOK(stream'[s])
  BY DEF AllStep, StreamStep
<1>2. RepairInv'
  BY DEF IInv, RepairInv
<1>3. /\ ledger' \in [Items -> 1..(MaxSources + 1)]
      /\ composing' = [w \in Workers |-> composing'[w]]
      /\ stream' = [s \in Streams |-> stream'[s]]
  BY DEF IInv, AllStep
<1> QED
  BY <1>1, <1>2, <1>3, CutoverKept, PreparedKept DEF IInv

LEMMA StutterStep ==
    ASSUME IInv, stream' = stream
    PROVE  AllStep
  BY StepReflexive DEF IInv, AllStep

LEMMA OneStep ==
    ASSUME IInv, NEW s \in Streams, NEW nx, StreamStep(stream[s], nx),
           stream' = [stream EXCEPT ![s] = nx]
    PROVE  AllStep
<1>1. stream' = [t \in Streams |-> IF t = s THEN nx ELSE stream[t]]
  BY DEF IInv
<1>2. \A t \in Streams : StreamStep(stream[t], stream'[t])
  BY <1>1, StepReflexive DEF IInv
<1> QED
  BY <1>1, <1>2 DEF AllStep

\* Streams outside the set keep their state.
LEMMA SomeStep ==
    ASSUME IInv, NEW set, NEW nx, \A s \in Streams : s \in set => StreamStep(stream[s], nx[s]),
           stream' = [s \in Streams |-> IF s \in set THEN nx[s] ELSE stream[s]]
    PROVE  AllStep
<1>1. \A t \in Streams : StreamStep(stream[t], stream'[t])
  BY StepReflexive DEF IInv
<1> QED
  BY <1>1 DEF AllStep

LEMMA RecomposeKeeps ==
    ASSUME IInv, NEW batch \in SUBSET Ledger, NEW season \in Seasons, NEW cutoff \in Cutoffs,
           NEW fixed, RecomposeLedgerBatch(batch, season, cutoff, fixed)
    PROVE  AllStep /\ IInv'
<1> DEFINE published == PublishedSeason(stream[Leader])
           Step(s) == IF stream[s].enabled
                      THEN ComposeActive(s, stream[s], published, season, cutoff,
                                         CurrentEvidence(s, season, cutoff), fixed)
                      ELSE ComposeInactive(stream[s], season, cutoff,
                                           CurrentEvidence(s, season, cutoff), fixed)
           nx == [s \in Streams |-> Step(s)]
<1>1. ASSUME NEW s \in Streams, s \in batch
      PROVE  StreamStep(stream[s], nx[s])
  <2>1. StreamOK(stream[s]) /\ HasRoom(s)
    BY <1>1 DEF IInv, RecomposeLedgerBatch
  <2>2. stream[s].made < MaxVersions
    BY <2>1, Room
  <2>3. CurrentEvidence(s, season, cutoff) \in SUBSET Source
    BY EvidenceType DEF IInv
  <2>4. nx[s] = Step(s)
    OBVIOUS
  <2> HIDE DEF nx
  <2> QED
    BY <2>1, <2>2, <2>3, <2>4, ComposeActiveStep, ComposeInactiveStep
<1>2. stream' = [s \in Streams |-> IF s \in batch THEN nx[s] ELSE stream[s]]
  BY DEF RecomposeLedgerBatch
<1> HIDE DEF nx
<1>3. AllStep
  BY <1>1, <1>2, SomeStep
<1> QED
  BY <1>3, StepKeeps DEF RecomposeLedgerBatch

LEMMA RehearseKeeps ==
    ASSUME IInv, NEW s \in Ledger, NEW season \in Seasons, NEW cutoff \in Cutoffs,
           RehearseLedger(s, season, cutoff)
    PROVE  AllStep /\ IInv'
<1> DEFINE nx == ComposeInactive(stream[s], season, cutoff, CurrentEvidence(s, season, cutoff), {})
<1>1. s \in Streams /\ StreamOK(stream[s]) /\ HasRoom(s)
  BY StreamSets DEF IInv, RehearseLedger
<1>2. StreamStep(stream[s], nx)
  BY <1>1, Room, EvidenceType, ComposeInactiveStep DEF IInv
<1>3. stream' = [stream EXCEPT ![s] = nx]
  BY DEF RehearseLedger
<1> HIDE DEF nx
<1>4. AllStep
  BY <1>1, <1>2, <1>3, OneStep
<1> QED
  BY <1>4, StepKeeps DEF RehearseLedger

LEMMA PrepareKeeps ==
    ASSUME IInv, NEW w \in Workers, NEW s \in Streams, NEW season \in Seasons,
           NEW cutoff \in Cutoffs, Prepare(w, s, season, cutoff)
    PROVE  AllStep /\ IInv'
<1> DEFINE c == [phase |-> "prepared", stream |-> s, season |-> season, cutoff |-> cutoff,
                 evidence |-> CurrentEvidence(s, season, cutoff),
                 fence |-> stream[s].fence, active |-> stream[s].active]
<1>1. AllStep
  BY StutterStep DEF Prepare
<1>2. composing' = [v \in Workers |-> IF v = w THEN c ELSE composing[v]]
  BY DEF Prepare, IInv
<1>3. CurrentEvidence(s, season, cutoff) \in SUBSET Source /\ stream[s].enabled /\ stream' = stream
  BY EvidenceType DEF IInv, Prepare
<1>4. c.stream = s /\ c.season = season /\ c.cutoff = cutoff
      /\ c.evidence = CurrentEvidence(s, season, cutoff)
  OBVIOUS
<1> HIDE DEF c
<1>5. PreparedInv'
  BY <1>2, <1>3, <1>4 DEF PreparedInv, IInv
<1>6. CutoverInv'
  BY <1>1, CutoverKept DEF Prepare
<1> QED
  BY <1>1, <1>2, <1>5, <1>6 DEF IInv, Prepare, RepairInv, AllStep, StreamStep

\* The worker's record leaves PreparedInv.
LEMMA IdleKeeps ==
    ASSUME IInv, AllStep, NEW w \in Workers, composing' = [composing EXCEPT ![w] = Idle],
           UNCHANGED <<ledger, cutovers, repair>>
    PROVE  IInv'
<1>1. composing' = [v \in Workers |-> IF v = w THEN Idle ELSE composing[v]]
  BY DEF IInv
<1>2. Idle.phase # "prepared"
  BY DEF Idle
<1>3. \A s \in Streams : (stream[s].enabled => stream'[s].enabled) /\ StreamOK(stream'[s])
  BY DEF AllStep, StreamStep
<1>4. PreparedInv'
  BY <1>1, <1>2, <1>3 DEF PreparedInv, IInv
<1> QED
  BY <1>1, <1>3, <1>4, CutoverKept DEF IInv, RepairInv, AllStep

LEMMA ComposePreparedKeeps ==
    ASSUME IInv, NEW w \in Workers, ComposePrepared(w)
    PROVE  AllStep /\ IInv'
<1> DEFINE c == composing[w]
           nx == ComposeActive(c.stream, stream[c.stream], PublishedSeason(stream[Leader]),
                               c.season, c.cutoff, c.evidence, {})
<1>1. /\ c.stream \in Streams /\ stream[c.stream].enabled /\ c.season \in Seasons
      /\ c.cutoff \in Cutoffs /\ c.evidence \in SUBSET Source /\ HasRoom(c.stream)
  BY DEF IInv, PreparedInv, ComposePrepared
<1>2. StreamOK(stream[c.stream])
  BY <1>1 DEF IInv
<1>3. stream' = [stream EXCEPT ![c.stream] = nx]
  BY DEF ComposePrepared
<1>4. StreamStep(stream[c.stream], nx)
  BY <1>1, <1>2, Room, ComposeActiveStep
<1>5. AllStep
  <2> HIDE DEF c, nx
  <2> QED BY <1>1, <1>3, <1>4, OneStep
<1> QED
  BY <1>5, IdleKeeps DEF ComposePrepared

LEMMA AbandonKeeps ==
    ASSUME IInv, NEW w \in Workers, AbandonPrepared(w)
    PROVE  AllStep /\ IInv'
<1>1. AllStep
  BY StutterStep DEF AbandonPrepared
<1> QED
  BY <1>1, IdleKeeps DEF AbandonPrepared

LEMMA ActivateKeeps ==
    ASSUME IInv, NEW s \in Streams, NEW v \in Ids, ActivateStream(s, v)
    PROVE  AllStep /\ IInv'
<1> DEFINE nx == ActivateCandidate(stream[s], v)
<1>1. StreamOK(stream[s]) /\ stream[s].versions[v].live
  BY DEF IInv, ActivateStream
<1>2. v <= stream[s].made
  BY <1>1 DEF StreamOK
<1>3. StreamStep(stream[s], nx) /\ stream' = [stream EXCEPT ![s] = nx]
  BY <1>1, <1>2, ActivateCandidateStep DEF ActivateStream
<1> HIDE DEF nx
<1>4. AllStep
  BY <1>3, OneStep
<1> QED
  BY <1>4, StepKeeps DEF ActivateStream

LEMMA EnableKeeps ==
    ASSUME IInv, NEW s \in Streams, EnableStream(s)
    PROVE  AllStep /\ IInv'
<1> DEFINE st == stream[s]
           nx == [st EXCEPT !.enabled = TRUE]
<1>1. StreamOK(st)
  BY DEF IInv
<1>2. stream' = [stream EXCEPT ![s] = nx]
  BY DEF EnableStream
<1> HIDE DEF st
<1>3. /\ nx \in StreamState /\ nx.enabled /\ nx.fence = st.fence /\ nx.active = st.active
      /\ nx.previous = st.previous /\ nx.made = st.made /\ nx.versions = st.versions
      /\ nx.history = st.history
  BY <1>1 DEF StreamOK, StreamState
<1> HIDE DEF nx
<1>4. StreamStep(st, nx)
  <2>1. st.fence \in Nat /\ st.made \in Nat
    BY <1>1, Fields, Bounds
  <2>2. StreamOK(nx)
    BY <1>1, <1>3 DEF StreamOK
  <2> QED
    BY <1>3, <2>1, <2>2, GrowsReflexive DEF StreamStep
<1>5. AllStep
  BY <1>2, <1>4, OneStep DEF st
<1> QED
  BY <1>5, StepKeeps DEF EnableStream

LEMMA RollbackStreamKeeps ==
    ASSUME IInv, NEW s \in Streams, RollbackStream(s)
    PROVE  AllStep /\ IInv'
<1> DEFINE nx == RollBack(stream[s])
<1>1. StreamOK(stream[s]) /\ CanRollBack(stream[s]) /\ HasRoom(s)
  BY DEF IInv, RollbackStream
<1>2. StreamStep(stream[s], nx) /\ stream' = [stream EXCEPT ![s] = nx]
  BY <1>1, Room, RollBackStep DEF RollbackStream
<1> HIDE DEF nx
<1>3. AllStep
  BY <1>2, OneStep
<1> QED
  BY <1>3, StepKeeps DEF RollbackStream

LEMMA RollbackFamilyKeeps ==
    ASSUME IInv, RollbackFamily
    PROVE  AllStep /\ IInv'
<1> DEFINE back == {s \in Family : \A t \in Family :
                        stream[t].versions[stream[t].active].season
                            <= stream[s].versions[stream[s].active].season}
           nx == [s \in Streams |-> RollBack(stream[s])]
<1>1. ASSUME NEW s \in Streams, s \in back PROVE StreamStep(stream[s], nx[s])
  <2>1. StreamOK(stream[s]) /\ CanRollBack(stream[s]) /\ HasRoom(s)
    BY <1>1 DEF IInv, RollbackFamily
  <2> QED
    BY <2>1, Room, RollBackStep
<1>2. stream' = [s \in Streams |-> IF s \in back THEN nx[s] ELSE stream[s]]
  BY DEF RollbackFamily
<1> HIDE DEF nx, back
<1>3. AllStep
  BY <1>1, <1>2, SomeStep
<1> QED
  BY <1>3, StepKeeps DEF RollbackFamily

LEMMA PromoteFamilyKeeps ==
    ASSUME IInv, NEW to \in [Family -> Ids], PromoteFamily(to)
    PROVE  AllStep /\ IInv'
<1> DEFINE nx == [s \in Streams |-> MoveToCandidate(stream[s], to[s])]
<1>1. ASSUME NEW s \in Streams, s \in Family PROVE StreamStep(stream[s], nx[s])
  <2>1. /\ StreamOK(stream[s]) /\ stream[s].active # None /\ to[s] \in Ids
        /\ stream[s].versions[to[s]].live
    BY <1>1 DEF IInv, PromoteFamily
  <2>2. to[s] <= stream[s].made
    BY <2>1 DEF StreamOK
  <2> QED
    BY <2>1, <2>2, MoveToCandidateStep
<1>2. stream' = [s \in Streams |-> IF s \in Family THEN nx[s] ELSE stream[s]]
  BY DEF PromoteFamily
<1> HIDE DEF nx
<1>3. AllStep
  BY <1>1, <1>2, SomeStep
<1> QED
  BY <1>3, StepKeeps DEF PromoteFamily

LEMMA RevertKeeps ==
    ASSUME IInv, NEW c \in cutovers, RevertCutover(c)
    PROVE  AllStep /\ IInv'
<1> DEFINE nx == [s \in Streams |-> Restore(stream[s], c.moved[s])]
<1>1. ASSUME NEW s \in Streams, s \in DOMAIN c.moved PROVE StreamStep(stream[s], nx[s])
  <2> DEFINE move == c.moved[s]
  <2>1. /\ StreamOK(stream[s]) /\ move.from \in 1..stream[s].made
        /\ move.fromPrevious \in 0..stream[s].made /\ move.to \in 1..stream[s].made
        /\ move.from # move.to
    BY <1>1 DEF IInv, CutoverInv
  <2>2. /\ stream[s].active = move.to /\ stream[s].versions[move.from].live
        /\ move.fromPrevious # None => stream[s].versions[move.fromPrevious].live
    BY <1>1 DEF RevertCutover, Restorable
  <2>3. stream[s].active # None
    BY <2>1, <2>2 DEF None
  <2>4. nx[s] = Restore(stream[s], move)
    OBVIOUS
  <2> HIDE DEF move, nx
  <2> QED
    BY <2>1, <2>2, <2>3, <2>4, RestoreStep
<1>2. stream' = [s \in Streams |-> IF s \in DOMAIN c.moved THEN nx[s] ELSE stream[s]]
  BY DEF RevertCutover
<1> HIDE DEF nx
<1>3. AllStep
  BY <1>1, <1>2, SomeStep
<1> QED
  BY <1>3, StepKeeps DEF RevertCutover

LEMMA CutoverSeasonKeeps ==
    ASSUME IInv, NEW season \in Seasons, CutoverSeason(season)
    PROVE  AllStep /\ IInv'
<1> DEFINE moves == CutoverAccepted(season)
           To(s) == CHOOSE v \in Ids : <<s, v>> \in moves
           moved == {m[1] : m \in moves}
           result == [s \in Streams |->
                        IF s \in moved THEN MoveToCandidate(stream[s], To(s)) ELSE stream[s]]
           move(s) == [from |-> stream[s].active, fromPrevious |-> stream[s].previous, to |-> To(s)]
           on == {t \in Streams : stream[t].enabled}
           record == [moved |-> [s \in moved |-> move(s)],
                      fences |-> [s \in on |-> result[s].fence]]
<1>1. /\ stream' = result
      /\ cutovers' = cutovers \cup {record}
      /\ UNCHANGED <<ledger, composing, repair>>
  BY DEF CutoverSeason
<1>2. ASSUME NEW m \in moves
      PROVE  m \in Streams \X Ids /\ m[2] \in CutoverCandidate(stream[m[1]], season)
  BY DEF CutoverAccepted, CutoverMoves
<1> HIDE DEF moves
<1>3. ASSUME NEW s \in moved
      PROVE  /\ s \in Streams /\ To(s) \in Ids
             /\ stream[s].active # None /\ stream[s].active \in Ids
             /\ stream[s].versions[To(s)].live
             /\ To(s) # stream[s].active
             /\ To(s) <= stream[s].made
  <2>1. PICK m \in moves : m[1] = s
    BY <1>3
  <2>2. s \in Streams /\ m[2] \in Ids /\ <<s, m[2]>> \in moves
    BY <1>2, <2>1
  <2>3. To(s) \in Ids /\ <<s, To(s)>> \in moves
    BY <2>2
  <2> HIDE DEF To
  <2>4. To(s) \in CutoverCandidate(stream[s], season)
    BY <1>2, <2>3
  <2>5. /\ stream[s].active # None /\ stream[s].versions[stream[s].active].season # season
        /\ To(s) \in Candidates(stream[s], season)
    BY <2>4 DEF CutoverCandidate, Newest
  <2>6. stream[s].versions[To(s)].live /\ stream[s].versions[To(s)].season = season
    BY <2>5 DEF Candidates
  <2>7. StreamOK(stream[s])
    BY <2>2 DEF IInv
  <2>8. To(s) <= stream[s].made /\ stream[s].active \in Ids
    BY <2>3, <2>5, <2>6, <2>7, Fields DEF StreamOK
  <2> QED
    BY <2>2, <2>3, <2>5, <2>6, <2>8
<1> HIDE DEF To, moved
<1>4. AllStep
  <2> DEFINE nx == [s \in Streams |-> MoveToCandidate(stream[s], To(s))]
  <2>1. ASSUME NEW s \in Streams, s \in moved PROVE StreamStep(stream[s], nx[s])
    BY <1>3, <2>1, MoveToCandidateStep DEF IInv
  <2>2. stream' = [s \in Streams |-> IF s \in moved THEN nx[s] ELSE stream[s]]
    BY <1>1
  <2> HIDE DEF nx
  <2> QED
    BY <2>1, <2>2, SomeStep
<1>5. \A s \in Streams : StreamStep(stream[s], stream'[s])
  BY <1>4 DEF AllStep
<1>6. /\ DOMAIN record.moved = moved /\ DOMAIN record.fences = on
      /\ \A s \in moved : record.moved[s] = move(s)
      /\ \A s \in on : record.fences[s] = result[s].fence
  OBVIOUS
<1>7. moved \subseteq Streams /\ on \subseteq Streams
  BY <1>3
<1>8. ASSUME NEW s \in on
      PROVE  record.fences[s] \in Nat /\ record.fences[s] <= stream'[s].fence
  <2>1. StreamOK(stream'[s]) /\ record.fences[s] = stream'[s].fence
    BY <1>1, <1>5, <1>6, <1>8 DEF StreamStep
  <2>2. stream'[s].fence \in Nat
    BY <2>1, Fields
  <2> QED
    BY <2>1, <2>2
<1>9. ASSUME NEW s \in moved
      PROVE  /\ move(s).from \in 1..stream'[s].made
             /\ move(s).fromPrevious \in 0..stream'[s].made
             /\ move(s).to \in 1..stream'[s].made
             /\ move(s).from # move(s).to
             /\ stream'[s].versions[move(s).from].live
             /\ move(s).fromPrevious # None => stream'[s].versions[move(s).fromPrevious].live
  <2>1. s \in Streams /\ StreamOK(stream[s]) /\ StreamStep(stream[s], stream'[s])
    BY <1>3, <1>5, <1>9 DEF IInv
  <2>2. StreamOK(stream'[s])
    BY <2>1 DEF StreamStep
  <2>3. stream[s].made \in Nat /\ stream'[s].made \in Nat /\ stream'[s].made >= stream[s].made
    BY <2>1, <2>2, Fields, Bounds DEF StreamStep
  <2>4. stream[s].active <= stream[s].made /\ stream[s].previous <= stream[s].made
    BY <2>1 DEF StreamOK
  <2>5. stream[s].previous \in Ids \cup {None}
    BY <2>1, Fields
  <2>6. /\ move(s).from = stream[s].active /\ move(s).fromPrevious = stream[s].previous
        /\ move(s).to = To(s)
    OBVIOUS
  <2>7. /\ stream[s].active \in 1..stream'[s].made
        /\ stream[s].previous \in 0..stream'[s].made
        /\ To(s) \in 1..stream'[s].made
    BY <1>3, <1>9, <2>3, <2>4, <2>5, Bounds DEF Ids, None
  <2>8. /\ stream'[s].versions[stream[s].active].live
        /\ stream[s].previous # None => stream'[s].versions[stream[s].previous].live
    BY <1>3, <1>9, <2>1, <2>5 DEF StreamOK, StreamStep
  <2> QED
    BY <1>3, <1>9, <2>6, <2>7, <2>8
<1> HIDE DEF record, move, on, result
<1>10. CutoverInv'
  <2> SUFFICES ASSUME NEW c \in cutovers'
               PROVE  /\ DOMAIN c.moved \subseteq Streams
                      /\ DOMAIN c.fences \subseteq Streams
                      /\ \A s \in DOMAIN c.fences : /\ c.fences[s] \in Nat
                                                    /\ c.fences[s] <= stream'[s].fence
                      /\ \A s \in DOMAIN c.moved :
                            /\ c.moved[s].from \in 1..stream'[s].made
                            /\ c.moved[s].fromPrevious \in 0..stream'[s].made
                            /\ c.moved[s].to \in 1..stream'[s].made
                            /\ c.moved[s].from # c.moved[s].to
                            /\ Reversible(c)' =>
                                /\ stream'[s].versions[c.moved[s].from].live
                                /\ c.moved[s].fromPrevious # None =>
                                        stream'[s].versions[c.moved[s].fromPrevious].live
    BY DEF CutoverInv
  <2>1. CASE c \in cutovers
    BY <1>4, <2>1, RecordKept
  <2>2. CASE c = record
    BY <1>6, <1>7, <1>8, <1>9, <2>2
  <2> QED
    BY <1>1, <2>1, <2>2
<1>11. PreparedInv'
  BY <1>1, <1>4, PreparedKept
<1> QED
  BY <1>1, <1>4, <1>5, <1>10, <1>11 DEF IInv, RepairInv, AllStep, StreamStep

LEMMA DeclareKeeps ==
    ASSUME IInv, NEW members \in SUBSET (Streams \ Ledger), NEW season \in Seasons,
           NEW cutoff \in Cutoffs, DeclareRepair(members, season, cutoff)
    PROVE  AllStep /\ IInv'
<1> DEFINE g == [season |-> season, cutoff |-> cutoff, promoted |-> FALSE,
                 members |-> [s \in members |-> [active |-> stream[s].active,
                                                 fence |-> stream[s].fence]]]
<1>1. AllStep
  BY StutterStep DEF DeclareRepair
<1>2. repair' = repair \cup {g} /\ UNCHANGED <<ledger, cutovers, composing>>
  BY DEF DeclareRepair
<1>3. g.season \in Seasons /\ g.cutoff \in Cutoffs /\ DOMAIN g.members \subseteq Streams
  OBVIOUS
<1> HIDE DEF g
<1>4. RepairInv'
  BY <1>2, <1>3 DEF RepairInv, IInv
<1> QED
  BY <1>1, <1>2, <1>4, CutoverKept, PreparedKept DEF IInv, AllStep, StreamStep

LEMMA PromoteRepairKeeps ==
    ASSUME IInv, NEW g \in repair, PromoteRepair(g)
    PROVE  AllStep /\ IInv'
<1> DEFINE Replace(s) == Displace(Advance(stream[s], g.season, g.cutoff,
                                         CurrentEvidence(s, g.season, g.cutoff), TRUE),
                                  g.members[s].active)
           nx == [s \in Streams |-> Replace(s)]
<1>1. g.season \in Seasons /\ g.cutoff \in Cutoffs /\ DOMAIN g.members \subseteq Streams
  BY DEF IInv, RepairInv
<1>2. ASSUME NEW s \in Streams, s \in DOMAIN g.members PROVE StreamStep(stream[s], nx[s])
  <2>1. /\ StreamOK(stream[s]) /\ stream[s].enabled /\ HasRoom(s)
        /\ g.members[s].active = stream[s].active
    BY <1>2 DEF IInv, PromoteRepair
  <2>2. stream[s].made < MaxVersions /\ CurrentEvidence(s, g.season, g.cutoff) \in SUBSET Source
    BY <2>1, Room, EvidenceType DEF IInv
  <2>3. nx[s] = Displace(Advance(stream[s], g.season, g.cutoff,
                                 CurrentEvidence(s, g.season, g.cutoff), TRUE),
                         stream[s].active)
    BY <2>1
  <2> HIDE DEF nx
  <2> QED
    BY <1>1, <2>1, <2>2, <2>3, ReplaceStep
<1>3. stream' = [s \in Streams |-> IF s \in DOMAIN g.members THEN nx[s] ELSE stream[s]]
  BY DEF PromoteRepair, Displace
<1> HIDE DEF nx
<1>4. AllStep
  BY <1>2, <1>3, SomeStep
<1> DEFINE done == [g EXCEPT !.promoted = TRUE]
<1>5. repair' = (repair \ {g}) \cup {done} /\ UNCHANGED <<ledger, cutovers, composing>>
  BY DEF PromoteRepair
<1>6. done.season = g.season /\ done.cutoff = g.cutoff /\ done.members = g.members
  OBVIOUS
<1> HIDE DEF done
<1>7. RepairInv'
  BY <1>1, <1>5, <1>6 DEF RepairInv, IInv
<1> QED
  BY <1>4, <1>5, <1>7, CutoverKept, PreparedKept DEF IInv, AllStep, StreamStep

\* Retention deletes no version the pointer names or a revert would restore.
LEMMA PruneKeeps ==
    ASSUME IInv, NEW season \in Seasons, NEW horizon \in Cutoffs, PruneHistory(season, horizon)
    PROVE  FenceMoves /\ IInv'
<1> DEFINE Doomed(s) == {v \in Ids \ Kept(s, horizon) : /\ stream[s].versions[v].live
                                                        /\ stream[s].versions[v].season = season}
           W(s) == [v \in Ids |-> IF v \in Doomed(s) THEN Deleted(stream[s].versions[v].season)
                                  ELSE stream[s].versions[v]]
           nx(s) == [stream[s] EXCEPT !.versions = W(s)]
<1>1. stream' = [s \in Streams |-> nx(s)] /\ UNCHANGED <<ledger, cutovers, composing, repair>>
  BY DEF PruneHistory
<1>2. ASSUME NEW s \in Streams
      PROVE  /\ StreamOK(nx(s)) /\ nx(s).enabled = stream[s].enabled
             /\ nx(s).fence = stream[s].fence /\ nx(s).active = stream[s].active
             /\ nx(s).made = stream[s].made /\ nx(s).history = stream[s].history
             /\ \A v \in RestoreTargets(s) \cap Ids :
                    nx(s).versions[v].live = stream[s].versions[v].live
  <2>1. StreamOK(stream[s])
    BY DEF IInv
  <2>2. \A v \in Ids : stream[s].versions[v] \in Version
    BY <2>1, Fields
  <2>3. \A v \in Ids : Deleted(stream[s].versions[v].season) \in Version
    BY <2>2 DEF Version, Deleted, Status
  <2>4. \A v \in Ids : ~Deleted(stream[s].versions[v].season).live
    BY DEF Deleted
  <2>5. /\ stream[s].active \notin Doomed(s) /\ stream[s].previous \notin Doomed(s)
        /\ \A v \in RestoreTargets(s) : v \notin Doomed(s)
    BY DEF Kept
  <2> HIDE DEF Doomed
  <2>6. /\ W(s) \in [Ids -> Version]
        /\ \A v \in Ids : W(s)[v].live => stream[s].versions[v].live
        /\ \A v \in Ids \ Doomed(s) : W(s)[v] = stream[s].versions[v]
    BY <2>2, <2>3, <2>4
  <2> HIDE DEF W
  <2>7. /\ nx(s) \in StreamState /\ nx(s).enabled = stream[s].enabled
        /\ nx(s).fence = stream[s].fence /\ nx(s).active = stream[s].active
        /\ nx(s).previous = stream[s].previous /\ nx(s).made = stream[s].made
        /\ nx(s).history = stream[s].history /\ nx(s).versions = W(s)
    BY <2>1, <2>6 DEF StreamOK, StreamState
  <2> HIDE DEF nx
  <2>8. /\ stream[s].active # None => W(s)[stream[s].active] = stream[s].versions[stream[s].active]
        /\ stream[s].previous # None =>
                W(s)[stream[s].previous] = stream[s].versions[stream[s].previous]
    BY <2>1, <2>5, <2>6, Fields
  <2>9. StreamOK(nx(s))
    BY <2>1, <2>6, <2>7, <2>8 DEF StreamOK
  <2>10. \A v \in RestoreTargets(s) \cap Ids :
                    nx(s).versions[v].live = stream[s].versions[v].live
    BY <2>5, <2>6, <2>7
  <2> QED
    BY <2>7, <2>9, <2>10
<1> HIDE DEF nx
<1>3. \A s \in Streams : stream'[s] = nx(s)
  BY <1>1
<1>4. FenceMoves
  <2>1. \A s \in Streams : stream[s].fence \in Nat
    BY Fields DEF IInv
  <2> QED
    BY <1>2, <1>3, <2>1 DEF FenceMoves
<1>5. ASSUME NEW c \in cutovers
      PROVE  Reversible(c)' => Reversible(c)
  <2>1. DOMAIN c.fences \subseteq Streams
    BY DEF IInv, CutoverInv
  <2>2. \A s \in DOMAIN c.fences : stream'[s].fence = stream[s].fence
    BY <1>2, <1>3, <2>1
  <2> QED
    BY <2>2 DEF Reversible
<1>6. CutoverInv'
  <2> SUFFICES ASSUME NEW c \in cutovers
               PROVE  /\ DOMAIN c.moved \subseteq Streams
                      /\ DOMAIN c.fences \subseteq Streams
                      /\ \A s \in DOMAIN c.fences : /\ c.fences[s] \in Nat
                                                    /\ c.fences[s] <= stream'[s].fence
                      /\ \A s \in DOMAIN c.moved :
                            /\ c.moved[s].from \in 1..stream'[s].made
                            /\ c.moved[s].fromPrevious \in 0..stream'[s].made
                            /\ c.moved[s].to \in 1..stream'[s].made
                            /\ c.moved[s].from # c.moved[s].to
                            /\ Reversible(c)' =>
                                /\ stream'[s].versions[c.moved[s].from].live
                                /\ c.moved[s].fromPrevious # None =>
                                        stream'[s].versions[c.moved[s].fromPrevious].live
    BY <1>1 DEF CutoverInv
  <2>1. /\ DOMAIN c.moved \subseteq Streams
        /\ DOMAIN c.fences \subseteq Streams
        /\ \A s \in DOMAIN c.fences : c.fences[s] \in Nat /\ c.fences[s] <= stream[s].fence
    BY DEF IInv, CutoverInv
  <2>2. ASSUME NEW s \in DOMAIN c.moved
        PROVE  /\ c.moved[s].from \in 1..stream'[s].made
               /\ c.moved[s].fromPrevious \in 0..stream'[s].made
               /\ c.moved[s].to \in 1..stream'[s].made
               /\ c.moved[s].from # c.moved[s].to
               /\ Reversible(c)' =>
                    /\ stream'[s].versions[c.moved[s].from].live
                    /\ c.moved[s].fromPrevious # None =>
                            stream'[s].versions[c.moved[s].fromPrevious].live
    <3>1. /\ c.moved[s].from \in 1..stream[s].made
          /\ c.moved[s].fromPrevious \in 0..stream[s].made
          /\ c.moved[s].to \in 1..stream[s].made
          /\ c.moved[s].from # c.moved[s].to
          /\ Reversible(c) =>
                    /\ stream[s].versions[c.moved[s].from].live
                    /\ c.moved[s].fromPrevious # None =>
                            stream[s].versions[c.moved[s].fromPrevious].live
      BY DEF IInv, CutoverInv
    <3>2. s \in Streams /\ stream'[s] = nx(s) /\ stream'[s].made = stream[s].made
      BY <1>2, <1>3, <2>1
    <3>3. stream[s].made \in Nat /\ stream[s].made <= MaxVersions
      BY <3>2, Fields, Bounds DEF IInv
    <3>4. /\ c.moved[s].from \in Ids
          /\ c.moved[s].fromPrevious # None => c.moved[s].fromPrevious \in Ids
      BY <3>1, <3>3, Bounds DEF Ids, None
    <3>5. Reversible(c) => {c.moved[s].from, c.moved[s].fromPrevious} \subseteq RestoreTargets(s)
      BY DEF RestoreTargets
    <3>6. ASSUME Reversible(c)'
          PROVE  /\ stream'[s].versions[c.moved[s].from].live
                 /\ c.moved[s].fromPrevious # None =>
                            stream'[s].versions[c.moved[s].fromPrevious].live
      <4>1. Reversible(c)
        BY <1>5, <3>6
      <4>2. \A v \in RestoreTargets(s) \cap Ids :
                    stream'[s].versions[v].live = stream[s].versions[v].live
        BY <1>2, <3>2
      <4> QED
        BY <3>1, <3>4, <3>5, <4>1, <4>2
    <3> QED
      BY <3>1, <3>2, <3>6
  <2>3. \A s \in DOMAIN c.fences : c.fences[s] <= stream'[s].fence
    BY <1>2, <1>3, <2>1
  <2> QED
    BY <2>1, <2>2, <2>3
<1>7. PreparedInv'
  BY <1>1, <1>2, <1>3 DEF PreparedInv, IInv
<1>8. stream' = [s \in Streams |-> stream'[s]]
  BY <1>1, <1>3
<1>9. \A s \in Streams : StreamOK(stream'[s])
  BY <1>2, <1>3
<1> QED
  BY <1>1, <1>4, <1>6, <1>7, <1>8, <1>9 DEF IInv, RepairInv

\* A legal step of every stream moves fences and history forward.
LEMMA AllStepMoves ==
    ASSUME AllStep
    PROVE  FenceMoves
  BY DEF AllStep, StreamStep, HistoryGrows, FenceMoves

-----------------------------------------------------------------------------
(* The theorems. *)

LEMMA InitialState ==
    ASSUME Init
    PROVE  IInv
<1>1. 1 \in Ids /\ 1 \in Seasons /\ 1 \in Cutoffs /\ 1 \in 0..MaxVersions
  BY Bounds DEF Ids, Seasons, Cutoffs
<1>2. 1 \in 1..(MaxSources + 1)
  BY Bounds
<1>3. ASSUME NEW s \in Streams PROVE StreamOK(InitStream(s))
  <2>1. Deleted(None) \in Version /\ ~Deleted(None).live
    BY DEF Deleted, Version, Status
  <2>2. CASE s \in Bound
    <3> DEFINE ev == {<<i, 1>> : i \in Governed(s, 1, 1)}
               V == [v \in Ids |-> IF v = 1 THEN FirstVersion(s) ELSE Deleted(None)]
               H == {Activation(1, 1)}
    <3>1. ev \in SUBSET Source
      BY <1>2 DEF Source, Governed
    <3>2. FirstVersion(s) = [NewVersion(1, 1, "active", ev) EXCEPT !.activated = TRUE]
      BY DEF FirstVersion
    <3> HIDE DEF ev
    <3>3. FirstVersion(s) \in Version /\ FirstVersion(s).live /\ FirstVersion(s).status = "active"
      <4>1. NewVersion(1, 1, "active", ev) \in Version /\ NewVersion(1, 1, "active", ev).live
            /\ NewVersion(1, 1, "active", ev).status = "active"
        BY <1>1, <3>1, NewVersionType DEF Status
      <4> QED
        BY <3>2, <4>1 DEF Version
    <3>4. /\ V \in [Ids -> Version] /\ V[1].live /\ V[1].status = "active"
          /\ \A v \in Ids : V[v].live => v <= 1
      BY <1>1, <2>1, <3>3
    <3>5. HistoryOK(H, 1)
      BY <1>1 DEF HistoryOK, HistoryRow, Activation
    <3>6. H \in SUBSET HistoryRow
      BY <3>5 DEF HistoryOK
    <3> DEFINE st == [enabled |-> TRUE, fence |-> 1, active |-> 1, previous |-> None, made |-> 1,
                      versions |-> V, history |-> H]
    <3>7. InitStream(s) = st
      BY <2>2 DEF InitStream
    <3> HIDE DEF V, H
    <3>8. st \in StreamState
      BY <1>1, <3>4, <3>6 DEF StreamState
    <3>9. StreamOK(st)
      BY <3>4, <3>5, <3>8 DEF StreamOK, None
    <3> QED
      BY <3>7, <3>9
  <2>3. CASE s \notin Bound
    <3> DEFINE V == [v \in Ids |-> Deleted(None)]
               st == [enabled |-> FALSE, fence |-> 0, active |-> None, previous |-> None,
                      made |-> 0, versions |-> V, history |-> {}]
    <3>1. V \in [Ids -> Version] /\ \A v \in Ids : ~V[v].live
      BY <2>1
    <3>2. InitStream(s) = st
      BY <2>3 DEF InitStream
    <3> HIDE DEF V
    <3>3. st \in StreamState /\ HistoryOK({}, 0)
      BY <3>1, Bounds DEF StreamState, HistoryOK
    <3>4. StreamOK(st)
      BY <3>1, <3>3 DEF StreamOK, None
    <3> QED
      BY <3>2, <3>4
  <2> QED
    BY <2>2, <2>3
<1>4. /\ stream = [s \in Streams |-> stream[s]]
      /\ \A s \in Streams : StreamOK(stream[s])
  BY <1>3 DEF Init
<1>5. PreparedInv
  BY DEF Init, PreparedInv, Idle
<1> QED
  BY <1>2, <1>4, <1>5 DEF Init, IInv, CutoverInv, RepairInv

\* Every step keeps the invariant and moves fences and history forward.
LEMMA NextStep ==
    ASSUME IInv, [Next]_vars
    PROVE  IInv' /\ FenceMoves
<1>1. CASE Compose
  <2>1. ASSUME NEW batch \in SUBSET Ledger, NEW m \in Manifests, NEW fixed \in Fixes(m[1]),
               RecomposeLedgerBatch(batch, m[1], m[2], fixed)
        PROVE  IInv' /\ FenceMoves
    BY <2>1, ManifestType, RecomposeKeeps, AllStepMoves
  <2>2. ASSUME NEW s \in Ledger, NEW m \in Manifests, RehearseLedger(s, m[1], m[2])
        PROVE  IInv' /\ FenceMoves
    BY <2>2, ManifestType, RehearseKeeps, AllStepMoves
  <2>3. ASSUME NEW w \in Workers, NEW s \in Streams \ Ledger, NEW m \in Manifests,
               Prepare(w, s, m[1], m[2])
        PROVE  IInv' /\ FenceMoves
    BY <2>3, ManifestType, PrepareKeeps, AllStepMoves
  <2>4. ASSUME NEW w \in Workers, ComposePrepared(w) \/ AbandonPrepared(w)
        PROVE  IInv' /\ FenceMoves
    BY <2>4, ComposePreparedKeeps, AbandonKeeps, AllStepMoves
  <2> QED
    BY <1>1, <2>1, <2>2, <2>3, <2>4 DEF Compose
<1>2. CASE Operate
  <2>1. ASSUME NEW s \in Streams, NEW v \in Ids, ActivateStream(s, v)
        PROVE  IInv' /\ FenceMoves
    BY <2>1, ActivateKeeps, AllStepMoves
  <2>2. ASSUME NEW s \in Streams, EnableStream(s) \/ RollbackStream(s)
        PROVE  IInv' /\ FenceMoves
    BY <2>2, EnableKeeps, RollbackStreamKeeps, AllStepMoves
  <2>3. ASSUME NEW season \in Seasons, CutoverSeason(season)
        PROVE  IInv' /\ FenceMoves
    BY <2>3, CutoverSeasonKeeps, AllStepMoves
  <2>4. ASSUME NEW c \in cutovers, RevertCutover(c)
        PROVE  IInv' /\ FenceMoves
    BY <2>4, RevertKeeps, AllStepMoves
  <2>5. ASSUME RollbackFamily
        PROVE  IInv' /\ FenceMoves
    BY <2>5, RollbackFamilyKeeps, AllStepMoves
  <2>6. ASSUME NEW to \in [Family -> Ids], PromoteFamily(to)
        PROVE  IInv' /\ FenceMoves
    BY <2>6, PromoteFamilyKeeps, AllStepMoves
  <2>7. ASSUME NEW members \in SUBSET (Streams \ Ledger), NEW m \in Manifests,
               DeclareRepair(members, m[1], m[2])
        PROVE  IInv' /\ FenceMoves
    BY <2>7, ManifestType, DeclareKeeps, AllStepMoves
  <2>8. ASSUME NEW g \in repair, PromoteRepair(g)
        PROVE  IInv' /\ FenceMoves
    BY <2>8, PromoteRepairKeeps, AllStepMoves
  <2> QED
    BY <1>2, <2>1, <2>2, <2>3, <2>4, <2>5, <2>6, <2>7, <2>8 DEF Operate
<1>3. ASSUME NEW i \in Revised, ReplaceSource(i)
      PROVE  IInv' /\ FenceMoves
  <2>1. AllStep
    BY <1>3, StutterStep DEF ReplaceSource
  <2>2. ledger' \in [Items -> 1..(MaxSources + 1)]
    <3>1. i \in Items /\ ledger[i] \in Nat /\ ledger[i] >= 1 /\ ledger[i] <= MaxSources
      BY <1>3, Bounds DEF IInv, ReplaceSource
    <3>2. ledger[i] + 1 \in 1..(MaxSources + 1)
      BY <3>1, Bounds
    <3> QED
      BY <1>3, <3>2 DEF IInv, ReplaceSource
  <2>3. IInv'
    BY <1>3, <2>1, <2>2, CutoverKept, PreparedKept
       DEF ReplaceSource, IInv, RepairInv, AllStep, StreamStep
  <2> QED
    BY <2>1, <2>3, AllStepMoves
<1>4. ASSUME NEW season \in Seasons, NEW horizon \in Cutoffs, PruneHistory(season, horizon)
      PROVE  IInv' /\ FenceMoves
  BY <1>4, PruneKeeps
<1>5. CASE UNCHANGED vars
  <2>1. AllStep
    BY <1>5, StutterStep DEF vars
  <2> QED
    BY <1>5, <2>1, StepKeeps, AllStepMoves DEF vars
<1> QED
  BY <1>1, <1>2, <1>3, <1>4, <1>5 DEF Next

\* The inductive invariant holds in every reachable state.
THEOREM InvHolds == Spec => []IInv
<1>1. Init => IInv
  BY InitialState
<1>2. IInv /\ [Next]_vars => IInv'
  BY NextStep
<1> QED
  BY <1>1, <1>2, PTL DEF Spec

\* No sequence of writers leaves a pointer on an id that was never created or
\* a history row at a fence the pointer has not reached or shares.
THEOREM TypeCorrect == Spec => []TypeOK
<1>1. IInv => TypeOK
  <2> SUFFICES ASSUME IInv PROVE TypeOK
    OBVIOUS
  <2>1. stream \in [Streams -> StreamState]
    BY DEF IInv, StreamOK
  <2>2. ASSUME NEW s \in Streams
        PROVE  /\ {stream[s].active, stream[s].previous} \subseteq 0..stream[s].made
               /\ \A h \in stream[s].history : h.fence <= stream[s].fence
               /\ \A h, k \in stream[s].history : h.fence = k.fence => h = k
    <3>1. StreamOK(stream[s])
      BY DEF IInv
    <3>2. {stream[s].active, stream[s].previous} \subseteq 0..stream[s].made
      BY <3>1, Fields, Bounds DEF StreamOK, Ids, None
    <3> QED
      BY <3>1, <3>2 DEF StreamOK, HistoryOK
  <2> QED
    BY <2>1, <2>2 DEF TypeOK, IInv
<1> QED
  BY <1>1, InvHolds, PTL

\* compose_inactive_ledger, holds, corrections, repairs, cutovers, rollbacks
\* and retention never strand a pointer on a version readers refuse.
THEOREM ActiveServable == Spec => []ActiveIsServable
<1>1. IInv => ActiveIsServable
  BY DEF IInv, StreamOK, ActiveIsServable
<1> QED
  BY <1>1, InvHolds, PTL

\* prune_history never deletes a rollback target or what the revert of a
\* still reversible cutover would restore.
THEOREM AuthorityRetained == Spec => []AuthorityKept
<1>1. IInv => AuthorityKept
  <2> SUFFICES ASSUME IInv, NEW s \in Streams
               PROVE  /\ stream[s].previous # None => stream[s].versions[stream[s].previous].live
                      /\ \A v \in RestoreTargets(s) \ {None} : stream[s].versions[v].live
    BY DEF AuthorityKept
  <2>1. stream[s].previous # None => stream[s].versions[stream[s].previous].live
    BY DEF IInv, StreamOK
  <2>2. ASSUME NEW v \in RestoreTargets(s) \ {None} PROVE stream[s].versions[v].live
    <3>1. PICK c \in cutovers : /\ Reversible(c) /\ s \in DOMAIN c.moved
                                /\ v \in {c.moved[s].from, c.moved[s].fromPrevious}
      BY <2>2 DEF RestoreTargets
    <3> QED
      BY <2>2, <3>1 DEF IInv, CutoverInv
  <2> QED
    BY <2>1, <2>2
<1> QED
  BY <1>1, InvHolds, PTL

\* Whoever compares a pointer by its fence (prepared compositions, repair
\* guards, cutover records) never mistakes a moved pointer for the one it saw,
\* and pointer history only gains marks.
THEOREM FencesOnlyAdvance == Spec => FencesAdvance
<1>1. IInv /\ [Next]_vars => FenceMoves
  BY NextStep
<1> QED
  BY <1>1, InvHolds, PTL DEF Spec, FencesAdvance

=============================================================================
