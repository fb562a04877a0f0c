---------------------- MODULE ResidentialOutboxProofs ----------------------
(***************************************************************************)
(* Proofs about ResidentialOutbox, for any invocations, envelopes and      *)
(* instructions, any outbox budget and any number of crashes and lease     *)
(* expiries.                                                               *)
(*                                                                         *)
(* Each property rests on what one run knows while others work on the same *)
(* rows: which request it waits for and what a receipt says of the server  *)
(* (SentInv, Answered), which cutoff it may prune by (RunOK), and what its *)
(* last drain has still to account for (Accounted).                        *)
(***************************************************************************)
EXTENDS ResidentialOutbox, FiniteLemmas, TLAPS

\* A run has no work before it has found its instructions.
Early(r) ==
    \/ r.pc \in {"idle", "token", "discover", "prune"}
    \/ r.pc \in {"drain", "upload"} /\ r.phase = "first"

WorkOK(r) ==
    /\ r.pc = "upload" => r.item \in Items
    /\ \A i \in r.work : InstructionOf[i] \in r.found
    /\ Early(r) => r.work = {}

\* A receipt says that the server has stored the envelope, and the cutoff to
\* prune by is one that the server governs.
ServerOK(r) ==
    /\ r.pc # "upload" => r.item = None /\ r.answer = None
    /\ r.answer = "receipt" => r.item \in stored
    /\ r.below <= governed

\* Every row the last drain read is deleted, still to be handled or in hand,
\* unless the run has noted a failure.
Accounted(r) ==
    /\ r.pc \notin {"idle", "token"} => r.token \/ r.transient
    /\ r.pc \notin {"drain", "upload"} => r.queue = {}
    /\ r.pc = "settle" => r.phase = "last" \/ r.transient
    /\ r.pc \in {"drain", "upload", "settle"} /\ r.phase = "last"
          => r.transient \/ r.failed \/ r.final \subseteq r.gone \cup r.queue \cup {r.item}

RunOK(r) == WorkOK(r) /\ ServerOK(r) /\ Accounted(r)

RunInv == \A p \in Invocations : RunOK(run[p])

\* A run waits for at most one request, that for the envelope in its hand.
SentInv ==
    \A m \in sent : m.waiting =>
        run[m.from].pc = "upload" /\ run[m.from].item = m.item /\ run[m.from].answer = None

IInv == TypeOK /\ RunInv /\ SentInv /\ LeaseCovers

-----------------------------------------------------------------------------

\* obsolete_before_cutoff is a cutoff: finitely many manifests have a newest.
LEMMA ObsoleteBeforeIsCutoff == TypeOK => ObsoleteBefore \in Nat
<1> SUFFICES ASSUME TypeOK, VisibleManifests # {} PROVE ObsoleteBefore \in Nat
  BY DEF ObsoleteBefore
<1> DEFINE S == {CutoffOf[m] : m \in VisibleManifests}
<1>1. VisibleManifests \subseteq Manifests
  BY DEF VisibleManifests
<1>2. IsFiniteSet(S)
  <2>1. IsFiniteSet(VisibleManifests)
    BY <1>1, OutboxAssumption, FS_Subset
  <2> QED
    BY <2>1, FiniteImage
<1>3. S \subseteq Nat /\ S # {}
  BY <1>1, OutboxAssumption DEF Instructions
<1>4. \E x \in S : \A y \in S : y <= x
  <2>1. S \subseteq Int => \E x \in S : \A y \in S : y <= x
    <3> HIDE DEF S
    <3> QED
      BY <1>2, <1>3, FiniteHasMax
  <2> QED
    BY <1>3, <2>1
<1>5. \E c \in S : \A m \in VisibleManifests : CutoffOf[m] <= c
  BY <1>4
<1>6. ObsoleteBefore \in S
  BY <1>5 DEF ObsoleteBefore
<1> QED
  BY <1>3, <1>6

-----------------------------------------------------------------------------
(***************************************************************************)
(* One run and its record.                                                 *)
(***************************************************************************)

LEMMA FreshOK == TypeOK => Fresh \in Run /\ RunOK(Fresh)
BY DEF TypeOK, Fresh, Run, Pc, RunOK, WorkOK, ServerOK, Accounted, Early, None, Instructions

\* A drain begins with the rows of the outbox.
LEMMA DrainingOK ==
    ASSUME TypeOK, NEW r \in Run, RunOK(r), NEW phase \in {"first", "last"},
           r.pc \notin {"idle", "drain", "upload"}, r.token,
           phase = "first" => r.work = {},
           phase = "last" => r.pc = "collect"
    PROVE  Draining(r, phase) \in Run /\ RunOK(Draining(r, phase))
<1>1. Draining(r, phase) \in Run
  <2>1. outbox \in SUBSET Items /\ outbox \ aged \in SUBSET Items
    BY DEF TypeOK
  <2>2. CASE aged = {} /\ phase = "first"
    <3>1. Draining(r, phase) = [r EXCEPT !.pc = "drain", !.phase = phase, !.queue = outbox \ aged,
              !.gone = {}, !.final = @, !.failed = @, !.late = FALSE]
      BY <2>2 DEF Draining, Run
    <3>2. [r EXCEPT !.pc = "drain", !.phase = phase, !.queue = outbox \ aged,
              !.gone = {}, !.final = @, !.failed = @, !.late = FALSE] \in Run
      BY <2>1, <2>2, ZenonT(30) DEF Run, Pc
    <3> QED
      BY <3>1, <3>2, Zenon
  <2>5. CASE aged = {} /\ phase = "last"
    <3>1. Draining(r, phase) = [r EXCEPT !.pc = "drain", !.phase = phase, !.queue = outbox \ aged,
              !.gone = {}, !.final = outbox, !.failed = @, !.late = FALSE]
      BY <2>5 DEF Draining, Run
    <3>2. [r EXCEPT !.pc = "drain", !.phase = phase, !.queue = outbox \ aged,
              !.gone = {}, !.final = outbox, !.failed = @, !.late = FALSE] \in Run
      BY <2>1, <2>5, ZenonT(30) DEF Run, Pc
    <3> QED
      BY <3>1, <3>2, Zenon
  <2>3. CASE aged # {} /\ phase = "first"
    <3>1. Draining(r, phase) = [r EXCEPT !.pc = "drain", !.phase = phase, !.queue = outbox \ aged,
              !.gone = {}, !.final = @, !.failed = @, !.late = TRUE]
      BY <2>3 DEF Draining, Run
    <3>2. [r EXCEPT !.pc = "drain", !.phase = phase, !.queue = outbox \ aged,
              !.gone = {}, !.final = @, !.failed = @, !.late = TRUE] \in Run
      BY <2>1, <2>3 DEF Run, Pc
    <3> QED
      BY <3>1, <3>2, Zenon
  <2>4. CASE aged # {} /\ phase = "last"
    <3>1. Draining(r, phase) = [r EXCEPT !.pc = "drain", !.phase = phase, !.queue = outbox \ aged,
              !.gone = {}, !.final = outbox, !.failed = TRUE, !.late = FALSE]
      BY <2>4 DEF Draining, Run
    <3>2. [r EXCEPT !.pc = "drain", !.phase = phase, !.queue = outbox \ aged,
              !.gone = {}, !.final = outbox, !.failed = TRUE, !.late = FALSE] \in Run
      BY <2>1, <2>4 DEF Run, Pc
    <3> QED
      BY <3>1, <3>2, Zenon
  <2> QED
    BY <2>2, <2>3, <2>4, <2>5
<1>2. WorkOK(Draining(r, phase))
  BY DEF Draining, RunOK, WorkOK, Early, Run
<1>3. ServerOK(Draining(r, phase))
  BY DEF Draining, RunOK, ServerOK, Run
<1>4. Accounted(Draining(r, phase))
  BY DEF Draining, RunOK, Accounted, Run
<1> QED
  BY <1>1, <1>2, <1>3, <1>4 DEF RunOK

LEMMA BackOK ==
    ASSUME TypeOK, NEW r \in Run, RunOK(r), r.pc = "upload"
    PROVE  /\ [Back(r) EXCEPT !.failed = TRUE] \in Run
           /\ RunOK([Back(r) EXCEPT !.failed = TRUE])
           /\ [Back(r) EXCEPT !.transient = TRUE] \in Run
           /\ RunOK([Back(r) EXCEPT !.transient = TRUE])
<1>1. /\ [Back(r) EXCEPT !.failed = TRUE] \in Run
      /\ [Back(r) EXCEPT !.transient = TRUE] \in Run
  BY DEF Back, Run, Pc
<1>2. /\ WorkOK([Back(r) EXCEPT !.failed = TRUE])
      /\ WorkOK([Back(r) EXCEPT !.transient = TRUE])
  BY DEF Back, Run, RunOK, WorkOK, Early
<1>3. /\ ServerOK([Back(r) EXCEPT !.failed = TRUE])
      /\ ServerOK([Back(r) EXCEPT !.transient = TRUE])
  BY DEF Back, Run, RunOK, ServerOK, None
<1>4. /\ Accounted([Back(r) EXCEPT !.failed = TRUE])
      /\ Accounted([Back(r) EXCEPT !.transient = TRUE])
  BY DEF Back, Run, RunOK, Accounted
<1> QED
  BY <1>1, <1>2, <1>3, <1>4 DEF RunOK

\* Rows that other runs delete.
LEMMA GoneOK ==
    ASSUME TypeOK, NEW r \in Run, RunOK(r), NEW S \in SUBSET Items
    PROVE  [r EXCEPT !.gone = @ \cup S] \in Run /\ RunOK([r EXCEPT !.gone = @ \cup S])
<1>1. [r EXCEPT !.gone = @ \cup S] \in Run
  BY DEF Run
<1> QED
  BY <1>1 DEF Run, RunOK, WorkOK, ServerOK, Accounted, Early

-----------------------------------------------------------------------------
(***************************************************************************)
(* Steps that rewrite the record of one run.                               *)
(***************************************************************************)

\* What run p becomes in a step that does not end it.
Moves(p, r) ==
    /\ run[p].pc # "idle" /\ r.pc # "idle"
    /\ r.overrun = run[p].overrun
    /\ run' = [run EXCEPT ![p] = r]

\* The record of the run, as the invariant knows it.
LEMMA OwnRecord ==
    ASSUME TypeOK, RunInv, NEW p \in Invocations
    PROVE  run[p] \in Run /\ RunOK(run[p])
BY DEF TypeOK, RunInv

LEMMA TokenSteps ==
    ASSUME TypeOK, RunInv, NEW p \in Invocations, GetToken(p) \/ NoToken(p)
    PROVE  \E r \in Run : Moves(p, r) /\ RunOK(r)
<1> DEFINE b == run[p]
<1>0. b \in Run /\ RunOK(b) /\ b.pc = "token" /\ cache \ past \in SUBSET Instructions
  BY OwnRecord DEF GetToken, NoToken, TypeOK
<1>1. CASE GetToken(p)
  <2> DEFINE t == [b EXCEPT !.token = TRUE]
             r == Draining(t, "first")
  <2>1. run' = [run EXCEPT ![p] = r]
    BY <1>1 DEF GetToken, Set
  <2> HIDE DEF b
  <2>2. t \in Run /\ RunOK(t) /\ t.pc = "token" /\ t.token /\ t.work = {} /\ t.overrun = b.overrun
    BY <1>0 DEF Run, RunOK, WorkOK, ServerOK, Accounted, Early
  <2> HIDE DEF t
  <2>3. r \in Run /\ RunOK(r)
    BY <2>2, DrainingOK
  <2>4. r.pc = "drain" /\ r.overrun = t.overrun
    BY <2>2 DEF Draining, Run
  <2> HIDE DEF r
  <2> QED
    BY <1>0, <2>1, <2>2, <2>3, <2>4 DEF Moves, b
<1>2. CASE NoToken(p)
  <2> DEFINE r == [b EXCEPT !.transient = TRUE, !.found = cache \ past, !.pc = "prune"]
  <2>1. run' = [run EXCEPT ![p] = r]
    BY <1>2 DEF NoToken, Set
  <2> HIDE DEF b
  <2>2. r \in Run
    BY <1>0 DEF Run, Pc
  <2>3. RunOK(r)
    BY <1>0 DEF Run, RunOK, WorkOK, ServerOK, Accounted, Early
  <2>4. r.pc = "prune" /\ r.overrun = b.overrun
    BY <1>0 DEF Run
  <2> HIDE DEF r
  <2> QED
    BY <1>0, <2>1, <2>2, <2>3, <2>4 DEF Moves, b
<1> QED
  BY <1>1, <1>2

LEMMA UploadSteps ==
    ASSUME TypeOK, RunInv, NEW p \in Invocations,
           (\E i \in Items : Upload(p, i)) \/ WaitForServer(p)
    PROVE  \E r \in Run : /\ Moves(p, r) /\ RunOK(r) /\ r.pc = "upload" /\ r.answer = None
                          /\ sent' = sent \cup {[from |-> p, item |-> r.item, waiting |-> TRUE]}
<1> DEFINE b == run[p]
<1>0. b \in Run /\ RunOK(b)
  BY OwnRecord
<1>1. CASE \E i \in Items : Upload(p, i)
  <2>0. PICK i \in Items : Upload(p, i)
    BY <1>1
  <2> DEFINE r == [b EXCEPT !.pc = "upload", !.item = i, !.queue = @ \ {i}, !.tries = 0]
  <2>1. /\ run' = [run EXCEPT ![p] = r] /\ b.pc = "drain" /\ i \in b.queue
        /\ sent' = sent \cup {[from |-> p, item |-> i, waiting |-> TRUE]}
    BY <2>0 DEF Upload, Set
  <2> HIDE DEF b
  <2>2. r \in Run
    BY <1>0 DEF Run, Pc
  <2>3. RunOK(r)
    <3>1. WorkOK(r)
      BY <1>0, <2>1 DEF Run, RunOK, WorkOK, Early
    <3>2. ServerOK(r)
      BY <1>0, <2>1 DEF Run, RunOK, ServerOK, None
    <3>3. Accounted(r)
      <4>1. b.item = None /\ None \notin b.final
        BY <1>0, <2>1, OutboxAssumption DEF Run, RunOK, ServerOK
      <4> QED
        BY <1>0, <2>1, <4>1 DEF Run, RunOK, Accounted
    <3> QED
      BY <3>1, <3>2, <3>3 DEF RunOK
  <2>4. r.pc = "upload" /\ r.overrun = b.overrun /\ r.answer = None /\ r.item = i
    BY <1>0, <2>1 DEF Run, RunOK, ServerOK
  <2> HIDE DEF r
  <2> QED
    BY <1>0, <2>1, <2>2, <2>3, <2>4 DEF Moves, b
<1>2. CASE WaitForServer(p)
  <2> DEFINE r == [b EXCEPT !.answer = None, !.tries = @ + 1]
  <2>1. /\ run' = [run EXCEPT ![p] = r] /\ b.pc = "upload"
        /\ sent' = sent \cup {[from |-> p, item |-> b.item, waiting |-> TRUE]}
    BY <1>2 DEF WaitForServer, Set
  <2> HIDE DEF b
  <2>2. r \in Run
    <3>1. b.tries + 1 \in Nat
      BY <1>0 DEF Run
    <3> QED
      BY <1>0, <3>1 DEF Run
  <2>3. RunOK(r)
    BY <1>0, <2>1 DEF Run, RunOK, WorkOK, ServerOK, Accounted, Early, None
  <2>4. r.pc = "upload" /\ r.overrun = b.overrun /\ r.answer = None /\ r.item = b.item
    BY <1>0, <2>1 DEF Run
  <2> HIDE DEF r
  <2> QED
    BY <1>0, <2>1, <2>2, <2>3, <2>4 DEF Moves, b
<1> QED
  BY <1>1, <1>2

LEMMA BackSteps ==
    ASSUME TypeOK, RunInv, NEW p \in Invocations, Refused(p) \/ GiveUp(p) \/ TimeOut(p)
    PROVE  \E r \in Run : Moves(p, r) /\ RunOK(r)
<1> DEFINE b == run[p]
           f == [Back(b) EXCEPT !.failed = TRUE]
           t == [Back(b) EXCEPT !.transient = TRUE]
<1>0. b \in Run /\ RunOK(b) /\ b.pc = "upload"
  BY OwnRecord DEF Refused, GiveUp, TimeOut
<1>1. run' = [run EXCEPT ![p] = f] \/ run' = [run EXCEPT ![p] = t]
  BY DEF Refused, GiveUp, TimeOut, Set
<1> HIDE DEF b
<1>2. f \in Run /\ RunOK(f) /\ t \in Run /\ RunOK(t)
  BY <1>0, BackOK
<1>3. f.pc = "drain" /\ f.overrun = b.overrun /\ t.pc = "drain" /\ t.overrun = b.overrun
  BY <1>0 DEF Back, Run
<1> HIDE DEF f, t
<1> QED
  BY <1>0, <1>1, <1>2, <1>3 DEF Moves, b

LEMMA DrainDoneStep ==
    ASSUME TypeOK, RunInv, NEW p \in Invocations, DrainDone(p)
    PROVE  \E r \in Run : Moves(p, r) /\ RunOK(r)
<1> DEFINE b == run[p]
           next == [first |-> "discover", each |-> "collect", last |-> "settle"]
           r == [b EXCEPT !.pc = next[b.phase], !.gone = IF b.phase = "last" THEN @ ELSE {},
                          !.failed = IF b.phase = "first" THEN FALSE ELSE @]
<1>0. b \in Run /\ RunOK(b) /\ b.pc = "drain" /\ b.queue = {} /\ run' = [run EXCEPT ![p] = r]
  BY OwnRecord DEF DrainDone, Drained, Set
<1> HIDE DEF b
<1>1. CASE b.phase = "first"
  <2> DEFINE s == [b EXCEPT !.pc = "discover", !.gone = {}, !.failed = FALSE]
  <2>1. r = s
    BY <1>0, <1>1 DEF Run
  <2>2. s \in Run
    BY <1>0 DEF Run, Pc
  <2>3. RunOK(s) /\ s.pc = "discover" /\ s.overrun = b.overrun
    BY <1>0, <1>1 DEF Run, RunOK, WorkOK, ServerOK, Accounted, Early
  <2> HIDE DEF r, s
  <2> QED
    BY <1>0, <2>1, <2>2, <2>3 DEF Moves, b
<1>2. CASE b.phase = "each"
  <2> DEFINE s == [b EXCEPT !.pc = "collect", !.gone = {}, !.failed = @]
  <2>1. r = s
    BY <1>0, <1>2 DEF Run
  <2>2. s \in Run
    BY <1>0 DEF Run, Pc
  <2>3. RunOK(s) /\ s.pc = "collect" /\ s.overrun = b.overrun
    BY <1>0, <1>2 DEF Run, RunOK, WorkOK, ServerOK, Accounted, Early
  <2> HIDE DEF r, s
  <2> QED
    BY <1>0, <2>1, <2>2, <2>3 DEF Moves, b
<1>3. CASE b.phase = "last"
  <2> DEFINE s == [b EXCEPT !.pc = "settle", !.gone = @, !.failed = @]
  <2>1. r = s
    BY <1>0, <1>3 DEF Run
  <2>2. s \in Run
    BY <1>0 DEF Run, Pc
  <2>3. RunOK(s) /\ s.pc = "settle" /\ s.overrun = b.overrun
    BY <1>0, <1>3 DEF Run, RunOK, WorkOK, ServerOK, Accounted, Early
  <2> HIDE DEF r, s
  <2> QED
    BY <1>0, <2>1, <2>2, <2>3 DEF Moves, b
<1> QED
  BY <1>0, <1>1, <1>2, <1>3 DEF Run

LEMMA DiscoverySteps ==
    ASSUME TypeOK, RunInv, NEW p \in Invocations, Discover(p) \/ DiscoveryFails(p)
    PROVE  /\ \E r \in Run : Moves(p, r) /\ RunOK(r)'
           /\ governed' \in Nat /\ governed' >= governed
<1> DEFINE b == run[p]
<1>0. b \in Run /\ RunOK(b) /\ b.pc = "discover" /\ cache \ past \in SUBSET Instructions
  BY OwnRecord DEF Discover, DiscoveryFails, TypeOK
<1>1. CASE Discover(p)
  <2> DEFINE c == ObsoleteBefore
             v == Visible
             r == [b EXCEPT !.pc = "prune", !.found = v, !.below = c]
  <2>1. /\ run' = [run EXCEPT ![p] = r]
        /\ governed' = IF c > governed THEN c ELSE governed
        /\ UNCHANGED stored
    BY <1>1 DEF Discover, Set, serverVars
  <2>2. c \in Nat /\ v \in SUBSET Instructions /\ governed \in Nat
    BY ObsoleteBeforeIsCutoff DEF Visible, TypeOK
  <2>3. governed' \in Nat /\ governed' >= governed /\ c <= governed'
    BY <2>1, <2>2
  <2> HIDE DEF b, c, v
  <2>4. r \in Run
    BY <1>0, <2>2 DEF Run, Pc
  <2>5. PICK s \in Run : s = r
    BY <2>4
  <2>6. RunOK(s)' /\ s.pc = "prune" /\ s.overrun = b.overrun
    BY <1>0, <2>1, <2>2, <2>3, <2>5 DEF Run, RunOK, WorkOK, ServerOK, Accounted, Early
  <2> HIDE DEF r
  <2> QED
    BY <1>0, <2>1, <2>3, <2>5, <2>6 DEF Moves, b
<1>2. CASE DiscoveryFails(p)
  <2> DEFINE r == [b EXCEPT !.pc = "prune", !.found = cache \ past, !.transient = TRUE]
  <2>1. run' = [run EXCEPT ![p] = r] /\ UNCHANGED <<stored, governed>>
    BY <1>2 DEF DiscoveryFails, Set, serverVars
  <2> HIDE DEF b
  <2>4. r \in Run
    BY <1>0 DEF Run, Pc
  <2>5. PICK s \in Run : s = r
    BY <2>4
  <2>6. RunOK(s)' /\ s.pc = "prune" /\ s.overrun = b.overrun
    BY <1>0, <2>1, <2>5 DEF Run, RunOK, WorkOK, ServerOK, Accounted, Early
  <2>7. governed' \in Nat /\ governed' >= governed
    BY <2>1 DEF TypeOK
  <2>8. Moves(p, s)
    BY <1>0, <2>1, <2>5, <2>6 DEF Moves, b
  <2> QED
    BY <2>5, <2>6, <2>7, <2>8
<1> QED
  BY <1>1, <1>2

\* The observations that are not spooled.
LEMMA WorkSteps ==
    ASSUME TypeOK, RunInv, NEW p \in Invocations, NEW i \in Items,
           NotCollected(p, i) \/ ProviderFails(p, i) \/ Defer(p, i) \/ SkipExpired(p, i)
    PROVE  \E r \in Run : Moves(p, r) /\ RunOK(r)
<1> DEFINE b == run[p]
           w == b.work \ {i}
           v == b.work \ ItemsOf({InstructionOf[i]})
           s == [b EXCEPT !.work = w]
           u == [b EXCEPT !.work = v]
           f == [b EXCEPT !.work = w, !.failed = TRUE]
           t == [b EXCEPT !.work = w, !.transient = TRUE]
<1>0. b \in Run /\ RunOK(b) /\ b.pc = "collect"
  BY OwnRecord DEF NotCollected, ProviderFails, Defer, SkipExpired, Executes, NextWork
<1>1. \E r \in {s, u, f, t} : run' = [run EXCEPT ![p] = r]
  BY DEF NotCollected, ProviderFails, Defer, SkipExpired, Set
<1>2. w \subseteq b.work /\ v \subseteq b.work
  OBVIOUS
<1> HIDE DEF b, w, v
<1>3. s \in Run /\ u \in Run /\ f \in Run /\ t \in Run
  BY <1>0, <1>2 DEF Run
<1>4. /\ RunOK(s) /\ s.pc = "collect" /\ s.overrun = b.overrun
      /\ RunOK(u) /\ u.pc = "collect" /\ u.overrun = b.overrun
  BY <1>0, <1>2 DEF Run, RunOK, WorkOK, ServerOK, Accounted, Early
<1>5. /\ RunOK(f) /\ f.pc = "collect" /\ f.overrun = b.overrun
      /\ RunOK(t) /\ t.pc = "collect" /\ t.overrun = b.overrun
  BY <1>0, <1>2 DEF Run, RunOK, WorkOK, ServerOK, Accounted, Early
<1> HIDE DEF s, u, f, t
<1> QED
  BY <1>0, <1>1, <1>3, <1>4, <1>5 DEF Moves, b

LEMMA CollectedStep ==
    ASSUME TypeOK, RunInv, NEW p \in Invocations, Collected(p)
    PROVE  \E r \in Run : Moves(p, r) /\ RunOK(r)
<1> DEFINE b == run[p]
<1>0. b \in Run /\ RunOK(b) /\ b.pc = "collect" /\ outbox \in SUBSET Items
  BY OwnRecord DEF Collected, TypeOK
<1>1. CASE b.token
  <2> DEFINE r == Draining(b, "last")
  <2>1. run' = [run EXCEPT ![p] = r]
    BY <1>1 DEF Collected, Set
  <2> HIDE DEF b
  <2>2. r \in Run /\ RunOK(r)
    BY <1>0, <1>1, DrainingOK
  <2>3. r.pc = "drain" /\ r.overrun = b.overrun
    BY <1>0 DEF Draining, Run
  <2> HIDE DEF r
  <2> QED
    BY <1>0, <2>1, <2>2, <2>3 DEF Moves, b
<1>2. CASE ~b.token
  <2> DEFINE r == [b EXCEPT !.pc = "settle", !.final = outbox]
  <2>1. run' = [run EXCEPT ![p] = r]
    BY <1>2 DEF Collected, Set
  <2> HIDE DEF b
  <2>2. r \in Run
    BY <1>0 DEF Run, Pc
  <2>3. RunOK(r) /\ r.pc = "settle" /\ r.overrun = b.overrun
    BY <1>0, <1>2 DEF Run, RunOK, WorkOK, ServerOK, Accounted, Early
  <2> HIDE DEF r
  <2> QED
    BY <1>0, <2>1, <2>2, <2>3 DEF Moves, b
<1> QED
  BY <1>1, <1>2

\* What a step leaves of the invariant on runs it does not touch.
LEMMA Untouched ==
    ASSUME TypeOK, RunInv, NEW q \in Invocations, run'[q] = run[q],
           stored \subseteq stored', governed' \in Nat, governed' >= governed
    PROVE  run'[q] \in Run /\ RunOK(run[q])'
<1>1. run[q] \in Run /\ RunOK(run[q]) /\ governed \in Nat
  BY OwnRecord DEF TypeOK
<1>2. WorkOK(run[q])' /\ Accounted(run[q])'
  BY <1>1 DEF RunOK, WorkOK, Accounted, Early
<1>3. ServerOK(run[q])'
  BY <1>1 DEF RunOK, ServerOK, Run
<1> QED
  BY <1>1, <1>2, <1>3 DEF RunOK

LEMMA OneRun ==
    ASSUME TypeOK, RunInv, NEW p \in Invocations, NEW r \in Run, RunOK(r)',
           run' = [run EXCEPT ![p] = r],
           stored \subseteq stored', governed' \in Nat, governed' >= governed
    PROVE  run' \in [Invocations -> Run] /\ RunInv'
<1>1. run' \in [Invocations -> Run] /\ run'[p] = r
  BY DEF TypeOK
<1>2. ASSUME NEW q \in Invocations PROVE RunOK(run[q])'
  <2>1. CASE q = p
    <3>1. RunOK(r)' = RunOK(run[p])'
      BY <1>1
    <3> QED
      BY <2>1, <3>1
  <2>2. CASE q # p
    <3>1. run'[q] = run[q]
      BY <2>2 DEF TypeOK
    <3> QED
      BY <3>1, Untouched
  <2> QED
    BY <2>1, <2>2
<1> QED
  BY <1>1, <1>2 DEF RunInv

\* The record of every run after rows were deleted.
LEMMA DeleteRecords ==
    ASSUME TypeOK, NEW G \in SUBSET Items, NEW next \in [Invocations -> Run], Delete(G, next)
    PROVE  \A q \in Invocations : \E S \in SUBSET Items :
              /\ run'[q] = [next[q] EXCEPT !.gone = @ \cup S]
              /\ G \cap next[q].final \subseteq S
<1> SUFFICES ASSUME NEW q \in Invocations
             PROVE  \E S \in SUBSET Items :
                       /\ run'[q] = [next[q] EXCEPT !.gone = @ \cup S]
                       /\ G \cap next[q].final \subseteq S
  OBVIOUS
<1> DEFINE S == G \cap (next[q].queue \cup {next[q].item} \cup next[q].final)
<1>1. run'[q] = [next[q] EXCEPT !.gone = @ \cup S]
  BY DEF Delete
<1>2. S \in SUBSET Items /\ G \cap next[q].final \subseteq S
  OBVIOUS
<1> HIDE DEF S
<1> QED
  BY <1>1, <1>2

\* Runs, with the rows of another deleted from what they have read.
LEMMA GoneElsewhere ==
    ASSUME TypeOK, RunInv, NEW q \in Invocations, NEW S \in SUBSET Items,
           run'[q] = [run[q] EXCEPT !.gone = @ \cup S],
           UNCHANGED <<stored, governed>>
    PROVE  /\ run'[q] \in Run /\ RunOK(run[q])'
           /\ run'[q].pc = run[q].pc /\ run'[q].overrun = run[q].overrun
           /\ run'[q].item = run[q].item /\ run'[q].answer = run[q].answer
<1>0. run[q] \in Run /\ RunOK(run[q])
  BY OwnRecord
<1>1. PICK b \in Run : b = run[q] /\ RunOK(b)
  BY <1>0
<1>2. PICK r \in Run : r = [b EXCEPT !.gone = @ \cup S] /\ RunOK(r)
  BY <1>1, GoneOK
<1>3. run'[q] = r
  BY <1>1, <1>2
<1>4. RunOK(r)'
  BY <1>2 DEF RunOK, WorkOK, ServerOK, Accounted, Early
<1>5. RunOK(r)' = RunOK(run[q])'
  BY <1>3
<1>6. r.pc = b.pc /\ r.overrun = b.overrun /\ r.item = b.item /\ r.answer = b.answer
  BY <1>2 DEF Run
<1> QED
  BY <1>1, <1>3, <1>4, <1>5, <1>6

\* Pruning: rows of older cutoffs go, and the work of the run is known.
LEMMA PruneStep ==
    ASSUME TypeOK, RunInv, NEW p \in Invocations, Prune(p)
    PROVE  /\ run' \in [Invocations -> Run] /\ RunInv'
           /\ \A q \in Invocations :
                 /\ run'[q].pc = "idle" <=> run[q].pc = "idle"
                 /\ run'[q].overrun = run[q].overrun
                 /\ q # p => /\ run'[q].pc = run[q].pc /\ run'[q].item = run[q].item
                             /\ run'[q].answer = run[q].answer
           /\ outbox' \in SUBSET Items /\ aged' \subseteq outbox'
           /\ \A i \in outbox \ outbox' : CutoffFor(i) < governed
<1> DEFINE b == run[p]
           G == Obsolete(b.below)
           t == b.transient \/ (b.late /\ b.below = 0)
           r == [b EXCEPT !.pc = "collect", !.work = ItemsOf(b.found), !.late = FALSE, !.below = 0,
                          !.transient = t]
           next == [run EXCEPT ![p] = r]
<1>0. b \in Run /\ RunOK(b) /\ b.pc = "prune"
  BY OwnRecord DEF Prune
<1>1. Delete(G, next) /\ UNCHANGED <<stored, governed>>
  BY DEF Prune, serverVars
<1>2. G \in SUBSET Items /\ ItemsOf(b.found) \in SUBSET Items
  BY DEF Obsolete, ItemsOf, TypeOK
<1>3. r \in Run /\ RunOK(r) /\ r.pc = "collect" /\ r.overrun = b.overrun
  <2>1. CASE t
    <3> DEFINE s == [b EXCEPT !.pc = "collect", !.work = ItemsOf(b.found), !.late = FALSE,
                              !.below = 0, !.transient = TRUE]
    <3>1. r = s
      BY <2>1
    <3> HIDE DEF b, t
    <3>2. s \in Run
      BY <1>0, <1>2 DEF Run, Pc
    <3>3. RunOK(s) /\ s.pc = "collect" /\ s.overrun = b.overrun
      BY <1>0 DEF Run, RunOK, WorkOK, ServerOK, Accounted, Early, ItemsOf, TypeOK
    <3> QED
      BY <3>1, <3>2, <3>3
  <2>2. CASE ~t
    <3> DEFINE s == [b EXCEPT !.pc = "collect", !.work = ItemsOf(b.found), !.late = FALSE,
                              !.below = 0, !.transient = FALSE]
    <3>1. r = s /\ ~b.transient
      BY <2>2
    <3> HIDE DEF b, t
    <3>2. s \in Run
      BY <1>0, <1>2 DEF Run, Pc
    <3>3. RunOK(s) /\ s.pc = "collect" /\ s.overrun = b.overrun
      BY <1>0, <3>1 DEF Run, RunOK, WorkOK, ServerOK, Accounted, Early, ItemsOf, TypeOK
    <3> QED
      BY <3>1, <3>2, <3>3
  <2> QED
    BY <2>1, <2>2
<1>4. next \in [Invocations -> Run] /\ next[p] = r /\ \A q \in Invocations \ {p} : next[q] = run[q]
  <2> HIDE DEF r
  <2> QED
    BY <1>3 DEF TypeOK
<1>5. \A q \in Invocations : \E S \in SUBSET Items : run'[q] = [next[q] EXCEPT !.gone = @ \cup S]
  <2>1. PICK n \in [Invocations -> Run], H \in SUBSET Items : n = next /\ H = G
    BY <1>2, <1>4
  <2>2. Delete(H, n)
    BY <1>1, <2>1
  <2>3. \A q \in Invocations : \E S \in SUBSET Items :
            /\ run'[q] = [n[q] EXCEPT !.gone = @ \cup S]
            /\ H \cap n[q].final \subseteq S
    BY <2>2, DeleteRecords, Zenon
  <2> HIDE DEF next, G
  <2> QED
    BY <2>1, <2>3
<1>6. /\ run'[p] \in Run /\ RunOK(run[p])' /\ run'[p].pc = "collect"
      /\ run'[p].overrun = run[p].overrun
  <2>1. PICK S \in SUBSET Items : run'[p] = [r EXCEPT !.gone = @ \cup S]
    BY <1>4, <1>5
  <2>2. PICK s \in Run : s = r /\ RunOK(s)
    BY <1>3
  <2>3. PICK u \in Run : u = [s EXCEPT !.gone = @ \cup S] /\ RunOK(u)
    BY <2>2, GoneOK
  <2>4. run'[p] = u /\ u.pc = s.pc /\ u.overrun = s.overrun
    <3>1. u.pc = s.pc /\ u.overrun = s.overrun
      BY <2>3 DEF Run
    <3> HIDE DEF r
    <3> QED
      BY <2>1, <2>2, <2>3, <3>1
  <2>5. RunOK(u)'
    BY <1>1, <2>3 DEF RunOK, WorkOK, ServerOK, Accounted, Early
  <2>6. RunOK(u)' = RunOK(run[p])'
    BY <2>4
  <2> HIDE DEF r
  <2> QED
    BY <1>3, <2>2, <2>4, <2>5, <2>6
<1>7. ASSUME NEW q \in Invocations, q # p
      PROVE  /\ run'[q] \in Run /\ RunOK(run[q])' /\ run'[q].pc = run[q].pc
             /\ run'[q].overrun = run[q].overrun /\ run'[q].item = run[q].item
             /\ run'[q].answer = run[q].answer
  <2>1. PICK S \in SUBSET Items : run'[q] = [run[q] EXCEPT !.gone = @ \cup S]
    BY <1>4, <1>5, <1>7
  <2> QED
    BY <1>1, <2>1, GoneElsewhere
<1>8. run' \in [Invocations -> Run] /\ RunInv'
  <2>1. run' = [q \in Invocations |-> run'[q]]
    BY <1>1 DEF Delete
  <2>2. \A q \in Invocations : run'[q] \in Run /\ RunOK(run[q])'
    BY <1>6, <1>7
  <2> QED
    BY <2>1, <2>2 DEF RunInv
<1>9. outbox' \in SUBSET Items /\ aged' \subseteq outbox'
  BY <1>1 DEF Delete, TypeOK
<1>10. ASSUME NEW i \in outbox \ outbox' PROVE CutoffFor(i) < governed
  <2>1. i \in Items /\ CutoffFor(i) < b.below
    BY <1>1, <1>10 DEF Delete, Obsolete, TypeOK
  <2>2. b.below <= governed /\ b.below \in Nat /\ governed \in Nat /\ CutoffFor(i) \in Nat
    BY <1>0, <2>1, OutboxAssumption DEF RunOK, ServerOK, Run, TypeOK, CutoffFor
  <2> QED
    BY <2>1, <2>2
<1> QED
  BY <1>0, <1>6, <1>7, <1>8, <1>9, <1>10

\* Acknowledgement: the row of the envelope the server has stored goes.
LEMMA AcknowledgeStep ==
    ASSUME TypeOK, RunInv, NEW p \in Invocations, Acknowledge(p)
    PROVE  /\ run' \in [Invocations -> Run] /\ RunInv'
           /\ \A q \in Invocations :
                 /\ run'[q].pc = "idle" <=> run[q].pc = "idle"
                 /\ run'[q].overrun = run[q].overrun
                 /\ q # p => /\ run'[q].pc = run[q].pc /\ run'[q].item = run[q].item
                             /\ run'[q].answer = run[q].answer
           /\ outbox' \in SUBSET Items /\ aged' \subseteq outbox'
           /\ \A i \in outbox \ outbox' : i \in stored
<1> DEFINE b == run[p]
           G == {b.item} \ b.gone
           r == Back(b)
           next == [run EXCEPT ![p] = r]
<1>0. b \in Run /\ RunOK(b) /\ b.pc = "upload" /\ b.answer = "receipt"
  BY OwnRecord DEF Acknowledge, Receipted
<1>1. Delete(G, next) /\ UNCHANGED <<stored, governed>>
  BY DEF Acknowledge, serverVars
<1>2. G \in SUBSET Items /\ b.item \in Items /\ b.item \in stored
  BY <1>0 DEF RunOK, WorkOK, ServerOK
<1>3. r \in Run
  <2> HIDE DEF b
  <2> QED
    BY <1>0 DEF Back, Run, Pc
<1>4. next \in [Invocations -> Run] /\ next[p] = r /\ \A q \in Invocations \ {p} : next[q] = run[q]
  <2> HIDE DEF r
  <2> QED
    BY <1>3 DEF TypeOK
<1>5. \A q \in Invocations : \E S \in SUBSET Items :
          /\ run'[q] = [next[q] EXCEPT !.gone = @ \cup S]
          /\ G \cap next[q].final \subseteq S
  <2>1. PICK n \in [Invocations -> Run], H \in SUBSET Items : n = next /\ H = G
    BY <1>2, <1>4
  <2>2. Delete(H, n)
    BY <1>1, <2>1
  <2>3. \A q \in Invocations : \E S \in SUBSET Items :
            /\ run'[q] = [n[q] EXCEPT !.gone = @ \cup S]
            /\ H \cap n[q].final \subseteq S
    BY <2>2, DeleteRecords, Zenon
  <2> HIDE DEF next, G
  <2> QED
    BY <2>1, <2>3
<1>6. /\ run'[p] \in Run /\ RunOK(run[p])' /\ run'[p].pc = "drain"
      /\ run'[p].overrun = run[p].overrun
  <2>1. PICK S \in SUBSET Items : run'[p] = [r EXCEPT !.gone = @ \cup S] /\ G \cap r.final \subseteq S
    BY <1>4, <1>5
  <2>2. PICK c \in Run : c = b /\ RunOK(c)
    BY <1>0
  <2>3. c.pc = "upload" /\ c.item \in Items /\ ({c.item} \ c.gone) \cap c.final \subseteq S
    <3>1. r.final = b.final
      <4> HIDE DEF b
      <4> QED
        BY <1>0 DEF Back, Run
    <3> QED
      BY <1>0, <1>2, <2>1, <2>2, <3>1
  <2> DEFINE u == [Back(c) EXCEPT !.gone = @ \cup S]
  <2>4. u \in Run /\ u.pc = "drain" /\ u.overrun = c.overrun
    BY <2>2 DEF Back, Run, Pc
  <2>5. WorkOK(u)
    BY <2>2, <2>3 DEF Back, Run, RunOK, WorkOK, Early
  <2>6. ServerOK(u)'
    BY <1>1, <2>2, <2>3 DEF Back, Run, RunOK, ServerOK, None
  <2>7. Accounted(u)
    BY <2>2, <2>3 DEF Back, Run, RunOK, Accounted
  <2>8. run'[p] = u
    BY <2>1, <2>2
  <2>9. RunOK(u)' = RunOK(run[p])'
    BY <2>8
  <2>10. RunOK(u)'
    BY <2>5, <2>6, <2>7 DEF RunOK, WorkOK, Accounted, Early
  <2> HIDE DEF u
  <2> QED
    BY <2>2, <2>4, <2>8, <2>9, <2>10
<1>7. ASSUME NEW q \in Invocations, q # p
      PROVE  /\ run'[q] \in Run /\ RunOK(run[q])' /\ run'[q].pc = run[q].pc
             /\ run'[q].overrun = run[q].overrun /\ run'[q].item = run[q].item
             /\ run'[q].answer = run[q].answer
  <2>1. PICK S \in SUBSET Items : run'[q] = [run[q] EXCEPT !.gone = @ \cup S]
    BY <1>4, <1>5, <1>7
  <2> QED
    BY <1>1, <2>1, GoneElsewhere
<1>8. run' \in [Invocations -> Run] /\ RunInv'
  <2>1. run' = [q \in Invocations |-> run'[q]]
    BY <1>1 DEF Delete
  <2>2. \A q \in Invocations : run'[q] \in Run /\ RunOK(run[q])'
    BY <1>6, <1>7
  <2> QED
    BY <2>1, <2>2 DEF RunInv
<1>9. outbox' \in SUBSET Items /\ aged' \subseteq outbox'
  BY <1>1 DEF Delete, TypeOK
<1>10. \A i \in outbox \ outbox' : i \in stored
  BY <1>1, <1>2 DEF Delete
<1> QED
  BY <1>0, <1>6, <1>7, <1>8, <1>9, <1>10

\* A spooled observation, and the drain that follows it.
LEMMA CollectStep ==
    ASSUME TypeOK, RunInv, NEW p \in Invocations, NEW i \in Items, Collect(p, i)
    PROVE  /\ \E r \in Run : Moves(p, r) /\ RunOK(r)
           /\ outbox \subseteq outbox' /\ outbox' \in SUBSET Items /\ aged' \subseteq outbox'
<1> DEFINE b == run[p]
           w == b.work \ {i}
           c == [b EXCEPT !.work = w]
           rows == Enqueued(i)
<1>0. b \in Run /\ RunOK(b) /\ b.pc = "collect" /\ w \in SUBSET b.work
  BY OwnRecord DEF Collect, Executes, NextWork
<1>1. outbox \subseteq rows /\ rows \in SUBSET Items /\ outbox' = rows /\ aged' = aged \cap rows
  BY DEF Collect, Enqueued, TypeOK
<1>2. c \in Run /\ RunOK(c) /\ c.token = b.token /\ c.pc = "collect" /\ c.overrun = b.overrun
  <2> HIDE DEF b, w
  <2>1. c \in Run
    BY <1>0 DEF Run
  <2> QED
    BY <1>0, <2>1 DEF Run, RunOK, WorkOK, ServerOK, Accounted, Early
<1>3. CASE ~c.token
  <2> DEFINE r == [c EXCEPT !.transient = TRUE]
  <2>1. run' = [run EXCEPT ![p] = r]
    BY <1>3 DEF Collect, Set
  <2> HIDE DEF c
  <2>2. r \in Run /\ RunOK(r) /\ r.pc = "collect" /\ r.overrun = c.overrun
    BY <1>2 DEF Run, RunOK, WorkOK, ServerOK, Accounted, Early
  <2> HIDE DEF r
  <2> QED
    BY <1>0, <1>1, <1>2, <2>1, <2>2 DEF Moves
<1>4. CASE c.token
  <2> DEFINE q == rows \ aged
             e == [Draining(c, "each") EXCEPT !.queue = q]
  <2>1. run' = [run EXCEPT ![p] = e]
    BY <1>4 DEF Collect, Set
  <2>2. q \in SUBSET Items
    BY <1>1
  <2> HIDE DEF c, q
  <2>3. \E r \in Run : e = r /\ RunOK(r) /\ r.pc = "drain" /\ r.overrun = c.overrun
    <3>1. CASE aged = {}
      <4> DEFINE r == [c EXCEPT !.pc = "drain", !.phase = "each", !.queue = q, !.gone = {},
                                !.final = @, !.failed = @, !.late = FALSE]
      <4>1. e = r
        BY <1>2, <3>1 DEF Draining, Run
      <4>2. r \in Run
        BY <1>2, <2>2 DEF Run, Pc
      <4>3. RunOK(r) /\ r.pc = "drain" /\ r.overrun = c.overrun
        BY <1>2, <1>4 DEF Run, RunOK, WorkOK, ServerOK, Accounted, Early
      <4> HIDE DEF r, e
      <4> QED
        BY <4>1, <4>2, <4>3
    <3>2. CASE aged # {}
      <4> DEFINE r == [c EXCEPT !.pc = "drain", !.phase = "each", !.queue = q, !.gone = {},
                                !.final = @, !.failed = TRUE, !.late = FALSE]
      <4>1. e = r
        BY <1>2, <3>2 DEF Draining, Run
      <4>2. r \in Run
        BY <1>2, <2>2 DEF Run, Pc
      <4>3. RunOK(r) /\ r.pc = "drain" /\ r.overrun = c.overrun
        BY <1>2, <1>4 DEF Run, RunOK, WorkOK, ServerOK, Accounted, Early
      <4> HIDE DEF r, e
      <4> QED
        BY <4>1, <4>2, <4>3
    <3> QED
      BY <3>1, <3>2
  <2> HIDE DEF e
  <2> QED
    BY <1>0, <1>1, <1>2, <2>1, <2>3 DEF Moves
<1> QED
  BY <1>3, <1>4

-----------------------------------------------------------------------------
(***************************************************************************)
(* The steps of the server.                                                *)
(***************************************************************************)

ServerStep(m) == AcceptUpload(m) \/ ReplayUpload(m) \/ RefuseUpload(m) \/ BusyUpload(m)

\* What the server stores and which receipt it gives.
LEMMA ServerFacts ==
    ASSUME TypeOK, NEW m \in sent, ServerStep(m)
    PROVE  /\ stored \subseteq stored' /\ stored' \in SUBSET Items /\ receipts' \in SUBSET Items
           /\ status' \in [Instructions -> {"unissued", "active", "superseded", "succeeded"}]
           /\ UNCHANGED <<past, localVars, governed, mishaps>>
           /\ sent' = sent \ {m}
           /\ \E a \in {"receipt", "refused", "busy"} :
                 /\ run' = IF m.waiting THEN [run EXCEPT ![m.from].answer = a] ELSE run
                 /\ a = "receipt" => m.item \in stored'
<1>0. m.item \in Items /\ m.from \in Invocations
  BY DEF TypeOK
<1>1. CASE AcceptUpload(m)
  <2>1. stored' = stored \cup {m.item} /\ receipts' = receipts \cup {m.item}
    BY <1>1 DEF AcceptUpload, Store!Accept
  <2>2. status' \in [Instructions -> {"unissued", "active", "superseded", "succeeded"}]
    BY <1>1 DEF AcceptUpload, TypeOK
  <2>3. /\ sent' = sent \ {m} /\ UNCHANGED <<past, localVars, governed, mishaps>>
        /\ run' = IF m.waiting THEN [run EXCEPT ![m.from].answer = "receipt"] ELSE run
    BY <1>1 DEF AcceptUpload, Answer
  <2> QED
    BY <1>0, <2>1, <2>2, <2>3 DEF TypeOK
<1>2. CASE ReplayUpload(m)
  <2>1. stored' = stored /\ receipts' = receipts \cup {m.item} /\ m.item \in stored
    BY <1>2 DEF ReplayUpload, Store!Replay
  <2>2. /\ sent' = sent \ {m} /\ UNCHANGED <<status, past, localVars, governed, mishaps>>
        /\ run' = IF m.waiting THEN [run EXCEPT ![m.from].answer = "receipt"] ELSE run
    BY <1>2 DEF ReplayUpload, Answer
  <2> QED
    BY <1>0, <2>1, <2>2 DEF TypeOK
<1>3. CASE RefuseUpload(m)
  <2>1. /\ sent' = sent \ {m}
        /\ UNCHANGED <<status, past, stored, receipts, localVars, governed, mishaps>>
        /\ run' = IF m.waiting THEN [run EXCEPT ![m.from].answer = "refused"] ELSE run
    BY <1>3 DEF RefuseUpload, Answer
  <2> QED
    BY <1>0, <2>1 DEF TypeOK
<1>4. CASE BusyUpload(m)
  <2>1. /\ sent' = sent \ {m}
        /\ UNCHANGED <<status, past, stored, receipts, localVars, governed, mishaps>>
        /\ run' = IF m.waiting THEN [run EXCEPT ![m.from].answer = "busy"] ELSE run
    BY <1>4 DEF BusyUpload, Answer
  <2> QED
    BY <1>0, <2>1 DEF TypeOK
<1> QED
  BY <1>1, <1>2, <1>3, <1>4 DEF ServerStep

\* An answer reaches the run that waits for this very request.
LEMMA AnswerArrives ==
    ASSUME TypeOK, RunInv, SentInv, NEW m \in sent, ServerStep(m)
    PROVE  /\ run' \in [Invocations -> Run] /\ RunInv' /\ SentInv'
           /\ \A q \in Invocations : run'[q].pc = run[q].pc /\ run'[q].overrun = run[q].overrun
<1>0. m.item \in Items /\ m.from \in Invocations /\ governed \in Nat
  BY DEF TypeOK
<1>1. CASE ~m.waiting
  <2>1. run' = run /\ sent' \subseteq sent /\ stored \subseteq stored' /\ governed' = governed
    BY <1>1, ServerFacts
  <2>2. \A q \in Invocations : run'[q] \in Run /\ RunOK(run[q])'
    BY <1>0, <2>1, Untouched
  <2>3. SentInv'
    BY <2>1 DEF SentInv
  <2> QED
    BY <2>1, <2>2, <2>3 DEF RunInv, TypeOK
<1>2. CASE m.waiting
  <2> DEFINE p == m.from
  <2>1. PICK a \in {"receipt", "refused", "busy"} :
            run' = [run EXCEPT ![p].answer = a] /\ (a = "receipt" => m.item \in stored')
    BY <1>2, ServerFacts
  <2>2. sent' = sent \ {m} /\ stored \subseteq stored' /\ governed' = governed
    BY ServerFacts
  <2>3. PICK b \in Run : b = run[p] /\ RunOK(b) /\ b.pc = "upload" /\ b.item = m.item
    BY <1>0, <1>2, OwnRecord DEF SentInv
  <2> DEFINE r == [b EXCEPT !.answer = a]
  <2>4. r \in Run /\ r.pc = b.pc /\ r.overrun = b.overrun
    BY <2>3 DEF Run
  <2>5. run' = [run EXCEPT ![p] = r]
    BY <1>0, <2>1, <2>3 DEF TypeOK
  <2>6. RunOK(r)'
    <3>1. WorkOK(r) /\ Accounted(r)
      BY <2>3 DEF Run, RunOK, WorkOK, Accounted, Early
    <3>2. ServerOK(r)'
      BY <2>1, <2>2, <2>3 DEF Run, RunOK, ServerOK
    <3> QED
      BY <3>1, <3>2 DEF RunOK, WorkOK, Accounted, Early
  <2> HIDE DEF r
  <2>7. run' \in [Invocations -> Run] /\ RunInv'
    <3>1. governed' \in Nat /\ governed' >= governed
      BY <1>0, <2>2
    <3> QED
      BY <1>0, <2>2, <2>4, <2>5, <2>6, <3>1, OneRun, Zenon
  <2>8. run'[p] = r /\ \A q \in Invocations : q # p => run'[q] = run[q]
    BY <1>0, <2>5 DEF TypeOK
  <2>9. SentInv'
    <3> SUFFICES ASSUME NEW n \in sent', n.waiting
                 PROVE  run'[n.from].pc = "upload" /\ run'[n.from].item = n.item
                           /\ run'[n.from].answer = None
      BY DEF SentInv
    <3>1. /\ n \in sent /\ n # m /\ n.from \in Invocations
          /\ run[n.from].item = n.item /\ run[n.from].pc = "upload" /\ run[n.from].answer = None
      BY <2>2 DEF SentInv, TypeOK
    <3>2. n.from # p
      <4>1. n \in [from : Invocations, item : Items, waiting : BOOLEAN]
        BY <3>1 DEF TypeOK
      <4>2. m \in [from : Invocations, item : Items, waiting : BOOLEAN]
        BY DEF TypeOK
      <4>3. n.from = p => n.item = m.item
        BY <2>3, <3>1
      <4> QED
        BY <1>2, <3>1, <4>1, <4>2, <4>3
    <3> QED
      BY <2>8, <3>1, <3>2
  <2>10. \A q \in Invocations : run'[q].pc = run[q].pc /\ run'[q].overrun = run[q].overrun
    BY <2>3, <2>4, <2>8
  <2> QED
    BY <2>7, <2>9, <2>10
<1> QED
  BY <1>1, <1>2

-----------------------------------------------------------------------------
(***************************************************************************)
(* Every step preserves the invariant.                                     *)
(***************************************************************************)

\* The conjuncts of TypeOK that do not speak of runs.
TableTypes ==
    /\ status \in [Instructions -> {"unissued", "active", "superseded", "succeeded"}]
    /\ past \subseteq Instructions
    /\ stored \subseteq Items /\ receipts \subseteq Items
    /\ outbox \subseteq Items /\ aged \subseteq outbox
    /\ cache \subseteq Instructions
    /\ lease \in [owner : Invocations \cup {None, "lost"}, live : BOOLEAN]
    /\ sent \subseteq [from : Invocations, item : Items, waiting : BOOLEAN]
    /\ governed \in Nat /\ mishaps \in 0 .. MaxMishaps

LEMMA TypeParts ==
    /\ TypeOK => TableTypes
    /\ TableTypes /\ run \in [Invocations -> Run] /\ RunInv => TypeOK
    /\ TableTypes' /\ run' \in [Invocations -> Run] /\ RunInv' => TypeOK'
BY DEF TypeOK, TableTypes, RunInv, RunOK, WorkOK

\* Steps that end no run, start none and leave the lease alone.
LEMMA LeaseKept ==
    ASSUME LeaseCovers, UNCHANGED lease,
           \A q \in Invocations : /\ run'[q].pc = "idle" <=> run[q].pc = "idle"
                                  /\ run'[q].overrun = run[q].overrun
    PROVE  LeaseCovers'
BY DEF LeaseCovers, Idle

\* A run that waits for nothing may change.
LEMMA SentKept ==
    ASSUME TypeOK, SentInv, NEW p \in Invocations, sent' \subseteq sent,
           run[p].pc # "upload" \/ run[p].answer # None,
           \A q \in Invocations : q # p => /\ run'[q].pc = run[q].pc /\ run'[q].item = run[q].item
                                          /\ run'[q].answer = run[q].answer
    PROVE  SentInv'
<1> SUFFICES ASSUME NEW n \in sent', n.waiting
             PROVE  run'[n.from].pc = "upload" /\ run'[n.from].item = n.item
                       /\ run'[n.from].answer = None
  BY DEF SentInv
<1>1. /\ n \in sent /\ n.from \in Invocations
      /\ run[n.from].item = n.item /\ run[n.from].pc = "upload" /\ run[n.from].answer = None
  BY DEF SentInv, TypeOK
<1>2. n.from # p
  BY <1>1
<1> QED
  BY <1>1, <1>2

\* The other runs, in a step of one.
LEMMA MovesFacts ==
    ASSUME TypeOK, NEW p \in Invocations, NEW r \in Run, Moves(p, r)
    PROVE  /\ run'[p] = r
           /\ \A q \in Invocations : q # p => run'[q] = run[q]
           /\ \A q \in Invocations : /\ run'[q].pc = "idle" <=> run[q].pc = "idle"
                                     /\ run'[q].overrun = run[q].overrun
<1>1. run'[p] = r /\ \A q \in Invocations : q # p => run'[q] = run[q]
  BY DEF Moves, TypeOK
<1> QED
  BY <1>1 DEF Moves

\* Steps of one run that change only its record.
LEMMA QuietInv ==
    ASSUME IInv, NEW p \in Invocations,
           \/ GetToken(p) \/ NoToken(p) \/ Refused(p) \/ GiveUp(p) \/ DrainDone(p)
           \/ Discover(p) \/ DiscoveryFails(p) \/ Collected(p)
           \/ \E i \in Items : \/ NotCollected(p, i) \/ ProviderFails(p, i)
                               \/ Defer(p, i) \/ SkipExpired(p, i) \/ Collect(p, i)
    PROVE  IInv'
<1> USE DEF IInv
<1>1. /\ stored' = stored /\ sent' = sent /\ lease' = lease /\ governed' \in Nat /\ governed' >= governed
      /\ UNCHANGED <<status, past, receipts, mishaps>>
      /\ run[p].pc # "upload" \/ run[p].answer # None
  <2>1. CASE Discover(p) \/ DiscoveryFails(p)
    BY <2>1, DiscoverySteps DEF Discover, DiscoveryFails, serverVars, localVars
  <2>2. CASE ~(Discover(p) \/ DiscoveryFails(p))
    <3>1. governed \in Nat /\ governed >= governed
      BY DEF TypeOK
    <3> QED
      BY <2>2, <3>1 DEF GetToken, NoToken, Refused, GiveUp, DrainDone, Drained, Collected, NotCollected,
         ProviderFails, Defer, SkipExpired, Collect, Executes, NextWork, serverVars, localVars, None
  <2> QED
    BY <2>1, <2>2
<1>2. \E r \in Run : Moves(p, r) /\ RunOK(r)'
  <2>1. CASE Discover(p) \/ DiscoveryFails(p)
    BY <2>1, DiscoverySteps
  <2>2. CASE ~(Discover(p) \/ DiscoveryFails(p))
    <3>1. PICK r \in Run : Moves(p, r) /\ RunOK(r)
      BY <2>2, TokenSteps, BackSteps, DrainDoneStep, CollectedStep, WorkSteps, CollectStep
    <3>2. governed' = governed
      BY <2>2 DEF GetToken, NoToken, Refused, GiveUp, DrainDone, Collected, NotCollected,
         ProviderFails, Defer, SkipExpired, Collect
    <3>3. RunOK(r)'
      BY <1>1, <3>1, <3>2 DEF RunOK, WorkOK, ServerOK, Accounted, Early
    <3> QED
      BY <3>1, <3>3
  <2> QED
    BY <2>1, <2>2
<1>3. PICK r \in Run : Moves(p, r) /\ RunOK(r)'
  BY <1>2
<1>4. run' \in [Invocations -> Run] /\ RunInv'
  BY <1>1, <1>3, OneRun DEF Moves
<1>5. /\ outbox' \subseteq Items /\ aged' \subseteq outbox' /\ cache' \subseteq Instructions
  <2>1. CASE \E i \in Items : Collect(p, i)
    BY <2>1, CollectStep DEF TypeOK, Collect
  <2>2. CASE Discover(p)
    BY <2>2 DEF Discover, Cached, Visible, TypeOK
  <2>3. CASE UNCHANGED localVars
    BY <2>3 DEF localVars, TypeOK
  <2> QED
    BY <2>1, <2>2, <2>3 DEF GetToken, NoToken, Refused, GiveUp, DrainDone, DiscoveryFails, Collected,
       NotCollected, ProviderFails, Defer, SkipExpired
<1>6. TypeOK'
  <2>1. TableTypes'
    BY <1>1, <1>5 DEF TypeOK, TableTypes
  <2> QED
    BY <1>4, <2>1, TypeParts
<1>7. SentInv'
  BY <1>1, <1>3, MovesFacts, SentKept
<1>8. LeaseCovers'
  BY <1>1, <1>3, MovesFacts, LeaseKept
<1> QED
  BY <1>4, <1>6, <1>7, <1>8

\* Requests of one run: sent, sent again, or given up.
LEMMA RequestInv ==
    ASSUME IInv, NEW p \in Invocations,
           (\E i \in Items : Upload(p, i)) \/ WaitForServer(p) \/ TimeOut(p)
    PROVE  IInv'
<1> USE DEF IInv
<1>1. UNCHANGED <<serverVars, localVars, governed, mishaps>>
  BY DEF Upload, WaitForServer, TimeOut
<1>2. governed' \in Nat /\ governed' >= governed /\ stored \subseteq stored'
  BY <1>1 DEF serverVars, TypeOK
<1>3. PICK r \in Run : Moves(p, r) /\ RunOK(r)
  BY UploadSteps, BackSteps
<1>4. RunOK(r)'
  BY <1>1, <1>3 DEF RunOK, WorkOK, ServerOK, Accounted, Early, serverVars
<1>5. run' \in [Invocations -> Run] /\ RunInv'
  BY <1>2, <1>3, <1>4, OneRun DEF Moves
<1>6. LeaseCovers'
  BY <1>1, <1>3, MovesFacts, LeaseKept DEF localVars
<1>7. sent' \subseteq [from : Invocations, item : Items, waiting : BOOLEAN] /\ SentInv'
  <2>1. CASE (\E i \in Items : Upload(p, i)) \/ WaitForServer(p)
    <3>1. PICK s \in Run : /\ Moves(p, s) /\ RunOK(s) /\ s.pc = "upload" /\ s.answer = None
                           /\ sent' = sent \cup {[from |-> p, item |-> s.item, waiting |-> TRUE]}
      BY <2>1, UploadSteps
    <3>2. s.item \in Items
      BY <3>1 DEF RunOK, WorkOK
    <3>3. run'[p] = s /\ \A q \in Invocations : q # p => run'[q] = run[q]
      BY <3>1, MovesFacts
    <3>4. run[p].pc # "upload" \/ run[p].answer # None
      BY <2>1 DEF Upload, WaitForServer, None
    <3>5. ASSUME NEW n \in sent', n.waiting
          PROVE  run'[n.from].pc = "upload" /\ run'[n.from].item = n.item
                       /\ run'[n.from].answer = None
      <4>1. CASE n \in sent
        <5>1. /\ n.from \in Invocations
              /\ run[n.from].item = n.item /\ run[n.from].pc = "upload" /\ run[n.from].answer = None
          BY <3>5, <4>1 DEF SentInv, TypeOK
        <5> QED
          BY <3>3, <3>4, <5>1
      <4>2. CASE n = [from |-> p, item |-> s.item, waiting |-> TRUE]
        BY <3>1, <3>3, <4>2
      <4> QED
        BY <3>1, <4>1, <4>2
    <3>6. sent' \subseteq [from : Invocations, item : Items, waiting : BOOLEAN]
      <4>1. sent \subseteq [from : Invocations, item : Items, waiting : BOOLEAN]
        BY DEF TypeOK
      <4>2. [from |-> p, item |-> s.item, waiting |-> TRUE]
                \in [from : Invocations, item : Items, waiting : BOOLEAN]
        BY <3>2
      <4> QED
        BY <3>1, <4>1, <4>2, Zenon
    <3> QED
      BY <3>5, <3>6 DEF SentInv
  <2>2. CASE TimeOut(p)
    <3> DEFINE mine == {m \in sent : m.from = p /\ m.waiting}
    <3>1. PICK kept \in SUBSET mine :
              sent' = (sent \ mine) \cup {[m EXCEPT !.waiting = FALSE] : m \in kept}
      BY <2>2 DEF TimeOut
    <3>2. ASSUME NEW n \in sent'
          PROVE  /\ n \in [from : Invocations, item : Items, waiting : BOOLEAN]
                 /\ n.waiting => n \in sent /\ n.from # p
      <4>1. CASE n \in sent \ mine
        BY <4>1 DEF TypeOK
      <4>2. ASSUME NEW m \in kept, n = [m EXCEPT !.waiting = FALSE]
            PROVE  n \in [from : Invocations, item : Items, waiting : BOOLEAN] /\ ~n.waiting
        <5>1. m \in [from : Invocations, item : Items, waiting : BOOLEAN]
          BY DEF TypeOK
        <5> QED
          BY <4>2, <5>1
      <4> QED
        BY <3>1, <4>1, <4>2
    <3>3. \A q \in Invocations : q # p => run'[q] = run[q]
      BY <1>3, MovesFacts
    <3> HIDE DEF mine
    <3>4. ASSUME NEW n \in sent', n.waiting
          PROVE  run'[n.from].pc = "upload" /\ run'[n.from].item = n.item
                       /\ run'[n.from].answer = None
      BY <3>2, <3>3, <3>4 DEF SentInv, TypeOK
    <3> QED
      BY <3>2, <3>4 DEF SentInv
  <2> QED
    BY <2>1, <2>2
<1>8. TypeOK'
  <2>1. TableTypes'
    BY <1>1, <1>7 DEF TypeOK, TableTypes, serverVars, localVars
  <2> QED
    BY <1>5, <2>1, TypeParts
<1> QED
  BY <1>5, <1>6, <1>7, <1>8

\* Rows leave the outbox.
LEMMA DeleteInv ==
    ASSUME IInv, NEW p \in Invocations, Acknowledge(p) \/ Prune(p)
    PROVE  IInv'
<1> USE DEF IInv
<1>1. /\ UNCHANGED <<serverVars, cache, lease, sent, governed, mishaps>>
      /\ run[p].pc # "upload" \/ run[p].answer # None
  BY DEF Acknowledge, Receipted, Prune, None
<1>2. /\ run' \in [Invocations -> Run] /\ RunInv'
      /\ \A q \in Invocations :
            /\ run'[q].pc = "idle" <=> run[q].pc = "idle"
            /\ run'[q].overrun = run[q].overrun
            /\ q # p => /\ run'[q].pc = run[q].pc /\ run'[q].item = run[q].item
                        /\ run'[q].answer = run[q].answer
      /\ outbox' \in SUBSET Items /\ aged' \subseteq outbox'
  BY AcknowledgeStep, PruneStep
<1>3. SentInv'
  BY <1>1, <1>2, SentKept
<1>4. LeaseCovers'
  BY <1>1, <1>2, LeaseKept
<1>5. TypeOK'
  <2>1. TableTypes'
    BY <1>1, <1>2 DEF TypeOK, TableTypes, serverVars
  <2> QED
    BY <1>2, <2>1, TypeParts
<1> QED
  BY <1>2, <1>3, <1>4, <1>5

\* A run starts, ends or dies, and its record is fresh or new.
LEMMA LifeInv ==
    ASSUME IInv, NEW p \in Invocations,
           Start(p) \/ CredentialRefused(p) \/ EndRefused(p) \/ Settle(p) \/ Crash(p)
    PROVE  IInv'
<1> USE DEF IInv
<1>1. UNCHANGED <<serverVars, outbox, aged, cache, governed>>
  BY DEF Start, CredentialRefused, EndRefused, Settle, Crash
<1>2. governed' \in Nat /\ governed' >= governed /\ stored \subseteq stored'
  BY <1>1 DEF serverVars, TypeOK
<1> DEFINE s == [Fresh EXCEPT !.pc = "token"]
<1>3. PICK r \in Run : /\ RunOK(r) /\ run' = [run EXCEPT ![p] = r] /\ r.overrun = FALSE
                       /\ r.pc = IF Start(p) THEN "token" ELSE "idle"
  <2>1. Fresh \in Run /\ RunOK(Fresh) /\ Fresh.overrun = FALSE /\ Fresh.pc = "idle"
    BY FreshOK DEF Fresh
  <2>2. s \in Run /\ RunOK(s) /\ s.overrun = FALSE /\ s.pc = "token"
    BY <2>1 DEF Fresh, Run, Pc, RunOK, WorkOK, ServerOK, Accounted, Early, TypeOK
  <2>3. run' = [run EXCEPT ![p] = IF Start(p) THEN s ELSE Fresh]
    BY DEF Start, Idle, CredentialRefused, EndRefused, Drained, Settle, Crash, Exit, Set
  <2> HIDE DEF s
  <2> QED
    BY <2>1, <2>2, <2>3
<1>4. RunOK(r)'
  BY <1>1, <1>3 DEF RunOK, WorkOK, ServerOK, Accounted, Early, serverVars
<1>5. run' \in [Invocations -> Run] /\ RunInv'
  BY <1>2, <1>3, <1>4, OneRun
<1>6. run'[p] = r /\ \A q \in Invocations : q # p => run'[q] = run[q]
  BY <1>3 DEF TypeOK
<1>7. lease' \in [owner : Invocations \cup {None, "lost"}, live : BOOLEAN] /\ mishaps' \in 0 .. MaxMishaps
  <2>0. /\ lease \in [owner : Invocations \cup {None, "lost"}, live : BOOLEAN]
        /\ mishaps \in 0 .. MaxMishaps
    BY DEF TypeOK
  <2>1. CASE Crash(p)
    BY <2>0, <2>1, OutboxAssumption DEF Crash
  <2>2. CASE Start(p)
    BY <2>0, <2>2 DEF Start
  <2>3. CASE CredentialRefused(p) \/ EndRefused(p) \/ Settle(p)
    <3>1. /\ lease' = lease \/ lease' = [owner |-> None, live |-> FALSE]
          /\ mishaps' = mishaps
      BY <2>3 DEF CredentialRefused, EndRefused, Settle, Exit, Released
    <3>2. [owner |-> None, live |-> FALSE] \in [owner : Invocations \cup {None, "lost"}, live : BOOLEAN]
      OBVIOUS
    <3> QED
      BY <2>0, <3>1, <3>2, Zenon
  <2> QED
    BY <2>1, <2>2, <2>3
<1>8. LeaseCovers'
  <2> SUFFICES ASSUME NEW q \in Invocations, run'[q].pc # "idle", ~run'[q].overrun
               PROVE  lease' = [owner |-> q, live |-> TRUE]
    BY DEF LeaseCovers, Idle
  <2>1. CASE q = p
    <3>1. Start(p)
      BY <1>3, <1>6, <2>1
    <3> QED
      BY <2>1, <3>1 DEF Start
  <2>2. CASE q # p
    <3>1. lease = [owner |-> q, live |-> TRUE]
      BY <1>6, <2>2 DEF LeaseCovers, Idle
    <3>2. ~Start(p)
      BY <3>1 DEF Start, LeaseFree
    <3> QED
      BY <2>2, <3>1, <3>2 DEF CredentialRefused, EndRefused, Settle, Exit, Released, Crash
  <2> QED
    BY <2>1, <2>2
<1>9. sent' \subseteq [from : Invocations, item : Items, waiting : BOOLEAN] /\ SentInv'
  <2>1. CASE Crash(p)
    <3>1. sent' = {[m EXCEPT !.waiting = @ /\ m.from # p] : m \in sent}
      BY <2>1 DEF Crash
    <3>2. ASSUME NEW n \in sent'
          PROVE  /\ n \in [from : Invocations, item : Items, waiting : BOOLEAN]
                 /\ n.waiting => n.from # p /\ n \in sent
      <4>1. PICK m \in sent : n = [m EXCEPT !.waiting = @ /\ m.from # p]
        BY <3>1
      <4>2. m \in [from : Invocations, item : Items, waiting : BOOLEAN]
        BY DEF TypeOK
      <4>3. CASE m.waiting /\ m.from # p
        <5>1. n = [m EXCEPT !.waiting = TRUE]
          BY <4>1, <4>3
        <5>2. n = m
          BY <4>2, <4>3, <5>1
        <5> QED
          BY <4>2, <4>3, <5>2
      <4>4. CASE ~(m.waiting /\ m.from # p)
        <5>1. n = [m EXCEPT !.waiting = FALSE]
          BY <4>1, <4>4
        <5> QED
          BY <4>2, <5>1
      <4> QED
        BY <4>3, <4>4
    <3>3. ASSUME NEW n \in sent', n.waiting
          PROVE  run'[n.from].pc = "upload" /\ run'[n.from].item = n.item
                       /\ run'[n.from].answer = None
      BY <1>6, <3>2, <3>3 DEF SentInv, TypeOK
    <3> QED
      BY <3>2, <3>3 DEF SentInv
  <2>2. CASE ~Crash(p)
    <3>1. sent' = sent /\ run[p].pc # "upload"
      BY <2>2 DEF Start, Idle, CredentialRefused, EndRefused, Drained, Settle
    <3> QED
      BY <1>6, <3>1, SentKept DEF TypeOK
  <2> QED
    BY <2>1, <2>2
<1>10. TypeOK'
  <2>1. TableTypes'
    BY <1>1, <1>7, <1>9 DEF TypeOK, TableTypes, serverVars
  <2> QED
    BY <1>5, <2>1, TypeParts
<1> QED
  BY <1>5, <1>8, <1>9, <1>10

\* The server's instructions, the clock, the lease and its expiry.
LEMMA WorldInv ==
    ASSUME IInv,
           \/ \E n \in Instructions : Issue(n) \/ Expire(n)
           \/ LeaseExpires
           \/ \E i \in Items : Age(i)
    PROVE  IInv'
<1> USE DEF IInv
<1>1. run' = run /\ sent' = sent /\ stored' = stored /\ governed' = governed
  BY DEF Issue, Expire, LeaseExpires, Age, serverVars
<1>2. \A q \in Invocations : run'[q] \in Run /\ RunOK(run[q])'
  <2>1. governed' \in Nat /\ governed' >= governed /\ stored \subseteq stored'
    BY <1>1 DEF TypeOK
  <2> QED
    BY <1>1, <2>1, Untouched
<1>3. RunInv' /\ run' \in [Invocations -> Run]
  BY <1>1, <1>2 DEF RunInv, TypeOK
<1>4. SentInv'
  BY <1>1 DEF SentInv
<1>5. LeaseCovers'
  <2>1. CASE lease' = lease
    BY <1>1, <2>1, LeaseKept
  <2>2. CASE LeaseExpires
    <3>1. \A q \in Invocations : lease # [owner |-> q, live |-> TRUE]
      BY <2>2, OutboxAssumption DEF LeaseExpires
    <3> QED
      BY <1>1, <3>1 DEF LeaseCovers, Idle
  <2> QED
    BY <2>1, <2>2 DEF Issue, Expire, Age, localVars
<1>6. TableTypes'
  <2>1. ASSUME NEW n \in Instructions, Issue(n) \/ Expire(n) PROVE TableTypes'
    BY <2>1 DEF Issue, Expire, TypeOK, TableTypes, localVars
  <2>2. CASE LeaseExpires
    <3>1. lease' \in [owner : Invocations \cup {None, "lost"}, live : BOOLEAN]
      BY <2>2 DEF LeaseExpires, TypeOK
    <3> QED
      BY <2>2, <3>1 DEF LeaseExpires, TypeOK, TableTypes, serverVars
  <2>3. ASSUME NEW i \in Items, Age(i) PROVE TableTypes'
    BY <2>3 DEF Age, TypeOK, TableTypes, serverVars
  <2> QED
    BY <2>1, <2>2, <2>3
<1> QED
  BY <1>3, <1>4, <1>5, <1>6, TypeParts

\* A lease runs out under its owner, which is the only run not yet overrun.
LEMMA OverrunInv ==
    ASSUME IInv, NEW p \in Invocations, Overrun(p)
    PROVE  IInv'
<1> USE DEF IInv
<1>1. UNCHANGED <<serverVars, outbox, aged, cache, sent, governed>>
  BY DEF Overrun
<1>2. PICK b \in Run : b = run[p] /\ RunOK(b)
  BY OwnRecord
<1> DEFINE r == [b EXCEPT !.overrun = TRUE]
<1>3. r \in Run /\ run' = [run EXCEPT ![p] = r]
  BY <1>2 DEF Overrun, Run, TypeOK
<1>4. /\ RunOK(r) /\ r.pc = b.pc /\ r.item = b.item /\ r.answer = b.answer /\ r.overrun
  BY <1>2 DEF Run, RunOK, WorkOK, ServerOK, Accounted, Early
<1> HIDE DEF r
<1>5. RunOK(r)'
  BY <1>1, <1>4 DEF RunOK, WorkOK, ServerOK, Accounted, Early, serverVars
<1>6. run' \in [Invocations -> Run] /\ RunInv'
  <2>1. governed' \in Nat /\ governed' >= governed /\ stored \subseteq stored'
    BY <1>1 DEF TypeOK, serverVars
  <2> QED
    BY <1>3, <1>5, <2>1, OneRun, Zenon
<1>7. run'[p] = r /\ \A q \in Invocations : q # p => run'[q] = run[q]
  BY <1>3 DEF TypeOK
<1>8. SentInv'
  BY <1>1, <1>2, <1>4, <1>7 DEF SentInv, TypeOK
<1>9. LeaseCovers'
  BY <1>4, <1>7 DEF LeaseCovers, Overrun, Idle
<1>10. TypeOK'
  <2>1. lease' \in [owner : Invocations \cup {None, "lost"}, live : BOOLEAN] /\ mishaps' \in 0 .. MaxMishaps
    <3>1. /\ lease = [owner |-> p, live |-> TRUE] /\ lease' = [lease EXCEPT !.live = FALSE]
          /\ mishaps < MaxMishaps /\ mishaps' = mishaps + 1
      BY DEF Overrun
    <3>2. lease' = [owner |-> p, live |-> FALSE]
      BY <3>1
    <3>3. mishaps \in 0 .. MaxMishaps
      BY DEF TypeOK
    <3>4. mishaps' \in 0 .. MaxMishaps
      BY <3>1, <3>3, OutboxAssumption
    <3> QED
      BY <3>2, <3>4
  <2>2. TableTypes'
    BY <1>1, <2>1 DEF TypeOK, TableTypes, serverVars
  <2> QED
    BY <1>6, <2>2, TypeParts
<1> QED
  BY <1>6, <1>8, <1>9, <1>10

LEMMA ServerInv ==
    ASSUME IInv, NEW m \in sent, ServerStep(m)
    PROVE  IInv'
<1> USE DEF IInv
<1>1. /\ run' \in [Invocations -> Run] /\ RunInv' /\ SentInv'
      /\ \A q \in Invocations : run'[q].pc = run[q].pc /\ run'[q].overrun = run[q].overrun
  BY AnswerArrives
<1>2. /\ stored' \in SUBSET Items /\ receipts' \in SUBSET Items /\ sent' = sent \ {m}
      /\ status' \in [Instructions -> {"unissued", "active", "superseded", "succeeded"}]
      /\ UNCHANGED <<past, localVars, governed, mishaps>>
  BY ServerFacts
<1>3. LeaseCovers'
  BY <1>1, <1>2, LeaseKept DEF localVars
<1>4. TableTypes'
  BY <1>2 DEF TypeOK, TableTypes, localVars
<1> QED
  BY <1>1, <1>3, <1>4, TypeParts

LEMMA InitInv == Init => IInv
<1> SUFFICES ASSUME Init PROVE IInv
  OBVIOUS
<1>1. TableTypes /\ SentInv /\ LeaseCovers
  BY OutboxAssumption DEF Init, TableTypes, SentInv, LeaseCovers, Idle, Fresh
<1>2. Fresh \in Run /\ RunOK(Fresh)
  BY DEF Init, Fresh, Run, Pc, RunOK, WorkOK, ServerOK, Accounted, Early, None, Instructions
<1>3. run \in [Invocations -> Run] /\ RunInv
  BY <1>2 DEF Init, RunInv
<1> QED
  BY <1>1, <1>3, TypeParts DEF IInv

LEMMA StepInv == IInv /\ [Next]_vars => IInv'
<1> SUFFICES ASSUME IInv, [Next]_vars PROVE IInv'
  OBVIOUS
<1>1. ASSUME NEW p \in Invocations, Working(p) PROVE IInv'
  BY <1>1, QuietInv, RequestInv, DeleteInv, LifeInv DEF Working, Uploading
<1>2. ASSUME NEW m \in sent, ServerStep(m) PROVE IInv'
  BY <1>2, ServerInv
<1>3. ASSUME NEW p \in Invocations, Crash(p) \/ Overrun(p) PROVE IInv'
  BY <1>3, LifeInv, OverrunInv
<1>4. CASE \/ \E n \in Instructions : Issue(n) \/ Expire(n)
           \/ LeaseExpires \/ \E i \in Items : Age(i)
  BY <1>4, WorldInv
<1>5. CASE UNCHANGED vars
  BY <1>5 DEF vars, serverVars, localVars, IInv, TypeOK, RunInv, RunOK, WorkOK, ServerOK, Accounted,
              Early, SentInv, LeaseCovers, Idle
<1> QED
  BY <1>1, <1>2, <1>3, <1>4, <1>5 DEF Next, Server, ServerStep

-----------------------------------------------------------------------------
(***************************************************************************)
(* What holds of every behaviour.                                          *)
(***************************************************************************)

LEMMA AlwaysInv == Spec => []IInv
BY InitInv, StepInv, PTL DEF Spec

\* Every table of the collector and the server keeps its type, an upload has
\* an envelope in hand, and work is only of instructions that were found.
THEOREM TypesHold == Spec => []TypeOK
<1>1. IInv => TypeOK
  BY DEF IInv
<1> QED
  BY <1>1, AlwaysInv, PTL

\* The process lease (acquire_lease, release_lease) keeps a run alone until it
\* outlives the lease, whatever crashes, expires or is released around it.
THEOREM LeaseCovered == Spec => []LeaseCovers
<1>1. IInv => LeaseCovers
  BY DEF IInv
<1> QED
  BY <1>1, AlwaysInv, PTL

\* A run about to exit with 0 has seen every row of its last drain leave the
\* outbox: the disposition of run hides no row from the scheduler.
THEOREM CompleteRunsSent == Spec => []CompleteMeansSent
<1>1. IInv => CompleteMeansSent
  <2> SUFFICES ASSUME IInv, NEW p \in Invocations, run[p].pc = "settle", ExitCode(p) = 0
               PROVE  run[p].final \subseteq run[p].gone
    BY DEF CompleteMeansSent
  <2>1. PICK r \in Run : r = run[p] /\ RunOK(r)
    BY OwnRecord DEF IInv
  <2>2. ~r.transient /\ ~r.failed
    BY <2>1 DEF ExitCode
  <2>3. r.queue = {} /\ r.item = None /\ r.phase = "last"
    BY <2>1, <2>2 DEF RunOK, Accounted, ServerOK
  <2>4. r.final \subseteq r.gone \cup r.queue \cup {r.item}
    BY <2>1, <2>2, <2>3 DEF RunOK, Accounted
  <2>5. r.final \subseteq Items /\ None \notin Items
    BY OutboxAssumption DEF Run
  <2> QED
    BY <2>1, <2>3, <2>4, <2>5
<1> QED
  BY <1>1, AlwaysInv, PTL

\* The steps of a run that neither delete nor add a row.
LEMMA OtherSteps ==
    ASSUME NEW p \in Invocations,
           \/ Start(p) \/ GetToken(p) \/ NoToken(p) \/ CredentialRefused(p)
           \/ \E i \in Items : Upload(p, i)
           \/ Refused(p) \/ WaitForServer(p) \/ GiveUp(p) \/ TimeOut(p)
           \/ EndRefused(p) \/ DrainDone(p) \/ Discover(p) \/ DiscoveryFails(p)
           \/ \E i \in Items : \/ NotCollected(p, i) \/ ProviderFails(p, i)
                               \/ Defer(p, i) \/ SkipExpired(p, i)
           \/ Collected(p) \/ Settle(p) \/ Crash(p) \/ Overrun(p)
    PROVE  UNCHANGED <<stored, receipts, outbox>>
<1>1. CASE Start(p) \/ GetToken(p) \/ NoToken(p) \/ CredentialRefused(p)
  BY <1>1 DEF Start, GetToken, NoToken, CredentialRefused, serverVars, localVars
<1>2. ASSUME NEW i \in Items, Upload(p, i) PROVE UNCHANGED <<stored, receipts, outbox>>
  <2>1. UNCHANGED <<serverVars, localVars>>
    BY <1>2, Zenon DEF Upload
  <2> QED
    BY <2>1, Zenon DEF serverVars, localVars
<1>3. CASE Refused(p) \/ WaitForServer(p) \/ GiveUp(p)
  BY <1>3 DEF Refused, WaitForServer, GiveUp, serverVars, localVars
<1>4. CASE TimeOut(p)
  BY <1>4 DEF TimeOut, serverVars, localVars
<1>5. CASE EndRefused(p) \/ DrainDone(p) \/ Discover(p) \/ DiscoveryFails(p)
  BY <1>5 DEF EndRefused, DrainDone, Discover, DiscoveryFails, serverVars, localVars
<1>6. ASSUME NEW i \in Items,
             NotCollected(p, i) \/ ProviderFails(p, i) \/ Defer(p, i) \/ SkipExpired(p, i)
      PROVE  UNCHANGED <<stored, receipts, outbox>>
  <2>1. UNCHANGED <<serverVars, localVars>>
    BY <1>6, Zenon DEF NotCollected, ProviderFails, Defer, SkipExpired
  <2> QED
    BY <2>1, Zenon DEF serverVars, localVars
<1>7. CASE Collected(p) \/ Settle(p) \/ Crash(p) \/ Overrun(p)
  BY <1>7 DEF Collected, Settle, Crash, Overrun, serverVars, localVars
<1> QED
  BY <1>1, <1>2, <1>3, <1>4, <1>5, <1>6, <1>7

\* "The server receipt, not a local attempt counter, is the deletion boundary"
\* (outbox.py): no step of any run, crash or late answer removes a row the
\* server has neither stored nor governed away.
THEOREM NothingIsLost == Spec => NothingLost
<1>1. ASSUME IInv, [Next]_vars
      PROVE  \A i \in outbox \ outbox' : i \in stored \/ CutoffFor(i) < governed
  <2> USE <1>1 DEF IInv
  <2>1. ASSUME NEW p \in Invocations, Acknowledge(p) \/ Prune(p)
        PROVE  \A i \in outbox \ outbox' : i \in stored \/ CutoffFor(i) < governed
    BY <2>1, AcknowledgeStep, PruneStep
  <2>2. ASSUME NEW p \in Invocations, NEW i \in Items, Collect(p, i)
        PROVE  outbox \subseteq outbox'
    BY <2>2, CollectStep
  <2>3. ASSUME NEW p \in Invocations,
               \/ Working(p) /\ ~(Acknowledge(p) \/ Prune(p) \/ \E i \in Items : Collect(p, i))
               \/ Crash(p) \/ Overrun(p)
        PROVE  outbox' = outbox
    BY <2>3, OtherSteps DEF Working, Uploading
  <2>4. CASE Server
    BY <2>4 DEF Server, AcceptUpload, ReplayUpload, RefuseUpload, BusyUpload, Answer, localVars
  <2>5. CASE \/ \E n \in Instructions : Issue(n) \/ Expire(n)
             \/ LeaseExpires \/ \E i \in Items : Age(i)
    BY <2>5 DEF Issue, Expire, LeaseExpires, Age, localVars
  <2>6. CASE UNCHANGED vars
    BY <2>6 DEF vars, localVars
  <2> QED
    BY <2>1, <2>2, <2>3, <2>4, <2>5, <2>6 DEF Next, Working
<1> QED
  BY <1>1, AlwaysInv, PTL DEF Spec, NothingLost

=============================================================================
