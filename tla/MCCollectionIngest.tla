------------------------ MODULE MCCollectionIngest ------------------------
(* Small instances of observation ingestion and composition for TLC. *)
EXTENDS CollectionIngest, TLC

CONSTANTS
    nba, railway, vps,    \* collector identities
    h1, h2,               \* request threads of two worker processes
    shots,                \* an NBA stream
    m1, m2, m3,           \* manifests of one cutoff
    e1, e2, e3, e4, e5, e6    \* envelopes

EachAlone == [h \in Handlers |-> h]

\* Envelopes e5 and e6 come from a collector each, the others from nba.
Sender == [i \in Items |-> CASE i = e5 -> railway [] i = e6 -> vps [] OTHER -> nba]

\* The identity lease of nba is granted twice, those of the others once.
Grants == [c \in Collectors |-> IF c = nba THEN 2 ELSE 1]

OneStream == [i \in Items |-> shots]
OwnKey == [i \in Items |-> i]

\* Envelopes e3 and e4 have one client_observation_id and two payloads.
SharedKey == [i \in Items |-> IF i = e4 THEN e3 ELSE i]

\* What is sent for each manifest: two observations of nba, two payloads of nba
\* under one identifier, or one observation of each of two collectors.
InPairs == [i \in Items |-> CASE i \in {e1, e2} -> m1 [] i \in {e3, e4} -> m2 [] OTHER -> m3]
NextManifest == [i \in Items |-> IF i = e2 THEN m2 ELSE m1]

=============================================================================
