-------------------------- MODULE ObservationStore --------------------------
(***************************************************************************)
(* What acceptance of observations promises a collector, whatever lies    *)
(* between them: an observation is stored once for its key and never       *)
(* removed or replaced, and a durable receipt is given only for an         *)
(* envelope whose own payload is stored, when it is stored or when it is   *)
(* sent again.  CollectionIngest implements this specification with its    *)
(* leases, locks and transactions; ResidentialOutbox is the client that    *)
(* relies on it.                                                           *)
(***************************************************************************)

CONSTANTS
    Items,            \* envelopes, each with its payload
    KeyOf             \* the collector and client_observation_id of an envelope

VARIABLES
    stored,           \* envelopes whose payload is in collection_observations
    receipts          \* envelopes a durable receipt was issued for

storeVars == <<stored, receipts>>

Init == stored = {} /\ receipts = {}

Bound(i) == \E j \in stored : KeyOf[j] = KeyOf[i]

\* A new observation and its receipt.
Accept(i) ==
    /\ ~Bound(i)
    /\ stored' = stored \cup {i}
    /\ receipts' = receipts \cup {i}

\* The receipt of an observation that is stored already.
Replay(i) ==
    /\ i \in stored
    /\ receipts' = receipts \cup {i}
    /\ UNCHANGED stored

Next == \E i \in Items : Accept(i) \/ Replay(i)

Spec == Init /\ [][Next]_storeVars

=============================================================================
