------------------------ MODULE MCResidentialOutbox ------------------------
(* Small instances of the residential collector for TLC. *)
EXTENDS ResidentialOutbox, TLC

CONSTANTS
    p1, p2,               \* invocations
    m1, m2,               \* manifests of an older and a newer cutoff
    b1,                   \* a bootstrap request of the older cutoff
    old, new, roster      \* an envelope of each

OwnInstruction == [i \in Items |-> CASE i = old -> m1 [] i = new -> m2 [] OTHER -> b1]
Cutoffs == [n \in Instructions |-> IF n = m2 THEN 2 ELSE 1]

InvocationSymmetry == Permutations(Invocations)

=============================================================================
