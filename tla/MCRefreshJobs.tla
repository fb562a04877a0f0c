--------------------------- MODULE MCRefreshJobs ---------------------------
(***************************************************************************)
(* Instances of RefreshJobs for TLC: "update" stands for update_database,  *)
(* which partitions its frames, "pbp" for a PBP refresh, which does not.   *)
(***************************************************************************)
EXTENDS RefreshJobs, TLC

MCTables == {"zones", "players"}
MCOneTable == {"zones"}
MCTablesOf == [o \in Operations |-> IF o = "update" THEN Tables ELSE {"zones"}]
MCPartitioning == Operations \cap {"update"}
MCSymmetry == Permutations(Procs)
=============================================================================
