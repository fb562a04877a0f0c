----------------------- MODULE MCPublicationPointers -----------------------
(* Small instances of the publication control plane for TLC. *)
EXTENDS PublicationPointers, TLC

CONSTANTS
    logs,                 \* player_game_logs, the leader
    diet,                 \* player_rebound_types: trailing, from the ledger
    teamSeason, teamL15,  \* the coupled traditional_opponent family
    shots, zones,         \* observed NBA streams
    w1, w2,               \* composition workers
    MaxLogs               \* versions of the leader

\* The leader's versions are bounded apart from those of the other streams, and
\* a stream that starts empty makes as many as one that starts with a version.
StreamQuota == [s \in Streams |->
    CASE s = logs -> MaxLogs
      [] s \in Bound -> MaxVersions
      [] OTHER -> MaxVersions - 1]

\* Two cutoffs in each season, or only one in the earlier one.
AllManifests == Seasons \X Cutoffs
EarlyEnd == {<<1, 1>>, <<2, 1>>, <<2, 2>>}

\* The items whose source a run replaces.
NoItem == {}
FirstItem == {<<1, 1>>}
FirstSeason == {i \in Items : i[1] = 1}

\* Composition workers are interchangeable.
WorkerSymmetry == Permutations({w1, w2})

=============================================================================
