------------------------ MODULE MCLeaderboardCache ------------------------
(* LeaderboardCache on a small instance. *)
EXTENDS LeaderboardCache
=============================================================================
