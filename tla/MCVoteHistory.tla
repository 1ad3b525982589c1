--------------------------- MODULE MCVoteHistory ----------------------------
(***************************************************************************)
(* The instance of VoteHistory for TLC.                                    *)
(***************************************************************************)
EXTENDS MCPollOperator, VoteHistory
=============================================================================
