---------------------------- MODULE MCPullBatch ----------------------------
(* Instances of PullBatch for TLC.                                         *)
EXTENDS PullBatch, TLC

============================================================================
