---------------------------- MODULE MCServerDispatch ----------------------------
(* ServerDispatch for TLC.                                                      *)
EXTENDS ServerDispatch

SyncOnes == {Shutdown}
=============================================================================
