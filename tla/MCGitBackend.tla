---------------------------- MODULE MCGitBackend ----------------------------
(* Small instances of GitBackend for TLC; the .cfg files give the values.   *)
EXTENDS GitBackend
=============================================================================
