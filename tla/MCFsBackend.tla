---------------------------- MODULE MCFsBackend -----------------------------
(* Small instances of FsBackend for TLC; the .cfg files give the values.    *)
EXTENDS FsBackend
=============================================================================
