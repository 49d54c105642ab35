---------------------------- MODULE MCCFGCenter -----------------------------
(* Small instances of CFGCenter for TLC; the .cfg files give the values.    *)
EXTENDS CFGCenter
=============================================================================
