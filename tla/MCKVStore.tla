------------------------------- MODULE MCKVStore -------------------------------
(* Instances of KVStore for TLC: two keys, one of them set by both tasks. *)
EXTENDS KVStore

CONSTANTS v1, v2
=============================================================================
