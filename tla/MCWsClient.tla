----------------------------- MODULE MCWsClient -----------------------------
(***************************************************************************)
(* WsClient for TLC: a few client objects, recycled by the heap.  They are *)
(* interchangeable, which the runs that check safety alone make use of.    *)
(***************************************************************************)
EXTENDS WsClient, TLC

ObjectSymmetry == Permutations(Handles)
=============================================================================
