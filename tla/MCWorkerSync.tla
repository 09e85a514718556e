---------------------------- MODULE MCWorkerSync ----------------------------
(***************************************************************************)
(* Instance of WorkerSync for TLC: every relay block proves one more para  *)
(* header.                                                                 *)
(***************************************************************************)
EXTENDS WorkerSync

RelayParaAt == [n \in 0..MaxRelay |-> n]
=============================================================================
