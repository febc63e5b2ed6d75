-------------------------- MODULE MCTransferQueue --------------------------
(***************************************************************************)
(* Small instances of TransferQueue.  One file name, so that every two     *)
(* jobs compete for the same destination, and one alternative name "n (1)" *)
(* for the jobs that are renamed.                                          *)
(***************************************************************************)
EXTENDS TransferQueue, TLC
=============================================================================
