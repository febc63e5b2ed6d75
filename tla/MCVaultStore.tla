---------------------------- MODULE MCVaultStore -----------------------------
(***************************************************************************)
(* A small instance of VaultStore.                                         *)
(***************************************************************************)
EXTENDS VaultStore
=============================================================================
