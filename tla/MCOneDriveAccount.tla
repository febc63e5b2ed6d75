------------------------- MODULE MCOneDriveAccount -------------------------
(***************************************************************************)
(* Small instances of OneDriveAccount.                                     *)
(***************************************************************************)
EXTENDS OneDriveAccount
=============================================================================
