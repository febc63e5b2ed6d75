---------------------------- MODULE MCFtpSession ----------------------------
(***************************************************************************)
(* Small instances of FtpSession.                                          *)
(***************************************************************************)
EXTENDS FtpSession
=============================================================================
