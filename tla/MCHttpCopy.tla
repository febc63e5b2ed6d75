----------------------------- MODULE MCHttpCopy -----------------------------
(***************************************************************************)
(* A small instance of HttpCopy: one of the two panes shows OneDrive.      *)
(***************************************************************************)
EXTENDS HttpCopy

OneDriveAndWebDav == {<<"webdav", "onedrive">>, <<"onedrive", "webdav">>}
=============================================================================
