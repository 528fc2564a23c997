---------------------------- MODULE MC_WebClient ----------------------------
(***************************************************************************)
(* Small instances of WebClient.                                           *)
(***************************************************************************)
EXTENDS WebClient
=============================================================================
