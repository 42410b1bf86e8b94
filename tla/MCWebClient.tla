----------------------------- MODULE MCWebClient ----------------------------
(* Instantiates WebClient for TLC.                                          *)
EXTENDS WebClient, TLC
=============================================================================
