----------------------------- MODULE MCWebClient -----------------------------
(* WebClient for TLC, the constants are given in WebClient.cfg.             *)
EXTENDS WebClient
=============================================================================
