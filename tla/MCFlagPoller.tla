---------------------------- MODULE MCFlagPoller ----------------------------
(* Constants of the FlagPoller runs: two clients that share a provider.    *)
EXTENDS FlagPoller

CONSTANTS a, b
=============================================================================
