------------------------------ MODULE MCEmails ------------------------------
(* Constants of the Emails runs: two sends.                                 *)
EXTENDS Emails

CONSTANTS s, t
=============================================================================
