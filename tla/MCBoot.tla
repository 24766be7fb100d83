------------------------------- MODULE MCBoot --------------------------------
(* The instance of Boot for TLC. *)
EXTENDS Boot
=============================================================================
