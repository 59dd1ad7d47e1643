---------------------------- MODULE MCProviders -----------------------------
(* Small instances of Providers for TLC. *)
EXTENDS Providers
=============================================================================
