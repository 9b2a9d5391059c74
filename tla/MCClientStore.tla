---------------------------- MODULE MCClientStore ----------------------------
(***************************************************************************)
(* ClientStore for TLC: the bounds are in the configuration.               *)
(***************************************************************************)
EXTENDS ClientStore, TLC
=============================================================================
