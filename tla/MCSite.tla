------------------------------- MODULE MCSite -------------------------------
(***************************************************************************)
(* Site for TLC: the bounds are in the configuration.  A behaviour has two *)
(* logins or two changes.                                                  *)
(***************************************************************************)
EXTENDS Site, TLC

LoginsOrChanges == logins < 2 \/ changes < 2
=============================================================================
