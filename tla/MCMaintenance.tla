---------------------------- MODULE MCMaintenance ----------------------------
(* Two requests at once, over a few versions.                                  *)
EXTENDS Maintenance
================================================================================
