----------------------------- MODULE MCReports -----------------------------
(***************************************************************************)
(* One supervised job for TLC; the configuration gives the bounds.         *)
(***************************************************************************)
EXTENDS ProcessReports
=============================================================================
