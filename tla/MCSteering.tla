----------------------------- MODULE MCSteering -----------------------------
(***************************************************************************)
(* One lane for TLC: an input m; a direction q from the staged queue, g of *)
(* an agent, which is a turn of its own when it was refused, and h from    *)
(* the composer.                                                           *)
(***************************************************************************)
EXTENDS Steering
CONSTANTS m, q, g, h
=============================================================================
