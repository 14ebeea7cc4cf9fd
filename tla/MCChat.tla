------------------------------- MODULE MCChat -------------------------------
(***************************************************************************)
(* One chat for TLC: lane a creates its native thread only with its first  *)
(* input, lane b at once; m and o are messages, n is the notice of an      *)
(* agent.  The configurations choose among them.                           *)
(***************************************************************************)
EXTENDS ChatActor, TLC
CONSTANTS a, b, m, n, o

\* Messages differ in nothing but their names.
Alike == Permutations(Inputs \ Notices)
=============================================================================
