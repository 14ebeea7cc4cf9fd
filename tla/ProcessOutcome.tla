--------------------------- MODULE ProcessOutcome ---------------------------
(***************************************************************************)
(* What the supervision of a background job promises its owner.  A teller  *)
(* looks whether the owner was told and tells a moment later.  Only who    *)
(* had looked before the first telling tells again, and of a job run for   *)
(* another machine one looks at a time: its owner is told once.  What is   *)
(* told is the outcome the supervisor recorded, or lost; a first lost only *)
(* of a supervisor that is gone without having recorded one, or whose      *)
(* recorded outcome was mislaid on its way to the owner.                   *)
(***************************************************************************)
EXTENDS Sequences

CONSTANT Tellers

VARIABLES outcome,   \* what the supervisor recorded, "none" before
          alive,     \* the supervisor runs
          single,    \* one teller at a time
          mislaid,   \* the recorded outcome may be out of reach
          looked,    \* the tellers that found the owner untold
          told       \* the verdicts the owner was told
vars == <<outcome, alive, single, mislaid, looked, told>>

Init == /\ outcome = "none" /\ alive = TRUE /\ single \in BOOLEAN
        /\ mislaid = FALSE /\ looked = {} /\ told = <<>>

Record == /\ alive /\ outcome = "none" /\ outcome' = "settled"
          /\ UNCHANGED <<alive, single, mislaid, looked, told>>
Stop == alive /\ alive' = FALSE /\ UNCHANGED <<outcome, single, mislaid, looked, told>>
Look == /\ told = <<>> /\ (single => looked = {})
        /\ \E w \in Tellers \ looked : looked' = looked \union {w}
        /\ UNCHANGED <<outcome, alive, single, mislaid, told>>
Tell == /\ \E w \in looked :
              /\ looked' = looked \ {w}
              /\ \/ outcome # "none" /\ told' = Append(told, outcome)
                 \/ /\ ~alive /\ told' = Append(told, "lost")
                    /\ outcome = "none" \/ mislaid \/ told # <<>>
        /\ UNCHANGED <<outcome, alive, single, mislaid>>
\* Tellers stop or fail; that or another loss may put the outcome out of reach.
GiveUp == /\ looked' \in SUBSET looked
          /\ mislaid' \in {mislaid, outcome # "none"}
          /\ UNCHANGED <<outcome, alive, single, told>>

Spec == Init /\ [][Record \/ Stop \/ Look \/ Tell \/ GiveUp]_vars
=============================================================================
