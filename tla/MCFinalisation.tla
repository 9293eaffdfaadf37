--------------------------- MODULE MCFinalisation ---------------------------
(***************************************************************************)
(* Small instances of Finalisation for TLC: three validators, a researcher *)
(* or two, one or two requests for the study.                              *)
(***************************************************************************)
EXTENDS Finalisation, TLC

CONSTANTS rA, rB, v1, v2, v3

Validators  == {v1, v2, v3}
Participants3 == {rA, v1, v2, v3}
RivalResearchers == {rA, rB, v1, v2, v3}
Nobody      == {}
Researcher  == {rA}
TheKey      == {v1}
AnAI        == {v2}

AskThree == {[by |-> rA, at |-> 1, required |-> 3]}
AskTwo   == {[by |-> rA, at |-> 1, required |-> 2]}
\* A later request for the same data that asks for fewer validators.
AskTwoOrOne == AskTwo \cup {[by |-> rB, at |-> 2, required |-> 1]}

\* The second researcher asks later, for as many validators or for fewer.
AnySecondRequest == AskTwoOrOne \cup {[by |-> rB, at |-> 2, required |-> 2]}

SuccessOrUnable  == {"Reproduced", "UnableToAssess"}
OnlySuccess      == {"Reproduced"}

Symmetric == Permutations({v1, v2, v3})
=============================================================================
