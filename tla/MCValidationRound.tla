------------------------- MODULE MCValidationRound -------------------------
(***************************************************************************)
(* Small instances of ValidationRound for TLC: one researcher, two or      *)
(* three validators of three institutions, one or two requests.            *)
(***************************************************************************)
EXTENDS ValidationRoundRefinement, TLC

CONSTANTS rA, rB, w, v1, v2, v3, instA, instB, instV

\* One request by the researcher rA that asks for two validators.
RequestA == [by |-> rA, at |-> 1, required |-> 2]
\* A second request for the same data, submitted by rB with a later timestamp.
RequestB == [by |-> rB, at |-> 2, required |-> 2]

OneRequest  == {RequestA}
TwoRequests == {RequestA, RequestB}

\* w works where rA does: its claims are refused.
WithColleague   == {rA, w, v1, v2, v3}
TwoValidators   == {rA, v1, v2}
TwoResearchers  == {rA, rB, v1, v2}

FirstValidator == {v1}
OneReclaimer == {rA}
Nobody       == {}

Institutions ==
    (rA :> instA) @@ (w :> instA) @@ (rB :> instB)
      @@ (v1 :> instV) @@ (v2 :> instV) @@ (v3 :> instV)

Symmetric == Permutations({v1, v2, v3})
SymmetricBut1 == Permutations({v2, v3})
=============================================================================
