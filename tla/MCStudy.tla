------------------------------ MODULE MCStudy ------------------------------
(***************************************************************************)
(* A small instance of Study for TLC: one researcher, two validators of    *)
(* which one is given the study as a task twice, and two assessments that  *)
(* differ in the finding and in the work behind it.                        *)
(***************************************************************************)
EXTENDS Study, TLC

CONSTANTS rA, v1, v2, instA, instV

TwoValidators == {rA, v1, v2}
OneRequest    == {[by |-> rA, at |-> 1, required |-> 2]}
Institutions  == (rA :> instA) @@ (v1 :> instV) @@ (v2 :> instV)
FirstValidator  == {v1}
SecondValidator == {v2}
Nobody        == {}

Tasks  == {[by |-> v1, n |-> 1], [by |-> v1, n |-> 2], [by |-> v2, n |-> 1]}
Drafts == {[finding |-> "Reproduced", work |-> "bundle 1", terms |-> NoTerms],
           [finding |-> "FailedToReproduce", work |-> "bundle 2", terms |-> NoTerms]}
=============================================================================
