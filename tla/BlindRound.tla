---------------------------- MODULE BlindRound -----------------------------
(***************************************************************************)
(* What a validation round promises, whoever sees what when.  A researcher *)
(* is bound to a result before any validator is bound to an assessment;    *)
(* validators are bound one by one, once each; the round may open when     *)
(* enough of them are bound and stays open; only then does anybody show    *)
(* what they were bound to, and nobody shows anything else or twice.       *)
(***************************************************************************)
CONSTANTS
    Validator, \* those who may be bound to an assessment
    Quorums    \* the sets of them that suffice for the round to open

VARIABLES
    researcherBound, \* the researcher is bound to a result
    bound,           \* the validators bound to an assessment
    open,            \* the round is open
    shown,           \* the validators that have shown their assessment
    resultShown      \* the researcher has shown the result

roundVars == <<researcherBound, bound, open, shown, resultShown>>

RoundInit ==
    /\ ~ researcherBound
    /\ bound = {}
    /\ ~ open
    /\ shown = {}
    /\ ~ resultShown

BindResearcher ==
    /\ ~ researcherBound
    /\ bound = {}
    /\ researcherBound' = TRUE
    /\ UNCHANGED <<bound, open, shown, resultShown>>

\* A validator may still be bound while the round is open: it had not seen it
\* open.
Bind(v) ==
    /\ researcherBound
    /\ v \notin bound
    /\ bound' = bound \cup {v}
    /\ \/ UNCHANGED open
       \/ bound' \in Quorums /\ open' = TRUE
    /\ UNCHANGED <<researcherBound, shown, resultShown>>

Show(v) ==
    /\ open
    /\ v \in bound \ shown
    /\ shown' = shown \cup {v}
    /\ UNCHANGED <<researcherBound, bound, open, resultShown>>

ShowResult ==
    /\ open
    /\ ~ resultShown
    /\ resultShown' = TRUE
    /\ UNCHANGED <<researcherBound, bound, open, shown>>

RoundNext ==
    \/ BindResearcher
    \/ \E v \in Validator : Bind(v)
    \/ \E v \in Validator : Show(v)
    \/ ShowResult

RoundSpec == RoundInit /\ [][RoundNext]_roundVars

\* Once open, everybody bound comes to show what they were bound to.
RoundFairness ==
    /\ \A v \in Validator : WF_roundVars(Show(v))
    /\ WF_roundVars(ShowResult)

FairRoundSpec == RoundSpec /\ RoundFairness
=============================================================================
