--------------------- MODULE ValidationRoundRefinement ---------------------
(***************************************************************************)
(* On a credentialed network a study keeps the promise of BlindRound,      *)
(* however many requests for it there are: the refinement mapping forgets  *)
(* who saw what, the claims, their releases, which request an anchor       *)
(* answers, and who opened the round.                                      *)
(***************************************************************************)
EXTENDS ValidationRound

\* Those who may claim one of the requests.
Eligible == {a \in Agent : \E r \in Request : ValidClaim(a, r)}

\* Enough validators for one of the requests.
SomeQuorum == {q \in SUBSET Agent : \E r \in Request : Cardinality(q) >= r.required}

Promise == INSTANCE BlindRound WITH
    Validator       <- Eligible,
    Quorums         <- SomeQuorum,
    researcherBound <- commitments # {},
    bound           <- Committed(anchors),
    open            <- markers # {},
    shown           <- Committed(attestations),
    resultShown     <- reveals # {}

(***************************************************************************)
(* The round as the code runs it, with stale reads, concurrent commits,    *)
(* rival researchers and more than one PhaseMarker, is a BlindRound: each  *)
(* call is one of its steps or changes nothing of it.                      *)
(***************************************************************************)
KeepsPromise == Promise!RoundSpec
=============================================================================
