---------------------------- MODULE MCDirectory ----------------------------
(***************************************************************************)
(* A credentialed network of a human validator and an AI validator with    *)
(* issuers of their own.  Certificates made out to one validator, or by    *)
(* the wrong issuer, may be handed to another.                             *)
(***************************************************************************)
EXTENDS Directory

CONSTANTS h, m, humanIssuer, aiIssuer, i1

Both          == {h, m}
AnInstitution == {i1}

\* The AI certificate that the institutional issuer made out is not good.
Certificates ==
    {[to |-> h, by |-> humanIssuer, kind |-> "Human", tier |-> "Advanced"],
     [to |-> m, by |-> aiIssuer,    kind |-> "AI",    tier |-> "Standard"],
     [to |-> m, by |-> humanIssuer, kind |-> "AI",    tier |-> "Certified"]}

OverClaimed == {"Certified"}
Readings    == 1..3

\* The AI validator publishes one profile, the human comes back to its own.
OneAndThree == [v \in Both |-> IF v = h THEN 3 ELSE 1]
=============================================================================
