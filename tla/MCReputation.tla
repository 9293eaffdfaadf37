---------------------------- MODULE MCReputation ----------------------------
(***************************************************************************)
(* Small instances of Reputation for TLC: a human and an AI validator, one *)
(* coordinator key, or two agents where the key is not set.                *)
(***************************************************************************)
EXTENDS Reputation, TLC

CONSTANTS c1, c2, human, ai

HumanAndAI == {human, ai}
OnlyHuman  == {human}
OnlyAI     == {ai}
Nobody     == {}
OneCoordinator  == {c1}
TwoCoordinators == {c1, c2}

Symmetric == Permutations({c1, c2})
=============================================================================
