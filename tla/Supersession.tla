---------------------------- MODULE Supersession ----------------------------
(***************************************************************************)
(* Finalisation, and what may be said of its records afterwards: that one  *)
(* of them supersedes another, concurrent or earlier, attempt.  Records    *)
(* and supersessions carry the time that their author's clock showed.      *)
(*                                                                         *)
(* Reasons are left out.  The index links of a supersession are written    *)
(* with it, and peers accept none but those that lead to it.               *)
(***************************************************************************)
EXTENDS Finalisation

CONSTANTS
    MaxClock,         \* the last reading of a clock (i64 microseconds)
    MaxSupersessions  \* bound

ASSUME SupersessionAssumption ==
    /\ MaxClock \in Nat
    /\ MaxSupersessions \in Nat

Clock == 1 .. MaxClock

VARIABLES
    written,        \* the timestamp of each HarmonyRecord
    supersessions   \* Supersessions, with SupersededBy and Supersedes

supersedingVars == <<vars, written, supersessions>>

Roles == {"Validator", "Researcher"}

SupersedingTypeOK ==
    /\ TypeOK
    /\ written \in [records -> Clock]
    /\ supersessions \subseteq
          [by : Agent, old : records, new : records, role : Roles, at : Clock]

SupersedingInit ==
    /\ Init
    /\ written = [h \in {} |-> 0]
    /\ supersessions = {}

-----------------------------------------------------------------------------
(***************************************************************************)
(* Faulty variants of operators below, no part of the model: what the code *)
(* would be with a check lost or weakened.  Each must break the property   *)
(* it is named for in PROJECT.json.                                        *)
(***************************************************************************)
\* The order of the two records checked with < instead of <=.
NotEarlier(s) == written[s.old] <= written[s.new]

\* Any researcher's request for the study taken for the one behind the records.
AsAnyResearcher(s) == \E r \in Request : r.by = s.by
-----------------------------------------------------------------------------
\* A record is stamped by its writer's clock.
Stamped ==
    \E t \in Clock :
        written' = [h \in records' |-> IF h \in records THEN written[h] ELSE t]

Finalises(action) == action /\ Stamped /\ UNCHANGED supersessions

\* The requests that the attestations of record h answer.
StatedBy(h) == {x.req : x \in h.evidence}

\* A record supersedes only one stamped before it.
Ordered(s) == written[s.old] < written[s.new]

\* The roles an author may make the link in, each checked by every peer: the
\* researcher's with its signed ValidationRequest action.
AsValidator(s)  == s.by \in Participants(s.old) \cup Participants(s.new)
AsResearcher(s) == \E r \in StatedBy(s.old) \cup StatedBy(s.new) : r.by = s.by

HasRole(s) ==
    \/ s.role = "Validator"  /\ AsValidator(s)
    \/ s.role = "Researcher" /\ AsResearcher(s)

CheckSupersession(s) ==
    /\ s.old # s.new
    /\ Ordered(s)
    /\ written[s.new] <= s.at
    /\ HasRole(s)

SupersedeHarmonyRecord(a) ==
    /\ Cardinality(supersessions) < MaxSupersessions
    /\ \E old, new \in records, role \in Roles, t \in Clock :
          LET s == [by |-> a, old |-> old, new |-> new, role |-> role, at |-> t]
          IN  CheckSupersession(s) /\ supersessions' = supersessions \cup {s}
    /\ UNCHANGED <<vars, written>>

SupersedingNext ==
    \/ Finalises(Next)
    \/ \E a \in Agent : SupersedeHarmonyRecord(a)

SupersedingSpec == SupersedingInit /\ [][SupersedingNext]_supersedingVars
-----------------------------------------------------------------------------
(***************************************************************************)
(* There is always a latest attempt: whoever links whichever concurrent    *)
(* records, under whatever clocks, no set of records supersedes itself     *)
(* round in a circle, so a reader that follows the links forward arrives   *)
(* (check_supersession).                                                   *)
(***************************************************************************)
SomeRecordIsLatest ==
    \A attempts \in SUBSET records : attempts # {} =>
        \E h \in attempts : \A s \in supersessions : s.old = h => s.new \notin attempts

(***************************************************************************)
(* Only who was there says which attempt counts: the author of a link      *)
(* attested in the cohort of one of the two records, or made the request   *)
(* that all the attestations of one of them answer.                        *)
(***************************************************************************)
LinkedByItsParties ==
    \A s \in supersessions : \E h \in {s.old, s.new} :
        \/ \E x \in attestations \cap h.evidence : x.by = s.by
        \/ \A x \in h.evidence : x.req.by = s.by
=============================================================================
