---------------------------- MODULE MCExploration ----------------------------
(***************************************************************************)
(* Instances of Exploration for TLC.                                       *)
(***************************************************************************)
EXTENDS Exploration, TLC

\* Issue types: 1 raised in execution, 2 ERR_EXECUTE_DATA_AS_INST,
\* 3 WARN_HALT_IN_SUBROUTINE, 4 ERR_STATE_REACH_STEP_LIMIT,
\* 6 ERR_INCORRECT_OUTPUT, 7 a user-defined type.
DefaultLevel == [ty \in Types |-> IF ty \in {1, 3, 7} THEN "WARNING" ELSE "ERROR"]

StrictLevel == [ty \in Types |-> "ERROR"]

OneOutput == <<6>>

TwoOutputs == <<6, 6>>

OutputAndUser == <<6, 7>>

\* Programs for which a state can leave an entry of finalConstraintSets behind
\* and a state at the same address raise the first issue of another type: the
\* gold program ends in the warm-up, two inputs differ in the output and a third
\* one in what the user-defined type compares.
ReusedAddress ==
    /\ goldHalts
    /\ Cardinality(differ[1]) = 2 /\ Cardinality(differ[2]) = 1
    /\ differ[1] \cap differ[2] = {}

Symmetry == Permutations(Inputs) \cup Permutations(Addrs)

=============================================================================
