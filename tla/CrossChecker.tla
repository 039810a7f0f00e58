---------------------------- MODULE CrossChecker ----------------------------
(***************************************************************************)
(* The comparison of a halted test state with a halted gold state.         *)
(*                                                                         *)
(* Models lib/klc3/Verification/CrossChecker.cpp.  A constraint set is the *)
(* set of inputs that satisfy it.  compare goes through a list of pairs of *)
(* expressions (output characters, registers, memory words), grouped by    *)
(* the issue type a mismatch raises and in ascending order of these types. *)
(* CheckList[i] is the type of pair i and differ[i] the set of inputs for  *)
(* which the two expressions of pair i have different values; two outputs  *)
(* of different length are a pair that differs for every input.            *)
(***************************************************************************)
EXTENDS Naturals, Sequences

CONSTANT CheckList    \* sequence of issue types, in ascending order

ASSUME CheckListAssumption ==
    /\ CheckList \in Seq(Nat)
    /\ \A i, j \in DOMAIN CheckList : i < j => CheckList[i] <= CheckList[j]

\* Slip: the expressions may agree.
exprMustEq_may(D, F) == ~ (F \subseteq D)

\* exprMustEq: the two expressions of a pair agree on every input left.
exprMustEq(D, F) == F \cap D = {}

\* finalConstraints after the first i pairs.  A pair that may differ adds the
\* constraint that it does, unless it must differ already.
Narrow(F, differ) ==
    LET after[i \in 0 .. Len(CheckList)] ==
            IF i = 0 THEN F
            ELSE IF exprMustEq(differ[i], after[i - 1]) THEN after[i - 1]
            ELSE after[i - 1] \cap differ[i]
    IN  after

\* The pairs compare finds different.
FailedPairs(F, differ) ==
    {i \in DOMAIN CheckList : ~exprMustEq(differ[i], Narrow(F, differ)[i - 1])}

\* The types compare returns.
FailedTypes(F, differ) == {CheckList[i] : i \in FailedPairs(F, differ)}

\* Slip: a pair that must agree is required to differ as well.
finalConstraints_all(F, differ) ==
    {x \in F : \A i \in DOMAIN CheckList : x \in differ[i]}

\* The constraints compare leaves for the assignment.
finalConstraints(F, differ) ==
    {x \in F : \A i \in FailedPairs(F, differ) : x \in differ[i]}

=============================================================================
