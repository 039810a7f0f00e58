---------------------------- MODULE IssuePackage ----------------------------
(***************************************************************************)
(* Issues and the package that collects them.                              *)
(*                                                                         *)
(* Models include/klc3/Verification/{Issue.h, IssuePackage.h} and          *)
(* lib/klc3/Verification/IssuePackage.cpp.  An issue is a type at a source *)
(* location; the types are numbered as in the enumeration Issue::Type, so  *)
(* that every type raised while the test program runs comes before every   *)
(* type raised by a comparison with the gold program.  Names, descriptions *)
(* and hints of issues are left out.                                       *)
(***************************************************************************)
EXTENDS Naturals

CONSTANTS ExecTypes,      \* types raised by Executor and SubroutineTracker
          FetchError,     \* ERR_EXECUTE_DATA_AS_INST, ERR_EXECUTE_UNINITIALIZED_MEMORY
          HaltInSub,      \* WARN_HALT_IN_SUBROUTINE
          StepLimit,      \* ERR_STATE_REACH_STEP_LIMIT and its likes
          CrossTypes,     \* ERR_INCORRECT_OUTPUT and the user-defined types
          Lines,          \* source lines of user instructions
          Level           \* issueLevel: type -> "ERROR", "WARNING" or "NONE"

RuntimeTypes == ExecTypes \cup {FetchError, HaltInSub, StepLimit}

Types == RuntimeTypes \cup CrossTypes

ASSUME TypeAssumption ==
    /\ Types \subseteq Nat
    /\ \A r \in RuntimeTypes, c \in CrossTypes : r < c
    /\ FetchError \notin ExecTypes
    /\ HaltInSub \notin ExecTypes \cup {FetchError}
    /\ StepLimit \notin ExecTypes \cup {FetchError, HaltInSub}

ASSUME LevelAssumption ==
    /\ Level \in [Types -> {"ERROR", "WARNING", "NONE"}]
    /\ Level[FetchError] = "ERROR"
    /\ Level[StepLimit] = "ERROR"
    /\ \A ty \in CrossTypes : Level[ty] # "NONE"

ASSUME LineAssumption == Lines \subseteq Nat \ {0}

\* The null location, which the order on issues puts before all others.
NullLoc == 0

Issue == [type : Types, location : Lines \cup {NullLoc}]

\* Slip: issues are ordered by type first.
IssueLocationLess_byType(l, r) ==
    \/ l.type < r.type
    \/ l.type = r.type /\ l.location < r.location

\* IssueLocationLess, the order of the map that holds the issues.
IssueLocationLess(l, r) ==
    \/ l.location < r.location
    \/ l.location = r.location /\ l.type < r.type

\* raiseIssue keeps the first detection of an issue that is not switched off.
Accepted(issues, issue) ==
    /\ Level[issue.type] # "NONE"
    /\ issue \notin issues

=============================================================================
