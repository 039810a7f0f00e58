----------------------------- MODULE Exploration -----------------------------
(***************************************************************************)
(* The exploration of the test program, main() of tools/klc3/klc3.cpp from *)
(* the initial state to the generation of test cases, with the parts it    *)
(* drives: StateAllocator, State, the searchers, IssuePackage,             *)
(* ExecutionLimitChecker and CrossChecker.                                 *)
(*                                                                         *)
(* A constraint set is the set of inputs that satisfy it, and the solver   *)
(* answers exactly.  The programs are arbitrary: what a step of the test   *)
(* program does (fork, raise issues, halt) is a nondeterministic choice    *)
(* among what Executor::step can do, and the variables goldPath and differ *)
(* fix, for each input, the path of the gold program and where the results *)
(* of the two programs differ.  A State is found at its address, and the   *)
(* address of a released state can be given to a new one.                  *)
(***************************************************************************)
EXTENDS IssuePackage, CrossChecker, FiniteSets, Functions

CONSTANTS Inputs,        \* the inputs allowed by the initial constraints
          Addrs,         \* addresses of states of the test program
          GoldAddrs,     \* addresses of states of the gold program
          None,          \* the null pointer
          MaxStep,       \* -max-lc3-step-count, 0 for no limit
          SearcherType,  \* -searcher
          StopAtReactivation,        \* -pruning-reactivation=stop
          MaxTime, EarlyExitTime,    \* is -max-time / -early-exit-time set?
          Signals,       \* the signals that can arrive: "INT", "ALRM"
          HasGold,       \* is a gold program given?
          GoldFaulty     \* may the gold program itself have issues?

ASSUME ExplorationAssumption ==
    /\ None \notin Addrs \cup GoldAddrs
    /\ GoldAddrs \subseteq Nat
    /\ \A C \in SUBSET Inputs : Cardinality(C) \in Nat   \* finitely many inputs
    /\ Inputs # {} /\ Addrs # {} /\ GoldAddrs # {}
    /\ MaxStep \in Nat
    /\ SearcherType \in {"SimpleFILO", "PrioritizedFILO", "Pruning"}
    /\ StopAtReactivation \in BOOLEAN
    /\ MaxTime \in BOOLEAN /\ EarlyExitTime \in BOOLEAN
    /\ Signals \subseteq {"INT", "ALRM"}
    /\ HasGold \in BOOLEAN /\ GoldFaulty \in BOOLEAN
    /\ \A i \in DOMAIN CheckList : CheckList[i] \in CrossTypes

VARIABLES
    aliveStates,     \* the test states that are allocated
    state,           \* the fields of the test state at each address
    s0, s1,          \* the stacks of PrioritizedFILOSearcher
    postponedStates, \* PruningSearcher::postponedStates
    loopsLeft,       \* PruningSearcher::uncoveredLoops is not empty
    completedStates, \* Searcher::completedStates
    level,           \* currentSearcherLevel
    issues, info,    \* IssuePackage::issues and the IssueInfo of each
    finalSets,       \* finalConstraintSets; {} where there is no entry
    pc,              \* what the loop does next
    result, idx,     \* testStepResult and the position in it
    goldAlive, gold, \* the gold states that are allocated, and their fields
    goldStartup,     \* goldStartupState
    goldStack,       \* the stack of goldSearcher
    goldResult, goldIdx,                 \* goldStepResult
    goldIssues,      \* goldIssuePackage is not empty
    interrupt, alarm,                    \* InterruptReceived, AlarmReceived
    maxTimeUp, earlyTimeUp,              \* what the clock says
    goldPath, differ,                    \* the programs
    seen, halted, released, cut          \* history, see the invariants

testVars == <<aliveStates, state>>
searchVars == <<s0, s1, postponedStates, loopsLeft, completedStates, level>>
issueVars == <<issues, info, finalSets>>
controlVars == <<pc, result, idx>>
goldVars == <<goldAlive, gold, goldStack, goldResult, goldIdx, goldIssues>>
signalVars == <<interrupt, alarm, maxTimeUp, earlyTimeUp>>
programVars == <<goldStartup, goldPath, differ>>
historyVars == <<seen, halted, released, cut>>

vars == <<testVars, searchVars, issueVars, controlVars, goldVars, signalVars,
          programVars, historyVars>>

\* back() and pop_back() of the deques that the searchers use as stacks.
back(s) == s[Len(s)]
pop_back(s) == SubSeq(s, 1, Len(s) - 1)

Status == {"NORMAL", "HALTED", "BROKEN"}

State == [status : Status, constraints : SUBSET Inputs, stepCount : Nat,
          triggerNewIssue : BOOLEAN, coveredNew : BOOLEAN,
          avoidPostpone : BOOLEAN]

GoldState == [status : Status, constraints : SUBSET Inputs,
              triggerNewIssue : BOOLEAN]

\* What a new State holds before the loader's constraints are added.
NewState == [status |-> "NORMAL", constraints |-> Inputs, stepCount |-> 0,
             triggerNewIssue |-> FALSE, coveredNew |-> FALSE,
             avoidPostpone |-> FALSE]

NewGoldState == [status |-> "NORMAL", constraints |-> Inputs,
                 triggerNewIssue |-> FALSE]

\* Slip: the flag triggerNewIssue is copied too.
forkState_copiesFlag(s, C) == [s EXCEPT !.constraints = C]

\* Slip: stepCount is missing from the initializers of the copy constructor.
forkState_forgetsSteps(s, C) == [NewState EXCEPT !.constraints = C]

\* The copy constructor of State: the flags are not copied.
forkState(s, C) == [NewState EXCEPT !.constraints = C,
                                    !.stepCount = s.stepCount]

\* Slip: the step is not counted.
countStep_not(s) == s

\* The step counter of ExecutionLimitChecker.
countStep(s) == [s EXCEPT !.stepCount = @ + 1]

\* What is left to the stepped state, which takes the last of the values.
ownPart(C, owner, s) == {x \in C : owner[x] = s}

\* Slip: the stepped state is constrained first and its copies made afterwards.
forkedFrom_constrained(C, owner, s) == ownPart(C, owner, s)

\* The constraints that a forked state copies: the stepped state is constrained
\* after its copies were made.
forkedFrom(C, owner, s) == C

\* A state is in a vector of states once.
Distinct(q) == \A i, j \in DOMAIN q : q[i] = q[j] => i = j

\* What push_back in a loop over r appends for the elements of P: a set with
\* one element, the sequence of these elements in the order of r.
pushed(r, P) ==
    {[k \in DOMAIN f |-> r[f[k]]] :
       f \in {g \in UNION {[1 .. n -> DOMAIN r] : n \in 0 .. Len(r)} :
               /\ \A k, l \in DOMAIN g : k < l => g[k] < g[l]
               /\ Range(g) = {i \in DOMAIN r : r[i] \in P}}}

\* Slip: the states that issues refer to are released as well.
releasable_always(s) == s.status # "NORMAL"

\* Early release: an ended state that raised no accepted issue.
releasable(s) == s.status # "NORMAL" /\ ~s.triggerNewIssue

\* Slip: reactivation is never stopped.
maxSearcherLevel_always == 1

maxSearcherLevel ==
    IF SearcherType = "Pruning" /\ ~StopAtReactivation THEN 1 ELSE 0

\* The gold program runs to its end in the warm-up when it never forks.
goldHalts == \A x, y \in Inputs : goldPath[x] = goldPath[y]

-----------------------------------------------------------------------------
(***************************************************************************)
(* Before the loop: the warm-up of the gold program and the initial state. *)
(***************************************************************************)
Init ==
    /\ goldPath \in [Inputs -> Inputs]
    /\ \A x \in Inputs : goldPath[goldPath[x]] = goldPath[x]
    /\ HasGold \/ goldHalts
    /\ differ \in [DOMAIN CheckList -> SUBSET Inputs]
    /\ HasGold \/ \A i \in DOMAIN CheckList : differ[i] = {}
    /\ \E a \in Addrs :
         /\ aliveStates = {a}
         /\ s1 = <<a>>
    /\ state = [a \in Addrs |-> NewState]
    /\ s0 = <<>> /\ postponedStates = {} /\ completedStates = {}
    /\ loopsLeft \in (IF SearcherType = "Pruning" THEN BOOLEAN ELSE {FALSE})
    /\ level = 0
    /\ issues = {}
    /\ info = [k \in Issue |-> [s |-> None, gold |-> None]]
    /\ finalSets = [a \in Addrs |-> {}]
    /\ pc = "fetch" /\ result = <<>> /\ idx = 0
    /\ \E g \in GoldAddrs :
         /\ \A h \in GoldAddrs : g <= h
         /\ goldAlive = {g}
         /\ gold = [a \in GoldAddrs |->
                      IF a = g /\ goldHalts
                      THEN [NewGoldState EXCEPT !.status = "HALTED"]
                      ELSE NewGoldState]
         /\ goldStartup = g
    /\ goldStack = <<>> /\ goldResult = <<>> /\ goldIdx = 0
    /\ goldIssues = FALSE
    /\ interrupt = FALSE /\ alarm = FALSE
    /\ maxTimeUp = FALSE /\ earlyTimeUp = FALSE
    /\ seen = [x \in Inputs |-> {}]
    /\ halted = {} /\ released = {} /\ cut = FALSE

-----------------------------------------------------------------------------
(***************************************************************************)
(* Raising issues: State::newStateIssue on the state t for each of the     *)
(* issues in K, with the gold state of the callback.                       *)
(***************************************************************************)
raiseIssues(t, K, g) ==
    LET new == {k \in K : Accepted(issues, k)} IN
    /\ issues' = issues \cup new
    /\ info' = [k \in Issue |-> IF k \in new THEN [s |-> t, gold |-> g]
                                             ELSE info[k]]

\* The state after it raised the issues in K.
raisedState(s, K) ==
    [s EXCEPT !.triggerNewIssue = IF \E k \in K : Accepted(issues, k) THEN TRUE ELSE @,
              !.status = IF \E k \in K : Level[k.type] = "ERROR"
                         THEN "BROKEN" ELSE @]

newStateIssue(t, k) ==
    /\ raiseIssues(t, {k}, None)
    /\ state' = [state EXCEPT ![t] = raisedState(@, {k})]
    /\ seen' = [x \in Inputs |-> IF x \in state[t].constraints
                                 THEN seen[x] \cup {k} ELSE seen[x]]

-----------------------------------------------------------------------------
(***************************************************************************)
(* The head of the loop: fetching a state and raising the level.           *)
(***************************************************************************)
\* Slip: only the stack s1 is looked at.
nothingNormal_s1 == s1 = <<>>

nothingNormal == s0 = <<>> /\ s1 = <<>>

FetchNormal ==
    /\ pc = "fetch"
    /\ \/ /\ s0 # <<>>
          /\ result' = <<back(s0)>> /\ s0' = pop_back(s0) /\ s1' = s1
       \/ /\ s0 = <<>> /\ s1 # <<>>
          /\ result' = <<back(s1)>> /\ s1' = pop_back(s1) /\ s0' = s0
    /\ pc' = "step"
    /\ UNCHANGED <<testVars, postponedStates, loopsLeft, completedStates,
                   level, issueVars, idx, goldVars, signalVars, programVars,
                   historyVars>>

\* PruningSearcher reactivates a postponed state, any of them.
FetchPostponed ==
    /\ pc = "fetch" /\ nothingNormal
    /\ loopsLeft /\ level >= 1
    /\ \E a \in postponedStates :
         /\ result' = <<a>>
         /\ postponedStates' = postponedStates \ {a}
         /\ state' = [state EXCEPT ![a].avoidPostpone = TRUE]
    /\ pc' = "step"
    /\ UNCHANGED <<aliveStates, s0, s1, loopsLeft, completedStates, level,
                   issueVars, idx, goldVars, signalVars, programVars,
                   historyVars>>

FetchNone ==
    /\ pc = "fetch" /\ nothingNormal
    /\ postponedStates = {} \/ ~loopsLeft \/ level < 1
    /\ pc' = "level"
    /\ UNCHANGED <<testVars, searchVars, issueVars, result, idx, goldVars,
                   signalVars, programVars, historyVars>>

NextLevel ==
    /\ pc = "level"
    /\ level' = level + 1
    /\ pc' = IF level' <= maxSearcherLevel THEN "fetch" ELSE "report"
    /\ UNCHANGED <<testVars, s0, s1, postponedStates, loopsLeft,
                   completedStates, issueVars, result, idx, goldVars,
                   signalVars, programVars, historyVars>>

-----------------------------------------------------------------------------
(***************************************************************************)
(* One step of the test program.  Executor::step may raise issues, then    *)
(* splits the constraints of the state among n states, the state itself    *)
(* being the last, and these may raise more issues and halt.  Then         *)
(* CoverageTracker and SubroutineTracker visit the states; the latter may  *)
(* raise issues too.                                                       *)
(***************************************************************************)
RaiseIssue ==
    /\ pc \in {"step", "fetched", "exec"}
    /\ \E t \in Range(result), ty \in ExecTypes, l \in Lines :
         newStateIssue(t, [type |-> ty, location |-> l])
    /\ pc' = IF pc = "step" THEN "fetched" ELSE pc
    /\ UNCHANGED <<aliveStates, searchVars, finalSets, result, idx, goldVars,
                   signalVars, programVars, halted, released, cut>>

\* The inputs of s are distributed: owner says which of the resulting states an
\* input goes to.  All of them but s are forked from s, and only a NORMAL state
\* is forked (the copy constructor asserts it).
distribute(s, owner) ==
    LET C == state[s].constraints
        T == Range(owner)
    IN  /\ s \in T
        /\ T # {s} => state[s].status = "NORMAL"
        /\ \E n \in 1 .. Cardinality(C) : \E t \in [1 .. n -> T] :
             /\ Range(t) = T /\ Distinct(t) /\ t[n] = s
             /\ result' = t
        /\ aliveStates' = aliveStates \cup T
        /\ state' = [a \in Addrs |->
             IF a = s
             THEN countStep([state[s] EXCEPT !.constraints = ownPart(C, owner, s)])
             ELSE IF a \in T
             THEN countStep(forkState(state[s], {x \in forkedFrom(C, owner, s) : owner[x] = a}))
             ELSE state[a]]

Split ==
    /\ pc \in {"step", "fetched"}
    /\ \E owner \in [state[result[1]].constraints ->
                       (Addrs \ aliveStates) \cup {result[1]}] :
         distribute(result[1], owner)
    /\ pc' = "exec"
    /\ UNCHANGED <<searchVars, issueVars, idx, goldVars, signalVars,
                   programVars, historyVars>>

\* fetchInst finds no instruction at the PC.  The issue is located at the last
\* instruction executed, of which there is none at the first step.
FetchFails ==
    /\ pc = "step"
    /\ LET t == result[1] IN
       /\ state[t].status = "NORMAL"
       /\ \E l \in IF state[t].stepCount = 0 THEN {NullLoc} ELSE Lines :
            newStateIssue(t, [type |-> FetchError, location |-> l])
    /\ pc' = "check" /\ idx' = 1
    /\ UNCHANGED <<aliveStates, searchVars, finalSets, result, goldVars,
                   signalVars, programVars, halted, released, cut>>

haltedState(s) == [s EXCEPT !.status = "HALTED"]

\* INSTANT_HALT, or a store that clears the clock bit of the MCR.
Halt ==
    /\ pc = "exec"
    /\ \E t \in Range(result) :
         state' = [state EXCEPT ![t] = haltedState(@)]
    /\ UNCHANGED <<aliveStates, searchVars, issueVars, controlVars, goldVars,
                   signalVars, programVars, historyVars>>

\* The flag of a state that has ended is never read, so it is left alone.
FinishStep ==
    /\ pc = "exec"
    /\ \E T \in SUBSET {t \in Range(result) : state[t].status = "NORMAL"} :
         state' = [a \in Addrs |-> IF a \in T
                                   THEN [state[a] EXCEPT !.coveredNew = TRUE]
                                   ELSE state[a]]
    /\ pc' = "check" /\ idx' = 1
    /\ UNCHANGED <<aliveStates, searchVars, issueVars, result, goldVars,
                   signalVars, programVars, historyVars>>

-----------------------------------------------------------------------------
(***************************************************************************)
(* The checks on each state of the result: ExecutionLimitChecker on a      *)
(* NORMAL state, the comparison with the gold program on a HALTED one.     *)
(***************************************************************************)
Checking == pc = "check" /\ idx <= Len(result)

CheckLimit ==
    /\ Checking
    /\ LET t == result[idx] IN
       /\ state[t].status = "NORMAL"
       /\ IF MaxStep # 0 /\ state[t].stepCount > MaxStep
          THEN newStateIssue(t, [type |-> StepLimit, location |-> NullLoc])
          ELSE UNCHANGED <<issues, info, state, seen>>
    /\ idx' = idx + 1
    /\ UNCHANGED <<aliveStates, searchVars, finalSets, pc, result, goldVars,
                   signalVars, programVars, halted, released, cut>>

CheckBroken ==
    /\ Checking
    /\ state[result[idx]].status = "BROKEN"
    /\ idx' = idx + 1
    /\ UNCHANGED <<testVars, searchVars, issueVars, pc, result, goldVars,
                   signalVars, programVars, historyVars>>

\* postCheckState warns about a state that halts inside a subroutine.
PostCheck ==
    /\ Checking
    /\ LET t == result[idx] IN
       /\ state[t].status = "HALTED"
       /\ \/ \E l \in Lines :
               newStateIssue(t, [type |-> HaltInSub, location |-> l])
          \/ UNCHANGED <<issues, info, state, seen>>
       /\ halted' = halted \cup state[t].constraints
    /\ pc' = "compare"
    /\ UNCHANGED <<aliveStates, searchVars, finalSets, result, idx, goldVars,
                   signalVars, programVars, released, cut>>

NoGold ==
    /\ pc = "compare" /\ ~HasGold
    /\ pc' = "check" /\ idx' = idx + 1
    /\ UNCHANGED <<testVars, searchVars, issueVars, result, goldVars,
                   signalVars, programVars, historyVars>>

\* Slip: an entry that is there already is kept, as emplace would.
recordFinal_emplace(t, F) ==
    IF finalSets[t] = {} THEN [finalSets EXCEPT ![t] = F] ELSE finalSets

recordFinal(t, F) == [finalSets EXCEPT ![t] = F]

\* CrossChecker::compare of the test state t with the gold state g under the
\* constraints F, and the entry made in finalConstraintSets.
compare(g, t, F) ==
    LET K == {[type |-> ty, location |-> NullLoc] : ty \in FailedTypes(F, differ)}
    IN  /\ raiseIssues(t, K, g)
        /\ state' = [state EXCEPT ![t] = raisedState(@, K)]
        /\ gold' = [gold EXCEPT ![g].triggerNewIssue =
                      @ \/ \E k \in K : Accepted(issues, k)]
        /\ finalSets' = IF K = {} THEN finalSets
                        ELSE recordFinal(t, finalConstraints(F, differ))

CompareWithStartup ==
    /\ pc = "compare" /\ HasGold
    /\ gold[goldStartup].status = "HALTED"
    /\ compare(goldStartup, result[idx], state[result[idx]].constraints)
    /\ pc' = "check" /\ idx' = idx + 1
    /\ UNCHANGED <<aliveStates, searchVars, result, goldAlive, goldStack,
                   goldResult, goldIdx, goldIssues, signalVars, programVars,
                   historyVars>>

LaunchGold ==
    /\ pc = "compare" /\ HasGold
    /\ gold[goldStartup].status # "HALTED"
    /\ \E g \in GoldAddrs \ goldAlive :
         /\ \A h \in GoldAddrs \ goldAlive : g <= h
         /\ goldAlive' = goldAlive \cup {g}
         /\ gold' = [gold EXCEPT ![g] = [NewGoldState EXCEPT
                       !.constraints = state[result[idx]].constraints]]
         /\ goldStack' = <<g>>
    /\ pc' = "gold"
    /\ UNCHANGED <<testVars, searchVars, issueVars, result, idx, goldResult,
                   goldIdx, goldIssues, signalVars, programVars, historyVars>>

-----------------------------------------------------------------------------
(***************************************************************************)
(* The search of the gold program on the inputs of the halted test state.  *)
(* A step splits the constraints of a gold state along the paths of the    *)
(* gold program; a state that follows one path to its end halts.  Steps    *)
(* that neither fork nor halt change nothing here.  No code depends on the *)
(* address of a gold state, so a new one gets the lowest free address.     *)
(***************************************************************************)
LowestFree(T) ==
    \A a \in T, g \in GoldAddrs \ (goldAlive \cup T) : a < g

goldDistribute(s, owner) ==
    LET C == gold[s].constraints
        T == Range(owner)
    IN  /\ s \in T
        /\ LowestFree(T \ {s})
        /\ \A x, y \in C : goldPath[x] = goldPath[y] => owner[x] = owner[y]
        /\ \E n \in 1 .. Cardinality(C) : \E t \in [1 .. n -> T] :
             /\ Range(t) = T /\ Distinct(t) /\ t[n] = s
             /\ \A i, j \in 1 .. n - 1 : i < j => t[i] < t[j]
             /\ goldResult' = t
        /\ goldAlive' = goldAlive \cup T
        /\ \E H \in SUBSET T :
             /\ T # {s} \/ H # {}
             /\ \A x, y \in C : owner[x] = owner[y] /\ owner[x] \in H
                                 => goldPath[x] = goldPath[y]
             /\ gold' = [a \in GoldAddrs |->
                  IF a \in T
                  THEN [status |-> IF a \in H THEN "HALTED" ELSE "NORMAL",
                        constraints |-> {x \in C : owner[x] = a},
                        triggerNewIssue |-> IF a = s THEN gold[s].triggerNewIssue
                                                     ELSE FALSE]
                  ELSE gold[a]]

GoldStep ==
    /\ pc = "gold" /\ goldStack # <<>>
    /\ \E owner \in [gold[back(goldStack)].constraints ->
                       (GoldAddrs \ goldAlive) \cup {back(goldStack)}] :
         goldDistribute(back(goldStack), owner)
    /\ goldStack' = pop_back(goldStack)
    /\ pc' = "goldcheck" /\ goldIdx' = 1
    /\ UNCHANGED <<testVars, searchVars, issueVars, result, idx, goldIssues,
                   signalVars, programVars, historyVars>>

\* A step of a faulty gold program raises a warning, or breaks a state.
GoldWarns ==
    /\ GoldFaulty /\ pc = "goldcheck" /\ goldIdx = 1
    /\ \E t \in Range(goldResult) :
         gold' = [gold EXCEPT ![t].triggerNewIssue = TRUE]
    /\ goldIssues' = TRUE
    /\ UNCHANGED <<testVars, searchVars, issueVars, controlVars, goldAlive,
                   goldStack, goldResult, goldIdx, signalVars, programVars,
                   historyVars>>

GoldBreaks ==
    /\ GoldFaulty /\ pc = "goldcheck" /\ goldIdx <= Len(goldResult)
    /\ pc' = "exit"
    /\ UNCHANGED <<testVars, searchVars, issueVars, result, idx, goldVars,
                   signalVars, programVars, historyVars>>

GoldCheck ==
    /\ pc = "goldcheck" /\ goldIdx <= Len(goldResult)
    /\ LET g == goldResult[goldIdx] IN
       IF gold[g].status = "HALTED"
       THEN compare(g, result[idx], gold[g].constraints)
       ELSE UNCHANGED <<issues, info, state, gold, finalSets>>
    /\ goldIdx' = goldIdx + 1
    /\ UNCHANGED <<aliveStates, searchVars, controlVars, goldAlive, goldStack,
                   goldResult, goldIssues, signalVars, programVars,
                   historyVars>>

\* Push the NORMAL gold states and release the halted ones that no issue uses.
GoldPush ==
    /\ pc = "goldcheck" /\ goldIdx > Len(goldResult)
    /\ \E q \in pushed(goldResult, {g \in goldAlive : gold[g].status = "NORMAL"}) :
         goldStack' = goldStack \o q
    /\ LET freed == {g \in Range(goldResult) : gold[g].status = "HALTED"
                                                /\ ~gold[g].triggerNewIssue}
       IN  /\ goldAlive' = goldAlive \ freed
           /\ gold' = [a \in GoldAddrs |-> IF a \in freed THEN NewGoldState
                                                          ELSE gold[a]]
    /\ pc' = "goldpoll" /\ goldResult' = <<>> /\ goldIdx' = 0
    /\ UNCHANGED <<testVars, searchVars, issueVars, result, idx, goldIssues,
                   signalVars, programVars, historyVars>>

\* Slip: the gold search resets AlarmReceived, as the outer loop does.
GoldPoll_resetsAlarm ==
    /\ pc = "goldpoll" \/ (pc = "gold" /\ goldStack # <<>>)
    /\ LET stop == interrupt \/ (alarm /\ MaxTime /\ maxTimeUp) IN
       /\ pc' = IF stop THEN "report" ELSE "gold"
       /\ cut' = (cut \/ stop)
    /\ alarm' = FALSE
    /\ UNCHANGED <<testVars, searchVars, issueVars, result, idx, goldVars,
                   interrupt, maxTimeUp, earlyTimeUp, programVars, seen,
                   halted, released>>

\* The flags are polled after every step, also after one that neither forks nor
\* halts.
GoldPoll ==
    /\ pc = "goldpoll" \/ (pc = "gold" /\ goldStack # <<>>)
    /\ LET stop == interrupt \/ (alarm /\ MaxTime /\ maxTimeUp) IN
       /\ pc' = IF stop THEN "report" ELSE "gold"
       /\ cut' = (cut \/ stop)
    /\ UNCHANGED <<testVars, searchVars, issueVars, result, idx, goldVars,
                   signalVars, programVars, seen, halted, released>>

\* Slip: the package of the test program is looked at.
goldHasIssue_testPackage == issues # {}

goldHasIssue == goldIssues

GoldDone ==
    /\ pc = "gold" /\ goldStack = <<>>
    /\ IF goldHasIssue THEN pc' = "exit" /\ idx' = idx
                     ELSE pc' = "check" /\ idx' = idx + 1
    /\ UNCHANGED <<testVars, searchVars, issueVars, result, goldVars,
                   signalVars, programVars, historyVars>>

-----------------------------------------------------------------------------
\* Slip: a released state stays in completedStates.
completedAfter_notErased(ended, freed) == completedStates \cup ended

completedAfter(ended, freed) == (completedStates \cup ended) \ freed

(***************************************************************************)
(* The end of an iteration: the searcher takes the states, the ended ones  *)
(* that no issue uses are released, and the signal flags are polled.       *)
(***************************************************************************)
normalStates == {t \in Range(result) : state[t].status = "NORMAL"}
endedStates == Range(result) \ normalStates
freedStates == {t \in endedStates : releasable(state[t])}

prioritized == {t \in normalStates : /\ SearcherType # "SimpleFILO"
                                     /\ state[t].coveredNew}

mayPostpone == {t \in normalStates : /\ SearcherType = "Pruning"
                                     /\ ~state[t].coveredNew
                                     /\ ~state[t].avoidPostpone}

\* P are the states to postpone and A those never to be postponed later.
take(P, A) ==
    /\ \E q \in pushed(result, prioritized) : s0' = s0 \o q
    /\ \E q \in pushed(result, (normalStates \ P) \ prioritized) : s1' = s1 \o q
    /\ postponedStates' = postponedStates \cup P
    /\ completedStates' = completedAfter(endedStates, freedStates)
    /\ aliveStates' = aliveStates \ freedStates
    /\ state' = [a \in Addrs |->
         IF a \in freedStates THEN NewState
         ELSE IF a \in A THEN [state[a] EXCEPT !.avoidPostpone = TRUE]
         ELSE state[a]]
    /\ released' = released \cup UNION {state[t].constraints : t \in freedStates}

Push ==
    /\ pc = "check" /\ idx > Len(result)
    /\ \E P \in SUBSET mayPostpone : \E A \in SUBSET (mayPostpone \ P) : take(P, A)
    /\ loopsLeft' \in {loopsLeft, FALSE}
    /\ pc' = "poll" /\ result' = <<>> /\ idx' = 0
    /\ UNCHANGED <<level, issueVars, goldVars, signalVars, programVars,
                   seen, halted, cut>>

Poll ==
    /\ pc = "poll"
    /\ LET timeout == /\ alarm
                      /\ \/ MaxTime /\ maxTimeUp
                         \/ EarlyExitTime /\ earlyTimeUp /\ issues # {}
       IN  /\ pc' = IF interrupt THEN "report"
                    ELSE IF timeout THEN "level" ELSE "fetch"
           /\ cut' = (cut \/ interrupt \/ timeout)
    /\ alarm' = (alarm /\ interrupt)
    /\ UNCHANGED <<testVars, searchVars, issueVars, result, idx, goldVars,
                   interrupt, maxTimeUp, earlyTimeUp, programVars, seen,
                   halted, released>>

-----------------------------------------------------------------------------
(***************************************************************************)
(* The signal handlers, and the clock.                                     *)
(***************************************************************************)
Running == pc \notin {"report", "exit"}

handleInterrupt ==
    /\ Running /\ "INT" \in Signals /\ ~interrupt
    /\ interrupt' = TRUE
    /\ UNCHANGED <<alarm, maxTimeUp, earlyTimeUp>>

handleAlarm ==
    /\ Running /\ "ALRM" \in Signals /\ ~alarm
    /\ alarm' = TRUE
    /\ UNCHANGED <<interrupt, maxTimeUp, earlyTimeUp>>

Clock ==
    /\ Running
    /\ \/ MaxTime /\ ~maxTimeUp /\ maxTimeUp' = TRUE /\ UNCHANGED earlyTimeUp
       \/ EarlyExitTime /\ ~earlyTimeUp /\ earlyTimeUp' = TRUE /\ UNCHANGED maxTimeUp
    /\ UNCHANGED <<interrupt, alarm>>

Environment ==
    /\ handleInterrupt \/ handleAlarm \/ Clock
    /\ UNCHANGED <<testVars, searchVars, issueVars, controlVars, goldVars,
                   programVars, historyVars>>

\* The exploration is over; only the report is left.
Finished ==
    /\ ~Running
    /\ UNCHANGED vars

Loop ==
    \/ FetchNormal \/ FetchPostponed \/ FetchNone \/ NextLevel
    \/ RaiseIssue \/ FetchFails \/ Split \/ Halt \/ FinishStep
    \/ CheckLimit \/ CheckBroken \/ PostCheck
    \/ NoGold \/ CompareWithStartup \/ LaunchGold
    \/ GoldStep \/ GoldWarns \/ GoldBreaks \/ GoldCheck \/ GoldPush
    \/ GoldPoll \/ GoldDone
    \/ Push \/ Poll

Next == Loop \/ Environment \/ Finished

Spec == Init /\ [][Next]_vars

\* main() is one thread that never blocks, and an instruction raises finitely
\* many issues, so the loop keeps moving.  GoldStep stands for the steps up to
\* the next fork or halt: the gold program, which has no step limit, is taken
\* to halt on every input.
Progress ==
    \/ FetchNormal \/ FetchPostponed \/ FetchNone \/ NextLevel
    \/ FetchFails \/ Split \/ FinishStep
    \/ CheckLimit \/ CheckBroken \/ PostCheck
    \/ NoGold \/ CompareWithStartup \/ LaunchGold
    \/ GoldStep \/ GoldCheck \/ GoldPush \/ GoldPoll \/ GoldDone
    \/ Push \/ Poll

FairSpec == Spec /\ WF_vars(Progress)

-----------------------------------------------------------------------------
(***************************************************************************)
(* The test cases: for each state that an issue refers to, the first such  *)
(* issue in the order of the package decides which constraints the         *)
(* variables are induced from, and any solution of them may be taken.      *)
(***************************************************************************)
assignments(s) ==
    LET of == {k \in issues : info[k].s = s}
        first == CHOOSE k \in of :
                   \A l \in of \ {k} : IssueLocationLess(k, l)
    IN  IF first.type \in RuntimeTypes THEN state[s].constraints
                                       ELSE finalSets[s]

-----------------------------------------------------------------------------
(***************************************************************************)
(* Properties.                                                             *)
(***************************************************************************)

\* The types, by the groups of variables.
TestType ==
    /\ aliveStates \subseteq Addrs
    /\ state \in [Addrs -> State]

SearchType ==
    /\ s0 \in Seq(Addrs) /\ s1 \in Seq(Addrs)
    /\ postponedStates \subseteq Addrs /\ completedStates \subseteq Addrs
    /\ loopsLeft \in BOOLEAN
    /\ level \in Nat

PackageType ==
    /\ issues \subseteq Issue
    /\ info \in [Issue -> [s : Addrs \cup {None}, gold : GoldAddrs \cup {None}]]
    /\ finalSets \in [Addrs -> SUBSET Inputs]

ControlType ==
    /\ pc \in {"fetch", "step", "fetched", "exec", "check", "compare", "gold",
               "goldcheck", "goldpoll", "poll", "level", "report", "exit"}
    /\ result \in Seq(Addrs) /\ idx \in Nat

GoldType ==
    /\ goldAlive \subseteq GoldAddrs
    /\ gold \in [GoldAddrs -> GoldState]
    /\ goldStack \in Seq(GoldAddrs) /\ goldResult \in Seq(GoldAddrs)
    /\ goldIdx \in Nat /\ goldIssues \in BOOLEAN

SignalType ==
    /\ interrupt \in BOOLEAN /\ alarm \in BOOLEAN
    /\ maxTimeUp \in BOOLEAN /\ earlyTimeUp \in BOOLEAN

ProgramType ==
    /\ goldStartup \in GoldAddrs
    /\ goldPath \in [Inputs -> Inputs]
    /\ differ \in [DOMAIN CheckList -> SUBSET Inputs]

HistoryType ==
    /\ seen \in [Inputs -> SUBSET Issue]
    /\ halted \subseteq Inputs /\ released \subseteq Inputs
    /\ cut \in BOOLEAN

\* The variables have their types; in particular everything the searchers hold
\* or hand out is the address of a state.
TypeOK == /\ TestType /\ SearchType /\ PackageType /\ ControlType
          /\ GoldType /\ SignalType /\ ProgramType /\ HistoryType

\* Symbolic execution neither loses nor repeats an input: the constraints of
\* the allocated states are satisfiable and pairwise disjoint, and together
\* with the inputs of the states released so far they are all the inputs
\* (forking in Executor, early release in main).
InputSpacePartition ==
    /\ \A a \in aliveStates : /\ state[a].constraints # {}
                              /\ state[a].constraints \cap released = {}
    /\ \A a, b \in aliveStates :
         a # b => state[a].constraints \cap state[b].constraints = {}
    /\ released \cup UNION {state[a].constraints : a \in aliveStates} = Inputs

\* "Make sure no in-use states are released" (klc3.cpp): the test state of
\* every reported issue and the gold state of its description callback are
\* still allocated.
NoDanglingState ==
    \A k \in issues : /\ info[k].s \in aliveStates
                      /\ info[k].gold \in goldAlive \cup {None}

\* Every allocated test state is at exactly one place: on a stack of the
\* searcher, postponed, completed, or in the hands of the current iteration;
\* what can be fetched is NORMAL and what is completed is not.
OnePlacePerState ==
    /\ aliveStates = Range(s0) \cup Range(s1) \cup postponedStates
                       \cup completedStates \cup Range(result)
    /\ Distinct(s0) /\ Distinct(s1) /\ Distinct(result)
    /\ Range(s0) \cap Range(s1) = {}
    /\ postponedStates \cap (Range(s0) \cup Range(s1)) = {}
    /\ completedStates \cap (Range(s0) \cup Range(s1) \cup postponedStates) = {}
    /\ Range(result) \cap (Range(s0) \cup Range(s1) \cup postponedStates
                              \cup completedStates) = {}
    /\ \A a \in Range(s0) \cup Range(s1) \cup postponedStates :
         state[a].status = "NORMAL"
    /\ \A a \in completedStates : state[a].status # "NORMAL"

\* Early release leaks nothing: outside a gold search, the only gold states
\* still allocated are the startup state and those a description callback
\* needs, and the only completed test states are those some issue refers to.
NoLeakedState ==
    /\ completedStates \subseteq {info[k].s : k \in issues}
    /\ pc \in {"fetch", "step", "fetched", "exec", "poll", "level"} =>
         goldAlive = {goldStartup} \cup ({info[k].gold : k \in issues} \ {None})

\* When the search ends by itself, every input has been followed to the end of
\* its path, except those of states that PruningSearcher left postponed.
ExplorationIsExhaustive ==
    pc = "report" /\ ~cut =>
      Inputs = released \cup UNION {state[a].constraints :
                                      a \in completedStates \cup postponedStates}

\* The assertion "Missing final constraints" of main holds: a state with a
\* comparison issue has an entry of its own in finalConstraintSets, not one
\* left over from an earlier state at the same address.
FinalConstraintsPresent ==
    \A k \in issues : k.type \in CrossTypes =>
      LET s == info[k].s IN finalSets[s] # {} /\ finalSets[s] \subseteq state[s].constraints

\* Every solution of the constraints chosen for a test case makes the test
\* program show each issue the test case is reported for.
TestCaseShowsIssue ==
    pc = "report" =>
      \A k \in issues : \A x \in assignments(info[k].s) :
        IF k.type \in RuntimeTypes THEN k \in seen[x]
        ELSE \E i \in DOMAIN CheckList : CheckList[i] = k.type /\ x \in differ[i]

\* The expected output a comparison issue is described with is computed from a
\* gold state whose path the input of the test case follows.
ExpectedOutputIsGolds ==
    pc = "report" =>
      \A k \in issues : k.type \in CrossTypes =>
        assignments(info[k].s) \subseteq gold[info[k].gold].constraints

\* After a search that ended by itself, an issue type has been reported if some
\* input makes the test program halt with a result that differs from the gold
\* program's in one of the things this type compares.
EveryDivergenceReported ==
    pc = "report" /\ ~cut =>
      \A i \in DOMAIN CheckList :
        halted \cap differ[i] # {} =>
          [type |-> CheckList[i], location |-> NullLoc] \in issues

\* Once a time limit has been noticed no further instruction of the test
\* program is executed, and a limit that has passed when an alarm arrives is
\* noticed: only the outer loop resets AlarmReceived, however many gold searches
\* see it before, and it then stops.
TimeLimitStopsExploring ==
    [][/\ cut' => pc' \in {"level", "fetch", "report"}
       /\ alarm /\ ~alarm' => pc = "poll" /\ (MaxTime /\ maxTimeUp => cut')]_vars

\* Whether the step executes an instruction of the state a.
Executes(a) == result = <<a>> /\ pc # "exec" /\ pc' = "exec"

\* What a step does to the counters of the states that have an input.
StepCounted ==
    \A a \in aliveStates, b \in aliveStates' :
      state[a].constraints \cap state'[b].constraints # {} =>
        state'[b].stepCount = state[a].stepCount + IF Executes(a) THEN 1 ELSE 0

\* The counter that the step limit is tested against follows the inputs through
\* forks, reused addresses and searchers: the count of the state that has an
\* input is the number of instructions executed on the path of this input.
StepsFollowInputs == [][StepCounted]_vars

\* An error is terminal: a state that is BROKEN stays so.
ErrorsAreTerminal ==
    [][\A a \in aliveStates \cap aliveStates' :
         state[a].status = "BROKEN" => state'[a].status = "BROKEN"]_vars

\* Only a state that halted normally is compared with the gold program.
OnlyHaltedIsCompared ==
    pc = "compare" => state[result[idx]].status = "HALTED"

\* A gold program that raised an issue is refused: unless it is cut short, a
\* search during which the gold program raised one produces no report.
FaultyGoldRefused == pc = "report" /\ goldIssues => cut

\* With a step limit the exploration comes to an end.
Termination == <>(pc \in {"report", "exit"})

-----------------------------------------------------------------------------
(***************************************************************************)
(* What makes NoDanglingState inductive.                                   *)
(***************************************************************************)

\* The position in the result vectors is inside them, and between two
\* iterations they are empty.
ControlInv ==
    /\ pc \in {"fetch", "poll", "level"} => result = <<>>
    /\ pc \in {"step", "fetched"} => Len(result) = 1
    /\ pc = "exec" => result # <<>>
    /\ pc = "check" => idx \in 1 .. Len(result) + 1
    /\ pc \in {"compare", "gold", "goldcheck", "goldpoll"} => idx \in 1 .. Len(result)
    /\ pc = "goldcheck" => goldIdx \in 1 .. Len(goldResult) + 1

\* The startup state of the gold program is never searched itself.
GoldInv ==
    /\ goldStartup \in goldAlive
    /\ goldStartup \notin Range(goldStack) \cup Range(goldResult)
    /\ Range(goldResult) \subseteq goldAlive

\* What an issue refers to is marked, and so not released.
MarkInv ==
    \A k \in issues :
      /\ info[k].s \in aliveStates /\ state[info[k].s].triggerNewIssue
      /\ info[k].gold # None =>
           info[k].gold \in goldAlive /\ gold[info[k].gold].triggerNewIssue

IInv == ControlInv /\ OnePlacePerState /\ GoldInv /\ MarkInv

=============================================================================
