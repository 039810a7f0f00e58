---------------------- MODULE ExplorationTypeProofs ----------------------
(***************************************************************************)
(* Type correctness of Exploration, for every set of inputs, addresses,    *)
(* issue types, levels and options.                                        *)
(***************************************************************************)
EXTENDS Exploration, TLAPS

USE DEF testVars, searchVars, issueVars, controlVars, goldVars, signalVars,
        programVars, historyVars

-----------------------------------------------------------------------------
\* Popping a stack of the searchers (fetch).
LEMMA BackPop ==
    ASSUME NEW S, NEW s \in Seq(S), s # <<>>
    PROVE  back(s) \in S /\ pop_back(s) \in Seq(S)
  BY DEF back, pop_back

\* The elements of a vector of states.
LEMMA RangeInSet ==
    ASSUME NEW S, NEW s \in Seq(S)
    PROVE  Range(s) \subseteq S
  BY DEF Range

\* What push appends are elements of the vector pushed.
LEMMA PushedType ==
    ASSUME NEW S, NEW r \in Seq(S), NEW P, NEW q \in pushed(r, P)
    PROVE  q \in Seq(S)
  <1>1. PICK f \in UNION {[1 .. n -> DOMAIN r] : n \in 0 .. Len(r)} :
          q = [k \in DOMAIN f |-> r[f[k]]]
    BY Zenon DEF pushed
  <1>2. PICK n \in 0 .. Len(r) : f \in [1 .. n -> DOMAIN r]
    BY Zenon
  <1>3. \A k \in 1 .. n : r[f[k]] \in S
    BY <1>2
  <1>4. q = [k \in 1 .. n |-> r[f[k]]] /\ n \in Nat
    BY <1>1, <1>2
  <1>5. q \in [1 .. n -> S]
    BY <1>3, <1>4
  <1>6. QED
    BY <1>4, <1>5

\* The number of inputs of a state is a natural number.
LEMMA InputCount ==
    ASSUME NEW C \in SUBSET Inputs
    PROVE  Cardinality(C) \in Nat
  BY ExplorationAssumption

\* The issues that main and its modules raise.
LEMMA IssueType ==
    /\ \A ty \in ExecTypes, l \in Lines : [type |-> ty, location |-> l] \in Issue
    /\ \A l \in Lines \cup {NullLoc} : [type |-> FetchError, location |-> l] \in Issue
    /\ \A l \in Lines : [type |-> HaltInSub, location |-> l] \in Issue
    /\ [type |-> StepLimit, location |-> NullLoc] \in Issue
    /\ \A ty \in CrossTypes : [type |-> ty, location |-> NullLoc] \in Issue
  BY DEF Issue, Types, RuntimeTypes

\* The states that createInitState and fork make.
LEMMA NewStateType ==
    NewState \in State /\ NewGoldState \in GoldState
  BY DEF NewState, NewGoldState, State, GoldState, Status

\* A forked state has the constraints given and the step count of its origin.
LEMMA ForkType ==
    ASSUME NEW s \in State, NEW C \in SUBSET Inputs
    PROVE  /\ forkState(s, C) \in State
           /\ forkState(s, C).constraints = C
           /\ countStep(s) \in State
           /\ countStep(s).constraints = s.constraints
           /\ countStep(s).status = s.status
           /\ countStep(s).triggerNewIssue = s.triggerNewIssue
  <1>1. forkState(s, C) \in State /\ forkState(s, C).constraints = C
    BY NewStateType, ZenonT(60) DEF forkState, State
  <1>2. countStep(s) \in State
    BY DEF countStep, State
  <1>3. /\ countStep(s).constraints = s.constraints
        /\ countStep(s).status = s.status
    BY DEF countStep, State
  <1>4. countStep(s).triggerNewIssue = s.triggerNewIssue
    BY DEF countStep, State
  <1>5. QED
    BY <1>1, <1>2, <1>3, <1>4, Zenon

\* A state that raised issues is a state.
LEMMA RaisedStateType ==
    ASSUME NEW s \in State, NEW K
    PROVE  /\ raisedState(s, K) \in State
           /\ raisedState(s, K).constraints = s.constraints
           /\ s.triggerNewIssue => raisedState(s, K).triggerNewIssue
           /\ (\E k \in K : Accepted(issues, k)) => raisedState(s, K).triggerNewIssue
  <1>. DEFINE accepted == \E k \in K : Accepted(issues, k)
              error == \E k \in K : Level[k.type] = "ERROR"
  <1>1. raisedState(s, K) =
          [s EXCEPT !.triggerNewIssue = IF accepted THEN TRUE ELSE @,
                    !.status = IF error THEN "BROKEN" ELSE @]
    BY DEF raisedState
  <1>. HIDE DEF accepted, error
  <1>2. raisedState(s, K) \in State
    BY <1>1, ZenonT(60) DEF State, Status
  <1>3. raisedState(s, K).constraints = s.constraints
    BY <1>1 DEF State
  <1>4. raisedState(s, K).triggerNewIssue = IF accepted THEN TRUE ELSE s.triggerNewIssue
    BY <1>1 DEF State
  <1>5. QED
    BY <1>2, <1>3, <1>4 DEF accepted

-----------------------------------------------------------------------------
\* What main sets up before the loop has the types.
LEMMA InitType == Init => TypeOK
  <1>. SUFFICES ASSUME Init PROVE TypeOK
    OBVIOUS
  <1>1. state \in [Addrs -> State]
    BY NewStateType DEF Init
  <1>2. PICK g \in GoldAddrs : /\ goldAlive = {g} /\ goldStartup = g
                              /\ gold = [a \in GoldAddrs |->
                                   IF a = g /\ goldHalts
                                   THEN [NewGoldState EXCEPT !.status = "HALTED"]
                                   ELSE NewGoldState]
    BY DEF Init
  <1>3. [NewGoldState EXCEPT !.status = "HALTED"] \in GoldState
    BY NewStateType DEF GoldState, Status
  <1>4. gold \in [GoldAddrs -> GoldState]
    BY <1>2, <1>3, NewStateType
  <1>5. TestType
    BY <1>1 DEF Init, TestType
  <1>6. SearchType
    <2>1. PICK a \in Addrs : s1 = <<a>>
      BY DEF Init
    <2>2. /\ s0 = <<>> /\ postponedStates = {} /\ completedStates = {}
          /\ level = 0 /\ loopsLeft \in BOOLEAN
      BY ZenonT(60) DEF Init
    <2>3. QED
      BY <2>1, <2>2 DEF SearchType
  <1>7. PackageType
    BY DEF Init, PackageType
  <1>8. ControlType
    BY DEF Init, ControlType
  <1>9. GoldType
    <2>1. /\ goldStack = <<>> /\ goldResult = <<>> /\ goldIdx = 0
          /\ goldIssues = FALSE
      BY DEF Init
    <2>2. goldAlive \subseteq GoldAddrs
      BY <1>2
    <2>3. goldStack \in Seq(GoldAddrs) /\ goldResult \in Seq(GoldAddrs) /\ goldIdx \in Nat
      BY <2>1
    <2>4. goldIssues \in BOOLEAN
      BY <2>1, Zenon
    <2>5. QED
      BY <1>4, <2>2, <2>3, <2>4, Zenon DEF GoldType
  <1>10. SignalType
    BY ZenonT(60) DEF Init, SignalType
  <1>11. ProgramType
    BY DEF Init, ProgramType
  <1>12. HistoryType
    BY ZenonT(60) DEF Init, HistoryType
  <1>13. QED
    BY <1>5, <1>6, <1>7, <1>8, <1>9, <1>10, <1>11, <1>12 DEF TypeOK

-----------------------------------------------------------------------------
\* Raising an issue keeps the types.
LEMMA RaiseType ==
    ASSUME TypeOK, NEW t \in Addrs, NEW K \in SUBSET Issue,
           NEW g \in GoldAddrs \cup {None}, raiseIssues(t, K, g)
    PROVE  /\ issues' \subseteq Issue
           /\ info' \in [Issue -> [s : Addrs \cup {None}, gold : GoldAddrs \cup {None}]]
  BY DEF TypeOK, PackageType, raiseIssues

\* State::newStateIssue keeps the types of the package and of the states.
LEMMA NewStateIssueType ==
    ASSUME TypeOK, NEW t \in Addrs, NEW k \in Issue, newStateIssue(t, k)
    PROVE  /\ issues' \subseteq Issue
           /\ info' \in [Issue -> [s : Addrs \cup {None}, gold : GoldAddrs \cup {None}]]
           /\ state' \in [Addrs -> State]
           /\ seen' \in [Inputs -> SUBSET Issue]
  <1>1. raiseIssues(t, {k}, None)
    BY DEF newStateIssue
  <1>2. raisedState(state[t], {k}) \in State
    BY RaisedStateType DEF TypeOK, TestType
  <1>3. state' \in [Addrs -> State]
    BY <1>2 DEF newStateIssue, TypeOK, TestType
  <1>4. seen' \in [Inputs -> SUBSET Issue]
    BY DEF newStateIssue, TypeOK, HistoryType
  <1>5. QED
    BY <1>1, <1>3, <1>4, RaiseType

\* CrossChecker::compare keeps the types of the package, of both states and of
\* finalConstraintSets.
LEMMA CompareType ==
    ASSUME TypeOK, NEW t \in Addrs, NEW g \in GoldAddrs, NEW F \in SUBSET Inputs,
           compare(g, t, F)
    PROVE  PackageType' /\ state' \in [Addrs -> State] /\ gold' \in [GoldAddrs -> GoldState]
  <1>. DEFINE K == {[type |-> ty, location |-> NullLoc] : ty \in FailedTypes(F, differ)}
  <1>1. K \in SUBSET Issue
    BY ExplorationAssumption, IssueType DEF FailedTypes, FailedPairs
  <1>2. /\ raiseIssues(t, K, g)
        /\ state' = [state EXCEPT ![t] = raisedState(@, K)]
        /\ gold' = [gold EXCEPT ![g].triggerNewIssue = @ \/ \E k \in K : Accepted(issues, k)]
        /\ finalSets' = IF K = {} THEN finalSets
                        ELSE recordFinal(t, finalConstraints(F, differ))
    BY DEF compare
  <1>. HIDE DEF K
  <1>3. state' \in [Addrs -> State]
    BY <1>2, RaisedStateType DEF TypeOK, TestType
  <1>4. gold' \in [GoldAddrs -> GoldState]
    BY <1>2, ZenonT(60) DEF TypeOK, GoldType, GoldState
  <1>5. finalConstraints(F, differ) \in SUBSET Inputs
    BY DEF finalConstraints
  <1>6. finalSets' \in [Addrs -> SUBSET Inputs]
    BY <1>2, <1>5 DEF recordFinal, TypeOK, PackageType
  <1>7. QED
    BY <1>1, <1>2, <1>3, <1>4, <1>6, RaiseType DEF PackageType

-----------------------------------------------------------------------------
\* A group of variables that does not change keeps its type.
LEMMA SameType ==
    ASSUME TypeOK
    PROVE  /\ UNCHANGED testVars => TestType'
           /\ UNCHANGED searchVars => SearchType'
           /\ UNCHANGED issueVars => PackageType'
           /\ UNCHANGED controlVars => ControlType'
           /\ UNCHANGED goldVars => GoldType'
           /\ UNCHANGED signalVars => SignalType'
           /\ UNCHANGED programVars => ProgramType'
           /\ UNCHANGED historyVars => HistoryType'
  BY DEF TypeOK, TestType, SearchType, PackageType, ControlType, GoldType,
         SignalType, ProgramType, HistoryType

\* The head of the loop keeps the types.
LEMMA FetchTyped ==
    ASSUME TypeOK, FetchNormal \/ FetchPostponed \/ FetchNone \/ NextLevel
    PROVE  TypeOK'
  <1>1. CASE FetchNormal
    <2>1. s0 \in Seq(Addrs) /\ s1 \in Seq(Addrs)
      BY DEF TypeOK, SearchType
    <2>2. s0' \in Seq(Addrs) /\ s1' \in Seq(Addrs) /\ result' \in Seq(Addrs)
      <3>1. s0 # <<>> => back(s0) \in Addrs /\ pop_back(s0) \in Seq(Addrs)
        BY <2>1, BackPop
      <3>2. s1 # <<>> => back(s1) \in Addrs /\ pop_back(s1) \in Seq(Addrs)
        BY <2>1, BackPop
      <3>3. \/ /\ s0 # <<>>
               /\ result' = <<back(s0)>> /\ s0' = pop_back(s0) /\ s1' = s1
            \/ /\ s1 # <<>>
               /\ result' = <<back(s1)>> /\ s1' = pop_back(s1) /\ s0' = s0
        BY <1>1 DEF FetchNormal
      <3>4. back(s0) \in Addrs => <<back(s0)>> \in Seq(Addrs)
        OBVIOUS
      <3>5. back(s1) \in Addrs => <<back(s1)>> \in Seq(Addrs)
        OBVIOUS
      <3>6. QED
        BY <2>1, <3>1, <3>2, <3>3, <3>4, <3>5, Zenon
    <2>3. SearchType' /\ ControlType'
      BY <1>1, <2>2 DEF FetchNormal, TypeOK, SearchType, ControlType
    <2>4. QED
      BY <1>1, <2>3, SameType DEF FetchNormal, TypeOK
  <1>2. CASE FetchPostponed
    <2>1. TestType'
      <3>1. PICK a \in postponedStates : state' = [state EXCEPT ![a].avoidPostpone = TRUE]
        BY <1>2, ZenonT(60) DEF FetchPostponed
      <3>2. state' \in [Addrs -> State]
        BY <3>1, ZenonT(60) DEF TypeOK, TestType, State
      <3>3. QED
        BY <1>2, <3>2 DEF FetchPostponed, TypeOK, TestType
    <2>2. SearchType' /\ ControlType'
      BY <1>2 DEF FetchPostponed, TypeOK, SearchType, ControlType
    <2>3. QED
      BY <1>2, <2>1, <2>2, SameType DEF FetchPostponed, TypeOK
  <1>3. CASE FetchNone
    <2>1. ControlType'
      BY <1>3 DEF FetchNone, TypeOK, ControlType
    <2>2. QED
      BY <1>3, <2>1, SameType DEF FetchNone, TypeOK
  <1>4. CASE NextLevel
    <2>1. SearchType' /\ ControlType'
      BY <1>4 DEF NextLevel, TypeOK, SearchType, ControlType
    <2>2. QED
      BY <1>4, <2>1, SameType DEF NextLevel, TypeOK
  <1>5. QED
    BY <1>1, <1>2, <1>3, <1>4

\* The state that main has fetched.
LEMMA FetchedState ==
    ASSUME TypeOK, ControlInv, pc \in {"step", "fetched"}
    PROVE  result[1] \in Addrs /\ Range(result) = {result[1]}
  <1>1. result \in Seq(Addrs) /\ Len(result) = 1
    BY DEF TypeOK, ControlType, ControlInv
  <1>2. DOMAIN result = {1} /\ result[1] \in Addrs
    BY <1>1
  <1>3. QED
    BY <1>2 DEF Range

\* The state that main is checking.
LEMMA CheckedState ==
    ASSUME TypeOK, ControlInv,
           Checking \/ pc \in {"compare", "gold", "goldcheck", "goldpoll"}
    PROVE  result[idx] \in Addrs /\ result[idx] \in Range(result)
  <1>1. result \in Seq(Addrs)
    BY DEF TypeOK, ControlType
  <1>2. idx \in 1 .. Len(result)
    BY <1>1 DEF ControlInv, Checking
  <1>3. idx \in DOMAIN result /\ result[idx] \in Addrs
    BY <1>1, <1>2
  <1>4. QED
    BY <1>3 DEF Range

\* The gold state that the cross checker looks at.
LEMMA CheckedGoldState ==
    ASSUME TypeOK, ControlInv, pc = "goldcheck", goldIdx <= Len(goldResult)
    PROVE  goldResult[goldIdx] \in GoldAddrs /\ goldResult[goldIdx] \in Range(goldResult)
  <1>1. goldResult \in Seq(GoldAddrs)
    BY DEF TypeOK, GoldType
  <1>2. goldIdx \in 1 .. Len(goldResult)
    BY <1>1 DEF ControlInv
  <1>3. goldIdx \in DOMAIN goldResult /\ goldResult[goldIdx] \in GoldAddrs
    BY <1>1, <1>2
  <1>4. QED
    BY <1>3 DEF Range

\* A step of the test program keeps the types.
LEMMA StepTyped ==
    ASSUME TypeOK, ControlInv,
           RaiseIssue \/ FetchFails \/ Split \/ Halt \/ FinishStep
    PROVE  TypeOK'
  <1>. USE DEF TypeOK
  <1>0. Range(result) \subseteq Addrs
    BY RangeInSet, ZenonT(60) DEF ControlType
  <1>1. CASE RaiseIssue
    <2>1. PICK t \in Range(result), ty \in ExecTypes, l \in Lines :
            newStateIssue(t, [type |-> ty, location |-> l])
      BY <1>1, ZenonT(60) DEF RaiseIssue
    <2>2. TestType' /\ PackageType' /\ HistoryType'
      BY <1>0, <1>1, <2>1, NewStateIssueType, IssueType, ZenonT(60)
      DEF RaiseIssue, TestType, PackageType, HistoryType
    <2>3. ControlType'
      BY <1>1, ZenonT(60) DEF RaiseIssue, ControlType
    <2>4. QED
      BY <1>1, <2>2, <2>3, SameType DEF RaiseIssue
  <1>2. CASE FetchFails
    <2>1. result[1] \in Addrs
      <3>1. pc = "step"
        BY <1>2 DEF FetchFails
      <3>2. QED
        BY <3>1, FetchedState, ZenonT(60)
    <2>2. PICK l \in Lines \cup {NullLoc} :
            newStateIssue(result[1], [type |-> FetchError, location |-> l])
      BY <1>2, ZenonT(60) DEF FetchFails
    <2>3. TestType' /\ PackageType' /\ HistoryType'
      BY <1>2, <2>1, <2>2, NewStateIssueType, IssueType, ZenonT(60)
      DEF FetchFails, TestType, PackageType, HistoryType
    <2>4. ControlType'
      BY <1>2, ZenonT(60) DEF FetchFails, ControlType
    <2>5. QED
      BY <1>2, <2>3, <2>4, SameType, ZenonT(60) DEF FetchFails
  <1>3. CASE Split
    <2>. DEFINE s == result[1]
                C == state[s].constraints
    <2>1. s \in Addrs
      <3>1. pc \in {"step", "fetched"}
        BY <1>3, ZenonT(60) DEF Split
      <3>2. QED
        BY <3>1, FetchedState, ZenonT(60)
    <2>2. C \in SUBSET Inputs /\ state[s] \in State
      BY <2>1 DEF TestType, State
    <2>3. PICK owner \in [C -> (Addrs \ aliveStates) \cup {s}] : distribute(s, owner)
      BY <1>3 DEF Split
    <2>. HIDE DEF s
    <2>4. Range(owner) \subseteq Addrs
      BY <2>1 DEF Range
    <2>5. result' \in Seq(Addrs)
      <3>1. PICK n \in 1 .. Cardinality(C) :
              \E u \in [1 .. n -> Range(owner)] : result' = u
        BY <2>3, Zenon DEF distribute, forkedFrom
      <3>2. n \in Nat
        BY <2>2, InputCount
      <3>3. result' \in [1 .. n -> Addrs]
        BY <2>4, <3>1
      <3>4. QED
        BY <3>2, <3>3
    <2>6. countStep([state[s] EXCEPT !.constraints = ownPart(C, owner, s)]) \in State
      <3>1. [state[s] EXCEPT !.constraints = ownPart(C, owner, s)] \in State
        BY <2>2 DEF ownPart, State
      <3>2. QED
        BY <2>2, <3>1, ForkType
    <2>7. \A a : countStep(forkState(state[s], {x \in C : owner[x] = a})) \in State
      <3>1. \A a : {x \in C : owner[x] = a} \in SUBSET Inputs
        BY <2>2
      <3>2. \A a : forkState(state[s], {x \in C : owner[x] = a}) \in State
        BY <2>2, <3>1, ForkType, Zenon
      <3>3. QED
        BY <2>2, <3>2, ForkType, Zenon
    <2>8. TestType'
      BY <2>3, <2>4, <2>6, <2>7, ZenonT(60) DEF distribute, forkedFrom, TestType
    <2>9. ControlType'
      BY <1>3, <2>5 DEF Split, ControlType
    <2>10. QED
      BY <1>3, <2>8, <2>9, SameType DEF Split
  <1>4. CASE Halt
    <2>1. PICK t \in Range(result) : state' = [state EXCEPT ![t] = [@ EXCEPT !.status = "HALTED"]]
      BY <1>4, ZenonT(60) DEF Halt, haltedState
    <2>2. state' \in [Addrs -> State]
      BY <1>0, <2>1 DEF TestType, State, Status
    <2>3. TestType'
      BY <1>4, <2>2 DEF Halt, haltedState, TestType
    <2>4. QED
      BY <1>4, <2>3, SameType DEF Halt, haltedState
  <1>5. CASE FinishStep
    <2>1. PICK T : state' = [a \in Addrs |-> IF a \in T
                               THEN [state[a] EXCEPT !.coveredNew = TRUE]
                               ELSE state[a]]
      BY <1>5, Zenon DEF FinishStep
    <2>2. state' \in [Addrs -> State]
      BY <2>1, ZenonT(60) DEF TestType, State
    <2>3. TestType' /\ ControlType'
      BY <1>5, <2>2 DEF FinishStep, TestType, ControlType
    <2>4. QED
      BY <1>5, <2>3, SameType DEF FinishStep
  <1>6. QED
    BY <1>1, <1>2, <1>3, <1>4, <1>5

\* The checks on the states of the result keep the types.
LEMMA CheckTyped ==
    ASSUME TypeOK, ControlInv,
           \/ CheckLimit \/ CheckBroken \/ PostCheck
           \/ NoGold \/ CompareWithStartup \/ LaunchGold
    PROVE  TypeOK'
  <1>. DEFINE t == result[idx]
  <1>0. /\ idx + 1 \in Nat
        /\ Checking \/ pc = "compare" => t \in Addrs
    BY CheckedState DEF TypeOK, ControlType
  <1>. USE DEF TypeOK
  <1>1. CASE CheckLimit
    <2>1. ASSUME newStateIssue(t, [type |-> StepLimit, location |-> NullLoc])
          PROVE  TestType' /\ PackageType' /\ HistoryType'
      BY <1>0, <1>1, <2>1, NewStateIssueType, IssueType, ZenonT(60)
      DEF CheckLimit, TestType, PackageType, HistoryType
    <2>2. ASSUME UNCHANGED <<issues, info, state, seen>>
          PROVE  TestType' /\ PackageType' /\ HistoryType'
      BY <1>1, <2>2, SameType, ZenonT(60) DEF CheckLimit
    <2>3. TestType' /\ PackageType' /\ HistoryType'
      BY <1>1, <2>1, <2>2, ZenonT(60) DEF CheckLimit
    <2>4. ControlType'
      BY <1>0, <1>1, ZenonT(60) DEF CheckLimit, ControlType
    <2>5. QED
      BY <1>1, <2>3, <2>4, SameType DEF CheckLimit
  <1>2. CASE CheckBroken
    <2>1. ControlType'
      BY <1>0, <1>2, ZenonT(60) DEF CheckBroken, ControlType
    <2>2. QED
      BY <1>2, <2>1, SameType, ZenonT(60) DEF CheckBroken
  <1>3. CASE PostCheck
    <2>1. halted' \subseteq Inputs
      BY <1>0, <1>3, ZenonT(60) DEF PostCheck, TestType, State, HistoryType
    <2>2. ASSUME \E l \in Lines : newStateIssue(t, [type |-> HaltInSub, location |-> l])
          PROVE  TestType' /\ PackageType' /\ HistoryType'
      BY <1>0, <1>3, <2>1, <2>2, NewStateIssueType, IssueType, ZenonT(60)
      DEF PostCheck, TestType, PackageType, HistoryType
    <2>3. ASSUME UNCHANGED <<issues, info, state, seen>>
          PROVE  TestType' /\ PackageType' /\ HistoryType'
      BY <1>3, <2>1, <2>3, ZenonT(60) DEF PostCheck, TestType, PackageType, HistoryType
    <2>4. TestType' /\ PackageType' /\ HistoryType'
      BY <1>3, <2>2, <2>3, ZenonT(60) DEF PostCheck
    <2>5. ControlType'
      BY <1>3, ZenonT(60) DEF PostCheck, ControlType
    <2>6. QED
      BY <1>3, <2>4, <2>5, SameType, ZenonT(60) DEF PostCheck
  <1>4. CASE NoGold
    <2>1. ControlType'
      BY <1>0, <1>4, ZenonT(60) DEF NoGold, ControlType
    <2>2. QED
      BY <1>4, <2>1, SameType DEF NoGold
  <1>5. CASE CompareWithStartup
    <2>1. compare(goldStartup, t, state[t].constraints)
      BY <1>5, ZenonT(60) DEF CompareWithStartup
    <2>2. state[t].constraints \in SUBSET Inputs
      BY <1>0, <1>5, ZenonT(60) DEF CompareWithStartup, TestType, State
    <2>3. PackageType' /\ state' \in [Addrs -> State] /\ gold' \in [GoldAddrs -> GoldState]
      BY <1>0, <1>5, <2>1, <2>2, CompareType DEF CompareWithStartup, ProgramType
    <2>4. TestType' /\ GoldType'
      BY <1>5, <2>3, ZenonT(60) DEF CompareWithStartup, TestType, GoldType
    <2>5. ControlType'
      BY <1>0, <1>5 DEF CompareWithStartup, ControlType
    <2>6. QED
      BY <1>5, <2>3, <2>4, <2>5, SameType, ZenonT(60) DEF CompareWithStartup
  <1>6. CASE LaunchGold
    <2>1. PICK g \in GoldAddrs \ goldAlive :
            /\ goldAlive' = goldAlive \cup {g}
            /\ gold' = [gold EXCEPT ![g] = [NewGoldState EXCEPT
                          !.constraints = state[t].constraints]]
            /\ goldStack' = <<g>>
      BY <1>6, ZenonT(60) DEF LaunchGold
    <2>2. state[t].constraints \in SUBSET Inputs
      BY <1>0, <1>6 DEF LaunchGold, TestType, State
    <2>3. [NewGoldState EXCEPT !.constraints = state[t].constraints] \in GoldState
      BY <2>2, NewStateType DEF GoldState
    <2>4. GoldType'
      BY <1>6, <2>1, <2>3 DEF LaunchGold, GoldType
    <2>5. ControlType'
      BY <1>6 DEF LaunchGold, ControlType
    <2>6. QED
      BY <1>6, <2>4, <2>5, SameType DEF LaunchGold
  <1>7. QED
    BY <1>1, <1>2, <1>3, <1>4, <1>5, <1>6

\* The search of the gold program keeps the types.
LEMMA GoldTyped ==
    ASSUME TypeOK, ControlInv,
           \/ GoldStep \/ GoldWarns \/ GoldBreaks \/ GoldCheck \/ GoldPush
           \/ GoldPoll \/ GoldDone
    PROVE  TypeOK'
  <1>. USE DEF TypeOK
  <1>0. Range(goldResult) \subseteq GoldAddrs
    BY RangeInSet, ZenonT(60) DEF GoldType
  <1>1. CASE GoldStep
    <2>. DEFINE s == back(goldStack)
                C == gold[s].constraints
    <2>1. s \in GoldAddrs /\ pop_back(goldStack) \in Seq(GoldAddrs)
      BY <1>1, BackPop, ZenonT(60) DEF GoldStep, GoldType
    <2>2. C \in SUBSET Inputs /\ gold[s] \in GoldState
      BY <2>1, ZenonT(60) DEF GoldType, GoldState
    <2>3. PICK owner \in [C -> (GoldAddrs \ goldAlive) \cup {s}] : goldDistribute(s, owner)
      BY <1>1 DEF GoldStep
    <2>. HIDE DEF s
    <2>4. Range(owner) \subseteq GoldAddrs
      BY <2>1 DEF Range
    <2>5. goldResult' \in Seq(GoldAddrs)
      <3>1. PICK n \in 1 .. Cardinality(C) :
              \E u \in [1 .. n -> Range(owner)] : goldResult' = u
        BY <2>3, Zenon DEF goldDistribute
      <3>2. n \in Nat
        BY <2>2, InputCount
      <3>3. goldResult' \in [1 .. n -> GoldAddrs]
        BY <2>4, <3>1
      <3>4. QED
        BY <3>2, <3>3
    <2>6. gold' \in [GoldAddrs -> GoldState]
      <3>1. PICK H : gold' = [a \in GoldAddrs |->
                       IF a \in Range(owner)
                       THEN [status |-> IF a \in H THEN "HALTED" ELSE "NORMAL",
                             constraints |-> {x \in C : owner[x] = a},
                             triggerNewIssue |-> IF a = s THEN gold[s].triggerNewIssue
                                                          ELSE FALSE]
                       ELSE gold[a]]
        BY <2>3, ZenonT(60) DEF goldDistribute
      <3>2. gold[s].triggerNewIssue \in BOOLEAN
        BY <2>2 DEF GoldState
      <3>3. QED
        BY <2>2, <3>1, <3>2, ZenonT(60) DEF GoldType, GoldState, Status
    <2>7. goldAlive' \subseteq GoldAddrs
      BY <2>3, <2>4, ZenonT(60) DEF goldDistribute, GoldType
    <2>8. GoldType'
      BY <1>1, <2>1, <2>5, <2>6, <2>7, ZenonT(60) DEF GoldStep, GoldType, s
    <2>9. ControlType'
      BY <1>1 DEF GoldStep, ControlType
    <2>10. QED
      BY <1>1, <2>8, <2>9, SameType, ZenonT(60) DEF GoldStep
  <1>2. CASE GoldWarns
    <2>1. PICK t \in Range(goldResult) : gold' = [gold EXCEPT ![t].triggerNewIssue = TRUE]
      BY <1>2, ZenonT(60) DEF GoldWarns
    <2>2. gold' \in [GoldAddrs -> GoldState]
      BY <1>0, <2>1, ZenonT(60) DEF GoldType, GoldState
    <2>3. GoldType'
      BY <1>2, <2>2, ZenonT(60) DEF GoldWarns, GoldType
    <2>4. QED
      BY <1>2, <2>3, SameType DEF GoldWarns
  <1>3. CASE GoldBreaks
    <2>1. ControlType'
      BY <1>3, ZenonT(60) DEF GoldBreaks, ControlType
    <2>2. QED
      BY <1>3, <2>1, SameType DEF GoldBreaks
  <1>4. CASE GoldCheck
    <2>. DEFINE g == goldResult[goldIdx]
    <2>1. g \in GoldAddrs /\ result[idx] \in Addrs
      BY <1>4, CheckedState, CheckedGoldState, ZenonT(60) DEF GoldCheck
    <2>2. gold[g].constraints \in SUBSET Inputs
      BY <2>1, ZenonT(60) DEF GoldType, GoldState
    <2>3. ASSUME compare(g, result[idx], gold[g].constraints)
          PROVE  PackageType' /\ state' \in [Addrs -> State] /\ gold' \in [GoldAddrs -> GoldState]
      BY <2>1, <2>2, <2>3, CompareType
    <2>4. ASSUME UNCHANGED <<issues, info, state, gold, finalSets>>
          PROVE  PackageType' /\ state' \in [Addrs -> State] /\ gold' \in [GoldAddrs -> GoldState]
      BY <2>4, ZenonT(60) DEF PackageType, TestType, GoldType
    <2>5. PackageType' /\ state' \in [Addrs -> State] /\ gold' \in [GoldAddrs -> GoldState]
      BY <1>4, <2>3, <2>4 DEF GoldCheck
    <2>6. TestType'
      BY <1>4, <2>5, ZenonT(60) DEF GoldCheck, TestType
    <2>7. GoldType'
      <3>1. /\ UNCHANGED <<goldAlive, goldStack, goldResult, goldIssues>>
            /\ goldIdx' = goldIdx + 1
        BY <1>4, ZenonT(60) DEF GoldCheck
      <3>2. goldIdx + 1 \in Nat
        BY DEF GoldType
      <3>3. QED
        BY <2>5, <3>1, <3>2, ZenonT(60) DEF GoldType
    <2>8. QED
      BY <1>4, <2>5, <2>6, <2>7, SameType, ZenonT(60) DEF GoldCheck
  <1>5. CASE GoldPush
    <2>1. goldStack' \in Seq(GoldAddrs)
      BY <1>5, PushedType DEF GoldPush, GoldType
    <2>2. gold' \in [GoldAddrs -> GoldState] /\ goldAlive' \subseteq GoldAddrs
      <3>1. PICK D : /\ goldAlive' = goldAlive \ D
                     /\ gold' = [a \in GoldAddrs |-> IF a \in D THEN NewGoldState
                                                              ELSE gold[a]]
        BY <1>5, Zenon DEF GoldPush
      <3>2. QED
        BY <3>1, NewStateType DEF GoldType
    <2>3. GoldType'
      <3>1. goldResult' = <<>> /\ goldIdx' = 0 /\ goldIssues' = goldIssues
        BY <1>5, ZenonT(60) DEF GoldPush
      <3>2. goldResult' \in Seq(GoldAddrs) /\ goldIdx' \in Nat
        BY <3>1
      <3>3. QED
        BY <2>1, <2>2, <3>1, <3>2, ZenonT(60) DEF GoldType
    <2>4. ControlType'
      BY <1>5, ZenonT(60) DEF GoldPush, ControlType
    <2>5. QED
      BY <1>5, <2>3, <2>4, SameType, ZenonT(60) DEF GoldPush
  <1>6. CASE GoldPoll
    <2>1. ControlType'
      BY <1>6, ZenonT(60) DEF GoldPoll, ControlType
    <2>2. HistoryType'
      BY <1>6, ZenonT(60) DEF GoldPoll, HistoryType
    <2>3. QED
      BY <1>6, <2>1, <2>2, SameType, ZenonT(60) DEF GoldPoll
  <1>7. CASE GoldDone
    <2>1. ControlType'
      BY <1>7 DEF GoldDone, ControlType
    <2>2. QED
      BY <1>7, <2>1, SameType DEF GoldDone
  <1>8. QED
    BY <1>1, <1>2, <1>3, <1>4, <1>5, <1>6, <1>7

\* The end of an iteration and the environment keep the types.
LEMMA EndTyped ==
    ASSUME TypeOK, Push \/ Poll \/ Environment \/ UNCHANGED vars
    PROVE  TypeOK'
  <1>. USE DEF TypeOK
  <1>1. CASE Push
    <2>0. PICK P \in SUBSET normalStates : \E A : take(P, A)
      BY <1>1 DEF Push, mayPostpone
    <2>1. PICK A : take(P, A)
      BY <2>0
    <2>2. /\ normalStates \subseteq Addrs /\ endedStates \subseteq Addrs
          /\ freedStates \subseteq Addrs
      BY RangeInSet DEF ControlType, normalStates, endedStates, freedStates
    <2>3. s0' \in Seq(Addrs) /\ s1' \in Seq(Addrs)
      BY <2>1, PushedType DEF take, SearchType, ControlType
    <2>4. postponedStates' \subseteq Addrs /\ completedStates' \subseteq Addrs
      BY <2>1, <2>2 DEF take, SearchType, completedAfter
    <2>5. loopsLeft' \in BOOLEAN /\ level' \in Nat
      BY <1>1, ZenonT(60) DEF Push, SearchType
    <2>6. SearchType'
      BY <2>3, <2>4, <2>5 DEF SearchType
    <2>7. state' \in [Addrs -> State]
      <3>1. \A a \in Addrs : [state[a] EXCEPT !.avoidPostpone = TRUE] \in State
        BY ZenonT(60) DEF TestType, State
      <3>2. QED
        BY <2>1, <3>1, NewStateType DEF take, TestType
    <2>8. TestType'
      BY <2>1, <2>7 DEF take, TestType
    <2>9. released' \subseteq Inputs
      BY <2>1, <2>2 DEF take, TestType, State, HistoryType
    <2>10. HistoryType'
      BY <1>1, <2>9 DEF Push, HistoryType
    <2>11. ControlType'
      <3>1. pc' = "poll" /\ result' = <<>> /\ idx' = 0
        BY <1>1, ZenonT(60) DEF Push
      <3>2. result' \in Seq(Addrs) /\ idx' \in Nat
        BY <3>1
      <3>3. QED
        BY <3>1, <3>2, ZenonT(60) DEF ControlType
    <2>12. QED
      BY <1>1, <2>6, <2>8, <2>10, <2>11, SameType, ZenonT(60) DEF Push
  <1>2. CASE Poll
    <2>1. ControlType'
      BY <1>2 DEF Poll, ControlType
    <2>2. HistoryType' /\ SignalType'
      BY <1>2, ZenonT(60) DEF Poll, HistoryType, SignalType
    <2>3. QED
      BY <1>2, <2>1, <2>2, SameType, ZenonT(60) DEF Poll
  <1>3. CASE Environment
    <2>1. SignalType'
      BY <1>3, ZenonT(60) DEF Environment, handleInterrupt, handleAlarm, Clock, SignalType
    <2>2. QED
      BY <1>3, <2>1, SameType, ZenonT(60) DEF Environment
  <1>4. CASE UNCHANGED vars
    BY <1>4, SameType DEF vars
  <1>5. QED
    BY <1>1, <1>2, <1>3, <1>4, ZenonT(60)

-----------------------------------------------------------------------------
\* The position in the result vectors stays inside them.
LEMMA ControlStep ==
    ASSUME TypeOK, ControlInv, [Next]_vars
    PROVE  ControlInv'
  <1>0. /\ result \in Seq(Addrs) /\ idx \in Nat
        /\ goldResult \in Seq(GoldAddrs) /\ goldIdx \in Nat
    BY DEF TypeOK, ControlType, GoldType
  <1>1. CASE FetchNormal \/ FetchPostponed
    <2>1. pc' = "step" /\ \E a : result' = <<a>>
      BY <1>1 DEF FetchNormal, FetchPostponed
    <2>2. QED
      BY <2>1 DEF ControlInv
  <1>2. CASE FetchNone \/ NextLevel \/ Poll
    <2>1. /\ pc \in {"fetch", "level", "poll"} /\ result' = result
          /\ pc' \in {"fetch", "level", "report"}
      BY <1>2 DEF FetchNone, NextLevel, Poll
    <2>2. QED
      BY <2>1, ZenonT(60) DEF ControlInv
  <1>3. CASE RaiseIssue \/ Halt
    <2>1. /\ result' = result
          /\ \/ pc = "exec" /\ pc' = "exec"
             \/ pc \in {"step", "fetched"} /\ pc' = "fetched"
      BY <1>3 DEF RaiseIssue, Halt, haltedState
    <2>2. QED
      BY <2>1 DEF ControlInv
  <1>4. CASE FetchFails \/ FinishStep
    <2>1. pc' = "check" /\ idx' = 1 /\ result' = result
      BY <1>4 DEF FetchFails, FinishStep
    <2>2. QED
      BY <1>0, <2>1 DEF ControlInv
  <1>5. CASE Split
    <2>1. pc' = "exec"
      BY <1>5 DEF Split
    <2>2. PICK owner : distribute(result[1], owner)
      BY <1>5 DEF Split
    <2>3. PICK n \in 1 .. Cardinality(state[result[1]].constraints) :
            \E u \in [1 .. n -> Range(owner)] : result' = u
      BY <2>2 DEF distribute, forkedFrom
    <2>4. state[result[1]].constraints \in SUBSET Inputs
      <3>1. result[1] \in Addrs
        BY <1>5, FetchedState DEF Split
      <3>2. QED
        BY <3>1, ZenonT(60) DEF TypeOK, TestType, State
    <2>5. 1 \in DOMAIN result'
      BY <2>3, <2>4, InputCount
    <2>6. result' # <<>>
      BY <2>5
    <2>7. QED
      BY <2>1, <2>6, ZenonT(60) DEF ControlInv
  <1>6. CASE CheckLimit \/ CheckBroken
    <2>1. /\ pc = "check" /\ idx <= Len(result)
          /\ pc' = "check" /\ idx' = idx + 1 /\ result' = result
      BY <1>6, ZenonT(60) DEF CheckLimit, CheckBroken, Checking
    <2>2. idx \in 1 .. Len(result) + 1
      BY <2>1, ZenonT(60) DEF ControlInv
    <2>3. idx' \in 1 .. Len(result') + 1
      BY <1>0, <2>1, <2>2
    <2>4. QED
      BY <2>1, <2>3, ZenonT(60) DEF ControlInv
  <1>7. CASE PostCheck
    <2>1. /\ pc = "check" /\ idx <= Len(result)
          /\ pc' = "compare" /\ idx' = idx /\ result' = result
      BY <1>7, ZenonT(60) DEF PostCheck, Checking
    <2>2. idx \in 1 .. Len(result) + 1
      BY <2>1, ZenonT(60) DEF ControlInv
    <2>3. idx' \in 1 .. Len(result')
      BY <1>0, <2>1, <2>2
    <2>4. QED
      BY <2>1, <2>3, ZenonT(60) DEF ControlInv
  <1>8. CASE NoGold \/ CompareWithStartup \/ GoldDone
    <2>1. /\ pc \in {"compare", "gold"} /\ result' = result
          /\ \/ pc' = "check" /\ idx' = idx + 1
             \/ pc' = "exit"
      BY <1>8, ZenonT(60) DEF NoGold, CompareWithStartup, GoldDone
    <2>2. idx \in 1 .. Len(result)
      BY <2>1, ZenonT(60) DEF ControlInv
    <2>3. idx + 1 \in 1 .. Len(result') + 1
      BY <1>0, <2>1, <2>2
    <2>4. QED
      BY <2>1, <2>3, ZenonT(60) DEF ControlInv
  <1>9. CASE LaunchGold \/ GoldPush \/ GoldPoll
    <2>1. /\ pc \in {"compare", "gold", "goldcheck", "goldpoll"}
          /\ pc' \in {"gold", "goldpoll", "report"}
          /\ idx' = idx /\ result' = result
      BY <1>9 DEF LaunchGold, GoldPush, GoldPoll
    <2>2. QED
      BY <2>1 DEF ControlInv
  <1>10. CASE GoldStep
    <2>1. goldResult' \in Seq(GoldAddrs)
      BY <1>10, GoldTyped, ZenonT(60) DEF TypeOK, GoldType
    <2>2. /\ pc = "gold" /\ pc' = "goldcheck" /\ goldIdx' = 1
          /\ idx' = idx /\ result' = result
      BY <1>10, ZenonT(60) DEF GoldStep
    <2>3. QED
      BY <2>1, <2>2 DEF ControlInv
  <1>11. CASE GoldWarns \/ GoldCheck
    <2>1. /\ pc = "goldcheck" /\ pc' = "goldcheck"
          /\ idx' = idx /\ result' = result /\ goldResult' = goldResult
          /\ goldIdx' = goldIdx \/ (goldIdx <= Len(goldResult) /\ goldIdx' = goldIdx + 1)
      BY <1>11 DEF GoldWarns, GoldCheck
    <2>2. QED
      BY <1>0, <2>1 DEF ControlInv
  <1>12. CASE GoldBreaks
    <2>1. pc' = "exit"
      BY <1>12 DEF GoldBreaks
    <2>2. QED
      BY <2>1 DEF ControlInv
  <1>13. CASE Push
    <2>1. pc' = "poll" /\ result' = <<>>
      BY <1>13 DEF Push
    <2>2. QED
      BY <2>1 DEF ControlInv
  <1>14. CASE Environment \/ Finished \/ UNCHANGED vars
    <2>1. UNCHANGED <<controlVars, goldResult, goldIdx>>
      BY <1>14 DEF Environment, Finished, vars
    <2>2. QED
      BY <2>1, ZenonT(60) DEF ControlInv
  <1>15. QED
    BY <1>1, <1>2, <1>3, <1>4, <1>5, <1>6, <1>7, <1>8, <1>9, <1>10, <1>11, <1>12,
       <1>13, <1>14
    DEF Next, Loop

\* The types and the position are kept by every step.
LEMMA TypeStep ==
    ASSUME TypeOK, ControlInv, [Next]_vars
    PROVE  TypeOK'
  BY FetchTyped, StepTyped, CheckTyped, GoldTyped, EndTyped DEF Next, Loop, Finished

\* Type correctness: main and the modules it drives keep every variable in its
\* type, whatever the programs, the options and the signals are.
THEOREM TypeCorrect == Spec => [](TypeOK /\ ControlInv)
  <1>1. Init => ControlInv
    BY DEF Init, ControlInv
  <1>2. TypeOK /\ ControlInv /\ [Next]_vars => (TypeOK /\ ControlInv)'
    BY TypeStep, ControlStep
  <1>3. QED
    BY <1>1, <1>2, InitType, PTL DEF Spec

=============================================================================
