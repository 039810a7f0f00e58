--------------------------- MODULE ExplorationProofs ---------------------------
(***************************************************************************)
(* The safety of Exploration, for every set of inputs, addresses, issue    *)
(* types, levels and options: every state is at one place, no issue refers *)
(* to a released state, and the states partition the inputs.               *)
(***************************************************************************)
EXTENDS ExplorationTypeProofs

USE DEF testVars, searchVars, issueVars, controlVars, goldVars, signalVars,
        programVars, historyVars

-----------------------------------------------------------------------------
\* A vector of no state, and of one.
LEMMA SmallVector ==
    /\ Range(<<>>) = {} /\ Distinct(<<>>)
    /\ \A a : Range(<<a>>) = {a} /\ Distinct(<<a>>)
  <1>1. Range(<<>>) = {} /\ Distinct(<<>>)
    BY DEF Range, Distinct
  <1>2. ASSUME NEW a PROVE Range(<<a>>) = {a} /\ Distinct(<<a>>)
    BY DEF Range, Distinct
  <1>3. QED
    BY <1>1, <1>2

\* Popping a stack without repetition.
LEMMA PopDistinct ==
    ASSUME NEW S, NEW s \in Seq(S), s # <<>>, Distinct(s)
    PROVE  /\ Distinct(pop_back(s))
           /\ back(s) \notin Range(pop_back(s))
           /\ Range(s) = Range(pop_back(s)) \cup {back(s)}
  <1>1. /\ Len(s) \in Nat /\ Len(s) > 0 /\ DOMAIN s = 1 .. Len(s)
        /\ pop_back(s) \in Seq(S) /\ Len(pop_back(s)) = Len(s) - 1
        /\ DOMAIN pop_back(s) = 1 .. Len(s) - 1
        /\ \A i \in 1 .. Len(s) - 1 : pop_back(s)[i] = s[i]
        /\ back(s) = s[Len(s)]
    <2>1. Len(s) \in Nat /\ Len(s) > 0 /\ DOMAIN s = 1 .. Len(s)
      OBVIOUS
    <2>2. pop_back(s) = [i \in 1 .. Len(s) - 1 |-> s[i]]
      BY <2>1 DEF pop_back
    <2>3. pop_back(s) \in Seq(S) /\ Len(pop_back(s)) = Len(s) - 1
      BY <2>1 DEF pop_back
    <2>4. QED
      BY <2>1, <2>2, <2>3 DEF back
  <1>2. Distinct(pop_back(s)) /\ back(s) \notin Range(pop_back(s))
    BY <1>1 DEF Distinct, Range
  <1>3. ASSUME NEW x \in Range(s) PROVE x \in Range(pop_back(s)) \cup {back(s)}
    BY <1>1 DEF Range
  <1>4. ASSUME NEW x \in Range(pop_back(s)) \cup {back(s)} PROVE x \in Range(s)
    BY <1>1 DEF Range
  <1>5. QED
    BY <1>2, <1>3, <1>4

\* What is pushed for the elements of P are exactly the elements of P.
LEMMA PushedRange ==
    ASSUME NEW S, NEW r \in Seq(S), NEW P, NEW q \in pushed(r, P)
    PROVE  Range(q) = Range(r) \cap P /\ (Distinct(r) => Distinct(q))
  <1>1. PICK f \in UNION {[1 .. n -> DOMAIN r] : n \in 0 .. Len(r)} :
          /\ \A k, l \in DOMAIN f : k < l => f[k] < f[l]
          /\ Range(f) = {i \in DOMAIN r : r[i] \in P}
          /\ q = [k \in DOMAIN f |-> r[f[k]]]
    BY DEF pushed
  <1>2. PICK n \in 0 .. Len(r) : f \in [1 .. n -> DOMAIN r]
    BY <1>1, Zenon
  <1>3. n \in Nat /\ DOMAIN f = 1 .. n /\ DOMAIN q = 1 .. n /\ DOMAIN r = 1 .. Len(r)
    BY <1>1, <1>2
  <1>4. ASSUME NEW x \in Range(q) PROVE x \in Range(r) \cap P
    <2>1. PICK k \in 1 .. n : x = r[f[k]]
      BY <1>1, <1>3 DEF Range
    <2>2. f[k] \in {i \in DOMAIN r : r[i] \in P}
      BY <1>1, <1>3, ZenonT(60) DEF Range
    <2>3. QED
      BY <2>1, <2>2 DEF Range
  <1>5. ASSUME NEW x \in Range(r) \cap P PROVE x \in Range(q)
    <2>1. PICK i \in DOMAIN r : x = r[i] /\ r[i] \in P
      BY DEF Range
    <2>2. i \in Range(f)
      BY <1>1, <2>1
    <2>3. PICK k \in DOMAIN f : f[k] = i
      BY <2>2 DEF Range
    <2>4. QED
      BY <1>1, <1>3, <2>1, <2>3 DEF Range
  <1>6. ASSUME Distinct(r) PROVE Distinct(q)
    <2>1. SUFFICES ASSUME NEW k \in 1 .. n, NEW l \in 1 .. n, q[k] = q[l] PROVE k = l
      BY <1>3 DEF Distinct
    <2>2. f[k] \in DOMAIN r /\ f[l] \in DOMAIN r /\ r[f[k]] = r[f[l]]
      BY <1>1, <1>2, <1>3, <2>1
    <2>3. f[k] = f[l]
      BY <1>6, <2>2 DEF Distinct
    <2>4. ~ (f[k] < f[l]) /\ ~ (f[l] < f[k])
      BY <1>3, <2>2, <2>3
    <2>5. ~ (k < l) /\ ~ (l < k)
      BY <1>1, <1>3, <2>4, Zenon
    <2>6. QED
      BY <1>3, <2>5
  <1>7. QED
    BY <1>4, <1>5, <1>6

\* Appending to a stack.
LEMMA ConcatRange ==
    ASSUME NEW S, NEW q \in Seq(S), NEW r \in Seq(S)
    PROVE  /\ Range(q \o r) = Range(q) \cup Range(r)
           /\ Distinct(q) /\ Distinct(r) /\ Range(q) \cap Range(r) = {}
                => Distinct(q \o r)
  <1>. DEFINE c == q \o r
  <1>1. /\ Len(q) \in Nat /\ Len(r) \in Nat
        /\ DOMAIN q = 1 .. Len(q) /\ DOMAIN r = 1 .. Len(r)
        /\ DOMAIN c = 1 .. Len(q) + Len(r)
        /\ \A i \in 1 .. Len(q) : c[i] = q[i]
        /\ \A i \in 1 .. Len(r) : c[Len(q) + i] = r[i]
        /\ \A i \in 1 .. Len(q) + Len(r) : i > Len(q) =>
             i - Len(q) \in 1 .. Len(r) /\ c[i] = r[i - Len(q)]
    OBVIOUS
  <1>. HIDE DEF c
  <1>2. ASSUME NEW x \in Range(c) PROVE x \in Range(q) \cup Range(r)
    <2>1. PICK i \in 1 .. Len(q) + Len(r) : x = c[i]
      BY <1>1 DEF Range
    <2>2. CASE i <= Len(q)
      BY <1>1, <2>1, <2>2 DEF Range
    <2>3. CASE i > Len(q)
      BY <1>1, <2>1, <2>3 DEF Range
    <2>4. QED
      BY <1>1, <2>2, <2>3
  <1>3. ASSUME NEW x \in Range(q) PROVE x \in Range(c)
    <2>1. PICK i \in 1 .. Len(q) : x = q[i]
      BY <1>1 DEF Range
    <2>2. i \in 1 .. Len(q) + Len(r) /\ c[i] = x
      BY <1>1, <2>1
    <2>3. QED
      BY <1>1, <2>2 DEF Range
  <1>4. ASSUME NEW x \in Range(r) PROVE x \in Range(c)
    <2>1. PICK i \in 1 .. Len(r) : x = r[i]
      BY <1>1 DEF Range
    <2>2. Len(q) + i \in 1 .. Len(q) + Len(r) /\ c[Len(q) + i] = x
      BY <1>1, <2>1
    <2>3. QED
      BY <1>1, <2>2 DEF Range
  <1>5. ASSUME Distinct(q), Distinct(r), Range(q) \cap Range(r) = {}
        PROVE  Distinct(c)
    <2>1. SUFFICES ASSUME NEW i \in 1 .. Len(q) + Len(r), NEW j \in 1 .. Len(q) + Len(r),
                          c[i] = c[j]
                   PROVE  i = j
      BY <1>1 DEF Distinct
    <2>2. ASSUME NEW k \in 1 .. Len(q) + Len(r), k <= Len(q)
          PROVE  k \in DOMAIN q /\ c[k] = q[k] /\ c[k] \in Range(q)
      <3>1. k \in DOMAIN q /\ c[k] = q[k]
        BY <1>1, <2>2
      <3>2. QED
        BY <3>1 DEF Range
    <2>3. ASSUME NEW k \in 1 .. Len(q) + Len(r), k > Len(q)
          PROVE  k - Len(q) \in DOMAIN r /\ c[k] = r[k - Len(q)] /\ c[k] \in Range(r)
      <3>1. k - Len(q) \in DOMAIN r /\ c[k] = r[k - Len(q)]
        BY <1>1, <2>3
      <3>2. QED
        BY <3>1 DEF Range
    <2>4. CASE i <= Len(q) /\ j <= Len(q)
      BY <1>5, <2>1, <2>2, <2>4 DEF Distinct
    <2>5. CASE i > Len(q) /\ j > Len(q)
      <3>1. /\ i - Len(q) \in DOMAIN r /\ j - Len(q) \in DOMAIN r
            /\ r[i - Len(q)] = r[j - Len(q)]
        BY <2>1, <2>3, <2>5
      <3>2. i - Len(q) = j - Len(q)
        BY <1>5, <3>1 DEF Distinct
      <3>3. QED
        BY <1>1, <3>2
    <2>6. CASE i <= Len(q) /\ j > Len(q)
      BY <1>5, <2>1, <2>2, <2>3, <2>6
    <2>7. CASE i > Len(q) /\ j <= Len(q)
      BY <1>5, <2>1, <2>2, <2>3, <2>7
    <2>8. QED
      BY <1>1, <2>4, <2>5, <2>6, <2>7
  <1>6. QED
    BY <1>2, <1>3, <1>4, <1>5 DEF c

-----------------------------------------------------------------------------
\* A step that leaves the places of the states alone: it changes no
\* constraints, ends only states of the result, and takes back no mark.
Quiet ==
    /\ UNCHANGED <<aliveStates, s0, s1, postponedStates, completedStates,
                   result, released>>
    /\ \A a \in Addrs :
         /\ state'[a].constraints = state[a].constraints
         /\ a \notin Range(result) => state'[a].status = state[a].status
         /\ state[a].triggerNewIssue => state'[a].triggerNewIssue

\* Raising an issue on a state of the result changes that state only.
LEMMA RaiseFrame ==
    ASSUME TypeOK, NEW t \in Range(result), NEW K,
           state' = [state EXCEPT ![t] = raisedState(@, K)]
    PROVE  \A a \in Addrs :
             /\ state'[a].constraints = state[a].constraints
             /\ a \notin Range(result) => state'[a].status = state[a].status
             /\ state[a].triggerNewIssue => state'[a].triggerNewIssue
  <1>1. t \in Addrs
    BY RangeInSet DEF TypeOK, ControlType
  <1>2. SUFFICES ASSUME NEW a \in Addrs
                 PROVE  /\ state'[a].constraints = state[a].constraints
                        /\ a \notin Range(result) => state'[a].status = state[a].status
                        /\ state[a].triggerNewIssue => state'[a].triggerNewIssue
    OBVIOUS
  <1>3. CASE a = t
    <2>1. state'[a] = raisedState(state[a], K)
      BY <1>1, <1>3 DEF TypeOK, TestType
    <2>2. state[a] \in State
      BY DEF TypeOK, TestType
    <2>3. QED
      BY <1>3, <2>1, <2>2, RaisedStateType
  <1>4. CASE a # t
    BY <1>4, ZenonT(60) DEF TypeOK, TestType
  <1>5. QED
    BY <1>3, <1>4

\* The steps of main that only move the control, the issues or the gold program
\* leave the places of the test states and their constraints alone.
LEMMA QuietSteps ==
    ASSUME TypeOK, ControlInv, [Next]_vars,
           ~FetchNormal, ~FetchPostponed, ~Split, ~Push
    PROVE  Quiet
  <1>. USE DEF Quiet
  <1>0. Checking \/ pc \in {"compare", "goldcheck"} => result[idx] \in Range(result)
    BY CheckedState, ZenonT(60)
  <1>1. CASE \/ FetchNone \/ NextLevel \/ CheckBroken \/ NoGold
    BY <1>1, ZenonT(60) DEF FetchNone, NextLevel, CheckBroken, NoGold
  <1>2. CASE RaiseIssue
    BY <1>2, RaiseFrame, ZenonT(60) DEF RaiseIssue, newStateIssue
  <1>3. CASE FetchFails
    <2>1. result[1] \in Range(result)
      <3>1. pc = "step"
        BY <1>3, ZenonT(60) DEF FetchFails
      <3>2. QED
        BY <3>1, FetchedState, ZenonT(60)
    <2>2. QED
      BY <1>3, <2>1, RaiseFrame, ZenonT(60) DEF FetchFails, newStateIssue
  <1>4. CASE Halt
    BY <1>4, RangeInSet DEF Halt, haltedState, TypeOK, TestType, ControlType, State
  <1>5. CASE FinishStep
    <2>1. PICK T \in SUBSET {t \in Range(result) : state[t].status = "NORMAL"} :
            state' = [a \in Addrs |-> IF a \in T
                                      THEN [state[a] EXCEPT !.coveredNew = TRUE]
                                      ELSE state[a]]
      BY <1>5, Zenon DEF FinishStep
    <2>2. QED
      BY <1>5, <2>1 DEF FinishStep, TypeOK, TestType, State
  <1>6. CASE CheckLimit
    BY <1>0, <1>6, RaiseFrame DEF CheckLimit, newStateIssue
  <1>7. CASE PostCheck
    BY <1>0, <1>7, RaiseFrame, ZenonT(60) DEF PostCheck, newStateIssue
  <1>8. CASE CompareWithStartup
    BY <1>0, <1>8, RaiseFrame DEF CompareWithStartup, compare
  <1>9. CASE GoldCheck
    BY <1>0, <1>9, RaiseFrame, ZenonT(60) DEF GoldCheck, compare
  <1>10. CASE \/ LaunchGold \/ GoldStep \/ GoldWarns \/ GoldBreaks \/ GoldPush
              \/ GoldPoll \/ GoldDone
    BY <1>10, ZenonT(60) DEF LaunchGold, GoldStep, GoldWarns, GoldBreaks, GoldPush, GoldPoll, GoldDone
  <1>11. CASE \/ Poll \/ Environment \/ Finished \/ UNCHANGED vars
    BY <1>11 DEF Poll, Environment, Finished, vars
  <1>12. QED
    BY <1>1, <1>2, <1>3, <1>4, <1>5, <1>6, <1>7, <1>8, <1>9, <1>10, <1>11, ZenonT(60)
    DEF Next, Loop

-----------------------------------------------------------------------------
\* What Split does to the states: the result are the owners, the new ones among
\* them were not allocated, and only they and the stepped state change.
LEMMA SplitFacts ==
    ASSUME TypeOK, ControlInv, Split
    PROVE  LET s == result[1]
               C == state[s].constraints
           IN  /\ Range(result) = {s} /\ s \in Addrs
               /\ \E owner \in [C -> (Addrs \ aliveStates) \cup {s}] :
                    /\ s \in Range(owner)
                    /\ Range(result') = Range(owner) /\ Distinct(result')
                    /\ aliveStates' = aliveStates \cup Range(owner)
                    /\ \A a \in Range(owner) :
                         state'[a].constraints = {x \in C : owner[x] = a}
                    /\ state'[s].triggerNewIssue = state[s].triggerNewIssue
                    /\ \A a \in Addrs \ Range(owner) : state'[a] = state[a]
  <1>. DEFINE s == result[1]
              C == state[s].constraints
  <1>1. pc \in {"step", "fetched"}
    BY ZenonT(60) DEF Split
  <1>2. s \in Addrs /\ Range(result) = {s}
    BY <1>1, FetchedState
  <1>3. C \in SUBSET Inputs /\ state[s] \in State /\ state \in [Addrs -> State]
    BY <1>2 DEF TypeOK, TestType, State
  <1>4. PICK owner \in [C -> (Addrs \ aliveStates) \cup {s}] : distribute(s, owner)
    BY DEF Split
  <1>. HIDE DEF s
  <1>5. Range(owner) \subseteq Addrs
    BY <1>2 DEF Range
  <1>6. /\ s \in Range(owner)
        /\ Range(result') = Range(owner) /\ Distinct(result')
        /\ aliveStates' = aliveStates \cup Range(owner)
    BY <1>4 DEF distribute, forkedFrom
  <1>7. state' = [a \in Addrs |->
          IF a = s
          THEN countStep([state[s] EXCEPT !.constraints = ownPart(C, owner, s)])
          ELSE IF a \in Range(owner)
          THEN countStep(forkState(state[s], {x \in C : owner[x] = a}))
          ELSE state[a]]
    BY <1>4 DEF distribute, forkedFrom
  <1>8. \A a \in Addrs \ Range(owner) : state'[a] = state[a]
    BY <1>6, <1>7
  <1>9. /\ state'[s].constraints = {x \in C : owner[x] = s}
        /\ state'[s].triggerNewIssue = state[s].triggerNewIssue
    <2>. DEFINE new == [state[s] EXCEPT !.constraints = ownPart(C, owner, s)]
    <2>1. /\ new \in State /\ new.constraints = {x \in C : owner[x] = s}
          /\ new.triggerNewIssue = state[s].triggerNewIssue
      BY <1>3 DEF ownPart, State
    <2>2. state'[s] = countStep(new)
      BY <1>2, <1>7
    <2>3. QED
      BY <1>3, <2>1, <2>2, ForkType, ZenonT(60)
  <1>10. ASSUME NEW a \in Range(owner), a # s
         PROVE  state'[a].constraints = {x \in C : owner[x] = a}
    <2>. DEFINE new == forkState(state[s], {x \in C : owner[x] = a})
    <2>1. new \in State /\ new.constraints = {x \in C : owner[x] = a}
      BY <1>3, ForkType
    <2>2. state'[a] = countStep(new)
      BY <1>5, <1>7, <1>10
    <2>3. QED
      BY <1>3, <2>1, <2>2, ForkType, ZenonT(60)
  <1>11. QED
    BY <1>2, <1>6, <1>8, <1>9, <1>10, ZenonT(60) DEF s

\* What Push does.
LEMMA PushFacts ==
    ASSUME TypeOK, Push
    PROVE  \E P \in SUBSET normalStates :
             /\ Range(s0') = Range(s0) \cup prioritized
             /\ Range(s1') = Range(s1) \cup ((normalStates \ P) \ prioritized)
             /\ P \cap prioritized = {}
             /\ Distinct(s0) /\ Distinct(result) /\ Range(s0) \cap Range(result) = {}
                  => Distinct(s0')
             /\ Distinct(s1) /\ Distinct(result) /\ Range(s1) \cap Range(result) = {}
                  => Distinct(s1')
             /\ postponedStates' = postponedStates \cup P
             /\ completedStates' = (completedStates \cup endedStates) \ freedStates
             /\ aliveStates' = aliveStates \ freedStates
             /\ released' = released \cup UNION {state[t].constraints : t \in freedStates}
             /\ result' = <<>>
             /\ \A a \in Addrs \ freedStates :
                  /\ state'[a].constraints = state[a].constraints
                  /\ state'[a].status = state[a].status
                  /\ state'[a].triggerNewIssue = state[a].triggerNewIssue
  <1>0. PICK P \in SUBSET mayPostpone : \E A : take(P, A)
    BY DEF Push
  <1>1. PICK A : take(P, A)
    BY <1>0
  <1>2. P \in SUBSET normalStates /\ P \cap prioritized = {}
    BY DEF mayPostpone, prioritized
  <1>3. /\ s0 \in Seq(Addrs) /\ s1 \in Seq(Addrs) /\ result \in Seq(Addrs)
        /\ state \in [Addrs -> State]
    BY DEF TypeOK, TestType, SearchType, ControlType
  <1>4. /\ prioritized \subseteq Range(result)
        /\ (normalStates \ P) \ prioritized \subseteq Range(result)
    BY DEF prioritized, normalStates
  <1>5. /\ Range(s0') = Range(s0) \cup prioritized
        /\ Distinct(s0) /\ Distinct(result) /\ Range(s0) \cap Range(result) = {}
             => Distinct(s0')
    <2>1. PICK q \in pushed(result, prioritized) : s0' = s0 \o q
      BY <1>1, Zenon DEF take
    <2>2. q \in Seq(Addrs) /\ Range(q) = prioritized /\ (Distinct(result) => Distinct(q))
      <3>1. /\ q \in Seq(Addrs) /\ Range(q) = Range(result) \cap prioritized
            /\ (Distinct(result) => Distinct(q))
        BY <1>3, PushedType, PushedRange
      <3>2. QED
        BY <1>4, <3>1
    <2>3. QED
      BY <1>3, <1>4, <2>1, <2>2, ConcatRange
  <1>6. /\ Range(s1') = Range(s1) \cup ((normalStates \ P) \ prioritized)
        /\ Distinct(s1) /\ Distinct(result) /\ Range(s1) \cap Range(result) = {}
             => Distinct(s1')
    <2>1. PICK q \in pushed(result, (normalStates \ P) \ prioritized) : s1' = s1 \o q
      BY <1>1, Zenon DEF take
    <2>2. /\ q \in Seq(Addrs) /\ Range(q) = (normalStates \ P) \ prioritized
          /\ (Distinct(result) => Distinct(q))
      <3>. DEFINE N == (normalStates \ P) \ prioritized
      <3>1. q \in pushed(result, N) /\ N \subseteq Range(result)
        BY <1>4
      <3>. HIDE DEF N
      <3>2. /\ q \in Seq(Addrs) /\ Range(q) = Range(result) \cap N
            /\ (Distinct(result) => Distinct(q))
        BY <1>3, <3>1, PushedType, PushedRange
      <3>3. QED
        BY <3>1, <3>2 DEF N
    <2>3. QED
      BY <1>3, <1>4, <2>1, <2>2, ConcatRange
  <1>7. ASSUME NEW a \in Addrs \ freedStates
        PROVE  /\ state'[a].constraints = state[a].constraints
               /\ state'[a].status = state[a].status
               /\ state'[a].triggerNewIssue = state[a].triggerNewIssue
    <2>1. state'[a] = IF a \in A THEN [state[a] EXCEPT !.avoidPostpone = TRUE]
                                 ELSE state[a]
      BY <1>1 DEF take
    <2>2. QED
      BY <1>3, <2>1 DEF State
  <1>8. QED
    BY <1>1, <1>2, <1>5, <1>6, <1>7, ZenonT(60) DEF take, completedAfter, Push

-----------------------------------------------------------------------------
\* Every step keeps every state at one place.
LEMMA PlaceStep ==
    ASSUME TypeOK, ControlInv, OnePlacePerState, [Next]_vars
    PROVE  OnePlacePerState'
  <1>0. /\ s0 \in Seq(Addrs) /\ s1 \in Seq(Addrs) /\ result \in Seq(Addrs)
        /\ aliveStates \subseteq Addrs /\ state \in [Addrs -> State]
    BY DEF TypeOK, TestType, SearchType, ControlType
  <1>1. CASE FetchNormal
    <2>1. result = <<>> /\ Range(result) = {}
      BY <1>1 DEF FetchNormal, ControlInv, Range
    <2>2. ASSUME NEW x PROVE Range(<<x>>) = {x} /\ Distinct(<<x>>)
      BY DEF Range, Distinct
    <2>3. CASE s0 # <<>> /\ result' = <<back(s0)>> /\ s0' = pop_back(s0) /\ s1' = s1
      <3>1. /\ Distinct(s0') /\ back(s0) \notin Range(s0')
            /\ Range(s0) = Range(s0') \cup {back(s0)}
        BY <1>0, <2>3, PopDistinct DEF OnePlacePerState
      <3>2. Range(result') = {back(s0)} /\ Distinct(result')
        BY <2>2, <2>3, ZenonT(60)
      <3>3. QED
        BY <1>1, <2>1, <2>3, <3>1, <3>2 DEF FetchNormal, OnePlacePerState
    <2>4. CASE s1 # <<>> /\ result' = <<back(s1)>> /\ s1' = pop_back(s1) /\ s0' = s0
      <3>1. /\ Distinct(s1') /\ back(s1) \notin Range(s1')
            /\ Range(s1) = Range(s1') \cup {back(s1)}
        BY <1>0, <2>4, PopDistinct DEF OnePlacePerState
      <3>2. Range(result') = {back(s1)} /\ Distinct(result')
        BY <2>2, <2>4
      <3>3. QED
        BY <1>1, <2>1, <2>4, <3>1, <3>2 DEF FetchNormal, OnePlacePerState
    <2>5. QED
      BY <1>1, <2>3, <2>4 DEF FetchNormal
  <1>2. CASE FetchPostponed
    <2>1. result = <<>> /\ Range(result) = {}
      BY <1>2 DEF FetchPostponed, ControlInv, Range
    <2>2. PICK a \in postponedStates :
            /\ result' = <<a>>
            /\ postponedStates' = postponedStates \ {a}
            /\ state' = [state EXCEPT ![a].avoidPostpone = TRUE]
      BY <1>2, ZenonT(60) DEF FetchPostponed
    <2>3. Range(result') = {a} /\ Distinct(result')
      BY <2>2 DEF Range, Distinct
    <2>4. \A b \in aliveStates : state'[b].status = state[b].status
      BY <1>0, <2>2 DEF State
    <2>5. QED
      BY <1>2, <2>1, <2>2, <2>3, <2>4 DEF FetchPostponed, OnePlacePerState
  <1>3. CASE Split
    <2>. DEFINE s == result[1]
    <2>1. Range(result) = {s} /\ s \in Addrs
      BY <1>3, SplitFacts
    <2>2. PICK owner \in [state[s].constraints -> (Addrs \ aliveStates) \cup {s}] :
            /\ s \in Range(owner)
            /\ Range(result') = Range(owner) /\ Distinct(result')
            /\ aliveStates' = aliveStates \cup Range(owner)
            /\ \A a \in Addrs \ Range(owner) : state'[a] = state[a]
      BY <1>3, SplitFacts
    <2>3. Range(owner) \subseteq (Addrs \ aliveStates) \cup {s}
      BY DEF Range
    <2>. HIDE DEF s
    <2>4. UNCHANGED searchVars
      BY <1>3 DEF Split
    <2>5. \A a \in Range(s0) \cup Range(s1) \cup postponedStates \cup completedStates :
            a \in Addrs \ Range(owner)
      BY <1>0, <2>1, <2>3, ZenonT(60) DEF OnePlacePerState
    <2>6. QED
      BY <2>1, <2>2, <2>3, <2>4, <2>5 DEF OnePlacePerState
  <1>4. CASE Push
    <2>1. PICK P \in SUBSET normalStates :
             /\ Range(s0') = Range(s0) \cup prioritized
             /\ Range(s1') = Range(s1) \cup ((normalStates \ P) \ prioritized)
             /\ P \cap prioritized = {}
             /\ Distinct(s0') /\ Distinct(s1')
             /\ postponedStates' = postponedStates \cup P
             /\ completedStates' = (completedStates \cup endedStates) \ freedStates
             /\ aliveStates' = aliveStates \ freedStates
             /\ result' = <<>>
             /\ \A a \in Addrs \ freedStates : state'[a].status = state[a].status
      BY <1>4, PushFacts, ZenonT(60) DEF OnePlacePerState
    <2>2. /\ Range(result) = normalStates \cup endedStates
          /\ normalStates \cap endedStates = {}
          /\ freedStates \subseteq endedStates
          /\ prioritized \subseteq normalStates
          /\ \A a \in normalStates : state[a].status = "NORMAL"
          /\ \A a \in endedStates : state[a].status # "NORMAL"
      BY DEF normalStates, endedStates, freedStates, prioritized
    <2>3. Range(result') = {} /\ Distinct(result')
      BY <2>1, SmallVector, ZenonT(60)
    <2>4. \A a \in aliveStates \ freedStates : state'[a].status = state[a].status
      BY <1>0, <2>1
    <2>5. QED
      BY <2>1, <2>2, <2>3, <2>4, ZenonT(60) DEF OnePlacePerState
  <1>5. CASE ~FetchNormal /\ ~FetchPostponed /\ ~Split /\ ~Push
    <2>1. Quiet
      BY <1>5, QuietSteps
    <2>2. QED
      BY <1>0, <2>1 DEF Quiet, OnePlacePerState
  <1>6. QED
    BY <1>1, <1>2, <1>3, <1>4, <1>5

-----------------------------------------------------------------------------
\* Every step keeps the inputs partitioned among the states.
LEMMA PartitionStep ==
    ASSUME TypeOK, ControlInv, OnePlacePerState, InputSpacePartition, [Next]_vars
    PROVE  InputSpacePartition'
  <1>0. aliveStates \subseteq Addrs /\ state \in [Addrs -> State]
    BY ZenonT(60) DEF TypeOK, TestType
  <1>1. ASSUME UNCHANGED <<aliveStates, released>>,
               \A a \in Addrs : state'[a].constraints = state[a].constraints
        PROVE  InputSpacePartition'
    <2>1. {state'[a].constraints : a \in aliveStates} = {state[a].constraints : a \in aliveStates}
      BY <1>0, <1>1
    <2>2. QED
      BY <1>0, <1>1, <2>1, ZenonT(60) DEF InputSpacePartition
  <1>2. CASE FetchNormal
    BY <1>1, <1>2 DEF FetchNormal
  <1>3. CASE FetchPostponed
    <2>1. \A a \in Addrs : state'[a].constraints = state[a].constraints
      BY <1>0, <1>3 DEF FetchPostponed, State
    <2>2. QED
      BY <1>1, <1>3, <2>1 DEF FetchPostponed
  <1>4. CASE Split
    <2>. DEFINE s == result[1]
                C == state[s].constraints
    <2>1. Range(result) = {s} /\ s \in Addrs
      BY <1>4, SplitFacts
    <2>2. s \in aliveStates
      BY <2>1 DEF OnePlacePerState
    <2>3. PICK owner \in [C -> (Addrs \ aliveStates) \cup {s}] :
            /\ s \in Range(owner)
            /\ aliveStates' = aliveStates \cup Range(owner)
            /\ \A a \in Range(owner) : state'[a].constraints = {x \in C : owner[x] = a}
            /\ \A a \in Addrs \ Range(owner) : state'[a] = state[a]
      BY <1>4, SplitFacts, ZenonT(60)
    <2>4. released' = released
      BY <1>4 DEF Split
    <2>. HIDE DEF s
    <2>. DEFINE old == aliveStates \ {s}
    <2>5. /\ Range(owner) \cap old = {} /\ aliveStates = old \cup {s}
          /\ aliveStates' = old \cup Range(owner)
          /\ \A a \in old : state'[a].constraints = state[a].constraints
      BY <1>0, <2>2, <2>3 DEF Range
    <2>6. \A a \in Range(owner) : /\ state'[a].constraints # {}
                                   /\ state'[a].constraints \subseteq C
      BY <2>3 DEF Range
    <2>7. \A x \in C : owner[x] \in Range(owner) /\ x \in state'[owner[x]].constraints
      BY <2>3 DEF Range
    <2>8. \A a, b \in Range(owner) :
            a # b => state'[a].constraints \cap state'[b].constraints = {}
      BY <2>3
    <2>. HIDE DEF old, C
    <2>9. /\ \A a \in old : state[a].constraints # {} /\ state[a].constraints \cap released = {}
          /\ \A a, b \in old : a # b => state[a].constraints \cap state[b].constraints = {}
          /\ \A a \in old : state[a].constraints \cap C = {}
          /\ C \cap released = {}
          /\ \A x \in Inputs : x \in released \/ x \in C \/ \E a \in old : x \in state[a].constraints
          /\ released \subseteq Inputs /\ C \subseteq Inputs
      BY <1>0, <2>2, <2>5 DEF InputSpacePartition, old, C, State
    <2>10. \A a \in aliveStates' : /\ state'[a].constraints # {}
                                     /\ state'[a].constraints \cap released' = {}
      BY <2>4, <2>5, <2>6, <2>9, ZenonT(60)
    <2>11. \A a, b \in aliveStates' :
             a # b => state'[a].constraints \cap state'[b].constraints = {}
      BY <2>5, <2>6, <2>8, <2>9
    <2>12. \A x \in Inputs : x \in released' \/ \E a \in aliveStates' : x \in state'[a].constraints
      BY <2>4, <2>5, <2>7, <2>9
    <2>13. /\ released' \subseteq Inputs
           /\ \A a \in aliveStates' : state'[a].constraints \subseteq Inputs
      <3>1. \A a \in old : state[a].constraints \subseteq Inputs
        BY <1>0 DEF State, old
      <3>2. QED
        BY <2>4, <2>5, <2>6, <2>9, <3>1
    <2>14. QED
      BY <2>10, <2>11, <2>12, <2>13 DEF InputSpacePartition
  <1>5. CASE Push
    <2>1. /\ aliveStates' = aliveStates \ freedStates
          /\ released' = released \cup UNION {state[t].constraints : t \in freedStates}
          /\ \A a \in Addrs \ freedStates : state'[a].constraints = state[a].constraints
      BY <1>5, PushFacts, ZenonT(60)
    <2>2. freedStates \subseteq aliveStates
      BY DEF freedStates, endedStates, OnePlacePerState
    <2>3. \A a \in aliveStates' : a \in aliveStates /\ state'[a].constraints = state[a].constraints
      BY <1>0, <2>1
    <2>4. \A a \in aliveStates', t \in freedStates :
            state'[a].constraints \cap state[t].constraints = {}
      BY <2>1, <2>2, <2>3 DEF InputSpacePartition
    <2>5. \A a \in aliveStates' : state'[a].constraints \cap released' = {}
      BY <2>1, <2>3, <2>4 DEF InputSpacePartition
    <2>6. ASSUME NEW x \in Inputs
          PROVE  x \in released' \cup UNION {state'[a].constraints : a \in aliveStates'}
      <3>1. x \in released \/ \E a \in aliveStates : x \in state[a].constraints
        BY DEF InputSpacePartition
      <3>2. QED
        BY <2>1, <2>3, <3>1
    <2>7. ASSUME NEW x \in released' \cup UNION {state'[a].constraints : a \in aliveStates'}
          PROVE  x \in Inputs
      BY <2>1, <2>2, <2>3, <2>7 DEF InputSpacePartition
    <2>8. QED
      BY <2>3, <2>5, <2>6, <2>7 DEF InputSpacePartition
  <1>6. CASE ~FetchNormal /\ ~FetchPostponed /\ ~Split /\ ~Push
    <2>1. Quiet
      BY <1>6, QuietSteps
    <2>2. QED
      BY <1>1, <2>1 DEF Quiet
  <1>7. QED
    BY <1>2, <1>3, <1>4, <1>5, <1>6

-----------------------------------------------------------------------------
\* The startup state of the gold program is neither searched nor released.
LEMMA GoldStepInv ==
    ASSUME TypeOK, ControlInv, GoldInv, [Next]_vars
    PROVE  GoldInv'
  <1>0. /\ goldStack \in Seq(GoldAddrs) /\ goldResult \in Seq(GoldAddrs)
        /\ goldAlive \subseteq GoldAddrs
    BY DEF TypeOK, GoldType
  <1>1. CASE LaunchGold
    <2>1. PICK g \in GoldAddrs \ goldAlive : goldAlive' = goldAlive \cup {g} /\ goldStack' = <<g>>
      BY <1>1 DEF LaunchGold
    <2>2. Range(goldStack') = {g}
      BY <2>1, SmallVector, ZenonT(60)
    <2>3. QED
      BY <1>1, <2>1, <2>2 DEF LaunchGold, GoldInv
  <1>2. CASE GoldStep
    <2>. DEFINE s == back(goldStack)
    <2>1. PICK owner \in [gold[s].constraints -> (GoldAddrs \ goldAlive) \cup {s}] :
            goldDistribute(s, owner)
      BY <1>2, ZenonT(60) DEF GoldStep
    <2>2. /\ Range(goldResult') = Range(owner)
          /\ goldAlive' = goldAlive \cup Range(owner)
      BY <2>1, ZenonT(60) DEF goldDistribute
    <2>3. s \in Range(goldStack) /\ Range(pop_back(goldStack)) \subseteq Range(goldStack)
      <3>1. goldStack # <<>>
        BY <1>2, ZenonT(60) DEF GoldStep
      <3>2. Len(goldStack) \in DOMAIN goldStack
        BY <1>0, <3>1
      <3>3. s \in Range(goldStack)
        BY <3>2 DEF back, Range
      <3>4. \A i \in DOMAIN pop_back(goldStack) :
              i \in DOMAIN goldStack /\ pop_back(goldStack)[i] = goldStack[i]
        BY <1>0, <3>1 DEF pop_back
      <3>5. QED
        BY <3>3, <3>4, ZenonT(60) DEF Range
    <2>4. Range(owner) \subseteq (GoldAddrs \ goldAlive) \cup {s}
      BY DEF Range
    <2>. HIDE DEF s
    <2>5. goldStartup \notin Range(owner)
      BY <2>3, <2>4, ZenonT(60) DEF GoldInv
    <2>6. QED
      BY <1>2, <2>2, <2>3, <2>5, ZenonT(60) DEF GoldStep, GoldInv
  <1>3. CASE GoldPush
    <2>1. PICK q \in pushed(goldResult, {g \in goldAlive : gold[g].status = "NORMAL"}) :
            goldStack' = goldStack \o q
      BY <1>3, ZenonT(60) DEF GoldPush
    <2>2. q \in Seq(GoldAddrs) /\ Range(q) \subseteq Range(goldResult)
      <3>. DEFINE N == {g \in goldAlive : gold[g].status = "NORMAL"}
      <3>. HIDE DEF N
      <3>1. q \in pushed(goldResult, N)
        BY ZenonT(60) DEF N
      <3>2. QED
        BY <1>0, <3>1, PushedType, PushedRange
    <2>3. Range(goldStack') \subseteq Range(goldStack) \cup Range(goldResult)
      BY <1>0, <2>1, <2>2, ConcatRange
    <2>4. Range(goldResult') = {} /\ goldStartup \in goldAlive'
      <3>1. /\ goldResult' = <<>>
            /\ \E D \in SUBSET Range(goldResult) : goldAlive' = goldAlive \ D
        BY <1>3, ZenonT(60) DEF GoldPush
      <3>2. Range(goldResult') = {}
        BY <3>1 DEF Range
      <3>3. QED
        BY <3>1, <3>2, ZenonT(60) DEF GoldInv
    <2>5. QED
      BY <1>3, <2>3, <2>4, ZenonT(60) DEF GoldPush, GoldInv
  <1>4. CASE UNCHANGED <<goldAlive, goldStack, goldResult, goldStartup>>
    BY <1>4, ZenonT(60) DEF GoldInv
  <1>5. ASSUME ~LaunchGold, ~GoldStep, ~GoldPush
        PROVE  UNCHANGED <<goldAlive, goldStack, goldResult, goldStartup>>
    BY <1>5, ZenonT(60) DEF Next, Loop, FetchNormal, FetchPostponed, FetchNone, NextLevel, RaiseIssue,
           FetchFails, Split, Halt, haltedState, FinishStep, CheckLimit, CheckBroken, PostCheck,
           NoGold, CompareWithStartup, GoldWarns, GoldBreaks, GoldCheck, GoldPoll,
           GoldDone, Push, Poll, Environment, Finished, vars
  <1>6. QED
    BY <1>1, <1>2, <1>3, <1>4, <1>5

\* What raiseIssues on a state of the result does to the marks.
LEMMA RaiseMarks ==
    ASSUME TypeOK, OnePlacePerState, MarkInv, NEW t \in Range(result),
           NEW K \in SUBSET Issue, NEW g \in GoldAddrs \cup {None}, raiseIssues(t, K, g),
           state' = [state EXCEPT ![t] = raisedState(@, K)],
           aliveStates' = aliveStates, goldAlive' = goldAlive,
           \A a \in GoldAddrs : gold[a].triggerNewIssue => gold'[a].triggerNewIssue,
           g # None => g \in goldAlive,
           g # None /\ (\E k \in K : Accepted(issues, k)) => gold'[g].triggerNewIssue
    PROVE  MarkInv'
  <1>1. /\ t \in Addrs /\ t \in aliveStates /\ state[t] \in State
        /\ state \in [Addrs -> State] /\ issues \subseteq Issue
        /\ aliveStates \subseteq Addrs /\ goldAlive \subseteq GoldAddrs
    BY RangeInSet, ZenonT(60) DEF OnePlacePerState, TypeOK, TestType, PackageType, ControlType, GoldType
  <1>2. \A a \in Addrs : state[a].triggerNewIssue => state'[a].triggerNewIssue
    BY RaiseFrame, ZenonT(60)
  <1>3. (\E k \in K : Accepted(issues, k)) => state'[t].triggerNewIssue
    <2>1. state'[t] = raisedState(state[t], K)
      BY <1>1, ZenonT(60)
    <2>2. QED
      BY <1>1, <2>1, RaisedStateType, ZenonT(60)
  <1>4. SUFFICES ASSUME NEW k \in issues'
                 PROVE  /\ info'[k].s \in aliveStates /\ state'[info'[k].s].triggerNewIssue
                        /\ info'[k].gold # None =>
                             /\ info'[k].gold \in goldAlive
                             /\ gold'[info'[k].gold].triggerNewIssue
    BY ZenonT(60) DEF MarkInv
  <1>5. CASE k \in K /\ Accepted(issues, k)
    <2>1. info'[k].s = t /\ info'[k].gold = g
      BY <1>5, ZenonT(60) DEF raiseIssues
    <2>2. QED
      BY <1>1, <1>3, <1>5, <2>1, ZenonT(60)
  <1>6. CASE ~ (k \in K /\ Accepted(issues, k))
    <2>1. k \in issues /\ info'[k] = info[k]
      BY <1>1, <1>6, ZenonT(60) DEF raiseIssues
    <2>2. /\ info[k].s \in aliveStates /\ state[info[k].s].triggerNewIssue
          /\ info[k].gold # None =>
               info[k].gold \in goldAlive /\ gold[info[k].gold].triggerNewIssue
      BY <2>1, ZenonT(60) DEF MarkInv
    <2>3. QED
      BY <1>1, <1>2, <2>1, <2>2, ZenonT(60)
  <1>7. QED
    BY <1>5, <1>6, ZenonT(60)

\* What an issue refers to stays marked and allocated.
LEMMA MarkStep ==
    ASSUME TypeOK, IInv, [Next]_vars
    PROVE  MarkInv'
  <1>. USE DEF IInv
  <1>0. /\ state \in [Addrs -> State] /\ gold \in [GoldAddrs -> GoldState]
        /\ aliveStates \subseteq Addrs /\ goldAlive \subseteq GoldAddrs
        /\ issues \subseteq Issue /\ None \notin GoldAddrs
    BY ExplorationAssumption DEF TypeOK, TestType, GoldType, PackageType
  <1>1. ASSUME UNCHANGED <<issues, info>>,
               \A a \in aliveStates : state[a].triggerNewIssue =>
                 a \in aliveStates' /\ state'[a].triggerNewIssue,
               \A a \in goldAlive : gold[a].triggerNewIssue =>
                 a \in goldAlive' /\ gold'[a].triggerNewIssue
        PROVE  MarkInv'
    BY <1>1 DEF MarkInv
  <1>2. Checking \/ pc \in {"compare", "goldcheck"} => result[idx] \in Range(result)
    BY CheckedState
  \* Raising an issue that no comparison is about.
  <1>3. ASSUME NEW t \in Range(result), NEW k \in Issue, newStateIssue(t, k),
               UNCHANGED <<aliveStates, goldVars>>
        PROVE  MarkInv'
    <2>1. raiseIssues(t, {k}, None) /\ state' = [state EXCEPT ![t] = raisedState(@, {k})]
      BY <1>3 DEF newStateIssue
    <2>2. QED
      BY <1>3, <2>1, RaiseMarks, ZenonT(60)
  \* A comparison.
  <1>4. ASSUME NEW t \in Range(result), NEW g \in goldAlive, NEW F,
               compare(g, t, F), UNCHANGED <<aliveStates, goldAlive>>
        PROVE  MarkInv'
    <2>. DEFINE K == {[type |-> ty, location |-> NullLoc] : ty \in FailedTypes(F, differ)}
    <2>1. K \in SUBSET Issue
      BY ExplorationAssumption, IssueType DEF FailedTypes, FailedPairs
    <2>2. /\ raiseIssues(t, K, g)
          /\ state' = [state EXCEPT ![t] = raisedState(@, K)]
          /\ gold' = [gold EXCEPT ![g].triggerNewIssue = @ \/ \E k \in K : Accepted(issues, k)]
      BY <1>4 DEF compare
    <2>. HIDE DEF K
    <2>3. /\ \A a \in GoldAddrs : gold[a].triggerNewIssue => gold'[a].triggerNewIssue
          /\ (\E k \in K : Accepted(issues, k)) => gold'[g].triggerNewIssue
      BY <1>0, <2>2, ZenonT(60) DEF GoldState
    <2>4. g \in GoldAddrs
      BY <1>0
    <2>5. QED
      BY <1>4, <2>1, <2>2, <2>3, <2>4, RaiseMarks, ZenonT(60)
  <1>5. CASE RaiseIssue
    BY <1>3, <1>5, IssueType DEF RaiseIssue
  <1>6. CASE FetchFails
    <2>1. result[1] \in Range(result)
      <3>1. pc = "step"
        BY <1>6, ZenonT(60) DEF FetchFails
      <3>2. QED
        BY <3>1, FetchedState, ZenonT(60)
    <2>2. PICK l \in Lines \cup {NullLoc} :
            newStateIssue(result[1], [type |-> FetchError, location |-> l])
      BY <1>6, ZenonT(60) DEF FetchFails
    <2>3. QED
      BY <1>3, <1>6, <2>1, <2>2, IssueType, ZenonT(60) DEF FetchFails
  <1>7. CASE CheckLimit
    <2>1. CASE newStateIssue(result[idx], [type |-> StepLimit, location |-> NullLoc])
      BY <1>2, <1>3, <1>7, <2>1, IssueType, ZenonT(60) DEF CheckLimit
    <2>2. CASE UNCHANGED <<issues, info, state, seen>>
      BY <1>1, <1>7, <2>2, ZenonT(60) DEF CheckLimit
    <2>3. QED
      BY <1>7, <2>1, <2>2, ZenonT(60) DEF CheckLimit
  <1>8. CASE PostCheck
    <2>1. CASE \E l \in Lines : newStateIssue(result[idx], [type |-> HaltInSub, location |-> l])
      BY <1>2, <1>3, <1>8, <2>1, IssueType, ZenonT(60) DEF PostCheck
    <2>2. CASE UNCHANGED <<issues, info, state, seen>>
      BY <1>1, <1>8, <2>2, ZenonT(60) DEF PostCheck
    <2>3. QED
      BY <1>8, <2>1, <2>2, ZenonT(60) DEF PostCheck
  <1>9. CASE CompareWithStartup
    BY <1>2, <1>4, <1>9, ZenonT(60) DEF CompareWithStartup, GoldInv
  <1>10. CASE GoldCheck
    <2>1. goldResult[goldIdx] \in goldAlive
      <3>1. pc = "goldcheck" /\ goldIdx <= Len(goldResult)
        BY <1>10 DEF GoldCheck
      <3>2. goldResult[goldIdx] \in Range(goldResult)
        BY <3>1, CheckedGoldState, ZenonT(60)
      <3>3. QED
        BY <3>2, ZenonT(60) DEF GoldInv
    <2>2. CASE compare(goldResult[goldIdx], result[idx], gold[goldResult[goldIdx]].constraints)
      BY <1>2, <1>4, <1>10, <2>1, <2>2, ZenonT(60) DEF GoldCheck
    <2>3. CASE UNCHANGED <<issues, info, state, gold, finalSets>>
      BY <1>1, <1>10, <2>3, ZenonT(60) DEF GoldCheck
    <2>4. QED
      BY <1>10, <2>2, <2>3 DEF GoldCheck
  <1>11. CASE Split
    <2>. DEFINE s == result[1]
    <2>1. PICK owner \in [state[s].constraints -> (Addrs \ aliveStates) \cup {s}] :
            /\ aliveStates' = aliveStates \cup Range(owner)
            /\ state'[s].triggerNewIssue = state[s].triggerNewIssue
            /\ \A a \in Addrs \ Range(owner) : state'[a] = state[a]
      BY <1>11, SplitFacts, ZenonT(60)
    <2>2. Range(owner) \subseteq (Addrs \ aliveStates) \cup {s}
      BY DEF Range
    <2>. HIDE DEF s
    <2>3. ASSUME NEW a \in aliveStates
          PROVE  /\ a \in aliveStates'
                 /\ state'[a].triggerNewIssue = state[a].triggerNewIssue
      BY <1>0, <2>1, <2>2, <2>3, ZenonT(60)
    <2>4. QED
      BY <1>1, <1>11, <2>3 DEF Split
  <1>12. CASE Push
    <2>1. /\ aliveStates' = aliveStates \ freedStates
          /\ \A a \in Addrs \ freedStates : state'[a].triggerNewIssue = state[a].triggerNewIssue
      BY <1>12, PushFacts
    <2>2. \A a \in freedStates : ~state[a].triggerNewIssue
      BY DEF freedStates, releasable
    <2>3. QED
      BY <1>0, <1>1, <1>12, <2>1, <2>2, ZenonT(60) DEF Push
  <1>13. CASE LaunchGold
    <2>1. PICK g \in GoldAddrs \ goldAlive :
            /\ goldAlive' = goldAlive \cup {g}
            /\ \A a \in GoldAddrs \ {g} : gold'[a] = gold[a]
      BY <1>0, <1>13, ZenonT(60) DEF LaunchGold
    <2>2. QED
      BY <1>0, <1>1, <1>13, <2>1 DEF LaunchGold
  <1>14. CASE GoldStep
    <2>. DEFINE s == back(goldStack)
    <2>1. PICK owner \in [gold[s].constraints -> (GoldAddrs \ goldAlive) \cup {s}] :
            goldDistribute(s, owner)
      BY <1>14, ZenonT(60) DEF GoldStep
    <2>2. goldAlive' = goldAlive \cup Range(owner)
      BY <2>1, ZenonT(60) DEF goldDistribute
    <2>3. PICK H : gold' = [a \in GoldAddrs |->
                     IF a \in Range(owner)
                     THEN [status |-> IF a \in H THEN "HALTED" ELSE "NORMAL",
                           constraints |-> {x \in gold[s].constraints : owner[x] = a},
                           triggerNewIssue |-> IF a = s THEN gold[s].triggerNewIssue
                                                        ELSE FALSE]
                     ELSE gold[a]]
      BY <2>1, ZenonT(60) DEF goldDistribute
    <2>4. Range(owner) \subseteq (GoldAddrs \ goldAlive) \cup {s}
      BY DEF Range
    <2>. HIDE DEF s
    <2>5. \A a \in goldAlive : gold'[a].triggerNewIssue = gold[a].triggerNewIssue
      BY <1>0, <2>3, <2>4, ZenonT(60)
    <2>6. QED
      BY <1>1, <1>14, <2>2, <2>5, ZenonT(60) DEF GoldStep
  <1>15. CASE GoldWarns
    <2>1. \A a \in GoldAddrs : gold[a].triggerNewIssue => gold'[a].triggerNewIssue
      BY <1>0, <1>15, RangeInSet DEF GoldWarns, GoldState
    <2>2. QED
      BY <1>0, <1>1, <1>15, <2>1 DEF GoldWarns
  <1>16. CASE GoldPush
    BY <1>0, <1>1, <1>16 DEF GoldPush
  <1>17. CASE \/ FetchNormal \/ FetchNone \/ NextLevel \/ CheckBroken \/ NoGold
              \/ GoldBreaks \/ GoldPoll \/ GoldDone \/ Poll
              \/ Environment \/ Finished \/ UNCHANGED vars
    BY <1>1, <1>17, ZenonT(60) DEF FetchNormal, FetchNone, NextLevel, CheckBroken, NoGold, GoldBreaks,
       GoldPoll, GoldDone, Poll, Environment, Finished, vars
  <1>18. CASE FetchPostponed \/ Halt \/ FinishStep
    <2>1. \A a \in Addrs : state'[a].triggerNewIssue = state[a].triggerNewIssue
      BY <1>0, <1>18 DEF FetchPostponed, Halt, haltedState, FinishStep, State
    <2>2. QED
      BY <1>0, <1>1, <1>18, <2>1 DEF FetchPostponed, Halt, haltedState, FinishStep
  <1>19. QED
    BY ZenonT(60), <1>5, <1>6, <1>7, <1>8, <1>9, <1>10, <1>11, <1>12, <1>13, <1>14, <1>15, <1>16,
       <1>17, <1>18
    DEF Next, Loop

-----------------------------------------------------------------------------
\* At the start the only state is the initial one, on the stack of the searcher,
\* and it has all the inputs.
LEMMA InitInv == Init => IInv /\ InputSpacePartition
  <1>. SUFFICES ASSUME Init PROVE IInv /\ InputSpacePartition
    OBVIOUS
  <1>1. PICK a \in Addrs : aliveStates = {a} /\ s1 = <<a>>
    BY DEF Init
  <1>2. /\ s0 = <<>> /\ result = <<>> /\ postponedStates = {} /\ completedStates = {}
        /\ pc = "fetch" /\ issues = {} /\ goldStack = <<>> /\ goldResult = <<>>
        /\ released = {} /\ state = [b \in Addrs |-> NewState] /\ goldAlive = {goldStartup}
    BY DEF Init
  <1>3. /\ Range(s0) = {} /\ Range(result) = {} /\ Range(s1) = {a}
        /\ Distinct(s0) /\ Distinct(s1) /\ Distinct(result)
        /\ Range(goldStack) = {} /\ Range(goldResult) = {}
    BY <1>1, <1>2 DEF Range, Distinct
  <1>4. state[a].status = "NORMAL" /\ state[a].constraints = Inputs
    BY <1>2 DEF NewState
  <1>5. ControlInv
    BY <1>2 DEF ControlInv
  <1>6. OnePlacePerState
    BY <1>1, <1>2, <1>3, <1>4, ZenonT(60) DEF OnePlacePerState
  <1>7. GoldInv /\ MarkInv
    BY <1>2, <1>3 DEF GoldInv, MarkInv
  <1>8. InputSpacePartition
    BY <1>1, <1>2, <1>4, ExplorationAssumption DEF InputSpacePartition
  <1>9. QED
    BY <1>5, <1>6, <1>7, <1>8 DEF IInv

\* The inductive invariant of the exploration.
THEOREM Inductive == Spec => [](TypeOK /\ IInv /\ InputSpacePartition)
  <1>. DEFINE Inv == TypeOK /\ IInv /\ InputSpacePartition
  <1>1. Init => Inv
    BY InitType, InitInv
  <1>2. Inv /\ [Next]_vars => Inv'
    BY TypeStep, ControlStep, PlaceStep, GoldStepInv, MarkStep, PartitionStep DEF IInv
  <1>3. QED
    BY <1>1, <1>2, PTL DEF Spec

\* Every allocated test state is at exactly one place of the searcher or in the
\* hands of main, whichever searcher is used and whatever is postponed.
THEOREM PlaceInvariant == Spec => []OnePlacePerState
  BY Inductive, PTL DEF IInv

\* No state that an issue, or the description callback of an issue, refers to is
\* ever released.
THEOREM NoDangling == Spec => []NoDanglingState
  <1>1. MarkInv => NoDanglingState
    BY DEF MarkInv, NoDanglingState
  <1>2. QED
    BY <1>1, Inductive, PTL DEF IInv

\* Forking and early release neither lose nor repeat an input.
THEOREM Partition == Spec => []InputSpacePartition
  BY Inductive, PTL

-----------------------------------------------------------------------------
\* Raising an issue counts no step (State::newStateIssue).
LEMMA RaiseCount ==
    ASSUME TypeOK, NEW t \in Range(result), NEW K,
           state' = [state EXCEPT ![t] = raisedState(@, K)]
    PROVE  \A a \in Addrs : state'[a].stepCount = state[a].stepCount
  <1>1. t \in Addrs /\ state \in [Addrs -> State]
    BY RangeInSet DEF TypeOK, TestType, ControlType
  <1>2. raisedState(state[t], K).stepCount = state[t].stepCount
    BY <1>1 DEF raisedState, State
  <1>3. QED
    BY <1>1, <1>2

\* What is executed is the only thing that is counted: every other step of main
\* keeps the inputs and the counters of the states that stay allocated.
LEMMA CountKept ==
    ASSUME TypeOK, ControlInv, [Next]_vars, ~Split
    PROVE  \A b \in aliveStates' : /\ b \in aliveStates
                                   /\ state'[b].constraints = state[b].constraints
                                   /\ state'[b].stepCount = state[b].stepCount
  <1>0. aliveStates \subseteq Addrs /\ state \in [Addrs -> State]
    BY ZenonT(30) DEF TypeOK, TestType
  <1>1. Checking \/ pc \in {"compare", "goldcheck"} => result[idx] \in Range(result)
    BY CheckedState, ZenonT(30)
  <1>2. CASE Push
    <2>1. PICK P, A : take(P, A)
      BY <1>2, Zenon DEF Push
    <2>2. aliveStates' = aliveStates \ freedStates
      BY <2>1, Zenon DEF take
    <2>3. \A b \in Addrs \ freedStates :
            state'[b] = IF b \in A THEN [state[b] EXCEPT !.avoidPostpone = TRUE] ELSE state[b]
      BY <2>1 DEF take
    <2>4. SUFFICES ASSUME NEW b \in aliveStates'
                   PROVE  /\ b \in aliveStates
                          /\ state'[b].constraints = state[b].constraints
                          /\ state'[b].stepCount = state[b].stepCount
      OBVIOUS
    <2>5. b \in aliveStates /\ b \in Addrs \ freedStates /\ state[b] \in State
      BY <1>0, <2>2, Zenon
    <2>6. state'[b] = IF b \in A THEN [state[b] EXCEPT !.avoidPostpone = TRUE] ELSE state[b]
      BY <2>3, <2>5, Zenon
    <2>7. state'[b].constraints = state[b].constraints /\ state'[b].stepCount = state[b].stepCount
      <3>1. CASE b \in A
        BY <2>5, <2>6, <3>1 DEF State
      <3>2. CASE b \notin A
        BY <2>6, <3>2
      <3>3. QED
        BY <3>1, <3>2
    <2>8. QED
      BY <2>5, <2>7
  <1>3. CASE FetchPostponed
    <2>1. \A b \in Addrs : /\ state'[b].constraints = state[b].constraints
                           /\ state'[b].stepCount = state[b].stepCount
      BY <1>0, <1>3 DEF FetchPostponed, State
    <2>2. QED
      BY <1>0, <1>3, <2>1 DEF FetchPostponed
  <1>4. CASE FetchNormal
    BY <1>4 DEF FetchNormal
  <1>5. CASE ~Push /\ ~FetchPostponed /\ ~FetchNormal
    <2>1. aliveStates' = aliveStates /\ \A b \in Addrs : state'[b].constraints = state[b].constraints
      BY <1>5, QuietSteps, Zenon DEF Quiet
    <2>2. \A b \in Addrs : state'[b].stepCount = state[b].stepCount
      <3>1. CASE RaiseIssue
        BY <3>1, RaiseCount, ZenonT(30) DEF RaiseIssue, newStateIssue
      <3>2. CASE FetchFails
        <4>1. result[1] \in Range(result)
          BY <3>2, FetchedState, ZenonT(30) DEF FetchFails
        <4>2. QED
          BY <3>2, <4>1, RaiseCount, ZenonT(30) DEF FetchFails, newStateIssue
      <3>3. CASE CheckLimit
        BY <1>1, <3>3, RaiseCount, ZenonT(30) DEF CheckLimit, newStateIssue
      <3>4. CASE PostCheck
        BY <1>1, <3>4, RaiseCount, ZenonT(30) DEF PostCheck, newStateIssue
      <3>5. CASE CompareWithStartup
        BY <1>1, <3>5, RaiseCount, ZenonT(30) DEF CompareWithStartup, compare
      <3>6. CASE GoldCheck
        BY <1>1, <3>6, RaiseCount, ZenonT(30) DEF GoldCheck, compare
      <3>7. CASE Halt
        BY <1>0, <3>7, RangeInSet DEF Halt, haltedState, State, TypeOK, ControlType
      <3>8. CASE FinishStep
        <4>1. PICK T : state' = [a \in Addrs |-> IF a \in T
                                                 THEN [state[a] EXCEPT !.coveredNew = TRUE]
                                                 ELSE state[a]]
          BY <3>8, Zenon DEF FinishStep
        <4>2. QED
          BY <1>0, <4>1 DEF State
      <3>9. CASE \/ FetchNone \/ NextLevel \/ CheckBroken \/ NoGold \/ LaunchGold \/ GoldStep
                 \/ GoldWarns \/ GoldBreaks \/ GoldPush \/ GoldPoll \/ GoldDone \/ Poll
                 \/ Environment \/ Finished \/ UNCHANGED vars
        BY <3>9, ZenonT(30) DEF FetchNone, NextLevel, CheckBroken, NoGold, LaunchGold, GoldStep,
           GoldWarns, GoldBreaks, GoldPush, GoldPoll, GoldDone, Poll, Environment, Finished, vars
      <3>10. QED
        BY <1>5, <3>1, <3>2, <3>3, <3>4, <3>5, <3>6, <3>7, <3>8, <3>9, ZenonT(30) DEF Next, Loop
    <2>3. QED
      BY <1>0, <2>1, <2>2
  <1>6. QED
    BY <1>2, <1>3, <1>4, <1>5, Zenon

\* Executing an instruction adds one to the counter of the state and of its
\* copies, and touches no other state (Executor::step, the copy constructor).
LEMMA SplitCounts ==
    ASSUME TypeOK, ControlInv, Split
    PROVE  \E T : /\ aliveStates' = aliveStates \cup T /\ T \subseteq Addrs
                  /\ T \cap aliveStates \subseteq {result[1]}
                  /\ result[1] \in T /\ result = <<result[1]>>
                  /\ \A b \in T : /\ state'[b].constraints \subseteq state[result[1]].constraints
                                   /\ state'[b].stepCount = state[result[1]].stepCount + 1
                  /\ \A b \in Addrs \ T : state'[b] = state[b]
  <1>. DEFINE s == result[1]
              C == state[s].constraints
  <1>1. pc \in {"step", "fetched"} /\ Len(result) = 1 /\ result \in Seq(Addrs)
    BY ZenonT(30) DEF Split, ControlInv, TypeOK, ControlType
  <1>2. s \in Addrs /\ result = <<s>>
    BY <1>1
  <1>3. C \in SUBSET Inputs /\ state[s] \in State /\ state \in [Addrs -> State]
    BY <1>2 DEF TypeOK, TestType, State
  <1>4. PICK owner \in [C -> (Addrs \ aliveStates) \cup {s}] : distribute(s, owner)
    BY DEF Split
  <1>. HIDE DEF s
  <1>. DEFINE T == Range(owner)
  <1>5. T \subseteq Addrs /\ T \cap aliveStates \subseteq {s}
    BY <1>2 DEF Range
  <1>6. /\ s \in T /\ aliveStates' = aliveStates \cup T
        /\ state' = [a \in Addrs |->
             IF a = s
             THEN countStep([state[s] EXCEPT !.constraints = ownPart(C, owner, s)])
             ELSE IF a \in T
             THEN countStep(forkState(state[s], {x \in forkedFrom(C, owner, s) : owner[x] = a}))
             ELSE state[a]]
    BY <1>4 DEF distribute
  <1>. HIDE DEF T, C
  <1>7. ASSUME NEW b \in T
        PROVE  state'[b].constraints \subseteq C /\ state'[b].stepCount = state[s].stepCount + 1
    <2>1. CASE b = s
      <3>1. state'[s] = countStep([state[s] EXCEPT !.constraints = ownPart(C, owner, s)])
        BY <1>2, <1>6
      <3>2. QED
        BY <1>3, <2>1, <3>1 DEF countStep, ownPart, State
    <2>2. CASE b # s
      <3>1. state'[b] = countStep(forkState(state[s], {x \in forkedFrom(C, owner, s) : owner[x] = b}))
        BY <1>5, <1>6, <2>2
      <3>2. forkedFrom(C, owner, s) = C
        BY DEF forkedFrom
      <3>3. QED
        BY <1>3, <3>1, <3>2 DEF countStep, forkState, NewState, State
    <2>3. QED
      BY <2>1, <2>2
  <1>8. \A b \in Addrs \ T : state'[b] = state[b]
    BY <1>6
  <1>9. QED
    BY <1>2, <1>5, <1>6, <1>7, <1>8, ZenonT(30) DEF s, C

\* An instruction of the test program is executed in Split only.
LEMMA ExecOnlySplit ==
    ASSUME [Next]_vars, ~Split, pc # "exec"
    PROVE  pc' # "exec"
  <1>1. CASE FetchNormal \/ FetchPostponed \/ FetchNone \/ NextLevel
    <2>1. pc' \in {"step", "level", "fetch", "report"}
      BY <1>1, ZenonT(30) DEF FetchNormal, FetchPostponed, FetchNone, NextLevel
    <2>2. QED
      BY <2>1
  <1>7. CASE Push \/ Poll
    <2>1. pc' \in {"poll", "report", "level", "fetch"}
      BY <1>7, ZenonT(30) DEF Push, Poll
    <2>2. QED
      BY <2>1
  <1>2. CASE RaiseIssue \/ FetchFails \/ Halt \/ FinishStep
    BY <1>2 DEF RaiseIssue, FetchFails, Halt, FinishStep, controlVars
  <1>3. CASE CheckLimit \/ CheckBroken \/ PostCheck \/ NoGold \/ CompareWithStartup \/ LaunchGold
    BY <1>3 DEF CheckLimit, CheckBroken, PostCheck, NoGold, CompareWithStartup, LaunchGold
  <1>4. CASE GoldStep \/ GoldWarns \/ GoldBreaks \/ GoldCheck \/ GoldPush \/ GoldPoll \/ GoldDone
    BY <1>4 DEF GoldStep, GoldWarns, GoldBreaks, GoldCheck, GoldPush, GoldPoll, GoldDone, controlVars
  <1>5. CASE Environment \/ Finished \/ UNCHANGED vars
    BY <1>5 DEF Environment, Finished, vars, controlVars
  <1>6. QED
    BY <1>1, <1>2, <1>3, <1>4, <1>5, <1>7, ZenonT(30) DEF Next, Loop

\* The counters follow the inputs.
LEMMA CountStep ==
    ASSUME TypeOK, IInv, InputSpacePartition, [Next]_vars
    PROVE  StepCounted
  <1>0. aliveStates \subseteq Addrs /\ state \in [Addrs -> State]
    BY ZenonT(30) DEF TypeOK, TestType
  <1>1. \A a, b \in aliveStates : state[a].constraints \cap state[b].constraints # {} => a = b
    BY DEF InputSpacePartition
  <1>2. CASE Split
    <2>. DEFINE s == result[1]
    <2>1. PICK T : /\ aliveStates' = aliveStates \cup T /\ T \subseteq Addrs
                   /\ T \cap aliveStates \subseteq {s}
                   /\ s \in T /\ result = <<s>>
                   /\ \A b \in T : /\ state'[b].constraints \subseteq state[s].constraints
                                    /\ state'[b].stepCount = state[s].stepCount + 1
                   /\ \A b \in Addrs \ T : state'[b] = state[b]
      BY <1>2, SplitCounts, ZenonT(30) DEF IInv
    <2>2. s \in aliveStates
      BY <2>1 DEF IInv, OnePlacePerState, Range
    <2>3. pc # "exec" /\ pc' = "exec"
      BY <1>2 DEF Split
    <2>. HIDE DEF s
    <2>4. \A a : Executes(a) <=> a = s
      BY <2>1, <2>3 DEF Executes
    <2>5. ASSUME NEW a \in aliveStates, NEW b \in aliveStates',
                 state[a].constraints \cap state'[b].constraints # {}
          PROVE  state'[b].stepCount = state[a].stepCount + IF Executes(a) THEN 1 ELSE 0
      <3>1. CASE b \in T
        <4>1. a = s
          BY <1>1, <2>1, <2>2, <2>5, <3>1
        <4>2. QED
          BY <2>1, <2>4, <3>1, <4>1
      <3>2. CASE b \notin T
        <4>1. b \in aliveStates /\ state'[b] = state[b] /\ b # s
          BY <1>0, <2>1, <3>2
        <4>2. a = b
          BY <1>1, <2>5, <4>1
        <4>3. state[a].stepCount \in Nat
          BY <1>0 DEF State
        <4>4. QED
          BY <2>4, <4>1, <4>2, <4>3
      <3>3. QED
        BY <3>1, <3>2
    <2>6. QED
      BY <2>5 DEF StepCounted
  <1>3. CASE ~Split
    <2>1. \A b \in aliveStates' : /\ b \in aliveStates
                                  /\ state'[b].constraints = state[b].constraints
                                  /\ state'[b].stepCount = state[b].stepCount
      BY <1>3, CountKept, Zenon DEF IInv
    <2>2. \A a : ~Executes(a)
      <3>1. pc # "exec" => pc' # "exec"
        BY <1>3, ExecOnlySplit
      <3>2. QED
        BY <3>1 DEF Executes
    <2>3. \A a \in aliveStates : state[a].stepCount \in Nat
      BY <1>0 DEF State
    <2>4. QED
      BY <1>1, <2>1, <2>2, <2>3 DEF StepCounted
  <1>4. QED
    BY <1>2, <1>3

\* The counters that the step limit is tested against count the instructions on
\* the path of every input a state has, for every searcher and any number of
\* forks and released states.
THEOREM StepsFollow == Spec => StepsFollowInputs
  <1>1. TypeOK /\ IInv /\ InputSpacePartition /\ [Next]_vars => [StepCounted]_vars
    BY CountStep
  <1>2. QED
    BY <1>1, Inductive, PTL DEF Spec, StepsFollowInputs

=============================================================================
