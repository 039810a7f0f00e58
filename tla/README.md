# A TLA+ development of KLC3

KLC3 explores an LC-3 assembly program (the *test* program) symbolically on top
of the expressions and solvers of KLEE, compares every path that halts with a
*gold* program, and writes a report with one concrete test case per state that
raised an issue. This directory holds a model of it, the TLC runs that check the
model on small instances, and proofs of its main safety properties.

`PROJECT.json` lists, for machines, what this file says in words: the parts of
the system, the runs, the slips that each property is known to catch, the lines
behind each definition, the hazards, and the theorems.

## The system and its parts

| Part | Source | Here |
|---|---|---|
| exploration loop | `tools/klc3/klc3.cpp`, `main` | `Exploration` |
| states, allocation | `Core/State.*`, `Core/StateAllocator.hpp` | `Exploration` |
| searchers | `Searcher/Searcher.h`, `Searcher/PruningSearcher.*` | `Exploration`, as containers |
| issues | `Verification/Issue.h`, `Verification/IssuePackage.*` | `IssuePackage`, `Exploration` |
| comparison with the gold program | `Verification/CrossChecker.*` | `CrossChecker`, `Exploration` |
| limits of one state | `Verification/ExecutionLimitChecker.*` | `Exploration` |
| one instruction | `Core/Executor.*`, `Core/Memory*` | a free choice in `Exploration` |
| flow graph, coverage, loops | `FlowAnalysis/{FlowGraph,CoverageTracker,LoopAnalyzer}.*` | the flag `coveredNew` |
| subroutine colours | `FlowAnalysis/SubroutineTracker.*` | `postCheckState`; the rest a free choice |
| assembler | `Loader/*`, `tools/klc3as` | not modelled |
| filter, inductor | `Generation/{IssueFilter,VariableInductor}.*` | the operator `assignments` |
| report, graphs, files | `Generation/{ReportFormatter,ResultGenerator}.*`, `FlowGraphVisualizer.*` | not modelled |
| expressions, solver | vendored KLEE | an exact oracle |

How they interact: `main` loads both programs, runs the gold program up to its
first fork, and then repeats: fetch a state from the searcher, let `Executor::step`
execute one instruction of it (which may fork it), let the trackers look at the
resulting states, check limits, compare the halted ones with the gold program
(which is itself explored on the inputs of the halted state), give all of them
back to the searcher, release the ended ones that no issue needs, and look at the
signal flags. When the searcher has nothing left, its level is raised; after the
last level every state with an issue gets an assignment of its input variables.

## Abstraction

* A `ConstraintSet` is the set of concrete inputs that satisfy it. Solver queries
  become questions about sets: *may be true* is a non-empty intersection, *must be
  true* an inclusion. `Inputs` is the set allowed by the initial constraints.
* The programs are arbitrary. A step of the test program may raise issues, divide
  the inputs of the state among any number of states, and halt any of them;
  `goldPath` says which inputs the gold program treats alike and `differ[i]` on
  which inputs the two programs disagree in the `i`-th compared pair of
  expressions. All of these range over everything an instance allows, so a run
  is about every pair of programs with that many inputs.
* A `State` is known by its address, and the address of a released state may be
  given to a new one, as `new` does. Tables keyed by `State *` are functions of
  the address and keep what they hold.
* Issue types are numbers in the order of the enumeration, locations are line
  numbers, and the null location is 0.
* Registers, memory, paths, the flow graph, names and texts are left out.

`seen`, `halted`, `released` and `cut` are history variables. `seen[x]` are the
runtime issues raised on the path of input `x`, `halted` the inputs whose path
halted, `released` the inputs of released states, and `cut` says that an interrupt
or a time limit was noticed. No guard of an action reads them.

## Modules

* `IssuePackage`: issue types, levels, the order of the package, and
  `Accepted`, the test made by `raiseIssue`.
* `CrossChecker`: `exprMustEq`, and `compare` as a walk along `CheckList`, the
  compared pairs in the order of the check lists (`Narrow`, `FailedPairs`,
  `FailedTypes`, `finalConstraints`).
* `Exploration` composes them. The program counter `pc` names the place in
  `main`; each action is the code up to the next one:

| `pc` | Actions | Code |
|---|---|---|
| `fetch` | `FetchNormal`, `FetchPostponed`, `FetchNone` | `fetch` of the searchers |
| `level` | `NextLevel` | the loop over searcher levels |
| `step`, `fetched` | `FetchFails`, `RaiseIssue`, `Split` | `Executor::step` up to the fork |
| `exec` | `RaiseIssue`, `Halt`, `FinishStep` | the rest of the step, the trackers |
| `check` | `CheckLimit`, `CheckBroken`, `PostCheck`, then `Push` | checks on each resulting state, then push and early release |
| `compare` | `NoGold`, `CompareWithStartup`, `LaunchGold` | the halted state |
| `gold` | `GoldStep`, `GoldDone` | search of the gold program |
| `goldcheck` | `GoldWarns`, `GoldBreaks`, `GoldCheck`, `GoldPush` | its resulting states |
| `goldpoll`, `poll` | `GoldPoll`, `Poll` | the signal flags and the clock |
| `report`, `exit` | `Finished` | the loop is over, or `progExit` |

  `handleInterrupt`, `handleAlarm` and `Clock` happen at any moment.
* `MCExploration`: the values TLC gives to the constants.
* `ExplorationTypeProofs`, `ExplorationProofs`: the theorems.

An operator marked *Slip*, named after the operator `x` that follows it with a
suffix (`releasable_always` for `releasable`), is what a
plausible mistake in the code behind `x` would give. No specification uses it; replacing
`x` by its slip breaks the property that `PROJECT.json` names for it.

## What is checked

Runs that pass:

| Run | Instance | Properties |
|---|---|---|
| `explore_gold` | 2 inputs, 2 addresses, step limit 1, gold program with two compared outputs | `InputSpacePartition`, `StepsFollowInputs`, `NoDanglingState`, `NoLeakedState`, `FinalConstraintsPresent`, `TestCaseShowsIssue`, `EveryDivergenceReported` |
| `reused_address` | 4 inputs, 3 addresses, gold program that ends in the warm-up | `FinalConstraintsPresent` |
| `pruning` | 2 inputs, step limit 2, `-searcher=pruning`, no gold program | `OnePlacePerState`, `ExplorationIsExhaustive` |
| `time_limit` | the same with step limit 1 and a gold program, `-pruning-reactivation=stop`, both time limits and both signals | `TimeLimitStopsExploring` |
| `faulty_gold` | a gold program with issues, interrupts, alarms and a time limit | `FaultyGoldRefused` |
| `termination` | `-searcher=pruning`, gold program, fairness | `Termination` |

Why these sizes: a fork needs two inputs; two inputs on two gold paths give one
test state compared with two gold states; a step limit of 1 lets every state make
two steps, enough for a fork followed by a fork, halt or break, and 2 lets a
postponed state be reactivated and go on. Addresses limit how many states are
allocated at once (a fork that needs more is not taken), and with two of them the
address of a released state is used again. The stale-entry case of
`finalConstraintSets` needs an issue that is known, a state that only repeats
it and is released, a third state at its address, and the state this one was
forked from: four inputs, three addresses. `reused_address` therefore fixes how
the programs differ (constraint `ReusedAddress`) and leaves the rest open.
Inputs and test addresses are interchangeable (symmetry); gold addresses are
taken in order, since no code depends on them. `termination` uses no symmetry.

Deadlock is checked everywhere; `Finished` is the end of the exploration.

Runs that TLC refutes, each a place where the code does not do what the manual
says:

| Run | Property | What happens |
|---|---|---|
| `masked_divergence` | `EveryDivergenceReported` | a failed check of one type narrows the constraints for the next types, whose divergence may lie outside |
| `overwritten_constraints` | `TestCaseShowsIssue` | a later gold path replaces the constraints an earlier issue's test case comes from |
| `foreign_expected_output` | `ExpectedOutputIsGolds` | the "expected output" is read from a gold state that the input does not reach |
| `halt_after_error` | `ErrorsAreTerminal` | clearing the MCR turns a BROKEN state into a HALTED one |
| `compare_broken` | `OnlyHaltedIsCompared` | `postCheckState` breaks a state which is compared nevertheless |
| `time_limit_level` | `TimeLimitStopsExploring` | `break` leaves the inner loop only, and level 1 goes on |

The passing runs keep the first two of these properties where they hold: with a
single issue type. `StrictLevel`, used in `halt_after_error` and
`compare_broken`, gives level ERROR to warnings that the user may set so.

Fairness: `Termination` assumes weak fairness of `Progress`, the steps of `main`
without those that only raise issues or halt within one instruction. `main` is one
thread that never blocks, and one instruction raises finitely many issues. A
`GoldStep` stands for the steps up to the next fork or halt, so the gold program
is taken to halt: the code gives it no step limit.

## What is proved

The theorems hold for all values of the constants that satisfy the named
assumptions (`TypeAssumption`, `LevelAssumption`, `LineAssumption`,
`CheckListAssumption`, `ExplorationAssumption`): any finite non-empty set of
inputs, any sets of addresses, any level table in which the errors the code
insists on are errors, any check list, searcher, limit and signals.

* `PlaceInvariant`: `Spec => []OnePlacePerState`.
* `NoDangling`: `Spec => []NoDanglingState`.
* `Partition`: `Spec => []InputSpacePartition`.
* `StepsFollow`: `Spec => StepsFollowInputs`, an action property: the counter that
  the step limit is tested against follows the inputs through forks, releases and
  reused addresses.

They rest on type correctness, `Spec => [](TypeOK /\ ControlInv)`
(`TypeCorrect`). The positions `idx` and `goldIdx` are needed for the types,
because `result[idx]` is an address only while `idx` is inside the vector.

The first three follow from one invariant, `IInv` (end of `Exploration`). That
issues refer to allocated states is not inductive: whether a state survives `Push`
depends on its mark `triggerNewIssue`. `MarkInv` adds that what an issue refers to
is marked; a fork must not disturb that (the state keeps its own mark, new states
have fresh addresses), and for the gold side the startup state must never be
searched itself (`GoldInv`). `InputSpacePartition` needs `OnePlacePerState`,
because the states released in `Push` must be those of the current result.

`ExplorationTypeProofs` has the facts about types, one lemma per group of
actions. `ExplorationProofs` has the steps: `SplitFacts` and `PushFacts` say what the
two actions that change many states do, `QuietSteps` that all others leave places
and constraints alone, and `PlaceStep`, `PartitionStep`, `GoldStepInv` and
`MarkStep` are the four inductive steps. `StepsFollow` adds that only `Split`
counts (`CountKept`, `SplitCounts`) and uses the partition: two states that share
an input before and after a step are a state and itself, or a state and its copy.

Only model-checked: `NoLeakedState`, `ExplorationIsExhaustive`,
`FinalConstraintsPresent`, `TestCaseShowsIssue`, `EveryDivergenceReported`,
`TimeLimitStopsExploring`, `FaultyGoldRefused`, and `Termination` (liveness under
fairness is outside the prover).

## Not modelled

KLEE itself, the lexer, texts, reports and graphs, statistics. Features switched off
at compile time (`ENABLE_GOLD_LOOP_COVERAGE`, `ENABLE_PARTIAL_GOLD_COMPARE`,
`VISUALIZE_SEGMENT_COVERING_PATHS`) are absent. The output and query limits work
like the step limit on other counters. A failing solver aborts the program by an
assertion. `checkDuplicateColors` raises issues without a state after the
exploration and is left to the module of `SubroutineTracker`.

## Plan

In this order, each a module of its own with runs and slips:

1. `PossibleValues`: `evalPossibleValues`, its binary searches and
   `evalPossibleValuesInRange`, and the cache, against the set of values an
   expression takes; bounds at 0 and at the largest value of the width.
2. `Executor`: instructions over a small memory and word size, with status, issues
   and forks of each; shown to implement what `Exploration` assumes of a step.
   `MemoryManager` (read-only, uninitialized and device addresses) with it, and the
   warm-up of the gold program, which looks only at `BR`.
3. `SubroutineTracker`: colours and the colour and JSR stacks along calls and
   returns, `checkDuplicateColors`.
4. `FlowGraph` with `CoverageTracker`: nodes, edges and coverage along a path.
5. `LoopAnalyzer` and the segment bookkeeping of `PruningSearcher`, against the
   definitions of components and loops; refining the free choice of `Push`.
6. `Loader`: memory layout, symbols and constraints, without the text.
7. An abstract `InputSpace` (open and finished cells of the inputs) that
   `Exploration` refines.

Proofs to add: `FinalConstraintsPresent`, `NoLeakedState`, `FaultyGoldRefused`,
`ExplorationIsExhaustive`, and the refinements of 2 and 7.
