-------------------------------- MODULE Gate --------------------------------
(***************************************************************************)
(* The promotion gate between a champion and a candidate harness           *)
(* (harness/gate.py): a pure function of paired outcomes and a policy.     *)
(* The state is its input; a step is a change of the candidate that makes  *)
(* one more task correct, or the metric of a guard better, so that an      *)
(* action property says how the decision follows the candidate.            *)
(*                                                                         *)
(* Rates are in hundredths.  The bootstrap draws row indices from a fixed  *)
(* seed, so for a number of rows it always draws the same ones: Draws.     *)
(***************************************************************************)
EXTENDS Integers, Sequences, FiniteSets, FiniteSetsExt, Functions

CONSTANTS
  Rows,           \* the number of paired outcomes
  Draws,          \* the resamples: sequences of Rows row indices
  Lower,          \* the place of the lower bound among the sorted resamples
  MaxRegression,  \* policy.max_regression
  CiLowerBound,   \* policy.ci_lower_bound
  Alpha,          \* policy.mcnemar_alpha
  MaxDelta,       \* the guard's max_delta
  Metrics         \* values of the guarded metric

ASSUME GateAssumption ==
  /\ Rows \in Nat \ {0}
  /\ Draws \in Seq([1..Rows -> 1..Rows])
  /\ Lower \in DOMAIN Draws
  /\ MaxRegression \in 0..100 /\ CiLowerBound \in -100..100
  /\ Alpha \in 1..99 /\ MaxDelta \in Nat /\ Metrics \subseteq Int

VARIABLES
  outcomes,          \* one PairedOutcome per row
  champion_metric,   \* the guarded metric of the two arms
  candidate_metric

gVars == <<outcomes, champion_metric, candidate_metric>>

PairedOutcome == [champion : BOOLEAN, candidate : BOOLEAN]
-----------------------------------------------------------------------------
(* evaluate_gate.                                                          *)

One(b) == IF b THEN 1 ELSE 0
Deltas(o) == [i \in DOMAIN o |-> One(o[i].candidate) - One(o[i].champion)]
Total(deltas) == SumFunction(deltas)

\* The bootstrap sums, and the lower end of the interval: the one at place
\* Lower among them sorted, which is the least that Lower of them do not exceed.
Samples(o) ==
  [k \in DOMAIN Draws |-> Total([i \in 1..Rows |-> Deltas(o)[Draws[k][i]]])]
UpTo(samples, v) == {k \in DOMAIN samples : samples[k] <= v}
CiLow(o) ==
  LET samples == Samples(o)
  IN  Min({v \in -Rows..Rows : Cardinality(UpTo(samples, v)) >= Lower})

Improved(o) == Cardinality({i \in DOMAIN o : Deltas(o)[i] = 1})
Regressed(o) == Cardinality({i \in DOMAIN o : Deltas(o)[i] = -1})

\* The binomial tail of an exact McNemar test, the sum of comb(discordant, k)
\* for k up to the smaller count: so many subsets have no more elements.
SubsetsUpTo(n, most) == {s \in SUBSET (1..n) : Cardinality(s) <= most}
BinomialTail(improved, regressed) ==
  LET most == IF improved <= regressed THEN improved ELSE regressed
  IN  Cardinality(SubsetsUpTo(improved + regressed, most))

\* The p-value is 2 * BinomialTail / 2^discordant, at most 1.
Significant(o) ==
  LET discordant == Improved(o) + Regressed(o)
  IN  /\ discordant # 0
      /\ 200 * BinomialTail(Improved(o), Regressed(o)) <= Alpha * 2^discordant

\* Mutant: any significant difference is an improvement.
ImprovementAny(o) == Significant(o)

SignificantRegression(o) == Total(Deltas(o)) < 0 /\ Significant(o)
SignificantImprovement(o) == Total(Deltas(o)) > 0 /\ Significant(o)

\* Mutant: the guard compares the other way round.
GuardReversed(champion, candidate) == champion - candidate > MaxDelta
GuardFails(champion, candidate) == candidate - champion > MaxDelta

\* What does not depend on the policy's mode.
Floors(o, champion, candidate) ==
  /\ ~GuardFails(champion, candidate)
  /\ 100 * Total(Deltas(o)) >= -MaxRegression * Rows
  /\ 100 * CiLow(o) >= CiLowerBound * Rows

Passed(mode, o, champion, candidate) ==
  /\ Floors(o, champion, candidate)
  /\ IF mode = "non_regression" THEN ~SignificantRegression(o)
     ELSE SignificantImprovement(o)
-----------------------------------------------------------------------------
gInit ==
  /\ outcomes \in [1..Rows -> PairedOutcome]
  /\ champion_metric \in Metrics
  /\ candidate_metric \in Metrics

\* A task the candidate failed becomes one it solves.
Solve(i) ==
  /\ ~outcomes[i].candidate
  /\ outcomes' = [outcomes EXCEPT ![i].candidate = TRUE]
  /\ UNCHANGED <<champion_metric, candidate_metric>>

\* The candidate's guarded metric falls.
Economise(m) ==
  /\ m \in Metrics
  /\ m < candidate_metric
  /\ candidate_metric' = m
  /\ UNCHANGED <<outcomes, champion_metric>>

gNext ==
  \/ \E i \in 1..Rows : Solve(i)
  \/ \E m \in Metrics : Economise(m)

GateSpec == gInit /\ [][gNext]_gVars
-----------------------------------------------------------------------------
(* Properties.                                                             *)

Passes(mode) == Passed(mode, outcomes, champion_metric, candidate_metric)

\* A better candidate never fails a gate a worse one passes, in either mode:
\* the floor, the interval and the test all follow the candidate's outcomes
\* (evaluate_gate, lines 97-144).
BetterNeverFails ==
  [][\A mode \in {"non_regression", "significant_improvement"} :
       Passes(mode) => Passes(mode)']_gVars

Swapped(o) ==
  [i \in DOMAIN o |-> [champion |-> o[i].candidate,
                       candidate |-> o[i].champion]]

\* An improvement is one-way: where the candidate passes as a significant
\* improvement, the champion put in its place would fail even as no
\* regression, so two harnesses cannot replace one another in turn on the same
\* outcomes (evaluate_gate, lines 105-144: the sign and the two-sided tail).
ImprovementIsOneWay ==
  Passes("significant_improvement") =>
    ~Passed("non_regression", Swapped(outcomes),
            candidate_metric, champion_metric)
=============================================================================
