--------------------------- MODULE ComparisonProofs ---------------------------
(***************************************************************************)
(* Machine-checked proofs about Comparison: whatever the outcomes, the       *)
(* severities, the configuration and the sizes of the suites, a new critical *)
(* failure and missing evidence fail the gate, and every pair of suites is   *)
(* classified but for those in which the counts of failures tie.             *)
(*                                                                           *)
(* The state machine is one step; the arguments are about counting runs, and  *)
(* about fractions that are compared by their cross products.                *)
(***************************************************************************)
EXTENDS Comparison, FiniteSetTheorems, WellFoundedInduction, TLAPS

(***************************************************************************)
(* Runs and their numbers                                                  *)
(***************************************************************************)

\* A suite has up to MaxRuns runs of each outcome.
LEMMA SuiteCounts ==
  ASSUME NEW suite \in Suites, NEW o \in Outcomes
  PROVE  suite[o] \in 0..MaxRuns
  <1>0. PICK n \in 0..MaxRuns : \E runs \in [1..n -> Outcomes] : suite = Counted(runs)
    BY DEF Suites
  <1>1. PICK runs \in [1..n -> Outcomes] : suite = Counted(runs)
    BY <1>0
  <1> DEFINE S == {i \in DOMAIN runs : runs[i] = o}
  <1>2. n \in Nat /\ n <= MaxRuns
    BY MaxRunsAssumption
  <1>3. IsFiniteSet(1..n) /\ Cardinality(1..n) = n
    BY <1>2, FS_Interval
  <1>4. IsFiniteSet(S) /\ Cardinality(S) <= n
    BY <1>3, FS_Subset
  <1>5. Cardinality(S) \in Nat
    BY <1>4, FS_CardinalityType
  <1>6. suite[o] = Cardinality(S)
    BY <1>1 DEF Counted
  <1> QED
    BY <1>2, <1>4, <1>5, <1>6, MaxRunsAssumption

\* The runs with some outcomes are finitely many, and an outcome has one if it
\* occurs.
LEMMA SuiteRuns ==
  ASSUME NEW suite \in Suites, NEW outcomes \in SUBSET Outcomes
  PROVE  /\ IsFiniteSet(Runs(suite, outcomes))
         /\ \A r \in Runs(suite, outcomes) : r[1] \in outcomes /\ suite[r[1]] > 0
         /\ \A o \in outcomes : suite[o] > 0 => <<o, 1>> \in Runs(suite, outcomes)
         /\ \A r \in Runs(suite, outcomes) : \A others : r[1] \in others => r \in Runs(suite, others)
  <1>1. \A o \in Outcomes : suite[o] \in 0..MaxRuns /\ suite[o] \in Nat
    BY SuiteCounts, MaxRunsAssumption
  <1>2. ASSUME NEW r \in Runs(suite, outcomes)
        PROVE  /\ r \in Outcomes \X (1..MaxRuns)
               /\ r[1] \in outcomes /\ suite[r[1]] > 0
               /\ \A others : r[1] \in others => r \in Runs(suite, others)
    <2>1. PICK o \in outcomes : r \in {o} \X (1..suite[o])
      BY DEF Runs
    <2>2. r[1] = o /\ r[2] \in 1..suite[o] /\ r = <<r[1], r[2]>>
      BY <2>1
    <2>3. suite[o] \in Nat /\ suite[o] <= MaxRuns
      BY <1>1, MaxRunsAssumption
    <2>4. r[2] \in 1..MaxRuns /\ suite[o] > 0
      BY <2>2, <2>3, MaxRunsAssumption
    <2>5. \A others : r[1] \in others => r \in Runs(suite, others)
      BY <2>1, <2>2 DEF Runs
    <2> QED
      BY <2>2, <2>4, <2>5
  <1>3. IsFiniteSet(Outcomes \X (1..MaxRuns))
    <2>1. IsFiniteSet(1..MaxRuns)
      BY FS_Interval, MaxRunsAssumption
    <2>2. IsFiniteSet(Outcomes)
      BY OutcomesAssumption
    <2> QED
      BY <2>1, <2>2, FS_Product
  <1>4. IsFiniteSet(Runs(suite, outcomes))
    <2>1. Runs(suite, outcomes) \subseteq Outcomes \X (1..MaxRuns)
      BY <1>2
    <2> QED
      BY <2>1, <1>3, FS_Subset
  <1>5. ASSUME NEW o \in outcomes, suite[o] > 0
        PROVE  <<o, 1>> \in Runs(suite, outcomes)
    <2>1. <<o, 1>> \in {o} \X (1..suite[o])
      BY <1>1, <1>5
    <2> QED
      BY <2>1 DEF Runs
  <1> QED
    BY <1>2, <1>4, <1>5

\* The number of runs with some outcomes is at most that of all, and is zero when
\* none of them occurs.
LEMMA RunsCounted ==
  ASSUME NEW suite \in Suites, NEW outcomes \in SUBSET Outcomes
  PROVE  /\ RunsWith(suite, outcomes) \in Nat
         /\ Completed(suite) \in Nat
         /\ RunsWith(suite, outcomes) <= Completed(suite)
         /\ RunsWith(suite, outcomes) = 0 <=> \A o \in outcomes : ~(suite[o] > 0)
  <1> DEFINE some == Runs(suite, outcomes)
             all == Runs(suite, Outcomes)
  <1>1. some \subseteq all
    BY SuiteRuns
  <1>2. IsFiniteSet(all) /\ IsFiniteSet(some) /\ Cardinality(some) <= Cardinality(all)
    BY <1>1, SuiteRuns, FS_Subset
  <1>3. Cardinality(some) \in Nat /\ Cardinality(all) \in Nat
    BY <1>2, FS_CardinalityType
  <1>4. Cardinality(some) = 0 <=> some = {}
    BY <1>2, FS_EmptySet
  <1>5. some = {} <=> \A o \in outcomes : ~(suite[o] > 0)
    <2>1. ASSUME NEW r \in some
          PROVE  r[1] \in outcomes /\ suite[r[1]] > 0
      BY SuiteRuns
    <2>2. ASSUME NEW o \in outcomes, suite[o] > 0
          PROVE  <<o, 1>> \in some
      BY <2>2, SuiteRuns
    <2> QED
      BY <2>1, <2>2
  <1> QED
    BY <1>2, <1>3, <1>4, <1>5 DEF RunsWith, Completed

\* A mode fails in so many runs, those whose outcome has it.
LEMMA FailedOutcomes ==
  ASSUME NEW a \in DOMAIN Severity
  PROVE  Failed[a] \in SUBSET Outcomes /\ Failed[a] = {o \in Outcomes : a \in Failures(o)}
  BY DEF Failed

LEMMA FailuresCounted ==
  ASSUME NEW suite \in Suites, NEW a \in DOMAIN Severity
  PROVE  /\ Failing(suite, a) \in Nat /\ Completed(suite) \in Nat
         /\ Failing(suite, a) <= Completed(suite)
  BY RunsCounted, FailedOutcomes DEF Failing

(***************************************************************************)
(* Fractions                                                               *)
(***************************************************************************)

\* The rate of something is larger if it occurs at all and did not before, or more
\* often in no more runs.
LEMMA RateGrows ==
  ASSUME NEW f \in Nat, NEW n \in Nat, NEW g \in Nat, NEW m \in Nat, f <= n, g <= m, f > g,
         g = 0 \/ n <= m
  PROVE  Exceeds(Rate(f, n), Rate(g, m))
  <1>1. Rate(f, n) = <<f, n>> /\ n > 0
    BY DEF Rate
  <1>2. CASE m = 0
    <2>1. Rate(g, m) = <<0, 1>>
      BY <1>2 DEF Rate
    <2> QED
      BY <1>1, <2>1 DEF Exceeds
  <1>3. CASE m > 0
    <2>1. Rate(g, m) = <<g, m>>
      BY <1>3 DEF Rate
    <2>2. f * m > g * n
      <3>1. f * m > g * m
        BY <1>3
      <3>2. g * m >= g * n
        <4>1. CASE g = 0
          BY <4>1
        <4>2. CASE n <= m
          BY <4>2
        <4> QED
          BY <4>1, <4>2
      <3> QED
        BY <3>1, <3>2
    <2> QED
      BY <1>1, <2>1, <2>2 DEF Exceeds
  <1> QED
    BY <1>2, <1>3

\* A fraction less itself is none.
LEMMA MinusItself ==
  ASSUME NEW n \in Int, NEW m \in Int
  PROVE  /\ Minus(<<n, m>>, <<n, m>>)[1] = 0
         /\ Minus(<<n, m>>, <<n, m>>)[2] = m * m
         /\ m * m >= 0
  BY DEF Minus

(***************************************************************************)
(* Equal counts                                                            *)
(***************************************************************************)

\* The outcomes that do not pass although their evidence is complete, and the runs
\* that fail an assertion.
Blocked == {o \in Outcomes : DOMAIN Outcome[o].verdicts = {} \/ Blocking(o) # {}}
FailingRuns(suite, a) == Runs(suite, Failed[a])

\* Where no evidence is incomplete, a run passes or is blocked.
LEMMA PassesCounted ==
  ASSUME NEW suite \in Suites, \A o \in IncompleteOutcomes : ~(suite[o] > 0)
  PROVE  RunsWith(suite, PassedOutcomes) = Completed(suite) - RunsWith(suite, Blocked)
  <1> DEFINE good == Runs(suite, PassedOutcomes)
             bad == Runs(suite, Blocked)
             all == Runs(suite, Outcomes)
  <1>0. PassedOutcomes \in SUBSET Outcomes /\ Blocked \in SUBSET Outcomes
    BY DEF PassedOutcomes, Blocked
  <1>1. good \cap bad = {}
    <2>1. PassedOutcomes \cap Blocked = {}
      BY DEF PassedOutcomes, Blocked
    <2> QED
      BY <1>0, <2>1, SuiteRuns
  <1>2. all = good \cup bad
    <2>1. ASSUME NEW r \in all
          PROVE  r \in good \cup bad
      <3>1. r[1] \in Outcomes /\ ~Outcome[r[1]].incomplete
        BY SuiteRuns DEF IncompleteOutcomes
      <3>2. r[1] \in PassedOutcomes \/ r[1] \in Blocked
        BY <3>1 DEF PassedOutcomes, Blocked
      <3> QED
        BY <3>2, SuiteRuns
    <2>2. good \subseteq all /\ bad \subseteq all
      BY <1>0, SuiteRuns
    <2> QED
      BY <2>1, <2>2
  <1>3. IsFiniteSet(good) /\ IsFiniteSet(bad)
    BY <1>0, SuiteRuns
  <1>4. Cardinality(all) = Cardinality(good) + Cardinality(bad) - Cardinality({})
    BY <1>1, <1>2, <1>3, FS_Union
  <1>5. Cardinality({}) = 0 /\ Cardinality(good) \in Nat /\ Cardinality(bad) \in Nat
    BY <1>3, FS_EmptySet, FS_CardinalityType
  <1> QED
    BY <1>4, <1>5 DEF RunsWith, Completed

\* Two suites whose counts of failures decide how many runs pass: each run has a
\* verdict and at most one that blocks it, and an assertion blocks wherever it
\* fails or nowhere.
Decided(b, c) ==
  LET occurring == {o \in Outcomes : b[o] > 0 \/ c[o] > 0}
  IN  /\ \A o \in occurring : BlockedOnce(o)
      /\ \A o, p \in occurring : \A a \in Failures(o) \cap Failures(p) :
           LetPass(o, a) <=> LetPass(p, a)

\* If every assertion fails equally often in two such suites, equally many runs
\* are blocked: each assertion's failing runs can be paired off, and the pairs of
\* different assertions do not overlap.
LEMMA BlockedTie ==
  ASSUME NEW b \in Suites, NEW c \in Suites, Decided(b, c),
         \A a \in DOMAIN Severity : Failing(b, a) = Failing(c, a)
  PROVE  RunsWith(b, Blocked) = RunsWith(c, Blocked)
  <1> DEFINE B == Runs(b, Blocked)
             C == Runs(c, Blocked)
             Pairs(a) == Bijection(FailingRuns(b, a), FailingRuns(c, a))
             pair == [a \in DOMAIN Severity |-> CHOOSE g : g \in Pairs(a)]
             mode == [r \in B \cup C |-> CHOOSE a \in Blocking(r[1]) : TRUE]
             f == [r \in B |-> pair[mode[r]][r]]
  <1>0. Blocked \in SUBSET Outcomes
    BY DEF Blocked
  <1>1. ASSUME NEW a \in DOMAIN Severity
        PROVE  pair[a] \in Pairs(a)
    <2>1. IsFiniteSet(FailingRuns(b, a)) /\ IsFiniteSet(FailingRuns(c, a))
      BY SuiteRuns, FailedOutcomes DEF FailingRuns
    <2>2. Cardinality(FailingRuns(b, a)) = Cardinality(FailingRuns(c, a))
      BY DEF Failing, RunsWith, FailingRuns
    <2>3. ExistsBijection(FailingRuns(b, a), FailingRuns(c, a))
      BY <2>1, <2>2, FS_SameCardinalityBij
    <2> QED
      BY <2>3 DEF ExistsBijection
  <1>2. ASSUME NEW r \in B \cup C
        PROVE  /\ r[1] \in Outcomes
               /\ b[r[1]] > 0 \/ c[r[1]] > 0
               /\ mode[r] \in Blocking(r[1]) /\ mode[r] \in Failures(r[1])
               /\ mode[r] \in DOMAIN Severity /\ ~LetPass(r[1], mode[r])
               /\ r[1] \in Failed[mode[r]]
               /\ \A a \in Blocking(r[1]) : a = mode[r]
    <2>1. r[1] \in Blocked /\ r[1] \in Outcomes /\ (b[r[1]] > 0 \/ c[r[1]] > 0)
      BY <1>0, SuiteRuns
    <2>2. BlockedOnce(r[1])
      BY <2>1 DEF Decided
    <2>3. Blocking(r[1]) # {}
      BY <2>1, <2>2 DEF Blocked, BlockedOnce
    <2>4. mode[r] \in Blocking(r[1])
      BY <2>3
    <2> HIDE DEF mode
    <2>5. mode[r] \in Failures(r[1]) /\ ~LetPass(r[1], mode[r])
      BY <2>4 DEF Blocking
    <2>6. mode[r] \in DOMAIN Severity
      BY <2>1, <2>5, OutcomesAssumption DEF Failures
    <2>7. \A a \in Blocking(r[1]) : a = mode[r]
      BY <2>2, <2>4 DEF BlockedOnce
    <2>8. r[1] \in Failed[mode[r]]
      BY <2>1, <2>5, <2>6, FailedOutcomes
    <2> QED
      BY <2>1, <2>4, <2>5, <2>6, <2>7, <2>8
  <1> HIDE DEF pair, mode
  <1>3. ASSUME NEW r \in B \cup C, NEW t, t \in FailingRuns(b, mode[r]) \cup FailingRuns(c, mode[r])
        PROVE  /\ t \in B \cup C => mode[t] = mode[r]
               /\ t \in FailingRuns(b, mode[r]) => t \in B
               /\ t \in FailingRuns(c, mode[r]) => t \in C
    <2>1. mode[r] \in DOMAIN Severity /\ Failed[mode[r]] \in SUBSET Outcomes
      BY <1>2, FailedOutcomes
    <2>2. t[1] \in Failed[mode[r]] /\ (b[t[1]] > 0 \/ c[t[1]] > 0)
      BY <1>3, <2>1, SuiteRuns DEF FailingRuns
    <2>3. t[1] \in Outcomes /\ mode[r] \in Failures(t[1])
      BY <2>1, <2>2, FailedOutcomes
    <2>4. ~LetPass(t[1], mode[r])
      <3>1. r[1] \in Outcomes /\ mode[r] \in Failures(r[1]) /\ ~LetPass(r[1], mode[r])
        BY <1>2
      <3>2. b[r[1]] > 0 \/ c[r[1]] > 0
        BY <1>2
      <3>3. \A o, p \in {q \in Outcomes : b[q] > 0 \/ c[q] > 0} :
              \A a \in Failures(o) \cap Failures(p) : LetPass(o, a) <=> LetPass(p, a)
        BY DEF Decided
      <3> QED
        BY <2>2, <2>3, <3>1, <3>2, <3>3
    <2>5. mode[r] \in Blocking(t[1])
      BY <2>3, <2>4 DEF Blocking
    <2>6. t[1] \in Blocked
      BY <2>3, <2>5 DEF Blocked
    <2>7. t \in B \cup C => mode[t] = mode[r]
      BY <1>2, <2>5
    <2>8. /\ t \in FailingRuns(b, mode[r]) => t \in B
          /\ t \in FailingRuns(c, mode[r]) => t \in C
      BY <2>1, <2>6, SuiteRuns DEF FailingRuns
    <2> QED
      BY <2>7, <2>8
  <1>4. ASSUME NEW r \in B
        PROVE  r \in FailingRuns(b, mode[r])
    BY <1>0, <1>2, SuiteRuns DEF FailingRuns
  <1>5. ASSUME NEW r \in B
        PROVE  f[r] \in C /\ mode[f[r]] = mode[r]
    <2>1. f[r] \in FailingRuns(c, mode[r])
      BY <1>1, <1>2, <1>4 DEF Bijection, Injection, IsInjective
    <2> HIDE DEF f, B, C
    <2>2. r \in B \cup C
      OBVIOUS
    <2>3. f[r] \in C
      BY <1>3, <2>1, <2>2
    <2> QED
      BY <1>3, <2>1, <2>2, <2>3
  <1>6. f \in [B -> C]
    BY <1>5
  <1>7. ASSUME NEW r \in B, NEW s \in B, f[r] = f[s]
        PROVE  r = s
    <2>1. mode[r] = mode[s]
      BY <1>5, <1>7
    <2>2. r \in FailingRuns(b, mode[r]) /\ s \in FailingRuns(b, mode[r])
      BY <1>4, <2>1
    <2>3. pair[mode[r]][r] = pair[mode[r]][s]
      BY <1>7, <2>1
    <2> QED
      BY <1>1, <1>2, <2>2, <2>3 DEF Bijection, Injection, IsInjective
  <1>8. ASSUME NEW t \in C
        PROVE  \E r \in B : f[r] = t
    <2>1. t \in FailingRuns(c, mode[t])
      BY <1>0, <1>2, SuiteRuns DEF FailingRuns
    <2>2. PICK r \in FailingRuns(b, mode[t]) : pair[mode[t]][r] = t
      BY <1>1, <1>2, <2>1 DEF Bijection, Surjection
    <2> HIDE DEF B, C
    <2>3. t \in B \cup C
      OBVIOUS
    <2>4. r \in B
      BY <1>3, <2>2, <2>3
    <2>5. mode[r] = mode[t]
      BY <1>3, <2>2, <2>3, <2>4
    <2> QED
      BY <2>2, <2>4, <2>5
  <1>9. f \in Bijection(B, C)
    BY <1>6, <1>7, <1>8 DEF Bijection, Injection, Surjection, IsInjective
  <1>10. IsFiniteSet(B)
    BY <1>0, SuiteRuns
  <1> HIDE DEF B, C, f
  <1>11. Cardinality(B) = Cardinality(C)
    BY <1>9, <1>10, FS_Bijection DEF ExistsBijection
  <1> QED
    BY <1>11 DEF RunsWith, B, C

(***************************************************************************)
(* Smallest and largest                                                    *)
(***************************************************************************)

\* A set of naturals that is not empty has a smallest element.
LEMMA SmallestExists ==
  ASSUME NEW S \in SUBSET Nat, S # {}
  PROVE  Min(S) \in S /\ \A y \in S : Min(S) <= y
  <1> DEFINE R == OpToRel(<, Nat)
  <1>0. \A x, y \in Nat : x < y => <<x, y>> \in R
    BY DEF OpToRel
  <1>1. IsWellFoundedOn(R, Nat)
    BY NatLessThanWellFounded
  <1> HIDE DEF R
  <1>2. \E x \in S : \A y \in S : x <= y
    <2>1. PICK x \in S : \A y \in S : ~ (<<y, x>> \in R)
      BY <1>1, WFMin
    <2>2. ASSUME NEW y \in S
          PROVE  x <= y
      <3>1. x \in Nat /\ y \in Nat
        OBVIOUS
      <3>2. ~ (y < x)
        BY <1>0, <2>1, <3>1
      <3> QED
        BY <3>1, <3>2
    <2> QED
      BY <2>2
  <1> QED
    BY <1>2 DEF Min

\* The runs of the most frequent signature can be counted.
LEMMA MostFrequent ==
  ASSUME NEW suite \in Suites, Completed(suite) # 0
  PROVE  Max({RunsWith(suite, outcomes) : outcomes \in Alike}) \in Nat
  <1> DEFINE S == {RunsWith(suite, outcomes) : outcomes \in Alike}
             T == {Completed(suite) - n : n \in S}
  <1>0. Completed(suite) \in Nat
    BY RunsCounted
  <1>1. \A n \in S : n \in Nat /\ n <= Completed(suite)
    <2>1. \A outcomes \in Alike : outcomes \in SUBSET Outcomes
      BY DEF Alike
    <2> QED
      BY <2>1, RunsCounted
  <1>2. S # {}
    <2>1. RunsWith(suite, Outcomes) # 0
      BY DEF Completed
    <2>2. \E o \in Outcomes : suite[o] > 0
      BY <2>1, RunsCounted
    <2>3. PICK o \in Outcomes : suite[o] > 0
      BY <2>2
    <2>4. {p \in Outcomes : Signature(p) = Signature(o)} \in Alike
      BY DEF Alike
    <2> QED
      BY <2>4
  <1> HIDE DEF S
  <1>3. T \in SUBSET Nat /\ T # {}
    BY <1>0, <1>1, <1>2
  <1>4. PICK x \in S : \A y \in S : Completed(suite) - x <= Completed(suite) - y
    <2>1. Min(T) \in T /\ \A y \in T : Min(T) <= y
      BY <1>3, SmallestExists
    <2> QED
      BY <2>1
  <1>5. \E z \in S : \A y \in S : z >= y
    BY <1>0, <1>1, <1>4
  <1>6. Max(S) \in S
    BY <1>5 DEF Max
  <1> QED
    BY <1>1, <1>6 DEF S

(***************************************************************************)
(* The primary classification                                              *)
(***************************************************************************)

\* The first finding of the list is reported, and every finding is in the list.
LEMMA PrimaryFound ==
  /\ Primary = "raises" => Findings = {}
  /\ Primary # "raises" => Primary \in Findings
  <1> DEFINE ranks == {i \in DOMAIN PrimaryOrder : PrimaryOrder[i] \in Findings}
  <1>1. \A f \in Findings : \E i \in DOMAIN PrimaryOrder : PrimaryOrder[i] = f
    <2>1. \A f \in PassFinding :
            f \in {"new_failure", "fixed", "unchanged_pass", "unchanged_failure",
                   "failure_mode_changed"}
      BY DEF PassFinding, If
    <2>2. \A f \in Findings :
            f \in {"incompatible", "new_failure", "infrastructure_regressed",
                   "failure_mode_changed", "flakiness_increased", "performance_regressed",
                   "cost_regressed", "fixed", "flakiness_decreased", "insufficient_evidence",
                   "unchanged_failure", "unchanged_pass"}
      BY <2>1 DEF Findings, If
    <2> HIDE DEF Findings
    <2> QED
      BY <2>2 DEF PrimaryOrder
  <1>2. \A i \in DOMAIN PrimaryOrder : PrimaryOrder[i] # "raises"
    BY DEF PrimaryOrder
  <1>3. CASE ranks = {}
    BY <1>1, <1>3 DEF Primary
  <1>4. CASE ranks # {}
    <2>1. ranks \in SUBSET Nat
      BY DEF PrimaryOrder
    <2>2. Min(ranks) \in ranks
      BY <1>4, <2>1, SmallestExists
    <2>3. Primary = PrimaryOrder[Min(ranks)]
      BY <1>4 DEF Primary
    <2> QED
      BY <1>2, <2>2, <2>3
  <1> QED
    BY <1>3, <1>4

\* Compatible suites have no run whose evidence is incomplete, and at least one run
\* each.
LEMMA Compatible ==
  ASSUME baseline \in Suites, candidate \in Suites, ~Incompatible
  PROVE  /\ \A o \in IncompleteOutcomes : ~(baseline[o] > 0) /\ ~(candidate[o] > 0)
         /\ Completed(baseline) > 0 /\ Completed(candidate) > 0
         /\ ~("world" \in drift) /\ ~("policy" \in drift)
         /\ "scenario" \in drift => Config.allow_hash_mismatch
  <1>0. IncompleteOutcomes \in SUBSET Outcomes
    BY DEF IncompleteOutcomes
  <1>1. RunsWith(baseline, IncompleteOutcomes) \in Nat /\ RunsWith(candidate, IncompleteOutcomes) \in Nat
    BY <1>0, RunsCounted
  <1>2. RunsWith(baseline, IncompleteOutcomes) = 0 /\ RunsWith(candidate, IncompleteOutcomes) = 0
    <2>1. ~IncompleteEvidence
      BY DEF Incompatible
    <2> QED
      BY <1>1, <2>1 DEF IncompleteEvidence
  <1>3. \A o \in IncompleteOutcomes : ~(baseline[o] > 0) /\ ~(candidate[o] > 0)
    BY <1>0, <1>2, RunsCounted
  <1>4. Completed(baseline) > 0 /\ Completed(candidate) > 0
    <2>1. Completed(baseline) \in Nat /\ Completed(candidate) \in Nat
      BY RunsCounted
    <2> QED
      BY <2>1 DEF Incompatible
  <1> QED
    BY <1>3, <1>4 DEF Incompatible

\* In suites of one size whose failures tie and decide how many runs pass, as many
\* runs pass.
LEMMA TiedRates ==
  ASSUME baseline \in Suites, candidate \in Suites, ~Incompatible, FailureDeltas = {},
         Completed(baseline) = Completed(candidate), CountsDecide
  PROVE  PassRatesEqual
  <1>0. Decided(baseline, candidate)
    <2>1. \A o \in Occurring : BlockedOnce(o)
      BY DEF CountsDecide
    <2>2. ASSUME NEW o \in Occurring, NEW p \in Occurring, NEW a \in Failures(o) \cap Failures(p)
          PROVE  LetPass(o, a) <=> LetPass(p, a)
      <3>1. a \in DOMAIN Severity
        BY OutcomesAssumption DEF Failures, Occurring
      <3> QED
        BY <3>1 DEF CountsDecide, SameEverywhere
    <2> QED
      BY <2>1, <2>2 DEF Decided, Occurring
  <1>1. \A a \in DOMAIN Severity : Failing(baseline, a) = Failing(candidate, a)
    BY DEF FailureDeltas
  <1>2. RunsWith(baseline, Blocked) = RunsWith(candidate, Blocked)
    BY <1>0, <1>1, BlockedTie
  <1>3. RunsWith(baseline, PassedOutcomes) = RunsWith(candidate, PassedOutcomes)
    BY <1>2, Compatible, PassesCounted
  <1>4. RunsWith(baseline, PassedOutcomes) \in Nat /\ Completed(baseline) \in Nat
    BY RunsCounted DEF PassedOutcomes
  <1>5. PassRate(baseline) = PassRate(candidate)
    BY <1>3 DEF PassRate
  <1>6. \E n \in Int, m \in Int : PassRate(baseline) = <<n, m>>
    BY <1>4 DEF PassRate, Rate
  <1> QED
    BY <1>5, <1>6, MinusItself DEF PassRatesEqual

(***************************************************************************)
(* The gate                                                                *)
(***************************************************************************)

\* The candidate's runs with a mode that fails more often count as occurrences of
\* its severity.
LEMMA OccurrencesCount ==
  ASSUME candidate \in Suites, NEW a \in DOMAIN Severity, FailsMore(a)
  PROVE  Occurrences(Severity[a]) \in Nat /\ Failing(candidate, a) <= Occurrences(Severity[a])
  <1> DEFINE modes == {b \in DOMAIN Severity : Severity[b] = Severity[a] /\ FailsMore(b)}
             S == UNION {{b} \X Runs(candidate, Failed[b]) : b \in modes}
             all == modes \X Runs(candidate, Outcomes)
             F == FailingRuns(candidate, a)
             g == [r \in F |-> <<a, r>>]
  <1>1. IsFiniteSet(S)
    <2>1. IsFiniteSet(modes)
      BY OutcomesAssumption, FS_Subset
    <2>2. IsFiniteSet(all)
      BY <2>1, SuiteRuns, FS_Product
    <2>3. \A b \in modes : Runs(candidate, Failed[b]) \subseteq Runs(candidate, Outcomes)
      BY SuiteRuns, FailedOutcomes
    <2>4. S \subseteq all
      BY <2>3
    <2> QED
      BY <2>2, <2>4, FS_Subset
  <1>2. g \in Injection(F, S)
    <2>1. \A r \in F : <<a, r>> \in S
      BY DEF FailingRuns
    <2> QED
      BY <2>1 DEF Injection, IsInjective
  <1> HIDE DEF S, F, g
  <1>3. Cardinality(F) <= Cardinality(S)
    BY <1>1, <1>2, FS_Injection
  <1>4. Cardinality(S) \in Nat
    BY <1>1, FS_CardinalityType
  <1>5. Occurrences(Severity[a]) = Cardinality(S)
    BY DEF Occurrences, S
  <1>6. Failing(candidate, a) = Cardinality(F)
    BY DEF Failing, RunsWith, FailingRuns, F
  <1> QED
    BY <1>3, <1>4, <1>5, <1>6

\* A critical mode that is new, or fails more often in no more runs, is a reason to
\* fail.
LEMMA CriticalIsReason ==
  ASSUME baseline \in Suites, candidate \in Suites, NEW a \in Modes(candidate),
         Severity[a] = "critical", Failing(candidate, a) > Config.critical_allowed,
         \/ a \notin Modes(baseline)
         \/ /\ Failing(candidate, a) # Failing(baseline, a)
            /\ Completed(candidate) <= Completed(baseline)
            /\ Failing(candidate, a) > Failing(baseline, a)
  PROVE  Reasons # {}
  <1>1. /\ Failing(baseline, a) \in Nat /\ Completed(baseline) \in Nat
        /\ Failing(baseline, a) <= Completed(baseline)
        /\ Failing(candidate, a) \in Nat /\ Completed(candidate) \in Nat
        /\ Failing(candidate, a) <= Completed(candidate)
    BY FailuresCounted DEF Modes
  <1>2. a \in DOMAIN Severity /\ Failing(candidate, a) > 0
    BY DEF Modes
  <1>3. /\ Failing(candidate, a) > Failing(baseline, a)
        /\ Failing(baseline, a) = 0 \/ Completed(candidate) <= Completed(baseline)
    BY <1>1, <1>2 DEF Modes
  <1>4. FailsMore(a)
    <2>1. a \in FailureDeltas
      BY <1>1, <1>2, <1>3 DEF FailureDeltas
    <2> QED
      BY <1>1, <1>3, <2>1, RateGrows DEF FailsMore
  <1>5. Occurrences("critical") > Config.critical_allowed
    BY <1>1, <1>2, <1>4, OccurrencesCount, ConfigAssumption
  <1> QED
    BY <1>5 DEF Reasons, If

\* No mode fails more often in a suite compared with itself, and none of the other
\* thresholds is exceeded.
LEMMA SameSuite ==
  ASSUME baseline \in Suites, candidate = baseline, drift = {}, excess = {}, ~Incompatible,
         ~Exceeds(InfrastructureRate(candidate), Percent(Config.infrastructure_rate)),
         Config.minimum_pass_rate = 0, ~Config.low_sample_fails
  PROVE  /\ Reasons = {} /\ ContextualPassed
         /\ Findings \subseteq {"unchanged_pass", "unchanged_failure", "insufficient_evidence"}
         /\ Findings # {}
  <1>1. FailureDeltas = {}
    BY DEF FailureDeltas
  <1>2. \A a \in DOMAIN Severity : ~FailsMore(a)
    BY <1>1 DEF FailsMore
  <1>3. \A s : Occurrences(s) = 0
    <2> TAKE s
    <2>1. {a \in DOMAIN Severity : Severity[a] = s /\ FailsMore(a)} = {}
      BY <1>2
    <2>2. Occurrences(s) = Cardinality({})
      BY <2>1 DEF Occurrences
    <2> QED
      BY <2>2, FS_EmptySet
  <1>4. PICK n \in Nat, m \in Nat : PassRate(baseline) = <<n, m>>
    <2>1. PassedOutcomes \in SUBSET Outcomes
      BY DEF PassedOutcomes
    <2> QED
      BY <2>1, RunsCounted DEF PassRate, Rate
  <1>5. PICK k \in Int, l \in Int : Variability(baseline) = <<k, l>>
    <2>1. Completed(baseline) \in Nat
      BY RunsCounted
    <2>2. CASE Completed(baseline) = 0
      <3>1. Variability(baseline) = <<0, 1>>
        BY <2>2 DEF Variability
      <3> QED
        BY <3>1
    <2>3. CASE Completed(baseline) # 0
      <3> DEFINE most == Max({RunsWith(baseline, outcomes) : outcomes \in Alike})
      <3>1. most \in Nat
        BY <2>3, MostFrequent
      <3>2. Variability(baseline) = <<Completed(baseline) - most, Completed(baseline)>>
        BY <2>3 DEF Variability
      <3> HIDE DEF most
      <3>3. Completed(baseline) - most \in Int /\ Completed(baseline) \in Int
        BY <2>1, <3>1
      <3> QED
        BY <3>2, <3>3
    <2> QED
      BY <2>2, <2>3
  <1>6. Minus(PassRate(candidate), PassRate(baseline)) = <<0, m * m>> /\ m * m >= 0
    BY <1>4, MinusItself DEF Minus
  <1>7. FlakinessDelta = <<0, l * l>> /\ l * l >= 0
    BY <1>5, MinusItself DEF Minus, FlakinessDelta
  <1>8. ASSUME NEW q \in Int, q >= 0, NEW percent \in Nat
        PROVE  ~Falls(<<0, q>>, percent) /\ ~Exceeds(<<0, q>>, Percent(percent))
    <2>1. percent * q >= 0
      BY <1>8
    <2> QED
      BY <2>1 DEF Falls, Exceeds, Percent
  <1>9. ~Exceeds(Percent(0), PassRate(candidate))
    BY <1>4 DEF Exceeds, Percent
  <1>10. ~IncompleteEvidence
    BY DEF Incompatible
  <1>11. Reasons = {}
    <2>1. ~Falls(<<0, m * m>>, Config.pass_rate_decrease)
      BY <1>6, <1>8, ConfigAssumption
    <2>2. /\ ~(Occurrences("critical") > Config.critical_allowed)
          /\ ~(Occurrences("high") > Config.high_allowed)
      BY <1>3, ConfigAssumption
    <2> QED
      BY <1>6, <1>9, <2>1, <2>2 DEF Reasons, If
  <1>12. /\ ~Exceeds(FlakinessDelta, Percent(Config.flakiness_increase))
         /\ ~Falls(FlakinessDelta, Config.flakiness_increase)
    BY <1>7, <1>8, ConfigAssumption
  <1>13. PassFinding \in {{"unchanged_pass"}, {"unchanged_failure"}}
    BY <1>6 DEF PassFinding, PassRatesEqual
  <1>14. /\ Findings \subseteq {"unchanged_pass", "unchanged_failure", "insufficient_evidence"}
         /\ Findings # {}
    BY <1>12, <1>13 DEF Findings, InfrastructureRegressed, If
  <1> QED
    BY <1>10, <1>11, <1>14 DEF ContextualPassed

(***************************************************************************)
(* The invariants                                                          *)
(***************************************************************************)

\* The suites are suites and differ in what the comparison knows of.
ComparisonTypes ==
  /\ baseline \in Suites /\ candidate \in Suites
  /\ drift \in Drifts /\ excess \in Excesses

\* A report says what the definitions say of the suites it compares.
Reported(r) ==
  /\ r.primary = Primary
  /\ r.passed => Reasons = {}
  /\ r.contextual => ContextualPassed /\ r.passed
  /\ Primary # "raises" => (Reasons = {} => r.passed) /\ (ContextualPassed => r.contextual)

\* Nothing passes the contextual comparison that does not pass the plain one.
LEMMA ContextualIsStricter ==
  ContextualPassed => Reasons = {} /\ "context" \notin drift
  BY DEF ContextualPassed

LEMMA ComparisonStep ==
  ASSUME ComparisonTypes, [Next]_vars
  PROVE  /\ ComparisonTypes'
         /\ baseline' = baseline /\ candidate' = candidate /\ drift' = drift /\ excess' = excess
         /\ report' = report \/ \E r : report' = {r} /\ Reported(r)
  <1>1. CASE Compare
    <2>1. Primary # "raises"
      BY <1>1 DEF Compare
    <2> DEFINE r == [primary |-> Primary, passed |-> Reasons = {}, contextual |-> ContextualPassed]
    <2>2. report' = {r}
      BY <1>1 DEF Compare
    <2>3. /\ r.primary = Primary /\ r.passed = (Reasons = {})
          /\ r.contextual = ContextualPassed
      OBVIOUS
    <2>4. Reported(r)
      <3> HIDE DEF r
      <3> QED
        BY <2>3, ContextualIsStricter, Zenon DEF Reported
    <2> HIDE DEF r
    <2> QED
      BY <1>1, <2>2, <2>4 DEF Compare, ComparisonTypes
  <1>2. CASE CompareRaises
    <2> DEFINE r == [primary |-> "raises", passed |-> FALSE, contextual |-> FALSE]
    <2>1. report' = {r} /\ Primary = "raises"
      BY <1>2 DEF CompareRaises
    <2>2. Reported(r)
      BY <2>1 DEF Reported
    <2> HIDE DEF r
    <2> QED
      BY <1>2, <2>1, <2>2 DEF CompareRaises, ComparisonTypes
  <1>3. CASE UNCHANGED vars
    BY <1>3 DEF vars, ComparisonTypes
  <1> QED
    BY <1>1, <1>2, <1>3 DEF Next

\* A critical failure that is new, or that grows, fails the gate.
LEMMA CriticalStep ==
  ASSUME ComparisonTypes, [Next]_vars, NewCriticalFails
  PROVE  NewCriticalFails'
  <1>1. CASE report' = report
    BY <1>1, ComparisonStep DEF NewCriticalFails
  <1>2. ASSUME NEW r, report' = {r}, Reported(r)
        PROVE  NewCriticalFails'
    <2>1. ASSUME NEW a \in Modes(candidate),
                 Severity[a] = "critical", Failing(candidate, a) > Config.critical_allowed,
                 \/ a \notin Modes(baseline)
                 \/ /\ Failing(candidate, a) # Failing(baseline, a)
                    /\ Completed(candidate) <= Completed(baseline)
                    /\ Failing(candidate, a) > Failing(baseline, a)
          PROVE  ~r.passed /\ ~r.contextual
      <3>1. Reasons # {}
        BY <2>1, CriticalIsReason DEF ComparisonTypes
      <3> QED
        BY <1>2, <3>1, ContextualIsStricter DEF Reported
    <2> QED
      BY <1>2, <2>1, ComparisonStep DEF NewCriticalFails
  <1> QED
    BY <1>1, <1>2, ComparisonStep

\* Missing, incomplete or foreign evidence fails the gate.
LEMMA EvidenceStep ==
  ASSUME ComparisonTypes, [Next]_vars, EvidenceFailsClosed
  PROVE  EvidenceFailsClosed'
  <1>1. CASE report' = report
    BY <1>1, ComparisonStep DEF EvidenceFailsClosed
  <1>2. ASSUME NEW r, report' = {r}, Reported(r)
        PROVE  EvidenceFailsClosed'
    <2>1. ASSUME r.passed
          PROVE  /\ \A o \in IncompleteOutcomes : baseline[o] = 0 /\ candidate[o] = 0
                 /\ Completed(baseline) > 0 /\ Completed(candidate) > 0
                 /\ drift \subseteq {"worker", "context"} \cup If(Config.allow_hash_mismatch, "scenario")
      <3>1. ~Incompatible
        BY <1>2, <2>1 DEF Reported, Reasons, If
      <3>2. /\ \A o \in IncompleteOutcomes : ~(baseline[o] > 0) /\ ~(candidate[o] > 0)
            /\ Completed(baseline) > 0 /\ Completed(candidate) > 0
            /\ ~("world" \in drift) /\ ~("policy" \in drift)
            /\ "scenario" \in drift => Config.allow_hash_mismatch
        BY <3>1, Compatible DEF ComparisonTypes
      <3>3. \A o \in IncompleteOutcomes : baseline[o] \in Nat /\ candidate[o] \in Nat
        BY SuiteCounts, MaxRunsAssumption DEF ComparisonTypes, IncompleteOutcomes
      <3>4. \A o \in IncompleteOutcomes : baseline[o] = 0 /\ candidate[o] = 0
        BY <3>2, <3>3
      <3>5. drift \subseteq {"world", "policy", "scenario", "worker", "context"}
        BY DifferencesAssumption DEF ComparisonTypes
      <3> QED
        BY <3>2, <3>4, <3>5 DEF If
    <2>2. ASSUME r.contextual
          PROVE  r.passed /\ "context" \notin drift
      <3>1. Reasons = {} /\ "context" \notin drift
        BY <1>2, <2>2, ContextualIsStricter DEF Reported
      <3> QED
        BY <1>2, <2>2, <3>1 DEF Reported
    <2> QED
      BY <1>2, <2>1, <2>2, ComparisonStep DEF EvidenceFailsClosed
  <1> QED
    BY <1>1, <1>2, ComparisonStep

\* The suites are classified, or tie; and a suite compared with itself passes.
LEMMA ClassifiedStep ==
  ASSUME ComparisonTypes, [Next]_vars, ClassifiedUnlessCountsTie
  PROVE  ClassifiedUnlessCountsTie'
  <1>1. CASE report' = report
    <2>1. Incompatible' <=> Incompatible
      BY ComparisonStep DEF Incompatible, IncompleteEvidence
    <2>2. FailureDeltas' = FailureDeltas
      BY ComparisonStep DEF FailureDeltas
    <2>3. CountsDecide' <=> CountsDecide
      BY ComparisonStep DEF CountsDecide, Occurring, SameEverywhere
    <2> QED
      BY <1>1, <2>1, <2>2, <2>3, ComparisonStep DEF ClassifiedUnlessCountsTie
  <1>2. ASSUME NEW r, report' = {r}, Reported(r)
        PROVE  ClassifiedUnlessCountsTie'
    <2>1. ASSUME r.primary = "raises"
          PROVE  /\ FailureDeltas = {}
                 /\ Completed(baseline) # Completed(candidate) \/ ~CountsDecide
      <3>1. Findings = {}
        BY <1>2, <2>1, PrimaryFound DEF Reported
      <3>2. ~Incompatible
        BY <3>1 DEF Findings, If
      <3>3. PassFinding = {}
        BY <3>1 DEF Findings
      <3>4. /\ ~AllPass(baseline) /\ ~AllPass(candidate) /\ ~PassRatesEqual
            /\ FailureDeltas = {}
        BY <3>3 DEF PassFinding, If
      <3> QED
        BY <3>2, <3>4, TiedRates DEF ComparisonTypes
    <2>2. ASSUME baseline = candidate, drift = {}, excess = {}, ~Incompatible,
                 ~Exceeds(InfrastructureRate(candidate), Percent(Config.infrastructure_rate)),
                 Config.minimum_pass_rate = 0, ~Config.low_sample_fails
          PROVE  /\ r.passed /\ r.contextual
                 /\ r.primary \in {"unchanged_pass", "unchanged_failure", "insufficient_evidence"}
      <3>1. /\ Reasons = {} /\ ContextualPassed
            /\ Findings \subseteq {"unchanged_pass", "unchanged_failure", "insufficient_evidence"}
            /\ Findings # {}
        BY <2>2, SameSuite DEF ComparisonTypes
      <3>2. Primary # "raises" /\ Primary \in Findings
        BY <3>1, PrimaryFound
      <3> QED
        BY <1>2, <3>1, <3>2 DEF Reported
    <2>3. Incompatible' <=> Incompatible
      BY ComparisonStep DEF Incompatible, IncompleteEvidence
    <2>4. FailureDeltas' = FailureDeltas
      BY ComparisonStep DEF FailureDeltas
    <2>5. CountsDecide' <=> CountsDecide
      BY ComparisonStep DEF CountsDecide, Occurring, SameEverywhere
    <2> QED
      BY <1>2, <2>1, <2>2, <2>3, <2>4, <2>5, ComparisonStep DEF ClassifiedUnlessCountsTie
  <1> QED
    BY <1>1, <1>2, ComparisonStep

ComparisonInv ==
  /\ ComparisonTypes
  /\ NewCriticalFails /\ EvidenceFailsClosed /\ ClassifiedUnlessCountsTie

\* Between the choice of the suites and the report nothing changes, so what holds of
\* the suites when they are compared holds of the report.
THEOREM ComparisonSafety == Spec => []ComparisonInv
  <1>1. Init => ComparisonInv
    BY DEF Init, ComparisonInv, ComparisonTypes, NewCriticalFails, EvidenceFailsClosed,
           ClassifiedUnlessCountsTie
  <1>2. ComparisonInv /\ [Next]_vars => ComparisonInv'
    <2> SUFFICES ASSUME ComparisonInv, [Next]_vars
                 PROVE  ComparisonInv'
      OBVIOUS
    <2> QED
      BY ComparisonStep, CriticalStep, EvidenceStep, ClassifiedStep DEF ComparisonInv
  <1> QED
    BY <1>1, <1>2, PTL DEF Spec

\* A critical assertion that fails in more of the candidate's runs than are allowed,
\* and that is new or grows although the suite does not, fails both gates
\* (comparison.py compare_suites, comparison_context.py).
THEOREM NewCriticalsFail == Spec => []NewCriticalFails
  BY ComparisonSafety, PTL DEF ComparisonInv

\* Neither gate passes on incomplete, missing or foreign evidence, and the contextual
\* one is the stricter of the two (comparison.py _compatibility).
THEOREM GateFailsClosed == Spec => []EvidenceFailsClosed
  BY ComparisonSafety, PTL DEF ComparisonInv

\* compare_suites finds a classification for every two suites of one size unless the
\* counts of failures do not tell how many runs pass, and passes a suite compared
\* with itself.
THEOREM SuitesAreClassified == Spec => []ClassifiedUnlessCountsTie
  BY ComparisonSafety, PTL DEF ComparisonInv

=============================================================================
