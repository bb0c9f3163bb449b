-------------------------- MODULE GateChecksProofs --------------------------
(***************************************************************************)
(* What evaluate_gate returns, for attestations of any size: any number of *)
(* source invariants, ROI entries and metrics with any names and values:   *)
(* the vector is complete, empty exactly when every check holds, and       *)
(* begins with the first failure.                                          *)
(*                                                                         *)
(* The loops of evaluate_gate are a recursive function (Collected).  The   *)
(* least-number principle, which holds because < is well founded, shows    *)
(* that the function exists and what it returns: the names of the failing  *)
(* entries, the first of them first.  The rest is about concatenations.    *)
(***************************************************************************)
EXTENDS GateChecks, WellFoundedInduction, SequenceTheorems, TLAPS

-----------------------------------------------------------------------------
(* Induction *)

\* Every non-empty set of naturals has a least element.
LEMMA LeastNumber ==
  ASSUME NEW T \in SUBSET Nat, T # {}
  PROVE  \E x \in T : \A y \in T : x <= y
  <1>1. IsWellFoundedOn(OpToRel(<,Nat), Nat)
    BY NatLessThanWellFounded
  <1>2. PICK x \in T : \A y \in T : ~ (<<y, x>> \in OpToRel(<,Nat))
    BY <1>1, WFMin, Zenon
  <1>3. \A y \in T : ~(y < x)
    BY <1>2 DEF OpToRel
  <1> QED BY <1>3

\* A set of naturals that contains 0 and with each number the next, up to n,
\* contains all of them.
LEMMA UpTo ==
  ASSUME NEW n \in Nat, NEW S, 0 \in S, \A k \in 0 .. n - 1 : k \in S => k + 1 \in S
  PROVE  \A k \in 0 .. n : k \in S
  <1> DEFINE T == {k \in 0 .. n : k \notin S}
  <1> SUFFICES ASSUME T # {} PROVE FALSE
    OBVIOUS
  <1>1. PICK x \in T : \A y \in T : x <= y
    <2>1. T \in SUBSET Nat /\ T # {}
      OBVIOUS
    <2> HIDE DEF T
    <2> QED BY <2>1, LeastNumber
  <1>2. x # 0 /\ x - 1 \in 0 .. n - 1 /\ x - 1 \notin T
    BY <1>1
  <1> QED BY <1>1, <1>2

-----------------------------------------------------------------------------
(* The loops *)

\* One round of a loop, on what the rounds before have collected.
Round(names, failing, before, k) ==
  IF k \in failing THEN Append(before, names[k]) ELSE before

IsLoop(g, names, failing, n) ==
  g = [k \in 0 .. n |-> IF k = 0 THEN <<>> ELSE Round(names, failing, g[k - 1], k)]

LEMMA LoopExists ==
  ASSUME NEW names, NEW failing, NEW n \in Nat
  PROVE  \E g : IsLoop(g, names, failing, n)
  <1> DEFINE S == {k \in 0 .. n : \E g : IsLoop(g, names, failing, k)}
  <1>1. 0 \in S
    <2>1. IsLoop([k \in 0 .. 0 |-> <<>>], names, failing, 0)
      BY DEF IsLoop
    <2> QED BY <2>1
  <1>2. ASSUME NEW k \in 0 .. n - 1, k \in S PROVE k + 1 \in S
    <2>1. PICK g : IsLoop(g, names, failing, k)
      BY <1>2
    <2> DEFINE h == [j \in 0 .. k + 1 |-> IF j <= k THEN g[j]
                                          ELSE Round(names, failing, g[k], k + 1)]
    <2>2. ASSUME NEW j \in 0 .. k + 1
          PROVE  h[j] = IF j = 0 THEN <<>> ELSE Round(names, failing, h[j - 1], j)
      <3>1. CASE j = 0
        BY <2>1, <3>1 DEF IsLoop
      <3>2. CASE j \in 1 .. k
        <4>1. h[j] = g[j] /\ h[j - 1] = g[j - 1]
          BY <3>2
        <4>2. g[j] = Round(names, failing, g[j - 1], j)
          BY <2>1, <3>2 DEF IsLoop
        <4> QED BY <3>2, <4>1, <4>2
      <3>3. CASE j = k + 1
        <4>1. h[j] = Round(names, failing, g[k], k + 1) /\ h[j - 1] = g[k]
          BY <3>3
        <4> QED BY <3>3, <4>1
      <3> QED BY <3>1, <3>2, <3>3
    <2>3. h = [j \in 0 .. k + 1 |-> IF j = 0 THEN <<>> ELSE Round(names, failing, h[j - 1], j)]
      <3> DEFINE e == [j \in 0 .. k + 1 |-> IF j = 0 THEN <<>>
                                            ELSE Round(names, failing, h[j - 1], j)]
      <3>1. DOMAIN h = 0 .. k + 1 /\ DOMAIN e = 0 .. k + 1
        OBVIOUS
      <3>2. \A j \in 0 .. k + 1 : h[j] = e[j]
        BY <2>2
      <3>3. h = [j \in DOMAIN h |-> h[j]] /\ e = [j \in DOMAIN e |-> e[j]]
        OBVIOUS
      <3> HIDE DEF h, e
      <3>4. h = e
        BY <3>1, <3>2, <3>3
      <3> QED BY <3>4 DEF e
    <2>4. IsLoop(h, names, failing, k + 1)
      BY <2>3 DEF IsLoop
    <2> HIDE DEF h
    <2> QED BY <2>4, <1>2
  <1> HIDE DEF S
  <1>3. \A k \in 0 .. n : k \in S
    BY <1>1, <1>2, UpTo
  <1>4. n \in S
    BY <1>3
  <1> QED BY <1>4 DEF S

\* Collected is the last value of a loop.
LEMMA CollectedIsLoop ==
  ASSUME NEW names, NEW failing, Len(names) \in Nat
  PROVE  \E g : IsLoop(g, names, failing, Len(names)) /\ Collected(names, failing) = g[Len(names)]
  <1> DEFINE n == Len(names)
             f == CHOOSE g : IsLoop(g, names, failing, n)
  <1>1. IsLoop(f, names, failing, n)
    BY LoopExists
  <1>2. f = CHOOSE g : g = [k \in 0 .. n |->
                              IF k = 0 THEN <<>>
                              ELSE IF k \in failing THEN Append(g[k - 1], names[k]) ELSE g[k - 1]]
    BY DEF IsLoop, Round
  <1>3. Collected(names, failing) = f[n]
    BY <1>2 DEF Collected
  <1> QED BY <1>1, <1>3

\* What a loop has gathered after k rounds: the names of the entries that failed
\* so far, and the first of them first.
Gathered(s, names, past) ==
  /\ {s[i] : i \in DOMAIN s} = {names[j] : j \in past}
  /\ \A m \in past : (\A j \in past : m <= j) => s[1] = names[m]

LEMMA GatherOneMore ==
  ASSUME NEW S, NEW s \in Seq(S), NEW names, NEW past \in SUBSET Nat, NEW k \in Nat,
         Gathered(s, names, past), \A j \in past : j < k, names[k] \in S
  PROVE  Append(s, names[k]) \in Seq(S) /\ Gathered(Append(s, names[k]), names, past \cup {k})
  <1>1. PICK e \in S : e = names[k]
    OBVIOUS
  <1>2. PICK t : t = Append(s, e)
    OBVIOUS
  <1>3. /\ t \in Seq(S) /\ Len(s) \in Nat
        /\ DOMAIN t = 1 .. Len(s) + 1 /\ DOMAIN s = 1 .. Len(s)
        /\ t[Len(s) + 1] = e
        /\ \A i \in 1 .. Len(s) : t[i] = s[i]
    BY <1>2
  <1>4. {t[i] : i \in DOMAIN t} = {s[i] : i \in DOMAIN s} \cup {e}
    BY <1>3
  <1>5. {names[j] : j \in past \cup {k}} = {names[j] : j \in past} \cup {e}
    BY <1>1
  <1>6. {t[i] : i \in DOMAIN t} = {names[j] : j \in past \cup {k}}
    BY <1>4, <1>5 DEF Gathered
  <1>7. ASSUME NEW m \in past \cup {k}, \A j \in past \cup {k} : m <= j
        PROVE  t[1] = names[m]
    <2>1. CASE m \in past
      <3>1. s[1] = names[m] /\ names[m] \in {s[i] : i \in DOMAIN s}
        BY <1>7, <2>1 DEF Gathered
      <3>2. 1 \in 1 .. Len(s)
        BY <1>3, <3>1
      <3> QED BY <1>3, <3>1, <3>2
    <2>2. CASE m = k
      <3>1. past = {}
        BY <1>7, <2>2
      <3>2. {s[i] : i \in DOMAIN s} = {}
        BY <3>1 DEF Gathered
      <3>3. Len(s) = 0
        <4>1. 1 \notin 1 .. Len(s)
          BY <1>3, <3>2
        <4> QED BY <1>3, <4>1
      <3> QED BY <1>1, <1>3, <2>2, <3>3
    <2> QED BY <1>7, <2>1, <2>2
  <1> QED BY <1>1, <1>2, <1>3, <1>6, <1>7 DEF Gathered

\* What Collected returns.
LEMMA CollectedFacts ==
  ASSUME NEW S, NEW names \in Seq(S), NEW failing \in SUBSET DOMAIN names
  PROVE  /\ Collected(names, failing) \in Seq(S)
         /\ Gathered(Collected(names, failing), names, failing)
  <1> DEFINE n == Len(names)
             Past(k) == failing \cap 1 .. k
  <1>0. n \in Nat /\ DOMAIN names = 1 .. n /\ \A k \in 1 .. n : names[k] \in S
    OBVIOUS
  <1>1. PICK g : IsLoop(g, names, failing, n) /\ Collected(names, failing) = g[n]
    BY <1>0, CollectedIsLoop
  <1> DEFINE T == {k \in 0 .. n : g[k] \in Seq(S) /\ Gathered(g[k], names, Past(k))}
  <1>2. 0 \in T
    <2>1. g[0] = <<>> /\ Past(0) = {}
      BY <1>0, <1>1 DEF IsLoop
    <2>2. g[0] \in Seq(S) /\ Gathered(g[0], names, {})
      BY <2>1 DEF Gathered
    <2>3. g[0] \in Seq(S) /\ Gathered(g[0], names, Past(0))
      BY <2>1, <2>2
    <2> HIDE DEF Past
    <2> QED BY <2>3, <1>0
  <1>3. ASSUME NEW k \in 0 .. n - 1, k \in T PROVE k + 1 \in T
    <2>1. /\ g[k + 1] = Round(names, failing, g[k], k + 1)
          /\ g[k] \in Seq(S) /\ Gathered(g[k], names, Past(k))
          /\ k + 1 \in 1 .. n /\ names[k + 1] \in S
      BY <1>0, <1>1, <1>3 DEF IsLoop
    <2>2. CASE k + 1 \notin failing
      <3>1. g[k + 1] = g[k] /\ Past(k + 1) = Past(k)
        BY <2>1, <2>2, <1>0 DEF Round
      <3>2. g[k + 1] \in Seq(S) /\ Gathered(g[k + 1], names, Past(k + 1))
        BY <2>1, <3>1
      <3> HIDE DEF Past
      <3> QED BY <2>1, <3>2, <1>0
    <2>3. CASE k + 1 \in failing
      <3>1. g[k + 1] = Append(g[k], names[k + 1])
        BY <2>1, <2>3 DEF Round
      <3>2. /\ Past(k + 1) = Past(k) \cup {k + 1}
            /\ Past(k) \in SUBSET Nat /\ \A j \in Past(k) : j < k + 1
            /\ k + 1 \in Nat
        BY <2>3, <1>0
      <3> HIDE DEF Past
      <3>3. /\ Append(g[k], names[k + 1]) \in Seq(S)
            /\ Gathered(Append(g[k], names[k + 1]), names, Past(k) \cup {k + 1})
        BY <2>1, <3>2, GatherOneMore
      <3>4. g[k + 1] \in Seq(S) /\ Gathered(g[k + 1], names, Past(k + 1))
        BY <3>1, <3>2, <3>3
      <3> QED BY <2>1, <3>4, <1>0
    <2> QED BY <2>2, <2>3
  <1>4. n \in T
    <2>1. \A k \in 0 .. n - 1 : k \in T => k + 1 \in T
      BY <1>3
    <2> HIDE DEF T, n
    <2>2. \A k \in 0 .. n : k \in T
      BY <1>0, <1>2, <2>1, UpTo
    <2> QED BY <1>0, <2>2
  <1>5. g[n] \in Seq(S) /\ Gathered(g[n], names, Past(n)) /\ Past(n) = failing
    BY <1>0, <1>4
  <1> QED BY <1>1, <1>5

-----------------------------------------------------------------------------
(* The parts of a violation vector *)

\* What a violation may be named after.
Invariants == FixedChecks \cup MetricNames

Elements(s) == {s[i] : i \in DOMAIN s}

\* What is found in a sequence, and at its head.
LEMMA SequenceFacts ==
  ASSUME NEW S, NEW s \in Seq(S)
  PROVE  /\ s = <<>> <=> Elements(s) = {}
         /\ s # <<>> => s[1] \in Elements(s)
  <1>1. Len(s) \in Nat /\ DOMAIN s = 1 .. Len(s)
    OBVIOUS
  <1>2. CASE s = <<>>
    BY <1>2 DEF Elements
  <1>3. CASE s # <<>>
    <2>1. 1 \in DOMAIN s
      BY <1>1, <1>3
    <2> QED BY <1>3, <2>1 DEF Elements
  <1> QED BY <1>2, <1>3

\* And in a concatenation.
LEMMA ConcatFacts ==
  ASSUME NEW S, NEW s \in Seq(S), NEW t \in Seq(S)
  PROVE  /\ s \o t \in Seq(S)
         /\ Elements(s \o t) = Elements(s) \cup Elements(t)
         /\ s # <<>> => (s \o t)[1] = s[1]
         /\ s = <<>> => s \o t = t
  <1>1. PICK u \in Seq(S) : u = s \o t
    BY ConcatProperties
  <1>2. /\ Len(s) \in Nat /\ DOMAIN s = 1 .. Len(s)
        /\ Len(t) \in Nat /\ DOMAIN t = 1 .. Len(t)
        /\ DOMAIN u = 1 .. Len(s) + Len(t)
        /\ \A i \in 1 .. Len(s) : u[i] = s[i]
        /\ \A i \in 1 .. Len(t) : u[Len(s) + i] = t[i]
    BY <1>1, ConcatProperties
  <1>3. ASSUME NEW i \in DOMAIN u PROVE u[i] \in Elements(s) \cup Elements(t)
    <2>1. CASE i \in 1 .. Len(s)
      BY <2>1, <1>2 DEF Elements
    <2>2. CASE i \notin 1 .. Len(s)
      <3>1. i - Len(s) \in 1 .. Len(t) /\ i = Len(s) + (i - Len(s))
        BY <2>2, <1>2
      <3>2. u[i] = t[i - Len(s)]
        BY <3>1, <1>2
      <3> QED BY <3>1, <3>2, <1>2 DEF Elements
    <2> QED BY <2>1, <2>2
  <1>4. ASSUME NEW i \in DOMAIN s PROVE s[i] \in Elements(u)
    <2>1. i \in DOMAIN u /\ u[i] = s[i]
      BY <1>2
    <2> QED BY <2>1 DEF Elements
  <1>5. ASSUME NEW i \in DOMAIN t PROVE t[i] \in Elements(u)
    <2>1. Len(s) + i \in DOMAIN u /\ u[Len(s) + i] = t[i]
      BY <1>2
    <2> QED BY <2>1 DEF Elements
  <1>6. Elements(u) = Elements(s) \cup Elements(t)
    <2>1. Elements(u) \subseteq Elements(s) \cup Elements(t)
      BY <1>3 DEF Elements
    <2>2. Elements(s) \subseteq Elements(u) /\ Elements(t) \subseteq Elements(u)
      BY <1>4, <1>5 DEF Elements
    <2> QED BY <2>1, <2>2
  <1>7. s # <<>> => u[1] = s[1]
    BY <1>2
  <1>8. s = <<>> => u = t
    BY <1>1, ConcatEmptySeq
  <1> QED BY <1>1, <1>6, <1>7, <1>8

LEMMA OneIfFacts ==
  ASSUME NEW condition \in BOOLEAN, NEW invariant \in Invariants
  PROVE  /\ OneIf(condition, invariant) \in Seq(Invariants)
         /\ Elements(OneIf(condition, invariant)) = IF condition THEN {invariant} ELSE {}
  <1>1. CASE condition
    <2>1. OneIf(condition, invariant) = <<invariant>>
      BY <1>1 DEF OneIf
    <2>2. <<invariant>> \in Seq(Invariants)
      OBVIOUS
    <2>3. DOMAIN <<invariant>> = {1} /\ <<invariant>>[1] = invariant
      OBVIOUS
    <2>4. Elements(<<invariant>>) = {invariant}
      BY <2>3 DEF Elements
    <2> QED BY <1>1, <2>1, <2>2, <2>4
  <1>2. CASE ~condition
    <2>1. OneIf(condition, invariant) = <<>>
      BY <1>2 DEF OneIf
    <2>2. <<>> \in Seq(Invariants) /\ Elements(<<>>) = {}
      BY DEF Elements
    <2> QED BY <1>2, <2>1, <2>2
  <1> QED BY <1>1, <1>2

\* A constant function on an interval is a sequence.
LEMMA ConstantSequence ==
  ASSUME NEW invariant \in Invariants, NEW n \in Nat
  PROVE  [i \in 1 .. n |-> invariant] \in Seq(Invariants)
  <1>1. [i \in 1 .. n |-> invariant] \in [1 .. n -> Invariants]
    OBVIOUS
  <1> QED BY <1>1, SeqDef

\* A loop whose entries are all reported under one name.
LEMMA UniformFacts ==
  ASSUME NEW invariant \in Invariants, NEW n \in Nat, NEW failing \in SUBSET (1 .. n),
         NEW c, c = Collected([i \in 1 .. n |-> invariant], failing)
  PROVE  /\ c \in Seq(Invariants)
         /\ Elements(c) = IF failing = {} THEN {} ELSE {invariant}
  <1> DEFINE names == [i \in 1 .. n |-> invariant]
  <1>1. names \in Seq(Invariants) /\ DOMAIN names = 1 .. n /\ \A i \in 1 .. n : names[i] = invariant
    BY ConstantSequence
  <1>2. c = Collected(names, failing)
    OBVIOUS
  <1> HIDE DEF names
  <1>3. c \in Seq(Invariants) /\ Gathered(c, names, failing)
    BY <1>1, <1>2, CollectedFacts
  <1>4. Elements(c) = {names[j] : j \in failing}
    BY <1>3 DEF Gathered, Elements
  <1>5. {names[j] : j \in failing} = IF failing = {} THEN {} ELSE {invariant}
    BY <1>1
  <1> QED BY <1>3, <1>4, <1>5

LEMMA SourceFacts ==
  ASSUME NEW a, WellFormed(a)
  PROVE  /\ SourceViolations(a) \in Seq(Invariants)
         /\ Elements(SourceViolations(a)) =
              IF Holds(a).source_invariant THEN {} ELSE {"source_invariant"}
  <1> DEFINE entries == a.source_invariants
             failing == {i \in DOMAIN entries : SourceFails(entries[i])}
  <1>1. Len(entries) \in Nat /\ DOMAIN entries = 1 .. Len(entries)
    BY DEF WellFormed
  <1>2. failing \in SUBSET (1 .. Len(entries))
    BY <1>1
  <1>3. SourceViolations(a) = Collected([i \in 1 .. Len(entries) |-> "source_invariant"], failing)
    BY <1>1 DEF SourceViolations
  <1>4. Holds(a).source_invariant <=> failing = {}
    BY DEF Holds, SourceFails
  <1> HIDE DEF failing, entries
  <1>5. "source_invariant" \in Invariants
    BY DEF Invariants, FixedChecks
  <1> QED BY <1>1, <1>2, <1>3, <1>4, <1>5, UniformFacts

LEMMA RoiFacts ==
  ASSUME NEW a, WellFormed(a)
  PROVE  /\ RoiViolations(a) \in Seq(Invariants)
         /\ Elements(RoiViolations(a)) = IF Holds(a).roi THEN {} ELSE {"roi"}
  <1> DEFINE entries == a.roi_hashes
             failing == {i \in DOMAIN entries : RoiFails(entries[i])}
  <1>1. Len(entries) \in Nat /\ DOMAIN entries = 1 .. Len(entries)
    BY DEF WellFormed
  <1>2. failing \in SUBSET (1 .. Len(entries))
    BY <1>1
  <1>3. RoiViolations(a) = Collected([i \in 1 .. Len(entries) |-> "roi"], failing)
    BY <1>1 DEF RoiViolations
  <1>4. Holds(a).roi <=> failing = {}
    BY DEF Holds, RoiFails
  <1> HIDE DEF failing, entries
  <1>5. "roi" \in Invariants
    BY DEF Invariants, FixedChecks
  <1> QED BY <1>1, <1>2, <1>3, <1>4, <1>5, UniformFacts

\* What the code looks at in a metric is what the definition of MetricHolds says.
LEMMA MetricAgrees ==
  ASSUME NEW m \in Metrics
  PROVE  MetricViolates(m) <=> ~MetricHolds(m)
  BY FixedPointAssumption
     DEF MetricViolates, MetricHolds, float_to_fixed6_fails, Overflows, OverBudget, Metrics, RawKinds

FailedMetrics(a) == {i \in DOMAIN a.metrics : ~MetricHolds(a.metrics[i])}

LEMMA MetricFacts ==
  ASSUME NEW a, WellFormed(a)
  PROVE  /\ MetricViolations(a) \in Seq(Invariants)
         /\ Elements(MetricViolations(a)) = {a.metrics[i].name : i \in FailedMetrics(a)}
         /\ MetricViolations(a) # <<>> =>
              \E i \in FailedMetrics(a) :
                /\ \A j \in 1 .. i - 1 : MetricHolds(a.metrics[j])
                /\ MetricViolations(a)[1] = a.metrics[i].name
  <1> DEFINE names == [i \in DOMAIN a.metrics |-> a.metrics[i].name]
             c == MetricViolations(a)
             failing == FailedMetrics(a)
  <1>1. /\ Len(a.metrics) \in Nat /\ DOMAIN a.metrics = 1 .. Len(a.metrics)
        /\ \A i \in DOMAIN a.metrics : a.metrics[i] \in Metrics
    BY DEF WellFormed
  <1>2. /\ names \in Seq(Invariants) /\ DOMAIN names = DOMAIN a.metrics
        /\ \A i \in DOMAIN a.metrics : names[i] = a.metrics[i].name
    <2>1. \A i \in DOMAIN a.metrics : a.metrics[i].name \in MetricNames
      BY <1>1 DEF Metrics
    <2>2. names \in [1 .. Len(a.metrics) -> Invariants]
      BY <1>1, <2>1 DEF Invariants
    <2>3. names \in Seq(Invariants)
      <3> HIDE DEF names
      <3> QED BY <1>1, <2>2, SeqDef
    <2> QED BY <2>3
  <1>3. failing = {i \in DOMAIN a.metrics : MetricViolates(a.metrics[i])}
    BY <1>1, MetricAgrees DEF FailedMetrics
  <1>4. c = Collected(names, failing)
    BY <1>3 DEF MetricViolations
  <1>5. failing \in SUBSET DOMAIN names /\ failing \in SUBSET Nat
    BY <1>1, <1>2 DEF FailedMetrics
  <1> HIDE DEF c, failing, names
  <1>6. c \in Seq(Invariants) /\ Gathered(c, names, failing)
    BY <1>2, <1>4, <1>5, CollectedFacts
  <1>7. Elements(c) = {a.metrics[i].name : i \in failing}
    <2>1. Elements(c) = {names[i] : i \in failing}
      BY <1>6 DEF Gathered, Elements
    <2> QED BY <2>1, <1>2, <1>5
  <1>8. ASSUME c # <<>>
        PROVE  \E i \in failing : /\ \A j \in 1 .. i - 1 : MetricHolds(a.metrics[j])
                                  /\ c[1] = a.metrics[i].name
    <2>1. failing # {}
      BY <1>6, <1>7, <1>8, SequenceFacts
    <2>2. PICK i \in failing : \A j \in failing : i <= j
      BY <1>5, <2>1, LeastNumber
    <2>3. c[1] = a.metrics[i].name
      BY <1>2, <1>5, <1>6, <2>2 DEF Gathered
    <2>4. ASSUME NEW j \in 1 .. i - 1 PROVE MetricHolds(a.metrics[j])
      <3>1. j \in DOMAIN a.metrics /\ ~(i <= j)
        BY <1>1, <1>2, <1>5
      <3>2. j \notin failing
        BY <2>2, <3>1
      <3> QED BY <3>1, <3>2 DEF failing, FailedMetrics
    <2> QED BY <2>3, <2>4
  <1> QED BY <1>6, <1>7, <1>8 DEF c, failing

-----------------------------------------------------------------------------
(* The violation vector *)

FailedChecks(a) == {check \in FixedChecks : ~Holds(a)[check]}
FailedNames(a)  == {a.metrics[i].name : i \in FailedMetrics(a)}

LEMMA FixedFacts ==
  ASSUME NEW a, WellFormed(a)
  PROVE  /\ OneIf(MissingFields(a), "schema") \in Seq(Invariants)
         /\ Elements(OneIf(MissingFields(a), "schema")) =
              IF Holds(a).schema THEN {} ELSE {"schema"}
         /\ OneIf(a.hash_mode # "KS-salted", "ks_mode") \in Seq(Invariants)
         /\ Elements(OneIf(a.hash_mode # "KS-salted", "ks_mode")) =
              IF Holds(a).ks_mode THEN {} ELSE {"ks_mode"}
         /\ OneIf(a.signature # "hex128", "signature") \in Seq(Invariants)
         /\ Elements(OneIf(a.signature # "hex128", "signature")) =
              IF Holds(a).signature THEN {} ELSE {"signature"}
  <1>1. "schema" \in Invariants /\ "ks_mode" \in Invariants /\ "signature" \in Invariants
    BY DEF Invariants, FixedChecks
  <1>2. MissingFields(a) \in BOOLEAN /\ (MissingFields(a) <=> ~Holds(a).schema)
    BY DEF MissingFields, Holds
  <1>3. a.hash_mode # "KS-salted" <=> ~Holds(a).ks_mode
    BY DEF Holds
  <1>4. a.signature # "hex128" <=> ~Holds(a).signature
    BY DEF Holds
  <1>5. (a.hash_mode # "KS-salted") \in BOOLEAN /\ (a.signature # "hex128") \in BOOLEAN
    OBVIOUS
  <1>6. /\ OneIf(MissingFields(a), "schema") \in Seq(Invariants)
        /\ Elements(OneIf(MissingFields(a), "schema")) =
              IF Holds(a).schema THEN {} ELSE {"schema"}
    BY <1>1, <1>2, OneIfFacts
  <1>7. /\ OneIf(a.hash_mode # "KS-salted", "ks_mode") \in Seq(Invariants)
        /\ Elements(OneIf(a.hash_mode # "KS-salted", "ks_mode")) =
              IF Holds(a).ks_mode THEN {} ELSE {"ks_mode"}
    BY <1>1, <1>3, <1>5, OneIfFacts
  <1>8. /\ OneIf(a.signature # "hex128", "signature") \in Seq(Invariants)
        /\ Elements(OneIf(a.signature # "hex128", "signature")) =
              IF Holds(a).signature THEN {} ELSE {"signature"}
    BY <1>1, <1>4, <1>5, OneIfFacts
  <1> QED BY <1>6, <1>7, <1>8

\* The head of a concatenation whose second part only ever reports one name.
LEMMA HeadOfConcat ==
  ASSUME NEW s \in Seq(Invariants), NEW t \in Seq(Invariants), NEW invariant,
         Elements(s) = {}, Elements(t) = {invariant}
  PROVE  (s \o t)[1] = invariant
  <1>1. s \o t = t /\ t # <<>>
    BY SequenceFacts, ConcatFacts
  <1> QED BY <1>1, SequenceFacts

\* The vector holds every failure and nothing else, and begins with the first.
LEMMA ViolationsFacts ==
  ASSUME NEW a, WellFormed(a), NEW h, h = Holds(a), NEW v, v = Violations(a)
  PROVE  /\ v \in Seq(Invariants)
         /\ Elements(v) = FailedChecks(a) \cup FailedNames(a)
         /\ ~h.schema => v[1] = "schema"
         /\ (h.schema /\ ~h.ks_mode) => v[1] = "ks_mode"
         /\ (h.schema /\ h.ks_mode /\ ~h.signature) => v[1] = "signature"
         /\ (h.schema /\ h.ks_mode /\ h.signature /\ ~h.source_invariant)
              => v[1] = "source_invariant"
         /\ (h.schema /\ h.ks_mode /\ h.signature /\ h.source_invariant /\ ~h.roi)
              => v[1] = "roi"
         /\ FailedChecks(a) = {} => v = MetricViolations(a)
  <1> DEFINE p1 == OneIf(MissingFields(a), "schema")
             p2 == OneIf(a.hash_mode # "KS-salted", "ks_mode")
             p3 == OneIf(a.signature # "hex128", "signature")
             p4 == SourceViolations(a)
             p5 == RoiViolations(a)
             p6 == MetricViolations(a)
             q2 == p1 \o p2
             q3 == q2 \o p3
             q4 == q3 \o p4
             q5 == q4 \o p5
  <1>1. v = q5 \o p6
    BY DEF Violations
  <1>2. /\ p1 \in Seq(Invariants) /\ Elements(p1) = IF h.schema THEN {} ELSE {"schema"}
        /\ p2 \in Seq(Invariants) /\ Elements(p2) = IF h.ks_mode THEN {} ELSE {"ks_mode"}
        /\ p3 \in Seq(Invariants) /\ Elements(p3) = IF h.signature THEN {} ELSE {"signature"}
    BY FixedFacts
  <1>3. /\ p4 \in Seq(Invariants)
        /\ Elements(p4) = IF h.source_invariant THEN {} ELSE {"source_invariant"}
    BY SourceFacts
  <1>4. p5 \in Seq(Invariants) /\ Elements(p5) = IF h.roi THEN {} ELSE {"roi"}
    BY RoiFacts
  <1>5. p6 \in Seq(Invariants) /\ Elements(p6) = FailedNames(a)
    BY MetricFacts DEF FailedNames
  <1> HIDE DEF p1, p2, p3, p4, p5, p6
  <1>6. q2 \in Seq(Invariants) /\ Elements(q2) = Elements(p1) \cup Elements(p2)
    BY <1>2, ConcatFacts
  <1>7. p1 # <<>> => q2[1] = p1[1]
    BY <1>2, ConcatFacts
  <1> HIDE DEF q2
  <1>8. q3 \in Seq(Invariants) /\ Elements(q3) = Elements(q2) \cup Elements(p3)
    BY <1>2, <1>6, ConcatFacts
  <1>9. q2 # <<>> => q3[1] = q2[1]
    BY <1>2, <1>6, ConcatFacts
  <1> HIDE DEF q3
  <1>10. q4 \in Seq(Invariants) /\ Elements(q4) = Elements(q3) \cup Elements(p4)
    BY <1>3, <1>8, ConcatFacts
  <1>11. q3 # <<>> => q4[1] = q3[1]
    BY <1>3, <1>8, ConcatFacts
  <1> HIDE DEF q4
  <1>12. q5 \in Seq(Invariants) /\ Elements(q5) = Elements(q4) \cup Elements(p5)
    BY <1>4, <1>10, ConcatFacts
  <1>13. q4 # <<>> => q5[1] = q4[1]
    BY <1>4, <1>10, ConcatFacts
  <1> HIDE DEF q5
  <1>14. v \in Seq(Invariants) /\ Elements(v) = Elements(q5) \cup Elements(p6)
    BY <1>1, <1>5, <1>12, ConcatFacts
  <1>15. (q5 # <<>> => v[1] = q5[1]) /\ (q5 = <<>> => v = p6)
    BY <1>1, <1>5, <1>12, ConcatFacts
  <1>16. /\ p1 = <<>> <=> Elements(p1) = {}
         /\ q2 = <<>> <=> Elements(q2) = {}
         /\ q3 = <<>> <=> Elements(q3) = {}
         /\ q4 = <<>> <=> Elements(q4) = {}
         /\ q5 = <<>> <=> Elements(q5) = {}
    BY <1>2, <1>6, <1>8, <1>10, <1>12, SequenceFacts
  <1>17. /\ h.schema <=> Elements(p1) = {}
         /\ h.ks_mode <=> Elements(p2) = {}
         /\ h.signature <=> Elements(p3) = {}
         /\ h.source_invariant <=> Elements(p4) = {}
         /\ h.roi <=> Elements(p5) = {}
    BY <1>2, <1>3, <1>4
  <1>18. FailedChecks(a) = Elements(p1) \cup Elements(p2) \cup Elements(p3)
                             \cup Elements(p4) \cup Elements(p5)
    <2>1. /\ h["schema"] = h.schema /\ h["ks_mode"] = h.ks_mode
          /\ h["signature"] = h.signature /\ h["source_invariant"] = h.source_invariant
          /\ h["roi"] = h.roi
      OBVIOUS
    <2>2. ASSUME NEW check
          PROVE  check \in FailedChecks(a) <=>
                   \/ check = "schema" /\ ~h.schema
                   \/ check = "ks_mode" /\ ~h.ks_mode
                   \/ check = "signature" /\ ~h.signature
                   \/ check = "source_invariant" /\ ~h.source_invariant
                   \/ check = "roi" /\ ~h.roi
      BY <2>1 DEF FailedChecks, FixedChecks
    <2> QED BY <1>2, <1>3, <1>4, <2>2
  <1>19. Elements(v) = FailedChecks(a) \cup FailedNames(a)
    BY <1>5, <1>6, <1>8, <1>10, <1>12, <1>14, <1>18
  <1>20. ~h.schema => v[1] = "schema"
    <2>1. ASSUME ~h.schema PROVE p1[1] = "schema" /\ p1 # <<>>
      BY <1>2, <2>1, SequenceFacts
    <2> QED BY <2>1, <1>6, <1>7, <1>8, <1>9, <1>10, <1>11, <1>12, <1>13, <1>15, <1>16
  <1>21. (h.schema /\ ~h.ks_mode) => v[1] = "ks_mode"
    <2>1. ASSUME h.schema, ~h.ks_mode PROVE q2[1] = "ks_mode" /\ q2 # <<>>
      BY <1>2, <1>6, <1>16, <2>1, HeadOfConcat DEF q2
    <2> QED BY <2>1, <1>8, <1>9, <1>10, <1>11, <1>12, <1>13, <1>15, <1>16
  <1>22. (h.schema /\ h.ks_mode /\ ~h.signature) => v[1] = "signature"
    <2>1. ASSUME h.schema, h.ks_mode, ~h.signature PROVE q3[1] = "signature" /\ q3 # <<>>
      <3>1. Elements(q2) = {}
        BY <1>6, <1>17, <2>1
      <3> QED BY <1>2, <1>6, <1>8, <1>16, <2>1, <3>1, HeadOfConcat DEF q3
    <2> QED BY <2>1, <1>10, <1>11, <1>12, <1>13, <1>15, <1>16
  <1>23. (h.schema /\ h.ks_mode /\ h.signature /\ ~h.source_invariant)
           => v[1] = "source_invariant"
    <2>1. ASSUME h.schema, h.ks_mode, h.signature, ~h.source_invariant
          PROVE  q4[1] = "source_invariant" /\ q4 # <<>>
      <3>1. Elements(q3) = {}
        BY <1>6, <1>8, <1>17, <2>1
      <3> QED BY <1>3, <1>8, <1>10, <1>16, <2>1, <3>1, HeadOfConcat DEF q4
    <2> QED BY <2>1, <1>12, <1>13, <1>15, <1>16
  <1>24. (h.schema /\ h.ks_mode /\ h.signature /\ h.source_invariant /\ ~h.roi) => v[1] = "roi"
    <2>1. ASSUME h.schema, h.ks_mode, h.signature, h.source_invariant, ~h.roi
          PROVE  q5[1] = "roi" /\ q5 # <<>>
      <3>1. Elements(q4) = {}
        BY <1>6, <1>8, <1>10, <1>17, <2>1
      <3> QED BY <1>4, <1>10, <1>12, <1>16, <2>1, <3>1, HeadOfConcat DEF q5
    <2> QED BY <2>1, <1>15
  <1>25. FailedChecks(a) = {} => v = p6
    BY <1>6, <1>8, <1>10, <1>12, <1>15, <1>16, <1>18
  <1> QED BY <1>14, <1>19, <1>20, <1>21, <1>22, <1>23, <1>24, <1>25 DEF p6

-----------------------------------------------------------------------------
(* The taxonomy *)

\* What each check is filed under.
LEMMA TaxonomyFacts ==
  /\ apply_taxonomy("schema") = "SIGNATURE_INVALID"
  /\ apply_taxonomy("signature") = "SIGNATURE_INVALID"
  /\ apply_taxonomy("ks_mode") = "POLICY_MODE_VIOLATION"
  /\ apply_taxonomy("source_invariant") = "SOURCE_INVARIANT_BREACH"
  /\ apply_taxonomy("roi") = "GEOMETRY_BREACH"
  BY PrefixAssumption DEF apply_taxonomy

\* No name, a submitter's own included, is filed outside the taxonomy.
LEMMA TaxonomyCanonical ==
  ASSUME NEW invariant
  PROVE  apply_taxonomy(invariant) \in CanonicalViolationTypes
  BY DEF apply_taxonomy, CanonicalViolationTypes

\* Nothing is reported of an attestation exactly when it passes every check.
LEMMA EmptyVector ==
  ASSUME NEW a, WellFormed(a)
  PROVE  Violations(a) = <<>> <=> Passes(a)
  <1> DEFINE h == Holds(a)
             v == Violations(a)
  <1>1. v = <<>> <=> FailedChecks(a) = {} /\ FailedNames(a) = {}
    <2>1. v \in Seq(Invariants) /\ Elements(v) = FailedChecks(a) \cup FailedNames(a)
      BY ViolationsFacts
    <2> QED BY <2>1, SequenceFacts
  <1>2. FailedNames(a) = {} <=> h.metrics
    BY DEF FailedNames, FailedMetrics, Holds
  <1>3. DOMAIN h = FixedChecks \cup {"metrics"}
    BY DEF Holds, FixedChecks
  <1>4. FailedChecks(a) = {} <=> \A check \in FixedChecks : h[check]
    BY DEF FailedChecks
  <1>5. h["metrics"] = h.metrics
    OBVIOUS
  <1> HIDE DEF h, v
  <1>6. v = <<>> <=> \A check \in DOMAIN h : h[check]
    BY <1>1, <1>2, <1>3, <1>4, <1>5
  <1> QED BY <1>6 DEF Passes, h, v

\* A vector that is not empty is filed under the type of its first failure.
LEMMA TypeOfVector ==
  ASSUME NEW a, WellFormed(a), Violations(a) # <<>>
  PROVE  FiledUnder(a, violation_type(a))
  <1> DEFINE h == Holds(a)
             v == Violations(a)
             type == violation_type(a)
  <1>1. v # <<>>
    OBVIOUS
  <1>2. type = apply_taxonomy(v[1])
    BY DEF violation_type
  <1>3. type \in CanonicalViolationTypes
    BY <1>2, TaxonomyCanonical
  <1>4. /\ ~h.schema => v[1] = "schema"
        /\ (h.schema /\ ~h.ks_mode) => v[1] = "ks_mode"
        /\ (h.schema /\ h.ks_mode /\ ~h.signature) => v[1] = "signature"
        /\ (h.schema /\ h.ks_mode /\ h.signature /\ ~h.source_invariant)
             => v[1] = "source_invariant"
        /\ (h.schema /\ h.ks_mode /\ h.signature /\ h.source_invariant /\ ~h.roi)
             => v[1] = "roi"
        /\ FailedChecks(a) = {} => v = MetricViolations(a)
    BY <1>1, ViolationsFacts
  <1>5. (\A check \in FixedChecks : h[check]) =>
           \E i \in DOMAIN a.metrics :
             /\ ~MetricHolds(a.metrics[i])
             /\ \A j \in 1 .. i - 1 : MetricHolds(a.metrics[j])
             /\ type = apply_taxonomy(a.metrics[i].name)
    <2> SUFFICES ASSUME \A check \in FixedChecks : h[check]
                 PROVE  \E i \in DOMAIN a.metrics :
                          /\ ~MetricHolds(a.metrics[i])
                          /\ \A j \in 1 .. i - 1 : MetricHolds(a.metrics[j])
                          /\ type = apply_taxonomy(a.metrics[i].name)
      OBVIOUS
    <2>1. FailedChecks(a) = {}
      BY DEF FailedChecks
    <2>2. PICK i \in FailedMetrics(a) :
            /\ \A j \in 1 .. i - 1 : MetricHolds(a.metrics[j])
            /\ v[1] = a.metrics[i].name
      <3> HIDE DEF v
      <3> QED BY <1>1, <1>4, <2>1, MetricFacts
    <2> QED BY <1>2, <2>2 DEF FailedMetrics
  <1> HIDE DEF h, v, type
  <1>6. /\ ~h.schema => type = "SIGNATURE_INVALID"
        /\ (h.schema /\ ~h.ks_mode) => type = "POLICY_MODE_VIOLATION"
        /\ (h.schema /\ h.ks_mode /\ ~h.signature) => type = "SIGNATURE_INVALID"
        /\ (h.schema /\ h.ks_mode /\ h.signature /\ ~h.source_invariant)
             => type = "SOURCE_INVARIANT_BREACH"
        /\ (h.schema /\ h.ks_mode /\ h.signature /\ h.source_invariant /\ ~h.roi)
             => type = "GEOMETRY_BREACH"
    BY <1>2, <1>4, TaxonomyFacts
  <1> QED BY <1>3, <1>5, <1>6 DEF FiledUnder, h, type

=============================================================================
