--------------------------- MODULE DecisionsProofs ---------------------------
(***************************************************************************)
(* Of Decisions, for every set of requests, every weighting a tenant may   *)
(* set and every row an administrator may write: without a registered      *)
(* agent a critical violation is never escalated, a request of a named     *)
(* area is never approved after ECM raised, what is approved although ECM  *)
(* or PFM raised the seeded row would have approved too, and harm in the   *)
(* text, with more sensitive domains or not, never turns a refusal into an *)
(* approval.  Of Calibration, for every number of rows, instances and      *)
(* updates: its types, that the changelog is true, that a change without   *)
(* an entry is one that was cut short, and that an instance serves the     *)
(* update it has acknowledged.                                             *)
(***************************************************************************)
EXTENDS Decisions, Calibration, FiniteSetTheorems, SequenceTheorems, TLAPS

(***************************************************************************)
(* Folds over finite sets.  What holds of every subset with one element    *)
(* less holds of all: a smallest one of which it did not would have none.  *)
(***************************************************************************)
LEMMA Least ==
    ASSUME NEW T \in SUBSET Nat, T # {}
    PROVE  \E x \in T : \A y \in T : x <= y
<1>1. PICK R : IsWellFoundedOn(R, Nat) /\ \A x, y \in Nat : <<x, y>> \in R <=> x < y
  <2> DEFINE R == {ss \in Nat \X Nat : ss[1] < ss[2]}
  <2>1. IsWellFoundedOn(R, Nat)
    BY NatLessThanWellFounded DEF OpToRel
  <2>2. \A x, y \in Nat : <<x, y>> \in R <=> x < y
    OBVIOUS
  <2> HIDE DEF R
  <2> QED
    BY <2>1, <2>2
<1>2. T \subseteq Nat
  OBVIOUS
<1>3. \E x \in T : \A y \in T : ~ (<<y, x>> \in R)
  <2>1. IsWellFoundedOn(R, Nat) /\ T \subseteq Nat /\ T # {}
    BY <1>1, <1>2
  <2> QED
    BY <2>1, WFMin, Zenon
<1>4. \A x, y \in T : <<y, x>> \in R \/ x <= y
  BY <1>1, <1>2
<1> QED
  BY <1>3, <1>4

LEMMA SubsetsAreFinite ==
    ASSUME NEW S, IsFiniteSet(S), NEW s \in SUBSET S
    PROVE  /\ IsFiniteSet(s) /\ Cardinality(s) \in Nat
           /\ \A x \in s : Cardinality(s \ {x}) = Cardinality(s) - 1
<1>1. IsFiniteSet(s)
  BY FS_Subset
<1> QED
  BY <1>1, FS_CardinalityType, FS_RemoveElement

LEMMA InductionOverSubsets ==
    ASSUME NEW S, IsFiniteSet(S), NEW Good, {} \in Good,
           \A s \in SUBSET S : s # {} => \E x \in s : s \ {x} \in Good => s \in Good
    PROVE  \A s \in SUBSET S : s \in Good
<1> DEFINE T == {n \in Nat : \E s \in SUBSET S : s \notin Good /\ Cardinality(s) = n}
<1> SUFFICES ASSUME NEW bad \in SUBSET S, bad \notin Good
             PROVE  FALSE
  OBVIOUS
<1>1. T # {}
  BY SubsetsAreFinite
<1>2. PICK n \in T : \A m \in T : n <= m
  <2>1. T \in SUBSET Nat
    OBVIOUS
  <2> HIDE DEF T
  <2> QED
    BY <1>1, <2>1, Least
<1>3. PICK s \in SUBSET S : s \notin Good /\ Cardinality(s) = n
  OBVIOUS
<1> HIDE DEF T
<1>4. PICK x \in s : s \ {x} \in Good => s \in Good
  <2>1. s \notin Good /\ {} \in Good
    BY <1>3
  <2>2. ASSUME s = {} PROVE FALSE
    BY <2>1, <2>2, Zenon
  <2> QED
    BY <1>3, <2>2
<1>5. /\ s \ {x} \in SUBSET S /\ n \in Nat
      /\ Cardinality(s \ {x}) = n - 1 /\ Cardinality(s \ {x}) \in Nat
  <2>1. s \ {x} \in SUBSET S
    OBVIOUS
  <2> QED
    BY <1>3, <2>1, SubsetsAreFinite
<1>6. n - 1 \notin T
  <2>1. ~ (n <= n - 1)
    BY <1>5
  <2> QED
    BY <1>2, <2>1
<1>7. s \ {x} \in Good
  <2>1. n - 1 \in Nat
    BY <1>5
  <2> QED
    BY <1>5, <1>6, <2>1 DEF T
<1> QED
  BY <1>3, <1>4, <1>7

\* g folds over the elements in the order ch takes them, beginning at base, within V.
Folds(g, S, V, base, ch, st) ==
    \A s \in SUBSET S : /\ g[s] = IF s = {} THEN base ELSE st[s][g[s \ {ch[s]}]]
                        /\ g[s] \in V

StaysIn(V, S, st) == \A s \in SUBSET S, v \in V : s # {} => st[s][v] \in V

Chooses(ch, S) == \A s \in SUBSET S : s # {} => ch[s] \in s

\* A recursion along a choice of elements has a solution.
LEMMA FoldHasSolution ==
    ASSUME NEW S, IsFiniteSet(S), NEW V, NEW base \in V, NEW ch, NEW st, Chooses(ch, S),
           StaysIn(V, S, st)
    PROVE  \E g : Folds(g, S, V, base, ch, st)
<1> DEFINE Body(g, s) == IF s = {} THEN base ELSE st[s][g[s \ {ch[s]}]]
           Solves(g, n) == \A s \in SUBSET S : Cardinality(s) <= n => g[s] = Body(g, s)
           T == {n \in Nat : ~ \E g : Solves(g, n)}
<1>1. T = {}
  <2> SUFFICES ASSUME T # {}
               PROVE  FALSE
    OBVIOUS
  <2>1. PICK n \in T : \A m \in T : n <= m
    <3>1. T \in SUBSET Nat
      OBVIOUS
    <3> HIDE DEF T
    <3> QED
      BY <3>1, Least
  <2>2. n \in Nat /\ ~ \E g : Solves(g, n)
    OBVIOUS
  <2> HIDE DEF T
  <2>3. CASE n = 0
    <3> DEFINE g == [s \in SUBSET S |-> base]
    <3>1. ASSUME NEW s \in SUBSET S, Cardinality(s) <= 0
          PROVE  s = {}
      BY <3>1, SubsetsAreFinite, FS_EmptySet
    <3>2. Solves(g, 0)
      BY <3>1
    <3> QED
      BY <2>2, <2>3, <3>2
  <2>4. CASE n # 0
    <3>1. n - 1 \in Nat /\ n - 1 \notin T
      <4>1. n - 1 \in Nat /\ ~ (n <= n - 1)
        BY <2>2, <2>4
      <4> QED
        BY <2>1, <4>1
    <3>2. PICK g : Solves(g, n - 1)
      <4> HIDE DEF Solves
      <4> QED
        BY <3>1 DEF T
    <3> DEFINE h == [s \in SUBSET S |-> Body(g, s)]
    <3>3. ASSUME NEW s \in SUBSET S, Cardinality(s) <= n, s # {}
          PROVE  h[s] = Body(h, s)
      <4> DEFINE u == s \ {ch[s]}
      <4>1. ch[s] \in s /\ u \in SUBSET S
        BY <3>3 DEF Chooses
      <4>2. Cardinality(u) <= n - 1
        BY <2>2, <3>3, <4>1, SubsetsAreFinite
      <4> HIDE DEF u
      <4>3. g[u] = Body(g, u)
        BY <3>2, <4>1, <4>2
      <4>4. h[u] = g[u]
        BY <4>1, <4>3
      <4>5. h[s] = st[s][g[u]]
        BY <3>3 DEF u
      <4> HIDE DEF h
      <4> QED
        BY <3>3, <4>4, <4>5 DEF u
    <3>4. Solves(h, n)
      <4>1. \A s \in SUBSET S : s = {} => h[s] = Body(h, s)
        OBVIOUS
      <4> HIDE DEF h
      <4> QED
        BY <3>3, <4>1
    <3> QED
      <4> HIDE DEF Solves, h
      <4> QED
        BY <2>2, <3>4
  <2> QED
    BY <2>3, <2>4
<1>2. PICK g : Solves(g, Cardinality(S))
  <2>1. Cardinality(S) \in Nat
    BY FS_CardinalityType
  <2> HIDE DEF Solves
  <2> QED
    BY <1>1, <2>1
<1>3. \A s \in SUBSET S : g[s] = Body(g, s)
  <2>1. \A s \in SUBSET S : Cardinality(s) <= Cardinality(S)
    BY FS_Subset
  <2> QED
    BY <1>2, <2>1
<1>4. \A s \in SUBSET S : g[s] \in V
  <2> DEFINE Good == {s \in SUBSET S : g[s] \in V}
  <2>1. {} \in Good
    BY <1>3
  <2>2. ASSUME NEW s \in SUBSET S, s # {}
        PROVE  \E x \in s : s \ {x} \in Good => s \in Good
    <3>1. ch[s] \in s
      BY <2>2 DEF Chooses
    <3>2. g[s] = st[s][g[s \ {ch[s]}]]
      BY <1>3, <2>2
    <3>3. g[s \ {ch[s]}] \in V => g[s] \in V
      BY <2>2, <3>2 DEF StaysIn
    <3> QED
      BY <3>1, <3>3
  <2> HIDE DEF Good
  <2>3. \A s \in SUBSET S : s \in Good
    BY <2>1, <2>2, InductionOverSubsets
  <2> QED
    BY <2>3 DEF Good
<1> QED
  BY <1>3, <1>4 DEF Folds

(***************************************************************************)
(* The two folds of ECM                                                    *)
(***************************************************************************)

\* A framework's score after the rules that apply.
Raw(base, applied) == FoldSet(LAMBDA r, score : (score * r.percent) \div 100, base, applied)

\* g is that score for each set of rules.
RawBy(g, base, A) ==
    /\ g[{}] = base
    /\ \A s \in SUBSET A : s # {} => \E r \in s : g[s] = (g[s \ {r}] * r.percent) \div 100

Percents(A) == \A r \in A : r.percent \in Int

LEMMA RawUnfolds ==
    ASSUME NEW A, IsFiniteSet(A), NEW base \in Int, Percents(A)
    PROVE  \E g : RawBy(g, base, A) /\ Raw(base, A) = g[A]
<1> DEFINE ch == [s \in SUBSET A |-> CHOOSE x \in s : TRUE]
           st == [s \in SUBSET A |-> [v \in Int |-> (v * ch[s].percent) \div 100]]
           Step(g, s) == IF s = {} THEN base
                         ELSE (g[s \ {CHOOSE x \in s : TRUE}] * (CHOOSE x \in s : TRUE).percent) \div 100
           iter == CHOOSE g : g = [s \in SUBSET A |-> Step(g, s)]
<1>1. Chooses(ch, A)
  BY DEF Chooses
<1>2. ASSUME NEW s \in SUBSET A, NEW v \in Int, s # {}
      PROVE  st[s][v] = (v * ch[s].percent) \div 100 /\ st[s][v] \in Int
  <2>1. ch[s] \in A
    BY <1>1, <1>2 DEF Chooses
  <2> HIDE DEF ch
  <2>2. st[s][v] = (v * ch[s].percent) \div 100
    OBVIOUS
  <2>3. ch[s].percent \in Int
    BY <2>1 DEF Percents
  <2> HIDE DEF st
  <2> QED
    BY <2>2, <2>3
<1>3. PICK h : Folds(h, A, Int, base, ch, st)
  <2> HIDE DEF ch, st
  <2>1. StaysIn(Int, A, st)
    BY <1>2 DEF StaysIn
  <2> QED
    BY <1>1, <2>1, FoldHasSolution
<1>4. \E g : g = [s \in SUBSET A |-> Step(g, s)]
  <2> DEFINE g == [s \in SUBSET A |-> h[s]]
  <2>1. ASSUME NEW s \in SUBSET A
        PROVE  g[s] = Step(g, s)
    <3>1. CASE s = {}
      BY <1>3, <3>1 DEF Folds
    <3>2. CASE s # {}
      <4>1. h[s] = st[s][h[s \ {ch[s]}]] /\ h[s \ {ch[s]}] \in Int
        <5> HIDE DEF st, ch
        <5> QED
          BY <1>3, <3>2 DEF Folds
      <4>2. h[s] = (h[s \ {ch[s]}] * ch[s].percent) \div 100
        <5> HIDE DEF st, ch
        <5> QED
          BY <1>2, <3>2, <4>1
      <4>3. g[s] = h[s] /\ g[s \ {ch[s]}] = h[s \ {ch[s]}]
        OBVIOUS
      <4> HIDE DEF g
      <4> QED
        BY <3>2, <4>2, <4>3
    <3> QED
      BY <3>1, <3>2
  <2>2. g = [s \in SUBSET A |-> g[s]]
    OBVIOUS
  <2> HIDE DEF g, Step
  <2>3. g = [s \in SUBSET A |-> Step(g, s)]
    BY <2>1, <2>2
  <2> QED
    BY <2>3
<1>5. iter = [s \in SUBSET A |-> Step(iter, s)]
  <2> HIDE DEF Step
  <2> QED
    BY <1>4
<1>6. Raw(base, A) = iter[A]
  BY DEF Raw, FoldSet, MapThenFoldSet
<1>7. \A s \in SUBSET A : iter[s] = Step(iter, s)
  <2> HIDE DEF iter
  <2> QED
    BY <1>5
<1> HIDE DEF iter
<1>8. ASSUME NEW s \in SUBSET A, s # {}
      PROVE  \E r \in s : iter[s] = (iter[s \ {r}] * r.percent) \div 100
  <2>1. PICK r \in s : r = CHOOSE y \in s : TRUE
    BY <1>8
  <2> QED
    BY <1>7, <1>8, <2>1
<1>9. iter[{}] = base
  BY <1>7
<1> HIDE DEF ch, st
<1> QED
  BY <1>6, <1>8, <1>9 DEF RawBy

\* The rules that apply leave a number; none that is 100 percent or more lowers it.
LEMMA RawOfSeveral ==
    ASSUME NEW A, IsFiniteSet(A), NEW base \in Int, Percents(A)
    PROVE  /\ Raw(base, A) \in Int
           /\ base >= 0 /\ (\A r \in A : r.percent >= 100) => Raw(base, A) >= base
<1>1. PICK g : RawBy(g, base, A) /\ Raw(base, A) = g[A]
  BY RawUnfolds, ZenonT(40)
<1> DEFINE helps == base >= 0 /\ \A r \in A : r.percent >= 100
           Good == {s \in SUBSET A : g[s] \in Int /\ (helps => g[s] >= base)}
<1>2. {} \in Good
  BY <1>1 DEF RawBy
<1>3. ASSUME NEW s \in SUBSET A, s # {}
      PROVE  \E x \in s : s \ {x} \in Good => s \in Good
  <2>1. PICK r \in s : g[s] = (g[s \ {r}] * r.percent) \div 100
    <3>1. RawBy(g, base, A)
      BY <1>1, Zenon
    <3> HIDE DEF Good
    <3> QED
      BY <1>3, <3>1, Zenon DEF RawBy
  <2>2. r.percent \in Int
    BY DEF Percents
  <2>3. ASSUME g[s \ {r}] \in Int
        PROVE  g[s] \in Int
    BY <2>1, <2>2, <2>3
  <2>4. ASSUME g[s \ {r}] \in Int, helps, g[s \ {r}] >= base
        PROVE  g[s] >= base
    <3>1. PICK v, p : v = g[s \ {r}] /\ p = r.percent
      OBVIOUS
    <3>2. v \in Nat /\ p \in Nat /\ p >= 100 /\ v >= base
      BY <2>2, <2>4, <3>1
    <3>3. v * p \in Nat /\ v * p >= v * 100
      BY <3>2
    <3>4. (v * p) \div 100 >= v
      BY <3>2, <3>3
    <3>5. (v * p) \div 100 \in Int
      BY <3>3
    <3> QED
      BY <2>1, <3>1, <3>2, <3>4, <3>5
  <2> QED
    BY <2>3, <2>4
<1> HIDE DEF Good
<1>4. \A s \in SUBSET A : s \in Good
  BY <1>2, <1>3, InductionOverSubsets
<1> QED
  BY <1>1, <1>4 DEF Good

LEMMA RawOfOne ==
    ASSUME NEW r, NEW A \in SUBSET {r}, NEW base \in Int, r.percent \in Int
    PROVE  Raw(base, A) \in {base, (base * r.percent) \div 100}
<1>1. IsFiniteSet({r})
  BY FS_Singleton
<1>2. PICK g : RawBy(g, base, A) /\ Raw(base, A) = g[A]
  <2>1. IsFiniteSet(A)
    BY <1>1, FS_Subset
  <2>2. Percents(A)
    BY DEF Percents
  <2> QED
    BY <2>1, <2>2, RawUnfolds, ZenonT(40)
<1>3. CASE A = {}
  BY <1>2, <1>3 DEF RawBy
<1>4. CASE A # {}
  <2>1. A = {r} /\ A \ {r} = {}
    BY <1>4
  <2>2. PICK x \in A : g[A] = (g[A \ {x}] * x.percent) \div 100
    BY <1>2, <1>4, Zenon DEF RawBy
  <2>3. x = r /\ g[{}] = base
    BY <1>2, <2>1 DEF RawBy
  <2> QED
    BY <1>2, <2>1, <2>2, <2>3
<1> QED
  BY <1>3, <1>4

\* The sum of the frameworks' scores.
Total(f, D) == MapThenSumSet(LAMBDA x : f[x], D)

\* The element a sum over s takes first, whatever it sums.
First(s) == CHOOSE x \in s : TRUE

TotalBy(g, f, D) ==
    /\ g[{}] = 0
    /\ \A s \in SUBSET D : s # {} => First(s) \in s /\ g[s] = f[First(s)] + g[s \ {First(s)}]

LEMMA TotalUnfolds ==
    ASSUME NEW D, IsFiniteSet(D), NEW f, \A x \in D : f[x] \in Int
    PROVE  \E g : TotalBy(g, f, D) /\ Total(f, D) = g[D]
<1> DEFINE ch == [s \in SUBSET D |-> CHOOSE x \in s : TRUE]
           st == [s \in SUBSET D |-> [v \in Int |-> f[ch[s]] + v]]
           Step(g, s) == IF s = {} THEN 0
                         ELSE f[CHOOSE x \in s : TRUE] + g[s \ {CHOOSE x \in s : TRUE}]
           iter == CHOOSE g : g = [s \in SUBSET D |-> Step(g, s)]
<1>1. Chooses(ch, D)
  BY DEF Chooses
<1>2. ASSUME NEW s \in SUBSET D, NEW v \in Int, s # {}
      PROVE  st[s][v] = f[ch[s]] + v /\ st[s][v] \in Int
  <2>1. ch[s] \in D
    BY <1>1, <1>2 DEF Chooses
  <2> HIDE DEF ch
  <2>2. st[s][v] = f[ch[s]] + v
    OBVIOUS
  <2>3. f[ch[s]] \in Int
    BY <2>1
  <2> HIDE DEF st
  <2> QED
    BY <2>2, <2>3
<1>3. PICK h : Folds(h, D, Int, 0, ch, st)
  <2> HIDE DEF ch, st
  <2>1. StaysIn(Int, D, st) /\ 0 \in Int
    BY <1>2 DEF StaysIn
  <2> QED
    BY <1>1, <2>1, FoldHasSolution
<1>4. \E g : g = [s \in SUBSET D |-> Step(g, s)]
  <2> DEFINE g == [s \in SUBSET D |-> h[s]]
  <2>1. ASSUME NEW s \in SUBSET D
        PROVE  g[s] = Step(g, s)
    <3>1. CASE s = {}
      BY <1>3, <3>1 DEF Folds
    <3>2. CASE s # {}
      <4>1. h[s] = st[s][h[s \ {ch[s]}]] /\ h[s \ {ch[s]}] \in Int
        <5> HIDE DEF st, ch
        <5> QED
          BY <1>3, <3>2 DEF Folds
      <4>2. h[s] = f[ch[s]] + h[s \ {ch[s]}]
        <5> HIDE DEF st, ch
        <5> QED
          BY <1>2, <3>2, <4>1
      <4>3. g[s] = h[s] /\ g[s \ {ch[s]}] = h[s \ {ch[s]}]
        OBVIOUS
      <4> HIDE DEF g
      <4> QED
        BY <3>2, <4>2, <4>3
    <3> QED
      BY <3>1, <3>2
  <2>2. g = [s \in SUBSET D |-> g[s]]
    OBVIOUS
  <2> HIDE DEF g, Step
  <2>3. g = [s \in SUBSET D |-> Step(g, s)]
    BY <2>1, <2>2
  <2> QED
    BY <2>3
<1>5. iter = [s \in SUBSET D |-> Step(iter, s)]
  <2> HIDE DEF Step
  <2> QED
    BY <1>4
<1>6. Total(f, D) = iter[D]
  BY DEF Total, MapThenSumSet, MapThenFoldSet
<1>7. \A s \in SUBSET D : iter[s] = Step(iter, s)
  <2> HIDE DEF iter
  <2> QED
    BY <1>5
<1> HIDE DEF iter
<1>8. ASSUME NEW s \in SUBSET D, s # {}
      PROVE  First(s) \in s /\ iter[s] = f[First(s)] + iter[s \ {First(s)}]
  BY <1>7, <1>8 DEF First
<1>9. iter[{}] = 0
  BY <1>7
<1> HIDE DEF ch, st
<1> QED
  BY <1>6, <1>8, <1>9 DEF TotalBy

\* What each of them is at least, the mean is.
LEMMA TotalIsAtLeast ==
    ASSUME NEW D, IsFiniteSet(D), NEW f, \A x \in D : f[x] \in Int, NEW least \in Int
    PROVE  /\ Total(f, D) \in Int
           /\ (\A x \in D : f[x] >= least) => Total(f, D) >= least * Cardinality(D)
<1>1. PICK g : TotalBy(g, f, D) /\ Total(f, D) = g[D]
  BY TotalUnfolds, ZenonT(40)
<1> DEFINE above == \A x \in D : f[x] >= least
           Good == {s \in SUBSET D : g[s] \in Int /\ (above => g[s] >= least * Cardinality(s))}
<1>2. {} \in Good
  BY <1>1, FS_EmptySet DEF TotalBy
<1>3. ASSUME NEW s \in SUBSET D, s # {}
      PROVE  \E x \in s : s \ {x} \in Good => s \in Good
  <2>1. PICK x \in s : g[s] = f[x] + g[s \ {x}]
    <3>1. TotalBy(g, f, D)
      BY <1>1, Zenon
    <3> HIDE DEF Good
    <3> QED
      BY <1>3, <3>1, Zenon DEF TotalBy
  <2>2. f[x] \in Int
    OBVIOUS
  <2>3. ASSUME g[s \ {x}] \in Int
        PROVE  g[s] \in Int
    BY <2>1, <2>2, <2>3
  <2>4. ASSUME g[s \ {x}] \in Int, above, g[s \ {x}] >= least * Cardinality(s \ {x})
        PROVE  g[s] >= least * Cardinality(s)
    <3>1. PICK c : c = Cardinality(s)
      OBVIOUS
    <3>2. c \in Nat /\ Cardinality(s \ {x}) = c - 1
      BY <3>1, SubsetsAreFinite
    <3>3. least * (c - 1) = least * c - least /\ least * c \in Int
      BY <3>2
    <3>4. f[x] >= least
      BY <2>4
    <3> QED
      BY <2>1, <2>2, <2>4, <3>1, <3>2, <3>3, <3>4
  <2> QED
    BY <2>3, <2>4
<1> HIDE DEF Good
<1>4. \A s \in SUBSET D : s \in Good
  BY <1>2, <1>3, InductionOverSubsets
<1> QED
  BY <1>1, <1>4 DEF Good

(***************************************************************************)
(* The ranges of the scores                                                *)
(***************************************************************************)

LEMMA AtMostRange ==
    ASSUME NEW x \in Int, NEW cap \in Int
    PROVE  AtMost(x, cap) \in Int /\ AtMost(x, cap) <= cap /\ (x >= 0 /\ cap >= 0 => AtMost(x, cap) >= 0)
BY DEF AtMost

LEMMA AtLeastRange ==
    ASSUME NEW x \in Int, NEW floor \in Int
    PROVE  AtLeast(x, floor) \in Int /\ AtLeast(x, floor) >= floor
                /\ (AtLeast(x, floor) = x \/ AtLeast(x, floor) = floor)
BY DEF AtLeast

LEMMA ProductIsNat ==
    ASSUME NEW x \in Nat, NEW y \in Nat
    PROVE  x * y \in Nat
OBVIOUS

LEMMA RoundedIsNat ==
    ASSUME NEW n \in Nat, NEW d \in Nat \ {0}
    PROVE  Rounded(n, d) \in Nat
BY DEF Rounded

LEMMA LevelIsLevel ==
    ASSUME NEW area, NEW n
    PROVE  SensitivityLevel(area, n) \in Levels
BY Zenon DEF SensitivityLevel, Levels

\* However well the data is filled, PAN never gives full marks.
LEMMA PanIsBounded ==
    ASSUME NEW row, NEW data, NEW area, data.fields \in Nat, data.filled \in Nat
    PROVE  PanScore(row, data, area) \in 0 .. 990
<1>1. DataQuality(data, area) \in Nat
  <2> DEFINE n == IF data.fields = 0 THEN 1 ELSE data.filled
             d == IF data.fields = 0 THEN 2 ELSE data.fields
             f == data.fields
             c == AtMost(f, 10)
  <2>1. n \in Nat /\ d \in Nat \ {0} /\ f \in Nat
    OBVIOUS
  <2>2. c \in Nat
    BY <2>1 DEF AtMost
  <2>3. DataQuality(data, area) =
          IF area = "BANKING"
          THEN IF 10 * n > 8 * d THEN Rounded(950 * n, d) ELSE Rounded(800 * n * n, d * d)
          ELSE IF area = "LEGAL" THEN Rounded(100 * n * c, d)
          ELSE Rounded(1000 * n, d)
    BY Zenon DEF DataQuality
  <2> HIDE DEF n, d, f, c
  <2>4. Rounded(950 * n, d) \in Nat
    BY <2>1, RoundedIsNat
  <2>5. 800 * n * n \in Nat /\ d * d \in Nat \ {0} /\ 100 * n * c \in Nat
    BY <2>1, <2>2
  <2>6. Rounded(800 * n * n, d * d) \in Nat
    BY <2>5, RoundedIsNat
  <2>7. Rounded(100 * n * c, d) \in Nat
    BY <2>1, <2>5, RoundedIsNat
  <2>8. Rounded(1000 * n, d) \in Nat
    BY <2>1, RoundedIsNat
  <2> QED
    BY <2>3, <2>4, <2>6, <2>7, <2>8
<1> DEFINE found == row.patterns /\ data.entities
           raw == DataQuality(data, area) + (IF found THEN 100 ELSE 0)
<1>2. raw \in Nat
  <2> HIDE DEF found
  <2> QED
    BY <1>1
<1>3. PanScore(row, data, area) = AtMost(raw, 990)
  BY Zenon DEF PanScore
<1> HIDE DEF raw
<1> QED
  BY <1>2, <1>3 DEF AtMost

LEMMA RiskIsBounded ==
    ASSUME NEW row, NEW data, NEW area, NEW level,
           row.risk \in Nat, row.multiplier \in Nat, row.multiplier >= 15
    PROVE  RiskScore(row, data, area, level) \in 0 .. 100
<1> DEFINE percent == CASE level = "HIGH"   -> row.multiplier
                        [] level = "MEDIUM" -> row.multiplier - 15
                        [] OTHER            -> 100
           tenths == FactorsTenths(row.factors, area, data.words)
           raw == (row.risk * percent * tenths) \div 1000
<1>1. percent \in Nat
  <2>1. row.multiplier - 15 \in Nat
    OBVIOUS
  <2>2. 100 \in Nat
    OBVIOUS
  <2> QED
    BY <2>1, <2>2, Zenon
<1>2. tenths \in Nat
  <2>1. tenths \in {7, 8, 9, 10}
    BY Zenon DEF FactorsTenths
  <2> QED
    BY <2>1
<1>3. RiskScore(row, data, area, level) = AtMost(raw, 100)
  BY Zenon DEF RiskScore
<1> HIDE DEF percent, tenths
<1>4. row.risk * percent \in Nat
  BY <1>1, ProductIsNat
<1>5. row.risk * percent * tenths \in Nat
  BY <1>2, <1>4, ProductIsNat
<1>6. raw \in Nat
  <2> DEFINE product == row.risk * percent * tenths
  <2> HIDE DEF product
  <2> SUFFICES product \div 1000 \in Nat
    BY Zenon DEF product
  <2>1. product \in Nat
    BY <1>5, Zenon DEF product
  <2> QED
    BY <2>1
<1> HIDE DEF raw
<1> QED
  BY <1>3, <1>6 DEF AtMost

LEMMA SeededRisk ==
    ASSUME NEW area \in Areas
    PROVE  /\ SeedPfm[area].risk \in Nat
           /\ SeedPfm[area].multiplier \in Nat
           /\ SeedPfm[area].multiplier >= 15
BY DEF Areas, SeedPfm, FallbackPfm, RiskModel

LEMMA SomethingIsRecommended ==
    ASSUME NEW row, NEW data, NEW level
    PROVE  Recommendations(row, data, level) \in Nat
<1> DEFINE excellent == row.factors /\ data.excellent
           raw == (IF level = "HIGH" THEN 1 ELSE 0) + (IF excellent THEN 0 ELSE 1)
<1>1. raw \in Nat
  <2> HIDE DEF excellent
  <2> QED
    OBVIOUS
<1>2. Recommendations(row, data, level) = AtLeast(raw, 1)
  BY Zenon DEF Recommendations
<1> HIDE DEF raw
<1> QED
  BY <1>1, <1>2 DEF AtLeast

(***************************************************************************)
(* The rules of ECM, and what it makes of a row                            *)
(***************************************************************************)

LEMMA SevenAreFinite ==
    ASSUME NEW a, NEW b, NEW c, NEW d, NEW e, NEW f, NEW g
    PROVE  IsFiniteSet({a, b, c, d, e, f, g})
<1>0. IsFiniteSet({a})
  BY FS_Singleton
<1>1. IsFiniteSet({a} \cup {b} \cup {c} \cup {d})
  BY <1>0, FS_AddElement
<1>2. IsFiniteSet({a} \cup {b} \cup {c} \cup {d} \cup {e} \cup {f} \cup {g})
  BY <1>1, FS_AddElement
<1>3. {a} \cup {b} \cup {c} \cup {d} \cup {e} \cup {f} \cup {g} = {a, b, c, d, e, f, g}
  OBVIOUS
<1> QED
  BY <1>2, <1>3

\* The rules that are alike but for their term.
RuleForEach(framework, percent, T) == {Rule(framework, Areas, {t}, percent) : t \in T}

LEMMA RuleForEachIsFinite ==
    ASSUME NEW framework, NEW percent, NEW T, IsFiniteSet(T)
    PROVE  IsFiniteSet(RuleForEach(framework, percent, T))
<1> DEFINE f == [t \in T |-> Rule(framework, Areas, {t}, percent)]
<1>1. f \in Surjection(T, RuleForEach(framework, percent, T))
  BY DEF Surjection, RuleForEach
<1> HIDE DEF f
<1> QED
  BY <1>1, FS_Surjection

LEMMA RulesAreFinite == IsFiniteSet(Rules)
<1> DEFINE E == {"encrypt", "secure", "protect", "authentication", "mfa"}
           C == {"gdpr", "hipaa", "sox", "kycaml", "pci", "mifid"}
<1>1. IsFiniteSet(BiasTerms)
  <2>1. BiasTerms = {"discriminat", "bias", "unfair", "stereotype", "bias", "bias", "bias"}
    BY DEF BiasTerms
  <2> QED
    BY <2>1, SevenAreFinite
<1>2. IsFiniteSet(E)
  <2>1. E = {"encrypt", "secure", "protect", "authentication", "mfa", "mfa", "mfa"}
    OBVIOUS
  <2> HIDE DEF E
  <2> QED
    BY <2>1, SevenAreFinite
<1>3. IsFiniteSet(C)
  <2>1. C = {"gdpr", "hipaa", "sox", "kycaml", "pci", "mifid", "mifid"}
    OBVIOUS
  <2> HIDE DEF C
  <2> QED
    BY <2>1, SevenAreFinite
<1> DEFINE Seven == {Rule("transparency", {"BANKING"}, {"audit", "log"}, 102),
                     Rule("transparency", {"AUDIT"}, {"metadata", "trace"}, 103),
                     Rule("transparency", {"LEGAL"}, {"documented"}, 102),
                     Rule("fairness", {"RETAIL"}, {"customer"}, 101),
                     Rule("accountability", {"BANKING", "FINANCE"}, {"approval", "authorization"}, 102),
                     Rule("accountability", {"AUDIT"}, {"verified"}, 103),
                     Rule("privacy", Areas, {"EXPOSED"}, 90)}
           Others == {Rule("privacy", {"RETAIL"}, {"PII"}, 98),
                      Rule("privacy", {"LEGAL"}, {"confidential"}, 102),
                      Rule("security", {"BANKING", "FINANCE"}, {"encryption"}, 102),
                      Rule("compliance", {"BANKING"}, {"kyc"}, 102),
                      Rule("compliance", {"AUDIT"}, {"compliance"}, 103),
                      Rule("human_oversight", {"LEGAL"}, {"review"}, 103),
                      Rule("human_oversight", {"AUDIT"}, {"approved"}, 102)}
           FairnessEach == RuleForEach("fairness", 93, BiasTerms)
           SecurityEach == RuleForEach("security", 101, E)
           ComplianceEach == RuleForEach("compliance", 101, C)
<1>4. IsFiniteSet(Seven)
  BY SevenAreFinite, ZenonT(60)
<1>5. IsFiniteSet(Others)
  BY SevenAreFinite, ZenonT(60)
<1>6. ASSUME NEW r \in Rules
      PROVE  r \in Seven \/ r \in Others \/ r \in FairnessEach \/ r \in SecurityEach \/ r \in ComplianceEach
  BY SMTT(120) DEF Rules, RuleForEach
<1>7. IsFiniteSet(FairnessEach) /\ IsFiniteSet(SecurityEach) /\ IsFiniteSet(ComplianceEach)
  <2> HIDE DEF E, C
  <2> QED
    BY <1>1, <1>2, <1>3, RuleForEachIsFinite
<1> HIDE DEF Seven, Others, FairnessEach, SecurityEach, ComplianceEach
<1> QED
  <2>1. IsFiniteSet(Seven \cup Others \cup FairnessEach \cup SecurityEach \cup ComplianceEach)
    BY <1>4, <1>5, <1>7, FS_Union
  <2>2. Rules \in SUBSET (Seven \cup Others \cup FairnessEach \cup SecurityEach \cup ComplianceEach)
    BY <1>6
  <2> QED
    BY <2>1, <2>2, FS_Subset

\* Only privacy and fairness are ever lowered, and where there is no rule of the
\* area's own, privacy by one rule.
LEMMA RulesLower ==
    ASSUME NEW r \in Rules
    PROVE  /\ r.percent \in Int
           /\ r.framework \notin {"privacy", "fairness"} => r.percent >= 100
           /\ r.framework = "privacy" /\ r.areas \cap {"DEFAULT", "HEALTHCARE"} # {} =>
                 r = Rule("privacy", Areas, {"EXPOSED"}, 90)
BY DEF Rules, Rule

Applied(framework, area, words) ==
    {r \in Rules : /\ r.framework = framework
                   /\ area \in r.areas
                   /\ r.terms \cap Seen(words) # {}}

Limited(framework, raw) ==
    CASE framework = "fairness" -> AtLeast(raw, 750000)
      [] framework = "privacy"  -> raw
      [] OTHER                  -> AtMost(raw, 1000000)

LEMMA EvaluatedIsRaw ==
    ASSUME NEW framework, NEW baseline, NEW area, NEW words
    PROVE  Evaluated(framework, baseline, area, words) =
             Limited(framework, Raw(baseline * 10000, Applied(framework, area, words)))
BY SMT DEF Evaluated, Limited, Raw, Applied, FoldSet, MapThenFoldSet

LEMMA AppliedIsFinite ==
    ASSUME NEW framework, NEW area, NEW words
    PROVE  /\ IsFiniteSet(Applied(framework, area, words))
           /\ Percents(Applied(framework, area, words))
<1>1. Applied(framework, area, words) \in SUBSET Rules
  BY DEF Applied
<1> QED
  BY <1>1, RulesAreFinite, FS_Subset, RulesLower DEF Percents

LEMMA EvaluatedIsInt ==
    ASSUME NEW framework, NEW baseline \in Int, NEW area, NEW words
    PROVE  Evaluated(framework, baseline, area, words) \in Int
<1> DEFINE raw == Raw(baseline * 10000, Applied(framework, area, words))
<1>1. raw \in Int
  <2>1. baseline * 10000 \in Int
    OBVIOUS
  <2> QED
    BY <2>1, AppliedIsFinite, RawOfSeveral
<1> HIDE DEF raw
<1>2. Evaluated(framework, baseline, area, words) = Limited(framework, raw)
  BY EvaluatedIsRaw DEF raw
<1>3. Limited(framework, raw) \in {AtLeast(raw, 750000), raw, AtMost(raw, 1000000)}
  <2>1. CASE framework = "fairness"
    BY <2>1, SMT DEF Limited
  <2>2. CASE framework = "privacy"
    BY <2>2, SMT DEF Limited
  <2>3. CASE framework \notin {"fairness", "privacy"}
    BY <2>3, SMT DEF Limited
  <2> QED
    BY <2>1, <2>2, <2>3, SMT
<1>4. AtLeast(raw, 750000) \in Int /\ AtMost(raw, 1000000) \in Int
  BY <1>1, AtLeastRange, AtMostRange
<1> QED
  BY <1>1, <1>2, <1>3, <1>4

\* A row that ECM can reckon with, as EditedEcmAssumption says of an edited one.
NumericEcm(row) ==
    /\ IsFiniteSet(DOMAIN row.base) /\ DOMAIN row.base # {}
    /\ \A f \in DOMAIN row.base : row.base[f] \in Int
    /\ \A l \in Levels : row.multiplier[l] \in Int /\ row.threshold[l] \in Int
    /\ row.bonus \in Int

LEMMA FrameworksAreFinite == IsFiniteSet(Frameworks)
<1>1. Frameworks = {"transparency", "fairness", "accountability", "privacy", "security",
                    "compliance", "sustainability"} \cup {"human_oversight"}
  BY DEF Frameworks
<1>2. IsFiniteSet({"transparency", "fairness", "accountability", "privacy", "security",
                   "compliance", "sustainability"})
  BY SevenAreFinite, Zenon
<1> QED
  BY <1>1, <1>2, FS_AddElement, Zenon

\* What SeedEcm and the fallback hold, as far as it is needed here.
LEMMA SeededBaselines ==
    /\ FallbackEcm.base \in [Frameworks -> Nat]
    /\ \A area \in Areas : SeedEcm[area].base \in [Frameworks -> Nat]
<1>0. FallbackEcm.base \in [Frameworks -> Nat]
  <2>1. FallbackEcm.base = Baselines(90, 90, 90, 90, 90, 90, 80, 90)
    BY DEF FallbackEcm
  <2>2. Baselines(90, 90, 90, 90, 90, 90, 80, 90) \in [Frameworks -> Nat]
    BY SMT DEF Baselines, Frameworks
  <2> QED
    BY <2>1, <2>2
<1>1. SeedEcm["BANKING"].base \in [Frameworks -> Nat]
  <2>1. SeedEcm["BANKING"].base = Baselines(85, 90, 97, 92, 97, 98, 75, 93)
    BY DEF SeedEcm
  <2>2. Baselines(85, 90, 97, 92, 97, 98, 75, 93) \in [Frameworks -> Nat]
    BY SMT DEF Baselines, Frameworks
  <2> QED
    BY <2>1, <2>2
<1>2. SeedEcm["LEGAL"].base \in [Frameworks -> Nat]
  <2>1. SeedEcm["LEGAL"].base = Baselines(80, 88, 93, 95, 93, 90, 75, 95)
    BY DEF SeedEcm
  <2>2. Baselines(80, 88, 93, 95, 93, 90, 75, 95) \in [Frameworks -> Nat]
    BY SMT DEF Baselines, Frameworks
  <2> QED
    BY <2>1, <2>2
<1>3. SeedEcm["RETAIL"].base \in [Frameworks -> Nat]
  <2>1. SeedEcm["RETAIL"].base = Baselines(90, 90, 88, 88, 90, 85, 85, 85)
    BY DEF SeedEcm
  <2>2. Baselines(90, 90, 88, 88, 90, 85, 85, 85) \in [Frameworks -> Nat]
    BY SMT DEF Baselines, Frameworks
  <2> QED
    BY <2>1, <2>2
<1>4. SeedEcm["AUDIT"].base \in [Frameworks -> Nat]
  <2>1. SeedEcm["AUDIT"].base = Baselines(95, 90, 98, 85, 92, 97, 75, 95)
    BY DEF SeedEcm
  <2>2. Baselines(95, 90, 98, 85, 92, 97, 75, 95) \in [Frameworks -> Nat]
    BY SMT DEF Baselines, Frameworks
  <2> QED
    BY <2>1, <2>2
<1>5. SeedEcm["FINANCE"].base \in [Frameworks -> Nat]
  <2>1. SeedEcm["FINANCE"].base = Baselines(90, 90, 95, 88, 93, 96, 78, 90)
    BY DEF SeedEcm
  <2>2. Baselines(90, 90, 95, 88, 93, 96, 78, 90) \in [Frameworks -> Nat]
    BY SMT DEF Baselines, Frameworks
  <2> QED
    BY <2>1, <2>2
<1>6. SeedEcm["HEALTHCARE"].base \in [Frameworks -> Nat]
  <2>1. SeedEcm["HEALTHCARE"].base = Baselines(85, 90, 95, 98, 96, 95, 75, 93)
    BY DEF SeedEcm
  <2>2. Baselines(85, 90, 95, 98, 96, 95, 75, 93) \in [Frameworks -> Nat]
    BY SMT DEF Baselines, Frameworks
  <2> QED
    BY <2>1, <2>2
<1>7. SeedEcm["DEFAULT"] = FallbackEcm
  BY DEF SeedEcm
<1> QED
  BY <1>0, <1>1, <1>2, <1>3, <1>4, <1>5, <1>6, <1>7 DEF Areas

LEMMA SeededEcmIsNumeric ==
    ASSUME NEW row, row \in {SeedEcm[area] : area \in Areas} \cup {FallbackEcm}
    PROVE  NumericEcm(row)
<1>1. row.base \in [Frameworks -> Nat]
  BY SeededBaselines
<1>2. /\ \A l \in Levels : row.multiplier[l] \in Int /\ row.threshold[l] \in Int
      /\ row.bonus \in Int
  BY DEF SeedEcm, FallbackEcm, Areas, Levels, ByLevel
<1>3. Frameworks # {}
  BY DEF Frameworks
<1> QED
  BY <1>1, <1>2, <1>3, FrameworksAreFinite DEF NumericEcm

LEMMA FrameworkScoresAreNumbers ==
    ASSUME NEW row, NumericEcm(row), NEW data, NEW area, NEW level \in Levels
    PROVE  /\ DOMAIN FrameworkScores(row, data, area, level) = DOMAIN row.base
           /\ \A f \in DOMAIN row.base : FrameworkScores(row, data, area, level)[f] \in Int
<1> DEFINE scores == FrameworkScores(row, data, area, level)
           product(f) == Evaluated(f, row.base[f], area, data.words) * row.multiplier[level]
<1>1. DOMAIN scores = DOMAIN row.base
  BY SMT DEF FrameworkScores
<1>2. ASSUME NEW f \in DOMAIN row.base
      PROVE  scores[f] \in Int
  <2>1. scores[f] = AtMost(product(f) \div 100, 1000000)
    BY SMT DEF FrameworkScores
  <2>2. product(f) \in Int
    <3>1. Evaluated(f, row.base[f], area, data.words) \in Int
      BY EvaluatedIsInt, SMT DEF NumericEcm
    <3>2. row.multiplier[level] \in Int
      BY SMT DEF NumericEcm
    <3> QED
      BY <3>1, <3>2, SMT
  <2> HIDE DEF product
  <2>3. product(f) \div 100 \in Int
    BY <2>2, SMT
  <2> HIDE DEF scores
  <2> QED
    BY <2>1, <2>3, SMT DEF AtMost
<1> QED
  BY <1>1, <1>2, SMT

\* The bonus takes nothing away, and no framework is below half.
FairEcm(row, data, area, level) ==
    /\ row.bonus >= 0
    /\ \A f \in DOMAIN row.base : FrameworkScores(row, data, area, level)[f] >= 500000

Passes(ecm) == ~ecm.failed /\ ecm.score >= 500

LEMMA EcmReturns ==
    ASSUME NEW row, NumericEcm(row), NEW data, NEW area, NEW level \in Levels, NEW owner
    PROVE  LET ecm == EcmResult(row, data, area, level, owner)
           IN  /\ ~ecm.failed
               /\ ecm.score \in Int
               /\ FairEcm(row, data, area, level) => Passes(ecm)
<1> DEFINE scores == FrameworkScores(row, data, area, level)
           ecm == EcmResult(row, data, area, level, owner)
           D == DOMAIN row.base
           n == Cardinality(D)
           total == Total(scores, D)
           extra == IF owner THEN row.bonus * 10000 ELSE 0
           overall == AtMost(total \div n + extra, 1000000)
           fair == row.bonus >= 0 /\ \A f \in D : scores[f] >= 500000
<1>1. DOMAIN scores = D /\ \A f \in D : scores[f] \in Int
  BY FrameworkScoresAreNumbers, SMT
<1>2. n \in Nat /\ n > 0
  <2>1. IsFiniteSet(D) /\ D # {}
    BY SMT DEF NumericEcm
  <2> HIDE DEF D
  <2>2. n \in Nat /\ n # 0
    BY <2>1, FS_CardinalityType, FS_EmptySet, SMT
  <2> HIDE DEF n
  <2> QED
    BY <2>2, SMT
<1>3. total \in Int /\ (fair => total >= 500000 * n)
  <2>1. IsFiniteSet(D)
    BY SMT DEF NumericEcm
  <2>2. 500000 \in Int
    BY SMT
  <2> HIDE DEF scores, D
  <2> QED
    BY <1>1, <2>1, <2>2, TotalIsAtLeast, SMT
<1>4. extra \in Int /\ (fair => extra >= 0)
  <2>1. row.bonus \in Int
    BY SMT DEF NumericEcm
  <2> HIDE DEF scores, D
  <2> QED
    BY <2>1, SMT
<1>5. ecm.failed = FALSE /\ ecm.score = Rounded(overall, 1000)
  BY <1>1, SMT DEF EcmResult, Total, MapThenSumSet, MapThenFoldSet
<1>6. FairEcm(row, data, area, level) => fair
  BY SMT DEF FairEcm
<1> HIDE DEF total, n, extra, fair, ecm, scores, D
<1>7. overall \in Int /\ (fair => overall >= 500000)
  <2>1. total \div n \in Int /\ (fair => total \div n >= 500000)
    BY <1>2, <1>3, SMT
  <2> QED
    BY <1>4, <2>1, SMT DEF AtMost
<1> HIDE DEF overall
<1>8. Rounded(overall, 1000) \in Int /\ (fair => Rounded(overall, 1000) >= 500)
  BY <1>7, SMT DEF Rounded
<1> QED
  BY <1>5, <1>6, <1>8, SMT DEF ecm, Passes

\* Where no rule of the area's own applies, a seeded row never scores below half.
LEMMA SeededEcmIsFair ==
    ASSUME NEW area \in {"DEFAULT", "HEALTHCARE"}, NEW data, NEW level \in Levels, NEW owner
    PROVE  Passes(EcmResult(SeedEcm[area], data, area, level, owner))
<1> DEFINE row == SeedEcm[area]
<1>1. NumericEcm(row)
  BY SeededEcmIsNumeric, SMT DEF Areas
<1>2. /\ row.bonus >= 0
      /\ row.multiplier[level] \in 90 .. 100
      /\ \A f \in DOMAIN row.base : row.base[f] \in 75 .. 100
      /\ row.base["privacy"] >= 90
  <2>1. CASE area = "DEFAULT"
    BY <2>1, SMT DEF SeedEcm, FallbackEcm, Levels, ByLevel, Baselines
  <2>2. CASE area = "HEALTHCARE"
    BY <2>2, SMT DEF SeedEcm, Levels, ByLevel, Baselines
  <2> QED
    BY <2>1, <2>2, Zenon
<1>3. ASSUME NEW f \in DOMAIN row.base
      PROVE  FrameworkScores(row, data, area, level)[f] >= 500000
  <2> DEFINE applied == Applied(f, area, data.words)
             start == row.base[f] * 10000
             raw == Raw(start, applied)
             evaluated == Evaluated(f, row.base[f], area, data.words)
  <2>1. start \in Int /\ start >= 750000 /\ (f = "privacy" => start >= 900000)
    <3> HIDE DEF row
    <3> QED
      BY <1>2, SMT
  <2>2. raw \in Int
    <3> HIDE DEF row, start, applied
    <3>1. start \in Int
      BY <2>1, SMT
    <3>2. IsFiniteSet(applied) /\ Percents(applied)
      BY AppliedIsFinite, SMT DEF applied
    <3> QED
      BY <3>1, <3>2, RawOfSeveral, SMT
  <2>3. evaluated = Limited(f, raw)
    BY EvaluatedIsRaw, SMT
  <2> HIDE DEF raw, evaluated, start
  <2>4. evaluated \in Int /\ evaluated >= 700000
    <3>1. CASE f = "fairness"
      BY <2>2, <2>3, <3>1, SMT DEF Limited, AtLeast
    <3>2. CASE f = "privacy"
      <4>1. applied \in SUBSET {Rule("privacy", Areas, {"EXPOSED"}, 90)}
        BY <3>2, RulesLower, SMT DEF Applied
      <4>2. Rule("privacy", Areas, {"EXPOSED"}, 90).percent = 90
        BY SMT DEF Rule
      <4>3. raw \in {start, (start * 90) \div 100}
        <5> HIDE DEF applied
        <5>1. PICK only, begin, rules :
                /\ only = Rule("privacy", Areas, {"EXPOSED"}, 90)
                /\ begin = start /\ rules = applied
          OBVIOUS
        <5>2. only.percent = 90 /\ rules \in SUBSET {only} /\ begin \in Int
          BY <2>1, <4>1, <4>2, <5>1, SMT
        <5>3. Raw(begin, rules) \in {begin, (begin * only.percent) \div 100}
          <6>1. only.percent \in Int
            BY <5>2, SMT
          <6> QED
            BY <5>2, <6>1, RawOfOne, Zenon
        <5> QED
          BY <5>1, <5>2, <5>3, SMT DEF raw
      <4>4. raw >= 700000
        BY <2>1, <3>2, <4>3, SMT
      <4> QED
        BY <2>2, <2>3, <3>2, <4>4, SMT DEF Limited
    <3>3. CASE f \notin {"fairness", "privacy"}
      <4>1. \A r \in applied : r.percent >= 100
        BY <3>3, RulesLower, SMT DEF Applied
      <4>2. IsFiniteSet(applied) /\ Percents(applied)
        BY AppliedIsFinite, SMT
      <4> HIDE DEF applied
      <4>3. start >= 0
        BY <2>1, SMT
      <4>4. raw >= start
        BY <2>1, <4>1, <4>2, <4>3, RawOfSeveral, SMT DEF raw
      <4> QED
        BY <2>1, <2>2, <2>3, <3>3, <4>4, SMT DEF Limited, AtMost
    <3> QED
      BY <3>1, <3>2, <3>3, SMT
  <2>5. FrameworkScores(row, data, area, level)[f] =
          AtMost((evaluated * row.multiplier[level]) \div 100, 1000000)
    BY SMT DEF FrameworkScores, evaluated
  <2>6. PICK m \in 90 .. 100 : m = row.multiplier[level]
    BY <1>2, SMT
  <2>7. evaluated * m \in Int /\ evaluated * m >= 700000 * 90
    BY <2>4, <2>6, SMT
  <2>8. (evaluated * m) \div 100 \in Int /\ (evaluated * m) \div 100 >= 500000
    BY <2>7, SMT
  <2> HIDE DEF row
  <2> QED
    BY <2>5, <2>6, <2>8, SMT DEF AtMost
<1>4. FairEcm(row, data, area, level)
  BY <1>2, <1>3, SMT DEF FairEcm
<1> HIDE DEF row
<1>5. Passes(EcmResult(row, data, area, level, owner))
  BY <1>1, <1>4, EcmReturns, Zenon
<1> QED
  BY <1>5, SMT DEF row

(***************************************************************************)
(* What the modules return                                                 *)
(***************************************************************************)
PanOK(x) == x.failed \/ (x.score \in Int /\ x.score <= 990)
PfmOK(x) == x.failed \/ x.risk \in 0 .. 100
SdaOK(x) == x.failed \/ x.count \in Nat

LEMMA PanReturns ==
    ASSUME NEW kind, NEW q, q.data.fields \in Nat, q.data.filled \in Nat
    PROVE  PanOK(PanResult(kind, q))
<1> DEFINE row == RowOf(kind, SeedPan[q.area], FallbackPan, EditedPan)
           score == PanScore(row, q.data, q.area)
<1>1. score \in 0 .. 990
  <2> HIDE DEF row
  <2> QED
    BY PanIsBounded
<1>2. PanResult(kind, q) = IF kind = "Unusable" THEN Failure ELSE [failed |-> FALSE, score |-> score]
  BY Zenon DEF PanResult
<1> HIDE DEF score
<1> QED
  BY <1>1, <1>2 DEF PanOK, Failure

LEMMA PfmReturns ==
    ASSUME NEW kind \in Kinds, NEW q, q.area \in Areas
    PROVE  PfmOK(PfmResult(kind, q))
<1> DEFINE row == RowOf(kind, SeedPfm[q.area], FallbackPfm, EditedPfm)
           risk == RiskScore(row, q.data, q.area, LevelOf(q))
<1>1. CASE kind = "Unusable"
  BY <1>1 DEF PfmOK, PfmResult, Failure
<1>2. CASE kind # "Unusable"
  <2>1. row \in {SeedPfm[q.area], FallbackPfm, EditedPfm}
    BY <1>2, Zenon DEF RowOf, Kinds
  <2>2. /\ FallbackPfm.risk \in Nat /\ FallbackPfm.multiplier \in Nat
        /\ FallbackPfm.multiplier >= 15
    BY DEF FallbackPfm, RiskModel
  <2> HIDE DEF row
  <2>3. row.risk \in Nat /\ row.multiplier \in Nat /\ row.multiplier >= 15
    BY <2>1, <2>2, SeededRisk, EditedPfmAssumption
  <2>4. RiskScore(row, q.data, q.area, LevelOf(q)) \in 0 .. 100
    BY <2>3, RiskIsBounded
  <2>5. PfmResult(kind, q) = [failed |-> FALSE, risk |-> risk]
    BY <1>2, Zenon DEF PfmResult, row
  <2> HIDE DEF risk
  <2> QED
    BY <2>4, <2>5 DEF PfmOK, risk
<1> QED
  BY <1>1, <1>2

LEMMA SdaReturns ==
    ASSUME NEW kind, NEW q
    PROVE  SdaOK(SdaResult(kind, q))
<1> DEFINE row == RowOf(kind, SeedSda[q.area], FallbackSda, EditedSda)
           count == Recommendations(row, q.data, LevelOf(q))
<1>1. count \in Nat
  BY SomethingIsRecommended
<1>2. SdaResult(kind, q) = Failure \/ SdaResult(kind, q) = [failed |-> FALSE, count |-> count]
  BY Zenon DEF SdaResult
<1> HIDE DEF count
<1> QED
  BY <1>1, <1>2 DEF SdaOK, Failure

(***************************************************************************)
(* The weights                                                             *)
(***************************************************************************)
NamedAreas == {"BANKING", "LEGAL", "FINANCE", "RETAIL", "AUDIT"}

\* Half marks for ethics miss the threshold even beside the best of everything else.
\* In RETAIL and AUDIT at LOW it is PAN's limit of .99 that makes the difference.
Strict(w) ==
    /\ w.ecm \in Nat /\ w.pfm \in Nat /\ w.pan \in Nat /\ w.sda \in Nat /\ w.threshold \in Nat
    /\ 500 * w.ecm + 1000 * w.pfm + 990 * w.pan + 1000 * w.sda < w.threshold * 1000

LEMMA NamedAreasAreStrict ==
    ASSUME NEW area \in NamedAreas, NEW level \in Levels
    PROVE  Strict(WeightingMatrix[area][level])
<1>1. CASE area = "BANKING"
  BY <1>1 DEF Levels, Strict, WeightingMatrix, ByLevel, Weighting
<1>2. CASE area = "LEGAL"
  BY <1>2 DEF Levels, Strict, WeightingMatrix, ByLevel, Weighting
<1>3. CASE area = "FINANCE"
  BY <1>3 DEF Levels, Strict, WeightingMatrix, ByLevel, Weighting
<1>4. CASE area = "RETAIL"
  BY <1>4 DEF Levels, Strict, WeightingMatrix, ByLevel, Weighting
<1>5. CASE area = "AUDIT"
  BY <1>5 DEF Levels, Strict, WeightingMatrix, ByLevel, Weighting
<1> QED
  BY <1>1, <1>2, <1>3, <1>4, <1>5 DEF NamedAreas

LEMMA ProductIsMonotone ==
    ASSUME NEW x \in Int, NEW y \in Int, NEW w \in Nat, x <= y
    PROVE  x * w \in Int /\ x * w <= y * w
OBVIOUS

LEMMA HalfEthicsIsNotEnough ==
    ASSUME NEW s, NEW w, Strict(w),
           s.ecm = 500, s.pfm \in Int, s.pfm <= 1000, s.pan \in Int, s.pan <= 990,
           s.sda \in Int, s.sda <= 1000
    PROVE  ~(Aggregated(s, w) >= w.threshold * 1000)
<1> DEFINE sum == s.ecm * w.ecm + s.pfm * w.pfm + s.pan * w.pan + s.sda * w.sda
           bound == w.threshold * 1000
<1>1. s.pfm * w.pfm \in Int /\ s.pfm * w.pfm <= 1000 * w.pfm
  BY ProductIsMonotone DEF Strict
<1>2. s.pan * w.pan \in Int /\ s.pan * w.pan <= 990 * w.pan
  BY ProductIsMonotone DEF Strict
<1>3. s.sda * w.sda \in Int /\ s.sda * w.sda <= 1000 * w.sda
  BY ProductIsMonotone DEF Strict
<1>4. sum \in Int /\ sum <= 500 * w.ecm + 1000 * w.pfm + 990 * w.pan + 1000 * w.sda
  BY <1>1, <1>2, <1>3 DEF Strict
<1>5. sum < bound /\ bound \in Int
  BY <1>4 DEF Strict
<1> DEFINE total == Aggregated(s, w)
<1>6. total = IF sum > 100000 THEN 100000 ELSE sum
  BY DEF Aggregated, AtMost
<1> HIDE DEF sum, bound, total
<1>7. total < bound /\ total \in Int
  BY <1>4, <1>5, <1>6
<1>8. ~(total >= bound)
  BY <1>5, <1>7
<1> QED
  BY <1>8 DEF total, bound

(***************************************************************************)
(* The inductive invariant                                                 *)
(***************************************************************************)
Decided == pc = "answered" /\ outcome # "DENY"
PanDone == pc \in {"ecm", "pfm", "sda", "loop"} \/ Decided
PfmDone == pc \in {"sda", "loop"} \/ Decided
SdaDone == pc = "loop" \/ Decided

RequestRecords ==
    [area : Areas, sensitive : Nat, owner : BOOLEAN, registered : BOOLEAN, data : DataRecords]

RequestOK == req \in RequestRecords /\ (~req.registered => ~req.owner)

ResultsOK ==
    /\ DOMAIN res = Modules
    /\ PanDone => PanOK(res["pan"])
    /\ PfmDone => PfmOK(res["pfm"])
    /\ SdaDone => SdaOK(res["sda"])

OutcomeOK == Decided => outcome = Decision(res, override, req)

IInv == RequestOK /\ ResultsOK /\ OutcomeOK

LEMMA NoRequestIsOne == NoRequest \in RequestRecords
<1>1. {} \in SUBSET STRING
  OBVIOUS
<1> QED
  BY <1>1 DEF NoRequest, RequestRecords, DataRecords, Areas

\* What the proofs use of a request.
LEMMA RequestFields ==
    ASSUME RequestOK
    PROVE  /\ req.area \in Areas
           /\ req.data.fields \in Nat /\ req.data.filled \in Nat
           /\ ~req.registered => ~req.owner
BY DEF RequestOK, RequestRecords, DataRecords

LEMMA InitInv == Init => IInv
<1> SUFFICES ASSUME Init PROVE IInv
  OBVIOUS
<1>1. RequestOK
  BY NoRequestIsOne DEF Init, NoRequest, RequestOK
<1>2. ResultsOK /\ OutcomeOK
  BY DEF Init, ResultsOK, OutcomeOK, Decided, PanDone, PfmDone, SdaDone
<1> QED
  BY <1>1, <1>2 DEF IInv

LEMMA ReceiveInv ==
    ASSUME IInv, NEW r \in Requests, Receive(r)
    PROVE  IInv'
<1>1. RequestOK'
  <2>1. req' = Extracted(r)
    BY Zenon DEF Receive
  <2>2. Extracted(r).area \in Areas
    BY DEF Extracted, IdentifiedArea, Areas
  <2>3. Extracted(r) \in RequestRecords
    BY <2>2, DataAssumption DEF Extracted, RequestRecords
  <2>4. r.agent = NoAgent => "COMPLIANCE_OWNER" \notin AgentOf(r).owners
    BY DEF AgentOf
  <2>5. Extracted(r).registered = (r.agent # NoAgent)
    BY DEF Extracted
  <2>6. Extracted(r).owner = ("COMPLIANCE_OWNER" \in AgentOf(r).owners)
    BY DEF Extracted
  <2> QED
    BY <2>1, <2>3, <2>4, <2>5, <2>6, Zenon DEF RequestOK
<1>2. pc' = "pan" \/ (pc' = "answered" /\ outcome' = "DENY")
  BY Zenon DEF Receive
<1>3. ResultsOK' /\ OutcomeOK'
  BY <1>2 DEF IInv, Receive, ResultsOK, OutcomeOK, Decided, PanDone, PfmDone, SdaDone
<1> QED
  BY <1>1, <1>3 DEF IInv

LEMMA RunInv ==
    ASSUME IInv, NEW module \in Modules, NEW next, NEW kind, NEW result,
           Run(module, next, kind, result),
           next \in {"ecm", "pfm", "sda", "loop"},
           module = "pan" => next = "ecm" /\ PanOK(result),
           module = "ecm" => next = "pfm",
           module = "pfm" => next = "sda" /\ PfmOK(result),
           module = "sda" => next = "loop" /\ SdaOK(result)
    PROVE  IInv'
<1>1. pc = module /\ pc' = next /\ res' = [res EXCEPT ![module] = result]
      /\ UNCHANGED <<req, override, outcome>>
  BY Zenon DEF Run
<1>2. RequestOK'
  BY <1>1, Zenon DEF IInv, RequestOK
<1>3. ~Decided'
  BY <1>1 DEF Decided
<1>4. /\ DOMAIN res' = Modules
      /\ res'[module] = result
      /\ \A m \in Modules \ {module} : res'[m] = res[m]
  BY <1>1 DEF IInv, ResultsOK
<1>5. (PanDone => PanOK(res["pan"]))'
  <2>1. CASE module = "pan"
    BY <1>4, <2>1, Zenon
  <2>2. CASE module # "pan"
    <3>1. PanOK(res["pan"])
      BY <1>1, <2>2 DEF IInv, ResultsOK, PanDone, Modules
    <3>2. res'["pan"] = res["pan"]
      BY <1>4, <2>2 DEF Modules
    <3> QED
      BY <3>1, <3>2, Zenon
  <2> QED
    BY <2>1, <2>2
<1>6. (PfmDone => PfmOK(res["pfm"]))'
  <2>1. CASE module = "pfm"
    BY <1>4, <2>1, Zenon
  <2>2. CASE module = "sda"
    <3>1. PfmOK(res["pfm"])
      BY <1>1, <2>2 DEF IInv, ResultsOK, PfmDone
    <3>2. res'["pfm"] = res["pfm"]
      BY <1>4, <2>2 DEF Modules
    <3> QED
      BY <3>1, <3>2, Zenon
  <2>3. CASE module \in {"pan", "ecm"}
    BY <1>1, <1>3, <2>3 DEF PfmDone
  <2> QED
    BY <2>1, <2>2, <2>3 DEF Modules
<1>7. (SdaDone => SdaOK(res["sda"]))'
  <2>1. CASE module = "sda"
    BY <1>4, <2>1, Zenon
  <2>2. CASE module # "sda"
    BY <1>1, <1>3, <2>2 DEF SdaDone, Modules
  <2> QED
    BY <2>1, <2>2
<1>8. OutcomeOK'
  BY <1>3 DEF OutcomeOK
<1> QED
  BY <1>2, <1>4, <1>5, <1>6, <1>7, <1>8 DEF IInv, ResultsOK

LEMMA DecideInv ==
    ASSUME IInv, NEW ov, Decide(ov)
    PROVE  IInv'
<1>1. pc = "loop" /\ pc' = "answered" /\ res' = res /\ req' = req
      /\ outcome' = Decision(res', override', req')
  BY Zenon DEF Decide
<1>2. RequestOK'
  BY <1>1, Zenon DEF IInv, RequestOK
<1>3. ResultsOK'
  BY <1>1 DEF IInv, ResultsOK, PanDone, PfmDone, SdaDone
<1>4. OutcomeOK'
  BY <1>1, Zenon DEF OutcomeOK
<1> QED
  BY <1>2, <1>3, <1>4 DEF IInv

LEMMA AnswerInv ==
    ASSUME IInv, Answer
    PROVE  IInv'
<1>1. RequestOK'
  BY NoRequestIsOne DEF Answer, NoRequest, RequestOK
<1>2. pc' = "idle" /\ DOMAIN res' = Modules
  BY DEF Answer
<1>3. ResultsOK' /\ OutcomeOK'
  BY <1>2 DEF ResultsOK, OutcomeOK, Decided, PanDone, PfmDone, SdaDone
<1> QED
  BY <1>1, <1>3 DEF IInv

LEMMA StepInv == IInv /\ [Next]_vars => IInv'
<1> SUFFICES ASSUME IInv, [Next]_vars PROVE IInv'
  OBVIOUS
<1>1. ASSUME NEW r \in Requests, Receive(r) PROVE IInv'
  BY <1>1, ReceiveInv
<1>2. ASSUME NEW k \in Kinds, Analyze(k) PROVE IInv'
  <2>1. PanOK(PanResult(k, req))
    BY PanReturns, RequestFields DEF IInv
  <2>2. Run("pan", "ecm", k, PanResult(k, req))
    BY <1>2 DEF Analyze
  <2> QED
    BY <2>1, <2>2, RunInv DEF Modules
<1>3. ASSUME NEW k \in Kinds, Calibrate(k) PROVE IInv'
  <2>1. Run("ecm", "pfm", k, EcmModule(k, req))
    BY <1>3 DEF Calibrate
  <2> QED
    BY <2>1, RunInv DEF Modules
<1>4. ASSUME NEW k \in Kinds, Predict(k) PROVE IInv'
  <2>1. PfmOK(PfmResult(k, req))
    BY PfmReturns, RequestFields DEF IInv
  <2>2. Run("pfm", "sda", k, PfmResult(k, req))
    BY <1>4 DEF Predict
  <2> QED
    BY <2>1, <2>2, RunInv DEF Modules
<1>5. ASSUME NEW k \in Kinds, Advise(k) PROVE IInv'
  <2>1. SdaOK(SdaResult(k, req))
    BY SdaReturns
  <2>2. Run("sda", "loop", k, SdaResult(k, req))
    BY <1>5 DEF Advise
  <2> QED
    BY <2>1, <2>2, RunInv DEF Modules
<1>6. ASSUME NEW ov, Decide(ov) PROVE IInv'
  BY <1>6, DecideInv
<1>7. CASE Answer
  BY <1>7, AnswerInv
<1>8. CASE UNCHANGED vars
  <2>1. RequestOK' /\ OutcomeOK'
    BY <1>8, Zenon DEF IInv, vars, RequestOK, OutcomeOK, Decided
  <2>2. ResultsOK'
    BY <1>8 DEF IInv, vars, ResultsOK, Decided, PanDone, PfmDone, SdaDone
  <2> QED
    BY <2>1, <2>2 DEF IInv
<1> QED
  BY <1>1, <1>2, <1>3, <1>4, <1>5, <1>6, <1>7, <1>8, Zenon DEF Next

(***************************************************************************)
(* The theorems                                                            *)
(***************************************************************************)

LEMMA EnforcedIsRefused ==
    ASSUME NEW a, NEW w, NEW critical, NEW owner, w.enforce, critical, ~owner
    PROVE  Outcome(a, w, critical, owner) = "REJECT"
BY DEF Outcome

\* A caller without a registered agent has no owner, so a violation that is enforced
\* is refused: only a review the weights ask for brings in a human.
THEOREM NoEscalation == Spec => []NoAgentNoEscalation
<1>1. IInv => NoAgentNoEscalation
  <2> SUFFICES ASSUME IInv, pc = "answered", outcome = "REQUIRE_HUMAN", ~req.registered,
                      CriticalViolation(res.ecm), WeightsFor(override, req).enforce
               PROVE  FALSE
    BY Zenon DEF NoAgentNoEscalation
  <2>1. outcome = Decision(res, override, req)
    BY DEF IInv, OutcomeOK, Decided
  <2>1a. ~req.owner
    BY RequestFields DEF IInv
  <2>2. Decision(res, override, req) = "REJECT"
    BY <2>1a, EnforcedIsRefused DEF Decision
  <2> QED
    BY <2>1, <2>2
<1> QED
  BY <1>1, InitInv, StepInv, PTL DEF Spec

LEMMA FailedEthicsInv == IInv => FailedEthicsNeverApproves
<1> SUFFICES ASSUME IInv, Approved, res.ecm.failed, req.area \notin {"DEFAULT", "HEALTHCARE"}
             PROVE  FALSE
  BY Zenon DEF FailedEthicsNeverApproves
<1> DEFINE w == WeightsFor(override, req)
           s == ModuleScores(res.pan, res.ecm, res.pfm, res.sda)
           count == IF res.sda.failed THEN 0 ELSE res.sda.count
           risk == IF res.pfm.failed THEN 50 ELSE res.pfm.risk
<1>1. Decided /\ outcome = "APPROVE" /\ override = NoOverride
  BY DEF Approved, Decided
<1>2. outcome = Decision(res, override, req)
  BY <1>1 DEF IInv, OutcomeOK
<1>3. Strict(w)
  <2>1. req.area \in NamedAreas
    BY RequestFields DEF IInv, Areas, NamedAreas
  <2>2. LevelOf(req) \in Levels
    BY LevelIsLevel DEF LevelOf
  <2>3. w = WeightingMatrix[req.area][LevelOf(req)]
    BY <1>1 DEF WeightsFor
  <2> QED
    BY <2>1, <2>2, <2>3, NamedAreasAreStrict
<1>4. PanOK(res.pan) /\ PfmOK(res.pfm) /\ SdaOK(res.sda)
  BY <1>1 DEF IInv, ResultsOK, PanDone, PfmDone, SdaDone
<1>5. /\ s.ecm = 500
      /\ s.pan = IF res.pan.failed THEN 500 ELSE res.pan.score
      /\ s.pfm = 1000 - 10 * risk
      /\ s.sda = AtLeast(1000 - 700 * count, 0)
  BY Zenon DEF ModuleScores
<1>6. s.pan \in Int /\ s.pan <= 990
  BY <1>4, <1>5 DEF PanOK
<1>7. risk \in 0 .. 100
  BY <1>4 DEF PfmOK
<1>8. count \in Nat
  BY <1>4 DEF SdaOK
<1> HIDE DEF w, s, risk, count
<1>9. s.pfm \in Int /\ s.pfm <= 1000
  BY <1>5, <1>7
<1>10. s.sda \in Int /\ s.sda <= 1000
  BY <1>5, <1>8 DEF AtLeast
<1>11. ~(Aggregated(s, w) >= w.threshold * 1000)
  BY <1>3, <1>5, <1>6, <1>9, <1>10, HalfEthicsIsNotEnough
<1>12. Decision(res, override, req) # "APPROVE"
  BY <1>11, Zenon DEF Decision, Outcome, s, w
<1> QED
  BY <1>1, <1>2, <1>12

\* No named area is approved on the strength of ethics nobody evaluated.
THEOREM FailedEthics == Spec => []FailedEthicsNeverApproves
  BY FailedEthicsInv, InitInv, StepInv, PTL DEF Spec

(***************************************************************************)
(* What a module returned, and what stands in for it                       *)
(***************************************************************************)

\* As seeded no area has critical factors, and none is at more than half risk.
LEMMA SeededRiskIsFair ==
    ASSUME NEW area \in Areas, NEW data, NEW level
    PROVE  RiskScore(SeedPfm[area], data, area, level) \in 0 .. 50
<1> DEFINE row == SeedPfm[area]
           percent == CASE level = "HIGH"   -> row.multiplier
                        [] level = "MEDIUM" -> row.multiplier - 15
                        [] OTHER            -> 100
           tenths == FactorsTenths(row.factors, area, data.words)
           raw == (row.risk * percent * tenths) \div 1000
<1>1. row.risk \in 0 .. 42 /\ row.multiplier \in 110 .. 145 /\ row.factors = {}
  BY SMT DEF Areas, SeedPfm, FallbackPfm, RiskModel
<1>2. RiskScore(row, data, area, level) = AtMost(raw, 100)
  BY Zenon DEF RiskScore
<1>3. tenths = 8
  <2>1. Cardinality({}) = 0
    BY FS_EmptySet
  <2> HIDE DEF row
  <2> QED
    BY <1>1, <2>1, Zenon DEF FactorsTenths
<1> HIDE DEF row, tenths
<1>4. percent \in 0 .. 145
  <2>1. row.multiplier \in 0 .. 145 /\ row.multiplier - 15 \in 0 .. 145 /\ 100 \in 0 .. 145
    BY <1>1, SMT
  <2> QED
    BY <2>1, Zenon
<1> HIDE DEF percent
<1>5. PICK r, p, product :
        /\ r = row.risk /\ p = percent /\ product = row.risk * percent
        /\ raw = (product * 8) \div 1000
  BY <1>3, SMT
<1> HIDE DEF raw
<1>6. product \in Int /\ product >= 0 /\ product <= 42 * 145
  <2>1. r \in 0 .. 42 /\ p \in 0 .. 145 /\ product = r * p
    BY <1>1, <1>4, <1>5, Zenon
  <2>2. r * p \in Nat /\ r * p <= 42 * p
    BY <2>1, SMT
  <2> QED
    BY <2>1, <2>2, SMT
<1>7. product * 8 \in Int /\ product * 8 >= 0 /\ product * 8 <= 50 * 1000
  BY <1>6, SMT
<1>8. raw \in Int /\ raw >= 0 /\ raw <= 50
  BY <1>5, <1>7, SMT
<1> QED
  BY <1>2, <1>8, SMT DEF AtMost, row

EcmOK(x) == x.failed \/ x.score \in Int

LEMMA EcmScoreIsNumber ==
    ASSUME NEW row, NumericEcm(row), NEW data, NEW area, NEW level \in Levels, NEW owner
    PROVE  EcmResult(row, data, area, level, owner).score \in Int
BY EcmReturns, Zenon

LEMMA EcmModuleReturns ==
    ASSUME NEW kind \in Kinds, NEW q, q.area \in Areas
    PROVE  EcmOK(EcmModule(kind, q))
<1>1. CASE kind = "Unusable"
  BY <1>1 DEF EcmOK, EcmModule, Failure
<1>2. CASE kind # "Unusable"
  <2> DEFINE row == RowOf(kind, SeedEcm[q.area], FallbackEcm, EditedEcm)
  <2>1. row \in {SeedEcm[q.area], FallbackEcm, EditedEcm}
    BY <1>2, Zenon DEF RowOf, Kinds
  <2>2. NumericEcm(EditedEcm)
    BY EditedEcmAssumption, Zenon DEF NumericEcm
  <2>3. EcmModule(kind, q) = EcmResult(row, q.data, q.area, LevelOf(q), q.owner)
    BY <1>2, Zenon DEF EcmModule
  <2> HIDE DEF row
  <2>4. NumericEcm(row)
    BY <2>1, <2>2, SeededEcmIsNumeric
  <2>5. LevelOf(q) \in Levels
    BY LevelIsLevel DEF LevelOf
  <2>6. EcmResult(row, q.data, q.area, LevelOf(q), q.owner).score \in Int
    BY <2>4, <2>5, EcmScoreIsNumber, Zenon
  <2> QED
    BY <2>3, <2>6 DEF EcmOK
<1> QED
  BY <1>1, <1>2

Numeric(w) == {w.ecm, w.pfm, w.pan, w.sda, w.threshold} \subseteq Nat

LEMMA WeightsAreNumbers ==
    ASSUME NEW area \in Areas, NEW level \in Levels
    PROVE  Numeric(WeightingMatrix[area][level])
<1>1. CASE area = "BANKING"
  BY <1>1 DEF Levels, WeightingMatrix, ByLevel, Weighting, Numeric
<1>2. CASE area = "LEGAL"
  BY <1>2 DEF Levels, WeightingMatrix, ByLevel, Weighting, Numeric
<1>3. CASE area = "FINANCE"
  BY <1>3 DEF Levels, WeightingMatrix, ByLevel, Weighting, Numeric
<1>4. CASE area = "RETAIL"
  BY <1>4 DEF Levels, WeightingMatrix, ByLevel, Weighting, Numeric
<1>5. CASE area = "AUDIT"
  BY <1>5 DEF Levels, WeightingMatrix, ByLevel, Weighting, Numeric
<1>6. CASE area \in {"HEALTHCARE", "DEFAULT"}
  BY <1>6 DEF Levels, WeightingMatrix, DefaultWeights, ByLevel, Weighting, Numeric
<1> QED
  BY <1>1, <1>2, <1>3, <1>4, <1>5, <1>6 DEF Areas

\* Scores that are no lower, and a violation that is none: an approval stays one.
NoWorse(s, t) ==
    /\ {s.ecm, s.pfm, s.pan, s.sda, t.ecm, t.pfm, t.pan, t.sda} \subseteq Int
    /\ s.ecm <= t.ecm /\ s.pfm <= t.pfm /\ s.pan <= t.pan /\ s.sda <= t.sda

NoNewViolation(w, before, after) == (after => before) \/ ~w.enforce

LEMMA OutcomeApproves ==
    ASSUME NEW a, NEW w, NEW critical, NEW owner
    PROVE  Outcome(a, w, critical, owner) = "APPROVE"
             <=> ~(w.enforce /\ critical) /\ ~w.review /\ a >= w.threshold * 1000
BY SMT DEF Outcome

LEMMA BetterScoresStillApprove ==
    ASSUME NEW w, Numeric(w),
           NEW s, NEW t, NoWorse(s, t), NEW before, NEW after, NEW owner,
           NoNewViolation(w, before, after),
           Outcome(Aggregated(s, w), w, before, owner) = "APPROVE"
    PROVE  Outcome(Aggregated(t, w), w, after, owner) = "APPROVE"
<1> DEFINE sum == s.ecm * w.ecm + s.pfm * w.pfm + s.pan * w.pan + s.sda * w.sda
           tum == t.ecm * w.ecm + t.pfm * w.pfm + t.pan * w.pan + t.sda * w.sda
           a == Aggregated(s, w)
           b == Aggregated(t, w)
<1>1. /\ s.ecm * w.ecm \in Int /\ s.ecm * w.ecm <= t.ecm * w.ecm /\ t.ecm * w.ecm \in Int
      /\ s.pfm * w.pfm \in Int /\ s.pfm * w.pfm <= t.pfm * w.pfm /\ t.pfm * w.pfm \in Int
      /\ s.pan * w.pan \in Int /\ s.pan * w.pan <= t.pan * w.pan /\ t.pan * w.pan \in Int
      /\ s.sda * w.sda \in Int /\ s.sda * w.sda <= t.sda * w.sda /\ t.sda * w.sda \in Int
  BY ProductIsMonotone DEF NoWorse, Numeric
<1>2. sum \in Int /\ tum \in Int /\ sum <= tum
  BY <1>1, SMT
<1>3. a = AtMost(sum, 100000) /\ b = AtMost(tum, 100000)
  BY SMT DEF Aggregated
<1> HIDE DEF sum, tum, a, b
<1>4. a \in Int /\ b \in Int /\ a <= b
  BY <1>2, <1>3, SMT DEF AtMost
<1> DEFINE bar == w.threshold * 1000
<1>5. bar \in Int
  BY SMT DEF Numeric
<1> HIDE DEF bar
<1>6. /\ ~(w.enforce /\ before) /\ ~w.review /\ a >= bar
  BY OutcomeApproves, SMT DEF a, bar
<1>7. b >= bar
  BY <1>4, <1>5, <1>6, SMT
<1>8. ~(w.enforce /\ after)
  BY <1>6, Zenon DEF NoNewViolation
<1> QED
  BY <1>6, <1>7, <1>8, OutcomeApproves, SMT DEF b, bar

(***************************************************************************)
(* Each result is that of the row its module was served                    *)
(***************************************************************************)
ResultOf(m, kind, q) ==
    CASE m = "pan" -> PanResult(kind, q)
      [] m = "ecm" -> EcmModule(kind, q)
      [] m = "pfm" -> PfmResult(kind, q)
      [] m = "sda" -> SdaResult(kind, q)

HasRun(m) ==
    \/ Decided
    \/ pc = "loop"
    \/ pc = "sda" /\ m # "sda"
    \/ pc = "pfm" /\ m \in {"pan", "ecm"}
    \/ pc = "ecm" /\ m = "pan"

Served ==
    /\ DOMAIN res = Modules
    /\ kinds \in [Modules -> Kinds]
    /\ \A m \in Modules : HasRun(m) => res[m] = ResultOf(m, kinds[m], req)

LEMMA ServedInitially == Init => Served
  BY DEF Init, Served, HasRun, Decided, Modules, Kinds

LEMMA RunServed ==
    ASSUME Served, NEW m \in Modules, NEW next, NEW kind \in Kinds,
           Run(m, next, kind, ResultOf(m, kind, req)),
           <<m, next>> \in {<<"pan", "ecm">>, <<"ecm", "pfm">>, <<"pfm", "sda">>, <<"sda", "loop">>}
    PROVE  Served'
<1>1. /\ pc = m /\ pc' = next /\ kinds' = [kinds EXCEPT ![m] = kind]
      /\ res' = [res EXCEPT ![m] = ResultOf(m, kind, req)] /\ req' = req
  BY Zenon DEF Run
<1>2. DOMAIN res' = Modules /\ kinds' \in [Modules -> Kinds]
  BY <1>1 DEF Served
<1>3. kinds'[m] = kind /\ res'[m] = ResultOf(m, kind, req)
  BY <1>1 DEF Served
<1>4. ASSUME NEW n \in Modules, n # m, HasRun(n)'
      PROVE  HasRun(n)
  <2>1. ~Decided'
    BY <1>1 DEF Decided
  <2> QED
    BY <1>1, <1>4, <2>1 DEF HasRun, Modules
<1>5. \A n \in Modules : n # m => kinds'[n] = kinds[n] /\ res'[n] = res[n]
  BY <1>1 DEF Served
<1>6. ASSUME NEW n \in Modules, HasRun(n)'
      PROVE  res'[n] = ResultOf(n, kinds'[n], req')
  <2>1. CASE n = m
    BY <1>1, <1>3, <2>1, Zenon
  <2>2. CASE n # m
    <3>1. res[n] = ResultOf(n, kinds[n], req)
      BY <1>4, <1>6, <2>2, Zenon DEF Served
    <3> QED
      BY <1>1, <1>5, <2>2, <3>1, Zenon
  <2> QED
    BY <2>1, <2>2
<1> QED
  BY <1>2, <1>6, Zenon DEF Served

LEMMA ServedStep == Served /\ [Next]_vars => Served'
<1> SUFFICES ASSUME Served, [Next]_vars PROVE Served'
  OBVIOUS
<1>1. ASSUME NEW r \in Requests, Receive(r) PROVE Served'
  <2>1. (pc' = "pan" \/ (pc' = "answered" /\ outcome' = "DENY")) /\ UNCHANGED <<kinds, res>>
    BY <1>1, Zenon DEF Receive
  <2> QED
    BY <2>1 DEF Served, HasRun, Decided
<1>2. ASSUME NEW k \in Kinds, Analyze(k) \/ Calibrate(k) \/ Predict(k) \/ Advise(k)
      PROVE  Served'
  <2>1. \/ Run("pan", "ecm", k, ResultOf("pan", k, req))
        \/ Run("ecm", "pfm", k, ResultOf("ecm", k, req))
        \/ Run("pfm", "sda", k, ResultOf("pfm", k, req))
        \/ Run("sda", "loop", k, ResultOf("sda", k, req))
    BY <1>2 DEF Analyze, Calibrate, Predict, Advise, ResultOf
  <2> QED
    BY <2>1, RunServed DEF Modules
<1>3. ASSUME NEW ov, Decide(ov) PROVE Served'
  <2>1. pc = "loop" /\ pc' = "answered" /\ UNCHANGED <<req, kinds, res>>
    BY <1>3, Zenon DEF Decide
  <2> QED
    BY <2>1 DEF Served, HasRun
<1>4. CASE Answer
  BY <1>4 DEF Answer, Served, HasRun, Decided, Modules, Kinds
<1>5. CASE UNCHANGED vars
  BY <1>5 DEF vars, Served, HasRun, Decided
<1> QED
  BY <1>1, <1>2, <1>3, <1>4, <1>5, Zenon DEF Next

\* The loop on the results of the four modules.
LoopDecides(pan, ecm, pfm, sda) ==
    Outcome(Aggregated(ModuleScores(pan, ecm, pfm, sda), WeightsFor(NoOverride, req)),
            WeightsFor(NoOverride, req), CriticalViolation(ecm), req.owner)

LEMMA DecisionIsTheLoops ==
    ASSUME NEW r4
    PROVE  Decision(r4, NoOverride, req) = LoopDecides(r4.pan, r4.ecm, r4.pfm, r4.sda)
BY Zenon DEF Decision, LoopDecides

LEMMA SeededInstead ==
    ASSUME Served, Decided
    PROVE  /\ Instead([kinds EXCEPT !["ecm"] = "Seeded"], req)
                = LoopDecides(res["pan"], EcmModule("Seeded", req), res["pfm"], res["sda"])
           /\ Instead([kinds EXCEPT !["pfm"] = "Seeded"], req)
                = LoopDecides(res["pan"], res["ecm"], PfmResult("Seeded", req), res["sda"])
<1>1. /\ res["pan"] = PanResult(kinds["pan"], req)
      /\ res["ecm"] = EcmModule(kinds["ecm"], req)
      /\ res["pfm"] = PfmResult(kinds["pfm"], req)
      /\ res["sda"] = SdaResult(kinds["sda"], req)
  BY DEF Served, HasRun, ResultOf, Modules
<1>2. ASSUME NEW ks
      PROVE  Instead(ks, req) = LoopDecides(PanResult(ks["pan"], req), EcmModule(ks["ecm"], req),
                                            PfmResult(ks["pfm"], req), SdaResult(ks["sda"], req))
  <2> DEFINE r4 == [pan |-> PanResult(ks["pan"], req), ecm |-> EcmModule(ks["ecm"], req),
                    pfm |-> PfmResult(ks["pfm"], req), sda |-> SdaResult(ks["sda"], req)]
  <2>1. Instead(ks, req) = Decision(r4, NoOverride, req)
    BY Zenon DEF Instead
  <2>2. /\ r4.pan = PanResult(ks["pan"], req) /\ r4.ecm = EcmModule(ks["ecm"], req)
        /\ r4.pfm = PfmResult(ks["pfm"], req) /\ r4.sda = SdaResult(ks["sda"], req)
    BY Zenon
  <2> HIDE DEF r4
  <2> QED
    BY <2>1, <2>2, DecisionIsTheLoops, Zenon
<1> DEFINE k1 == [kinds EXCEPT !["ecm"] = "Seeded"]
           k2 == [kinds EXCEPT !["pfm"] = "Seeded"]
<1>3. /\ k1["pan"] = kinds["pan"] /\ k1["ecm"] = "Seeded"
      /\ k1["pfm"] = kinds["pfm"] /\ k1["sda"] = kinds["sda"]
      /\ k2["pan"] = kinds["pan"] /\ k2["ecm"] = kinds["ecm"]
      /\ k2["pfm"] = "Seeded" /\ k2["sda"] = kinds["sda"]
  BY SMT DEF Served, Modules
<1> HIDE DEF k1, k2
<1>4. Instead(k1, req) = LoopDecides(res["pan"], EcmModule("Seeded", req), res["pfm"], res["sda"])
  BY <1>1, <1>2, <1>3, Zenon
<1>5. Instead(k2, req) = LoopDecides(res["pan"], res["ecm"], PfmResult("Seeded", req), res["sda"])
  BY <1>1, <1>2, <1>3, Zenon
<1> QED
  BY <1>4, <1>5, Zenon DEF k1, k2

\* Numbers, whatever was returned or raised.
LEMMA ScoresAreNumbers ==
    ASSUME NEW pan, PanOK(pan), NEW ecm, EcmOK(ecm), NEW pfm, PfmOK(pfm), NEW sda, SdaOK(sda)
    PROVE  LET s == ModuleScores(pan, ecm, pfm, sda)
           IN  {s.ecm, s.pfm, s.pan, s.sda} \subseteq Int
<1> DEFINE count == IF sda.failed THEN 0 ELSE sda.count
           risk == IF pfm.failed THEN 50 ELSE pfm.risk
           s == ModuleScores(pan, ecm, pfm, sda)
<1>1. count \in Int /\ risk \in Int
  BY DEF PfmOK, SdaOK
<1>2. /\ s.pan = IF pan.failed THEN 500 ELSE pan.score
      /\ s.ecm = IF ecm.failed THEN 500 ELSE ecm.score
      /\ s.pfm = 1000 - 10 * risk
      /\ s.sda = AtLeast(1000 - 700 * count, 0)
  BY SMT DEF ModuleScores
<1> HIDE DEF count, risk, s
<1>3. s.pan \in Int /\ s.ecm \in Int
  BY <1>2, SMT DEF PanOK, EcmOK
<1>4. s.pfm \in Int /\ s.sda \in Int
  BY <1>1, <1>2, SMT DEF AtLeast
<1> QED
  BY <1>3, <1>4, Zenon DEF s

LEMMA FailureIsNoHelp ==
    ASSUME IInv, Served, Approved, NEW m \in {"ecm", "pfm"}, kinds[m] = "Unusable"
    PROVE  Instead([kinds EXCEPT ![m] = "Seeded"], req) = "APPROVE"
<1> DEFINE w == WeightsFor(NoOverride, req)
           pan == res["pan"]
           ecm == res["ecm"]
           pfm == res["pfm"]
           sda == res["sda"]
           before == ModuleScores(pan, ecm, pfm, sda)
<1>1. Decided /\ override = NoOverride /\ outcome = "APPROVE"
  BY DEF Approved, Decided
<1>2. LoopDecides(pan, ecm, pfm, sda) = "APPROVE"
  <2>1. Decision(res, NoOverride, req) = "APPROVE"
    BY <1>1, Zenon DEF IInv, OutcomeOK
  <2> QED
    BY <2>1, DecisionIsTheLoops, Zenon
<1>3. LevelOf(req) \in Levels /\ req.area \in Areas /\ w = WeightingMatrix[req.area][LevelOf(req)]
  BY LevelIsLevel, RequestFields, Zenon DEF LevelOf, WeightsFor, IInv
<1>4. Numeric(w)
  <2> HIDE DEF w
  <2> QED
    BY <1>3, WeightsAreNumbers, Zenon
<1>5. "Seeded" \in Kinds /\ kinds[m] \in Kinds /\ kinds["ecm"] \in Kinds
  BY DEF Kinds, Served, Modules
<1>6. PanOK(pan) /\ PfmOK(pfm) /\ SdaOK(sda) /\ EcmOK(ecm)
  <2>1. PanOK(pan) /\ PfmOK(pfm) /\ SdaOK(sda)
    BY <1>1 DEF IInv, ResultsOK, PanDone, PfmDone, SdaDone
  <2>2. ecm = EcmModule(kinds["ecm"], req)
    BY <1>1 DEF Served, HasRun, ResultOf, Modules
  <2> QED
    BY <1>3, <1>5, <2>1, <2>2, EcmModuleReturns, Zenon
<1>7. res[m].failed
  <2>1. res[m] = ResultOf(m, "Unusable", req)
    BY <1>1 DEF Served, HasRun, Modules
  <2>2. ResultOf(m, "Unusable", req) = Failure
    BY SMT DEF ResultOf, EcmModule, PfmResult
  <2> QED
    BY <2>1, <2>2 DEF Failure
<1>8. CASE m = "ecm"
  <2> DEFINE now == EcmModule("Seeded", req)
             after == ModuleScores(pan, now, pfm, sda)
  <2>1. req.area \in {"DEFAULT", "HEALTHCARE"}
    BY <1>7, <1>8, FailedEthicsInv, Zenon DEF FailedEthicsNeverApproves
  <2>2. ~w.enforce
    BY <1>3, <2>1, SMT DEF Levels, WeightingMatrix, DefaultWeights, ByLevel, Weighting
  <2>3. EcmOK(now)
    BY <1>3, <1>5, EcmModuleReturns, Zenon
  <2>4. Passes(now)
    <3>1. now = EcmResult(SeedEcm[req.area], req.data, req.area, LevelOf(req), req.owner)
      BY SMT DEF EcmModule, RowOf
    <3>2. Passes(EcmResult(SeedEcm[req.area], req.data, req.area, LevelOf(req), req.owner))
      BY <1>3, <2>1, SeededEcmIsFair, Zenon
    <3> QED
      BY <3>1, <3>2, Zenon
  <2> HIDE DEF now
  <2>5. NoWorse(before, after)
    <3>1. /\ before.ecm = 500 /\ after.ecm = now.score
          /\ before.pfm = after.pfm /\ before.pan = after.pan /\ before.sda = after.sda
      BY <1>7, <1>8, <2>4, SMT DEF ModuleScores, Passes
    <3>2. /\ {before.ecm, before.pfm, before.pan, before.sda} \subseteq Int
          /\ {after.ecm, after.pfm, after.pan, after.sda} \subseteq Int
      BY <1>6, <2>3, ScoresAreNumbers, Zenon
    <3> HIDE DEF before, after
    <3> QED
      BY <2>4, <3>1, <3>2, SMT DEF NoWorse, Passes
  <2>6. LoopDecides(pan, now, pfm, sda) = "APPROVE"
    <3> HIDE DEF pan, pfm, sda, ecm
    <3>1. Outcome(Aggregated(before, w), w, CriticalViolation(ecm), req.owner) = "APPROVE"
      BY <1>2, Zenon DEF LoopDecides
    <3> HIDE DEF w, before, after
    <3>2. Outcome(Aggregated(after, w), w, CriticalViolation(now), req.owner) = "APPROVE"
      <4>1. NoNewViolation(w, CriticalViolation(ecm), CriticalViolation(now))
        BY <2>2, Zenon DEF NoNewViolation
      <4> QED
        BY <1>4, <2>5, <3>1, <4>1, BetterScoresStillApprove, ZenonT(40)
    <3> QED
      BY <3>2, Zenon DEF LoopDecides, w, after
  <2> QED
    BY <1>1, <1>8, <2>6, SeededInstead, Zenon DEF now
<1>9. CASE m = "pfm"
  <2> DEFINE now == PfmResult("Seeded", req)
             after == ModuleScores(pan, ecm, now, sda)
  <2>1. now = [failed |-> FALSE,
               risk |-> RiskScore(SeedPfm[req.area], req.data, req.area, LevelOf(req))]
    BY SMT DEF PfmResult, RowOf
  <2>2. RiskScore(SeedPfm[req.area], req.data, req.area, LevelOf(req)) \in 0 .. 50
    BY <1>3, SeededRiskIsFair, Zenon
  <2>3. now.failed = FALSE /\ now.risk \in 0 .. 50
    <3> HIDE DEF now
    <3> QED
      BY <2>1, <2>2, Zenon
  <2> HIDE DEF now
  <2>4. PfmOK(now)
    BY <2>3 DEF PfmOK
  <2>5. NoWorse(before, after)
    <3>1. /\ before.pfm = 1000 - 10 * 50 /\ after.pfm = 1000 - 10 * now.risk
          /\ before.ecm = after.ecm /\ before.pan = after.pan /\ before.sda = after.sda
      BY <1>7, <1>9, <2>3, SMT DEF ModuleScores
    <3>2. /\ {before.ecm, before.pfm, before.pan, before.sda} \subseteq Int
          /\ {after.ecm, after.pfm, after.pan, after.sda} \subseteq Int
      BY <1>6, <2>4, ScoresAreNumbers, Zenon
    <3> HIDE DEF before, after
    <3> QED
      BY <2>3, <3>1, <3>2, SMT DEF NoWorse
  <2>6. LoopDecides(pan, ecm, now, sda) = "APPROVE"
    <3> HIDE DEF pan, pfm, sda, ecm
    <3>1. Outcome(Aggregated(before, w), w, CriticalViolation(ecm), req.owner) = "APPROVE"
      BY <1>2, Zenon DEF LoopDecides
    <3> HIDE DEF w, before, after
    <3>2. Outcome(Aggregated(after, w), w, CriticalViolation(ecm), req.owner) = "APPROVE"
      <4>1. NoNewViolation(w, CriticalViolation(ecm), CriticalViolation(ecm))
        BY Zenon DEF NoNewViolation
      <4> QED
        BY <1>4, <2>5, <3>1, <4>1, BetterScoresStillApprove, ZenonT(40)
    <3> QED
      BY <3>2, Zenon DEF LoopDecides, w, after
  <2> QED
    BY <1>1, <1>9, <2>6, SeededInstead, Zenon DEF now
<1> QED
  BY <1>8, <1>9

(* A request approved although ECM or PFM raised is one the seeded row approves too,
   whatever rows the other modules were served: ECM's default of .5 passes only where
   nothing is enforced and no seeded row scores less, and PFM's default risk of 50 is
   more than any seeded row predicts. *)
THEOREM FailuresNeverHelp == Spec => []FailureNeverHelps
<1>1. IInv /\ Served => FailureNeverHelps
  BY FailureIsNoHelp, Zenon DEF FailureNeverHelps
<1>2. IInv /\ Served /\ [Next]_vars => (IInv /\ Served)'
  BY StepInv, ServedStep
<1> QED
  BY <1>1, <1>2, InitInv, ServedInitially, PTL DEF Spec

(***************************************************************************)
(* A text without its harm: the rules that go only lower a score, and of   *)
(* those that stay at most one applies to a framework they touch           *)
(***************************************************************************)
LEMMA RawOfNone ==
    ASSUME NEW base \in Int
    PROVE  Raw(base, {}) = base
<1>1. IsFiniteSet({}) /\ Percents({})
  BY FS_EmptySet DEF Percents
<1>2. PICK g : RawBy(g, base, {}) /\ Raw(base, {}) = g[{}]
  BY <1>1, RawUnfolds, ZenonT(40)
<1> QED
  BY <1>2 DEF RawBy

LEMMA RawOfJust ==
    ASSUME NEW base \in Int, NEW r, r.percent \in Int
    PROVE  Raw(base, {r}) = (base * r.percent) \div 100
<1>1. IsFiniteSet({r}) /\ Percents({r})
  BY FS_Singleton DEF Percents
<1>2. PICK g : RawBy(g, base, {r}) /\ Raw(base, {r}) = g[{r}]
  BY <1>1, RawUnfolds, ZenonT(40)
<1>3. PICK x \in {r} : g[{r}] = (g[{r} \ {x}] * x.percent) \div 100
  <2>1. {r} \in SUBSET {r} /\ {r} # {}
    OBVIOUS
  <2> QED
    BY <1>2, <2>1, Zenon DEF RawBy
<1>4. x = r /\ {r} \ {x} = {} /\ g[{}] = base
  BY <1>2 DEF RawBy
<1> QED
  BY <1>2, <1>3, <1>4

\* K stays of the rules A, at most one, and what goes only lowers the score.
Relieved(K, A) ==
    \/ K = A
    \/ /\ K \in SUBSET A
       /\ \E x : K \in SUBSET {x}
       /\ \A r \in A \ K : r.percent \in 0 .. 100

\* However the steps are rounded and in whatever order the rules apply.
LEMMA FewerLoweringRules ==
    ASSUME NEW A, IsFiniteSet(A), NEW base \in Nat, NEW K, Relieved(K, A),
           \A r \in A : r.percent \in Nat
    PROVE  Raw(base, A) \in Nat /\ Raw(base, K) \in Nat /\ Raw(base, A) <= Raw(base, K)
<1>1. Percents(A) /\ base \in Int
  BY DEF Percents
<1>2. PICK g : RawBy(g, base, A) /\ Raw(base, A) = g[A]
  BY <1>1, RawUnfolds, ZenonT(40)
<1> DEFINE Good1 == {s \in SUBSET A : g[s] \in Nat}
<1>3. \A s \in SUBSET A : s \in Good1
  <2>1. {} \in Good1
    BY <1>2 DEF RawBy
  <2>2. ASSUME NEW s \in SUBSET A, s # {}
        PROVE  \E x \in s : s \ {x} \in Good1 => s \in Good1
    <3>1. PICK r \in s : g[s] = (g[s \ {r}] * r.percent) \div 100
      <4> HIDE DEF Good1
      <4> QED
        BY <1>2, <2>2, Zenon DEF RawBy
    <3>2. ASSUME g[s \ {r}] \in Nat
          PROVE  g[s] \in Nat
      <4>1. r.percent \in Nat
        OBVIOUS
      <4>2. g[s \ {r}] * r.percent \in Nat
        BY <3>2, <4>1, ProductIsNat
      <4> QED
        BY <3>1, <4>2
    <3> QED
      BY <3>2
  <2> HIDE DEF Good1
  <2> QED
    BY <2>1, <2>2, InductionOverSubsets
<1>4. \A s \in SUBSET A : g[s] \in Nat
  BY <1>3
<1> HIDE DEF Good1
<1>5. CASE K = A
  BY <1>2, <1>4, <1>5
<1>6. CASE K # A
  <2>1. PICK x : K \in SUBSET {x}
    BY <1>6, Zenon DEF Relieved
  <2>2. K \in SUBSET A /\ \A r \in A \ K : r.percent \in 0 .. 100
    BY <1>6, Zenon DEF Relieved
  <2> DEFINE kept == Raw(base, K)
             Good == {s \in SUBSET A : IF s \cap K = {} THEN g[s] <= base ELSE g[s] <= kept}
  <2>3. /\ K = {} => kept = base
        /\ K # {} => K = {x} /\ x.percent \in Nat /\ kept = (base * x.percent) \div 100
    <3>1. K = {} \/ (K = {x} /\ x \in A)
      BY <2>1, <2>2
    <3>2. CASE K = {}
      BY <1>1, <3>2, RawOfNone
    <3>3. CASE K = {x} /\ x \in A
      <4>1. x.percent \in Nat /\ x.percent \in Int
        BY <3>3
      <4> QED
        BY <1>1, <3>3, <4>1, RawOfJust
    <3> QED
      BY <3>1, <3>2, <3>3
  <2>4. kept \in Nat
    <3> HIDE DEF kept
    <3>1. CASE K = {}
      BY <2>3, <3>1
    <3>2. CASE K # {}
      <4>1. base * x.percent \in Nat
        BY <2>3, <3>2, ProductIsNat
      <4> QED
        BY <2>3, <3>2, <4>1
    <3> QED
      BY <3>1, <3>2
  <2> HIDE DEF kept
  <2>5. {} \in Good
    BY <1>2 DEF RawBy
  <2>6. ASSUME NEW s \in SUBSET A, s # {}
        PROVE  \E r \in s : s \ {r} \in Good => s \in Good
    <3>1. PICK r \in s : g[s] = (g[s \ {r}] * r.percent) \div 100
      <4> HIDE DEF Good
      <4> QED
        BY <1>2, <2>6, Zenon DEF RawBy
    <3>2. PICK v, p : v = g[s \ {r}] /\ p = r.percent /\ v \in Nat /\ p \in Nat /\ g[s] = (v * p) \div 100
      BY <1>4, <3>1
    <3>3. ASSUME s \ {r} \in Good
          PROVE  s \in Good
      <4>1. CASE r \in K
        <5>1. K = {x} /\ r = x /\ (s \ {r}) \cap K = {} /\ s \cap K # {}
          BY <2>1, <4>1
        <5>2. v <= base /\ kept = (base * p) \div 100
          BY <2>3, <3>2, <3>3, <5>1
        <5>3. (v * p) \div 100 <= (base * p) \div 100
          <6>1. v * p \in Nat /\ base * p \in Nat /\ v * p <= base * p
            BY <3>2, <5>2, ProductIsMonotone, ProductIsNat
          <6> HIDE DEF Good
          <6> QED
            BY <6>1
        <5> QED
          BY <3>2, <5>1, <5>2, <5>3
      <4>2. CASE r \notin K
        <5>1. p \in 0 .. 100
          BY <2>2, <3>2, <4>2
        <5>2. (v * p) \div 100 <= v
          <6>1. v * p \in Nat /\ v * p <= v * 100
            BY <3>2, <5>1
          <6> HIDE DEF Good
          <6> QED
            BY <3>2, <6>1
        <5>3. (s \ {r}) \cap K = s \cap K
          BY <4>2
        <5>4. g[s] <= v /\ g[s] \in Nat
          BY <1>4, <3>2, <5>2
        <5>5. IF s \cap K = {} THEN v <= base ELSE v <= kept
          BY <3>2, <3>3, <5>3
        <5>6. IF s \cap K = {} THEN g[s] <= base ELSE g[s] <= kept
          <6> HIDE DEF Good
          <6> QED
            BY <2>4, <3>2, <5>4, <5>5
        <5> QED
          BY <5>6
      <4> QED
        BY <4>1, <4>2
    <3> QED
      BY <3>3
  <2>7. \A s \in SUBSET A : s \in Good
    <3> HIDE DEF Good
    <3> QED
      BY <2>5, <2>6, InductionOverSubsets
  <2>8. A \cap K = K /\ A \in Good
    BY <2>2, <2>7
  <2> QED
    BY <1>2, <1>4, <2>3, <2>4, <2>8 DEF kept
<1> QED
  BY <1>5, <1>6

\* A text that is less harmful.
Milder(after, before) ==
    \/ after = before \ BiasTerms
    \/ after = before \ PiiTerms
    \/ after = before \cup {"masked"}

Harmful == BiasTerms \cup PiiTerms \cup {"PII", "EXPOSED"}

\* What the rules look for, as far as the harmful terms are concerned.
LEMMA RulesOnHarm ==
    ASSUME NEW r \in Rules
    PROVE  /\ r.percent \in Nat
           /\ "masked" \notin r.terms
           /\ r.terms \cap Harmful # {} =>
                 r.percent \in 0 .. 100 /\ r.framework \in {"fairness", "privacy"}
           /\ r.framework = "fairness" =>
                 r = Rule("fairness", {"RETAIL"}, {"customer"}, 101) \/ r.terms \subseteq BiasTerms
           /\ r.framework = "privacy" =>
                 \/ r = Rule("privacy", Areas, {"EXPOSED"}, 90)
                 \/ r = Rule("privacy", {"RETAIL"}, {"PII"}, 98)
                 \/ r = Rule("privacy", {"LEGAL"}, {"confidential"}, 102)
BY SMTT(60) DEF Rules, Rule, Harmful, BiasTerms, PiiTerms

\* Nothing is found that was not, save "masked", and nothing is lost but harm.
LEMMA MilderIsSeen ==
    ASSUME NEW before, NEW after, Milder(after, before)
    PROVE  /\ Seen(after) \subseteq Seen(before) \cup {"masked"}
           /\ Seen(before) \subseteq Seen(after) \cup Harmful
           /\ Seen(after) \cap BiasTerms = {} \/ BiasTerms \cap Seen(before) \subseteq Seen(after)
<1>1. CASE after = before \ BiasTerms
  BY <1>1, SMT DEF Seen, Harmful, BiasTerms, PiiTerms, ProtectionTerms
<1>2. CASE after = before \ PiiTerms
  BY <1>2, SMT DEF Seen, Harmful, BiasTerms, PiiTerms, ProtectionTerms
<1>3. CASE after = before \cup {"masked"}
  BY <1>3, SMT DEF Seen, Harmful, BiasTerms, PiiTerms, ProtectionTerms
<1> QED
  BY <1>1, <1>2, <1>3, Zenon DEF Milder

LEMMA MilderIsRelieved ==
    ASSUME NEW framework, NEW area, NEW before, NEW after, Milder(after, before)
    PROVE  Relieved(Applied(framework, area, after), Applied(framework, area, before))
<1> DEFINE A == Applied(framework, area, before)
           K == Applied(framework, area, after)
           Exposed == Rule("privacy", Areas, {"EXPOSED"}, 90)
           Pii == Rule("privacy", {"RETAIL"}, {"PII"}, 98)
           Confidential == Rule("privacy", {"LEGAL"}, {"confidential"}, 102)
           Customer == Rule("fairness", {"RETAIL"}, {"customer"}, 101)
<1>1. K \in SUBSET A
  <2> SUFFICES ASSUME NEW r \in K PROVE r \in A
    OBVIOUS
  <2>1. r \in Rules /\ r.framework = framework /\ area \in r.areas /\ r.terms \cap Seen(after) # {}
    BY Zenon DEF Applied
  <2>2. PICK t : t \in r.terms /\ t \in Seen(after)
    BY <2>1
  <2>3. t # "masked"
    BY <2>1, <2>2, RulesOnHarm
  <2>4. t \in Seen(before)
    BY <2>2, <2>3, MilderIsSeen
  <2> QED
    BY <2>1, <2>2, <2>4 DEF Applied
<1>2. ASSUME NEW r \in A \ K
      PROVE  /\ r \in Rules /\ r.framework = framework /\ area \in r.areas
             /\ r.terms \cap Seen(before) # {} /\ r.terms \cap Seen(after) = {}
             /\ r.terms \cap Harmful # {}
  <2>1. /\ r \in Rules /\ r.framework = framework /\ area \in r.areas
        /\ r.terms \cap Seen(before) # {} /\ r.terms \cap Seen(after) = {}
    BY Zenon DEF Applied
  <2> QED
    BY <2>1, MilderIsSeen
<1>3. \A r \in A \ K : r.percent \in 0 .. 100 /\ r.framework \in {"fairness", "privacy"}
  BY <1>2, RulesOnHarm
<1>4. ASSUME NEW gone \in A \ K, framework = "fairness"
      PROVE  K \in SUBSET {Customer}
  <2>1. gone.terms \subseteq BiasTerms
    <3>1. gone = Customer \/ gone.terms \subseteq BiasTerms
      BY <1>2, <1>4, RulesOnHarm
    <3>2. Customer.terms \cap Harmful = {}
      BY SMT DEF Rule, Harmful, BiasTerms, PiiTerms
    <3> HIDE DEF Customer
    <3> QED
      BY <1>2, <3>1, <3>2
  <2>2. Seen(after) \cap BiasTerms = {}
    BY <1>2, <2>1, MilderIsSeen
  <2>3. ASSUME NEW r \in K
        PROVE  r = Customer
    <3>1. r \in Rules /\ r.framework = "fairness" /\ r.terms \cap Seen(after) # {}
      BY <1>4, Zenon DEF Applied
    <3> HIDE DEF K, A
    <3> QED
      BY <2>2, <3>1, RulesOnHarm
  <2> HIDE DEF K, Customer
  <2> QED
    BY <2>3
<1>5. ASSUME NEW gone \in A \ K, framework = "privacy"
      PROVE  K \in SUBSET {Exposed} \/ K \in SUBSET {Pii} \/ K \in SUBSET {Confidential}
  <2>1. \A r \in A : r \in {Exposed, Pii, Confidential} /\ area \in r.areas
    BY <1>5, RulesOnHarm DEF Applied
  <2>2. gone \in {Exposed, Pii}
    <3>1. Confidential.terms \cap Harmful = {}
      BY SMT DEF Rule, Harmful, BiasTerms, PiiTerms
    <3> HIDE DEF K, A, Exposed, Pii, Confidential
    <3> QED
      BY <1>2, <2>1, <3>1
  <2>3. Pii.areas = {"RETAIL"} /\ Confidential.areas = {"LEGAL"}
    BY SMT DEF Rule
  <2> HIDE DEF K, A, Exposed, Pii, Confidential
  <2> QED
    BY <1>1, <2>1, <2>2, <2>3
<1> HIDE DEF K, A
<1>6. CASE K = A
  BY <1>6, Zenon DEF Relieved, K, A
<1>7. CASE K # A
  <2>1. PICK gone : gone \in A \ K
    BY <1>1, <1>7
  <2>2. framework \in {"fairness", "privacy"}
    BY <1>2, <1>3, <2>1
  <2> HIDE DEF Exposed, Pii, Confidential, Customer
  <2>3. \E x : K \in SUBSET {x}
    BY <1>4, <1>5, <2>1, <2>2, Zenon
  <2>4. Relieved(K, A)
    BY <1>1, <1>3, <2>3, Zenon DEF Relieved
  <2> QED
    BY <2>4, Zenon DEF K, A
<1> QED
  BY <1>6, <1>7

LEMMA MilderIsEvaluated ==
    ASSUME NEW framework, NEW baseline \in Nat, NEW area, NEW before, NEW after, Milder(after, before)
    PROVE  /\ Evaluated(framework, baseline, area, before) \in Nat
           /\ Evaluated(framework, baseline, area, after) \in Nat
           /\ Evaluated(framework, baseline, area, before) <= Evaluated(framework, baseline, area, after)
<1> DEFINE A == Applied(framework, area, before)
           K == Applied(framework, area, after)
           base == baseline * 10000
           low == Raw(base, A)
           high == Raw(base, K)
<1>1. base \in Nat
  BY SMT
<1>2. low \in Nat /\ high \in Nat /\ low <= high
  <2>1. IsFiniteSet(A) /\ Relieved(K, A)
    BY AppliedIsFinite, MilderIsRelieved, Zenon
  <2>2. \A r \in A : r.percent \in Nat
    BY RulesOnHarm, SMT DEF Applied
  <2> HIDE DEF A, K, base
  <2> QED
    BY <1>1, <2>1, <2>2, FewerLoweringRules, Zenon
<1>3. /\ Evaluated(framework, baseline, area, before) = Limited(framework, low)
      /\ Evaluated(framework, baseline, area, after) = Limited(framework, high)
  BY EvaluatedIsRaw, SMT
<1> HIDE DEF low, high
<1>4. Limited(framework, low) \in Nat /\ Limited(framework, high) \in Nat
      /\ Limited(framework, low) <= Limited(framework, high)
  <2>1. CASE framework = "fairness"
    BY <1>2, <2>1, SMT DEF Limited, AtLeast
  <2>2. CASE framework = "privacy"
    BY <1>2, <2>2, SMT DEF Limited
  <2>3. CASE framework \notin {"fairness", "privacy"}
    BY <1>2, <2>3, SMT DEF Limited, AtMost
  <2> QED
    BY <2>1, <2>2, <2>3, SMT
<1> QED
  BY <1>3, <1>4, SMT

LEMMA TotalIsMonotone ==
    ASSUME NEW D, IsFiniteSet(D), NEW f, \A x \in D : f[x] \in Int,
           NEW h, \A x \in D : h[x] \in Int, \A x \in D : f[x] <= h[x]
    PROVE  Total(f, D) <= Total(h, D)
<1>1. PICK g : TotalBy(g, f, D) /\ Total(f, D) = g[D]
  BY TotalUnfolds, ZenonT(40)
<1>2. PICK k : TotalBy(k, h, D) /\ Total(h, D) = k[D]
  BY TotalUnfolds, ZenonT(40)
<1> DEFINE Good == {s \in SUBSET D : g[s] \in Int /\ k[s] \in Int /\ g[s] <= k[s]}
<1>3. {} \in Good
  BY <1>1, <1>2 DEF TotalBy
<1>4. ASSUME NEW s \in SUBSET D, s # {}
      PROVE  \E x \in s : s \ {x} \in Good => s \in Good
  <2>1. PICK x \in s : x = First(s)
    <3> HIDE DEF Good
    <3> QED
      BY <1>1, <1>4, Zenon DEF TotalBy
  <2>2. g[s] = f[x] + g[s \ {x}] /\ k[s] = h[x] + k[s \ {x}]
    <3> HIDE DEF Good
    <3> QED
      BY <1>1, <1>2, <1>4, <2>1, Zenon DEF TotalBy
  <2>3. f[x] \in Int /\ h[x] \in Int /\ f[x] <= h[x]
    OBVIOUS
  <2>4. ASSUME g[s \ {x}] \in Int, k[s \ {x}] \in Int, g[s \ {x}] <= k[s \ {x}]
        PROVE  g[s] \in Int /\ k[s] \in Int /\ g[s] <= k[s]
    <3> HIDE DEF Good
    <3> QED
      BY <2>2, <2>3, <2>4
  <2> QED
    BY <2>4
<1> HIDE DEF Good
<1>5. \A s \in SUBSET D : s \in Good
  BY <1>3, <1>4, InductionOverSubsets
<1> QED
  BY <1>1, <1>2, <1>5 DEF Good

\* Each framework is evaluated no lower, the level costs no more and demands no more.
Milds(row, area, words, level, milder, lower) ==
    /\ row.multiplier[level] >= 0
    /\ row.multiplier[level] <= row.multiplier[lower]
    /\ row.threshold[lower] <= row.threshold[level]
    /\ \A f \in DOMAIN row.base :
          /\ Evaluated(f, row.base[f], area, words) \in Nat
          /\ Evaluated(f, row.base[f], area, milder) \in Nat
          /\ Evaluated(f, row.base[f], area, words) <= Evaluated(f, row.base[f], area, milder)

NoWorseEcm(a, b) ==
    /\ ~a.failed /\ ~b.failed /\ a.score \in Int /\ b.score \in Int
    /\ a.score <= b.score /\ b.score <= 1000
    /\ b.critical => a.critical

LEMMA CriticalStays ==
    ASSUME NEW a, NEW b, NoWorseEcm(a, b)
    PROVE  ~a.failed /\ ~b.failed /\ (b.critical => a.critical)
BY SMT DEF NoWorseEcm

LEMMA ThousandsInOrder ==
    ASSUME NEW x \in Int, NEW y \in Int, x <= y, y <= 1000000
    PROVE  /\ Rounded(x, 1000) \in Int /\ Rounded(y, 1000) \in Int
           /\ Rounded(x, 1000) <= Rounded(y, 1000) /\ Rounded(y, 1000) <= 1000
<1> DEFINE u == 2 * x + 1000
           v == 2 * y + 1000
<1>1. u \in Int /\ v \in Int /\ u <= v /\ v <= 2001000
  OBVIOUS
<1>2. Rounded(x, 1000) = u \div 2000 /\ Rounded(y, 1000) = v \div 2000
  BY SMT DEF Rounded
<1> HIDE DEF u, v
<1>3. u \div 2000 \in Int /\ v \div 2000 \in Int /\ u \div 2000 <= v \div 2000
  BY <1>1, SMT
<1>4. v \div 2000 <= 1000
  BY <1>1, SMT
<1> QED
  BY <1>2, <1>3, <1>4, SMT

LEMMA MilderEcm ==
    ASSUME NEW row, NumericEcm(row), NEW before, NEW after, NEW area, NEW owner,
           NEW level \in Levels, NEW lower \in Levels,
           Milds(row, area, before.words, level, after.words, lower)
    PROVE  NoWorseEcm(EcmResult(row, before, area, level, owner),
                      EcmResult(row, after, area, lower, owner))
<1> DEFINE S == FrameworkScores(row, before, area, level)
           T == FrameworkScores(row, after, area, lower)
           a == EcmResult(row, before, area, level, owner)
           b == EcmResult(row, after, area, lower, owner)
           D == DOMAIN row.base
           n == Cardinality(D)
           extra == IF owner THEN row.bonus * 10000 ELSE 0
           bar == row.threshold[level] * 10000
           lowerBar == row.threshold[lower] * 10000
           one == AtMost(Total(S, D) \div n + extra, 1000000)
           two == AtMost(Total(T, D) \div n + extra, 1000000)
<1>1. /\ DOMAIN S = D /\ \A f \in D : S[f] \in Int
      /\ DOMAIN T = D /\ \A f \in D : T[f] \in Int
  BY FrameworkScoresAreNumbers, SMT
<1>2. ASSUME NEW f \in D
      PROVE  S[f] <= T[f]
  <2> DEFINE e == Evaluated(f, row.base[f], area, before.words)
             u == Evaluated(f, row.base[f], area, after.words)
             m == row.multiplier[level]
             k == row.multiplier[lower]
  <2>1. S[f] = AtMost((e * m) \div 100, 1000000) /\ T[f] = AtMost((u * k) \div 100, 1000000)
    BY SMT DEF FrameworkScores
  <2>2. e \in Nat /\ u \in Nat /\ e <= u /\ m >= 0 /\ m <= k
    BY SMT DEF Milds
  <2>3. m \in Int /\ k \in Int
    BY SMT DEF NumericEcm
  <2> HIDE DEF e, u, m, k, S, T
  <2>4. e * m \in Int /\ u * k \in Int /\ e * m <= u * k
    <3>1. m \in Nat /\ k \in Nat
      BY <2>2, <2>3, SMT
    <3>2. e * m <= u * m /\ m * u <= k * u
      BY <2>2, <3>1, ProductIsMonotone
    <3>3. m * u = u * m /\ k * u = u * k /\ e * m \in Int /\ u * k \in Int /\ u * m \in Int
      BY <2>2, <3>1, SMT
    <3> QED
      BY <3>2, <3>3, SMT
  <2>5. (e * m) \div 100 <= (u * k) \div 100 /\ (e * m) \div 100 \in Int /\ (u * k) \div 100 \in Int
    BY <2>4, SMT
  <2> QED
    BY <2>1, <2>5, SMT DEF AtMost
<1>3. n \in Nat /\ n > 0 /\ IsFiniteSet(D)
  <2>1. IsFiniteSet(D) /\ D # {}
    BY SMT DEF NumericEcm
  <2> HIDE DEF D
  <2>2. n \in Nat /\ n # 0
    BY <2>1, FS_CardinalityType, FS_EmptySet, SMT
  <2> HIDE DEF n
  <2> QED
    BY <2>1, <2>2, SMT
<1>4. Total(S, D) \in Int /\ Total(T, D) \in Int /\ Total(S, D) <= Total(T, D)
  <2>1. 0 \in Int
    OBVIOUS
  <2> HIDE DEF S, T, D
  <2> QED
    BY <1>1, <1>2, <1>3, <2>1, TotalIsMonotone, TotalIsAtLeast, SMT
<1>5. extra \in Int
  <2>1. row.bonus \in Int
    BY SMT DEF NumericEcm
  <2> QED
    BY <2>1, SMT
<1>6. /\ a.failed = FALSE /\ a.score = Rounded(one, 1000)
      /\ b.failed = FALSE /\ b.score = Rounded(two, 1000)
  BY <1>1, SMT DEF EcmResult, Total, MapThenSumSet, MapThenFoldSet
<1>11. /\ a.critical = \E f \in row.critical \cap D : S[f] < bar
       /\ b.critical = \E f \in row.critical \cap D : T[f] < lowerBar
  BY <1>1, SMT DEF EcmResult, Total, MapThenSumSet, MapThenFoldSet
<1>7. lowerBar \in Int /\ bar \in Int /\ lowerBar <= bar
  <2>1. row.threshold[lower] \in Int /\ row.threshold[level] \in Int
    BY SMT DEF NumericEcm
  <2> QED
    BY <2>1, SMT DEF Milds
<1> HIDE DEF S, T, D, n, extra, a, b, bar, lowerBar
<1>8. Rounded(one, 1000) \in Int /\ Rounded(two, 1000) \in Int
      /\ Rounded(one, 1000) <= Rounded(two, 1000) /\ Rounded(two, 1000) <= 1000
  <2> DEFINE x == Total(S, D) \div n
             y == Total(T, D) \div n
  <2>1. x \in Int /\ y \in Int /\ x <= y
    BY <1>3, <1>4, SMT
  <2> HIDE DEF x, y
  <2>2. one \in Int /\ two \in Int /\ one <= two /\ two <= 1000000
    BY <1>5, <2>1, SMT DEF AtMost, x, y
  <2> HIDE DEF one, two
  <2> QED
    BY <2>2, ThousandsInOrder
<1> HIDE DEF one, two
<1>9. b.critical => a.critical
  <2> SUFFICES ASSUME b.critical PROVE a.critical
    OBVIOUS
  <2>1. PICK f \in row.critical \cap D : T[f] < lowerBar
    BY <1>11, Zenon
  <2>2. S[f] < bar
    BY <1>1, <1>2, <1>7, <2>1, SMT
  <2>3. \E g \in row.critical \cap D : S[g] < bar
    BY <2>2
  <2> QED
    BY <1>11, <2>3
<1>10. NoWorseEcm(a, b)
  BY <1>6, <1>8, <1>9, SMT DEF NoWorseEcm
<1> QED
  BY <1>10, Zenon DEF a, b

LEMMA SynonymsAreHarmless ==
    ASSUME NEW area, NEW factor
    PROVE  Synonyms(area, factor) \cap (BiasTerms \cup PiiTerms) = {}
BY SMTT(60) DEF Synonyms, BiasTerms, PiiTerms

LEMMA MilderFactors ==
    ASSUME NEW factors, IsFiniteSet(factors), factors \cap (PiiTerms \cup BiasTerms) = {},
           NEW area, NEW before, NEW after, Milder(after, before)
    PROVE  /\ FactorsTenths(factors, area, before) \in 7 .. 10
           /\ FactorsTenths(factors, area, after) \in 7 .. 10
           /\ FactorsTenths(factors, area, after) <= FactorsTenths(factors, area, before)
<1> DEFINE With(words) == {f \in factors : ({f} \cup Synonyms(area, f)) \cap words # {}}
           total == Cardinality(factors)
           n == Cardinality(With(before))
           m == Cardinality(With(after))
           Tenths(found) == IF total = 0 THEN 8
                            ELSE IF found = total THEN 7
                            ELSE IF 4 * found >= 3 * total THEN 8
                            ELSE IF 2 * found >= total THEN 9
                            ELSE 10
<1>1. With(before) \in SUBSET With(after)
  <2> SUFFICES ASSUME NEW f \in With(before) PROVE f \in With(after)
    OBVIOUS
  <2>1. PICK t \in {f} \cup Synonyms(area, f) : t \in before
    OBVIOUS
  <2>2. t \notin BiasTerms \cup PiiTerms
    BY SynonymsAreHarmless
  <2>3. t \in after
    BY <2>1, <2>2 DEF Milder
  <2> QED
    BY <2>1, <2>3
<1>2. With(after) \in SUBSET factors
  OBVIOUS
<1>3. FactorsTenths(factors, area, before) = Tenths(n) /\ FactorsTenths(factors, area, after) = Tenths(m)
  BY SMT DEF FactorsTenths
<1> HIDE DEF With
<1>4. n \in Nat /\ m \in Nat /\ total \in Nat /\ n <= m /\ m <= total
  <2>1. IsFiniteSet(With(after)) /\ m <= total
    BY <1>2, FS_Subset
  <2>2. IsFiniteSet(With(before)) /\ n <= m
    BY <1>1, <2>1, FS_Subset
  <2> QED
    BY <2>1, <2>2, FS_CardinalityType
<1> HIDE DEF n, m, total
<1> QED
  BY <1>3, <1>4

LEMMA MilderRisk ==
    ASSUME NEW row, row.risk \in Nat, row.multiplier \in Nat, row.multiplier >= 15,
           IsFiniteSet(row.factors), row.factors \cap (PiiTerms \cup BiasTerms) = {},
           NEW area, NEW level, NEW before, NEW after, Milder(after.words, before.words)
    PROVE  RiskScore(row, after, area, level) <= RiskScore(row, before, area, level)
<1> DEFINE percent == CASE level = "HIGH"   -> row.multiplier
                        [] level = "MEDIUM" -> row.multiplier - 15
                        [] OTHER            -> 100
           x == FactorsTenths(row.factors, area, before.words)
           y == FactorsTenths(row.factors, area, after.words)
           product == row.risk * percent
<1>1. percent \in Nat
  <2>1. row.multiplier - 15 \in Nat /\ 100 \in Nat
    OBVIOUS
  <2> QED
    BY <2>1, Zenon
<1>2. x \in Nat /\ y \in Nat /\ y <= x
  <2>1. x \in 7 .. 10 /\ y \in 7 .. 10 /\ y <= x
    BY MilderFactors
  <2> HIDE DEF x, y
  <2> QED
    BY <2>1
<1>3. /\ RiskScore(row, before, area, level) = AtMost((product * x) \div 1000, 100)
      /\ RiskScore(row, after, area, level) = AtMost((product * y) \div 1000, 100)
  BY SMT DEF RiskScore
<1> HIDE DEF percent, x, y
<1>4. product \in Nat
  BY <1>1, ProductIsNat
<1> HIDE DEF product
<1>5. product * x \in Nat /\ product * y \in Nat /\ product * y <= product * x
  <2>1. y * product <= x * product
    BY <1>2, <1>4, ProductIsMonotone
  <2>2. y * product = product * y /\ x * product = product * x
    BY <1>2, <1>4
  <2> QED
    BY <1>2, <1>4, <2>1, <2>2, ProductIsNat
<1> DEFINE u == product * x
           v == product * y
<1> HIDE DEF u, v
<1>6. u \in Nat /\ v \in Nat /\ v <= u
  BY <1>5 DEF u, v
<1>7. u \div 1000 \in Int /\ v \div 1000 \in Int /\ v \div 1000 <= u \div 1000
  BY <1>6
<1> QED
  BY <1>3, <1>7, SMT DEF AtMost, u, v

(***************************************************************************)
(* A row ECM is served, from level to level                                *)
(***************************************************************************)

\* No level multiplies by less than a higher one, or demands more.
LevelsInOrder(row) ==
    /\ row.multiplier["HIGH"] <= row.multiplier["MEDIUM"]
    /\ row.multiplier["MEDIUM"] <= row.multiplier["LOW"]
    /\ row.threshold["LOW"] <= row.threshold["MEDIUM"]
    /\ row.threshold["MEDIUM"] <= row.threshold["HIGH"]

NonNegative(row) ==
    /\ \A f \in DOMAIN row.base : row.base[f] \in Nat
    /\ \A l \in Levels : row.multiplier[l] \in Nat

LEMMA SeededEcmIsNonNegative ==
    ASSUME NEW row, row \in {SeedEcm[area] : area \in Areas} \cup {FallbackEcm}
    PROVE  NonNegative(row) /\ LevelsInOrder(row)
<1>1. row.base \in [Frameworks -> Nat]
  BY SeededBaselines
<1>2. (\A l \in Levels : row.multiplier[l] \in Nat) /\ LevelsInOrder(row)
  BY DEF SeedEcm, FallbackEcm, Areas, Levels, ByLevel, LevelsInOrder
<1> QED
  BY <1>1, <1>2 DEF NonNegative

\* Of the levels LOW, MEDIUM and HIGH.
NoHigher(lower, level) == lower = level \/ lower = "LOW" \/ level = "HIGH"

LEMMA MilderTextMilds ==
    ASSUME NEW row, NonNegative(row), NumericEcm(row), NEW area, NEW before, NEW after,
           Milder(after, before), NEW level \in Levels, NEW lower \in Levels,
           lower = level \/ (LevelsInOrder(row) /\ NoHigher(lower, level))
    PROVE  Milds(row, area, before, level, after, lower)
<1>1. /\ \A l \in Levels : row.multiplier[l] \in Nat /\ row.threshold[l] \in Int
  BY DEF NonNegative, NumericEcm
<1>2. /\ row.multiplier[level] >= 0
      /\ row.multiplier[level] <= row.multiplier[lower]
      /\ row.threshold[lower] <= row.threshold[level]
  BY <1>1 DEF LevelsInOrder, NoHigher, Levels
<1>3. ASSUME NEW f \in DOMAIN row.base
      PROVE  /\ Evaluated(f, row.base[f], area, before) \in Nat
             /\ Evaluated(f, row.base[f], area, after) \in Nat
             /\ Evaluated(f, row.base[f], area, before) <= Evaluated(f, row.base[f], area, after)
  BY MilderIsEvaluated DEF NonNegative
<1> QED
  BY <1>2, <1>3 DEF Milds

(***************************************************************************)
(* The same request with less harm in it, module by module                 *)
(***************************************************************************)
\* q is r with a text that is less harmful, and any number of sensitive domains.
Eased(q, r) ==
    /\ q.area = r.area /\ q.owner = r.owner
    /\ q.data.fields = r.data.fields /\ q.data.filled = r.data.filled
    /\ q.data.entities = r.data.entities /\ q.data.excellent = r.data.excellent
    /\ Milder(q.data.words, r.data.words)

EasedEcm(a, b) == (a.failed /\ b.failed) \/ NoWorseEcm(a, b)

LEMMA EcmEased ==
    ASSUME NEW kind \in Kinds, kind = "Edited" => NonNegative(EditedEcm),
           NEW q, NEW r, r.area \in Areas, Eased(q, r),
           LevelOf(q) = LevelOf(r) \/ (kind = "Seeded" /\ NoHigher(LevelOf(q), LevelOf(r)))
    PROVE  EasedEcm(EcmModule(kind, r), EcmModule(kind, q))
<1>1. CASE kind = "Unusable"
  BY <1>1 DEF EasedEcm, EcmModule, Failure
<1>2. CASE kind # "Unusable"
  <2> DEFINE row == RowOf(kind, SeedEcm[r.area], FallbackEcm, EditedEcm)
             level == LevelOf(r)
             lower == LevelOf(q)
  <2>1. row \in {SeedEcm[r.area], FallbackEcm, EditedEcm}
        /\ (kind = "Seeded" => row = SeedEcm[r.area]) /\ (row = EditedEcm \/ row \in {SeedEcm[r.area], FallbackEcm})
        /\ (row \in {SeedEcm[r.area], FallbackEcm} \/ kind = "Edited")
    BY <1>2, Zenon DEF RowOf, Kinds
  <2>2. /\ EcmModule(kind, r) = EcmResult(row, r.data, r.area, level, r.owner)
        /\ EcmModule(kind, q) = EcmResult(row, q.data, r.area, lower, r.owner)
    BY <1>2, Zenon DEF EcmModule, Eased
  <2>3. level \in Levels /\ lower \in Levels
    BY LevelIsLevel DEF LevelOf
  <2> HIDE DEF row, level, lower
  <2>4. NumericEcm(row)
    <3>1. NumericEcm(EditedEcm)
      BY EditedEcmAssumption, Zenon DEF NumericEcm
    <3> QED
      BY <2>1, <3>1, SeededEcmIsNumeric
  <2>5. NonNegative(row) /\ (kind = "Seeded" => LevelsInOrder(row))
    BY <2>1, SeededEcmIsNonNegative
  <2>6. Milder(q.data.words, r.data.words)
    BY DEF Eased
  <2>7. lower = level \/ (LevelsInOrder(row) /\ NoHigher(lower, level))
    BY <2>5 DEF level, lower
  <2>8. Milds(row, r.area, r.data.words, level, q.data.words, lower)
    BY <2>3, <2>4, <2>5, <2>6, <2>7, MilderTextMilds, Zenon
  <2>9. NoWorseEcm(EcmResult(row, r.data, r.area, level, r.owner),
                   EcmResult(row, q.data, r.area, lower, r.owner))
    BY <2>3, <2>4, <2>8, MilderEcm, Zenon
  <2> QED
    BY <2>2, <2>9, Zenon DEF EasedEcm
<1> QED
  BY <1>1, <1>2

EasedPfm(a, b) == (a.failed /\ b.failed) \/ (~a.failed /\ ~b.failed /\ b.risk <= a.risk)

Unrewarding(row) == row.factors \cap (PiiTerms \cup BiasTerms) = {}

LEMMA PfmEased ==
    ASSUME NEW kind \in Kinds, kind = "Edited" => Unrewarding(EditedPfm),
           NEW q, NEW r, r.area \in Areas, Eased(q, r), LevelOf(q) = LevelOf(r)
    PROVE  EasedPfm(PfmResult(kind, r), PfmResult(kind, q))
<1>1. CASE kind = "Unusable"
  BY <1>1 DEF EasedPfm, PfmResult, Failure
<1>2. CASE kind # "Unusable"
  <2> DEFINE row == RowOf(kind, SeedPfm[r.area], FallbackPfm, EditedPfm)
             level == LevelOf(r)
             x == RiskScore(row, r.data, r.area, level)
             y == RiskScore(row, q.data, r.area, level)
  <2>1. row \in {SeedPfm[r.area], FallbackPfm} \/ (row = EditedPfm /\ kind = "Edited")
    BY <1>2, Zenon DEF RowOf, Kinds
  <2>2. PfmResult(kind, r) = [failed |-> FALSE, risk |-> x] /\ PfmResult(kind, q) = [failed |-> FALSE, risk |-> y]
    BY <1>2, Zenon DEF PfmResult, Eased
  <2> HIDE DEF row, level
  <2>3. row.risk \in Nat /\ row.multiplier \in Nat /\ row.multiplier >= 15
        /\ IsFiniteSet(row.factors) /\ Unrewarding(row)
    <3>1. ASSUME NEW p, p \in {SeedPfm[a] : a \in Areas} \cup {FallbackPfm}
          PROVE  p.factors = {} /\ p.risk \in Nat /\ p.multiplier \in Nat /\ p.multiplier >= 15
      BY <3>1 DEF SeedPfm, FallbackPfm, RiskModel, Areas
    <3>2. CASE row = EditedPfm /\ kind = "Edited"
      BY <3>2, EditedPfmAssumption
    <3>3. CASE row \in {SeedPfm[r.area], FallbackPfm}
      BY <3>1, <3>3, FS_EmptySet DEF Unrewarding
    <3> QED
      BY <2>1, <3>2, <3>3
  <2>4. y <= x
    <3>1. Milder(q.data.words, r.data.words)
      BY DEF Eased
    <3>2. row.factors \cap (PiiTerms \cup BiasTerms) = {}
      BY <2>3 DEF Unrewarding
    <3> QED
      BY <2>3, <3>1, <3>2, MilderRisk
  <2> HIDE DEF x, y
  <2> QED
    BY <2>2, <2>4 DEF EasedPfm
<1> QED
  BY <1>1, <1>2

LEMMA PanEased ==
    ASSUME NEW kind, NEW q, NEW r, Eased(q, r)
    PROVE  PanResult(kind, q) = PanResult(kind, r)
BY SMT DEF PanResult, PanScore, DataQuality, Eased

LEMMA SdaEased ==
    ASSUME NEW kind, NEW q, NEW r, Eased(q, r), LevelOf(q) = LevelOf(r)
    PROVE  SdaResult(kind, q) = SdaResult(kind, r)
BY SMT DEF SdaResult, Recommendations, Eased

ScoresOf(ks, q) ==
    ModuleScores(PanResult(ks["pan"], q), EcmModule(ks["ecm"], q),
                 PfmResult(ks["pfm"], q), SdaResult(ks["sda"], q))

ViolatesOn(ks, q) == CriticalViolation(EcmModule(ks["ecm"], q))

WeightsOf(q) == WeightingMatrix[q.area][LevelOf(q)]

ApprovedOn(ks, q) ==
    Outcome(Aggregated(ScoresOf(ks, q), WeightsOf(q)), WeightsOf(q), ViolatesOn(ks, q), q.owner)
        = "APPROVE"

LEMMA InsteadIsApproved ==
    ASSUME NEW ks, NEW q
    PROVE  Instead(ks, q) = "APPROVE" <=> ApprovedOn(ks, q)
<1> DEFINE r4 == [pan |-> PanResult(ks["pan"], q), ecm |-> EcmModule(ks["ecm"], q),
                  pfm |-> PfmResult(ks["pfm"], q), sda |-> SdaResult(ks["sda"], q)]
<1>1. Instead(ks, q) = Decision(r4, NoOverride, q)
  BY Zenon DEF Instead
<1>2. /\ r4.pan = PanResult(ks["pan"], q) /\ r4.ecm = EcmModule(ks["ecm"], q)
      /\ r4.pfm = PfmResult(ks["pfm"], q) /\ r4.sda = SdaResult(ks["sda"], q)
  BY Zenon
<1> HIDE DEF r4
<1>3. WeightsFor(NoOverride, q) = WeightsOf(q)
  BY Zenon DEF WeightsFor, WeightsOf
<1>4. Decision(r4, NoOverride, q)
        = Outcome(Aggregated(ScoresOf(ks, q), WeightsOf(q)), WeightsOf(q), ViolatesOn(ks, q), q.owner)
  BY <1>2, <1>3, Zenon DEF Decision, ScoresOf, ViolatesOn
<1> QED
  BY <1>1, <1>4, Zenon DEF ApprovedOn

LEMMA ApprovedIsApprovedOn ==
    ASSUME IInv, Served, Approved
    PROVE  ApprovedOn(kinds, req)
<1>1. Decided /\ override = NoOverride /\ outcome = "APPROVE"
  BY DEF Approved, Decided
<1>2. /\ res["pan"] = PanResult(kinds["pan"], req)
      /\ res["ecm"] = EcmModule(kinds["ecm"], req)
      /\ res["pfm"] = PfmResult(kinds["pfm"], req)
      /\ res["sda"] = SdaResult(kinds["sda"], req)
  BY <1>1 DEF Served, HasRun, ResultOf, Modules
<1>3. Decision(res, NoOverride, req) = "APPROVE"
  BY <1>1, Zenon DEF IInv, OutcomeOK
<1>4. WeightsFor(NoOverride, req) = WeightsOf(req)
  BY Zenon DEF WeightsFor, WeightsOf
<1> QED
  BY <1>2, <1>3, <1>4, Zenon DEF Decision, ApprovedOn, ScoresOf, ViolatesOn

Decidable(q) == q.area \in Areas /\ q.data.fields \in Nat /\ q.data.filled \in Nat

LEMMA ScoresOfAreNumbers ==
    ASSUME NEW ks \in [Modules -> Kinds], NEW q, Decidable(q)
    PROVE  LET s == ScoresOf(ks, q) IN {s.ecm, s.pfm, s.pan, s.sda} \subseteq Int
<1>1. ks["ecm"] \in Kinds /\ ks["pfm"] \in Kinds
  BY DEF Modules
<1>2. /\ PanOK(PanResult(ks["pan"], q)) /\ EcmOK(EcmModule(ks["ecm"], q))
      /\ PfmOK(PfmResult(ks["pfm"], q)) /\ SdaOK(SdaResult(ks["sda"], q))
  BY <1>1, PanReturns, EcmModuleReturns, PfmReturns, SdaReturns DEF Decidable
<1> QED
  BY <1>2, ScoresAreNumbers, Zenon DEF ScoresOf

SensibleRows(ks) ==
    /\ ks["ecm"] = "Edited" => NonNegative(EditedEcm)
    /\ ks["pfm"] = "Edited" => Unrewarding(EditedPfm)

LEMMA FieldsOfScores ==
    ASSUME NEW pan, NEW ecm, NEW pfm, NEW sda
    PROVE  /\ ModuleScores(pan, ecm, pfm, sda).pan = (IF pan.failed THEN 500 ELSE pan.score)
           /\ ModuleScores(pan, ecm, pfm, sda).ecm = (IF ecm.failed THEN 500 ELSE ecm.score)
           /\ ModuleScores(pan, ecm, pfm, sda).pfm
                 = 1000 - 10 * (IF pfm.failed THEN 50 ELSE pfm.risk)
           /\ ModuleScores(pan, ecm, pfm, sda).sda
                 = AtLeast(1000 - 700 * (IF sda.failed THEN 0 ELSE sda.count), 0)
BY SMT DEF ModuleScores

\* At one level a text that is less harmful scores no lower in any module.
LEMMA EasedScores ==
    ASSUME NEW ks \in [Modules -> Kinds], SensibleRows(ks), NEW q, NEW r, Decidable(r), Eased(q, r),
           LevelOf(q) = LevelOf(r)
    PROVE  /\ NoWorse(ScoresOf(ks, r), ScoresOf(ks, q))
           /\ ViolatesOn(ks, q) => ViolatesOn(ks, r)
<1> DEFINE e == EcmModule(ks["ecm"], r)
           f == EcmModule(ks["ecm"], q)
           u == PfmResult(ks["pfm"], r)
           v == PfmResult(ks["pfm"], q)
           p == PanResult(ks["pan"], r)
           d == SdaResult(ks["sda"], r)
           s == ScoresOf(ks, r)
           t == ScoresOf(ks, q)
<1>1. ks["ecm"] \in Kinds /\ ks["pfm"] \in Kinds /\ r.area \in Areas
  BY DEF Modules, Decidable
<1>2. EasedEcm(e, f)
  BY <1>1, EcmEased DEF SensibleRows
<1>3. EasedPfm(u, v)
  BY <1>1, PfmEased DEF SensibleRows
<1>4. s = ModuleScores(p, e, u, d) /\ t = ModuleScores(p, f, v, d)
  BY PanEased, SdaEased, Zenon DEF ScoresOf
<1>5. {s.ecm, s.pfm, s.pan, s.sda} \subseteq Int /\ {t.ecm, t.pfm, t.pan, t.sda} \subseteq Int
  <2>1. Decidable(q)
    BY DEF Decidable, Eased
  <2> QED
    BY <2>1, ScoresOfAreNumbers, Zenon
<1>6. PfmOK(u) /\ PfmOK(v)
  BY <1>1, PfmReturns DEF Eased
<1>7. (ViolatesOn(ks, q) <=> CriticalViolation(f)) /\ (ViolatesOn(ks, r) <=> CriticalViolation(e))
  BY Zenon DEF ViolatesOn
<1> HIDE DEF e, f, u, v, p, d, s, t
<1>8. s.pan = t.pan /\ s.sda = t.sda
  BY <1>4, FieldsOfScores
<1>9. s.ecm <= t.ecm /\ (CriticalViolation(f) => CriticalViolation(e))
  <2>1. s.ecm = (IF e.failed THEN 500 ELSE e.score) /\ t.ecm = (IF f.failed THEN 500 ELSE f.score)
    BY <1>4, FieldsOfScores
  <2>2. s.ecm <= t.ecm
    BY <1>2, <1>5, <2>1, SMT DEF EasedEcm, NoWorseEcm
  <2>3. CriticalViolation(f) => CriticalViolation(e)
    BY <1>2, CriticalStays, Zenon DEF EasedEcm, CriticalViolation
  <2> QED
    BY <2>2, <2>3
<1>10. s.pfm <= t.pfm
  <2>1. /\ s.pfm = 1000 - 10 * (IF u.failed THEN 50 ELSE u.risk)
        /\ t.pfm = 1000 - 10 * (IF v.failed THEN 50 ELSE v.risk)
    BY <1>4, FieldsOfScores
  <2>2. CASE u.failed /\ v.failed
    BY <2>1, <2>2
  <2>3. CASE ~u.failed /\ ~v.failed /\ v.risk <= u.risk
    <3>1. u.risk \in Int /\ v.risk \in Int
      BY <1>6, <2>3 DEF PfmOK
    <3>2. s.pfm = 1000 - 10 * u.risk /\ t.pfm = 1000 - 10 * v.risk
      BY <2>1, <2>3
    <3> QED
      BY <2>3, <3>1, <3>2
  <2> QED
    BY <1>3, <2>2, <2>3 DEF EasedPfm
<1>11. NoWorse(s, t)
  BY <1>5, <1>8, <1>9, <1>10, SMT DEF NoWorse
<1> QED
  BY <1>7, <1>9, <1>11, Zenon DEF s, t

LEMMA EasedIsApproved ==
    ASSUME NEW ks \in [Modules -> Kinds], SensibleRows(ks), NEW q, NEW r, Decidable(r), Eased(q, r),
           LevelOf(q) = LevelOf(r), ApprovedOn(ks, r)
    PROVE  ApprovedOn(ks, q)
<1> DEFINE w == WeightsOf(r)
           s == ScoresOf(ks, r)
           t == ScoresOf(ks, q)
<1>1. WeightsOf(q) = w /\ q.owner = r.owner
  BY Zenon DEF WeightsOf, Eased
<1>2. Numeric(w)
  <2>1. LevelOf(r) \in Levels /\ r.area \in Areas
    BY LevelIsLevel DEF LevelOf, Decidable
  <2> QED
    BY <2>1, WeightsAreNumbers, Zenon DEF WeightsOf
<1>3. NoWorse(s, t) /\ NoNewViolation(w, ViolatesOn(ks, r), ViolatesOn(ks, q))
  BY EasedScores, Zenon DEF NoNewViolation
<1>4. Outcome(Aggregated(s, w), w, ViolatesOn(ks, r), r.owner) = "APPROVE"
  BY Zenon DEF ApprovedOn
<1> HIDE DEF w, s, t
<1>5. Outcome(Aggregated(t, w), w, ViolatesOn(ks, q), r.owner) = "APPROVE"
  BY <1>2, <1>3, <1>4, BetterScoresStillApprove, ZenonT(40)
<1> QED
  BY <1>1, <1>5, Zenon DEF ApprovedOn, t

(***************************************************************************)
(* From a level to a lower one, on rows as seeded                          *)
(***************************************************************************)
Pass(w, ecm, pfm, pan, sda) ==
    ~w.review /\ ecm * w.ecm + pfm * w.pfm + pan * w.pan + sda * w.sda >= w.threshold * 1000

\* What the seeded PFM is worth in each area: it depends on the level alone.
PfmScores ==
    [BANKING    |-> ByLevel(680, 600, 560), LEGAL   |-> ByLevel(760, 740, 700),
     RETAIL     |-> ByLevel(840, 850, 830), AUDIT   |-> ByLevel(720, 680, 640),
     FINANCE    |-> ByLevel(700, 640, 590), HEALTHCARE |-> ByLevel(670, 570, 520),
     DEFAULT    |-> ByLevel(800, 790, 760)]

SdaScores(area) == IF area = "DEFAULT" THEN ByLevel(300, 300, 0) ELSE ByLevel(1000, 1000, 1000)

\* With seeded rows a request of the area passes at the level.
PassesAt(area, level, ecm, pan) ==
    Pass(WeightingMatrix[area][level], ecm, PfmScores[area][level], pan, SdaScores(area)[level])

LEMMA EightTenths ==
    ASSUME NEW area, NEW words
    PROVE  FactorsTenths({}, area, words) = 8
BY FS_EmptySet, SMT DEF FactorsTenths

\* The factors of every seeded row are {}: the risk depends on area and level only.
LEMMA SeededPfm ==
    ASSUME NEW q, q.area \in Areas
    PROVE  LET u == PfmResult("Seeded", q)
           IN  ~u.failed /\ 1000 - 10 * u.risk = PfmScores[q.area][LevelOf(q)]
<1> DEFINE level == LevelOf(q)
           row == SeedPfm[q.area]
           percent == CASE level = "HIGH"   -> row.multiplier
                        [] level = "MEDIUM" -> row.multiplier - 15
                        [] OTHER            -> 100
<1>1. level \in Levels
  BY LevelIsLevel DEF LevelOf
<1>2. PfmResult("Seeded", q) = [failed |-> FALSE, risk |-> RiskScore(row, q.data, q.area, level)]
  BY Zenon DEF PfmResult, RowOf
<1> HIDE DEF level
<1>3. row.factors = {}
  BY SMT DEF SeedPfm, RiskModel, FallbackPfm, Areas
<1>4. RiskScore(row, q.data, q.area, level) = AtMost((row.risk * percent * 8) \div 1000, 100)
  <2>1. FactorsTenths(row.factors, q.area, q.data.words) = 8
    BY <1>3, EightTenths
  <2> HIDE DEF row
  <2> QED
    BY <2>1, SMT DEF RiskScore
<1>5. 1000 - 10 * AtMost((row.risk * percent * 8) \div 1000, 100) = PfmScores[q.area][level]
  BY <1>1, SMT DEF SeedPfm, RiskModel, FallbackPfm, Areas, Levels, PfmScores, ByLevel, AtMost
<1> QED
  BY <1>2, <1>4, <1>5, SMT DEF level

\* SDA raises on a seeded row, which counts as no recommendation, but in DEFAULT.
LEMMA SeededSda ==
    ASSUME NEW q, q.area \in Areas
    PROVE  LET d == SdaResult("Seeded", q)
           IN  AtLeast(1000 - 700 * (IF d.failed THEN 0 ELSE d.count), 0)
                 = SdaScores(q.area)[LevelOf(q)]
<1>1. LevelOf(q) \in Levels
  BY LevelIsLevel DEF LevelOf
<1>2. SdaResult("Seeded", q)
        = IF SeedSda[q.area].requirements THEN Failure
          ELSE [failed |-> FALSE, count |-> Recommendations(SeedSda[q.area], q.data, LevelOf(q))]
  BY Zenon DEF SdaResult, RowOf, AdviceRaises
<1>3. CASE q.area = "DEFAULT"
  <2>1. SeedSda[q.area] = [requirements |-> FALSE, factors |-> FALSE]
    BY <1>3, SMT DEF SeedSda, FallbackSda, Areas
  <2> DEFINE n == Recommendations(SeedSda[q.area], q.data, LevelOf(q))
  <2>2. n = IF LevelOf(q) = "HIGH" THEN 2 ELSE 1
    BY <2>1, SMT DEF Recommendations, AtLeast
  <2>3. SdaResult("Seeded", q) = [failed |-> FALSE, count |-> n]
    <3>1. ~SeedSda[q.area].requirements
      BY <2>1
    <3> QED
      BY <1>2, <3>1, Zenon
  <2> HIDE DEF n
  <2> QED
    BY <1>1, <1>3, <2>2, <2>3, SMT DEF SdaScores, ByLevel, AtLeast, Levels
<1>4. CASE q.area # "DEFAULT"
  <2>1. SeedSda[q.area].requirements
    BY <1>4, SMT DEF SeedSda, Areas
  <2> QED
    BY <1>1, <1>2, <1>4, <2>1, SMT DEF SdaScores, ByLevel, AtLeast, Levels, Failure
<1> QED
  BY <1>3, <1>4

LEMMA SeededPan ==
    ASSUME NEW q, q.area \in Areas, q.data.fields \in Nat, q.data.filled \in Nat
    PROVE  LET p == PanResult("Seeded", q) IN ~p.failed /\ p.score \in 0 .. 990
<1>1. PanScore(SeedPan[q.area], q.data, q.area) \in 0 .. 990
  BY PanIsBounded
<1> DEFINE score == PanScore(SeedPan[q.area], q.data, q.area)
<1>2. PanResult("Seeded", q) = [failed |-> FALSE, score |-> score]
  BY Zenon DEF PanResult, RowOf
<1>3. score \in 0 .. 990
  BY <1>1
<1> HIDE DEF score
<1>4. ~PanResult("Seeded", q).failed /\ PanResult("Seeded", q).score = score
  BY <1>2, SMT
<1> QED
  BY <1>3, <1>4, SMT

\* Two scores of ECM, of which the second is no lower, next to a score of PAN.
Comparable(area, e, f, p) ==
    /\ e \in Int /\ f \in Int /\ e <= f /\ e <= 1000
    /\ p \in 0 .. 990 /\ (area \in {"RETAIL", "DEFAULT"} => p >= 400)

\* What a level asks for beyond the one below, in weight, risk and threshold, leaves no
\* request approved at the higher one alone.
LEMMA LowerLevelPasses ==
    ASSUME NEW area \in Areas, NEW level \in Levels, NEW lower \in Levels, NoHigher(lower, level),
           NEW e, NEW f, NEW p, Comparable(area, e, f, p), PassesAt(area, level, e, p)
    PROVE  PassesAt(area, lower, f, p)
<1> DEFINE Clears(l, x) == PassesAt(area, l, x, p)
<1>0. p \in Int
  BY DEF Comparable
<1>1. ASSUME area = "BANKING" PROVE Clears(level, e) => Clears(lower, f)
  <2>1. \A x \in Int : Clears("LOW", x) <=> 50 * x + 15 * p + 25400 >= 80000
    BY <1>0, <1>1, SMT DEF PassesAt, Pass, WeightingMatrix, PfmScores, SdaScores, ByLevel, Weighting
  <2>2. \A x \in Int : Clears("MEDIUM", x) <=> 55 * x + 7 * p + 24000 >= 85000
    BY <1>0, <1>1, SMT DEF PassesAt, Pass, WeightingMatrix, PfmScores, SdaScores, ByLevel, Weighting
  <2>3. \A x \in Int : ~Clears("HIGH", x)
    BY <1>0, <1>1, SMT DEF PassesAt, Pass, WeightingMatrix, PfmScores, SdaScores, ByLevel, Weighting
  <2> HIDE DEF Clears
  <2> QED
    BY <1>1, <2>1, <2>2, <2>3 DEF Levels, NoHigher, Comparable
<1>2. ASSUME area = "LEGAL" PROVE Clears(level, e) => Clears(lower, f)
  <2>1. \A x \in Int : Clears("LOW", x) <=> 60 * x + 15 * p + 20200 >= 82000
    BY <1>0, <1>2, SMT DEF PassesAt, Pass, WeightingMatrix, PfmScores, SdaScores, ByLevel, Weighting
  <2>2. \A x \in Int : Clears("MEDIUM", x) <=> 65 * x + 10 * p + 19800 >= 87000
    BY <1>0, <1>2, SMT DEF PassesAt, Pass, WeightingMatrix, PfmScores, SdaScores, ByLevel, Weighting
  <2>3. \A x \in Int : ~Clears("HIGH", x)
    BY <1>0, <1>2, SMT DEF PassesAt, Pass, WeightingMatrix, PfmScores, SdaScores, ByLevel, Weighting
  <2> HIDE DEF Clears
  <2> QED
    BY <1>2, <2>1, <2>2, <2>3 DEF Levels, NoHigher, Comparable
<1>3. ASSUME area = "RETAIL" PROVE Clears(level, e) => Clears(lower, f)
  <2>1. \A x \in Int : Clears("LOW", x) <=> 50 * x + 20 * p + 26000 >= 75000
    BY <1>0, <1>3, SMT DEF PassesAt, Pass, WeightingMatrix, PfmScores, SdaScores, ByLevel, Weighting
  <2>2. \A x \in Int : Clears("MEDIUM", x) <=> 55 * x + 10 * p + 30500 >= 80000
    BY <1>0, <1>3, SMT DEF PassesAt, Pass, WeightingMatrix, PfmScores, SdaScores, ByLevel, Weighting
  <2>3. \A x \in Int : Clears("HIGH", x) <=> 60 * x + 5 * p + 29900 >= 85000
    BY <1>0, <1>3, SMT DEF PassesAt, Pass, WeightingMatrix, PfmScores, SdaScores, ByLevel, Weighting
  <2> HIDE DEF Clears
  <2> QED
    BY <1>3, <2>1, <2>2, <2>3 DEF Levels, NoHigher, Comparable
<1>4. ASSUME area = "AUDIT" PROVE Clears(level, e) => Clears(lower, f)
  <2>1. \A x \in Int : Clears("LOW", x) <=> 40 * x + 25 * p + 26600 >= 80000
    BY <1>0, <1>4, SMT DEF PassesAt, Pass, WeightingMatrix, PfmScores, SdaScores, ByLevel, Weighting
  <2>2. \A x \in Int : Clears("MEDIUM", x) <=> 50 * x + 10 * p + 28800 >= 85000
    BY <1>0, <1>4, SMT DEF PassesAt, Pass, WeightingMatrix, PfmScores, SdaScores, ByLevel, Weighting
  <2>3. \A x \in Int : ~Clears("HIGH", x)
    BY <1>0, <1>4, SMT DEF PassesAt, Pass, WeightingMatrix, PfmScores, SdaScores, ByLevel, Weighting
  <2> HIDE DEF Clears
  <2> QED
    BY <1>4, <2>1, <2>2, <2>3 DEF Levels, NoHigher, Comparable
<1>5. ASSUME area = "FINANCE" PROVE Clears(level, e) => Clears(lower, f)
  <2>1. \A x \in Int : Clears("LOW", x) <=> 45 * x + 10 * p + 33000 >= 82000
    BY <1>0, <1>5, SMT DEF PassesAt, Pass, WeightingMatrix, PfmScores, SdaScores, ByLevel, Weighting
  <2>2. \A x \in Int : Clears("MEDIUM", x) <=> 50 * x + 3 * p + 30800 >= 88000
    BY <1>0, <1>5, SMT DEF PassesAt, Pass, WeightingMatrix, PfmScores, SdaScores, ByLevel, Weighting
  <2>3. \A x \in Int : ~Clears("HIGH", x)
    BY <1>0, <1>5, SMT DEF PassesAt, Pass, WeightingMatrix, PfmScores, SdaScores, ByLevel, Weighting
  <2> HIDE DEF Clears
  <2> QED
    BY <1>5, <2>1, <2>2, <2>3 DEF Levels, NoHigher, Comparable
<1>6. ASSUME area = "HEALTHCARE" PROVE Clears(level, e) => Clears(lower, f)
  <2>1. \A x \in Int : Clears("LOW", x) <=> 40 * x + 20 * p + 28450 >= 70000
    BY <1>0, <1>6, SMT DEF PassesAt, Pass, WeightingMatrix, DefaultWeights, PfmScores,
                          SdaScores, ByLevel, Weighting
  <2>2. \A x \in Int : Clears("MEDIUM", x) <=> 45 * x + 10 * p + 27800 >= 75000
    BY <1>0, <1>6, SMT DEF PassesAt, Pass, WeightingMatrix, DefaultWeights, PfmScores,
                          SdaScores, ByLevel, Weighting
  <2>3. \A x \in Int : Clears("HIGH", x) <=> 50 * x + 5 * p + 25800 >= 80000
    BY <1>0, <1>6, SMT DEF PassesAt, Pass, WeightingMatrix, DefaultWeights, PfmScores,
                          SdaScores, ByLevel, Weighting
  <2> HIDE DEF Clears
  <2> QED
    BY <1>6, <2>1, <2>2, <2>3 DEF Levels, NoHigher, Comparable
<1>7. ASSUME area = "DEFAULT" PROVE Clears(level, e) => Clears(lower, f)
  <2>1. \A x \in Int : Clears("LOW", x) <=> 40 * x + 20 * p + 29500 >= 70000
    BY <1>0, <1>7, SMT DEF PassesAt, Pass, WeightingMatrix, DefaultWeights, PfmScores,
                          SdaScores, ByLevel, Weighting
  <2>2. \A x \in Int : Clears("MEDIUM", x) <=> 45 * x + 10 * p + 33100 >= 75000
    BY <1>0, <1>7, SMT DEF PassesAt, Pass, WeightingMatrix, DefaultWeights, PfmScores,
                          SdaScores, ByLevel, Weighting
  <2>3. \A x \in Int : Clears("HIGH", x) <=> 50 * x + 5 * p + 30400 >= 80000
    BY <1>0, <1>7, SMT DEF PassesAt, Pass, WeightingMatrix, DefaultWeights, PfmScores,
                          SdaScores, ByLevel, Weighting
  <2> HIDE DEF Clears
  <2> QED
    BY <1>7, <2>1, <2>2, <2>3 DEF Levels, NoHigher, Comparable
<1>8. Clears(level, e) => Clears(lower, f)
  BY <1>1, <1>2, <1>3, <1>4, <1>5, <1>6, <1>7 DEF Areas
<1> QED
  BY <1>8 DEF Passes

\* The cap of the aggregate is above every threshold.
LEMMA ApprovedPasses ==
    ASSUME NEW w, Numeric(w), w.threshold <= 100, NEW violates, NEW owner, NEW s,
           {s.ecm, s.pfm, s.pan, s.sda} \subseteq Int
    PROVE  Outcome(Aggregated(s, w), w, violates, owner) = "APPROVE"
             <=> ~(w.enforce /\ violates) /\ Pass(w, s.ecm, s.pfm, s.pan, s.sda)
<1> DEFINE sum == s.ecm * w.ecm + s.pfm * w.pfm + s.pan * w.pan + s.sda * w.sda
           needed == w.threshold * 1000
           capped == AtMost(sum, 100000)
           enough == capped >= needed
<1>1. /\ s.ecm * w.ecm \in Int /\ s.pfm * w.pfm \in Int
      /\ s.pan * w.pan \in Int /\ s.sda * w.sda \in Int
  BY DEF Numeric
<1>2. sum \in Int
  <2> DEFINE a == s.ecm * w.ecm
             b == s.pfm * w.pfm
             c == s.pan * w.pan
             d == s.sda * w.sda
  <2> HIDE DEF a, b, c, d
  <2>1. a + b + c + d \in Int
    BY <1>1 DEF a, b, c, d
  <2> QED
    BY <2>1 DEF a, b, c, d
<1>3. needed \in Nat /\ needed <= 100000
  BY DEF Numeric
<1>4. Aggregated(s, w) = capped
  BY SMT DEF Aggregated
<1>5. Pass(w, s.ecm, s.pfm, s.pan, s.sda) <=> ~w.review /\ sum >= needed
  BY SMT DEF Pass
<1> HIDE DEF sum, needed, capped
<1>6. enough <=> sum >= needed
  BY <1>2, <1>3 DEF AtMost, capped
<1>7. Outcome(capped, w, violates, owner) = "APPROVE"
        <=> ~(w.enforce /\ violates) /\ enough /\ ~w.review
  <2>1. Outcome(capped, w, violates, owner)
          = LET violated == w.enforce /\ violates
                sufficient == ~violated /\ enough
            IN  IF (violated /\ owner) \/ (sufficient /\ w.review) THEN "REQUIRE_HUMAN"
                ELSE IF sufficient THEN "APPROVE" ELSE "REJECT"
    BY SMT DEF Outcome, needed
  <2> HIDE DEF enough
  <2> QED
    BY <2>1, Zenon
<1> HIDE DEF enough
<1> QED
  BY <1>4, <1>5, <1>6, <1>7, Zenon

\* Whatever is enforced at a level is enforced at the higher ones.
LEMMA WeightingsAreInOrder ==
    ASSUME NEW area \in Areas, NEW level \in Levels, NEW lower \in Levels, NoHigher(lower, level)
    PROVE  LET w == WeightingMatrix[area][level]
           IN  /\ w.threshold <= 100
               /\ WeightingMatrix[area][lower].enforce => w.enforce
<1>1. CASE area = "BANKING"
  BY <1>1 DEF Levels, NoHigher, WeightingMatrix, ByLevel, Weighting
<1>2. CASE area = "LEGAL"
  BY <1>2 DEF Levels, NoHigher, WeightingMatrix, ByLevel, Weighting
<1>3. CASE area = "FINANCE"
  BY <1>3 DEF Levels, NoHigher, WeightingMatrix, ByLevel, Weighting
<1>4. CASE area = "RETAIL"
  BY <1>4 DEF Levels, NoHigher, WeightingMatrix, ByLevel, Weighting
<1>5. CASE area = "AUDIT"
  BY <1>5 DEF Levels, NoHigher, WeightingMatrix, ByLevel, Weighting
<1>6. CASE area = "HEALTHCARE"
  BY <1>6 DEF Levels, NoHigher, WeightingMatrix, DefaultWeights, ByLevel, Weighting
<1>7. CASE area = "DEFAULT"
  BY <1>7 DEF Levels, NoHigher, WeightingMatrix, DefaultWeights, ByLevel, Weighting
<1> QED
  BY <1>1, <1>2, <1>3, <1>4, <1>5, <1>6, <1>7 DEF Areas

\* What a request on seeded rows scores.
LEMMA SeededScores ==
    ASSUME NEW ks, \A m \in Modules : ks[m] = "Seeded", NEW q, Decidable(q)
    PROVE  LET s == ScoresOf(ks, q)
           IN  /\ s.ecm = LET e == EcmModule("Seeded", q) IN IF e.failed THEN 500 ELSE e.score
               /\ s.pfm = PfmScores[q.area][LevelOf(q)]
               /\ s.pan = PanResult("Seeded", q).score
               /\ s.sda = SdaScores(q.area)[LevelOf(q)]
<1> DEFINE p == PanResult("Seeded", q)
           e == EcmModule("Seeded", q)
           u == PfmResult("Seeded", q)
           d == SdaResult("Seeded", q)
<1>1. ScoresOf(ks, q) = ModuleScores(p, e, u, d)
  <2>1. ks["pan"] = "Seeded" /\ ks["ecm"] = "Seeded" /\ ks["pfm"] = "Seeded" /\ ks["sda"] = "Seeded"
    BY DEF Modules
  <2> QED
    BY <2>1, Zenon DEF ScoresOf
<1>2. ~p.failed
  BY SeededPan DEF Decidable
<1>3. ~u.failed /\ 1000 - 10 * u.risk = PfmScores[q.area][LevelOf(q)]
  BY SeededPfm, SMT DEF Decidable
<1>4. AtLeast(1000 - 700 * (IF d.failed THEN 0 ELSE d.count), 0) = SdaScores(q.area)[LevelOf(q)]
  BY SeededSda, SMT DEF Decidable
<1> HIDE DEF p, e, u, d
<1>5. /\ ModuleScores(p, e, u, d).pan = (IF p.failed THEN 500 ELSE p.score)
      /\ ModuleScores(p, e, u, d).ecm = (IF e.failed THEN 500 ELSE e.score)
      /\ ModuleScores(p, e, u, d).pfm = 1000 - 10 * (IF u.failed THEN 50 ELSE u.risk)
      /\ ModuleScores(p, e, u, d).sda
            = AtLeast(1000 - 700 * (IF d.failed THEN 0 ELSE d.count), 0)
  BY FieldsOfScores, SMT
<1>6. ModuleScores(p, e, u, d).pfm = PfmScores[q.area][LevelOf(q)]
  BY <1>3, <1>5, SMT
<1> QED
  BY <1>1, <1>2, <1>4, <1>5, <1>6, SMT DEF p, e

LEMMA LowerLevelIsApproved ==
    ASSUME NEW ks \in [Modules -> Kinds], \A m \in Modules : ks[m] = "Seeded",
           NEW q, NEW r, Decidable(r), Eased(q, r), NoHigher(LevelOf(q), LevelOf(r)),
           r.area \in {"RETAIL", "DEFAULT"} => PanResult("Seeded", r).score >= 400,
           ApprovedOn(ks, r)
    PROVE  ApprovedOn(ks, q)
<1> DEFINE level == LevelOf(r)
           lower == LevelOf(q)
           e == EcmModule("Seeded", r)
           f == EcmModule("Seeded", q)
           p == PanResult("Seeded", r).score
           s == ScoresOf(ks, r)
           t == ScoresOf(ks, q)
           pfm(l) == PfmScores[r.area][l]
           sda(l) == SdaScores(r.area)[l]
           weights(l) == WeightingMatrix[r.area][l]
<1>1. level \in Levels /\ lower \in Levels /\ r.area \in Areas
  BY LevelIsLevel DEF LevelOf, Decidable
<1>2. Decidable(q) /\ q.area = r.area /\ q.owner = r.owner
  BY DEF Decidable, Eased
<1>3. NoWorseEcm(e, f)
  <2>1. EasedEcm(e, f)
    BY <1>1, EcmEased DEF Kinds
  <2>2. ~e.failed
    BY SMT DEF EcmModule, EcmResult
  <2> QED
    BY <2>1, <2>2 DEF EasedEcm
<1>4. p \in 0 .. 990
  <2>1. r.area \in Areas /\ r.data.fields \in Nat /\ r.data.filled \in Nat
    BY Zenon DEF Decidable
  <2> HIDE DEF e, f, s, t, pfm, sda, weights, level, lower
  <2> QED
    BY <2>1, SeededPan
<1>5. PanResult("Seeded", q).score = p
  BY PanEased
<1>6. /\ s.ecm = e.score /\ s.pfm = pfm(level) /\ s.pan = p /\ s.sda = sda(level)
      /\ t.ecm = f.score /\ t.pfm = pfm(lower) /\ t.pan = p /\ t.sda = sda(lower)
  <2>1. ~e.failed /\ ~f.failed
    BY <1>3 DEF NoWorseEcm
  <2> QED
    BY <1>2, <1>5, <2>1, SeededScores, ZenonT(60)
<1>7. {s.ecm, s.pfm, s.pan, s.sda} \subseteq Int /\ {t.ecm, t.pfm, t.pan, t.sda} \subseteq Int
  BY <1>2, ScoresOfAreNumbers, Zenon
<1>8. /\ WeightsOf(r) = weights(level) /\ WeightsOf(q) = weights(lower)
      /\ ViolatesOn(ks, r) = CriticalViolation(e) /\ ViolatesOn(ks, q) = CriticalViolation(f)
  <2>1. ks["ecm"] = "Seeded"
    BY DEF Modules
  <2> QED
    BY <1>2, <2>1, Zenon DEF WeightsOf, ViolatesOn
<1>9. CriticalViolation(f) => CriticalViolation(e)
  <2>1. f.critical => e.critical
    BY <1>3, SMT DEF NoWorseEcm
  <2>2. ~e.failed
    BY <1>3, SMT DEF NoWorseEcm
  <2> QED
    BY <2>1, <2>2, Zenon DEF CriticalViolation
<1>10. /\ Numeric(weights(level)) /\ Numeric(weights(lower))
       /\ weights(level).threshold <= 100 /\ weights(lower).threshold <= 100
       /\ weights(lower).enforce => weights(level).enforce
  <2>1. NoHigher(level, level) /\ NoHigher(lower, lower)
    BY Zenon DEF NoHigher
  <2> QED
    BY <1>1, <2>1, WeightsAreNumbers, WeightingsAreInOrder, Zenon
<1>11. Outcome(Aggregated(s, weights(level)), weights(level), CriticalViolation(e), r.owner) = "APPROVE"
  BY <1>8, Zenon DEF ApprovedOn
<1>12. /\ ~(weights(level).enforce /\ CriticalViolation(e))
       /\ Pass(weights(level), e.score, pfm(level), p, sda(level))
  <2> DEFINE w == weights(level)
  <2> HIDE DEF s, e, p, pfm, sda, weights, level, w
  <2>1. Numeric(w) /\ w.threshold <= 100 /\ Outcome(Aggregated(s, w), w, CriticalViolation(e), r.owner) = "APPROVE"
    BY <1>10, <1>11 DEF w
  <2>2. ~(w.enforce /\ CriticalViolation(e)) /\ Pass(w, s.ecm, s.pfm, s.pan, s.sda)
    BY <1>7, <2>1, ApprovedPasses
  <2> QED
    BY <1>6, <2>2 DEF w
<1>13. Pass(weights(lower), f.score, pfm(lower), p, sda(lower))
  <2>1. e.score \in Int /\ f.score \in Int /\ e.score <= f.score /\ e.score <= 1000
    <3> HIDE DEF e, f
    <3> QED
      BY <1>3 DEF NoWorseEcm
  <2>2. /\ NoHigher(lower, level) /\ (r.area \in {"RETAIL", "DEFAULT"} => p >= 400)
    OBVIOUS
  <2> DEFINE x == e.score
             y == f.score
  <2> HIDE DEF e, f, p, level, lower, x, y
  <2>3. x \in Int /\ y \in Int /\ x <= y /\ x <= 1000
    BY <2>1 DEF x, y
  <2>4. Comparable(r.area, x, y, p)
    BY <1>4, <2>2, <2>3 DEF Comparable
  <2>5. PassesAt(r.area, level, x, p)
    BY <1>12, Zenon DEF x, PassesAt
  <2>6. PassesAt(r.area, lower, y, p)
    BY <1>1, <2>2, <2>4, <2>5, LowerLevelPasses, Zenon
  <2> QED
    BY <2>6, Zenon DEF y, PassesAt
<1>14. ~(weights(lower).enforce /\ CriticalViolation(f))
  BY <1>9, <1>10, <1>12, Zenon
<1>15. Outcome(Aggregated(t, weights(lower)), weights(lower), CriticalViolation(f), q.owner) = "APPROVE"
  <2> DEFINE w == weights(lower)
  <2> HIDE DEF t, f, p, pfm, sda, weights, lower, w
  <2>1. Numeric(w) /\ w.threshold <= 100
    BY <1>10 DEF w
  <2>2. ~(w.enforce /\ CriticalViolation(f)) /\ Pass(w, t.ecm, t.pfm, t.pan, t.sda)
    BY <1>6, <1>13, <1>14 DEF w
  <2>3. Outcome(Aggregated(t, w), w, CriticalViolation(f), q.owner) = "APPROVE"
    BY <1>7, <2>1, <2>2, ApprovedPasses
  <2> QED
    BY <2>3 DEF w
<1> QED
  BY <1>8, <1>15, Zenon DEF ApprovedOn

\* Fewer sensitive domains never are a higher level.
LEMMA FewerDomainsLowerLevel ==
    ASSUME NEW area, NEW n \in Nat, NEW m \in Nat, n <= m
    PROVE  NoHigher(SensitivityLevel(area, n), SensitivityLevel(area, m))
<1> DEFINE starts == LevelStarts(area)
<1>1. /\ starts.MEDIUM \in Nat /\ starts.HIGH \in Nat
      /\ starts.MEDIUM <= starts.HIGH
  BY SMT DEF LevelStarts
<1> HIDE DEF starts
<1>2. \A k \in Nat : SensitivityLevel(area, k) = IF k >= starts.HIGH THEN "HIGH"
                                                 ELSE IF k >= starts.MEDIUM THEN "MEDIUM"
                                                 ELSE "LOW"
  BY SMT DEF SensitivityLevel, starts
<1> QED
  BY <1>1, <1>2 DEF NoHigher

\* The request with another text and another count of sensitive domains.
LEMMA OtherRequest ==
    ASSUME NEW r \in RequestRecords, NEW words, Milder(words, r.data.words), NEW n
    PROVE  LET q == [r EXCEPT !.data.words = words, !.sensitive = n]
           IN  /\ Decidable(r) /\ Eased(q, r)
               /\ LevelOf(q) = SensitivityLevel(r.area, n)
<1> DEFINE q == [r EXCEPT !.data.words = words, !.sensitive = n]
<1>1. /\ r = [area |-> r.area, sensitive |-> r.sensitive, owner |-> r.owner,
              registered |-> r.registered, data |-> r.data]
      /\ r.data = [fields |-> r.data.fields, filled |-> r.data.filled, words |-> r.data.words,
                   entities |-> r.data.entities, excellent |-> r.data.excellent]
  BY DEF RequestRecords, DataRecords
<1>2. /\ DOMAIN r = {"area", "sensitive", "owner", "registered", "data"}
      /\ DOMAIN r.data = {"fields", "filled", "words", "entities", "excellent"}
  BY <1>1
<1>3. /\ q.area = r.area /\ q.owner = r.owner /\ q.sensitive = n
      /\ q.data.fields = r.data.fields /\ q.data.filled = r.data.filled
      /\ q.data.entities = r.data.entities /\ q.data.excellent = r.data.excellent
      /\ q.data.words = words
  BY <1>2
<1>4. Decidable(r)
  BY DEF RequestRecords, DataRecords, Decidable
<1> HIDE DEF q
<1>5. Eased(q, r) /\ LevelOf(q) = SensitivityLevel(r.area, n)
  BY <1>3 DEF Eased, LevelOf
<1> QED
  BY <1>4, <1>5 DEF q

\* A number that is not below zero is a natural one.
LEMMA SensibleIsSensibleRows ==
    ASSUME NEW ks, Sensible(ks)
    PROVE  SensibleRows(ks)
<1>1. ASSUME ks["ecm"] = "Edited" PROVE NonNegative(EditedEcm)
  BY <1>1, EditedEcmAssumption DEF Sensible, NonNegative
<1> QED
  BY <1>1 DEF Sensible, SensibleRows, Unrewarding

LEMMA WorseIsNoHelp ==
    ASSUME IInv, Served
    PROVE  WorseRequestNeverHelps
<1> DEFINE texts == {req.data.words \ BiasTerms, req.data.words \ PiiTerms,
                     req.data.words \cup {"masked"}}
           counts == IF LevelsAgree THEN 0 .. req.sensitive ELSE {req.sensitive}
           Other(words, n) == [req EXCEPT !.data.words = words, !.sensitive = n]
<1>1. SUFFICES ASSUME Approved, Sensible(kinds), NEW words \in texts, NEW n \in counts
               PROVE  Instead(kinds, Other(words, n)) = "APPROVE"
  BY Zenon DEF WorseRequestNeverHelps
<1> DEFINE q == Other(words, n)
<1>2. req \in RequestRecords /\ req.sensitive \in Nat
  BY DEF IInv, RequestOK, RequestRecords
<1>3. Milder(words, req.data.words)
  BY DEF Milder
<1>4. Decidable(req) /\ Eased(q, req) /\ LevelOf(q) = SensitivityLevel(req.area, n)
  BY <1>2, <1>3, OtherRequest
<1>5. kinds \in [Modules -> Kinds]
  BY DEF Served
<1>6. ApprovedOn(kinds, req) /\ SensibleRows(kinds)
  BY <1>1, ApprovedIsApprovedOn, SensibleIsSensibleRows
<1> HIDE DEF q
<1>7. CASE n = req.sensitive
  <2>1. LevelOf(q) = LevelOf(req)
    BY <1>4, <1>7 DEF LevelOf
  <2> QED
    BY <1>4, <1>5, <1>6, <2>1, EasedIsApproved, InsteadIsApproved DEF q
<1>8. CASE n # req.sensitive
  <2>1. LevelsAgree /\ n \in Nat /\ n <= req.sensitive
    BY <1>2, <1>8
  <2>2. NoHigher(LevelOf(q), LevelOf(req))
    BY <1>2, <1>4, <2>1, FewerDomainsLowerLevel DEF LevelOf
  <2>3. \A m \in Modules : kinds[m] = "Seeded"
    BY <2>1 DEF LevelsAgree
  <2>4. req.area \in {"RETAIL", "DEFAULT"} => PanResult("Seeded", req).score >= 400
    <3>1. res["pan"] = PanResult("Seeded", req)
      BY <1>1, <2>3 DEF Served, HasRun, ResultOf, Modules, Approved, Decided
    <3> QED
      BY <2>1, <3>1 DEF LevelsAgree
  <2>5. ApprovedOn(kinds, q)
    BY <1>4, <1>5, <1>6, <2>2, <2>3, <2>4, LowerLevelIsApproved
  <2> QED
    BY <2>5, InsteadIsApproved DEF q
<1> QED
  BY <1>7, <1>8

(* Personal data that is exposed and biased terms never turn a refusal into an approval,
   whatever else the text says and however the steps of the evaluation are rounded.
   Nor do they together with more sensitive domains, where every row is as seeded and
   in RETAIL and DEFAULT the data is not hardly filled. *)
THEOREM WorseNeverHelps == Spec => []WorseRequestNeverHelps
<1>1. IInv /\ Served => WorseRequestNeverHelps
  BY WorseIsNoHelp
<1>2. IInv /\ Served /\ [Next]_vars => (IInv /\ Served)'
  BY StepInv, ServedStep
<1> QED
  BY <1>1, <1>2, InitInv, ServedInitially, PTL DEF Spec

(***************************************************************************)
(* Calibration: the rows the modules are served                            *)
(***************************************************************************)
Logged(u) == \E e \in changelog : e.update = u

\* What u read of its row is what version n has, but for columns changed meanwhile.
ReadBut(u, r, n) ==
    \A c \in Columns : Held(r, put[u].previous)[c] # Held(r, n)[c] => c \in Meanwhile(u, r, n + 1)

\* Version n of row r is the UPDATE of u.
WroteVersion(u, r, n) ==
    /\ versions[r][n].by = u
    /\ Differ(r, n - 1, n) \subseteq Asked(u)
    /\ ReadBut(u, r, n - 1)

BeforeWriting(u) ==
    put[u].pc = "update" =>
        /\ put[u].row \in Rows /\ put[u].previous \in 1 .. Latest(put[u].row)
        /\ ReadBut(u, put[u].row, Latest(put[u].row))

Writing(u) ==
    put[u].pc = "record" =>
        /\ put[u].row \in Rows /\ put[u].written \in 2 .. Latest(put[u].row)
        /\ put[u].previous \in 1 .. put[u].written - 1
        /\ WroteVersion(u, put[u].row, put[u].written)

AfterWriting(u) ==
    put[u].pc = "reload" \/ put[u].reply = "ok" =>
        /\ put[u].row \in Rows /\ put[u].written \in 1 .. Latest(put[u].row)
        /\ Logged(u)

\* What an instance that has answered serves of the row.
Serving(u) ==
    put[u].reply = "ok" =>
        \A k \in Keys : KeyRow[k] = put[u].row => cache[put[u].at][k] \notin 1 .. (put[u].written - 1)

UpdateInOrder(u) ==
    /\ put[u].reply # "none" => put[u].pc = "done"
    /\ put[u].pc # "new" => put[u].at \in Instances
    /\ put[u].pc \in {"new", "update"} \/ put[u].reply = "refused" => ~ Changed(u)
    /\ BeforeWriting(u) /\ Writing(u) /\ AfterWriting(u) /\ Serving(u)
    /\ Logged(u) => Changed(u)

\* ChangelogIsTrue, of one entry.
TellsOf(e, n) ==
    /\ versions[e.row][n].by = e.update
    /\ Part(Held(e.row, n), e.columns) = e.after
    /\ Differ(e.row, n - 1, n) \subseteq e.columns
    /\ {c \in e.columns : e.before[c] # Held(e.row, n - 1)[c]} \subseteq Meanwhile(e.update, e.row, n)
TellsAChange(e) == \E n \in 2 .. Latest(e.row) : TellsOf(e, n) /\ put[e.update].previous \in Nat \ {0}

CalibrationInv ==
    /\ CalibrationTypeOK
    /\ \A e \in changelog : TellsAChange(e)
    /\ \A u \in Updates : UpdateInOrder(u)

USE ColumnsAssumption, ValuesAssumption, KeyRowAssumption, NullAssumption, BoundAssumption

LEMMA CalibrationInitially == CalibrationInit => CalibrationInv
<1> SUFFICES ASSUME CalibrationInit PROVE CalibrationInv
  OBVIOUS
<1> DEFINE v == [content |-> [c \in Columns |-> Seed], by |-> Null]
<1>1. /\ versions = [r \in Rows |-> <<v>>]
      /\ put = [u \in Updates |-> New] /\ changelog = {}
      /\ cache = [i \in Instances |-> EmptyCache] /\ restarts = 0
  BY DEF CalibrationInit
<1>2. v \in Versions /\ v.by = Null
  BY DEF Contents, Versions
<1> HIDE DEF v
<1>3. versions \in [Rows -> Seq(Versions)] /\ \A r \in Rows : versions[r] # <<>> /\ Latest(r) = 1
  BY <1>1, <1>2 DEF Latest
<1>4. New \in UpdateStates
  BY DEF New, UpdateStates, Fields
<1>5. CalibrationTypeOK
  BY <1>1, <1>3, <1>4 DEF CalibrationTypeOK, EmptyCache, Cached, NotCached
<1>6. \A r \in Rows : \A n \in 1 .. Latest(r) : versions[r][n].by = Null
  BY <1>1, <1>2, <1>3
<1>7. \A u \in Updates : UpdateInOrder(u)
  <2> TAKE u \in Updates
  <2>1. put[u].pc = "new" /\ put[u].reply = "none" /\ ~ Logged(u)
    BY <1>1 DEF New, Logged
  <2>2. ~ Changed(u)
    <3>1. u # Null
      OBVIOUS
    <3>2. \A r \in Rows : DOMAIN versions[r] = 1 .. Latest(r)
      BY <1>3 DEF Latest
    <3> QED
      BY <1>6, <3>1, <3>2 DEF Changed
  <2> QED
    BY <2>1, <2>2 DEF UpdateInOrder, BeforeWriting, Writing, AfterWriting, Serving
<1> QED
  BY <1>1, <1>5, <1>7 DEF CalibrationInv

(* What a step leaves of the others: rows only gain versions, nobody else's, the changelog
   only entries of nobody else's, and a key is loaded at its row's latest version. *)
VersionsGrow ==
    \A r \in Rows :
        /\ Len(versions'[r]) \in Nat /\ Len(versions'[r]) \in {Len(versions[r]), Len(versions[r]) + 1}
        /\ \A n \in 1 .. Len(versions[r]) : versions'[r][n] = versions[r][n]

\* An update that was logged has read its row for good.
ReadingsStay == \A q \in Updates : Logged(q) => put'[q].previous = put[q].previous

CacheInOrder ==
    \A i \in Instances, k \in Keys :
        cache'[i][k] \in {cache[i][k], NotCached, Fallback, Latest(KeyRow[k])}

LEMMA LatestIsNat ==
    ASSUME CalibrationTypeOK, NEW r \in Rows
    PROVE  Latest(r) \in Nat /\ Latest(r) >= 1 /\ DOMAIN versions[r] = 1 .. Latest(r)
                /\ \A n \in 1 .. Latest(r) : versions[r][n] \in Versions
  BY DEF CalibrationTypeOK, Latest

LEMMA HeldType ==
    ASSUME CalibrationTypeOK, NEW r \in Rows, NEW n \in 1 .. Latest(r)
    PROVE  Held(r, n) \in Contents
  BY LatestIsNat DEF Held, Versions

LEMMA VersionsUnchanged ==
    ASSUME CalibrationTypeOK, versions' = versions
    PROVE  VersionsGrow /\ \A u \in Updates : Changed(u)' = Changed(u)
<1>1. VersionsGrow
  BY LatestIsNat DEF VersionsGrow, Latest
<1>2. \A u \in Updates : Changed(u)' = Changed(u)
  BY DEF Changed
<1> QED
  BY <1>1, <1>2

LEMMA EntriesFields ==
    ASSUME NEW e \in Entries
    PROVE  e.update \in Updates /\ e.row \in Rows /\ e.columns \subseteq Columns
  BY DEF Entries

LEMMA LatestGrows ==
    ASSUME CalibrationInv, VersionsGrow, NEW r \in Rows
    PROVE  /\ Latest(r) \in Nat /\ Latest(r)' \in Nat /\ Latest(r) <= Latest(r)'
           /\ 1 .. Latest(r) \subseteq 1 .. Latest(r)' /\ 2 .. Latest(r) \subseteq 2 .. Latest(r)'
<1>1. /\ Latest(r) \in Nat /\ Latest(r) = Len(versions[r])
      /\ Len(versions'[r]) \in Nat /\ Len(versions[r]) <= Len(versions'[r])
  BY LatestIsNat DEF CalibrationInv, Latest, VersionsGrow
<1>2. Latest(r)' = Len(versions'[r])
  BY DEF Latest
<1> QED
  BY <1>1, <1>2

\* What rows held and what was changed in them stays.
LEMMA PastStays ==
    ASSUME CalibrationInv, VersionsGrow, NEW r \in Rows, NEW n \in 1 .. Latest(r)
    PROVE  /\ versions'[r][n] = versions[r][n] /\ Held(r, n)' = Held(r, n)
           /\ \A k \in 2 .. n : Differ(r, k - 1, k)' = Differ(r, k - 1, k)
<1>1. Len(versions[r]) \in Nat /\ Latest(r) = Len(versions[r])
  BY LatestIsNat DEF CalibrationInv, Latest
<1>2. \A m \in 1 .. n : versions'[r][m] = versions[r][m]
  BY <1>1 DEF VersionsGrow
<1>3. n \in 1 .. n
  BY <1>1
<1>4. \A k \in 2 .. n : Differ(r, k - 1, k)' = Differ(r, k - 1, k)
  <2> TAKE k \in 2 .. n
  <2>1. k \in 1 .. n /\ k - 1 \in 1 .. n
    BY <1>1
  <2>2. versions'[r][k] = versions[r][k] /\ versions'[r][k - 1] = versions[r][k - 1]
    BY <1>2, <2>1
  <2> QED
    BY <2>2 DEF Differ, Held
<1> QED
  BY <1>2, <1>3, <1>4 DEF Held

LEMMA MeanwhileStays ==
    ASSUME CalibrationInv, VersionsGrow, NEW u \in Updates, NEW r \in Rows, NEW n \in 1 .. Latest(r),
           put[u].previous \in Nat \ {0}, put'[u].previous = put[u].previous
    PROVE  Meanwhile(u, r, n + 1)' = Meanwhile(u, r, n + 1)
<1> DEFINE p == put[u].previous
<1>1. Latest(r) \in Nat
  BY LatestIsNat DEF CalibrationInv
<1>2. n + 1 - 1 = n
  BY <1>1
<1>3. (p + 1) .. n \subseteq 2 .. n
  BY <1>1
<1>4. \A k \in (p + 1) .. n : Differ(r, k - 1, k)' = Differ(r, k - 1, k)
  BY <1>3, PastStays
<1> QED
  BY <1>2, <1>4 DEF Meanwhile

LEMMA ReadButStays ==
    ASSUME CalibrationInv, VersionsGrow, NEW u \in Updates, NEW r \in Rows, NEW n \in 1 .. Latest(r),
           put[u].previous \in 1 .. n, put'[u].previous = put[u].previous, ReadBut(u, r, n)
    PROVE  ReadBut(u, r, n)'
<1>1. Latest(r) \in Nat
  BY LatestIsNat DEF CalibrationInv
<1>2. put[u].previous \in 1 .. Latest(r) /\ put[u].previous \in Nat \ {0}
  BY <1>1
<1>3. Held(r, n)' = Held(r, n) /\ Held(r, put[u].previous)' = Held(r, put[u].previous)
  BY <1>2, PastStays
<1>4. Meanwhile(u, r, n + 1)' = Meanwhile(u, r, n + 1)
  BY <1>2, MeanwhileStays
<1> QED
  BY <1>3, <1>4 DEF ReadBut, Held

\* ... and of the version that is latest now.
LEMMA ReadButGrows ==
    ASSUME CalibrationInv, VersionsGrow, NEW u \in Updates, NEW r \in Rows,
           put[u].previous \in 1 .. Latest(r), put'[u].previous = put[u].previous, ReadBut(u, r, Latest(r))
    PROVE  ReadBut(u, r, Latest(r))'
<1>1. PICK n \in Nat : n = Latest(r) /\ n >= 1 /\ n = Len(versions[r])
  BY LatestIsNat DEF CalibrationInv, Latest
<1>2. Latest(r)' = n \/ Latest(r)' = n + 1
  BY <1>1 DEF VersionsGrow, Latest
<1>3. put[u].previous \in 1 .. n /\ n \in 1 .. Latest(r)
  BY <1>1
<1>4. ReadBut(u, r, n)'
  BY <1>1, <1>3, ReadButStays
<1>5. CASE Latest(r)' = n
  BY <1>4, <1>5 DEF ReadBut, Meanwhile, Latest
<1>6. CASE Latest(r)' = n + 1
  <2> DEFINE p == put[u].previous
  <2>1. ASSUME NEW c \in Columns, Held(r, p)'[c] # Held(r, n + 1)'[c]
        PROVE  \E k \in (p + 1) .. (n + 1) : c \in Differ(r, k - 1, k)'
    <3>1. CASE Held(r, n)'[c] # Held(r, n + 1)'[c]
      <4>1. c \in Differ(r, (n + 1) - 1, n + 1)' /\ n + 1 \in (p + 1) .. (n + 1)
        BY <1>1, <1>3, <3>1 DEF Differ
      <4> QED
        BY <4>1
    <3>2. CASE Held(r, n)'[c] = Held(r, n + 1)'[c]
      <4>1. c \in Meanwhile(u, r, n + 1)'
        BY <1>4, <2>1, <3>2 DEF ReadBut, Held
      <4>2. PICK k \in (p + 1) .. ((n + 1) - 1) : c \in Differ(r, k - 1, k)'
        BY <4>1 DEF Meanwhile
      <4>3. k \in (p + 1) .. (n + 1)
        BY <1>1, <1>3
      <4> QED
        BY <4>2, <4>3
    <3> QED
      BY <3>1, <3>2
  <2>2. (n + 1) + 1 - 1 = n + 1
    BY <1>1
  <2> QED
    BY <1>6, <2>1, <2>2 DEF ReadBut, Meanwhile, Held, Latest
<1> QED
  BY <1>2, <1>5, <1>6

\* An entry stays true of a row that has gained versions.
LEMMA TellsStill ==
    ASSUME CalibrationInv, VersionsGrow, NEW e \in changelog,
           put'[e.update].previous = put[e.update].previous
    PROVE  TellsAChange(e)'
<1>1. e.row \in Rows /\ e.update \in Updates /\ TellsAChange(e)
  BY EntriesFields DEF CalibrationInv, CalibrationTypeOK
<1>2. PICK n \in 2 .. Latest(e.row) : TellsOf(e, n) /\ put[e.update].previous \in Nat \ {0}
  BY <1>1, Zenon DEF TellsAChange
<1>3. Latest(e.row) \in Nat
  BY <1>1, LatestIsNat DEF CalibrationInv
<1>4. n \in 2 .. Latest(e.row)' /\ n \in 1 .. Latest(e.row) /\ n - 1 \in 1 .. Latest(e.row) /\ n \in 2 .. n
      /\ (n - 1) + 1 = n
  BY <1>1, <1>2, <1>3, LatestGrows
<1>5. /\ versions'[e.row][n] = versions[e.row][n] /\ Held(e.row, n)' = Held(e.row, n)
      /\ Held(e.row, n - 1)' = Held(e.row, n - 1)
      /\ Differ(e.row, n - 1, n)' = Differ(e.row, n - 1, n)
  BY <1>1, <1>4, PastStays
<1>6. Meanwhile(e.update, e.row, n)' = Meanwhile(e.update, e.row, n)
  BY <1>1, <1>2, <1>4, MeanwhileStays
<1>7. TellsOf(e, n)'
  BY <1>2, <1>5, <1>6 DEF TellsOf, Part
<1> QED
  BY <1>2, <1>4, <1>7 DEF TellsAChange

\* What an update has done to its row stays done as the row gains versions.
LEMMA WroteStill ==
    ASSUME CalibrationInv, VersionsGrow, NEW u \in Updates, NEW r \in Rows, NEW n \in 2 .. Latest(r),
           WroteVersion(u, r, n), put'[u] = put[u], put[u].previous \in 1 .. n - 1
    PROVE  WroteVersion(u, r, n)'
<1>1. Latest(r) \in Nat
  BY LatestIsNat DEF CalibrationInv
<1>2. n \in 1 .. Latest(r) /\ n - 1 \in 1 .. Latest(r) /\ n \in 2 .. n
  BY <1>1
<1>3. versions'[r][n] = versions[r][n] /\ Differ(r, n - 1, n)' = Differ(r, n - 1, n)
  BY <1>2, PastStays
<1>4. ReadBut(u, r, n - 1)'
  BY <1>2, ReadButStays DEF WroteVersion
<1>5. Asked(u)' = Asked(u)
  BY DEF Asked, Named
<1> QED
  BY <1>3, <1>4, <1>5 DEF WroteVersion

\* An update that itself does nothing stays in order.
LEMMA OthersStay ==
    ASSUME CalibrationInv, VersionsGrow, CacheInOrder, NEW u \in Updates, put'[u] = put[u],
           changelog \subseteq changelog', Logged(u)' => Logged(u),
           Changed(u)' = Changed(u)
    PROVE  UpdateInOrder(u)'
<1>1. UpdateInOrder(u)
  BY DEF CalibrationInv
<1>2. Asked(u)' = Asked(u) /\ (Logged(u) => Logged(u)')
  BY DEF Asked, Named, Logged
<1>3. BeforeWriting(u)'
  <2> SUFFICES ASSUME put[u].pc = "update"
               PROVE  /\ put[u].row \in Rows /\ put[u].previous \in 1 .. Latest(put[u].row)'
                      /\ ReadBut(u, put[u].row, Latest(put[u].row))'
    BY DEF BeforeWriting, Latest, ReadBut
  <2>1. PICK r \in Rows : r = put[u].row
    BY <1>1 DEF UpdateInOrder, BeforeWriting
  <2>2. put[u].previous \in 1 .. Latest(r) /\ ReadBut(u, r, Latest(r))
    BY <1>1, <2>1 DEF UpdateInOrder, BeforeWriting
  <2>3. put[u].previous \in 1 .. Latest(r)'
    BY <2>2, LatestGrows
  <2>4. ReadBut(u, r, Latest(r))'
    BY <2>2, ReadButGrows
  <2> QED
    BY <2>1, <2>3, <2>4 DEF Latest, ReadBut, Held, Meanwhile, Differ
<1>4. Writing(u)'
  <2> SUFFICES ASSUME put[u].pc = "record"
               PROVE  /\ put[u].row \in Rows /\ put[u].written \in 2 .. Latest(put[u].row)'
                      /\ put[u].previous \in 1 .. put[u].written - 1
                      /\ WroteVersion(u, put[u].row, put[u].written)'
    BY DEF Writing, Latest, WroteVersion, Held, Differ, ReadBut, Meanwhile
  <2>1. /\ put[u].row \in Rows /\ put[u].written \in 2 .. Latest(put[u].row)
        /\ put[u].previous \in 1 .. put[u].written - 1
        /\ WroteVersion(u, put[u].row, put[u].written)
    BY <1>1 DEF UpdateInOrder, Writing
  <2>2. PICK r \in Rows, n \in 2 .. Latest(put[u].row) : r = put[u].row /\ n = put[u].written
    BY <2>1
  <2>3. n \in 2 .. Len(versions'[r])
    BY <2>2, LatestGrows DEF Latest
  <2>4. WroteVersion(u, r, n)'
    BY <2>1, <2>2, WroteStill
  <2>5. put[u].written \in 2 .. Latest(put[u].row)'
    BY <2>2, <2>3 DEF Latest
  <2>6. WroteVersion(u, put[u].row, put[u].written)'
    <3>1. put'[u].row = r /\ put'[u].written = n
      BY <2>2
    <3>2. /\ versions'[r][n].by = u
          /\ Differ(r, n - 1, n)' \subseteq Asked(u)'
          /\ ReadBut(u, r, n - 1)'
      BY <2>4 DEF WroteVersion
    <3>3. Differ(put[u].row, put[u].written - 1, put[u].written)' \subseteq Asked(u)'
      BY <3>1, <3>2 DEF Differ, Held
    <3>4. ReadBut(u, put[u].row, put[u].written - 1)'
      BY <3>1, <3>2 DEF ReadBut, Meanwhile, Differ, Held
    <3> QED
      BY <3>1, <3>2, <3>3, <3>4 DEF WroteVersion
  <2> QED
    BY <2>1, <2>5, <2>6
<1>5. AfterWriting(u)'
  <2> SUFFICES ASSUME put[u].pc = "reload" \/ put[u].reply = "ok"
               PROVE  /\ put[u].row \in Rows /\ put[u].written \in 1 .. Latest(put[u].row)'
                      /\ Logged(u)'
    BY DEF AfterWriting, Latest
  <2>1. put[u].row \in Rows /\ put[u].written \in 1 .. Latest(put[u].row) /\ Logged(u)
    BY <1>1 DEF UpdateInOrder, AfterWriting
  <2> QED
    BY <1>2, <2>1, LatestGrows
<1>6. Serving(u)'
  <2> SUFFICES ASSUME put[u].reply = "ok", NEW k \in Keys, KeyRow[k] = put[u].row
               PROVE  cache'[put[u].at][k] \notin 1 .. (put[u].written - 1)
    BY DEF Serving
  <2>1. put[u].at \in Instances /\ put[u].row \in Rows /\ put[u].written \in 1 .. Latest(put[u].row)
    BY <1>1 DEF UpdateInOrder, AfterWriting
  <2>2. cache[put[u].at][k] \notin 1 .. (put[u].written - 1)
    BY <1>1 DEF UpdateInOrder, Serving
  <2>3. cache'[put[u].at][k] \in {cache[put[u].at][k], NotCached, Fallback, Latest(put[u].row)}
    BY <2>1 DEF CacheInOrder
  <2>4. Latest(put[u].row) \in Nat
    BY <2>1, LatestIsNat DEF CalibrationInv
  <2>5. Latest(put[u].row) \notin 1 .. (put[u].written - 1)
    BY <2>1, <2>4
  <2> QED
    BY <2>2, <2>3, <2>5 DEF NotCached, Fallback
<1> QED
  BY <1>1, <1>2, <1>3, <1>4, <1>5, <1>6 DEF UpdateInOrder

LEMMA Replied ==
    ASSUME CalibrationTypeOK, NEW u \in Updates, NEW how \in {"refused", "failed", "ok", "lost"},
           Reply(u, how)
    PROVE  /\ put' \in [Updates -> UpdateStates]
           /\ \A q \in Updates \ {u} : put'[q] = put[q]
           /\ put'[u].pc = "done" /\ put'[u].reply = how
           /\ put'[u].at = put[u].at /\ put'[u].row = put[u].row
           /\ put'[u].fields = put[u].fields /\ put'[u].written = put[u].written
           /\ put'[u].previous = put[u].previous
<1>1. put[u] \in UpdateStates /\ put \in [Updates -> UpdateStates]
  BY DEF CalibrationTypeOK
<1> DEFINE now == [pc |-> "done", reply |-> how, at |-> put[u].at, row |-> put[u].row,
                   fields |-> put[u].fields, previous |-> put[u].previous,
                   written |-> put[u].written]
<1>2. put'[u] = now
  BY <1>1 DEF Reply, UpdateStates
<1>3. now \in UpdateStates
  BY <1>1 DEF UpdateStates
<1>4. \A q \in Updates \ {u} : put'[q] = put[q]
  BY <1>1 DEF Reply
<1>5. put' = [q \in Updates |-> put'[q]]
  BY <1>1 DEF Reply
<1>6. put' \in [Updates -> UpdateStates]
  <2> HIDE DEF now
  <2>1. \A q \in Updates : put'[q] \in UpdateStates
    BY <1>1, <1>2, <1>3, <1>4
  <2> QED
    BY <1>5, <2>1
<1> QED
  BY <1>2, <1>4, <1>6

\* What the others keep when an update steps.
LEMMA AllInOrder ==
    ASSUME CalibrationInv, VersionsGrow, CacheInOrder, NEW u \in Updates,
           \A q \in Updates \ {u} :
               put'[q] = put[q] /\ (Logged(q)' => Logged(q)) /\ Changed(q)' = Changed(q),
           changelog \subseteq changelog', UpdateInOrder(u)'
    PROVE  \A q \in Updates : UpdateInOrder(q)'
<1> TAKE q \in Updates
<1>1. CASE q = u
  BY <1>1
<1>2. CASE q # u
  <2>1. put'[q] = put[q] /\ (Logged(q)' => Logged(q)) /\ Changed(q)' = Changed(q)
    BY <1>2
  <2> QED
    BY <2>1, OthersStay
<1> QED
  BY <1>1, <1>2

LEMMA EveryTellsStill ==
    ASSUME CalibrationInv, VersionsGrow, ReadingsStay
    PROVE  \A e \in changelog : TellsAChange(e)'
<1> TAKE e \in changelog
<1>1. e.update \in Updates /\ Logged(e.update)
  BY EntriesFields DEF CalibrationInv, CalibrationTypeOK, Logged
<1> QED
  BY <1>1, TellsStill DEF ReadingsStay

\* A step that writes neither a version nor an entry.
LEMMA NothingWritten ==
    ASSUME CalibrationInv, UNCHANGED <<versions, changelog>>, ReadingsStay
    PROVE  /\ VersionsGrow /\ \A e \in changelog' : TellsAChange(e)'
           /\ \A q \in Updates : Changed(q)' = Changed(q) /\ Logged(q)' = Logged(q)
<1>1. VersionsGrow /\ \A q \in Updates : Changed(q)' = Changed(q)
  BY VersionsUnchanged DEF CalibrationInv
<1>2. \A q \in Updates : Logged(q)' = Logged(q)
  BY DEF Logged
<1>3. \A e \in changelog' : TellsAChange(e)'
  BY <1>1, EveryTellsStill
<1> QED
  BY <1>1, <1>2, <1>3

LEMMA CacheUnchanged ==
    ASSUME cache' = cache
    PROVE  CacheInOrder
  BY DEF CacheInOrder

LEMMA ReadInv ==
    ASSUME CalibrationInv, NEW u \in Updates, NEW i \in Instances, NEW r \in Rows,
           NEW fields \in Payloads, ReadPrevious(u, i, r, fields)
    PROVE  CalibrationInv'
<1> DEFINE now == [pc |-> "update", reply |-> "none", at |-> i, row |-> r, fields |-> fields,
                   previous |-> Latest(r), written |-> 0]
<1>1. /\ put[u].pc = "new" /\ put' = [put EXCEPT ![u] = now]
      /\ UNCHANGED <<versions, changelog, cache, restarts>>
  BY DEF ReadPrevious, At
<1>2. Latest(r) \in Nat /\ Latest(r) >= 1
  BY LatestIsNat DEF CalibrationInv
<1>3. now \in UpdateStates
  BY <1>2 DEF UpdateStates, Fields
<1>4. CalibrationTypeOK'
  <2> HIDE DEF now
  <2>1. put' \in [Updates -> UpdateStates]
    BY <1>1, <1>3 DEF CalibrationInv, CalibrationTypeOK
  <2> QED
    BY <1>1, <2>1 DEF CalibrationInv, CalibrationTypeOK
<1>5. put'[u] = now /\ \A q \in Updates \ {u} : put'[q] = put[q]
  BY <1>1 DEF CalibrationInv, CalibrationTypeOK
<1>6. ~ Changed(u) /\ ~ Logged(u)
  BY <1>1 DEF CalibrationInv, UpdateInOrder
<1>8. ReadingsStay
  BY <1>5, <1>6 DEF ReadingsStay
<1>7. UpdateInOrder(u)'
  <2>1. /\ put'[u].pc = "update" /\ put'[u].reply = "none" /\ put'[u].at = i
        /\ put'[u].row = r /\ put'[u].previous = Latest(r)
    BY <1>5
  <2>2. ~ Changed(u)' /\ (Logged(u)' => Changed(u)')
    BY <1>1, <1>6, <1>8, NothingWritten
  <2>3. BeforeWriting(u)'
    <3>1. ReadBut(u, r, Latest(r))'
      BY <1>1, <2>1 DEF ReadBut, Held, Latest
    <3> QED
      BY <1>1, <1>2, <2>1, <3>1 DEF BeforeWriting, Latest, ReadBut, Held, Meanwhile
  <2> QED
    BY <2>1, <2>2, <2>3 DEF UpdateInOrder, Writing, AfterWriting, Serving
<1> QED
  BY <1>1, <1>4, <1>5, <1>7, <1>8, NothingWritten, CacheUnchanged, AllInOrder DEF CalibrationInv

\* An update that is answered or dies without writing.
LEMMA EndsInv ==
    ASSUME CalibrationInv, NEW u \in Updates, NEW how \in {"refused", "failed"}, Reply(u, how),
           how = "refused" => put[u].pc = "update", put[u].pc # "new",
           UNCHANGED <<versions, changelog, cache, restarts>>
    PROVE  CalibrationInv'
<1>1. /\ put' \in [Updates -> UpdateStates]
      /\ \A q \in Updates \ {u} : put'[q] = put[q]
      /\ put'[u].pc = "done" /\ put'[u].reply = how /\ put'[u].at = put[u].at
      /\ put'[u].previous = put[u].previous
  BY Replied DEF CalibrationInv
<1>2. CalibrationTypeOK'
  BY <1>1 DEF CalibrationInv, CalibrationTypeOK
<1>4. ReadingsStay
  BY <1>1 DEF ReadingsStay
<1>3. UpdateInOrder(u)'
  <2>1. /\ put[u].at \in Instances /\ (Logged(u) => Changed(u))
        /\ how = "refused" => ~ Changed(u)
    BY DEF CalibrationInv, UpdateInOrder
  <2>2. Changed(u)' = Changed(u) /\ Logged(u)' = Logged(u)
    BY <1>4, NothingWritten
  <2> QED
    BY <1>1, <2>1, <2>2 DEF UpdateInOrder, BeforeWriting, Writing, AfterWriting, Serving
<1> QED
  BY <1>1, <1>2, <1>3, <1>4, NothingWritten, CacheUnchanged, AllInOrder DEF CalibrationInv

LEMMA LoadInv ==
    ASSUME CalibrationInv, NEW i \in Instances, NEW k \in Keys, Load(i, k)
    PROVE  CalibrationInv'
<1>1. PICK v \in {Latest(KeyRow[k]), Fallback} : cache' = [cache EXCEPT ![i][k] = v]
  BY DEF Load, Found
<1>2. UNCHANGED <<versions, changelog, put, restarts>>
  BY DEF Load
<1>3. v \in Cached
  <2>1. Latest(KeyRow[k]) \in Nat /\ Latest(KeyRow[k]) >= 1
    BY LatestIsNat DEF CalibrationInv
  <2> QED
    BY <2>1 DEF Cached
<1>4. CalibrationTypeOK'
  <2>1. cache' \in [Instances -> [Keys -> Cached]]
    BY <1>1, <1>3 DEF CalibrationInv, CalibrationTypeOK
  <2> QED
    BY <1>2, <2>1 DEF CalibrationInv, CalibrationTypeOK
<1>7. ReadingsStay
  BY <1>2 DEF ReadingsStay
<1>5. CacheInOrder
  BY <1>1 DEF CacheInOrder, CalibrationInv, CalibrationTypeOK
<1>6. \A q \in Updates : UpdateInOrder(q)'
  <2> TAKE q \in Updates
  <2>1. put'[q] = put[q] /\ changelog \subseteq changelog'
    BY <1>2
  <2> QED
    BY <1>2, <1>5, <1>7, <2>1, NothingWritten, OthersStay
<1> QED
  BY <1>2, <1>4, <1>6, <1>7, NothingWritten DEF CalibrationInv

LEMMA ReloadInv ==
    ASSUME CalibrationInv, NEW u \in Updates, Reload(u)
    PROVE  CalibrationInv'
<1>1. /\ put[u].pc = "reload" /\ cache' = [cache EXCEPT ![put[u].at] = EmptyCache] /\ Reply(u, "ok")
      /\ UNCHANGED <<versions, changelog, restarts>>
  BY DEF Reload, At
<1>2. /\ put[u].at \in Instances /\ put[u].row \in Rows /\ put[u].written \in 1 .. Latest(put[u].row)
      /\ Logged(u) /\ Changed(u)
  BY <1>1 DEF CalibrationInv, UpdateInOrder, AfterWriting
<1>3. /\ put' \in [Updates -> UpdateStates]
      /\ \A q \in Updates \ {u} : put'[q] = put[q]
      /\ put'[u].pc = "done" /\ put'[u].reply = "ok" /\ put'[u].at = put[u].at
      /\ put'[u].row = put[u].row /\ put'[u].written = put[u].written
      /\ put'[u].previous = put[u].previous
  BY <1>1, Replied DEF CalibrationInv
<1>9. ReadingsStay
  BY <1>3 DEF ReadingsStay
<1>4. EmptyCache \in [Keys -> Cached] /\ \A k \in Keys : EmptyCache[k] = NotCached
  BY DEF EmptyCache, Cached
<1>5. /\ cache' \in [Instances -> [Keys -> Cached]]
      /\ \A i \in Instances : cache'[i] = IF i = put[u].at THEN EmptyCache ELSE cache[i]
  BY <1>1, <1>4 DEF CalibrationInv, CalibrationTypeOK
<1>6. CacheInOrder
  BY <1>4, <1>5 DEF CacheInOrder
<1>7. CalibrationTypeOK'
  BY <1>1, <1>3, <1>5 DEF CalibrationInv, CalibrationTypeOK
<1>8. UpdateInOrder(u)'
  <2>1. Logged(u)' /\ Changed(u)'
    BY <1>1, <1>2, <1>9, NothingWritten
  <2>2. AfterWriting(u)'
    BY <1>1, <1>2, <1>3, <2>1 DEF AfterWriting, Latest
  <2>3. Serving(u)'
    BY <1>2, <1>3, <1>4, <1>5 DEF Serving, NotCached
  <2> QED
    BY <1>2, <1>3, <2>1, <2>2, <2>3 DEF UpdateInOrder, BeforeWriting, Writing
<1> QED
  BY <1>1, <1>3, <1>6, <1>7, <1>8, <1>9, NothingWritten, AllInOrder DEF CalibrationInv

\* What a request names are columns, and its values are values.
LEMMA FieldsType ==
    ASSUME CalibrationTypeOK, NEW u \in Updates
    PROVE  Named(u) \subseteq Columns /\ \A c \in Named(u) : put[u].fields[c] \in Values
<1>1. put[u].fields \in Payloads \cup {NoFields}
  BY DEF CalibrationTypeOK, UpdateStates, Fields
<1>2. CASE put[u].fields \in Payloads
  <2>1. PICK cs \in SUBSET Columns : put[u].fields \in [cs -> Values]
    BY <1>2, PayloadsAssumption
  <2> QED
    BY <2>1 DEF Named
<1>3. CASE put[u].fields = NoFields
  BY <1>3 DEF NoFields, Named
<1> QED
  BY <1>1, <1>2, <1>3

\* The UPDATE statement adds one version, the update's, which holds what the last one did
\* but for the columns asked for.
LEMMA Stored ==
    ASSUME CalibrationInv, NEW u \in Updates, Store(u),
           NEW r \in Rows, r = put[u].row, NEW n \in Nat, n = Latest(r)
    PROVE  /\ versions' \in [Rows -> Seq(Versions)] /\ \A x \in Rows : versions'[x] # <<>>
           /\ \A x \in Rows \ {r} : versions'[x] = versions[x]
           /\ Len(versions'[r]) = n + 1 /\ Len(versions[r]) = n /\ n >= 1
           /\ \A m \in 1 .. n : versions'[r][m] = versions[r][m]
           /\ versions'[r][n + 1].by = u
           /\ \A c \in Columns \ Asked(u) : versions'[r][n + 1].content[c] = Held(r, n)[c]
<1> DEFINE w == Written(u)
           v == [content |-> w, by |-> u]
<1>1. versions' = [versions EXCEPT ![r] = Append(versions[r], v)]
  BY DEF Store
<1>2. w = [c \in Columns |-> IF c \in Asked(u) THEN put[u].fields[c] ELSE Held(r, n)[c]]
  BY DEF Written
<1>3. n >= 1 /\ Held(r, n) \in Contents /\ Len(versions[r]) = n /\ versions[r] \in Seq(Versions)
  BY LatestIsNat, HeldType DEF CalibrationInv, CalibrationTypeOK, Latest
<1>4. w \in Contents
  <2>1. \A c \in Columns : Held(r, n)[c] \in Values
    BY <1>3 DEF Contents
  <2>2. \A c \in Asked(u) : put[u].fields[c] \in Values
    BY FieldsType DEF Asked, CalibrationInv
  <2> QED
    BY <1>2, <2>1, <2>2 DEF Contents
<1>5. \A c \in Columns \ Asked(u) : w[c] = Held(r, n)[c]
  BY <1>2
<1> HIDE DEF w
<1>6. v \in Versions /\ v.by = u /\ v.content = w
  BY <1>4 DEF Versions
<1> HIDE DEF v
<1> DEFINE s == Append(versions[r], v)
<1>7. /\ s \in Seq(Versions) /\ s # <<>> /\ Len(s) = n + 1
      /\ \A m \in 1 .. n : s[m] = versions[r][m]
      /\ s[n + 1] = v
  BY <1>3, <1>6, AppendProperties
<1> HIDE DEF s
<1>8. versions' = [versions EXCEPT ![r] = s]
  BY <1>1 DEF s
<1>9. versions'[r] = s /\ \A x \in Rows \ {r} : versions'[x] = versions[x]
  BY <1>8 DEF CalibrationInv, CalibrationTypeOK
<1>10. versions' \in [Rows -> Seq(Versions)] /\ \A x \in Rows : versions'[x] # <<>>
  BY <1>7, <1>8 DEF CalibrationInv, CalibrationTypeOK
<1> QED
  BY <1>3, <1>5, <1>6, <1>7, <1>9, <1>10

LEMMA StoreInv ==
    ASSUME CalibrationInv, NEW u \in Updates, UpdateRow(u) \/ UpdateUnacked(u)
    PROVE  CalibrationInv'
<1>1. /\ Store(u) /\ put[u].pc = "update" /\ Asked(u) # {} /\ put[u].at \in Instances
      /\ UNCHANGED <<changelog, cache, restarts>>
      /\ ~ Changed(u) /\ put[u].row \in Rows /\ put[u].previous \in 1 .. Latest(put[u].row)
  BY DEF UpdateRow, UpdateUnacked, Store, At, CalibrationInv, UpdateInOrder, BeforeWriting
<1>2. PICK r \in Rows, n \in Nat : r = put[u].row /\ n = Latest(r)
  BY <1>1, LatestIsNat DEF CalibrationInv
<1>3. /\ versions' \in [Rows -> Seq(Versions)] /\ \A x \in Rows : versions'[x] # <<>>
      /\ \A x \in Rows \ {r} : versions'[x] = versions[x]
      /\ Len(versions'[r]) = n + 1 /\ Len(versions[r]) = n /\ n >= 1
      /\ \A m \in 1 .. n : versions'[r][m] = versions[r][m]
      /\ versions'[r][n + 1].by = u
      /\ \A c \in Columns \ Asked(u) : versions'[r][n + 1].content[c] = Held(r, n)[c]
  BY <1>1, <1>2, Stored
<1>4. VersionsGrow
  <2> SUFFICES ASSUME NEW x \in Rows
               PROVE  /\ Len(versions'[x]) \in Nat /\ Len(versions'[x]) \in {Len(versions[x]), Len(versions[x]) + 1}
                      /\ \A m \in 1 .. Len(versions[x]) : versions'[x][m] = versions[x][m]
    BY DEF VersionsGrow
  <2>1. CASE x = r
    <3>1. /\ Len(versions'[x]) = n + 1 /\ Len(versions[x]) = n
          /\ \A m \in 1 .. n : versions'[x][m] = versions[x][m]
      BY Zenon, <1>3, <2>1
    <3> QED
      BY <1>2, <3>1
  <2>2. CASE x # r
    <3>1. versions'[x] = versions[x] /\ Len(versions[x]) \in Nat
      BY <1>3, <2>2, LatestIsNat DEF CalibrationInv, Latest
    <3> QED
      BY <3>1
  <2> QED
    BY <2>1, <2>2
<1>5. \A x \in Rows : /\ DOMAIN versions[x] = 1 .. Len(versions[x]) /\ Len(versions[x]) \in Nat
                      /\ DOMAIN versions'[x] = 1 .. Len(versions'[x])
  BY <1>3 DEF CalibrationInv, CalibrationTypeOK
<1>6. \A q \in Updates \ {u} : Changed(q)' = Changed(q)
  <2> TAKE q \in Updates \ {u}
  <2>1. ASSUME Changed(q) PROVE Changed(q)'
    <3>1. PICK x \in Rows : \E m \in 1 .. Len(versions[x]) : versions[x][m].by = q
      BY <1>5, <2>1 DEF Changed
    <3>2. PICK m \in 1 .. Len(versions[x]) : versions[x][m].by = q
      BY <3>1
    <3>3. m \in 1 .. Len(versions'[x]) /\ versions'[x][m] = versions[x][m]
      BY <1>4, <1>5 DEF VersionsGrow
    <3> QED
      BY <1>5, <3>2, <3>3 DEF Changed
  <2>2. ASSUME Changed(q)' PROVE Changed(q)
    <3>1. PICK x \in Rows : \E m \in 1 .. Len(versions'[x]) : versions'[x][m].by = q
      BY <1>5, <2>2 DEF Changed
    <3>2. PICK m \in 1 .. Len(versions'[x]) : versions'[x][m].by = q
      BY <3>1
    <3>3. m \in 1 .. Len(versions[x])
      <4>1. CASE x = r
        <5>1. m \in 1 .. n + 1 /\ m # n + 1
          BY <1>3, <3>2, <4>1
        <5> QED
          BY <1>3, <4>1, <5>1
      <4>2. CASE x # r
        BY <1>3, <4>2
      <4> QED
        BY <4>1, <4>2
    <3>4. versions'[x][m] = versions[x][m]
      BY <1>4, <3>3 DEF VersionsGrow
    <3> QED
      BY <1>5, <3>2, <3>3, <3>4 DEF Changed
  <2>3. Changed(q)' \in BOOLEAN /\ Changed(q) \in BOOLEAN
    BY DEF Changed
  <2> QED
    BY <2>1, <2>2, <2>3
<1>7. Changed(u)'
  <2>1. n + 1 \in DOMAIN versions'[r]
    BY <1>3, <1>5
  <2> QED
    BY <1>3, <2>1 DEF Changed
<1>8. CASE UpdateRow(u)
  <2> DEFINE now == [pc |-> "record", reply |-> put[u].reply, at |-> put[u].at, row |-> put[u].row,
                     fields |-> put[u].fields, previous |-> put[u].previous, written |-> n + 1]
  <2>1. put[u] \in UpdateStates /\ put \in [Updates -> UpdateStates]
    BY DEF CalibrationInv, CalibrationTypeOK
  <2>2. put' = [put EXCEPT ![u].pc = "record", ![u].written = n + 1]
    BY <1>2, <1>8 DEF UpdateRow
  <2>3. put'[u] = now
    BY <2>1, <2>2 DEF UpdateStates
  <2>4. now \in UpdateStates
    BY <2>1 DEF UpdateStates
  <2>5. put' \in [Updates -> UpdateStates] /\ \A q \in Updates \ {u} : put'[q] = put[q]
    <3> HIDE DEF now
    <3>1. \A q \in Updates \ {u} : put'[q] = put[q]
      BY <2>1, <2>2
    <3>2. put' = [q \in Updates |-> put'[q]]
      BY <2>1, <2>2
    <3>3. \A q \in Updates : put'[q] \in UpdateStates
      BY <2>1, <2>3, <2>4, <3>1
    <3> QED
      BY <3>1, <3>2, <3>3
  <2>6. /\ put'[u].pc = "record" /\ put'[u].reply = "none" /\ put'[u].at = put[u].at
        /\ put'[u].row = r /\ put'[u].fields = put[u].fields
        /\ put'[u].previous = put[u].previous /\ put'[u].written = n + 1
    <3>1. put[u].reply = "none"
      BY <1>1 DEF CalibrationInv, UpdateInOrder
    <3> QED
      BY <1>2, <2>3, <3>1
  <2>7. Asked(u)' = Asked(u)
    BY <2>6 DEF Asked, Named
  <2>8. WroteVersion(u, r, n + 1)'
    <3>1. (n + 1) - 1 = n /\ n \in 1 .. Latest(r) /\ put[u].previous \in 1 .. n /\ ReadBut(u, r, n)
      BY <1>1, <1>2, <1>3 DEF CalibrationInv, UpdateInOrder, BeforeWriting
    <3>2. Held(r, n)' = Held(r, n)
      BY <1>4, <3>1, PastStays
    <3>3. Differ(r, n, n + 1)' \subseteq Asked(u)
      BY <1>3, <3>2 DEF Differ, Held
    <3>4. ReadBut(u, r, n)'
      BY <1>4, <2>6, <3>1, ReadButStays
    <3> QED
      BY <1>3, <2>7, <3>1, <3>3, <3>4 DEF WroteVersion
  <2>9. Writing(u)'
    <3>1. put[u].previous \in 1 .. n /\ n + 1 \in 2 .. n + 1 /\ (n + 1) - 1 = n
      BY <1>1, <1>2, <1>3
    <3> QED
      BY <1>1, <1>3, <2>6, <2>7, <2>8, <3>1 DEF Writing, Latest, WroteVersion, ReadBut, Meanwhile, Held, Differ
  <2>10. UpdateInOrder(u)'
    BY <1>1, <1>7, <2>6, <2>9 DEF UpdateInOrder, BeforeWriting, AfterWriting, Serving
  <2>11. CalibrationTypeOK'
    BY <1>1, <1>3, <2>5 DEF CalibrationInv, CalibrationTypeOK
  <2>12. \A q \in Updates : Logged(q)' = Logged(q)
    BY <1>1 DEF Logged
  <2>13. \A e \in changelog' : TellsAChange(e)'
    <3>1. ReadingsStay
      BY <2>5, <2>6 DEF ReadingsStay
    <3> QED
      BY <1>1, <1>4, <3>1, EveryTellsStill
  <2> QED
    BY <1>1, <1>4, <1>6, <2>5, <2>10, <2>11, <2>12, <2>13, CacheUnchanged, AllInOrder
       DEF CalibrationInv
<1>9. CASE UpdateUnacked(u)
  <2>1. /\ put' \in [Updates -> UpdateStates]
        /\ \A q \in Updates \ {u} : put'[q] = put[q]
        /\ put'[u].pc = "done" /\ put'[u].reply = "failed" /\ put'[u].at = put[u].at
        /\ put'[u].previous = put[u].previous
    BY <1>9, Replied DEF UpdateUnacked, CalibrationInv
  <2>2. UpdateInOrder(u)'
    BY <1>1, <1>7, <2>1 DEF UpdateInOrder, BeforeWriting, Writing, AfterWriting, Serving
  <2>3. CalibrationTypeOK'
    BY <1>1, <1>3, <2>1 DEF CalibrationInv, CalibrationTypeOK
  <2>4. \A q \in Updates : Logged(q)' = Logged(q)
    BY <1>1 DEF Logged
  <2>5. \A e \in changelog' : TellsAChange(e)'
    <3>1. ReadingsStay
      BY <2>1 DEF ReadingsStay
    <3> QED
      BY <1>1, <1>4, <3>1, EveryTellsStill
  <2> QED
    BY <1>1, <1>4, <1>6, <2>1, <2>2, <2>3, <2>4, <2>5, CacheUnchanged, AllInOrder
       DEF CalibrationInv
<1> QED
  BY <1>8, <1>9

\* The entry of an update that has written its version tells what that version changed.
LEMMA EntryTells ==
    ASSUME CalibrationInv, NEW u \in Updates, put[u].pc = "record"
    PROVE  EntryOf(u) \in Entries /\ EntryOf(u).update = u /\ TellsAChange(EntryOf(u))
<1>1. PICK r \in Rows, n \in Nat, m \in Nat :
        r = put[u].row /\ n = put[u].written /\ m = put[u].previous
  BY DEF CalibrationInv, CalibrationTypeOK, UpdateStates, UpdateInOrder, Writing
<1>2. /\ n \in 2 .. Latest(r) /\ m \in 1 .. n - 1 /\ WroteVersion(u, r, n)
      /\ Latest(r) \in Nat
  BY <1>1, LatestIsNat DEF CalibrationInv, UpdateInOrder, Writing
<1>3. /\ n \in 1 .. Latest(r) /\ m \in 1 .. Latest(r) /\ (n - 1) + 1 = n /\ m # 0
  BY <1>2
<1>4. Held(r, n) \in Contents /\ Held(r, m) \in Contents
  BY <1>3, HeldType DEF CalibrationInv
<1> DEFINE cs == Named(u)
           before == Part(Held(r, m), cs)
           after == Part(Held(r, n), cs)
           e == [update |-> u, row |-> r, columns |-> cs, before |-> before, after |-> after]
<1>5. EntryOf(u) = e
  BY <1>1 DEF EntryOf
<1>6. cs \subseteq Columns /\ Asked(u) \subseteq cs
  BY FieldsType DEF CalibrationInv, Asked
<1>7. /\ before \in [cs -> Values] /\ after \in [cs -> Values]
      /\ \A c \in cs : before[c] = Held(r, m)[c]
  BY <1>4, <1>6 DEF Contents, Part
<1> HIDE DEF cs
<1>8. e \in Entries
  <2> HIDE DEF before, after
  <2>1. e \in [update : Updates, row : Rows, columns : {cs}, before : [cs -> Values], after : [cs -> Values]]
    BY <1>7
  <2> HIDE DEF e
  <2> QED
    BY <1>6, <2>1 DEF Entries
<1>9. {c \in cs : before[c] # Held(r, n - 1)[c]} \subseteq Meanwhile(u, r, n)
  <2> HIDE DEF before
  <2> SUFFICES ASSUME NEW c \in cs, before[c] # Held(r, n - 1)[c] PROVE c \in Meanwhile(u, r, n)
    OBVIOUS
  <2>1. ReadBut(u, r, n - 1)
    BY <1>2 DEF WroteVersion
  <2>2. c \in Columns /\ Held(r, put[u].previous)[c] # Held(r, n - 1)[c]
    BY <1>1, <1>6, <1>7
  <2>3. c \in Meanwhile(u, r, (n - 1) + 1)
    BY <2>1, <2>2 DEF ReadBut
  <2> QED
    BY <1>3, <2>3
<1>10. TellsOf(e, n)
  <2>1. versions[r][n].by = u /\ Differ(r, n - 1, n) \subseteq cs
    BY <1>2, <1>6 DEF WroteVersion
  <2>2. e.update = u /\ e.row = r /\ e.columns = cs /\ e.before = before /\ e.after = after
    OBVIOUS
  <2>3. Part(Held(r, n), cs) = after
    OBVIOUS
  <2> HIDE DEF e, before, after
  <2> QED
    BY <1>9, <2>1, <2>2, <2>3 DEF TellsOf
<1>11. e.update = u /\ e.row = r
  OBVIOUS
<1> HIDE DEF e
<1>12. TellsAChange(e)
  BY <1>1, <1>2, <1>3, <1>10, <1>11 DEF TellsAChange
<1> QED
  BY <1>5, <1>8, <1>11, <1>12

LEMMA LogInv ==
    ASSUME CalibrationInv, NEW u \in Updates, Record(u) \/ RecordUnacked(u)
    PROVE  CalibrationInv'
<1>1. /\ put[u].pc = "record" /\ changelog' = changelog \cup {EntryOf(u)}
      /\ UNCHANGED <<versions, cache, restarts>>
      /\ put[u].at \in Instances /\ put[u].reply = "none"
  BY DEF Record, RecordUnacked, Log, At, CalibrationInv, UpdateInOrder
<1>2. EntryOf(u) \in Entries /\ EntryOf(u).update = u /\ TellsAChange(EntryOf(u))
  BY <1>1, EntryTells
<1>3. put[u].row \in Rows /\ put[u].written \in 2 .. Latest(put[u].row)
      /\ WroteVersion(u, put[u].row, put[u].written)
  BY <1>1 DEF CalibrationInv, UpdateInOrder, Writing
<1>4. VersionsGrow /\ \A q \in Updates : Changed(q)' = Changed(q)
  BY <1>1, VersionsUnchanged DEF CalibrationInv
<1>5. Changed(u)
  <2>1. versions[put[u].row][put[u].written].by = u
    BY <1>3 DEF WroteVersion
  <2>2. put[u].written \in DOMAIN versions[put[u].row]
    BY <1>3, LatestIsNat DEF CalibrationInv
  <2> QED
    BY <1>3, <2>1, <2>2 DEF Changed
<1>6. Logged(u)' /\ \A q \in Updates \ {u} : Logged(q)' => Logged(q)
  BY <1>1, <1>2 DEF Logged
<1>7. \A q \in Updates : put'[q].previous = put[q].previous
  <2>1. put \in [Updates -> UpdateStates]
    BY DEF CalibrationInv, CalibrationTypeOK
  <2>2. CASE Record(u)
    BY <2>1, <2>2 DEF Record, Goto, UpdateStates
  <2>3. CASE RecordUnacked(u)
    BY <2>3, Replied DEF RecordUnacked, CalibrationInv
  <2> QED
    BY <2>2, <2>3
<1>8. \A e \in changelog' : TellsAChange(e)'
  <2> TAKE e \in changelog'
  <2>1. CASE e \in changelog
    <3>1. ReadingsStay
      BY <1>7 DEF ReadingsStay
    <3> QED
      BY <1>4, <2>1, <3>1, EveryTellsStill
  <2>2. CASE e = EntryOf(u)
    <3>1. TellsAChange(e) /\ put'[e.update].previous = put[e.update].previous
      BY <1>2, <1>7, <2>2
    <3> QED
      BY <1>1, <3>1 DEF TellsAChange, TellsOf, Latest, Differ, Held, Meanwhile
  <2> QED
    BY <1>1, <2>1, <2>2
<1>9. CASE Record(u)
  <2> DEFINE now == [pc |-> "reload", reply |-> put[u].reply, at |-> put[u].at, row |-> put[u].row,
                     fields |-> put[u].fields, previous |-> put[u].previous,
                     written |-> put[u].written]
  <2>1. put[u] \in UpdateStates /\ put \in [Updates -> UpdateStates]
    BY DEF CalibrationInv, CalibrationTypeOK
  <2>2. put' = [put EXCEPT ![u].pc = "reload"]
    BY <1>9 DEF Record, Goto
  <2>3. put'[u] = now
    BY <2>1, <2>2 DEF UpdateStates
  <2>4. now \in UpdateStates
    BY <2>1 DEF UpdateStates
  <2>5. put' \in [Updates -> UpdateStates] /\ \A q \in Updates \ {u} : put'[q] = put[q]
    <3> HIDE DEF now
    <3>1. \A q \in Updates \ {u} : put'[q] = put[q]
      BY <2>1, <2>2
    <3>2. put' = [q \in Updates |-> put'[q]]
      BY <2>1, <2>2
    <3>3. \A q \in Updates : put'[q] \in UpdateStates
      BY <2>1, <2>3, <2>4, <3>1
    <3> QED
      BY <3>1, <3>2, <3>3
  <2>6. /\ put'[u].pc = "reload" /\ put'[u].reply = "none" /\ put'[u].at = put[u].at
        /\ put'[u].row = put[u].row /\ put'[u].written = put[u].written
    BY <1>1, <2>3
  <2>7. AfterWriting(u)'
    <3>1. put[u].written \in 1 .. Latest(put[u].row)
      BY <1>3, LatestIsNat DEF CalibrationInv
    <3> QED
      BY <1>1, <1>3, <1>6, <2>6, <3>1 DEF AfterWriting, Latest
  <2>8. UpdateInOrder(u)'
    BY <1>1, <1>4, <1>5, <2>6, <2>7 DEF UpdateInOrder, BeforeWriting, Writing, Serving
  <2>9. CalibrationTypeOK'
    BY <1>1, <1>2, <2>5 DEF CalibrationInv, CalibrationTypeOK
  <2> QED
    BY <1>1, <1>4, <1>6, <1>7, <1>8, <2>5, <2>8, <2>9, CacheUnchanged, AllInOrder
       DEF CalibrationInv
<1>10. CASE RecordUnacked(u)
  <2>1. /\ put' \in [Updates -> UpdateStates]
        /\ \A q \in Updates \ {u} : put'[q] = put[q]
        /\ put'[u].pc = "done" /\ put'[u].reply = "failed" /\ put'[u].at = put[u].at
    BY <1>10, Replied DEF RecordUnacked, CalibrationInv
  <2>2. UpdateInOrder(u)'
    BY <1>1, <1>4, <1>5, <2>1 DEF UpdateInOrder, BeforeWriting, Writing, AfterWriting, Serving
  <2>3. CalibrationTypeOK'
    BY <1>1, <1>2, <2>1 DEF CalibrationInv, CalibrationTypeOK
  <2> QED
    BY <1>1, <1>4, <1>6, <1>7, <1>8, <2>1, <2>2, <2>3, CacheUnchanged, AllInOrder
       DEF CalibrationInv
<1> QED
  BY <1>9, <1>10

LEMMA RestartInv ==
    ASSUME CalibrationInv, NEW i \in Instances, Restart(i)
    PROVE  CalibrationInv'
<1>1. /\ restarts < MaxRestarts /\ restarts' = restarts + 1
      /\ put' = [u \in Updates |-> IF put[u].at = i /\ put[u].pc # "done"
                                   THEN [put[u] EXCEPT !.pc = "done", !.reply = "lost"] ELSE put[u]]
      /\ cache' = [cache EXCEPT ![i] = EmptyCache]
      /\ UNCHANGED <<versions, changelog>>
  BY DEF Restart
<1>2. \A u \in Updates :
        \/ put'[u] = put[u]
        \/ /\ put[u].at = i /\ put[u].pc # "done" /\ put'[u] \in UpdateStates
           /\ put'[u].pc = "done" /\ put'[u].reply = "lost" /\ put'[u].at = put[u].at
           /\ put'[u].previous = put[u].previous
  <2> TAKE u \in Updates
  <2> DEFINE now == [pc |-> "done", reply |-> "lost", at |-> put[u].at, row |-> put[u].row,
                     fields |-> put[u].fields, previous |-> put[u].previous,
                     written |-> put[u].written]
  <2>1. put[u] \in UpdateStates
    BY DEF CalibrationInv, CalibrationTypeOK
  <2>2. CASE put[u].at = i /\ put[u].pc # "done"
    <3>1. put'[u] = [[put[u] EXCEPT !.pc = "done"] EXCEPT !.reply = "lost"]
      BY <1>1, <2>2
    <3>2. [put[u] EXCEPT !.pc = "done"]
            = [pc |-> "done", reply |-> put[u].reply, at |-> put[u].at, row |-> put[u].row,
               fields |-> put[u].fields, previous |-> put[u].previous, written |-> put[u].written]
      BY <2>1 DEF UpdateStates
    <3>3. put'[u] = now
      BY <3>1, <3>2
    <3>4. now \in UpdateStates
      BY <2>1 DEF UpdateStates
    <3> QED
      BY <2>2, <3>3, <3>4
  <2>3. CASE ~(put[u].at = i /\ put[u].pc # "done")
    BY <1>1, <2>3
  <2> QED
    BY <2>2, <2>3
<1>3. CalibrationTypeOK'
  <2>1. put' \in [Updates -> UpdateStates]
    <3>1. put' = [u \in Updates |-> put'[u]]
      BY <1>1
    <3>2. \A u \in Updates : put'[u] \in UpdateStates
      BY <1>2 DEF CalibrationInv, CalibrationTypeOK
    <3> QED
      BY <3>1, <3>2
  <2>2. cache' \in [Instances -> [Keys -> Cached]]
    BY <1>1 DEF CalibrationInv, CalibrationTypeOK, EmptyCache, Cached
  <2>3. restarts' \in 0 .. MaxRestarts
    <3>1. restarts \in 0 .. MaxRestarts
      BY DEF CalibrationInv, CalibrationTypeOK
    <3>2. restarts < MaxRestarts /\ restarts' = restarts + 1 /\ MaxRestarts \in Nat
      BY <1>1
    <3> QED
      BY <3>1, <3>2
  <2> QED
    BY <1>1, <2>1, <2>2, <2>3 DEF CalibrationInv, CalibrationTypeOK
<1>4. CacheInOrder
  <2>1. \A j \in Instances : cache'[j] = IF j = i THEN EmptyCache ELSE cache[j]
    BY <1>1 DEF CalibrationInv, CalibrationTypeOK
  <2>2. \A k \in Keys : EmptyCache[k] = NotCached
    BY DEF EmptyCache
  <2> QED
    BY <2>1, <2>2 DEF CacheInOrder
<1>5. ReadingsStay
  BY <1>2 DEF ReadingsStay
<1>6. \A u \in Updates : UpdateInOrder(u)'
  <2> TAKE u \in Updates
  <2>1. CASE put'[u] = put[u]
    <3>1. changelog \subseteq changelog'
      BY <1>1
    <3> QED
      BY <1>1, <1>4, <1>5, <2>1, <3>1, NothingWritten, OthersStay
  <2>2. CASE put[u].at = i /\ put'[u].pc = "done" /\ put'[u].reply = "lost" /\ put'[u].at = put[u].at
    <3>1. Logged(u) => Changed(u)
      BY DEF CalibrationInv, UpdateInOrder
    <3>2. Logged(u)' => Changed(u)'
      BY <1>1, <1>5, <3>1, NothingWritten
    <3> QED
      BY <2>2, <3>2 DEF UpdateInOrder, BeforeWriting, Writing, AfterWriting, Serving
  <2> QED
    BY <1>2, <2>1, <2>2
<1> QED
  BY <1>1, <1>3, <1>6, <1>5, NothingWritten DEF CalibrationInv

LEMMA CalibrationStep == CalibrationInv /\ [CalibrationNext]_calibrationVars => CalibrationInv'
<1> SUFFICES ASSUME CalibrationInv, [CalibrationNext]_calibrationVars PROVE CalibrationInv'
  OBVIOUS
<1>1. ASSUME NEW u \in Updates, Update(u) PROVE CalibrationInv'
  <2>1. CASE \E i \in Instances, r \in Rows, fields \in Payloads : ReadPrevious(u, i, r, fields)
    BY <2>1, ReadInv
  <2>2. CASE Refuse(u) \/ UpdateFails(u) \/ RecordFails(u)
    BY <2>2, EndsInv DEF Refuse, UpdateFails, RecordFails, At
  <2>3. CASE UpdateRow(u) \/ UpdateUnacked(u)
    BY <2>3, StoreInv
  <2>4. CASE Record(u) \/ RecordUnacked(u)
    BY <2>4, LogInv
  <2>5. CASE Reload(u)
    BY <2>5, ReloadInv
  <2> QED
    BY <1>1, <2>1, <2>2, <2>3, <2>4, <2>5, Zenon DEF Update
<1>2. ASSUME NEW i \in Instances, Restart(i) \/ \E k \in Keys : Load(i, k) PROVE CalibrationInv'
  BY <1>2, RestartInv, LoadInv
<1>3. CASE Done \/ UNCHANGED calibrationVars
  <2>1. UNCHANGED <<versions, changelog, cache, put, restarts>>
    BY <1>3 DEF Done, calibrationVars
  <2>2. CalibrationTypeOK'
    BY <2>1 DEF CalibrationInv, CalibrationTypeOK
  <2>3. ReadingsStay
    BY <2>1 DEF ReadingsStay
  <2>4. \A u \in Updates : UpdateInOrder(u)'
    <3>1. \A u \in Updates : put'[u] = put[u] /\ changelog \subseteq changelog'
      BY <2>1
    <3> QED
      BY <2>1, <2>3, <3>1, NothingWritten, CacheUnchanged, OthersStay
  <2> QED
    BY <2>1, <2>2, <2>3, <2>4, NothingWritten DEF CalibrationInv
<1> QED
  BY <1>1, <1>2, <1>3, Zenon DEF CalibrationNext

LEMMA CalibrationInvariant == CalibrationSpec => []CalibrationInv
  BY CalibrationInitially, CalibrationStep, PTL DEF CalibrationSpec

(* The states and the changelog's entries keep to their types. *)
THEOREM CalibrationTypeCorrect == CalibrationSpec => []CalibrationTypeOK
  BY CalibrationInvariant, PTL DEF CalibrationInv

(* An entry of the changelog is about a version its update made, and shows what that
   version overwrote, but for the columns others changed between the SELECT its "before"
   is from and the UPDATE its "after" is from: a value read is still there unless one of
   the versions in between changed it. *)
THEOREM CalibrationChangelogIsTrue == CalibrationSpec => []ChangelogIsTrue
<1>1. ASSUME CalibrationInv PROVE ChangelogIsTrue
  <2> SUFFICES ASSUME NEW e \in changelog
               PROVE  \E n \in 2 .. Latest(e.row) : TellsOf(e, n)
    BY DEF ChangelogIsTrue, TellsOf
  <2> QED
    BY <1>1 DEF CalibrationInv, TellsAChange
<1> QED
  BY <1>1, CalibrationInvariant, PTL

(* No entry without a change, no 200 without an entry, no change by what was refused. *)
THEOREM CalibrationChangesAreLogged == CalibrationSpec => []ChangesAreLogged
<1>1. CalibrationInv => ChangesAreLogged
  BY DEF CalibrationInv, UpdateInOrder, AfterWriting, Logged, ChangesAreLogged
<1> QED
  BY <1>1, CalibrationInvariant, PTL

(* The instance that answered an update never serves an older version of the row. *)
THEOREM CalibrationOwnUpdateIsServed == CalibrationSpec => []OwnUpdateIsServed
<1>1. CalibrationInv => OwnUpdateIsServed
  BY DEF CalibrationInv, UpdateInOrder, Serving, OwnUpdateIsServed
<1> QED
  BY <1>1, CalibrationInvariant, PTL
==============================================================================
