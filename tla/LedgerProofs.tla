---------------------------- MODULE LedgerProofs ----------------------------
(***************************************************************************)
(* Machine-checked proofs about the audit log of EnterpriseWorlds: whatever  *)
(* is asked, injected, retried, failed or not heard, the events account for  *)
(* the state they left, and agree with it and the tables on money.           *)
(*                                                                           *)
(* What a log leaves of a value is a fold over it, and what rows or events   *)
(* add up to a sum over a set: both are recursions.  The first parts get     *)
(* them from the library's theorem that the naturals are well founded: no    *)
(* more is needed than what they are of nothing, and what one more event or  *)
(* row makes of them.                                                        *)
(***************************************************************************)
EXTENDS WorldsProofs, WellFoundedInduction

(***************************************************************************)
(* Induction                                                               *)
(***************************************************************************)

\* A set of naturals has a least element.
LEMMA LeastNat ==
  ASSUME NEW T, T \subseteq Nat, T # {}
  PROVE  \E m \in T : \A n \in T : ~ (n < m)
  <1> DEFINE R == OpToRel(<, Nat)
  <1>1. IsWellFoundedOn(R, Nat)
    BY NatLessThanWellFounded
  <1>2. \A m, n \in Nat : m < n => <<m, n>> \in R
    BY DEF OpToRel
  <1> HIDE DEF R
  <1>3. \E x \in T : \A y \in T : ~ (<<y, x>> \in R)
    BY <1>1, WFMin
  <1> QED
    BY <1>2, <1>3

\* A set that has 0, and the successor of each natural it has, has them all.
LEMMA InductiveSet ==
  ASSUME NEW P, 0 \in P, \A n \in Nat : n \in P => n + 1 \in P
  PROVE  Nat \subseteq P
  <1> DEFINE T == Nat \ P
  <1> SUFFICES ASSUME T # {}
               PROVE  FALSE
    OBVIOUS
  <1>1. PICK m \in T : \A n \in T : ~ (n < m)
    BY LeastNat
  <1>2. m \in Nat /\ m # 0 /\ m \notin P
    OBVIOUS
  <1>3. m - 1 \in Nat /\ m - 1 < m /\ (m - 1) + 1 = m
    BY <1>2
  <1>4. m - 1 \notin T
    BY <1>1, <1>3
  <1> QED
    BY <1>2, <1>3, <1>4

\* Positions that are not none have a last one.
LEMMA LastIn ==
  ASSUME NEW n \in Nat, NEW s \in SUBSET (1..n), s # {}
  PROVE  Max(s) \in s /\ \A x \in s : x <= Max(s)
  <1> DEFINE T == {k \in Nat : \A x \in s : x <= k}
  <1>1. n \in T
    OBVIOUS
  <1>2. PICK m \in T : \A k \in T : ~ (k < m)
    BY <1>1, LeastNat
  <1>3. m \in s
    <2> SUFFICES ASSUME m \notin s
                 PROVE  FALSE
      OBVIOUS
    <2>1. PICK y \in s : TRUE
      OBVIOUS
    <2>2. \A x \in s : x \in Nat /\ x >= 1 /\ x <= m /\ x # m
      BY <1>2
    <2>3. m \in Nat /\ m >= 1
      BY <1>2, <2>1, <2>2
    <2>4. m - 1 \in T
      BY <2>2, <2>3
    <2> QED
      BY <1>2, <2>3, <2>4
  <1>4. \A x \in s : x \in Int /\ x <= m
    BY <1>2
  <1>5. Max(s) = m
    BY <1>3, <1>4, GreatestOf
  <1> QED
    BY <1>3, <1>4, <1>5

(***************************************************************************)
(* What a log leaves of a value                                            *)
(***************************************************************************)

\* What one event leaves of a value.
After(types, on, value, e) ==
  CASE e.type \in types /\ e.on = on -> e.after
    [] e.type \in types /\ e.on # on /\ e.to = on -> value + e.n
    [] OTHER -> value

\* Left of EnterpriseWorlds, of any log.
LeftBy(types, on, from, lg, n) ==
  FoldLeft(LAMBDA value, e :
             CASE e.type \in types /\ e.on = on -> e.after
               [] e.type \in types /\ e.on # on /\ e.to = on -> value + e.n
               [] OTHER -> value,
           from, [i \in 1..n |-> lg[i].event])

\* g says what each set of the first n events leaves, taken in order.
IsFold(types, on, from, lg, n, g) ==
  g = [s \in SUBSET (1..n) |->
         IF s = {} THEN from
         ELSE After(types, on, g[s \ {Max(s)}], lg[Max(s)].event)]

FoldValues(types, on, from, lg, n, g) ==
  /\ g[{}] = from
  /\ \A s \in SUBSET (1..n) :
       s # {} => g[s] = After(types, on, g[s \ {Max(s)}], lg[Max(s)].event)

LEMMA FoldValue ==
  ASSUME NEW types, NEW on, NEW from, NEW lg, NEW n, NEW g, IsFold(types, on, from, lg, n, g)
  PROVE  FoldValues(types, on, from, lg, n, g)
  <1> DEFINE h == [s \in SUBSET (1..n) |->
                     IF s = {} THEN from
                     ELSE After(types, on, g[s \ {Max(s)}], lg[Max(s)].event)]
  <1>1. g = h
    BY DEF IsFold
  <1>2. /\ h[{}] = from
        /\ \A s \in SUBSET (1..n) :
              s # {} => h[s] = After(types, on, g[s \ {Max(s)}], lg[Max(s)].event)
    OBVIOUS
  <1> HIDE DEF h
  <1> QED
    BY <1>1, <1>2, Zenon DEF FoldValues

\* With one event more, the fold exists if it did without.
LEMMA FoldGrows ==
  ASSUME NEW types, NEW on, NEW from, NEW lg, NEW n \in Nat, NEW g,
         IsFold(types, on, from, lg, n, g)
  PROVE  \E h : IsFold(types, on, from, lg, n + 1, h)
  <1> DEFINE last == lg[n + 1].event
             h == [s \in SUBSET (1..(n + 1)) |->
                     IF n + 1 \in s THEN After(types, on, g[s \ {n + 1}], last) ELSE g[s]]
             f(s) == IF s = {} THEN from
                     ELSE After(types, on, h[s \ {Max(s)}], lg[Max(s)].event)
  <1>1. FoldValues(types, on, from, lg, n, g)
    BY FoldValue
  <1>2. \A s \in SUBSET (1..n) : h[s] = g[s]
    <2>1. \A s \in SUBSET (1..n) : s \in SUBSET (1..(n + 1)) /\ n + 1 \notin s
      OBVIOUS
    <2> QED
      BY <2>1
  <1>3. \A s \in SUBSET (1..(n + 1)) : n + 1 \in s => h[s] = After(types, on, g[s \ {n + 1}], last)
    OBVIOUS
  <1>4. DOMAIN h = SUBSET (1..(n + 1)) /\ h = [s \in SUBSET (1..(n + 1)) |-> h[s]]
    BY Zenon
  <1> HIDE DEF h
  <1>5. ASSUME NEW s \in SUBSET (1..(n + 1))
        PROVE  h[s] = f(s)
    <2>1. CASE n + 1 \in s
      <3>0. n + 1 \in Nat /\ s # {}
        BY <2>1
      <3>1. Max(s) \in s /\ \A x \in s : x <= Max(s)
        BY <3>0, LastIn
      <3>2. Max(s) = n + 1
        <4>1. Max(s) \in 1..(n + 1) /\ n + 1 <= Max(s)
          BY <2>1, <3>1
        <4> QED
          BY <4>1
      <3>3. s \ {n + 1} \in SUBSET (1..n)
        OBVIOUS
      <3>4. h[s \ {n + 1}] = g[s \ {n + 1}]
        BY <1>2, <3>3
      <3> QED
        BY <1>3, <2>1, <3>2, <3>4, Zenon
    <2>2. CASE n + 1 \notin s
      <3>1. s \in SUBSET (1..n)
        BY <2>2
      <3>2. s \ {Max(s)} \in SUBSET (1..n)
        BY <3>1
      <3>3. h[s] = g[s] /\ h[s \ {Max(s)}] = g[s \ {Max(s)}]
        BY <1>2, <3>1, <3>2
      <3> QED
        BY <1>1, <3>1, <3>3, Zenon DEF FoldValues
    <2> QED
      BY <2>1, <2>2
  <1>6. h = [s \in SUBSET (1..(n + 1)) |-> f(s)]
    <2> HIDE DEF f
    <2> QED
      BY <1>4, <1>5
  <1>7. IsFold(types, on, from, lg, n + 1, h)
    BY <1>6 DEF IsFold
  <1> QED
    BY <1>7

LEMMA FoldExists ==
  ASSUME NEW types, NEW on, NEW from, NEW lg, NEW n \in Nat
  PROVE  \E g : IsFold(types, on, from, lg, n, g)
  <1> DEFINE P == {k \in Nat : \E g : IsFold(types, on, from, lg, k, g)}
  <1>1. 0 \in P
    <2> DEFINE g == [s \in SUBSET (1..0) |-> from]
    <2>1. \A s \in SUBSET (1..0) : s = {}
      OBVIOUS
    <2>2. g = [s \in SUBSET (1..0) |->
                 IF s = {} THEN from
                 ELSE After(types, on, g[s \ {Max(s)}], lg[Max(s)].event)]
      BY <2>1
    <2>3. IsFold(types, on, from, lg, 0, g)
      BY <2>2, Zenon DEF IsFold
    <2> QED
      BY <2>3
  <1>2. ASSUME NEW k \in Nat, k \in P
        PROVE  k + 1 \in P
    BY <1>2, FoldGrows
  <1>3. Nat \subseteq P
    <2> HIDE DEF P
    <2> QED
      BY <1>1, <1>2, InductiveSet
  <1> QED
    BY <1>3

\* Folds of different lengths agree on the events both have.
LEMMA FoldsAgree ==
  ASSUME NEW types, NEW on, NEW from, NEW lg, NEW n \in Nat, NEW m \in Nat,
         NEW g, IsFold(types, on, from, lg, n, g),
         NEW h, IsFold(types, on, from, lg, m, h)
  PROVE  \A s \in (SUBSET (1..n)) \cap SUBSET (1..m) : g[s] = h[s]
  <1> DEFINE Same(k) == \A s \in (SUBSET (1..n)) \cap SUBSET (1..m) :
                          s \subseteq 1..k => g[s] = h[s]
             P == {k \in Nat : Same(k)}
  <1>1. FoldValues(types, on, from, lg, n, g)
    BY FoldValue
  <1>2. FoldValues(types, on, from, lg, m, h)
    BY FoldValue
  <1>3. 0 \in P
    <2>1. \A s : s \subseteq 1..0 => s = {}
      OBVIOUS
    <2>2. g[{}] = h[{}]
      BY <1>1, <1>2, Zenon DEF FoldValues
    <2> QED
      BY <2>1, <2>2
  <1>4. ASSUME NEW k \in Nat, k \in P
        PROVE  k + 1 \in P
    <2>0. g[{}] = h[{}]
      BY <1>1, <1>2, Zenon DEF FoldValues
    <2> SUFFICES ASSUME NEW s \in (SUBSET (1..n)) \cap SUBSET (1..m), s \subseteq 1..(k + 1),
                        s # {}
                 PROVE  g[s] = h[s]
      <3>1. k + 1 \in Nat
        OBVIOUS
      <3>2. Same(k + 1)
        BY <2>0, Zenon
      <3> HIDE DEF Same
      <3> QED
        BY <3>1, <3>2
    <2>1. Max(s) \in s /\ \A x \in s : x <= Max(s)
      BY LastIn
    <2> DEFINE r == s \ {Max(s)}
    <2>2. r \in (SUBSET (1..n)) \cap SUBSET (1..m) /\ r \subseteq 1..k
      <3> DEFINE last == Max(s)
      <3> HIDE DEF last
      <3>1. last \in s /\ \A x \in s : x <= last
        BY <2>1 DEF last
      <3>2. \A x \in s \ {last} : x \in 1..k
        BY <3>1
      <3> QED
        BY <3>2 DEF last
    <2>3. g[r] = h[r]
      BY <1>4, <2>2
    <2> QED
      BY <1>1, <1>2, <2>3, Zenon DEF FoldValues
  <1>5. Nat \subseteq P
    <2> HIDE DEF P
    <2> QED
      BY <1>3, <1>4, InductiveSet
  <1>6. Same(n)
    BY <1>5
  <1> QED
    BY <1>6

\* The library's fold is such a fold.
LEMMA LeftIsFold ==
  ASSUME NEW types, NEW on, NEW from, NEW lg, NEW n \in Nat
  PROVE  \E g : IsFold(types, on, from, lg, n, g) /\ LeftBy(types, on, from, lg, n) = g[1..n]
  <1> DEFINE ev == [i \in 1..n |-> lg[i].event]
             F(g) == [s \in SUBSET (1..n) |->
                        IF s = {} THEN from
                        ELSE After(types, on, g[s \ {Max(s)}], ev[Max(s)])]
             iter == CHOOSE g : g = F(g)
  <1>1. DOMAIN ev = 1..n
    OBVIOUS
  <1>2. LeftBy(types, on, from, lg, n) = iter[1..n]
    <2>1. LeftBy(types, on, from, lg, n) =
            (CHOOSE g : g = [s \in SUBSET DOMAIN ev |->
                               IF s = {} THEN from
                               ELSE After(types, on, g[s \ {Max(s)}], ev[Max(s)])])[DOMAIN ev]
      BY Zenon DEF LeftBy, FoldLeft, MapThenFoldSet, After
    <2> HIDE DEF ev
    <2> QED
      BY <1>1, <2>1, Zenon
  <1>3. \A g : IsFold(types, on, from, lg, n, g) <=> g = F(g)
    <2> SUFFICES ASSUME NEW g
                 PROVE  [s \in SUBSET (1..n) |->
                           IF s = {} THEN from
                           ELSE After(types, on, g[s \ {Max(s)}], lg[Max(s)].event)] = F(g)
      BY Zenon DEF IsFold
    <2>1. ASSUME NEW s \in SUBSET (1..n), s # {}
          PROVE  ev[Max(s)] = lg[Max(s)].event
      BY <2>1, LastIn
    <2> HIDE DEF ev
    <2> QED
      BY <2>1
  <1> HIDE DEF F
  <1>4. iter = F(iter)
    BY <1>3, FoldExists, Zenon
  <1> HIDE DEF iter
  <1> QED
    BY <1>2, <1>3, <1>4, Zenon

\* No events leave what there was.
LEMMA LeftByNone ==
  ASSUME NEW types, NEW on, NEW from, NEW lg
  PROVE  LeftBy(types, on, from, lg, 0) = from
  <1> DEFINE n == 0
  <1>1. n \in Nat /\ 1..n = {}
    OBVIOUS
  <1> HIDE DEF n
  <1>2. PICK g : IsFold(types, on, from, lg, n, g) /\ LeftBy(types, on, from, lg, n) = g[1..n]
    BY <1>1, LeftIsFold
  <1>3. FoldValues(types, on, from, lg, n, g)
    BY <1>2, FoldValue
  <1>4. LeftBy(types, on, from, lg, n) = from
    BY <1>1, <1>2, <1>3, Zenon DEF FoldValues
  <1> QED
    BY <1>4 DEF n

\* One more event leaves what it makes of what the others left.
LEMMA LeftByOneMore ==
  ASSUME NEW types, NEW on, NEW from, NEW lg, NEW n \in Nat
  PROVE  LeftBy(types, on, from, lg, n + 1)
           = After(types, on, LeftBy(types, on, from, lg, n), lg[n + 1].event)
  <1> DEFINE m == n + 1
             all == 1..m
  <1>1. m \in Nat /\ all \in SUBSET (1..m) /\ all # {} /\ m \in all
        /\ 1..n \in SUBSET (1..n) /\ 1..n \in SUBSET (1..m)
    OBVIOUS
  <1>2. Max(all) = m
    <2>1. all \subseteq Int /\ \A x \in all : m >= x
      OBVIOUS
    <2> HIDE DEF m, all
    <2> QED
      BY <1>1, <2>1, GreatestOf
  <1>3. all \ {m} = 1..n
    OBVIOUS
  <1> HIDE DEF m, all
  <1>4. PICK g : IsFold(types, on, from, lg, n, g) /\ LeftBy(types, on, from, lg, n) = g[1..n]
    BY LeftIsFold
  <1>5. PICK h : IsFold(types, on, from, lg, m, h) /\ LeftBy(types, on, from, lg, m) = h[1..m]
    BY <1>1, LeftIsFold
  <1>6. h[1..n] = g[1..n]
    BY <1>1, <1>4, <1>5, FoldsAgree
  <1>7. FoldValues(types, on, from, lg, m, h)
    BY <1>5, FoldValue
  <1>8. h[all] = After(types, on, h[1..n], lg[m].event)
    BY <1>1, <1>2, <1>3, <1>7, Zenon DEF FoldValues
  <1>9. LeftBy(types, on, from, lg, m)
          = After(types, on, LeftBy(types, on, from, lg, n), lg[m].event)
    BY <1>4, <1>5, <1>6, <1>8, Zenon DEF all
  <1> QED
    BY <1>9 DEF m

\* What the first n events leave does not depend on the later ones.
LEMMA LeftByFirst ==
  ASSUME NEW types, NEW on, NEW from, NEW n, NEW lg, NEW more,
         \A i \in 1..n : more[i] = lg[i]
  PROVE  LeftBy(types, on, from, more, n) = LeftBy(types, on, from, lg, n)
  <1>1. [i \in 1..n |-> more[i].event] = [i \in 1..n |-> lg[i].event]
    OBVIOUS
  <1> QED
    BY <1>1, Zenon DEF LeftBy

(***************************************************************************)
(* Explanations                                                            *)
(***************************************************************************)

\* Explained of EnterpriseWorlds, of any log.
ExplainedBy(types, on, from, lg, now) ==
  /\ now = LeftBy(types, on, from, lg, Len(lg))
  /\ \A i \in DOMAIN lg : lg[i].event.type \in types /\ lg[i].event.on = on =>
       lg[i].event.before = LeftBy(types, on, from, lg, i - 1)

\* An event tells the change it comes with: from old to new.
Tells(types, on, old, new, e) ==
  /\ new = After(types, on, old, e)
  /\ e.type \in types /\ e.on = on => e.before = old

LEMMA NothingExplained ==
  ASSUME NEW types, NEW on, NEW from
  PROVE  ExplainedBy(types, on, from, <<>>, from)
  <1>1. Len(<<>>) = 0 /\ DOMAIN <<>> = {}
    OBVIOUS
  <1>2. LeftBy(types, on, from, <<>>, 0) = from
    BY LeftByNone
  <1> QED
    BY <1>1, <1>2 DEF ExplainedBy

\* A log that explains a value, and an event that tells its change, explain the
\* changed value.
LEMMA OneMoreExplained ==
  ASSUME NEW types, NEW on, NEW from, NEW E, NEW lg \in Seq(Entries(E)), NEW old,
         ExplainedBy(types, on, from, lg, old),
         NEW F, NEW entry \in Entries(F), NEW new, Tells(types, on, old, new, entry.event)
  PROVE  ExplainedBy(types, on, from, Append(lg, entry), new)
  <1> DEFINE more == Append(lg, entry)
             n == Len(lg)
  <1>1. /\ n \in Nat /\ DOMAIN lg = 1..n
        /\ DOMAIN more = 1..(n + 1)
        /\ \A i \in DOMAIN lg : more[i] = lg[i]
        /\ more[n + 1] = entry
    BY AppendEntry
  <1>2. Len(more) = n + 1
    <2>1. more \in Seq(Entries(E \cup F))
      BY AppendEntry
    <2>2. DOMAIN more = 1..Len(more) /\ Len(more) \in Nat
      <3> HIDE DEF more
      <3> QED
        BY <2>1
    <2> HIDE DEF more, n
    <2> QED
      BY <1>1, <2>2
  <1> HIDE DEF more, n
  <1>3. ASSUME NEW k \in Nat, k <= n
        PROVE  LeftBy(types, on, from, more, k) = LeftBy(types, on, from, lg, k)
    <2>1. \A i \in 1..k : more[i] = lg[i]
      BY <1>1, <1>3
    <2> QED
      BY <2>1, LeftByFirst
  <1>4. LeftBy(types, on, from, more, n) = old
    <2>1. LeftBy(types, on, from, lg, n) = old
      BY DEF ExplainedBy, n
    <2> QED
      BY <1>1, <1>3, <2>1
  <1>5. LeftBy(types, on, from, more, n + 1) = After(types, on, old, entry.event)
    <2>1. LeftBy(types, on, from, more, n + 1)
            = After(types, on, LeftBy(types, on, from, more, n), more[n + 1].event)
      BY <1>1, LeftByOneMore
    <2> QED
      BY <1>1, <1>4, <2>1, Zenon
  <1>6. new = LeftBy(types, on, from, more, Len(more))
    BY <1>2, <1>5, Zenon DEF Tells
  <1>7. ASSUME NEW i \in DOMAIN more, more[i].event.type \in types, more[i].event.on = on
        PROVE  more[i].event.before = LeftBy(types, on, from, more, i - 1)
    <2>1. CASE i = n + 1
      <3>1. more[i] = entry /\ i - 1 = n
        BY <1>1, <2>1
      <3>2. entry.event.before = old
        BY <1>7, <3>1 DEF Tells
      <3> QED
        BY <1>4, <3>1, <3>2, Zenon
    <2>2. CASE i # n + 1
      <3>1. i \in DOMAIN lg /\ more[i] = lg[i] /\ i - 1 \in Nat /\ i - 1 <= n
        BY <1>1, <2>2
      <3>2. lg[i].event.before = LeftBy(types, on, from, lg, i - 1)
        BY <1>7, <3>1 DEF ExplainedBy
      <3> QED
        BY <1>3, <3>1, <3>2
    <2> QED
      BY <2>1, <2>2
  <1> QED
    BY <1>6, <1>7 DEF ExplainedBy, more

(***************************************************************************)
(* Sums                                                                    *)
(***************************************************************************)

\* h says what the numbers f gives to each subset of S add up to.
Additive(f, S, h) ==
  /\ \A x \in S : f[x] \in Int
  /\ h \in [SUBSET S -> Int]
  /\ h[{}] = 0
  /\ \A s \in SUBSET S : \A x \in s : h[s] = f[x] + h[s \ {x}]

\* The numbers f gives to S add up to v.
AddsUpTo(f, S, v) == \E h : Additive(f, S, h) /\ h[S] = v

LEMMA NothingAdds ==
  ASSUME NEW f
  PROVE  AddsUpTo(f, {}, 0)
  <1> DEFINE h == [s \in SUBSET {} |-> 0]
  <1>1. Additive(f, {}, h) /\ h[{}] = 0
    BY DEF Additive
  <1> QED
    BY <1>1 DEF AddsUpTo

\* Nothing adds up to anything else.
LEMMA NothingAddsOnly ==
  ASSUME NEW f, NEW v, AddsUpTo(f, {}, v)
  PROVE  v = 0
  BY DEF AddsUpTo, Additive

LEMMA SumIsInt ==
  ASSUME NEW f, NEW S, NEW v, AddsUpTo(f, S, v)
  PROVE  v \in Int
  <1>1. PICK h : Additive(f, S, h) /\ h[S] = v
    BY DEF AddsUpTo
  <1>2. S \in SUBSET S
    OBVIOUS
  <1> QED
    BY <1>1, <1>2 DEF Additive

\* Only the numbers of S count.
LEMMA SameNumbersAdd ==
  ASSUME NEW f, NEW S, NEW v, AddsUpTo(f, S, v), NEW g, \A x \in S : g[x] = f[x]
  PROVE  AddsUpTo(g, S, v)
  <1>1. PICK h : Additive(f, S, h) /\ h[S] = v
    BY DEF AddsUpTo
  <1>2. ASSUME NEW s \in SUBSET S, NEW x \in s
        PROVE  h[s] = g[x] + h[s \ {x}]
    <2>1. h[s] = f[x] + h[s \ {x}]
      BY <1>1 DEF Additive
    <2>2. g[x] = f[x]
      OBVIOUS
    <2> QED
      BY <2>1, <2>2
  <1>3. Additive(g, S, h)
    <2>1. \A x \in S : g[x] \in Int
      BY <1>1 DEF Additive
    <2> QED
      BY <1>1, <1>2, <2>1 DEF Additive
  <1> QED
    BY <1>1, <1>3 DEF AddsUpTo

\* One number more adds itself.
LEMMA OneMoreAdds ==
  ASSUME NEW f, NEW S, NEW v, AddsUpTo(f, S, v), NEW m, m \notin S, NEW n \in Int, f[m] = n
  PROVE  AddsUpTo(f, S \cup {m}, v + n)
  <1> DEFINE T == S \cup {m}
  <1>1. PICK h : Additive(f, S, h) /\ h[S] = v
    BY DEF AddsUpTo
  <1> DEFINE g == [s \in SUBSET T |-> IF m \in s THEN n + h[s \ {m}] ELSE h[s]]
  <1>2. ASSUME NEW s \in SUBSET T
        PROVE  /\ s \ {m} \in SUBSET S /\ (m \notin s => s \in SUBSET S)
               /\ \A x : s \ {x} \in SUBSET T
    OBVIOUS
  <1>3. \A s \in SUBSET S : h[s] \in Int
    BY <1>1 DEF Additive
  <1>4. /\ \A s \in SUBSET T : m \in s => g[s] = n + h[s \ {m}]
        /\ \A s \in SUBSET T : m \notin s => g[s] = h[s]
    OBVIOUS
  <1>5. g \in [SUBSET T -> Int]
    <2>1. ASSUME NEW s \in SUBSET T
          PROVE  (IF m \in s THEN n + h[s \ {m}] ELSE h[s]) \in Int
      <3> HIDE DEF T
      <3>1. CASE m \in s
        BY <1>2, <1>3, <3>1
      <3>2. CASE m \notin s
        BY <1>2, <1>3, <3>2
      <3> QED
        BY <3>1, <3>2
    <2> QED
      BY <2>1
  <1> HIDE DEF g, T
  <1>6. ASSUME NEW s \in SUBSET T, NEW x \in s
        PROVE  g[s] = f[x] + g[s \ {x}]
    <2> DEFINE r == s \ {x}
    <2>0. r \in SUBSET T
      BY <1>2
    <2>1. CASE m \notin s
      <3>1. s \in SUBSET S /\ m \notin r
        BY <1>2, <2>1
      <3>2. h[s] = f[x] + h[r]
        BY <1>1, <3>1 DEF Additive
      <3> HIDE DEF r
      <3> QED
        BY <1>4, <2>0, <2>1, <3>1, <3>2 DEF r
    <2>2. CASE x = m
      <3>1. g[s] = n + h[r] /\ g[r] = h[r]
        BY <1>4, <2>0, <2>2
      <3> QED
        BY <2>2, <3>1
    <2>3. CASE m \in s /\ x # m
      <3> DEFINE q == s \ {m}
      <3>1. q \in SUBSET S /\ x \in q /\ m \in r
        BY <1>2, <2>3
      <3>2. h[q] = f[x] + h[q \ {x}]
        BY <1>1, <3>1 DEF Additive
      <3>3. q \ {x} = r \ {m} /\ r \ {m} \in SUBSET S
        BY <3>1
      <3>4. g[s] = n + h[q] /\ g[r] = n + h[r \ {m}]
        BY <1>4, <2>0, <2>3, <3>1
      <3>5. f[x] \in Int /\ h[r \ {m}] \in Int
        BY <1>1, <1>3, <3>1, <3>3 DEF Additive
      <3> DEFINE a == f[x]
                 b == h[r \ {m}]
      <3>6. n + (a + b) = a + (n + b)
        <4>1. a \in Int /\ b \in Int
          BY <3>5
        <4> HIDE DEF a, b
        <4> QED
          BY <4>1
      <3> QED
        BY <3>2, <3>3, <3>4, <3>6
    <2> QED
      BY <2>1, <2>2, <2>3
  <1>7. g[{}] = 0
    BY <1>1, <1>4 DEF Additive
  <1>8. Additive(f, T, g)
    <2>1. \A x \in T : f[x] \in Int
      BY <1>1 DEF Additive, T
    <2> QED
      BY <1>5, <1>6, <1>7, <2>1 DEF Additive
  <1>9. g[T] = v + n
    <2>1. T \in SUBSET T /\ m \in T /\ T \ {m} = S
      BY DEF T
    <2>2. g[T] = n + v
      BY <1>1, <1>4, <2>1, Zenon
    <2>3. v \in Int
      BY SumIsInt
    <2> QED
      BY <2>2, <2>3
  <1> QED
    BY <1>8, <1>9 DEF AddsUpTo, T

\* What the library's sum is, for one choice of the elements' order.
Chosen(s) == CHOOSE x \in s : TRUE
IsSum(f, S, g) ==
  g = [s \in SUBSET S |-> IF s = {} THEN 0 ELSE f[Chosen(s)] + g[s \ {Chosen(s)}]]

LEMMA ChosenIn ==
  ASSUME NEW s, s # {}
  PROVE  Chosen(s) \in s
  BY Zenon DEF Chosen

SumValues(f, S, g) ==
  /\ g[{}] = 0
  /\ \A s \in SUBSET S : s # {} => g[s] = f[Chosen(s)] + g[s \ {Chosen(s)}]

LEMMA SumValue ==
  ASSUME NEW f, NEW S, NEW g, IsSum(f, S, g)
  PROVE  SumValues(f, S, g)
  <1> DEFINE h == [s \in SUBSET S |-> IF s = {} THEN 0 ELSE f[Chosen(s)] + g[s \ {Chosen(s)}]]
  <1>1. g = h
    BY DEF IsSum
  <1>2. /\ h[{}] = 0
        /\ \A s \in SUBSET S : s # {} => h[s] = f[Chosen(s)] + g[s \ {Chosen(s)}]
    OBVIOUS
  <1> HIDE DEF h
  <1> QED
    BY <1>1, <1>2, Zenon DEF SumValues

LEMMA AdditiveIsSum ==
  ASSUME NEW f, NEW S, NEW h, Additive(f, S, h)
  PROVE  IsSum(f, S, h)
  <1> DEFINE F(s) == IF s = {} THEN 0 ELSE f[Chosen(s)] + h[s \ {Chosen(s)}]
  <1>1. h = [s \in SUBSET S |-> h[s]]
    BY DEF Additive
  <1>2. ASSUME NEW s \in SUBSET S
        PROVE  h[s] = F(s)
    <2>1. CASE s = {}
      BY <2>1 DEF Additive
    <2>2. CASE s # {}
      BY <2>2, ChosenIn DEF Additive
    <2> QED
      BY <2>1, <2>2
  <1>3. h = [s \in SUBSET S |-> F(s)]
    <2> HIDE DEF F
    <2> QED
      BY <1>1, <1>2
  <1> QED
    BY <1>3 DEF IsSum

\* In whatever order the numbers of a finite set are added, the sum is the same.
LEMMA SumsAgree ==
  ASSUME NEW f, NEW S, IsFiniteSet(S), NEW h, Additive(f, S, h), NEW g, IsSum(f, S, g)
  PROVE  g[S] = h[S]
  <1> DEFINE Same(k) == \A s \in SUBSET S : Cardinality(s) = k => g[s] = h[s]
             P == {k \in Nat : Same(k)}
  <1>1. /\ g[{}] = 0
        /\ \A s \in SUBSET S : s # {} => g[s] = f[Chosen(s)] + g[s \ {Chosen(s)}]
    BY SumValue DEF SumValues
  <1>2. \A s \in SUBSET S : IsFiniteSet(s) /\ Cardinality(s) \in Nat
    BY FS_Subset, FS_CardinalityType
  <1>3. 0 \in P
    <2>1. ASSUME NEW s \in SUBSET S, Cardinality(s) = 0
          PROVE  g[s] = h[s]
      <3>1. s = {}
        BY <1>2, <2>1, FS_EmptySet
      <3> QED
        BY <1>1, <3>1 DEF Additive
    <2> QED
      BY <2>1
  <1>4. ASSUME NEW k \in Nat, k \in P
        PROVE  k + 1 \in P
    <2>1. ASSUME NEW s \in SUBSET S, Cardinality(s) = k + 1
          PROVE  g[s] = h[s]
      <3>1. s # {}
        BY <2>1, FS_EmptySet
      <3> DEFINE x == Chosen(s)
                 r == s \ {x}
      <3>2. x \in s
        BY <3>1, ChosenIn
      <3> HIDE DEF x
      <3>3. r \in SUBSET S /\ Cardinality(r) = k
        <4>1. Cardinality(r) = Cardinality(s) - 1
          BY <1>2, <3>2, FS_RemoveElement
        <4> QED
          BY <2>1, <4>1
      <3>4. g[r] = h[r]
        BY <1>4, <3>3
      <3>5. g[s] = f[x] + g[r]
        BY <1>1, <3>1, Zenon DEF x
      <3>6. h[s] = f[x] + h[r]
        BY <3>2 DEF Additive
      <3> QED
        BY <3>4, <3>5, <3>6
    <2>2. k + 1 \in Nat
      OBVIOUS
    <2> QED
      BY <2>1, <2>2
  <1>5. Nat \subseteq P
    <2> HIDE DEF P
    <2> QED
      BY <1>3, <1>4, InductiveSet
  <1>6. S \in SUBSET S /\ Cardinality(S) \in P
    BY <1>2, <1>5
  <1> QED
    BY <1>6

\* The sums of EnterpriseWorlds: of what the events of a log at some positions
\* say, and of the amounts of some rows of a table.
Amounts(lg) == [i \in DOMAIN lg |-> lg[i].event.n]
Column(rows) == [i \in DOMAIN rows |-> rows[i].amount]
EventSum(lg, S) == MapThenSumSet(LAMBDA i : lg[i].event.n, S)
RowSum(rows, S) == MapThenSumSet(LAMBDA i : rows[i].amount, S)

LEMMA EventSumAdds ==
  ASSUME NEW lg, NEW S, S \subseteq DOMAIN lg, IsFiniteSet(S),
         NEW v, AddsUpTo(Amounts(lg), S, v)
  PROVE  EventSum(lg, S) = v
  <1> DEFINE F(g) == [s \in SUBSET S |-> IF s = {} THEN 0
                                         ELSE lg[Chosen(s)].event.n + g[s \ {Chosen(s)}]]
             iter == CHOOSE g : g = F(g)
             f == Amounts(lg)
  <1>1. EventSum(lg, S) = iter[S]
    BY Zenon DEF EventSum, MapThenSumSet, MapThenFoldSet, Chosen
  <1>2. \A g : IsSum(f, S, g) <=> g = F(g)
    <2> SUFFICES ASSUME NEW g
                 PROVE  [s \in SUBSET S |-> IF s = {} THEN 0 ELSE f[Chosen(s)] + g[s \ {Chosen(s)}]]
                          = F(g)
      BY Zenon DEF IsSum
    <2>1. ASSUME NEW s \in SUBSET S, s # {}
          PROVE  f[Chosen(s)] = lg[Chosen(s)].event.n
      BY <2>1, ChosenIn DEF Amounts
    <2> HIDE DEF f
    <2> QED
      BY <2>1
  <1> HIDE DEF F, f
  <1>3. PICK h : Additive(f, S, h) /\ h[S] = v
    BY DEF AddsUpTo, f
  <1>4. iter = F(iter)
    BY <1>2, <1>3, AdditiveIsSum, Zenon
  <1> HIDE DEF iter
  <1>5. iter[S] = h[S]
    BY <1>2, <1>3, <1>4, SumsAgree
  <1> QED
    BY <1>1, <1>3, <1>5

LEMMA RowSumAdds ==
  ASSUME NEW rows, NEW S, S \subseteq DOMAIN rows, IsFiniteSet(S),
         NEW v, AddsUpTo(Column(rows), S, v)
  PROVE  RowSum(rows, S) = v
  <1> DEFINE F(g) == [s \in SUBSET S |-> IF s = {} THEN 0
                                         ELSE rows[Chosen(s)].amount + g[s \ {Chosen(s)}]]
             iter == CHOOSE g : g = F(g)
             f == Column(rows)
  <1>1. RowSum(rows, S) = iter[S]
    BY Zenon DEF RowSum, MapThenSumSet, MapThenFoldSet, Chosen
  <1>2. \A g : IsSum(f, S, g) <=> g = F(g)
    <2> SUFFICES ASSUME NEW g
                 PROVE  [s \in SUBSET S |-> IF s = {} THEN 0 ELSE f[Chosen(s)] + g[s \ {Chosen(s)}]]
                          = F(g)
      BY Zenon DEF IsSum
    <2>1. ASSUME NEW s \in SUBSET S, s # {}
          PROVE  f[Chosen(s)] = rows[Chosen(s)].amount
      BY <2>1, ChosenIn DEF Column
    <2> HIDE DEF f
    <2> QED
      BY <2>1
  <1> HIDE DEF F, f
  <1>3. PICK h : Additive(f, S, h) /\ h[S] = v
    BY DEF AddsUpTo, f
  <1>4. iter = F(iter)
    BY <1>2, <1>3, AdditiveIsSum, Zenon
  <1> HIDE DEF iter
  <1>5. iter[S] = h[S]
    BY <1>2, <1>3, <1>4, SumsAgree
  <1> QED
    BY <1>1, <1>3, <1>5

\* A log or a table: entries in the order they were appended.
IsList(q) == \E T : q \in Seq(T)

LEMMA EmptyList == IsList(<<>>) /\ DOMAIN <<>> = {}
  <1>1. <<>> \in Seq({})
    OBVIOUS
  <1> QED
    BY <1>1 DEF IsList

LEMMA ListGrows ==
  ASSUME NEW q, IsList(q), NEW x
  PROVE  /\ IsList(Append(q, x))
         /\ Len(q) \in Nat
         /\ DOMAIN q = 1..Len(q)
         /\ DOMAIN Append(q, x) = 1..(Len(q) + 1)
         /\ \A i \in DOMAIN q : Append(q, x)[i] = q[i]
         /\ Append(q, x)[Len(q) + 1] = x
  <1>1. PICK T : q \in Seq(T)
    BY DEF IsList
  <1>2. Len(q) \in Nat /\ DOMAIN q = 1..Len(q)
    BY <1>1
  <1> DEFINE U == T \cup {x}
  <1>3. q \in Seq(U) /\ x \in U
    BY <1>1, SeqMonotonic
  <1> HIDE DEF U
  <1>4. /\ Append(q, x) \in Seq(U)
        /\ Len(Append(q, x)) = Len(q) + 1
        /\ \A i \in 1..Len(q) : Append(q, x)[i] = q[i]
        /\ Append(q, x)[Len(q) + 1] = x
    BY <1>3, AppendProperties
  <1>5. DOMAIN Append(q, x) = 1..(Len(q) + 1)
    BY <1>4
  <1> QED
    BY <1>2, <1>4, <1>5 DEF IsList

LEMMA PositionsFinite ==
  ASSUME NEW q, IsList(q), NEW S, S \subseteq DOMAIN q
  PROVE  IsFiniteSet(S)
  <1>1. DOMAIN q = 1..Len(q) /\ Len(q) \in Nat
    BY ListGrows
  <1>2. IsFiniteSet(1..Len(q))
    BY <1>1, FS_Interval
  <1> QED
    BY <1>1, <1>2, FS_Subset

\* The events of a log about one thing, the rows of one table about one thing,
\* the refunds of one order.
EventsIn(lg, types, on) == {i \in DOMAIN lg : lg[i].event.type \in types /\ lg[i].event.on = on}
RowsIn(rows, table, on) == {i \in DOMAIN rows : rows[i].table = table /\ rows[i].of = on}
RefundsIn(refunds, o) == {i \in DOMAIN refunds : refunds[i].order = o}

IsAbout(event, types, on) == event.type \in types /\ event.on = on
IsRowOf(row, table, on) == row.table = table /\ row.of = on

\* The events about one thing after one entry more.
EventsGrown(lg, entry, types, on) ==
  /\ EventsIn(lg, types, on) \subseteq DOMAIN lg
  /\ Len(lg) + 1 \notin EventsIn(lg, types, on)
  /\ IsAbout(entry.event, types, on) =>
       EventsIn(Append(lg, entry), types, on) = EventsIn(lg, types, on) \cup {Len(lg) + 1}
  /\ ~ IsAbout(entry.event, types, on) =>
       EventsIn(Append(lg, entry), types, on) = EventsIn(lg, types, on)

LEMMA EventsGrow ==
  ASSUME NEW lg, IsList(lg), NEW entry, NEW types, NEW on
  PROVE  EventsGrown(lg, entry, types, on)
  <1> DEFINE more == Append(lg, entry)
             m == Len(lg) + 1
  <1>1. /\ Len(lg) \in Nat /\ DOMAIN lg = 1..Len(lg)
        /\ DOMAIN more = 1..m
        /\ \A i \in DOMAIN lg : more[i] = lg[i]
        /\ more[m] = entry
    BY ListGrows
  <1>2. m \notin DOMAIN lg /\ DOMAIN more = DOMAIN lg \cup {m}
    BY <1>1
  <1> HIDE DEF more, m
  <1>3. EventsIn(lg, types, on) \subseteq DOMAIN lg
    BY DEF EventsIn
  <1>4. IsAbout(entry.event, types, on) =>
          EventsIn(more, types, on) = EventsIn(lg, types, on) \cup {m}
    BY <1>1, <1>2 DEF EventsIn, IsAbout
  <1>5. ~ IsAbout(entry.event, types, on) =>
          EventsIn(more, types, on) = EventsIn(lg, types, on)
    BY <1>1, <1>2 DEF EventsIn, IsAbout
  <1> QED
    BY <1>2, <1>3, <1>4, <1>5 DEF EventsGrown, more, m

LEMMA RowsGrow ==
  ASSUME NEW rows, IsList(rows), NEW row, NEW table, NEW on
  PROVE  /\ RowsIn(rows, table, on) \subseteq DOMAIN rows
         /\ Len(rows) + 1 \notin RowsIn(rows, table, on)
         /\ IsRowOf(row, table, on) =>
              RowsIn(Append(rows, row), table, on) = RowsIn(rows, table, on) \cup {Len(rows) + 1}
         /\ ~ IsRowOf(row, table, on) =>
              RowsIn(Append(rows, row), table, on) = RowsIn(rows, table, on)
  <1> DEFINE more == Append(rows, row)
             m == Len(rows) + 1
  <1>1. /\ Len(rows) \in Nat /\ DOMAIN rows = 1..Len(rows)
        /\ DOMAIN more = 1..m
        /\ \A i \in DOMAIN rows : more[i] = rows[i]
        /\ more[m] = row
    BY ListGrows
  <1>2. m \notin DOMAIN rows /\ DOMAIN more = DOMAIN rows \cup {m}
    BY <1>1
  <1> HIDE DEF more, m
  <1>3. RowsIn(rows, table, on) \subseteq DOMAIN rows
    BY DEF RowsIn
  <1>4. IsRowOf(row, table, on) =>
          RowsIn(more, table, on) = RowsIn(rows, table, on) \cup {m}
    BY <1>1, <1>2 DEF RowsIn, IsRowOf
  <1>5. ~ IsRowOf(row, table, on) =>
          RowsIn(more, table, on) = RowsIn(rows, table, on)
    BY <1>1, <1>2 DEF RowsIn, IsRowOf
  <1> QED
    BY <1>2, <1>3, <1>4, <1>5 DEF more, m

\* What the events about one thing, and what the rows about it, add up to.
EventTotal(types, on, lg, v) == AddsUpTo(Amounts(lg), EventsIn(lg, types, on), v)
RowTotal(table, on, rows, v) == AddsUpTo(Column(rows), RowsIn(rows, table, on), v)

LEMMA EventTotalGrows ==
  ASSUME NEW lg, IsList(lg), NEW types, NEW on, NEW v, EventTotal(types, on, lg, v),
         NEW entry
  PROVE  /\ IsAbout(entry.event, types, on) /\ entry.event.n \in Int =>
              EventTotal(types, on, Append(lg, entry), v + entry.event.n)
         /\ ~ IsAbout(entry.event, types, on) =>
              EventTotal(types, on, Append(lg, entry), v)
  <1> DEFINE more == Append(lg, entry)
             m == Len(lg) + 1
             S == EventsIn(lg, types, on)
             n == entry.event.n
  <1>1. /\ Len(lg) \in Nat /\ DOMAIN lg = 1..Len(lg)
        /\ DOMAIN more = 1..m
        /\ \A i \in DOMAIN lg : more[i] = lg[i]
        /\ more[m] = entry
    BY ListGrows
  <1>2. /\ S \subseteq DOMAIN lg /\ m \notin S
        /\ IsAbout(entry.event, types, on) =>
             EventsIn(more, types, on) = S \cup {m}
        /\ ~ IsAbout(entry.event, types, on) =>
             EventsIn(more, types, on) = S
    <2>1. EventsGrown(lg, entry, types, on)
      BY EventsGrow
    <2> QED
      BY <2>1, Zenon DEF EventsGrown
  <1>3. DOMAIN lg \subseteq DOMAIN more /\ m \in DOMAIN more
    BY <1>1
  <1> HIDE DEF more, m
  <1>4. (\A i \in S : Amounts(more)[i] = Amounts(lg)[i]) /\ Amounts(more)[m] = n
    BY <1>1, <1>2, <1>3 DEF Amounts
  <1> HIDE DEF S, n
  <1>5. AddsUpTo(Amounts(more), S, v)
    BY <1>4, SameNumbersAdd DEF EventTotal, S
  <1>6. n \in Int => AddsUpTo(Amounts(more), S \cup {m}, v + n)
    BY <1>2, <1>4, <1>5, OneMoreAdds
  <1> QED
    BY <1>2, <1>5, <1>6 DEF EventTotal, more, n

\* The amounts of a table after one row more.
LEMMA ColumnGrows ==
  ASSUME NEW rows, IsList(rows), NEW S, S \subseteq DOMAIN rows, NEW v,
         AddsUpTo(Column(rows), S, v), NEW row
  PROVE  /\ AddsUpTo(Column(Append(rows, row)), S, v)
         /\ row.amount \in Int =>
              AddsUpTo(Column(Append(rows, row)), S \cup {Len(rows) + 1}, v + row.amount)
  <1> DEFINE more == Append(rows, row)
             m == Len(rows) + 1
             n == row.amount
  <1>1. /\ Len(rows) \in Nat /\ DOMAIN rows = 1..Len(rows)
        /\ DOMAIN more = 1..m
        /\ \A i \in DOMAIN rows : more[i] = rows[i]
        /\ more[m] = row
    BY ListGrows
  <1>2. DOMAIN rows \subseteq DOMAIN more /\ m \in DOMAIN more /\ m \notin S
    BY <1>1
  <1> HIDE DEF more, m
  <1>3. (\A i \in S : Column(more)[i] = Column(rows)[i]) /\ Column(more)[m] = n
    BY <1>1, <1>2 DEF Column
  <1> HIDE DEF n
  <1>4. AddsUpTo(Column(more), S, v)
    BY <1>3, SameNumbersAdd
  <1>5. n \in Int => AddsUpTo(Column(more), S \cup {m}, v + n)
    BY <1>2, <1>3, <1>4, OneMoreAdds
  <1> QED
    BY <1>4, <1>5 DEF more, m, n

LEMMA RowTotalGrows ==
  ASSUME NEW rows, IsList(rows), NEW table, NEW on, NEW v, RowTotal(table, on, rows, v),
         NEW row
  PROVE  /\ IsRowOf(row, table, on) /\ row.amount \in Int =>
              RowTotal(table, on, Append(rows, row), v + row.amount)
         /\ ~ IsRowOf(row, table, on) =>
              RowTotal(table, on, Append(rows, row), v)
  <1> DEFINE S == RowsIn(rows, table, on)
             m == Len(rows) + 1
             more == Append(rows, row)
  <1>1. /\ S \subseteq DOMAIN rows
        /\ IsRowOf(row, table, on) => RowsIn(more, table, on) = S \cup {m}
        /\ ~ IsRowOf(row, table, on) => RowsIn(more, table, on) = S
    BY RowsGrow
  <1>2. AddsUpTo(Column(rows), S, v)
    BY DEF RowTotal
  <1>3. /\ AddsUpTo(Column(more), S, v)
        /\ row.amount \in Int => AddsUpTo(Column(more), S \cup {m}, v + row.amount)
    BY <1>1, <1>2, ColumnGrows
  <1> HIDE DEF S, m, more
  <1> QED
    BY <1>1, <1>3 DEF RowTotal, more

\* The refunds of one order that are not completed yet.
PendingIn(refunds, o) == {i \in RefundsIn(refunds, o) : refunds[i].status = "pending"}

\* The refunds of one order after one row more.
RefundsGrown(refunds, row, o) ==
  LET more == Append(refunds, row)
      m == Len(refunds) + 1
  IN  /\ RefundsIn(refunds, o) \subseteq DOMAIN refunds
      /\ PendingIn(refunds, o) \subseteq DOMAIN refunds
      /\ m \notin DOMAIN refunds
      /\ RefundsIn(more, o) = IF row.order = o THEN RefundsIn(refunds, o) \cup {m}
                                               ELSE RefundsIn(refunds, o)
      /\ PendingIn(more, o) = IF row.order = o /\ row.status = "pending"
                              THEN PendingIn(refunds, o) \cup {m} ELSE PendingIn(refunds, o)

LEMMA RefundsGrow ==
  ASSUME NEW refunds, IsList(refunds), NEW row, NEW o
  PROVE  RefundsGrown(refunds, row, o)
  <1> DEFINE more == Append(refunds, row)
             m == Len(refunds) + 1
  <1>1. /\ Len(refunds) \in Nat /\ DOMAIN refunds = 1..Len(refunds)
        /\ DOMAIN more = 1..m
        /\ \A i \in DOMAIN refunds : more[i] = refunds[i]
        /\ more[m] = row
    BY ListGrows
  <1>2. m \notin DOMAIN refunds /\ DOMAIN more = DOMAIN refunds \cup {m}
    BY <1>1
  <1> HIDE DEF more, m
  <1>3. /\ RefundsIn(refunds, o) \subseteq DOMAIN refunds
        /\ PendingIn(refunds, o) \subseteq DOMAIN refunds
    BY DEF RefundsIn, PendingIn
  <1>4. RefundsIn(more, o) = IF row.order = o THEN RefundsIn(refunds, o) \cup {m}
                                              ELSE RefundsIn(refunds, o)
    BY <1>1, <1>2 DEF RefundsIn
  <1>5. PendingIn(more, o) = IF row.order = o /\ row.status = "pending"
                             THEN PendingIn(refunds, o) \cup {m} ELSE PendingIn(refunds, o)
    BY <1>1, <1>2 DEF RefundsIn, PendingIn
  <1> QED
    BY <1>2, <1>3, <1>4, <1>5 DEF RefundsGrown, more, m

\* How many events of a log are about one thing.
Told(lg, types, on) == Cardinality(EventsIn(lg, types, on))

LEMMA EventsCounted ==
  ASSUME NEW lg, IsList(lg), NEW entry, NEW types, NEW on
  PROVE  /\ Told(lg, types, on) \in Nat
         /\ IsAbout(entry.event, types, on) =>
              Told(Append(lg, entry), types, on) = Told(lg, types, on) + 1
         /\ ~ IsAbout(entry.event, types, on) =>
              Told(Append(lg, entry), types, on) = Told(lg, types, on)
  <1> DEFINE S == EventsIn(lg, types, on)
             m == Len(lg) + 1
             T == EventsIn(Append(lg, entry), types, on)
  <1>1. EventsGrown(lg, entry, types, on)
    BY EventsGrow
  <1>2. /\ S \subseteq DOMAIN lg /\ m \notin S
        /\ IsAbout(entry.event, types, on) => T = S \cup {m}
        /\ ~ IsAbout(entry.event, types, on) => T = S
    BY <1>1, Zenon DEF EventsGrown
  <1> HIDE DEF S, T, m
  <1>3. IsFiniteSet(S)
    BY <1>2, PositionsFinite
  <1>4. Cardinality(S) \in Nat /\ Cardinality(S \cup {m}) = Cardinality(S) + 1
    BY <1>2, <1>3, FS_AddElement, FS_CardinalityType
  <1> QED
    BY <1>2, <1>4 DEF Told, S, T

(***************************************************************************)
(* Rows and the events that tell of them                                   *)
(***************************************************************************)

\* What the handlers append to a table, event by event: no event of these types
\* and no row of this table, or one of each, of the same thing and amount.
Posts(table, types, rows, more, event) ==
  \/ /\ event.type \notin types
     /\ \/ more = rows
        \/ \E row : row.table # table /\ more = Append(rows, row)
  \/ /\ event.type \in types
     /\ event.n \in Int /\ event.after = event.before + event.n
     /\ \E row : /\ IsRowOf(row, table, event.on) /\ row.amount = event.n
                 /\ more = Append(rows, row)

\* What the table and the log say of one thing adds up to the same.
Posted(table, types, lg, rows, x, v) ==
  EventTotal(types, x, lg, v) /\ RowTotal(table, x, rows, v)

LEMMA NothingPosted ==
  ASSUME NEW table, NEW types, NEW x
  PROVE  Posted(table, types, <<>>, <<>>, x, 0)
  <1>1. EventsIn(<<>>, types, x) = {} /\ RowsIn(<<>>, table, x) = {}
    BY EmptyList DEF EventsIn, RowsIn
  <1> QED
    BY <1>1, NothingAdds DEF Posted, EventTotal, RowTotal

LEMMA PostsGrow ==
  ASSUME NEW rows, IsList(rows), NEW table, NEW types, NEW event, NEW more,
         Posts(table, types, rows, more, event)
  PROVE  IsList(more)
  <1>1. \A row : IsList(Append(rows, row))
    BY ListGrows
  <1> QED
    BY <1>1 DEF Posts

LEMMA Posting ==
  ASSUME NEW lg, IsList(lg), NEW rows, IsList(rows), NEW table, NEW types, NEW x,
         NEW old, Posted(table, types, lg, rows, x, old),
         NEW entry, entry.event.to = entry.event.on,
         NEW more, Posts(table, types, rows, more, entry.event),
         NEW new, Tells(types, x, old, new, entry.event)
  PROVE  Posted(table, types, Append(lg, entry), more, x, new)
  <1> DEFINE event == entry.event
             n == event.n
             longer == Append(lg, entry)
  <1>1. EventTotal(types, x, lg, old) /\ RowTotal(table, x, rows, old)
    BY DEF Posted
  <1>2. /\ IsAbout(event, types, x) /\ n \in Int => EventTotal(types, x, longer, old + n)
        /\ ~ IsAbout(event, types, x) => EventTotal(types, x, longer, old)
    BY <1>1, EventTotalGrows
  <1>3. ASSUME NEW row
        PROVE  /\ IsRowOf(row, table, x) /\ row.amount \in Int =>
                    RowTotal(table, x, Append(rows, row), old + row.amount)
               /\ ~ IsRowOf(row, table, x) => RowTotal(table, x, Append(rows, row), old)
    BY <1>1, RowTotalGrows
  <1>4. ~ IsAbout(event, types, x) => new = old
    BY DEF Tells, After, IsAbout
  <1>5. IsAbout(event, types, x) => new = event.after /\ event.before = old
    BY DEF Tells, After, IsAbout
  <1> HIDE DEF longer
  <1>6. CASE event.type \notin types
    <2>1. new = old /\ EventTotal(types, x, longer, old)
      BY <1>2, <1>4, <1>6 DEF IsAbout
    <2>2. CASE more = rows
      BY <1>1, <2>1, <2>2 DEF Posted, longer
    <2>3. CASE \E row : row.table # table /\ more = Append(rows, row)
      <3>1. RowTotal(table, x, more, old)
        BY <1>3, <2>3 DEF IsRowOf
      <3> QED
        BY <2>1, <3>1 DEF Posted, longer
    <2> QED
      BY <1>6, <2>2, <2>3 DEF Posts
  <1>7. CASE event.type \in types
    <2>1. PICK row : /\ IsRowOf(row, table, event.on) /\ row.amount = n
                     /\ more = Append(rows, row)
      BY <1>7 DEF Posts
    <2>2. n \in Int /\ event.after = event.before + n
      BY <1>7 DEF Posts
    <2>3. CASE event.on = x
      <3>1. new = old + n
        BY <1>5, <1>7, <2>2, <2>3 DEF IsAbout
      <3>2. EventTotal(types, x, longer, old + n)
        BY <1>2, <1>7, <2>2, <2>3 DEF IsAbout
      <3>3. RowTotal(table, x, more, old + n)
        BY <1>3, <2>1, <2>2, <2>3
      <3> QED
        BY <3>1, <3>2, <3>3 DEF Posted, longer
    <2>4. CASE event.on # x
      <3>1. new = old /\ EventTotal(types, x, longer, old)
        BY <1>2, <1>4, <2>4 DEF IsAbout
      <3>2. RowTotal(table, x, more, old)
        BY <1>3, <2>1, <2>4 DEF IsRowOf
      <3> QED
        BY <3>1, <3>2 DEF Posted, longer
    <2> QED
      BY <2>3, <2>4
  <1> QED
    BY <1>6, <1>7

\* AddRow appends a row of its table, of what the request names.
LEMMA AddsRow ==
  ASSUME NEW d, "rows" \in DOMAIN d, NEW table, NEW c
  PROVE  \E row : /\ row.table = table /\ row.of = c.on /\ row.amount = c.n
                  /\ AddRow(d, table, c).rows = Append(d.rows, row)
  <1> DEFINE row == Row(table, c)
  <1>1. row.table = table /\ row.of = c.on /\ row.amount = c.n
    BY DEF Row
  <1>2. AddRow(d, table, c).rows = Append(d.rows, row)
    BY Zenon DEF AddRow
  <1> HIDE DEF row
  <1> QED
    BY <1>1, <1>2

(***************************************************************************)
(* What the events of commerce tell                                        *)
(***************************************************************************)

\* An event tells of what it names, if it is of the kind that does.
LEMMA OneTold ==
  ASSUME NEW types, NEW type, NEW on, NEW n, NEW before, NEW after, NEW e,
         e = Event(type, on, n, before, after)
  PROVE  /\ type \in types => Tells(types, on, before, after, e)
         /\ \A x, v : type \notin types \/ x # on => Tells(types, x, v, v, e)
  <1>1. e.type = type /\ e.on = on /\ e.to = on /\ e.before = before /\ e.after = after
    BY DEF Event
  <1>2. type \in types => After(types, on, before, e) = after
    BY <1>1 DEF After
  <1>3. \A x, v : type \notin types \/ x # on => After(types, x, v, e) = v
    BY <1>1 DEF After
  <1>4. type \in types => Tells(types, on, before, after, e)
    BY <1>1, <1>2 DEF Tells
  <1>5. ASSUME NEW x, NEW v, type \notin types \/ x # on
        PROVE  Tells(types, x, v, v, e)
    BY <1>1, <1>3, <1>5 DEF Tells
  <1> QED
    BY <1>4, <1>5, Zenon

\* An event of one thing tells nothing of another.
LEMMA OthersUntold ==
  ASSUME NEW type, NEW on, NEW n, NEW before, NEW after, NEW e,
         e = Event(type, on, n, before, after)
  PROVE  \A types, x, v : x # on => Tells(types, x, v, v, e)
  <1> SUFFICES ASSUME NEW types, NEW x, NEW v, x # on
               PROVE  Tells(types, x, v, v, e)
    OBVIOUS
  <1>1. e.type = type /\ e.on = on /\ e.to = on
    BY DEF Event
  <1> QED
    BY <1>1 DEF Tells, After

Transferred(type, on, to, n, before, after) ==
  [Event(type, on, n, before, after) EXCEPT !.to = to]

\* A transfer tells of both places it names.
LEMMA TransferTold ==
  ASSUME NEW types, NEW type \in types, NEW on, NEW to, to # on, NEW n, NEW before, NEW after,
         NEW e, e = Transferred(type, on, to, n, before, after)
  PROVE  /\ Tells(types, on, before, after, e)
         /\ \A v : Tells(types, to, v, v + n, e)
         /\ \A x, v : x # on /\ x # to => Tells(types, x, v, v, e)
  <1>1. /\ e.type = type /\ e.on = on /\ e.to = to /\ e.n = n
        /\ e.before = before /\ e.after = after
    BY Zenon DEF Transferred, Event
  <1>2. After(types, on, before, e) = after
    BY <1>1 DEF After
  <1>3. \A v : After(types, to, v, e) = v + n
    BY <1>1 DEF After
  <1>4. \A x, v : x # on /\ x # to => After(types, x, v, e) = v
    BY <1>1 DEF After
  <1>5. Tells(types, on, before, after, e)
    BY <1>1, <1>2 DEF Tells
  <1>6. \A v : Tells(types, to, v, v + n, e)
    BY <1>1, <1>3 DEF Tells
  <1>7. \A x, v : x # on /\ x # to => Tells(types, x, v, v, e)
    BY <1>1, <1>4 DEF Tells
  <1> QED
    BY <1>5, <1>6, <1>7

ShipmentEvents == {"shipment.updated"}

\* Events that tell of a row of the refunds table.
RefundRowEvents == RefundEvents \cup {"refund.completed"}
\* Events that tell of commerce more than that they happened.
ToldEvents == StockEvents \cup RefundRowEvents \cup ShipmentEvents

\* A refund was issued: a row more, of the order and the amount the event names.
RefundIssued(old, new, event) ==
  /\ event.type \in RefundEvents /\ event.to = event.on
  /\ event.n \in Int /\ event.n > 0 /\ event.after = event.before + event.n
  /\ \E row : /\ row.order = event.on /\ row.amount = event.n
              /\ row.status = "pending" <=> event.type = "refund.pending"
              /\ new = Append(old, row)

\* A pending refund was completed: its row now says so and no other changes.
RefundCompleted(old, new, event) ==
  /\ event.type = "refund.completed"
  /\ \E k \in DOMAIN old :
       /\ old[k].order = event.on /\ old[k].status = "pending"
       /\ new[k].status # "pending"
       /\ DOMAIN new = DOMAIN old
       /\ \A i \in DOMAIN old : new[i].order = old[i].order /\ new[i].amount = old[i].amount
       /\ \A i \in DOMAIN old \ {k} : new[i] = old[i]

\* The event tells how the refunds table changed.
RefundsTold(old, new, event) ==
  \/ event.type \notin RefundRowEvents /\ new = old
  \/ RefundIssued(old, new, event)
  \/ RefundCompleted(old, new, event)

CommerceTells(d, e, event) ==
  /\ \A l \in Locations :
       Tells(StockEvents, l, d.stock[l].available, e.stock[l].available, event)
  /\ \A o \in Orders :
       Tells(RefundEvents, o, d.orders[o].refunded, e.orders[o].refunded, event)
  /\ \A s \in Shipments : Tells(ShipmentEvents, s, d.shipments[s], e.shipments[s], event)
  /\ RefundsTold(d.refunds, e.refunds, event)

\* Handlers that touch neither stock nor refunded totals nor shipments.
LEMMA QuietTells ==
  ASSUME NEW d, NEW e, e.stock = d.stock, e.shipments = d.shipments,
         e.refunds = d.refunds,
         \A o \in Orders : e.orders[o].refunded = d.orders[o].refunded,
         NEW type, type \notin ToldEvents,
         NEW on, NEW n, NEW before, NEW after, NEW event,
         event = Event(type, on, n, before, after)
  PROVE  CommerceTells(d, e, event)
  <1>1. /\ \A x, v : Tells(StockEvents, x, v, v, event)
        /\ \A x, v : Tells(RefundEvents, x, v, v, event)
        /\ \A x, v : Tells(ShipmentEvents, x, v, v, event)
    BY OneTold DEF ToldEvents, RefundRowEvents
  <1>2. RefundsTold(d.refunds, e.refunds, event)
    <2>1. event.type = type /\ type \notin RefundRowEvents
      BY DEF Event, ToldEvents
    <2> QED
      BY <2>1 DEF RefundsTold
  <1> QED
    BY <1>1, <1>2, Zenon DEF CommerceTells

LEMMA OtherTells ==
  ASSUME NEW d, CommerceOK(d), NEW x, NEW e, PutsOther(d, e, x),
         NEW type, type \notin ToldEvents,
         NEW on, NEW n, NEW before, NEW after, NEW event,
         event = Event(type, on, n, before, after)
  PROVE  CommerceTells(d, e, event)
  <1>1. /\ e.orders = d.orders /\ e.stock = d.stock /\ e.shipments = d.shipments
        /\ e.refunds = d.refunds
    BY SetOther DEF CommerceOK
  <1> QED
    BY <1>1, QuietTells

LEMMA CompleteTells ==
  ASSUME NEW c, NEW d, CommerceOK(d), NEW r \in CompleteRefund(c, d)
  PROVE  CommerceTells(d, r.doc, r.event)
  <1> DEFINE guard == /\ c.scoped
                      /\ c.n \in DOMAIN d.refunds
                      /\ d.refunds[c.n].status = "pending"
             e == [d EXCEPT !.refunds[c.n].status = "succeeded"]
             row == [d.refunds[c.n] EXCEPT !.status = "succeeded"]
             refunds == [d.refunds EXCEPT ![c.n] = row]
             event == Event("refund.completed", d.refunds[c.n].order, c.n, "pending", "succeeded")
  <1>1. r \in When(guard, e, event)
    BY Zenon DEF CompleteRefund
  <1>2. PutsRefunds(d, e, refunds) /\ PutsStatus(d.refunds[c.n], row, "succeeded")
    BY Zenon DEF PutsRefunds, PutsStatus
  <1>3. guard /\ r.doc = e /\ r.event = event
    <2> HIDE DEF guard, e, event
    <2> QED
      BY <1>1, WhenTakes
  <1> HIDE DEF row, e
  <1>4. /\ c.n \in DOMAIN d.refunds /\ d.refunds[c.n].status = "pending"
        /\ row.order = d.refunds[c.n].order /\ row.amount = d.refunds[c.n].amount
        /\ row.status = "succeeded" /\ DOMAIN refunds = DOMAIN d.refunds
        /\ refunds[c.n] = row
        /\ \A i \in DOMAIN d.refunds \ {c.n} : refunds[i] = d.refunds[i]
    BY <1>2, <1>3, RefundSucceeds
  <1> HIDE DEF refunds, guard
  <1>5. /\ e.refunds = refunds /\ e.orders = d.orders
        /\ e.stock = d.stock /\ e.shipments = d.shipments
    BY <1>2, SetRefunds DEF CommerceOK
  <1>6. event.type = "refund.completed" /\ event.on = d.refunds[c.n].order
    BY Zenon DEF Event
  <1> HIDE DEF event
  <1>7. RefundCompleted(d.refunds, e.refunds, event)
    BY <1>4, <1>5, <1>6 DEF RefundCompleted
  <1>8. event.type \notin StockEvents \cup RefundEvents \cup ShipmentEvents
    BY <1>6 DEF StockEvents, RefundEvents, ShipmentEvents
  <1>9. /\ \A x, v : Tells(StockEvents, x, v, v, event)
        /\ \A x, v : Tells(RefundEvents, x, v, v, event)
        /\ \A x, v : Tells(ShipmentEvents, x, v, v, event)
    BY <1>8 DEF Tells, After
  <1> QED
    BY <1>3, <1>5, <1>7, <1>9, Zenon DEF CommerceTells, RefundsTold

LEMMA RowTells ==
  ASSUME NEW c, NEW d, CommerceOK(d), NEW table,
         NEW type, type \notin ToldEvents,
         NEW on, NEW n, NEW before, NEW after, NEW guard,
         NEW r \in When(guard, AddRow(d, table, c), Event(type, on, n, before, after))
  PROVE  CommerceTells(d, r.doc, r.event)
  <1> DEFINE e == AddRow(d, table, c)
  <1>1. \E x : PutsOther(d, e, x)
    BY Zenon DEF PutsOther, AddRow
  <1>2. r.doc = e /\ r.event = Event(type, on, n, before, after)
    BY WhenTakes
  <1> HIDE DEF e
  <1> QED
    BY <1>1, <1>2, OtherTells

LEMMA PromotionTells ==
  ASSUME NEW c, NEW d, CommerceOK(d), NEW r \in ExpirePromotion(c, d)
  PROVE  CommerceTells(d, r.doc, r.event)
  <1> DEFINE e == [d EXCEPT !.expired = @ \cup {c.on}]
             before == IF c.on \in d.expired THEN "expired" ELSE "none"
  <1>1. r \in When(c.scoped, e, Event("promotion.expired", c.on, 0, before, "expired"))
    BY Zenon DEF ExpirePromotion
  <1>2. \E x : PutsOther(d, e, x)
    BY Zenon DEF PutsOther
  <1> HIDE DEF e, before
  <1>3. r.doc = e /\ r.event = Event("promotion.expired", c.on, 0, before, "expired")
    BY <1>1, WhenTakes
  <1> QED
    BY <1>2, <1>3, OtherTells
       DEF ToldEvents, RefundRowEvents, StockEvents, RefundEvents, ShipmentEvents

LEMMA DisambiguateTells ==
  ASSUME NEW c, NEW d, CommerceOK(d), NEW r \in DisambiguateCustomer(c, d)
  PROVE  CommerceTells(d, r.doc, r.event)
  <1>1. r.doc = d /\ r.event = Event("customer.disambiguated", c.on, 0, "none", "selected")
    BY WhenTakes DEF DisambiguateCustomer
  <1> QED
    BY <1>1, QuietTells
       DEF ToldEvents, RefundRowEvents, StockEvents, RefundEvents, ShipmentEvents

LEMMA TicketTells ==
  ASSUME NEW c, NEW d, CommerceOK(d), NEW x, NEW e, PutsTickets(d, e, x),
         NEW type, type \notin ToldEvents,
         NEW on, NEW n, NEW before, NEW after, NEW event,
         event = Event(type, on, n, before, after)
  PROVE  CommerceTells(d, e, event)
  <1>1. /\ e.orders = d.orders /\ e.stock = d.stock /\ e.shipments = d.shipments
        /\ e.refunds = d.refunds
    BY SetTickets DEF CommerceOK
  <1> QED
    BY <1>1, QuietTells

LEMMA CreateTicketTells ==
  ASSUME NEW c, NEW d, CommerceOK(d), NEW r \in CreateTicket(c, d)
  PROVE  CommerceTells(d, r.doc, r.event)
  <1> DEFINE guard == OwnerScoped(c) /\ c.on \in DOMAIN d.orders
             e == [d EXCEPT !.tickets = Append(@, "open")]
             event == Event("ticket.created", c.on, Len(d.tickets) + 1, "none", "open")
  <1>1. r \in When(guard, e, event)
    BY Zenon DEF CreateTicket
  <1>2. \E x : PutsTickets(d, e, x)
    BY Zenon DEF PutsTickets
  <1> HIDE DEF guard, e
  <1>3. r.doc = e /\ r.event = event
    BY <1>1, WhenTakes
  <1> QED
    BY <1>2, <1>3, TicketTells
       DEF ToldEvents, RefundRowEvents, StockEvents, RefundEvents, ShipmentEvents

LEMMA SetTicketTells ==
  ASSUME NEW c, NEW d, CommerceOK(d), NEW status,
         NEW type, type \notin ToldEvents,
         NEW r \in SetTicket(c, d, status, type)
  PROVE  CommerceTells(d, r.doc, r.event)
  <1> DEFINE guard == c.n \in DOMAIN d.tickets
             e == [d EXCEPT !.tickets[c.n] = status]
             event == Event(type, c.on, c.n, d.tickets[c.n], status)
  <1>1. r \in When(guard, e, event)
    BY Zenon DEF SetTicket
  <1>2. \E x : PutsTickets(d, e, x)
    BY Zenon DEF PutsTickets
  <1> HIDE DEF guard, e
  <1>3. r.doc = e /\ r.event = event
    BY <1>1, WhenTakes
  <1> QED
    BY <1>2, <1>3, TicketTells

LEMMA EscalateTells ==
  ASSUME NEW c, NEW d, CommerceOK(d), NEW r \in Escalate(c, d)
  PROVE  CommerceTells(d, r.doc, r.event)
  <1> DEFINE d1 == AddRow(d, "escalations", c)
  <1>1. r \in SetTicket(c, d1, "escalated", "ticket.escalated")
    BY Zenon DEF Escalate
  <1>2. \E x : PutsOther(d, d1, x)
    BY Zenon DEF PutsOther, AddRow
  <1> HIDE DEF d1
  <1>3. /\ CommerceOK(d1) /\ d1.orders = d.orders /\ d1.stock = d.stock
        /\ d1.shipments = d.shipments /\ d1.refunds = d.refunds
    <2>1. CommerceOK(d1)
      BY <1>2, OtherOK
    <2>2. /\ d1.orders = d.orders /\ d1.stock = d.stock
          /\ d1.shipments = d.shipments /\ d1.refunds = d.refunds
      BY <1>2, SetOther DEF CommerceOK
    <2> QED
      BY <2>1, <2>2
  <1>4. CommerceTells(d1, r.doc, r.event)
    BY <1>1, <1>3, SetTicketTells
       DEF ToldEvents, RefundRowEvents, StockEvents, RefundEvents, ShipmentEvents
  <1> QED
    BY <1>3, <1>4, Zenon DEF CommerceTells

\* One location, or one order or shipment, changes and its event tells it.
StockTells(d, e, event) ==
  \A l \in Locations :
    Tells(StockEvents, l, d.stock[l].available, e.stock[l].available, event)

LEMMA StockOnlyTells ==
  ASSUME NEW d, CommerceOK(d), NEW e, NEW x, PutsStock(d, e, x),
         NEW event, event.type \in StockEvents, StockTells(d, e, event)
  PROVE  CommerceTells(d, e, event)
  <1>1. e.orders = d.orders /\ e.shipments = d.shipments /\ e.refunds = d.refunds
    BY SetStock DEF CommerceOK
  <1>2. event.type \notin RefundRowEvents \cup ShipmentEvents
    BY DEF StockEvents, RefundRowEvents, RefundEvents, ShipmentEvents
  <1>3. /\ \A y, v : Tells(RefundEvents, y, v, v, event)
        /\ \A y, v : Tells(ShipmentEvents, y, v, v, event)
    BY <1>2 DEF Tells, After, RefundRowEvents
  <1>4. RefundsTold(d.refunds, e.refunds, event)
    BY <1>1, <1>2 DEF RefundsTold
  <1> QED
    BY <1>1, <1>3, <1>4, Zenon DEF CommerceTells, StockTells

LEMMA RefundTells ==
  ASSUME NEW c, c.n \in Int, c.n > 0, NEW d, CommerceOK(d), NEW r \in IssueRefund(c, d)
  PROVE  CommerceTells(d, r.doc, r.event)
  <1> DEFINE o == d.orders[c.on]
             refunded == o.refunded + c.n
             status == IF refunded = o.captured THEN "refunded" ELSE "partially_refunded"
             processor == IF c.opt = "pending" THEN "pending" ELSE "succeeded"
             type == IF processor = "pending" THEN "refund.pending" ELSE "refund.issued"
             row == [order |-> c.on, amount |-> c.n, status |-> processor]
             guard == /\ c.on \in DOMAIN d.orders /\ OwnerScoped(c)
                      /\ c.currency = "USD"
                      /\ o.status \in {"paid", "partially_refunded"}
                      /\ c.n <= Refundable(o)
             e == [d EXCEPT !.orders[c.on] = [@ EXCEPT !.refunded = refunded, !.status = status],
                            !.refunds = Append(@, row)]
             event == Event(type, c.on, c.n, o.refunded, refunded)
             order == [o EXCEPT !.refunded = refunded, !.status = status]
             orders == [d.orders EXCEPT ![c.on] = order]
             d1 == [d EXCEPT !.orders = orders]
             refunds == Append(d.refunds, row)
  <1>1. r \in When(guard, e, event)
    BY Zenon DEF IssueRefund
  <1>2. guard /\ r.doc = e /\ r.event = event
    <2> HIDE DEF guard, e, event
    <2> QED
      BY <1>1, WhenTakes
  <1>3. PutsOrders(d, d1, orders) /\ PutsRefunds(d1, e, refunds)
    BY Zenon DEF PutsOrders, PutsRefunds
  <1>4. c.on \in Orders /\ d.orders \in [Orders -> Order] /\ o \in Order
    BY <1>2 DEF CommerceOK
  <1>5. order.refunded = refunded
    <2> HIDE DEF refunded, status, o
    <2> QED
      BY <1>4, Zenon DEF Order
  <1>6. type \in RefundEvents
    BY DEF RefundEvents
  <1>7. /\ e.orders = orders /\ e.stock = d.stock /\ e.shipments = d.shipments
        /\ e.refunds = refunds
    <2> HIDE DEF d1, e, orders, refunds
    <2>1. DOMAIN d = CommerceFields
      BY DEF CommerceOK
    <2>2. /\ Keeps(d, d1) /\ d1.orders = orders
          /\ d1.stock = d.stock /\ d1.shipments = d.shipments
      BY <1>3, <2>1, SetOrders
    <2>3. DOMAIN d1 = CommerceFields
      BY <2>1, <2>2 DEF Keeps
    <2>4. /\ e.orders = d1.orders /\ e.stock = d1.stock /\ e.shipments = d1.shipments
          /\ e.refunds = refunds
      BY <1>3, <2>3, SetRefunds
    <2> QED
      BY <2>2, <2>4
  <1>8. RefundIssued(d.refunds, refunds, event)
    <2>1. /\ row.order = c.on /\ row.amount = c.n
          /\ row.status = "pending" <=> type = "refund.pending"
      BY Zenon
    <2>2. refunds = Append(d.refunds, row)
      OBVIOUS
    <2>3. /\ event.type = type /\ event.on = c.on /\ event.to = c.on /\ event.n = c.n
          /\ event.before = o.refunded /\ event.after = refunded
      BY Zenon DEF Event
    <2>4. refunded = o.refunded + c.n
      OBVIOUS
    <2> HIDE DEF row, type, event, refunds, refunded, o
    <2> QED
      BY <1>6, <2>1, <2>2, <2>3, <2>4 DEF RefundIssued
  <1> HIDE DEF order, type, refunded, o, refunds
  <1>9. /\ orders[c.on].refunded = refunded
        /\ \A p \in Orders : p # c.on => orders[p].refunded = d.orders[p].refunded
    BY <1>4, <1>5
  <1>10. /\ Tells(RefundEvents, c.on, o.refunded, refunded, event)
         /\ \A x, v : x # c.on => Tells(RefundEvents, x, v, v, event)
         /\ \A x, v : Tells(StockEvents, x, v, v, event)
         /\ \A x, v : Tells(ShipmentEvents, x, v, v, event)
    <2> DEFINE before == o.refunded
    <2>1. event = Event(type, c.on, c.n, before, refunded)
      BY Zenon
    <2>2. type \notin StockEvents /\ type \notin ShipmentEvents
      BY <1>6 DEF RefundEvents, StockEvents, ShipmentEvents
    <2> HIDE DEF event, before
    <2>3. /\ Tells(RefundEvents, c.on, before, refunded, event)
          /\ \A x, v : x # c.on => Tells(RefundEvents, x, v, v, event)
      BY <1>6, <2>1, OneTold
    <2>4. /\ \A x, v : Tells(StockEvents, x, v, v, event)
          /\ \A x, v : Tells(ShipmentEvents, x, v, v, event)
      BY <2>1, <2>2, OneTold
    <2> QED
      BY <2>3, <2>4 DEF before
  <1> HIDE DEF orders, e, event
  <1>11. \A p \in Orders :
           Tells(RefundEvents, p, d.orders[p].refunded, orders[p].refunded, event)
    <2> SUFFICES ASSUME NEW p \in Orders
                 PROVE  Tells(RefundEvents, p, d.orders[p].refunded, orders[p].refunded, event)
      OBVIOUS
    <2>1. CASE p = c.on
      BY <1>9, <1>10, <2>1, Zenon DEF o
    <2>2. CASE p # c.on
      BY <1>9, <1>10, <2>2, Zenon
    <2> QED
      BY <2>1, <2>2
  <1> QED
    BY <1>2, <1>7, <1>10, <1>11, <1>8, Zenon DEF CommerceTells, RefundsTold

LEMMA CancelTells ==
  ASSUME NEW c, NEW d, CommerceOK(d), NEW r \in CancelOrder(c, d)
  PROVE  CommerceTells(d, r.doc, r.event)
  <1> DEFINE o == d.orders[c.on]
             guard == /\ c.on \in DOMAIN d.orders /\ OwnerScoped(c)
                      /\ d.orders[c.on].status \in {"pending", "paid"}
                      /\ \A s \in DOMAIN d.shipments :
                           ShipmentOrder[s] = c.on => d.shipments[s] \notin {"shipped", "delivered"}
             order == [o EXCEPT !.status = "cancelled"]
             orders == [d.orders EXCEPT ![c.on] = order]
             e == [d EXCEPT !.orders[c.on].status = "cancelled"]
             event == Event("order.cancelled", c.on, 0, d.orders[c.on].status, "cancelled")
  <1>1. r \in When(guard, e, event)
    BY Zenon DEF CancelOrder
  <1>2. PutsOrders(d, e, orders)
    BY Zenon DEF PutsOrders
  <1>3. guard /\ r.doc = e /\ r.event = event
    <2> HIDE DEF guard, e, event
    <2> QED
      BY <1>1, WhenTakes
  <1>4. c.on \in Orders /\ d.orders \in [Orders -> Order] /\ o \in Order
    BY <1>3 DEF CommerceOK
  <1>5. order.refunded = o.refunded
    <2> HIDE DEF o
    <2> QED
      BY <1>4, Zenon DEF Order
  <1>6. /\ e.orders = orders /\ e.stock = d.stock /\ e.shipments = d.shipments
        /\ e.refunds = d.refunds
    <2> HIDE DEF e, orders
    <2> QED
      BY <1>2, SetOrders DEF CommerceOK
  <1> HIDE DEF order
  <1>7. \A p \in Orders : orders[p].refunded = d.orders[p].refunded
    BY <1>4, <1>5
  <1> HIDE DEF e, orders
  <1> QED
    BY <1>3, <1>6, <1>7, QuietTells
       DEF ToldEvents, RefundRowEvents, StockEvents, RefundEvents, ShipmentEvents

LEMMA ShipmentTells ==
  ASSUME NEW c, NEW d, CommerceOK(d), NEW r \in UpdateShipment(c, d)
  PROVE  CommerceTells(d, r.doc, r.event)
  <1> DEFINE guard == /\ c.on \in DOMAIN d.shipments /\ c.scoped
                      /\ c.opt \in LegalShipment[d.shipments[c.on]]
             e == [d EXCEPT !.shipments[c.on] = c.opt]
             shipments == [d.shipments EXCEPT ![c.on] = c.opt]
             event == Event("shipment.updated", c.on, 0, d.shipments[c.on], c.opt)
  <1>1. r \in When(guard, e, event)
    BY Zenon DEF UpdateShipment
  <1>2. guard /\ r.doc = e /\ r.event = event
    <2> HIDE DEF guard, e, event
    <2> QED
      BY <1>1, WhenTakes
  <1>3. PutsShipments(d, e, shipments)
    BY Zenon DEF PutsShipments
  <1>4. c.on \in Shipments /\ d.shipments \in [Shipments -> DOMAIN LegalShipment]
    BY <1>2 DEF CommerceOK
  <1>5. /\ shipments[c.on] = c.opt
        /\ \A s \in Shipments : s # c.on => shipments[s] = d.shipments[s]
    BY <1>4
  <1> HIDE DEF e, guard, shipments
  <1>6. /\ e.orders = d.orders /\ e.stock = d.stock /\ e.shipments = shipments
        /\ e.refunds = d.refunds
    BY <1>3, SetShipments DEF CommerceOK
  <1>7. /\ Tells(ShipmentEvents, c.on, d.shipments[c.on], c.opt, event)
        /\ \A x, v : x # c.on => Tells(ShipmentEvents, x, v, v, event)
        /\ \A x, v : Tells(StockEvents, x, v, v, event)
        /\ \A x, v : Tells(RefundEvents, x, v, v, event)
    <2>1. /\ "shipment.updated" \in ShipmentEvents
          /\ "shipment.updated" \notin StockEvents \cup RefundEvents
      BY DEF RefundEvents, StockEvents, ShipmentEvents
    <2> QED
      BY <2>1, OneTold
  <1>8. RefundsTold(d.refunds, e.refunds, event)
    <2>1. event.type = "shipment.updated" /\ "shipment.updated" \notin RefundRowEvents
      BY DEF Event, RefundRowEvents, RefundEvents
    <2> QED
      BY <1>6, <2>1 DEF RefundsTold
  <1> HIDE DEF event
  <1>9. \A s \in Shipments : Tells(ShipmentEvents, s, d.shipments[s], shipments[s], event)
    <2> SUFFICES ASSUME NEW s \in Shipments
                 PROVE  Tells(ShipmentEvents, s, d.shipments[s], shipments[s], event)
      OBVIOUS
    <2>1. CASE s = c.on
      BY <1>5, <1>7, <2>1
    <2>2. CASE s # c.on
      BY <1>5, <1>7, <2>2, Zenon
    <2> QED
      BY <2>1, <2>2
  <1> QED
    BY <1>2, <1>6, <1>7, <1>9, <1>8, Zenon DEF CommerceTells

\* One location's balance is set to what the event says.
LEMMA OneBalanceTells ==
  ASSUME NEW d, CommerceOK(d), NEW l \in Locations, NEW cell, NEW e,
         PutsStock(d, e, [d.stock EXCEPT ![l] = cell]),
         NEW type \in StockEvents, NEW n, NEW event,
         event = Event(type, l, n, d.stock[l].available, cell.available)
  PROVE  CommerceTells(d, e, event)
  <1> DEFINE before == d.stock[l].available
             after == cell.available
             stock == [d.stock EXCEPT ![l] = cell]
  <1>1. /\ stock[l] = cell
        /\ \A x \in Locations : x # l => stock[x] = d.stock[x]
    BY DEF CommerceOK
  <1>2. event = Event(type, l, n, before, after)
    BY Zenon
  <1> HIDE DEF stock, before, after
  <1>3. /\ Tells(StockEvents, l, before, after, event)
        /\ \A x, v : x # l => Tells(StockEvents, x, v, v, event)
    BY <1>2, OneTold
  <1>4. e.stock = stock
    BY SetStock DEF CommerceOK, stock
  <1>5. StockTells(d, e, event)
    <2> SUFFICES ASSUME NEW x \in Locations
                 PROVE  Tells(StockEvents, x, d.stock[x].available, e.stock[x].available, event)
      BY DEF StockTells
    <2>1. CASE x = l
      BY <1>1, <1>3, <1>4, <2>1 DEF before, after
    <2>2. CASE x # l
      BY <1>1, <1>3, <1>4, <2>2, Zenon
    <2> QED
      BY <2>1, <2>2
  <1>6. event.type \in StockEvents
    BY <1>2 DEF Event
  <1> QED
    BY <1>5, <1>6, StockOnlyTells DEF stock

LEMMA AdjustTells ==
  ASSUME NEW c, NEW d, CommerceOK(d), NEW r \in AdjustInventory(c, d)
  PROVE  CommerceTells(d, r.doc, r.event)
  <1> DEFINE left(l) == d.stock[l].available + c.n
             guard(l) == c.scoped /\ left(l) >= 0
             state(l) == [d EXCEPT !.stock[l].available = left(l)]
             adjusted(l) == Event("inventory.adjusted", l, c.n, d.stock[l].available, left(l))
  <1>1. PICK l \in DOMAIN d.stock : r \in When(guard(l), state(l), adjusted(l))
    BY Zenon DEF AdjustInventory
  <1> DEFINE cell == [d.stock[l] EXCEPT !.available = left(l)]
  <1>2. PutsStock(d, state(l), [d.stock EXCEPT ![l] = cell])
    BY Zenon DEF PutsStock
  <1>3. l \in Locations /\ d.stock[l] \in Stock
    BY DEF CommerceOK
  <1>4. cell.available = left(l)
    <2> HIDE DEF left
    <2> QED
      BY <1>3, Zenon DEF Stock
  <1>5. adjusted(l) = Event("inventory.adjusted", l, c.n, d.stock[l].available, cell.available)
    <2> HIDE DEF left, cell
    <2> QED
      BY <1>4, Zenon
  <1> HIDE DEF guard, state, adjusted, cell
  <1>6. r.doc = state(l) /\ r.event = adjusted(l)
    BY <1>1, WhenTakes
  <1>7. "inventory.adjusted" \in StockEvents
    BY DEF StockEvents
  <1> QED
    BY <1>2, <1>3, <1>5, <1>6, <1>7, OneBalanceTells

LEMMA StockoutTells ==
  ASSUME NEW d, CommerceOK(d), NEW r \in CommerceInjected(d)
  PROVE  CommerceTells(d, r.doc, r.event)
  <1> DEFINE e(l) == [d EXCEPT !.stock[l].available = 0]
             stockout(l) == Event("inventory.stockout", l, 0, d.stock[l].available, 0)
  <1>1. \/ \E l \in DOMAIN d.stock : r = [doc |-> e(l), event |-> stockout(l)]
        \/ r = [doc |-> d, event |-> Event("notice", "scheduled", 0, 0, 0)]
    BY Zenon DEF CommerceInjected
  <1>2. ASSUME NEW l \in DOMAIN d.stock, r = [doc |-> e(l), event |-> stockout(l)]
        PROVE  CommerceTells(d, r.doc, r.event)
    <2> DEFINE cell == [d.stock[l] EXCEPT !.available = 0]
    <2>1. PutsStock(d, e(l), [d.stock EXCEPT ![l] = cell])
      BY Zenon DEF PutsStock
    <2>2. l \in Locations /\ d.stock[l] \in Stock
      BY DEF CommerceOK
    <2>3. cell.available = 0
      BY <2>2, Zenon DEF Stock
    <2>4. stockout(l) = Event("inventory.stockout", l, 0, d.stock[l].available, cell.available)
      <3> HIDE DEF cell
      <3> QED
        BY <2>3, Zenon
    <2>5. r.doc = e(l) /\ r.event = stockout(l)
      BY <1>2, Zenon
    <2>6. "inventory.stockout" \in StockEvents
      BY DEF StockEvents
    <2> HIDE DEF e, cell, stockout
    <2> QED
      BY <2>1, <2>2, <2>4, <2>5, <2>6, OneBalanceTells
  <1>3. CASE r = [doc |-> d, event |-> Event("notice", "scheduled", 0, 0, 0)]
    <2>1. r.doc = d /\ r.event = Event("notice", "scheduled", 0, 0, 0)
      BY <1>3
    <2> QED
      BY <2>1, QuietTells
       DEF ToldEvents, RefundRowEvents, StockEvents, RefundEvents, ShipmentEvents
  <1> QED
    BY <1>1, <1>2, <1>3

LEMMA BackorderTells ==
  ASSUME NEW c, NEW d, CommerceOK(d), NEW r \in ResolveBackorder(c, d)
  PROVE  CommerceTells(d, r.doc, r.event)
  <1> DEFINE s == d.stock[c.on]
             reserved == IF s.reserved > c.n THEN s.reserved - c.n ELSE 0
             available == s.available + c.n
             guard == c.on \in DOMAIN d.stock /\ c.scoped /\ s.backorder
             cell == [s EXCEPT !.available = available, !.reserved = reserved]
             e == [d EXCEPT !.stock[c.on].available = s.available + c.n,
                            !.stock[c.on].reserved = reserved]
             event == Event("backorder.resolved", c.on, c.n, s.available, s.available + c.n)
             stock == [d.stock EXCEPT ![c.on].available = available, ![c.on].reserved = reserved]
  <1>1. r \in When(guard, e, event)
    BY Zenon DEF ResolveBackorder
  <1>2. guard /\ r.doc = e /\ r.event = event
    <2> HIDE DEF guard, e, event
    <2> QED
      BY <1>1, WhenTakes
  <1>3. c.on \in Locations /\ d.stock \in [Locations -> Stock] /\ s \in Stock
    BY <1>2 DEF CommerceOK
  <1>4. cell.available = available
    <2> HIDE DEF s, available, reserved
    <2> QED
      BY <1>3, Zenon DEF Stock
  <1>5. PutsStock(d, e, stock)
    <2>1. DOMAIN d = CommerceFields
      BY DEF CommerceOK
    <2> HIDE DEF reserved, s
    <2> QED
      BY <2>1, Zenon DEF PutsStock, CommerceFields
  <1>6. stock = [d.stock EXCEPT ![c.on] = cell]
    <2> HIDE DEF reserved, available
    <2> QED
      BY <1>3, Zenon
  <1>7. PutsStock(d, e, [d.stock EXCEPT ![c.on] = cell])
    <2> HIDE DEF e, stock, cell
    <2> QED
      BY <1>5, <1>6, Zenon
  <1>8. r.event = Event("backorder.resolved", c.on, c.n, d.stock[c.on].available, cell.available)
    <2> HIDE DEF cell, e, guard
    <2> QED
      BY <1>2, <1>4, Zenon
  <1>9. "backorder.resolved" \in StockEvents
    BY DEF StockEvents
  <1> HIDE DEF e, cell, guard, event, stock
  <1> QED
    BY <1>2, <1>3, <1>7, <1>8, <1>9, OneBalanceTells

PutsOne(f, new, a, x) == new = [f EXCEPT ![a] = x]
PutsTwo(stock, new, a, less, b, more) ==
  new = [[stock EXCEPT ![a] = less] EXCEPT ![b] = more]

\* What one place loses and another gains, the event of the transfer tells.
LEMMA MovedTells ==
  ASSUME NEW stock, NEW P, DOMAIN stock = P, NEW a \in P, NEW b \in P, a # b, NEW n,
         NEW less, NEW more, less.available = stock[a].available - n,
         more.available = stock[b].available + n,
         NEW new, PutsTwo(stock, new, a, less, b, more),
         NEW type \in StockEvents, NEW event,
         event = Transferred(type, a, b, n, stock[a].available, stock[a].available - n)
  PROVE  \A l \in P : Tells(StockEvents, l, stock[l].available, new[l].available, event)
  <1> DEFINE before == stock[a].available
             after == less.available
             other == stock[b].available
  <1>1. new[a] = less /\ new[b] = more
        /\ \A l \in P : l # a /\ l # b => new[l] = stock[l]
    BY DEF PutsTwo
  <1>2. event = Transferred(type, a, b, n, before, after)
    BY Zenon
  <1>3. more.available = other + n
    OBVIOUS
  <1> HIDE DEF before, after, other
  <1>4. /\ Tells(StockEvents, a, before, after, event)
        /\ Tells(StockEvents, b, other, other + n, event)
        /\ \A x, v : x # a /\ x # b => Tells(StockEvents, x, v, v, event)
    BY <1>2, TransferTold
  <1> SUFFICES ASSUME NEW l \in P
               PROVE  Tells(StockEvents, l, stock[l].available, new[l].available, event)
    OBVIOUS
  <1>5. CASE l = a
    BY <1>1, <1>4, <1>5 DEF before, after
  <1>6. CASE l = b
    BY <1>1, <1>3, <1>4, <1>6 DEF other
  <1>7. CASE l # a /\ l # b
    BY <1>1, <1>4, <1>7, Zenon
  <1> QED
    BY <1>5, <1>6, <1>7

LEMMA TransferTells ==
  ASSUME NEW c, NEW d, CommerceOK(d), NEW r \in TransferInventory(c, d)
  PROVE  CommerceTells(d, r.doc, r.event)
  <1> DEFINE guard == /\ c.scoped
                      /\ c.on # c.opt /\ {c.on, c.opt} \subseteq DOMAIN d.stock
                      /\ CanMove(d.stock[c.on], c.n)
             less == [d.stock[c.on] EXCEPT !.available = d.stock[c.on].available - c.n]
             more == [d.stock[c.opt] EXCEPT !.available = d.stock[c.opt].available + c.n]
             e == [d EXCEPT !.stock[c.on].available = @ - c.n,
                            !.stock[c.opt].available = @ + c.n]
             stock == [[d.stock EXCEPT ![c.on] = less] EXCEPT ![c.opt] = more]
             event == [Event("inventory.transferred", c.on, c.n, d.stock[c.on].available,
                             d.stock[c.on].available - c.n) EXCEPT !.to = c.opt]
  <1>1. r \in When(guard, e, event)
    BY Zenon DEF TransferInventory
  <1>2. guard /\ r.doc = e /\ r.event = event
    <2> HIDE DEF guard, e, event
    <2> QED
      BY <1>1, WhenTakes
  <1>3. /\ d.stock \in [Locations -> Stock] /\ c.on \in Locations /\ c.opt \in Locations
        /\ c.on # c.opt /\ d.stock[c.on] \in Stock /\ d.stock[c.opt] \in Stock
        /\ DOMAIN d = CommerceFields /\ DOMAIN d.stock = Locations
    BY <1>2 DEF CommerceOK
  <1>4. /\ less.available = d.stock[c.on].available - c.n
        /\ more.available = d.stock[c.opt].available + c.n
    BY <1>3, Zenon DEF Stock
  <1>5. PutsStock(d, e, stock)
    <2> DEFINE d1 == [d EXCEPT !.stock[c.on].available = d.stock[c.on].available - c.n]
               n == d.stock[c.opt].available + c.n
    <2>1. PutsStock(d, d1, [d.stock EXCEPT ![c.on] = less])
      BY Zenon DEF PutsStock
    <2>2. PutsStock(d1, e, [d1.stock EXCEPT ![c.opt] = [d1.stock[c.opt] EXCEPT !.available = n]])
      BY Zenon DEF PutsStock
    <2> HIDE DEF d1, e
    <2>3. d1.stock = [d.stock EXCEPT ![c.on] = less] /\ DOMAIN d1 = CommerceFields
      BY <1>3, <2>1, SetStock DEF Keeps
    <2>4. d1.stock[c.opt] = d.stock[c.opt]
      BY <1>3, <2>3
    <2>5. e = [d1 EXCEPT !.stock = [d1.stock EXCEPT ![c.opt] = more]]
      BY <2>2, <2>4, Zenon DEF PutsStock
    <2>6. e = [d1 EXCEPT !.stock = stock]
      BY <2>3, <2>5, Zenon
    <2> HIDE DEF stock, less
    <2>7. [d1 EXCEPT !.stock = stock] = [d EXCEPT !.stock = stock]
      BY <1>3, <2>1, Zenon DEF PutsStock, CommerceFields
    <2> QED
      BY <2>6, <2>7, Zenon DEF PutsStock
  <1>6. "inventory.transferred" \in StockEvents
    BY DEF StockEvents
  <1>7. event = Transferred("inventory.transferred", c.on, c.opt, c.n, d.stock[c.on].available,
                            d.stock[c.on].available - c.n)
    BY Zenon DEF Transferred
  <1>8. event.type \in StockEvents
    BY <1>6, Zenon DEF Event
  <1> HIDE DEF less, more, e, event
  <1>9. \A l \in Locations : Tells(StockEvents, l, d.stock[l].available, stock[l].available, event)
    <2> DEFINE old == d.stock
               n == c.n
               type == "inventory.transferred"
    <2>1. /\ DOMAIN old = Locations /\ PutsTwo(old, stock, c.on, less, c.opt, more)
          /\ less.available = old[c.on].available - n
          /\ more.available = old[c.opt].available + n
          /\ type \in StockEvents
          /\ event = Transferred(type, c.on, c.opt, n, old[c.on].available,
                                 old[c.on].available - n)
      BY <1>3, <1>4, <1>6, <1>7, Zenon DEF PutsTwo
    <2> HIDE DEF old, n, type, stock
    <2>2. \A l \in Locations : Tells(StockEvents, l, old[l].available, stock[l].available, event)
      BY <1>3, <2>1, MovedTells
    <2> QED
      BY <2>2 DEF old
  <1>10. e.stock = stock
    <2> HIDE DEF stock
    <2> QED
      BY <1>3, <1>5, SetStock
  <1> HIDE DEF stock, guard
  <1>11. StockTells(d, e, event)
    BY <1>9, <1>10, Zenon DEF StockTells
  <1> QED
    BY <1>2, <1>5, <1>8, <1>11, StockOnlyTells

\* Whatever is asked of commerce.
LEMMA CommerceEventTells ==
  ASSUME NEW c \in Call, NEW d, CommerceOK(d), NEW r \in CommerceEffect(c, d)
  PROVE  CommerceTells(d, r.doc, r.event)
  <1> DEFINE Quiet(type) == type \notin ToldEvents
  <1>1. /\ Quiet("replacement.created") /\ Quiet("email.sent")
        /\ Quiet("ticket.updated") /\ Quiet("ticket.reopened")
    BY DEF ToldEvents, RefundRowEvents, StockEvents, RefundEvents, ShipmentEvents
  <1>2. CASE c.tool = "issue_refund"
    <2>1. c.n \in Int /\ c.n > 0
      BY <1>2, RequestAssumption DEF Quantified
    <2> QED
      BY <1>2, <2>1, RefundTells DEF CommerceEffect
  <1>3. CASE c.tool = "complete_refund"
    BY <1>3, CompleteTells DEF CommerceEffect
  <1>4. CASE c.tool = "cancel_order"
    BY <1>4, CancelTells DEF CommerceEffect
  <1>5. CASE c.tool = "create_replacement"
    <2>1. r \in CreateReplacement(c, d)
      BY <1>5 DEF CommerceEffect
    <2> QED
      BY <1>1, <2>1, RowTells DEF CreateReplacement
  <1>6. CASE c.tool = "adjust_inventory"
    BY <1>6, AdjustTells DEF CommerceEffect
  <1>7. CASE c.tool = "resolve_backorder"
    BY <1>7, BackorderTells DEF CommerceEffect
  <1>8. CASE c.tool = "transfer_inventory"
    BY <1>8, TransferTells DEF CommerceEffect
  <1>9. CASE c.tool = "update_shipment"
    BY <1>9, ShipmentTells DEF CommerceEffect
  <1>10. CASE c.tool = "create_ticket"
    BY <1>10, CreateTicketTells DEF CommerceEffect
  <1>11. CASE c.tool = "update_ticket"
    <2>1. r \in SetTicket(c, d, c.opt, "ticket.updated")
      BY <1>11, Zenon DEF CommerceEffect, UpdateTicket
    <2> QED
      BY <1>1, <2>1, SetTicketTells
  <1>12. CASE c.tool = "reopen_ticket"
    <2>1. r \in SetTicket(c, d, "open", "ticket.reopened")
      BY <1>12, Zenon DEF CommerceEffect, ReopenTicket
    <2> QED
      BY <1>1, <2>1, SetTicketTells
  <1>13. CASE c.tool = "escalate"
    BY <1>13, EscalateTells DEF CommerceEffect
  <1>14. CASE c.tool = "send_email"
    <2>1. r \in SendEmail(c, d)
      BY <1>14 DEF CommerceEffect
    <2> QED
      BY <1>1, <2>1, RowTells DEF SendEmail
  <1>15. CASE c.tool = "disambiguate_customer"
    BY <1>15, DisambiguateTells DEF CommerceEffect
  <1>16. CASE c.tool = "expire_promotion"
    BY <1>16, PromotionTells DEF CommerceEffect
  <1> QED
    BY <1>2, <1>3, <1>4, <1>5, <1>6, <1>7, <1>8, <1>9, <1>10, <1>11, <1>12, <1>13, <1>14, <1>15,
       <1>16, Zenon DEF CommerceEffect

(***************************************************************************)
(* What the events of the supply chain tell                                *)
(***************************************************************************)

SupplyTells(d, e, event) ==
  \A w \in Warehouses :
    Tells(StockEvents, w, d.stock[w].available, e.stock[w].available, event)

LEMMA ExecuteTransferTells ==
  ASSUME NEW c, NEW d, SupplyOK(d), NEW r \in ExecuteTransfer(c, d)
  PROVE  SupplyTells(d, r.doc, r.event)
  <1> DEFINE guard == /\ c.scoped
                      /\ c.on # c.opt /\ {c.on, c.opt} \subseteq DOMAIN d.stock
                      /\ TransferAllowed(d.stock[c.on], c.n)
             less == [d.stock[c.on] EXCEPT !.available = d.stock[c.on].available - c.n]
             more == [d.stock[c.opt] EXCEPT !.available = d.stock[c.opt].available + c.n]
             e == [d EXCEPT !.stock[c.on].available = @ - c.n,
                            !.stock[c.opt].available = @ + c.n]
             stock == [[d.stock EXCEPT ![c.on] = less] EXCEPT ![c.opt] = more]
             event == [Event("inventory.transferred", c.on, c.n, d.stock[c.on].available,
                             d.stock[c.on].available - c.n) EXCEPT !.to = c.opt]
  <1>1. r \in When(guard, e, event)
    BY Zenon DEF ExecuteTransfer
  <1>2. guard /\ r.doc = e /\ r.event = event
    <2> HIDE DEF guard, e, event
    <2> QED
      BY <1>1, WhenTakes
  <1>3. /\ d.stock \in [Warehouses -> Shelf] /\ c.on \in Warehouses /\ c.opt \in Warehouses
        /\ c.on # c.opt /\ d.stock[c.on] \in Shelf /\ d.stock[c.opt] \in Shelf
        /\ DOMAIN d = SupplyFields /\ DOMAIN d.stock = Warehouses
    BY <1>2 DEF SupplyOK
  <1>4. /\ less.available = d.stock[c.on].available - c.n
        /\ more.available = d.stock[c.opt].available + c.n
    BY <1>3, Zenon DEF Shelf
  <1>5. e.stock = stock
    <2> DEFINE d1 == [d EXCEPT !.stock[c.on].available = d.stock[c.on].available - c.n]
               n == d.stock[c.opt].available + c.n
               target == [d1.stock[c.opt] EXCEPT !.available = n]
    <2>1. PutsStock(d, d1, [d.stock EXCEPT ![c.on] = less])
      BY Zenon DEF PutsStock
    <2>2. PutsStock(d1, e, [d1.stock EXCEPT ![c.opt] = target])
      BY Zenon DEF PutsStock
    <2> HIDE DEF d1, e
    <2>3. d1.stock = [d.stock EXCEPT ![c.on] = less] /\ DOMAIN d1 = SupplyFields
      BY <1>3, <2>1, SetShelves DEF Keeps
    <2>4. d1.stock[c.opt] = d.stock[c.opt]
      BY <1>3, <2>3
    <2>5. target = more
      BY <2>4, Zenon
    <2> HIDE DEF target
    <2>6. e.stock = [d1.stock EXCEPT ![c.opt] = target]
      BY <2>2, <2>3, SetShelves
    <2> QED
      BY <2>3, <2>5, <2>6, Zenon
  <1>6. "inventory.transferred" \in StockEvents
    BY DEF StockEvents
  <1>7. event = Transferred("inventory.transferred", c.on, c.opt, c.n, d.stock[c.on].available,
                            d.stock[c.on].available - c.n)
    BY Zenon DEF Transferred
  <1> HIDE DEF less, more, e, event
  <1>8. \A w \in Warehouses : Tells(StockEvents, w, d.stock[w].available, stock[w].available, event)
    <2> DEFINE old == d.stock
               n == c.n
               type == "inventory.transferred"
    <2>1. /\ DOMAIN old = Warehouses /\ PutsTwo(old, stock, c.on, less, c.opt, more)
          /\ less.available = old[c.on].available - n
          /\ more.available = old[c.opt].available + n
          /\ type \in StockEvents
          /\ event = Transferred(type, c.on, c.opt, n, old[c.on].available,
                                 old[c.on].available - n)
      BY <1>3, <1>4, <1>6, <1>7, Zenon DEF PutsTwo
    <2> HIDE DEF old, n, type, stock
    <2>2. \A w \in Warehouses : Tells(StockEvents, w, old[w].available, stock[w].available, event)
      BY <1>3, <2>1, MovedTells
    <2> QED
      BY <2>2 DEF old
  <1> HIDE DEF stock, guard
  <1> QED
    BY <1>2, <1>5, <1>8, Zenon DEF SupplyTells

LEMMA SupplyRowTells ==
  ASSUME NEW c, NEW d, SupplyOK(d), NEW table, NEW type, type \notin StockEvents,
         NEW on, NEW n, NEW before, NEW after, NEW guard,
         NEW r \in When(guard, AddRow(d, table, c), Event(type, on, n, before, after))
  PROVE  SupplyTells(d, r.doc, r.event)
  <1> DEFINE e == AddRow(d, table, c)
  <1>1. e.stock = d.stock
    <2>1. DOMAIN d = SupplyFields
      BY DEF SupplyOK
    <2> QED
      BY <2>1, Zenon DEF AddRow, SupplyFields
  <1>2. r.doc = e /\ r.event = Event(type, on, n, before, after)
    BY WhenTakes
  <1> HIDE DEF e
  <1>3. \A x, v : Tells(StockEvents, x, v, v, r.event)
    BY <1>2, OneTold
  <1> QED
    BY <1>1, <1>2, <1>3, Zenon DEF SupplyTells

\* Whatever is asked of the supply chain.
LEMMA SupplyEventTells ==
  ASSUME NEW c, NEW d, SupplyOK(d), NEW r \in SupplyEffect(c, d)
  PROVE  SupplyTells(d, r.doc, r.event)
  <1>1. CASE c.tool = "execute_transfer"
    BY <1>1, ExecuteTransferTells DEF SupplyEffect
  <1>2. CASE c.tool = "create_purchase_order"
    <2>1. r \in CreatePurchaseOrder(c, d) /\ "purchase_order.created" \notin StockEvents
      BY <1>2 DEF SupplyEffect, StockEvents
    <2> QED
      BY <2>1, SupplyRowTells DEF CreatePurchaseOrder
  <1>3. CASE c.tool = "escalate_supplier_delay"
    <2>1. r \in EscalateSupplierDelay(c, d) /\ "supplier.delay_escalated" \notin StockEvents
      BY <1>3 DEF SupplyEffect, StockEvents
    <2> QED
      BY <2>1, SupplyRowTells DEF EscalateSupplierDelay
  <1> QED
    BY <1>1, <1>2, <1>3, Zenon DEF SupplyEffect

(***************************************************************************)
(* What the events of insurance tell                                       *)
(***************************************************************************)

\* The last payment moves a claim from approved to paid without an event of its own.
ClaimSays(claim) == IF claim.status = "paid" THEN "approved" ELSE claim.status

PaymentEvents == {"claim.payment_issued"}

\* A claim is moved while it is undecided, and a decision leaves it decided.
DecisionTold(event) ==
  event.type \in ClaimEvents =>
    /\ event.before \in Undecided
    /\ event.type = "claim.decided" => event.after \notin Undecided

InsuranceTells(d, e, event) ==
  /\ event.to = event.on /\ DecisionTold(event)
  /\ Posts("payments", PaymentEvents, d.rows, e.rows, event)
  /\ DOMAIN e.claims = DOMAIN d.claims
  /\ \A x \in DOMAIN d.claims :
       /\ Tells(PaymentEvents, x, d.claims[x].paid, e.claims[x].paid, event)
       /\ Tells(ClaimEvents, x, ClaimSays(d.claims[x]), ClaimSays(e.claims[x]), event)

\* One claim changes, and the event tells of it.
LEMMA OneClaimTells ==
  ASSUME NEW d, NEW e, NEW on \in DOMAIN d.claims, NEW claim,
         PutsOne(d.claims, e.claims, on, claim),
         NEW type, NEW n, NEW before, NEW after, NEW event,
         event = Event(type, on, n, before, after), DecisionTold(event),
         Posts("payments", PaymentEvents, d.rows, e.rows, event),
         Tells(PaymentEvents, on, d.claims[on].paid, claim.paid, event),
         Tells(ClaimEvents, on, ClaimSays(d.claims[on]), ClaimSays(claim), event)
  PROVE  InsuranceTells(d, e, event)
  <1>1. /\ DOMAIN e.claims = DOMAIN d.claims /\ e.claims[on] = claim
        /\ \A x \in DOMAIN d.claims : x # on => e.claims[x] = d.claims[x]
    BY DEF PutsOne
  <1>2. \A types, x, v : x # on => Tells(types, x, v, v, event)
    BY OthersUntold
  <1>3. event.to = event.on
    BY DEF Event
  <1> SUFFICES ASSUME NEW x \in DOMAIN d.claims
               PROVE  /\ Tells(PaymentEvents, x, d.claims[x].paid, e.claims[x].paid, event)
                      /\ Tells(ClaimEvents, x, ClaimSays(d.claims[x]),
                               ClaimSays(e.claims[x]), event)
    BY <1>1, <1>3 DEF InsuranceTells
  <1>4. CASE x = on
    BY <1>1, <1>4
  <1>5. CASE x # on
    BY <1>1, <1>2, <1>5
  <1> QED
    BY <1>4, <1>5

LEMMA ClaimRowTells ==
  ASSUME NEW c, NEW d, InsuranceOK(d), NEW table, table # "payments", NEW type,
         type \notin PaymentEvents \cup ClaimEvents, NEW r \in ClaimRow(c, d, table, type)
  PROVE  InsuranceTells(d, r.doc, r.event)
  <1>1. r.doc = AddRow(d, table, c) /\ r.event = Event(type, c.on, c.n, "none", "added")
    BY WhenTakes DEF ClaimRow
  <1>2. r.doc.claims = d.claims
    BY <1>1, AddRowPuts, SetInsuranceRows
  <1>3. /\ \A x, v : Tells(PaymentEvents, x, v, v, r.event)
        /\ \A x, v : Tells(ClaimEvents, x, v, v, r.event)
    BY <1>1, OneTold
  <1>4. r.event.type = type /\ r.event.to = r.event.on
    BY <1>1 DEF Event
  <1>5. DecisionTold(r.event)
    BY <1>4 DEF DecisionTold
  <1>6. Posts("payments", PaymentEvents, d.rows, r.doc.rows, r.event)
    <2>1. "rows" \in DOMAIN d
      BY DEF InsuranceOK, InsuranceFields
    <2>2. \E row : row.table = table /\ r.doc.rows = Append(d.rows, row)
      BY <1>1, <2>1, AddsRow
    <2> QED
      BY <1>4, <2>2 DEF Posts
  <1> QED
    BY <1>2, <1>3, <1>4, <1>5, <1>6, Zenon DEF InsuranceTells

LEMMA MoveClaimTells ==
  ASSUME NEW c, NEW d, InsuranceOK(d), NEW from, from \subseteq Undecided,
         NEW to \in {"evidence_requested", "investigating"}, NEW table,
         table # "payments", NEW type \in ClaimEvents \ {"claim.decided"},
         NEW r \in MoveClaim(c, d, from, to, table, type)
  PROVE  InsuranceTells(d, r.doc, r.event)
  <1> DEFINE d1 == AddRow(d, table, c)
             guard == OnClaim(c, d) /\ d.claims[c.on].status \in from
             e == [AddRow(d, table, c) EXCEPT !.claims[c.on].status = to]
             event == Event(type, c.on, 0, d.claims[c.on].status, to)
             claim == [d1.claims[c.on] EXCEPT !.status = to]
             old == d.claims[c.on]
  <1>1. r \in When(guard, e, event)
    BY Zenon DEF MoveClaim
  <1>2. guard /\ r.doc = e /\ r.event = event
    <2> HIDE DEF guard, e, event
    <2> QED
      BY <1>1, WhenTakes
  <1>3. PutsClaims(d1, e, [d1.claims EXCEPT ![c.on] = claim])
    BY Zenon DEF PutsClaims
  <1>4. PutsStatus(d1.claims[c.on], claim, to)
    BY Zenon DEF PutsStatus
  <1>5. c.on \in DOMAIN d.claims /\ old.status \in Undecided
    BY <1>2 DEF OnClaim
  <1>6. event = Event(type, c.on, 0, old.status, to)
    BY Zenon
  <1> HIDE DEF d1, e, claim, event
  <1>7. InsuranceOK(d1) /\ d1.claims = d.claims
    BY AddRowPuts, SetInsuranceRows DEF d1
  <1>8. e.claims = [d.claims EXCEPT ![c.on] = claim] /\ e.rows = d1.rows
    <2>1. DOMAIN d1 = InsuranceFields
      BY <1>7 DEF InsuranceOK
    <2> QED
      BY <1>3, <1>7, <2>1, SetClaims
  <1>9. old \in ClaimRecord /\ to \in ClaimStates
    BY <1>5 DEF InsuranceOK, ClaimStates
  <1>10. claim.status = to /\ claim.paid = old.paid
    <2>1. d1.claims[c.on] = old
      BY <1>7
    <2> HIDE DEF old
    <2> QED
      BY <1>4, <1>9, <2>1, SetClaimStatus
  <1>11. ClaimSays(old) = old.status /\ ClaimSays(claim) = to
    BY <1>5, <1>10 DEF ClaimSays, Undecided
  <1>12. type \notin PaymentEvents
    BY DEF PaymentEvents, ClaimEvents
  <1>13. PutsOne(d.claims, e.claims, c.on, claim)
    BY <1>8 DEF PutsOne
  <1> HIDE DEF guard
  <1>14. /\ Tells(PaymentEvents, c.on, old.paid, claim.paid, event)
         /\ Tells(ClaimEvents, c.on, ClaimSays(old), ClaimSays(claim), event)
    <2> HIDE DEF old
    <2>1. Tells(PaymentEvents, c.on, old.paid, old.paid, event)
      BY <1>6, <1>12, OneTold
    <2>2. Tells(ClaimEvents, c.on, old.status, to, event)
      BY <1>6, OneTold
    <2> QED
      BY <1>10, <1>11, <2>1, <2>2
  <1>15. event.type = type /\ event.before = old.status
    BY <1>6 DEF Event
  <1>16. DecisionTold(event)
    BY <1>5, <1>15 DEF DecisionTold
  <1>17. Posts("payments", PaymentEvents, d.rows, e.rows, event)
    <2>1. "rows" \in DOMAIN d
      BY DEF InsuranceOK, InsuranceFields
    <2>2. \E row : row.table = table /\ e.rows = Append(d.rows, row)
      BY <1>8, <2>1, AddsRow DEF d1
    <2> QED
      BY <1>12, <1>15, <2>2 DEF Posts
  <1>18. InsuranceTells(d, e, event)
    BY <1>5, <1>6, <1>13, <1>14, <1>16, <1>17, OneClaimTells
  <1> QED
    BY <1>2, <1>18

\* What is written twice is what was written last.
LEMMA PutsTwice ==
  ASSUME NEW f, NEW on \in DOMAIN f, NEW middle, NEW x, NEW g, NEW h,
         g = [f EXCEPT ![on] = middle], h = [g EXCEPT ![on] = x]
  PROVE  PutsOne(f, h, on, x) /\ g[on] = middle
  BY DEF PutsOne

LEMMA DecideClaimTells ==
  ASSUME NEW c, c.n \in Int, NEW d, InsuranceOK(d), NEW r \in DecideClaim(c, d)
  PROVE  InsuranceTells(d, r.doc, r.event)
  <1> DEFINE old == d.claims[c.on]
             approves == c.opt = "approve"
             status == IF approves THEN "approved" ELSE "rejected"
             approved == IF approves THEN c.n ELSE old.approved
             guard == /\ OnClaim(c, d)
                      /\ old.status \in Undecided
                      /\ IF approves THEN c.n > 0 /\ c.n <= Approvable(d, old) ELSE c.n = 0
             d1 == [d EXCEPT !.claims[c.on].status = status]
             middle == [old EXCEPT !.status = status]
             e == [d EXCEPT !.claims[c.on].status = status,
                            !.claims[c.on].approved = IF approves THEN c.n ELSE @]
             event == Event("claim.decided", c.on, c.n, old.status, status)
             claim == [d1.claims[c.on] EXCEPT !.approved = approved]
  <1>1. r \in When(guard, e, event)
    BY Zenon DEF DecideClaim
  <1>2. guard /\ r.doc = e /\ r.event = event
    <2> HIDE DEF guard, e, event
    <2> QED
      BY <1>1, WhenTakes
  <1>3. /\ PutsClaims(d, d1, [d.claims EXCEPT ![c.on] = middle])
        /\ PutsClaims(d1, e, [d1.claims EXCEPT ![c.on] = claim])
    BY Zenon DEF PutsClaims
  <1>4. /\ PutsStatus(old, middle, status)
        /\ PutsApproved(d1.claims[c.on], claim, approved)
    BY Zenon DEF PutsStatus, PutsApproved
  <1>5. /\ c.on \in DOMAIN d.claims /\ old.status \in Undecided
        /\ approves => c.n > 0
    <2>1. approves => c.n > 0
      <3> HIDE DEF old
      <3> QED
        BY <1>2
    <2> QED
      BY <1>2, <2>1 DEF OnClaim
  <1>6. old \in ClaimRecord
    BY <1>5 DEF InsuranceOK
  <1> HIDE DEF d1, e, claim, middle, guard
  <1>7. PutsOne(d.claims, e.claims, c.on, claim) /\ d1.claims[c.on] = middle /\ e.rows = d.rows
    <2>1. DOMAIN d = InsuranceFields
      BY DEF InsuranceOK
    <2>2. /\ d1.claims = [d.claims EXCEPT ![c.on] = middle] /\ DOMAIN d1 = InsuranceFields
          /\ d1.rows = d.rows
      BY <1>3, <2>1, SetClaims DEF Keeps
    <2>3. e.claims = [d1.claims EXCEPT ![c.on] = claim] /\ e.rows = d1.rows
      BY <1>3, <2>2, SetClaims
    <2> QED
      BY <1>5, <2>2, <2>3, PutsTwice
  <1> HIDE DEF old, event
  <1>8. status \in ClaimStates /\ status # "paid" /\ approved \in Nat
    BY <1>5, <1>6 DEF ClaimStates, ClaimRecord
  <1>9. event = Event("claim.decided", c.on, c.n, old.status, status)
    BY Zenon DEF event
  <1>10. status \notin Undecided
    BY DEF Undecided
  <1> HIDE DEF status, approved, approves
  <1>11. middle \in ClaimRecord /\ middle.status = status /\ middle.paid = old.paid
    BY <1>4, <1>6, <1>8, SetClaimStatus
  <1>12. claim.status = status /\ claim.paid = old.paid
    BY <1>4, <1>7, <1>8, <1>11, SetClaimApproved
  <1>13. ClaimSays(old) = old.status /\ ClaimSays(claim) = status
    BY <1>5, <1>8, <1>12 DEF ClaimSays, Undecided
  <1>14. "claim.decided" \notin PaymentEvents /\ "claim.decided" \in ClaimEvents
    BY DEF PaymentEvents, ClaimEvents
  <1>15. Tells(PaymentEvents, c.on, old.paid, old.paid, event)
    BY <1>9, <1>14, OneTold
  <1>16. Tells(ClaimEvents, c.on, old.status, status, event)
    BY <1>9, <1>14, OneTold
  <1>17. /\ Tells(PaymentEvents, c.on, d.claims[c.on].paid, claim.paid, event)
         /\ Tells(ClaimEvents, c.on, ClaimSays(d.claims[c.on]), ClaimSays(claim), event)
    BY <1>12, <1>13, <1>15, <1>16 DEF old
  <1>18. event.type = "claim.decided" /\ event.before = old.status /\ event.after = status
    BY <1>9 DEF Event
  <1>19. DecisionTold(event)
    BY <1>5, <1>18, <1>10 DEF DecisionTold
  <1>20. Posts("payments", PaymentEvents, d.rows, e.rows, event)
    BY <1>7, <1>14, <1>18 DEF Posts
  <1>21. InsuranceTells(d, e, event)
    BY <1>5, <1>7, <1>9, <1>17, <1>19, <1>20, OneClaimTells
  <1> QED
    BY <1>2, <1>21

LEMMA IssuePaymentTells ==
  ASSUME NEW c, c.n \in Int, c.n > 0, NEW d, InsuranceOK(d), NEW r \in IssueClaimPayment(c, d)
  PROVE  InsuranceTells(d, r.doc, r.event)
  <1> DEFINE old == d.claims[c.on]
             paid == old.paid + c.n
             guard == /\ OnClaim(c, d)
                      /\ old.status = "approved"
                      /\ d.policy = "active"
                      /\ c.currency = "USD"
                      /\ c.n <= old.approved - old.paid
             d0 == AddRow(d, "payments", c)
             status == IF paid = old.approved THEN "paid" ELSE d0.claims[c.on].status
             d1 == [d0 EXCEPT !.claims[c.on].paid = paid]
             middle == [d0.claims[c.on] EXCEPT !.paid = paid]
             e == [AddRow(d, "payments", c) EXCEPT
                     !.claims[c.on].paid = paid,
                     !.claims[c.on].status = IF paid = old.approved THEN "paid" ELSE @]
             event == Event("claim.payment_issued", c.on, c.n, old.paid, paid)
             claim == [d1.claims[c.on] EXCEPT !.status = status]
  <1>1. r \in When(guard, e, event)
    BY Zenon DEF IssueClaimPayment
  <1>2. guard /\ r.doc = e /\ r.event = event
    <2> HIDE DEF guard, e, event
    <2> QED
      BY <1>1, WhenTakes
  <1>3. /\ PutsClaims(d0, d1, [d0.claims EXCEPT ![c.on] = middle])
        /\ PutsClaims(d1, e, [d1.claims EXCEPT ![c.on] = claim])
    BY Zenon DEF PutsClaims
  <1>4. /\ PutsPaid(d0.claims[c.on], middle, paid)
        /\ PutsStatus(d1.claims[c.on], claim, status)
    BY Zenon DEF PutsStatus, PutsPaid
  <1>5. c.on \in DOMAIN d.claims /\ old.status = "approved"
    BY <1>2 DEF OnClaim
  <1>6. old \in ClaimRecord
    BY <1>5 DEF InsuranceOK
  <1> HIDE DEF d0, d1, e, claim, middle, guard
  <1>7. InsuranceOK(d0) /\ d0.claims = d.claims
    BY AddRowPuts, SetInsuranceRows DEF d0
  <1>8. PutsOne(d.claims, e.claims, c.on, claim) /\ d1.claims[c.on] = middle /\ e.rows = d0.rows
    <2>1. DOMAIN d0 = InsuranceFields
      BY <1>7 DEF InsuranceOK
    <2>2. /\ d1.claims = [d.claims EXCEPT ![c.on] = middle] /\ DOMAIN d1 = InsuranceFields
          /\ d1.rows = d0.rows
      BY <1>3, <1>7, <2>1, SetClaims DEF Keeps
    <2>3. e.claims = [d1.claims EXCEPT ![c.on] = claim] /\ e.rows = d1.rows
      BY <1>3, <2>2, SetClaims
    <2> QED
      BY <1>5, <2>2, <2>3, PutsTwice
  <1>9. d0.claims[c.on] = old
    BY <1>7
  <1> HIDE DEF old, event
  <1>10. paid \in Nat
    <2>1. old.paid \in Nat
      BY <1>6 DEF ClaimRecord
    <2> QED
      BY <2>1
  <1>11. event = Event("claim.payment_issued", c.on, c.n, old.paid, paid)
    BY Zenon DEF event
  <1>12. paid = old.paid + c.n
    OBVIOUS
  <1> HIDE DEF paid
  <1>13. status \in {"approved", "paid"} /\ status \in ClaimStates
    BY <1>5, <1>9 DEF ClaimStates
  <1> HIDE DEF status
  <1>14. middle \in ClaimRecord /\ middle.paid = paid
    BY <1>4, <1>6, <1>9, <1>10, SetClaimPaid
  <1>15. claim.status = status /\ claim.paid = paid
    BY <1>4, <1>8, <1>13, <1>14, SetClaimStatus
  <1>16. ClaimSays(old) = "approved" /\ ClaimSays(claim) = "approved"
    BY <1>5, <1>13, <1>15 DEF ClaimSays
  <1>17. "claim.payment_issued" \in PaymentEvents /\ "claim.payment_issued" \notin ClaimEvents
    BY DEF PaymentEvents, ClaimEvents
  <1>18. Tells(PaymentEvents, c.on, old.paid, paid, event)
    BY <1>11, <1>17, OneTold
  <1>19. Tells(ClaimEvents, c.on, "approved", "approved", event)
    BY <1>11, <1>17, OneTold
  <1>20. /\ Tells(PaymentEvents, c.on, d.claims[c.on].paid, claim.paid, event)
         /\ Tells(ClaimEvents, c.on, ClaimSays(d.claims[c.on]), ClaimSays(claim), event)
    BY <1>15, <1>16, <1>18, <1>19 DEF old
  <1>21. /\ event.type = "claim.payment_issued" /\ event.on = c.on /\ event.n = c.n
         /\ event.before = old.paid /\ event.after = paid
    BY <1>11, Zenon DEF Event
  <1>22. DecisionTold(event)
    BY <1>17, <1>21 DEF DecisionTold
  <1>23. Posts("payments", PaymentEvents, d.rows, e.rows, event)
    <2>1. "rows" \in DOMAIN d
      BY DEF InsuranceOK, InsuranceFields
    <2>2. \E row : /\ row.table = "payments" /\ row.of = c.on /\ row.amount = c.n
                   /\ e.rows = Append(d.rows, row)
      BY <1>8, <2>1, AddsRow DEF d0
    <2> QED
      BY <1>17, <1>12, <1>21, <2>2 DEF Posts, IsRowOf
  <1>24. InsuranceTells(d, e, event)
    BY <1>5, <1>8, <1>11, <1>20, <1>22, <1>23, OneClaimTells
  <1> QED
    BY <1>2, <1>24

\* Whatever is asked of insurance.
LEMMA InsuranceEventTells ==
  ASSUME NEW c \in Call, NEW d, InsuranceOK(d), NEW r \in InsuranceEffect(c, d)
  PROVE  InsuranceTells(d, r.doc, r.event)
  <1>1. c.n \in Int /\ (c.tool \in Quantified => c.n > 0)
    BY RequestAssumption
  <1>2. CASE c.tool \in {"add_analyst_note", "record_claim_recommendation",
                         "flag_claim_for_review", "add_adjuster_note"}
    <2>1. \E table \in {"analyst_notes", "recommendations", "risk_flags", "notes"} :
            \E type \in {"claim.analyst_note_added", "claim.recommendation_recorded",
                         "claim.risk_flagged", "claim.note_added"} :
              r \in ClaimRow(c, d, table, type)
      BY <1>2 DEF InsuranceEffect
    <2>2. \A type \in {"claim.analyst_note_added", "claim.recommendation_recorded",
                       "claim.risk_flagged", "claim.note_added"} :
            type \notin PaymentEvents \cup ClaimEvents
      BY DEF PaymentEvents, ClaimEvents
    <2> QED
      BY <2>1, <2>2, ClaimRowTells
  <1>3. CASE c.tool \in {"request_evidence", "escalate_investigation"}
    <2>1. \/ r \in MoveClaim(c, d, {"open", "investigating"}, "evidence_requested",
                             "documents", "claim.evidence_requested")
          \/ r \in MoveClaim(c, d, Undecided, "investigating",
                             "investigations", "claim.investigation_escalated")
      BY <1>3 DEF InsuranceEffect
    <2>2. /\ {"open", "investigating"} \subseteq Undecided
          /\ {"claim.evidence_requested", "claim.investigation_escalated"}
               \subseteq ClaimEvents \ {"claim.decided"}
      BY DEF Undecided, ClaimEvents
    <2> QED
      BY <2>1, <2>2, MoveClaimTells
  <1>4. CASE c.tool = "decide_claim"
    BY <1>1, <1>4, DecideClaimTells DEF InsuranceEffect
  <1>5. CASE c.tool = "issue_claim_payment"
    BY <1>1, <1>5, IssuePaymentTells DEF InsuranceEffect, Quantified
  <1> QED
    BY <1>2, <1>3, <1>4, <1>5, Zenon DEF InsuranceEffect

(***************************************************************************)
(* What the events of marketing tell                                       *)
(***************************************************************************)

AllocationEvents == {"campaign.budget_allocated"}

\* The event of one campaign tells of its budget, and of its status until it is over.
CampaignTells(x, old, new, event) ==
  /\ new.approved = old.approved
  /\ Tells(AllocationEvents, x, old.spent, new.spent, event)
  /\ new.status # "completed" =>
       old.status # "completed" /\ Tells(CampaignEvents, x, old.status, new.status, event)

\* Only a launch makes a campaign live, only a live one is sent for, and what is
\* over is allocated nothing.
CourseTold(campaigns, event) ==
  /\ event.type \in CampaignEvents /\ event.after = "live" => event.type = "campaign.launched"
  /\ event.type = "campaign.communication_sent" => campaigns[event.on].status = "live"
  /\ event.type \in AllocationEvents => campaigns[event.on].status # "completed"

MarketingTells(d, e, event) ==
  /\ event.to = event.on /\ CourseTold(d.campaigns, event)
  /\ Posts("budget_allocations", AllocationEvents, d.rows, e.rows, event)
  /\ DOMAIN e.campaigns = DOMAIN d.campaigns
  /\ \A x \in DOMAIN d.campaigns : CampaignTells(x, d.campaigns[x], e.campaigns[x], event)

\* One campaign changes, and the event tells of it.
LEMMA OneCampaignTells ==
  ASSUME NEW d, NEW e, NEW on \in DOMAIN d.campaigns, NEW campaign,
         PutsOne(d.campaigns, e.campaigns, on, campaign),
         NEW type, NEW n, NEW before, NEW after, NEW event,
         event = Event(type, on, n, before, after), CourseTold(d.campaigns, event),
         Posts("budget_allocations", AllocationEvents, d.rows, e.rows, event),
         CampaignTells(on, d.campaigns[on], campaign, event)
  PROVE  MarketingTells(d, e, event)
  <1>1. /\ DOMAIN e.campaigns = DOMAIN d.campaigns /\ e.campaigns[on] = campaign
        /\ \A x \in DOMAIN d.campaigns : x # on => e.campaigns[x] = d.campaigns[x]
    BY DEF PutsOne
  <1>2. \A types, x, v : x # on => Tells(types, x, v, v, event)
    BY OthersUntold
  <1>3. event.to = event.on
    BY DEF Event
  <1> SUFFICES ASSUME NEW x \in DOMAIN d.campaigns
               PROVE  CampaignTells(x, d.campaigns[x], e.campaigns[x], event)
    BY <1>1, <1>3 DEF MarketingTells
  <1>4. CASE x = on
    BY <1>1, <1>4
  <1>5. CASE x # on
    BY <1>1, <1>2, <1>5 DEF CampaignTells
  <1> QED
    BY <1>4, <1>5

\* Handlers that only add a row.
LEMMA CampaignRowTells ==
  ASSUME NEW c, NEW d, MarketingOK(d), NEW table, table # "budget_allocations",
         NEW guard,
         NEW type, type \notin AllocationEvents \cup CampaignEvents,
         NEW on, NEW n, NEW before, NEW after,
         type = "campaign.communication_sent" /\ guard => d.campaigns[on].status = "live",
         NEW r \in When(guard, AddRow(d, table, c), Event(type, on, n, before, after))
  PROVE  MarketingTells(d, r.doc, r.event)
  <1>1. r.doc = AddRow(d, table, c) /\ r.event = Event(type, on, n, before, after)
    BY WhenTakes
  <1>2. r.doc.campaigns = d.campaigns
    BY <1>1, AddRowPuts, SetMarketingRows
  <1>3. /\ \A x, v : Tells(AllocationEvents, x, v, v, r.event)
        /\ \A x, v : Tells(CampaignEvents, x, v, v, r.event)
    BY <1>1, OneTold
  <1>4. r.event.type = type /\ r.event.on = on /\ r.event.to = on
    BY <1>1 DEF Event
  <1>5. CourseTold(d.campaigns, r.event)
    <2>1. type = "campaign.communication_sent" => d.campaigns[on].status = "live"
      <3>1. guard
        BY WhenTakes
      <3> QED
        BY <3>1, Zenon
    <2> QED
      BY <1>4, <2>1 DEF CourseTold
  <1>6. Posts("budget_allocations", AllocationEvents, d.rows, r.doc.rows, r.event)
    <2>1. "rows" \in DOMAIN d
      BY DEF MarketingOK, MarketingFields
    <2>2. \E row : row.table = table /\ r.doc.rows = Append(d.rows, row)
      BY <1>1, <2>1, AddsRow
    <2> QED
      BY <1>4, <2>2 DEF Posts
  <1> QED
    BY <1>2, <1>3, <1>4, <1>5, <1>6, Zenon DEF MarketingTells, CampaignTells

LEMMA MoveCampaignTells ==
  ASSUME NEW c, NEW d, MarketingOK(d), NEW from, from \subseteq Unlaunched,
         NEW to \in CampaignStates \ {"completed"}, NEW table,
         table # "budget_allocations", NEW type \in CampaignEvents,
         to = "live" => type = "campaign.launched",
         NEW r \in MoveCampaign(c, d, from, to, table, type)
  PROVE  MarketingTells(d, r.doc, r.event)
  <1> DEFINE d1 == AddRow(d, table, c)
             guard == OnCampaign(c, d) /\ d.campaigns[c.on].status \in from
             e == [AddRow(d, table, c) EXCEPT !.campaigns[c.on].status = to]
             event == Event(type, c.on, 0, d.campaigns[c.on].status, to)
             campaign == [d1.campaigns[c.on] EXCEPT !.status = to]
             old == d.campaigns[c.on]
  <1>1. r \in When(guard, e, event)
    BY Zenon DEF MoveCampaign
  <1>2. guard /\ r.doc = e /\ r.event = event
    <2> HIDE DEF guard, e, event
    <2> QED
      BY <1>1, WhenTakes
  <1>3. PutsCampaigns(d1, e, [d1.campaigns EXCEPT ![c.on] = campaign])
    BY Zenon DEF PutsCampaigns
  <1>4. PutsStatus(d1.campaigns[c.on], campaign, to)
    BY Zenon DEF PutsStatus
  <1>5. c.on \in DOMAIN d.campaigns /\ old.status \in Unlaunched
    BY <1>2 DEF OnCampaign
  <1>6. event = Event(type, c.on, 0, old.status, to)
    BY Zenon
  <1> HIDE DEF d1, e, campaign, event
  <1>7. MarketingOK(d1) /\ d1.campaigns = d.campaigns
    BY AddRowPuts, SetMarketingRows DEF d1
  <1>8. PutsOne(d.campaigns, e.campaigns, c.on, campaign) /\ e.rows = d1.rows
    <2>1. DOMAIN d1 = MarketingFields
      BY <1>7 DEF MarketingOK
    <2>2. e.campaigns = [d.campaigns EXCEPT ![c.on] = campaign] /\ e.rows = d1.rows
      BY <1>3, <1>7, <2>1, SetCampaigns
    <2> QED
      BY <2>2 DEF PutsOne
  <1>9. old \in CampaignRecord /\ d1.campaigns[c.on] = old
    BY <1>5, <1>7 DEF MarketingOK
  <1> HIDE DEF old, guard
  <1>10. /\ campaign.status = to /\ campaign.spent = old.spent
         /\ campaign.approved = old.approved
    BY <1>4, <1>9, SetCampaignStatus
  <1>11. type \notin AllocationEvents
    BY DEF AllocationEvents, CampaignEvents
  <1>12. Tells(AllocationEvents, c.on, old.spent, old.spent, event)
    BY <1>6, <1>11, OneTold
  <1>13. Tells(CampaignEvents, c.on, old.status, to, event)
    BY <1>6, OneTold
  <1>14. old.status # "completed"
    BY <1>5 DEF Unlaunched
  <1>15. CampaignTells(c.on, d.campaigns[c.on], campaign, event)
    BY <1>10, <1>12, <1>13, <1>14 DEF CampaignTells, old
  <1>16. event.type = type /\ event.after = to
    BY <1>6 DEF Event
  <1>17. CourseTold(d.campaigns, event)
    BY <1>11, <1>16 DEF CourseTold, CampaignEvents
  <1>18. Posts("budget_allocations", AllocationEvents, d.rows, e.rows, event)
    <2>1. "rows" \in DOMAIN d
      BY DEF MarketingOK, MarketingFields
    <2>2. \E row : row.table = table /\ e.rows = Append(d.rows, row)
      BY <1>8, <2>1, AddsRow DEF d1
    <2> QED
      BY <1>11, <1>16, <2>2 DEF Posts
  <1>19. MarketingTells(d, e, event)
    BY <1>5, <1>6, <1>8, <1>15, <1>17, <1>18, OneCampaignTells
  <1> QED
    BY <1>2, <1>19

LEMMA AllocateTells ==
  ASSUME NEW c, c.n \in Int, c.n > 0, NEW d, MarketingOK(d), NEW r \in AllocateBudget(c, d)
  PROVE  MarketingTells(d, r.doc, r.event)
  <1> DEFINE old == d.campaigns[c.on]
             spent == old.spent + c.n
             guard == /\ OnCampaign(c, d)
                      /\ old.status \in Unlaunched \cup {"live"}
                      /\ old.segment \in d.segments
                      /\ d.advertiser = "active"
                      /\ c.currency = "USD"
                      /\ c.n <= Allocatable(old)
             d0 == AddRow(d, "budget_allocations", c)
             status == IF UsedUp(old, spent) THEN "completed" ELSE d0.campaigns[c.on].status
             d1 == [d0 EXCEPT !.campaigns[c.on].spent = spent]
             middle == [d0.campaigns[c.on] EXCEPT !.spent = spent]
             e == [AddRow(d, "budget_allocations", c) EXCEPT
                     !.campaigns[c.on].spent = spent,
                     !.campaigns[c.on].status = IF UsedUp(old, spent) THEN "completed" ELSE @]
             event == Event("campaign.budget_allocated", c.on, c.n, old.spent, spent)
             campaign == [d1.campaigns[c.on] EXCEPT !.status = status]
  <1>1. r \in When(guard, e, event)
    BY Zenon DEF AllocateBudget
  <1>2. guard /\ r.doc = e /\ r.event = event
    <2> HIDE DEF guard, e, event
    <2> QED
      BY <1>1, WhenTakes
  <1>3. /\ PutsCampaigns(d0, d1, [d0.campaigns EXCEPT ![c.on] = middle])
        /\ PutsCampaigns(d1, e, [d1.campaigns EXCEPT ![c.on] = campaign])
    BY Zenon DEF PutsCampaigns
  <1>4. /\ PutsSpent(d0.campaigns[c.on], middle, spent)
        /\ PutsStatus(d1.campaigns[c.on], campaign, status)
    BY Zenon DEF PutsStatus, PutsSpent
  <1>5. c.on \in DOMAIN d.campaigns /\ old \in CampaignRecord
    BY <1>2 DEF OnCampaign, MarketingOK
  <1>6. old.status # "completed"
    <2>1. old.status \in Unlaunched \cup {"live"}
      BY <1>2
    <2> HIDE DEF old
    <2> QED
      BY <2>1 DEF Unlaunched
  <1> HIDE DEF d0, d1, e, campaign, middle, guard
  <1>7. MarketingOK(d0) /\ d0.campaigns = d.campaigns
    BY AddRowPuts, SetMarketingRows DEF d0
  <1>8. /\ PutsOne(d.campaigns, e.campaigns, c.on, campaign) /\ d1.campaigns[c.on] = middle
        /\ e.rows = d0.rows
    <2>1. DOMAIN d0 = MarketingFields
      BY <1>7 DEF MarketingOK
    <2>2. /\ d1.campaigns = [d.campaigns EXCEPT ![c.on] = middle] /\ DOMAIN d1 = MarketingFields
          /\ d1.rows = d0.rows
      BY <1>3, <1>7, <2>1, SetCampaigns DEF Keeps
    <2>3. e.campaigns = [d1.campaigns EXCEPT ![c.on] = campaign] /\ e.rows = d1.rows
      BY <1>3, <2>2, SetCampaigns
    <2> QED
      BY <1>5, <2>2, <2>3, PutsTwice
  <1>9. d0.campaigns[c.on] = old
    BY <1>7
  <1> HIDE DEF old, event
  <1>10. spent \in Nat
    <2>1. old.spent \in Nat
      BY <1>5 DEF CampaignRecord
    <2> QED
      BY <2>1
  <1>11. event = Event("campaign.budget_allocated", c.on, c.n, old.spent, spent)
    BY Zenon DEF event
  <1>12. spent = old.spent + c.n
    OBVIOUS
  <1> HIDE DEF spent
  <1>13. status \in CampaignStates /\ status \in {"completed", old.status}
    <2>1. old.status \in CampaignStates
      BY <1>5 DEF CampaignRecord
    <2> QED
      BY <1>9, <2>1 DEF CampaignStates
  <1> HIDE DEF status
  <1>14. middle \in CampaignRecord /\ middle.spent = spent /\ middle.approved = old.approved
    BY <1>4, <1>5, <1>9, <1>10, SetSpent
  <1>15. /\ campaign.status = status /\ campaign.spent = spent
         /\ campaign.approved = old.approved
    BY <1>4, <1>8, <1>13, <1>14, SetCampaignStatus
  <1>16. /\ "campaign.budget_allocated" \in AllocationEvents
         /\ "campaign.budget_allocated" \notin CampaignEvents
    BY DEF AllocationEvents, CampaignEvents
  <1>17. Tells(AllocationEvents, c.on, old.spent, spent, event)
    BY <1>11, <1>16, OneTold
  <1>18. Tells(CampaignEvents, c.on, old.status, old.status, event)
    BY <1>11, <1>16, OneTold
  <1>19. CampaignTells(c.on, d.campaigns[c.on], campaign, event)
    BY <1>6, <1>13, <1>15, <1>17, <1>18 DEF CampaignTells, old
  <1>20. /\ event.type = "campaign.budget_allocated" /\ event.on = c.on /\ event.n = c.n
         /\ event.before = old.spent /\ event.after = spent
    BY <1>11, Zenon DEF Event
  <1>21. CourseTold(d.campaigns, event)
    BY <1>6, <1>16, <1>20 DEF CourseTold, old
  <1>22. Posts("budget_allocations", AllocationEvents, d.rows, e.rows, event)
    <2>1. "rows" \in DOMAIN d
      BY DEF MarketingOK, MarketingFields
    <2>2. \E row : /\ row.table = "budget_allocations" /\ row.of = c.on /\ row.amount = c.n
                   /\ e.rows = Append(d.rows, row)
      BY <1>8, <2>1, AddsRow DEF d0
    <2> QED
      BY <1>16, <1>12, <1>20, <2>2 DEF Posts, IsRowOf
  <1>23. MarketingTells(d, e, event)
    BY <1>5, <1>8, <1>11, <1>19, <1>21, <1>22, OneCampaignTells
  <1> QED
    BY <1>2, <1>23

\* Whatever is asked of marketing.
LEMMA MarketingEventTells ==
  ASSUME NEW c \in Call, NEW d, MarketingOK(d), NEW r \in MarketingEffect(c, d)
  PROVE  MarketingTells(d, r.doc, r.event)
  <1>1. c.n \in Int /\ (c.tool \in Quantified => c.n > 0)
    BY RequestAssumption
  <1>2. CASE c.tool \in {"add_campaign_note", "record_launch_recommendation",
                         "flag_campaign_for_review"}
    <2> DEFINE Added == {"campaign.analyst_note_added", "campaign.recommendation_recorded",
                         "campaign.risk_flagged"}
    <2>1. \E table \in {"analyst_notes", "recommendations", "risk_flags"} :
            \E type \in Added : r \in CampaignRow(c, d, table, type)
      BY <1>2 DEF MarketingEffect
    <2>2. \A type \in Added : /\ type \notin AllocationEvents \cup CampaignEvents
                              /\ type # "campaign.communication_sent"
      BY DEF AllocationEvents, CampaignEvents
    <2> QED
      BY <2>1, <2>2, CampaignRowTells DEF CampaignRow
  <1>3. CASE c.tool \in {"request_suppression_update", "escalate_compliance_review",
                         "launch_campaign"}
    <2>1. \/ r \in MoveCampaign(c, d, {"draft", "under_review"}, "data_requested",
                                "documents", "campaign.data_requested")
          \/ r \in MoveCampaign(c, d, Unlaunched, "under_review",
                                "compliance_reviews", "campaign.compliance_review_escalated")
          \/ r \in MoveCampaign(c, d, Unlaunched, "live", "launches", "campaign.launched")
      BY <1>3 DEF MarketingEffect
    <2>2. /\ {"draft", "under_review"} \subseteq Unlaunched
          /\ {"data_requested", "under_review", "live"} \subseteq CampaignStates \ {"completed"}
          /\ {"campaign.data_requested", "campaign.compliance_review_escalated",
              "campaign.launched"} \subseteq CampaignEvents
      BY DEF Unlaunched, CampaignStates, CampaignEvents
    <2> QED
      BY <2>1, <2>2, MoveCampaignTells
  <1>4. CASE c.tool = "send_campaign_communication"
    <2>1. r \in SendCommunication(c, d)
      BY <1>4 DEF MarketingEffect
    <2>2. "campaign.communication_sent" \notin AllocationEvents \cup CampaignEvents
      BY DEF AllocationEvents, CampaignEvents
    <2> QED
      BY <2>1, <2>2, CampaignRowTells DEF SendCommunication
  <1>5. CASE c.tool = "allocate_campaign_budget"
    BY <1>1, <1>5, AllocateTells DEF MarketingEffect, Quantified
  <1> QED
    BY <1>2, <1>3, <1>4, <1>5, Zenon DEF MarketingEffect

(***************************************************************************)
(* What the refunds of an order add up to                                  *)
(***************************************************************************)

\* The refunds of an order add up to the same in its row, in the table and in
\* the log, and an order with refunds is refunded something.
RefundsAddUp(o, refunded, refunds, lg) ==
  /\ EventTotal(RefundEvents, o, lg, refunded)
  /\ AddsUpTo(Column(refunds), RefundsIn(refunds, o), refunded)
  /\ RefundsIn(refunds, o) # {} => refunded > 0

\* The refunds still pending are those the log says were and does not say were
\* completed.
PendingTold(o, refunds, lg) ==
  /\ IsFiniteSet(PendingIn(refunds, o))
  /\ Cardinality(PendingIn(refunds, o))
       = Told(lg, {"refund.pending"}, o) - Told(lg, {"refund.completed"}, o)

LEMMA NothingRefunded ==
  ASSUME NEW o
  PROVE  RefundsAddUp(o, 0, <<>>, <<>>) /\ PendingTold(o, <<>>, <<>>)
  <1>1. /\ RefundsIn(<<>>, o) = {} /\ PendingIn(<<>>, o) = {}
        /\ \A types : EventsIn(<<>>, types, o) = {}
    BY EmptyList DEF RefundsIn, PendingIn, EventsIn
  <1>2. Cardinality({}) = 0 /\ IsFiniteSet({})
    BY FS_EmptySet
  <1>3. RefundsAddUp(o, 0, <<>>, <<>>)
    BY <1>1, NothingAdds DEF RefundsAddUp, EventTotal
  <1>4. PendingTold(o, <<>>, <<>>)
    <2>1. \A types : Told(<<>>, types, o) = 0
      BY <1>1, <1>2 DEF Told
    <2>2. Cardinality(PendingIn(<<>>, o)) = 0 /\ IsFiniteSet(PendingIn(<<>>, o))
      BY <1>1, <1>2
    <2>3. 0 = 0 - 0
      OBVIOUS
    <2> QED
      BY <2>1, <2>2, <2>3 DEF PendingTold
  <1> QED
    BY <1>3, <1>4

LEMMA RefundsStillAddUp ==
  ASSUME NEW lg, IsList(lg), NEW refunds, IsList(refunds), NEW o, NEW old \in Nat,
         RefundsAddUp(o, old, refunds, lg),
         NEW entry, NEW more, RefundsTold(refunds, more, entry.event),
         NEW new, Tells(RefundEvents, o, old, new, entry.event)
  PROVE  RefundsAddUp(o, new, more, Append(lg, entry))
  <1> DEFINE event == entry.event
             longer == Append(lg, entry)
             mine == RefundsIn(refunds, o)
  <1>1. /\ EventTotal(RefundEvents, o, lg, old) /\ AddsUpTo(Column(refunds), mine, old)
        /\ mine # {} => old > 0
    BY DEF RefundsAddUp
  <1>2. /\ IsAbout(event, RefundEvents, o) /\ event.n \in Int =>
             EventTotal(RefundEvents, o, longer, old + event.n)
        /\ ~ IsAbout(event, RefundEvents, o) => EventTotal(RefundEvents, o, longer, old)
    BY <1>1, EventTotalGrows
  <1> HIDE DEF longer, event
  <1>3. CASE event.type \notin RefundRowEvents /\ more = refunds
    <2>1. new = old /\ ~ IsAbout(event, RefundEvents, o)
      BY <1>3 DEF Tells, After, IsAbout, RefundRowEvents, event
    <2> QED
      BY <1>1, <1>2, <1>3, <2>1 DEF RefundsAddUp, longer
  <1>4. CASE RefundIssued(refunds, more, event)
    <2>1. /\ event.type \in RefundEvents /\ event.to = event.on
          /\ event.n \in Int /\ event.n > 0 /\ event.after = event.before + event.n
      BY <1>4 DEF RefundIssued
    <2>2. PICK row : row.order = event.on /\ row.amount = event.n /\ more = Append(refunds, row)
      BY <1>4 DEF RefundIssued
    <2>3. RefundsGrown(refunds, row, o)
      BY RefundsGrow
    <2>4. mine \subseteq DOMAIN refunds
      BY DEF RefundsIn
    <2>5. /\ AddsUpTo(Column(more), mine, old)
          /\ AddsUpTo(Column(more), mine \cup {Len(refunds) + 1}, old + event.n)
      BY <1>1, <2>1, <2>2, <2>4, ColumnGrows
    <2>6. CASE event.on = o
      <3>1. new = old + event.n
        BY <2>1, <2>6 DEF Tells, After, event
      <3>2. RefundsIn(more, o) = mine \cup {Len(refunds) + 1}
        BY <2>2, <2>3, <2>6 DEF RefundsGrown
      <3>3. new > 0
        BY <2>1, <3>1
      <3>4. EventTotal(RefundEvents, o, longer, new)
        BY <1>2, <2>1, <2>6, <3>1 DEF IsAbout
      <3> QED
        BY <2>5, <3>1, <3>2, <3>3, <3>4 DEF RefundsAddUp, longer
    <2>7. CASE event.on # o
      <3>1. new = old /\ ~ IsAbout(event, RefundEvents, o)
        BY <2>1, <2>7 DEF Tells, After, IsAbout, event
      <3>2. RefundsIn(more, o) = mine
        BY <2>2, <2>3, <2>7 DEF RefundsGrown
      <3> QED
        BY <1>1, <1>2, <2>5, <3>1, <3>2 DEF RefundsAddUp, longer
    <2> QED
      BY <2>6, <2>7
  <1>5. CASE RefundCompleted(refunds, more, event)
    <2>1. new = old /\ ~ IsAbout(event, RefundEvents, o)
      BY <1>5 DEF RefundCompleted, Tells, After, IsAbout, RefundEvents, event
    <2>2. /\ DOMAIN more = DOMAIN refunds
          /\ \A i \in DOMAIN refunds : /\ more[i].order = refunds[i].order
                                       /\ more[i].amount = refunds[i].amount
      BY <1>5 DEF RefundCompleted
    <2>3. RefundsIn(more, o) = mine /\ \A i \in mine : Column(more)[i] = Column(refunds)[i]
      BY <2>2 DEF RefundsIn, Column
    <2> HIDE DEF mine
    <2>4. AddsUpTo(Column(more), mine, old)
      BY <1>1, <2>3, SameNumbersAdd
    <2> QED
      BY <1>1, <1>2, <2>1, <2>3, <2>4 DEF RefundsAddUp, longer
  <1> QED
    BY <1>3, <1>4, <1>5 DEF RefundsTold, event

LEMMA PendingStillTold ==
  ASSUME NEW lg, IsList(lg), NEW refunds, IsList(refunds), NEW o, PendingTold(o, refunds, lg),
         NEW entry, NEW more, RefundsTold(refunds, more, entry.event)
  PROVE  PendingTold(o, more, Append(lg, entry))
  <1> DEFINE event == entry.event
             longer == Append(lg, entry)
             pending == PendingIn(refunds, o)
             P == {"refund.pending"}
             C == {"refund.completed"}
  <1>1. IsFiniteSet(pending) /\ Cardinality(pending) = Told(lg, P, o) - Told(lg, C, o)
    BY DEF PendingTold
  <1>2. /\ Told(lg, P, o) \in Nat /\ Told(lg, C, o) \in Nat
        /\ Told(longer, P, o) = IF IsAbout(event, P, o) THEN Told(lg, P, o) + 1 ELSE Told(lg, P, o)
        /\ Told(longer, C, o) = IF IsAbout(event, C, o) THEN Told(lg, C, o) + 1 ELSE Told(lg, C, o)
    BY EventsCounted
  <1> HIDE DEF longer, event, pending
  <1>3. CASE event.type \notin RefundRowEvents /\ more = refunds
    <2>1. ~ IsAbout(event, P, o) /\ ~ IsAbout(event, C, o)
      BY <1>3 DEF IsAbout, RefundRowEvents, RefundEvents
    <2> QED
      BY <1>1, <1>2, <1>3, <2>1 DEF PendingTold, longer, pending
  <1>4. CASE RefundIssued(refunds, more, event)
    <2>1. PICK row : /\ row.order = event.on /\ more = Append(refunds, row)
                     /\ row.status = "pending" <=> event.type = "refund.pending"
      BY <1>4 DEF RefundIssued
    <2>2. event.type # "refund.completed"
      BY <1>4 DEF RefundIssued, RefundEvents
    <2>3. RefundsGrown(refunds, row, o)
      BY RefundsGrow
    <2>4. /\ Len(refunds) + 1 \notin pending
          /\ PendingIn(more, o) = IF row.order = o /\ row.status = "pending"
                                  THEN pending \cup {Len(refunds) + 1} ELSE pending
      BY <2>1, <2>3 DEF RefundsGrown, pending
    <2>5. Told(longer, C, o) = Told(lg, C, o)
      BY <1>2, <2>2 DEF IsAbout
    <2>6. CASE event.on = o /\ event.type = "refund.pending"
      <3>1. PendingIn(more, o) = pending \cup {Len(refunds) + 1}
        BY <2>1, <2>4, <2>6
      <3>2. /\ IsFiniteSet(PendingIn(more, o))
            /\ Cardinality(PendingIn(more, o)) = Cardinality(pending) + 1
        BY <1>1, <2>4, <3>1, FS_AddElement
      <3>3. Told(longer, P, o) = Told(lg, P, o) + 1
        BY <1>2, <2>6 DEF IsAbout
      <3> QED
        BY <1>1, <1>2, <2>5, <3>2, <3>3 DEF PendingTold, longer
    <2>7. CASE ~ (event.on = o /\ event.type = "refund.pending")
      <3>1. PendingIn(more, o) = pending
        BY <2>1, <2>4, <2>7
      <3>2. Told(longer, P, o) = Told(lg, P, o)
        BY <1>2, <2>7 DEF IsAbout
      <3> QED
        BY <1>1, <2>5, <3>1, <3>2 DEF PendingTold, longer
    <2> QED
      BY <2>6, <2>7
  <1>5. CASE RefundCompleted(refunds, more, event)
    <2>1. PICK k \in DOMAIN refunds :
            /\ refunds[k].order = event.on /\ refunds[k].status = "pending"
            /\ more[k].status # "pending"
            /\ DOMAIN more = DOMAIN refunds
            /\ \A i \in DOMAIN refunds : more[i].order = refunds[i].order
            /\ \A i \in DOMAIN refunds \ {k} : more[i] = refunds[i]
      BY <1>5 DEF RefundCompleted
    <2>2. event.type = "refund.completed"
      BY <1>5 DEF RefundCompleted
    <2>3. PendingIn(more, o) = IF event.on = o THEN pending \ {k} ELSE pending
      BY <2>1 DEF PendingIn, RefundsIn, pending
    <2>4. event.on = o => k \in pending
      BY <2>1 DEF PendingIn, RefundsIn, pending
    <2>5. Told(longer, P, o) = Told(lg, P, o)
      BY <1>2, <2>2 DEF IsAbout
    <2>6. CASE event.on = o
      <3>1. /\ IsFiniteSet(PendingIn(more, o))
            /\ Cardinality(PendingIn(more, o)) = Cardinality(pending) - 1
        BY <1>1, <2>3, <2>4, <2>6, FS_RemoveElement
      <3>2. Told(longer, C, o) = Told(lg, C, o) + 1
        BY <1>2, <2>2, <2>6 DEF IsAbout
      <3> QED
        BY <1>1, <1>2, <2>5, <3>1, <3>2 DEF PendingTold, longer
    <2>7. CASE event.on # o
      <3>1. Told(longer, C, o) = Told(lg, C, o)
        BY <1>2, <2>7 DEF IsAbout
      <3> QED
        BY <1>1, <2>3, <2>5, <2>7, <3>1 DEF PendingTold, longer
    <2> QED
      BY <2>6, <2>7
  <1> QED
    BY <1>3, <1>4, <1>5 DEF RefundsTold, event

(***************************************************************************)
(* The course of a claim and of a campaign                                 *)
(***************************************************************************)

\* A claim the log says is decided is so, and it says that once.
ClaimDecided(x, claim, lg) ==
  LET decided == EventsIn(lg, {"claim.decided"}, x)
  IN  decided = {} \/ (ClaimSays(claim) \notin Undecided /\ \E i : decided = {i})

LEMMA ClaimStillDecided ==
  ASSUME NEW lg, IsList(lg), NEW x, NEW old, ClaimDecided(x, old, lg),
         NEW entry, entry.event.to = entry.event.on, DecisionTold(entry.event),
         NEW new, Tells(ClaimEvents, x, ClaimSays(old), ClaimSays(new), entry.event)
  PROVE  ClaimDecided(x, new, Append(lg, entry))
  <1> DEFINE event == entry.event
             decision == {"claim.decided"}
             decided == EventsIn(lg, decision, x)
             more == EventsIn(Append(lg, entry), decision, x)
             m == Len(lg) + 1
  <1>1. /\ IsAbout(event, decision, x) => more = decided \cup {m}
        /\ ~ IsAbout(event, decision, x) => more = decided
    <2>1. EventsGrown(lg, entry, decision, x)
      BY EventsGrow
    <2> QED
      BY <2>1, Zenon DEF EventsGrown
  <1>2. decided = {} \/ (ClaimSays(old) \notin Undecided /\ \E i : decided = {i})
    BY DEF ClaimDecided
  <1>3. event.to = event.on
    OBVIOUS
  <1> HIDE DEF event, decided, more, m
  <1>4. CASE ~ IsAbout(event, ClaimEvents, x)
    <2>1. more = decided
      BY <1>1, <1>4 DEF IsAbout, ClaimEvents
    <2>2. ClaimSays(new) = ClaimSays(old)
      BY <1>3, <1>4 DEF Tells, After, IsAbout, event
    <2> QED
      BY <1>2, <2>1, <2>2 DEF ClaimDecided, more
  <1>5. CASE IsAbout(event, ClaimEvents, x)
    <2>1. /\ event.before = ClaimSays(old) /\ ClaimSays(new) = event.after
          /\ event.before \in Undecided
          /\ event.type = "claim.decided" => event.after \notin Undecided
      BY <1>5 DEF Tells, After, IsAbout, DecisionTold, event
    <2>2. decided = {}
      BY <1>2, <2>1
    <2>3. more = {} \/ (more = {m} /\ event.type = "claim.decided")
      BY <1>1, <2>2 DEF IsAbout
    <2> QED
      BY <2>1, <2>3 DEF ClaimDecided, more
  <1> QED
    BY <1>4, <1>5

\* A campaign is live since it was seeded or launched, is sent for only then, and
\* is completed by the allocation that uses its budget up, the last of all.
CampaignCourse(x, from, campaign, lg) ==
  LET allocations == EventsIn(lg, AllocationEvents, x)
      sent == EventsIn(lg, {"campaign.communication_sent"}, x)
      launched == EventsIn(lg, {"campaign.launched"}, x)
  IN  /\ campaign.status = "live" => from = "live" \/ launched # {}
      /\ \A i \in sent : from = "live" \/ \E j \in launched : j < i
      /\ \A i \in allocations :
           campaign.approved > 0 /\ lg[i].event.after >= campaign.approved =>
             campaign.status = "completed" /\ \A j \in allocations \cup sent : j <= i

LEMMA CampaignStillOnCourse ==
  ASSUME NEW lg, IsList(lg), NEW campaigns, NEW x, NEW from,
         CampaignCourse(x, from, campaigns[x], lg),
         NEW entry, entry.event.to = entry.event.on, CourseTold(campaigns, entry.event),
         NEW new, CampaignTells(x, campaigns[x], new, entry.event), CampaignBalanced(new)
  PROVE  CampaignCourse(x, from, new, Append(lg, entry))
  <1> DEFINE event == entry.event
             old == campaigns[x]
             more == Append(lg, entry)
             m == Len(lg) + 1
             A == EventsIn(lg, AllocationEvents, x)
             S == EventsIn(lg, {"campaign.communication_sent"}, x)
             L == EventsIn(lg, {"campaign.launched"}, x)
             AA == EventsIn(more, AllocationEvents, x)
             SS == EventsIn(more, {"campaign.communication_sent"}, x)
             LL == EventsIn(more, {"campaign.launched"}, x)
             Used(i, e, c) == c.approved > 0 /\ e[i].event.after >= c.approved
  <1>1. /\ Len(lg) \in Nat /\ DOMAIN lg = 1..Len(lg)
        /\ \A i \in DOMAIN lg : more[i] = lg[i]
        /\ more[m] = entry
    BY ListGrows
  <1>2. /\ \A i \in DOMAIN lg : i \in Int /\ i < m
        /\ m \in Int
    BY <1>1
  <1>3. /\ A \subseteq DOMAIN lg /\ S \subseteq DOMAIN lg /\ L \subseteq DOMAIN lg
        /\ AA = IF IsAbout(event, AllocationEvents, x) THEN A \cup {m} ELSE A
        /\ SS = IF IsAbout(event, {"campaign.communication_sent"}, x) THEN S \cup {m} ELSE S
        /\ LL = IF IsAbout(event, {"campaign.launched"}, x) THEN L \cup {m} ELSE L
    <2>1. \A types : EventsGrown(lg, entry, types, x)
      BY EventsGrow
    <2> QED
      BY <2>1, Zenon DEF EventsGrown
  <1>4. /\ old.status = "live" => from = "live" \/ L # {}
        /\ \A i \in S : from = "live" \/ \E j \in L : j < i
        /\ \A i \in A : Used(i, lg, old) =>
             old.status = "completed" /\ \A j \in A \cup S : j <= i
    BY DEF CampaignCourse
  <1>5. /\ new.approved = old.approved
        /\ Tells(AllocationEvents, x, old.spent, new.spent, event)
        /\ new.status # "completed" =>
             old.status # "completed" /\ Tells(CampaignEvents, x, old.status, new.status, event)
    BY DEF CampaignTells
  <1>6. /\ event.type \in CampaignEvents /\ event.after = "live" => event.type = "campaign.launched"
        /\ IsAbout(event, {"campaign.communication_sent"}, x) => old.status = "live"
        /\ IsAbout(event, AllocationEvents, x) => old.status # "completed"
    BY DEF CourseTold, IsAbout
  <1>7. event.to = event.on /\ event = more[m].event
    BY <1>1
  <1> HIDE DEF event, old, more, m, A, S, L, AA, SS, LL
  <1>8. new.status = "live" => from = "live" \/ LL # {}
    <2> SUFFICES ASSUME new.status = "live"
                 PROVE  from = "live" \/ LL # {}
      OBVIOUS
    <2>1. Tells(CampaignEvents, x, old.status, new.status, event)
      BY <1>5
    <2>2. CASE IsAbout(event, CampaignEvents, x)
      <3>1. IsAbout(event, {"campaign.launched"}, x)
        BY <1>6, <2>1, <2>2 DEF Tells, After, IsAbout
      <3> QED
        BY <1>3, <3>1
    <2>3. CASE ~ IsAbout(event, CampaignEvents, x)
      <3>1. old.status = "live"
        BY <1>7, <2>1, <2>3 DEF Tells, After, IsAbout
      <3> QED
        BY <1>3, <1>4, <3>1
    <2> QED
      BY <2>2, <2>3
  <1>9. ASSUME NEW i \in SS
        PROVE  from = "live" \/ \E j \in LL : j < i
    <2>1. L \subseteq LL
      BY <1>3
    <2>2. CASE i \in S
      BY <1>4, <2>1, <2>2
    <2>3. CASE i \notin S
      <3>1. i = m /\ old.status = "live"
        BY <1>3, <1>6, <2>3
      <3> QED
        BY <1>2, <1>3, <1>4, <2>1, <3>1
    <2> QED
      BY <2>2, <2>3
  <1>10. ASSUME NEW i \in AA, Used(i, more, new)
         PROVE  new.status = "completed" /\ \A j \in AA \cup SS : j <= i
    <2>1. CASE i \in A
      <3>1. Used(i, lg, old)
        BY <1>1, <1>3, <1>5, <1>10, <2>1
      <3>2. old.status = "completed" /\ \A j \in A \cup S : j <= i
        BY <1>4, <2>1, <3>1
      <3>3. AA = A /\ SS = S
        BY <1>3, <1>6, <3>2
      <3> QED
        BY <1>5, <3>2, <3>3
    <2>2. CASE i \notin A
      <3>1. i = m /\ IsAbout(event, AllocationEvents, x)
        BY <1>3, <2>2
      <3>2. new.spent = event.after
        BY <1>5, <3>1 DEF Tells, After, IsAbout
      <3>3. UsedUp(new, new.spent)
        BY <1>7, <1>10, <3>1, <3>2 DEF UsedUp
      <3>4. new.status = "completed"
        BY <3>3 DEF CampaignBalanced
      <3>5. ASSUME NEW j \in AA \cup SS
            PROVE  j <= m
        BY <1>2, <1>3
      <3> QED
        BY <3>1, <3>4, <3>5
    <2> QED
      BY <2>1, <2>2
  <1> QED
    BY <1>8, <1>9, <1>10 DEF CampaignCourse, AA, SS, LL, more

(***************************************************************************)
(* What the log explains of a state                                        *)
(***************************************************************************)

CommerceExplained(seed, d, lg) ==
  /\ \A l \in Locations :
       ExplainedBy(StockEvents, l, seed.stock[l].available, lg, d.stock[l].available)
  /\ \A o \in Orders :
       ExplainedBy(RefundEvents, o, seed.orders[o].refunded, lg, d.orders[o].refunded)
  /\ \A s \in Shipments :
       ExplainedBy(ShipmentEvents, s, seed.shipments[s], lg, d.shipments[s])

SupplyExplained(seed, d, lg) ==
  \A w \in Warehouses :
    ExplainedBy(StockEvents, w, seed.stock[w].available, lg, d.stock[w].available)

InsuranceExplained(seed, d, lg) ==
  \A x \in DOMAIN d.claims :
    /\ ExplainedBy(PaymentEvents, x, 0, lg, d.claims[x].paid)
    /\ ExplainedBy(ClaimEvents, x, seed.claims[x].status, lg, ClaimSays(d.claims[x]))

MarketingExplained(seed, d, lg) ==
  \A x \in DOMAIN d.campaigns :
    /\ ExplainedBy(AllocationEvents, x, 0, lg, d.campaigns[x].spent)
    /\ d.campaigns[x].status # "completed" =>
         ExplainedBy(CampaignEvents, x, seed.campaigns[x].status, lg, d.campaigns[x].status)

\* A log explains how a state came from the fixture it was seeded from.
DocExplained(d, lg) ==
  LET seed == Build[d.scenario]
  IN  /\ d.world = "commerce" => CommerceExplained(seed, d, lg)
      /\ d.world = "supply" => SupplyExplained(seed, d, lg)
      /\ d.world = "insurance" => InsuranceExplained(seed, d, lg)
      /\ d.world = "marketing" => MarketingExplained(seed, d, lg)

\* An event tells how a handler changed a state.
WorldTells(d, e, event) ==
  /\ Keeps(d, e)
  /\ d.world = "commerce" => CommerceTells(d, e, event)
  /\ d.world = "supply" => SupplyTells(d, e, event)
  /\ d.world = "insurance" => InsuranceTells(d, e, event)
  /\ d.world = "marketing" => MarketingTells(d, e, event)

LEMMA EffectTells ==
  ASSUME TheseWorlds, NEW c \in Call, NEW d, DocOK(d), NEW r \in Effect(c, d)
  PROVE  WorldTells(d, r.doc, r.event)
  <1>1. r \in WorldEffect(c, d)
    BY DEF TheseWorlds
  <1>2. CASE d.world = "commerce"
    <2>1. CommerceOK(d) /\ r \in CommerceEffect(c, d)
      BY <1>1, <1>2 DEF WorldEffect, DocOK
    <2>2. Keeps(d, r.doc) /\ CommerceTells(d, r.doc, r.event)
      BY <2>1, CommerceStep, CommerceEventTells DEF CommerceResult
    <2> QED
      BY <1>2, <2>2 DEF WorldTells
  <1>3. CASE d.world = "supply"
    <2>1. SupplyOK(d) /\ r \in SupplyEffect(c, d)
      BY <1>1, <1>3 DEF WorldEffect, DocOK
    <2>2. Keeps(d, r.doc) /\ SupplyTells(d, r.doc, r.event)
      BY <2>1, SupplyStep, SupplyEventTells
    <2> QED
      BY <1>3, <2>2 DEF WorldTells
  <1>4. CASE d.world = "insurance"
    <2>1. InsuranceOK(d) /\ r \in InsuranceEffect(c, d)
      BY <1>1, <1>4 DEF WorldEffect, DocOK
    <2>2. Keeps(d, r.doc) /\ InsuranceTells(d, r.doc, r.event)
      BY <2>1, InsuranceStep, InsuranceEventTells
    <2> QED
      BY <1>4, <2>2 DEF WorldTells
  <1>5. CASE d.world = "marketing"
    <2>1. MarketingOK(d) /\ r \in MarketingEffect(c, d)
      BY <1>1, <1>5 DEF WorldEffect, DocOK
    <2>2. Keeps(d, r.doc) /\ MarketingTells(d, r.doc, r.event)
      BY <2>1, MarketingStep, MarketingEventTells
    <2> QED
      BY <1>5, <2>2 DEF WorldTells
  <1>6. d.world \in {"commerce", "supply", "insurance", "marketing"}
    BY DEF DocOK
  <1> QED
    BY <1>2, <1>3, <1>4, <1>5, <1>6

LEMMA InjectedTells ==
  ASSUME TheseWorlds, NEW d, DocOK(d), NEW r \in Injected(d)
  PROVE  WorldTells(d, r.doc, r.event)
  <1>1. d.world = "commerce" /\ r \in CommerceInjected(d) /\ CommerceOK(d)
    BY DEF TheseWorlds, WorldInjected, DocOK
  <1>2. Keeps(d, r.doc) /\ CommerceTells(d, r.doc, r.event)
    BY <1>1, StockoutStep, StockoutTells DEF CommerceResult
  <1> QED
    BY <1>1, <1>2 DEF WorldTells

\* A state the log explains, and an event that tells how it changed, leave a
\* state the longer log explains.
LEMMA StepExplained ==
  ASSUME NEW E, NEW lg \in Seq(Entries(E)), NEW F, NEW entry \in Entries(F),
         NEW d, DocExplained(d, lg), NEW e, WorldTells(d, e, entry.event)
  PROVE  DocExplained(e, Append(lg, entry))
  <1> DEFINE seed == Build[d.scenario]
             event == entry.event
             more == Append(lg, entry)
  <1>1. e.world = d.world /\ Build[e.scenario] = seed
    BY DEF WorldTells, Keeps
  <1>2. \A types, on, from, old, new :
          ExplainedBy(types, on, from, lg, old) /\ Tells(types, on, old, new, event)
            => ExplainedBy(types, on, from, more, new)
    BY OneMoreExplained
  <1> HIDE DEF seed, event, more
  <1>3. CASE d.world = "commerce"
    <2>1. CommerceExplained(seed, d, lg) /\ CommerceTells(d, e, event)
      BY <1>3 DEF DocExplained, WorldTells, seed, event
    <2>2. CommerceExplained(seed, e, more)
      <3>1. ASSUME NEW l \in Locations
            PROVE  ExplainedBy(StockEvents, l, seed.stock[l].available, more,
                               e.stock[l].available)
        BY <1>2, <2>1 DEF CommerceExplained, CommerceTells
      <3>2. ASSUME NEW o \in Orders
            PROVE  ExplainedBy(RefundEvents, o, seed.orders[o].refunded, more,
                               e.orders[o].refunded)
        BY <1>2, <2>1 DEF CommerceExplained, CommerceTells
      <3>3. ASSUME NEW s \in Shipments
            PROVE  ExplainedBy(ShipmentEvents, s, seed.shipments[s], more, e.shipments[s])
        BY <1>2, <2>1 DEF CommerceExplained, CommerceTells
      <3> QED
        BY <3>1, <3>2, <3>3 DEF CommerceExplained
    <2> QED
      BY <1>1, <1>3, <2>2 DEF DocExplained, more
  <1>4. CASE d.world = "supply"
    <2>1. SupplyExplained(seed, d, lg) /\ SupplyTells(d, e, event)
      BY <1>4 DEF DocExplained, WorldTells, seed, event
    <2>2. SupplyExplained(seed, e, more)
      BY <1>2, <2>1 DEF SupplyExplained, SupplyTells
    <2> QED
      BY <1>1, <1>4, <2>2 DEF DocExplained, more
  <1>5. CASE d.world = "insurance"
    <2>1. InsuranceExplained(seed, d, lg) /\ InsuranceTells(d, e, event)
      BY <1>5 DEF DocExplained, WorldTells, seed, event
    <2>2. InsuranceExplained(seed, e, more)
      <3> SUFFICES ASSUME NEW x \in DOMAIN d.claims
                   PROVE  /\ ExplainedBy(PaymentEvents, x, 0, more, e.claims[x].paid)
                          /\ ExplainedBy(ClaimEvents, x, seed.claims[x].status, more,
                                         ClaimSays(e.claims[x]))
        BY <2>1 DEF InsuranceExplained, InsuranceTells
      <3> QED
        BY <1>2, <2>1 DEF InsuranceExplained, InsuranceTells
    <2> QED
      BY <1>1, <1>5, <2>2 DEF DocExplained, more
  <1>6. CASE d.world = "marketing"
    <2>1. MarketingExplained(seed, d, lg) /\ MarketingTells(d, e, event)
      BY <1>6 DEF DocExplained, WorldTells, seed, event
    <2>2. MarketingExplained(seed, e, more)
      <3> SUFFICES ASSUME NEW x \in DOMAIN d.campaigns
                   PROVE  /\ ExplainedBy(AllocationEvents, x, 0, more, e.campaigns[x].spent)
                          /\ e.campaigns[x].status # "completed" =>
                               ExplainedBy(CampaignEvents, x, seed.campaigns[x].status, more,
                                           e.campaigns[x].status)
        BY <2>1 DEF MarketingExplained, MarketingTells
      <3> QED
        BY <1>2, <2>1 DEF MarketingExplained, MarketingTells, CampaignTells
    <2> QED
      BY <1>1, <1>6, <2>2 DEF DocExplained, more
  <1> QED
    BY <1>1, <1>3, <1>4, <1>5, <1>6 DEF DocExplained

\* Nothing was refunded, paid or spent when a world is seeded.
Untouched(b) ==
  /\ b.world = "commerce" =>
       b.refunds = <<>> /\ \A o \in Orders : b.orders[o].refunded = 0
  /\ b.world = "insurance" =>
       b.rows = <<>> /\ \A x \in DOMAIN b.claims :
                         b.claims[x].paid = 0 /\ b.claims[x].status # "paid"
  /\ b.world = "marketing" =>
       b.rows = <<>> /\ \A x \in DOMAIN b.campaigns : b.campaigns[x].spent = 0

LEMMA SeedsUntouched ==
  ASSUME NEW s \in DOMAIN Build
  PROVE  Untouched(Build[s])
  <1>1. ASSUME NEW b, Seedling(b)
        PROVE  Untouched(b)
    <2>1. CASE b = CommerceFixture
      <3>1. /\ b.world = "commerce" /\ b.refunds = <<>>
            /\ \A o \in Orders : b.orders[o].refunded = 0
        BY <2>1 DEF CommerceFixture, Orders
      <3> QED
        BY <3>1 DEF Untouched
    <2>2. CASE b = SupplyFixture
      <3>1. b.world = "supply"
        BY <2>2 DEF SupplyFixture
      <3> QED
        BY <3>1 DEF Untouched
    <2>3. ASSUME NEW policy, NEW claims, b = InsuranceState(policy, claims),
                 \A x \in DOMAIN claims : SeedClaim(claims[x])
          PROVE  Untouched(b)
      <3>1. b.world = "insurance" /\ b.claims = claims /\ b.rows = <<>>
        BY <2>3 DEF InsuranceState
      <3>2. \A x \in DOMAIN claims : claims[x].paid = 0 /\ claims[x].status # "paid"
        BY <2>3 DEF SeedClaim, ClaimBalanced
      <3> QED
        BY <3>1, <3>2 DEF Untouched
    <2>4. ASSUME NEW advertiser, NEW first, NEW second,
                 b = MarketingState(advertiser, first, second),
                 SeedCampaign(first), SeedCampaign(second)
          PROVE  Untouched(b)
      <3> DEFINE campaigns == [cmp_100 |-> first, cmp_101 |-> second]
      <3>1. b.world = "marketing" /\ b.campaigns = campaigns /\ b.rows = <<>>
        BY <2>4 DEF MarketingState
      <3>2. \A x \in DOMAIN campaigns : campaigns[x].spent = 0
        BY <2>4 DEF SeedCampaign
      <3> HIDE DEF campaigns
      <3> QED
        BY <3>1, <3>2 DEF Untouched
    <2> QED
      BY <1>1, <2>1, <2>2, <2>3, <2>4 DEF Seedling
  <1> QED
    BY <1>1, EveryFixture

\* A state that was just seeded has what its fixture has.
LEMMA SeededState ==
  ASSUME NEW d \in WorldFixture
  PROVE  /\ DocOK(d) /\ Untouched(Build[d.scenario])
         /\ \A k \in DOMAIN d \ {"scenario"} : d[k] = Build[d.scenario][k]
  <1>1. DocOK(d)
    BY ResetOK
  <1>2. PICK s \in DOMAIN Build :
          d = [k \in DOMAIN Build[s] \cup {"scenario"} |->
                 IF k = "scenario" THEN s ELSE Build[s][k]]
    BY Zenon DEF WorldFixture
  <1> DEFINE b == Build[s]
  <1>3. Untouched(b)
    BY SeedsUntouched
  <1> HIDE DEF b
  <1>4. d = [k \in DOMAIN b \cup {"scenario"} |-> IF k = "scenario" THEN s ELSE b[k]]
    BY <1>2 DEF b
  <1>5. SeededBy(s, b, d)
    BY <1>4, Zenon DEF SeededBy
  <1>6. d.scenario = s /\ \A k \in DOMAIN d \ {"scenario"} : d[k] = b[k]
    BY <1>5 DEF SeededBy
  <1> QED
    BY <1>1, <1>3, <1>6 DEF b

\* An empty log explains a state that was just seeded.
LEMMA ResetExplained ==
  ASSUME NEW d \in WorldFixture
  PROVE  DocExplained(d, <<>>)
  <1> DEFINE b == Build[d.scenario]
  <1>1. DocOK(d) /\ Untouched(b) /\ d.world = b.world
    BY SeededState DEF DocOK
  <1>2. \A types, on, from : ExplainedBy(types, on, from, <<>>, from)
    BY NothingExplained
  <1>3. \A k \in DOMAIN d \ {"scenario"} : d[k] = b[k]
    BY SeededState
  <1> HIDE DEF b
  <1>4. CASE d.world = "commerce"
    <2>1. d.stock = b.stock /\ d.orders = b.orders /\ d.shipments = b.shipments
      <3>1. DOMAIN d = CommerceFields
        BY <1>1, <1>4 DEF DocOK, CommerceOK
      <3> QED
        BY <1>3, <3>1 DEF CommerceFields
    <2>2. CommerceExplained(b, d, <<>>)
      BY <1>2, <2>1, Zenon DEF CommerceExplained
    <2> QED
      BY <1>4, <2>2 DEF DocExplained, b
  <1>5. CASE d.world = "supply"
    <2>1. d.stock = b.stock
      <3>1. DOMAIN d = SupplyFields
        BY <1>1, <1>5 DEF DocOK, SupplyOK
      <3> QED
        BY <1>3, <3>1 DEF SupplyFields
    <2>2. SupplyExplained(b, d, <<>>)
      BY <1>2, <2>1, Zenon DEF SupplyExplained
    <2> QED
      BY <1>5, <2>2 DEF DocExplained, b
  <1>6. CASE d.world = "insurance"
    <2>1. d.claims = b.claims
      <3>1. DOMAIN d = InsuranceFields
        BY <1>1, <1>6 DEF DocOK, InsuranceOK
      <3> QED
        BY <1>3, <3>1 DEF InsuranceFields
    <2>2. ASSUME NEW x \in DOMAIN d.claims
          PROVE  /\ ExplainedBy(PaymentEvents, x, 0, <<>>, d.claims[x].paid)
                 /\ ExplainedBy(ClaimEvents, x, b.claims[x].status, <<>>, ClaimSays(d.claims[x]))
      <3>1. d.claims[x].paid = 0 /\ ClaimSays(d.claims[x]) = b.claims[x].status
        BY <1>1, <1>6, <2>1 DEF ClaimSays, Untouched
      <3> QED
        BY <1>2, <3>1
    <2>3. InsuranceExplained(b, d, <<>>)
      BY <2>2 DEF InsuranceExplained
    <2> QED
      BY <1>6, <2>3 DEF DocExplained, b
  <1>7. CASE d.world = "marketing"
    <2>1. d.campaigns = b.campaigns
      <3>1. DOMAIN d = MarketingFields
        BY <1>1, <1>7 DEF DocOK, MarketingOK
      <3> QED
        BY <1>3, <3>1 DEF MarketingFields
    <2>2. ASSUME NEW x \in DOMAIN d.campaigns
          PROVE  /\ ExplainedBy(AllocationEvents, x, 0, <<>>, d.campaigns[x].spent)
                 /\ ExplainedBy(CampaignEvents, x, b.campaigns[x].status, <<>>,
                                d.campaigns[x].status)
      <3>1. d.campaigns[x].spent = 0
        BY <1>1, <1>7, <2>1 DEF Untouched
      <3> QED
        BY <1>2, <2>1, <3>1
    <2>3. MarketingExplained(b, d, <<>>)
      BY <2>2 DEF MarketingExplained
    <2> QED
      BY <1>7, <2>3 DEF DocExplained, b
  <1> QED
    BY <1>1, <1>4, <1>5, <1>6, <1>7 DEF DocOK

(***************************************************************************)
(* What the tables, the balances and the log say of money                  *)
(***************************************************************************)

OrdersAgree(d, lg) ==
  \A o \in Orders :
    RefundsAddUp(o, d.orders[o].refunded, d.refunds, lg) /\ PendingTold(o, d.refunds, lg)

ClaimsAgree(d, lg) ==
  /\ IsList(d.rows)
  /\ \A x \in DOMAIN d.claims :
       /\ Posted("payments", PaymentEvents, lg, d.rows, x, d.claims[x].paid)
       /\ ClaimDecided(x, d.claims[x], lg)

CampaignsAgree(seed, d, lg) ==
  /\ IsList(d.rows)
  /\ \A x \in DOMAIN d.campaigns :
       /\ Posted("budget_allocations", AllocationEvents, lg, d.rows, x, d.campaigns[x].spent)
       /\ CampaignCourse(x, seed.campaigns[x].status, d.campaigns[x], lg)

\* What a state and a log say of money agrees.
MoneyAgrees(d, lg) ==
  /\ d.world = "commerce" => OrdersAgree(d, lg)
  /\ d.world = "insurance" => ClaimsAgree(d, lg)
  /\ d.world = "marketing" => CampaignsAgree(Build[d.scenario], d, lg)

LEMMA OrdersStillAgree ==
  ASSUME NEW lg, IsList(lg), NEW d, CommerceOK(d), OrdersAgree(d, lg),
         NEW entry, NEW e, CommerceTells(d, e, entry.event)
  PROVE  OrdersAgree(e, Append(lg, entry))
  <1>1. IsList(d.refunds) /\ RefundsTold(d.refunds, e.refunds, entry.event)
    BY DEF CommerceOK, IsList, CommerceTells
  <1> SUFFICES ASSUME NEW o \in Orders
               PROVE  /\ RefundsAddUp(o, e.orders[o].refunded, e.refunds, Append(lg, entry))
                      /\ PendingTold(o, e.refunds, Append(lg, entry))
    BY DEF OrdersAgree
  <1> DEFINE old == d.orders[o].refunded
             new == e.orders[o].refunded
  <1>2. old \in Nat
    <2>1. d.orders[o].refunded \in 0..d.orders[o].captured /\ d.orders[o] \in Order
      BY DEF CommerceOK, OrderBalanced
    <2> QED
      BY <2>1 DEF Order
  <1>3. /\ RefundsAddUp(o, old, d.refunds, lg) /\ PendingTold(o, d.refunds, lg)
        /\ Tells(RefundEvents, o, old, new, entry.event)
    BY DEF OrdersAgree, CommerceTells
  <1> HIDE DEF old, new
  <1>4. RefundsAddUp(o, new, e.refunds, Append(lg, entry))
    BY <1>1, <1>2, <1>3, RefundsStillAddUp
  <1>5. PendingTold(o, e.refunds, Append(lg, entry))
    BY <1>1, <1>3, PendingStillTold
  <1> QED
    BY <1>4, <1>5 DEF new

LEMMA ClaimsStillAgree ==
  ASSUME NEW lg, IsList(lg), NEW d, ClaimsAgree(d, lg),
         NEW entry, NEW e, InsuranceTells(d, e, entry.event)
  PROVE  ClaimsAgree(e, Append(lg, entry))
  <1> DEFINE more == Append(lg, entry)
  <1>1. /\ IsList(d.rows) /\ entry.event.to = entry.event.on /\ DecisionTold(entry.event)
        /\ Posts("payments", PaymentEvents, d.rows, e.rows, entry.event)
        /\ DOMAIN e.claims = DOMAIN d.claims
    BY DEF ClaimsAgree, InsuranceTells
  <1>2. ASSUME NEW x \in DOMAIN d.claims
        PROVE  /\ Posted("payments", PaymentEvents, more, e.rows, x, e.claims[x].paid)
               /\ ClaimDecided(x, e.claims[x], more)
    <2>1. /\ Posted("payments", PaymentEvents, lg, d.rows, x, d.claims[x].paid)
          /\ ClaimDecided(x, d.claims[x], lg)
      BY DEF ClaimsAgree
    <2>2. /\ Tells(PaymentEvents, x, d.claims[x].paid, e.claims[x].paid, entry.event)
          /\ Tells(ClaimEvents, x, ClaimSays(d.claims[x]), ClaimSays(e.claims[x]), entry.event)
      BY DEF InsuranceTells
    <2>3. Posted("payments", PaymentEvents, more, e.rows, x, e.claims[x].paid)
      BY <1>1, <2>1, <2>2, Posting
    <2>4. ClaimDecided(x, e.claims[x], more)
      BY <1>1, <2>1, <2>2, ClaimStillDecided
    <2> QED
      BY <2>3, <2>4
  <1>3. IsList(e.rows)
    BY <1>1, PostsGrow
  <1> QED
    BY <1>1, <1>2, <1>3 DEF ClaimsAgree

LEMMA CampaignsStillAgree ==
  ASSUME NEW lg, IsList(lg), NEW seed, NEW d, CampaignsAgree(seed, d, lg),
         NEW entry, NEW e, MarketingTells(d, e, entry.event), MarketingOK(e)
  PROVE  CampaignsAgree(seed, e, Append(lg, entry))
  <1> DEFINE more == Append(lg, entry)
  <1>1. /\ IsList(d.rows) /\ entry.event.to = entry.event.on /\ CourseTold(d.campaigns, entry.event)
        /\ Posts("budget_allocations", AllocationEvents, d.rows, e.rows, entry.event)
        /\ DOMAIN e.campaigns = DOMAIN d.campaigns
    BY DEF CampaignsAgree, MarketingTells
  <1>2. ASSUME NEW x \in DOMAIN d.campaigns
        PROVE  /\ Posted("budget_allocations", AllocationEvents, more, e.rows, x,
                         e.campaigns[x].spent)
               /\ CampaignCourse(x, seed.campaigns[x].status, e.campaigns[x], more)
    <2>1. /\ Posted("budget_allocations", AllocationEvents, lg, d.rows, x, d.campaigns[x].spent)
          /\ CampaignCourse(x, seed.campaigns[x].status, d.campaigns[x], lg)
      BY DEF CampaignsAgree
    <2>2. CampaignTells(x, d.campaigns[x], e.campaigns[x], entry.event)
      BY DEF MarketingTells
    <2>3. /\ Tells(AllocationEvents, x, d.campaigns[x].spent, e.campaigns[x].spent, entry.event)
          /\ CampaignBalanced(e.campaigns[x])
      BY <1>1, <2>2 DEF CampaignTells, MarketingOK
    <2>4. Posted("budget_allocations", AllocationEvents, more, e.rows, x, e.campaigns[x].spent)
      BY <1>1, <2>1, <2>3, Posting
    <2>5. CampaignCourse(x, seed.campaigns[x].status, e.campaigns[x], more)
      BY <1>1, <2>1, <2>2, <2>3, CampaignStillOnCourse
    <2> QED
      BY <2>4, <2>5
  <1>3. IsList(e.rows)
    BY <1>1, PostsGrow
  <1> QED
    BY <1>1, <1>2, <1>3 DEF CampaignsAgree

LEMMA MoneyStillAgrees ==
  ASSUME NEW lg, IsList(lg), NEW d, DocOK(d), MoneyAgrees(d, lg),
         NEW entry, NEW e, DocOK(e), WorldTells(d, e, entry.event)
  PROVE  MoneyAgrees(e, Append(lg, entry))
  <1>1. e.world = d.world /\ e.scenario = d.scenario
    BY DEF WorldTells, Keeps
  <1>2. CASE d.world = "commerce"
    <2>1. CommerceOK(d) /\ OrdersAgree(d, lg) /\ CommerceTells(d, e, entry.event)
      BY <1>2 DEF DocOK, MoneyAgrees, WorldTells
    <2> QED
      BY <1>1, <1>2, <2>1, OrdersStillAgree DEF MoneyAgrees
  <1>3. CASE d.world = "insurance"
    <2>1. ClaimsAgree(d, lg) /\ InsuranceTells(d, e, entry.event)
      BY <1>3 DEF MoneyAgrees, WorldTells
    <2> QED
      BY <1>1, <1>3, <2>1, ClaimsStillAgree DEF MoneyAgrees
  <1>4. CASE d.world = "marketing"
    <2> DEFINE seed == Build[d.scenario]
    <2>1. /\ MarketingOK(e) /\ CampaignsAgree(seed, d, lg)
          /\ MarketingTells(d, e, entry.event) /\ seed = Build[e.scenario]
      BY <1>1, <1>4 DEF DocOK, MoneyAgrees, WorldTells
    <2> HIDE DEF seed
    <2> QED
      BY <1>1, <1>4, <2>1, CampaignsStillAgree DEF MoneyAgrees
  <1>5. CASE d.world \notin {"commerce", "insurance", "marketing"}
    BY <1>1, <1>5 DEF MoneyAgrees
  <1> QED
    BY <1>2, <1>3, <1>4, <1>5

LEMMA ResetAgrees ==
  ASSUME NEW d \in WorldFixture
  PROVE  MoneyAgrees(d, <<>>)
  <1> DEFINE b == Build[d.scenario]
  <1>1. DocOK(d) /\ Untouched(b) /\ d.world = b.world
    BY SeededState DEF DocOK
  <1>2. \A k \in DOMAIN d \ {"scenario"} : d[k] = b[k]
    BY SeededState
  <1>3. \A types, x : EventsIn(<<>>, types, x) = {}
    BY EmptyList DEF EventsIn
  <1> HIDE DEF b
  <1>4. CASE d.world = "commerce"
    <2>1. d.orders = b.orders /\ d.refunds = b.refunds
      <3>1. DOMAIN d = CommerceFields
        BY <1>1, <1>4 DEF DocOK, CommerceOK
      <3> QED
        BY <1>2, <3>1 DEF CommerceFields
    <2>2. d.refunds = <<>> /\ \A o \in Orders : d.orders[o].refunded = 0
      BY <1>1, <1>4, <2>1 DEF Untouched
    <2>3. OrdersAgree(d, <<>>)
      BY <2>2, NothingRefunded DEF OrdersAgree
    <2> QED
      BY <1>4, <2>3 DEF MoneyAgrees
  <1>5. CASE d.world = "insurance"
    <2>1. d.claims = b.claims /\ d.rows = b.rows
      <3>1. DOMAIN d = InsuranceFields
        BY <1>1, <1>5 DEF DocOK, InsuranceOK
      <3> QED
        BY <1>2, <3>1 DEF InsuranceFields
    <2>2. d.rows = <<>> /\ \A x \in DOMAIN d.claims : d.claims[x].paid = 0
      BY <1>1, <1>5, <2>1 DEF Untouched
    <2>3. ClaimsAgree(d, <<>>)
      BY <1>3, <2>2, EmptyList, NothingPosted DEF ClaimsAgree, ClaimDecided
    <2> QED
      BY <1>5, <2>3 DEF MoneyAgrees
  <1>6. CASE d.world = "marketing"
    <2>1. d.campaigns = b.campaigns /\ d.rows = b.rows
      <3>1. DOMAIN d = MarketingFields
        BY <1>1, <1>6 DEF DocOK, MarketingOK
      <3> QED
        BY <1>2, <3>1 DEF MarketingFields
    <2>2. d.rows = <<>> /\ \A x \in DOMAIN d.campaigns : d.campaigns[x].spent = 0
      BY <1>1, <1>6, <2>1 DEF Untouched
    <2>3. ASSUME NEW x \in DOMAIN d.campaigns
          PROVE  CampaignCourse(x, b.campaigns[x].status, d.campaigns[x], <<>>)
      BY <1>3, <2>1 DEF CampaignCourse
    <2>4. CampaignsAgree(b, d, <<>>)
      BY <2>2, <2>3, EmptyList, NothingPosted DEF CampaignsAgree
    <2> QED
      BY <1>6, <2>4 DEF MoneyAgrees, b
  <1>7. CASE d.world \notin {"commerce", "insurance", "marketing"}
    BY <1>7 DEF MoneyAgrees
  <1> QED
    BY <1>4, <1>5, <1>6, <1>7

(***************************************************************************)
(* The log explains the state                                              *)
(***************************************************************************)

\* The log explains the state, and what both say of money agrees.
Accounted(d, lg) == DocExplained(d, lg) /\ MoneyAgrees(d, lg)

\* What is committed and what the open transaction would make of it.
LedgerInv ==
  /\ Accounted(doc, log)
  /\ \A t \in tx : Accounted(t.doc, t.log)

\* An event more, of a handler or of the scheduler, accounts for the state it leaves.
LEMMA OneMoreEvent ==
  ASSUME LedgerInv, SpineInv, DocOK(doc), NEW by \in SUBSET Call,
         NEW r, DocOK(r.doc), WorldTells(doc, r.doc, r.event)
  PROVE  Accounted(r.doc, Append(log, Entry(by, r)))
  <1> DEFINE entry == Entry(by, r)
  <1>1. PICK E : log \in Seq(Entries(E))
    BY DEF SpineInv, Coherent
  <1>2. entry \in Entries({r.event}) /\ entry.event = r.event
    BY DEF Entry, Entries
  <1>3. DocExplained(doc, log) /\ MoneyAgrees(doc, log)
    BY DEF LedgerInv, Accounted
  <1> HIDE DEF entry
  <1>4. DocExplained(r.doc, Append(log, entry))
    BY <1>1, <1>2, <1>3, StepExplained
  <1>5. IsList(log)
    BY <1>1 DEF IsList
  <1>6. MoneyAgrees(r.doc, Append(log, entry))
    BY <1>2, <1>3, <1>5, MoneyStillAgrees
  <1> QED
    BY <1>4, <1>6 DEF Accounted, entry

LEMMA InitLedger == TheseWorlds /\ Init => LedgerInv
  <1> SUFFICES ASSUME TheseWorlds, Init
               PROVE  LedgerInv
    OBVIOUS
  <1>1. doc \in WorldFixture /\ log = <<>> /\ tx = {}
    BY DEF TheseWorlds, Init
  <1>2. Accounted(doc, log)
    BY <1>1, ResetExplained, ResetAgrees DEF Accounted
  <1> QED
    BY <1>1, <1>2 DEF LedgerInv

LEMMA ExecuteLedger ==
  ASSUME TheseWorlds, WorldInv, SpineInv, LedgerInv, NEW c \in Call, Execute(c)
  PROVE  LedgerInv'
  <1>1. UNCHANGED <<doc, log>> /\ Accounted(doc, log)
    BY DEF Execute, LedgerInv
  <1>2. Accounted(doc, log)'
    BY <1>1
  <1>3. ASSUME NEW r \in Effect(c, doc), WriteAll(c, r)
        PROVE  LedgerInv'
    <2>1. DocOK(doc) /\ DocOK(r.doc) /\ WorldTells(doc, r.doc, r.event)
      BY EffectOK, EffectTells DEF WorldInv
    <2>2. Accounted(r.doc, Append(log, Entry({c}, r)))
      BY <2>1, OneMoreEvent
    <2>3. \E t : tx' = {t} /\ t.doc = r.doc /\ t.log = Append(log, Entry({c}, r))
      <3> DEFINE t == [call |-> c, doc |-> r.doc, log |-> Append(log, Entry({c}, r)),
                       answers |-> [answers EXCEPT ![c.key] = {Answer(c, Len(log) + 1)}]]
      <3>1. tx' = {t}
        BY <1>3, Zenon DEF WriteAll
      <3>2. t.doc = r.doc /\ t.log = Append(log, Entry({c}, r))
        BY Zenon
      <3> HIDE DEF t
      <3> QED
        BY <3>1, <3>2
    <2>4. ASSUME NEW t \in tx'
          PROVE  Accounted(t.doc, t.log)
      BY <2>2, <2>3
    <2> QED
      BY <1>2, <2>4 DEF LedgerInv
  <1>4. CASE ReadAnswer(c)
    <2>1. \E t : tx' = {t} /\ t.doc = doc /\ t.log = log
      <3> DEFINE t == [call |-> c, doc |-> doc, log |-> log, answers |-> answers]
      <3>1. tx' = {t}
        BY <1>4, Zenon DEF ReadAnswer
      <3>2. t.doc = doc /\ t.log = log
        BY Zenon
      <3> HIDE DEF t
      <3> QED
        BY <3>1, <3>2
    <2>2. ASSUME NEW t \in tx'
          PROVE  Accounted(t.doc, t.log)
      BY <1>1, <2>1
    <2> QED
      BY <1>2, <2>2 DEF LedgerInv
  <1> QED
    BY <1>3, <1>4 DEF Execute

LEMMA NextLedger ==
  TheseWorlds /\ WorldInv /\ SpineInv /\ LedgerInv /\ [Next]_worldVars => LedgerInv'
  <1> SUFFICES ASSUME TheseWorlds, WorldInv, SpineInv, LedgerInv, [Next]_worldVars
               PROVE  LedgerInv'
    OBVIOUS
  <1>1. ASSUME NEW c \in Offered(doc) \cap Call, Execute(c)
        PROVE  LedgerInv'
    BY <1>1, ExecuteLedger
  <1>2. ASSUME NEW t \in tx, Install(t)
        PROVE  LedgerInv'
    <2>1. doc' = t.doc /\ log' = t.log /\ tx' = {}
      BY <1>2 DEF Install
    <2>2. Accounted(t.doc, t.log)
      BY DEF LedgerInv
    <2> QED
      BY <2>1, <2>2 DEF LedgerInv
  <1>3. CASE CommitAnswered \/ CommitUnheard
    BY <1>2, <1>3 DEF CommitAnswered, CommitUnheard
  <1>4. CASE Rollback
    BY <1>4 DEF Rollback, LedgerInv
  <1>5. CASE Inject
    <2>1. PICK r \in Injected(doc) : doc' = r.doc /\ log' = Append(log, Entry({}, r))
      BY <1>5 DEF Inject
    <2>2. UNCHANGED tx /\ tx = {}
      BY <1>5 DEF Inject
    <2>3. DocOK(doc) /\ DocOK(r.doc) /\ WorldTells(doc, r.doc, r.event)
      BY InjectedOK, InjectedTells DEF WorldInv
    <2>4. Accounted(r.doc, Append(log, Entry({}, r)))
      BY <2>3, OneMoreEvent
    <2> QED
      BY <2>1, <2>2, <2>4 DEF LedgerInv
  <1>6. CASE UNCHANGED worldVars
    BY <1>6 DEF worldVars, LedgerInv
  <1> QED
    BY <1>1, <1>3, <1>4, <1>5, <1>6 DEF Next

\* What EnterpriseWorlds asks is what the invariant says of the committed state.
LEMMA ExplainedByLog ==
  ASSUME NEW types, NEW on, NEW from, NEW now, ExplainedBy(types, on, from, log, now)
  PROVE  Explained(types, on, from, now)
  <1>1. \A n : Left(types, on, from, n) = LeftBy(types, on, from, log, n)
    BY Zenon DEF Left, LeftBy
  <1> QED
    BY <1>1 DEF Explained, ExplainedBy, EventsOf

LEMMA LedgerExplains ==
  ASSUME DocOK(doc), DocExplained(doc, log)
  PROVE  EventsExplain
  <1>1. \A types, on, from, now :
          ExplainedBy(types, on, from, log, now) => Explained(types, on, from, now)
    BY ExplainedByLog
  <1> HIDE DEF Seeded
  <1>2. CASE doc.world = "commerce"
    <2>1. CommerceExplained(Seeded, doc, log)
      BY <1>2 DEF DocExplained, Seeded
    <2>2. DOMAIN doc.stock = Locations /\ DOMAIN doc.orders = Orders
          /\ DOMAIN doc.shipments = Shipments
      BY <1>2 DEF DocOK, CommerceOK
    <2>3. /\ \A l \in DOMAIN doc.stock :
               Explained(StockEvents, l, Seeded.stock[l].available, doc.stock[l].available)
          /\ \A o \in DOMAIN doc.orders :
               Explained(RefundEvents, o, Seeded.orders[o].refunded, doc.orders[o].refunded)
          /\ \A s \in DOMAIN doc.shipments :
               Explained(ShipmentEvents, s, Seeded.shipments[s], doc.shipments[s])
      BY <1>1, <2>1, <2>2 DEF CommerceExplained
    <2> QED
      BY <1>2, <2>3 DEF EventsExplain, ShipmentEvents
  <1>3. CASE doc.world = "supply"
    <2>1. SupplyExplained(Seeded, doc, log)
      BY <1>3 DEF DocExplained, Seeded
    <2>2. DOMAIN doc.stock = Warehouses
      BY <1>3 DEF DocOK, SupplyOK
    <2> QED
      BY <1>1, <1>3, <2>1, <2>2 DEF EventsExplain, SupplyExplained
  <1>4. CASE doc.world = "insurance"
    <2>1. InsuranceExplained(Seeded, doc, log)
      BY <1>4 DEF DocExplained, Seeded
    <2> QED
      BY <1>1, <1>4, <2>1 DEF EventsExplain, InsuranceExplained, PaymentEvents, ClaimSays
  <1>5. CASE doc.world = "marketing"
    <2>1. MarketingExplained(Seeded, doc, log)
      BY <1>5 DEF DocExplained, Seeded
    <2> QED
      BY <1>1, <1>5, <2>1 DEF EventsExplain, MarketingExplained, AllocationEvents
  <1> QED
    BY <1>2, <1>3, <1>4, <1>5 DEF DocOK

\* In every world and however calls are retried, failed, rolled back or not
\* heard, the audit log accounts for the state: the before of every event is
\* what its predecessors left of a balance or a status, and together they lead
\* from the fixture to what the state holds (the handlers write state and event
\* in one transaction, and the invoke lock lets none read in between).
THEOREM EventsAlwaysExplain == ASSUME TheseWorlds PROVE Spec => []EventsExplain
  <1>1. Init => LedgerInv
    BY InitLedger
  <1>2. WorldInv /\ SpineInv /\ LedgerInv /\ [Next]_worldVars => LedgerInv'
    BY NextLedger
  <1>3. WorldInv /\ LedgerInv => EventsExplain
    BY LedgerExplains DEF WorldInv, LedgerInv, Accounted
  <1> QED
    BY <1>1, <1>2, <1>3, WorldInvariant, PTL DEF Spec

(***************************************************************************)
(* Refunds, payments and allocations add up                                *)
(***************************************************************************)

\* The readings of EnterpriseWorlds are those of the committed log and rows.
LEMMA AmountsInLog ==
  ASSUME IsList(log), NEW types, NEW on, NEW v, EventTotal(types, on, log, v)
  PROVE  AmountIn(types, on) = v
  <1> DEFINE S == EventsOf(types, on)
  <1>1. S = EventsIn(log, types, on) /\ S \subseteq DOMAIN log
    BY DEF EventsOf, EventsIn
  <1>2. AmountIn(types, on) = EventSum(log, S)
    BY Zenon DEF AmountIn, EventSum
  <1> HIDE DEF S
  <1>3. IsFiniteSet(S)
    BY <1>1, PositionsFinite
  <1>4. EventSum(log, S) = v
    BY <1>1, <1>3, EventSumAdds DEF EventTotal
  <1> QED
    BY <1>2, <1>4

LEMMA AmountsInTable ==
  ASSUME IsList(doc.rows), NEW table, NEW on, NEW v, RowTotal(table, on, doc.rows, v)
  PROVE  AmountOf(table, on) = v
  <1> DEFINE S == RowsOf(table, on)
             rows == doc.rows
  <1>1. S = RowsIn(rows, table, on) /\ S \subseteq DOMAIN rows
    BY DEF RowsOf, RowsIn
  <1>2. AmountOf(table, on) = RowSum(rows, S)
    BY Zenon DEF AmountOf, RowSum
  <1>3. IsList(rows) /\ RowTotal(table, on, rows, v)
    OBVIOUS
  <1> HIDE DEF S, rows
  <1>4. IsFiniteSet(S)
    BY <1>1, <1>3, PositionsFinite
  <1>5. RowSum(rows, S) = v
    BY <1>1, <1>3, <1>4, RowSumAdds DEF RowTotal
  <1> QED
    BY <1>2, <1>5

LEMMA OrderReconciles ==
  ASSUME IsList(log), CommerceOK(doc), OrdersAgree(doc, log), NEW o \in Orders
  PROVE  RefundsReconcile(o)
  <1> DEFINE order == doc.orders[o]
             refunds == doc.refunds
             mine == {i \in DOMAIN refunds : refunds[i].order = o}
             pending == {i \in mine : refunds[i].status = "pending"}
  <1>1. order \in Order /\ OrderBalanced(order) /\ IsList(refunds)
    BY DEF CommerceOK, IsList
  <1>2. mine = RefundsIn(refunds, o) /\ pending = PendingIn(refunds, o)
    BY DEF RefundsIn, PendingIn
  <1>3. RefundsAddUp(o, order.refunded, refunds, log) /\ PendingTold(o, refunds, log)
    BY DEF OrdersAgree
  <1>4. \A types : EventsOf(types, o) = EventsIn(log, types, o)
    BY DEF EventsOf, EventsIn
  <1>5. mine \subseteq DOMAIN refunds
    OBVIOUS
  <1>6. MapThenSumSet(LAMBDA i : doc.refunds[i].amount, mine) = RowSum(refunds, mine)
    BY Zenon DEF RowSum
  <1> HIDE DEF order, refunds, mine, pending
  <1>7. order.refunded = AmountIn(RefundEvents, o)
    BY <1>3, AmountsInLog DEF RefundsAddUp
  <1>8. /\ AddsUpTo(Column(refunds), mine, order.refunded)
        /\ mine # {} => order.refunded > 0
    BY <1>2, <1>3 DEF RefundsAddUp
  <1>9. order.refunded = RowSum(refunds, mine)
    <2>1. IsFiniteSet(mine)
      BY <1>1, <1>5, PositionsFinite
    <2> QED
      BY <1>5, <1>8, <2>1, RowSumAdds
  <1>10. /\ order.refunded <= order.captured
         /\ order.status = "partially_refunded" <=> order.refunded \in 1..(order.captured - 1)
    BY <1>1 DEF OrderBalanced, Order
  <1>11. order.status = "refunded" <=> order.refunded = order.captured /\ mine # {}
    <2>1. mine # {} <=> order.refunded > 0
      <3>1. mine = {} => order.refunded = 0
        BY <1>8, NothingAddsOnly
      <3> QED
        BY <1>8, <3>1
    <2> QED
      BY <1>1, <2>1 DEF OrderBalanced
  <1>12. Cardinality(pending) = Cardinality(EventsOf({"refund.pending"}, o))
                                  - Cardinality(EventsOf({"refund.completed"}, o))
    BY <1>2, <1>3, <1>4 DEF PendingTold, Told
  <1> QED
    BY <1>6, <1>7, <1>9, <1>10, <1>11, <1>12, Zenon
       DEF RefundsReconcile, order, refunds, mine, pending

LEMMA ClaimBalances ==
  ASSUME IsList(log), InsuranceOK(doc), ClaimsAgree(doc, log), NEW x \in DOMAIN doc.claims
  PROVE  ClaimReconciles(x)
  <1> DEFINE claim == doc.claims[x]
             decided == EventsOf({"claim.decided"}, x)
  <1>1. ClaimBalanced(claim) /\ doc.limit = 500 /\ IsList(doc.rows)
    BY DEF InsuranceOK, ClaimsAgree
  <1>2. /\ Posted("payments", PaymentEvents, log, doc.rows, x, claim.paid)
        /\ ClaimDecided(x, claim, log)
    BY DEF ClaimsAgree
  <1>3. decided = EventsIn(log, {"claim.decided"}, x)
    BY DEF EventsOf, EventsIn
  <1> HIDE DEF claim, decided
  <1>4. Cardinality(decided) <= 1
    <2>1. decided = {} \/ \E i : decided = {i}
      BY <1>2, <1>3 DEF ClaimDecided
    <2>2. Cardinality({}) = 0 /\ \A i : Cardinality({i}) = 1
      BY FS_EmptySet, FS_Singleton
    <2>3. Cardinality(decided) = 0 \/ Cardinality(decided) = 1
      BY <2>1, <2>2, Zenon
    <2> QED
      BY <2>3
  <1>5. claim.paid = AmountOf("payments", x)
    BY <1>1, <1>2, AmountsInTable DEF Posted
  <1>6. claim.paid = AmountIn({"claim.payment_issued"}, x)
    BY <1>2, AmountsInLog DEF Posted, PaymentEvents
  <1>7. /\ claim.paid <= claim.approved
        /\ claim.approved <= claim.requested /\ claim.approved <= doc.limit
        /\ claim.status = "paid" <=> claim.paid = claim.approved /\ claim.paid > 0
        /\ claim.approved > 0 <=> claim.status \in {"approved", "paid"}
    BY <1>1 DEF ClaimBalanced
  <1> QED
    BY <1>4, <1>5, <1>6, <1>7, Zenon DEF ClaimReconciles, claim, decided

LEMMA CampaignBalances ==
  ASSUME IsList(log), CampaignsAgree(Seeded, doc, log), NEW x \in DOMAIN doc.campaigns
  PROVE  CampaignReconciles(x)
  <1> DEFINE campaign == doc.campaigns[x]
             from == Seeded.campaigns[x].status
             allocations == EventsOf({"campaign.budget_allocated"}, x)
             sent == EventsOf({"campaign.communication_sent"}, x)
             launched == EventsOf({"campaign.launched"}, x)
             used == {i \in allocations : campaign.approved > 0
                                           /\ log[i].event.after >= campaign.approved}
  <1>1. /\ Posted("budget_allocations", AllocationEvents, log, doc.rows, x, campaign.spent)
        /\ CampaignCourse(x, from, campaign, log) /\ IsList(doc.rows)
    BY DEF CampaignsAgree
  <1>2. /\ allocations = EventsIn(log, AllocationEvents, x)
        /\ sent = EventsIn(log, {"campaign.communication_sent"}, x)
        /\ launched = EventsIn(log, {"campaign.launched"}, x)
    BY DEF EventsOf, EventsIn, AllocationEvents
  <1> HIDE DEF campaign, from, allocations, sent, launched
  <1>3. campaign.spent = AmountOf("budget_allocations", x)
    BY <1>1, AmountsInTable DEF Posted
  <1>4. campaign.spent = AmountIn({"campaign.budget_allocated"}, x)
    BY <1>1, AmountsInLog DEF Posted, AllocationEvents
  <1>5. \A i \in sent : from = "live" \/ \E j \in launched : j < i
    BY <1>1, <1>2 DEF CampaignCourse
  <1>6. \A i \in used : \A j \in allocations \cup sent : j <= i
    BY <1>1, <1>2 DEF CampaignCourse
  <1> QED
    BY <1>3, <1>4, <1>5, <1>6, Zenon
       DEF CampaignReconciles, campaign, from, allocations, sent, launched, used

LEMMA MoneyReconciled ==
  ASSUME IsList(log), DocOK(doc), MoneyAgrees(doc, log)
  PROVE  MoneyReconciles
  <1>1. ASSUME doc.world = "commerce", NEW o \in DOMAIN doc.orders
        PROVE  RefundsReconcile(o)
    <2>1. CommerceOK(doc) /\ OrdersAgree(doc, log) /\ o \in Orders
      BY <1>1 DEF DocOK, MoneyAgrees, CommerceOK
    <2> QED
      BY <2>1, OrderReconciles
  <1>2. ASSUME doc.world = "insurance", NEW x \in DOMAIN doc.claims
        PROVE  ClaimReconciles(x)
    <2>1. InsuranceOK(doc) /\ ClaimsAgree(doc, log)
      BY <1>2 DEF DocOK, MoneyAgrees
    <2> QED
      BY <1>2, <2>1, ClaimBalances
  <1>3. ASSUME doc.world = "marketing", NEW x \in DOMAIN doc.campaigns
        PROVE  CampaignReconciles(x)
    <2>1. CampaignsAgree(Seeded, doc, log)
      BY <1>3 DEF MoneyAgrees, Seeded
    <2> QED
      BY <1>3, <2>1, CampaignBalances
  <1> QED
    BY <1>1, <1>2, <1>3 DEF MoneyReconciles

\* In every world and however calls are retried, failed, rolled back or not
\* heard, the balances, the tables and the audit log agree on money: what an
\* order, a claim or a campaign says was refunded, paid or spent is what the rows
\* and what the events add up to, within what was captured, approved or covered;
\* the statuses say so; as many refunds are pending as the log has begun and not
\* completed; and no claim is decided twice, no campaign sent for before its
\* launch, nothing sent or allocated once a budget is used up.
THEOREM MoneyAlwaysReconciles == ASSUME TheseWorlds PROVE Spec => []MoneyReconciles
  <1>1. Init => LedgerInv
    BY InitLedger
  <1>2. WorldInv /\ SpineInv /\ LedgerInv /\ [Next]_worldVars => LedgerInv'
    BY NextLedger
  <1>3. WorldInv /\ SpineInv /\ LedgerInv => MoneyReconciles
    <2> SUFFICES ASSUME WorldInv, SpineInv, LedgerInv
                 PROVE  MoneyReconciles
      OBVIOUS
    <2>1. IsList(log)
      BY DEF SpineInv, Coherent, IsList
    <2> QED
      BY <2>1, MoneyReconciled DEF WorldInv, LedgerInv, Accounted
  <1> QED
    BY <1>1, <1>2, <1>3, WorldInvariant, PTL DEF Spec

=============================================================================
