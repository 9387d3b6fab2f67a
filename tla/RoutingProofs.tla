--------------------------- MODULE RoutingProofs ---------------------------
(***************************************************************************)
(* Proofs about Routing, for every registry, policy, model and prompt, and *)
(* about the instance MCRouting.                                           *)
(***************************************************************************)
EXTENDS MCRouting, FiniteSetTheorems, TLAPS

-----------------------------------------------------------------------------
(* ElementsAt.                                                             *)

\* How many of the places come no later than i.
UpTo(places, i) == Cardinality({j \in places : j <= i})

\* p lists the places in increasing order.
Lists(p, places) ==
  /\ p \in [1 .. Cardinality(places) -> places]
  /\ \A m, n \in 1 .. Cardinality(places) : m < n => p[m] < p[n]
  /\ \A i \in places : \E n \in 1 .. Cardinality(places) : p[n] = i

\* ElementsAt takes the elements at the given places, all of them, in order:
\* position n of the result is that of the n-th place.
LEMMA Selection ==
  ASSUME NEW seq, NEW places \in SUBSET Nat, IsFiniteSet(places)
  PROVE  \E p : /\ Lists(p, places)
                /\ ElementsAt(seq, places) = [n \in 1 .. Cardinality(places) |-> seq[p[n]]]
<1> DEFINE size == Cardinality(places)
           f == [i \in places |-> UpTo(places, i)]
           p == [n \in 1 .. size |-> CHOOSE i \in places : UpTo(places, i) = n]
<1> HIDE DEF f, p
<1>1. size \in Nat /\ \A i \in places : i \in Int
  BY FS_CardinalityType
<1>2. ASSUME NEW i \in places PROVE UpTo(places, i) \in 1 .. size
  <2> DEFINE I == {j \in places : j <= i}
  <2>1. I \in SUBSET places /\ i \in I
    BY <1>1
  <2> HIDE DEF I
  <2>2. IsFiniteSet(I) /\ Cardinality(I) <= size
    BY <2>1, FS_Subset
  <2>3. Cardinality(I) \in Nat /\ Cardinality(I) # 0
    BY <2>1, <2>2, FS_CardinalityType, FS_EmptySet
  <2> QED
    BY <1>1, <2>2, <2>3 DEF UpTo, I
<1>3. \A i \in places : UpTo(places, i) \in Int
  BY <1>1, <1>2
<1>4. ASSUME NEW i \in places, NEW j \in places, i < j
      PROVE  UpTo(places, i) < UpTo(places, j)
  <2> DEFINE I == {k \in places : k <= i}
             J == {k \in places : k <= j}
  <2>1. I \subseteq J
    <3>1. ASSUME NEW k \in places, k <= i PROVE k <= j
      BY <1>1, <1>4, <3>1
    <3> QED
      BY <3>1
  <2>2. j \in J /\ j \notin I
    BY <1>1, <1>4
  <2>3. IsFiniteSet(J)
    BY FS_Subset
  <2>4. Cardinality(I) = UpTo(places, i) /\ Cardinality(J) = UpTo(places, j)
    BY DEF UpTo
  <2> HIDE DEF I, J
  <2>5. Cardinality(I) <= Cardinality(J) /\ Cardinality(I) # Cardinality(J)
    BY <2>1, <2>2, <2>3, FS_Subset
  <2> QED
    BY <1>3, <2>4, <2>5
<1>5. f \in Injection(places, 1 .. size)
  <2>1. f \in [places -> 1 .. size]
    BY <1>2 DEF f
  <2>2. ASSUME NEW i \in places, NEW j \in places, f[i] = f[j] PROVE i = j
    BY <1>1, <1>3, <1>4, <2>2 DEF f
  <2> QED
    BY <2>1, <2>2 DEF Injection, IsInjective
<1>6. f \in Surjection(places, 1 .. size)
  <2>1. IsFiniteSet(1 .. size) /\ Cardinality(1 .. size) = size
    BY <1>1, FS_Interval
  <2> QED
    BY <1>5, <2>1, FS_Injection
<1>7. \A n \in 1 .. size : p[n] \in places /\ UpTo(places, p[n]) = n
  BY <1>6 DEF Surjection, f, p
<1>8. ASSUME NEW m \in 1 .. size, NEW n \in 1 .. size, m < n PROVE p[m] < p[n]
  <2>1. p[m] \in Int /\ p[n] \in Int
    BY <1>1, <1>7
  <2>2. p[n] < p[m] => n < m
    BY <1>4, <1>7
  <2>3. p[n] # p[m]
    BY <1>7, <1>8
  <2> QED
    BY <1>8, <2>1, <2>2, <2>3
<1>9. ASSUME NEW i \in places PROVE p[UpTo(places, i)] = i
  <2> DEFINE k == p[UpTo(places, i)]
  <2>1. k \in places /\ UpTo(places, k) = UpTo(places, i)
    BY <1>2, <1>7
  <2> HIDE DEF k
  <2>2. ~(k < i) /\ ~(i < k)
    BY <1>3, <1>4, <2>1
  <2>3. k = i
    BY <1>1, <2>1, <2>2
  <2> QED
    BY <2>3 DEF k
<1>10. ElementsAt(seq, places) = [n \in 1 .. size |-> seq[p[n]]]
  BY DEF p, ElementsAt, UpTo
<1>11. p \in [1 .. size -> places]
  BY <1>7 DEF p
<1>12. Lists(p, places)
  BY <1>2, <1>8, <1>9, <1>11 DEF Lists
<1> QED
  BY <1>10, <1>12

\* What ElementsAt makes of a sequence is a sequence of some of its elements.
LEMMA SelectionType ==
  ASSUME NEW S, NEW seq \in Seq(S), NEW places \in SUBSET DOMAIN seq
  PROVE  /\ places \in SUBSET Nat
         /\ IsFiniteSet(places)
         /\ ElementsAt(seq, places) \in Seq(S)
         /\ Len(ElementsAt(seq, places)) = Cardinality(places)
<1>1. DOMAIN seq = 1 .. Len(seq) /\ Len(seq) \in Nat
  OBVIOUS
<1>2. places \in SUBSET Nat /\ IsFiniteSet(places)
  <2>1. IsFiniteSet(1 .. Len(seq))
    BY <1>1, FS_Interval
  <2>2. IsFiniteSet(places)
    BY <1>1, <2>1, FS_Subset
  <2> QED
    BY <1>1, <2>2
<1>3. PICK p : /\ Lists(p, places)
               /\ ElementsAt(seq, places) = [n \in 1 .. Cardinality(places) |-> seq[p[n]]]
  BY <1>2, Selection
<1>4. Cardinality(places) \in Nat
  BY <1>2, FS_CardinalityType
<1>5. \A n \in 1 .. Cardinality(places) : p[n] \in places
  BY <1>3 DEF Lists
<1>6. ElementsAt(seq, places) \in [1 .. Cardinality(places) -> S]
  BY <1>1, <1>3, <1>5
<1> QED
  BY <1>2, <1>4, <1>6
\* s is the subsequence of seq at the positions that p lists.
Selects(p, s, seq) ==
  /\ p \in [1 .. Len(s) -> 1 .. Len(seq)]
  /\ \A m, n \in 1 .. Len(s) : m < n => p[m] < p[n]
  /\ \A n \in 1 .. Len(s) : s[n] = seq[p[n]]

\* Both lemmas in one: ElementsAt selects, and leaves none of the places out.
LEMMA SelectionSelects ==
  ASSUME NEW S, NEW seq \in Seq(S), NEW places \in SUBSET DOMAIN seq
  PROVE  \E p : /\ Selects(p, ElementsAt(seq, places), seq)
                /\ \A n \in 1 .. Len(ElementsAt(seq, places)) : p[n] \in places
                /\ \A i \in places : \E n \in 1 .. Len(ElementsAt(seq, places)) : p[n] = i
<1> DEFINE s == ElementsAt(seq, places)
<1>1. /\ places \in SUBSET Nat
      /\ IsFiniteSet(places)
      /\ Len(s) = Cardinality(places)
  BY SelectionType
<1>2. PICK p : /\ Lists(p, places)
               /\ s = [n \in 1 .. Cardinality(places) |-> seq[p[n]]]
  BY <1>1, Selection
<1> HIDE DEF s
<1>3. \A n \in 1 .. Len(s) : p[n] \in places /\ s[n] = seq[p[n]]
  BY <1>1, <1>2 DEF Lists
<1>4. p \in [1 .. Len(s) -> 1 .. Len(seq)]
  <2>1. places \subseteq 1 .. Len(seq)
    OBVIOUS
  <2> QED
    BY <1>1, <1>2, <2>1 DEF Lists
<1>5. Selects(p, s, seq)
  BY <1>1, <1>2, <1>3, <1>4 DEF Lists, Selects
<1>6. \A i \in places : \E n \in 1 .. Len(s) : p[n] = i
  BY <1>1, <1>2 DEF Lists
<1> QED
  BY <1>3, <1>5, <1>6 DEF s

\* A non-empty finite set of positions has a first one.
LEMMA First ==
  ASSUME NEW places \in SUBSET Nat, IsFiniteSet(places), places # {}
  PROVE  \E i \in places : \A j \in places : i <= j
<1>1. PICK p : Lists(p, places)
  BY Selection
<1>2. /\ Cardinality(places) \in Nat /\ Cardinality(places) # 0
      /\ \A i \in places : i \in Int
  BY FS_CardinalityType, FS_EmptySet
<1>3. 1 \in 1 .. Cardinality(places)
  BY <1>2
<1>4. p[1] \in places
  BY <1>1, <1>3 DEF Lists
<1>5. ASSUME NEW j \in places PROVE p[1] <= j
  <2>1. PICK n \in 1 .. Cardinality(places) : p[n] = j
    BY <1>1 DEF Lists
  <2>2. n = 1 \/ 1 < n
    BY <1>2
  <2>3. 1 < n => p[1] < p[n]
    BY <1>1, <1>3 DEF Lists
  <2>4. p[1] \in Int /\ j \in Int
    BY <1>2, <1>4
  <2> QED
    BY <2>1, <2>2, <2>3, <2>4
<1> QED
  BY <1>4, <1>5

-----------------------------------------------------------------------------
(* What the engine makes of its lists.                                     *)

\* Of a list the candidates of registered providers stay, in their order.
LEMMA RegisteredStay ==
  ASSUME NEW S, NEW seq \in Seq(S), NEW registered
  PROVE  /\ OfRegistered(seq, registered) \in Seq(S)
         /\ \A n \in 1 .. Len(OfRegistered(seq, registered)) :
              OfRegistered(seq, registered)[n].provider \in registered
         /\ \E p : /\ Selects(p, OfRegistered(seq, registered), seq)
                   /\ \A i \in 1 .. Len(seq) :
                        seq[i].provider \in registered =>
                          \E n \in 1 .. Len(OfRegistered(seq, registered)) : p[n] = i
<1> DEFINE places == {i \in DOMAIN seq : seq[i].provider \in registered}
           s == OfRegistered(seq, registered)
<1>1. places \in SUBSET DOMAIN seq /\ s = ElementsAt(seq, places)
  BY DEF OfRegistered
<1>2. \A i \in 1 .. Len(seq) : seq[i].provider \in registered => i \in places
  OBVIOUS
<1>3. \A i \in places : seq[i].provider \in registered
  OBVIOUS
<1> HIDE DEF places, s
<1>4. s \in Seq(S)
  BY <1>1, SelectionType
<1>5. PICK p : /\ Selects(p, s, seq)
               /\ \A n \in 1 .. Len(s) : p[n] \in places
               /\ \A i \in places : \E n \in 1 .. Len(s) : p[n] = i
  BY <1>1, SelectionSelects
<1>6. \A n \in 1 .. Len(s) : s[n].provider \in registered
  BY <1>3, <1>5 DEF Selects
<1>7. \A i \in 1 .. Len(seq) :
        seq[i].provider \in registered => \E n \in 1 .. Len(s) : p[n] = i
  BY <1>2, <1>5
<1> QED
  BY <1>4, <1>5, <1>6, <1>7 DEF s

\* Deduplication keeps each candidate once, where it first occurs.
LEMMA FirstStay ==
  ASSUME NEW S, NEW seq \in Seq(S)
  PROVE  /\ deduplicateCandidates(seq) \in Seq(S)
         /\ \A i \in 1 .. Len(seq) :
              \E n \in 1 .. Len(deduplicateCandidates(seq)) : deduplicateCandidates(seq)[n] = seq[i]
         /\ \E p : /\ Selects(p, deduplicateCandidates(seq), seq)
                   /\ \A n \in 1 .. Len(deduplicateCandidates(seq)), j \in 1 .. Len(seq) :
                        j < p[n] => seq[j] # deduplicateCandidates(seq)[n]
<1> DEFINE places == {i \in DOMAIN seq : \A j \in DOMAIN seq : j < i => seq[j] # seq[i]}
           s == deduplicateCandidates(seq)
<1>1. places \in SUBSET DOMAIN seq /\ s = ElementsAt(seq, places)
  BY DEF deduplicateCandidates
<1>2. DOMAIN seq = 1 .. Len(seq) /\ Len(seq) \in Nat
  OBVIOUS
<1>3. ASSUME NEW i \in 1 .. Len(seq) PROVE \E k \in places : seq[k] = seq[i]
  <2> DEFINE same == {k \in 1 .. Len(seq) : seq[k] = seq[i]}
  <2>1. same \subseteq 1 .. Len(seq) /\ i \in same
    OBVIOUS
  <2>2. same \in SUBSET Nat
    BY <1>2, <2>1
  <2>3. IsFiniteSet(same)
    <3>1. IsFiniteSet(1 .. Len(seq))
      BY <1>2, FS_Interval
    <3> HIDE DEF same
    <3> QED
      BY <2>1, <3>1, FS_Subset
  <2>4. PICK k \in same : \A j \in same : k <= j
    <3> HIDE DEF same
    <3> QED
      BY <2>1, <2>2, <2>3, First
  <2>5. ASSUME NEW j \in 1 .. Len(seq), j < k PROVE seq[j] # seq[k]
    BY <2>4, <2>5
  <2> QED
    BY <1>2, <2>4, <2>5
<1>4. \A i \in places, j \in 1 .. Len(seq) : j < i => seq[j] # seq[i]
  BY <1>2
<1> HIDE DEF places, s
<1>5. s \in Seq(S)
  BY <1>1, SelectionType
<1>6. PICK p : /\ Selects(p, s, seq)
               /\ \A n \in 1 .. Len(s) : p[n] \in places
               /\ \A i \in places : \E n \in 1 .. Len(s) : p[n] = i
  BY <1>1, SelectionSelects
<1>7. \A n \in 1 .. Len(s) : s[n] = seq[p[n]]
  BY <1>6 DEF Selects
<1>8. \A i \in 1 .. Len(seq) : \E n \in 1 .. Len(s) : s[n] = seq[i]
  BY <1>3, <1>6, <1>7
<1>9. \A n \in 1 .. Len(s), j \in 1 .. Len(seq) : j < p[n] => seq[j] # s[n]
  BY <1>4, <1>6, <1>7
<1> QED
  BY <1>5, <1>6, <1>8, <1>9 DEF s
\* A list put together has the elements of the first, then of the second.
LEMMA Concatenation ==
  ASSUME NEW S, NEW s \in Seq(S), NEW t \in Seq(S), NEW u, u = s \o t
  PROVE  /\ Len(u) = Len(s) + Len(t)
         /\ \A i \in 1 .. Len(s) : u[i] = s[i]
         /\ \A i \in 1 .. Len(t) : u[i + Len(s)] = t[i]
OBVIOUS

\* Subsequences of two lists make one of the lists put together.
LEMMA ConcatSelects ==
  ASSUME NEW S, NEW s \in Seq(S), NEW t \in Seq(S), NEW u \in Seq(S), NEW v \in Seq(S),
         NEW p, Selects(p, s, u), NEW q, Selects(q, t, v)
  PROVE  \E w : Selects(w, s \o t, u \o v)
<1> DEFINE w == [n \in 1 .. Len(s) + Len(t) |->
                   IF n <= Len(s) THEN p[n] ELSE Len(u) + q[n - Len(s)]]
<1>1. /\ Len(s) \in Nat /\ Len(t) \in Nat /\ Len(u) \in Nat /\ Len(v) \in Nat
      /\ Len(s \o t) = Len(s) + Len(t) /\ Len(u \o v) = Len(u) + Len(v)
  OBVIOUS
<1>2. \A n \in 1 .. Len(s) : p[n] \in 1 .. Len(u) /\ s[n] = u[p[n]]
  BY DEF Selects
<1>3. \A n \in 1 .. Len(t) : q[n] \in 1 .. Len(v) /\ t[n] = v[q[n]]
  BY DEF Selects
<1>4. ASSUME NEW n \in 1 .. Len(s) + Len(t)
      PROVE  /\ n <= Len(s) => n \in 1 .. Len(s) /\ w[n] = p[n]
             /\ n > Len(s) => n - Len(s) \in 1 .. Len(t) /\ w[n] = Len(u) + q[n - Len(s)]
  BY <1>1
<1> HIDE DEF w
<1>5. ASSUME NEW n \in 1 .. Len(s) + Len(t)
      PROVE  w[n] \in 1 .. Len(u) + Len(v) /\ (s \o t)[n] = (u \o v)[w[n]]
  <2>1. CASE n <= Len(s)
    <3>1. w[n] \in 1 .. Len(u) /\ s[n] = u[w[n]]
      BY <1>2, <1>4, <2>1
    <3> QED
      BY <1>1, <2>1, <3>1
  <2>2. CASE n > Len(s)
    <3>1. q[n - Len(s)] \in 1 .. Len(v) /\ t[n - Len(s)] = v[q[n - Len(s)]]
      BY <1>3, <1>4, <2>2
    <3>2. w[n] = Len(u) + q[n - Len(s)]
      BY <1>4, <2>2
    <3> QED
      BY <1>1, <2>2, <3>1, <3>2, SMTT(30)
  <2> QED
    BY <1>1, <2>1, <2>2
<1>6. ASSUME NEW m \in 1 .. Len(s) + Len(t), NEW n \in 1 .. Len(s) + Len(t), m < n
      PROVE  w[m] < w[n]
  <2>1. CASE n <= Len(s)
    <3>1. m \in 1 .. Len(s) /\ n \in 1 .. Len(s) /\ w[m] = p[m] /\ w[n] = p[n]
      BY <1>1, <1>4, <1>6, <2>1
    <3> QED
      BY <1>6, <3>1 DEF Selects
  <2>2. CASE m <= Len(s) /\ n > Len(s)
    <3>1. w[m] \in 1 .. Len(u)
      BY <1>2, <1>4, <2>2
    <3>2. q[n - Len(s)] \in 1 .. Len(v) /\ w[n] = Len(u) + q[n - Len(s)]
      BY <1>3, <1>4, <2>2
    <3> QED
      BY <1>1, <3>1, <3>2
  <2>3. CASE m > Len(s)
    <3>1. /\ m - Len(s) \in 1 .. Len(t) /\ w[m] = Len(u) + q[m - Len(s)]
          /\ n - Len(s) \in 1 .. Len(t) /\ w[n] = Len(u) + q[n - Len(s)]
      BY <1>1, <1>4, <1>6, <2>3
    <3>2. m - Len(s) < n - Len(s)
      BY <1>1, <1>6
    <3>3. q[m - Len(s)] < q[n - Len(s)]
      BY <3>1, <3>2 DEF Selects
    <3>4. q[m - Len(s)] \in Int /\ q[n - Len(s)] \in Int
      BY <1>3, <3>1
    <3> QED
      BY <1>1, <3>1, <3>3, <3>4
  <2> QED
    BY <1>1, <2>1, <2>2, <2>3
<1>7. w \in [1 .. Len(s) + Len(t) -> 1 .. Len(u) + Len(v)]
  BY <1>5 DEF w
<1>8. 1 .. Len(s \o t) = 1 .. Len(s) + Len(t) /\ 1 .. Len(u \o v) = 1 .. Len(u) + Len(v)
  BY <1>1
<1>9. Selects(w, s \o t, u \o v)
  <2>1. w \in [1 .. Len(s \o t) -> 1 .. Len(u \o v)]
    BY <1>7, <1>8, Zenon
  <2>2. \A m, n \in 1 .. Len(s \o t) : m < n => w[m] < w[n]
    BY <1>6, <1>8, Zenon
  <2>3. \A n \in 1 .. Len(s \o t) : (s \o t)[n] = (u \o v)[w[n]]
    BY <1>5, <1>8, Zenon
  <2> QED
    BY <2>1, <2>2, <2>3, Zenon DEF Selects
<1> QED
  BY <1>9

-----------------------------------------------------------------------------
(* The tiers, and the candidates of a request.                             *)

\* Everything a dynamic chain may hold for a model.
Menu(model) == ToSet(FastModels) \cup ToSet(SmartModels) \cup {Candidate(Owner(model), model)}

Tiers(smartFirst) == IF smartFirst THEN SmartModels \o FastModels ELSE FastModels \o SmartModels

LEMMA TiersType ==
  ASSUME NEW model
  PROVE  /\ FastModels \in Seq(Menu(model)) /\ Len(FastModels) = 3
         /\ SmartModels \in Seq(Menu(model)) /\ Len(SmartModels) = 3
<1>1. /\ FastModels \in Seq(ToSet(FastModels)) /\ Len(FastModels) = 3
      /\ SmartModels \in Seq(ToSet(SmartModels)) /\ Len(SmartModels) = 3
  BY DEF FastModels, SmartModels, ToSet
<1> QED
  BY <1>1 DEF Menu

\* The tiers hold six candidates, no two alike, and no preset names a model
\* of theirs.
LEMMA TiersDiffer ==
  ASSUME NEW smartFirst \in BOOLEAN
  PROVE  /\ Len(Tiers(smartFirst)) = 6
         /\ \A i, j \in 1 .. 6 : Tiers(smartFirst)[i] = Tiers(smartFirst)[j] => i = j
         /\ \A i \in 1 .. 6 : Tiers(smartFirst)[i].model \notin Presets
         /\ \A c \in ToSet(FastModels) \cup ToSet(SmartModels) :
              \E i \in 1 .. 6 : Tiers(smartFirst)[i] = c
<1> DEFINE all == Tiers(smartFirst)
<1>1. /\ Len(FastModels) = 3 /\ Len(SmartModels) = 3
      /\ FastModels \in Seq(ToSet(FastModels)) /\ SmartModels \in Seq(ToSet(SmartModels))
  BY DEF FastModels, SmartModels, ToSet
<1>2. /\ Len(all) = 6
      /\ smartFirst => \A i \in 1 .. 3 : all[i] = SmartModels[i] /\ all[i + 3] = FastModels[i]
      /\ ~smartFirst => \A i \in 1 .. 3 : all[i] = FastModels[i] /\ all[i + 3] = SmartModels[i]
  <2> DEFINE S == ToSet(FastModels) \cup ToSet(SmartModels)
  <2>1. FastModels \in Seq(S) /\ SmartModels \in Seq(S)
    BY <1>1
  <2> HIDE DEF S
  <2>2. /\ smartFirst => all = SmartModels \o FastModels
        /\ ~smartFirst => all = FastModels \o SmartModels
    BY DEF Tiers
  <2> HIDE DEF all, S
  <2>3. CASE smartFirst
    <3>1. /\ Len(all) = Len(SmartModels) + Len(FastModels)
          /\ \A i \in 1 .. Len(SmartModels) : all[i] = SmartModels[i]
          /\ \A i \in 1 .. Len(FastModels) : all[i + Len(SmartModels)] = FastModels[i]
      BY <2>1, <2>2, <2>3, Concatenation
    <3> QED
      BY <1>1, <2>3, <3>1
  <2>4. CASE ~smartFirst
    <3>1. /\ Len(all) = Len(FastModels) + Len(SmartModels)
          /\ \A i \in 1 .. Len(FastModels) : all[i] = FastModels[i]
          /\ \A i \in 1 .. Len(SmartModels) : all[i + Len(FastModels)] = SmartModels[i]
      BY <2>1, <2>2, <2>4, Concatenation
    <3> QED
      BY <1>1, <2>4, <3>1
  <2> QED
    BY <2>3, <2>4
<1> HIDE DEF all
<1>3. \A i \in 1 .. 3 :
        /\ FastModels[i].model = IF i = 1 THEN "gemini-3.6-flash"
                                 ELSE IF i = 2 THEN "gpt-4o-mini" ELSE "claude-3-haiku-20240307"
        /\ SmartModels[i].model = IF i = 1 THEN "gpt-4o"
                                  ELSE IF i = 2 THEN "claude-3-5-sonnet-20241022" ELSE "gemini-3.7-flash"
  BY DEF FastModels, SmartModels, Candidate
<1>4. \A i \in 1 .. 6 : (i \in 1 .. 3 /\ all[i] = all[i]) \/ (i - 3 \in 1 .. 3 /\ i = (i - 3) + 3)
  OBVIOUS
<1>5. \A i \in 1 .. 6 :
        all[i].model = IF smartFirst THEN IF i <= 3 THEN SmartModels[i].model ELSE FastModels[i - 3].model
                                     ELSE IF i <= 3 THEN FastModels[i].model ELSE SmartModels[i - 3].model
  BY <1>2, <1>4
<1>6. \A i, j \in 1 .. 6 : all[i].model = all[j].model => i = j
  BY <1>3, <1>5, SMTT(30)
<1>7. \A i \in 1 .. 6 : all[i].model \notin Presets
  <2>1. /\ \A m \in {"gemini-3.6-flash", "gpt-4o-mini", "claude-3-haiku-20240307"} : m \notin Presets
        /\ \A m \in {"gpt-4o", "claude-3-5-sonnet-20241022", "gemini-3.7-flash"} : m \notin Presets
    BY DEF Presets, ExplorePresets, SmartPresets
  <2>2. \A i \in 1 .. 3 : FastModels[i].model \notin Presets /\ SmartModels[i].model \notin Presets
    BY <1>3, <2>1
  <2> QED
    BY <1>4, <1>5, <2>2
<1>8. \A c \in ToSet(FastModels) \cup ToSet(SmartModels) : \E i \in 1 .. 6 : all[i] = c
  BY <1>1, <1>2 DEF ToSet
<1> QED
  BY <1>2, <1>6, <1>7, <1>8 DEF all
\* The pools are the registered part of both tiers, in the tiers' order.
LEMMA PoolsSelect ==
  ASSUME NEW model, NEW registered, NEW smartFirst \in BOOLEAN
  PROVE  /\ Pools(registered, smartFirst) \in Seq(Menu(model))
         /\ \E w : Selects(w, Pools(registered, smartFirst), Tiers(smartFirst))
         /\ \A n \in 1 .. Len(Pools(registered, smartFirst)) :
              Pools(registered, smartFirst)[n].provider \in registered
         /\ \A c \in ToSet(FastModels) \cup ToSet(SmartModels) :
              c.provider \in registered =>
                \E n \in 1 .. Len(Pools(registered, smartFirst)) : Pools(registered, smartFirst)[n] = c
<1> DEFINE first  == IF smartFirst THEN SmartModels ELSE FastModels
           second == IF smartFirst THEN FastModels ELSE SmartModels
           a == OfRegistered(first, registered)
           b == OfRegistered(second, registered)
           pools == Pools(registered, smartFirst)
<1>1. /\ first \in Seq(Menu(model)) /\ second \in Seq(Menu(model))
      /\ \A c \in ToSet(FastModels) \cup ToSet(SmartModels) :
           (\E i \in 1 .. Len(first) : first[i] = c) \/ (\E i \in 1 .. Len(second) : second[i] = c)
  BY TiersType DEF ToSet
<1>2. pools = a \o b /\ Tiers(smartFirst) = first \o second
  BY DEF Pools, Tiers
<1> HIDE DEF first, second, pools
<1>3. /\ a \in Seq(Menu(model))
      /\ \A n \in 1 .. Len(a) : a[n].provider \in registered
      /\ \E p : /\ Selects(p, a, first)
                /\ \A i \in 1 .. Len(first) : first[i].provider \in registered =>
                     \E n \in 1 .. Len(a) : p[n] = i
  BY <1>1, RegisteredStay
<1>4. /\ b \in Seq(Menu(model))
      /\ \A n \in 1 .. Len(b) : b[n].provider \in registered
      /\ \E p : /\ Selects(p, b, second)
                /\ \A i \in 1 .. Len(second) : second[i].provider \in registered =>
                     \E n \in 1 .. Len(b) : p[n] = i
  BY <1>1, RegisteredStay
<1>5. PICK p : /\ Selects(p, a, first)
               /\ \A i \in 1 .. Len(first) : first[i].provider \in registered =>
                    \E n \in 1 .. Len(a) : p[n] = i
  BY <1>3
<1>6. PICK q : /\ Selects(q, b, second)
               /\ \A i \in 1 .. Len(second) : second[i].provider \in registered =>
                    \E n \in 1 .. Len(b) : q[n] = i
  BY <1>4
<1> HIDE DEF a, b
<1>7. \E w : Selects(w, pools, Tiers(smartFirst))
  BY <1>1, <1>2, <1>3, <1>4, <1>5, <1>6, ConcatSelects
<1>8. /\ pools \in Seq(Menu(model))
      /\ Len(pools) = Len(a) + Len(b) /\ Len(a) \in Nat /\ Len(b) \in Nat
      /\ \A n \in 1 .. Len(a) : pools[n] = a[n]
      /\ \A n \in 1 .. Len(b) : pools[n + Len(a)] = b[n]
  BY <1>2, <1>3, <1>4, Concatenation
<1>9. ASSUME NEW n \in 1 .. Len(pools)
      PROVE  n \in 1 .. Len(a) \/ (n - Len(a) \in 1 .. Len(b) /\ n = (n - Len(a)) + Len(a))
  BY <1>8
<1>10. ASSUME NEW n \in 1 .. Len(pools) PROVE pools[n].provider \in registered
  <2>1. CASE n \in 1 .. Len(a)
    <3>1. pools[n] = a[n] /\ a[n].provider \in registered
      BY <1>3, <1>8, <2>1
    <3> QED
      BY <3>1
  <2>2. CASE n - Len(a) \in 1 .. Len(b) /\ n = (n - Len(a)) + Len(a)
    <3>1. pools[n] = b[n - Len(a)] /\ b[n - Len(a)].provider \in registered
      BY <1>4, <1>8, <2>2
    <3> QED
      BY <3>1
  <2> QED
    BY <1>9, <2>1, <2>2
<1>11. ASSUME NEW c \in ToSet(FastModels) \cup ToSet(SmartModels), c.provider \in registered
       PROVE  \E n \in 1 .. Len(pools) : pools[n] = c
  <2>1. CASE \E i \in 1 .. Len(first) : first[i] = c
    <3>1. \E n \in 1 .. Len(a) : a[n] = c
      BY <1>5, <1>11, <2>1 DEF Selects
    <3> QED
      BY <1>8, <3>1
  <2>2. CASE \E i \in 1 .. Len(second) : second[i] = c
    <3>1. PICK n \in 1 .. Len(b) : b[n] = c
      BY <1>6, <1>11, <2>2 DEF Selects
    <3>2. n + Len(a) \in 1 .. Len(pools) /\ pools[n + Len(a)] = c
      BY <1>8, <3>1
    <3> QED
      BY <3>2
  <2> QED
    BY <1>1, <2>1, <2>2
<1> QED
  BY <1>7, <1>8, <1>10, <1>11 DEF pools

\* What analyzeComplexity says of a conversation turns to the smart tier
\* exactly when one of its three weightier checks matches.
LEMMA Complexity ==
  ASSUME NEW prompt
  PROVE  analyzeComplexity(prompt) >= 40 <=> prompt \cap {"heavy", "code", "long"} # {}
<1> DEFINE I == {i \in 1 .. Len(Scores) : Scores[i][1] \in prompt}
<1>1. /\ Len(Scores) = 5
      /\ Scores[1] = <<"heavy", 85>> /\ Scores[2] = <<"code", 75>> /\ Scores[3] = <<"long", 70>>
      /\ Scores[4] = <<"greeting", 5>> /\ Scores[5] = <<"short", 15>>
  BY DEF Scores
<1>2. /\ I \subseteq 1 .. 5
      /\ 1 \in I <=> "heavy" \in prompt
      /\ 2 \in I <=> "code" \in prompt
      /\ 3 \in I <=> "long" \in prompt
  BY <1>1
<1>3. analyzeComplexity(prompt) = LET i == IF I # {} THEN Min(I) ELSE 0
                                  IN  IF i = 0 THEN 35 ELSE Scores[i][2]
  BY DEF analyzeComplexity, SelectInSeq
<1> HIDE DEF I
<1>4. ASSUME I # {} PROVE Min(I) \in I /\ \A j \in I : Min(I) <= j
  <2>1. I \in SUBSET Nat
    BY <1>2
  <2>2. IsFiniteSet(I)
    <3>1. IsFiniteSet(1 .. 5)
      <4>1. 1 \in Int /\ 5 \in Int
        OBVIOUS
      <4> QED
        BY <4>1, FS_Interval, Zenon
    <3> QED
      BY <1>2, <3>1, FS_Subset
  <2>3. \E i \in I : \A j \in I : i <= j
    BY <1>4, <2>1, <2>2, First
  <2> QED
    BY <2>3 DEF Min
<1>5. CASE I = {}
  BY <1>2, <1>3, <1>5
<1>6. CASE I # {}
  <2> DEFINE m == Min(I)
  <2>1. m \in 1 .. 5 /\ m \in I /\ \A j \in I : m <= j
    BY <1>2, <1>4, <1>6
  <2> HIDE DEF m
  <2>2. analyzeComplexity(prompt) = Scores[m][2]
    BY <1>3, <1>6, <2>1 DEF m
  <2>3. m \in 1 .. 3 <=> prompt \cap {"heavy", "code", "long"} # {}
    <3>1. m \in 1 .. 3 <=> 1 \in I \/ 2 \in I \/ 3 \in I
      BY <2>1
    <3> QED
      BY <1>2, <3>1
  <2>4. Scores[m][2] >= 40 <=> m \in 1 .. 3
    BY <1>1, <2>1
  <2> QED
    BY <2>2, <2>3, <2>4
<1> QED
  BY <1>5, <1>6
-----------------------------------------------------------------------------
(* Dynamic chains.                                                         *)

\* A candidate's place in the order of preference: what was asked for, then
\* the tiers in theirs.
Place(c, model, smartFirst) ==
  IF c = Candidate(Owner(model), model) THEN 0
  ELSE CHOOSE n \in 1 .. 6 : c = Tiers(smartFirst)[n]

\* For every registry, model and prompt: a dynamic chain stays within the
\* registry, holds every registered candidate of both tiers, goes down the
\* order of preference without repetition, and starts with the named model
\* if that can be had.
THEOREM DynamicChainIsSound ==
  ASSUME NEW registered, NEW model, NEW prompt
  PROVE  LET d   == DynamicChain(registered, model, prompt)
             top == Candidate(Owner(model), model)
         IN  /\ d \in Seq(Menu(model))
             /\ \A n \in 1 .. Len(d) : d[n].provider \in registered
             /\ \A c \in ToSet(FastModels) \cup ToSet(SmartModels) :
                  c.provider \in registered => \E n \in 1 .. Len(d) : d[n] = c
             /\ \A m, n \in 1 .. Len(d) :
                  m < n => Place(d[m], model, PrefersSmart(model, prompt))
                             < Place(d[n], model, PrefersSmart(model, prompt))
             /\ model \notin Presets /\ Owner(model) \in registered => d # <<>> /\ d[1] = top
<1> DEFINE smartFirst == PrefersSmart(model, prompt)
           top == Candidate(Owner(model), model)
           lead == Leader(registered, model)
           pools == Pools(registered, smartFirst)
           all == Tiers(smartFirst)
           list == lead \o pools
           d == DynamicChain(registered, model, prompt)
<1>1. smartFirst \in BOOLEAN
  BY DEF PrefersSmart
<1>2. /\ lead \in Seq(Menu(model))
      /\ model \notin Presets /\ Owner(model) \in registered => lead = <<top>> /\ Len(lead) = 1
      /\ ~(model \notin Presets /\ Owner(model) \in registered) => lead = <<>> /\ Len(lead) = 0
      /\ Len(lead) \in {0, 1} /\ (Len(lead) = 1 => lead[1] = top /\ Owner(model) \in registered)
  <2>1. CASE model \notin Presets /\ Owner(model) \in registered
    <3>1. lead = <<top>> /\ top \in Menu(model)
      BY <2>1 DEF Leader, Menu
    <3> HIDE DEF top, lead
    <3> QED
      BY <2>1, <3>1
  <2>2. CASE ~(model \notin Presets /\ Owner(model) \in registered)
    <3>1. lead = <<>>
      BY <2>2 DEF Leader
    <3> HIDE DEF top, lead
    <3> QED
      BY <2>2, <3>1
  <2> QED
    BY <2>1, <2>2
<1>3. d = deduplicateCandidates(list)
  BY DEF DynamicChain
<1>4. top.provider = Owner(model) /\ top.model = model
  BY DEF Candidate
<1> HIDE DEF smartFirst, top, lead, d
<1>5. /\ pools \in Seq(Menu(model))
      /\ \E w : Selects(w, pools, all)
      /\ \A n \in 1 .. Len(pools) : pools[n].provider \in registered
      /\ \A c \in ToSet(FastModels) \cup ToSet(SmartModels) :
           c.provider \in registered => \E n \in 1 .. Len(pools) : pools[n] = c
  BY <1>1, PoolsSelect
<1>6. PICK w : Selects(w, pools, all)
  BY <1>5
<1>7. /\ Len(all) = 6
      /\ \A i, j \in 1 .. 6 : all[i] = all[j] => i = j
      /\ \A i \in 1 .. 6 : all[i].model \notin Presets
  BY <1>1, TiersDiffer
<1> HIDE DEF pools, all
<1>8. /\ list \in Seq(Menu(model))
      /\ Len(list) = Len(lead) + Len(pools) /\ Len(pools) \in Nat
      /\ \A n \in 1 .. Len(lead) : list[n] = lead[n]
      /\ \A n \in 1 .. Len(pools) : list[n + Len(lead)] = pools[n]
  BY <1>2, <1>5, Concatenation
<1> HIDE DEF list
<1>9. /\ d \in Seq(Menu(model))
      /\ \A i \in 1 .. Len(list) : \E n \in 1 .. Len(d) : d[n] = list[i]
      /\ \E p : /\ Selects(p, d, list)
                /\ \A n \in 1 .. Len(d), j \in 1 .. Len(list) : j < p[n] => list[j] # d[n]
  <2>1. /\ deduplicateCandidates(list) \in Seq(Menu(model))
        /\ \A i \in 1 .. Len(list) :
             \E n \in 1 .. Len(deduplicateCandidates(list)) : deduplicateCandidates(list)[n] = list[i]
        /\ \E p : /\ Selects(p, deduplicateCandidates(list), list)
                  /\ \A n \in 1 .. Len(deduplicateCandidates(list)), j \in 1 .. Len(list) :
                       j < p[n] => list[j] # deduplicateCandidates(list)[n]
    BY <1>8, FirstStay, Zenon
  <2> QED
    BY <1>3, <2>1
<1>10. PICK p : /\ Selects(p, d, list)
                /\ \A n \in 1 .. Len(d), j \in 1 .. Len(list) : j < p[n] => list[j] # d[n]
  BY <1>9
<1>11. \A i \in 1 .. Len(list) : \/ i = 1 /\ Len(lead) = 1
                                 \/ i - Len(lead) \in 1 .. Len(pools) /\ i = (i - Len(lead)) + Len(lead)
  BY <1>2, <1>8, SMTT(30)
\* Nothing outside the registry.
<1>12. \A n \in 1 .. Len(d) : d[n].provider \in registered
  <2>1. ASSUME NEW i \in 1 .. Len(list) PROVE list[i].provider \in registered
    <3>1. CASE i = 1 /\ Len(lead) = 1
      BY <1>2, <1>4, <1>8, <3>1
    <3>2. CASE i - Len(lead) \in 1 .. Len(pools) /\ i = (i - Len(lead)) + Len(lead)
      <4>1. list[i] = pools[i - Len(lead)] /\ pools[i - Len(lead)].provider \in registered
        BY <1>5, <1>8, <3>2
      <4> QED
        BY <4>1
    <3> QED
      BY <1>11, <3>1, <3>2
  <2> QED
    BY <1>10, <2>1 DEF Selects
\* Everything registered.
<1>13. ASSUME NEW c \in ToSet(FastModels) \cup ToSet(SmartModels), c.provider \in registered
       PROVE  \E n \in 1 .. Len(d) : d[n] = c
  <2>1. PICK n \in 1 .. Len(pools) : pools[n] = c
    BY <1>5, <1>13
  <2>2. n + Len(lead) \in 1 .. Len(list) /\ list[n + Len(lead)] = c
    BY <1>2, <1>8, <2>1
  <2> QED
    BY <1>9, <2>2
\* The named model first.
<1>14. ASSUME model \notin Presets, Owner(model) \in registered
       PROVE  d # <<>> /\ d[1] = top
  <2>0. Len(lead) = 1 /\ lead[1] = top
    BY <1>2, <1>14
  <2>1. Len(lead) = 1 /\ 1 \in 1 .. Len(list) /\ list[1] = top
    BY <1>8, <2>0
  <2>2. PICK n \in 1 .. Len(d) : d[n] = top
    BY <1>9, <2>1
  <2>3. p[n] \in 1 .. Len(list) /\ ~(1 < p[n])
    BY <1>10, <2>1, <2>2 DEF Selects
  <2>4. 1 \in 1 .. Len(d) /\ p[1] \in 1 .. Len(list) /\ (1 < n => p[1] < p[n])
    BY <1>9, <1>10, <2>2 DEF Selects
  <2>5. n = 1
    BY <1>9, <2>2, <2>3, <2>4
  <2> QED
    BY <1>9, <2>2, <2>4, <2>5
\* Ranks.  Who is not asked for is ranked by the tiers.
<1>15. ASSUME NEW n \in 1 .. 6, all[n] # top
       PROVE  Place(all[n], model, smartFirst) = n
  BY <1>7, <1>15 DEF Place, top, all
\* An element of the pools is asked for only if it leads the chain.
<1>16. ASSUME NEW n \in 1 .. Len(pools), pools[n] = top PROVE Len(lead) = 1
  <2>1. w[n] \in 1 .. 6 /\ pools[n] = all[w[n]]
    BY <1>6, <1>7 DEF Selects
  <2>2. model \notin Presets
    BY <1>4, <1>7, <1>16, <2>1
  <2>3. Owner(model) \in registered
    BY <1>4, <1>5, <1>16
  <2> QED
    BY <1>2, <2>2, <2>3
<1>17. ASSUME NEW n \in 1 .. Len(d)
       PROVE  \/ p[n] = 1 /\ Len(lead) = 1 /\ Place(d[n], model, smartFirst) = 0
              \/ /\ p[n] - Len(lead) \in 1 .. Len(pools)
                 /\ Place(d[n], model, smartFirst) = w[p[n] - Len(lead)]
                 /\ w[p[n] - Len(lead)] \in 1 .. 6
  <2>1. p[n] \in 1 .. Len(list) /\ d[n] = list[p[n]]
    BY <1>10 DEF Selects
  <2>2. CASE p[n] = 1 /\ Len(lead) = 1
    <3>1. d[n] = top
      BY <1>2, <1>8, <2>1, <2>2
    <3> QED
      BY <2>2, <3>1 DEF Place, top
  <2>3. CASE p[n] - Len(lead) \in 1 .. Len(pools) /\ p[n] = (p[n] - Len(lead)) + Len(lead)
    <3> DEFINE k == p[n] - Len(lead)
    <3>1. k \in 1 .. Len(pools) /\ d[n] = pools[k]
      BY <1>8, <2>1, <2>3
    <3>2. w[k] \in 1 .. 6 /\ pools[k] = all[w[k]]
      BY <1>6, <1>7, <3>1 DEF Selects
    <3>3. d[n] # top
      <4>1. ASSUME d[n] = top PROVE FALSE
        <5>1. Len(lead) = 1
          BY <1>16, <3>1, <4>1
        <5>2. 1 \in 1 .. Len(list) /\ list[1] = top /\ 1 < p[n]
          BY <1>2, <1>8, <2>1, <2>3, <5>1
        <5> QED
          BY <1>10, <4>1, <5>2
      <4> QED
        BY <4>1
    <3>4. Place(d[n], model, smartFirst) = w[k]
      BY <1>15, <3>1, <3>2, <3>3
    <3> QED
      BY <3>1, <3>2, <3>4
  <2> QED
    BY <1>11, <2>1, <2>2, <2>3
<1>18. ASSUME NEW m \in 1 .. Len(d), NEW n \in 1 .. Len(d), m < n
       PROVE  Place(d[m], model, smartFirst) < Place(d[n], model, smartFirst)
  <2>1. p[m] \in 1 .. Len(list) /\ p[n] \in 1 .. Len(list) /\ p[m] < p[n]
    BY <1>10, <1>18 DEF Selects
  <2> QED
    BY <1>2, <1>6, <1>8, <1>17, <2>1, SMTT(30) DEF Selects
<1> QED
  BY <1>9, <1>12, <1>13, <1>14, <1>18 DEF d, top, smartFirst
-----------------------------------------------------------------------------
(* Chains of a policy, and all that RoutePlan may return.                  *)

\* For every registry and policy: the policy's chain is its registered part,
\* and starts with its first registered candidate.
LEMMA PolicyChainIsSound ==
  ASSUME NEW S, NEW registered, NEW policy \in Seq(S)
  PROVE  LET d == PolicyChain(registered, policy)
         IN  /\ d \in Seq(S)
             /\ \A n \in 1 .. Len(d) : d[n].provider \in registered
             /\ d # <<>> => \E n \in 1 .. Len(policy) :
                              /\ d[1] = policy[n]
                              /\ \A k \in 1 .. n - 1 : policy[k].provider \notin registered
<1> DEFINE d == PolicyChain(registered, policy)
<1>1. /\ d \in Seq(S)
      /\ \A n \in 1 .. Len(d) : d[n].provider \in registered
      /\ \E p : /\ Selects(p, d, policy)
                /\ \A i \in 1 .. Len(policy) :
                     policy[i].provider \in registered => \E n \in 1 .. Len(d) : p[n] = i
  <2>1. d = OfRegistered(policy, registered)
    BY DEF PolicyChain
  <2> HIDE DEF d
  <2> QED
    BY <2>1, RegisteredStay
<1> HIDE DEF d
<1>2. PICK p : /\ Selects(p, d, policy)
               /\ \A i \in 1 .. Len(policy) :
                    policy[i].provider \in registered => \E n \in 1 .. Len(d) : p[n] = i
  BY <1>1
<1>3. ASSUME d # <<>>
      PROVE  \E n \in 1 .. Len(policy) :
               /\ d[1] = policy[n]
               /\ \A k \in 1 .. n - 1 : policy[k].provider \notin registered
  <2>1. 1 \in 1 .. Len(d) /\ Len(d) \in Nat /\ Len(policy) \in Nat
    BY <1>1, <1>3
  <2>2. p[1] \in 1 .. Len(policy) /\ d[1] = policy[p[1]]
    BY <1>2, <2>1 DEF Selects
  <2>3. ASSUME NEW k \in 1 .. p[1] - 1, policy[k].provider \in registered PROVE FALSE
    <3>1. k \in 1 .. Len(policy) /\ k < p[1]
      BY <2>1, <2>2
    <3>2. PICK n \in 1 .. Len(d) : p[n] = k
      BY <1>2, <2>3, <3>1
    <3>3. n = 1 \/ 1 < n
      BY <2>1
    <3>4. 1 < n => p[1] < p[n]
      BY <1>2, <2>1 DEF Selects
    <3> QED
      BY <2>2, <3>1, <3>2, <3>3, <3>4
  <2> QED
    BY <2>2, <2>3
<1> QED
  BY <1>1, <1>3 DEF d

\* RoutePlan fails only when nothing is registered, and what it returns is
\* never empty: the assumption ChatGateway makes of its plans.
THEOREM PlansAreServable ==
  ASSUME NEW S, NEW registered, NEW policy \in Seq(S), NEW model, NEW prompt
  PROVE  /\ RoutePlans(registered, policy, model, prompt) = {} <=> registered = {}
         /\ \A plan \in RoutePlans(registered, policy, model, prompt) :
              /\ plan \in Seq(S \cup Menu(model) \cup {Candidate(p, "gemini-3.6-flash") : p \in registered})
              /\ plan # <<>>
              /\ \A n \in 1 .. Len(plan) : plan[n].provider \in registered
<1> DEFINE C == S \cup Menu(model) \cup {Candidate(p, "gemini-3.6-flash") : p \in registered}
           dynamic == DynamicChain(registered, model, prompt)
           chosen == PolicyChain(registered, policy)
           plans == RoutePlans(registered, policy, model, prompt)
<1>1. CASE registered = {}
  BY <1>1 DEF RoutePlans
<1>2. CASE registered # {} /\ chosen # <<>>
  <2>1. plans = {chosen}
    BY <1>2 DEF RoutePlans
  <2>2. chosen \in Seq(S) /\ \A n \in 1 .. Len(chosen) : chosen[n].provider \in registered
    BY PolicyChainIsSound
  <2> HIDE DEF chosen, plans
  <2>3. chosen \in Seq(C)
    BY <2>2
  <2> QED
    BY <1>2, <2>1, <2>2, <2>3 DEF plans
<1>3. CASE registered # {} /\ chosen = <<>> /\ dynamic # <<>>
  <2>1. plans = {dynamic}
    BY <1>3 DEF RoutePlans
  <2>2. dynamic \in Seq(Menu(model)) /\ \A n \in 1 .. Len(dynamic) : dynamic[n].provider \in registered
    BY DynamicChainIsSound
  <2> HIDE DEF dynamic, plans
  <2>3. dynamic \in Seq(C)
    BY <2>2
  <2> QED
    BY <1>3, <2>1, <2>2, <2>3 DEF plans
<1>4. CASE registered # {} /\ chosen = <<>> /\ dynamic = <<>>
  <2>1. plans = {<<Candidate(p, "gemini-3.6-flash")>> : p \in registered}
    BY <1>4 DEF RoutePlans
  <2>2. ASSUME NEW p \in registered
        PROVE  /\ <<Candidate(p, "gemini-3.6-flash")>> \in Seq(C)
               /\ <<Candidate(p, "gemini-3.6-flash")>> # <<>>
               /\ \A n \in 1 .. Len(<<Candidate(p, "gemini-3.6-flash")>>) :
                    <<Candidate(p, "gemini-3.6-flash")>>[n].provider \in registered
    <3>1. Candidate(p, "gemini-3.6-flash") \in C
      OBVIOUS
    <3>2. Candidate(p, "gemini-3.6-flash").provider = p
      BY DEF Candidate
    <3> HIDE DEF C
    <3> QED
      BY <3>1, <3>2
  <2> HIDE DEF plans, C
  <2> QED
    BY <1>4, <2>1, <2>2 DEF plans, C
<1> QED
  BY <1>1, <1>2, <1>3, <1>4

-----------------------------------------------------------------------------
(* The instance MCRouting.                                                 *)

\* An answer is one RoutePlan may give to the input.
Answered ==
  /\ input.policy \in Seq([provider : Providers \cup {"deepseek"}, model : PolicyModels])
  /\ answer \in {"none", "plan", "error"}
  /\ Planned => chain \in RoutePlans(input.registered, input.policy, input.model, input.prompt)

LEMMA AnsweredInv == Spec => []Answered
<1>1. Init => Answered
  <2> SUFFICES ASSUME Init PROVE Answered
    OBVIOUS
  <2>1. input.policy \in Policies /\ answer = "none"
    BY DEF Init
  <2>2. PICK m \in 0 .. MaxPolicy :
          input.policy \in [1 .. m -> [provider : Providers \cup {"deepseek"}, model : PolicyModels]]
    BY <2>1 DEF Policies, SeqOf
  <2>3. m \in Nat
    BY MaxPolicyAssumption, <2>2
  <2> DEFINE T == [provider : Providers \cup {"deepseek"}, model : PolicyModels]
  <2>4. ASSUME NEW f \in [1 .. m -> T] PROVE f \in Seq(T)
    <3> HIDE DEF T
    <3> QED
      BY <2>3
  <2>5. input.policy \in Seq(T)
    BY <2>2, <2>4
  <2> QED
    BY <2>1, <2>5 DEF Answered, Planned
<1>2. Answered /\ [Plan]_<<input, answer, chain>> => Answered'
  <2> SUFFICES ASSUME Answered, [Plan]_<<input, answer, chain>> PROVE Answered'
    OBVIOUS
  <2>1. CASE Plan
    BY <2>1 DEF Plan, Answered, Planned
  <2>2. CASE UNCHANGED <<input, answer, chain>>
    BY <2>2 DEF Answered, Planned
  <2> QED
    BY <2>1, <2>2
<1> QED
  BY <1>1, <1>2, PTL DEF Spec

\* What the engine's answer holds of its input: the properties' common basis.
LEMMA AnswerIsSound ==
  ASSUME Answered, Planned
  PROVE  /\ \A n \in DOMAIN chain : chain[n].provider \in input.registered
         /\ \A n \in 1 .. Len(chain) : chain[n].provider \in input.registered
         /\ Len(chain) \in Nat /\ DOMAIN chain = 1 .. Len(chain)
         /\ ~Dynamic => chain = PolicyChain(input.registered, input.policy)
         /\ Dynamic => \/ chain = DynamicChain(input.registered, input.model, input.prompt)
                       \/ /\ DynamicChain(input.registered, input.model, input.prompt) = <<>>
                          /\ Len(chain) = 1
<1> DEFINE T == [provider : Providers \cup {"deepseek"}, model : PolicyModels]
           C == T \cup Menu(input.model)
                  \cup {Candidate(p, "gemini-3.6-flash") : p \in input.registered}
           dynamic == DynamicChain(input.registered, input.model, input.prompt)
           chosen == PolicyChain(input.registered, input.policy)
           plans == RoutePlans(input.registered, input.policy, input.model, input.prompt)
<1>1. input.policy \in Seq(T) /\ chain \in plans
  BY DEF Answered
<1>2. /\ chain \in Seq(C) /\ \A n \in 1 .. Len(chain) : chain[n].provider \in input.registered
      /\ input.registered # {}
  <2> HIDE DEF T
  <2>1. /\ plans = {} <=> input.registered = {}
        /\ \A plan \in plans :
             /\ plan \in Seq(C)
             /\ plan # <<>>
             /\ \A n \in 1 .. Len(plan) : plan[n].provider \in input.registered
    BY <1>1, PlansAreServable, Zenon
  <2> HIDE DEF C, plans
  <2> QED
    BY <1>1, <2>1
<1>3. Len(chain) \in Nat /\ DOMAIN chain = 1 .. Len(chain)
  <2> HIDE DEF C
  <2> QED
    BY <1>2
<1>4. CASE chosen # <<>>
  BY <1>1, <1>2, <1>3, <1>4 DEF RoutePlans, Dynamic
<1>5. CASE chosen = <<>> /\ dynamic # <<>>
  <2>1. chain = dynamic
    BY <1>1, <1>2, <1>5 DEF RoutePlans
  <2> HIDE DEF dynamic
  <2> QED
    BY <1>2, <1>3, <1>5, <2>1 DEF Dynamic, dynamic
<1>6. CASE chosen = <<>> /\ dynamic = <<>>
  <2>1. chain \in {<<Candidate(p, "gemini-3.6-flash")>> : p \in input.registered}
    BY <1>1, <1>2, <1>6 DEF RoutePlans
  <2>2. Len(chain) = 1
    BY <2>1
  <2> HIDE DEF dynamic
  <2> QED
    BY <1>2, <1>3, <1>6, <2>2 DEF Dynamic, dynamic
<1> QED
  BY <1>4, <1>5, <1>6

\* The reference's notion of a request that suits the smart tier is the
\* engine's.
LEMMA SuitsIsPrefers == SmartSuits <=> PrefersSmart(input.model, input.prompt)
BY Complexity DEF SmartSuits, PrefersSmart

\* Failover can reach every registered provider in both tiers, and nothing
\* outside the registry is called, for any registry, policy and request.
THEOREM ChainsAreComplete == Spec => []ChainIsComplete
<1>1. Answered => ChainIsComplete
  <2> SUFFICES ASSUME Answered, Planned PROVE ChainIsComplete
    BY DEF ChainIsComplete, Dynamic
  <2> DEFINE dynamic == DynamicChain(input.registered, input.model, input.prompt)
  <2>1. \A n \in 1 .. Len(chain) : chain[n].provider \in input.registered
    BY AnswerIsSound
  <2>2. /\ dynamic \in Seq(Menu(input.model))
        /\ \A c \in ToSet(FastModels) \cup ToSet(SmartModels) :
             c.provider \in input.registered => \E n \in 1 .. Len(dynamic) : dynamic[n] = c
    BY DynamicChainIsSound
  <2>3. Dynamic => chain = dynamic \/ dynamic = <<>>
    BY AnswerIsSound
  <2> HIDE DEF dynamic
  <2>4. ASSUME Dynamic, NEW c \in ToSet(FastModels) \cup ToSet(SmartModels),
               c.provider \in input.registered
        PROVE  c \in ToSet(chain)
    <3>1. PICK n \in 1 .. Len(dynamic) : dynamic[n] = c
      BY <2>2, <2>4
    <3>2. dynamic # <<>> /\ n \in DOMAIN dynamic
      BY <2>2, <3>1
    <3> QED
      BY <2>3, <2>4, <3>1, <3>2 DEF ToSet
  <2> QED
    BY <2>1, <2>4 DEF ChainIsComplete
<1> QED
  BY <1>1, AnsweredInv, PTL

\* A dynamic chain goes down the order of preference without repetition, for
\* any registry and request.
THEOREM ChainsAreRanked == Spec => []ChainIsRanked
<1>1. Answered => ChainIsRanked
  <2> SUFFICES ASSUME Answered, Dynamic,
                      NEW i \in 1 .. Len(chain), NEW j \in 1 .. Len(chain), i < j
               PROVE  Rank(chain[i]) < Rank(chain[j])
    BY DEF ChainIsRanked
  <2> DEFINE smartFirst == PrefersSmart(input.model, input.prompt)
             dynamic == DynamicChain(input.registered, input.model, input.prompt)
  <2>1. \A c : Rank(c) = Place(c, input.model, smartFirst)
    <3>1. Tiers(smartFirst) = Preferred \o CrossTier
      BY SuitsIsPrefers DEF Tiers, Preferred, CrossTier
    <3> HIDE DEF smartFirst
    <3> QED
      BY <3>1 DEF Rank, Place, IsRequested
  <2>2. Planned
    BY DEF Dynamic
  <2>3. Len(chain) \in Nat /\ (chain = dynamic \/ Len(chain) = 1)
    BY <2>2, AnswerIsSound
  <2>4. \A m, n \in 1 .. Len(dynamic) :
          m < n => Place(dynamic[m], input.model, smartFirst) < Place(dynamic[n], input.model, smartFirst)
    BY DynamicChainIsSound
  <2> HIDE DEF dynamic, smartFirst
  <2>5. Len(chain) # 1
    <3>1. ASSUME NEW l \in Nat, NEW m \in 1 .. l, NEW n \in 1 .. l, m < n PROVE l # 1
      BY <3>1
    <3> QED
      BY <2>3, <3>1
  <2> QED
    BY <2>1, <2>3, <2>4, <2>5
<1> QED
  BY <1>1, AnsweredInv, PTL

\* A chain starts with what was asked for whenever it can be had, for any
\* registry, policy and request.
THEOREM RequestsAreHonoured == Spec => []RequestIsHonoured
<1>1. Answered => RequestIsHonoured
  <2> SUFFICES ASSUME Answered, Planned PROVE RequestIsHonoured
    BY DEF RequestIsHonoured
  <2> DEFINE dynamic == DynamicChain(input.registered, input.model, input.prompt)
             chosen == PolicyChain(input.registered, input.policy)
             T == [provider : Providers \cup {"deepseek"}, model : PolicyModels]
  <2>1. input.policy \in Seq(T)
    BY DEF Answered
  <2>2. chosen # <<>> => \E n \in 1 .. Len(input.policy) :
                           /\ chosen[1] = input.policy[n]
                           /\ \A k \in 1 .. n - 1 : input.policy[k].provider \notin input.registered
    <3> HIDE DEF T
    <3> QED
      BY <2>1, PolicyChainIsSound
  <2>3. ~Dynamic => chosen # <<>> /\ chain = chosen
    BY AnswerIsSound DEF Dynamic
  <2>4. input.model \notin Presets /\ Owner(input.model) \in input.registered
          => dynamic # <<>> /\ dynamic[1] = Candidate(Owner(input.model), input.model)
    BY DynamicChainIsSound
  <2>5. Dynamic => chain = dynamic \/ dynamic = <<>>
    BY AnswerIsSound
  <2> HIDE DEF dynamic, chosen
  <2> QED
    BY <2>2, <2>3, <2>4, <2>5 DEF RequestIsHonoured, IsRequested
<1> QED
  BY <1>1, AnsweredInv, PTL
=============================================================================
