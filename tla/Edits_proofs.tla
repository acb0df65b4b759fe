---------------------------- MODULE Edits_proofs ----------------------------
(***************************************************************************)
(* For any dependencies, rules, groups and selections: no update is        *)
(* offered without its family, against a rule, or beside a hidden failure. *)
(* For any manifest, too: what the offered updates make of it is itself    *)
(* with the approved edits and nothing else changed, and it is refused     *)
(* only when an edit cannot be made or two overlap.                        *)
(***************************************************************************)
EXTENDS Edits, FiniteSetTheorems, SequenceTheorems, WellFoundedInduction, TLAPS

-----------------------------------------------------------------------------
(* Numbers                                                                  *)

\* There is a least one among numbers, and a greatest among finitely many.
LEMMA LeastOK ==
  ASSUME NEW S \in SUBSET Nat, S # {}
  PROVE  Min(S) \in S /\ \A y \in S : Min(S) <= y
<1> DEFINE Below == OpToRel(<, Nat)
<1>1. IsWellFoundedOn(Below, Nat) /\ \A x, y \in Nat : <<y, x>> \in Below <=> y < x
  BY NatLessThanWellFounded DEF OpToRel
<1> HIDE DEF Below
<1>2. PICK x \in S : \A y \in S : ~ (<<y, x>> \in Below)
  BY <1>1, WFMin
<1>3. ASSUME NEW y \in S PROVE x <= y
  <2>1. x \in Nat /\ y \in Nat OBVIOUS
  <2>2. ~(y < x) BY <1>1, <1>2, <2>1
  <2> QED BY <2>1, <2>2
<1> QED BY <1>3 DEF Min

LEMMA GreatestOK ==
  ASSUME NEW n \in Nat, NEW S \in SUBSET (0..n), S # {}
  PROVE  Max(S) \in S /\ \A y \in S : y <= Max(S)
<1> DEFINE T == {n - r : r \in S}
<1>1. T \in SUBSET Nat /\ T # {}
  <2>1. \A r \in S : n - r \in Nat OBVIOUS
  <2>2. PICK r \in S : TRUE OBVIOUS
  <2>3. n - r \in T BY <2>2
  <2> QED BY <2>1, <2>3
<1>2. Min(T) \in T /\ \A y \in T : Min(T) <= y
  <2> HIDE DEF T
  <2> QED BY <1>1, LeastOK
<1>3. PICK r \in S : Min(T) = n - r
  BY <1>2
<1>4. ASSUME NEW y \in S PROVE y <= r
  <2>1. n - y \in T OBVIOUS
  <2>2. n - r <= n - y BY <1>2, <1>3, <2>1
  <2> QED BY <2>2
<1>5. \A y \in S : r >= y
  BY <1>4
<1>6. /\ Max(S) \in S /\ \A y \in S : Max(S) >= y
  BY <1>5 DEF Max
<1> QED BY <1>6

\* A set that has 0, and each number after one of its own, has them all.  (The
\* library's theorems of induction take a property, an operator, which no backend
\* can instantiate; a set does as well.)
LEMMA Induction ==
  ASSUME NEW n \in Nat, NEW S, 0 \in S,
         \A k \in 1..n : k - 1 \in S => k \in S
  PROVE  0..n \subseteq S
<1> DEFINE T == {k \in 0..n : k \notin S}
           x == Min(T)
<1>1. SUFFICES ASSUME T # {} PROVE FALSE
  OBVIOUS
<1>2. x \in T /\ \A y \in T : x <= y
  <2>1. T \in SUBSET Nat OBVIOUS
  <2> HIDE DEF T
  <2> QED BY <1>1, <2>1, LeastOK
<1> HIDE DEF x
<1>3. x \in 1..n /\ x - 1 \in 0..n /\ ~(x <= x - 1)
  BY <1>2
<1>4. x - 1 \in S
  BY <1>2, <1>3
<1> QED BY <1>2, <1>3, <1>4

\* f takes the value b at 0, and at k what G[k] makes of its value before.
Recursive(f, n, S, b, G) ==
  /\ f \in [0..n -> S] /\ f[0] = b
  /\ \A k \in 1..n : f[k] = G[k][f[k - 1]]

LEMMA Recursion ==
  ASSUME NEW n \in Nat, NEW S, NEW b \in S, NEW G \in [1..n -> [S -> S]]
  PROVE  \E f : Recursive(f, n, S, b, G)
<1> DEFINE T == {m \in 0..n : \E f : Recursive(f, m, S, b, G)}
<1>1. 0 \in T
  <2> DEFINE g == [k \in 0..0 |-> b]
  <2>1. g \in [0..0 -> S] /\ g[0] = b /\ \A k \in 1..0 : g[k] = G[k][g[k - 1]]
    OBVIOUS
  <2>2. Recursive(g, 0, S, b, G)
    <3> HIDE DEF g
    <3> QED BY <2>1 DEF Recursive
  <2> QED BY <2>2
<1>2. ASSUME NEW m \in 1..n, m - 1 \in T PROVE m \in T
  <2>1. PICK f : Recursive(f, m - 1, S, b, G)
    BY <1>2
  <2>7. f \in [0..(m - 1) -> S] /\ f[0] = b /\ \A k \in 1..(m - 1) : f[k] = G[k][f[k - 1]]
    BY <2>1 DEF Recursive
  <2> DEFINE g == [k \in 0..m |-> IF k = m THEN G[m][f[m - 1]] ELSE f[k]]
  <2>2. m \in Nat /\ m # 0 /\ m - 1 \in 0..(m - 1)
    OBVIOUS
  <2>3. g \in [0..m -> S]
    BY <2>7, <2>2
  <2>4. g[0] = b
    BY <2>7, <2>2
  <2>5. ASSUME NEW k \in 1..m PROVE g[k] = G[k][g[k - 1]]
    <3>1. CASE k = m BY <2>2, <3>1
    <3>2. CASE k # m
      <4>1. k \in 1..(m - 1) /\ k - 1 # m /\ k - 1 \in 0..m /\ k \in 0..m
        BY <2>2, <3>2
      <4> QED BY <2>7, <3>2, <4>1
    <3> QED BY <3>1, <3>2
  <2>6. Recursive(g, m, S, b, G)
    <3> HIDE DEF g
    <3> QED BY <2>3, <2>4, <2>5 DEF Recursive
  <2> QED BY <2>6
<1>3. 0..n \subseteq T
  <2> HIDE DEF T
  <2> QED BY <1>1, <1>2, Induction
<1> QED BY <1>3

-----------------------------------------------------------------------------
(* Joined texts                                                             *)

\* F[k] is what the first k texts of the list f make when joined.
Flattens(F, f, n, S) ==
  /\ F \in [0..n -> Seq(S)] /\ F[0] = <<>>
  /\ \A k \in 1..n : F[k] = F[k - 1] \o f[k]

\* What parts of two such lists may have in common, and of one with a text.
SharedRest(F, G, q, n, S) == \E X \in Seq(S) : F[n] = F[q] \o X /\ G[n] = G[q] \o X
Unmoved(F, a, b) == F[b] = F[a]
Silent(f, from, to) == \A k \in (from + 1)..to : f[k] = <<>>
Alike(f, g, from, to) == \A k \in (from + 1)..to : f[k] = g[k]
Opened(F, text, b) == F[b] = SubSeq(text, 1, b)
Copies(f, text, to) == \A k \in 1..to : f[k] = <<text[k]>>

\* What FlattenSeq joins, one text after the other.
LEMMA Flattening ==
  ASSUME NEW n \in Nat, NEW S, NEW f \in [1..n -> Seq(S)]
  PROVE  \E F : Flattens(F, f, n, S) /\ FlattenSeq(f) = F[n]
<1> DEFINE G == [k \in 1..n |-> [s \in Seq(S) |-> s \o f[k]]]
<1>1. <<>> \in Seq(S)
  OBVIOUS
<1>2. G \in [1..n -> [Seq(S) -> Seq(S)]]
  <2>1. \A k \in 1..n : \A s \in Seq(S) : s \o f[k] \in Seq(S)
    BY ConcatProperties
  <2> QED BY <2>1
<1>3. PICK F : Recursive(F, n, Seq(S), <<>>, G)
  <2> DEFINE T == Seq(S)
             e == <<>>
  <2>1. e \in T /\ G \in [1..n -> [T -> T]]
    BY <1>1, <1>2
  <2> HIDE DEF G, T, e
  <2>2. \E F : Recursive(F, n, T, e, G)
    BY <2>1, Recursion
  <2> QED BY <2>2 DEF T, e
<1>4. Flattens(F, f, n, S)
  <2>1. ASSUME NEW k \in 1..n PROVE F[k] = F[k - 1] \o f[k]
    <3>1. k - 1 \in 0..n OBVIOUS
    <3>2. F[k - 1] \in Seq(S) BY <1>3, <3>1 DEF Recursive
    <3> QED BY <1>3, <3>2 DEF Recursive
  <2> QED BY <1>3, <2>1 DEF Flattens, Recursive
<1>5. f \in Seq(Seq(S)) /\ Len(f) = n
  OBVIOUS
<1>6. FlattenSeq(f) = F[n]
  <2>1. CASE n = 0
    <3>1. f = <<>> BY <1>5, <2>1
    <3> QED BY <1>4, <1>5, <2>1, <3>1 DEF FlattenSeq, Flattens
  <2>2. CASE n # 0
    <3> DEFINE Def(g) == [i \in 1..n |-> IF i = 1 THEN f[i] ELSE g[i - 1] \o f[i]]
               h == [i \in 1..n |-> F[i]]
               flat == CHOOSE g : g = Def(g)
    <3>1. FlattenSeq(f) = flat[n]
      BY <1>5, <2>2 DEF FlattenSeq
    <3>2. h = Def(h)
      <4>1. ASSUME NEW i \in 1..n
            PROVE  h[i] = IF i = 1 THEN f[i] ELSE h[i - 1] \o f[i]
        <5>1. CASE i = 1
          <6>1. F[i] = F[0] \o f[i] /\ f[i] \in Seq(S)
            <7>1. F[i] = F[i - 1] \o f[i]
              BY <1>4 DEF Flattens
            <7>2. i - 1 = 0
              BY <5>1
            <7> QED BY <7>1, <7>2
          <6>2. F[i] = f[i]
            BY <1>4, <6>1, ConcatEmptySeq DEF Flattens
          <6> QED BY <5>1, <6>2
        <5>2. CASE i # 1
          <6>1. i - 1 \in 1..n BY <5>2
          <6> QED BY <1>4, <5>2, <6>1 DEF Flattens
        <5> QED BY <5>1, <5>2
      <4> HIDE DEF h
      <4> QED BY <4>1 DEF h
    <3>3. flat = Def(flat)
      <4> HIDE DEF h, Def
      <4> QED BY <3>2
    <3>4. ASSUME NEW i \in 1..n
          PROVE  flat[i] = IF i = 1 THEN f[i] ELSE flat[i - 1] \o f[i]
      <4> HIDE DEF flat
      <4> QED BY <3>3
    <3>5. ASSUME NEW i \in 1..n
          PROVE  h[i] = IF i = 1 THEN f[i] ELSE h[i - 1] \o f[i]
      <4> HIDE DEF h
      <4> QED BY <3>2
    <3> DEFINE T == {i \in 0..n : i = 0 \/ flat[i] = h[i]}
    <3>6. 0 \in T /\ \A i \in 1..n : i - 1 \in T => i \in T
      <4> HIDE DEF flat, h
      <4> QED BY <3>4, <3>5
    <3>7. 0..n \subseteq T
      <4> HIDE DEF T
      <4> QED BY <3>6, Induction
    <3>8. n \in T /\ h[n] = F[n]
      <4>1. n \in 0..n /\ n \in 1..n BY <2>2
      <4> QED BY <3>7, <4>1
    <3> QED BY <2>2, <3>1, <3>8
  <2> QED BY <2>1, <2>2
<1> QED BY <1>4, <1>6

\* What follows the last place where two lists differ.
LEMMA SharedTail ==
  ASSUME NEW n \in Nat, NEW S, NEW f \in [1..n -> Seq(S)], NEW g \in [1..n -> Seq(S)],
         NEW F, NEW G, Flattens(F, f, n, S), Flattens(G, g, n, S),
         NEW q \in 0..n, Alike(f, g, q, n)
  PROVE  SharedRest(F, G, q, n, S)
<1> DEFINE Rest(m) == \E X \in Seq(S) : F[m] = F[q] \o X /\ G[m] = G[q] \o X
           T == {m \in 0..n : m >= q => Rest(m)}
<1>1. \A m \in 0..n : F[m] \in Seq(S) /\ G[m] \in Seq(S)
  BY DEF Flattens
<1>2. Rest(q)
  <2>1. F[q] = F[q] \o <<>> /\ G[q] = G[q] \o <<>>
    BY <1>1, ConcatEmptySeq
  <2> QED BY <2>1, EmptySeq
<1>3. ASSUME NEW m \in 1..n, m - 1 >= q, Rest(m - 1) PROVE Rest(m)
  <2>1. PICK X \in Seq(S) : F[m - 1] = F[q] \o X /\ G[m - 1] = G[q] \o X
    BY <1>3
  <2>2. F[m] = F[m - 1] \o f[m] /\ G[m] = G[m - 1] \o f[m] /\ f[m] \in Seq(S)
    <3>1. m \in (q + 1)..n BY <1>3
    <3> QED BY <3>1 DEF Flattens, Alike
  <2>3. F[q] \in Seq(S) /\ G[q] \in Seq(S) BY <1>1
  <2>4. F[m] = F[q] \o (X \o f[m]) /\ G[m] = G[q] \o (X \o f[m])
    <3>1. \A s, t, u \in Seq(S) : (s \o t) \o u = s \o (t \o u)
      BY ConcatAssociative
    <3>2. (F[q] \o X) \o f[m] = F[q] \o (X \o f[m])
      BY <3>1, <2>2, <2>3
    <3>3. (G[q] \o X) \o f[m] = G[q] \o (X \o f[m])
      BY <3>1, <2>2, <2>3
    <3> QED BY <3>2, <3>3, <2>1, <2>2
  <2>5. X \o f[m] \in Seq(S) BY <2>2, ConcatProperties
  <2> QED BY <2>4, <2>5
<1> HIDE DEF Rest
<1>4. 0 \in T
  BY <1>2
<1>5. ASSUME NEW m \in 1..n, m - 1 \in T PROVE m \in T
  <2>1. CASE m = q BY <1>2, <2>1
  <2>2. CASE m # q
    <3>1. m >= q => m - 1 >= q BY <2>2
    <3> QED BY <1>3, <1>5, <3>1
  <2> QED BY <2>1, <2>2
<1>6. 0..n \subseteq T
  <2> HIDE DEF T
  <2> QED BY <1>4, <1>5, Induction
<1>7. n \in T /\ n >= q
  BY <1>6
<1>8. Rest(n)
  BY <1>7
<1> QED BY <1>8 DEF Rest, SharedRest

\* A part of the list that adds nothing.
LEMMA SilentPart ==
  ASSUME NEW n \in Nat, NEW S, NEW f \in [1..n -> Seq(S)], NEW F, Flattens(F, f, n, S),
         NEW a \in 0..n, NEW b \in a..n, Silent(f, a, b)
  PROVE  Unmoved(F, a, b)
<1> DEFINE T == {m \in 0..n : m >= a /\ m <= b => F[m] = F[a]}
<1>1. 0 \in T
  OBVIOUS
<1>2. ASSUME NEW m \in 1..n, m - 1 \in T PROVE m \in T
  <2>1. CASE m = a BY <2>1
  <2>2. CASE m > a /\ m <= b
    <3>1. m \in (a + 1)..b /\ m - 1 \in 0..n /\ m - 1 >= a /\ m - 1 <= b
      BY <2>2
    <3>2. F[m] = F[m - 1] \o <<>> /\ F[m - 1] \in Seq(S)
      BY <3>1 DEF Flattens, Silent
    <3>3. F[m] = F[m - 1] BY <3>2, ConcatEmptySeq
    <3> QED BY <1>2, <3>1, <3>3
  <2> QED BY <2>1, <2>2
<1>3. 0..n \subseteq T
  <2> HIDE DEF T
  <2> QED BY <1>1, <1>2, Induction
<1>4. b \in T /\ b >= a /\ b <= b
  <2>1. b \in 0..n BY <1>3
  <2> QED BY <1>3, <2>1
<1> QED BY <1>4 DEF Unmoved

\* A list that begins with nothing.
LEMMA SilentStart ==
  ASSUME NEW n \in Nat, NEW S, NEW f \in [1..n -> Seq(S)], NEW F, Flattens(F, f, n, S),
         NEW b \in 0..n, Silent(f, 0, b)
  PROVE  F[b] = <<>>
<1>1. 0 \in 0..n /\ b \in 0..b OBVIOUS
<1>2. Unmoved(F, 0, b)
  BY <1>1, SilentPart
<1> QED BY <1>2 DEF Unmoved, Flattens

\* A part of the list that adds a text's own tokens.
LEMMA CopiedPart ==
  ASSUME NEW n \in Nat, NEW S, NEW f \in [1..n -> Seq(S)], NEW F, Flattens(F, f, n, S),
         NEW text \in Seq(S), NEW b \in 0..n, b <= Len(text),
         Copies(f, text, b)
  PROVE  Opened(F, text, b)
<1> DEFINE T == {m \in 0..n : m <= b => F[m] = SubSeq(text, 1, m)}
<1>1. 0 \in T
  <2>1. SubSeq(text, 1, 0) = <<>> BY SubSeqEmpty
  <2> QED BY <2>1 DEF Flattens
<1>2. ASSUME NEW m \in 1..n, m - 1 \in T PROVE m \in T
  <2>1. SUFFICES ASSUME m <= b PROVE F[m] = SubSeq(text, 1, m)
    OBVIOUS
  <2>2. m \in 1..Len(text) /\ 1 \in 1..Len(text) /\ m \in 1..b /\ m - 1 <= b
    BY <2>1
  <2>3. F[m] = SubSeq(text, 1, m - 1) \o <<text[m]>>
    BY <1>2, <2>2 DEF Flattens, Copies
  <2>4. SubSeq(text, 1, m) = SubSeq(text, 1, m - 1) \o <<text[m]>>
    BY <2>2, SubSeqRecursiveSecond
  <2> QED BY <2>3, <2>4
<1>3. 0..n \subseteq T
  <2> HIDE DEF T
  <2> QED BY <1>1, <1>2, Induction
<1>4. b \in T /\ b <= b
  <2>1. b \in 0..n OBVIOUS
  <2> QED BY <1>3, <2>1
<1> QED BY <1>4 DEF Opened

-----------------------------------------------------------------------------
(* What edits make of a text, position by position                          *)

\* What is known of a set of edits of a text, whoever asked for them.
Placed(l, edits) ==
  \A e \in edits :
    /\ e.start \in Nat /\ e.end \in Nat /\ e.start <= e.end /\ e.end <= Len(l.text)
    /\ e.of \in Deps /\ e.new \in Seq(Tokens)
    /\ e.old = Between(l.text, e.start, e.end)

\* What Together has for position k - 1, and what is inserted there by rank.
Piece(l, edits, rank, k) == Inserted(edits, rank, k - 1) \o Replaced(l, edits, k - 1)

Here(edits, rank, p, i) == {e \in edits : e.start = p /\ e.end = p /\ rank[e.of] = i}
Note(edits, rank, p, i) ==
  IF Here(edits, rank, p, i) = {} THEN <<>>
  ELSE (CHOOSE e \in Here(edits, rank, p, i) : TRUE).new
Notes(edits, rank, p) == [i \in 1..Cardinality(Deps) |-> Note(edits, rank, p, i)]

\* The ranks are numbers, and no two dependencies share one.
LEMMA RankType ==
  ASSUME NEW rank \in Ranks
  PROVE  /\ Cardinality(Deps) \in Nat /\ rank \in [Deps -> 1..Cardinality(Deps)]
         /\ \A d, f \in Deps : rank[d] = rank[f] => d = f
<1>1. Cardinality(Deps) \in Nat
  BY TokensAssumption, FS_CardinalityType
<1> QED BY <1>1 DEF Ranks, IsInjective

\* The insertions at a position are a text, none if no edit inserts there.
LEMMA InsertedIs ==
  ASSUME NEW edits, NEW rank \in Ranks, NEW l, Placed(l, edits), NEW p \in Nat
  PROVE  /\ Inserted(edits, rank, p) = FlattenSeq(Notes(edits, rank, p))
         /\ Notes(edits, rank, p) \in [1..Cardinality(Deps) -> Seq(Tokens)]
<1>1. Inserted(edits, rank, p) = FlattenSeq(Notes(edits, rank, p))
  BY DEF Inserted, Notes, Note, Here
<1>2. ASSUME NEW i \in 1..Cardinality(Deps) PROVE Note(edits, rank, p, i) \in Seq(Tokens)
  <2>1. CASE Here(edits, rank, p, i) = {}
    BY <2>1, EmptySeq DEF Note
  <2>2. CASE Here(edits, rank, p, i) # {}
    <3>1. (CHOOSE e \in Here(edits, rank, p, i) : TRUE) \in Here(edits, rank, p, i)
      BY <2>2
    <3>2. \A e \in Here(edits, rank, p, i) : e.new \in Seq(Tokens)
      BY DEF Here, Placed
    <3> QED BY <2>2, <3>1, <3>2 DEF Note
  <2> QED BY <2>1, <2>2
<1> QED BY <1>1, <1>2 DEF Notes

LEMMA InsertedType ==
  ASSUME NEW edits, NEW rank \in Ranks, NEW l, Placed(l, edits), NEW p \in Nat
  PROVE  Inserted(edits, rank, p) \in Seq(Tokens)
<1> DEFINE m == Cardinality(Deps)
           f == Notes(edits, rank, p)
<1>1. m \in Nat BY RankType
<1>2. Inserted(edits, rank, p) = FlattenSeq(f) /\ f \in [1..m -> Seq(Tokens)]
  BY InsertedIs
<1> HIDE DEF m, f
<1>3. PICK F : Flattens(F, f, m, Tokens) /\ FlattenSeq(f) = F[m]
  BY <1>1, <1>2, Flattening
<1> QED BY <1>1, <1>2, <1>3 DEF Flattens

LEMMA NoneInserted ==
  ASSUME NEW edits, NEW rank \in Ranks, NEW l, Placed(l, edits), NEW p \in Nat,
         \A e \in edits : ~(e.start = p /\ e.end = p)
  PROVE  Inserted(edits, rank, p) = <<>>
<1> DEFINE m == Cardinality(Deps)
           f == Notes(edits, rank, p)
<1>1. m \in Nat BY RankType
<1>2. Inserted(edits, rank, p) = FlattenSeq(f) /\ f \in [1..m -> Seq(Tokens)]
  BY InsertedIs
<1>4. Silent(f, 0, m)
  BY DEF Notes, Note, Here, Silent
<1> HIDE DEF m, f
<1>3. PICK F : Flattens(F, f, m, Tokens) /\ FlattenSeq(f) = F[m]
  BY <1>1, <1>2, Flattening
<1>5. F[m] = <<>>
  <2>1. m \in 0..m BY <1>1
  <2> QED BY <1>1, <1>2, <1>3, <1>4, <2>1, SilentStart
<1> QED BY <1>2, <1>3, <1>5

\* An edit that inserts at p before all that others insert there.
LEMMA InsertedFirst ==
  ASSUME NEW edits, NEW rank \in Ranks, NEW l, NEW e, Placed(l, edits), Placed(l, {e}),
         e.start = e.end,
         \A f \in edits : f.start = e.start /\ f.end = e.end => rank[e.of] < rank[f.of]
  PROVE  Inserted(edits \cup {e}, rank, e.start) = e.new \o Inserted(edits, rank, e.start)
<1> DEFINE m == Cardinality(Deps)
           p == e.start
           r == rank[e.of]
           more == edits \cup {e}
           a == Notes(edits, rank, p)
           b == Notes(more, rank, p)
<1>1. m \in Nat /\ p \in Nat /\ r \in 1..m /\ Placed(l, more) /\ e.new \in Seq(Tokens)
  BY RankType DEF Placed
<1>2. Inserted(edits, rank, p) = FlattenSeq(a) /\ a \in [1..m -> Seq(Tokens)]
  BY <1>1, InsertedIs
<1>3. Inserted(more, rank, p) = FlattenSeq(b) /\ b \in [1..m -> Seq(Tokens)]
  <2> HIDE DEF more
  <2> QED BY <1>1, InsertedIs
<1>4. \A i \in 1..m : i <= r => a[i] = <<>>
  <2>1. ASSUME NEW i \in 1..m, i <= r PROVE Here(edits, rank, p, i) = {}
    <3>1. ASSUME NEW f \in Here(edits, rank, p, i) PROVE FALSE
      <4>1. f \in edits /\ f.start = p /\ f.end = p /\ rank[f.of] = i
        BY DEF Here
      <4>2. r < i BY <4>1
      <4> QED BY <1>1, <2>1, <4>2
    <3> QED BY <3>1
  <2> QED BY <2>1 DEF Note, Notes
<1>5. \A i \in 1..m : i # r => b[i] = a[i]
  <2>1. ASSUME NEW i \in 1..m, i # r PROVE Here(more, rank, p, i) = Here(edits, rank, p, i)
    BY <2>1 DEF Here
  <2>2. ASSUME NEW i \in 1..m, i # r PROVE Note(more, rank, p, i) = Note(edits, rank, p, i)
    <3>1. Here(more, rank, p, i) = Here(edits, rank, p, i)
      BY <2>1, <2>2
    <3> HIDE DEF more, p, r
    <3> QED BY <3>1 DEF Note
  <2> HIDE DEF more, p, r
  <2> QED BY <2>2 DEF Notes
<1>6. b[r] = e.new
  <2>1. Here(edits, rank, p, r) = {}
    <3>1. ASSUME NEW f \in Here(edits, rank, p, r) PROVE FALSE
      <4>1. f \in edits /\ f.start = p /\ f.end = p /\ rank[f.of] = r
        BY DEF Here
      <4>2. r < r BY <4>1
      <4> QED BY <1>1, <4>2
    <3> QED BY <3>1
  <2>2. Here(more, rank, p, r) = {e}
    BY <2>1 DEF Here
  <2>3. Note(more, rank, p, r) = e.new
    <3> HIDE DEF more, p, r
    <3> QED BY <2>2 DEF Note
  <2> HIDE DEF more, p, r
  <2> QED BY <1>1, <2>3 DEF Notes
<1> HIDE DEF m, p, r, a, b
<1>7. PICK A : Flattens(A, a, m, Tokens) /\ FlattenSeq(a) = A[m]
  BY <1>1, <1>2, Flattening
<1>8. PICK B : Flattens(B, b, m, Tokens) /\ FlattenSeq(b) = B[m]
  BY <1>1, <1>3, Flattening
<1>9. r \in 0..m /\ r - 1 \in 0..m /\ r - 1 >= 0 /\ 0 \in 0..m /\ r \in 0..r
  BY <1>1
<1>10. A[r] = <<>>
  <2>1. Silent(a, 0, r)
    BY <1>1, <1>4 DEF Silent
  <2> QED BY <1>1, <1>2, <1>7, <1>9, <2>1, SilentStart
<1>11. B[r] = e.new
  <2>1. Silent(b, 0, r - 1)
    <3>1. ASSUME NEW k \in (0 + 1)..(r - 1) PROVE b[k] = <<>>
      <4>1. k \in 1..m /\ k <= r /\ k # r BY <1>1
      <4> QED BY <1>4, <1>5, <4>1
    <3> QED BY <3>1 DEF Silent
  <2>2. B[r - 1] = <<>>
    <3> DEFINE c == r - 1
    <3>1. c \in 0..m /\ Silent(b, 0, c) BY <1>9, <2>1
    <3> HIDE DEF c
    <3>2. B[c] = <<>>
      BY <1>1, <1>3, <1>8, <3>1, SilentStart
    <3> QED BY <3>2 DEF c
  <2>3. B[r] = B[r - 1] \o b[r]
    BY <1>1, <1>8 DEF Flattens
  <2>4. B[r] = <<>> \o e.new
    BY <1>6, <2>2, <2>3
  <2> QED BY <1>1, <2>4, ConcatEmptySeq
<1>12. Alike(a, b, r, m)
  BY <1>1, <1>5 DEF Alike
<1>13. PICK X \in Seq(Tokens) : A[m] = A[r] \o X /\ B[m] = B[r] \o X
  <2>1. SharedRest(A, B, r, m, Tokens)
    BY <1>1, <1>2, <1>3, <1>7, <1>8, <1>9, <1>12, SharedTail
  <2> QED BY <2>1 DEF SharedRest
<1>14. A[m] = X
  BY <1>10, <1>13, ConcatEmptySeq
<1> QED BY <1>2, <1>3, <1>7, <1>8, <1>11, <1>13, <1>14 DEF p

\* The edits that replace the token behind p.
Over(edits, p) == {e \in edits : p \in e.start..(e.end - 1)}

LEMMA ReplacedType ==
  ASSUME NEW edits, NEW l, l.text \in Seq(Tokens), Placed(l, edits), NEW p \in 0..Len(l.text)
  PROVE  Replaced(l, edits, p) \in Seq(Tokens)
<1> DEFINE over == Over(edits, p)
<1>1. CASE \E e \in over : e.start = p
  <2>1. /\ (CHOOSE e \in over : e.start = p) \in over
        /\ Replaced(l, edits, p) = (CHOOSE e \in over : e.start = p).new
    BY <1>1 DEF Replaced, Over
  <2>2. \A e \in over : e.new \in Seq(Tokens)
    BY DEF Over, Placed
  <2> HIDE DEF over
  <2> QED BY <2>1, <2>2
<1>2. CASE ~\E e \in over : e.start = p
  <2>1. CASE p = Len(l.text) \/ over # {}
    BY <1>2, <2>1, EmptySeq DEF Replaced, Over
  <2>2. CASE ~(p = Len(l.text) \/ over # {})
    <3>1. Replaced(l, edits, p) = <<l.text[p + 1]>>
      BY <1>2, <2>2 DEF Replaced, Over
    <3>2. p + 1 \in 1..Len(l.text)
      BY <2>2
    <3>3. l.text[p + 1] \in Tokens
      BY <3>2, ElementOfSeq
    <3> QED BY <3>1, <3>3
  <2> QED BY <2>1, <2>2
<1> QED BY <1>1, <1>2

\* A position before all edits.
LEMMA Untouched ==
  ASSUME NEW edits, NEW rank \in Ranks, NEW l, l.text \in Seq(Tokens), Placed(l, edits),
         NEW k \in 1..Len(l.text), \A e \in edits : k <= e.start
  PROVE  Piece(l, edits, rank, k) = <<l.text[k]>>
<1>0. Len(l.text) \in Nat /\ k - 1 \in Nat /\ k - 1 # Len(l.text)
  OBVIOUS
<1>1. Inserted(edits, rank, k - 1) = <<>>
  <2>1. \A e \in edits : ~(e.start = k - 1 /\ e.end = k - 1)
    BY DEF Placed
  <2> QED BY <1>0, <2>1, NoneInserted
<1>2. Replaced(l, edits, k - 1) = <<l.text[k]>>
  <2>1. {e \in edits : k - 1 \in e.start..(e.end - 1)} = {}
    BY DEF Placed
  <2>2. (k - 1) + 1 = k OBVIOUS
  <2> QED BY <1>0, <2>1, <2>2 DEF Replaced
<1>3. l.text[k] \in Tokens /\ <<l.text[k]>> \in Seq(Tokens)
  OBVIOUS
<1>4. <<>> \o <<l.text[k]>> = <<l.text[k]>>
  BY <1>3, ConcatEmptySeq
<1> QED BY <1>1, <1>2, <1>4 DEF Piece

LEMMA PieceType ==
  ASSUME NEW edits, NEW rank \in Ranks, NEW l, l.text \in Seq(Tokens), Placed(l, edits),
         NEW k \in 1..(Len(l.text) + 1)
  PROVE  Piece(l, edits, rank, k) \in Seq(Tokens)
<1>1. k - 1 \in 0..Len(l.text) /\ k - 1 \in Nat
  BY LenProperties
<1>2. Inserted(edits, rank, k - 1) \in Seq(Tokens) /\ Replaced(l, edits, k - 1) \in Seq(Tokens)
  BY <1>1, InsertedType, ReplacedType
<1> QED BY <1>2, ConcatProperties DEF Piece

\* All pieces, which Together joins.
Pieces(l, edits, rank) == [k \in 1..(Len(l.text) + 1) |-> Piece(l, edits, rank, k)]

LEMMA TogetherIs ==
  ASSUME NEW edits, NEW rank \in Ranks, NEW l, l.text \in Seq(Tokens), Placed(l, edits)
  PROVE  /\ Pieces(l, edits, rank) \in [1..(Len(l.text) + 1) -> Seq(Tokens)]
         /\ \E F : /\ Flattens(F, Pieces(l, edits, rank), Len(l.text) + 1, Tokens)
                   /\ Together(l, edits, rank) = F[Len(l.text) + 1]
<1> DEFINE n == Len(l.text) + 1
           f == Pieces(l, edits, rank)
<1>1. n \in Nat
  BY LenProperties
<1>2. f \in [1..n -> Seq(Tokens)]
  <2>1. \A k \in 1..n : Piece(l, edits, rank, k) \in Seq(Tokens)
    BY PieceType
  <2> QED BY <2>1 DEF Pieces
<1>3. Together(l, edits, rank) = FlattenSeq(f)
  BY DEF Together, Pieces, Piece
<1> HIDE DEF n, f
<1>4. PICK F : Flattens(F, f, n, Tokens) /\ FlattenSeq(f) = F[n]
  BY <1>1, <1>2, Flattening
<1>5. \E G : Flattens(G, f, n, Tokens) /\ Together(l, edits, rank) = G[n]
  BY <1>3, <1>4
<1> QED BY <1>2, <1>5 DEF n, f

\* Nothing to do leaves the text as it is.
LEMMA TogetherNone ==
  ASSUME NEW rank \in Ranks, NEW l, l.text \in Seq(Tokens)
  PROVE  Together(l, {}, rank) = l.text
<1> DEFINE n == Len(l.text) + 1
           m == Len(l.text)
           f == Pieces(l, {}, rank)
<1>1. n \in Nat /\ m \in Nat /\ n = m + 1 /\ n \in 1..n /\ n - 1 = m /\ m \in 0..n
  BY LenProperties
<1>2. Placed(l, {})
  BY DEF Placed
<1>3. PICK F : Flattens(F, f, n, Tokens) /\ Together(l, {}, rank) = F[n]
  BY <1>2, TogetherIs
<1>9. f \in [1..n -> Seq(Tokens)]
  BY <1>2, TogetherIs
<1>4. Copies(f, l.text, m)
  <2>1. ASSUME NEW k \in 1..m PROVE f[k] = <<l.text[k]>>
    <3>1. Piece(l, {}, rank, k) = <<l.text[k]>>
      BY <1>2, Untouched
    <3>2. k \in 1..n BY <1>1
    <3> QED BY <3>1, <3>2 DEF Pieces
  <2> HIDE DEF f, m
  <2> QED BY <2>1 DEF Copies
<1>5. f[n] = <<>>
  <2>1. Inserted({}, rank, m) = <<>>
    BY <1>1, <1>2, NoneInserted
  <2>2. Replaced(l, {}, m) = <<>>
    BY DEF Replaced
  <2>3. <<>> \o <<>> = <<>>
    BY EmptySeq, ConcatEmptySeq
  <2>4. Piece(l, {}, rank, n) = <<>>
    BY <1>1, <2>1, <2>2, <2>3 DEF Piece
  <2> QED BY <1>1, <2>4 DEF Pieces
<1> HIDE DEF f, n
<1>6. F[m] = SubSeq(l.text, 1, m)
  <2>1. m <= Len(l.text) BY <1>1
  <2> HIDE DEF m
  <2>2. Opened(F, l.text, m)
    BY <1>1, <1>3, <1>9, <1>4, <2>1, CopiedPart
  <2> QED BY <2>2 DEF Opened
<1>7. F[m] = l.text
  BY <1>6, SubSeqFull
<1>8. F[n] = F[m] \o <<>>
  <2>1. F[n] = F[n - 1] \o f[n]
    BY <1>1, <1>3 DEF Flattens
  <2> QED BY <1>1, <1>5, <2>1
<1> QED BY <1>3, <1>7, <1>8, ConcatEmptySeq

-----------------------------------------------------------------------------
(* One more edit                                                            *)

\* T is text with the part from q on replaced by Y.
Ends(T, text, q, Y) == T = SubSeq(text, 1, q) \o Y
Splits(T, text, p, q, Y) ==
  /\ T \in Seq(Tokens)
  /\ Between(T, 0, p) = SubSeq(text, 1, p)
  /\ Between(T, p, q) = Between(text, p, q)
  /\ Between(T, q, Len(T)) = Y

\* Before q such a text is what it was, and then it is Y.
LEMMA Parts ==
  ASSUME NEW text \in Seq(Tokens), NEW q \in 0..Len(text), NEW p \in 0..q,
         NEW Y \in Seq(Tokens), NEW T, Ends(T, text, q, Y)
  PROVE  Splits(T, text, p, q, Y)
<1> DEFINE m == Len(text)
           U == SubSeq(text, 1, q)
<1>1. m \in Nat /\ q \in Nat /\ p \in Nat /\ q <= m /\ p <= q
  BY LenProperties
<1>2. \A i \in 1..m : text[i] \in Tokens
  OBVIOUS
<1>3. U \in Seq(Tokens) /\ Len(U) = q /\ \A i \in 1..q : U[i] = text[i]
  <2>1. \A i \in 1..q : text[i] \in Tokens BY <1>1, <1>2
  <2>2. /\ U \in Seq(Tokens) /\ Len(U) = IF 1 <= q THEN q - 1 + 1 ELSE 0
        /\ \A i \in 1..(q - 1 + 1) : U[i] = text[1 + i - 1]
    BY <1>1, <2>1, SubSeqProperties
  <2> HIDE DEF U, m
  <2> QED BY <1>1, <2>2
<1> HIDE DEF U, m
<1>4. /\ T \in Seq(Tokens) /\ Len(T) = q + Len(Y) /\ Len(Y) \in Nat
      /\ \A i \in 1..(q + Len(Y)) : T[i] = IF i <= q THEN U[i] ELSE Y[i - q]
  <2>1. T = U \o Y BY DEF U, Ends
  <2>2. /\ U \o Y \in Seq(Tokens) /\ Len(U \o Y) = Len(U) + Len(Y) /\ Len(Y) \in Nat
        /\ \A i \in 1..(Len(U) + Len(Y)) :
             (U \o Y)[i] = IF i <= Len(U) THEN U[i] ELSE Y[i - Len(U)]
    <3>1. Len(Y) \in Nat BY LenProperties
    <3>2. U \in Seq(Tokens) BY <1>3
    <3>3. U \o Y \in Seq(Tokens) /\ Len(U \o Y) = Len(U) + Len(Y)
      BY <3>2, ConcatProperties
    <3>4. \A i \in 1..(Len(U) + Len(Y)) :
             (U \o Y)[i] = IF i <= Len(U) THEN U[i] ELSE Y[i - Len(U)]
      BY <3>2, ConcatProperties
    <3> QED BY <3>1, <3>3, <3>4
  <2> QED BY <1>3, <2>1, <2>2
<1>5. \A i \in 1..q : T[i] = text[i]
  BY <1>1, <1>3, <1>4
<1>6. Between(T, 0, p) = SubSeq(text, 1, p)
  <2>1. \A i \in 1..p : T[i] \in Tokens /\ text[i] \in Tokens /\ T[i] = text[i]
    BY <1>1, <1>2, <1>5
  <2>2. /\ SubSeq(T, 1, p) \in Seq(Tokens) /\ Len(SubSeq(T, 1, p)) = p
        /\ \A i \in 1..p : SubSeq(T, 1, p)[i] = T[i]
    <3>1. /\ SubSeq(T, 1, p) \in Seq(Tokens)
          /\ Len(SubSeq(T, 1, p)) = IF 1 <= p THEN p - 1 + 1 ELSE 0
          /\ \A i \in 1..(p - 1 + 1) : SubSeq(T, 1, p)[i] = T[1 + i - 1]
      BY <1>1, <2>1, SubSeqProperties
    <3> QED BY <1>1, <3>1
  <2>3. /\ SubSeq(text, 1, p) \in Seq(Tokens) /\ Len(SubSeq(text, 1, p)) = p
        /\ \A i \in 1..p : SubSeq(text, 1, p)[i] = text[i]
    <3>1. /\ SubSeq(text, 1, p) \in Seq(Tokens)
          /\ Len(SubSeq(text, 1, p)) = IF 1 <= p THEN p - 1 + 1 ELSE 0
          /\ \A i \in 1..(p - 1 + 1) : SubSeq(text, 1, p)[i] = text[1 + i - 1]
      BY <1>1, <2>1, SubSeqProperties
    <3> QED BY <1>1, <3>1
  <2>4. SubSeq(T, 1, p) = SubSeq(text, 1, p)
    BY <2>1, <2>2, <2>3, SeqEqual
  <2> QED BY <2>4 DEF Between
<1>7. Between(T, p, q) = Between(text, p, q)
  <2> DEFINE a == p + 1
  <2>1. \A i \in a..q : T[i] \in Tokens /\ text[i] \in Tokens /\ T[i] = text[i]
    BY <1>1, <1>2, <1>5
  <2>6. a \in Int /\ q \in Int /\ a >= 1 /\ a <= q + 1 BY <1>1
  <2> HIDE DEF a
  <2>2. /\ SubSeq(T, a, q) \in Seq(Tokens)
        /\ Len(SubSeq(T, a, q)) = IF a <= q THEN q - a + 1 ELSE 0
        /\ \A i \in 1..(q - a + 1) : SubSeq(T, a, q)[i] = T[a + i - 1]
    BY <2>6, <2>1, SubSeqProperties
  <2>3. /\ SubSeq(text, a, q) \in Seq(Tokens)
        /\ Len(SubSeq(text, a, q)) = IF a <= q THEN q - a + 1 ELSE 0
        /\ \A i \in 1..(q - a + 1) : SubSeq(text, a, q)[i] = text[a + i - 1]
    BY <2>6, <2>1, SubSeqProperties
  <2>4. ASSUME NEW i \in 1..Len(SubSeq(T, a, q))
        PROVE  SubSeq(T, a, q)[i] = SubSeq(text, a, q)[i]
    <3>1. i \in 1..(q - a + 1) /\ a + i - 1 \in a..q BY <2>6, <2>2
    <3> QED BY <2>1, <2>2, <2>3, <3>1
  <2>5. SubSeq(T, a, q) = SubSeq(text, a, q)
    BY <2>2, <2>3, <2>4, SeqEqual
  <2> QED BY <2>5 DEF Between, a
<1>8. Between(T, q, Len(T)) = Y
  <2> SUFFICES ASSUME NEW z \in Int, z = Len(T) PROVE SubSeq(T, q + 1, z) = Y
    BY <1>4 DEF Between
  <2> DEFINE a == q + 1
  <2>1. \A i \in a..z : T[i] \in Tokens
    BY <1>1, <1>4
  <2>6. a \in Int /\ z \in Int /\ a >= 1 /\ a <= z + 1 /\ z - a + 1 = Len(Y) BY <1>1, <1>4
  <2>7. \A i \in 1..Len(Y) : /\ a + i - 1 = q + i /\ a + i - 1 \in 1..(q + Len(Y))
                             /\ ~(q + i <= q) /\ q + i - q = i
    BY <1>1, <1>4
  <2> HIDE DEF a
  <2>2. /\ SubSeq(T, a, z) \in Seq(Tokens)
        /\ Len(SubSeq(T, a, z)) = IF a <= z THEN z - a + 1 ELSE 0
        /\ \A i \in 1..(z - a + 1) : SubSeq(T, a, z)[i] = T[a + i - 1]
    BY <2>6, <2>1, SubSeqProperties
  <2>3. Len(SubSeq(T, a, z)) = Len(Y)
    BY <1>4, <2>6, <2>2
  <2>4. ASSUME NEW i \in 1..Len(SubSeq(T, a, z)) PROVE SubSeq(T, a, z)[i] = Y[i]
    <3>1. i \in 1..Len(Y) /\ SubSeq(T, a, z)[i] = T[a + i - 1] BY <2>6, <2>2, <2>3
    <3>2. T[q + i] = Y[q + i - q] BY <1>4, <2>7, <3>1
    <3> QED BY <2>7, <3>1, <3>2
  <2>5. SubSeq(T, a, z) = Y
    BY <2>2, <2>3, <2>4, SeqEqual
  <2> QED BY <2>5 DEF a
<1> QED BY <1>4, <1>6, <1>7, <1>8 DEF Splits

\* Four texts joined in two ways.
Regroups(s, t, u, v) == (s \o (t \o u)) \o v = (s \o t) \o (u \o v)

LEMMA Regrouping ==
  ASSUME NEW S, NEW s \in Seq(S), NEW t \in Seq(S), NEW u \in Seq(S), NEW v \in Seq(S)
  PROVE  Regroups(s, t, u, v)
<1> DEFINE a == s \o t
<1>1. a \in Seq(S) /\ s \o (t \o u) = a \o u
  BY ConcatAssociative, ConcatProperties
<1> HIDE DEF a
<1>2. (a \o u) \o v = a \o (u \o v)
  BY <1>1, ConcatAssociative
<1> QED BY <1>1, <1>2 DEF a, Regroups

\* T and U agree behind e, before it both are text, and U has the edit.
OneApart(T, U, text, e) ==
  \E Y \in Seq(Tokens) :
    T = SubSeq(text, 1, e.end) \o Y /\ U = (SubSeq(text, 1, e.start) \o e.new) \o Y

\* An edit that ends before all others begin, and inserts before what they insert
\* at its place, changes nothing else of what they make of the text.
LEMMA OneMore ==
  ASSUME NEW edits, NEW rank \in Ranks, NEW l, l.text \in Seq(Tokens), NEW e,
         Placed(l, edits), Placed(l, {e}),
         \A f \in edits : e.end <= f.start,
         \A f \in edits : f.start = e.start => f.end = f.start /\ rank[e.of] < rank[f.of]
  PROVE  OneApart(Together(l, edits, rank), Together(l, edits \cup {e}, rank), l.text, e)
<1> SUFFICES \E Y \in Seq(Tokens) :
               /\ Together(l, edits, rank) = SubSeq(l.text, 1, e.end) \o Y
               /\ Together(l, edits \cup {e}, rank) = (SubSeq(l.text, 1, e.start) \o e.new) \o Y
  BY DEF OneApart
<1> DEFINE m == Len(l.text)
           n == m + 1
           p == e.start
           q == e.end
           more == edits \cup {e}
           f == Pieces(l, edits, rank)
           g == Pieces(l, more, rank)
<1>1. /\ m \in Nat /\ n \in Nat /\ p \in Nat /\ q \in Nat /\ p <= q /\ q <= m
      /\ e.new \in Seq(Tokens)
  BY LenProperties DEF Placed
<1>2. Placed(l, more)
  BY DEF Placed
<1>3. /\ p \in 0..n /\ q \in 0..n /\ p + 1 \in 1..n /\ q + 1 \in 1..n
      /\ p + 1 \in 0..n /\ q + 1 \in 0..n
      /\ (p + 1) - 1 = p /\ (q + 1) - 1 = q
  BY <1>1
<1>4. PICK F : Flattens(F, f, n, Tokens) /\ Together(l, edits, rank) = F[n]
  BY TogetherIs
<1>5. PICK G : Flattens(G, g, n, Tokens) /\ Together(l, more, rank) = G[n]
  <2> HIDE DEF more
  <2> QED BY <1>2, TogetherIs
<1>6. f \in [1..n -> Seq(Tokens)] /\ g \in [1..n -> Seq(Tokens)]
  <2>1. f \in [1..n -> Seq(Tokens)] BY TogetherIs
  <2> HIDE DEF more
  <2> QED BY <2>1, <1>2, TogetherIs
<1>7. /\ \A k \in 1..n : f[k] = Inserted(edits, rank, k - 1) \o Replaced(l, edits, k - 1)
      /\ \A k \in 1..n : g[k] = Inserted(more, rank, k - 1) \o Replaced(l, more, k - 1)
  BY DEF Pieces, Piece
\* Before e nothing is touched.
<1>8. Copies(f, l.text, q) /\ Copies(g, l.text, p)
  <2>1. ASSUME NEW k \in 1..q PROVE f[k] = <<l.text[k]>>
    <3>1. k \in 1..Len(l.text) /\ k \in 1..n BY <1>1
    <3>2. \A h \in edits : k <= h.start
      <4>1. \A h \in edits : h.start \in Nat BY DEF Placed
      <4> QED BY <1>1, <4>1
    <3>3. Piece(l, edits, rank, k) = <<l.text[k]>>
      BY <3>1, <3>2, Untouched
    <3> QED BY <3>1, <3>3 DEF Pieces
  <2>2. ASSUME NEW k \in 1..p PROVE g[k] = <<l.text[k]>>
    <3>1. k \in 1..Len(l.text) /\ k \in 1..n BY <1>1
    <3>2. \A h \in more : k <= h.start
      <4>1. \A h \in edits : h.start \in Nat BY DEF Placed
      <4> QED BY <1>1, <4>1
    <3>3. Piece(l, more, rank, k) = <<l.text[k]>>
      <4> HIDE DEF more
      <4> QED BY <1>2, <3>1, <3>2, Untouched
    <3> QED BY <3>1, <3>3 DEF Pieces
  <2> HIDE DEF f, g, p, q
  <2> QED BY <2>1, <2>2 DEF Copies
<1>9. F[q] = SubSeq(l.text, 1, q) /\ G[p] = SubSeq(l.text, 1, p)
  <2>1. q <= Len(l.text) /\ p <= Len(l.text) BY <1>1
  <2> HIDE DEF f, g, p, q, n, m
  <2>2. Opened(F, l.text, q)
    BY <1>1, <1>3, <1>4, <1>6, <1>8, <2>1, CopiedPart
  <2>3. Opened(G, l.text, p)
    BY <1>1, <1>3, <1>5, <1>6, <1>8, <2>1, CopiedPart
  <2> QED BY <2>2, <2>3 DEF Opened
<1>10. \A k \in 0..n : F[k] \in Seq(Tokens) /\ G[k] \in Seq(Tokens)
  BY <1>4, <1>5 DEF Flattens
<1>11. /\ \A k \in 1..n : F[k] = F[k - 1] \o f[k]
       /\ \A k \in 1..n : G[k] = G[k - 1] \o g[k]
  BY <1>4, <1>5 DEF Flattens
\* Beyond e the two agree.
<1>12. ASSUME NEW k \in 1..n, k > q, p < q \/ k > q + 1 PROVE f[k] = g[k]
  <2>1. k - 1 \in Nat /\ k - 1 >= q /\ ~(k - 1 <= q - 1) /\ ~(p = k - 1 /\ q = k - 1)
    BY <1>1, <1>12
  <2>2. \A i : Here(more, rank, k - 1, i) = Here(edits, rank, k - 1, i)
    BY <2>1 DEF Here
  <2>3. ASSUME NEW i PROVE Note(more, rank, k - 1, i) = Note(edits, rank, k - 1, i)
    <3> DEFINE j == k - 1
    <3>1. Here(more, rank, j, i) = Here(edits, rank, j, i)
      BY <2>2
    <3> HIDE DEF more, j
    <3>2. Note(more, rank, j, i) = Note(edits, rank, j, i)
      BY <3>1 DEF Note
    <3> QED BY <3>2 DEF j
  <2>4. Inserted(more, rank, k - 1) = Inserted(edits, rank, k - 1)
    <3>1. Inserted(edits, rank, k - 1)
            = FlattenSeq(Notes(edits, rank, k - 1))
      BY <2>1, InsertedIs
    <3>2. Inserted(more, rank, k - 1)
            = FlattenSeq(Notes(more, rank, k - 1))
      <4> HIDE DEF more
      <4> QED BY <1>2, <2>1, InsertedIs
    <3> HIDE DEF more
    <3>3. Notes(more, rank, k - 1) = Notes(edits, rank, k - 1)
      BY <2>3 DEF Notes
    <3> QED BY <3>1, <3>2, <3>3
  <2>5. Over(more, k - 1) = Over(edits, k - 1)
    BY <1>1, <2>1 DEF Over
  <2>6. Replaced(l, more, k - 1) = Replaced(l, edits, k - 1)
    <3> HIDE DEF more
    <3> QED BY <2>5 DEF Replaced, Over
  <2> QED BY <1>7, <2>4, <2>6
<1>13. CASE p < q
  \* What follows e is shared from q on.
  <2>1. Alike(f, g, q, n)
    <3>1. ASSUME NEW k \in (q + 1)..n PROVE f[k] = g[k]
      <4>1. k \in 1..n /\ k > q BY <1>1
      <4> QED BY <1>12, <1>13, <4>1
    <3> HIDE DEF f, g, q, n
    <3> QED BY <3>1 DEF Alike
  <2>2. g[p + 1] = e.new
    <3>1. \A h \in more : ~(h.start = p /\ h.end = p)
      BY <1>1, <1>13 DEF Placed
    <3>2. Inserted(more, rank, p) = <<>>
      <4> HIDE DEF more
      <4> QED BY <1>1, <1>2, <3>1, NoneInserted
    <3>3. Over(more, p) = {e}
      BY <1>1, <1>13 DEF Over, Placed
    <3>4. Replaced(l, more, p) = e.new
      <4> HIDE DEF more
      <4> QED BY <3>3 DEF Replaced, Over
    <3>5. g[p + 1] = Inserted(more, rank, p) \o Replaced(l, more, p)
      BY <1>3, <1>7
    <3> HIDE DEF more, g, p
    <3> QED BY <1>1, <3>2, <3>4, <3>5, ConcatEmptySeq
  <2>3. Silent(g, p + 1, q)
    <3>1. ASSUME NEW k \in (p + 1 + 1)..q PROVE g[k] = <<>>
      <4>1. k \in 1..n /\ k - 1 \in Nat /\ k - 1 > p /\ k - 1 <= q - 1
        BY <1>1
      <4>2. \A h \in more : ~(h.start = k - 1 /\ h.end = k - 1)
        BY <1>1, <4>1 DEF Placed
      <4>3. Inserted(more, rank, k - 1) = <<>>
        <5> HIDE DEF more
        <5> QED BY <1>2, <4>1, <4>2, NoneInserted
      <4>4. Over(more, k - 1) = {e}
        BY <1>1, <4>1 DEF Over, Placed
      <4>5. Replaced(l, more, k - 1) = <<>>
        <5> HIDE DEF more
        <5>1. e.start # k - 1 BY <4>1
        <5> QED BY <4>4, <5>1 DEF Replaced, Over
      <4>6. <<>> \o <<>> = <<>>
        BY EmptySeq, ConcatEmptySeq
      <4> QED BY <1>7, <4>1, <4>3, <4>5, <4>6
    <3> HIDE DEF g, p, q
    <3> QED BY <3>1 DEF Silent
  <2>4. G[q] = SubSeq(l.text, 1, p) \o e.new
    <3> DEFINE c == p + 1
    <3>1. c \in 0..n /\ q \in c..n
      BY <1>1, <1>13
    <3>2. G[c] = G[p] \o g[c]
      BY <1>3, <1>11
    <3> HIDE DEF g, p, q, n, m
    <3>3. Unmoved(G, c, q)
      <4>1. Silent(g, c, q) BY <2>3
      <4> HIDE DEF c
      <4> QED BY <1>1, <1>5, <1>6, <3>1, <4>1, SilentPart
    <3> QED BY <1>9, <2>2, <3>2, <3>3 DEF Unmoved
  <2>5. SharedRest(F, G, q, n, Tokens)
    <3> HIDE DEF f, g, p, q, n, m
    <3> QED BY <1>1, <1>3, <1>4, <1>5, <1>6, <2>1, SharedTail
  <2> HIDE DEF f, g, n, m
  <2> QED BY <1>4, <1>5, <1>9, <2>4, <2>5 DEF SharedRest
<1>14. CASE p = q
  \* An insertion: the piece at q has one more edit, and comes first.
  <2>1. Alike(f, g, q + 1, n)
    <3>1. ASSUME NEW k \in (q + 1 + 1)..n PROVE f[k] = g[k]
      <4>1. k \in 1..n /\ k > q /\ k > q + 1 BY <1>1
      <4> QED BY <1>12, <4>1
    <3> HIDE DEF f, g, q, n
    <3> QED BY <3>1 DEF Alike
  <2>2. Inserted(more, rank, q) = e.new \o Inserted(edits, rank, q)
    <3>1. \A h \in edits : h.start = e.start /\ h.end = e.end => rank[e.of] < rank[h.of]
      OBVIOUS
    <3>2. Inserted(more, rank, e.start) = e.new \o Inserted(edits, rank, e.start)
      BY <1>14, <3>1, InsertedFirst
    <3> QED BY <1>14, <3>2
  <2>3. Replaced(l, more, q) = Replaced(l, edits, q)
    <3>1. Over(more, q) = Over(edits, q)
      BY <1>1, <1>14 DEF Over
    <3> HIDE DEF more
    <3> QED BY <3>1 DEF Replaced, Over
  <2>4. /\ g[q + 1] = e.new \o f[q + 1] /\ f[q + 1] \in Seq(Tokens)
    <3>1. Inserted(edits, rank, q) \in Seq(Tokens) /\ Replaced(l, edits, q) \in Seq(Tokens)
      <4>1. q \in Nat /\ q \in 0..Len(l.text) BY <1>1
      <4> QED BY <4>1, InsertedType, ReplacedType
    <3>2. f[q + 1] = Inserted(edits, rank, q) \o Replaced(l, edits, q)
      BY <1>3, <1>7
    <3>3. g[q + 1] = (e.new \o Inserted(edits, rank, q)) \o Replaced(l, edits, q)
      BY <1>3, <1>7, <2>2, <2>3
    <3>4. f[q + 1] \in Seq(Tokens)
      BY <1>3, <1>6
    <3> DEFINE u == Inserted(edits, rank, q)
               v == Replaced(l, edits, q)
               w == e.new
    <3>5. u \in Seq(Tokens) /\ v \in Seq(Tokens) /\ w \in Seq(Tokens)
      BY <1>1, <3>1
    <3>6. (w \o u) \o v = w \o (u \o v)
      <4> HIDE DEF u, v, w
      <4> QED BY <3>5, ConcatAssociative
    <3> HIDE DEF f, g, more, q
    <3> QED BY <3>2, <3>3, <3>4, <3>6
  <2> DEFINE c == q + 1
  <2>5. /\ F[c] = SubSeq(l.text, 1, q) \o f[c]
        /\ G[c] = SubSeq(l.text, 1, q) \o g[c]
    BY <1>3, <1>9, <1>11, <1>14
  <2>6. SharedRest(F, G, c, n, Tokens)
    <3>1. c \in 0..n /\ Alike(f, g, c, n) BY <1>3, <2>1
    <3> HIDE DEF f, g, p, q, n, m, c
    <3> QED BY <1>1, <1>4, <1>5, <1>6, <3>1, SharedTail
  <2>7. PICK X \in Seq(Tokens) : F[n] = F[c] \o X /\ G[n] = G[c] \o X
    BY <2>6 DEF SharedRest
  <2>8. SubSeq(l.text, 1, q) \in Seq(Tokens)
    <3>1. q \in 0..n BY <1>3
    <3> QED BY <1>9, <1>10, <3>1
  <2> DEFINE U == SubSeq(l.text, 1, q)
             Y == f[c] \o X
  <2>9. Y \in Seq(Tokens)
    BY <2>4, <2>7, ConcatProperties
  <2>10. F[n] = U \o Y
    <3>1. F[n] = (U \o f[c]) \o X BY <2>5, <2>7
    <3> DEFINE v == f[c]
    <3>2. U \in Seq(Tokens) /\ v \in Seq(Tokens) BY <2>4, <2>8
    <3> HIDE DEF U, v
    <3>3. (U \o v) \o X = U \o (v \o X)
      BY <2>7, <3>2, ConcatAssociative
    <3> QED BY <3>1, <3>3 DEF v
  <2>11. G[n] = (U \o e.new) \o Y
    <3>1. G[n] = (U \o (e.new \o f[c])) \o X BY <2>4, <2>5, <2>7
    <3> DEFINE v == f[c]
               w == e.new
    <3>2. U \in Seq(Tokens) /\ v \in Seq(Tokens) /\ w \in Seq(Tokens) /\ X \in Seq(Tokens)
      BY <1>1, <2>4, <2>7, <2>8
    <3> HIDE DEF U, v, w
    <3>3. Regroups(U, w, v, X)
      BY <3>2, Regrouping
    <3>4. (U \o (w \o v)) \o X = (U \o w) \o (v \o X)
      BY <3>3 DEF Regroups
    <3> QED BY <3>1, <3>4 DEF v, w
  <2>12. Together(l, edits, rank) = SubSeq(l.text, 1, e.end) \o Y
    BY <1>4, <2>10
  <2>13. Together(l, more, rank) = (SubSeq(l.text, 1, e.start) \o e.new) \o Y
    BY <1>5, <1>14, <2>11
  <2> HIDE DEF Y
  <2> WITNESS Y \in Seq(Tokens)
  <2>14. Together(l, edits \cup {e}, rank) = (SubSeq(l.text, 1, e.start) \o e.new) \o Y
    BY <2>13
  <2> QED BY <2>9, <2>12, <2>14
<1>15. p < q \/ p = q
  BY <1>1
<1> QED BY <1>13, <1>14, <1>15, Zenon

\* ApplyEdit finds the old text in T where e wants it, and makes U.
Makes(T, e, U) ==
  /\ Between(T, e.start, e.end) = e.old
  /\ U = Between(T, 0, e.start) \o e.new \o Between(T, e.end, Len(T))

\* The next edit from the end, on a text that has the ones behind it.
LEMMA NextEdit ==
  ASSUME NEW edits, NEW rank \in Ranks, NEW l, l.text \in Seq(Tokens), NEW e,
         Placed(l, edits), Placed(l, {e}),
         \A f \in edits : e.end <= f.start,
         \A f \in edits : f.start = e.start => f.end = f.start /\ rank[e.of] < rank[f.of],
         NEW T, T = Together(l, edits, rank)
  PROVE  Makes(T, e, Together(l, edits \cup {e}, rank))
<1>1. /\ e.start \in 0..e.end /\ e.end \in 0..Len(l.text)
      /\ e.old = Between(l.text, e.start, e.end)
  BY DEF Placed
<1> DEFINE U == Together(l, edits \cup {e}, rank)
           p == e.start
           q == e.end
           new == e.new
<1>6. OneApart(T, U, l.text, e)
  BY OneMore
<1> HIDE DEF U
<1>2. PICK Y \in Seq(Tokens) :
        T = SubSeq(l.text, 1, q) \o Y /\ U = (SubSeq(l.text, 1, p) \o new) \o Y
  BY <1>6 DEF OneApart
<1> HIDE DEF p, q, new
<1>3. Splits(T, l.text, p, q, Y)
  <2>1. p \in 0..q /\ q \in 0..Len(l.text) BY <1>1 DEF p, q
  <2>2. Ends(T, l.text, q, Y) BY <1>2 DEF Ends
  <2> QED BY <2>1, <2>2, Parts
<1>4. Between(T, e.start, e.end) = e.old
  BY <1>1, <1>3 DEF p, q, Splits
<1>5. U = (Between(T, 0, p) \o new) \o Between(T, q, Len(T))
  BY <1>2, <1>3 DEF Splits
<1> QED BY <1>4, <1>5 DEF U, p, q, new, Makes

-----------------------------------------------------------------------------
(* The order of the edits                                                   *)

\* Two edits of one dependency are its value and its comment.
Distinct(edits) ==
  /\ \A e \in edits : e.comment \in BOOLEAN
  /\ \A e, f \in edits : e.of = f.of /\ e.comment = f.comment => e = f

\* Of two edits exactly one comes first.
LEMMA PrecedesOrder ==
  ASSUME NEW edits, NEW rank \in Ranks, NEW l, Placed(l, edits), Distinct(edits)
  PROVE  /\ \A e \in edits : ~Precedes(e, e, rank)
         /\ \A e, f, g \in edits :
              Precedes(e, f, rank) /\ Precedes(f, g, rank) => Precedes(e, g, rank)
         /\ \A e, f \in edits : e = f \/ Precedes(e, f, rank) \/ Precedes(f, e, rank)
<1>1. \A e \in edits : e.start \in Nat /\ e.of \in Deps /\ e.comment \in BOOLEAN
  BY DEF Placed, Distinct
<1>2. \A d \in Deps : rank[d] \in Nat
  BY RankType
<1>3. ASSUME NEW e \in edits PROVE ~Precedes(e, e, rank)
  BY <1>1, <1>2 DEF Precedes, Backwards
<1>4. ASSUME NEW e \in edits, NEW f \in edits, NEW g \in edits,
             Precedes(e, f, rank), Precedes(f, g, rank)
      PROVE  Precedes(e, g, rank)
  BY <1>1, <1>2, <1>4 DEF Precedes, Backwards
<1>5. ASSUME NEW e \in edits, NEW f \in edits, e # f
      PROVE  Precedes(e, f, rank) \/ Precedes(f, e, rank)
  <2>1. CASE e.start # f.start
    BY <1>1, <2>1 DEF Precedes, Backwards
  <2>2. CASE e.start = f.start /\ e.of # f.of
    <3>1. rank[e.of] # rank[f.of] BY <1>1, <2>2, RankType
    <3> QED BY <1>1, <1>2, <2>2, <3>1 DEF Precedes
  <2>3. CASE e.start = f.start /\ e.of = f.of
    <3>1. e.comment # f.comment BY <1>5, <2>3 DEF Distinct
    <3> QED BY <1>1, <2>3, <3>1 DEF Precedes
  <2> QED BY <2>1, <2>2, <2>3
<1> QED BY <1>3, <1>4, <1>5

\* The place of an edit is the number of those before it.
LEMMA SortedOK ==
  ASSUME NEW edits, IsFiniteSet(edits), NEW rank \in Ranks, NEW l,
         Placed(l, edits), Distinct(edits)
  PROVE  LET s == Sorted(edits, rank)
             n == Cardinality(edits)
         IN /\ n \in Nat /\ s \in [1..n -> edits]
            /\ \A i, j \in 1..n : i < j => Precedes(s[i], s[j], rank)
            /\ \A e \in edits : \E i \in 1..n : s[i] = e
<1> DEFINE n == Cardinality(edits)
           Less(e) == {f \in edits : Precedes(f, e, rank)}
           place == [e \in edits |-> Cardinality(Less(e)) + 1]
           s == Sorted(edits, rank)
<1>1. n \in Nat
  BY FS_CardinalityType
<1>2. ASSUME NEW e \in edits
      PROVE  IsFiniteSet(Less(e)) /\ Cardinality(Less(e)) \in Nat /\ place[e] \in 1..n
  <2>1. Less(e) \in SUBSET edits /\ e \notin Less(e)
    BY PrecedesOrder
  <2>2. Less(e) # edits BY <2>1
  <2>3. IsFiniteSet(Less(e)) /\ Cardinality(Less(e)) <= n /\ Cardinality(Less(e)) # n
    BY <2>1, <2>2, FS_Subset
  <2>4. Cardinality(Less(e)) \in Nat
    BY <2>3, FS_CardinalityType
  <2> HIDE DEF Less, n
  <2> QED BY <1>1, <2>3, <2>4
<1>3. ASSUME NEW e \in edits, NEW f \in edits, Precedes(e, f, rank)
      PROVE  place[e] < place[f]
  <2>1. Less(e) \in SUBSET Less(f) /\ e \in Less(f) /\ e \notin Less(e)
    BY <1>3, PrecedesOrder
  <2>2. IsFiniteSet(Less(f)) /\ Cardinality(Less(f)) \in Nat /\ Cardinality(Less(e)) \in Nat
    BY <1>2
  <2>3. /\ Cardinality(Less(e)) <= Cardinality(Less(f))
        /\ Cardinality(Less(e)) # Cardinality(Less(f))
    <3> HIDE DEF Less
    <3> QED BY <2>1, <2>2, FS_Subset
  <2> HIDE DEF Less
  <2> QED BY <2>2, <2>3
<1>4. place \in [edits -> 1..n]
  BY <1>2
<1>5. IsFiniteSet(1..n) /\ Cardinality(1..n) = n
  BY <1>1, FS_Interval
<1>6. ASSUME NEW e \in edits, NEW f \in edits, place[e] = place[f] PROVE e = f
  <2>1. place[e] \in Nat
    <3> HIDE DEF place, n
    <3>1. place[e] \in 1..n BY <1>2
    <3> QED BY <1>1, <3>1
  <2> HIDE DEF place
  <2>2. ~(place[e] < place[f]) /\ ~(place[f] < place[e]) BY <1>6, <2>1
  <2> QED BY <1>3, <2>2, PrecedesOrder
<1>7. \A i \in 1..n : \E e \in edits : place[e] = i
  <2> HIDE DEF place
  <2>1. place \in Injection(edits, 1..n)
    BY <1>4, <1>6 DEF Injection, IsInjective
  <2>2. Cardinality(edits) = Cardinality(1..n)
    BY <1>5
  <2>3. place \in Surjection(edits, 1..n)
    BY <1>5, <2>1, <2>2, FS_Injection
  <2> QED BY <2>3 DEF Surjection
<1>8. ASSUME NEW i \in 1..n PROVE s[i] \in edits /\ place[s[i]] = i
  <2>1. PICK e \in edits : place[e] = i
    BY <1>7
  <2>2. Cardinality(Less(e)) \in Nat /\ place[e] = Cardinality(Less(e)) + 1
    BY <1>2
  <2>3. Cardinality(Less(e)) = i - 1
    <3> HIDE DEF place, Less
    <3> QED BY <2>1, <2>2
  <2>4. s[i] = CHOOSE f \in edits : Cardinality(Less(f)) = i - 1
    BY DEF Sorted
  <2>5. s[i] \in edits /\ Cardinality(Less(s[i])) = i - 1
    <3> HIDE DEF Less, s
    <3> QED BY <2>3, <2>4
  <2>6. place[s[i]] = Cardinality(Less(s[i])) + 1
    <3> HIDE DEF s
    <3> QED BY <2>5
  <2> HIDE DEF Less, s, place, n
  <2> QED BY <2>5, <2>6
<1>9. s \in [1..n -> edits]
  <2>1. s = [i \in 1..n |-> s[i]]
    <3> DEFINE t == [k \in 1..n |-> CHOOSE e \in edits : Cardinality(Less(e)) = k - 1]
    <3>1. s = t BY DEF Sorted
    <3>2. t = [i \in 1..n |-> t[i]]
      <4> HIDE DEF Less
      <4> QED OBVIOUS
    <3> HIDE DEF s, t
    <3> QED BY <3>1, <3>2
  <2> HIDE DEF s, place
  <2> QED BY <1>8, <2>1
<1>10. ASSUME NEW i \in 1..n, NEW j \in 1..n, i < j PROVE Precedes(s[i], s[j], rank)
  <2>1. s[i] \in edits /\ s[j] \in edits /\ place[s[i]] = i /\ place[s[j]] = j
    BY <1>8
  <2> HIDE DEF s, place
  <2>2. ~(place[s[j]] < place[s[i]]) /\ s[i] # s[j]
    BY <1>1, <1>10, <2>1
  <2>3. ~Precedes(s[j], s[i], rank) BY <1>3, <2>1, <2>2
  <2> QED BY <2>1, <2>2, <2>3, PrecedesOrder
<1>11. ASSUME NEW e \in edits PROVE \E i \in 1..n : s[i] = e
  <2>1. place[e] \in 1..n BY <1>2
  <2> HIDE DEF s, place
  <2>2. s[place[e]] = e BY <1>6, <1>8, <2>1
  <2> QED BY <2>1, <2>2
<1> HIDE DEF s, n
<1>12. /\ n \in Nat /\ s \in [1..n -> edits]
       /\ \A i, j \in 1..n : i < j => Precedes(s[i], s[j], rank)
       /\ \A e \in edits : \E i \in 1..n : s[i] = e
  BY <1>1, <1>9, <1>10, <1>11
<1> QED BY <1>12 DEF s, n

-----------------------------------------------------------------------------
(* One edit after the other                                                 *)

\* The states of the loop before and after each edit; they exist.
Untried(l) == [ok |-> TRUE, last |-> Len(l.text) + 1, text |-> l.text]

Applies(made, l, order, n) ==
  made[0] = Untried(l) /\ \A k \in 1..n : made[k] = ApplyEdit(made[k - 1], order[k])

LEMMA AppliedIs ==
  ASSUME NEW n \in Nat, NEW order, Len(order) = n, NEW l
  PROVE  \E made : Applies(made, l, order, n) /\ Applied(l, order) = made[n]
<1> DEFINE Def(g) == [k \in 0..n |->
                        IF k = 0 THEN Untried(l) ELSE ApplyEdit(g[k - 1], order[k])]
           T == {m \in 0..n : \E f : Applies(f, l, order, m)}
<1>1. 0 \in T
  <2> DEFINE g == [k \in 0..0 |-> Untried(l)]
  <2>1. g[0] = Untried(l) /\ \A k \in 1..0 : g[k] = ApplyEdit(g[k - 1], order[k])
    OBVIOUS
  <2>2. Applies(g, l, order, 0)
    <3> HIDE DEF g
    <3> QED BY <2>1 DEF Applies
  <2> QED BY <2>2
<1>2. ASSUME NEW m \in 1..n, m - 1 \in T PROVE m \in T
  <2>1. PICK f : Applies(f, l, order, m - 1)
    BY <1>2
  <2>2. f[0] = Untried(l) /\ \A k \in 1..(m - 1) : f[k] = ApplyEdit(f[k - 1], order[k])
    BY <2>1 DEF Applies
  <2> DEFINE g == [k \in 0..m |-> IF k = m THEN ApplyEdit(f[m - 1], order[m]) ELSE f[k]]
  <2>3. /\ m \in Nat /\ m # 0 /\ m - 1 \in 0..(m - 1) /\ m - 1 # m
        /\ m - 1 \in 0..m /\ m \in 0..m /\ 0 \in 0..m
    OBVIOUS
  <2>4. g[0] = Untried(l)
    BY <2>2, <2>3
  <2>5. ASSUME NEW k \in 1..m PROVE g[k] = ApplyEdit(g[k - 1], order[k])
    <3>1. CASE k = m
      <4>1. g[m] = ApplyEdit(f[m - 1], order[m]) /\ g[m - 1] = f[m - 1]
        BY <2>3
      <4> HIDE DEF g
      <4> QED BY <3>1, <4>1
    <3>2. CASE k # m
      <4>1. k \in 1..(m - 1) /\ k - 1 # m /\ k - 1 \in 0..m /\ k \in 0..m
        BY <2>3, <3>2
      <4>2. g[k] = f[k] /\ g[k - 1] = f[k - 1]
        BY <3>2, <4>1
      <4> HIDE DEF g
      <4> QED BY <2>2, <4>1, <4>2
    <3> QED BY <3>1, <3>2
  <2>6. Applies(g, l, order, m)
    <3> HIDE DEF g
    <3> QED BY <2>4, <2>5 DEF Applies
  <2> QED BY <2>6
<1>3. 0..n \subseteq T
  <2> HIDE DEF T
  <2> QED BY <1>1, <1>2, Induction
<1>4. PICK f : Applies(f, l, order, n)
  BY <1>3
<1> DEFINE h == [k \in 0..n |-> f[k]]
           made == CHOOSE g : g = Def(g)
<1>5. h = Def(h)
  <2>1. ASSUME NEW k \in 0..n
        PROVE  h[k] = IF k = 0 THEN Untried(l) ELSE ApplyEdit(h[k - 1], order[k])
    <3>1. CASE k = 0 BY <1>4, <3>1 DEF Applies
    <3>2. CASE k # 0
      <4>1. k \in 1..n /\ k - 1 \in 0..n BY <3>2
      <4>2. h[k] = f[k] /\ h[k - 1] = f[k - 1] BY <4>1
      <4>3. f[k] = ApplyEdit(f[k - 1], order[k]) BY <1>4, <4>1 DEF Applies
      <4> HIDE DEF h
      <4> QED BY <3>2, <4>2, <4>3
    <3> QED BY <3>1, <3>2
  <2> HIDE DEF h
  <2> QED BY <2>1 DEF h
<1>6. made = Def(made)
  <2> HIDE DEF h, Def
  <2> QED BY <1>5
<1>7. Applied(l, order) = made[n]
  BY DEF Applied, Untried
<1>8. ASSUME NEW k \in 0..n
      PROVE  made[k] = IF k = 0 THEN Untried(l) ELSE ApplyEdit(made[k - 1], order[k])
  <2> HIDE DEF made
  <2> QED BY <1>6
<1>9. Applies(made, l, order, n)
  <2> HIDE DEF made
  <2>1. ASSUME NEW k \in 1..n PROVE made[k] = ApplyEdit(made[k - 1], order[k])
    <3>1. k \in 0..n /\ k # 0 OBVIOUS
    <3> QED BY <1>8, <3>1
  <2>2. made[0] = Untried(l)
    <3>1. 0 \in 0..n OBVIOUS
    <3> QED BY <1>8, <3>1
  <2> QED BY <2>1, <2>2 DEF Applies
<1> HIDE DEF made
<1> QED BY <1>7, <1>9

\* Edits of a text that do not insert where another one replaces something.
Sound(l, edits) ==
  /\ l.text \in Seq(Tokens) /\ IsFiniteSet(edits)
  /\ Placed(l, edits) /\ Distinct(edits)
  /\ \A e \in edits : e.start = e.end => e.comment
  /\ \A e, f \in edits : e.start = e.end /\ f.start = e.start => f.end = f.start

\* What edits make is a text.
LEMMA TogetherType ==
  ASSUME NEW edits, NEW rank \in Ranks, NEW l, l.text \in Seq(Tokens), Placed(l, edits)
  PROVE  Together(l, edits, rank) \in Seq(Tokens)
<1> DEFINE n == Len(l.text) + 1
           f == Pieces(l, edits, rank)
<1>1. n \in Nat /\ n \in 0..n
  BY LenProperties
<1>2. PICK F : Flattens(F, f, n, Tokens) /\ Together(l, edits, rank) = F[n]
  BY TogetherIs
<1> HIDE DEF n, f
<1> QED BY <1>1, <1>2 DEF Flattens

\* The first k edits of s do not reach into each other; m is what they make.
Stacked(s, k) == \A j \in 2..k : s[j].end <= s[j - 1].start
Done(s, k) == {s[j] : j \in 1..k}
Attempts == [ok : BOOLEAN, last : Nat, text : Seq(Tokens)]

Reached(m, l, s, k, rank) ==
  /\ m \in Attempts
  /\ m.ok <=> Stacked(s, k)
  /\ m.ok => /\ m.last = (IF k = 0 THEN Len(l.text) + 1 ELSE s[k].start)
             /\ m.text = Together(l, Done(s, k), rank)

Ordered(s, n, edits, rank) ==
  /\ n \in Nat /\ s \in [1..n -> edits]
  /\ \A i, j \in 1..n : i < j => Precedes(s[i], s[j], rank)
  /\ \A e \in edits : \E i \in 1..n : s[i] = e

\* An edit that ends before the last one begins, ends before all that were made.
LEMMA StackedBelow ==
  ASSUME NEW edits, NEW rank \in Ranks, NEW l, Sound(l, edits),
         NEW s, NEW n, Ordered(s, n, edits, rank),
         NEW k \in 1..n, NEW j \in 1..(k - 1), s[k].end <= s[k - 1].start
  PROVE  s[k].end <= s[j].start
<1>1. k - 1 \in 1..n /\ j \in 1..n /\ k \in Nat /\ j \in Nat /\ n \in Nat
  BY DEF Ordered
<1>2. s[k].end \in Nat /\ s[k - 1].start \in Nat /\ s[j].start \in Nat
  BY <1>1 DEF Ordered, Sound, Placed
<1>3. s[k - 1].start <= s[j].start
  <2>1. CASE j = k - 1 BY <1>2, <2>1
  <2>2. CASE j # k - 1
    <3>1. j < k - 1 BY <1>1, <2>2
    <3>2. Precedes(s[j], s[k - 1], rank) BY <1>1, <3>1 DEF Ordered
    <3> QED BY <1>2, <3>2 DEF Precedes, Backwards
  <2> QED BY <2>1, <2>2
<1> QED BY <1>2, <1>3

\* One edit of the loop: the heart of the induction.
LEMMA ReachedNext ==
  ASSUME NEW edits, NEW rank \in Ranks, NEW l, Sound(l, edits),
         NEW s, NEW n, Ordered(s, n, edits, rank), NEW k \in 1..n,
         NEW m, Reached(m, l, s, k - 1, rank)
  PROVE  Reached(ApplyEdit(m, s[k]), l, s, k, rank)
<1> DEFINE e == s[k]
           before == Done(s, k - 1)
           T == Together(l, before, rank)
           next == ApplyEdit(m, e)
<1>1. n \in Nat /\ k \in Nat /\ k # 0 /\ k - 1 \in Nat /\ e \in edits
  BY DEF Ordered
<1>2. before \subseteq edits /\ Done(s, k) = before \cup {e}
  <2>1. 1..k = 1..(k - 1) \cup {k} BY <1>1
  <2> QED BY <1>1, <2>1 DEF Done, Ordered
<1>3. /\ Placed(l, before) /\ Placed(l, {e}) /\ Placed(l, before \cup {e})
      /\ l.text \in Seq(Tokens) /\ Len(l.text) \in Nat
  BY <1>1, <1>2 DEF Sound, Placed
<1>4. /\ m \in Attempts /\ m.ok \in BOOLEAN
      /\ e.start \in Nat /\ e.end \in Nat /\ e.end <= Len(l.text)
  BY <1>1 DEF Reached, Attempts, Sound, Placed
<1>5. Stacked(s, k) <=> Stacked(s, k - 1) /\ (k > 1 => e.end <= s[k - 1].start)
  <2>1. 2..k = 2..(k - 1) \cup (IF k > 1 THEN {k} ELSE {}) BY <1>1
  <2> QED BY <2>1 DEF Stacked
<1>6. CASE ~m.ok
  <2>1. next = [m EXCEPT !.ok = FALSE]
    BY <1>6 DEF ApplyEdit
  <2>2. next \in Attempts /\ next.ok = FALSE
    BY <1>4, <2>1 DEF Attempts
  <2>3. ~Stacked(s, k) BY <1>5, <1>6 DEF Reached
  <2> QED BY <2>2, <2>3 DEF Reached
<1>7. CASE m.ok /\ ~(e.end <= m.last)
  <2>1. next = [m EXCEPT !.ok = FALSE]
    BY <1>7 DEF ApplyEdit
  <2>2. next \in Attempts /\ next.ok = FALSE
    BY <1>4, <2>1 DEF Attempts
  <2>3. k > 1 /\ m.last = s[k - 1].start
    BY <1>1, <1>3, <1>4, <1>7 DEF Reached
  <2>4. ~Stacked(s, k) BY <1>5, <1>7, <2>3
  <2> QED BY <2>2, <2>4 DEF Reached
<1>8. CASE m.ok /\ e.end <= m.last
  <2>1. m.text = T /\ Stacked(s, k - 1)
    BY <1>8 DEF Reached
  <2>2. k > 1 => e.end <= s[k - 1].start
    BY <1>1, <1>8 DEF Reached
  <2>3. \A f \in before : e.end <= f.start
    <3>1. ASSUME NEW j \in 1..(k - 1) PROVE e.end <= s[j].start
      <4>1. k > 1 BY <1>1
      <4> QED BY <2>2, <4>1, StackedBelow
    <3> QED BY <3>1 DEF Done
  <2>4. ASSUME NEW f \in before, f.start = e.start
        PROVE  f.end = f.start /\ rank[e.of] < rank[f.of]
    <3>1. PICK j \in 1..(k - 1) : f = s[j]
      BY DEF Done
    <3>2. j \in 1..n /\ j < k
      BY <1>1
    <3>3. Precedes(f, e, rank)
      BY <3>1, <3>2 DEF Ordered
    <3>4. f \in edits /\ f.start \in Nat /\ f.end \in Nat /\ e.start <= e.end
      BY <1>1, <1>2 DEF Sound, Placed
    <3>5. e.start = e.end
      BY <1>4, <2>3, <2>4, <3>4
    <3>6. f.end = f.start /\ e.comment /\ f.comment
      BY <1>1, <2>4, <3>4, <3>5 DEF Sound
    <3>7. rank[f.of] > rank[e.of]
      BY <1>4, <2>4, <3>3, <3>6 DEF Precedes, Backwards
    <3>8. rank[f.of] \in Nat /\ rank[e.of] \in Nat
      BY <1>1, <3>4, RankType DEF Sound, Placed
    <3> QED BY <3>6, <3>7, <3>8
  <2>5. /\ Between(T, e.start, e.end) = e.old
        /\ Together(l, before \cup {e}, rank)
             = Between(T, 0, e.start) \o e.new \o Between(T, e.end, Len(T))
    <3>1. Makes(T, e, Together(l, before \cup {e}, rank))
      <4> HIDE DEF before, e
      <4> QED BY <1>3, <2>3, <2>4, NextEdit
    <3> QED BY <3>1 DEF Makes
  <2>6. next = [ok |-> TRUE, last |-> e.start,
                text |-> Between(T, 0, e.start) \o e.new \o Between(T, e.end, Len(T))]
    <3> HIDE DEF T, e
    <3> QED BY <1>8, <2>1, <2>5 DEF ApplyEdit
  <2>7. next = [ok |-> TRUE, last |-> e.start, text |-> Together(l, Done(s, k), rank)]
    <3> HIDE DEF next, T, e, before
    <3> QED BY <1>2, <2>5, <2>6
  <2>8. Together(l, Done(s, k), rank) \in Seq(Tokens)
    BY <1>2, <1>3, TogetherType
  <2>9. /\ next \in Attempts /\ next.ok = TRUE /\ next.last = s[k].start
        /\ next.text = Together(l, Done(s, k), rank)
    <3> HIDE DEF next
    <3> QED BY <1>4, <2>7, <2>8 DEF Attempts
  <2>10. Stacked(s, k)
    BY <1>5, <2>1, <2>2
  <2> HIDE DEF next
  <2>11. Reached(next, l, s, k, rank)
    BY <1>1, <2>9, <2>10 DEF Reached
  <2> QED BY <2>11 DEF next
<1> QED BY <1>4, <1>6, <1>7, <1>8

\* No edit ends behind the beginning of the one made before it if, and only if,
\* no two overlap.
LEMMA StackedDisjoint ==
  ASSUME NEW edits, NEW rank \in Ranks, NEW l, Sound(l, edits),
         NEW s, NEW n, Ordered(s, n, edits, rank)
  PROVE  Stacked(s, n) <=> Disjoint(edits)
<1>1. \A e \in edits : e.start \in Nat /\ e.end \in Nat /\ e.start <= e.end
  BY DEF Sound, Placed
<1>2. n \in Nat /\ \A i \in 1..n : s[i] \in edits
  BY DEF Ordered
<1>3. ASSUME Stacked(s, n), NEW i \in 1..n, NEW j \in 1..n, i < j
      PROVE  s[j].end <= s[i].start
  <2>1. j \in 2..n /\ i \in 1..(j - 1) BY <1>2, <1>3
  <2>2. s[j].end <= s[j - 1].start BY <1>3, <2>1 DEF Stacked
  <2> QED BY <2>1, <2>2, StackedBelow
<1>4. ASSUME Stacked(s, n) PROVE Disjoint(edits)
  <2>1. SUFFICES ASSUME NEW e \in edits, NEW f \in edits, e # f
                 PROVE  e.end <= f.start \/ f.end <= e.start
    BY DEF Disjoint
  <2>2. PICK i \in 1..n : s[i] = e BY DEF Ordered
  <2>3. PICK j \in 1..n : s[j] = f BY DEF Ordered
  <2>4. i < j \/ j < i BY <1>2, <2>1, <2>2, <2>3
  <2> QED BY <1>3, <1>4, <2>2, <2>3, <2>4
<1>5. ASSUME Disjoint(edits) PROVE Stacked(s, n)
  <2>1. SUFFICES ASSUME NEW j \in 2..n PROVE s[j].end <= s[j - 1].start
    BY DEF Stacked
  <2> DEFINE i == j - 1
             e == s[j]
             f == s[i]
  <2>2. i \in 1..n /\ j \in 1..n /\ i < j
    BY <1>2
  <2>3. Precedes(f, e, rank) /\ e \in edits /\ f \in edits
    BY <2>2 DEF Ordered
  <2>4. e # f
    <3>1. ~Precedes(e, e, rank) BY <2>3, PrecedesOrder DEF Sound
    <3> QED BY <2>3, <3>1
  <2>5. e.end <= f.start \/ f.end <= e.start
    BY <1>5, <2>3, <2>4 DEF Disjoint
  <2>6. e.start <= f.start
    BY <1>1, <2>3 DEF Precedes, Backwards
  <2>7. CASE f.end <= e.start
    <3>1. f.start = f.end /\ e.start = f.start
      <4> HIDE DEF e, f
      <4> QED BY <1>1, <2>3, <2>6, <2>7
    <3>2. e.end = e.start
      <4> HIDE DEF e, f
      <4> QED BY <2>3, <3>1 DEF Sound
    <3> HIDE DEF e, f
    <3>3. e.end <= f.start BY <1>1, <2>3, <3>1, <3>2
    <3> QED BY <3>3 DEF e, f
  <2> QED BY <2>5, <2>7
<1> QED BY <1>4, <1>5

\* What applyEdits makes of all of them.
LEMMA AppliedAll ==
  ASSUME NEW edits, NEW rank \in Ranks, NEW l, Sound(l, edits),
         NEW made, made = Applied(l, Sorted(edits, rank))
  PROVE  /\ made \in Attempts
         /\ made.ok <=> Disjoint(edits)
         /\ made.ok => made.text = Together(l, edits, rank)
<1> DEFINE n == Cardinality(edits)
           s == Sorted(edits, rank)
<1>1. Ordered(s, n, edits, rank)
  BY SortedOK DEF Sound, Ordered
<1>2. n \in Nat /\ Len(s) = n
  <2>1. n \in Nat /\ s \in [1..n -> edits] BY <1>1 DEF Ordered
  <2> HIDE DEF s, n
  <2> QED BY <2>1
<1> HIDE DEF s, n
<1>3. PICK f : Applies(f, l, s, n) /\ Applied(l, s) = f[n]
  BY <1>2, AppliedIs
<1> DEFINE T == {k \in 0..n : Reached(f[k], l, s, k, rank)}
<1>4. 0 \in T
  <2>1. f[0] = Untried(l) BY <1>3 DEF Applies
  <2>2. l.text \in Seq(Tokens) /\ Len(l.text) + 1 \in Nat BY LenProperties DEF Sound
  <2>3. f[0] \in Attempts /\ f[0].ok = TRUE /\ f[0].last = Len(l.text) + 1 /\ f[0].text = l.text
    BY <2>1, <2>2 DEF Untried, Attempts
  <2>4. Done(s, 0) = {} BY DEF Done
  <2>5. Together(l, Done(s, 0), rank) = l.text BY <2>2, <2>4, TogetherNone
  <2>6. Stacked(s, 0) BY DEF Stacked
  <2>7. Reached(f[0], l, s, 0, rank) BY <2>3, <2>5, <2>6 DEF Reached
  <2> QED BY <1>2, <2>7
<1>5. ASSUME NEW k \in 1..n, k - 1 \in T PROVE k \in T
  <2>1. f[k] = ApplyEdit(f[k - 1], s[k]) BY <1>3 DEF Applies
  <2>2. Reached(f[k - 1], l, s, k - 1, rank) BY <1>5
  <2>3. Reached(ApplyEdit(f[k - 1], s[k]), l, s, k, rank)
    BY <1>1, <2>2, ReachedNext
  <2> QED BY <1>2, <2>1, <2>3
<1>6. 0..n \subseteq T
  <2> HIDE DEF T
  <2> QED BY <1>2, <1>4, <1>5, Induction
<1>7. Reached(made, l, s, n, rank)
  <2>1. n \in 0..n BY <1>2
  <2>2. Reached(f[n], l, s, n, rank) BY <1>6, <2>1
  <2> QED BY <1>3, <2>2 DEF s
<1>8. Done(s, n) = edits
  BY <1>1 DEF Done, Ordered
<1>9. Stacked(s, n) <=> Disjoint(edits)
  BY <1>1, StackedDisjoint
<1> QED BY <1>7, <1>8, <1>9 DEF Reached

-----------------------------------------------------------------------------
(* The edits of a plan                                                      *)

\* Upto finds the first of these tokens, LineStart the last line end.
LEMMA UptoOK ==
  ASSUME NEW text, NEW tokens, NEW q \in Nat, NEW p \in 0..q
  PROVE  LET u == Upto(text, tokens, p, q)
         IN /\ u \in p..q
            /\ u # q => text[u + 1] \in tokens
            /\ \A k \in (p + 1)..u : text[k] \notin tokens
<1> DEFINE S == {q} \cup {k \in p..(q - 1) : text[k + 1] \in tokens}
           u == Min(S)
<1>1. S \in SUBSET Nat /\ q \in S
  OBVIOUS
<1>2. u \in S /\ \A y \in S : u <= y
  <2> HIDE DEF S
  <2> QED BY <1>1, LeastOK
<1>3. u \in p..q /\ (u # q => text[u + 1] \in tokens)
  <2> HIDE DEF u
  <2> QED BY <1>2
<1>4. ASSUME NEW k \in (p + 1)..u PROVE text[k] \notin tokens
  <2>1. k - 1 \in p..(q - 1) /\ (k - 1) + 1 = k /\ ~(u <= k - 1)
    <3> HIDE DEF u
    <3> QED BY <1>3
  <2>2. k - 1 \notin S
    <3> HIDE DEF S
    <3> QED BY <1>2, <2>1 DEF u
  <2> QED BY <2>1, <2>2
<1>5. Upto(text, tokens, p, q) = u
  BY DEF Upto
<1> HIDE DEF u
<1> QED BY <1>3, <1>4, <1>5

LEMMA LineStartOK ==
  ASSUME NEW text, NEW p \in Nat
  PROVE  /\ LineStart(text, p) \in 0..p
         /\ \A k \in (LineStart(text, p) + 1)..p : text[k] # "newline"
<1> DEFINE S == {0} \cup {k \in 1..p : text[k] = "newline"}
<1>1. S \in SUBSET (0..p) /\ S # {}
  OBVIOUS
<1>2. Max(S) \in S /\ \A y \in S : y <= Max(S)
  <2> HIDE DEF S
  <2> QED BY <1>1, GreatestOK
<1>3. LineStart(text, p) = Max(S)
  BY DEF LineStart
<1> DEFINE m == Max(S)
<1>4. m \in 0..p
  <2> HIDE DEF S, m
  <2> QED BY <1>1, <1>2 DEF m
<1>5. ASSUME NEW k \in (m + 1)..p PROVE text[k] # "newline"
  <2>1. k \in 1..p /\ ~(k <= m)
    <3> HIDE DEF m
    <3> QED BY <1>4
  <2>2. k \notin S
    <3> HIDE DEF S
    <3> QED BY <1>2, <2>1
  <2> QED BY <2>1, <2>2
<1> HIDE DEF m
<1>6. LineStart(text, p) = m BY <1>3 DEF m
<1> QED BY <1>4, <1>5, <1>6

\* What one edit of a plan is like.
EditOK(l, e) ==
  /\ e.start \in Nat /\ e.end \in Nat /\ e.start <= e.end /\ e.end <= Len(l.text)
  /\ e.new \in Seq(Tokens) /\ e.old = Between(l.text, e.start, e.end)
  /\ e.start = e.end =>
       e.comment /\ l.actions # {}
         /\ (e.start = Len(l.text) \/ l.text[e.start + 1] \in LineEnds)
  /\ e.start < e.end /\ l.actions # {} => l.text[e.start + 1] \notin LineEnds

\* No value is empty, nor has a line end in a file with actions.
LEMMA ValueTokens ==
  ASSUME NEW l \in Layouts, NEW d \in Deps, Editable(l, d)
  PROVE  /\ l.start[d] \in Nat /\ l.end[d] \in Nat /\ l.start[d] < l.end[d]
         /\ l.end[d] <= Len(l.text) /\ l.text \in Seq(Tokens)
         /\ l.actions # {} =>
              \A k \in (l.start[d] + 1)..l.end[d] : l.text[k] \notin LineEnds
<1> DEFINE text == l.text
           s == l.start[d]
           t == l.end[d]
<1>1. /\ text \in Seq(Tokens) /\ t \in Nat /\ s \in 0..(t - 1) /\ t <= Len(text)
      /\ Between(text, s, t) = l.value[d]
      /\ l.actions # {} => LineEnds \cap Range(l.value[d]) = {}
  BY LayoutsAssumption DEF Editable
<1>2. Len(text) \in Nat BY <1>1, LenProperties
<1> HIDE DEF text, s, t
<1>3. s \in Nat /\ s < t BY <1>1
<1>4. ASSUME NEW k \in (s + 1)..t, l.actions # {} PROVE text[k] \notin LineEnds
  <2> DEFINE v == SubSeq(text, s + 1, t)
             a == s + 1
             i == k - s
  <2>1. \A j \in a..t : text[j] \in Tokens
    BY <1>1, <1>2, <1>3
  <2>2. a \in Int /\ t \in Int /\ a <= t /\ i \in 1..(t - a + 1) /\ a + i - 1 = k
    BY <1>1, <1>3
  <2> HIDE DEF a, i
  <2>3. /\ SubSeq(text, a, t) \in Seq(Tokens)
        /\ Len(SubSeq(text, a, t)) = IF a <= t THEN t - a + 1 ELSE 0
        /\ \A j \in 1..(t - a + 1) : SubSeq(text, a, t)[j] = text[a + j - 1]
    BY <2>1, <2>2, SubSeqProperties
  <2>4. v \in Seq(Tokens) /\ Len(v) = t - a + 1 /\ v[i] = text[k]
    BY <2>2, <2>3 DEF a
  <2> HIDE DEF v
  <2>5. i \in DOMAIN v BY <2>2, <2>4
  <2>6. text[k] \in Range(v) BY <2>4, <2>5 DEF Range
  <2>7. v = l.value[d] BY <1>1 DEF Between, v
  <2> QED BY <1>1, <1>4, <2>6, <2>7
<1>5. /\ s \in Nat /\ t \in Nat /\ s < t /\ t <= Len(text) /\ text \in Seq(Tokens)
      /\ l.actions # {} => \A k \in (s + 1)..t : text[k] \notin LineEnds
  BY <1>1, <1>3, <1>4
<1> QED BY <1>5 DEF s, t, text

\* The edit of a value.
LEMMA ValueEditOK ==
  ASSUME NEW l \in Layouts, NEW d \in Deps, Editable(l, d)
  PROVE  EditOK(l, Edit(l, d, FALSE, l.start[d], l.end[d], l.new[d]))
<1> DEFINE s == l.start[d]
           t == l.end[d]
<1>1. /\ s \in Nat /\ t \in Nat /\ s < t /\ t <= Len(l.text)
      /\ l.actions # {} => \A k \in (s + 1)..t : l.text[k] \notin LineEnds
  BY ValueTokens
<1>2. l.new[d] \in Seq(Tokens) BY LayoutsAssumption
<1> HIDE DEF s, t
<1>3. s + 1 \in (s + 1)..t BY <1>1
<1>4. EditOK(l, Edit(l, d, FALSE, s, t, l.new[d]))
  BY <1>1, <1>2, <1>3 DEF EditOK, Edit
<1> QED BY <1>4 DEF s, t

\* A comment is added where a line ends, and one that is there is not empty.
LEMMA CommentEditOK ==
  ASSUME NEW l \in Layouts, NEW d \in l.actions, Editable(l, d), NEW e \in CommentEdits(l, d)
  PROVE  EditOK(l, e) /\ e.of = d /\ e.comment = TRUE
<1> DEFINE text == l.text
           s == l.start[d]
           t == l.end[d]
           from == LineStart(text, s)
           to == LineEnd(text, t)
           mark == Upto(text, {"#"}, from, to)
           last == IF to > from /\ text[to] = "return" THEN to - 1 ELSE to
           start == Upto(text, Range(text) \ {"blank"}, mark + 1, to)
           end == Upto(text, {"blank", "return"}, start, to)
           new == <<"blank", "#", "blank", l.note[d]>>
<1>1. d \in Deps /\ l.actions # {}
  BY LayoutsAssumption
<1>2. /\ s \in Nat /\ t \in Nat /\ s < t /\ t <= Len(text)
      /\ \A k \in (s + 1)..t : text[k] \notin LineEnds
      /\ text \in Seq(Tokens) /\ Len(text) \in Nat
  <2>1. /\ s \in Nat /\ t \in Nat /\ s < t /\ t <= Len(text) /\ text \in Seq(Tokens)
        /\ \A k \in (s + 1)..t : text[k] \notin LineEnds
    BY <1>1, ValueTokens
  <2>2. Len(text) \in Nat BY <2>1, LenProperties
  <2> QED BY <2>1, <2>2
<1>3. <<l.note[d]>> \in Seq(Tokens) /\ new \in Seq(Tokens) /\ <<>> \notin l.versions[d]
  <2>1. /\ l.note[d] \in Tokens /\ "blank" \in Tokens /\ "#" \in Tokens
        /\ <<>> \notin l.versions[d]
    BY <1>1, LayoutsAssumption, TokensAssumption
  <2> QED BY <2>1
<1>4. IF mark = to THEN e = Edit(l, d, TRUE, last, last, new)
      ELSE e = Edit(l, d, TRUE, start, end, <<l.note[d]>>) /\ e.old \in l.versions[d]
  BY DEF CommentEdits
<1> HIDE DEF text, s, t
<1>5. from \in 0..s /\ \A k \in (from + 1)..s : text[k] # "newline"
  BY <1>2, LineStartOK
<1>6. /\ to \in t..Len(text) /\ (to # Len(text) => text[to + 1] = "newline")
      /\ \A k \in (t + 1)..to : text[k] # "newline"
  <2> DEFINE u == Upto(text, {"newline"}, t, Len(text))
  <2>1. /\ u \in t..Len(text) /\ (u # Len(text) => text[u + 1] \in {"newline"})
        /\ \A k \in (t + 1)..u : text[k] \notin {"newline"}
    <3>1. t \in 0..Len(text) BY <1>2
    <3> QED BY <1>2, <3>1, UptoOK
  <2> QED BY <2>1 DEF LineEnd
<1> HIDE DEF from, to
<1>7. /\ from \in Nat /\ to \in Nat /\ from <= s /\ t <= to /\ to <= Len(text)
      /\ from \in 0..to /\ from < to
  BY <1>2, <1>5, <1>6
<1>8. ASSUME NEW k \in (from + 1)..to PROVE text[k] # "newline"
  <2>1. CASE k <= s BY <1>2, <1>5, <1>7, <2>1
  <2>2. CASE k > s /\ k <= t BY <1>2, <1>7, <2>2 DEF LineEnds
  <2>3. CASE k > t BY <1>2, <1>6, <1>7, <2>3
  <2> QED BY <1>2, <1>7, <2>1, <2>2, <2>3
<1>9. mark \in from..to
  BY <1>7, UptoOK
<1> HIDE DEF mark
<1>10. CASE mark = to
  <2>1. /\ last \in Nat /\ last <= Len(text)
        /\ last = Len(text) \/ text[last + 1] \in LineEnds
    <3>1. CASE to > from /\ text[to] = "return"
      <4>1. last = to - 1 /\ last + 1 = to BY <1>7, <3>1
      <4> HIDE DEF last
      <4> QED BY <1>7, <3>1, <4>1 DEF LineEnds
    <3>2. CASE ~(to > from /\ text[to] = "return")
      <4>1. last = to BY <3>2
      <4> HIDE DEF last
      <4> QED BY <1>6, <1>7, <4>1 DEF LineEnds
    <3> QED BY <3>1, <3>2
  <2>2. e = Edit(l, d, TRUE, last, last, new)
    BY <1>4, <1>10
  <2> HIDE DEF last, new
  <2> QED BY <1>1, <1>3, <2>1, <2>2 DEF EditOK, Edit, text
<1>11. CASE mark # to
  <2>1. mark \in Nat /\ mark + 1 \in 0..to /\ mark >= from
    BY <1>7, <1>9, <1>11
  <2>2. start \in (mark + 1)..to
    BY <1>7, <2>1, UptoOK
  <2> HIDE DEF start
  <2>3. start \in 0..to /\ start >= from /\ start \in Nat
    <3> DEFINE c == mark + 1
    <3>1. c \in Nat /\ c >= from /\ start \in c..to /\ to \in Nat /\ from \in Nat
      BY <1>7, <2>1, <2>2
    <3> HIDE DEF c
    <3> QED BY <3>1
  <2>4. end \in start..to /\ \A k \in (start + 1)..end : text[k] \notin {"blank", "return"}
    BY <1>7, <2>3, UptoOK
  <2>5. e = Edit(l, d, TRUE, start, end, <<l.note[d]>>) /\ e.old \in l.versions[d]
    BY <1>4, <1>11
  <2> HIDE DEF end
  <2>6. end \in Nat /\ start <= end /\ end <= Len(text)
    BY <1>7, <2>3, <2>4
  <2>7. start # end
    <3>1. SUFFICES ASSUME start = end PROVE FALSE
      OBVIOUS
    <3>2. e.old = SubSeq(text, start + 1, end) BY <2>5 DEF Edit, Between, text
    <3>3. SubSeq(text, start + 1, end) = <<>> BY <2>3, <2>6, <3>1, SubSeqEmpty
    <3> QED BY <1>3, <2>5, <3>2, <3>3
  <2>8. text[start + 1] \notin LineEnds
    <3>1. start + 1 \in (start + 1)..end /\ start + 1 \in (from + 1)..to
      BY <1>7, <2>3, <2>4, <2>6, <2>7
    <3> QED BY <1>8, <2>4, <3>1 DEF LineEnds
  <2> QED BY <1>3, <2>3, <2>5, <2>6, <2>7, <2>8 DEF EditOK, Edit, text
<1> QED BY <1>10, <1>11

\* A dependency has one comment at most.
LEMMA OneComment ==
  ASSUME NEW l, NEW d
  PROVE  \E x : CommentEdits(l, d) \subseteq {x}
<1> DEFINE from == LineStart(l.text, l.start[d])
           to == LineEnd(l.text, l.end[d])
           mark == Upto(l.text, {"#"}, from, to)
           last == IF to > from /\ l.text[to] = "return" THEN to - 1 ELSE to
           start == Upto(l.text, Range(l.text) \ {"blank"}, mark + 1, to)
           end == Upto(l.text, {"blank", "return"}, start, to)
           x == IF mark = to
                THEN Edit(l, d, TRUE, last, last, <<"blank", "#", "blank", l.note[d]>>)
                ELSE Edit(l, d, TRUE, start, end, <<l.note[d]>>)
<1>1. CommentEdits(l, d) = IF mark = to THEN {x} ELSE {e \in {x} : e.old \in l.versions[d]}
  BY DEF CommentEdits
<1>2. CommentEdits(l, d) \subseteq {x}
  <2> HIDE DEF x, mark, to
  <2> QED BY <1>1
<1> HIDE DEF x
<1> QED BY <1>2

\* There are finitely many edits.
LEMMA EditsFinite ==
  ASSUME NEW l, Offered \subseteq Deps
  PROVE  IsFiniteSet(EditsIn(l))
<1> DEFINE all == {EditsOf(l, d) : d \in Offered}
           f == [d \in Offered |-> EditsOf(l, d)]
<1>1. ASSUME NEW d \in Offered PROVE IsFiniteSet(EditsOf(l, d))
  <2> DEFINE v == Edit(l, d, FALSE, l.start[d], l.end[d], l.new[d])
  <2>1. PICK x : CommentEdits(l, d) \subseteq {x} BY OneComment
  <2>2. EditsOf(l, d) \subseteq {v} \cup {x} BY <2>1 DEF EditsOf
  <2>3. IsFiniteSet({v}) /\ IsFiniteSet({x}) BY FS_Singleton
  <2>4. IsFiniteSet({v} \cup {x})
    <3> HIDE DEF v
    <3> QED BY <2>3, FS_Union
  <2> HIDE DEF v
  <2> QED BY <2>2, <2>4, FS_Subset
<1>2. IsFiniteSet(Offered)
  <2>1. IsFiniteSet(Deps) BY TokensAssumption
  <2>2. IsFiniteSet(Deps \cap Offered) BY <2>1, FS_Intersection
  <2>3. Deps \cap Offered = Offered OBVIOUS
  <2> QED BY <2>2, <2>3
<1>3. f \in Surjection(Offered, all)
  BY DEF Surjection
<1>4. IsFiniteSet(all)
  <2> HIDE DEF f, all
  <2> QED BY <1>2, <1>3, FS_Surjection
<1>5. \A T \in all : IsFiniteSet(T) BY <1>1
<1>6. EditsIn(l) = UNION all BY DEF EditsIn
<1> HIDE DEF all
<1> QED BY <1>4, <1>5, <1>6, FS_UNION

\* What the lemmas about edits ask for holds of the edits of every plan.
LEMMA EditsSound ==
  ASSUME NEW l \in Layouts, Offered \subseteq Deps, \A d \in Offered : Editable(l, d)
  PROVE  Sound(l, EditsIn(l))
<1> DEFINE edits == EditsIn(l)
           Value(d) == Edit(l, d, FALSE, l.start[d], l.end[d], l.new[d])
<1>1. ASSUME NEW e \in edits
      PROVE  \E d \in Offered : \/ e = Value(d)
                                \/ d \in l.actions /\ e \in CommentEdits(l, d)
  BY DEF EditsIn, EditsOf
<1>2. ASSUME NEW e \in edits
      PROVE  /\ EditOK(l, e) /\ e.of \in Offered /\ e.comment \in BOOLEAN
             /\ ~e.comment => e = Value(e.of)
             /\ e.comment => e \in CommentEdits(l, e.of)
  <2>1. PICK d \in Offered : e = Value(d) \/ (d \in l.actions /\ e \in CommentEdits(l, d))
    BY <1>1
  <2>2. CASE e = Value(d)
    <3>1. EditOK(l, Value(d)) BY ValueEditOK
    <3>2. e.of = d /\ e.comment = FALSE BY <2>2 DEF Edit
    <3> QED BY <2>2, <3>1, <3>2
  <2>3. CASE d \in l.actions /\ e \in CommentEdits(l, d)
    <3>1. EditOK(l, e) /\ e.of = d /\ e.comment = TRUE BY <2>3, CommentEditOK
    <3> QED BY <2>3, <3>1
  <2> QED BY <2>1, <2>2, <2>3
<1> HIDE DEF edits
<1>3. Placed(l, edits)
  <2>1. ASSUME NEW e \in edits
        PROVE  /\ e.start \in Nat /\ e.end \in Nat /\ e.start <= e.end /\ e.end <= Len(l.text)
               /\ e.of \in Deps /\ e.new \in Seq(Tokens)
               /\ e.old = Between(l.text, e.start, e.end)
    BY <1>2 DEF EditOK
  <2> QED BY <2>1 DEF Placed
<1>4. Distinct(edits)
  <2>1. ASSUME NEW e \in edits, NEW f \in edits, e.of = f.of, e.comment = f.comment
        PROVE  e = f
    <3>1. CASE e.comment
      <4>1. PICK x : CommentEdits(l, e.of) \subseteq {x} BY OneComment
      <4>2. e \in CommentEdits(l, e.of) BY <1>2, <3>1
      <4>3. f \in CommentEdits(l, e.of) BY <1>2, <2>1, <3>1
      <4> QED BY <4>1, <4>2, <4>3
    <3>2. CASE ~e.comment
      <4>1. e = Value(e.of) BY <1>2, <3>2
      <4>2. f = Value(e.of)
        <5>1. f = Value(f.of) BY <1>2, <2>1, <3>2
        <5> QED BY <2>1, <5>1
      <4> HIDE DEF Value
      <4> QED BY <4>1, <4>2
    <3> QED BY <3>1, <3>2
  <2> QED BY <1>2, <2>1 DEF Distinct
<1>5. \A e \in edits : e.start = e.end => e.comment
  BY <1>2 DEF EditOK
<1>6. ASSUME NEW e \in edits, NEW f \in edits, e.start = e.end, f.start = e.start
      PROVE  f.end = f.start
  <2>1. EditOK(l, e) /\ EditOK(l, f) BY <1>2
  <2>2. Len(l.text) \in Nat BY LayoutsAssumption, LenProperties
  <2>3. l.actions # {} /\ (e.start = Len(l.text) \/ l.text[e.start + 1] \in LineEnds)
    BY <1>6, <2>1 DEF EditOK
  <2>4. SUFFICES ASSUME f.start < f.end PROVE FALSE
    BY <2>1 DEF EditOK
  <2>5. l.text[f.start + 1] \notin LineEnds /\ f.start # Len(l.text)
    BY <2>1, <2>2, <2>3, <2>4 DEF EditOK
  <2> QED BY <1>6, <2>3, <2>5
<1>7. l.text \in Seq(Tokens) BY LayoutsAssumption
<1>8. IsFiniteSet(edits) BY EditsFinite DEF edits
<1>9. Sound(l, edits) BY <1>3, <1>4, <1>5, <1>6, <1>7, <1>8 DEF Sound
<1> QED BY <1>9 DEF edits

-----------------------------------------------------------------------------
(* The selection                                                            *)

USE NameAssumption, RuleAssumption, ResultAssumption

-----------------------------------------------------------------------------
(* The inductive invariant: what each step has established when it is done.  *)

Classified == {"classified", "policed", "closed", "selected"}
Policed == Classified \ {"classified"}
Closed == Policed \ {"policed"}

\* Whatever is still outdated was found so, and by rules that agree.
OwnOK ==
  stage \in Classified =>
    \A d \in Deps : status[d] = "outdated" =>
      found[d].status = "outdated" /\ ~Conflicting(d)

PolicyOK ==
  stage \in Policed => \A d \in Deps : status[d] = "outdated" => Admitted(d)

\* A group with a member that can be updated has only such members.
GroupsOK ==
  stage \in Closed =>
    \A d \in Deps : group[d] # None /\ status[d] \in Actionable =>
      /\ Members(group[d]) \subseteq {e \in Deps : status[e] \in Actionable}
      /\ Shared(group[d]) => Agreeing(group[d])

SelectedOK ==
  stage = "selected" =>
    /\ listed = {d \in Deps : Split(group[d]) \/ Keep(d)}
    /\ selected = [d \in Deps |-> IF Split(group[d]) THEN "blocked" ELSE status[d]]

IInv == TypeOK /\ OwnOK /\ PolicyOK /\ GroupsOK /\ SelectedOK

-----------------------------------------------------------------------------
(* The rule that gives an entry its group                                   *)

\* The last rule is one of the rules, whose groups are named.
LEMMA GroupType ==
  ASSUME TypeOK, NEW d \in Deps
  PROVE  GroupOf(d) \in Groups \cup {None}
<1>1. CASE Grouping(d) = {}
  BY <1>1 DEF GroupOf
<1>2. CASE Grouping(d) # {}
  <2> DEFINE last == CHOOSE r \in Grouping(d) : \A q \in Grouping(d) : q <= r
  <2>1. Grouping(d) \in SUBSET (1..R) /\ Grouping(d) \in SUBSET (0..R)
    BY DEF Grouping, Matching
  <2>2. \E r \in Grouping(d) : \A q \in Grouping(d) : q <= r
    BY <1>2, <2>1, GreatestOK
  <2>3. last \in 1..R
    BY <2>1, <2>2
  <2>4. rules[last].group \in Groups \cup {None}
    <3> HIDE DEF last
    <3> QED BY <2>3 DEF TypeOK, Rules
  <2> QED BY <1>2, <2>4 DEF GroupOf
<1> QED BY <1>1, <1>2

-----------------------------------------------------------------------------
(* The steps.  The facts about the input are the same before and after.     *)

LEMMA InitIInv == Init => IInv
<1> SUFFICES ASSUME Init PROVE IInv
  OBVIOUS
<1>1. TypeOK
  BY DEF Init, TypeOK, Statuses
<1>2. OwnOK /\ PolicyOK /\ GroupsOK /\ SelectedOK
  BY DEF Init, OwnOK, PolicyOK, GroupsOK, SelectedOK, Classified, Policed, Closed
<1> QED BY <1>1, <1>2 DEF IInv

LEMMA ClassifyStep == ASSUME IInv, Classify PROVE IInv'
<1>1. stage' = "classified" /\ UNCHANGED <<rules, found, named, typed, group, listed, selected>>
  BY DEF Classify, input
<1>2. \A d \in Deps : found[d].status \in Statuses
  BY DEF IInv, TypeOK, Findings
<1>3. TypeOK'
  BY <1>1, <1>2 DEF IInv, TypeOK, Classify, Statuses
<1>4. \A d \in Deps : found[d].status = "outdated" => LookedUp(d)
  BY DEF LookedUp
<1>5. OwnOK'
  BY <1>1, <1>4 DEF OwnOK, Classify, Conflicting, Matching
<1>6. PolicyOK' /\ GroupsOK' /\ SelectedOK'
  BY <1>1 DEF PolicyOK, GroupsOK, SelectedOK, Policed, Closed
<1> QED BY <1>3, <1>5, <1>6 DEF IInv

LEMMA PoliceStep == ASSUME IInv, Police PROVE IInv'
<1>1. stage = "classified" /\ stage' = "policed"
      /\ UNCHANGED <<rules, found, named, typed, listed, selected>>
  BY DEF Police, input
<1>2. TypeOK'
  BY <1>1, GroupType DEF IInv, TypeOK, Police, Statuses
<1>3. OwnOK' /\ PolicyOK'
  BY <1>1 DEF IInv, OwnOK, PolicyOK, Police, Classified, Conflicting, Matching, Admitted
<1>4. GroupsOK' /\ SelectedOK'
  BY <1>1 DEF GroupsOK, SelectedOK, Closed, Policed
<1> QED BY <1>2, <1>3, <1>4 DEF IInv

LEMMA CloseStep == ASSUME IInv, Close PROVE IInv'
<1>1. stage = "policed" /\ stage' = "closed"
      /\ UNCHANGED <<rules, found, named, typed, group, listed, selected>>
  BY DEF Close, input
<1>2. \A d \in Deps :
        status'[d] = IF group[d] # None /\ Broken(group[d]) /\ status[d] \in Actionable
                     THEN "blocked" ELSE status[d]
  BY DEF Close
<1>3. TypeOK'
  BY <1>1 DEF IInv, TypeOK, Close, Statuses
<1>4. OwnOK' /\ PolicyOK'
  BY <1>1, <1>2
  DEF IInv, OwnOK, PolicyOK, Classified, Policed, Conflicting, Matching, Admitted
<1>5. GroupsOK'
  <2> SUFFICES ASSUME NEW d \in Deps, group[d] # None, status'[d] \in Actionable
               PROVE  /\ Members(group[d]) \subseteq {e \in Deps : status'[e] \in Actionable}
                      /\ Shared(group[d]) => Agreeing(group[d])
    BY <1>1 DEF GroupsOK, Members, Shared, Agreeing, Matching
  <2>1. ~Broken(group[d])
    BY <1>2 DEF Actionable
  <2>2. \A e \in Members(group[d]) : status'[e] = status[e] /\ status[e] \in Actionable
    BY <1>2, <2>1 DEF Members, Broken, HasGap
  <2> QED BY <2>1, <2>2 DEF Broken, Members
<1>6. SelectedOK'
  BY <1>1 DEF SelectedOK
<1> QED BY <1>3, <1>4, <1>5, <1>6 DEF IInv

LEMMA SelectStep == ASSUME IInv, Select PROVE IInv'
<1>1. stage = "closed" /\ stage' = "selected"
      /\ UNCHANGED <<rules, found, named, typed, group, status>>
  BY DEF Select, input
<1>2. TypeOK'
  BY <1>1 DEF IInv, TypeOK, Select, SplitStatus, Statuses
<1>3. OwnOK' /\ PolicyOK'
  BY <1>1
  DEF IInv, OwnOK, PolicyOK, Classified, Policed, Conflicting, Matching, Admitted
<1>4. GroupsOK'
  BY <1>1 DEF IInv, GroupsOK, Closed, Policed, Classified, Members, Shared, Agreeing, Matching
<1>5. SelectedOK'
  BY <1>1 DEF SelectedOK, Select, SplitStatus, Split, Keep, Members
<1> QED BY <1>2, <1>3, <1>4, <1>5 DEF IInv

LEMMA StutterStep == ASSUME IInv, UNCHANGED vars PROVE IInv'
<1>1. UNCHANGED <<rules, found, named, typed, stage, group, status, listed, selected>>
  BY DEF vars, input
<1>2. TypeOK' /\ OwnOK' /\ PolicyOK'
  BY <1>1 DEF IInv, TypeOK, OwnOK, PolicyOK, Conflicting, Matching, Admitted
<1>3. GroupsOK' /\ SelectedOK'
  BY <1>1 DEF IInv, GroupsOK, SelectedOK, Members, Shared, Agreeing, Matching, Split, Keep
<1> QED BY <1>2, <1>3 DEF IInv

-----------------------------------------------------------------------------
(* The invariant and what follows from it                                  *)

\* The invariant holds throughout.
THEOREM Invariance == Spec => []IInv
<1>1. IInv /\ [Next]_vars => IInv'
  BY ClassifyStep, PoliceStep, CloseStep, SelectStep, StutterStep DEF Next
<1> QED BY <1>1, InitIInv, PTL DEF Spec

\* Every variable has its type; no entry has a status that no report may have.
THEOREM TypeCorrect == Spec => []TypeOK
<1>1. IInv => TypeOK
  BY DEF IInv
<1> QED BY <1>1, Invariance, PTL

\* An update that is offered is in no group that the selection splits.
LEMMA OfferedKept ==
  ASSUME IInv, NEW d \in Offered
  PROVE  /\ stage = "selected" /\ d \in Deps /\ status[d] = "outdated"
         /\ ~Split(group[d]) /\ Keep(d)
<1>1. stage = "selected" /\ d \in listed /\ selected[d] = "outdated"
  BY DEF Offered
<1>2. d \in Deps
  BY <1>1 DEF IInv, TypeOK
<1> QED BY <1>1, <1>2 DEF IInv, SelectedOK

\* No group is ever offered in part.
THEOREM FamiliesWhole == Spec => []FamilyWhole
<1>1. IInv => FamilyWhole
  <2> SUFFICES ASSUME IInv, NEW d \in Offered, group[d] # None
               PROVE  /\ Members(group[d]) \subseteq listed
                      /\ \A e \in Members(group[d]) :
                           /\ selected[e] \in Actionable
                           /\ Shared(group[d]) => found[e].target = found[d].target
    BY DEF FamilyWhole
  <2>1. /\ stage = "selected" /\ d \in Deps /\ status[d] = "outdated"
        /\ ~Split(group[d]) /\ Keep(d) /\ d \in Members(group[d])
    BY OfferedKept DEF Members
  <2>2. /\ Members(group[d]) \subseteq {e \in Deps : status[e] \in Actionable}
        /\ Shared(group[d]) => Agreeing(group[d])
    BY <2>1 DEF IInv, GroupsOK, Closed, Policed, Classified, Actionable
  <2>3. \A e \in Members(group[d]) : e \in Deps /\ group[e] = group[d] /\ Keep(e)
    BY <2>1 DEF Split, Members
  <2>4. \A e \in Members(group[d]) : e \in listed /\ selected[e] = status[e]
    BY <2>1, <2>3 DEF IInv, SelectedOK
  <2> QED BY <2>1, <2>2, <2>4 DEF Agreeing
<1> QED BY <1>1, Invariance, PTL

\* Nothing is offered that was not chosen or that a rule forbids.
THEOREM PolicyKept == Spec => []OfferedWithinPolicy
<1>1. IInv => OfferedWithinPolicy
  <2> SUFFICES ASSUME IInv, NEW d \in Offered
               PROVE  /\ d \in named \cap typed /\ found[d].status = "outdated"
                      /\ Admitted(d) /\ ~Conflicting(d)
    BY DEF OfferedWithinPolicy, Admitted, Conflicting
  <2>1. stage = "selected" /\ d \in Deps /\ status[d] = "outdated" /\ Keep(d)
    BY OfferedKept
  <2> QED BY <2>1 DEF IInv, OwnOK, PolicyOK, Classified, Policed, Keep
<1> QED BY <1>1, Invariance, PTL

\* A selection by update type hides no failure.
THEOREM FailuresVisible == Spec => []FailuresStayVisible
<1>1. IInv => FailuresStayVisible
  <2> SUFFICES ASSUME IInv, stage = "selected", NEW d \in named, status[d] \in Incomplete
               PROVE  d \in listed /\ ~Complete
    BY DEF FailuresStayVisible
  <2>1. d \in Deps /\ Keep(d)
    BY DEF IInv, TypeOK, Keep, Incomplete
  <2>2. d \in listed /\ selected[d] \in Incomplete
    BY <2>1 DEF IInv, SelectedOK, Incomplete
  <2> QED BY <2>2 DEF Complete
<1> QED BY <1>1, Invariance, PTL

-----------------------------------------------------------------------------
(* Plans                                                                   *)

\* A plan is made of a complete selection, which no step changes again.
PlanOK ==
  /\ plan.stage = "none" \/ (plan.stage \in {"made", "refused"} /\ stage = "selected")
  /\ EditsExact

LEMMA InitPlanOK == EditInit => PlanOK
BY DEF EditInit, PlanOK, EditsExact

LEMMA PlanStep == ASSUME TypeOK, PlanOK, Plan PROVE PlanOK'
<1>1. /\ stage = "selected" /\ layout' \in Layouts /\ UNCHANGED vars
      /\ plan' \in
           IF \E d \in Offered : ~Editable(layout', d)
           THEN {[stage |-> "refused", text |-> <<>>]}
           ELSE {LET made == Applied(layout', Sorted(EditsIn(layout'), rank))
                 IN IF made.ok THEN [stage |-> "made", text |-> made.text]
                    ELSE [stage |-> "refused", text |-> <<>>] : rank \in Ranks}
  BY DEF Plan, Complete
<1>2. stage' = "selected" /\ Offered' = Offered /\ Offered \subseteq Deps
  BY <1>1 DEF Offered, vars, TypeOK
<1>3. EditsIn(layout)' = EditsIn(layout')
  BY <1>2 DEF EditsIn
<1>4. CASE \E d \in Offered : ~Editable(layout', d)
  <2>1. plan' = [stage |-> "refused", text |-> <<>>] BY <1>1, <1>4
  <2>2. plan'.stage = "refused" BY <2>1
  <2>3. \E d \in Offered' : ~Editable(layout', d) BY <1>2, <1>4
  <2> QED BY <1>2, <2>2, <2>3 DEF PlanOK, EditsExact
<1>5. CASE \A d \in Offered : Editable(layout', d)
  <2> DEFINE edits == EditsIn(layout')
  <2>1. PICK rank \in Ranks :
          plan' = LET made == Applied(layout', Sorted(edits, rank))
                  IN IF made.ok THEN [stage |-> "made", text |-> made.text]
                     ELSE [stage |-> "refused", text |-> <<>>]
    BY <1>1, <1>5
  <2> DEFINE made == Applied(layout', Sorted(edits, rank))
  <2>2. Sound(layout', edits)
    BY <1>1, <1>2, <1>5, EditsSound
  <2> HIDE DEF edits
  <2>3. /\ made \in Attempts
        /\ made.ok <=> Disjoint(edits)
        /\ made.ok => made.text = Together(layout', edits, rank)
    BY <2>2, AppliedAll
  <2> HIDE DEF made
  <2>4. plan' = IF made.ok THEN [stage |-> "made", text |-> made.text]
                ELSE [stage |-> "refused", text |-> <<>>]
    BY <2>1 DEF made
  <2>5. CASE made.ok
    <3>1. plan'.stage = "made" /\ plan'.text = Together(layout', edits, rank) /\ Disjoint(edits)
      BY <2>3, <2>4, <2>5
    <3>2. (EditsExact)'
      BY <1>3, <3>1 DEF EditsExact, edits
    <3> QED BY <1>2, <3>1, <3>2 DEF PlanOK
  <2>6. CASE ~made.ok
    <3>1. plan'.stage = "refused" /\ ~Disjoint(edits)
      BY <2>3, <2>4, <2>6
    <3>2. (EditsExact)'
      BY <1>3, <3>1 DEF EditsExact, edits
    <3> QED BY <1>2, <3>1, <3>2 DEF PlanOK
  <2> QED BY <2>5, <2>6
<1> QED BY <1>4, <1>5

LEMMA SelectionKeepsPlan ==
  ASSUME TypeOK, PlanOK, Next, UNCHANGED <<layout, plan>>
  PROVE  PlanOK'
<1>1. stage # "selected"
  BY DEF Next, Classify, Police, Close, Select
<1>2. plan'.stage = "none"
  BY <1>1 DEF PlanOK
<1> QED BY <1>2 DEF PlanOK, EditsExact

LEMMA EditStutter ==
  ASSUME PlanOK, UNCHANGED editVars
  PROVE  PlanOK'
<1>1. stage' = stage /\ plan' = plan /\ layout' = layout /\ Offered' = Offered
  BY DEF editVars, vars, Offered
<1>2. EditsIn(layout)' = EditsIn(layout)
  BY <1>1 DEF EditsIn
<1> QED BY <1>1, <1>2 DEF PlanOK, EditsExact

\* With its plans a run still selects as Selection does, so that what is known
\* of the selected updates is known of those that are planned.
THEOREM PlansSelect == EditSpec => Spec
<1>1. EditInit => Init
  BY DEF EditInit
<1>2. [EditNext]_editVars => [Next]_vars
  BY DEF EditNext, Plan, editVars
<1> QED BY <1>1, <1>2, PTL DEF EditSpec, Spec

\* A manifest is planned exactly when the values are where the scan saw them, have
\* replacements, and no two edits overlap, and then it is the manifest with the
\* approved edits and nothing else changed, in whatever order they are made.
THEOREM EditsAreExact == EditSpec => []EditsExact
<1>1. TypeOK /\ PlanOK /\ [EditNext]_editVars => PlanOK'
  BY PlanStep, SelectionKeepsPlan, EditStutter DEF EditNext
<1>2. PlanOK => EditsExact
  BY DEF PlanOK
<1>3. EditSpec => []TypeOK
  BY PlansSelect, TypeCorrect, PTL
<1> QED BY <1>1, <1>2, <1>3, InitPlanOK, PTL DEF EditSpec
=============================================================================
