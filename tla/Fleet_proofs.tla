---------------------------- MODULE Fleet_proofs ----------------------------
(***************************************************************************)
(* For every set of repositories and spellings, every list that may be     *)
(* asked for, all plans, and any number of failures, rate limits and       *)
(* changes: Fleet's states are well typed, each repository of a run is     *)
(* reported once, a deferral defers all that come after it, exit code zero *)
(* means what it says, and only what an apply returned is pushed.          *)
(***************************************************************************)
EXTENDS Fleet, FiniteSetTheorems, SequenceTheorems, TLAPS

-----------------------------------------------------------------------------
(* The order of a run *)

\* How many members of S are no greater than x: the place of x when S is
\* sorted.  It makes the sorted sequence of S without an induction over S.
Place(S, x) == Cardinality({y \in S : y <= x})

\* Sorting a finite set of numbers gives each of them one place.
LEMMA PlaceOK ==
  ASSUME NEW S \in SUBSET Nat, IsFiniteSet(S)
  PROVE  /\ Cardinality(S) \in Nat
         /\ \A x \in S : Place(S, x) \in 1..Cardinality(S)
         /\ \A x, y \in S : x < y => Place(S, x) < Place(S, y)
<1>1. Cardinality(S) \in Nat
  BY FS_CardinalityType
<1>2. ASSUME NEW x \in S
      PROVE  Place(S, x) \in 1..Cardinality(S)
  <2> DEFINE below == {y \in S : y <= x}
  <2>1. below \in SUBSET S /\ x \in below
    OBVIOUS
  <2>2. IsFiniteSet(below) /\ Cardinality(below) <= Cardinality(S)
    BY <2>1, FS_Subset
  <2>3. Cardinality(below) \in Nat /\ Cardinality(below) # 0
    BY <2>1, <2>2, FS_CardinalityType, FS_EmptySet
  <2> QED BY <1>1, <2>2, <2>3 DEF Place
<1>3. ASSUME NEW x \in S, NEW y \in S, x < y
      PROVE  Place(S, x) < Place(S, y)
  <2> DEFINE low == {z \in S : z <= x}
             high == {z \in S : z <= y}
  <2>1. low \in SUBSET high /\ high \in SUBSET S /\ y \in high /\ y \notin low
    <3>1. x \in Nat /\ y \in Nat /\ ~(y <= x) /\ y <= y
      BY <1>3
    <3>2. ASSUME NEW z \in S, z <= x PROVE z <= y
      <4>1. z \in Nat OBVIOUS
      <4> QED BY <1>3, <3>1, <3>2, <4>1
    <3> QED BY <3>1, <3>2
  <2>2. IsFiniteSet(high)
    BY <2>1, FS_Subset
  <2>3. /\ Cardinality(low) <= Cardinality(high)
        /\ Cardinality(low) # Cardinality(high)
        /\ IsFiniteSet(low)
    BY <2>1, <2>2, FS_Subset
  <2>4. Cardinality(low) \in Nat /\ Cardinality(high) \in Nat
    BY <2>2, <2>3, FS_CardinalityType
  <2> QED BY <2>3, <2>4 DEF Place
<1> QED BY <1>1, <1>2, <1>3

\* A finite set of numbers has a sorted sequence.
LEMMA SortedExists ==
  ASSUME NEW S \in SUBSET Nat, IsFiniteSet(S)
  PROVE  \E s \in [1..Cardinality(S) -> S] :
           \A i, j \in DOMAIN s : i < j => s[i] < s[j]
<1> DEFINE n == Cardinality(S)
           place == [x \in S |-> Place(S, x)]
<1>1. /\ n \in Nat /\ place \in [S -> 1..n]
      /\ \A x, y \in S : x < y => place[x] < place[y]
  BY PlaceOK
<1>2. place \in Injection(S, 1..n)
  <2>1. ASSUME NEW x \in S, NEW y \in S, place[x] = place[y]
        PROVE  x = y
    <3>1. x \in Nat /\ y \in Nat /\ place[x] \in Nat
      <4> HIDE DEF place, n
      <4> QED BY <1>1
    <3>2. ~(x < y) /\ ~(y < x) BY <1>1, <2>1
    <3> QED BY <3>1, <3>2
  <2> HIDE DEF place, n
  <2> QED BY <1>1, <2>1 DEF Injection, IsInjective
<1>3. IsFiniteSet(1..n) /\ Cardinality(1..n) = n
  BY <1>1, FS_Interval
<1> HIDE DEF place
<1>4. \A i \in 1..n : \E x \in S : place[x] = i
  <2>1. IsFiniteSet(S) /\ Cardinality(S) = Cardinality(1..n)
    BY <1>3
  <2>2. place \in Surjection(S, 1..n)
    BY <1>2, <1>3, <2>1, FS_Injection
  <2> QED BY <2>2 DEF Surjection
<1> DEFINE s == [i \in 1..n |-> CHOOSE x \in S : place[x] = i]
<1>5. s \in [1..n -> S] /\ \A i \in 1..n : place[s[i]] = i
  BY <1>4
<1>6. ASSUME NEW i \in 1..n, NEW j \in 1..n, i < j PROVE s[i] < s[j]
  <2>1. s[i] \in Nat /\ s[j] \in Nat /\ s[i] \in S /\ s[j] \in S
    BY <1>5
  <2>2. place[s[i]] = i /\ place[s[j]] = j
    BY <1>5
  <2>3. ~(s[j] < s[i]) /\ s[i] # s[j]
    BY <1>1, <1>6, <2>1, <2>2
  <2> QED BY <2>1, <2>3
<1> HIDE DEF s
<1> QED BY <1>5, <1>6

\* Of a list without doubles the run's order has each repository once.
LEMMA UniqueOK ==
  ASSUME NEW list \in Seq(Names), Valid(list)
  PROVE  /\ Unique(list) \in Seq(Names)
         /\ \A i, j \in DOMAIN Unique(list) :
              Fold[Unique(list)[i]] = Fold[Unique(list)[j]] => i = j
         /\ {Fold[Unique(list)[i]] : i \in DOMAIN Unique(list)}
              = {Fold[list[i]] : i \in DOMAIN list}
<1> DEFINE S == {list[i] : i \in DOMAIN list}
           firsts == {list[i] : i \in {k \in DOMAIN list :
                        \A j \in 1..(k - 1) : Fold[list[j]] # Fold[list[k]]}}
           n == Cardinality(S)
           s == Unique(list)
<1>1. firsts = S
  <2>1. ASSUME NEW k \in DOMAIN list, NEW j \in 1..(k - 1)
        PROVE  Fold[list[j]] # Fold[list[k]]
    BY DEF Valid
  <2> QED BY <2>1
<1>2. S \in SUBSET Names /\ S \in SUBSET Nat /\ IsFiniteSet(S) /\ n \in Nat
  <2>1. S \in SUBSET Names OBVIOUS
  <2> QED BY <2>1, NamesAssumption, FS_Subset, FS_CardinalityType
<1>3. s \in [1..n -> S] /\ \A i, j \in DOMAIN s : i < j => s[i] < s[j]
  <2>1. s = CHOOSE t \in [1..n -> S] :
              \A i, j \in DOMAIN t : i < j => t[i] < t[j]
    BY <1>1 DEF Unique
  <2> HIDE DEF S, s
  <2> QED BY <1>2, <2>1, SortedExists
<1>4. s \in Seq(Names) /\ DOMAIN s = 1..n
  <2> HIDE DEF S, s, n
  <2>1. s \in [1..n -> Names]
    BY <1>2, <1>3
  <2> QED BY <1>2, <2>1
<1>5. s \in Injection(1..n, S)
  <2>1. ASSUME NEW i \in 1..n, NEW j \in 1..n, s[i] = s[j] PROVE i = j
    <3> HIDE DEF S, s, n
    <3>1. /\ i \in Nat /\ j \in Nat /\ s[i] \in S /\ s[i] \in Nat
          /\ i < j => s[i] < s[j]
          /\ j < i => s[j] < s[i]
      <4>1. i \in Nat /\ j \in Nat
        BY <1>2
      <4>2. s[i] \in S /\ i \in DOMAIN s /\ j \in DOMAIN s
        BY <1>3
      <4> QED BY <1>2, <1>3, <4>1, <4>2
    <3> QED BY <2>1, <3>1
  <2> HIDE DEF S, s, n
  <2> QED BY <1>3, <2>1 DEF Injection, IsInjective
<1>6. \A x \in S : \E i \in 1..n : s[i] = x
  <2>1. IsFiniteSet(1..n) /\ Cardinality(1..n) = n
    BY <1>2, FS_Interval
  <2> HIDE DEF S, s
  <2> QED BY <1>2, <1>5, <2>1, FS_Injection DEF Surjection
<1>7. \A x, y \in S : Fold[x] = Fold[y] => x = y
  BY DEF Valid
<1>8. \A i, j \in DOMAIN s : Fold[s[i]] = Fold[s[j]] => i = j
  <2> HIDE DEF S, s, n
  <2> QED BY <1>3, <1>4, <1>5, <1>7 DEF Injection, IsInjective
<1>9. {Fold[s[i]] : i \in DOMAIN s} = {Fold[x] : x \in S}
  <2> HIDE DEF S, s, n
  <2> QED BY <1>3, <1>4, <1>6
<1>10. {Fold[x] : x \in S} = {Fold[list[i]] : i \in DOMAIN list}
  OBVIOUS
<1> HIDE DEF S, s
<1> QED BY <1>4, <1>8, <1>9, <1>10 DEF s
-----------------------------------------------------------------------------
(* The inductive invariant *)

Results == [name : Names, action : Actions, limit : 0..MaxLimits]

Runs == [pc : Steps, write : BOOLEAN, queue : Seq(Names), name : Names \cup {0},
         results : Seq(Results), found : Inventories \cup {"none"},
         cancelled : BOOLEAN, exit : 0..2, asked : SUBSET Repos,
         changed : SUBSET Repos]

TypeInv ==
  /\ metadata \in [Repos -> Metadata] /\ inventory \in [Repos -> Inventories]
  /\ synced \in SUBSET Repos /\ pushed \in [Repos -> Plans \cup {"none"}]
  /\ cooldown \in 0..MaxLimits
  /\ run \in Runs
  /\ budget \in [faults : 0..MaxFaults, limits : 0..MaxLimits, changes : 0..MaxChanges]

\* While runRepository is at work on a repository.
Working == {"repository", "clone", "update", "state", "commit", "reconcile"}
Hand(r) == IF r.pc \in Working THEN 1 ELSE 0

\* The repositories of a run in its order: those reported, the one in hand when
\* hand is 1, and those not begun.  No step of a run changes this line.
Length(r, hand) == Len(r.results) + hand + Len(r.queue)
Line(r, hand) ==
  [i \in 1..Length(r, hand) |->
     IF i <= Len(r.results) THEN r.results[i].name
     ELSE IF i <= Len(r.results) + hand THEN r.name
     ELSE r.queue[i - Len(r.results) - hand]]

\* Each repository that was asked for is in the line, once.
EachOnce(r, hand) ==
  /\ \A i, j \in 1..Length(r, hand) :
       Fold[Line(r, hand)[i]] = Fold[Line(r, hand)[j]] => i = j
  /\ {Fold[Line(r, hand)[i]] : i \in 1..Length(r, hand)} = r.asked

IsDeferred(r, i) == r.results[i].action = "deferred"
NoneDeferred(r) == \A i \in DOMAIN r.results : ~IsDeferred(r, i)
RestDeferred(r) ==
  \A i, j \in DOMAIN r.results :
    IsDeferred(r, i) /\ i <= j =>
      IsDeferred(r, j) /\ r.results[j].limit = r.results[i].limit

\* With --write nothing is previewed, and what is reconciled has a pull request
\* that fits, unless its inventory changed since.
WorkDone(r, fit) ==
  r.write => \A i \in DOMAIN r.results :
    /\ r.results[i].action # "previewed"
    /\ r.results[i].action = "reconciled" => Fold[r.results[i].name] \in fit \cup r.changed

\* Where a run is, and what it has by then.
StageOK(r) ==
  /\ r.pc \in {"idle", "next"} \cup Working => NoneDeferred(r)
  /\ r.pc = "idle" => r.results = <<>>
  /\ r.pc \in Working => r.name \in Names
  /\ r.pc \in {"report", "done"} => r.queue = <<>>
  /\ r.pc # "done" => r.exit = 0
  /\ r.pc = "done" /\ r.exit # 2 => r.exit = ExitOf(r.results)
  /\ r.pc = "commit" => r.found \in Plans
  /\ r.pc = "reconcile" /\ r.found \in Plans => Committable(Leaves[r.found])

LineOK(r) == r.pc # "idle" /\ r.exit # 2 => EachOnce(r, Hand(r))

\* What the scan found is what there is, or the repository changed since.
FoundOK(r, inv) ==
  r.pc \in {"state", "commit", "reconcile"} =>
    r.found = inv[Fold[r.name]] \/ Fold[r.name] \in r.changed

RunOK(r, inv, fit) ==
  StageOK(r) /\ LineOK(r) /\ RestDeferred(r) /\ WorkDone(r, fit) /\ FoundOK(r, inv)

PushedOK == \A r \in Repos : pushed[r] # "none" => Exact(Leaves[pushed[r]])

IInv == TypeInv /\ RunOK(run, inventory, synced) /\ PushedOK

-----------------------------------------------------------------------------
(* The end of a repository *)

\* A sequence behind another.
LEMMA JoinedOK ==
  ASSUME NEW S, NEW s \in Seq(S), NEW t \in Seq(S)
  PROVE  /\ s \o t \in Seq(S) /\ Len(s \o t) = Len(s) + Len(t)
         /\ \A i \in 1..Len(s) : (s \o t)[i] = s[i]
         /\ \A i \in 1..Len(t) : (s \o t)[Len(s) + i] = t[i]
<1> DEFINE m == Len(s)
           n == Len(t)
<1>1. /\ s \o t \in Seq(S) /\ Len(s \o t) = m + n
      /\ \A i \in 1..(m + n) :
           (s \o t)[i] = IF i <= m THEN s[i] ELSE t[i - m]
  BY ConcatProperties
<1>2. m \in Nat /\ n \in Nat
  BY LenProperties
<1> HIDE DEF m, n
<1>3. ASSUME NEW i \in 1..m PROVE i \in 1..(m + n) /\ i <= m
  BY <1>2
<1>4. ASSUME NEW i \in 1..n
      PROVE  m + i \in 1..(m + n) /\ ~(m + i <= m) /\ (m + i) - m = i
  BY <1>2
<1>5. \A i \in 1..m : (s \o t)[i] = s[i]
  BY <1>1, <1>3
<1>6. \A i \in 1..n : (s \o t)[m + i] = t[i]
  BY <1>1, <1>4
<1> QED BY <1>1, <1>5, <1>6 DEF m, n

LEMMA ResultType ==
  ASSUME NEW n \in Names, NEW action \in Actions, NEW limit \in 0..MaxLimits
  PROVE  /\ Result(n, action, limit) \in Results
         /\ Result(n, action, limit).name = n
         /\ Result(n, action, limit).action = action
         /\ Result(n, action, limit).limit = limit
BY DEF Result, Results

\* What Finish makes of a run: the results so far, that of the repository in
\* hand, and after a deferral one for each repository not begun.
LEMMA FinishParts ==
  ASSUME NEW r \in Runs, r.name \in Names,
         NEW action \in Actions, NEW limit \in 0..MaxLimits
  PROVE  LET f == Finish(r, action, limit)
             k == Len(r.results)
             deferred == action = "deferred"
         IN /\ f \in Runs
            /\ f.pc = IF deferred THEN "report" ELSE "next"
            /\ f.queue = IF deferred THEN <<>> ELSE r.queue
            /\ f.write = r.write /\ f.exit = r.exit
            /\ f.asked = r.asked /\ f.changed = r.changed
            /\ k \in Nat /\ Len(r.queue) \in Nat
            /\ DOMAIN f.results = 1..Len(f.results)
            /\ Len(f.results) = IF deferred THEN k + 1 + Len(r.queue) ELSE k + 1
            /\ \A i \in 1..k : f.results[i] = r.results[i]
            /\ f.results[k + 1] = Result(r.name, action, limit)
            /\ deferred => \A i \in 1..Len(r.queue) :
                 f.results[k + 1 + i] = Result(r.queue[i], "deferred", limit)
<1> DEFINE one == Result(r.name, action, limit)
           some == Append(r.results, one)
           rest == Rest(r, limit)
           k == Len(r.results)
           results == IF action = "deferred" THEN some \o rest ELSE some
           queue == IF action = "deferred" THEN <<>> ELSE r.queue
           f == Finish(r, action, limit)
<1>1. /\ r.results \in Seq(Results) /\ r.queue \in Seq(Names)
      /\ k \in Nat /\ Len(r.queue) \in Nat
  BY DEF Runs
<1>2. /\ one \in Results /\ some \in Seq(Results) /\ Len(some) = k + 1
      /\ \A i \in 1..k : some[i] = r.results[i]
      /\ some[k + 1] = one
  BY <1>1, ResultType
<1>3. /\ rest \in Seq(Results) /\ Len(rest) = Len(r.queue)
      /\ \A i \in 1..Len(r.queue) : rest[i] = Result(r.queue[i], "deferred", limit)
  <2>1. \A i \in 1..Len(r.queue) : Result(r.queue[i], "deferred", limit) \in Results
    BY <1>1, ResultType DEF Actions
  <2>2. rest = [i \in 1..Len(r.queue) |-> Result(r.queue[i], "deferred", limit)]
    BY <1>1 DEF Rest
  <2> QED BY <1>1, <2>1, <2>2
<1> HIDE DEF one, some, rest
<1>4. /\ results \in Seq(Results)
      /\ Len(results) = IF action = "deferred" THEN k + 1 + Len(r.queue) ELSE k + 1
      /\ \A i \in 1..k : results[i] = r.results[i]
      /\ results[k + 1] = one
      /\ action = "deferred" => \A i \in 1..Len(r.queue) :
           results[k + 1 + i] = Result(r.queue[i], "deferred", limit)
  <2>1. CASE action = "deferred"
    <3>1. /\ results = some \o rest
          /\ k + 1 \in Nat /\ Len(r.queue) \in Nat
      BY <1>1, <2>1
    <3>2. /\ some \o rest \in Seq(Results)
          /\ Len(some \o rest) = (k + 1) + Len(r.queue)
          /\ \A i \in 1..(k + 1) : (some \o rest)[i] = some[i]
          /\ \A i \in 1..Len(r.queue) : (some \o rest)[(k + 1) + i] = rest[i]
      <4>1. Len(some) = k + 1 /\ Len(rest) = Len(r.queue)
        BY <1>2, <1>3
      <4>2. some \in Seq(Results) /\ rest \in Seq(Results)
        BY <1>2, <1>3
      <4>3. /\ some \o rest \in Seq(Results)
            /\ Len(some \o rest) = Len(some) + Len(rest)
            /\ \A i \in 1..Len(some) : (some \o rest)[i] = some[i]
            /\ \A i \in 1..Len(rest) : (some \o rest)[Len(some) + i] = rest[i]
        BY ONLY <4>2, JoinedOK
      <4> HIDE DEF k
      <4> QED BY <4>1, <4>3
    <3>3. 1..k \in SUBSET (1..(k + 1)) /\ k + 1 \in 1..(k + 1)
      BY <1>1
    <3> HIDE DEF results, k
    <3> QED BY <1>2, <1>3, <2>1, <3>1, <3>2, <3>3
  <2>2. CASE action # "deferred"
    BY <1>2, <2>2
  <2> QED BY <2>1, <2>2
<1>5. queue \in Seq(Names)
  BY <1>1
<1> HIDE DEF results, queue
<1>6. f = [After(r, action) EXCEPT !.results = results, !.queue = queue,
                                   !.name = 0, !.found = "none"]
  BY DEF Finish, results, queue, some, one, rest, After, Goto, Runs
<1>7. /\ f \in Runs
      /\ f.pc = (IF action = "deferred" THEN "report" ELSE "next")
      /\ f.results = results /\ f.queue = queue
      /\ f.write = r.write /\ f.exit = r.exit
      /\ f.asked = r.asked /\ f.changed = r.changed
  <2> DEFINE pc == IF action = "deferred" THEN "report" ELSE "next"
  <2>1. pc \in Steps
    BY DEF Steps
  <2>2. After(r, action) = [r EXCEPT !.pc = pc]
    BY DEF After, Goto
  <2> HIDE DEF pc
  <2>3. results \in Seq(Results) /\ queue \in Seq(Names)
    BY <1>4, <1>5
  <2>4. /\ f \in Runs /\ f.pc = pc /\ f.results = results /\ f.queue = queue
        /\ f.write = r.write /\ f.exit = r.exit
        /\ f.asked = r.asked /\ f.changed = r.changed
    <3> DEFINE g == [r EXCEPT !.pc = pc]
    <3>1. /\ g \in Runs /\ g.pc = pc /\ g.write = r.write /\ g.exit = r.exit
          /\ g.asked = r.asked /\ g.changed = r.changed
      BY <2>1 DEF Runs
    <3>2. f = [g EXCEPT !.results = results, !.queue = queue, !.name = 0, !.found = "none"]
      BY <1>6, <2>2
    <3> HIDE DEF g
    <3>3. 0 \in Names \cup {0} /\ "none" \in Inventories \cup {"none"}
      OBVIOUS
    <3> HIDE DEF f
    <3>4. f \in Runs
      BY <2>3, <3>1, <3>2, <3>3 DEF Runs
    <3>5. /\ f.pc = g.pc /\ f.results = results /\ f.queue = queue
          /\ f.write = g.write /\ f.exit = g.exit
          /\ f.asked = g.asked /\ f.changed = g.changed
      BY <3>1, <3>2 DEF Runs
    <3> QED BY <3>1, <3>4, <3>5
  <2> QED BY <2>4 DEF pc
<1>8. DOMAIN results = 1..Len(results)
  BY <1>4, LenProperties
<1> HIDE DEF f
<1> QED BY <1>1, <1>4, <1>7, <1>8 DEF f, one, queue

\* The line of a run is the same before and after a repository is done with.
LEMMA FinishLine ==
  ASSUME NEW r \in Runs, r.name \in Names,
         NEW action \in Actions, NEW limit \in 0..MaxLimits
  PROVE  LET f == Finish(r, action, limit)
         IN Length(f, 0) = Length(r, 1) /\ Line(f, 0) = Line(r, 1)
<1> DEFINE f == Finish(r, action, limit)
           k == Len(r.results)
           q == Len(r.queue)
<1>1. /\ k \in Nat /\ q \in Nat
      /\ f.queue = IF action = "deferred" THEN <<>> ELSE r.queue
      /\ Len(f.results) = IF action = "deferred" THEN k + 1 + q ELSE k + 1
      /\ \A i \in 1..k : f.results[i] = r.results[i]
      /\ f.results[k + 1].name = r.name
      /\ action = "deferred" => \A i \in 1..q : f.results[k + 1 + i].name = r.queue[i]
  <2>1. /\ k \in Nat /\ q \in Nat
        /\ f.queue = IF action = "deferred" THEN <<>> ELSE r.queue
        /\ Len(f.results) = IF action = "deferred" THEN k + 1 + q ELSE k + 1
        /\ \A i \in 1..k : f.results[i] = r.results[i]
        /\ f.results[k + 1] = Result(r.name, action, limit)
        /\ action = "deferred" => \A i \in 1..q :
             f.results[k + 1 + i] = Result(r.queue[i], "deferred", limit)
    BY FinishParts
  <2>2. \A i \in 1..q : r.queue[i] \in Names
    BY DEF Runs
  <2> HIDE DEF f, k, q
  <2> QED BY <2>1, <2>2, ResultType DEF Actions
<1> DEFINE j == Len(f.results)
           p == Len(f.queue)
           n == k + 1 + q
<1>2. /\ j \in Nat /\ p \in Nat /\ j + 0 + p = n /\ n \in Nat
      /\ k + 1 <= j
  <2>1. CASE action = "deferred"
    <3>1. j = k + 1 + q /\ p = 0 BY <1>1, <2>1
    <3> HIDE DEF j, p, k, q
    <3> QED BY <1>1, <3>1
  <2>2. CASE action # "deferred"
    <3>1. j = k + 1 /\ p = q BY <1>1, <2>2
    <3> HIDE DEF j, p, k, q
    <3> QED BY <1>1, <3>1
  <2> QED BY <2>1, <2>2
<1>3. /\ Length(f, 0) = n /\ Length(r, 1) = n
      /\ DOMAIN Line(f, 0) = 1..n /\ DOMAIN Line(r, 1) = 1..n
  <2> HIDE DEF f
  <2> QED BY <1>2 DEF Line, Length
<1>4. \A i \in 1..n : Line(r, 1)[i] =
        IF i <= k THEN r.results[i].name ELSE IF i <= k + 1 THEN r.name
        ELSE r.queue[i - k - 1]
  BY <1>3 DEF Line
<1>5. \A i \in 1..n : Line(f, 0)[i] =
        IF i <= j THEN f.results[i].name ELSE IF i <= j + 0 THEN f.name
        ELSE f.queue[i - j - 0]
  <2> HIDE DEF f, n
  <2> QED BY <1>3 DEF Line
<1>6. ASSUME NEW i \in 1..n PROVE Line(f, 0)[i] = Line(r, 1)[i]
  <2> HIDE DEF f, k, q, j, p
  <2>1. i \in Nat /\ 1 <= i /\ i <= k + 1 + q
    BY <1>1
  <2>2. CASE i <= k
    <3>1. i <= j /\ i \in 1..k BY <1>1, <1>2, <2>1, <2>2
    <3> QED BY <1>1, <1>4, <1>5, <2>2, <3>1
  <2>3. CASE i = k + 1
    <3>1. i <= j /\ ~(i <= k) /\ i <= k + 1 BY <1>1, <1>2, <2>1, <2>3
    <3> QED BY <1>1, <1>4, <1>5, <2>3, <3>1
  <2>4. CASE i > k + 1
    <3>1. /\ i - k - 1 \in 1..q /\ k + 1 + (i - k - 1) = i
          /\ ~(i <= k) /\ ~(i <= k + 1)
      <4>1. k \in Nat /\ q \in Nat
        BY <1>1
      <4> QED BY <4>1, <2>1, <2>4
    <3>2. Line(r, 1)[i] = r.queue[i - k - 1]
      BY <1>4, <3>1
    <3>3. CASE action = "deferred"
      <4>1. f.results[i].name = r.queue[i - k - 1]
        BY <1>1, <3>1, <3>3
      <4>2. i <= j
        BY <1>1, <2>1, <3>3 DEF j
      <4> QED BY <1>5, <3>2, <4>1, <4>2
    <3>4. CASE action # "deferred"
      <4>1. j = k + 1 /\ ~(i <= j) /\ ~(i <= j + 0) /\ i - j - 0 = i - k - 1
        BY <1>1, <2>1, <2>4, <3>4 DEF j
      <4> QED BY <1>1, <1>5, <3>2, <3>4, <4>1
    <3> QED BY <3>3, <3>4
  <2> QED BY <1>1, <2>1, <2>2, <2>3, <2>4
<1>7. Line(f, 0) = Line(r, 1)
  <2> HIDE DEF f, n
  <2> QED BY <1>3, <1>6 DEF Line
<1> QED BY <1>3, <1>7

\* Whatever a repository ends with, the run it leaves is as it must be.
LEMMA FinishOK ==
  ASSUME NEW r \in Runs, NEW inv, NEW fit,
         r.name \in Names, r.exit = 0, NoneDeferred(r), EachOnce(r, 1),
         WorkDone(r, fit), NEW action \in Actions, NEW limit \in 0..MaxLimits,
         r.write => /\ action # "previewed"
                    /\ action = "reconciled" => Fold[r.name] \in fit \cup r.changed
  PROVE  /\ Finish(r, action, limit) \in Runs
         /\ RunOK(Finish(r, action, limit), inv, fit)
<1> DEFINE f == Finish(r, action, limit)
           k == Len(r.results)
           q == Len(r.queue)
<1>1. /\ f \in Runs
      /\ f.pc = IF action = "deferred" THEN "report" ELSE "next"
      /\ f.queue = IF action = "deferred" THEN <<>> ELSE r.queue
      /\ f.write = r.write /\ f.exit = r.exit
      /\ f.asked = r.asked /\ f.changed = r.changed
      /\ k \in Nat /\ q \in Nat
      /\ DOMAIN f.results = 1..Len(f.results)
      /\ Len(f.results) = IF action = "deferred" THEN k + 1 + q ELSE k + 1
      /\ \A i \in 1..k : f.results[i] = r.results[i]
      /\ f.results[k + 1] = Result(r.name, action, limit)
      /\ action = "deferred" => \A i \in 1..q :
           f.results[k + 1 + i] = Result(r.queue[i], "deferred", limit)
  BY FinishParts, Zenon
<1>2. k \in Nat /\ q \in Nat
  BY <1>1
<1>3. /\ Result(r.name, action, limit).name = r.name
      /\ Result(r.name, action, limit).action = action
      /\ Result(r.name, action, limit).limit = limit
      /\ \A i \in 1..q : /\ Result(r.queue[i], "deferred", limit).action = "deferred"
                         /\ Result(r.queue[i], "deferred", limit).limit = limit
  BY DEF Result
<1>4. DOMAIN r.results = 1..k
  BY DEF Runs
<1>5. EachOnce(f, 0)
  <2>1. Length(f, 0) = Length(r, 1) /\ Line(f, 0) = Line(r, 1)
    BY FinishLine
  <2> QED BY <1>1, <2>1 DEF EachOnce
<1> HIDE DEF f, k, q
\* The results are the earlier ones, the new one, and deferrals.
<1>6. ASSUME NEW i \in DOMAIN f.results
      PROVE  \/ i \in 1..k /\ f.results[i] = r.results[i]
             \/ i = k + 1 /\ f.results[i] = Result(r.name, action, limit)
             \/ /\ action = "deferred" /\ i > k + 1
                /\ f.results[i].action = "deferred" /\ f.results[i].limit = limit
  <2>1. i \in Nat /\ 1 <= i
    BY <1>1
  <2>2. CASE i <= k
    BY <1>1, <2>1, <2>2
  <2>3. CASE i = k + 1
    BY <1>1, <2>3
  <2>4. CASE i > k + 1
    <3>1. action = "deferred" /\ i <= k + 1 + q
      BY <1>1, <2>1, <2>4
    <3>2. i - k - 1 \in 1..q /\ k + 1 + (i - k - 1) = i
      BY <1>2, <2>1, <2>4, <3>1
    <3> QED BY <1>1, <1>3, <2>4, <3>1, <3>2
  <2> QED BY <1>2, <2>1, <2>2, <2>3, <2>4
<1>7. \A i \in 1..k : r.results[i].action # "deferred"
  BY <1>4 DEF NoneDeferred, IsDeferred
<1>8. action # "deferred" => NoneDeferred(f)
  BY <1>3, <1>6, <1>7 DEF NoneDeferred, IsDeferred
<1>9. RestDeferred(f)
  <2> SUFFICES ASSUME NEW i \in DOMAIN f.results, NEW j \in DOMAIN f.results,
                      IsDeferred(f, i), i <= j
               PROVE  IsDeferred(f, j) /\ f.results[j].limit = f.results[i].limit
    BY DEF RestDeferred
  <2>1. action = "deferred"
    BY <1>8 DEF NoneDeferred
  <2>2. i \notin 1..k
    BY <1>1, <1>7 DEF IsDeferred
  <2>3. i \in Nat /\ j \in Nat /\ 1 <= i
    BY <1>1
  <2>4. j \notin 1..k
    BY <1>2, <2>2, <2>3
  <2> QED BY <1>3, <1>6, <2>1, <2>2, <2>4 DEF IsDeferred
<1>10. WorkDone(f, fit)
  BY <1>1, <1>3, <1>4, <1>6 DEF WorkDone
<1>11. StageOK(f)
  BY <1>1, <1>8 DEF StageOK, Working
<1>12. LineOK(f) /\ FoundOK(f, inv)
  <2>1. Hand(f) = 0
    BY <1>1 DEF Hand, Working
  <2> QED BY <1>1, <1>5, <2>1 DEF LineOK, FoundOK
<1> QED BY <1>1, <1>9, <1>10, <1>11, <1>12 DEF RunOK, f

-----------------------------------------------------------------------------
(* The parts of a step *)

\* What holds while a repository is in hand.
LEMMA InHand ==
  ASSUME IInv, run.pc \in Working
  PROVE  /\ run \in Runs /\ run.name \in Names /\ run.exit = 0
         /\ NoneDeferred(run) /\ EachOnce(run, 1) /\ WorkDone(run, synced)
         /\ R \in Repos
<1>1. /\ run \in Runs /\ run.name \in Names /\ run.exit = 0 /\ NoneDeferred(run)
      /\ WorkDone(run, synced) /\ LineOK(run)
  BY DEF IInv, TypeInv, RunOK, StageOK, Working
<1>2. EachOnce(run, 1)
  BY <1>1 DEF LineOK, Hand, Working
<1> QED BY <1>1, <1>2, FoldAssumption DEF R

\* A failure of the repository in hand, whatever a push made of its branch.
LEMMA FailsOK ==
  ASSUME IInv, run.pc \in Working, Fails, UNCHANGED <<metadata, inventory>>,
         pushed' \in [Repos -> Plans \cup {"none"}], PushedOK'
  PROVE  IInv'
<1>1. run' = Finish(run, "failed", 0) /\ synced' = synced /\ cooldown' = cooldown
  BY DEF Fails
<1>2. "failed" \in Actions /\ 0 \in 0..MaxLimits
  BY BoundsAssumption DEF Actions
<1>3. /\ Finish(run, "failed", 0) \in Runs
      /\ RunOK(Finish(run, "failed", 0), inventory, synced)
  BY <1>2, InHand, FinishOK
<1>4. budget' \in [faults : 0..MaxFaults, limits : 0..MaxLimits, changes : 0..MaxChanges]
  BY BoundsAssumption DEF IInv, TypeInv, Fails
<1> QED BY <1>1, <1>3, <1>4 DEF IInv, TypeInv

\* A deferral: it and all that come after it get one limit.
LEMMA DeferredOK ==
  ASSUME IInv, run.pc \in Working, Deferred, UNCHANGED <<metadata, inventory>>,
         pushed' \in [Repos -> Plans \cup {"none"}], PushedOK'
  PROVE  IInv'
<1>1. run' = Finish(run, "deferred", cooldown') /\ synced' = synced
  BY DEF Deferred
<1>2. /\ cooldown' \in 0..MaxLimits
      /\ budget' \in [faults : 0..MaxFaults, limits : 0..MaxLimits, changes : 0..MaxChanges]
  BY BoundsAssumption DEF IInv, TypeInv, Deferred
<1>3. /\ Finish(run, "deferred", cooldown') \in Runs
      /\ RunOK(Finish(run, "deferred", cooldown'), inventory, synced)
  BY <1>2, InHand, FinishOK DEF Actions
<1> QED BY <1>1, <1>2, <1>3 DEF IInv, TypeInv

\* Local work that leaves the run r, which must be examined.
LEMMA LocalOK ==
  ASSUME IInv, run.pc \in Working, UNCHANGED <<metadata, inventory>>,
         NEW r \in Runs, RunOK(r, inventory, synced), Local(r)
  PROVE  IInv'
<1>1. CASE run' = r /\ Quiet
  BY <1>1 DEF IInv, TypeInv, Quiet, PushedOK, Exact
<1>2. CASE Fails /\ UNCHANGED pushed
  BY <1>2, FailsOK DEF IInv, TypeInv, PushedOK, Exact
<1> QED BY <1>1, <1>2 DEF Local

\* A call that leaves the run r, which must be examined.
LEMMA AskedOK ==
  ASSUME IInv, run.pc \in Working, UNCHANGED <<metadata, inventory>>,
         NEW r \in Runs, RunOK(r, inventory, synced), Asked(r)
  PROVE  IInv'
<1>1. CASE Local(r)
  BY <1>1, LocalOK
<1>2. CASE (Fails \/ Deferred) /\ UNCHANGED pushed
  BY <1>2, FailsOK, DeferredOK DEF IInv, TypeInv, PushedOK, Exact
<1> QED BY <1>1, <1>2 DEF Asked

\* The next step of the repository in hand.
LEMMA MoveOK ==
  ASSUME IInv, run.pc \in Working, NEW pc \in Working,
         NEW found \in Inventories \cup {"none"}, NEW r,
         r = [run EXCEPT !.pc = pc, !.found = found],
         pc = "commit" => found \in Plans,
         pc = "reconcile" /\ found \in Plans => Committable(Leaves[found]),
         pc \in {"state", "commit", "reconcile"} => found = inventory[R] \/ R \in run.changed
  PROVE  r \in Runs /\ RunOK(r, inventory, synced)
<1>1. run \in Runs /\ EachOnce(run, 1) /\ RunOK(run, inventory, synced)
  BY InHand DEF IInv
<1>2. /\ r \in Runs /\ r.pc = pc /\ r.found = found
      /\ r.write = run.write /\ r.queue = run.queue /\ r.name = run.name
      /\ r.results = run.results /\ r.exit = run.exit /\ r.asked = run.asked
      /\ r.changed = run.changed
  BY <1>1 DEF Runs, Working, Steps
<1>3. EachOnce(r, 1)
  <2>1. Length(r, 1) = Length(run, 1) /\ Line(r, 1) = Line(run, 1)
    BY <1>2 DEF Length, Line
  <2> QED BY <1>1, <1>2, <2>1 DEF EachOnce
<1>4. LineOK(r)
  BY <1>2, <1>3 DEF LineOK, Hand
<1>5. StageOK(r)
  BY <1>1, <1>2 DEF RunOK, StageOK, NoneDeferred, IsDeferred, Working
<1>6. RestDeferred(r) /\ WorkDone(r, synced) /\ FoundOK(r, inventory)
  BY <1>1, <1>2 DEF RunOK, RestDeferred, IsDeferred, WorkDone, FoundOK, R
<1> QED BY <1>2, <1>4, <1>5, <1>6 DEF RunOK

-----------------------------------------------------------------------------
(* The steps of one repository *)

LEMMA RepositoryOK == IInv /\ Repository => IInv'
<1> SUFFICES ASSUME IInv, Repository PROVE IInv' OBVIOUS
<1>1. run.pc = "repository" /\ run.pc \in Working /\ UNCHANGED <<metadata, inventory>>
  BY DEF Repository, At, Working
<1>2. CASE metadata[R] = "good"
  <2>1. Goto(run, "clone") = [run EXCEPT !.pc = "clone", !.found = run.found]
        /\ run.found \in Inventories \cup {"none"}
    BY <1>1, InHand DEF Goto, Runs
  <2>2. Goto(run, "clone") \in Runs /\ RunOK(Goto(run, "clone"), inventory, synced)
    BY <1>1, <2>1, MoveOK DEF Working
  <2> QED BY <1>1, <1>2, <2>2, AskedOK DEF Repository
<1>3. CASE metadata[R] # "good"
  <2>1. /\ Finish(run, "failed", 0) \in Runs
        /\ RunOK(Finish(run, "failed", 0), inventory, synced)
    BY <1>1, InHand, FinishOK, BoundsAssumption DEF Actions
  <2> QED BY <1>1, <1>3, <2>1, AskedOK DEF Repository
<1> QED BY <1>2, <1>3

LEMMA CloneOK == IInv /\ Clone => IInv'
<1> SUFFICES ASSUME IInv, Clone PROVE IInv' OBVIOUS
<1>1. run.pc = "clone" /\ run.pc \in Working /\ UNCHANGED <<metadata, inventory>>
  BY DEF Clone, At, Working
<1>2. Goto(run, "update") = [run EXCEPT !.pc = "update", !.found = run.found]
      /\ run.found \in Inventories \cup {"none"}
  BY <1>1, InHand DEF Goto, Runs
<1>3. Goto(run, "update") \in Runs /\ RunOK(Goto(run, "update"), inventory, synced)
  BY <1>1, <1>2, MoveOK DEF Working
<1> QED BY <1>1, <1>3, LocalOK DEF Clone

LEMMA UpdateOK == IInv /\ Update => IInv'
<1> SUFFICES ASSUME IInv, Update PROVE IInv' OBVIOUS
<1>1. run.pc = "update" /\ run.pc \in Working /\ UNCHANGED <<metadata, inventory>>
  BY DEF Update, At, Working
<1> DEFINE r == [run EXCEPT !.pc = "state", !.found = inventory[R]]
<1>2. inventory[R] \in Inventories
  BY <1>1, InHand DEF IInv, TypeInv
<1>3. r \in Runs /\ RunOK(r, inventory, synced)
  BY <1>1, <1>2, MoveOK DEF Working
<1> QED BY <1>1, <1>3, AskedOK DEF Update

\* The run that goes on to a later step with what was found.
LEMMA ForwardOK ==
  ASSUME IInv, run.pc \in {"state", "commit"}, NEW pc \in {"commit", "reconcile"},
         pc = "commit" => run.found \in Plans,
         pc = "reconcile" /\ run.found \in Plans => Committable(Leaves[run.found])
  PROVE  Goto(run, pc) \in Runs /\ RunOK(Goto(run, pc), inventory, synced)
<1>1. /\ run.pc \in Working /\ pc \in Working
      /\ run.found = inventory[R] \/ R \in run.changed
  BY DEF Working, IInv, RunOK, FoundOK, R
<1>2. Goto(run, pc) = [run EXCEPT !.pc = pc, !.found = run.found]
      /\ run.found \in Inventories \cup {"none"}
  BY <1>1, InHand DEF Goto, Runs
<1> QED BY <1>1, <1>2, MoveOK

LEMMA StateOK == IInv /\ State => IInv'
<1> SUFFICES ASSUME IInv, State PROVE IInv' OBVIOUS
<1>1. run.pc = "state" /\ run.pc \in Working /\ UNCHANGED <<metadata, inventory>>
  BY DEF State, At, Working
<1>2. CASE run.found \notin Plans
  <2>1. Goto(run, "reconcile") \in Runs /\ RunOK(Goto(run, "reconcile"), inventory, synced)
    BY <1>1, <1>2, ForwardOK
  <2> QED BY <1>1, <1>2, <2>1, AskedOK DEF State
<1>3. CASE run.found \in Plans /\ Leaves[run.found].files = {}
  <2>1. /\ Finish(run, "failed", 0) \in Runs
        /\ RunOK(Finish(run, "failed", 0), inventory, synced)
    BY <1>1, InHand, FinishOK, BoundsAssumption DEF Actions
  <2> QED BY <1>1, <1>3, <2>1, AskedOK DEF State
<1>4. CASE run.found \in Plans /\ Leaves[run.found].files # {}
  <2>1. Goto(run, "commit") \in Runs /\ RunOK(Goto(run, "commit"), inventory, synced)
    BY <1>1, <1>4, ForwardOK
  <2> QED BY <1>1, <1>4, <2>1, AskedOK DEF State
<1> QED BY <1>2, <1>3, <1>4

LEMMA CommitOK == IInv /\ Commit => IInv'
<1> SUFFICES ASSUME IInv, Commit PROVE IInv' OBVIOUS
<1>1. run.pc = "commit" /\ run.pc \in Working /\ UNCHANGED <<metadata, inventory>>
  BY DEF Commit, At, Working
<1>2. CASE Committable(Leaves[run.found])
  <2>1. Goto(run, "reconcile") \in Runs /\ RunOK(Goto(run, "reconcile"), inventory, synced)
    BY <1>1, <1>2, ForwardOK
  <2> QED BY <1>1, <1>2, <2>1, LocalOK DEF Commit
<1>3. CASE ~Committable(Leaves[run.found])
  <2>1. /\ Finish(run, "failed", 0) \in Runs
        /\ RunOK(Finish(run, "failed", 0), inventory, synced)
    BY <1>1, InHand, FinishOK, BoundsAssumption DEF Actions
  <2> QED BY <1>1, <1>3, <2>1, LocalOK DEF Commit
<1> QED BY <1>2, <1>3

\* A push brings a plan that Commit found committable.
LEMMA PushOK ==
  ASSUME IInv, run.pc = "reconcile", pushed' \in {pushed, Push}
  PROVE  pushed' \in [Repos -> Plans \cup {"none"}] /\ PushedOK'
<1>1. /\ pushed \in [Repos -> Plans \cup {"none"}] /\ PushedOK
      /\ run.found \in Plans => Committable(Leaves[run.found])
  BY DEF IInv, TypeInv, RunOK, StageOK
<1>2. Push = pushed \/ (run.found \in Plans /\ Push = [pushed EXCEPT ![R] = run.found])
  BY DEF Push
<1>3. CASE pushed' = pushed
  BY <1>1, <1>3 DEF PushedOK, Exact
<1>4. CASE run.found \in Plans /\ pushed' = [pushed EXCEPT ![R] = run.found]
  <2>1. Exact(Leaves[run.found])
    BY <1>1, <1>4 DEF Committable
  <2>2. \A r \in Repos : pushed'[r] = run.found \/ pushed'[r] = pushed[r]
    BY <1>1, <1>4
  <2>3. \A r \in Repos : pushed'[r] # "none" => Exact(Leaves[pushed'[r]])
    BY <1>1, <2>1, <2>2 DEF PushedOK
  <2> QED BY <1>1, <1>4, <2>3 DEF PushedOK, Exact
<1> QED BY <1>2, <1>3, <1>4

LEMMA ReconcileOK == IInv /\ Reconcile => IInv'
<1> SUFFICES ASSUME IInv, Reconcile PROVE IInv' OBVIOUS
<1>1. run.pc = "reconcile" /\ run.pc \in Working /\ UNCHANGED <<metadata, inventory>>
  BY DEF Reconcile, At, Working
<1>2. pushed' \in {pushed, Push}
  BY DEF Reconcile
<1>3. pushed' \in [Repos -> Plans \cup {"none"}] /\ PushedOK'
  BY <1>1, <1>2, PushOK
<1>4. CASE Fails \/ Deferred
  BY <1>1, <1>3, <1>4, FailsOK, DeferredOK
<1>5. CASE /\ run' = Reconciled(run)
           /\ synced' = IF run.write /\ run.found # "incomplete" /\ run.found = inventory[R]
                        THEN synced \cup {R} ELSE synced
           /\ UNCHANGED <<cooldown, budget>>
  <2> DEFINE action == IF run.found = "incomplete" THEN "failed"
                       ELSE IF run.write THEN "reconciled" ELSE "previewed"
  <2>1. /\ run \in Runs /\ run.name \in Names /\ run.exit = 0 /\ NoneDeferred(run)
        /\ EachOnce(run, 1) /\ WorkDone(run, synced) /\ R \in Repos
    BY <1>1, InHand
  <2>2. synced \subseteq synced' /\ synced' \in SUBSET Repos
    BY <1>5, <2>1 DEF IInv, TypeInv
  <2>3. WorkDone(run, synced')
    BY <2>1, <2>2 DEF WorkDone
  <2>4. action \in Actions /\ (run.write => action # "previewed")
    BY DEF Actions
  <2>5. run.write /\ action = "reconciled" => Fold[run.name] \in synced' \cup run.changed
    <3>1. run.found = inventory[R] \/ R \in run.changed
      BY <1>1 DEF IInv, RunOK, FoundOK, R
    <3>2. run.write /\ action = "reconciled" => run.found # "incomplete"
      OBVIOUS
    <3>3. CASE run.write /\ run.found # "incomplete" /\ run.found = inventory[R]
      BY <1>5, <3>3 DEF R
    <3>4. CASE R \in run.changed
      BY <3>4 DEF R
    <3> QED BY <3>1, <3>2, <3>3, <3>4
  <2>6. run' = Finish(run, action, 0)
    BY <1>5 DEF Reconciled
  <2> HIDE DEF action
  <2>7. run' \in Runs /\ RunOK(run', inventory, synced')
    BY <2>1, <2>3, <2>4, <2>5, <2>6, FinishOK, BoundsAssumption
  <2> QED BY <1>1, <1>3, <1>5, <2>2, <2>7 DEF IInv, TypeInv
<1> QED BY <1>4, <1>5 DEF Reconcile

-----------------------------------------------------------------------------
(* The steps of a run *)

\* Two runs that stand alike in everything the line is made of.
LEMMA SameLine ==
  ASSUME NEW r, NEW q, NEW hand, EachOnce(r, hand),
         q.results = r.results, q.queue = r.queue, q.name = r.name, q.asked = r.asked
  PROVE  EachOnce(q, hand)
<1>1. Length(q, hand) = Length(r, hand) /\ Line(q, hand) = Line(r, hand)
  BY DEF Length, Line
<1> QED BY <1>1 DEF EachOnce

\* The next repository of the queue is taken in hand.
LEMMA TakenLine ==
  ASSUME NEW r \in Runs, r.queue # <<>>, EachOnce(r, 0), NEW t,
         t = [r EXCEPT !.name = Head(r.queue), !.queue = Tail(r.queue)]
  PROVE  t \in Runs /\ t.name \in Names /\ EachOnce(t, 1)
<1> DEFINE k == Len(r.results)
           q == Len(r.queue)
           n == k + 0 + q
<1>1. /\ r.queue \in Seq(Names) /\ Head(r.queue) \in Names /\ Head(r.queue) = r.queue[1]
      /\ Tail(r.queue) \in Seq(Names) /\ Len(Tail(r.queue)) = q - 1
      /\ \A i \in 1..(q - 1) : Tail(r.queue)[i] = r.queue[i + 1]
      /\ k \in Nat /\ q \in Nat /\ q # 0
  <2>1. r.queue \in Seq(Names) /\ r.results \in Seq(Results)
    BY DEF Runs
  <2> QED BY <2>1, HeadTailProperties, EmptySeq, LenProperties
<1>2. /\ t \in Runs /\ t.results = r.results /\ t.asked = r.asked
      /\ t.name = r.queue[1] /\ t.queue = Tail(r.queue) /\ t.name \in Names
  BY <1>1 DEF Runs
<1>3. /\ Length(r, 0) = n /\ Length(t, 1) = n
      /\ DOMAIN Line(r, 0) = 1..n /\ DOMAIN Line(t, 1) = 1..n
  <2>1. Length(r, 0) = n
    BY DEF Length
  <2>2. Length(t, 1) = k + 1 + (q - 1)
    BY <1>1, <1>2 DEF Length
  <2>3. k + 1 + (q - 1) = n
    <3>1. k \in Nat /\ q \in Nat BY <1>1
    <3> HIDE DEF k, q
    <3> QED BY <3>1
  <2> HIDE DEF n, k, q
  <2> QED BY <2>1, <2>2, <2>3 DEF Line
<1>4. \A i \in 1..n : Line(r, 0)[i] =
        IF i <= k THEN r.results[i].name ELSE IF i <= k + 0 THEN r.name
        ELSE r.queue[i - k - 0]
  BY <1>3 DEF Line
<1>5. \A i \in 1..n : Line(t, 1)[i] =
        IF i <= k THEN r.results[i].name ELSE IF i <= k + 1 THEN r.queue[1]
        ELSE Tail(r.queue)[i - k - 1]
  <2>1. \A i \in 1..Length(t, 1) : Line(t, 1)[i] =
          IF i <= Len(t.results) THEN t.results[i].name
          ELSE IF i <= Len(t.results) + 1 THEN t.name
          ELSE t.queue[i - Len(t.results) - 1]
    BY DEF Line
  <2> HIDE DEF n
  <2> QED BY ONLY <1>2, <1>3, <2>1
<1>6. ASSUME NEW i \in 1..n PROVE Line(t, 1)[i] = Line(r, 0)[i]
  <2> HIDE DEF k, q
  <2>1. i \in Nat /\ 1 <= i /\ i <= k + q
    BY <1>1
  <2>2. CASE i <= k
    BY <1>4, <1>5, <2>2
  <2>3. CASE i = k + 1
    <3>1. ~(i <= k) /\ ~(i <= k + 0) /\ i - k - 0 = 1 /\ i <= k + 1
      BY <1>1, <2>3
    <3> QED BY <1>4, <1>5, <3>1
  <2>4. CASE i > k + 1
    <3>1. /\ ~(i <= k) /\ ~(i <= k + 0) /\ ~(i <= k + 1)
          /\ i - k - 1 \in 1..(q - 1) /\ (i - k - 1) + 1 = i - k - 0
      BY <1>1, <2>1, <2>4
    <3> QED BY <1>1, <1>4, <1>5, <3>1
  <2> QED BY <1>1, <2>1, <2>2, <2>3, <2>4
<1>7. Line(t, 1) = Line(r, 0)
  <2> HIDE DEF n
  <2> QED BY <1>3, <1>6 DEF Line
<1>8. Length(t, 1) = Length(r, 0)
  BY <1>3
<1> QED BY <1>2, <1>7, <1>8 DEF EachOnce

LEMMA TakeOK == IInv /\ Take => IInv'
<1> SUFFICES ASSUME IInv, Take PROVE IInv' OBVIOUS
<1>1. /\ run.pc = "next" /\ run \in Runs /\ run.exit = 0 /\ NoneDeferred(run)
      /\ WorkDone(run, synced) /\ EachOnce(run, 0)
      /\ run' = TakeNext(run) /\ Quiet /\ UNCHANGED <<metadata, inventory>>
  BY DEF Take, At, IInv, TypeInv, RunOK, StageOK, LineOK, Hand, Working
<1>2. ASSUME run' \in Runs, RunOK(run', inventory, synced) PROVE IInv'
  BY <1>1, <1>2 DEF Quiet, IInv, TypeInv, PushedOK, Exact
<1>3. CASE run.queue = <<>>
  <2>1. run' = [run EXCEPT !.pc = "report"]
    BY <1>1, <1>3 DEF TakeNext, Goto
  <2>2. /\ run' \in Runs /\ run'.pc = "report" /\ run'.queue = <<>>
        /\ run'.results = run.results /\ run'.name = run.name
        /\ run'.asked = run.asked /\ run'.changed = run.changed
        /\ run'.write = run.write /\ run'.exit = 0
    BY <1>1, <1>3, <2>1 DEF Runs, Steps
  <2>3. EachOnce(run', 0)
    BY <1>1, <1>3, <2>2, SameLine
  <2>4. RunOK(run', inventory, synced)
    <3>1. StageOK(run') /\ LineOK(run') /\ FoundOK(run', inventory)
      BY <2>2, <2>3 DEF StageOK, LineOK, FoundOK, Hand, Working
    <3>2. RestDeferred(run') /\ WorkDone(run', synced)
      BY <1>1, <2>2 DEF RestDeferred, NoneDeferred, IsDeferred, WorkDone
    <3> QED BY <3>1, <3>2 DEF RunOK
  <2> QED BY <1>2, <2>2, <2>4
<1>4. CASE run.queue # <<>>
  <2> DEFINE t == [run EXCEPT !.name = Head(run.queue), !.queue = Tail(run.queue)]
  <2>1. t \in Runs /\ t.name \in Names /\ EachOnce(t, 1)
    BY <1>1, <1>4, TakenLine
  <2>2. /\ t.pc = "next" /\ t.results = run.results /\ t.exit = 0
        /\ t.write = run.write /\ t.changed = run.changed
    BY <1>1 DEF Runs
  <2>3. run' = IF run.cancelled THEN Finish(t, "failed", 0) ELSE Goto(t, "repository")
    BY <1>1, <1>4 DEF TakeNext
  <2> HIDE DEF t
  <2>4. NoneDeferred(t) /\ WorkDone(t, synced)
    BY <1>1, <2>2 DEF NoneDeferred, IsDeferred, WorkDone
  <2>5. CASE run' = Finish(t, "failed", 0)
    <3>1. "failed" \in Actions /\ 0 \in 0..MaxLimits
      BY BoundsAssumption DEF Actions
    <3> QED BY <1>2, <2>1, <2>2, <2>4, <2>5, <3>1, FinishOK
  <2>6. CASE run' = Goto(t, "repository")
    <3>1. /\ run' \in Runs /\ run'.pc = "repository" /\ run'.queue = t.queue
          /\ run'.results = t.results /\ run'.name = t.name
          /\ run'.asked = t.asked /\ run'.changed = t.changed
          /\ run'.write = t.write /\ run'.exit = 0
      BY <2>1, <2>2, <2>6 DEF Goto, Runs, Steps
    <3>2. EachOnce(run', 1)
      BY <2>1, <3>1, SameLine
    <3>3. StageOK(run') /\ LineOK(run') /\ FoundOK(run', inventory)
      BY <2>1, <2>4, <3>1, <3>2
         DEF StageOK, LineOK, FoundOK, Hand, Working, NoneDeferred, IsDeferred
    <3>4. RestDeferred(run') /\ WorkDone(run', synced)
      BY <2>4, <3>1 DEF RestDeferred, NoneDeferred, IsDeferred, WorkDone
    <3> QED BY <1>2, <3>1, <3>3, <3>4 DEF RunOK
  <2> QED BY <2>3, <2>5, <2>6
<1> QED BY <1>3, <1>4

LEMMA ReportOK == IInv /\ Report => IInv'
<1> SUFFICES ASSUME IInv, Report PROVE IInv' OBVIOUS
<1>1. /\ run.pc = "report" /\ run \in Runs /\ RunOK(run, inventory, synced)
      /\ run' = [run EXCEPT !.pc = "done", !.exit = ExitOf(run.results)]
      /\ Quiet /\ UNCHANGED <<metadata, inventory>>
  BY DEF Report, At, IInv, TypeInv
<1>2. ExitOf(run.results) \in 0..2
  BY DEF ExitOf
<1>3. /\ run' \in Runs /\ run'.pc = "done" /\ run'.queue = run.queue
      /\ run'.results = run.results /\ run'.name = run.name
      /\ run'.asked = run.asked /\ run'.changed = run.changed
      /\ run'.write = run.write /\ run'.exit = ExitOf(run.results)
  BY <1>1, <1>2 DEF Runs, Steps
<1>4. EachOnce(run, 0)
  BY <1>1 DEF RunOK, StageOK, LineOK, Hand, Working
<1>5. EachOnce(run', 0)
  BY <1>3, <1>4, SameLine
<1>6. StageOK(run') /\ LineOK(run') /\ FoundOK(run', inventory)
  BY <1>1, <1>3, <1>5 DEF RunOK, StageOK, LineOK, FoundOK, Hand, Working
<1>7. RestDeferred(run') /\ WorkDone(run', synced)
  BY <1>1, <1>3 DEF RunOK, RestDeferred, IsDeferred, WorkDone
<1> QED BY <1>1, <1>3, <1>6, <1>7 DEF RunOK, Quiet, IInv, TypeInv, PushedOK, Exact

\* No run, and the refused one.
LEMMA IdleOK ==
  /\ Idle \in Runs /\ RunOK(Idle, inventory, synced)
  /\ Idle.results = <<>> /\ Idle.name = 0 /\ Idle.pc = "idle"
<1>1. /\ Idle \in Runs /\ Idle.results = <<>> /\ Idle.pc = "idle"
      /\ Idle.queue = <<>> /\ Idle.exit = 0 /\ Idle.name = 0
  BY DEF Idle, Runs, Steps, Inventories
<1> HIDE DEF Idle
<1> QED BY <1>1 DEF RunOK, StageOK, LineOK, RestDeferred, WorkDone, FoundOK,
       NoneDeferred, IsDeferred, Working

LEMMA ExitOK == IInv /\ Exit => IInv'
BY IdleOK DEF Exit, At, Quiet, IInv, TypeInv, PushedOK, Exact

LEMMA BeginOK ==
  ASSUME IInv, NEW list \in Requests, NEW write \in BOOLEAN, Begin(list, write)
  PROVE  IInv'
<1>1. UNCHANGED <<metadata, inventory, synced, pushed, cooldown, budget>>
  BY DEF Begin, github
<1>2. list \in Seq(Names)
  BY RequestsAssumption
<1>3. CASE Valid(list)
  <2> DEFINE asked == {Fold[list[i]] : i \in DOMAIN list}
             queue == Unique(list)
  <2>1. /\ queue \in Seq(Names) /\ asked \in SUBSET Repos
        /\ \A i, j \in DOMAIN queue : Fold[queue[i]] = Fold[queue[j]] => i = j
        /\ {Fold[queue[i]] : i \in DOMAIN queue} = asked
    <3>1. asked \in SUBSET Repos
      BY <1>2, FoldAssumption
    <3>2. /\ queue \in Seq(Names)
          /\ \A i, j \in DOMAIN queue : Fold[queue[i]] = Fold[queue[j]] => i = j
          /\ {Fold[queue[i]] : i \in DOMAIN queue} = asked
      BY <1>2, <1>3, UniqueOK, Zenon
    <3> QED BY <3>1, <3>2
  <2> HIDE DEF asked, queue
  <2>2. run' = [Idle EXCEPT !.pc = "next", !.write = write, !.queue = queue,
                            !.asked = asked]
    BY <1>3 DEF Begin, asked, queue
  <2>3. /\ run' \in Runs /\ run'.pc = "next" /\ run'.queue = queue
        /\ run'.results = <<>> /\ run'.asked = asked /\ run'.exit = 0
    <3>1. Idle \in Runs /\ Idle.results = <<>> /\ Idle.exit = 0
      BY IdleOK DEF Idle
    <3> QED BY <2>1, <2>2, <3>1 DEF Runs, Steps
  <2>4. EachOnce(run', 0)
    <3> DEFINE n == Len(queue)
    <3>1. n \in Nat /\ DOMAIN queue = 1..n
      BY <2>1, LenProperties
    <3>2. Len(run'.results) = 0 /\ 0 + 0 + n = n
      BY <2>3, <3>1
    <3>3. Length(run', 0) = n
      BY <2>3, <3>2 DEF Length
    <3>4. \A i \in 1..n : ~(i <= 0) /\ ~(i <= 0 + 0) /\ i - 0 - 0 = i
      BY <3>1
    <3>5. \A i \in 1..n : Line(run', 0)[i] = queue[i]
      <4> HIDE DEF n
      <4> QED BY <2>3, <3>2, <3>3, <3>4 DEF Line
    <3> HIDE DEF n
    <3> QED BY <2>1, <2>3, <3>1, <3>3, <3>5 DEF EachOnce
  <2>5. RunOK(run', inventory, synced)
    BY <2>3, <2>4 DEF RunOK, StageOK, LineOK, RestDeferred, WorkDone, FoundOK,
       NoneDeferred, IsDeferred, Hand, Working
  <2> QED BY <1>1, <2>3, <2>5 DEF IInv, TypeInv, PushedOK, Exact
<1>4. CASE ~Valid(list)
  <2>1. /\ run' \in Runs /\ run'.pc = "done" /\ run'.queue = <<>>
        /\ run'.results = <<>> /\ run'.exit = 2
    <3>1. /\ Idle \in Runs /\ Idle.results = <<>> /\ Idle.queue = <<>>
          /\ run' = [Idle EXCEPT !.pc = "done", !.exit = 2]
      BY <1>4, IdleOK DEF Begin, Idle
    <3>2. "done" \in Steps /\ 2 \in 0..2
      BY DEF Steps
    <3> QED BY <3>1, <3>2 DEF Runs
  <2>2. RunOK(run', inventory, synced)
    BY <2>1 DEF RunOK, StageOK, LineOK, RestDeferred, WorkDone, FoundOK,
       NoneDeferred, IsDeferred, Working
  <2> QED BY <1>1, <2>1, <2>2 DEF IInv, TypeInv, PushedOK, Exact
<1> QED BY <1>3, <1>4

LEMMA CancelOK == IInv /\ Cancel => IInv'
<1> SUFFICES ASSUME IInv, Cancel PROVE IInv' OBVIOUS
<1>1. /\ run \in Runs /\ RunOK(run, inventory, synced)
      /\ run' = [run EXCEPT !.cancelled = TRUE]
      /\ UNCHANGED <<metadata, inventory, synced, pushed, cooldown>>
      /\ budget' \in [faults : 0..MaxFaults, limits : 0..MaxLimits, changes : 0..MaxChanges]
  BY BoundsAssumption DEF Cancel, github, IInv, TypeInv
<1>2. /\ run' \in Runs /\ run'.pc = run.pc /\ run'.queue = run.queue
      /\ run'.results = run.results /\ run'.name = run.name /\ run'.found = run.found
      /\ run'.asked = run.asked /\ run'.changed = run.changed
      /\ run'.write = run.write /\ run'.exit = run.exit
  BY <1>1 DEF Runs
<1>3. LineOK(run')
  <2>1. EachOnce(run, Hand(run)) => EachOnce(run', Hand(run'))
    BY <1>2, SameLine DEF Hand
  <2> QED BY <1>1, <1>2, <2>1 DEF RunOK, LineOK
<1>4. StageOK(run') /\ FoundOK(run', inventory) /\ RestDeferred(run') /\ WorkDone(run', synced)
  BY <1>1, <1>2 DEF RunOK, StageOK, FoundOK, RestDeferred, WorkDone, NoneDeferred, IsDeferred
<1> QED BY <1>1, <1>2, <1>3, <1>4 DEF RunOK, IInv, TypeInv, PushedOK, Exact

\* A repository that changes no longer has a pull request that fits, which is
\* what the history of the run is told.
LEMMA InventoryChangesOK ==
  ASSUME IInv, NEW c \in Repos, InventoryChanges(c)
  PROVE  IInv'
<1> DEFINE changed == IF run.pc = "idle" THEN {} ELSE run.changed \cup {c}
<1>1. PICK i \in Inventories : inventory' = [inventory EXCEPT ![c] = i]
  BY DEF InventoryChanges
<1>2. /\ run \in Runs /\ RunOK(run, inventory, synced)
      /\ inventory \in [Repos -> Inventories]
      /\ run' = [run EXCEPT !.changed = changed]
      /\ synced' = synced \ {c} /\ UNCHANGED <<metadata, pushed, cooldown>>
      /\ budget' \in [faults : 0..MaxFaults, limits : 0..MaxLimits, changes : 0..MaxChanges]
  BY BoundsAssumption DEF InventoryChanges, Changes, IInv, TypeInv
<1>3. changed \in SUBSET Repos
  BY <1>2 DEF Runs
<1> HIDE DEF changed
<1>4. /\ run' \in Runs /\ run'.pc = run.pc /\ run'.queue = run.queue
      /\ run'.results = run.results /\ run'.name = run.name /\ run'.found = run.found
      /\ run'.asked = run.asked /\ run'.changed = changed
      /\ run'.write = run.write /\ run'.exit = run.exit
  BY <1>2, <1>3 DEF Runs
<1>5. LineOK(run')
  <2>1. EachOnce(run, Hand(run)) => EachOnce(run', Hand(run'))
    BY <1>4, SameLine DEF Hand
  <2> QED BY <1>2, <1>4, <2>1 DEF RunOK, LineOK
<1>6. StageOK(run') /\ RestDeferred(run')
  BY <1>2, <1>4 DEF RunOK, StageOK, RestDeferred, NoneDeferred, IsDeferred
<1>7. WorkDone(run', synced')
  <2>1. CASE run.pc = "idle"
    BY <1>2, <1>4, <2>1 DEF RunOK, StageOK, WorkDone
  <2>2. CASE run.pc # "idle"
    <3>1. synced \cup run.changed \subseteq synced' \cup run'.changed
      BY <1>2, <1>4, <2>2 DEF changed
    <3> QED BY <1>2, <1>4, <3>1 DEF RunOK, WorkDone
  <2> QED BY <2>1, <2>2
<1>8. FoundOK(run', inventory')
  <2> SUFFICES ASSUME run.pc \in {"state", "commit", "reconcile"}
               PROVE  run.found = inventory'[Fold[run.name]] \/ Fold[run.name] \in changed
    BY <1>4 DEF FoundOK
  <2>1. Fold[run.name] \in Repos
    BY <1>2, FoldAssumption DEF RunOK, StageOK, Working
  <2>2. run.found = inventory[Fold[run.name]] \/ Fold[run.name] \in run.changed
    BY <1>2 DEF RunOK, FoundOK
  <2>3. changed = run.changed \cup {c}
    BY DEF changed
  <2> QED BY <1>1, <1>2, <2>1, <2>2, <2>3
<1> QED BY <1>1, <1>2, <1>4, <1>5, <1>6, <1>7, <1>8
        DEF RunOK, IInv, TypeInv, PushedOK, Exact

LEMMA CooldownEndsOK == IInv /\ CooldownEnds => IInv'
BY BoundsAssumption DEF CooldownEnds, github, IInv, TypeInv, PushedOK, Exact

LEMMA MetadataChangesOK ==
  ASSUME IInv, NEW c \in Repos, MetadataChanges(c)
  PROVE  IInv'
<1>1. /\ metadata' \in [Repos -> Metadata]
      /\ budget' \in [faults : 0..MaxFaults, limits : 0..MaxLimits, changes : 0..MaxChanges]
      /\ UNCHANGED <<inventory, synced, run, pushed, cooldown>>
  BY BoundsAssumption DEF MetadataChanges, Changes, IInv, TypeInv
<1> QED BY <1>1 DEF IInv, TypeInv, PushedOK, Exact

-----------------------------------------------------------------------------
(* The invariant, and what follows from it *)

LEMMA InitOK == Init => IInv
<1> SUFFICES ASSUME Init PROVE IInv OBVIOUS
<1>1. TypeInv
  BY IdleOK, BoundsAssumption DEF Init, TypeInv, Metadata, Inventories
<1>2. PushedOK
  BY DEF Init, PushedOK
<1> QED BY <1>1, <1>2, IdleOK DEF Init, IInv

LEMMA StepOK == IInv /\ [Next]_vars => IInv'
<1> SUFFICES ASSUME IInv, [Next]_vars PROVE IInv' OBVIOUS
<1>1. ASSUME NEW list \in Requests, NEW write \in BOOLEAN, Begin(list, write)
      PROVE  IInv'
  BY <1>1, BeginOK
<1>2. CASE Step
  BY <1>2, TakeOK, RepositoryOK, CloneOK, UpdateOK, StateOK, CommitOK, ReconcileOK,
     ReportOK, ExitOK DEF Step
<1>3. CASE Cancel \/ CooldownEnds
  BY <1>3, CancelOK, CooldownEndsOK
<1>4. ASSUME NEW c \in Repos, InventoryChanges(c) \/ MetadataChanges(c)
      PROVE  IInv'
  BY <1>4, InventoryChangesOK, MetadataChangesOK
<1>5. CASE UNCHANGED vars
  BY <1>5 DEF vars, IInv, TypeInv, PushedOK, Exact
<1> QED BY <1>1, <1>2, <1>3, <1>4, <1>5 DEF Next

THEOREM Invariance == Spec => []IInv
BY InitOK, StepOK, PTL DEF Spec

\* Every reachable state is well typed: results name repositories that were
\* configured, with limits GitHub set.
THEOREM TypeCorrect == Spec => []TypeOK
<1>1. ASSUME IInv PROVE TypeOK
  <2>1. TypeInv BY <1>1 DEF IInv
  <2>2. \A i \in DOMAIN run.queue : run.queue[i] \in Names
    <3>1. run.queue \in Seq(Names) BY <2>1 DEF TypeInv, Runs
    <3> QED BY <3>1
  <2>3. \A i \in DOMAIN run.results :
          run.results[i] \in [name : Names, action : Actions, limit : 0..MaxLimits]
    <3>1. run.results \in Seq(Results) BY <2>1 DEF TypeInv, Runs
    <3>2. \A i \in DOMAIN run.results : run.results[i] \in Results BY <3>1
    <3> QED BY <3>2 DEF Results
  <2>4. run \in Runs BY <2>1 DEF TypeInv
  <2>5. /\ run.pc \in Steps /\ run.write \in BOOLEAN /\ run.cancelled \in BOOLEAN
        /\ run.name \in Names \cup {0} /\ run.found \in Inventories \cup {"none"}
        /\ run.exit \in 0..2 /\ run.asked \subseteq Repos /\ run.changed \subseteq Repos
    BY <2>4 DEF Runs
  <2> QED BY <2>1, <2>2, <2>3, <2>5 DEF TypeInv, TypeOK
<1> QED BY <1>1, Invariance, PTL

\* The results of a finished run.
LEMMA ReportedNames ==
  ASSUME IInv, Reported
  PROVE  /\ {Fold[run.results[i].name] : i \in DOMAIN run.results} = run.asked
         /\ Len(run.results) = Cardinality(run.asked)
         /\ \A i \in Deferrals : \A j \in i..Len(run.results) :
              j \in Deferrals /\ run.results[j].limit = run.results[i].limit
<1> DEFINE n == Len(run.results)
           names == [i \in 1..n |-> Fold[run.results[i].name]]
<1>1. /\ run \in Runs /\ EachOnce(run, 0) /\ RestDeferred(run) /\ run.queue = <<>>
  BY DEF Reported, IInv, TypeInv, RunOK, StageOK, LineOK, Hand, Working
<1>2. n \in Nat /\ DOMAIN run.results = 1..n
  BY <1>1 DEF Runs
<1>3. Length(run, 0) = n /\ \A i \in 1..n : Line(run, 0)[i] = run.results[i].name
  <2>1. Len(run.queue) = 0 /\ n + 0 + 0 = n
    BY <1>1, <1>2
  <2>2. Length(run, 0) = n
    BY <2>1 DEF Length
  <2>3. \A i \in 1..Length(run, 0) : i <= n => Line(run, 0)[i] = run.results[i].name
    BY DEF Line
  <2>4. \A i \in 1..n : i <= n
    BY <1>2
  <2> QED BY <2>2, <2>3, <2>4
<1> HIDE DEF n
<1>4. /\ \A i, j \in 1..n : names[i] = names[j] => i = j
      /\ {names[i] : i \in 1..n} = run.asked
  BY <1>1, <1>3 DEF EachOnce
<1>5. Cardinality(run.asked) = n
  <2>1. names \in Bijection(1..n, run.asked)
    BY <1>4 DEF Bijection, Injection, Surjection, IsInjective
  <2> QED BY <1>2, <2>1, FS_CountingElements DEF ExistsBijection
<1>6. \A i \in Deferrals : \A j \in i..n :
        j \in Deferrals /\ run.results[j].limit = run.results[i].limit
  BY <1>1, <1>2 DEF RestDeferred, IsDeferred, Deferrals
<1>7. {Fold[run.results[i].name] : i \in DOMAIN run.results} = run.asked
  BY <1>2, <1>4
<1> QED BY <1>2, <1>5, <1>6, <1>7 DEF n, Deferrals

\* Whatever fails, panics, is cancelled or limited, a run reports each of its
\* repositories once, and a deferral defers all that come after it until the
\* same time (runner.go:64-85): no step of a run changes its line.
THEOREM EachReported == Spec => []EveryRepositoryReported
<1>1. IInv => EveryRepositoryReported
  BY ReportedNames DEF EveryRepositoryReported
<1> QED BY <1>1, Invariance, PTL

\* A run with --write that exits zero has, for each of its repositories, a pull
\* request that fits, a deferral, or a change of the repository meanwhile
\* (main.go:145-150).
THEOREM ZeroMeansDone == Spec => []ExitZeroMeansDone
<1>1. ASSUME IInv, Reported, run.write, run.exit = 0, NEW c \in run.asked
      PROVE  c \in synced \cup run.changed \cup {Fold[run.results[i].name] : i \in Deferrals}
  <2>1. /\ {Fold[run.results[i].name] : i \in DOMAIN run.results} = run.asked
    BY <1>1, ReportedNames
  <2>2. PICK i \in DOMAIN run.results : c = Fold[run.results[i].name]
    BY <1>1, <2>1
  <2>3. run.results[i].action \in Actions
    <3>1. run.results \in Seq(Results) BY <1>1 DEF IInv, TypeInv, Runs
    <3>2. run.results[i] \in Results BY <2>2, <3>1
    <3> QED BY <3>2 DEF Results
  <2>4. run.results[i].action # "failed"
    BY <1>1 DEF IInv, RunOK, StageOK, Reported, ExitOf
  <2>5. CASE run.results[i].action = "deferred"
    BY <2>2, <2>5 DEF Deferrals
  <2>6. CASE run.results[i].action # "deferred"
    BY <1>1, <2>2, <2>3, <2>4, <2>6 DEF IInv, RunOK, WorkDone, Actions
  <2> QED BY <2>5, <2>6
<1>2. IInv => ExitZeroMeansDone
  BY <1>1 DEF ExitZeroMeansDone
<1> QED BY <1>2, Invariance, PTL

\* What is pushed is what the apply returned, and all that it left behind
\* (git.go:78-89).
THEOREM PushedExact == Spec => []PushedAsReturned
<1>1. IInv => PushedAsReturned
  BY DEF IInv, PushedOK, Exact, PushedAsReturned
<1> QED BY <1>1, Invariance, PTL
=============================================================================
