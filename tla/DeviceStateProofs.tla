------------------------- MODULE DeviceStateProofs -------------------------
(* Theorems about DeviceState for every set of properties and of messages,   *)
(* reports of any length, and any number of them.  What the state is after   *)
(* n reports follows by induction on n: a set of numbers that holds 0, and   *)
(* n + 1 with every n, holds every number (Inductive).                       *)
EXTENDS DeviceState, FiniteSetTheorems, TLAPS

-----------------------------------------------------------------------------
(* Induction.  A set of numbers has a least one because no set of finite     *)
(* sets has an infinite descent.                                             *)

LEMMA Least ==
    ASSUME NEW T \in SUBSET Nat, T # {}
    PROVE  \E n \in T : \A m \in T : n <= m
<1> DEFINE Below == {0 .. n - 1 : n \in T}
           Less == StrictSubsetOrdering(Nat)
<1>1. IsWellFoundedOn(Less, FiniteSubsetsOf(Nat))
  BY FS_StrictSubsetOrderingWellFounded
<1>2. Below \subseteq FiniteSubsetsOf(Nat) /\ Below # {}
  <2>1. ASSUME NEW n \in T PROVE 0 .. n - 1 \in FiniteSubsetsOf(Nat)
    <3>1. n - 1 \in Int /\ 0 .. n - 1 \subseteq Nat
      OBVIOUS
    <3>2. IsFiniteSet(0 .. n - 1)
      BY <3>1, FS_Interval
    <3>3. QED
      BY <3>1, <3>2 DEF FiniteSubsetsOf
  <2>2. QED
    BY <2>1
<1>3. PICK x \in Below : \A y \in Below : ~ (<<y, x>> \in Less)
  <2> HIDE DEF Below, Less
  <2> QED BY <1>1, <1>2, WFMin
<1>4. PICK n \in T : x = 0 .. n - 1
  OBVIOUS
<1>5. ASSUME NEW m \in T, m < n PROVE FALSE
  <2>1. 0 .. m - 1 \in Below /\ m \in Nat /\ n \in Nat
    OBVIOUS
  <2>2. 0 .. m - 1 \subseteq 0 .. n - 1 /\ m \in 0 .. n - 1 /\ m \notin 0 .. m - 1
    BY <2>1, <1>5
  <2>3. <<0 .. m - 1, 0 .. n - 1>> \in Less
    BY <2>1, <2>2 DEF StrictSubsetOrdering
  <2>4. QED
    BY <1>3, <1>4, <2>1, <2>3
<1>6. QED
  BY <1>5

(* Of the numbers that are not in S, none can be the least.                  *)
LEMMA Inductive ==
    ASSUME NEW S, 0 \in S, \A n \in Nat : n \in S => n + 1 \in S
    PROVE  Nat \subseteq S
<1> SUFFICES ASSUME Nat \ S # {} PROVE FALSE
  OBVIOUS
<1>1. PICK n \in Nat \ S : \A m \in Nat \ S : n <= m
  BY Least
<1>2. n - 1 \in Nat /\ n - 1 \in S
  BY <1>1
<1>3. QED
  BY <1>1, <1>2

(* Max and Min of sets of numbers.                                           *)
LEMMA MinOf ==
    ASSUME NEW S \in SUBSET Nat, S # {}
    PROVE  Min(S) \in S /\ \A x \in S : Min(S) <= x
  BY Least DEF Min

LEMMA MaxOf ==
    ASSUME NEW n \in Nat, NEW S \in SUBSET (1 .. n), S # {}
    PROVE  Max(S) \in S /\ \A x \in S : Max(S) >= x
<1> DEFINE T == {d \in Nat : \E x \in S : d = n - x}
<1>1. \A x \in S : x \in Int /\ n - x \in T
  OBVIOUS
<1>2. PICK d \in T : \A e \in T : d <= e
  <2>1. T \in SUBSET Nat /\ T # {}
    BY <1>1
  <2> HIDE DEF T
  <2>2. QED
    BY <2>1, Least
<1>3. PICK x \in S : d = n - x
  BY <1>2
<1>4. ASSUME NEW y \in S PROVE x >= y
  <2>1. n - x <= n - y
    BY <1>1, <1>2, <1>3
  <2>2. QED
    BY <1>1, <2>1
<1>5. QED
  BY <1>4 DEF Max

LEMMA MaxTop ==
    ASSUME NEW n \in Nat, NEW S \in SUBSET (1 .. n)
    PROVE  Max(S \cup {n + 1}) = n + 1
<1>1. S \cup {n + 1} \in SUBSET (1 .. n + 1) /\ n + 1 \in Nat
  OBVIOUS
<1>2. /\ Max(S \cup {n + 1}) \in S \cup {n + 1}
      /\ Max(S \cup {n + 1}) >= n + 1
  BY <1>1, MaxOf
<1>3. \A x \in S \cup {n + 1} : x \in Int /\ x <= n + 1
  BY <1>1
<1> DEFINE top == Max(S \cup {n + 1})
<1>4. top \in Int /\ top <= n + 1 /\ top >= n + 1
  BY <1>2, <1>3
<1> HIDE DEF top
<1>5. top = n + 1
  BY <1>4
<1>6. QED
  BY <1>5 DEF top

-----------------------------------------------------------------------------
(* The last values of a sequence of partial functions, when one is added.    *)
LEMMA LatestGrows ==
    ASSUME NEW n \in Nat, NEW seq, NEW longer, NEW given, NEW next, NEW keys,
           DOMAIN next = DOMAIN given, keys \subseteq DOMAIN given,
           \A i \in 1 .. n : longer[i] = seq[i],
           \A k \in DOMAIN given : given[k] \subseteq 1 .. n,
           \A k \in keys : next[k] = given[k] \cup {n + 1},
           \A k \in DOMAIN given \ keys : next[k] = given[k]
    PROVE  Latest(longer, next)
               = Merged(Latest(seq, given), [k \in keys |-> longer[n + 1][k]])
<1> DEFINE last == Latest(longer, next)
           old == Latest(seq, given)
           new == [k \in keys |-> longer[n + 1][k]]
           merged == Merged(old, new)
<1>1. DOMAIN last = DOMAIN merged
  BY DEF Latest, Merged
<1>2. ASSUME NEW k \in DOMAIN last PROVE last[k] = merged[k]
  <2>1. k \in DOMAIN given /\ last[k] = longer[Max(next[k])][k]
    BY <1>2 DEF Latest
  <2>2. CASE k \in keys
    <3>1. Max(next[k]) = n + 1
      BY <2>1, <2>2, MaxTop
    <3>2. merged[k] = new[k]
      BY <2>2 DEF Merged
    <3>3. QED
      BY <2>1, <2>2, <3>1, <3>2
  <2>3. CASE k \notin keys
    <3>1. given[k] # {} /\ next[k] = given[k] /\ given[k] \subseteq 1 .. n
      BY <1>2, <2>1, <2>3 DEF Latest
    <3>2. Max(given[k]) \in 1 .. n
      BY <3>1, MaxOf
    <3>3. k \in DOMAIN old /\ old[k] = seq[Max(given[k])][k]
      BY <2>1, <3>1 DEF Latest
    <3>4. merged[k] = old[k]
      BY <2>3, <3>3 DEF Merged
    <3>5. QED
      BY <2>1, <3>1, <3>2, <3>3, <3>4
  <2>4. QED
    BY <2>2, <2>3
<1>3. last = [k \in DOMAIN last |-> last[k]] /\ merged = [k \in DOMAIN merged |-> merged[k]]
  BY DEF Latest, Merged
<1>4. QED
  BY <1>1, <1>2, <1>3

Extends(longer, seq, n) ==
    /\ DOMAIN seq = 1 .. n /\ DOMAIN longer = 1 .. n + 1
    /\ \A i \in 1 .. n : longer[i] = seq[i]

(* One more element: the last integers are those before it, merged with      *)
(* its changes.                                                              *)
LEMMA LatestInts ==
    ASSUME NEW n \in Nat, NEW seq, NEW longer, NEW keys, Extends(longer, seq, n)
    PROVE  Latest(longer, Given(longer, keys, IsInt))
               = Merged(Latest(seq, Given(seq, keys, IsInt)),
                        Changes(longer[n + 1], keys))
<1> DEFINE given == Given(seq, keys, IsInt)
           next == Given(longer, keys, IsInt)
           v == longer[n + 1]
           said == {k \in DOMAIN v \cap keys : v[k] \in Int}
<1>1. Changes(v, keys) = [k \in said |-> v[k]]
  BY DEF Changes, Selected, Restrict, RestrictValues, IsInt
<1>2. /\ DOMAIN next = keys /\ DOMAIN given = keys
      /\ \A k \in keys : /\ given[k] \subseteq 1 .. n
                         /\ k \in said => next[k] = given[k] \cup {n + 1}
                         /\ k \notin said => next[k] = given[k]
  BY DEF Given, IsInt, Extends
<1>3. Latest(longer, next) = Merged(Latest(seq, given), [k \in said |-> v[k]])
  <2> HIDE DEF given, next, v
  <2>1. said \subseteq DOMAIN given /\ \A i \in 1 .. n : longer[i] = seq[i]
    BY <1>2 DEF Extends
  <2> HIDE DEF said
  <2>2. QED
    BY <1>2, <2>1, LatestGrows DEF v
<1>4. QED
  BY <1>1, <1>3

(* The same of the last values of any kind.                                  *)
LEMMA LatestAny ==
    ASSUME NEW n \in Nat, NEW seq, NEW longer, NEW keys, Extends(longer, seq, n)
    PROVE  Latest(longer, Given(longer, keys, Anything))
               = Merged(Latest(seq, Given(seq, keys, Anything)),
                        Selected(longer[n + 1], keys))
<1> DEFINE given == Given(seq, keys, Anything)
           next == Given(longer, keys, Anything)
           v == longer[n + 1]
           said == DOMAIN v \cap keys
<1>1. Selected(v, keys) = [k \in said |-> v[k]]
  BY DEF Selected, Restrict
<1>2. /\ DOMAIN next = keys /\ DOMAIN given = keys
      /\ \A k \in keys : /\ given[k] \subseteq 1 .. n
                         /\ k \in said => next[k] = given[k] \cup {n + 1}
                         /\ k \notin said => next[k] = given[k]
  BY DEF Given, Anything, Extends
<1>3. Latest(longer, next) = Merged(Latest(seq, given), [k \in said |-> v[k]])
  <2> HIDE DEF given, next, v
  <2>1. said \subseteq DOMAIN given /\ \A i \in 1 .. n : longer[i] = seq[i]
    BY <1>2 DEF Extends
  <2> HIDE DEF said
  <2>2. QED
    BY <1>2, <2>1, LatestGrows DEF v
<1>4. QED
  BY <1>1, <1>3

(* Nothing adds nothing, and nobody has said anything in the beginning.      *)
LEMMA MergedNothing ==
    ASSUME NEW seq, NEW given, NEW keys
    PROVE  /\ Merged(Latest(seq, given), Changes(Nothing, keys)) = Latest(seq, given)
           /\ Merged(Latest(seq, given), Selected(Nothing, keys)) = Latest(seq, given)
<1>1. DOMAIN Changes(Nothing, keys) = {} /\ DOMAIN Selected(Nothing, keys) = {}
  BY DEF Nothing, Changes, Selected, Restrict, RestrictValues
<1>2. \A f : DOMAIN f = {} => Merged(Latest(seq, given), f) = Latest(seq, given)
  BY DEF Merged, Latest
<1>3. QED
  BY <1>1, <1>2

(* Of no element at all, no key has a last value.                            *)
LEMMA LatestOfNone ==
    ASSUME NEW seq, DOMAIN seq = {}, NEW keys
    PROVE  /\ Latest(seq, Given(seq, keys, IsInt)) = <<>>
           /\ Latest(seq, Given(seq, keys, Anything)) = <<>>
<1>1. /\ \A k \in keys : Given(seq, keys, IsInt)[k] = {} /\ Given(seq, keys, Anything)[k] = {}
      /\ DOMAIN Given(seq, keys, IsInt) = keys /\ DOMAIN Given(seq, keys, Anything) = keys
  BY DEF Given
<1>2. QED
  BY <1>1 DEF Latest

-----------------------------------------------------------------------------
(* The fold over packData, and the concatenation of all packData, one entry  *)
(* at a time.                                                                *)
Rounds(known, entries) == FoldLeft(MergedPack, known, entries)

Folds(f, known, entries, n) ==
    f = [S \in SUBSET (1 .. n) |->
            IF S = {} THEN known ELSE MergedPack(f[S \ {Max(S)}], entries[Max(S)])]

(* The recursion of FoldLeft has a solution, by induction on n: one for      *)
(* 1 .. n + 1 is made of one for 1 .. n.                                     *)
LEMMA FoldsExists ==
    ASSUME NEW known, NEW entries
    PROVE  \A n \in Nat : \E f : Folds(f, known, entries, n)
<1> DEFINE Done == {n \in Nat : \E f : Folds(f, known, entries, n)}
<1>1. 0 \in Done
  <2>1. Folds([S \in SUBSET (1 .. 0) |-> known], known, entries, 0)
    BY DEF Folds
  <2>2. QED
    BY <2>1
<1>2. ASSUME NEW n \in Nat, n \in Done PROVE n + 1 \in Done
  <2>1. PICK f : Folds(f, known, entries, n)
    BY <1>2
  <2> DEFINE N == n + 1
             g == [S \in SUBSET (1 .. N) |->
                      IF N \in S THEN MergedPack(f[S \ {N}], entries[N]) ELSE f[S]]
  <2>2. ASSUME NEW S \in SUBSET (1 .. N)
        PROVE  g[S] = IF S = {} THEN known
                      ELSE MergedPack(g[S \ {Max(S)}], entries[Max(S)])
    <3>1. CASE N \in S
      <4>1. S \ {N} \in SUBSET (1 .. n) /\ S \ {N} \in SUBSET (1 .. N)
        OBVIOUS
      <4>2. Max(S) = N
        <5>1. S = (S \ {N}) \cup {N}
          BY <3>1
        <5>2. QED
          BY <4>1, <5>1, MaxTop
      <4>3. g[S] = MergedPack(f[S \ {N}], entries[N])
        BY <3>1
      <4>4. g[S \ {N}] = f[S \ {N}]
        BY <4>1
      <4>5. QED
        BY <3>1, <4>2, <4>3, <4>4
    <3>2. CASE N \notin S
      <4>1. S \in SUBSET (1 .. n) /\ S \ {Max(S)} \in SUBSET (1 .. n)
        <5>1. \A x \in S : x \in 1 .. n
          BY <3>2
        <5>2. QED
          BY <5>1
      <4>2. S \ {Max(S)} \in SUBSET (1 .. N) /\ N \notin S \ {Max(S)}
        BY <3>2
      <4>3. g[S] = f[S] /\ g[S \ {Max(S)}] = f[S \ {Max(S)}]
        BY <3>2, <4>2
      <4>4. f[S] = IF S = {} THEN known
                   ELSE MergedPack(f[S \ {Max(S)}], entries[Max(S)])
        BY <2>1, <4>1 DEF Folds
      <4>5. QED
        BY <4>3, <4>4
    <3>3. QED
      BY <3>1, <3>2
  <2>3. Folds(g, known, entries, N)
    <3>1. g = [S \in SUBSET (1 .. N) |-> g[S]]
      OBVIOUS
    <3> HIDE DEF g
    <3>2. QED
      BY <2>2, <3>1 DEF Folds
  <2>4. QED
    BY <2>3
<1>3. Nat \subseteq Done
  <2> HIDE DEF Done
  <2>1. QED
    BY <1>1, <1>2, Inductive
<1>4. QED
  BY <1>3

Rounding(r, known, entries, n) ==
    /\ r[0] = known /\ r[n] = Rounds(known, entries)
    /\ \A k \in 1 .. n : r[k] = MergedPack(r[k - 1], entries[k])

(* So that the fold is the last of a sequence of rounds, one per entry.      *)
LEMMA RoundsStep ==
    ASSUME NEW known, NEW entries, NEW n \in Nat, DOMAIN entries = 1 .. n
    PROVE  \E r : Rounding(r, known, entries, n)
<1> DEFINE f == CHOOSE f : Folds(f, known, entries, n)
           r == [k \in 0 .. n |-> f[1 .. k]]
<1>1. Folds(f, known, entries, n)
  BY FoldsExists
<1>2. Rounds(known, entries) = f[1 .. n]
  BY DEF Rounds, FoldLeft, MapThenFoldSet, Folds
<1> HIDE DEF f
<1>3. \A S \in SUBSET (1 .. n) :
          f[S] = IF S = {} THEN known
                 ELSE MergedPack(f[S \ {Max(S)}], entries[Max(S)])
  BY <1>1 DEF Folds
<1>4. f[1 .. 0] = known
  <2>1. (1 .. 0) = {} /\ {} \in SUBSET (1 .. n)
    OBVIOUS
  <2>2. f[{}] = known
    BY <1>3, <2>1
  <2>3. QED
    BY <2>1, <2>2
<1>5. ASSUME NEW k \in 1 .. n
      PROVE  f[1 .. k] = MergedPack(f[1 .. k - 1], entries[k])
  <2>1. /\ k - 1 \in Nat /\ (1 .. k - 1) \in SUBSET (1 .. k - 1)
        /\ (1 .. k) = (1 .. k - 1) \cup {(k - 1) + 1} /\ (k - 1) + 1 = k
    OBVIOUS
  <2>2. Max(1 .. k) = k
    BY <2>1, MaxTop
  <2>3. (1 .. k) \ {k} = 1 .. k - 1 /\ 1 .. k # {} /\ (1 .. k) \in SUBSET (1 .. n)
    OBVIOUS
  <2>4. QED
    BY <1>3, <2>2, <2>3
<1>6. r[0] = known /\ r[n] = f[1 .. n]
  BY <1>4
<1>7. ASSUME NEW k \in 1 .. n PROVE r[k] = MergedPack(r[k - 1], entries[k])
  <2>1. k \in 0 .. n /\ k - 1 \in 0 .. n
    OBVIOUS
  <2>2. r[k] = f[1 .. k] /\ r[k - 1] = f[1 .. k - 1]
    BY <2>1
  <2>3. QED
    BY <1>5, <2>2
<1> HIDE DEF r
<1>8. QED
  BY <1>2, <1>6, <1>7 DEF Rounding

Joins(f, lists, n) ==
    f = [i \in 1 .. n |-> IF i = 1 THEN lists[i] ELSE f[i - 1] \o lists[i]]

(* The recursion of FlattenSeq has a solution, again by induction.           *)
LEMMA JoinsExists ==
    ASSUME NEW lists
    PROVE  \A n \in Nat : \E f : Joins(f, lists, n)
<1> DEFINE Done == {n \in Nat : \E f : Joins(f, lists, n)}
<1>1. 0 \in Done
  <2>1. Joins([i \in 1 .. 0 |-> i], lists, 0)
    BY DEF Joins
  <2>2. QED
    BY <2>1
<1>2. ASSUME NEW n \in Nat, n \in Done PROVE n + 1 \in Done
  <2>1. PICK f : Joins(f, lists, n)
    BY <1>2
  <2> DEFINE N == n + 1
             g == [i \in 1 .. N |->
                      IF i <= n THEN f[i] ELSE IF i = 1 THEN lists[i]
                      ELSE f[i - 1] \o lists[i]]
  <2>2. ASSUME NEW i \in 1 .. N
        PROVE  g[i] = IF i = 1 THEN lists[i] ELSE g[i - 1] \o lists[i]
    <3>1. i # 1 => i - 1 \in 1 .. n /\ i - 1 \in 1 .. N /\ g[i - 1] = f[i - 1]
      OBVIOUS
    <3>2. CASE i <= n
      <4>1. i \in 1 .. n /\ g[i] = f[i]
        BY <3>2
      <4>2. f[i] = IF i = 1 THEN lists[i] ELSE f[i - 1] \o lists[i]
        BY <2>1, <4>1 DEF Joins
      <4> HIDE DEF g
      <4>3. QED
        BY <3>1, <4>1, <4>2
    <3>3. CASE ~(i <= n)
      <4>1. g[i] = IF i = 1 THEN lists[i] ELSE f[i - 1] \o lists[i]
        BY <3>3
      <4> HIDE DEF g
      <4>2. QED
        BY <3>1, <4>1
    <3>4. QED
      BY <3>2, <3>3
  <2>3. Joins(g, lists, N)
    <3>1. g = [i \in 1 .. N |-> g[i]]
      OBVIOUS
    <3> HIDE DEF g
    <3>2. QED
      BY <2>2, <3>1 DEF Joins
  <2>4. QED
    BY <2>3
<1>3. Nat \subseteq Done
  <2> HIDE DEF Done
  <2>1. QED
    BY <1>1, <1>2, Inductive
<1>4. QED
  BY <1>3

Agree(f, g, n) == \A i \in 1 .. n : g[i] = f[i]

(* And its solution for a longer sequence begins like the shorter one's.     *)
LEMMA JoinsAgree ==
    ASSUME NEW lists, NEW longer, NEW n \in Nat,
           NEW f, NEW g, Joins(f, lists, n), Joins(g, longer, n + 1),
           Agree(lists, longer, n)
    PROVE  Agree(f, g, n)
<1> DEFINE Same == {i \in Nat : i \in 1 .. n => g[i] = f[i]}
<1>1. /\ \A i \in 1 .. n : f[i] = IF i = 1 THEN lists[i] ELSE f[i - 1] \o lists[i]
      /\ \A i \in 1 .. n + 1 : g[i] = IF i = 1 THEN longer[i] ELSE g[i - 1] \o longer[i]
  BY DEF Joins
<1>2. 0 \in Same
  OBVIOUS
<1>3. ASSUME NEW i \in Nat, i \in Same PROVE i + 1 \in Same
  <2> SUFFICES ASSUME i + 1 \in 1 .. n PROVE g[i + 1] = f[i + 1]
    OBVIOUS
  <2>1. i + 1 \in 1 .. n + 1 /\ longer[i + 1] = lists[i + 1] /\ (i + 1) - 1 = i
    BY DEF Agree
  <2>2. i + 1 # 1 => g[i] = f[i]
    BY <1>3
  <2>3. QED
    BY <1>1, <2>1, <2>2
<1>4. Nat \subseteq Same
  <2> HIDE DEF Same
  <2>1. QED
    BY <1>2, <1>3, Inductive
<1>5. QED
  BY <1>4 DEF Agree

(* FlattenSeq is the last element of that solution.                          *)
LEMMA FlattenIs ==
    ASSUME NEW lists, NEW n \in Nat \ {0}, Len(lists) = n
    PROVE  \E f : Joins(f, lists, n) /\ FlattenSeq(lists) = f[n]
<1> DEFINE f == CHOOSE f : Joins(f, lists, n)
<1>1. Joins(f, lists, n)
  BY JoinsExists
<1>2. FlattenSeq(lists) = f[n]
  BY DEF FlattenSeq, Joins
<1> HIDE DEF f
<1>3. QED
  BY <1>1, <1>2

(* One more report: what it lists is appended to what all of them list.      *)
LEMMA FlattenGrows ==
    ASSUME NEW n \in Nat, NEW lists, NEW longer,
           lists \in [1 .. n -> Seq(Entries)], longer \in [1 .. n + 1 -> Seq(Entries)],
           Agree(lists, longer, n)
    PROVE  FlattenSeq(longer) = FlattenSeq(lists) \o longer[n + 1]
<1>1. /\ Len(lists) = n /\ Len(longer) = n + 1 /\ n + 1 \in Nat \ {0}
      /\ longer[n + 1] \in Seq(Entries)
  OBVIOUS
<1>2. PICK g : Joins(g, longer, n + 1) /\ FlattenSeq(longer) = g[n + 1]
  BY <1>1, FlattenIs
<1>3. g[n + 1] = IF n = 0 THEN longer[1] ELSE g[n] \o longer[n + 1]
  <2>1. n + 1 \in 1 .. n + 1 /\ (n + 1) - 1 = n /\ (n + 1 = 1 <=> n = 0)
    OBVIOUS
  <2>2. \A i \in 1 .. n + 1 : g[i] = IF i = 1 THEN longer[i] ELSE g[i - 1] \o longer[i]
    BY <1>2 DEF Joins
  <2>3. g[n + 1] = IF n + 1 = 1 THEN longer[n + 1] ELSE g[(n + 1) - 1] \o longer[n + 1]
    BY <2>1, <2>2
  <2>4. QED
    BY <2>1, <2>3
<1>4. CASE n = 0
  <2>1. FlattenSeq(lists) = <<>>
    BY <1>1, <1>4 DEF FlattenSeq
  <2>2. <<>> \o longer[n + 1] = longer[n + 1]
    BY <1>1
  <2>3. QED
    BY <1>2, <1>3, <1>4, <2>1, <2>2
<1>5. CASE n # 0
  <2>1. PICK f : Joins(f, lists, n) /\ FlattenSeq(lists) = f[n]
    BY <1>1, <1>5, FlattenIs
  <2>2. g[n] = f[n]
    <3>1. n \in 1 .. n
      BY <1>5
    <3>2. Agree(f, g, n)
      BY <1>2, <2>1, JoinsAgree
    <3>3. QED
      BY <3>1, <3>2 DEF Agree
  <2>3. QED
    BY <1>2, <1>3, <1>5, <2>1, <2>2
<1>6. QED
  BY <1>4, <1>5

-----------------------------------------------------------------------------
(* _merged_packs mirrors packData, one entry at a time.                      *)
Serials == {e.sn : e \in Entries} \ {None}
PackInts == UNION {[keys -> Int] : keys \in SUBSET PackKeys}
PackType == [sn : Serials, values : PackInts]

Seen(entries, sn) ==
    Latest(Of(entries, sn), Given(Of(entries, sn), PackKeys, IsInt))

Named(entries) == {e.sn : e \in ToSet(entries)}

(* Slot is where the first entry of a pack is, or 0.                         *)
LEMMA SlotOf ==
    ASSUME NEW S, NEW seq \in Seq(S), NEW sn
    PROVE  /\ sn \in Named(seq) =>
                 /\ Slot(seq, sn) \in 1 .. Len(seq) /\ seq[Slot(seq, sn)].sn = sn
                 /\ \A i \in 1 .. Len(seq) : seq[i].sn = sn => Slot(seq, sn) <= i
           /\ sn \notin Named(seq) => Slot(seq, sn) = 0
<1> DEFINE I == {i \in 1 .. Len(seq) : seq[i].sn = sn}
<1>1. Slot(seq, sn) = IF I # {} THEN Min(I) ELSE 0
  BY DEF Slot, SelectInSeq
<1>2. DOMAIN seq = 1 .. Len(seq) /\ I \in SUBSET Nat
  OBVIOUS
<1>3. sn \in Named(seq) <=> I # {}
  BY <1>2 DEF Named, ToSet
<1>4. I # {} => Min(I) \in I /\ \A i \in I : Min(I) <= i
  BY <1>2, MinOf
<1>5. QED
  BY <1>1, <1>3, <1>4

(* An entry appended moves no pack that was named before it.                 *)
LEMMA SlotGrows ==
    ASSUME NEW S, NEW seq \in Seq(S), NEW e \in S, NEW sn
    PROVE  /\ sn \in Named(seq) => Slot(Append(seq, e), sn) = Slot(seq, sn)
           /\ sn \notin Named(seq) /\ e.sn = sn
                  => Slot(Append(seq, e), sn) = Len(seq) + 1
           /\ Named(Append(seq, e)) = Named(seq) \cup {e.sn}
<1> DEFINE next == Append(seq, e)
           n == Len(seq)
<1>1. /\ next \in Seq(S) /\ Len(next) = n + 1 /\ n \in Nat
      /\ next[n + 1] = e /\ \A i \in 1 .. n : next[i] = seq[i]
      /\ DOMAIN seq = 1 .. n /\ DOMAIN next = 1 .. n + 1
  OBVIOUS
<1> HIDE DEF next, n
<1>2. Named(next) = Named(seq) \cup {e.sn}
  BY <1>1 DEF Named, ToSet
<1>3. ASSUME sn \in Named(seq) PROVE Slot(next, sn) = Slot(seq, sn)
  <2>1. /\ Slot(seq, sn) \in 1 .. n /\ seq[Slot(seq, sn)].sn = sn
        /\ \A i \in 1 .. n : seq[i].sn = sn => Slot(seq, sn) <= i
    BY <1>3, SlotOf DEF n
  <2>2. /\ Slot(next, sn) \in 1 .. n + 1 /\ next[Slot(next, sn)].sn = sn
        /\ \A i \in 1 .. n + 1 : next[i].sn = sn => Slot(next, sn) <= i
    BY <1>1, <1>2, <1>3, SlotOf
  <2>3. Slot(next, sn) <= Slot(seq, sn)
    BY <1>1, <2>1, <2>2
  <2>4. Slot(next, sn) \in 1 .. n
    BY <1>1, <2>1, <2>2, <2>3
  <2>5. Slot(seq, sn) <= Slot(next, sn)
    BY <1>1, <2>1, <2>2, <2>4
  <2>6. QED
    BY <1>1, <2>1, <2>3, <2>4, <2>5
<1>4. ASSUME sn \notin Named(seq), e.sn = sn PROVE Slot(next, sn) = n + 1
  <2>1. Slot(next, sn) \in 1 .. n + 1 /\ next[Slot(next, sn)].sn = sn
    BY <1>1, <1>2, <1>4, SlotOf
  <2>2. \A i \in 1 .. n : seq[i].sn # sn
    BY <1>1, <1>4 DEF Named, ToSet
  <2>3. QED
    BY <1>1, <2>1, <2>2
<1>5. QED
  BY <1>2, <1>3, <1>4 DEF next, n

(* It changes the last integers of its own pack only.                        *)
LEMMA SeenGrows ==
    ASSUME NEW S, NEW entries \in Seq(S), NEW e \in S, NEW sn
    PROVE  Seen(Append(entries, e), sn) =
               IF e.sn = sn THEN Merged(Seen(entries, sn), Changes(e.values, PackKeys))
               ELSE Seen(entries, sn)
<1> DEFINE n == Len(entries)
           seq == Of(entries, sn)
           longer == Of(Append(entries, e), sn)
<1>1. n \in Nat /\ Extends(longer, seq, n)
  BY DEF Extends, Of
<1>2. longer[n + 1] = IF e.sn = sn THEN e.values ELSE Nothing
  BY DEF Of
<1>3. Seen(Append(entries, e), sn)
          = Merged(Seen(entries, sn), Changes(longer[n + 1], PackKeys))
  <2> HIDE DEF n, seq, longer
  <2>1. QED
    BY <1>1, LatestInts DEF Seen, seq, longer
<1>4. Merged(Seen(entries, sn), Changes(Nothing, PackKeys)) = Seen(entries, sn)
  BY MergedNothing DEF Seen
<1>5. QED
  BY <1>2, <1>3, <1>4

(* The first entry of a pack is all that is seen of it.                      *)
LEMMA SeenFirst ==
    ASSUME NEW entries, NEW sn, sn \notin Named(entries), NEW values
    PROVE  Merged(Seen(entries, sn), Changes(values, PackKeys))
               = Changes(values, PackKeys)
<1>1. \A i \in DOMAIN entries : entries[i].sn # sn
  BY DEF Named, ToSet
<1>2. \A i \in DOMAIN entries : Of(entries, sn)[i] = Nothing
  BY <1>1 DEF Of
<1>3. DOMAIN Seen(entries, sn) = {}
  <2>1. \A k \in PackKeys : Given(Of(entries, sn), PackKeys, IsInt)[k] = {}
    BY <1>2 DEF Given, Of, Nothing
  <2>2. DOMAIN Given(Of(entries, sn), PackKeys, IsInt) = PackKeys
    BY DEF Given
  <2>3. QED
    BY <2>1, <2>2 DEF Seen, Latest
<1>4. Changes(values, PackKeys)
          = [k \in DOMAIN Changes(values, PackKeys) |-> Changes(values, PackKeys)[k]]
  BY DEF Changes, RestrictValues, Restrict
<1>5. QED
  BY <1>3, <1>4 DEF Merged

(* The changes of an entry, and what they are merged into, are integers.     *)
LEMMA ChangesType ==
    ASSUME NEW values
    PROVE  /\ Changes(values, PackKeys) \in PackInts
           /\ \A old \in PackInts : Merged(old, Changes(values, PackKeys)) \in PackInts
<1> DEFINE new == Changes(values, PackKeys)
           said == {k \in DOMAIN values \cap PackKeys : values[k] \in Int}
<1>1. new = [k \in said |-> values[k]]
  BY DEF Changes, Selected, Restrict, RestrictValues, IsInt
<1>2. new \in [said -> Int] /\ said \in SUBSET PackKeys
  BY <1>1
<1> HIDE DEF new, said
<1>3. ASSUME NEW keys \in SUBSET PackKeys, NEW old \in [keys -> Int]
      PROVE  Merged(old, new) \in [keys \cup said -> Int]
  BY <1>2 DEF Merged
<1>4. \A old \in PackInts : Merged(old, new) \in PackInts
  <2> SUFFICES ASSUME NEW old \in PackInts PROVE Merged(old, new) \in PackInts
    OBVIOUS
  <2>1. PICK keys \in SUBSET PackKeys : old \in [keys -> Int]
    BY DEF PackInts
  <2>2. Merged(old, new) \in [keys \cup said -> Int] /\ keys \cup said \in SUBSET PackKeys
    BY <1>2, <1>3, <2>1
  <2>3. QED
    BY <2>2 DEF PackInts
<1>5. QED
  BY <1>2, <1>4 DEF PackInts, new

(* MergedPack keeps the packs those of the entries, whether the entry names  *)
(* none, a new pack or a known one.                                          *)
LEMMA MirrorStep ==
    ASSUME NEW known \in Seq(PackType), NEW entries \in Seq(Entries), NEW e \in Entries,
           Mirror(known, entries)
    PROVE  /\ MergedPack(known, e) \in Seq(PackType)
           /\ Mirror(MergedPack(known, e), Append(entries, e))
<1> DEFINE next == Append(entries, e)
           new == MergedPack(known, e)
           changes == Changes(e.values, PackKeys)
           i == Slot(known, e.sn)
<1>1. /\ Named(known) = Named(entries) \ {None}
      /\ \A j, k \in DOMAIN known :
            j < k => Slot(entries, known[j].sn) < Slot(entries, known[k].sn)
      /\ \A p \in ToSet(known) : p.values = Seen(entries, p.sn)
  BY DEF Mirror, Named, Seen
<1>2. /\ DOMAIN known = 1 .. Len(known) /\ Len(known) \in Nat
      /\ \A j \in DOMAIN known : known[j] \in PackType /\ known[j] \in ToSet(known)
      /\ ToSet(known) = {known[j] : j \in DOMAIN known}
  BY DEF ToSet
<1>3. \A j \in DOMAIN known : /\ known[j].sn \in Named(entries) /\ known[j].sn # None
                              /\ known[j].sn \in Serials /\ known[j].values \in PackInts
                              /\ known[j].values = Seen(entries, known[j].sn)
  BY <1>1, <1>2 DEF Named, PackType, PackInts, Serials
<1>4. \A sn \in Named(entries) : Slot(next, sn) = Slot(entries, sn)
  BY SlotGrows
<1>5. Named(next) = Named(entries) \cup {e.sn}
  BY SlotGrows
<1>6. ASSUME new \in Seq(PackType), Named(new) = Named(next) \ {None},
             \A j, k \in DOMAIN new :
                 j < k => Slot(next, new[j].sn) < Slot(next, new[k].sn),
             \A j \in DOMAIN new : new[j].values = Seen(next, new[j].sn)
      PROVE  new \in Seq(PackType) /\ Mirror(new, next)
  <2> HIDE DEF new, next
  <2>1. \A p \in ToSet(new) : p.values = Seen(next, p.sn)
    BY <1>6 DEF ToSet
  <2>2. QED
    BY <1>6, <2>1 DEF Mirror, Named, Seen
<1>7. CASE e.sn = None
  <2>1. new = known
    BY <1>7 DEF MergedPack
  <2>2. \A sn : sn # None => Seen(next, sn) = Seen(entries, sn)
    BY <1>7, SeenGrows
  <2>3. Named(known) = Named(next) \ {None}
    BY <1>1, <1>5, <1>7
  <2> HIDE DEF new, next
  <2>4. new \in Seq(PackType) /\ Mirror(new, next)
    BY <1>1, <1>2, <1>3, <1>4, <1>6, <2>1, <2>2, <2>3
  <2>5. QED
    BY <2>4 DEF new, next
<1>8. CASE e.sn # None /\ i = 0
  <2> DEFINE pack == [sn |-> e.sn, values |-> changes]
             n == Len(known)
  <2>1. new = Append(known, pack)
    BY <1>8 DEF MergedPack
  <2>2. e.sn \notin Named(known) /\ e.sn \notin Named(entries)
    <3>1. e.sn \in Named(known) => Slot(known, e.sn) \in 1 .. Len(known)
      BY SlotOf
    <3>2. QED
      BY <1>1, <1>2, <1>8, <3>1
  <2>3. pack \in PackType /\ pack.sn = e.sn /\ pack.values = changes
    BY <1>8, ChangesType DEF PackType, Serials, PackInts
  <2>4. changes = Seen(next, e.sn)
    BY <2>2, SeenGrows, SeenFirst
  <2>5. \A sn : sn # e.sn => Seen(next, sn) = Seen(entries, sn)
    BY SeenGrows
  <2>6. Slot(next, e.sn) = Len(entries) + 1
    BY <2>2, SlotGrows
  <2>7. \A sn \in Named(entries) : Slot(next, sn) < Slot(next, e.sn)
    <3>1. \A sn \in Named(entries) : Slot(entries, sn) \in 1 .. Len(entries)
      BY SlotOf
    <3>2. QED
      BY <1>4, <2>6, <3>1
  <2> HIDE DEF new, next, pack, changes, i
  <2>8. /\ new \in Seq(PackType) /\ DOMAIN new = 1 .. n + 1
        /\ new[n + 1] = pack /\ \A j \in 1 .. n : new[j] = known[j]
        /\ Named(new) = Named(known) \cup {e.sn}
    <3>1. Named(new) = Named(known) \cup {e.sn}
      BY <2>1, <2>3, SlotGrows
    <3>2. QED
      BY <2>1, <2>3, <3>1
  <2>9. Named(new) = Named(next) \ {None}
    BY <1>1, <1>5, <1>8, <2>8
  <2>10. ASSUME NEW j \in DOMAIN new, NEW k \in DOMAIN new, j < k
         PROVE  Slot(next, new[j].sn) < Slot(next, new[k].sn)
    <3>1. j \in 1 .. n /\ j \in DOMAIN known /\ new[j] = known[j]
      BY <1>2, <2>8, <2>10
    <3>2. CASE k = n + 1
      BY <1>3, <2>3, <2>7, <2>8, <3>1, <3>2
    <3>3. CASE k # n + 1
      <4>1. k \in DOMAIN known /\ new[k] = known[k]
        BY <1>2, <2>8, <3>3
      <4>2. QED
        BY <1>1, <1>3, <1>4, <2>10, <3>1, <4>1
    <3>4. QED
      BY <3>2, <3>3
  <2>11. ASSUME NEW j \in DOMAIN new PROVE new[j].values = Seen(next, new[j].sn)
    <3>1. CASE j = n + 1
      BY <2>3, <2>4, <2>8, <3>1
    <3>2. CASE j # n + 1
      <4>1. j \in DOMAIN known /\ new[j] = known[j]
        BY <1>2, <2>8, <3>2
      <4>2. known[j].sn # e.sn
        BY <1>3, <2>2, <4>1
      <4>3. QED
        BY <1>3, <2>5, <4>1, <4>2
    <3>3. QED
      BY <3>1, <3>2
  <2>12. new \in Seq(PackType) /\ Mirror(new, next)
    BY <1>6, <2>8, <2>9, <2>10, <2>11
  <2>13. QED
    BY <2>12 DEF new, next
<1>9. CASE e.sn # None /\ i # 0
  <2> DEFINE pack == [sn |-> known[i].sn, values |-> Merged(known[i].values, changes)]
  <2>1. e.sn \in Named(known) /\ i \in DOMAIN known /\ known[i].sn = e.sn
    <3>1. e.sn \in Named(known)
      BY <1>9, SlotOf
    <3>2. QED
      BY <1>2, <3>1, SlotOf
  <2>2. new = [known EXCEPT ![i].values = Merged(@, changes)]
    BY <1>9 DEF MergedPack
  <2>3. /\ pack \in PackType /\ pack.sn = e.sn
        /\ pack.values = Merged(Seen(entries, e.sn), changes)
    BY <1>2, <1>3, <2>1, ChangesType DEF PackType, PackInts
  <2>4. /\ DOMAIN new = DOMAIN known /\ new[i] = pack
        /\ \A j \in DOMAIN known \ {i} : new[j] = known[j]
        /\ new \in Seq(PackType)
    <3>1. new = [known EXCEPT ![i] = pack]
      <4>1. known[i] \in PackType
        BY <1>2, <2>1
      <4>2. [known[i] EXCEPT !.values = Merged(@, changes)] = pack
        BY <4>1 DEF PackType
      <4>3. QED
        BY <2>2, <4>2
    <3> HIDE DEF new, pack, i
    <3>2. QED
      BY <1>2, <2>1, <2>3, <3>1
  <2>5. /\ Seen(next, e.sn) = Merged(Seen(entries, e.sn), changes)
        /\ \A sn : sn # e.sn => Seen(next, sn) = Seen(entries, sn)
    BY SeenGrows
  <2> HIDE DEF new, next, pack, changes, i
  <2>6. \A j \in DOMAIN known : new[j].sn = known[j].sn
    BY <2>1, <2>3, <2>4
  <2>7. Named(new) = Named(known) /\ Named(next) = Named(entries)
    <3>1. Named(new) = Named(known)
      BY <2>4, <2>6 DEF Named, ToSet
    <3>2. QED
      BY <1>1, <1>5, <2>1, <3>1
  <2>8. \A j \in DOMAIN known \ {i} : known[j].sn # e.sn
    <3> SUFFICES ASSUME NEW j \in DOMAIN known, j # i, known[j].sn = e.sn PROVE FALSE
      OBVIOUS
    <3>1. j < i \/ i < j
      BY <1>2, <2>1
    <3>2. Slot(entries, e.sn) \in Int
      BY <1>1, <2>1, SlotOf
    <3>3. QED
      BY <1>1, <2>1, <3>1, <3>2
  <2>9. ASSUME NEW j \in DOMAIN new PROVE new[j].values = Seen(next, new[j].sn)
    <3>1. CASE j = i
      BY <2>3, <2>4, <2>5, <3>1
    <3>2. CASE j # i
      BY <1>3, <2>4, <2>5, <2>8, <3>2
    <3>3. QED
      BY <3>1, <3>2
  <2>10. \A j, k \in DOMAIN new :
             j < k => Slot(next, new[j].sn) < Slot(next, new[k].sn)
    BY <1>1, <1>3, <1>4, <2>4, <2>6
  <2>11. Named(new) = Named(next) \ {None}
    <3>1. None \notin Named(known)
      BY <1>1
    <3>2. QED
      BY <1>1, <2>7, <3>1, <1>5, <2>1, <1>9
  <2>12. new \in Seq(PackType) /\ Mirror(new, next)
    BY <1>6, <2>4, <2>9, <2>10, <2>11
  <2>13. QED
    BY <2>12 DEF new, next
<1>10. QED
  BY <1>7, <1>8, <1>9

-----------------------------------------------------------------------------
(* And so does the fold over a whole list.                                   *)
LEMMA RoundsMirror ==
    ASSUME NEW known \in Seq(PackType), NEW entries \in Seq(Entries),
           NEW list \in Seq(Entries), Mirror(known, entries)
    PROVE  /\ Rounds(known, list) \in Seq(PackType)
           /\ Mirror(Rounds(known, list), entries \o list)
<1> DEFINE Upto(k) == entries \o SubSeq(list, 1, k)
<1>1. PICK n \in Nat : n = Len(list) /\ DOMAIN list = 1 .. n
  OBVIOUS
<1>2. PICK r : Rounding(r, known, list, n)
  BY <1>1, RoundsStep
<1> DEFINE Done == {k \in Nat : k <= n => /\ r[k] \in Seq(PackType)
                                          /\ Mirror(r[k], Upto(k))}
<1>3. 0 \in Done
  <2>1. Upto(0) = entries
    OBVIOUS
  <2> HIDE DEF Upto
  <2>2. r[0] \in Seq(PackType) /\ Mirror(r[0], Upto(0))
    BY <1>2, <2>1 DEF Rounding
  <2>3. QED
    BY <2>2
<1>4. ASSUME NEW k \in Nat, k \in Done PROVE k + 1 \in Done
  <2> SUFFICES ASSUME k + 1 <= n
               PROVE  r[k + 1] \in Seq(PackType) /\ Mirror(r[k + 1], Upto(k + 1))
    OBVIOUS
  <2>1. r[k] \in Seq(PackType) /\ Mirror(r[k], Upto(k))
    BY <1>1, <1>4
  <2>2. k + 1 \in 1 .. n /\ (k + 1) - 1 = k /\ list[k + 1] \in Entries
    BY <1>1
  <2>3. Upto(k) \in Seq(Entries) /\ Upto(k + 1) = Append(Upto(k), list[k + 1])
    BY <1>1, <2>2
  <2>4. r[k + 1] = MergedPack(r[k], list[k + 1])
    BY <1>2, <2>2 DEF Rounding
  <2> HIDE DEF Upto
  <2>5. QED
    BY <2>1, <2>2, <2>3, <2>4, MirrorStep
<1>5. n \in Done
  <2> HIDE DEF Done
  <2>1. QED
    BY <1>1, <1>3, <1>4, Inductive
<1>6. Upto(n) = entries \o list
  BY <1>1
<1> HIDE DEF Upto
<1>7. r[n] \in Seq(PackType) /\ Mirror(r[n], Upto(n)) /\ r[n] = Rounds(known, list)
  BY <1>2, <1>5 DEF Rounding
<1>8. QED
  BY <1>6, <1>7

Lists == [i \in DOMAIN reports |-> Listed(reports[i])]

(* A report lists entries, if it lists anything.                             *)
LEMMA ListedType ==
    ASSUME NEW m \in Messages
    PROVE  Listed(m) \in Seq(Entries)
<1>1. m.packData # None => m.packData \in Seq(Entries)
  BY StateAssumption
<1>2. <<>> \in Seq(Entries)
  OBVIOUS
<1>3. QED
  BY <1>1, <1>2 DEF Listed

(* The inductive invariant: the packs have their type, and are those of the  *)
(* entries of all reports.                                                   *)
PacksInv ==
    /\ reports \in Seq(Messages) /\ packs \in Seq(PackType)
    /\ FlattenSeq(Lists) \in Seq(Entries) /\ Mirror(packs, FlattenSeq(Lists))

(* Before any report there are no packs.                                     *)
LEMMA EmptyPacks ==
    ASSUME reports = <<>>, packs = <<>>
    PROVE  PacksInv
<1>1. Lists = <<>> /\ Len(Lists) = 0
  BY DEF Lists
<1>2. FlattenSeq(Lists) = <<>>
  BY <1>1 DEF FlattenSeq
<1>3. Mirror(<<>>, <<>>)
  BY DEF Mirror, ToSet
<1>4. QED
  BY <1>2, <1>3 DEF PacksInv

(* A report keeps it: its list is appended, and merged entry by entry.       *)
LEMMA ReportKeepsPacks ==
    ASSUME PacksInv, NEW m \in Messages, Packs(m), Applies(m)
    PROVE  PacksInv'
<1> DEFINE n == Len(reports)
<1>1. /\ reports \in Seq(Messages) /\ reports' = Append(reports, m)
      /\ reports' \in Seq(Messages) /\ n \in Nat
  BY DEF PacksInv, Applies
<1>2. /\ Lists \in [1 .. n -> Seq(Entries)] /\ Lists' \in [1 .. n + 1 -> Seq(Entries)]
      /\ \A i \in 1 .. n : Lists'[i] = Lists[i]
      /\ Lists'[n + 1] = Listed(m) /\ Listed(m) \in Seq(Entries)
  <2>1. /\ DOMAIN reports = 1 .. n /\ DOMAIN reports' = 1 .. n + 1
        /\ \A i \in 1 .. n : reports[i] \in Messages /\ reports'[i] = reports[i]
        /\ reports'[n + 1] = m
    BY <1>1
  <2>2. \A r \in Messages : Listed(r) \in Seq(Entries)
    BY ListedType
  <2> HIDE DEF n
  <2>3. /\ Lists = [i \in 1 .. n |-> Listed(reports[i])]
        /\ Lists' = [i \in 1 .. n + 1 |-> Listed(reports'[i])]
    BY <2>1 DEF Lists, Listed
  <2>4. \A i \in 1 .. n + 1 : i \in 1 .. n \/ i = n + 1
    BY <1>1
  <2>5. \A i \in 1 .. n : i \in 1 .. n + 1
    BY <1>1
  <2>6. \A i \in 1 .. n + 1 : Listed(reports'[i]) \in Seq(Entries)
    BY <2>1, <2>2, <2>4
  <2>7. n + 1 \in 1 .. n + 1
    BY <1>1
  <2>8. QED
    BY <2>1, <2>2, <2>3, <2>5, <2>6, <2>7
<1>3. FlattenSeq(Lists') = FlattenSeq(Lists) \o Listed(m)
  <2> DEFINE lists == Lists
             longer == Lists'
  <2> HIDE DEF n, lists, longer
  <2>1. /\ lists \in [1 .. n -> Seq(Entries)] /\ longer \in [1 .. n + 1 -> Seq(Entries)]
        /\ Agree(lists, longer, n)
    BY <1>2 DEF lists, longer, Agree
  <2>2. FlattenSeq(longer) = FlattenSeq(lists) \o longer[n + 1]
    BY <1>1, <2>1, FlattenGrows
  <2>3. QED
    BY <1>2, <2>2 DEF lists, longer
<1>4. packs' = IF m.packData = None THEN packs ELSE Rounds(packs, m.packData)
  BY DEF Packs, Rounds
<1>5. CASE m.packData = None
  <2>1. FlattenSeq(Lists') = FlattenSeq(Lists)
    BY <1>3, <1>5 DEF PacksInv, Listed
  <2>2. QED
    BY <1>1, <1>4, <1>5, <2>1 DEF PacksInv
<1>6. CASE m.packData # None
  <2>1. Listed(m) = m.packData
    BY <1>6 DEF Listed
  <2>2. /\ packs' \in Seq(PackType)
        /\ Mirror(packs', FlattenSeq(Lists) \o Listed(m))
    BY <1>2, <1>4, <1>6, <2>1, RoundsMirror DEF PacksInv
  <2>3. FlattenSeq(Lists) \o Listed(m) \in Seq(Entries)
    BY <1>2 DEF PacksInv
  <2>4. QED
    BY <1>1, <1>3, <2>2, <2>3 DEF PacksInv
<1>7. QED
  BY <1>5, <1>6

-----------------------------------------------------------------------------
(* The fields.                                                               *)
ValuesOf == [i \in DOMAIN reports |-> Told(reports[i])]
NamesOf == [i \in DOMAIN reports |-> Naming(reports[i])]
Unspoken == \A m \in ToSet(reports) : m.properties = None
LastRaw == Latest(ValuesOf, Given(ValuesOf, Keys, Anything))

(* The inductive invariant of what is shown.                                 *)
LatestInv ==
    /\ fields = Latest(ValuesOf, Given(ValuesOf, Keys, IsInt))
    /\ raw = IF Unspoken THEN None ELSE LastRaw
    /\ identity = Latest(NamesOf, Given(NamesOf, IdentityKeys, Anything))

(* It says what LatestValues says, with its parts named.                     *)
LEMMA LatestMeans == LatestInv <=> LatestValues
  BY DEF LatestInv, LatestValues, ValuesOf, NamesOf, Unspoken, LastRaw

(* Before any report nothing is known.                                       *)
LEMMA EmptyLatest ==
    ASSUME fields = <<>>, identity = <<>>, raw = None, reports = <<>>
    PROVE  LatestInv
<1>1. DOMAIN ValuesOf = {} /\ DOMAIN NamesOf = {} /\ Unspoken
  BY DEF ValuesOf, NamesOf, Unspoken, ToSet
<1>2. QED
  BY <1>1, LatestOfNone DEF LatestInv

(* What has been reported of raw is no None.                                 *)
LEMMA RawReported ==
    ASSUME reports \in Seq(Messages)
    PROVE  IsPartial(LastRaw, Keys, Reported) /\ LastRaw # None
<1> DEFINE given == Given(ValuesOf, Keys, Anything)
           said == {k \in Keys : given[k] # {}}
           n == Len(reports)
<1>1. n \in Nat /\ DOMAIN reports = 1 .. n /\ DOMAIN ValuesOf = 1 .. n
  BY DEF ValuesOf
<1>2. DOMAIN given = Keys /\ \A k \in Keys : given[k] \subseteq 1 .. n
  BY <1>1 DEF Given
<1>3. ASSUME NEW i \in 1 .. n, NEW k \in DOMAIN ValuesOf[i]
      PROVE  ValuesOf[i][k] \in Reported
  <2>1. reports[i] \in Messages /\ ValuesOf[i] = Told(reports[i])
    BY <1>1 DEF ValuesOf
  <2>2. reports[i].properties # None /\ ValuesOf[i] = reports[i].properties
    BY <1>3, <2>1 DEF Told, Nothing
  <2>3. QED
    BY <1>3, <2>1, <2>2 DEF Reported, Range
<1>4. ASSUME NEW k \in said PROVE ValuesOf[Max(given[k])][k] \in Reported
  <2>1. Max(given[k]) \in given[k]
    BY <1>1, <1>2, MaxOf
  <2>2. Max(given[k]) \in 1 .. n /\ k \in DOMAIN ValuesOf[Max(given[k])]
    BY <1>1, <1>2, <2>1 DEF Given
  <2>3. QED
    BY <1>3, <2>2
<1>5. LastRaw = [k \in said |-> ValuesOf[Max(given[k])][k]]
  BY <1>2 DEF LastRaw, Latest
<1>6. LastRaw \in [said -> Reported] /\ said \in SUBSET Keys
  BY <1>4, <1>5
<1> HIDE DEF said, given, n
<1>7. LastRaw # None
  BY <1>6, StateAssumption
<1>8. IsPartial(LastRaw, Keys, Reported)
  BY <1>6 DEF IsPartial, Range
<1>9. QED
  BY <1>7, <1>8

(* A message adds what it says to the histories of values and of names.      *)
LEMMA HistoryGrows ==
    ASSUME reports \in Seq(Messages), NEW m \in Messages, Applies(m),
           NEW n, n = Len(reports)
    PROVE  /\ Extends(ValuesOf', ValuesOf, n) /\ ValuesOf'[n + 1] = Told(m)
           /\ Extends(NamesOf', NamesOf, n) /\ NamesOf'[n + 1] = Naming(m)
           /\ Unspoken' <=> Unspoken /\ m.properties = None
<1>1. reports' = Append(reports, m) /\ n \in Nat
  BY DEF Applies
<1>2. /\ DOMAIN reports = 1 .. n /\ DOMAIN reports' = 1 .. n + 1
      /\ \A i \in 1 .. n : reports'[i] = reports[i]
      /\ reports'[n + 1] = m
  BY <1>1
<1>3. \A i : i \in 1 .. n + 1 <=> i \in 1 .. n \/ i = n + 1
  BY <1>1
<1>4. Extends(ValuesOf', ValuesOf, n) /\ ValuesOf'[n + 1] = Told(m)
  BY <1>2, <1>3 DEF Extends, ValuesOf, Told
<1>5. Extends(NamesOf', NamesOf, n) /\ NamesOf'[n + 1] = Naming(m)
  BY <1>2, <1>3 DEF Extends, NamesOf, Naming
<1>6. Unspoken' <=> Unspoken /\ m.properties = None
  BY <1>2, <1>3 DEF Unspoken, ToSet
<1>7. QED
  BY <1>4, <1>5, <1>6

(* BLESPP names the device and says nothing else.                            *)
LEMMA EstablishKeepsLatest ==
    ASSUME reports \in Seq(Messages), LatestInv, NEW m \in Messages, Establish(m)
    PROVE  LatestInv'
<1> DEFINE n == Len(reports)
<1>1. /\ Applies(m) /\ n \in Nat /\ m.properties = None
      /\ DOMAIN m.identity = {"deviceId"}
      /\ fields' = fields /\ raw' = raw
      /\ identity' = Merged(identity, m.identity)
      /\ Told(m) = Nothing /\ Naming(m) = m.identity
  BY StateAssumption DEF Establish, Told, Naming
<1>2. /\ Extends(ValuesOf', ValuesOf, n) /\ ValuesOf'[n + 1] = Told(m)
      /\ Extends(NamesOf', NamesOf, n) /\ NamesOf'[n + 1] = Naming(m)
      /\ Unspoken' <=> Unspoken
  BY <1>1, HistoryGrows
<1>3. Latest(ValuesOf', Given(ValuesOf', Keys, IsInt)) = Merged(fields, Changes(Nothing, Keys))
  BY <1>1, <1>2, LatestInts DEF LatestInv
<1>4. LastRaw' = Merged(LastRaw, Selected(Nothing, Keys))
  BY <1>1, <1>2, LatestAny DEF LastRaw
<1>5. Latest(NamesOf', Given(NamesOf', IdentityKeys, Anything))
          = Merged(identity, Selected(m.identity, IdentityKeys))
  BY <1>1, <1>2, LatestAny DEF LatestInv
<1>6. /\ Merged(fields, Changes(Nothing, Keys)) = fields
      /\ Merged(LastRaw, Selected(Nothing, Keys)) = LastRaw
  BY MergedNothing DEF LatestInv, LastRaw
<1>7. fields' = Latest(ValuesOf', Given(ValuesOf', Keys, IsInt))
  BY <1>1, <1>3, <1>6
<1>8. raw' = IF Unspoken' THEN None ELSE LastRaw'
  BY <1>1, <1>2, <1>4, <1>6 DEF LatestInv
<1>9. Merged(identity, m.identity) = Merged(identity, Selected(m.identity, IdentityKeys))
  BY <1>1 DEF IdentityKeys, Selected, Restrict, Merged
<1>10. QED
  BY <1>1, <1>5, <1>7, <1>8, <1>9 DEF LatestInv

(* A report merges its changes into the fields, and all it says into raw     *)
(* and the identity.                                                         *)
LEMMA ReportKeepsLatest ==
    ASSUME reports \in Seq(Messages), LatestInv, NEW m \in Messages, Report(m)
    PROVE  LatestInv'
<1> DEFINE n == Len(reports)
<1>1. Applies(m) /\ n \in Nat /\ m.method = "report"
  BY DEF Report
<1>2. /\ Extends(ValuesOf', ValuesOf, n) /\ ValuesOf'[n + 1] = Told(m)
      /\ Extends(NamesOf', NamesOf, n) /\ NamesOf'[n + 1] = Naming(m)
      /\ Unspoken' <=> Unspoken /\ m.properties = None
  BY <1>1, HistoryGrows
<1>3. Latest(ValuesOf', Given(ValuesOf', Keys, IsInt)) = Merged(fields, Changes(Told(m), Keys))
  BY <1>1, <1>2, LatestInts DEF LatestInv
<1>4. LastRaw' = Merged(LastRaw, Selected(Told(m), Keys))
  BY <1>1, <1>2, LatestAny DEF LastRaw
<1>5. Latest(NamesOf', Given(NamesOf', IdentityKeys, Anything))
          = Merged(identity, Selected(Naming(m), IdentityKeys))
  BY <1>1, <1>2, LatestAny DEF LatestInv
<1>6. CASE m.properties = None
  <2>1. Told(m) = Nothing /\ Naming(m) = Nothing
    BY <1>1, <1>6 DEF Told, Naming
  <2>2. fields' = fields /\ raw' = raw /\ identity' = identity
    BY <1>6 DEF Report, Properties
  <2>3. /\ Merged(fields, Changes(Nothing, Keys)) = fields
        /\ Merged(LastRaw, Selected(Nothing, Keys)) = LastRaw
        /\ Merged(identity, Selected(Nothing, IdentityKeys)) = identity
    BY MergedNothing DEF LatestInv, LastRaw
  <2>4. fields' = Latest(ValuesOf', Given(ValuesOf', Keys, IsInt))
    BY <1>3, <2>1, <2>2, <2>3
  <2>5. raw' = IF Unspoken' THEN None ELSE LastRaw'
    BY <1>2, <1>4, <1>6, <2>1, <2>2, <2>3 DEF LatestInv
  <2>6. identity' = Latest(NamesOf', Given(NamesOf', IdentityKeys, Anything))
    BY <1>5, <2>1, <2>2, <2>3
  <2>7. QED
    BY <2>4, <2>5, <2>6 DEF LatestInv
<1>7. CASE m.properties # None
  <2>1. Told(m) = m.properties /\ Naming(m) = m.identity
    BY <1>7 DEF Told, Naming
  <2>2. /\ fields' = Merged(fields, Changes(m.properties, Keys))
        /\ raw' = Merged(IF raw = None THEN <<>> ELSE raw, Selected(m.properties, Keys))
        /\ identity' = Merged(identity, m.identity)
    BY <1>7 DEF Report, Properties, Values
  <2>3. raw' = Merged(LastRaw, Selected(m.properties, Keys))
    <3>1. CASE Unspoken
      <4>1. LastRaw = <<>>
        <5>1. \A i \in DOMAIN ValuesOf : ValuesOf[i] = Nothing
          BY <3>1 DEF Unspoken, ValuesOf, Told, ToSet
        <5>2. /\ DOMAIN Given(ValuesOf, Keys, Anything) = Keys
              /\ \A k \in Keys : Given(ValuesOf, Keys, Anything)[k] = {}
          BY <5>1 DEF Given, Nothing
        <5>3. QED
          BY <5>2 DEF LastRaw, Latest
      <4>2. raw = None
        BY <3>1 DEF LatestInv
      <4>3. QED
        BY <2>2, <4>1, <4>2
    <3>2. CASE ~Unspoken
      BY <2>2, <3>2, RawReported DEF LatestInv
    <3>3. QED
      BY <3>1, <3>2
  <2>4. Merged(identity, m.identity) = Merged(identity, Selected(m.identity, IdentityKeys))
    <3>1. DOMAIN m.identity \subseteq IdentityKeys
      BY StateAssumption
    <3>2. /\ DOMAIN Selected(m.identity, IdentityKeys) = DOMAIN m.identity
          /\ \A k \in DOMAIN m.identity :
                 Selected(m.identity, IdentityKeys)[k] = m.identity[k]
      BY <3>1 DEF Selected, Restrict
    <3>3. QED
      BY <3>2 DEF Merged
  <2>5. ~Unspoken'
    BY <1>2, <1>7
  <2>6. QED
    BY <1>3, <1>4, <1>5, <2>1, <2>2, <2>3, <2>4, <2>5 DEF LatestInv
<1>8. QED
  BY <1>6, <1>7

-----------------------------------------------------------------------------

-----------------------------------------------------------------------------
(* A report leaves battery_power the difference of the values beside it: if  *)
(* both terms are known after it, it is computed anew; if not, at least one  *)
(* was not known before it either, so that it was None and stays it.         *)
LEMMA ReportKeepsPower ==
    ASSUME NEW m, PowerOfFields, Report(m)
    PROVE  PowerOfFields'
<1>1. CASE m.properties = None
    BY <1>1 DEF Report, Properties, PowerOfFields
<1>2. CASE m.properties # None
    <2> DEFINE changes == Changes(m.properties, Keys)
    <2>1. fields' = Merged(fields, changes) /\ power' = Power(changes)
        BY <1>2 DEF Report, Properties, Values
    <2>2. DOMAIN fields \subseteq DOMAIN fields'
        BY <2>1 DEF Merged
    <2>3. power' = IF {PackIn, PackOut} \subseteq DOMAIN fields'
                   THEN fields'[PackOut] - fields'[PackIn] ELSE power
        BY <2>1 DEF Power
    <2>4. CASE {PackIn, PackOut} \subseteq DOMAIN fields'
        BY <2>3, <2>4 DEF PowerOfFields
    <2>5. CASE ~({PackIn, PackOut} \subseteq DOMAIN fields')
        <3>1. ~({PackIn, PackOut} \subseteq DOMAIN fields)
            BY <2>2, <2>5
        <3>2. power' = None
            BY <2>3, <2>5, <3>1 DEF PowerOfFields
        <3> QED
            BY <2>5, <3>2 DEF PowerOfFields
    <2> QED
        BY <2>4, <2>5
<1> QED
    BY <1>1, <1>2

(* The invariants of DeviceState together.                                   *)
StateInv == PacksInv /\ LatestInv /\ PowerOfFields

(* They hold from the start, and every message and every reset keeps them.   *)
LEMMA StateHolds == Spec => []StateInv
<1>1. Init => StateInv
  <2> SUFFICES ASSUME Init PROVE StateInv
    OBVIOUS
  <2>1. PowerOfFields
    BY DEF Init, PowerOfFields
  <2>2. QED
    BY <2>1, EmptyPacks, EmptyLatest DEF Init, StateInv
<1>2. StateInv /\ [Next]_vars => StateInv'
  <2> SUFFICES ASSUME StateInv, [Next]_vars PROVE StateInv'
    OBVIOUS
  <2>1. ASSUME NEW m \in Messages, Report(m) PROVE StateInv'
    BY <2>1, ReportKeepsPower, ReportKeepsPacks, ReportKeepsLatest
    DEF StateInv, PacksInv, Report
  <2>2. ASSUME NEW m \in Messages, Establish(m) PROVE StateInv'
    <3>1. Packs(m) /\ Applies(m)
      BY <2>2, StateAssumption DEF Establish, Packs
    <3>2. PowerOfFields'
      BY <2>2 DEF StateInv, Establish, PowerOfFields
    <3>3. QED
      BY <2>2, <3>1, <3>2, ReportKeepsPacks, EstablishKeepsLatest
      DEF StateInv, PacksInv
  <2>3. CASE Reset
    <3>1. Init'
      BY <2>3 DEF Reset, Init
    <3>2. QED
      BY <1>1, <3>1, PTL
  <2>4. CASE UNCHANGED vars
    BY <2>4 DEF vars, StateInv, PacksInv, LatestInv, PowerOfFields, Lists,
                ValuesOf, NamesOf, Unspoken, LastRaw
  <2>5. QED
    BY <2>1, <2>2, <2>3, <2>4 DEF Next
<1>3. QED
  BY <1>1, <1>2, PTL DEF Spec

(* The last integers of the fields are integers.                             *)
LEMMA FieldsType ==
    ASSUME reports \in Seq(Messages), LatestInv
    PROVE  IsPartial(fields, Keys, Int)
<1> DEFINE given == Given(ValuesOf, Keys, IsInt)
           said == {k \in Keys : given[k] # {}}
           n == Len(reports)
<1>1. n \in Nat /\ DOMAIN ValuesOf = 1 .. n
  BY DEF ValuesOf
<1>2. /\ DOMAIN given = Keys
      /\ \A k \in Keys : /\ given[k] \subseteq 1 .. n
                         /\ \A i \in given[k] : ValuesOf[i][k] \in Int
  BY <1>1 DEF Given, IsInt
<1>3. ASSUME NEW k \in said PROVE ValuesOf[Max(given[k])][k] \in Int
  BY <1>1, <1>2, MaxOf
<1>4. fields = [k \in said |-> ValuesOf[Max(given[k])][k]]
  BY <1>2 DEF LatestInv, Latest
<1>5. QED
  BY <1>3, <1>4 DEF IsPartial, Range

(* The types follow from what the state is made of.                          *)
LEMMA TypeFollows == StateInv => TypeOK
<1> SUFFICES ASSUME StateInv PROVE TypeOK
  OBVIOUS
<1>1. /\ reports \in Seq(Messages) /\ packs \in Seq(PackType)
      /\ LatestInv /\ PowerOfFields
  BY DEF StateInv, PacksInv
<1>2. IsPartial(fields, Keys, Int)
  BY <1>1, FieldsType
<1>3. power \in Int \cup {None}
  <2>1. \A k \in DOMAIN fields : fields[k] \in Int
    BY <1>2 DEF IsPartial, Range
  <2>2. CASE {PackIn, PackOut} \subseteq DOMAIN fields
    <3>1. fields[PackOut] \in Int /\ fields[PackIn] \in Int
      BY <2>1, <2>2
    <3>2. power = fields[PackOut] - fields[PackIn]
      BY <1>1, <2>2 DEF PowerOfFields
    <3>3. QED
      BY <3>1, <3>2
  <2>3. CASE ~({PackIn, PackOut} \subseteq DOMAIN fields)
    BY <1>1, <2>3 DEF PowerOfFields
  <2>4. QED
    BY <2>2, <2>3
<1>4. raw = None \/ IsPartial(raw, Keys, Reported)
  BY <1>1, RawReported DEF LatestInv
<1>5. ASSUME NEW p \in ToSet(packs)
      PROVE  /\ p.sn \in {e.sn : e \in Entries} \ {None}
             /\ IsPartial(p.values, PackKeys, Int)
  <2>1. p \in PackType
    BY <1>1 DEF ToSet
  <2>2. PICK keys \in SUBSET PackKeys : p.values \in [keys -> Int]
    BY <2>1 DEF PackType, PackInts
  <2>3. IsPartial(p.values, PackKeys, Int)
    BY <2>2 DEF IsPartial, Range
  <2>4. QED
    BY <2>1, <2>3 DEF PackType, Serials
<1>6. QED
  BY <1>1, <1>2, <1>3, <1>4, <1>5 DEF TypeOK

(* Fields and power are integers or unknown, whatever a report carries, and  *)
(* every pack has a serial number.                                           *)
THEOREM StateTypeCorrect == Spec => []TypeOK
  BY StateHolds, TypeFollows, PTL

(* with_report, _establish_identity: after any number of messages, a field   *)
(* is the last integer that was reported of it in this session, raw the last *)
(* value, and deviceId and productKey the last that a report with properties *)
(* or BLESPP named; a message that lacks something takes nothing back.       *)
THEOREM ShowsLatest == Spec => []LatestValues
<1>1. StateInv => LatestValues
  BY LatestMeans DEF StateInv
<1>2. QED
  BY <1>1, StateHolds, PTL

(* with_report: whatever the device reports, in whatever pieces, the battery *)
(* power a client shows is that of the two values it shows beside it, and is *)
(* unknown until both of them are.                                           *)
THEOREM PowerIsOfFields == Spec => []PowerOfFields
<1>1. StateInv => PowerOfFields
  BY DEF StateInv
<1>2. QED
  BY <1>1, StateHolds, PTL

(* _merged_packs: no pack is shown twice, lost or out of its place, and each *)
(* shows the last integers of it, however many entries a report lists and    *)
(* however often it names a pack.                                            *)
THEOREM PacksAreAsReported == Spec => []PacksOfReports
<1>1. StateInv => PacksOfReports
  BY DEF StateInv, PacksInv, PacksOfReports, Lists
<1>2. QED
  BY <1>1, StateHolds, PTL

=============================================================================
