--------------------------- MODULE MapTableProofs ---------------------------
(***************************************************************************)
(* Proofs about MapTable: every probe ends, no iterator gives a key twice, *)
(* and the table implements OrderedMap, for every set of keys, values and  *)
(* iterators, every hash, and every initial capacity and index size.       *)
(***************************************************************************)
EXTENDS MapTable, FiniteSetTheorems, TLAPS

-----------------------------------------------------------------------------
(* The inductive invariant *)

Names == {"none", "get", "set", "delete"}
Answers == Vals \union {Absent, "none", "ok", "true", "false"}
Op == [pc : Pcs, name : Names, key : Keys \union {Hole}, val : Vals \union {Absent},
       cap : Nat, then : {"none", "probe", "insert"}, res : Answers]
Iter == [st : {"unmade", "open", "done"}, at : Nat]

\* The types the proofs need.
Types ==
  /\ entries \in Seq(Entry) /\ Len(entries) <= cap
  /\ cap \in Nat /\ liveCount \in Nat
  /\ indexEpoch \in Nat \union {Stable, Unbuilt}
  /\ weak \in BOOLEAN
  /\ addr \in [Objects -> Addrs] /\ young \subseteq Objects
  /\ epoch \in Nat
  /\ held \subseteq Keys
  /\ op \in Op
  /\ iter \in [Iters -> Iter]
  /\ owed \in [Iters -> SUBSET Keys] /\ given \in [Iters -> SUBSET Keys]

\* A key has one live slot.
Distinct(es) ==
  \A s, t \in 1 .. Len(es) : es[s].key # Hole /\ es[s].key = es[t].key => s = t

\* n buckets, each empty or with a slot of its own up to `top`.
Spread(b, n, top) ==
  /\ b \in [0 .. n - 1 -> 0 .. top]
  /\ \A x, y \in 0 .. n - 1 : b[x] = b[y] /\ b[x] # 0 => x = y

\* The probe sequence of hash h meets slot s before an empty bucket.
Leads(b, n, h, s) ==
  \E d \in 0 .. n - 1 :
    /\ b[(h + d) % n] = s
    /\ \A e \in 0 .. d - 1 : b[(h + e) % n] # 0

\* The index finds every live slot.
Indexes(b, n) ==
  /\ n \in Nat \ {0} /\ 2 * cap <= n
  /\ Spread(b, n, Len(entries))
  /\ \A s \in 1 .. Len(entries) :
       entries[s].key # Hole => Leads(b, n, HashKey(entries[s].key), s)

\* An index nothing has invalidated, wherever the map is now.
Usable == buckets # <<>> /\ (indexEpoch = Stable \/ indexEpoch = epoch)

IndexInv ==
  /\ indexEpoch <= epoch
  /\ op.pc # "index" /\ Usable =>
       /\ \E n \in Nat : Indexes(buckets, n)
       /\ indexEpoch = Stable => LiveKeys \intersect young = {}

\* The keys and the count of the entry list.
ListInv ==
  /\ Distinct(entries)
  /\ Cardinality(LiveSlots) <= liveCount

\* What the running operation has found out and may rely on.
Missing == op.pc \in {"miss", "grow", "insert"} \/ (op.pc = "index" /\ op.then = "insert")
OpInv ==
  /\ op.pc = "idle" => op = Idle
  /\ op.pc # "idle" => op.key \in Keys \intersect held /\ op.name # "none"
  /\ op.name = "set" => op.val \in Vals
  /\ op.res = "none" <=> op.pc # "done"
  /\ op.pc \in {"probe", "insert"} => IndexValid
  /\ op.pc = "index" => op.then # "none"
  /\ Missing => op.key \notin LiveKeys
  /\ Missing /\ op.pc # "miss" => op.name = "set"
  /\ op.pc = "grow" => Cardinality(LiveSlots) < op.cap
  /\ Missing /\ op.pc \in {"insert", "index"} => Len(entries) < cap

\* A weak table has no iterators and a strong one loses no key.
WalkInv ==
  /\ ~weak => held = Keys
  /\ \A i \in Iters :
       /\ given[i] \subseteq LiveKeys
       /\ iter[i].st = "unmade" => given[i] = {}
       /\ weak => iter[i].st = "unmade"

Inv == Types /\ ListInv /\ IndexInv /\ OpInv /\ WalkInv /\ NeverGivenTwice

-----------------------------------------------------------------------------
(* Induction, recursion and remainders *)

\* A set of naturals has a least element.
LEMMA Least ==
  ASSUME NEW S \in SUBSET Nat, S # {}
  PROVE  \E n \in S : \A m \in S : n <= m
  <1>1. \E R : /\ IsWellFoundedOn(R, Nat)
               /\ R = {ss \in Nat \X Nat : ss[1] < ss[2]}
    BY NatLessThanWellFounded, Zenon DEF OpToRel
  <1>2. PICK R : /\ IsWellFoundedOn(R, Nat)
                 /\ R = {ss \in Nat \X Nat : ss[1] < ss[2]}
    BY <1>1
  <1>3. \E x \in S : \A y \in S : ~ (<<y, x>> \in R)
    BY <1>2, WFMin
  <1>4. \A x, y \in Nat : y < x => <<y, x>> \in R
    BY <1>2
  <1>5. PICK x \in S : \A y \in S : ~ (<<y, x>> \in R)
    BY <1>3
  <1>6. ASSUME NEW y \in S PROVE x <= y
    <2>1. x \in Nat /\ y \in Nat /\ ~(y < x)
      BY <1>4, <1>5
    <2> QED BY <2>1
  <1> QED BY <1>6

\* Induction, with the set of the numbers a fact holds for.
LEMMA Induct ==
  ASSUME NEW S, 0 \in S, \A n \in Nat : n \in S => n + 1 \in S
  PROVE  Nat \subseteq S
  <1> SUFFICES ASSUME Nat \ S # {} PROVE FALSE
    OBVIOUS
  <1>1. PICK n \in Nat \ S : \A m \in Nat \ S : n <= m
    BY Least
  <1>2. n - 1 \in Nat /\ n - 1 \in S /\ n - 1 + 1 = n
    BY <1>1
  <1> QED BY <1>1, <1>2

\* The remainder of a number written as a multiple and a rest.
LEMMA Remainder ==
  ASSUME NEW n \in Nat \ {0}, NEW q \in Nat, NEW b \in 0 .. n - 1
  PROVE  (n * q + b) % n = b
  OBVIOUS

\* Every number is a multiple of n and a rest.
LEMMA Divides ==
  ASSUME NEW n \in Nat \ {0}, NEW h \in Nat
  PROVE  \E q \in Nat : \E r \in 0 .. n - 1 : h = n * q + r
  <1> DEFINE S == {k \in Nat : \E q \in Nat : \E r \in 0 .. n - 1 : k = n * q + r}
  <1>1. 0 \in S
    <2>1. 0 = n * 0 + 0 /\ 0 \in 0 .. n - 1
      OBVIOUS
    <2> QED BY <2>1
  <1>2. ASSUME NEW k \in Nat, k \in S PROVE k + 1 \in S
    <2>1. PICK q \in Nat, r \in 0 .. n - 1 : k = n * q + r
      BY <1>2
    <2>2. CASE r < n - 1
      <3>1. k + 1 = n * q + (r + 1) /\ r + 1 \in 0 .. n - 1
        BY <2>1, <2>2
      <3> QED BY <3>1
    <2>3. CASE r = n - 1
      <3>1. n * (q + 1) = n * q + n
        OBVIOUS
      <3>2. PICK p \in Nat, z \in 0 .. n - 1 : p = q + 1 /\ z = 0
        OBVIOUS
      <3>3. k + 1 = n * p + z
        BY <2>1, <2>3, <3>1, <3>2
      <3> QED BY <3>3
    <2> QED BY <2>2, <2>3
  <1> HIDE DEF S
  <1>3. h \in S
    BY <1>1, <1>2, Induct
  <1> QED BY <1>3 DEF S

\* A probe sequence visits every bucket.
LEMMA Reaches ==
  ASSUME NEW n \in Nat \ {0}, NEW h \in Nat, NEW b \in 0 .. n - 1
  PROVE  \E d \in 0 .. n - 1 : (h + d) % n = b
  <1>1. PICK q \in Nat, r \in 0 .. n - 1 : h = n * q + r
    BY Divides
  <1>2. CASE r <= b
    <2>1. b - r \in 0 .. n - 1 /\ h + (b - r) = n * q + b
      BY <1>1, <1>2
    <2>2. (n * q + b) % n = b
      BY Remainder
    <2> QED BY <2>1, <2>2
  <1>3. CASE b < r
    <2>1. n * (q + 1) = n * q + n /\ q + 1 \in Nat
      OBVIOUS
    <2>2. (b - r) + n \in 0 .. n - 1 /\ h + ((b - r) + n) = n * (q + 1) + b
      BY <1>1, <1>3, <2>1
    <2>3. (n * (q + 1) + b) % n = b
      BY <2>1, Remainder
    <2> QED BY <2>2, <2>3
  <1> QED BY <1>2, <1>3

\* A probe stays within the buckets.
LEMMA ModIn ==
  ASSUME NEW n \in Nat \ {0}, NEW h \in Nat, NEW d \in Nat
  PROVE  (h + d) % n \in 0 .. n - 1
  OBVIOUS

\* f takes n steps of F from a.
Recurs(f, T, a, F, n) ==
  /\ f \in [0 .. n -> T] /\ f[0] = a
  /\ \A i \in 0 .. n - 1 : f[i + 1] = F[<<i, f[i]>>]

\* A step function can be iterated: the recursive functions of the model exist.
LEMMA Recursion ==
  ASSUME NEW T, NEW a \in T, NEW F \in [Nat \X T -> T], NEW n \in Nat
  PROVE  \E f : Recurs(f, T, a, F, n)
  <1> DEFINE S == {k \in Nat : \E f \in [0 .. k -> T] :
                     f[0] = a /\ \A i \in 0 .. k - 1 : f[i + 1] = F[<<i, f[i]>>]}
  <1>1. 0 \in S
    <2>1. PICK f : f = [i \in 0 .. 0 |-> a]
      OBVIOUS
    <2>2. f \in [0 .. 0 -> T] /\ f[0] = a
      BY <2>1
    <2>3. 0 .. 0 - 1 = {}
      OBVIOUS
    <2> QED BY <2>2, <2>3
  <1>2. ASSUME NEW k \in Nat, k \in S PROVE k + 1 \in S
    <2>1. PICK f \in [0 .. k -> T] : f[0] = a /\ \A i \in 0 .. k - 1 : f[i + 1] = F[<<i, f[i]>>]
      BY <1>2
    <2> DEFINE g == [i \in 0 .. k + 1 |-> IF i = k + 1 THEN F[<<k, f[k]>>] ELSE f[i]]
    <2>2. g \in [0 .. k + 1 -> T]
      OBVIOUS
    <2>3. g[0] = a
      BY <2>1
    <2>4. ASSUME NEW i \in 0 .. (k + 1) - 1 PROVE g[i + 1] = F[<<i, g[i]>>]
      <3>1. i \in 0 .. k + 1 /\ i + 1 \in 0 .. k + 1 /\ i # k + 1 /\ g[i] = f[i]
        OBVIOUS
      <3>2. CASE i = k
        BY <3>1, <3>2
      <3>3. CASE i # k
        <4>1. i \in 0 .. k - 1 /\ i + 1 # k + 1 /\ g[i + 1] = f[i + 1]
          BY <3>1, <3>3
        <4> HIDE DEF g
        <4> QED BY <2>1, <3>1, <4>1
      <3> QED BY <3>2, <3>3
    <2> HIDE DEF g
    <2> QED BY <2>2, <2>3, <2>4
  <1> HIDE DEF S
  <1>3. n \in S
    BY <1>1, <1>2, Induct
  <1> QED BY <1>3 DEF S, Recurs

Unfolds(g, a, F, n) ==
  \A i \in 0 .. n : g[i] = IF i = 0 THEN a ELSE F[<<i - 1, g[i - 1]>>]

\* An iteration satisfies the equation of the recursive function it is.
LEMMA Unfold ==
  ASSUME NEW T, NEW a, NEW F, NEW n \in Nat, NEW g, Recurs(g, T, a, F, n)
  PROVE  Unfolds(g, a, F, n)
  <1> SUFFICES ASSUME NEW i \in 0 .. n
               PROVE  g[i] = IF i = 0 THEN a ELSE F[<<i - 1, g[i - 1]>>]
    BY DEF Unfolds
  <1>1. CASE i = 0
    BY <1>1 DEF Recurs
  <1>2. CASE i # 0
    <2>1. i - 1 \in 0 .. n - 1 /\ (i - 1) + 1 = i
      BY <1>2
    <2> QED BY <1>2, <2>1 DEF Recurs
  <1> QED BY <1>1, <1>2

\* Min of a nonempty set of naturals is its least element.
LEMMA MinIsLeast ==
  ASSUME NEW S \in SUBSET Nat, S # {}
  PROVE  Min(S) \in S /\ \A y \in S : Min(S) <= y
  BY Least DEF Min

-----------------------------------------------------------------------------
(* Sizes: Doubled *)

\* Doubling a positive number often enough reaches any need.
LEMMA DoubledReaches ==
  ASSUME NEW from \in Nat \ {0}, NEW need \in Nat
  PROVE  Doubled(from, need) \in Nat \ {0} /\ Doubled(from, need) >= need
  <1>1. PICK F : F = [p \in Nat \X Nat |-> 2 * p[2]]
    OBVIOUS
  <1>2. F \in [Nat \X Nat -> Nat]
    BY <1>1
  <1>3. \E f : Recurs(f, Nat, from, F, need)
    BY <1>2, Recursion
  <1>4. PICK g : Recurs(g, Nat, from, F, need)
    BY <1>3
  <1>5. g \in [0 .. need -> Nat]
    BY <1>4 DEF Recurs
  <1>6. g = [i \in 0 .. need |-> IF i = 0 THEN from ELSE 2 * g[i - 1]]
    <2>0. Unfolds(g, from, F, need)
      BY <1>4, Unfold
    <2>1. ASSUME NEW i \in 0 .. need
          PROVE  g[i] = IF i = 0 THEN from ELSE 2 * g[i - 1]
      <3>1. g[i] = IF i = 0 THEN from ELSE F[<<i - 1, g[i - 1]>>]
        BY <2>0 DEF Unfolds
      <3>2. i # 0 => <<i - 1, g[i - 1]>> \in Nat \X Nat
        BY <1>5
      <3>3. i # 0 => F[<<i - 1, g[i - 1]>>] = 2 * g[i - 1]
        BY <1>1, <3>2
      <3> QED BY <3>1, <3>3
    <2> QED BY <1>5, <2>1
  <1>7. PICK size : /\ size = CHOOSE f : f = [i \in 0 .. need |-> IF i = 0 THEN from ELSE 2 * f[i - 1]]
                    /\ Doubled(from, need) = size[Min({i \in 0 .. need : size[i] >= need})]
    BY Zenon DEF Doubled
  <1>8. size = [i \in 0 .. need |-> IF i = 0 THEN from ELSE 2 * size[i - 1]]
    BY <1>6, <1>7, Zenon
  <1> DEFINE Big == {i \in Nat : i \in 0 .. need => size[i] \in Nat /\ size[i] >= i + 1}
  <1>9. 0 \in Big
    BY <1>8
  <1>10. ASSUME NEW i \in Nat, i \in Big PROVE i + 1 \in Big
    <2> SUFFICES ASSUME i + 1 \in 0 .. need PROVE size[i + 1] \in Nat /\ size[i + 1] >= i + 2
      OBVIOUS
    <2>1. size[i + 1] = 2 * size[(i + 1) - 1] /\ (i + 1) - 1 = i /\ i \in 0 .. need
      BY <1>8
    <2>2. size[i] \in Nat /\ size[i] >= i + 1
      BY <1>10, <2>1
    <2> QED BY <2>1, <2>2
  <1> HIDE DEF Big
  <1>11. Nat \subseteq Big
    BY <1>9, <1>10, Induct
  <1>12. \A i \in 0 .. need : size[i] \in Nat /\ size[i] >= i + 1
    BY <1>11 DEF Big
  <1>13. PICK S : S = {i \in 0 .. need : size[i] >= need}
    OBVIOUS
  <1>14. need \in S /\ S \in SUBSET Nat
    BY <1>12, <1>13
  <1>15. Min(S) \in S
    BY <1>14, MinIsLeast
  <1> QED BY <1>7, <1>12, <1>13, <1>15

-----------------------------------------------------------------------------
(* Filtered: what is left of a sequence *)

\* U[i] is what is left of the first i elements of s.
FilterRuns(U, s, keep, T) ==
  /\ U \in [0 .. Len(s) -> Seq(T)]
  /\ U[0] = <<>>
  /\ \A i \in 1 .. Len(s) :
       U[i] = IF s[i] \in keep THEN Append(U[i - 1], s[i]) ELSE U[i - 1]
  /\ Filtered(s, keep) = U[Len(s)]

\* The prefixes of Filtered, one element after the other.
LEMMA FilterPrefixes ==
  ASSUME NEW T, NEW s \in Seq(T), NEW keep
  PROVE  \E U : FilterRuns(U, s, keep, T)
  <1>1. PICK F : F = [p \in Nat \X Seq(T) |->
                        IF p[1] + 1 \in 1 .. Len(s) /\ s[p[1] + 1] \in keep
                        THEN Append(p[2], s[p[1] + 1]) ELSE p[2]]
    OBVIOUS
  <1>2. F \in [Nat \X Seq(T) -> Seq(T)]
    <2>1. ASSUME NEW p \in Nat \X Seq(T) PROVE F[p] \in Seq(T)
      <3>1. p[1] \in Nat /\ p[2] \in Seq(T)
        OBVIOUS
      <3>2. \A i \in 1 .. Len(s) : s[i] \in T
        OBVIOUS
      <3>3. CASE p[1] + 1 \in 1 .. Len(s) /\ s[p[1] + 1] \in keep
        <4>1. F[p] = Append(p[2], s[p[1] + 1])
          BY <1>1, <3>3
        <4>2. s[p[1] + 1] \in T
          BY <3>2, <3>3
        <4> QED BY <3>1, <4>1, <4>2
      <3>4. CASE ~(p[1] + 1 \in 1 .. Len(s) /\ s[p[1] + 1] \in keep)
        <4>1. F[p] = p[2]
          BY <1>1, <3>4
        <4> QED BY <3>1, <4>1
      <3> QED BY <3>3, <3>4
    <2>2. F = [p \in Nat \X Seq(T) |-> F[p]]
      BY <1>1
    <2> QED BY <2>1, <2>2
  <1>3. Len(s) \in Nat /\ <<>> \in Seq(T)
    OBVIOUS
  <1>4. \E f : Recurs(f, Seq(T), <<>>, F, Len(s))
    BY <1>2, <1>3, Recursion
  <1>5. PICK g : Recurs(g, Seq(T), <<>>, F, Len(s))
    BY <1>4
  <1>6. g \in [0 .. Len(s) -> Seq(T)]
    BY <1>5 DEF Recurs
  <1>7. g = [i \in 0 .. Len(s) |->
               IF i = 0 THEN <<>>
               ELSE IF s[i] \in keep THEN Append(g[i - 1], s[i]) ELSE g[i - 1]]
    <2>1. Unfolds(g, <<>>, F, Len(s))
      BY <1>3, <1>5, Unfold
    <2>2. ASSUME NEW i \in 0 .. Len(s)
          PROVE  g[i] = IF i = 0 THEN <<>>
                        ELSE IF s[i] \in keep THEN Append(g[i - 1], s[i]) ELSE g[i - 1]
      <3>1. g[i] = IF i = 0 THEN <<>> ELSE F[<<i - 1, g[i - 1]>>]
        BY <2>1 DEF Unfolds
      <3>2. ASSUME i # 0 PROVE <<i - 1, g[i - 1]>> \in Nat \X Seq(T) /\ (i - 1) + 1 = i /\ i \in 1 .. Len(s)
        BY <1>6, <3>2
      <3>3. ASSUME i # 0
            PROVE  F[<<i - 1, g[i - 1]>>] = IF s[i] \in keep THEN Append(g[i - 1], s[i]) ELSE g[i - 1]
        BY <1>1, <3>2, <3>3
      <3> QED BY <3>1, <3>3
    <2> QED BY <1>6, <2>2
  <1>8. PICK U : /\ U = CHOOSE f : f = [i \in 0 .. Len(s) |->
                                         IF i = 0 THEN <<>>
                                         ELSE IF s[i] \in keep THEN Append(f[i - 1], s[i]) ELSE f[i - 1]]
                 /\ Filtered(s, keep) = U[Len(s)]
    BY Zenon DEF Filtered
  <1>9. U = [i \in 0 .. Len(s) |->
               IF i = 0 THEN <<>>
               ELSE IF s[i] \in keep THEN Append(U[i - 1], s[i]) ELSE U[i - 1]]
    BY <1>7, <1>8, Zenon
  <1>10. \A i \in 0 .. Len(s) :
           U[i] = IF i = 0 THEN <<>>
                  ELSE IF s[i] \in keep THEN Append(U[i - 1], s[i]) ELSE U[i - 1]
    BY <1>9, Zenon
  <1>11. \A i \in 1 .. Len(s) :
           U[i] = IF s[i] \in keep THEN Append(U[i - 1], s[i]) ELSE U[i - 1]
    BY <1>10
  <1> DEFINE Fine == {i \in Nat : i \in 0 .. Len(s) => U[i] \in Seq(T)}
  <1>120. 0 \in 0 .. Len(s)
    OBVIOUS
  <1>121. U[0] = <<>>
    BY <1>10, <1>120, Zenon
  <1>12. 0 \in Fine
    BY <1>3, <1>121
  <1>13. ASSUME NEW i \in Nat, i \in Fine PROVE i + 1 \in Fine
    <2> SUFFICES ASSUME i + 1 \in 0 .. Len(s) PROVE U[i + 1] \in Seq(T)
      OBVIOUS
    <2>0. i + 1 \in 1 .. Len(s) /\ (i + 1) - 1 = i /\ i \in 0 .. Len(s)
      OBVIOUS
    <2>1. U[i + 1] = IF s[i + 1] \in keep THEN Append(U[i], s[i + 1]) ELSE U[i]
      BY <1>11, <2>0
    <2>2. s[i + 1] \in T
      BY <2>0
    <2> QED BY <1>13, <2>0, <2>1, <2>2
  <1> HIDE DEF Fine
  <1>14. Nat \subseteq Fine
    BY <1>12, <1>13, Induct
  <1>15. \A i \in 0 .. Len(s) : U[i] \in Seq(T)
    BY <1>14 DEF Fine
  <1>16. U \in [0 .. Len(s) -> Seq(T)]
    <2>1. U = [i \in 0 .. Len(s) |-> U[i]]
      BY <1>9, <1>10, Zenon
    <2>2. PICK V : V = U
      OBVIOUS
    <2>3. V = [i \in 0 .. Len(s) |-> U[i]]
      BY <2>1, <2>2
    <2>4. V \in [0 .. Len(s) -> Seq(T)]
      BY <1>15, <2>3
    <2> QED BY <2>2, <2>4
  <1>17. Filtered(s, keep) = U[Len(s)]
    BY <1>8
  <1>18. FilterRuns(U, s, keep, T)
    BY <1>11, <1>121, <1>16, <1>17, Zenon DEF FilterRuns
  <1> QED BY <1>18

\* Nothing is left of nothing.
LEMMA FilteredEmpty ==
  ASSUME NEW keep
  PROVE  Filtered(<<>>, keep) = <<>>
  <1>1. <<>> \in Seq({}) /\ Len(<<>>) = 0
    OBVIOUS
  <1>2. PICK U : FilterRuns(U, <<>>, keep, {})
    BY <1>1, FilterPrefixes
  <1> QED BY <1>1, <1>2 DEF FilterRuns

\* An element added at the end is kept or not; what was left before stays.
LEMMA FilteredAppend ==
  ASSUME NEW T, NEW s \in Seq(T), NEW x \in T, NEW keep
  PROVE  /\ Filtered(s, keep) \in Seq(T)
         /\ x \in keep => Filtered(Append(s, x), keep) = Append(Filtered(s, keep), x)
         /\ x \notin keep => Filtered(Append(s, x), keep) = Filtered(s, keep)
  <1>1. PICK t : t = Append(s, x)
    OBVIOUS
  <1>2. t \in Seq(T) /\ Len(s) \in Nat /\ Len(t) = Len(s) + 1 /\ t[Len(s) + 1] = x
        /\ \A i \in 1 .. Len(s) : t[i] = s[i]
    BY <1>1
  <1>3. PICK U : FilterRuns(U, s, keep, T)
    BY FilterPrefixes
  <1>4. PICK V : FilterRuns(V, t, keep, T)
    BY <1>2, FilterPrefixes
  <1> DEFINE Same == {i \in Nat : i \in 0 .. Len(s) => U[i] = V[i]}
  <1>5. 0 \in Same
    BY <1>3, <1>4 DEF FilterRuns
  <1>6. ASSUME NEW i \in Nat, i \in Same PROVE i + 1 \in Same
    <2> SUFFICES ASSUME i + 1 \in 0 .. Len(s) PROVE U[i + 1] = V[i + 1]
      OBVIOUS
    <2>0. i + 1 \in 1 .. Len(s) /\ i + 1 \in 1 .. Len(t) /\ (i + 1) - 1 = i
      BY <1>2
    <2>1. U[i + 1] = IF s[i + 1] \in keep THEN Append(U[i], s[i + 1]) ELSE U[i]
      BY <1>3, <2>0 DEF FilterRuns
    <2>2. V[i + 1] = IF t[i + 1] \in keep THEN Append(V[i], t[i + 1]) ELSE V[i]
      BY <1>4, <2>0 DEF FilterRuns
    <2>3. U[i] = V[i] /\ s[i + 1] = t[i + 1]
      BY <1>2, <1>6, <2>0
    <2> QED BY <2>1, <2>2, <2>3
  <1> HIDE DEF Same
  <1>7. Nat \subseteq Same
    BY <1>5, <1>6, Induct
  <1>8. U[Len(s)] = V[Len(s)]
    BY <1>2, <1>7 DEF Same
  <1>9. Len(t) \in 1 .. Len(t) /\ Len(t) - 1 = Len(s) /\ t[Len(t)] = x
    BY <1>2
  <1>10. V[Len(t)] = IF x \in keep THEN Append(V[Len(s)], x) ELSE V[Len(s)]
    BY <1>4, <1>9 DEF FilterRuns
  <1>11. Filtered(s, keep) = U[Len(s)] /\ Filtered(t, keep) = V[Len(t)] /\ U[Len(s)] \in Seq(T)
    BY <1>2, <1>3, <1>4 DEF FilterRuns
  <1> QED BY <1>1, <1>8, <1>10, <1>11

\* s is t and x after it.
Ends(s, T, n, t, x) ==
  /\ t \in Seq(T) /\ x \in T
  /\ Len(t) = n /\ s = Append(t, x)
  /\ \A i \in 1 .. n : t[i] = s[i]
  /\ s[n + 1] = x

\* A sequence that is not empty is a shorter one and a last element.
LEMMA LastAdded ==
  ASSUME NEW T, NEW n \in Nat, NEW s \in Seq(T), Len(s) = n + 1
  PROVE  \E t, x : Ends(s, T, n, t, x)
  <1>1. PICK t : t = [i \in 1 .. n |-> s[i]]
    OBVIOUS
  <1>2. t \in Seq(T) /\ Len(t) = n /\ \A i \in 1 .. n : t[i] = s[i]
    BY <1>1
  <1>3. s[n + 1] \in T
    OBVIOUS
  <1>4. s = Append(t, s[n + 1])
    BY <1>2, <1>3
  <1>5. Ends(s, T, n, t, s[n + 1])
    BY <1>2, <1>3, <1>4 DEF Ends
  <1> QED BY <1>5

\* Filtered, when the last element is to be kept.
LEMMA FilteredKept ==
  ASSUME NEW T, NEW n, NEW s, NEW t, NEW x, NEW keep, Ends(s, T, n, t, x), x \in keep
  PROVE  Filtered(s, keep) = Append(Filtered(t, keep), x)
  <1>1. t \in Seq(T) /\ x \in T /\ s = Append(t, x)
    BY DEF Ends
  <1>2. Filtered(Append(t, x), keep) = Append(Filtered(t, keep), x)
    BY <1>1, FilteredAppend
  <1> QED BY <1>1, <1>2

\* Filtered, when the last element is dropped.
LEMMA FilteredDropped ==
  ASSUME NEW T, NEW n, NEW s, NEW t, NEW x, NEW keep, Ends(s, T, n, t, x), x \notin keep
  PROVE  Filtered(s, keep) = Filtered(t, keep)
  <1>1. t \in Seq(T) /\ x \in T /\ s = Append(t, x)
    BY DEF Ends
  <1>2. Filtered(Append(t, x), keep) = Filtered(t, keep)
    BY <1>1, FilteredAppend
  <1> QED BY <1>1, <1>2

\* Every element left comes from its own place or a later one, and every
\* element to keep is there.
Leaves(s, keep, f) ==
  /\ Len(f) <= Len(s)
  /\ \A n \in 1 .. Len(f) : \E m \in n .. Len(s) : f[n] = s[m] /\ s[m] \in keep
  /\ \A m \in 1 .. Len(s) : s[m] \in keep => \E n \in 1 .. Len(f) : f[n] = s[m]
  /\ Len(f) = Cardinality({m \in 1 .. Len(s) : s[m] \in keep})

\* What Filtered leaves of a sequence, element by element.
LEMMA FilteredLeaves ==
  ASSUME NEW T, NEW keep, NEW s \in Seq(T)
  PROVE  Filtered(s, keep) \in Seq(T) /\ Leaves(s, keep, Filtered(s, keep))
  <1> DEFINE Good == {n \in Nat : \A t \in Seq(T) :
                        Len(t) = n => /\ Filtered(t, keep) \in Seq(T)
                                      /\ Leaves(t, keep, Filtered(t, keep))}
  <1>1. 0 \in Good
    <2> SUFFICES ASSUME NEW t \in Seq(T), Len(t) = 0
                 PROVE  Filtered(t, keep) \in Seq(T) /\ Leaves(t, keep, Filtered(t, keep))
      OBVIOUS
    <2>1. t = <<>>
      OBVIOUS
    <2>2. Filtered(t, keep) = <<>>
      BY <2>1, FilteredEmpty
    <2>3. {m \in 1 .. Len(t) : t[m] \in keep} = {}
      OBVIOUS
    <2>4. Cardinality({m \in 1 .. Len(t) : t[m] \in keep}) = 0
      BY <2>3, FS_EmptySet
    <2>5. <<>> \in Seq(T) /\ Len(<<>>) = 0
      OBVIOUS
    <2>6. Leaves(t, keep, <<>>)
      BY <2>1, <2>4, <2>5 DEF Leaves
    <2> QED BY <2>2, <2>5, <2>6
  <1>2. ASSUME NEW n \in Nat, n \in Good PROVE n + 1 \in Good
    <2> SUFFICES ASSUME NEW t \in Seq(T), Len(t) = n + 1
                 PROVE  Filtered(t, keep) \in Seq(T) /\ Leaves(t, keep, Filtered(t, keep))
      OBVIOUS
    <2>0. PICK u, x : Ends(t, T, n, u, x)
      BY LastAdded
    <2>1. /\ u \in Seq(T) /\ x \in T
          /\ Len(u) = n /\ t = Append(u, x)
          /\ \A i \in 1 .. n : u[i] = t[i]
          /\ t[n + 1] = x
      BY <2>0 DEF Ends
    <2>2. PICK f, g : f = Filtered(u, keep) /\ g = Filtered(t, keep)
      OBVIOUS
    <2>3. f \in Seq(T) /\ Leaves(u, keep, f)
      BY <1>2, <2>1, <2>2
    <2>4. /\ x \in keep => g = Append(f, x)
          /\ x \notin keep => g = f
      BY <2>0, <2>2, FilteredKept, FilteredDropped
    <2> HIDE DEF Good
    <2>5. g \in Seq(T)
      <3>1. CASE x \in keep
        <4>1. g = Append(f, x) /\ f \in Seq(T) /\ x \in T
          BY <2>1, <2>3, <2>4, <3>1
        <4> QED BY <4>1
      <3>2. CASE x \notin keep
        BY <2>3, <2>4, <3>2
      <3> QED BY <3>1, <3>2
    <2>6. PICK K, L : /\ K = {m \in 1 .. Len(u) : u[m] \in keep}
                      /\ L = {m \in 1 .. Len(t) : t[m] \in keep}
      OBVIOUS
    <2>7. IsFiniteSet(K) /\ Len(f) = Cardinality(K)
      <3>1. IsFiniteSet(1 .. Len(u))
        BY FS_Interval
      <3> QED BY <2>3, <2>6, <3>1, FS_Subset DEF Leaves
    <2>8. CASE x \in keep
      <3>1. L = K \union {n + 1} /\ n + 1 \notin K
        BY <2>1, <2>6, <2>8
      <3>2. Cardinality(L) = Cardinality(K) + 1
        BY <2>7, <3>1, FS_AddElement
      <3>3. Len(g) = Len(f) + 1 /\ g[Len(f) + 1] = x /\ \A i \in 1 .. Len(f) : g[i] = f[i]
        BY <2>3, <2>4, <2>8
      <3>4. Len(g) <= Len(t)
        BY <2>1, <2>3, <3>3 DEF Leaves
      <3>5. ASSUME NEW i \in 1 .. Len(g)
            PROVE  \E m \in i .. Len(t) : g[i] = t[m] /\ t[m] \in keep
        <4>1. CASE i = Len(f) + 1
          <5>1. n + 1 \in i .. Len(t)
            BY <2>1, <2>3, <4>1 DEF Leaves
          <5> QED BY <2>1, <2>8, <3>3, <4>1, <5>1
        <4>2. CASE i # Len(f) + 1
          <5>1. i \in 1 .. Len(f) /\ g[i] = f[i]
            BY <2>3, <3>3, <4>2
          <5>2. PICK m \in i .. Len(u) : f[i] = u[m] /\ u[m] \in keep
            BY <2>3, <5>1 DEF Leaves
          <5>3. m \in i .. Len(t) /\ t[m] = u[m]
            BY <2>1, <5>2
          <5> QED BY <5>1, <5>2, <5>3
        <4> QED BY <4>1, <4>2
      <3>6. ASSUME NEW m \in 1 .. Len(t), t[m] \in keep
            PROVE  \E i \in 1 .. Len(g) : g[i] = t[m]
        <4>1. CASE m = n + 1
          <5>1. Len(f) + 1 \in 1 .. Len(g)
            BY <2>3, <3>3
          <5> QED BY <2>1, <3>3, <4>1, <5>1
        <4>2. CASE m # n + 1
          <5>1. m \in 1 .. Len(u) /\ u[m] = t[m]
            BY <2>1, <4>2
          <5>2. PICK i \in 1 .. Len(f) : f[i] = u[m]
            BY <2>3, <3>6, <5>1 DEF Leaves
          <5>3. i \in 1 .. Len(g) /\ g[i] = f[i]
            BY <2>3, <3>3, <5>2
          <5> QED BY <5>1, <5>2, <5>3
        <4> QED BY <4>1, <4>2
      <3>7. Len(g) = Cardinality(L)
        BY <2>7, <3>2, <3>3
      <3> QED BY <2>2, <2>5, <2>6, <3>4, <3>5, <3>6, <3>7 DEF Leaves
    <2>9. CASE x \notin keep
      <3>1. g = f /\ K = L
        BY <2>1, <2>4, <2>6, <2>9
      <3>2. Len(g) <= Len(t)
        BY <2>1, <2>3, <3>1 DEF Leaves
      <3>3. ASSUME NEW i \in 1 .. Len(g)
            PROVE  \E m \in i .. Len(t) : g[i] = t[m] /\ t[m] \in keep
        <4>1. PICK m \in i .. Len(u) : f[i] = u[m] /\ u[m] \in keep
          BY <2>3, <3>1 DEF Leaves
        <4>2. m \in i .. Len(t) /\ t[m] = u[m]
          BY <2>1, <4>1
        <4> QED BY <3>1, <4>1, <4>2
      <3>4. ASSUME NEW m \in 1 .. Len(t), t[m] \in keep
            PROVE  \E i \in 1 .. Len(g) : g[i] = t[m]
        <4>1. m \in 1 .. Len(u) /\ u[m] = t[m]
          BY <2>1, <2>9, <3>4
        <4> QED BY <2>3, <3>1, <3>4, <4>1 DEF Leaves
      <3> QED BY <2>2, <2>5, <2>6, <2>7, <3>1, <3>2, <3>3, <3>4 DEF Leaves
    <2> QED BY <2>8, <2>9
  <1> HIDE DEF Good
  <1>3. Nat \subseteq Good
    BY <1>1, <1>2, Induct
  <1>4. Len(s) \in Good
    BY <1>3
  <1> QED BY <1>4 DEF Good

\* Nothing goes from a sequence all of whose elements are kept.
LEMMA FilteredSame ==
  ASSUME NEW T, NEW keep, NEW s \in Seq(T), \A i \in 1 .. Len(s) : s[i] \in keep
  PROVE  Filtered(s, keep) = s
  <1> DEFINE Good == {n \in Nat : \A t \in Seq(T) :
                        Len(t) = n /\ (\A i \in 1 .. Len(t) : t[i] \in keep)
                          => Filtered(t, keep) = t}
  <1>1. 0 \in Good
    <2> SUFFICES ASSUME NEW t \in Seq(T), Len(t) = 0 PROVE Filtered(t, keep) = t
      OBVIOUS
    <2>1. t = <<>>
      OBVIOUS
    <2> QED BY <2>1, FilteredEmpty
  <1>2. ASSUME NEW n \in Nat, n \in Good PROVE n + 1 \in Good
    <2> SUFFICES ASSUME NEW t \in Seq(T), Len(t) = n + 1, \A i \in 1 .. Len(t) : t[i] \in keep
                 PROVE  Filtered(t, keep) = t
      OBVIOUS
    <2>0. PICK u, x : Ends(t, T, n, u, x)
      BY LastAdded
    <2>1. /\ u \in Seq(T) /\ x \in T
          /\ Len(u) = n /\ t = Append(u, x)
          /\ \A i \in 1 .. n : u[i] = t[i]
          /\ t[n + 1] = x
      BY <2>0 DEF Ends
    <2>2. \A i \in 1 .. Len(u) : u[i] \in keep
      BY <2>1
    <2>3. x \in keep
      BY <2>1
    <2>4. Filtered(u, keep) = u
      BY <1>2, <2>1, <2>2
    <2> HIDE DEF Good
    <2>5. Filtered(t, keep) = Append(Filtered(u, keep), x)
      BY <2>0, <2>3, FilteredKept
    <2> QED BY <2>1, <2>4, <2>5
  <1> HIDE DEF Good
  <1>3. Nat \subseteq Good
    BY <1>1, <1>2, Induct
  <1>4. Len(s) \in Good
    BY <1>3
  <1> QED BY <1>4 DEF Good

-----------------------------------------------------------------------------
(* The keys of an entry list *)

KeysOf(es) == [n \in 1 .. Len(es) |-> es[n].key]

\* Entries are live exactly when their key is not the hole.
LEMMA LiveEntries ==
  ASSUME NEW e \in Entry
  PROVE  /\ e \in Live <=> e.key # Hole
         /\ e \in Live => e.key \in Keys /\ e.val \in Vals
  BY KeysAssumption DEF Entry, Live, Tombstone

\* The keys of a list of live entries, and of one with another at its end.
LEMMA KeysOfAppend ==
  ASSUME NEW es \in Seq(Entry), NEW e \in Entry,
         \A n \in 1 .. Len(es) : es[n] \in Live, e \in Live
  PROVE  /\ KeysOf(es) \in Seq(Keys) /\ Len(KeysOf(es)) = Len(es)
         /\ KeysOf(Append(es, e)) = Append(KeysOf(es), e.key)
  <1>1. PICK k : k = KeysOf(es)
    OBVIOUS
  <1>2. k = [n \in 1 .. Len(es) |-> es[n].key]
    BY <1>1 DEF KeysOf
  <1>3. \A n \in 1 .. Len(es) : es[n].key \in Keys
    BY LiveEntries
  <1>4. k \in Seq(Keys) /\ Len(k) = Len(es)
    BY <1>2, <1>3
  <1>5. e.key \in Keys
    BY LiveEntries
  <1>6. PICK fs : fs = Append(es, e)
    OBVIOUS
  <1>7. /\ fs \in Seq(Entry) /\ Len(fs) = Len(es) + 1 /\ fs[Len(es) + 1] = e
        /\ \A n \in 1 .. Len(es) : fs[n] = es[n]
    BY <1>6
  <1>8. PICK l : l = KeysOf(fs)
    OBVIOUS
  <1>9. l = [n \in 1 .. Len(es) + 1 |-> fs[n].key]
    BY <1>7, <1>8 DEF KeysOf
  <1>10. PICK m : m = Append(k, e.key)
    OBVIOUS
  <1>11. m \in Seq(Keys) /\ Len(m) = Len(es) + 1 /\ m[Len(es) + 1] = e.key
         /\ \A n \in 1 .. Len(es) : m[n] = k[n]
    BY <1>4, <1>5, <1>10
  <1>12. l \in Seq(Keys) /\ Len(l) = Len(es) + 1
    <2>1. \A n \in 1 .. Len(es) + 1 : fs[n].key \in Keys
      BY <1>3, <1>5, <1>7
    <2> QED BY <1>9, <2>1
  <1>13. ASSUME NEW n \in 1 .. Len(es) + 1 PROVE l[n] = m[n]
    <2>1. CASE n = Len(es) + 1
      BY <1>7, <1>9, <1>11, <2>1
    <2>2. CASE n # Len(es) + 1
      <3>1. n \in 1 .. Len(es)
        BY <2>2
      <3> QED BY <1>2, <1>7, <1>9, <1>11, <3>1
    <2> QED BY <2>1, <2>2
  <1>14. l = m
    BY <1>11, <1>12, <1>13
  <1> QED BY <1>1, <1>4, <1>6, <1>8, <1>10, <1>14

\* t is s with the entries of the keys in gone erased, and perhaps other values.
Erased(s, t, gone) ==
  /\ Len(t) = Len(s)
  /\ \A i \in 1 .. Len(s) :
       /\ t[i] \in Live <=> s[i] \in Live /\ s[i].key \notin gone
       /\ t[i] \in Live => t[i].key = s[i].key

OrderErased(s, t, gone) ==
  KeysOf(Filtered(t, Live)) = Filtered(KeysOf(Filtered(s, Live)), Keys \ gone)

\* Erasing entries takes their keys out of the order and moves no other.
LEMMA ErasedOrder ==
  ASSUME NEW s \in Seq(Entry), NEW t \in Seq(Entry), NEW gone, Erased(s, t, gone)
  PROVE  OrderErased(s, t, gone)
  <1> DEFINE Good == {n \in Nat : \A u, v \in Seq(Entry) :
                        Len(u) = n /\ Erased(u, v, gone) =>
                          OrderErased(u, v, gone)}
  <1>1. 0 \in Good
    <2> SUFFICES ASSUME NEW u \in Seq(Entry), NEW v \in Seq(Entry), Len(u) = 0, Erased(u, v, gone)
                 PROVE  OrderErased(u, v, gone)
      OBVIOUS
    <2>1. u = <<>> /\ v = <<>>
      BY DEF Erased
    <2>2. Filtered(<<>>, Live) = <<>>
      BY FilteredEmpty
    <2>3. KeysOf(<<>>) = <<>>
      BY DEF KeysOf
    <2>4. Filtered(<<>>, Keys \ gone) = <<>>
      BY FilteredEmpty
    <2> QED BY <2>1, <2>2, <2>3, <2>4 DEF OrderErased
  <1>2. ASSUME NEW n \in Nat, n \in Good PROVE n + 1 \in Good
    <2> SUFFICES ASSUME NEW u \in Seq(Entry), NEW v \in Seq(Entry),
                        Len(u) = n + 1, Erased(u, v, gone)
                 PROVE  OrderErased(u, v, gone)
      OBVIOUS
    <2>1. PICK a, x : Ends(u, Entry, n, a, x)
      BY LastAdded
    <2>2. Len(v) = n + 1
      BY DEF Erased
    <2>3. PICK b, y : Ends(v, Entry, n, b, y)
      BY <2>2, LastAdded
    <2>4. /\ a \in Seq(Entry) /\ x \in Entry /\ Len(a) = n /\ u = Append(a, x)
          /\ b \in Seq(Entry) /\ y \in Entry /\ Len(b) = n /\ v = Append(b, y)
          /\ \A i \in 1 .. n : a[i] = u[i] /\ b[i] = v[i]
          /\ x = u[n + 1] /\ y = v[n + 1]
      BY <2>1, <2>3 DEF Ends
    <2>5. Erased(a, b, gone)
      BY <2>4 DEF Erased
    <2>6. /\ y \in Live <=> x \in Live /\ x.key \notin gone
          /\ y \in Live => y.key = x.key
      BY <2>4 DEF Erased
    <2>7. PICK f, g : f = Filtered(a, Live) /\ g = Filtered(b, Live)
      OBVIOUS
    <2>8. KeysOf(g) = Filtered(KeysOf(f), Keys \ gone)
      BY <1>2, <2>4, <2>5, <2>7 DEF OrderErased
    <2> HIDE DEF Good
    <2>9. f \in Seq(Entry) /\ g \in Seq(Entry)
      BY <2>4, <2>7, FilteredLeaves
    <2>10. (\A i \in 1 .. Len(f) : f[i] \in Live) /\ (\A i \in 1 .. Len(g) : g[i] \in Live)
      <3>1. Leaves(a, Live, f) /\ Leaves(b, Live, g)
        BY <2>4, <2>7, FilteredLeaves
      <3> QED BY <3>1 DEF Leaves
    <2>11. CASE x \notin Live
      <3>1. Filtered(u, Live) = f
        BY <2>1, <2>7, <2>11, FilteredDropped
      <3>2. y \notin Live
        BY <2>6, <2>11
      <3>3. Filtered(v, Live) = g
        BY <2>3, <2>7, <3>2, FilteredDropped
      <3> QED BY <2>8, <3>1, <3>3 DEF OrderErased
    <2>12. CASE x \in Live
      <3>1. Filtered(u, Live) = Append(f, x)
        BY <2>1, <2>7, <2>12, FilteredKept
      <3>2. KeysOf(f) \in Seq(Keys) /\ KeysOf(Append(f, x)) = Append(KeysOf(f), x.key)
        BY <2>4, <2>9, <2>10, <2>12, KeysOfAppend
      <3>3. x.key \in Keys
        BY <2>4, <2>12, LiveEntries
      <3>6. Ends(Append(KeysOf(f), x.key), Keys, Len(KeysOf(f)), KeysOf(f), x.key)
        BY <3>2, <3>3 DEF Ends
      <3>4. CASE x.key \in gone
        <4>1. y \notin Live
          BY <2>6, <3>4
        <4>2. Filtered(v, Live) = g
          BY <2>3, <2>7, <4>1, FilteredDropped
        <4>3. x.key \notin Keys \ gone
          BY <3>4
        <4>4. Filtered(Append(KeysOf(f), x.key), Keys \ gone) = Filtered(KeysOf(f), Keys \ gone)
          <5>1. PICK keep, k : keep = Keys \ gone /\ k = x.key
            OBVIOUS
          <5>2. k \notin keep /\ Ends(Append(KeysOf(f), k), Keys, Len(KeysOf(f)), KeysOf(f), k)
            BY <3>6, <4>3, <5>1
          <5>3. Filtered(Append(KeysOf(f), k), keep) = Filtered(KeysOf(f), keep)
            BY <5>2, FilteredDropped
          <5> QED BY <5>1, <5>3
        <4> QED BY <2>8, <3>1, <3>2, <4>2, <4>4 DEF OrderErased
      <3>5. CASE x.key \notin gone
        <4>1. y \in Live /\ y.key = x.key
          BY <2>6, <2>12, <3>5
        <4>2. Filtered(v, Live) = Append(g, y)
          BY <2>3, <2>7, <4>1, FilteredKept
        <4>3. KeysOf(Append(g, y)) = Append(KeysOf(g), y.key)
          BY <2>4, <2>9, <2>10, <4>1, KeysOfAppend
        <4>4. x.key \in Keys \ gone
          BY <3>3, <3>5
        <4>5. Filtered(Append(KeysOf(f), x.key), Keys \ gone)
                = Append(Filtered(KeysOf(f), Keys \ gone), x.key)
          <5>1. PICK keep, k : keep = Keys \ gone /\ k = x.key
            OBVIOUS
          <5>2. k \in keep /\ Ends(Append(KeysOf(f), k), Keys, Len(KeysOf(f)), KeysOf(f), k)
            BY <3>6, <4>4, <5>1
          <5>3. Filtered(Append(KeysOf(f), k), keep) = Append(Filtered(KeysOf(f), keep), k)
            BY <5>2, FilteredKept
          <5> QED BY <5>1, <5>3
        <4> QED BY <2>8, <3>1, <3>2, <4>1, <4>2, <4>3, <4>5 DEF OrderErased
      <3> QED BY <3>4, <3>5
    <2> QED BY <2>11, <2>12
  <1> HIDE DEF Good
  <1>3. Nat \subseteq Good
    BY <1>1, <1>2, Induct
  <1>4. Len(s) \in Good
    BY <1>3
  <1> QED BY <1>4 DEF Good

\* A compacted list has one slot for a key if the list had.
LEMMA CompactedDistinct ==
  ASSUME NEW s \in Seq(Entry), Distinct(s)
  PROVE  Distinct(Filtered(s, Live))
  <1> DEFINE Good == {n \in Nat : \A u \in Seq(Entry) :
                        Len(u) = n /\ Distinct(u) => Distinct(Filtered(u, Live))}
  <1>1. 0 \in Good
    <2> SUFFICES ASSUME NEW u \in Seq(Entry), Len(u) = 0 PROVE Distinct(Filtered(u, Live))
      OBVIOUS
    <2>1. u = <<>>
      OBVIOUS
    <2>2. Filtered(u, Live) = <<>>
      BY <2>1, FilteredEmpty
    <2> QED BY <2>2 DEF Distinct
  <1>2. ASSUME NEW n \in Nat, n \in Good PROVE n + 1 \in Good
    <2> SUFFICES ASSUME NEW u \in Seq(Entry), Len(u) = n + 1, Distinct(u)
                 PROVE  Distinct(Filtered(u, Live))
      OBVIOUS
    <2>1. PICK a, x : Ends(u, Entry, n, a, x)
      BY LastAdded
    <2>2. /\ a \in Seq(Entry) /\ x \in Entry /\ Len(a) = n /\ u = Append(a, x)
          /\ \A i \in 1 .. n : a[i] = u[i]
          /\ x = u[n + 1]
      BY <2>1 DEF Ends
    <2>3. Distinct(a)
      BY <2>2 DEF Distinct
    <2>4. PICK f : f = Filtered(a, Live)
      OBVIOUS
    <2>5. Distinct(f)
      BY <1>2, <2>2, <2>3, <2>4
    <2> HIDE DEF Good
    <2>6. f \in Seq(Entry) /\ Leaves(a, Live, f)
      BY <2>2, <2>4, FilteredLeaves
    <2>7. CASE x \notin Live
      <3>1. Filtered(u, Live) = f
        BY <2>1, <2>4, <2>7, FilteredDropped
      <3> QED BY <2>5, <3>1
    <2>8. CASE x \in Live
      <3>1. PICK g : g = Filtered(u, Live)
        OBVIOUS
      <3>2. g = Append(f, x)
        BY <2>1, <2>4, <2>8, <3>1, FilteredKept
      <3>3. Len(g) = Len(f) + 1 /\ g[Len(f) + 1] = x /\ \A i \in 1 .. Len(f) : g[i] = f[i]
        BY <2>2, <2>6, <3>2
      <3>4. ASSUME NEW i \in 1 .. Len(f) PROVE f[i].key # x.key
        <4>1. PICK m \in i .. Len(a) : f[i] = a[m] /\ a[m] \in Live
          BY <2>6 DEF Leaves
        <4>2. m \in 1 .. Len(u) /\ n + 1 \in 1 .. Len(u) /\ m # n + 1 /\ u[m] = f[i]
          BY <2>2, <4>1
        <4>3. x.key # Hole
          BY <2>2, <2>8, LiveEntries
        <4> QED BY <2>2, <4>2, <4>3 DEF Distinct
      <3>5. ASSUME NEW i \in 1 .. Len(g), NEW j \in 1 .. Len(g), g[i].key # Hole, g[i].key = g[j].key
            PROVE  i = j
        <4>1. CASE i = Len(f) + 1 /\ j = Len(f) + 1
          BY <4>1
        <4>2. CASE i = Len(f) + 1 /\ j # Len(f) + 1
          BY <2>6, <3>3, <3>4, <3>5, <4>2
        <4>3. CASE i # Len(f) + 1 /\ j = Len(f) + 1
          BY <2>6, <3>3, <3>4, <3>5, <4>3
        <4>4. CASE i # Len(f) + 1 /\ j # Len(f) + 1
          <5>1. i \in 1 .. Len(f) /\ j \in 1 .. Len(f)
            BY <2>6, <3>3, <4>4
          <5> QED BY <2>5, <3>3, <3>5, <5>1 DEF Distinct
        <4> QED BY <4>1, <4>2, <4>3, <4>4
      <3> QED BY <3>1, <3>5 DEF Distinct
    <2> QED BY <2>7, <2>8
  <1> HIDE DEF Good
  <1>3. Nat \subseteq Good
    BY <1>1, <1>2, Induct
  <1>4. Len(s) \in Good
    BY <1>3
  <1> QED BY <1>4 DEF Good

-----------------------------------------------------------------------------
(* The index: Place, Reindexed, Probe *)

\* The number of buckets is the size of the domain.
LEMMA CountOfBuckets ==
  ASSUME NEW n \in Nat \ {0}, NEW T, NEW b \in [0 .. n - 1 -> T]
  PROVE  Cardinality(DOMAIN b) = n
  <1>1. DOMAIN b = 0 .. n - 1
    OBVIOUS
  <1>2. Cardinality(0 .. n - 1) = n
    BY FS_Interval
  <1> QED BY <1>1, <1>2

\* Fewer slots than buckets leave a bucket empty.
LEMMA Vacancy ==
  ASSUME NEW n \in Nat \ {0}, NEW m \in Nat, m < n, NEW b, Spread(b, n, m)
  PROVE  \E x \in 0 .. n - 1 : b[x] = 0
  <1> SUFFICES ASSUME \A x \in 0 .. n - 1 : b[x] # 0 PROVE FALSE
    OBVIOUS
  <1>1. b \in [0 .. n - 1 -> 1 .. m]
    BY DEF Spread
  <1>2. /\ IsFiniteSet(0 .. n - 1) /\ Cardinality(0 .. n - 1) = n
        /\ IsFiniteSet(1 .. m) /\ Cardinality(1 .. m) = m
    <2>0. n - 1 \in Int /\ 0 \in Int
      OBVIOUS
    <2>3. IsFiniteSet(0 .. n - 1)
      BY <2>0, FS_Interval
    <2>1. IsFiniteSet(0 .. n - 1) /\ Cardinality(0 .. n - 1) = n
      BY <2>3, FS_Interval
    <2>2. IsFiniteSet(1 .. m) /\ Cardinality(1 .. m) = m
      BY FS_Interval
    <2> QED BY <2>1, <2>2
  <1>3. PICK S, R : S = 0 .. n - 1 /\ R = 1 .. m
    OBVIOUS
  <1>4. /\ IsFiniteSet(S) /\ IsFiniteSet(R) /\ Cardinality(R) < Cardinality(S)
        /\ b \in [S -> R]
    BY <1>1, <1>2, <1>3
  <1>5. \E x, y \in S : x # y /\ b[x] = b[y]
    BY <1>4, FS_PigeonHole
  <1> QED BY <1>3, <1>5 DEF Spread

\* Place fills the first empty bucket of the probe sequence.
PlacedAt(b, n, h, s, d) ==
  /\ d \in 0 .. n - 1 /\ (h + d) % n \in 0 .. n - 1
  /\ b[(h + d) % n] = 0
  /\ \A e \in 0 .. d - 1 : b[(h + e) % n] # 0
  /\ Place(b, h, s) = [b EXCEPT ![(h + d) % n] = s]

\* Place finds an empty bucket, the first of the sequence.
LEMMA PlaceFirst ==
  ASSUME NEW n \in Nat \ {0}, NEW m \in Nat, m < n, NEW b, Spread(b, n, m),
         NEW h \in Nat, NEW s \in Nat
  PROVE  \E d : PlacedAt(b, n, h, s, d)
  <1>1. PICK x \in 0 .. n - 1 : b[x] = 0
    BY Vacancy
  <1>2. PICK c \in 0 .. n - 1 : (h + c) % n = x
    BY Reaches
  <1>3. Cardinality(DOMAIN b) = n
    <2>1. b \in [0 .. n - 1 -> 0 .. m]
      BY DEF Spread
    <2> QED BY <2>1, CountOfBuckets
  <1>4. PICK S : S = {i \in 0 .. n - 1 : b[(h + i) % n] = 0}
    OBVIOUS
  <1>5. S \in SUBSET Nat /\ c \in S
    BY <1>1, <1>2, <1>4
  <1>6. PICK d : d = Min(S)
    OBVIOUS
  <1>7. d \in S /\ \A y \in S : d <= y
    BY <1>5, <1>6, MinIsLeast
  <1>8. d \in 0 .. n - 1 /\ b[(h + d) % n] = 0
    BY <1>4, <1>7
  <1>9. (h + d) % n \in 0 .. n - 1
    BY <1>8, ModIn
  <1>10. \A e \in 0 .. d - 1 : b[(h + e) % n] # 0
    <2> SUFFICES ASSUME NEW e \in 0 .. d - 1, b[(h + e) % n] = 0 PROVE FALSE
      OBVIOUS
    <2>1. e \in 0 .. n - 1 /\ e < d
      BY <1>8
    <2>2. e \in S
      BY <1>4, <2>1
    <2> QED BY <1>7, <1>8, <2>1, <2>2
  <1>11. Place(b, h, s) = [b EXCEPT ![(h + d) % n] = s]
    <2>1. Place(b, h, s) = [b EXCEPT ![(h + Min({i \in 0 .. n - 1 : b[(h + i) % n] = 0})) % n] = s]
      BY <1>3, Zenon DEF Place, ProbeAt
    <2> QED BY <1>4, <1>6, <2>1
  <1>12. PlacedAt(b, n, h, s, d)
    BY <1>8, <1>9, <1>10, <1>11 DEF PlacedAt
  <1> QED BY <1>12

\* Placing a new slot keeps the buckets spread, leads to it and still leads
\* to every slot it led to.
LEMMA PlaceLeads ==
  ASSUME NEW n \in Nat \ {0}, NEW m \in Nat, m < n, NEW b, Spread(b, n, m),
         NEW h \in Nat, NEW s \in Nat, NEW p, p = Place(b, h, s), m < s
  PROVE  /\ Spread(p, n, s)
         /\ Leads(p, n, h, s)
         /\ \A g \in Nat, t \in Nat \ {0} : Leads(b, n, g, t) => Leads(p, n, g, t)
  <1>1. PICK d : PlacedAt(b, n, h, s, d)
    BY PlaceFirst
  <1>2. PICK x : x = (h + d) % n
    OBVIOUS
  <1>3. /\ d \in 0 .. n - 1 /\ x \in 0 .. n - 1 /\ b[x] = 0
        /\ \A e \in 0 .. d - 1 : b[(h + e) % n] # 0
        /\ p = [b EXCEPT ![x] = s]
    BY <1>1, <1>2 DEF PlacedAt
  <1>4. b \in [0 .. n - 1 -> 0 .. m]
    BY DEF Spread
  <1>5. p \in [0 .. n - 1 -> 0 .. s] /\ p[x] = s /\ \A y \in 0 .. n - 1 : y # x => p[y] = b[y]
    BY <1>3, <1>4
  <1>6. Spread(p, n, s)
    <2>1. ASSUME NEW y \in 0 .. n - 1, NEW z \in 0 .. n - 1, p[y] = p[z], p[y] # 0
          PROVE  y = z
      <3>1. CASE y # x /\ z # x
        BY <1>5, <2>1, <3>1 DEF Spread
      <3>2. CASE y = x /\ z # x
        <4>1. p[z] = b[z] /\ b[z] \in 0 .. m /\ p[y] = s
          BY <1>4, <1>5, <3>2
        <4> QED BY <2>1, <4>1
      <3>3. CASE y # x /\ z = x
        <4>1. p[y] = b[y] /\ b[y] \in 0 .. m /\ p[z] = s
          BY <1>4, <1>5, <3>3
        <4>2. b[y] = s
          BY <2>1, <4>1
        <4> QED BY <4>1, <4>2
      <3> QED BY <3>1, <3>2, <3>3
    <2> QED BY <1>5, <2>1 DEF Spread
  <1>7. \A y \in 0 .. n - 1 : b[y] # 0 => p[y] # 0 /\ p[y] = b[y]
    BY <1>3, <1>5
  <1>8. Leads(p, n, h, s)
    <2>1. ASSUME NEW e \in 0 .. d - 1 PROVE p[(h + e) % n] # 0
      <3>1. e \in Nat /\ b[(h + e) % n] # 0
        BY <1>3
      <3>2. (h + e) % n \in 0 .. n - 1
        BY <3>1, ModIn
      <3> QED BY <1>7, <3>1, <3>2
    <2>2. p[(h + d) % n] = s
      BY <1>2, <1>5
    <2> QED BY <1>3, <2>1, <2>2 DEF Leads
  <1>9. ASSUME NEW g \in Nat, NEW t \in Nat \ {0}, Leads(b, n, g, t) PROVE Leads(p, n, g, t)
    <2>1. PICK c \in 0 .. n - 1 : /\ b[(g + c) % n] = t
                                  /\ \A e \in 0 .. c - 1 : b[(g + e) % n] # 0
      BY <1>9 DEF Leads
    <2>2. (g + c) % n \in 0 .. n - 1
      BY ModIn
    <2>3. p[(g + c) % n] = t
      BY <1>7, <2>1, <2>2
    <2>4. ASSUME NEW e \in 0 .. c - 1 PROVE p[(g + e) % n] # 0
      <3>1. e \in Nat /\ b[(g + e) % n] # 0
        BY <2>1
      <3>2. (g + e) % n \in 0 .. n - 1
        BY <3>1, ModIn
      <3> QED BY <1>7, <3>1, <3>2
    <2> QED BY <2>3, <2>4 DEF Leads
  <1> QED BY <1>6, <1>8, <1>9

\* An index with room for more slots stays spread.
LEMMA SpreadMore ==
  ASSUME NEW n \in Nat \ {0}, NEW m \in Nat, NEW b, Spread(b, n, m), NEW k \in Nat, m <= k
  PROVE  Spread(b, n, k)
  BY DEF Spread

\* Hashes are natural numbers.
LEMMA HashNat ==
  ASSUME Types, NEW k \in Keys
  PROVE  HashKey(k) \in Nat
  BY SizesAssumption DEF Types, HashKey, Keys

\* B[s] is the index of the first s slots.
ReindexRuns(B, n) ==
  /\ B[0] = [b \in 0 .. n - 1 |-> 0]
  /\ \A s \in 1 .. Len(entries) :
       /\ LiveAt(s) => B[s] = Place(B[s - 1], HashKey(entries[s].key), s)
       /\ ~LiveAt(s) => B[s] = B[s - 1]
  /\ Reindexed = B[Len(entries)]

\* Place changes one bucket at most.
LEMMA PlaceType ==
  ASSUME NEW n \in Nat, NEW b \in [0 .. n - 1 -> Nat], NEW h, NEW s \in Nat
  PROVE  Place(b, h, s) \in [0 .. n - 1 -> Nat]
  <1>1. PICK x : Place(b, h, s) = [b EXCEPT ![x] = s]
    BY Zenon DEF Place
  <1> QED BY <1>1

\* The index of the list, one slot after the other.
LEMMA ReindexPrefixes ==
  ASSUME Types, NEW n \in Nat, n = BucketCountFor(cap)
  PROVE  \E B : ReindexRuns(B, n)
  <1> DEFINE T == [0 .. n - 1 -> Nat]
  <1>1. PICK empty : empty = [b \in 0 .. n - 1 |-> 0]
    OBVIOUS
  <1>2. empty \in T
    BY <1>1
  <1>3. PICK F : F = [p \in Nat \X T |->
                        IF LiveAt(p[1] + 1)
                        THEN Place(p[2], HashKey(entries[p[1] + 1].key), p[1] + 1)
                        ELSE p[2]]
    OBVIOUS
  <1>4. F \in [Nat \X T -> T]
    <2>1. ASSUME NEW p \in Nat \X T PROVE F[p] \in T
      <3>1. p[1] + 1 \in Nat /\ p[2] \in T
        OBVIOUS
      <3>2. Place(p[2], HashKey(entries[p[1] + 1].key), p[1] + 1) \in T
        BY <3>1, PlaceType
      <3> HIDE DEF T
      <3>3. F[p] = IF LiveAt(p[1] + 1)
                   THEN Place(p[2], HashKey(entries[p[1] + 1].key), p[1] + 1)
                   ELSE p[2]
        BY <1>3, Zenon
      <3> QED BY <3>1, <3>2, <3>3
    <2> HIDE DEF T
    <2>2. F = [p \in Nat \X T |-> F[p]]
      BY <1>3, Zenon
    <2>3. PICK G : G = F
      OBVIOUS
    <2>4. G = [p \in Nat \X T |-> F[p]]
      BY <2>2, <2>3
    <2>5. G \in [Nat \X T -> T]
      BY <2>1, <2>4
    <2> QED BY <2>3, <2>5
  <1> HIDE DEF T
  <1>5. Len(entries) \in Nat
    BY DEF Types
  <1>6. \E f : Recurs(f, T, empty, F, Len(entries))
    BY <1>2, <1>4, <1>5, Recursion
  <1>7. PICK g : Recurs(g, T, empty, F, Len(entries))
    BY <1>6
  <1>8. g \in [0 .. Len(entries) -> T]
    BY <1>7 DEF Recurs
  <1>9. g = [s \in 0 .. Len(entries) |->
               IF s = 0 THEN empty
               ELSE IF LiveAt(s) THEN Place(g[s - 1], HashKey(entries[s].key), s)
               ELSE g[s - 1]]
    <2>1. Unfolds(g, empty, F, Len(entries))
      BY <1>5, <1>7, Unfold
    <2>2. ASSUME NEW s \in 0 .. Len(entries)
          PROVE  g[s] = IF s = 0 THEN empty
                        ELSE IF LiveAt(s) THEN Place(g[s - 1], HashKey(entries[s].key), s)
                        ELSE g[s - 1]
      <3>1. g[s] = IF s = 0 THEN empty ELSE F[<<s - 1, g[s - 1]>>]
        BY <2>1 DEF Unfolds
      <3>2. CASE s = 0
        BY <3>1, <3>2
      <3>3. CASE s # 0
        <4>1. /\ <<s - 1, g[s - 1]>> \in Nat \X T /\ (s - 1) + 1 = s
              /\ <<s - 1, g[s - 1]>>[1] = s - 1 /\ <<s - 1, g[s - 1]>>[2] = g[s - 1]
          BY <1>5, <1>8, <3>3
        <4>2. F[<<s - 1, g[s - 1]>>] =
                IF LiveAt((s - 1) + 1)
                THEN Place(g[s - 1], HashKey(entries[(s - 1) + 1].key), (s - 1) + 1)
                ELSE g[s - 1]
          BY <1>3, <4>1
        <4> QED BY <3>1, <3>3, <4>1, <4>2
      <3> QED BY <3>2, <3>3
    <2>3. g = [s \in 0 .. Len(entries) |-> g[s]]
      BY <1>8
    <2> QED BY <2>2, <2>3, Zenon
  <1>10. PICK B : /\ B = CHOOSE f : f = [s \in 0 .. Len(entries) |->
                       IF s = 0 THEN empty
                       ELSE IF LiveAt(s) THEN Place(f[s - 1], HashKey(entries[s].key), s)
                       ELSE f[s - 1]]
                  /\ Reindexed = B[Len(entries)]
    BY <1>1, Zenon DEF Reindexed
  <1>11. B = [s \in 0 .. Len(entries) |->
                IF s = 0 THEN empty
                ELSE IF LiveAt(s) THEN Place(B[s - 1], HashKey(entries[s].key), s)
                ELSE B[s - 1]]
    BY <1>9, <1>10, Zenon
  <1>12. \A s \in 0 .. Len(entries) :
           B[s] = IF s = 0 THEN empty
                  ELSE IF LiveAt(s) THEN Place(B[s - 1], HashKey(entries[s].key), s)
                  ELSE B[s - 1]
    BY <1>11, Zenon
  <1>13. B[0] = empty
    <2>1. 0 \in 0 .. Len(entries)
      BY <1>5
    <2> QED BY <1>12, <2>1, Zenon
  <1>14. ASSUME NEW s \in 1 .. Len(entries)
         PROVE  /\ LiveAt(s) => B[s] = Place(B[s - 1], HashKey(entries[s].key), s)
                /\ ~LiveAt(s) => B[s] = B[s - 1]
    <2>1. s \in 0 .. Len(entries) /\ s # 0
      BY <1>5
    <2> QED BY <1>12, <2>1, Zenon
  <1>15. Reindexed = B[Len(entries)]
    BY <1>10
  <1>16. ReindexRuns(B, n)
    BY <1>1, <1>13, <1>14, <1>15, Zenon DEF ReindexRuns
  <1> QED BY <1>16

\* reindex leaves an index that finds every live slot.
LEMMA ReindexedIndexes ==
  ASSUME Types
  PROVE  \E n \in Nat : Indexes(Reindexed, n)
  <1>1. PICK n : n = BucketCountFor(cap)
    OBVIOUS
  <1>2. n \in Nat \ {0} /\ n >= cap * 2
    <2>1. cap * 2 \in Nat /\ MinBuckets \in Nat \ {0}
      BY SizesAssumption DEF Types
    <2>2. Doubled(MinBuckets, cap * 2) \in Nat \ {0} /\ Doubled(MinBuckets, cap * 2) >= cap * 2
      BY <2>1, DoubledReaches
    <2> QED BY <1>1, <2>2 DEF BucketCountFor, BucketsPerSlot
  <1>3. cap \in Nat /\ Len(entries) \in Nat /\ Len(entries) <= cap
    BY DEF Types
  <1>4. PICK B : ReindexRuns(B, n)
    BY <1>1, <1>2, ReindexPrefixes
  <1> DEFINE Good == {s \in Nat : s \in 0 .. Len(entries) =>
                        /\ Spread(B[s], n, s)
                        /\ \A t \in 1 .. s :
                             LiveAt(t) => Leads(B[s], n, HashKey(entries[t].key), t)}
  <1>5. 0 \in Good
    <2>1. B[0] = [b \in 0 .. n - 1 |-> 0]
      BY <1>4 DEF ReindexRuns
    <2>2. Spread(B[0], n, 0)
      BY <2>1 DEF Spread
    <2>3. 1 .. 0 = {}
      OBVIOUS
    <2> QED BY <2>2, <2>3
  <1>6. ASSUME NEW m \in Nat, m \in Good PROVE m + 1 \in Good
    <2> SUFFICES ASSUME m + 1 \in 0 .. Len(entries)
                 PROVE  /\ Spread(B[m + 1], n, m + 1)
                        /\ \A t \in 1 .. m + 1 :
                             LiveAt(t) => Leads(B[m + 1], n, HashKey(entries[t].key), t)
      OBVIOUS
    <2>1. m \in 0 .. Len(entries) /\ m + 1 \in 1 .. Len(entries) /\ (m + 1) - 1 = m /\ m < n
      BY <1>2, <1>3
    <2>2. /\ Spread(B[m], n, m)
          /\ \A t \in 1 .. m : LiveAt(t) => Leads(B[m], n, HashKey(entries[t].key), t)
      BY <1>6, <2>1
    <2> HIDE DEF Good
    <2>3. ASSUME NEW t \in 1 .. m + 1, LiveAt(t) PROVE HashKey(entries[t].key) \in Nat
      <3>1. entries[t] \in Entry /\ entries[t].key # Hole
        BY <2>1, <2>3 DEF LiveAt, Types
      <3>2. entries[t].key \in Keys
        BY <3>1, LiveEntries
      <3> QED BY <3>2, HashNat
    <2>4. CASE LiveAt(m + 1)
      <3>1. PICK h : h = HashKey(entries[m + 1].key)
        OBVIOUS
      <3>2. h \in Nat
        BY <2>3, <2>4, <3>1
      <3>3. B[m + 1] = Place(B[m], h, m + 1)
        BY <1>4, <2>1, <2>4, <3>1 DEF ReindexRuns
      <3>4. /\ Spread(B[m + 1], n, m + 1)
            /\ Leads(B[m + 1], n, h, m + 1)
            /\ \A g \in Nat, t \in Nat \ {0} : Leads(B[m], n, g, t) => Leads(B[m + 1], n, g, t)
        <4>1. PICK p, b, s : p = B[m + 1] /\ b = B[m] /\ s = m + 1
          OBVIOUS
        <4>2. Spread(b, n, m) /\ m < n /\ s \in Nat /\ m < s /\ p = Place(b, h, s)
          BY <2>1, <2>2, <3>3, <4>1
        <4>3. /\ Spread(p, n, s)
              /\ Leads(p, n, h, s)
              /\ \A g \in Nat, t \in Nat \ {0} : Leads(b, n, g, t) => Leads(p, n, g, t)
          BY <1>2, <3>2, <4>2, PlaceLeads
        <4> QED BY <4>1, <4>3
      <3>5. ASSUME NEW t \in 1 .. m + 1, LiveAt(t)
            PROVE  Leads(B[m + 1], n, HashKey(entries[t].key), t)
        <4>1. CASE t = m + 1
          BY <3>1, <3>4, <4>1
        <4>2. CASE t # m + 1
          <5>1. t \in 1 .. m /\ t \in Nat \ {0}
            BY <4>2
          <5>2. Leads(B[m], n, HashKey(entries[t].key), t)
            BY <2>2, <3>5, <5>1
          <5>3. HashKey(entries[t].key) \in Nat
            BY <2>3, <3>5
          <5> QED BY <3>4, <5>1, <5>2, <5>3
        <4> QED BY <4>1, <4>2
      <3> QED BY <3>4, <3>5
    <2>5. CASE ~LiveAt(m + 1)
      <3>1. B[m + 1] = B[m]
        BY <1>4, <2>1, <2>5 DEF ReindexRuns
      <3>2. Spread(B[m + 1], n, m + 1)
        BY <1>2, <2>2, <3>1, SpreadMore
      <3>3. ASSUME NEW t \in 1 .. m + 1, LiveAt(t)
            PROVE  Leads(B[m + 1], n, HashKey(entries[t].key), t)
        <4>1. t \in 1 .. m
          BY <2>5, <3>3
        <4> QED BY <2>2, <3>1, <3>3, <4>1
      <3> QED BY <3>2, <3>3
    <2> QED BY <2>4, <2>5
  <1> HIDE DEF Good
  <1>7. Nat \subseteq Good
    BY <1>5, <1>6, Induct
  <1>8. /\ Spread(Reindexed, n, Len(entries))
        /\ \A t \in 1 .. Len(entries) :
             LiveAt(t) => Leads(Reindexed, n, HashKey(entries[t].key), t)
    <2>1. Reindexed = B[Len(entries)]
      BY <1>4 DEF ReindexRuns
    <2>2. Len(entries) \in Good /\ Len(entries) \in 0 .. Len(entries)
      BY <1>3, <1>7
    <2> QED BY <2>1, <2>2 DEF Good
  <1>9. \A t \in 1 .. Len(entries) : entries[t].key # Hole => LiveAt(t)
    BY DEF LiveAt
  <1>10. Indexes(Reindexed, n)
    BY <1>2, <1>3, <1>8, <1>9 DEF Indexes
  <1> QED BY <1>2, <1>10

\* What a probe returns: the first bucket of the sequence that is empty or
\* holds the key.
ProbeStop(k, n, d) ==
  /\ d \in 0 .. n - 1
  /\ Probe(k) = buckets[(HashKey(k) + d) % n]
  /\ \/ Probe(k) = 0
     \/ LiveAt(Probe(k)) /\ entries[Probe(k)].key = k
  /\ \A e \in 0 .. d - 1 :
       LET s == buckets[(HashKey(k) + e) % n]
       IN  s # 0 /\ ~(LiveAt(s) /\ entries[s].key = k)

\* A probe stops when the index has an empty bucket.
LEMMA ProbeStops ==
  ASSUME Types, NEW n, Indexes(buckets, n), NEW k \in Keys
  PROVE  \E d : ProbeStop(k, n, d)
  <1>1. PICK h, m : h = HashKey(k) /\ m = Len(entries)
    OBVIOUS
  <1>2. h \in Nat
    BY <1>1, HashNat
  <1>3. n \in Nat \ {0} /\ m \in Nat /\ m < n /\ Spread(buckets, n, m)
    BY <1>1 DEF Indexes, Types
  <1>4. PICK x \in 0 .. n - 1 : buckets[x] = 0
    BY <1>3, Vacancy
  <1>5. PICK c \in 0 .. n - 1 : (h + c) % n = x
    BY <1>2, <1>3, Reaches
  <1>6. Cardinality(DOMAIN buckets) = n
    <2>1. buckets \in [0 .. n - 1 -> 0 .. m]
      BY <1>3 DEF Spread
    <2> QED BY <1>3, <2>1, CountOfBuckets
  <1> DEFINE Stop(s) == s = 0 \/ (LiveAt(s) /\ entries[s].key = k)
  <1>7. PICK S : S = {d \in 0 .. n - 1 : Stop(buckets[(h + d) % n])}
    OBVIOUS
  <1>8. S \in SUBSET Nat /\ c \in S
    BY <1>4, <1>5, <1>7
  <1>9. PICK d : d = Min(S)
    OBVIOUS
  <1>10. d \in S /\ \A y \in S : d <= y
    BY <1>8, <1>9, MinIsLeast
  <1>11. Probe(k) = buckets[(h + d) % n]
    <2>1. Probe(k) = buckets[(h + Min({e \in 0 .. n - 1 : Stop(buckets[(h + e) % n])})) % n]
      BY <1>1, <1>6, Zenon DEF Probe, ProbeAt, BucketCount
    <2> QED BY <1>7, <1>9, <2>1
  <1>12. d \in 0 .. n - 1 /\ Stop(Probe(k))
    BY <1>7, <1>10, <1>11
  <1>13. ASSUME NEW e \in 0 .. d - 1 PROVE ~Stop(buckets[(h + e) % n])
    <2>1. e \in 0 .. n - 1 /\ e < d
      BY <1>3, <1>12
    <2>2. e \notin S
      BY <1>10, <1>12, <2>1
    <2> QED BY <1>7, <2>1, <2>2
  <1>14. ProbeStop(k, n, d)
    BY <1>1, <1>11, <1>12, <1>13 DEF ProbeStop
  <1> QED BY <1>14

\* find is right whatever happened before: a probe returns the slot of a key
\* that is there and misses one that is not.
LEMMA ProbeFinds ==
  ASSUME Types, Distinct(entries), NEW n, Indexes(buckets, n), NEW k \in Keys
  PROVE  /\ k \in LiveKeys <=> Probe(k) # 0
         /\ Probe(k) # 0 => /\ Probe(k) \in 1 .. Len(entries)
                            /\ entries[Probe(k)].key = k
  <1>1. PICK d : ProbeStop(k, n, d)
    BY ProbeStops
  <1>2. PICK h, r : h = HashKey(k) /\ r = Probe(k)
    OBVIOUS
  <1>3. /\ d \in 0 .. n - 1 /\ r = buckets[(h + d) % n]
        /\ r = 0 \/ (LiveAt(r) /\ entries[r].key = k)
        /\ \A e \in 0 .. d - 1 :
             /\ buckets[(h + e) % n] # 0
             /\ ~(LiveAt(buckets[(h + e) % n]) /\ entries[buckets[(h + e) % n]].key = k)
    BY <1>1, <1>2 DEF ProbeStop
  <1>4. r # 0 => r \in 1 .. Len(entries) /\ entries[r].key = k /\ k \in LiveKeys
    BY <1>3 DEF LiveAt, LiveKeys, LiveSlots
  <1>5. ASSUME k \in LiveKeys PROVE r # 0
    <2>1. PICK s \in 1 .. Len(entries) : entries[s].key = k /\ k # Hole
      BY <1>5 DEF LiveKeys, LiveSlots, LiveAt
    <2>2. Leads(buckets, n, h, s)
      BY <1>2, <2>1 DEF Indexes
    <2>3. PICK c \in 0 .. n - 1 : /\ buckets[(h + c) % n] = s
                                  /\ \A e \in 0 .. c - 1 : buckets[(h + e) % n] # 0
      BY <2>2 DEF Leads
    <2>4. LiveAt(s)
      BY <2>1 DEF LiveAt
    <2>5. n \in Nat \ {0}
      BY DEF Indexes
    <2>6. ~(c \in 0 .. d - 1)
      BY <1>3, <2>1, <2>3, <2>4
    <2>7. d = c \/ d \in 0 .. c - 1
      BY <1>3, <2>3, <2>5, <2>6
    <2>8. s # 0
      OBVIOUS
    <2> QED BY <1>3, <2>3, <2>7, <2>8
  <1> QED BY <1>2, <1>4, <1>5

-----------------------------------------------------------------------------
(* The views of the table as functions of its parts, so that a step can be   *)
(* followed from the parts before it to the parts after it                   *)

SlotsOf(es) == {m \in 1 .. Len(es) : es[m].key # Hole}
KeysIn(es) == {es[m].key : m \in SlotsOf(es)}
HashIn(a, k) == IF k \in Objects THEN a[k] ELSE StringHash
Covers(b, n, es, c, a) ==
  /\ n \in Nat \ {0} /\ 2 * c <= n
  /\ Spread(b, n, Len(es))
  /\ \A s \in 1 .. Len(es) :
       es[s].key # Hole => Leads(b, n, HashIn(a, es[s].key), s)

\* The live slots, the live keys and the index before a step.
LEMMA Views ==
  /\ LiveSlots = SlotsOf(entries) /\ LiveKeys = KeysIn(entries)
  /\ \A b, n : Indexes(b, n) <=> Covers(b, n, entries, cap, addr)
  BY DEF LiveSlots, LiveKeys, LiveAt, SlotsOf, KeysIn, Indexes, Covers, HashKey, HashIn

\* The live slots, the live keys and the index after a step.
LEMMA ViewsAfter ==
  /\ LiveSlots' = SlotsOf(entries') /\ LiveKeys' = KeysIn(entries')
  /\ (\E n \in Nat : Indexes(buckets, n))' <=> \E n \in Nat : Covers(buckets', n, entries', cap', addr')
  BY DEF LiveSlots, LiveKeys, LiveAt, SlotsOf, KeysIn, Indexes, Covers, HashKey, HashIn

\* The slots of a list.
LEMMA SlotsFinite ==
  ASSUME NEW es \in Seq(Entry)
  PROVE  /\ IsFiniteSet(SlotsOf(es)) /\ Cardinality(SlotsOf(es)) \in Nat
         /\ Cardinality(SlotsOf(es)) = 0 => KeysIn(es) = {}
         /\ KeysIn(es) \subseteq Keys
  <1>1. IsFiniteSet(1 .. Len(es))
    BY FS_Interval
  <1>2. IsFiniteSet(SlotsOf(es))
    BY <1>1, FS_Subset DEF SlotsOf
  <1>3. Cardinality(SlotsOf(es)) \in Nat
    BY <1>2, FS_CardinalityType
  <1>4. Cardinality(SlotsOf(es)) = 0 => SlotsOf(es) = {}
    BY <1>2, FS_EmptySet
  <1>5. \A m \in 1 .. Len(es) : es[m].key # Hole => es[m].key \in Keys
    BY LiveEntries
  <1> QED BY <1>2, <1>3, <1>4, <1>5 DEF KeysIn, SlotsOf

\* fs has the entries of es, but for values and for tombstones in place of some.
Thinner(es, fs) ==
  /\ Len(fs) = Len(es)
  /\ \A s \in 1 .. Len(es) : fs[s].key # Hole => fs[s].key = es[s].key

\* A list with fewer live entries: keys stay distinct, counts do not grow, and
\* an index still covers it if the hashes of the keys left are the same.
LEMMA ThinnerKeeps ==
  ASSUME NEW es \in Seq(Entry), NEW fs \in Seq(Entry), Thinner(es, fs)
  PROVE  /\ Distinct(es) => Distinct(fs)
         /\ Cardinality(SlotsOf(fs)) <= Cardinality(SlotsOf(es))
         /\ KeysIn(fs) \subseteq KeysIn(es)
         /\ \A b, n, c, a, z :
              /\ Covers(b, n, es, c, a)
              /\ \A k \in KeysIn(fs) : HashIn(z, k) = HashIn(a, k)
              => Covers(b, n, fs, c, z)
  <1>1. Distinct(es) => Distinct(fs)
    BY DEF Distinct, Thinner
  <1>2. SlotsOf(fs) \subseteq SlotsOf(es)
    BY DEF SlotsOf, Thinner
  <1>3. IsFiniteSet(SlotsOf(es))
    BY SlotsFinite
  <1>4. Cardinality(SlotsOf(fs)) <= Cardinality(SlotsOf(es))
    BY <1>2, <1>3, FS_Subset
  <1>5. KeysIn(fs) \subseteq KeysIn(es)
    BY DEF KeysIn, SlotsOf, Thinner
  <1>6. ASSUME NEW b, NEW n, NEW c, NEW a, NEW z, Covers(b, n, es, c, a),
               \A k \in KeysIn(fs) : HashIn(z, k) = HashIn(a, k)
        PROVE  Covers(b, n, fs, c, z)
    <2>1. Len(fs) = Len(es)
      BY DEF Thinner
    <2>2. ASSUME NEW s \in 1 .. Len(fs), fs[s].key # Hole
          PROVE  Leads(b, n, HashIn(z, fs[s].key), s)
      <3>1. fs[s].key = es[s].key /\ s \in 1 .. Len(es)
        BY <2>1, <2>2 DEF Thinner
      <3>2. fs[s].key \in KeysIn(fs)
        BY <2>2 DEF KeysIn, SlotsOf
      <3>3. Leads(b, n, HashIn(a, es[s].key), s)
        BY <1>6, <2>2, <3>1 DEF Covers
      <3>4. HashIn(z, fs[s].key) = HashIn(a, es[s].key)
        BY <1>6, <3>1, <3>2
      <3> QED BY <3>3, <3>4
    <2> QED BY <1>6, <2>1, <2>2 DEF Covers
  <1> QED BY <1>1, <1>4, <1>5, <1>6

\* A list with an entry for a new key at its end.
LEMMA LongerKeeps ==
  ASSUME NEW es \in Seq(Entry), NEW e \in Live, e.key \notin KeysIn(es),
         NEW fs, fs = Append(es, e)
  PROVE  /\ fs \in Seq(Entry) /\ Len(fs) = Len(es) + 1
         /\ Distinct(es) => Distinct(fs)
         /\ Cardinality(SlotsOf(fs)) = Cardinality(SlotsOf(es)) + 1
         /\ KeysIn(fs) = KeysIn(es) \union {e.key}
  <1>0. e \in Entry
    BY DEF Entry
  <1>1. /\ fs \in Seq(Entry) /\ Len(fs) = Len(es) + 1 /\ fs[Len(es) + 1] = e
        /\ \A s \in 1 .. Len(es) : fs[s] = es[s]
    BY <1>0
  <1>2. e.key # Hole
    BY <1>0, LiveEntries
  <1>3. SlotsOf(fs) = SlotsOf(es) \union {Len(es) + 1} /\ Len(es) + 1 \notin SlotsOf(es)
    BY <1>1, <1>2 DEF SlotsOf
  <1>4. Cardinality(SlotsOf(fs)) = Cardinality(SlotsOf(es)) + 1
    BY <1>3, SlotsFinite, FS_AddElement
  <1>5. KeysIn(fs) = KeysIn(es) \union {e.key}
    <2>1. \A s \in SlotsOf(es) : fs[s] = es[s]
      BY <1>1 DEF SlotsOf
    <2>2. ASSUME NEW k \in KeysIn(fs) PROVE k \in KeysIn(es) \union {e.key}
      <3>1. PICK m \in SlotsOf(fs) : k = fs[m].key
        BY DEF KeysIn
      <3>2. CASE m = Len(es) + 1
        BY <1>1, <3>1, <3>2
      <3>3. CASE m # Len(es) + 1
        <4>1. m \in SlotsOf(es)
          BY <1>3, <3>3
        <4> QED BY <2>1, <3>1, <4>1 DEF KeysIn
      <3> QED BY <3>2, <3>3
    <2>3. ASSUME NEW k \in KeysIn(es) PROVE k \in KeysIn(fs)
      <3>1. PICK m \in SlotsOf(es) : k = es[m].key
        BY DEF KeysIn
      <3>2. m \in SlotsOf(fs) /\ k = fs[m].key
        BY <1>3, <2>1, <3>1
      <3> QED BY <3>2 DEF KeysIn
    <2>4. e.key \in KeysIn(fs)
      <3>1. Len(es) + 1 \in SlotsOf(fs) /\ fs[Len(es) + 1].key = e.key
        BY <1>1, <1>3
      <3> QED BY <3>1 DEF KeysIn
    <2> QED BY <2>2, <2>3, <2>4
  <1>6. ASSUME Distinct(es) PROVE Distinct(fs)
    <2> SUFFICES ASSUME NEW s \in 1 .. Len(fs), NEW t \in 1 .. Len(fs),
                        fs[s].key # Hole, fs[s].key = fs[t].key
                 PROVE  s = t
      BY DEF Distinct
    <2>1. \A m \in 1 .. Len(es) : fs[m].key # e.key
      BY <1>1, <1>2 DEF KeysIn, SlotsOf
    <2>2. CASE s = Len(es) + 1
      BY <1>1, <2>1, <2>2
    <2>3. CASE t = Len(es) + 1
      BY <1>1, <2>1, <2>3
    <2>4. CASE s # Len(es) + 1 /\ t # Len(es) + 1
      <3>1. s \in 1 .. Len(es) /\ t \in 1 .. Len(es)
        BY <1>1, <2>4
      <3> QED BY <1>1, <1>6, <3>1 DEF Distinct
    <2> QED BY <2>2, <2>3, <2>4
  <1> QED BY <1>1, <1>4, <1>5, <1>6

\* The index covers the list with its new slot placed.
LEMMA CoversPlaced ==
  ASSUME NEW es \in Seq(Entry), NEW e \in Live, NEW fs, fs = Append(es, e),
         NEW c \in Nat, Len(es) < c, NEW a \in [Objects -> Addrs],
         NEW b, NEW n, Covers(b, n, es, c, a),
         NEW p, p = Place(b, HashIn(a, e.key), Len(es) + 1)
  PROVE  Covers(p, n, fs, c, a)
  <1>0. e \in Entry
    BY DEF Entry
  <1>1. /\ fs \in Seq(Entry) /\ Len(fs) = Len(es) + 1 /\ fs[Len(es) + 1] = e
        /\ \A s \in 1 .. Len(es) : fs[s] = es[s]
    BY <1>0
  <1>2. PICK h, m, s : h = HashIn(a, e.key) /\ m = Len(es) /\ s = Len(es) + 1
    OBVIOUS
  <1>3. \A k \in Keys : HashIn(a, k) \in Nat
    BY SizesAssumption DEF HashIn, Keys
  <1>4. e.key \in Keys
    BY <1>0, LiveEntries
  <1>5. h \in Nat /\ m \in Nat /\ s \in Nat /\ m < s /\ p = Place(b, h, s)
    BY <1>2, <1>3, <1>4
  <1>6. n \in Nat \ {0} /\ 2 * c <= n /\ m < n /\ Spread(b, n, m)
    BY <1>2 DEF Covers
  <1>7. /\ Spread(p, n, s)
        /\ Leads(p, n, h, s)
        /\ \A g \in Nat, t \in Nat \ {0} : Leads(b, n, g, t) => Leads(p, n, g, t)
    BY <1>5, <1>6, PlaceLeads
  <1>8. ASSUME NEW t \in 1 .. Len(fs), fs[t].key # Hole
        PROVE  Leads(p, n, HashIn(a, fs[t].key), t)
    <2>1. CASE t = s
      BY <1>1, <1>2, <1>7, <2>1
    <2>2. CASE t # s
      <3>1. t \in 1 .. Len(es) /\ fs[t] = es[t] /\ t \in Nat \ {0}
        BY <1>1, <1>2, <2>2
      <3>2. es[t].key \in Keys
        BY <1>8, <3>1, LiveEntries
      <3>3. Leads(b, n, HashIn(a, es[t].key), t)
        BY <1>8, <3>1 DEF Covers
      <3>4. HashIn(a, es[t].key) \in Nat
        BY <1>3, <3>2
      <3> QED BY <1>7, <3>1, <3>3, <3>4
    <2> QED BY <2>1, <2>2
  <1> QED BY <1>1, <1>2, <1>6, <1>7, <1>8 DEF Covers

-----------------------------------------------------------------------------
(* Steps that leave the table and the heap alone *)

\* They keep what is known of the list and of the index.
LEMMA QuietTable ==
  ASSUME UNCHANGED <<table, heap>>, ListInv, IndexInv, op.pc # "index" \/ op'.pc = "index"
  PROVE  /\ ListInv' /\ IndexInv'
         /\ LiveSlots' = LiveSlots /\ LiveKeys' = LiveKeys
         /\ IndexValid' <=> IndexValid
  <1>1. /\ entries' = entries /\ cap' = cap /\ buckets' = buckets /\ liveCount' = liveCount
        /\ indexEpoch' = indexEpoch /\ indexAnchor' = indexAnchor
        /\ addr' = addr /\ young' = young /\ mapAddr' = mapAddr /\ epoch' = epoch
    BY DEF table, heap
  <1>2. LiveSlots' = LiveSlots /\ LiveKeys' = LiveKeys
    BY <1>1, Views, ViewsAfter
  <1>3. ListInv'
    BY <1>1, <1>2 DEF ListInv
  <1>4. IndexValid' <=> IndexValid
    BY <1>1 DEF IndexValid
  <1>5. (\E n \in Nat : Indexes(buckets, n))' <=> \E n \in Nat : Indexes(buckets, n)
    BY <1>1, Views, ViewsAfter
  <1>6. IndexInv'
    BY <1>1, <1>2, <1>5 DEF IndexInv, Usable
  <1> QED BY <1>2, <1>3, <1>4, <1>6

\* Steps that leave the list, the program's keys and the iterators alone.
LEMMA QuietWalks ==
  ASSUME UNCHANGED <<entries, weak, held, iter, given>>, WalkInv, NeverGivenTwice
  PROVE  WalkInv' /\ NeverGivenTwice'
  <1>1. LiveSlots' = LiveSlots /\ LiveKeys' = LiveKeys
    BY Views, ViewsAfter
  <1> QED BY <1>1 DEF WalkInv, NeverGivenTwice

\* The index an operation relies on is there.
LEMMA IndexThere ==
  ASSUME Inv, op.pc \in {"probe", "insert"}
  PROVE  \E n : Indexes(buckets, n)
  <1>1. IndexValid
    BY DEF Inv, OpInv
  <1>2. Usable /\ op.pc # "index"
    BY <1>1 DEF IndexValid, Usable
  <1> QED BY <1>2 DEF Inv, IndexInv

\* The operation after EnsureIndex.
LEMMA EnsureIndexIs ==
  ASSUME NEW o \in Op, NEW then \in {"probe", "insert"}, NEW q, q = EnsureIndex(o, then)
  PROVE  /\ q \in Op /\ q.then = then /\ q.pc \in {then, "index"}
         /\ q.pc = then => IndexValid
         /\ q.name = o.name /\ q.key = o.key /\ q.val = o.val /\ q.res = o.res
  BY DEF EnsureIndex, Op, Pcs

\* The operation once it is done.
LEMMA DoneIs ==
  ASSUME NEW o \in Op, NEW res \in Answers, NEW q, q = Done(o, res)
  PROVE  /\ q \in Op /\ q.pc = "done" /\ q.then = "none" /\ q.res = res
         /\ q.name = o.name /\ q.key = o.key /\ q.val = o.val
  BY DEF Done, Op, Pcs

\* Call: find begins.
LEMMA CallKeeps ==
  ASSUME Inv, NEW name \in {"get", "set", "delete"}, NEW k \in Keys, NEW v \in Vals \union {Absent},
         name = "set" => v \in Vals, Call(name, k, v)
  PROVE  Inv'
  <1>1. op.pc = "idle" /\ k \in held /\ UNCHANGED <<table, weak, heap, held, walks>>
    BY DEF Call
  <1>2. ListInv' /\ IndexInv' /\ LiveSlots' = LiveSlots /\ LiveKeys' = LiveKeys
        /\ (IndexValid' <=> IndexValid)
    BY <1>1, QuietTable DEF Inv
  <1>3. WalkInv' /\ NeverGivenTwice'
    BY <1>1, QuietWalks DEF Inv, table, walks
  <1>4. PICK o : o = [Idle EXCEPT !.name = name, !.key = k, !.val = v]
    OBVIOUS
  <1>5. o = [pc |-> "idle", name |-> name, key |-> k, val |-> v,
             cap |-> 0, then |-> "none", res |-> "none"]
    BY <1>4 DEF Idle
  <1>6. o \in Op
    BY <1>5 DEF Op, Pcs, Names, Answers
  <1>7. /\ o.name = name /\ o.key = k /\ o.val = v /\ o.res = "none" /\ o.then = "none"
    BY <1>5
  <1>8. op' = IF liveCount = 0 THEN [o EXCEPT !.pc = "miss"] ELSE EnsureIndex(o, "probe")
    BY <1>4 DEF Call
  <1>9. CASE liveCount = 0
    <2>1. op' = [o EXCEPT !.pc = "miss"]
      BY <1>8, <1>9
    <2>2. op' \in Op /\ op'.pc = "miss" /\ op'.name = name /\ op'.key = k /\ op'.val = v
          /\ op'.res = "none" /\ op'.then = "none"
      BY <1>6, <1>7, <2>1 DEF Op, Pcs
    <2>3. Types'
      BY <1>1, <2>2 DEF Inv, Types, table, heap, walks
    <2>4. LiveKeys = {}
      <3>1. entries \in Seq(Entry)
        BY DEF Inv, Types
      <3>2. Cardinality(SlotsOf(entries)) <= liveCount
        BY Views DEF Inv, ListInv
      <3>3. Cardinality(SlotsOf(entries)) = 0
        BY <1>9, <3>1, <3>2, SlotsFinite
      <3> QED BY <3>1, <3>3, SlotsFinite, Views
    <2>5. OpInv'
      BY <1>1, <1>2, <2>2, <2>4 DEF OpInv, Missing
    <2> QED BY <1>2, <1>3, <2>3, <2>5 DEF Inv
  <1>10. CASE liveCount # 0
    <2>1. op' = EnsureIndex(o, "probe")
      BY <1>8, <1>10
    <2>2. /\ op' \in Op /\ op'.then = "probe" /\ op'.pc \in {"probe", "index"}
          /\ op'.pc = "probe" => IndexValid
          /\ op'.name = name /\ op'.key = k /\ op'.val = v /\ op'.res = "none"
      BY <1>6, <1>7, <2>1, EnsureIndexIs
    <2>3. Types'
      BY <1>1, <2>2 DEF Inv, Types, table, heap, walks
    <2>4. OpInv'
      BY <1>1, <1>2, <2>2 DEF OpInv, Missing
    <2> QED BY <1>2, <1>3, <2>3, <2>4 DEF Inv
  <1> QED BY <1>9, <1>10

\* The key of a miss is not in the table.
LEMMA MissIsMissing ==
  ASSUME Inv, Miss
  PROVE  op.key \notin LiveKeys
  <1>1. CASE op.pc = "miss"
    BY <1>1 DEF Inv, OpInv, Missing
  <1>2. CASE op.pc = "probe" /\ Probe(op.key) = 0
    <2>1. PICK n : Indexes(buckets, n)
      BY <1>2, IndexThere
    <2>2. op.key \in Keys /\ Types /\ Distinct(entries)
      BY <1>2 DEF Inv, OpInv, ListInv
    <2> QED BY <1>2, <2>1, <2>2, ProbeFinds
  <1> QED BY <1>1, <1>2 DEF Miss

\* What follows a miss.
LEMMA AfterMissIs ==
  ASSUME NEW o
  PROVE  /\ o.name = "get" => AfterMiss(o) = Done(o, Absent)
         /\ o.name = "delete" => AfterMiss(o) = Done(o, "false")
         /\ o.name = "set" /\ Len(entries) >= cap =>
              AfterMiss(o) = [o EXCEPT !.pc = "grow", !.cap = NewCapacity(Cardinality(LiveSlots))]
         /\ o.name = "set" /\ ~(Len(entries) >= cap) => AfterMiss(o) = EnsureIndex(o, "insert")
  BY DEF AfterMiss

\* Miss: what the caller of find does with it.
LEMMA MissKeeps ==
  ASSUME Inv, Miss
  PROVE  Inv'
  <1>1. op.pc \in {"miss", "probe"} /\ op' = AfterMiss(op)
        /\ UNCHANGED <<table, weak, heap, held, walks>>
    BY DEF Miss
  <1>2. ListInv' /\ IndexInv' /\ LiveSlots' = LiveSlots /\ LiveKeys' = LiveKeys
        /\ (IndexValid' <=> IndexValid)
    BY <1>1, QuietTable DEF Inv
  <1>3. WalkInv' /\ NeverGivenTwice'
    BY <1>1, QuietWalks DEF Inv, table, walks
  <1>4. op.key \notin LiveKeys
    BY MissIsMissing
  <1>5. /\ op \in Op /\ op.key \in Keys \intersect held /\ op.name # "none" /\ op.res = "none"
        /\ op.name = "set" => op.val \in Vals
    BY <1>1 DEF Inv, Types, OpInv
  <1>6. op.name \in {"get", "set", "delete"}
    BY <1>5 DEF Op, Names
  <1>7. ASSUME op' \in Op PROVE Types'
    BY <1>1, <1>7 DEF Inv, Types, table, heap, walks
  <1>8. ASSUME NEW res \in Answers, res # "none", op' = Done(op, res) PROVE Inv'
    <2>1. /\ op' \in Op /\ op'.pc = "done" /\ op'.then = "none" /\ op'.res = res
          /\ op'.name = op.name /\ op'.key = op.key /\ op'.val = op.val
      BY <1>5, <1>8, DoneIs
    <2>2. OpInv'
      BY <1>1, <1>5, <1>8, <2>1 DEF OpInv, Missing
    <2> QED BY <1>2, <1>3, <1>7, <2>1, <2>2 DEF Inv
  <1>9. CASE op.name = "get"
    <2>1. op' = Done(op, Absent)
      BY <1>1, <1>9, AfterMissIs
    <2>2. Absent \in Answers /\ Absent # "none"
      BY KeysAssumption DEF Answers
    <2> QED BY <1>8, <2>1, <2>2
  <1>10. CASE op.name = "delete"
    <2>1. op' = Done(op, "false")
      BY <1>1, <1>10, AfterMissIs
    <2>2. "false" \in Answers /\ "false" # "none"
      BY DEF Answers
    <2> QED BY <1>8, <2>1, <2>2
  <1>11. CASE op.name = "set" /\ Len(entries) >= cap
    <2>1. PICK c : c = NewCapacity(Cardinality(LiveSlots))
      OBVIOUS
    <2>2. Cardinality(LiveSlots) \in Nat
      BY Views, SlotsFinite DEF Inv, Types
    <2>3. c \in Nat /\ Cardinality(LiveSlots) < c
      <3>1. PICK m : m = Cardinality(LiveSlots)
        OBVIOUS
      <3>2. InitialCapacity \in Nat \ {0} /\ (m + 1) * 2 \in Nat /\ m \in Nat
        BY <2>2, <3>1, SizesAssumption
      <3>3. c \in Nat /\ c >= (m + 1) * 2
        BY <2>1, <3>1, <3>2, DoubledReaches DEF NewCapacity
      <3> QED BY <3>1, <3>2, <3>3
    <2>4. op' = [op EXCEPT !.pc = "grow", !.cap = c]
      BY <1>1, <1>11, <2>1, AfterMissIs
    <2>5. /\ op' \in Op /\ op'.pc = "grow" /\ op'.cap = c /\ op'.name = "set"
          /\ op'.key = op.key /\ op'.val = op.val /\ op'.res = "none"
      BY <1>5, <1>11, <2>3, <2>4 DEF Op, Pcs
    <2>6. OpInv'
      BY <1>1, <1>2, <1>4, <1>5, <1>11, <2>3, <2>5 DEF OpInv, Missing
    <2> QED BY <1>2, <1>3, <1>7, <2>5, <2>6 DEF Inv
  <1>12. CASE op.name = "set" /\ ~(Len(entries) >= cap)
    <2>1. op' = EnsureIndex(op, "insert")
      BY <1>1, <1>12, AfterMissIs
    <2>2. /\ op' \in Op /\ op'.then = "insert" /\ op'.pc \in {"insert", "index"}
          /\ op'.pc = "insert" => IndexValid
          /\ op'.name = "set" /\ op'.key = op.key /\ op'.val = op.val /\ op'.res = "none"
      BY <1>5, <1>12, <2>1, EnsureIndexIs
    <2>3. Len(entries) < cap /\ entries' = entries /\ cap' = cap
      BY <1>1, <1>12 DEF Inv, Types, table
    <2>4. OpInv'
      BY <1>1, <1>2, <1>4, <1>5, <1>12, <2>2, <2>3 DEF OpInv, Missing
    <2> QED BY <1>2, <1>3, <1>7, <2>2, <2>4 DEF Inv
  <1> QED BY <1>6, <1>9, <1>10, <1>11, <1>12

\* Return: the answer is taken.
LEMMA ReturnKeeps ==
  ASSUME Inv, Return
  PROVE  Inv'
  <1>1. op.pc = "done" /\ op' = Idle /\ UNCHANGED <<table, weak, heap, held, walks>>
    BY DEF Return
  <1>2. op' \in Op /\ op'.pc = "idle" /\ op'.name = "none" /\ op'.res = "none"
    BY <1>1 DEF Idle, Op, Pcs, Names, Answers
  <1>3. ListInv' /\ IndexInv'
    BY <1>1, QuietTable DEF Inv
  <1>4. WalkInv' /\ NeverGivenTwice'
    BY <1>1, QuietWalks DEF Inv, table, walks
  <1>5. Types'
    BY <1>1, <1>2 DEF Inv, Types, table, heap, walks
  <1>6. OpInv'
    BY <1>1, <1>2 DEF OpInv, Missing
  <1> QED BY <1>3, <1>4, <1>5, <1>6 DEF Inv

\* An idle operation relies on nothing.
LEMMA IdleKeeps ==
  ASSUME OpInv, op.pc = "idle", op' = op
  PROVE  OpInv'
  <1>1. op = Idle
    BY DEF OpInv
  <1>2. op'.pc = "idle" /\ op' = Idle /\ op'.name = "none" /\ op'.res = "none"
    BY <1>1 DEF Idle
  <1> QED BY <1>2 DEF OpInv, Missing

\* Forget: the program drops a key of a weak table.
LEMMA ForgetKeeps ==
  ASSUME Inv, NEW k \in Keys, Forget(k)
  PROVE  Inv'
  <1>1. op.pc = "idle" /\ weak /\ held' = held \ {k} /\ UNCHANGED <<table, weak, heap, op, walks>>
    BY DEF Forget
  <1>2. ListInv' /\ IndexInv' /\ LiveKeys' = LiveKeys /\ LiveSlots' = LiveSlots
    BY <1>1, QuietTable DEF Inv
  <1>3. OpInv'
    BY <1>1, IdleKeeps DEF Inv
  <1>4. Types'
    BY <1>1 DEF Inv, Types, table, heap, walks
  <1>5. WalkInv'
    BY <1>1, <1>2 DEF Inv, WalkInv, walks
  <1>6. NeverGivenTwice'
    BY <1>1, <1>2 DEF Inv, NeverGivenTwice, walks, table
  <1> QED BY <1>2, <1>3, <1>4, <1>5, <1>6 DEF Inv

\* A new iterator has given nothing.
LEMMA MakeIteratorKeeps ==
  ASSUME Inv, NEW i \in Iters, MakeIterator(i)
  PROVE  Inv'
  <1>1. /\ op.pc = "idle" /\ ~weak /\ iter[i].st = "unmade"
        /\ iter' = [iter EXCEPT ![i].st = "open"] /\ owed' = [owed EXCEPT ![i] = LiveKeys]
        /\ UNCHANGED <<table, weak, heap, held, op, given>>
    BY DEF MakeIterator
  <1>2. ListInv' /\ IndexInv' /\ LiveKeys' = LiveKeys /\ LiveSlots' = LiveSlots
    BY <1>1, QuietTable DEF Inv
  <1>3. OpInv'
    BY <1>1, IdleKeeps DEF Inv
  <1>4. LiveKeys \subseteq Keys
    BY Views, SlotsFinite DEF Inv, Types
  <1>5. iter \in [Iters -> Iter]
    BY DEF Inv, Types
  <1>6. iter' \in [Iters -> Iter] /\ \A j \in Iters : j # i => iter'[j] = iter[j]
    BY <1>1, <1>5 DEF Iter
  <1>7. Types'
    BY <1>1, <1>4, <1>6 DEF Inv, Types, table, heap
  <1>8. given[i] = {}
    BY <1>1 DEF Inv, WalkInv
  <1>9. WalkInv'
    BY <1>1, <1>2, <1>6, <1>8 DEF Inv, WalkInv
  <1>10. NeverGivenTwice'
    <2> SUFFICES ASSUME NEW j \in Iters, NEW s \in LiveSlots', iter'[j].st = "open",
                        entries'[s].key \in given'[j]
                 PROVE  s <= iter'[j].at
      BY DEF NeverGivenTwice
    <2>1. j # i
      BY <1>1, <1>8
    <2> QED BY <1>1, <1>2, <1>6, <2>1 DEF Inv, NeverGivenTwice, table
  <1> QED BY <1>2, <1>3, <1>7, <1>9, <1>10 DEF Inv

\* An iterator gives the next live slot and stands on it.
LEMMA IteratorStepKeeps ==
  ASSUME Inv, NEW i \in Iters, IteratorStep(i)
  PROVE  Inv'
  <1>1. PICK s, k :
          /\ op.pc = "idle" /\ iter[i].st = "open" /\ Ahead(i) # {}
          /\ s = Min(Ahead(i)) /\ k = entries[s].key
          /\ iter' = [iter EXCEPT ![i].at = s]
          /\ owed' = [owed EXCEPT ![i] = @ \ {k}]
          /\ given' = [given EXCEPT ![i] = @ \union {k}]
          /\ UNCHANGED <<table, weak, heap, held, op>>
    BY DEF IteratorStep, Past
  <1>2. ListInv' /\ IndexInv' /\ LiveKeys' = LiveKeys /\ LiveSlots' = LiveSlots /\ entries' = entries
    BY <1>1, QuietTable DEF Inv, table
  <1>3. OpInv'
    BY <1>1, IdleKeeps DEF Inv
  <1>4. /\ entries \in Seq(Entry) /\ iter \in [Iters -> Iter]
        /\ given \in [Iters -> SUBSET Keys] /\ owed \in [Iters -> SUBSET Keys]
        /\ Distinct(entries)
    BY DEF Inv, Types, ListInv
  <1>5. Ahead(i) \in SUBSET Nat
    BY <1>4 DEF Ahead, LiveSlots
  <1>6. s \in LiveSlots /\ s > iter[i].at /\ s \in Nat
    <2>1. s \in Ahead(i)
      BY <1>1, <1>5, MinIsLeast
    <2> QED BY <1>5, <2>1 DEF Ahead
  <1>7. k \in LiveKeys /\ k \in Keys /\ k # Hole
    <2>1. k \in LiveKeys /\ k # Hole
      BY <1>1, <1>6 DEF LiveKeys, LiveSlots, LiveAt
    <2> QED BY <1>4, <2>1, Views, SlotsFinite
  <1>8. /\ iter' \in [Iters -> Iter]
        /\ iter'[i].at = s /\ iter'[i].st = "open"
        /\ \A j \in Iters : j # i => iter'[j] = iter[j]
    BY <1>1, <1>4, <1>6 DEF Iter
  <1>9. /\ given' \in [Iters -> SUBSET Keys] /\ given'[i] = given[i] \union {k}
        /\ \A j \in Iters : j # i => given'[j] = given[j]
    BY <1>1, <1>4, <1>7
  <1>10. owed' \in [Iters -> SUBSET Keys]
    BY <1>1, <1>4
  <1>11. Types'
    BY <1>1, <1>8, <1>9, <1>10 DEF Inv, Types, table, heap
  <1>12. WalkInv'
    <2>1. ~weak
      BY <1>1 DEF Inv, WalkInv
    <2>2. ASSUME NEW j \in Iters PROVE given'[j] \subseteq LiveKeys' /\ (iter'[j].st = "unmade" => given'[j] = {})
      <3>1. CASE j = i
        BY <1>2, <1>7, <1>8, <1>9, <3>1 DEF Inv, WalkInv
      <3>2. CASE j # i
        BY <1>2, <1>8, <1>9, <3>2 DEF Inv, WalkInv
      <3> QED BY <3>1, <3>2
    <2> QED BY <1>1, <2>1, <2>2 DEF Inv, WalkInv
  <1>13. NeverGivenTwice'
    <2> SUFFICES ASSUME NEW j \in Iters, NEW t \in LiveSlots, iter'[j].st = "open",
                        entries[t].key \in given'[j]
                 PROVE  t <= iter'[j].at
      BY <1>2 DEF NeverGivenTwice
    <2>1. t \in 1 .. Len(entries) /\ s \in 1 .. Len(entries) /\ entries[t].key # Hole
      BY <1>6 DEF LiveSlots, LiveAt
    <2>2. CASE j # i
      BY <1>8, <1>9, <2>2 DEF Inv, NeverGivenTwice
    <2>3. CASE j = i /\ entries[t].key = k
      <3>1. t = s
        BY <1>1, <1>4, <2>1, <2>3 DEF Distinct
      <3> QED BY <1>6, <1>8, <2>3, <3>1
    <2>4. CASE j = i /\ entries[t].key # k
      <3>1. entries[t].key \in given[i]
        BY <1>9, <2>4
      <3>2. t <= iter[i].at /\ iter[i].at \in Nat
        BY <1>1, <1>4, <3>1 DEF Inv, NeverGivenTwice, Iter
      <3> QED BY <1>6, <1>8, <2>1, <2>4, <3>2
    <2> QED BY <2>2, <2>3, <2>4
  <1> QED BY <1>2, <1>3, <1>11, <1>12, <1>13 DEF Inv

\* An iterator at its end.
LEMMA IteratorEndKeeps ==
  ASSUME Inv, NEW i \in Iters, IteratorEnd(i)
  PROVE  Inv'
  <1>1. /\ op.pc = "idle" /\ iter[i].st = "open"
        /\ iter' = [iter EXCEPT ![i].st = "done"]
        /\ UNCHANGED <<table, weak, heap, held, op, owed, given>>
    BY DEF IteratorEnd
  <1>2. ListInv' /\ IndexInv' /\ LiveKeys' = LiveKeys /\ LiveSlots' = LiveSlots /\ entries' = entries
    BY <1>1, QuietTable DEF Inv, table
  <1>3. OpInv'
    BY <1>1, IdleKeeps DEF Inv
  <1>4. iter \in [Iters -> Iter]
    BY DEF Inv, Types
  <1>5. /\ iter' \in [Iters -> Iter] /\ iter'[i].st = "done"
        /\ \A j \in Iters : j # i => iter'[j] = iter[j]
    BY <1>1, <1>4 DEF Iter
  <1>6. Types'
    BY <1>1, <1>5 DEF Inv, Types, table, heap
  <1>7. WalkInv'
    BY <1>1, <1>2, <1>5 DEF Inv, WalkInv
  <1>8. NeverGivenTwice'
    BY <1>1, <1>2, <1>5 DEF Inv, NeverGivenTwice
  <1> QED BY <1>2, <1>3, <1>6, <1>7, <1>8 DEF Inv

-----------------------------------------------------------------------------
(* Steps that change the table *)

\* clear: nothing is left and the index is disowned.
LEMMA ClearKeeps ==
  ASSUME Inv, Clear
  PROVE  Inv'
  <1>1. /\ op.pc = "idle" /\ ~weak /\ entries' = <<>> /\ liveCount' = 0
        /\ indexEpoch' = Unbuilt /\ indexAnchor' = Unbuilt
        /\ owed' = [i \in Iters |-> {}] /\ given' = [i \in Iters |-> {}]
        /\ UNCHANGED <<cap, buckets, weak, heap, held, op, iter>>
    BY DEF Clear
  <1>2. OpInv'
    BY <1>1, IdleKeeps DEF Inv
  <1>3. Types'
    BY <1>1 DEF Inv, Types, heap
  <1>4. SlotsOf(entries') = {}
    BY <1>1 DEF SlotsOf
  <1>5. ListInv'
    <2>1. Cardinality(LiveSlots') = 0
      BY <1>4, ViewsAfter, FS_EmptySet
    <2>2. Distinct(entries')
      BY <1>1 DEF Distinct
    <2> QED BY <1>1, <2>1, <2>2 DEF ListInv
  <1>6. IndexInv'
    BY <1>1 DEF Inv, Types, IndexInv, Usable, Stable, Unbuilt, heap
  <1>7. WalkInv'
    BY <1>1 DEF Inv, WalkInv
  <1>8. NeverGivenTwice'
    BY <1>1 DEF NeverGivenTwice
  <1> QED BY <1>2, <1>3, <1>5, <1>6, <1>7, <1>8 DEF Inv

\* reindex: the new index is valid and finds every live slot.
LEMMA ReindexKeeps ==
  ASSUME Inv, Reindex
  PROVE  Inv'
  <1>1. /\ op.pc = "index" /\ buckets' = Reindexed
        /\ liveCount' = Cardinality(LiveSlots)
        /\ indexEpoch' = IF \E k \in LiveKeys : KeyMayMove(k) THEN epoch ELSE Stable
        /\ indexAnchor' = mapAddr
        /\ op' = [op EXCEPT !.pc = op.then]
        /\ UNCHANGED <<entries, cap, weak, heap, held, walks>>
    BY DEF Reindex
  <1>2. op \in Op /\ op.then \in {"probe", "insert"}
    BY <1>1 DEF Inv, Types, OpInv, Op
  <1>3. /\ op' \in Op /\ op'.pc = op.then /\ op'.then = op.then /\ op'.name = op.name
        /\ op'.key = op.key /\ op'.val = op.val /\ op'.res = op.res
    BY <1>1, <1>2 DEF Op, Pcs
  <1>4. LiveSlots' = LiveSlots /\ LiveKeys' = LiveKeys
    BY <1>1, Views, ViewsAfter
  <1>5. Cardinality(LiveSlots) \in Nat
    BY Views, SlotsFinite DEF Inv, Types
  <1>6. Types'
    BY <1>1, <1>3, <1>5 DEF Inv, Types, heap, walks
  <1>7. ListInv'
    BY <1>1, <1>4, <1>5 DEF Inv, ListInv
  <1>8. PICK n \in Nat : Indexes(Reindexed, n)
    BY ReindexedIndexes DEF Inv
  <1>9. \E m \in Nat : Covers(buckets', m, entries', cap', addr')
    BY <1>1, <1>8, Views DEF heap
  <1>10. (\E m \in Nat : Indexes(buckets, m))'
    BY <1>9, ViewsAfter
  <1>11. /\ indexEpoch' <= epoch' /\ (indexEpoch' = Stable \/ indexEpoch' = epoch')
         /\ indexEpoch' = Stable => LiveKeys' \intersect young' = {}
    BY <1>1, <1>4 DEF Inv, Types, Stable, KeyMayMove, heap
  <1>12. IndexInv'
    BY <1>10, <1>11 DEF IndexInv
  <1>13. IndexValid'
    <2>1. n \in Nat \ {0} /\ Spread(buckets', n, Len(entries))
      BY <1>1, <1>8 DEF Indexes
    <2>2. DOMAIN buckets' = 0 .. n - 1 /\ 0 \in 0 .. n - 1
      BY <2>1 DEF Spread
    <2>3. DOMAIN <<>> = {}
      OBVIOUS
    <2>4. buckets' # <<>>
      BY <2>2, <2>3
    <2> QED BY <1>1, <1>11, <2>4 DEF IndexValid, heap
  <1>14. OpInv'
    BY <1>1, <1>2, <1>3, <1>4, <1>13 DEF Inv, OpInv, Missing
  <1>15. WalkInv' /\ NeverGivenTwice'
    BY <1>1, QuietWalks DEF Inv, walks
  <1> QED BY <1>6, <1>7, <1>12, <1>14, <1>15 DEF Inv

\* A probe that does not miss has the one slot of the key.
LEMMA ProbeHits ==
  ASSUME Inv, op.pc = "probe", Probe(op.key) # 0, NEW p, p = Probe(op.key)
  PROVE  /\ op.key \in Keys /\ op.key \in LiveKeys
         /\ p \in 1 .. Len(entries) /\ entries[p].key = op.key
         /\ entries[p] \in Live
         /\ \A s \in 1 .. Len(entries) : entries[s].key = op.key => s = p
  <1>1. PICK n : Indexes(buckets, n)
    BY IndexThere
  <1>2. op.key \in Keys /\ Types /\ Distinct(entries)
    BY DEF Inv, OpInv, ListInv
  <1>3. op.key \in LiveKeys /\ p \in 1 .. Len(entries) /\ entries[p].key = op.key
    BY <1>1, <1>2, ProbeFinds
  <1>4. entries[p] \in Entry /\ entries[p].key # Hole
    BY <1>2, <1>3, KeysAssumption DEF Types
  <1>5. entries[p] \in Live
    BY <1>4, LiveEntries
  <1> QED BY <1>2, <1>3, <1>4, <1>5 DEF Distinct

\* The list thins and the heap moves on: an index that is still usable still
\* finds every live slot.
LEMMA ThinnerIndex ==
  ASSUME Types, IndexInv, op.pc # "index" \/ op'.pc = "index",
         entries' \in Seq(Entry), Thinner(entries, entries'),
         UNCHANGED <<cap, buckets, indexEpoch>>,
         young' \subseteq young, epoch' \in Nat, epoch <= epoch',
         epoch' = epoch => addr' = addr,
         \A o \in Objects \ young : addr'[o] = addr[o]
  PROVE  IndexInv'
  <1>1. indexEpoch' <= epoch'
    BY DEF IndexInv, Types, Stable, Unbuilt
  <1>2. ASSUME op'.pc # "index", Usable'
        PROVE  /\ (\E n \in Nat : Indexes(buckets, n))'
               /\ indexEpoch' = Stable => LiveKeys' \intersect young' = {}
    <2>1. op.pc # "index"
      BY <1>2
    <2>2. Usable /\ (indexEpoch = Stable \/ epoch' = epoch)
      BY <1>2 DEF Usable, IndexInv, Types, Stable, Unbuilt
    <2>3. PICK n \in Nat : Covers(buckets, n, entries, cap, addr)
      BY <2>1, <2>2, Views DEF IndexInv
    <2>4. indexEpoch = Stable => KeysIn(entries) \intersect young = {}
      BY <2>1, <2>2, Views DEF IndexInv
    <2>5. entries \in Seq(Entry)
      BY DEF Types
    <2>6. KeysIn(entries') \subseteq KeysIn(entries)
      BY <2>5, ThinnerKeeps
    <2>7. \A k \in KeysIn(entries') : HashIn(addr', k) = HashIn(addr, k)
      BY <2>2, <2>4, <2>6 DEF HashIn
    <2>8. Covers(buckets, n, entries', cap, addr')
      <3>1. PICK es, fs, a, z, b, c :
              es = entries /\ fs = entries' /\ a = addr /\ z = addr' /\ b = buckets /\ c = cap
        OBVIOUS
      <3>2. /\ es \in Seq(Entry) /\ fs \in Seq(Entry) /\ Thinner(es, fs)
            /\ Covers(b, n, es, c, a)
            /\ \A k \in KeysIn(fs) : HashIn(z, k) = HashIn(a, k)
        BY <2>3, <2>5, <2>7, <3>1
      <3>3. Covers(b, n, fs, c, z)
        BY <3>2, ThinnerKeeps
      <3> QED BY <3>1, <3>3
    <2>9. \E m \in Nat : Covers(buckets', m, entries', cap', addr')
      BY <2>8
    <2> QED BY <2>4, <2>6, <2>9, ViewsAfter
  <1> QED BY <1>1, <1>2 DEF IndexInv

\* get: the value of the key is read.
LEMMA ProbeGetKeeps ==
  ASSUME Inv, ProbeGet
  PROVE  Inv'
  <1>1. /\ op.pc = "probe" /\ op.name = "get" /\ Probe(op.key) # 0
        /\ op' = Done(op, entries[Probe(op.key)].val)
        /\ UNCHANGED <<table, weak, heap, held, walks>>
    BY DEF ProbeGet
  <1>2. PICK p : p = Probe(op.key)
    OBVIOUS
  <1>3. entries[p] \in Live
    BY <1>1, <1>2, ProbeHits
  <1>4. entries[p].val \in Answers /\ entries[p].val # "none"
    BY <1>3, KeysAssumption DEF Live, Answers
  <1>5. op \in Op /\ op.key \in Keys \intersect held
    BY <1>1 DEF Inv, Types, OpInv
  <1>6. /\ op' \in Op /\ op'.pc = "done" /\ op'.then = "none" /\ op'.res # "none"
        /\ op'.name = op.name /\ op'.key = op.key /\ op'.val = op.val
    BY <1>1, <1>2, <1>4, <1>5, DoneIs
  <1>7. ListInv' /\ IndexInv'
    BY <1>1, QuietTable DEF Inv
  <1>8. WalkInv' /\ NeverGivenTwice'
    BY <1>1, QuietWalks DEF Inv, table, walks
  <1>9. Types'
    BY <1>1, <1>6 DEF Inv, Types, table, heap, walks
  <1>10. OpInv'
    BY <1>1, <1>5, <1>6 DEF OpInv, Missing
  <1> QED BY <1>7, <1>8, <1>9, <1>10 DEF Inv

\* set of a key that is there: its value changes in place.
LEMMA ProbeSetKeeps ==
  ASSUME Inv, ProbeSet
  PROVE  Inv'
  <1>1. PICK p :
          /\ op.pc = "probe" /\ op.name = "set" /\ Probe(op.key) # 0 /\ p = Probe(op.key)
          /\ entries' = [entries EXCEPT ![p].val = op.val]
          /\ op' = Done(op, "ok")
          /\ UNCHANGED <<cap, buckets, liveCount, indexEpoch, indexAnchor, weak, heap, held, walks>>
    BY DEF ProbeSet
  <1>2. p \in 1 .. Len(entries) /\ entries[p] \in Live
    BY <1>1, ProbeHits
  <1>3. op \in Op /\ op.key \in Keys \intersect held /\ op.val \in Vals /\ entries \in Seq(Entry)
    BY <1>1 DEF Inv, Types, OpInv
  <1>4. PICK e : e = [entries[p] EXCEPT !.val = op.val]
    OBVIOUS
  <1>5. e \in Live /\ e \in Entry /\ e.key = entries[p].key
    BY <1>2, <1>3, <1>4 DEF Live, Entry
  <1>6. entries' = [entries EXCEPT ![p] = e]
    BY <1>1, <1>4
  <1>7. /\ entries' \in Seq(Entry) /\ Len(entries') = Len(entries)
        /\ \A s \in 1 .. Len(entries) : entries'[s].key = entries[s].key
    BY <1>2, <1>3, <1>5, <1>6
  <1>8. SlotsOf(entries') = SlotsOf(entries)
    BY <1>7 DEF SlotsOf
  <1>9. KeysIn(entries') = KeysIn(entries)
    BY <1>7, <1>8 DEF KeysIn, SlotsOf
  <1>10. Thinner(entries, entries')
    BY <1>7 DEF Thinner
  <1>11. "ok" \in Answers /\ "ok" # "none"
    BY DEF Answers
  <1>12. /\ op' \in Op /\ op'.pc = "done" /\ op'.then = "none" /\ op'.res = "ok"
         /\ op'.name = op.name /\ op'.key = op.key /\ op'.val = op.val
    BY <1>1, <1>3, <1>11, DoneIs
  <1>13. Types'
    BY <1>1, <1>7, <1>12 DEF Inv, Types, heap, walks
  <1>14. ListInv'
    <2>1. Distinct(entries')
      BY <1>7 DEF Inv, ListInv, Distinct
    <2> QED BY <1>1, <1>8, <2>1, Views, ViewsAfter DEF Inv, ListInv
  <1>15. IndexInv'
    <2>1. /\ young' \subseteq young /\ epoch' \in Nat /\ epoch <= epoch' /\ addr' = addr
          /\ op.pc # "index" /\ UNCHANGED <<cap, buckets, indexEpoch>>
      BY <1>1 DEF heap, Inv, Types
    <2> QED BY <1>7, <1>10, <2>1, ThinnerIndex DEF Inv
  <1>16. OpInv'
    BY <1>1, <1>3, <1>11, <1>12 DEF OpInv, Missing
  <1>17. WalkInv'
    BY <1>1, <1>9, Views, ViewsAfter DEF Inv, WalkInv, walks
  <1>18. NeverGivenTwice'
    <2>1. LiveSlots' = LiveSlots /\ \A s \in LiveSlots : entries'[s].key = entries[s].key
      BY <1>7, <1>8, Views, ViewsAfter DEF SlotsOf
    <2> QED BY <1>1, <2>1 DEF Inv, NeverGivenTwice, walks
  <1> QED BY <1>13, <1>14, <1>15, <1>16, <1>17, <1>18 DEF Inv

\* delete of a key that is there: its slot becomes a tombstone.
LEMMA ProbeDeleteKeeps ==
  ASSUME Inv, ProbeDelete
  PROVE  Inv'
  <1>1. PICK p :
          /\ op.pc = "probe" /\ op.name = "delete" /\ Probe(op.key) # 0 /\ p = Probe(op.key)
          /\ entries' = [entries EXCEPT ![p] = Tombstone]
          /\ liveCount' = liveCount - 1
          /\ owed' = Forgotten(owed, op.key) /\ given' = Forgotten(given, op.key)
          /\ op' = Done(op, "true")
          /\ UNCHANGED <<cap, buckets, indexEpoch, indexAnchor, weak, heap, held, iter>>
    BY DEF ProbeDelete
  <1>2. p \in 1 .. Len(entries) /\ entries[p].key = op.key /\ op.key \in Keys
        /\ \A s \in 1 .. Len(entries) : entries[s].key = op.key => s = p
    BY <1>1, ProbeHits
  <1>3. op \in Op /\ op.key \in held /\ entries \in Seq(Entry) /\ liveCount \in Nat
    BY <1>1 DEF Inv, Types, OpInv
  <1>4. Tombstone \in Entry /\ Tombstone.key = Hole
    BY DEF Entry, Tombstone
  <1>5. /\ entries' \in Seq(Entry) /\ Len(entries') = Len(entries) /\ entries'[p].key = Hole
        /\ \A s \in 1 .. Len(entries) : s # p => entries'[s] = entries[s]
    BY <1>1, <1>2, <1>3, <1>4
  <1>6. Hole \notin Keys
    BY KeysAssumption
  <1>7. SlotsOf(entries') = SlotsOf(entries) \ {p} /\ p \in SlotsOf(entries)
    BY <1>2, <1>5, <1>6 DEF SlotsOf
  <1>8. KeysIn(entries') = KeysIn(entries) \ {op.key}
    <2>1. ASSUME NEW k \in KeysIn(entries') PROVE k \in KeysIn(entries) \ {op.key}
      <3>1. PICK s \in SlotsOf(entries') : k = entries'[s].key
        BY DEF KeysIn
      <3>2. s \in SlotsOf(entries) /\ s # p /\ s \in 1 .. Len(entries)
        BY <1>7, <3>1 DEF SlotsOf
      <3>3. k = entries[s].key
        BY <1>5, <3>1, <3>2
      <3> QED BY <1>2, <3>2, <3>3 DEF KeysIn
    <2>2. ASSUME NEW k \in KeysIn(entries) \ {op.key} PROVE k \in KeysIn(entries')
      <3>1. PICK s \in SlotsOf(entries) : k = entries[s].key
        BY DEF KeysIn
      <3>2. s # p /\ s \in SlotsOf(entries') /\ s \in 1 .. Len(entries)
        BY <1>2, <1>7, <3>1 DEF SlotsOf
      <3>3. k = entries'[s].key
        BY <1>5, <3>1, <3>2
      <3> QED BY <3>2, <3>3 DEF KeysIn
    <2> QED BY <2>1, <2>2
  <1>9. Thinner(entries, entries')
    BY <1>2, <1>5 DEF Thinner
  <1>10. "true" \in Answers /\ "true" # "none"
    BY DEF Answers
  <1>11. /\ op' \in Op /\ op'.pc = "done" /\ op'.then = "none" /\ op'.res = "true"
         /\ op'.name = op.name /\ op'.key = op.key /\ op'.val = op.val
    BY <1>1, <1>3, <1>10, DoneIs
  <1>12. /\ Cardinality(SlotsOf(entries')) = Cardinality(SlotsOf(entries)) - 1
         /\ Cardinality(SlotsOf(entries')) \in Nat
         /\ Cardinality(SlotsOf(entries)) <= liveCount
    <2>1. IsFiniteSet(SlotsOf(entries)) /\ Cardinality(SlotsOf(entries)) \in Nat
      BY <1>3, SlotsFinite
    <2>2. Cardinality(SlotsOf(entries')) \in Nat
      BY <1>5, SlotsFinite
    <2>3. PICK S : S = SlotsOf(entries)
      OBVIOUS
    <2>4. Cardinality(S \ {p}) = Cardinality(S) - 1
      BY <1>7, <2>1, <2>3, FS_RemoveElement
    <2> QED BY <1>7, <2>2, <2>3, <2>4, Views DEF Inv, ListInv
  <1>13. liveCount' \in Nat /\ Cardinality(SlotsOf(entries')) <= liveCount'
    <2>1. PICK x, y : x = Cardinality(SlotsOf(entries')) /\ y = Cardinality(SlotsOf(entries))
      OBVIOUS
    <2>2. x \in Nat /\ x = y - 1 /\ y <= liveCount
      BY <1>12, <2>1
    <2>3. y \in Nat
      BY <1>3, <2>1, SlotsFinite
    <2> QED BY <1>1, <1>3, <2>1, <2>2, <2>3
  <1>14. /\ given' = [i \in Iters |-> given[i] \ {op.key}]
         /\ owed' = [i \in Iters |-> owed[i] \ {op.key}]
    BY <1>1 DEF Forgotten
  <1>15. Types'
    BY <1>1, <1>5, <1>11, <1>13, <1>14 DEF Inv, Types, heap
  <1>16. ListInv'
    <2>1. Distinct(entries')
      BY <1>3, <1>5, <1>9, ThinnerKeeps DEF Inv, ListInv
    <2> QED BY <1>13, <2>1, ViewsAfter DEF ListInv
  <1>17. IndexInv'
    <2>1. /\ young' \subseteq young /\ epoch' \in Nat /\ epoch <= epoch' /\ addr' = addr
          /\ op.pc # "index" /\ UNCHANGED <<cap, buckets, indexEpoch>>
      BY <1>1 DEF heap, Inv, Types
    <2> QED BY <1>5, <1>9, <2>1, ThinnerIndex DEF Inv
  <1>18. OpInv'
    BY <1>1, <1>2, <1>3, <1>10, <1>11 DEF OpInv, Missing
  <1>19. WalkInv'
    BY <1>1, <1>8, <1>14, Views, ViewsAfter DEF Inv, WalkInv
  <1>20. NeverGivenTwice'
    <2> SUFFICES ASSUME NEW i \in Iters, NEW s \in LiveSlots', iter'[i].st = "open",
                        entries'[s].key \in given'[i]
                 PROVE  s <= iter'[i].at
      BY DEF NeverGivenTwice
    <2>1. s \in LiveSlots /\ s # p /\ s \in 1 .. Len(entries)
      BY <1>7, Views, ViewsAfter DEF SlotsOf
    <2>2. entries[s].key \in given[i]
      BY <1>5, <1>14, <2>1
    <2> QED BY <1>1, <2>1, <2>2 DEF Inv, NeverGivenTwice
  <1> QED BY <1>15, <1>16, <1>17, <1>18, <1>19, <1>20 DEF Inv

\* What growEntries moves up: the live entries, each to its place or an
\* earlier one.
LEMMA CompactedIs ==
  ASSUME NEW es \in Seq(Entry), NEW fs, fs = Filtered(es, Live)
  PROVE  /\ fs \in Seq(Entry) /\ Len(fs) = Cardinality(SlotsOf(es))
         /\ SlotsOf(fs) = 1 .. Len(fs)
         /\ KeysIn(fs) = KeysIn(es)
         /\ Distinct(es) => Distinct(fs)
         /\ \A n \in 1 .. Len(fs) : /\ fs[n] \in Live
                                    /\ \E m \in SlotsOf(es) : n <= m /\ fs[n] = es[m]
         /\ \A m \in SlotsOf(es) : \E n \in 1 .. Len(fs) : fs[n] = es[m]
  <1>1. fs \in Seq(Entry) /\ Leaves(es, Live, fs)
    BY FilteredLeaves
  <1>2. \A m \in 1 .. Len(es) : es[m] \in Live <=> es[m].key # Hole
    BY LiveEntries
  <1>3. SlotsOf(es) = {m \in 1 .. Len(es) : es[m] \in Live}
    BY <1>2 DEF SlotsOf
  <1>4. Len(fs) = Cardinality(SlotsOf(es))
    BY <1>1, <1>3 DEF Leaves
  <1>5. ASSUME NEW n \in 1 .. Len(fs)
        PROVE  fs[n] \in Live /\ \E m \in SlotsOf(es) : n <= m /\ fs[n] = es[m]
    <2>1. PICK m \in n .. Len(es) : fs[n] = es[m] /\ es[m] \in Live
      BY <1>1 DEF Leaves
    <2>2. m \in SlotsOf(es) /\ n <= m
      BY <1>1, <1>3, <2>1
    <2> QED BY <2>1, <2>2
  <1>6. \A m \in SlotsOf(es) : \E n \in 1 .. Len(fs) : fs[n] = es[m]
    BY <1>1, <1>3 DEF Leaves
  <1>7. SlotsOf(fs) = 1 .. Len(fs)
    <2>1. \A n \in 1 .. Len(fs) : fs[n] \in Entry
      BY <1>1
    <2> QED BY <1>5, <2>1, LiveEntries DEF SlotsOf
  <1>8. KeysIn(fs) = KeysIn(es)
    <2>1. ASSUME NEW k \in KeysIn(fs) PROVE k \in KeysIn(es)
      <3>1. PICK n \in 1 .. Len(fs) : k = fs[n].key
        BY <1>7 DEF KeysIn
      <3>2. PICK m \in SlotsOf(es) : fs[n] = es[m]
        BY <1>5
      <3> QED BY <3>1, <3>2 DEF KeysIn
    <2>2. ASSUME NEW k \in KeysIn(es) PROVE k \in KeysIn(fs)
      <3>1. PICK m \in SlotsOf(es) : k = es[m].key
        BY DEF KeysIn
      <3>2. PICK n \in 1 .. Len(fs) : fs[n] = es[m]
        BY <1>6
      <3> QED BY <1>7, <3>1, <3>2 DEF KeysIn
    <2> QED BY <2>1, <2>2
  <1>9. Distinct(es) => Distinct(fs)
    BY CompactedDistinct
  <1> QED BY <1>1, <1>4, <1>5, <1>6, <1>7, <1>8, <1>9

\* growEntries: the slots are renumbered, and no cursor is left behind a key
\* its iterator gave.
LEMMA GrowKeeps ==
  ASSUME Inv, Grow
  PROVE  Inv'
  <1>1. /\ op.pc = "grow" /\ entries' = Compacted /\ cap' = op.cap /\ liveCount' = Len(Compacted)
        /\ op' = [op EXCEPT !.pc = "index", !.then = "insert"]
        /\ UNCHANGED <<buckets, indexEpoch, indexAnchor, weak, heap, held, walks>>
    BY DEF Grow
  <1>2. /\ entries \in Seq(Entry) /\ op \in Op /\ op.cap \in Nat /\ op.key \in Keys \intersect held
        /\ op.name = "set" /\ op.val \in Vals /\ op.res = "none"
        /\ op.key \notin LiveKeys /\ Cardinality(LiveSlots) < op.cap /\ Distinct(entries)
    BY <1>1 DEF Inv, Types, OpInv, Missing, ListInv, Op
  <1>3. entries' = Filtered(entries, Live) /\ liveCount' = Len(entries')
    BY <1>1 DEF Compacted
  <1>4. /\ entries' \in Seq(Entry) /\ Len(entries') = Cardinality(SlotsOf(entries))
        /\ SlotsOf(entries') = 1 .. Len(entries')
        /\ KeysIn(entries') = KeysIn(entries)
        /\ Distinct(entries')
        /\ \A n \in 1 .. Len(entries') :
             \E m \in SlotsOf(entries) : n <= m /\ entries'[n] = entries[m]
    BY <1>2, <1>3, CompactedIs
  <1>5. /\ op' \in Op /\ op'.pc = "index" /\ op'.then = "insert" /\ op'.name = "set"
        /\ op'.key = op.key /\ op'.val = op.val /\ op'.res = "none"
    BY <1>1, <1>2 DEF Op, Pcs
  <1>6. Len(entries') \in Nat /\ Len(entries') < cap'
    BY <1>1, <1>2, <1>4, Views
  <1>7. Types'
    BY <1>1, <1>2, <1>3, <1>4, <1>5, <1>6 DEF Inv, Types, heap, walks
  <1>8. ListInv'
    <2>1. \A n \in Nat : Cardinality(1 .. n) = n
      BY FS_Interval
    <2>2. Cardinality(1 .. Len(entries')) = Len(entries')
      BY <1>6, <2>1
    <2> QED BY <1>3, <1>4, <1>6, <2>2, ViewsAfter DEF ListInv
  <1>9. IndexInv'
    BY <1>1, <1>5 DEF Inv, IndexInv, heap
  <1>10. LiveKeys' = LiveKeys
    BY <1>4, Views, ViewsAfter
  <1>11. OpInv'
    BY <1>1, <1>2, <1>5, <1>6, <1>10 DEF OpInv, Missing
  <1>12. WalkInv'
    BY <1>1, <1>10 DEF Inv, WalkInv, walks
  <1>13. NeverGivenTwice'
    <2> SUFFICES ASSUME NEW i \in Iters, NEW s \in LiveSlots', iter'[i].st = "open",
                        entries'[s].key \in given'[i]
                 PROVE  s <= iter'[i].at
      BY DEF NeverGivenTwice
    <2>1. s \in 1 .. Len(entries')
      BY <1>4, ViewsAfter
    <2>2. PICK m \in SlotsOf(entries) : s <= m /\ entries'[s] = entries[m]
      BY <1>4, <2>1
    <2>3. iter' = iter /\ given' = given
      BY <1>1 DEF walks
    <2>4. m <= iter[i].at
      BY <2>2, <2>3, Views DEF Inv, NeverGivenTwice
    <2>5. m \in Nat /\ iter[i].at \in Nat /\ s \in Nat
      BY <1>2, <1>6, <2>1 DEF SlotsOf, Inv, Types, Iter
    <2> QED BY <2>2, <2>3, <2>4, <2>5
  <1> QED BY <1>7, <1>8, <1>9, <1>11, <1>12, <1>13 DEF Inv

\* set of a new key: its entry goes to the end and its slot into the index.
LEMMA InsertKeeps ==
  ASSUME Inv, Insert
  PROVE  Inv'
  <1>1. /\ op.pc = "insert"
        /\ entries' = Append(entries, [key |-> op.key, val |-> op.val])
        /\ buckets' = Place(buckets, HashKey(op.key), Len(entries) + 1)
        /\ liveCount' = liveCount + 1
        /\ indexEpoch' = IF indexEpoch = Stable /\ KeyMayMove(op.key) THEN epoch ELSE indexEpoch
        /\ op' = Done(op, "ok")
        /\ UNCHANGED <<cap, indexAnchor, weak, heap, held, walks>>
    BY DEF Insert
  <1>2. /\ entries \in Seq(Entry) /\ op \in Op /\ op.key \in Keys \intersect held
        /\ op.name = "set" /\ op.val \in Vals
        /\ op.key \notin LiveKeys /\ Len(entries) < cap /\ Distinct(entries)
        /\ IndexValid /\ cap \in Nat /\ addr \in [Objects -> Addrs] /\ liveCount \in Nat
        /\ Cardinality(LiveSlots) <= liveCount
    BY <1>1 DEF Inv, Types, OpInv, Missing, ListInv
  <1>3. PICK e : e = [key |-> op.key, val |-> op.val]
    OBVIOUS
  <1>4. e \in Live /\ e.key = op.key /\ e.key \notin KeysIn(entries) /\ entries' = Append(entries, e)
    BY <1>1, <1>2, <1>3, Views DEF Live
  <1>5. /\ entries' \in Seq(Entry) /\ Len(entries') = Len(entries) + 1
        /\ Distinct(entries')
        /\ Cardinality(SlotsOf(entries')) = Cardinality(SlotsOf(entries)) + 1
        /\ KeysIn(entries') = KeysIn(entries) \union {op.key}
    BY <1>2, <1>4, LongerKeeps
  <1>6. "ok" \in Answers /\ "ok" # "none"
    BY DEF Answers
  <1>7. /\ op' \in Op /\ op'.pc = "done" /\ op'.then = "none" /\ op'.res = "ok"
        /\ op'.name = op.name /\ op'.key = op.key /\ op'.val = op.val
    BY <1>1, <1>2, <1>6, DoneIs
  <1>8. indexEpoch \in Nat \union {Stable, Unbuilt} /\ epoch \in Nat /\ indexEpoch <= epoch
    BY DEF Inv, Types, IndexInv
  <1>9. indexEpoch' \in Nat \union {Stable, Unbuilt} /\ indexEpoch' <= epoch'
    BY <1>1, <1>8 DEF heap
  <1>10. Types'
    BY <1>1, <1>2, <1>5, <1>7, <1>9 DEF Inv, Types, heap, walks
  <1>11. ListInv'
    <2>1. Cardinality(SlotsOf(entries)) \in Nat /\ Cardinality(SlotsOf(entries)) <= liveCount
      BY <1>2, Views, SlotsFinite
    <2> QED BY <1>1, <1>2, <1>5, <2>1, ViewsAfter DEF ListInv
  <1>12. IndexInv'
    <2>1. Usable /\ op.pc # "index"
      BY <1>1, <1>2 DEF IndexValid, Usable
    <2>2. PICK n \in Nat : Covers(buckets, n, entries, cap, addr)
      BY <2>1, Views DEF Inv, IndexInv
    <2>3. indexEpoch = Stable => KeysIn(entries) \intersect young = {}
      BY <2>1, Views DEF Inv, IndexInv
    <2>4. buckets' = Place(buckets, HashIn(addr, e.key), Len(entries) + 1)
      BY <1>1, <1>4 DEF HashKey, HashIn
    <2>5. Covers(buckets', n, entries', cap, addr)
      BY <1>2, <1>4, <2>2, <2>4, CoversPlaced
    <2>6. \E m \in Nat : Covers(buckets', m, entries', cap', addr')
      BY <1>1, <2>5 DEF heap
    <2>7. indexEpoch' = Stable => KeysIn(entries') \intersect young' = {}
      <3> SUFFICES ASSUME indexEpoch' = Stable PROVE KeysIn(entries') \intersect young' = {}
        OBVIOUS
      <3>1. indexEpoch = Stable /\ op.key \notin young
        BY <1>1, <1>8 DEF KeyMayMove, Stable
      <3> QED BY <1>1, <1>5, <2>3, <3>1 DEF heap
    <2> QED BY <1>9, <2>6, <2>7, ViewsAfter DEF IndexInv
  <1>13. OpInv'
    BY <1>1, <1>2, <1>6, <1>7 DEF OpInv, Missing
  <1>14. LiveKeys' = LiveKeys \union {op.key}
    BY <1>5, Views, ViewsAfter
  <1>15. WalkInv'
    BY <1>1, <1>14 DEF Inv, WalkInv, walks
  <1>16. NeverGivenTwice'
    <2> SUFFICES ASSUME NEW i \in Iters, NEW s \in LiveSlots', iter'[i].st = "open",
                        entries'[s].key \in given'[i]
                 PROVE  s <= iter'[i].at
      BY DEF NeverGivenTwice
    <2>1. iter' = iter /\ given' = given /\ given[i] \subseteq LiveKeys
      BY <1>1 DEF walks, Inv, WalkInv
    <2>2. s \in 1 .. Len(entries) + 1 /\ entries'[s].key # Hole
      BY <1>5, ViewsAfter DEF SlotsOf
    <2>3. s # Len(entries) + 1
      <3>1. entries'[Len(entries) + 1] = e
        BY <1>2, <1>4
      <3> QED BY <1>2, <1>4, <2>1, <3>1
    <2>4. s \in 1 .. Len(entries) /\ entries'[s] = entries[s]
      BY <1>2, <1>4, <2>2, <2>3
    <2>5. s \in LiveSlots
      BY <2>2, <2>4, Views DEF SlotsOf
    <2> QED BY <2>1, <2>4, <2>5 DEF Inv, NeverGivenTwice
  <1> QED BY <1>10, <1>11, <1>12, <1>13, <1>15, <1>16 DEF Inv

\* The collector as a step: what it may move and which keys it may take.
Collected(to, mapTo, old, dead, e) ==
  /\ to \in [Objects -> Addrs] /\ mapTo \in MapAddrs
  /\ old \subseteq young /\ dead \subseteq Objects \ held
  /\ e \in {epoch, epoch + 1}
  /\ \A o \in Objects \ young : to[o] = addr[o]
  /\ e = epoch => to = addr
  /\ entries' = [s \in DOMAIN entries |->
                   IF entries[s].key \in dead THEN Tombstone ELSE entries[s]]
  /\ addr' = to /\ young' = young \ old /\ mapAddr' = mapTo /\ epoch' = e

\* Every collection is one of these.
LEMMA CollectIs ==
  ASSUME Collect
  PROVE  \E to, mapTo, old, dead, e : Collected(to, mapTo, old, dead, e)
  <1>1. PICK to \in [Objects -> Addrs], mapTo \in MapAddrs, old \in SUBSET young,
             dead \in SUBSET (Objects \ held), e \in {epoch, epoch + 1} :
          /\ \A o \in Objects \ young : to[o] = addr[o]
          /\ e = epoch => to = addr /\ mapTo = mapAddr
          /\ entries' = [s \in DOMAIN entries |->
                           IF entries[s].key \in dead THEN Tombstone ELSE entries[s]]
          /\ addr' = to /\ young' = young \ old
          /\ mapAddr' = mapTo /\ epoch' = e
    BY DEF Collect
  <1>2. Collected(to, mapTo, old, dead, e)
    BY <1>1 DEF Collected
  <1> QED BY <1>2

\* The list a collection leaves.
LEMMA DeadAreHoles ==
  ASSUME NEW es \in Seq(Entry), NEW dead \in SUBSET Keys, NEW fs,
         fs = [s \in DOMAIN es |-> IF es[s].key \in dead THEN Tombstone ELSE es[s]]
  PROVE  /\ fs \in Seq(Entry) /\ Thinner(es, fs) /\ Len(fs) = Len(es)
         /\ \A s \in 1 .. Len(es) : fs[s] = IF es[s].key \in dead THEN Tombstone ELSE es[s]
         /\ dead = {} => fs = es
  <1>1. Tombstone \in Entry /\ Tombstone.key = Hole
    BY DEF Entry, Tombstone
  <1>2. DOMAIN es = 1 .. Len(es) /\ Len(es) \in Nat
    OBVIOUS
  <1>3. \A s \in 1 .. Len(es) :
          /\ fs[s] = IF es[s].key \in dead THEN Tombstone ELSE es[s]
          /\ fs[s] \in Entry
    BY <1>1, <1>2
  <1>4. fs \in Seq(Entry) /\ Len(fs) = Len(es)
    <2>1. fs \in [1 .. Len(es) -> Entry]
      BY <1>2, <1>3
    <2> QED BY <1>2, <2>1
  <1>5. Thinner(es, fs)
    BY <1>1, <1>3, <1>4 DEF Thinner
  <1>6. dead = {} => fs = es
    BY <1>2, <1>3, <1>4
  <1> QED BY <1>3, <1>4, <1>5, <1>6

\* The collector: an index over keys that moved is not usable any more.
LEMMA CollectKeeps ==
  ASSUME Inv, Collect
  PROVE  Inv'
  <1>1. PICK to, mapTo, old, dead, e : Collected(to, mapTo, old, dead, e)
    BY CollectIs
  <1>2. /\ op.pc \in {"idle", "grow", "index"}
        /\ UNCHANGED <<cap, buckets, liveCount, indexEpoch, indexAnchor, weak, held, op, walks>>
    BY DEF Collect, Allocates
  <1>3. entries \in Seq(Entry) /\ epoch \in Nat /\ dead \in SUBSET Keys /\ epoch' \in Nat
    BY <1>1 DEF Inv, Types, Collected, Keys
  <1>4. /\ entries' \in Seq(Entry) /\ Thinner(entries, entries') /\ Len(entries') = Len(entries)
        /\ dead = {} => entries' = entries
    <2>1. entries' = [s \in DOMAIN entries |->
                        IF entries[s].key \in dead THEN Tombstone ELSE entries[s]]
      BY <1>1 DEF Collected
    <2> QED BY <1>3, <2>1, DeadAreHoles
  <1>5. /\ Distinct(entries')
        /\ Cardinality(SlotsOf(entries')) <= Cardinality(SlotsOf(entries))
        /\ KeysIn(entries') \subseteq KeysIn(entries)
    BY <1>3, <1>4, ThinnerKeeps DEF Inv, ListInv
  <1>6. Cardinality(SlotsOf(entries')) \in Nat /\ Cardinality(SlotsOf(entries)) \in Nat
    BY <1>3, <1>4, SlotsFinite
  <1>7. Types'
    BY <1>1, <1>2, <1>3, <1>4 DEF Inv, Types, Collected, walks
  <1>8. ListInv'
    <2>1. Cardinality(SlotsOf(entries)) <= liveCount /\ liveCount \in Nat
      BY Views DEF Inv, ListInv, Types
    <2> QED BY <1>2, <1>5, <1>6, <2>1, ViewsAfter DEF ListInv
  <1>9. IndexInv'
    <2>1. /\ young' \subseteq young /\ epoch <= epoch' /\ (epoch' = epoch => addr' = addr)
          /\ \A o \in Objects \ young : addr'[o] = addr[o]
      BY <1>1, <1>3 DEF Collected
    <2>2. /\ op.pc # "index" \/ op'.pc = "index"
          /\ UNCHANGED <<cap, buckets, indexEpoch>>
      BY <1>2
    <2> QED BY <1>3, <1>4, <2>1, <2>2, ThinnerIndex DEF Inv
  <1>10. LiveKeys' \subseteq LiveKeys
    BY <1>5, Views, ViewsAfter
  <1>11. OpInv'
    <2>1. op.pc = "grow" => Cardinality(LiveSlots') < op.cap
      <3>1. op.pc = "grow" => Cardinality(LiveSlots) < op.cap /\ op.cap \in Nat
        BY DEF Inv, OpInv, Types, Op
      <3> QED BY <1>5, <1>6, <3>1, Views, ViewsAfter
    <2>2. Len(entries') = Len(entries) /\ cap' = cap /\ op' = op /\ held' = held
      BY <1>2, <1>4
    <2> QED BY <1>2, <1>10, <2>1, <2>2 DEF Inv, OpInv, Missing
  <1>12. CASE weak
    <2>1. \A i \in Iters : iter[i].st = "unmade" /\ given[i] = {}
      BY <1>12 DEF Inv, WalkInv
    <2>2. WalkInv'
      BY <1>2, <1>12, <2>1 DEF WalkInv, walks
    <2>3. NeverGivenTwice'
      BY <1>2, <2>1 DEF NeverGivenTwice, walks
    <2> QED BY <1>7, <1>8, <1>9, <1>11, <2>2, <2>3 DEF Inv
  <1>13. CASE ~weak
    <2>1. held = Keys
      BY <1>13 DEF Inv, WalkInv
    <2>2. dead = {}
      BY <1>1, <2>1 DEF Collected, Keys
    <2>3. WalkInv' /\ NeverGivenTwice'
      BY <1>2, <1>4, <2>2, QuietWalks DEF Inv, walks
    <2> QED BY <1>7, <1>8, <1>9, <1>11, <2>3 DEF Inv
  <1> QED BY <1>12, <1>13

-----------------------------------------------------------------------------
(* The invariant holds *)

\* An empty table has the invariant.
LEMMA InitKeeps == Init => Inv
  <1> SUFFICES ASSUME Init PROVE Inv
    OBVIOUS
  <1>1. op = Idle /\ op \in Op /\ op.pc = "idle" /\ op.name = "none" /\ op.res = "none"
    BY DEF Init, Idle, Op, Pcs, Names, Answers
  <1>2. Types
    BY <1>1 DEF Init, Types, Unbuilt, Iter
  <1>3. SlotsOf(entries) = {}
    BY DEF Init, SlotsOf
  <1>4. ListInv
    <2>1. Cardinality(LiveSlots) = 0
      BY <1>3, Views, FS_EmptySet
    <2> QED BY <2>1 DEF Init, ListInv, Distinct
  <1>5. IndexInv
    BY DEF Init, IndexInv, Usable, Unbuilt
  <1>6. OpInv
    BY <1>1 DEF OpInv, Missing
  <1>7. WalkInv
    BY DEF Init, WalkInv
  <1>8. NeverGivenTwice
    BY DEF Init, NeverGivenTwice
  <1> QED BY <1>2, <1>4, <1>5, <1>6, <1>7, <1>8 DEF Inv

\* A step that changes nothing keeps it.
LEMMA StutterKeeps ==
  ASSUME Inv, UNCHANGED vars
  PROVE  Inv'
  <1>1. UNCHANGED <<table, heap, walks>> /\ weak' = weak /\ held' = held /\ op' = op
    BY DEF vars
  <1>2. /\ ListInv' /\ IndexInv' /\ LiveSlots' = LiveSlots /\ LiveKeys' = LiveKeys
        /\ (IndexValid' <=> IndexValid)
    <2>1. CASE op.pc = "index"
      BY <1>1, <2>1, QuietTable DEF Inv
    <2>2. CASE op.pc # "index"
      BY <1>1, <2>2, QuietTable DEF Inv
    <2> QED BY <2>1, <2>2
  <1>3. WalkInv' /\ NeverGivenTwice'
    BY <1>1, QuietWalks DEF Inv, table, walks
  <1>4. Types'
    BY <1>1 DEF Inv, Types, table, heap, walks
  <1>5. OpInv'
    BY <1>1, <1>2 DEF Inv, OpInv, Missing, table
  <1> QED BY <1>2, <1>3, <1>4, <1>5 DEF Inv

\* Every operation, iterator step and collection keeps the invariant.
LEMMA NextKeeps == Inv /\ [Next]_vars => Inv'
  <1> SUFFICES ASSUME Inv, [Next]_vars PROVE Inv'
    OBVIOUS
  <1>1. ASSUME NEW k \in Keys, Call("get", k, Absent) PROVE Inv'
    BY <1>1, CallKeeps
  <1>2. ASSUME NEW k \in Keys, Call("delete", k, Absent) PROVE Inv'
    BY <1>2, CallKeeps
  <1>3. ASSUME NEW k \in Keys, NEW v \in Vals, Call("set", k, v) PROVE Inv'
    BY <1>3, CallKeeps
  <1>4. ASSUME NEW k \in Keys, Forget(k) PROVE Inv'
    BY <1>4, ForgetKeeps
  <1>5. CASE Reindex
    BY <1>5, ReindexKeeps
  <1>6. CASE Miss
    BY <1>6, MissKeeps
  <1>7. CASE ProbeGet
    BY <1>7, ProbeGetKeeps
  <1>8. CASE ProbeSet
    BY <1>8, ProbeSetKeeps
  <1>9. CASE ProbeDelete
    BY <1>9, ProbeDeleteKeeps
  <1>10. CASE Grow
    BY <1>10, GrowKeeps
  <1>11. CASE Insert
    BY <1>11, InsertKeeps
  <1>12. CASE Return
    BY <1>12, ReturnKeeps
  <1>13. CASE Clear
    BY <1>13, ClearKeeps
  <1>14. ASSUME NEW i \in Iters, MakeIterator(i) PROVE Inv'
    BY <1>14, MakeIteratorKeeps
  <1>15. ASSUME NEW i \in Iters, IteratorStep(i) PROVE Inv'
    BY <1>15, IteratorStepKeeps
  <1>16. ASSUME NEW i \in Iters, IteratorEnd(i) PROVE Inv'
    BY <1>16, IteratorEndKeeps
  <1>17. CASE Collect
    BY <1>17, CollectKeeps
  <1>18. CASE UNCHANGED vars
    BY <1>18, StutterKeeps
  <1> QED BY <1>1, <1>2, <1>3, <1>4, <1>5, <1>6, <1>7, <1>8, <1>9, <1>10, <1>11, <1>12,
             <1>13, <1>14, <1>15, <1>16, <1>17, <1>18 DEF Next

\* The table is well formed in every state: one live slot for a key, a count
\* that is not too small, and an index that leads to every live slot or is not
\* usable, through every interleaving of operations, iterators and collections
\* (map.cpp: set, remove, growEntries, reindex, epochCurrent).
THEOREM TableInvariant == Spec => []Inv
  <1>1. Init => Inv
    BY InitKeeps
  <1>2. Inv /\ [Next]_vars => Inv'
    BY NextKeeps
  <1> QED BY <1>1, <1>2, PTL DEF Spec

\* The buckets and where the map is, which TypeOK also speaks of.
Placed ==
  /\ buckets \in [0 .. Cardinality(DOMAIN buckets) - 1 -> Nat]
  /\ indexAnchor \in Nat \union {Unbuilt} /\ mapAddr \in MapAddrs

\* Only reindex and insert write buckets.
LEMMA PlacedKept == Inv /\ Placed /\ [Next]_vars => Placed'
  <1> SUFFICES ASSUME Inv, Placed, [Next]_vars PROVE Placed'
    OBVIOUS
  <1>1. CASE Reindex
    <2>1. buckets' = Reindexed /\ indexAnchor' = mapAddr /\ mapAddr' = mapAddr
      BY <1>1 DEF Reindex, heap
    <2>2. PICK n \in Nat : Indexes(Reindexed, n)
      BY ReindexedIndexes DEF Inv
    <2>3. n \in Nat \ {0} /\ buckets' \in [0 .. n - 1 -> 0 .. Len(entries)] /\ Len(entries) \in Nat
      BY <2>1, <2>2 DEF Indexes, Spread, Inv, Types
    <2>4. 0 .. Len(entries) \subseteq Nat
      BY <2>3
    <2>5. buckets' \in [0 .. n - 1 -> Nat]
      BY <2>3, <2>4
    <2>6. Cardinality(DOMAIN buckets') = n
      BY <2>3, <2>5, CountOfBuckets
    <2> QED BY <2>1, <2>5, <2>6, SizesAssumption DEF Placed
  <1>2. CASE Insert
    <2>1. /\ op.pc = "insert" /\ buckets' = Place(buckets, HashKey(op.key), Len(entries) + 1)
          /\ indexAnchor' = indexAnchor /\ mapAddr' = mapAddr
      BY <1>2 DEF Insert, heap
    <2>2. PICK n : Indexes(buckets, n)
      BY <2>1, IndexThere
    <2>3. n \in Nat \ {0} /\ buckets \in [0 .. n - 1 -> Nat] /\ Len(entries) + 1 \in Nat
      BY <2>2 DEF Indexes, Spread, Inv, Types
    <2>4. buckets' \in [0 .. n - 1 -> Nat]
      BY <2>1, <2>3, PlaceType
    <2>5. Cardinality(DOMAIN buckets') = n
      BY <2>3, <2>4, CountOfBuckets
    <2> QED BY <2>1, <2>4, <2>5 DEF Placed
  <1>3. CASE Clear
    BY <1>3 DEF Clear, Placed, heap
  <1>4. CASE Collect
    <2>1. \E to, mapTo, old, dead, e : Collected(to, mapTo, old, dead, e)
      BY <1>4, CollectIs
    <2>2. mapAddr' \in MapAddrs
      BY <2>1 DEF Collected
    <2>3. buckets' = buckets /\ indexAnchor' = indexAnchor
      BY <1>4 DEF Collect
    <2> QED BY <2>2, <2>3 DEF Placed
  <1>5. CASE UNCHANGED <<buckets, indexAnchor, mapAddr>>
    BY <1>5 DEF Placed
  <1>6. ASSUME NEW k \in Keys, NEW v, NEW name, Call(name, k, v) \/ Forget(k)
        PROVE  UNCHANGED <<buckets, indexAnchor, mapAddr>>
    BY <1>6 DEF Call, Forget, table, heap
  <1>7. ASSUME Miss \/ ProbeGet \/ ProbeSet \/ ProbeDelete \/ Grow \/ Return \/ UNCHANGED vars
        PROVE  UNCHANGED <<buckets, indexAnchor, mapAddr>>
    BY <1>7 DEF Miss, ProbeGet, ProbeSet, ProbeDelete, Grow, Return, vars, table, heap
  <1>8. ASSUME NEW i \in Iters, MakeIterator(i) \/ IteratorStep(i) \/ IteratorEnd(i)
        PROVE  UNCHANGED <<buckets, indexAnchor, mapAddr>>
    BY <1>8 DEF MakeIterator, IteratorStep, IteratorEnd, table, heap
  <1> QED BY <1>1, <1>2, <1>3, <1>4, <1>5, <1>6, <1>7, <1>8 DEF Next

\* The state keeps its types; in particular the entries never outgrow the
\* capacity, whatever set, growEntries and the collector do (map.cpp).
THEOREM TypesHold == Spec => []TypeOK
  <1>1. Init => Placed
    <2>1. <<>> \in [0 .. Cardinality(DOMAIN <<>>) - 1 -> Nat]
      <3>1. DOMAIN <<>> = {} /\ Cardinality({}) = 0
        BY FS_EmptySet
      <3>2. 0 .. 0 - 1 = {}
        OBVIOUS
      <3> QED BY <3>1, <3>2
    <2> QED BY <2>1 DEF Init, Placed
  <1>2. Inv /\ Placed => TypeOK
    BY DEF Inv, Placed, Types, TypeOK, Op, Iter
  <1>3. Inv /\ Placed /\ [Next]_vars => Placed'
    BY PlacedKept
  <1> QED BY <1>1, <1>2, <1>3, TableInvariant, PTL DEF Spec

\* As many used buckets as the buckets' slots, at most.
LEMMA HalfFull ==
  ASSUME NEW n \in Nat \ {0}, NEW m \in Nat, 2 * m <= n, NEW b, Spread(b, n, m)
  PROVE  2 * Cardinality({x \in DOMAIN b : b[x] # 0}) <= Cardinality(DOMAIN b)
  <1>1. b \in [0 .. n - 1 -> 0 .. m]
    BY DEF Spread
  <1>2. Cardinality(DOMAIN b) = n
    BY <1>1, CountOfBuckets
  <1>3. PICK U, R : U = {x \in DOMAIN b : b[x] # 0} /\ R = 1 .. m
    OBVIOUS
  <1>4. IsFiniteSet(R) /\ Cardinality(R) = m
    BY <1>3, FS_Interval
  <1>5. DOMAIN b = 0 .. n - 1 /\ U \subseteq 0 .. n - 1
    BY <1>1, <1>3
  <1>6. IsFiniteSet(0 .. n - 1)
    <2>1. n - 1 \in Int /\ 0 \in Int
      OBVIOUS
    <2> QED BY <2>1, FS_Interval
  <1>7. IsFiniteSet(U)
    BY <1>5, <1>6, FS_Subset
  <1>8. PICK f : f = [x \in U |-> b[x]]
    OBVIOUS
  <1>9. f \in [U -> R] /\ \A x, y \in U : f[x] = f[y] => x = y
    BY <1>1, <1>3, <1>5, <1>8 DEF Spread
  <1>10. ~(Cardinality(R) < Cardinality(U))
    BY <1>4, <1>7, <1>9, FS_PigeonHole
  <1>11. Cardinality(U) \in Nat
    BY <1>7, FS_CardinalityType
  <1> QED BY <1>2, <1>3, <1>4, <1>10, <1>11

\* The comment of find ("the table is never more than half full - tombstoned
\* buckets included"): whenever a probe or an insert walks the index, at most
\* half of its buckets are used, so the walk meets an empty one and ends.
THEOREM ProbesEndHolds == Spec => []ProbesEnd
  <1>1. Inv => ProbesEnd
    <2> SUFFICES ASSUME Inv, op.pc \in {"probe", "insert"}
                 PROVE  2 * Cardinality({b \in DOMAIN buckets : buckets[b] # 0}) <= BucketCount
      BY DEF ProbesEnd
    <2>1. PICK n : Indexes(buckets, n)
      BY IndexThere
    <2>2. PICK m : m = Len(entries)
      OBVIOUS
    <2>3. n \in Nat \ {0} /\ m \in Nat /\ 2 * m <= n /\ Spread(buckets, n, m)
      BY <2>1, <2>2 DEF Indexes, Inv, Types
    <2> QED BY <2>3, HalfFull DEF BucketCount
  <1> QED BY <1>1, TableInvariant, PTL

\* No iterator gives a key twice unless it was removed and added anew: a slot
\* that holds a key given before is not ahead of the cursor, however often
\* growEntries renumbered the slots (rtMapIteratorStep).
THEOREM NeverGivenTwiceHolds == Spec => []NeverGivenTwice
  <1>1. Inv => NeverGivenTwice
    BY DEF Inv
  <1> QED BY <1>1, TableInvariant, PTL

\* The promise of find: whenever an operation probes, the probe returns a slot
\* exactly when the key is in the table, and the slot is the key's.
FindIsRight ==
  op.pc = "probe" =>
    /\ op.key \in LiveKeys <=> Probe(op.key) # 0
    /\ Probe(op.key) # 0 => LiveAt(Probe(op.key)) /\ entries[Probe(op.key)].key = op.key

\* find never misses a key that is there and never returns another's slot,
\* although keys move, tombstones stay in the buckets and slots are renumbered.
THEOREM FindIsRightHolds == Spec => []FindIsRight
  <1>1. Inv => FindIsRight
    <2> SUFFICES ASSUME Inv, op.pc = "probe"
                 PROVE  /\ op.key \in LiveKeys <=> Probe(op.key) # 0
                        /\ Probe(op.key) # 0 => LiveAt(Probe(op.key)) /\ entries[Probe(op.key)].key = op.key
      BY DEF FindIsRight
    <2>1. PICK n : Indexes(buckets, n)
      BY IndexThere
    <2>2. op.key \in Keys /\ Types /\ Distinct(entries)
      BY DEF Inv, OpInv, ListInv
    <2>3. Hole \notin Keys
      BY KeysAssumption
    <2> QED BY <2>1, <2>2, <2>3, ProbeFinds DEF LiveAt
  <1> QED BY <1>1, TableInvariant, PTL

-----------------------------------------------------------------------------
(* The table implements OrderedMap *)

\* The order of the keys of an entry list.
OrderOf(es) == KeysOf(Filtered(es, Live))

\* f gives every live key its value and the others none.
Valued(es, f) ==
  /\ f = [k \in Keys |-> f[k]]
  /\ \A s \in SlotsOf(es) : f[es[s].key] = es[s].val
  /\ \A k \in Keys \ KeysIn(es) : f[k] = Absent

\* The values are given by the entries alone.
LEMMA ValuedOnce ==
  ASSUME NEW es \in Seq(Entry), NEW f, NEW g, Valued(es, f), Valued(es, g)
  PROVE  f = g
  <1>1. \A k \in Keys : f[k] = g[k]
    <2> SUFFICES ASSUME NEW k \in Keys PROVE f[k] = g[k]
      OBVIOUS
    <2>1. CASE k \in KeysIn(es)
      <3>1. PICK s \in SlotsOf(es) : k = es[s].key
        BY <2>1 DEF KeysIn
      <3> QED BY <3>1 DEF Valued
    <2>2. CASE k \notin KeysIn(es)
      BY <2>2 DEF Valued
    <2> QED BY <2>1, <2>2
  <1>2. PICK a, b : a = [k \in Keys |-> f[k]] /\ b = [k \in Keys |-> g[k]]
    OBVIOUS
  <1>3. a = b
    BY <1>1, <1>2
  <1>4. f = a /\ g = b
    BY <1>2 DEF Valued
  <1> QED BY <1>3, <1>4

\* ValueOf before a step.
LEMMA ValueOfIs ==
  ASSUME entries \in Seq(Entry), Distinct(entries)
  PROVE  Valued(entries, ValueOf)
  <1>1. PICK es : es = entries
    OBVIOUS
  <1>2. PICK f : f = ValueOf
    OBVIOUS
  <1>3. f = [k \in Keys |-> IF k \in KeysIn(es)
                             THEN (CHOOSE e \in {es[s] : s \in SlotsOf(es)} : e.key = k).val
                             ELSE Absent]
    BY <1>1, <1>2, Views DEF ValueOf
  <1>4. f = [k \in Keys |-> f[k]]
    BY <1>3
  <1>5. ASSUME NEW s \in SlotsOf(es) PROVE f[es[s].key] = es[s].val
    <2>1. s \in 1 .. Len(es) /\ es[s].key # Hole /\ es[s] \in Entry
      BY <1>1 DEF SlotsOf
    <2>2. es[s].key \in Keys /\ es[s].key \in KeysIn(es)
      BY <2>1, LiveEntries DEF KeysIn
    <2>3. PICK e : e = CHOOSE x \in {es[t] : t \in SlotsOf(es)} : x.key = es[s].key
      OBVIOUS
    <2>4. e \in {es[t] : t \in SlotsOf(es)} /\ e.key = es[s].key
      BY <2>3
    <2>5. PICK t \in SlotsOf(es) : e = es[t]
      BY <2>4
    <2>6. t = s
      BY <1>1, <2>1, <2>4, <2>5 DEF Distinct, SlotsOf
    <2> QED BY <1>3, <2>2, <2>3, <2>5, <2>6
  <1>6. \A k \in Keys \ KeysIn(es) : f[k] = Absent
    BY <1>3
  <1> QED BY <1>1, <1>2, <1>4, <1>5, <1>6 DEF Valued

\* ValueOf after a step.
LEMMA ValueOfAfter ==
  ASSUME entries' \in Seq(Entry), Distinct(entries')
  PROVE  Valued(entries', ValueOf')
  <1>1. PICK es : es = entries'
    OBVIOUS
  <1>2. PICK f : f = ValueOf'
    OBVIOUS
  <1>3. f = [k \in Keys |-> IF k \in KeysIn(es)
                             THEN (CHOOSE e \in {es[s] : s \in SlotsOf(es)} : e.key = k).val
                             ELSE Absent]
    BY <1>1, <1>2, ViewsAfter DEF ValueOf
  <1>4. f = [k \in Keys |-> f[k]]
    BY <1>3
  <1>5. ASSUME NEW s \in SlotsOf(es) PROVE f[es[s].key] = es[s].val
    <2>1. s \in 1 .. Len(es) /\ es[s].key # Hole /\ es[s] \in Entry
      BY <1>1 DEF SlotsOf
    <2>2. es[s].key \in Keys /\ es[s].key \in KeysIn(es)
      BY <2>1, LiveEntries DEF KeysIn
    <2>3. PICK e : e = CHOOSE x \in {es[t] : t \in SlotsOf(es)} : x.key = es[s].key
      OBVIOUS
    <2>4. e \in {es[t] : t \in SlotsOf(es)} /\ e.key = es[s].key
      BY <2>3
    <2>5. PICK t \in SlotsOf(es) : e = es[t]
      BY <2>4
    <2>6. t = s
      BY <1>1, <2>1, <2>4, <2>5 DEF Distinct, SlotsOf
    <2> QED BY <1>3, <2>2, <2>3, <2>5, <2>6
  <1>6. \A k \in Keys \ KeysIn(es) : f[k] = Absent
    BY <1>3
  <1> QED BY <1>1, <1>2, <1>4, <1>5, <1>6 DEF Valued

\* Order before and after a step, and the filter of the abstract map.
LEMMA OrderIs ==
  /\ Order = OrderOf(entries) /\ Order' = OrderOf(entries')
  /\ \A s, gone : Abstract!Without(s, gone) = Filtered(s, Keys \ gone)
  <1>1. Order = OrderOf(entries) /\ Order' = OrderOf(entries')
    BY DEF Order, OrderOf, KeysOf, Compacted
  <1>2. ASSUME NEW s, NEW gone PROVE Abstract!Without(s, gone) = Filtered(s, Keys \ gone)
    BY DEF Abstract!Without, Abstract!Filtered, Filtered
  <1> QED BY <1>1, <1>2

\* The order has live keys only.
LEMMA OrderKeys ==
  ASSUME NEW es \in Seq(Entry)
  PROVE  OrderOf(es) \in Seq(Keys) /\ \A n \in 1 .. Len(OrderOf(es)) : OrderOf(es)[n] \in KeysIn(es)
  <1>1. PICK fs : fs = Filtered(es, Live)
    OBVIOUS
  <1>2. /\ fs \in Seq(Entry) /\ SlotsOf(fs) = 1 .. Len(fs) /\ KeysIn(fs) = KeysIn(es)
    BY <1>1, CompactedIs
  <1>3. \A n \in 1 .. Len(fs) : fs[n].key \in KeysIn(es)
    <2>1. \A n \in SlotsOf(fs) : fs[n].key \in KeysIn(fs)
      BY DEF KeysIn
    <2> QED BY <1>2, <2>1
  <1>4. KeysIn(es) \subseteq Keys
    BY SlotsFinite
  <1>5. PICK o : o = OrderOf(es)
    OBVIOUS
  <1>6. o = [n \in 1 .. Len(fs) |-> fs[n].key]
    BY <1>1, <1>5 DEF OrderOf, KeysOf
  <1>7. o \in Seq(Keys) /\ Len(o) = Len(fs) /\ \A n \in 1 .. Len(fs) : o[n] = fs[n].key
    BY <1>2, <1>3, <1>4, <1>6
  <1> QED BY <1>3, <1>5, <1>7

\* Taking out keys that are not there changes nothing.
LEMMA OrderWithout ==
  ASSUME NEW es \in Seq(Entry), NEW gone, gone \intersect KeysIn(es) = {}
  PROVE  Filtered(OrderOf(es), Keys \ gone) = OrderOf(es)
  <1>1. PICK o, keep : o = OrderOf(es) /\ keep = Keys \ gone
    OBVIOUS
  <1>2. o \in Seq(Keys) /\ \A n \in 1 .. Len(o) : o[n] \in KeysIn(es)
    BY <1>1, OrderKeys
  <1>3. \A n \in 1 .. Len(o) : o[n] \in keep
    BY <1>1, <1>2, SlotsFinite
  <1>4. Filtered(o, keep) = o
    BY <1>2, <1>3, FilteredSame
  <1> QED BY <1>1, <1>4

\* A step that leaves the entries, the program's keys and the call alone.
LEMMA Unseen ==
  ASSUME entries' = entries, held' = held, op'.name = op.name, op'.key = op.key,
         op'.val = op.val, op'.res = op.res
  PROVE  UNCHANGED Abstract!vars
  <1>1. Order' = Order
    BY OrderIs
  <1>2. ValueOf' = ValueOf
    <2>1. LiveSlots' = LiveSlots /\ LiveKeys' = LiveKeys
      BY Views, ViewsAfter
    <2> QED BY <2>1 DEF ValueOf
  <1> QED BY <1>1, <1>2 DEF Abstract!vars

\* Call is the abstract call.
LEMMA CallRefines ==
  ASSUME Inv, NEW name \in {"get", "set", "delete"}, NEW k \in Keys, NEW v, Call(name, k, v)
  PROVE  k \in held /\ Abstract!Call(name, k, v)
  <1>1. op.pc = "idle" /\ k \in held /\ UNCHANGED <<table, weak, heap, held, walks>>
    BY DEF Call
  <1>2. op = Idle
    BY <1>1 DEF Inv, OpInv
  <1>3. [name |-> op.name, key |-> op.key, val |-> op.val] = Abstract!NoCall
    BY <1>2 DEF Abstract!NoCall, Idle
  <1>4. PICK o : o = [Idle EXCEPT !.name = name, !.key = k, !.val = v]
    OBVIOUS
  <1>5. op' = IF liveCount = 0 THEN [o EXCEPT !.pc = "miss"] ELSE EnsureIndex(o, "probe")
    BY <1>4 DEF Call
  <1>10. o = [pc |-> "idle", name |-> name, key |-> k, val |-> v,
              cap |-> 0, then |-> "none", res |-> "none"]
    BY <1>4 DEF Idle
  <1>6. op'.name = name /\ op'.key = k /\ op'.val = v /\ op'.res = "none"
    BY <1>5, <1>10 DEF EnsureIndex
  <1>7. entries' = entries /\ held' = held /\ op.res = "none"
    BY <1>1, <1>2 DEF table, Idle
  <1>8. Order' = Order
    BY <1>7, OrderIs
  <1>9. ValueOf' = ValueOf
    <2>1. LiveSlots' = LiveSlots /\ LiveKeys' = LiveKeys
      BY <1>7, Views, ViewsAfter
    <2> QED BY <1>7, <2>1 DEF ValueOf
  <1> QED BY <1>1, <1>3, <1>6, <1>7, <1>8, <1>9 DEF Abstract!Call

\* A miss answers get and delete as the map without the key does; set has not
\* answered yet.
LEMMA MissRefines ==
  ASSUME Inv, Miss
  PROVE  Abstract!Get \/ Abstract!Delete \/ UNCHANGED Abstract!vars
  <1>1. op.pc \in {"miss", "probe"} /\ op' = AfterMiss(op)
        /\ UNCHANGED <<table, weak, heap, held, walks>>
    BY DEF Miss
  <1>2. /\ op \in Op /\ op.key \in Keys /\ op.name # "none" /\ op.res = "none"
        /\ entries \in Seq(Entry) /\ Distinct(entries)
    BY <1>1 DEF Inv, Types, OpInv, ListInv
  <1>3. op.name \in {"get", "set", "delete"}
    BY <1>2 DEF Op, Names
  <1>4. op.key \notin KeysIn(entries)
    BY MissIsMissing, Views
  <1>5. Valued(entries, ValueOf)
    BY <1>2, ValueOfIs
  <1>6. ValueOf[op.key] = Absent
    BY <1>2, <1>4, <1>5 DEF Valued
  <1>7. entries' = entries /\ held' = held
    BY <1>1 DEF table
  <1>8. Order' = Order /\ ValueOf' = ValueOf
    <2>1. LiveSlots' = LiveSlots /\ LiveKeys' = LiveKeys
      BY <1>7, Views, ViewsAfter
    <2> QED BY <1>7, <2>1, OrderIs DEF ValueOf
  <1>9. ASSUME NEW res \in Answers, op' = Done(op, res)
        PROVE  op'.name = op.name /\ op'.key = op.key /\ op'.val = op.val /\ op'.res = res
    BY <1>2, <1>9, DoneIs
  <1>10. CASE op.name = "get"
    <2>1. op' = Done(op, Absent) /\ Absent \in Answers
      BY <1>1, <1>10, AfterMissIs DEF Answers
    <2>2. op'.name = op.name /\ op'.key = op.key /\ op'.val = op.val /\ op'.res = Absent
      BY <1>9, <2>1
    <2>3. Abstract!Get
      BY <1>2, <1>6, <1>7, <1>8, <1>10, <2>2 DEF Abstract!Get, Abstract!Answers
    <2> QED BY <2>3
  <1>11. CASE op.name = "delete"
    <2>1. op' = Done(op, "false") /\ "false" \in Answers
      BY <1>1, <1>11, AfterMissIs DEF Answers
    <2>2. op'.name = op.name /\ op'.key = op.key /\ op'.val = op.val /\ op'.res = "false"
      BY <1>9, <2>1
    <2>3. Abstract!Without(Order, {op.key}) = Order
      BY <1>2, <1>4, OrderIs, OrderWithout
    <2>4. [ValueOf EXCEPT ![op.key] = Absent] = ValueOf
      <3>1. PICK f, k : f = ValueOf /\ k = op.key
        OBVIOUS
      <3>2. f = [x \in Keys |-> f[x]] /\ f[k] = Absent
        BY <1>5, <1>6, <3>1 DEF Valued
      <3>3. [f EXCEPT ![k] = Absent] = f
        BY <3>2
      <3> QED BY <3>1, <3>3
    <2>5. Abstract!Delete
      BY <1>2, <1>6, <1>7, <1>8, <1>11, <2>2, <2>3, <2>4 DEF Abstract!Delete, Abstract!Answers
    <2> QED BY <2>5
  <1>12. CASE op.name = "set"
    <2>1. op'.name = op.name /\ op'.key = op.key /\ op'.val = op.val /\ op'.res = op.res
      <3>1. CASE Len(entries) >= cap
        <4>1. op' = [op EXCEPT !.pc = "grow", !.cap = NewCapacity(Cardinality(LiveSlots))]
          BY <1>1, <1>12, <3>1, AfterMissIs
        <4> QED BY <1>2, <4>1 DEF Op
      <3>2. CASE ~(Len(entries) >= cap)
        <4>1. op' = EnsureIndex(op, "insert")
          BY <1>1, <1>12, <3>2, AfterMissIs
        <4> QED BY <1>2, <4>1, EnsureIndexIs
      <3> QED BY <3>1, <3>2
    <2> QED BY <1>7, <2>1, Unseen
  <1> QED BY <1>3, <1>10, <1>11, <1>12

\* get answers the value of the key.
LEMMA ProbeGetRefines ==
  ASSUME Inv, ProbeGet
  PROVE  Abstract!Get
  <1>1. PICK p :
          /\ op.pc = "probe" /\ op.name = "get" /\ Probe(op.key) # 0 /\ p = Probe(op.key)
          /\ op' = Done(op, entries[p].val)
          /\ UNCHANGED <<table, weak, heap, held, walks>>
    BY DEF ProbeGet
  <1>2. p \in 1 .. Len(entries) /\ entries[p].key = op.key /\ entries[p] \in Live /\ op.key \in Keys
    BY <1>1, ProbeHits
  <1>3. op \in Op /\ op.res = "none" /\ entries \in Seq(Entry) /\ Distinct(entries)
    BY <1>1 DEF Inv, Types, OpInv, ListInv
  <1>4. p \in SlotsOf(entries)
    BY <1>2, KeysAssumption DEF SlotsOf
  <1>5. ValueOf[op.key] = entries[p].val
    BY <1>2, <1>3, <1>4, ValueOfIs DEF Valued
  <1>6. entries[p].val \in Answers
    BY <1>2 DEF Live, Answers
  <1>7. op'.name = op.name /\ op'.key = op.key /\ op'.val = op.val /\ op'.res = entries[p].val
    BY <1>1, <1>3, <1>6, DoneIs
  <1>8. entries' = entries /\ held' = held
    BY <1>1 DEF table
  <1>9. Order' = Order /\ ValueOf' = ValueOf
    <2>1. LiveSlots' = LiveSlots /\ LiveKeys' = LiveKeys
      BY <1>8, Views, ViewsAfter
    <2> QED BY <1>8, <2>1, OrderIs DEF ValueOf
  <1> QED BY <1>1, <1>3, <1>5, <1>7, <1>8, <1>9 DEF Abstract!Get, Abstract!Answers

\* set of a key that is there keeps its place and changes its value.
LEMMA ProbeSetRefines ==
  ASSUME Inv, ProbeSet
  PROVE  Abstract!Set
  <1>1. PICK p :
          /\ op.pc = "probe" /\ op.name = "set" /\ Probe(op.key) # 0 /\ p = Probe(op.key)
          /\ entries' = [entries EXCEPT ![p].val = op.val]
          /\ op' = Done(op, "ok")
          /\ held' = held
    BY DEF ProbeSet
  <1>2. /\ p \in 1 .. Len(entries) /\ entries[p].key = op.key /\ entries[p] \in Live
        /\ op.key \in Keys /\ \A s \in 1 .. Len(entries) : entries[s].key = op.key => s = p
    BY <1>1, ProbeHits
  <1>3. op \in Op /\ op.res = "none" /\ op.val \in Vals /\ entries \in Seq(Entry) /\ Distinct(entries)
    BY <1>1 DEF Inv, Types, OpInv, ListInv
  <1>4. PICK es, fs, f, k, v :
          es = entries /\ fs = entries' /\ f = ValueOf /\ k = op.key /\ v = op.val
    OBVIOUS
  <1>5. PICK e : e = [es[p] EXCEPT !.val = v]
    OBVIOUS
  <1>6. e \in Live /\ e \in Entry /\ e.key = k /\ e.val = v
    BY <1>2, <1>3, <1>4, <1>5 DEF Live, Entry
  <1>7. fs = [es EXCEPT ![p] = e]
    BY <1>1, <1>4, <1>5
  <1>8. /\ fs \in Seq(Entry) /\ Len(fs) = Len(es) /\ fs[p] = e
        /\ \A s \in 1 .. Len(es) : s # p => fs[s] = es[s]
    BY <1>2, <1>3, <1>4, <1>6, <1>7
  <1>9. \A s \in 1 .. Len(es) : fs[s].key = es[s].key
    BY <1>2, <1>4, <1>6, <1>8
  <1>10. Distinct(fs)
    BY <1>3, <1>4, <1>8, <1>9 DEF Distinct
  <1>11. SlotsOf(fs) = SlotsOf(es) /\ p \in SlotsOf(es)
    BY <1>2, <1>4, <1>8, <1>9, KeysAssumption DEF SlotsOf
  <1>12. KeysIn(fs) = KeysIn(es)
    BY <1>9, <1>11 DEF KeysIn, SlotsOf
  <1>13. Valued(es, f)
    BY <1>3, <1>4, ValueOfIs
  <1>14. f[k] # Absent
    <2>1. f[k] = es[p].val
      BY <1>2, <1>4, <1>11, <1>13 DEF Valued
    <2> QED BY <1>2, <1>4, <2>1, KeysAssumption DEF Live
  <1>15. PICK g : g = [f EXCEPT ![k] = v]
    OBVIOUS
  <1>16. Valued(fs, g)
    <2>1. g = [x \in Keys |-> IF x = k THEN v ELSE f[x]]
      BY <1>2, <1>4, <1>13, <1>15 DEF Valued
    <2>2. g = [x \in Keys |-> g[x]]
      BY <2>1
    <2>3. ASSUME NEW s \in SlotsOf(fs) PROVE g[fs[s].key] = fs[s].val
      <3>1. s \in 1 .. Len(es) /\ fs[s].key # Hole /\ fs[s] \in Entry
        BY <1>8 DEF SlotsOf
      <3>2. fs[s].key \in Keys
        BY <3>1, LiveEntries
      <3>3. CASE s = p
        BY <1>2, <1>4, <1>6, <1>8, <2>1, <3>2, <3>3
      <3>4. CASE s # p
        <4>1. fs[s] = es[s] /\ es[s].key # k
          BY <1>2, <1>4, <1>8, <3>1, <3>4
        <4>2. f[es[s].key] = es[s].val
          BY <1>11, <1>13 DEF Valued
        <4> QED BY <2>1, <3>2, <4>1, <4>2
      <3> QED BY <3>3, <3>4
    <2>4. ASSUME NEW x \in Keys \ KeysIn(fs) PROVE g[x] = Absent
      <3>1. k \in KeysIn(es)
        BY <1>2, <1>4, <1>11 DEF KeysIn
      <3>2. f[x] = Absent /\ x # k
        BY <1>12, <1>13, <3>1 DEF Valued
      <3> QED BY <2>1, <3>2
    <2> QED BY <2>2, <2>3, <2>4 DEF Valued
  <1>17. ValueOf' = g
    <2>1. Valued(fs, ValueOf')
      BY <1>4, <1>8, <1>10, ValueOfAfter
    <2> QED BY <1>8, <1>16, <2>1, ValuedOnce
  <1>18. Order' = Order
    <2>1. Erased(es, fs, {})
      <3>1. \A s \in 1 .. Len(es) : fs[s] \in Live <=> es[s] \in Live
        <4>1. \A s \in 1 .. Len(es) : fs[s] \in Entry /\ es[s] \in Entry
          BY <1>3, <1>4, <1>8
        <4> QED BY <1>9, <4>1, LiveEntries
      <3> QED BY <1>8, <1>9, <3>1 DEF Erased
    <2>2. OrderErased(es, fs, {})
      BY <1>3, <1>4, <1>8, <2>1, ErasedOrder
    <2>3. OrderOf(fs) = Filtered(OrderOf(es), Keys \ {})
      BY <2>2 DEF OrderErased, OrderOf
    <2>4. Filtered(OrderOf(es), Keys \ {}) = OrderOf(es)
      BY <1>3, <1>4, OrderWithout
    <2> QED BY <1>4, <2>3, <2>4, OrderIs
  <1>19. "ok" \in Answers
    BY DEF Answers
  <1>20. op'.name = op.name /\ op'.key = op.key /\ op'.val = op.val /\ op'.res = "ok"
    BY <1>1, <1>3, <1>19, DoneIs
  <1> QED BY <1>1, <1>3, <1>4, <1>14, <1>15, <1>17, <1>18, <1>20 DEF Abstract!Set, Abstract!Answers

\* fs is es with tombstones for the keys in gone, and g is f without them.
Holed(es, fs, gone) ==
  /\ Len(fs) = Len(es)
  /\ \A s \in 1 .. Len(es) : fs[s] = IF es[s].key \in gone THEN Tombstone ELSE es[s]
Dropped(f, g, gone) == g = [k \in Keys |-> IF k \in gone THEN Absent ELSE f[k]]

\* Erasing the entries of some keys takes those keys out of the map.
LEMMA ErasedMap ==
  ASSUME NEW es \in Seq(Entry), NEW fs \in Seq(Entry), NEW gone \in SUBSET Keys,
         Holed(es, fs, gone), NEW f, NEW g, Valued(es, f), Dropped(f, g, gone)
  PROVE  Valued(fs, g) /\ OrderOf(fs) = Filtered(OrderOf(es), Keys \ gone)
  <1>0. /\ Len(fs) = Len(es)
        /\ \A s \in 1 .. Len(es) : fs[s] = IF es[s].key \in gone THEN Tombstone ELSE es[s]
        /\ g = [k \in Keys |-> IF k \in gone THEN Absent ELSE f[k]]
    BY DEF Holed, Dropped
  <1>1. Hole \notin gone /\ Tombstone.key = Hole /\ Tombstone \notin Live
    <2>1. Tombstone.key = Hole /\ Tombstone \in Entry
      BY DEF Tombstone, Entry
    <2> QED BY <2>1, KeysAssumption, LiveEntries
  <1>2. SlotsOf(fs) = {s \in SlotsOf(es) : es[s].key \notin gone}
    BY <1>0, <1>1 DEF SlotsOf
  <1>3. \A s \in SlotsOf(fs) : fs[s] = es[s] /\ es[s].key \notin gone /\ s \in SlotsOf(es)
    BY <1>0, <1>2 DEF SlotsOf
  <1>4. KeysIn(fs) = KeysIn(es) \ gone
    <2>1. ASSUME NEW k \in KeysIn(fs) PROVE k \in KeysIn(es) \ gone
      <3>1. PICK s \in SlotsOf(fs) : k = fs[s].key
        BY DEF KeysIn
      <3> QED BY <1>3, <3>1 DEF KeysIn
    <2>2. ASSUME NEW k \in KeysIn(es) \ gone PROVE k \in KeysIn(fs)
      <3>1. PICK s \in SlotsOf(es) : k = es[s].key
        BY DEF KeysIn
      <3>2. s \in SlotsOf(fs) /\ fs[s] = es[s]
        BY <1>2, <1>3, <3>1
      <3> QED BY <3>1, <3>2 DEF KeysIn
    <2> QED BY <2>1, <2>2
  <1>5. KeysIn(es) \subseteq Keys /\ KeysIn(fs) \subseteq Keys
    BY SlotsFinite
  <1>6. Valued(fs, g)
    <2>1. g = [k \in Keys |-> g[k]]
      BY <1>0
    <2>2. ASSUME NEW s \in SlotsOf(fs) PROVE g[fs[s].key] = fs[s].val
      <3>1. fs[s] = es[s] /\ es[s].key \notin gone /\ s \in SlotsOf(es)
        BY <1>3
      <3>2. fs[s].key \in Keys
        BY <1>5 DEF KeysIn
      <3>3. f[es[s].key] = es[s].val
        BY <3>1 DEF Valued
      <3> QED BY <1>0, <3>1, <3>2, <3>3
    <2>3. ASSUME NEW k \in Keys \ KeysIn(fs) PROVE g[k] = Absent
      <3>1. CASE k \in gone
        BY <1>0, <3>1
      <3>2. CASE k \notin gone
        BY <1>0, <1>4, <3>2 DEF Valued
      <3> QED BY <3>1, <3>2
    <2> QED BY <2>1, <2>2, <2>3 DEF Valued
  <1>7. Erased(es, fs, gone)
    BY <1>0, <1>1 DEF Erased
  <1>8. OrderErased(es, fs, gone)
    BY <1>7, ErasedOrder
  <1> QED BY <1>6, <1>8 DEF OrderErased, OrderOf

\* delete takes the key out of the map.
LEMMA ProbeDeleteRefines ==
  ASSUME Inv, ProbeDelete
  PROVE  Abstract!Delete
  <1>0. Inv'
    BY ProbeDeleteKeeps
  <1>1. PICK p :
          /\ op.pc = "probe" /\ op.name = "delete" /\ Probe(op.key) # 0 /\ p = Probe(op.key)
          /\ entries' = [entries EXCEPT ![p] = Tombstone]
          /\ op' = Done(op, "true")
          /\ held' = held
    BY DEF ProbeDelete
  <1>2. /\ p \in 1 .. Len(entries) /\ entries[p].key = op.key /\ entries[p] \in Live
        /\ op.key \in Keys /\ \A s \in 1 .. Len(entries) : entries[s].key = op.key => s = p
    BY <1>1, ProbeHits
  <1>3. /\ op \in Op /\ op.res = "none" /\ entries \in Seq(Entry) /\ Distinct(entries)
        /\ entries' \in Seq(Entry) /\ Distinct(entries')
    BY <1>0, <1>1 DEF Inv, Types, OpInv, ListInv
  <1>4. PICK es, fs, f, k :
          es = entries /\ fs = entries' /\ f = ValueOf /\ k = op.key
    OBVIOUS
  <1>5. /\ Len(fs) = Len(es)
        /\ \A s \in 1 .. Len(es) : fs[s] = IF es[s].key \in {k} THEN Tombstone ELSE es[s]
    <2>1. Len(fs) = Len(es) /\ fs[p] = Tombstone /\ \A s \in 1 .. Len(es) : s # p => fs[s] = es[s]
      BY <1>1, <1>2, <1>3, <1>4
    <2> QED BY <1>2, <1>4, <2>1
  <1>6. Valued(es, f) /\ Valued(fs, ValueOf')
    BY <1>3, <1>4, ValueOfIs, ValueOfAfter
  <1>7. PICK g : g = [x \in Keys |-> IF x \in {k} THEN Absent ELSE f[x]]
    OBVIOUS
  <1>8. Valued(fs, g) /\ OrderOf(fs) = Filtered(OrderOf(es), Keys \ {k})
    <2>1. {k} \in SUBSET Keys
      BY <1>2, <1>4
    <2>2. es \in Seq(Entry) /\ fs \in Seq(Entry)
      BY <1>3, <1>4
    <2>3. PICK gone : gone = {k}
      OBVIOUS
    <2>4. gone \in SUBSET Keys /\ Holed(es, fs, gone) /\ Dropped(f, g, gone)
      BY <1>5, <1>7, <2>1, <2>3 DEF Holed, Dropped
    <2>5. Valued(fs, g) /\ OrderOf(fs) = Filtered(OrderOf(es), Keys \ gone)
      BY <1>6, <2>2, <2>4, ErasedMap
    <2> QED BY <2>3, <2>5
  <1>9. ValueOf' = g
    BY <1>3, <1>4, <1>6, <1>8, ValuedOnce
  <1>10. g = [f EXCEPT ![k] = Absent]
    BY <1>2, <1>4, <1>6, <1>7 DEF Valued
  <1>11. Order' = Abstract!Without(Order, {op.key})
    BY <1>4, <1>8, OrderIs
  <1>12. f[k] # Absent
    <2>1. p \in SlotsOf(es)
      BY <1>2, <1>4, KeysAssumption DEF SlotsOf
    <2>2. f[k] = es[p].val
      BY <1>2, <1>4, <1>6, <2>1 DEF Valued
    <2> QED BY <1>2, <1>4, <2>2, KeysAssumption DEF Live
  <1>13. "true" \in Answers
    BY DEF Answers
  <1>14. op'.name = op.name /\ op'.key = op.key /\ op'.val = op.val /\ op'.res = "true"
    BY <1>1, <1>3, <1>13, DoneIs
  <1> QED BY <1>1, <1>3, <1>4, <1>9, <1>10, <1>11, <1>12, <1>14 DEF Abstract!Delete, Abstract!Answers

\* growEntries is not seen by the program.
LEMMA GrowRefines ==
  ASSUME Inv, Grow
  PROVE  UNCHANGED Abstract!vars
  <1>0. Inv'
    BY GrowKeeps
  <1>1. /\ entries' = Filtered(entries, Live) /\ held' = held
        /\ op' = [op EXCEPT !.pc = "index", !.then = "insert"]
    BY DEF Grow, Compacted
  <1>2. /\ op \in Op /\ entries \in Seq(Entry) /\ Distinct(entries)
        /\ entries' \in Seq(Entry) /\ Distinct(entries')
    BY <1>0 DEF Inv, Types, ListInv
  <1>3. PICK es, fs, f : es = entries /\ fs = entries' /\ f = ValueOf
    OBVIOUS
  <1>4. /\ fs \in Seq(Entry) /\ SlotsOf(fs) = 1 .. Len(fs) /\ KeysIn(fs) = KeysIn(es)
        /\ \A n \in 1 .. Len(fs) : /\ fs[n] \in Live
                                   /\ \E m \in SlotsOf(es) : n <= m /\ fs[n] = es[m]
    BY <1>1, <1>2, <1>3, CompactedIs
  <1>5. Filtered(fs, Live) = fs
    BY <1>4, FilteredSame
  <1>6. Order' = Order
    BY <1>1, <1>3, <1>5, OrderIs DEF OrderOf
  <1>7. Valued(es, f) /\ Valued(fs, ValueOf')
    BY <1>2, <1>3, ValueOfIs, ValueOfAfter
  <1>8. Valued(fs, f)
    <2>1. ASSUME NEW n \in SlotsOf(fs) PROVE f[fs[n].key] = fs[n].val
      <3>1. PICK m \in SlotsOf(es) : fs[n] = es[m]
        BY <1>4
      <3> QED BY <1>7, <3>1 DEF Valued
    <2> QED BY <1>4, <1>7, <2>1 DEF Valued
  <1>9. ValueOf' = ValueOf
    BY <1>3, <1>4, <1>7, <1>8, ValuedOnce
  <1>10. op'.name = op.name /\ op'.key = op.key /\ op'.val = op.val /\ op'.res = op.res
    BY <1>1, <1>2 DEF Op
  <1> QED BY <1>1, <1>6, <1>9, <1>10 DEF Abstract!vars

\* set of a new key puts it at the end.
LEMMA InsertRefines ==
  ASSUME Inv, Insert
  PROVE  Abstract!Set
  <1>0. Inv'
    BY InsertKeeps
  <1>1. /\ op.pc = "insert" /\ held' = held
        /\ entries' = Append(entries, [key |-> op.key, val |-> op.val])
        /\ op' = Done(op, "ok")
    BY DEF Insert
  <1>2. /\ op \in Op /\ op.res = "none" /\ op.name = "set" /\ op.val \in Vals /\ op.key \in Keys
        /\ op.key \notin LiveKeys
        /\ entries \in Seq(Entry) /\ Distinct(entries)
        /\ entries' \in Seq(Entry) /\ Distinct(entries')
    BY <1>0, <1>1 DEF Inv, Types, OpInv, ListInv, Missing
  <1>3. PICK es, fs, f, k, v :
          es = entries /\ fs = entries' /\ f = ValueOf /\ k = op.key /\ v = op.val
    OBVIOUS
  <1>4. PICK e : e = [key |-> k, val |-> v]
    OBVIOUS
  <1>5. e \in Live /\ e \in Entry /\ e.key = k /\ e.val = v /\ k \notin KeysIn(es) /\ fs = Append(es, e)
    BY <1>1, <1>2, <1>3, <1>4, Views DEF Live, Entry
  <1>6. /\ fs \in Seq(Entry) /\ Len(fs) = Len(es) + 1 /\ fs[Len(es) + 1] = e
        /\ \A s \in 1 .. Len(es) : fs[s] = es[s]
    BY <1>2, <1>3, <1>5
  <1>7. KeysIn(fs) = KeysIn(es) \union {k}
    <2>1. es \in Seq(Entry) /\ e \in Live /\ e.key \notin KeysIn(es) /\ fs = Append(es, e)
      BY <1>2, <1>3, <1>5
    <2>2. KeysIn(fs) = KeysIn(es) \union {e.key}
      BY <2>1, LongerKeeps
    <2> QED BY <1>5, <2>2
  <1>8. Valued(es, f) /\ Valued(fs, ValueOf')
    BY <1>2, <1>3, ValueOfIs, ValueOfAfter
  <1>9. f[k] = Absent
    BY <1>2, <1>3, <1>5, <1>8 DEF Valued
  <1>10. PICK g : g = [f EXCEPT ![k] = v]
    OBVIOUS
  <1>11. Valued(fs, g)
    <2>1. g = [x \in Keys |-> IF x = k THEN v ELSE f[x]]
      BY <1>2, <1>3, <1>8, <1>10 DEF Valued
    <2>2. g = [x \in Keys |-> g[x]]
      BY <2>1
    <2>3. ASSUME NEW s \in SlotsOf(fs) PROVE g[fs[s].key] = fs[s].val
      <3>1. CASE s = Len(es) + 1
        BY <1>2, <1>3, <1>5, <1>6, <2>1, <3>1
      <3>2. CASE s # Len(es) + 1
        <4>1. s \in 1 .. Len(es) /\ fs[s] = es[s] /\ es[s].key # Hole
          BY <1>2, <1>3, <1>6, <3>2 DEF SlotsOf
        <4>2. s \in SlotsOf(es) /\ es[s].key \in KeysIn(es)
          BY <4>1 DEF SlotsOf, KeysIn
        <4>3. es[s].key \in Keys /\ es[s].key # k
          BY <1>2, <1>3, <1>5, <4>2, SlotsFinite
        <4>4. f[es[s].key] = es[s].val
          BY <1>8, <4>2 DEF Valued
        <4> QED BY <2>1, <4>1, <4>3, <4>4
      <3> QED BY <3>1, <3>2
    <2>4. ASSUME NEW x \in Keys \ KeysIn(fs) PROVE g[x] = Absent
      BY <1>7, <1>8, <2>1 DEF Valued
    <2> QED BY <2>2, <2>3, <2>4 DEF Valued
  <1>12. ValueOf' = g
    BY <1>6, <1>8, <1>11, ValuedOnce
  <1>13. OrderOf(fs) = Append(OrderOf(es), k)
    <2>1. PICK a : a = Filtered(es, Live)
      OBVIOUS
    <2>2. a \in Seq(Entry) /\ \A n \in 1 .. Len(a) : a[n] \in Live
      <3>1. a \in Seq(Entry) /\ Leaves(es, Live, a)
        BY <1>2, <1>3, <2>1, FilteredLeaves
      <3> QED BY <3>1 DEF Leaves
    <2>3. Ends(fs, Entry, Len(es), es, e)
      BY <1>2, <1>3, <1>5, <1>6 DEF Ends
    <2>4. Filtered(fs, Live) = Append(a, e)
      BY <1>5, <2>1, <2>3, FilteredKept
    <2>5. KeysOf(Append(a, e)) = Append(KeysOf(a), e.key)
      BY <1>5, <2>2, KeysOfAppend
    <2> QED BY <1>5, <2>1, <2>4, <2>5 DEF OrderOf
  <1>14. Order' = Append(Order, op.key)
    BY <1>3, <1>13, OrderIs
  <1>15. "ok" \in Answers
    BY DEF Answers
  <1>16. op'.name = op.name /\ op'.key = op.key /\ op'.val = op.val /\ op'.res = "ok"
    BY <1>1, <1>2, <1>15, DoneIs
  <1> QED BY <1>1, <1>2, <1>3, <1>9, <1>10, <1>12, <1>14, <1>16 DEF Abstract!Set, Abstract!Answers

\* A table with no entry is the empty map.
LEMMA EmptyMap ==
  ASSUME NEW f, Valued(<<>>, f)
  PROVE  OrderOf(<<>>) = <<>> /\ f = [k \in Keys |-> Absent]
  <1>1. OrderOf(<<>>) = <<>>
    <2>1. Filtered(<<>>, Live) = <<>>
      BY FilteredEmpty
    <2>2. KeysOf(<<>>) = <<>>
      BY DEF KeysOf
    <2> QED BY <2>1, <2>2 DEF OrderOf
  <1>2. SlotsOf(<<>>) = {} /\ KeysIn(<<>>) = {}
    BY DEF SlotsOf, KeysIn
  <1>3. \A k \in Keys : f[k] = Absent
    BY <1>2 DEF Valued
  <1>4. PICK a : a = [k \in Keys |-> f[k]]
    OBVIOUS
  <1>5. a = [k \in Keys |-> Absent]
    BY <1>3, <1>4
  <1>6. f = a
    BY <1>4 DEF Valued
  <1> QED BY <1>1, <1>5, <1>6

\* clear empties the map.
LEMMA ClearRefines ==
  ASSUME Inv, Clear
  PROVE  Abstract!Clear
  <1>0. Inv'
    BY ClearKeeps
  <1>1. op.pc = "idle" /\ entries' = <<>> /\ held' = held /\ op' = op
    BY DEF Clear
  <1>2. op = Idle /\ entries' \in Seq(Entry) /\ Distinct(entries')
    BY <1>0, <1>1 DEF Inv, OpInv, Types, ListInv
  <1>3. [name |-> op.name, key |-> op.key, val |-> op.val] = Abstract!NoCall
    BY <1>2 DEF Abstract!NoCall, Idle
  <1>4. Valued(<<>>, ValueOf')
    BY <1>1, <1>2, ValueOfAfter
  <1>5. Order' = <<>> /\ ValueOf' = [k \in Keys |-> Absent]
    BY <1>1, <1>4, EmptyMap, OrderIs
  <1> QED BY <1>1, <1>3, <1>5 DEF Abstract!Clear

\* A collection loses only keys the program cannot name.
LEMMA CollectRefines ==
  ASSUME Inv, Collect
  PROVE  \E gone \in SUBSET Keys : Abstract!Lose(gone)
  <1>0. Inv'
    BY CollectKeeps
  <1>1. PICK to, mapTo, old, dead, e : Collected(to, mapTo, old, dead, e)
    BY CollectIs
  <1>2. op' = op /\ held' = held
    BY DEF Collect
  <1>3. /\ entries \in Seq(Entry) /\ Distinct(entries)
        /\ entries' \in Seq(Entry) /\ Distinct(entries')
    BY <1>0 DEF Inv, Types, ListInv
  <1>4. dead \in SUBSET Keys /\ dead \intersect held = {}
        /\ entries' = [s \in DOMAIN entries |->
                         IF entries[s].key \in dead THEN Tombstone ELSE entries[s]]
    BY <1>1 DEF Collected, Keys
  <1>5. PICK es, fs, f : es = entries /\ fs = entries' /\ f = ValueOf
    OBVIOUS
  <1>6. Holed(es, fs, dead)
    <2>1. es \in Seq(Entry) /\ fs = [s \in DOMAIN es |-> IF es[s].key \in dead THEN Tombstone ELSE es[s]]
      BY <1>3, <1>4, <1>5
    <2>2. /\ Len(fs) = Len(es)
          /\ \A s \in 1 .. Len(es) : fs[s] = IF es[s].key \in dead THEN Tombstone ELSE es[s]
      BY <1>4, <2>1, DeadAreHoles
    <2> QED BY <2>2 DEF Holed
  <1>7. Valued(es, f) /\ Valued(fs, ValueOf')
    BY <1>3, <1>5, ValueOfIs, ValueOfAfter
  <1>8. PICK g : g = [k \in Keys |-> IF k \in dead THEN Absent ELSE f[k]]
    OBVIOUS
  <1>9. Dropped(f, g, dead)
    BY <1>8 DEF Dropped
  <1>10. Valued(fs, g) /\ OrderOf(fs) = Filtered(OrderOf(es), Keys \ dead)
    BY <1>3, <1>4, <1>5, <1>6, <1>7, <1>9, ErasedMap
  <1>11. ValueOf' = g
    BY <1>3, <1>5, <1>7, <1>10, ValuedOnce
  <1>12. Order' = Abstract!Without(Order, dead)
    BY <1>5, <1>10, OrderIs
  <1>13. Abstract!Lose(dead)
    BY <1>2, <1>4, <1>5, <1>8, <1>11, <1>12 DEF Abstract!Lose
  <1> QED BY <1>4, <1>13

\* Every step is a step of the map or is not seen by the program.
LEMMA MapSteps == Inv /\ [Next]_vars => [Abstract!Next]_(Abstract!vars)
  <1> SUFFICES ASSUME Inv, [Next]_vars PROVE Abstract!Next \/ UNCHANGED Abstract!vars
    OBVIOUS
  <1>1. ASSUME NEW k \in Keys, Call("get", k, Absent) PROVE Abstract!Next
    <2>1. k \in held /\ Abstract!Call("get", k, Absent)
      BY <1>1, CallRefines
    <2> QED BY <2>1 DEF Abstract!Next
  <1>2. ASSUME NEW k \in Keys, Call("delete", k, Absent) PROVE Abstract!Next
    <2>1. k \in held /\ Abstract!Call("delete", k, Absent)
      BY <1>2, CallRefines
    <2> QED BY <2>1 DEF Abstract!Next
  <1>3. ASSUME NEW k \in Keys, NEW v \in Vals, Call("set", k, v) PROVE Abstract!Next
    <2>1. k \in held /\ Abstract!Call("set", k, v)
      BY <1>3, CallRefines
    <2> QED BY <2>1 DEF Abstract!Next
  <1>4. ASSUME NEW k \in Keys, Forget(k) PROVE Abstract!Next
    <2>1. entries' = entries /\ held' = held \ {k} /\ op' = op
      BY <1>4 DEF Forget, table
    <2>2. Order' = Order /\ ValueOf' = ValueOf
      <3>1. LiveSlots' = LiveSlots /\ LiveKeys' = LiveKeys
        BY <2>1, Views, ViewsAfter
      <3> QED BY <2>1, <3>1, OrderIs DEF ValueOf
    <2>3. Abstract!Forget(k)
      BY <2>1, <2>2 DEF Abstract!Forget
    <2> QED BY <2>3 DEF Abstract!Next
  <1>5. CASE Reindex
    <2>1. entries' = entries /\ held' = held /\ op' = [op EXCEPT !.pc = op.then] /\ op \in Op
      BY <1>5 DEF Reindex, Inv, Types
    <2>2. op'.name = op.name /\ op'.key = op.key /\ op'.val = op.val /\ op'.res = op.res
      BY <2>1 DEF Op
    <2> QED BY <2>1, <2>2, Unseen
  <1>6. CASE Miss
    BY <1>6, MissRefines DEF Abstract!Next
  <1>7. CASE ProbeGet
    BY <1>7, ProbeGetRefines DEF Abstract!Next
  <1>8. CASE ProbeSet
    BY <1>8, ProbeSetRefines DEF Abstract!Next
  <1>9. CASE ProbeDelete
    BY <1>9, ProbeDeleteRefines DEF Abstract!Next
  <1>10. CASE Grow
    BY <1>10, GrowRefines
  <1>11. CASE Insert
    BY <1>11, InsertRefines DEF Abstract!Next
  <1>12. CASE Return
    <2>1. op.pc = "done" /\ entries' = entries /\ held' = held /\ op' = Idle
      BY <1>12 DEF Return, table
    <2>2. op.res # "none"
      BY <2>1 DEF Inv, OpInv
    <2>3. Order' = Order /\ ValueOf' = ValueOf
      <3>1. LiveSlots' = LiveSlots /\ LiveKeys' = LiveKeys
        BY <2>1, Views, ViewsAfter
      <3> QED BY <2>1, <3>1, OrderIs DEF ValueOf
    <2>4. op'.res = "none" /\ [name |-> op'.name, key |-> op'.key, val |-> op'.val] = Abstract!NoCall
      BY <2>1 DEF Idle, Abstract!NoCall
    <2>5. Abstract!Return
      BY <2>1, <2>2, <2>3, <2>4 DEF Abstract!Return, Abstract!NoCall
    <2> QED BY <2>5 DEF Abstract!Next
  <1>13. CASE Clear
    BY <1>13, ClearRefines DEF Abstract!Next
  <1>14. ASSUME NEW i \in Iters, MakeIterator(i) \/ IteratorStep(i) \/ IteratorEnd(i)
         PROVE  UNCHANGED Abstract!vars
    <2>1. entries' = entries /\ held' = held /\ op' = op
      BY <1>14 DEF MakeIterator, IteratorStep, IteratorEnd, table
    <2> QED BY <2>1, Unseen
  <1>15. CASE Collect
    BY <1>15, CollectRefines DEF Abstract!Next
  <1>16. CASE UNCHANGED vars
    <2>1. entries' = entries /\ held' = held /\ op' = op
      BY <1>16 DEF vars, table
    <2> QED BY <2>1, Unseen
  <1> QED BY <1>1, <1>2, <1>3, <1>4, <1>5, <1>6, <1>7, <1>8, <1>9, <1>10, <1>11, <1>12,
             <1>13, <1>14, <1>15, <1>16 DEF Next

\* The first table is the empty map.
LEMMA MapStarts == Init => Abstract!Init
  <1> SUFFICES ASSUME Init PROVE Abstract!Init
    OBVIOUS
  <1>1. entries = <<>> /\ held = Keys /\ op = Idle
    BY DEF Init
  <1>2. Inv
    BY InitKeeps
  <1>3. Valued(<<>>, ValueOf)
    BY <1>1, <1>2, ValueOfIs DEF Inv, Types, ListInv
  <1>4. Order = <<>> /\ ValueOf = [k \in Keys |-> Absent]
    BY <1>1, <1>3, EmptyMap, OrderIs
  <1> QED BY <1>1, <1>4 DEF Abstract!Init, Abstract!NoCall, Idle

\* The table implements the ordered map: every call answers what the map
\* answers and only keys nobody can name disappear, for all keys, values, hashes
\* and collections, and any number of operations (map.cpp, all of it).
THEOREM MapRefinement == Spec => ImplementsOrderedMap
  <1>1. Init => Abstract!Init
    BY MapStarts
  <1>2. Inv /\ [Next]_vars => [Abstract!Next]_(Abstract!vars)
    BY MapSteps
  <1> QED BY <1>1, <1>2, TableInvariant, PTL DEF Spec, ImplementsOrderedMap, Abstract!Spec
=============================================================================
