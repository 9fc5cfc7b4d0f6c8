------------------------- MODULE TransferMatchingProofs -------------------------
(***************************************************************************)
(* The matching of TransferMatching, for any transfers: taking the first   *)
(* transfer that is left, in the order of sortExpectedTransfers, finds a   *)
(* matching whenever there is one, and comes to the same verdict from the  *)
(* calls of a transaction and from the logs of its receipt.                *)
(***************************************************************************)
EXTENDS TransferMatching, FiniteSetTheorems, FunctionTheorems, TLAPS

-----------------------------------------------------------------------------
(* Induction over the naturals, for sets instead of predicates.            *)

\* A set of naturals has a least element.
LEMMA FirstIsIn ==
  ASSUME NEW S, S \subseteq Nat, S # {}
  PROVE  \E x \in S : \A y \in S : x <= y
  <1> DEFINE Less == {ss \in Nat \X Nat : ss[1] < ss[2]}
  <1>1. IsWellFoundedOn(Less, Nat)
    BY NatLessThanWellFounded, Zenon DEF OpToRel
  <1>2. PICK x \in S : \A y \in S : <<y, x>> \notin Less
    <2> HIDE DEF Less
    <2> QED
      BY <1>1, WFMin
  <1>3. ASSUME NEW y \in S PROVE x <= y
    <2>1. y \in Nat /\ x \in Nat /\ <<y, x>> \notin Less
      BY <1>2
    <2>2. <<y, x>> \in Nat \X Nat /\ <<y, x>>[1] = y /\ <<y, x>>[2] = x
      BY <2>1
    <2>3. ~(y < x)
      BY <2>1, <2>2, Zenon
    <2> QED
      BY <2>1, <2>3
  <1> QED
    BY <1>2, <1>3

\* What holds of 0, and of n + 1 whenever of n, holds of every natural.
LEMMA SetInduction ==
  ASSUME NEW S, 0 \in S, \A n \in Nat : n \in S => n + 1 \in S
  PROVE  Nat \subseteq S
  <1> SUFFICES ASSUME Nat \ S # {} PROVE FALSE
    OBVIOUS
  <1>1. PICK x \in Nat \ S : \A y \in Nat \ S : x <= y
    BY FirstIsIn
  <1>2. x # 0 /\ x - 1 \in Nat /\ x - 1 \in S
    BY <1>1
  <1>3. (x - 1) + 1 = x
    BY <1>1
  <1> QED
    BY <1>2, <1>3

\* A finite set of naturals has an upper bound.
LEMMA FiniteIsBounded ==
  ASSUME NEW K, K \subseteq Nat, IsFiniteSet(K)
  PROVE  \E N \in Nat : \A k \in K : k <= N
  <1> DEFINE S == {n \in Nat : \A U \in SUBSET K : Cardinality(U) = n =>
                     \E N \in Nat : \A k \in U : k <= N}
  <1>1. 0 \in S
    <2>1. ASSUME NEW U \in SUBSET K, Cardinality(U) = 0 PROVE U = {}
      BY <2>1, FS_Subset, FS_EmptySet
    <2> QED
      BY <2>1
  <1>2. ASSUME NEW n \in Nat, n \in S PROVE n + 1 \in S
    <2>1. ASSUME NEW U \in SUBSET K, Cardinality(U) = n + 1
          PROVE  \E N \in Nat : \A k \in U : k <= N
      <3> HIDE DEF S
      <3>0. n + 1 # 0 /\ (n + 1) - 1 = n
        OBVIOUS
      <3>1. IsFiniteSet(U) /\ U # {}
        BY <2>1, <3>0, FS_Subset, FS_EmptySet, Zenon
      <3>2. PICK x : x \in U
        BY <3>1
      <3>3. Cardinality(U \ {x}) = n
        BY <2>1, <3>0, <3>1, <3>2, FS_RemoveElement, Zenon
      <3>4. PICK N \in Nat : \A k \in U \ {x} : k <= N
        BY <1>2, <3>3 DEF S
      <3>5. \A k \in U : k <= N + x
        BY <3>2, <3>4
      <3> QED
        BY <3>2, <3>5
    <2>2. n + 1 \in Nat
      OBVIOUS
    <2> QED
      BY <2>1, <2>2, Zenon
  <1> HIDE DEF S
  <1>3. Nat \subseteq S
    BY <1>1, <1>2, SetInduction
  <1>4. Cardinality(K) \in Nat
    BY FS_CardinalityType
  <1> QED
    BY <1>3, <1>4 DEF S

-----------------------------------------------------------------------------
(* Sums.                                                                   *)

IsSums(f, transfers, N) ==
  f = [n \in 0 .. N |-> IF n = 0 THEN 0 ELSE f[n - 1] + transfers[n].amount]

\* There is a function as the definition of Sums asks for.
LEMMA SumsExist ==
  ASSUME NEW transfers, NEW N \in Nat
  PROVE  \E f : IsSums(f, transfers, N)
  <1> DEFINE S == {n \in Nat : \E f : IsSums(f, transfers, n)}
  <1>1. 0 \in S
    <2>1. IsSums([n \in 0 .. 0 |-> 0], transfers, 0)
      BY DEF IsSums
    <2> QED
      BY <2>1
  <1>2. ASSUME NEW n \in Nat, n \in S PROVE n + 1 \in S
    <2>1. PICK f : IsSums(f, transfers, n)
      BY <1>2
    <2> DEFINE g == [m \in 0 .. n + 1 |-> IF m = n + 1 THEN f[n] + transfers[m].amount ELSE f[m]]
    <2>2. ASSUME NEW m \in 0 .. n + 1
          PROVE  g[m] = IF m = 0 THEN 0 ELSE g[m - 1] + transfers[m].amount
      <3>1. CASE m = n + 1
        <4>1. m # 0 /\ m - 1 = n /\ n \in 0 .. n + 1 /\ n # n + 1
          BY <3>1
        <4> QED
          BY <4>1, <3>1
      <3>2. CASE m \in 0 .. n
        <4>1. g[m] = f[m] /\ (m # 0 => m - 1 \in 0 .. n /\ g[m - 1] = f[m - 1])
          BY <3>2
        <4> QED
          BY <2>1, <3>2, <4>1 DEF IsSums
      <3> QED
        BY <3>1, <3>2
    <2>3. IsSums(g, transfers, n + 1)
      BY <2>2 DEF IsSums
    <2> QED
      BY <2>3
  <1> HIDE DEF S
  <1>3. Nat \subseteq S
    BY <1>1, <1>2, SetInduction
  <1> QED
    BY <1>3 DEF S

\* A sum is the one before it and one more amount.
LEMMA SumsAre ==
  ASSUME NEW transfers, Len(transfers) \in Nat
  PROVE  /\ Sums(transfers)[0] = 0
         /\ \A n \in 1 .. Len(transfers) :
              Sums(transfers)[n] = Sums(transfers)[n - 1] + transfers[n].amount
  <1>1. IsSums(Sums(transfers), transfers, Len(transfers))
    BY SumsExist DEF Sums, IsSums
  <1> DEFINE f == Sums(transfers)
  <1> HIDE DEF f
  <1>2. ASSUME NEW n \in 0 .. Len(transfers)
        PROVE  f[n] = IF n = 0 THEN 0 ELSE f[n - 1] + transfers[n].amount
    BY <1>1 DEF f, IsSums
  <1> QED
    BY <1>2 DEF f

\* Sums of integers are integers.
LEMMA SumsTyped ==
  ASSUME NEW transfers, Len(transfers) \in Nat,
         \A i \in 1 .. Len(transfers) : transfers[i].amount \in Int
  PROVE  \A n \in 0 .. Len(transfers) : Sums(transfers)[n] \in Int
  <1> DEFINE f == Sums(transfers)
             N == Len(transfers)
             S == {n \in Nat : n <= N => f[n] \in Int}
  <1>1. f[0] = 0 /\ \A n \in 1 .. N : f[n] = f[n - 1] + transfers[n].amount
    BY SumsAre
  <1> HIDE DEF f
  <1>2. 0 \in S
    BY <1>1
  <1>3. ASSUME NEW n \in Nat, n \in S PROVE n + 1 \in S
    <2>1. n + 1 <= N => n + 1 \in 1 .. N /\ (n + 1) - 1 = n /\ f[n] \in Int
      BY <1>3
    <2> QED
      BY <1>1, <2>1
  <1> HIDE DEF S
  <1>4. Nat \subseteq S
    BY <1>2, <1>3, SetInduction
  <1> QED
    BY <1>4 DEF S, f

\* One more transfer adds its amount.
LEMMA TotalOfMore ==
  ASSUME NEW T, NEW first, NEW rest \in Seq(T), first.amount \in Int,
         \A i \in 1 .. Len(rest) : rest[i].amount \in Int
  PROVE  /\ Total(rest) \in Int
         /\ Total(<<first>> \o rest) = first.amount + Total(rest)
  <1> DEFINE all == <<first>> \o rest
             N == Len(rest)
             f == Sums(rest)
             g == Sums(all)
             S == {n \in Nat : n <= N => g[n + 1] = first.amount + f[n]}
  <1>1. /\ N \in Nat /\ Len(all) = N + 1 /\ all[1] = first
        /\ \A n \in 1 .. N : all[n + 1] = rest[n]
    OBVIOUS
  <1>2. f[0] = 0 /\ \A n \in 1 .. N : f[n] = f[n - 1] + rest[n].amount
    BY <1>1, SumsAre
  <1>3. g[0] = 0 /\ \A n \in 1 .. N + 1 : g[n] = g[n - 1] + all[n].amount
    <2> HIDE DEF all
    <2> QED
      BY <1>1, SumsAre
  <1>4. \A n \in 0 .. N : f[n] \in Int
    BY <1>1, SumsTyped
  <1>5. Total(rest) = f[N] /\ Total(all) = g[N + 1]
    BY <1>1 DEF Total
  <1> HIDE DEF f, g, all
  <1>6. 0 \in S
    <2>1. g[1] = g[0] + all[1].amount
      BY <1>1, <1>3
    <2> QED
      BY <1>1, <1>2, <1>3, <2>1
  <1>7. ASSUME NEW n \in Nat, n \in S PROVE n + 1 \in S
    <2> SUFFICES ASSUME n + 1 <= N PROVE g[n + 2] = first.amount + f[n + 1]
      OBVIOUS
    <2>1. g[n + 2] = g[n + 1] + all[n + 2].amount /\ all[n + 2] = rest[n + 1]
      <3>1. n + 2 \in 1 .. N + 1 /\ (n + 2) - 1 = n + 1 /\ n + 1 \in 1 .. N /\ (n + 1) + 1 = n + 2
        BY <1>1
      <3> QED
        BY <1>1, <1>3, <3>1
    <2>2. f[n + 1] = f[n] + rest[n + 1].amount /\ f[n] \in Int /\ rest[n + 1].amount \in Int
      <3>1. n + 1 \in 1 .. N /\ (n + 1) - 1 = n /\ n \in 0 .. N
        BY <1>1
      <3> QED
        BY <1>2, <1>4, <3>1
    <2>3. g[n + 1] = first.amount + f[n]
      BY <1>7, <1>1
    <2> QED
      BY <2>1, <2>2, <2>3
  <1> HIDE DEF S
  <1>8. Nat \subseteq S
    BY <1>6, <1>7, SetInduction
  <1>9. g[N + 1] = first.amount + f[N]
    BY <1>1, <1>8 DEF S
  <1> QED
    BY <1>1, <1>4, <1>5, <1>9 DEF all
-----------------------------------------------------------------------------
(* Taking in turn.                                                         *)

\* A family of sets of naturals.
IsFamily(fits) ==
  /\ DOMAIN fits \subseteq Nat /\ IsFiniteSet(DOMAIN fits)
  /\ \A k \in DOMAIN fits : fits[k] \subseteq Nat

IsTaken(f, fits, K) ==
  f = [k \in K |-> FirstOf(fits[k] \ UNION {f[j] : j \in {j \in K : j < k}})]

\* There is a function as the definition of Taken asks for.
LEMMA TakenExists ==
  ASSUME NEW fits, DOMAIN fits \subseteq Nat, NEW N \in Nat, \A k \in DOMAIN fits : k <= N
  PROVE  \E f : IsTaken(f, fits, DOMAIN fits)
  <1> DEFINE K(n) == {k \in DOMAIN fits : k <= n}
             S == {n \in Nat : \E f : IsTaken(f, fits, K(n))}
  <1>1. 0 \in S
    <2> DEFINE f == [k \in K(0) |-> FirstOf(fits[k] \ {})]
    <2>1. ASSUME NEW k \in K(0) PROVE {f[j] : j \in {j \in K(0) : j < k}} = {}
      OBVIOUS
    <2>2. f = [k \in K(0) |-> FirstOf(fits[k] \ UNION {f[j] : j \in {j \in K(0) : j < k}})]
      <3> HIDE DEF K
      <3> QED
        BY <2>1
    <2> QED
      BY <2>2 DEF IsTaken
  <1>2. ASSUME NEW n \in Nat, n \in S PROVE n + 1 \in S
    <2>1. PICK f : IsTaken(f, fits, K(n))
      BY <1>2
    <2> DEFINE g == [k \in K(n + 1) |->
                       IF k = n + 1 THEN FirstOf(fits[k] \ UNION {f[j] : j \in K(n)}) ELSE f[k]]
    <2>2. ASSUME NEW k \in K(n + 1)
          PROVE  g[k] = FirstOf(fits[k] \ UNION {g[j] : j \in {j \in K(n + 1) : j < k}})
      <3>1. {j \in K(n + 1) : j < k} \subseteq K(n)
        OBVIOUS
      <3>2. \A j \in K(n) : j \in K(n + 1) /\ g[j] = f[j]
        OBVIOUS
      <3>3. CASE k = n + 1
        <4>1. {j \in K(n + 1) : j < k} = K(n)
          BY <3>3
        <4>2. {g[j] : j \in K(n)} = {f[j] : j \in K(n)}
          BY <3>2
        <4> QED
          BY <3>3, <4>1, <4>2
      <3>4. CASE k # n + 1
        <4>1. k \in K(n) /\ {j \in K(n + 1) : j < k} = {j \in K(n) : j < k}
          BY <3>4
        <4>2. {g[j] : j \in {j \in K(n) : j < k}} = {f[j] : j \in {j \in K(n) : j < k}}
          BY <3>2
        <4>3. f[k] = FirstOf(fits[k] \ UNION {f[j] : j \in {j \in K(n) : j < k}})
          BY <2>1, <4>1 DEF IsTaken
        <4> QED
          BY <3>4, <4>1, <4>2, <4>3
      <3> QED
        BY <3>3, <3>4
    <2>3. IsTaken(g, fits, K(n + 1))
      <3> HIDE DEF K
      <3> QED
        BY <2>2 DEF IsTaken
    <2> QED
      BY <2>3
  <1> HIDE DEF S
  <1>3. N \in S
    BY <1>1, <1>2, SetInduction
  <1>4. K(N) = DOMAIN fits
    OBVIOUS
  <1> QED
    BY <1>3, <1>4 DEF S

\* Each takes the first of its own that the ones before it left.
LEMMA TakenIs ==
  ASSUME NEW fits, IsFamily(fits)
  PROVE  /\ DOMAIN Taken(fits) = DOMAIN fits
         /\ \A k \in DOMAIN fits :
              Taken(fits)[k] =
                FirstOf(fits[k] \ UNION {Taken(fits)[j] : j \in {j \in DOMAIN fits : j < k}})
  <1>1. PICK N \in Nat : \A k \in DOMAIN fits : k <= N
    BY FiniteIsBounded DEF IsFamily
  <1>2. IsTaken(Taken(fits), fits, DOMAIN fits)
    BY <1>1, TakenExists DEF Taken, IsTaken, IsFamily
  <1> DEFINE f == Taken(fits)
  <1> HIDE DEF f
  <1> QED
    BY <1>2 DEF f, IsTaken

\* What is taken in a turn: one of its own, that is taken in no other turn,
\* unless all of them are taken before.
LEMMA TakenOnce ==
  ASSUME NEW fits, IsFamily(fits)
  PROVE  LET taken == Taken(fits) IN
         /\ \A k \in DOMAIN fits : taken[k] \subseteq fits[k] /\ \A x, y \in taken[k] : x = y
         /\ \A j, k \in DOMAIN fits : taken[j] \cap taken[k] # {} => j = k
         /\ \A k \in DOMAIN fits : taken[k] = {} =>
              \A x \in fits[k] : \E j \in DOMAIN fits : j < k /\ x \in taken[j]
  <1> DEFINE taken == Taken(fits)
             left(k) == fits[k] \ UNION {taken[j] : j \in {j \in DOMAIN fits : j < k}}
  <1>1. \A k \in DOMAIN fits : taken[k] = FirstOf(left(k)) /\ left(k) \subseteq Nat
    BY TakenIs DEF IsFamily
  <1>2. \A k \in DOMAIN fits : \A x \in left(k) :
          x \in fits[k] /\ \A j \in DOMAIN fits : j < k => x \notin taken[j]
    OBVIOUS
  <1>3. \A k \in DOMAIN fits : \A x \in fits[k] :
          x \in left(k) \/ \E j \in DOMAIN fits : j < k /\ x \in taken[j]
    OBVIOUS
  <1>4. ASSUME NEW k \in DOMAIN fits
        PROVE  /\ taken[k] \subseteq left(k) /\ \A x, y \in taken[k] : x = y
               /\ taken[k] = {} => left(k) = {}
    <2> HIDE DEF taken, left
    <2>1. \A x \in taken[k] : x \in left(k) /\ \A y \in left(k) : x <= y
      BY <1>1 DEF FirstOf
    <2>2. left(k) # {} => \E x \in left(k) : \A y \in left(k) : x <= y
      BY <1>1, FirstIsIn
    <2>3. left(k) # {} => taken[k] # {}
      BY <1>1, <2>2 DEF FirstOf
    <2>4. \A x, y \in taken[k] : x = y
      BY <1>1, <2>1
    <2> QED
      BY <2>1, <2>3, <2>4
  <1> HIDE DEF taken, left
  <1>5. ASSUME NEW j \in DOMAIN fits, NEW k \in DOMAIN fits, taken[j] \cap taken[k] # {}
        PROVE  j = k
    <2>1. ~(j < k) /\ ~(k < j)
      BY <1>2, <1>4, <1>5
    <2>2. j \in Nat /\ k \in Nat
      BY DEF IsFamily
    <2> QED
      BY <2>1, <2>2
  <1>6. /\ \A k \in DOMAIN fits : taken[k] \subseteq fits[k] /\ \A x, y \in taken[k] : x = y
        /\ \A k \in DOMAIN fits : taken[k] = {} =>
             \A x \in fits[k] : \E j \in DOMAIN fits : j < k /\ x \in taken[j]
    BY <1>2, <1>3, <1>4
  <1> QED
    BY <1>5, <1>6 DEF taken

\* What is taken is a choice of different indices.
LEMMA TakenChooses ==
  ASSUME NEW fits, IsFamily(fits), AllTaken(fits)
  PROVE  \E f : /\ \A k \in DOMAIN fits : f[k] \in fits[k] /\ Taken(fits)[k] = {f[k]}
                /\ \A j, k \in DOMAIN fits : f[j] = f[k] => j = k
  <1> DEFINE taken == Taken(fits)
             f == [k \in DOMAIN fits |-> CHOOSE x : x \in taken[k]]
  <1>1. \A k \in DOMAIN fits : \E x : x \in taken[k]
    BY DEF AllTaken
  <1>2. /\ \A k \in DOMAIN fits : taken[k] \subseteq fits[k] /\ \A x, y \in taken[k] : x = y
        /\ \A j, k \in DOMAIN fits : taken[j] \cap taken[k] # {} => j = k
    BY TakenOnce
  <1> HIDE DEF taken
  <1>3. \A k \in DOMAIN fits : f[k] \in taken[k]
    BY <1>1
  <1> HIDE DEF f
  <1>4. \A k \in DOMAIN fits : f[k] \in fits[k] /\ taken[k] = {f[k]}
    BY <1>2, <1>3
  <1>5. \A j, k \in DOMAIN fits : f[j] = f[k] => j = k
    BY <1>2, <1>3
  <1> QED
    BY <1>4, <1>5 DEF taken

\* When a set contains each earlier one that it meets, taking the first that is
\* left is enough: were nothing left for k, the sets it contains would have
\* taken all of its indices, one each, which is one too few for them and k.
LEMMA AllAreTaken ==
  ASSUME NEW fits, IsFamily(fits),
         \A j, k \in DOMAIN fits : j < k /\ fits[j] \cap fits[k] # {} => fits[j] \subseteq fits[k],
         NEW f, \A k \in DOMAIN fits : f[k] \in fits[k],
         \A j, k \in DOMAIN fits : f[j] = f[k] => j = k
  PROVE  AllTaken(fits)
  <1> DEFINE taken == Taken(fits)
  <1> SUFFICES ASSUME NEW k \in DOMAIN fits, taken[k] = {} PROVE FALSE
    BY DEF AllTaken
  <1>1. /\ \A j \in DOMAIN fits : taken[j] \subseteq fits[j] /\ \A x, y \in taken[j] : x = y
        /\ \A x \in fits[k] : \E j \in DOMAIN fits : j < k /\ x \in taken[j]
        /\ k \in Nat /\ IsFiniteSet(DOMAIN fits)
    BY TakenOnce DEF IsFamily
  <1> HIDE DEF taken
  <1> DEFINE J == {j \in DOMAIN fits : j < k /\ \E x \in fits[k] : x \in taken[j]}
             g == [j \in J |-> CHOOSE x : x \in taken[j]]
             h == [j \in J \cup {k} |-> f[j]]
  <1>2. IsFiniteSet(J) /\ k \notin J
    BY <1>1, FS_Subset
  <1>3. \A j \in J : g[j] \in fits[k] /\ taken[j] = {g[j]} /\ fits[j] \subseteq fits[k]
    <2> SUFFICES ASSUME NEW j \in J
                 PROVE  g[j] \in fits[k] /\ taken[j] = {g[j]} /\ fits[j] \subseteq fits[k]
      OBVIOUS
    <2>1. PICK x \in fits[k] : x \in taken[j]
      OBVIOUS
    <2>2. taken[j] = {x} /\ x \in fits[j]
      BY <1>1, <2>1
    <2> QED
      BY <2>1, <2>2
  <1>4. g \in Surjection(J, fits[k])
    <2>1. \A x \in fits[k] : \E j \in J : g[j] = x
      BY <1>1, <1>3
    <2>2. g \in [J -> fits[k]]
      BY <1>3
    <2> QED
      BY <2>1, <2>2 DEF Surjection
  <1>5. h \in Injection(J \cup {k}, fits[k])
    <2>1. h \in [J \cup {k} -> fits[k]]
      BY <1>3
    <2>2. \A a, b \in J \cup {k} : h[a] = h[b] => a = b
      OBVIOUS
    <2> QED
      BY <2>1, <2>2, Fun_IsInj
  <1> HIDE DEF g, h, J
  <1>6. IsFiniteSet(fits[k]) /\ Cardinality(fits[k]) <= Cardinality(J)
    BY <1>2, <1>4, FS_Surjection
  <1>7. Cardinality(J \cup {k}) <= Cardinality(fits[k])
    BY <1>5, <1>6, FS_Injection
  <1>8. Cardinality(J \cup {k}) = Cardinality(J) + 1
    BY <1>2, FS_AddElement
  <1>9. Cardinality(J) \in Nat /\ Cardinality(fits[k]) \in Nat
    BY <1>2, <1>6, FS_CardinalityType
  <1> QED
    BY <1>6, <1>7, <1>8, <1>9

-----------------------------------------------------------------------------
(* matchTransfers.                                                         *)

\* Transfers under any indices, and expected ones in a sequence.
AreIndexed(actual) ==
  /\ DOMAIN actual \subseteq Nat
  /\ \A i \in DOMAIN actual : IsMemo(actual[i].memo)
AreExpected(expected) == Len(expected) \in Nat /\ DOMAIN expected = 1 .. Len(expected)

\* Of two wants that accept one transfer, the later accepts what the earlier does.
LEMMA LaterAcceptsMore ==
  ASSUME NEW c, NEW earlier, NEW later, Particular(later) => Particular(earlier),
         NEW got, IsMemo(got.memo), Accepts(earlier, got, c), Accepts(later, got, c),
         NEW other, IsMemo(other.memo), Accepts(earlier, other, c)
  PROVE  Accepts(later, other, c)
  <1>1. /\ BoundTo(got.memo, c) => got.memo = Attribution(c)
        /\ BoundTo(other.memo, c) => other.memo = Attribution(c)
    BY DEF BoundTo, IsMemo, IsAttributionMemo, Attribution
  <1>2. BoundTo(Attribution(c), c) /\ Attribution(c) # NoMemo /\ IsAttributionMemo(Attribution(c))
    BY DEF BoundTo, IsAttributionMemo, Attribution, NoMemo
  <1>3. other.to = later.to /\ other.amount = later.amount
    BY DEF Accepts
  <1> HIDE DEF BoundTo
  <1>4. CASE later.memo # NoMemo
    BY <1>1, <1>2, <1>3, <1>4 DEF Accepts, Particular
  <1>5. CASE later.memo = NoMemo /\ later.primary
    BY <1>1, <1>2, <1>3, <1>5 DEF Accepts, Particular
  <1>6. CASE later.memo = NoMemo /\ ~later.primary
    BY <1>1, <1>2, <1>3, <1>6 DEF Accepts, Particular
  <1> QED
    BY <1>4, <1>5, <1>6

\* The sorted transfers are the expected ones, the particular before the others.
\* (No more is used of their order, so the proofs hold for that of the code.)
LEMMA SortedAre ==
  ASSUME NEW expected, AreExpected(expected)
  PROVE  LET sorted == sortExpectedTransfers(expected)
             at(k) == Position(expected, k)
         IN  /\ DOMAIN sorted \subseteq Nat /\ IsFiniteSet(DOMAIN sorted)
             /\ \A p \in DOMAIN sorted : \E k \in DOMAIN expected : p = at(k)
             /\ \A k \in DOMAIN expected : at(k) \in DOMAIN sorted /\ sorted[at(k)] = expected[k]
             /\ \A j, k \in DOMAIN expected :
                  /\ at(j) = at(k) => j = k
                  /\ at(j) < at(k) /\ Particular(expected[k]) => Particular(expected[j])
  <1> DEFINE N == Len(expected)
             sorted == sortExpectedTransfers(expected)
             at(k) == Position(expected, k)
  <1>1. N \in Nat /\ DOMAIN expected = 1 .. N
    BY DEF AreExpected
  <1>2. \A k \in 1 .. N : at(k) = IF Particular(expected[k]) THEN k ELSE N + k
    BY DEF Position
  <1>3. /\ DOMAIN sorted = {at(k) : k \in 1 .. N}
        /\ \A p \in DOMAIN sorted : sorted[p] = expected[IF p \in 1 .. N THEN p ELSE p - N]
    BY <1>1 DEF sortExpectedTransfers
  <1> HIDE DEF sorted, at, N
  <1>4. \A k \in 1 .. N : at(k) \in Nat /\ at(k) <= N + N
    BY <1>1, <1>2
  <1>5. DOMAIN sorted \subseteq Nat /\ \A p \in DOMAIN sorted : p <= N + N
    BY <1>3, <1>4
  <1>6. IsFiniteSet(DOMAIN sorted)
    <2>1. DOMAIN sorted \in SUBSET Nat /\ N + N \in Nat
      BY <1>1, <1>5
    <2> QED
      BY <1>5, <2>1, FS_BoundedSetOfNaturals, Zenon
  <1>7. \A k \in 1 .. N : at(k) \in DOMAIN sorted /\ sorted[at(k)] = expected[k]
    <2> SUFFICES ASSUME NEW k \in 1 .. N PROVE at(k) \in DOMAIN sorted /\ sorted[at(k)] = expected[k]
      OBVIOUS
    <2>1. at(k) \in DOMAIN sorted
      BY <1>3
    <2>2. k = IF at(k) \in 1 .. N THEN at(k) ELSE at(k) - N
      BY <1>1, <1>2
    <2> QED
      BY <1>3, <2>1, <2>2
  <1>8. \A j, k \in 1 .. N : at(j) = at(k) => j = k
    BY <1>1, <1>2
  <1>9. \A j, k \in 1 .. N : at(j) < at(k) /\ Particular(expected[k]) => Particular(expected[j])
    BY <1>1, <1>2
  <1> QED
    BY <1>1, <1>3, <1>5, <1>6, <1>7, <1>8, <1>9 DEF sorted, at

\* For every list of expected transfers whose memos tell what they are of, and
\* any transfers: one at a time is as good as all at once.
THEOREM MatchTransfersIsExact ==
  ASSUME NEW actual, AreIndexed(actual), NEW expected, AreExpected(expected), NEW c
  PROVE  matchTransfers(actual, expected, c) <=> Satisfies(actual, expected, c)
  <1> DEFINE sorted == sortExpectedTransfers(expected)
             at(k) == Position(expected, k)
             fits == Fits(actual, sorted, c)
  <1>1. /\ DOMAIN sorted \subseteq Nat /\ IsFiniteSet(DOMAIN sorted)
        /\ \A p \in DOMAIN sorted : \E k \in DOMAIN expected : p = at(k)
        /\ \A k \in DOMAIN expected : at(k) \in DOMAIN sorted /\ sorted[at(k)] = expected[k]
        /\ \A j, k \in DOMAIN expected :
             /\ at(j) = at(k) => j = k
             /\ at(j) < at(k) /\ Particular(expected[k]) => Particular(expected[j])
    BY SortedAre
  <1>2. /\ DOMAIN fits = DOMAIN sorted
        /\ \A p \in DOMAIN sorted : fits[p] = {i \in DOMAIN actual : Accepts(sorted[p], actual[i], c)}
    BY DEF Fits
  <1>3. matchTransfers(actual, expected, c) <=>
          Cardinality(DOMAIN actual) = Len(expected) /\ AllTaken(fits)
    BY DEF matchTransfers
  <1> HIDE DEF sorted, at, fits
  <1>4. IsFamily(fits)
    BY <1>1, <1>2 DEF IsFamily, AreIndexed
  <1>5. ASSUME AllTaken(fits)
        PROVE  \E f \in Injection(DOMAIN expected, DOMAIN actual) :
                 \A k \in DOMAIN expected : Accepts(expected[k], actual[f[k]], c)
    <2>1. PICK g : /\ \A p \in DOMAIN fits : g[p] \in fits[p]
                   /\ \A p, q \in DOMAIN fits : g[p] = g[q] => p = q
      BY <1>4, <1>5, TakenChooses
    <2> DEFINE f == [k \in DOMAIN expected |-> g[at(k)]]
    <2>2. \A k \in DOMAIN expected : f[k] \in DOMAIN actual /\ Accepts(expected[k], actual[f[k]], c)
      BY <1>1, <1>2, <2>1
    <2>3. \A j, k \in DOMAIN expected : f[j] = f[k] => j = k
      BY <1>1, <1>2, <2>1
    <2>4. f \in Injection(DOMAIN expected, DOMAIN actual)
      BY <2>2, <2>3, Fun_IsInj
    <2> QED
      BY <2>2, <2>4
  <1>6. ASSUME NEW f \in Injection(DOMAIN expected, DOMAIN actual),
               \A k \in DOMAIN expected : Accepts(expected[k], actual[f[k]], c)
        PROVE  AllTaken(fits)
    <2>1. /\ \A k \in DOMAIN expected : f[k] \in DOMAIN actual
          /\ \A j, k \in DOMAIN expected : f[j] = f[k] => j = k
      BY DEF Injection, IsInjective
    <2> DEFINE of == [p \in DOMAIN fits |-> CHOOSE k \in DOMAIN expected : p = at(k)]
               g == [p \in DOMAIN fits |-> f[of[p]]]
    <2>2. \A p \in DOMAIN fits : of[p] \in DOMAIN expected /\ p = at(of[p])
      BY <1>1, <1>2
    <2> HIDE DEF of
    <2>3. \A p \in DOMAIN fits : g[p] \in fits[p]
      BY <1>1, <1>2, <1>6, <2>1, <2>2
    <2>4. \A p, q \in DOMAIN fits : g[p] = g[q] => p = q
      BY <2>1, <2>2
    <2>5. ASSUME NEW p \in DOMAIN fits, NEW q \in DOMAIN fits, p < q, fits[p] \cap fits[q] # {}
          PROVE  fits[p] \subseteq fits[q]
      <3>1. PICK i \in DOMAIN actual : Accepts(sorted[p], actual[i], c) /\ Accepts(sorted[q], actual[i], c)
        BY <1>2, <2>5
      <3>2. Particular(sorted[q]) => Particular(sorted[p])
        BY <1>1, <2>2, <2>5
      <3>3. \A o \in DOMAIN actual : IsMemo(actual[o].memo)
        BY DEF AreIndexed
      <3>4. \A o \in DOMAIN actual : Accepts(sorted[p], actual[o], c) => Accepts(sorted[q], actual[o], c)
        BY <3>1, <3>2, <3>3, LaterAcceptsMore
      <3> QED
        BY <1>2, <3>4
    <2> HIDE DEF g
    <2> QED
      BY <1>4, <2>3, <2>4, <2>5, AllAreTaken
  <1> QED
    BY <1>3, <1>5, <1>6 DEF Satisfies

-----------------------------------------------------------------------------
(* The same transfers under other indices.                                 *)

SameTransfer(t, u) == t.to = u.to /\ t.amount = u.amount /\ t.memo = u.memo

\* Transfers pay a charge whatever indices they have.
LEMMA SatisfiesOneWay ==
  ASSUME NEW actual, NEW other, NEW expected, NEW c, IsFiniteSet(DOMAIN actual),
         NEW b \in Bijection(DOMAIN actual, DOMAIN other),
         \A i \in DOMAIN actual : SameTransfer(actual[i], other[b[i]]),
         Satisfies(actual, expected, c)
  PROVE  Satisfies(other, expected, c)
  <1>1. Cardinality(DOMAIN other) = Cardinality(DOMAIN actual)
    BY FS_Bijection DEF ExistsBijection
  <1>2. PICK f \in Injection(DOMAIN expected, DOMAIN actual) :
          \A k \in DOMAIN expected : Accepts(expected[k], actual[f[k]], c)
    BY DEF Satisfies
  <1>3. /\ \A i \in DOMAIN actual : b[i] \in DOMAIN other
        /\ b \in Injection(DOMAIN actual, DOMAIN other)
        /\ \A k \in DOMAIN expected : f[k] \in DOMAIN actual
    BY DEF Bijection, Injection
  <1> DEFINE g == [k \in DOMAIN expected |-> b[f[k]]]
  <1>4. g \in Injection(DOMAIN expected, DOMAIN other)
    BY <1>3, Fun_InjTransitive
  <1>5. \A k \in DOMAIN expected : Accepts(expected[k], other[g[k]], c)
    BY <1>2, <1>3 DEF Accepts, SameTransfer
  <1> HIDE DEF g
  <1> QED
    BY <1>1, <1>4, <1>5 DEF Satisfies

LEMMA SatisfiesSame ==
  ASSUME NEW actual, NEW other, NEW expected, NEW c, IsFiniteSet(DOMAIN actual),
         NEW b \in Bijection(DOMAIN actual, DOMAIN other),
         \A i \in DOMAIN actual : SameTransfer(actual[i], other[b[i]])
  PROVE  Satisfies(actual, expected, c) <=> Satisfies(other, expected, c)
  <1> DEFINE d == Inverse(b, DOMAIN actual, DOMAIN other)
  <1>1. d \in Bijection(DOMAIN other, DOMAIN actual) /\ \A i \in DOMAIN actual : d[b[i]] = i
    BY Fun_BijInverse
  <1>2. IsFiniteSet(DOMAIN other)
    BY FS_Bijection DEF ExistsBijection
  <1> HIDE DEF d
  <1>3. \A j \in DOMAIN other : \E i \in DOMAIN actual : b[i] = j
    BY Fun_BijectionProperties
  <1>4. \A j \in DOMAIN other : SameTransfer(other[j], actual[d[j]])
    BY <1>1, <1>3 DEF SameTransfer
  <1> QED
    BY <1>1, <1>2, <1>4, SatisfiesOneWay

\* Each of M is paired with one of C of the same key, no two with the same one.
IsPairing(pair, key, M, C) ==
  /\ \A i \in M : pair[i] \in C /\ key[pair[i]] = key[i]
  /\ \A i, j \in M : pair[i] = pair[j] => i = j
Unpaired(pair, M, C) == C \ {pair[i] : i \in M}

\* Those of C that are in no pair have the keys of those that are not in M.
LEMMA RestIsAlike ==
  ASSUME NEW C, IsFiniteSet(C), NEW M \in SUBSET C, NEW key, NEW pair, IsPairing(pair, key, M, C)
  PROVE  \E b \in Bijection(Unpaired(pair, M, C), C \ M) :
           \A i \in Unpaired(pair, M, C) : key[b[i]] = key[i]
  <1> USE DEF IsPairing, Unpaired
  <1> DEFINE P == {pair[i] : i \in M}
             From(v) == {i \in C \ P : key[i] = v}
             To(v) == {i \in C \ M : key[i] = v}
  <1>1. ASSUME NEW v PROVE Bijection(From(v), To(v)) # {}
    <2> DEFINE D == {i \in C : key[i] = v}
               E == {i \in M : key[i] = v}
               F == {pair[i] : i \in E}
               f == [i \in E |-> pair[i]]
    <2>1. IsFiniteSet(D) /\ IsFiniteSet(E)
      BY FS_Subset
    <2>2. From(v) = D \ F /\ To(v) = D \ E /\ F \subseteq D /\ E \subseteq D
      OBVIOUS
    <2>3. f \in Bijection(E, F)
      <3>1. f \in [E -> F] /\ (\A i, j \in E : f[i] = f[j] => i = j) /\ \A t \in F : \E i \in E : f[i] = t
        OBVIOUS
      <3> HIDE DEF f, E, F
      <3> QED
        BY <3>1, Fun_IsBij
    <2> HIDE DEF D, E, F, f
    <2>4. IsFiniteSet(F) /\ Cardinality(F) = Cardinality(E)
      BY <2>1, <2>3, FS_Bijection DEF ExistsBijection
    <2>5. D \cap F = F /\ D \cap E = E
      BY <2>2
    <2>6. /\ IsFiniteSet(D \ F) /\ Cardinality(D \ F) = Cardinality(D) - Cardinality(F)
          /\ IsFiniteSet(D \ E) /\ Cardinality(D \ E) = Cardinality(D) - Cardinality(E)
      <3>1. /\ IsFiniteSet(D \ F) /\ Cardinality(D \ F) = Cardinality(D) - Cardinality(D \cap F)
            /\ IsFiniteSet(D \ E) /\ Cardinality(D \ E) = Cardinality(D) - Cardinality(D \cap E)
        BY <2>1, FS_Difference, Zenon
      <3> QED
        BY <2>5, <3>1, Zenon
    <2>7. ExistsBijection(D \ F, D \ E)
      BY <2>4, <2>6, FS_SameCardinalityBij
    <2> QED
      BY <2>2, <2>7 DEF ExistsBijection
  <1> DEFINE choice(v) == CHOOSE b : b \in Bijection(From(v), To(v))
             b == [i \in C \ P |-> choice(key[i])[i]]
  <1>2. \A v : choice(v) \in Bijection(From(v), To(v))
    <2> HIDE DEF From, To
    <2> QED
      BY <1>1
  <1> HIDE DEF choice
  <1>3. \A v : /\ \A i \in From(v) : choice(v)[i] \in To(v)
               /\ \A i, j \in From(v) : choice(v)[i] = choice(v)[j] => i = j
               /\ \A j \in To(v) : \E i \in From(v) : choice(v)[i] = j
    <2> HIDE DEF From, To
    <2> QED
      BY <1>2, Fun_BijectionProperties
  <1>4. \A i \in C \ P : b[i] \in C \ M /\ key[b[i]] = key[i]
    BY <1>3
  <1>5. \A i, j \in C \ P : b[i] = b[j] => i = j
    <2>1. ASSUME NEW i \in C \ P, NEW j \in C \ P, b[i] = b[j] PROVE key[i] = key[j]
      BY <1>4, <2>1
    <2>2. \A i \in C \ P : i \in From(key[i]) /\ b[i] = choice(key[i])[i]
      OBVIOUS
    <2> HIDE DEF b, From, P
    <2> QED
      BY <1>3, <2>1, <2>2
  <1>6. \A j \in C \ M : \E i \in C \ P : b[i] = j
    <2> SUFFICES ASSUME NEW j \in C \ M PROVE \E i \in C \ P : b[i] = j
      OBVIOUS
    <2>1. j \in To(key[j])
      OBVIOUS
    <2>2. PICK i \in From(key[j]) : choice(key[j])[i] = j
      BY <1>3, <2>1
    <2> QED
      BY <2>2
  <1> HIDE DEF b
  <1>7. b \in [C \ P -> C \ M]
    BY <1>4 DEF b
  <1>8. b \in Bijection(C \ P, C \ M)
    BY <1>5, <1>6, <1>7, Fun_IsBij
  <1> QED
    BY <1>4, <1>8

-----------------------------------------------------------------------------
(* receiptMatches.                                                         *)

MemoCalls(calls) == {i \in DOMAIN calls : calls[i].memo # NoMemo}

\* The logs of a transaction: of its fee, and one or two of each of its calls.
LEMMA LogsAre ==
  ASSUME NEW calls, AreTransfers(calls), NEW payer
  PROVE  LET n == Len(calls)
             logs == Logs(payer, calls)
             M == MemoCalls(calls)
         IN  /\ DOMAIN logs = {1, 2 * n + 2} \cup CallLogs(1 .. n, M)
             /\ {1, 2 * n + 2} \cap CallLogs(1 .. n, M) = {}
             /\ logs[1].from = payer /\ logs[1].to = FeeController /\ logs[1].amount = Fee
             /\ logs[2 * n + 2].from = FeeController
             /\ \A i \in 1 .. n :
                  /\ logs[2 * i].from = payer /\ logs[2 * i].to = calls[i].to
                  /\ logs[2 * i].amount = calls[i].amount /\ logs[2 * i].memo = NoMemo
             /\ \A i \in M :
                  logs[2 * i + 1].from = payer /\ SameTransfer(logs[2 * i + 1], calls[i])
  <1> DEFINE n == Len(calls)
             logs == Logs(payer, calls)
             M == MemoCalls(calls)
             log(from, to, amount, memo) == [from |-> from, to |-> to, amount |-> amount, memo |-> memo]
  <1>1. n \in Nat /\ DOMAIN calls = 1 .. n /\ M \subseteq 1 .. n
    BY DEF AreTransfers, MemoCalls
  <1>2. /\ DOMAIN logs = {1, 2 * n + 2} \cup CallLogs(1 .. n, M)
        /\ \A k \in DOMAIN logs : logs[k] =
             CASE k = 1 -> log(payer, FeeController, Fee, NoMemo)
               [] k = 2 * n + 2 -> log(FeeController, payer, Fee, NoMemo)
               [] OTHER -> log(payer, calls[k \div 2].to, calls[k \div 2].amount,
                               IF k % 2 = 0 THEN NoMemo ELSE calls[k \div 2].memo)
    BY <1>1 DEF Logs, MemoCalls
  <1> HIDE DEF n, logs, M
  <1>3. \A i \in Int : (2 * i) \div 2 = i /\ (2 * i) % 2 = 0 /\ (2 * i + 1) \div 2 = i /\ (2 * i + 1) % 2 = 1
    OBVIOUS
  <1>4. /\ \A i \in 1 .. n : 2 * i \in CallLogs(1 .. n, M) /\ 2 * i # 1 /\ 2 * i # 2 * n + 2
        /\ \A i \in M : 2 * i + 1 \in CallLogs(1 .. n, M) /\ 2 * i + 1 # 1 /\ 2 * i + 1 # 2 * n + 2
    BY <1>1 DEF CallLogs
  <1>5. {1, 2 * n + 2} \cap CallLogs(1 .. n, M) = {}
    BY <1>4 DEF CallLogs
  <1>6. 1 # 2 * n + 2
    BY <1>1
  <1>7. logs[1] = log(payer, FeeController, Fee, NoMemo)
    <2>1. \A k \in DOMAIN logs : k = 1 => logs[k] = log(payer, FeeController, Fee, NoMemo)
      BY <1>2, <1>6
    <2> HIDE DEF log
    <2> QED
      BY <1>2, <2>1
  <1>8. logs[2 * n + 2] = log(FeeController, payer, Fee, NoMemo)
    BY <1>2, <1>6
  <1>9. ASSUME NEW i \in 1 .. n PROVE logs[2 * i] = log(payer, calls[i].to, calls[i].amount, NoMemo)
    BY <1>2, <1>3, <1>4
  <1>10. ASSUME NEW i \in M PROVE logs[2 * i + 1] = log(payer, calls[i].to, calls[i].amount, calls[i].memo)
    <2>1. (2 * i + 1) \div 2 = i /\ (2 * i + 1) % 2 # 0
      BY <1>1, <1>3
    <2> QED
      BY <1>2, <1>4, <2>1
  <1>11. DOMAIN logs = {1, 2 * n + 2} \cup CallLogs(1 .. n, M)
    BY <1>2
  <1>12. /\ logs[1].from = payer /\ logs[1].to = FeeController /\ logs[1].amount = Fee
         /\ logs[2 * n + 2].from = FeeController
    BY <1>7, <1>8
  <1>13. \A i \in 1 .. n :
           /\ logs[2 * i].from = payer /\ logs[2 * i].to = calls[i].to
           /\ logs[2 * i].amount = calls[i].amount /\ logs[2 * i].memo = NoMemo
    <2> SUFFICES ASSUME NEW i \in 1 .. n
                 PROVE  /\ logs[2 * i].from = payer /\ logs[2 * i].to = calls[i].to
                        /\ logs[2 * i].amount = calls[i].amount /\ logs[2 * i].memo = NoMemo
      OBVIOUS
    <2>1. logs[2 * i] = log(payer, calls[i].to, calls[i].amount, NoMemo)
      BY <1>9
    <2> QED
      BY <2>1
  <1>14. \A i \in M : logs[2 * i + 1].from = payer /\ SameTransfer(logs[2 * i + 1], calls[i])
    <2> SUFFICES ASSUME NEW i \in M
                 PROVE  logs[2 * i + 1].from = payer /\ SameTransfer(logs[2 * i + 1], calls[i])
      OBVIOUS
    <2>1. logs[2 * i + 1] = log(payer, calls[i].to, calls[i].amount, calls[i].memo)
      BY <1>10
    <2> QED
      BY <2>1 DEF SameTransfer
  <1> HIDE DEF log
  <1> QED
    BY ONLY <1>5, <1>11, <1>12, <1>13, <1>14, Zenon DEF n, logs, M

\* Of the logs of a receipt, those of its fee are left out.
Paid(logs, payer, expected) ==
  Restrict(logs, {k \in DOMAIN logs : /\ logs[k].from = payer
                                      /\ ~isFeeControllerTransfer(logs[k], expected)})

LEMMA PaidAre ==
  ASSUME NEW calls, AreTransfers(calls), NEW payer, payer # FeeController, NEW expected,
         \A k \in DOMAIN expected : expected[k].to = FeeController => expected[k].amount # Fee
  PROVE  LET paid == Paid(Logs(payer, calls), payer, expected)
             counted == NotFees(calls, expected)
         IN  /\ DOMAIN paid = CallLogs(DOMAIN counted, MemoCalls(counted))
             /\ \A i \in DOMAIN counted :
                  /\ paid[2 * i].to = counted[i].to /\ paid[2 * i].amount = counted[i].amount
                  /\ paid[2 * i].memo = NoMemo
             /\ \A i \in MemoCalls(counted) : SameTransfer(paid[2 * i + 1], counted[i])
  <1> DEFINE n == Len(calls)
             logs == Logs(payer, calls)
             M == MemoCalls(calls)
             all == CallLogs(1 .. n, M)
  <1>1. /\ DOMAIN logs = {1, 2 * n + 2} \cup all
        /\ {1, 2 * n + 2} \cap all = {}
        /\ logs[1].from = payer /\ logs[1].to = FeeController /\ logs[1].amount = Fee
        /\ logs[2 * n + 2].from = FeeController
        /\ \A i \in 1 .. n :
             /\ logs[2 * i].from = payer /\ logs[2 * i].to = calls[i].to
             /\ logs[2 * i].amount = calls[i].amount /\ logs[2 * i].memo = NoMemo
        /\ \A i \in M :
             logs[2 * i + 1].from = payer /\ SameTransfer(logs[2 * i + 1], calls[i])
    BY LogsAre, Zenon
  <1> DEFINE paid == Paid(logs, payer, expected)
             counted == NotFees(calls, expected)
             C == DOMAIN counted
             Counts(t) == t.to = FeeController =>
               \E k \in DOMAIN expected : expected[k].to = t.to /\ expected[k].amount = t.amount
             Kept(log) == log.from = payer /\ ~isFeeControllerTransfer(log, expected)
  <1>2. DOMAIN calls = 1 .. n /\ M \subseteq 1 .. n
    BY DEF AreTransfers, MemoCalls
  <1>3. /\ C = {i \in 1 .. n : Counts(calls[i])} /\ \A i \in C : counted[i] = calls[i]
        /\ MemoCalls(counted) = C \cap M
    BY <1>2 DEF NotFees, Restrict, MemoCalls
  <1>4. ~Kept(logs[1])
    BY <1>1 DEF isFeeControllerTransfer
  <1>5. ~Kept(logs[2 * n + 2])
    BY <1>1
  <1>6. \A i \in 1 .. n : Kept(logs[2 * i]) <=> Counts(calls[i])
    BY <1>1 DEF isFeeControllerTransfer
  <1>7. \A i \in M : Kept(logs[2 * i + 1]) <=> Counts(calls[i])
    BY <1>1 DEF isFeeControllerTransfer, SameTransfer
  <1>8. DOMAIN paid = {k \in DOMAIN logs : Kept(logs[k])} /\ \A k \in DOMAIN paid : paid[k] = logs[k]
    BY DEF Paid, Restrict
  <1> HIDE DEF n, logs, M, paid, C, counted, Counts, Kept
  <1>9. /\ \A k : k \in all <=> (\E i \in 1 .. n : k = 2 * i) \/ \E i \in M : k = 2 * i + 1
        /\ \A k : k \in CallLogs(C, C \cap M) <=>
             (\E i \in C : k = 2 * i) \/ \E i \in C \cap M : k = 2 * i + 1
    BY DEF CallLogs
  <1> HIDE DEF all
  <1>10. DOMAIN paid = CallLogs(C, C \cap M)
    <2>1. ASSUME NEW k \in DOMAIN paid PROVE k \in CallLogs(C, C \cap M)
      <3>1. k \in all /\ Kept(logs[k])
        BY <1>1, <1>4, <1>5, <1>8
      <3>2. CASE \E i \in 1 .. n : k = 2 * i
        BY <1>3, <1>6, <1>9, <3>1, <3>2
      <3>3. CASE \E i \in M : k = 2 * i + 1
        BY <1>2, <1>3, <1>7, <1>9, <3>1, <3>3
      <3> QED
        BY <1>9, <3>1, <3>2, <3>3
    <2>2. \A i \in C : 2 * i \in DOMAIN paid
      BY <1>1, <1>3, <1>6, <1>8, <1>9
    <2>3. \A i \in C \cap M : 2 * i + 1 \in DOMAIN paid
      BY <1>1, <1>3, <1>7, <1>8, <1>9
    <2> QED
      BY <1>9, <2>1, <2>2, <2>3
  <1>11. \A i \in C : /\ paid[2 * i].to = counted[i].to /\ paid[2 * i].amount = counted[i].amount
                      /\ paid[2 * i].memo = NoMemo
    BY <1>1, <1>3, <1>8, <1>9, <1>10
  <1>12. \A i \in C \cap M : SameTransfer(paid[2 * i + 1], counted[i])
    BY <1>1, <1>3, <1>8, <1>9, <1>10 DEF SameTransfer
  <1> QED
    BY <1>3, <1>10, <1>11, <1>12 DEF paid, logs, C, counted

\* Every memo log finds a plain log, and the calls that keep their plain logs are
\* as many, to the same recipients and of the same amounts, as those without memo.
LEMMA CanonicalAre ==
  ASSUME NEW calls, DOMAIN calls \subseteq Nat, IsFiniteSet(DOMAIN calls), NEW paid,
         DOMAIN paid = CallLogs(DOMAIN calls, MemoCalls(calls)),
         \A i \in DOMAIN calls :
           /\ paid[2 * i].to = calls[i].to /\ paid[2 * i].amount = calls[i].amount
           /\ paid[2 * i].memo = NoMemo,
         \A i \in MemoCalls(calls) : SameTransfer(paid[2 * i + 1], calls[i])
  PROVE  /\ AllTaken(Plains(paid))
         /\ \E b \in Bijection(DOMAIN Canonical(paid), DOMAIN calls) :
              \A k \in DOMAIN Canonical(paid) : SameTransfer(Canonical(paid)[k], calls[b[k]])
  <1>0. PICK n \in Nat : \A i \in DOMAIN calls : i <= n
    BY FiniteIsBounded
  <1> DEFINE C == DOMAIN calls
             M == MemoCalls(calls)
             logs == CallLogs(C, M)
             fits == Plains(paid)
             plain(i) == 2 * i
             memo(i) == 2 * i + 1
  <1>1. C \subseteq Nat /\ M \subseteq C /\ IsFiniteSet(C) /\ \A i \in C : i <= n
    BY <1>0 DEF MemoCalls
  <1>2. \A i \in C : i \in M <=> calls[i].memo # NoMemo
    BY DEF MemoCalls
  <1> HIDE DEF C, M
  <1>3. logs = {plain(i) : i \in C} \cup {memo(i) : i \in M}
    BY <1>1 DEF CallLogs
  <1>4. \A i, j \in C : plain(i) # memo(j) /\ (plain(i) = plain(j) => i = j) /\ (memo(i) = memo(j) => i = j)
    BY <1>1
  <1>5. \A i \in C : /\ plain(i) \in Nat /\ plain(i) <= 2 * n + 1
                     /\ memo(i) \in Nat /\ memo(i) <= 2 * n + 1 /\ memo(i) - 1 = plain(i)
    BY <1>1
  <1>6. /\ DOMAIN paid = logs
        /\ \A i \in C : /\ paid[plain(i)].to = calls[i].to /\ paid[plain(i)].amount = calls[i].amount
                        /\ paid[plain(i)].memo = NoMemo
        /\ \A i \in M : SameTransfer(paid[memo(i)], calls[i])
    BY DEF C, M
  <1> HIDE DEF logs, plain, memo
  <1>7. \A i \in M : /\ i \in C /\ paid[memo(i)].to = calls[i].to /\ paid[memo(i)].amount = calls[i].amount
                     /\ paid[memo(i)].memo = calls[i].memo /\ paid[memo(i)].memo # NoMemo
    BY <1>1, <1>2, <1>6 DEF SameTransfer
  <1>8. IsFiniteSet(logs) /\ logs \subseteq Nat
    <2>1. \A k \in logs : k \in Nat /\ k <= 2 * n + 1
      BY <1>1, <1>3, <1>5
    <2>2. logs \in SUBSET Nat /\ 2 * n + 1 \in Nat
      BY <1>1, <2>1
    <2> QED
      BY <2>1, <2>2, FS_BoundedSetOfNaturals, Zenon
  <1>9. DOMAIN fits = {memo(i) : i \in M}
    <2>1. DOMAIN fits = {k \in logs : paid[k].memo # NoMemo}
      BY <1>6 DEF Plains
    <2>2. \A k \in logs : paid[k].memo # NoMemo <=> k \in {memo(i) : i \in M}
      BY <1>3, <1>6, <1>7
    <2> QED
      BY <1>3, <2>1, <2>2
  <1>10. \A i \in M : \A x : x \in fits[memo(i)] <=>
           \E j \in C : x = plain(j) /\ calls[j].to = calls[i].to /\ calls[j].amount = calls[i].amount
    <2> SUFFICES ASSUME NEW i \in M, NEW x
                 PROVE  x \in fits[memo(i)] <=>
                          \E j \in C : /\ x = plain(j)
                                       /\ calls[j].to = calls[i].to /\ calls[j].amount = calls[i].amount
      OBVIOUS
    <2>1. fits[memo(i)] = {k \in logs : /\ paid[k].memo = NoMemo
                                        /\ paid[k].amount = paid[memo(i)].amount
                                        /\ paid[k].to = paid[memo(i)].to}
      <3>1. memo(i) \in DOMAIN fits
        BY <1>9
      <3> QED
        BY <1>6, <3>1 DEF Plains
    <2>2. \A k \in logs : paid[k].memo = NoMemo <=> \E j \in C : k = plain(j)
      BY <1>3, <1>6, <1>7
    <2>3. \A j \in C : plain(j) \in logs
      BY <1>3
    <2> HIDE DEF fits
    <2>4. x \in fits[memo(i)] <=> x \in logs /\ (\E j \in C : x = plain(j))
                                 /\ paid[x].amount = calls[i].amount /\ paid[x].to = calls[i].to
      BY <1>7, <2>1, <2>2
    <2> QED
      BY <1>6, <2>3, <2>4
  <1> HIDE DEF fits
  <1>11. IsFamily(fits)
    <2>1. DOMAIN fits \subseteq logs
      BY <1>3, <1>9
    <2>2. IsFiniteSet(DOMAIN fits) /\ DOMAIN fits \subseteq Nat
      BY <1>8, <2>1, FS_Subset
    <2>3. \A k \in DOMAIN fits : fits[k] \subseteq Nat
      BY <1>5, <1>9, <1>10
    <2> QED
      BY <2>2, <2>3 DEF IsFamily
  <1>12. AllTaken(fits)
    <2> DEFINE f == [k \in DOMAIN fits |-> k - 1]
    <2>1. \A i \in M : plain(i) \in fits[memo(i)] /\ memo(i) - 1 = plain(i)
      BY <1>5, <1>7, <1>10
    <2>2. \A k \in DOMAIN fits : f[k] \in fits[k]
      BY <1>9, <2>1
    <2>3. \A j, k \in DOMAIN fits : f[j] = f[k] => j = k
      BY <1>11 DEF IsFamily
    <2> HIDE DEF f
    <2>4. ASSUME NEW i \in M, NEW j \in M, fits[memo(i)] \cap fits[memo(j)] # {}
          PROVE  fits[memo(i)] \subseteq fits[memo(j)]
      <3>1. PICK x : x \in fits[memo(i)] /\ x \in fits[memo(j)]
        BY <2>4
      <3>2. PICK a \in C : x = plain(a) /\ calls[a].to = calls[i].to /\ calls[a].amount = calls[i].amount
        BY <1>10, <3>1
      <3>3. PICK d \in C : x = plain(d) /\ calls[d].to = calls[j].to /\ calls[d].amount = calls[j].amount
        BY <1>10, <3>1
      <3>4. calls[i].to = calls[j].to /\ calls[i].amount = calls[j].amount
        BY <1>4, <3>2, <3>3
      <3> QED
        BY <1>10, <3>4
    <2>5. \A j, k \in DOMAIN fits : j < k /\ fits[j] \cap fits[k] # {} => fits[j] \subseteq fits[k]
      BY <1>9, <2>4
    <2> QED
      BY <1>11, <2>2, <2>3, <2>5, AllAreTaken
  <1>13. PICK g : /\ \A k \in DOMAIN fits : g[k] \in fits[k] /\ Taken(fits)[k] = {g[k]}
                  /\ \A j, k \in DOMAIN fits : g[j] = g[k] => j = k
    BY <1>11, <1>12, TakenChooses
  <1> DEFINE pair == [i \in M |-> CHOOSE j \in C : g[memo(i)] = plain(j)]
             key == [i \in C |-> <<calls[i].to, calls[i].amount>>]
             P == {pair[i] : i \in M}
  <1>14. \A i \in M : pair[i] \in C /\ g[memo(i)] = plain(pair[i]) /\ key[pair[i]] = key[i]
    <2> SUFFICES ASSUME NEW i \in M
                 PROVE  pair[i] \in C /\ g[memo(i)] = plain(pair[i]) /\ key[pair[i]] = key[i]
      OBVIOUS
    <2>1. g[memo(i)] \in fits[memo(i)]
      BY <1>9, <1>13
    <2>2. PICK j \in C : /\ g[memo(i)] = plain(j)
                         /\ calls[j].to = calls[i].to /\ calls[j].amount = calls[i].amount
      BY <1>10, <2>1
    <2>3. pair[i] = j
      BY <1>4, <2>2
    <2> QED
      BY <1>7, <2>2, <2>3
  <1>15. \A i, j \in C : key[i] = key[j] => calls[i].to = calls[j].to /\ calls[i].amount = calls[j].amount
    OBVIOUS
  <1> HIDE DEF pair, key
  <1>16. \A i, j \in M : pair[i] = pair[j] => i = j
    <2> SUFFICES ASSUME NEW i \in M, NEW j \in M, pair[i] = pair[j] PROVE i = j
      OBVIOUS
    <2>1. g[memo(i)] = g[memo(j)]
      BY <1>14
    <2>2. memo(i) \in DOMAIN fits /\ memo(j) \in DOMAIN fits
      BY <1>9
    <2>3. memo(i) = memo(j)
      BY <1>13, <2>1, <2>2
    <2> QED
      BY <1>4, <1>7, <2>3
  <1>17. PICK rest \in Bijection(C \ P, C \ M) : \A i \in C \ P : key[rest[i]] = key[i]
    <2>1. M \in SUBSET C
      BY <1>1
    <2>3. IsPairing(pair, key, M, C)
      BY <1>14, <1>16 DEF IsPairing
    <2>4. IsFiniteSet(C)
      BY <1>1
    <2>2. \E rest \in Bijection(Unpaired(pair, M, C), C \ M) :
            \A i \in Unpaired(pair, M, C) : key[rest[i]] = key[i]
      BY <2>1, <2>3, <2>4, RestIsAlike
    <2>5. Unpaired(pair, M, C) = C \ P
      BY DEF Unpaired
    <2> QED
      BY <2>2, <2>5
  <1> DEFINE canon == Canonical(paid)
  <1>18. DOMAIN canon = {plain(i) : i \in C \ P} \cup {memo(i) : i \in M}
    <2>1. \A x : x \in UNION Range(Taken(fits)) <=> \E k \in DOMAIN fits : x \in Taken(fits)[k]
      BY <1>11, TakenIs DEF Range
    <2>2. \A x : x \in UNION Range(Taken(fits)) <=> \E i \in M : x = plain(pair[i])
      <3>1. \A k \in DOMAIN fits : \A x : x \in Taken(fits)[k] <=> x = g[k]
        BY <1>13
      <3>2. \A k : k \in DOMAIN fits <=> \E i \in M : k = memo(i)
        BY <1>9
      <3> SUFFICES ASSUME NEW x
                   PROVE  x \in UNION Range(Taken(fits)) <=> \E i \in M : x = plain(pair[i])
        OBVIOUS
      <3>3. ASSUME x \in UNION Range(Taken(fits)) PROVE \E i \in M : x = plain(pair[i])
        <4>1. PICK k \in DOMAIN fits : x \in Taken(fits)[k]
          BY <2>1, <3>3
        <4>2. PICK i \in M : k = memo(i)
          BY <3>2
        <4> QED
          BY <1>14, <3>1, <4>1, <4>2
      <3>4. ASSUME NEW i \in M, x = plain(pair[i]) PROVE x \in UNION Range(Taken(fits))
        <4>1. memo(i) \in DOMAIN fits /\ x = g[memo(i)]
          BY <1>14, <3>2, <3>4
        <4> QED
          BY <2>1, <3>1, <4>1
      <3> QED
        BY <3>3, <3>4
    <2>3. DOMAIN canon = logs \ UNION Range(Taken(fits))
      BY <1>6 DEF Canonical, Restrict, fits
    <2>4. \A i \in C : plain(i) \in UNION Range(Taken(fits)) <=> i \in P
      BY <1>4, <1>14, <2>2
    <2>5. \A i \in M : memo(i) \notin UNION Range(Taken(fits))
      BY <1>4, <1>7, <1>14, <2>2
    <2> HIDE DEF P, canon
    <2>6. \A k : k \in DOMAIN canon <=> (\E i \in C \ P : k = plain(i)) \/ \E i \in M : k = memo(i)
      BY <1>3, <2>3, <2>4, <2>5
    <2> QED
      BY <2>6
  <1>19. \A k \in DOMAIN canon : canon[k] = paid[k]
    BY <1>6 DEF Canonical, Restrict
  <1> HIDE DEF canon, P
  <1> DEFINE b == [k \in DOMAIN canon |-> IF \E i \in M : k = memo(i)
                                          THEN CHOOSE i \in M : k = memo(i)
                                          ELSE rest[CHOOSE i \in C : k = plain(i)]]
  <1>20. \A i \in M : memo(i) \in DOMAIN canon /\ b[memo(i)] = i
    BY <1>4, <1>7, <1>18
  <1>21. \A i \in C \ P : plain(i) \in DOMAIN canon /\ b[plain(i)] = rest[i]
    <2> SUFFICES ASSUME NEW i \in C \ P PROVE plain(i) \in DOMAIN canon /\ b[plain(i)] = rest[i]
      OBVIOUS
    <2>1. plain(i) \in DOMAIN canon /\ ~\E j \in M : plain(i) = memo(j)
      BY <1>4, <1>7, <1>18
    <2>2. (CHOOSE j \in C : plain(i) = plain(j)) = i
      BY <1>4
    <2> QED
      BY <2>1, <2>2
  <1>22. \A k \in DOMAIN canon : (\E i \in M : k = memo(i)) \/ \E i \in C \ P : k = plain(i)
    BY <1>18
  <1>23. /\ \A i \in C \ P : rest[i] \in C \ M
         /\ \A i, j \in C \ P : rest[i] = rest[j] => i = j
         /\ \A j \in C \ M : \E i \in C \ P : rest[i] = j
    <2> DEFINE S == C \ P
               T == C \ M
    <2>1. rest \in Bijection(S, T)
      BY <1>17
    <2> HIDE DEF S, T
    <2>2. /\ rest \in [S -> T]
          /\ \A i, j \in S : rest[i] = rest[j] => i = j
          /\ \A j \in T : \E i \in S : rest[i] = j
      BY <2>1, Fun_BijectionProperties
    <2>3. \A i \in S : rest[i] \in T
      BY <2>2
    <2> QED
      BY <2>2, <2>3 DEF S, T
  <1>24. b \in Bijection(DOMAIN canon, C)
    <2>1. b = [k \in DOMAIN canon |-> b[k]]
      OBVIOUS
    <2> HIDE DEF b
    <2>2. \A k \in DOMAIN canon : b[k] \in C
      BY <1>7, <1>20, <1>21, <1>22, <1>23
    <2>3. \A j, k \in DOMAIN canon : b[j] = b[k] => j = k
      BY <1>20, <1>21, <1>22, <1>23
    <2>4. \A i \in C : \E k \in DOMAIN canon : b[k] = i
      BY <1>20, <1>21, <1>23
    <2>5. b \in [DOMAIN canon -> C]
      BY <2>1, <2>2
    <2> QED
      BY <2>3, <2>4, <2>5, Fun_IsBij
  <1> HIDE DEF b
  <1>25. \A k \in DOMAIN canon : SameTransfer(canon[k], calls[b[k]])
    <2>1. ASSUME NEW i \in M PROVE SameTransfer(canon[memo(i)], calls[b[memo(i)]])
      BY <1>6, <1>19, <1>20
    <2>2. ASSUME NEW i \in C \ P PROVE SameTransfer(canon[plain(i)], calls[b[plain(i)]])
      <3>1. canon[plain(i)] = paid[plain(i)] /\ b[plain(i)] = rest[i]
        BY <1>19, <1>21
      <3>2. rest[i] \in C /\ calls[rest[i]].memo = NoMemo
        BY <1>2, <1>23
      <3>3. calls[rest[i]].to = calls[i].to /\ calls[rest[i]].amount = calls[i].amount
        BY <1>15, <1>17, <3>2
      <3> QED
        BY <1>6, <3>1, <3>2, <3>3 DEF SameTransfer
    <2> QED
      BY <1>22, <2>1, <2>2
  <1> QED
    BY <1>12, <1>24, <1>25 DEF canon, fits, C

\* The verdict on a receipt is the one on the calls that left it, fees apart.
THEOREM ReceiptIsExact ==
  ASSUME NEW calls, AreTransfers(calls), NEW payer, payer # FeeController, NEW r, NEW c,
         AreExpected(expectedTransfers(r)),
         \A k \in DOMAIN expectedTransfers(r) :
           expectedTransfers(r)[k].to = FeeController => expectedTransfers(r)[k].amount # Fee
  PROVE  receiptMatches(Logs(payer, calls), r, c, payer) <=>
           Satisfies(NotFees(calls, expectedTransfers(r)), expectedTransfers(r), c)
  <1> DEFINE expected == expectedTransfers(r)
             paid == Paid(Logs(payer, calls), payer, expected)
             counted == NotFees(calls, expected)
             canon == Canonical(paid)
  <1>1. receiptMatches(Logs(payer, calls), r, c, payer) <=>
          AllTaken(Plains(paid)) /\ matchTransfers(canon, expected, c)
    BY DEF receiptMatches, Paid
  <1>2. /\ AreExpected(expected)
        /\ \A k \in DOMAIN expected : expected[k].to = FeeController => expected[k].amount # Fee
    OBVIOUS
  <1> HIDE DEF expected
  <1>3. /\ DOMAIN paid = CallLogs(DOMAIN counted, MemoCalls(counted))
        /\ \A i \in DOMAIN counted :
             /\ paid[2 * i].to = counted[i].to /\ paid[2 * i].amount = counted[i].amount
             /\ paid[2 * i].memo = NoMemo
        /\ \A i \in MemoCalls(counted) : SameTransfer(paid[2 * i + 1], counted[i])
    BY <1>2, PaidAre
  <1>4. /\ DOMAIN counted \subseteq Nat /\ IsFiniteSet(DOMAIN counted)
        /\ \A i \in DOMAIN counted : IsMemo(counted[i].memo)
    <2>1. DOMAIN counted \subseteq DOMAIN calls /\ \A i \in DOMAIN counted : counted[i] = calls[i]
      BY DEF NotFees, Restrict
    <2>2. DOMAIN calls \subseteq Nat /\ IsFiniteSet(DOMAIN calls)
      BY FS_Interval DEF AreTransfers
    <2>3. \A i \in DOMAIN calls : IsMemo(calls[i].memo)
      BY DEF AreTransfers
    <2> HIDE DEF counted
    <2> QED
      BY <2>1, <2>2, <2>3, FS_Subset
  <1> HIDE DEF paid, counted
  <1>5. AllTaken(Plains(paid))
    BY <1>3, <1>4, CanonicalAre
  <1>6. PICK b \in Bijection(DOMAIN canon, DOMAIN counted) :
          \A k \in DOMAIN canon : SameTransfer(canon[k], counted[b[k]])
    BY <1>3, <1>4, CanonicalAre
  <1>7. AreIndexed(canon) /\ IsFiniteSet(DOMAIN canon)
    <2>1. b \in Injection(DOMAIN canon, DOMAIN counted) /\ \A k \in DOMAIN canon : b[k] \in DOMAIN counted
      BY Fun_BijectionProperties
    <2>2. IsFiniteSet(DOMAIN canon)
      BY <1>4, <2>1, FS_Injection
    <2>3. DOMAIN canon \subseteq DOMAIN paid /\ DOMAIN paid \subseteq Nat
      BY <1>3, <1>4 DEF Canonical, Restrict, CallLogs, MemoCalls
    <2>4. \A k \in DOMAIN canon : IsMemo(canon[k].memo)
      BY <1>4, <1>6, <2>1 DEF SameTransfer
    <2> QED
      BY <2>2, <2>3, <2>4 DEF AreIndexed
  <1> HIDE DEF canon
  <1>8. matchTransfers(canon, expected, c) <=> Satisfies(canon, expected, c)
    BY <1>2, <1>7, MatchTransfersIsExact
  <1>9. Satisfies(canon, expected, c) <=> Satisfies(counted, expected, c)
    BY <1>6, <1>7, SatisfiesSame
  <1> QED
    BY <1>1, <1>5, <1>8, <1>9 DEF expected, counted

-----------------------------------------------------------------------------
(* Requests.                                                               *)

\* The expected transfers: the primary one, and one for each split.
LEMMA ExpectedAre ==
  ASSUME NEW r, AreTransfers(r.splits)
  PROVE  LET expected == expectedTransfers(r) IN
         /\ AreExpected(expected) /\ Len(expected) = Len(r.splits) + 1
         /\ expected[1] = [to |-> r.to, amount |-> PrimaryAmount(r), memo |-> NoMemo, primary |-> TRUE]
         /\ \A i \in DOMAIN r.splits :
              expected[i + 1] = [to |-> r.splits[i].to, amount |-> r.splits[i].amount,
                                 memo |-> r.splits[i].memo, primary |-> FALSE]
  <1> DEFINE splits == [i \in DOMAIN r.splits |->
                          [to |-> r.splits[i].to, amount |-> r.splits[i].amount,
                           memo |-> r.splits[i].memo, primary |-> FALSE]]
             first == [to |-> r.to, amount |-> PrimaryAmount(r), memo |-> NoMemo, primary |-> TRUE]
             n == Len(r.splits)
  <1>1. n \in Nat /\ DOMAIN r.splits = 1 .. n
    BY DEF AreTransfers
  <1>2. splits \in Seq(Range(splits)) /\ Len(splits) = n
    <2>1. splits \in [1 .. n -> Range(splits)]
      BY <1>1 DEF Range
    <2> HIDE DEF splits
    <2> QED
      BY <1>1, <2>1
  <1>3. \A i \in 1 .. n : splits[i] = [to |-> r.splits[i].to, amount |-> r.splits[i].amount,
                                       memo |-> r.splits[i].memo, primary |-> FALSE]
    BY <1>1
  <1>4. expectedTransfers(r) = <<first>> \o splits
    BY DEF expectedTransfers
  <1> HIDE DEF splits, first, n
  <1>5. /\ Len(<<first>> \o splits) = n + 1
        /\ DOMAIN (<<first>> \o splits) = 1 .. n + 1
        /\ (<<first>> \o splits)[1] = first
        /\ \A i \in 1 .. n : (<<first>> \o splits)[i + 1] = splits[i]
    BY <1>1, <1>2
  <1> QED
    BY <1>1, <1>3, <1>4, <1>5 DEF AreExpected, first, n

\* What this package's client builds: the same, with its attribution memo.
LEMMA BuiltAre ==
  ASSUME NEW r, AreTransfers(r.splits), NEW c
  PROVE  LET built == buildTransfers(r, c) IN
         /\ Len(built) = Len(r.splits) + 1 /\ DOMAIN built = 1 .. Len(r.splits) + 1
         /\ built \in Seq(Range(built))
         /\ built[1] = [to |-> r.to, amount |-> PrimaryAmount(r), memo |-> Attribution(c)]
         /\ \A i \in DOMAIN r.splits : built[i + 1] = r.splits[i]
  <1> DEFINE first == [to |-> r.to, amount |-> PrimaryAmount(r), memo |-> Attribution(c)]
             n == Len(r.splits)
             built == <<first>> \o r.splits
  <1>1. n \in Nat /\ DOMAIN r.splits = 1 .. n /\ r.splits \in Seq(Range(r.splits))
    BY DEF AreTransfers
  <1>2. buildTransfers(r, c) = built
    BY DEF buildTransfers
  <1> HIDE DEF first, n
  <1>3. /\ Len(built) = n + 1 /\ DOMAIN built = 1 .. n + 1 /\ built[1] = first
        /\ \A i \in 1 .. n : built[i + 1] = r.splits[i]
        /\ built = [i \in 1 .. n + 1 |-> built[i]]
    BY <1>1 DEF n
  <1> HIDE DEF built
  <1>4. built \in [1 .. n + 1 -> Range(built)]
    BY <1>3 DEF Range
  <1>5. built \in Seq(Range(built))
    BY <1>1, <1>4
  <1> QED
    BY <1>1, <1>2, <1>3, <1>5 DEF first, n

\* A client's own transfers are the ones expected.
LEMMA BuiltIsExpected ==
  ASSUME NEW r, AreTransfers(r.splits), NEW c
  PROVE  Satisfies(buildTransfers(r, c), expectedTransfers(r), c)
  <1> DEFINE built == buildTransfers(r, c)
             expected == expectedTransfers(r)
             n == Len(r.splits)
             f == [k \in 1 .. n + 1 |-> k]
  <1>1. n \in Nat /\ DOMAIN r.splits = 1 .. n
    BY DEF AreTransfers
  <1>2. /\ Len(expected) = n + 1 /\ DOMAIN expected = 1 .. n + 1
        /\ expected[1] = [to |-> r.to, amount |-> PrimaryAmount(r), memo |-> NoMemo, primary |-> TRUE]
        /\ \A i \in 1 .. n :
             expected[i + 1] = [to |-> r.splits[i].to, amount |-> r.splits[i].amount,
                                memo |-> r.splits[i].memo, primary |-> FALSE]
    BY <1>1, ExpectedAre DEF AreExpected
  <1>3. /\ DOMAIN built = 1 .. n + 1
        /\ built[1] = [to |-> r.to, amount |-> PrimaryAmount(r), memo |-> Attribution(c)]
        /\ \A i \in 1 .. n : built[i + 1] = r.splits[i]
    BY <1>1, BuiltAre
  <1> HIDE DEF built, expected, n
  <1>4. Cardinality(1 .. n + 1) = n + 1
    BY <1>1, FS_Interval
  <1>5. f \in Injection(1 .. n + 1, 1 .. n + 1)
    BY Fun_IsInj
  <1>6. ASSUME NEW k \in 1 .. n + 1 PROVE Accepts(expected[k], built[k], c)
    <2>1. CASE k = 1
      BY <1>2, <1>3, <2>1 DEF Accepts, BoundTo, Attribution, IsAttributionMemo
    <2>2. CASE k # 1
      <3>1. PICK i \in 1 .. n : k = i + 1
        <4>1. k - 1 \in 1 .. n /\ k = (k - 1) + 1
          BY <1>1, <2>2
        <4> QED
          BY <4>1
      <3>2. /\ expected[k] = [to |-> r.splits[i].to, amount |-> r.splits[i].amount,
                              memo |-> r.splits[i].memo, primary |-> FALSE]
            /\ built[k] = r.splits[i]
        BY <1>2, <1>3, <3>1
      <3>3. ~IsAttributionMemo(NoMemo)
        BY DEF IsAttributionMemo, NoMemo
      <3> QED
        BY <3>2, <3>3 DEF Accepts
    <2> QED
      BY <2>1, <2>2
  <1> HIDE DEF f
  <1>7. \A k \in 1 .. n + 1 : f[k] = k
    BY DEF f
  <1> QED
    BY <1>2, <1>3, <1>4, <1>5, <1>6, <1>7 DEF Satisfies, built, expected

\* Its transfers are positive and add up to the amount of the charge.
LEMMA BuiltAddsUp ==
  ASSUME NEW r, AreTransfers(r.splits), r.amount \in Nat \ {0}, ValidSplits(r), NEW c
  PROVE  LET built == buildTransfers(r, c) IN
         /\ AreTransfers(built) /\ Total(built) = r.amount
         /\ \A i \in DOMAIN built : built[i].amount > 0
  <1> DEFINE n == Len(r.splits)
             first == [to |-> r.to, amount |-> PrimaryAmount(r), memo |-> Attribution(c)]
             built == buildTransfers(r, c)
  <1>1. /\ n \in Nat /\ DOMAIN r.splits = 1 .. n /\ r.splits \in Seq(Range(r.splits))
        /\ \A i \in 1 .. n : r.splits[i].amount \in Nat /\ IsMemo(r.splits[i].memo)
    BY DEF AreTransfers
  <1>2. Total(r.splits) \in Int
    <2>1. \A i \in 1 .. n : r.splits[i].amount \in Int
      BY <1>1
    <2> QED
      BY <1>1, <2>1, SumsTyped DEF Total
  <1>3. PrimaryAmount(r) = r.amount - Total(r.splits) /\ PrimaryAmount(r) \in Int
    BY <1>2 DEF PrimaryAmount, SplitTotal
  <1>4. PrimaryAmount(r) > 0 /\ \A i \in 1 .. n : r.splits[i].amount > 0
    <2>1. CASE r.splits = <<>>
      <3>1. n = 0 /\ Total(r.splits) = 0
        BY <2>1, <1>1, SumsAre DEF Total
      <3> QED
        BY <1>3, <3>1
    <2>2. CASE r.splits # <<>>
      <3>1. Total(r.splits) < r.amount /\ \A i \in DOMAIN r.splits : r.splits[i].amount > 0
        BY <2>2 DEF ValidSplits, SplitTotal
      <3> QED
        BY <1>1, <1>2, <1>3, <3>1
    <2> QED
      BY <2>1, <2>2
  <1>5. Total(built) = r.amount
    <2>1. built = <<first>> \o r.splits
      BY DEF buildTransfers
    <2>2. first.amount \in Int /\ first.amount = r.amount - Total(r.splits)
      BY <1>3
    <2> HIDE DEF first, built
    <2>3. Total(<<first>> \o r.splits) = first.amount + Total(r.splits)
      BY <1>1, <2>2, TotalOfMore
    <2> QED
      BY <1>2, <2>1, <2>2, <2>3
  <1>6. /\ DOMAIN built = 1 .. n + 1 /\ built \in Seq(Range(built)) /\ built[1] = first
        /\ \A i \in 1 .. n : built[i + 1] = r.splits[i]
    BY <1>1, BuiltAre
  <1> HIDE DEF built, n
  <1>7. first.amount \in Nat /\ first.amount > 0 /\ IsMemo(first.memo)
    BY <1>3, <1>4 DEF IsMemo, Attribution
  <1> HIDE DEF first
  <1>8. ASSUME NEW i \in 1 .. n + 1
        PROVE  built[i].amount \in Nat /\ built[i].amount > 0 /\ IsMemo(built[i].memo)
    <2>1. i = 1 \/ \E j \in 1 .. n : i = j + 1
      <3>1. i = 1 \/ (i - 1 \in 1 .. n /\ i = (i - 1) + 1)
        BY <1>1
      <3> QED
        BY <3>1
    <2> QED
      BY <1>1, <1>4, <1>6, <1>7, <2>1
  <1> QED
    BY <1>5, <1>6, <1>8 DEF AreTransfers, built

\* Of transfers that are matched, one carries the challenge's attribution memo.
LEMMA PrimaryIsBound ==
  ASSUME NEW r, AreTransfers(r.splits), NEW c, NEW calls, Satisfies(calls, expectedTransfers(r), c)
  PROVE  \E i \in DOMAIN calls : BoundTo(calls[i].memo, c)
  <1> DEFINE expected == expectedTransfers(r)
  <1>1. /\ Len(r.splits) \in Nat /\ DOMAIN expected = 1 .. Len(r.splits) + 1
        /\ expected[1] = [to |-> r.to, amount |-> PrimaryAmount(r), memo |-> NoMemo, primary |-> TRUE]
    BY ExpectedAre DEF AreExpected, AreTransfers
  <1> HIDE DEF expected
  <1>a. 1 \in DOMAIN expected /\ expected[1].memo = NoMemo /\ expected[1].primary
    BY <1>1
  <1>2. PICK f \in Injection(DOMAIN expected, DOMAIN calls) :
          \A k \in DOMAIN expected : Accepts(expected[k], calls[f[k]], c)
    BY DEF Satisfies, expected
  <1>3. f[1] \in DOMAIN calls /\ Accepts(expected[1], calls[f[1]], c)
    BY <1>a, <1>2 DEF Injection
  <1> QED
    BY <1>a, <1>3 DEF Accepts

\* An attribution memo among them is the challenge's, or a split names it.
LEMMA BoundIsNamed ==
  ASSUME NEW r, AreTransfers(r.splits), NEW c, NEW calls, IsFiniteSet(DOMAIN calls),
         Satisfies(calls, expectedTransfers(r), c),
         NEW d, NEW i \in DOMAIN calls, BoundTo(calls[i].memo, d)
  PROVE  \/ d.realm = c.realm /\ d.id = c.id
         \/ \E j \in DOMAIN r.splits : BoundTo(r.splits[j].memo, d)
  <1> DEFINE expected == expectedTransfers(r)
             n == Len(r.splits)
  <1>1. n \in Nat /\ DOMAIN r.splits = 1 .. n
    BY DEF AreTransfers
  <1>a. /\ Len(expected) = n + 1 /\ DOMAIN expected = 1 .. n + 1
        /\ expected[1] = [to |-> r.to, amount |-> PrimaryAmount(r), memo |-> NoMemo, primary |-> TRUE]
        /\ \A j \in 1 .. n :
              expected[j + 1] = [to |-> r.splits[j].to, amount |-> r.splits[j].amount,
                                 memo |-> r.splits[j].memo, primary |-> FALSE]
    BY <1>1, ExpectedAre DEF AreExpected
  <1> HIDE DEF expected, n
  <1>2. /\ Len(expected) = n + 1 /\ DOMAIN expected = 1 .. n + 1
        /\ expected[1].memo = NoMemo
        /\ \A j \in 1 .. n : expected[j + 1].memo = r.splits[j].memo
    <2>1. ASSUME NEW j \in 1 .. n PROVE expected[j + 1].memo = r.splits[j].memo
      <3> DEFINE want == expected[j + 1]
      <3>1. want = [to |-> r.splits[j].to, amount |-> r.splits[j].amount,
                    memo |-> r.splits[j].memo, primary |-> FALSE]
        BY <1>a
      <3> HIDE DEF want
      <3>2. want.memo = r.splits[j].memo
        BY <3>1
      <3> QED
        BY <3>2 DEF want
    <2>2. expected[1].memo = NoMemo
      BY <1>a
    <2> QED
      BY <1>a, <2>1, <2>2
  <1>3. Cardinality(DOMAIN calls) = n + 1
    BY <1>2 DEF Satisfies, expected
  <1>4. PICK f \in Injection(DOMAIN expected, DOMAIN calls) :
          \A k \in DOMAIN expected : Accepts(expected[k], calls[f[k]], c)
    BY DEF Satisfies, expected
  <1>5. Cardinality(DOMAIN expected) = n + 1
    BY <1>1, <1>2, FS_Interval
  <1>6. f \in Surjection(DOMAIN expected, DOMAIN calls)
    BY <1>3, <1>4, <1>5, FS_Injection
  <1>7. PICK k \in DOMAIN expected : f[k] = i
    BY <1>6 DEF Surjection
  <1>8. Accepts(expected[k], calls[i], c) /\ IsAttributionMemo(calls[i].memo)
    BY <1>4, <1>7 DEF BoundTo
  <1>9. CASE expected[k].memo = NoMemo
    <2>1. BoundTo(calls[i].memo, c)
      BY <1>8, <1>9 DEF Accepts
    <2> QED
      BY <2>1 DEF BoundTo
  <1>10. CASE expected[k].memo # NoMemo
    <2>1. expected[k].memo = calls[i].memo
      BY <1>8, <1>10 DEF Accepts
    <2>2. k # 1
      BY <1>2, <1>10
    <2>3. k - 1 \in 1 .. n /\ (k - 1) + 1 = k
      BY <1>1, <1>2, <2>2
    <2>4. r.splits[k - 1].memo = calls[i].memo
      BY <1>2, <2>1, <2>3
    <2> QED
      BY <1>1, <2>3, <2>4
  <1> QED
    BY <1>9, <1>10

\* Each of the calls that are matched is like one that is expected, and so none
\* is taken for a fee.
LEMMA MatchedAreNoFees ==
  ASSUME NEW expected, AreExpected(expected), NEW c, NEW calls, AreTransfers(calls),
         Satisfies(calls, expected, c)
  PROVE  NotFees(calls, expected) = calls
  <1> DEFINE n == Len(expected)
  <1>1. n \in Nat /\ DOMAIN expected = 1 .. n
    BY DEF AreExpected
  <1>a. Len(calls) \in Nat /\ DOMAIN calls = 1 .. Len(calls)
    BY DEF AreTransfers
  <1>b. IsFiniteSet(DOMAIN calls)
    BY <1>a, FS_Interval
  <1>c. Cardinality(DOMAIN calls) = n
    BY DEF Satisfies
  <1> HIDE DEF n
  <1>2. PICK f \in Injection(DOMAIN expected, DOMAIN calls) :
          \A k \in DOMAIN expected : Accepts(expected[k], calls[f[k]], c)
    BY DEF Satisfies
  <1>3. Cardinality(DOMAIN expected) = n
    BY <1>1, FS_Interval
  <1>4. f \in Surjection(DOMAIN expected, DOMAIN calls)
    BY <1>b, <1>c, <1>2, <1>3, FS_Injection
  <1>5. \A i \in DOMAIN calls : \E k \in DOMAIN expected :
          expected[k].to = calls[i].to /\ expected[k].amount = calls[i].amount
    BY <1>2, <1>4 DEF Surjection, Accepts
  <1>6. calls = [i \in DOMAIN calls |-> calls[i]]
    BY DEF AreTransfers
  <1> QED
    BY <1>5, <1>6 DEF NotFees, Restrict
===============================================================================
