---------------------------- MODULE SharedLemmas ----------------------------
(***************************************************************************)
(* Facts the proofs share: remainders and quotients for a modulus that is  *)
(* not a literal, least and greatest elements, induction and recursion,    *)
(* joined sequences, and functions that hold the same values at other      *)
(* places.  Sets stand for the predicates of the usual statements about    *)
(* induction, so that they need no operator as parameter.                  *)
(***************************************************************************)
EXTENDS Integers, Sequences, WellFoundedInduction, TLAPS

(* A natural number is its quotient times the modulus plus its remainder.  *)
LEMMA Division ==
  ASSUME NEW m \in Nat \ {0}, NEW a \in Nat
  PROVE  /\ a % m \in 0..(m-1)
         /\ a \div m \in Nat
         /\ a = m * (a \div m) + (a % m)
BY SMTT(20)

(* There is only one way to write a number as such a sum.                  *)
LEMMA DivisionUnique ==
  ASSUME NEW m \in Nat \ {0},
         NEW q \in Nat, NEW r \in 0..(m-1),
         NEW p \in Nat, NEW s \in 0..(m-1),
         m * q + r = m * p + s
  PROVE  q = p /\ r = s
<1>1. ASSUME NEW x \in Nat, NEW u \in 0..(m-1),
             NEW y \in Nat, NEW v \in 0..(m-1),
             m * x + u = m * y + v
      PROVE  ~(x < y)
  <2>1. SUFFICES ASSUME x < y PROVE FALSE
    OBVIOUS
  <2>2. PICK d \in Nat : y = x + 1 + d
    <3>1. y - x - 1 \in Nat /\ y = x + 1 + (y - x - 1)
      BY <2>1
    <3>2. QED
      BY <3>1
  <2>3. m * y = m * x + m + m * d
    BY <2>2
  <2>4. m * d \in Nat /\ m * x \in Nat
    OBVIOUS
  <2>5. QED
    BY <2>3, <2>4, <1>1
<1>2. ~(q < p) /\ ~(p < q)
  BY <1>1
<1>3. q = p
  BY <1>2
<1>4. QED
  BY <1>3

(* Hence a number that is a multiple of the modulus plus r has remainder   *)
(* r.                                                                      *)
LEMMA RemainderUnique ==
  ASSUME NEW m \in Nat \ {0},
         NEW q \in Nat, NEW r \in 0..(m-1), NEW a \in Nat,
         a = m * q + r
  PROVE  a % m = r
<1> DEFINE p == a \div m
           s == a % m
<1>1. a = m * p + s /\ p \in Nat /\ s \in 0..(m-1)
  BY Division
<1> HIDE DEF p, s
<1>2. s = r
  BY <1>1, DivisionUnique
<1>3. QED
  BY <1>2 DEF s

(* Two numbers less than the modulus apart have the same remainder only    *)
(* when they are equal.                                                    *)
LEMMA CloseRemainders ==
  ASSUME NEW m \in Nat \ {0}, NEW a \in Nat, NEW b \in Nat,
         a % m = b % m, a <= b, b < a + m
  PROVE  a = b
<1> DEFINE d == b - a
           r == a % m
           q == a \div m
           p == b \div m
<1>1. d \in 0..(m-1)
  OBVIOUS
<1>2. a = m * q + r /\ b = m * p + r /\ q \in Nat /\ p \in Nat /\ r \in 0..(m-1)
  BY Division
<1>3. m * q + d = m * p + 0
  BY <1>2, <1>1
<1>4. d = 0
  <2> HIDE DEF d, q, p
  <2>1. QED
    BY DivisionUnique, <1>3, <1>1, <1>2
<1>5. QED
  BY <1>4

(* Reducing before an addition does not change the reduced sum.            *)
LEMMA AddThenReduce ==
  ASSUME NEW m \in Nat \ {0}, NEW a \in Nat, NEW b \in Nat
  PROVE  ((a % m) + b) % m = (a + b) % m
<1> DEFINE q == a \div m
           r == a % m
           p == (r + b) \div m
           s == (r + b) % m
<1>1. a = m * q + r /\ q \in Nat /\ r \in 0..(m-1)
  BY Division
<1>2. r + b \in Nat
  BY <1>1
<1>3. r + b = m * p + s /\ p \in Nat /\ s \in 0..(m-1)
  BY Division, <1>2
<1> HIDE DEF q, r, p, s
<1>4. m * (q + p) = m * q + m * p
  BY <1>1, <1>3
<1>5. m * q \in Nat /\ m * p \in Nat
  BY <1>1, <1>3
<1>6. a + b = m * (q + p) + s
  BY <1>1, <1>3, <1>4, <1>5
<1> DEFINE t == a + b
           k == q + p
<1>7. t \in Nat /\ k \in Nat /\ t = m * k + s
  BY <1>1, <1>3, <1>6
<1> HIDE DEF t, k
<1>8. t % m = s
  BY <1>3, <1>7, RemainderUnique
<1>9. QED
  BY <1>8 DEF s, r, t

(* A number below the modulus is its own remainder.                        *)
LEMMA SmallRemainder ==
  ASSUME NEW m \in Nat \ {0}, NEW a \in 0..(m-1)
  PROVE  a % m = a
<1>1. a \in Nat /\ 0 \in Nat /\ a = m * 0 + a
  OBVIOUS
<1>2. QED
  BY <1>1, RemainderUnique

(* Quotients grow with what is divided, and no faster.                     *)
LEMMA QuotientMonotone ==
  ASSUME NEW m \in Nat \ {0}, NEW a \in Nat, NEW b \in Nat, a <= b
  PROVE  a \div m <= b \div m
<1> DEFINE q == a \div m
           r == a % m
           p == b \div m
           s == b % m
<1>1. a = m * q + r /\ q \in Nat /\ r \in 0..(m-1)
  BY Division
<1>2. b = m * p + s /\ p \in Nat /\ s \in 0..(m-1)
  BY Division
<1> HIDE DEF q, r, p, s
<1>3. SUFFICES ASSUME p < q PROVE FALSE
  <2>1. ~(p < q) => q <= p
    BY <1>1, <1>2
  <2>2. QED
    BY <1>3, <2>1 DEF p, q
<1>4. PICK d \in Nat : q = p + 1 + d
  <2>1. q - p - 1 \in Nat /\ q = p + 1 + (q - p - 1)
    BY <1>1, <1>2, <1>3
  <2>2. QED
    BY <2>1
<1>5. m * q = m * p + m + m * d
  BY <1>2, <1>4
<1>6. m * d \in Nat /\ m * p \in Nat
  BY <1>2, <1>4
<1>7. QED
  BY <1>1, <1>2, <1>5, <1>6

LEMMA QuotientBound ==
  ASSUME NEW m \in Nat \ {0}, NEW a \in Nat
  PROVE  a \div m \in 0 .. a
<1> DEFINE q == a \div m
           r == a % m
<1>1. a = m * q + r /\ q \in Nat /\ r \in 0..(m-1)
  BY Division
<1> HIDE DEF q, r
<1>2. m * q = q + (m - 1) * q /\ (m - 1) * q \in Nat
  BY <1>1
<1>3. q \in 0 .. a
  BY <1>1, <1>2
<1>4. QED
  BY <1>3 DEF q

-----------------------------------------------------------------------------
(* A set of naturals has a least element.                                  *)
LEMMA LeastElement ==
  ASSUME NEW T, T \subseteq Nat, T # {}
  PROVE  \E n \in T : \A m \in T : n <= m
<1>1. \E R : IsWellFoundedOn(R, Nat) /\ \A i, j \in Nat : <<i, j>> \in R <=> i < j
  <2> DEFINE R == OpToRel(<, Nat)
  <2>1. IsWellFoundedOn(R, Nat)
    BY NatLessThanWellFounded
  <2>2. \A i, j \in Nat : <<i, j>> \in R <=> i < j
    BY DEF OpToRel
  <2>3. QED
    BY <2>1, <2>2
<1>2. PICK R : IsWellFoundedOn(R, Nat) /\ \A i, j \in Nat : <<i, j>> \in R <=> i < j
  BY <1>1
<1>3. \E n \in T : \A m \in T : ~(<<m, n>> \in R)
  <2>1. IsWellFoundedOn(R, Nat)
    BY <1>2
  <2>2. QED
    BY <2>1, WFMin, Zenon
<1> PICK n \in T : \A m \in T : ~(<<m, n>> \in R)
  BY <1>3
<1>4. ASSUME NEW m \in T PROVE n <= m
  <2>1. ~(m < n) /\ m \in Nat /\ n \in Nat
    BY <1>2
  <2>2. QED
    BY <2>1
<1>5. QED
  BY <1>4

(* A set that has 0, and n + 1 whenever it has n, has every natural.       *)
LEMMA SetInduction ==
  ASSUME NEW S, 0 \in S, \A n \in Nat : n \in S => n + 1 \in S
  PROVE  Nat \subseteq S
<1> DEFINE T == Nat \ S
<1>1. SUFFICES ASSUME T # {} PROVE FALSE
  OBVIOUS
<1>2. PICK n \in T : \A m \in T : n <= m
  BY <1>1, LeastElement
<1>3. n # 0
  OBVIOUS
<1>4. n - 1 \in Nat /\ n - 1 \notin T
  BY <1>2, <1>3
<1>5. QED
  BY <1>4

(* A bounded set of naturals has a greatest element.                       *)
LEMMA GreatestElement ==
  ASSUME NEW T, T \subseteq Nat, T # {}, NEW b \in Nat, \A n \in T : n <= b
  PROVE  \E n \in T : \A m \in T : m <= n
<1> DEFINE U == {k \in Nat : \E n \in T : n + k = b}
<1>1. ASSUME NEW n \in T PROVE b - n \in U
  <2>1. n \in Nat /\ n <= b
    OBVIOUS
  <2>2. b - n \in Nat /\ n + (b - n) = b
    BY <2>1
  <2>3. QED
    BY <2>2
<1>2. PICK u \in U : \A v \in U : u <= v
  <2>1. U \subseteq Nat /\ U # {}
    BY <1>1
  <2>2. QED
    BY <2>1, LeastElement
<1>3. PICK n \in T : n + u = b
  OBVIOUS
<1>4. ASSUME NEW m \in T PROVE m <= n
  <2>1. u <= b - m /\ u \in Nat /\ m \in Nat /\ n \in Nat
    BY <1>1, <1>2
  <2>2. QED
    BY <1>3, <2>1
<1>5. QED
  BY <1>4

IsRecursive(f, S, base, step) ==
  /\ f \in [Nat -> S]
  /\ f[0] = base
  /\ \A n \in Nat : f[n + 1] = step[n][f[n]]

(* Functions on the naturals may be defined by recursion: one with this    *)
(* first value and this step exists.                                       *)
LEMMA Recursion ==
  ASSUME NEW S, NEW base \in S, NEW step \in [Nat -> [S -> S]]
  PROVE  \E f : IsRecursive(f, S, base, step)
<1> SUFFICES \E f \in [Nat -> S] : f[0] = base /\ \A n \in Nat : f[n + 1] = step[n][f[n]]
  BY DEF IsRecursive
<1> DEFINE Upto(n, g) == /\ g \in [0 .. n -> S]
                         /\ g[0] = base
                         /\ \A i \in 0 .. n - 1 : g[i + 1] = step[i][g[i]]
           Exists == {n \in Nat : \E g : Upto(n, g)}
           Agree == {i \in Nat : \A m, n \in Nat : \A g, h :
                       (i <= m /\ i <= n /\ Upto(m, g) /\ Upto(n, h)) => g[i] = h[i]}
<1>1. Nat \subseteq Exists
  <2>1. 0 \in Exists
    <3>1. Upto(0, [i \in 0 .. 0 |-> base])
      OBVIOUS
    <3>2. QED
      BY <3>1
  <2>2. ASSUME NEW n \in Nat, n \in Exists PROVE n + 1 \in Exists
    <3>1. PICK g : Upto(n, g)
      BY <2>2
    <3> DEFINE h == [i \in 0 .. n + 1 |-> IF i = n + 1 THEN step[n][g[n]] ELSE g[i]]
    <3>2. g[n] \in S
      BY <3>1
    <3>3. step[n][g[n]] \in S
      BY <3>2
    <3>4. h \in [0 .. n + 1 -> S]
      BY <3>1, <3>3
    <3>5. h[0] = base
      BY <3>1
    <3>6. ASSUME NEW i \in 0 .. (n + 1) - 1 PROVE h[i + 1] = step[i][h[i]]
      <4>1. CASE i = n
        BY <4>1
      <4>2. CASE i # n
        BY <4>2, <3>1
      <4>3. QED
        BY <4>1, <4>2
    <3>7. Upto(n + 1, h)
      BY <3>4, <3>5, <3>6
    <3> HIDE DEF Upto
    <3>8. QED
      BY <3>7
  <2> HIDE DEF Exists
  <2>3. QED
    BY <2>1, <2>2, SetInduction
<1>2. Nat \subseteq Agree
  <2>1. 0 \in Agree
    OBVIOUS
  <2>2. ASSUME NEW i \in Nat, i \in Agree PROVE i + 1 \in Agree
    <3> HIDE DEF Upto
    <3>1. SUFFICES ASSUME NEW m \in Nat, NEW n \in Nat, NEW g, NEW h,
                          i + 1 <= m, i + 1 <= n, Upto(m, g), Upto(n, h)
                   PROVE  g[i + 1] = h[i + 1]
      OBVIOUS
    <3>2. g[i] = h[i]
      <4>1. i <= m /\ i <= n
        BY <3>1
      <4>2. QED
        BY <2>2, <3>1, <4>1
    <3>3. i \in 0 .. m - 1 /\ i \in 0 .. n - 1
      BY <3>1
    <3>4. QED
      BY <3>1, <3>2, <3>3 DEF Upto
  <2> HIDE DEF Agree
  <2>3. QED
    BY <2>1, <2>2, SetInduction
<1> DEFINE f == [n \in Nat |-> (CHOOSE g : Upto(n, g))[n]]
<1>3. ASSUME NEW n \in Nat PROVE Upto(n, CHOOSE g : Upto(n, g))
  <2>1. \E g : Upto(n, g)
    BY <1>1
  <2> HIDE DEF Upto
  <2>2. QED
    BY <2>1
<1>4. ASSUME NEW n \in Nat, NEW g, Upto(n, g), NEW i \in 0 .. n PROVE f[i] = g[i]
  <2> DEFINE h == CHOOSE k : Upto(i, k)
  <2>1. i \in Nat /\ i <= i /\ i <= n
    OBVIOUS
  <2>2. Upto(i, h)
    BY <1>3, <2>1
  <2>3. f[i] = h[i]
    BY <2>1
  <2> HIDE DEF h, f, Upto
  <2>4. h[i] = g[i]
    <3>1. i \in Agree
      <4> HIDE DEF Agree
      <4>1. QED
        BY <1>2, <2>1
    <3>2. QED
      BY <1>4, <2>1, <2>2, <3>1
  <2>5. QED
    BY <2>3, <2>4
<1>5. f \in [Nat -> S]
  <2>1. ASSUME NEW n \in Nat PROVE f[n] \in S
    <3>1. Upto(n, CHOOSE g : Upto(n, g))
      BY <1>3
    <3> DEFINE h == CHOOSE g : Upto(n, g)
    <3>2. h \in [0 .. n -> S] /\ n \in 0 .. n
      BY <3>1
    <3> HIDE DEF h
    <3>3. h[n] \in S
      BY <3>2
    <3>4. QED
      BY <3>3 DEF h
  <2>2. QED
    BY <2>1
<1>6. f[0] = base
  <2>1. Upto(0, CHOOSE g : Upto(0, g))
    BY <1>3
  <2>2. QED
    BY <2>1
<1>7. ASSUME NEW n \in Nat PROVE f[n + 1] = step[n][f[n]]
  <2>1. PICK g : Upto(n + 1, g)
    <3> HIDE DEF Upto
    <3>1. n + 1 \in Nat /\ n + 1 \in Exists
      <4> HIDE DEF Exists
      <4>1. QED
        BY <1>1
    <3>2. QED
      BY <3>1
  <2>2. f[n] = g[n] /\ f[n + 1] = g[n + 1]
    <3> HIDE DEF f, Upto
    <3>1. n + 1 \in Nat /\ n \in 0 .. n + 1 /\ n + 1 \in 0 .. n + 1
      OBVIOUS
    <3>2. QED
      BY <1>4, <2>1, <3>1
  <2>3. n \in 0 .. (n + 1) - 1
    OBVIOUS
  <2> HIDE DEF f
  <2>4. QED
    BY <2>1, <2>2, <2>3
<1> HIDE DEF f
<1>8. QED
  BY <1>5, <1>6, <1>7

(* Induction up to a bound.                                                *)
LEMMA RangeInduction ==
  ASSUME NEW n \in Nat, NEW T, 0 \in T, \A i \in 1 .. n : i - 1 \in T => i \in T
  PROVE  0 .. n \subseteq T
<1> DEFINE U == {i \in Nat : i <= n => i \in T}
<1>1. 0 \in U
  OBVIOUS
<1>2. ASSUME NEW i \in Nat, i \in U PROVE i + 1 \in U
  <2> SUFFICES ASSUME i + 1 <= n PROVE i + 1 \in T
    OBVIOUS
  <2>1. i + 1 \in 1 .. n /\ (i + 1) - 1 = i /\ i <= n
    OBVIOUS
  <2>2. i \in T
    BY <1>2, <2>1
  <2>3. QED
    BY <2>1, <2>2
<1>3. Nat \subseteq U
  <2> HIDE DEF U
  <2>1. QED
    BY <1>1, <1>2, SetInduction
<1>4. QED
  BY <1>3

IsFold(f, S, n, base, step) ==
  /\ f \in [0 .. n -> S]
  /\ f[0] = base
  /\ \A i \in 1 .. n : f[i] = step[i][f[i - 1]]

(* Recursion up to a bound: a fold from the left exists.                   *)
LEMMA Fold ==
  ASSUME NEW S, NEW base \in S, NEW n \in Nat, NEW step \in [1 .. n -> [S -> S]]
  PROVE  \E f : IsFold(f, S, n, base, step)
<1> DEFINE more == [k \in Nat |-> [x \in S |-> IF k < n THEN step[k + 1][x] ELSE x]]
<1>1. more \in [Nat -> [S -> S]]
  <2>1. ASSUME NEW k \in Nat, NEW x \in S PROVE (IF k < n THEN step[k + 1][x] ELSE x) \in S
    <3>1. CASE k < n
      <4>1. k + 1 \in 1 .. n
        BY <3>1
      <4>2. QED
        BY <4>1
    <3>2. CASE ~(k < n)
      BY <3>2
    <3>3. QED
      BY <3>1, <3>2
  <2>2. QED
    BY <2>1
<1>2. PICK g : IsRecursive(g, S, base, more)
  <2> HIDE DEF more
  <2>1. QED
    BY <1>1, Recursion
<1> DEFINE f == [i \in 0 .. n |-> g[i]]
<1>3. f \in [0 .. n -> S] /\ f[0] = base
  BY <1>2 DEF IsRecursive
<1>4. ASSUME NEW i \in 1 .. n PROVE f[i] = step[i][f[i - 1]]
  <2>1. /\ i - 1 \in Nat /\ i - 1 < n /\ (i - 1) + 1 = i
        /\ i \in 0 .. n /\ i - 1 \in 0 .. n
    OBVIOUS
  <2>2. g[i] = more[i - 1][g[i - 1]] /\ g[i - 1] \in S
    <3> HIDE DEF more
    <3>1. QED
      BY <1>2, <2>1 DEF IsRecursive
  <2>3. more[i - 1][g[i - 1]] = step[i][g[i - 1]]
    BY <2>1, <2>2
  <2>4. f[i] = g[i] /\ f[i - 1] = g[i - 1]
    BY <2>1
  <2> HIDE DEF more, f
  <2>5. QED
    BY <2>2, <2>3, <2>4
<1> HIDE DEF f
<1>5. QED
  BY <1>3, <1>4 DEF IsFold

(* g obeys the fold's equations up to i.                                   *)
FoldsTo(i, g, S, base, step) ==
  g[0] = base /\ \A k \in 1 .. i : g[k - 1] \in S => g[k] = step[k][g[k - 1]]

(* Such a function agrees with the fold.                                   *)
LEMMA FoldUnique ==
  ASSUME NEW S, NEW n \in Nat, NEW base \in S, NEW step, NEW f, IsFold(f, S, n, base, step),
         NEW i \in 0 .. n, NEW g, FoldsTo(i, g, S, base, step)
  PROVE  g[i] = f[i]
<1> DEFINE T == {k \in 0 .. i : g[k] = f[k]}
<1>1. 0 \in T
  BY DEF IsFold, FoldsTo
<1>2. ASSUME NEW k \in 1 .. i, k - 1 \in T PROVE k \in T
  <2>1. k \in 1 .. n /\ k \in 0 .. i /\ k - 1 \in 0 .. n
    OBVIOUS
  <2>2. g[k - 1] = f[k - 1] /\ f[k - 1] \in S
    BY <1>2, <2>1 DEF IsFold
  <2>3. g[k] = step[k][g[k - 1]] /\ f[k] = step[k][f[k - 1]]
    BY <2>1, <2>2 DEF IsFold, FoldsTo
  <2>4. QED
    BY <2>1, <2>2, <2>3
<1>3. 0 .. i \subseteq T
  <2> HIDE DEF T
  <2>1. QED
    BY <1>1, <1>2, RangeInduction
<1>4. QED
  BY <1>3

-----------------------------------------------------------------------------
(* joined[i] is the first i sequences of ss, one after the other.          *)
IsJoin(joined, ss, E) ==
  /\ joined \in [0 .. Len(ss) -> Seq(E)]
  /\ joined[0] = <<>>
  /\ \A i \in 1 .. Len(ss) : joined[i] = joined[i - 1] \o ss[i]

(* All of them joined, as FlattenSeq of the community modules defines it.  *)
Joined(ss) ==
  IF Len(ss) = 0 THEN ss
  ELSE LET join[i \in 1 .. Len(ss)] == IF i = 1 THEN ss[i] ELSE join[i - 1] \o ss[i]
       IN  join[Len(ss)]

LEMMA Joining ==
  ASSUME NEW E, NEW ss \in Seq(Seq(E))
  PROVE  \E joined : /\ IsJoin(joined, ss, E)
                     /\ \A i \in 0 .. Len(ss) : Joined([j \in 1 .. i |-> ss[j]]) = joined[i]
                     /\ Joined(ss) = joined[Len(ss)]
<1> DEFINE n == Len(ss)
           step == [i \in 1 .. n |-> [s \in Seq(E) |-> s \o ss[i]]]
<1>1. n \in Nat /\ \A i \in 1 .. n : ss[i] \in Seq(E)
  OBVIOUS
<1>2. <<>> \in Seq(E)
  OBVIOUS
<1>3. step \in [1 .. n -> [Seq(E) -> Seq(E)]]
  <2>1. \A i \in 1 .. n : \A s \in Seq(E) : s \o ss[i] \in Seq(E)
    BY <1>1
  <2>2. QED
    BY <2>1
<1>4. PICK g : IsFold(g, Seq(E), n, <<>>, step)
  <2> HIDE DEF step
  <2>1. QED
    BY <1>1, <1>2, <1>3, Fold
<1>5. IsJoin(g, ss, E)
  <2>1. g \in [0 .. n -> Seq(E)] /\ g[0] = <<>>
    BY <1>4 DEF IsFold
  <2>2. ASSUME NEW i \in 1 .. n PROVE g[i] = g[i - 1] \o ss[i]
    <3>1. i - 1 \in 0 .. n
      BY <1>1
    <3>2. g[i - 1] \in Seq(E) /\ g[i] = step[i][g[i - 1]]
      <4> HIDE DEF step
      <4>1. QED
        BY <1>4, <2>1, <3>1 DEF IsFold
    <3>3. QED
      BY <3>2
  <2>3. QED
    BY <2>1, <2>2 DEF IsJoin
<1>6. ASSUME NEW i \in 0 .. n PROVE Joined([j \in 1 .. i |-> ss[j]]) = g[i]
  <2> DEFINE t == [j \in 1 .. i |-> ss[j]]
             IsFlatten(f) == f = [k \in 1 .. Len(t) |-> IF k = 1 THEN t[k] ELSE f[k - 1] \o t[k]]
             chosen == CHOOSE f : IsFlatten(f)
             front == [k \in 1 .. i |-> g[k]]
  <2>1. t \in Seq(Seq(E)) /\ Len(t) = i /\ \A k \in 1 .. i : t[k] = ss[k]
    <3>1. i \in Nat /\ \A j \in 1 .. i : ss[j] \in Seq(E)
      BY <1>1
    <3>2. t \in [1 .. i -> Seq(E)]
      BY <3>1
    <3>3. t \in Seq(Seq(E)) /\ Len(t) = i
      BY <3>1, <3>2
    <3>4. QED
      BY <3>3
  <2> HIDE DEF t
  <2>2. CASE i = 0
    <3>1. t = <<>>
      BY <2>1, <2>2
    <3>2. Joined(t) = t
      BY <2>1, <2>2 DEF Joined
    <3>3. g[0] = <<>>
      BY <1>5 DEF IsJoin
    <3>4. QED
      BY <2>2, <3>1, <3>2, <3>3 DEF t
  <2>3. CASE i # 0
    <3>1. ASSUME NEW k \in 1 .. i
          PROVE  front[k] = IF k = 1 THEN t[k] ELSE front[k - 1] \o t[k]
      <4>1. k \in 1 .. n /\ g[k] = g[k - 1] \o ss[k] /\ ss[k] \in Seq(E) /\ t[k] = ss[k]
          <5>1. k \in 1 .. n
          BY <1>1
        <5>2. g[k] = g[k - 1] \o ss[k]
          BY <1>5, <5>1 DEF IsJoin
        <5>3. QED
          BY <1>1, <2>1, <5>1, <5>2
      <4>2. CASE k = 1
        <5>1. g[k - 1] = <<>>
          BY <1>5, <4>2 DEF IsJoin
        <5>2. <<>> \o ss[k] = ss[k]
          BY <4>1
        <5>3. QED
          BY <4>1, <4>2, <5>1, <5>2
      <4>3. CASE k # 1
        <5>1. k - 1 \in 1 .. i
          BY <4>3
        <5>2. QED
          BY <4>1, <4>3, <5>1
      <4>4. QED
        BY <4>2, <4>3
    <3>2. IsFlatten(front)
      <4>1. front = [k \in 1 .. i |-> front[k]]
        OBVIOUS
      <4> HIDE DEF front
      <4>2. QED
        BY <2>1, <3>1, <4>1
    <3>3. IsFlatten(chosen)
      <4> HIDE DEF front, IsFlatten
      <4>1. QED
        BY <3>2
    <3>4. Joined(t) = chosen[i]
      BY <2>1, <2>3 DEF Joined
    <3> HIDE DEF chosen
    <3>5. \A k \in 1 .. i : chosen[k] = IF k = 1 THEN t[k] ELSE chosen[k - 1] \o t[k]
      BY <2>1, <3>3
    <3> DEFINE T == {k \in 0 .. i : k = 0 \/ chosen[k] = front[k]}
    <3>6. ASSUME NEW k \in 1 .. i, k - 1 \in T PROVE k \in T
      <4>1. k = 1 \/ (k - 1 # 0 /\ k - 1 \in 0 .. i)
        OBVIOUS
      <4>2. chosen[k] = front[k]
        <5> HIDE DEF front
        <5>1. QED
          BY <3>1, <3>5, <3>6, <4>1
      <4>3. QED
        BY <4>2
    <3>7. 0 .. i \subseteq T
      <4>1. 0 \in T /\ i \in Nat
        OBVIOUS
      <4> HIDE DEF T
      <4>2. QED
        BY <3>6, <4>1, RangeInduction
    <3>8. i \in 1 .. i /\ i \in 0 .. i
      BY <2>3
    <3>9. QED
      BY <2>3, <3>4, <3>7, <3>8 DEF t
  <2>4. QED
    BY <2>2, <2>3
<1>7. ss = [j \in 1 .. n |-> ss[j]] /\ n \in 0 .. n
  BY <1>1
<1>8. QED
  BY <1>5, <1>6, <1>7

(* What has been joined stays where it is, and every sequence is in its    *)
(* place.                                                                  *)
LEMMA JoinParts ==
  ASSUME NEW E, NEW ss \in Seq(Seq(E)), NEW joined, IsJoin(joined, ss, E),
         NEW i \in 0 .. Len(ss), NEW j \in i .. Len(ss)
  PROVE  /\ Len(joined[i]) \in Nat /\ Len(joined[j]) \in Nat
         /\ Len(joined[i]) <= Len(joined[j])
         /\ \A p \in 1 .. Len(joined[i]) : joined[j][p] = joined[i][p]
<1> DEFINE n == Len(ss)
           T == {k \in 0 .. n - i : /\ Len(joined[i]) <= Len(joined[i + k])
                                    /\ \A p \in 1 .. Len(joined[i]) : joined[i + k][p] = joined[i][p]}
<1>1. n \in Nat /\ \A k \in 0 .. n : joined[k] \in Seq(E) /\ Len(joined[k]) \in Nat
  BY DEF IsJoin
<1>2. 0 \in T
  BY <1>1
<1>3. ASSUME NEW k \in 1 .. n - i, k - 1 \in T PROVE k \in T
  <2>1. i + k \in 1 .. n /\ (i + k) - 1 = i + (k - 1) /\ (i + k) - 1 \in 0 .. n /\ k \in 0 .. n - i
    BY <1>1
  <2> DEFINE before == joined[(i + k) - 1]
  <2>2. /\ joined[i + k] = before \o ss[i + k]
        /\ before \in Seq(E) /\ ss[i + k] \in Seq(E)
    <3>1. joined[i + k] = before \o ss[i + k]
      BY <2>1 DEF IsJoin
    <3>2. before \in Seq(E)
      BY <1>1, <2>1
    <3>3. ss[i + k] \in Seq(E)
      BY <2>1
    <3>4. QED
      BY <3>1, <3>2, <3>3
  <2>3. Len(joined[i]) <= Len(before) /\ \A p \in 1 .. Len(joined[i]) : before[p] = joined[i][p]
    BY <1>3, <2>1
  <2> HIDE DEF before
  <2>4. /\ Len(before \o ss[i + k]) >= Len(before)
        /\ \A p \in 1 .. Len(before) : (before \o ss[i + k])[p] = before[p]
    BY <2>2
  <2>5. Len(before) \in Nat /\ Len(before \o ss[i + k]) \in Nat /\ Len(joined[i]) \in Nat
    BY <1>1, <2>2
  <2>6. Len(joined[i]) <= Len(joined[i + k])
    BY <2>2, <2>3, <2>4, <2>5
  <2>7. ASSUME NEW p \in 1 .. Len(joined[i]) PROVE joined[i + k][p] = joined[i][p]
    <3>1. p \in 1 .. Len(before)
      BY <2>3, <2>5
    <3>2. QED
      BY <2>2, <2>3, <2>4, <3>1
  <2>8. QED
    BY <2>1, <2>6, <2>7
<1>4. 0 .. n - i \subseteq T
  <2>1. n - i \in Nat
    BY <1>1
  <2> HIDE DEF T
  <2>2. QED
    BY <1>2, <1>3, <2>1, RangeInduction
<1>5. j - i \in 0 .. n - i /\ i + (j - i) = j
  BY <1>1
<1>6. i \in 0 .. n /\ j \in 0 .. n
  BY <1>1
<1>7. QED
  BY <1>1, <1>4, <1>5, <1>6

-----------------------------------------------------------------------------
(* Each place of f has a place of g to itself, with the same value, and    *)
(* each place of g is one of them.                                         *)
Matches(c, f, g) ==
  /\ c \in [DOMAIN f -> DOMAIN g]
  /\ \A x, y \in DOMAIN f : c[x] = c[y] => x = y
  /\ \A z \in DOMAIN g : \E x \in DOMAIN f : c[x] = z
  /\ \A x \in DOMAIN f : g[c[x]] = f[x]

(* Functions that hold the same values, each as often as the other.        *)
SameValues(f, g) == \E c : Matches(c, f, g)

(* What f holds of the values in V.                                        *)
Within(f, V) == [x \in {y \in DOMAIN f : f[y] \in V} |-> f[x]]

(* The values of the functions that are the values of f.                   *)
Spread(f) == [p \in UNION {{x} \X DOMAIN f[x] : x \in DOMAIN f} |-> f[p[1]][p[2]]]

(* Functions with the same places, and the same values at them.            *)
LEMMA SameAlike ==
  ASSUME NEW f, NEW g, DOMAIN f = DOMAIN g, \A x \in DOMAIN f : g[x] = f[x]
  PROVE  SameValues(f, g)
<1> DEFINE c == [x \in DOMAIN f |-> x]
<1>1. Matches(c, f, g)
  BY DEF Matches
<1>2. QED
  BY <1>1 DEF SameValues

(* A function has its own values.                                          *)
LEMMA SameReflexive ==
  ASSUME NEW f
  PROVE  SameValues(f, f)
BY SameAlike

(* Having the same values goes both ways.                                  *)
LEMMA SameSymmetric ==
  ASSUME NEW f, NEW g, SameValues(f, g)
  PROVE  SameValues(g, f)
<1>1. PICK c : Matches(c, f, g)
  BY DEF SameValues
<1> DEFINE d == [z \in DOMAIN g |-> CHOOSE x \in DOMAIN f : c[x] = z]
<1>2. \A z \in DOMAIN g : d[z] \in DOMAIN f /\ c[d[z]] = z
  BY <1>1 DEF Matches
<1>3. d \in [DOMAIN g -> DOMAIN f]
  BY <1>2
<1>4. DOMAIN d = DOMAIN g
  OBVIOUS
<1> HIDE DEF d
<1>5. \A x \in DOMAIN f : d[c[x]] = x
  BY <1>1, <1>2 DEF Matches
<1>6. \A x \in DOMAIN f : c[x] \in DOMAIN g
  BY <1>1 DEF Matches
<1>7. \A z \in DOMAIN g : f[d[z]] = g[z]
  BY <1>1, <1>2 DEF Matches
<1>8. Matches(d, g, f)
  BY <1>2, <1>3, <1>5, <1>6, <1>7 DEF Matches
<1>9. QED
  BY <1>8 DEF SameValues

(* It carries over from one function to the next.                          *)
LEMMA SameTransitive ==
  ASSUME NEW f, NEW g, NEW h, SameValues(f, g), SameValues(g, h)
  PROVE  SameValues(f, h)
<1>1. PICK c : Matches(c, f, g)
  BY DEF SameValues
<1>2. PICK d : Matches(d, g, h)
  BY DEF SameValues
<1> DEFINE e == [x \in DOMAIN f |-> d[c[x]]]
<1>3. \A x \in DOMAIN f : c[x] \in DOMAIN g /\ d[c[x]] \in DOMAIN h /\ e[x] = d[c[x]]
  BY <1>1, <1>2 DEF Matches
<1>4. e \in [DOMAIN f -> DOMAIN h]
  BY <1>3
<1> HIDE DEF e
<1>5. \A x, y \in DOMAIN f : e[x] = e[y] => x = y
  BY <1>1, <1>2, <1>3 DEF Matches
<1>6. ASSUME NEW z \in DOMAIN h PROVE \E x \in DOMAIN f : e[x] = z
  <2>1. PICK y \in DOMAIN g : d[y] = z
    BY <1>2 DEF Matches
  <2>2. PICK x \in DOMAIN f : c[x] = y
    BY <1>1 DEF Matches
  <2>3. QED
    BY <1>3, <2>1, <2>2
<1>7. \A x \in DOMAIN f : h[e[x]] = f[x]
  BY <1>1, <1>2, <1>3 DEF Matches
<1>8. Matches(e, f, h)
  BY <1>4, <1>5, <1>6, <1>7 DEF Matches
<1>9. QED
  BY <1>8 DEF SameValues

(* Nothing is the same as nothing.                                         *)
LEMMA SameNothing ==
  ASSUME NEW f, DOMAIN f = {}, NEW g, DOMAIN g = {}
  PROVE  SameValues(f, g)
<1> DEFINE c == [x \in {} |-> x]
<1>1. c \in [{} -> {}]
  OBVIOUS
<1> HIDE DEF c
<1>2. Matches(c, f, g)
  BY <1>1 DEF Matches
<1>3. QED
  BY <1>2 DEF SameValues

(* What has the values of nothing is nothing.                              *)
LEMMA SameAsNothing ==
  ASSUME NEW f, NEW g, SameValues(f, g), DOMAIN f = {}
  PROVE  DOMAIN g = {}
<1>1. PICK c : Matches(c, f, g)
  BY DEF SameValues
<1>2. QED
  BY <1>1 DEF Matches

(* Two functions with one value each.                                      *)
LEMMA SameSingle ==
  ASSUME NEW f, NEW a, DOMAIN f = {a}, NEW g, NEW b, DOMAIN g = {b}, f[a] = g[b]
  PROVE  SameValues(f, g)
<1> DEFINE c == [x \in {a} |-> b]
<1>1. c \in [{a} -> {b}] /\ c[a] = b
  OBVIOUS
<1> HIDE DEF c
<1>2. Matches(c, f, g)
  BY <1>1 DEF Matches
<1>3. QED
  BY <1>2 DEF SameValues

(* What two such functions hold of a set is the same, too.                 *)
LEMMA SameWithin ==
  ASSUME NEW f, NEW g, SameValues(f, g), NEW V
  PROVE  SameValues(Within(f, V), Within(g, V))
<1>1. PICK c : Matches(c, f, g)
  BY DEF SameValues
<1> DEFINE A == {y \in DOMAIN f : f[y] \in V}
           B == {y \in DOMAIN g : g[y] \in V}
           d == [x \in A |-> c[x]]
<1>2. /\ DOMAIN Within(f, V) = A /\ \A x \in A : Within(f, V)[x] = f[x]
      /\ DOMAIN Within(g, V) = B /\ \A x \in B : Within(g, V)[x] = g[x]
  BY DEF Within
<1>3. \A x \in A : x \in DOMAIN f /\ c[x] \in B /\ g[c[x]] = f[x] /\ d[x] = c[x]
  BY <1>1 DEF Matches
<1>4. d \in [A -> B]
  BY <1>3
<1>5. \A z \in B : \E x \in A : c[x] = z
  BY <1>1 DEF Matches
<1>6. \A x, y \in A : c[x] = c[y] => x = y
  BY <1>1 DEF Matches
<1> HIDE DEF A, B, d
<1>7. Matches(d, Within(f, V), Within(g, V))
  BY <1>2, <1>3, <1>4, <1>5, <1>6 DEF Matches
<1>8. QED
  BY <1>7 DEF SameValues

(* The places of a spread function are those of the functions it spreads,  *)
(* and its values are theirs.                                              *)
LEMMA SpreadAt ==
  ASSUME NEW f
  PROVE  /\ \A p \in DOMAIN Spread(f) : /\ p = <<p[1], p[2]>> /\ p[1] \in DOMAIN f
                                        /\ p[2] \in DOMAIN f[p[1]]
                                        /\ Spread(f)[p] = f[p[1]][p[2]]
         /\ \A x \in DOMAIN f : \A y \in DOMAIN f[x] :
              <<x, y>> \in DOMAIN Spread(f) /\ Spread(f)[<<x, y>>] = f[x][y]
<1>1. DOMAIN Spread(f) = UNION {{x} \X DOMAIN f[x] : x \in DOMAIN f}
  BY DEF Spread
<1>2. \A p \in DOMAIN Spread(f) : \E x \in DOMAIN f : p \in {x} \X DOMAIN f[x]
  BY <1>1
<1>3. \A p \in DOMAIN Spread(f) : p = <<p[1], p[2]>> /\ p[1] \in DOMAIN f /\ p[2] \in DOMAIN f[p[1]]
  BY <1>2
<1>4. ASSUME NEW x \in DOMAIN f, NEW y \in DOMAIN f[x] PROVE <<x, y>> \in DOMAIN Spread(f)
  <2>1. <<x, y>> \in {x} \X DOMAIN f[x]
    OBVIOUS
  <2>2. QED
    BY <1>1, <2>1
<1>5. \A p \in DOMAIN Spread(f) : Spread(f)[p] = f[p[1]][p[2]]
  BY <1>1 DEF Spread
<1>6. QED
  BY <1>3, <1>4, <1>5

(* Functions that have the same functions as values spread to the same     *)
(* values.                                                                 *)
LEMMA SameSpread ==
  ASSUME NEW f, NEW g, SameValues(f, g)
  PROVE  SameValues(Spread(f), Spread(g))
<1>1. PICK c : Matches(c, f, g)
  BY DEF SameValues
<1> DEFINE S == DOMAIN Spread(f)
           T == DOMAIN Spread(g)
           d == [p \in S |-> <<c[p[1]], p[2]>>]
<1>2. ASSUME NEW p \in S
      PROVE  /\ p[1] \in DOMAIN f /\ c[p[1]] \in DOMAIN g /\ g[c[p[1]]] = f[p[1]]
             /\ p[2] \in DOMAIN f[p[1]] /\ p = <<p[1], p[2]>>
             /\ d[p] \in T /\ Spread(g)[d[p]] = Spread(f)[p]
  <2>1. p = <<p[1], p[2]>> /\ p[1] \in DOMAIN f /\ p[2] \in DOMAIN f[p[1]] /\ Spread(f)[p] = f[p[1]][p[2]]
    BY SpreadAt
  <2>2. c[p[1]] \in DOMAIN g /\ g[c[p[1]]] = f[p[1]]
    BY <1>1, <2>1 DEF Matches
  <2>3. <<c[p[1]], p[2]>> \in T /\ Spread(g)[<<c[p[1]], p[2]>>] = f[p[1]][p[2]]
    BY <2>1, <2>2, SpreadAt
  <2>4. QED
    BY <2>1, <2>2, <2>3
<1>3. d \in [S -> T]
  BY <1>2
<1>4. \A p \in S : d[p] = <<c[p[1]], p[2]>>
  OBVIOUS
<1> HIDE DEF d
<1>5. ASSUME NEW p \in S, NEW q \in S, d[p] = d[q] PROVE p = q
  <2>1. c[p[1]] = c[q[1]] /\ p[2] = q[2]
    BY <1>4, <1>5
  <2>2. p[1] = q[1]
    BY <1>1, <1>2, <2>1 DEF Matches
  <2>3. QED
    BY <1>2, <2>1, <2>2
<1>6. ASSUME NEW z \in T PROVE \E p \in S : d[p] = z
  <2>1. z = <<z[1], z[2]>> /\ z[1] \in DOMAIN g /\ z[2] \in DOMAIN g[z[1]]
    BY SpreadAt
  <2>2. PICK x \in DOMAIN f : c[x] = z[1]
    BY <1>1, <2>1 DEF Matches
  <2>3. f[x] = g[z[1]]
    BY <1>1, <2>2 DEF Matches
  <2>4. <<x, z[2]>> \in S
    BY <2>1, <2>3, SpreadAt
  <2>5. d[<<x, z[2]>>] = z
    BY <1>4, <2>1, <2>2, <2>4
  <2>6. QED
    BY <2>4, <2>5
<1>7. Matches(d, Spread(f), Spread(g))
  <2> HIDE DEF S, T
  <2>1. \A p \in S : Spread(g)[d[p]] = Spread(f)[p]
    BY <1>2
  <2>2. QED
    BY <1>3, <1>5, <1>6, <2>1 DEF Matches, S, T
<1>8. QED
  BY <1>7 DEF SameValues

(* When only one of the functions has values in V, those are all.          *)
LEMMA OnlyOne ==
  ASSUME NEW f, NEW V, NEW x \in DOMAIN f,
         \A y \in DOMAIN f : y # x => \A i \in DOMAIN f[y] : f[y][i] \notin V
  PROVE  SameValues(Within(f[x], V), Within(Spread(f), V))
<1> DEFINE A == {i \in DOMAIN f[x] : f[x][i] \in V}
           B == {p \in DOMAIN Spread(f) : Spread(f)[p] \in V}
           c == [i \in A |-> <<x, i>>]
<1>1. /\ DOMAIN Within(f[x], V) = A /\ \A i \in A : Within(f[x], V)[i] = f[x][i]
      /\ DOMAIN Within(Spread(f), V) = B /\ \A p \in B : Within(Spread(f), V)[p] = Spread(f)[p]
  BY DEF Within
<1>2. \A i \in A : c[i] = <<x, i>> /\ c[i] \in B /\ Spread(f)[c[i]] = f[x][i]
  BY SpreadAt
<1>3. c \in [A -> B]
  BY <1>2
<1>4. ASSUME NEW i \in A, NEW j \in A, c[i] = c[j] PROVE i = j
  <2>1. <<x, i>> = <<x, j>>
    BY <1>2, <1>4
  <2>2. QED
    BY <2>1
<1>5. ASSUME NEW p \in B PROVE \E i \in A : c[i] = p
  <2>1. p = <<p[1], p[2]>> /\ p[1] \in DOMAIN f /\ p[2] \in DOMAIN f[p[1]]
        /\ Spread(f)[p] = f[p[1]][p[2]]
    BY SpreadAt
  <2>2. p[1] = x
    BY <2>1
  <2>3. p[2] \in A
    BY <2>1, <2>2
  <2>4. QED
    BY <1>2, <2>1, <2>2, <2>3
<1> HIDE DEF A, B, c
<1>6. Matches(c, Within(f[x], V), Within(Spread(f), V))
  BY <1>1, <1>2, <1>3, <1>4, <1>5 DEF Matches
<1>7. QED
  BY <1>6 DEF SameValues

(* When none of them has, there is none.                                   *)
LEMMA NotOne ==
  ASSUME NEW f, NEW V, \A y \in DOMAIN f : \A i \in DOMAIN f[y] : f[y][i] \notin V
  PROVE  DOMAIN Within(Spread(f), V) = {}
<1>1. ASSUME NEW p \in DOMAIN Spread(f) PROVE Spread(f)[p] \notin V
  <2>1. p[1] \in DOMAIN f /\ p[2] \in DOMAIN f[p[1]] /\ Spread(f)[p] = f[p[1]][p[2]]
    BY SpreadAt
  <2>2. QED
    BY <2>1
<1>2. QED
  BY <1>1 DEF Within

(* Joining two sequences adds the places of the second.                    *)
LEMMA JoinedPlaces ==
  ASSUME NEW E, NEW s \in Seq(E), NEW t \in Seq(E)
  PROVE  /\ Len(s) \in Nat /\ Len(t) \in Nat /\ s \o t \in Seq(E)
         /\ DOMAIN s = 1 .. Len(s) /\ DOMAIN t = 1 .. Len(t)
         /\ DOMAIN (s \o t) = (1 .. Len(s)) \cup (Len(s) + 1 .. Len(s) + Len(t))
         /\ \A i \in 1 .. Len(s) : (s \o t)[i] = s[i]
         /\ \A i \in 1 .. Len(t) : (s \o t)[Len(s) + i] = t[i]
<1>1. Len(s) \in Nat /\ Len(t) \in Nat /\ s \o t \in Seq(E) /\ Len(s \o t) = Len(s) + Len(t)
      /\ DOMAIN s = 1 .. Len(s) /\ DOMAIN t = 1 .. Len(t)
  OBVIOUS
<1>2. DOMAIN (s \o t) = 1 .. Len(s) + Len(t)
  BY <1>1
<1>3. 1 .. Len(s) + Len(t) = (1 .. Len(s)) \cup (Len(s) + 1 .. Len(s) + Len(t))
  BY <1>1
<1>4. \A i \in 1 .. Len(s) : (s \o t)[i] = s[i]
  OBVIOUS
<1>5. \A i \in 1 .. Len(t) : (s \o t)[Len(s) + i] = t[i]
  OBVIOUS
<1>6. QED
  BY <1>1, <1>2, <1>3, <1>4, <1>5

(* Of two joined sequences, one of which has no value in V and the other   *)
(* no other, the latter.                                                   *)
LEMMA OnlyFirst ==
  ASSUME NEW E, NEW s \in Seq(E), NEW t \in Seq(E), NEW V,
         \A i \in DOMAIN s : s[i] \in V, \A i \in DOMAIN t : t[i] \notin V
  PROVE  SameValues(s, Within(s \o t, V))
<1> DEFINE n == Len(s)
           m == Len(t)
           all == s \o t
<1>1. /\ n \in Nat /\ m \in Nat /\ DOMAIN s = 1 .. n /\ DOMAIN t = 1 .. m
      /\ DOMAIN all = (1 .. n) \cup (n + 1 .. n + m)
      /\ \A i \in 1 .. n : all[i] = s[i]
      /\ \A i \in 1 .. m : all[n + i] = t[i]
  BY JoinedPlaces
<1> HIDE DEF n, m, all
<1>2. \A i \in n + 1 .. n + m : all[i] \notin V
  <2>1. ASSUME NEW i \in n + 1 .. n + m PROVE all[i] \notin V
    <3>1. i - n \in 1 .. m /\ n + (i - n) = i
      BY <1>1
    <3>2. QED
      BY <1>1, <3>1
  <2>2. QED
    BY <2>1
<1>3. {i \in DOMAIN all : all[i] \in V} = 1 .. n
  BY <1>1, <1>2
<1>4. Within(all, V) = s
  <2>1. Within(all, V) = [i \in 1 .. n |-> all[i]]
    BY <1>3 DEF Within
  <2>2. s = [i \in 1 .. n |-> s[i]]
    BY <1>1
  <2>3. QED
    BY <1>1, <2>1, <2>2
<1>5. QED
  BY <1>4, SameReflexive DEF all

(* And the other way round.                                                *)
LEMMA OnlySecond ==
  ASSUME NEW E, NEW s \in Seq(E), NEW t \in Seq(E), NEW V,
         \A i \in DOMAIN s : s[i] \notin V, \A i \in DOMAIN t : t[i] \in V
  PROVE  SameValues(t, Within(s \o t, V))
<1> DEFINE n == Len(s)
           m == Len(t)
           all == s \o t
           B == n + 1 .. n + m
           c == [i \in 1 .. m |-> n + i]
<1>1. /\ n \in Nat /\ m \in Nat /\ DOMAIN s = 1 .. n /\ DOMAIN t = 1 .. m
      /\ DOMAIN all = (1 .. n) \cup B
      /\ \A i \in 1 .. n : all[i] = s[i]
      /\ \A i \in 1 .. m : all[n + i] = t[i]
  BY JoinedPlaces
<1> HIDE DEF n, m, all
<1>2. /\ \A i \in 1 .. m : c[i] = n + i /\ n + i \in B
      /\ \A i \in B : i - n \in 1 .. m /\ n + (i - n) = i /\ i \notin 1 .. n
  BY <1>1
<1>3. ASSUME NEW i \in B PROVE all[i] \in V
  <2>1. i - n \in 1 .. m /\ n + (i - n) = i
    BY <1>2
  <2>2. all[n + (i - n)] = t[i - n] /\ t[i - n] \in V
    BY <1>1, <2>1
  <2>3. QED
    BY <2>1, <2>2
<1>4. {i \in DOMAIN all : all[i] \in V} = B
  BY <1>1, <1>2, <1>3
<1>5. DOMAIN Within(all, V) = B /\ \A i \in B : Within(all, V)[i] = all[i]
  BY <1>4 DEF Within
<1>6. c \in [1 .. m -> B]
  BY <1>2
<1>7. \A i, j \in 1 .. m : c[i] = c[j] => i = j
  BY <1>1, <1>2
<1>8. \A z \in B : \E i \in 1 .. m : c[i] = z
  BY <1>2
<1>9. \A i \in 1 .. m : Within(all, V)[c[i]] = t[i]
  BY <1>1, <1>2, <1>5
<1> HIDE DEF B, c
<1>10. Matches(c, t, Within(all, V))
  BY <1>1, <1>5, <1>6, <1>7, <1>8, <1>9 DEF Matches
<1>11. QED
  BY <1>10 DEF SameValues, all

=============================================================================
