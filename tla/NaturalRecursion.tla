-------------------------- MODULE NaturalRecursion --------------------------
(***************************************************************************)
(* Induction on natural numbers, and functions defined by recursion, with  *)
(* sets and functions for parameters: the walks of the models are          *)
(* functions of the number of steps, and these facts say what they return. *)
(***************************************************************************)
EXTENDS Integers, TLAPS, WellFoundedInduction

Below == {p \in Nat \X Nat : p[1] < p[2]}

\* No natural number has infinitely many below it.
LEMMA BelowWF == IsWellFoundedOn(Below, Nat)
BY NatLessThanWellFounded DEF OpToRel, Below

\* Every set of natural numbers has a least member, the one that a scan
\* upwards meets.
LEMMA LeastNatural ==
  ASSUME NEW T, T \subseteq Nat, T # {}
  PROVE  \E x \in T : \A y \in T : x <= y
<1>1. PICK x \in T : \A y \in T : ~(<<y, x>> \in Below)
  BY BelowWF, WFMin
<1>2. ASSUME NEW y \in T PROVE x <= y
  <2>1. ~(y < x)
    BY <1>1 DEF Below
  <2> QED BY <2>1
<1> QED BY <1>2

\* What is true of the first number of an interval, and of every number behind
\* one of which it is true, is true of the interval.
LEMMA Upwards ==
  ASSUME NEW m \in Int, NEW n \in Int, NEW T,
         m <= n => m \in T, \A k \in m .. n - 1 : k \in T => k + 1 \in T
  PROVE  m .. n \subseteq T
<1> DEFINE missed == {d \in Nat : m + d <= n /\ m + d \notin T}
<1>1. ASSUME missed # {} PROVE FALSE
  <2>1. PICK d \in missed : \A e \in missed : d <= e
    BY <1>1, LeastNatural
  <2>2. CASE d = 0
    BY <2>1, <2>2
  <2>3. CASE d # 0
    <3>1. d - 1 \in Nat /\ d - 1 \notin missed
      BY <2>1, <2>3
    <3>2. m + (d - 1) \in T /\ m + (d - 1) \in m .. n - 1
      BY <2>1, <3>1
    <3>3. (m + (d - 1)) + 1 \in T
      BY <3>2
    <3>4. (m + (d - 1)) + 1 = m + d
      BY <2>1
    <3> QED BY <2>1, <3>3, <3>4
  <2> QED BY <2>2, <2>3
<1>2. ASSUME NEW k \in m .. n PROVE k \in T
  <2>1. k - m \in Nat /\ m + (k - m) = k
    OBVIOUS
  <2>2. k - m \notin missed
    BY <1>1
  <2> QED BY <2>1, <2>2
<1> QED BY <1>2

AgreeOn(f, g, m, n)   == \A k \in m .. n : f[k] = g[k]
StayAlike(f, g, m, n) == f[m] = g[m] /\ \A k \in m + 1 .. n : f[k - 1] = g[k - 1] => f[k] = g[k]

\* Two functions whose values follow from the value before are the same if
\* they start with the same value.
LEMMA FollowAlike ==
  ASSUME NEW m \in Int, NEW n \in Int, NEW f, NEW g, StayAlike(f, g, m, n)
  PROVE  AgreeOn(f, g, m, n)
<1> DEFINE T == {k \in m .. n : f[k] = g[k]}
<1>1. m <= n => m \in T
  BY DEF StayAlike
<1>2. ASSUME NEW k \in m .. n - 1, k \in T PROVE k + 1 \in T
  <2>1. k + 1 \in m + 1 .. n /\ (k + 1) - 1 = k
    OBVIOUS
  <2> QED BY <1>2, <2>1 DEF StayAlike
<1> HIDE DEF T
<1>3. m .. n \subseteq T
  BY <1>1, <1>2, Upwards
<1> QED BY <1>3 DEF T, AgreeOn

\* f has the value a at m, and each of the others up to n follows from the one
\* before as step says.
Follows(f, m, n, S, a, step) ==
  f \in [m .. n -> S] /\ f[m] = a /\ \A k \in m + 1 .. n : f[k] = step[k][f[k - 1]]

\* There is such a function, for every step.
LEMMA FollowsExists ==
  ASSUME NEW S, NEW m \in Int, NEW n \in Int, m <= n, NEW a \in S,
         NEW step \in [m + 1 .. n -> [S -> S]]
  PROVE  \E f : Follows(f, m, n, S, a, step)
<1> DEFINE T == {x \in m .. n : \E f : Follows(f, m, x, S, a, step)}
<1>1. m \in T
  <2> DEFINE f == [k \in m .. m |-> a]
  <2>1. f \in [m .. m -> S] /\ f[m] = a
    OBVIOUS
  <2>2. m \in m .. n /\ m + 1 .. m = {}
    OBVIOUS
  <2> HIDE DEF f
  <2> QED BY <2>1, <2>2 DEF Follows
<1>2. ASSUME NEW x \in m .. n - 1, x \in T PROVE x + 1 \in T
  <2>1. PICK f : Follows(f, m, x, S, a, step)
    BY <1>2
  <2>2. /\ f \in [m .. x -> S] /\ f[m] = a
        /\ \A k \in m + 1 .. x : f[k] = step[k][f[k - 1]]
    BY <2>1 DEF Follows
  <2> DEFINE g == [k \in m .. x + 1 |-> IF k = x + 1 THEN step[x + 1][f[x]] ELSE f[k]]
  <2>3. step[x + 1][f[x]] \in S
    <3>1. f[x] \in S /\ x + 1 \in m + 1 .. n
      BY <2>2
    <3> QED BY <3>1
  <2>4. g \in [m .. x + 1 -> S]
    BY <2>2, <2>3
  <2>5. g[m] = a
    BY <2>2
  <2>6. ASSUME NEW k \in m + 1 .. x + 1 PROVE g[k] = step[k][g[k - 1]]
    <3>1. CASE k = x + 1
      <4>1. g[k - 1] = f[x] /\ g[k] = step[x + 1][f[x]]
        BY <3>1
      <4> QED BY <3>1, <4>1
    <3>2. CASE k # x + 1
      <4>1. k \in m + 1 .. x /\ g[k] = f[k] /\ g[k - 1] = f[k - 1]
        BY <3>2
      <4> QED BY <2>2, <4>1
    <3> QED BY <3>1, <3>2
  <2>7. x + 1 \in m .. n
    OBVIOUS
  <2> HIDE DEF g
  <2> QED BY <2>4, <2>5, <2>6, <2>7 DEF Follows
<1> HIDE DEF T
<1>3. m .. n \subseteq T
  BY <1>1, <1>2, Upwards
<1>4. n \in T
  BY <1>3
<1> QED BY <1>4 DEF T

\* A function whose values follow from the value before wherever that one is a
\* member of S is such a function.
LEMMA FollowsIf ==
  ASSUME NEW S, NEW m \in Int, NEW n \in Int, m <= n, NEW a \in S,
         NEW step \in [m + 1 .. n -> [S -> S]], NEW f,
         f = [k \in m .. n |-> f[k]], f[m] = a,
         \A k \in m + 1 .. n : f[k - 1] \in S => f[k] = step[k][f[k - 1]]
  PROVE  Follows(f, m, n, S, a, step)
<1> DEFINE T == {k \in m .. n : f[k] \in S}
<1>1. m <= n => m \in T
  OBVIOUS
<1>2. ASSUME NEW k \in m .. n - 1, k \in T PROVE k + 1 \in T
  <2>1. k + 1 \in m + 1 .. n /\ (k + 1) - 1 = k /\ f[k] \in S /\ k + 1 \in m .. n
    BY <1>2
  <2>2. f[k + 1] = step[k + 1][f[k]]
    BY <2>1
  <2>3. step[k + 1] \in [S -> S]
    BY <2>1
  <2> QED BY <2>1, <2>2, <2>3
<1> HIDE DEF T
<1>3. m .. n \subseteq T
  BY <1>1, <1>2, Upwards
<1>4. \A k \in m .. n : f[k] \in S
  BY <1>3 DEF T
<1>5. f \in [m .. n -> S]
  BY <1>4
<1>6. ASSUME NEW k \in m + 1 .. n PROVE f[k] = step[k][f[k - 1]]
  <2>1. k - 1 \in m .. n
    OBVIOUS
  <2> QED BY <1>4, <2>1
<1> QED BY <1>5, <1>6 DEF Follows

\* f[k] is the sum of what w says of the places behind m up to k.
IsSum(f, m, n, w) == f = [k \in m .. n |-> IF k = m THEN 0 ELSE f[k - 1] + w[k]]

Sums(f, m, n, w) == f \in [m .. n -> Int] /\ f[m] = 0 /\ \A k \in m + 1 .. n : f[k] = f[k - 1] + w[k]

\* There is one.
LEMMA SumExists ==
  ASSUME NEW m \in Int, NEW n \in Int, m <= n, NEW w \in [m + 1 .. n -> Int]
  PROVE  \E f \in [m .. n -> Int] : IsSum(f, m, n, w)
<1> DEFINE I == Int
           z == 0
           step == [k \in m + 1 .. n |-> [v \in I |-> v + w[k]]]
<1>1. z \in I /\ step \in [m + 1 .. n -> [I -> I]]
  OBVIOUS
<1>2. \A k \in m + 1 .. n : \A v \in I : step[k][v] = v + w[k]
  OBVIOUS
<1> HIDE DEF I, z, step
<1>3. PICK f : Follows(f, m, n, I, z, step)
  BY <1>1, FollowsExists
<1>4. f \in [m .. n -> I] /\ f[m] = z /\ \A k \in m + 1 .. n : f[k] = step[k][f[k - 1]]
  BY <1>3 DEF Follows
<1>5. ASSUME NEW k \in m + 1 .. n PROVE f[k] = f[k - 1] + w[k]
  <2>1. f[k - 1] \in I
    BY <1>4
  <2> QED BY <1>2, <1>4, <2>1
<1>6. IsSum(f, m, n, w)
  BY <1>4, <1>5 DEF z, IsSum
<1> QED BY <1>4, <1>6 DEF I

\* There is no other one.
LEMMA SumIs ==
  ASSUME NEW m \in Int, NEW n \in Int, m <= n, NEW w \in [m + 1 .. n -> Int],
         NEW f, IsSum(f, m, n, w)
  PROVE  Sums(f, m, n, w)
<1>1. PICK g \in [m .. n -> Int] : IsSum(g, m, n, w)
  BY SumExists
<1>2. ASSUME NEW h, IsSum(h, m, n, w)
      PROVE  h[m] = 0 /\ \A k \in m + 1 .. n : h[k] = h[k - 1] + w[k]
  <2>1. m \in m .. n /\ \A k \in m + 1 .. n : k \in m .. n /\ k # m
    OBVIOUS
  <2> QED BY <1>2, <2>1 DEF IsSum
<1>3. StayAlike(f, g, m, n)
  BY <1>1, <1>2 DEF StayAlike
<1>4. \A k \in m .. n : f[k] = g[k]
  BY <1>3, FollowAlike DEF AgreeOn
<1>5. DOMAIN f = m .. n /\ f = [k \in DOMAIN f |-> f[k]]
  BY DEF IsSum
<1>6. f \in [m .. n -> Int]
  BY <1>1, <1>4, <1>5
<1> QED BY <1>2, <1>6 DEF Sums
\* The sums up to k, each a function of its own, add up one place at a time.
LEMMA SumsAdd ==
  ASSUME NEW m \in Int, NEW n \in Int, m <= n, NEW w, NEW E,
         \A k \in m .. n : Sums(E[k], m, k, w)
  PROVE  /\ E[m][m] = 0
         /\ \A k \in m + 1 .. n : E[k][k] = E[k - 1][k - 1] + w[k]
         /\ \A k \in m .. n : E[k][k] \in Int
<1>1. m \in m .. n
  OBVIOUS
<1>2. ASSUME NEW k \in m + 1 .. n PROVE E[k][k] = E[k - 1][k - 1] + w[k]
  <2>1. k \in m .. n /\ k - 1 \in m .. n
    OBVIOUS
  <2>2. Sums(E[k], m, k, w) /\ Sums(E[k - 1], m, k - 1, w)
    BY <2>1
  <2>3. StayAlike(E[k], E[k - 1], m, k - 1)
    <3>1. \A j \in m + 1 .. k - 1 : j \in m + 1 .. k
      OBVIOUS
    <3> QED BY <2>2, <3>1 DEF Sums, StayAlike
  <2>4. E[k][k - 1] = E[k - 1][k - 1]
    BY <2>3, FollowAlike DEF AgreeOn
  <2>5. E[k][k] = E[k][k - 1] + w[k]
    <3>1. k \in m + 1 .. k
      OBVIOUS
    <3> QED BY <2>2, <3>1 DEF Sums
  <2> QED BY <2>4, <2>5
<1>3. ASSUME NEW k \in m .. n PROVE E[k][k] \in Int
  <2>1. Sums(E[k], m, k, w) /\ k \in m .. k
    OBVIOUS
  <2> QED BY <2>1 DEF Sums
<1> QED BY <1>1, <1>2, <1>3 DEF Sums


\* A walk of n steps from a, each of which stays in S: there is a function of
\* the number of steps that says where it is, ...
Iterates(g, S, n, a, step) ==
  g \in [0 .. n -> S] /\ g[0] = a /\ \A i \in 1 .. n : g[i] = step[i][g[i - 1]]

LEMMA IteratesExist ==
  ASSUME NEW S, NEW n \in Nat, NEW a \in S, NEW step \in [1 .. n -> [S -> S]]
  PROVE  \E g : Iterates(g, S, n, a, step)
<1>1. 0 \in Int /\ n \in Int /\ 0 <= n /\ 0 + 1 = 1
  OBVIOUS
<1>2. PICK g : Follows(g, 0, n, S, a, step)
  BY <1>1, FollowsExists
<1>3. Iterates(g, S, n, a, step)
  BY <1>1, <1>2 DEF Follows, Iterates
<1> QED BY <1>3

\* ... and every such function stays in S.
StepsStay(f, S, n) ==
  /\ f = [i \in 0 .. n |-> f[i]]
  /\ f[0] \in S
  /\ \A i \in 1 .. n : f[i - 1] \in S => f[i] \in S

LEMMA IteratesStay ==
  ASSUME NEW S, NEW n \in Nat, NEW f, StepsStay(f, S, n)
  PROVE  f \in [0 .. n -> S]
<1> DEFINE T == {k \in 0 .. n : f[k] \in S}
<1>0. /\ f = [i \in 0 .. n |-> f[i]] /\ f[0] \in S
      /\ \A i \in 1 .. n : f[i - 1] \in S => f[i] \in S
  BY DEF StepsStay
<1>1. 0 <= n => 0 \in T
  BY <1>0
<1>2. ASSUME NEW k \in 0 .. n - 1, k \in T PROVE k + 1 \in T
  <2>1. k + 1 \in 1 .. n /\ k + 1 \in 0 .. n /\ (k + 1) - 1 = k /\ f[k] \in S
    BY <1>2
  <2>2. f[k + 1] \in S
    BY <1>0, <2>1
  <2> QED BY <2>1, <2>2
<1> HIDE DEF T
<1>3. 0 .. n \subseteq T
  <2>1. 0 \in Int /\ n \in Int
    OBVIOUS
  <2> QED BY <1>1, <1>2, <2>1, Upwards
<1> QED BY <1>0, <1>3 DEF T
=============================================================================
