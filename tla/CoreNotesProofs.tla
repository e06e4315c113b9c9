--------------------------- MODULE CoreNotesProofs ---------------------------
(***************************************************************************)
(* The walk over the notes of a core file stays in step with the segment,  *)
(* for every number of notes and every size of their descriptions that     *)
(* leaves room for the fields read.                                        *)
(***************************************************************************)
EXTENDS CoreNotes, NaturalRecursion

-----------------------------------------------------------------------------
(***************************************************************************)
(* What a list of fields takes.                                            *)
(***************************************************************************)
\* Each field adds its width.
LEMMA UptoAdds ==
  ASSUME NEW w \in Seq(Nat)
  PROVE  /\ Upto(w, 0) = 0
         /\ \A i \in 1 .. Len(w) : Upto(w, i) = Upto(w, i - 1) + w[i]
         /\ \A i \in 0 .. Len(w) : Upto(w, i) \in Int
<1> DEFINE n == Len(w)
           Eq(k, f) == f = [j \in 0 .. k |-> IF j = 0 THEN 0 ELSE f[j - 1] + w[j]]
           E(k) == CHOOSE f : Eq(k, f)
           S == [k \in 0 .. n |-> E(k)]
<1>1. n \in Nat /\ \A j \in 1 .. n : w[j] \in Nat
  OBVIOUS
<1>2. ASSUME NEW k PROVE Upto(w, k) = E(k)[k]
  BY DEF Upto
<1>3. ASSUME NEW k \in 0 .. n PROVE Sums(E(k), 0, k, w)
  <2> DEFINE v == [j \in 0 + 1 .. k |-> w[j]]
  <2>1. v \in [0 + 1 .. k -> Int] /\ 0 \in Int /\ k \in Int /\ 0 <= k
    BY <1>1
  <2>2. \A j \in 0 + 1 .. k : v[j] = w[j]
    OBVIOUS
  <2> HIDE DEF v
  <2>3. \A f : IsSum(f, 0, k, v) <=> Eq(k, f)
    <3>1. \A j \in 0 .. k : j # 0 => v[j] = w[j]
      BY <2>2
    <3> QED BY <3>1 DEF IsSum
  <2>4. Eq(k, E(k))
    <3>1. \E f : IsSum(f, 0, k, v)
      BY <2>1, SumExists
    <3> HIDE DEF Eq
    <3> QED BY <2>3, <3>1
  <2>5. IsSum(E(k), 0, k, v)
    BY <2>3, <2>4
  <2> HIDE DEF E
  <2>6. Sums(E(k), 0, k, v)
    BY <2>1, <2>5, SumIs
  <2> QED BY <2>2, <2>6 DEF Sums
<1>4. \A k \in 0 .. n : S[k] = E(k)
  OBVIOUS
<1> HIDE DEF E, S
<1>5. \A k \in 0 .. n : Sums(S[k], 0, k, w)
  BY <1>3, <1>4
<1>6. /\ S[0][0] = 0
      /\ \A k \in 0 + 1 .. n : S[k][k] = S[k - 1][k - 1] + w[k]
      /\ \A k \in 0 .. n : S[k][k] \in Int
  <2>1. 0 \in Int /\ n \in Int /\ 0 <= n
    BY <1>1
  <2> QED BY <1>5, <2>1, SumsAdd
<1>7. \A k \in 0 .. n : Upto(w, k) = S[k][k]
  BY <1>2, <1>4
<1>8. \A k \in 1 .. n : k \in 0 + 1 .. n /\ k \in 0 .. n /\ k - 1 \in 0 .. n
  OBVIOUS
<1>9. Upto(w, 0) = 0
  BY <1>1, <1>6, <1>7
<1>10. ASSUME NEW k \in 1 .. n PROVE Upto(w, k) = Upto(w, k - 1) + w[k]
  BY <1>6, <1>7, <1>8
<1>11. \A k \in 0 .. n : Upto(w, k) \in Int
  BY <1>6, <1>7
<1> HIDE DEF n
<1> QED BY <1>9, <1>10, <1>11 DEF n

\* No field takes less than nothing, nor more than all of them.
LEMMA UptoBounds ==
  ASSUME NEW w \in Seq(Nat)
  PROVE  /\ Total(w) \in Nat
         /\ \A i \in 0 .. Len(w) : Upto(w, i) \in Nat /\ Upto(w, i) <= Total(w)
<1> DEFINE n == Len(w)
           u == [i \in 0 .. n |-> Upto(w, i)]
           T == {i \in 0 .. n : u[i] >= 0}
           R == {d \in 0 .. n : u[n - d] <= u[n]}
<1>1. n \in Nat /\ \A j \in 1 .. n : w[j] \in Nat
  OBVIOUS
<1>2. u[0] = 0 /\ (\A i \in 1 .. n : u[i] = u[i - 1] + w[i]) /\ \A i \in 0 .. n : u[i] \in Int
  BY <1>1, UptoAdds
<1>3. Total(w) = u[n] /\ \A i \in 0 .. n : u[i] = Upto(w, i)
  BY <1>1 DEF Total
<1> HIDE DEF n, u
<1>4. ASSUME NEW i \in 0 .. n PROVE u[i] >= 0
  <2>1. 0 <= n => 0 \in T
    BY <1>1, <1>2
  <2>2. ASSUME NEW k \in 0 .. n - 1, k \in T PROVE k + 1 \in T
    <3>1. k + 1 \in 1 .. n /\ (k + 1) - 1 = k
      BY <1>1
    <3> QED BY <1>1, <1>2, <2>2, <3>1
  <2> HIDE DEF T
  <2>3. 0 .. n \subseteq T
    <3>1. 0 \in Int /\ n \in Int
      BY <1>1
    <3> QED BY <2>1, <2>2, <3>1, Upwards
  <2> QED BY <2>3 DEF T
<1>5. ASSUME NEW i \in 0 .. n PROVE u[i] <= u[n]
  <2>1. 0 <= n => 0 \in R
    BY <1>1, <1>2
  <2>2. ASSUME NEW k \in 0 .. n - 1, k \in R PROVE k + 1 \in R
    <3>1. n - k \in 1 .. n /\ (n - k) - 1 = n - (k + 1) /\ n - (k + 1) \in 0 .. n
      BY <1>1
    <3>2. u[n - k] = u[n - (k + 1)] + w[n - k] /\ w[n - k] \in Nat
      BY <1>1, <1>2, <3>1
    <3>3. u[n - k] \in Int /\ u[n - (k + 1)] \in Int /\ u[n] \in Int /\ u[n - k] <= u[n]
      BY <1>1, <1>2, <2>2, <3>1
    <3>4. u[n - (k + 1)] <= u[n]
      BY <3>2, <3>3
    <3> QED BY <1>1, <3>4
  <2> HIDE DEF R
  <2>3. 0 .. n \subseteq R
    <3>1. 0 \in Int /\ n \in Int
      BY <1>1
    <3> QED BY <2>1, <2>2, <3>1, Upwards
  <2>4. n - i \in 0 .. n /\ n - (n - i) = i
    BY <1>1
  <2> QED BY <2>3, <2>4 DEF R
<1>6. Total(w) \in Nat
  BY <1>1, <1>2, <1>3, <1>4
<1>7. ASSUME NEW i \in 0 .. n PROVE Upto(w, i) \in Nat /\ Upto(w, i) <= Total(w)
  BY <1>2, <1>3, <1>4, <1>5
<1> QED BY <1>6, <1>7 DEF n

\* n fields of one width.
LEMMA CopiesTotal ==
  ASSUME NEW n \in Nat, NEW width \in Nat
  PROVE  /\ Copies(n, width) \in Seq(Nat)
         /\ Total(Copies(n, width)) = n * width
<1> DEFINE w == Copies(n, width)
           T == {i \in 0 .. n : Upto(w, i) = i * width}
<1>1. w \in Seq(Nat) /\ Len(w) = n /\ \A i \in 1 .. n : w[i] = width
  BY DEF Copies
<1> HIDE DEF w
<1>2. Upto(w, 0) = 0 /\ \A i \in 1 .. n : Upto(w, i) = Upto(w, i - 1) + w[i]
  BY <1>1, UptoAdds
<1>3. 0 <= n => 0 \in T
  BY <1>2
<1>4. ASSUME NEW k \in 0 .. n - 1, k \in T PROVE k + 1 \in T
  <2>1. k + 1 \in 1 .. n /\ (k + 1) - 1 = k
    OBVIOUS
  <2>2. Upto(w, k + 1) = k * width + width
    BY <1>1, <1>2, <1>4, <2>1
  <2>3. (k + 1) * width = k * width + width
    OBVIOUS
  <2> QED BY <2>1, <2>2, <2>3
<1> HIDE DEF T
<1>5. 0 .. n \subseteq T
  BY <1>3, <1>4, Upwards
<1>6. n \in T
  BY <1>5
<1> QED BY <1>1, <1>6 DEF T, w, Total

\* Two lists of fields, one read behind the other.
LEMMA ConcatTotal ==
  ASSUME NEW v \in Seq(Nat), NEW w \in Seq(Nat)
  PROVE  /\ v \o w \in Seq(Nat)
         /\ Total(v \o w) = Total(v) + Total(w)
<1> DEFINE m == Len(v)
           n == Len(w)
           vw == v \o w
           T == {i \in 0 .. m : Upto(vw, i) = Upto(v, i)}
           R == {i \in 0 .. n : Upto(vw, m + i) = Upto(v, m) + Upto(w, i)}
<1>1. /\ m \in Nat /\ n \in Nat
      /\ vw \in Seq(Nat) /\ Len(vw) = m + n
      /\ \A i \in 1 .. m : vw[i] = v[i]
      /\ \A i \in 1 .. n : vw[m + i] = w[i]
  OBVIOUS
<1> HIDE DEF vw
<1>2. /\ Upto(vw, 0) = 0 /\ Upto(v, 0) = 0 /\ Upto(w, 0) = 0
      /\ \A i \in 1 .. m : Upto(v, i) = Upto(v, i - 1) + v[i]
      /\ \A i \in 1 .. n : Upto(w, i) = Upto(w, i - 1) + w[i]
      /\ \A i \in 1 .. m + n : Upto(vw, i) = Upto(vw, i - 1) + vw[i]
  BY <1>1, UptoAdds
<1>3. (\A i \in 0 .. m : Upto(v, i) \in Int) /\ (\A i \in 0 .. n : Upto(w, i) \in Int)
      /\ \A i \in 1 .. n : w[i] \in Int
  <2>1. (\A i \in 0 .. m : Upto(v, i) \in Int) /\ (\A i \in 0 .. n : Upto(w, i) \in Int)
    BY UptoAdds
  <2>2. \A i \in 1 .. n : w[i] \in Int
    OBVIOUS
  <2> QED BY <2>1, <2>2
<1> HIDE DEF m, n
<1>4. m \in T
  <2>1. 0 <= m => 0 \in T
    BY <1>1, <1>2
  <2>2. ASSUME NEW k \in 0 .. m - 1, k \in T PROVE k + 1 \in T
    <3>1. k + 1 \in 1 .. m /\ (k + 1) - 1 = k /\ k + 1 \in 1 .. m + n
      BY <1>1
    <3> QED BY <1>1, <1>2, <2>2, <3>1
  <2> HIDE DEF T
  <2>3. 0 .. m \subseteq T
    <3>1. 0 \in Int /\ m \in Int
      BY <1>1
    <3> QED BY <2>1, <2>2, <3>1, Upwards
  <2> QED BY <1>1, <2>3
<1>5. n \in R
  <2>1. 0 <= n => 0 \in R
    BY <1>1, <1>2, <1>3, <1>4
  <2>2. ASSUME NEW k \in 0 .. n - 1, k \in R PROVE k + 1 \in R
    <3>1. /\ k \in 0 .. n /\ k + 1 \in 1 .. n /\ (k + 1) - 1 = k
          /\ m + (k + 1) \in 1 .. m + n /\ (m + (k + 1)) - 1 = m + k
      <4>1. m \in Nat /\ n \in Nat /\ k \in Int /\ 0 <= k /\ k <= n - 1
        BY <1>1
      <4> QED BY <4>1
    <3>2. Upto(vw, m + (k + 1)) = Upto(vw, m + k) + w[k + 1]
      BY <1>1, <1>2, <3>1
    <3>3. Upto(vw, m + k) = Upto(v, m) + Upto(w, k)
      BY <2>2
    <3>4. Upto(w, k + 1) = Upto(w, k) + w[k + 1]
      BY <1>2, <3>1
    <3>5. Upto(v, m) \in Int /\ Upto(w, k) \in Int /\ w[k + 1] \in Int
      BY <1>1, <1>3, <3>1
    <3>6. Upto(vw, m + (k + 1)) = Upto(v, m) + Upto(w, k + 1)
      BY <3>2, <3>3, <3>4, <3>5
    <3> QED BY <3>1, <3>6
  <2> HIDE DEF R
  <2>3. 0 .. n \subseteq R
    <3>1. 0 \in Int /\ n \in Int
      BY <1>1
    <3> QED BY <2>1, <2>2, <3>1, Upwards
  <2> QED BY <1>1, <2>3
<1> QED BY <1>1, <1>4, <1>5 DEF Total, T, R, m, n, vw

\* One field.
LEMMA FieldTotal ==
  ASSUME NEW width \in Nat
  PROVE  << width >> \in Seq(Nat) /\ Total(<< width >>) = width
<1> DEFINE w == << width >>
<1>1. w \in Seq(Nat) /\ Len(w) = 1 /\ w[1] = width
  OBVIOUS
<1> HIDE DEF w
<1>2. Upto(w, 0) = 0 /\ \A i \in 1 .. 1 : Upto(w, i) = Upto(w, i - 1) + w[i]
  BY <1>1, UptoAdds
<1>3. Upto(w, 1) = width
  <2>1. 1 \in 1 .. 1 /\ 1 - 1 = 0
    OBVIOUS
  <2> QED BY <1>1, <1>2, <2>1
<1> QED BY <1>1, <1>3 DEF Total, w

-----------------------------------------------------------------------------
(***************************************************************************)
(* The cursor: however the fields are read, it is live exactly while it is *)
(* in the segment, as long as it only goes on.                             *)
(***************************************************************************)
Sound(c) == c.item <=> c.cpos <= c.epos

\* A live cursor is in the buffer.
Held == {c \in Cursor : c.item => c.cpos <= c.epos}

\* d is c moved on by m bytes at most.
Forward(c, d, m) == /\ c \in Held /\ d \in Held /\ d.epos = c.epos
                    /\ c.cpos <= d.cpos /\ d.cpos <= c.cpos + m
                    /\ Sound(c) => Sound(d)

\* fmove sets the position, and loses the buffer behind its last byte.
LEMMA MoveIs ==
  ASSUME NEW c \in Cursor, NEW p \in Nat
  PROVE  /\ fmove(c, p) \in Held /\ fmove(c, p).cpos = p /\ fmove(c, p).epos = c.epos
         /\ fmove(c, p).item <=> (c.item /\ p <= c.epos)
<1> DEFINE b == c.item /\ p <= c.epos
<1>1. b \in BOOLEAN /\ c.epos \in Int /\ c.cpos \in Nat
  BY DEF Held, Cursor
<1>2. fmove(c, p) = [c EXCEPT !.cpos = p, !.item = b]
  BY DEF fmove
<1>3. c = [item |-> c.item, cpos |-> c.cpos, epos |-> c.epos]
  BY DEF Held, Cursor
<1> HIDE DEF b
<1>4. fmove(c, p) = [item |-> b, cpos |-> p, epos |-> c.epos]
  BY <1>2, <1>3
<1>5. fmove(c, p) \in Cursor
  BY <1>1, <1>4 DEF Held, Cursor
<1>6. fmove(c, p).cpos = p /\ fmove(c, p).epos = c.epos /\ fmove(c, p).item = b
  BY <1>4
<1>7. fmove(c, p).item <=> (c.item /\ p <= c.epos)
  BY <1>6 DEF b
<1> QED BY <1>5, <1>6, <1>7 DEF Held

\* So does every move to a place behind.
LEMMA MoveForward ==
  ASSUME NEW c \in Held, NEW m \in Nat, NEW n \in Nat, n <= m
  PROVE  Forward(c, fmove(c, c.cpos + n), m)
<1>1. c.cpos \in Nat /\ c.epos \in Int /\ c.cpos + n \in Nat
  BY DEF Held, Cursor
<1>2. /\ fmove(c, c.cpos + n) \in Held
      /\ fmove(c, c.cpos + n).cpos = c.cpos + n /\ fmove(c, c.cpos + n).epos = c.epos
      /\ fmove(c, c.cpos + n).item <=> (c.item /\ c.cpos + n <= c.epos)
  BY <1>1, MoveIs DEF Held
<1> QED BY <1>1, <1>2 DEF Forward, Sound, Held

LEMMA StepForward ==
  ASSUME NEW c \in Held, NEW n \in Nat
  PROVE  Forward(c, fstep(c, n), n)
BY MoveForward DEF fstep

\* fgetp leaves a lost cursor where it is.
LEMMA GetForward ==
  ASSUME NEW c \in Held, NEW n \in Nat
  PROVE  Forward(c, fgetp(c, n), n)
<1>1. CASE c.item
  BY <1>1, MoveForward DEF fgetp
<1>2. CASE ~c.item
  BY <1>2 DEF fgetp, Forward, Held, Cursor
<1> QED BY <1>1, <1>2

\* The fields read take no more than their widths, all of it when the cursor
\* is still live behind them.
LEMMA ReadForward ==
  ASSUME NEW c \in Held, NEW w \in Seq(Nat)
  PROVE  /\ Forward(c, Read(c, w), Total(w))
         /\ Read(c, w).item => Read(c, w).cpos = c.cpos + Total(w)
<1> DEFINE out == {i \in 1 .. Len(w) : c.cpos + Upto(w, i) > c.epos}
           r == Read(c, w)
<1>1. /\ Total(w) \in Nat
      /\ \A i \in 0 .. Len(w) : Upto(w, i) \in Nat /\ Upto(w, i) <= Total(w)
  BY UptoBounds
<1>2. c.cpos \in Nat /\ c.epos \in Int /\ Len(w) \in Nat
  BY DEF Held, Cursor
<1>3. CASE ~c.item
  <2>1. r = c
    BY <1>3 DEF Read
  <2> QED BY <1>1, <1>2, <1>3, <2>1 DEF Forward, Sound
<1>4. CASE c.item /\ c.cpos + Total(w) <= c.epos
  <2>1. r = fmove(c, c.cpos + Total(w))
    BY <1>4 DEF Read
  <2>2. Forward(c, r, Total(w))
    BY <1>1, <2>1, MoveForward
  <2>3. r.cpos = c.cpos + Total(w)
    <3>1. c.cpos + Total(w) \in Nat /\ c \in Cursor
      BY <1>1, <1>2 DEF Held
    <3> QED BY <2>1, <3>1, MoveIs
  <2> QED BY <2>2, <2>3
<1>5. CASE c.item /\ ~(c.cpos + Total(w) <= c.epos)
  <2>1. out # {}
    <3>1. CASE Len(w) > 0
      <4>1. Len(w) \in 1 .. Len(w) /\ Upto(w, Len(w)) = Total(w)
        BY <1>2, <3>1 DEF Total
      <4>2. c.cpos + Upto(w, Len(w)) > c.epos
        BY <1>1, <1>2, <1>5, <4>1
      <4> QED BY <4>1, <4>2
    <3>2. CASE Len(w) = 0
      <4>1. Total(w) = 0
        BY <3>2, UptoAdds DEF Total
      <4>2. c.cpos <= c.epos
        BY <1>5 DEF Held
      <4> QED BY <1>2, <1>5, <4>1, <4>2
    <3> QED BY <1>2, <3>1, <3>2
  <2>2. out \subseteq Nat
    BY <1>2
  <2>3. \E i \in out : \A j \in out : i <= j
    <3> HIDE DEF out
    <3> QED BY <2>1, <2>2, LeastNatural
  <2>4. Min(out) \in out
    <3> HIDE DEF out
    <3> QED BY <2>3 DEF Min
  <2> DEFINE k == Min(out)
             u == Upto(w, k)
  <2>5. r = fmove(c, c.cpos + u)
    BY <1>5 DEF Read
  <2>6. k \in 1 .. Len(w) /\ c.cpos + u > c.epos
    BY <2>4
  <2> HIDE DEF k, out
  <2>7. u \in Nat /\ u <= Total(w)
    <3>1. k \in 0 .. Len(w)
      BY <1>2, <2>6
    <3> QED BY <1>1, <3>1
  <2> HIDE DEF u
  <2>8. Forward(c, r, Total(w))
    BY <1>1, <2>5, <2>7, MoveForward
  <2>9. ~r.item
    <3>1. c.cpos + u \in Nat /\ c \in Cursor /\ ~(c.cpos + u <= c.epos)
      BY <1>2, <2>6, <2>7 DEF Held
    <3> QED BY <2>5, <3>1, MoveIs
  <2> QED BY <2>8, <2>9
<1> QED BY <1>3, <1>4, <1>5

\* One move behind the other.
LEMMA ForwardOn ==
  ASSUME NEW c, NEW d, NEW e, NEW m \in Nat, NEW n \in Nat,
         Forward(c, d, m), Forward(d, e, n)
  PROVE  Forward(c, e, m + n)
<1>1. c.cpos \in Nat /\ d.cpos \in Nat /\ e.cpos \in Nat
  BY DEF Forward, Held, Cursor
<1>2. c.cpos <= e.cpos /\ e.cpos <= c.cpos + (m + n)
  BY <1>1 DEF Forward
<1> QED BY <1>2 DEF Forward

LEMMA ForwardLess ==
  ASSUME NEW c, NEW d, NEW m \in Nat, NEW n \in Nat, Forward(c, d, m), m <= n
  PROVE  Forward(c, d, n)
<1>1. c.cpos \in Nat /\ d.cpos \in Nat
  BY DEF Forward, Held, Cursor
<1> QED BY <1>1 DEF Forward

-----------------------------------------------------------------------------
(***************************************************************************)
(* The fields of the notes take no more than the kernel's structures and   *)
(* the padding of the owner, at which the reading starts.                  *)
(***************************************************************************)
Takes(w, n) == n \in Nat /\ w \in Seq(Nat) /\ Total(w) = n

LEMMA CopiesTake ==
  ASSUME NEW n \in Nat, NEW width \in Nat PROVE Takes(Copies(n, width), n * width)
BY CopiesTotal DEF Takes

LEMMA FieldTakes ==
  ASSUME NEW width \in Nat PROVE Takes(<< width >>, width)
BY FieldTotal DEF Takes

LEMMA BothTake ==
  ASSUME NEW v, NEW w, NEW m, NEW n, Takes(v, m), Takes(w, n) PROVE Takes(v \o w, m + n)
BY ConcatTotal DEF Takes

LEMMA PairTakes ==
  ASSUME NEW m \in Nat, NEW n \in Nat PROVE Takes(<< m, n >>, m + n)
<1> DEFINE w == << m, n >>
<1>1. w \in Seq(Nat) /\ Len(w) = 2 /\ w[1] = m /\ w[2] = n
  OBVIOUS
<1> HIDE DEF w
<1>2. Upto(w, 0) = 0 /\ Upto(w, 1) = Upto(w, 1 - 1) + w[1] /\ Upto(w, 2) = Upto(w, 2 - 1) + w[2]
  BY <1>1, UptoAdds
<1> QED BY <1>1, <1>2 DEF Takes, Total, w

LEMMA RegistersTake ==
  /\ Takes(RegistersX32, 68) /\ Takes(RegistersX64, 216)
  /\ Takes(RegistersArm, 72) /\ Takes(RegistersMips, 180)
<1>1. /\ Takes(Copies(7, 4), 28) /\ Takes(Copies(8, 2), 16)
      /\ Takes(Copies(2, 4), 8) /\ Takes(Copies(2, 2), 4)
      /\ Takes(Copies(27, 8), 216) /\ Takes(Copies(18, 4), 72) /\ Takes(Copies(45, 4), 180)
  <2>1. /\ Takes(Copies(7, 4), 7 * 4) /\ Takes(Copies(8, 2), 8 * 2)
        /\ Takes(Copies(2, 4), 2 * 4) /\ Takes(Copies(2, 2), 2 * 2)
        /\ Takes(Copies(27, 8), 27 * 8) /\ Takes(Copies(18, 4), 18 * 4)
        /\ Takes(Copies(45, 4), 45 * 4)
    BY CopiesTake
  <2> QED BY <2>1
<1>2. Takes(Copies(7, 4) \o Copies(8, 2), 28 + 16)
  BY <1>1, BothTake
<1>3. Takes(Copies(7, 4) \o Copies(8, 2) \o Copies(2, 4), (28 + 16) + 8)
  BY <1>1, <1>2, BothTake
<1>4. Takes(Copies(7, 4) \o Copies(8, 2) \o Copies(2, 4) \o Copies(2, 2), ((28 + 16) + 8) + 4)
  BY <1>1, <1>3, BothTake
<1>5. Takes(Copies(7, 4) \o Copies(8, 2) \o Copies(2, 4) \o Copies(2, 2) \o Copies(2, 4),
            (((28 + 16) + 8) + 4) + 8)
  BY <1>1, <1>4, BothTake
<1>6. Takes(RegistersX32, ((((28 + 16) + 8) + 4) + 8) + 4)
  BY <1>1, <1>5, BothTake DEF RegistersX32
<1>7. Takes(RegistersX32, 68)
  BY <1>6
<1> QED BY <1>1, <1>7 DEF RegistersX64, RegistersArm, RegistersMips

\* A word of the machine has four or eight bytes.
LEMMA WordIs ==
  ASSUME NEW s
  PROVE  WidthNN(s) \in {4, 8} /\ (s.machine = "x86_64" => WidthNN(s) = 8)
         /\ (s.machine # "x86_64" => WidthNN(s) = 4)
BY DEF WidthNN

\* The fields of dump_notes5, whose registers no other machine has.
RegisterSize(s) == CASE s.machine = "386"                -> 68
                     [] s.machine = "x86_64"             -> 216
                     [] s.machine \in {"arm", "aarch64"} -> 72
                     [] s.machine = "mips"               -> 180
                     [] OTHER                            -> 0

LEMMA NothingTakes == Takes(<< >>, 0)
<1>1. << >> \in Seq(Nat) /\ Len(<< >>) = 0
  OBVIOUS
<1>2. Upto(<< >>, 0) = 0
  BY <1>1, UptoAdds
<1> QED BY <1>1, <1>2 DEF Takes, Total

LEMMA RegisterSizeTakes ==
  ASSUME NEW s
  PROVE  Takes(Registers(s), RegisterSize(s))
<1>1. CASE s.machine = "386"
  BY <1>1, RegistersTake DEF Registers, RegisterSize
<1>2. CASE s.machine = "x86_64"
  BY <1>2, RegistersTake DEF Registers, RegisterSize
<1>3. CASE s.machine \in {"arm", "aarch64"}
  BY <1>3, RegistersTake DEF Registers, RegisterSize
<1>4. CASE s.machine = "mips"
  BY <1>4, RegistersTake DEF Registers, RegisterSize
<1>5. CASE s.machine \notin {"386", "x86_64", "arm", "aarch64", "mips"}
  <2>1. Registers(s) = << >> /\ RegisterSize(s) = 0
    BY <1>5 DEF Registers, RegisterSize
  <2> QED BY <2>1, NothingTakes
<1> QED BY <1>1, <1>2, <1>3, <1>4, <1>5

LEMMA StatusTakes ==
  ASSUME NEW s
  PROVE  /\ Takes(SignalInfo \o <<2>>, 14)
         /\ Takes(SignalSets(s) \o Copies(4, 4) \o Times(s) \o Times(s) \o Times(s) \o Times(s)
                    \o Registers(s) \o <<4>>, 10 * WidthNN(s) + RegisterSize(s) + 20)
<1> DEFINE W == WidthNN(s)
           R == RegisterSize(s)
<1>1. W \in Nat /\ R \in Nat
  BY WordIs, RegisterSizeTakes DEF Takes
<1>2. Takes(SignalInfo, 3 * 4) /\ Takes(SignalSets(s), 2 * W) /\ Takes(Times(s), 2 * W)
      /\ Takes(Copies(4, 4), 4 * 4)
  BY <1>1, CopiesTake DEF SignalInfo, SignalSets, Times
<1>3. Takes(<<2>>, 2) /\ Takes(<<4>>, 4) /\ Takes(Registers(s), R)
  BY FieldTakes, RegisterSizeTakes
<1> HIDE DEF W, R
<1>4. Takes(SignalInfo \o <<2>>, 3 * 4 + 2)
  BY <1>2, <1>3, BothTake
<1>5. Takes(SignalSets(s) \o Copies(4, 4), 2 * W + 4 * 4)
  BY <1>2, BothTake
<1>6. Takes(SignalSets(s) \o Copies(4, 4) \o Times(s), (2 * W + 4 * 4) + 2 * W)
  BY <1>2, <1>5, BothTake
<1>7. Takes(SignalSets(s) \o Copies(4, 4) \o Times(s) \o Times(s), ((2 * W + 4 * 4) + 2 * W) + 2 * W)
  BY <1>2, <1>6, BothTake
<1>8. Takes(SignalSets(s) \o Copies(4, 4) \o Times(s) \o Times(s) \o Times(s),
            (((2 * W + 4 * 4) + 2 * W) + 2 * W) + 2 * W)
  BY <1>2, <1>7, BothTake
<1>9. Takes(SignalSets(s) \o Copies(4, 4) \o Times(s) \o Times(s) \o Times(s) \o Times(s),
            ((((2 * W + 4 * 4) + 2 * W) + 2 * W) + 2 * W) + 2 * W)
  BY <1>2, <1>8, BothTake
<1>10. Takes(SignalSets(s) \o Copies(4, 4) \o Times(s) \o Times(s) \o Times(s) \o Times(s) \o Registers(s),
             (((((2 * W + 4 * 4) + 2 * W) + 2 * W) + 2 * W) + 2 * W) + R)
  BY <1>3, <1>9, BothTake
<1>11. Takes(SignalSets(s) \o Copies(4, 4) \o Times(s) \o Times(s) \o Times(s) \o Times(s)
               \o Registers(s) \o <<4>>,
             ((((((2 * W + 4 * 4) + 2 * W) + 2 * W) + 2 * W) + 2 * W) + R) + 4)
  BY <1>3, <1>10, BothTake
<1>12. ((((((2 * W + 4 * 4) + 2 * W) + 2 * W) + 2 * W) + 2 * W) + R) + 4 = 10 * W + R + 20
  BY <1>1
<1>13. 3 * 4 + 2 = 14
  OBVIOUS
<1> QED BY <1>4, <1>11, <1>12, <1>13 DEF W, R

LEMMA ProcessTakes ==
  /\ Takes(ProcessArm, 124) /\ Takes(ProcessX32, 124) /\ Takes(ProcessMips, 128)
  /\ Takes(Copies(4, 1), 4) /\ Takes(<<8>> \o Copies(6, 4), 32) /\ Takes(<<16, 80>>, 96)
<1>1. /\ Takes(Copies(4, 1), 4 * 1) /\ Takes(Copies(2, 2), 2 * 2) /\ Takes(Copies(4, 4), 4 * 4)
      /\ Takes(Copies(7, 4), 7 * 4) /\ Takes(Copies(6, 4), 6 * 4)
  BY CopiesTake
<1>2. Takes(<<4>>, 4) /\ Takes(<<8>>, 8) /\ Takes(<<16, 80>>, 96)
  <2>1. Takes(<<16, 80>>, 16 + 80)
    BY PairTakes
  <2> QED BY <2>1, FieldTakes
<1>3. Takes(Copies(4, 1) \o <<4>>, 4 * 1 + 4)
  BY <1>1, <1>2, BothTake
<1>4. Takes(Copies(4, 1) \o <<4>> \o Copies(2, 2), (4 * 1 + 4) + 2 * 2)
  BY <1>1, <1>3, BothTake
<1>5. Takes(Copies(4, 1) \o <<4>> \o Copies(2, 2) \o Copies(4, 4), ((4 * 1 + 4) + 2 * 2) + 4 * 4)
  BY <1>1, <1>4, BothTake
<1>6. Takes(ProcessArm, (((4 * 1 + 4) + 2 * 2) + 4 * 4) + 96)
  BY <1>2, <1>5, BothTake DEF ProcessArm
<1>7. Takes(ProcessX32, (((4 * 1 + 4) + 2 * 2) + 4 * 4) + 96)
  BY <1>2, <1>5, BothTake DEF ProcessX32
<1>8. Takes(Copies(4, 1) \o Copies(7, 4), 4 * 1 + 7 * 4)
  BY <1>1, BothTake
<1>9. Takes(ProcessMips, (4 * 1 + 7 * 4) + 96)
  BY <1>2, <1>8, BothTake DEF ProcessMips
<1>10. Takes(<<8>> \o Copies(6, 4), 8 + 6 * 4)
  BY <1>1, <1>2, BothTake
<1> QED BY <1>1, <1>2, <1>6, <1>7, <1>9, <1>10

LEMMA SignalTakes ==
  ASSUME NEW s
  PROVE  Takes(Signal(s), 7 * WidthNN(s) + 68)
<1> DEFINE W == WidthNN(s)
           v == <<W, 4, W, 4, 4, W, W, 4, 4>>
           w == <<W, W, 4, W, 4, 4>>
<1>1. W \in Nat
  BY WordIs
<1> HIDE DEF W
<1>2. /\ v \in Seq(Nat) /\ Len(v) = 9
      /\ v[1] = W /\ v[2] = 4 /\ v[3] = W /\ v[4] = 4 /\ v[5] = 4 /\ v[6] = W /\ v[7] = W
      /\ v[8] = 4 /\ v[9] = 4
  BY <1>1
<1>3. /\ w \in Seq(Nat) /\ Len(w) = 6
      /\ w[1] = W /\ w[2] = W /\ w[3] = 4 /\ w[4] = W /\ w[5] = 4 /\ w[6] = 4
  BY <1>1
<1> HIDE DEF v, w
<1>4. Takes(v, 4 * W + 20)
  <2>1. Upto(v, 0) = 0 /\ \A i \in 1 .. 9 : Upto(v, i) = Upto(v, i - 1) + v[i]
    BY <1>2, UptoAdds
  <2>2. /\ Upto(v, 1) = Upto(v, 0) + v[1]
        /\ Upto(v, 2) = Upto(v, 1) + v[2]
        /\ Upto(v, 3) = Upto(v, 2) + v[3]
        /\ Upto(v, 4) = Upto(v, 3) + v[4]
        /\ Upto(v, 5) = Upto(v, 4) + v[5]
        /\ Upto(v, 6) = Upto(v, 5) + v[6]
        /\ Upto(v, 7) = Upto(v, 6) + v[7]
        /\ Upto(v, 8) = Upto(v, 7) + v[8]
        /\ Upto(v, 9) = Upto(v, 8) + v[9]
    BY <2>1
  <2>3. Upto(v, 9) = 4 * W + 20
    BY <1>1, <1>2, <2>1, <2>2
  <2> QED BY <1>1, <1>2, <2>3 DEF Takes, Total
<1>5. Takes(w, 3 * W + 12)
  <2>1. Upto(w, 0) = 0 /\ \A i \in 1 .. 6 : Upto(w, i) = Upto(w, i - 1) + w[i]
    BY <1>3, UptoAdds
  <2>2. /\ Upto(w, 1) = Upto(w, 0) + w[1]
        /\ Upto(w, 2) = Upto(w, 1) + w[2]
        /\ Upto(w, 3) = Upto(w, 2) + w[3]
        /\ Upto(w, 4) = Upto(w, 3) + w[4]
        /\ Upto(w, 5) = Upto(w, 4) + w[5]
        /\ Upto(w, 6) = Upto(w, 5) + w[6]
    BY <2>1
  <2>3. Upto(w, 6) = 3 * W + 12
    BY <1>1, <1>3, <2>1, <2>2
  <2> QED BY <1>1, <1>3, <2>3 DEF Takes, Total
<1>6. Takes(Copies(9, 4), 9 * 4)
  BY CopiesTake
<1>7. Takes(Copies(9, 4) \o v, 9 * 4 + (4 * W + 20))
  BY <1>4, <1>6, BothTake
<1>8. Takes(Copies(9, 4) \o v \o w, (9 * 4 + (4 * W + 20)) + (3 * W + 12))
  BY <1>5, <1>7, BothTake
<1>9. Signal(s) = Copies(9, 4) \o v \o w
  BY DEF Signal, v, w, W
<1>10. (9 * 4 + (4 * W + 20)) + (3 * W + 12) = 7 * W + 68
  BY <1>1
<1> QED BY <1>8, <1>9, <1>10 DEF W

\* So each handler stays in its note.
LEMMA ReadTakes ==
  ASSUME NEW c \in Held, NEW w, NEW n, Takes(w, n)
  PROVE  n \in Nat /\ Forward(c, Read(c, w), n)
BY ReadForward DEF Takes

LEMMA StatusForward ==
  ASSUME NEW s, NEW c \in Held
  PROVE  Forward(c, Status(s, c), StatusSize(s.machine))
<1> DEFINE d == Read(c, SignalInfo \o <<2>>)
           e == fstep(d, 2)
           n == 10 * WidthNN(s) + RegisterSize(s) + 20
<1>1. Forward(c, d, 14) /\ d \in Held
  BY StatusTakes, ReadTakes DEF Forward
<1>2. Forward(d, e, 2) /\ e \in Held
  BY <1>1, StepForward DEF Forward
<1>3. n \in Nat /\ Forward(e, Status(s, c), n)
  BY <1>2, StatusTakes, ReadTakes DEF Status
<1> HIDE DEF d, e
<1>4. Forward(c, Status(s, c), (14 + 2) + n)
  <2>1. Forward(c, e, 14 + 2)
    BY <1>1, <1>2, ForwardOn
  <2>2. 14 + 2 \in Nat
    OBVIOUS
  <2> HIDE DEF n
  <2> QED BY <1>3, <2>1, <2>2, ForwardOn
<1>5. (14 + 2) + n <= StatusSize(s.machine) /\ StatusSize(s.machine) \in Nat
  BY WordIs DEF RegisterSize, StatusSize
<1> QED BY <1>3, <1>4, <1>5, ForwardLess

LEMMA ProcessX64Forward ==
  ASSUME NEW c \in Held
  PROVE  Forward(c, ProcessX64(c), 139)
<1> DEFINE d == Read(c, Copies(4, 1))
           e == fstep(d, 4)
           f == Read(e, <<8>> \o Copies(6, 4))
           g == fstep(f, 3)
<1>1. Forward(c, d, 4) /\ d \in Held
  BY ProcessTakes, ReadTakes DEF Forward
<1>2. Forward(d, e, 4) /\ e \in Held
  BY <1>1, StepForward DEF Forward
<1>3. Forward(e, f, 32) /\ f \in Held
  BY <1>2, ProcessTakes, ReadTakes DEF Forward
<1>4. Forward(f, g, 3) /\ g \in Held
  BY <1>3, StepForward DEF Forward
<1>5. Forward(g, ProcessX64(c), 96)
  BY <1>4, ProcessTakes, ReadTakes DEF ProcessX64
<1> HIDE DEF d, e, f, g
<1>6. Forward(c, e, 4 + 4)
  BY <1>1, <1>2, ForwardOn
<1>7. Forward(c, f, (4 + 4) + 32)
  BY <1>3, <1>6, ForwardOn
<1>8. Forward(c, g, ((4 + 4) + 32) + 3)
  BY <1>4, <1>7, ForwardOn
<1>9. Forward(c, ProcessX64(c), (((4 + 4) + 32) + 3) + 96)
  BY <1>5, <1>8, ForwardOn
<1> QED BY <1>9

LEMMA ProcessForward ==
  ASSUME NEW s, NEW c \in Held
  PROVE  Forward(c, Process(s, c), ProcessSize(s.machine) + 3)
<1>1. CASE s.machine = "x86_64"
  <2>1. Process(s, c) = ProcessX64(c) /\ ProcessSize(s.machine) + 3 = 139
    BY <1>1 DEF Process, ProcessSize
  <2> QED BY <2>1, ProcessX64Forward
<1>2. CASE s.machine = "386"
  <2>1. Process(s, c) = Read(c, ProcessX32) /\ ProcessSize(s.machine) = 124
    BY <1>2 DEF Process, ProcessSize
  <2>2. Forward(c, Process(s, c), 124)
    BY <2>1, ProcessTakes, ReadTakes
  <2> QED BY <2>1, <2>2, ForwardLess
<1>3. CASE s.machine \in {"arm", "aarch64"}
  <2>1. Process(s, c) = Read(c, ProcessArm) /\ ProcessSize(s.machine) \in {124, 136}
    BY <1>3 DEF Process, ProcessSize
  <2>2. Forward(c, Process(s, c), 124)
    BY <2>1, ProcessTakes, ReadTakes
  <2> QED BY <2>1, <2>2, ForwardLess
<1>4. CASE s.machine = "mips"
  <2>1. Process(s, c) = Read(c, ProcessMips) /\ ProcessSize(s.machine) = 128
    BY <1>4 DEF Process, ProcessSize
  <2>2. Forward(c, Process(s, c), 128)
    BY <2>1, ProcessTakes, ReadTakes
  <2> QED BY <2>1, <2>2, ForwardLess
<1>5. CASE s.machine \notin {"386", "x86_64", "arm", "aarch64", "mips"}
  <2>1. Process(s, c) = c /\ ProcessSize(s.machine) = 0
    BY <1>5 DEF Process, ProcessSize
  <2> QED BY <2>1 DEF Forward, Held, Cursor
<1> QED BY <1>1, <1>2, <1>3, <1>4, <1>5

LEMMA SignalForward ==
  ASSUME NEW s, NEW c \in Held
  PROVE  Forward(c, Read(c, Signal(s)), 128)
<1>1. 7 * WidthNN(s) + 68 \in Nat /\ 7 * WidthNN(s) + 68 <= 128
  BY WordIs
<1>2. Forward(c, Read(c, Signal(s)), 7 * WidthNN(s) + 68)
  BY SignalTakes, ReadTakes
<1> QED BY <1>1, <1>2, ForwardLess

\* Behind leaves the cursor where the note ends, however far the fields went in
\* it: the padding of the owner is three bytes.
LEMMA BehindIs ==
  ASSUME NEW c, NEW d, NEW m \in Nat, Forward(c, d, m), NEW h \in Header
  PROVE  /\ Behind(c.cpos, d, h) \in Held /\ Behind(c.cpos, d, h).epos = c.epos
         /\ Behind(c.cpos, d, h).cpos = c.cpos + h.descsz + 3
         /\ m <= h.descsz + 3 /\ Sound(c) => Sound(Behind(c.cpos, d, h))
<1> DEFINE p == c.cpos + h.descsz + 3
           b == Behind(c.cpos, d, h)
<1>1. c.cpos \in Nat /\ d.cpos \in Nat /\ c.epos \in Int /\ d \in Cursor /\ h.descsz \in Nat /\ d.epos = c.epos
  BY DEF Forward, Held, Cursor, Header
<1>2. p \in Nat /\ d.cpos + (h.descsz - (d.cpos - c.cpos) + 3) = p
  BY <1>1
<1>3. b = fmove(d, p)
  BY <1>2 DEF Behind, fstep
<1> HIDE DEF p, b
<1>4. b \in Held /\ b.cpos = p /\ b.epos = d.epos /\ (b.item <=> (d.item /\ p <= d.epos))
  BY <1>1, <1>2, <1>3, MoveIs
<1>5. ASSUME m <= h.descsz + 3, Sound(c) PROVE Sound(b)
  <2>1. Sound(d) /\ d.cpos <= p
    BY <1>1, <1>5 DEF Forward, p
  <2> QED BY <1>1, <1>2, <1>4, <2>1 DEF Sound
<1> QED BY <1>1, <1>4, <1>5 DEF p, b

-----------------------------------------------------------------------------
(***************************************************************************)
(* The segment: where its notes start.                                     *)
(***************************************************************************)
LEMMA PaddedIs ==
  ASSUME NEW n \in Nat
  PROVE  /\ Padded(n) \in Nat /\ n <= Padded(n)
         /\ n % 4 = 0 => Padded(n) = n
         /\ n \in {5, 6} => Padded(n) = 8
BY DEF Padded

LEMMA LengthIs ==
  ASSUME NEW note \in Header
  PROVE  Length(note) \in Nat /\ NHDR <= Length(note)
BY PaddedIs DEF Length, Header, NHDR

LEMMA SegmentTyped ==
  ASSUME NEW s \in Segments
  PROVE  /\ s.notes \in Seq(Header) /\ Len(s.notes) \in Nat /\ s.bits \in {32, 64}
         /\ \A i \in 1 .. Len(s.notes) : s.notes[i] \in Header
BY SegmentsAssumption

\* Each note starts where the one before ends.
LEMMA StartAdds ==
  ASSUME NEW s \in Segments
  PROVE  /\ StartOf(s, 1) = 0
         /\ \A i \in 1 .. Len(s.notes) : StartOf(s, i + 1) = StartOf(s, i) + Length(s.notes[i])
         /\ \A i \in 1 .. Len(s.notes) + 1 : StartOf(s, i) \in Int
<1> DEFINE n == Len(s.notes) + 1
           long == [j \in 1 + 1 .. n |-> Length(s.notes[j - 1])]
           Eq(k, f) == f = [j \in 1 .. k |-> IF j = 1 THEN 0 ELSE f[j - 1] + Length(s.notes[j - 1])]
           E(k) == CHOOSE f : Eq(k, f)
           S == [k \in 1 .. n |-> E(k)]
<1>1. n \in Nat /\ 1 <= n /\ \A j \in 1 + 1 .. n : long[j] \in Int /\ long[j] = Length(s.notes[j - 1])
  <2>1. \A j \in 1 + 1 .. n : j - 1 \in 1 .. Len(s.notes)
    BY SegmentTyped
  <2> QED BY <2>1, SegmentTyped, LengthIs
<1> HIDE DEF long
<1>2. ASSUME NEW k PROVE StartOf(s, k) = E(k)[k]
  BY DEF StartOf
<1>3. ASSUME NEW k \in 1 .. n PROVE Sums(E(k), 1, k, long)
  <2> DEFINE v == [j \in 1 + 1 .. k |-> long[j]]
  <2>1. v \in [1 + 1 .. k -> Int] /\ 1 \in Int /\ k \in Int /\ 1 <= k
    BY <1>1
  <2>2. \A j \in 1 + 1 .. k : v[j] = long[j] /\ v[j] = Length(s.notes[j - 1])
    BY <1>1
  <2> HIDE DEF v
  <2>3. \A f : IsSum(f, 1, k, v) <=> Eq(k, f)
    <3>1. \A j \in 1 .. k : j # 1 => v[j] = Length(s.notes[j - 1])
      BY <2>2
    <3> QED BY <3>1 DEF IsSum
  <2>4. Eq(k, E(k))
    <3>1. \E f : IsSum(f, 1, k, v)
      BY <2>1, SumExists
    <3> HIDE DEF Eq
    <3> QED BY <2>3, <3>1
  <2>5. IsSum(E(k), 1, k, v)
    BY <2>3, <2>4
  <2> HIDE DEF E
  <2>6. Sums(E(k), 1, k, v)
    BY <2>1, <2>5, SumIs
  <2> QED BY <2>2, <2>6 DEF Sums
<1>4. \A k \in 1 .. n : S[k] = E(k)
  OBVIOUS
<1> HIDE DEF E, S
<1>5. \A k \in 1 .. n : Sums(S[k], 1, k, long)
  BY <1>3, <1>4
<1>6. /\ S[1][1] = 0
      /\ \A k \in 1 + 1 .. n : S[k][k] = S[k - 1][k - 1] + long[k]
      /\ \A k \in 1 .. n : S[k][k] \in Int
  <2>1. 1 \in Int /\ n \in Int /\ 1 <= n
    BY <1>1
  <2> HIDE DEF n
  <2> QED BY <1>5, <2>1, SumsAdd
<1>7. \A k \in 1 .. n : StartOf(s, k) = S[k][k]
  BY <1>2, <1>4
<1>8. ASSUME NEW i \in 1 .. Len(s.notes) PROVE StartOf(s, i + 1) = StartOf(s, i) + Length(s.notes[i])
  <2>1. i \in 1 .. n /\ i + 1 \in 1 .. n /\ i + 1 \in 1 + 1 .. n /\ (i + 1) - 1 = i
    BY <1>1
  <2> HIDE DEF n
  <2> QED BY <1>1, <1>6, <1>7, <2>1
<1>9. 1 \in 1 .. n
  BY <1>1
<1>10. StartOf(s, 1) = 0
  BY <1>6, <1>7, <1>9
<1>11. \A i \in 1 .. n : StartOf(s, i) \in Int
  BY <1>6, <1>7
<1> QED BY <1>8, <1>10, <1>11

\* The notes lie one behind the other.
LEMMA NotesApart ==
  ASSUME NEW s \in Segments, NEW i \in 1 .. Len(s.notes) + 1
  PROVE  /\ \A j \in i .. Len(s.notes) + 1 : StartOf(s, i) <= StartOf(s, j)
         /\ \A j \in i + 1 .. Len(s.notes) + 1 : StartOf(s, i) + NHDR <= StartOf(s, j)
<1> DEFINE n == Len(s.notes)
           T == {j \in i .. n + 1 : StartOf(s, i) <= StartOf(s, j) /\ (j # i => StartOf(s, i) + NHDR <= StartOf(s, j))}
<1>1. n \in Nat /\ i \in Int /\ n + 1 \in Int /\ (\A j \in 1 .. n : Length(s.notes[j]) \in Nat /\ NHDR <= Length(s.notes[j]))
  BY SegmentTyped, LengthIs
<1>2. /\ \A j \in 1 .. n + 1 : StartOf(s, j) \in Int
      /\ \A j \in 1 .. n : StartOf(s, j + 1) = StartOf(s, j) + Length(s.notes[j])
  BY StartAdds
<1> HIDE DEF n
<1>3. i <= n + 1 => i \in T
  BY <1>1, <1>2 DEF n
<1>4. ASSUME NEW j \in i .. (n + 1) - 1, j \in T PROVE j + 1 \in T
  <2>1. j \in 1 .. n /\ j \in 1 .. n + 1 /\ i \in 1 .. n + 1 /\ j + 1 \in i .. n + 1
    BY <1>1 DEF n
  <2>2. StartOf(s, j) \in Int /\ StartOf(s, i) \in Int /\ Length(s.notes[j]) \in Nat /\ NHDR <= Length(s.notes[j])
        /\ StartOf(s, j + 1) = StartOf(s, j) + Length(s.notes[j]) /\ StartOf(s, i) <= StartOf(s, j)
    BY <1>1, <1>2, <1>4, <2>1
  <2>3. StartOf(s, i) + NHDR <= StartOf(s, j + 1) /\ StartOf(s, i) <= StartOf(s, j + 1)
    BY <2>2 DEF NHDR
  <2> QED BY <2>1, <2>3
<1> HIDE DEF T
<1>5. i .. n + 1 \subseteq T
  BY <1>1, <1>3, <1>4, Upwards
<1>6. ASSUME NEW j \in i .. n + 1 PROVE StartOf(s, i) <= StartOf(s, j)
  BY <1>5 DEF T
<1>7. ASSUME NEW j \in i + 1 .. n + 1 PROVE StartOf(s, i) + NHDR <= StartOf(s, j)
  <2>1. j \in i .. n + 1 /\ j # i
    BY <1>1
  <2> QED BY <1>5, <2>1 DEF T
<1> QED BY <1>6, <1>7 DEF n

\* At the start of a note its header is read, elsewhere a header all the same.
LEMMA HeadersThere ==
  ASSUME NEW s \in Segments
  PROVE  /\ \A pos : HeadersAt(s, pos) \subseteq Header
         /\ \A i \in 1 .. Len(s.notes) : HeadersAt(s, StartOf(s, i)) = {s.notes[i]}
<1>1. \A i \in 1 .. Len(s.notes) : s.notes[i] \in Header
  BY SegmentTyped
<1>2. ASSUME NEW pos PROVE HeadersAt(s, pos) \subseteq Header
  BY <1>1, SegmentsAssumption DEF HeadersAt
<1>3. ASSUME NEW i \in 1 .. Len(s.notes) PROVE HeadersAt(s, StartOf(s, i)) = {s.notes[i]}
  <2>1. ASSUME NEW j \in 1 .. Len(s.notes), NEW k \in 1 .. Len(s.notes), j < k
        PROVE  StartOf(s, j) # StartOf(s, k)
    <3>1. j \in 1 .. Len(s.notes) + 1 /\ k \in j + 1 .. Len(s.notes) + 1 /\ k \in 1 .. Len(s.notes) + 1
      BY <2>1, SegmentTyped
    <3>2. StartOf(s, j) + NHDR <= StartOf(s, k) /\ StartOf(s, j) \in Int
      BY <3>1, NotesApart, StartAdds
    <3> QED BY <3>2 DEF NHDR
  <2>2. \A j \in 1 .. Len(s.notes) : StartOf(s, j) = StartOf(s, i) => j = i
    <3>1. \A j \in 1 .. Len(s.notes) : j < i \/ i < j \/ j = i
      BY SegmentTyped
    <3> QED BY <2>1, <3>1
  <2>3. StartOf(s, i) \in Starts(s)
    BY DEF Starts
  <2>4. {j \in 1 .. Len(s.notes) : StartOf(s, j) = StartOf(s, i)} = {i}
    BY <2>2
  <2> QED BY <2>3, <2>4 DEF HeadersAt
<1> QED BY <1>2, <1>3

-----------------------------------------------------------------------------
(***************************************************************************)
(* The inductive invariant.  NotesInStep says where headers were read; it  *)
(* takes where the cursor is, behind the last of them, and that it is live *)
(* exactly while there is a next one, to say where the next one is read.   *)
(***************************************************************************)
\* Every segment: the cursor is behind the header read last.
Typed == /\ seg \in Segments /\ detailed \in BOOLEAN /\ cur \in Held
         /\ heads \in Seq(Nat)
         /\ \A i \in 2 .. Len(heads) : heads[i - 1] < heads[i]
         /\ heads # << >> => heads[Len(heads)] < cur.cpos
         /\ reads.from \in Int /\ reads.upto \in Int

\* Segments of regular notes.
InStep == AllRegular(seg) =>
            /\ Len(heads) <= Len(seg.notes)
            /\ \A i \in 1 .. Len(heads) : heads[i] = StartOf(seg, i)
            /\ cur.cpos = StartOf(seg, Len(heads) + 1)
            /\ cur.epos = StartOf(seg, Len(seg.notes) + 1) - 1
            /\ Sound(cur)

IInv == Typed /\ InStep /\ ReadsStayInNote

LEMMA InitIInv == Init => IInv
<1> SUFFICES ASSUME Init PROVE IInv
  OBVIOUS
<1> DEFINE N == Len(seg.notes)
           z == StartOf(seg, N + 1)
           b == z > 0
<1>1. seg \in Segments /\ N \in Nat /\ 1 \in 1 .. N + 1 /\ N + 1 \in 1 .. N + 1
  BY SegmentTyped DEF Init
<1>2. z \in Int /\ StartOf(seg, 1) = 0
  BY <1>1, StartAdds
<1>3. 0 <= z
  BY <1>1, <1>2, NotesApart
<1>4. cur = [item |-> b, cpos |-> 0, epos |-> z - 1]
  BY DEF Init, fmalloc
<1> HIDE DEF N, z, b
<1>5. b \in BOOLEAN /\ (b <=> z > 0)
  BY DEF b
<1>6. cur \in Held /\ Sound(cur) /\ cur.cpos = 0 /\ cur.epos = z - 1
  BY <1>2, <1>3, <1>4, <1>5 DEF Held, Cursor, Sound
<1>7. heads = << >> /\ heads \in Seq(Nat) /\ Len(heads) = 0 /\ reads.from = 0 /\ reads.upto = 0
  BY DEF Init
<1>8. Typed
  BY <1>1, <1>6, <1>7 DEF Init, Typed
<1>9. InStep
  BY <1>1, <1>2, <1>6, <1>7 DEF InStep, N, z
<1>10. ReadsStayInNote
  BY <1>7 DEF ReadsStayInNote
<1> QED BY <1>8, <1>9, <1>10 DEF IInv

\* The header that a handler gets, and the cursor behind the name.
LEMMA HeaderIs ==
  ASSUME IInv, Gets(cur, NHDR), NEW h \in HeadersAt(seg, cur.cpos),
         NEW c, c = fgetp(fgetp(cur, NHDR), h.namesz)
  PROVE  /\ h \in Header /\ c \in Held /\ c.epos = cur.epos /\ cur.cpos + NHDR <= c.cpos
         /\ AllRegular(seg) =>
              /\ Len(heads) < Len(seg.notes)
              /\ h = seg.notes[Len(heads) + 1] /\ Regular(seg, h)
              /\ c.cpos = cur.cpos + NHDR + h.namesz /\ Sound(c) /\ c.item
              /\ cur.cpos + Length(h) <= cur.epos + 1
<1> DEFINE N == Len(seg.notes)
           n == Len(heads)
           g == fgetp(cur, NHDR)
<1>1. seg \in Segments /\ cur \in Held /\ cur.item /\ cur.cpos + NHDR <= cur.epos + 1 /\ n \in Nat
  BY DEF IInv, Typed, Gets
<1>2. h \in Header /\ h.namesz \in Nat /\ h.descsz \in Nat
  BY <1>1, HeadersThere DEF Header
<1>3. cur.cpos \in Nat /\ cur.epos \in Int /\ cur \in Cursor /\ NHDR = 12
  BY <1>1 DEF Held, Cursor, NHDR
<1>4. /\ g \in Held /\ g.cpos = cur.cpos + NHDR /\ g.epos = cur.epos
      /\ g.item <=> (cur.cpos + NHDR <= cur.epos)
  <2>1. cur.cpos + NHDR \in Nat /\ g = fmove(cur, cur.cpos + NHDR)
    BY <1>1, <1>3 DEF fgetp
  <2> QED BY <1>1, <1>3, <2>1, MoveIs
<1>5. c = fgetp(g, h.namesz)
  OBVIOUS
<1> HIDE DEF g
<1>6. Forward(g, c, h.namesz)
  BY <1>2, <1>4, <1>5, GetForward
<1>7. c \in Held /\ c.epos = cur.epos /\ cur.cpos + NHDR <= c.cpos
  BY <1>4, <1>6 DEF Forward
<1>8. ASSUME AllRegular(seg)
      PROVE  /\ n < N
             /\ h = seg.notes[n + 1] /\ Regular(seg, h)
             /\ c.cpos = cur.cpos + NHDR + h.namesz /\ Sound(c) /\ c.item
             /\ cur.cpos + Length(h) <= cur.epos + 1
  <2>1. /\ n <= N /\ cur.cpos = StartOf(seg, n + 1) /\ cur.epos = StartOf(seg, N + 1) - 1 /\ N \in Nat
    BY <1>1, <1>8, SegmentTyped DEF IInv, InStep
  <2>2. n < N
    <3>1. CASE n = N
      BY <1>3, <1>1, <2>1, <3>1
    <3> QED BY <1>1, <2>1, <3>1
  <2>3. n + 1 \in 1 .. N /\ n + 2 \in 1 .. N + 1 /\ (n + 1) + 1 = n + 2 /\ N + 1 \in n + 2 .. N + 1
    BY <1>1, <2>1, <2>2
  <2>4. h = seg.notes[n + 1]
    BY <1>1, <2>1, <2>3, HeadersThere
  <2>5. Regular(seg, h)
    BY <1>8, <2>3, <2>4 DEF AllRegular
  <2>6. StartOf(seg, n + 2) = cur.cpos + Length(h)
    <3>1. StartOf(seg, (n + 1) + 1) = StartOf(seg, n + 1) + Length(seg.notes[n + 1])
      BY <1>1, <2>3, StartAdds
    <3> QED BY <2>1, <2>3, <2>4, <3>1
  <2>7. StartOf(seg, n + 2) <= StartOf(seg, N + 1)
    BY <1>1, <2>3, NotesApart
  <2>8. cur.cpos + Length(h) <= cur.epos + 1
    <3>1. Length(h) \in Nat /\ StartOf(seg, N + 1) = cur.epos + 1
      <4>1. N + 1 \in 1 .. N + 1
        BY <2>1
      <4>2. StartOf(seg, N + 1) \in Int
        BY <1>1, <4>1, StartAdds
      <4> QED BY <1>2, <1>3, <2>1, <4>2, LengthIs
    <3> QED BY <1>3, <2>6, <2>7, <3>1
  <2>9. h.namesz \in {5, 6} /\ Padded(h.namesz) = 8 /\ NHDR + 8 <= Length(h) /\ Length(h) \in Nat
    <3>1. h.namesz \in {5, 6}
      BY <2>5 DEF Regular
    <3>2. Padded(h.namesz) = 8 /\ Padded(h.descsz) \in Nat
      BY <1>2, <3>1, PaddedIs
    <3> QED BY <1>3, <3>1, <3>2 DEF Length
  <2>10. g.cpos + h.namesz <= g.epos /\ g.item
    BY <1>3, <1>4, <2>8, <2>9
  <2>11. c = fmove(g, g.cpos + h.namesz) /\ g.cpos + h.namesz \in Nat
    BY <1>2, <1>3, <1>4, <1>5, <2>10 DEF fgetp
  <2>12. c.cpos = g.cpos + h.namesz /\ c.epos = g.epos /\ c.item
    <3>1. g \in Cursor
      BY <1>4 DEF Held
    <3> QED BY <2>10, <2>11, <3>1, MoveIs
  <2>13. c.cpos = cur.cpos + NHDR + h.namesz /\ Sound(c)
    BY <1>2, <1>3, <1>4, <2>10, <2>12 DEF Sound
  <2> QED BY <2>2, <2>4, <2>5, <2>8, <2>12, <2>13
<1> QED BY <1>2, <1>7, <1>8

\* What a handler does with the header h: it leaves the cursor behind it, and in
\* step when the notes are regular.
Handled(h) == /\ cur' \in Held /\ cur'.epos = cur.epos /\ cur.cpos < cur'.cpos
              /\ reads'.from \in Int /\ reads'.upto \in Int
              /\ AllRegular(seg) =>
                   /\ cur'.cpos = cur.cpos + Length(h) /\ Sound(cur')
                   /\ reads'.upto <= h.descsz
                   /\ (seg.bits = 64 /\ reads'.type = "FILE" /\ reads'.strings # Nothing)
                        => /\ reads'.strings.from = DescAt(h, cur.cpos) + 16 + 24 * h.count
                           /\ reads'.strings.from + reads'.strings.size = DescAt(h, cur.cpos) + h.descsz

LEMMA HandledKeeps ==
  ASSUME IInv, Gets(cur, NHDR), NEW h \in HeadersAt(seg, cur.cpos), Handled(h),
         heads' = Append(heads, cur.cpos), UNCHANGED <<seg, detailed>>
  PROVE  IInv'
<1> DEFINE n == Len(heads)
           c == fgetp(fgetp(cur, NHDR), h.namesz)
<1>1. /\ heads \in Seq(Nat) /\ cur.cpos \in Nat /\ n \in Nat /\ seg \in Segments
  BY DEF IInv, Typed, Held, Cursor
<1>2. /\ heads' \in Seq(Nat) /\ Len(heads') = n + 1 /\ heads'[n + 1] = cur.cpos
      /\ \A i \in 1 .. n : heads'[i] = heads[i]
  BY <1>1
<1>3. Typed'
  <2>1. ASSUME NEW i \in 2 .. n + 1 PROVE heads'[i - 1] < heads'[i]
    <3>1. CASE i = n + 1
      <4>1. n \in 1 .. n /\ i - 1 = n /\ heads # << >>
        BY <1>1, <3>1
      <4>2. heads[n] < cur.cpos
        BY <4>1 DEF IInv, Typed
      <4> QED BY <1>2, <3>1, <4>1, <4>2
    <3>2. CASE i # n + 1
      <4>1. i \in 2 .. n /\ i \in 1 .. n /\ i - 1 \in 1 .. n
        BY <1>1, <3>2
      <4>2. heads[i - 1] < heads[i]
        BY <4>1 DEF IInv, Typed
      <4> QED BY <1>2, <4>1, <4>2
    <3> QED BY <3>1, <3>2
  <2>2. heads'[Len(heads')] < cur'.cpos
    BY <1>2 DEF Handled
  <2>3. detailed \in BOOLEAN
    BY DEF IInv, Typed
  <2> QED BY <1>1, <1>2, <2>1, <2>2, <2>3 DEF Typed, Handled
<1>4. AllRegular(seg) =>
        /\ n < Len(seg.notes) /\ h = seg.notes[n + 1] /\ n + 1 \in 1 .. Len(seg.notes)
        /\ Len(seg.notes) \in Nat
  <2>1. Len(seg.notes) \in Nat
    BY <1>1, SegmentTyped
  <2> QED BY <1>1, <2>1, HeaderIs
<1>5. InStep'
  <2> SUFFICES ASSUME AllRegular(seg)
               PROVE  /\ n + 1 <= Len(seg.notes)
                      /\ \A i \in 1 .. n + 1 : heads'[i] = StartOf(seg, i)
                      /\ cur'.cpos = StartOf(seg, (n + 1) + 1)
                      /\ cur'.epos = StartOf(seg, Len(seg.notes) + 1) - 1
                      /\ Sound(cur')
    BY <1>2 DEF InStep
  <2>1. /\ \A i \in 1 .. n : heads[i] = StartOf(seg, i)
        /\ cur.cpos = StartOf(seg, n + 1)
        /\ cur.epos = StartOf(seg, Len(seg.notes) + 1) - 1
    BY DEF IInv, InStep
  <2>2. StartOf(seg, (n + 1) + 1) = StartOf(seg, n + 1) + Length(h)
    BY <1>1, <1>4, StartAdds
  <2>3. ASSUME NEW i \in 1 .. n + 1 PROVE heads'[i] = StartOf(seg, i)
    <3>1. i = n + 1 \/ i \in 1 .. n
      BY <1>1
    <3> QED BY <1>2, <2>1, <3>1
  <2>4. n + 1 <= Len(seg.notes)
    BY <1>1, <1>4
  <2> QED BY <2>1, <2>2, <2>3, <2>4 DEF Handled
<1>6. ReadsStayInNote'
  <2>1. AllRegular(seg) => h = seg.notes[Len(heads')] /\ heads'[Len(heads')] = cur.cpos
    BY <1>2, <1>4
  <2> QED BY <2>1 DEF ReadsStayInNote, Handled
<1> QED BY <1>3, <1>5, <1>6 DEF IInv

\* A handler whose fields take m bytes, and that goes on as Behind says.
LEMMA BehindMoves ==
  ASSUME IInv, Gets(cur, NHDR), NEW h \in HeadersAt(seg, cur.cpos), h.type # "XSTATE",
         NEW c, c = fgetp(fgetp(cur, NHDR), h.namesz),
         NEW d, NEW m \in Nat, Forward(c, d, m), AllRegular(seg) => m <= h.descsz + 3,
         cur' = Behind(c.cpos, d, h)
  PROVE  /\ cur' \in Held /\ cur'.epos = cur.epos /\ cur.cpos < cur'.cpos
         /\ AllRegular(seg) =>
              /\ cur'.cpos = cur.cpos + Length(h) /\ Sound(cur')
              /\ d.cpos - DescAt(h, cur.cpos) <= h.descsz
              /\ DescAt(h, cur.cpos) = c.cpos + 3
<1>1. /\ h \in Header /\ c \in Held /\ c.epos = cur.epos /\ cur.cpos + NHDR <= c.cpos
      /\ AllRegular(seg) => Regular(seg, h) /\ c.cpos = cur.cpos + NHDR + h.namesz /\ Sound(c)
  BY HeaderIs
<1>2. cur.cpos \in Nat /\ c.cpos \in Nat /\ d.cpos \in Nat /\ h.descsz \in Nat /\ NHDR = 12
  BY <1>1 DEF IInv, Typed, Forward, Held, Cursor, Header, NHDR
<1>3. /\ cur' \in Held /\ cur'.epos = c.epos /\ cur'.cpos = c.cpos + h.descsz + 3
      /\ m <= h.descsz + 3 /\ Sound(c) => Sound(cur')
  BY <1>1, BehindIs
<1>4. cur.cpos < cur'.cpos
  BY <1>1, <1>2, <1>3
<1>5. ASSUME AllRegular(seg)
      PROVE  /\ cur'.cpos = cur.cpos + Length(h) /\ Sound(cur')
             /\ d.cpos - DescAt(h, cur.cpos) <= h.descsz
             /\ DescAt(h, cur.cpos) = c.cpos + 3
  <2>1. h.namesz = 5 /\ Padded(h.namesz) = 8 /\ Padded(h.descsz) = h.descsz
    <3>1. h.namesz = 5 /\ h.descsz % 4 = 0
      BY <1>1, <1>5 DEF Regular
    <3>2. 5 \in Nat
      OBVIOUS
    <3> QED BY <1>2, <3>1, <3>2, PaddedIs
  <2>2. DescAt(h, cur.cpos) = c.cpos + 3 /\ Length(h) = 20 + h.descsz
    BY <1>1, <1>2, <1>5, <2>1 DEF DescAt, Length
  <2>3. d.cpos <= c.cpos + m /\ m <= h.descsz + 3
    BY <1>5 DEF Forward
  <2>4. cur'.cpos = cur.cpos + Length(h)
    BY <1>1, <1>2, <1>3, <1>5, <2>1, <2>2
  <2> QED BY <1>1, <1>2, <1>3, <1>5, <2>2, <2>3, <2>4
<1> QED BY <1>1, <1>3, <1>4, <1>5

LEMMA DescAtIs ==
  ASSUME NEW h \in Header, NEW p \in Nat
  PROVE  DescAt(h, p) \in Int
BY PaddedIs DEF DescAt, Header, NHDR

\* dump_notes5, dump_notes6 and dump_notes7, in brief and in detail.
LEMMA FieldsHandled ==
  ASSUME IInv, Gets(cur, NHDR), NEW h \in HeadersAt(seg, cur.cpos), h.type \notin {"XSTATE", "FILE"},
         NEW c, c = fgetp(fgetp(cur, NHDR), h.namesz),
         NEW d, NEW m \in Nat, Forward(c, d, m), AllRegular(seg) => m <= h.descsz + 3,
         Fields(h, c, d)
  PROVE  Handled(h)
<1> DEFINE e == IF detailed THEN d ELSE c
<1>1. h \in Header /\ c \in Held
  BY HeaderIs
<1>2. h.descsz \in Nat /\ cur.cpos \in Nat /\ c.cpos \in Nat /\ d.cpos \in Nat
  BY <1>1 DEF IInv, Typed, Forward, Held, Cursor, Header
<1>3. Forward(c, e, m)
  <2>1. Forward(c, c, m)
    BY <1>1, <1>2 DEF Forward
  <2> QED BY <2>1
<1>4. cur' = Behind(c.cpos, e, h)
  BY DEF Fields
<1>5. reads' = [type |-> h.type, from |-> c.cpos - DescAt(h, cur.cpos),
                upto |-> e.cpos - DescAt(h, cur.cpos), strings |-> Nothing]
  BY DEF Fields, Note
<1>6. e.cpos \in Nat
  BY <1>2
<1> HIDE DEF e
<1>7. /\ cur' \in Held /\ cur'.epos = cur.epos /\ cur.cpos < cur'.cpos
      /\ AllRegular(seg) =>
           /\ cur'.cpos = cur.cpos + Length(h) /\ Sound(cur')
           /\ e.cpos - DescAt(h, cur.cpos) <= h.descsz
  BY <1>3, <1>4, BehindMoves
<1>8. DescAt(h, cur.cpos) \in Int
  BY <1>1, <1>2, DescAtIs
<1>9. reads'.from \in Int /\ reads'.upto \in Int /\ reads'.type # "FILE"
      /\ reads'.upto = e.cpos - DescAt(h, cur.cpos)
  BY <1>2, <1>5, <1>6, <1>8
<1> QED BY <1>7, <1>9 DEF Handled

LEMMA ShortHeaderKeeps == IInv /\ ShortHeader => IInv'
<1> SUFFICES ASSUME IInv, ShortHeader PROVE IInv'
  OBVIOUS
<1> DEFINE N == Len(seg.notes)
           n == Len(heads)
<1>1. cur \in Held /\ cur.item /\ seg \in Segments /\ n \in Nat /\ NHDR \in Nat
      /\ UNCHANGED <<seg, detailed, heads, reads>> /\ cur' = fgetp(cur, NHDR)
  BY DEF IInv, Typed, ShortHeader, Alive, NHDR
<1>2. cur.cpos \in Nat /\ cur.epos \in Int /\ N \in Nat
  BY <1>1, SegmentTyped DEF Held, Cursor
<1>3. Forward(cur, cur', NHDR)
  BY <1>1, GetForward
<1>4. ~AllRegular(seg)
  <2> SUFFICES ASSUME AllRegular(seg) PROVE FALSE
    OBVIOUS
  <2>1. /\ n <= N /\ cur.cpos = StartOf(seg, n + 1) /\ cur.epos = StartOf(seg, N + 1) - 1
    BY DEF IInv, InStep
  <2>2. cur.cpos <= cur.epos /\ ~(cur.cpos + NHDR <= cur.epos + 1)
    BY <1>1 DEF Held, ShortHeader, Gets
  <2>3. N + 1 \in 1 .. N + 1 /\ n + 1 \in 1 .. N + 1
    BY <1>1, <1>2, <2>1
  <2>4. StartOf(seg, N + 1) \in Int
    BY <1>1, <2>3, StartAdds
  <2>5. CASE n < N
    <3>1. N + 1 \in (n + 1) + 1 .. N + 1
      BY <1>1, <1>2, <2>5
    <3>2. StartOf(seg, n + 1) + NHDR <= StartOf(seg, N + 1)
      BY <1>1, <2>3, <3>1, NotesApart
    <3> QED BY <1>1, <1>2, <2>1, <2>2, <2>4, <3>2
  <2>6. CASE n = N
    BY <1>2, <2>1, <2>2, <2>4, <2>6
  <2> QED BY <1>1, <1>2, <2>1, <2>5, <2>6
<1>5. Typed'
  <2>1. heads # << >> => heads[Len(heads)] < cur'.cpos
    <3>1. heads # << >> => Len(heads) \in 1 .. Len(heads) /\ heads[Len(heads)] \in Nat
      BY DEF IInv, Typed
    <3>2. cur.cpos <= cur'.cpos /\ cur' \in Held /\ cur'.cpos \in Nat
      BY <1>3 DEF Forward, Held, Cursor
    <3> QED BY <1>2, <3>1, <3>2 DEF IInv, Typed
  <2> QED BY <1>1, <1>3, <2>1 DEF IInv, Typed, Forward
<1> QED BY <1>1, <1>4, <1>5 DEF IInv, InStep, ReadsStayInNote

LEMMA PrStatusKeeps == IInv /\ PrStatus => IInv'
<1> SUFFICES ASSUME IInv, PrStatus PROVE IInv'
  OBVIOUS
<1> DEFINE at(h) == fgetp(fgetp(cur, NHDR), h.namesz)
<1>1. PICK h \in HeadersAt(seg, cur.cpos) :
        Headed(h, {"PRSTATUS"}, at(h)) /\ Fields(h, at(h), Status(seg, at(h)))
  BY DEF PrStatus
<1>2. /\ Gets(cur, NHDR) /\ h.type = "PRSTATUS"
      /\ heads' = Append(heads, cur.cpos) /\ UNCHANGED <<seg, detailed>>
  BY <1>1 DEF Headed
<1>3. at(h) \in Held /\ (AllRegular(seg) => Regular(seg, h)) /\ h \in Header
  BY <1>2, HeaderIs
<1> DEFINE c == at(h)
           d == Status(seg, c)
           m == StatusSize(seg.machine)
<1>4. Forward(c, d, m)
  BY <1>3, StatusForward
<1>5. m \in Nat /\ (AllRegular(seg) => m <= h.descsz + 3)
  <2>1. m \in Nat
    BY DEF StatusSize
  <2>2. KernelSize(seg, h) = m
    BY <1>2 DEF KernelSize
  <2>3. h.descsz \in Nat
    BY <1>3 DEF Header
  <2> HIDE DEF m
  <2> QED BY <1>3, <2>1, <2>2, <2>3 DEF Regular
<1>6. c = fgetp(fgetp(cur, NHDR), h.namesz) /\ Fields(h, c, d)
  BY <1>1
<1> HIDE DEF c, d, m
<1>7. Handled(h)
  BY <1>2, <1>4, <1>5, <1>6, FieldsHandled
<1> QED BY <1>2, <1>7, HandledKeeps

LEMMA PrPsInfoKeeps == IInv /\ PrPsInfo => IInv'
<1> SUFFICES ASSUME IInv, PrPsInfo PROVE IInv'
  OBVIOUS
<1> DEFINE at(h) == fgetp(fgetp(cur, NHDR), h.namesz)
<1>1. PICK h \in HeadersAt(seg, cur.cpos) :
        Headed(h, {"PRPSINFO"}, at(h)) /\ Fields(h, at(h), Process(seg, at(h)))
  BY DEF PrPsInfo
<1>2. /\ Gets(cur, NHDR) /\ h.type = "PRPSINFO"
      /\ heads' = Append(heads, cur.cpos) /\ UNCHANGED <<seg, detailed>>
  BY <1>1 DEF Headed
<1>3. at(h) \in Held /\ (AllRegular(seg) => Regular(seg, h)) /\ h \in Header
  BY <1>2, HeaderIs
<1> DEFINE c == at(h)
           d == Process(seg, c)
           m == ProcessSize(seg.machine)
<1>4. Forward(c, d, m + 3)
  BY <1>3, ProcessForward
<1>5. m + 3 \in Nat /\ (AllRegular(seg) => m + 3 <= h.descsz + 3)
  <2>1. m \in Nat
    BY DEF ProcessSize
  <2>2. KernelSize(seg, h) = m
    BY <1>2 DEF KernelSize
  <2>3. h.descsz \in Nat
    BY <1>3 DEF Header
  <2> HIDE DEF m
  <2> QED BY <1>3, <2>1, <2>2, <2>3 DEF Regular
<1>6. c = fgetp(fgetp(cur, NHDR), h.namesz) /\ Fields(h, c, d)
  BY <1>1
<1> HIDE DEF c, d, m
<1>7. Handled(h)
  BY <1>2, <1>4, <1>5, <1>6, FieldsHandled
<1> QED BY <1>2, <1>7, HandledKeeps

LEMMA SigInfoKeeps == IInv /\ SigInfo => IInv'
<1> SUFFICES ASSUME IInv, SigInfo PROVE IInv'
  OBVIOUS
<1> DEFINE at(h) == fgetp(fgetp(cur, NHDR), h.namesz)
<1>1. PICK h \in HeadersAt(seg, cur.cpos) :
        Headed(h, {"SIGINFO"}, at(h)) /\ Fields(h, at(h), Read(at(h), Signal(seg)))
  BY DEF SigInfo
<1>2. /\ Gets(cur, NHDR) /\ h.type = "SIGINFO"
      /\ heads' = Append(heads, cur.cpos) /\ UNCHANGED <<seg, detailed>>
  BY <1>1 DEF Headed
<1>3. at(h) \in Held /\ (AllRegular(seg) => Regular(seg, h)) /\ h \in Header
  BY <1>2, HeaderIs
<1> DEFINE c == at(h)
           d == Read(c, Signal(seg))
<1>4. Forward(c, d, 128)
  BY <1>3, SignalForward
<1>5. 128 \in Nat /\ (AllRegular(seg) => 128 <= h.descsz + 3)
  <2>1. KernelSize(seg, h) = 128
    BY <1>2 DEF KernelSize
  <2>2. h.descsz \in Nat
    BY <1>3 DEF Header
  <2> QED BY <1>3, <2>1, <2>2 DEF Regular
<1>6. c = fgetp(fgetp(cur, NHDR), h.namesz) /\ Fields(h, c, d)
  BY <1>1
<1> HIDE DEF c, d
<1>7. Handled(h)
  BY <1>2, <1>4, <1>5, <1>6, FieldsHandled
<1> QED BY <1>2, <1>7, HandledKeeps

LEMMA OtherKeeps == IInv /\ Other => IInv'
<1> SUFFICES ASSUME IInv, Other PROVE IInv'
  OBVIOUS
<1> DEFINE at(h) == fgetp(fgetp(cur, NHDR), h.namesz)
<1>1. PICK h \in HeadersAt(seg, cur.cpos) :
        /\ Headed(h, {"other"}, at(h))
        /\ Note(h, at(h).cpos, at(h).cpos, Nothing)
        /\ cur' = Behind(at(h).cpos, at(h), h)
  BY DEF Other
<1>2. /\ Gets(cur, NHDR) /\ h.type = "other"
      /\ heads' = Append(heads, cur.cpos) /\ UNCHANGED <<seg, detailed>>
  BY <1>1 DEF Headed
<1>3. at(h) \in Held /\ h \in Header
  BY <1>2, HeaderIs
<1> DEFINE c == at(h)
<1>4. Forward(c, c, 0) /\ 0 \in Nat /\ (AllRegular(seg) => 0 <= h.descsz + 3)
  BY <1>3 DEF Forward, Held, Cursor, Header
<1>5. c = fgetp(fgetp(cur, NHDR), h.namesz) /\ Fields(h, c, c)
  BY <1>1 DEF Fields
<1> HIDE DEF c
<1>6. Handled(h)
  BY <1>2, <1>4, <1>5, FieldsHandled
<1> QED BY <1>2, <1>6, HandledKeeps

LEMMA XStateKeeps == IInv /\ XState => IInv'
<1> SUFFICES ASSUME IInv, XState PROVE IInv'
  OBVIOUS
<1> DEFINE at(h) == fgetp(fgetp(cur, NHDR), h.namesz)
<1>1. PICK h \in HeadersAt(seg, cur.cpos) :
        /\ Headed(h, {"XSTATE"}, at(h))
        /\ Note(h, at(h).cpos + 2, at(h).cpos + 2 + h.descsz, Nothing)
        /\ cur' = fgetp(fstep(at(h), 2), h.descsz)
  BY DEF XState
<1>2. /\ Gets(cur, NHDR) /\ h.type = "XSTATE"
      /\ heads' = Append(heads, cur.cpos) /\ UNCHANGED <<seg, detailed>>
  BY <1>1 DEF Headed
<1> DEFINE c == at(h)
           d == fstep(c, 2)
<1>3. /\ h \in Header /\ c \in Held /\ c.epos = cur.epos /\ cur.cpos + NHDR <= c.cpos
      /\ AllRegular(seg) =>
           /\ Regular(seg, h)
           /\ c.cpos = cur.cpos + NHDR + h.namesz /\ Sound(c) /\ c.item
           /\ cur.cpos + Length(h) <= cur.epos + 1
  BY <1>2, HeaderIs
<1>4. cur.cpos \in Nat /\ cur.epos \in Int /\ c.cpos \in Nat /\ h.descsz \in Nat /\ NHDR = 12
  BY <1>3 DEF IInv, Typed, Held, Cursor, Header, NHDR
<1>5. Forward(c, d, 2) /\ d \in Held
  BY <1>3, StepForward DEF Forward
<1>6. Forward(d, cur', h.descsz)
  BY <1>1, <1>4, <1>5, GetForward
<1>7. d.cpos = c.cpos + 2 /\ d.epos = c.epos
  <2>1. c \in Cursor /\ c.cpos + 2 \in Nat
    BY <1>3, <1>4 DEF Held
  <2> QED BY <2>1, MoveIs DEF fstep
<1>8. cur' = fgetp(d, h.descsz)
  BY <1>1
<1>9. reads' = [type |-> h.type, from |-> (c.cpos + 2) - DescAt(h, cur.cpos),
                upto |-> (c.cpos + 2 + h.descsz) - DescAt(h, cur.cpos), strings |-> Nothing]
  BY <1>1 DEF Note
<1> HIDE DEF c, d
<1>10. reads'.from \in Int /\ reads'.upto \in Int /\ reads'.type # "FILE"
       /\ reads'.upto = (c.cpos + 2 + h.descsz) - DescAt(h, cur.cpos)
  <2>1. DescAt(h, cur.cpos) \in Int
    BY <1>3, <1>4, DescAtIs
  <2> QED BY <1>2, <1>4, <1>9, <2>1
<1>11. cur' \in Held /\ cur'.epos = cur.epos /\ cur'.cpos \in Nat /\ cur.cpos < cur'.cpos
  <2>1. cur' \in Held /\ cur'.epos = cur.epos /\ d.cpos <= cur'.cpos
    BY <1>3, <1>6, <1>7 DEF Forward
  <2>2. cur'.cpos \in Nat
    BY <2>1 DEF Held, Cursor
  <2> QED BY <1>3, <1>4, <1>7, <2>1, <2>2
<1>12. ASSUME AllRegular(seg)
       PROVE  /\ cur'.cpos = cur.cpos + Length(h) /\ Sound(cur')
              /\ reads'.upto <= h.descsz
  <2>1. h.namesz = 6 /\ Padded(h.namesz) = 8 /\ Padded(h.descsz) = h.descsz
    <3>1. h.namesz = 6 /\ h.descsz % 4 = 0
      BY <1>2, <1>3, <1>12 DEF Regular
    <3>2. 6 \in Nat
      OBVIOUS
    <3> QED BY <1>4, <3>1, <3>2, PaddedIs
  <2>2. DescAt(h, cur.cpos) = cur.cpos + 20 /\ Length(h) = 20 + h.descsz /\ d.cpos = cur.cpos + 20
    BY <1>3, <1>4, <1>7, <1>12, <2>1 DEF DescAt, Length
  <2>3. Sound(d) /\ Sound(cur')
    BY <1>3, <1>5, <1>6, <1>12 DEF Forward
  <2>4. cur'.cpos = cur.cpos + Length(h)
    <3>1. CASE d.item
      <4>1. d.cpos + h.descsz \in Nat /\ d \in Cursor
        BY <1>4, <1>5, <2>2 DEF Held
      <4>2. cur' = fmove(d, d.cpos + h.descsz)
        BY <1>8, <3>1 DEF fgetp
      <4>3. cur'.cpos = d.cpos + h.descsz
        BY <4>1, <4>2, MoveIs
      <4> QED BY <1>4, <2>2, <4>3
    <3>2. CASE ~d.item
      <4>1. cur' = d
        BY <1>8, <3>2 DEF fgetp
      <4>2. ~(d.cpos <= d.epos) /\ d.epos = cur.epos
        BY <1>3, <1>7, <2>3, <3>2 DEF Sound
      <4>3. h.descsz = 0
        BY <1>3, <1>4, <1>12, <2>2, <4>2
      <4> QED BY <1>4, <2>2, <4>1, <4>3
    <3> QED BY <3>1, <3>2
  <2>5. reads'.upto <= h.descsz
    BY <1>4, <1>7, <1>10, <2>2
  <2> QED BY <2>3, <2>4, <2>5
<1>13. Handled(h)
  BY <1>10, <1>11, <1>12 DEF Handled
<1> QED BY <1>2, <1>13, HandledKeeps

\* The head and the table of an NT_FILE note are inside of it.
LEMMA TableFits ==
  ASSUME NEW s \in Segments, NEW h \in Header, h.type = "FILE", Regular(s, h)
  PROVE  (3 + 2 * (s.bits \div 8)) + (h.count * 3) * (s.bits \div 8) <= h.descsz + 3
<1>1. s.bits \div 8 \in {4, 8} /\ h.count \in Nat /\ h.descsz \in Nat
  BY SegmentTyped DEF Header
<1>2. (2 + 3 * h.count) * (s.bits \div 8) <= h.descsz
  BY DEF Regular, KernelSize
<1> DEFINE w == s.bits \div 8
<1> HIDE DEF w
<1>3. CASE w = 4
  BY <1>1, <1>2, <1>3 DEF w
<1>4. CASE w = 8
  BY <1>1, <1>2, <1>4 DEF w
<1> QED BY <1>1, <1>3, <1>4 DEF w

LEMMA FilesKeeps == IInv /\ Files => IInv'
<1> SUFFICES ASSUME IInv, Files PROVE IInv'
  OBVIOUS
<1> DEFINE word == seg.bits \div 8
           c(h) == fgetp(fgetp(cur, NHDR), h.namesz)
           d(h) == Read(fstep(c(h), 3), Copies(2, word))
           e(h) == Read(d(h), Copies(h.count * 3, word))
           l(h) == h.descsz - 3 - (d(h).cpos - (c(h).cpos + 3))
<1>1. PICK h \in HeadersAt(seg, cur.cpos) :
        /\ Headed(h, {"FILE"}, c(h))
        /\ Note(h, c(h).cpos + 3, e(h).cpos, StringsOf(d(h), h, l(h)))
        /\ cur' = fstep(e(h), l(h) - (e(h).cpos - d(h).cpos) + 3)
  BY DEF Files
<1>2. /\ Gets(cur, NHDR) /\ h.type = "FILE"
      /\ heads' = Append(heads, cur.cpos) /\ UNCHANGED <<seg, detailed>>
  BY <1>1 DEF Headed
<1> DEFINE n == c(h)
           b == fstep(n, 3)
           t == d(h)
           u == e(h)
           left == l(h)
           k == h.count * 3
<1>3. /\ h \in Header /\ n \in Held
      /\ AllRegular(seg) => Regular(seg, h)
  BY <1>2, HeaderIs
<1>4. word \in {4, 8} /\ seg \in Segments /\ (seg.bits = 64 => word = 8)
  BY SegmentTyped DEF IInv, Typed
<1>5. k \in Nat /\ h.count \in Nat /\ h.descsz \in Nat /\ n.cpos \in Nat /\ cur.cpos \in Nat /\ n \in Cursor
  BY <1>3 DEF Header, IInv, Typed, Held, Cursor
<1> HIDE DEF k
<1>6. Takes(Copies(2, word), 2 * word) /\ Takes(Copies(k, word), k * word) /\ k * word \in Nat
  <2>1. word \in Nat /\ 2 \in Nat
    BY <1>4
  <2>2. Takes(Copies(2, word), 2 * word) /\ Takes(Copies(k, word), k * word)
    BY <1>5, <2>1, CopiesTake
  <2> QED BY <2>2 DEF Takes
<1>7. n = fgetp(fgetp(cur, NHDR), h.namesz)
  OBVIOUS
<1>8. b = fstep(n, 3) /\ t = Read(b, Copies(2, word)) /\ u = Read(t, Copies(k, word))
  BY DEF k
<1>9. left = h.descsz - 3 - (t.cpos - (n.cpos + 3)) /\ cur' = fstep(u, left - (u.cpos - t.cpos) + 3)
  BY <1>1
<1>10. reads' = [type |-> h.type, from |-> (n.cpos + 3) - DescAt(h, cur.cpos),
                 upto |-> u.cpos - DescAt(h, cur.cpos), strings |-> StringsOf(t, h, left)]
  BY <1>1 DEF Note
<1> HIDE DEF n, b, t, u, left, word
<1>11. Forward(n, b, 3) /\ b \in Held /\ b.cpos = n.cpos + 3
  <2>1. Forward(n, b, 3)
    BY <1>3, <1>8, StepForward
  <2>2. n.cpos + 3 \in Nat
    BY <1>5
  <2> QED BY <1>5, <1>8, <2>1, <2>2, MoveIs DEF Forward, fstep
<1>12. Forward(b, t, 2 * word) /\ t \in Held /\ (t.item => t.cpos = b.cpos + 2 * word)
  <2>1. Copies(2, word) \in Seq(Nat) /\ Total(Copies(2, word)) = 2 * word
    BY <1>6 DEF Takes
  <2> QED BY <1>8, <1>11, <2>1, ReadForward DEF Forward
<1>13. Forward(t, u, k * word) /\ u \in Held
  BY <1>6, <1>8, <1>12, ReadTakes DEF Forward
<1> DEFINE m == (3 + 2 * word) + k * word
<1>14. Forward(n, u, m) /\ m \in Nat
  <2>1. 2 * word \in Nat /\ 3 \in Nat /\ 3 + 2 * word \in Nat
    BY <1>4
  <2>2. Forward(n, t, 3 + 2 * word)
    BY <1>11, <1>12, <2>1, ForwardOn
  <2>3. Forward(n, u, (3 + 2 * word) + k * word)
    BY <1>6, <1>13, <2>1, <2>2, ForwardOn
  <2> QED BY <1>6, <2>1, <2>3
<1>15. AllRegular(seg) => m <= h.descsz + 3
  BY <1>2, <1>3, <1>4, TableFits DEF k, word
<1>16. t.cpos \in Nat /\ u.cpos \in Nat /\ DescAt(h, cur.cpos) \in Int
  BY <1>3, <1>5, <1>12, <1>13, DescAtIs DEF Held, Cursor
<1>17. cur' = Behind(n.cpos, u, h)
  <2>1. left - (u.cpos - t.cpos) + 3 = h.descsz - (u.cpos - n.cpos) + 3
    BY <1>5, <1>9, <1>16
  <2> QED BY <1>9, <2>1 DEF Behind
<1> HIDE DEF m
<1>18. /\ cur' \in Held /\ cur'.epos = cur.epos /\ cur.cpos < cur'.cpos
       /\ AllRegular(seg) =>
            /\ cur'.cpos = cur.cpos + Length(h) /\ Sound(cur')
            /\ u.cpos - DescAt(h, cur.cpos) <= h.descsz
            /\ DescAt(h, cur.cpos) = n.cpos + 3
  <2>1. h.type # "XSTATE"
    BY <1>2
  <2> QED BY <1>2, <1>7, <1>14, <1>15, <1>17, <2>1, BehindMoves
<1>19. /\ reads'.from \in Int /\ reads'.upto \in Int
       /\ reads'.upto = u.cpos - DescAt(h, cur.cpos)
       /\ reads'.strings = StringsOf(t, h, left)
  BY <1>5, <1>10, <1>16
<1>20. ASSUME AllRegular(seg), seg.bits = 64, reads'.strings # Nothing
       PROVE  /\ reads'.strings.from = DescAt(h, cur.cpos) + 16 + 24 * h.count
              /\ reads'.strings.from + reads'.strings.size = DescAt(h, cur.cpos) + h.descsz
  <2>1. /\ t.item
        /\ reads'.strings = [from |-> t.cpos + h.count * 3 * 8, size |-> left - h.count * 3 * 8 + 3]
    BY <1>19, <1>20 DEF StringsOf
  <2>2. t.cpos = DescAt(h, cur.cpos) + 16 /\ left = h.descsz - 3 - 16
    BY <1>4, <1>5, <1>9, <1>11, <1>12, <1>18, <1>20, <2>1
  <2>3. reads'.strings.from = t.cpos + h.count * 3 * 8 /\ reads'.strings.size = left - h.count * 3 * 8 + 3
    BY <2>1
  <2>4. h.count * 3 * 8 = 24 * h.count /\ 24 * h.count \in Nat
    BY <1>5
  <2>5. reads'.strings.from = DescAt(h, cur.cpos) + 16 + 24 * h.count
    BY <2>2, <2>3, <2>4
  <2>6. reads'.strings.size = h.descsz - 16 - 24 * h.count
    BY <1>5, <2>2, <2>3, <2>4
  <2> QED BY <1>5, <1>16, <2>4, <2>5, <2>6
<1>21. Handled(h)
  BY <1>18, <1>19, <1>20 DEF Handled
<1> QED BY <1>2, <1>21, HandledKeeps

LEMMA NextKeepsIInv == IInv /\ [Next]_vars => IInv'
<1>1. IInv /\ UNCHANGED vars => IInv'
  BY DEF vars, IInv, Typed, InStep, ReadsStayInNote
<1> QED BY <1>1, ShortHeaderKeeps, FilesKeeps, XStateKeeps, PrStatusKeeps, PrPsInfoKeeps, SigInfoKeeps,
           OtherKeeps DEF Next

\* Every state of every walk keeps it.
THEOREM AlwaysIInv == Spec => []IInv
<1>1. Init => IInv
  BY InitIInv
<1>2. IInv /\ [Next]_vars => IInv'
  BY NextKeepsIInv
<1> QED BY <1>1, <1>2, PTL DEF Spec

\* The walk of dumpelf_notes64 only goes on, whatever the bytes say.
THEOREM TypeCorrect == Spec => []TypeOK
<1>1. IInv => TypeOK
  BY DEF IInv, Typed, Held, TypeOK
<1> QED BY <1>1, AlwaysIInv, PTL

LEMMA IInvInStep == IInv => NotesInStep
<1> SUFFICES ASSUME IInv, AllRegular(seg)
             PROVE  /\ Len(heads) <= Len(seg.notes)
                    /\ \A i \in 1 .. Len(heads) : heads[i] = StartOf(seg, i)
                    /\ ~Alive => Len(heads) = Len(seg.notes)
  BY DEF NotesInStep
<1> DEFINE N == Len(seg.notes)
           n == Len(heads)
<1>1. /\ n <= N /\ \A i \in 1 .. n : heads[i] = StartOf(seg, i)
      /\ cur.cpos = StartOf(seg, n + 1) /\ cur.epos = StartOf(seg, N + 1) - 1 /\ Sound(cur)
  BY DEF IInv, InStep
<1>2. seg \in Segments /\ n \in Nat /\ N \in Nat /\ cur.cpos \in Nat /\ cur.epos \in Int
  BY SegmentTyped DEF IInv, Typed, Held, Cursor
<1>3. ASSUME n < N PROVE Alive
  <2>1. n + 1 \in 1 .. N + 1 /\ N + 1 \in 1 .. N + 1 /\ N + 1 \in (n + 1) + 1 .. N + 1
    BY <1>2, <1>3
  <2>2. StartOf(seg, n + 1) + NHDR <= StartOf(seg, N + 1) /\ StartOf(seg, N + 1) \in Int
    BY <1>2, <2>1, NotesApart, StartAdds
  <2>3. cur.cpos <= cur.epos
    BY <1>1, <1>2, <2>2 DEF NHDR
  <2> QED BY <1>1, <2>3 DEF Alive, Sound
<1> QED BY <1>1, <1>2, <1>3

\* In a segment of regular notes every header is read where a header is, and
\* none is missed, whatever the machine and the dump: dumpelf_notes64.
THEOREM AlwaysNotesInStep == Spec => []NotesInStep
BY AlwaysIInv, IInvInStep, PTL

\* The fields a handler prints are the note's, and the paths of an NT_FILE note
\* are taken from its string table (dump_notes3 to dump_notes7).
THEOREM AlwaysReadsStayInNote == Spec => []ReadsStayInNote
<1>1. IInv => ReadsStayInNote
  BY DEF IInv
<1> QED BY <1>1, AlwaysIInv, PTL
=============================================================================
