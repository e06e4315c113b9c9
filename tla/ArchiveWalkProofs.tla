-------------------------- MODULE ArchiveWalkProofs --------------------------
(***************************************************************************)
(* What readar finds in an archive, for every archive, every size of its   *)
(* members and every reading of the bytes that are no header.              *)
(***************************************************************************)
EXTENDS ArchiveWalk, NaturalRecursion

-----------------------------------------------------------------------------
(***************************************************************************)
(* The file: where its members start.                                      *)
(***************************************************************************)
\* What is true of the file from the first state on.
FileOK == members \in Archives /\ stray \in Strays /\ lost \in 0 .. 1 /\ (members = << >> => lost = 0)

\* A member, and what is read as one, has a size.
LEMMA FileTyped ==
  ASSUME FileOK
  PROVE  /\ members \in Seq(Member) /\ Len(members) \in Nat /\ DOMAIN members = 1 .. Len(members)
         /\ \A k \in DOMAIN members : members[k] \in Member /\ members[k].size \in Nat
                                      /\ members[k].kind \in Kinds
         /\ stray \in Member
<1>1. members \in Seq(Member) /\ stray \in Member
  BY ArchivesAssumption DEF FileOK
<1>2. Len(members) \in Nat /\ DOMAIN members = 1 .. Len(members) /\ \A k \in DOMAIN members : members[k] \in Member
  BY <1>1
<1> QED BY <1>1, <1>2 DEF Member

\* Whatever lies at a place, it is read as a header with a size.
LEMMA HeaderAtTyped ==
  ASSUME FileOK, NEW pos
  PROVE  HeaderAt(pos).size \in Nat /\ HeaderAt(pos).kind \in Kinds
<1>1. HeaderAt(pos) \in Member
  <2> DEFINE c == CHOOSE k \in DOMAIN members : Start(k) = pos
  <2>1. CASE \E k \in DOMAIN members : Start(k) = pos
    <3>1. c \in DOMAIN members /\ HeaderAt(pos) = members[c]
      BY <2>1 DEF HeaderAt
    <3> HIDE DEF c
    <3> QED BY <3>1, FileTyped
  <2>2. CASE ~\E k \in DOMAIN members : Start(k) = pos
    <3>1. HeaderAt(pos) = stray
      BY <2>2 DEF HeaderAt
    <3> QED BY <3>1, FileTyped
  <2> QED BY <2>1, <2>2
<1> QED BY <1>1 DEF Member

\* A member takes its header, its content and the padding.
LEMMA ExtentAdds ==
  ASSUME FileOK
  PROVE  /\ Extent(0) = 0
         /\ \A k \in 1 .. Len(members) : Extent(k) = Extent(k - 1) + Room(k)
         /\ \A k \in 0 .. Len(members) : Extent(k) \in Int
<1> DEFINE n == Len(members)
           room == [j \in 0 + 1 .. n |-> Room(j)]
           Eq(k, f) == f = [j \in 0 .. k |-> IF j = 0 THEN 0 ELSE f[j - 1] + Room(j)]
           E(k) == CHOOSE f : Eq(k, f)
<1>1. n \in Nat /\ \A j \in 1 .. n : room[j] \in Int /\ room[j] = Room(j)
  BY FileTyped, HAssumption DEF Padded, Room
<1> HIDE DEF room
<1>2. ASSUME NEW k PROVE Extent(k) = E(k)[k]
  BY DEF Extent
<1>3. ASSUME NEW k \in 0 .. n
      PROVE  /\ E(k) \in [0 .. k -> Int] /\ E(k)[0] = 0
             /\ \A j \in 1 .. k : E(k)[j] = E(k)[j - 1] + room[j]
  <2> DEFINE w == [j \in 0 + 1 .. k |-> room[j]]
  <2>1. w \in [0 + 1 .. k -> Int] /\ 0 \in Int /\ k \in Int /\ 0 <= k
    BY <1>1
  <2>2. \A j \in 1 .. k : w[j] = room[j] /\ w[j] = Room(j)
    BY <1>1
  <2> HIDE DEF w
  <2>3. \A f : IsSum(f, 0, k, w) <=> Eq(k, f)
    BY <2>2 DEF IsSum
  <2>4. Eq(k, E(k))
    <3>1. \E f : IsSum(f, 0, k, w)
      BY <2>1, SumExists
    <3> HIDE DEF Eq
    <3> QED BY <2>3, <3>1
  <2>5. IsSum(E(k), 0, k, w)
    BY <2>3, <2>4
  <2> HIDE DEF E
  <2>6. Sums(E(k), 0, k, w)
    BY <2>1, <2>5, SumIs
  <2> QED BY <2>2, <2>6 DEF Sums
<1> HIDE DEF E
<1>4. Extent(0) = 0
  BY <1>1, <1>2, <1>3
<1>5. ASSUME NEW k \in 1 .. n PROVE Extent(k) = Extent(k - 1) + Room(k)
  <2>1. k \in 0 .. n /\ k - 1 \in 0 .. n
    BY <1>1
  <2>2. StayAlike(E(k), E(k - 1), 0, k - 1)
    BY <1>3, <2>1 DEF StayAlike
  <2>3. E(k)[k - 1] = E(k - 1)[k - 1]
    BY <2>1, <2>2, FollowAlike DEF AgreeOn
  <2>4. E(k)[k] = E(k)[k - 1] + Room(k)
    <3>1. k \in 1 .. k
      BY <2>1
    <3> QED BY <1>1, <1>3, <2>1, <3>1
  <2> QED BY <1>2, <2>3, <2>4
<1>6. ASSUME NEW k \in 0 .. n PROVE Extent(k) \in Int
  BY <1>2, <1>3
<1> QED BY <1>4, <1>5, <1>6

\* The members come one behind the other: between the starts of two there is
\* room for a header at least, and every one ends at the end or before it.
LEMMA MembersApart ==
  ASSUME FileOK
  PROVE  /\ \A k \in 1 .. Len(members) : Start(k) \in Nat /\ Extent(k) = Start(k) + Room(k)
         /\ \A k \in 1 .. Len(members) : \A j \in 1 .. k - 1 : Start(j) + H <= Start(k)
         /\ Extent(Len(members)) \in Nat
         /\ \A k \in 1 .. Len(members) : Start(k) + H <= Extent(Len(members))
<1> DEFINE n == Len(members)
<1>1. n \in Nat /\ \A k \in 1 .. n : Room(k) \in Int /\ Room(k) >= H
  BY FileTyped, HAssumption DEF Padded, Room
<1>2. H \in Nat /\ H > 0
  BY HAssumption
<1> HIDE DEF n
<1>3. /\ Extent(0) = 0
      /\ \A k \in 1 .. n : Extent(k) = Extent(k - 1) + Room(k)
      /\ \A k \in 0 .. n : Extent(k) \in Int
  BY ExtentAdds DEF n
<1>4. ASSUME NEW k \in 0 .. n PROVE \A l \in k + 1 .. n : Extent(k) + H <= Extent(l)
  <2> DEFINE T == {l \in k + 1 .. n : Extent(k) + H <= Extent(l)}
  <2>1. k + 1 <= n => k + 1 \in T
    <3> SUFFICES ASSUME k + 1 <= n PROVE Extent(k) + H <= Extent(k + 1)
      OBVIOUS
    <3>1. k + 1 \in 1 .. n /\ (k + 1) - 1 = k
      BY <1>1
    <3>2. Extent(k + 1) = Extent(k) + Room(k + 1)
      BY <1>3, <3>1
    <3> QED BY <1>1, <1>2, <1>3, <3>1, <3>2
  <2>2. ASSUME NEW l \in k + 1 .. n - 1, l \in T PROVE l + 1 \in T
    <3>1. l + 1 \in 1 .. n /\ (l + 1) - 1 = l /\ l + 1 \in k + 1 .. n /\ l \in 0 .. n
      BY <1>1
    <3>2. Extent(l + 1) = Extent(l) + Room(l + 1)
      BY <1>3, <3>1
    <3>3. Extent(l) \in Int /\ Extent(k) \in Int /\ Extent(k) + H <= Extent(l) /\ Room(l + 1) \in Int /\ Room(l + 1) >= H
      BY <1>1, <1>3, <2>2, <3>1
    <3> QED BY <1>2, <3>1, <3>2, <3>3
  <2> HIDE DEF T
  <2>3. k + 1 \in Int /\ n \in Int
    BY <1>1
  <2>4. k + 1 .. n \subseteq T
    BY <2>1, <2>2, <2>3, Upwards
  <2> QED BY <2>4 DEF T
<1>5. \A k \in 0 .. n : Extent(k) \in Nat
  <2> TAKE k \in 0 .. n
  <2>1. CASE k = 0
    BY <1>3, <2>1
  <2>2. CASE k # 0
    <3>1. 0 \in 0 .. n /\ k \in 0 + 1 .. n
      BY <1>1, <2>2
    <3>2. Extent(0) + H <= Extent(k)
      BY <1>4, <3>1
    <3> QED BY <1>2, <1>3, <3>2
  <2> QED BY <2>1, <2>2
<1>6. ASSUME NEW k \in 1 .. n
      PROVE  Start(k) \in Nat /\ Extent(k) = Start(k) + Room(k) /\ Start(k) + H <= Extent(n)
  <2>1. k - 1 \in 0 .. n /\ n \in (k - 1) + 1 .. n
    BY <1>1
  <2>2. Start(k) = Extent(k - 1)
    BY DEF Start
  <2> QED BY <1>3, <1>4, <1>5, <2>1, <2>2
<1>7. ASSUME NEW k \in 1 .. n, NEW j \in 1 .. k - 1 PROVE Start(j) + H <= Start(k)
  <2>1. j - 1 \in 0 .. n /\ k - 1 \in (j - 1) + 1 .. n
    BY <1>1
  <2> QED BY <1>4, <2>1 DEF Start
<1>8. n \in 0 .. n
  BY <1>1
<1> QED BY <1>5, <1>6, <1>7, <1>8 DEF n

\* Where a member starts, its header is read.
LEMMA HeaderAtStart ==
  ASSUME FileOK, NEW k \in 1 .. Len(members)
  PROVE  HeaderAt(Start(k)) = members[k]
<1> DEFINE c == CHOOSE j \in DOMAIN members : Start(j) = Start(k)
<1>1. DOMAIN members = 1 .. Len(members) /\ Len(members) \in Nat
  BY FileTyped
<1>2. c \in 1 .. Len(members) /\ Start(c) = Start(k) /\ HeaderAt(Start(k)) = members[c]
  BY <1>1 DEF HeaderAt
<1> HIDE DEF c
<1>3. ~(c < k)
  <2>1. c < k => Start(c) + H <= Start(k)
    BY <1>1, <1>2, MembersApart
  <2> QED BY <1>1, <1>2, <2>1, MembersApart, HAssumption
<1>4. ~(k < c)
  <2>1. k < c => Start(k) + H <= Start(c)
    BY <1>1, <1>2, MembersApart
  <2> QED BY <1>1, <1>2, <2>1, MembersApart, HAssumption
<1>5. c = k
  BY <1>1, <1>2, <1>3, <1>4
<1> QED BY <1>2, <1>5

-----------------------------------------------------------------------------
(***************************************************************************)
(* The walk over the headers.                                              *)
(***************************************************************************)
\* A walk is at a header, or at none, with the cursor behind it.
Walked == [at : Int, next : [item : BOOLEAN, cpos : Nat, epos : Int]]
Further(w) == IF w.at = NoHeader THEN w ELSE Advance(w)

\* A file that lost a byte had some.
LEMMA LengthTyped ==
  ASSUME FileOK
  PROVE  Length \in Nat
<1>1. Extent(Len(members)) \in Nat /\ lost \in 0 .. 1 /\ (lost = 1 => members # << >>)
  BY MembersApart DEF FileOK
<1>2. ASSUME lost = 1 PROVE Extent(Len(members)) >= 1
  <2>1. members # << >> /\ members \in Seq(Member)
    BY <1>1, <1>2, FileTyped
  <2>2. 1 \in 1 .. Len(members)
    BY <2>1
  <2>3. Start(1) + H <= Extent(Len(members)) /\ Start(1) \in Nat
    BY <2>2, MembersApart
  <2> QED BY <1>1, <2>3, HAssumption
<1> QED BY <1>1, <1>2 DEF Length

\* Moving keeps the end, and the buffer as long as the place is in it.
Place == [item : BOOLEAN, cpos : Nat, epos : Int]

LEMMA MoveTyped ==
  ASSUME NEW c \in Place, NEW n \in Nat
  PROVE  /\ fmove(c, n) \in Place
         /\ fmove(c, n).cpos = n /\ fmove(c, n).epos = c.epos
         /\ fmove(c, n).item <=> c.item /\ n <= c.epos
<1> DEFINE b == c.item /\ n <= c.epos
<1>1. b \in BOOLEAN /\ (b <=> c.item /\ n <= c.epos)
  OBVIOUS
<1>2. fmove(c, n) = [c EXCEPT !.cpos = n, !.item = b]
  BY DEF fmove
<1> HIDE DEF b
<1>3. fmove(c, n) \in Place /\ fmove(c, n).cpos = n /\ fmove(c, n).epos = c.epos /\ fmove(c, n).item = b
  BY <1>1, <1>2 DEF Place
<1> QED BY <1>1, <1>3

\* Reading a header moves the cursor past it, or loses it.
LEMMA HeaderReadTyped ==
  ASSUME NEW c \in Place
  PROVE  /\ HeaderRead(c) \in Walked
         /\ HeaderRead(c).next.epos = c.epos
         /\ HeaderRead(c).next.cpos = IF c.item THEN c.cpos + H ELSE c.cpos
         /\ HeaderRead(c).next.item <=> c.item /\ c.cpos + H <= c.epos
         /\ HeaderRead(c).at = IF c.item /\ c.cpos + H <= c.epos + 1 THEN c.cpos ELSE NoHeader
<1>1. c.cpos \in Nat /\ c.epos \in Int /\ c.cpos + H \in Nat
  BY HAssumption DEF Place
<1>2. /\ HeaderRead(c).next = fgetp(c, H)
      /\ HeaderRead(c).at = IF c.item /\ c.cpos + H <= c.epos + 1 THEN c.cpos ELSE NoHeader
  BY DEF HeaderRead, Gets
<1>3. CASE c.item
  <2>1. fgetp(c, H) = fmove(c, c.cpos + H)
    BY <1>3 DEF fgetp
  <2>2. /\ fgetp(c, H) \in Place /\ fgetp(c, H).cpos = c.cpos + H /\ fgetp(c, H).epos = c.epos
        /\ fgetp(c, H).item <=> c.item /\ c.cpos + H <= c.epos
    BY <1>1, <2>1, MoveTyped
  <2>3. HeaderRead(c) \in Walked
    BY <1>1, <2>2 DEF Walked, Place, NoHeader, HeaderRead
  <2> QED BY <1>2, <1>3, <2>2, <2>3
<1>4. CASE ~c.item
  <2>1. fgetp(c, H) = c
    BY <1>4 DEF fgetp
  <2>2. HeaderRead(c) \in Walked
    BY <1>1, <2>1 DEF Walked, Place, NoHeader, HeaderRead
  <2> QED BY <1>2, <1>4, <2>1, <2>2
<1> QED BY <1>3, <1>4

\* The cursor behind a header and a content of size bytes.
LEMMA StepTyped ==
  ASSUME NEW c \in Place, NEW size \in Nat
  PROVE  /\ fstep(c, size) \in Place
         /\ fstep(c, size).cpos = c.cpos + size /\ fstep(c, size).epos = c.epos
         /\ fstep(c, size).item <=> c.item /\ c.cpos + size <= c.epos
<1>1. c.cpos + size \in Nat
  BY DEF Place
<1> QED BY <1>1, MoveTyped DEF fstep

\* A step of the walk gives a walk.
LEMMA FurtherTyped ==
  ASSUME FileOK, NEW w \in Walked
  PROVE  Further(w) \in Walked
<1>1. w.next \in Place /\ HeaderAt(w.at).size \in Nat
  BY HeaderAtTyped DEF Walked, Place
<1>2. Advance(w) \in Walked
  BY <1>1, StepTyped, HeaderReadTyped DEF Advance
<1> QED BY <1>2 DEF Further

\* The walk starts at the first header.
LEMMA FirstTyped ==
  ASSUME FileOK
  PROVE  /\ fmalloc(Length) \in Place
         /\ fmalloc(Length).cpos = 0 /\ fmalloc(Length).epos = Length - 1 /\ (fmalloc(Length).item <=> Length > 0)
         /\ HeaderRead(fmalloc(Length)) \in Walked
<1> DEFINE n == Length
           b == n > 0
<1>1. n \in Nat /\ b \in BOOLEAN
  BY LengthTyped
<1>2. fmalloc(n) = [item |-> b, cpos |-> 0, epos |-> n - 1]
  BY DEF fmalloc
<1>3. n - 1 \in Int
  BY <1>1
<1> HIDE DEF b, n
<1>4. fmalloc(n) \in Place /\ fmalloc(n).cpos = 0 /\ fmalloc(n).epos = n - 1 /\ fmalloc(n).item = b
  BY <1>1, <1>2, <1>3 DEF Place
<1>5. HeaderRead(fmalloc(n)) \in Walked
  BY <1>4, HeaderReadTyped
<1> QED BY <1>4, <1>5 DEF b, n

\* The walk to an index is the walk to the index before, and one step more.
LEMMA WalkIs ==
  ASSUME FileOK
  PROVE  /\ Walk(1) = HeaderRead(fmalloc(Length))
         /\ \A i \in Nat \ {0} : Walk(i) \in Walked /\ Walk(i + 1) = Further(Walk(i))
<1> DEFINE first == HeaderRead(fmalloc(Length))
           Eq(i, f) == f = [k \in 1 .. i |-> IF k = 1 THEN first ELSE LET w == f[k - 1] IN Further(w)]
           W(i) == CHOOSE f : Eq(i, f)
<1>1. ASSUME NEW i PROVE Walk(i) = W(i)[i]
  BY DEF Walk, Further
<1> HIDE DEF first
<1>2. first \in Walked
  BY FirstTyped DEF first
<1>3. ASSUME NEW i \in Nat \ {0}
      PROVE  /\ W(i)[1] = first /\ \A k \in 2 .. i : W(i)[k] = Further(W(i)[k - 1])
             /\ \A k \in 1 .. i : W(i)[k] \in Walked
  <2> DEFINE step == [k \in 1 + 1 .. i |-> [w \in Walked |-> Further(w)]]
  <2>1. step \in [1 + 1 .. i -> [Walked -> Walked]] /\ 1 \in Int /\ i \in Int /\ 1 <= i
    BY FurtherTyped
  <2>2. \A k \in 1 + 1 .. i : \A w \in Walked : step[k][w] = Further(w)
    OBVIOUS
  <2> HIDE DEF step
  <2>3. PICK f : Follows(f, 1, i, Walked, first, step)
    BY <1>2, <2>1, FollowsExists
  <2>4. /\ f \in [1 .. i -> Walked] /\ f[1] = first
        /\ \A k \in 1 + 1 .. i : f[k] = step[k][f[k - 1]]
    BY <2>3 DEF Follows
  <2>5. \A k \in 2 .. i : f[k] = Further(f[k - 1])
    BY <2>2, <2>4
  <2>6. Eq(i, f)
    BY <2>4, <2>5
  <2>7. Eq(i, W(i))
    <3> HIDE DEF Eq
    <3> QED BY <2>6
  <2> HIDE DEF W
  <2>8. W(i)[1] = first /\ \A k \in 2 .. i : W(i)[k] = Further(W(i)[k - 1])
    BY <2>7
  <2>9. StayAlike(W(i), f, 1, i)
    BY <2>4, <2>5, <2>8 DEF StayAlike
  <2>10. \A k \in 1 .. i : W(i)[k] = f[k]
    BY <2>9, FollowAlike DEF AgreeOn
  <2> QED BY <2>4, <2>8, <2>10
<1> HIDE DEF W
<1>4. Walk(1) = first
  BY <1>1, <1>3
<1>5. ASSUME NEW i \in Nat \ {0} PROVE Walk(i) \in Walked /\ Walk(i + 1) = Further(Walk(i))
  <2>1. i + 1 \in Nat \ {0} /\ i \in 1 .. i /\ i + 1 \in 2 .. i + 1 /\ (i + 1) - 1 = i /\ i \in Int
    OBVIOUS
  <2>2. StayAlike(W(i + 1), W(i), 1, i)
    BY <1>3, <2>1 DEF StayAlike
  <2>3. W(i + 1)[i] = W(i)[i]
    BY <2>1, <2>2, FollowAlike DEF AgreeOn
  <2>4. W(i + 1)[i + 1] = Further(W(i + 1)[i])
    BY <1>3, <2>1
  <2>5. Walk(i) \in Walked
    BY <1>1, <1>3, <2>1
  <2> QED BY <1>1, <2>3, <2>4, <2>5
<1> QED BY <1>4, <1>5 DEF first

\* A walk that reads a header has met one for each index before it.
LEMMA WalkFar ==
  ASSUME FileOK, NEW i \in Nat \ {0}
  PROVE  /\ Walk(i).next.epos = Length - 1
         /\ Walk(i).at # NoHeader =>
              /\ Walk(i).at >= (i - 1) * H /\ Walk(i).at + H <= Length
              /\ Walk(i).next.cpos >= i * H
<1> DEFINE n == Length
           Far(k) == /\ Walk(k).next.epos = n - 1
                     /\ Walk(k).at # NoHeader =>
                          Walk(k).at >= (k - 1) * H /\ Walk(k).at + H <= n /\ Walk(k).next.cpos >= k * H
           T == {k \in 1 .. i : Far(k)}
<1>1. n \in Nat /\ H \in Nat /\ H > 0
  BY LengthTyped, HAssumption
<1>2. 1 \in T
  <2>1. /\ fmalloc(n) \in Place /\ fmalloc(n).cpos = 0 /\ fmalloc(n).epos = n - 1
        /\ Walk(1) = HeaderRead(fmalloc(n))
    BY FirstTyped, WalkIs
  <2> HIDE DEF n
  <2>2. /\ Walk(1).next.epos = n - 1
        /\ Walk(1).next.cpos = IF fmalloc(n).item THEN 0 + H ELSE 0
        /\ Walk(1).at = IF fmalloc(n).item /\ 0 + H <= (n - 1) + 1 THEN 0 ELSE NoHeader
    BY <2>1, HeaderReadTyped
  <2>3. Walk(1).at # NoHeader => Walk(1).at >= (1 - 1) * H /\ Walk(1).at + H <= n /\ Walk(1).next.cpos >= 1 * H
    BY <1>1, <2>2 DEF NoHeader
  <2> QED BY <2>2, <2>3
<1>3. ASSUME NEW k \in 1 .. i - 1, k \in T PROVE k + 1 \in T
  <2>1. k \in Nat \ {0} /\ k + 1 \in 1 .. i
    OBVIOUS
  <2>2. Walk(k) \in Walked /\ Walk(k + 1) = Further(Walk(k)) /\ Far(k)
    BY <1>3, <2>1, WalkIs
  <2> DEFINE w == Walk(k)
             size == HeaderAt(w.at).size
             c == fstep(w.next, size)
  <2>3. w.at \in Int /\ w.next \in Place /\ w.next.cpos \in Nat /\ size \in Nat
    BY <2>2, HeaderAtTyped DEF Walked, Place
  <2>4. c \in Place /\ c.cpos = w.next.cpos + size /\ c.epos = n - 1
    BY <2>2, <2>3, StepTyped
  <2>5. CASE w.at = NoHeader
    <3>1. Walk(k + 1) = w
      BY <2>2, <2>5 DEF Further
    <3> QED BY <2>1, <2>2, <2>5, <3>1
  <2>6. CASE w.at # NoHeader
    <3>1. Walk(k + 1) = HeaderRead(c)
      BY <2>2, <2>6 DEF Further, Advance
    <3>2. w.next.cpos >= k * H
      BY <2>2, <2>6
    <3> HIDE DEF n, w, size, c
    <3>3. /\ Walk(k + 1).next.epos = n - 1
          /\ Walk(k + 1).next.cpos = IF c.item THEN c.cpos + H ELSE c.cpos
          /\ Walk(k + 1).at = IF c.item /\ c.cpos + H <= (n - 1) + 1 THEN c.cpos ELSE NoHeader
      BY <2>4, <3>1, HeaderReadTyped
    <3>4. k * H \in Nat /\ (k + 1) * H = k * H + H /\ ((k + 1) - 1) * H = k * H
      BY <1>1, <2>1
    <3>5. c.cpos >= k * H /\ c.cpos \in Nat
      BY <2>3, <2>4, <3>2, <3>4
    <3>6. Walk(k + 1).at # NoHeader =>
            Walk(k + 1).at >= ((k + 1) - 1) * H /\ Walk(k + 1).at + H <= n /\ Walk(k + 1).next.cpos >= (k + 1) * H
      <4> SUFFICES ASSUME Walk(k + 1).at # NoHeader
                   PROVE  Walk(k + 1).at >= ((k + 1) - 1) * H /\ Walk(k + 1).at + H <= n
                          /\ Walk(k + 1).next.cpos >= (k + 1) * H
        OBVIOUS
      <4>1. c.item /\ c.cpos + H <= (n - 1) + 1 /\ Walk(k + 1).at = c.cpos /\ Walk(k + 1).next.cpos = c.cpos + H
        BY <3>3
      <4> QED BY <1>1, <3>4, <3>5, <4>1
    <3> QED BY <2>1, <3>3, <3>6
  <2> QED BY <2>5, <2>6
<1> HIDE DEF T
<1>4. 1 .. i \subseteq T
  BY <1>2, <1>3, Upwards
<1>5. i \in T
  BY <1>4
<1> QED BY <1>5 DEF T

\* In an archive without padding that has lost nothing, the walk to an index
\* reads the header of that member, and behind the last member none.
LEMMA WalkEven ==
  ASSUME FileOK, Even, NEW i \in Nat \ {0}
  PROVE  Walk(i).at = IF i <= Len(members) THEN Start(i) ELSE NoHeader
<1> DEFINE n == Len(members)
           l == Length
           At0(k) == IF k <= n
                     THEN /\ Walk(k).at = Start(k)
                          /\ Walk(k).next.cpos = Start(k) + H /\ Walk(k).next.epos = l - 1
                          /\ Walk(k).next.item <=> Start(k) + H <= l - 1
                     ELSE Walk(k).at = NoHeader
           T == {k \in 1 .. i : At0(k)}
<1>1. /\ n \in Nat /\ l \in Nat /\ H \in Nat /\ H > 0 /\ l = Extent(n)
      /\ \A k \in 1 .. n : Start(k) \in Nat /\ Start(k) + H <= l
  BY FileTyped, HAssumption, LengthTyped, MembersApart DEF Even, Length
<1>2. \A k \in 1 .. n : members[k].size \in Nat /\ Room(k) = H + members[k].size
  <2> SUFFICES ASSUME NEW k \in 1 .. n PROVE members[k].size \in Nat /\ Room(k) = H + members[k].size
    OBVIOUS
  <2>1. members[k].size \in Nat /\ members[k].size % 2 = 0
    BY FileTyped DEF Even
  <2> QED BY <2>1, <1>1 DEF Room, Padded
<1>3. /\ \A k \in 1 .. n : Extent(k) = Start(k) + H + members[k].size
      /\ \A k \in 1 .. n - 1 : Start(k + 1) = Start(k) + H + members[k].size
      /\ n = 0 => l = 0
      /\ n > 0 => Start(1) = 0
  <2>1. ASSUME NEW k \in 1 .. n PROVE Extent(k) = Start(k) + H + members[k].size
    <3>1. Extent(k) = Start(k) + Room(k) /\ Start(k) \in Nat
      BY MembersApart
    <3> QED BY <1>1, <1>2, <3>1
  <2>2. \A k \in Int : Start(k + 1) = Extent(k)
    <3> TAKE k \in Int
    <3>1. (k + 1) - 1 = k
      OBVIOUS
    <3> QED BY <3>1 DEF Start
  <2>3. Start(1) = 0 /\ Extent(0) = 0
    BY ExtentAdds DEF Start
  <2>4. \A k \in 1 .. n - 1 : Start(k + 1) = Start(k) + H + members[k].size
    <3> TAKE k \in 1 .. n - 1
    <3>1. k \in Int /\ k \in 1 .. n
      BY <1>1
    <3> QED BY <2>1, <2>2, <3>1
  <2>5. n = 0 => l = 0
    BY <1>1, <2>3
  <2> QED BY <2>1, <2>3, <2>4, <2>5
<1>4. 1 \in T
  <2>1. /\ fmalloc(l) \in Place /\ fmalloc(l).cpos = 0 /\ fmalloc(l).epos = l - 1
        /\ fmalloc(l).item <=> l > 0
        /\ Walk(1) = HeaderRead(fmalloc(l))
    BY FirstTyped, WalkIs
  <2> HIDE DEF n, l
  <2>2. /\ Walk(1).next.epos = l - 1
        /\ Walk(1).next.cpos = IF fmalloc(l).item THEN 0 + H ELSE 0
        /\ Walk(1).next.item <=> fmalloc(l).item /\ 0 + H <= l - 1
        /\ Walk(1).at = IF fmalloc(l).item /\ 0 + H <= (l - 1) + 1 THEN 0 ELSE NoHeader
    BY <2>1, HeaderReadTyped
  <2>3. CASE n = 0
    <3>1. Walk(1).at = NoHeader
      BY <1>3, <2>1, <2>2, <2>3
    <3> QED BY <2>3, <3>1
  <2>4. CASE n # 0
    <3>1. Start(1) = 0 /\ H <= l /\ l > 0 /\ 1 <= n
      BY <1>1, <1>3, <2>4
    <3>2. At0(1)
      BY <1>1, <2>1, <2>2, <3>1
    <3> QED BY <3>2
  <2> QED BY <2>3, <2>4
<1>5. ASSUME NEW k \in 1 .. i - 1, k \in T PROVE k + 1 \in T
  <2>1. k \in Nat \ {0} /\ k + 1 \in 1 .. i
    OBVIOUS
  <2>2. Walk(k) \in Walked /\ Walk(k + 1) = Further(Walk(k)) /\ At0(k)
    BY <1>5, <2>1, WalkIs
  <2>3. CASE k > n
    <3>1. Walk(k).at = NoHeader
      BY <1>1, <2>1, <2>2, <2>3
    <3>2. Walk(k + 1) = Walk(k) /\ ~(k + 1 <= n)
      BY <1>1, <2>1, <2>2, <2>3, <3>1 DEF Further
    <3> QED BY <2>1, <3>1, <3>2
  <2>4. CASE k <= n
    <3> DEFINE w == Walk(k)
               size == members[k].size
               c == fstep(w.next, size)
    <3>1. k \in 1 .. n /\ w.next \in Place /\ size \in Nat /\ Start(k) \in Nat
      BY <1>1, <1>2, <2>1, <2>2, <2>4 DEF Walked, Place
    <3>2. /\ w.at = Start(k) /\ w.next.cpos = Start(k) + H /\ w.next.epos = l - 1
          /\ w.next.item <=> Start(k) + H <= l - 1
      BY <2>2, <2>4
    <3>3. HeaderAt(w.at).size = size
      BY <3>1, <3>2, HeaderAtStart
    <3>4. Walk(k + 1) = HeaderRead(c)
      <4>1. w.at # NoHeader
        BY <3>1, <3>2 DEF NoHeader
      <4> QED BY <2>2, <3>3, <4>1 DEF Further, Advance
    <3>5. /\ c \in Place /\ c.cpos = Start(k) + H + size /\ c.epos = l - 1
          /\ c.item <=> Start(k) + H <= l - 1 /\ Start(k) + H + size <= l - 1
      <4>1. /\ c \in Place /\ c.cpos = w.next.cpos + size /\ c.epos = w.next.epos
            /\ c.item <=> w.next.item /\ w.next.cpos + size <= w.next.epos
        BY <3>1, StepTyped
      <4> HIDE DEF c, w, size, l
      <4> QED BY <3>2, <4>1
    <3> HIDE DEF n, l, w, size, c
    <3>6. /\ Walk(k + 1).next.epos = l - 1
          /\ Walk(k + 1).next.cpos = IF c.item THEN c.cpos + H ELSE c.cpos
          /\ Walk(k + 1).next.item <=> c.item /\ c.cpos + H <= l - 1
          /\ Walk(k + 1).at = IF c.item /\ c.cpos + H <= (l - 1) + 1 THEN c.cpos ELSE NoHeader
      BY <3>4, <3>5, HeaderReadTyped
    <3>7. CASE k = n
      <4>1. l = Start(k) + H + size
        BY <1>1, <1>3, <3>1, <3>7 DEF size, n
      <4>2. ~c.item
        BY <1>1, <3>1, <3>5, <4>1
      <4>3. Walk(k + 1).at = NoHeader /\ ~(k + 1 <= n)
        BY <1>1, <3>6, <3>7, <4>2
      <4> QED BY <2>1, <4>3
    <3>8. CASE k < n
      <4>1. k + 1 <= n /\ k \in 1 .. n - 1 /\ k + 1 \in 1 .. n
        BY <1>1, <3>1, <3>8
      <4>2. Start(k + 1) = Start(k) + H + size /\ Start(k + 1) + H <= l
        BY <1>1, <1>3, <4>1 DEF size, n
      <4>3. c.item /\ c.cpos = Start(k + 1)
        BY <1>1, <3>1, <3>5, <4>2
      <4>4. At0(k + 1)
        BY <1>1, <3>1, <3>6, <4>1, <4>2, <4>3
      <4> QED BY <2>1, <4>4
    <3> QED BY <1>1, <2>4, <3>1, <3>7, <3>8
  <2> QED BY <1>1, <2>1, <2>3, <2>4
<1> HIDE DEF T
<1>6. 1 .. i \subseteq T
  BY <1>4, <1>5, Upwards
<1>7. i \in T
  BY <1>6
<1> QED BY <1>7 DEF T

\* The header of an index is at a place, or there is none.
LEMMA HeaderTyped ==
  ASSUME FileOK, NEW i \in Nat
  PROVE  Header(i) \in Nat \cup {NoHeader}
<1>1. CASE i = 0
  BY <1>1 DEF Header
<1>2. CASE i # 0
  <2>1. Walk(i) \in Walked /\ (Walk(i).at # NoHeader => Walk(i).at >= (i - 1) * H)
    BY <1>2, WalkIs, WalkFar
  <2>2. (i - 1) * H \in Nat
    BY <1>2, HAssumption
  <2>3. Walk(i).at \in Int
    BY <2>1 DEF Walked
  <2> QED BY <1>2, <2>1, <2>2, <2>3 DEF Header
<1> QED BY <1>1, <1>2

\* There is room for a header of each index before the one that has one.
LEMMA HeaderFar ==
  ASSUME FileOK, NEW i \in Nat, Header(i) # NoHeader
  PROVE  i <= Length \div H
<1>1. Length \in Nat /\ H \in Nat /\ H > 0
  BY LengthTyped, HAssumption
<1>2. CASE i = 0
  BY <1>1, <1>2
<1>3. CASE i # 0
  <2>1. /\ Walk(i).at >= (i - 1) * H /\ Walk(i).at + H <= Length
        /\ Walk(i).at \in Int
    BY <1>3, WalkFar, WalkIs DEF Header, Walked
  <2>2. (i - 1) * H + H = i * H /\ (i - 1) * H \in Int
    BY <1>1
  <2>3. i * H <= Length
    BY <1>1, <2>1, <2>2
  <2> DEFINE q == Length \div H
  <2>4. q \in Int /\ Length < (q + 1) * H
    BY <1>1
  <2> HIDE DEF q
  <2>5. i * H < (q + 1) * H
    BY <1>1, <2>3, <2>4
  <2>6. i <= q
    BY <1>1, <2>4, <2>5
  <2> QED BY <2>6 DEF q
<1> QED BY <1>2, <1>3

\* The member that index i means.
Meant(i) == IF i = 0 THEN 1 ELSE i

LEMMA HeaderEven ==
  ASSUME FileOK, Even, NEW i \in Nat
  PROVE  Header(i) = IF Meant(i) <= Len(members) THEN Start(Meant(i)) ELSE NoHeader
<1>1. CASE i # 0
  BY <1>1, WalkEven DEF Header, Meant
<1>2. CASE i = 0
  <2>1. Len(members) \in Nat /\ Length = Extent(Len(members)) /\ Start(1) = 0 /\ Extent(0) = 0
    BY FileTyped, ExtentAdds DEF Even, Length, Start
  <2>2. CASE Len(members) = 0
    BY <1>2, <2>1, <2>2, HAssumption DEF Header, Meant
  <2>3. CASE Len(members) # 0
    <3>1. 1 \in 1 .. Len(members)
      BY <2>1, <2>3
    <3>2. Start(1) + H <= Length
      BY <2>1, <3>1, MembersApart
    <3> QED BY <1>2, <2>1, <3>1, <3>2, HAssumption DEF Header, Meant
  <2> QED BY <2>2, <2>3
<1> QED BY <1>1, <1>2

-----------------------------------------------------------------------------
(***************************************************************************)
(* The inductive invariant: the indices before this one all have a header, *)
(* seen holds where, symindex is the last one with a table of names, and   *)
(* what was shown is of one of them.                                       *)
(***************************************************************************)
Kind(i) == HeaderAt(Header(i)).kind

\* t is the index of the closest table of names before i.
TableBefore(t, i) ==
  t \in 0 .. i - 1 /\ Kind(t) = "names" /\ \A u \in t + 1 .. i - 1 : Kind(u) # "names"

IsShown(e, i) ==
  /\ Kind(i) \in {"long", "short"}
  /\ e.at = Header(i) /\ e.len = HeaderAt(Header(i)).size
  /\ e.table # NoHeader => \E t \in 0 .. i - 1 : TableBefore(t, i) /\ e.table = Header(t)

IndexTyped == pc \in {"index", "done"} /\ index \in Nat /\ seen \in Seq(Nat) /\ dumped \in Seq(Elf)
AllSeen    == /\ Len(seen) = index /\ \A j \in 1 .. index : seen[j] = Header(j - 1)
              /\ \A k \in 0 .. index - 1 : Header(k) # NoHeader
SymIndex   == symindex = -1 \/ TableBefore(symindex, index)
AllShown   == \A j \in 1 .. Len(dumped) : \E k \in 0 .. index - 1 : IsShown(dumped[j], k)
AtEnd      == pc = "done" => Header(index) = NoHeader
IInv       == FileOK /\ IndexTyped /\ AllSeen /\ SymIndex /\ AllShown /\ AtEnd

\* A file that does not change is read alike.
LEMMA SameFile ==
  ASSUME UNCHANGED <<members, stray, lost>>
  PROVE  /\ \A i : Header(i)' = Header(i) /\ Kind(i)' = Kind(i)
         /\ \A p : HeaderAt(p)' = HeaderAt(p)
<1>1. \A i : Walk(i)' = Walk(i)
  BY DEF Walk, Extent, Room, Padded, Advance, HeaderAt, Length, Start, HeaderRead
<1>2. Length' = Length
  BY DEF Extent, Room, Padded, Length
<1>3. \A p : HeaderAt(p)' = HeaderAt(p)
  BY DEF Extent, Room, Padded, HeaderAt, Start
<1>4. \A i : Header(i)' = Header(i)
  BY <1>1, <1>2 DEF Header
<1> QED BY <1>3, <1>4 DEF Kind

\* At the start nothing was seen.
LEMMA InitIInv == Init => IInv
<1> SUFFICES ASSUME Init PROVE IInv
  OBVIOUS
<1>1. FileOK
  BY DEF Init, FileOK
<1>2. IndexTyped
  BY DEF Init, IndexTyped
<1>3. AllSeen /\ SymIndex /\ AllShown /\ AtEnd
  BY DEF Init, AllSeen, SymIndex, AllShown, AtEnd
<1> QED BY <1>1, <1>2, <1>3 DEF IInv

\* Every member, of whatever kind, is one more that was seen.
LEMMA MemberSeen ==
  ASSUME IInv, NEW kind, DumpsA(kind)
  PROVE  /\ FileOK' /\ pc' = "index" /\ index' = index + 1 /\ index' \in Nat /\ AllSeen' /\ seen' \in Seq(Nat)
         /\ Header(index) \in Nat /\ Kind(index) = kind
         /\ UNCHANGED <<members, stray, lost>>
<1>1. /\ pc = "index" /\ Header(index) # NoHeader /\ Kind(index) = kind /\ index' = index + 1
      /\ seen' = Append(seen, Header(index)) /\ UNCHANGED <<members, stray, lost, pc>>
  BY DEF DumpsA, At, Kind
<1>2. FileOK /\ index \in Nat /\ seen \in Seq(Nat) /\ Len(seen) = index
  BY DEF IInv, IndexTyped, AllSeen
<1>3. FileOK'
  BY <1>1, <1>2 DEF FileOK
<1>4. Header(index) \in Nat
  BY <1>1, <1>2, HeaderTyped
<1>5. seen' \in Seq(Nat) /\ Len(seen') = index + 1
      /\ \A j \in 1 .. index + 1 : seen'[j] = IF j <= index THEN seen[j] ELSE Header(index)
  BY <1>1, <1>2, <1>4
<1>6. AllSeen'
  <2>1. \A i : Header(i)' = Header(i)
    BY <1>1, SameFile
  <2>2. ASSUME NEW j \in 1 .. index + 1 PROVE seen'[j] = Header(j - 1)
    <3>1. CASE j <= index
      BY <1>2, <1>5, <3>1 DEF IInv, AllSeen
    <3>2. CASE j = index + 1
      <4>1. j - 1 = index /\ ~(j <= index)
        BY <1>2, <3>2
      <4> QED BY <1>5, <4>1
    <3> QED BY <1>2, <3>1, <3>2
  <2>3. ASSUME NEW k \in 0 .. (index + 1) - 1 PROVE Header(k) # NoHeader
    <3>1. k \in 0 .. index - 1 \/ k = index
      BY <1>2
    <3> QED BY <1>1, <3>1 DEF IInv, AllSeen
  <2> QED BY <1>1, <1>5, <2>1, <2>2, <2>3 DEF AllSeen
<1> QED BY <1>1, <1>2, <1>3, <1>4, <1>5, <1>6

\* What was shown stays what it is, and so does the closest table behind
\* members of other kinds.
LEMMA ShownStays ==
  ASSUME IInv, UNCHANGED <<members, stray, lost>>
  PROVE  /\ \A t, i : TableBefore(t, i)' <=> TableBefore(t, i)
         /\ \A e, i : IsShown(e, i)' <=> IsShown(e, i)
         /\ Kind(index) # "names" /\ symindex # -1 => TableBefore(symindex, index + 1)
         /\ \A j \in 1 .. Len(dumped) : \E k \in 0 .. (index + 1) - 1 : IsShown(dumped[j], k)
<1>1. /\ \A i : Header(i)' = Header(i) /\ Kind(i)' = Kind(i)
      /\ \A p : HeaderAt(p)' = HeaderAt(p)
  BY SameFile
<1>2. \A t, i : TableBefore(t, i)' <=> TableBefore(t, i)
  BY <1>1 DEF TableBefore
<1>3. \A e, i : IsShown(e, i)' <=> IsShown(e, i)
  BY <1>1, <1>2 DEF IsShown
<1>4. index \in Nat
  BY DEF IInv, IndexTyped
<1>5. Kind(index) # "names" /\ symindex # -1 => TableBefore(symindex, index + 1)
  BY <1>4 DEF IInv, SymIndex, TableBefore
<1>6. \A j \in 1 .. Len(dumped) : \E k \in 0 .. (index + 1) - 1 : IsShown(dumped[j], k)
  BY <1>4 DEF IInv, AllShown
<1> QED BY <1>2, <1>3, <1>5, <1>6

\* A member of which nothing is shown and that is no table.
LEMMA PlainKeeps ==
  ASSUME IInv, NEW kind, DumpsA(kind), kind # "names", UNCHANGED <<symindex, dumped>>
  PROVE  IInv'
<1>1. /\ FileOK' /\ pc' = "index" /\ index' = index + 1 /\ index' \in Nat /\ AllSeen' /\ seen' \in Seq(Nat)
      /\ Kind(index) = kind /\ UNCHANGED <<members, stray, lost>>
  BY MemberSeen
<1>2. IndexTyped'
  BY <1>1 DEF IInv, IndexTyped
<1>3. SymIndex'
  BY <1>1, ShownStays DEF IInv, SymIndex
<1>4. AllShown'
  BY <1>1, ShownStays DEF IInv, AllShown
<1> QED BY <1>1, <1>2, <1>3, <1>4 DEF IInv, AtEnd

\* A table of long names becomes the closest one.
LEMMA NamesKeeps ==
  ASSUME IInv, DumpNames
  PROVE  IInv'
<1>1. DumpsA("names") /\ symindex' = index /\ UNCHANGED dumped
  BY DEF DumpNames
<1>2. /\ FileOK' /\ pc' = "index" /\ index' = index + 1 /\ index' \in Nat /\ AllSeen' /\ seen' \in Seq(Nat)
      /\ Kind(index) = "names" /\ UNCHANGED <<members, stray, lost>>
  BY <1>1, MemberSeen
<1>3. IndexTyped'
  BY <1>1, <1>2 DEF IInv, IndexTyped
<1>4. TableBefore(index, index + 1)
  BY <1>2 DEF IInv, IndexTyped, TableBefore
<1>5. SymIndex'
  BY <1>1, <1>2, <1>4, ShownStays DEF SymIndex
<1>6. AllShown'
  BY <1>1, <1>2, ShownStays DEF IInv, AllShown
<1> QED BY <1>2, <1>3, <1>5, <1>6 DEF IInv, AtEnd

\* An ELF file that is shown is that of its index, its name that of the
\* closest table.
LEMMA ElfKeeps ==
  ASSUME IInv, NEW kind \in {"long", "short"}, DumpsA(kind), UNCHANGED symindex, NEW table, ShowElf(table),
         table # NoHeader => symindex # -1 /\ table = Header(symindex)
  PROVE  IInv'
<1>1. /\ FileOK' /\ pc' = "index" /\ index' = index + 1 /\ index' \in Nat /\ AllSeen' /\ seen' \in Seq(Nat)
      /\ Header(index) \in Nat /\ Kind(index) = kind /\ UNCHANGED <<members, stray, lost>>
  BY MemberSeen
<1>2. FileOK /\ index \in Nat /\ dumped \in Seq(Elf) /\ SymIndex
  BY DEF IInv, IndexTyped
<1> DEFINE e == [at |-> Header(index), len |-> HeaderAt(Header(index)).size, table |-> table]
<1>3. dumped' = Append(dumped, e)
  BY DEF ShowElf, At
<1>4. table # NoHeader => TableBefore(symindex, index) /\ table \in Nat /\ table = Header(symindex)
  <2> SUFFICES ASSUME table # NoHeader
               PROVE  TableBefore(symindex, index) /\ table \in Nat /\ table = Header(symindex)
    OBVIOUS
  <2>1. TableBefore(symindex, index) /\ table = Header(symindex)
    BY <1>2 DEF SymIndex
  <2>2. symindex \in Nat
    BY <1>2, <2>1 DEF TableBefore
  <2> QED BY <1>2, <2>1, <2>2, HeaderTyped
<1>5. e \in Elf /\ IsShown(e, index)
  <2>1. HeaderAt(Header(index)).size \in Nat
    BY <1>2, HeaderAtTyped
  <2>2. e \in Elf
    BY <1>1, <1>4, <2>1 DEF Elf
  <2>3. IsShown(e, index)
    BY <1>1, <1>4 DEF IsShown, TableBefore
  <2> QED BY <2>2, <2>3
<1> HIDE DEF e
<1>6. dumped' \in Seq(Elf) /\ Len(dumped') = Len(dumped) + 1 /\ Len(dumped) \in Nat
      /\ \A j \in 1 .. Len(dumped) + 1 : dumped'[j] = IF j <= Len(dumped) THEN dumped[j] ELSE e
  BY <1>2, <1>3, <1>5
<1>7. IndexTyped'
  BY <1>1, <1>6 DEF IndexTyped
<1>8. SymIndex'
  BY <1>1, ShownStays DEF IInv, SymIndex
<1>9. AllShown'
  <2>1. ASSUME NEW j \in 1 .. Len(dumped) + 1 PROVE \E k \in 0 .. (index + 1) - 1 : IsShown(dumped'[j], k)
    <3>1. CASE j <= Len(dumped)
      <4>1. j \in 1 .. Len(dumped) /\ dumped'[j] = dumped[j]
        BY <1>6, <3>1
      <4> QED BY <1>1, <4>1, ShownStays
    <3>2. CASE ~(j <= Len(dumped))
      <4>1. dumped'[j] = e /\ index \in 0 .. (index + 1) - 1
        BY <1>2, <1>6, <3>2
      <4> QED BY <1>5, <4>1
    <3> QED BY <3>1, <3>2
  <2> QED BY <1>1, <1>6, <2>1, ShownStays DEF AllShown
<1> QED BY <1>1, <1>7, <1>8, <1>9 DEF IInv, AtEnd

\* Every step of readar keeps the invariant.
LEMMA NextKeepsIInv == IInv /\ [Next]_vars => IInv'
<1> SUFFICES ASSUME IInv, [Next]_vars PROVE IInv'
  OBVIOUS
<1>1. CASE \E kind \in Kinds : DumpOther(kind)
  <2>1. PICK kind \in Kinds : DumpOther(kind)
    BY <1>1
  <2>2. DumpsA(kind) /\ kind # "names" /\ UNCHANGED <<symindex, dumped>>
    BY <2>1 DEF DumpOther
  <2> QED BY <2>2, PlainKeeps
<1>2. CASE DumpNames
  BY <1>2, NamesKeeps
<1>3. CASE DumpLong
  <2>1. DumpsA("long") /\ UNCHANGED symindex
    BY <1>3 DEF DumpLong
  <2>2. CASE HasBody(index) /\ HasBody(symindex)
    <3>1. ShowElf(Header(symindex)) /\ symindex >= 0
      BY <1>3, <2>2 DEF DumpLong, HasBody
    <3>2. symindex # -1
      BY <3>1
    <3> QED BY <2>1, <3>1, <3>2, ElfKeeps
  <2>3. CASE ~(HasBody(index) /\ HasBody(symindex))
    <3>1. UNCHANGED <<symindex, dumped>>
      BY <1>3, <2>3 DEF DumpLong
    <3> QED BY <2>1, <3>1, PlainKeeps
  <2> QED BY <2>2, <2>3
<1>4. CASE DumpShort
  <2>1. DumpsA("short") /\ UNCHANGED symindex
    BY <1>4 DEF DumpShort
  <2>2. CASE HasBody(index)
    <3>1. ShowElf(NoHeader)
      BY <1>4, <2>2 DEF DumpShort
    <3> QED BY <2>1, <3>1, ElfKeeps
  <2>3. CASE ~HasBody(index)
    <3>1. UNCHANGED <<symindex, dumped>>
      BY <1>4, <2>3 DEF DumpShort
    <3> QED BY <2>1, <3>1, PlainKeeps
  <2> QED BY <2>2, <2>3
<1>5. CASE Return
  <2>1. /\ UNCHANGED <<members, stray, lost, index, symindex, seen, dumped>>
        /\ pc' = "done" /\ Header(index) = NoHeader
    BY <1>5 DEF Return, At
  <2>2. \A i : Header(i)' = Header(i)
    BY <2>1, SameFile
  <2>3. FileOK' /\ IndexTyped' /\ AllSeen'
    BY <2>1, <2>2 DEF IInv, FileOK, IndexTyped, AllSeen
  <2>4. SymIndex' /\ AllShown'
    BY <2>1, ShownStays DEF IInv, SymIndex, AllShown
  <2>5. AtEnd'
    BY <2>1, <2>2 DEF AtEnd
  <2> QED BY <2>3, <2>4, <2>5 DEF IInv
<1>6. CASE UNCHANGED vars
  <2>1. UNCHANGED <<members, stray, lost, pc, index, symindex, seen, dumped>>
    BY <1>6 DEF vars
  <2>2. \A i : Header(i)' = Header(i)
    BY <2>1, SameFile
  <2>3. FileOK' /\ IndexTyped' /\ AllSeen' /\ AtEnd'
    BY <2>1, <2>2 DEF IInv, FileOK, IndexTyped, AllSeen, AtEnd
  <2>4. SymIndex' /\ AllShown'
    BY <2>1, ShownStays DEF IInv, SymIndex, AllShown
  <2> QED BY <2>3, <2>4 DEF IInv
<1>7. CASE Stop
  <2>1. UNCHANGED vars
    BY <1>7 DEF Stop
  <2> QED BY <1>6, <2>1
<1> QED BY <1>1, <1>2, <1>3, <1>4, <1>5, <1>6, <1>7 DEF Next

\* Every state of every walk keeps it.
THEOREM AlwaysIInv == Spec => []IInv
<1>1. Init => IInv
  BY InitIInv
<1>2. IInv /\ [Next]_vars => IInv'
  BY NextKeepsIInv
<1> QED BY <1>1, <1>2, PTL DEF Spec

-----------------------------------------------------------------------------
(***************************************************************************)
(* What follows from it.                                                   *)
(***************************************************************************)
\* What the invariant says of the types of the variables.
LEMMA IInvIsTyped == IInv => TypeOK
<1> SUFFICES ASSUME IInv PROVE TypeOK
  OBVIOUS
<1>1. members \in Archives /\ stray \in Strays /\ lost \in 0 .. 1
  BY DEF IInv, FileOK
<1>2. pc \in {"index", "done"} /\ index \in Nat /\ seen \in Seq(Nat) /\ dumped \in Seq(Elf)
  BY DEF IInv, IndexTyped
<1>3. symindex \in -1 .. index - 1
  BY <1>2 DEF IInv, SymIndex, TableBefore
<1> QED BY <1>1, <1>2, <1>3 DEF TypeOK

\* Every variable keeps its type.
THEOREM TypeCorrect == Spec => []TypeOK
BY AlwaysIInv, IInvIsTyped, PTL

\* Each index had a header of its own in the file.
LEMMA IInvTerminates == IInv => Terminates
<1> SUFFICES ASSUME IInv PROVE index <= (Length \div H) + 1
  BY DEF Terminates
<1>1. FileOK /\ index \in Nat /\ Length \in Nat /\ H \in Nat /\ H > 0
  BY LengthTyped, HAssumption DEF IInv, IndexTyped
<1>2. Length \div H \in Nat
  BY <1>1
<1>3. CASE index = 0
  BY <1>2, <1>3
<1>4. CASE index # 0
  <2>1. index - 1 \in 0 .. index - 1 /\ index - 1 \in Nat
    BY <1>1, <1>4
  <2>2. Header(index - 1) # NoHeader
    BY <2>1 DEF IInv, AllSeen
  <2>3. index - 1 <= Length \div H
    BY <1>1, <2>1, <2>2, HeaderFar
  <2> QED BY <1>1, <1>2, <2>3
<1> QED BY <1>3, <1>4

\* readar stops at the index behind the number of headers that the file has
\* room for, whatever the sizes in its headers and the bytes between them say.
THEOREM AlwaysTerminates == Spec => []Terminates
BY AlwaysIInv, IInvTerminates, PTL

\* In an archive without padding each index is a member.
LEMMA IInvSeenInOrder == IInv => SeenInOrder
<1> SUFFICES ASSUME IInv, Even
             PROVE  /\ \A j \in DOMAIN seen : MemberOf(j) \in DOMAIN members /\ seen[j] = Start(MemberOf(j))
                    /\ pc = "done" /\ members # << >> => Len(seen) = Len(members) + 1
  BY DEF SeenInOrder
<1>1. /\ FileOK /\ index \in Nat /\ DOMAIN seen = 1 .. index /\ Len(seen) = index
      /\ DOMAIN members = 1 .. Len(members) /\ Len(members) \in Nat /\ members \in Seq(Member)
  BY FileTyped DEF IInv, IndexTyped, AllSeen
<1>2. ASSUME NEW j \in 1 .. index
      PROVE  MemberOf(j) \in 1 .. Len(members) /\ seen[j] = Start(MemberOf(j))
  <2>1. j - 1 \in 0 .. index - 1 /\ j - 1 \in Nat /\ Meant(j - 1) = MemberOf(j)
    BY <1>1 DEF Meant, MemberOf
  <2>2. Header(j - 1) # NoHeader /\ seen[j] = Header(j - 1)
    BY <2>1 DEF IInv, AllSeen
  <2>3. Header(j - 1) = IF MemberOf(j) <= Len(members) THEN Start(MemberOf(j)) ELSE NoHeader
    BY <1>1, <2>1, HeaderEven
  <2>4. MemberOf(j) \in Nat \ {0}
    BY <1>1 DEF MemberOf
  <2> QED BY <1>1, <2>2, <2>3, <2>4
<1>3. ASSUME pc = "done", members # << >> PROVE index = Len(members) + 1
  <2>1. Len(members) > 0
    BY <1>1, <1>3
  <2>2. Header(index) = NoHeader
    BY <1>3 DEF IInv, AtEnd
  <2>3. Meant(index) > Len(members)
    <3>1. Meant(index) <= Len(members) => Meant(index) \in 1 .. Len(members)
      BY <1>1 DEF Meant
    <3>2. Meant(index) <= Len(members) => Start(Meant(index)) \in Nat
      BY <1>1, <3>1, MembersApart
    <3>3. Header(index) = IF Meant(index) <= Len(members) THEN Start(Meant(index)) ELSE NoHeader
      BY <1>1, HeaderEven
    <3> QED BY <1>1, <2>2, <3>2, <3>3 DEF Meant, NoHeader
  <2>4. index # 0 /\ index > Len(members)
    BY <1>1, <2>1, <2>3 DEF Meant
  <2>5. index \in 1 .. index /\ MemberOf(index) <= Len(members)
    BY <1>1, <1>2, <2>4
  <2> QED BY <1>1, <2>1, <2>4, <2>5 DEF MemberOf
<1> QED BY <1>1, <1>2, <1>3

\* In a complete archive without padding ecget_ahdr finds the members in order
\* and misses none, the first one twice.
THEOREM AlwaysSeenInOrder == Spec => []SeenInOrder
BY AlwaysIInv, IInvSeenInOrder, PTL

\* In such an archive what was shown is a member, with the closest table.
LEMMA IInvDumpsMembers == IInv => DumpsMembers
<1> SUFFICES ASSUME IInv, Even, NEW j \in DOMAIN dumped
             PROVE  /\ \E k \in DOMAIN members :
                         /\ members[k].kind \in {"long", "short"}
                         /\ dumped[j].at = Start(k) /\ dumped[j].len = members[k].size
                    /\ dumped[j].table # NoHeader =>
                         \E k \in DOMAIN members :
                           /\ members[k].kind = "names" /\ dumped[j].table = Start(k)
                           /\ \A l \in k + 1 .. Len(members) :
                                members[l].kind = "names" => Start(l) > dumped[j].at
  BY DEF DumpsMembers
<1>1. /\ FileOK /\ index \in Nat /\ DOMAIN dumped = 1 .. Len(dumped)
      /\ DOMAIN members = 1 .. Len(members) /\ Len(members) \in Nat
  BY FileTyped DEF IInv, IndexTyped
<1>2. ASSUME NEW i \in 0 .. index - 1
      PROVE  /\ Meant(i) \in 1 .. Len(members) /\ Header(i) = Start(Meant(i))
             /\ HeaderAt(Header(i)) = members[Meant(i)] /\ Start(Meant(i)) \in Nat
  <2>1. Header(i) # NoHeader /\ i \in Nat
    BY <1>1 DEF IInv, AllSeen
  <2>2. Header(i) = IF Meant(i) <= Len(members) THEN Start(Meant(i)) ELSE NoHeader
    BY <1>1, <2>1, HeaderEven
  <2>3. Meant(i) \in Nat \ {0}
    BY <2>1 DEF Meant
  <2>4. Meant(i) \in 1 .. Len(members) /\ Header(i) = Start(Meant(i))
    BY <1>1, <2>1, <2>2, <2>3
  <2> QED BY <1>1, <2>4, HeaderAtStart, MembersApart
<1>3. PICK i \in 0 .. index - 1 : IsShown(dumped[j], i)
  BY <1>1 DEF IInv, AllShown
<1>4. /\ members[Meant(i)].kind \in {"long", "short"}
      /\ dumped[j].at = Start(Meant(i)) /\ dumped[j].len = members[Meant(i)].size
  BY <1>2, <1>3 DEF IsShown, Kind
<1>5. ASSUME dumped[j].table # NoHeader
      PROVE  \E k \in DOMAIN members :
               /\ members[k].kind = "names" /\ dumped[j].table = Start(k)
               /\ \A l \in k + 1 .. Len(members) : members[l].kind = "names" => Start(l) > dumped[j].at
  <2>1. PICK t : TableBefore(t, i) /\ dumped[j].table = Header(t)
    BY <1>3, <1>5 DEF IsShown
  <2>2. t \in 0 .. i - 1 /\ t \in 0 .. index - 1
    BY <1>1, <2>1 DEF TableBefore
  <2>3. Meant(t) \in DOMAIN members /\ members[Meant(t)].kind = "names" /\ dumped[j].table = Start(Meant(t))
    BY <1>1, <1>2, <2>1, <2>2 DEF TableBefore, Kind
  <2>4. ASSUME NEW l \in Meant(t) + 1 .. Len(members), members[l].kind = "names", ~(Start(l) > dumped[j].at)
        PROVE  FALSE
    <3>1. l \in 1 .. Len(members) /\ Start(l) \in Nat /\ l > t /\ l # 0
      BY <1>1, <2>2, <2>4, MembersApart DEF Meant
    <3>2. ~(Meant(i) < l)
      <4>1. Meant(i) < l => Start(Meant(i)) + H <= Start(l)
        BY <1>1, <1>2, <3>1, MembersApart
      <4> QED BY <1>1, <1>2, <1>4, <2>4, <3>1, <4>1, HAssumption
    <3>3. l # Meant(i)
      BY <1>4, <2>4
    <3>4. l < i
      BY <1>1, <1>2, <3>1, <3>2, <3>3 DEF Meant
    <3>5. l \in t + 1 .. i - 1 /\ l \in 0 .. index - 1 /\ Meant(l) = l
      BY <1>1, <2>2, <3>1, <3>4 DEF Meant
    <3>6. Kind(l) = "names"
      BY <1>2, <2>4, <3>5 DEF Kind
    <3> QED BY <2>1, <3>5, <3>6 DEF TableBefore
  <2> QED BY <2>3, <2>4
<1> QED BY <1>1, <1>2, <1>4, <1>5

\* ecget_archive gives what ecget_ahdr announced, and the table of long names
\* is the one that belongs to the member, though three walks found them.
THEOREM AlwaysDumpsMembers == Spec => []DumpsMembers
BY AlwaysIInv, IInvDumpsMembers, PTL
=============================================================================
