------------------------- MODULE GreetdFraming_proofs -------------------------
(***************************************************************************)
(* Theorems about GreetdFraming.tla, for every base, header size, limit and *)
(* set of bodies, and for any number of frames on their way: the bytes read *)
(* and to be read are the frames not yet emitted, consume() implements      *)
(* FrameQueue, and no frame that has arrived is held back.                  *)
(*                                                                         *)
(* The proofs do induction over data without a theorem on operators: a set *)
(* of numbers that holds 0 and successors is Nat, because Nat is well       *)
(* founded.                                                                *)
(***************************************************************************)
EXTENDS GreetdFraming, Integers, TLAPS, SequenceTheorems, WellFoundedInduction

-----------------------------------------------------------------------------
(* Induction and recursion over the natural numbers. *)

\* A non-empty set of naturals has a least element.
LEMMA LeastNat ==
  ASSUME NEW T \in SUBSET Nat, T # {}
  PROVE  \E m \in T : \A n \in T : m <= n
<1>1. IsWellFoundedOn(OpToRel(<, Nat), Nat)
  BY NatLessThanWellFounded
<1>2. PICK m \in T : \A n \in T : ~(<<n, m>> \in OpToRel(<, Nat))
  BY <1>1, WFMin
<1>3. \A n \in T : ~(n < m)
  BY <1>2 DEF OpToRel
<1> QED BY <1>3

\* A set that holds 0 and the successors of its elements is Nat.
LEMMA SetInduction ==
  ASSUME NEW G \in SUBSET Nat, 0 \in G, \A n \in Nat : n \in G => n + 1 \in G
  PROVE  G = Nat
<1>1. SUFFICES ASSUME Nat \ G # {} PROVE FALSE
  OBVIOUS
<1>2. PICK m \in Nat \ G : \A n \in Nat \ G : m <= n
  BY <1>1, LeastNat
<1>3. m # 0 /\ m - 1 \in Nat
  BY <1>2
<1>4. m - 1 \in G
  BY <1>2, <1>3
<1> QED BY <1>2, <1>3, <1>4

\* g follows the recursion given by c and F up to n.
Follows(g, n, c, F) == g[0] = c /\ \A i \in 0..n - 1 : g[i + 1] = F[<<i, g[i]>>]

\* f follows it for ever.
Solves(f, c, F) == f[0] = c /\ \A n \in Nat : f[n + 1] = F[<<n, f[n]>>]

\* A recursion over Nat has a solution.
LEMMA Recursion ==
  ASSUME NEW S, NEW c \in S, NEW F \in [Nat \X S -> S]
  PROVE  \E f \in [Nat -> S] : Solves(f, c, F)
<1> DEFINE G == {n \in Nat : \E g \in [0..n -> S] : Follows(g, n, c, F)}
           Approx(n) == CHOOSE g \in [0..n -> S] : Follows(g, n, c, F)
           f == [n \in Nat |-> Approx(n)[n]]
<1>1. G = Nat
  <2>1. 0 \in G
    <3> DEFINE g == [i \in 0..0 |-> c]
    <3>1. g \in [0..0 -> S] /\ Follows(g, 0, c, F)
      BY DEF Follows
    <3> QED BY <3>1
  <2>2. ASSUME NEW n \in Nat, n \in G PROVE n + 1 \in G
    <3>1. PICK g \in [0..n -> S] : Follows(g, n, c, F)
      BY <2>2
    <3> DEFINE h == [i \in 0..n + 1 |-> IF i = n + 1 THEN F[<<n, g[n]>>] ELSE g[i]]
    <3>2. g[n] \in S /\ F[<<n, g[n]>>] \in S
      BY <3>1
    <3>3. h \in [0..n + 1 -> S]
      BY <3>1, <3>2
    <3>4. Follows(h, n + 1, c, F)
      <4>1. h[0] = c
        BY <3>1 DEF Follows
      <4>2. ASSUME NEW i \in 0..(n + 1) - 1 PROVE h[i + 1] = F[<<i, h[i]>>]
        <5>1. CASE i = n
          <6>1. n + 1 \in 0..n + 1 /\ n \in 0..n + 1 /\ n # n + 1
            OBVIOUS
          <6>2. h[n + 1] = F[<<n, g[n]>>] /\ h[n] = g[n]
            BY <6>1
          <6> QED BY <5>1, <6>2
        <5>2. CASE i # n
          <6>1. i \in 0..n - 1 /\ i + 1 \in 0..n /\ i + 1 # n + 1 /\ i # n + 1
            BY <5>2
          <6> QED BY <6>1, <3>1 DEF Follows
        <5> QED BY <5>1, <5>2
      <4> QED BY <4>1, <4>2 DEF Follows
    <3> QED BY <3>3, <3>4
  <2> HIDE DEF G
  <2> QED BY <2>1, <2>2, SetInduction, G \in SUBSET Nat DEF G
<1>2. ASSUME NEW n \in Nat PROVE Approx(n) \in [0..n -> S] /\ Follows(Approx(n), n, c, F)
  BY <1>1
<1> HIDE DEF Approx
<1>3. ASSUME NEW n \in Nat PROVE Approx(n + 1)[n] = Approx(n)[n]
  <2> DEFINE E == {k \in Nat : k <= n => Approx(n + 1)[k] = Approx(n)[k]}
  <2>1. 0 \in E
    BY <1>2 DEF Follows
  <2>2. ASSUME NEW k \in Nat, k \in E PROVE k + 1 \in E
    <3>1. SUFFICES ASSUME k + 1 <= n PROVE Approx(n + 1)[k + 1] = Approx(n)[k + 1]
      OBVIOUS
    <3>2. k \in 0..n - 1 /\ k \in 0..(n + 1) - 1 /\ n + 1 \in Nat
      BY <3>1
    <3>3. Approx(n)[k + 1] = F[<<k, Approx(n)[k]>>]
      BY <3>2, <1>2 DEF Follows
    <3>4. Approx(n + 1)[k + 1] = F[<<k, Approx(n + 1)[k]>>]
      BY <3>2, <1>2 DEF Follows
    <3> QED BY <2>2, <3>2, <3>3, <3>4
  <2>3. E = Nat
    <3>1. E \in SUBSET Nat
      OBVIOUS
    <3> HIDE DEF E
    <3> QED BY <2>1, <2>2, <3>1, SetInduction
  <2> QED BY <2>3
<1>4. f \in [Nat -> S]
  BY <1>2
<1>5. f[0] = c
  BY <1>2 DEF Follows
<1>6. ASSUME NEW n \in Nat PROVE f[n + 1] = F[<<n, f[n]>>]
  <2>1. n + 1 \in Nat /\ n \in 0..(n + 1) - 1
    OBVIOUS
  <2>2. Approx(n + 1)[n + 1] = F[<<n, Approx(n + 1)[n]>>]
    BY <2>1, <1>2 DEF Follows
  <2> QED BY <2>1, <2>2, <1>3
<1> HIDE DEF f
<1> QED BY <1>4, <1>5, <1>6 DEF Solves

-----------------------------------------------------------------------------
(* Lengths and their headers. *)

\* The place values of the digits.
LEMMA PlaceValues ==
  /\ Place \in [Nat -> Nat \ {0}]
  /\ Place[0] = 1
  /\ \A n \in Nat : Place[n + 1] = Base * Place[n]
<1> DEFINE S == Nat \ {0}
           F == [p \in Nat \X S |-> Base * p[2]]
           Def(g) == [i \in Nat |-> IF i = 0 THEN 1 ELSE Base * g[i - 1]]
<1>1. F \in [Nat \X S -> S]
  BY FramingAssumption
<1>2. PICK f \in [Nat -> S] : Solves(f, 1, F)
  <2>1. 1 \in S
    OBVIOUS
  <2> HIDE DEF F, S
  <2> QED BY <1>1, <2>1, Recursion
<1>3. \A n \in Nat : f[n + 1] = Base * f[n]
  BY <1>2 DEF Solves
<1>0. f[0] = 1
  BY <1>2 DEF Solves
<1>4. f = Def(f)
  <2>1. \A i \in Nat : f[i] = Def(f)[i]
    <3> TAKE i \in Nat
    <3>1. CASE i = 0
      BY <3>1, <1>0
    <3>2. CASE i # 0
      <4>1. i - 1 \in Nat /\ (i - 1) + 1 = i
        BY <3>2
      <4> QED BY <4>1, <3>2, <1>3
    <3> QED BY <3>1, <3>2
  <2> QED BY <2>1, <1>2
<1>5. Place = CHOOSE g : g = Def(g)
  BY DEF Place
<1>6. Place = Def(Place)
  BY <1>4, <1>5
<1>7. \A n \in Nat : Place[n + 1] = Base * Place[n] /\ Place[0] = 1
  <2> TAKE n \in Nat
  <2>1. n + 1 \in Nat /\ n + 1 # 0 /\ (n + 1) - 1 = n
    OBVIOUS
  <2> QED BY <1>6, <2>1
<1>8. Place \in [Nat -> S]
  <2> DEFINE G == {n \in Nat : Place[n] \in S}
  <2>1. 0 \in G
    BY <1>7
  <2>2. ASSUME NEW n \in Nat, n \in G PROVE n + 1 \in G
    <3>1. Base \in Nat \ {0} /\ Place[n] \in Nat \ {0}
      BY <2>2, FramingAssumption
    <3>2. Base * Place[n] \in Nat \ {0}
      BY <3>1
    <3> QED BY <3>2, <1>7
  <2>3. G = Nat
    <3>1. G \in SUBSET Nat
      OBVIOUS
    <3> HIDE DEF G
    <3> QED BY <2>1, <2>2, <3>1, SetInduction
  <2>4. \A n \in Nat : Place[n] \in S
    BY <2>3
  <2> HIDE DEF S
  <2> QED BY <2>4, <1>6
<1> QED BY <1>7, <1>8

\* Division with remainder by the next place value is one digit more.
LEMMA OneMoreDigit ==
  ASSUME NEW n \in Nat, NEW P \in Nat \ {0}
  PROVE  n % (Base * P) = (n % P) + ((n \div P) % Base) * P
<1> DEFINE q == n \div P
           d == q % Base
           t == q \div Base
           r == n % P
<1>1. q \in Nat /\ r \in 0..P - 1 /\ n = P * q + r
  OBVIOUS
<1>2. t \in Nat /\ d \in 0..Base - 1 /\ q = Base * t + d
  <2>1. q \in Nat
    BY <1>1
  <2> HIDE DEF q
  <2> QED BY <2>1, FramingAssumption
<1> HIDE DEF q, d, t, r
<1>3. n = (Base * P) * t + (r + d * P)
  <2>1. P * (Base * t + d) = (Base * P) * t + d * P
    BY <1>2, FramingAssumption
  <2> QED BY <1>1, <1>2, <2>1, FramingAssumption
<1>4. r + d * P \in 0..(Base * P) - 1
  <2>1. d * P <= (Base - 1) * P
    BY <1>2, FramingAssumption
  <2>2. (Base - 1) * P = Base * P - P
    BY FramingAssumption
  <2>3. Base * P \in Nat /\ d * P \in Nat
    BY <1>2, FramingAssumption
  <2> QED BY <1>1, <2>1, <2>2, <2>3
<1>5. ASSUME NEW m \in Nat \ {0}, NEW x \in Nat, NEW y \in 0..m - 1, n = m * x + y
      PROVE  n % m = y
  BY <1>5
<1>6. Base * P \in Nat \ {0}
  BY FramingAssumption
<1>7. n % (Base * P) = r + d * P
  BY <1>2, <1>3, <1>4, <1>5, <1>6
<1> QED BY <1>7 DEF q, d, r

\* The sum of the digits of n that were read is what is left of n by the next
\* place value.
LEMMA LengthOfHeader ==
  ASSUME NEW n \in Nat, n < Place[HeaderSize], input \in Seq(Byte),
         HeaderSize <= Len(input), \A i \in 1..HeaderSize : input[i] = Header(n)[i]
  PROVE  Length = n
<1> DEFINE D == 0..HeaderSize
           Def(g) == [i \in D |-> IF i = 0 THEN 0 ELSE g[i - 1] + input[i] * Place[i - 1]]
           f == [i \in D |-> n % Place[i]]
           sum == CHOOSE g : g = Def(g)
<1>0. HeaderSize \in Nat \ {0} /\ Base \in Nat \ {0, 1}
  BY FramingAssumption
<1>1. ASSUME NEW i \in D, i # 0
      PROVE  /\ i - 1 \in D /\ i - 1 \in Nat
             /\ n % Place[i] = (n % Place[i - 1]) + input[i] * Place[i - 1]
  <2>1. i - 1 \in D /\ i - 1 \in Nat /\ i \in 1..HeaderSize /\ (i - 1) + 1 = i
    BY <1>0, <1>1
  <2>2. Place[i] = Base * Place[i - 1] /\ Place[i - 1] \in Nat \ {0}
    BY <2>1, PlaceValues
  <2>3. input[i] = (n \div Place[i - 1]) % Base
    BY <2>1 DEF Header
  <2> QED BY <2>1, <2>2, <2>3, OneMoreDigit
<1>2. n % Place[0] = 0
  BY PlaceValues
<1>3. f = Def(f)
  <2>1. ASSUME NEW i \in D PROVE f[i] = Def(f)[i]
    <3>1. CASE i = 0
      BY <3>1, <1>2
    <3>2. CASE i # 0
      BY <3>2, <1>1
    <3> QED BY <3>1, <3>2
  <2> QED BY <2>1
<1>4. sum = Def(sum)
  BY <1>3
<1>5. Length = sum[HeaderSize]
  BY DEF Length
<1>6. \A i \in D : sum[i] = IF i = 0 THEN 0 ELSE sum[i - 1] + input[i] * Place[i - 1]
  BY <1>4
<1> HIDE DEF sum, Def, f
<1> DEFINE G == {i \in Nat : i \in D => sum[i] = n % Place[i]}
<1>7. G = Nat
  <2>1. 0 \in G
    BY <1>0, <1>2, <1>6
  <2>2. ASSUME NEW i \in Nat, i \in G PROVE i + 1 \in G
    <3>1. CASE i + 1 \in D
      <4>1. i \in D /\ i + 1 # 0 /\ (i + 1) - 1 = i
        BY <3>1, <1>0
      <4>2. sum[i + 1] = sum[i] + input[i + 1] * Place[i]
        BY <3>1, <4>1, <1>6
      <4>3. n % Place[i + 1] = (n % Place[i]) + input[i + 1] * Place[i]
        BY <3>1, <4>1, <1>1
      <4>4. sum[i + 1] = n % Place[i + 1]
        BY <2>2, <4>1, <4>2, <4>3
      <4> QED BY <4>4
    <3>2. CASE i + 1 \notin D
      BY <3>2
    <3> QED BY <3>1, <3>2
  <2>3. G \in SUBSET Nat
    OBVIOUS
  <2> HIDE DEF G
  <2> QED BY <2>1, <2>2, <2>3, SetInduction
<1>8. sum[HeaderSize] = n % Place[HeaderSize]
  <2>1. HeaderSize \in G /\ HeaderSize \in D
    BY <1>0, <1>7
  <2> QED BY <2>1
<1>9. n % Place[HeaderSize] = n
  <2>1. Place[HeaderSize] \in Nat \ {0}
    BY <1>0, PlaceValues
  <2> QED BY <2>1
<1> QED BY <1>5, <1>8, <1>9

-----------------------------------------------------------------------------
(* The frames in a stream. *)

Frame(b) == Header(Len(b)) \o b

\* Positions 0 to n that do not fall.
Rising(p, n) ==
  p \in [0..n -> Int] /\ \A i, j \in 0..n : i <= j => p[i] <= p[j]

\* The stream s holds the frame b between the positions lo and hi, as far as
\* they are in it.
FrameAt(s, b, lo, hi) ==
  /\ hi = lo + HeaderSize + Len(b)
  /\ \A k \in 1..HeaderSize + Len(b) : lo + k > 0 => s[lo + k] = Frame(b)[k]

\* The stream s is the frames u, frame i ending at p[i], from the position
\* `from' on: 0, or minus HeaderSize when the first header has been taken.
Cut(p, s, u, from) ==
  /\ Rising(p, Len(u)) /\ p[0] = from /\ p[Len(u)] = Len(s)
  /\ \A i \in 1..Len(u) : FrameAt(s, u[i], p[i - 1], p[i])

\* A header is digits.
LEMMA HeaderType ==
  ASSUME NEW n \in Nat
  PROVE  Header(n) \in Seq(Byte) /\ Len(Header(n)) = HeaderSize
<1>1. HeaderSize \in Nat /\ Base \in Nat \ {0, 1}
  BY FramingAssumption
<1>2. ASSUME NEW i \in 1..HeaderSize PROVE (n \div Place[i - 1]) % Base \in Byte
  <2>1. i - 1 \in Nat /\ Place[i - 1] \in Nat \ {0}
    BY <1>1, PlaceValues
  <2>2. n \div Place[i - 1] \in Nat
    BY <2>1
  <2> QED BY <2>2, <1>1 DEF Byte
<1> QED BY <1>1, <1>2 DEF Header

\* A frame is its header and its body.
LEMMA FrameType ==
  ASSUME NEW b \in Bodies
  PROVE  /\ b \in Seq(Byte) /\ Len(b) \in Nat /\ Len(b) < Place[HeaderSize]
         /\ Frame(b) \in Seq(Byte) /\ Len(Frame(b)) = HeaderSize + Len(b)
         /\ \A k \in 1..HeaderSize : Frame(b)[k] = Header(Len(b))[k]
         /\ \A k \in 1..Len(b) : Frame(b)[HeaderSize + k] = b[k]
<1>1. b \in Seq(Byte) /\ Len(b) \in Nat /\ Len(b) < Place[HeaderSize]
  BY FramingAssumption
<1>2. Header(Len(b)) \in Seq(Byte) /\ Len(Header(Len(b))) = HeaderSize
  BY <1>1, HeaderType
<1>3. HeaderSize \in Nat
  BY FramingAssumption
<1> QED BY <1>1, <1>2, <1>3 DEF Frame

\* t is s without its first d bytes.
Drops(s, t, d) == Len(s) = Len(t) + d /\ \A k \in 1..Len(t) : t[k] = s[k + d]

\* Rising positions stay so when they all move.
LEMMA MoveRising ==
  ASSUME NEW n \in Nat, NEW d \in Int, NEW p, Rising(p, n)
  PROVE  \E q : /\ Rising(q, n)
                /\ \A i \in 0..n : q[i] = p[i] - d /\ p[i] \in Int /\ p[i] <= p[n]
<1> DEFINE q == [i \in 0..n |-> p[i] - d]
<1>1. /\ p \in [0..n -> Int] /\ 0 \in 0..n /\ n \in 0..n
      /\ \A i, j \in 0..n : i <= j => p[i] <= p[j]
  BY DEF Rising
<1>2. q \in [0..n -> Int] /\ \A i \in 0..n : q[i] = p[i] - d
  BY <1>1
<1> HIDE DEF q
<1>3. \A i, j \in 0..n : i <= j => q[i] <= q[j]
  BY <1>1, <1>2
<1>4. \A i \in 0..n : p[i] \in Int /\ p[i] <= p[n]
  BY <1>1
<1> QED BY <1>2, <1>3, <1>4 DEF Rising

\* And without the first of them.
LEMMA TailRising ==
  ASSUME NEW n \in Nat, NEW p, Rising(p, n + 1)
  PROVE  \E q : Rising(q, n) /\ \A i \in 0..n : q[i] = p[i + 1]
<1> DEFINE q == [i \in 0..n |-> p[i + 1]]
<1>1. /\ p \in [0..n + 1 -> Int] /\ \A i \in 0..n : i + 1 \in 0..n + 1
      /\ \A i, j \in 0..n + 1 : i <= j => p[i] <= p[j]
  BY DEF Rising
<1>2. q \in [0..n -> Int] /\ \A i \in 0..n : q[i] = p[i + 1]
  BY <1>1
<1> HIDE DEF q
<1>3. ASSUME NEW i \in 0..n, NEW j \in 0..n, i <= j PROVE q[i] <= q[j]
  <2>1. i + 1 \in 0..n + 1 /\ j + 1 \in 0..n + 1 /\ i + 1 <= j + 1
    BY <1>3
  <2> QED BY <2>1, <1>1, <1>2
<1> QED BY <1>2, <1>3 DEF Rising

\* And with one more, not below the last.
LEMMA AppendRising ==
  ASSUME NEW n \in Nat, NEW p, Rising(p, n), NEW e \in Int, p[n] <= e
  PROVE  \E q : Rising(q, n + 1) /\ q[n + 1] = e /\ \A i \in 0..n : q[i] = p[i]
<1> DEFINE q == [i \in 0..n + 1 |-> IF i = n + 1 THEN e ELSE p[i]]
<1>1. /\ p \in [0..n -> Int] /\ n \in 0..n /\ \A i, j \in 0..n : i <= j => p[i] <= p[j]
  BY DEF Rising
<1>2. \A i \in 0..n + 1 : i = n + 1 \/ i \in 0..n
  OBVIOUS
<1>3. q \in [0..n + 1 -> Int] /\ q[n + 1] = e /\ \A i \in 0..n : q[i] = p[i]
  BY <1>1, <1>2
<1> HIDE DEF q
<1>4. ASSUME NEW i \in 0..n + 1, NEW j \in 0..n + 1, i <= j PROVE q[i] <= q[j]
  <2>1. CASE i = n + 1
    <3>1. j = n + 1
      BY <2>1, <1>4
    <3> QED BY <3>1, <2>1, <1>3
  <2>2. CASE i \in 0..n /\ j = n + 1
    <3>1. p[i] <= p[n] /\ p[i] \in Int /\ p[n] \in Int
      BY <2>2, <1>1
    <3> QED BY <3>1, <2>2, <1>3
  <2>3. CASE i \in 0..n /\ j \in 0..n
    BY <2>3, <1>1, <1>3, <1>4
  <2> QED BY <2>1, <2>2, <2>3, <1>2
<1> QED BY <1>3, <1>4 DEF Rising

\* A frame moves with the stream.
LEMMA MoveFrame ==
  ASSUME NEW s, NEW t, NEW d \in Nat, Drops(s, t, d), NEW b \in Bodies,
         NEW lo \in Int, NEW hi \in Int, hi <= Len(s), FrameAt(s, b, lo, hi),
         Len(t) \in Nat
  PROVE  FrameAt(t, b, lo - d, hi - d)
<1>1. HeaderSize \in Nat /\ Len(b) \in Nat
  BY FrameType, FramingAssumption
<1>2. hi = lo + HeaderSize + Len(b) /\ Len(s) = Len(t) + d
  BY DEF FrameAt, Drops
<1>3. ASSUME NEW k \in 1..HeaderSize + Len(b), (lo - d) + k > 0
      PROVE  t[(lo - d) + k] = Frame(b)[k]
  <2>1. lo + k > 0 /\ (lo - d) + k \in 1..Len(t) /\ ((lo - d) + k) + d = lo + k
    BY <1>1, <1>2, <1>3
  <2>2. t[(lo - d) + k] = s[((lo - d) + k) + d]
    BY <2>1 DEF Drops
  <2>3. s[lo + k] = Frame(b)[k]
    BY <2>1 DEF FrameAt
  <2> QED BY <2>1, <2>2, <2>3
<1>4. hi - d = (lo - d) + HeaderSize + Len(b)
  BY <1>1, <1>2
<1> QED BY <1>3, <1>4 DEF FrameAt

\* Bytes taken from the front move every frame.
LEMMA DropCut ==
  ASSUME NEW s \in Seq(Byte), NEW t \in Seq(Byte), NEW u \in Seq(Bodies),
         NEW from \in Int, NEW d \in Nat, NEW p, Cut(p, s, u, from), Drops(s, t, d)
  PROVE  \E q : Cut(q, t, u, from - d)
<1>1. Len(u) \in Nat /\ Len(s) \in Nat /\ Len(t) \in Nat /\ Len(s) = Len(t) + d
  BY DEF Drops
<1>2. Rising(p, Len(u)) /\ p[0] = from /\ p[Len(u)] = Len(s)
  BY DEF Cut
<1>3. PICK q : /\ Rising(q, Len(u))
               /\ \A i \in 0..Len(u) :
                    q[i] = p[i] - d /\ p[i] \in Int /\ p[i] <= p[Len(u)]
  BY <1>1, <1>2, MoveRising
<1>4. 0 \in 0..Len(u) /\ Len(u) \in 0..Len(u)
  BY <1>1
<1>5. q[0] = from - d /\ q[Len(u)] = Len(t)
  BY <1>1, <1>2, <1>3, <1>4
<1>6. ASSUME NEW i \in 1..Len(u) PROVE FrameAt(t, u[i], q[i - 1], q[i])
  <2>1. i \in 0..Len(u) /\ i - 1 \in 0..Len(u) /\ u[i] \in Bodies
    BY <1>1
  <2>2. FrameAt(s, u[i], p[i - 1], p[i])
    BY DEF Cut
  <2>3. /\ p[i] \in Int /\ p[i - 1] \in Int /\ p[i] <= Len(s)
        /\ q[i] = p[i] - d /\ q[i - 1] = p[i - 1] - d
    BY <1>2, <1>3, <2>1
  <2> QED BY <1>1, <2>1, <2>2, <2>3, MoveFrame
<1> QED BY <1>3, <1>5, <1>6 DEF Cut

\* Without the first frame the rest starts where it ended.
LEMMA TailCut ==
  ASSUME NEW s \in Seq(Byte), NEW u \in Seq(Bodies), u # <<>>,
         NEW from \in Int, NEW p, Cut(p, s, u, from)
  PROVE  \E q : Cut(q, s, Tail(u), from + HeaderSize + Len(u[1]))
<1> DEFINE n == Len(Tail(u))
<1>1. n \in Nat /\ Len(u) = n + 1 /\ \A i \in 1..n : Tail(u)[i] = u[i + 1]
  OBVIOUS
<1> HIDE DEF n
<1>2. Rising(p, n + 1) /\ p[0] = from /\ p[n + 1] = Len(s)
  BY <1>1 DEF Cut
<1>3. \A i \in 1..n + 1 : FrameAt(s, u[i], p[i - 1], p[i])
  BY <1>1 DEF Cut
<1>4. PICK q : Rising(q, n) /\ \A i \in 0..n : q[i] = p[i + 1]
  BY <1>1, <1>2, TailRising
<1>5. q[n] = Len(s)
  BY <1>1, <1>2, <1>4
<1>6. q[0] = from + HeaderSize + Len(u[1])
  <2>1. 1 \in 1..n + 1 /\ 0 \in 0..n /\ 1 - 1 = 0 /\ 0 + 1 = 1
    BY <1>1
  <2>2. FrameAt(s, u[1], p[1 - 1], p[1])
    BY <2>1, <1>3
  <2>3. p[1] = p[0] + HeaderSize + Len(u[1])
    BY <2>1, <2>2 DEF FrameAt
  <2> QED BY <2>1, <2>3, <1>2, <1>4
<1>7. ASSUME NEW i \in 1..n PROVE FrameAt(s, Tail(u)[i], q[i - 1], q[i])
  <2>1. i + 1 \in 1..n + 1 /\ (i + 1) - 1 = i /\ i \in 0..n /\ i - 1 \in 0..n /\ (i - 1) + 1 = i
    BY <1>1
  <2>2. FrameAt(s, u[i + 1], p[(i + 1) - 1], p[i + 1])
    BY <2>1, <1>3
  <2>3. q[i] = p[i + 1] /\ q[i - 1] = p[i]
    <3>1. q[i - 1] = p[(i - 1) + 1]
      BY <2>1, <1>4
    <3> QED BY <3>1, <2>1, <1>4
  <2>4. Tail(u)[i] = u[i + 1]
    BY <1>1
  <2> QED BY <2>1, <2>2, <2>3, <2>4
<1> QED BY <1>4, <1>5, <1>6, <1>7 DEF Cut, n

\* What is in the stream stays when it grows.
LEMMA GrowFrame ==
  ASSUME NEW s \in Seq(Byte), NEW e \in Seq(Byte), NEW b \in Bodies,
         NEW lo \in Int, NEW hi \in Int, hi <= Len(s), FrameAt(s, b, lo, hi)
  PROVE  FrameAt(s \o e, b, lo, hi)
<1>1. HeaderSize \in Nat /\ Len(b) \in Nat
  BY FrameType, FramingAssumption
<1>2. hi = lo + HeaderSize + Len(b)
  BY DEF FrameAt
<1>3. ASSUME NEW k \in 1..HeaderSize + Len(b), lo + k > 0
      PROVE  (s \o e)[lo + k] = Frame(b)[k]
  <2>1. lo + k \in 1..Len(s)
    <3>1. Len(s) \in Nat
      OBVIOUS
    <3> QED BY <3>1, <1>1, <1>2, <1>3
  <2>2. (s \o e)[lo + k] = s[lo + k]
    BY <2>1
  <2>3. s[lo + k] = Frame(b)[k]
    BY <1>3 DEF FrameAt
  <2> QED BY <2>2, <2>3
<1> QED BY <1>2, <1>3 DEF FrameAt

\* A frame written is one frame more at the end.
LEMMA AppendCut ==
  ASSUME NEW s \in Seq(Byte), NEW u \in Seq(Bodies), NEW b \in Bodies,
         NEW from \in Int, NEW p, Cut(p, s, u, from)
  PROVE  \E q : Cut(q, s \o Frame(b), Append(u, b), from)
<1> DEFINE n == Len(u)
           m == Len(s)
           w == HeaderSize + Len(b)
<1>1. n \in Nat /\ m \in Nat
  OBVIOUS
<1>2. w \in Nat /\ Frame(b) \in Seq(Byte) /\ Len(Frame(b)) = w
  BY FrameType, FramingAssumption
<1>3. Len(s \o Frame(b)) = m + w /\ Len(Append(u, b)) = n + 1
  BY <1>2
<1>4. \A k \in 1..w : (s \o Frame(b))[m + k] = Frame(b)[k]
  BY <1>2
<1>5. Append(u, b)[n + 1] = b /\ \A i \in 1..n : Append(u, b)[i] = u[i] /\ u[i] \in Bodies
  OBVIOUS
<1>6. /\ Rising(p, n) /\ p[0] = from /\ p[n] = m
      /\ \A i \in 1..n : FrameAt(s, u[i], p[i - 1], p[i])
  BY DEF Cut
<1>7. w = HeaderSize + Len(b) /\ m = Len(s)
  OBVIOUS
<1>a. HeaderSize \in Nat /\ Len(b) \in Nat
  BY FrameType, FramingAssumption
<1> HIDE DEF n, m, w
<1>8. m + w \in Int /\ p[n] <= m + w /\ 0 \in 0..n /\ n \in 0..n
  BY <1>1, <1>2, <1>6
<1>9. PICK q : Rising(q, n + 1) /\ q[n + 1] = m + w /\ \A i \in 0..n : q[i] = p[i]
  BY <1>1, <1>6, <1>8, AppendRising
<1>10. ASSUME NEW i \in 1..n + 1
       PROVE  FrameAt(s \o Frame(b), Append(u, b)[i], q[i - 1], q[i])
  <2>1. CASE i = n + 1
    <3>1. q[i] = m + w /\ q[i - 1] = m
      BY <2>1, <1>1, <1>6, <1>8, <1>9
    <3>2. m + w = m + HeaderSize + Len(b)
      BY <1>1, <1>7, <1>a
    <3> QED BY <2>1, <3>1, <3>2, <1>4, <1>5, <1>7 DEF FrameAt
  <2>2. CASE i \in 1..n
    <3>1. i \in 0..n /\ i - 1 \in 0..n
      BY <2>2, <1>1
    <3>2. p[i] \in Int /\ p[i - 1] \in Int /\ p[i] <= Len(s)
      BY <3>1, <1>1, <1>6, <1>7, <1>8 DEF Rising
    <3>3. FrameAt(s \o Frame(b), u[i], p[i - 1], p[i])
      BY <2>2, <3>2, <1>2, <1>5, <1>6, GrowFrame
    <3> QED BY <2>2, <3>1, <3>3, <1>5, <1>9
  <2>3. i = n + 1 \/ i \in 1..n
    BY <1>1
  <2> QED BY <2>1, <2>2, <2>3
<1>11. q[0] = from
  BY <1>6, <1>8, <1>9
<1> QED BY <1>3, <1>9, <1>10, <1>11 DEF Cut

-----------------------------------------------------------------------------
(* The invariant. *)

\* Where the frames not yet emitted begin in the bytes not yet consumed.
From == IF expected = 0 THEN 0 ELSE 0 - HeaderSize

\* The bytes read and to be read are the frames not yet emitted.
StreamIsFrames == \E p : Cut(p, input \o kernel, unread, From)

\* The length read is that of the first of them.
LengthIsFirst == expected # 0 => unread # <<>> /\ expected = Len(unread[1])

\* Only a connection holds frames.
FramesNeedConnection == unread # <<>> => open

\* At rest the loop has taken all it can.
RestIsDone ==
  pc = "rest" => IF expected = 0 THEN Len(input) < HeaderSize ELSE Len(input) < expected

Inv == TypeOK /\ StreamIsFrames /\ LengthIsFirst /\ FramesNeedConnection /\ RestIsDone

\* An empty stream is no frames.
LEMMA EmptyCut == \E p : Cut(p, <<>>, <<>>, 0)
<1> DEFINE p == [i \in 0..0 |-> 0]
<1>1. Rising(p, 0) /\ p[0] = 0
  BY DEF Rising
<1>2. Len(<<>>) = 0
  OBVIOUS
<1> HIDE DEF p
<1>3. Cut(p, <<>>, <<>>, 0)
  BY <1>1, <1>2 DEF Cut
<1> QED BY <1>3

\* The first frame of a stream that holds any.
LEMMA FirstFrame ==
  ASSUME NEW s \in Seq(Byte), NEW u \in Seq(Bodies), u # <<>>,
         NEW from \in Int, NEW p, Cut(p, s, u, from)
  PROVE  /\ u[1] \in Bodies /\ Len(u[1]) \in Nat
         /\ from + HeaderSize + Len(u[1]) <= Len(s)
         /\ FrameAt(s, u[1], from, from + HeaderSize + Len(u[1]))
<1> DEFINE n == Len(u)
<1>1. n \in Nat \ {0} /\ u[1] \in Bodies /\ Len(s) \in Nat
  OBVIOUS
<1>2. Len(u[1]) \in Nat
  BY <1>1, FrameType
<1>3. 1 \in 1..n /\ 1 \in 0..n /\ n \in 0..n /\ 1 <= n /\ 1 - 1 = 0
  BY <1>1
<1>4. Rising(p, n) /\ p[0] = from /\ p[n] = Len(s) /\ FrameAt(s, u[1], p[1 - 1], p[1])
  BY <1>3 DEF Cut
<1> HIDE DEF n
<1>5. p[1] = from + HeaderSize + Len(u[1])
  BY <1>3, <1>4 DEF FrameAt
<1>6. p[1] <= p[n]
  BY <1>3, <1>4 DEF Rising
<1> QED BY <1>1, <1>2, <1>3, <1>4, <1>5, <1>6

\* A stream without frames is empty.
LEMMA NoFrames ==
  ASSUME NEW s \in Seq(Byte), NEW from, NEW p, Cut(p, s, <<>>, from)
  PROVE  Len(s) = from
<1>1. Len(<<>>) = 0
  OBVIOUS
<1> QED BY <1>1 DEF Cut

\* A length is read only when there is a frame, and it is its body's.
LEMMA LengthIsBody ==
  ASSUME Inv, expected = 0, Len(input) >= HeaderSize
  PROVE  unread # <<>> /\ Length = Len(unread[1])
<1>1. input \in Seq(Byte) /\ kernel \in Seq(Byte) /\ unread \in Seq(Bodies)
  BY DEF Inv, TypeOK
<1>2. PICK p : Cut(p, input \o kernel, unread, 0)
  BY DEF Inv, StreamIsFrames, From
<1>3. HeaderSize \in Nat \ {0}
  BY FramingAssumption
<1>4. /\ input \o kernel \in Seq(Byte) /\ Len(input \o kernel) = Len(input) + Len(kernel)
      /\ Len(input) \in Nat /\ Len(kernel) \in Nat
      /\ \A k \in 1..Len(input) : (input \o kernel)[k] = input[k]
  BY <1>1
<1>5. unread # <<>>
  <2>1. ASSUME unread = <<>> PROVE Len(input) + Len(kernel) = 0
    BY <2>1, <1>2, <1>4, NoFrames
  <2> QED BY <2>1, <1>3, <1>4
<1>6. /\ unread[1] \in Bodies /\ Len(unread[1]) \in Nat
      /\ FrameAt(input \o kernel, unread[1], 0, 0 + HeaderSize + Len(unread[1]))
  <2>1. 0 \in Int
    OBVIOUS
  <2> HIDE DEF Cut
  <2> QED BY <2>1, <1>1, <1>2, <1>4, <1>5, FirstFrame, Zenon
<1>7. ASSUME NEW k \in 1..HeaderSize PROVE input[k] = Header(Len(unread[1]))[k]
  <2>1. k \in 1..HeaderSize + Len(unread[1]) /\ k \in 1..Len(input) /\ 0 + k = k /\ k > 0
    BY <1>3, <1>4, <1>6
  <2>2. (input \o kernel)[0 + k] = Frame(unread[1])[k]
    BY <2>1, <1>6 DEF FrameAt
  <2>3. Frame(unread[1])[k] = Header(Len(unread[1]))[k]
    BY <1>6, FrameType
  <2> QED BY <2>1, <2>2, <2>3, <1>4
<1>8. Len(unread[1]) < Place[HeaderSize]
  BY <1>6, FrameType
<1>9. Length = Len(unread[1])
  BY <1>1, <1>6, <1>7, <1>8, LengthOfHeader
<1> QED BY <1>5, <1>9

\* A body taken is the first frame's.
LEMMA BodyIsFirst ==
  ASSUME Inv, expected # 0, Len(input) >= expected
  PROVE  SubSeq(input, 1, expected) = unread[1]
<1>1. /\ input \in Seq(Byte) /\ kernel \in Seq(Byte) /\ unread \in Seq(Bodies)
      /\ expected \in Nat
  BY FramingAssumption DEF Inv, TypeOK
<1>2. PICK p : Cut(p, input \o kernel, unread, 0 - HeaderSize)
  BY DEF Inv, StreamIsFrames, From
<1>3. HeaderSize \in Nat \ {0} /\ unread # <<>> /\ expected = Len(unread[1])
  BY FramingAssumption DEF Inv, LengthIsFirst
<1>4. /\ input \o kernel \in Seq(Byte)
      /\ Len(input) \in Nat
      /\ \A k \in 1..Len(input) : (input \o kernel)[k] = input[k]
  BY <1>1
<1>5. 0 - HeaderSize \in Int
  BY <1>3
<1>6. /\ unread[1] \in Bodies /\ Len(unread[1]) \in Nat
      /\ FrameAt(input \o kernel, unread[1], 0 - HeaderSize,
                 (0 - HeaderSize) + HeaderSize + Len(unread[1]))
  BY <1>1, <1>2, <1>3, <1>4, <1>5, FirstFrame
<1>7. unread[1] \in Seq(Byte) /\ Len(unread[1]) = expected
  BY <1>3, <1>6, FrameType
<1>8. ASSUME NEW k \in 1..expected PROVE input[k] = unread[1][k]
  <2>1. /\ HeaderSize + k \in 1..HeaderSize + Len(unread[1])
        /\ (0 - HeaderSize) + (HeaderSize + k) = k /\ k > 0 /\ k \in 1..Len(input)
        /\ k \in 1..Len(unread[1])
    BY <1>1, <1>3, <1>4
  <2>2. (input \o kernel)[(0 - HeaderSize) + (HeaderSize + k)] = Frame(unread[1])[HeaderSize + k]
    BY <2>1, <1>6 DEF FrameAt
  <2>3. Frame(unread[1])[HeaderSize + k] = unread[1][k]
    BY <2>1, <1>6, FrameType
  <2> QED BY <2>1, <2>2, <2>3, <1>4
<1>9. /\ SubSeq(input, 1, expected) \in Seq(Byte) /\ Len(SubSeq(input, 1, expected)) = expected
      /\ \A k \in 1..expected : SubSeq(input, 1, expected)[k] = input[k]
  BY <1>1, <1>4
<1> QED BY <1>7, <1>8, <1>9, SeqEqual

\* Every frame not emitted has arrived only when none is left.
LEMMA HeldBack == Inv => NothingHeldBack
<1> SUFFICES ASSUME Inv, pc = "rest", kernel = <<>>, unread # <<>> PROVE FALSE
  BY DEF NothingHeldBack
<1>1. input \in Seq(Byte) /\ unread \in Seq(Bodies) /\ expected \in Nat
  BY FramingAssumption DEF Inv, TypeOK
<1>2. PICK p : Cut(p, input \o kernel, unread, From)
  BY DEF Inv, StreamIsFrames
<1>3. HeaderSize \in Nat \ {0}
  BY FramingAssumption
<1>4. input \o kernel = input /\ Len(input) \in Nat
  BY <1>1
<1>5. From \in Int
  BY <1>3 DEF From
<1>6. Len(unread[1]) \in Nat /\ From + HeaderSize + Len(unread[1]) <= Len(input)
  BY <1>1, <1>2, <1>4, <1>5, FirstFrame
<1>7. CASE expected = 0
  <2>1. Len(input) < HeaderSize /\ From = 0
    BY <1>7 DEF Inv, RestIsDone, From
  <2> QED BY <2>1, <1>3, <1>4, <1>6
<1>8. CASE expected # 0
  <2>1. Len(input) < expected /\ From = 0 - HeaderSize /\ expected = Len(unread[1])
    BY <1>8 DEF Inv, RestIsDone, LengthIsFirst, From
  <2>2. \A n \in Nat : (0 - HeaderSize) + HeaderSize + n = n
    BY <1>3
  <2>3. From + HeaderSize + Len(unread[1]) = Len(unread[1])
    BY <2>1, <2>2, <1>6
  <2> QED BY <2>1, <2>3, <1>1, <1>4, <1>6
<1> QED BY <1>7, <1>8

-----------------------------------------------------------------------------
(* The steps. *)

\* The invariant holds at the start.
LEMMA InitInv == Init => Inv
<1> SUFFICES ASSUME Init PROVE Inv
  OBVIOUS
<1>1. TypeOK
  <2>1. <<>> \in Seq(Byte) /\ <<>> \in Seq(Bodies) /\ 0 \in 0..MaxFrame
    BY EmptySeq, FramingAssumption
  <2> QED BY <2>1 DEF Init, TypeOK
<1>2. StreamIsFrames
  <2>1. input \o kernel = <<>> /\ unread = <<>> /\ From = 0
    BY DEF Init, From
  <2> QED BY <2>1, EmptyCut DEF StreamIsFrames
<1>3. LengthIsFirst /\ FramesNeedConnection /\ RestIsDone
  BY FramingAssumption DEF Init, LengthIsFirst, FramesNeedConnection, RestIsDone
<1> QED BY <1>1, <1>2, <1>3 DEF Inv

\* A new stream holds nothing of the old one.
LEMMA NewStreamInv ==
  ASSUME Inv, NEW up \in BOOLEAN, NewStream(up), pc' \in {"rest", "handler"}
  PROVE  Inv'
<1>1. TypeOK'
  BY FramingAssumption DEF Inv, TypeOK, NewStream, Forgets
<1>2. StreamIsFrames'
  <2>1. (input \o kernel)' = <<>> /\ unread' = <<>> /\ From' = 0
    BY DEF NewStream, Forgets, From
  <2> QED BY <2>1, EmptyCut DEF StreamIsFrames
<1>3. LengthIsFirst' /\ FramesNeedConnection' /\ RestIsDone'
  BY FramingAssumption
  DEF NewStream, Forgets, LengthIsFirst, FramesNeedConnection, RestIsDone
<1> QED BY <1>1, <1>2, <1>3 DEF Inv

\* What every step may use of the types.
LEMMA Types ==
  ASSUME Inv
  PROVE  /\ kernel \in Seq(Byte) /\ input \in Seq(Byte) /\ unread \in Seq(Bodies)
         /\ expected \in Nat /\ expected \in 0..MaxFrame
         /\ HeaderSize \in Nat \ {0} /\ From \in Int
         /\ input \o kernel \in Seq(Byte)
<1>1. HeaderSize \in Nat \ {0}
  BY FramingAssumption
<1>2. From \in Int
  BY <1>1 DEF From
<1>3. kernel \in Seq(Byte) /\ input \in Seq(Byte) /\ unread \in Seq(Bodies)
  BY DEF Inv, TypeOK
<1>4. expected \in Nat /\ expected \in 0..MaxFrame
  BY FramingAssumption DEF Inv, TypeOK
<1>5. input \o kernel \in Seq(Byte)
  BY <1>3
<1> QED BY <1>1, <1>2, <1>3, <1>4, <1>5

\* A frame written goes to the end.
LEMMA WriteInv == ASSUME Inv, NEW b \in Bodies, Write(b) PROVE Inv'
<1>1. kernel \in Seq(Byte) /\ input \in Seq(Byte) /\ unread \in Seq(Bodies)
  BY Types
<1>2. /\ b \in Seq(Byte) /\ Header(Len(b)) \in Seq(Byte) /\ Frame(b) \in Seq(Byte)
      /\ Len(b) \in Nat
  BY FrameType, HeaderType
<1>3. kernel' = kernel \o Frame(b) /\ unread' = Append(unread, b)
  <2>1. (kernel \o Header(Len(b))) \o b = kernel \o (Header(Len(b)) \o b)
    BY <1>1, <1>2, ConcatAssociative
  <2> QED BY <2>1 DEF Write, Frame
<1>4. TypeOK'
  BY <1>1, <1>2, <1>3 DEF Inv, TypeOK, Write
<1>5. StreamIsFrames'
  <2>1. (input \o kernel)' = (input \o kernel) \o Frame(b)
    <3>1. (input \o kernel)' = input \o (kernel \o Frame(b))
      BY <1>3 DEF Write
    <3>2. (input \o kernel) \o Frame(b) = input \o (kernel \o Frame(b))
      BY <1>1, <1>2, ConcatAssociative
    <3> QED BY <3>1, <3>2
  <2>2. From' = From
    BY DEF Write, From
  <2>3. PICK p : Cut(p, input \o kernel, unread, From)
    BY DEF Inv, StreamIsFrames
  <2>4. \E q : Cut(q, (input \o kernel) \o Frame(b), Append(unread, b), From)
    BY <2>3, Types, AppendCut
  <2> QED BY <2>1, <2>2, <2>4, <1>3 DEF StreamIsFrames
<1>6. LengthIsFirst'
  BY <1>1, <1>3 DEF Inv, LengthIsFirst, Write
<1>7. FramesNeedConnection' /\ RestIsDone'
  BY DEF Inv, FramesNeedConnection, RestIsDone, Write
<1> QED BY <1>4, <1>5, <1>6, <1>7 DEF Inv

\* A read moves bytes within the stream.
LEMMA ReadyReadInv == ASSUME Inv, ReadyRead PROVE Inv'
<1>1. kernel \in Seq(Byte) /\ input \in Seq(Byte)
  BY Types
<1>2. PICK n \in 1..Len(kernel) :
        /\ input' = input \o SubSeq(kernel, 1, n)
        /\ kernel' = SubSeq(kernel, n + 1, Len(kernel))
  BY DEF ReadyRead
<1>3. /\ SubSeq(kernel, 1, n) \in Seq(Byte) /\ SubSeq(kernel, n + 1, Len(kernel)) \in Seq(Byte)
      /\ SubSeq(kernel, 1, n) \o SubSeq(kernel, n + 1, Len(kernel)) = kernel
  <2>1. Len(kernel) \in Nat /\ n \in 1..Len(kernel)
    BY <1>1
  <2>2. SubSeq(kernel, 1, n) \in Seq(Byte) /\ SubSeq(kernel, n + 1, Len(kernel)) \in Seq(Byte)
    BY <1>1, <2>1
  <2>3. /\ 1 \in 1..Len(kernel) + 1 /\ n \in 1 - 1..Len(kernel)
        /\ Len(kernel) \in n..Len(kernel)
    BY <2>1
  <2> QED BY <1>1, <2>2, <2>3, ConcatAdjacentSubSeq, SubSeqFull
<1>4. (input \o kernel)' = input \o kernel
  <2> DEFINE read == SubSeq(kernel, 1, n)
             rest == SubSeq(kernel, n + 1, Len(kernel))
  <2>1. (input \o kernel)' = (input \o read) \o rest
    BY <1>2
  <2>2. read \in Seq(Byte) /\ rest \in Seq(Byte)
    BY <1>3
  <2>3. read \o rest = kernel
    BY <1>3
  <2> HIDE DEF read, rest
  <2>4. (input \o read) \o rest = input \o (read \o rest)
    BY <1>1, <2>2, ConcatAssociative
  <2> QED BY <2>1, <2>3, <2>4
<1>5. TypeOK'
  BY <1>1, <1>2, <1>3 DEF Inv, TypeOK, ReadyRead
<1>6. StreamIsFrames'
  BY <1>4 DEF Inv, StreamIsFrames, ReadyRead, From
<1>7. LengthIsFirst' /\ FramesNeedConnection' /\ RestIsDone'
  BY DEF Inv, LengthIsFirst, FramesNeedConnection, RestIsDone, ReadyRead
<1> QED BY <1>5, <1>6, <1>7 DEF Inv

\* Bytes consumed leave the stream from its front.
LEMMA DropFirstDrops ==
  ASSUME Inv, NEW n \in Nat, n <= Len(input)
  PROVE  /\ DropFirst(n) \in Seq(Byte) /\ DropFirst(n) \o kernel \in Seq(Byte)
         /\ Drops(input \o kernel, DropFirst(n) \o kernel, n)
<1> DEFINE s == input \o kernel
           h == DropFirst(n)
           t == h \o kernel
<1>1. kernel \in Seq(Byte) /\ input \in Seq(Byte) /\ Len(input) \in Nat /\ Len(kernel) \in Nat
  BY Types
<1>2. /\ h \in Seq(Byte) /\ Len(h) = Len(input) - n
      /\ \A k \in 1..Len(input) - n : h[k] = input[n + k]
  BY <1>1 DEF DropFirst
<1> HIDE DEF h
<1>3. /\ s \in Seq(Byte) /\ Len(s) = Len(input) + Len(kernel)
      /\ \A k \in 1..Len(input) : s[k] = input[k]
      /\ \A k \in 1..Len(kernel) : s[Len(input) + k] = kernel[k]
  BY <1>1
<1>4. /\ t \in Seq(Byte) /\ Len(t) = Len(input) - n + Len(kernel)
      /\ \A k \in 1..Len(input) - n : t[k] = h[k]
      /\ \A k \in 1..Len(kernel) : t[(Len(input) - n) + k] = kernel[k]
  <2>1. Len(h) \in Nat /\ Len(h) = Len(input) - n
    BY <1>1, <1>2
  <2>2. h \in Seq(Byte) /\ t \in Seq(Byte) /\ Len(t) = Len(h) + Len(kernel)
    BY <1>1, <1>2, ConcatProperties
  <2>3. \A k \in 1..Len(h) : t[k] = h[k]
    BY <1>1, <1>2, <2>1
  <2>4. \A k \in 1..Len(kernel) : t[Len(h) + k] = kernel[k]
    BY <1>1, <1>2, <2>1
  <2> HIDE DEF t
  <2> QED BY <2>1, <2>2, <2>3, <2>4
<1> HIDE DEF s, t
<1>5. ASSUME NEW k \in 1..Len(t) PROVE t[k] = s[k + n]
  <2>1. CASE k \in 1..Len(input) - n
    <3>1. k + n \in 1..Len(input) /\ k + n = n + k
      BY <2>1, <1>1
    <3> QED BY <2>1, <3>1, <1>2, <1>3, <1>4
  <2>2. CASE k > Len(input) - n
    <3> DEFINE j == k - (Len(input) - n)
    <3>1. j \in 1..Len(kernel) /\ (Len(input) - n) + j = k /\ Len(input) + j = k + n
      BY <2>2, <1>1, <1>4
    <3> HIDE DEF j
    <3> QED BY <3>1, <1>3, <1>4
  <2> QED BY <2>1, <2>2, <1>1
<1>6. Len(s) = Len(t) + n
  BY <1>1, <1>3, <1>4
<1> QED BY <1>2, <1>4, <1>5, <1>6 DEF s, t, h, Drops

\* A length taken is the first frame's, or the connection ends.
LEMMA ReadLengthInv == ASSUME Inv, ReadLength PROVE Inv'
<1>1. CASE Fail
  BY <1>1, NewStreamInv DEF Fail
<1>2. CASE ~Fail
  <2>1. /\ expected = 0 /\ pc = "loop" /\ Len(input) >= HeaderSize /\ ~BadLength(Length)
        /\ expected' = Length /\ input' = DropFirst(HeaderSize)
        /\ UNCHANGED <<open, pc, kernel, message, unread>>
    BY <1>2 DEF ReadLength
  <2>2. unread # <<>> /\ Length = Len(unread[1])
    BY <2>1, LengthIsBody
  <2>3. /\ unread \in Seq(Bodies) /\ HeaderSize \in Nat /\ HeaderSize <= Len(input)
        /\ MaxFrame \in Nat /\ Len(input) \in Nat
    BY <2>1, Types, FramingAssumption
  <2>4. Length \in 1..MaxFrame
    <3>1. unread[1] \in Bodies
      BY <2>2, <2>3
    <3>2. Len(unread[1]) \in Nat
      BY <3>1, FrameType
    <3> QED BY <3>2, <2>1, <2>2, <2>3 DEF BadLength
  <2>5. /\ input' \in Seq(Byte) /\ input' \o kernel \in Seq(Byte)
        /\ Drops(input \o kernel, input' \o kernel, HeaderSize)
    BY <2>1, <2>3, DropFirstDrops
  <2>6. TypeOK'
    BY <2>1, <2>4, <2>5 DEF Inv, TypeOK
  <2>7. StreamIsFrames'
    <3>1. PICK p : Cut(p, input \o kernel, unread, 0)
      BY <2>1 DEF Inv, StreamIsFrames, From
    <3>2. 0 \in Int /\ From' = 0 - HeaderSize /\ input \o kernel \in Seq(Byte)
      BY <2>1, <2>4, Types DEF From
    <3>3. \E q : Cut(q, input' \o kernel, unread, 0 - HeaderSize)
      BY <2>3, <2>5, <3>1, <3>2, DropCut, Zenon
    <3> QED BY <2>1, <3>2, <3>3 DEF StreamIsFrames
  <2>8. LengthIsFirst' /\ FramesNeedConnection' /\ RestIsDone'
    BY <2>1, <2>2 DEF Inv, LengthIsFirst, FramesNeedConnection, RestIsDone
  <2> QED BY <2>6, <2>7, <2>8 DEF Inv
<1> QED BY <1>1, <1>2

\* A body taken is the first frame's, or the connection ends.
LEMMA ReadBodyInv == ASSUME Inv, ReadBody PROVE Inv'
<1>1. CASE Fail
  BY <1>1, NewStreamInv DEF Fail
<1>2. CASE ~Fail
  <2>1. /\ pc = "loop" /\ expected # 0 /\ Len(input) >= expected
        /\ SubSeq(input, 1, expected) \in Objects
        /\ message' = SubSeq(input, 1, expected)
        /\ unread' = IF unread = <<>> THEN <<>> ELSE Tail(unread)
        /\ input' = DropFirst(expected) /\ expected' = 0 /\ pc' = "handler"
        /\ UNCHANGED <<open, kernel>>
    BY <1>2 DEF ReadBody, BodyArrived
  <2>2. unread # <<>> /\ expected = Len(unread[1]) /\ unread' = Tail(unread)
    BY <2>1 DEF Inv, LengthIsFirst
  <2>3. /\ unread \in Seq(Bodies) /\ HeaderSize \in Nat /\ expected \in Nat
        /\ expected <= Len(input) /\ input \o kernel \in Seq(Byte) /\ Len(input) \in Nat
    BY <2>1, Types
  <2>4. Tail(unread) \in Seq(Bodies)
    BY <2>2, <2>3
  <2>5. /\ input' \in Seq(Byte) /\ input' \o kernel \in Seq(Byte)
        /\ Drops(input \o kernel, input' \o kernel, expected)
    BY <2>1, <2>3, DropFirstDrops
  <2>6. TypeOK'
    BY <2>1, <2>2, <2>4, <2>5, FramingAssumption DEF Inv, TypeOK
  <2>7. StreamIsFrames'
    <3>1. PICK p : Cut(p, input \o kernel, unread, 0 - HeaderSize)
      BY <2>1 DEF Inv, StreamIsFrames, From
    <3>2. 0 - HeaderSize \in Int /\ \A n \in Nat : (0 - HeaderSize) + HeaderSize + n = n
      BY <2>3
    <3>3. PICK q : Cut(q, input \o kernel, Tail(unread),
                       (0 - HeaderSize) + HeaderSize + Len(unread[1]))
      BY <2>2, <2>3, <3>1, <3>2, TailCut, Zenon
    <3>4. Cut(q, input \o kernel, Tail(unread), expected)
      BY <2>2, <2>3, <3>2, <3>3
    <3>5. expected \in Int /\ expected - expected = 0 /\ From' = 0
      BY <2>1, <2>3 DEF From
    <3>6. \E r : Cut(r, input' \o kernel, Tail(unread), expected - expected)
      BY <2>3, <2>4, <2>5, <3>4, <3>5, DropCut, Zenon
    <3> QED BY <2>1, <2>2, <3>5, <3>6 DEF StreamIsFrames
  <2>8. FramesNeedConnection'
    BY <2>1, <2>2 DEF Inv, FramesNeedConnection
  <2>9. LengthIsFirst' /\ RestIsDone'
    BY <2>1 DEF LengthIsFirst, RestIsDone
  <2> QED BY <2>6, <2>7, <2>8, <2>9 DEF Inv
<1> QED BY <1>1, <1>2

\* consume() returns when it can take no more.
LEMMA ReturnInv == ASSUME Inv, Return PROVE Inv'
<1>1. pc' = "rest" /\ UNCHANGED <<open, kernel, input, expected, message, unread>>
  BY DEF Return
<1>2. RestIsDone'
  BY <1>1, Types DEF Return, RestIsDone, BodyArrived
<1>3. TypeOK' /\ LengthIsFirst' /\ FramesNeedConnection'
  BY <1>1 DEF Inv, TypeOK, LengthIsFirst, FramesNeedConnection
<1>4. StreamIsFrames'
  BY <1>1 DEF Inv, StreamIsFrames, From
<1> QED BY <1>2, <1>3, <1>4 DEF Inv

\* Every step keeps the invariant.
LEMMA NextInv == Inv /\ [Next]_vars => Inv'
<1> SUFFICES ASSUME Inv, [Next]_vars PROVE Inv'
  OBVIOUS
<1>1. CASE \E b \in Bodies : Write(b)
  BY <1>1, WriteInv
<1>2. CASE Renew
  BY <1>2, NewStreamInv DEF Renew
<1>3. CASE ReadyRead
  BY <1>3, ReadyReadInv
<1>4. CASE ReadLength
  BY <1>4, ReadLengthInv
<1>5. CASE ReadBody
  BY <1>5, ReadBodyInv
<1>6. CASE HandlerReturns
  BY <1>6
  DEF HandlerReturns, Inv, TypeOK, StreamIsFrames, LengthIsFirst, FramesNeedConnection,
      RestIsDone, From
<1>7. CASE Return
  BY <1>7, ReturnInv
<1>8. CASE UNCHANGED vars
  BY <1>8
  DEF vars, Inv, TypeOK, StreamIsFrames, LengthIsFirst, FramesNeedConnection,
      RestIsDone, From
<1> QED BY <1>1, <1>2, <1>3, <1>4, <1>5, <1>6, <1>7, <1>8 DEF Next

\* The invariant of consume(): the bytes that have come and were not consumed
\* are exactly the frames greetd wrote and the controller has not seen.
THEOREM Framing == Spec => []Inv
<1> QED BY InitInv, NextInv, PTL DEF Spec

\* The types of the transport's state (input_, expected_, the emitted message).
THEOREM FramingTypes == Spec => []TypeOK
<1>1. Inv => TypeOK
  BY DEF Inv
<1> QED BY <1>1, Framing, PTL

\* A frame that has arrived is never held back by consume().
THEOREM FramesDelivered == Spec => []NothingHeldBack
<1> QED BY HeldBack, Framing, PTL

-----------------------------------------------------------------------------
(* The refinement. *)

\* A step of the transport is a step of the queue or changes none of it.
LEMMA StepMaps ==
  Inv /\ [Next]_vars => [Promise!Next]_<<open, unread, message>>
<1> SUFFICES ASSUME Inv, [Next]_vars PROVE [Promise!Next]_<<open, unread, message>>
  OBVIOUS
<1>1. ASSUME NEW up \in BOOLEAN, NewStream(up) PROVE Promise!Next
  BY <1>1 DEF NewStream, Promise!Next, Promise!Renew
<1>2. ASSUME NEW b \in Bodies, Write(b) PROVE Promise!Next
  BY <1>2 DEF Write, Promise!Next, Promise!Write
<1>3. CASE ReadLength
  <2>1. CASE Fail
    BY <2>1, <1>1 DEF Fail
  <2>2. CASE ~Fail
    BY <2>2, <1>3 DEF ReadLength
  <2> QED BY <2>1, <2>2
<1>4. CASE ReadBody
  <2>1. CASE Fail
    BY <2>1, <1>1 DEF Fail
  <2>2. CASE ~Fail
    <3>1. /\ expected # 0 /\ Len(input) >= expected
          /\ SubSeq(input, 1, expected) \in Objects
          /\ message' = SubSeq(input, 1, expected)
          /\ unread' = IF unread = <<>> THEN <<>> ELSE Tail(unread)
          /\ UNCHANGED open
      BY <1>4, <2>2 DEF ReadBody, BodyArrived
    <3>2. SubSeq(input, 1, expected) = unread[1]
      BY <3>1, BodyIsFirst
    <3>3. unread # <<>> /\ open /\ expected = Len(unread[1]) /\ expected <= MaxFrame
      BY <3>1, Types, FramingAssumption DEF Inv, LengthIsFirst, FramesNeedConnection
    <3>4. Head(unread) = unread[1]
      BY Types, <3>3
    <3>5. Promise!Deliver
      BY <3>1, <3>2, <3>3, <3>4 DEF Promise!Deliver, Good
    <3> QED BY <3>5 DEF Promise!Next
  <2> QED BY <2>1, <2>2
<1>5. CASE Renew
  BY <1>5, <1>1 DEF Renew
<1>6. CASE ReadyRead \/ HandlerReturns \/ Return \/ UNCHANGED vars
  BY <1>6 DEF ReadyRead, HandlerReturns, Return, vars
<1> QED BY <1>2, <1>3, <1>4, <1>5, <1>6 DEF Next

\* consume() keeps the promise GreetdChannel.tla and the controller rely on:
\* the frames of a connection are delivered whole, in order and once.
THEOREM FramingImplementsQueue == Spec => ImplementsFrameQueue
<1>1. Init => Promise!Init
  BY DEF Init, Promise!Init
<1> QED BY <1>1, StepMaps, Framing, PTL DEF Spec, ImplementsFrameQueue, Promise!Spec
=============================================================================
