-------------------------- MODULE ValueCodecProofs ---------------------------
(***************************************************************************)
(* Proofs about ValueCodec, for values of every type and any length: what   *)
(* is saved and loaded, through the file and through the database, keeps    *)
(* its type and everything the file can keep.                               *)
(***************************************************************************)
EXTENDS ValueCodec, SequenceTheorems, WellFoundedInduction, TLAPS

-----------------------------------------------------------------------------
(***************************************************************************)
(* Induction, by the smallest counterexample                               *)
(***************************************************************************)

\* Every loop of the conversions counts up: a set of turns has a first one.
LEMMA Least ==
  ASSUME NEW T \in SUBSET Nat, T # {}
  PROVE  \E n \in T : \A m \in T : n <= m
  <1> DEFINE R == {ss \in Nat \X Nat : ss[1] < ss[2]}
  <1>1. IsWellFoundedOn(R, Nat)
    BY NatLessThanWellFounded, Zenon DEF OpToRel
  <1>2. PICK x \in T : \A y \in T : ~ (<<y, x>> \in R)
    BY <1>1, WFMin
  <1>3. ASSUME NEW y \in T PROVE x <= y
    <2>1. <<y, x>> \in Nat \X Nat /\ <<y, x>>[1] = y /\ <<y, x>>[2] = x
      OBVIOUS
    <2>2. ~ (y < x)
      BY <1>2, <2>1
    <2> QED BY <2>2
  <1> QED BY <1>3

\* A set of numbers up to n that has 0, and with each number the next, has all of them.
LEMMA UpTo ==
  ASSUME NEW n \in Nat, NEW T, 0 \in T, \A i \in 1..n : i - 1 \in T => i \in T
  PROVE  \A i \in 0..n : i \in T
  <1> DEFINE U == {i \in 0..n : i \notin T}
  <1>1. SUFFICES ASSUME U # {} PROVE FALSE
    OBVIOUS
  <1>2. PICK i \in U : \A j \in U : i <= j
    BY <1>1, Least, U \in SUBSET Nat
  <1>3. i \in 1..n /\ i - 1 \in 0..n /\ i - 1 \notin U
    BY <1>2
  <1> QED BY <1>2, <1>3

-----------------------------------------------------------------------------
(***************************************************************************)
(* FlattenSeq                                                              *)
(***************************************************************************)

\* f is the recursive function that FlattenSeq defines, on the first n of ss.
IsFlat(f, ss, n) ==
    f = [i \in 1..n |-> IF i = 1 THEN ss[i] ELSE f[i-1] \o ss[i]]

\* The concatenation of the first k of ss.
Pre(ss, k) ==
    IF k = 0 THEN <<>> ELSE (CHOOSE f : IsFlat(f, ss, Len(ss)))[k]

\* There is such a function, whatever the pieces are.
LEMMA FlatExists ==
  ASSUME NEW ss, NEW n \in Nat
  PROVE  \E f : IsFlat(f, ss, n)
  <1> DEFINE T == {i \in Nat : \E f : IsFlat(f, ss, i)}
  <1>1. 0 \in T
    <2>1. IsFlat([j \in 1..0 |-> 0], ss, 0)
      BY DEF IsFlat
    <2> QED BY <2>1
  <1>2. ASSUME NEW i \in 1..n, i - 1 \in T PROVE i \in T
    <2>1. PICK f : IsFlat(f, ss, i - 1)
      BY <1>2
    <2> DEFINE g == [j \in 1..i |-> IF j < i THEN f[j] ELSE IF j = 1 THEN ss[j] ELSE f[j-1] \o ss[j]]
    <2>2. ASSUME NEW j \in 1..i PROVE g[j] = IF j = 1 THEN ss[j] ELSE g[j-1] \o ss[j]
      <3>1. CASE j = i
        BY <3>1
      <3>2. CASE j # i
        <4>1. j \in 1..i-1 /\ j-1 < i
          BY <3>2
        <4>2. f[j] = IF j = 1 THEN ss[j] ELSE f[j-1] \o ss[j]
          BY <2>1, <4>1 DEF IsFlat
        <4>3. g[j] = f[j] /\ (j # 1 => g[j-1] = f[j-1])
          BY <4>1
        <4> QED BY <4>2, <4>3
      <3> QED BY <3>1, <3>2
    <2>3. IsFlat(g, ss, i)
      BY <2>2 DEF IsFlat
    <2> QED BY <2>3
  <1> HIDE DEF T
  <1>3. n \in T
    BY <1>1, <1>2, UpTo
  <1> QED BY <1>3 DEF T

\* FlattenSeq puts the pieces after each other, one at a time.
LEMMA FlattenSteps ==
  ASSUME NEW S, NEW ss \in Seq(Seq(S))
  PROVE  /\ Pre(ss, 0) = <<>>
         /\ \A k \in 1 .. Len(ss) : Pre(ss, k) = Pre(ss, k - 1) \o ss[k]
         /\ \A k \in 0 .. Len(ss) : Pre(ss, k) \in Seq(S)
         /\ FlattenSeq(ss) = Pre(ss, Len(ss))
  <1> DEFINE h == CHOOSE f : IsFlat(f, ss, Len(ss))
  <1>1. Len(ss) \in Nat /\ \A k \in 1 .. Len(ss) : ss[k] \in Seq(S)
    OBVIOUS
  <1>2. IsFlat(h, ss, Len(ss))
    BY <1>1, FlatExists, Zenon
  <1>3. /\ Pre(ss, 0) = <<>>
        /\ \A k \in 1 .. Len(ss) : Pre(ss, k) = h[k]
    BY DEF Pre
  <1> HIDE DEF h
  <1>4. \A k \in 1 .. Len(ss) : h[k] = IF k = 1 THEN ss[k] ELSE h[k-1] \o ss[k]
    BY <1>2 DEF IsFlat
  <1>5. ASSUME NEW k \in 1 .. Len(ss) PROVE Pre(ss, k) = Pre(ss, k - 1) \o ss[k]
    <2>1. CASE k = 1
      BY <1>1, <1>3, <1>4, <2>1, ConcatEmptySeq
    <2>2. CASE k # 1
      <3>1. k - 1 \in 1 .. Len(ss)
        BY <1>1, <2>2
      <3> QED BY <1>3, <1>4, <2>2, <3>1
    <2> QED BY <2>1, <2>2
  <1> DEFINE T == {k \in 0 .. Len(ss) : Pre(ss, k) \in Seq(S)}
  <1>6. 0 \in T
    <2>1. <<>> \in Seq(S)
      BY EmptySeq
    <2>2. 0 \in 0 .. Len(ss)
      BY <1>1
    <2> QED BY <1>3, <2>1, <2>2
  <1>7. ASSUME NEW k \in 1 .. Len(ss), k - 1 \in T PROVE k \in T
    <2>1. Pre(ss, k - 1) \in Seq(S) /\ ss[k] \in Seq(S) /\ k \in 0 .. Len(ss)
      BY <1>1, <1>7
    <2>2. Pre(ss, k - 1) \o ss[k] \in Seq(S)
      BY <2>1, ConcatProperties
    <2> QED BY <1>5, <2>1, <2>2
  <1>8. \A k \in 0 .. Len(ss) : k \in T
    <2> HIDE DEF T
    <2> QED BY <1>1, <1>6, <1>7, UpTo
  <1>9. FlattenSeq(ss) = Pre(ss, Len(ss))
    <2>1. CASE Len(ss) = 0
      BY <1>3, <2>1, EmptySeq DEF FlattenSeq
    <2>2. CASE Len(ss) # 0
      <3>1. FlattenSeq(ss) = (CHOOSE f : IsFlat(f, ss, Len(ss)))[Len(ss)]
        BY <2>2, Zenon DEF FlattenSeq, IsFlat
      <3> QED BY <1>1, <1>3, <2>2, <3>1 DEF h
    <2> QED BY <2>1, <2>2
  <1> QED BY <1>3, <1>5, <1>8, <1>9

\* What is written stays where it is.
LEMMA FlattenKeeps ==
  ASSUME NEW S, NEW ss \in Seq(Seq(S)), NEW i \in 0 .. Len(ss)
  PROVE  /\ Len(Pre(ss, i)) \in Nat
         /\ \A k \in i .. Len(ss) :
               /\ Len(Pre(ss, k)) \in Nat /\ Len(Pre(ss, i)) <= Len(Pre(ss, k))
               /\ \A p \in 1 .. Len(Pre(ss, i)) : Pre(ss, k)[p] = Pre(ss, i)[p]
  <1> DEFINE n == Len(ss)
             Kept1(k) == /\ Len(Pre(ss, i)) <= Len(Pre(ss, k))
                         /\ \A p \in 1 .. Len(Pre(ss, i)) : Pre(ss, k)[p] = Pre(ss, i)[p]
             T == {k \in 0..n : k >= i => Kept1(k)}
  <1>1. n \in Nat /\ \A k \in 0..n : Pre(ss, k) \in Seq(S) /\ Len(Pre(ss, k)) \in Nat
    <2>1. n \in Nat
      OBVIOUS
    <2>2. ASSUME NEW k \in 0..n PROVE Pre(ss, k) \in Seq(S)
      BY FlattenSteps
    <2> QED BY <2>1, <2>2, LenProperties
  <1>2. 0 \in T
    BY <1>1
  <1>3. ASSUME NEW k \in 1..n, k - 1 \in T PROVE k \in T
    <2>1. CASE k <= i
      BY <1>1, <2>1
    <2>2. CASE k > i
      <3>1. Kept1(k - 1)
        BY <1>3, <2>2
      <3>2. ss[k] \in Seq(S) /\ k - 1 \in 0..n
        OBVIOUS
      <3>3. Pre(ss, k) = Pre(ss, k - 1) \o ss[k]
        BY FlattenSteps
      <3>4. /\ Len(Pre(ss, k)) = Len(Pre(ss, k - 1)) + Len(ss[k])
            /\ \A p \in 1 .. Len(Pre(ss, k - 1)) : Pre(ss, k)[p] = Pre(ss, k - 1)[p]
        BY <1>1, <3>2, <3>3, ConcatProperties
      <3>5. Len(ss[k]) \in Nat
        BY <3>2
      <3>6. Len(Pre(ss, i)) \in Nat /\ Len(Pre(ss, k - 1)) \in Nat
        BY <1>1, <3>2
      <3>7. Len(Pre(ss, i)) <= Len(Pre(ss, k))
        <4>1. Len(Pre(ss, i)) <= Len(Pre(ss, k - 1))
          BY <3>1
        <4>2. PICK d \in Nat : Len(Pre(ss, k)) = Len(Pre(ss, k - 1)) + d
          BY <3>4, <3>5
        <4> QED BY <3>6, <4>1, <4>2
      <3>8. ASSUME NEW p \in 1 .. Len(Pre(ss, i)) PROVE Pre(ss, k)[p] = Pre(ss, i)[p]
        <4>1. Len(Pre(ss, i)) <= Len(Pre(ss, k - 1))
          BY <3>1
        <4>2. p \in 1 .. Len(Pre(ss, k - 1))
          <5> HIDE DEF T, Kept1
          <5> QED BY <3>6, <4>1
        <4> QED BY <3>1, <3>4, <4>2
      <3> QED BY <3>7, <3>8
    <2> QED BY <2>1, <2>2
  <1>4. \A k \in 0..n : k \in T
    <2> HIDE DEF T
    <2> QED BY <1>1, <1>2, <1>3, UpTo
  <1> QED BY <1>1, <1>4

\* Where the pieces are.
LEMMA FlattenAt ==
  ASSUME NEW S, NEW ss \in Seq(Seq(S)), NEW i \in 1 .. Len(ss)
  PROVE  /\ Len(Pre(ss, i - 1)) \in Nat
         /\ Len(Pre(ss, i)) = Len(Pre(ss, i - 1)) + Len(ss[i])
         /\ FlattenSeq(ss) \in Seq(S)
         /\ Len(Pre(ss, i)) <= Len(FlattenSeq(ss))
         /\ \A j \in 1 .. Len(ss[i]) : FlattenSeq(ss)[Len(Pre(ss, i - 1)) + j] = ss[i][j]
  <1>1. /\ i \in 0 .. Len(ss) /\ i - 1 \in 0 .. Len(ss)
        /\ Len(ss) \in i .. Len(ss) /\ Len(ss) \in 0 .. Len(ss)
    OBVIOUS
  <1>2. ss[i] \in Seq(S) /\ Len(ss[i]) \in Nat
    OBVIOUS
  <1>3. /\ Pre(ss, i - 1) \in Seq(S)
        /\ Pre(ss, i) = Pre(ss, i - 1) \o ss[i]
        /\ FlattenSeq(ss) = Pre(ss, Len(ss)) /\ Pre(ss, Len(ss)) \in Seq(S)
    BY <1>1, FlattenSteps
  <1>4. /\ Len(Pre(ss, i)) <= Len(FlattenSeq(ss))
        /\ \A p \in 1 .. Len(Pre(ss, i)) : FlattenSeq(ss)[p] = Pre(ss, i)[p]
    BY <1>1, <1>3, FlattenKeeps
  <1>5. Len(Pre(ss, i - 1)) \in Nat
    BY <1>3, LenProperties
  <1>6. /\ Len(Pre(ss, i)) = Len(Pre(ss, i - 1)) + Len(ss[i])
        /\ \A p \in 1 .. Len(Pre(ss, i - 1)) + Len(ss[i]) :
              Pre(ss, i)[p] = IF p <= Len(Pre(ss, i - 1)) THEN Pre(ss, i - 1)[p]
                              ELSE ss[i][p - Len(Pre(ss, i - 1))]
    <2> DEFINE q == Pre(ss, i - 1)
               r == ss[i]
    <2>1. q \in Seq(S) /\ r \in Seq(S) /\ Pre(ss, i) = q \o r
      BY <1>2, <1>3
    <2> HIDE DEF q, r
    <2>2. /\ Len(q \o r) = Len(q) + Len(r)
          /\ \A p \in 1 .. Len(q) + Len(r) :
                (q \o r)[p] = IF p <= Len(q) THEN q[p] ELSE r[p - Len(q)]
      BY <2>1, ConcatProperties
    <2> QED BY <2>1, <2>2 DEF q, r
  <1>7. ASSUME NEW j \in 1 .. Len(ss[i])
        PROVE  FlattenSeq(ss)[Len(Pre(ss, i - 1)) + j] = ss[i][j]
    <2>1. PICK p \in Nat : p = Len(Pre(ss, i - 1))
      BY <1>5
    <2>2. PICK d \in Nat : d = Len(ss[i])
      BY <1>2
    <2>3. /\ p + j \in 1 .. p + d /\ ~ (p + j <= p) /\ (p + j) - p = j
      BY <2>1, <2>2
    <2>4. Pre(ss, i)[p + j] = ss[i][j]
      BY <1>6, <2>1, <2>2, <2>3
    <2>5. FlattenSeq(ss)[p + j] = Pre(ss, i)[p + j]
      BY <1>4, <1>6, <2>1, <2>2, <2>3
    <2> QED BY <2>1, <2>4, <2>5
  <1> QED BY <1>3, <1>4, <1>5, <1>6, <1>7

\* Pieces of the same width.
Uniform(ss, S, w) ==
    ss \in Seq(Seq(S)) /\ w \in {1, 3, 4, 8} /\ \A i \in 1 .. Len(ss) : Len(ss[i]) = w

\* Pieces of the same width are at multiples of it, as the items of an array in a blob are.
LEMMA UniformLength ==
  ASSUME NEW S, NEW ss, NEW w, Uniform(ss, S, w)
  PROVE  /\ FlattenSeq(ss) \in Seq(S)
         /\ Len(FlattenSeq(ss)) = w * Len(ss)
         /\ \A i \in 0 .. Len(ss) : Len(Pre(ss, i)) = w * i
  <1> USE DEF Uniform
  <1> DEFINE n == Len(ss)
             T == {i \in 0..n : Len(Pre(ss, i)) = w * i}
  <1>1. n \in Nat
    OBVIOUS
  <1>2. 0 \in T
    <2>1. Len(Pre(ss, 0)) = 0
      BY EmptySeq DEF Pre
    <2>2. w * 0 = 0
      OBVIOUS
    <2> QED BY <1>1, <2>1, <2>2
  <1>3. ASSUME NEW i \in 1..n, i - 1 \in T PROVE i \in T
    <2>1. Len(Pre(ss, i - 1)) = w * (i - 1)
      BY <1>3
    <2>2. Len(Pre(ss, i)) = w * (i - 1) + w
      <3>1. Len(Pre(ss, i)) = Len(Pre(ss, i - 1)) + Len(ss[i])
        BY FlattenAt
      <3>2. Len(ss[i]) = w
        OBVIOUS
      <3> QED BY <2>1, <3>1, <3>2
    <2>3. w * (i - 1) + w = w * i
      OBVIOUS
    <2> QED BY <2>2, <2>3
  <1>4. ASSUME NEW i \in 0..n PROVE Len(Pre(ss, i)) = w * i
    <2>1. \A k \in 0..n : k \in T
      <3> HIDE DEF T
      <3> QED BY <1>1, <1>2, <1>3, UpTo
    <2> QED BY <2>1
  <1>5. FlattenSeq(ss) = Pre(ss, n) /\ FlattenSeq(ss) \in Seq(S)
    <2>1. n \in 0..n
      BY <1>1
    <2> QED BY <2>1, FlattenSteps
  <1>6. Len(FlattenSeq(ss)) = w * n
    BY <1>1, <1>4, <1>5
  <1> QED BY <1>4, <1>5, <1>6

\* The j-th of the i-th piece.
LEMMA UniformAt ==
  ASSUME NEW S, NEW ss, NEW w, Uniform(ss, S, w),
         NEW i \in 1 .. Len(ss), NEW j \in 1..w
  PROVE  FlattenSeq(ss)[w * (i - 1) + j] = ss[i][j]
  <1>1. i - 1 \in 0 .. Len(ss) /\ j \in 1 .. Len(ss[i])
    BY DEF Uniform
  <1>2. Len(Pre(ss, i - 1)) = w * (i - 1)
    BY <1>1, UniformLength, SMTT(30)
  <1>3. FlattenSeq(ss)[Len(Pre(ss, i - 1)) + j] = ss[i][j]
    BY <1>1, FlattenAt, ZenonT(40) DEF Uniform
  <1> QED BY <1>2, <1>3

-----------------------------------------------------------------------------
(***************************************************************************)
(* Base64                                                                  *)
(***************************************************************************)

Byte == 0..255

\* Concatenation of single bytes.
LEMMA Joined ==
  ASSUME NEW S, NEW a \in S, NEW b \in S, NEW c \in S
  PROVE  <<a>> \o <<b>> = <<a, b>> /\ <<a>> \o (<<b>> \o <<c>>) = <<a, b, c>>
  <1>1. ASSUME NEW x \in S, NEW s \in Seq(S)
        PROVE  /\ <<x>> \o s \in Seq(S) /\ Len(<<x>> \o s) = Len(s) + 1
               /\ (<<x>> \o s)[1] = x /\ \A i \in 1..Len(s) : (<<x>> \o s)[i+1] = s[i]
    OBVIOUS
  <1>2. ASSUME NEW x \in S, NEW y \in S PROVE <<x>> \o <<y>> = <<x, y>>
    <2>1. <<y>> \in Seq(S) /\ Len(<<y>>) = 1 /\ <<y>>[1] = y /\ 1 \in 1..Len(<<y>>)
      OBVIOUS
    <2> DEFINE s == <<x>> \o <<y>>
    <2>2. s \in Seq(S) /\ Len(s) = 2 /\ s[1] = x /\ s[2] = y
      BY <1>1, <2>1
    <2> HIDE DEF s
    <2>3. <<x, y>> \in Seq(S) /\ Len(<<x, y>>) = 2 /\ <<x, y>>[1] = x /\ <<x, y>>[2] = y
      OBVIOUS
    <2>4. \A i \in 1..2 : s[i] = <<x, y>>[i]
      BY <2>2, <2>3
    <2>5. s = <<x, y>>
      BY <2>2, <2>3, <2>4, SeqEqual
    <2> QED BY <2>5 DEF s
  <1>3. <<a>> \o <<b, c>> = <<a, b, c>>
    <2>1. <<b, c>> \in Seq(S) /\ Len(<<b, c>>) = 2 /\ <<b, c>>[1] = b /\ <<b, c>>[2] = c
      OBVIOUS
    <2> DEFINE s == <<a>> \o <<b, c>>
    <2>2. s \in Seq(S) /\ Len(s) = 3 /\ s[1] = a
      BY <1>1, <2>1
    <2>3. s[1 + 1] = b /\ s[2 + 1] = c
      BY <1>1, <2>1
    <2> HIDE DEF s
    <2>4. /\ <<a, b, c>> \in Seq(S) /\ Len(<<a, b, c>>) = 3
          /\ <<a, b, c>>[1] = a /\ <<a, b, c>>[2] = b /\ <<a, b, c>>[3] = c
      OBVIOUS
    <2>5. \A i \in 1..3 : s[i] = <<a, b, c>>[i]
      BY <2>2, <2>3, <2>4
    <2>6. s = <<a, b, c>>
      BY <2>2, <2>4, <2>5, SeqEqual
    <2> QED BY <2>6 DEF s
  <1> QED BY <1>2, <1>3

\* A unit of one to three bytes becomes four characters, with padding where bytes are
\* missing, and these are read as the same bytes (base64_helper.cpp:23-116).
LEMMA UnitOfThree ==
  ASSUME NEW a \in Byte, NEW b \in Byte, NEW c \in Byte
  PROVE  /\ EncodeUnit(<<a, b, c>>) \in Seq(0..63) /\ Len(EncodeUnit(<<a, b, c>>)) = 4
         /\ DecodeUnit(EncodeUnit(<<a, b, c>>)) = <<a, b, c>>
  <1> DEFINE u == EncodeUnit(<<a, b, c>>)
  <1>1. u = <<a \div 4, (a % 4) * 16 + b \div 16, (b % 16) * 4 + c \div 64, c % 64>>
    BY DEF EncodeUnit
  <1>2. /\ a \div 4 \in 0..63 /\ (a % 4) * 16 + b \div 16 \in 0..63
        /\ (b % 16) * 4 + c \div 64 \in 0..63 /\ c % 64 \in 0..63
    BY DEF Byte
  <1> HIDE DEF u
  <1>3. u \in Seq(0..63) /\ Len(u) = 4
    BY <1>1, <1>2
  <1>4. u[1] = a \div 4 /\ u[2] = (a % 4) * 16 + b \div 16
        /\ u[3] = (b % 16) * 4 + c \div 64 /\ u[4] = c % 64
    BY <1>1
  <1>5. u[3] # Pad /\ u[4] # Pad
    BY <1>2, <1>4 DEF Pad
  <1>6. /\ u[1] * 4 + u[2] \div 16 = a
        /\ ((u[2] % 16) * 16) + u[3] \div 4 = b
        /\ ((u[3] % 4) * 64) + u[4] = c
    BY <1>4, SMTT(30) DEF Byte
  <1>7. DecodeUnit(u) = <<a>> \o (<<b>> \o <<c>>)
    BY <1>5, <1>6 DEF DecodeUnit
  <1>8. <<a>> \o (<<b>> \o <<c>>) = <<a, b, c>>
    BY Joined, Zenon DEF Byte
  <1> QED BY <1>3, <1>7, <1>8 DEF u

\* The same with two bytes.
LEMMA UnitOfTwo ==
  ASSUME NEW a \in Byte, NEW b \in Byte
  PROVE  /\ EncodeUnit(<<a, b>>) \in Seq(0..64) /\ Len(EncodeUnit(<<a, b>>)) = 4
         /\ EncodeUnit(<<a, b>>)[4] = Pad /\ ~ Invalid(EncodeUnit(<<a, b>>))
         /\ DecodeUnit(EncodeUnit(<<a, b>>)) = <<a, b>>
  <1> DEFINE u == EncodeUnit(<<a, b>>)
  <1>1. u = <<a \div 4, (a % 4) * 16 + b \div 16, (b % 16) * 4, Pad>>
    BY DEF EncodeUnit
  <1>2. /\ a \div 4 \in 0..63 /\ (a % 4) * 16 + b \div 16 \in 0..63
        /\ (b % 16) * 4 \in 0..63 /\ Pad = 64
    BY DEF Byte, Pad
  <1> HIDE DEF u
  <1>3. u \in Seq(0..64) /\ Len(u) = 4
    BY <1>1, <1>2
  <1>4. u[1] = a \div 4 /\ u[2] = (a % 4) * 16 + b \div 16 /\ u[3] = (b % 16) * 4 /\ u[4] = Pad
    BY <1>1
  <1>5. u[3] # Pad /\ ~ Invalid(u)
    BY <1>2, <1>4 DEF Invalid, Digit
  <1>6. u[1] * 4 + u[2] \div 16 = a /\ ((u[2] % 16) * 16) + u[3] \div 4 = b
    BY <1>4 DEF Byte
  <1>7. DecodeUnit(u) = <<a>> \o (<<b>> \o <<>>)
    BY <1>4, <1>5, <1>6 DEF DecodeUnit
  <1>8. <<b>> \o <<>> = <<b>> /\ <<a>> \o <<b>> = <<a, b>>
    BY Joined, ConcatEmptySeq
  <1> QED BY <1>3, <1>4, <1>5, <1>7, <1>8 DEF u

\* The same with one byte.
LEMMA UnitOfOne ==
  ASSUME NEW a \in Byte
  PROVE  /\ EncodeUnit(<<a>>) \in Seq(0..64) /\ Len(EncodeUnit(<<a>>)) = 4
         /\ EncodeUnit(<<a>>)[4] = Pad /\ ~ Invalid(EncodeUnit(<<a>>))
         /\ DecodeUnit(EncodeUnit(<<a>>)) = <<a>>
  <1> DEFINE u == EncodeUnit(<<a>>)
  <1>1. u = <<a \div 4, (a % 4) * 16, Pad, Pad>>
    BY DEF EncodeUnit
  <1>2. a \div 4 \in 0..63 /\ (a % 4) * 16 \in 0..63 /\ Pad = 64
    BY DEF Byte, Pad
  <1> HIDE DEF u
  <1>3. u \in Seq(0..64) /\ Len(u) = 4
    BY <1>1, <1>2
  <1>4. u[1] = a \div 4 /\ u[2] = (a % 4) * 16 /\ u[3] = Pad /\ u[4] = Pad
    BY <1>1
  <1>5. ~ Invalid(u)
    BY <1>2, <1>4 DEF Invalid, Digit
  <1>6. u[1] * 4 + u[2] \div 16 = a
    BY <1>4 DEF Byte
  <1>7. DecodeUnit(u) = <<a>> \o <<>>
    BY <1>4, <1>6 DEF DecodeUnit
  <1>8. <<a>> \o <<>> = <<a>>
    BY ConcatEmptySeq
  <1> QED BY <1>3, <1>4, <1>5, <1>7, <1>8 DEF u

\* A unit of one to three bytes: only a short one has padding.
LEMMA UnitKept ==
  ASSUME NEW u \in Seq(Byte), Len(u) \in 1..3
  PROVE  /\ EncodeUnit(u) \in Seq(0..64) /\ Len(EncodeUnit(u)) = 4
         /\ ~ Invalid(EncodeUnit(u)) /\ DecodeUnit(EncodeUnit(u)) = u
         /\ Len(u) = 3 => EncodeUnit(u)[3] # Pad /\ EncodeUnit(u)[4] # Pad
         /\ Len(u) # 3 => EncodeUnit(u)[4] = Pad
  <1>1. CASE Len(u) = 3
    <2>1. PICK a \in Byte, b \in Byte, c \in Byte : u[1] = a /\ u[2] = b /\ u[3] = c
      BY <1>1
    <2>2. u = <<a, b, c>>
      <3>1. <<a, b, c>> \in Seq(Byte) /\ Len(<<a, b, c>>) = 3
        OBVIOUS
      <3>2. \A i \in 1 .. Len(u) : u[i] = <<a, b, c>>[i]
        BY <1>1, <2>1
      <3> QED BY <1>1, <3>1, <3>2, SeqEqual
    <2> DEFINE e == EncodeUnit(<<a, b, c>>)
    <2>3. e \in Seq(0..63) /\ Len(e) = 4 /\ DecodeUnit(e) = <<a, b, c>>
      BY UnitOfThree
    <2> HIDE DEF e
    <2>4. e[1] \in 0..63 /\ e[2] \in 0..63 /\ e[3] \in 0..63 /\ e[4] \in 0..63
      <3>1. e \in [1..4 -> 0..63]
        BY <2>3, LenProperties
      <3> QED BY <3>1
    <2>5. e[3] # Pad /\ e[4] # Pad
      <3>1. Pad \notin 0..63
        BY DEF Pad
      <3> QED BY <2>4, <3>1
    <2>6. ~ Invalid(e)
      BY <2>4, <2>5 DEF Invalid, Digit
    <2>7. e \in Seq(0..64)
      BY <2>3, SeqMonotonic, 0..63 \subseteq 0..64
    <2> QED BY <1>1, <2>2, <2>3, <2>5, <2>6, <2>7 DEF e
  <1>2. CASE Len(u) = 2
    <2>1. PICK a \in Byte, b \in Byte : u[1] = a /\ u[2] = b
      <3>1. u[1] \in Byte /\ u[2] \in Byte
        BY <1>2, ElementOfSeq, SMTT(30)
      <3> QED BY <3>1
    <2>2. u = <<a, b>>
      <3>1. <<a, b>> \in Seq(Byte) /\ Len(<<a, b>>) = 2
        OBVIOUS
      <3>2. \A i \in 1 .. Len(u) : u[i] = <<a, b>>[i]
        BY <1>2, <2>1
      <3> QED BY <1>2, <3>1, <3>2, SeqEqual
    <2> QED BY <1>2, <2>2, UnitOfTwo
  <1>3. CASE Len(u) = 1
    <2>1. PICK a \in Byte : u[1] = a
      BY <1>3
    <2>2. u = <<a>>
      <3>1. <<a>> \in Seq(Byte) /\ Len(<<a>>) = 1
        OBVIOUS
      <3>2. \A i \in 1 .. Len(u) : u[i] = <<a>>[i]
        BY <1>3, <2>1
      <3> QED BY <1>3, <3>1, <3>2, SeqEqual
    <2> QED BY <1>3, <2>2, UnitOfOne
  <1> QED BY <1>1, <1>2, <1>3

\* The units of a sequence are full but for the last, and together are the sequence.
LEMMA UnitsOf ==
  ASSUME NEW S, NEW s \in Seq(S)
  PROVE  /\ Units(s, 3) \in Seq(Seq(S))
         /\ Len(Units(s, 3)) = (Len(s) + 2) \div 3
         /\ \A i \in 1 .. Len(Units(s, 3)) :
               /\ Len(Units(s, 3)[i]) \in 1..3
               /\ i < Len(Units(s, 3)) => Len(Units(s, 3)[i]) = 3
         /\ FlattenSeq(Units(s, 3)) = s
  <1> DEFINE n == (Len(s) + 2) \div 3
             end(i) == IF 3 * i < Len(s) THEN 3 * i ELSE Len(s)
             us == Units(s, 3)
  <1>1. Len(s) \in Nat /\ n \in Nat /\ 3 * n >= Len(s) /\ 3 * (n - 1) < Len(s)
    OBVIOUS
  <1>2. us = [i \in 1..n |-> SubSeq(s, 3 * (i - 1) + 1, end(i))]
    BY <1>1 DEF Units
  <1>3. ASSUME NEW i \in 1..n
        PROVE  /\ SubSeq(s, 3 * (i - 1) + 1, end(i)) \in Seq(S)
               /\ Len(SubSeq(s, 3 * (i - 1) + 1, end(i))) = end(i) - 3 * (i - 1)
               /\ end(i) - 3 * (i - 1) \in 1..3 /\ (i < n => end(i) - 3 * (i - 1) = 3)
               /\ 3 * (i - 1) = end(i - 1)
    <2>1. /\ 3 * (i - 1) + 1 \in 1 .. Len(s) /\ end(i) \in 1 .. Len(s)
          /\ end(i) - 3 * (i - 1) \in 1..3 /\ (i < n => end(i) - 3 * (i - 1) = 3)
          /\ 3 * (i - 1) = end(i - 1)
      BY <1>1
    <2> DEFINE a == 3 * (i - 1) + 1
               b == end(i)
    <2>2. a \in 1 .. Len(s) /\ b \in 1 .. Len(s) /\ a <= b /\ b - a + 1 = b - 3 * (i - 1)
      BY <2>1
    <2> HIDE DEF a, b
    <2>3. SubSeq(s, a, b) \in Seq(S) /\ Len(SubSeq(s, a, b)) = b - a + 1
      <3>1. \A k \in a .. b : s[k] \in S
        BY <2>2
      <3>2. a \in Int /\ b \in Int
        BY <2>2
      <3> QED BY <2>2, <3>1, <3>2, SubSeqProperties
    <2> QED BY <2>1, <2>2, <2>3 DEF a, b
  <1>4. us \in Seq(Seq(S)) /\ Len(us) = n
    <2> HIDE DEF us, n, end
    <2> QED BY <1>1, <1>2, <1>3
  <1>5. \A i \in 1..n : us[i] = SubSeq(s, 3 * (i - 1) + 1, end(i))
    BY <1>2
  <1> DEFINE T == {i \in 0..n : Pre(us, i) = SubSeq(s, 1, end(i))}
  <1>6. 0 \in T
    <2>1. Pre(us, 0) = <<>> /\ end(0) = 0
      BY <1>1 DEF Pre
    <2>2. SubSeq(s, 1, 0) = <<>>
      BY SubSeqEmpty
    <2>3. Pre(us, 0) = SubSeq(s, 1, end(0)) /\ 0 \in 0..n
      <3> HIDE DEF us, n, end
      <3>1. 0 \in 0..n
        BY <1>1
      <3> QED BY <2>1, <2>2, <3>1, Zenon
    <2> HIDE DEF us, n, end
    <2> QED BY <2>3
  <1>7. ASSUME NEW i \in 1..n, i - 1 \in T PROVE i \in T
    <2>1. Pre(us, i - 1) = SubSeq(s, 1, end(i - 1))
      BY <1>7
    <2>2. Pre(us, i) = Pre(us, i - 1) \o us[i]
      <3> HIDE DEF us, n
      <3> QED BY <1>4, FlattenSteps
    <2>3. us[i] = SubSeq(s, end(i - 1) + 1, end(i))
      BY <1>3, <1>5
    <2>4. /\ 1 \in 1 .. Len(s) + 1 /\ end(i - 1) \in 1 - 1 .. Len(s)
          /\ end(i) \in end(i - 1) .. Len(s)
      BY <1>1, <1>3
    <2>5. SubSeq(s, 1, end(i - 1)) \o SubSeq(s, end(i - 1) + 1, end(i)) = SubSeq(s, 1, end(i))
      <3> HIDE DEF end
      <3> QED BY <2>4, ConcatAdjacentSubSeq
    <2>6. Pre(us, i) = SubSeq(s, 1, end(i)) /\ i \in 0..n
      <3> HIDE DEF us, n, end
      <3>1. i \in 0..n
        BY <1>1
      <3> QED BY <2>1, <2>2, <2>3, <2>5, <3>1, Zenon
    <2> HIDE DEF us, n, end
    <2> QED BY <2>6
  <1>8. \A i \in 0..n : i \in T
    <2> HIDE DEF T
    <2> QED BY <1>1, <1>6, <1>7, UpTo
  <1>9. FlattenSeq(us) = s
    <2>1. FlattenSeq(us) = Pre(us, n)
      <3> HIDE DEF us, n
      <3> QED BY <1>4, FlattenSteps
    <2>2. n \in 0..n /\ end(n) = Len(s)
      BY <1>1
    <2>3. Pre(us, n) = SubSeq(s, 1, Len(s))
      BY <1>8, <2>2
    <2> QED BY <2>1, <2>3, SubSeqFull
  <1>10. \A i \in 1..n : Len(us[i]) \in 1..3 /\ (i < n => Len(us[i]) = 3)
    BY <1>3, <1>5
  <1> QED BY <1>4, <1>9, <1>10

\* Bytes of any number are read back from their text (base64_helper.cpp:56-116).
LEMMA Base64Kept ==
  ASSUME NEW b \in Seq(Byte)
  PROVE  Decode(Encode(b)) = b
  <1> DEFINE us == Units(b, 3)
             n == Len(us)
             es == [i \in 1..n |-> EncodeUnit(us[i])]
             t == Encode(b)
             vs == Units(t, 4)
             I == {i \in 1 .. Len(vs) : vs[i][3] = Pad \/ vs[i][4] = Pad}
             stop == IF I # {} THEN Min(I) ELSE 0
             read == IF stop = 0 THEN vs ELSE SubSeq(vs, 1, stop)
  <1>1. /\ us \in Seq(Seq(Byte)) /\ n \in Nat /\ DOMAIN us = 1..n
        /\ \A i \in 1..n : us[i] \in Seq(Byte) /\ Len(us[i]) \in 1..3 /\ (i < n => Len(us[i]) = 3)
        /\ FlattenSeq(us) = b
    <2>1. us \in Seq(Seq(Byte)) /\ FlattenSeq(us) = b
      BY UnitsOf
    <2>2. \A i \in 1..n : Len(us[i]) \in 1..3 /\ (i < n => Len(us[i]) = 3)
      BY UnitsOf
    <2> HIDE DEF us
    <2> QED BY <2>1, <2>2, LenProperties
  <1>2. t = FlattenSeq(es)
    BY <1>1, Zenon DEF Encode
  <1> HIDE DEF us, t, n
  <1>3. ASSUME NEW i \in 1..n
        PROVE  /\ es[i] \in Seq(0..64) /\ Len(es[i]) = 4 /\ es[i] = EncodeUnit(us[i])
               /\ ~ Invalid(es[i]) /\ DecodeUnit(es[i]) = us[i]
               /\ i < n => es[i][3] # Pad /\ es[i][4] # Pad
    BY <1>1, UnitKept
  <1>4. es \in Seq(Seq(0..64)) /\ Len(es) = n /\ DOMAIN es = 1..n
    BY <1>1, <1>3
  <1> HIDE DEF es
  <1>5. /\ t \in Seq(0..64) /\ Len(t) = 4 * n
        /\ \A i \in 1..n : \A j \in 1..4 : t[4 * (i - 1) + j] = es[i][j]
    <2> DEFINE w == 4
               C == 0..64
    <2>1. Uniform(es, C, w)
      BY <1>3, <1>4 DEF Uniform
    <2> HIDE DEF w, C
    <2>2. FlattenSeq(es) \in Seq(C) /\ Len(FlattenSeq(es)) = w * Len(es)
      BY <2>1, UniformLength
    <2>3. ASSUME NEW i \in 1 .. Len(es), NEW j \in 1..w
          PROVE  FlattenSeq(es)[w * (i - 1) + j] = es[i][j]
      BY <2>1, UniformAt
    <2>4. ASSUME NEW i \in 1..n, NEW j \in 1..4 PROVE t[4 * (i - 1) + j] = es[i][j]
      <3>1. 4 * (i - 1) + j \in Nat
        BY <1>1
      <3> QED BY <1>2, <1>4, <2>3, <3>1 DEF w
    <2> QED BY <1>2, <1>4, <2>2, <2>4 DEF w, C
  <1>6. vs = es
    <2>1. (4 * n + 4 - 1) \div 4 = n
      BY <1>1
    <2>2. vs = [i \in 1..n |-> SubSeq(t, 4 * (i - 1) + 1, IF 4 * i < 4 * n THEN 4 * i ELSE 4 * n)]
      BY <1>5, <2>1 DEF Units
    <2>3. ASSUME NEW i \in 1..n PROVE vs[i] = es[i]
      <3> DEFINE a == 4 * (i - 1) + 1
                 c == 4 * i
      <3>1. (IF 4 * i < 4 * n THEN 4 * i ELSE 4 * n) = c
        BY <1>1
      <3>2. vs[i] = SubSeq(t, a, c)
        BY <2>2, <3>1
      <3>3. a \in Int /\ c \in Int /\ c - a + 1 = 4 /\ a <= c /\ 1 <= a /\ c <= 4 * n
        BY <1>1
      <3>4. \A j \in 1..4 : a + j - 1 = 4 * (i - 1) + j
        OBVIOUS
      <3> HIDE DEF a, c
      <3>5. \A k \in a .. c : t[k] \in 0..64
        <4> SUFFICES ASSUME NEW k \in a .. c PROVE t[k] \in 0..64
          OBVIOUS
        <4>1. k \in 1 .. Len(t)
          BY <1>1, <1>5, <3>3
        <4> QED BY <1>5, <4>1, ElementOfSeq
      <3>6. /\ SubSeq(t, a, c) \in Seq(0..64) /\ Len(SubSeq(t, a, c)) = 4
            /\ \A j \in 1..4 : SubSeq(t, a, c)[j] = t[a + j - 1]
        BY <3>3, <3>5, SubSeqProperties, SMTT(30)
      <3>7. \A j \in 1..4 : SubSeq(t, a, c)[j] = es[i][j]
        BY <1>5, <3>4, <3>6, Zenon
      <3>8. SubSeq(t, a, c) = es[i]
        <4>1. es[i] \in Seq(0..64) /\ Len(es[i]) = 4
          BY <1>3
        <4> DEFINE x == SubSeq(t, a, c)
                   y == es[i]
        <4>2. x \in Seq(0..64) /\ y \in Seq(0..64) /\ Len(x) = 4 /\ Len(y) = 4 /\ \A j \in 1..4 : x[j] = y[j]
          BY <3>6, <3>7, <4>1
        <4> HIDE DEF x, y
        <4>3. x = y
          BY <4>2, SeqEqual
        <4> QED BY <4>3 DEF x, y
      <3> QED BY <3>2, <3>8
    <2> HIDE DEF vs
    <2>4. DOMAIN vs = 1..n /\ vs \in Seq(Seq(0..64)) /\ Len(vs) = n
      <3>1. DOMAIN vs = 1..n
        BY <2>2
      <3>2. \A i \in 1..n : vs[i] \in Seq(0..64)
        BY <1>3, <2>3
      <3>3. vs \in [1..n -> Seq(0..64)]
        BY <2>2, <3>2
      <3> QED BY <1>1, <3>1, <3>3
    <2> QED BY <1>4, <2>3, <2>4, SeqEqual
  <1> HIDE DEF vs
  <1>7. stop = 0 \/ stop = n
    <2>1. I \subseteq {n}
      BY <1>1, <1>3, <1>4, <1>6
    <2>2. ASSUME I # {} PROVE Min(I) = n
      <3>1. I = {n}
        BY <2>1, <2>2
      <3> HIDE DEF I
      <3> QED BY <1>1, <3>1 DEF Min
    <2> HIDE DEF I
    <2> QED BY <2>2
  <1>8. read = es
    <2> HIDE DEF stop
    <2> QED BY <1>4, <1>6, <1>7, SubSeqFull
  <1>9. Len(t) % 4 = 0
    BY <1>1, <1>5
  <1>10. SelectInSeq(vs, LAMBDA u : u[3] = Pad \/ u[4] = Pad) = stop
    BY Zenon DEF SelectInSeq
  <1>11. Decode(t) = IF Len(t) % 4 # 0 \/ (\E i \in DOMAIN read : Invalid(read[i]))
                     THEN <<>> ELSE FlattenSeq([i \in DOMAIN read |-> DecodeUnit(read[i])])
    <2> HIDE DEF stop
    <2> QED BY <1>10, Zenon DEF Decode, vs
  <1> HIDE DEF read
  <1>12. [i \in DOMAIN read |-> DecodeUnit(read[i])] = us
    <2>1. \A i \in 1..n : DecodeUnit(es[i]) = us[i]
      BY <1>3
    <2>2. us = [i \in 1..n |-> us[i]]
      BY <1>1
    <2> QED BY <1>4, <1>8, <2>1, <2>2
  <1>13. ~ \E i \in DOMAIN read : Invalid(read[i])
    BY <1>3, <1>4, <1>8
  <1> QED BY <1>1, <1>9, <1>11, <1>12, <1>13 DEF t

-----------------------------------------------------------------------------
(***************************************************************************)
(* Numbers and strings                                                     *)
(***************************************************************************)

\* Six decimals are kept by a second conversion (std::to_string, preferences_xml_utils.cpp:227-321).
LEMMA MillionthsKept ==
  ASSUME NEW d \in Int
  PROVE  Millionths(d) \in Int /\ Millionths(Millionths(d) * 10) = Millionths(d)
  BY DEF Millionths

\* A string without a 0 is read as it is; one with a 0 is cut there, and then has none.
LEMMA CStringKept ==
  ASSUME NEW s \in Seq(Nat)
  PROVE  CString(s) \in Seq(Nat) /\ CString(CString(s)) = CString(s)
  <1> DEFINE Zeros(x) == {i \in 1 .. Len(x) : x[i] = 0}
             First0(x) == IF Zeros(x) # {} THEN Min(Zeros(x)) ELSE 0
  <1>1. ASSUME NEW x
        PROVE  CString(x) = IF First0(x) = 0 THEN x ELSE SubSeq(x, 1, First0(x) - 1)
    BY Zenon DEF CString, SelectInSeq
  <1>2. CASE Zeros(s) = {}
    BY <1>1, <1>2
  <1>3. CASE Zeros(s) # {}
    <2> DEFINE m == Min(Zeros(s))
               t == SubSeq(s, 1, m - 1)
    <2>1. m \in Zeros(s) /\ \A i \in Zeros(s) : m <= i
      <3>1. Zeros(s) \in SUBSET Nat
        OBVIOUS
      <3>2. \E i \in Zeros(s) : \A j \in Zeros(s) : i <= j
        BY <1>3, <3>1, Least
      <3> QED BY <3>2 DEF Min
    <2>2. First0(s) = m /\ m # 0 /\ m \in 1 .. Len(s)
      BY <1>3, <2>1
    <2>3. CString(s) = t
      BY <1>1, <2>2
    <2> HIDE DEF m
    <2>4. t \in Seq(Nat) /\ Len(t) = m - 1 /\ \A i \in 1 .. m - 1 : t[i] = s[i]
      BY <2>2
    <2>5. Zeros(t) = {}
      BY <2>1, <2>2, <2>4
    <2> HIDE DEF t
    <2>6. CString(t) = t
      BY <1>1, <2>5
    <2> QED BY <2>3, <2>4, <2>6
  <1> QED BY <1>2, <1>3

\* What a division leaves, by any divisor: the widths of the words are constants.
LEMMA Remainder ==
  ASSUME NEW b \in Nat \ {0}, NEW k \in Int, NEW r \in 0 .. b - 1, NEW x \in Int, x = b * k + r
  PROVE  x % b = r
  <1> DEFINE d == x \div b
             m == x % b
  <1>1. d \in Int /\ m \in Int /\ 0 <= m /\ m < b /\ x = b * d + m
    OBVIOUS
  <1> HIDE DEF d, m
  <1>2. d - k \in Int /\ b * (d - k) = r - m
    BY <1>1
  <1>3. ~ (d - k >= 1)
    <2>1. SUFFICES ASSUME d - k >= 1 PROVE FALSE
      OBVIOUS
    <2>2. b * (d - k) >= b
      BY <1>2, <2>1
    <2> QED BY <1>1, <1>2, <2>2
  <1>4. ~ (d - k <= -1)
    <2>1. SUFFICES ASSUME d - k <= -1 PROVE FALSE
      OBVIOUS
    <2>2. b * (d - k) <= -b
      BY <1>2, <2>1
    <2> QED BY <1>1, <1>2, <2>2
  <1>5. d = k
    BY <1>1, <1>2, <1>3, <1>4
  <1>6. m = r
    BY <1>1, <1>5
  <1> QED BY <1>6 DEF m

\* The sign of a BigInt goes through an unsigned word and comes back by the cast to int
\* (preferences_xml_utils.cpp:323-406).
LEMMA SignKept ==
  ASSUME NEW n \in Int, -INT32 <= 2 * n, 2 * n < INT32
  PROVE  ToInt(n % UINT64) = n
  <1> USE WidthsAssumption
  <1>1. UINT64 >= INT32
    OBVIOUS
  <1>2. CASE n >= 0
    <2>1. n % UINT64 = n /\ n % INT32 = n
      BY <1>1, <1>2
    <2> QED BY <1>2, <2>1 DEF ToInt
  <1>3. CASE n < 0
    <2>1. n % UINT64 = n + UINT64
      BY <1>1, <1>3
    <2>2. (n + UINT64) % INT32 = n + INT32
      <3> DEFINE q == UINT64 \div INT32
      <3>1. q \in Int /\ UINT64 = INT32 * q
        OBVIOUS
      <3> HIDE DEF q
      <3>2. n + UINT64 = INT32 * (q - 1) + (n + INT32)
        BY <3>1
      <3>3. n + INT32 \in 0 .. INT32 - 1 /\ q - 1 \in Int /\ n + UINT64 \in Int
        BY <1>3, <3>1
      <3> DEFINE k == q - 1
                 r == n + INT32
                 x == n + UINT64
      <3>4. k \in Int /\ r \in 0 .. INT32 - 1 /\ x \in Int /\ x = INT32 * k + r
        BY <3>2, <3>3
      <3> HIDE DEF k, r, x
      <3>5. x % INT32 = r
        BY <3>4, Remainder
      <3> QED BY <3>5 DEF x, r
    <2> QED BY <1>3, <2>1, <2>2 DEF ToInt
  <1> QED BY <1>2, <1>3

\* A word of a BigInt fits.
LEMMA WordKept ==
  ASSUME NEW n \in 0 .. UINT64 - 1
  PROVE  n % UINT64 = n
  BY WidthsAssumption

-----------------------------------------------------------------------------
(***************************************************************************)
(* The XML element                                                         *)
(***************************************************************************)

\* What the file keeps of one item, an array's or a value's own.
KeptItem(tag, x) ==
    CASE tag \in Strings -> CString(x)
      [] tag \in Reals -> KeptReal(x)
      [] OTHER -> x

\* What Reduced says, with the items apart.
ReducedData(v) ==
    CASE v.type \in Strings \cup Reals -> KeptItem(v.type, v.data)
      [] v.type \in {"stringArray", "doubleArray"} ->
           [i \in DOMAIN v.data |-> KeptItem(ChildTag[v.type], v.data[i])]
      [] OTHER -> v.data

\* The items of the types that have a text of their own.
ItemOf(tag) ==
    CASE tag \in Strings -> Seq(Nat)
      [] tag \in Reals -> RealNumbers
      [] tag = "uint8Array" -> Seq(Byte)
      [] tag = "uint64_t" -> 0 .. UINT64 - 1
      [] tag = "bool" -> Bools
      [] OTHER -> Int

LeafTags == Strings \cup Primitives \cup {"uint8Array", "int64", "uint64_t"}

\* A real is kept to six decimals, and no second conversion changes it; an infinity
\* stays one or becomes 0.
LEMMA RealKept ==
  ASSUME NEW d \in RealNumbers
  PROVE  KeptReal(d) \in RealNumbers /\ KeptReal(KeptReal(d)) = KeptReal(d)
  <1> USE WidthsAssumption DEF RealNumbers
  <1>1. CASE d = Infinity
    <2>1. KeptReal(0) = 0
      BY DEF KeptReal, Millionths
    <2> QED BY <1>1, <2>1 DEF KeptReal
  <1>2. CASE d # Infinity
    <2>1. d \in Int /\ KeptReal(d) = Millionths(d) * 10
      BY <1>2 DEF KeptReal
    <2>2. Millionths(d) \in Int /\ Millionths(Millionths(d) * 10) = Millionths(d)
      BY <2>1, MillionthsKept
    <2>3. Millionths(d) * 10 \in Int /\ Millionths(d) * 10 # Infinity
      BY <2>2
    <2> QED BY <2>1, <2>2, <2>3 DEF KeptReal
  <1> QED BY <1>1, <1>2

\* One element without children is read as what the file can keep of its item
\* (preferences_xml_utils.cpp:52-180, 227-321).
LEMMA LeafKept ==
  ASSUME NEW tag \in LeafTags, NEW x \in ItemOf(tag)
  PROVE  Converted(Leaf(tag, Text(tag, x))) = KeptItem(tag, x)
  <1> DEFINE e == Leaf(tag, Text(tag, x))
  <1>1. e.tag = tag /\ e.text = Text(tag, x)
    BY DEF Leaf
  <1> HIDE DEF e
  <1>2. CASE tag \in Strings
    BY <1>1, <1>2 DEF Converted, KeptItem, Text, Strings, Reals, e
  <1>3. CASE tag = "uint8Array"
    <2>1. x \in Seq(Byte) /\ e.text = Encode(x)
      BY <1>1, <1>3 DEF ItemOf, Text, Strings, Reals
    <2>2. Converted(e) = Decode(e.text)
      BY <1>1, <1>3 DEF Converted, Strings, Reals
    <2>3. KeptItem(tag, x) = x
      BY <1>3 DEF KeptItem, Strings, Reals
    <2> QED BY <2>1, <2>2, <2>3, Base64Kept DEF e
  <1>4. CASE tag \in Reals
    <2>1. x \in RealNumbers /\ Converted(e) = ReadReal(e.text[1]) /\ KeptItem(tag, x) = KeptReal(x)
      BY <1>1, <1>4 DEF ItemOf, Converted, KeptItem, Strings, Reals
    <2>2. e.text = IF x = Infinity THEN <<Infinity>> ELSE <<Millionths(x)>>
      BY <1>1, <1>4 DEF Text, Strings, Reals
    <2>3. CASE x = Infinity
      BY <2>1, <2>2, <2>3 DEF ReadReal, KeptReal, e
    <2>4. CASE x # Infinity
      <3>1. x \in Int /\ Millionths(x) \in Int /\ Millionths(x) # Infinity
        BY <2>1, <2>4, MillionthsKept, WidthsAssumption DEF RealNumbers
      <3> QED BY <2>1, <2>2, <2>4, <3>1 DEF ReadReal, KeptReal, e
    <2> QED BY <2>3, <2>4
  <1>5. CASE tag = "uint64_t"
    <2>1. x \in 0 .. UINT64 - 1 /\ e.text = <<x % UINT64>> /\ Converted(e) = e.text[1]
          /\ KeptItem(tag, x) = x
      BY <1>1, <1>5 DEF ItemOf, Text, Converted, KeptItem, Strings, Reals
    <2> QED BY <2>1, WordKept DEF e
  <1>6. CASE tag \in {"int", "int64_t", "bool", "int64"}
    <2>1. e.text = <<x>> /\ Converted(e) = e.text[1] /\ KeptItem(tag, x) = x
      BY <1>1, <1>6 DEF Text, Converted, KeptItem, Strings, Reals
    <2> QED BY <2>1 DEF e
  <1> QED BY <1>2, <1>3, <1>4, <1>5, <1>6 DEF LeafTags, Primitives, Reals

\* So is every child of an array.
LEMMA ChildrenKept ==
  ASSUME NEW tag \in LeafTags, NEW items \in Seq(ItemOf(tag)), NEW e, e.children = Children(tag, items)
  PROVE  ConvertedChildren(e) = [i \in DOMAIN items |-> KeptItem(tag, items[i])]
  <1>1. ASSUME NEW i \in DOMAIN items PROVE items[i] \in ItemOf(tag)
    OBVIOUS
  <1>2. /\ DOMAIN e.children = DOMAIN items
        /\ \A i \in DOMAIN items : e.children[i] = Leaf(tag, Text(tag, items[i]))
    BY DEF Children
  <1>3. \A i \in DOMAIN items : Converted(e.children[i]) = KeptItem(tag, items[i])
    BY <1>1, <1>2, LeafKept
  <1> QED BY <1>2, <1>3 DEF ConvertedChildren

\* A value is a record of its type and its data.
LEMMA ValueRecord ==
  ASSUME NEW v, IsValue(v), NEW d
  PROVE  [v EXCEPT !.data = d] = [type |-> v.type, data |-> d]
  <1>1. PICK t, x : v = [type |-> t, data |-> x]
    BY DEF IsValue
  <1> QED BY <1>1

\* What is kept of a value: its type, and what is kept of its items.
LEMMA ReducedIs ==
  ASSUME NEW v, IsValue(v)
  PROVE  Reduced(v) = [type |-> v.type, data |-> ReducedData(v)]
  <1> USE DEF ReducedData, KeptItem
  <1>1. CASE v.type \in Strings
    <2>1. Reduced(v) = [v EXCEPT !.data = CString(v.data)] /\ ReducedData(v) = CString(v.data)
      BY <1>1 DEF Reduced, Strings, Reals
    <2> QED BY <2>1, ValueRecord
  <1>2. CASE v.type = "stringArray"
    <2> DEFINE d == [i \in DOMAIN v.data |-> CString(v.data[i])]
    <2>1. Reduced(v) = [v EXCEPT !.data = d]
      BY <1>2 DEF Reduced, Strings, Reals
    <2>2. ReducedData(v) = d
      BY <1>2 DEF Strings, Reals, ChildTag
    <2> HIDE DEF d
    <2> QED BY <2>1, <2>2, ValueRecord
  <1>3. CASE v.type \in Reals
    <2>1. Reduced(v) = [v EXCEPT !.data = KeptReal(v.data)] /\ ReducedData(v) = KeptReal(v.data)
      BY <1>3 DEF Reduced, Strings, Reals
    <2> QED BY <2>1, ValueRecord
  <1>4. CASE v.type = "doubleArray"
    <2> DEFINE d == [i \in DOMAIN v.data |-> KeptReal(v.data[i])]
    <2>1. Reduced(v) = [v EXCEPT !.data = d]
      BY <1>4 DEF Reduced, Strings, Reals
    <2>2. ReducedData(v) = d
      BY <1>4 DEF Strings, Reals, ChildTag
    <2> HIDE DEF d
    <2> QED BY <2>1, <2>2, ValueRecord
  <1>5. CASE v.type \notin Strings \cup Reals \cup {"stringArray", "doubleArray"}
    <2>1. Reduced(v) = v /\ ReducedData(v) = v.data
      BY <1>5 DEF Reduced
    <2> QED BY <2>1 DEF IsValue
  <1> QED BY <1>1, <1>2, <1>3, <1>4, <1>5

\* What the file keeps is a value of the same type, and the file keeps all of it.
LEMMA ReducedStays ==
  ASSUME NEW v, IsValue(v)
  PROVE  IsValue(Reduced(v)) /\ Reduced(v).type = v.type /\ Reduced(Reduced(v)) = Reduced(v)
  <1> DEFINE k == Reduced(v)
  <1>1. k = [type |-> v.type, data |-> ReducedData(v)]
    BY ReducedIs
  <1>2. k.type = v.type /\ k.data = ReducedData(v) /\ k = [type |-> k.type, data |-> k.data]
    BY <1>1
  <1> HIDE DEF k
  <1>3. v.type \in Types /\ v.data \in DataOf(v.type)
    BY DEF IsValue
  <1>4. ReducedData(v) \in DataOf(v.type) /\ ReducedData(k) = ReducedData(v)
    <2>1. CASE v.type \in Strings
      <3>1. v.data \in Seq(Nat) /\ DataOf(v.type) = Seq(Nat)
        BY <1>3, <2>1 DEF DataOf, Strings, Reals
      <3>2. ReducedData(v) = CString(v.data) /\ ReducedData(k) = CString(CString(v.data))
        BY <1>2, <2>1 DEF ReducedData, KeptItem, Strings, Reals
      <3> QED BY <3>1, <3>2, CStringKept
    <2>2. CASE v.type \in Reals
      <3>1. v.data \in RealNumbers /\ DataOf(v.type) = RealNumbers
        BY <1>3, <2>2 DEF DataOf, Strings, Reals
      <3>2. ReducedData(v) = KeptReal(v.data) /\ ReducedData(k) = KeptReal(KeptReal(v.data))
        BY <1>2, <2>2 DEF ReducedData, KeptItem, Strings, Reals
      <3> QED BY <3>1, <3>2, RealKept
    <2>3. CASE v.type = "stringArray"
      <3>1. v.data \in Seq(Seq(Nat)) /\ DataOf(v.type) = Seq(Seq(Nat))
        BY <1>3, <2>3 DEF DataOf, Strings, Reals
      <3>2. /\ ReducedData(v) = [i \in DOMAIN v.data |-> CString(v.data[i])]
            /\ ReducedData(k) = [i \in DOMAIN k.data |-> CString(k.data[i])]
        BY <1>2, <2>3 DEF ReducedData, KeptItem, Strings, Reals, ChildTag
      <3> DEFINE s == v.data
                 t == k.data
      <3>3. /\ s \in Seq(Seq(Nat)) /\ t = [i \in DOMAIN s |-> CString(s[i])]
            /\ ReducedData(k) = [i \in DOMAIN t |-> CString(t[i])]
        BY <1>2, <3>1, <3>2
      <3> HIDE DEF s, t
      <3>4. \A i \in DOMAIN s : CString(s[i]) \in Seq(Nat) /\ CString(CString(s[i])) = CString(s[i])
        BY <3>3, CStringKept
      <3> DEFINE n == Len(s)
                 C(x) == CString(x)
      <3>5. n \in Nat /\ DOMAIN s = 1..n
        BY <3>3
      <3> HIDE DEF n, C
      <3>6. /\ t = [i \in 1..n |-> C(s[i])] /\ ReducedData(k) = [i \in DOMAIN t |-> C(t[i])]
            /\ \A i \in 1..n : C(s[i]) \in Seq(Nat) /\ C(C(s[i])) = C(s[i])
        BY <3>3, <3>4, <3>5 DEF C
      <3>7. t \in [1..n -> Seq(Nat)] /\ DOMAIN t = 1..n /\ \A i \in 1..n : t[i] = C(s[i])
        BY <3>6
      <3>8. t \in Seq(Seq(Nat))
        BY <3>5, <3>7, SeqDef
      <3>9. ReducedData(k) = t
        BY <3>6, <3>7
      <3> QED BY <1>2, <3>1, <3>8, <3>9 DEF t
    <2>4. CASE v.type = "doubleArray"
      <3>1. v.data \in Seq(RealNumbers) /\ DataOf(v.type) = Seq(RealNumbers)
        BY <1>3, <2>4 DEF DataOf, Strings, Reals
      <3>2. /\ ReducedData(v) = [i \in DOMAIN v.data |-> KeptReal(v.data[i])]
            /\ ReducedData(k) = [i \in DOMAIN k.data |-> KeptReal(k.data[i])]
        BY <1>2, <2>4 DEF ReducedData, KeptItem, Strings, Reals, ChildTag
      <3> DEFINE s == v.data
                 t == k.data
      <3>3. /\ s \in Seq(RealNumbers) /\ t = [i \in DOMAIN s |-> KeptReal(s[i])]
            /\ ReducedData(k) = [i \in DOMAIN t |-> KeptReal(t[i])]
        BY <1>2, <3>1, <3>2
      <3> HIDE DEF s, t
      <3>4. \A i \in DOMAIN s : KeptReal(s[i]) \in RealNumbers /\ KeptReal(KeptReal(s[i])) = KeptReal(s[i])
        BY <3>3, RealKept
      <3>5. t \in Seq(RealNumbers) /\ ReducedData(k) = t
        BY <3>3, <3>4
      <3> QED BY <1>2, <3>1, <3>5 DEF t
    <2>5. CASE v.type \notin Strings \cup Reals \cup {"stringArray", "doubleArray"}
      BY <1>2, <1>3, <2>5 DEF ReducedData
    <2> QED BY <2>1, <2>2, <2>3, <2>4, <2>5
  <1>5. IsValue(k)
    BY <1>2, <1>3, <1>4 DEF IsValue
  <1>6. Reduced(k) = [type |-> k.type, data |-> ReducedData(k)]
    BY <1>5, ReducedIs
  <1>7. Reduced(k) = k
    BY <1>2, <1>4, <1>6
  <1> QED BY <1>2, <1>5, <1>7 DEF k

\* An array is read as what the file can keep of its items (preferences_xml_utils.cpp:323-406).
LEMMA ArrayKept ==
  ASSUME NEW v, IsValue(v), v.type \in Arrays
  PROVE  ReadXmlElement(WriteXmlElement(v)) = Reduced(v)
  <1> DEFINE e == WriteXmlElement(v)
             tag == ChildTag[v.type]
  <1>1. e = [tag |-> v.type, text |-> <<>>, children |-> Children(tag, v.data)]
    BY DEF WriteXmlElement, Arrays, Strings, Primitives, TypeTag
  <1>2. e.tag = v.type /\ e.children = Children(tag, v.data)
    BY <1>1
  <1>3. tag \in LeafTags /\ v.data \in Seq(ItemOf(tag))
    BY DEF IsValue, Arrays, ChildTag, LeafTags, ItemOf, DataOf, Strings, Reals, Primitives
  <1> HIDE DEF e
  <1>4. ConvertedChildren(e) = [i \in DOMAIN v.data |-> KeptItem(tag, v.data[i])]
    BY <1>2, <1>3, ChildrenKept
  <1>5. ReadXmlElement(e) = [type |-> v.type, data |-> ConvertedChildren(e)]
    BY <1>2 DEF ReadXmlElement, Arrays, Strings, Primitives, TypeNamed
  <1>6. [i \in DOMAIN v.data |-> KeptItem(tag, v.data[i])] = ReducedData(v)
    <2>1. CASE v.type \in {"stringArray", "doubleArray"}
      BY <2>1 DEF ReducedData, Strings, Reals
    <2>2. CASE v.type \in {"boolArray", "intArray", "int64Array"}
      <3>1. ReducedData(v) = v.data
        BY <2>2 DEF ReducedData, Strings, Reals
      <3>2. \A i \in DOMAIN v.data : KeptItem(tag, v.data[i]) = v.data[i]
        BY <2>2 DEF KeptItem, ChildTag, Strings, Reals
      <3>3. v.data = [i \in DOMAIN v.data |-> v.data[i]]
        BY <1>3
      <3> QED BY <3>1, <3>2, <3>3
    <2> QED BY <2>1, <2>2 DEF Arrays
  <1> QED BY <1>4, <1>5, <1>6, ReducedIs DEF e

\* A BigInt is read with its words and its sign, the last child
\* (preferences_xml_utils.cpp:323-406, 802-842).
LEMMA BigIntKept ==
  ASSUME NEW v, IsValue(v), v.type = "BigInt"
  PROVE  ReadXmlElement(WriteXmlElement(v)) = Reduced(v)
  <1> DEFINE e == WriteXmlElement(v)
             words == v.data.words
             sign == v.data.sign
             items == Append(words, sign)
             n == Len(words)
             got == ConvertedChildren(e)
  <1>1. e = [tag |-> "BigInt", text |-> <<>>, children |-> Children("uint64_t", items)]
    BY DEF WriteXmlElement, Arrays, Strings, Primitives
  <1>2. e.tag = "BigInt" /\ e.children = Children("uint64_t", items)
    BY <1>1
  <1>3. v.data \in [words : Seq(0 .. UINT64 - 1), sign : {m \in Int : -INT32 <= 2 * m /\ 2 * m < INT32}]
    BY DEF IsValue, DataOf, Strings, Reals
  <1> DEFINE W == 0 .. UINT64 - 1
  <1>4. /\ words \in Seq(W) /\ n \in Nat /\ v.data = [words |-> words, sign |-> sign]
        /\ sign \in Int /\ -INT32 <= 2 * sign /\ 2 * sign < INT32
    BY <1>3
  <1>5. v = [type |-> "BigInt", data |-> v.data]
    BY DEF IsValue
  <1> HIDE DEF e, words, sign, W
  <1>6. /\ DOMAIN items = 1 .. n + 1 /\ items[n + 1] = sign
        /\ \A i \in 1..n : items[i] = words[i] /\ words[i] \in W
    <2>1. \A i \in 1..n : words[i] \in W
      BY <1>4
    <2>2. words \in [1..n -> Int]
      BY <1>4, <2>1, WidthsAssumption DEF W
    <2>3. words \in Seq(Int) /\ sign \in Int
      BY <1>4, <2>2, SeqDef
    <2> HIDE DEF n
    <2>4. Len(words) = n
      BY DEF n
    <2>5. /\ items \in Seq(Int) /\ Len(items) = n + 1 /\ items[n + 1] = sign
          /\ \A i \in 1..n : items[i] = words[i]
      BY <1>4, <2>3, <2>4, AppendProperties
    <2> HIDE DEF items
    <2>6. DOMAIN items = 1 .. n + 1
      BY <1>4, <2>5
    <2> QED BY <2>1, <2>5, <2>6
  <1> HIDE DEF items, n
  <1>7. got = [i \in 1 .. n + 1 |-> items[i] % UINT64]
    <2>1. DOMAIN e.children = 1 .. n + 1
      BY <1>2, <1>6 DEF Children
    <2>2. \A i \in 1 .. n + 1 : Converted(e.children[i]) = items[i] % UINT64
      <3>1. ASSUME NEW x PROVE Converted(Leaf("uint64_t", Text("uint64_t", x))) = x % UINT64
        BY DEF Converted, Leaf, Text, Strings, Reals
      <3>2. \A i \in 1 .. n + 1 : e.children[i] = Leaf("uint64_t", Text("uint64_t", items[i]))
        BY <1>2, <1>6 DEF Children
      <3> QED BY <3>1, <3>2
    <2> QED BY <2>1, <2>2 DEF ConvertedChildren
  <1> HIDE DEF got
  <1>8. /\ got \in Seq(W) /\ Len(got) = n + 1
        /\ \A i \in 1..n : got[i] = words[i]
    <2>1. ASSUME NEW i \in 1 .. n + 1 PROVE items[i] \in Int
      <3>1. i \in 1..n \/ i = n + 1
        BY <1>4 DEF n
      <3>2. W \subseteq Int
        BY WidthsAssumption DEF W
      <3> QED BY <1>4, <1>6, <3>1, <3>2
    <2>2. \A i \in 1 .. n + 1 : items[i] % UINT64 \in W
      BY <2>1, WidthsAssumption DEF W
    <2>3. got \in [1 .. n + 1 -> W] /\ n + 1 \in Nat
      BY <1>4, <1>7, <2>2 DEF n
    <2>4. got \in Seq(W) /\ Len(got) = n + 1
      BY <2>3, SeqDef, LenProperties
    <2>5. \A i \in 1..n : words[i] % UINT64 = words[i]
      BY <1>6, WordKept DEF W
    <2>6. \A i \in 1..n : i \in 1 .. n + 1
      BY <1>4
    <2>7. \A i \in 1..n : got[i] = items[i] % UINT64
      BY <1>7, <2>6, Zenon
    <2>8. \A i \in 1..n : got[i] = words[i]
      BY <1>6, <2>5, <2>7, Zenon
    <2> QED BY <2>4, <2>8, Zenon
  <1>9. got[n + 1] = sign % UINT64
    BY <1>4, <1>6, <1>7
  <1>10. SubSeq(got, 1, n) = words
    <2>1. 1 \in 1 .. Len(got) + 1 /\ n \in 1 - 1 .. Len(got) /\ n \in Nat
      BY <1>4, <1>8
    <2>2. SubSeq(got, 1, n) \in Seq(W) /\ Len(SubSeq(got, 1, n)) = n
          /\ \A i \in 1..n : SubSeq(got, 1, n)[i] = got[i]
      BY <1>8, <2>1
    <2> QED BY <1>4, <1>8, <2>2, SeqEqual DEF n
  <1>11. BigIntOf(got) = [words |-> words, sign |-> sign]
    <2>1. got # <<>> /\ Len(got) - 1 = n
      BY <1>4, <1>8
    <2>2. ToInt(got[Len(got)]) = sign
      BY <1>4, <1>8, <1>9, SignKept
    <2> QED BY <1>10, <2>1, <2>2 DEF BigIntOf
  <1>12. ReadXmlElement(e) = [type |-> "BigInt", data |-> BigIntOf(got)]
    BY <1>2 DEF ReadXmlElement, Arrays, Strings, Primitives, TypeNamed, got
  <1>13. Reduced(v) = v
    BY DEF Reduced, Strings, Reals
  <1> QED BY <1>4, <1>5, <1>11, <1>12, <1>13 DEF e

\* An element that is written is read as what the file can keep of the value: the reader
\* knows every tag (preferences_xml_utils.cpp:52-180, 227-406, 802-842).
LEMMA ElementKept ==
  ASSUME NEW v, IsValue(v), v.type # "monostate"
  PROVE  ReadXmlElement(WriteXmlElement(v)) = Reduced(v)
  <1>1. CASE v.type \in Strings \cup Primitives \cup {"uint8Array"}
    <2> DEFINE e == WriteXmlElement(v)
    <2>1. e = Leaf(TypeTag(v.type), Text(v.type, v.data))
      BY <1>1 DEF WriteXmlElement, Strings, Primitives, Arrays
    <2>2. e.tag = TypeTag(v.type) /\ e.text = Text(v.type, v.data)
      BY <2>1 DEF Leaf
    <2>3. TypeNamed(e.tag) = v.type
      BY <1>1, <2>2 DEF TypeNamed, TypeTag, Strings, Primitives
    <2> HIDE DEF e
    <2>4. ReadXmlElement(e) = [type |-> v.type, data |-> Converted(e)]
      <3>1. e.tag \notin Arrays /\ e.tag # "BigInt"
        BY <1>1, <2>2 DEF TypeTag, Arrays, Strings, Primitives
      <3> QED BY <1>1, <2>3, <3>1 DEF ReadXmlElement
    <2>5. v.type \in LeafTags /\ v.data \in ItemOf(v.type)
      BY <1>1 DEF IsValue, LeafTags, ItemOf, DataOf, Strings, Reals, Primitives, Byte
    <2>6. Converted(e) = KeptItem(v.type, v.data)
      <3>1. Converted(Leaf(v.type, Text(v.type, v.data))) = KeptItem(v.type, v.data)
        BY <2>5, LeafKept
      <3>2. CASE v.type # "int64_t"
        BY <2>1, <3>1, <3>2 DEF TypeTag
      <3>3. CASE v.type = "int64_t"
        BY <2>2, <3>3 DEF TypeTag, Converted, Text, KeptItem, Strings, Reals
      <3> QED BY <3>2, <3>3
    <2>7. KeptItem(v.type, v.data) = ReducedData(v)
      BY <1>1 DEF KeptItem, ReducedData, Strings, Reals, Primitives
    <2> QED BY <2>4, <2>6, <2>7, ReducedIs DEF e
  <1>2. CASE v.type \in Arrays
    BY <1>2, ArrayKept
  <1>3. CASE v.type = "BigInt"
    BY <1>3, BigIntKept
  <1> QED BY <1>1, <1>2, <1>3 DEF IsValue, Types

\* The element of a value that is not lost is well-formed; of those that are lost only a
\* monostate leaves the file readable (preferences_xml_utils.cpp:427, 811, 829).
LEMMA WellFormedIs ==
  ASSUME NEW v, IsValue(v), v.type # "monostate"
  PROVE  WellFormed(WriteXmlElement(v)) <=> ~Lost(v)
  <1> DEFINE e == WriteXmlElement(v)
  <1>1. CASE v.type \in Strings \cup Primitives \cup {"uint8Array"}
    <2>1. e = Leaf(TypeTag(v.type), Text(v.type, v.data))
      BY <1>1 DEF WriteXmlElement, Strings, Primitives, Arrays
    <2>2. e.tag = TypeTag(v.type) /\ e.text = Text(v.type, v.data) /\ e.children = <<>>
      BY <2>1 DEF Leaf
    <2> HIDE DEF e
    <2>3. WellFormed(e) <=> (e.tag \in Strings => Allowed(e.text))
      BY <2>2 DEF WellFormed
    <2>4. CASE v.type \in Strings
      <3>1. e.tag = v.type /\ e.text = CString(v.data) /\ v.type # "stringArray"
        BY <2>2, <2>4 DEF TypeTag, Text, Strings, Reals
      <3> QED BY <2>3, <2>4, <3>1 DEF Lost, e
    <2>5. CASE v.type \notin Strings
      <3>1. e.tag \notin Strings
        BY <1>1, <2>2, <2>5 DEF TypeTag, Strings, Primitives
      <3>2. ~Lost(v)
        BY <1>1, <2>5 DEF Lost, Strings, Primitives
      <3> QED BY <2>3, <3>1, <3>2 DEF e
    <2> QED BY <2>4, <2>5
  <1>2. ASSUME NEW tag, NEW items, e.children = Children(tag, items), e.tag \notin Strings
        PROVE  WellFormed(e) <=> (tag \in Strings => \A i \in DOMAIN items : Allowed(CString(items[i])))
    <2> HIDE DEF e
    <2>1. /\ DOMAIN e.children = DOMAIN items
          /\ \A i \in DOMAIN items : /\ e.children[i].tag = tag
                                     /\ e.children[i].text = Text(tag, items[i])
      BY <1>2 DEF Children, Leaf
    <2>2. tag \in Strings => \A i \in DOMAIN items : Text(tag, items[i]) = CString(items[i])
      BY DEF Text, Strings, Reals
    <2> QED BY <1>2, <2>1, <2>2 DEF WellFormed
  <1>3. CASE v.type \in Arrays
    <2>1. e = [tag |-> TypeTag(v.type), text |-> <<>>, children |-> Children(ChildTag[v.type], v.data)]
      BY <1>3 DEF WriteXmlElement, Strings, Primitives, Arrays
    <2>2. e.tag \notin Strings /\ e.children = Children(ChildTag[v.type], v.data)
      BY <1>3, <2>1 DEF TypeTag, Strings, Arrays
    <2>3. ChildTag[v.type] \in Strings <=> v.type = "stringArray"
      BY <1>3 DEF ChildTag, Strings, Arrays
    <2>4. v.type \notin Strings
      BY <1>3 DEF Strings, Arrays
    <2> HIDE DEF e
    <2> QED BY <1>2, <2>2, <2>3, <2>4 DEF Lost, e
  <1>4. CASE v.type = "BigInt"
    <2>1. e = [tag |-> v.type, text |-> <<>>,
               children |-> Children("uint64_t", Append(v.data.words, v.data.sign))]
      BY <1>4 DEF WriteXmlElement, Strings, Primitives, Arrays
    <2>2. e.tag \notin Strings /\ e.children = Children("uint64_t", Append(v.data.words, v.data.sign))
      BY <1>4, <2>1 DEF Strings
    <2>3. "uint64_t" \notin Strings /\ ~Lost(v)
      BY <1>4 DEF Strings, Lost
    <2> HIDE DEF e
    <2> QED BY <1>2, <2>2, <2>3 DEF e
  <1> QED BY <1>1, <1>3, <1>4 DEF IsValue, Types

\* What the file has made of a value is not lost when it is saved again.
LEMMA ReducedNotLost ==
  ASSUME NEW v, IsValue(v), ~Lost(v)
  PROVE  ~Lost(Reduced(v))
  <1> DEFINE k == Reduced(v)
  <1>1. k.type = v.type /\ k.data = ReducedData(v)
    BY ReducedIs
  <1> HIDE DEF k
  <1>2. CASE v.type \in Strings
    <2>1. k.data = CString(v.data) /\ v.data \in Seq(Nat)
      BY <1>1, <1>2 DEF ReducedData, KeptItem, IsValue, DataOf, Strings, Reals
    <2>2. CString(k.data) = CString(v.data)
      BY <2>1, CStringKept
    <2>3. v.type # "stringArray" /\ v.type # "monostate"
      BY <1>2 DEF Strings
    <2> QED BY <1>1, <1>2, <2>2, <2>3 DEF Lost, k
  <1>3. CASE v.type = "stringArray"
    <2>1. k.data = [i \in DOMAIN v.data |-> CString(v.data[i])] /\ v.data \in Seq(Seq(Nat))
      BY <1>1, <1>3 DEF ReducedData, KeptItem, ChildTag, IsValue, DataOf, Strings, Reals
    <2>2. \A i \in DOMAIN v.data : v.data[i] \in Seq(Nat)
      BY <2>1
    <2>3. \A i \in DOMAIN v.data : CString(CString(v.data[i])) = CString(v.data[i])
      BY <2>2, CStringKept
    <2>4. DOMAIN k.data = DOMAIN v.data /\ \A i \in DOMAIN v.data : CString(k.data[i]) = CString(v.data[i])
      BY <2>1, <2>3
    <2>5. v.type \notin Strings
      BY <1>3 DEF Strings
    <2> QED BY <1>1, <1>3, <2>4, <2>5 DEF Lost, k
  <1>4. CASE v.type \notin Strings \cup {"stringArray"}
    BY <1>1, <1>4 DEF Lost, k
  <1> QED BY <1>2, <1>3, <1>4

-----------------------------------------------------------------------------
(***************************************************************************)
(* The blob                                                                *)
(***************************************************************************)

\* What is in a blob: the first bytes of fields, and the rest of them.
Bytes == Types \cup Int \cup Bools \cup {Infinity, Rest}

\* The widths of fields.
IsWidth(n) == n \in {1, 4, 8}

\* A field of n bytes begins with its value (MarshallingBasicValueInner,
\* preferences_value_parcel.cpp:104-161).
LEMMA FieldIs ==
  ASSUME NEW x \in Bytes, NEW n, IsWidth(n)
  PROVE  Field(x, n) \in Seq(Bytes) /\ Len(Field(x, n)) = n /\ Field(x, n)[1] = x
  <1> USE DEF IsWidth
  <1> DEFINE r == [i \in 1 .. n - 1 |-> Rest]
  <1>1. n - 1 \in Nat /\ Rest \in Bytes
    BY DEF Bytes
  <1>2. r \in [1 .. n - 1 -> Bytes]
    BY <1>1
  <1>3. r \in Seq(Bytes) /\ Len(r) = n - 1
    BY <1>1, <1>2
  <1>4. Field(x, n) = <<x>> \o r
    BY DEF Field
  <1> HIDE DEF r
  <1>5. <<x>> \in Seq(Bytes) /\ Len(<<x>>) = 1 /\ <<x>>[1] = x
    OBVIOUS
  <1> QED BY <1>1, <1>3, <1>4, <1>5

\* A field and what follows it.
Followed(g, x, n, s) == g = Field(x, n) \o s

\* The field is read at its first byte, what follows it after its last.
LEMMA FieldThen ==
  ASSUME NEW x \in Bytes, NEW n, IsWidth(n), NEW s \in Seq(Bytes), NEW g, Followed(g, x, n, s)
  PROVE  /\ g \in Seq(Bytes) /\ Len(g) = n + Len(s) /\ g[1] = x
         /\ \A j \in 1 .. Len(s) : g[n + j] = s[j]
  <1> DEFINE f == Field(x, n)
  <1>1. f \in Seq(Bytes) /\ Len(f) = n /\ f[1] = x /\ g = f \o s
    BY FieldIs DEF Followed
  <1> HIDE DEF f
  <1>2. Len(s) \in Nat /\ n \in Nat /\ n >= 1
    BY DEF IsWidth
  <1>3. /\ f \o s \in Seq(Bytes) /\ Len(f \o s) = n + Len(s)
        /\ \A i \in 1 .. n + Len(s) : (f \o s)[i] = IF i <= n THEN f[i] ELSE s[i - n]
    BY <1>1, ConcatProperties
  <1>4. (f \o s)[1] = x
    BY <1>1, <1>2, <1>3
  <1>5. ASSUME NEW j \in 1 .. Len(s) PROVE (f \o s)[n + j] = s[j]
    <2>1. n + j \in 1 .. n + Len(s) /\ ~ (n + j <= n) /\ (n + j) - n = j
      BY <1>2
    <2> QED BY <1>3, <2>1
  <1> QED BY <1>1, <1>3, <1>4, <1>5

\* A blob: its type, a field and what follows them.
IsBlob(m, t, x, n, s) == m = <<t>> \o (Field(x, n) \o s)

\* Where they are in it (MarshallingPreferenceValue,
\* preferences_value_parcel.cpp:418-449).
LEMMA Layout ==
  ASSUME NEW t \in Bytes, NEW x \in Bytes, NEW n, IsWidth(n), NEW s \in Seq(Bytes),
         NEW m, IsBlob(m, t, x, n, s)
  PROVE  /\ m \in Seq(Bytes) /\ Len(m) = 1 + n + Len(s)
         /\ m[1] = t /\ m[2] = x
         /\ \A j \in 1 .. Len(s) : m[1 + n + j] = s[j]
  <1> DEFINE p == Len(s)
  <1>0. PICK f : f = Field(x, n) \o s
    OBVIOUS
  <1>1. /\ f \in Seq(Bytes) /\ Len(f) = n + p /\ f[1] = x
        /\ \A j \in 1..p : f[n + j] = s[j]
    <2>1. Followed(f, x, n, s)
      BY <1>0 DEF Followed
    <2> QED BY <2>1, FieldThen
  <1>2. m = <<t>> \o f /\ p \in Nat /\ n \in Nat /\ n >= 1
    BY <1>0 DEF IsWidth, IsBlob
  <1>3. <<t>> \in Seq(Bytes) /\ Len(<<t>>) = 1 /\ <<t>>[1] = t
    OBVIOUS
  <1> HIDE DEF p
  <1>4. /\ m \in Seq(Bytes) /\ Len(m) = 1 + (n + p)
        /\ \A i \in 1 .. 1 + (n + p) : m[i] = IF i <= 1 THEN <<t>>[i] ELSE f[i - 1]
    <2> DEFINE h == <<t>>
    <2>1. h \in Seq(Bytes) /\ Len(h) = 1 /\ m = h \o f
      BY <1>2, <1>3
    <2> HIDE DEF h
    <2>2. /\ m \in Seq(Bytes) /\ Len(m) = Len(h) + Len(f)
          /\ \A i \in 1 .. Len(h) + Len(f) : m[i] = IF i <= Len(h) THEN h[i] ELSE f[i - Len(h)]
      <3>1. /\ h \o f \in Seq(Bytes) /\ Len(h \o f) = Len(h) + Len(f)
            /\ \A i \in 1 .. Len(h) + Len(f) : (h \o f)[i] = IF i <= Len(h) THEN h[i] ELSE f[i - Len(h)]
        BY <1>1, <2>1, ConcatProperties
      <3> QED BY <2>1, <3>1, Zenon
    <2>3. Len(h) + Len(f) = 1 + (n + p)
      BY <1>1, <2>1
    <2> QED BY <2>1, <2>2, <2>3 DEF h
  <1>5. m[1] = t /\ m[2] = x
    <2>1. 1 \in 1 .. 1 + (n + p) /\ 2 \in 1 .. 1 + (n + p)
      BY <1>2
    <2> QED BY <1>1, <1>3, <1>4, <2>1
  <1>6. ASSUME NEW j \in 1..p PROVE m[1 + n + j] = s[j]
    <2>1. 1 + n + j \in 1 .. 1 + (n + p) /\ ~ (1 + n + j <= 1) /\ (1 + n + j) - 1 = n + j
      BY <1>2
    <2> QED BY <1>1, <1>4, <2>1
  <1>7. Len(m) = 1 + n + p
    BY <1>2, <1>4
  <1> QED BY <1>4, <1>5, <1>6, <1>7 DEF p

\* The items of an array are fields of the same width, one after the other
\* (preferences_value_parcel.cpp:266-384).
LEMMA FieldsAre ==
  ASSUME NEW items \in Seq(Bytes), NEW w \in {1, 8}
  PROVE  /\ Fields(items, w) \in Seq(Bytes)
         /\ Len(Fields(items, w)) = w * Len(items)
         /\ \A i \in 1 .. Len(items) : Fields(items, w)[w * (i - 1) + 1] = items[i]
  <1> DEFINE n == Len(items)
             ss == [i \in DOMAIN items |-> Field(items[i], w)]
  <1>1. n \in Nat /\ DOMAIN items = 1..n /\ \A i \in 1..n : items[i] \in Bytes
    OBVIOUS
  <1>2. Fields(items, w) = FlattenSeq(ss)
    BY DEF Fields
  <1>3. /\ ss = [i \in 1..n |-> Field(items[i], w)] /\ IsWidth(w) /\ w \in {1, 3, 4, 8} /\ 1 \in 1..w
    BY <1>1 DEF IsWidth
  <1> HIDE DEF ss, n
  <1>4. \A i \in 1..n : /\ Field(items[i], w) \in Seq(Bytes) /\ Len(Field(items[i], w)) = w
                        /\ Field(items[i], w)[1] = items[i]
    BY <1>1, <1>3, FieldIs
  <1>5. \A i \in 1..n : ss[i] \in Seq(Bytes) /\ Len(ss[i]) = w /\ ss[i][1] = items[i]
    BY <1>3, <1>4
  <1>6. ss \in Seq(Seq(Bytes)) /\ Len(ss) = n
    <2>1. ss \in [1..n -> Seq(Bytes)]
      BY <1>3, <1>5
    <2>2. ss \in Seq(Seq(Bytes))
      BY <1>1, <2>1, SeqDef
    <2> QED BY <1>1, <2>1, <2>2, LenProperties
  <1>7. Uniform(ss, Bytes, w)
    BY <1>3, <1>5, <1>6 DEF Uniform
  <1>8. FlattenSeq(ss) \in Seq(Bytes) /\ Len(FlattenSeq(ss)) = w * n
    BY <1>6, <1>7, UniformLength
  <1>9. ASSUME NEW i \in 1..n PROVE FlattenSeq(ss)[w * (i - 1) + 1] = items[i]
    <2>1. i \in 1 .. Len(ss) /\ 1 \in 1..w
      BY <1>3, <1>6
    <2>2. PICK y : y = w
      OBVIOUS
    <2>3. Uniform(ss, Bytes, y)
      BY <1>7, <2>2
    <2>4. ASSUME NEW j \in 1..y PROVE FlattenSeq(ss)[y * (i - 1) + j] = ss[i][j]
      BY <2>1, <2>3, UniformAt
    <2> QED BY <1>5, <2>1, <2>2, <2>4
  <1> QED BY <1>2, <1>8, <1>9 DEF n

\* A blob is read back as the value it was made from, and its size is counted right.
BlobKept(v) ==
    /\ UnmarshallingPreferenceValue(Marshalled(v)) = v
    /\ Len(Marshalled(v)) = BlobSize(v) /\ Len(Marshalled(v)) \in Nat

\* Everything a field can hold is one of Bytes.
LEMMA InBytes ==
  /\ Nat \subseteq Bytes /\ Int \subseteq Bytes /\ Types \subseteq Bytes
  /\ Bools \subseteq Bytes /\ RealNumbers \subseteq Bytes /\ 0..255 \subseteq Bytes
  BY DEF Bytes, RealNumbers

\* A number or a bool is the first field (preferences_value_parcel.cpp:104-179, 451-480).
LEMMA PrimitiveBlob ==
  ASSUME NEW v, IsValue(v), v.type \in Primitives
  PROVE  BlobKept(v)
  <1> DEFINE m == Marshalled(v)
             t == v.type
             x == v.data
             w == Width[v.type]
             e == <<>>
  <1>1. m = <<t>> \o Field(x, w)
    BY DEF Marshalled, Primitives, Strings, ItemWidth
  <1>2. t \in Bytes /\ x \in Bytes /\ IsWidth(w) /\ e \in Seq(Bytes) /\ Len(e) = 0
    <2>1. v.data \in Int \cup RealNumbers \cup Bools /\ v.type \in Types
      BY DEF IsValue, DataOf, Primitives, Strings, Reals
    <2>2. IsWidth(w)
      BY DEF IsWidth, Width, Primitives
    <2>3. e \in Seq(Bytes) /\ Len(e) = 0
      BY EmptySeq
    <2> QED BY <2>1, <2>2, <2>3, InBytes
  <1>3. v = [type |-> t, data |-> x]
    BY DEF IsValue
  <1>4. BlobSize(v) = 1 + w
    BY DEF BlobSize, Primitives, Strings, ItemWidth
  <1>5. t \in Primitives
    OBVIOUS
  <1> HIDE DEF m, t, x, w, e
  <1>6. IsBlob(m, t, x, w, e)
    <2>1. Field(x, w) \in Seq(Bytes)
      BY <1>2, FieldIs
    <2>2. Field(x, w) \o e = Field(x, w)
      BY <2>1, ConcatEmptySeq DEF e
    <2> QED BY <1>1, <2>2 DEF IsBlob
  <1>7. m \in Seq(Bytes) /\ Len(m) = 1 + w + Len(e) /\ m[1] = t /\ m[2] = x
    <2>1. t \in Bytes /\ x \in Bytes /\ IsWidth(w) /\ e \in Seq(Bytes)
      BY <1>2
    <2>2. /\ m \in Seq(Bytes) /\ Len(m) = 1 + w + Len(e) /\ m[1] = t /\ m[2] = x
          /\ \A j \in 1 .. Len(e) : m[1 + w + j] = e[j]
      BY <1>6, <2>1, Layout
    <2> QED BY <2>2
  <1>8. Len(m) = 1 + w /\ Len(m) \in Nat
    BY <1>2, <1>7 DEF IsWidth
  <1>9. UnmarshallingPreferenceValue(m) = [type |-> t, data |-> x]
    BY <1>5, <1>7 DEF UnmarshallingPreferenceValue, Primitives, Strings, ItemWidth
  <1> QED BY <1>3, <1>4, <1>8, <1>9 DEF BlobKept, m

\* MarshallingStringValue: the length, then the characters (preferences_value_parcel.cpp:181-220,
\* 482-504).
LEMMA StringBlob ==
  ASSUME NEW v, IsValue(v), v.type \in Strings
  PROVE  BlobKept(v)
  <1> DEFINE m == Marshalled(v)
             t == v.type
             s == v.data
             n == Len(s)
             w == SizeT
  <1>1. m = <<t>> \o (Field(n, w) \o s)
    BY DEF Marshalled, Primitives, Strings, ItemWidth, Sized
  <1>2. t \in Bytes /\ n \in Nat /\ IsWidth(w) /\ s \in Seq(Nat) /\ t \in Strings
    <2>1. s \in Seq(Nat) /\ t \in Strings
      BY DEF IsValue, DataOf, Strings, Reals
    <2>2. n \in Nat
      BY <2>1
    <2>3. t \in Bytes
      BY InBytes DEF IsValue
    <2>4. IsWidth(w)
      BY DEF IsWidth, SizeT
    <2> QED BY <2>1, <2>2, <2>3, <2>4
  <1>3. v = [type |-> t, data |-> s]
    BY DEF IsValue
  <1>4. BlobSize(v) = 1 + SizeT + n
    BY DEF BlobSize, Primitives, Strings, ItemWidth
  <1>5. s \in Seq(Bytes)
    BY <1>2, InBytes, SeqMonotonic
  <1> HIDE DEF m, t, s
  <1>6. IsBlob(m, t, n, w, s) /\ n \in Bytes
    BY <1>1, <1>2, InBytes DEF IsBlob
  <1> HIDE DEF w, n
  <1>7. /\ m \in Seq(Bytes) /\ Len(m) = 1 + w + Len(s) /\ m[1] = t /\ m[2] = n
        /\ \A j \in 1 .. Len(s) : m[1 + w + j] = s[j]
    BY <1>2, <1>5, <1>6, Layout
  <1>8. /\ w = 8 /\ SizeT = 8 /\ Len(s) = n /\ \A j \in 1..n : s[j] \in Nat
    BY <1>2 DEF w, n, SizeT
  <1>9. /\ m \in Seq(Bytes) /\ Len(m) = 9 + n /\ m[2] = n /\ \A j \in 1..n : m[9 + j] = s[j]
    BY <1>2, <1>7, <1>8
  <1>10. SubSeq(m, 9 + 1, 9 + m[2]) = s
    <2> DEFINE q == SubSeq(m, 10, 9 + n)
    <2>1. \A i \in 10 .. 9 + n : m[i] \in Bytes
      BY <1>2, <1>9
    <2>2. /\ q \in Seq(Bytes) /\ Len(q) = n /\ \A i \in 1..n : q[i] = m[9 + i]
      BY <1>2, <1>9
    <2> HIDE DEF q
    <2>3. q = s
      BY <1>5, <1>8, <1>9, <2>2, SeqEqual
    <2> QED BY <1>9, <2>3 DEF q
  <1>11. UnmarshallingPreferenceValue(m) = [type |-> t, data |-> s]
    <2>1. t \notin Primitives /\ t \notin DOMAIN ItemWidth /\ t # "stringArray" /\ t # "BigInt"
      BY <1>2 DEF Primitives, Strings, ItemWidth
    <2>2. UnmarshallingPreferenceValue(m) =
            [type |-> t, data |-> SubSeq(m, 1 + SizeT + 1, 1 + SizeT + m[2])]
      BY <1>2, <1>7, <2>1 DEF UnmarshallingPreferenceValue
    <2>3. 1 + SizeT = 9
      BY <1>8
    <2> QED BY <1>10, <2>2, <2>3
  <1>12. Len(m) = 1 + SizeT + n /\ Len(m) \in Nat
    BY <1>2, <1>8, <1>9
  <1> QED BY <1>3, <1>4, <1>11, <1>12 DEF BlobKept, m

\* Items of one width are read where they were written.
LEMMA ItemsRead ==
  ASSUME NEW items \in Seq(Bytes), NEW w \in {1, 8}, NEW a \in Nat, NEW m,
         \A j \in 1 .. w * Len(items) : m[a + j] = Fields(items, w)[j]
  PROVE  Items(m, a, Len(items), w) = items
  <1> DEFINE n == Len(items)
             fs == Fields(items, w)
  <1>1. n \in Nat /\ items = [i \in 1..n |-> items[i]]
    OBVIOUS
  <1>2. \A i \in 1..n : fs[w * (i - 1) + 1] = items[i]
    BY FieldsAre
  <1> HIDE DEF n, fs
  <1>3. \A j \in 1 .. w * n : m[a + j] = fs[j]
    BY DEF n, fs
  <1>4. ASSUME NEW i \in 1..n PROVE m[a + (i - 1) * w + 1] = items[i]
    <2>1. w * (i - 1) + 1 \in 1 .. w * n
      BY <1>1
    <2>2. m[a + (w * (i - 1) + 1)] = items[i]
      BY <1>2, <1>3, <2>1
    <2>3. a + (w * (i - 1) + 1) = a + (i - 1) * w + 1
      BY <1>1
    <2> QED BY <2>2, <2>3
  <1>5. Items(m, a, n, w) = [i \in 1..n |-> items[i]]
    BY <1>4 DEF Items
  <1> QED BY <1>1, <1>5 DEF n

\* The arrays of bool, double and uint8_t: how many, then the items
\* (preferences_value_parcel.cpp:266-416, 535-581).
LEMMA ItemsBlob ==
  ASSUME NEW v, IsValue(v), v.type \in DOMAIN ItemWidth
  PROVE  BlobKept(v)
  <1> DEFINE m == Marshalled(v)
             t == v.type
             d == v.data
             n == Len(d)
             w == ItemWidth[v.type]
             s == Fields(d, w)
             k == SizeT
  <1>0. t \in {"boolArray", "doubleArray", "uint8Array"}
    BY DEF ItemWidth
  <1>1. m = <<t>> \o (Field(n, k) \o s)
    BY <1>0 DEF Marshalled, Primitives, Strings, ItemWidth
  <1>2. t \in Bytes /\ d \in Seq(Bytes) /\ n \in Nat /\ w \in {1, 8} /\ IsWidth(k)
    <2>1. d \in Seq(Bools) \/ d \in Seq(RealNumbers) \/ d \in Seq(0..255)
      BY <1>0 DEF IsValue, DataOf, Strings, Reals
    <2>2. d \in Seq(Bytes)
      <3>1. Byte \subseteq Bytes /\ Bools \subseteq Bytes /\ RealNumbers \subseteq Bytes
        BY InBytes DEF Byte
      <3>2. /\ Seq(Bools) \subseteq Seq(Bytes) /\ Seq(RealNumbers) \subseteq Seq(Bytes)
            /\ Seq(Byte) \subseteq Seq(Bytes)
        BY <3>1, SeqMonotonic, Zenon
      <3> QED BY <2>1, <3>2 DEF Byte
    <2>3. n \in Nat
      BY <2>2
    <2>4. t \in Bytes
      BY InBytes DEF IsValue
    <2>5. w \in {1, 8}
      BY <1>0 DEF ItemWidth
    <2>6. IsWidth(k)
      BY DEF IsWidth, SizeT
    <2> QED BY <2>2, <2>3, <2>4, <2>5, <2>6
  <1>3. v = [type |-> t, data |-> d]
    BY DEF IsValue
  <1>4. BlobSize(v) = 1 + SizeT + n * w
    BY <1>0 DEF BlobSize, Primitives, Strings, ItemWidth
  <1>5. w = ItemWidth[t]
    OBVIOUS
  <1> HIDE DEF m, t, d, w
  <1>6. s \in Seq(Bytes) /\ Len(s) = w * n
    BY <1>2, FieldsAre
  <1> HIDE DEF s, n
  <1>7. IsBlob(m, t, n, k, s) /\ n \in Bytes
    BY <1>1, <1>2, InBytes DEF IsBlob
  <1> HIDE DEF k
  <1>8. /\ m \in Seq(Bytes) /\ Len(m) = 1 + k + Len(s) /\ m[1] = t /\ m[2] = n
        /\ \A j \in 1 .. Len(s) : m[1 + k + j] = s[j]
    <2>1. t \in Bytes /\ n \in Bytes /\ IsWidth(k) /\ s \in Seq(Bytes)
      BY <1>2, <1>6, <1>7
    <2> QED BY <1>7, <2>1, Layout
  <1>9. k = 8 /\ SizeT = 8 /\ n = Len(d)
    BY DEF k, SizeT, n
  <1>10. Items(m, 9, n, w) = d
    <2>1. \A j \in 1 .. w * Len(d) : m[9 + j] = Fields(d, w)[j]
      BY <1>6, <1>8, <1>9 DEF s
    <2>2. d \in Seq(Bytes) /\ w \in {1, 8} /\ 9 \in Nat
      BY <1>2
    <2>3. Items(m, 9, Len(d), w) = d
      BY <2>1, <2>2, ItemsRead, Zenon
    <2> QED BY <1>9, <2>3
  <1>11. UnmarshallingPreferenceValue(m) = [type |-> t, data |-> d]
    <2>1. t \in DOMAIN ItemWidth /\ t \notin Primitives /\ t \notin Strings /\ t # "stringArray" /\ t # "BigInt"
      BY <1>0 DEF Primitives, Strings, ItemWidth
    <2>2. UnmarshallingPreferenceValue(m) =
            [type |-> t, data |-> Items(m, 1 + SizeT, m[2], ItemWidth[t])]
      BY <1>8, <2>1 DEF UnmarshallingPreferenceValue
    <2>3. 1 + SizeT = 9
      BY <1>9
    <2> QED BY <1>5, <1>8, <1>10, <2>2, <2>3
  <1>12. Len(m) = 1 + SizeT + n * w /\ Len(m) \in Nat
    <2>1. Len(m) = 9 + w * n /\ n * w \in Nat /\ n * w = w * n
      BY <1>2, <1>6, <1>8, <1>9
    <2>2. Len(m) = 9 + n * w
      BY <2>1
    <2>3. Len(m) \in Nat
      BY <2>1, <2>2
    <2> QED BY <1>9, <2>2, <2>3
  <1> QED BY <1>3, <1>4, <1>11, <1>12 DEF BlobKept, m

\* A BigInt: how many words, the sign, the words (preferences_value_parcel.cpp:294-328, 583-601).
LEMMA BigIntBlob ==
  ASSUME NEW v, IsValue(v), v.type = "BigInt"
  PROVE  BlobKept(v)
  <1> DEFINE m == Marshalled(v)
             t == "BigInt"
             d == v.data.words
             g == v.data.sign
             n == Len(d)
             f == Fields(d, 8)
             s == Field(g, 8) \o f
             k == SizeT
  <1>1. m = <<t>> \o ((Field(n, k) \o Field(g, 8)) \o f)
    BY DEF Marshalled, Primitives, Strings, ItemWidth
  <1>2. v.data = [words |-> d, sign |-> g] /\ d \in Seq(Int) /\ g \in Int
    <2>1. v.data \in [words : Seq(0 .. UINT64 - 1), sign : {i \in Int : -INT32 <= 2 * i /\ 2 * i < INT32}]
      BY DEF IsValue, DataOf, Strings, Reals
    <2>2. 0 .. UINT64 - 1 \subseteq Int
      BY WidthsAssumption
    <2>3. d \in Seq(0 .. UINT64 - 1) /\ g \in Int /\ v.data = [words |-> d, sign |-> g]
      BY <2>1
    <2> QED BY <2>2, <2>3, SeqMonotonic
  <1>3. t \in Bytes /\ d \in Seq(Bytes) /\ n \in Nat /\ g \in Bytes /\ IsWidth(k) /\ IsWidth(8)
    <2>1. d \in Seq(Bytes) /\ g \in Bytes
      BY <1>2, InBytes, SeqMonotonic
    <2>2. n \in Nat
      BY <2>1
    <2>3. t \in Bytes
      BY InBytes DEF Types
    <2>4. IsWidth(k) /\ IsWidth(8)
      BY DEF IsWidth, SizeT
    <2> QED BY <2>1, <2>2, <2>3, <2>4
  <1>4. v = [type |-> t, data |-> [words |-> d, sign |-> g]]
    BY <1>2 DEF IsValue
  <1>5. BlobSize(v) = 1 + SizeT + 8 + n * 8
    BY DEF BlobSize, BigIntSize, Primitives, Strings, ItemWidth
  <1> HIDE DEF m, d, g
  <1>6. f \in Seq(Bytes) /\ Len(f) = 8 * n
    BY <1>3, FieldsAre
  <1> HIDE DEF f, n
  <1>7. s \in Seq(Bytes) /\ Len(s) = 8 + Len(f) /\ s[1] = g /\ \A j \in 1 .. Len(f) : s[8 + j] = f[j]
    <2> DEFINE b == 8
    <2>1. Followed(s, g, b, f) /\ IsWidth(b)
      BY <1>3 DEF Followed
    <2> HIDE DEF b, s
    <2>2. s \in Seq(Bytes) /\ Len(s) = b + Len(f) /\ s[1] = g /\ \A j \in 1 .. Len(f) : s[b + j] = f[j]
      <3>1. g \in Bytes /\ f \in Seq(Bytes)
        BY <1>3, <1>6
      <3> QED BY <2>1, <3>1, FieldThen
    <2> QED BY <2>2 DEF b
  <1>8. IsBlob(m, t, n, k, s) /\ n \in Bytes
    <2>1. n \in Bytes
      BY <1>3, InBytes
    <2>2. Field(n, k) \in Seq(Bytes) /\ Field(g, 8) \in Seq(Bytes)
      BY <1>3, <2>1, FieldIs
    <2>3. (Field(n, k) \o Field(g, 8)) \o f = Field(n, k) \o s
      BY <1>6, <2>2, ConcatAssociative, SMTT(30)
    <2> QED BY <1>1, <2>1, <2>3 DEF IsBlob
  <1> HIDE DEF k, s, t
  <1>9. /\ m \in Seq(Bytes) /\ Len(m) = 1 + k + Len(s) /\ m[1] = t /\ m[2] = n
        /\ \A j \in 1 .. Len(s) : m[1 + k + j] = s[j]
    <2>1. t \in Bytes /\ n \in Bytes /\ IsWidth(k) /\ s \in Seq(Bytes)
      BY <1>3, <1>7, <1>8
    <2> QED BY <1>8, <2>1, Layout
  <1>10. /\ k = 8 /\ SizeT = 8 /\ n = Len(d) /\ n \in Nat
    BY <1>3 DEF k, SizeT, n
  <1>11. m[10] = g
    <2>1. 1 \in 1 .. Len(s) /\ 1 + k + 1 = 10
      BY <1>6, <1>7, <1>10
    <2> QED BY <1>7, <1>9, <2>1
  <1>12. Items(m, 17, n, 8) = d
    <2>1. ASSUME NEW j \in 1 .. 8 * n PROVE m[17 + j] = f[j]
      <3>1. 8 + j \in 1 .. Len(s) /\ 1 + k + (8 + j) = 17 + j /\ j \in 1 .. Len(f)
        BY <1>6, <1>7, <1>10
      <3> QED BY <1>7, <1>9, <3>1
    <2>2. \A j \in 1 .. 8 * Len(d) : m[17 + j] = Fields(d, 8)[j]
      BY <1>10, <2>1 DEF f
    <2>3. Items(m, 17, Len(d), 8) = d
      BY <1>3, <2>2, ItemsRead
    <2> QED BY <1>10, <2>3
  <1>13. UnmarshallingPreferenceValue(m) = [type |-> t, data |-> [words |-> d, sign |-> g]]
    <2>1. UnmarshallingPreferenceValue(m) = [type |-> t, data |-> UnmarshallingVecBigInt(m)]
      BY <1>9 DEF UnmarshallingPreferenceValue, Primitives, Strings, ItemWidth, t
    <2>2. 1 + SizeT + 8 = 17 /\ 1 + SizeT + 1 = 10
      BY <1>10
    <2>3. UnmarshallingVecBigInt(m) = [words |-> d, sign |-> g]
      BY <1>9, <1>11, <1>12, <2>2 DEF UnmarshallingVecBigInt
    <2> QED BY <2>1, <2>3
  <1>14. Len(m) = 1 + SizeT + 8 + n * 8 /\ Len(m) \in Nat
    <2>1. Len(m) = 17 + 8 * n
      BY <1>6, <1>7, <1>9, <1>10
    <2>2. Len(m) \in Nat
      BY <1>10, <2>1
    <2> QED BY <1>10, <2>1, <2>2
  <1> QED BY <1>4, <1>5, <1>13, <1>14 DEF BlobKept, m

\* The strings of an array, each after its length, and the address of the i-th.
Pieces(d) == [i \in DOMAIN d |-> Sized(d[i])]
At(d, i) == 9 + Len(Pre(Pieces(d), i))

\* A string after its length.
LEMMA SizedIs ==
  ASSUME NEW s \in Seq(Nat)
  PROVE  /\ Sized(s) \in Seq(Bytes) /\ Len(Sized(s)) = 8 + Len(s) /\ Sized(s)[1] = Len(s)
         /\ \A j \in 1 .. Len(s) : Sized(s)[8 + j] = s[j]
  <1> DEFINE b == 8
             n == Len(s)
             z == Sized(s)
  <1>1. Followed(z, n, b, s) /\ IsWidth(b)
    BY DEF Followed, Sized, SizeT, IsWidth
  <1>2. n \in Bytes /\ s \in Seq(Bytes)
    <2>1. n \in Nat
      OBVIOUS
    <2> QED BY <2>1, InBytes, SeqMonotonic
  <1> HIDE DEF b, z, n
  <1>3. z \in Seq(Bytes) /\ Len(z) = b + Len(s) /\ z[1] = n /\ \A j \in 1 .. Len(s) : z[b + j] = s[j]
    BY <1>1, <1>2, FieldThen
  <1> QED BY <1>3 DEF b, z, n

\* The addresses, one string after the other.
LEMMA PiecesAt ==
  ASSUME NEW d \in Seq(Seq(Nat))
  PROVE  /\ FlattenSeq(Pieces(d)) \in Seq(Bytes)
         /\ At(d, 0) = 9 /\ At(d, Len(d)) = 9 + Len(FlattenSeq(Pieces(d)))
         /\ \A i \in 0 .. Len(d) : At(d, i) \in Nat /\ At(d, i) >= 9
         /\ \A i \in 1 .. Len(d) :
               /\ At(d, i) = At(d, i - 1) + 8 + Len(d[i])
               /\ At(d, i) <= 9 + Len(FlattenSeq(Pieces(d)))
               /\ FlattenSeq(Pieces(d))[(At(d, i - 1) - 9) + 1] = Len(d[i])
               /\ \A j \in 1 .. Len(d[i]) :
                     FlattenSeq(Pieces(d))[(At(d, i - 1) - 9) + (8 + j)] = d[i][j]
  <1> DEFINE ss == Pieces(d)
             n == Len(d)
  <1>1. n \in Nat /\ DOMAIN d = 1..n /\ \A i \in 1..n : d[i] \in Seq(Nat)
    OBVIOUS
  <1>2. ss = [i \in 1..n |-> Sized(d[i])]
    BY <1>1 DEF Pieces
  <1> HIDE DEF ss, n
  <1>3. \A i \in 1..n : /\ ss[i] \in Seq(Bytes) /\ Len(ss[i]) = 8 + Len(d[i]) /\ ss[i][1] = Len(d[i])
                        /\ \A j \in 1 .. Len(d[i]) : ss[i][8 + j] = d[i][j]
    <2>1. ASSUME NEW i \in 1..n
          PROVE  /\ Sized(d[i]) \in Seq(Bytes) /\ Len(Sized(d[i])) = 8 + Len(d[i])
                 /\ Sized(d[i])[1] = Len(d[i])
                 /\ \A j \in 1 .. Len(d[i]) : Sized(d[i])[8 + j] = d[i][j]
      <3> DEFINE s == d[i]
      <3>1. s \in Seq(Nat)
        BY <1>1
      <3> HIDE DEF s
      <3>2. /\ Sized(s) \in Seq(Bytes) /\ Len(Sized(s)) = 8 + Len(s) /\ Sized(s)[1] = Len(s)
            /\ \A j \in 1 .. Len(s) : Sized(s)[8 + j] = s[j]
        BY <3>1, SizedIs
      <3> QED BY <3>2 DEF s
    <2> QED BY <1>2, <2>1
  <1>4. ss \in Seq(Seq(Bytes)) /\ Len(ss) = n
    <2>1. ss \in [1..n -> Seq(Bytes)]
      BY <1>2, <1>3
    <2>2. ss \in Seq(Seq(Bytes))
      BY <1>1, <2>1, SeqDef
    <2> QED BY <1>1, <2>1, <2>2, LenProperties
  <1> DEFINE fs == FlattenSeq(ss)
  <1>5. /\ Pre(ss, 0) = <<>> /\ fs = Pre(ss, n) /\ \A i \in 0..n : Pre(ss, i) \in Seq(Bytes)
    BY <1>4, FlattenSteps
  <1>6. \A i \in 1..n : /\ Len(Pre(ss, i)) = Len(Pre(ss, i - 1)) + Len(ss[i])
                        /\ Len(Pre(ss, i)) <= Len(fs)
                        /\ \A j \in 1 .. Len(ss[i]) : fs[Len(Pre(ss, i - 1)) + j] = ss[i][j]
    BY <1>4, FlattenAt, Zenon
  <1>7. fs \in Seq(Bytes)
    <2>1. n \in 0..n
      BY <1>1
    <2> QED BY <1>5, <2>1
  <1> HIDE DEF fs
  <1>8. \A i \in 0..n : Len(Pre(ss, i)) \in Nat
    BY <1>5
  <1>9. \A i \in 0..n : At(d, i) = 9 + Len(Pre(ss, i))
    BY DEF At, ss
  <1>10. At(d, 0) = 9 /\ At(d, n) = 9 + Len(fs) /\ \A i \in 0..n : At(d, i) \in Nat /\ At(d, i) >= 9
    <2>1. Len(Pre(ss, 0)) = 0
      BY <1>5, EmptySeq
    <2>2. 0 \in 0..n /\ n \in 0..n
      BY <1>1
    <2> QED BY <1>5, <1>8, <1>9, <2>1, <2>2
  <1>11. ASSUME NEW i \in 1..n
         PROVE  /\ At(d, i) = At(d, i - 1) + 8 + Len(d[i])
                /\ At(d, i) <= 9 + Len(fs)
                /\ fs[(At(d, i - 1) - 9) + 1] = Len(d[i])
                /\ \A j \in 1 .. Len(d[i]) : fs[(At(d, i - 1) - 9) + (8 + j)] = d[i][j]
    <2>1. i \in 0..n /\ i - 1 \in 0..n
      BY <1>1
    <2>2. PICK l \in Nat : l = Len(d[i])
      BY <1>1
    <2>3. PICK p \in Nat : p = Len(Pre(ss, i - 1))
      BY <1>8, <2>1
    <2>4. PICK q \in Nat : q = Len(Pre(ss, i))
      BY <1>8, <2>1
    <2>5. /\ q = p + (8 + l) /\ q <= Len(fs) /\ Len(fs) \in Nat
          /\ \A j \in 1 .. 8 + l : fs[p + j] = ss[i][j]
      <3>1. Len(ss[i]) = 8 + l
        BY <1>3, <2>2
      <3>2. q = p + Len(ss[i]) /\ q <= Len(fs) /\ \A j \in 1 .. Len(ss[i]) : fs[p + j] = ss[i][j]
        BY <1>6, <2>3, <2>4
      <3>3. Len(fs) \in Nat
        BY <1>7
      <3> QED BY <3>1, <3>2, <3>3, Zenon
    <2>6. At(d, i - 1) = 9 + p /\ At(d, i) = 9 + q /\ At(d, i - 1) - 9 = p
      BY <1>9, <2>1, <2>3, <2>4
    <2>7. At(d, i) = At(d, i - 1) + 8 + l /\ At(d, i) <= 9 + Len(fs)
      BY <2>5, <2>6
    <2>8. fs[p + 1] = l
      <3>1. 1 \in 1 .. 8 + l
        BY <2>2
      <3>2. ss[i][1] = l
        BY <1>3, <2>2
      <3> QED BY <2>5, <3>1, <3>2
    <2>9. ASSUME NEW j \in 1..l PROVE fs[p + (8 + j)] = d[i][j]
      <3>1. 8 + j \in 1 .. 8 + l
        BY <2>2
      <3>2. ss[i][8 + j] = d[i][j]
        BY <1>3, <2>2
      <3> QED BY <2>5, <3>1, <3>2
    <2> QED BY <2>2, <2>6, <2>7, <2>8, <2>9
  <1> QED BY <1>7, <1>10, <1>11 DEF n, fs, ss

\* f is the loop of CalSize over strs: what it has counted after the i-th.
IsSize(f, strs, n) ==
    f = [i \in 0..n |-> IF i = 0 THEN 1 + SizeT ELSE f[i - 1] + SizeT + Len(strs[i])]

\* CalSize counts every length and every string (preferences_value_parcel.cpp:56-102).
LEMMA SizeIs ==
  ASSUME NEW d \in Seq(Seq(Nat))
  PROVE  StringArraySize(d) = At(d, Len(d))
  <1> DEFINE n == Len(d)
             g == [i \in 0..n |-> At(d, i)]
             h == CHOOSE f : IsSize(f, d, n)
             T == {i \in 0..n : h[i] = At(d, i)}
  <1>1. n \in Nat /\ \A i \in 1..n : Len(d[i]) \in Nat
    OBVIOUS
  <1>2. /\ At(d, 0) = 9 /\ \A i \in 0..n : At(d, i) \in Nat
        /\ \A i \in 1..n : At(d, i) = At(d, i - 1) + 8 + Len(d[i])
    BY PiecesAt
  <1>3. StringArraySize(d) = h[n]
    BY Zenon DEF StringArraySize, IsSize
  <1> HIDE DEF n
  <1>4. IsSize(g, d, n)
    <2>1. ASSUME NEW i \in 0..n
          PROVE  g[i] = IF i = 0 THEN 1 + SizeT ELSE g[i - 1] + SizeT + Len(d[i])
      <3>1. CASE i = 0
        BY <1>2, <3>1 DEF SizeT
      <3>2. CASE i # 0
        <4>1. i \in 1..n /\ i - 1 \in 0..n
          BY <1>1, <3>2
        <4>2. g[i - 1] = At(d, i - 1) /\ g[i] = At(d, i)
          BY <4>1
        <4> QED BY <1>2, <3>2, <4>1, <4>2 DEF SizeT
      <3> QED BY <3>1, <3>2
    <2>2. g = [i \in 0..n |-> g[i]]
      OBVIOUS
    <2> HIDE DEF g
    <2> QED BY <2>1, <2>2 DEF IsSize
  <1>5. IsSize(h, d, n)
    <2> HIDE DEF g
    <2> QED BY <1>4, Zenon
  <1> HIDE DEF h, g
  <1>6. 0 \in T
    <2>1. 0 \in 0..n
      BY <1>1
    <2>2. h[0] = 1 + SizeT
      BY <1>5, <2>1 DEF IsSize
    <2> QED BY <1>2, <2>1, <2>2 DEF SizeT
  <1>7. ASSUME NEW i \in 1..n, i - 1 \in T PROVE i \in T
    <2>1. i \in 0..n /\ i # 0 /\ i - 1 \in 0..n /\ h[i - 1] = At(d, i - 1)
      BY <1>1, <1>7
    <2>2. h[i] = h[i - 1] + SizeT + Len(d[i])
      BY <1>5, <2>1 DEF IsSize
    <2> QED BY <1>2, <2>1, <2>2 DEF SizeT
  <1>8. \A i \in 0..n : i \in T
    <2> HIDE DEF T
    <2> QED BY <1>1, <1>6, <1>7, UpTo
  <1>9. h[n] = At(d, n)
    BY <1>1, <1>8
  <1> QED BY <1>3, <1>9 DEF n

\* f is the loop of UnmarshallingStringArrayValue over data: where it is after the i-th
\* string, and what it has read.
IsRead(f, data, n) ==
    f = [i \in 0..n |-> IF i = 0 THEN [at |-> 1 + SizeT, strs |-> <<>>]
                        ELSE NextString(data, f[i - 1])]

\* The strings are read one after the other, each from where the last one ended
\* (preferences_value_parcel.cpp:506-533).
LEMMA ReadIs ==
  ASSUME NEW d \in Seq(Seq(Nat)), NEW m, m[2] = Len(d),
         \A i \in 1 .. Len(d) : NextString(m, [at |-> At(d, i - 1), strs |-> SubSeq(d, 1, i - 1)])
                                  = [at |-> At(d, i), strs |-> SubSeq(d, 1, i)]
  PROVE  UnmarshallingStringArrayValue(m) = d
  <1> DEFINE n == Len(d)
             G(i) == [at |-> At(d, i), strs |-> SubSeq(d, 1, i)]
             g == [i \in 0..n |-> G(i)]
             h == CHOOSE f : IsRead(f, m, n)
             T == {i \in 0..n : h[i] = G(i)}
  <1>1. n \in Nat
    OBVIOUS
  <1>2. G(0) = [at |-> 1 + SizeT, strs |-> <<>>] /\ G(n).strs = d
    <2>1. At(d, 0) = 1 + SizeT
      BY PiecesAt DEF SizeT
    <2>2. SubSeq(d, 1, 0) = <<>>
      BY SubSeqEmpty
    <2>3. SubSeq(d, 1, n) = d
      BY SubSeqFull
    <2> QED BY <2>1, <2>2, <2>3
  <1>3. \A i \in 1..n : NextString(m, G(i - 1)) = G(i)
    OBVIOUS
  <1>4. UnmarshallingStringArrayValue(m) = h[n].strs
    <2>1. UnmarshallingStringArrayValue(m) = (CHOOSE f : IsRead(f, m, m[2]))[m[2]].strs
      BY Zenon DEF UnmarshallingStringArrayValue, IsRead
    <2> QED BY <2>1, Zenon
  <1> HIDE DEF n, G
  <1>5. IsRead(g, m, n)
    <2>1. ASSUME NEW i \in 0..n
          PROVE  g[i] = IF i = 0 THEN [at |-> 1 + SizeT, strs |-> <<>>] ELSE NextString(m, g[i - 1])
      <3>1. CASE i = 0
        BY <1>2, <3>1
      <3>2. CASE i # 0
        <4>1. i \in 1..n /\ i - 1 \in 0..n
          BY <1>1, <3>2
        <4>2. g[i - 1] = G(i - 1) /\ g[i] = G(i)
          BY <4>1
        <4> QED BY <1>3, <3>2, <4>1, <4>2
      <3> QED BY <3>1, <3>2
    <2>2. g = [i \in 0..n |-> g[i]]
      OBVIOUS
    <2> HIDE DEF g
    <2> QED BY <2>1, <2>2 DEF IsRead
  <1>6. IsRead(h, m, n)
    <2> HIDE DEF g
    <2> QED BY <1>5, Zenon
  <1> HIDE DEF h, g
  <1>7. 0 \in T
    <2>1. 0 \in 0..n
      BY <1>1
    <2>2. h[0] = [at |-> 1 + SizeT, strs |-> <<>>]
      BY <1>6, <2>1 DEF IsRead
    <2> QED BY <1>2, <2>1, <2>2
  <1>8. ASSUME NEW i \in 1..n, i - 1 \in T PROVE i \in T
    <2>1. i \in 0..n /\ i # 0 /\ i - 1 \in 0..n /\ h[i - 1] = G(i - 1)
      BY <1>1, <1>8
    <2>2. h[i] = NextString(m, h[i - 1])
      BY <1>6, <2>1 DEF IsRead
    <2> QED BY <1>3, <2>1, <2>2
  <1>9. \A i \in 0..n : i \in T
    <2> HIDE DEF T
    <2> QED BY <1>1, <1>7, <1>8, UpTo
  <1>10. h[n] = G(n)
    BY <1>1, <1>9
  <1> QED BY <1>2, <1>4, <1>10

\* An array of strings: how many, then each after its length
\* (preferences_value_parcel.cpp:222-264, 506-533).
LEMMA StringArrayBlob ==
  ASSUME NEW v, IsValue(v), v.type = "stringArray"
  PROVE  BlobKept(v)
  <1> DEFINE m == Marshalled(v)
             t == "stringArray"
             d == v.data
             n == Len(d)
             s == FlattenSeq(Pieces(d))
             k == SizeT
  <1>1. m = <<t>> \o (Field(n, k) \o s)
    BY Zenon DEF Marshalled, Primitives, Strings, ItemWidth, Pieces
  <1>2. d \in Seq(Seq(Nat))
    BY DEF IsValue, DataOf, Strings, Reals
  <1>3. n \in Nat /\ n \in Bytes /\ t \in Bytes /\ IsWidth(k)
    <2>1. n \in Nat
      BY <1>2
    <2>2. t \in Bytes
      BY InBytes DEF Types, Arrays
    <2>3. IsWidth(k)
      BY DEF IsWidth, SizeT
    <2> QED BY <2>1, <2>2, <2>3, InBytes
  <1>4. v = [type |-> t, data |-> d]
    BY DEF IsValue
  <1>5. BlobSize(v) = StringArraySize(d)
    BY DEF BlobSize, Primitives, Strings, ItemWidth
  <1> HIDE DEF m, d
  <1>6. /\ s \in Seq(Bytes) /\ At(d, n) = 9 + Len(s)
        /\ \A i \in 0..n : At(d, i) \in Nat /\ At(d, i) >= 9
        /\ \A i \in 1..n : /\ At(d, i) = At(d, i - 1) + 8 + Len(d[i])
                           /\ At(d, i) <= 9 + Len(s)
                           /\ s[(At(d, i - 1) - 9) + 1] = Len(d[i])
                           /\ \A j \in 1 .. Len(d[i]) : s[(At(d, i - 1) - 9) + (8 + j)] = d[i][j]
    BY <1>2, PiecesAt
  <1> HIDE DEF s
  <1>7. StringArraySize(d) = At(d, n)
    BY <1>2, SizeIs
  <1>8. \A i \in 1..n : d[i] \in Seq(Nat) /\ Len(d[i]) \in Nat
    BY <1>2
  <1>9. n = Len(d)
    OBVIOUS
  <1> HIDE DEF n
  <1>10. IsBlob(m, t, n, k, s)
    BY <1>1 DEF IsBlob
  <1> HIDE DEF t, k
  <1>11. /\ m \in Seq(Bytes) /\ Len(m) = 1 + k + Len(s) /\ m[1] = t /\ m[2] = n
         /\ \A j \in 1 .. Len(s) : m[1 + k + j] = s[j]
    <2>1. t \in Bytes /\ n \in Bytes /\ IsWidth(k) /\ s \in Seq(Bytes)
      BY <1>3, <1>6
    <2> QED BY <1>10, <2>1, Layout
  <1>12. k = 8 /\ 1 + k = 9 /\ Len(s) \in Nat
    BY <1>6 DEF k, SizeT
  <1>13. Len(m) = 9 + Len(s) /\ \A j \in 1 .. Len(s) : m[9 + j] = s[j]
    BY <1>11, <1>12
  <1>14. ASSUME NEW i \in 1..n
         PROVE  NextString(m, [at |-> At(d, i - 1), strs |-> SubSeq(d, 1, i - 1)])
                  = [at |-> At(d, i), strs |-> SubSeq(d, 1, i)]
    <2>1. PICK a \in Nat : a = At(d, i - 1) /\ a >= 9
      <3>1. i - 1 \in 0..n
        BY <1>3
      <3> QED BY <1>6, <3>1
    <2>2. PICK x \in Seq(Nat) : x = d[i]
      BY <1>8
    <2>3. PICK l \in Nat : l = Len(x)
      BY <2>2
    <2>4. /\ At(d, i) = a + 8 + l /\ a + 8 + l <= 9 + Len(s)
          /\ s[(a - 9) + 1] = l /\ \A j \in 1..l : s[(a - 9) + (8 + j)] = x[j]
      BY <1>6, <2>1, <2>2, <2>3
    <2>5. m[a + 1] = l
      <3>1. (a - 9) + 1 \in 1 .. Len(s) /\ 9 + ((a - 9) + 1) = a + 1
        <4>1. PICK c \in Nat : c = Len(s)
          BY <1>12
        <4>2. a >= 9 /\ a + 8 + l <= 9 + c
          BY <2>1, <2>4, <4>1
        <4>3. (a - 9) + 1 \in 1..c /\ 9 + ((a - 9) + 1) = a + 1
          BY <4>2
        <4> QED BY <4>1, <4>3
      <3>2. m[9 + ((a - 9) + 1)] = s[(a - 9) + 1]
        BY <1>13, <3>1
      <3> QED BY <2>4, <3>1, <3>2, Zenon
    <2>6. ASSUME NEW j \in 1..l PROVE m[a + 8 + j] = x[j]
      <3>1. PICK c \in Nat : c = Len(s) /\ a + 8 + l <= 9 + c
        BY <1>12, <2>4
      <3>2. (a - 9) + (8 + j) \in 1..c /\ 9 + ((a - 9) + (8 + j)) = a + 8 + j
        <4>1. a >= 9 /\ a + 8 + l <= 9 + c
          BY <2>1, <3>1
        <4> QED BY <4>1
      <3>3. m[9 + ((a - 9) + (8 + j))] = s[(a - 9) + (8 + j)]
        BY <1>13, <3>1, <3>2
      <3>4. s[(a - 9) + (8 + j)] = x[j]
        BY <2>4
      <3> QED BY <3>2, <3>3, <3>4, Zenon
    <2>7. SubSeq(m, a + 8 + 1, a + 8 + l) = x
      <3> DEFINE q == SubSeq(m, a + 9, a + 8 + l)
      <3>1. \A p \in a + 9 .. a + 8 + l : m[p] \in Bytes
        <4>1. \A p \in a + 9 .. a + 8 + l : p \in 1 .. Len(m)
          BY <1>12, <1>13, <2>1, <2>3, <2>4
        <4> QED BY <1>11, <4>1
      <3>2. /\ q \in Seq(Bytes) /\ Len(q) = l /\ \A j \in 1..l : q[j] = m[a + 8 + j]
        <4> DEFINE u == a + 9
                   w == a + 8 + l
        <4>1. u \in Int /\ w \in Int /\ (w - u) + 1 = l /\ (IF u <= w THEN w - u + 1 ELSE 0) = l
          BY <2>1, <2>3
        <4>2. \A p \in u..w : m[p] \in Bytes
          BY <3>1
        <4> HIDE DEF u, w
        <4>3. /\ SubSeq(m, u, w) \in Seq(Bytes)
              /\ Len(SubSeq(m, u, w)) = IF u <= w THEN w - u + 1 ELSE 0
              /\ \A j \in 1 .. w - u + 1 : SubSeq(m, u, w)[j] = m[u + j - 1]
          BY <4>1, <4>2, SubSeqProperties
        <4>4. \A j \in 1..l : u + j - 1 = a + 8 + j
          BY <2>1, <2>3 DEF u
        <4>5. /\ SubSeq(m, u, w) \in Seq(Bytes) /\ Len(SubSeq(m, u, w)) = l
              /\ \A j \in 1..l : SubSeq(m, u, w)[j] = m[a + 8 + j]
          BY <4>1, <4>3, <4>4
        <4> QED BY <4>5 DEF u, w
      <3> HIDE DEF q
      <3>3. x \in Seq(Bytes)
        BY <2>2, InBytes, SeqMonotonic
      <3>4. q = x
        BY <2>3, <2>6, <3>2, <3>3, SeqEqual
      <3>5. a + 8 + 1 = a + 9
        BY <2>1
      <3> QED BY <3>4, <3>5 DEF q
    <2>8. SubSeq(d, 1, i) = Append(SubSeq(d, 1, i - 1), x)
      BY <1>2, <1>3, <1>9, <2>2, SubSeqRecursiveSecond
    <2>9. SizeT = 8
      BY DEF SizeT
    <2> DEFINE r == [at |-> At(d, i - 1), strs |-> SubSeq(d, 1, i - 1)]
    <2>10. r.at = a /\ r.strs = SubSeq(d, 1, i - 1)
      BY <2>1
    <2> HIDE DEF r
    <2>11. NextString(m, r) = [at |-> a + 8 + l, strs |-> Append(SubSeq(d, 1, i - 1), x)]
      BY <2>5, <2>7, <2>9, <2>10 DEF NextString
    <2> QED BY <2>4, <2>8, <2>11 DEF r
  <1>15. UnmarshallingStringArrayValue(m) = d
    BY <1>2, <1>9, <1>11, <1>14, ReadIs
  <1>16. UnmarshallingPreferenceValue(m) = [type |-> t, data |-> d]
    <2>1. UnmarshallingPreferenceValue(m) = [type |-> t, data |-> UnmarshallingStringArrayValue(m)]
      BY <1>11 DEF UnmarshallingPreferenceValue, Primitives, Strings, ItemWidth, t
    <2> QED BY <1>15, <2>1
  <1>17. Len(m) = At(d, n) /\ Len(m) \in Nat
    <2>1. Len(m) = 9 + Len(s) /\ Len(m) # 0
      BY <1>12, <1>13
    <2> QED BY <1>6, <2>1
  <1> QED BY <1>4, <1>5, <1>7, <1>16, <1>17 DEF BlobKept, m

\* Every value that has a type index (preferences_value_parcel.cpp:25-656).
LEMMA ValueBlob ==
  ASSUME NEW v, IsValue(v), Supported(v)
  PROVE  BlobKept(v)
  <1>1. v.type \in Primitives \cup Strings \cup DOMAIN ItemWidth \cup {"stringArray", "BigInt"}
    BY DEF Supported
  <1> QED BY <1>1, PrimitiveBlob, StringBlob, ItemsBlob, StringArrayBlob, BigIntBlob

-----------------------------------------------------------------------------
(***************************************************************************)
(* The invariant                                                           *)
(***************************************************************************)

\* What the cache, the file and the database may hold.
Held == {original, Kept(original)}

\* The file and the database were written from one of the two, and the database only
\* from a value that has a type index.
IInv ==
    /\ original \in Values /\ value \in Held
    /\ element = Unsaved \/ \E v \in Held : element = WriteXmlElement(v)
    /\ \/ blob = <<>>
       \/ blobOf \in Held /\ Supported(blobOf) /\ blob = Marshalled(blobOf)

\* What is held is a value of the original's type, of which the file keeps what is held, or
\* nothing is left of a value that the file loses.
LEMMA HeldAre ==
  ASSUME original \in Values, NEW v \in Held
  PROVE  \/ IsValue(v) /\ v.type = original.type /\ Kept(v) \in Held
         \/ v = Absent /\ Lost(original)
  <1>1. IsValue(original)
    BY ValuesAssumption
  <1>2. CASE Lost(original)
    BY <1>1, <1>2 DEF Held, Kept
  <1>3. CASE ~Lost(original)
    <2> DEFINE k == Reduced(original)
    <2>1. Kept(original) = k
      BY <1>3 DEF Kept
    <2>2. IsValue(k) /\ k.type = original.type /\ Reduced(k) = k /\ ~Lost(k)
      BY <1>1, <1>3, ReducedStays, ReducedNotLost
    <2> HIDE DEF k
    <2>3. Kept(k) = k
      BY <2>2 DEF Kept
    <2> QED BY <1>1, <2>1, <2>2, <2>3 DEF Held
  <1> QED BY <1>2, <1>3

\* Nothing is written of a value that is absent, and nothing has no type index.
LEMMA AbsentIs ==
  /\ WriteXmlElement(Absent) = NoElement /\ ReadXmlElement(NoElement) = Absent
  /\ WellFormed(NoElement) /\ NoElement # Unsaved /\ ~Supported(Absent)
  <1>1. Absent.type = "absent" /\ NoElement.tag = "none" /\ NoElement.children = <<>>
    BY DEF Absent, NoElement
  <1>2. WriteXmlElement(Absent) = NoElement
    BY <1>1 DEF WriteXmlElement, Strings, Primitives, Arrays
  <1>3. ReadXmlElement(NoElement) = Absent
    BY <1>1 DEF ReadXmlElement, TypeNamed, Strings, Primitives, Arrays
  <1>4. WellFormed(NoElement)
    BY <1>1 DEF WellFormed, Strings
  <1>5. NoElement # Unsaved
    BY DEF NoElement, Unsaved
  <1>6. ~Supported(Absent)
    BY <1>1 DEF Supported, Strings, Primitives, ItemWidth
  <1> QED BY <1>2, <1>3, <1>4, <1>5, <1>6

\* A load finds what the file keeps of the value it was written from (ElementKept,
\* WellFormedIs).
LEMMA LoadKept ==
  ASSUME NEW v, IsValue(v)
  PROVE  /\ WellFormed(WriteXmlElement(v)) => ReadXmlElement(WriteXmlElement(v)) = Kept(v)
         /\ ~WellFormed(WriteXmlElement(v)) => Kept(v) = Absent
  <1>1. CASE v.type = "monostate"
    <2>1. WriteXmlElement(v) = NoElement
      BY <1>1 DEF WriteXmlElement, Strings, Primitives, Arrays
    <2>2. Kept(v) = Absent
      BY <1>1 DEF Kept, Lost
    <2> QED BY <2>1, <2>2, AbsentIs
  <1>2. CASE v.type # "monostate"
    BY <1>2, ElementKept, WellFormedIs DEF Kept
  <1> QED BY <1>1, <1>2

\* A value that has just been put is held as it is.
LEMMA InitIInv == Init => IInv
  BY DEF Init, IInv, Held

\* A save writes what is held; a load and a Get read it back (LoadKept, ValueBlob).
LEMMA NextIInv == IInv /\ [Next]_vars => IInv'
  <1> SUFFICES ASSUME IInv, [Next]_vars PROVE IInv'
    OBVIOUS
  <1>1. original \in Values /\ value \in Held
    BY DEF IInv
  <1>2. original' = original /\ readsInf' = readsInf
    BY DEF Next, vars, SaveXml, LoadXml, PutBlob, GetBlob
  <1>3. Held' = Held
    <2>1. Kept(original)' = Kept(original)
      BY <1>2 DEF Kept, Reduced, KeptReal
    <2> QED BY <1>2, <2>1 DEF Held
  <1>4. CASE UNCHANGED vars
    BY <1>3, <1>4 DEF IInv, vars, Supported
  <1>5. CASE SaveXml
    <2>1. element' = WriteXmlElement(value) /\ UNCHANGED <<value, blob, blobOf>>
      BY <1>5 DEF SaveXml
    <2> QED BY <1>1, <1>2, <1>3, <2>1 DEF IInv
  <1>6. CASE LoadXml
    <2>1. /\ element # Unsaved /\ UNCHANGED <<blob, blobOf>>
          /\ \/ WellFormed(element) /\ value' = ReadXmlElement(element) /\ element' = element
             \/ ~WellFormed(element) /\ value' = Absent /\ element' = Unsaved
      BY <1>6 DEF LoadXml
    <2>2. PICK v \in Held : element = WriteXmlElement(v)
      BY <2>1 DEF IInv
    <2>3. value' \in Held
      <3>1. CASE IsValue(v) /\ Kept(v) \in Held
        BY <2>1, <2>2, <3>1, LoadKept
      <3>2. CASE v = Absent
        BY <2>1, <2>2, <3>2, AbsentIs
      <3> QED BY <1>1, <3>1, <3>2, HeldAre
    <2> QED BY <1>1, <1>2, <1>3, <2>1, <2>2, <2>3 DEF IInv
  <1>7. CASE PutBlob
    BY <1>1, <1>2, <1>3, <1>7 DEF IInv, PutBlob
  <1>8. CASE GetBlob
    <2>1. blob # <<>> /\ value' = UnmarshallingPreferenceValue(blob) /\ UNCHANGED <<element, blob, blobOf>>
      BY <1>8 DEF GetBlob
    <2>2. blobOf \in Held /\ Supported(blobOf) /\ blob = Marshalled(blobOf)
      BY <2>1 DEF IInv
    <2>3. BlobKept(blobOf)
      BY <1>1, <2>2, HeldAre, AbsentIs, ValueBlob
    <2>4. value' \in Held
      BY <2>1, <2>2, <2>3 DEF BlobKept
    <2> QED BY <1>1, <1>2, <1>3, <2>1, <2>4 DEF IInv
  <1> QED BY <1>4, <1>5, <1>6, <1>7, <1>8 DEF Next

\* The invariant of the specification.
LEMMA SpecIInv == Spec => []IInv
  BY InitIInv, NextIInv, PTL DEF Spec

-----------------------------------------------------------------------------
(***************************************************************************)
(* Theorems                                                                *)
(***************************************************************************)

\* However often a value is saved and loaded, it keeps its type, whatever it holds: no
\* element is written under a tag the reader does not know.  What is lost instead is a
\* monostate or holds a text with a character XML does not allow before its first 0
\* (preferences_xml_utils.cpp:52-180, 227-321, 427, 811).
THEOREM TypeKeptHolds == Spec => []TypeKept
  <1>1. IInv => TypeKept
    BY HeldAre DEF IInv, TypeKept
  <1> QED BY <1>1, SpecIInv, PTL

\* Saving and loading, through the file and through the database in any order and any
\* number of times, changes a value of any type and length at most once, to what the file
\* can keep: nothing of a monostate and of a text XML does not allow, strings up to a 0,
\* reals to six decimals, and all of the others
\* (preferences_xml_utils.cpp:323-406, 802-842, base64_helper.cpp:56-116).
THEOREM XmlKeepsHolds == Spec => []XmlKeeps
  <1>1. IInv => XmlKeeps
    BY DEF IInv, XmlKeeps, Held
  <1> QED BY <1>1, SpecIInv, PTL

\* A blob of any length is read back as the value it was made from
\* (preferences_value_parcel.cpp:222-656).
THEOREM BlobExactHolds == Spec => []BlobExact
  <1>1. IInv => BlobExact
    <2> SUFFICES ASSUME IInv, blob # <<>> PROVE UnmarshallingPreferenceValue(blob) = blobOf
      BY DEF BlobExact
    <2>1. original \in Values /\ blobOf \in Held /\ Supported(blobOf) /\ blob = Marshalled(blobOf)
      BY DEF IInv
    <2>2. BlobKept(blobOf)
      BY <2>1, HeldAre, AbsentIs, ValueBlob
    <2> QED BY <2>1, <2>2 DEF BlobKept
  <1> QED BY <1>1, SpecIInv, PTL

\* The buffer of CalSize bytes is filled and not overrun, whatever value the cache holds, as
\* long as a uint32_t can say its size
\* (preferences_value_parcel.cpp:56-102, 207, 256).
THEOREM BlobFitsHolds == Spec => []BlobFits
  <1>1. IInv => BlobFits
    <2> SUFFICES ASSUME IInv, Supported(value), Sizable(value)
                 PROVE  Len(Marshalled(value)) = CalSize(value)
      BY DEF BlobFits
    <2>1. original \in Values /\ value \in Held
      BY DEF IInv
    <2>2. BlobKept(value)
      BY <2>1, HeldAre, AbsentIs, ValueBlob
    <2>3. BlobSize(value) \in 0 .. UINT32 - 1
      <3>1. Len(Marshalled(value)) \in Nat /\ Len(Marshalled(value)) = BlobSize(value)
        BY <2>2 DEF BlobKept
      <3> QED BY <3>1, WidthsAssumption DEF Sizable
    <2>4. BlobSize(value) % UINT32 = BlobSize(value)
      BY <2>3, WidthsAssumption
    <2> QED BY <2>2, <2>4 DEF BlobKept, CalSize
  <1> QED BY <1>1, SpecIInv, PTL
=============================================================================
