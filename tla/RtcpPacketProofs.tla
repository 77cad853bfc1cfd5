-------------------------- MODULE RtcpPacketProofs --------------------------
(***************************************************************************)
(* Proofs about the packets of RTCP compounds for any streams, SDES items, *)
(* texts, statistics, clocks and limits: what OnRecvCtrl's loop finds in a *)
(* compound is what the builder put in.                                    *)
(***************************************************************************)
EXTENDS RtcpPackets, WellFoundedInduction, TLAPS

-----------------------------------------------------------------------------
\* Division of naturals, as toNtpStamp's / and % have it.
LEMMA Division ==
    ASSUME NEW a \in Nat, NEW b \in Nat \ {0}
    PROVE  /\ a \div b \in Nat
           /\ (a \div b) * b <= a /\ a < (a \div b) * b + b
           /\ a % b \in 0 .. b - 1 /\ a % b = a - (a \div b) * b
BY SMT

\* The NTP stamp that fillSenderInfo sends and readSenderInfo reads is the
\* sender's clock, at most one tick early, for every time until the seconds
\* wrap.
THEOREM NtpRoundTrip ==
    \A tm \in Times : fromNtp(NtpSeconds(tm), NtpFraction(tm)) \in {tm - 1, tm}
\* The fraction of a second fits its word without being cut, and loses less
\* than one tick on the way back through fromNtp.
<1>FractionReadBack. ASSUME NEW r \in 0 .. Second - 1
                     PROVE  LET f == (r * Word) \div Second
                            IN  /\ f \in 0 .. Word - 1
                                /\ (f * Second) \div Word \in {r - 1, r}
  <2> USE <1>FractionReadBack
  <2> DEFINE f == (r * Word) \div Second
             n == (f * Second) \div Word
  <2>1. Second \in Nat \ {0} /\ Word \in Nat \ {0} /\ Second <= Word
    BY RtcpTimeAssumption
  <2>2. r * Word \in Nat
    BY <2>1
  <2>3. f \in Nat /\ f * Second <= r * Word /\ r * Word < f * Second + Second
    BY <2>1, <2>2, Division
  <2>4. f \in 0 .. Word - 1
    BY <2>1, <2>3
  <2> HIDE DEF f
  <2>5. f * Second \in Nat
    BY <2>1, <2>3
  <2>6. n \in Nat /\ n * Word <= f * Second /\ f * Second < n * Word + Word
    BY <2>1, <2>5, Division
  <2> HIDE DEF n
  <2>7. n <= r
    BY <2>1, <2>3, <2>6
  <2>8. r - 1 <= n
    BY <2>1, <2>3, <2>6
  <2> QED  BY <2>4, <2>6, <2>7, <2>8 DEF n, f
<1> SUFFICES ASSUME NEW tm \in Times
             PROVE  fromNtp(NtpSeconds(tm), NtpFraction(tm)) \in {tm - 1, tm}
  OBVIOUS
<1> DEFINE r == tm % Second
           s == tm \div Second
           f == (r * Word) \div Second
           n == (f * Second) \div Word
<1>1. Second \in Nat \ {0} /\ Word \in Nat \ {0} /\ ntpEpochOffset \in Nat
  BY RtcpTimeAssumption
<1>2. tm \in Nat /\ s + ntpEpochOffset < Word
  BY DEF Times
<1>3. s \in Nat /\ r \in 0 .. Second - 1 /\ r = tm - s * Second
  BY <1>1, <1>2, Division
<1>4. f \in 0 .. Word - 1 /\ n \in {r - 1, r}
  BY <1>3, <1>FractionReadBack
<1> HIDE DEF s, r, f, n
<1>5. NtpSeconds(tm) = s + ntpEpochOffset
  BY <1>1, <1>2, <1>3 DEF NtpSeconds, s
<1>6. NtpFraction(tm) = f
  BY <1>1, <1>4 DEF NtpFraction, f, r
<1>7. fromNtp(NtpSeconds(tm), NtpFraction(tm)) =
          (s + ntpEpochOffset - ntpEpochOffset) * Second + n
  BY <1>1, <1>3, <1>4, <1>5, <1>6 DEF fromNtp, n
<1>8. s + ntpEpochOffset - ntpEpochOffset = s
  BY <1>1, <1>3
<1>9. tm = s * Second + r /\ s * Second \in Int
  BY <1>1, <1>2, <1>3
<1> QED  BY <1>3, <1>4, <1>7, <1>8, <1>9

\* What makeRecvReport puts in the LSR and DLSR fields says nothing of whole
\* seconds: times that differ by any number of seconds give the same field,
\* which fits in half a word.  A delay of k seconds since the last sender
\* report is reported as no delay.
THEOREM ReportLosesSeconds ==
    \A tm \in Nat, k \in Nat :
        /\ MiddleBits(tm) \in 0 .. HalfWord - 1
        /\ MiddleBits(tm + k * Second) = MiddleBits(tm)
\* A quotient is determined by its bounds.
<1>QuotientUnique. ASSUME NEW a \in Nat, NEW b \in Nat \ {0}, NEW q \in Int,
                          q * b <= a, a < q * b + b
                   PROVE  a \div b = q /\ a % b = a - q * b
  <2> USE <1>QuotientUnique
  <2> DEFINE d == a \div b
  <2>1. d \in Int /\ d * b <= a /\ a < d * b + b /\ a % b = a - d * b
    BY Division
  <2> HIDE DEF d
  <2>2. ~ (q < d)
    <3>1. q < d => (q + 1) * b <= d * b
      BY <2>1
    <3>2. (q + 1) * b = q * b + b
      OBVIOUS
    <3> QED  BY <2>1, <3>1, <3>2
  <2>3. ~ (d < q)
    <3>1. d < q => (d + 1) * b <= q * b
      BY <2>1
    <3>2. (d + 1) * b = d * b + b
      BY <2>1
    <3> QED  BY <2>1, <3>1, <3>2
  <2>4. d = q
    BY <2>1, <2>2, <2>3
  <2> QED  BY <2>1, <2>4 DEF d
<1>1. Second \in Nat \ {0} /\ Word \in Nat \ {0} /\ HalfWord \in Nat \ {0}
      /\ Word = HalfWord * HalfWord /\ ntpEpochOffset \in Nat
  BY RtcpTimeAssumption
<1>2. ASSUME NEW t \in Nat
      PROVE  /\ MiddleBits(t) = NtpFraction(t) \div HalfWord
             /\ NtpFraction(t) \in 0 .. Word - 1
  <2> DEFINE a == t \div Second + ntpEpochOffset
             b == (t % Second) * Word
             c == b \div Second
  <2>1. t \div Second \in Nat /\ t % Second \in Nat
    BY <1>1, Division
  <2>2. a \in Nat /\ b \in Nat
    BY <1>1, <2>1
  <2>3. c \in Nat
    <3> HIDE DEF b
    <3> QED  BY <1>1, <2>2, Division
  <2>4. NtpSeconds(t) = a % Word /\ NtpFraction(t) = c % Word
    BY DEF NtpSeconds, NtpFraction
  <2> HIDE DEF a, b, c
  <2>5. NtpSeconds(t) \in Nat /\ NtpFraction(t) \in 0 .. Word - 1
    <3>1. Word \in Nat \ {0} /\ a % Word \in 0 .. Word - 1
          /\ c % Word \in 0 .. Word - 1
      BY <1>1, <2>2, <2>3, Division
    <3> QED  BY <2>4, <3>1
  <2>6. NtpSeconds(t) * Word \in Nat
    BY <1>1, <2>5
  <2>7. (NtpSeconds(t) * Word) % Word = 0
    BY <1>1, <2>5, <2>6, <1>QuotientUnique
  <2> QED  BY <2>5, <2>7 DEF MiddleBits
<1>3. ASSUME NEW t \in Nat, NEW k \in Nat
      PROVE  /\ t + k * Second \in Nat
             /\ NtpFraction(t + k * Second) = NtpFraction(t)
  <2> DEFINE q == t \div Second
  <2>1. q \in Nat /\ q * Second <= t /\ t < q * Second + Second
        /\ t % Second = t - q * Second
    BY <1>1, Division
  <2> HIDE DEF q
  <2>2. t + k * Second \in Nat /\ q + k \in Int
        /\ (q + k) * Second = q * Second + k * Second
    BY <1>1, <2>1
  <2> DEFINE u == t + k * Second
             p == q + k
  <2>3. u \in Nat /\ p \in Int /\ p * Second <= u /\ u < p * Second + Second
        /\ u - p * Second = t - q * Second
    BY <1>1, <2>1, <2>2
  <2>4. u % Second = t % Second
    <3> HIDE DEF u, p
    <3> QED  BY <1>1, <2>1, <2>3, <1>QuotientUnique
  <2> QED  BY <2>2, <2>4 DEF NtpFraction
<1>4. ASSUME NEW f \in 0 .. Word - 1
      PROVE  f \div HalfWord \in 0 .. HalfWord - 1
  <2> DEFINE h == f \div HalfWord
  <2>1. h \in Nat /\ h * HalfWord <= f
    BY <1>1, Division
  <2> HIDE DEF h
  <2>2. h < HalfWord
    BY <1>1, <2>1
  <2> QED  BY <1>1, <2>1, <2>2 DEF h
<1> QED  BY <1>2, <1>3, <1>4

-----------------------------------------------------------------------------
\* Induction and recursion.  The loops of the code are recursive functions
\* over finite intervals; these lemmas say that such functions exist.

\* A set that has 0 and with each natural the next one has them all.
LEMMA SetInduction ==
    \A S :
          /\ 0 \in S
          /\ \A n \in Nat : n \in S => n + 1 \in S
          =>
          Nat \subseteq S
\* A nonempty set of naturals has a least element.
<1>LeastNatural. ASSUME NEW T, T \subseteq Nat, T # {}
                 PROVE  \E x \in T : \A y \in T : x <= y
  <2> USE <1>LeastNatural
  <2>1. IsWellFoundedOn(OpToRel(<, Nat), Nat)
    BY NatLessThanWellFounded
  <2>2. PICK x \in T : \A y \in T : ~ (<<y, x>> \in OpToRel(<, Nat))
    BY <2>1, WFMin
  <2>3. \A y \in T : ~ (y < x)
    BY <2>2 DEF OpToRel
  <2> QED  BY <2>3
<1> SUFFICES ASSUME NEW S, 0 \in S, \A n \in Nat : n \in S => n + 1 \in S
             PROVE  Nat \subseteq S
  BY Zenon
<1> SUFFICES ASSUME Nat \ S # {} PROVE FALSE
  OBVIOUS
<1>1. PICK x \in Nat \ S : \A y \in Nat \ S : x <= y
  BY <1>LeastNatural
<1>2. x # 0
  BY <1>1
<1>3. x - 1 \in Nat
  BY <1>1, <1>2
<1>4. x - 1 \in S
  BY <1>1, <1>3
<1>5. (x - 1) + 1 \in S
  BY <1>3, <1>4
<1> QED  BY <1>1, <1>5

\* A loop of N steps: after step k the state is h[k] of the state before.
Steps(h, N, X) == h \in [1 .. N -> [X -> X]]

Ascends(g, N, X, a, h) ==
    g \in [0 .. N -> X] /\ g[0] = a /\ \A k \in 1 .. N : g[k] = h[k][g[k - 1]]

\* Every such loop has its sequence of states.
LEMMA Ascent ==
    ASSUME NEW N \in Nat, NEW X, NEW a \in X, NEW h, Steps(h, N, X)
    PROVE  \E g : Ascends(g, N, X, a, h)
<1>0. h \in [1 .. N -> [X -> X]]
  BY DEF Steps
<1> DEFINE Upto(n) == \E g \in [0 .. n -> X] :
               g[0] = a /\ \A k \in 1 .. n : g[k] = h[k][g[k - 1]]
           S == {n \in Nat : n <= N => Upto(n)}
<1>1. 0 \in S
  <2> DEFINE g == [k \in 0 .. 0 |-> a]
  <2>1. g \in [0 .. 0 -> X] /\ g[0] = a /\ \A k \in 1 .. 0 : g[k] = h[k][g[k - 1]]
    OBVIOUS
  <2> HIDE DEF g
  <2>2. Upto(0)
    BY <2>1
  <2> QED  BY <2>2
<1>2. ASSUME NEW n \in Nat, n \in S PROVE n + 1 \in S
  <2> SUFFICES ASSUME n + 1 <= N PROVE Upto(n + 1)
    OBVIOUS
  <2>1. Upto(n)
    BY <1>2
  <2>2. PICK f \in [0 .. n -> X] :
            f[0] = a /\ \A k \in 1 .. n : f[k] = h[k][f[k - 1]]
    BY <2>1
  <2> DEFINE g == [k \in 0 .. n + 1 |-> IF k = n + 1 THEN h[n + 1][f[n]] ELSE f[k]]
  <2>3. h[n + 1][f[n]] \in X
    <3>1. h[n + 1] \in [X -> X] /\ f[n] \in X
      BY <1>0
    <3> QED  BY <3>1
  <2>4. g \in [0 .. n + 1 -> X]
    BY <2>3
  <2>5. g[0] = a
    BY <2>2
  <2>6. ASSUME NEW k \in 1 .. n + 1 PROVE g[k] = h[k][g[k - 1]]
    <3>1. CASE k = n + 1
      BY <3>1
    <3>2. CASE k # n + 1
      <4>1. k \in 1 .. n /\ k - 1 \in 0 .. n /\ k - 1 # n + 1
        BY <3>2
      <4> QED  BY <2>2, <4>1
    <3> QED  BY <3>1, <3>2
  <2> HIDE DEF g
  <2> QED  BY <2>4, <2>5, <2>6
<1> HIDE DEF S
<1>3. Nat \subseteq S
  BY <1>1, <1>2, SetInduction
<1>4. N \in S
  BY <1>3
<1>5. PICK g \in [0 .. N -> X] :
          g[0] = a /\ \A k \in 1 .. N : g[k] = h[k][g[k - 1]]
  BY <1>4 DEF S
<1> QED  BY <1>5, Zenon DEF Ascends

\* A loop that moves on from offset to offset, up to N: what it gives from
\* offset o on is a[o] where it stops, and h[o] of what it gives from the
\* next offset on where it does not.
Moves(N, X, T, a, h, next) ==
    /\ a \in [0 .. N -> X] /\ h \in [0 .. N -> [X -> X]]
    /\ \A o \in 0 .. N : o \notin T => next[o] \in o + 1 .. N

Descends(g, N, X, T, a, h, next) ==
    /\ g \in [0 .. N -> X]
    /\ \A o \in 0 .. N : g[o] = IF o \in T THEN a[o] ELSE h[o][g[next[o]]]

\* Every such loop gives a value at every offset.
LEMMA Descent ==
    ASSUME NEW N \in Nat, NEW X, NEW T, NEW a, NEW h, NEW next,
           Moves(N, X, T, a, h, next)
    PROVE  \E g : Descends(g, N, X, T, a, h, next)
<1>0. /\ a \in [0 .. N -> X] /\ h \in [0 .. N -> [X -> X]]
      /\ \A o \in 0 .. N : o \notin T => next[o] \in o + 1 .. N
  BY DEF Moves
<1> DEFINE From(m) == \E g \in [N - m .. N -> X] : \A o \in N - m .. N :
               g[o] = IF o \in T THEN a[o] ELSE h[o][g[next[o]]]
           S == {m \in Nat : m <= N => From(m)}
<1>1. 0 \in S
  <2>0. N \in T
    BY <1>0
  <2> DEFINE g == [o \in N - 0 .. N |-> a[N]]
  <2>1. g \in [N - 0 .. N -> X]
    BY <1>0
  <2>2. \A o \in N - 0 .. N : g[o] = IF o \in T THEN a[o] ELSE h[o][g[next[o]]]
    BY <2>0
  <2> HIDE DEF g
  <2>3. From(0)
    BY <2>1, <2>2
  <2> QED  BY <2>3
<1>2. ASSUME NEW m \in Nat, m \in S PROVE m + 1 \in S
  <2> SUFFICES ASSUME m + 1 <= N PROVE From(m + 1)
    OBVIOUS
  <2>1. From(m)
    BY <1>2
  <2>2. PICK f \in [N - m .. N -> X] : \A o \in N - m .. N :
            f[o] = IF o \in T THEN a[o] ELSE h[o][f[next[o]]]
    BY <2>1
  <2> DEFINE p == N - (m + 1)
             v == IF p \in T THEN a[p] ELSE h[p][f[next[p]]]
             g == [o \in p .. N |-> IF o = p THEN v ELSE f[o]]
  <2>3. p \in 0 .. N /\ p + 1 = N - m
    OBVIOUS
  <2>4. v \in X
    <3>1. CASE p \in T
      BY <1>0, <2>3, <3>1
    <3>2. CASE p \notin T
      <4>1. next[p] \in N - m .. N
        BY <1>0, <2>3, <3>2
      <4>2. h[p] \in [X -> X] /\ f[next[p]] \in X
        BY <1>0, <2>3, <4>1
      <4> QED  BY <3>2, <4>2
    <3> QED  BY <3>1, <3>2
  <2> HIDE DEF v
  <2>5. g \in [p .. N -> X]
    BY <2>3, <2>4
  <2>6. ASSUME NEW o \in p .. N
        PROVE  g[o] = IF o \in T THEN a[o] ELSE h[o][g[next[o]]]
    <3>1. o \notin T => next[o] \in N - m .. N /\ next[o] # p
      BY <1>0, <2>3
    <3>2. o \notin T => g[next[o]] = f[next[o]]
      BY <2>3, <3>1
    <3>3. CASE o = p
      BY <3>2, <3>3 DEF v
    <3>4. CASE o # p
      <4>1. o \in N - m .. N
        BY <2>3, <3>4
      <4> QED  BY <2>2, <3>2, <3>4, <4>1
    <3> QED  BY <3>3, <3>4
  <2> HIDE DEF g
  <2> QED  BY <2>5, <2>6
<1> HIDE DEF S
<1>3. Nat \subseteq S
  BY <1>1, <1>2, SetInduction
<1>4. N \in S
  BY <1>3
<1>5. From(N)
  BY <1>4 DEF S
<1>6. N - N = 0
  OBVIOUS
<1>7. PICK g \in [0 .. N -> X] : \A o \in 0 .. N :
          g[o] = IF o \in T THEN a[o] ELSE h[o][g[next[o]]]
  BY <1>5, <1>6
<1> QED  BY <1>7, Zenon DEF Descends

-----------------------------------------------------------------------------
\* Bytes and words.

\* p is a sequence of n bytes.
Bytes(p, n) == p \in Seq(Byte) /\ Len(p) = n

\* The bytes p are in b, from offset o on.
Holds(b, o, p) ==
    /\ o + Len(p) <= Len(b)
    /\ \A j \in 1 .. Len(p) : b[o + j] = p[j]

\* A byte is a natural below 256.
LEMMA ByteValues == \A x : x \in Byte <=> x \in Nat /\ x < 256
BY DEF Byte

\* The length of bytes after bytes.
LEMMA Concatenated ==
    ASSUME NEW m \in Nat, NEW n \in Nat, NEW p, NEW q, Bytes(p, m), Bytes(q, n)
    PROVE  Bytes(p \o q, m + n)
<1>1. p \in Seq(Byte) /\ q \in Seq(Byte) /\ Len(p) = m /\ Len(q) = n
  BY DEF Bytes
<1>2. p \o q \in Seq(Byte) /\ Len(p \o q) = m + n
  BY <1>1
<1> QED  BY <1>2, Zenon DEF Bytes

\* The parts of what is held are held one after the other.
LEMMA HoldsParts ==
    ASSUME NEW m \in Nat, NEW n \in Nat, NEW p, NEW q, Bytes(p, m), Bytes(q, n),
           NEW b \in Seq(Byte), NEW o \in Nat, Holds(b, o, p \o q)
    PROVE  Holds(b, o, p) /\ Holds(b, o + m, q)
<1>1. p \in Seq(Byte) /\ q \in Seq(Byte) /\ Len(p) = m /\ Len(q) = n
  BY DEF Bytes
<1>2. /\ Len(p \o q) = m + n
      /\ \A j \in 1 .. m : (p \o q)[j] = p[j]
      /\ \A j \in 1 .. n : (p \o q)[m + j] = q[j]
  <2>1. Len(p \o q) = m + n /\ \A j \in 1 .. m : (p \o q)[j] = p[j]
    BY <1>1
  <2>2. ASSUME NEW j \in 1 .. n PROVE (p \o q)[m + j] = q[j]
    <3> DEFINE i == m + j
    <3>1. i \in m + 1 .. m + n /\ i - m = j
      OBVIOUS
    <3> HIDE DEF i
    <3>2. (p \o q)[i] = q[i - m]
      BY <1>1, <3>1
    <3> QED  BY <3>1, <3>2, Zenon DEF i
  <2> QED  BY <2>1, <2>2, Zenon
<1>3. /\ o + Len(p \o q) <= Len(b)
      /\ \A j \in 1 .. Len(p \o q) : b[o + j] = (p \o q)[j]
  BY Zenon DEF Holds
<1> DEFINE r == p \o q
<1>4. /\ \A j \in 1 .. m : r[j] = p[j]
      /\ \A j \in 1 .. n : r[m + j] = q[j]
      /\ o + (m + n) <= Len(b)
      /\ \A j \in 1 .. m + n : b[o + j] = r[j]
  BY <1>2, <1>3, Zenon
<1> HIDE DEF r
<1>5. /\ o + m <= Len(b) /\ (o + m) + n <= Len(b)
      /\ \A j \in 1 .. m : b[o + j] = p[j]
  BY <1>4
<1>6. ASSUME NEW j \in 1 .. n PROVE b[(o + m) + j] = q[j]
  <2>1. m + j \in 1 .. m + n /\ o + (m + j) = (o + m) + j
    OBVIOUS
  <2> QED  BY <1>4, <2>1
<1> QED  BY <1>1, <1>5, <1>6, Zenon DEF Holds

\* The bytes that At finds where p is held.
LEMMA HeldByte ==
    ASSUME NEW n \in Nat, NEW p, Bytes(p, n), NEW b \in Seq(Byte), NEW o \in Nat,
           Holds(b, o, p), NEW x \in Nat, NEW j \in 1 .. n, x + 1 = o + j
    PROVE  At(b, x) = p[j]
<1>1. Len(p) = n
  BY DEF Bytes
<1>2. o + n <= Len(b) /\ b[o + j] = p[j]
  BY <1>1, Zenon DEF Holds
<1>3. x < Len(b)
  BY <1>2
<1> QED  BY <1>2, <1>3 DEF At

\* At gives a byte, whatever the offset.
LEMMA AtIsByte ==
    ASSUME NEW b \in Seq(Byte), NEW o \in Nat
    PROVE  At(b, o) \in Byte
<1>1. Stale \in Byte
  BY RtcpPacketAssumption DEF Byte
<1>2. o < Len(b) => b[o + 1] \in Byte
  <2>1. o < Len(b) => o + 1 \in 1 .. Len(b)
    OBVIOUS
  <2> QED  BY <2>1
<1> QED  BY <1>1, <1>2 DEF At

\* One byte.
LEMMA ByteBytes ==
    ASSUME NEW x \in Byte
    PROVE  Bytes(<<x>>, 1) /\ <<x>>[1] = x
BY DEF Bytes

\* A word of 16 bits has two bytes.
LEMMA Uint16Bytes ==
    ASSUME NEW n \in Nat
    PROVE  /\ Bytes(PutUint16(n), 2)
           /\ PutUint16(n)[1] * 256 + PutUint16(n)[2] = n % Two16
<1> DEFINE h == (n \div 256) % 256
           l == n % 256
<1>1. h \in Byte /\ l \in Byte
  BY DEF Byte
<1>2. h * 256 + l = n % Two16
  BY DEF Two16
<1>3. PutUint16(n) = <<h, l>>
  BY DEF PutUint16
<1> HIDE DEF h, l
<1>4. <<h, l>> \in Seq(Byte) /\ Len(<<h, l>>) = 2
      /\ <<h, l>>[1] = h /\ <<h, l>>[2] = l
  BY <1>1
<1>5. Bytes(PutUint16(n), 2)
  BY <1>3, <1>4 DEF Bytes
<1>6. PutUint16(n)[1] = h /\ PutUint16(n)[2] = l
  BY <1>3, <1>4
<1> QED  BY <1>2, <1>5, <1>6

\* A word of 16 bits comes back, less what does not fit.
LEMMA Uint16ReadBack ==
    ASSUME NEW n \in Nat, NEW b \in Seq(Byte), NEW o \in Nat,
           Holds(b, o, PutUint16(n))
    PROVE  Uint16(b, o) = n % Two16
<1> DEFINE p == PutUint16(n)
<1>1. Bytes(p, 2)
  BY Uint16Bytes
<1>2. p[1] * 256 + p[2] = n % Two16
  BY Uint16Bytes
<1>3. Holds(b, o, p)
  OBVIOUS
<1> HIDE DEF p
<1>4. 1 \in 1 .. 2 /\ 2 \in 1 .. 2 /\ o + 1 \in Nat /\ (o + 1) + 1 = o + 2
      /\ 2 \in Nat
  OBVIOUS
<1>5. At(b, o) = p[1]
  BY <1>1, <1>3, <1>4, HeldByte
<1>6. At(b, o + 1) = p[2]
  BY <1>1, <1>3, <1>4, HeldByte
<1>7. Uint16(b, o) = p[1] * 256 + p[2]
  BY <1>5, <1>6, Zenon DEF Uint16
<1> QED  BY <1>2, <1>7, Zenon

\* A word of 32 bits has four bytes.
LEMMA Uint32Bytes ==
    ASSUME NEW n \in Nat
    PROVE  Bytes(PutUint32(n), 4)
<1> DEFINE p == PutUint16(n \div Two16)
           q == PutUint16(n % Two16)
<1>1. n \div Two16 \in Nat /\ n % Two16 \in Nat /\ 2 \in Nat /\ 2 + 2 = 4
  BY DEF Two16
<1>2. Bytes(p, 2) /\ Bytes(q, 2)
  BY <1>1, Uint16Bytes, Zenon
<1>3. Bytes(p \o q, 2 + 2)
  BY <1>1, <1>2, Concatenated, Zenon
<1> QED  BY <1>1, <1>3, Zenon DEF PutUint32

\* A word of 32 bits comes back, less what does not fit.
LEMMA Uint32ReadBack ==
    ASSUME NEW n \in Nat, NEW b \in Seq(Byte), NEW o \in Nat,
           Holds(b, o, PutUint32(n))
    PROVE  Uint32(b, o) = Wrap32(n)
<1> DEFINE u == n \div Two16
           l == n % Two16
           p == PutUint16(u)
           q == PutUint16(l)
<1>1. u \in Nat /\ l \in Nat /\ l % Two16 = l
  BY DEF Two16
<1>2. Wrap32(n) = (u % Two16) * Two16 + l
  BY DEF Wrap32
<1>3. Holds(b, o, p \o q)
  BY Zenon DEF PutUint32
<1> HIDE DEF u, l
<1>4. Bytes(p, 2) /\ Bytes(q, 2) /\ 2 \in Nat
  BY <1>1, Uint16Bytes
<1>5. Holds(b, o, p) /\ Holds(b, o + 2, q)
  BY <1>3, <1>4, HoldsParts, Zenon
<1>6. Uint16(b, o) = u % Two16
  BY <1>1, <1>5, Uint16ReadBack, Zenon
<1>7. o + 2 \in Nat
  OBVIOUS
<1>8. Uint16(b, o + 2) = l
  BY <1>1, <1>5, <1>7, Uint16ReadBack, Zenon
<1> QED  BY <1>2, <1>6, <1>8, Zenon DEF Uint32

\* The values that the fields of reports have.
LEMMA Uint32Fields ==
    /\ \A n \in Nat : n < Two16 => n \in Uint32s
    /\ \A n \in Uint32s : n \in Nat /\ Wrap32(n) = n /\ n \div 16 \in Uint32s
    /\ \A n \in 0 .. Word - 1 : n \in Uint32s
    /\ \A tm \in Nat : MiddleBits(tm) \in Uint32s
    /\ \A tm \in Nat : NtpSeconds(tm) \in Uint32s /\ NtpFraction(tm) \in Uint32s
\* The values of 32 bits are those whose upper half has 16.
<1>Uint32Values. \A n \in Nat : n \in Uint32s <=> n \div Two16 < Two16
  <2> SUFFICES ASSUME NEW n \in Nat
               PROVE  n \in Uint32s <=> n \div Two16 < Two16
    OBVIOUS
  <2> DEFINE u == n \div Two16
             l == n % Two16
  <2>1. u \in Nat /\ l \in Nat /\ l < Two16 /\ n = u * Two16 + l
    BY DEF Two16
  <2>2. Wrap32(n) = (u % Two16) * Two16 + l
    BY DEF Wrap32
  <2> HIDE DEF u, l
  <2>3. u < Two16 => u % Two16 = u
    BY <2>1 DEF Two16
  <2>4. u % Two16 \in Nat /\ u % Two16 < Two16
    BY <2>1 DEF Two16
  <2>5. Wrap32(n) = n <=> u < Two16
    BY <2>1, <2>2, <2>3, <2>4 DEF Two16
  <2> QED  BY <2>5 DEF u, Uint32s
<1>1. \A n \in Nat : n < Two16 => n \in Uint32s
  <2>1. Two16 \in Nat /\ 0 < Two16
    BY DEF Two16
  <2>2. \A n \in Nat : n < Two16 => n \div Two16 = 0
    BY DEF Two16
  <2> QED  BY <2>1, <2>2, <1>Uint32Values
<1>2. ASSUME NEW n \in Uint32s
      PROVE  n \in Nat /\ Wrap32(n) = n /\ n \div 16 \in Uint32s
  <2>1. n \in Nat /\ Wrap32(n) = n
    BY DEF Uint32s
  <2>2. n \div Two16 < Two16
    BY <2>1, <1>Uint32Values
  <2>3. n \div 16 \in Nat /\ n \div 16 <= n
    BY <2>1
  <2>4. n \div Two16 < Two16 => (n \div 16) \div Two16 < Two16
    BY <2>1, <2>3 DEF Two16
  <2> QED  BY <2>1, <2>2, <2>3, <2>4, <1>Uint32Values
<1>3. HalfWord \in Nat \ {0} /\ HalfWord <= Two16
  BY RtcpTimeAssumption, RtcpPacketAssumption
<1>w. Word \in Nat \ {0} /\ Second \in Nat \ {0} /\ ntpEpochOffset \in Nat
  BY RtcpTimeAssumption
<1>h. Word = HalfWord * HalfWord
  BY RtcpTimeAssumption
<1>4. ASSUME NEW n \in 0 .. Word - 1 PROVE n \in Uint32s
  <2>1. HalfWord * HalfWord <= Two16 * HalfWord /\ Two16 * HalfWord <= Two16 * Two16
    BY <1>3 DEF Two16
  <2>2. n \in Nat /\ n < Two16 * Two16
    BY <1>3, <1>w, <1>h, <2>1 DEF Two16
  <2>3. n \div Two16 < Two16
    BY <2>2 DEF Two16
  <2> QED  BY <2>2, <2>3, <1>Uint32Values
<1>5. ASSUME NEW tm \in Nat PROVE MiddleBits(tm) \in Uint32s
  <2>1. MiddleBits(tm) \in 0 .. HalfWord - 1
    BY ReportLosesSeconds
  <2>2. MiddleBits(tm) \in Nat /\ MiddleBits(tm) < Two16
    BY <1>3, <2>1 DEF Two16
  <2> QED  BY <1>1, <2>2
<1>6. ASSUME NEW tm \in Nat
      PROVE  NtpSeconds(tm) \in Uint32s /\ NtpFraction(tm) \in Uint32s
  <2> DEFINE a == tm \div Second + ntpEpochOffset
             r == tm % Second
             c == (r * Word) \div Second
  <2>1. a \in Nat /\ r \in Nat
    BY <1>w, Division
  <2>2. NtpSeconds(tm) = a % Word /\ NtpFraction(tm) = c % Word
    BY DEF NtpSeconds, NtpFraction
  <2> HIDE DEF a, r
  <2>3. r * Word \in Nat
    BY <1>w, <2>1
  <2>4. c \in Nat
    BY <1>w, <2>3, Division
  <2> HIDE DEF c
  <2>5. a % Word \in 0 .. Word - 1
    BY <1>w, <2>1, Division
  <2>6. c % Word \in 0 .. Word - 1
    BY <1>w, <2>4, Division
  <2> QED  BY <1>4, <2>2, <2>5, <2>6
<1> QED  BY <1>1, <1>2, <1>4, <1>5, <1>6

\* The length of the packet at o, as OnRecvCtrl computes it.
PktLen(b, o) == (4 * (Uint16(b, o + 2) + 1)) % Two16

\* A header has four bytes.
LEMMA HeaderBytes ==
    ASSUME NEW type \in Byte, NEW count \in Nat, count < 32,
           NEW len \in Nat, len % 4 = 0, len >= 4
    PROVE  Bytes(Header(type, count, len), 4)
<1> DEFINE n == len \div 4 - 1
           x == 128 + (count % 32)
<1>1. n \in Nat /\ 2 \in Nat /\ 2 + 2 = 4
  OBVIOUS
<1>2. x \in Nat /\ x < 256
  OBVIOUS
<1>3. Header(type, count, len) = <<x, type>> \o PutUint16(n)
  BY DEF Header
<1> HIDE DEF n, x
<1>4. Bytes(<<x, type>>, 2)
  <2>1. x \in Byte
    BY <1>2, ByteValues
  <2> QED  BY <2>1 DEF Bytes
<1>5. Bytes(PutUint16(n), 2)
  BY <1>1, Uint16Bytes
<1>6. Bytes(<<x, type>> \o PutUint16(n), 2 + 2)
  BY <1>1, <1>4, <1>5, Concatenated, Zenon
<1> QED  BY <1>1, <1>3, <1>6, Zenon

\* A header says what packet it is of, how many parts and how many bytes.
LEMMA HeaderReadBack ==
    ASSUME NEW type \in Byte, NEW count \in Nat, count < 32,
           NEW len \in Nat, len % 4 = 0, len >= 4, len < Two16,
           NEW b \in Seq(Byte), NEW o \in Nat, Holds(b, o, Header(type, count, len))
    PROVE  At(b, o) % 32 = count /\ At(b, o + 1) = type /\ PktLen(b, o) = len
<1> DEFINE n == len \div 4 - 1
           x == 128 + (count % 32)
           p == <<x, type>>
<1>1. n \in Nat /\ 4 * (n + 1) = len
  OBVIOUS
<1>2. x \in Nat /\ x < 256 /\ x % 32 = count
  OBVIOUS
<1>3. Header(type, count, len) = p \o PutUint16(n)
  BY DEF Header
<1> HIDE DEF n, x
<1>4. p[1] = x /\ p[2] = type
  OBVIOUS
<1>5. Bytes(p, 2)
  <2>1. x \in Byte
    BY <1>2, ByteValues
  <2> QED  BY <2>1 DEF Bytes
<1>6. Bytes(PutUint16(n), 2)
  BY <1>1, Uint16Bytes
<1> HIDE DEF p
<1>7. 1 \in 1 .. 2 /\ 2 \in 1 .. 2 /\ o + 1 \in Nat /\ (o + 1) + 1 = o + 2
      /\ 2 \in Nat /\ o + 2 \in Nat
  OBVIOUS
<1>8. Holds(b, o, p) /\ Holds(b, o + 2, PutUint16(n))
  <2>1. Holds(b, o, p \o PutUint16(n))
    BY <1>3, Zenon
  <2> QED  BY <1>5, <1>6, <1>7, <2>1, HoldsParts, Zenon
<1>9. At(b, o) = p[1]
  BY <1>5, <1>7, <1>8, HeldByte
<1>10. At(b, o + 1) = p[2]
  BY <1>5, <1>7, <1>8, HeldByte
<1>11. Uint16(b, o + 2) = n % Two16
  BY <1>1, <1>7, <1>8, Uint16ReadBack, Zenon
<1>12. n % Two16 = n /\ (4 * (n + 1)) % Two16 = len
  BY <1>1 DEF Two16
<1>13. PktLen(b, o) = len
  BY <1>11, <1>12, Zenon DEF PktLen
<1> QED  BY <1>2, <1>4, <1>9, <1>10, <1>13, Zenon

\* Bytes with a word behind them.
LEMMA WordBehind ==
    ASSUME NEW m \in Nat, NEW p, Bytes(p, m), NEW n \in Nat
    PROVE  Bytes(p \o PutUint32(n), m + 4)
<1>1. 4 \in Nat /\ Bytes(PutUint32(n), 4)
  BY Uint32Bytes
<1> QED  BY <1>1, Concatenated, Zenon

\* A 32 bit word that PutUint32 wrote behind m bytes is read there by Uint32.
LEMMA WordBehindHeld ==
    ASSUME NEW m \in Nat, NEW p, Bytes(p, m), NEW n \in Nat,
           NEW b \in Seq(Byte), NEW o \in Nat, Holds(b, o, p \o PutUint32(n))
    PROVE  Holds(b, o, p) /\ Uint32(b, o + m) = Wrap32(n)
<1>1. 4 \in Nat /\ Bytes(PutUint32(n), 4) /\ o + m \in Nat
  BY Uint32Bytes
<1>2. Holds(b, o, p) /\ Holds(b, o + m, PutUint32(n))
  BY <1>1, HoldsParts, Zenon
<1> QED  BY <1>1, <1>2, Uint32ReadBack, Zenon

\* A value of 32 bits behind them comes back as it is.
LEMMA FieldHeld ==
    ASSUME NEW m \in Nat, NEW p, Bytes(p, m), NEW n \in Uint32s,
           NEW b \in Seq(Byte), NEW o \in Nat, Holds(b, o, p \o PutUint32(n))
    PROVE  Holds(b, o, p) /\ Uint32(b, o + m) = n
<1>1. n \in Nat /\ Wrap32(n) = n
  BY DEF Uint32s
<1>2. Holds(b, o, p) /\ Uint32(b, o + m) = Wrap32(n)
  BY <1>1, WordBehindHeld
<1> QED  BY <1>1, <1>2, Zenon

-----------------------------------------------------------------------------
\* Report blocks.

Reports == [ssrc : Uint32s, frac : Byte, lost : Nat, highest : Uint32s,
            jitter : Uint32s, lsr : Uint32s, dlsr : Uint32s]

\* The bytes that RecvReport makes of a report.
BlockBytes(r, lost) ==
    PutUint32(r.ssrc) \o <<r.frac>> \o PacketsLost(lost)
    \o PutUint32(r.highest) \o PutUint32(r.jitter)
    \o PutUint32(r.lsr) \o PutUint32(r.dlsr)

\* A block has 24 bytes and comes back, but for the lost packets.
LEMMA BlockReadBack ==
    \A r \in Reports, lost \in Nat :
        /\ Bytes(BlockBytes(r, lost), 24)
        /\ \A b \in Seq(Byte), o \in Nat : Holds(b, o, BlockBytes(r, lost)) =>
               [readRecvReport(b, o) EXCEPT !.lost = 0] = [r EXCEPT !.lost = 0]
\* The three bytes of setPacketsLost.
<1>LostBytes. ASSUME NEW lost \in Nat
              PROVE  Bytes(PacketsLost(lost), 3)
  <2> USE <1>LostBytes
  <2>1. (lost \div Two16) \in Nat
    BY DEF Two16
  <2>2. (lost \div Two16) % 256 \in Byte
    BY <2>1, ByteValues
  <2>3. Bytes(<<(lost \div Two16) % 256>>, 1) /\ Bytes(PutUint16(lost), 2)
        /\ 1 \in Nat /\ 2 \in Nat /\ 1 + 2 = 3
    BY <2>2, ByteBytes, Uint16Bytes
  <2>4. Bytes(<<(lost \div Two16) % 256>> \o PutUint16(lost), 1 + 2)
    BY <2>3, Concatenated, Zenon
  <2> QED  BY <2>3, <2>4, Zenon DEF PacketsLost
<1> SUFFICES ASSUME NEW r \in Reports, NEW lost \in Nat
             PROVE  /\ Bytes(BlockBytes(r, lost), 24)
                    /\ \A b \in Seq(Byte), o \in Nat : Holds(b, o, BlockBytes(r, lost)) =>
                           [readRecvReport(b, o) EXCEPT !.lost = 0] = [r EXCEPT !.lost = 0]
  BY Zenon
<1> DEFINE q1 == PutUint32(r.ssrc)
           q2 == q1 \o <<r.frac>>
           q3 == q2 \o PacketsLost(lost)
           q4 == q3 \o PutUint32(r.highest)
           q5 == q4 \o PutUint32(r.jitter)
           q6 == q5 \o PutUint32(r.lsr)
           q7 == q6 \o PutUint32(r.dlsr)
<1>0. /\ r.ssrc \in Uint32s /\ r.highest \in Uint32s /\ r.jitter \in Uint32s
      /\ r.lsr \in Uint32s /\ r.dlsr \in Uint32s /\ r.frac \in Byte
  BY DEF Reports
<1>1. /\ r.ssrc \in Nat /\ r.highest \in Nat /\ r.jitter \in Nat
      /\ r.lsr \in Nat /\ r.dlsr \in Nat
      /\ Wrap32(r.ssrc) = r.ssrc /\ Wrap32(r.highest) = r.highest
      /\ Wrap32(r.jitter) = r.jitter
      /\ Wrap32(r.lsr) = r.lsr /\ Wrap32(r.dlsr) = r.dlsr
  BY <1>0, Zenon DEF Uint32s
<1>2. /\ 1 \in Nat /\ 3 \in Nat /\ 4 \in Nat /\ 5 \in Nat /\ 8 \in Nat
      /\ 12 \in Nat /\ 16 \in Nat /\ 20 \in Nat
      /\ 4 + 1 = 5 /\ 5 + 3 = 8 /\ 8 + 4 = 12 /\ 12 + 4 = 16 /\ 16 + 4 = 20
      /\ 20 + 4 = 24
  OBVIOUS
<1>3. Bytes(<<r.frac>>, 1) /\ Bytes(PacketsLost(lost), 3) /\ <<r.frac>>[1] = r.frac
  BY <1>0, ByteBytes, <1>LostBytes
<1>4. BlockBytes(r, lost) = q7
  BY Zenon DEF BlockBytes
<1>b1. Bytes(q1, 4)
  BY <1>1, Uint32Bytes, Zenon
<1> HIDE DEF q1
<1>b2. Bytes(q2, 5)
  BY <1>b1, <1>2, <1>3, Concatenated, Zenon
<1> HIDE DEF q2
<1>b3. Bytes(q3, 8)
  BY <1>b2, <1>2, <1>3, Concatenated, Zenon
<1> HIDE DEF q3
<1>b4. Bytes(q4, 12)
  BY <1>b3, <1>1, <1>2, WordBehind, Zenon
<1> HIDE DEF q4
<1>b5. Bytes(q5, 16)
  BY <1>b4, <1>1, <1>2, WordBehind, Zenon
<1> HIDE DEF q5
<1>b6. Bytes(q6, 20)
  BY <1>b5, <1>1, <1>2, WordBehind, Zenon
<1> HIDE DEF q6
<1>b7. Bytes(q7, 24)
  BY <1>b6, <1>1, <1>2, WordBehind, Zenon
<1> HIDE DEF q7
<1>5. ASSUME NEW b \in Seq(Byte), NEW o \in Nat, Holds(b, o, q7)
      PROVE  [readRecvReport(b, o) EXCEPT !.lost = 0] = [r EXCEPT !.lost = 0]
  <2>7. Holds(b, o, q6) /\ Uint32(b, o + 20) = r.dlsr
    BY <1>5, <1>b6, <1>0, <1>2, FieldHeld DEF q7
  <2>6. Holds(b, o, q5) /\ Uint32(b, o + 16) = r.lsr
    BY <2>7, <1>b5, <1>0, <1>2, FieldHeld DEF q6
  <2>5. Holds(b, o, q4) /\ Uint32(b, o + 12) = r.jitter
    BY <2>6, <1>b4, <1>0, <1>2, FieldHeld DEF q5
  <2>4. Holds(b, o, q3) /\ Uint32(b, o + 8) = r.highest
    BY <2>5, <1>b3, <1>0, <1>2, FieldHeld DEF q4
  <2>3. Holds(b, o, q2)
    BY <2>4, <1>b2, <1>2, <1>3, HoldsParts, Zenon DEF q3
  <2>2. Holds(b, o, q1) /\ Holds(b, o + 4, <<r.frac>>)
    BY <2>3, <1>b1, <1>2, <1>3, HoldsParts, Zenon DEF q2
  <2>1. Uint32(b, o) = r.ssrc
    BY <2>2, <1>1, Uint32ReadBack, Zenon DEF q1
  <2>0. At(b, o + 4) = r.frac
    <3>1. o + 4 \in Nat /\ 1 \in 1 .. 1 /\ (o + 4) + 1 = (o + 4) + 1
      OBVIOUS
    <3> DEFINE p == <<r.frac>>
    <3>2. Bytes(p, 1) /\ p[1] = r.frac /\ Holds(b, o + 4, p)
      BY <1>3, <2>2
    <3> HIDE DEF p
    <3> QED  BY <1>2, <3>1, <3>2, HeldByte
  <2>8. r = [ssrc |-> r.ssrc, frac |-> r.frac, lost |-> r.lost,
             highest |-> r.highest, jitter |-> r.jitter, lsr |-> r.lsr,
             dlsr |-> r.dlsr]
    BY DEF Reports
  <2>9. readRecvReport(b, o) =
            [ssrc |-> r.ssrc, frac |-> r.frac,
             lost |-> At(b, o + 4) * Two16 + Uint16(b, o + 5),
             highest |-> r.highest, jitter |-> r.jitter, lsr |-> r.lsr,
             dlsr |-> r.dlsr]
    BY <2>0, <2>1, <2>4, <2>5, <2>6, <2>7, Zenon DEF readRecvReport
  <2> QED  BY <2>8, <2>9
<1> QED  BY <1>4, <1>b7, <1>5, Zenon

\* The states an input stream may have.
Stats == [lost : Nat, frac : Byte, highest : Uint32s, jitter : Uint32s]
InStates == [data : BOOLEAN, sender : BOOLEAN, srTime : Nat, stats : Stats]

\* makeRecvReport fills its fields with values that fit them.
LEMMA ReportTyped ==
    ASSUME NEW i \in Uint32s, NEW s \in InStates, NEW t \in Nat, s.srTime <= t
    PROVE  /\ Report(i, s, t) \in Reports /\ s.stats.lost \in Nat
           /\ RecvReport(i, s, t) = BlockBytes(Report(i, s, t), s.stats.lost)
<1> DEFINE r == Report(i, s, t)
           lsr == IF s.srTime = 0 THEN 0 ELSE MiddleBits(s.srTime)
           dlsr == IF s.srTime = 0 THEN 0 ELSE MiddleBits(t - s.srTime)
<1>1. /\ s.srTime \in Nat /\ s.stats.lost \in Nat /\ s.stats.frac \in Byte
      /\ s.stats.highest \in Uint32s /\ s.stats.jitter \in Uint32s
  BY DEF InStates, Stats
<1>2. t - s.srTime \in Nat
  BY <1>1
<1>3. 0 \in Uint32s
  BY Uint32Fields DEF Two16
<1>4. lsr \in Uint32s /\ dlsr \in Uint32s
  BY <1>1, <1>2, <1>3, Uint32Fields
<1>5. s.stats.lost % (256 * Two16) \in Nat
  BY <1>1 DEF Two16
<1>6. s.stats.jitter \div 16 \in Uint32s
  BY <1>1, Uint32Fields
<1>7. r = [ssrc |-> i, frac |-> s.stats.frac, lost |-> s.stats.lost % (256 * Two16),
           highest |-> s.stats.highest, jitter |-> s.stats.jitter \div 16,
           lsr |-> lsr, dlsr |-> dlsr]
  BY Zenon DEF Report
<1> HIDE DEF lsr, dlsr
<1>8. r \in Reports
  BY <1>1, <1>4, <1>5, <1>6, <1>7 DEF Reports
<1>9. RecvReport(i, s, t) = BlockBytes(r, s.stats.lost)
  BY Zenon DEF RecvReport, BlockBytes
<1> QED  BY <1>1, <1>8, <1>9

\* The input streams S, as they may be when a compound of time t is built.
Hears(streams, S, t) ==
    /\ S \subseteq Uint32s
    /\ \A i \in S : streams[i] \in InStates /\ streams[i].srTime <= t

\* The bytes of a list are bytes.
LEMMA OneByte ==
    ASSUME NEW n, NEW p \in Seq(Byte), Len(p) = n, NEW x \in 1 .. n
    PROVE  p[x] \in Byte
OBVIOUS

\* Blocks that follow one another are where the reader looks for them.
LEMMA BlocksHeld ==
    ASSUME NEW streams, NEW S, NEW t \in Nat, Hears(streams, S, t), NEW ins \in Seq(S)
    PROVE  /\ Bytes(RecvReports(streams, ins, t), 24 * Len(ins))
           /\ \A b \in Seq(Byte), o \in Nat : Holds(b, o, RecvReports(streams, ins, t)) =>
                \A k \in 1 .. Len(ins) :
                    Holds(b, o + 24 * (k - 1), RecvReport(ins[k], streams[ins[k]], t))
<1> DEFINE n == Len(ins)
           f == [k \in 1 .. n |-> RecvReport(ins[k], streams[ins[k]], t)]
           g == [j \in 1 .. 24 * n |-> f[((j - 1) \div 24) + 1][((j - 1) % 24) + 1]]
<1>1. n \in Nat
  OBVIOUS
<1>2. ASSUME NEW k \in 1 .. n PROVE f[k] \in Seq(Byte) /\ Len(f[k]) = 24
  <2>1. ins[k] \in S
    OBVIOUS
  <2>2. ins[k] \in Uint32s /\ streams[ins[k]] \in InStates /\ streams[ins[k]].srTime <= t
    BY <2>1, Zenon DEF Hears
  <2> DEFINE i == ins[k]
             s == streams[i]
  <2> HIDE DEF i, s
  <2>3. i \in Uint32s /\ s \in InStates /\ s.srTime <= t
    BY <2>2 DEF i, s
  <2>4. Bytes(RecvReport(i, s, t), 24)
    <3> DEFINE r == Report(i, s, t)
               lost == s.stats.lost
    <3>1. r \in Reports /\ lost \in Nat /\ RecvReport(i, s, t) = BlockBytes(r, lost)
      BY <2>3, ReportTyped, Zenon
    <3> HIDE DEF r, lost
    <3>2. Bytes(BlockBytes(r, lost), 24)
      BY <3>1, BlockReadBack, Zenon
    <3> QED  BY <3>1, <3>2, Zenon
  <2>5. f[k] = RecvReport(i, s, t)
    BY DEF i, s
  <2> HIDE DEF f
  <2> QED  BY <2>4, <2>5, Zenon DEF Bytes
<1>3. ASSUME NEW k \in 1 .. n, NEW j \in 1 .. 24
      PROVE  /\ 24 * (k - 1) + j \in 1 .. 24 * n
             /\ ((24 * (k - 1) + j - 1) \div 24) + 1 = k
             /\ ((24 * (k - 1) + j - 1) % 24) + 1 = j
  BY <1>1
<1>4. ASSUME NEW j \in 1 .. 24 * n
      PROVE  /\ ((j - 1) \div 24) + 1 \in 1 .. n
             /\ ((j - 1) % 24) + 1 \in 1 .. 24
  BY <1>1
<1>5. RecvReports(streams, ins, t) = g
  <2>1. \A j \in 1 .. 24 * n : ((j - 1) \div 24) + 1 \in 1 .. n
    BY <1>4
  <2>2. \A k \in 1 .. n : f[k] = RecvReport(ins[k], streams[ins[k]], t)
    OBVIOUS
  <2> HIDE DEF f
  <2> QED  BY <2>1, <2>2 DEF RecvReports
<1>6. \A k \in 1 .. n : f[k] = RecvReport(ins[k], streams[ins[k]], t)
  OBVIOUS
<1> HIDE DEF f, n
<1>7. ASSUME NEW j \in 1 .. 24 * n PROVE g[j] \in Byte
  <2>1. PICK k \in 1 .. n : k = ((j - 1) \div 24) + 1
    BY <1>4
  <2>2. PICK x \in 1 .. 24 : x = ((j - 1) % 24) + 1
    BY <1>4
  <2>3. f[k][x] \in Byte
    BY <1>2, OneByte, Zenon
  <2> QED  BY <2>1, <2>2, <2>3
<1>8. g \in Seq(Byte) /\ Len(g) = 24 * n
  BY <1>1, <1>7
<1>9. ASSUME NEW k \in 1 .. n, NEW j \in 1 .. 24
      PROVE  g[24 * (k - 1) + j] = f[k][j]
  <2> DEFINE x == 24 * (k - 1) + j
  <2>1. x \in 1 .. 24 * n /\ ((x - 1) \div 24) + 1 = k /\ ((x - 1) % 24) + 1 = j
    BY <1>1
  <2> HIDE DEF x
  <2>2. g[x] = f[((x - 1) \div 24) + 1][((x - 1) % 24) + 1]
    BY <2>1
  <2>3. g[x] = f[k][j]
    BY <2>1, <2>2, Zenon
  <2> QED  BY <2>3 DEF x
<1> HIDE DEF g
<1>10. ASSUME NEW b \in Seq(Byte), NEW o \in Nat, Holds(b, o, g), NEW k \in 1 .. n
       PROVE  Holds(b, o + 24 * (k - 1), f[k])
  <2>1. o + 24 * n <= Len(b) /\ \A j \in 1 .. 24 * n : b[o + j] = g[j]
    BY <1>8, <1>10 DEF Holds
  <2>2. (o + 24 * (k - 1)) + 24 <= Len(b)
    BY <1>1, <2>1
  <2>3. ASSUME NEW j \in 1 .. 24 PROVE b[(o + 24 * (k - 1)) + j] = f[k][j]
    <3> DEFINE x == 24 * (k - 1) + j
    <3>1. x \in 1 .. 24 * n /\ g[x] = f[k][j]
      BY <1>3, <1>9
    <3>2. o + x = (o + 24 * (k - 1)) + j
      BY <1>1
    <3> HIDE DEF x
    <3> QED  BY <2>1, <3>1, <3>2
  <2> QED  BY <1>2, <2>2, <2>3, Zenon DEF Holds
<1> QED  BY <1>5, <1>6, <1>8, <1>10, Zenon DEF Bytes, n

-----------------------------------------------------------------------------
\* Packets that agree with what was meant.

\* Blocks that are the same but for the lost packets.
SameBlocks(f, g) ==
    /\ DOMAIN f = DOMAIN g
    /\ \A k \in DOMAIN f : [f[k] EXCEPT !.lost = 0] = [g[k] EXCEPT !.lost = 0]

\* Two packets with blocks agree when all else is equal.
LEMMA BlocksAgree ==
    ASSUME NEW p, NEW q, DOMAIN p = DOMAIN q,
           \A x \in DOMAIN p \ {"time", "blocks"} : p[x] = q[x],
           "type" \in DOMAIN p, "blocks" \in DOMAIN p,
           p.type \in {RtcpSR, RtcpRR}, SameBlocks(p.blocks, q.blocks),
           p.type = RtcpSR => p.time \in {q.time - 1, q.time}
    PROVE  Agrees(p, q)
<1> DEFINE f == [k \in DOMAIN p.blocks |-> [p.blocks[k] EXCEPT !.lost = 0]]
           g == [k \in DOMAIN q.blocks |-> [q.blocks[k] EXCEPT !.lost = 0]]
           rp == [x \in DOMAIN p \ {"time"} |-> IF x # "blocks" THEN p[x] ELSE f]
           rq == [x \in DOMAIN q \ {"time"} |-> IF x # "blocks" THEN q[x] ELSE g]
<1>1. f = g
  BY Zenon DEF SameBlocks
<1>2. p.type = q.type
  OBVIOUS
<1>3. rp = rq
  <2> HIDE DEF f, g
  <2>1. \A x \in DOMAIN p \ {"time"} :
            (IF x # "blocks" THEN p[x] ELSE f) = (IF x # "blocks" THEN q[x] ELSE g)
    BY <1>1
  <2> QED  BY <2>1, Zenon
<1>4. Agrees(p, q) <=> /\ p.type = q.type /\ rp = rq
                       /\ p.type = RtcpSR => p.time \in {q.time - 1, q.time}
  BY <1>2, Zenon DEF Agrees
<1> QED  BY <1>2, <1>3, <1>4, Zenon

\* Any other packet agrees with itself.
LEMMA OtherAgrees ==
    ASSUME NEW p, p.type \notin {RtcpSR, RtcpRR}
    PROVE  Agrees(p, p)
BY Zenon DEF Agrees

-----------------------------------------------------------------------------
\* The packets of a compound.

\* Wherever the bytes p are in a buffer, OnRecvCtrl finds one packet of their
\* length there, of a type it knows, that agrees with m.
Part(p, m) ==
    \E n \in Nat :
        /\ n >= 4 /\ Bytes(p, n)
        /\ \A b \in Seq(Byte), o \in Nat :
              Holds(b, o, p) /\ Len(b) <= BufferLen =>
                  /\ PktLen(b, o) = n /\ At(b, o + 1) \in RtcpSR .. RtcpXr
                  /\ Agrees(Packet(b, o, n), m)

\* The sender information has 20 bytes and comes back.
LEMMA SenderInfoReadBack ==
    ASSUME NEW t \in Times, NEW s, s.packets \in Nat
    PROVE  /\ Bytes(SenderInfo(s, t), 20)
           /\ \A b \in Seq(Byte), o \in Nat : Holds(b, o, SenderInfo(s, t)) =>
                 /\ fromNtp(Uint32(b, o), Uint32(b, o + 4)) \in {t - 1, t}
                 /\ Uint32(b, o + 8) = Wrap32(RtpStamp(t))
                 /\ Uint32(b, o + 12) = Wrap32(s.packets)
                 /\ Uint32(b, o + 16) = Wrap32(s.packets * PayloadLen)
<1>1. t \in Nat
  BY DEF Times
<1>2. NtpSeconds(t) \in Uint32s /\ NtpFraction(t) \in Uint32s
  BY <1>1, Uint32Fields
<1>3. PayloadLen \in Nat /\ Samples \in Nat /\ initialStamp \in Nat
  BY RtcpPacketAssumption
<1>4. RtpStamp(t) \in Nat /\ s.packets * PayloadLen \in Nat
  BY <1>1, <1>3 DEF RtpStamp
<1> DEFINE sec == NtpSeconds(t)
           frac == NtpFraction(t)
           stamp == RtpStamp(t)
           octets == s.packets * PayloadLen
           packets == s.packets
           q1 == PutUint32(sec)
           q2 == q1 \o PutUint32(frac)
           q3 == q2 \o PutUint32(stamp)
           q4 == q3 \o PutUint32(packets)
           q5 == q4 \o PutUint32(octets)
<1>5. SenderInfo(s, t) = q5
  BY Zenon DEF SenderInfo
<1>6. fromNtp(sec, frac) \in {t - 1, t}
  BY NtpRoundTrip
<1> HIDE DEF sec, frac, stamp, octets, packets
<1>7. /\ sec \in Uint32s /\ frac \in Uint32s /\ sec \in Nat /\ frac \in Nat
      /\ stamp \in Nat /\ packets \in Nat /\ octets \in Nat
  BY <1>2, <1>4 DEF sec, frac, stamp, octets, packets, Uint32s
<1>8. /\ 4 \in Nat /\ 8 \in Nat /\ 12 \in Nat /\ 16 \in Nat
      /\ 4 + 4 = 8 /\ 8 + 4 = 12 /\ 12 + 4 = 16 /\ 16 + 4 = 20
  OBVIOUS
<1>b1. Bytes(q1, 4)
  BY <1>7, Uint32Bytes, Zenon
<1> HIDE DEF q1
<1>b2. Bytes(q2, 8)
  BY <1>b1, <1>7, <1>8, WordBehind, Zenon
<1> HIDE DEF q2
<1>b3. Bytes(q3, 12)
  BY <1>b2, <1>7, <1>8, WordBehind, Zenon
<1> HIDE DEF q3
<1>b4. Bytes(q4, 16)
  BY <1>b3, <1>7, <1>8, WordBehind, Zenon
<1> HIDE DEF q4
<1>b5. Bytes(q5, 20)
  BY <1>b4, <1>7, <1>8, WordBehind, Zenon
<1> HIDE DEF q5
<1>9. ASSUME NEW b \in Seq(Byte), NEW o \in Nat, Holds(b, o, q5)
      PROVE  /\ fromNtp(Uint32(b, o), Uint32(b, o + 4)) \in {t - 1, t}
             /\ Uint32(b, o + 8) = Wrap32(stamp)
             /\ Uint32(b, o + 12) = Wrap32(packets)
             /\ Uint32(b, o + 16) = Wrap32(octets)
  <2>5. Holds(b, o, q4) /\ Uint32(b, o + 16) = Wrap32(octets)
    BY <1>9, <1>b4, <1>7, <1>8, WordBehindHeld DEF q5
  <2>4. Holds(b, o, q3) /\ Uint32(b, o + 12) = Wrap32(packets)
    BY <2>5, <1>b3, <1>7, <1>8, WordBehindHeld DEF q4
  <2>3. Holds(b, o, q2) /\ Uint32(b, o + 8) = Wrap32(stamp)
    BY <2>4, <1>b2, <1>7, <1>8, WordBehindHeld DEF q3
  <2>2. Holds(b, o, q1) /\ Uint32(b, o + 4) = frac
    BY <2>3, <1>b1, <1>7, <1>8, FieldHeld DEF q2
  <2>1. Uint32(b, o) = sec
    <3>1. Uint32(b, o) = Wrap32(sec)
      BY <2>2, <1>7, Uint32ReadBack, Zenon DEF q1
    <3> QED  BY <3>1, <1>7 DEF Uint32s
  <2> QED  BY <1>6, <2>1, <2>2, <2>3, <2>4, <2>5, Zenon
<1> QED  BY <1>5, <1>b5, <1>9, Zenon DEF stamp, octets, packets

\* The first eight bytes of a packet: its header and an SSRC.
LEMMA HeadBytes ==
    ASSUME NEW type \in Byte, NEW count \in Nat, count < 32,
           NEW len \in Nat, len % 4 = 0, len >= 4, NEW ssrc \in Uint32s
    PROVE  Bytes(Header(type, count, len) \o PutUint32(ssrc), 8)
<1>1. Bytes(Header(type, count, len), 4) /\ 4 \in Nat /\ 4 + 4 = 8 /\ ssrc \in Nat
  BY HeaderBytes DEF Uint32s
<1> QED  BY <1>1, WordBehind, Zenon

\* Count, type, length and SSRC of a packet are read as addHeaderCtrl,
\* addHeaderSsrc and SetLength wrote them.
LEMMA HeadReadBack ==
    ASSUME NEW type \in Byte, NEW count \in Nat, count < 32,
           NEW len \in Nat, len % 4 = 0, len >= 4, len < Two16, NEW ssrc \in Uint32s,
           NEW b \in Seq(Byte), NEW o \in Nat,
           Holds(b, o, Header(type, count, len) \o PutUint32(ssrc))
    PROVE  /\ At(b, o) % 32 = count /\ At(b, o + 1) = type
           /\ PktLen(b, o) = len /\ Uint32(b, o + 4) = ssrc
<1> DEFINE h == Header(type, count, len)
<1>1. Bytes(h, 4) /\ 4 \in Nat
  BY HeaderBytes
<1>2. Holds(b, o, h) /\ Uint32(b, o + 4) = ssrc
  <2> HIDE DEF h
  <2>1. Holds(b, o, h \o PutUint32(ssrc))
    BY DEF h
  <2> QED  BY <1>1, <2>1, FieldHeld
<1>3. At(b, o) % 32 = count /\ At(b, o + 1) = type /\ PktLen(b, o) = len
  BY <1>2, HeaderReadBack
<1> QED  BY <1>2, <1>3

\* What OnRecvCtrl makes of the packets that this stack builds.
SrAt(b, o) ==
    [type |-> RtcpSR, ssrc |-> Uint32(b, o + 4),
     time |-> fromNtp(Uint32(b, o + 8), Uint32(b, o + 12)),
     stamp |-> Uint32(b, o + 16), packets |-> Uint32(b, o + 20),
     octets |-> Uint32(b, o + 24), blocks |-> Blocks(b, o + 28, At(b, o) % 32)]

RrAt(b, o) ==
    [type |-> RtcpRR, ssrc |-> Uint32(b, o + 4),
     blocks |-> Blocks(b, o + 8, At(b, o) % 32)]

SdesAt(b, o, len) ==
    [type |-> RtcpSdes, chunks |-> SdesChunks(b, o + 4, len - 4, At(b, o) % 32)]

ByeAt(b, o, len) ==
    [type |-> RtcpBye, ssrc |-> Uint32(b, o + 4),
     reason |-> getReason(b, o + 4, len - 4, At(b, o) % 32)]

\* The type byte decides what OnRecvCtrl takes a packet for.
LEMMA PacketCases ==
    ASSUME NEW b, NEW o, NEW len
    PROVE  /\ At(b, o + 1) = RtcpSR => Packet(b, o, len) = SrAt(b, o)
           /\ At(b, o + 1) = RtcpRR => Packet(b, o, len) = RrAt(b, o)
           /\ At(b, o + 1) = RtcpSdes => Packet(b, o, len) = SdesAt(b, o, len)
           /\ At(b, o + 1) = RtcpBye => Packet(b, o, len) = ByeAt(b, o, len)
<1> DEFINE type == At(b, o + 1)
           n == At(b, o) % 32
           bytes(l) == [k \in 1 .. l |-> At(b, o + 11 + k)]
           sr == [type |-> type, ssrc |-> Uint32(b, o + 4),
                  time |-> fromNtp(Uint32(b, o + 8), Uint32(b, o + 12)),
                  stamp |-> Uint32(b, o + 16), packets |-> Uint32(b, o + 20),
                  octets |-> Uint32(b, o + 24), blocks |-> Blocks(b, o + 28, n)]
           rr == [type |-> type, ssrc |-> Uint32(b, o + 4),
                  blocks |-> Blocks(b, o + 8, n)]
           sdes == [type |-> type, chunks |-> SdesChunks(b, o + 4, len - 4, n)]
           bye == [type |-> type, ssrc |-> Uint32(b, o + 4),
                   reason |-> getReason(b, o + 4, len - 4, n)]
           fb == [type |-> type, ssrc |-> Uint32(b, o + 4), reason |-> bytes(len - 12)]
           ps == [type |-> type, ssrc |-> Uint32(b, o + 4), reason |-> bytes(8)]
           other == [type |-> type]
<1>1. Packet(b, o, len) = CASE type = RtcpSR -> sr [] type = RtcpRR -> rr
                            [] type = RtcpSdes -> sdes [] type = RtcpBye -> bye
                            [] type = RtcpRtpfb -> fb [] type = RtcpPsfb -> ps
                            [] OTHER -> other
  BY Zenon DEF Packet
<1>2. type = RtcpSR => sr = SrAt(b, o)
  BY Zenon DEF SrAt
<1>3. type = RtcpRR => rr = RrAt(b, o)
  BY Zenon DEF RrAt
<1>4. type = RtcpSdes => sdes = SdesAt(b, o, len)
  BY Zenon DEF SdesAt
<1>5. type = RtcpBye => bye = ByeAt(b, o, len)
  BY Zenon DEF ByeAt
<1> HIDE DEF sr, rr, sdes, bye, fb, ps, other, type
<1>6. /\ type = RtcpSR => Packet(b, o, len) = sr
      /\ type = RtcpRR => Packet(b, o, len) = rr
      /\ type = RtcpSdes => Packet(b, o, len) = sdes
      /\ type = RtcpBye => Packet(b, o, len) = bye
  BY <1>1 DEF RtcpSR, RtcpRR, RtcpSdes, RtcpBye, RtcpRtpfb, RtcpPsfb
<1>7. /\ type = RtcpSR => Packet(b, o, len) = SrAt(b, o)
      /\ type = RtcpRR => Packet(b, o, len) = RrAt(b, o)
      /\ type = RtcpSdes => Packet(b, o, len) = SdesAt(b, o, len)
      /\ type = RtcpBye => Packet(b, o, len) = ByeAt(b, o, len)
  BY <1>2, <1>3, <1>4, <1>5, <1>6
<1> QED  BY <1>7 DEF type

\* The buffer length, as the parts need it.
LEMMA Buffer ==
    BufferLen \in Nat /\ BufferLen < Two16 /\ Two16 \in Nat
BY RtcpPacketAssumption DEF Two16

\* An SR with blocks that can be read back is a part.
LEMMA SrPart ==
    \A s, q, g : \A t \in Times, o \in Uint32s, n \in Nat :
          /\ s.packets \in Nat
          /\ n < 32
          /\ Bytes(q, 24 * n)
          /\ \A b \in Seq(Byte), x \in Nat : Holds(b, x, q) => SameBlocks(Blocks(b, x, n), g)
          =>
          Part(SenderReport(o, s, n, t) \o q,
               [type |-> RtcpSR, ssrc |-> o, time |-> t, stamp |-> Wrap32(RtpStamp(t)),
                packets |-> Wrap32(s.packets),
                octets |-> Wrap32(s.packets * PayloadLen), blocks |-> g])
<1>SrAgrees. ASSUME NEW ssrc, NEW t1, NEW t2, t1 \in {t2 - 1, t2}, NEW stamp, NEW packets,
                    NEW octets, NEW f, NEW g, SameBlocks(f, g)
             PROVE  Agrees([type |-> RtcpSR, ssrc |-> ssrc, time |-> t1, stamp |-> stamp,
                            packets |-> packets, octets |-> octets, blocks |-> f],
                           [type |-> RtcpSR, ssrc |-> ssrc, time |-> t2, stamp |-> stamp,
                            packets |-> packets, octets |-> octets, blocks |-> g])
  <2> USE <1>SrAgrees
  <2> DEFINE p == [type |-> RtcpSR, ssrc |-> ssrc, time |-> t1, stamp |-> stamp,
                   packets |-> packets, octets |-> octets, blocks |-> f]
             q == [type |-> RtcpSR, ssrc |-> ssrc, time |-> t2, stamp |-> stamp,
                   packets |-> packets, octets |-> octets, blocks |-> g]
  <2>1. /\ DOMAIN p = {"type", "ssrc", "time", "stamp", "packets", "octets", "blocks"}
        /\ DOMAIN q = {"type", "ssrc", "time", "stamp", "packets", "octets", "blocks"}
    OBVIOUS
  <2>2. p.type = q.type /\ p.ssrc = q.ssrc /\ p.stamp = q.stamp
        /\ p.packets = q.packets /\ p.octets = q.octets
    OBVIOUS
  <2>3. p.type = RtcpSR /\ p.blocks = f /\ q.blocks = g /\ p.time = t1 /\ q.time = t2
    OBVIOUS
  <2> HIDE DEF p, q
  <2>4. \A x \in DOMAIN p \ {"time", "blocks"} : p[x] = q[x]
    BY <2>1, <2>2
  <2>5. "type" \in DOMAIN p /\ "blocks" \in DOMAIN p /\ DOMAIN p = DOMAIN q
    BY <2>1
  <2>6. p.type \in {RtcpSR, RtcpRR} /\ SameBlocks(p.blocks, q.blocks)
        /\ p.time \in {q.time - 1, q.time}
    BY <2>3
  <2>7. Agrees(p, q)
    BY <2>4, <2>5, <2>6, BlocksAgree, Zenon
  <2> QED  BY <2>7 DEF p, q
<1> SUFFICES ASSUME NEW t \in Times, NEW o \in Uint32s, NEW s, s.packets \in Nat,
                    NEW n \in Nat, n < 32, NEW q, Bytes(q, 24 * n), NEW g,
                    \A b \in Seq(Byte), x \in Nat : Holds(b, x, q) => SameBlocks(Blocks(b, x, n), g)
             PROVE  Part(SenderReport(o, s, n, t) \o q,
                         [type |-> RtcpSR, ssrc |-> o, time |-> t, stamp |-> Wrap32(RtpStamp(t)),
                          packets |-> Wrap32(s.packets),
                          octets |-> Wrap32(s.packets * PayloadLen), blocks |-> g])
  OBVIOUS
<1> DEFINE len == 28 + 24 * n
           head == Header(RtcpSR, n, len) \o PutUint32(o)
           info == SenderInfo(s, t)
           p == head \o info
           m == [type |-> RtcpSR, ssrc |-> o, time |-> t, stamp |-> Wrap32(RtpStamp(t)),
                 packets |-> Wrap32(s.packets),
                 octets |-> Wrap32(s.packets * PayloadLen), blocks |-> g]
<1>1. /\ len \in Nat /\ len % 4 = 0 /\ len >= 4 /\ RtcpSR \in Byte /\ 24 * n \in Nat
      /\ 8 \in Nat /\ 20 \in Nat /\ 8 + 20 = 28 /\ 28 \in Nat
  BY ByteValues DEF RtcpSR
<1>2. SenderReport(o, s, n, t) = p
  BY Zenon DEF SenderReport
<1>3. Bytes(head, 8)
  BY <1>1, HeadBytes, Zenon
<1>4. ASSUME NEW b \in Seq(Byte), NEW x \in Nat, Holds(b, x, head), len < Two16
      PROVE  /\ At(b, x) % 32 = n /\ At(b, x + 1) = RtcpSR
             /\ PktLen(b, x) = len /\ Uint32(b, x + 4) = o
  <2> HIDE DEF len
  <2> QED  BY <1>1, <1>4, HeadReadBack
<1>5. Bytes(info, 20)
  BY SenderInfoReadBack, Zenon
<1>6. ASSUME NEW b \in Seq(Byte), NEW x \in Nat, Holds(b, x, info)
      PROVE  /\ fromNtp(Uint32(b, x), Uint32(b, x + 4)) \in {t - 1, t}
             /\ Uint32(b, x + 8) = Wrap32(RtpStamp(t))
             /\ Uint32(b, x + 12) = Wrap32(s.packets)
             /\ Uint32(b, x + 16) = Wrap32(s.packets * PayloadLen)
  BY <1>6, SenderInfoReadBack
<1> HIDE DEF head, info
<1>7. Bytes(p, 28)
  BY <1>1, <1>3, <1>5, Concatenated, Zenon
<1> HIDE DEF p
<1>8. Bytes(p \o q, len)
  BY <1>1, <1>7, Concatenated, Zenon
<1>9. ASSUME NEW b \in Seq(Byte), NEW x \in Nat, Holds(b, x, p \o q), Len(b) <= BufferLen
      PROVE  /\ PktLen(b, x) = len /\ At(b, x + 1) \in RtcpSR .. RtcpXr
             /\ Agrees(Packet(b, x, len), m)
  <2>1. len < Two16
    <3>1. x + Len(p \o q) <= Len(b) /\ Len(p \o q) = len
      BY <1>8, <1>9, Zenon DEF Holds, Bytes
    <3> DEFINE l == Len(b)
    <3>2. l \in Nat /\ l <= BufferLen /\ x + len <= l
      BY <1>9, <3>1
    <3> HIDE DEF len, l
    <3> QED  BY <1>1, <3>2, Buffer
  <2>2. Holds(b, x, p) /\ Holds(b, x + 28, q)
    BY <1>1, <1>7, <1>9, HoldsParts, Zenon
  <2>3. Holds(b, x, head) /\ Holds(b, x + 8, info)
    BY <1>1, <1>3, <1>5, <2>2, HoldsParts, Zenon DEF p
  <2>4. /\ At(b, x) % 32 = n /\ At(b, x + 1) = RtcpSR
        /\ PktLen(b, x) = len /\ Uint32(b, x + 4) = o
    BY <1>4, <2>1, <2>3, Zenon
  <2>5. /\ x + 8 \in Nat /\ x + 28 \in Nat /\ (x + 8) + 4 = x + 12
        /\ (x + 8) + 8 = x + 16 /\ (x + 8) + 12 = x + 20 /\ (x + 8) + 16 = x + 24
    OBVIOUS
  <2>6. /\ fromNtp(Uint32(b, x + 8), Uint32(b, x + 12)) \in {t - 1, t}
        /\ Uint32(b, x + 16) = Wrap32(RtpStamp(t))
        /\ Uint32(b, x + 20) = Wrap32(s.packets)
        /\ Uint32(b, x + 24) = Wrap32(s.packets * PayloadLen)
    BY <1>6, <2>3, <2>5, Zenon
  <2>7. SameBlocks(Blocks(b, x + 28, n), g)
    BY <2>2, <2>5, Zenon
  <2> DEFINE time == fromNtp(Uint32(b, x + 8), Uint32(b, x + 12))
             stamp == Wrap32(RtpStamp(t))
             packets == Wrap32(s.packets)
             octets == Wrap32(s.packets * PayloadLen)
             f == Blocks(b, x + 28, n)
  <2>8. Packet(b, x, len) =
            [type |-> RtcpSR, ssrc |-> o, time |-> time, stamp |-> stamp,
             packets |-> packets, octets |-> octets, blocks |-> f]
    <3>1. Packet(b, x, len) =
              [type |-> RtcpSR, ssrc |-> Uint32(b, x + 4), time |-> time,
               stamp |-> Uint32(b, x + 16), packets |-> Uint32(b, x + 20),
               octets |-> Uint32(b, x + 24), blocks |-> Blocks(b, x + 28, At(b, x) % 32)]
      <4>1. Packet(b, x, len) = SrAt(b, x)
        BY <2>4, PacketCases
      <4> QED  BY <4>1, Zenon DEF SrAt
    <3> QED  BY <3>1, <2>4, <2>6, Zenon
  <2>9. Agrees(Packet(b, x, len), m)
    <3>1. time \in {t - 1, t} /\ SameBlocks(f, g)
      BY <2>6, <2>7, Zenon
    <3>2. m = [type |-> RtcpSR, ssrc |-> o, time |-> t, stamp |-> stamp,
               packets |-> packets, octets |-> octets, blocks |-> g]
      BY Zenon
    <3> HIDE DEF time, stamp, packets, octets, f, m
    <3>3. Agrees([type |-> RtcpSR, ssrc |-> o, time |-> time, stamp |-> stamp,
                  packets |-> packets, octets |-> octets, blocks |-> f],
                 [type |-> RtcpSR, ssrc |-> o, time |-> t, stamp |-> stamp,
                  packets |-> packets, octets |-> octets, blocks |-> g])
      BY <3>1, <1>SrAgrees
    <3> QED  BY <2>8, <3>2, <3>3, Zenon
  <2>10. At(b, x + 1) \in RtcpSR .. RtcpXr
    BY <2>4 DEF RtcpSR, RtcpXr
  <2> QED  BY <2>4, <2>9, <2>10, Zenon
<1> HIDE DEF len, m
<1>10. Part(p \o q, m)
  BY <1>1, <1>8, <1>9, Zenon DEF Part
<1> QED  BY <1>2, <1>10, Zenon DEF m

\* So is an RR.
LEMMA RrPart ==
    \A q, g : \A o \in Uint32s, n \in Nat :
          /\ n < 32
          /\ Bytes(q, 24 * n)
          /\ \A b \in Seq(Byte), x \in Nat : Holds(b, x, q) => SameBlocks(Blocks(b, x, n), g)
          =>
          Part(ReceiverReport(o, n) \o q,
               [type |-> RtcpRR, ssrc |-> o, blocks |-> g])
<1>RrAgrees. ASSUME NEW ssrc, NEW f, NEW g, SameBlocks(f, g)
             PROVE  Agrees([type |-> RtcpRR, ssrc |-> ssrc, blocks |-> f],
                           [type |-> RtcpRR, ssrc |-> ssrc, blocks |-> g])
  <2> USE <1>RrAgrees
  <2> DEFINE p == [type |-> RtcpRR, ssrc |-> ssrc, blocks |-> f]
             q == [type |-> RtcpRR, ssrc |-> ssrc, blocks |-> g]
  <2>1. DOMAIN p = {"type", "ssrc", "blocks"} /\ DOMAIN q = {"type", "ssrc", "blocks"}
    OBVIOUS
  <2>2. /\ p.type = RtcpRR /\ q.type = RtcpRR /\ p.ssrc = q.ssrc
        /\ p.blocks = f /\ q.blocks = g
    OBVIOUS
  <2> HIDE DEF p, q
  <2>3. \A x \in DOMAIN p \ {"time", "blocks"} : p[x] = q[x]
    BY <2>1, <2>2
  <2>4. "type" \in DOMAIN p /\ "blocks" \in DOMAIN p /\ DOMAIN p = DOMAIN q
    BY <2>1
  <2>5. p.type \in {RtcpSR, RtcpRR} /\ SameBlocks(p.blocks, q.blocks)
        /\ p.type # RtcpSR
    BY <2>2 DEF RtcpSR, RtcpRR
  <2>6. Agrees(p, q)
    BY <2>3, <2>4, <2>5, BlocksAgree, Zenon
  <2> QED  BY <2>6 DEF p, q
<1> SUFFICES ASSUME NEW o \in Uint32s, NEW n \in Nat, n < 32, NEW q, Bytes(q, 24 * n), NEW g,
                    \A b \in Seq(Byte), x \in Nat : Holds(b, x, q) => SameBlocks(Blocks(b, x, n), g)
             PROVE  Part(ReceiverReport(o, n) \o q,
                         [type |-> RtcpRR, ssrc |-> o, blocks |-> g])
  BY Zenon
<1> DEFINE len == 8 + 24 * n
           head == Header(RtcpRR, n, len) \o PutUint32(o)
           m == [type |-> RtcpRR, ssrc |-> o, blocks |-> g]
<1>1. /\ len \in Nat /\ len % 4 = 0 /\ len >= 4 /\ RtcpRR \in Byte /\ 24 * n \in Nat
      /\ 8 \in Nat
  BY ByteValues DEF RtcpRR
<1>2. ReceiverReport(o, n) = head
  BY Zenon DEF ReceiverReport
<1>3. Bytes(head, 8)
  BY <1>1, HeadBytes, Zenon
<1>4. ASSUME NEW b \in Seq(Byte), NEW x \in Nat, Holds(b, x, head), len < Two16
      PROVE  /\ At(b, x) % 32 = n /\ At(b, x + 1) = RtcpRR
             /\ PktLen(b, x) = len /\ Uint32(b, x + 4) = o
  <2> HIDE DEF len
  <2> QED  BY <1>1, <1>4, HeadReadBack
<1> HIDE DEF head
<1>5. Bytes(head \o q, len)
  BY <1>1, <1>3, Concatenated, Zenon
<1>6. ASSUME NEW b \in Seq(Byte), NEW x \in Nat, Holds(b, x, head \o q),
             Len(b) <= BufferLen
      PROVE  /\ PktLen(b, x) = len /\ At(b, x + 1) \in RtcpSR .. RtcpXr
             /\ Agrees(Packet(b, x, len), m)
  <2>1. len < Two16
    <3>1. x + Len(head \o q) <= Len(b) /\ Len(head \o q) = len
      BY <1>5, <1>6, Zenon DEF Holds, Bytes
    <3> QED  BY <1>1, <1>6, <3>1, Buffer
  <2>2. Holds(b, x, head) /\ Holds(b, x + 8, q)
    BY <1>1, <1>3, <1>6, HoldsParts, Zenon
  <2>3. /\ At(b, x) % 32 = n /\ At(b, x + 1) = RtcpRR
        /\ PktLen(b, x) = len /\ Uint32(b, x + 4) = o
    BY <1>4, <2>1, <2>2, Zenon
  <2>4. x + 8 \in Nat
    OBVIOUS
  <2>5. SameBlocks(Blocks(b, x + 8, n), g)
    BY <2>2, <2>4, Zenon
  <2>6. Packet(b, x, len) = [type |-> RtcpRR, ssrc |-> o, blocks |-> Blocks(b, x + 8, n)]
    <3>1. Packet(b, x, len) = [type |-> RtcpRR, ssrc |-> Uint32(b, x + 4),
                               blocks |-> Blocks(b, x + 8, At(b, x) % 32)]
      <4>1. Packet(b, x, len) = RrAt(b, x)
        BY <2>3, PacketCases
      <4> QED  BY <4>1, Zenon DEF RrAt
    <3> QED  BY <3>1, <2>3, Zenon
  <2>7. Agrees(Packet(b, x, len), m)
    BY <2>5, <2>6, <1>RrAgrees, Zenon
  <2>8. At(b, x + 1) \in RtcpSR .. RtcpXr
    BY <2>3 DEF RtcpSR, RtcpRR, RtcpXr
  <2> QED  BY <2>3, <2>7, <2>8, Zenon
<1> HIDE DEF len, m
<1>7. Part(head \o q, m)
  BY <1>1, <1>5, <1>6, Zenon DEF Part
<1> QED  BY <1>2, <1>7, Zenon DEF m

\* The lengths of reports without their blocks.
LEMMA ReportBytes ==
    ASSUME NEW t \in Times, NEW o \in Uint32s, NEW s, s.packets \in Nat,
           NEW n \in Nat, n < 32
    PROVE  Bytes(SenderReport(o, s, n, t), 28) /\ Bytes(ReceiverReport(o, n), 8)
<1> DEFINE sl == 28 + 24 * n
           rl == 8 + 24 * n
           sh == Header(RtcpSR, n, sl) \o PutUint32(o)
           rh == Header(RtcpRR, n, rl) \o PutUint32(o)
           info == SenderInfo(s, t)
<1>1. /\ sl \in Nat /\ sl % 4 = 0 /\ sl >= 4 /\ RtcpSR \in Byte
      /\ rl \in Nat /\ rl % 4 = 0 /\ rl >= 4 /\ RtcpRR \in Byte
      /\ 8 \in Nat /\ 20 \in Nat /\ 8 + 20 = 28
  BY ByteValues DEF RtcpSR, RtcpRR
<1>2. Bytes(sh, 8)
  BY <1>1, HeadBytes, Zenon
<1>3. Bytes(rh, 8)
  BY <1>1, HeadBytes, Zenon
<1>4. Bytes(info, 20)
  BY SenderInfoReadBack, Zenon
<1>5. Bytes(sh \o info, 28)
  BY <1>1, <1>2, <1>4, Concatenated, Zenon
<1> QED  BY <1>3, <1>5, Zenon DEF SenderReport, ReceiverReport

\* The first packet of a compound is a part: SR or RR with its blocks.
First(o, s, ins, t) ==
    IF s.sender THEN SenderReport(o, s, Len(ins), t) ELSE ReceiverReport(o, Len(ins))

\* It is read with the sender info and the blocks that were meant.
LEMMA FirstPart ==
    \A streams, S, s : \A t \in Times, ins \in Seq(S), o \in Uint32s :
          /\ Hears(streams, S, t)
          /\ Len(ins) < 32
          /\ s.packets \in Nat
          =>
          Part(First(o, s, ins, t) \o RecvReports(streams, ins, t), FirstMeans(o, s, streams, ins, t))
\* The reader finds the reports that the builder wrote.
<1>BlocksReadBack. ASSUME NEW streams, NEW S, NEW t \in Nat, Hears(streams, S, t), NEW ins \in Seq(S),
                          NEW b \in Seq(Byte), NEW x \in Nat, Holds(b, x, RecvReports(streams, ins, t))
                   PROVE  SameBlocks(Blocks(b, x, Len(ins)),
                                     [k \in DOMAIN ins |-> Report(ins[k], streams[ins[k]], t)])
  <2> USE <1>BlocksReadBack
  <2> DEFINE f == Blocks(b, x, Len(ins))
             g == [k \in DOMAIN ins |-> Report(ins[k], streams[ins[k]], t)]
  <2>1. DOMAIN ins = 1 .. Len(ins) /\ Len(ins) \in Nat
    OBVIOUS
  <2>2. DOMAIN f = 1 .. Len(ins) /\ DOMAIN g = 1 .. Len(ins)
    BY <2>1, Zenon DEF Blocks
  <2>3. ASSUME NEW k \in 1 .. Len(ins)
        PROVE  [f[k] EXCEPT !.lost = 0] = [g[k] EXCEPT !.lost = 0]
    <3> DEFINE i == ins[k]
               s == streams[ins[k]]
               r == Report(i, s, t)
               lost == s.stats.lost
               y == x + 24 * (k - 1)
    <3>1. i \in S
      OBVIOUS
    <3>2. i \in Uint32s /\ s \in InStates /\ s.srTime <= t
      BY <3>1, Zenon DEF Hears
    <3>3. Holds(b, y, RecvReport(i, s, t))
      BY BlocksHeld, Zenon
    <3>4. f[k] = readRecvReport(b, y)
      BY DEF Blocks
    <3>5. g[k] = r
      BY <2>1, Zenon
    <3>6. y \in Nat
      OBVIOUS
    <3> HIDE DEF i, s, y
    <3>7. r \in Reports /\ lost \in Nat /\ RecvReport(i, s, t) = BlockBytes(r, lost)
      BY <3>2, ReportTyped, Zenon
    <3> HIDE DEF f, g, r, lost
    <3>8. [readRecvReport(b, y) EXCEPT !.lost = 0] = [r EXCEPT !.lost = 0]
      <4>1. Holds(b, y, BlockBytes(r, lost))
        BY <3>3, <3>7, Zenon
      <4> QED  BY <3>6, <3>7, <4>1, BlockReadBack
    <3> QED  BY <3>4, <3>5, <3>8, Zenon
  <2> HIDE DEF f, g
  <2>4. SameBlocks(f, g)
    BY <2>2, <2>3, Zenon DEF SameBlocks
  <2> QED  BY <2>4, Zenon DEF f, g
<1> SUFFICES ASSUME NEW streams, NEW S, NEW t \in Times, Hears(streams, S, t), NEW ins \in Seq(S), Len(ins) < 32,
                    NEW o \in Uint32s, NEW s, s.packets \in Nat
             PROVE  Part(First(o, s, ins, t) \o RecvReports(streams, ins, t), FirstMeans(o, s, streams, ins, t))
  BY Zenon
<1> DEFINE n == Len(ins)
           q == RecvReports(streams, ins, t)
           g == [k \in DOMAIN ins |-> Report(ins[k], streams[ins[k]], t)]
<1>0. t \in Nat /\ n \in Nat
  BY DEF Times
<1>1. Bytes(q, 24 * n)
  BY <1>0, BlocksHeld, Zenon
<1>2. \A b \in Seq(Byte), x \in Nat : Holds(b, x, q) => SameBlocks(Blocks(b, x, n), g)
  BY <1>0, <1>BlocksReadBack, Zenon
<1>3. CASE s.sender
  <2>1. First(o, s, ins, t) = SenderReport(o, s, n, t)
    BY <1>3, Zenon DEF First
  <2>2. FirstMeans(o, s, streams, ins, t) =
            [type |-> RtcpSR, ssrc |-> o, time |-> t, stamp |-> Wrap32(RtpStamp(t)),
             packets |-> Wrap32(s.packets),
             octets |-> Wrap32(s.packets * PayloadLen), blocks |-> g]
    BY <1>3, Zenon DEF FirstMeans, SrMeans
  <2> HIDE DEF n, q, g
  <2>3. n < 32
    BY DEF n
  <2> QED  BY <1>0, <1>1, <1>2, <2>1, <2>2, <2>3, SrPart, Zenon DEF q
<1>4. CASE ~s.sender
  <2>1. First(o, s, ins, t) = ReceiverReport(o, n)
    BY <1>4, Zenon DEF First
  <2>2. FirstMeans(o, s, streams, ins, t) = [type |-> RtcpRR, ssrc |-> o, blocks |-> g]
    BY <1>4, Zenon DEF FirstMeans
  <2> HIDE DEF n, q, g
  <2>3. n < 32
    BY DEF n
  <2> QED  BY <1>0, <1>1, <1>2, <2>1, <2>2, <2>3, RrPart, Zenon DEF q
<1> QED  BY <1>3, <1>4

\* The SR that another stream adds has no blocks.
LEMMA AddedPart ==
    ASSUME NEW streams, NEW t \in Times, NEW o \in Uint32s, NEW s, s.packets \in Nat
    PROVE  Part(SenderReport(o, s, 0, t), SrMeans(o, s, streams, <<>>, t))
<1> DEFINE p == SenderReport(o, s, 0, t)
           g == [k \in DOMAIN <<>> |-> Report(<<>>[k], streams[<<>>[k]], t)]
           m == [type |-> RtcpSR, ssrc |-> o, time |-> t, stamp |-> Wrap32(RtpStamp(t)),
                 packets |-> Wrap32(s.packets),
                 octets |-> Wrap32(s.packets * PayloadLen), blocks |-> g]
<1>1. Bytes(<<>>, 24 * 0) /\ 0 \in Nat /\ 0 < 32
  BY DEF Bytes
<1>2. DOMAIN g = {}
  OBVIOUS
<1>3. SrMeans(o, s, streams, <<>>, t) = m
  BY Zenon DEF SrMeans
<1> HIDE DEF g
<1>4. \A b \in Seq(Byte), x \in Nat : SameBlocks(Blocks(b, x, 0), g)
  BY <1>2 DEF Blocks, SameBlocks
<1>5. Part(p \o <<>>, m)
  BY <1>1, <1>4, SrPart, Zenon
<1> HIDE DEF p, m
<1>6. p \in Seq(Byte)
  BY <1>1, ReportBytes, Zenon DEF p, Bytes
<1>7. p \o <<>> = p
  BY <1>6
<1> QED  BY <1>3, <1>5, <1>7, Zenon DEF p

-----------------------------------------------------------------------------
\* SDES items, as makeSdesChunk writes them.

\* Items that an application may set: no text has more than 255 bytes.
Items ==
    {f \in UNION {[D -> Seq(Byte)] : D \in SUBSET (1 .. 9)} :
        \A y \in DOMAIN f : Len(f[y]) < 256}

\* Types, texts and text lengths of such items are bytes.
LEMMA ItemsTyped ==
    ASSUME NEW items \in Items
    PROVE  /\ items = [y \in DOMAIN items |-> items[y]]
           /\ \A y \in DOMAIN items :
                 /\ y \in Byte /\ y \in 1 .. 9 /\ items[y] \in Seq(Byte)
                 /\ Len(items[y]) \in Nat /\ Len(items[y]) < 256
                 /\ Len(items[y]) % 256 = Len(items[y]) /\ Len(items[y]) \in Byte
<1>1. PICK D \in SUBSET (1 .. 9) : items \in [D -> Seq(Byte)]
  BY DEF Items
<1>2. DOMAIN items = D /\ items = [y \in D |-> items[y]]
  BY <1>1
<1>3. \A y \in D : items[y] \in Seq(Byte)
  BY <1>1
<1>4. ASSUME NEW y \in D
      PROVE  /\ y \in Byte /\ y \in 1 .. 9 /\ items[y] \in Seq(Byte)
             /\ Len(items[y]) \in Nat /\ Len(items[y]) < 256
             /\ Len(items[y]) % 256 = Len(items[y]) /\ Len(items[y]) \in Byte
  <2>1. y \in 1 .. 9 /\ items[y] \in Seq(Byte)
    BY <1>3
  <2>2. y \in Byte
    BY <2>1, ByteValues
  <2> DEFINE n == Len(items[y])
  <2>3. n \in Nat
    BY <2>1
  <2>4. n < 256
    BY <1>2 DEF Items
  <2> HIDE DEF n
  <2>5. n % 256 = n /\ n \in Byte
    BY <2>3, <2>4, ByteValues
  <2> QED  BY <2>1, <2>2, <2>3, <2>4, <2>5 DEF n
<1> QED  BY <1>2, <1>4

\* The same for one item.
LEMMA ItemTyped ==
    ASSUME NEW items \in Items, NEW y \in DOMAIN items
    PROVE  /\ y \in Byte /\ y \in 1 .. 9 /\ items[y] \in Seq(Byte)
           /\ Len(items[y]) \in Nat /\ Len(items[y]) < 256
           /\ Len(items[y]) % 256 = Len(items[y]) /\ Len(items[y]) \in Byte
BY ItemsTyped, Zenon

\* The two bytes before the text of an item.
ItemHead(items, y) == <<y, Len(items[y]) % 256>>

\* What makeSdesChunk has written after each item.
Written(w, o, items, order) ==
    /\ w[0] = PutUint32(o)
    /\ \A k \in 1 .. Len(order) :
          w[k] = (w[k - 1] \o ItemHead(items, order[k])) \o items[order[k]]

WrittenBody(o, items, order, w) ==
    [k \in 0 .. Len(order) |->
        IF k = 0 THEN PutUint32(o)
        ELSE w[k - 1] \o <<order[k], Len(items[order[k]]) % 256>> \o items[order[k]]]

\* A set that has a number of elements.
Sized(D) == Cardinality(D) \in Nat

\* Orders of the items.
LEMMA OrderTyped ==
    ASSUME NEW D, Sized(D), NEW order \in Orders(D)
    PROVE  /\ order \in Seq(D) /\ Len(order) = Cardinality(D) /\ Len(order) \in Nat
           /\ \A k \in 1 .. Len(order) : order[k] \in D
           /\ \A y \in D : \E k \in 1 .. Len(order) : order[k] = y
           /\ \A j, k \in 1 .. Len(order) : order[j] = order[k] => j = k
<1> DEFINE n == Cardinality(D)
<1>1. n \in Nat
  BY DEF Sized
<1>2. order \in Bijection(1 .. n, D)
  BY DEF Orders
<1> HIDE DEF n
<1>3. order \in [1 .. n -> D]
  BY <1>2 DEF Bijection, Injection, Surjection
<1>4. order \in Seq(D) /\ Len(order) = n
  BY <1>1, <1>3
<1>5. \A y \in D : \E k \in 1 .. n : order[k] = y
  BY <1>2 DEF Bijection, Surjection
<1>6. \A j, k \in 1 .. n : order[j] = order[k] => j = k
  BY <1>2, Zenon DEF Bijection, Injection, IsInjective
<1> QED  BY <1>1, <1>3, <1>4, <1>5, <1>6 DEF n

\* The chunk grows by each item's two bytes and text.
LEMMA ItemsAreWritten ==
    \A o \in Uint32s : \A items \in Items : \A order \in Orders(DOMAIN items) :
          /\ Sized(DOMAIN items)
          =>
          /\ Written(ItemsWritten(o, items, order), o, items, order)
          /\ \A k \in 0 .. Len(order) : ItemsWritten(o, items, order)[k] \in Seq(Byte)
<1>WrittenEquation. ASSUME NEW o, NEW items, NEW order, NEW g, g = WrittenBody(o, items, order, g)
                    PROVE  ItemsWritten(o, items, order) =
                               WrittenBody(o, items, order, ItemsWritten(o, items, order))
  <2> USE <1>WrittenEquation
  <2>1. ItemsWritten(o, items, order) = CHOOSE w : w = WrittenBody(o, items, order, w)
    BY Zenon DEF ItemsWritten, WrittenBody
  <2> QED  BY <2>1, Zenon
<1> SUFFICES ASSUME NEW o \in Uint32s, NEW items \in Items, NEW order \in Orders(DOMAIN items),
                    Sized(DOMAIN items)
             PROVE  /\ Written(ItemsWritten(o, items, order), o, items, order)
                    /\ \A k \in 0 .. Len(order) : ItemsWritten(o, items, order)[k] \in Seq(Byte)
  BY Zenon
<1> DEFINE N == Len(order)
           X == Seq(Byte)
           h == [k \in 1 .. N |-> [c \in X |->
                   (c \o ItemHead(items, order[k])) \o items[order[k]]]]
           w == ItemsWritten(o, items, order)
<1>1. N \in Nat /\ \A k \in 1 .. N : order[k] \in DOMAIN items
  BY OrderTyped
<1>2. PutUint32(o) \in X
  BY Uint32Bytes DEF Bytes, Uint32s
<1>3. ASSUME NEW k \in 1 .. N
      PROVE  ItemHead(items, order[k]) \in X /\ items[order[k]] \in X
  <2>1. PICK y \in DOMAIN items : y = order[k]
    BY <1>1
  <2>2. y \in Byte /\ Len(items[y]) % 256 \in Byte /\ items[y] \in X
    BY ItemTyped
  <2>3. <<y, Len(items[y]) % 256>> \in X
    BY <2>2
  <2> QED  BY <2>1, <2>2, <2>3, Zenon DEF ItemHead
<1>4. h \in [1 .. N -> [X -> X]]
  BY <1>3
<1>5. \A k \in 1 .. N, c \in X :
          h[k][c] = (c \o ItemHead(items, order[k])) \o items[order[k]]
  BY Zenon
<1> HIDE DEF h, X, N
<1>6. PICK g \in [0 .. N -> X] :
          g[0] = PutUint32(o) /\ \A k \in 1 .. N : g[k] = h[k][g[k - 1]]
  <2> DEFINE a == PutUint32(o)
  <2>1. N \in Nat /\ a \in X
    BY <1>1, <1>2
  <2> HIDE DEF a
  <2>2. Steps(h, N, X)
    BY <1>4, Zenon DEF Steps
  <2>3. PICK g : Ascends(g, N, X, a, h)
    BY <2>1, <2>2, Ascent, Zenon
  <2> QED  BY <2>3, Zenon DEF Ascends, a
<1>7. g = WrittenBody(o, items, order, g)
  <2>1. ASSUME NEW k \in 0 .. N
        PROVE  g[k] = IF k = 0 THEN PutUint32(o)
                      ELSE (g[k - 1] \o ItemHead(items, order[k])) \o items[order[k]]
    <3>1. CASE k = 0
      BY <1>6, <3>1
    <3>2. CASE k # 0
      <4>1. k \in 1 .. N /\ k - 1 \in 0 .. N
        BY <1>1, <3>2
      <4>2. g[k - 1] \in X
        BY <4>1
      <4>3. g[k] = h[k][g[k - 1]]
        BY <1>6, <4>1, Zenon
      <4>4. g[k] = (g[k - 1] \o ItemHead(items, order[k])) \o items[order[k]]
        BY <1>5, <4>1, <4>2, <4>3, Zenon
      <4> QED  BY <3>2, <4>4, Zenon
    <3> QED  BY <3>1, <3>2, Zenon
  <2>2. g = [k \in 0 .. N |-> g[k]]
    OBVIOUS
  <2> QED  BY <2>1, <2>2, Zenon DEF WrittenBody, ItemHead, N
<1>8. w = WrittenBody(o, items, order, w)
  BY <1>7, <1>WrittenEquation, Zenon
<1> HIDE DEF w
<1>9. ASSUME NEW k \in 0 .. N
      PROVE  w[k] = IF k = 0 THEN PutUint32(o)
                    ELSE (w[k - 1] \o ItemHead(items, order[k])) \o items[order[k]]
  BY <1>8, Zenon DEF WrittenBody, ItemHead, N
<1>10. Written(w, o, items, order)
  <2>1. w[0] = PutUint32(o)
    BY <1>1, <1>9
  <2>2. \A k \in 1 .. N : k \in 0 .. N /\ k # 0
    BY <1>1
  <2> QED  BY <1>9, <2>1, <2>2, Zenon DEF Written, N
<1>11. \A k \in 0 .. N : w[k] \in X
  <2> DEFINE S == {k \in Nat : k <= N => w[k] \in X}
  <2>1. 0 \in S
    BY <1>1, <1>2, <1>9
  <2>2. ASSUME NEW k \in Nat, k \in S PROVE k + 1 \in S
    <3> SUFFICES ASSUME k + 1 <= N PROVE w[k + 1] \in X
      OBVIOUS
    <3>1. k + 1 \in 1 .. N /\ (k + 1) - 1 = k /\ k <= N
      BY <1>1
    <3>2. w[k] \in X
      BY <2>2, <3>1
    <3>3. w[k + 1] = (w[k] \o ItemHead(items, order[k + 1])) \o items[order[k + 1]]
      BY <1>10, <3>1, Zenon DEF Written, N
    <3>4. ItemHead(items, order[k + 1]) \in X /\ items[order[k + 1]] \in X
      BY <1>3, <3>1
    <3> QED  BY <3>2, <3>3, <3>4 DEF X
  <2> HIDE DEF S
  <2>3. Nat \subseteq S
    BY <2>1, <2>2, SetInduction
  <2> QED  BY <1>1, <2>3 DEF S
<1> QED  BY <1>10, <1>11 DEF w, X, N

-----------------------------------------------------------------------------
\* The length of a chunk, by SetSdesItem's sum and as it is written.

\* The bytes of the item y, of the items with types in D.
Size(items, D, y) == IF y \in D THEN 2 + Len(items[y]) ELSE 0

Sum(items, D) ==
    4 + Size(items, D, 1) + Size(items, D, 2) + Size(items, D, 3)
      + Size(items, D, 4) + Size(items, D, 5) + Size(items, D, 6)
      + Size(items, D, 7) + Size(items, D, 8) + Size(items, D, 9)

LengthBody(items, g) ==
    [y \in 0 .. 9 |->
        IF y = 0 THEN 4
        ELSE g[y - 1] + IF y \in DOMAIN items THEN 2 + Len(items[y]) ELSE 0]

\* An item takes a number of bytes.
LEMMA SizeTyped ==
    ASSUME NEW items \in Items, NEW D \in SUBSET DOMAIN items
    PROVE  \A y : Size(items, D, y) \in Nat
<1> SUFFICES ASSUME NEW y PROVE Size(items, D, y) \in Nat
  OBVIOUS
<1>1. y \in D => Len(items[y]) \in Nat
  BY ItemTyped
<1> QED  BY <1>1 DEF Size

\* The length that SetSdesItem computes is the sum over the items that are set.
LEMMA ItemsLenIsSum ==
    ASSUME NEW items \in Items
    PROVE  ItemsLen(items) = Sum(items, DOMAIN items) /\ ItemsLen(items) \in Nat
<1> DEFINE D == DOMAIN items
           h == [y \in 1 .. 9 |-> [c \in Int |-> c + Size(items, D, y)]]
           w == CHOOSE f : f = LengthBody(items, f)
<1>1. ItemsLen(items) = w[9]
  BY Zenon DEF ItemsLen, LengthBody
<1>2. \A y : Size(items, D, y) \in Nat
  BY SizeTyped
<1>3. Steps(h, 9, Int)
  BY <1>2 DEF Steps
<1>4. \A y \in 1 .. 9, c \in Int : h[y][c] = c + Size(items, D, y)
  BY Zenon
<1> HIDE DEF h
<1>5. PICK g : Ascends(g, 9, Int, 4, h)
  BY <1>3, Ascent
<1>6. g \in [0 .. 9 -> Int] /\ g[0] = 4 /\ \A k \in 1 .. 9 : g[k] = h[k][g[k - 1]]
  BY <1>5, Zenon DEF Ascends
<1>7. g = LengthBody(items, g)
  <2>1. ASSUME NEW k \in 0 .. 9
        PROVE  g[k] = IF k = 0 THEN 4 ELSE g[k - 1] + Size(items, D, k)
    <3>1. CASE k = 0
      BY <1>6, <3>1, Zenon
    <3>2. CASE k # 0
      <4>1. k \in 1 .. 9 /\ k - 1 \in 0 .. 9
        BY <3>2
      <4>2. g[k - 1] \in Int /\ g[k] = h[k][g[k - 1]]
        BY <1>6, <4>1
      <4> QED  BY <1>4, <3>2, <4>1, <4>2, Zenon
    <3> QED  BY <3>1, <3>2
  <2>2. g = [k \in 0 .. 9 |-> g[k]]
    BY <1>6
  <2> QED  BY <2>1, <2>2, Zenon DEF LengthBody, Size
<1>8. w = LengthBody(items, w)
  BY <1>7, Zenon
<1> HIDE DEF w
<1>9. \A k \in 0 .. 9 : w[k] = IF k = 0 THEN 4 ELSE w[k - 1] + Size(items, D, k)
  BY <1>8, Zenon DEF LengthBody, Size
<1>10. /\ w[0] = 4 /\ w[1] = w[0] + Size(items, D, 1) /\ w[2] = w[1] + Size(items, D, 2)
       /\ w[3] = w[2] + Size(items, D, 3) /\ w[4] = w[3] + Size(items, D, 4)
       /\ w[5] = w[4] + Size(items, D, 5) /\ w[6] = w[5] + Size(items, D, 6)
       /\ w[7] = w[6] + Size(items, D, 7) /\ w[8] = w[7] + Size(items, D, 8)
       /\ w[9] = w[8] + Size(items, D, 9)
  BY <1>9
<1>11. w[9] = Sum(items, D)
  BY <1>10, Zenon DEF Sum
<1>12. w[9] \in Nat
  BY <1>2, <1>11 DEF Sum
<1> QED  BY <1>1, <1>11, <1>12

\* Where the items of a chunk start: at[k - 1] is the start of item k.
Placed(at, items, order) ==
    /\ at \in [0 .. Len(order) -> Nat] /\ at[0] = 4
    /\ \A k \in 1 .. Len(order) : at[k] = at[k - 1] + (2 + Len(items[order[k]]))
    /\ at[Len(order)] = ItemsLen(items)

\* makeSdesChunk writes the items one behind the other, in whatever order it
\* meets them, and ends at the length that SetSdesItem computed.
LEMMA WrittenPlaces ==
    \A o \in Uint32s : \A items \in Items : \A order \in Orders(DOMAIN items) :
          /\ Sized(DOMAIN items)
          =>
          Placed([k \in 0 .. Len(order) |-> Len(ItemsWritten(o, items, order)[k])],
                 items, order)
\* An item more.
<1>SumGrows. ASSUME NEW items \in Items, NEW D \in SUBSET DOMAIN items,
                    NEW x \in DOMAIN items, x \notin D
             PROVE  /\ Sum(items, D) \in Nat
                    /\ Sum(items, D \cup {x}) = Sum(items, D) + (2 + Len(items[x]))
  <2> USE <1>SumGrows
  <2> DEFINE E == D \cup {x}
             n == 2 + Len(items[x])
  <2>1. \A y : Size(items, D, y) \in Nat
    BY SizeTyped
  <2>2. x \in 1 .. 9 /\ n \in Nat
    BY ItemTyped
  <2>3. Size(items, E, x) = n /\ Size(items, D, x) = 0
    BY Zenon DEF Size
  <2>4. \A y : y # x => Size(items, E, y) = Size(items, D, y)
    BY DEF Size
  <2> HIDE DEF E, n
  <2>5. Sum(items, D) \in Nat
    BY <2>1 DEF Sum
  <2>6. Sum(items, E) = Sum(items, D) + n
    BY <2>1, <2>2, <2>3, <2>4 DEF Sum
  <2> QED  BY <2>5, <2>6 DEF E, n
<1> SUFFICES ASSUME NEW o \in Uint32s, NEW items \in Items, NEW order \in Orders(DOMAIN items),
                    Sized(DOMAIN items)
             PROVE  Placed([k \in 0 .. Len(order) |-> Len(ItemsWritten(o, items, order)[k])],
                           items, order)
  BY Zenon
<1> DEFINE N == Len(order)
           w == ItemsWritten(o, items, order)
           at == [k \in 0 .. N |-> Len(w[k])]
           D(k) == {order[j] : j \in 1 .. k}
<1>1. Written(w, o, items, order) /\ \A k \in 0 .. N : w[k] \in Seq(Byte)
  BY ItemsAreWritten, Zenon
<1> HIDE DEF w
<1>2. /\ N \in Nat /\ \A k \in 1 .. N : order[k] \in DOMAIN items
      /\ \A y \in DOMAIN items : \E k \in 1 .. N : order[k] = y
      /\ \A j, k \in 1 .. N : order[j] = order[k] => j = k
  BY OrderTyped
<1> HIDE DEF N
<1>3. at \in [0 .. N -> Nat]
  BY <1>1
<1>4. at[0] = 4
  <2>1. w[0] = PutUint32(o) /\ o \in Nat
    BY <1>1, Zenon DEF Written, Uint32s
  <2>2. Len(w[0]) = 4
    BY <2>1, Uint32Bytes, Zenon DEF Bytes
  <2> QED  BY <1>2, <2>2
<1>5. ASSUME NEW k \in 1 .. N PROVE at[k] = at[k - 1] + (2 + Len(items[order[k]]))
  <2>1. k \in 0 .. N /\ k - 1 \in 0 .. N
    BY <1>2
  <2>2. PICK y \in DOMAIN items : y = order[k]
    BY <1>2
  <2> DEFINE c == w[k - 1]
             hd == <<y, Len(items[y]) % 256>>
             text == items[y]
  <2>3. w[k] = (c \o hd) \o text
    BY <1>1, <2>2, Zenon DEF Written, ItemHead, N
  <2>4. c \in Seq(Byte)
    BY <1>1, <2>1, Zenon
  <2>5. text \in Seq(Byte) /\ y \in Byte /\ Len(items[y]) % 256 \in Byte
    BY ItemTyped
  <2>6. at[k] = Len(w[k]) /\ at[k - 1] = Len(c)
    BY <2>1, Zenon
  <2>7. hd \in Seq(Byte) /\ Len(hd) = 2
    BY <2>5
  <2>8. text \in Seq(Byte) /\ Len(text) = Len(items[order[k]])
    BY <2>2, <2>5
  <2> HIDE DEF c, text, hd
  <2> DEFINE m == Len(c)
             n == Len(text)
  <2>9. Bytes(c, m) /\ Bytes(hd, 2) /\ Bytes(text, n)
    BY <2>4, <2>7, <2>8, Zenon DEF Bytes
  <2>10. m \in Nat /\ n \in Nat /\ 2 \in Nat /\ m + 2 \in Nat
    BY <2>4, <2>8
  <2>11. at[k - 1] = m /\ Len(items[order[k]]) = n
    BY <2>6, <2>8
  <2> HIDE DEF m, n
  <2>12. Bytes(c \o hd, m + 2)
    BY <2>9, <2>10, Concatenated, Zenon
  <2>13. Bytes((c \o hd) \o text, (m + 2) + n)
    BY <2>9, <2>10, <2>12, Concatenated, Zenon
  <2>14. at[k] = (m + 2) + n
    BY <2>3, <2>6, <2>13, Zenon DEF Bytes
  <2>15. (m + 2) + n = m + (2 + n)
    BY <2>10
  <2> QED  BY <2>11, <2>14, <2>15, Zenon
<1> HIDE DEF at
<1>6. ASSUME NEW k \in Nat, k <= N PROVE at[k] = Sum(items, D(k))
  <2> DEFINE S == {m \in Nat : m <= N => at[m] = Sum(items, D(m))}
  <2>1. 0 \in S
    <3>1. \A y : Size(items, D(0), y) = 0
      BY DEF Size
    <3>2. Sum(items, D(0)) = 4
      <4> HIDE DEF D
      <4> QED  BY <3>1 DEF Sum
    <3> QED  BY <1>4, <3>2
  <2>2. ASSUME NEW m \in Nat, m \in S PROVE m + 1 \in S
    <3> SUFFICES ASSUME m + 1 <= N PROVE at[m + 1] = Sum(items, D(m + 1))
      OBVIOUS
    <3> DEFINE x == order[m + 1]
    <3>1. m + 1 \in 1 .. N /\ (m + 1) - 1 = m /\ m <= N
      BY <1>2
    <3>2. at[m] = Sum(items, D(m))
      BY <2>2, <3>1
    <3>3. x \in DOMAIN items
      BY <1>2, <3>1
    <3>4. D(m) \in SUBSET DOMAIN items
      BY <1>2, <3>1
    <3>5. x \notin D(m)
      BY <1>2, <3>1
    <3>6. D(m + 1) = D(m) \cup {x}
      OBVIOUS
    <3>7. at[m + 1] = at[m] + (2 + Len(items[x]))
      BY <1>5, <3>1
    <3> HIDE DEF D, x
    <3>8. Sum(items, D(m) \cup {x}) = Sum(items, D(m)) + (2 + Len(items[x]))
      BY <3>3, <3>4, <3>5, <1>SumGrows
    <3> QED  BY <3>2, <3>6, <3>7, <3>8, Zenon
  <2> HIDE DEF S
  <2>3. Nat \subseteq S
    BY <2>1, <2>2, SetInduction
  <2>4. k \in S
    BY <2>3
  <2> HIDE DEF D
  <2> QED  BY <1>6, <2>4 DEF S
<1>7. D(N) = DOMAIN items
  BY <1>2
<1>8. at[N] = ItemsLen(items)
  <2>1. at[N] = Sum(items, D(N))
    <3> HIDE DEF D
    <3> QED  BY <1>2, <1>6
  <2> QED  BY <1>7, <2>1, ItemsLenIsSum
<1>9. Placed(at, items, order)
  BY <1>3, <1>4, <1>5, <1>8, Zenon DEF Placed, N
<1> QED  BY <1>9 DEF at, N, w

\* The items are in b, in the chunk at x: where they start, their types,
\* lengths and texts.
ItemsHeld(b, x, at, items, order) ==
    \A k \in 1 .. Len(order) :
        /\ At(b, x + at[k - 1]) = order[k]
        /\ At(b, x + at[k - 1] + 1) = Len(items[order[k]])
        /\ \A j \in 1 .. Len(items[order[k]]) :
              At(b, x + at[k - 1] + 1 + j) = items[order[k]][j]

\* A buffer that holds what makeSdesChunk wrote holds the SSRC and every item.
LEMMA WrittenHeld ==
    \A o \in Uint32s : \A items \in Items : \A order \in Orders(DOMAIN items) :
    \A b \in Seq(Byte) : \A x \in Nat :
          /\ Sized(DOMAIN items)
          /\ Holds(b, x, ItemsWritten(o, items, order)[Len(order)])
          =>
          /\ Uint32(b, x) = o
          /\ ItemsHeld(b, x, [k \in 0 .. Len(order) |->
                                 Len(ItemsWritten(o, items, order)[k])], items, order)
\* One item behind what was written before.
<1>ItemBehindHeld. ASSUME NEW m \in Nat, NEW c, Bytes(c, m), NEW items \in Items,
                          NEW y \in DOMAIN items, NEW b \in Seq(Byte), NEW x \in Nat,
                          Holds(b, x, (c \o ItemHead(items, y)) \o items[y])
                   PROVE  /\ Holds(b, x, c)
                          /\ At(b, x + m) = y /\ At(b, x + m + 1) = Len(items[y])
                          /\ \A j \in 1 .. Len(items[y]) : At(b, x + m + 1 + j) = items[y][j]
  <2> USE <1>ItemBehindHeld
  <2> DEFINE text == items[y]
             n == Len(items[y])
             hd == <<y, n % 256>>
  <2>1. text \in Seq(Byte) /\ y \in Byte /\ n \in Nat /\ n % 256 = n /\ n \in Byte
    BY ItemTyped
  <2>2. Holds(b, x, (c \o hd) \o text)
    BY Zenon DEF ItemHead
  <2>3. Bytes(hd, 2) /\ hd[1] = y /\ hd[2] = n
    BY <2>1 DEF Bytes
  <2>4. Bytes(text, n)
    BY <2>1, Zenon DEF Bytes
  <2> HIDE DEF hd, text, n
  <2>5. 2 \in Nat /\ m + 2 \in Nat /\ x + m \in Nat /\ x + m + 1 \in Nat
        /\ x + (m + 2) \in Nat /\ n \in Nat
    BY <2>1
  <2>6. Bytes(c \o hd, m + 2)
    BY <2>3, <2>5, Concatenated, Zenon
  <2>7. Holds(b, x, c \o hd) /\ Holds(b, x + (m + 2), text)
    BY <2>2, <2>4, <2>5, <2>6, HoldsParts, Zenon
  <2>8. Holds(b, x, c) /\ Holds(b, x + m, hd)
    BY <2>3, <2>5, <2>7, HoldsParts, Zenon
  <2>9. At(b, x + m) = y /\ At(b, x + m + 1) = n
    <3>1. 1 \in 1 .. 2 /\ 2 \in 1 .. 2 /\ (x + m + 1) + 1 = (x + m) + 2
      BY <2>5
    <3> QED  BY <2>3, <2>5, <2>8, <3>1, HeldByte
  <2>10. ASSUME NEW j \in 1 .. n PROVE At(b, x + m + 1 + j) = text[j]
    <3>1. x + m + 1 + j \in Nat /\ (x + m + 1 + j) + 1 = (x + (m + 2)) + j
      BY <2>5
    <3> QED  BY <2>4, <2>5, <2>7, <3>1, HeldByte
  <2> QED  BY <2>8, <2>9, <2>10, Zenon DEF text, n
<1> SUFFICES ASSUME NEW o \in Uint32s, NEW items \in Items, NEW order \in Orders(DOMAIN items),
                    Sized(DOMAIN items), NEW b \in Seq(Byte), NEW x \in Nat,
                    Holds(b, x, ItemsWritten(o, items, order)[Len(order)])
             PROVE  /\ Uint32(b, x) = o
                    /\ ItemsHeld(b, x, [k \in 0 .. Len(order) |->
                                           Len(ItemsWritten(o, items, order)[k])], items, order)
  BY Zenon
<1> DEFINE N == Len(order)
           w == ItemsWritten(o, items, order)
           at == [k \in 0 .. N |-> Len(w[k])]
<1>1. Written(w, o, items, order) /\ \A k \in 0 .. N : w[k] \in Seq(Byte)
  BY ItemsAreWritten, Zenon
<1>2. N \in Nat /\ \A k \in 1 .. N : order[k] \in DOMAIN items
  BY OrderTyped
<1>3. Holds(b, x, w[N])
  OBVIOUS
<1> HIDE DEF N, w
<1>4. ASSUME NEW k \in 1 .. N, Holds(b, x, w[k])
      PROVE  /\ Holds(b, x, w[k - 1])
             /\ At(b, x + at[k - 1]) = order[k]
             /\ At(b, x + at[k - 1] + 1) = Len(items[order[k]])
             /\ \A j \in 1 .. Len(items[order[k]]) :
                   At(b, x + at[k - 1] + 1 + j) = items[order[k]][j]
  <2>1. k - 1 \in 0 .. N
    BY <1>2
  <2> DEFINE c == w[k - 1]
             m == at[k - 1]
  <2>2. m = Len(c)
    BY <2>1, Zenon
  <2>3. c \in Seq(Byte)
    BY <1>1, <2>1, Zenon
  <2>4. PICK y \in DOMAIN items : y = order[k]
    BY <1>2
  <2>5. w[k] = (c \o ItemHead(items, y)) \o items[y]
    BY <1>1, <2>4, Zenon DEF Written, N
  <2>6. Holds(b, x, (c \o ItemHead(items, y)) \o items[y])
    BY <1>4, <2>5, Zenon
  <2> HIDE DEF at, c, m
  <2>7. m \in Nat /\ Bytes(c, m)
    BY <2>2, <2>3 DEF Bytes
  <2>8. /\ Holds(b, x, c)
        /\ At(b, x + m) = y /\ At(b, x + m + 1) = Len(items[y])
        /\ \A j \in 1 .. Len(items[y]) : At(b, x + m + 1 + j) = items[y][j]
    BY <2>6, <2>7, <1>ItemBehindHeld
  <2> QED  BY <2>4, <2>8, Zenon DEF c, m
<1> HIDE DEF at
<1>5. ASSUME NEW k \in 0 .. N PROVE Holds(b, x, w[k])
  <2> DEFINE S == {m \in Nat : m <= N => Holds(b, x, w[N - m])}
  <2>1. 0 \in S
    BY <1>2, <1>3
  <2>2. ASSUME NEW m \in Nat, m \in S PROVE m + 1 \in S
    <3> SUFFICES ASSUME m + 1 <= N PROVE Holds(b, x, w[N - (m + 1)])
      OBVIOUS
    <3>1. N - m \in 1 .. N /\ (N - m) - 1 = N - (m + 1) /\ m <= N
      BY <1>2
    <3>2. Holds(b, x, w[N - m])
      BY <2>2, <3>1
    <3>3. Holds(b, x, w[(N - m) - 1])
      BY <1>4, <3>1, <3>2, Zenon
    <3> QED  BY <3>1, <3>3, Zenon
  <2> HIDE DEF S
  <2>3. Nat \subseteq S
    BY <2>1, <2>2, SetInduction
  <2>4. N - k \in Nat /\ N - k <= N /\ N - (N - k) = k
    BY <1>2
  <2>5. N - k \in S
    BY <2>3, <2>4
  <2> QED  BY <2>4, <2>5, Zenon DEF S
<1>6. Uint32(b, x) = o
  <2>1. Holds(b, x, w[0])
    BY <1>2, <1>5
  <2>2. w[0] = PutUint32(o) /\ o \in Nat /\ Wrap32(o) = o
    BY <1>1, Zenon DEF Written, Uint32s
  <2> QED  BY <2>1, <2>2, Uint32ReadBack, Zenon
<1>7. ItemsHeld(b, x, at, items, order)
  <2>1. \A k \in 1 .. N : k \in 0 .. N
    BY <1>2
  <2> QED  BY <1>4, <1>5, <2>1, Zenon DEF ItemsHeld, N
<1> QED  BY <1>6, <1>7 DEF at, N, w

-----------------------------------------------------------------------------
\* SDES items, as OnRecvCtrl reads them.

EndBody(b, x, len, f) ==
    [l \in 0 .. len + 256 |->
        IF l >= len \/ At(b, x + l) = 0 THEN l ELSE f[l + At(b, x + l + 1) + 2]]

\* It ends at the END byte behind the items.
LEMMA ItemsEndFound ==
    \A at : \A b \in Seq(Byte) : \A x \in Nat : \A len \in Nat :
    \A items \in Items : \A order \in Orders(DOMAIN items) :
          /\ Sized(DOMAIN items)
          /\ Placed(at, items, order)
          /\ ItemsHeld(b, x, at, items, order)
          /\ ItemsLen(items) < len
          /\ At(b, x + ItemsLen(items)) = 0
          =>
          ItemsEnd(b, x, len)[4] = ItemsLen(items)
\* chunkLen's loop moves on from item to item.
<1>ItemsEndMoves. ASSUME NEW b \in Seq(Byte), NEW x \in Nat, NEW len \in Nat, NEW l \in 0 .. len + 256
                  PROVE  ItemsEnd(b, x, len)[l] =
                             IF l >= len \/ At(b, x + l) = 0 THEN l
                             ELSE ItemsEnd(b, x, len)[l + At(b, x + l + 1) + 2]
  <2> USE <1>ItemsEndMoves
  <2> DEFINE N == len + 256
             T == {k \in 0 .. N : k >= len \/ At(b, x + k) = 0}
             a == [k \in 0 .. N |-> k]
             h == [k \in 0 .. N |-> [c \in Nat |-> c]]
             next == [k \in 0 .. N |-> k + At(b, x + k + 1) + 2]
             w == ItemsEnd(b, x, len)
  <2>1. N \in Nat
    OBVIOUS
  <2>2. ASSUME NEW k \in 0 .. N PROVE next[k] = k + At(b, x + k + 1) + 2
    BY <2>1, Zenon
  <2>3. ASSUME NEW k \in 0 .. N, k \notin T PROVE next[k] \in k + 1 .. N
    <3>1. x + k + 1 \in Nat /\ k < len
      BY <2>3
    <3>2. At(b, x + k + 1) \in Nat /\ At(b, x + k + 1) < 256
      BY <3>1, AtIsByte, ByteValues
    <3> QED  BY <2>2, <3>1, <3>2
  <2>4. a \in [0 .. N -> Nat] /\ h \in [0 .. N -> [Nat -> Nat]]
    BY <2>1
  <2>5. Moves(N, Nat, T, a, h, next)
    <3> HIDE DEF T, a, h, next, N
    <3> QED  BY <2>3, <2>4, Zenon DEF Moves
  <2>6. PICK g : Descends(g, N, Nat, T, a, h, next)
    <3> HIDE DEF T, a, h, next, N
    <3> QED  BY <2>1, <2>5, Descent
  <2>7. /\ g \in [0 .. N -> Nat]
        /\ \A k \in 0 .. N : g[k] = IF k \in T THEN a[k] ELSE h[k][g[next[k]]]
    BY <2>6, Zenon DEF Descends
  <2>8. g = EndBody(b, x, len, g)
    <3>1. ASSUME NEW k \in 0 .. N
          PROVE  g[k] = IF k >= len \/ At(b, x + k) = 0 THEN k
                        ELSE g[k + At(b, x + k + 1) + 2]
      <4>1. CASE k \in T
        <5>1. k >= len \/ At(b, x + k) = 0
          BY <4>1
        <5>2. a[k] = k
          OBVIOUS
        <5> QED  BY <2>7, <4>1, <5>1, <5>2, Zenon
      <4>2. CASE k \notin T
        <5>1. ~(k >= len \/ At(b, x + k) = 0)
          BY <4>2
        <5>2. next[k] \in 0 .. N
          BY <2>1, <2>3, <4>2
        <5>3. g[next[k]] \in Nat
          BY <2>7, <5>2
        <5>4. h[k][g[next[k]]] = g[next[k]]
          BY <5>3, Zenon
        <5> QED  BY <2>2, <2>7, <4>2, <5>1, <5>4, Zenon
      <4> QED  BY <4>1, <4>2, Zenon
    <3>2. g = [k \in 0 .. N |-> g[k]]
      BY <2>7
    <3> QED  BY <3>1, <3>2, Zenon DEF EndBody
  <2>9. w = EndBody(b, x, len, w)
    <3>1. w = CHOOSE f : f = EndBody(b, x, len, f)
      BY Zenon DEF ItemsEnd, EndBody
    <3> QED  BY <2>8, <3>1, Zenon
  <2> HIDE DEF w
  <2>10. w[l] = IF l >= len \/ At(b, x + l) = 0 THEN l ELSE w[l + At(b, x + l + 1) + 2]
    BY <2>9, Zenon DEF EndBody
  <2> QED  BY <2>10 DEF w
<1> SUFFICES ASSUME NEW b \in Seq(Byte), NEW x \in Nat, NEW len \in Nat,
                    NEW items \in Items, NEW order \in Orders(DOMAIN items),
                    Sized(DOMAIN items), NEW at, Placed(at, items, order),
                    ItemsHeld(b, x, at, items, order),
                    ItemsLen(items) < len, At(b, x + ItemsLen(items)) = 0
             PROVE  ItemsEnd(b, x, len)[4] = ItemsLen(items)
  BY Zenon
<1> DEFINE N == Len(order)
           w == ItemsEnd(b, x, len)
           end == ItemsLen(items)
<1>1. N \in Nat /\ \A k \in 1 .. N : order[k] \in DOMAIN items
  BY OrderTyped
<1>2. /\ at \in [0 .. N -> Nat] /\ at[0] = 4 /\ at[N] = end
      /\ \A k \in 1 .. N : at[k] = at[k - 1] + (2 + Len(items[order[k]]))
  BY Zenon DEF Placed
<1>3. end \in Nat
  BY ItemsLenIsSum
<1>4. \A k \in 1 .. N : /\ At(b, x + at[k - 1]) = order[k]
                        /\ At(b, x + at[k - 1] + 1) = Len(items[order[k]])
  BY Zenon DEF ItemsHeld
<1>5. ASSUME NEW l \in Nat, l <= len
      PROVE  w[l] = IF l >= len \/ At(b, x + l) = 0 THEN l
                    ELSE w[l + At(b, x + l + 1) + 2]
  <2>1. l \in 0 .. len + 256
    BY <1>5
  <2> QED  BY <2>1, <1>ItemsEndMoves
<1> HIDE DEF N, w, end
<1> DEFINE S == {m \in Nat : m <= N => w[at[N - m]] = end /\ at[N - m] <= end}
<1>6. 0 \in S
  <2>1. w[end] = end
    BY <1>3, <1>5 DEF end
  <2> QED  BY <1>1, <1>2, <1>3, <2>1
<1>7. ASSUME NEW m \in Nat, m \in S PROVE m + 1 \in S
  <2> SUFFICES ASSUME m + 1 <= N
               PROVE  w[at[N - (m + 1)]] = end /\ at[N - (m + 1)] <= end
    OBVIOUS
  <2>1. PICK k \in 1 .. N : k = N - m /\ k - 1 = N - (m + 1) /\ m <= N
    BY <1>1
  <2>2. w[at[k]] = end /\ at[k] <= end
    BY <1>7, <2>1
  <2>3. PICK y \in DOMAIN items : y = order[k]
    BY <1>1
  <2> DEFINE l == at[k - 1]
             n == Len(items[y])
  <2>4. y \in 1 .. 9 /\ n \in Nat
    BY ItemTyped
  <2>5. at[k] = l + (2 + n)
    BY <1>2, <2>3, Zenon
  <2>6. l \in Nat
    BY <1>1, <1>2
  <2>7. At(b, x + l) = y /\ At(b, x + l + 1) = n
    BY <1>4, <2>3, Zenon
  <2> HIDE DEF l, n
  <2>8. l < end /\ l <= len /\ ~(l >= len) /\ l + n + 2 = l + (2 + n)
    BY <1>3, <2>2, <2>4, <2>5, <2>6 DEF end
  <2>9. At(b, x + l) # 0
    BY <2>4, <2>7
  <2>10. w[l] = w[l + n + 2]
    BY <1>5, <2>6, <2>7, <2>8, <2>9, Zenon
  <2>11. w[l] = end
    BY <2>2, <2>5, <2>8, <2>10, Zenon
  <2>12. l <= end
    BY <1>3, <2>6, <2>8
  <2> QED  BY <2>1, <2>11, <2>12, Zenon DEF l
<1> HIDE DEF S
<1>8. Nat \subseteq S
  BY <1>6, <1>7, SetInduction
<1>9. N \in S /\ N <= N /\ N - N = 0
  BY <1>1, <1>8
<1>10. w[at[0]] = end
  BY <1>9, Zenon DEF S
<1> QED  BY <1>2, <1>10, Zenon DEF w, end

\* The text that parseSdesChunk takes from the item at byte l.
TextAt(b, x, len, l) ==
    IF l + 2 + At(b, x + l + 1) > len THEN <<>>
    ELSE [j \in 1 .. At(b, x + l + 1) |-> At(b, x + l + 1 + j)]

FromBody(b, x, len, f) ==
    [l \in 0 .. len + 256 |->
        IF At(b, x + l) = 0 \/ At(b, x + l) >= sdesMax \/ l >= len THEN <<>>
        ELSE Merged(f[l + 2 + At(b, x + l + 1)],
                    Put(<<>>, At(b, x + l), TextAt(b, x, len, l)))]

\* What parseSdesChunk may have found.
Found == {<<>>} \cup UNION {[D -> Seq(Byte)] : D \in SUBSET Nat}

\* What is found from an item on: the item, and what is found behind it.
Behind(m, c, y, text) ==
    /\ DOMAIN m = DOMAIN c \cup {y} /\ m[y] = text
    /\ \A k \in DOMAIN c : m[k] = c[k]
    /\ m = [k \in DOMAIN m |-> m[k]]

\* The loop goes from byte l to the byte behind its item.
Reads(w, b, x, len, l) ==
    w[l] = IF At(b, x + l) = 0 \/ At(b, x + l) >= sdesMax \/ l >= len THEN <<>>
           ELSE Merged(w[l + 2 + At(b, x + l + 1)],
                       Put(<<>>, At(b, x + l), TextAt(b, x, len, l)))

\* parseSdesChunk finds the items that were written.
LEMMA ItemsFound ==
    \A at : \A b \in Seq(Byte) : \A x \in Nat : \A len \in Nat :
    \A items \in Items : \A order \in Orders(DOMAIN items) :
          /\ Sized(DOMAIN items)
          /\ DOMAIN items # {}
          /\ Placed(at, items, order)
          /\ ItemsHeld(b, x, at, items, order)
          /\ ItemsLen(items) < len
          /\ At(b, x + ItemsLen(items)) = 0
          =>
          ItemsFrom(b, x, len)[4] = items
<1>FoundMore. ASSUME NEW c \in Found, NEW type \in Nat, NEW text \in Seq(Byte)
              PROVE  Merged(c, Put(<<>>, type, text)) \in Found
  <2> USE <1>FoundMore
  <2> DEFINE p == Put(<<>>, type, text)
             m == Merged(c, p)
  <2>1. DOMAIN p = {type} /\ p[type] = text
    BY DEF Put
  <2>2. DOMAIN c \in SUBSET Nat /\ \A y \in DOMAIN c : c[y] \in Seq(Byte)
    BY DEF Found
  <2> HIDE DEF p
  <2>3. DOMAIN m = DOMAIN c \cup {type}
        /\ m = [k \in DOMAIN c \cup {type} |-> IF k \in DOMAIN c THEN c[k] ELSE p[k]]
    BY <2>1 DEF Merged
  <2> DEFINE D == DOMAIN c \cup {type}
  <2>4. \A k \in D : (IF k \in DOMAIN c THEN c[k] ELSE p[k]) \in Seq(Byte)
    BY <2>1, <2>2
  <2>5. D \in SUBSET Nat /\ m \in [D -> Seq(Byte)]
    BY <2>2, <2>3, <2>4
  <2> HIDE DEF m, D
  <2>6. m \in Found
    BY <2>5 DEF Found
  <2> QED  BY <2>6 DEF m, p
<1>TextTyped. ASSUME NEW b \in Seq(Byte), NEW x \in Nat, NEW len \in Nat, NEW l \in Nat
              PROVE  TextAt(b, x, len, l) \in Seq(Byte)
  <2> USE <1>TextTyped
  <2> DEFINE n == At(b, x + l + 1)
             f == [j \in 1 .. n |-> At(b, x + l + 1 + j)]
  <2>1. x + l + 1 \in Nat
    OBVIOUS
  <2>2. n \in Nat
    BY <2>1, AtIsByte, ByteValues
  <2> HIDE DEF n
  <2>3. ASSUME NEW j \in 1 .. n PROVE At(b, x + l + 1 + j) \in Byte
    <3>1. x + l + 1 + j \in Nat
      BY <2>2
    <3> QED  BY <3>1, AtIsByte
  <2>4. f \in Seq(Byte)
    BY <2>2, <2>3
  <2>5. <<>> \in Seq(Byte)
    OBVIOUS
  <2> QED  BY <2>4, <2>5, Zenon DEF TextAt, n
\* parseSdesChunk's loop moves on from item to item.
<1>ItemsFromMoves. ASSUME NEW b \in Seq(Byte), NEW x \in Nat, NEW len \in Nat, NEW l \in 0 .. len + 256
                   PROVE  Reads(ItemsFrom(b, x, len), b, x, len, l)
  <2> USE <1>ItemsFromMoves
  <2> DEFINE N == len + 256
             T == {k \in 0 .. N : At(b, x + k) = 0 \/ At(b, x + k) >= sdesMax \/ k >= len}
             a == [k \in 0 .. N |-> <<>>]
             h == [k \in 0 .. N |-> [c \in Found |->
                      Merged(c, Put(<<>>, At(b, x + k), TextAt(b, x, len, k)))]]
             next == [k \in 0 .. N |-> k + 2 + At(b, x + k + 1)]
             w == ItemsFrom(b, x, len)
  <2>1. N \in Nat
    OBVIOUS
  <2>2. ASSUME NEW k \in 0 .. N PROVE next[k] = k + 2 + At(b, x + k + 1)
    BY <2>1, Zenon
  <2>3. ASSUME NEW k \in 0 .. N, k \notin T PROVE next[k] \in k + 1 .. N
    <3>1. x + k + 1 \in Nat /\ k < len
      BY <2>3
    <3>2. At(b, x + k + 1) \in Nat /\ At(b, x + k + 1) < 256
      BY <3>1, AtIsByte, ByteValues
    <3> QED  BY <2>2, <3>1, <3>2
  <2>4. a \in [0 .. N -> Found] /\ h \in [0 .. N -> [Found -> Found]]
    <3>1. <<>> \in Found
      BY DEF Found
    <3>2. ASSUME NEW k \in 0 .. N, NEW c \in Found
          PROVE  Merged(c, Put(<<>>, At(b, x + k), TextAt(b, x, len, k))) \in Found
      <4>1. k \in Nat /\ x + k \in Nat
        BY <2>1
      <4>2. At(b, x + k) \in Nat
        BY <4>1, AtIsByte, ByteValues
      <4>3. TextAt(b, x, len, k) \in Seq(Byte)
        BY <4>1, <1>TextTyped
      <4> QED  BY <4>2, <4>3, <1>FoundMore
    <3> HIDE DEF N
    <3> QED  BY <3>1, <3>2
  <2>5. Moves(N, Found, T, a, h, next)
    <3> HIDE DEF T, a, h, next, N
    <3> QED  BY <2>3, <2>4, Zenon DEF Moves
  <2>6. PICK g : Descends(g, N, Found, T, a, h, next)
    <3> HIDE DEF T, a, h, next, N
    <3> QED  BY <2>1, <2>5, Descent
  <2>7. /\ g \in [0 .. N -> Found]
        /\ \A k \in 0 .. N : g[k] = IF k \in T THEN a[k] ELSE h[k][g[next[k]]]
    BY <2>6, Zenon DEF Descends
  <2>8. g = FromBody(b, x, len, g)
    <3>1. ASSUME NEW k \in 0 .. N
          PROVE  g[k] = IF At(b, x + k) = 0 \/ At(b, x + k) >= sdesMax \/ k >= len
                        THEN <<>>
                        ELSE Merged(g[k + 2 + At(b, x + k + 1)],
                                    Put(<<>>, At(b, x + k), TextAt(b, x, len, k)))
      <4>1. CASE k \in T
        <5>1. At(b, x + k) = 0 \/ At(b, x + k) >= sdesMax \/ k >= len
          BY <4>1
        <5>2. a[k] = <<>>
          BY Zenon
        <5> QED  BY <2>7, <4>1, <5>1, <5>2, Zenon
      <4>2. CASE k \notin T
        <5>1. ~(At(b, x + k) = 0 \/ At(b, x + k) >= sdesMax \/ k >= len)
          BY <4>2
        <5>2. next[k] \in 0 .. N
          BY <2>1, <2>3, <4>2
        <5>3. g[next[k]] \in Found
          BY <2>7, <5>2
        <5>4. h[k][g[next[k]]] =
                  Merged(g[next[k]], Put(<<>>, At(b, x + k), TextAt(b, x, len, k)))
          BY <5>3, Zenon
        <5> QED  BY <2>2, <2>7, <4>2, <5>1, <5>4, Zenon
      <4> QED  BY <4>1, <4>2, Zenon
    <3>2. g = [k \in 0 .. N |-> g[k]]
      BY <2>7
    <3> QED  BY <3>1, <3>2, Zenon DEF FromBody
  <2>9. w = FromBody(b, x, len, w)
    <3>1. w = CHOOSE f : f = FromBody(b, x, len, f)
      BY Zenon DEF ItemsFrom, FromBody, TextAt
    <3> QED  BY <2>8, <3>1, Zenon
  <2> HIDE DEF w
  <2>10. Reads(w, b, x, len, l)
    BY <2>9, Zenon DEF FromBody, Reads
  <2> QED  BY <2>10 DEF w
\* An item that is held is read with its text.
<1>TextReadBack. ASSUME NEW b \in Seq(Byte), NEW x \in Nat, NEW len \in Nat, NEW l \in Nat,
                        NEW text \in Seq(Byte), At(b, x + l + 1) = Len(text),
                        l + 2 + Len(text) <= len,
                        \A j \in 1 .. Len(text) : At(b, x + l + 1 + j) = text[j]
                 PROVE  TextAt(b, x, len, l) = text
  <2> USE <1>TextReadBack
  <2> DEFINE n == Len(text)
  <2>1. n \in Nat /\ text = [j \in 1 .. n |-> text[j]]
    OBVIOUS
  <2>2. \A j \in 1 .. n : At(b, x + l + 1 + j) = text[j]
    OBVIOUS
  <2>3. At(b, x + l + 1) = n /\ l + 2 + n <= len
    OBVIOUS
  <2> HIDE DEF n
  <2>4. [j \in 1 .. n |-> At(b, x + l + 1 + j)] = text
    BY <2>1, <2>2, Zenon
  <2>5. ~(l + 2 + n > len)
    BY <2>1, <2>3
  <2> QED  BY <2>3, <2>4, <2>5, Zenon DEF TextAt
<1>FoundBehind. ASSUME NEW c, NEW y, NEW text, NEW m, m = Merged(c, Put(<<>>, y, text)),
                       y \notin DOMAIN c
                PROVE  Behind(m, c, y, text)
  <2> USE <1>FoundBehind
  <2> DEFINE p == Put(<<>>, y, text)
  <2>1. DOMAIN p = {y} /\ p[y] = text
    BY DEF Put
  <2> HIDE DEF p
  <2>2. m = Merged(c, p)
    BY DEF p
  <2>3. m = [k \in DOMAIN c \cup DOMAIN p |-> IF k \in DOMAIN c THEN c[k] ELSE p[k]]
    BY <2>2, Zenon DEF Merged
  <2>4. DOMAIN m = DOMAIN c \cup {y}
    BY <2>1, <2>3
  <2>5. \A k \in DOMAIN c \cup {y} : m[k] = IF k \in DOMAIN c THEN c[k] ELSE p[k]
    BY <2>1, <2>3
  <2>6. m = [k \in DOMAIN m |-> m[k]]
    BY <2>3, <2>4, <2>5, Zenon
  <2> QED  BY <2>1, <2>4, <2>5, <2>6, Zenon DEF Behind
<1> SUFFICES ASSUME NEW b \in Seq(Byte), NEW x \in Nat, NEW len \in Nat,
                    NEW items \in Items, NEW order \in Orders(DOMAIN items),
                    Sized(DOMAIN items), DOMAIN items # {},
                    NEW at, Placed(at, items, order), ItemsHeld(b, x, at, items, order),
                    ItemsLen(items) < len, At(b, x + ItemsLen(items)) = 0
             PROVE  ItemsFrom(b, x, len)[4] = items
  OBVIOUS
<1> DEFINE N == Len(order)
           w == ItemsFrom(b, x, len)
           end == ItemsLen(items)
           D(m) == {order[j] : j \in N - m + 1 .. N}
<1>1. /\ N \in Nat /\ \A k \in 1 .. N : order[k] \in DOMAIN items
      /\ \A j, k \in 1 .. N : order[j] = order[k] => j = k
  BY OrderTyped
<1>1a. \A y \in DOMAIN items : \E k \in 1 .. N : order[k] = y
  BY OrderTyped
<1>2. /\ at \in [0 .. N -> Nat] /\ at[0] = 4 /\ at[N] = end
      /\ \A k \in 1 .. N : at[k] = at[k - 1] + (2 + Len(items[order[k]]))
  BY Zenon DEF Placed
<1>3. end \in Nat /\ end < len /\ At(b, x + end) = 0
  BY ItemsLenIsSum
<1>4. \A k \in 1 .. N : /\ At(b, x + at[k - 1]) = order[k]
                        /\ At(b, x + at[k - 1] + 1) = Len(items[order[k]])
                        /\ \A j \in 1 .. Len(items[order[k]]) :
                              At(b, x + at[k - 1] + 1 + j) = items[order[k]][j]
  BY Zenon DEF ItemsHeld
<1>5. ASSUME NEW l \in Nat, l <= len
      PROVE  w[l] = IF At(b, x + l) = 0 \/ At(b, x + l) >= sdesMax \/ l >= len
                    THEN <<>>
                    ELSE Merged(w[l + 2 + At(b, x + l + 1)],
                                Put(<<>>, At(b, x + l), TextAt(b, x, len, l)))
  <2>1. l \in 0 .. len + 256
    BY <1>5
  <2>2. Reads(w, b, x, len, l)
    BY <2>1, <1>ItemsFromMoves, Zenon
  <2> QED  BY <2>2, Zenon DEF Reads
<1> HIDE DEF N, w, end
<1> DEFINE Rest(f, m) ==
               /\ DOMAIN f = D(m) /\ \A y \in D(m) : f[y] = items[y]
               /\ m > 0 => f = [y \in DOMAIN f |-> f[y]]
           S == {m \in Nat : m <= N => Rest(w[at[N - m]], m) /\ at[N - m] <= end}
<1>6. 0 \in S
  <2>1. end <= len
    BY <1>3
  <2>2. w[end] = <<>>
    BY <1>3, <1>5, <2>1, Zenon
  <2>3. D(0) = {}
    BY <1>1
  <2>4. DOMAIN <<>> = {}
    OBVIOUS
  <2>5. ~(0 > 0) /\ at[N - 0] = end /\ end <= end
    BY <1>1, <1>2, <1>3
  <2> HIDE DEF D
  <2>6. Rest(w[at[N - 0]], 0)
    BY <2>2, <2>3, <2>4, <2>5
  <2> HIDE DEF Rest
  <2> QED  BY <2>5, <2>6
<1>7. ASSUME NEW m \in Nat, m \in S PROVE m + 1 \in S
  <2> SUFFICES ASSUME m + 1 <= N
               PROVE  Rest(w[at[N - (m + 1)]], m + 1) /\ at[N - (m + 1)] <= end
    OBVIOUS
  <2>1. PICK k \in 1 .. N : k = N - m /\ k - 1 = N - (m + 1) /\ m <= N
    BY <1>1
  <2>2. Rest(w[at[k]], m) /\ at[k] <= end
    <3> HIDE DEF Rest
    <3> QED  BY <1>7, <2>1
  <2>3. PICK y \in DOMAIN items : y = order[k]
    BY <1>1
  <2>4. D(m + 1) = D(m) \cup {y} /\ y \notin D(m)
    <3>1. N - (m + 1) + 1 = k /\ N - m + 1 = k + 1
      BY <1>1, <2>1
    <3>2. \A j : j \in k .. N <=> j = k \/ j \in k + 1 .. N
      BY <1>1
    <3>3. \A j \in k + 1 .. N : j \in 1 .. N /\ j # k
      BY <1>1
    <3>4. \A j \in k + 1 .. N : order[j] # order[k]
      BY <1>1, <3>3, Zenon
    <3> QED  BY <2>3, <3>1, <3>2, <3>4
  <2> DEFINE l == at[k - 1]
             text == items[y]
             n == Len(text)
             c == w[at[k]]
  <2>5. y \in 1 .. 9 /\ text \in Seq(Byte) /\ n \in Nat
    BY ItemTyped
  <2>6. at[k] = l + (2 + n)
    BY <1>2, <2>3, Zenon
  <2>7. l \in Nat
    BY <1>1, <1>2
  <2>8. /\ At(b, x + l) = y /\ At(b, x + l + 1) = n
        /\ \A j \in 1 .. n : At(b, x + l + 1 + j) = text[j]
    BY <1>4, <2>3, Zenon
  <2> HIDE DEF l, text
  <2>9. l < end /\ l <= len /\ ~(l >= len) /\ l + 2 + n = at[k] /\ l + 2 + n <= len
    <3> HIDE DEF n
    <3> QED  BY <1>3, <2>2, <2>5, <2>6, <2>7
  <2>10. y # 0 /\ ~(y >= sdesMax)
    BY <2>5 DEF sdesMax
  <2>11. TextAt(b, x, len, l) = text
    BY <2>5, <2>7, <2>8, <2>9, <1>TextReadBack
  <2>12. w[l] = Merged(c, Put(<<>>, y, text))
    <3> HIDE DEF n
    <3> QED  BY <1>5, <2>7, <2>8, <2>9, <2>10, <2>11, Zenon
  <2>13. DOMAIN c = D(m) /\ \A z \in D(m) : c[z] = items[z]
    BY <2>2
  <2> HIDE DEF c, D
  <2>14. /\ DOMAIN w[l] = D(m) \cup {y} /\ w[l][y] = text
         /\ \A z \in D(m) : w[l][z] = c[z]
         /\ w[l] = [z \in DOMAIN w[l] |-> w[l][z]]
    <3> DEFINE f == w[l]
    <3> HIDE DEF f
    <3>1. f = Merged(c, Put(<<>>, y, text)) /\ y \notin DOMAIN c
      BY <2>4, <2>12, <2>13 DEF f
    <3>2. Behind(f, c, y, text)
      BY <3>1, <1>FoundBehind, Zenon
    <3> QED  BY <2>13, <3>2, Zenon DEF f, Behind
  <2>15. Rest(w[l], m + 1)
    BY <2>4, <2>13, <2>14, Zenon DEF text
  <2>16. l <= end
    BY <1>3, <2>7, <2>9
  <2> QED  BY <2>1, <2>15, <2>16, Zenon DEF l
<1> HIDE DEF S
<1>8. Nat \subseteq S
  BY <1>6, <1>7, SetInduction
<1>9. N \in S /\ N <= N /\ N - N = 0
  BY <1>1, <1>8
<1>10. Rest(w[4], N)
  <2> HIDE DEF Rest
  <2> QED  BY <1>2, <1>9, Zenon DEF S
<1>11. D(N) = DOMAIN items
  <2>1. N - N + 1 = 1
    BY <1>1
  <2>2. D(N) = {order[j] : j \in 1 .. N}
    BY <2>1, Zenon
  <2> HIDE DEF D
  <2>3. ASSUME NEW y \in DOMAIN items PROVE y \in D(N)
    <3>1. PICK k \in 1 .. N : order[k] = y
      BY <1>1a, Zenon
    <3> QED  BY <2>2, <3>1
  <2>4. ASSUME NEW y \in D(N) PROVE y \in DOMAIN items
    <3>1. PICK k \in 1 .. N : order[k] = y
      BY <2>2
    <3> QED  BY <1>1, <3>1, Zenon
  <2> QED  BY <2>3, <2>4, Zenon
<1>12. N > 0
  BY <1>1, <1>1a
<1> HIDE DEF D
<1>13. w[4] = [y \in DOMAIN items |-> w[4][y]] /\ \A y \in DOMAIN items : w[4][y] = items[y]
  BY <1>10, <1>11, <1>12
<1>14. items = [y \in DOMAIN items |-> items[y]]
  BY ItemsTyped
<1> QED  BY <1>13, <1>14, Zenon DEF w

-----------------------------------------------------------------------------
\* The SDES packet.

\* The bytes of makeSdesChunk, and the lengths it works with.
Chunk(o, items, order) ==
    ItemsWritten(o, items, order)[Len(order)]
    \o Repeat(0, ChunkLen(items) - Len(ItemsWritten(o, items, order)[Len(order)]))

\* The chunk length is a multiple of 4 that leaves room for at least one end byte.
LEMMA ChunkLenValue ==
    ASSUME NEW items \in Items
    PROVE  /\ ItemsLen(items) \in Nat /\ ChunkLen(items) \in Nat
           /\ ItemsLen(items) < ChunkLen(items) /\ ChunkLen(items) <= ItemsLen(items) + 4
           /\ ChunkLen(items) % 4 = 0 /\ ChunkLen(items) >= 8
           /\ ((ItemsLen(items) + 4) \div 4) * 4 = ChunkLen(items)
<1> DEFINE n == ItemsLen(items)
<1>1. n \in Nat /\ n >= 4
  BY ItemsLenIsSum, SizeTyped DEF Sum
<1>2. ChunkLen(items) = (((n + 1) + 3) \div 4) * 4
  BY Zenon DEF ChunkLen, RoundUp
<1> HIDE DEF n
<1>3. (n + 1) + 3 = n + 4
  BY <1>1
<1> DEFINE q == (n + 4) \div 4
<1>4. q \in Nat /\ 4 * q <= n + 4 /\ n + 4 < 4 * q + 4
  BY <1>1
<1>5. ChunkLen(items) = q * 4
  BY <1>2, <1>3, Zenon
<1> HIDE DEF q
<1>6. q * 4 \in Nat /\ n < q * 4 /\ q * 4 <= n + 4 /\ (q * 4) % 4 = 0 /\ q * 4 >= 8
  BY <1>1, <1>4
<1> QED  BY <1>1, <1>5, <1>6 DEF n, q

\* Padding.
LEMMA RepeatBytes ==
    ASSUME NEW x \in Byte, NEW n \in Nat
    PROVE  Bytes(Repeat(x, n), n) /\ \A j \in 1 .. n : Repeat(x, n)[j] = x
<1> DEFINE r == [i \in 1 .. n |-> x]
<1>1. r \in Seq(Byte) /\ Len(r) = n /\ \A j \in 1 .. n : r[j] = x
  OBVIOUS
<1> QED  BY <1>1, Zenon DEF Repeat, Bytes

\* The items take ItemsLen bytes and the chunk ChunkLen bytes.
LEMMA ChunkBytes ==
    ASSUME NEW o \in Uint32s, NEW items \in Items, NEW order \in Orders(DOMAIN items),
           Sized(DOMAIN items)
    PROVE  /\ Bytes(ItemsWritten(o, items, order)[Len(order)], ItemsLen(items))
           /\ Bytes(Chunk(o, items, order), ChunkLen(items))
<1> DEFINE N == Len(order)
           said == ItemsWritten(o, items, order)[N]
           n == ItemsLen(items)
           len == ChunkLen(items)
           at == [k \in 0 .. N |-> Len(ItemsWritten(o, items, order)[k])]
<1>1. N \in Nat /\ N \in 0 .. N
  BY OrderTyped
<1>2. said \in Seq(Byte)
  BY <1>1, ItemsAreWritten, Zenon
<1>3. Placed(at, items, order)
  BY WrittenPlaces, Zenon
<1>4. at[N] = n
  BY <1>3, Zenon DEF Placed
<1>5. at[N] = Len(said)
  BY <1>1, Zenon
<1>6. Bytes(said, n)
  BY <1>2, <1>4, <1>5, Zenon DEF Bytes
<1>7. n \in Nat /\ len \in Nat /\ n < len
  BY ChunkLenValue
<1>8. Chunk(o, items, order) = said \o Repeat(0, len - n)
  BY <1>4, <1>5, Zenon DEF Chunk
<1> HIDE DEF said, n, len
<1>9. len - n \in Nat /\ n + (len - n) = len /\ 0 \in Byte
  BY <1>7, ByteValues
<1>10. Bytes(Repeat(0, len - n), len - n)
  BY <1>9, RepeatBytes, Zenon
<1>11. Bytes(said \o Repeat(0, len - n), n + (len - n))
  BY <1>6, <1>7, <1>9, <1>10, Concatenated, Zenon
<1> QED  BY <1>6, <1>8, <1>9, <1>11, Zenon DEF said, n, len

\* A chunk that is held is read: its SSRC, its length and its items.
LEMMA ChunkReadBack ==
    ASSUME NEW o \in Uint32s, NEW items \in Items, NEW order \in Orders(DOMAIN items),
           Sized(DOMAIN items), DOMAIN items # {},
           NEW b \in Seq(Byte), NEW x \in Nat, Holds(b, x, Chunk(o, items, order))
    PROVE  /\ Uint32(b, x) = o
           /\ chunkLen(b, x, ChunkLen(items)) = ChunkLen(items)
           /\ parseSdesChunk(b, x, ChunkLen(items)) = items
<1> DEFINE N == Len(order)
           said == ItemsWritten(o, items, order)[N]
           n == ItemsLen(items)
           len == ChunkLen(items)
           at == [k \in 0 .. N |-> Len(ItemsWritten(o, items, order)[k])]
           pad == Repeat(0, len - n)
<1>1. /\ n \in Nat /\ len \in Nat /\ n < len /\ len >= 8
      /\ ((n + 4) \div 4) * 4 = len
  BY ChunkLenValue
<1>2. Bytes(said, n)
  BY ChunkBytes, Zenon
<1>3. Chunk(o, items, order) = said \o pad
  BY <1>2, Zenon DEF Chunk, Bytes
<1>4. Placed(at, items, order)
  BY WrittenPlaces, Zenon
<1> HIDE DEF len, n
<1>5. len - n \in Nat /\ 0 \in Byte /\ 1 \in 1 .. len - n
  BY <1>1, ByteValues
<1>6. Bytes(pad, len - n) /\ pad[1] = 0
  BY <1>5, RepeatBytes, Zenon
<1> HIDE DEF pad
<1>7. Holds(b, x, said) /\ Holds(b, x + n, pad)
  <2> HIDE DEF said
  <2>1. Holds(b, x, said \o pad)
    BY <1>3, Zenon
  <2> QED  BY <1>1, <1>2, <1>5, <1>6, <2>1, HoldsParts, Zenon
<1>8. Uint32(b, x) = o /\ ItemsHeld(b, x, at, items, order)
  BY <1>7, WrittenHeld
<1> HIDE DEF said, at
<1>9. At(b, x + n) = 0
  <2>1. x + n \in Nat
    BY <1>1
  <2> QED  BY <1>5, <1>6, <1>7, <2>1, HeldByte
<1>10. ItemsEnd(b, x, len)[4] = n
  BY <1>1, <1>4, <1>8, <1>9, ItemsEndFound DEF n
<1>11. ItemsFrom(b, x, len)[4] = items
  BY <1>1, <1>4, <1>8, <1>9, ItemsFound DEF n
<1>12. chunkLen(b, x, len) = len
  <2>1. ~(n >= len \/ (n = 4 /\ len < 8))
    BY <1>1
  <2> QED  BY <1>1, <1>10, <2>1, Zenon DEF chunkLen
<1>13. parseSdesChunk(b, x, len) = items
  BY <1>11, Zenon DEF parseSdesChunk
<1> QED  BY <1>8, <1>12, <1>13, Zenon DEF len

\* The loop over the chunks of a packet with one chunk.
ChunksBody(b, o, len, n, f) ==
    [k \in 0 .. n |->
        IF k = 0 THEN [at |-> o, left |-> len, chunks |-> <<>>]
        ELSE LET s == f[k - 1]
                 l == chunkLen(b, s.at, s.left)
             IN  IF s.at + s.left > BufferLen \/ l = -1 THEN s
                 ELSE [at |-> s.at + l, left |-> s.left - l,
                       chunks |-> Append(s.chunks,
                           [ssrc |-> Uint32(b, s.at),
                            items |-> parseSdesChunk(b, s.at, s.left)])]]

\* The SDES packet of a stream is a part.
SdesRecord(o, items) ==
    [type |-> RtcpSdes, chunks |-> <<[ssrc |-> o, items |-> items]>>]

\* It is read as one chunk with the items that were set.
LEMMA SdesPart ==
    \A o \in Uint32s : \A items \in Items : \A order \in Orders(DOMAIN items) :
          /\ Sized(DOMAIN items)
          /\ DOMAIN items # {}
          =>
          /\ Bytes(Header(RtcpSdes, 1, 4 + ChunkLen(items)) \o Chunk(o, items, order),
                   4 + ChunkLen(items))
          /\ Part(Header(RtcpSdes, 1, 4 + ChunkLen(items)) \o Chunk(o, items, order),
                  SdesRecord(o, items))
<1>OneChunk. ASSUME NEW b \in Seq(Byte), NEW o \in Nat, NEW len \in Nat, o + len <= BufferLen,
                    chunkLen(b, o, len) = len
             PROVE  SdesChunks(b, o, len, 1) =
                        <<[ssrc |-> Uint32(b, o), items |-> parseSdesChunk(b, o, len)]>>
  <2> USE <1>OneChunk
  <2> DEFINE s0 == [at |-> o, left |-> len, chunks |-> <<>>]
             chunk == [ssrc |-> Uint32(b, o), items |-> parseSdesChunk(b, o, len)]
             s1 == [at |-> o + len, left |-> len - len, chunks |-> Append(<<>>, chunk)]
             Step(s) == LET l == chunkLen(b, s.at, s.left)
                        IN  IF s.at + s.left > BufferLen \/ l = -1 THEN s
                            ELSE [at |-> s.at + l, left |-> s.left - l,
                                  chunks |-> Append(s.chunks,
                                      [ssrc |-> Uint32(b, s.at),
                                       items |-> parseSdesChunk(b, s.at, s.left)])]
             g == [k \in 0 .. 1 |-> IF k = 0 THEN s0 ELSE s1]
             w == CHOOSE f : f = ChunksBody(b, o, len, 1, f)
  <2>1. s0.at = o /\ s0.left = len /\ s0.chunks = <<>> /\ s1.chunks = Append(<<>>, chunk)
    OBVIOUS
  <2>2. ~(o + len > BufferLen \/ len = -1)
    BY Buffer
  <2>3. Step(s0) = s1
    <3> HIDE DEF s0
    <3> QED  BY <2>1, <2>2, Zenon
  <2>4. SdesChunks(b, o, len, 1) = w[1].chunks
    BY Zenon DEF SdesChunks, ChunksBody
  <2>5. \A f : ChunksBody(b, o, len, 1, f) =
                 [k \in 0 .. 1 |-> IF k = 0 THEN s0 ELSE Step(f[k - 1])]
    BY Zenon DEF ChunksBody
  <2> HIDE DEF s0, s1, Step
  <2>6. g = ChunksBody(b, o, len, 1, g)
    <3>1. ASSUME NEW k \in 0 .. 1
          PROVE  (IF k = 0 THEN s0 ELSE s1) = (IF k = 0 THEN s0 ELSE Step(g[k - 1]))
      <4>1. CASE k = 0
        BY <4>1, Zenon
      <4>2. CASE k # 0
        <5>1. k - 1 = 0 /\ 0 \in 0 .. 1
          BY <4>2
        <5>2. g[k - 1] = s0
          BY <5>1
        <5> QED  BY <2>3, <4>2, <5>2, Zenon
      <4> QED  BY <4>1, <4>2, Zenon
    <3> QED  BY <2>5, <3>1, Zenon
  <2> HIDE DEF g
  <2>7. w = ChunksBody(b, o, len, 1, w)
    BY <2>6, Zenon
  <2> HIDE DEF w
  <2>8. \A k \in 0 .. 1 : w[k] = IF k = 0 THEN s0 ELSE Step(w[k - 1])
    BY <2>5, <2>7, Zenon
  <2>9. w[0] = s0 /\ w[1] = Step(w[0])
    BY <2>8
  <2>10. w[1].chunks = Append(<<>>, chunk)
    BY <2>1, <2>3, <2>9, Zenon
  <2> HIDE DEF chunk
  <2>11. Append(<<>>, chunk) = <<chunk>>
    OBVIOUS
  <2> QED  BY <2>4, <2>10, <2>11, Zenon DEF chunk
<1> SUFFICES ASSUME NEW o \in Uint32s, NEW items \in Items, NEW order \in Orders(DOMAIN items),
                    Sized(DOMAIN items), DOMAIN items # {}
             PROVE  /\ Bytes(Header(RtcpSdes, 1, 4 + ChunkLen(items)) \o Chunk(o, items, order),
                             4 + ChunkLen(items))
                    /\ Part(Header(RtcpSdes, 1, 4 + ChunkLen(items)) \o Chunk(o, items, order),
                            SdesRecord(o, items))
  BY Zenon
<1> DEFINE cl == ChunkLen(items)
           len == 4 + cl
           head == Header(RtcpSdes, 1, len)
           q == Chunk(o, items, order)
           m == SdesRecord(o, items)
<1>1. cl \in Nat /\ cl % 4 = 0 /\ cl >= 8
  BY ChunkLenValue
<1>2. Bytes(q, cl)
  BY ChunkBytes, Zenon
<1>3. ASSUME NEW b \in Seq(Byte), NEW x \in Nat, Holds(b, x, q)
      PROVE  Uint32(b, x) = o /\ chunkLen(b, x, cl) = cl /\ parseSdesChunk(b, x, cl) = items
  BY <1>3, ChunkReadBack
<1> HIDE DEF cl, q
<1>4. /\ len \in Nat /\ len % 4 = 0 /\ len >= 4 /\ RtcpSdes \in Byte
      /\ 4 \in Nat /\ 1 \in Nat /\ 1 < 32
  BY <1>1, ByteValues DEF RtcpSdes
<1>5. Bytes(head, 4)
  <2> HIDE DEF len
  <2> QED  BY <1>4, HeaderBytes
<1>6. Bytes(head \o q, len)
  <2> HIDE DEF head
  <2> QED  BY <1>1, <1>2, <1>4, <1>5, Concatenated, Zenon
<1>7. ASSUME NEW b \in Seq(Byte), NEW x \in Nat, Holds(b, x, head \o q),
             Len(b) <= BufferLen
      PROVE  /\ PktLen(b, x) = len /\ At(b, x + 1) \in RtcpSR .. RtcpXr
             /\ Agrees(Packet(b, x, len), m)
  <2>1. x + Len(head \o q) <= Len(b) /\ Len(head \o q) = len
    BY <1>6, <1>7, Zenon DEF Holds, Bytes
  <2>2. len < Two16 /\ (x + 4) + cl <= BufferLen /\ x + 4 \in Nat /\ len - 4 = cl
    BY <1>1, <1>4, <1>7, <2>1, Buffer
  <2>3. Holds(b, x, head) /\ Holds(b, x + 4, q)
    <3> HIDE DEF head
    <3> QED  BY <1>1, <1>2, <1>4, <1>5, <1>7, HoldsParts, Zenon
  <2>4. At(b, x) % 32 = 1 /\ At(b, x + 1) = RtcpSdes /\ PktLen(b, x) = len
    <3> HIDE DEF len
    <3> QED  BY <1>4, <2>2, <2>3, HeaderReadBack
  <2>5. /\ Uint32(b, x + 4) = o /\ chunkLen(b, x + 4, cl) = cl
        /\ parseSdesChunk(b, x + 4, cl) = items
    BY <1>3, <2>2, <2>3, Zenon
  <2>6. SdesChunks(b, x + 4, cl, 1) = <<[ssrc |-> o, items |-> items]>>
    <3>1. SdesChunks(b, x + 4, cl, 1) =
              <<[ssrc |-> Uint32(b, x + 4), items |-> parseSdesChunk(b, x + 4, cl)]>>
      BY <1>1, <2>2, <2>5, <1>OneChunk
    <3> QED  BY <2>5, <3>1, Zenon
  <2>7. Packet(b, x, len) = m
    <3>1. Packet(b, x, len) = SdesAt(b, x, len)
      BY <2>4, PacketCases
    <3> QED  BY <2>2, <2>4, <2>6, <3>1, Zenon DEF SdesAt, SdesRecord
  <2>8. Agrees(m, m)
    <3>1. m.type = RtcpSdes
      BY DEF SdesRecord
    <3>2. m.type \notin {RtcpSR, RtcpRR}
      BY <3>1 DEF RtcpSdes, RtcpSR, RtcpRR
    <3> QED  BY <3>2, OtherAgrees, Zenon
  <2>9. At(b, x + 1) \in RtcpSR .. RtcpXr
    BY <2>4 DEF RtcpSdes, RtcpSR, RtcpXr
  <2> QED  BY <2>4, <2>7, <2>8, <2>9, Zenon
<1> HIDE DEF m, head
<1>8. Part(head \o q, m)
  <2> HIDE DEF len
  <2> QED  BY <1>4, <1>6, <1>7, Zenon DEF Part
<1> QED  BY <1>6, <1>8, Zenon DEF head, q, m, cl

-----------------------------------------------------------------------------
\* The BYE packet.

\* The bytes behind the SSRC, of a text of n bytes.
ByeText == (<<Len(Reason) % 256>> \o Reason)
           \o Repeat(Stale, RoundUp(Len(Reason) + 1) - Len(Reason) - 1)

\* A text that its length byte can tell.
ShortReason == Len(Reason) < 256

\* How many bytes of a BYE follow the SSRC.
ReasonLen == IF Reason = <<>> THEN 0 ELSE RoundUp(Len(Reason) + 1)

\* The text with its length byte is filled up to a multiple of 4.
LEMMA ReasonLenValue ==
    /\ Reason \in Seq(Byte) /\ Len(Reason) \in Nat /\ Stale \in Byte
    /\ ReasonLen \in Nat /\ ReasonLen % 4 = 0 /\ ReasonLen <= Len(Reason) + 4
    /\ Reason # <<>> =>
          /\ Len(Reason) + 1 <= ReasonLen
          /\ RoundUp(Len(Reason) + 1) - Len(Reason) - 1 = ReasonLen - (Len(Reason) + 1)
<1> DEFINE n == Len(Reason)
           r == RoundUp(n + 1)
<1>1. Reason \in Seq(Byte) /\ n \in Nat /\ Stale \in Byte
  BY RtcpPacketAssumption DEF Byte
<1> HIDE DEF n
<1>2. r = (((n + 1) + 3) \div 4) * 4
  BY DEF RoundUp
<1>3. r \in Nat /\ r % 4 = 0 /\ n + 1 <= r /\ r <= n + 4 /\ r - n - 1 = r - (n + 1)
  BY <1>1, <1>2
<1> HIDE DEF r
<1>4. ReasonLen = IF Reason = <<>> THEN 0 ELSE r
  BY DEF ReasonLen, n, r
<1> QED  BY <1>1, <1>3, <1>4 DEF n, r

\* The length byte and the text are where getReason looks for them.
LEMMA ByeTextReadBack ==
    ASSUME ShortReason, Reason # <<>>
    PROVE  /\ Bytes(ByeText, ReasonLen)
           /\ \A b \in Seq(Byte), x \in Nat : Holds(b, x, ByeText) =>
                 /\ At(b, x) = Len(Reason)
                 /\ \A k \in 1 .. Len(Reason) : At(b, x + k) = Reason[k]
<1> DEFINE n == Len(Reason)
           c == <<n % 256>>
           p == c \o Reason
           pad == Repeat(Stale, ReasonLen - (n + 1))
<1>1. /\ Reason \in Seq(Byte) /\ n \in Nat /\ Stale \in Byte /\ ReasonLen \in Nat
      /\ n + 1 <= ReasonLen /\ n < 256
      /\ RoundUp(n + 1) - n - 1 = ReasonLen - (n + 1)
  BY ReasonLenValue DEF ShortReason
<1>2. ByeText = p \o pad
  BY <1>1, Zenon DEF ByeText
<1>3. Bytes(Reason, n)
  BY <1>1, Zenon DEF Bytes
<1> HIDE DEF n
<1>4. n % 256 = n /\ n \in Byte
  BY <1>1, ByteValues
<1>5. Bytes(c, 1) /\ c[1] = n
  BY <1>4, ByteBytes
<1> HIDE DEF c
<1>6. /\ ReasonLen - (n + 1) \in Nat /\ (n + 1) + (ReasonLen - (n + 1)) = ReasonLen
      /\ 1 \in Nat /\ 1 + n = n + 1 /\ n + 1 \in Nat
  BY <1>1
<1>7. Bytes(p, n + 1)
  BY <1>1, <1>3, <1>5, <1>6, Concatenated, Zenon
<1> HIDE DEF p
<1>8. Bytes(pad, ReasonLen - (n + 1))
  BY <1>1, <1>6, RepeatBytes, Zenon
<1> HIDE DEF pad
<1>9. Bytes(p \o pad, ReasonLen)
  BY <1>6, <1>7, <1>8, Concatenated, Zenon
<1>10. ASSUME NEW b \in Seq(Byte), NEW x \in Nat, Holds(b, x, p \o pad)
       PROVE  At(b, x) = n /\ \A k \in 1 .. n : At(b, x + k) = Reason[k]
  <2>1. Holds(b, x, p)
    BY <1>6, <1>7, <1>8, <1>10, HoldsParts, Zenon
  <2>2. Holds(b, x, c) /\ Holds(b, x + 1, Reason)
    BY <1>1, <1>3, <1>5, <1>6, <2>1, HoldsParts, Zenon DEF p
  <2>3. At(b, x) = n
    <3>1. 1 \in 1 .. 1
      OBVIOUS
    <3> QED  BY <1>5, <1>6, <2>2, <3>1, HeldByte
  <2>4. ASSUME NEW k \in 1 .. n PROVE At(b, x + k) = Reason[k]
    <3>1. n \in Nat /\ x + k \in Nat /\ (x + k) + 1 = (x + 1) + k /\ x + 1 \in Nat
      BY <1>1
    <3> QED  BY <1>3, <2>2, <3>1, HeldByte
  <2> QED  BY <2>3, <2>4
<1> QED  BY <1>2, <1>9, <1>10, Zenon DEF n

\* makeByeData writes the SSRC and, if there is one, the text.
LEMMA ByeDataBytes ==
    ASSUME ShortReason, NEW o \in Uint32s
    PROVE  /\ Bytes(ByeData(o), 4 + ReasonLen)
           /\ Reason = <<>> => ByeData(o) = PutUint32(o)
           /\ Reason # <<>> => ByeData(o) = PutUint32(o) \o ByeText
<1> DEFINE p == PutUint32(o)
<1>1. Bytes(p, 4) /\ 4 \in Nat /\ 4 + 0 = 4 /\ p \in Seq(Byte)
  BY Uint32Bytes DEF Uint32s, Bytes
<1>2. CASE Reason = <<>>
  <2>1. ByeData(o) = p \o <<>>
    BY <1>2, Zenon DEF ByeData
  <2>2. p \o <<>> = p
    <3> HIDE DEF p
    <3> QED  BY <1>1
  <2>3. ReasonLen = 0
    BY <1>2, Zenon DEF ReasonLen
  <2> QED  BY <1>1, <1>2, <2>1, <2>2, <2>3, Zenon
<1>3. CASE Reason # <<>>
  <2>1. ByeData(o) = p \o ByeText
    BY <1>3, Zenon DEF ByeData, ByeText
  <2>2. Bytes(ByeText, ReasonLen) /\ ReasonLen \in Nat
    BY <1>3, ByeTextReadBack, ReasonLenValue, Zenon
  <2> HIDE DEF p
  <2>3. Bytes(p \o ByeText, 4 + ReasonLen)
    BY <1>1, <2>2, Concatenated, Zenon
  <2> QED  BY <1>3, <2>1, <2>3, Zenon DEF p
<1> QED  BY <1>2, <1>3, Zenon

\* The BYE of a stream is a part: getReason finds the text, or that there is none.
LEMMA ByePart ==
    \A o \in Uint32s :
          /\ ShortReason
          =>
          Bytes(Bye(o), 8 + ReasonLen) /\ Part(Bye(o), ByeMeans(o))
\* getReason finds the text, or that there is none.
<1>ReasonReadBack. ASSUME ShortReason, NEW o \in Uint32s, NEW b \in Seq(Byte), NEW x \in Nat,
                          Holds(b, x, ByeData(o))
                   PROVE  Uint32(b, x) = o /\ getReason(b, x, 4 + ReasonLen, 1) = Reason
  <2> USE <1>ReasonReadBack
  <2> DEFINE p == PutUint32(o)
             len == 4 + ReasonLen
             n == Len(Reason)
  <2>1. Bytes(p, 4) /\ 4 \in Nat /\ 4 * 1 = 4 /\ o \in Nat /\ Wrap32(o) = o /\ x + 4 \in Nat
    BY Uint32Bytes DEF Uint32s
  <2>2. getReason(b, x, len, 1) =
            IF 4 >= len \/ 4 + 1 + At(b, x + 4) > len THEN <<>>
            ELSE [k \in 1 .. At(b, x + 4) |-> At(b, x + 4 + k)]
    BY <2>1, Zenon DEF getReason
  <2>3. CASE Reason = <<>>
    <3>1. ByeData(o) = p /\ ReasonLen = 0
      BY <2>3, ByeDataBytes, Zenon DEF ReasonLen
    <3>2. Uint32(b, x) = o
      BY <2>1, <3>1, Uint32ReadBack, Zenon
    <3>3. 4 >= len
      BY <3>1
    <3> QED  BY <2>2, <2>3, <3>2, <3>3, Zenon
  <2>4. CASE Reason # <<>>
    <3>1. ByeData(o) = p \o ByeText
      BY <2>4, ByeDataBytes, Zenon
    <3>2. Bytes(ByeText, ReasonLen)
      BY <2>4, ByeTextReadBack, Zenon
    <3>3. ReasonLen \in Nat /\ n \in Nat /\ n + 1 <= ReasonLen /\ Reason \in Seq(Byte)
      BY <2>4, ReasonLenValue
    <3>4. Holds(b, x, p) /\ Holds(b, x + 4, ByeText)
      <4> HIDE DEF p
      <4>1. Holds(b, x, p \o ByeText)
        BY <3>1, Zenon
      <4> QED  BY <2>1, <3>2, <3>3, <4>1, HoldsParts, Zenon
    <3>5. Uint32(b, x) = o
      BY <2>1, <3>4, Uint32ReadBack, Zenon
    <3>6. At(b, x + 4) = n /\ \A k \in 1 .. n : At(b, x + 4 + k) = Reason[k]
      BY <2>1, <2>4, <3>4, ByeTextReadBack
    <3>7. Reason = [k \in 1 .. n |-> Reason[k]]
      BY <3>3
    <3> HIDE DEF n
    <3>8. ~(4 >= len \/ 4 + 1 + n > len)
      BY <3>3
    <3>9. [k \in 1 .. n |-> At(b, x + 4 + k)] = Reason
      BY <3>6, <3>7, Zenon
    <3> QED  BY <2>2, <3>5, <3>6, <3>8, <3>9, Zenon
  <2> QED  BY <2>3, <2>4
<1> SUFFICES ASSUME ShortReason, NEW o \in Uint32s
             PROVE  Bytes(Bye(o), 8 + ReasonLen) /\ Part(Bye(o), ByeMeans(o))
  BY Zenon
<1> DEFINE dl == 4 + ReasonLen
           len == 4 + dl
           head == Header(RtcpBye, 1, len)
           q == ByeData(o)
           m == ByeMeans(o)
<1>1. dl \in Nat /\ dl % 4 = 0
  BY ReasonLenValue
<1>2. Bytes(q, dl)
  BY ByeDataBytes, Zenon
<1>3. ASSUME NEW b \in Seq(Byte), NEW x \in Nat, Holds(b, x, q)
      PROVE  Uint32(b, x) = o /\ getReason(b, x, dl, 1) = Reason
  BY <1>3, <1>ReasonReadBack, Zenon
<1>4. Bye(o) = head \o q
  BY <1>2, Zenon DEF Bye, Bytes
<1>5. 8 + ReasonLen = len
  BY ReasonLenValue
<1> HIDE DEF dl, q
<1>6. /\ len \in Nat /\ len % 4 = 0 /\ len >= 4 /\ RtcpBye \in Byte
      /\ 4 \in Nat /\ 1 \in Nat /\ 1 < 32
  BY <1>1, ByteValues DEF RtcpBye
<1>7. Bytes(head, 4)
  <2> HIDE DEF len
  <2> QED  BY <1>6, HeaderBytes
<1>8. Bytes(head \o q, len)
  <2> HIDE DEF head
  <2> QED  BY <1>1, <1>2, <1>6, <1>7, Concatenated, Zenon
<1>9. ASSUME NEW b \in Seq(Byte), NEW x \in Nat, Holds(b, x, head \o q),
             Len(b) <= BufferLen
      PROVE  /\ PktLen(b, x) = len /\ At(b, x + 1) \in RtcpSR .. RtcpXr
             /\ Agrees(Packet(b, x, len), m)
  <2>1. x + Len(head \o q) <= Len(b) /\ Len(head \o q) = len
    BY <1>8, <1>9, Zenon DEF Holds, Bytes
  <2>2. len < Two16 /\ x + 4 \in Nat /\ len - 4 = dl
    BY <1>1, <1>6, <1>9, <2>1, Buffer
  <2>3. Holds(b, x, head) /\ Holds(b, x + 4, q)
    <3> HIDE DEF head
    <3> QED  BY <1>1, <1>2, <1>6, <1>7, <1>9, HoldsParts, Zenon
  <2>4. At(b, x) % 32 = 1 /\ At(b, x + 1) = RtcpBye /\ PktLen(b, x) = len
    <3> HIDE DEF len
    <3> QED  BY <1>6, <2>2, <2>3, HeaderReadBack
  <2>5. Uint32(b, x + 4) = o /\ getReason(b, x + 4, dl, 1) = Reason
    BY <1>3, <2>2, <2>3, Zenon
  <2>6. Packet(b, x, len) = m
    <3>1. Packet(b, x, len) = ByeAt(b, x, len)
      BY <2>4, PacketCases
    <3> QED  BY <2>2, <2>4, <2>5, <3>1, Zenon DEF ByeAt, ByeMeans
  <2>7. Agrees(m, m)
    <3>1. m.type = RtcpBye
      BY DEF ByeMeans
    <3>2. m.type \notin {RtcpSR, RtcpRR}
      BY <3>1 DEF RtcpBye, RtcpSR, RtcpRR
    <3> QED  BY <3>2, OtherAgrees, Zenon
  <2>8. At(b, x + 1) \in RtcpSR .. RtcpXr
    BY <2>4 DEF RtcpBye, RtcpSR, RtcpXr
  <2> QED  BY <2>4, <2>6, <2>7, <2>8, Zenon
<1> HIDE DEF m, head
<1>10. Part(head \o q, m)
  <2> HIDE DEF len
  <2> QED  BY <1>6, <1>8, <1>9, Zenon DEF Part
<1> QED  BY <1>4, <1>5, <1>8, <1>10, Zenon DEF m


-----------------------------------------------------------------------------
\* The walk over a compound.

\* Where OnRecvCtrl's loop ends or stays, and what it gives where it goes on.
Ended(b, o) ==
    \/ o >= Len(b) \/ o + PktLen(b, o) > BufferLen
    \/ PktLen(b, o) = 0 \/ At(b, o + 1) \notin RtcpSR .. RtcpXr

Ahead(p, rest) == [end |-> rest.end, packets |-> <<p>> \o rest.packets]

WalkBody(b, f) ==
    [o \in 0 .. BufferLen |->
        IF Ended(b, o) THEN [end |-> o, packets |-> <<>>]
        ELSE Ahead(Packet(b, o, PktLen(b, o)), f[o + PktLen(b, o)])]

\* The packets that a walk may find, and what it may give.
Readable(b) == {Packet(b, o, PktLen(b, o)) : o \in Nat}
Walks(b) == [end : Nat, packets : Seq(Readable(b))]

\* The loop of OnRecvCtrl moves on from packet to packet.
LEMMA WalkMoves ==
    \A b \in Seq(Byte) :
        /\ \A o \in 0 .. BufferLen : WalkFrom(b)[o] \in Walks(b)
        /\ \A o \in 0 .. BufferLen : WalkFrom(b)[o] =
               IF Ended(b, o) THEN [end |-> o, packets |-> <<>>]
               ELSE Ahead(Packet(b, o, PktLen(b, o)), WalkFrom(b)[o + PktLen(b, o)])
\* One packet more is such a walk too.
<1>AheadTyped. ASSUME NEW b, NEW p \in Readable(b), NEW w \in Walks(b)
               PROVE  Ahead(p, w) \in Walks(b)
  <2> USE <1>AheadTyped
  <2> DEFINE P == Readable(b)
  <2>1. w.end \in Nat /\ w.packets \in Seq(P)
    BY DEF Walks
  <2> HIDE DEF P
  <2>2. p \in P
    BY DEF P
  <2>3. <<p>> \o w.packets \in Seq(P)
    BY <2>1, <2>2
  <2> DEFINE q == <<p>> \o w.packets
  <2> HIDE DEF q
  <2>4. [end |-> w.end, packets |-> q] \in [end : Nat, packets : Seq(P)]
    BY <2>1, <2>3 DEF q
  <2> QED  BY <2>4, Zenon DEF Ahead, Walks, P, q
\* A packet has a length, whatever is in the buffer.
<1>PktLenTyped. ASSUME NEW b \in Seq(Byte), NEW o \in Nat
                PROVE  PktLen(b, o) \in Nat
  <2> USE <1>PktLenTyped
  <2>1. At(b, o + 2) \in Nat /\ At(b, o + 2 + 1) \in Nat
    BY AtIsByte, ByteValues
  <2>2. Uint16(b, o + 2) \in Nat
    BY <2>1 DEF Uint16
  <2>3. \A n \in Nat : (4 * (n + 1)) % Two16 \in Nat
    BY DEF Two16
  <2> QED  BY <2>2, <2>3 DEF PktLen
<1> SUFFICES ASSUME NEW b \in Seq(Byte)
             PROVE  /\ \A o \in 0 .. BufferLen : WalkFrom(b)[o] \in Walks(b)
                    /\ \A o \in 0 .. BufferLen : WalkFrom(b)[o] =
                           IF Ended(b, o) THEN [end |-> o, packets |-> <<>>]
                           ELSE Ahead(Packet(b, o, PktLen(b, o)), WalkFrom(b)[o + PktLen(b, o)])
  BY Zenon
<1> DEFINE N == BufferLen
           X == Walks(b)
           len(k) == PktLen(b, k)
           T == {k \in 0 .. N : Ended(b, k)}
           a == [k \in 0 .. N |-> [end |-> k, packets |-> <<>>]]
           h == [k \in 0 .. N |-> [c \in X |-> Ahead(Packet(b, k, len(k)), c)]]
           next == [k \in 0 .. N |-> k + len(k)]
           w == WalkFrom(b)
<1>1. N \in Nat
  BY Buffer
<1>2. ASSUME NEW k \in 0 .. N PROVE next[k] = k + len(k) /\ k \in Nat /\ len(k) \in Nat
  BY <1>1, <1>PktLenTyped
<1>3. ASSUME NEW k \in 0 .. N, k \notin T PROVE next[k] \in k + 1 .. N
  <2>1. ~Ended(b, k)
    BY <1>3
  <2>2. ~(k + len(k) > N) /\ len(k) # 0
    BY <2>1, Zenon DEF Ended
  <2>3. k \in Nat /\ len(k) \in Nat /\ next[k] = k + len(k)
    BY <1>2
  <2> DEFINE l == len(k)
             x == next[k]
  <2> HIDE DEF l, x, N
  <2>4. x = k + l /\ l \in Nat /\ k \in Nat /\ ~(k + l > N) /\ l # 0
    BY <2>2, <2>3, Zenon DEF l, x
  <2>5. x \in k + 1 .. N
    BY <1>1, <2>4
  <2> QED  BY <2>5, Zenon DEF x
<1>4. a \in [0 .. N -> X] /\ h \in [0 .. N -> [X -> X]]
  <2>1. ASSUME NEW k \in 0 .. N PROVE [end |-> k, packets |-> <<>>] \in X
    <3>1. <<>> \in Seq(Readable(b)) /\ k \in Nat
      BY <1>1
    <3> QED  BY <3>1 DEF Walks
  <2>2. ASSUME NEW k \in 0 .. N, NEW c \in X PROVE Ahead(Packet(b, k, len(k)), c) \in X
    <3>1. Packet(b, k, len(k)) \in Readable(b)
      BY <1>2, Zenon DEF Readable
    <3> QED  BY <3>1, <1>AheadTyped, Zenon
  <2> HIDE DEF X, N, len
  <2> QED  BY <2>1, <2>2
<1>5. Moves(N, X, T, a, h, next)
  <2> HIDE DEF X, T, a, h, next, N
  <2> QED  BY <1>3, <1>4, Zenon DEF Moves
<1>6. PICK g : Descends(g, N, X, T, a, h, next)
  <2> HIDE DEF X, T, a, h, next, N
  <2> QED  BY <1>1, <1>5, Descent
<1>7. /\ g \in [0 .. N -> X]
      /\ \A k \in 0 .. N : g[k] = IF k \in T THEN a[k] ELSE h[k][g[next[k]]]
  BY <1>6, Zenon DEF Descends
<1>8. g = WalkBody(b, g)
  <2>1. ASSUME NEW k \in 0 .. N
        PROVE  g[k] = IF Ended(b, k) THEN [end |-> k, packets |-> <<>>]
                      ELSE Ahead(Packet(b, k, len(k)), g[k + len(k)])
    <3>1. CASE k \in T
      <4>1. Ended(b, k)
        BY <3>1, Zenon
      <4>2. a[k] = [end |-> k, packets |-> <<>>]
        BY Zenon
      <4> QED  BY <1>7, <3>1, <4>1, <4>2, Zenon
    <3>2. CASE k \notin T
      <4>1. ~Ended(b, k)
        BY <3>2, Zenon
      <4>2. next[k] \in 0 .. N
        <5> HIDE DEF next, T, N
        <5> QED  BY <1>1, <1>3, <3>2
      <4>3. g[next[k]] \in X
        <5> HIDE DEF next, X, N
        <5> QED  BY <1>7, <4>2, Zenon
      <4>4. h[k][g[next[k]]] = Ahead(Packet(b, k, len(k)), g[next[k]])
        BY <4>3, Zenon
      <4> QED  BY <1>2, <1>7, <3>2, <4>1, <4>4, Zenon
    <3> QED  BY <3>1, <3>2, Zenon
  <2>2. g = [k \in 0 .. N |-> g[k]]
    <3> HIDE DEF X, N
    <3> QED  BY <1>7
  <2> QED  BY <2>1, <2>2, Zenon DEF WalkBody
<1>9. w = WalkBody(b, w)
  <2>1. w = CHOOSE f : f = WalkBody(b, f)
    BY Zenon DEF WalkFrom, WalkBody, Ended, Ahead, PktLen
  <2> QED  BY <1>8, <2>1, Zenon

<1> HIDE DEF w
<1>10. ASSUME NEW k \in 0 .. N
       PROVE  w[k] = IF Ended(b, k) THEN [end |-> k, packets |-> <<>>]
                     ELSE Ahead(Packet(b, k, len(k)), w[k + len(k)])
  BY <1>9, Zenon DEF WalkBody
<1> DEFINE S == {m \in Nat : \A o \in 0 .. N : N - o < m => w[o] \in X}
<1>11. 0 \in S
  BY <1>1
<1>12. ASSUME NEW m \in Nat, m \in S PROVE m + 1 \in S
  <2>1. ASSUME NEW o \in 0 .. N, N - o < m + 1 PROVE w[o] \in X
    <3>1. CASE Ended(b, o)
      <4>1. a[o] \in X /\ a[o] = [end |-> o, packets |-> <<>>]
        <5>1. a[o] = [end |-> o, packets |-> <<>>]
          BY Zenon
        <5> HIDE DEF a, X, N
        <5> QED  BY <1>4, <5>1, Zenon
      <4> QED  BY <1>10, <3>1, <4>1, Zenon
    <3>2. CASE ~Ended(b, o)
      <4>1. o \notin T
        BY <3>2
      <4>2. o + len(o) \in o + 1 .. N
        BY <1>2, <1>3, <4>1, Zenon
      <4> DEFINE q == o + len(o)
      <4> HIDE DEF q, N
      <4>3. q \in 0 .. N /\ N - q < m
        BY <1>1, <2>1, <4>2 DEF q
      <4>4. w[q] \in X
        BY <1>12, <4>3, Zenon
      <4>5. Packet(b, o, len(o)) \in Readable(b)
        BY <1>2, Zenon DEF Readable
      <4>6. Ahead(Packet(b, o, len(o)), w[q]) \in X
        BY <4>4, <4>5, <1>AheadTyped, Zenon
      <4> QED  BY <1>10, <3>2, <4>6, Zenon DEF q
    <3> QED  BY <3>1, <3>2
  <2> QED  BY <2>1
<1>13. Nat \subseteq S
  <2> HIDE DEF S
  <2> QED  BY <1>11, <1>12, SetInduction
<1>14. ASSUME NEW o \in 0 .. N PROVE w[o] \in X
  <2>1. N + 1 \in Nat /\ N - o < N + 1
    BY <1>1
  <2>2. N + 1 \in S
    <3> HIDE DEF S, N
    <3> QED  BY <1>13, <2>1, Zenon
  <2> QED  BY <2>1, <2>2, Zenon DEF S
<1> QED  BY <1>10, <1>14, Zenon DEF w

\* Packets that agree, one by one, with what they mean.
AgreeAll(packets, meant) ==
    /\ Len(packets) = Len(meant)
    /\ \A n \in 1 .. Len(meant) : Agrees(packets[n], meant[n])

\* The walk of b goes over the packets behind o and on from there at e.
Passes(b, o, e, meant) ==
    \E packets \in Seq(Readable(b)) :
        /\ AgreeAll(packets, meant)
        /\ WalkFrom(b)[o].end = WalkFrom(b)[e].end
        /\ WalkFrom(b)[o].packets = packets \o WalkFrom(b)[e].packets

\* Wherever the bytes p are in a buffer, the walk passes over them and finds
\* packets that agree with the list meant.
Parts(p, meant) ==
    /\ p \in Seq(Byte) /\ IsSeq(meant)
    /\ \A b \in Seq(Byte), o \in Nat :
          Holds(b, o, p) /\ Len(b) <= BufferLen => Passes(b, o, o + Len(p), meant)


\* A list of what packets mean may be continued.
LEMMA IsSeqConcatenated ==
    ASSUME NEW m, NEW n, IsSeq(m), IsSeq(n)
    PROVE  IsSeq(m \o n) /\ \E S : m \in Seq(S) /\ n \in Seq(S)
<1>1. PICK A : m \in Seq(A)
  BY DEF IsSeq
<1>2. PICK B : n \in Seq(B)
  BY DEF IsSeq
<1> DEFINE S == A \cup B
<1>3. m \in Seq(S) /\ n \in Seq(S)
  BY <1>1, <1>2
<1> HIDE DEF S
<1>4. m \o n \in Seq(S)
  BY <1>3
<1> QED  BY <1>3, <1>4, Zenon DEF IsSeq

\* A list of one.
LEMMA IsSeqOne ==
    ASSUME NEW m
    PROVE  IsSeq(<<m>>) /\ Len(<<m>>) = 1 /\ <<m>>[1] = m
<1>1. <<m>> \in Seq({m}) /\ Len(<<m>>) = 1 /\ <<m>>[1] = m
  OBVIOUS
<1> QED  BY <1>1, Zenon DEF IsSeq

\* Parts may follow one another.
LEMMA PartsConcatenated ==
    \A p, q, m, n :
          /\ Parts(p, m)
          /\ Parts(q, n)
          =>
          Parts(p \o q, m \o n)
\* Lists of packets that agree, one after the other.
<1>AgreeConcatenated. ASSUME NEW A, NEW B, NEW g \in Seq(A), NEW h \in Seq(A), NEW m \in Seq(B),
                             NEW n \in Seq(B), AgreeAll(g, m), AgreeAll(h, n)
                      PROVE  AgreeAll(g \o h, m \o n)
  <2> USE <1>AgreeConcatenated
  <2> DEFINE x == g \o h
             y == m \o n
             i == Len(m)
             j == Len(n)
  <2>1. i \in Nat /\ j \in Nat /\ Len(g) = i /\ Len(h) = j
    BY DEF AgreeAll
  <2>2. /\ Len(x) = i + j /\ Len(y) = i + j
        /\ \A k \in 1 .. i : x[k] = g[k] /\ y[k] = m[k]
        /\ \A k \in i + 1 .. i + j : x[k] = h[k - i] /\ y[k] = n[k - i]
    BY <2>1
  <2>3. /\ \A k \in 1 .. i : Agrees(g[k], m[k])
        /\ \A k \in 1 .. j : Agrees(h[k], n[k])
    BY Zenon DEF AgreeAll
  <2> HIDE DEF x, y, i, j
  <2>4. ASSUME NEW k \in 1 .. i + j PROVE Agrees(x[k], y[k])
    <3>1. CASE k \in 1 .. i
      BY <2>2, <2>3, <3>1, Zenon
    <3>2. CASE k \notin 1 .. i
      <4>1. k \in i + 1 .. i + j /\ k - i \in 1 .. j
        BY <2>1, <3>2
      <4> QED  BY <2>2, <2>3, <4>1, Zenon
    <3> QED  BY <3>1, <3>2
  <2>5. AgreeAll(x, y)
    BY <2>2, <2>4, Zenon DEF AgreeAll
  <2> QED  BY <2>5 DEF x, y
\* What the walk passes in two goes it passes.
<1>PassesOn. ASSUME NEW b \in Seq(Byte), NEW x, NEW y, NEW z, NEW m, NEW n,
                    IsSeq(m), IsSeq(n), Passes(b, x, y, m), Passes(b, y, z, n),
                    WalkFrom(b)[z] \in Walks(b)
             PROVE  Passes(b, x, z, m \o n)
  <2> USE <1>PassesOn
  <2> DEFINE P == Readable(b)
             w == WalkFrom(b)
             r == w[z].packets
  <2>1. PICK g \in Seq(P) :
            AgreeAll(g, m) /\ w[x].end = w[y].end /\ w[x].packets = g \o w[y].packets
    BY Zenon DEF Passes
  <2>2. PICK h \in Seq(P) :
            AgreeAll(h, n) /\ w[y].end = w[z].end /\ w[y].packets = h \o r
    BY Zenon DEF Passes
  <2>3. r \in Seq(P)
    BY DEF Walks
  <2>4. PICK B : m \in Seq(B) /\ n \in Seq(B)
    BY IsSeqConcatenated
  <2> HIDE DEF P, w, r
  <2>5. g \o (h \o r) = (g \o h) \o r
    BY <2>3
  <2>6. g \o h \in Seq(P)
    OBVIOUS
  <2>7. AgreeAll(g \o h, m \o n)
    BY <2>1, <2>2, <2>4, <1>AgreeConcatenated, Zenon
  <2>8. w[x].end = w[z].end /\ w[x].packets = (g \o h) \o r
    BY <2>1, <2>2, <2>5, Zenon
  <2> QED  BY <2>6, <2>7, <2>8, Zenon DEF Passes, P, w, r
<1> SUFFICES ASSUME NEW p, NEW q, NEW m, NEW n, Parts(p, m), Parts(q, n)
             PROVE  Parts(p \o q, m \o n)
  BY Zenon
<1> DEFINE i == Len(p)
           j == Len(q)
           r == p \o q
<1>1. p \in Seq(Byte) /\ q \in Seq(Byte) /\ IsSeq(m) /\ IsSeq(n)
  BY Zenon DEF Parts
<1>2. i \in Nat /\ j \in Nat /\ Bytes(p, i) /\ Bytes(q, j)
  BY <1>1 DEF Bytes
<1>3. Bytes(r, i + j)
  <2> HIDE DEF i, j
  <2> QED  BY <1>2, Concatenated, Zenon
<1>4. ASSUME NEW b \in Seq(Byte), NEW o \in Nat, Holds(b, o, r), Len(b) <= BufferLen
      PROVE  Passes(b, o, o + (i + j), m \o n)
  <2>1. Holds(b, o, p) /\ Holds(b, o + i, q)
    <3> HIDE DEF i, j
    <3> QED  BY <1>2, <1>4, HoldsParts, Zenon
  <2>2. o + i \in Nat /\ (o + i) + j = o + (i + j)
    <3> HIDE DEF i, j
    <3> QED  BY <1>2
  <2>3. Passes(b, o, o + i, m)
    BY <1>4, <2>1, Zenon DEF Parts
  <2>4. Passes(b, o + i, (o + i) + j, n)
    BY <1>4, <2>1, <2>2, Zenon DEF Parts
  <2>5. o + (i + j) \in 0 .. BufferLen
    <3>1. Len(r) = i + j /\ o + Len(r) <= Len(b)
      BY <1>3, <1>4, Zenon DEF Bytes, Holds
    <3> DEFINE l == Len(b)
    <3>2. l \in Nat /\ l <= BufferLen
      BY <1>4
    <3> HIDE DEF i, j, r, l
    <3>3. o + (i + j) <= l
      BY <3>1, Zenon DEF l
    <3> QED  BY <1>2, <3>2, <3>3, Buffer
  <2>6. WalkFrom(b)[o + (i + j)] \in Walks(b)
    BY <2>5, WalkMoves, Zenon
  <2> HIDE DEF i, j
  <2> QED  BY <1>1, <2>2, <2>3, <2>4, <2>6, <1>PassesOn, Zenon
<1>5. IsSeq(m \o n)
  BY <1>1, IsSeqConcatenated
<1>6. r \in Seq(Byte) /\ Len(r) = i + j
  BY <1>3, Zenon DEF Bytes
<1> HIDE DEF r
<1> QED  BY <1>4, <1>5, <1>6, Zenon DEF Parts, r

\* A part is a list of one.
LEMMA OnePart ==
    ASSUME NEW p, NEW m, Part(p, m)
    PROVE  Parts(p, <<m>>)
<1>1. PICK n \in Nat :
          /\ n >= 4 /\ Bytes(p, n)
          /\ \A b \in Seq(Byte), o \in Nat :
                Holds(b, o, p) /\ Len(b) <= BufferLen =>
                    /\ PktLen(b, o) = n /\ At(b, o + 1) \in RtcpSR .. RtcpXr
                    /\ Agrees(Packet(b, o, n), m)
  BY Zenon DEF Part
<1>2. p \in Seq(Byte) /\ Len(p) = n
  BY <1>1, Zenon DEF Bytes
<1>3. ASSUME NEW b \in Seq(Byte), NEW o \in Nat, Holds(b, o, p), Len(b) <= BufferLen
      PROVE  Passes(b, o, o + n, <<m>>)
  <2> DEFINE d == Packet(b, o, n)
             w == WalkFrom(b)
             l == Len(b)
  <2>1. PktLen(b, o) = n /\ At(b, o + 1) \in RtcpSR .. RtcpXr /\ Agrees(d, m)
    BY <1>1, <1>3, Zenon
  <2>2. l \in Nat /\ l <= BufferLen /\ o + n <= l
    BY <1>2, <1>3 DEF Holds
  <2> HIDE DEF l
  <2>3. /\ o \in 0 .. BufferLen /\ o + n \in 0 .. BufferLen
        /\ ~(o >= l) /\ ~(o + n > BufferLen) /\ n # 0
    BY <1>1, <2>2, Buffer
  <2>4. ~Ended(b, o)
    BY <2>1, <2>3, Zenon DEF Ended, l
  <2>5. w[o] = Ahead(d, w[o + n])
    BY <2>1, <2>3, <2>4, WalkMoves, Zenon
  <2>6. w[o].end = w[o + n].end /\ w[o].packets = <<d>> \o w[o + n].packets
    <3> HIDE DEF w, d
    <3>1. Ahead(d, w[o + n]).end = w[o + n].end
      BY DEF Ahead
    <3>2. Ahead(d, w[o + n]).packets = <<d>> \o w[o + n].packets
      BY DEF Ahead
    <3> QED  BY <2>5, <3>1, <3>2, Zenon
  <2>7. d \in Readable(b)
    BY <2>1, Zenon DEF Readable
  <2> HIDE DEF d, w
  <2>8. <<d>> \in Seq(Readable(b)) /\ Len(<<d>>) = 1 /\ <<d>>[1] = d
    BY <2>7
  <2>9. AgreeAll(<<d>>, <<m>>)
    <3>1. \A k \in 1 .. 1 : k = 1
      OBVIOUS
    <3> QED  BY <2>1, <2>8, <3>1, IsSeqOne, Zenon DEF AgreeAll
  <2> QED  BY <2>6, <2>8, <2>9, Zenon DEF Passes, w
<1> QED  BY <1>2, <1>3, IsSeqOne, Zenon DEF Parts

\* A compound made of parts, in a buffer that has room for it, is read back.
LEMMA PartsReadBack ==
    ASSUME NEW c, Parts(c.bytes, c.meant), Len(c.bytes) <= BufferLen
    PROVE  ReadsBack(c)
<1> DEFINE b == c.bytes
           m == c.meant
           l == Len(b)
           w == WalkFrom(b)
<1>1. b \in Seq(Byte) /\ IsSeq(m)
  BY Zenon DEF Parts
<1>2. l \in Nat /\ 0 \in Nat /\ 0 + l = l /\ l \in 0 .. BufferLen /\ 0 \in 0 .. BufferLen
  BY <1>1, Buffer
<1>3. Holds(b, 0, b)
  BY <1>1 DEF Holds
<1>4. Passes(b, 0, l, m)
  BY <1>1, <1>2, <1>3, Zenon DEF Parts
<1>5. PICK g \in Seq(Readable(b)) :
          AgreeAll(g, m) /\ w[0].end = w[l].end /\ w[0].packets = g \o w[l].packets
  BY <1>4, Zenon DEF Passes
<1>6. Ended(b, l)
  <2>1. l >= Len(b)
    BY <1>2
  <2> QED  BY <2>1, Zenon DEF Ended
<1>7. w[l] = [end |-> l, packets |-> <<>>]
  BY <1>1, <1>2, <1>6, WalkMoves, Zenon
<1> DEFINE d == w[0]
<1> HIDE DEF w, l
<1>8. d.end = l /\ d.packets = g
  BY <1>5, <1>7
<1> HIDE DEF d, m
<1>9. Len(g) = Len(m) /\ \A n \in 1 .. Len(m) : Agrees(g[n], m[n])
  BY <1>5, Zenon DEF AgreeAll
<1>10. DOMAIN g = 1 .. Len(m)
  BY <1>9
<1>11. Walk(b) = d
  BY Zenon DEF Walk, d, w
<1> QED  BY <1>8, <1>9, <1>10, <1>11, Zenon DEF ReadsBack, l, m

\* A compound of at most n bytes, made of parts.
Compound(c, n) ==
    Parts(c.bytes, c.meant) /\ Len(c.bytes) <= n

\* Parts behind a compound.
LEMMA CompoundMore ==
    ASSUME NEW c, NEW n \in Nat, Compound(c, n), NEW p, NEW m, Parts(p, m),
           NEW l \in Nat, Bytes(p, l), NEW d, d.bytes = c.bytes \o p, d.meant = c.meant \o m
    PROVE  Compound(d, n + l)
<1> DEFINE i == Len(c.bytes)
<1>1. Parts(c.bytes, c.meant) /\ i <= n
  BY Zenon DEF Compound
<1>2. c.bytes \in Seq(Byte)
  BY <1>1, Zenon DEF Parts
<1>3. i \in Nat /\ Bytes(c.bytes, i)
  BY <1>2 DEF Bytes
<1>4. Parts(d.bytes, d.meant)
  BY <1>1, PartsConcatenated, Zenon
<1>5. Bytes(d.bytes, i + l)
  <2> HIDE DEF i
  <2> QED  BY <1>3, Concatenated, Zenon
<1>6. Len(d.bytes) = i + l
  BY <1>5, Zenon DEF Bytes
<1> HIDE DEF i
<1>7. i + l <= n + l
  BY <1>1, <1>3
<1> QED  BY <1>4, <1>6, <1>7, Zenon DEF Compound
=============================================================================
