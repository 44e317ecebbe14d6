-------------------------- MODULE RexPacketProofs --------------------------
(***************************************************************************)
(* Proofs about RexPacket, for any layout of the headers, any buffer and   *)
(* any contents of the packet.                                             *)
(***************************************************************************)
EXTENDS RexPacket, WellFoundedInduction, TLAPS

LEMMA AddBounds ==
  ASSUME NEW a \in Nat, NEW b \in Nat, NEW x \in Nat, NEW d \in Nat, a <= x, b <= d
  PROVE  a + b \in Nat /\ a + b <= x + d
OBVIOUS

USE BaseAssumption, LayoutAssumption, FrameAssumption

-----------------------------------------------------------------------------
(***************************************************************************)
(* Sums.  The provers take no induction principle with a predicate as its  *)
(* parameter; the set for which a claim holds does as well.                *)
(***************************************************************************)
LEMMA LeastNumber ==
  ASSUME NEW T \in SUBSET Nat, T # {}
  PROVE  \E m \in T : \A k \in T : m <= k
<1>1. PICK m \in T : \A k \in T : ~(<<k, m>> \in OpToRel(<, Nat))
  BY NatLessThanWellFounded, WFMin
<1>2. \A k \in T : ~(k < m)  BY <1>1 DEF OpToRel
<1>q. QED  BY <1>2

LEMMA SetInduction ==
  ASSUME NEW T \in SUBSET Nat, 0 \in T, \A n \in T : n + 1 \in T
  PROVE  \A n \in Nat : n \in T
<1> SUFFICES ASSUME Nat \ T # {}  PROVE FALSE  OBVIOUS
<1> DEFINE U == Nat \ T
<1>1. U \in SUBSET Nat /\ U # {}  OBVIOUS
<1>2. PICK m \in U : \A k \in U : m <= k
  <2> HIDE DEF U
  <2>q. QED  BY <1>1, LeastNumber
<1>3. m # 0 /\ m - 1 \in Nat  BY <1>2
<1>4. m - 1 \in T  BY <1>2, <1>3
<1>q. QED  BY <1>2, <1>3, <1>4

\* s[n] is the sum of the first n words of w.
IsSum(s, w, n) ==
  s = [i \in 0 .. n |-> IF i = 0 THEN 0 ELSE s[i - 1] + w[i - 1]]

\* The recursion of SumOf has a solution.
LEMMA SumExists ==
  ASSUME NEW w
  PROVE  \A n \in Nat : \E s : IsSum(s, w, n)
<1> DEFINE T == {n \in Nat : \E s : IsSum(s, w, n)}
<1>1. 0 \in T
  <2>1. IsSum([i \in 0 .. 0 |-> 0], w, 0)  BY DEF IsSum
  <2>q. QED  BY <2>1
<1>2. ASSUME NEW n \in T  PROVE n + 1 \in T
  <2>1. PICK s : IsSum(s, w, n)  OBVIOUS
  <2> DEFINE t == [i \in 0 .. n + 1 |-> IF i <= n THEN s[i] ELSE s[n] + w[n]]
  <2>2. \A i \in 0 .. n : s[i] = IF i = 0 THEN 0 ELSE s[i - 1] + w[i - 1]
    BY <2>1 DEF IsSum
  <2>3. \A i \in 0 .. n + 1 : t[i] = IF i = 0 THEN 0 ELSE t[i - 1] + w[i - 1]
    <3> SUFFICES ASSUME NEW i \in 0 .. n + 1
                 PROVE  t[i] = IF i = 0 THEN 0 ELSE t[i - 1] + w[i - 1]
      OBVIOUS
    <3>1. CASE i <= n  BY <2>2, <3>1
    <3>2. CASE i = n + 1  BY <3>2
    <3>q. QED  BY <3>1, <3>2
  <2>4. IsSum(t, w, n + 1)
    <3> HIDE DEF t
    <3>1. t = [i \in 0 .. n + 1 |-> t[i]]  BY DEF t
    <3>q. QED  BY <2>3, <3>1 DEF IsSum
  <2>q. QED  BY <2>4
<1>3. T \in SUBSET Nat  OBVIOUS
<1> HIDE DEF T
<1>4. \A n \in Nat : n \in T  BY <1>1, <1>2, <1>3, SetInduction
<1>q. QED  BY <1>4 DEF T

\* What the loop of compute_ip_checksum adds up.
LEMMA SumIsSum ==
  ASSUME NEW w
  PROVE  \E s : IsSum(s, w, IpLen) /\ SumOf(w) = s[IpLen]
<1> DEFINE sum == CHOOSE s : s = [i \in 0 .. IpLen |-> IF i = 0 THEN 0 ELSE s[i - 1] + w[i - 1]]
<1>1. \E s : s = [i \in 0 .. IpLen |-> IF i = 0 THEN 0 ELSE s[i - 1] + w[i - 1]]
  BY SumExists DEF IsSum
<1>2. IsSum(sum, w, IpLen)  BY <1>1 DEF IsSum
<1>3. SumOf(w) = sum[IpLen]  BY DEF SumOf
<1>q. QED  BY <1>2, <1>3

\* Two sums of the same words are the same; a sum of words is a number and
\* grows by less than Base with each word.
LEMMA SumBound ==
  ASSUME NEW w \in [0 .. IpLen - 1 -> Values]
  PROVE  SumOf(w) \in Nat /\ SumOf(w) < Base * Base
<1>1. PICK s : IsSum(s, w, IpLen) /\ SumOf(w) = s[IpLen]  BY SumIsSum
<1>2. \A i \in 0 .. IpLen : s[i] = IF i = 0 THEN 0 ELSE s[i - 1] + w[i - 1]
  BY <1>1 DEF IsSum
<1> DEFINE D == Base - 1
           T == {n \in Nat : n <= IpLen => s[n] \in Nat /\ s[n] <= n * D}
<1>3. D \in Nat  OBVIOUS
<1>4. 0 \in T  BY <1>2, <1>3
<1>5. ASSUME NEW n \in T  PROVE n + 1 \in T
  <2> SUFFICES ASSUME n + 1 <= IpLen
               PROVE  s[n + 1] \in Nat /\ s[n + 1] <= (n + 1) * D
    OBVIOUS
  <2>1. n \in Nat /\ s[n] \in Nat /\ s[n] <= n * D  OBVIOUS
  <2>2. s[n + 1] = s[n] + w[n]  BY <1>2, <2>1
  <2>3. w[n] \in Nat /\ w[n] <= D  BY <2>1 DEF Values
  <2>4. (n + 1) * D = n * D + D  BY <1>3, <2>1
  <2> HIDE DEF D
  <2>5. n * D \in Nat  BY <1>3, <2>1
  <2>6. PICK x, y, a, b : x = n * D /\ y = (n + 1) * D /\ a = s[n] /\ b = w[n]  OBVIOUS
  <2>7. /\ x \in Nat /\ a \in Nat /\ b \in Nat /\ a <= x /\ b <= D
        /\ y = x + D /\ s[n + 1] = a + b
    BY <2>1, <2>2, <2>3, <2>4, <2>5, <2>6
  <2>8. a + b \in Nat /\ a + b <= x + D  BY ONLY <1>3, <2>7, AddBounds, Zenon
  <2>q. QED  BY <2>6, <2>7, <2>8
<1>6. T \in SUBSET Nat  OBVIOUS
<1>7. IpLen \in T
  <2> HIDE DEF T
  <2>1. \A n \in Nat : n \in T  BY <1>4, <1>5, <1>6, SetInduction
  <2>q. QED  BY <2>1
<1>8. s[IpLen] \in Nat /\ s[IpLen] <= IpLen * D  BY <1>7
<1>9. IpLen * D < Base * Base /\ IpLen * D \in Nat /\ Base * Base \in Nat  BY <1>3
<1>q. QED
  <2> HIDE DEF D
  <2>q. QED  BY <1>1, <1>8, <1>9

\* The sum of the header is the sum without the checksum, and the checksum.
LEMMA SumSplit ==
  ASSUME NEW p \in [Words -> Values], EthLen + IpLen <= Cap
  PROVE  /\ Cleared(p) \in [0 .. IpLen - 1 -> Values]
         /\ IpWords(p) \in [0 .. IpLen - 1 -> Values]
         /\ SumOf(IpWords(p)) = SumOf(Cleared(p)) + p[EthLen + CheckAt]
<1> DEFINE c == p[EthLen + CheckAt]
<1>1. \A i \in 0 .. IpLen - 1 : EthLen + i \in Words  BY DEF Words
<1>2. Cleared(p) \in [0 .. IpLen - 1 -> Values]
  BY <1>1 DEF Cleared, Values
<1>3. IpWords(p) \in [0 .. IpLen - 1 -> Values]
  BY <1>1 DEF IpWords
<1>4. PICK s : IsSum(s, IpWords(p), IpLen) /\ SumOf(IpWords(p)) = s[IpLen]
  BY SumIsSum
<1>5. PICK t : IsSum(t, Cleared(p), IpLen) /\ SumOf(Cleared(p)) = t[IpLen]
  BY SumIsSum
<1>6. \A i \in 0 .. IpLen : s[i] = IF i = 0 THEN 0 ELSE s[i - 1] + IpWords(p)[i - 1]
  BY <1>4 DEF IsSum
<1>7. \A i \in 0 .. IpLen : t[i] = IF i = 0 THEN 0 ELSE t[i - 1] + Cleared(p)[i - 1]
  BY <1>5 DEF IsSum
<1> DEFINE T == {n \in Nat : n <= IpLen =>
                   /\ t[n] \in Nat
                   /\ s[n] = IF n <= CheckAt THEN t[n] ELSE t[n] + c}
<1>8. 0 \in T  BY <1>6, <1>7
<1>9. ASSUME NEW n \in T  PROVE n + 1 \in T
  <2> SUFFICES ASSUME n + 1 <= IpLen
               PROVE  /\ t[n + 1] \in Nat
                      /\ s[n + 1] = IF n + 1 <= CheckAt THEN t[n + 1] ELSE t[n + 1] + c
    OBVIOUS
  <2>1. /\ n \in Nat /\ n \in 0 .. IpLen - 1 /\ t[n] \in Nat
        /\ s[n] = IF n <= CheckAt THEN t[n] ELSE t[n] + c
    OBVIOUS
  <2>2. s[n + 1] = s[n] + IpWords(p)[n] /\ t[n + 1] = t[n] + Cleared(p)[n]
    BY <1>6, <1>7, <2>1
  <2>3. IpWords(p)[n] = p[EthLen + n] /\ p[EthLen + n] \in Nat
    BY <1>1, <2>1 DEF IpWords, Values
  <2>4. Cleared(p)[n] = IF n = CheckAt THEN 0 ELSE p[EthLen + n]
    BY <2>1 DEF Cleared
  <2>5. c \in Nat  BY <1>1 DEF Values
  <2>6. CASE n = CheckAt  BY <2>1, <2>2, <2>3, <2>4, <2>5, <2>6
  <2>7. CASE n # CheckAt
    <3>1. /\ t[n + 1] = t[n] + p[EthLen + n] /\ s[n + 1] = s[n] + p[EthLen + n]
          /\ t[n + 1] \in Nat
      BY <2>1, <2>2, <2>3, <2>4, <2>7
    <3>2. n \in Nat /\ CheckAt \in Nat  BY <2>1
    <3> HIDE DEF c, T
    <3>3. CASE n < CheckAt
      <4>1. s[n] = t[n] /\ n + 1 <= CheckAt  BY <2>1, <3>2, <3>3
      <4>q. QED  BY <3>1, <4>1
    <3>4. CASE n > CheckAt
      <4>1. s[n] = t[n] + c /\ ~(n + 1 <= CheckAt)  BY <2>1, <3>2, <3>4
      <4>q. QED  BY <2>1, <2>3, <2>5, <3>1, <4>1
    <3>q. QED  BY <2>7, <3>2, <3>3, <3>4
  <2>q. QED  BY <2>6, <2>7
<1>10. T \in SUBSET Nat  OBVIOUS
<1>11. IpLen \in T
  <2> HIDE DEF T
  <2>1. \A n \in Nat : n \in T  BY <1>8, <1>9, <1>10, SetInduction
  <2>q. QED  BY <2>1
<1>q. QED  BY <1>2, <1>3, <1>4, <1>5, <1>11

-----------------------------------------------------------------------------
(***************************************************************************)
(* The arithmetic of the checksum.                                         *)
(***************************************************************************)
LEMMA DivModUnique ==
  ASSUME NEW d \in Nat \ {0}, NEW q \in Nat, NEW x \in Nat, x < d
  PROVE  (q * d + x) % d = x /\ (q * d + x) \div d = q
OBVIOUS

LEMMA DivModFacts ==
  ASSUME NEW d \in Nat \ {0}, NEW n \in Nat
  PROVE  /\ n % d \in Nat /\ n % d < d /\ n \div d \in Nat
         /\ n = (n \div d) * d + (n % d)
OBVIOUS

\* A header with the checksum of the code adds up to all ones exactly when
\* one addition of the carry was enough.
LEMMA ChecksumArithmetic ==
  ASSUME NEW s \in Nat, s < Base * Base
  PROVE  FoldAll(s + (Base - 1 - (Fold(s) % Base))) = Base - 1 <=> Fold(s) < Base
<1> DEFINE q == s \div Base
           x == s % Base
           D == Base - 1
<1>1. /\ q \in Nat /\ x \in Nat /\ x < Base /\ s = q * Base + x
  BY DivModFacts
<1>2. q < Base
  <2> SUFFICES ASSUME q >= Base  PROVE FALSE  BY <1>1
  <2> HIDE DEF q, x
  <2>1. q * Base >= Base * Base  BY <1>1
  <2>2. q * Base \in Nat /\ Base * Base \in Nat  BY <1>1
  <2>q. QED  BY <1>1, <2>1, <2>2
<1>3. Fold(s) = x + q  BY DEF Fold
<1>4. D \in Nat \ {0} /\ D > 1 /\ Base = D + 1  OBVIOUS
<1> HIDE DEF q, x, D
<1>5. q * Base = q * D + q /\ q * D \in Nat  BY <1>1, <1>4
<1>6. CASE x + q < Base
  <2>1. (x + q) % Base = x + q  BY <1>1, <1>6
  <2> DEFINE t == s + (Base - 1 - (Fold(s) % Base))
  <2>2. t = q * D + D  BY <1>1, <1>3, <1>4, <1>5, <2>1
  <2>3. t # 0 /\ t - 1 = q * D + (D - 1)  BY <1>1, <1>4, <1>5, <2>2
  <2>4. (t - 1) % D = D - 1
    <3>1. D - 1 \in Nat /\ D - 1 < D  BY <1>4
    <3>2. q \in Nat /\ D \in Nat \ {0}  BY <1>1, <1>4
    <3>3. (q * D + (D - 1)) % D = D - 1  BY <3>1, <3>2, DivModUnique, Zenon
    <3>q. QED  BY <2>3, <3>3
  <2>5. FoldAll(t) = 1 + ((t - 1) % D)  BY <2>3 DEF FoldAll, D
  <2>q. QED  BY <1>3, <1>4, <1>6, <2>4, <2>5
<1>7. CASE x + q >= Base
  <2>1. (x + q) % Base = x + q - Base
    <3>1. x + q = 1 * Base + (x + q - Base) /\ x + q - Base \in Nat /\ x + q - Base < Base
      BY <1>1, <1>2, <1>7
    <3>2. 1 \in Nat /\ Base \in Nat \ {0}  OBVIOUS
    <3>3. (1 * Base + (x + q - Base)) % Base = x + q - Base
      BY <3>1, <3>2, DivModUnique, Zenon
    <3>q. QED  BY <3>1, <3>3
  <2> DEFINE t == s + (Base - 1 - (Fold(s) % Base))
  <2>2. t = q * D + D + D + 1  BY <1>1, <1>3, <1>4, <1>5, <2>1
  <2>3. t # 0 /\ t - 1 = (q + 2) * D + 0  BY <1>1, <1>4, <1>5, <2>2
  <2>4. (t - 1) % D = 0
    <3>1. q + 2 \in Nat /\ 0 < D  BY <1>1, <1>4
    <3>2. 0 \in Nat /\ D \in Nat \ {0}  BY <1>4
    <3>3. ((q + 2) * D + 0) % D = 0  BY <3>1, <3>2, DivModUnique, Zenon
    <3>q. QED  BY <2>3, <3>3
  <2>5. FoldAll(t) = 1 + ((t - 1) % D)  BY <2>3 DEF FoldAll, D
  <2>q. QED  BY <1>1, <1>3, <1>4, <1>7, <2>4, <2>5
<1>q. QED  BY <1>1, <1>6, <1>7

\* The checksum of the code is a word.
LEMMA ChecksumIsWord ==
  ASSUME NEW p \in [Words -> Values], EthLen + IpLen <= Cap
  PROVE  compute_ip_checksum(p) \in Values
<1>1. SumOf(Cleared(p)) \in Nat  BY SumSplit, SumBound
<1>2. Fold(SumOf(Cleared(p))) \in Nat  BY <1>1, DivModFacts DEF Fold
<1> DEFINE m == Fold(SumOf(Cleared(p))) % Base
<1>3. m \in Nat /\ m < Base  BY <1>2, DivModFacts
<1> HIDE DEF m
<1>4. Base - 1 - m \in Values  BY <1>3 DEF Values
<1>q. QED  BY <1>4 DEF compute_ip_checksum, m

-----------------------------------------------------------------------------
(***************************************************************************)
(* The inductive invariant.                                                *)
(***************************************************************************)

\* A header is held only by a running program, and lies in the packet.
HeldInv ==
  held # "none" => pc = "running" /\ slice.head = head /\ End(held) <= lin

\* A stored checksum is the checksum of what the program reads, and stays so
\* while headers come and go and the packet changes its length.
CheckInv ==
  sealed /\ pc # "panicked" =>
    /\ End("ip") <= lin
    /\ Deref[EthLen + CheckAt] = compute_ip_checksum(Deref)

IInv == TypeOK /\ HeldInv /\ SliceInPacket /\ CheckInv

-----------------------------------------------------------------------------
LEMMA HeaderFacts ==
  /\ \A h \in Hdrs : /\ Begin(h) \in Nat /\ End(h) \in Nat /\ Begin(h) < End(h)
                     /\ \A i : i \in HdrWords(h) <=> i \in Int /\ Begin(h) <= i /\ i < End(h)
  /\ Begin("ip") = EthLen /\ End("ip") = EthLen + IpLen
  /\ Hdrs = {"eth", "ip", "udp", "tcp"} /\ "none" \notin Hdrs
BY DEF Begin, Size, End, HdrWords, Hdrs

LEMMA SliceFacts ==
  \A hd, n : SliceOf(hd, n).head = hd /\ SliceOf(hd, n).len = n
BY DEF SliceOf

\* The words of a header that is held are words of the buffer.
LEMMA HeldWords ==
  ASSUME TypeOK, HeldInv, held # "none"
  PROVE  /\ HdrWords(held) \subseteq Words /\ HdrWords(held) # {}
         /\ End(held) <= Cap
<1>1. held \in Hdrs /\ lin \in 0 .. Cap /\ End(held) <= lin  BY DEF TypeOK, HeldInv
<1>2. End(held) <= Cap  BY <1>1, HeaderFacts
<1>3. ASSUME NEW i \in HdrWords(held)  PROVE i \in Words
  <2>1. i \in Int /\ Begin(held) <= i /\ i < End(held)  BY <1>1, HeaderFacts
  <2>2. Begin(held) \in Nat /\ End(held) \in Nat  BY <1>1, HeaderFacts
  <2>3. i \in 0 .. Cap - 1  BY <1>2, <2>1, <2>2
  <2>q. QED  BY <2>3 DEF Words
<1>4. Begin(held) \in HdrWords(held)  BY <1>1, HeaderFacts
<1>q. QED  BY <1>2, <1>3, <1>4

\* What the program reads: the packet, but for the words of a copy it holds.
LEMMA DerefFacts ==
  ASSUME TypeOK, HeldInv
  PROVE  /\ Deref \in [Words -> Values]
         /\ copy = NoCopy => Deref = buf
         /\ copy # NoCopy =>
              /\ held # "none" /\ copy \in [HdrWords(held) -> Values]
              /\ \A i \in Words : Deref[i] = IF i \in HdrWords(held) THEN copy[i] ELSE buf[i]
<1>1. DOMAIN NoCopy = {}  BY DEF NoCopy
<1>2. CASE copy = NoCopy
  <2>1. Deref = [i \in Words |-> buf[i]]  BY <1>1, <1>2 DEF Deref
  <2>2. Deref = buf  BY <2>1 DEF TypeOK
  <2>q. QED  BY <1>2, <2>2 DEF TypeOK
<1>3. CASE copy # NoCopy
  <2>1. held # "none" /\ copy \in [HdrWords(held) -> Values]  BY <1>3 DEF TypeOK
  <2>2. DOMAIN copy = HdrWords(held)  BY <2>1
  <2>3. \A i \in Words : Deref[i] = IF i \in HdrWords(held) THEN copy[i] ELSE buf[i]
    BY <2>2 DEF Deref
  <2>4. Deref \in [Words -> Values]  BY <2>1, <2>2 DEF Deref, TypeOK
  <2>q. QED  BY <1>3, <2>1, <2>3, <2>4
<1>q. QED  BY <1>2, <1>3

\* A store through a header changes one word of what the program reads; the
\* kernel sees it at once, or none of it.
LEMMA StoreStep ==
  ASSUME TypeOK, HeldInv, held # "none", NEW i \in HdrWords(held), NEW v \in Values,
         Store([j \in {i} |-> v])
  PROVE  /\ Deref' = [Deref EXCEPT ![i] = v]
         /\ buf' \in [Words -> Values]
         /\ copy' = NoCopy \/ copy' \in [HdrWords(held) -> Values]
         /\ copy = NoCopy => buf' = Deref'
         /\ copy # NoCopy => buf' = buf
<1> DEFINE f == [j \in {i} |-> v]
<1>0. i \in Words /\ buf \in [Words -> Values]  BY HeldWords DEF TypeOK
<1>1. DOMAIN f = {i} /\ f[i] = v  OBVIOUS
<1>2. CASE copy = NoCopy
  <2>1. /\ buf' = [j \in Words |-> IF j \in DOMAIN f THEN f[j] ELSE buf[j]]
        /\ copy' = NoCopy
    BY <1>2 DEF Store
  <2>2. buf' = [buf EXCEPT ![i] = v]  BY <1>0, <1>1, <2>1
  <2>3. Deref = buf  BY <1>2, DerefFacts
  <2>4. Deref' = [j \in Words |-> buf'[j]]  BY <2>1 DEF Deref, NoCopy
  <2>5. Deref' = buf'  BY <1>0, <2>2, <2>4
  <2>q. QED  BY <1>0, <1>2, <2>1, <2>2, <2>3, <2>5
<1>3. CASE copy # NoCopy
  <2>1. copy \in [HdrWords(held) -> Values]  BY <1>3, DerefFacts
  <2>2. /\ copy' = [j \in DOMAIN copy |-> IF j \in DOMAIN f THEN f[j] ELSE copy[j]]
        /\ buf' = buf
    BY <1>3 DEF Store
  <2>3. copy' = [copy EXCEPT ![i] = v]  BY <1>1, <2>1, <2>2
  <2>4. copy' \in [HdrWords(held) -> Values]  BY <2>1, <2>3
  <2>5. Deref' = [j \in Words |-> IF j \in HdrWords(held) THEN copy'[j] ELSE buf[j]]
    BY <2>2, <2>4 DEF Deref
  <2>6. Deref = [j \in Words |-> IF j \in HdrWords(held) THEN copy[j] ELSE buf[j]]
    BY <2>1 DEF Deref
  <2>7. Deref' = [Deref EXCEPT ![i] = v]  BY <1>0, <2>1, <2>3, <2>5, <2>6
  <2>q. QED  BY <1>0, <1>3, <2>2, <2>4, <2>7
<1>q. QED  BY <1>2, <1>3

\* The checksum depends on the other words of the header only.
LEMMA ChecksumOfHeader ==
  ASSUME NEW p, NEW r,
         \A i \in 0 .. IpLen - 1 : i # CheckAt => p[EthLen + i] = r[EthLen + i]
  PROVE  compute_ip_checksum(p) = compute_ip_checksum(r) /\ Cleared(p) = Cleared(r)
<1>1. Cleared(p) = Cleared(r)  BY DEF Cleared
<1>q. QED  BY <1>1 DEF compute_ip_checksum

-----------------------------------------------------------------------------
\* Every step keeps the variables in their types, and what is held in place.
LEMMA TypeStep ==
  ASSUME TypeOK, HeldInv, Next
  PROVE  TypeOK' /\ HeldInv'
<1>0. DOMAIN NoCopy = {} /\ "none" \notin Hdrs  BY HeaderFacts DEF NoCopy
<1> USE DEF TypeOK, kernelVars
<1>1. ASSUME NEW h \in Hdrs, header(h)  PROVE TypeOK' /\ HeldInv'
  <2>1. held' = h /\ UNCHANGED <<prog, addr, head, lin, paged, buf, slice, pc, edits, sealed, redirects>>
    BY <1>1 DEF header
  <2>2. pc = "running" /\ slice.head = head /\ End(h) <= lin  BY <1>1 DEF header, Backed
  <2>3. HeldInv'  BY <2>1, <2>2 DEF HeldInv, End, Begin, Size
  <2>4. h # "none"  BY <1>0
  <2>5. HdrWords(h) \subseteq Words
    <3>1. ASSUME NEW i \in HdrWords(h)  PROVE i \in Words
      <4>1. /\ i \in Int /\ Begin(h) <= i /\ i < End(h)
            /\ Begin(h) \in Nat /\ End(h) \in Nat
        BY HeaderFacts
      <4>2. i \in 0 .. Cap - 1  BY <2>2, <4>1
      <4>q. QED  BY <4>2 DEF Words
    <3>q. QED  BY <3>1
  <2>6. copy' = NoCopy \/ copy' \in [HdrWords(h) -> Values]
    BY <1>1, <2>5 DEF header
  <2>7. TypeOK'  BY <2>1, <2>4, <2>6
  <2>q. QED  BY <2>3, <2>7
<1>2. ASSUME NEW h \in Hdrs, header_out_of_range(h)  PROVE TypeOK' /\ HeldInv'
  BY <1>2 DEF header_out_of_range, HeldInv
<1>3. ASSUME held # "none", pc = "running", NEW i \in HdrWords(held), NEW v \in Values,
             Store([j \in {i} |-> v]), edits < MaxEdits, edits' = edits + 1,
             sealed' \in BOOLEAN,
             UNCHANGED <<prog, addr, head, lin, paged, slice, held, pc, redirects>>
      PROVE  TypeOK' /\ HeldInv'
  <2>1. /\ buf' \in [Words -> Values]
        /\ copy' = NoCopy \/ copy' \in [HdrWords(held) -> Values]
    BY <1>3, StoreStep
  <2>2. HeldInv'  BY <1>3 DEF HeldInv, End, Begin, Size
  <2>3. copy' = NoCopy \/ (held' # "none" /\ copy' \in [HdrWords(held') -> Values])
    BY <1>3, <2>1
  <2>4. TypeOK'  BY <1>3, <2>1, <2>3
  <2>q. QED  BY <2>2, <2>4
<1>4. ASSUME NEW i \in Words, NEW v \in Values, deref_mut(i, v)  PROVE TypeOK' /\ HeldInv'
  <2>1. sealed' \in BOOLEAN  BY <1>4 DEF deref_mut
  <2>q. QED  BY <1>3, <1>4, <2>1 DEF deref_mut
<1>5. ASSUME NEW i \in Words, NEW v \in Values, slice_write(i, v)
      PROVE  TypeOK' /\ HeldInv'
  <2>1. sealed' \in BOOLEAN  BY <1>5 DEF slice_write
  <2>q. QED  BY <1>0, <1>5, <2>1 DEF slice_write, HeldInv
<1>6. CASE store_checksum
  <2>1. held = "ip" /\ held # "none" /\ pc = "running"  BY <1>6 DEF store_checksum
  <2>2. End("ip") <= Cap  BY <2>1, HeldWords
  <2>3. compute_ip_checksum(Deref) \in Values
    BY <2>2, HeaderFacts, DerefFacts, ChecksumIsWord
  <2>4. EthLen + CheckAt \in HdrWords(held)
    <3>1. EthLen + CheckAt \in Int /\ EthLen <= EthLen + CheckAt
          /\ EthLen + CheckAt < EthLen + IpLen
      OBVIOUS
    <3>q. QED  BY <2>1, <3>1, HeaderFacts
  <2>5. sealed' \in BOOLEAN  BY <1>6 DEF store_checksum
  <2>q. QED  BY <1>3, <1>6, <2>1, <2>3, <2>4, <2>5 DEF store_checksum
<1>7. CASE drop_header
  <2>1. buf' \in [Words -> Values]  BY <1>7, DerefFacts DEF drop_header
  <2>q. QED  BY <1>7, <2>1 DEF drop_header, HeldInv
<1>8. ASSUME NEW n \in Words \cup {Cap}, bpf_xdp_adjust_tail(n)  PROVE TypeOK' /\ HeldInv'
  <2>1. n \in 0 .. Cap /\ n \in Nat
    <3>1. CASE n \in Words  BY <3>1 DEF Words
    <3>2. CASE n = Cap  BY <3>2
    <3>q. QED  BY <3>1, <3>2
  <2>2. buf' \in [Words -> Values]  BY <1>8 DEF bpf_xdp_adjust_tail, Values
  <2>3. slice' \in [head : 0 .. MaxMoves, len : Nat]
    BY <1>8, <2>1 DEF bpf_xdp_adjust_tail, SliceOf
  <2>4. sealed' \in BOOLEAN  BY <1>8 DEF bpf_xdp_adjust_tail
  <2>q. QED  BY <1>0, <1>8, <2>1, <2>2, <2>3, <2>4 DEF bpf_xdp_adjust_tail, HeldInv
<1>9. CASE bpf_clone_redirect
  <2>1. head' \in 0 .. MaxMoves /\ addr' \in 0 .. 3
    BY <1>9 DEF bpf_clone_redirect, MayMoveHead
  <2>2. lin + paged \in Nat
    <3>1. paged \in Nat /\ lin \in Nat  BY FrameAssumption
    <3>q. QED  BY <3>1
  <2>3. slice' \in [head : 0 .. MaxMoves, len : Nat]
    BY <1>9, <2>1, <2>2 DEF bpf_clone_redirect, SliceOf
  <2>q. QED  BY <1>0, <1>9, <2>1, <2>3 DEF bpf_clone_redirect, HeldInv
<1>10. CASE bpf_clone_redirect_err
  <2>1. head' \in 0 .. MaxMoves /\ addr' \in 0 .. 3
    BY <1>10 DEF bpf_clone_redirect_err, MayMoveHead
  <2>q. QED  BY <1>0, <1>10, <2>1 DEF bpf_clone_redirect_err, HeldInv
<1>11. CASE return
  BY <1>0, <1>11 DEF return, HeldInv
<1>12. CASE panic
  BY <1>12 DEF panic, HeldInv
<1>q. QED
  BY <1>1, <1>2, <1>4, <1>5, <1>6, <1>7, <1>8, <1>9, <1>10, <1>11, <1>12 DEF Next

\* The slice stays in the packet, but for the two cases of bpf_clone_redirect.
LEMMA SliceStep ==
  ASSUME TypeOK, HeldInv, SliceInPacket, Next
  PROVE  SliceInPacket'
<1>0. TypeOK' /\ HeldInv'  BY TypeStep
<1>1. ASSUME pc' = "running", held' # "none"  PROVE Backed(End(held))'
  BY <1>0, <1>1 DEF HeldInv, Backed
<1> SUFFICES ASSUME pc' = "running"
             PROVE  /\ slice'.head # head' => "err" \in redirects'
                    /\ slice'.len > lin' => "ok" \in redirects' /\ paged' > 0
  BY <1>1 DEF SliceInPacket
<1>2. CASE pc = "running" /\ UNCHANGED <<slice, head, lin, paged, redirects>>
  BY <1>2 DEF SliceInPacket
<1>3. CASE \E n \in Words \cup {Cap} : bpf_xdp_adjust_tail(n)
  <2>1. PICK n \in Words \cup {Cap} : bpf_xdp_adjust_tail(n)  BY <1>3
  <2>2. /\ slice'.head = head /\ slice'.len = n /\ lin' = n /\ head' = head
        /\ n \in EthLen .. Cap
    BY <2>1, SliceFacts DEF bpf_xdp_adjust_tail
  <2>3. ~(n > n)  BY <2>2
  <2>q. QED  BY <2>2, <2>3
<1>4. CASE bpf_clone_redirect
  <2>1. /\ slice'.head = head' /\ slice'.len = lin + paged /\ lin' = lin
        /\ paged' = paged /\ "ok" \in redirects'
    BY <1>4, SliceFacts DEF bpf_clone_redirect
  <2>2. paged \in Nat /\ lin \in Nat  BY FrameAssumption DEF TypeOK
  <2>3. lin + paged > lin => paged > 0  BY <2>2
  <2>q. QED  BY <2>1, <2>3
<1>5. CASE bpf_clone_redirect_err
  BY <1>5 DEF bpf_clone_redirect_err, SliceInPacket
<1>q. QED
  BY <1>2, <1>3, <1>4, <1>5 DEF Next, header, header_out_of_range, deref_mut, slice_write,
     store_checksum, drop_header, return, panic, kernelVars

\* A store to a word that is not of the IP header leaves the checksum alone.
LEMMA OtherWordStored ==
  ASSUME NEW p \in [Words -> Values], NEW i \in Words, NEW v \in Values,
         i \notin HdrWords("ip"), EthLen + IpLen <= Cap,
         p[EthLen + CheckAt] = compute_ip_checksum(p)
  PROVE  [p EXCEPT ![i] = v][EthLen + CheckAt] = compute_ip_checksum([p EXCEPT ![i] = v])
<1> DEFINE r == [p EXCEPT ![i] = v]
<1>1. ASSUME NEW j \in 0 .. IpLen - 1  PROVE r[EthLen + j] = p[EthLen + j]
  <2>1. EthLen + j \in HdrWords("ip")
    <3>1. EthLen + j \in Int /\ EthLen <= EthLen + j /\ EthLen + j < EthLen + IpLen
      OBVIOUS
    <3>q. QED  BY <3>1, HeaderFacts
  <2>2. EthLen + j \in Words  BY DEF Words
  <2>q. QED  BY <2>1, <2>2
<1> HIDE DEF r
<1>2. r[EthLen + CheckAt] = p[EthLen + CheckAt]  BY <1>1
<1>3. compute_ip_checksum(r) = compute_ip_checksum(p)  BY <1>1, ChecksumOfHeader
<1>q. QED  BY <1>2, <1>3 DEF r

LEMMA CheckStep ==
  ASSUME TypeOK, HeldInv, CheckInv, Next
  PROVE  CheckInv'
<1>0. TypeOK' /\ HeldInv'  BY TypeStep
<1> SUFFICES ASSUME sealed', pc' # "panicked"
             PROVE  /\ End("ip") <= lin'
                    /\ Deref'[EthLen + CheckAt] = compute_ip_checksum(Deref')
  BY DEF CheckInv, End, Begin, Size, compute_ip_checksum, Cleared, SumOf, Fold
<1>s. ASSUME sealed, pc # "panicked", UNCHANGED lin, Deref' = Deref
      PROVE  /\ End("ip") <= lin'
             /\ Deref'[EthLen + CheckAt] = compute_ip_checksum(Deref')
  BY <1>s DEF CheckInv
<1>l. ASSUME sealed, pc # "panicked"
      PROVE  EthLen + IpLen <= lin /\ EthLen + IpLen <= Cap
  BY <1>l, HeaderFacts DEF CheckInv, TypeOK
<1>1. ASSUME NEW h \in Hdrs, header(h)
      PROVE  /\ End("ip") <= lin'
             /\ Deref'[EthLen + CheckAt] = compute_ip_checksum(Deref')
  <2>1. UNCHANGED <<buf, lin, sealed, pc>> /\ held = "none" /\ held' = h  BY <1>1 DEF header, kernelVars
  <2>2. copy = NoCopy /\ Deref = buf  BY <2>1, DerefFacts
  <2>3. Deref' = buf
    <3>1. CASE copy' = NoCopy
      <4>1. Deref' = [i \in Words |-> buf[i]]  BY <2>1, <3>1 DEF Deref, NoCopy
      <4>q. QED  BY <4>1 DEF TypeOK
    <3>2. CASE copy' = [i \in HdrWords(h) |-> buf[i]]
      <4>1. Deref' = [i \in Words |-> buf[i]]  BY <2>1, <3>2 DEF Deref
      <4>q. QED  BY <4>1 DEF TypeOK
    <3>q. QED  BY <1>1, <3>1, <3>2 DEF header
  <2>q. QED  BY <1>s, <2>1, <2>2, <2>3
<1>2. ASSUME NEW h \in Hdrs, header_out_of_range(h)  PROVE FALSE
  BY <1>2 DEF header_out_of_range
<1>3. ASSUME NEW i \in Words, NEW v \in Values, deref_mut(i, v)
      PROVE  /\ End("ip") <= lin'
             /\ Deref'[EthLen + CheckAt] = compute_ip_checksum(Deref')
  <2>1. /\ sealed /\ i \notin HdrWords("ip") /\ i \in HdrWords(held) /\ held # "none"
        /\ UNCHANGED <<lin, pc>>
    BY <1>3 DEF deref_mut, kernelVars
  <2>2. Deref' = [Deref EXCEPT ![i] = v]  BY <1>3, <2>1, StoreStep DEF deref_mut
  <2>3. Deref \in [Words -> Values]  BY DerefFacts
  <2>4. Deref[EthLen + CheckAt] = compute_ip_checksum(Deref) /\ End("ip") <= lin
    BY <2>1 DEF CheckInv
  <2>5. EthLen + IpLen <= Cap  BY <1>l, <2>1
  <2>q. QED  BY <2>1, <2>2, <2>3, <2>4, <2>5, OtherWordStored
<1>4. ASSUME NEW i \in Words, NEW v \in Values, slice_write(i, v)
      PROVE  /\ End("ip") <= lin'
             /\ Deref'[EthLen + CheckAt] = compute_ip_checksum(Deref')
  <2>1. /\ sealed /\ i \notin HdrWords("ip") /\ held = "none"
        /\ UNCHANGED <<lin, pc, copy>> /\ buf' = [buf EXCEPT ![i] = v]
    BY <1>4 DEF slice_write, kernelVars
  <2>2. copy = NoCopy /\ Deref = buf  BY <2>1, DerefFacts
  <2>3. Deref' = [j \in Words |-> buf'[j]]  BY <2>1, <2>2 DEF Deref, NoCopy
  <2>4. Deref' = [Deref EXCEPT ![i] = v]  BY <2>1, <2>2, <2>3 DEF TypeOK
  <2>5. Deref[EthLen + CheckAt] = compute_ip_checksum(Deref) /\ End("ip") <= lin
    BY <2>1 DEF CheckInv
  <2>6. EthLen + IpLen <= Cap /\ Deref \in [Words -> Values]  BY <1>l, <2>1, DerefFacts
  <2>7. [Deref EXCEPT ![i] = v][EthLen + CheckAt] =
          compute_ip_checksum([Deref EXCEPT ![i] = v])
    BY <2>1, <2>5, <2>6, OtherWordStored
  <2>q. QED  BY <2>1, <2>4, <2>5, <2>7
<1>5. CASE store_checksum
  <2>1. held = "ip" /\ held # "none" /\ UNCHANGED <<lin, pc>> /\ End("ip") <= lin
    BY <1>5 DEF store_checksum, HeldInv, kernelVars
  <2> DEFINE at == EthLen + CheckAt
             v == compute_ip_checksum(Deref)
  <2>2. EthLen + IpLen <= Cap  BY <2>1, HeaderFacts DEF TypeOK
  <2>3. v \in Values /\ Deref \in [Words -> Values]
    BY <2>2, DerefFacts, ChecksumIsWord
  <2>4. at \in HdrWords(held) /\ at \in Words
    <3>1. at \in Int /\ EthLen <= at /\ at < EthLen + IpLen  OBVIOUS
    <3>2. at \in HdrWords("ip")  BY <3>1, HeaderFacts
    <3>q. QED  BY <2>1, <3>2, HeldWords
  <2>5. Deref' = [Deref EXCEPT ![at] = v]
    BY <1>5, <2>1, <2>3, <2>4, StoreStep DEF store_checksum
  <2>6. Deref'[at] = v  BY <2>3, <2>4, <2>5
  <2>7. \A j \in 0 .. IpLen - 1 : j # CheckAt => Deref'[EthLen + j] = Deref[EthLen + j]
    <3> SUFFICES ASSUME NEW j \in 0 .. IpLen - 1, j # CheckAt
                 PROVE  Deref'[EthLen + j] = Deref[EthLen + j]
      OBVIOUS
    <3>1. EthLen + j \in Words /\ EthLen + j # at  BY <2>2 DEF Words
    <3>q. QED  BY <2>3, <2>4, <2>5, <3>1
  <2>8. compute_ip_checksum(Deref') = v  BY <2>7, ChecksumOfHeader
  <2>q. QED  BY <2>1, <2>6, <2>8
<1>6. CASE drop_header
  <2>1. buf' = Deref /\ copy' = NoCopy /\ UNCHANGED <<lin, sealed, pc>>
    BY <1>6 DEF drop_header, kernelVars
  <2>2. Deref' = [j \in Words |-> Deref[j]]  BY <2>1 DEF Deref, NoCopy
  <2>3. Deref' = Deref  BY <2>2, DerefFacts
  <2>q. QED  BY <1>s, <2>1, <2>3
<1>7. ASSUME NEW n \in Words \cup {Cap}, bpf_xdp_adjust_tail(n)
      PROVE  /\ End("ip") <= lin'
             /\ Deref'[EthLen + CheckAt] = compute_ip_checksum(Deref')
  <2>1. /\ held = "none" /\ sealed /\ End("ip") <= n /\ lin' = n /\ UNCHANGED <<copy, pc>>
        /\ buf' = [i \in Words |-> IF i < lin /\ i < n THEN buf[i] ELSE 0]
        /\ n \in EthLen .. Cap
    BY <1>7 DEF bpf_xdp_adjust_tail
  <2>2. copy = NoCopy /\ Deref = buf  BY <2>1, DerefFacts
  <2>3. Deref' = [j \in Words |-> buf'[j]]  BY <2>1, <2>2 DEF Deref, NoCopy
  <2>4. EthLen + IpLen <= lin /\ EthLen + IpLen <= Cap /\ EthLen + IpLen <= n
    BY <1>l, <2>1, HeaderFacts
  <2>5. \A j \in 0 .. IpLen - 1 : Deref'[EthLen + j] = Deref[EthLen + j]
    <3> SUFFICES ASSUME NEW j \in 0 .. IpLen - 1
                 PROVE  Deref'[EthLen + j] = Deref[EthLen + j]
      OBVIOUS
    <3>0. n \in Nat /\ lin \in Nat /\ Cap \in Nat  BY <2>1 DEF TypeOK
    <3>1. EthLen + j < lin /\ EthLen + j < n /\ EthLen + j \in 0 .. Cap - 1
      BY <2>4, <3>0
    <3>2. EthLen + j \in Words  BY <3>1 DEF Words
    <3>q. QED  BY <2>1, <2>2, <2>3, <3>1, <3>2
  <2>6. compute_ip_checksum(Deref') = compute_ip_checksum(Deref)
    BY <2>5, ChecksumOfHeader
  <2>7. Deref'[EthLen + CheckAt] = Deref[EthLen + CheckAt]  BY <2>5
  <2>q. QED  BY <2>1, <2>6, <2>7 DEF CheckInv
<1>8. CASE UNCHANGED <<sealed, lin, buf, copy>> /\ pc # "panicked"
  BY <1>8, <1>s DEF Deref
<1>9. CASE panic  BY <1>9 DEF panic
<1>q. QED
  BY <1>1, <1>2, <1>3, <1>4, <1>5, <1>6, <1>7, <1>8, <1>9
     DEF Next, bpf_clone_redirect, bpf_clone_redirect_err, return, kernelVars

-----------------------------------------------------------------------------
LEMMA InitInv ==
  ASSUME Init
  PROVE  IInv /\ copy = NoCopy /\ Deref = buf
<1>1. TypeOK
  <2>1. PICK f \in Frames : buf = [i \in Words |-> IF i < lin THEN f[i] ELSE 0]
    BY DEF Init
  <2>2. f \in [Words -> Values] /\ 0 \in Values  BY DEF Values
  <2>3. buf \in [Words -> Values]  BY <2>1, <2>2
  <2>4. lin \in 0 .. Cap /\ lin \in Nat  BY DEF Init
  <2>5. paged \in Pages \cup {0}  BY DEF Init
  <2>6. slice \in [head : 0 .. MaxMoves, len : Nat]  BY <2>4 DEF Init, SliceOf
  <2>7. /\ prog \in {"xdp", "sched_cls"} /\ addr \in 0 .. 3 /\ head \in 0 .. MaxMoves
        /\ held \in Hdrs \cup {"none"} /\ copy = NoCopy
        /\ pc \in {"running", "returned", "panicked"} /\ edits \in 0 .. MaxEdits
    BY DEF Init
  <2>8. sealed \in BOOLEAN /\ redirects \subseteq {"ok", "err"}  BY DEF Init
  <2>q. QED  BY <2>3, <2>4, <2>5, <2>6, <2>7, <2>8 DEF TypeOK
<1>2. HeldInv  BY DEF Init, HeldInv
<1>3. SliceInPacket
  <2>a. slice = SliceOf(0, lin) /\ head = 0  BY Zenon DEF Init
  <2>b. lin \in Nat  BY <1>1 DEF TypeOK
  <2>0. slice = SliceOf(0, lin) /\ head = 0 /\ lin \in Nat  BY <2>a, <2>b
  <2>1. slice.head = head /\ slice.len = lin /\ lin \in Int  BY <2>0, SliceFacts
  <2>2. ~(lin > lin)  BY <2>1
  <2>q. QED  BY <2>1, <2>2 DEF Init, SliceInPacket
<1>4. CheckInv  BY DEF Init, CheckInv
<1>5. copy = NoCopy /\ Deref = buf  BY <1>1, <1>2, DerefFacts DEF Init
<1>q. QED  BY <1>1, <1>2, <1>3, <1>4, <1>5 DEF IInv

\* The strengthened invariant holds in every state (xdp_impl.rs,
\* sched_cls_impl.rs and utils.rs, all operations).
THEOREM Invariance == Spec => []IInv
<1>1. Init => IInv  BY InitInv
<1>2. IInv /\ [Next]_vars => IInv'
  <2>1. CASE Next  BY <2>1, TypeStep, SliceStep, CheckStep DEF IInv
  <2>2. CASE UNCHANGED vars
    <3>1. Deref' = Deref  BY <2>2 DEF vars, Deref
    <3>2. TypeOK' <=> TypeOK  BY <2>2 DEF vars, TypeOK
    <3>3. HeldInv' <=> HeldInv  BY <2>2 DEF vars, HeldInv, End, Begin, Size
    <3>4. SliceInPacket' <=> SliceInPacket
      BY <2>2 DEF vars, SliceInPacket, Backed, End, Begin, Size
    <3>5. CheckInv' <=> CheckInv  BY <2>2, <3>1 DEF vars, CheckInv
    <3>q. QED  BY <3>2, <3>3, <3>4, <3>5 DEF IInv
  <2>q. QED  BY <2>1, <2>2
<1>q. QED  BY <1>1, <1>2, PTL DEF Spec

\* The slice of a running program is in the packet, but for a failed
\* bpf_clone_redirect and one of a non-linear sk_buff (sched_cls_impl.rs).
THEOREM SliceStaysInPacket == Spec => []SliceInPacket
<1>1. IInv => SliceInPacket  BY DEF IInv
<1>q. QED  BY <1>1, Invariance, PTL

\* A packet that leaves with a stored checksum is accepted exactly when the
\* carry had to be added only once (xdp_impl.rs compute_ip_checksum).
THEOREM ChecksumIsAccepted == Spec => []ChecksumAccepted
<1>1. IInv => ChecksumAccepted
  <2> SUFFICES ASSUME IInv, pc = "returned", sealed
               PROVE  Accepted <=> Fold(SumOf(Cleared(buf))) < Base
    BY DEF ChecksumAccepted
  <2> DEFINE s == SumOf(Cleared(buf))
  <2>1. held = "none" /\ copy = NoCopy  BY DEF IInv, HeldInv, TypeOK
  <2>2. Deref = buf /\ buf \in [Words -> Values]  BY <2>1, DerefFacts DEF IInv, TypeOK
  <2>3. EthLen + IpLen <= Cap  BY HeaderFacts DEF IInv, CheckInv, TypeOK
  <2>4. buf[EthLen + CheckAt] = Base - 1 - (Fold(s) % Base)
    BY <2>2 DEF IInv, CheckInv, compute_ip_checksum
  <2>5. SumOf(IpWords(buf)) = s + buf[EthLen + CheckAt]  BY <2>2, <2>3, SumSplit
  <2>6. s \in Nat /\ s < Base * Base  BY <2>2, <2>3, SumSplit, SumBound
  <2> HIDE DEF s
  <2>7. FoldAll(s + (Base - 1 - (Fold(s) % Base))) = Base - 1 <=> Fold(s) < Base
    BY <2>6, ChecksumArithmetic
  <2>q. QED  BY <2>4, <2>5, <2>7 DEF Accepted, s
<1>q. QED  BY <1>1, Invariance, PTL

-----------------------------------------------------------------------------
(***************************************************************************)
(* The refinement.                                                         *)
(***************************************************************************)
LEMMA PlainInit ==
  ASSUME Init
  PROVE  Plain!Init
<1>1. Deref = buf /\ buf \in [Words -> Values]  BY InitInv DEF IInv, TypeOK
<1>q. QED  BY <1>1 DEF Init, Plain!Init

\* A store is one edit of the plain packet.
LEMMA PlainEdit ==
  ASSUME TypeOK, HeldInv, held # "none", NEW i \in HdrWords(held), NEW v \in Values,
         Store([j \in {i} |-> v]), edits' = edits + 1, pc = "running", UNCHANGED pc
  PROVE  Plain!Next
<1>1. /\ Deref' = [Deref EXCEPT ![i] = v]
      /\ buf' \in {buf, Deref'}
  BY StoreStep
<1>2. {j \in Words : Deref[j] # buf[j]} \subseteq HdrWords(held)
  BY DerefFacts
<1>3. HdrWords(held) \in {HdrWords(h) : h \in Hdrs} \cup {{j} : j \in Words}
  BY DEF TypeOK
<1>4. Plain!Edit  BY <1>1, <1>2, <1>3 DEF Plain!Edit, Plain!Differ
<1>q. QED  BY <1>4 DEF Plain!Next

LEMMA PlainStep ==
  ASSUME TypeOK, HeldInv, Next
  PROVE  [Plain!Next]_(Plain!vars)
<1>0. TypeOK' /\ HeldInv'  BY TypeStep
<1>n. ASSUME held = "none"  PROVE copy = NoCopy /\ Deref = buf /\ Plain!Differ = {}
  <2>1. copy = NoCopy /\ Deref = buf  BY <1>n, DerefFacts
  <2>q. QED  BY <2>1 DEF Plain!Differ
<1>d. ASSUME copy' = NoCopy  PROVE Deref' = buf'
  <2>1. Deref' = [j \in Words |-> buf'[j]]  BY <1>d DEF Deref, NoCopy
  <2>q. QED  BY <1>0, <2>1 DEF TypeOK
<1>1. ASSUME NEW h \in Hdrs, header(h)  PROVE UNCHANGED Plain!vars
  <2>1. UNCHANGED <<buf, edits, pc>> /\ held = "none"  BY <1>1 DEF header
  <2>2. Deref = buf  BY <1>n, <2>1
  <2>3. Deref' = buf
    <3>1. CASE copy' = NoCopy  BY <1>d, <2>1, <3>1
    <3>2. CASE copy' = [i \in HdrWords(h) |-> buf[i]]
      <4>1. Deref' = [i \in Words |-> buf[i]]  BY <2>1, <3>2 DEF Deref
      <4>q. QED  BY <4>1 DEF TypeOK
    <3>q. QED  BY <1>1, <3>1, <3>2 DEF header
  <2>q. QED  BY <2>1, <2>2, <2>3 DEF Plain!vars
<1>2. ASSUME NEW h \in Hdrs, header_out_of_range(h)  PROVE Plain!Next
  <2>1. /\ pc = "running" /\ pc' = "panicked" /\ held = "none"
        /\ UNCHANGED <<buf, copy, edits>>
    BY <1>2 DEF header_out_of_range
  <2>2. Deref' = buf  BY <1>n, <1>d, <2>1
  <2>q. QED  BY <2>1, <2>2 DEF Plain!Next, Plain!Abort
<1>3. ASSUME NEW i \in Words, NEW v \in Values, deref_mut(i, v)  PROVE Plain!Next
  BY <1>3, PlainEdit DEF deref_mut
<1>4. ASSUME NEW i \in Words, NEW v \in Values, slice_write(i, v)  PROVE Plain!Next
  <2>1. /\ held = "none" /\ pc = "running" /\ UNCHANGED <<copy, pc>>
        /\ buf' = [buf EXCEPT ![i] = v] /\ edits' = edits + 1
    BY <1>4 DEF slice_write
  <2>2. Deref = buf /\ Deref' = buf' /\ Plain!Differ = {}  BY <1>n, <1>d, <2>1
  <2>3. {i} \in {HdrWords(h) : h \in Hdrs} \cup {{j} : j \in Words}  OBVIOUS
  <2>4. Plain!Edit  BY <2>1, <2>2, <2>3 DEF Plain!Edit
  <2>q. QED  BY <2>4 DEF Plain!Next
<1>5. CASE store_checksum
  <2>1. held = "ip" /\ held # "none" /\ pc = "running" /\ UNCHANGED pc /\ edits' = edits + 1
    BY <1>5 DEF store_checksum
  <2>2. EthLen + IpLen <= Cap  BY <2>1, HeldWords, HeaderFacts
  <2>3. compute_ip_checksum(Deref) \in Values  BY <2>2, DerefFacts, ChecksumIsWord
  <2>4. EthLen + CheckAt \in HdrWords(held)
    <3>1. /\ EthLen + CheckAt \in Int /\ EthLen <= EthLen + CheckAt
          /\ EthLen + CheckAt < EthLen + IpLen
      OBVIOUS
    <3>q. QED  BY <2>1, <3>1, HeaderFacts
  <2>q. QED  BY <1>5, <2>1, <2>3, <2>4, PlainEdit DEF store_checksum
<1>6. CASE drop_header
  <2>1. /\ pc = "running" /\ buf' = Deref /\ copy' = NoCopy /\ UNCHANGED <<pc, edits>>
    BY <1>6 DEF drop_header
  <2>2. Deref' = Deref  BY <1>d, <2>1
  <2>q. QED  BY <2>1, <2>2 DEF Plain!Next, Plain!Settle
<1>7. ASSUME NEW n \in Words \cup {Cap}, bpf_xdp_adjust_tail(n)  PROVE Plain!Next
  <2>1. /\ held = "none" /\ pc = "running" /\ UNCHANGED <<copy, pc, edits>>
        /\ buf' = [i \in Words |-> IF i < lin /\ i < n THEN buf[i] ELSE 0]
    BY <1>7 DEF bpf_xdp_adjust_tail
  <2>2. Deref = buf /\ Deref' = buf' /\ Plain!Differ = {}  BY <1>n, <1>d, <2>1
  <2>3. Deref' \in [Words -> Values]  BY <1>0, <2>2 DEF TypeOK
  <2>4. \A i \in Words : Deref'[i] \in {Deref[i], 0}  BY <2>1, <2>2
  <2>q. QED  BY <2>1, <2>2, <2>3, <2>4 DEF Plain!Next, Plain!Resize
<1>8. CASE UNCHANGED <<buf, copy, edits, pc>>
  BY <1>8 DEF Plain!vars, Deref
<1>9. CASE return
  <2>1. /\ held = "none" /\ pc = "running" /\ pc' = "returned"
        /\ UNCHANGED <<buf, copy, edits>>
    BY <1>9 DEF return
  <2>2. Deref' = Deref /\ Plain!Differ = {}  BY <1>n, <1>d, <2>1
  <2>q. QED  BY <2>1, <2>2 DEF Plain!Next, Plain!Return
<1>10. CASE panic
  <2>1. /\ pc = "running" /\ pc' = "panicked" /\ copy' = NoCopy /\ UNCHANGED <<buf, edits>>
    BY <1>10 DEF panic
  <2>2. Deref' = buf  BY <1>d, <2>1
  <2>q. QED  BY <2>1, <2>2 DEF Plain!Next, Plain!Abort
<1>q. QED
  BY <1>1, <1>2, <1>3, <1>4, <1>5, <1>6, <1>7, <1>8, <1>9, <1>10
     DEF Next, bpf_clone_redirect, bpf_clone_redirect_err

\* Behind references, copies and write-backs the program edits a packet in
\* place, and all it wrote is in the packet when it returns (utils.rs AlignedMut).
THEOREM PlainPacketImplemented == Spec => ImplementsPlainPacket
<1>1. Init => Plain!Init  BY PlainInit
<1>2. IInv /\ [Next]_vars => [Plain!Next]_(Plain!vars)
  <2>1. CASE Next  BY <2>1, PlainStep DEF IInv
  <2>2. CASE UNCHANGED vars  BY <2>2 DEF vars, Plain!vars, Deref
  <2>q. QED  BY <2>1, <2>2
<1>q. QED  BY <1>1, <1>2, Invariance, PTL DEF Spec, ImplementsPlainPacket, Plain!Spec

=============================================================================
