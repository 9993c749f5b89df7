---------------------------- MODULE Checksum_proof -----------------------------
(***************************************************************************)
(* The incremental checksum is right for words of any size: what           *)
(* diff_checksum() returns is a checksum of the packet with one address    *)
(* and port replaced by others, if the old value was one before.           *)
(*                                                                         *)
(* A word is a checksum of a sum if both add up to a multiple of B - 1,    *)
(* since folding a carry takes B - 1 away.  The accumulator is a difference*)
(* of five words, so that two rounds are enough to fold it.                *)
(***************************************************************************)
EXTENDS Checksum, WellFoundedInduction, TLAPS

\* Taken together they give the sum of ones that a receiver expects.
Complements(x, s) == \E k \in Int : x + s = k * (B - 1)

\* x and y differ by k carries.
Carried(x, y, k) == x = y + k * (B - 1)

LEMMA DivMod ==
  ASSUME NEW a \in Nat
  PROVE  /\ a \div B \in Nat /\ a % B \in Words
         /\ a = B * (a \div B) + (a % B)
BY BaseAssumption DEF Words

LEMMA ModSmall ==
  ASSUME NEW a \in Words
  PROVE  a % B = a /\ a \div B = 0
BY BaseAssumption DEF Words

\* One round of folding takes the carry times B - 1 away.
LEMMA FoldOnceCarried ==
  ASSUME NEW a \in Nat
  PROVE  FoldOnce(a) \in Nat /\ Carried(a, FoldOnce(a), a \div B)
<1>1. a \div B \in Nat /\ a % B \in Nat /\ a = B * (a \div B) + (a % B)
  BY DivMod DEF Words
<1> DEFINE q == a \div B
           r == a % B
<1> HIDE DEF q, r
<1>2. B * q + r = (q + r) + q * (B - 1)
  BY <1>1, BaseAssumption DEF q, r
<1> QED
  BY <1>1, <1>2 DEF FoldOnce, Carried, q, r

\* The accumulator is at most three words.
LEMMA FoldOnceBound ==
  ASSUME NEW a \in Nat, a <= 3 * (B - 1)
  PROVE  FoldOnce(a) <= B
<1> DEFINE q == a \div B
           r == a % B
<1>1. q \in Nat /\ r \in 0 .. B - 1 /\ a = B * q + r
  BY DivMod DEF Words
<1> HIDE DEF q, r
<1>2. q <= 2
  <2>1. SUFFICES ASSUME q >= 3 PROVE FALSE
    BY <1>1
  <2>2. B * q >= B * 3
    BY <1>1, <2>1, BaseAssumption
  <2> QED
    BY <1>1, <2>2, BaseAssumption
<1>3. CASE q = 0
  BY <1>1, <1>3, BaseAssumption DEF FoldOnce, q, r
<1>4. CASE q = 1
  BY <1>1, <1>4, BaseAssumption DEF FoldOnce, q, r
<1>5. CASE q = 2
  BY <1>1, <1>5, BaseAssumption DEF FoldOnce, q, r
<1> QED
  BY <1>1, <1>2, <1>3, <1>4, <1>5

\* Two rounds fold the accumulator to a word.
LEMMA FoldTwiceCarried ==
  ASSUME NEW a \in Nat, a <= 3 * (B - 1)
  PROVE  /\ FoldTwice(a) \in Words
         /\ \E k \in Nat : Carried(a, FoldTwice(a), k)
<1> DEFINE f == FoldOnce(a)
           q == a \div B
<1>1. f \in Nat /\ q \in Nat /\ Carried(a, f, q) /\ f <= B
  BY FoldOnceCarried, FoldOnceBound, DivMod
<1>2. FoldTwice(a) = (f + (f \div B)) % B
  BY DEF FoldTwice
<1> HIDE DEF f, q
<1>3. CASE f < B
  <2>1. f \in Words /\ f \div B = 0
    BY <1>1, <1>3, ModSmall, BaseAssumption DEF Words
  <2>2. FoldTwice(a) = f
    <3>1. f + (f \div B) = f /\ f % B = f
      BY <1>1, <2>1, ModSmall
    <3> QED
      BY <1>2, <3>1
  <2> QED
    BY <1>1, <2>1, <2>2
<1>4. CASE f = B
  <2>1. f \div B = 1 /\ (B + 1) % B = 1
    BY <1>4, BaseAssumption
  <2>2. FoldTwice(a) = 1
    BY <1>2, <1>4, <2>1
  <2>3. Carried(a, 1, q + 1)
    <3>1. B + q * (B - 1) = 1 + (q + 1) * (B - 1)
      BY <1>1, BaseAssumption
    <3> QED
      BY <1>1, <1>4, <3>1 DEF Carried
  <2> QED
    BY <1>1, <2>2, <2>3, BaseAssumption DEF Words
<1> QED
  BY <1>1, <1>3, <1>4, BaseAssumption

LEMMA AddressType ==
  ASSUME NEW n \in Addresses
  PROVE  Low(n) \in Words /\ High(n) = n \div B /\ High(n) \in Words /\ n = B * High(n) + Low(n)
<1> DEFINE q == n \div B
           r == n % B
<1>1. n \in Nat /\ n < B * B /\ B * B \in Nat
  BY BaseAssumption DEF Addresses
<1>2. q \in Nat /\ r \in 0 .. B - 1 /\ n = B * q + r
  BY <1>1, DivMod DEF Words
<1> HIDE DEF q, r
<1>3. q < B
  <2>1. SUFFICES ASSUME q >= B PROVE FALSE
    BY <1>2, BaseAssumption
  <2>2. B * q >= B * B
    BY <1>2, <2>1, BaseAssumption
  <2> QED
    BY <1>1, <1>2, <2>2, BaseAssumption
<1>4. q \in Words
  BY <1>2, <1>3, BaseAssumption DEF Words
<1>5. q % B = q
  BY <1>4, ModSmall
<1> QED
  BY <1>2, <1>4, <1>5 DEF Low, High, Words, q, r

\* An address is worth the sum of its words.
LEMMA AddressCarried ==
  ASSUME NEW n \in Addresses
  PROVE  AddressSum(n) \in 0 .. 2 * (B - 1) /\ Carried(n, AddressSum(n), High(n))
<1> DEFINE h == High(n)
           l == Low(n)
<1>1. l \in 0 .. B - 1 /\ h \in 0 .. B - 1 /\ n = B * h + l
  BY AddressType DEF Words
<1>2. AddressSum(n) = l + h
  BY DEF AddressSum
<1> HIDE DEF h, l
<1>3. B * h + l = (l + h) + h * (B - 1)
  BY <1>1, BaseAssumption
<1>4. l + h \in 0 .. 2 * (B - 1)
  BY <1>1, BaseAssumption
<1> QED
  BY <1>1, <1>2, <1>3, <1>4 DEF Carried, h

-----------------------------------------------------------------------------

LEMMA DiffCarried ==
  ASSUME NEW base \in Words, NEW orig \in Addresses, NEW alias \in Addresses
  PROVE  /\ diff_checksum(base, orig, alias) \in Words
         /\ \E k \in Int : Carried(Accumulated(base, orig, alias), diff_checksum(base, orig, alias), k)
<1> DEFINE acc == Accumulated(base, orig, alias)
           r == diff_checksum(base, orig, alias)
<1>1. /\ base \in 0 .. B - 1
      /\ AddressSum(orig) \in 0 .. 2 * (B - 1) /\ AddressSum(alias) \in 0 .. 2 * (B - 1)
  BY AddressCarried DEF Words
<1>2. acc \in Int /\ acc <= 3 * (B - 1) /\ -acc <= 3 * (B - 1)
  BY <1>1, BaseAssumption DEF Accumulated
<1>3. r = IF acc < 0 THEN B - 1 - FoldTwice(-acc) ELSE FoldTwice(acc)
  BY DEF diff_checksum
<1> HIDE DEF acc, r
<1>4. CASE acc < 0
  <2> DEFINE f == FoldTwice(-acc)
  <2>1. -acc \in Nat
    BY <1>2, <1>4
  <2>2. f \in Words /\ \E k \in Nat : Carried(-acc, f, k)
    BY <1>2, <2>1, FoldTwiceCarried
  <2>3. r = B - 1 - f
    BY <1>3, <1>4
  <2> HIDE DEF f
  <2>4. PICK k \in Nat : Carried(-acc, f, k)
    BY <2>2
  <2>5. f \in Int /\ r \in Words
    BY <2>2, <2>3, BaseAssumption DEF Words
  <2>6. -acc = f + k * (B - 1)
    BY <2>4 DEF Carried
  <2>7. k * (B - 1) \in Int /\ (-k - 1) * (B - 1) = -(k * (B - 1)) - (B - 1)
    BY BaseAssumption
  <2>8. acc = r + (-k - 1) * (B - 1)
    BY <1>2, <2>3, <2>5, <2>6, <2>7, BaseAssumption
  <2> QED
    BY <2>5, <2>8 DEF Carried, acc, r
<1>5. CASE ~(acc < 0)
  <2>1. acc \in Nat /\ r = FoldTwice(acc)
    BY <1>2, <1>3, <1>5
  <2>2. r \in Words /\ \E k \in Nat : Carried(acc, r, k)
    BY <1>2, <2>1, FoldTwiceCarried
  <2> QED
    BY <2>2 DEF acc, r
<1> QED
  BY <1>4, <1>5

\* diff_checksum() turns a checksum of s into one of s with the old words
\* taken out and the new ones put in (alias.h:612-637).
THEOREM DiffComplements ==
  ASSUME NEW base \in Words, NEW orig \in Addresses, NEW alias \in Addresses,
         NEW s \in Int, Complements(base, s)
  PROVE  /\ diff_checksum(base, orig, alias) \in Words
         /\ Complements(diff_checksum(base, orig, alias), s - AddressSum(orig) + AddressSum(alias))
<1> DEFINE r == diff_checksum(base, orig, alias)
           o == AddressSum(orig)
           a == AddressSum(alias)
<1>1. r \in Words /\ \E k \in Int : base + o - a = r + k * (B - 1)
  BY DiffCarried DEF Carried, Accumulated
<1>2. o \in Int /\ a \in Int /\ base \in Int /\ r \in Int
  BY <1>1, AddressCarried DEF Words
<1>3. PICK c \in Int : base + s = c * (B - 1)
  BY DEF Complements
<1> HIDE DEF r, o, a
<1>4. PICK k \in Int : base + o - a = r + k * (B - 1)
  BY <1>1
<1>5. /\ c * (B - 1) \in Int /\ k * (B - 1) \in Int /\ c - k \in Int
      /\ (c - k) * (B - 1) = c * (B - 1) - k * (B - 1)
  BY BaseAssumption
<1>6. r + (s - o + a) = (c - k) * (B - 1)
  BY <1>2, <1>3, <1>4, <1>5
<1>7. Complements(r, s - o + a)
  BY <1>5, <1>6 DEF Complements
<1> QED
  BY <1>1, <1>7 DEF r, o, a

\* What the division does not see of an address plus a port.
Lost(n) == IF n >= B * B THEN 1 ELSE 0

\* Quotient and remainder are what makes up the number.
LEMMA DivModUnique ==
  ASSUME NEW W \in Nat \ {0}, NEW q \in Nat, NEW r \in 0 .. W - 1
  PROVE  (W * q + r) \div W = q /\ (W * q + r) % W = r
<1> DEFINE a == W * q + r
           d == a \div W
           m == a % W
<1>1. a \in Nat
  OBVIOUS
<1>2. d \in Nat /\ m \in 0 .. W - 1 /\ a = W * d + m
  BY <1>1
<1>3. a = W * q + r
  OBVIOUS
<1> HIDE DEF a, d, m
<1>4. W * (d - q) = r - m /\ d - q \in Int
  <2>1. W * d \in Int /\ W * q \in Int /\ W * (d - q) = W * d - W * q
    BY <1>2
  <2> QED
    BY <1>2, <1>3, <2>1
<1>5. d - q = 0
  <2>1. CASE d - q >= 1
    <3>1. W * (d - q) >= W
      BY <1>4, <2>1
    <3> QED
      BY <1>2, <1>3, <1>4, <3>1
  <2>2. CASE d - q <= -1
    <3>1. W * (d - q) <= -W
      BY <1>4, <2>2
    <3> QED
      BY <1>2, <1>3, <1>4, <3>1
  <2> QED
    BY <1>4, <2>1, <2>2
<1>6. d = q /\ m = r
  BY <1>2, <1>3, <1>4, <1>5
<1> QED
  BY <1>6 DEF a, d, m

\* An address and a port are at most one carry above two words, and of that
\* number the two words are read that are left without the carry.
LEMMA EndpointSum ==
  ASSUME NEW ip \in Addresses, NEW port \in Words
  PROVE  \E n \in Addresses :
           ip + port = n + Lost(ip + port) * (B * B) /\ AddressSum(ip + port) = AddressSum(n)
<1> DEFINE x == ip + port
           w == B * B
<1>1. /\ w \in Nat /\ w >= B + B /\ x \in Nat /\ x < w + B /\ B \in Nat
      /\ Addresses = 0 .. w - 1
  BY BaseAssumption DEF Addresses, Words
<1> HIDE DEF x, w
<1>2. CASE x < w
  BY <1>1, <1>2 DEF Lost, x, w
<1>3. CASE x >= w
  <2> DEFINE n == x - w
             h == High(n)
             l == Low(n)
  <2>1. n \in Addresses
    BY <1>1, <1>3
  <2>2. h \in Words /\ l \in Words /\ n = B * h + l
    BY <2>1, AddressType
  <2>3. x = n + w
    BY <1>1
  <2> HIDE DEF n, h, l
  <2>4. h \in Nat /\ l \in Nat /\ h + B \in Nat
    BY <1>1, <2>2 DEF Words
  <2>5. x = B * (h + B) + l
    BY <1>1, <2>2, <2>3, <2>4 DEF w
  <2>6. x \div B = h + B /\ x % B = l
    BY <2>2, <2>4, <2>5, DivModUnique, BaseAssumption DEF Words
  <2>7. (h + B) % B = h
    <3>1. h + B = B * 1 + h
      BY <1>1, <2>4
    <3> QED
      BY <2>2, <3>1, DivModUnique, BaseAssumption DEF Words
  <2>8. AddressSum(x) = l + h
    BY <2>6, <2>7 DEF AddressSum, Low, High
  <2>9. AddressSum(n) = l + h
    BY DEF AddressSum, l, h
  <2>10. x = n + Lost(x) * w
    BY <1>1, <1>3, <2>1, <2>3 DEF Lost, w
  <2> QED
    BY <2>1, <2>8, <2>9, <2>10 DEF x, w
<1> QED
  BY <1>1, <1>2, <1>3

\* As two words, an address and a port are worth the address's words and the
\* port, but for a carry that is lost: it is worth one.
LEMMA EndpointCarried ==
  ASSUME NEW ip \in Addresses, NEW port \in Words
  PROVE  /\ AddressSum(ip) + port \in Int /\ AddressSum(ip + port) \in Int
         /\ Lost(ip + port) \in {0, 1}
         /\ \E k \in Int :
              AddressSum(ip) + port = AddressSum(ip + port) + Lost(ip + port) + k * (B - 1)
<1>1. PICK n \in Addresses :
        ip + port = n + Lost(ip + port) * (B * B) /\ AddressSum(ip + port) = AddressSum(n)
  BY EndpointSum
<1> DEFINE x == AddressSum(ip)
           y == AddressSum(n)
           h == High(ip)
           g == High(n)
           c == Lost(ip + port)
           m == B - 1
<1>2. c \in {0, 1}
  BY DEF Lost
<1>3. x \in Int /\ h \in Int /\ ip = x + h * m
  BY AddressCarried, AddressType DEF Carried, Words
<1>4. y \in Int /\ g \in Int /\ n = y + g * m
  BY AddressCarried, AddressType DEF Carried, Words
<1>5. AddressSum(ip + port) = y /\ ip + port = n + c * (B * B)
  BY <1>1
<1>6. ip \in Int /\ port \in Int /\ n \in Int /\ m \in Int
  BY BaseAssumption DEF Addresses, Words
<1>7. c * (B * B) = c + (c * (B + 1)) * m /\ c * (B + 1) \in Int
  BY <1>2, BaseAssumption
<1> HIDE DEF x, y, h, g, c
<1> DEFINE hm == h * m
           gm == g * m
           k == c * (B + 1)
           km == k * m
<1>8. /\ hm \in Int /\ gm \in Int /\ km \in Int /\ g - h + k \in Int
      /\ (g - h + k) * m = gm - hm + km
  BY <1>3, <1>4, <1>6, <1>7, BaseAssumption
<1>9. ip = x + hm /\ n = y + gm /\ ip + port = n + (c + km)
  BY <1>3, <1>4, <1>5, <1>7
<1> HIDE DEF hm, gm, k, km
<1>10. x + port = y + c + (gm - hm + km)
  BY <1>2, <1>3, <1>4, <1>6, <1>8, <1>9
<1>11. x + port = y + c + (g - h + k) * m
  BY <1>8, <1>10
<1> HIDE DEF m
<1>12. x + port \in Int
  BY <1>3, <1>6
<1> QED
  BY <1>2, <1>4, <1>5, <1>8, <1>11, <1>12 DEF x, y, c, m

\* Adding up an address and a port first, as set_diff_checksum() does, is as
\* good as replacing both, but that the result is off by the carries that are
\* lost: by nothing, or by one (alias.h:639-663).
THEOREM TranslatedComplements ==
  ASSUME NEW sum \in Words, NEW orig_ip \in Addresses, NEW orig_port \in Words,
         NEW alias_ip \in Addresses, NEW alias_port \in Words,
         NEW s \in Int, Complements(sum, s)
  PROVE  LET off == Lost(orig_ip + orig_port) - Lost(alias_ip + alias_port) IN
         /\ set_diff_checksum(sum, orig_ip, orig_port, alias_ip, alias_port) \in Words
         /\ Complements(set_diff_checksum(sum, orig_ip, orig_port, alias_ip, alias_port),
              s - (AddressSum(orig_ip) + orig_port) + (AddressSum(alias_ip) + alias_port) + off)
<1> DEFINE r == set_diff_checksum(sum, orig_ip, orig_port, alias_ip, alias_port)
           o == AddressSum(orig_ip) + orig_port
           a == AddressSum(alias_ip) + alias_port
           p == AddressSum(orig_ip + orig_port)
           b == AddressSum(alias_ip + alias_port)
           lo == Lost(orig_ip + orig_port)
           la == Lost(alias_ip + alias_port)
<1>1. r \in Words /\ Complements(r, s - p + b)
  <2>1. PICK m \in Addresses : p = AddressSum(m)
    BY EndpointSum
  <2>2. PICK n \in Addresses : b = AddressSum(n)
    BY EndpointSum
  <2>3. r = diff_checksum(sum, m, n)
    BY <2>1, <2>2 DEF set_diff_checksum, diff_checksum, Accumulated
  <2> HIDE DEF r, p, b
  <2> QED
    BY <2>1, <2>2, <2>3, DiffComplements
<1>2. /\ o \in Int /\ p \in Int /\ lo \in {0, 1}
      /\ \E k \in Int : o = p + lo + k * (B - 1)
  BY EndpointCarried
<1>3. /\ a \in Int /\ b \in Int /\ la \in {0, 1}
      /\ \E k \in Int : a = b + la + k * (B - 1)
  BY EndpointCarried
<1> HIDE DEF r, o, a, p, b, lo, la
<1>4. PICK i \in Int : o = p + lo + i * (B - 1)
  BY <1>2
<1>5. PICK j \in Int : a = b + la + j * (B - 1)
  BY <1>3
<1>6. PICK c \in Int : r + (s - p + b) = c * (B - 1)
  BY <1>1 DEF Complements
<1>7. /\ i * (B - 1) \in Int /\ j * (B - 1) \in Int /\ c * (B - 1) \in Int /\ c - i + j \in Int
      /\ (c - i + j) * (B - 1) = c * (B - 1) - i * (B - 1) + j * (B - 1)
  BY BaseAssumption
<1>8. r + (s - o + a + (lo - la)) = (c - i + j) * (B - 1)
  <2>1. r \in Int
    BY <1>1 DEF Words
  <2> QED
    BY <1>2, <1>3, <1>4, <1>5, <1>6, <1>7, <2>1
<1> QED
  BY <1>1, <1>7, <1>8 DEF Complements, r, o, a, lo, la

\* A sum has one checksum, up to the two zeros: what the theorems above say
\* is that translating gives what summing anew would (alias.h:507-530).
THEOREM ComplementUnique ==
  ASSUME NEW x \in Words, NEW y \in Words, NEW s \in Int, Complements(x, s), Complements(y, s)
  PROVE  SameChecksum(x, y)
<1>1. PICK i \in Int : x + s = i * (B - 1)
  BY DEF Complements
<1>2. PICK j \in Int : y + s = j * (B - 1)
  BY DEF Complements
<1>3. x \in 0 .. B - 1 /\ y \in 0 .. B - 1
  BY DEF Words
<1>4. /\ x - y = (i - j) * (B - 1) /\ i - j \in Int
  <2>1. i * (B - 1) \in Int /\ j * (B - 1) \in Int /\ (i - j) * (B - 1) = i * (B - 1) - j * (B - 1)
    BY BaseAssumption
  <2> QED
    BY <1>1, <1>2, <1>3, <2>1, BaseAssumption
<1>5. i - j \in {-1, 0, 1}
  <2>1. CASE i - j >= 2
    <3>1. (i - j) * (B - 1) >= 2 * (B - 1)
      BY <1>4, <2>1, BaseAssumption
    <3> QED
      BY <1>3, <1>4, <3>1, BaseAssumption
  <2>2. CASE i - j <= -2
    <3>1. (i - j) * (B - 1) <= -2 * (B - 1)
      BY <1>4, <2>2, BaseAssumption
    <3> QED
      BY <1>3, <1>4, <3>1, BaseAssumption
  <2> QED
    BY <1>4, <2>1, <2>2
<1>6. x = y \/ (x = 0 /\ y = B - 1) \/ (x = B - 1 /\ y = 0)
  BY <1>3, <1>4, <1>5, BaseAssumption
<1> QED
  BY <1>6 DEF SameChecksum

\* A sum that is off by one has another checksum.
LEMMA ComplementsDiffer ==
  ASSUME NEW x \in Words, NEW y \in Words, NEW s \in Int, NEW d \in {-1, 1},
         Complements(x, s), Complements(y, s + d)
  PROVE  ~SameChecksum(x, y)
<1> SUFFICES ASSUME SameChecksum(x, y) PROVE FALSE
  OBVIOUS
<1>1. PICK i \in Int : x + s = i * (B - 1)
  BY DEF Complements
<1>2. PICK j \in Int : y + (s + d) = j * (B - 1)
  BY DEF Complements
<1>3. x \in Int /\ y \in Int /\ (x - y = 0 \/ x - y = B - 1 \/ x - y = -(B - 1))
  BY BaseAssumption DEF SameChecksum, Words
<1>4. \E k \in Int : x - y = k * (B - 1)
  <2>1. 0 * (B - 1) = 0 /\ 1 * (B - 1) = B - 1 /\ (-1) * (B - 1) = -(B - 1)
    BY BaseAssumption
  <2>2. CASE x - y = 0
    BY <2>1, <2>2
  <2>3. CASE x - y = B - 1
    BY <2>1, <2>3
  <2>4. CASE x - y = -(B - 1)
    <3>1. x - y = (-1) * (B - 1) /\ -1 \in Int
      BY <2>1, <2>4
    <3> QED
      BY <3>1
  <2> QED
    BY <1>3, <2>2, <2>3, <2>4
<1>5. PICK k \in Int : x - y = k * (B - 1)
  BY <1>4
<1>6. /\ i * (B - 1) \in Int /\ j * (B - 1) \in Int /\ k * (B - 1) \in Int /\ j - i + k \in Int
      /\ (j - i + k) * (B - 1) = j * (B - 1) - i * (B - 1) + k * (B - 1)
  BY BaseAssumption
<1>7. d = (j - i + k) * (B - 1)
  BY <1>1, <1>2, <1>3, <1>5, <1>6
<1> DEFINE e == j - i + k
<1>8. e \in Int /\ d = e * (B - 1)
  BY <1>6, <1>7
<1> HIDE DEF e
<1>9. CASE e >= 1
  <2>1. e * (B - 1) >= B - 1
    BY <1>8, <1>9, BaseAssumption
  <2> QED
    BY <1>8, <2>1, BaseAssumption
<1>10. CASE e <= -1
  <2>1. e * (B - 1) <= -(B - 1)
    BY <1>8, <1>10, BaseAssumption
  <2> QED
    BY <1>8, <2>1, BaseAssumption
<1>11. CASE e = 0
  BY <1>8, <1>11, BaseAssumption
<1> QED
  BY <1>8, <1>9, <1>10, <1>11

\* Both zeros are checksums of the same sums.
LEMMA SameComplements ==
  ASSUME NEW x \in Words, NEW y \in Words, NEW s \in Int, SameChecksum(x, y), Complements(y, s)
  PROVE  Complements(x, s)
<1>1. PICK i \in Int : y + s = i * (B - 1)
  BY DEF Complements
<1>2. x = y \/ (x = 0 /\ y = B - 1) \/ (x = B - 1 /\ y = 0)
  BY DEF SameChecksum
<1>3. CASE x = y
  BY <1>3
<1>4. CASE x = 0 /\ y = B - 1
  <2>1. (i - 1) * (B - 1) = i * (B - 1) - (B - 1) /\ i * (B - 1) \in Int /\ i - 1 \in Int
    BY BaseAssumption
  <2>2. x + s = (i - 1) * (B - 1)
    BY <1>1, <1>4, <2>1, BaseAssumption
  <2> QED
    BY <2>1, <2>2 DEF Complements
<1>5. CASE x = B - 1 /\ y = 0
  <2>1. (i + 1) * (B - 1) = i * (B - 1) + (B - 1) /\ i * (B - 1) \in Int /\ i + 1 \in Int
    BY BaseAssumption
  <2>2. x + s = (i + 1) * (B - 1)
    BY <1>1, <1>5, <2>1, BaseAssumption
  <2> QED
    BY <2>1, <2>2 DEF Complements
<1> QED
  BY <1>2, <1>3, <1>4, <1>5

-----------------------------------------------------------------------------
(* The loop of checksum() *)

\* Every set of numbers has a least one: what induction comes down to when
\* the statement is a set.
LEMMA LeastElement ==
  ASSUME NEW T \in SUBSET Nat, T # {}
  PROVE  \E n \in T : \A m \in T : n <= m
<1>1. PICK n \in T : \A m \in T : ~(<<m, n>> \in OpToRel(<, Nat))
  <2>1. T \subseteq Nat
    OBVIOUS
  <2> QED
    BY <2>1, NatLessThanWellFounded, WFMin
<1>2. ASSUME NEW m \in T
      PROVE  n <= m
  <2>1. ~(m < n)
    BY <1>1 DEF OpToRel
  <2> QED
    BY <2>1
<1> QED
  BY <1>2

\* A round of folding makes a number smaller and never makes it zero.
LEMMA FoldOnceSmaller ==
  ASSUME NEW s \in Nat, s >= B
  PROVE  FoldOnce(s) \in Nat /\ FoldOnce(s) < s /\ FoldOnce(s) > 0
<1> DEFINE q == s \div B
           r == s % B
<1>1. q \in Nat /\ r \in 0 .. B - 1 /\ s = B * q + r
  BY DivMod DEF Words
<1>2. FoldOnce(s) = q + r
  BY DEF FoldOnce
<1> HIDE DEF q, r
<1>3. q >= 1
  BY <1>1, BaseAssumption
<1>4. B * q > q
  BY <1>1, <1>3, BaseAssumption
<1> QED
  BY <1>1, <1>2, <1>3, <1>4, BaseAssumption

\* The recursive definition has a solution: the remainder modulo B - 1, with
\* B - 1 for the multiples that are not zero.
LEMMA FoldedExists ==
  \E f : f = [s \in Nat |-> IF s < B THEN s ELSE f[FoldOnce(s)]]
<1> DEFINE last(s) == 1 + ((s - 1) % (B - 1))
           f == [s \in Nat |-> IF s < B THEN s ELSE last(s)]
<1>1. ASSUME NEW s \in Nat, s >= B
      PROVE  f[FoldOnce(s)] = last(s)
  <2> DEFINE t == FoldOnce(s)
             q == s \div B
             W == B - 1
  <2>1. t \in Nat /\ t > 0 /\ q \in Nat /\ s = t + q * W
    BY <1>1, FoldOnceSmaller, FoldOnceCarried, DivMod DEF Carried
  <2>2. W \in Nat \ {0} /\ t - 1 \in Nat /\ q * W \in Nat
    BY <2>1, BaseAssumption
  <2> DEFINE d == (t - 1) \div W
             r == (t - 1) % W
  <2>3. d \in Nat /\ r \in 0 .. W - 1 /\ t - 1 = W * d + r
    <3> DEFINE u == t - 1
    <3>1. u \in Nat /\ W \in Nat \ {0}
      BY <2>2
    <3> HIDE DEF t, q, W, u
    <3>2. u \div W \in Nat /\ u % W \in 0 .. W - 1 /\ u = W * (u \div W) + (u % W)
      BY <3>1
    <3> QED
      BY <3>2 DEF u
  <2>4. s - 1 = W * (q + d) + r
    <3> HIDE DEF t, q, W, d, r
    <3>1. W * (q + d) = q * W + W * d
      BY <2>1, <2>2, <2>3
    <3> DEFINE qW == q * W
               Wd == W * d
    <3>2. qW \in Nat /\ Wd \in Int /\ s = t + qW /\ t - 1 = Wd + r /\ W * (q + d) = qW + Wd
      BY <2>1, <2>2, <2>3, <3>1
    <3> HIDE DEF qW, Wd
    <3> QED
      BY <2>1, <2>3, <3>2
  <2>5. (s - 1) % W = r
    <3> HIDE DEF t, q, W, d, r
    <3> QED
      BY <2>1, <2>2, <2>3, <2>4, DivModUnique
  <2>6. last(s) = last(t)
    BY <2>5
  <2>7. CASE t < B
    <3>1. t - 1 \in 0 .. W - 1
      BY <2>1, <2>7, BaseAssumption
    <3>2. (t - 1) % W = t - 1
      <4> HIDE DEF W, t
      <4>1. t - 1 = W * 0 + (t - 1)
        BY <2>2
      <4> QED
        BY <2>2, <3>1, <4>1, DivModUnique
    <3> HIDE DEF t
    <3>3. last(t) = t
      BY <2>1, <3>2
    <3> QED
      BY <2>1, <2>6, <2>7, <3>3 DEF t
  <2>8. CASE ~(t < B)
    <3> HIDE DEF t
    <3> QED
      BY <2>1, <2>6, <2>8 DEF t
  <2> QED
    BY <2>7, <2>8
<1> HIDE DEF last
<1>2. f = [s \in Nat |-> IF s < B THEN s ELSE f[FoldOnce(s)]]
  <2>1. ASSUME NEW s \in Nat
        PROVE  f[s] = IF s < B THEN s ELSE f[FoldOnce(s)]
    <3>1. f[s] = IF s < B THEN s ELSE last(s)
      OBVIOUS
    <3> HIDE DEF f
    <3>2. CASE s < B
      BY <3>1, <3>2
    <3>3. CASE ~(s < B)
      <4>1. s >= B
        BY <3>3, BaseAssumption
      <4>2. f[FoldOnce(s)] = last(s)
        BY <1>1, <4>1
      <4> QED
        BY <3>1, <3>3, <4>2
    <3> QED
      BY <3>2, <3>3
  <2> QED
    BY <2>1
<1> QED
  BY <1>2

LEMMA FoldedStep ==
  ASSUME NEW s \in Nat
  PROVE  folded[s] = IF s < B THEN s ELSE folded[FoldOnce(s)]
<1>1. folded = [n \in Nat |-> IF n < B THEN n ELSE folded[FoldOnce(n)]]
  BY FoldedExists DEF folded
<1> QED
  BY <1>1

\* The loop ends with a word, and has taken multiples of B - 1 away.
LEMMA FoldedCarried ==
  ASSUME NEW s \in Nat
  PROVE  folded[s] \in Words /\ \E k \in Nat : Carried(s, folded[s], k)
<1> DEFINE Good(n) == folded[n] \in Words /\ \E k \in Nat : Carried(n, folded[n], k)
           Bad == {n \in Nat : ~Good(n)}
<1> SUFFICES ASSUME Bad # {} PROVE FALSE
  OBVIOUS
<1>1. PICK n \in Bad : \A m \in Bad : n <= m
  BY LeastElement
<1>2. n \in Nat
  OBVIOUS
<1>3. CASE n < B
  <2>1. folded[n] = n
    BY <1>2, <1>3, FoldedStep
  <2>2. n = n + 0 * (B - 1) /\ n \in Words
    BY <1>2, <1>3, BaseAssumption DEF Words
  <2>3. Good(n)
    BY <2>1, <2>2 DEF Carried
  <2> QED
    BY <2>3
<1>4. CASE ~(n < B)
  <2> DEFINE t == FoldOnce(n)
             q == n \div B
  <2>1. t \in Nat /\ t < n /\ q \in Nat /\ n = t + q * (B - 1)
    <3>1. n >= B
      BY <1>2, <1>4, BaseAssumption
    <3>2. FoldOnce(n) \in Nat /\ FoldOnce(n) < n
      BY <1>2, <3>1, FoldOnceSmaller
    <3>3. n \div B \in Nat
      BY <1>2, DivMod
    <3>4. n = FoldOnce(n) + (n \div B) * (B - 1)
      BY <1>2, FoldOnceCarried DEF Carried
    <3> QED
      BY <3>2, <3>3, <3>4
  <2>2. folded[n] = folded[t]
    BY <1>2, <1>4, FoldedStep
  <2> HIDE DEF t, q
  <2>3. Good(t)
    BY <1>1, <1>2, <2>1
  <2> DEFINE g == folded[t]
  <2>4. g \in Words /\ \E k \in Nat : t = g + k * (B - 1)
    BY <2>3 DEF Carried
  <2> HIDE DEF g
  <2>5. PICK k \in Nat : t = g + k * (B - 1)
    BY <2>4
  <2>6. /\ k * (B - 1) \in Int /\ q * (B - 1) \in Int /\ k + q \in Nat /\ g \in Int
        /\ (k + q) * (B - 1) = k * (B - 1) + q * (B - 1)
    BY <2>1, <2>4, BaseAssumption DEF Words
  <2>7. n = g + (k + q) * (B - 1)
    BY <2>1, <2>5, <2>6
  <2>8. Good(n)
    BY <2>2, <2>4, <2>6, <2>7 DEF Carried, g
  <2> QED
    BY <2>8
<1> QED
  BY <1>3, <1>4

\* checksum() returns a checksum of what it has summed up (alias.h:507-530).
THEOREM ChecksumComplements ==
  ASSUME NEW s \in Nat
  PROVE  checksum(s) \in Words /\ Complements(checksum(s), s)
<1> DEFINE f == folded[s]
<1>1. f \in Words /\ \E k \in Nat : s = f + k * (B - 1)
  BY FoldedCarried DEF Carried
<1>2. checksum(s) = B - 1 - f
  BY DEF checksum
<1> HIDE DEF f
<1>3. PICK k \in Nat : s = f + k * (B - 1)
  BY <1>1
<1>4. f \in 0 .. B - 1 /\ k * (B - 1) \in Int /\ (k + 1) * (B - 1) = k * (B - 1) + (B - 1)
  BY <1>1, BaseAssumption DEF Words
<1>5. checksum(s) \in Words /\ checksum(s) + s = (k + 1) * (B - 1)
  BY <1>2, <1>3, <1>4, BaseAssumption DEF Words
<1> QED
  BY <1>5 DEF Complements
=============================================================================
