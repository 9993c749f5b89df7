-------------------------- MODULE PoolServer_proof --------------------------
(***************************************************************************)
(* The pool server and its natportes, for any number of natportes,         *)
(* connections, addresses, clients and ports, and for streams that are cut *)
(* anywhere: the pool follows the connections, every line is a message,    *)
(* and no release makes the server throw.                                  *)
(*                                                                         *)
(* The inductive invariant is SessionInv of module PoolServer.  The two    *)
(* databases keep theirs by the proof of module Entry_proof.  In every     *)
(* stream texts and newlines take turns, so split() yields the texts one   *)
(* by one; the initialize is the first of them, so an address list is      *)
(* named once; and a release is of an entry that an answer brought, so its *)
(* client has a key.                                                       *)
(***************************************************************************)
EXTENDS PoolServer, SequenceTheorems, WellFoundedInduction, TLAPS

TcpServer ==
    INSTANCE Entry_proof WITH pool_addrs <- tcp_addrs, pool_ports <- tcp_ports,
                              clients <- tcp_clients, db <- tcp_db, result <- tcp_result
UdpServer ==
    INSTANCE Entry_proof WITH pool_addrs <- udp_addrs, pool_ports <- udp_ports,
                              clients <- udp_clients, db <- udp_db, result <- udp_result

-----------------------------------------------------------------------------
(* Numbers *)

\* A set of numbers that has 0, and with each number below N the next one,
\* has all up to N.
LEMMA UpTo ==
  ASSUME NEW N \in Nat, NEW T, 0 \in T,
         \A n \in 0 .. N : n < N /\ n \in T => n + 1 \in T
  PROVE  0 .. N \subseteq T
<1> SUFFICES ASSUME ~(0 .. N \subseteq T) PROVE FALSE
  OBVIOUS
<1> DEFINE Bad == (0 .. N) \ T
<1>1. Bad \subseteq Nat /\ Bad # {}
  OBVIOUS
<1>2. PICK n \in Bad : \A m \in Bad : ~(<<m, n>> \in OpToRel(<, Nat))
  BY <1>1, NatLessThanWellFounded, WFMin
<1>3. n \in 0 .. N /\ n \notin T /\ n # 0
  OBVIOUS
<1>4. n - 1 \in 0 .. N /\ n - 1 < N /\ (n - 1) + 1 = n
  BY <1>3
<1>5. n - 1 \notin T
  BY <1>3, <1>4
<1>6. <<n - 1, n>> \in OpToRel(<, Nat)
  BY <1>3, <1>4 DEF OpToRel
<1> QED
  BY <1>2, <1>4, <1>5, <1>6

LEMMA ZeroOne == \A n \in Nat : n <= 1 => n \in 0 .. 1
OBVIOUS

LEMMA ShortSeq ==
  ASSUME NEW S, NEW q \in Seq(S), Len(q) <= 1
  PROVE  \/ q = <<>> /\ Len(q) = 0
         \/ q = <<q[1]>> /\ q[1] \in S /\ q # <<>> /\ Len(q) = 1
<1>1. Len(q) \in Nat
  BY LenProperties
<1>2. CASE Len(q) = 0
  BY <1>2, EmptySeq
<1>3. CASE Len(q) = 1
  <2>1. 1 \in 1 .. Len(q)
    BY <1>3
  <2>2. q[1] \in S
    BY <2>1, ElementOfSeq
  <2>3. <<q[1]>> \in Seq(S) /\ Len(<<q[1]>>) = 1 /\ <<q[1]>>[1] = q[1]
    BY <2>2
  <2>4. \A i \in 1 .. 1 : q[i] = <<q[1]>>[i]
    BY <2>3
  <2>5. q = <<q[1]>>
    BY <1>3, <2>3, <2>4, SeqEqual
  <2> QED
    BY <1>3, <2>2, <2>5, EmptySeq
<1>4. Len(q) \in 0 .. 1
  BY <1>1, ZeroOne
<1> QED
  BY <1>4, <1>2, <1>3

LEMMA EvenFact ==
  /\ Even(0) /\ ~Even(1)
  /\ \A n \in Nat : Even(n + 1) <=> ~Even(n)
  /\ \A n \in Nat : Even(n + 2) <=> Even(n)
BY DEF Even

LEMMA HalfFact ==
  ASSUME NEW n \in Nat
  PROVE  /\ n \div 2 \in Nat
         /\ Even(n) => n = 2 * (n \div 2) /\ (n + 1) \div 2 = n \div 2
         /\ ~Even(n) => n = 2 * (n \div 2) + 1 /\ (n + 1) \div 2 = (n \div 2) + 1
BY DEF Even

-----------------------------------------------------------------------------
(* What split() yields *)

\* The lines after the first n tokens of a stream in which texts and newlines
\* take turns.
After(stream, n) ==
    [j \in 1 .. (n \div 2) + 1 |-> IF 2 * j - 1 <= n THEN <<stream[2 * j - 1]>> ELSE <<>>]

LEMMA AfterStep ==
  ASSUME NEW stream, NEW n \in Nat
  PROVE  /\ ~Even(n) => After(stream, n + 1) = Append(After(stream, n), <<>>)
         /\ Even(n) => After(stream, n + 1) =
              [After(stream, n) EXCEPT ![Len(After(stream, n))] = Append(@, stream[n + 1])]
<1> DEFINE h == n \div 2
           a == After(stream, n)
<1>1. h \in Nat /\ Len(a) = h + 1 /\ DOMAIN a = 1 .. h + 1
  BY HalfFact DEF After
<1>2. CASE ~Even(n)
  <2>1. n = 2 * h + 1 /\ (n + 1) \div 2 = h + 1
    BY <1>2, HalfFact
  <2>2. After(stream, n + 1) = [j \in 1 .. (h + 1) + 1 |-> IF 2 * j - 1 <= n + 1 THEN <<stream[2 * j - 1]>> ELSE <<>>]
    BY <2>1 DEF After
  <2>3. Append(a, <<>>) = [j \in 1 .. (h + 1) + 1 |-> IF j = (h + 1) + 1 THEN <<>> ELSE a[j]]
    <3> DEFINE S == {a[j] : j \in 1 .. h + 1} \cup {<<>>}
    <3>1. a = [j \in 1 .. h + 1 |-> a[j]]
      BY <1>1 DEF After
    <3> HIDE DEF a, h
    <3>2. a \in [1 .. h + 1 -> S] /\ <<>> \in S
      BY <3>1
    <3> HIDE DEF S
    <3>3. a \in Seq(S)
      BY <3>2, <1>1
    <3> DEFINE b == Append(a, <<>>)
    <3>4. /\ b \in Seq(S) /\ Len(b) = (h + 1) + 1
          /\ \A j \in 1 .. h + 1 : b[j] = a[j]
          /\ b[(h + 1) + 1] = <<>>
      BY <3>2, <3>3, <1>1, AppendProperties
    <3> HIDE DEF b
    <3>5. b = [j \in 1 .. (h + 1) + 1 |-> b[j]]
      BY <3>4
    <3>6. \A j \in 1 .. (h + 1) + 1 : b[j] = IF j = (h + 1) + 1 THEN <<>> ELSE a[j]
      BY <3>4, <1>1
    <3>7. b = [j \in 1 .. (h + 1) + 1 |-> IF j = (h + 1) + 1 THEN <<>> ELSE a[j]]
      BY <3>5, <3>6, Zenon
    <3> QED
      BY <3>7 DEF b
  <2> HIDE DEF h, a
  <2>4. ASSUME NEW j \in 1 .. (h + 1) + 1
        PROVE  (IF 2 * j - 1 <= n + 1 THEN <<stream[2 * j - 1]>> ELSE <<>>)
                 = (IF j = (h + 1) + 1 THEN <<>> ELSE a[j])
    <3>1. CASE j = h + 2
      BY <3>1, <1>1, <2>1
    <3>2. CASE j # h + 2
      <4>1. j \in 1 .. h + 1 /\ 2 * j - 1 <= n
        BY <3>2, <1>1, <2>1
      <4>2. a[j] = <<stream[2 * j - 1]>>
        BY <4>1 DEF a, h, After
      <4> QED
        BY <4>1, <4>2, <3>2, <1>1, <2>1
    <3> QED
      BY <3>1, <3>2
  <2> QED
    BY <1>2, <2>2, <2>3, <2>4 DEF a
<1>3. CASE Even(n)
  <2>1. n = 2 * h /\ (n + 1) \div 2 = h
    BY <1>3, HalfFact
  <2>2. After(stream, n + 1) = [j \in 1 .. h + 1 |-> IF 2 * j - 1 <= n + 1 THEN <<stream[2 * j - 1]>> ELSE <<>>]
    BY <2>1 DEF After
  <2>3. a[h + 1] = <<>>
    BY <2>1, <1>1 DEF After
  <2>4. [a EXCEPT ![Len(a)] = Append(@, stream[n + 1])]
          = [j \in 1 .. h + 1 |-> IF j = h + 1 THEN <<stream[n + 1]>> ELSE a[j]]
    <3>1. Append(a[h + 1], stream[n + 1]) = <<stream[n + 1]>>
      BY <2>3
    <3>2. a = [j \in 1 .. h + 1 |-> a[j]]
      BY <1>1 DEF After
    <3> HIDE DEF a, h
    <3> QED
      BY <3>1, <3>2, <1>1
  <2>5. ASSUME NEW j \in 1 .. h + 1
        PROVE  (IF 2 * j - 1 <= n + 1 THEN <<stream[2 * j - 1]>> ELSE <<>>)
                 = (IF j = h + 1 THEN <<stream[n + 1]>> ELSE a[j])
    <3>1. a[j] = IF 2 * j - 1 <= n THEN <<stream[2 * j - 1]>> ELSE <<>>
      BY DEF After
    <3> HIDE DEF a, h
    <3>2. CASE j = h + 1
      <4>1. 2 * j - 1 = n + 1 /\ 2 * j - 1 <= n + 1
        BY <1>1, <2>1, <3>2
      <4> QED
        BY <4>1, <3>2
    <3>3. CASE j # h + 1
      <4>1. 2 * j - 1 <= n
        BY <1>1, <2>1, <3>3
      <4> QED
        BY <4>1, <3>1, <3>3, <1>1, <2>1
    <3> QED
      BY <3>2, <3>3
  <2> QED
    BY <1>3, <2>2, <2>4, <2>5
<1> QED
  BY <1>2, <1>3

\* A stream in which every second token is a newline, and no other, is split
\* into its texts.
LEMMA SplitTexts ==
  ASSUME NEW stream, Len(stream) \in Nat,
         \A i \in 1 .. Len(stream) : stream[i] = NL <=> Even(i)
  PROVE  split(stream) = After(stream, Len(stream))
<1> DEFINE N == Len(stream)
           Rec(L) == L = [i \in 0 .. N |->
                            IF i = 0 THEN <<<<>>>>
                            ELSE IF stream[i] = NL THEN Append(L[i - 1], <<>>)
                            ELSE [L[i - 1] EXCEPT ![Len(L[i - 1])] = Append(@, stream[i])]]
           W == [i \in 0 .. N |-> After(stream, i)]
           L == CHOOSE F : Rec(F)
<1>1. split(stream) = L[N]
  BY DEF split
<1>2. After(stream, 0) = <<<<>>>>
  <2>1. 0 \div 2 = 0
    OBVIOUS
  <2>2. After(stream, 0) = [j \in 1 .. 1 |-> IF 2 * j - 1 <= 0 THEN <<stream[2 * j - 1]>> ELSE <<>>]
    BY <2>1 DEF After
  <2>3. \A j \in 1 .. 1 : ~(2 * j - 1 <= 0)
    OBVIOUS
  <2>4. After(stream, 0) = [j \in 1 .. 1 |-> <<>>]
    BY <2>2, <2>3
  <2> QED
    BY <2>4
<1> HIDE DEF N
<1>3. ASSUME NEW i \in 1 .. N
      PROVE  After(stream, i) =
               IF stream[i] = NL THEN Append(After(stream, i - 1), <<>>)
               ELSE [After(stream, i - 1) EXCEPT ![Len(After(stream, i - 1))] = Append(@, stream[i])]
  <2>1. i - 1 \in Nat /\ (i - 1) + 1 = i /\ (Even(i) <=> ~Even(i - 1))
    <3>1. N \in Nat
      BY DEF N
    <3>2. i - 1 \in Nat /\ (i - 1) + 1 = i
      BY <3>1
    <3> QED
      BY <3>2 DEF Even
  <2>2. stream[i] = NL <=> ~Even(i - 1)
    BY <2>1 DEF N
  <2> QED
    BY <2>1, <2>2, AfterStep
<1>4. Rec(W)
  <2>1. N \in Nat
    BY DEF N
  <2>2. ASSUME NEW i \in 0 .. N
        PROVE  W[i] = IF i = 0 THEN <<<<>>>>
                      ELSE IF stream[i] = NL THEN Append(W[i - 1], <<>>)
                      ELSE [W[i - 1] EXCEPT ![Len(W[i - 1])] = Append(@, stream[i])]
    <3>1. CASE i = 0
      BY <3>1, <1>2
    <3>2. CASE i # 0
      <4>1. i \in 1 .. N /\ i - 1 \in 0 .. N
        BY <3>2, <2>1
      <4>2. W[i] = After(stream, i) /\ W[i - 1] = After(stream, i - 1)
        BY <4>1
      <4> HIDE DEF W
      <4> QED
        BY <4>1, <4>2, <3>2, <1>3
    <3> QED
      BY <3>1, <3>2
  <2>3. W = [i \in 0 .. N |-> W[i]]
    OBVIOUS
  <2> HIDE DEF W
  <2> QED
    BY <2>2, <2>3
<1>5. Rec(L)
  BY <1>4
<1> HIDE DEF L
<1> DEFINE T == {n \in 0 .. N : L[n] = After(stream, n)}
<1>6. 0 .. N \subseteq T
  <2>1. N \in Nat
    BY DEF N
  <2>2. 0 \in T
    BY <1>2, <1>5, <2>1
  <2>3. ASSUME NEW n \in 0 .. N, n < N, n \in T
        PROVE  n + 1 \in T
    <3>1. n + 1 \in 1 .. N /\ (n + 1) - 1 = n /\ n + 1 # 0 /\ n + 1 \in 0 .. N
      BY <2>3, <2>1
    <3>2. L[n + 1] = IF stream[n + 1] = NL THEN Append(L[n], <<>>)
                     ELSE [L[n] EXCEPT ![Len(L[n])] = Append(@, stream[n + 1])]
      BY <3>1, <1>5
    <3>3. L[n] = After(stream, n)
      BY <2>3
    <3>4. After(stream, n + 1) = IF stream[n + 1] = NL THEN Append(After(stream, n), <<>>)
                ELSE [After(stream, n) EXCEPT ![Len(After(stream, n))] = Append(@, stream[n + 1])]
      BY <1>3, <3>1
    <3> QED
      BY <3>1, <3>2, <3>3, <3>4
  <2> HIDE DEF T
  <2> QED
    BY <2>1, <2>2, <2>3, UpTo
<1>7. N \in 0 .. N
  BY DEF N
<1> QED
  BY <1>1, <1>6, <1>7 DEF N

ReadAs(S, kept, stream, k, all) ==
    /\ Len(kept) \in 0 .. 1 /\ k \in Nat \ {0} /\ k + Len(kept) \in Nat
    /\ all \in Seq(S \cup {NL}) /\ Len(all) = k + Len(kept)
    /\ \A i \in 1 .. k + Len(kept) :
         all[i] = IF i <= Len(kept) THEN kept[i] ELSE stream[i - Len(kept)]
    /\ \A i \in 1 .. k + Len(kept) : all[i] = NL <=> Even(i)

\* The part of a line that was kept, and what was read behind it: texts and
\* newlines take turns from the first token on.
LEMMA ReadTexts ==
  ASSUME NEW S, NL \notin S, NEW kept \in Seq(S), Len(kept) <= 1,
         NEW T, NEW stream \in Seq(T), NEW k \in 1 .. Len(stream),
         \A i \in 1 .. k : stream[i] \in S \cup {NL},
         \A i \in 1 .. k : stream[i] = NL <=> Even(i + Len(kept))
  PROVE  ReadAs(S, kept, stream, k, kept \o SubSeq(stream, 1, k))
<1> DEFINE part == SubSeq(stream, 1, k)
           all == kept \o part
           c == Len(kept)
           N == k + c
<1>1. /\ c \in 0 .. 1 /\ k \in Nat \ {0} /\ N \in Nat
      /\ part \in Seq(S \cup {NL}) /\ Len(part) = k /\ \A i \in 1 .. k : part[i] = stream[i]
  <2>1. k \in Nat \ {0} /\ c \in 0 .. 1 /\ 1 \in Int /\ k \in Int
    <3>1. Len(stream) \in Nat /\ Len(kept) \in Nat
      BY LenProperties
    <3>2. k \in Nat \ {0} /\ k \in Int
      BY <3>1
    <3>3. c \in 0 .. 1
      BY <3>1, ZeroOne
    <3> HIDE DEF c
    <3> QED
      BY <3>2, <3>3
  <2>2. /\ part \in Seq(S \cup {NL}) /\ Len(part) = IF 1 <= k THEN k - 1 + 1 ELSE 0
        /\ \A i \in 1 .. k - 1 + 1 : part[i] = stream[1 + i - 1]
    BY <2>1, SubSeqProperties
  <2>3. \A i \in 1 .. k : i \in 1 .. k - 1 + 1 /\ 1 + i - 1 = i
    BY <2>1
  <2> HIDE DEF part, c
  <2> QED
    BY <2>1, <2>2, <2>3
<1>2. /\ all \in Seq(S \cup {NL}) /\ Len(all) = N
      /\ \A i \in 1 .. N : all[i] = IF i <= c THEN kept[i] ELSE stream[i - c]
  <2>1. kept \in Seq(S \cup {NL})
    OBVIOUS
  <2>2. /\ all \in Seq(S \cup {NL}) /\ Len(all) = N
        /\ \A i \in 1 .. N : all[i] = IF i <= c THEN kept[i] ELSE part[i - c]
    BY <1>1, <2>1, ConcatProperties
  <2> HIDE DEF part, all, N
  <2>3. \A i \in 1 .. N : ~(i <= c) => i - c \in 1 .. k
    BY <1>1 DEF N
  <2> QED
    BY <1>1, <2>2, <2>3
<1>3. \/ kept = <<>> /\ c = 0
      \/ kept = <<kept[1]>> /\ kept[1] \in S /\ kept # <<>> /\ c = 1
  BY ShortSeq
<1>4. c = 0 => kept = <<>>
  BY <1>3
<1> HIDE DEF part, all, c, N
<1>5. \A i \in 1 .. N : all[i] = NL <=> Even(i)
  <2> SUFFICES ASSUME NEW i \in 1 .. N PROVE all[i] = NL <=> Even(i)
    OBVIOUS
  <2>1. CASE i <= c
    <3>1. i = 1 /\ c = 1
      BY <2>1, <1>1
    <3> QED
      BY <3>1, <1>2, <1>3, EvenFact
  <2>2. CASE ~(i <= c)
    <3>1. i - c \in 1 .. k /\ (i - c) + c = i
      BY <2>2, <1>1 DEF N
    <3>2. stream[i - c] = NL <=> Even((i - c) + c)
      BY <3>1 DEF c
    <3> QED
      BY <3>1, <3>2, <2>2, <1>2
  <2> QED
    BY <2>1, <2>2
<1> QED
  BY <1>1, <1>2, <1>5 DEF ReadAs, N, c, all, part

\* What split() makes of the part of a line that was kept and what was read:
\* the texts, each in a line of its own, and a last line that is new or empty.
LEMMA SplitRead ==
  ASSUME NEW S, NL \notin S, NEW kept \in Seq(S), Len(kept) <= 1,
         NEW T, NEW stream \in Seq(T), NEW k \in 1 .. Len(stream),
         \A i \in 1 .. k : stream[i] \in S \cup {NL},
         \A i \in 1 .. k : stream[i] = NL <=> Even(i + Len(kept))
  PROVE  LET lines == split(kept \o SubSeq(stream, 1, k))
             n == (k + Len(kept)) \div 2
         IN  /\ lines \in Seq(Seq(S)) /\ n \in Nat /\ Len(lines) = n + 1
             /\ \A i \in 1 .. n :
                  /\ i = 1 /\ kept # <<>> => lines[i] = kept
                  /\ i # 1 \/ kept = <<>> =>
                       /\ 2 * i - 1 - Len(kept) \in 1 .. k
                       /\ ~Even(2 * i - 1)
                       /\ stream[2 * i - 1 - Len(kept)] \in S
                       /\ lines[i] = <<stream[2 * i - 1 - Len(kept)]>>
             /\ Even(k + Len(kept)) => Last(lines) = <<>>
             /\ ~Even(k + Len(kept)) => Last(lines) = <<stream[k]>> /\ stream[k] \in S
<1> DEFINE all == kept \o SubSeq(stream, 1, k)
           c == Len(kept)
           N == k + c
           n == N \div 2
           lines == split(all)
<1>1. /\ c \in 0 .. 1 /\ k \in Nat \ {0} /\ N \in Nat
      /\ all \in Seq(S \cup {NL}) /\ Len(all) = N
      /\ \A i \in 1 .. N : all[i] = IF i <= c THEN kept[i] ELSE stream[i - c]
      /\ \A i \in 1 .. N : all[i] = NL <=> Even(i)
  <2>1. ReadAs(S, kept, stream, k, kept \o SubSeq(stream, 1, k))
    BY ReadTexts
  <2> QED
    BY <2>1 DEF ReadAs
<1>3. \/ kept = <<>> /\ c = 0
      \/ kept = <<kept[1]>> /\ kept[1] \in S /\ kept # <<>> /\ c = 1
  BY ShortSeq
<1>4. c = 0 => kept = <<>>
  BY <1>3
<1> HIDE DEF all, c, N
<1>6. lines = After(all, N)
  BY <1>1, SplitTexts
<1>7. n \in Nat /\ (Even(N) => N = 2 * n) /\ (~Even(N) => N = 2 * n + 1)
  BY <1>1, HalfFact
<1>8. /\ lines = [j \in 1 .. n + 1 |-> IF 2 * j - 1 <= N THEN <<all[2 * j - 1]>> ELSE <<>>]
      /\ Len(lines) = n + 1
  BY <1>6, <1>7 DEF After
<1>9. ASSUME NEW j \in 1 .. n + 1, 2 * j - 1 <= N
      PROVE  lines[j] = <<all[2 * j - 1]>> /\ all[2 * j - 1] \in S /\ ~Even(2 * j - 1)
  <2>1. 2 * j - 1 \in 1 .. N /\ ~Even(2 * j - 1)
    BY <1>7, <1>9, <1>1 DEF Even
  <2> HIDE DEF lines, n
  <2>2. all[2 * j - 1] # NL /\ all[2 * j - 1] \in S \cup {NL}
    BY <2>1, <1>1
  <2> QED
    BY <2>1, <2>2, <1>8, <1>9
<1>10. lines \in Seq(Seq(S))
  <2>1. \A j \in 1 .. n + 1 : lines[j] \in Seq(S)
    <3> SUFFICES ASSUME NEW j \in 1 .. n + 1 PROVE lines[j] \in Seq(S)
      OBVIOUS
    <3> HIDE DEF lines, n
    <3>1. CASE 2 * j - 1 <= N
      <4>1. lines[j] = <<all[2 * j - 1]>> /\ all[2 * j - 1] \in S
        BY <3>1, <1>9
      <4> QED
        BY <4>1
    <3>2. CASE ~(2 * j - 1 <= N)
      BY <3>2, <1>8
    <3> QED
      BY <3>1, <3>2
  <2> HIDE DEF lines, n
  <2>2. lines = [j \in 1 .. n + 1 |-> lines[j]]
    BY <1>8
  <2>3. lines \in [1 .. n + 1 -> Seq(S)]
    BY <2>1, <2>2
  <2> QED
    BY <2>3, <1>7
<1> HIDE DEF lines, n
<1>11. ASSUME NEW i \in 1 .. n
       PROVE  /\ i = 1 /\ kept # <<>> => lines[i] = kept
              /\ i # 1 \/ kept = <<>> =>
                   /\ 2 * i - 1 - c \in 1 .. k
                   /\ ~Even(2 * i - 1)
                   /\ stream[2 * i - 1 - c] \in S
                   /\ lines[i] = <<stream[2 * i - 1 - c]>>
  <2>1. i \in 1 .. n + 1 /\ 2 * i - 1 <= N /\ 2 * i - 1 \in 1 .. N
    BY <1>7, <1>1
  <2>2. lines[i] = <<all[2 * i - 1]>> /\ all[2 * i - 1] \in S /\ ~Even(2 * i - 1)
    BY <2>1, <1>9
  <2>3. CASE i = 1 /\ kept # <<>>
    <3>1. c = 1 /\ 2 * i - 1 = 1
      BY <2>3, <1>1, <1>4
    <3>2. all[1] = kept[1]
      BY <3>1, <2>1, <1>1
    <3> QED
      BY <2>2, <2>3, <3>1, <3>2, <1>3
  <2>4. CASE i # 1 \/ kept = <<>>
    <3>1. 2 * i - 1 > c
      <4>1. CASE i # 1
        BY <4>1, <1>1
      <4>2. CASE kept = <<>>
        BY <4>2 DEF c
      <4> QED
        BY <4>1, <4>2, <2>4
    <3>2. 2 * i - 1 - c \in 1 .. k
      BY <3>1, <2>1, <1>1 DEF N
    <3>3. all[2 * i - 1] = stream[2 * i - 1 - c]
      <4>1. ~(2 * i - 1 <= c)
        BY <3>1, <1>1, <2>1
      <4> QED
        BY <4>1, <2>1, <1>1
    <3>4. stream[2 * i - 1 - c] \in S /\ lines[i] = <<stream[2 * i - 1 - c]>> /\ ~Even(2 * i - 1)
      BY <3>3, <2>2
    <3>5. ~(i = 1 /\ kept # <<>>)
      BY <2>4
    <3> QED
      BY <3>2, <3>4, <3>5
  <2> QED
    BY <2>3, <2>4
<1>12. Even(N) => Last(lines) = <<>>
  <2> SUFFICES ASSUME Even(N) PROVE Last(lines) = <<>>
    OBVIOUS
  <2>1. ~(2 * (n + 1) - 1 <= N)
    BY <1>7
  <2> QED
    BY <2>1, <1>7, <1>8 DEF Last
<1>13. ~Even(N) => Last(lines) = <<stream[k]>> /\ stream[k] \in S
  <2> SUFFICES ASSUME ~Even(N) PROVE Last(lines) = <<stream[k]>> /\ stream[k] \in S
    OBVIOUS
  <2>1. 2 * (n + 1) - 1 = N /\ n + 1 \in 1 .. n + 1
    BY <1>7
  <2>2. lines[n + 1] = <<all[N]>> /\ all[N] \in S
    <3>1. PICK j : j = n + 1
      OBVIOUS
    <3>2. j \in 1 .. n + 1 /\ 2 * j - 1 = N /\ 2 * j - 1 <= N
      BY <2>1, <3>1, <1>1
    <3>3. lines[j] = <<all[2 * j - 1]>> /\ all[2 * j - 1] \in S
      BY <3>2, <1>9
    <3> QED
      BY <3>1, <3>2, <3>3
  <2>3. ~(N <= c) /\ N - c = k /\ N \in 1 .. N
    BY <1>1 DEF N
  <2> QED
    BY <2>2, <2>3, <1>1, <1>8 DEF Last
<1> QED
  BY <1>7, <1>8, <1>10, <1>11, <1>12, <1>13 DEF lines, n, N, c, all

-----------------------------------------------------------------------------
(* The tokens *)

LEMMA UpKinds ==
  ASSUME NEW m \in UpTexts
  PROVE  /\ m # NL /\ m \notin Events
         /\ m.type \in {"initialize", "request", "release"}
         /\ m.type = "initialize" => m.wan_addrs \in Seq(WanAddrs) /\ m.wan_addrs # <<>>
         /\ m.type = "request" => m.protocol \in Protocols /\ m.lan \in Clients \X LanPorts
         /\ m.type = "release" => m.protocol \in Protocols /\ m.entry \in Entries
<1> USE DEF NL, Events, Connecting
<1>1. CASE m \in [type : {"initialize"}, wan_addrs : Seq(WanAddrs) \ {<<>>}]
  BY <1>1
<1>2. CASE m \in [type : {"request"}, protocol : Protocols, lan : Clients \X LanPorts]
  BY <1>2
<1>3. CASE m \in [type : {"release"}, protocol : Protocols, entry : Entries]
  BY <1>3
<1> QED
  BY <1>1, <1>2, <1>3 DEF UpTexts, OrderTexts

LEMMA DownKinds ==
  ASSUME NEW m \in DownTexts
  PROVE  /\ m # NL
         /\ m.type \in {"initialize", "request_discard", "request_ack", "release_ack"}
         /\ m.type = "initialize" <=> m = Initialize
         /\ m.type \in {"request_ack", "release_ack"} => m.protocol \in Protocols /\ m.entry \in Entries
<1> USE DEF NL, Initialize
<1>1. CASE m = Initialize
  BY <1>1
<1>2. CASE m \in [type : {"request_discard"}, protocol : Protocols, lan : Clients \X LanPorts]
  BY <1>2
<1>3. CASE m \in [type : {"request_ack", "release_ack"}, protocol : Protocols, entry : Entries]
  BY <1>3
<1> QED
  BY <1>1, <1>2, <1>3 DEF DownTexts, AnswerTexts

LEMMA EventKinds ==
  /\ NL \notin Events /\ NL.type = "newline" /\ NL \notin UpTexts /\ NL \notin DownTexts
  /\ \A e \in Events : e \notin UpTexts /\ e.type \in {"connect", "end", "reset"}
  /\ Connecting \in Events /\ Connecting \notin Ends /\ Connecting.type = "connect"
  /\ [type |-> "end"] \in Ends /\ [type |-> "reset"] \in Ends /\ Ends \subseteq Events
<1>1. NL \notin UpTexts /\ NL \notin DownTexts /\ \A e \in Events : e \notin UpTexts
  BY UpKinds, DownKinds
<1>2. \A e \in Events : e.type \in {"connect", "end", "reset"}
  BY DEF Events, Connecting
<1>3. NL.type = "newline"
  BY DEF NL
<1>4. Connecting.type = "connect"
  BY DEF Connecting
<1> QED
  BY <1>1, <1>2, <1>3, <1>4 DEF Events, Ends, Connecting

-----------------------------------------------------------------------------
(* The databases *)

LEMMA SameTcp == TcpServer!IInv <=> tcpDB!IInv
<1>1. TcpServer!TypeOK <=> tcpDB!TypeOK
  BY DEF TcpServer!TypeOK, tcpDB!TypeOK, TcpServer!Entries, tcpDB!Entries, TcpServer!Ports, tcpDB!Ports
<1>2. TcpServer!UniqueMapping <=> tcpDB!UniqueMapping
  BY DEF TcpServer!UniqueMapping, tcpDB!UniqueMapping
<1>3. TcpServer!FreePortsUnused <=> tcpDB!FreePortsUnused
  BY DEF TcpServer!FreePortsUnused, tcpDB!FreePortsUnused, TcpServer!IsInjective, tcpDB!IsInjective,
     TcpServer!Range, tcpDB!Range, TcpServer!InUse, tcpDB!InUse
<1>4. TcpServer!EntriesInPool <=> tcpDB!EntriesInPool
  BY DEF TcpServer!EntriesInPool, tcpDB!EntriesInPool, TcpServer!InPool, tcpDB!InPool,
     TcpServer!Range, tcpDB!Range
<1>5. TcpServer!WithinLimit <=> tcpDB!WithinLimit
  BY DEF TcpServer!WithinLimit, tcpDB!WithinLimit, TcpServer!EntriesOf, tcpDB!EntriesOf,
     TcpServer!Cardinality, tcpDB!Cardinality
<1>6. TcpServer!Bookkeeping <=> tcpDB!Bookkeeping
  BY DEF TcpServer!Bookkeeping, tcpDB!Bookkeeping, TcpServer!IsInjective, tcpDB!IsInjective,
     TcpServer!IsFiniteSet, tcpDB!IsFiniteSet
<1> QED
  BY <1>1, <1>2, <1>3, <1>4, <1>5, <1>6 DEF TcpServer!IInv, tcpDB!IInv

LEMMA SameUdp == UdpServer!IInv <=> udpDB!IInv
<1>1. UdpServer!TypeOK <=> udpDB!TypeOK
  BY DEF UdpServer!TypeOK, udpDB!TypeOK, UdpServer!Entries, udpDB!Entries, UdpServer!Ports, udpDB!Ports
<1>2. UdpServer!UniqueMapping <=> udpDB!UniqueMapping
  BY DEF UdpServer!UniqueMapping, udpDB!UniqueMapping
<1>3. UdpServer!FreePortsUnused <=> udpDB!FreePortsUnused
  BY DEF UdpServer!FreePortsUnused, udpDB!FreePortsUnused, UdpServer!IsInjective, udpDB!IsInjective,
     UdpServer!Range, udpDB!Range, UdpServer!InUse, udpDB!InUse
<1>4. UdpServer!EntriesInPool <=> udpDB!EntriesInPool
  BY DEF UdpServer!EntriesInPool, udpDB!EntriesInPool, UdpServer!InPool, udpDB!InPool,
     UdpServer!Range, udpDB!Range
<1>5. UdpServer!WithinLimit <=> udpDB!WithinLimit
  BY DEF UdpServer!WithinLimit, udpDB!WithinLimit, UdpServer!EntriesOf, udpDB!EntriesOf,
     UdpServer!Cardinality, udpDB!Cardinality
<1>6. UdpServer!Bookkeeping <=> udpDB!Bookkeeping
  BY DEF UdpServer!Bookkeeping, udpDB!Bookkeeping, UdpServer!IsInjective, udpDB!IsInjective,
     UdpServer!IsFiniteSet, udpDB!IsFiniteSet
<1> QED
  BY <1>1, <1>2, <1>3, <1>4, <1>5, <1>6 DEF UdpServer!IInv, udpDB!IInv

LEMMA ServerAssumptions == TcpServer!IsFiniteSet(WanAddrs) /\ UdpServer!IsFiniteSet(WanAddrs)
BY DatabaseAssumption DEF TcpServer!IsFiniteSet, UdpServer!IsFiniteSet, IsFiniteSet

LEMMA TcpStep ==
  ASSUME tcpDB!IInv, TcpServer!Next \/ UNCHANGED TcpServer!vars
  PROVE  tcpDB!IInv'
<1>1. TcpServer!IInv
  BY SameTcp
<1>2. TcpServer!IInv'
  BY <1>1, TcpServer!NextStep, ServerAssumptions, DatabaseAssumption
<1> QED
  BY <1>2, SameTcp, PTL

LEMMA UdpStep ==
  ASSUME udpDB!IInv, UdpServer!Next \/ UNCHANGED UdpServer!vars
  PROVE  udpDB!IInv'
<1>1. UdpServer!IInv
  BY SameUdp
<1>2. UdpServer!IInv'
  BY <1>1, UdpServer!NextStep, ServerAssumptions, DatabaseAssumption
<1> QED
  BY <1>2, SameUdp, PTL

LEMMA TcpKept ==
  ASSUME tcpDB!IInv, UNCHANGED tcpVars
  PROVE  tcpDB!IInv'
<1>1. UNCHANGED TcpServer!vars
  BY DEF tcpVars, TcpServer!vars
<1> QED
  BY <1>1, TcpStep

LEMMA TcpTypes ==
  ASSUME tcpDB!IInv
  PROVE  /\ tcp_addrs \in Seq(WanAddrs) /\ IsInjective(tcp_addrs)
         /\ tcp_clients \subseteq Clients /\ tcp_db \subseteq Entries
         /\ tcp_result \in Entries \cup {undefined}
         /\ \A e \in tcp_db : e.lan_ip \in tcp_clients
BY DEF tcpDB!IInv, tcpDB!TypeOK, tcpDB!Bookkeeping, tcpDB!IsInjective, IsInjective,
       Entries, tcpDB!Entries, tcpDB!Ports

LEMMA TcpAdd ==
  ASSUME tcpDB!IInv, NEW a \in WanAddrs,
         IF tcpDB!InPool(a) THEN UNCHANGED tcpVars ELSE tcpDB!AddPoolAddress(a)
  PROVE  /\ tcpDB!IInv' /\ tcp_clients' = tcp_clients /\ tcp_db' = tcp_db
         /\ tcp_addrs' = IF a \in Range(tcp_addrs) THEN tcp_addrs ELSE Append(tcp_addrs, a)
         /\ Range(tcp_addrs') = Range(tcp_addrs) \cup {a}
<1>0. tcpDB!InPool(a) <=> a \in Range(tcp_addrs)
  BY DEF tcpDB!InPool, tcpDB!Range, Range
<1>1. CASE tcpDB!InPool(a)
  BY <1>0, <1>1, TcpKept DEF tcpVars
<1>2. CASE ~tcpDB!InPool(a)
  <2>1. TcpServer!AddPoolAddress(a)
    BY <1>2 DEF TcpServer!AddPoolAddress, tcpDB!AddPoolAddress, TcpServer!InPool, tcpDB!InPool,
       TcpServer!Range, tcpDB!Range, TcpServer!AllPorts, tcpDB!AllPorts
  <2>2. tcpDB!IInv'
    BY <2>1, TcpStep DEF TcpServer!Next
  <2>3. tcp_addrs' = Append(tcp_addrs, a) /\ tcp_clients' = tcp_clients /\ tcp_db' = tcp_db
    BY <1>2 DEF tcpDB!AddPoolAddress
  <2>4. Range(Append(tcp_addrs, a)) = Range(tcp_addrs) \cup {a}
    BY TcpTypes, TcpServer!AppendFact DEF TcpServer!Range, Range
  <2> QED
    BY <1>0, <1>2, <2>2, <2>3, <2>4
<1> QED
  BY <1>1, <1>2

LEMMA TcpDelete ==
  ASSUME tcpDB!IInv, NEW a \in WanAddrs, tcpDB!DelPoolAddress(a)
  PROVE  /\ tcpDB!IInv' /\ tcp_clients' = tcp_clients
         /\ tcp_db' = {e \in tcp_db : e.wan_ip # a}
         /\ Range(tcp_addrs') = Range(tcp_addrs) \ {a}
         /\ \E i \in DOMAIN tcp_addrs :
              /\ tcp_addrs[i] = a
              /\ tcp_addrs' = SubSeq(tcp_addrs, 1, i - 1) \o SubSeq(tcp_addrs, i + 1, Len(tcp_addrs))
<1>1. TcpServer!DelPoolAddress(a)
  BY DEF TcpServer!DelPoolAddress, tcpDB!DelPoolAddress, TcpServer!WithoutAddress, tcpDB!WithoutAddress
<1>2. tcpDB!IInv'
  BY <1>1, TcpStep DEF TcpServer!Next
<1>3. PICK i \in DOMAIN tcp_addrs :
        /\ tcp_addrs[i] = a
        /\ tcp_addrs' = SubSeq(tcp_addrs, 1, i - 1) \o SubSeq(tcp_addrs, i + 1, Len(tcp_addrs))
  BY DEF tcpDB!DelPoolAddress
<1>4. Range(SubSeq(tcp_addrs, 1, i - 1) \o SubSeq(tcp_addrs, i + 1, Len(tcp_addrs)))
        = Range(tcp_addrs) \ {a}
  <2>1. tcp_addrs \in Seq(WanAddrs) /\ TcpServer!IsInjective(tcp_addrs)
    BY TcpTypes DEF TcpServer!IsInjective, IsInjective
  <2> QED
    <3>1. TcpServer!Range(SubSeq(tcp_addrs, 1, i - 1) \o SubSeq(tcp_addrs, i + 1, Len(tcp_addrs)))
            = TcpServer!Range(tcp_addrs) \ {tcp_addrs[i]}
      BY <1>3, <2>1, TcpServer!SpliceFact, ServerAssumptions, DatabaseAssumption
    <3> QED
      BY <1>3, <3>1 DEF TcpServer!Range, Range
<1> QED
  BY <1>2, <1>3, <1>4 DEF tcpDB!DelPoolAddress, tcpDB!WithoutAddress

LEMMA TcpAssign ==
  ASSUME tcpDB!IInv, NEW lan_ip \in Clients, NEW lan_port \in LanPorts,
         tcpDB!AssignConnection(lan_ip, lan_port)
  PROVE  /\ tcpDB!IInv' /\ tcp_addrs' = tcp_addrs /\ tcp_clients \subseteq tcp_clients'
         /\ \/ tcp_result' = undefined /\ tcp_db' = tcp_db
            \/ /\ tcp_result' \in Entries /\ tcp_result'.lan_ip \in tcp_clients'
               /\ tcp_result'.lan_ip = lan_ip /\ tcp_result'.lan_port = lan_port
               /\ tcp_db' = tcp_db \cup {tcp_result'}
<1>1. TcpServer!AssignConnection(lan_ip, lan_port)
  BY DEF TcpServer!AssignConnection, tcpDB!AssignConnection, TcpServer!AssignExisting,
     tcpDB!AssignExisting, TcpServer!AssignNoPort, tcpDB!AssignNoPort, TcpServer!AssignOverLimit,
     tcpDB!AssignOverLimit, TcpServer!AssignNew, tcpDB!AssignNew, TcpServer!SameEntry,
     tcpDB!SameEntry, TcpServer!HasPort, tcpDB!HasPort, TcpServer!AssignWanIP, tcpDB!AssignWanIP,
     TcpServer!AtLimit, tcpDB!AtLimit, TcpServer!TakePort, tcpDB!TakePort, TcpServer!NewEntry,
     tcpDB!NewEntry, TcpServer!EntriesOf, tcpDB!EntriesOf, TcpServer!poolVars, tcpDB!poolVars,
     TcpServer!Cardinality, tcpDB!Cardinality
<1>2. tcpDB!IInv'
  BY <1>1, TcpStep DEF TcpServer!Next
<1>3. CASE tcpDB!AssignExisting(lan_ip, lan_port)
  <2>1. tcp_result' \in tcp_db /\ tcp_result'.lan_ip = lan_ip /\ tcp_result'.lan_port = lan_port
    BY <1>3 DEF tcpDB!AssignExisting, tcpDB!SameEntry
  <2>2. tcp_addrs' = tcp_addrs /\ tcp_clients' = tcp_clients /\ tcp_db' = tcp_db
    BY <1>3 DEF tcpDB!AssignExisting, tcpDB!poolVars
  <2> QED
    BY <1>2, <2>1, <2>2, TcpTypes
<1>4. CASE tcpDB!AssignNoPort(lan_ip, lan_port)
  BY <1>2, <1>4 DEF tcpDB!AssignNoPort, tcpDB!poolVars
<1>5. CASE tcpDB!AssignOverLimit(lan_ip, lan_port)
  BY <1>2, <1>5 DEF tcpDB!AssignOverLimit
<1>6. CASE tcpDB!AssignNew(lan_ip, lan_port)
  <2>1. /\ tcp_result' = tcpDB!NewEntry(lan_ip, lan_port)
        /\ tcp_db' = tcp_db \cup {tcpDB!NewEntry(lan_ip, lan_port)}
        /\ tcp_clients' = tcp_clients \cup {lan_ip} /\ tcp_addrs' = tcp_addrs
    BY <1>6 DEF tcpDB!AssignNew
  <2>2. tcp_db' \subseteq Entries
    BY <1>2 DEF tcpDB!IInv, tcpDB!TypeOK, Entries, tcpDB!Entries, tcpDB!Ports
  <2>3. /\ tcpDB!NewEntry(lan_ip, lan_port).lan_ip = lan_ip
        /\ tcpDB!NewEntry(lan_ip, lan_port).lan_port = lan_port
    BY DEF tcpDB!NewEntry
  <2> QED
    BY <1>2, <2>1, <2>2, <2>3
<1> QED
  BY <1>3, <1>4, <1>5, <1>6 DEF tcpDB!AssignConnection

LEMMA TcpRelease ==
  ASSUME tcpDB!IInv, NEW e \in Entries, tcpDB!ReleaseConnection(e)
  PROVE  /\ tcpDB!IInv' /\ tcp_addrs' = tcp_addrs /\ tcp_clients' = tcp_clients
         /\ tcp_db' = tcp_db \ {e}
<1>1. TcpServer!ReleaseConnection(e)
  BY DEF TcpServer!ReleaseConnection, tcpDB!ReleaseConnection, TcpServer!vars, tcpDB!vars,
     TcpServer!ReturnPort, tcpDB!ReturnPort
<1>2. e \in TcpServer!Entries
  BY DEF Entries, tcpDB!Entries, TcpServer!Entries, tcpDB!Ports, TcpServer!Ports
<1>3. tcpDB!IInv'
  BY <1>1, <1>2, TcpStep DEF TcpServer!Next
<1> QED
  BY <1>3 DEF tcpDB!ReleaseConnection, tcpDB!vars

LEMMA UdpKept ==
  ASSUME udpDB!IInv, UNCHANGED udpVars
  PROVE  udpDB!IInv'
<1>1. UNCHANGED UdpServer!vars
  BY DEF udpVars, UdpServer!vars
<1> QED
  BY <1>1, UdpStep

LEMMA UdpTypes ==
  ASSUME udpDB!IInv
  PROVE  /\ udp_addrs \in Seq(WanAddrs) /\ IsInjective(udp_addrs)
         /\ udp_clients \subseteq Clients /\ udp_db \subseteq Entries
         /\ udp_result \in Entries \cup {undefined}
         /\ \A e \in udp_db : e.lan_ip \in udp_clients
BY DEF udpDB!IInv, udpDB!TypeOK, udpDB!Bookkeeping, udpDB!IsInjective, IsInjective,
       Entries, tcpDB!Entries, tcpDB!Ports, udpDB!Entries, udpDB!Ports

LEMMA UdpAdd ==
  ASSUME udpDB!IInv, NEW a \in WanAddrs,
         IF udpDB!InPool(a) THEN UNCHANGED udpVars ELSE udpDB!AddPoolAddress(a)
  PROVE  /\ udpDB!IInv' /\ udp_clients' = udp_clients /\ udp_db' = udp_db
         /\ udp_addrs' = IF a \in Range(udp_addrs) THEN udp_addrs ELSE Append(udp_addrs, a)
         /\ Range(udp_addrs') = Range(udp_addrs) \cup {a}
<1>0. udpDB!InPool(a) <=> a \in Range(udp_addrs)
  BY DEF udpDB!InPool, udpDB!Range, Range
<1>1. CASE udpDB!InPool(a)
  BY <1>0, <1>1, UdpKept DEF udpVars
<1>2. CASE ~udpDB!InPool(a)
  <2>1. UdpServer!AddPoolAddress(a)
    BY <1>2 DEF UdpServer!AddPoolAddress, udpDB!AddPoolAddress, UdpServer!InPool, udpDB!InPool,
       UdpServer!Range, udpDB!Range, UdpServer!AllPorts, udpDB!AllPorts
  <2>2. udpDB!IInv'
    BY <2>1, UdpStep DEF UdpServer!Next
  <2>3. udp_addrs' = Append(udp_addrs, a) /\ udp_clients' = udp_clients /\ udp_db' = udp_db
    BY <1>2 DEF udpDB!AddPoolAddress
  <2>4. Range(Append(udp_addrs, a)) = Range(udp_addrs) \cup {a}
    BY UdpTypes, UdpServer!AppendFact DEF UdpServer!Range, Range
  <2> QED
    BY <1>0, <1>2, <2>2, <2>3, <2>4
<1> QED
  BY <1>1, <1>2

LEMMA UdpDelete ==
  ASSUME udpDB!IInv, NEW a \in WanAddrs, udpDB!DelPoolAddress(a)
  PROVE  /\ udpDB!IInv' /\ udp_clients' = udp_clients
         /\ udp_db' = {e \in udp_db : e.wan_ip # a}
         /\ Range(udp_addrs') = Range(udp_addrs) \ {a}
         /\ \E i \in DOMAIN udp_addrs :
              /\ udp_addrs[i] = a
              /\ udp_addrs' = SubSeq(udp_addrs, 1, i - 1) \o SubSeq(udp_addrs, i + 1, Len(udp_addrs))
<1>1. UdpServer!DelPoolAddress(a)
  BY DEF UdpServer!DelPoolAddress, udpDB!DelPoolAddress, UdpServer!WithoutAddress, udpDB!WithoutAddress
<1>2. udpDB!IInv'
  BY <1>1, UdpStep DEF UdpServer!Next
<1>3. PICK i \in DOMAIN udp_addrs :
        /\ udp_addrs[i] = a
        /\ udp_addrs' = SubSeq(udp_addrs, 1, i - 1) \o SubSeq(udp_addrs, i + 1, Len(udp_addrs))
  BY DEF udpDB!DelPoolAddress
<1>4. Range(SubSeq(udp_addrs, 1, i - 1) \o SubSeq(udp_addrs, i + 1, Len(udp_addrs)))
        = Range(udp_addrs) \ {a}
  <2>1. udp_addrs \in Seq(WanAddrs) /\ UdpServer!IsInjective(udp_addrs)
    BY UdpTypes DEF UdpServer!IsInjective, IsInjective
  <2> QED
    <3>1. UdpServer!Range(SubSeq(udp_addrs, 1, i - 1) \o SubSeq(udp_addrs, i + 1, Len(udp_addrs)))
            = UdpServer!Range(udp_addrs) \ {udp_addrs[i]}
      BY <1>3, <2>1, UdpServer!SpliceFact, ServerAssumptions, DatabaseAssumption
    <3> QED
      BY <1>3, <3>1 DEF UdpServer!Range, Range
<1> QED
  BY <1>2, <1>3, <1>4 DEF udpDB!DelPoolAddress, udpDB!WithoutAddress

LEMMA UdpAssign ==
  ASSUME udpDB!IInv, NEW lan_ip \in Clients, NEW lan_port \in LanPorts,
         udpDB!AssignConnection(lan_ip, lan_port)
  PROVE  /\ udpDB!IInv' /\ udp_addrs' = udp_addrs /\ udp_clients \subseteq udp_clients'
         /\ \/ udp_result' = undefined /\ udp_db' = udp_db
            \/ /\ udp_result' \in Entries /\ udp_result'.lan_ip \in udp_clients'
               /\ udp_result'.lan_ip = lan_ip /\ udp_result'.lan_port = lan_port
               /\ udp_db' = udp_db \cup {udp_result'}
<1>1. UdpServer!AssignConnection(lan_ip, lan_port)
  BY DEF UdpServer!AssignConnection, udpDB!AssignConnection, UdpServer!AssignExisting,
     udpDB!AssignExisting, UdpServer!AssignNoPort, udpDB!AssignNoPort, UdpServer!AssignOverLimit,
     udpDB!AssignOverLimit, UdpServer!AssignNew, udpDB!AssignNew, UdpServer!SameEntry,
     udpDB!SameEntry, UdpServer!HasPort, udpDB!HasPort, UdpServer!AssignWanIP, udpDB!AssignWanIP,
     UdpServer!AtLimit, udpDB!AtLimit, UdpServer!TakePort, udpDB!TakePort, UdpServer!NewEntry,
     udpDB!NewEntry, UdpServer!EntriesOf, udpDB!EntriesOf, UdpServer!poolVars, udpDB!poolVars,
     UdpServer!Cardinality, udpDB!Cardinality
<1>2. udpDB!IInv'
  BY <1>1, UdpStep DEF UdpServer!Next
<1>3. CASE udpDB!AssignExisting(lan_ip, lan_port)
  <2>1. udp_result' \in udp_db /\ udp_result'.lan_ip = lan_ip /\ udp_result'.lan_port = lan_port
    BY <1>3 DEF udpDB!AssignExisting, udpDB!SameEntry
  <2>2. udp_addrs' = udp_addrs /\ udp_clients' = udp_clients /\ udp_db' = udp_db
    BY <1>3 DEF udpDB!AssignExisting, udpDB!poolVars
  <2> QED
    BY <1>2, <2>1, <2>2, UdpTypes
<1>4. CASE udpDB!AssignNoPort(lan_ip, lan_port)
  BY <1>2, <1>4 DEF udpDB!AssignNoPort, udpDB!poolVars
<1>5. CASE udpDB!AssignOverLimit(lan_ip, lan_port)
  BY <1>2, <1>5 DEF udpDB!AssignOverLimit
<1>6. CASE udpDB!AssignNew(lan_ip, lan_port)
  <2>1. /\ udp_result' = udpDB!NewEntry(lan_ip, lan_port)
        /\ udp_db' = udp_db \cup {udpDB!NewEntry(lan_ip, lan_port)}
        /\ udp_clients' = udp_clients \cup {lan_ip} /\ udp_addrs' = udp_addrs
    BY <1>6 DEF udpDB!AssignNew
  <2>2. udp_db' \subseteq Entries
    BY <1>2 DEF udpDB!IInv, udpDB!TypeOK, Entries, tcpDB!Entries, tcpDB!Ports, udpDB!Entries, udpDB!Ports
  <2>3. /\ udpDB!NewEntry(lan_ip, lan_port).lan_ip = lan_ip
        /\ udpDB!NewEntry(lan_ip, lan_port).lan_port = lan_port
    BY DEF udpDB!NewEntry
  <2> QED
    BY <1>2, <2>1, <2>2, <2>3
<1> QED
  BY <1>3, <1>4, <1>5, <1>6 DEF udpDB!AssignConnection

LEMMA UdpRelease ==
  ASSUME udpDB!IInv, NEW e \in Entries, udpDB!ReleaseConnection(e)
  PROVE  /\ udpDB!IInv' /\ udp_addrs' = udp_addrs /\ udp_clients' = udp_clients
         /\ udp_db' = udp_db \ {e}
<1>1. UdpServer!ReleaseConnection(e)
  BY DEF UdpServer!ReleaseConnection, udpDB!ReleaseConnection, UdpServer!vars, udpDB!vars,
     UdpServer!ReturnPort, udpDB!ReturnPort
<1>2. e \in UdpServer!Entries
  BY DEF Entries, tcpDB!Entries, tcpDB!Ports, UdpServer!Entries, udpDB!Ports, UdpServer!Ports
<1>3. udpDB!IInv'
  BY <1>1, <1>2, UdpStep DEF UdpServer!Next
<1> QED
  BY <1>3 DEF udpDB!ReleaseConnection, udpDB!vars

-----------------------------------------------------------------------------
(* Streams *)

\* A text and its newline behind a stream.
LEMMA TextBehind ==
  ASSUME NEW S, NEW q \in Seq(S), NEW m \in S, NL \in S
  PROVE  /\ q \o Text(m) \in Seq(S) /\ Len(q) \in Nat
         /\ Len(q \o Text(m)) = Len(q) + 2 /\ DOMAIN (q \o Text(m)) = 1 .. Len(q) + 2
         /\ \A i \in 1 .. Len(q) : (q \o Text(m))[i] = q[i]
         /\ (q \o Text(m))[Len(q) + 1] = m /\ (q \o Text(m))[Len(q) + 2] = NL
<1> DEFINE t == <<m, NL>>
<1>1. t \in Seq(S) /\ Len(t) = 2 /\ t[1] = m /\ t[2] = NL
  OBVIOUS
<1> HIDE DEF t
<1>2. Len(q) \in Nat
  BY LenProperties
<1>3. /\ q \o t \in Seq(S) /\ Len(q \o t) = Len(q) + 2
      /\ \A i \in 1 .. Len(q) + 2 : (q \o t)[i] = IF i <= Len(q) THEN q[i] ELSE t[i - Len(q)]
  <2>1. /\ q \o t \in Seq(S) /\ Len(q \o t) = Len(q) + Len(t)
        /\ \A i \in 1 .. Len(q) + Len(t) : (q \o t)[i] = IF i <= Len(q) THEN q[i] ELSE t[i - Len(q)]
    BY <1>1, ConcatProperties
  <2> QED
    BY <2>1, <1>1
<1>4. DOMAIN (q \o t) = 1 .. Len(q) + 2
  BY <1>3, LenProperties
<1>5. /\ Len(q) + 1 \in 1 .. Len(q) + 2 /\ ~(Len(q) + 1 <= Len(q)) /\ (Len(q) + 1) - Len(q) = 1
      /\ Len(q) + 2 \in 1 .. Len(q) + 2 /\ ~(Len(q) + 2 <= Len(q)) /\ (Len(q) + 2) - Len(q) = 2
      /\ \A i \in 1 .. Len(q) : i \in 1 .. Len(q) + 2 /\ i <= Len(q)
  BY <1>2
<1>6. /\ \A i \in 1 .. Len(q) : (q \o t)[i] = q[i]
      /\ (q \o t)[Len(q) + 1] = m /\ (q \o t)[Len(q) + 2] = NL
  BY <1>1, <1>3, <1>5
<1> QED
  BY <1>2, <1>3, <1>4, <1>6 DEF t, Text

\* What is left of a stream behind what was read.
LEMMA RestFact ==
  ASSUME NEW S, NEW q \in Seq(S), NEW k \in 1 .. Len(q)
  PROVE  LET r == SubSeq(q, k + 1, Len(q))
         IN  /\ r \in Seq(S) /\ Len(q) \in Nat /\ k \in Nat /\ Len(r) = Len(q) - k
             /\ DOMAIN r = 1 .. Len(q) - k
             /\ \A i \in 1 .. Len(q) - k : i + k \in 1 .. Len(q) /\ r[i] = q[i + k]
<1> DEFINE r == SubSeq(q, k + 1, Len(q))
<1>1. Len(q) \in Nat /\ \A i \in 1 .. Len(q) : q[i] \in S
  BY LenProperties, ElementOfSeq
<1>2. k \in Nat /\ k + 1 \in Int /\ Len(q) \in Int /\ k <= Len(q)
  BY <1>1
<1>3. \A i \in k + 1 .. Len(q) : q[i] \in S
  BY <1>1, <1>2
<1>4. /\ r \in Seq(S) /\ Len(r) = IF k + 1 <= Len(q) THEN Len(q) - (k + 1) + 1 ELSE 0
      /\ \A i \in 1 .. Len(q) - (k + 1) + 1 : r[i] = q[(k + 1) + i - 1]
  BY <1>2, <1>3, SubSeqProperties
<1> HIDE DEF r
<1>5. Len(r) = Len(q) - k
  BY <1>1, <1>2, <1>4
<1>6. \A i \in 1 .. Len(q) - k :
        i \in 1 .. Len(q) - (k + 1) + 1 /\ (k + 1) + i - 1 = i + k /\ i + k \in 1 .. Len(q)
  BY <1>1, <1>2
<1>7. DOMAIN r = 1 .. Len(q) - k
  BY <1>4, <1>5, LenProperties
<1> QED
  BY <1>1, <1>2, <1>4, <1>5, <1>6, <1>7 DEF r

LEMMA TailFact ==
  ASSUME NEW S, NEW q \in Seq(S), q # <<>>
  PROVE  /\ Tail(q) \in Seq(S) /\ Len(q) \in Nat /\ Len(q) > 0 /\ Len(Tail(q)) = Len(q) - 1
         /\ DOMAIN q = 1 .. Len(q) /\ DOMAIN Tail(q) = 1 .. Len(q) - 1
         /\ Head(q) = q[1] /\ q[1] \in S /\ 1 \in DOMAIN q
         /\ \A i \in 1 .. Len(q) - 1 : i + 1 \in 1 .. Len(q) /\ Tail(q)[i] = q[i + 1]
         /\ Range(q) = {Head(q)} \cup Range(Tail(q))
<1>1. Len(q) \in Nat /\ DOMAIN q = 1 .. Len(q)
  BY LenProperties
<1>2. Len(q) > 0
  BY <1>1, EmptySeq
<1>3. 1 \in 1 .. Len(q)
  BY <1>1, <1>2
<1>4. q[1] \in S
  BY <1>3, ElementOfSeq
<1>5. /\ Tail(q) \in Seq(S) /\ Len(Tail(q)) = Len(q) - 1
      /\ \A i \in 1 .. Len(Tail(q)) : Tail(q)[i] = q[i + 1]
  BY HeadTailProperties
<1>6. DOMAIN Tail(q) = 1 .. Len(q) - 1
  BY <1>5, LenProperties
<1>7. \A i \in 1 .. Len(q) - 1 : i + 1 \in 1 .. Len(q)
  BY <1>1
<1>8. Head(q) = q[1]
  OBVIOUS
<1>9. Range(q) = {q[1]} \cup Range(Tail(q))
  <2>1. \A i \in 1 .. Len(q) : i = 1 \/ (i - 1 \in 1 .. Len(q) - 1 /\ (i - 1) + 1 = i)
    BY <1>1
  <2>2. ASSUME NEW i \in 1 .. Len(q), i # 1
        PROVE  i - 1 \in DOMAIN Tail(q) /\ q[i] = Tail(q)[i - 1]
    <3>1. i - 1 \in 1 .. Len(Tail(q)) /\ (i - 1) + 1 = i
      BY <2>1, <2>2, <1>5
    <3>2. Tail(q)[i - 1] = q[(i - 1) + 1]
      BY <3>1, <1>5
    <3> QED
      BY <3>1, <3>2, <1>5, <1>6
  <2>3. \A i \in DOMAIN Tail(q) : i + 1 \in DOMAIN q /\ Tail(q)[i] = q[i + 1]
    BY <1>1, <1>5, <1>6, <1>7
  <2>4. ASSUME NEW x \in Range(q)
        PROVE  x \in {q[1]} \cup Range(Tail(q))
    <3>1. PICK i \in DOMAIN q : x = q[i]
      BY DEF Range
    <3>2. i = 1 \/ (i - 1 \in DOMAIN Tail(q) /\ q[i] = Tail(q)[i - 1])
      BY <3>1, <1>1, <2>2
    <3> QED
      BY <3>1, <3>2 DEF Range
  <2>5. ASSUME NEW x \in Range(Tail(q))
        PROVE  x \in Range(q)
    BY <2>3 DEF Range
  <2>6. q[1] \in Range(q)
    BY <1>1, <1>3 DEF Range
  <2> QED
    BY <2>4, <2>5, <2>6
<1> QED
  BY <1>1, <1>2, <1>3, <1>4, <1>5, <1>6, <1>7, <1>8, <1>9

-----------------------------------------------------------------------------
(* What a step leaves alone *)

LEMMA CallbackKept ==
  ASSUME Callback, server' = server, DOMAIN wan_addrs_list' = DOMAIN wan_addrs_list
  PROVE  Callback'
BY DEF Callback, Listed, Message, Line

LEMMA OwnSocketsKept ==
  ASSUME OwnSockets,
         \A p \in Natportes :
           /\ natporte'[p].socket = natporte[p].socket
           /\ natporte[p] = Down => natporte'[p] = Down
  PROVE  OwnSockets'
BY DEF OwnSockets

LEMMA FramedKept ==
  ASSUME NEW s \in Sockets, Framed(s), Listed(s)' <=> Listed(s),
         to_pool'[s] = to_pool[s], natporte_message'[s] = natporte_message[s]
  PROVE  Framed(s)' /\ Phase(s)' = Phase(s)
<1>1. Phase(s)' = Phase(s)
  BY DEF Phase
<1> QED
  BY <1>1 DEF Framed

LEMMA WholeKept ==
  ASSUME NEW s \in Sockets, Whole(s), Listed(s)' <=> Listed(s),
         to_pool'[s] = to_pool[s], natporte_message'[s] = natporte_message[s]
  PROVE  Whole(s)'
<1>1. Phase(s)' = Phase(s)
  BY DEF Phase
<1> QED
  BY <1>1 DEF Whole

LEMMA OpenKept ==
  ASSUME NEW s \in Sockets, Listed(s)' <=> Listed(s), to_pool'[s] = to_pool[s]
  PROVE  Open(s)' <=> Open(s)
BY DEF Open

\* A natporte that a step does not touch.
LEMMA NatporteKept ==
  ASSUME NEW p \in Natportes, natporte'[p] = natporte[p],
         natporte[p] # Down => (Open(natporte[p].socket)' <=> Open(natporte[p].socket))
  PROVE  Connected(p)' <=> Connected(p)
BY DEF Connected

LEMMA FirstKeptKept ==
  ASSUME NEW s \in Sockets, FirstKept(s), UNCHANGED <<server, wan_addrs_list>>,
         natporte_message'[s] = natporte_message[s]
  PROVE  FirstKept(s)'
BY DEF FirstKept, Unnamed, Listed

LEMMA FirstUnreadKept ==
  ASSUME NEW s \in Sockets, FirstUnread(s), UNCHANGED <<server, wan_addrs_list>>,
         natporte_message'[s] = natporte_message[s], to_pool'[s] = to_pool[s]
  PROVE  FirstUnread(s)'
BY DEF FirstUnread, Unnamed, Listed

LEMMA FirstLineKept ==
  ASSUME FirstLine, UNCHANGED <<server, wan_addrs_list>>
  PROVE  FirstLine'
BY DEF FirstLine

LEMMA PoolInCallbackKept ==
  ASSUME PoolInCallback, UNCHANGED <<tcp_addrs, udp_addrs, wan_addrs_list, server>>
  PROVE  PoolInCallback'
BY DEF PoolInCallback, Lists, Message, Line

ClientsGrow == tcp_clients \subseteq tcp_clients' /\ udp_clients \subseteq udp_clients'

\* A client keeps its key.
LEMMA ClientKept ==
  ASSUME ClientsGrow
  PROVE  \A c : Client(c) => Client(c)'
BY DEF Client, ClientsGrow

LEMMA LinesKept ==
  ASSUME LinesKnown, server'.lines = server.lines, ClientsGrow
  PROVE  LinesKnown'
BY ClientKept DEF LinesKnown, Known

LEMMA UnreadKept ==
  ASSUME NEW s \in Sockets, Known(to_pool[s], "release"), to_pool'[s] = to_pool[s], ClientsGrow
  PROVE  Known(to_pool[s], "release")'
BY ClientKept DEF Known

LEMMA PartKept ==
  ASSUME NEW s \in Sockets, Known(natporte_message[s], "release"),
         natporte_message'[s] = natporte_message[s], ClientsGrow
  PROVE  Known(natporte_message[s], "release")'
BY ClientKept DEF Known

LEMMA AnswersKept ==
  ASSUME NEW p \in Natportes, AnswersKnown(p), natporte'[p].socket = natporte[p].socket,
         natporte'[p].table = natporte[p].table,
         natporte'[p].string_buffer = natporte[p].string_buffer,
         to_nat'[natporte[p].socket] = to_nat[natporte[p].socket], ClientsGrow
  PROVE  AnswersKnown(p)'
BY ClientKept DEF AnswersKnown, Known

-----------------------------------------------------------------------------
(* Fields *)

LEMMA ServerFields ==
  ASSUME Types
  PROVE  /\ server = [pc |-> server.pc, socket |-> server.socket,
                      lines |-> server.lines, addrs |-> server.addrs]
         /\ server.pc \in {"idle", "lines", "adding", "deleting"}
         /\ server.socket \in Sockets \cup {undefined}
         /\ server.lines \in Seq(Seq(UpTexts)) /\ server.addrs \in Seq(WanAddrs)
BY DEF Types

NatporteTypes == [socket : Sockets \cup {undefined}, table : SUBSET Held,
                  awaited : Seq(OrderTexts), string_buffer : Seq(DownTexts)]

LEMMA NatporteFields ==
  ASSUME Types, NEW p \in Natportes
  PROVE  /\ natporte \in [Natportes -> NatporteTypes]
         /\ natporte[p] = [socket |-> natporte[p].socket, table |-> natporte[p].table,
                           awaited |-> natporte[p].awaited, string_buffer |-> natporte[p].string_buffer]
         /\ natporte[p].socket \in Sockets \cup {undefined} /\ natporte[p].table \subseteq Held
         /\ natporte[p].awaited \in Seq(OrderTexts) /\ natporte[p].string_buffer \in Seq(DownTexts)
<1>1. natporte \in [Natportes -> NatporteTypes]
  BY DEF Types, NatporteTypes
<1>2. natporte[p] \in NatporteTypes
  BY <1>1
<1> QED
  BY <1>1, <1>2 DEF NatporteTypes

\* A socket of a natporte that runs.
LEMMA RunningSocket ==
  ASSUME Types, OwnSockets, NEW p \in Natportes, natporte[p] # Down
  PROVE  /\ natporte[p].socket \in Sockets /\ natporte[p].socket # undefined
         /\ \A q \in Natportes : natporte[q].socket = natporte[p].socket => q = p
<1>1. natporte[p].socket \in Sockets \cup {undefined}
  BY NatporteFields
<1> QED
  BY <1>1 DEF OwnSockets

LEMMA DownFields ==
  /\ Down.socket = undefined /\ Down.table = {} /\ Down.awaited = <<>> /\ Down.string_buffer = <<>>
  /\ Idle.pc = "idle" /\ Idle.socket = undefined /\ Idle.lines = <<>> /\ Idle.addrs = <<>>
BY DEF Down, Idle

LEMMA Parts ==
  ASSUME SessionInv
  PROVE  /\ tcpDB!IInv /\ udpDB!IInv /\ Types /\ Callback /\ OwnSockets /\ FramedToPool /\ WholeToPool
         /\ FramedToNat /\ InitializeFirst /\ ClientsKnown /\ PoolInCallback
BY DEF SessionInv

-----------------------------------------------------------------------------
(* The steps of a natporte *)

StreamTypes ==
    /\ to_pool \in [Sockets -> Seq(UpTexts \cup {NL} \cup Events)]
    /\ to_nat \in [Sockets -> Seq(DownTexts \cup {NL})]

\* A step of natporte p with its socket s leaves the server and every other
\* natporte alone: what is to be shown is about p and s.
LEMMA NatporteStep ==
  ASSUME SessionInv, NEW p \in Natportes, NEW s \in Sockets,
         UNCHANGED <<tcpVars, udpVars, sessionVars, server>>,
         natporte' \in [Natportes -> NatporteTypes], StreamTypes',
         \A q \in Natportes : q # p => natporte'[q] = natporte[q] /\ natporte[q].socket # s,
         \A t \in Sockets : t # s => to_pool'[t] = to_pool[t] /\ to_nat'[t] = to_nat[t],
         OwnSockets', Framed(s)', Connected(p)' => Whole(natporte[p].socket)',
         natporte'[p] # Down =>
           FramedAnswers(natporte'[p].string_buffer, to_nat'[natporte'[p].socket]),
         FirstUnread(s)', Known(to_pool[s], "release")', Connected(p)' => AnswersKnown(p)'
  PROVE  SessionInv'
<1>1. /\ UNCHANGED <<tcpVars, udpVars, server, wan_addrs_list, natporte_message>>
      /\ UNCHANGED <<tcp_addrs, udp_addrs, tcp_clients, udp_clients>>
      /\ ClientsGrow
  BY DEF sessionVars, tcpVars, udpVars, ClientsGrow
<1>2. \A t \in Sockets : Listed(t)' <=> Listed(t)
  BY <1>1 DEF Listed
<1>3. ASSUME NEW q \in Natportes, q # p
      PROVE  (Connected(q)' <=> Connected(q)) /\ natporte'[q] = natporte[q] /\ natporte[q].socket # s
  <2>1. natporte'[q] = natporte[q] /\ natporte[q].socket # s
    BY <1>3
  <2>2. natporte[q] # Down => (Open(natporte[q].socket)' <=> Open(natporte[q].socket))
    BY <2>1, <1>2, Parts, RunningSocket, OpenKept
  <2> QED
    BY <2>1, <2>2, NatporteKept
<1>4. tcpDB!IInv' /\ udpDB!IInv'
  BY <1>1, Parts, TcpKept, UdpKept
<1>5. Types'
  BY <1>1, Parts DEF Types, NatporteTypes, StreamTypes
<1>6. Callback'
  BY <1>1, Parts, CallbackKept
<1>7. FramedToPool'
  <2>1. ASSUME NEW t \in Sockets, t # s
        PROVE  Framed(t)'
    BY <2>1, <1>1, <1>2, Parts, FramedKept DEF FramedToPool
  <2> QED
    BY <2>1 DEF FramedToPool
<1>8. WholeToPool'
  <2>1. ASSUME NEW q \in Natportes, q # p, Connected(q)'
        PROVE  Whole(natporte[q].socket)'
    <3>1. Connected(q) /\ natporte'[q].socket = natporte[q].socket /\ natporte[q].socket # s
      BY <2>1, <1>3
    <3>2. natporte[q].socket \in Sockets /\ Whole(natporte[q].socket)
      BY <3>1, Parts, RunningSocket DEF WholeToPool, Connected
    <3> QED
      BY <3>1, <3>2, <1>1, <1>2, WholeKept DEF Whole, Phase
  <2> QED
    BY <2>1 DEF WholeToPool
<1>9. FramedToNat'
  <2>1. ASSUME NEW q \in Natportes, q # p, natporte'[q] # Down
        PROVE  FramedAnswers(natporte'[q].string_buffer, to_nat'[natporte'[q].socket])
    <3>1. natporte'[q] = natporte[q] /\ natporte[q].socket # s
      BY <2>1, <1>3
    <3>2. natporte[q].socket \in Sockets
      BY <2>1, <3>1, Parts, RunningSocket
    <3> QED
      BY <2>1, <3>1, <3>2, Parts DEF FramedToNat
  <2> QED
    BY <2>1 DEF FramedToNat, Down
<1>10. InitializeFirst'
  <2>1. FirstLine'
    BY <1>1, Parts, FirstLineKept DEF InitializeFirst
  <2>2. \A t \in Sockets : FirstKept(t)'
    BY <1>1, Parts, FirstKeptKept DEF InitializeFirst
  <2>3. ASSUME NEW t \in Sockets, t # s
        PROVE  FirstUnread(t)'
    BY <2>3, <1>1, Parts, FirstUnreadKept DEF InitializeFirst
  <2> QED
    BY <2>1, <2>2, <2>3 DEF InitializeFirst
<1>11. ClientsKnown'
  <2>1. LinesKnown'
    BY <1>1, Parts, LinesKept DEF ClientsKnown
  <2>2. ASSUME NEW t \in Sockets, t # s
        PROVE  Known(to_pool[t], "release")'
    BY <2>2, <1>1, Parts, UnreadKept DEF ClientsKnown
  <2>3. ASSUME NEW t \in Sockets, Listed(t)'
        PROVE  Known(natporte_message[t], "release")'
    BY <2>3, <1>1, <1>2, Parts, PartKept DEF ClientsKnown
  <2>4. ASSUME NEW q \in Natportes, q # p, Connected(q)'
        PROVE  AnswersKnown(q)'
    <3>1. Connected(q) /\ natporte'[q] = natporte[q] /\ natporte[q].socket # s
      BY <2>4, <1>3
    <3>2. natporte[q].socket \in Sockets
      BY <3>1, Parts, RunningSocket DEF Connected
    <3>3. AnswersKnown(q) /\ to_nat'[natporte[q].socket] = to_nat[natporte[q].socket]
      BY <3>1, <3>2, Parts DEF ClientsKnown
    <3> QED
      BY <3>1, <3>3, <1>1, AnswersKept
  <2> QED
    BY <2>1, <2>2, <2>3, <2>4 DEF ClientsKnown
<1>12. PoolInCallback'
  BY <1>1, Parts, PoolInCallbackKept
<1> QED
  BY <1>4, <1>5, <1>6, <1>7, <1>8, <1>9, <1>10, <1>11, <1>12 DEF SessionInv

LEMMA StartStep ==
  ASSUME SessionInv, NEW p \in Natportes, NEW s \in Sockets, Start(p, s)
  PROVE  SessionInv'
<1> DEFINE m == [type |-> "initialize", wan_addrs |-> pool_addr[p]]
           new == [socket |-> s, table |-> {}, awaited |-> <<>>, string_buffer |-> <<>>]
<1>1. m \in UpTexts /\ m.type = "initialize"
  BY SessionAssumption DEF UpTexts
<1>2. ~Listed(s) /\ (\A q \in Natportes : natporte[q].socket # s) /\ s # undefined
  BY SessionAssumption DEF Start, Open
<1>3. /\ natporte'[p] = new /\ natporte' \in [Natportes -> NatporteTypes]
      /\ \A q \in Natportes : q # p => natporte'[q] = natporte[q]
  <2>1. natporte \in [Natportes -> NatporteTypes]
    BY Parts, NatporteFields
  <2>2. natporte[p] = Down /\ natporte' = [natporte EXCEPT ![p].socket = s]
    BY DEF Start
  <2>3. [Down EXCEPT !.socket = s] = new
    <3>1. Down = [socket |-> Down.socket, table |-> Down.table, awaited |-> Down.awaited,
                  string_buffer |-> Down.string_buffer]
      BY DEF Down
    <3>2. [Down EXCEPT !.socket = s] = [socket |-> s, table |-> Down.table, awaited |-> Down.awaited,
                                        string_buffer |-> Down.string_buffer]
      BY <3>1
    <3> QED
      BY <3>2, DownFields
  <2>4. natporte' = [natporte EXCEPT ![p] = [natporte[p] EXCEPT !.socket = s]]
    BY <2>2
  <2>5. new \in NatporteTypes
    BY DEF NatporteTypes
  <2> HIDE DEF new
  <2>6. natporte' = [natporte EXCEPT ![p] = new]
    BY <2>2, <2>3, <2>4
  <2> QED
    BY <2>1, <2>5, <2>6
<1>4. new.socket = s /\ new.table = {} /\ new.string_buffer = <<>> /\ new # Down
  BY <1>2 DEF Down
<1> HIDE DEF new, m
<1>5. /\ to_pool' = [to_pool EXCEPT ![s] = <<Connecting>> \o Text(m)]
      /\ to_nat' = [to_nat EXCEPT ![s] = <<>>]
      /\ UNCHANGED <<tcpVars, udpVars, sessionVars, server, overlapped>>
  BY DEF Start, m
<1>6. /\ <<Connecting>> \o Text(m) \in Seq(UpTexts \cup {NL} \cup Events)
      /\ Len(<<Connecting>> \o Text(m)) = 3 /\ DOMAIN (<<Connecting>> \o Text(m)) = 1 .. 3
      /\ (<<Connecting>> \o Text(m))[1] = Connecting /\ (<<Connecting>> \o Text(m))[2] = m
      /\ (<<Connecting>> \o Text(m))[3] = NL
  <2> DEFINE q == <<Connecting>>
             S == UpTexts \cup {NL} \cup Events
  <2>1. q \in Seq(S) /\ Len(q) = 1 /\ q[1] = Connecting /\ m \in S /\ NL \in S
    BY <1>1, EventKinds
  <2> HIDE DEF q, S
  <2>2. /\ q \o Text(m) \in Seq(S) /\ Len(q) \in Nat
        /\ Len(q \o Text(m)) = Len(q) + 2 /\ DOMAIN (q \o Text(m)) = 1 .. Len(q) + 2
        /\ \A i \in 1 .. Len(q) : (q \o Text(m))[i] = q[i]
        /\ (q \o Text(m))[Len(q) + 1] = m /\ (q \o Text(m))[Len(q) + 2] = NL
    BY <2>1, TextBehind
  <2> QED
    BY <2>1, <2>2 DEF q, S
<1>7. StreamTypes
  BY Parts DEF Types, StreamTypes
<1>8. /\ StreamTypes' /\ to_pool'[s] = <<Connecting>> \o Text(m) /\ to_nat'[s] = <<>>
      /\ \A t \in Sockets : t # s => to_pool'[t] = to_pool[t] /\ to_nat'[t] = to_nat[t]
  BY <1>5, <1>6, <1>7 DEF StreamTypes
<1>9. /\ to_pool'[s] # <<>> /\ DOMAIN to_pool'[s] = 1 .. 3 /\ Len(to_pool'[s]) = 3
      /\ to_pool'[s][1] = Connecting /\ to_pool'[s][2] = m /\ to_pool'[s][3] = NL
      /\ \A i \in 1 .. 3 : i = 1 \/ i = 2 \/ i = 3
  BY <1>6, <1>8
<1>10. /\ m # NL /\ m \notin Events /\ m \notin Ends /\ NL \notin Events /\ NL \notin Ends
       /\ NL # Connecting /\ m # Connecting /\ Connecting \notin Ends /\ Connecting \in Events
       /\ Connecting.type = "connect" /\ NL.type = "newline"
  BY <1>1, UpKinds, EventKinds
<1>11. ~Listed(s)' /\ Phase(s)' = 1
  BY <1>2, <1>5 DEF Listed, Phase, sessionVars
<1>12. OwnSockets'
  <2>1. OwnSockets
    BY Parts
  <2>2. ASSUME NEW q \in Natportes
        PROVE  /\ natporte'[q].socket = undefined => natporte'[q] = Down
               /\ natporte'[q].socket # undefined =>
                    \A r \in Natportes : natporte'[r].socket = natporte'[q].socket => r = q
    BY <2>1, <1>2, <1>3, <1>4 DEF OwnSockets
  <2> QED
    BY <2>2 DEF OwnSockets
<1>13. Framed(s)'
  <2>1. ~Even(2 + 1) /\ Even(3 + 1)
    BY DEF Even
  <2>2. Len(natporte_message'[s]) <= 1
    BY <1>5, Parts DEF FramedToPool, Framed, sessionVars
  <2>3. ASSUME NEW i \in DOMAIN to_pool'[s]
        PROVE  /\ to_pool'[s][i] = Connecting => i = 1 /\ ~Listed(s)'
               /\ to_pool'[s][i] \in Ends => i = Len(to_pool'[s])
               /\ to_pool'[s][i] \notin Events => (to_pool'[s][i] = NL <=> Even(i + 1))
    BY <2>1, <1>9, <1>10, <1>11
  <2> QED
    BY <2>2, <2>3, <1>9, <1>11 DEF Framed
<1>14. Whole(natporte[p].socket)'
  <2>1. Even(3 + 1)
    BY DEF Even
  <2>2. \A i \in 1 .. 3 : to_pool'[s][i] \notin Ends
    BY <1>9, <1>10
  <2>3. Whole(s)'
    BY <2>1, <2>2, <1>9, <1>11 DEF Whole
  <2> QED
    BY <2>3, <1>3, <1>4
<1>15. FramedAnswers(natporte'[p].string_buffer, to_nat'[natporte'[p].socket])
  <2>1. Even(0 + 0) /\ Len(<<>>) = 0
    BY DEF Even
  <2>2. FramedAnswers(<<>>, <<>>)
    BY <2>1 DEF FramedAnswers
  <2> QED
    BY <2>2, <1>3, <1>4, <1>8
<1>16. FirstUnread(s)'
  <2>1. \A i \in DOMAIN to_pool'[s] : to_pool'[s][i].type = "initialize" => i = 2
    BY <1>9, <1>10
  <2> QED
    BY <2>1, <1>11 DEF FirstUnread
<1>17. Known(to_pool[s], "release")'
  <2>1. \A i \in DOMAIN to_pool'[s] : to_pool'[s][i].type # "release"
    BY <1>1, <1>9, <1>10
  <2> QED
    BY <2>1 DEF Known
<1>18. AnswersKnown(p)'
  BY <1>3, <1>4, <1>8 DEF AnswersKnown, Known
<1> QED
  BY <1>2, <1>3, <1>5, <1>8, <1>12, <1>13, <1>14, <1>15, <1>16, <1>17, <1>18, NatporteStep

\* An order is a text, and no initialize; a release is of a connection of the
\* table.
LEMMA OrderTextFact ==
  ASSUME Types, NEW p \in Natportes, NEW m \in Orders(p)
  PROVE  /\ m \in OrderTexts /\ m \in UpTexts /\ m.type \in {"request", "release"}
         /\ m.type = "release" =>
              \E c \in natporte[p].table : m.protocol = c.protocol /\ m.entry = c.entry
<1>1. CASE m \in [type : {"request"}, protocol : Ordered[p], lan : Clients \X LanPorts]
  <2>1. Ordered[p] \subseteq Protocols
    BY SessionAssumption
  <2>2. m \in [type : {"request"}, protocol : Protocols, lan : Clients \X LanPorts]
    BY <1>1, <2>1
  <2>3. m.type = "request"
    BY <1>1
  <2> QED
    BY <2>2, <2>3 DEF OrderTexts, UpTexts
<1>2. CASE m \in {[type |-> "release", protocol |-> c.protocol, entry |-> c.entry] : c \in natporte[p].table}
  <2>1. PICK c \in natporte[p].table : m = [type |-> "release", protocol |-> c.protocol, entry |-> c.entry]
    BY <1>2
  <2>2. c \in Held
    BY NatporteFields
  <2>3. c.protocol \in Protocols /\ c.entry \in Entries
    BY <2>2 DEF Held
  <2>4. m \in [type : {"release"}, protocol : Protocols, entry : Entries]
    BY <2>1, <2>3
  <2>5. m.type = "release" /\ m.protocol = c.protocol /\ m.entry = c.entry
    BY <2>1
  <2> QED
    BY <2>4, <2>5 DEF OrderTexts, UpTexts
<1> QED
  BY <1>1, <1>2 DEF Orders

\* Texts behind a stream that is whole leave it whole.
LEMMA OrderStep ==
  ASSUME SessionInv, NEW p \in Natportes, NEW m \in Orders(p), Order(p, m)
  PROVE  SessionInv'
<1> DEFINE n == natporte[p]
<1>1. /\ m \in OrderTexts /\ m \in UpTexts /\ m.type \in {"request", "release"}
      /\ m.type = "release" => \E c \in n.table : m.protocol = c.protocol /\ m.entry = c.entry
  BY Parts, OrderTextFact
<1>2. PICK s \in Sockets : /\ s = n.socket /\ n # Down /\ s # undefined
                          /\ \A q \in Natportes : q # p => natporte[q].socket # s
  BY Parts, RunningSocket DEF Order
<1> DEFINE new == [socket |-> s, table |-> n.table, awaited |-> Append(n.awaited, m),
                   string_buffer |-> n.string_buffer]
<1>3. /\ natporte'[p] = new /\ natporte' \in [Natportes -> NatporteTypes]
      /\ \A q \in Natportes : q # p => natporte'[q] = natporte[q]
  <2>1. natporte \in [Natportes -> NatporteTypes]
    BY Parts, NatporteFields
  <2>2. natporte' = [natporte EXCEPT ![p] = [natporte[p] EXCEPT !.awaited = Append(natporte[p].awaited, m)]]
    BY DEF Order
  <2>3. [n EXCEPT !.awaited = Append(n.awaited, m)] = new
    <3>1. n = [socket |-> n.socket, table |-> n.table, awaited |-> n.awaited,
               string_buffer |-> n.string_buffer]
      BY Parts, NatporteFields
    <3> HIDE DEF n
    <3> QED
      BY <3>1, <1>2
  <2>4. new \in NatporteTypes
    <3>1. Append(n.awaited, m) \in Seq(OrderTexts)
      BY <1>1, Parts, NatporteFields, AppendProperties
    <3>2. s \in Sockets \cup {undefined} /\ n.table \in SUBSET Held /\ n.string_buffer \in Seq(DownTexts)
      BY Parts, NatporteFields
    <3> HIDE DEF n
    <3> QED
      BY <3>1, <3>2 DEF NatporteTypes
  <2> HIDE DEF new
  <2>5. natporte' = [natporte EXCEPT ![p] = new]
    BY <2>2, <2>3
  <2> QED
    BY <2>1, <2>4, <2>5
<1>4. new.socket = s /\ new.table = n.table /\ new.string_buffer = n.string_buffer /\ new # Down
  <2>1. new.socket = s
    OBVIOUS
  <2> QED
    BY <2>1, <1>2, DownFields
<1>5. /\ to_pool' = [to_pool EXCEPT ![s] = IF Open(s) THEN to_pool[s] \o Text(m) ELSE to_pool[s]]
      /\ UNCHANGED <<tcpVars, udpVars, sessionVars, server, to_nat, overlapped>>
      /\ UNCHANGED <<wan_addrs_list, natporte_message, tcp_clients, udp_clients>> /\ ClientsGrow
  BY <1>2 DEF Order, tcpVars, udpVars, sessionVars, ClientsGrow
<1> HIDE DEF new, n
<1>6. StreamTypes
  BY Parts DEF Types, StreamTypes
<1> DEFINE q == to_pool[s]
           r == q \o Text(m)
           L == Len(q)
<1>7. /\ r \in Seq(UpTexts \cup {NL} \cup Events) /\ L \in Nat
      /\ Len(r) = L + 2 /\ DOMAIN r = 1 .. L + 2 /\ DOMAIN q = 1 .. L
      /\ \A i \in 1 .. L : r[i] = q[i]
      /\ r[L + 1] = m /\ r[L + 2] = NL
  <2> DEFINE S == UpTexts \cup {NL} \cup Events
  <2>1. q \in Seq(S) /\ m \in S /\ NL \in S
    BY <1>1, <1>2, <1>6 DEF StreamTypes
  <2> HIDE DEF S
  <2> QED
    <3>1. DOMAIN q = 1 .. L
      BY <2>1, LenProperties
    <3> HIDE DEF q
    <3>2. /\ q \o Text(m) \in Seq(S) /\ Len(q) \in Nat
          /\ Len(q \o Text(m)) = Len(q) + 2 /\ DOMAIN (q \o Text(m)) = 1 .. Len(q) + 2
          /\ \A i \in 1 .. Len(q) : (q \o Text(m))[i] = q[i]
          /\ (q \o Text(m))[Len(q) + 1] = m /\ (q \o Text(m))[Len(q) + 2] = NL
      BY <2>1, TextBehind
    <3> QED
      BY <3>1, <3>2 DEF S
<1> HIDE DEF r, q, L
<1>8. /\ StreamTypes' /\ to_pool'[s] = IF Open(s) THEN r ELSE to_pool[s]
      /\ to_nat' = to_nat
      /\ \A t \in Sockets : t # s => to_pool'[t] = to_pool[t] /\ to_nat'[t] = to_nat[t]
  <2>1. r \in Seq(UpTexts \cup {NL} \cup Events)
    BY <1>7
  <2>2. to_pool' = [to_pool EXCEPT ![s] = IF Open(s) THEN r ELSE to_pool[s]]
    BY <1>5 DEF r, q
  <2> QED
    BY <2>1, <2>2, <1>2, <1>5, <1>6 DEF StreamTypes
<1>9. (Listed(s)' <=> Listed(s)) /\ Phase(s)' = Phase(s) /\ Phase(s) \in Nat
  <2>1. natporte_message[s] \in Seq(UpTexts)
    BY <1>2, Parts DEF Types
  <2>2. Len(natporte_message[s]) \in Nat
    BY <2>1, LenProperties
  <2> QED
    BY <2>2, <1>5 DEF Listed, Phase
<1>10. OwnSockets'
  <2>1. OwnSockets
    BY Parts
  <2>2. ASSUME NEW a \in Natportes
        PROVE  natporte'[a].socket = natporte[a].socket /\ (natporte[a] = Down => natporte'[a] = Down)
    BY <1>2, <1>3, <1>4 DEF n
  <2> QED
    BY <2>1, <2>2, OwnSocketsKept
<1>11. /\ Framed(s)' /\ (Connected(p)' => Whole(natporte[p].socket)')
       /\ FirstUnread(s)' /\ Known(to_pool[s], "release")'
  <2>1. Framed(s) /\ FirstUnread(s) /\ Known(to_pool[s], "release")
    BY <1>2, Parts DEF FramedToPool, InitializeFirst, ClientsKnown
  <2>2. natporte'[p].socket = s
    BY <1>3, <1>4
  <2>3. CASE ~Open(s)
    <3>1. to_pool'[s] = to_pool[s]
      BY <2>3, <1>8
    <3>2. Framed(s)' /\ FirstUnread(s)' /\ Known(to_pool[s], "release")'
      BY <2>1, <3>1, <1>2, <1>5, <1>9, FramedKept, FirstUnreadKept, UnreadKept
    <3>3. ~Open(s)'
      BY <2>3, <3>1, <1>2, <1>9, OpenKept
    <3>4. ~Connected(p)'
      BY <2>2, <3>3 DEF Connected
    <3> QED
      BY <3>2, <3>4
  <2>4. CASE Open(s)
    <3>1. Connected(p) /\ Whole(s)
      <4>1. Connected(p)
        BY <2>4, <1>2 DEF Connected, n
      <4> QED
        BY <4>1, <1>2, Parts DEF WholeToPool, n
    <3>2. to_pool'[s] = r
      BY <2>4, <1>8
    <3>3. m # NL /\ m \notin Ends /\ NL \notin Ends /\ m # Connecting /\ NL # Connecting /\ NL.type = "newline"
      BY <1>1, UpKinds, EventKinds
    <3>4. Even(L + Phase(s)) /\ \A i \in 1 .. L : q[i] \notin Ends
      BY <3>1, <1>7 DEF Whole, q, L
    <3>5. ~Even((L + 1) + Phase(s)) /\ Even((L + 2) + Phase(s))
      <4>1. PICK n0 \in Nat : n0 = L + Phase(s)
        BY <1>7, <1>9
      <4>2. (L + 1) + Phase(s) = n0 + 1 /\ (L + 2) + Phase(s) = n0 + 2
        BY <4>1, <1>7, <1>9
      <4> QED
        BY <4>1, <4>2, <3>4, EvenFact
    <3>6. \A i \in 1 .. L + 2 : i \in 1 .. L \/ i = L + 1 \/ i = L + 2
      BY <1>7
    <3>7. ~Listed(s) => L >= 1 /\ q[1] = Connecting
      <4>1. ~Listed(s) => q # <<>> /\ q[1] = Connecting
        BY <2>1, <2>4 DEF Open, Framed, q
      <4>2. q # <<>> => L # 0
        <5>1. q \in Seq(UpTexts \cup {NL} \cup Events)
          BY <1>2, <1>6 DEF StreamTypes, q
        <5> QED
          BY <5>1, EmptySeq DEF L
      <4> QED
        BY <4>1, <4>2, <1>7
    <3>8. Framed(s)'
      <4>1. Len(natporte_message'[s]) <= 1
        BY <2>1, <1>5 DEF Framed
      <4>2. ~Listed(s)' => r[1] = Connecting
        <5>1. ~Listed(s) => 1 \in 1 .. L
          BY <3>7, <1>7
        <5> QED
          BY <3>7, <5>1, <1>7, <1>9
      <4>3. ASSUME NEW i \in DOMAIN r
            PROVE  /\ r[i] = Connecting => i = 1 /\ ~Listed(s)'
                   /\ r[i] \in Ends => i = Len(r)
                   /\ r[i] \notin Events => (r[i] = NL <=> Even(i + Phase(s)))
        <5>1. CASE i \in 1 .. L
          BY <5>1, <2>1, <3>4, <1>7, <1>9 DEF Framed, q
        <5>2. CASE i = L + 1 \/ i = L + 2
          BY <5>2, <3>3, <3>5, <1>7
        <5> QED
          BY <5>1, <5>2, <3>6, <1>7
      <4> QED
        BY <4>1, <4>2, <4>3, <3>2, <1>9 DEF Framed
    <3>9. Whole(s)'
      <4>1. \A i \in 1 .. L + 2 : r[i] \notin Ends
        BY <3>3, <3>4, <3>6, <1>7
      <4> QED
        BY <4>1, <3>2, <3>5, <1>7, <1>9 DEF Whole
    <3>10. FirstUnread(s)'
      <4>1. ASSUME NEW i \in DOMAIN r, r[i].type = "initialize"
            PROVE  i \in 1 .. L /\ q[i].type = "initialize"
        BY <4>1, <3>3, <3>6, <1>1, <1>7
      <4>2. \A i \in DOMAIN r : r[i].type = "initialize" =>
              IF Listed(s) THEN i = 1 /\ natporte_message[s] = <<>> /\ Unnamed(s) ELSE i = 2
        BY <4>1, <2>1, <1>7 DEF FirstUnread, q
      <4>3. Unnamed(s)' <=> Unnamed(s)
        BY <1>5 DEF Unnamed
      <4> QED
        BY <4>2, <4>3, <3>2, <1>5, <1>9 DEF FirstUnread
    <3>11. Known(to_pool[s], "release")'
      <4>1. ASSUME NEW i \in DOMAIN r, r[i].type = "release"
            PROVE  Client(r[i])
        <5>1. CASE i \in 1 .. L
          BY <4>1, <5>1, <2>1, <1>7 DEF Known, q
        <5>2. CASE i = L + 1
          <6>1. PICK c \in n.table : m.protocol = c.protocol /\ m.entry = c.entry
            BY <4>1, <5>2, <1>1, <1>7
          <6>2. Client(c)
            BY <3>1, Parts DEF ClientsKnown, AnswersKnown, n
          <6> QED
            BY <6>1, <6>2, <5>2, <1>7 DEF Client
        <5>3. CASE i = L + 2
          BY <4>1, <5>3, <3>3, <1>7
        <5> QED
          BY <5>1, <5>2, <5>3, <3>6, <1>7
      <4> QED
        BY <4>1, <3>2, <1>5 DEF Known, Client
    <3> QED
      BY <2>2, <3>8, <3>9, <3>10, <3>11
  <2> QED
    BY <2>3, <2>4
<1>12. FramedAnswers(natporte'[p].string_buffer, to_nat'[natporte'[p].socket])
  BY <1>2, <1>3, <1>4, <1>8, Parts DEF FramedToNat, n
<1>13. Connected(p)' => AnswersKnown(p)'
  <2> SUFFICES ASSUME Connected(p)' PROVE AnswersKnown(p)'
    OBVIOUS
  <2>1. Open(s)'
    BY <1>3, <1>4 DEF Connected
  <2>2. Open(s)
    BY <2>1, <1>2, <1>8, <1>9, OpenKept
  <2>3. Connected(p)
    BY <2>2, <1>2 DEF Connected, n
  <2> QED
    <3>1. AnswersKnown(p)
      BY <2>3, Parts DEF ClientsKnown
    <3>2. natporte'[p].socket = natporte[p].socket /\ natporte'[p].table = natporte[p].table
          /\ natporte'[p].string_buffer = natporte[p].string_buffer
      BY <1>2, <1>3, <1>4 DEF n
    <3> QED
      BY <3>1, <3>2, <1>5, AnswersKept
<1>14. \A a \in Natportes : a # p => natporte'[a] = natporte[a] /\ natporte[a].socket # s
  BY <1>2, <1>3
<1> QED
  BY <1>2, <1>3, <1>5, <1>8, <1>10, <1>11, <1>12, <1>13, <1>14, NatporteStep

\* natporte stops: the last thing in its stream is the event.
LEMMA ExitStep ==
  ASSUME SessionInv, NEW p \in Natportes, Exit(p)
  PROVE  SessionInv'
<1>1. PICK s \in Sockets : /\ s = natporte[p].socket /\ natporte[p] # Down /\ s # undefined
                          /\ \A q \in Natportes : q # p => natporte[q].socket # s
  BY Parts, RunningSocket DEF Exit
<1>2. PICK type \in {"end", "reset"} :
        to_pool' = [to_pool EXCEPT ![s] = IF Open(s) THEN Append(to_pool[s], [type |-> type]) ELSE to_pool[s]]
  BY <1>1 DEF Exit
<1>3. /\ natporte' = [natporte EXCEPT ![p] = Down] /\ to_nat' = [to_nat EXCEPT ![s] = <<>>]
      /\ UNCHANGED <<tcpVars, udpVars, sessionVars, server, overlapped>>
      /\ UNCHANGED <<wan_addrs_list, natporte_message, tcp_clients, udp_clients>> /\ ClientsGrow
  BY <1>1 DEF Exit, tcpVars, udpVars, sessionVars, ClientsGrow
<1> DEFINE ev == [type |-> type]
<1>4. /\ ev \in Ends /\ ev \in Events /\ ev # Connecting /\ ev.type \notin {"initialize", "release"}
  BY EventKinds DEF Ends, Events, Connecting
<1> HIDE DEF ev
<1>5. /\ natporte'[p] = Down /\ natporte' \in [Natportes -> NatporteTypes]
      /\ \A q \in Natportes : q # p => natporte'[q] = natporte[q]
  <2>1. natporte \in [Natportes -> NatporteTypes]
    BY Parts, NatporteFields
  <2>2. Down \in NatporteTypes
    BY DEF Down, NatporteTypes
  <2> QED
    BY <2>1, <2>2, <1>3
<1>6. StreamTypes
  BY Parts DEF Types, StreamTypes
<1> DEFINE q == to_pool[s]
           r == Append(q, ev)
           L == Len(q)
<1>7. /\ r \in Seq(UpTexts \cup {NL} \cup Events) /\ L \in Nat
      /\ Len(r) = L + 1 /\ DOMAIN r = 1 .. L + 1 /\ DOMAIN q = 1 .. L
      /\ \A i \in 1 .. L : r[i] = q[i]
      /\ r[L + 1] = ev
  <2> DEFINE S == UpTexts \cup {NL} \cup Events
  <2>1. q \in Seq(S) /\ ev \in S
    BY <1>1, <1>4, <1>6 DEF StreamTypes
  <2> HIDE DEF S, q
  <2>2. DOMAIN q = 1 .. L /\ L \in Nat
    BY <2>1, LenProperties
  <2>3. /\ r \in Seq(S) /\ Len(r) = L + 1 /\ r[L + 1] = ev /\ \A i \in 1 .. L : r[i] = q[i]
    BY <2>1, AppendProperties
  <2>4. DOMAIN r = 1 .. L + 1
    BY <2>3, LenProperties
  <2> QED
    BY <2>2, <2>3, <2>4 DEF S
<1> HIDE DEF r, q, L
<1>8. /\ StreamTypes' /\ to_pool'[s] = IF Open(s) THEN r ELSE to_pool[s]
      /\ to_nat'[s] = <<>>
      /\ \A t \in Sockets : t # s => to_pool'[t] = to_pool[t] /\ to_nat'[t] = to_nat[t]
  <2>1. r \in Seq(UpTexts \cup {NL} \cup Events)
    BY <1>7
  <2>2. to_pool' = [to_pool EXCEPT ![s] = IF Open(s) THEN r ELSE to_pool[s]]
    BY <1>2 DEF r, q, ev
  <2> QED
    BY <2>1, <2>2, <1>1, <1>3, <1>6 DEF StreamTypes
<1>9. (Listed(s)' <=> Listed(s)) /\ Phase(s)' = Phase(s)
  BY <1>3 DEF Listed, Phase
<1>10. OwnSockets'
  <2>1. OwnSockets
    BY Parts
  <2>2. ASSUME NEW a \in Natportes
        PROVE  /\ natporte'[a].socket = undefined => natporte'[a] = Down
               /\ natporte'[a].socket # undefined =>
                    \A b \in Natportes : natporte'[b].socket = natporte'[a].socket => b = a
    BY <2>1, <1>5, DownFields DEF OwnSockets
  <2> QED
    BY <2>2 DEF OwnSockets
<1>11. Framed(s)' /\ FirstUnread(s)' /\ Known(to_pool[s], "release")'
  <2>1. Framed(s) /\ FirstUnread(s) /\ Known(to_pool[s], "release")
    BY Parts DEF FramedToPool, InitializeFirst, ClientsKnown
  <2>2. CASE ~Open(s)
    <3>1. to_pool'[s] = to_pool[s]
      BY <2>2, <1>8
    <3> QED
      BY <2>1, <3>1, <1>3, <1>9, FramedKept, FirstUnreadKept, UnreadKept
  <2>3. CASE Open(s)
    <3>1. Whole(s)
      <4>1. Connected(p)
        BY <2>3, <1>1 DEF Connected
      <4> QED
        BY <4>1, <1>1, Parts DEF WholeToPool
    <3>2. to_pool'[s] = r
      BY <2>3, <1>8
    <3>3. \A i \in 1 .. L : q[i] \notin Ends
      BY <3>1, <1>7 DEF Whole, q
    <3>4. \A i \in 1 .. L + 1 : i \in 1 .. L \/ i = L + 1
      BY <1>7
    <3>5. ~Listed(s) => 1 \in 1 .. L /\ q[1] = Connecting
      <4>1. ~Listed(s) => q # <<>> /\ q[1] = Connecting
        BY <2>1, <2>3 DEF Open, Framed, q
      <4>2. q # <<>> => L # 0
        <5>1. q \in Seq(UpTexts \cup {NL} \cup Events)
          BY <1>6 DEF StreamTypes, q
        <5> QED
          BY <5>1, EmptySeq DEF L
      <4> QED
        BY <4>1, <4>2, <1>7
    <3>6. Framed(s)'
      <4>1. Len(natporte_message'[s]) <= 1
        BY <2>1, <1>3 DEF Framed
      <4>2. ~Listed(s)' => r[1] = Connecting
        BY <3>5, <1>7, <1>9
      <4>3. ASSUME NEW i \in DOMAIN r
            PROVE  /\ r[i] = Connecting => i = 1 /\ ~Listed(s)'
                   /\ r[i] \in Ends => i = Len(r)
                   /\ r[i] \notin Events => (r[i] = NL <=> Even(i + Phase(s)))
        <5>1. CASE i \in 1 .. L
          BY <5>1, <2>1, <3>3, <1>7, <1>9 DEF Framed, q
        <5>2. CASE i = L + 1
          BY <5>2, <1>4, <1>7
        <5> QED
          BY <5>1, <5>2, <3>4, <1>7
      <4> QED
        BY <4>1, <4>2, <4>3, <3>2, <1>9 DEF Framed
    <3>7. FirstUnread(s)'
      <4>1. ASSUME NEW i \in DOMAIN r, r[i].type = "initialize"
            PROVE  i \in 1 .. L /\ q[i].type = "initialize"
        BY <4>1, <3>4, <1>4, <1>7
      <4>2. \A i \in DOMAIN r : r[i].type = "initialize" =>
              IF Listed(s) THEN i = 1 /\ natporte_message[s] = <<>> /\ Unnamed(s) ELSE i = 2
        BY <4>1, <2>1, <1>7 DEF FirstUnread, q
      <4>3. Unnamed(s)' <=> Unnamed(s)
        BY <1>3 DEF Unnamed
      <4> QED
        BY <4>2, <4>3, <3>2, <1>3, <1>9 DEF FirstUnread
    <3>8. Known(to_pool[s], "release")'
      <4>1. ASSUME NEW i \in DOMAIN r, r[i].type = "release"
            PROVE  Client(r[i])
        BY <4>1, <2>1, <3>4, <1>4, <1>7 DEF Known, q
      <4> QED
        BY <4>1, <3>2, <1>3 DEF Known, Client
    <3> QED
      BY <3>6, <3>7, <3>8
  <2> QED
    BY <2>2, <2>3
<1>12. ~Connected(p)'
  BY <1>5 DEF Connected, Down
<1>13. \A a \in Natportes : a # p => natporte'[a] = natporte[a] /\ natporte[a].socket # s
  BY <1>1, <1>5
<1> QED
  BY <1>3, <1>5, <1>8, <1>10, <1>11, <1>12, <1>13, NatporteStep

\* One answer: the table stays within S if the mapping it brings is in S.
LEMMA HandledFact ==
  ASSUME NEW n \in NatporteTypes, NEW m \in DownTexts, NEW S \in SUBSET Held, n.table \subseteq S,
         m.type = "request_ack" => [protocol |-> m.protocol, entry |-> m.entry] \in S
  PROVE  /\ Handled(n, m) \in NatporteTypes /\ Handled(n, m).table \subseteq S
         /\ Handled(n, m).socket = n.socket /\ Handled(n, m).string_buffer = n.string_buffer
<1>1. CASE m = Initialize
  BY <1>1 DEF Handled
<1>2. CASE m # Initialize
  <2> DEFINE t == Applied(n.table, m)
             a == SubSeq(n.awaited, 2, Len(n.awaited))
             new == [socket |-> n.socket, table |-> t, awaited |-> a, string_buffer |-> n.string_buffer]
  <2>1. m.type \in {"request_discard", "request_ack", "release_ack"}
    BY <1>2, DownKinds
  <2>2. t \subseteq S
    <3>1. CASE m.type = "request_ack"
      BY <3>1 DEF Applied
    <3>2. CASE m.type = "release_ack"
      BY <3>2 DEF Applied
    <3>3. CASE m.type = "request_discard"
      BY <3>3 DEF Applied
    <3> QED
      BY <2>1, <3>1, <3>2, <3>3
  <2>3. a \in Seq(OrderTexts)
    <3>1. n.awaited \in Seq(OrderTexts)
      BY DEF NatporteTypes
    <3>2. Len(n.awaited) \in Nat /\ \A i \in 1 .. Len(n.awaited) : n.awaited[i] \in OrderTexts
      BY <3>1, LenProperties, ElementOfSeq
    <3>3. \A i \in 2 .. Len(n.awaited) : n.awaited[i] \in OrderTexts
      BY <3>2
    <3> QED
      BY <3>2, <3>3, SubSeqProperties
  <2>4. Handled(n, m) = new
    <3>1. n = [socket |-> n.socket, table |-> n.table, awaited |-> n.awaited,
               string_buffer |-> n.string_buffer]
      BY DEF NatporteTypes
    <3>2. Handled(n, m) = [n EXCEPT !.table = t, !.awaited = a]
      BY <1>2 DEF Handled
    <3> HIDE DEF t, a
    <3> QED
      BY <3>1, <3>2
  <2> HIDE DEF t, a
  <2>5. new \in NatporteTypes /\ new.table = t /\ new.socket = n.socket
        /\ new.string_buffer = n.string_buffer
    BY <2>2, <2>3 DEF NatporteTypes
  <2> QED
    BY <2>2, <2>4, <2>5
<1> QED
  BY <1>1, <1>2

HandledAll(F, n, lines, N) ==
    F = [i \in 0 .. N |-> IF i = 0 THEN n ELSE Handled(F[i - 1], Head(lines[i]))]

\* The recursive function of Read exists.
LEMMA HandledExists ==
  ASSUME NEW n, NEW lines, NEW N \in Nat
  PROVE  \E F : HandledAll(F, n, lines, N)
<1> DEFINE T == {k \in 0 .. N : \E F : HandledAll(F, n, lines, k)}
<1>1. 0 \in T
  <2> DEFINE F == [i \in 0 .. 0 |-> n]
  <2>1. F = [i \in 0 .. 0 |-> IF i = 0 THEN n ELSE Handled(F[i - 1], Head(lines[i]))]
    OBVIOUS
  <2> HIDE DEF F
  <2>2. HandledAll(F, n, lines, 0)
    BY <2>1 DEF HandledAll
  <2>3. 0 \in 0 .. N
    OBVIOUS
  <2> QED
    BY <2>2, <2>3
<1>2. ASSUME NEW k \in 0 .. N, k < N, k \in T
      PROVE  k + 1 \in T
  <2>1. PICK F : HandledAll(F, n, lines, k)
    BY <1>2
  <2> DEFINE G == [i \in 0 .. k + 1 |-> IF i = k + 1 THEN Handled(F[k], Head(lines[k + 1])) ELSE F[i]]
  <2>2. ASSUME NEW i \in 0 .. k + 1
        PROVE  G[i] = IF i = 0 THEN n ELSE Handled(G[i - 1], Head(lines[i]))
    <3>1. CASE i = k + 1
      <4>1. i # 0 /\ i - 1 = k /\ k \in 0 .. k + 1 /\ k # k + 1
        BY <3>1
      <4>2. G[k] = F[k]
        BY <4>1
      <4> QED
        BY <3>1, <4>1, <4>2
    <3>2. CASE i # k + 1
      <4>1. i \in 0 .. k
        BY <3>2
      <4>2. F[i] = IF i = 0 THEN n ELSE Handled(F[i - 1], Head(lines[i]))
        BY <2>1, <4>1 DEF HandledAll
      <4>3. i # 0 => i - 1 \in 0 .. k + 1 /\ i - 1 # k + 1
        BY <4>1
      <4>4. G[i] = F[i] /\ (i # 0 => G[i - 1] = F[i - 1])
        BY <3>2, <4>3
      <4> QED
        BY <4>2, <4>4
    <3> QED
      BY <3>1, <3>2
  <2>3. G = [i \in 0 .. k + 1 |-> G[i]]
    OBVIOUS
  <2> HIDE DEF G
  <2>4. HandledAll(G, n, lines, k + 1)
    BY <2>2, <2>3 DEF HandledAll
  <2>5. k + 1 \in 0 .. N
    BY <1>2
  <2> QED
    BY <2>4, <2>5
<1> HIDE DEF T
<1>3. 0 .. N \subseteq T
  BY <1>1, <1>2, UpTo
<1> QED
  BY <1>3 DEF T

\* All answers that were read: what they bring to the table.
LEMMA HandledTables ==
  ASSUME NEW n \in NatporteTypes, NEW lines, NEW N \in Nat, NEW F, HandledAll(F, n, lines, N),
         NEW S \in SUBSET Held, n.table \subseteq S,
         \A i \in 1 .. N : /\ Head(lines[i]) \in DownTexts
                           /\ Head(lines[i]).type = "request_ack" =>
                                [protocol |-> Head(lines[i]).protocol, entry |-> Head(lines[i]).entry] \in S
  PROVE  /\ F[N] \in NatporteTypes /\ F[N].table \subseteq S
         /\ F[N].socket = n.socket /\ F[N].string_buffer = n.string_buffer
<1> DEFINE Good(r) == /\ r \in NatporteTypes /\ r.table \subseteq S
                      /\ r.socket = n.socket /\ r.string_buffer = n.string_buffer
           T == {k \in 0 .. N : Good(F[k])}
<1>1. 0 \in T
  BY DEF HandledAll
<1>2. ASSUME NEW k \in 0 .. N, k < N, k \in T
      PROVE  k + 1 \in T
  <2>1. k + 1 \in 1 .. N /\ k + 1 # 0 /\ (k + 1) - 1 = k /\ k + 1 \in 0 .. N
    BY <1>2
  <2>2. F[k + 1] = Handled(F[k], Head(lines[k + 1]))
    <3>1. F[k + 1] = IF k + 1 = 0 THEN n ELSE Handled(F[(k + 1) - 1], Head(lines[k + 1]))
      BY <2>1 DEF HandledAll
    <3> QED
      BY <2>1, <3>1
  <2>3. Good(F[k])
    BY <1>2
  <2>4. Good(Handled(F[k], Head(lines[k + 1])))
    BY <2>1, <2>3, HandledFact
  <2> QED
    BY <2>1, <2>2, <2>4
<1> HIDE DEF T
<1>3. 0 .. N \subseteq T
  BY <1>1, <1>2, UpTo
<1> QED
  BY <1>3 DEF T

\* natporte takes in the lines that are complete.
LEMMA ReceiveStep ==
  ASSUME SessionInv, NEW p \in Natportes, Receive(p)
  PROVE  SessionInv'
<1>1. PICK s \in Sockets : /\ s = natporte[p].socket /\ natporte[p] # Down /\ s # undefined
                          /\ \A q \in Natportes : q # p => natporte[q].socket # s
  BY Parts, RunningSocket DEF Receive
<1>2. PICK n : n = natporte[p]
  OBVIOUS
<1>3. PICK q : q = to_nat[s]
  OBVIOUS
<1>4. PICK k \in Readable(q) :
        /\ Read(p, split(n.string_buffer \o SubSeq(q, 1, k)))
        /\ to_nat' = [to_nat EXCEPT ![s] = SubSeq(q, k + 1, Len(q))]
  BY <1>1, <1>2, <1>3 DEF Receive
<1>5. /\ UNCHANGED <<tcpVars, udpVars, sessionVars, server, to_pool, overlapped>>
      /\ UNCHANGED <<wan_addrs_list, natporte_message, tcp_clients, udp_clients>> /\ ClientsGrow
  BY DEF Receive, tcpVars, udpVars, sessionVars, ClientsGrow
<1> DEFINE kept == n.string_buffer
           lines == split(kept \o SubSeq(q, 1, k))
           c == Len(kept)
           N == (k + c) \div 2
           rest == SubSeq(q, k + 1, Len(q))
           last == Last(lines)
<1>6. n \in NatporteTypes /\ kept \in Seq(DownTexts) /\ n.socket = s /\ n.table \subseteq Held
  BY <1>1, <1>2, Parts, NatporteFields
<1>7. q \in Seq(DownTexts \cup {NL}) /\ StreamTypes
  BY <1>3, Parts DEF Types, StreamTypes
<1>8. /\ k \in 1 .. Len(q) /\ k \in Nat /\ Len(q) \in Nat /\ DOMAIN q = 1 .. Len(q)
      /\ \A i \in 1 .. Len(q) : q[i] \in DownTexts \cup {NL}
  BY <1>4, <1>7, LenProperties, ElementOfSeq DEF Readable
<1>9. FramedAnswers(kept, q)
  BY <1>1, <1>2, <1>3, Parts DEF FramedToNat
<1>10. c \in Nat /\ c <= 1 /\ Even(Len(q) + c) /\ \A i \in 1 .. Len(q) : q[i] = NL <=> Even(i + c)
  BY <1>6, <1>8, <1>9, LenProperties DEF FramedAnswers
<1>11. /\ lines \in Seq(Seq(DownTexts)) /\ N \in Nat /\ Len(lines) = N + 1
       /\ \A i \in 1 .. N :
            /\ i = 1 /\ kept # <<>> => lines[i] = kept
            /\ i # 1 \/ kept = <<>> =>
                 /\ 2 * i - 1 - c \in 1 .. k
                 /\ q[2 * i - 1 - c] \in DownTexts
                 /\ lines[i] = <<q[2 * i - 1 - c]>>
       /\ Even(k + c) => last = <<>>
       /\ ~Even(k + c) => last = <<q[k]>> /\ q[k] \in DownTexts
  <2>1. NL \notin DownTexts
    BY EventKinds
  <2>2. \A i \in 1 .. k : i \in 1 .. Len(q)
    BY <1>8
  <2>3. \A i \in 1 .. k : q[i] \in DownTexts \cup {NL} /\ (q[i] = NL <=> Even(i + c))
    BY <2>2, <1>8, <1>10
  <2>4. Len(kept) <= 1 /\ (\A i \in 1 .. k : q[i] \in DownTexts \cup {NL})
        /\ (\A i \in 1 .. k : q[i] = NL <=> Even(i + Len(kept)))
    BY <2>3, <1>10
  <2>5. kept \in Seq(DownTexts) /\ q \in Seq(DownTexts \cup {NL}) /\ k \in 1 .. Len(q)
    BY <1>6, <1>7, <1>8
  <2> HIDE DEF kept, c, lines, N, last
  <2>6. LET ls == split(kept \o SubSeq(q, 1, k))
            h == (k + Len(kept)) \div 2
        IN  /\ ls \in Seq(Seq(DownTexts)) /\ h \in Nat /\ Len(ls) = h + 1
            /\ \A i \in 1 .. h :
                 /\ i = 1 /\ kept # <<>> => ls[i] = kept
                 /\ i # 1 \/ kept = <<>> =>
                      /\ 2 * i - 1 - Len(kept) \in 1 .. k
                      /\ ~Even(2 * i - 1)
                      /\ q[2 * i - 1 - Len(kept)] \in DownTexts
                      /\ ls[i] = <<q[2 * i - 1 - Len(kept)]>>
            /\ Even(k + Len(kept)) => Last(ls) = <<>>
            /\ ~Even(k + Len(kept)) => Last(ls) = <<q[k]>> /\ q[k] \in DownTexts
    BY <2>1, <2>4, <2>5, SplitRead
  <2> QED
    BY <2>6 DEF c, lines, N, last
<1>12. /\ rest \in Seq(DownTexts \cup {NL}) /\ Len(rest) = Len(q) - k /\ DOMAIN rest = 1 .. Len(q) - k
       /\ \A i \in 1 .. Len(q) - k : i + k \in 1 .. Len(q) /\ rest[i] = q[i + k]
  BY <1>7, <1>8, RestFact
<1>13. PICK F : /\ HandledAll(F, n, lines, N)
                /\ natporte' = [natporte EXCEPT ![p] = [F[N] EXCEPT !.string_buffer = last]]
  <2> DEFINE G == CHOOSE F : HandledAll(F, n, lines, Len(lines) - 1)
  <2>1. Len(lines) - 1 = N
    BY <1>11
  <2>2. natporte' = [natporte EXCEPT ![p] = [G[Len(lines) - 1] EXCEPT !.string_buffer = Last(lines)]]
    <3> HIDE DEF lines
    <3>1. Read(p, lines)
      BY <1>4 DEF lines
    <3> QED
      BY <3>1, <1>2 DEF Read, HandledAll
  <2> HIDE DEF lines, N
  <2>3. HandledAll(G, n, lines, N)
    BY <2>1, <1>11, HandledExists
  <2> HIDE DEF G
  <2> QED
    BY <2>1, <2>2, <2>3
<1>14. \A i \in 1 .. N :
         /\ Head(lines[i]) \in DownTexts
         /\ \/ kept # <<>> /\ 1 \in DOMAIN kept /\ Head(lines[i]) = kept[1]
            \/ \E j \in DOMAIN q : Head(lines[i]) = q[j]
  <2> SUFFICES ASSUME NEW i \in 1 .. N
               PROVE  /\ Head(lines[i]) \in DownTexts
                      /\ \/ kept # <<>> /\ 1 \in DOMAIN kept /\ Head(lines[i]) = kept[1]
                         \/ \E j \in DOMAIN q : Head(lines[i]) = q[j]
    OBVIOUS
  <2> HIDE DEF lines, N, last
  <2>1. CASE i = 1 /\ kept # <<>>
    <3>1. lines[i] = kept
      BY <2>1, <1>11
    <3>2. 1 \in DOMAIN kept /\ kept[1] \in DownTexts /\ Head(kept) = kept[1]
      BY <2>1, <1>6, TailFact
    <3> QED
      BY <2>1, <3>1, <3>2
  <2>2. CASE i # 1 \/ kept = <<>>
    <3>1. /\ 2 * i - 1 - c \in 1 .. k /\ q[2 * i - 1 - c] \in DownTexts
          /\ lines[i] = <<q[2 * i - 1 - c]>>
      BY <2>2, <1>11
    <3>2. PICK j : j = 2 * i - 1 - c
      OBVIOUS
    <3>3. j \in DOMAIN q /\ q[j] \in DownTexts /\ lines[i] = <<q[j]>>
      <4>1. j \in 1 .. k /\ q[j] \in DownTexts /\ lines[i] = <<q[j]>>
        BY <3>1, <3>2
      <4>2. j \in DOMAIN q
        BY <4>1, <1>8
      <4> QED
        BY <4>1, <4>2
    <3>4. Head(lines[i]) = q[j]
      BY <3>3
    <3> QED
      BY <3>3, <3>4
  <2> QED
    BY <2>1, <2>2
<1> HIDE DEF lines, N, last, rest
<1>15. ASSUME NEW S \in SUBSET Held, n.table \subseteq S,
              \A i \in 1 .. N : Head(lines[i]).type = "request_ack" =>
                 [protocol |-> Head(lines[i]).protocol, entry |-> Head(lines[i]).entry] \in S
       PROVE  /\ F[N] \in NatporteTypes /\ F[N].table \subseteq S
              /\ F[N].socket = n.socket /\ F[N].string_buffer = n.string_buffer
  <2>1. \A i \in 1 .. N : Head(lines[i]) \in DownTexts
    BY <1>14
  <2>2. N \in Nat /\ n \in NatporteTypes /\ HandledAll(F, n, lines, N)
    BY <1>6, <1>11, <1>13
  <2> QED
    BY <2>1, <2>2, <1>15, HandledTables
<1>16. \A i \in 1 .. N : Head(lines[i]).type = "request_ack" =>
         [protocol |-> Head(lines[i]).protocol, entry |-> Head(lines[i]).entry] \in Held
  BY <1>14, DownKinds DEF Held
<1>17. F[N] \in NatporteTypes /\ F[N].socket = s
  BY <1>6, <1>15, <1>16
<1>18. last \in Seq(DownTexts) /\ Len(last) = IF Even(k + c) THEN 0 ELSE 1
  <2>1. CASE Even(k + c)
    BY <2>1, <1>11
  <2>2. CASE ~Even(k + c)
    <3>1. last = <<q[k]>> /\ q[k] \in DownTexts
      BY <2>2, <1>11
    <3> QED
      BY <2>2, <3>1
  <2> QED
    BY <2>1, <2>2
<1> DEFINE new == [socket |-> s, table |-> F[N].table, awaited |-> F[N].awaited, string_buffer |-> last]
<1>19. /\ natporte'[p] = new /\ natporte' \in [Natportes -> NatporteTypes]
       /\ \A a \in Natportes : a # p => natporte'[a] = natporte[a]
  <2>1. natporte \in [Natportes -> NatporteTypes]
    BY Parts, NatporteFields
  <2>2. [F[N] EXCEPT !.string_buffer = last] = new
    <3>1. F[N] = [socket |-> F[N].socket, table |-> F[N].table, awaited |-> F[N].awaited,
                  string_buffer |-> F[N].string_buffer]
      BY <1>17 DEF NatporteTypes
    <3> QED
      BY <3>1, <1>17
  <2>3. new \in NatporteTypes
    BY <1>17, <1>18 DEF NatporteTypes
  <2> HIDE DEF new
  <2> QED
    BY <2>1, <2>2, <2>3, <1>13
<1>20. new.socket = s /\ new.table = F[N].table /\ new.string_buffer = last /\ new # Down
  <2>1. new.socket = s
    OBVIOUS
  <2> QED
    BY <2>1, <1>1, DownFields
<1> HIDE DEF new
<1>21. /\ StreamTypes' /\ to_nat'[s] = rest /\ to_pool' = to_pool
       /\ \A t \in Sockets : t # s => to_pool'[t] = to_pool[t] /\ to_nat'[t] = to_nat[t]
  BY <1>4, <1>5, <1>7, <1>12 DEF StreamTypes, rest
<1>22. (Listed(s)' <=> Listed(s)) /\ (Open(s)' <=> Open(s))
  BY <1>5 DEF Listed, Open
<1>23. OwnSockets'
  <2>1. OwnSockets
    BY Parts
  <2>2. ASSUME NEW a \in Natportes
        PROVE  natporte'[a].socket = natporte[a].socket /\ (natporte[a] = Down => natporte'[a] = Down)
    BY <1>1, <1>19, <1>20
  <2> QED
    BY <2>1, <2>2, OwnSocketsKept
<1>24. Framed(s)' /\ FirstUnread(s)' /\ Known(to_pool[s], "release")'
  <2>1. Framed(s) /\ FirstUnread(s) /\ Known(to_pool[s], "release")
    BY Parts DEF FramedToPool, InitializeFirst, ClientsKnown
  <2> QED
    BY <2>1, <1>5, <1>22, FramedKept, FirstUnreadKept, UnreadKept
<1>25. Connected(p)' => Connected(p)
  BY <1>1, <1>19, <1>20, <1>22 DEF Connected
<1>26. Connected(p)' => Whole(natporte[p].socket)'
  <2> SUFFICES ASSUME Connected(p)' PROVE Whole(natporte[p].socket)'
    OBVIOUS
  <2>1. Whole(s)
    BY <1>1, <1>25, Parts DEF WholeToPool
  <2>2. Whole(s)'
    BY <2>1, <1>5, <1>22, WholeKept
  <2> QED
    BY <2>2, <1>19, <1>20
<1>27. FramedAnswers(natporte'[p].string_buffer, to_nat'[natporte'[p].socket])
  <2> DEFINE d == Len(last)
  <2>1. d \in Nat /\ d <= 1 /\ (Even(d) <=> Even(k + c))
    <3>1. CASE Even(k + c)
      BY <3>1, <1>18, EvenFact
    <3>2. CASE ~Even(k + c)
      BY <3>2, <1>18, EvenFact
    <3> QED
      BY <3>1, <3>2
  <2> HIDE DEF d, c
  <2>2. Even((Len(q) - k) + d)
    BY <2>1, <1>8, <1>10 DEF Even
  <2>3. ASSUME NEW i \in 1 .. Len(q) - k
        PROVE  rest[i] = NL <=> Even(i + d)
    <3>1. rest[i] = q[i + k] /\ i + k \in 1 .. Len(q)
      BY <1>12
    <3>2. q[i + k] = NL <=> Even((i + k) + c)
      BY <3>1, <1>10
    <3>3. Even((i + k) + c) <=> Even(i + d)
      BY <2>1, <1>8, <1>10 DEF Even
    <3> QED
      BY <3>1, <3>2, <3>3
  <2>4. FramedAnswers(last, rest)
    BY <2>1, <2>2, <2>3, <1>12 DEF FramedAnswers, d
  <2> QED
    BY <2>4, <1>19, <1>20, <1>21
<1>28. Connected(p)' => AnswersKnown(p)'
  <2> SUFFICES ASSUME Connected(p)' PROVE AnswersKnown(p)'
    OBVIOUS
  <2>1. AnswersKnown(p)
    BY <1>25, Parts DEF ClientsKnown
  <2>2. /\ \A e \in n.table : Client(e)
        /\ \A i \in DOMAIN kept : kept[i].type = "request_ack" => Client(kept[i])
        /\ \A i \in DOMAIN q : q[i].type = "request_ack" => Client(q[i])
    BY <2>1, <1>1, <1>2, <1>3 DEF AnswersKnown, Known
  <2>3. \A e : Client(e)' <=> Client(e)
    BY <1>5 DEF Client
  <2> DEFINE S == {e \in Held : Client(e)}
  <2>4. S \in SUBSET Held /\ n.table \subseteq S
    BY <2>2, <1>6
  <2>5. ASSUME NEW i \in 1 .. N, Head(lines[i]).type = "request_ack"
        PROVE  [protocol |-> Head(lines[i]).protocol, entry |-> Head(lines[i]).entry] \in S
    <3>1. Client(Head(lines[i]))
      BY <2>2, <2>5, <1>14
    <3>2. Client([protocol |-> Head(lines[i]).protocol, entry |-> Head(lines[i]).entry])
      BY <3>1 DEF Client
    <3> QED
      BY <3>2, <2>5, <1>16
  <2> HIDE DEF S
  <2>6. F[N].table \subseteq S
    BY <2>4, <2>5, <1>15
  <2>7. \A e \in F[N].table : Client(e)'
    BY <2>3, <2>6 DEF S
  <2>8. ASSUME NEW i \in DOMAIN last, last[i].type = "request_ack"
        PROVE  Client(last[i])
    <3>1. CASE Even(k + c)
      BY <2>8, <3>1, <1>11
    <3>2. CASE ~Even(k + c)
      <4>1. last[i] = q[k] /\ k \in DOMAIN q
        BY <2>8, <3>2, <1>8, <1>11
      <4> QED
        BY <4>1, <2>2, <2>8
    <3> QED
      BY <3>1, <3>2
  <2>9. ASSUME NEW i \in DOMAIN rest, rest[i].type = "request_ack"
        PROVE  Client(rest[i])
    BY <2>2, <2>9, <1>8, <1>12
  <2> QED
    BY <2>3, <2>7, <2>8, <2>9, <1>19, <1>20, <1>21 DEF AnswersKnown, Known
<1>29. \A a \in Natportes : a # p => natporte'[a] = natporte[a] /\ natporte[a].socket # s
  BY <1>1, <1>19
<1> QED
  BY <1>5, <1>19, <1>21, <1>23, <1>24, <1>26, <1>27, <1>28, <1>29, NatporteStep

-----------------------------------------------------------------------------
(* The steps of a callback *)

WithText(S, stream, m) ==
    /\ stream \o Text(m) \in Seq(S) /\ Len(stream) \in Nat
    /\ Len(stream \o Text(m)) = Len(stream) + 2 /\ DOMAIN (stream \o Text(m)) = 1 .. Len(stream) + 2
    /\ \A i \in 1 .. Len(stream) : (stream \o Text(m))[i] = stream[i]
    /\ (stream \o Text(m))[Len(stream) + 1] = m /\ (stream \o Text(m))[Len(stream) + 2] = NL

LEMMA WithTextFact ==
  ASSUME NEW S, NEW stream \in Seq(S), NEW m \in S, NL \in S
  PROVE  WithText(S, stream, m)
<1> SUFFICES /\ stream \o Text(m) \in Seq(S) /\ Len(stream) \in Nat
             /\ Len(stream \o Text(m)) = Len(stream) + 2 /\ DOMAIN (stream \o Text(m)) = 1 .. Len(stream) + 2
             /\ \A i \in 1 .. Len(stream) : (stream \o Text(m))[i] = stream[i]
             /\ (stream \o Text(m))[Len(stream) + 1] = m /\ (stream \o Text(m))[Len(stream) + 2] = NL
  BY Zenon DEF WithText
<1> QED
  BY TextBehind

LEMMA AnswerBehind ==
  ASSUME NEW stream \in Seq(DownTexts \cup {NL}), NEW m \in DownTexts
  PROVE  WithText(DownTexts \cup {NL}, stream, m) /\ DOMAIN stream = 1 .. Len(stream)
<1>1. m \in DownTexts \cup {NL} /\ NL \in DownTexts \cup {NL}
  OBVIOUS
<1>2. DOMAIN stream = 1 .. Len(stream)
  BY LenProperties
<1> QED
  BY <1>1, <1>2, WithTextFact, Zenon

\* An answer behind the stream of a natporte leaves it framed.
LEMMA AnswerFramed ==
  ASSUME NEW kept, Len(kept) \in Nat, NEW stream \in Seq(DownTexts \cup {NL}), NEW m \in DownTexts,
         FramedAnswers(kept, stream)
  PROVE  FramedAnswers(kept, stream \o Text(m))
<1> DEFINE r == stream \o Text(m)
           L == Len(stream)
           c == Len(kept)
<1>1. /\ L \in Nat /\ Len(r) = L + 2 /\ DOMAIN r = 1 .. L + 2 /\ r[L + 1] = m /\ r[L + 2] = NL
      /\ \A i \in 1 .. L : r[i] = stream[i]
  BY AnswerBehind DEF WithText
<1>2. DOMAIN stream = 1 .. L
  BY LenProperties
<1>3. c \in Nat /\ c <= 1 /\ Even(L + c) /\ \A i \in 1 .. L : stream[i] = NL <=> Even(i + c)
  BY <1>2 DEF FramedAnswers
<1>4. m # NL
  BY DownKinds
<1> HIDE DEF r, L, c
<1>5. Even((L + 2) + c) /\ ~Even((L + 1) + c)
  BY <1>1, <1>3 DEF Even
<1>6. ASSUME NEW i \in 1 .. L + 2
      PROVE  r[i] = NL <=> Even(i + c)
  <2>1. i \in 1 .. L \/ i = L + 1 \/ i = L + 2
    BY <1>1
  <2> QED
    BY <2>1, <1>1, <1>3, <1>4, <1>5
<1>7. Len(kept) <= 1
  BY <1>3 DEF c
<1> QED
  BY <1>1, <1>5, <1>6, <1>7 DEF FramedAnswers, r, c

\* Nothing new is to be read, and an answer of a new connection is of a client
\* with a key.
LEMMA CallbackStep ==
  ASSUME SessionInv, UNCHANGED <<natporte, natporte_message, to_pool>>,
         DOMAIN wan_addrs_list' = DOMAIN wan_addrs_list, ClientsGrow,
         tcpDB!IInv', udpDB!IInv', Types', Callback', FirstLine',
         \A s \in DOMAIN wan_addrs_list : Unnamed(s) => Unnamed(s)',
         LinesKnown', PoolInCallback',
         \A s \in Sockets :
           \/ to_nat'[s] = to_nat[s]
           \/ \E m \in DownTexts : /\ to_nat'[s] = to_nat[s] \o Text(m)
                                   /\ m.type = "request_ack" => Client(m)'
  PROVE  SessionInv'
<1>1. \A s \in Sockets : (Listed(s)' <=> Listed(s)) /\ (Open(s)' <=> Open(s))
  BY DEF Listed, Open
<1>2. OwnSockets'
  BY Parts, OwnSocketsKept
<1>3. FramedToPool'
  BY <1>1, Parts, FramedKept DEF FramedToPool
<1>4. \A p \in Natportes : Connected(p)' <=> Connected(p)
  <2>1. ASSUME NEW p \in Natportes
        PROVE  Connected(p)' <=> Connected(p)
    <3>1. natporte[p] # Down => (Open(natporte[p].socket)' <=> Open(natporte[p].socket))
      BY <1>1, Parts, RunningSocket
    <3> QED
      BY <3>1, NatporteKept
  <2> QED
    BY <2>1
<1>5. WholeToPool'
  <2>1. ASSUME NEW p \in Natportes, Connected(p)'
        PROVE  Whole(natporte[p].socket)'
    <3>1. natporte[p].socket \in Sockets /\ Whole(natporte[p].socket)
      BY <2>1, <1>4, Parts, RunningSocket DEF WholeToPool, Connected
    <3>2. Phase(natporte[p].socket)' = Phase(natporte[p].socket)
      BY <3>1, <1>1 DEF Phase
    <3> QED
      BY <3>1, <3>2 DEF Whole
  <2> QED
    BY <2>1 DEF WholeToPool
<1>6. FramedToNat'
  <2>1. ASSUME NEW p \in Natportes, natporte[p] # Down
        PROVE  FramedAnswers(natporte[p].string_buffer, to_nat'[natporte[p].socket])
    <3>1. PICK s \in Sockets : s = natporte[p].socket
      BY <2>1, Parts, RunningSocket
    <3>2. FramedAnswers(natporte[p].string_buffer, to_nat[s])
      BY <2>1, <3>1, Parts DEF FramedToNat
    <3>3. Len(natporte[p].string_buffer) \in Nat /\ to_nat[s] \in Seq(DownTexts \cup {NL})
      <4>1. natporte[p].string_buffer \in Seq(DownTexts)
        BY Parts, NatporteFields
      <4>2. to_nat[s] \in Seq(DownTexts \cup {NL})
        BY Parts DEF Types
      <4> QED
        BY <4>1, <4>2, LenProperties
    <3>4. \A m \in DownTexts : FramedAnswers(natporte[p].string_buffer, to_nat[s] \o Text(m))
      BY <3>2, <3>3, AnswerFramed
    <3> QED
      BY <3>1, <3>2, <3>4
  <2> QED
    BY <2>1 DEF FramedToNat
<1>7. InitializeFirst'
  <2>1. ASSUME NEW s \in Sockets
        PROVE  FirstKept(s)' /\ FirstUnread(s)'
    <3>1. FirstKept(s) /\ FirstUnread(s)
      BY Parts DEF InitializeFirst
    <3>2. Listed(s) /\ Unnamed(s) => Unnamed(s)'
      BY DEF Listed
    <3>3. FirstKept(s)'
      BY <3>1, <3>2, <1>1 DEF FirstKept
    <3>4. FirstUnread(s)'
      BY <3>1, <3>2, <1>1 DEF FirstUnread
    <3> QED
      BY <3>3, <3>4
  <2> QED
    BY <2>1 DEF InitializeFirst
<1>8. ClientsKnown'
  <2>1. ASSUME NEW s \in Sockets
        PROVE  Known(to_pool[s], "release")' /\ (Listed(s)' => Known(natporte_message[s], "release")')
    BY <1>1, Parts, UnreadKept, PartKept DEF ClientsKnown
  <2>2. ASSUME NEW p \in Natportes, Connected(p)'
        PROVE  AnswersKnown(p)'
    <3>1. AnswersKnown(p) /\ natporte[p] # Down
      BY <2>2, <1>4, Parts DEF ClientsKnown, Connected
    <3>2. PICK s \in Sockets : s = natporte[p].socket
      BY <3>1, Parts, RunningSocket
    <3>3. (\A c \in natporte[p].table : Client(c)') /\ Known(natporte[p].string_buffer, "request_ack")'
      BY <3>1, ClientKept DEF AnswersKnown, Known
    <3>4. \A i \in DOMAIN to_nat[s] : to_nat[s][i].type = "request_ack" => Client(to_nat[s][i])
      BY <3>1, <3>2 DEF AnswersKnown, Known
    <3>5. \A i \in DOMAIN to_nat'[s] : to_nat'[s][i].type = "request_ack" => Client(to_nat[s][i])'
      <4>1. CASE to_nat'[s] = to_nat[s]
        BY <4>1, <3>4, ClientKept
      <4>2. ASSUME NEW m \in DownTexts, to_nat'[s] = to_nat[s] \o Text(m),
                   m.type = "request_ack" => Client(m)'
            PROVE  \A i \in DOMAIN to_nat'[s] : to_nat'[s][i].type = "request_ack" => Client(to_nat[s][i])'
        <5> DEFINE r == to_nat'[s]
                   L == Len(to_nat[s])
        <5>1. to_nat[s] \in Seq(DownTexts \cup {NL})
          BY Parts DEF Types
        <5>2. /\ L \in Nat /\ DOMAIN r = 1 .. L + 2 /\ r[L + 1] = m /\ r[L + 2] = NL
              /\ \A i \in 1 .. L : r[i] = to_nat[s][i]
          <6>1. PICK q : q = to_nat[s]
            OBVIOUS
          <6>2. WithText(DownTexts \cup {NL}, q, m)
            BY <5>1, <6>1, AnswerBehind, Zenon
          <6>3. /\ Len(q) \in Nat /\ DOMAIN (q \o Text(m)) = 1 .. Len(q) + 2
                /\ (q \o Text(m))[Len(q) + 1] = m /\ (q \o Text(m))[Len(q) + 2] = NL
                /\ \A i \in 1 .. Len(q) : (q \o Text(m))[i] = q[i]
            BY <6>2 DEF WithText
          <6> QED
            BY <6>1, <6>3, <4>2
        <5>3. DOMAIN to_nat[s] = 1 .. L
          BY <5>1, LenProperties
        <5>4. NL.type # "request_ack"
          BY EventKinds
        <5> HIDE DEF r, L
        <5>5. ASSUME NEW i \in 1 .. L + 2, r[i].type = "request_ack"
              PROVE  i = L + 1 \/ i \in 1 .. L
          <6>1. i = L + 1 \/ i = L + 2 \/ i \in 1 .. L
            BY <5>2
          <6> QED
            BY <6>1, <5>2, <5>4, <5>5
        <5>6. ASSUME NEW i \in 1 .. L, r[i].type = "request_ack"
              PROVE  Client(to_nat[s][i])'
          <6>1. PICK x : x = to_nat[s][i]
            OBVIOUS
          <6>2. Client(x)
            BY <6>1, <5>2, <5>3, <5>6, <3>4
          <6>3. Client(x)'
            BY <6>2, ClientKept
          <6>4. to_nat'[s][i] = x
            BY <6>1, <5>2 DEF r
          <6> QED
            BY <6>3, <6>4
        <5>7. to_nat'[s][L + 1] = m
          BY <5>2 DEF r
        <5> QED
          BY <5>2, <5>5, <5>6, <5>7, <4>2 DEF r
      <4> QED
        BY <4>1, <4>2
    <3> QED
      BY <3>2, <3>3, <3>5 DEF AnswersKnown, Known
  <2> QED
    BY <2>1, <2>2 DEF ClientsKnown
<1> QED
  BY <1>2, <1>3, <1>5, <1>6, <1>7, <1>8 DEF SessionInv

ServerTypes == [pc : {"idle", "lines", "adding", "deleting"}, socket : Sockets \cup {undefined},
                lines : Seq(Seq(UpTexts)), addrs : Seq(WanAddrs)]

LEMMA CallbackTypes ==
  ASSUME Types, UNCHANGED <<natporte_message, to_pool, natporte>>,
         wan_addrs_list' \in [DOMAIN wan_addrs_list -> Seq(WanAddrs)],
         to_nat' \in [Sockets -> Seq(DownTexts \cup {NL})], server' \in ServerTypes
  PROVE  Types' /\ DOMAIN wan_addrs_list' = DOMAIN wan_addrs_list
<1>1. DOMAIN wan_addrs_list' = DOMAIN wan_addrs_list
  OBVIOUS
<1> QED
  BY <1>1 DEF Types, ServerTypes

LEMMA SameLists ==
  ASSUME Types
  PROVE  /\ wan_addrs_list \in [DOMAIN wan_addrs_list -> Seq(WanAddrs)]
         /\ to_nat \in [Sockets -> Seq(DownTexts \cup {NL})]
BY DEF Types

\* The lines that a callback has, and those behind the first of them.
LEMMA LinesFact ==
  ASSUME SessionInv, server.lines # <<>>
  PROVE  /\ Listed(server.socket) /\ server.socket \in Sockets
         /\ server.pc \in {"lines", "adding"}
         /\ 1 \in DOMAIN server.lines /\ Len(Line) = 1
         /\ Message \in UpTexts /\ Message = server.lines[1][1]
         /\ Message.type = "release" => Client(Message)
         /\ Message.type = "initialize" => wan_addrs_list[server.socket] = <<>>
         /\ Tail(server.lines) \in Seq(Seq(UpTexts))
         /\ \A i \in DOMAIN Tail(server.lines) :
              /\ Len(Tail(server.lines)[i]) = 1
              /\ Tail(server.lines)[i][1].type # "initialize"
              /\ Known(Tail(server.lines)[i], "release")
<1>1. /\ server.lines \in Seq(Seq(UpTexts)) /\ server.socket \in Sockets \cup {undefined}
      /\ server.pc \in {"idle", "lines", "adding", "deleting"}
  BY Parts, ServerFields
<1>2. server.pc \in {"lines", "adding"} /\ Listed(server.socket)
  BY <1>1, Parts, DownFields DEF Callback
<1>3. server.socket \in Sockets
  BY <1>2, Parts DEF Types, Listed
<1>4. PICK q : q = server.lines
  OBVIOUS
<1>5. /\ Tail(q) \in Seq(Seq(UpTexts)) /\ Len(q) \in Nat /\ Head(q) = q[1] /\ q[1] \in Seq(UpTexts)
      /\ 1 \in DOMAIN q /\ DOMAIN q = 1 .. Len(q) /\ DOMAIN Tail(q) = 1 .. Len(q) - 1
      /\ \A i \in 1 .. Len(q) - 1 : i + 1 \in 1 .. Len(q) /\ Tail(q)[i] = q[i + 1]
  <2>1. PICK S : S = Seq(UpTexts)
    OBVIOUS
  <2>2. q \in Seq(S) /\ q # <<>>
    BY <1>1, <1>4, <2>1
  <2>3. /\ Tail(q) \in Seq(S) /\ Len(q) \in Nat /\ Head(q) = q[1] /\ q[1] \in S
        /\ 1 \in DOMAIN q /\ DOMAIN q = 1 .. Len(q) /\ DOMAIN Tail(q) = 1 .. Len(q) - 1
        /\ \A i \in 1 .. Len(q) - 1 : i + 1 \in 1 .. Len(q) /\ Tail(q)[i] = q[i + 1]
    BY <2>2, TailFact
  <2> QED
    BY <2>1, <2>3
<1>6. /\ \A i \in DOMAIN q : Len(q[i]) = 1
      /\ \A i \in DOMAIN q : q[i][1].type = "initialize" => i = 1 /\ wan_addrs_list[server.socket] = <<>>
      /\ \A i \in DOMAIN q : Known(q[i], "release")
  BY <1>4, Parts DEF Callback, InitializeFirst, FirstLine, ClientsKnown, LinesKnown
<1>7. /\ Line = q[1] /\ Len(q[1]) = 1 /\ Message = q[1][1] /\ q[1][1] \in UpTexts /\ 1 \in DOMAIN q[1]
  <2>1. Line = q[1] /\ Len(q[1]) = 1
    BY <1>4, <1>5, <1>6 DEF Line
  <2>2. DOMAIN q[1] = 1 .. 1
    BY <2>1, <1>5, LenProperties
  <2>3. 1 \in 1 .. Len(q[1])
    BY <2>1
  <2>4. q[1][1] \in UpTexts
    BY <2>3, <1>5, ElementOfSeq
  <2> QED
    BY <2>1, <2>2, <2>4 DEF Message
<1>8. Message.type = "release" => Client(Message)
  BY <1>5, <1>6, <1>7 DEF Known
<1>9. ASSUME NEW i \in DOMAIN Tail(q)
      PROVE  /\ Len(Tail(q)[i]) = 1 /\ Tail(q)[i][1].type # "initialize"
             /\ Known(Tail(q)[i], "release")
  <2>1. i \in 1 .. Len(q) - 1 /\ i + 1 # 1 /\ i + 1 \in DOMAIN q /\ Tail(q)[i] = q[i + 1]
    BY <1>5
  <2> QED
    BY <2>1, <1>6
<1> QED
  BY <1>2, <1>3, <1>4, <1>5, <1>6, <1>7, <1>8, <1>9

\* The loop goes on with the next line.
LEMMA LinesStep ==
  ASSUME SessionInv, server.lines # <<>>,
         server' = [pc |-> "lines", socket |-> server.socket,
                    lines |-> Tail(server.lines), addrs |-> server.addrs],
         DOMAIN wan_addrs_list' = DOMAIN wan_addrs_list,
         \A s \in DOMAIN wan_addrs_list : s # server.socket => wan_addrs_list'[s] = wan_addrs_list[s],
         ClientsGrow
  PROVE  /\ server' \in ServerTypes /\ Callback' /\ FirstLine' /\ LinesKnown'
         /\ \A s \in DOMAIN wan_addrs_list : Unnamed(s) => Unnamed(s)'
<1>1. PICK q : q = Tail(server.lines)
  OBVIOUS
<1>2. /\ q \in Seq(Seq(UpTexts)) /\ Listed(server.socket)
      /\ \A i \in DOMAIN q : /\ Len(q[i]) = 1 /\ q[i][1].type # "initialize"
                             /\ Known(q[i], "release")
  BY <1>1, LinesFact
<1>3. server'.pc = "lines" /\ server'.socket = server.socket /\ server'.lines = q /\ server'.addrs = server.addrs
  BY <1>1
<1>4. server' \in ServerTypes
  <2>1. server.socket \in Sockets \cup {undefined} /\ server.addrs \in Seq(WanAddrs)
    BY Parts, ServerFields
  <2> QED
    BY <2>1, <1>1, <1>2 DEF ServerTypes
<1>5. Callback'
  BY <1>2, <1>3 DEF Callback, Listed
<1>6. FirstLine'
  BY <1>2, <1>3 DEF FirstLine
<1>7. LinesKnown'
  <2>1. ASSUME NEW i \in DOMAIN q, NEW j \in DOMAIN q[i], q[i][j].type = "release"
        PROVE  Client(q[i][j])'
    <3>1. PICK x : x = q[i][j]
      OBVIOUS
    <3>2. Client(x)
      BY <2>1, <3>1, <1>2 DEF Known
    <3>3. Client(x)'
      BY <3>2, ClientKept
    <3> QED
      BY <3>1, <3>3
  <2> QED
    BY <2>1, <1>3 DEF LinesKnown, Known
<1>8. \A s \in DOMAIN wan_addrs_list : Unnamed(s) => Unnamed(s)'
  <2>1. \A s \in DOMAIN wan_addrs_list : Unnamed(s) => s # server.socket
    BY DEF Unnamed
  <2> QED
    BY <2>1, <1>3 DEF Unnamed
<1> QED
  BY <1>4, <1>5, <1>6, <1>7, <1>8

LEMMA AnswerFact ==
  ASSUME Types, server.socket \in Sockets, NEW m \in DownTexts, Answer(m),
         m.type = "request_ack" => Client(m)'
  PROVE  /\ to_nat' \in [Sockets -> Seq(DownTexts \cup {NL})]
         /\ \A s \in Sockets :
              \/ to_nat'[s] = to_nat[s]
              \/ \E a \in DownTexts : /\ to_nat'[s] = to_nat[s] \o Text(a)
                                      /\ a.type = "request_ack" => Client(a)'
<1>1. PICK t \in Sockets : t = server.socket
  OBVIOUS
<1>2. PICK q : q = to_nat[t]
  OBVIOUS
<1>3. to_nat \in [Sockets -> Seq(DownTexts \cup {NL})] /\ q \in Seq(DownTexts \cup {NL})
  BY <1>2, SameLists
<1>4. q \o Text(m) \in Seq(DownTexts \cup {NL})
  BY <1>3, AnswerBehind DEF WithText
<1>5. to_nat' = [to_nat EXCEPT ![t] = q \o Text(m)]
  BY <1>1, <1>2 DEF Answer
<1> QED
  BY <1>2, <1>3, <1>4, <1>5

LEMMA RequestStep ==
  ASSUME SessionInv, Request
  PROVE  SessionInv'
<1>1. /\ server.pc = "lines" /\ server.lines # <<>> /\ Message.type = "request"
      /\ UNCHANGED <<sessionVars, to_pool, natporte, overlapped>>
      /\ UNCHANGED <<wan_addrs_list, natporte_message>>
  BY DEF Request, Handles, sessionVars
<1>2. server' = [pc |-> "lines", socket |-> server.socket,
                 lines |-> Tail(server.lines), addrs |-> server.addrs]
  <2>1. server' = [server EXCEPT !.lines = Tail(@)]
    BY DEF Request, NextLine
  <2> QED
    BY <2>1, <1>1, Parts, ServerFields
<1>3. PICK msg : msg = Message
  OBVIOUS
<1>4. msg.lan \in Clients \X LanPorts /\ msg.lan = <<msg.lan[1], msg.lan[2]>>
  <2>1. msg \in UpTexts
    BY <1>1, <1>3, LinesFact
  <2>2. msg.lan \in Clients \X LanPorts
    BY <2>1, <1>1, <1>3, UpKinds
  <2> QED
    BY <2>2
<1>5. PICK protocol, assigned :
        /\ Answer(RequestAnswer(protocol, msg.lan, assigned))
        /\ \/ /\ protocol = "TCP" /\ assigned = tcp_result'
              /\ tcpDB!AssignConnection(msg.lan[1], msg.lan[2]) /\ UNCHANGED udpVars
           \/ /\ protocol = "UDP" /\ assigned = udp_result'
              /\ udpDB!AssignConnection(msg.lan[1], msg.lan[2]) /\ UNCHANGED tcpVars
  <2>1. CASE /\ Message.protocol = "TCP" /\ UNCHANGED udpVars
             /\ tcpDB!AssignConnection(Message.lan[1], Message.lan[2])
             /\ Answer(RequestAnswer("TCP", Message.lan, tcp_result'))
    <3>1. PICK r : r = tcp_result'
      OBVIOUS
    <3> QED
      BY <2>1, <3>1, <1>3
  <2>2. CASE /\ Message.protocol = "UDP" /\ UNCHANGED tcpVars
             /\ udpDB!AssignConnection(Message.lan[1], Message.lan[2])
             /\ Answer(RequestAnswer("UDP", Message.lan, udp_result'))
    <3>1. PICK r : r = udp_result'
      OBVIOUS
    <3> QED
      BY <2>2, <3>1, <1>3
  <2> QED
    BY <2>1, <2>2 DEF Request
<1>6. /\ tcpDB!IInv' /\ udpDB!IInv' /\ ClientsGrow /\ tcp_addrs' = tcp_addrs /\ udp_addrs' = udp_addrs
      /\ protocol \in Protocols
      /\ assigned = undefined \/ (assigned \in Entries /\
           assigned.lan_ip \in (IF protocol = "TCP" THEN tcp_clients' ELSE udp_clients'))
  <2>1. msg.lan[1] \in Clients /\ msg.lan[2] \in LanPorts
    BY <1>4
  <2>2. CASE protocol = "TCP" /\ assigned = tcp_result'
    <3>1. tcpDB!AssignConnection(msg.lan[1], msg.lan[2]) /\ UNCHANGED udpVars
      BY <2>2, <1>5
    <3>2. /\ tcpDB!IInv' /\ tcp_addrs' = tcp_addrs /\ tcp_clients \subseteq tcp_clients'
          /\ \/ tcp_result' = undefined
             \/ tcp_result' \in Entries /\ tcp_result'.lan_ip \in tcp_clients'
      BY <2>1, <3>1, Parts, TcpAssign
    <3>3. udpDB!IInv' /\ udp_addrs' = udp_addrs /\ udp_clients' = udp_clients
      BY <3>1, Parts, UdpKept DEF udpVars
    <3> QED
      BY <2>2, <3>2, <3>3 DEF ClientsGrow, Protocols
  <2>3. CASE protocol = "UDP" /\ assigned = udp_result'
    <3>1. udpDB!AssignConnection(msg.lan[1], msg.lan[2]) /\ UNCHANGED tcpVars
      BY <2>3, <1>5
    <3>2. /\ udpDB!IInv' /\ udp_addrs' = udp_addrs /\ udp_clients \subseteq udp_clients'
          /\ \/ udp_result' = undefined
             \/ udp_result' \in Entries /\ udp_result'.lan_ip \in udp_clients'
      BY <2>1, <3>1, Parts, UdpAssign
    <3>3. tcpDB!IInv' /\ tcp_addrs' = tcp_addrs /\ tcp_clients' = tcp_clients
      BY <3>1, Parts, TcpKept DEF tcpVars
    <3> QED
      BY <2>3, <3>2, <3>3 DEF ClientsGrow, Protocols
  <2> QED
    BY <2>2, <2>3, <1>5
<1>7. PICK m : m = RequestAnswer(protocol, msg.lan, assigned)
  OBVIOUS
<1>8. m \in DownTexts /\ (m.type = "request_ack" => Client(m)')
  <2>1. CASE assigned = undefined
    <3>1. m = [type |-> "request_discard", protocol |-> protocol, lan |-> msg.lan]
      BY <2>1, <1>7 DEF RequestAnswer
    <3>2. m \in [type : {"request_discard"}, protocol : Protocols, lan : Clients \X LanPorts]
      BY <3>1, <1>4, <1>6
    <3>3. m.type = "request_discard"
      BY <3>1
    <3> QED
      BY <3>2, <3>3 DEF DownTexts, AnswerTexts
  <2>2. CASE assigned # undefined
    <3>1. m = [type |-> "request_ack", protocol |-> protocol, entry |-> assigned]
      BY <2>2, <1>7 DEF RequestAnswer
    <3>2. m \in [type : {"request_ack", "release_ack"}, protocol : Protocols, entry : Entries]
      BY <3>1, <2>2, <1>6
    <3>3. m.protocol = protocol /\ m.entry = assigned
      BY <3>1
    <3> QED
      BY <2>2, <3>2, <3>3, <1>6 DEF DownTexts, AnswerTexts, Client
  <2> QED
    BY <2>1, <2>2
<1>9. /\ to_nat' \in [Sockets -> Seq(DownTexts \cup {NL})]
      /\ \A s \in Sockets :
           \/ to_nat'[s] = to_nat[s]
           \/ \E a \in DownTexts : /\ to_nat'[s] = to_nat[s] \o Text(a)
                                   /\ a.type = "request_ack" => Client(a)'
  BY <1>1, <1>5, <1>7, <1>8, Parts, LinesFact, AnswerFact
<1>10. /\ server' \in ServerTypes /\ Callback' /\ FirstLine' /\ LinesKnown'
       /\ \A s \in DOMAIN wan_addrs_list : Unnamed(s) => Unnamed(s)'
  BY <1>1, <1>2, <1>6, LinesStep
<1>11. Types' /\ DOMAIN wan_addrs_list' = DOMAIN wan_addrs_list
  BY <1>1, <1>9, <1>10, Parts, SameLists, CallbackTypes
<1>12. PoolInCallback'
  BY <1>1, <1>2, <1>6, Parts DEF PoolInCallback, Lists
<1> QED
  BY <1>1, <1>6, <1>9, <1>10, <1>11, <1>12, CallbackStep

LEMMA ReleaseStep ==
  ASSUME SessionInv, Release
  PROVE  SessionInv'
<1>1. /\ server.pc = "lines" /\ server.lines # <<>> /\ Message.type = "release"
      /\ UNCHANGED <<sessionVars, to_pool, natporte, overlapped>>
      /\ UNCHANGED <<wan_addrs_list, natporte_message>>
  BY DEF Release, Handles, sessionVars
<1>2. server' = [pc |-> "lines", socket |-> server.socket,
                 lines |-> Tail(server.lines), addrs |-> server.addrs]
  <2>1. server' = [server EXCEPT !.lines = Tail(@)]
    BY DEF Release, NextLine
  <2> QED
    BY <2>1, <1>1, Parts, ServerFields
<1>3. Message.protocol \in Protocols /\ Message.entry \in Entries
  BY <1>1, LinesFact, UpKinds
<1>4. /\ tcpDB!IInv' /\ udpDB!IInv' /\ ClientsGrow /\ tcp_addrs' = tcp_addrs /\ udp_addrs' = udp_addrs
  <2>1. CASE tcpDB!ReleaseConnection(Message.entry) /\ UNCHANGED udpVars
    <3>1. tcpDB!IInv' /\ tcp_addrs' = tcp_addrs /\ tcp_clients' = tcp_clients
      BY <2>1, <1>3, Parts, TcpRelease
    <3>2. udpDB!IInv' /\ udp_addrs' = udp_addrs /\ udp_clients' = udp_clients
      BY <2>1, Parts, UdpKept DEF udpVars
    <3> QED
      BY <3>1, <3>2 DEF ClientsGrow
  <2>2. CASE udpDB!ReleaseConnection(Message.entry) /\ UNCHANGED tcpVars
    <3>1. udpDB!IInv' /\ udp_addrs' = udp_addrs /\ udp_clients' = udp_clients
      BY <2>2, <1>3, Parts, UdpRelease
    <3>2. tcpDB!IInv' /\ tcp_addrs' = tcp_addrs /\ tcp_clients' = tcp_clients
      BY <2>2, Parts, TcpKept DEF tcpVars
    <3> QED
      BY <3>1, <3>2 DEF ClientsGrow
  <2> QED
    BY <2>1, <2>2 DEF Release
<1>5. PICK m : m = [type |-> "release_ack", protocol |-> Message.protocol, entry |-> Message.entry]
  OBVIOUS
<1>6. m \in DownTexts /\ m.type = "release_ack"
  <2>1. m \in [type : {"request_ack", "release_ack"}, protocol : Protocols, entry : Entries]
    BY <1>3, <1>5
  <2> QED
    BY <2>1, <1>5 DEF DownTexts, AnswerTexts
<1>7. Answer(m)
  BY <1>5 DEF Release
<1>9. /\ to_nat' \in [Sockets -> Seq(DownTexts \cup {NL})]
      /\ \A s \in Sockets :
           \/ to_nat'[s] = to_nat[s]
           \/ \E a \in DownTexts : /\ to_nat'[s] = to_nat[s] \o Text(a)
                                   /\ a.type = "request_ack" => Client(a)'
  BY <1>1, <1>6, <1>7, Parts, LinesFact, AnswerFact
<1>10. /\ server' \in ServerTypes /\ Callback' /\ FirstLine' /\ LinesKnown'
       /\ \A s \in DOMAIN wan_addrs_list : Unnamed(s) => Unnamed(s)'
  BY <1>1, <1>2, <1>4, LinesStep
<1>11. Types' /\ DOMAIN wan_addrs_list' = DOMAIN wan_addrs_list
  BY <1>1, <1>9, <1>10, Parts, SameLists, CallbackTypes
<1>12. PoolInCallback'
  BY <1>1, <1>2, <1>4, Parts DEF PoolInCallback, Lists
<1> QED
  BY <1>1, <1>4, <1>9, <1>10, <1>11, <1>12, CallbackStep

\* The callback ends.
LEMMA IdleStep ==
  ASSUME SessionInv, server' = Idle, UNCHANGED wan_addrs_list
  PROVE  /\ server' \in ServerTypes /\ Callback' /\ FirstLine' /\ LinesKnown'
         /\ \A s \in DOMAIN wan_addrs_list : Unnamed(s) => Unnamed(s)'
<1>1. server'.pc = "idle" /\ server'.lines = <<>>
  BY DownFields
<1>2. server' \in ServerTypes
  BY DEF Idle, ServerTypes
<1> QED
  BY <1>1, <1>2 DEF Callback, FirstLine, LinesKnown, Unnamed

\* The callback goes on with the same lines.
LEMMA SameLinesStep ==
  ASSUME SessionInv, server'.lines = server.lines, server'.socket = server.socket,
         UNCHANGED wan_addrs_list, ClientsGrow
  PROVE  /\ FirstLine' /\ LinesKnown'
         /\ \A s \in DOMAIN wan_addrs_list : Unnamed(s) => Unnamed(s)'
<1>1. FirstLine'
  BY Parts DEF FirstLine, InitializeFirst
<1>2. LinesKnown'
  BY Parts, LinesKept DEF ClientsKnown
<1> QED
  BY <1>1, <1>2 DEF Unnamed

LEMMA LoopEndsStep ==
  ASSUME SessionInv, LoopEnds
  PROVE  SessionInv'
<1>1. /\ server.pc = "lines" /\ server' = Idle
      /\ UNCHANGED <<tcpVars, udpVars, sessionVars, to_pool, to_nat, natporte>>
      /\ UNCHANGED <<wan_addrs_list, natporte_message, tcp_addrs, udp_addrs>> /\ ClientsGrow
  BY DEF LoopEnds, tcpVars, udpVars, sessionVars, ClientsGrow
<1>2. tcpDB!IInv' /\ udpDB!IInv'
  BY <1>1, Parts, TcpKept, UdpKept
<1>3. /\ server' \in ServerTypes /\ Callback' /\ FirstLine' /\ LinesKnown'
      /\ \A s \in DOMAIN wan_addrs_list : Unnamed(s) => Unnamed(s)'
  BY <1>1, IdleStep
<1>4. Types' /\ DOMAIN wan_addrs_list' = DOMAIN wan_addrs_list
  BY <1>1, <1>3, Parts, SameLists, CallbackTypes
<1>5. PoolInCallback'
  BY <1>1, Parts, DownFields DEF PoolInCallback, Lists
<1> QED
  BY <1>1, <1>2, <1>3, <1>4, <1>5, CallbackStep

LEMMA NameStep ==
  ASSUME SessionInv, Name
  PROVE  SessionInv'
<1>1. /\ server.pc = "lines" /\ server.lines # <<>> /\ Message.type = "initialize"
      /\ server' = [server EXCEPT !.pc = "adding", !.addrs = Message.wan_addrs]
      /\ UNCHANGED <<tcpVars, udpVars, sessionVars, to_pool, to_nat, natporte>>
      /\ UNCHANGED <<wan_addrs_list, natporte_message, tcp_addrs, udp_addrs>> /\ ClientsGrow
  BY DEF Name, Handles, tcpVars, udpVars, sessionVars, ClientsGrow
<1>2. PICK addrs : addrs = Message.wan_addrs
  OBVIOUS
<1>3. addrs \in Seq(WanAddrs) /\ Listed(server.socket) /\ server.socket \in Sockets
  BY <1>1, <1>2, LinesFact, UpKinds
<1>4. server' = [pc |-> "adding", socket |-> server.socket, lines |-> server.lines, addrs |-> addrs]
  BY <1>1, <1>2, Parts, ServerFields
<1>5. /\ server'.pc = "adding" /\ server'.socket = server.socket /\ server'.lines = server.lines
      /\ server'.addrs = addrs /\ Message' = Message
  BY <1>4 DEF Message, Line
<1>6. tcpDB!IInv' /\ udpDB!IInv'
  BY <1>1, Parts, TcpKept, UdpKept
<1>7. /\ FirstLine' /\ LinesKnown'
      /\ \A s \in DOMAIN wan_addrs_list : Unnamed(s) => Unnamed(s)'
  BY <1>1, <1>5, SameLinesStep
<1>8. server' \in ServerTypes
  BY <1>3, <1>4, Parts, ServerFields DEF ServerTypes
<1>9. Types' /\ DOMAIN wan_addrs_list' = DOMAIN wan_addrs_list
  BY <1>1, <1>8, Parts, SameLists, CallbackTypes
<1>10. Callback'
  <2>1. \A i \in DOMAIN server.lines : Len(server.lines[i]) = 1
    BY Parts DEF Callback
  <2> QED
    BY <2>1, <1>1, <1>3, <1>5 DEF Callback, Listed
<1>11. PoolInCallback'
  <2>1. udp_addrs = tcp_addrs /\ Range(tcp_addrs) = Lists
    BY <1>1, Parts DEF PoolInCallback
  <2>2. Lists' = Lists /\ tcp_addrs' = tcp_addrs /\ udp_addrs' = udp_addrs
    BY <1>1 DEF Lists
  <2> QED
    BY <2>1, <2>2, <1>2, <1>5 DEF PoolInCallback
<1> QED
  BY <1>1, <1>6, <1>7, <1>9, <1>10, <1>11, CallbackStep

\* The next address of a list.
LEMMA AddrsFact ==
  ASSUME Types, server.addrs # <<>>,
         server' = [server EXCEPT !.addrs = Tail(@)]
  PROVE  /\ server' \in ServerTypes /\ server'.pc = server.pc /\ server'.socket = server.socket
         /\ server'.lines = server.lines /\ server'.addrs = Tail(server.addrs)
         /\ Head(server.addrs) \in WanAddrs
         /\ Range(server.addrs) = {Head(server.addrs)} \cup Range(Tail(server.addrs))
<1>1. /\ Tail(server.addrs) \in Seq(WanAddrs) /\ Head(server.addrs) \in WanAddrs
      /\ Range(server.addrs) = {Head(server.addrs)} \cup Range(Tail(server.addrs))
  BY ServerFields, TailFact
<1>2. server' = [pc |-> server.pc, socket |-> server.socket, lines |-> server.lines,
                 addrs |-> Tail(server.addrs)]
  BY ServerFields
<1>3. server' \in ServerTypes
  BY <1>1, <1>2, ServerFields DEF ServerTypes
<1> QED
  BY <1>1, <1>2, <1>3

LEMMA SameCallback ==
  ASSUME Callback, server.pc \in {"adding", "deleting"}, server'.pc = server.pc,
         server'.socket = server.socket, server'.lines = server.lines,
         DOMAIN wan_addrs_list' = DOMAIN wan_addrs_list
  PROVE  Callback' /\ Message' = Message
<1>1. Message' = Message /\ (Listed(server.socket)' <=> Listed(server.socket))
  BY DEF Message, Line, Listed
<1> QED
  BY <1>1 DEF Callback

LEMMA AddAddressStep ==
  ASSUME SessionInv, AddAddress
  PROVE  SessionInv'
<1>1. /\ server.pc = "adding" /\ server.addrs # <<>>
      /\ server' = [server EXCEPT !.addrs = Tail(@)]
      /\ UNCHANGED <<sessionVars, to_pool, to_nat, natporte>>
      /\ UNCHANGED <<wan_addrs_list, natporte_message>>
  BY DEF AddAddress, sessionVars
<1>2. PICK a \in WanAddrs : a = Head(server.addrs)
  BY <1>1, Parts, AddrsFact
<1>3. /\ server' \in ServerTypes /\ server'.pc = "adding" /\ server'.socket = server.socket
      /\ server'.lines = server.lines /\ server'.addrs = Tail(server.addrs)
      /\ Range(server.addrs) = {a} \cup Range(Tail(server.addrs))
  BY <1>1, <1>2, Parts, AddrsFact
<1>4. /\ IF tcpDB!InPool(a) THEN UNCHANGED tcpVars ELSE tcpDB!AddPoolAddress(a)
      /\ IF udpDB!InPool(a) THEN UNCHANGED udpVars ELSE udpDB!AddPoolAddress(a)
  BY <1>2 DEF AddAddress
<1>5. /\ tcpDB!IInv' /\ tcp_clients' = tcp_clients
      /\ tcp_addrs' = IF a \in Range(tcp_addrs) THEN tcp_addrs ELSE Append(tcp_addrs, a)
      /\ Range(tcp_addrs') = Range(tcp_addrs) \cup {a}
  BY <1>4, Parts, TcpAdd
<1>6. /\ udpDB!IInv' /\ udp_clients' = udp_clients
      /\ udp_addrs' = IF a \in Range(udp_addrs) THEN udp_addrs ELSE Append(udp_addrs, a)
  BY <1>4, Parts, UdpAdd
<1>7. ClientsGrow
  BY <1>5, <1>6 DEF ClientsGrow
<1>8. /\ FirstLine' /\ LinesKnown'
      /\ \A s \in DOMAIN wan_addrs_list : Unnamed(s) => Unnamed(s)'
  BY <1>1, <1>3, <1>7, SameLinesStep
<1>9. Types' /\ DOMAIN wan_addrs_list' = DOMAIN wan_addrs_list
  BY <1>1, <1>3, Parts, SameLists, CallbackTypes
<1>10. Callback' /\ Message' = Message
  BY <1>1, <1>3, Parts, SameCallback
<1>11. PoolInCallback'
  <2>1. udp_addrs = tcp_addrs /\ Range(tcp_addrs) \cup Range(server.addrs) = Lists \cup Range(Message.wan_addrs)
    BY <1>1, Parts DEF PoolInCallback
  <2>2. Lists' = Lists
    BY <1>1 DEF Lists
  <2>3. udp_addrs' = tcp_addrs'
    BY <2>1, <1>5, <1>6
  <2>4. Range(tcp_addrs') \cup Range(Tail(server.addrs)) = Lists \cup Range(Message.wan_addrs)
    BY <2>1, <1>3, <1>5
  <2> QED
    BY <2>2, <2>3, <2>4, <1>3, <1>10 DEF PoolInCallback
<1> QED
  BY <1>1, <1>5, <1>6, <1>7, <1>8, <1>9, <1>10, <1>11, CallbackStep

LEMMA NamedStep ==
  ASSUME SessionInv, Named
  PROVE  SessionInv'
<1>1. /\ server.pc = "adding" /\ server.addrs = <<>>
      /\ wan_addrs_list' = [wan_addrs_list EXCEPT ![server.socket] = Message.wan_addrs]
      /\ server' = [server EXCEPT !.pc = "lines", !.lines = Tail(@)]
      /\ UNCHANGED <<tcpVars, udpVars, natporte_message, to_pool, to_nat, natporte>>
      /\ UNCHANGED <<tcp_addrs, udp_addrs>> /\ ClientsGrow
  BY DEF Named, tcpVars, udpVars, ClientsGrow
<1>2. server.lines # <<>> /\ Message.type = "initialize"
  BY <1>1, Parts DEF Callback
<1>3. PICK s \in Sockets : s = server.socket /\ s \in DOMAIN wan_addrs_list
  BY <1>2, LinesFact DEF Listed
<1>4. PICK addrs \in Seq(WanAddrs) : addrs = Message.wan_addrs
  BY <1>2, LinesFact, UpKinds
<1>5. wan_addrs_list' = [wan_addrs_list EXCEPT ![s] = addrs]
  BY <1>1, <1>3, <1>4
<1>6. /\ wan_addrs_list' \in [DOMAIN wan_addrs_list -> Seq(WanAddrs)]
      /\ DOMAIN wan_addrs_list' = DOMAIN wan_addrs_list
      /\ \A t \in DOMAIN wan_addrs_list : t # s => wan_addrs_list'[t] = wan_addrs_list[t]
      /\ wan_addrs_list'[s] = addrs
  BY <1>3, <1>4, <1>5, Parts, SameLists
<1>7. server' = [pc |-> "lines", socket |-> server.socket,
                 lines |-> Tail(server.lines), addrs |-> server.addrs]
  BY <1>1, Parts, ServerFields
<1>8. tcpDB!IInv' /\ udpDB!IInv'
  BY <1>1, Parts, TcpKept, UdpKept
<1>9. /\ server' \in ServerTypes /\ Callback' /\ FirstLine' /\ LinesKnown'
      /\ \A t \in DOMAIN wan_addrs_list : Unnamed(t) => Unnamed(t)'
  BY <1>1, <1>2, <1>3, <1>6, <1>7, LinesStep
<1>10. Types'
  BY <1>1, <1>6, <1>9, Parts, SameLists, CallbackTypes
<1>11. wan_addrs_list[s] = <<>>
  BY <1>2, <1>3, LinesFact
<1>12. Lists' = Lists \cup Range(addrs)
  <2>1. Range(wan_addrs_list[s]) = {}
    BY <1>11 DEF Range
  <2>2. ASSUME NEW x \in Lists
        PROVE  x \in Lists'
    <3>1. PICK t \in DOMAIN wan_addrs_list : x \in Range(wan_addrs_list[t])
      BY DEF Lists
    <3>2. t # s
      BY <2>1, <3>1
    <3> QED
      BY <3>1, <3>2, <1>6 DEF Lists
  <2>3. ASSUME NEW x \in Range(addrs)
        PROVE  x \in Lists'
    BY <1>3, <1>6 DEF Lists
  <2>4. ASSUME NEW x \in Lists'
        PROVE  x \in Lists \cup Range(addrs)
    <3>1. PICK t \in DOMAIN wan_addrs_list : x \in Range(wan_addrs_list'[t])
      BY <1>6 DEF Lists
    <3>2. CASE t = s
      BY <3>1, <3>2, <1>6
    <3>3. CASE t # s
      BY <3>1, <3>3, <1>6 DEF Lists
    <3> QED
      BY <3>2, <3>3
  <2> QED
    BY <2>2, <2>3, <2>4
<1>13. PoolInCallback'
  <2>1. udp_addrs = tcp_addrs /\ Range(tcp_addrs) \cup Range(server.addrs) = Lists \cup Range(addrs)
    BY <1>1, <1>4, Parts DEF PoolInCallback
  <2>2. Range(server.addrs) = {}
    BY <1>1 DEF Range
  <2>3. server'.pc = "lines"
    BY <1>7
  <2> QED
    BY <2>1, <2>2, <2>3, <1>1, <1>12 DEF PoolInCallback
<1> QED
  BY <1>1, <1>6, <1>8, <1>9, <1>10, <1>13, CallbackStep

LEMMA DeleteAddressStep ==
  ASSUME SessionInv, DeleteAddress
  PROVE  SessionInv'
<1>1. /\ server.pc = "deleting" /\ server.addrs # <<>>
      /\ server' = [server EXCEPT !.addrs = Tail(@)]
      /\ UNCHANGED <<sessionVars, to_pool, to_nat, natporte>>
      /\ UNCHANGED <<wan_addrs_list, natporte_message>>
  BY DEF DeleteAddress, sessionVars
<1>2. PICK a \in WanAddrs : a = Head(server.addrs)
  BY <1>1, Parts, AddrsFact
<1>3. /\ server' \in ServerTypes /\ server'.pc = "deleting" /\ server'.socket = server.socket
      /\ server'.lines = server.lines /\ server'.addrs = Tail(server.addrs)
      /\ Range(server.addrs) = {a} \cup Range(Tail(server.addrs))
  BY <1>1, <1>2, Parts, AddrsFact
<1>4. /\ udp_addrs = tcp_addrs /\ Lists \subseteq Range(tcp_addrs)
      /\ Range(tcp_addrs) \subseteq Lists \cup Range(server.addrs)
  BY <1>1, Parts DEF PoolInCallback
<1>5. ListedElsewhere(a) <=> a \in Lists
  BY DEF ListedElsewhere, Lists
<1>6. tcpDB!InPool(a) <=> a \in Range(tcp_addrs)
  BY DEF tcpDB!InPool, tcpDB!Range, Range
<1>7. /\ tcpDB!IInv' /\ udpDB!IInv' /\ tcp_clients' = tcp_clients /\ udp_clients' = udp_clients
      /\ udp_addrs' = tcp_addrs' /\ Lists \subseteq Range(tcp_addrs')
      /\ Range(tcp_addrs') \subseteq Lists \cup Range(Tail(server.addrs))
  <2>1. CASE ListedElsewhere(a) \/ ~tcpDB!InPool(a)
    <3>1. UNCHANGED <<tcpVars, udpVars>>
      BY <1>2, <2>1 DEF DeleteAddress
    <3>2. /\ tcpDB!IInv' /\ udpDB!IInv'
          /\ UNCHANGED <<tcp_clients, udp_clients, tcp_addrs, udp_addrs>>
      BY <3>1, Parts, TcpKept, UdpKept DEF tcpVars, udpVars
    <3>3. Range(tcp_addrs) \subseteq Lists \cup Range(Tail(server.addrs))
      BY <2>1, <1>3, <1>4, <1>5, <1>6
    <3> QED
      BY <3>2, <3>3, <1>4
  <2>2. CASE ~ListedElsewhere(a) /\ tcpDB!InPool(a)
    <3>1. tcpDB!DelPoolAddress(a) /\ udpDB!DelPoolAddress(a)
      BY <1>2, <2>2 DEF DeleteAddress
    <3>2. /\ tcpDB!IInv' /\ tcp_clients' = tcp_clients
          /\ Range(tcp_addrs') = Range(tcp_addrs) \ {a}
          /\ \E i \in DOMAIN tcp_addrs :
               /\ tcp_addrs[i] = a
               /\ tcp_addrs' = SubSeq(tcp_addrs, 1, i - 1) \o SubSeq(tcp_addrs, i + 1, Len(tcp_addrs))
      BY <3>1, Parts, TcpDelete
    <3>3. /\ udpDB!IInv' /\ udp_clients' = udp_clients
          /\ \E j \in DOMAIN udp_addrs :
               /\ udp_addrs[j] = a
               /\ udp_addrs' = SubSeq(udp_addrs, 1, j - 1) \o SubSeq(udp_addrs, j + 1, Len(udp_addrs))
      BY <3>1, Parts, UdpDelete
    <3>4. udp_addrs' = tcp_addrs'
      <4>1. PICK i \in DOMAIN tcp_addrs :
              /\ tcp_addrs[i] = a
              /\ tcp_addrs' = SubSeq(tcp_addrs, 1, i - 1) \o SubSeq(tcp_addrs, i + 1, Len(tcp_addrs))
        BY <3>2
      <4>2. PICK j \in DOMAIN udp_addrs :
              /\ udp_addrs[j] = a
              /\ udp_addrs' = SubSeq(udp_addrs, 1, j - 1) \o SubSeq(udp_addrs, j + 1, Len(udp_addrs))
        BY <3>3
      <4>3. j = i
        BY <4>1, <4>2, <1>4, Parts, TcpTypes DEF IsInjective
      <4> QED
        BY <4>1, <4>2, <4>3, <1>4
    <3>5. /\ Lists \subseteq Range(tcp_addrs')
          /\ Range(tcp_addrs') \subseteq Lists \cup Range(Tail(server.addrs))
      BY <2>2, <3>2, <1>3, <1>4, <1>5
    <3> QED
      BY <3>2, <3>3, <3>4, <3>5
  <2> QED
    BY <2>1, <2>2
<1>8. ClientsGrow
  BY <1>7 DEF ClientsGrow
<1>9. /\ FirstLine' /\ LinesKnown'
      /\ \A s \in DOMAIN wan_addrs_list : Unnamed(s) => Unnamed(s)'
  BY <1>1, <1>3, <1>8, SameLinesStep
<1>10. Types' /\ DOMAIN wan_addrs_list' = DOMAIN wan_addrs_list
  BY <1>1, <1>3, Parts, SameLists, CallbackTypes
<1>11. Callback'
  BY <1>1, <1>3, Parts, SameCallback
<1>12. PoolInCallback'
  <2>1. Lists' = Lists
    BY <1>1 DEF Lists
  <2> QED
    BY <2>1, <1>3, <1>7 DEF PoolInCallback
<1> QED
  BY <1>1, <1>7, <1>8, <1>9, <1>10, <1>11, <1>12, CallbackStep

LEMMA EndedStep ==
  ASSUME SessionInv, Ended
  PROVE  SessionInv'
<1>1. /\ server.pc = "deleting" /\ server.addrs = <<>> /\ server' = Idle
      /\ UNCHANGED <<tcpVars, udpVars, sessionVars, to_pool, to_nat, natporte>>
      /\ UNCHANGED <<wan_addrs_list, natporte_message, tcp_addrs, udp_addrs>> /\ ClientsGrow
  BY DEF Ended, tcpVars, udpVars, sessionVars, ClientsGrow
<1>2. tcpDB!IInv' /\ udpDB!IInv'
  BY <1>1, Parts, TcpKept, UdpKept
<1>3. /\ server' \in ServerTypes /\ Callback' /\ FirstLine' /\ LinesKnown'
      /\ \A s \in DOMAIN wan_addrs_list : Unnamed(s) => Unnamed(s)'
  BY <1>1, IdleStep
<1>4. Types' /\ DOMAIN wan_addrs_list' = DOMAIN wan_addrs_list
  BY <1>1, <1>3, Parts, SameLists, CallbackTypes
<1>5. PoolInCallback'
  <2>1. Range(server.addrs) = {}
    BY <1>1 DEF Range
  <2>2. udp_addrs = tcp_addrs /\ Range(tcp_addrs) = Lists
    BY <1>1, <2>1, Parts DEF PoolInCallback
  <2> QED
    BY <2>2, <1>1, DownFields DEF PoolInCallback, Lists
<1> QED
  BY <1>1, <1>2, <1>3, <1>4, <1>5, CallbackStep

-----------------------------------------------------------------------------
(* The connections of the server *)

\* A callback begins, for connection s: every other connection is left alone.
LEMMA SocketStep ==
  ASSUME SessionInv, NEW s \in Sockets, UNCHANGED <<tcpVars, udpVars, natporte>>,
         \A t \in Sockets : t # s =>
           /\ Listed(t)' <=> Listed(t)
           /\ Listed(t) => wan_addrs_list'[t] = wan_addrs_list[t]
           /\ to_pool'[t] = to_pool[t] /\ to_nat'[t] = to_nat[t]
           /\ natporte_message'[t] = natporte_message[t],
         server'.socket = s \/ server'.lines = <<>>,
         Types', Callback', Framed(s)', FirstLine', FirstKept(s)', FirstUnread(s)',
         LinesKnown', Known(to_pool[s], "release")', Known(natporte_message[s], "release")' \/ ~Listed(s)',
         PoolInCallback',
         \A kept \in Seq(DownTexts) : FramedAnswers(kept, to_nat[s]) => FramedAnswers(kept, to_nat'[s]),
         Known(to_nat[s], "request_ack") => Known(to_nat[s], "request_ack")',
         Open(s)' => Open(s), Open(s)' /\ Whole(s) => Whole(s)'
  PROVE  SessionInv'
<1>1. UNCHANGED <<tcp_clients, udp_clients>> /\ ClientsGrow /\ (\A c : Client(c) => Client(c)')
  <2>1. UNCHANGED <<tcp_clients, udp_clients>> /\ ClientsGrow
    BY DEF tcpVars, udpVars, ClientsGrow
  <2> QED
    BY <2>1, ClientKept
<1>2. tcpDB!IInv' /\ udpDB!IInv'
  BY Parts, TcpKept, UdpKept
<1>3. OwnSockets'
  BY Parts, OwnSocketsKept
<1>4. \A t \in Sockets : Open(t)' => Open(t)
  <2>1. ASSUME NEW t \in Sockets, t # s
        PROVE  Open(t)' => Open(t)
    BY <2>1, OpenKept
  <2> QED
    BY <2>1
<1>5. ASSUME NEW p \in Natportes, Connected(p)'
      PROVE  Connected(p) /\ natporte[p].socket \in Sockets
  <2>1. natporte[p] # Down /\ Open(natporte[p].socket)'
    BY <1>5 DEF Connected
  <2>2. natporte[p].socket \in Sockets
    BY <2>1, Parts, RunningSocket
  <2> QED
    BY <2>1, <2>2, <1>4 DEF Connected
<1>6. FramedToPool'
  <2>1. ASSUME NEW t \in Sockets, t # s
        PROVE  Framed(t)'
    BY <2>1, Parts, FramedKept DEF FramedToPool
  <2> QED
    BY <2>1 DEF FramedToPool
<1>7. WholeToPool'
  <2>1. ASSUME NEW p \in Natportes, Connected(p)'
        PROVE  Whole(natporte[p].socket)'
    <3>1. PICK t \in Sockets : t = natporte[p].socket
      BY <2>1, <1>5
    <3>2. Whole(t) /\ Open(t)'
      BY <2>1, <3>1, <1>5, Parts DEF WholeToPool, Connected
    <3>3. Whole(t)'
      <4>1. CASE t = s
        BY <3>2, <4>1
      <4>2. CASE t # s
        BY <3>2, <4>2, WholeKept
      <4> QED
        BY <4>1, <4>2
    <3> QED
      BY <3>1, <3>3
  <2> QED
    BY <2>1 DEF WholeToPool
<1>8. FramedToNat'
  <2>1. ASSUME NEW p \in Natportes, natporte[p] # Down
        PROVE  FramedAnswers(natporte[p].string_buffer, to_nat'[natporte[p].socket])
    <3>1. PICK t \in Sockets : t = natporte[p].socket
      BY <2>1, Parts, RunningSocket
    <3>2. PICK kept \in Seq(DownTexts) : kept = natporte[p].string_buffer
      BY Parts, NatporteFields
    <3>3. FramedAnswers(kept, to_nat[t])
      BY <2>1, <3>1, <3>2, Parts DEF FramedToNat
    <3>4. FramedAnswers(kept, to_nat'[t])
      BY <3>3
    <3> QED
      BY <3>1, <3>2, <3>4
  <2> QED
    BY <2>1 DEF FramedToNat
<1>9. InitializeFirst'
  <2>1. ASSUME NEW t \in Sockets, t # s
        PROVE  FirstKept(t)' /\ FirstUnread(t)'
    <3>1. FirstKept(t) /\ FirstUnread(t)
      BY Parts DEF InitializeFirst
    <3>2. Listed(t) /\ Unnamed(t) => Unnamed(t)'
      BY <2>1 DEF Unnamed
    <3> QED
      BY <2>1, <3>1, <3>2 DEF FirstKept, FirstUnread
  <2> QED
    BY <2>1 DEF InitializeFirst
<1>10. ClientsKnown'
  <2>1. ASSUME NEW t \in Sockets, t # s
        PROVE  Known(to_pool[t], "release")' /\ (Listed(t)' => Known(natporte_message[t], "release")')
    BY <2>1, <1>1, Parts, UnreadKept, PartKept DEF ClientsKnown
  <2>2. ASSUME NEW p \in Natportes, Connected(p)'
        PROVE  AnswersKnown(p)'
    <3>1. PICK t \in Sockets : t = natporte[p].socket
      BY <2>2, <1>5
    <3>2. AnswersKnown(p)
      BY <2>2, <1>5, Parts DEF ClientsKnown
    <3>3. (\A c \in natporte[p].table : Client(c)') /\ Known(natporte[p].string_buffer, "request_ack")'
      BY <3>2, <1>1 DEF AnswersKnown, Known
    <3>4. Known(to_nat[t], "request_ack")
      BY <3>1, <3>2 DEF AnswersKnown
    <3>5. Known(to_nat[t], "request_ack")'
      <4>1. CASE t = s
        BY <3>4, <4>1
      <4>2. CASE t # s
        BY <3>4, <4>2, <1>1 DEF Known
      <4> QED
        BY <4>1, <4>2
    <3> QED
      BY <3>1, <3>3, <3>5 DEF AnswersKnown
  <2> QED
    BY <2>1, <2>2 DEF ClientsKnown
<1> QED
  BY <1>2, <1>3, <1>6, <1>7, <1>8, <1>9, <1>10 DEF SessionInv

\* What Framed says of a stream.
LEMMA FramedFact ==
  ASSUME SessionInv, NEW s \in Sockets
  PROVE  /\ Len(natporte_message[s]) \in Nat /\ Len(natporte_message[s]) <= 1
         /\ natporte_message[s] \in Seq(UpTexts)
         /\ to_pool[s] \in Seq(UpTexts \cup {NL} \cup Events)
         /\ Len(to_pool[s]) \in Nat /\ DOMAIN to_pool[s] = 1 .. Len(to_pool[s])
         /\ ~Listed(s) => to_pool[s] = <<>> \/ to_pool[s][1] = Connecting
         /\ \A i \in DOMAIN to_pool[s] :
              /\ to_pool[s][i] \in UpTexts \cup {NL} \cup Events
              /\ to_pool[s][i] = Connecting => i = 1 /\ ~Listed(s)
              /\ to_pool[s][i] \in Ends => i = Len(to_pool[s])
              /\ to_pool[s][i] \notin Events => (to_pool[s][i] = NL <=> Even(i + Phase(s)))
<1>1. natporte_message[s] \in Seq(UpTexts) /\ to_pool[s] \in Seq(UpTexts \cup {NL} \cup Events)
  BY Parts DEF Types
<1>2. Framed(s)
  BY Parts DEF FramedToPool
<1>3. Len(natporte_message[s]) \in Nat /\ Len(to_pool[s]) \in Nat /\ DOMAIN to_pool[s] = 1 .. Len(to_pool[s])
  BY <1>1, LenProperties
<1>4. \A i \in DOMAIN to_pool[s] : to_pool[s][i] \in UpTexts \cup {NL} \cup Events
  BY <1>1, <1>3, ElementOfSeq
<1> QED
  BY <1>1, <1>2, <1>3, <1>4 DEF Framed

\* The tail of a stream of node.js.
LEMMA UnreadTail ==
  ASSUME SessionInv, NEW s \in Sockets, to_pool[s] # <<>>,
         to_pool' = [to_pool EXCEPT ![s] = Tail(@)]
  PROVE  /\ to_pool' \in [Sockets -> Seq(UpTexts \cup {NL} \cup Events)]
         /\ Len(to_pool[s]) > 0 /\ Len(to_pool'[s]) = Len(to_pool[s]) - 1
         /\ Head(to_pool[s]) = to_pool[s][1] /\ 1 \in DOMAIN to_pool[s]
         /\ DOMAIN to_pool'[s] = 1 .. Len(to_pool[s]) - 1
         /\ \A i \in 1 .. Len(to_pool[s]) - 1 :
              i + 1 \in DOMAIN to_pool[s] /\ to_pool'[s][i] = to_pool[s][i + 1]
         /\ \A t \in Sockets : t # s => to_pool'[t] = to_pool[t]
<1>1. PICK q : q = to_pool[s]
  OBVIOUS
<1>2. PICK S : S = UpTexts \cup {NL} \cup Events
  OBVIOUS
<1>3. to_pool \in [Sockets -> Seq(S)]
  BY <1>2, Parts DEF Types
<1>4. q \in Seq(S) /\ q # <<>>
  BY <1>1, <1>3
<1>5. /\ Tail(q) \in Seq(S) /\ Len(q) \in Nat /\ Len(q) > 0 /\ Len(Tail(q)) = Len(q) - 1
      /\ DOMAIN q = 1 .. Len(q) /\ DOMAIN Tail(q) = 1 .. Len(q) - 1
      /\ Head(q) = q[1] /\ 1 \in DOMAIN q
      /\ \A i \in 1 .. Len(q) - 1 : i + 1 \in 1 .. Len(q) /\ Tail(q)[i] = q[i + 1]
  BY <1>4, TailFact
<1>6. to_pool' = [to_pool EXCEPT ![s] = Tail(q)]
  BY <1>1
<1>7. /\ to_pool' \in [Sockets -> Seq(S)] /\ to_pool'[s] = Tail(q)
      /\ \A t \in Sockets : t # s => to_pool'[t] = to_pool[t]
  BY <1>3, <1>5, <1>6
<1> QED
  BY <1>1, <1>2, <1>5, <1>7

LEMMA ConnectStep ==
  ASSUME SessionInv, NEW s \in Sockets, Connect(s)
  PROVE  SessionInv'
<1>1. /\ server = Idle /\ server' = Idle /\ to_pool[s] # <<>> /\ Head(to_pool[s]) = Connecting
      /\ to_pool' = [to_pool EXCEPT ![s] = Tail(@)]
      /\ wan_addrs_list' = [t \in DOMAIN wan_addrs_list \cup {s} |->
                              IF t = s THEN <<>> ELSE wan_addrs_list[t]]
      /\ natporte_message' = [natporte_message EXCEPT ![s] = <<>>]
      /\ to_nat' = [to_nat EXCEPT ![s] = @ \o Text(Initialize)]
      /\ UNCHANGED <<tcpVars, udpVars, natporte>>
      /\ UNCHANGED <<tcp_addrs, udp_addrs, tcp_clients, udp_clients>>
  BY DEF Connect, tcpVars, udpVars
<1>2. PICK q : q = to_pool[s]
  OBVIOUS
<1>3. /\ to_pool' \in [Sockets -> Seq(UpTexts \cup {NL} \cup Events)]
      /\ Len(q) \in Nat /\ Len(q) > 0 /\ Len(to_pool'[s]) = Len(q) - 1 /\ q[1] = Connecting
      /\ 1 \in DOMAIN q
      /\ DOMAIN to_pool'[s] = 1 .. Len(q) - 1
      /\ \A i \in 1 .. Len(q) - 1 : i + 1 \in DOMAIN q /\ to_pool'[s][i] = q[i + 1]
      /\ \A t \in Sockets : t # s => to_pool'[t] = to_pool[t]
  BY <1>1, <1>2, UnreadTail, FramedFact
<1>4. /\ \A i \in DOMAIN q : /\ q[i] = Connecting => i = 1 /\ ~Listed(s)
                             /\ q[i] \in Ends => i = Len(q)
                             /\ q[i] \notin Events => (q[i] = NL <=> Even(i + Phase(s)))
  BY <1>2, FramedFact
<1>5. ~Listed(s) /\ Phase(s) = 1
  BY <1>3, <1>4 DEF Phase
<1>6. /\ wan_addrs_list' \in [DOMAIN wan_addrs_list \cup {s} -> Seq(WanAddrs)]
      /\ DOMAIN wan_addrs_list' = DOMAIN wan_addrs_list \cup {s} /\ wan_addrs_list'[s] = <<>>
      /\ \A t \in DOMAIN wan_addrs_list : t # s /\ wan_addrs_list'[t] = wan_addrs_list[t]
  BY <1>1, <1>5, Parts, SameLists DEF Listed
<1>7. Listed(s)' /\ \A t \in Sockets : t # s =>
        (Listed(t)' <=> Listed(t)) /\ (Listed(t) => wan_addrs_list'[t] = wan_addrs_list[t])
  BY <1>6 DEF Listed
<1>8. /\ natporte_message' \in [Sockets -> Seq(UpTexts)] /\ natporte_message'[s] = <<>>
      /\ \A t \in Sockets : t # s => natporte_message'[t] = natporte_message[t]
  BY <1>1, Parts DEF Types
<1>9. PICK n \in Seq(DownTexts \cup {NL}) : n = to_nat[s]
  BY Parts, SameLists
<1>10. PICK r : r = n \o Text(Initialize)
  OBVIOUS
<1>11. /\ r \in Seq(DownTexts \cup {NL}) /\ Len(n) \in Nat /\ DOMAIN n = 1 .. Len(n)
       /\ DOMAIN r = 1 .. Len(n) + 2 /\ \A i \in 1 .. Len(n) : r[i] = n[i]
       /\ r[Len(n) + 1] = Initialize /\ r[Len(n) + 2] = NL
  <2>1. Initialize \in DownTexts
    BY DEF DownTexts
  <2>2. WithText(DownTexts \cup {NL}, n, Initialize) /\ DOMAIN n = 1 .. Len(n)
    BY <2>1, AnswerBehind, Zenon
  <2> QED
    BY <2>2, <1>10 DEF WithText
<1>12. /\ to_nat' \in [Sockets -> Seq(DownTexts \cup {NL})] /\ to_nat'[s] = r
       /\ \A t \in Sockets : t # s => to_nat'[t] = to_nat[t]
  <2>1. to_nat' = [to_nat EXCEPT ![s] = r]
    BY <1>1, <1>9, <1>10
  <2> QED
    BY <2>1, <1>11, Parts, SameLists
<1>13. Types'
  BY <1>1, <1>3, <1>6, <1>8, <1>12, Parts DEF Types
<1>14. Phase(s)' = 0
  BY <1>7, <1>8 DEF Phase
<1>15. Framed(s)'
  <2>1. ASSUME NEW i \in 1 .. Len(q) - 1
        PROVE  /\ q[i + 1] # Connecting
               /\ q[i + 1] \in Ends => i = Len(q) - 1
               /\ q[i + 1] \notin Events => (q[i + 1] = NL <=> Even(i + 0))
    <3>1. i \in Nat /\ i + 1 \in DOMAIN q /\ i + 1 # 1 /\ (i + 1) + 1 = i + 2 /\ i + 0 = i
      BY <1>3
    <3>2. Even(i + 2) <=> Even(i)
      BY <3>1, EvenFact
    <3> QED
      BY <3>1, <3>2, <1>3, <1>4, <1>5
  <2>2. PICK u : u = to_pool'[s]
    OBVIOUS
  <2>3. \A i \in DOMAIN u :
          /\ u[i] # Connecting
          /\ u[i] \in Ends => i = Len(u)
          /\ u[i] \notin Events => (u[i] = NL <=> Even(i + 0))
    BY <2>1, <2>2, <1>3
  <2> QED
    BY <2>2, <2>3, <1>7, <1>8, <1>14 DEF Framed
<1>16. FirstLine' /\ LinesKnown' /\ Callback'
  BY <1>1, DownFields DEF FirstLine, LinesKnown, Callback
<1>17. FirstKept(s)'
  BY <1>8 DEF FirstKept
<1>18. FirstUnread(s)'
  <2>1. Unnamed(s)'
    BY <1>1, <1>6, DownFields DEF Unnamed
  <2>2. ASSUME NEW i \in 1 .. Len(q) - 1, q[i + 1].type = "initialize"
        PROVE  i = 1
    <3>1. i + 1 \in DOMAIN q /\ i \in Int
      BY <1>3
    <3>2. i + 1 = 2
      BY <2>2, <3>1, <1>2, <1>5, Parts DEF InitializeFirst, FirstUnread
    <3> QED
      BY <3>1, <3>2
  <2>3. PICK u : u = to_pool'[s]
    OBVIOUS
  <2>4. \A i \in DOMAIN u : u[i].type = "initialize" => i = 1
    BY <2>2, <2>3, <1>3
  <2> QED
    BY <2>1, <2>3, <2>4, <1>7, <1>8 DEF FirstUnread
<1>19. \A c : Client(c)' <=> Client(c)
  BY <1>1 DEF Client
<1>20. Known(to_pool[s], "release")' /\ Known(natporte_message[s], "release")'
  <2>1. Known(q, "release")
    BY <1>2, Parts DEF ClientsKnown
  <2>2. ASSUME NEW i \in DOMAIN to_pool'[s], to_pool'[s][i].type = "release"
        PROVE  Client(to_pool[s][i])'
    <3>1. PICK x : x = to_pool'[s][i]
      OBVIOUS
    <3>2. Client(x)
      BY <2>1, <2>2, <3>1, <1>3 DEF Known
    <3> QED
      BY <3>1, <3>2, <1>1 DEF Client
  <2> QED
    BY <2>2, <1>8 DEF Known
<1>21. PoolInCallback'
  <2>1. udp_addrs = tcp_addrs /\ Range(tcp_addrs) = Lists
    BY <1>1, Parts, DownFields DEF PoolInCallback
  <2>2. Range(wan_addrs_list'[s]) = {}
    BY <1>6 DEF Range
  <2>3. Lists' = Lists
    <3>1. ASSUME NEW x \in Lists
          PROVE  x \in Lists'
      BY <3>1, <1>6 DEF Lists
    <3>2. ASSUME NEW x \in Lists'
          PROVE  x \in Lists
      <4>1. PICK t \in DOMAIN wan_addrs_list' : x \in Range(wan_addrs_list'[t])
        BY DEF Lists
      <4>2. t \in DOMAIN wan_addrs_list
        BY <4>1, <2>2, <1>6
      <4> QED
        BY <4>1, <4>2, <1>6 DEF Lists
    <3> QED
      BY <3>1, <3>2
  <2> QED
    BY <2>1, <2>3, <1>1, DownFields DEF PoolInCallback
<1>22. \A kept \in Seq(DownTexts) : FramedAnswers(kept, to_nat[s]) => FramedAnswers(kept, to_nat'[s])
  <2>1. Initialize \in DownTexts
    BY DEF DownTexts
  <2>2. ASSUME NEW kept \in Seq(DownTexts), FramedAnswers(kept, n)
        PROVE  FramedAnswers(kept, r)
    <3>1. Len(kept) \in Nat
      BY LenProperties
    <3> QED
      BY <2>1, <2>2, <3>1, <1>10, AnswerFramed
  <2> QED
    BY <2>2, <1>9, <1>12
<1>23. Known(to_nat[s], "request_ack") => Known(to_nat[s], "request_ack")'
  <2> SUFFICES ASSUME Known(n, "request_ack") PROVE Known(to_nat[s], "request_ack")'
    BY <1>9
  <2>1. Initialize.type # "request_ack" /\ NL.type # "request_ack"
    BY EventKinds DEF Initialize
  <2>2. ASSUME NEW i \in 1 .. Len(n) + 2, r[i].type = "request_ack"
        PROVE  i \in 1 .. Len(n)
    <3>1. i = Len(n) + 1 \/ i = Len(n) + 2 \/ i \in 1 .. Len(n)
      BY <1>11
    <3> QED
      BY <2>1, <2>2, <3>1, <1>11
  <2> QED
    BY <2>2, <1>11, <1>12, <1>19 DEF Known
<1>24. Open(s)
  BY <1>1 DEF Open
<1>25. Whole(s) => Whole(s)'
  <2> SUFFICES ASSUME Whole(s) PROVE Whole(s)'
    OBVIOUS
  <2>1. Even(Len(q) + 1) /\ \A i \in DOMAIN q : q[i] \notin Ends
    BY <1>2, <1>5 DEF Whole
  <2>2. Even((Len(q) - 1) + 0)
    BY <2>1, <1>3 DEF Even
  <2> QED
    BY <2>1, <2>2, <1>3, <1>14 DEF Whole
<1> QED
  BY <1>1, <1>3, <1>7, <1>8, <1>12, <1>13, <1>15, <1>16, <1>17, <1>18, <1>20, <1>21, <1>22, <1>23,
     <1>24, <1>25, DownFields, SocketStep

LEMMA EndStep ==
  ASSUME SessionInv, NEW s \in Sockets, End(s)
  PROVE  SessionInv'
<1>1. /\ server = Idle /\ Listed(s) /\ to_pool[s] # <<>> /\ Head(to_pool[s]) = [type |-> "end"]
      /\ to_pool' = [to_pool EXCEPT ![s] = Tail(@)]
      /\ server' = [pc |-> "deleting", socket |-> s, lines |-> <<>>, addrs |-> wan_addrs_list[s]]
      /\ wan_addrs_list' = [t \in DOMAIN wan_addrs_list \ {s} |-> wan_addrs_list[t]]
      /\ UNCHANGED <<tcpVars, udpVars, natporte_message, to_nat, natporte>>
      /\ UNCHANGED <<tcp_addrs, udp_addrs, tcp_clients, udp_clients>>
  BY DEF End, Restrict, tcpVars, udpVars
<1>2. PICK q : q = to_pool[s]
  OBVIOUS
<1>3. /\ to_pool' \in [Sockets -> Seq(UpTexts \cup {NL} \cup Events)]
      /\ Len(q) \in Nat /\ Len(q) > 0 /\ Len(to_pool'[s]) = Len(q) - 1 /\ q[1] = [type |-> "end"]
      /\ 1 \in DOMAIN q
      /\ \A t \in Sockets : t # s => to_pool'[t] = to_pool[t]
  BY <1>1, <1>2, UnreadTail, FramedFact
<1>4. to_pool'[s] = <<>>
  <2>1. q[1] \in Ends
    BY <1>3, EventKinds
  <2>2. Len(q) = 1
    BY <2>1, <1>2, <1>3, FramedFact
  <2>3. Len(to_pool'[s]) = 0
    BY <2>2, <1>3
  <2> QED
    BY <2>3, <1>3, EmptySeq
<1>5. /\ wan_addrs_list' \in [DOMAIN wan_addrs_list \ {s} -> Seq(WanAddrs)]
      /\ DOMAIN wan_addrs_list' = DOMAIN wan_addrs_list \ {s}
      /\ \A t \in DOMAIN wan_addrs_list : t # s => wan_addrs_list'[t] = wan_addrs_list[t]
      /\ wan_addrs_list[s] \in Seq(WanAddrs)
  BY <1>1, Parts, SameLists DEF Listed
<1>6. /\ server'.pc = "deleting" /\ server'.socket = s /\ server'.lines = <<>>
      /\ server'.addrs = wan_addrs_list[s]
  BY <1>1
<1>7. ~Listed(s)' /\ \A t \in Sockets : t # s =>
        (Listed(t)' <=> Listed(t)) /\ (Listed(t) => wan_addrs_list'[t] = wan_addrs_list[t])
  BY <1>5 DEF Listed
<1>8. Types'
  <2>1. server' \in ServerTypes
    BY <1>1, <1>5 DEF ServerTypes
  <2> QED
    BY <2>1, <1>1, <1>3, <1>5, Parts DEF Types, ServerTypes
<1>9. Callback' /\ FirstLine' /\ LinesKnown' /\ FirstKept(s)' /\ FirstUnread(s)' /\ Known(to_pool[s], "release")'
  BY <1>4, <1>6, <1>7 DEF Callback, FirstLine, LinesKnown, FirstKept, FirstUnread, Known
<1>10. Framed(s)'
  <2>1. Len(natporte_message[s]) <= 1
    BY FramedFact
  <2> QED
    BY <2>1, <1>1, <1>4 DEF Framed
<1>11. PoolInCallback'
  <2>1. udp_addrs = tcp_addrs /\ Range(tcp_addrs) = Lists
    BY <1>1, Parts, DownFields DEF PoolInCallback
  <2>2. Lists' \subseteq Lists /\ Lists \subseteq Lists' \cup Range(wan_addrs_list[s])
    <3>1. ASSUME NEW x \in Lists'
          PROVE  x \in Lists
      <4>1. PICK t \in DOMAIN wan_addrs_list' : x \in Range(wan_addrs_list'[t])
        BY DEF Lists
      <4> QED
        BY <4>1, <1>5 DEF Lists
    <3>2. ASSUME NEW x \in Lists, x \notin Range(wan_addrs_list[s])
          PROVE  x \in Lists'
      <4>1. PICK t \in DOMAIN wan_addrs_list : x \in Range(wan_addrs_list[t])
        BY DEF Lists
      <4> QED
        BY <3>2, <4>1, <1>5 DEF Lists
    <3> QED
      BY <3>1, <3>2
  <2> QED
    BY <2>1, <2>2, <1>1, <1>6 DEF PoolInCallback
<1>12. ~Open(s)' /\ Open(s)
  BY <1>1, <1>4, <1>7 DEF Open
<1>13. Known(to_nat[s], "request_ack") => Known(to_nat[s], "request_ack")'
  BY <1>1 DEF Known, Client
<1> QED
  BY <1>1, <1>3, <1>6, <1>7, <1>8, <1>9, <1>10, <1>11, <1>12, <1>13, SocketStep

LEMMA DatabasesBegin ==
  (TcpServer!Init => tcpDB!IInv) /\ (UdpServer!Init => udpDB!IInv)
<1>1. TcpServer!Init => TcpServer!IInv
  BY TcpServer!InitIInv, ServerAssumptions, DatabaseAssumption
<1>2. UdpServer!Init => UdpServer!IInv
  BY UdpServer!InitIInv, ServerAssumptions, DatabaseAssumption
<1> QED
  BY <1>1, <1>2, SameTcp, SameUdp

\* Nothing is left but the natportes, and what they have still to read.
LEMMA ServerDiesStep ==
  ASSUME SessionInv, NEW s \in Sockets, ServerDies(s)
  PROVE  SessionInv'
<1>1. /\ server = Idle /\ UNCHANGED <<server, to_nat, natporte>>
      /\ tcp_addrs' = <<>> /\ tcp_clients' = {} /\ tcp_db' = {} /\ tcp_result' = undefined
      /\ udp_addrs' = <<>> /\ udp_clients' = {} /\ udp_db' = {} /\ udp_result' = undefined
      /\ tcp_ports' = [a \in WanAddrs |-> <<>>] /\ udp_ports' = [a \in WanAddrs |-> <<>>]
      /\ wan_addrs_list' = << >> /\ natporte_message' = [t \in Sockets |-> <<>>]
      /\ to_pool' = [t \in Sockets |-> <<>>]
  BY DEF ServerDies
<1>2. tcpDB!IInv' /\ udpDB!IInv'
  <2>1. TcpServer!Init' /\ UdpServer!Init'
    BY <1>1 DEF TcpServer!Init, UdpServer!Init
  <2> QED
    BY <2>1, DatabasesBegin, PTL
<1>3. Types'
  BY <1>1, Parts DEF Types
<1>4. /\ DOMAIN wan_addrs_list' = {} /\ \A t \in Sockets : ~Listed(t)' /\ ~Open(t)'
  BY <1>1 DEF Listed, Open
<1>5. Callback' /\ OwnSockets' /\ FramedToNat'
  BY <1>1, Parts, DownFields DEF Callback, OwnSockets, FramedToNat
<1>6. FramedToPool'
  BY <1>1, <1>4 DEF FramedToPool, Framed
<1>7. \A p \in Natportes : ~Connected(p)'
  <2>1. ASSUME NEW p \in Natportes, natporte[p] # Down
        PROVE  ~Open(natporte[p].socket)'
    <3>1. PICK t \in Sockets : t = natporte[p].socket
      BY <2>1, Parts, RunningSocket
    <3>2. natporte'[p].socket = t
      BY <3>1, <1>1
    <3> QED
      BY <3>1, <3>2, <1>4
  <2> QED
    BY <2>1, <1>1 DEF Connected
<1>8. WholeToPool'
  BY <1>7 DEF WholeToPool
<1>9. InitializeFirst'
  BY <1>1, <1>4, DownFields DEF InitializeFirst, FirstLine, FirstKept, FirstUnread
<1>10. ClientsKnown'
  BY <1>1, <1>4, <1>7, DownFields DEF ClientsKnown, LinesKnown, Known
<1>11. PoolInCallback'
  <2>1. Range(tcp_addrs') = {} /\ Lists' = {}
    BY <1>1, <1>4 DEF Range, Lists
  <2> QED
    BY <2>1, <1>1, DownFields DEF PoolInCallback
<1> QED
  BY <1>2, <1>3, <1>5, <1>6, <1>8, <1>9, <1>10, <1>11 DEF SessionInv

\* The lines of a read are messages, the initialize only as the first of all.
LEMMA ServerDataStep ==
  ASSUME SessionInv, NEW s \in Sockets, ServerData(s)
  PROVE  SessionInv'
<1>1. PICK q : q = to_pool[s]
  OBVIOUS
<1>2. PICK kept : kept = natporte_message[s]
  OBVIOUS
<1>3. PICK c : c = Len(kept)
  OBVIOUS
<1>4. /\ c \in Nat /\ c <= 1 /\ kept \in Seq(UpTexts) /\ q \in Seq(UpTexts \cup {NL} \cup Events)
      /\ Len(q) \in Nat /\ DOMAIN q = 1 .. Len(q)
  BY <1>1, <1>2, <1>3, FramedFact
<1>5. PICK k \in Readable(q) :
        LET lines == split(kept \o SubSeq(q, 1, k)) IN
        /\ to_pool' = [to_pool EXCEPT ![s] = SubSeq(q, k + 1, Len(q))]
        /\ natporte_message' = [natporte_message EXCEPT ![s] = Last(lines)]
        /\ server' = [pc |-> "lines", socket |-> s, lines |-> Front(lines), addrs |-> <<>>]
  BY <1>1, <1>2 DEF ServerData
<1>6. PICK lines : lines = split(kept \o SubSeq(q, 1, k))
  OBVIOUS
<1>7. PICK rest : rest = SubSeq(q, k + 1, Len(q))
  OBVIOUS
<1>8. PICK last : last = Last(lines)
  OBVIOUS
<1>9. PICK front : front = Front(lines)
  OBVIOUS
<1>10. PICK N : N = (k + c) \div 2
  OBVIOUS
<1>11. /\ to_pool' = [to_pool EXCEPT ![s] = rest]
       /\ natporte_message' = [natporte_message EXCEPT ![s] = last]
       /\ server' = [pc |-> "lines", socket |-> s, lines |-> front, addrs |-> <<>>]
  BY <1>5, <1>6, <1>7, <1>8, <1>9
<1>12. /\ server = Idle /\ Listed(s)
       /\ UNCHANGED <<tcpVars, udpVars, wan_addrs_list, to_nat, natporte>>
       /\ UNCHANGED <<tcp_addrs, udp_addrs, tcp_clients, udp_clients>>
  BY DEF ServerData, tcpVars, udpVars
<1>13. Phase(s) = c
  BY <1>2, <1>3, <1>12 DEF Phase
<1>14. /\ \A i \in 1 .. Len(q) : /\ q[i] \in UpTexts \cup {NL} \cup Events
                                 /\ q[i] # Connecting
                                 /\ q[i] \in Ends => i = Len(q)
                                 /\ q[i] \notin Events => (q[i] = NL <=> Even(i + c))
  BY <1>1, <1>4, <1>12, <1>13, FramedFact
<1>15. /\ k \in 1 .. Len(q) /\ k \in Nat
       /\ \A i \in 1 .. k : i \in 1 .. Len(q) /\ q[i] \in UpTexts \cup {NL} /\ (q[i] = NL <=> Even(i + c))
  <2>1. k \in 1 .. Len(q) /\ \A i \in 1 .. k : q[i] \notin Events
    BY <1>5 DEF Readable
  <2>2. k \in Nat /\ \A i \in 1 .. k : i \in 1 .. Len(q)
    BY <2>1, <1>4
  <2> QED
    BY <2>1, <2>2, <1>14
<1>16. /\ lines \in Seq(Seq(UpTexts)) /\ N \in Nat /\ Len(lines) = N + 1
       /\ \A i \in 1 .. N :
            /\ i = 1 /\ kept # <<>> => lines[i] = kept
            /\ i # 1 \/ kept = <<>> =>
                 /\ 2 * i - 1 - c \in 1 .. k
                 /\ ~Even(2 * i - 1)
                 /\ q[2 * i - 1 - c] \in UpTexts
                 /\ lines[i] = <<q[2 * i - 1 - c]>>
       /\ Even(k + c) => last = <<>>
       /\ ~Even(k + c) => last = <<q[k]>> /\ q[k] \in UpTexts
  <2>1. PICK S, T : S = UpTexts /\ T = UpTexts \cup {NL} \cup Events
    OBVIOUS
  <2>2. /\ NL \notin S /\ kept \in Seq(S) /\ Len(kept) <= 1 /\ q \in Seq(T) /\ k \in 1 .. Len(q)
        /\ \A i \in 1 .. k : q[i] \in S \cup {NL}
        /\ \A i \in 1 .. k : q[i] = NL <=> Even(i + Len(kept))
    <3>1. NL \notin S
      BY <2>1, EventKinds
    <3> QED
      BY <2>1, <3>1, <1>3, <1>4, <1>15
  <2>3. LET ls == split(kept \o SubSeq(q, 1, k))
            h == (k + Len(kept)) \div 2
        IN  /\ ls \in Seq(Seq(S)) /\ h \in Nat /\ Len(ls) = h + 1
            /\ \A i \in 1 .. h :
                 /\ i = 1 /\ kept # <<>> => ls[i] = kept
                 /\ i # 1 \/ kept = <<>> =>
                      /\ 2 * i - 1 - Len(kept) \in 1 .. k
                      /\ ~Even(2 * i - 1)
                      /\ q[2 * i - 1 - Len(kept)] \in S
                      /\ ls[i] = <<q[2 * i - 1 - Len(kept)]>>
            /\ Even(k + Len(kept)) => Last(ls) = <<>>
            /\ ~Even(k + Len(kept)) => Last(ls) = <<q[k]>> /\ q[k] \in S
    BY <2>2, SplitRead
  <2> QED
    BY <2>1, <2>3, <1>3, <1>6, <1>8, <1>10
<1>17. /\ rest \in Seq(UpTexts \cup {NL} \cup Events) /\ Len(rest) = Len(q) - k
       /\ DOMAIN rest = 1 .. Len(q) - k
       /\ \A i \in 1 .. Len(q) - k : i + k \in 1 .. Len(q) /\ rest[i] = q[i + k]
  <2>1. PICK T : T = UpTexts \cup {NL} \cup Events
    OBVIOUS
  <2>2. q \in Seq(T)
    BY <2>1, <1>4
  <2>3. /\ rest \in Seq(T) /\ Len(rest) = Len(q) - k
        /\ DOMAIN rest = 1 .. Len(q) - k
        /\ \A i \in 1 .. Len(q) - k : i + k \in 1 .. Len(q) /\ rest[i] = q[i + k]
    BY <2>2, <1>7, <1>15, RestFact
  <2> QED
    BY <2>1, <2>3
<1>18. /\ front \in Seq(Seq(UpTexts)) /\ DOMAIN front = 1 .. N
       /\ \A i \in 1 .. N : front[i] = lines[i]
  <2>1. PICK S : S = Seq(UpTexts)
    OBVIOUS
  <2>2. lines \in Seq(S) /\ Len(lines) = N + 1 /\ N \in Nat
    BY <2>1, <1>16
  <2>3. \A i \in 1 .. N : lines[i] \in S
    <3>1. \A i \in 1 .. N : i \in 1 .. Len(lines)
      BY <2>2
    <3> QED
      BY <2>2, <3>1, ElementOfSeq
  <2>4. front = SubSeq(lines, 1, N)
    BY <2>2, <1>9 DEF Front
  <2>5. /\ SubSeq(lines, 1, N) \in Seq(S)
        /\ Len(SubSeq(lines, 1, N)) = IF 1 <= N THEN N - 1 + 1 ELSE 0
        /\ \A i \in 1 .. N - 1 + 1 : SubSeq(lines, 1, N)[i] = lines[1 + i - 1]
    BY <2>2, <2>3, SubSeqProperties
  <2>6. front \in Seq(S) /\ Len(front) = N /\ \A i \in 1 .. N : front[i] = lines[i]
    <3>1. N - 1 + 1 = N /\ (~(1 <= N) => N = 0) /\ \A i \in 1 .. N : 1 + i - 1 = i
      BY <2>2
    <3> QED
      BY <2>4, <2>5, <3>1
  <2> QED
    BY <2>1, <2>6, LenProperties
<1>19. last \in Seq(UpTexts) /\ Len(last) = IF Even(k + c) THEN 0 ELSE 1
  <2>1. CASE Even(k + c)
    BY <2>1, <1>16
  <2>2. CASE ~Even(k + c)
    <3>1. last = <<q[k]>> /\ q[k] \in UpTexts
      BY <2>2, <1>16
    <3> QED
      BY <2>2, <3>1
  <2> QED
    BY <2>1, <2>2
<1>20. /\ to_pool' \in [Sockets -> Seq(UpTexts \cup {NL} \cup Events)] /\ to_pool'[s] = rest
       /\ natporte_message' \in [Sockets -> Seq(UpTexts)] /\ natporte_message'[s] = last
       /\ \A t \in Sockets : t # s =>
            to_pool'[t] = to_pool[t] /\ natporte_message'[t] = natporte_message[t]
  BY <1>11, <1>17, <1>19, Parts DEF Types
<1>21. /\ server'.pc = "lines" /\ server'.socket = s /\ server'.lines = front
       /\ server' \in ServerTypes
  BY <1>11, <1>18 DEF ServerTypes
<1>22. \A t : Listed(t)' <=> Listed(t)
  BY <1>12 DEF Listed
<1>23. Types'
  BY <1>12, <1>20, <1>21, Parts DEF Types, ServerTypes
<1>24. kept = <<>> \/ (kept # <<>> /\ kept = <<kept[1]>> /\ 1 \in DOMAIN kept /\ c = 1)
  <2>1. \/ kept = <<>> /\ Len(kept) = 0
        \/ kept = <<kept[1]>> /\ kept[1] \in UpTexts /\ kept # <<>> /\ Len(kept) = 1
    BY <1>3, <1>4, ShortSeq
  <2>2. DOMAIN kept = 1 .. Len(kept)
    BY <1>4, LenProperties
  <2> QED
    BY <2>1, <2>2, <1>3
<1>25. ASSUME NEW i \in 1 .. N
       PROVE  /\ front[i] = <<front[i][1]>>
              /\ \/ i = 1 /\ kept # <<>> /\ 1 \in DOMAIN kept /\ front[i][1] = kept[1]
                 \/ \E j \in 1 .. Len(q) : j = 2 * i - 1 - c /\ front[i][1] = q[j]
  <2>1. CASE i = 1 /\ kept # <<>>
    <3>1. front[i] = kept
      BY <2>1, <1>16, <1>18
    <3> QED
      BY <2>1, <3>1, <1>24
  <2>2. CASE i # 1 \/ kept = <<>>
    <3>1. PICK j : j = 2 * i - 1 - c
      OBVIOUS
    <3>2. j \in 1 .. k /\ front[i] = <<q[j]>>
      BY <2>2, <3>1, <1>16, <1>18
    <3>3. j \in 1 .. Len(q) /\ front[i][1] = q[j]
      BY <3>2, <1>15
    <3> QED
      BY <3>1, <3>2, <3>3
  <2> QED
    BY <2>1, <2>2
<1>26. PICK d : d = Len(last)
  OBVIOUS
<1>27. d \in Nat /\ d <= 1 /\ (Even(d) <=> Even(k + c)) /\ Phase(s)' = d
  <2>1. Phase(s)' = d
    BY <1>12, <1>20, <1>22, <1>26 DEF Phase
  <2>2. CASE Even(k + c)
    BY <2>1, <2>2, <1>19, <1>26, EvenFact
  <2>3. CASE ~Even(k + c)
    BY <2>1, <2>3, <1>19, <1>26, EvenFact
  <2> QED
    BY <2>2, <2>3
<1>28. Framed(s)'
  <2>1. ASSUME NEW i \in 1 .. Len(q) - k
        PROVE  /\ rest[i] # Connecting
               /\ rest[i] \in Ends => i = Len(rest)
               /\ rest[i] \notin Events => (rest[i] = NL <=> Even(i + d))
    <3>1. rest[i] = q[i + k] /\ i + k \in 1 .. Len(q) /\ i \in Nat
      BY <1>4, <1>15, <1>17
    <3>2. i + k = Len(q) => i = Len(rest)
      <4>1. PICK L \in Nat : L = Len(q)
        BY <1>4
      <4>2. i + k = L => i = L - k
        BY <3>1, <1>15
      <4> QED
        BY <4>1, <4>2, <1>17
    <3>3. Even((i + k) + c) <=> Even(i + d)
      BY <3>1, <1>4, <1>15, <1>27 DEF Even
    <3> QED
      BY <3>1, <3>2, <3>3, <1>14
  <2> QED
    BY <2>1, <1>12, <1>17, <1>20, <1>22, <1>26, <1>27 DEF Framed
<1>29. Whole(s) => Whole(s)'
  <2> SUFFICES ASSUME Whole(s) PROVE Whole(s)'
    OBVIOUS
  <2>1. Even(Len(q) + c) /\ \A i \in 1 .. Len(q) : q[i] \notin Ends
    BY <1>1, <1>4, <1>13 DEF Whole
  <2>2. Even((Len(q) - k) + d)
    BY <2>1, <1>4, <1>15, <1>27 DEF Even
  <2> QED
    BY <2>1, <2>2, <1>17, <1>20, <1>27 DEF Whole
<1>30. /\ kept # <<>> /\ kept[1].type = "initialize" => wan_addrs_list[s] = <<>>
       /\ \A i \in 1 .. Len(q) : q[i].type = "initialize" =>
            i = 1 /\ kept = <<>> /\ wan_addrs_list[s] = <<>>
  BY <1>1, <1>2, <1>4, <1>12, Parts DEF InitializeFirst, FirstKept, FirstUnread, Unnamed
<1>31. c # 0 \/ kept = <<>>
  BY <1>24
<1>32. kept = <<>> => c = 0
  BY <1>3
<1>33. FirstLine'
  <2>1. ASSUME NEW i \in 1 .. N, front[i][1].type = "initialize"
        PROVE  i = 1 /\ wan_addrs_list[s] = <<>>
    <3>1. CASE i = 1 /\ kept # <<>> /\ 1 \in DOMAIN kept /\ front[i][1] = kept[1]
      BY <2>1, <3>1, <1>30
    <3>2. CASE \E j \in 1 .. Len(q) : j = 2 * i - 1 - c /\ front[i][1] = q[j]
      <4>1. PICK j \in 1 .. Len(q) : j = 2 * i - 1 - c /\ front[i][1] = q[j]
        BY <3>2
      <4>2. j = 1 /\ c = 0 /\ wan_addrs_list[s] = <<>>
        BY <2>1, <4>1, <1>30, <1>32
      <4>3. i = 1
        BY <4>1, <4>2
      <4> QED
        BY <4>2, <4>3
    <3> QED
      BY <3>1, <3>2, <1>25
  <2> QED
    BY <2>1, <1>12, <1>18, <1>21 DEF FirstLine
<1>34. FirstKept(s)'
  <2> SUFFICES ASSUME last # <<>>, last[1].type = "initialize"
               PROVE  wan_addrs_list[s] = <<>> /\ front = <<>>
    BY <1>12, <1>20, <1>21 DEF FirstKept, Unnamed
  <2>1. ~Even(k + c) /\ last = <<q[k]>>
    BY <1>16
  <2>2. k = 1 /\ c = 0 /\ wan_addrs_list[s] = <<>>
    <3>1. q[k].type = "initialize"
      BY <2>1
    <3> QED
      BY <3>1, <1>15, <1>30, <1>32
  <2>3. N = 0
    BY <2>2, <1>10
  <2>4. Len(front) = 0
    BY <2>3, <1>18, LenProperties
  <2> QED
    BY <2>2, <2>4, <1>18, EmptySeq
<1>35. FirstUnread(s)'
  <2>1. ASSUME NEW i \in 1 .. Len(q) - k
        PROVE  rest[i].type # "initialize"
    <3>1. i \in Nat \ {0} /\ k \in Nat \ {0}
      BY <1>4, <1>15
    <3>2. rest[i] = q[i + k] /\ i + k \in 1 .. Len(q)
      BY <1>17
    <3>3. i + k # 1
      BY <3>1
    <3> QED
      BY <3>2, <3>3, <1>30
  <2> QED
    BY <2>1, <1>17, <1>20 DEF FirstUnread
<1>36. \A x : Client(x)' <=> Client(x)
  BY <1>12 DEF Client
<1>37. /\ \A i \in DOMAIN kept : kept[i].type = "release" => Client(kept[i])
       /\ \A i \in 1 .. Len(q) : q[i].type = "release" => Client(q[i])
  BY <1>1, <1>2, <1>4, <1>12, Parts DEF ClientsKnown, Known
<1>38. LinesKnown'
  <2>1. ASSUME NEW i \in 1 .. N, NEW j \in DOMAIN front[i], front[i][j].type = "release"
        PROVE  Client(front[i][j])
    <3>1. j = 1
      <4>1. front[i] = <<front[i][1]>>
        BY <1>25
      <4>2. PICK x : front[i] = <<x>>
        BY <4>1
      <4> QED
        BY <4>2
    <3> QED
      BY <2>1, <3>1, <1>25, <1>37
  <2>2. ASSUME NEW i \in 1 .. N, NEW j \in DOMAIN front[i], front[i][j].type = "release"
        PROVE  Client(front[i][j])'
    BY <2>1, <2>2, <1>36
  <2>3. \A i \in DOMAIN server'.lines : i \in 1 .. N /\ server'.lines[i] = front[i]
    BY <1>18, <1>21
  <2> QED
    BY <2>2, <2>3, <1>12 DEF LinesKnown, Known, Client
<1>39. Known(to_pool[s], "release")'
  <2>1. \A i \in DOMAIN rest : rest[i].type = "release" => Client(rest[i])
    BY <1>17, <1>37
  <2> QED
    BY <2>1, <1>12, <1>20 DEF Known, Client
<1>40. Known(natporte_message[s], "release")'
  <2>1. \A i \in DOMAIN last : last[i].type = "release" => Client(last[i])
    <3>1. CASE Even(k + c)
      BY <3>1, <1>16
    <3>2. CASE ~Even(k + c)
      BY <3>2, <1>15, <1>16, <1>37
    <3> QED
      BY <3>1, <3>2
  <2> QED
    BY <2>1, <1>12, <1>20 DEF Known, Client
<1>41. Callback'
  <2>1. \A i \in 1 .. N : Len(front[i]) = 1
    <3> SUFFICES ASSUME NEW i \in 1 .. N PROVE Len(front[i]) = 1
      OBVIOUS
    <3>1. PICK x : front[i] = <<x>>
      BY <1>25
    <3> QED
      BY <3>1
  <2> QED
    BY <2>1, <1>12, <1>18, <1>21, <1>22 DEF Callback
<1>42. PoolInCallback'
  BY <1>12, <1>21, Parts, DownFields DEF PoolInCallback, Lists
<1>43. Known(to_nat[s], "request_ack") => Known(to_nat[s], "request_ack")'
  BY <1>12 DEF Known, Client
<1>44. Open(s) /\ Open(s)'
  BY <1>12, <1>22 DEF Open
<1> QED
  BY <1>12, <1>20, <1>21, <1>22, <1>23, <1>28, <1>29, <1>33, <1>34, <1>35, <1>38, <1>39, <1>40,
     <1>41, <1>42, <1>43, <1>44, SocketStep

-----------------------------------------------------------------------------
(* The invariant, and what it implies *)

LEMMA InitInv == Init => SessionInv
<1> SUFFICES ASSUME Init PROVE SessionInv
  OBVIOUS
<1>1. /\ wan_addrs_list = << >> /\ natporte_message = [s \in Sockets |-> <<>>] /\ server = Idle
      /\ to_pool = [s \in Sockets |-> <<>>] /\ to_nat = [s \in Sockets |-> <<>>]
      /\ natporte = [p \in Natportes |-> Down]
  BY DEF Init
<1>2. tcpDB!IInv /\ udpDB!IInv /\ tcp_addrs = <<>> /\ udp_addrs = <<>>
  <2>1. tcpDB!Init /\ udpDB!Init
    BY DEF Init
  <2>2. TcpServer!Init /\ UdpServer!Init /\ tcp_addrs = <<>> /\ udp_addrs = <<>>
    BY <2>1 DEF tcpDB!Init, udpDB!Init, TcpServer!Init, UdpServer!Init
  <2> QED
    BY <2>2, DatabasesBegin
<1>3. DOMAIN wan_addrs_list = {} /\ \A s \in Sockets : ~Listed(s) /\ ~Open(s)
  BY <1>1 DEF Listed, Open
<1>4. Types
  <2>1. Down \in NatporteTypes
    BY DEF Down, NatporteTypes
  <2>2. Idle \in ServerTypes
    BY DEF Idle, ServerTypes
  <2>3. wan_addrs_list \in [DOMAIN wan_addrs_list -> Seq(WanAddrs)] /\ DOMAIN wan_addrs_list \subseteq Sockets
    BY <1>1
  <2> QED
    BY <2>1, <2>2, <2>3, <1>1 DEF Types, NatporteTypes, ServerTypes
<1>5. Callback /\ OwnSockets /\ FramedToNat
  BY <1>1, DownFields DEF Callback, OwnSockets, FramedToNat
<1>6. FramedToPool
  BY <1>1, <1>3 DEF FramedToPool, Framed
<1>7. \A p \in Natportes : ~Connected(p)
  BY <1>1 DEF Connected
<1>8. WholeToPool
  BY <1>7 DEF WholeToPool
<1>9. InitializeFirst
  BY <1>1, <1>3, DownFields DEF InitializeFirst, FirstLine, FirstKept, FirstUnread
<1>10. ClientsKnown
  BY <1>1, <1>3, <1>7, DownFields DEF ClientsKnown, LinesKnown, Known
<1>11. PoolInCallback
  <2>1. Range(tcp_addrs) = {} /\ Lists = {}
    BY <1>2, <1>3 DEF Range, Lists
  <2> QED
    BY <2>1, <1>1, <1>2, DownFields DEF PoolInCallback
<1> QED
  BY <1>2, <1>4, <1>5, <1>6, <1>8, <1>9, <1>10, <1>11 DEF SessionInv

LEMMA StutterStep ==
  ASSUME SessionInv, UNCHANGED vars
  PROVE  SessionInv'
<1>1. /\ UNCHANGED <<tcpVars, udpVars, natporte, natporte_message, wan_addrs_list, server, to_pool, to_nat>>
      /\ UNCHANGED <<tcp_addrs, udp_addrs>> /\ ClientsGrow
  BY DEF vars, sessionVars, tcpVars, udpVars, ClientsGrow
<1>2. tcpDB!IInv' /\ udpDB!IInv'
  BY <1>1, Parts, TcpKept, UdpKept
<1>3. Types' /\ DOMAIN wan_addrs_list' = DOMAIN wan_addrs_list
  BY <1>1, Parts DEF Types
<1>4. Callback' /\ PoolInCallback'
  BY <1>1, Parts, CallbackKept, PoolInCallbackKept
<1>5. /\ FirstLine' /\ LinesKnown'
      /\ \A s \in DOMAIN wan_addrs_list : Unnamed(s) => Unnamed(s)'
  BY <1>1, SameLinesStep
<1> QED
  BY <1>1, <1>2, <1>3, <1>4, <1>5, CallbackStep

LEMMA NextStep ==
  ASSUME SessionInv, [Next]_vars
  PROVE  SessionInv'
<1>1. CASE UNCHANGED vars
  BY <1>1, StutterStep
<1>2. CASE Next
  <2>1. ASSUME NEW s \in Sockets, Connect(s) \/ ServerData(s) \/ End(s) \/ ServerDies(s)
        PROVE  SessionInv'
    BY <2>1, ConnectStep, ServerDataStep, EndStep, ServerDiesStep
  <2>2. CASE LoopEnds \/ Request \/ Release
    BY <2>2, LoopEndsStep, RequestStep, ReleaseStep
  <2>3. CASE Name \/ AddAddress \/ Named
    BY <2>3, NameStep, AddAddressStep, NamedStep
  <2>4. CASE DeleteAddress \/ Ended
    BY <2>4, DeleteAddressStep, EndedStep
  <2>5. ASSUME NEW p \in Natportes, Natporte(p)
        PROVE  SessionInv'
    <3>1. ASSUME NEW s \in Sockets, Start(p, s)
          PROVE  SessionInv'
      BY <3>1, StartStep
    <3>2. ASSUME NEW m \in Orders(p), Order(p, m)
          PROVE  SessionInv'
      BY <3>2, OrderStep
    <3>3. CASE Receive(p)
      BY <3>3, ReceiveStep
    <3>4. CASE Exit(p)
      BY <3>4, ExitStep
    <3> QED
      BY <2>5, <3>1, <3>2, <3>3, <3>4 DEF Natporte
  <2> QED
    BY <1>2, <2>1, <2>2, <2>3, <2>4, <2>5 DEF Next, Server
<1> QED
  BY <1>1, <1>2

\* In every reachable state the streams are framed, and the callback that runs
\* has a connection, lines that are messages, and the pool half done.
THEOREM SessionInvariance == Spec => []SessionInv
<1>1. Init => SessionInv
  BY InitInv
<1>2. SessionInv /\ [Next]_vars => SessionInv'
  BY NextStep
<1> QED
  BY <1>1, <1>2, PTL DEF Spec

\* The two databases, the lists of the connections and the natportes have
\* their types, and the server works for a connection that it has unless it
\* is at the end of that connection (bin/pool_server:210-298).
THEOREM TypeCorrect == Spec => []TypeOK
<1>1. SessionInv => TypeOK
  <2> SUFFICES ASSUME SessionInv PROVE TypeOK
    OBVIOUS
  <2>1. tcpDB!TypeOK /\ udpDB!TypeOK
    BY Parts DEF tcpDB!IInv, udpDB!IInv
  <2>2. DOMAIN wan_addrs_list \subseteq Sockets /\ Range(wan_addrs_list) \subseteq Seq(WanAddrs)
    BY Parts DEF Types, Range
  <2>3. server.pc \in {"idle", "lines", "adding", "deleting"}
    BY Parts, ServerFields
  <2>4. server # Idle => (server.pc # "deleting" <=> Listed(server.socket))
    BY <2>3, Parts DEF Callback
  <2>5. \A p \in Natportes : natporte[p].socket \in Sockets \cup {undefined} /\ natporte[p].table \subseteq Held
    BY Parts, NatporteFields
  <2> QED
    BY <2>1, <2>2, <2>3, <2>4, <2>5 DEF TypeOK
<1> QED
  BY <1>1, SessionInvariance, PTL

\* Between two callbacks both pools hold exactly the addresses of the
\* natportes that are connected, whatever connections overlap and however their
\* ends are ordered (bin/pool_server:264-281, 392-406).
THEOREM PoolFollows == Spec => []PoolFollowsSessions
<1>1. SessionInv => PoolFollowsSessions
  <2> SUFFICES ASSUME SessionInv, server = Idle
               PROVE  Range(tcp_addrs) = Lists /\ udp_addrs = tcp_addrs
    BY DEF PoolFollowsSessions, Lists
  <2> QED
    BY Parts, DownFields DEF PoolInCallback
<1> QED
  BY <1>1, SessionInvariance, PTL

\* However the streams are cut, no line is empty or holds two messages, no
\* release names a client without a key, which would throw, and nothing that
\* is kept begins with a newline (utils.hpp:399-402, addrpool.h:148-150, 565,
\* bin/pool_server:231, bin/entry.js:362-363).
THEOREM LinesUnderstood == Spec => []EveryLineUnderstood
<1>1. SessionInv => EveryLineUnderstood
  <2> SUFFICES ASSUME SessionInv PROVE EveryLineUnderstood
    OBVIOUS
  <2>1. ASSUME NEW i \in DOMAIN server.lines
        PROVE  ~Throws(server.lines[i])
    <3>1. Len(server.lines[i]) = 1 /\ Known(server.lines[i], "release")
      BY Parts DEF Callback, ClientsKnown, LinesKnown
    <3>2. server.lines \in Seq(Seq(UpTexts)) /\ i \in 1 .. Len(server.lines)
      BY Parts, ServerFields, LenProperties
    <3>3. server.lines[i] \in Seq(UpTexts)
      <4>1. PICK S : S = Seq(UpTexts)
        OBVIOUS
      <4>2. server.lines \in Seq(S)
        BY <3>2, <4>1
      <4> QED
        BY <3>2, <4>1, <4>2, ElementOfSeq
    <3>4. 1 \in DOMAIN server.lines[i]
      BY <3>1, <3>3, LenProperties
    <3>5. server.lines[i][1].type = "release" => Client(server.lines[i][1])
      BY <3>1, <3>4 DEF Known
    <3> QED
      BY <3>1, <3>5 DEF Throws, Client
  <2>2. ASSUME NEW s \in Sockets
        PROVE  Partial(natporte_message[s])
    <3>1. /\ natporte_message[s] \in Seq(UpTexts) /\ Len(natporte_message[s]) <= 1
          /\ DOMAIN natporte_message[s] = 1 .. Len(natporte_message[s])
      BY FramedFact, LenProperties
    <3>2. \A i \in DOMAIN natporte_message[s] : natporte_message[s][i] # NL
      BY <3>1, ElementOfSeq, EventKinds
    <3> QED
      BY <3>1, <3>2 DEF Partial, Range
  <2>3. ASSUME NEW p \in Natportes
        PROVE  Partial(natporte[p].string_buffer)
    <3>1. /\ natporte[p].string_buffer \in Seq(DownTexts)
          /\ DOMAIN natporte[p].string_buffer = 1 .. Len(natporte[p].string_buffer)
      BY Parts, NatporteFields, LenProperties
    <3>2. Len(natporte[p].string_buffer) <= 1
      <4>1. CASE natporte[p] = Down
        BY <4>1, DownFields
      <4>2. CASE natporte[p] # Down
        BY <4>2, Parts DEF FramedToNat, FramedAnswers
      <4> QED
        BY <4>1, <4>2
    <3>3. \A i \in DOMAIN natporte[p].string_buffer : natporte[p].string_buffer[i] # NL
      BY <3>1, ElementOfSeq, EventKinds
    <3> QED
      BY <3>1, <3>2, <3>3 DEF Partial, Range
  <2> QED
    BY <2>1, <2>2, <2>3 DEF EveryLineUnderstood
<1> QED
  BY <1>1, SessionInvariance, PTL
=============================================================================
