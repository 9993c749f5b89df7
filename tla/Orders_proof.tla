------------------------------ MODULE Orders_proof --------------------------
(***************************************************************************)
(* Every order of a natporte has its answer, and every connection of the   *)
(* server's databases is held by a natporte, for any number of natportes,  *)
(* connections, clients and ports, and for streams that are cut anywhere.  *)
(*                                                                         *)
(* The inductive invariants are OrdersInv and HeldInv of module            *)
(* PoolServer.  The orders and answers on their way to and from a natporte *)
(* are those that it awaits, one by one: an order goes behind the last,    *)
(* the server puts an answer in the place of its order, natporte takes the *)
(* first away, and a read only moves the cut between them.  The table of a *)
(* natporte, with the answers on their way to it taken in one by one, is   *)
(* what the server's databases hold: an order that the server handles      *)
(* changes both sides alike, and an answer that natporte takes in neither. *)
(***************************************************************************)
EXTENDS PoolServer_proof

-----------------------------------------------------------------------------
(* The orders and answers of a stream *)

FoundBy(F, stream, N) ==
    F = [i \in 0 .. N |->
           IF i = 0 THEN <<>>
           ELSE IF OfOrder(stream[i]) THEN Append(F[i - 1], stream[i]) ELSE F[i - 1]]

LEMMA FoundAt ==
  ASSUME NEW stream, NEW N \in Nat, NEW F, FoundBy(F, stream, N)
  PROVE  /\ F[0] = <<>>
         /\ \A k \in 0 .. N : k < N =>
              F[k + 1] = IF OfOrder(stream[k + 1]) THEN Append(F[k], stream[k + 1]) ELSE F[k]
<1>1. F[0] = <<>>
  BY DEF FoundBy
<1>2. ASSUME NEW k \in 0 .. N, k < N
      PROVE  F[k + 1] = IF OfOrder(stream[k + 1]) THEN Append(F[k], stream[k + 1]) ELSE F[k]
  <2>1. k + 1 \in 0 .. N /\ k + 1 # 0 /\ (k + 1) - 1 = k
    BY <1>2
  <2>2. F[k + 1] = IF k + 1 = 0 THEN <<>>
                   ELSE IF OfOrder(stream[k + 1]) THEN Append(F[(k + 1) - 1], stream[k + 1])
                        ELSE F[(k + 1) - 1]
    BY <2>1 DEF FoundBy
  <2> QED
    BY <2>1, <2>2
<1> QED
  BY <1>1, <1>2

LEMMA FoundExists ==
  ASSUME NEW stream, NEW N \in Nat
  PROVE  \E F : FoundBy(F, stream, N)
<1> DEFINE T == {k \in 0 .. N : \E F : FoundBy(F, stream, k)}
<1>1. 0 \in T
  <2> DEFINE F == [i \in 0 .. 0 |-> <<>>]
  <2>1. F = [i \in 0 .. 0 |->
               IF i = 0 THEN <<>>
               ELSE IF OfOrder(stream[i]) THEN Append(F[i - 1], stream[i]) ELSE F[i - 1]]
    OBVIOUS
  <2> HIDE DEF F
  <2>2. FoundBy(F, stream, 0)
    BY <2>1 DEF FoundBy
  <2>3. 0 \in 0 .. N
    OBVIOUS
  <2> QED
    BY <2>2, <2>3
<1>2. ASSUME NEW k \in 0 .. N, k < N, k \in T
      PROVE  k + 1 \in T
  <2>1. PICK F : FoundBy(F, stream, k)
    BY <1>2
  <2>2. PICK next : next = IF OfOrder(stream[k + 1]) THEN Append(F[k], stream[k + 1]) ELSE F[k]
    OBVIOUS
  <2> DEFINE G == [i \in 0 .. k + 1 |-> IF i = k + 1 THEN next ELSE F[i]]
  <2>3. ASSUME NEW i \in 0 .. k + 1
        PROVE  G[i] = IF i = 0 THEN <<>>
                      ELSE IF OfOrder(stream[i]) THEN Append(G[i - 1], stream[i]) ELSE G[i - 1]
    <3>1. CASE i = k + 1
      <4>1. i # 0 /\ i - 1 = k /\ k \in 0 .. k + 1 /\ k # k + 1
        BY <3>1
      <4>2. G[k] = F[k] /\ G[i] = next
        BY <3>1, <4>1
      <4> HIDE DEF G
      <4> QED
        BY <3>1, <4>1, <4>2, <2>2
    <3>2. CASE i # k + 1
      <4>1. i \in 0 .. k
        BY <3>2
      <4>2. F[i] = IF i = 0 THEN <<>>
                   ELSE IF OfOrder(stream[i]) THEN Append(F[i - 1], stream[i]) ELSE F[i - 1]
        BY <2>1, <4>1 DEF FoundBy
      <4>3. i # 0 => i - 1 \in 0 .. k + 1 /\ i - 1 # k + 1
        BY <4>1
      <4>4. G[i] = F[i] /\ (i # 0 => G[i - 1] = F[i - 1])
        BY <3>2, <4>3
      <4> HIDE DEF G
      <4> QED
        BY <4>2, <4>4
    <3> QED
      BY <3>1, <3>2
  <2>4. G = [i \in 0 .. k + 1 |-> G[i]]
    OBVIOUS
  <2> HIDE DEF G
  <2>5. FoundBy(G, stream, k + 1)
    BY <2>3, <2>4 DEF FoundBy
  <2>6. k + 1 \in 0 .. N
    BY <1>2
  <2> QED
    BY <2>5, <2>6
<1> HIDE DEF T
<1>3. 0 .. N \subseteq T
  BY <1>1, <1>2, UpTo
<1> QED
  BY <1>3 DEF T

\* The recursive function of Messages exists, and there is no other.
LEMMA MessagesBy ==
  ASSUME NEW stream, NEW N \in Nat, Len(stream) = N, NEW F, FoundBy(F, stream, N)
  PROVE  Messages(stream) = F[N]
<1> DEFINE G == CHOOSE H : FoundBy(H, stream, Len(stream))
<1>1. Messages(stream) = G[Len(stream)]
  BY DEF Messages, FoundBy
<1>2. FoundBy(G, stream, N)
  BY FoundExists
<1> HIDE DEF G
<1> DEFINE T == {k \in 0 .. N : F[k] = G[k]}
<1>3. 0 \in T
  BY <1>2, FoundAt
<1>4. ASSUME NEW k \in 0 .. N, k < N, k \in T
      PROVE  k + 1 \in T
  <2>1. k + 1 \in 0 .. N /\ F[k] = G[k]
    BY <1>4
  <2>2. F[k + 1] = IF OfOrder(stream[k + 1]) THEN Append(F[k], stream[k + 1]) ELSE F[k]
    BY <1>4, FoundAt
  <2>3. G[k + 1] = IF OfOrder(stream[k + 1]) THEN Append(G[k], stream[k + 1]) ELSE G[k]
    BY <1>2, <1>4, FoundAt
  <2> QED
    BY <2>1, <2>2, <2>3
<1> HIDE DEF T
<1>5. 0 .. N \subseteq T
  BY <1>3, <1>4, UpTo
<1>6. N \in 0 .. N
  OBVIOUS
<1> QED
  BY <1>1, <1>5, <1>6 DEF T

LEMMA FoundTypes ==
  ASSUME NEW S, NEW stream \in Seq(S), NEW N \in Nat, Len(stream) = N, NEW F, FoundBy(F, stream, N)
  PROVE  \A k \in 0 .. N : F[k] \in Seq(S)
<1> DEFINE T == {k \in 0 .. N : F[k] \in Seq(S)}
<1>1. 0 \in T
  <2>1. F[0] = <<>> /\ 0 \in 0 .. N /\ <<>> \in Seq(S)
    BY FoundAt
  <2> QED
    BY <2>1
<1>2. ASSUME NEW k \in 0 .. N, k < N, k \in T
      PROVE  k + 1 \in T
  <2>1. k + 1 \in 0 .. N /\ F[k] \in Seq(S) /\ k + 1 \in 1 .. Len(stream)
    BY <1>2
  <2>2. F[k + 1] = IF OfOrder(stream[k + 1]) THEN Append(F[k], stream[k + 1]) ELSE F[k]
    BY <1>2, FoundAt
  <2>3. stream[k + 1] \in S
    BY <2>1, ElementOfSeq
  <2>4. Append(F[k], stream[k + 1]) \in Seq(S)
    BY <2>1, <2>3, AppendProperties
  <2>5. F[k + 1] \in Seq(S)
    BY <2>1, <2>2, <2>4
  <2> QED
    BY <2>1, <2>5
<1> HIDE DEF T
<1>3. 0 .. N \subseteq T
  BY <1>1, <1>2, UpTo
<1> QED
  BY <1>3 DEF T

LEMMA MessagesType ==
  ASSUME NEW S, NEW stream \in Seq(S)
  PROVE  Messages(stream) \in Seq(S)
<1>1. PICK N : N = Len(stream)
  OBVIOUS
<1>2. N \in Nat /\ N \in 0 .. N
  BY <1>1, LenProperties
<1>3. PICK F : FoundBy(F, stream, N)
  BY <1>2, FoundExists
<1> QED
  BY <1>1, <1>2, <1>3, MessagesBy, FoundTypes

LEMMA MessagesOfOne ==
  /\ Messages(<<>>) = <<>>
  /\ \A x : Messages(<<x>>) = IF OfOrder(x) THEN <<x>> ELSE <<>>
<1>1. Messages(<<>>) = <<>>
  <2>1. PICK F : FoundBy(F, <<>>, 0)
    BY FoundExists
  <2>2. Len(<<>>) = 0
    OBVIOUS
  <2> QED
    BY <2>1, <2>2, MessagesBy, FoundAt
<1>2. ASSUME NEW x
      PROVE  Messages(<<x>>) = IF OfOrder(x) THEN <<x>> ELSE <<>>
  <2>1. PICK q : q = <<x>>
    OBVIOUS
  <2>2. Len(q) = 1 /\ q[1] = x /\ 0 + 1 = 1 /\ 0 \in 0 .. 1 /\ 0 < 1
    BY <2>1
  <2>3. PICK F : FoundBy(F, q, 1)
    BY FoundExists
  <2>4. F[0] = <<>> /\ F[0 + 1] = IF OfOrder(q[0 + 1]) THEN Append(F[0], q[0 + 1]) ELSE F[0]
    BY <2>2, <2>3, FoundAt
  <2>5. Messages(q) = F[1]
    BY <2>2, <2>3, MessagesBy
  <2>6. Append(<<>>, x) = <<x>>
    OBVIOUS
  <2> QED
    BY <2>1, <2>2, <2>4, <2>5, <2>6
<1> QED
  BY <1>1, <1>2

LEMMA MessagesConcat ==
  ASSUME NEW S, NEW s \in Seq(S), NEW t \in Seq(S)
  PROVE  Messages(s \o t) = Messages(s) \o Messages(t)
<1>1. PICK L, N : L = Len(s) /\ N = Len(t)
  OBVIOUS
<1>2. PICK q : q = s \o t
  OBVIOUS
<1>3. /\ L \in Nat /\ N \in Nat /\ q \in Seq(S) /\ Len(q) = L + N /\ L + N \in Nat
      /\ \A i \in 1 .. L + N : q[i] = IF i <= L THEN s[i] ELSE t[i - L]
  <2>1. L \in Nat /\ N \in Nat
    BY <1>1, LenProperties
  <2>2. /\ q \in Seq(S) /\ Len(q) = L + N
        /\ \A i \in 1 .. L + N : q[i] = IF i <= L THEN s[i] ELSE t[i - L]
    BY <1>1, <1>2, ConcatProperties
  <2> QED
    BY <2>1, <2>2
<1>4. PICK F : FoundBy(F, q, L + N)
  BY <1>3, FoundExists
<1>5. PICK G : FoundBy(G, s, L)
  BY <1>3, FoundExists
<1>6. PICK H : FoundBy(H, t, N)
  BY <1>3, FoundExists
<1>7. F[L] = G[L]
  <2> DEFINE T == {k \in 0 .. L : F[k] = G[k]}
  <2>1. 0 \in T
    BY <1>3, <1>4, <1>5, FoundAt
  <2>2. ASSUME NEW k \in 0 .. L, k < L, k \in T
        PROVE  k + 1 \in T
    <3>1. /\ k + 1 \in 0 .. L /\ k \in 0 .. L + N /\ k < L + N
          /\ k + 1 \in 1 .. L + N /\ k + 1 <= L /\ F[k] = G[k]
      BY <2>2, <1>3
    <3>2. F[k + 1] = IF OfOrder(q[k + 1]) THEN Append(F[k], q[k + 1]) ELSE F[k]
      <4>1. PICK K : K = L + N
        OBVIOUS
      <4>2. K \in Nat /\ k \in 0 .. K /\ k < K /\ FoundBy(F, q, K)
        BY <3>1, <4>1, <1>3, <1>4
      <4> QED
        BY <4>2, FoundAt
    <3>3. G[k + 1] = IF OfOrder(s[k + 1]) THEN Append(G[k], s[k + 1]) ELSE G[k]
      BY <2>2, <1>3, <1>5, FoundAt
    <3> QED
      BY <3>1, <3>2, <3>3, <1>3
  <2> HIDE DEF T
  <2>3. 0 .. L \subseteq T
    BY <2>1, <2>2, <1>3, UpTo
  <2>4. L \in 0 .. L
    BY <1>3
  <2> QED
    BY <2>3, <2>4 DEF T
<1>8. G[L] \in Seq(S) /\ \A k \in 0 .. N : H[k] \in Seq(S)
  <2>1. L \in 0 .. L
    BY <1>3
  <2>2. \A k \in 0 .. L : G[k] \in Seq(S)
    BY <1>1, <1>3, <1>5, FoundTypes
  <2>3. \A k \in 0 .. N : H[k] \in Seq(S)
    BY <1>1, <1>3, <1>6, FoundTypes
  <2> QED
    BY <2>1, <2>2, <2>3
<1>9. F[L + N] = G[L] \o H[N]
  <2> DEFINE T == {k \in 0 .. N : F[L + k] = G[L] \o H[k]}
  <2>1. 0 \in T
    <3>1. G[L] \o <<>> = G[L]
      BY <1>8, ConcatEmptySeq
    <3>2. H[0] = <<>>
      BY <1>3, <1>6, FoundAt
    <3>3. L + 0 = L /\ 0 \in 0 .. N
      BY <1>3
    <3> QED
      BY <3>1, <3>2, <3>3, <1>7
  <2>2. ASSUME NEW k \in 0 .. N, k < N, k \in T
        PROVE  k + 1 \in T
    <3>1. /\ k + 1 \in 0 .. N /\ L + k \in 0 .. L + N /\ L + k < L + N
          /\ L + (k + 1) = (L + k) + 1 /\ (L + k) + 1 \in 1 .. L + N /\ ~((L + k) + 1 <= L)
          /\ ((L + k) + 1) - L = k + 1 /\ k + 1 \in 1 .. N
      BY <2>2, <1>3
    <3>2. F[(L + k) + 1] = IF OfOrder(q[(L + k) + 1]) THEN Append(F[L + k], q[(L + k) + 1]) ELSE F[L + k]
      <4>1. PICK K, j : K = L + N /\ j = L + k
        OBVIOUS
      <4>2. K \in Nat /\ j \in 0 .. K /\ j < K /\ FoundBy(F, q, K)
        BY <3>1, <4>1, <1>3, <1>4
      <4>3. F[j + 1] = IF OfOrder(q[j + 1]) THEN Append(F[j], q[j + 1]) ELSE F[j]
        BY <4>2, FoundAt
      <4> QED
        BY <4>1, <4>3
    <3>3. PICK x : x = t[k + 1]
      OBVIOUS
    <3>4. q[(L + k) + 1] = x
      BY <3>1, <3>3, <1>3
    <3>5. H[k + 1] = IF OfOrder(x) THEN Append(H[k], x) ELSE H[k]
      BY <2>2, <3>3, <1>3, <1>6, FoundAt
    <3>6. F[L + k] = G[L] \o H[k] /\ H[k] \in Seq(S)
      BY <2>2, <1>8
    <3>7. x \in S
      BY <3>1, <3>3, <1>1, ElementOfSeq
    <3>8. Append(G[L] \o H[k], x) = G[L] \o Append(H[k], x)
      <4>1. PICK a, b : a = G[L] /\ b = H[k]
        OBVIOUS
      <4>2. a \in Seq(S) /\ b \in Seq(S) /\ a \o b \in Seq(S) /\ <<x>> \in Seq(S)
        BY <4>1, <3>6, <3>7, <1>8, ConcatProperties
      <4>3. Append(a \o b, x) = (a \o b) \o <<x>> /\ Append(b, x) = b \o <<x>>
        BY <4>2, <3>7, AppendIsConcat
      <4>4. (a \o b) \o <<x>> = a \o (b \o <<x>>)
        BY <4>2, ConcatAssociative
      <4> QED
        BY <4>1, <4>3, <4>4
    <3>9. F[(L + k) + 1] = G[L] \o H[k + 1]
      <4>1. CASE OfOrder(x)
        BY <4>1, <3>2, <3>4, <3>5, <3>6, <3>8
      <4>2. CASE ~OfOrder(x)
        BY <4>2, <3>2, <3>4, <3>5, <3>6
      <4> QED
        BY <4>1, <4>2
    <3> QED
      BY <3>1, <3>9
  <2> HIDE DEF T
  <2>3. 0 .. N \subseteq T
    BY <2>1, <2>2, <1>3, UpTo
  <2>4. N \in 0 .. N
    BY <1>3
  <2> QED
    BY <2>3, <2>4 DEF T
<1>10. Messages(q) = F[L + N] /\ Messages(s) = G[L] /\ Messages(t) = H[N]
  BY <1>1, <1>3, <1>4, <1>5, <1>6, MessagesBy
<1> QED
  BY <1>2, <1>7, <1>9, <1>10

LEMMA NewlineNoOrder == ~OfOrder(NL)
BY EventKinds DEF OfOrder

\* The texts of a stream in which texts and newlines take turns.
LEMMA MessagesOfTexts ==
  ASSUME NEW U, NEW all \in Seq(U), NEW n \in Nat, NEW T, Len(T) = n,
         \A i \in 1 .. n : T[i] = all[2 * i - 1] /\ all[2 * i] = NL,
         Len(all) = 2 * n \/ Len(all) = 2 * n + 1
  PROVE  Messages(all) = Messages(T) \o
           Messages(IF Len(all) = 2 * n THEN <<>> ELSE <<all[2 * n + 1]>>)
<1>1. PICK N : N = Len(all)
  OBVIOUS
<1>2. N \in Nat /\ 2 * n \in 0 .. N /\ (N = 2 * n \/ N = 2 * n + 1)
  BY <1>1
<1>3. PICK F : FoundBy(F, all, N)
  BY <1>2, FoundExists
<1>4. PICK G : FoundBy(G, T, n)
  BY FoundExists
<1>0. \A i \in 0 .. N : i < N => F[i + 1] = IF OfOrder(all[i + 1]) THEN Append(F[i], all[i + 1]) ELSE F[i]
  BY <1>2, <1>3, FoundAt
<1> DEFINE K == {k \in 0 .. n : F[2 * k] = G[k]}
<1>5. 0 \in K
  <2>1. F[0] = <<>> /\ G[0] = <<>>
    BY <1>2, <1>3, <1>4, FoundAt
  <2>2. 2 * 0 = 0 /\ 0 \in 0 .. n
    OBVIOUS
  <2> QED
    BY <2>1, <2>2
<1>6. ASSUME NEW k \in 0 .. n, k < n, k \in K
      PROVE  k + 1 \in K
  <2>1. PICK a, b : a = 2 * k /\ b = a + 1
    OBVIOUS
  <2>2. /\ a \in 0 .. N /\ a < N /\ b \in 0 .. N /\ b < N /\ k + 1 \in 0 .. n /\ k + 1 \in 1 .. n
        /\ 2 * (k + 1) = b + 1 /\ 2 * (k + 1) - 1 = a + 1
    BY <1>2, <1>6, <2>1
  <2>3. F[a + 1] = IF OfOrder(all[a + 1]) THEN Append(F[a], all[a + 1]) ELSE F[a]
    <3>1. a \in 0 .. N /\ a < N
      BY <2>2
    <3> QED
      BY <3>1, <1>0
  <2>4. F[b + 1] = IF OfOrder(all[b + 1]) THEN Append(F[b], all[b + 1]) ELSE F[b]
    <3>1. b \in 0 .. N /\ b < N
      BY <2>2
    <3> QED
      BY <3>1, <1>0
  <2>5. G[k + 1] = IF OfOrder(T[k + 1]) THEN Append(G[k], T[k + 1]) ELSE G[k]
    BY <1>4, <1>6, FoundAt
  <2>6. T[k + 1] = all[a + 1] /\ all[b + 1] = NL
    <3>1. T[k + 1] = all[2 * (k + 1) - 1] /\ all[2 * (k + 1)] = NL
      BY <2>2
    <3> QED
      BY <3>1, <2>2
  <2>7. F[a] = G[k]
    BY <2>1, <1>6
  <2>8. F[b + 1] = F[b]
    BY <2>4, <2>6, NewlineNoOrder
  <2>9. F[b] = G[k + 1]
    BY <2>1, <2>3, <2>5, <2>6, <2>7
  <2>10. F[2 * (k + 1)] = G[k + 1]
    BY <2>2, <2>8, <2>9
  <2> QED
    BY <2>2, <2>10
<1> HIDE DEF K
<1>7. 0 .. n \subseteq K
  BY <1>5, <1>6, UpTo
<1>8. F[2 * n] = G[n]
  <2>1. n \in 0 .. n
    OBVIOUS
  <2> QED
    BY <2>1, <1>7 DEF K
<1>9. Messages(all) = F[N] /\ Messages(T) = G[n]
  BY <1>1, <1>2, <1>3, <1>4, MessagesBy
<1>10. \A i \in 0 .. N : F[i] \in Seq(U)
  BY <1>1, <1>2, <1>3, FoundTypes
<1>11. G[n] \in Seq(U)
  BY <1>2, <1>8, <1>10
<1>12. CASE N = 2 * n
  <2>1. G[n] \o <<>> = G[n]
    BY <1>11, ConcatEmptySeq
  <2> QED
    BY <2>1, <1>1, <1>8, <1>9, <1>12, MessagesOfOne
<1>13. CASE N = 2 * n + 1
  <2>1. PICK a, x : a = 2 * n /\ x = all[2 * n + 1]
    OBVIOUS
  <2>2. a \in 0 .. N /\ a < N /\ N = a + 1 /\ N # 2 * n
    BY <2>1, <1>2, <1>13
  <2>3. F[a + 1] = IF OfOrder(all[a + 1]) THEN Append(F[a], all[a + 1]) ELSE F[a]
    BY <2>2, <1>2, <1>3, FoundAt
  <2>4. F[N] = IF OfOrder(x) THEN Append(G[n], x) ELSE G[n]
    BY <2>1, <2>2, <2>3, <1>8
  <2>5. x \in U
    <3>1. 2 * n + 1 \in 1 .. Len(all)
      BY <1>1, <1>13
    <3> QED
      BY <3>1, <2>1, ElementOfSeq
  <2>6. G[n] \o <<>> = G[n] /\ Append(G[n], x) = G[n] \o <<x>>
    BY <2>5, <1>11, ConcatEmptySeq, AppendIsConcat
  <2>7. Messages(<<x>>) = IF OfOrder(x) THEN <<x>> ELSE <<>>
    BY MessagesOfOne
  <2>8. F[N] = G[n] \o Messages(<<x>>)
    <3>1. CASE OfOrder(x)
      BY <3>1, <2>4, <2>6, <2>7
    <3>2. CASE ~OfOrder(x)
      BY <3>2, <2>4, <2>6, <2>7
    <3> QED
      BY <3>1, <3>2
  <2> QED
    BY <2>1, <2>2, <2>8, <1>1, <1>9
<1> QED
  BY <1>2, <1>12, <1>13

LEMMA FunctionSeq ==
  ASSUME NEW U, NEW n \in Nat, NEW T \in [1 .. n -> U]
  PROVE  Len(T) = n /\ T \in Seq(U)
OBVIOUS

LEMMA LastPlace ==
  ASSUME NEW n \in Nat, NEW N \in Nat, N = 2 * n \/ N = 2 * n + 1
  PROVE  2 * (n + 1) - 1 = 2 * n + 1 /\ (2 * (n + 1) - 1 <= N <=> N # 2 * n)
OBVIOUS

LEMMA OneOrNone ==
  ASSUME NEW U, NEW q, q = <<>> \/ \E x \in U : q = <<x>>
  PROVE  q \in Seq(U)
<1>1. CASE q = <<>>
  BY <1>1
<1>2. ASSUME NEW x \in U, q = <<x>>
      PROVE  q \in Seq(U)
  BY <1>2
<1> QED
  BY <1>1, <1>2

Regrouped(a, b, c, d, e) == a \o b = d \o e => a \o (b \o c) = d \o (e \o c)

LEMMA Regroup ==
  ASSUME NEW U, NEW a \in Seq(U), NEW b \in Seq(U), NEW c \in Seq(U), NEW d \in Seq(U),
         NEW e \in Seq(U)
  PROVE  Regrouped(a, b, c, d, e)
<1>1. (a \o b) \o c = a \o (b \o c)
  BY ConcatAssociative
<1>2. (d \o e) \o c = d \o (e \o c)
  BY ConcatAssociative
<1>3. a \o b = d \o e => (a \o b) \o c = (d \o e) \o c
  OBVIOUS
<1> QED
  BY <1>1, <1>2, <1>3 DEF Regrouped

\* A read takes no message away and changes no order: those of the lines, of
\* the last of them, and of what was not read, are those that were there.
MessagesKept(S, U, kept, stream, k, lines, n, T) ==
    /\ T \in Seq(U) /\ Last(lines) \in Seq(U) /\ SubSeq(stream, k + 1, Len(stream)) \in Seq(U)
    /\ Messages(kept) \o Messages(stream) =
         Messages(T) \o (Messages(Last(lines)) \o Messages(SubSeq(stream, k + 1, Len(stream))))

LEMMA MessagesOfRead ==
  ASSUME NEW S, NL \notin S, NEW kept \in Seq(S), Len(kept) <= 1,
         NEW U, S \subseteq U, NL \in U, NEW stream \in Seq(U), NEW k \in 1 .. Len(stream),
         \A i \in 1 .. k : stream[i] \in S \cup {NL},
         \A i \in 1 .. k : stream[i] = NL <=> Even(i + Len(kept)),
         NEW lines, lines = split(kept \o SubSeq(stream, 1, k)),
         NEW n, n = (k + Len(kept)) \div 2, NEW T, T = [i \in 1 .. n |-> Head(lines[i])]
  PROVE  MessagesKept(S, U, kept, stream, k, lines, n, T)
<1>1. PICK all, N, rest, part : /\ all = kept \o part /\ N = k + Len(kept)
                                /\ rest = SubSeq(stream, k + 1, Len(stream))
                                /\ part = SubSeq(stream, 1, k)
  OBVIOUS
<1>2. ReadAs(S, kept, stream, k, kept \o SubSeq(stream, 1, k))
  BY ReadTexts
<1>3. /\ k \in Nat \ {0} /\ N \in Nat /\ Len(all) = N
      /\ all \in Seq(S \cup {NL}) /\ \A i \in 1 .. N : all[i] = NL <=> Even(i)
  BY <1>1, <1>2 DEF ReadAs
<1>4. n \in Nat /\ (Even(N) => N = 2 * n) /\ (~Even(N) => N = 2 * n + 1) /\ n = N \div 2
  BY <1>1, <1>3, HalfFact
<1>5. lines = [j \in 1 .. n + 1 |-> IF 2 * j - 1 <= N THEN <<all[2 * j - 1]>> ELSE <<>>]
  <2>1. lines = After(all, N)
    BY <1>1, <1>3, SplitTexts
  <2> QED
    BY <2>1, <1>4 DEF After
<1>6. kept \in Seq(U) /\ all \in Seq(U) /\ part \in Seq(U) /\ rest \in Seq(U)
  <2>1. kept \in Seq(U) /\ all \in Seq(U)
    BY <1>3
  <2>2. Len(stream) \in Nat /\ \A i \in 1 .. Len(stream) : stream[i] \in U
    BY LenProperties, ElementOfSeq
  <2>3. /\ k \in Int /\ 1 \in Int /\ \A i \in 1 .. k : stream[i] \in U
        /\ k + 1 \in Int /\ Len(stream) \in Int /\ \A i \in k + 1 .. Len(stream) : stream[i] \in U
    BY <2>2, <1>3
  <2> QED
    BY <2>1, <2>3, <1>1, SubSeqProperties
<1>7. ASSUME NEW i \in 1 .. n
      PROVE  T[i] = all[2 * i - 1] /\ all[2 * i] = NL /\ all[2 * i - 1] \in U
  <2>1. i \in 1 .. n + 1 /\ 2 * i - 1 <= N /\ 2 * i \in 1 .. N /\ Even(2 * i) /\ 2 * i - 1 \in 1 .. N
    BY <1>3, <1>4 DEF Even
  <2>2. lines[i] = <<all[2 * i - 1]>>
    BY <2>1, <1>5
  <2>3. Head(lines[i]) = all[2 * i - 1]
    BY <2>2
  <2>4. all[2 * i - 1] \in U
    BY <2>1, <1>3, <1>6, ElementOfSeq
  <2> QED
    BY <2>1, <2>3, <2>4, <1>3
<1>8. Len(T) = n /\ T \in Seq(U)
  <2>1. T = [i \in 1 .. n |-> T[i]] /\ \A i \in 1 .. n : T[i] \in U
    BY <1>7
  <2>2. T \in [1 .. n -> U]
    BY <2>1
  <2> QED
    BY <2>2, <1>4, FunctionSeq
<1>9. /\ Last(lines) = IF N = 2 * n THEN <<>> ELSE <<all[2 * n + 1]>>
      /\ Last(lines) \in Seq(U)
  <2>1. Last(lines) = lines[n + 1]
    BY <1>4, <1>5 DEF Last
  <2>2. lines[n + 1] = IF 2 * (n + 1) - 1 <= N THEN <<all[2 * (n + 1) - 1]>> ELSE <<>>
    BY <1>4, <1>5
  <2>3. 2 * (n + 1) - 1 = 2 * n + 1 /\ (2 * (n + 1) - 1 <= N <=> N # 2 * n)
    <3>1. N = 2 * n \/ N = 2 * n + 1
      BY <1>4
    <3> QED
      BY <3>1, <1>3, <1>4, LastPlace
  <2>4. Last(lines) = IF N = 2 * n THEN <<>> ELSE <<all[2 * n + 1]>>
    BY <2>1, <2>2, <2>3
  <2>5. CASE N = 2 * n
    <3>1. Last(lines) = <<>>
      BY <2>4, <2>5
    <3> QED
      BY <3>1, <2>4, OneOrNone
  <2>6. CASE N # 2 * n
    <3>1. 2 * n + 1 \in 1 .. Len(all)
      BY <2>6, <1>3, <1>4
    <3>2. all[2 * n + 1] \in U
      BY <3>1, <1>6, ElementOfSeq
    <3>3. Last(lines) = <<all[2 * n + 1]>>
      BY <2>4, <2>6
    <3> QED
      BY <3>2, <3>3, <2>4, OneOrNone
  <2> QED
    BY <2>4, <2>5, <2>6
<1>10. Messages(all) = Messages(T) \o Messages(Last(lines))
  <2>1. Len(all) = 2 * n \/ Len(all) = 2 * n + 1
    BY <1>3, <1>4
  <2>2. Messages(all) = Messages(T) \o Messages(IF Len(all) = 2 * n THEN <<>> ELSE <<all[2 * n + 1]>>)
    BY <2>1, <1>4, <1>6, <1>7, <1>8, MessagesOfTexts
  <2> QED
    BY <2>2, <1>3, <1>9
<1>11. stream = part \o rest
  <2>1. Len(stream) \in Nat
    BY LenProperties
  <2>2. 1 \in 1 .. Len(stream) + 1 /\ k \in 1 - 1 .. Len(stream) /\ Len(stream) \in k .. Len(stream)
    BY <2>1, <1>3
  <2>3. SubSeq(stream, 1, k) \o SubSeq(stream, k + 1, Len(stream)) = SubSeq(stream, 1, Len(stream))
    BY <2>2, ConcatAdjacentSubSeq
  <2>4. SubSeq(stream, 1, Len(stream)) = stream
    BY SubSeqFull
  <2> QED
    BY <2>3, <2>4, <1>1
<1>12. PICK a, b, c, d, e : /\ a = Messages(kept) /\ b = Messages(part) /\ c = Messages(rest)
                            /\ d = Messages(T) /\ e = Messages(Last(lines))
  OBVIOUS
<1>13. /\ a \in Seq(U) /\ b \in Seq(U) /\ c \in Seq(U) /\ d \in Seq(U) /\ e \in Seq(U)
  BY <1>6, <1>8, <1>9, <1>12, MessagesType
<1>14. Messages(stream) = b \o c /\ Messages(all) = a \o b
  BY <1>1, <1>6, <1>11, <1>12, MessagesConcat
<1>15. a \o (b \o c) = d \o (e \o c)
  <2>1. Regrouped(a, b, c, d, e)
    BY <1>13, Regroup
  <2> QED
    BY <2>1, <1>10, <1>12, <1>14 DEF Regrouped
<1> QED
  BY <1>1, <1>6, <1>8, <1>9, <1>12, <1>14, <1>15 DEF MessagesKept

-----------------------------------------------------------------------------
(* Orders and answers in pairs *)

Middle(S, a, x, b, q) ==
    /\ q \in Seq(S) /\ Len(a) \in Nat /\ Len(b) \in Nat /\ Len(q) = Len(a) + Len(b) + 1
    /\ \A i \in 1 .. Len(q) :
         q[i] = IF i <= Len(a) THEN a[i] ELSE IF i = Len(a) + 1 THEN x ELSE b[i - Len(a) - 1]

LEMMA MiddleAt ==
  ASSUME NEW S, NEW a \in Seq(S), NEW b \in Seq(S), NEW x \in S, NEW q, q = a \o (<<x>> \o b)
  PROVE  Middle(S, a, x, b, q)
<1>1. PICK r : r = <<x>> \o b
  OBVIOUS
<1>2. Len(a) \in Nat /\ Len(b) \in Nat
  BY LenProperties
<1>3. <<x>> \in Seq(S) /\ Len(<<x>>) = 1 /\ <<x>>[1] = x
  OBVIOUS
<1>4. /\ r \in Seq(S) /\ Len(r) = 1 + Len(b)
      /\ \A i \in 1 .. 1 + Len(b) : r[i] = IF i <= 1 THEN <<x>>[i] ELSE b[i - 1]
  BY <1>1, <1>3, ConcatProperties
<1>5. /\ q \in Seq(S) /\ Len(q) = Len(a) + Len(r)
      /\ \A i \in 1 .. Len(a) + Len(r) : q[i] = IF i <= Len(a) THEN a[i] ELSE r[i - Len(a)]
  BY <1>1, <1>4, ConcatProperties
<1>6. Len(q) = Len(a) + Len(b) + 1
  BY <1>2, <1>4, <1>5
<1>7. ASSUME NEW i \in 1 .. Len(q)
      PROVE  q[i] = IF i <= Len(a) THEN a[i] ELSE IF i = Len(a) + 1 THEN x ELSE b[i - Len(a) - 1]
  <2>1. CASE i <= Len(a)
    BY <2>1, <1>5
  <2>2. CASE ~(i <= Len(a))
    <3>1. PICK j : j = i - Len(a)
      OBVIOUS
    <3>2. j \in 1 .. 1 + Len(b) /\ (i = Len(a) + 1 <=> j <= 1) /\ (j <= 1 => j = 1) /\ i - Len(a) - 1 = j - 1
      BY <2>2, <3>1, <1>2, <1>6
    <3>3. q[i] = r[j] /\ r[j] = IF j <= 1 THEN <<x>>[j] ELSE b[j - 1]
      BY <2>2, <3>1, <3>2, <1>4, <1>5
    <3> QED
      BY <2>2, <3>2, <3>3, <1>3
  <2> QED
    BY <2>1, <2>2
<1> QED
  BY <1>2, <1>5, <1>6, <1>7 DEF Middle

Spliced(a, x, b) == a \o (<<x>> \o b)

\* An answer in the place of its order.
LEMMA PairedReplace ==
  ASSUME NEW S, NEW a \in Seq(S), NEW b \in Seq(S), NEW x \in S, NEW y \in S,
         NEW O, NEW orders \in Seq(O), Paired(Spliced(a, x, b), orders),
         \A o \in O : Matches(x, o) => Matches(y, o)
  PROVE  Paired(Spliced(a, y, b), orders)
<1>0. PICK before, after : before = Spliced(a, x, b) /\ after = Spliced(a, y, b)
  OBVIOUS
<1>1. /\ Len(before) = Len(a) + Len(b) + 1 /\ Len(a) \in Nat /\ Len(b) \in Nat
      /\ \A i \in 1 .. Len(before) : before[i] =
           IF i <= Len(a) THEN a[i] ELSE IF i = Len(a) + 1 THEN x ELSE b[i - Len(a) - 1]
  <2>1. Middle(S, a, x, b, before)
    BY <1>0, MiddleAt DEF Spliced
  <2> QED
    BY <2>1 DEF Middle
<1>2. /\ Len(after) = Len(a) + Len(b) + 1
      /\ \A i \in 1 .. Len(after) : after[i] =
           IF i <= Len(a) THEN a[i] ELSE IF i = Len(a) + 1 THEN y ELSE b[i - Len(a) - 1]
  <2>1. Middle(S, a, y, b, after)
    BY <1>0, MiddleAt DEF Spliced
  <2> QED
    BY <2>1 DEF Middle
<1>3. /\ Len(before) = Len(orders) /\ DOMAIN orders = 1 .. Len(orders)
      /\ \A i \in 1 .. Len(orders) : Matches(before[i], orders[i]) /\ orders[i] \in O
  BY <1>0, LenProperties, ElementOfSeq DEF Paired
<1>4. ASSUME NEW i \in 1 .. Len(orders)
      PROVE  Matches(after[i], orders[i])
  <2>1. i \in 1 .. Len(before) /\ i \in 1 .. Len(after)
    BY <1>1, <1>2, <1>3
  <2>2. PICK z, w, o : z = before[i] /\ w = after[i] /\ o = orders[i]
    OBVIOUS
  <2>3. Matches(z, o) /\ o \in O
    BY <2>2, <1>3
  <2>4. (z = x /\ w = y) \/ w = z
    BY <2>1, <2>2, <1>1, <1>2
  <2>5. Matches(w, o)
    BY <2>3, <2>4
  <2> QED
    BY <2>2, <2>5
<1> QED
  BY <1>0, <1>1, <1>2, <1>3, <1>4 DEF Paired

\* An order behind those that wait.
LEMMA PairedAppend ==
  ASSUME NEW S, NEW a \in Seq(S), NEW x \in S, NEW O, NEW orders \in Seq(O), NEW o \in O,
         NEW after, after = a \o <<x>>, Paired(a, orders), Matches(x, o)
  PROVE  Paired(after, Append(orders, o))
<1>1. PICK L, w : L = Len(a) /\ w = Append(orders, o)
  OBVIOUS
<1>2. /\ L \in Nat /\ Len(orders) = L /\ DOMAIN orders = 1 .. L
      /\ \A i \in 1 .. L : Matches(a[i], orders[i])
  BY <1>1, LenProperties DEF Paired
<1>3. /\ w \in Seq(O) /\ Len(w) = L + 1 /\ \A i \in 1 .. L : w[i] = orders[i]
      /\ w[L + 1] = o
  BY <1>1, <1>2, AppendProperties
<1>4. <<x>> \in Seq(S) /\ Len(<<x>>) = 1 /\ <<x>>[1] = x
  OBVIOUS
<1>5. /\ Len(after) = L + 1
      /\ \A i \in 1 .. L + 1 : after[i] = IF i <= L THEN a[i] ELSE <<x>>[i - L]
  <2>1. /\ Len(after) = Len(a) + Len(<<x>>)
        /\ \A i \in 1 .. Len(a) + Len(<<x>>) : after[i] = IF i <= Len(a) THEN a[i] ELSE <<x>>[i - Len(a)]
    BY <1>4, ConcatProperties
  <2> QED
    BY <2>1, <1>1, <1>4
<1>6. ASSUME NEW i \in 1 .. L + 1
      PROVE  Matches(after[i], w[i])
  <2>1. PICK z, v : z = after[i] /\ v = w[i]
    OBVIOUS
  <2>2. CASE i \in 1 .. L
    <3>1. i <= L
      BY <2>2, <1>2
    <3>2. z = a[i] /\ v = orders[i]
      BY <2>1, <2>2, <3>1, <1>3, <1>5
    <3>3. Matches(z, v)
      BY <2>2, <3>2, <1>2
    <3> QED
      BY <2>1, <3>3
  <2>3. CASE i \notin 1 .. L
    <3>1. i = L + 1 /\ ~(i <= L) /\ i - L = 1
      BY <2>3, <1>2
    <3>2. z = x /\ v = o
      BY <2>1, <3>1, <1>3, <1>4, <1>5
    <3> QED
      BY <2>1, <3>2
  <2> QED
    BY <2>2, <2>3
<1>7. DOMAIN w = 1 .. L + 1
  BY <1>3, LenProperties
<1> QED
  BY <1>1, <1>3, <1>5, <1>6, <1>7 DEF Paired

\* What is left when the first orders were answered.
LEMMA PairedDrop ==
  ASSUME NEW S, NEW a \in Seq(S), NEW b \in Seq(S), NEW O, NEW orders \in Seq(O),
         NEW before, before = a \o b, Paired(before, orders)
  PROVE  Paired(b, SubSeq(orders, Len(a) + 1, Len(orders)))
<1>1. PICK L, M, w : L = Len(a) /\ M = Len(b) /\ w = SubSeq(orders, Len(a) + 1, Len(orders))
  OBVIOUS
<1>2. /\ L \in Nat /\ M \in Nat /\ Len(before) = L + M
      /\ \A i \in 1 .. L + M : before[i] = IF i <= L THEN a[i] ELSE b[i - L]
  BY <1>1, LenProperties, ConcatProperties
<1>3. /\ Len(orders) = L + M /\ DOMAIN orders = 1 .. L + M
      /\ \A i \in 1 .. L + M : Matches(before[i], orders[i]) /\ orders[i] \in O
  <2>1. Len(orders) = L + M
    BY <1>2 DEF Paired
  <2> QED
    BY <2>1, LenProperties, ElementOfSeq DEF Paired
<1>4. /\ w \in Seq(O) /\ Len(w) = M /\ \A i \in 1 .. M : w[i] = orders[L + i]
  <2>1. w = SubSeq(orders, L + 1, L + M)
    BY <1>1, <1>3
  <2>2. L + 1 \in Int /\ L + M \in Int /\ \A i \in L + 1 .. L + M : orders[i] \in O
    <3>1. L + 1 \in Int /\ L + M \in Int /\ \A i \in L + 1 .. L + M : i \in 1 .. L + M
      BY <1>2
    <3> QED
      BY <3>1, <1>3
  <2>3. /\ w \in Seq(O) /\ Len(w) = IF L + 1 <= L + M THEN (L + M) - (L + 1) + 1 ELSE 0
        /\ \A i \in 1 .. (L + M) - (L + 1) + 1 : w[i] = orders[(L + 1) + i - 1]
    BY <2>1, <2>2, SubSeqProperties
  <2>4. /\ (L + M) - (L + 1) + 1 = M /\ (L + 1 <= L + M \/ M = 0)
        /\ \A i \in 1 .. M : (L + 1) + i - 1 = L + i
    BY <1>2
  <2> QED
    BY <2>3, <2>4
<1>5. ASSUME NEW i \in 1 .. M
      PROVE  Matches(b[i], w[i])
  <2>1. L + i \in 1 .. L + M /\ ~(L + i <= L) /\ (L + i) - L = i
    BY <1>2
  <2>2. before[L + i] = b[i] /\ w[i] = orders[L + i] /\ Matches(before[L + i], orders[L + i])
    BY <2>1, <1>2, <1>3, <1>4
  <2> QED
    BY <2>2
<1>6. DOMAIN w = 1 .. M
  BY <1>4, LenProperties
<1> QED
  BY <1>1, <1>4, <1>5, <1>6 DEF Paired

-----------------------------------------------------------------------------
(* What is on its way, part by part *)

Tokens == UpTexts \cup DownTexts \cup {NL} \cup Events

Way(kept, down, lines, part, up) ==
    Messages(kept) \o (Messages(down) \o (Messages(lines) \o (Messages(part) \o Messages(up))))

WayAt(p) ==
    LET s == natporte[p].socket
    IN  Way(natporte[p].string_buffer, to_nat[s], LinesOf(s), natporte_message[s], to_pool[s])

Answered(p) == Connected(p) => Paired(WayAt(p), natporte[p].awaited)

Grouped(a, b, c) == (a \o b) \o c = a \o (b \o c)

LEMMA GroupedFact ==
  ASSUME NEW U, NEW a \in Seq(U), NEW b \in Seq(U), NEW c \in Seq(U)
  PROVE  Grouped(a, b, c)
BY ConcatAssociative DEF Grouped

LEMMA WayParts ==
  ASSUME NEW U, NEW a \in Seq(U), NEW b \in Seq(U), NEW c \in Seq(U), NEW d \in Seq(U), NEW e \in Seq(U)
  PROVE  Messages(a \o b \o c \o d \o e) = Way(a, b, c, d, e)
<1>1. PICK v, w, x : v = a \o b /\ w = v \o c /\ x = w \o d
  OBVIOUS
<1>2. v \in Seq(U) /\ w \in Seq(U) /\ x \in Seq(U)
  <2>1. v \in Seq(U)
    BY <1>1, ConcatProperties
  <2>2. w \in Seq(U)
    BY <1>1, <2>1, ConcatProperties
  <2> QED
    BY <1>1, <2>1, <2>2, ConcatProperties
<1>3. PICK ma, mb, mc, md, me : /\ ma = Messages(a) /\ mb = Messages(b) /\ mc = Messages(c)
                                /\ md = Messages(d) /\ me = Messages(e)
  OBVIOUS
<1>4. ma \in Seq(U) /\ mb \in Seq(U) /\ mc \in Seq(U) /\ md \in Seq(U) /\ me \in Seq(U)
  BY <1>3, MessagesType
<1>5. Messages(v) = ma \o mb /\ Messages(w) = Messages(v) \o mc
  BY <1>1, <1>2, <1>3, MessagesConcat
<1>6. Messages(x) = Messages(w) \o md /\ Messages(x \o e) = Messages(x) \o me
  BY <1>1, <1>2, <1>3, MessagesConcat
<1>7. Messages(x \o e) = (((ma \o mb) \o mc) \o md) \o me
  BY <1>5, <1>6
<1>8. (((ma \o mb) \o mc) \o md) \o me = ma \o (mb \o (mc \o (md \o me)))
  <2>1. ma \o mb \in Seq(U) /\ md \o me \in Seq(U)
    BY <1>4, ConcatProperties
  <2>2. (ma \o mb) \o mc \in Seq(U) /\ mc \o (md \o me) \in Seq(U)
    BY <1>4, <2>1, ConcatProperties
  <2>3. Grouped((ma \o mb) \o mc, md, me)
    BY <1>4, <2>2, GroupedFact
  <2>4. Grouped(ma \o mb, mc, md \o me)
    BY <1>4, <2>1, GroupedFact
  <2>5. Grouped(ma, mb, mc \o (md \o me))
    BY <1>4, <2>2, GroupedFact
  <2> QED
    BY <2>3, <2>4, <2>5, Zenon DEF Grouped
<1> QED
  BY <1>1, <1>3, <1>7, <1>8 DEF Way

LEMMA LinesOfFact ==
  ASSUME SessionInv, NEW s \in Sockets
  PROVE  /\ LinesOf(s) \in Seq(Tokens)
         /\ server.socket # s \/ server.lines = <<>> => LinesOf(s) = <<>>
         /\ server.socket = s => LinesOf(s) = [i \in 1 .. Len(server.lines) |-> server.lines[i][1]]
<1>1. PICK q : q = server.lines
  OBVIOUS
<1>2. PICK n : n = Len(q)
  OBVIOUS
<1>3. /\ q \in Seq(Seq(UpTexts)) /\ n \in Nat /\ DOMAIN q = 1 .. n
      /\ \A i \in 1 .. n : q[i] \in Seq(UpTexts) /\ Len(q[i]) = 1
  <2>1. PICK S : S = Seq(UpTexts)
    OBVIOUS
  <2>2. q \in Seq(S)
    BY <1>1, <2>1, Parts, ServerFields
  <2>3. n \in Nat /\ DOMAIN q = 1 .. n /\ \A i \in 1 .. n : q[i] \in S
    BY <1>2, <2>2, LenProperties, ElementOfSeq
  <2>4. \A i \in DOMAIN q : Len(q[i]) = 1
    BY <1>1, Parts DEF Callback
  <2> QED
    BY <2>1, <2>2, <2>3, <2>4
<1>4. ASSUME NEW i \in 1 .. n
      PROVE  q[i] # <<>> /\ Head(q[i]) = q[i][1] /\ q[i][1] \in Tokens
  <2>1. PICK x : x = q[i]
    OBVIOUS
  <2>2. x \in Seq(UpTexts) /\ Len(x) = 1
    BY <2>1, <1>3
  <2>3. x # <<>>
    <3>1. x = <<>> => Len(x) = 0
      OBVIOUS
    <3> QED
      BY <2>2, <3>1
  <2>4. Head(x) = x[1] /\ x[1] \in UpTexts
    BY <2>2, <2>3, TailFact
  <2> QED
    BY <2>1, <2>3, <2>4 DEF Tokens
<1>5. CASE server.socket # s
  BY <1>5 DEF LinesOf
<1>6. CASE server.socket = s
  <2> DEFINE r == [i \in 1 .. n |-> q[i][1]]
  <2>1. LinesOf(s) = [i \in 1 .. n |-> IF q[i] = <<>> THEN NL ELSE Head(q[i])]
    BY <1>1, <1>3, <1>6 DEF LinesOf
  <2>2. LinesOf(s) = r
    BY <2>1, <1>4
  <2>3. r \in [1 .. n -> Tokens]
    BY <1>4
  <2>4. r \in Seq(Tokens)
    <3> HIDE DEF r
    <3> QED
      BY <2>3, <1>3, FunctionSeq
  <2>5. q = <<>> => r = <<>>
    <3>1. q = <<>> => n = 0
      BY <1>2
    <3>2. n = 0 => r = <<>>
      OBVIOUS
    <3> QED
      BY <3>1, <3>2
  <2> HIDE DEF r
  <2>6. server.lines = <<>> => LinesOf(s) = <<>>
    BY <2>2, <2>5, <1>1
  <2>7. LinesOf(s) = [i \in 1 .. Len(server.lines) |-> server.lines[i][1]]
    BY <2>2, <1>1, <1>2 DEF r
  <2> QED
    BY <2>2, <2>4, <2>6, <2>7, <1>6
<1> QED
  BY <1>5, <1>6

LEMMA TokensFact ==
  ASSUME Types, NEW s \in Sockets
  PROVE  /\ to_nat[s] \in Seq(Tokens) /\ natporte_message[s] \in Seq(Tokens) /\ to_pool[s] \in Seq(Tokens)
         /\ to_nat[s] \in Seq(DownTexts \cup {NL}) /\ to_pool[s] \in Seq(UpTexts \cup {NL} \cup Events)
         /\ natporte_message[s] \in Seq(UpTexts)
<1>1. /\ to_nat[s] \in Seq(DownTexts \cup {NL}) /\ natporte_message[s] \in Seq(UpTexts)
      /\ to_pool[s] \in Seq(UpTexts \cup {NL} \cup Events)
  BY DEF Types
<1>2. ASSUME NEW A, A \subseteq Tokens, NEW q \in Seq(A)
      PROVE  q \in Seq(Tokens)
  <2>1. PICK U : U = Tokens
    OBVIOUS
  <2>2. q \in Seq(U)
    BY <1>2, <2>1
  <2> QED
    BY <2>1, <2>2
<1>3. /\ DownTexts \cup {NL} \subseteq Tokens /\ UpTexts \subseteq Tokens
      /\ UpTexts \cup {NL} \cup Events \subseteq Tokens
  BY DEF Tokens
<1> QED
  BY <1>1, <1>2, <1>3

LEMMA KeptTokens ==
  ASSUME Types, NEW p \in Natportes
  PROVE  natporte[p].string_buffer \in Seq(Tokens)
<1>1. PICK U : U = Tokens
  OBVIOUS
<1>2. PICK q : q = natporte[p].string_buffer
  OBVIOUS
<1>3. q \in Seq(DownTexts) /\ DownTexts \subseteq U
  BY <1>1, <1>2, NatporteFields DEF Tokens
<1>4. q \in Seq(U)
  BY <1>3
<1> QED
  BY <1>1, <1>2, <1>4

\* What a natporte has on its way, if it runs.
LEMMA WayFact ==
  ASSUME SessionInv, NEW p \in Natportes, natporte[p] # Down
  PROVE  OnTheWay(p) = WayAt(p)
<1>1. PICK s \in Sockets : s = natporte[p].socket
  BY Parts, RunningSocket
<1>2. PICK a, b, c, d, e : /\ a = natporte[p].string_buffer /\ b = to_nat[s] /\ c = LinesOf(s)
                           /\ d = natporte_message[s] /\ e = to_pool[s]
  OBVIOUS
<1>3. PICK U : U = Tokens
  OBVIOUS
<1>4. a \in Seq(U) /\ b \in Seq(U) /\ c \in Seq(U) /\ d \in Seq(U) /\ e \in Seq(U)
  BY <1>2, <1>3, Parts, TokensFact, KeptTokens, LinesOfFact
<1>5. Messages(a \o b \o c \o d \o e) = Way(a, b, c, d, e)
  BY <1>4, WayParts
<1> QED
  BY <1>1, <1>2, <1>5 DEF OnTheWay, WayAt

LEMMA AnsweredFact == SessionInv => (EveryOrderAnswered <=> \A p \in Natportes : Answered(p))
<1> SUFFICES ASSUME SessionInv PROVE EveryOrderAnswered <=> \A p \in Natportes : Answered(p)
  OBVIOUS
<1>1. ASSUME NEW p \in Natportes, Connected(p)
      PROVE  OnTheWay(p) = WayAt(p)
  BY <1>1, WayFact DEF Connected
<1> QED
  BY <1>1 DEF EveryOrderAnswered, Answered

-----------------------------------------------------------------------------
(* What a step leaves on its way *)

AllAnswered == EndsFramed /\ \A p \in Natportes : Answered(p)

LEMMA EndFramedKept ==
  ASSUME NEW s \in Sockets, EndFramed(s), Listed(s)' <=> Listed(s),
         to_pool'[s] = to_pool[s], natporte_message'[s] = natporte_message[s]
  PROVE  EndFramed(s)'
<1>1. Phase(s)' = Phase(s)
  BY DEF Phase
<1> QED
  BY <1>1 DEF EndFramed

LEMMA LinesOfKept ==
  ASSUME NEW s, server'.socket = server.socket, server'.lines = server.lines
  PROVE  LinesOf(s)' = LinesOf(s)
BY DEF LinesOf

LEMMA NoLines ==
  ASSUME NEW s, server.socket # s \/ server.lines = <<>>
  PROVE  LinesOf(s) = <<>>
<1>1. CASE server.socket # s
  BY <1>1 DEF LinesOf
<1>2. CASE server.lines = <<>>
  <2>1. PICK q : q = server.lines
    OBVIOUS
  <2>2. [i \in DOMAIN q |-> IF q[i] = <<>> THEN NL ELSE Head(q[i])] = <<>>
    BY <2>1, <1>2
  <2> QED
    BY <2>1, <2>2 DEF LinesOf
<1> QED
  BY <1>1, <1>2

LEMMA NoLinesLater ==
  ASSUME NEW s, server'.socket # s \/ server'.lines = <<>>
  PROVE  LinesOf(s)' = <<>>
<1>1. CASE server'.socket # s
  BY <1>1 DEF LinesOf
<1>2. CASE server'.lines = <<>>
  <2>1. PICK q : q = server'.lines
    OBVIOUS
  <2>2. [i \in DOMAIN q |-> IF q[i] = <<>> THEN NL ELSE Head(q[i])] = <<>>
    BY <2>1, <1>2
  <2> QED
    BY <2>1, <2>2 DEF LinesOf
<1> QED
  BY <1>1, <1>2

\* A natporte whose messages are as many as before, each in its place.
LEMMA AnsweredKept ==
  ASSUME NEW p \in Natportes, NEW s, s = natporte[p].socket, Answered(p), natporte'[p] = natporte[p],
         Connected(p)' => Connected(p),
         Messages(to_nat'[s]) = Messages(to_nat[s]), Messages(LinesOf(s))' = Messages(LinesOf(s)),
         Messages(natporte_message'[s]) = Messages(natporte_message[s]),
         Messages(to_pool'[s]) = Messages(to_pool[s])
  PROVE  Answered(p)'
<1>1. Messages(LinesOf(s)') = Messages(LinesOf(s))
  BY DEF Messages
<1>2. WayAt(p)' = WayAt(p)
  BY <1>1 DEF WayAt, Way
<1> QED
  BY <1>2 DEF Answered

\* A step that changes no connection and no stream.
LEMMA QuietStep ==
  ASSUME AllAnswered, UNCHANGED <<natporte, natporte_message, to_pool, to_nat>>,
         DOMAIN wan_addrs_list' = DOMAIN wan_addrs_list,
         \A s \in Sockets : Messages(LinesOf(s))' = Messages(LinesOf(s)),
         Types, OwnSockets
  PROVE  AllAnswered'
<1>1. ASSUME NEW s \in Sockets
      PROVE  EndFramed(s)'
  <2>1. Listed(s)' <=> Listed(s)
    BY DEF Listed
  <2> QED
    BY <2>1, EndFramedKept DEF AllAnswered, EndsFramed
<1>2. ASSUME NEW p \in Natportes
      PROVE  Answered(p)'
  <2>1. CASE natporte[p] = Down
    BY <2>1 DEF Answered, Connected
  <2>2. CASE natporte[p] # Down
    <3>1. PICK s \in Sockets : s = natporte[p].socket
      BY <2>2, RunningSocket
    <3>2. Connected(p)' => Connected(p)
      BY DEF Connected, Open, Listed
    <3>3. Answered(p)
      BY DEF AllAnswered
    <3> QED
      BY <3>1, <3>2, <3>3, AnsweredKept
  <2> QED
    BY <2>1, <2>2
<1> QED
  BY <1>1, <1>2 DEF AllAnswered, EndsFramed

\* The steps of the callback that touch neither lines nor streams.
LEMMA QuietCallback ==
  ASSUME SessionInv, AllAnswered, LoopEnds \/ Name \/ AddAddress \/ DeleteAddress \/ Ended
  PROVE  AllAnswered'
<1>1. UNCHANGED <<natporte, natporte_message, to_pool, to_nat>> /\ wan_addrs_list' = wan_addrs_list
  BY DEF LoopEnds, Name, AddAddress, DeleteAddress, Ended, sessionVars
<1>2. ASSUME NEW s \in Sockets
      PROVE  LinesOf(s)' = LinesOf(s)
  <2>1. CASE Name \/ AddAddress \/ DeleteAddress
    <3>1. server'.socket = server.socket /\ server'.lines = server.lines
      <4>1. server = [pc |-> server.pc, socket |-> server.socket,
                      lines |-> server.lines, addrs |-> server.addrs]
        BY Parts, ServerFields
      <4> QED
        BY <2>1, <4>1 DEF Name, AddAddress, DeleteAddress
    <3> QED
      BY <3>1, LinesOfKept
  <2>2. CASE LoopEnds \/ Ended
    <3>1. server.lines = <<>> /\ server' = Idle
      BY <2>2, Parts DEF LoopEnds, Ended, Callback
    <3>2. server'.lines = <<>>
      BY <3>1 DEF Idle
    <3> QED
      BY <3>1, <3>2, NoLines, NoLinesLater
  <2> QED
    BY <2>1, <2>2
<1>3. \A s \in Sockets : Messages(LinesOf(s))' = Messages(LinesOf(s))
  BY <1>2 DEF Messages
<1> QED
  BY <1>1, <1>3, Parts, QuietStep

LEMMA QuietStutter ==
  ASSUME SessionInv, AllAnswered, UNCHANGED vars
  PROVE  AllAnswered'
<1>1. /\ UNCHANGED <<natporte, natporte_message, to_pool, to_nat, server>>
      /\ DOMAIN wan_addrs_list' = DOMAIN wan_addrs_list
  BY DEF vars, sessionVars
<1>2. ASSUME NEW s \in Sockets
      PROVE  LinesOf(s)' = LinesOf(s)
  BY <1>1, LinesOfKept
<1>3. \A s \in Sockets : Messages(LinesOf(s))' = Messages(LinesOf(s))
  BY <1>2 DEF Messages
<1> QED
  BY <1>1, <1>3, Parts, QuietStep

\* The lines of the callback, and those behind the first of them.
LEMMA LinesTail ==
  ASSUME SessionInv, server.lines # <<>>, NEW s \in Sockets, s = server.socket,
         server'.socket = s, server'.lines = Tail(server.lines)
  PROVE  \E r \in Seq(Tokens) : LinesOf(s) = <<Message>> \o r /\ LinesOf(s)' = r
<1>1. PICK q, n : q = server.lines /\ n = Len(q)
  OBVIOUS
<1>2. PICK t : t = Tail(q)
  OBVIOUS
<1>3. /\ n \in Nat /\ n > 0 /\ t \in Seq(Seq(UpTexts)) /\ Len(t) = n - 1 /\ DOMAIN t = 1 .. n - 1
      /\ \A i \in 1 .. n - 1 : i + 1 \in 1 .. n /\ t[i] = q[i + 1] /\ t[i] \in Seq(UpTexts)
  <2>1. PICK S : S = Seq(UpTexts)
    OBVIOUS
  <2>2. q \in Seq(S) /\ q # <<>>
    BY <1>1, <2>1, Parts, ServerFields
  <2>3. /\ t \in Seq(S) /\ n \in Nat /\ n > 0 /\ Len(t) = n - 1 /\ DOMAIN t = 1 .. n - 1
        /\ \A i \in 1 .. n - 1 : i + 1 \in 1 .. n /\ t[i] = q[i + 1]
    BY <1>1, <1>2, <2>2, TailFact
  <2>4. \A i \in 1 .. n - 1 : t[i] \in S
    <3>1. \A i \in 1 .. n - 1 : i \in 1 .. Len(t)
      BY <2>3
    <3> QED
      BY <2>3, <3>1, ElementOfSeq
  <2> QED
    BY <2>1, <2>3, <2>4
<1>4. \A i \in 1 .. n - 1 : Len(t[i]) = 1
  BY <1>1, <1>2, <1>3, LinesFact
<1>5. PICK f : f = [i \in 1 .. n |-> q[i][1]]
  OBVIOUS
<1>6. LinesOf(s) = f /\ f \in Seq(Tokens) /\ f[1] = Message
  <2>1. LinesOf(s) = f /\ f \in Seq(Tokens)
    BY <1>1, <1>5, LinesOfFact
  <2>2. 1 \in 1 .. n
    BY <1>3
  <2>3. f[1] = q[1][1]
    BY <2>2, <1>5
  <2>4. Message = q[1][1]
    BY <1>1, LinesFact
  <2> QED
    BY <2>1, <2>3, <2>4
<1>7. ASSUME NEW i \in 1 .. n - 1
      PROVE  (IF t[i] = <<>> THEN NL ELSE Head(t[i])) = f[i + 1]
  <2>1. PICK x : x = t[i]
    OBVIOUS
  <2>2. x \in Seq(UpTexts) /\ Len(x) = 1 /\ x = q[i + 1] /\ i + 1 \in 1 .. n
    BY <2>1, <1>3, <1>4
  <2>3. x # <<>>
    <3>1. x = <<>> => Len(x) = 0
      OBVIOUS
    <3> QED
      BY <2>2, <3>1
  <2>4. Head(x) = x[1]
    BY <2>2, <2>3, TailFact
  <2>5. f[i + 1] = x[1]
    BY <2>2, <1>5
  <2> QED
    BY <2>1, <2>3, <2>4, <2>5
<1>8. PICK r : r = [i \in 1 .. n - 1 |-> f[i + 1]]
  OBVIOUS
<1>9. LinesOf(s)' = r
  <2>1. LinesOf(s)' = [i \in DOMAIN t |-> IF t[i] = <<>> THEN NL ELSE Head(t[i])]
    BY <1>1, <1>2 DEF LinesOf
  <2> QED
    BY <2>1, <1>3, <1>7, <1>8
<1>10. Len(f) = n /\ \A i \in 1 .. n : f[i] \in Tokens
  <2>1. Len(f) = n
    BY <1>3, <1>5
  <2> QED
    BY <2>1, <1>6, ElementOfSeq
<1>11. r \in Seq(Tokens) /\ Len(r) = n - 1
  <2>1. n - 1 \in Nat
    BY <1>3
  <2>2. r \in [1 .. n - 1 -> Tokens]
    BY <1>3, <1>8, <1>10
  <2> QED
    BY <2>1, <2>2, FunctionSeq
<1>12. f = <<f[1]>> \o r
  <2>1. PICK x, y : x = f[1] /\ y = <<x>> \o r
    OBVIOUS
  <2>2. x \in Tokens
    <3>1. 1 \in 1 .. n
      BY <1>3
    <3> QED
      BY <3>1, <2>1, <1>10
  <2>3. <<x>> \in Seq(Tokens) /\ Len(<<x>>) = 1 /\ <<x>>[1] = x
    BY <2>2
  <2>4. /\ y \in Seq(Tokens) /\ Len(y) = 1 + (n - 1)
        /\ \A i \in 1 .. 1 + (n - 1) : y[i] = IF i <= 1 THEN <<x>>[i] ELSE r[i - 1]
    <3>1. /\ y \in Seq(Tokens) /\ Len(y) = Len(<<x>>) + Len(r)
          /\ \A i \in 1 .. Len(<<x>>) + Len(r) : y[i] = IF i <= Len(<<x>>) THEN <<x>>[i] ELSE r[i - Len(<<x>>)]
      BY <2>1, <2>3, <1>11, ConcatProperties
    <3> QED
      BY <3>1, <2>3, <1>11
  <2>5. 1 + (n - 1) = n
    BY <1>3
  <2>6. ASSUME NEW i \in 1 .. n
        PROVE  f[i] = y[i]
    <3>1. CASE i = 1
      <4>1. i <= 1 /\ i \in 1 .. 1 + (n - 1)
        BY <3>1, <2>5
      <4> QED
        BY <3>1, <4>1, <2>1, <2>3, <2>4
    <3>2. CASE i # 1
      <4>1. ~(i <= 1) /\ i - 1 \in 1 .. n - 1 /\ (i - 1) + 1 = i
        BY <3>2, <1>3
      <4>2. y[i] = r[i - 1]
        BY <4>1, <2>4, <2>5
      <4>3. r[i - 1] = f[(i - 1) + 1]
        BY <4>1, <1>8
      <4> QED
        BY <4>1, <4>2, <4>3
    <3> QED
      BY <3>1, <3>2
  <2>7. Len(f) = Len(y)
    BY <2>4, <2>5, <1>10
  <2> QED
    BY <2>1, <2>4, <2>6, <2>7, <1>6, <1>10, SeqEqual
<1> QED
  BY <1>6, <1>9, <1>11, <1>12

LEMMA NamedQuiet ==
  ASSUME SessionInv, AllAnswered, Named
  PROVE  AllAnswered'
<1>1. /\ server.pc = "adding" /\ server' = [server EXCEPT !.pc = "lines", !.lines = Tail(@)]
      /\ UNCHANGED <<natporte, natporte_message, to_pool, to_nat>>
      /\ wan_addrs_list' = [wan_addrs_list EXCEPT ![server.socket] = Message.wan_addrs]
  BY DEF Named
<1>2. server'.socket = server.socket /\ server'.lines = Tail(server.lines)
  <2>1. server = [pc |-> server.pc, socket |-> server.socket,
                  lines |-> server.lines, addrs |-> server.addrs]
    BY Parts, ServerFields
  <2> QED
    BY <2>1, <1>1
<1>3. server.lines # <<>> /\ Message.type = "initialize"
  BY <1>1, Parts DEF Callback
<1>4. DOMAIN wan_addrs_list' = DOMAIN wan_addrs_list
  BY <1>1, Parts, SameLists
<1>5. ASSUME NEW s \in Sockets
      PROVE  Messages(LinesOf(s)') = Messages(LinesOf(s))
  <2>1. CASE s # server.socket
    <3>1. LinesOf(s)' = <<>> /\ LinesOf(s) = <<>>
      BY <2>1, <1>2, NoLines, NoLinesLater
    <3> QED
      BY <3>1
  <2>2. CASE s = server.socket
    <3>1. PICK r \in Seq(Tokens) : LinesOf(s) = <<Message>> \o r /\ LinesOf(s)' = r
      BY <2>2, <1>2, <1>3, LinesTail
    <3>2. PICK x, a, b : x = Message /\ a = LinesOf(s) /\ b = LinesOf(s)'
      OBVIOUS
    <3>3. x \in Tokens /\ x.type = "initialize"
      BY <3>2, <1>3, LinesFact DEF Tokens
    <3>4. <<x>> \in Seq(Tokens)
      BY <3>3
    <3>5. Messages(<<x>> \o r) = Messages(<<x>>) \o Messages(r)
      BY <3>4, MessagesConcat
    <3>6. Messages(<<x>>) = <<>>
      BY <3>3, MessagesOfOne DEF OfOrder
    <3>7. <<>> \o Messages(r) = Messages(r)
      BY MessagesType, ConcatEmptySeq
    <3>8. Messages(a) = Messages(b)
      BY <3>1, <3>2, <3>5, <3>6, <3>7
    <3> QED
      BY <3>2, <3>8
  <2> QED
    BY <2>1, <2>2
<1>6. \A s \in Sockets : Messages(LinesOf(s))' = Messages(LinesOf(s))
  BY <1>5 DEF Messages
<1> QED
  BY <1>1, <1>4, <1>6, Parts, QuietStep

\* A text and its newline behind a stream: one message more if it is one.
LEMMA MessagesText ==
  ASSUME NEW U, NL \in U, NEW q \in Seq(U), NEW m \in U
  PROVE  Messages(q \o Text(m)) = IF OfOrder(m) THEN Messages(q) \o <<m>> ELSE Messages(q)
<1>1. <<m>> \in Seq(U) /\ <<NL>> \in Seq(U) /\ Text(m) \in Seq(U)
  BY DEF Text
<1>2. Text(m) = <<m>> \o <<NL>>
  <2>1. PICK v, w, x : v = <<m>> /\ w = <<NL>> /\ x = v \o w
    OBVIOUS
  <2>2. v \in Seq(U) /\ w \in Seq(U) /\ Len(v) = 1 /\ Len(w) = 1 /\ v[1] = m /\ w[1] = NL
    BY <1>1, <2>1
  <2>3. /\ x \in Seq(U) /\ Len(x) = Len(v) + Len(w)
        /\ \A i \in 1 .. Len(v) + Len(w) : x[i] = IF i <= Len(v) THEN v[i] ELSE w[i - Len(v)]
    BY <2>1, <2>2, ConcatProperties
  <2>4. Len(x) = 2 /\ x[1] = m /\ x[2] = NL
    <3>1. /\ 1 \in 1 .. 1 + 1 /\ 1 <= 1 /\ 2 \in 1 .. 1 + 1 /\ ~(2 <= 1) /\ 2 - 1 = 1
          /\ 1 + 1 = 2
      OBVIOUS
    <3> QED
      BY <2>2, <2>3, <3>1
  <2>5. PICK y : y = Text(m)
    OBVIOUS
  <2>6. y \in Seq(U) /\ Len(y) = 2 /\ y[1] = m /\ y[2] = NL
    BY <1>1, <2>5 DEF Text
  <2>7. \A i \in 1 .. Len(x) : x[i] = y[i]
    BY <2>4, <2>6
  <2>8. x = y
    BY <2>3, <2>4, <2>6, <2>7, SeqEqual
  <2> QED
    BY <2>1, <2>5, <2>8
<1>3. Messages(<<NL>>) = <<>> /\ Messages(<<m>>) = IF OfOrder(m) THEN <<m>> ELSE <<>>
  BY MessagesOfOne, NewlineNoOrder
<1>4. PICK a, b : a = Messages(q) /\ b = Messages(<<m>>)
  OBVIOUS
<1>5. a \in Seq(U) /\ b \in Seq(U)
  BY <1>1, <1>4, MessagesType
<1>6. Messages(Text(m)) = b
  <2>1. Messages(Text(m)) = b \o <<>>
    BY <1>1, <1>2, <1>3, <1>4, MessagesConcat
  <2> QED
    BY <2>1, <1>5, ConcatEmptySeq
<1>7. Messages(q \o Text(m)) = a \o b
  BY <1>1, <1>4, <1>6, MessagesConcat
<1>8. a \o <<>> = a
  BY <1>5, ConcatEmptySeq
<1>9. CASE OfOrder(m)
  BY <1>3, <1>4, <1>7, <1>9
<1>10. CASE ~OfOrder(m)
  BY <1>3, <1>4, <1>7, <1>8, <1>10
<1> QED
  BY <1>9, <1>10

AnswerGrouped(U, a, b, x, r, t) ==
    /\ a \o (b \o ((<<x>> \o r) \o t)) = Spliced(a \o b, x, r \o t)
    /\ a \o ((b \o <<x>>) \o (r \o t)) = Spliced(a \o b, x, r \o t)
    /\ a \o b \in Seq(U) /\ r \o t \in Seq(U)

LEMMA AnswerGroupedFact ==
  ASSUME NEW U, NEW a \in Seq(U), NEW b \in Seq(U), NEW x \in U, NEW r \in Seq(U), NEW t \in Seq(U)
  PROVE  AnswerGrouped(U, a, b, x, r, t)
<1>0. PICK q : q = <<x>>
  OBVIOUS
<1>1. q \in Seq(U) /\ a \o b \in Seq(U) /\ r \o t \in Seq(U)
  BY <1>0, ConcatProperties
<1>2. q \o (r \o t) \in Seq(U)
  BY <1>1, ConcatProperties
<1>3. Grouped(q, r, t)
  BY <1>1, GroupedFact
<1>4. Grouped(a, b, q \o (r \o t))
  BY <1>2, GroupedFact
<1>5. Grouped(b, q, r \o t)
  BY <1>1, GroupedFact
<1>6. a \o (b \o ((q \o r) \o t)) = (a \o b) \o (q \o (r \o t))
  BY <1>3, <1>4, Zenon DEF Grouped
<1>7. a \o ((b \o q) \o (r \o t)) = (a \o b) \o (q \o (r \o t))
  BY <1>4, <1>5, Zenon DEF Grouped
<1>8. Spliced(a \o b, x, r \o t) = (a \o b) \o (q \o (r \o t))
  BY <1>0 DEF Spliced
<1> QED
  BY <1>0, <1>1, <1>6, <1>7, <1>8 DEF AnswerGrouped

\* The callback answers a line: the answer takes the place of the order.
LEMMA AnswerQuiet ==
  ASSUME SessionInv, AllAnswered, server.lines # <<>>, NEW m \in DownTexts, OfOrder(m),
         OfOrder(Message), \A o \in OrderTexts : Matches(Message, o) => Matches(m, o),
         Answer(m), server'.socket = server.socket, server'.lines = Tail(server.lines),
         UNCHANGED <<natporte, natporte_message, to_pool, wan_addrs_list>>
  PROVE  AllAnswered'
<1>1. PICK s \in Sockets : s = server.socket
  BY LinesFact
<1>2. PICK U : U = Tokens
  OBVIOUS
<1>3. PICK x : x = Message
  OBVIOUS
<1>4. x \in U /\ m \in U /\ NL \in U
  BY <1>2, <1>3, LinesFact DEF Tokens
<1>5. PICK r \in Seq(U) : LinesOf(s) = <<x>> \o r /\ LinesOf(s)' = r
  BY <1>1, <1>2, <1>3, LinesTail
<1>6. PICK d : d = to_nat[s]
  OBVIOUS
<1>7. d \in Seq(U) /\ to_nat'[s] = d \o Text(m) /\ \A t \in Sockets : t # s => to_nat'[t] = to_nat[t]
  <2>1. to_nat \in [Sockets -> Seq(DownTexts \cup {NL})] /\ d \in Seq(U)
    BY <1>2, <1>6, Parts, TokensFact, SameLists
  <2>2. to_nat' = [to_nat EXCEPT ![s] = d \o Text(m)]
    BY <1>1, <1>6 DEF Answer
  <2> QED
    BY <2>1, <2>2
<1>8. ASSUME NEW t \in Sockets
      PROVE  EndFramed(t)'
  <2>1. Listed(t)' <=> Listed(t)
    BY DEF Listed
  <2> QED
    BY <2>1, EndFramedKept DEF AllAnswered, EndsFramed
<1>9. ASSUME NEW p \in Natportes
      PROVE  Answered(p)'
  <2>1. Connected(p)' => Connected(p)
    BY DEF Connected, Open, Listed
  <2>2. Answered(p)
    BY DEF AllAnswered
  <2>3. CASE natporte[p] = Down
    BY <2>3 DEF Answered, Connected
  <2>4. CASE natporte[p] # Down /\ natporte[p].socket # s
    <3>1. PICK t \in Sockets : t = natporte[p].socket /\ t # s
      BY <2>4, Parts, RunningSocket
    <3>2. LinesOf(t)' = <<>> /\ LinesOf(t) = <<>>
      BY <3>1, <1>1, NoLines, NoLinesLater
    <3>3. Messages(LinesOf(t))' = Messages(LinesOf(t))
      BY <3>2 DEF Messages
    <3>4. to_nat'[t] = to_nat[t]
      BY <3>1, <1>7
    <3> QED
      BY <2>1, <2>2, <3>1, <3>3, <3>4, AnsweredKept
  <2>5. CASE natporte[p] # Down /\ natporte[p].socket = s
    <3>1. SUFFICES ASSUME Connected(p)
                   PROVE  Paired(WayAt(p)', natporte[p].awaited)
      BY <2>1 DEF Answered
    <3>2. PICK kept, part, up : /\ kept = natporte[p].string_buffer /\ part = natporte_message[s]
                                /\ up = to_pool[s]
      OBVIOUS
    <3>3. kept \in Seq(U) /\ part \in Seq(U) /\ up \in Seq(U)
      BY <3>2, <1>2, Parts, TokensFact, KeptTokens
    <3>4. PICK a, b, t, c : /\ a = Messages(kept) /\ b = Messages(d) /\ c = Messages(r)
                            /\ t = Messages(part) \o Messages(up)
      OBVIOUS
    <3>5. a \in Seq(U) /\ b \in Seq(U) /\ c \in Seq(U) /\ t \in Seq(U)
      <4>1. Messages(part) \in Seq(U) /\ Messages(up) \in Seq(U)
        BY <3>3, MessagesType
      <4>2. t \in Seq(U)
        BY <4>1, <3>4, ConcatProperties
      <4> QED
        BY <4>2, <3>3, <3>4, <1>7, MessagesType
    <3>6. <<x>> \in Seq(U) /\ <<m>> \in Seq(U)
      BY <1>4
    <3>7. Messages(<<x>> \o r) = <<x>> \o c
      <4>1. Messages(<<x>>) = <<x>>
        BY <1>3, MessagesOfOne
      <4> QED
        BY <4>1, <3>4, <3>6, MessagesConcat
    <3>8. Messages(d \o Text(m)) = b \o <<m>>
      BY <1>4, <1>7, <3>4, MessagesText
    <3>9. WayAt(p) = a \o (b \o ((<<x>> \o c) \o t))
      <4>1. WayAt(p) = Way(kept, d, <<x>> \o r, part, up)
        BY <2>5, <3>2, <1>5, <1>6 DEF WayAt
      <4> QED
        BY <4>1, <3>4, <3>7 DEF Way
    <3>10. WayAt(p)' = a \o ((b \o <<m>>) \o (c \o t))
      <4>1. WayAt(p)' = Way(kept, d \o Text(m), r, part, up)
        BY <2>5, <3>2, <1>5, <1>7 DEF WayAt, Way, Messages
      <4> QED
        BY <4>1, <3>4, <3>8 DEF Way
    <3>11. PICK u, v : u = a \o b /\ v = c \o t
      OBVIOUS
    <3>12. u \in Seq(U) /\ v \in Seq(U) /\ WayAt(p) = Spliced(u, x, v)
      <4>1. AnswerGrouped(U, a, b, x, c, t)
        BY <1>4, <3>5, AnswerGroupedFact
      <4> QED
        BY <4>1, <3>9, <3>11 DEF AnswerGrouped
    <3>13. WayAt(p)' = Spliced(u, m, v)
      <4>1. AnswerGrouped(U, a, b, m, c, t)
        BY <1>4, <3>5, AnswerGroupedFact
      <4> QED
        BY <4>1, <3>10, <3>11 DEF AnswerGrouped
    <3>14. PICK w, z, O, orders : /\ w = WayAt(p) /\ z = WayAt(p)' /\ O = OrderTexts
                                  /\ orders = natporte[p].awaited
      OBVIOUS
    <3>15. orders \in Seq(O) /\ Paired(w, orders)
      BY <2>2, <3>1, <3>14, Parts, NatporteFields DEF Answered
    <3>16. \A o \in O : Matches(x, o) => Matches(m, o)
      BY <3>14, <1>3
    <3>17. Paired(z, orders)
      <4>1. Paired(Spliced(u, x, v), orders)
        BY <3>12, <3>14, <3>15
      <4>2. Paired(Spliced(u, m, v), orders)
        BY <4>1, <1>4, <3>12, <3>15, <3>16, PairedReplace
      <4> QED
        BY <4>2, <3>13, <3>14
    <3> QED
      BY <3>14, <3>17
  <2> QED
    BY <2>3, <2>4, <2>5
<1> QED
  BY <1>8, <1>9 DEF AllAnswered, EndsFramed

-----------------------------------------------------------------------------
(* The steps of the callback *)

LEMMA RequestQuiet ==
  ASSUME SessionInv, AllAnswered, Request
  PROVE  AllAnswered'
<1>1. /\ server.pc = "lines" /\ server.lines # <<>> /\ Message.type = "request"
      /\ UNCHANGED <<natporte, natporte_message, to_pool, wan_addrs_list>>
  BY DEF Request, Handles, sessionVars
<1>2. server'.socket = server.socket /\ server'.lines = Tail(server.lines)
  <2>1. server = [pc |-> server.pc, socket |-> server.socket,
                  lines |-> server.lines, addrs |-> server.addrs]
    BY Parts, ServerFields
  <2> QED
    BY <2>1 DEF Request, NextLine
<1>3. PICK msg : msg = Message
  OBVIOUS
<1>4. msg.lan \in Clients \X LanPorts /\ msg.lan = <<msg.lan[1], msg.lan[2]>> /\ msg.protocol \in Protocols
  <2>1. msg \in UpTexts
    BY <1>1, <1>3, LinesFact
  <2>2. msg.lan \in Clients \X LanPorts /\ msg.protocol \in Protocols
    BY <2>1, <1>1, <1>3, UpKinds
  <2> QED
    BY <2>2
<1>5. PICK protocol, assigned :
        /\ protocol = msg.protocol
        /\ Answer(RequestAnswer(protocol, msg.lan, assigned))
        /\ assigned = undefined \/ (assigned \in Entries /\
             assigned.lan_ip = msg.lan[1] /\ assigned.lan_port = msg.lan[2])
  <2>0. msg.lan[1] \in Clients /\ msg.lan[2] \in LanPorts
    BY <1>4
  <2>1. CASE /\ Message.protocol = "TCP" /\ UNCHANGED udpVars
             /\ tcpDB!AssignConnection(Message.lan[1], Message.lan[2])
             /\ Answer(RequestAnswer("TCP", Message.lan, tcp_result'))
    <3>1. PICK r : r = tcp_result'
      OBVIOUS
    <3>2. tcpDB!AssignConnection(msg.lan[1], msg.lan[2])
      BY <2>1, <1>3
    <3>3. r = undefined \/ (r \in Entries /\ r.lan_ip = msg.lan[1] /\ r.lan_port = msg.lan[2])
      BY <2>0, <3>1, <3>2, Parts, TcpAssign
    <3>4. msg.protocol = "TCP" /\ Answer(RequestAnswer("TCP", msg.lan, r))
      BY <2>1, <3>1, <1>3
    <3> QED
      BY <3>3, <3>4
  <2>2. CASE /\ Message.protocol = "UDP" /\ UNCHANGED tcpVars
             /\ udpDB!AssignConnection(Message.lan[1], Message.lan[2])
             /\ Answer(RequestAnswer("UDP", Message.lan, udp_result'))
    <3>1. PICK r : r = udp_result'
      OBVIOUS
    <3>2. udpDB!AssignConnection(msg.lan[1], msg.lan[2])
      BY <2>2, <1>3
    <3>3. r = undefined \/ (r \in Entries /\ r.lan_ip = msg.lan[1] /\ r.lan_port = msg.lan[2])
      BY <2>0, <3>1, <3>2, Parts, UdpAssign
    <3>4. msg.protocol = "UDP" /\ Answer(RequestAnswer("UDP", msg.lan, r))
      BY <2>2, <3>1, <1>3
    <3> QED
      BY <3>3, <3>4
  <2> QED
    BY <2>1, <2>2 DEF Request
<1>6. PICK m : m = RequestAnswer(protocol, msg.lan, assigned)
  OBVIOUS
<1>7. ASSUME NEW o \in OrderTexts, Matches(msg, o)
      PROVE  o.type = "request" /\ o.protocol = protocol /\ o.lan = msg.lan
  <2>1. msg.type = "request" /\ msg.protocol = protocol
    BY <1>1, <1>3, <1>5
  <2> QED
    BY <1>7, <2>1 DEF Matches
<1>8. m \in DownTexts /\ OfOrder(m) /\ \A o \in OrderTexts : Matches(msg, o) => Matches(m, o)
  <2>1. CASE assigned = undefined
    <3>1. m = [type |-> "request_discard", protocol |-> protocol, lan |-> msg.lan]
      BY <2>1, <1>6 DEF RequestAnswer
    <3>2. m \in [type : {"request_discard"}, protocol : Protocols, lan : Clients \X LanPorts]
      BY <3>1, <1>4, <1>5
    <3>3. m.type = "request_discard" /\ m.protocol = protocol /\ m.lan = msg.lan
      BY <3>1
    <3>4. \A o \in OrderTexts : Matches(msg, o) => Matches(m, o)
      BY <1>7, <3>3 DEF Matches
    <3> QED
      BY <3>2, <3>3, <3>4 DEF DownTexts, AnswerTexts, OfOrder
  <2>2. CASE assigned # undefined
    <3>1. m = [type |-> "request_ack", protocol |-> protocol, entry |-> assigned]
      BY <2>2, <1>6 DEF RequestAnswer
    <3>2. m \in [type : {"request_ack", "release_ack"}, protocol : Protocols, entry : Entries]
      BY <3>1, <2>2, <1>4, <1>5
    <3>3. m.type = "request_ack" /\ m.protocol = protocol /\ m.entry = assigned
      BY <3>1
    <3>4. <<m.entry.lan_ip, m.entry.lan_port>> = msg.lan
      BY <2>2, <3>3, <1>4, <1>5
    <3>5. \A o \in OrderTexts : Matches(msg, o) => Matches(m, o)
      BY <1>7, <3>3, <3>4 DEF Matches
    <3> QED
      BY <3>2, <3>3, <3>5 DEF DownTexts, AnswerTexts, OfOrder
  <2> QED
    BY <2>1, <2>2
<1>9. OfOrder(Message)
  BY <1>1 DEF OfOrder
<1> QED
  BY <1>1, <1>2, <1>3, <1>5, <1>6, <1>8, <1>9, AnswerQuiet

LEMMA ReleaseQuiet ==
  ASSUME SessionInv, AllAnswered, Release
  PROVE  AllAnswered'
<1>1. /\ server.pc = "lines" /\ server.lines # <<>> /\ Message.type = "release"
      /\ UNCHANGED <<natporte, natporte_message, to_pool, wan_addrs_list>>
  BY DEF Release, Handles, sessionVars
<1>2. server'.socket = server.socket /\ server'.lines = Tail(server.lines)
  <2>1. server = [pc |-> server.pc, socket |-> server.socket,
                  lines |-> server.lines, addrs |-> server.addrs]
    BY Parts, ServerFields
  <2> QED
    BY <2>1 DEF Release, NextLine
<1>3. PICK msg : msg = Message
  OBVIOUS
<1>4. msg.protocol \in Protocols /\ msg.entry \in Entries /\ msg.type = "release"
  BY <1>1, <1>3, LinesFact, UpKinds
<1>5. PICK m : m = [type |-> "release_ack", protocol |-> msg.protocol, entry |-> msg.entry]
  OBVIOUS
<1>6. m.type = "release_ack" /\ m.protocol = msg.protocol /\ m.entry = msg.entry
  BY <1>5
<1>7. m \in DownTexts /\ OfOrder(m) /\ OfOrder(msg)
  <2>1. m \in [type : {"request_ack", "release_ack"}, protocol : Protocols, entry : Entries]
    BY <1>4, <1>5
  <2> QED
    BY <2>1, <1>4, <1>6 DEF DownTexts, AnswerTexts, OfOrder
<1>8. \A o \in OrderTexts : Matches(msg, o) => Matches(m, o)
  BY <1>4, <1>6 DEF Matches
<1>9. Answer(m)
  BY <1>3, <1>5 DEF Release
<1> QED
  BY <1>1, <1>2, <1>3, <1>7, <1>8, <1>9, AnswerQuiet

-----------------------------------------------------------------------------
(* A step about one socket *)

LEMMA SocketQuiet ==
  ASSUME Types, OwnSockets, AllAnswered, NEW s \in Sockets,
         \A t \in Sockets : t # s =>
           /\ to_nat'[t] = to_nat[t] /\ to_pool'[t] = to_pool[t]
           /\ natporte_message'[t] = natporte_message[t] /\ (Listed(t)' <=> Listed(t))
           /\ LinesOf(t)' = LinesOf(t),
         \A q \in Natportes : natporte'[q].socket # s =>
           natporte'[q] = natporte[q] \/ natporte'[q] = Down,
         EndFramed(s)', \A q \in Natportes : natporte'[q].socket = s => Answered(q)'
  PROVE  AllAnswered'
<1>1. ASSUME NEW t \in Sockets
      PROVE  EndFramed(t)'
  <2>1. CASE t # s
    BY <2>1, EndFramedKept DEF AllAnswered, EndsFramed
  <2> QED
    BY <2>1
<1>2. ASSUME NEW q \in Natportes
      PROVE  Answered(q)'
  <2>1. CASE natporte'[q] = Down
    BY <2>1 DEF Answered, Connected
  <2>2. CASE natporte'[q].socket # s /\ natporte'[q] # Down
    <3>1. natporte'[q] = natporte[q] /\ natporte[q] # Down
      BY <2>2
    <3>2. PICK t \in Sockets : t = natporte[q].socket /\ t # s
      BY <2>2, <3>1, RunningSocket
    <3>3. Connected(q)' => Connected(q)
      BY <3>1, <3>2 DEF Connected, Open
    <3>4. Messages(LinesOf(t))' = Messages(LinesOf(t))
      BY <3>2 DEF Messages
    <3>5. Answered(q)
      BY DEF AllAnswered
    <3> QED
      BY <3>1, <3>2, <3>3, <3>4, <3>5, AnsweredKept
  <2> QED
    BY <2>1, <2>2
<1> QED
  BY <1>1, <1>2 DEF AllAnswered, EndsFramed

\* Nothing is on its way.
LEMMA NothingOnWay ==
  ASSUME NEW a, NEW b, NEW c, NEW d, NEW e, Messages(a) = <<>>, Messages(b) = <<>>,
         Messages(c) = <<>>, Messages(d) = <<>>, Messages(e) = <<>>
  PROVE  Paired(Way(a, b, c, d, e), <<>>)
<1>1. Way(a, b, c, d, e) = <<>>
  BY DEF Way
<1> QED
  BY <1>1 DEF Paired

LEMMA StartQuiet ==
  ASSUME SessionInv, AllAnswered, NEW p \in Natportes, NEW s \in Sockets, Start(p, s)
  PROVE  AllAnswered'
<1>1. PICK m : m = [type |-> "initialize", wan_addrs |-> pool_addr[p]]
  OBVIOUS
<1>2. m \in UpTexts /\ m.type = "initialize"
  BY <1>1, SessionAssumption DEF UpTexts
<1>3. /\ ~Listed(s) /\ (\A q \in Natportes : natporte[q].socket # s) /\ s # undefined
      /\ natporte[p] = Down
      /\ UNCHANGED <<wan_addrs_list, natporte_message, server>>
  BY SessionAssumption DEF Start, Open, sessionVars
<1>4. /\ natporte'[p].socket = s /\ natporte'[p].awaited = <<>> /\ natporte'[p].string_buffer = <<>>
      /\ \A q \in Natportes : q # p => natporte'[q] = natporte[q]
  <2>1. natporte \in [Natportes -> NatporteTypes]
    BY Parts, NatporteFields
  <2>2. natporte' = [natporte EXCEPT ![p].socket = s]
    BY DEF Start
  <2>3. PICK new : new = [Down EXCEPT !.socket = s]
    OBVIOUS
  <2>4. Down = [socket |-> Down.socket, table |-> Down.table, awaited |-> Down.awaited,
                string_buffer |-> Down.string_buffer]
    BY DEF Down
  <2>5. new.socket = s /\ new.awaited = <<>> /\ new.string_buffer = <<>>
    BY <2>3, <2>4, DownFields
  <2>6. natporte' = [natporte EXCEPT ![p] = new]
    BY <2>2, <2>3, <1>3
  <2> QED
    BY <2>1, <2>5, <2>6
<1>5. PICK U, q : U = Tokens /\ q = <<Connecting>>
  OBVIOUS
<1>6. q \in Seq(U) /\ Len(q) = 1 /\ q[1] = Connecting /\ m \in U /\ NL \in U
  <2>1. Connecting \in U /\ m \in U /\ NL \in U
    BY <1>2, <1>5, EventKinds DEF Tokens
  <2> QED
    BY <2>1, <1>5
<1>7. PICK r : r = q \o Text(m)
  OBVIOUS
<1>8. DOMAIN r = 1 .. 3 /\ r[1] = Connecting /\ r[2] = m /\ r[3] = NL
  <2>1. /\ q \o Text(m) \in Seq(U) /\ Len(q) \in Nat
        /\ Len(q \o Text(m)) = Len(q) + 2 /\ DOMAIN (q \o Text(m)) = 1 .. Len(q) + 2
        /\ \A i \in 1 .. Len(q) : (q \o Text(m))[i] = q[i]
        /\ (q \o Text(m))[Len(q) + 1] = m /\ (q \o Text(m))[Len(q) + 2] = NL
    BY <1>6, TextBehind
  <2>2. 1 \in 1 .. 1 /\ 1 + 1 = 2 /\ 1 + 2 = 3
    OBVIOUS
  <2> QED
    BY <2>1, <2>2, <1>6, <1>7
<1>9. /\ to_pool'[s] = r /\ to_nat'[s] = <<>>
      /\ \A t \in Sockets : t # s => to_pool'[t] = to_pool[t] /\ to_nat'[t] = to_nat[t]
  <2>1. to_pool' = [to_pool EXCEPT ![s] = r] /\ to_nat' = [to_nat EXCEPT ![s] = <<>>]
    BY <1>1, <1>5, <1>7 DEF Start
  <2> QED
    BY <2>1, Parts DEF Types
<1>10. \A t : (Listed(t)' <=> Listed(t)) /\ LinesOf(t)' = LinesOf(t)
  BY <1>3 DEF Listed, LinesOf
<1>11. natporte_message[s] = <<>>
  BY <1>3 DEF AllAnswered, EndsFramed, EndFramed
<1>12. EndFramed(s)'
  <2>1. \A i \in 1 .. 3 : r[i] \notin Ends
    <3>1. \A i \in 1 .. 3 : i = 1 \/ i = 2 \/ i = 3
      OBVIOUS
    <3>2. Connecting \notin Ends /\ m \notin Ends /\ NL \notin Ends
      BY <1>2, UpKinds, EventKinds
    <3> QED
      BY <3>1, <3>2, <1>8
  <2> QED
    BY <2>1, <1>3, <1>8, <1>9, <1>11 DEF EndFramed
<1>13. LinesOf(s) = <<>>
  <2>1. server.socket # s \/ server.lines = <<>>
    BY <1>3, Parts, ServerFields, DownFields DEF Callback
  <2> QED
    BY <2>1, NoLines
<1>14. Answered(p)'
  <2>1. Messages(r) = <<>>
    <3>1. ~OfOrder(m) /\ ~OfOrder(Connecting)
      BY <1>2, EventKinds DEF OfOrder
    <3>2. Messages(q) = <<>>
      BY <3>1, <1>5, MessagesOfOne
    <3> QED
      BY <3>1, <3>2, <1>6, <1>7, MessagesText
  <2>2. Messages(<<>>) = <<>>
    BY MessagesOfOne
  <2>3. WayAt(p)' = Way(<<>>, <<>>, <<>>, <<>>, r)
    <3>1. PICK kept, down, lines, part, up :
            /\ kept = natporte'[p].string_buffer /\ down = to_nat'[s] /\ lines = LinesOf(s)'
            /\ part = natporte_message'[s] /\ up = to_pool'[s]
      OBVIOUS
    <3>2. WayAt(p)' = Way(kept, down, lines, part, up)
      BY <3>1, <1>4 DEF WayAt, Way, Messages
    <3>3. kept = <<>> /\ down = <<>> /\ lines = <<>> /\ part = <<>> /\ up = r
      BY <3>1, <1>3, <1>4, <1>9, <1>10, <1>11, <1>13
    <3> QED
      BY <3>2, <3>3
  <2>4. Paired(Way(<<>>, <<>>, <<>>, <<>>, r), <<>>)
    BY <2>1, <2>2, NothingOnWay
  <2>5. Paired(WayAt(p)', natporte'[p].awaited)
    BY <2>3, <2>4, <1>4
  <2> QED
    BY <2>5 DEF Answered, Paired, Matches
<1>15. \A t \in Sockets : t # s =>
         /\ to_nat'[t] = to_nat[t] /\ to_pool'[t] = to_pool[t]
         /\ natporte_message'[t] = natporte_message[t] /\ (Listed(t)' <=> Listed(t))
         /\ LinesOf(t)' = LinesOf(t)
  BY <1>3, <1>9, <1>10
<1>16. /\ \A a \in Natportes : natporte'[a].socket # s => natporte'[a] = natporte[a] \/ natporte'[a] = Down
       /\ \A a \in Natportes : natporte'[a].socket = s => a = p
  BY <1>3, <1>4
<1> QED
  BY <1>12, <1>14, <1>15, <1>16, Parts, SocketQuiet

LEMMA ExitQuiet ==
  ASSUME SessionInv, AllAnswered, NEW p \in Natportes, Exit(p)
  PROVE  AllAnswered'
<1>1. PICK s \in Sockets : /\ s = natporte[p].socket /\ natporte[p] # Down /\ s # undefined
                          /\ \A q \in Natportes : q # p => natporte[q].socket # s
  BY Parts, RunningSocket DEF Exit
<1>2. PICK type \in {"end", "reset"} :
        to_pool' = [to_pool EXCEPT ![s] = IF Open(s) THEN Append(to_pool[s], [type |-> type]) ELSE to_pool[s]]
  BY <1>1 DEF Exit
<1>3. /\ natporte' = [natporte EXCEPT ![p] = Down] /\ to_nat' = [to_nat EXCEPT ![s] = <<>>]
      /\ UNCHANGED <<wan_addrs_list, natporte_message, server>>
  BY <1>1 DEF Exit, sessionVars
<1>4. natporte'[p] = Down /\ \A q \in Natportes : q # p => natporte'[q] = natporte[q]
  BY <1>3, Parts, NatporteFields
<1>5. PICK q, L, r : q = to_pool[s] /\ L = Len(q) /\ r = Append(q, [type |-> type])
  OBVIOUS
<1>6. L \in Nat /\ DOMAIN q = 1 .. L /\ DOMAIN r = 1 .. L + 1 /\ \A i \in 1 .. L : r[i] = q[i]
  <2>1. PICK U : U = Tokens
    OBVIOUS
  <2>2. q \in Seq(U) /\ [type |-> type] \in U
    BY <2>1, <1>5, Parts, TokensFact, EventKinds DEF Tokens, Events, Connecting
  <2>3. r \in Seq(U) /\ Len(r) = L + 1 /\ \A i \in 1 .. L : r[i] = q[i]
    BY <2>2, <1>5, AppendProperties
  <2> QED
    BY <2>2, <2>3, <1>5, LenProperties
<1>7. /\ to_pool'[s] = IF Open(s) THEN r ELSE q
      /\ \A t \in Sockets : t # s => to_pool'[t] = to_pool[t] /\ to_nat'[t] = to_nat[t]
  <2>1. to_pool' = [to_pool EXCEPT ![s] = IF Open(s) THEN r ELSE q]
    BY <1>2, <1>5
  <2> QED
    BY <2>1, <1>3, Parts DEF Types
<1>8. \A t : (Listed(t)' <=> Listed(t)) /\ LinesOf(t)' = LinesOf(t)
  BY <1>3 DEF Listed, LinesOf
<1>9. EndFramed(s)'
  <2>1. EndFramed(s)
    BY DEF AllAnswered, EndsFramed
  <2>2. CASE ~Open(s)
    BY <2>1, <2>2, <1>3, <1>5, <1>7, <1>8, EndFramedKept
  <2>3. CASE Open(s)
    <3>1. Whole(s)
      <4>1. Connected(p)
        BY <2>3, <1>1 DEF Connected
      <4> QED
        BY <4>1, <1>1, Parts DEF WholeToPool
    <3>2. PICK c : c = Phase(s)
      OBVIOUS
    <3>3. c \in Nat
      <4>1. natporte_message[s] \in Seq(UpTexts)
        BY Parts DEF Types
      <4> QED
        BY <4>1, <3>2, LenProperties DEF Phase
    <3>4. Phase(s)' = c
      BY <3>2, <1>3, <1>8 DEF Phase
    <3>5. ~Even((L + 1) + c)
      <4>1. Even(L + c)
        BY <3>1, <3>2, <1>5 DEF Whole
      <4>2. (L + 1) + c = (L + c) + 1 /\ L + c \in Nat
        BY <3>3, <1>6
      <4> QED
        BY <4>1, <4>2, EvenFact
    <3>6. \A i \in 1 .. L + 1 : r[i] \in Ends => i = L + 1
      <4>1. \A i \in 1 .. L : q[i] \notin Ends
        BY <3>1, <1>5, <1>6 DEF Whole
      <4>2. \A i \in 1 .. L + 1 : i \in 1 .. L \/ i = L + 1
        BY <1>6
      <4> QED
        BY <4>1, <4>2, <1>6
    <3>7. \A i \in DOMAIN r : r[i] \in Ends => ~Even(i + c)
      BY <3>5, <3>6, <1>6
    <3> QED
      BY <2>1, <2>3, <3>4, <3>7, <1>3, <1>7, <1>8 DEF EndFramed
  <2> QED
    BY <2>2, <2>3
<1>10. \A t \in Sockets : t # s =>
         /\ to_nat'[t] = to_nat[t] /\ to_pool'[t] = to_pool[t]
         /\ natporte_message'[t] = natporte_message[t] /\ (Listed(t)' <=> Listed(t))
         /\ LinesOf(t)' = LinesOf(t)
  BY <1>3, <1>7, <1>8
<1>11. /\ \A a \in Natportes : natporte'[a].socket # s => natporte'[a] = natporte[a] \/ natporte'[a] = Down
       /\ \A a \in Natportes : natporte'[a].socket # s
  BY <1>1, <1>4, DownFields
<1> QED
  BY <1>9, <1>10, <1>11, Parts, SocketQuiet

\* A text behind what a natporte has on its way.
LEMMA WayText ==
  ASSUME NEW U, NL \in U, NEW a \in Seq(U), NEW b \in Seq(U), NEW c \in Seq(U), NEW d \in Seq(U),
         NEW e \in Seq(U), NEW m \in U, OfOrder(m)
  PROVE  /\ Way(a, b, c, d, e) \in Seq(U)
         /\ Way(a, b, c, d, e \o Text(m)) = Way(a, b, c, d, e) \o <<m>>
<1>1. PICK va, vb, vc, vd, ve, x :
        /\ va = Messages(a) /\ vb = Messages(b) /\ vc = Messages(c) /\ vd = Messages(d)
        /\ ve = Messages(e) /\ x = <<m>>
  OBVIOUS
<1>2. va \in Seq(U) /\ vb \in Seq(U) /\ vc \in Seq(U) /\ vd \in Seq(U) /\ ve \in Seq(U) /\ x \in Seq(U)
  BY <1>1, MessagesType
<1>3. Messages(e \o Text(m)) = ve \o x
  BY <1>1, MessagesText
<1>4. PICK w, v, u : w = vd \o ve /\ v = vc \o w /\ u = vb \o v
  OBVIOUS
<1>5. w \in Seq(U) /\ v \in Seq(U) /\ u \in Seq(U) /\ va \o u \in Seq(U)
  <2>1. w \in Seq(U)
    BY <1>2, <1>4, ConcatProperties
  <2>2. v \in Seq(U)
    BY <1>2, <1>4, <2>1, ConcatProperties
  <2>3. u \in Seq(U)
    BY <1>2, <1>4, <2>2, ConcatProperties
  <2> QED
    BY <1>2, <2>1, <2>2, <2>3, ConcatProperties
<1>6. Grouped(va, u, x) /\ Grouped(vb, v, x) /\ Grouped(vc, w, x) /\ Grouped(vd, ve, x)
  BY <1>2, <1>5, GroupedFact
<1>7. va \o (vb \o (vc \o (vd \o (ve \o x)))) = (va \o u) \o x
  BY <1>4, <1>6, Zenon DEF Grouped
<1> QED
  BY <1>1, <1>3, <1>4, <1>5, <1>7 DEF Way

LEMMA OrderQuiet ==
  ASSUME SessionInv, AllAnswered, NEW p \in Natportes, NEW m \in Orders(p), Order(p, m)
  PROVE  AllAnswered'
<1>1. m \in OrderTexts /\ m \in UpTexts /\ m.type \in {"request", "release"}
  BY Parts, OrderTextFact
<1>2. PICK s \in Sockets : /\ s = natporte[p].socket /\ natporte[p] # Down
                          /\ \A q \in Natportes : q # p => natporte[q].socket # s
  BY Parts, RunningSocket DEF Order
<1>3. PICK orders : orders = natporte[p].awaited
  OBVIOUS
<1>4. /\ natporte'[p].socket = s /\ natporte'[p].awaited = Append(orders, m)
      /\ natporte'[p].string_buffer = natporte[p].string_buffer
      /\ \A q \in Natportes : q # p => natporte'[q] = natporte[q]
  <2>1. natporte \in [Natportes -> NatporteTypes]
    BY Parts, NatporteFields
  <2>2. PICK n, new : n = natporte[p] /\ new = [n EXCEPT !.awaited = Append(orders, m)]
    OBVIOUS
  <2>3. natporte' = [natporte EXCEPT ![p] = new]
    BY <1>3, <2>2 DEF Order
  <2>4. n = [socket |-> n.socket, table |-> n.table, awaited |-> n.awaited,
             string_buffer |-> n.string_buffer]
    BY <2>2, Parts, NatporteFields
  <2>5. new.socket = n.socket /\ new.awaited = Append(orders, m) /\ new.string_buffer = n.string_buffer
    BY <2>2, <2>4
  <2> QED
    BY <2>1, <2>2, <2>3, <2>5, <1>2
<1>5. UNCHANGED <<wan_addrs_list, natporte_message, server, to_nat>>
  BY DEF Order, sessionVars
<1>6. PICK U, q, r : U = Tokens /\ q = to_pool[s] /\ r = q \o Text(m)
  OBVIOUS
<1>7. q \in Seq(U) /\ m \in U /\ NL \in U
  BY <1>1, <1>6, Parts, TokensFact DEF Tokens
<1>8. /\ to_pool'[s] = IF Open(s) THEN r ELSE q
      /\ \A t \in Sockets : t # s => to_pool'[t] = to_pool[t]
  <2>1. to_pool' = [to_pool EXCEPT ![s] = IF Open(s) THEN r ELSE q]
    BY <1>2, <1>6 DEF Order
  <2> QED
    BY <2>1, Parts DEF Types
<1>9. \A t : (Listed(t)' <=> Listed(t)) /\ LinesOf(t)' = LinesOf(t)
  BY <1>5 DEF Listed, LinesOf
<1>10. EndFramed(s)'
  <2>1. EndFramed(s)
    BY DEF AllAnswered, EndsFramed
  <2>2. CASE ~Open(s)
    BY <2>1, <2>2, <1>5, <1>6, <1>8, <1>9, EndFramedKept
  <2>3. CASE Open(s)
    <3>1. PICK L : L = Len(q)
      OBVIOUS
    <3>2. /\ r \in Seq(U) /\ L \in Nat /\ DOMAIN r = 1 .. L + 2 /\ DOMAIN q = 1 .. L
          /\ \A i \in 1 .. L : r[i] = q[i]
          /\ r[L + 1] = m /\ r[L + 2] = NL
      <4>1. /\ q \o Text(m) \in Seq(U) /\ Len(q) \in Nat
            /\ Len(q \o Text(m)) = Len(q) + 2 /\ DOMAIN (q \o Text(m)) = 1 .. Len(q) + 2
            /\ \A i \in 1 .. Len(q) : (q \o Text(m))[i] = q[i]
            /\ (q \o Text(m))[Len(q) + 1] = m /\ (q \o Text(m))[Len(q) + 2] = NL
        BY <1>7, TextBehind
      <4>2. DOMAIN q = 1 .. L
        BY <1>7, <3>1, LenProperties
      <4> QED
        BY <4>1, <4>2, <3>1, <1>6
    <3>3. Phase(s)' = Phase(s)
      BY <1>5, <1>9 DEF Phase
    <3>4. m \notin Ends /\ NL \notin Ends
      BY <1>1, UpKinds, EventKinds
    <3>5. ASSUME NEW i \in DOMAIN r, r[i] \in Ends
          PROVE  ~Even(i + Phase(s))
      <4>1. i \in 1 .. L \/ i = L + 1 \/ i = L + 2
        BY <3>2
      <4>2. i \in 1 .. L /\ q[i] \in Ends
        BY <3>2, <3>4, <3>5, <4>1
      <4> QED
        BY <2>1, <4>2, <3>2, <1>6 DEF EndFramed
    <3> QED
      BY <2>1, <2>3, <3>3, <3>5, <1>5, <1>8, <1>9 DEF EndFramed
  <2> QED
    BY <2>2, <2>3
<1>11. Answered(p)'
  <2>1. CASE ~Open(s)
    <3>1. ~Open(s)'
      BY <2>1, <1>6, <1>8, <1>9, OpenKept
    <3>2. ~Connected(p)'
      BY <3>1, <1>4 DEF Connected
    <3> QED
      BY <3>2 DEF Answered
  <2>2. CASE Open(s)
    <3>1. PICK w, O : w = WayAt(p) /\ O = OrderTexts
      OBVIOUS
    <3>2. Paired(w, orders) /\ orders \in Seq(O) /\ m \in O
      <4>1. Connected(p)
        BY <2>2, <1>2 DEF Connected
      <4> QED
        BY <4>1, <3>1, <1>1, <1>3, Parts, NatporteFields DEF AllAnswered, Answered
    <3>3. PICK kept, down, lines, part :
            /\ kept = natporte[p].string_buffer /\ down = to_nat[s] /\ lines = LinesOf(s)
            /\ part = natporte_message[s]
      OBVIOUS
    <3>4. kept \in Seq(U) /\ down \in Seq(U) /\ lines \in Seq(U) /\ part \in Seq(U)
      BY <3>3, <1>6, Parts, TokensFact, KeptTokens, LinesOfFact
    <3>5. w = Way(kept, down, lines, part, q)
      BY <3>1, <3>3, <1>2, <1>6 DEF WayAt
    <3>6. WayAt(p)' = Way(kept, down, lines, part, r)
      <4>1. /\ kept = natporte'[p].string_buffer /\ down = to_nat'[s] /\ lines = LinesOf(s)'
            /\ part = natporte_message'[s] /\ r = to_pool'[s]
        BY <2>2, <3>3, <1>4, <1>5, <1>8, <1>9
      <4> QED
        BY <4>1, <1>4 DEF WayAt, Way, Messages
    <3>7. OfOrder(m)
      BY <1>1 DEF OfOrder
    <3>8. w \in Seq(U) /\ WayAt(p)' = w \o <<m>>
      <4>1. Way(kept, down, lines, part, q) \in Seq(U)
        BY <3>4, <3>7, <1>7, WayText
      <4>2. Way(kept, down, lines, part, q \o Text(m)) = Way(kept, down, lines, part, q) \o <<m>>
        BY <3>4, <3>7, <1>7, WayText
      <4> QED
        BY <4>1, <4>2, <3>5, <3>6, <1>6
    <3>9. Matches(m, m)
      <4>1. CASE m.type = "release"
        BY <4>1 DEF Matches
      <4>2. CASE m.type = "request"
        BY <4>2 DEF Matches
      <4> QED
        BY <4>1, <4>2, <1>1
    <3>10. PICK z : z = WayAt(p)'
      OBVIOUS
    <3>11. Paired(z, Append(orders, m))
      BY <3>2, <3>8, <3>9, <3>10, <1>7, PairedAppend
    <3>12. Paired(WayAt(p)', natporte'[p].awaited)
      BY <3>10, <3>11, <1>4
    <3> QED
      BY <3>12 DEF Answered, Paired, Matches
  <2> QED
    BY <2>1, <2>2
<1>12. \A t \in Sockets : t # s =>
         /\ to_nat'[t] = to_nat[t] /\ to_pool'[t] = to_pool[t]
         /\ natporte_message'[t] = natporte_message[t] /\ (Listed(t)' <=> Listed(t))
         /\ LinesOf(t)' = LinesOf(t)
  BY <1>5, <1>8, <1>9
<1>13. /\ \A a \in Natportes : natporte'[a].socket # s => natporte'[a] = natporte[a] \/ natporte'[a] = Down
       /\ \A a \in Natportes : natporte'[a].socket = s => a = p
  BY <1>2, <1>4
<1> QED
  BY <1>10, <1>11, <1>12, <1>13, Parts, SocketQuiet

\* An event at the front of a stream is no message.
LEMMA MessagesTail ==
  ASSUME NEW U, NEW q \in Seq(U), q # <<>>, ~OfOrder(Head(q))
  PROVE  Messages(Tail(q)) = Messages(q)
<1>1. PICK x, t, y : x = Head(q) /\ t = Tail(q) /\ y = <<x>>
  OBVIOUS
<1>2. PICK n : n = Len(q)
  OBVIOUS
<1>3. /\ t \in Seq(U) /\ n \in Nat /\ n > 0 /\ Len(t) = n - 1 /\ x = q[1] /\ x \in U
      /\ \A i \in 1 .. n - 1 : t[i] = q[i + 1]
  BY <1>1, <1>2, TailFact
<1>4. y \in Seq(U) /\ Len(y) = 1 /\ y[1] = x
  BY <1>1, <1>3
<1>5. PICK z : z = y \o t
  OBVIOUS
<1>6. /\ z \in Seq(U) /\ Len(z) = Len(y) + Len(t)
      /\ \A i \in 1 .. Len(y) + Len(t) : z[i] = IF i <= Len(y) THEN y[i] ELSE t[i - Len(y)]
  <2>1. y \in Seq(U) /\ t \in Seq(U)
    BY <1>3, <1>4
  <2> QED
    BY <2>1, <1>5, ConcatProperties
<1>7. 1 + (n - 1) = n
  BY <1>3
<1>8. Len(z) = n /\ \A i \in 1 .. n : z[i] = IF i <= 1 THEN y[i] ELSE t[i - 1]
  BY <1>3, <1>4, <1>6, <1>7
<1>9. ASSUME NEW i \in 1 .. n
      PROVE  z[i] = q[i]
  <2>1. CASE i = 1
    <3>1. i <= 1
      BY <2>1
    <3>2. z[i] = y[i]
      BY <3>1, <1>8
    <3> QED
      BY <2>1, <3>2, <1>3, <1>4
  <2>2. CASE i # 1
    <3>1. ~(i <= 1) /\ i - 1 \in 1 .. n - 1 /\ (i - 1) + 1 = i
      BY <2>2, <1>3
    <3>2. z[i] = t[i - 1]
      BY <3>1, <1>8
    <3>3. t[i - 1] = q[(i - 1) + 1]
      BY <3>1, <1>3
    <3> QED
      BY <3>1, <3>2, <3>3
  <2> QED
    BY <2>1, <2>2
<1>10. z = q
  BY <1>2, <1>6, <1>8, <1>9, SeqEqual
<1>11. PICK a, b : a = Messages(y) /\ b = Messages(t)
  OBVIOUS
<1>12. Messages(z) = a \o b
  BY <1>3, <1>4, <1>5, <1>11, MessagesConcat
<1>13. a = <<>>
  BY <1>1, <1>11, MessagesOfOne
<1>14. b \in Seq(U)
  BY <1>3, <1>11, MessagesType
<1>15. <<>> \o b = b
  BY <1>14, ConcatEmptySeq
<1> QED
  BY <1>1, <1>10, <1>11, <1>12, <1>13, <1>15

LEMMA ConnectQuiet ==
  ASSUME SessionInv, AllAnswered, NEW s \in Sockets, Connect(s)
  PROVE  AllAnswered'
<1>1. /\ to_pool[s] # <<>> /\ Head(to_pool[s]) = Connecting
      /\ to_pool' = [to_pool EXCEPT ![s] = Tail(@)]
      /\ natporte_message' = [natporte_message EXCEPT ![s] = <<>>]
      /\ DOMAIN wan_addrs_list' = DOMAIN wan_addrs_list \cup {s}
      /\ UNCHANGED <<server, natporte>>
  BY DEF Connect
<1>2. PICK U, q : U = Tokens /\ q = to_pool[s]
  OBVIOUS
<1>3. /\ q \in Seq(U) /\ Len(q) \in Nat /\ q[1] = Connecting /\ 1 \in DOMAIN q
      /\ to_pool'[s] = Tail(q) /\ DOMAIN to_pool'[s] = 1 .. Len(q) - 1
      /\ \A i \in 1 .. Len(q) - 1 : i + 1 \in DOMAIN q /\ to_pool'[s][i] = q[i + 1]
      /\ \A t \in Sockets : t # s => to_pool'[t] = to_pool[t]
  <2>1. to_pool'[s] = Tail(q)
    BY <1>1, <1>2, Parts DEF Types
  <2> QED
    BY <2>1, <1>1, <1>2, UnreadTail, Parts, TokensFact, FramedFact
<1>4. ~Listed(s)
  BY <1>2, <1>3, FramedFact
<1>5. Phase(s) = 1 /\ natporte_message[s] = <<>>
  BY <1>4 DEF Phase, AllAnswered, EndsFramed, EndFramed
<1>6. Listed(s)' /\ (\A t \in Sockets : t # s => (Listed(t)' <=> Listed(t))) /\ \A t : LinesOf(t)' = LinesOf(t)
  BY <1>1 DEF Listed, LinesOf
<1>7. /\ natporte_message'[s] = <<>>
      /\ \A t \in Sockets : t # s => natporte_message'[t] = natporte_message[t]
  BY <1>1, Parts DEF Types
<1>8. PICK d : d = to_nat[s]
  OBVIOUS
<1>9. /\ d \in Seq(U) /\ to_nat'[s] = d \o Text(Initialize)
      /\ \A t \in Sockets : t # s => to_nat'[t] = to_nat[t]
  <2>1. to_nat' = [to_nat EXCEPT ![s] = d \o Text(Initialize)]
    BY <1>8 DEF Connect
  <2> QED
    BY <2>1, <1>2, <1>8, Parts, TokensFact, SameLists
<1>10. EndFramed(s)'
  <2>1. Phase(s)' = 0
    <3>1. Len(<<>>) = 0
      OBVIOUS
    <3> QED
      BY <3>1, <1>6, <1>7 DEF Phase
  <2>2. ASSUME NEW i \in 1 .. Len(q) - 1, q[i + 1] \in Ends
        PROVE  ~Even(i + 0)
    <3>1. ~Even((i + 1) + 1)
      BY <2>2, <1>2, <1>3, <1>5 DEF AllAnswered, EndsFramed, EndFramed
    <3>2. i \in Nat /\ (i + 1) + 1 = i + 2 /\ i + 0 = i
      BY <1>3
    <3> QED
      BY <3>1, <3>2, EvenFact
  <2>3. \A i \in DOMAIN to_pool'[s] : to_pool'[s][i] \in Ends => ~Even(i + 0)
    BY <2>2, <1>3
  <2> QED
    BY <2>1, <2>3, <1>6 DEF EndFramed
<1>11. ASSUME NEW p \in Natportes, natporte[p].socket = s
       PROVE  Answered(p)'
  <2>1. Answered(p)
    BY DEF AllAnswered
  <2>2. CASE natporte[p] = Down
    BY <2>2, <1>1 DEF Answered, Connected
  <2>3. CASE natporte[p] # Down
    <3>1. Connected(p)
      BY <2>3, <1>1, <1>11 DEF Connected, Open
    <3>2. Messages(to_nat'[s]) = Messages(to_nat[s])
      <4>1. ~OfOrder(Initialize) /\ Initialize \in U /\ NL \in U
        BY <1>2 DEF OfOrder, Initialize, Tokens, DownTexts
      <4>2. Messages(d \o Text(Initialize)) = Messages(d)
        BY <4>1, <1>9, MessagesText
      <4> QED
        BY <4>2, <1>8, <1>9
    <3>3. Messages(to_pool'[s]) = Messages(to_pool[s])
      <4>1. ~OfOrder(Connecting)
        BY EventKinds DEF OfOrder
      <4>2. Messages(Tail(q)) = Messages(q)
        BY <4>1, <1>1, <1>2, <1>3, MessagesTail
      <4> QED
        BY <4>2, <1>2, <1>3
    <3>4. Messages(natporte_message'[s]) = Messages(natporte_message[s])
      BY <1>5, <1>7
    <3>5. Messages(LinesOf(s))' = Messages(LinesOf(s))
      BY <1>6 DEF Messages
    <3> QED
      BY <2>1, <3>1, <3>2, <3>3, <3>4, <3>5, <1>1, <1>11, AnsweredKept
  <2> QED
    BY <2>2, <2>3
<1>12. \A t \in Sockets : t # s =>
         /\ to_nat'[t] = to_nat[t] /\ to_pool'[t] = to_pool[t]
         /\ natporte_message'[t] = natporte_message[t] /\ (Listed(t)' <=> Listed(t))
         /\ LinesOf(t)' = LinesOf(t)
  BY <1>3, <1>6, <1>7, <1>9
<1>13. /\ \A a \in Natportes : natporte'[a].socket # s => natporte'[a] = natporte[a] \/ natporte'[a] = Down
       /\ \A a \in Natportes : natporte'[a].socket = s => Answered(a)'
  BY <1>1, <1>11
<1> QED
  BY <1>10, <1>12, <1>13, Parts, SocketQuiet

\* The end of a connection: the stream ends with it, and nothing is left of a
\* line.
LEMMA EndQuiet ==
  ASSUME SessionInv, AllAnswered, NEW s \in Sockets, End(s)
  PROVE  AllAnswered'
<1>1. /\ server = Idle /\ Listed(s) /\ to_pool[s] # <<>> /\ Head(to_pool[s]) = [type |-> "end"]
      /\ to_pool' = [to_pool EXCEPT ![s] = Tail(@)]
      /\ server'.socket = s /\ server'.lines = <<>>
      /\ DOMAIN wan_addrs_list' = DOMAIN wan_addrs_list \ {s}
      /\ UNCHANGED <<natporte_message, to_nat, natporte>>
  BY DEF End, Restrict
<1>2. /\ Len(to_pool[s]) \in Nat /\ Len(to_pool'[s]) = Len(to_pool[s]) - 1
      /\ to_pool[s][1] = [type |-> "end"] /\ 1 \in DOMAIN to_pool[s]
      /\ \A t \in Sockets : t # s => to_pool'[t] = to_pool[t]
      /\ to_pool'[s] \in Seq(UpTexts \cup {NL} \cup Events)
  BY <1>1, UnreadTail, FramedFact
<1>3. to_pool[s][1] \in Ends
  BY <1>2, EventKinds
<1>4. to_pool'[s] = <<>>
  <2>1. Len(to_pool[s]) = 1
    BY <1>2, <1>3, FramedFact
  <2>2. Len(to_pool'[s]) = 0
    BY <2>1, <1>2
  <2> QED
    BY <2>2, <1>2, EmptySeq
<1>5. natporte_message[s] = <<>>
  <2>1. PICK c : c = Len(natporte_message[s])
    OBVIOUS
  <2>2. c \in Nat /\ c <= 1 /\ natporte_message[s] \in Seq(UpTexts)
    BY <2>1, FramedFact
  <2>3. ~Even(1 + c)
    BY <2>1, <1>1, <1>2, <1>3 DEF AllAnswered, EndsFramed, EndFramed, Phase
  <2>4. c = 0
    BY <2>2, <2>3 DEF Even
  <2> QED
    BY <2>1, <2>2, <2>4, EmptySeq
<1>6. ~Listed(s)' /\ \A t \in Sockets : t # s => (Listed(t)' <=> Listed(t))
  BY <1>1 DEF Listed
<1>7. \A t : t # s => LinesOf(t)' = LinesOf(t)
  <2>1. ASSUME NEW t, t # s
        PROVE  LinesOf(t)' = <<>> /\ LinesOf(t) = <<>>
    BY <2>1, <1>1, NoLines, NoLinesLater, DownFields
  <2> QED
    BY <2>1
<1>8. EndFramed(s)'
  BY <1>1, <1>4, <1>5 DEF EndFramed
<1>9. ASSUME NEW p \in Natportes, natporte'[p].socket = s
      PROVE  Answered(p)'
  BY <1>4, <1>6, <1>9 DEF Answered, Connected, Open
<1>10. \A t \in Sockets : t # s =>
         /\ to_nat'[t] = to_nat[t] /\ to_pool'[t] = to_pool[t]
         /\ natporte_message'[t] = natporte_message[t] /\ (Listed(t)' <=> Listed(t))
         /\ LinesOf(t)' = LinesOf(t)
  BY <1>1, <1>2, <1>6, <1>7
<1>11. \A a \in Natportes : natporte'[a].socket # s => natporte'[a] = natporte[a] \/ natporte'[a] = Down
  BY <1>1
<1> QED
  BY <1>8, <1>9, <1>10, <1>11, Parts, SocketQuiet

LEMMA ServerDiesQuiet ==
  ASSUME SessionInv, NEW s \in Sockets, ServerDies(s)
  PROVE  AllAnswered'
<1>1. /\ UNCHANGED <<natporte>> /\ wan_addrs_list' = << >>
      /\ natporte_message' = [t \in Sockets |-> <<>>] /\ to_pool' = [t \in Sockets |-> <<>>]
  BY DEF ServerDies
<1>2. \A t \in Sockets : ~Open(t)'
  BY <1>1 DEF Open, Listed
<1>3. \A t \in Sockets : EndFramed(t)'
  BY <1>1 DEF EndFramed
<1>4. ASSUME NEW p \in Natportes
      PROVE  ~Connected(p)'
  <2>1. CASE natporte[p] = Down
    BY <2>1, <1>1 DEF Connected
  <2>2. CASE natporte[p] # Down
    <3>1. PICK t \in Sockets : t = natporte[p].socket
      BY <2>2, Parts, RunningSocket
    <3>2. ~Open(t)' /\ t = natporte'[p].socket
      BY <3>1, <1>1, <1>2
    <3> QED
      BY <3>2 DEF Connected
  <2> QED
    BY <2>1, <2>2
<1> QED
  BY <1>3, <1>4 DEF AllAnswered, EndsFramed, Answered

LEMMA InitAnswered == Init => AllAnswered
<1> SUFFICES ASSUME Init PROVE AllAnswered
  OBVIOUS
<1>1. \A s \in Sockets : EndFramed(s)
  BY DEF Init, EndFramed
<1>2. \A p \in Natportes : ~Connected(p)
  BY DEF Init, Connected
<1> QED
  BY <1>1, <1>2 DEF AllAnswered, EndsFramed, Answered

\* What the server reads from s: k tokens of the stream q, behind the part of a
\* line that it kept.
Reads(s, q, kept, c, k, lines, N, front, last, rest) ==
    /\ q = to_pool[s] /\ kept = natporte_message[s] /\ c = Len(kept) /\ N = (k + c) \div 2
    /\ lines = split(kept \o SubSeq(q, 1, k)) /\ last = Last(lines) /\ rest = SubSeq(q, k + 1, Len(q))
    /\ c \in Nat /\ c <= 1 /\ kept \in Seq(UpTexts) /\ N \in Nat
    /\ Len(q) \in Nat /\ DOMAIN q = 1 .. Len(q) /\ k \in 1 .. Len(q) /\ k \in Nat
    /\ \A i \in 1 .. k : q[i] \in UpTexts \cup {NL} /\ (q[i] = NL <=> Even(i + c))
    /\ \A i \in 1 .. N :
         /\ i = 1 /\ kept # <<>> => lines[i] = kept
         /\ i # 1 \/ kept = <<>> => 2 * i - 1 - c \in 1 .. k /\ lines[i] = <<q[2 * i - 1 - c]>>
    /\ front \in Seq(Seq(UpTexts)) /\ Len(front) = N /\ DOMAIN front = 1 .. N
    /\ \A i \in 1 .. N : front[i] = lines[i]
    /\ Len(last) = IF Even(k + c) THEN 0 ELSE 1
    /\ ~Even(k + c) => last = <<q[k]>>
    /\ DOMAIN rest = 1 .. Len(q) - k
    /\ \A i \in 1 .. Len(q) - k : i + k \in 1 .. Len(q) /\ rest[i] = q[i + k]
    /\ server'.pc = "lines" /\ server'.socket = s /\ server'.lines = front
    /\ to_pool'[s] = rest /\ natporte_message'[s] = last
    /\ \A t \in Sockets : t # s => to_pool'[t] = to_pool[t] /\ natporte_message'[t] = natporte_message[t]

LEMMA ServerDataReads ==
  ASSUME SessionInv, NEW s \in Sockets, ServerData(s)
  PROVE  \E q, kept, c, k, lines, N, front, last, rest : Reads(s, q, kept, c, k, lines, N, front, last, rest)
<1>1. PICK q : q = to_pool[s]
  OBVIOUS
<1>2. PICK kept : kept = natporte_message[s]
  OBVIOUS
<1>3. PICK c : c = Len(kept)
  OBVIOUS
<1>4. /\ c \in Nat /\ c <= 1 /\ kept \in Seq(UpTexts) /\ q \in Seq(UpTexts \cup {NL} \cup Events)
      /\ Len(q) \in Nat /\ DOMAIN q = 1 .. Len(q)
  BY <1>1, <1>2, <1>3, FramedFact
<1>5. PICK k \in Readable(q) :
        LET lines == split(kept \o SubSeq(q, 1, k)) IN
        /\ to_pool' = [to_pool EXCEPT ![s] = SubSeq(q, k + 1, Len(q))]
        /\ natporte_message' = [natporte_message EXCEPT ![s] = Last(lines)]
        /\ server' = [pc |-> "lines", socket |-> s, lines |-> Front(lines), addrs |-> <<>>]
  BY <1>1, <1>2 DEF ServerData
<1>6. PICK lines : lines = split(kept \o SubSeq(q, 1, k))
  OBVIOUS
<1>7. PICK rest : rest = SubSeq(q, k + 1, Len(q))
  OBVIOUS
<1>8. PICK last : last = Last(lines)
  OBVIOUS
<1>9. PICK front : front = Front(lines)
  OBVIOUS
<1>10. PICK N : N = (k + c) \div 2
  OBVIOUS
<1>11. /\ to_pool' = [to_pool EXCEPT ![s] = rest]
       /\ natporte_message' = [natporte_message EXCEPT ![s] = last]
       /\ server' = [pc |-> "lines", socket |-> s, lines |-> front, addrs |-> <<>>]
  BY <1>5, <1>6, <1>7, <1>8, <1>9
<1>12. /\ server = Idle /\ Listed(s)
  BY DEF ServerData
<1>13. Phase(s) = c
  BY <1>2, <1>3, <1>12 DEF Phase
<1>14. /\ \A i \in 1 .. Len(q) : /\ q[i] \in UpTexts \cup {NL} \cup Events
                                 /\ q[i] # Connecting
                                 /\ q[i] \in Ends => i = Len(q)
                                 /\ q[i] \notin Events => (q[i] = NL <=> Even(i + c))
  BY <1>1, <1>4, <1>12, <1>13, FramedFact
<1>15. /\ k \in 1 .. Len(q) /\ k \in Nat
       /\ \A i \in 1 .. k : i \in 1 .. Len(q) /\ q[i] \in UpTexts \cup {NL} /\ (q[i] = NL <=> Even(i + c))
  <2>1. k \in 1 .. Len(q) /\ \A i \in 1 .. k : q[i] \notin Events
    BY <1>5 DEF Readable
  <2>2. k \in Nat /\ \A i \in 1 .. k : i \in 1 .. Len(q)
    BY <2>1, <1>4
  <2> QED
    BY <2>1, <2>2, <1>14
<1>16. /\ lines \in Seq(Seq(UpTexts)) /\ N \in Nat /\ Len(lines) = N + 1
       /\ \A i \in 1 .. N :
            /\ i = 1 /\ kept # <<>> => lines[i] = kept
            /\ i # 1 \/ kept = <<>> =>
                 /\ 2 * i - 1 - c \in 1 .. k
                 /\ ~Even(2 * i - 1)
                 /\ q[2 * i - 1 - c] \in UpTexts
                 /\ lines[i] = <<q[2 * i - 1 - c]>>
       /\ Even(k + c) => last = <<>>
       /\ ~Even(k + c) => last = <<q[k]>> /\ q[k] \in UpTexts
  <2>1. PICK S, T : S = UpTexts /\ T = UpTexts \cup {NL} \cup Events
    OBVIOUS
  <2>2. /\ NL \notin S /\ kept \in Seq(S) /\ Len(kept) <= 1 /\ q \in Seq(T) /\ k \in 1 .. Len(q)
        /\ \A i \in 1 .. k : q[i] \in S \cup {NL}
        /\ \A i \in 1 .. k : q[i] = NL <=> Even(i + Len(kept))
    <3>1. NL \notin S
      BY <2>1, EventKinds
    <3> QED
      BY <2>1, <3>1, <1>3, <1>4, <1>15
  <2>3. LET ls == split(kept \o SubSeq(q, 1, k))
            h == (k + Len(kept)) \div 2
        IN  /\ ls \in Seq(Seq(S)) /\ h \in Nat /\ Len(ls) = h + 1
            /\ \A i \in 1 .. h :
                 /\ i = 1 /\ kept # <<>> => ls[i] = kept
                 /\ i # 1 \/ kept = <<>> =>
                      /\ 2 * i - 1 - Len(kept) \in 1 .. k
                      /\ ~Even(2 * i - 1)
                      /\ q[2 * i - 1 - Len(kept)] \in S
                      /\ ls[i] = <<q[2 * i - 1 - Len(kept)]>>
            /\ Even(k + Len(kept)) => Last(ls) = <<>>
            /\ ~Even(k + Len(kept)) => Last(ls) = <<q[k]>> /\ q[k] \in S
    BY <2>2, SplitRead
  <2> QED
    BY <2>1, <2>3, <1>3, <1>6, <1>8, <1>10
<1>17. /\ rest \in Seq(UpTexts \cup {NL} \cup Events) /\ Len(rest) = Len(q) - k
       /\ DOMAIN rest = 1 .. Len(q) - k
       /\ \A i \in 1 .. Len(q) - k : i + k \in 1 .. Len(q) /\ rest[i] = q[i + k]
  <2>1. PICK T : T = UpTexts \cup {NL} \cup Events
    OBVIOUS
  <2>2. q \in Seq(T)
    BY <2>1, <1>4
  <2>3. /\ rest \in Seq(T) /\ Len(rest) = Len(q) - k
        /\ DOMAIN rest = 1 .. Len(q) - k
        /\ \A i \in 1 .. Len(q) - k : i + k \in 1 .. Len(q) /\ rest[i] = q[i + k]
    BY <2>2, <1>7, <1>15, RestFact
  <2> QED
    BY <2>1, <2>3
<1>18. /\ front \in Seq(Seq(UpTexts)) /\ Len(front) = N /\ DOMAIN front = 1 .. N
       /\ \A i \in 1 .. N : front[i] = lines[i]
  <2>1. PICK S : S = Seq(UpTexts)
    OBVIOUS
  <2>2. lines \in Seq(S) /\ Len(lines) = N + 1 /\ N \in Nat
    BY <2>1, <1>16
  <2>3. \A i \in 1 .. N : lines[i] \in S
    <3>1. \A i \in 1 .. N : i \in 1 .. Len(lines)
      BY <2>2
    <3> QED
      BY <2>2, <3>1, ElementOfSeq
  <2>4. front = SubSeq(lines, 1, N)
    BY <2>2, <1>9 DEF Front
  <2>5. /\ SubSeq(lines, 1, N) \in Seq(S)
        /\ Len(SubSeq(lines, 1, N)) = IF 1 <= N THEN N - 1 + 1 ELSE 0
        /\ \A i \in 1 .. N - 1 + 1 : SubSeq(lines, 1, N)[i] = lines[1 + i - 1]
    BY <2>2, <2>3, SubSeqProperties
  <2>6. front \in Seq(S) /\ Len(front) = N /\ \A i \in 1 .. N : front[i] = lines[i]
    <3>1. N - 1 + 1 = N /\ (~(1 <= N) => N = 0) /\ \A i \in 1 .. N : 1 + i - 1 = i
      BY <2>2
    <3> QED
      BY <2>4, <2>5, <3>1
  <2> QED
    BY <2>1, <2>6, LenProperties
<1>19. last \in Seq(UpTexts) /\ Len(last) = IF Even(k + c) THEN 0 ELSE 1
  <2>1. CASE Even(k + c)
    BY <2>1, <1>16
  <2>2. CASE ~Even(k + c)
    <3>1. last = <<q[k]>> /\ q[k] \in UpTexts
      BY <2>2, <1>16
    <3> QED
      BY <2>2, <3>1
  <2> QED
    BY <2>1, <2>2
<1>20. /\ to_pool' \in [Sockets -> Seq(UpTexts \cup {NL} \cup Events)] /\ to_pool'[s] = rest
       /\ natporte_message' \in [Sockets -> Seq(UpTexts)] /\ natporte_message'[s] = last
       /\ \A t \in Sockets : t # s =>
            to_pool'[t] = to_pool[t] /\ natporte_message'[t] = natporte_message[t]
  BY <1>11, <1>17, <1>19, Parts DEF Types
<1>21. /\ server'.pc = "lines" /\ server'.socket = s /\ server'.lines = front
       /\ server' \in ServerTypes
  BY <1>11, <1>18 DEF ServerTypes
<1>22. /\ \A i \in 1 .. k : q[i] \in UpTexts \cup {NL} /\ (q[i] = NL <=> Even(i + c))
       /\ \A i \in 1 .. N :
            /\ i = 1 /\ kept # <<>> => lines[i] = kept
            /\ i # 1 \/ kept = <<>> => 2 * i - 1 - c \in 1 .. k /\ lines[i] = <<q[2 * i - 1 - c]>>
  BY <1>15, <1>16
<1>23. Reads(s, q, kept, c, k, lines, N, front, last, rest)
  BY <1>1, <1>2, <1>3, <1>4, <1>6, <1>7, <1>8, <1>10, <1>15, <1>16, <1>17, <1>18, <1>19, <1>20,
     <1>21, <1>22, Zenon DEF Reads
<1> QED
  BY <1>23

\* A read puts what it took into the lines and the part that is kept.
LEMMA ServerDataQuiet ==
  ASSUME SessionInv, AllAnswered, NEW s \in Sockets, ServerData(s)
  PROVE  AllAnswered'
<1>1. PICK q, kept, c, k, lines, N, front, last, rest : Reads(s, q, kept, c, k, lines, N, front, last, rest)
  BY ServerDataReads
<1>2. /\ q = to_pool[s] /\ kept = natporte_message[s] /\ c = Len(kept) /\ N = (k + c) \div 2
      /\ c \in Nat /\ c <= 1 /\ kept \in Seq(UpTexts) /\ N \in Nat
      /\ Len(q) \in Nat /\ DOMAIN q = 1 .. Len(q) /\ k \in 1 .. Len(q) /\ k \in Nat
  BY <1>1 DEF Reads
<1>3. \A i \in 1 .. k : q[i] \in UpTexts \cup {NL} /\ (q[i] = NL <=> Even(i + c))
  BY <1>1 DEF Reads
<1>4. \A i \in 1 .. N :
        /\ i = 1 /\ kept # <<>> => lines[i] = kept
        /\ i # 1 \/ kept = <<>> => 2 * i - 1 - c \in 1 .. k /\ lines[i] = <<q[2 * i - 1 - c]>>
  BY <1>1 DEF Reads
<1>5. DOMAIN front = 1 .. N /\ \A i \in 1 .. N : front[i] = lines[i]
  BY <1>1 DEF Reads
<1>6. /\ lines = split(kept \o SubSeq(q, 1, k)) /\ last = Last(lines) /\ rest = SubSeq(q, k + 1, Len(q))
      /\ Len(last) = IF Even(k + c) THEN 0 ELSE 1
      /\ DOMAIN rest = 1 .. Len(q) - k
      /\ \A i \in 1 .. Len(q) - k : i + k \in 1 .. Len(q) /\ rest[i] = q[i + k]
  BY <1>1 DEF Reads
<1>7. /\ server'.pc = "lines" /\ server'.socket = s /\ server'.lines = front
      /\ to_pool'[s] = rest /\ natporte_message'[s] = last
      /\ \A t \in Sockets : t # s => to_pool'[t] = to_pool[t] /\ natporte_message'[t] = natporte_message[t]
  BY <1>1 DEF Reads
<1>8. server = Idle /\ Listed(s) /\ UNCHANGED <<wan_addrs_list, to_nat, natporte>>
  BY DEF ServerData
<1>9. Phase(s) = c
  BY <1>2, <1>8 DEF Phase
<1>10. \A t : Listed(t)' <=> Listed(t)
  BY <1>8 DEF Listed
<1>11. PICK d : d = Len(last)
  OBVIOUS
<1>12. d \in Nat /\ (Even(d) <=> Even(k + c)) /\ Phase(s)' = d
  <2>1. Phase(s)' = d
    BY <1>8, <1>7, <1>10, <1>11 DEF Phase
  <2>2. CASE Even(k + c)
    BY <2>1, <2>2, <1>6, <1>11, EvenFact
  <2>3. CASE ~Even(k + c)
    BY <2>1, <2>3, <1>6, <1>11, EvenFact
  <2> QED
    BY <2>2, <2>3
<1>13. EndFramed(s)'
  <2>1. ASSUME NEW i \in 1 .. Len(q) - k, rest[i] \in Ends
        PROVE  ~Even(i + d)
    <3>1. i + k \in DOMAIN q /\ q[i + k] \in Ends /\ i \in Nat
      BY <2>1, <1>2, <1>6
    <3>2. ~Even((i + k) + c)
      BY <3>1, <1>2, <1>9 DEF AllAnswered, EndsFramed, EndFramed
    <3>3. /\ i \in Nat /\ k \in Nat /\ c \in Nat /\ d \in Nat
          /\ Even(d) <=> Even(k + c)
      BY <3>1, <1>2, <1>12
    <3> QED
      BY <3>2, <3>3 DEF Even
  <2>2. \A i \in DOMAIN rest : rest[i] \in Ends => ~Even(i + d)
    BY <2>1, <1>6
  <2> QED
    BY <2>2, <1>8, <1>7, <1>10, <1>12 DEF EndFramed
<1>14. PICK U, T : U = Tokens /\ T = [i \in 1 .. N |-> Head(lines[i])]
  OBVIOUS
<1>15. /\ T \in Seq(U) /\ last \in Seq(U) /\ rest \in Seq(U)
       /\ Messages(kept) \o Messages(q) = Messages(T) \o (Messages(last) \o Messages(rest))
  <2>1. PICK S : S = UpTexts
    OBVIOUS
  <2>2. NL \notin S /\ kept \in Seq(S) /\ Len(kept) <= 1 /\ S \subseteq U /\ NL \in U
    BY <2>1, <1>2, <1>14, EventKinds DEF Tokens
  <2>3. q \in Seq(U) /\ k \in 1 .. Len(q) /\ N = (k + Len(kept)) \div 2
    BY <1>2, <1>3, <1>14, Parts, TokensFact
  <2>4. /\ \A i \in 1 .. k : q[i] \in S \cup {NL}
        /\ \A i \in 1 .. k : q[i] = NL <=> Even(i + Len(kept))
    BY <2>1, <1>2, <1>3
  <2>5. MessagesKept(S, U, kept, q, k, lines, N, T)
    <3>1. T = [i \in 1 .. N |-> Head(lines[i])]
      BY <1>14
    <3> QED
      BY <2>2, <2>3, <2>4, <3>1, <1>6, MessagesOfRead
  <2> QED
    BY <2>5, <1>6 DEF MessagesKept
<1>16. LinesOf(s)' = T
  <2>1. ASSUME NEW i \in 1 .. N
        PROVE  front[i] # <<>> /\ front[i] = lines[i]
    <3>1. front[i] = lines[i]
      BY <1>5
    <3>2. CASE i = 1 /\ kept # <<>>
      BY <3>1, <3>2, <1>4
    <3>3. CASE i # 1 \/ kept = <<>>
      <4>1. PICK x : x = q[2 * i - 1 - c]
        OBVIOUS
      <4>2. front[i] = <<x>>
        BY <3>1, <3>3, <4>1, <1>4
      <4> QED
        BY <3>1, <4>2
    <3> QED
      BY <3>2, <3>3
  <2>2. LinesOf(s)' = [i \in DOMAIN front |-> IF front[i] = <<>> THEN NL ELSE Head(front[i])]
    BY <1>7 DEF LinesOf
  <2> QED
    BY <2>1, <2>2, <1>5, <1>14
<1>17. \A t : LinesOf(t) = <<>> /\ (t # s => LinesOf(t)' = <<>>)
  <2>1. ASSUME NEW t
        PROVE  LinesOf(t) = <<>>
    BY <1>8, NoLines, DownFields
  <2>2. ASSUME NEW t, t # s
        PROVE  LinesOf(t)' = <<>>
    BY <2>2, <1>7, NoLinesLater
  <2> QED
    BY <2>1, <2>2
<1>18. ASSUME NEW p \in Natportes, natporte[p].socket = s
       PROVE  Answered(p)'
  <2>1. Answered(p) /\ natporte'[p] = natporte[p]
    BY <1>8 DEF AllAnswered
  <2>2. Connected(p)' => Connected(p)
    BY <1>8, <1>10, <1>18 DEF Connected, Open
  <2>3. PICK hold, down : hold = natporte[p].string_buffer /\ down = to_nat[s]
    OBVIOUS
  <2>4. PICK x, y, none : /\ x = Messages(kept) \o Messages(q) /\ none = <<>>
                          /\ y = Messages(last) \o Messages(rest)
    OBVIOUS
  <2>5. x = Messages(T) \o y
    BY <2>4, <1>15
  <2>6. WayAt(p) = Way(hold, down, none, kept, q)
    BY <2>3, <2>4, <1>2, <1>17, <1>18 DEF WayAt
  <2>7. Messages(none) \o x = x
    <3>1. kept \in Seq(U) /\ q \in Seq(U)
      BY <1>2, <1>14, Parts, TokensFact
    <3>2. PICK v, w : v = Messages(kept) /\ w = Messages(q)
      OBVIOUS
    <3>3. v \in Seq(U) /\ w \in Seq(U)
      BY <3>1, <3>2, MessagesType
    <3>4. x \in Seq(U)
      BY <2>4, <3>2, <3>3, ConcatProperties
    <3>5. Messages(none) = <<>>
      BY <2>4, MessagesOfOne
    <3> QED
      BY <3>4, <3>5, ConcatEmptySeq
  <2>8. WayAt(p) = Messages(hold) \o (Messages(down) \o x)
    BY <2>4, <2>6, <2>7 DEF Way
  <2>9. WayAt(p)' = Way(hold, down, T, last, rest)
    <3>1. /\ hold = natporte'[p].string_buffer /\ down = to_nat'[s] /\ T = LinesOf(s)'
          /\ last = natporte_message'[s] /\ rest = to_pool'[s] /\ natporte'[p].socket = s
      BY <2>1, <2>3, <1>8, <1>7, <1>16, <1>18
    <3> QED
      BY <3>1 DEF WayAt, Way, Messages
  <2>10. WayAt(p)' = Messages(hold) \o (Messages(down) \o x)
    BY <2>4, <2>5, <2>9 DEF Way
  <2>11. WayAt(p)' = WayAt(p)
    BY <2>8, <2>10
  <2> QED
    BY <2>1, <2>2, <2>11 DEF Answered
<1>19. \A t \in Sockets : t # s =>
         /\ to_nat'[t] = to_nat[t] /\ to_pool'[t] = to_pool[t]
         /\ natporte_message'[t] = natporte_message[t] /\ (Listed(t)' <=> Listed(t))
         /\ LinesOf(t)' = LinesOf(t)
  BY <1>8, <1>7, <1>10, <1>17
<1>20. /\ \A a \in Natportes : natporte'[a].socket # s => natporte'[a] = natporte[a] \/ natporte'[a] = Down
       /\ \A a \in Natportes : natporte'[a].socket = s => Answered(a)'
  BY <1>8, <1>18
<1> QED
  BY <1>13, <1>19, <1>20, Parts, SocketQuiet

\* What is left when one more is taken from the front.
LEMMA DropMore ==
  ASSUME NEW O, NEW orders \in Seq(O), NEW j \in Nat, NEW a, a = SubSeq(orders, j + 1, Len(orders))
  PROVE  SubSeq(a, 2, Len(a)) = SubSeq(orders, (j + 1) + 1, Len(orders))
<1>1. PICK L, x, y : /\ L = Len(orders) /\ x = SubSeq(a, 2, Len(a))
                     /\ y = SubSeq(orders, (j + 1) + 1, Len(orders))
  OBVIOUS
<1>2. L \in Nat /\ \A i \in 1 .. L : orders[i] \in O
  BY <1>1, ElementOfSeq, LenProperties
<1>3. PICK M : M = Len(a)
  OBVIOUS
<1>4. /\ a \in Seq(O) /\ M = (IF j + 1 <= L THEN L - (j + 1) + 1 ELSE 0)
      /\ \A i \in 1 .. L - (j + 1) + 1 : a[i] = orders[(j + 1) + i - 1]
  <2>1. \A i \in j + 1 .. L : orders[i] \in O
    BY <1>2
  <2>2. j + 1 \in Int /\ L \in Int
    BY <1>2
  <2> QED
    BY <2>1, <2>2, <1>1, <1>3, SubSeqProperties
<1>5. /\ y \in Seq(O) /\ Len(y) = (IF (j + 1) + 1 <= L THEN L - ((j + 1) + 1) + 1 ELSE 0)
      /\ \A i \in 1 .. L - ((j + 1) + 1) + 1 : y[i] = orders[((j + 1) + 1) + i - 1]
  <2>1. \A i \in (j + 1) + 1 .. L : orders[i] \in O
    BY <1>2
  <2>2. (j + 1) + 1 \in Int /\ L \in Int
    BY <1>2
  <2> QED
    BY <2>1, <2>2, <1>1, SubSeqProperties
<1>6. M \in Nat /\ \A i \in 1 .. M : a[i] \in O
  BY <1>3, <1>4, ElementOfSeq, LenProperties
<1>7. /\ x \in Seq(O) /\ Len(x) = (IF 2 <= M THEN M - 2 + 1 ELSE 0)
      /\ \A i \in 1 .. M - 2 + 1 : x[i] = a[2 + i - 1]
  <2>1. \A i \in 2 .. M : a[i] \in O
    <3>1. \A i \in 2 .. M : i \in 1 .. M
      BY <1>6
    <3> QED
      BY <3>1, <1>6
  <2> QED
    BY <2>1, <1>1, <1>3, <1>6, SubSeqProperties
<1>8. Len(x) = Len(y)
  BY <1>2, <1>4, <1>5, <1>7
<1>9. ASSUME NEW i \in 1 .. Len(x)
      PROVE  x[i] = y[i]
  <2>1. i \in 1 .. M - 2 + 1 /\ 2 + i - 1 = i + 1 /\ i + 1 \in 1 .. L - (j + 1) + 1 /\ i \in Nat
    BY <1>2, <1>4, <1>6, <1>7
  <2>2. x[i] = orders[(j + 1) + (i + 1) - 1]
    BY <2>1, <1>4, <1>7
  <2>3. i \in 1 .. L - ((j + 1) + 1) + 1
    BY <2>1, <1>2
  <2>4. y[i] = orders[((j + 1) + 1) + i - 1]
    BY <2>3, <1>5
  <2>5. (j + 1) + (i + 1) - 1 = ((j + 1) + 1) + i - 1
    BY <2>1
  <2> QED
    BY <2>2, <2>4, <2>5
<1>10. x = y
  BY <1>5, <1>7, <1>8, <1>9, SeqEqual
<1> QED
  BY <1>1, <1>10

LEMMA HandledAwaited ==
  ASSUME NEW n \in NatporteTypes, NEW m \in DownTexts
  PROVE  /\ Handled(n, m) \in NatporteTypes /\ Handled(n, m).socket = n.socket
         /\ Handled(n, m).awaited = IF OfOrder(m) THEN SubSeq(n.awaited, 2, Len(n.awaited)) ELSE n.awaited
<1>1. Handled(n, m) \in NatporteTypes /\ Handled(n, m).socket = n.socket
  <2>1. m.type = "request_ack" => [protocol |-> m.protocol, entry |-> m.entry] \in Held
    BY DownKinds DEF Held
  <2>2. n.table \subseteq Held
    BY DEF NatporteTypes
  <2> QED
    BY <2>1, <2>2, HandledFact
<1>2. OfOrder(m) <=> m # Initialize
  BY DownKinds DEF OfOrder
<1>3. CASE m = Initialize
  BY <1>1, <1>2, <1>3 DEF Handled
<1>4. CASE m # Initialize
  <2>1. PICK t, a : t = Applied(n.table, m) /\ a = SubSeq(n.awaited, 2, Len(n.awaited))
    OBVIOUS
  <2>2. n = [socket |-> n.socket, table |-> n.table, awaited |-> n.awaited,
             string_buffer |-> n.string_buffer]
    BY DEF NatporteTypes
  <2>3. Handled(n, m) = [n EXCEPT !.table = t, !.awaited = a]
    BY <2>1, <1>4 DEF Handled
  <2>4. Handled(n, m).awaited = a
    BY <2>2, <2>3
  <2> QED
    BY <2>1, <2>4, <1>1, <1>2, <1>4
<1> QED
  BY <1>3, <1>4

\* Each answer but initialize takes the first order that is awaited.
LEMMA AwaitedLeft ==
  ASSUME NEW n \in NatporteTypes, NEW lines, NEW N \in Nat, NEW F, HandledAll(F, n, lines, N),
         NEW T \in Seq(DownTexts), Len(T) = N, \A i \in 1 .. N : T[i] = Head(lines[i])
  PROVE  /\ F[N].socket = n.socket /\ F[N] \in NatporteTypes
         /\ F[N].awaited = SubSeq(n.awaited, Len(Messages(T)) + 1, Len(n.awaited))
<1>1. PICK orders, D : orders = n.awaited /\ D = DownTexts
  OBVIOUS
<1>2. orders \in Seq(OrderTexts) /\ T \in Seq(D)
  BY <1>1 DEF NatporteTypes
<1>3. PICK G : FoundBy(G, T, N)
  BY FoundExists
<1>4. \A k \in 0 .. N : G[k] \in Seq(D)
  BY <1>2, <1>3, FoundTypes
<1>5. /\ G[0] = <<>>
      /\ \A k \in 0 .. N : k < N => G[k + 1] = IF OfOrder(T[k + 1]) THEN Append(G[k], T[k + 1]) ELSE G[k]
  BY <1>3, FoundAt
<1> DEFINE Good(k) == /\ F[k] \in NatporteTypes /\ F[k].socket = n.socket
                      /\ F[k].awaited = SubSeq(orders, Len(G[k]) + 1, Len(orders))
           Goods == {k \in 0 .. N : Good(k)}
<1>6. 0 \in Goods
  <2>1. F[0] = n /\ 0 \in 0 .. N
    BY DEF HandledAll
  <2>2. Len(G[0]) + 1 = 1
    BY <1>5
  <2>3. SubSeq(orders, 1, Len(orders)) = orders
    BY <1>2, SubSeqFull
  <2> QED
    BY <2>1, <2>2, <2>3, <1>1
<1>7. ASSUME NEW k \in 0 .. N, k < N, k \in Goods
      PROVE  k + 1 \in Goods
  <2>1. k + 1 \in 1 .. N /\ k + 1 # 0 /\ (k + 1) - 1 = k /\ k + 1 \in 0 .. N
    BY <1>7
  <2>2. PICK m : m = T[k + 1]
    OBVIOUS
  <2>3. m \in DownTexts /\ m = Head(lines[k + 1])
    <3>1. T[k + 1] \in D
      BY <2>1, <1>2, ElementOfSeq
    <3> QED
      BY <3>1, <2>1, <2>2, <1>1
  <2>4. F[k + 1] = Handled(F[k], m)
    <3>1. F[k + 1] = IF k + 1 = 0 THEN n ELSE Handled(F[(k + 1) - 1], Head(lines[k + 1]))
      BY <2>1 DEF HandledAll
    <3> QED
      BY <2>1, <2>3, <3>1
  <2>5. Good(k)
    BY <1>7
  <2>6. PICK f : f = F[k]
    OBVIOUS
  <2>7. /\ f \in NatporteTypes /\ f.socket = n.socket
        /\ f.awaited = SubSeq(orders, Len(G[k]) + 1, Len(orders))
    BY <2>5, <2>6
  <2>8. /\ Handled(f, m) \in NatporteTypes /\ Handled(f, m).socket = f.socket
        /\ Handled(f, m).awaited = IF OfOrder(m) THEN SubSeq(f.awaited, 2, Len(f.awaited)) ELSE f.awaited
    BY <2>3, <2>7, HandledAwaited
  <2>9. Len(G[k]) \in Nat
    BY <1>4, <1>7, LenProperties
  <2>10. F[k + 1].awaited = SubSeq(orders, Len(G[k + 1]) + 1, Len(orders))
    <3>1. CASE OfOrder(m)
      <4>1. G[k + 1] = Append(G[k], m)
        BY <3>1, <2>2, <1>5, <1>7
      <4>2. Len(G[k + 1]) = Len(G[k]) + 1
        <5>1. PICK g : g = G[k]
          OBVIOUS
        <5>2. g \in Seq(D) /\ m \in D
          BY <5>1, <2>3, <1>1, <1>4, <1>7
        <5>3. Len(Append(g, m)) = Len(g) + 1
          BY <5>2, AppendProperties
        <5> QED
          BY <5>1, <5>3, <4>1
      <4>3. PICK j, O : j = Len(G[k]) /\ O = OrderTexts
        OBVIOUS
      <4>4. SubSeq(f.awaited, 2, Len(f.awaited)) = SubSeq(orders, (j + 1) + 1, Len(orders))
        BY <4>3, <2>7, <2>9, <1>2, DropMore
      <4> QED
        BY <4>2, <4>3, <4>4, <3>1, <2>4, <2>6, <2>8
    <3>2. CASE ~OfOrder(m)
      <4>1. G[k + 1] = G[k]
        BY <3>2, <2>2, <1>5, <1>7
      <4> QED
        BY <4>1, <3>2, <2>4, <2>6, <2>7, <2>8
    <3> QED
      BY <3>1, <3>2
  <2> QED
    BY <2>1, <2>4, <2>6, <2>7, <2>8, <2>10
<1> HIDE DEF Goods
<1>8. 0 .. N \subseteq Goods
  BY <1>6, <1>7, UpTo
<1>9. Good(N)
  <2>1. N \in Goods
    BY <1>8
  <2> HIDE DEF Good
  <2> QED
    BY <2>1 DEF Goods
<1>10. Messages(T) = G[N]
  BY <1>3, MessagesBy
<1> QED
  BY <1>1, <1>9, <1>10

\* Three parts of a sequence, one of which is cut anew.
Recut(a, b, c, d, e, z) == a \o b = d \o (e \o c) => a \o (b \o z) = d \o (e \o (c \o z))

LEMMA RecutFact ==
  ASSUME NEW U, NEW a \in Seq(U), NEW b \in Seq(U), NEW c \in Seq(U), NEW d \in Seq(U),
         NEW e \in Seq(U), NEW z \in Seq(U)
  PROVE  Recut(a, b, c, d, e, z)
<1>1. e \o c \in Seq(U)
  BY ConcatProperties
<1>2. Grouped(a, b, z) /\ Grouped(d, e \o c, z) /\ Grouped(e, c, z)
  BY <1>1, GroupedFact
<1> QED
  BY <1>2, Zenon DEF Grouped, Recut

-----------------------------------------------------------------------------
(* The table behind a sequence of answers *)

ReplayedBy(F, table, answers, N) ==
    F = [i \in 0 .. N |-> IF i = 0 THEN table ELSE Applied(F[i - 1], answers[i])]

LEMMA ReplayedAt ==
  ASSUME NEW table, NEW answers, NEW N \in Nat, NEW F, ReplayedBy(F, table, answers, N)
  PROVE  /\ F[0] = table
         /\ \A k \in 0 .. N : k < N => F[k + 1] = Applied(F[k], answers[k + 1])
<1>1. F[0] = table
  BY DEF ReplayedBy
<1>2. ASSUME NEW k \in 0 .. N, k < N
      PROVE  F[k + 1] = Applied(F[k], answers[k + 1])
  <2>1. k + 1 \in 0 .. N /\ k + 1 # 0 /\ (k + 1) - 1 = k
    BY <1>2
  <2>2. F[k + 1] = IF k + 1 = 0 THEN table ELSE Applied(F[(k + 1) - 1], answers[k + 1])
    BY <2>1 DEF ReplayedBy
  <2> QED
    BY <2>1, <2>2
<1> QED
  BY <1>1, <1>2

LEMMA ReplayedExists ==
  ASSUME NEW table, NEW answers, NEW N \in Nat
  PROVE  \E F : ReplayedBy(F, table, answers, N)
<1> DEFINE T == {k \in 0 .. N : \E F : ReplayedBy(F, table, answers, k)}
<1>1. 0 \in T
  <2> DEFINE F == [i \in 0 .. 0 |-> table]
  <2>1. F = [i \in 0 .. 0 |-> IF i = 0 THEN table ELSE Applied(F[i - 1], answers[i])]
    OBVIOUS
  <2> HIDE DEF F
  <2>2. ReplayedBy(F, table, answers, 0)
    BY <2>1 DEF ReplayedBy
  <2>3. 0 \in 0 .. N
    OBVIOUS
  <2> QED
    BY <2>2, <2>3
<1>2. ASSUME NEW k \in 0 .. N, k < N, k \in T
      PROVE  k + 1 \in T
  <2>1. PICK F : ReplayedBy(F, table, answers, k)
    BY <1>2
  <2>2. PICK next : next = Applied(F[k], answers[k + 1])
    OBVIOUS
  <2> DEFINE G == [i \in 0 .. k + 1 |-> IF i = k + 1 THEN next ELSE F[i]]
  <2>3. ASSUME NEW i \in 0 .. k + 1
        PROVE  G[i] = IF i = 0 THEN table ELSE Applied(G[i - 1], answers[i])
    <3>1. CASE i = k + 1
      <4>1. i # 0 /\ i - 1 = k /\ k \in 0 .. k + 1 /\ k # k + 1
        BY <3>1
      <4>2. G[k] = F[k] /\ G[i] = next
        BY <3>1, <4>1
      <4> HIDE DEF G
      <4> QED
        BY <3>1, <4>1, <4>2, <2>2
    <3>2. CASE i # k + 1
      <4>1. i \in 0 .. k
        BY <3>2
      <4>2. F[i] = IF i = 0 THEN table ELSE Applied(F[i - 1], answers[i])
        BY <2>1, <4>1 DEF ReplayedBy
      <4>3. i # 0 => i - 1 \in 0 .. k + 1 /\ i - 1 # k + 1
        BY <4>1
      <4>4. G[i] = F[i] /\ (i # 0 => G[i - 1] = F[i - 1])
        BY <3>2, <4>3
      <4> HIDE DEF G
      <4> QED
        BY <4>2, <4>4
    <3> QED
      BY <3>1, <3>2
  <2>4. G = [i \in 0 .. k + 1 |-> G[i]]
    OBVIOUS
  <2> HIDE DEF G
  <2>5. ReplayedBy(G, table, answers, k + 1)
    BY <2>3, <2>4 DEF ReplayedBy
  <2>6. k + 1 \in 0 .. N
    BY <1>2
  <2> QED
    BY <2>5, <2>6
<1> HIDE DEF T
<1>3. 0 .. N \subseteq T
  BY <1>1, <1>2, UpTo
<1> QED
  BY <1>3 DEF T

\* The recursive function of Replayed exists, and there is no other.
LEMMA ReplayedIs ==
  ASSUME NEW table, NEW answers, NEW N \in Nat, Len(answers) = N,
         NEW F, ReplayedBy(F, table, answers, N)
  PROVE  Replayed(table, answers) = F[N]
<1> DEFINE G == CHOOSE H : ReplayedBy(H, table, answers, Len(answers))
<1>1. Replayed(table, answers) = G[Len(answers)]
  BY DEF Replayed, ReplayedBy
<1>2. ReplayedBy(G, table, answers, N)
  BY ReplayedExists
<1> HIDE DEF G
<1> DEFINE T == {k \in 0 .. N : F[k] = G[k]}
<1>3. 0 \in T
  <2>1. F[0] = table
    BY ReplayedAt
  <2>2. G[0] = table
    BY <1>2, ReplayedAt
  <2>3. 0 \in 0 .. N
    OBVIOUS
  <2> QED
    BY <2>1, <2>2, <2>3
<1>4. ASSUME NEW k \in 0 .. N, k < N, k \in T
      PROVE  k + 1 \in T
  <2>1. k + 1 \in 0 .. N /\ F[k] = G[k]
    BY <1>4
  <2>2. F[k + 1] = Applied(F[k], answers[k + 1])
    BY <1>4, ReplayedAt
  <2>3. G[k + 1] = Applied(G[k], answers[k + 1])
    BY <1>2, <1>4, ReplayedAt
  <2> QED
    BY <2>1, <2>2, <2>3
<1> HIDE DEF T
<1>5. 0 .. N \subseteq T
  BY <1>3, <1>4, UpTo
<1>6. N \in 0 .. N
  OBVIOUS
<1> QED
  BY <1>1, <1>5, <1>6 DEF T

LEMMA ReplayedOfOne ==
  ASSUME NEW table
  PROVE  /\ Replayed(table, <<>>) = table
         /\ \A m : Replayed(table, <<m>>) = Applied(table, m)
<1>1. Replayed(table, <<>>) = table
  <2>1. PICK F : ReplayedBy(F, table, <<>>, 0)
    BY ReplayedExists
  <2>2. Len(<<>>) = 0
    OBVIOUS
  <2>3. F[0] = table
    BY <2>1, ReplayedAt
  <2>4. Replayed(table, <<>>) = F[0]
    BY <2>1, <2>2, ReplayedIs
  <2> QED
    BY <2>3, <2>4
<1>2. ASSUME NEW m
      PROVE  Replayed(table, <<m>>) = Applied(table, m)
  <2>1. PICK q : q = <<m>>
    OBVIOUS
  <2>2. Len(q) = 1 /\ q[1] = m /\ 0 + 1 = 1 /\ 0 \in 0 .. 1 /\ 0 < 1
    BY <2>1
  <2>3. PICK F : ReplayedBy(F, table, q, 1)
    BY ReplayedExists
  <2>4. F[0] = table /\ F[0 + 1] = Applied(F[0], q[0 + 1])
    BY <2>2, <2>3, ReplayedAt
  <2>5. Replayed(table, q) = F[1]
    BY <2>2, <2>3, ReplayedIs
  <2> QED
    BY <2>1, <2>2, <2>4, <2>5
<1> QED
  BY <1>1, <1>2

\* Answers are taken in where those before them left the table.
LEMMA ReplayedConcat ==
  ASSUME NEW S, NEW s \in Seq(S), NEW t \in Seq(S), NEW table
  PROVE  Replayed(table, s \o t) = Replayed(Replayed(table, s), t)
<1>1. PICK L, N : L = Len(s) /\ N = Len(t)
  OBVIOUS
<1>2. PICK q, K : q = s \o t /\ K = L + N
  OBVIOUS
<1>3. /\ L \in Nat /\ N \in Nat /\ Len(q) = K /\ K \in Nat
      /\ \A i \in 1 .. K : q[i] = IF i <= L THEN s[i] ELSE t[i - L]
  <2>1. L \in Nat /\ N \in Nat
    BY <1>1, LenProperties
  <2>2. /\ q \in Seq(S) /\ Len(q) = L + N
        /\ \A i \in 1 .. L + N : q[i] = IF i <= L THEN s[i] ELSE t[i - L]
    BY <1>1, <1>2, ConcatProperties
  <2> QED
    BY <2>1, <2>2, <1>2
<1>4. PICK F : ReplayedBy(F, table, q, K)
  BY <1>3, ReplayedExists
<1>5. PICK G : ReplayedBy(G, table, s, L)
  BY <1>3, ReplayedExists
<1>6. PICK middle : middle = G[L]
  OBVIOUS
<1>7. PICK H : ReplayedBy(H, middle, t, N)
  BY <1>3, ReplayedExists
<1>8. /\ F[0] = table /\ \A k \in 0 .. K : k < K => F[k + 1] = Applied(F[k], q[k + 1])
      /\ G[0] = table /\ \A k \in 0 .. L : k < L => G[k + 1] = Applied(G[k], s[k + 1])
      /\ H[0] = middle /\ \A k \in 0 .. N : k < N => H[k + 1] = Applied(H[k], t[k + 1])
  <2>0. K \in Nat /\ L \in Nat /\ N \in Nat
    BY <1>3
  <2>1. F[0] = table /\ \A k \in 0 .. K : k < K => F[k + 1] = Applied(F[k], q[k + 1])
    BY <2>0, <1>4, ReplayedAt
  <2>2. G[0] = table /\ \A k \in 0 .. L : k < L => G[k + 1] = Applied(G[k], s[k + 1])
    BY <2>0, <1>5, ReplayedAt
  <2>3. H[0] = middle /\ \A k \in 0 .. N : k < N => H[k + 1] = Applied(H[k], t[k + 1])
    BY <2>0, <1>7, ReplayedAt
  <2> QED
    BY <2>1, <2>2, <2>3
<1>9. F[L] = middle
  <2> DEFINE T == {k \in 0 .. L : F[k] = G[k]}
  <2>1. 0 \in T
    BY <1>3, <1>8
  <2>2. ASSUME NEW k \in 0 .. L, k < L, k \in T
        PROVE  k + 1 \in T
    <3>1. /\ k + 1 \in 0 .. L /\ k \in 0 .. K /\ k < K
          /\ k + 1 \in 1 .. K /\ k + 1 <= L /\ F[k] = G[k]
      BY <2>2, <1>2, <1>3
    <3>2. q[k + 1] = s[k + 1]
      BY <3>1, <1>3
    <3> QED
      BY <2>2, <3>1, <3>2, <1>8
  <2> HIDE DEF T
  <2>3. 0 .. L \subseteq T
    BY <2>1, <2>2, <1>3, UpTo
  <2>4. L \in 0 .. L
    BY <1>3
  <2> QED
    BY <2>3, <2>4, <1>6 DEF T
<1>10. F[K] = H[N]
  <2> DEFINE T == {k \in 0 .. N : F[L + k] = H[k]}
  <2>1. 0 \in T
    <3>1. L + 0 = L /\ 0 \in 0 .. N
      BY <1>3
    <3> QED
      BY <3>1, <1>8, <1>9
  <2>2. ASSUME NEW k \in 0 .. N, k < N, k \in T
        PROVE  k + 1 \in T
    <3>1. PICK j : j = L + k
      OBVIOUS
    <3>2. /\ k + 1 \in 0 .. N /\ j \in 0 .. K /\ j < K /\ L + (k + 1) = j + 1
          /\ j + 1 \in 1 .. K /\ ~(j + 1 <= L) /\ (j + 1) - L = k + 1
      BY <2>2, <3>1, <1>2, <1>3
    <3>3. F[j + 1] = Applied(F[j], q[j + 1]) /\ q[j + 1] = t[k + 1]
      BY <3>2, <1>3, <1>8
    <3>4. H[k + 1] = Applied(H[k], t[k + 1])
      BY <2>2, <1>8
    <3>5. F[j] = H[k]
      BY <2>2, <3>1
    <3>6. F[L + (k + 1)] = H[k + 1]
      BY <3>2, <3>3, <3>4, <3>5
    <3> QED
      BY <3>2, <3>6
  <2> HIDE DEF T
  <2>3. 0 .. N \subseteq T
    BY <2>1, <2>2, <1>3, UpTo
  <2>4. N \in 0 .. N
    BY <1>3
  <2> QED
    BY <2>3, <2>4, <1>2 DEF T
<1>11. Replayed(table, q) = F[K]
  BY <1>3, <1>4, ReplayedIs
<1>12. Replayed(table, s) = middle
  BY <1>1, <1>3, <1>5, <1>6, ReplayedIs
<1>13. Replayed(middle, t) = H[N]
  BY <1>1, <1>3, <1>7, ReplayedIs
<1> QED
  BY <1>2, <1>10, <1>11, <1>12, <1>13

ReplaySteps(F, table, answers, N) ==
    /\ ReplayedBy(F, table, answers, N) /\ F[0] = table
    /\ \A k \in 0 .. N : k < N => F[k + 1] = Applied(F[k], answers[k + 1])

LEMMA ReplayExists ==
  ASSUME NEW table, NEW answers, NEW N \in Nat
  PROVE  \E F : ReplaySteps(F, table, answers, N)
<1>1. PICK F : ReplayedBy(F, table, answers, N)
  BY ReplayedExists
<1>2. F[0] = table /\ \A k \in 0 .. N : k < N => F[k + 1] = Applied(F[k], answers[k + 1])
  BY <1>1, ReplayedAt
<1>3. ReplaySteps(F, table, answers, N)
  BY <1>1, <1>2 DEF ReplaySteps
<1> QED
  BY <1>3

AnswerKinds(answers, N) ==
    \A i \in 1 .. N :
      answers[i].type \in {"request_ack", "release_ack", "request_discard", "initialize"}

\* Answer i put c into the table.
Acknowledges(answers, i, c) ==
    /\ answers[i].type = "request_ack"
    /\ c = [protocol |-> answers[i].protocol, entry |-> answers[i].entry]

\* Whatever comes into the table comes from an acknowledgement.
LEMMA ReplayedFrom ==
  ASSUME NEW table, NEW answers, NEW N \in Nat, Len(answers) = N, AnswerKinds(answers, N),
         NEW c \in Replayed(table, answers)
  PROVE  c \in table \/ \E i \in 1 .. N : Acknowledges(answers, i, c)
<1>1. PICK F : ReplaySteps(F, table, answers, N)
  BY ReplayExists
<1>2. /\ ReplayedBy(F, table, answers, N) /\ F[0] = table
      /\ \A k \in 0 .. N : k < N => F[k + 1] = Applied(F[k], answers[k + 1])
  BY <1>1 DEF ReplaySteps
<1> DEFINE Acked == {i \in 1 .. N : Acknowledges(answers, i, c)}
<1> DEFINE T == {k \in 0 .. N : c \in F[k] => c \in table \/ Acked # {}}
<1>3. 0 \in T
  <2>1. 0 \in 0 .. N /\ F[0] = table
    BY <1>2
  <2> HIDE DEF Acked
  <2> QED
    BY <2>1
<1>4. ASSUME NEW k \in 0 .. N, k < N, k \in T
      PROVE  k + 1 \in T
  <2>1. k + 1 \in 0 .. N /\ k + 1 \in 1 .. N
    BY <1>4
  <2>2. SUFFICES ASSUME c \in F[k + 1]
                 PROVE  c \in table \/ Acked # {}
    BY <2>1
  <2>3. PICK m, f : m = answers[k + 1] /\ f = F[k]
    OBVIOUS
  <2>4. c \in Applied(f, m) /\ m.type \in {"request_ack", "release_ack", "request_discard", "initialize"}
    BY <2>1, <2>2, <2>3, <1>2, <1>4 DEF AnswerKinds
  <2>5. c \in f \/ (m.type = "request_ack" /\ c = [protocol |-> m.protocol, entry |-> m.entry])
    <3>1. CASE m.type = "request_ack"
      BY <2>4, <3>1 DEF Applied
    <3>2. CASE m.type = "release_ack"
      BY <2>4, <3>2 DEF Applied
    <3>3. CASE m.type \in {"request_discard", "initialize"}
      BY <2>4, <3>3 DEF Applied
    <3> QED
      BY <2>4, <3>1, <3>2, <3>3
  <2>6. CASE c \in f
    BY <2>3, <2>6, <1>4
  <2>7. CASE m.type = "request_ack" /\ c = [protocol |-> m.protocol, entry |-> m.entry]
    BY <2>1, <2>3, <2>7 DEF Acknowledges
  <2> QED
    BY <2>5, <2>6, <2>7
<1> HIDE DEF T
<1>5. 0 .. N \subseteq T
  BY <1>3, <1>4, UpTo
<1>6. N \in T
  BY <1>5
<1>7. Replayed(table, answers) = F[N]
  BY <1>2, ReplayedIs
<1> QED
  BY <1>6, <1>7 DEF T

LEMMA ReplayedAppend ==
  ASSUME NEW S, NEW answers \in Seq(S), NEW m \in S, NEW table
  PROVE  Replayed(table, Append(answers, m)) = Applied(Replayed(table, answers), m)
<1>1. PICK q, t : q = <<m>> /\ t = Replayed(table, answers)
  OBVIOUS
<1>2. q \in Seq(S) /\ Append(answers, m) = answers \o q
  BY <1>1, AppendIsConcat
<1>3. Replayed(table, answers \o q) = Replayed(t, q)
  BY <1>1, <1>2, ReplayedConcat
<1>4. Replayed(t, q) = Applied(t, m)
  BY <1>1, ReplayedOfOne
<1> QED
  BY <1>1, <1>2, <1>3, <1>4

LEMMA HandledTable ==
  ASSUME NEW n \in NatporteTypes, NEW m \in DownTexts
  PROVE  /\ Handled(n, m) \in NatporteTypes
         /\ Handled(n, m).table = IF OfOrder(m) THEN Applied(n.table, m) ELSE n.table
<1>1. Handled(n, m) \in NatporteTypes
  BY HandledAwaited
<1>2. OfOrder(m) <=> m # Initialize
  BY DownKinds DEF OfOrder
<1>3. CASE m = Initialize
  BY <1>1, <1>2, <1>3 DEF Handled
<1>4. CASE m # Initialize
  <2>1. PICK t, a : t = Applied(n.table, m) /\ a = SubSeq(n.awaited, 2, Len(n.awaited))
    OBVIOUS
  <2>2. n = [socket |-> n.socket, table |-> n.table, awaited |-> n.awaited,
             string_buffer |-> n.string_buffer]
    BY DEF NatporteTypes
  <2>3. Handled(n, m) = [n EXCEPT !.table = t, !.awaited = a]
    BY <2>1, <1>4 DEF Handled
  <2>4. Handled(n, m).table = t
    BY <2>2, <2>3
  <2> QED
    BY <2>1, <2>4, <1>1, <1>2, <1>4
<1> QED
  BY <1>3, <1>4

\* The answers of the lines that were read are taken in, one after the other.
LEMMA TableLeft ==
  ASSUME NEW n \in NatporteTypes, NEW lines, NEW N \in Nat, NEW F, HandledAll(F, n, lines, N),
         NEW T \in Seq(DownTexts), Len(T) = N, \A i \in 1 .. N : T[i] = Head(lines[i])
  PROVE  F[N].table = Replayed(n.table, Messages(T))
<1>1. PICK table, D : table = n.table /\ D = DownTexts
  OBVIOUS
<1>2. T \in Seq(D)
  BY <1>1
<1>3. PICK G : FoundBy(G, T, N)
  BY FoundExists
<1>4. \A k \in 0 .. N : G[k] \in Seq(D)
  BY <1>2, <1>3, FoundTypes
<1>5. /\ G[0] = <<>>
      /\ \A k \in 0 .. N : k < N => G[k + 1] = IF OfOrder(T[k + 1]) THEN Append(G[k], T[k + 1]) ELSE G[k]
  BY <1>3, FoundAt
<1> DEFINE Good(k) == F[k] \in NatporteTypes /\ F[k].table = Replayed(table, G[k])
           Goods == {k \in 0 .. N : Good(k)}
<1>6. 0 \in Goods
  <2>1. F[0] = n /\ 0 \in 0 .. N
    BY DEF HandledAll
  <2>2. Replayed(table, G[0]) = table
    BY <1>5, ReplayedOfOne
  <2> QED
    BY <2>1, <2>2, <1>1
<1>7. ASSUME NEW k \in 0 .. N, k < N, k \in Goods
      PROVE  k + 1 \in Goods
  <2>1. k + 1 \in 1 .. N /\ k + 1 # 0 /\ (k + 1) - 1 = k /\ k + 1 \in 0 .. N
    BY <1>7
  <2>2. PICK m : m = T[k + 1]
    OBVIOUS
  <2>3. m \in DownTexts /\ m = Head(lines[k + 1])
    <3>1. T[k + 1] \in D
      BY <2>1, <1>2, ElementOfSeq
    <3> QED
      BY <3>1, <2>1, <2>2, <1>1
  <2>4. F[k + 1] = Handled(F[k], m)
    <3>1. F[k + 1] = IF k + 1 = 0 THEN n ELSE Handled(F[(k + 1) - 1], Head(lines[k + 1]))
      BY <2>1 DEF HandledAll
    <3> QED
      BY <2>1, <2>3, <3>1
  <2>5. Good(k)
    BY <1>7
  <2>6. PICK f, g : f = F[k] /\ g = G[k]
    OBVIOUS
  <2>7. f \in NatporteTypes /\ f.table = Replayed(table, g) /\ g \in Seq(D)
    BY <2>5, <2>6, <1>4, <1>7
  <2>8. /\ Handled(f, m) \in NatporteTypes
        /\ Handled(f, m).table = IF OfOrder(m) THEN Applied(f.table, m) ELSE f.table
    BY <2>3, <2>7, HandledTable
  <2>9. Handled(f, m).table = Replayed(table, G[k + 1])
    <3>1. CASE OfOrder(m)
      <4>1. G[k + 1] = Append(g, m)
        BY <3>1, <2>2, <2>6, <1>5, <1>7
      <4>2. Replayed(table, Append(g, m)) = Applied(Replayed(table, g), m)
        BY <2>3, <2>7, <1>1, ReplayedAppend
      <4> QED
        BY <4>1, <4>2, <3>1, <2>7, <2>8
    <3>2. CASE ~OfOrder(m)
      <4>1. G[k + 1] = g
        BY <3>2, <2>2, <2>6, <1>5, <1>7
      <4> QED
        BY <4>1, <3>2, <2>7, <2>8
    <3> QED
      BY <3>1, <3>2
  <2> QED
    BY <2>1, <2>4, <2>6, <2>8, <2>9
<1> HIDE DEF Goods
<1>8. 0 .. N \subseteq Goods
  BY <1>6, <1>7, UpTo
<1>9. Good(N)
  <2>1. N \in Goods
    BY <1>8
  <2> HIDE DEF Good
  <2> QED
    BY <2>1 DEF Goods
<1>10. Messages(T) = G[N]
  BY <1>3, MessagesBy
<1> QED
  BY <1>1, <1>9, <1>10

-----------------------------------------------------------------------------
(* What a natporte takes in *)

\* What natporte p, n before, takes in when the stream q is in front of it: the
\* answers T, one after the other.  It keeps last, and rest is not read.
Takes(p, s, n, q, T, last, rest) ==
    /\ T \in Seq(DownTexts) /\ T \in Seq(Tokens) /\ last \in Seq(Tokens) /\ rest \in Seq(Tokens)
    /\ Messages(n.string_buffer) \o Messages(q) = Messages(T) \o (Messages(last) \o Messages(rest))
    /\ natporte'[p].socket = s /\ natporte'[p].string_buffer = last
    /\ natporte'[p].awaited = SubSeq(n.awaited, Len(Messages(T)) + 1, Len(n.awaited))
    /\ natporte'[p].table = Replayed(n.table, Messages(T))
    /\ \A a \in Natportes : a # p => natporte'[a] = natporte[a]
    /\ to_nat'[s] = rest /\ \A t \in Sockets : t # s => to_nat'[t] = to_nat[t]

LEMMA ReceiveTakes ==
  ASSUME SessionInv, NEW p \in Natportes, Receive(p)
  PROVE  \E s, n, q, T, last, rest :
           /\ s \in Sockets /\ s = natporte[p].socket /\ natporte[p] # Down
           /\ n = natporte[p] /\ q = to_nat[s]
           /\ Takes(p, s, n, q, T, last, rest)
<1>1. PICK s \in Sockets : s = natporte[p].socket /\ natporte[p] # Down
  BY Parts, RunningSocket DEF Receive
<1>2. PICK n : n = natporte[p]
  OBVIOUS
<1>3. PICK q : q = to_nat[s]
  OBVIOUS
<1>4. PICK k \in Readable(q) :
        /\ Read(p, split(n.string_buffer \o SubSeq(q, 1, k)))
        /\ to_nat' = [to_nat EXCEPT ![s] = SubSeq(q, k + 1, Len(q))]
  BY <1>1, <1>2, <1>3 DEF Receive
<1> DEFINE kept == n.string_buffer
           lines == split(kept \o SubSeq(q, 1, k))
           c == Len(kept)
           N == (k + c) \div 2
           rest == SubSeq(q, k + 1, Len(q))
           last == Last(lines)
<1>6. n \in NatporteTypes /\ kept \in Seq(DownTexts) /\ n.socket = s /\ n.table \subseteq Held
  BY <1>1, <1>2, Parts, NatporteFields
<1>7. q \in Seq(DownTexts \cup {NL}) /\ StreamTypes
  BY <1>3, Parts DEF Types, StreamTypes
<1>8. /\ k \in 1 .. Len(q) /\ k \in Nat /\ Len(q) \in Nat /\ DOMAIN q = 1 .. Len(q)
      /\ \A i \in 1 .. Len(q) : q[i] \in DownTexts \cup {NL}
  BY <1>4, <1>7, LenProperties, ElementOfSeq DEF Readable
<1>9. FramedAnswers(kept, q)
  BY <1>1, <1>2, <1>3, Parts DEF FramedToNat
<1>10. c \in Nat /\ c <= 1 /\ Even(Len(q) + c) /\ \A i \in 1 .. Len(q) : q[i] = NL <=> Even(i + c)
  BY <1>6, <1>8, <1>9, LenProperties DEF FramedAnswers
<1>11. /\ lines \in Seq(Seq(DownTexts)) /\ N \in Nat /\ Len(lines) = N + 1
       /\ \A i \in 1 .. N :
            /\ i = 1 /\ kept # <<>> => lines[i] = kept
            /\ i # 1 \/ kept = <<>> =>
                 /\ 2 * i - 1 - c \in 1 .. k
                 /\ q[2 * i - 1 - c] \in DownTexts
                 /\ lines[i] = <<q[2 * i - 1 - c]>>
       /\ Even(k + c) => last = <<>>
       /\ ~Even(k + c) => last = <<q[k]>> /\ q[k] \in DownTexts
  <2>1. NL \notin DownTexts
    BY EventKinds
  <2>2. \A i \in 1 .. k : i \in 1 .. Len(q)
    BY <1>8
  <2>3. \A i \in 1 .. k : q[i] \in DownTexts \cup {NL} /\ (q[i] = NL <=> Even(i + c))
    BY <2>2, <1>8, <1>10
  <2>4. Len(kept) <= 1 /\ (\A i \in 1 .. k : q[i] \in DownTexts \cup {NL})
        /\ (\A i \in 1 .. k : q[i] = NL <=> Even(i + Len(kept)))
    BY <2>3, <1>10
  <2>5. kept \in Seq(DownTexts) /\ q \in Seq(DownTexts \cup {NL}) /\ k \in 1 .. Len(q)
    BY <1>6, <1>7, <1>8
  <2> HIDE DEF kept, c, lines, N, last
  <2>6. LET ls == split(kept \o SubSeq(q, 1, k))
            h == (k + Len(kept)) \div 2
        IN  /\ ls \in Seq(Seq(DownTexts)) /\ h \in Nat /\ Len(ls) = h + 1
            /\ \A i \in 1 .. h :
                 /\ i = 1 /\ kept # <<>> => ls[i] = kept
                 /\ i # 1 \/ kept = <<>> =>
                      /\ 2 * i - 1 - Len(kept) \in 1 .. k
                      /\ ~Even(2 * i - 1)
                      /\ q[2 * i - 1 - Len(kept)] \in DownTexts
                      /\ ls[i] = <<q[2 * i - 1 - Len(kept)]>>
            /\ Even(k + Len(kept)) => Last(ls) = <<>>
            /\ ~Even(k + Len(kept)) => Last(ls) = <<q[k]>> /\ q[k] \in DownTexts
    BY <2>1, <2>4, <2>5, SplitRead
  <2> QED
    BY <2>6 DEF c, lines, N, last
<1>13. PICK F : /\ HandledAll(F, n, lines, N)
                /\ natporte' = [natporte EXCEPT ![p] = [F[N] EXCEPT !.string_buffer = last]]
  <2> DEFINE G == CHOOSE F : HandledAll(F, n, lines, Len(lines) - 1)
  <2>1. Len(lines) - 1 = N
    BY <1>11
  <2>2. natporte' = [natporte EXCEPT ![p] = [G[Len(lines) - 1] EXCEPT !.string_buffer = Last(lines)]]
    <3> HIDE DEF lines
    <3>1. Read(p, lines)
      BY <1>4 DEF lines
    <3> QED
      BY <3>1, <1>2 DEF Read, HandledAll
  <2> HIDE DEF lines, N
  <2>3. HandledAll(G, n, lines, N)
    BY <2>1, <1>11, HandledExists
  <2> HIDE DEF G
  <2> QED
    BY <2>1, <2>2, <2>3
<1>14. \A i \in 1 .. N :
         /\ Head(lines[i]) \in DownTexts
         /\ \/ kept # <<>> /\ 1 \in DOMAIN kept /\ Head(lines[i]) = kept[1]
            \/ \E j \in DOMAIN q : Head(lines[i]) = q[j]
  <2> SUFFICES ASSUME NEW i \in 1 .. N
               PROVE  /\ Head(lines[i]) \in DownTexts
                      /\ \/ kept # <<>> /\ 1 \in DOMAIN kept /\ Head(lines[i]) = kept[1]
                         \/ \E j \in DOMAIN q : Head(lines[i]) = q[j]
    OBVIOUS
  <2> HIDE DEF lines, N, last
  <2>1. CASE i = 1 /\ kept # <<>>
    <3>1. lines[i] = kept
      BY <2>1, <1>11
    <3>2. 1 \in DOMAIN kept /\ kept[1] \in DownTexts /\ Head(kept) = kept[1]
      BY <2>1, <1>6, TailFact
    <3> QED
      BY <2>1, <3>1, <3>2
  <2>2. CASE i # 1 \/ kept = <<>>
    <3>1. /\ 2 * i - 1 - c \in 1 .. k /\ q[2 * i - 1 - c] \in DownTexts
          /\ lines[i] = <<q[2 * i - 1 - c]>>
      BY <2>2, <1>11
    <3>2. PICK j : j = 2 * i - 1 - c
      OBVIOUS
    <3>3. j \in DOMAIN q /\ q[j] \in DownTexts /\ lines[i] = <<q[j]>>
      <4>1. j \in 1 .. k /\ q[j] \in DownTexts /\ lines[i] = <<q[j]>>
        BY <3>1, <3>2
      <4>2. j \in DOMAIN q
        BY <4>1, <1>8
      <4> QED
        BY <4>1, <4>2
    <3>4. Head(lines[i]) = q[j]
      BY <3>3
    <3> QED
      BY <3>3, <3>4
  <2> QED
    BY <2>1, <2>2
<1> HIDE DEF lines, N, last, rest, kept, c
<1>15. PICK U, T, ls : U = Tokens /\ ls = lines /\ T = [i \in 1 .. N |-> Head(ls[i])]
  OBVIOUS
<1>16. /\ T \in Seq(DownTexts) /\ Len(T) = N /\ N \in Nat /\ \A i \in 1 .. N : T[i] = Head(lines[i])
  <2>1. T \in [1 .. N -> DownTexts]
    BY <1>14, <1>15
  <2> QED
    BY <2>1, <1>11, <1>15, FunctionSeq
<1>17. /\ T \in Seq(U) /\ last \in Seq(U) /\ rest \in Seq(U)
       /\ Messages(kept) \o Messages(q) = Messages(T) \o (Messages(last) \o Messages(rest))
  <2>1. PICK S, hold : S = DownTexts /\ hold = kept
    OBVIOUS
  <2>2. NL \notin S /\ hold \in Seq(S) /\ Len(hold) <= 1 /\ S \subseteq U /\ NL \in U
    BY <2>1, <1>6, <1>10, <1>15, EventKinds DEF Tokens, kept, c
  <2>3. q \in Seq(U) /\ k \in 1 .. Len(q) /\ N = (k + Len(hold)) \div 2
    BY <2>1, <1>3, <1>8, <1>15, Parts, TokensFact DEF N, c, kept
  <2>4. /\ \A i \in 1 .. k : q[i] \in S \cup {NL}
        /\ \A i \in 1 .. k : q[i] = NL <=> Even(i + Len(hold))
    <3>1. \A i \in 1 .. k : i \in 1 .. Len(q)
      BY <1>8
    <3> QED
      BY <3>1, <2>1, <1>8, <1>10 DEF c, kept
  <2>5. MessagesKept(S, U, hold, q, k, ls, N, T)
    <3>1. T = [i \in 1 .. N |-> Head(ls[i])] /\ ls = split(hold \o SubSeq(q, 1, k))
      BY <2>1, <1>15 DEF lines, kept
    <3> QED
      BY <2>2, <2>3, <2>4, <3>1, <1>16, MessagesOfRead
  <2> QED
    BY <2>1, <2>5, <1>15 DEF MessagesKept, last, rest
<1>18. PICK orders : orders = n.awaited
  OBVIOUS
<1>19. /\ natporte'[p].socket = s /\ natporte'[p].string_buffer = last
       /\ natporte'[p].awaited = SubSeq(orders, Len(Messages(T)) + 1, Len(orders))
       /\ natporte'[p].table = Replayed(n.table, Messages(T))
       /\ \A a \in Natportes : a # p => natporte'[a] = natporte[a]
  <2>1. PICK f : f = F[N]
    OBVIOUS
  <2>2. /\ f.socket = s /\ f \in NatporteTypes
        /\ f.awaited = SubSeq(orders, Len(Messages(T)) + 1, Len(orders))
        /\ f.table = Replayed(n.table, Messages(T))
    <3>1. n \in NatporteTypes /\ HandledAll(F, n, lines, N)
      BY <1>6, <1>13
    <3>2. /\ F[N].socket = n.socket /\ F[N] \in NatporteTypes
          /\ F[N].awaited = SubSeq(n.awaited, Len(Messages(T)) + 1, Len(n.awaited))
      BY <3>1, <1>16, AwaitedLeft
    <3>3. F[N].table = Replayed(n.table, Messages(T))
      BY <3>1, <1>16, TableLeft
    <3> QED
      BY <3>2, <3>3, <2>1, <1>6, <1>18
  <2>3. PICK new : new = [f EXCEPT !.string_buffer = last]
    OBVIOUS
  <2>4. f = [socket |-> f.socket, table |-> f.table, awaited |-> f.awaited,
             string_buffer |-> f.string_buffer]
    BY <2>2 DEF NatporteTypes
  <2>5. new.socket = f.socket /\ new.awaited = f.awaited /\ new.table = f.table /\ new.string_buffer = last
    BY <2>3, <2>4
  <2>6. natporte' = [natporte EXCEPT ![p] = new] /\ natporte \in [Natportes -> NatporteTypes]
    BY <2>1, <2>3, <1>13, Parts, NatporteFields
  <2> QED
    BY <2>2, <2>5, <2>6
<1>20. to_nat'[s] = rest /\ \A t \in Sockets : t # s => to_nat'[t] = to_nat[t]
  <2>1. to_nat' = [to_nat EXCEPT ![s] = rest]
    BY <1>4 DEF rest
  <2> QED
    BY <2>1, <1>7 DEF StreamTypes
<1>21. PICK new, left : new = last /\ left = rest
  OBVIOUS
<1>22. Takes(p, s, n, q, T, new, left)
  <2>1. /\ T \in Seq(DownTexts) /\ T \in Seq(Tokens) /\ new \in Seq(Tokens) /\ left \in Seq(Tokens)
        /\ Messages(n.string_buffer) \o Messages(q) = Messages(T) \o (Messages(new) \o Messages(left))
    BY <1>15, <1>16, <1>17, <1>21 DEF kept
  <2>2. /\ natporte'[p].socket = s /\ natporte'[p].string_buffer = new
        /\ natporte'[p].awaited = SubSeq(n.awaited, Len(Messages(T)) + 1, Len(n.awaited))
        /\ natporte'[p].table = Replayed(n.table, Messages(T))
        /\ \A a \in Natportes : a # p => natporte'[a] = natporte[a]
    BY <1>18, <1>19, <1>21
  <2> QED
    BY <2>1, <2>2, <1>20, <1>21 DEF Takes
<1> QED
  BY <1>1, <1>2, <1>3, <1>22

\* An answer that is taken in leads to the same table as before.
\* A natporte takes from the front of what is on its way, and as many orders
\* from the front of those it awaits.
LEMMA ReceiveQuiet ==
  ASSUME SessionInv, AllAnswered, NEW p \in Natportes, Receive(p)
  PROVE  AllAnswered'
<1>1. PICK s, n, q, T, last, rest :
        /\ s \in Sockets /\ s = natporte[p].socket /\ natporte[p] # Down
        /\ n = natporte[p] /\ q = to_nat[s]
        /\ Takes(p, s, n, q, T, last, rest)
  BY ReceiveTakes
<1>2. PICK U, kept, orders : U = Tokens /\ kept = n.string_buffer /\ orders = n.awaited
  OBVIOUS
<1>3. s # undefined /\ \A a \in Natportes : a # p => natporte[a].socket # s
  BY <1>1, Parts, RunningSocket
<1>4. UNCHANGED <<wan_addrs_list, natporte_message, server, to_pool>>
  BY DEF Receive, sessionVars
<1>5. /\ T \in Seq(U) /\ last \in Seq(U) /\ rest \in Seq(U)
      /\ Messages(kept) \o Messages(q) = Messages(T) \o (Messages(last) \o Messages(rest))
  BY <1>1, <1>2 DEF Takes
<1>6. /\ natporte'[p].socket = s /\ natporte'[p].string_buffer = last
      /\ natporte'[p].awaited = SubSeq(orders, Len(Messages(T)) + 1, Len(orders))
      /\ \A a \in Natportes : a # p => natporte'[a] = natporte[a]
  BY <1>1, <1>2 DEF Takes
<1>7. to_nat'[s] = rest /\ \A t \in Sockets : t # s => to_nat'[t] = to_nat[t]
  BY <1>1 DEF Takes
<1>8. \A t : (Listed(t)' <=> Listed(t)) /\ LinesOf(t)' = LinesOf(t)
  BY <1>4 DEF Listed, LinesOf
<1>9. EndFramed(s)'
  <2>1. EndFramed(s)
    BY <1>1 DEF AllAnswered, EndsFramed
  <2> QED
    BY <2>1, <1>1, <1>4, <1>8, EndFramedKept
<1>10. Answered(p)'
  <2>1. SUFFICES ASSUME Connected(p)'
                 PROVE  Paired(WayAt(p)', natporte'[p].awaited)
    BY DEF Answered, Paired, Matches
  <2>2. Connected(p)
    BY <2>1, <1>1, <1>3, <1>4, <1>6, <1>8 DEF Connected, Open
  <2>3. PICK hold, new, left, l, part, up :
          /\ hold = kept /\ new = last /\ left = rest
          /\ l = LinesOf(s) /\ part = natporte_message[s] /\ up = to_pool[s]
    OBVIOUS
  <2>4. hold \in Seq(U) /\ l \in Seq(U) /\ part \in Seq(U) /\ up \in Seq(U) /\ q \in Seq(U)
    BY <2>3, <1>1, <1>2, Parts, TokensFact, KeptTokens, LinesOfFact
  <2>5. PICK a, b, x, d, e, z :
          /\ a = Messages(hold) /\ b = Messages(q) /\ x = Messages(left) /\ d = Messages(T)
          /\ e = Messages(new) /\ z = Messages(l) \o (Messages(part) \o Messages(up))
    OBVIOUS
  <2>6. /\ a \in Seq(U) /\ b \in Seq(U) /\ x \in Seq(U) /\ d \in Seq(U) /\ e \in Seq(U)
        /\ z \in Seq(U)
    <3>1. PICK u, v, w, vw : u = Messages(l) /\ v = Messages(part) /\ w = Messages(up) /\ vw = v \o w
      OBVIOUS
    <3>2. u \in Seq(U) /\ v \in Seq(U) /\ w \in Seq(U)
      BY <2>4, <3>1, MessagesType
    <3>3. vw \in Seq(U)
      BY <3>1, <3>2, ConcatProperties
    <3>4. z = u \o vw
      BY <2>5, <3>1
    <3>5. z \in Seq(U)
      BY <3>2, <3>3, <3>4, ConcatProperties
    <3>6. left \in Seq(U) /\ new \in Seq(U) /\ T \in Seq(U)
      BY <2>3, <1>5
    <3> QED
      BY <3>5, <3>6, <2>4, <2>5, MessagesType
  <2>7. WayAt(p) = a \o (b \o z)
    <3>1. WayAt(p) = Way(hold, q, l, part, up)
      BY <2>3, <1>1, <1>3, <1>2 DEF WayAt
    <3> QED
      BY <3>1, <2>5 DEF Way
  <2>8. WayAt(p)' = e \o (x \o z)
    <3>1. WayAt(p)' = Way(new, left, l, part, up)
      <4>1. /\ new = natporte'[p].string_buffer /\ left = to_nat'[s] /\ l = LinesOf(s)'
            /\ part = natporte_message'[s] /\ up = to_pool'[s]
        BY <2>3, <1>4, <1>6, <1>7, <1>8
      <4> QED
        BY <4>1, <1>6 DEF WayAt, Way, Messages
    <3> QED
      BY <3>1, <2>5 DEF Way
  <2>9. a \o b = d \o (e \o x)
    BY <2>3, <2>5, <1>5
  <2>10. a \o (b \o z) = d \o (e \o (x \o z))
    <3>1. Recut(a, b, x, d, e, z)
      BY <2>6, RecutFact
    <3> QED
      BY <3>1, <2>9 DEF Recut
  <2>11. PICK way, after, O : way = WayAt(p) /\ after = WayAt(p)' /\ O = OrderTexts
    OBVIOUS
  <2>12. way = d \o after /\ after \in Seq(U)
    <3>1. PICK xz : xz = x \o z
      OBVIOUS
    <3>2. xz \in Seq(U)
      BY <3>1, <2>6, ConcatProperties
    <3>3. e \o xz \in Seq(U)
      BY <3>2, <2>6, ConcatProperties
    <3> QED
      BY <3>1, <3>3, <2>7, <2>8, <2>10, <2>11
  <2>13. Paired(way, orders) /\ orders \in Seq(O)
    BY <2>2, <2>11, <1>1, <1>2, Parts, NatporteFields DEF AllAnswered, Answered
  <2>14. Paired(after, SubSeq(orders, Len(d) + 1, Len(orders)))
    BY <2>6, <2>12, <2>13, PairedDrop
  <2> QED
    BY <2>5, <2>11, <2>14, <1>6
<1>11. \A t \in Sockets : t # s =>
         /\ to_nat'[t] = to_nat[t] /\ to_pool'[t] = to_pool[t]
         /\ natporte_message'[t] = natporte_message[t] /\ (Listed(t)' <=> Listed(t))
         /\ LinesOf(t)' = LinesOf(t)
  BY <1>4, <1>7, <1>8
<1>12. /\ \A a \in Natportes : natporte'[a].socket # s => natporte'[a] = natporte[a] \/ natporte'[a] = Down
       /\ \A a \in Natportes : natporte'[a].socket = s => a = p
  BY <1>1, <1>3, <1>6
<1> QED
  BY <1>1, <1>9, <1>10, <1>11, <1>12, Parts, SocketQuiet

-----------------------------------------------------------------------------
(* Every order is answered *)

LEMMA AnsweredStep ==
  ASSUME SessionInv, AllAnswered, [Next]_vars
  PROVE  AllAnswered'
<1>1. CASE UNCHANGED vars
  BY <1>1, QuietStutter
<1>2. CASE Next
  <2>1. ASSUME NEW s \in Sockets, Connect(s) \/ ServerData(s) \/ End(s) \/ ServerDies(s)
        PROVE  AllAnswered'
    BY <2>1, ConnectQuiet, ServerDataQuiet, EndQuiet, ServerDiesQuiet
  <2>2. CASE LoopEnds \/ Name \/ AddAddress \/ DeleteAddress \/ Ended
    BY <2>2, QuietCallback
  <2>3. CASE Request \/ Release \/ Named
    BY <2>3, RequestQuiet, ReleaseQuiet, NamedQuiet
  <2>4. ASSUME NEW p \in Natportes, Natporte(p)
        PROVE  AllAnswered'
    <3>1. ASSUME NEW s \in Sockets, Start(p, s)
          PROVE  AllAnswered'
      BY <3>1, StartQuiet
    <3>2. ASSUME NEW m \in Orders(p), Order(p, m)
          PROVE  AllAnswered'
      BY <3>2, OrderQuiet
    <3>3. CASE Receive(p)
      BY <3>3, ReceiveQuiet
    <3>4. CASE Exit(p)
      BY <3>4, ExitQuiet
    <3> QED
      BY <2>4, <3>1, <3>2, <3>3, <3>4 DEF Natporte
  <2> QED
    BY <1>2, <2>1, <2>2, <2>3, <2>4 DEF Next, Server
<1> QED
  BY <1>1, <1>2

\* In every reachable state the streams are framed, the end of a connection
\* stands behind a whole line, and what is on its way between a natporte and
\* the server is, message by message, what the natporte awaits.
THEOREM OrdersInvariance == Spec => []OrdersInv
<1>1. Init => SessionInv /\ AllAnswered
  BY InitInv, InitAnswered
<1>2. SessionInv /\ AllAnswered /\ [Next]_vars => SessionInv' /\ AllAnswered'
  BY NextStep, AnsweredStep
<1>3. SessionInv /\ AllAnswered => OrdersInv
  BY AnsweredFact DEF OrdersInv, AllAnswered
<1> QED
  BY <1>1, <1>2, <1>3, PTL DEF Spec

\* Every order has its one answer, in the order they were sent, through both
\* streams and however they are cut: a natporte, which pairs them by their
\* places alone, gives each answer to its own order (bin/pool_server:221-252,
\* addrpool.h:144-166, 565-569).
THEOREM OrdersAnswered == Spec => []EveryOrderAnswered
<1>1. OrdersInv => EveryOrderAnswered
  BY DEF OrdersInv
<1> QED
  BY <1>1, OrdersInvariance, PTL

-----------------------------------------------------------------------------
(* The connections of the server: what an answer says of the databases *)

Connection(protocol, e) == [protocol |-> protocol, entry |-> e]

LEMMA ConnectionsAre ==
  /\ \A c : c \in Connections <=> \/ \E e \in tcp_db : c = Connection("TCP", e)
                                  \/ \E e \in udp_db : c = Connection("UDP", e)
  /\ \A protocol, e : /\ Connection(protocol, e).protocol = protocol
                      /\ Connection(protocol, e).entry = e
  /\ \A f, g : (Connection("TCP", f) = Connection("TCP", g) <=> f = g)
               /\ (Connection("UDP", f) = Connection("UDP", g) <=> f = g)
               /\ Connection("TCP", f) # Connection("UDP", g)
BY DEF Connections, Connection

\* An acknowledgement of a mapping that nothing in the table but itself is in
\* conflict with.
LEMMA AppliedAck ==
  ASSUME NEW table, NEW protocol, NEW e,
         NEW m, m = [type |-> "request_ack", protocol |-> protocol, entry |-> e],
         \A c \in table :
           /\ c.protocol = protocol
           /\ \/ c.entry.lan_ip = e.lan_ip /\ c.entry.lan_port = e.lan_port
              \/ c.entry.wan_ip = e.wan_ip /\ c.entry.wan_port = e.wan_port
           => c = Connection(protocol, e)
  PROVE  Applied(table, m) = table \cup {Connection(protocol, e)}
<1>1. m.type = "request_ack" /\ m.protocol = protocol /\ m.entry = e
  OBVIOUS
<1>2. PICK new : new = Connection(protocol, e)
  OBVIOUS
<1> DEFINE P == \E c \in table :
                  /\ c.protocol = protocol
                  /\ \/ c.entry.lan_ip = e.lan_ip /\ c.entry.lan_port = e.lan_port
                     \/ c.entry.wan_ip = e.wan_ip /\ c.entry.wan_port = e.wan_port
<1>3. Applied(table, m) = IF P THEN table ELSE table \cup {new}
  BY <1>1, <1>2 DEF Applied, Connection
<1>4. P => new \in table
  BY <1>2
<1> HIDE DEF P
<1> QED
  BY <1>2, <1>3, <1>4

LEMMA AppliedOther ==
  ASSUME NEW table, NEW m
  PROVE  /\ m.type = "request_discard" => Applied(table, m) = table
         /\ m.type = "release_ack" => Applied(table, m) = table \ {Connection(m.protocol, m.entry)}
<1>1. CASE m.type = "request_discard"
  BY <1>1 DEF Applied
<1>2. CASE m.type = "release_ack"
  BY <1>2 DEF Applied, Connection
<1> QED
  BY <1>1, <1>2

LEMMA TcpRequestApplied ==
  ASSUME tcpDB!IInv, NEW lan_ip \in Clients, NEW lan_port \in LanPorts, NEW lan,
         tcpDB!AssignConnection(lan_ip, lan_port), udp_db' = udp_db
  PROVE  Connections' = Applied(Connections, RequestAnswer("TCP", lan, tcp_result'))
<1>1. PICK r, m, C, D : /\ r = tcp_result' /\ m = RequestAnswer("TCP", lan, r)
                        /\ C = Connections /\ D = Connections'
  OBVIOUS
<1>2. /\ tcpDB!IInv' /\ tcp_addrs' = tcp_addrs /\ tcp_clients \subseteq tcp_clients'
      /\ \/ r = undefined /\ tcp_db' = tcp_db
         \/ r \in Entries /\ tcp_db' = tcp_db \cup {r}
  BY <1>1, TcpAssign
<1>3. CASE r = undefined /\ tcp_db' = tcp_db
  <2>1. m.type = "request_discard"
    BY <1>1, <1>3 DEF RequestAnswer
  <2>2. D = C
    BY <1>1, <1>3 DEF Connections
  <2> QED
    BY <2>1, <2>2, <1>1, AppliedOther DEF RequestAnswer
<1>4. CASE r \in Entries /\ tcp_db' = tcp_db \cup {r}
  <2>1. m = [type |-> "request_ack", protocol |-> "TCP", entry |-> r]
    BY <1>1, <1>4, ResultAssumption DEF RequestAnswer
  <2>2. \A e, f \in tcp_db' :
          \/ e.lan_ip = f.lan_ip /\ e.lan_port = f.lan_port
          \/ e.wan_ip = f.wan_ip /\ e.wan_port = f.wan_port
          => e = f
    BY <1>2 DEF tcpDB!IInv, tcpDB!UniqueMapping
  <2>3. D = C \cup {Connection("TCP", r)}
    BY <1>1, <1>4 DEF Connections, Connection
  <2>4. ASSUME NEW c \in C, c.protocol = "TCP",
               \/ c.entry.lan_ip = r.lan_ip /\ c.entry.lan_port = r.lan_port
               \/ c.entry.wan_ip = r.wan_ip /\ c.entry.wan_port = r.wan_port
        PROVE  c = Connection("TCP", r)
    <3>1. PICK e \in tcp_db : c = Connection("TCP", e)
      BY <2>4, <1>1, ConnectionsAre
    <3>2. c.entry = e
      BY <3>1, ConnectionsAre
    <3>3. e \in tcp_db' /\ r \in tcp_db'
      BY <1>4
    <3>4. e = r
      BY <3>2, <3>3, <2>2, <2>4
    <3> QED
      BY <3>1, <3>4
  <2>5. Applied(C, m) = C \cup {Connection("TCP", r)}
    BY <2>1, <2>4, AppliedAck
  <2> QED
    BY <2>3, <2>5, <1>1 DEF RequestAnswer
<1> QED
  BY <1>2, <1>3, <1>4

LEMMA UdpRequestApplied ==
  ASSUME udpDB!IInv, NEW lan_ip \in Clients, NEW lan_port \in LanPorts, NEW lan,
         udpDB!AssignConnection(lan_ip, lan_port), tcp_db' = tcp_db
  PROVE  Connections' = Applied(Connections, RequestAnswer("UDP", lan, udp_result'))
<1>1. PICK r, m, C, D : /\ r = udp_result' /\ m = RequestAnswer("UDP", lan, r)
                        /\ C = Connections /\ D = Connections'
  OBVIOUS
<1>2. /\ udpDB!IInv' /\ udp_addrs' = udp_addrs /\ udp_clients \subseteq udp_clients'
      /\ \/ r = undefined /\ udp_db' = udp_db
         \/ r \in Entries /\ udp_db' = udp_db \cup {r}
  BY <1>1, UdpAssign
<1>3. CASE r = undefined /\ udp_db' = udp_db
  <2>1. m.type = "request_discard"
    BY <1>1, <1>3 DEF RequestAnswer
  <2>2. D = C
    BY <1>1, <1>3 DEF Connections
  <2> QED
    BY <2>1, <2>2, <1>1, AppliedOther DEF RequestAnswer
<1>4. CASE r \in Entries /\ udp_db' = udp_db \cup {r}
  <2>1. m = [type |-> "request_ack", protocol |-> "UDP", entry |-> r]
    BY <1>1, <1>4, ResultAssumption DEF RequestAnswer
  <2>2. \A e, f \in udp_db' :
          \/ e.lan_ip = f.lan_ip /\ e.lan_port = f.lan_port
          \/ e.wan_ip = f.wan_ip /\ e.wan_port = f.wan_port
          => e = f
    BY <1>2 DEF udpDB!IInv, udpDB!UniqueMapping
  <2>3. D = C \cup {Connection("UDP", r)}
    BY <1>1, <1>4 DEF Connections, Connection
  <2>4. ASSUME NEW c \in C, c.protocol = "UDP",
               \/ c.entry.lan_ip = r.lan_ip /\ c.entry.lan_port = r.lan_port
               \/ c.entry.wan_ip = r.wan_ip /\ c.entry.wan_port = r.wan_port
        PROVE  c = Connection("UDP", r)
    <3>1. PICK e \in udp_db : c = Connection("UDP", e)
      BY <2>4, <1>1, ConnectionsAre
    <3>2. c.entry = e
      BY <3>1, ConnectionsAre
    <3>3. e \in udp_db' /\ r \in udp_db'
      BY <1>4
    <3>4. e = r
      BY <3>2, <3>3, <2>2, <2>4
    <3> QED
      BY <3>1, <3>4
  <2>5. Applied(C, m) = C \cup {Connection("UDP", r)}
    BY <2>1, <2>4, AppliedAck
  <2> QED
    BY <2>3, <2>5, <1>1 DEF RequestAnswer
<1> QED
  BY <1>2, <1>3, <1>4

LEMMA ReleaseApplied ==
  ASSUME tcpDB!IInv, udpDB!IInv, NEW e \in Entries, NEW protocol, NEW m,
         m = [type |-> "release_ack", protocol |-> protocol, entry |-> e],
         \/ protocol = "TCP" /\ tcpDB!ReleaseConnection(e) /\ udp_db' = udp_db
         \/ protocol = "UDP" /\ udpDB!ReleaseConnection(e) /\ tcp_db' = tcp_db
  PROVE  Connections' = Applied(Connections, m)
<1>1. PICK C : C = Connections
  OBVIOUS
<1>2. Applied(C, m) = C \ {Connection(protocol, e)}
  BY AppliedOther
<1>3. CASE protocol = "TCP" /\ tcpDB!ReleaseConnection(e) /\ udp_db' = udp_db
  <2>1. tcp_db' = tcp_db \ {e}
    BY <1>3, TcpRelease
  <2>2. Connections' = C \ {Connection("TCP", e)}
    BY <2>1, <1>1, <1>3 DEF Connections, Connection
  <2> QED
    BY <2>2, <1>1, <1>2, <1>3
<1>4. CASE protocol = "UDP" /\ udpDB!ReleaseConnection(e) /\ tcp_db' = tcp_db
  <2>1. udp_db' = udp_db \ {e}
    BY <1>4, UdpRelease
  <2>2. Connections' = C \ {Connection("UDP", e)}
    BY <2>1, <1>1, <1>4 DEF Connections, Connection
  <2> QED
    BY <2>2, <1>1, <1>2, <1>4
<1> QED
  BY <1>3, <1>4

-----------------------------------------------------------------------------
(* The connections of the server: what a step leaves alone *)

HeldRest ==
    /\ SoleList /\ AddingEntries
    /\ \A s \in Sockets : NamesFirst(s) /\ Attended(s)
    /\ \A p \in Natportes : TableReplays(p)

LEMMA HeldParts == HeldInv <=> SessionInv /\ HeldRest
BY DEF HeldInv, HeldRest

\* The table of natporte n, when it has taken in what it keeps and what is
\* still in its stream.
ReplayOf(n, down) == Replayed(n.table, Messages(n.string_buffer \o down))

LEMMA ReplaysNow ==
  ASSUME NEW p \in Natportes, NEW n, NEW s, NEW d,
         n = natporte[p], s = n.socket, d = to_nat[s]
  PROVE  TableReplays(p) <=>
           (Connected(p) => IF Registered(s) THEN overlapped \/ ReplayOf(n, d) = Connections
                            ELSE ReplayOf(n, d) = {})
BY DEF TableReplays, AnswersTo, ReplayOf

LEMMA ReplaysLater ==
  ASSUME NEW p \in Natportes, NEW n, NEW s, NEW d,
         n = natporte'[p], s = n.socket, d = to_nat'[s]
  PROVE  TableReplays(p)' <=>
           (Connected(p)' => IF Registered(s)' THEN overlapped' \/ ReplayOf(n, d) = Connections'
                             ELSE ReplayOf(n, d) = {})
<1>1. Registered(natporte[p].socket)' <=> Registered(s)'
  BY DEF Registered, Listed
<1>2. Replayed(natporte[p].table, AnswersTo(p))' = ReplayOf(n, d)
  BY DEF AnswersTo, ReplayOf, Replayed, Messages
<1> QED
  BY <1>1, <1>2 DEF TableReplays

LEMMA ReplaysKept ==
  ASSUME NEW p \in Natportes, NEW s, s = natporte[p].socket, TableReplays(p),
         natporte'[p] = natporte[p], Connected(p)' => Connected(p), to_nat'[s] = to_nat[s],
         Registered(s)' <=> Registered(s),
         Registered(s) => overlapped' \/ (~overlapped /\ Connections' = Connections)
  PROVE  TableReplays(p)'
<1>1. PICK n, d : n = natporte[p] /\ d = to_nat[s]
  OBVIOUS
<1>2. Connected(p) => IF Registered(s) THEN overlapped \/ ReplayOf(n, d) = Connections
                      ELSE ReplayOf(n, d) = {}
  BY <1>1, ReplaysNow
<1>3. TableReplays(p)' <=>
        (Connected(p)' => IF Registered(s)' THEN overlapped' \/ ReplayOf(n, d) = Connections'
                          ELSE ReplayOf(n, d) = {})
  BY <1>1, ReplaysLater
<1> QED
  BY <1>2, <1>3

LEMMA NamesFirstKept ==
  ASSUME NEW s \in Sockets, NamesFirst(s), Listed(s)' <=> Listed(s),
         Listed(s) => wan_addrs_list'[s] = wan_addrs_list[s],
         to_pool'[s] = to_pool[s], NextSaid(s)' = NextSaid(s)
  PROVE  NamesFirst(s)'
BY DEF NamesFirst

LEMMA AttendedKept ==
  ASSUME NEW s \in Sockets, Attended(s), Listed(s)' <=> Listed(s), to_pool'[s] = to_pool[s],
         \A q \in Natportes : natporte[q].socket = s => natporte'[q].socket = s
  PROVE  Attended(s)'
BY DEF Attended, Open

\* A step at connection s and at its natporte.
LEMMA SocketHeld ==
  ASSUME Types, OwnSockets, HeldRest, NEW s \in Sockets,
         \A t \in Sockets : t # s =>
           /\ to_nat'[t] = to_nat[t] /\ to_pool'[t] = to_pool[t] /\ NextSaid(t)' = NextSaid(t)
           /\ Listed(t)' <=> Listed(t)
           /\ Listed(t) => wan_addrs_list'[t] = wan_addrs_list[t],
         \A q \in Natportes :
           /\ natporte[q].socket \in {s, undefined} \/ natporte'[q] = natporte[q]
           /\ natporte'[q].socket = s \/ natporte'[q] = natporte[q] \/ natporte'[q] = Down,
         Connections' = Connections, overlapped' = overlapped, SoleList', AddingEntries',
         NamesFirst(s)', Attended(s)',
         \A q \in Natportes : natporte'[q].socket = s => TableReplays(q)'
  PROVE  HeldRest'
<1>1. ASSUME NEW t \in Sockets
      PROVE  NamesFirst(t)' /\ Attended(t)'
  <2>1. CASE t # s
    <3>1. NamesFirst(t)'
      BY <2>1, NamesFirstKept DEF HeldRest
    <3>2. \A q \in Natportes : natporte[q].socket = t => natporte'[q].socket = t
      BY <2>1, SessionAssumption
    <3>3. Attended(t)'
      BY <2>1, <3>2, AttendedKept DEF HeldRest
    <3> QED
      BY <3>1, <3>3
  <2> QED
    BY <2>1
<1>2. ASSUME NEW q \in Natportes
      PROVE  TableReplays(q)'
  <2>1. CASE natporte'[q] = Down
    BY <2>1 DEF TableReplays, Connected
  <2>2. CASE natporte'[q].socket # s /\ natporte'[q] # Down
    <3>1. natporte'[q] = natporte[q] /\ natporte[q] # Down
      BY <2>2
    <3>2. PICK t \in Sockets : t = natporte[q].socket /\ t # s
      BY <2>2, <3>1, RunningSocket
    <3>3. Connected(q)' => Connected(q)
      BY <3>1, <3>2 DEF Connected, Open
    <3>4. Registered(t)' <=> Registered(t)
      BY <3>2 DEF Registered
    <3>5. TableReplays(q) /\ to_nat'[t] = to_nat[t]
      BY <3>2 DEF HeldRest
    <3> QED
      BY <3>1, <3>2, <3>3, <3>4, <3>5, ReplaysKept
  <2> QED
    BY <2>1, <2>2
<1> QED
  BY <1>1, <1>2 DEF HeldRest

\* A step of the callback.
LEMMA CallbackHeld ==
  ASSUME HeldRest, UNCHANGED <<natporte, to_pool>>,
         DOMAIN wan_addrs_list' = DOMAIN wan_addrs_list, SoleList', AddingEntries',
         \A s \in Sockets : NamesFirst(s)', \A p \in Natportes : TableReplays(p)'
  PROVE  HeldRest'
<1>1. ASSUME NEW s \in Sockets
      PROVE  Attended(s)'
  <2>1. Listed(s)' <=> Listed(s)
    BY DEF Listed
  <2> QED
    BY <2>1, AttendedKept DEF HeldRest
<1> QED
  BY <1>1 DEF HeldRest

\* A step of the callback that changes neither a connection nor a stream.
LEMMA QuietHeld ==
  ASSUME Types, OwnSockets, HeldRest, UNCHANGED <<natporte, to_pool, to_nat, wan_addrs_list>>,
         SoleList', AddingEntries', \A s \in Sockets : NextSaid(s)' = NextSaid(s),
         \A s \in Sockets : Registered(s) => overlapped' \/ (~overlapped /\ Connections' = Connections)
  PROVE  HeldRest'
<1>1. \A s \in Sockets : Listed(s)' <=> Listed(s)
  BY DEF Listed
<1>2. \A s \in Sockets : NamesFirst(s)'
  BY <1>1, NamesFirstKept DEF HeldRest
<1>3. ASSUME NEW p \in Natportes
      PROVE  TableReplays(p)'
  <2>1. CASE natporte[p] = Down
    BY <2>1 DEF TableReplays, Connected
  <2>2. CASE natporte[p] # Down
    <3>1. PICK s \in Sockets : s = natporte[p].socket
      BY <2>2, RunningSocket
    <3>2. Connected(p)' => Connected(p)
      BY DEF Connected, Open, Listed
    <3>3. Registered(s)' <=> Registered(s)
      BY <1>1 DEF Registered
    <3>4. TableReplays(p) /\ to_nat'[s] = to_nat[s]
      BY DEF HeldRest
    <3> QED
      BY <3>1, <3>2, <3>3, <3>4, ReplaysKept
  <2> QED
    BY <2>1, <2>2
<1> QED
  BY <1>2, <1>3, CallbackHeld

LEMMA SoleListKept ==
  ASSUME SoleList, UNCHANGED <<wan_addrs_list, server, overlapped>>
  PROVE  SoleList'
BY DEF SoleList, Registered, Listed

LEMMA AddingKept ==
  ASSUME AddingEntries, UNCHANGED <<wan_addrs_list, server, tcp_db, udp_db>>
  PROVE  AddingEntries'
BY DEF AddingEntries, Connections, Lists

LEMMA NoAdding ==
  ASSUME server'.pc # "adding"
  PROVE  AddingEntries'
BY DEF AddingEntries

LEMMA NextSaidKept ==
  ASSUME NEW t, server'.socket = server.socket, server'.lines = server.lines,
         natporte_message'[t] = natporte_message[t], to_pool'[t] = to_pool[t]
  PROVE  NextSaid(t)' = NextSaid(t)
BY DEF NextSaid

-----------------------------------------------------------------------------
(* The connections of the server: the steps of the callback *)

LEMMA RegisteredLists ==
  ASSUME Types
  PROVE  Lists # {} <=> \E s \in Sockets : Registered(s)
<1>1. ASSUME NEW s \in Sockets, Registered(s)
      PROVE  Lists # {}
  <2>1. PICK q : q = wan_addrs_list[s]
    OBVIOUS
  <2>2. s \in DOMAIN wan_addrs_list /\ q \in Seq(WanAddrs) /\ q # <<>>
    BY <2>1, <1>1 DEF Types, Registered, Listed
  <2>3. 1 \in DOMAIN q
    BY <2>2, TailFact
  <2>4. q[1] \in Range(wan_addrs_list[s])
    BY <2>1, <2>3 DEF Range
  <2> QED
    BY <2>2, <2>4 DEF Lists
<1>2. ASSUME Lists # {}
      PROVE  \E s \in Sockets : Registered(s)
  <2>1. PICK s \in DOMAIN wan_addrs_list : Range(wan_addrs_list[s]) # {}
    BY <1>2 DEF Lists
  <2>2. wan_addrs_list[s] # <<>>
    <3>1. Range(<<>>) = {}
      BY DEF Range
    <3> QED
      BY <2>1, <3>1
  <2>3. s \in Sockets
    BY DEF Types
  <2> QED
    BY <2>2, <2>3 DEF Registered, Listed
<1> QED
  BY <1>1, <1>2

\* Every connection of the server has an address of the pool.
LEMMA ConnectionsInPool ==
  ASSUME SessionInv
  PROVE  \A c \in Connections : c.entry.wan_ip \in Range(tcp_addrs)
<1>1. /\ \A e \in tcp_db : e.wan_ip \in Range(tcp_addrs)
      /\ \A e \in udp_db : e.wan_ip \in Range(udp_addrs)
  BY Parts DEF tcpDB!IInv, tcpDB!EntriesInPool, tcpDB!InPool, tcpDB!Range, Range,
               udpDB!IInv, udpDB!EntriesInPool, udpDB!InPool, udpDB!Range
<1>2. udp_addrs = tcp_addrs
  BY Parts DEF PoolInCallback
<1>3. ASSUME NEW c \in Connections
      PROVE  c.entry.wan_ip \in Range(tcp_addrs)
  <2>1. \/ \E e \in tcp_db : c = Connection("TCP", e)
        \/ \E e \in udp_db : c = Connection("UDP", e)
    BY ConnectionsAre
  <2>2. c.entry \in tcp_db \/ c.entry \in udp_db
    BY <2>1, ConnectionsAre
  <2> QED
    BY <2>2, <1>1, <1>2
<1> QED
  BY <1>3

LEMMA LoopEndsHeld ==
  ASSUME SessionInv, HeldRest, LoopEnds
  PROVE  HeldRest'
<1>1. /\ server.lines = <<>> /\ server' = Idle
      /\ UNCHANGED <<natporte, natporte_message, to_pool, to_nat, wan_addrs_list, tcp_db, udp_db, overlapped>>
  BY DEF LoopEnds, sessionVars, tcpVars, udpVars
<1>2. \A s \in Sockets : NextSaid(s)' = NextSaid(s)
  BY <1>1, DownFields DEF NextSaid
<1>3. Connections' = Connections
  BY <1>1 DEF Connections
<1>4. SoleList' /\ AddingEntries'
  <2>1. server'.pc = "idle"
    BY <1>1, DownFields
  <2> QED
    BY <2>1, <1>1, NoAdding DEF HeldRest, SoleList, Registered, Listed
<1> QED
  BY <1>1, <1>2, <1>3, <1>4, Parts, QuietHeld

LEMMA NameHeld ==
  ASSUME SessionInv, HeldRest, Name
  PROVE  HeldRest'
<1>1. /\ server.pc = "lines"
      /\ server' = [server EXCEPT !.pc = "adding", !.addrs = Message.wan_addrs]
      /\ UNCHANGED <<natporte, natporte_message, to_pool, to_nat, wan_addrs_list, overlapped>>
      /\ UNCHANGED <<tcp_db, udp_db>>
  BY DEF Name, Handles, sessionVars, tcpVars, udpVars
<1>2. server'.pc = "adding" /\ server'.socket = server.socket /\ server'.lines = server.lines
  BY <1>1, Parts, ServerFields
<1>3. \A s \in Sockets : NextSaid(s)' = NextSaid(s)
  BY <1>1, <1>2, NextSaidKept
<1>4. Connections' = Connections /\ Lists' = Lists
  BY <1>1 DEF Connections, Lists
<1>5. SoleList'
  BY <1>1, <1>2 DEF HeldRest, SoleList, Registered, Listed
<1>6. AddingEntries'
  <2>1. Range(tcp_addrs) = Lists
    BY <1>1, Parts DEF PoolInCallback
  <2> QED
    BY <2>1, <1>4, ConnectionsInPool DEF AddingEntries
<1> QED
  BY <1>1, <1>3, <1>4, <1>5, <1>6, Parts, QuietHeld

LEMMA AddAddressHeld ==
  ASSUME SessionInv, HeldRest, AddAddress
  PROVE  HeldRest'
<1>1. /\ server.pc = "adding" /\ server.addrs # <<>>
      /\ server' = [server EXCEPT !.addrs = Tail(@)]
      /\ UNCHANGED <<natporte, natporte_message, to_pool, to_nat, wan_addrs_list, overlapped>>
  BY DEF AddAddress, sessionVars
<1>2. PICK a \in WanAddrs : a = Head(server.addrs)
  BY <1>1, Parts, AddrsFact
<1>3. server'.pc = "adding" /\ server'.socket = server.socket /\ server'.lines = server.lines
  BY <1>1, Parts, AddrsFact
<1>4. tcp_db' = tcp_db /\ udp_db' = udp_db
  <2>1. /\ IF tcpDB!InPool(a) THEN UNCHANGED tcpVars ELSE tcpDB!AddPoolAddress(a)
        /\ IF udpDB!InPool(a) THEN UNCHANGED udpVars ELSE udpDB!AddPoolAddress(a)
    BY <1>2 DEF AddAddress
  <2> QED
    BY <2>1, Parts, TcpAdd, UdpAdd
<1>5. \A s \in Sockets : NextSaid(s)' = NextSaid(s)
  BY <1>1, <1>3, NextSaidKept
<1>6. Connections' = Connections /\ Lists' = Lists
  BY <1>1, <1>4 DEF Connections, Lists
<1>7. SoleList' /\ AddingEntries'
  BY <1>1, <1>3, <1>6 DEF HeldRest, SoleList, AddingEntries, Registered, Listed
<1> QED
  BY <1>1, <1>5, <1>6, <1>7, Parts, QuietHeld

LEMMA DeleteAddressHeld ==
  ASSUME SessionInv, HeldRest, DeleteAddress
  PROVE  HeldRest'
<1>1. /\ server.pc = "deleting" /\ server.addrs # <<>>
      /\ server' = [server EXCEPT !.addrs = Tail(@)]
      /\ UNCHANGED <<natporte, natporte_message, to_pool, to_nat, wan_addrs_list, overlapped>>
  BY DEF DeleteAddress, sessionVars
<1>2. server'.pc = "deleting" /\ server'.socket = server.socket /\ server'.lines = server.lines
  BY <1>1, Parts, AddrsFact
<1>3. \A s \in Sockets : NextSaid(s)' = NextSaid(s)
  BY <1>1, <1>2, NextSaidKept
<1>4. ~overlapped => \A s \in Sockets : ~Registered(s)
  BY <1>1 DEF HeldRest, SoleList
<1>5. \A s \in Sockets : Registered(s)' <=> Registered(s)
  BY <1>1 DEF Registered, Listed
<1>6. SoleList'
  BY <1>1, <1>4, <1>5 DEF SoleList
<1>7. AddingEntries'
  BY <1>2, NoAdding
<1> QED
  BY <1>1, <1>3, <1>4, <1>6, <1>7, Parts, QuietHeld

LEMMA EndedHeld ==
  ASSUME SessionInv, HeldRest, Ended
  PROVE  HeldRest'
<1>1. /\ server.pc = "deleting" /\ server' = Idle /\ overlapped' = (overlapped /\ tcp_addrs # <<>>)
      /\ UNCHANGED <<natporte, natporte_message, to_pool, to_nat, wan_addrs_list, tcp_db, udp_db>>
  BY DEF Ended, sessionVars, tcpVars, udpVars
<1>2. \A s \in Sockets : NextSaid(s)' = NextSaid(s)
  <2>1. server.lines = <<>>
    BY <1>1, Parts DEF Callback
  <2> QED
    BY <2>1, <1>1, DownFields DEF NextSaid
<1>3. Connections' = Connections /\ server'.pc = "idle"
  BY <1>1, DownFields DEF Connections
<1>4. tcp_addrs = <<>> => \A s \in Sockets : ~Registered(s)
  <2>1. Lists \subseteq Range(tcp_addrs)
    BY <1>1, Parts DEF PoolInCallback
  <2>2. Range(<<>>) = {}
    BY DEF Range
  <2> QED
    BY <2>1, <2>2, Parts, RegisteredLists
<1>5. \A s \in Sockets : Registered(s)' <=> Registered(s)
  BY <1>1 DEF Registered, Listed
<1>6. SoleList' /\ AddingEntries'
  BY <1>1, <1>3, <1>4, <1>5, NoAdding DEF HeldRest, SoleList
<1> QED
  BY <1>1, <1>2, <1>3, <1>4, <1>6, Parts, QuietHeld

LEMMA StutterHeld ==
  ASSUME SessionInv, HeldRest, UNCHANGED vars
  PROVE  HeldRest'
<1>1. UNCHANGED <<natporte, natporte_message, to_pool, to_nat, wan_addrs_list, server,
                  tcp_db, udp_db, overlapped>>
  BY DEF vars, sessionVars, tcpVars, udpVars
<1>2. \A s \in Sockets : NextSaid(s)' = NextSaid(s)
  BY <1>1, NextSaidKept
<1>3. Connections' = Connections
  BY <1>1 DEF Connections
<1>4. SoleList' /\ AddingEntries'
  BY <1>1, SoleListKept, AddingKept DEF HeldRest
<1> QED
  BY <1>1, <1>2, <1>3, <1>4, Parts, QuietHeld

\* Who orders or releases has named its addresses.
LEMMA OrderRegistered ==
  ASSUME SessionInv, HeldRest, server.lines # <<>>, Message.type # "initialize"
  PROVE  server.socket \in Sockets /\ Registered(server.socket)
<1>1. /\ Listed(server.socket) /\ server.socket \in Sockets /\ Message = server.lines[1][1]
  BY LinesFact
<1>2. NamesFirst(server.socket)
  BY <1>1 DEF HeldRest
<1>3. NextSaid(server.socket) = Message.type
  BY <1>1 DEF NextSaid
<1> QED
  BY <1>1, <1>2, <1>3 DEF NamesFirst, Registered

LEMMA ReplayText ==
  ASSUME NEW n, NEW U, NL \in U, n.string_buffer \in Seq(U), NEW d \in Seq(U), NEW m \in U
  PROVE  ReplayOf(n, d \o Text(m)) = IF OfOrder(m) THEN Applied(ReplayOf(n, d), m) ELSE ReplayOf(n, d)
<1>1. PICK kept, table, q, r : /\ kept = n.string_buffer /\ table = n.table /\ q = kept \o d
                               /\ r = Messages(q)
  OBVIOUS
<1>2. kept \in Seq(U) /\ q \in Seq(U) /\ Text(m) \in Seq(U)
  BY <1>1, ConcatProperties DEF Text
<1>3. r \in Seq(U)
  BY <1>1, <1>2, MessagesType
<1>4. kept \o (d \o Text(m)) = q \o Text(m)
  <2>1. PICK v : v = Text(m)
    OBVIOUS
  <2>2. (kept \o d) \o v = kept \o (d \o v)
    BY <2>1, <1>2, ConcatAssociative
  <2> QED
    BY <2>1, <2>2, <1>1
<1>5. Messages(q \o Text(m)) = IF OfOrder(m) THEN r \o <<m>> ELSE r
  BY <1>1, <1>2, MessagesText
<1>6. ReplayOf(n, d) = Replayed(table, r)
  BY <1>1 DEF ReplayOf
<1>7. ReplayOf(n, d \o Text(m)) = Replayed(table, IF OfOrder(m) THEN r \o <<m>> ELSE r)
  BY <1>1, <1>4, <1>5 DEF ReplayOf
<1>8. Replayed(table, r \o <<m>>) = Applied(Replayed(table, r), m)
  <2>1. Append(r, m) = r \o <<m>>
    BY <1>3, AppendIsConcat
  <2> QED
    BY <2>1, <1>3, ReplayedAppend
<1> QED
  BY <1>6, <1>7, <1>8

\* An answer that says what the databases did.
LEMMA AnswerHeld ==
  ASSUME SessionInv, HeldRest, server.lines # <<>>, Message.type # "initialize",
         NEW m \in DownTexts, OfOrder(m), Answer(m), Connections' = Applied(Connections, m),
         server'.pc = "lines", server'.socket = server.socket,
         UNCHANGED <<natporte, natporte_message, to_pool, wan_addrs_list, overlapped>>
  PROVE  HeldRest'
<1>1. PICK s \in Sockets : s = server.socket /\ Registered(s)
  BY OrderRegistered
<1>2. PICK U, d : U = Tokens /\ d = to_nat[s]
  OBVIOUS
<1>3. /\ d \in Seq(U) /\ m \in U /\ NL \in U
      /\ to_nat'[s] = d \o Text(m) /\ \A t \in Sockets : t # s => to_nat'[t] = to_nat[t]
  <2>1. to_nat \in [Sockets -> Seq(DownTexts \cup {NL})] /\ d \in Seq(U)
    BY <1>2, Parts, TokensFact, SameLists
  <2>2. to_nat' = [to_nat EXCEPT ![s] = d \o Text(m)]
    BY <1>1, <1>2 DEF Answer
  <2> QED
    BY <2>1, <2>2, <1>2 DEF Tokens
<1>4. \A t \in Sockets : (Listed(t)' <=> Listed(t)) /\ (Registered(t)' <=> Registered(t))
  BY DEF Registered, Listed
<1>5. ASSUME NEW t \in Sockets
      PROVE  NamesFirst(t)'
  <2>1. CASE t = s
    BY <2>1, <1>1, <1>4 DEF NamesFirst, Registered
  <2>2. CASE t # s
    <3>1. NextSaid(t)' = NextSaid(t)
      BY <2>2, <1>1 DEF NextSaid
    <3> QED
      BY <3>1, <1>4, NamesFirstKept DEF HeldRest
  <2> QED
    BY <2>1, <2>2
<1>6. SoleList' /\ AddingEntries'
  BY <1>4, NoAdding DEF HeldRest, SoleList
<1>7. ASSUME NEW p \in Natportes
      PROVE  TableReplays(p)'
  <2>1. TableReplays(p) /\ (Connected(p)' => Connected(p))
    BY DEF HeldRest, Connected, Open, Listed
  <2>2. CASE natporte[p] = Down
    BY <2>2 DEF TableReplays, Connected
  <2>3. CASE natporte[p] # Down /\ natporte[p].socket # s
    <3>1. PICK t \in Sockets : t = natporte[p].socket /\ t # s
      BY <2>3, Parts, RunningSocket
    <3>2. Registered(t) => overlapped
      BY <3>1, <1>1 DEF HeldRest, SoleList
    <3> QED
      BY <2>1, <3>1, <3>2, <1>3, <1>4, ReplaysKept
  <2>4. CASE natporte[p] # Down /\ natporte[p].socket = s
    <3>1. PICK n, C, e : n = natporte[p] /\ C = Connections /\ e = d \o Text(m)
      OBVIOUS
    <3>2. Connected(p) => overlapped \/ ReplayOf(n, d) = C
      BY <2>1, <2>4, <3>1, <1>1, <1>2, ReplaysNow
    <3>3. ReplayOf(n, e) = Applied(ReplayOf(n, d), m)
      <4>1. n.string_buffer \in Seq(U)
        BY <3>1, <1>2, Parts, KeptTokens
      <4> QED
        BY <4>1, <3>1, <1>3, ReplayText
    <3>4. TableReplays(p)' <=> (Connected(p)' => IF Registered(s)' THEN overlapped' \/ ReplayOf(n, e) = Connections'
                                                 ELSE ReplayOf(n, e) = {})
      BY <2>4, <3>1, <1>3, ReplaysLater
    <3> QED
      BY <2>1, <3>1, <3>2, <3>3, <3>4, <1>1, <1>4
  <2> QED
    BY <2>2, <2>3, <2>4
<1> QED
  BY <1>5, <1>6, <1>7, CallbackHeld

LEMMA RequestHeld ==
  ASSUME SessionInv, HeldRest, Request
  PROVE  HeldRest'
<1>1. /\ server.pc = "lines" /\ server.lines # <<>> /\ Message.type = "request"
      /\ UNCHANGED <<natporte, natporte_message, to_pool, wan_addrs_list, overlapped>>
  BY DEF Request, Handles, sessionVars
<1>2. server'.socket = server.socket /\ server'.pc = "lines"
  <2>1. server = [pc |-> server.pc, socket |-> server.socket,
                  lines |-> server.lines, addrs |-> server.addrs]
    BY Parts, ServerFields
  <2> QED
    BY <2>1, <1>1 DEF Request, NextLine
<1>3. PICK msg : msg = Message
  OBVIOUS
<1>4. msg.lan \in Clients \X LanPorts /\ msg.lan[1] \in Clients /\ msg.lan[2] \in LanPorts
  <2>1. msg.lan \in Clients \X LanPorts
    BY <1>1, <1>3, LinesFact, UpKinds
  <2> QED
    BY <2>1
<1>5. PICK protocol, assigned :
        /\ protocol \in Protocols /\ Answer(RequestAnswer(protocol, msg.lan, assigned))
        /\ assigned = undefined \/ assigned \in Entries
        /\ Connections' = Applied(Connections, RequestAnswer(protocol, msg.lan, assigned))
  <2>1. CASE /\ Message.protocol = "TCP" /\ UNCHANGED udpVars
             /\ tcpDB!AssignConnection(Message.lan[1], Message.lan[2])
             /\ Answer(RequestAnswer("TCP", Message.lan, tcp_result'))
    <3>1. PICK r : r = tcp_result'
      OBVIOUS
    <3>2. tcpDB!AssignConnection(msg.lan[1], msg.lan[2]) /\ udp_db' = udp_db
      BY <2>1, <1>3 DEF udpVars
    <3>3. r = undefined \/ r \in Entries
      BY <1>4, <3>1, <3>2, Parts, TcpAssign
    <3>4. Connections' = Applied(Connections, RequestAnswer("TCP", msg.lan, tcp_result'))
      BY <1>4, <3>2, Parts, TcpRequestApplied
    <3>5. Answer(RequestAnswer("TCP", msg.lan, r))
      BY <2>1, <3>1, <1>3
    <3> QED
      BY <3>1, <3>3, <3>4, <3>5 DEF Protocols
  <2>2. CASE /\ Message.protocol = "UDP" /\ UNCHANGED tcpVars
             /\ udpDB!AssignConnection(Message.lan[1], Message.lan[2])
             /\ Answer(RequestAnswer("UDP", Message.lan, udp_result'))
    <3>1. PICK r : r = udp_result'
      OBVIOUS
    <3>2. udpDB!AssignConnection(msg.lan[1], msg.lan[2]) /\ tcp_db' = tcp_db
      BY <2>2, <1>3 DEF tcpVars
    <3>3. r = undefined \/ r \in Entries
      BY <1>4, <3>1, <3>2, Parts, UdpAssign
    <3>4. Connections' = Applied(Connections, RequestAnswer("UDP", msg.lan, udp_result'))
      BY <1>4, <3>2, Parts, UdpRequestApplied
    <3>5. Answer(RequestAnswer("UDP", msg.lan, r))
      BY <2>2, <3>1, <1>3
    <3> QED
      BY <3>1, <3>3, <3>4, <3>5 DEF Protocols
  <2> QED
    BY <2>1, <2>2 DEF Request
<1>6. PICK m : m = RequestAnswer(protocol, msg.lan, assigned)
  OBVIOUS
<1>7. m \in DownTexts /\ OfOrder(m)
  <2>1. CASE assigned = undefined
    <3>1. m = [type |-> "request_discard", protocol |-> protocol, lan |-> msg.lan]
      BY <2>1, <1>6 DEF RequestAnswer
    <3>2. m \in [type : {"request_discard"}, protocol : Protocols, lan : Clients \X LanPorts]
      BY <3>1, <1>4, <1>5
    <3> QED
      BY <3>1, <3>2 DEF DownTexts, AnswerTexts, OfOrder
  <2>2. CASE assigned # undefined
    <3>1. m = [type |-> "request_ack", protocol |-> protocol, entry |-> assigned]
      BY <2>2, <1>6 DEF RequestAnswer
    <3>2. m \in [type : {"request_ack", "release_ack"}, protocol : Protocols, entry : Entries]
      BY <3>1, <2>2, <1>5
    <3> QED
      BY <3>1, <3>2 DEF DownTexts, AnswerTexts, OfOrder
  <2> QED
    BY <2>1, <2>2
<1>8. Message.type # "initialize"
  BY <1>1
<1> QED
  BY <1>1, <1>2, <1>5, <1>6, <1>7, <1>8, AnswerHeld

LEMMA ReleaseHeld ==
  ASSUME SessionInv, HeldRest, Release
  PROVE  HeldRest'
<1>1. /\ server.pc = "lines" /\ server.lines # <<>> /\ Message.type = "release"
      /\ UNCHANGED <<natporte, natporte_message, to_pool, wan_addrs_list, overlapped>>
  BY DEF Release, Handles, sessionVars
<1>2. server'.socket = server.socket /\ server'.pc = "lines"
  <2>1. server = [pc |-> server.pc, socket |-> server.socket,
                  lines |-> server.lines, addrs |-> server.addrs]
    BY Parts, ServerFields
  <2> QED
    BY <2>1, <1>1 DEF Release, NextLine
<1>3. PICK msg : msg = Message
  OBVIOUS
<1>4. msg.protocol \in Protocols /\ msg.entry \in Entries
  BY <1>1, <1>3, LinesFact, UpKinds
<1>5. PICK m : m = [type |-> "release_ack", protocol |-> msg.protocol, entry |-> msg.entry]
  OBVIOUS
<1>6. m \in DownTexts /\ OfOrder(m)
  <2>1. m \in [type : {"request_ack", "release_ack"}, protocol : Protocols, entry : Entries]
    BY <1>4, <1>5
  <2> QED
    BY <2>1, <1>5 DEF DownTexts, AnswerTexts, OfOrder
<1>7. Answer(m)
  BY <1>3, <1>5 DEF Release
<1>8. Connections' = Applied(Connections, m)
  <2>1. \/ msg.protocol = "TCP" /\ tcpDB!ReleaseConnection(msg.entry) /\ udp_db' = udp_db
        \/ msg.protocol = "UDP" /\ udpDB!ReleaseConnection(msg.entry) /\ tcp_db' = tcp_db
    BY <1>3 DEF Release, tcpVars, udpVars
  <2> QED
    BY <2>1, <1>4, <1>5, Parts, ReleaseApplied
<1>9. Message.type # "initialize"
  BY <1>1
<1> QED
  BY <1>1, <1>2, <1>6, <1>7, <1>8, <1>9, AnswerHeld

\* The first to be named has an empty table, and the server no connection.
LEMMA NamedHeld ==
  ASSUME SessionInv, HeldRest, Named
  PROVE  HeldRest'
<1>1. /\ server.pc = "adding"
      /\ wan_addrs_list' = [wan_addrs_list EXCEPT ![server.socket] = Message.wan_addrs]
      /\ overlapped' = (overlapped \/ \E t \in DOMAIN wan_addrs_list : wan_addrs_list[t] # <<>>)
      /\ server' = [server EXCEPT !.pc = "lines", !.lines = Tail(@)]
      /\ UNCHANGED <<natporte_message, to_pool, to_nat, natporte, tcp_db, udp_db>>
  BY DEF Named, tcpVars, udpVars
<1>2. server.lines # <<>> /\ Message.type = "initialize"
  BY <1>1, Parts DEF Callback
<1>3. PICK s \in Sockets : s = server.socket /\ s \in DOMAIN wan_addrs_list /\ wan_addrs_list[s] = <<>>
  BY <1>2, LinesFact DEF Listed
<1>4. /\ DOMAIN wan_addrs_list' = DOMAIN wan_addrs_list
      /\ \A t \in DOMAIN wan_addrs_list : t # s => wan_addrs_list'[t] = wan_addrs_list[t]
      /\ wan_addrs_list'[s] # <<>>
  <2>1. Message.wan_addrs # <<>>
    BY <1>2, LinesFact, UpKinds
  <2> QED
    BY <2>1, <1>1, <1>3
<1>5. server'.pc = "lines" /\ server'.socket = s
  BY <1>1, <1>3, Parts, ServerFields
<1>6. overlapped' <=> overlapped \/ \E t \in Sockets : Registered(t)
  <2>1. DOMAIN wan_addrs_list \subseteq Sockets
    BY Parts DEF Types
  <2> QED
    BY <2>1, <1>1 DEF Registered, Listed
<1>7. /\ \A t : Listed(t)' <=> Listed(t)
      /\ \A t \in Sockets : t # s => (Registered(t)' <=> Registered(t))
      /\ Registered(s)' /\ ~Registered(s)
  BY <1>3, <1>4 DEF Registered, Listed
<1>8. ASSUME NEW t \in Sockets
      PROVE  NamesFirst(t)'
  <2>1. CASE t = s
    BY <2>1, <1>7 DEF NamesFirst, Registered
  <2>2. CASE t # s
    <3>1. NextSaid(t)' = NextSaid(t)
      BY <2>2, <1>1, <1>3, <1>5 DEF NextSaid
    <3>2. Listed(t) => wan_addrs_list'[t] = wan_addrs_list[t]
      BY <2>2, <1>4 DEF Listed
    <3> QED
      BY <3>1, <3>2, <1>1, <1>7, NamesFirstKept DEF HeldRest
  <2> QED
    BY <2>1, <2>2
<1>9. SoleList'
  BY <1>5, <1>6, <1>7 DEF SoleList
<1>10. AddingEntries'
  BY <1>5, NoAdding
<1>11. PICK C : C = Connections /\ C = Connections'
  BY <1>1 DEF Connections
<1>12. (\A t \in Sockets : ~Registered(t)) => C = {}
  <2>1. (\A t \in Sockets : ~Registered(t)) => Lists = {}
    BY Parts, RegisteredLists
  <2>2. \A c \in C : c.entry.wan_ip \in Lists
    BY <1>1, <1>11 DEF HeldRest, AddingEntries
  <2> QED
    BY <2>1, <2>2
<1>13. ASSUME NEW p \in Natportes
       PROVE  TableReplays(p)'
  <2>1. TableReplays(p) /\ (Connected(p)' => Connected(p))
    BY <1>1, <1>7 DEF HeldRest, Connected, Open
  <2>2. CASE natporte[p] = Down
    BY <2>2, <1>1 DEF TableReplays, Connected
  <2>3. CASE natporte[p] # Down /\ natporte[p].socket # s
    <3>1. PICK t \in Sockets : t = natporte[p].socket /\ t # s
      BY <2>3, Parts, RunningSocket
    <3> QED
      BY <2>1, <3>1, <1>1, <1>6, <1>7, ReplaysKept
  <2>4. CASE natporte[p].socket = s
    <3>1. PICK n, d : n = natporte[p] /\ d = to_nat[s]
      OBVIOUS
    <3>2. Connected(p) => ReplayOf(n, d) = {}
      BY <2>1, <2>4, <3>1, <1>7, ReplaysNow
    <3>3. TableReplays(p)' <=> (Connected(p)' => IF Registered(s)' THEN overlapped' \/ ReplayOf(n, d) = Connections'
                                                 ELSE ReplayOf(n, d) = {})
      BY <2>4, <3>1, <1>1, ReplaysLater
    <3> QED
      BY <2>1, <3>2, <3>3, <1>6, <1>7, <1>11, <1>12
  <2> QED
    BY <2>2, <2>3, <2>4
<1> QED
  BY <1>1, <1>4, <1>8, <1>9, <1>10, <1>13, CallbackHeld

-----------------------------------------------------------------------------
(* The connections of the server: the steps of a natporte *)

\* A stream that only grows, of a connection that is open, says first what it
\* said.
LEMMA NamesFirstLonger ==
  ASSUME NEW s \in Sockets, NamesFirst(s), UNCHANGED <<wan_addrs_list, natporte_message, server>>,
         NEW U, NEW q \in Seq(U), NEW r \in Seq(U), q = to_pool[s], to_pool'[s] = r,
         Len(q) <= Len(r), \A i \in 1 .. Len(q) : r[i] = q[i], ~Open(s) => r = q
  PROVE  NamesFirst(s)'
<1>1. PICK L, N : L = Len(q) /\ N = Len(r) /\ L \in Nat /\ N \in Nat /\ L <= N
  BY LenProperties
<1>2. (q = <<>> <=> L = 0) /\ (r = <<>> <=> N = 0)
  BY <1>1, EmptySeq
<1>3. Listed(s)' <=> Listed(s)
  BY DEF Listed
<1>4. CASE Listed(s)
  <2>1. SUFFICES ASSUME wan_addrs_list[s] = <<>>
                 PROVE  NextSaid(s)' = "initialize"
    BY <1>3, <1>4 DEF NamesFirst
  <2>2. NextSaid(s) = "initialize"
    BY <2>1, <1>4 DEF NamesFirst
  <2>3. CASE server.socket = s /\ server.lines # <<>>
    BY <2>2, <2>3 DEF NextSaid
  <2>4. CASE ~(server.socket = s /\ server.lines # <<>>) /\ natporte_message[s] # <<>>
    BY <2>2, <2>4 DEF NextSaid
  <2>5. CASE ~(server.socket = s /\ server.lines # <<>>) /\ natporte_message[s] = <<>>
    <3>1. q # <<>> /\ q[1].type = "initialize"
      BY <2>2, <2>5 DEF NextSaid
    <3>2. 1 \in 1 .. L /\ r # <<>>
      BY <3>1, <1>1, <1>2
    <3>3. r[1].type = "initialize"
      BY <3>1, <3>2, <1>1
    <3> QED
      BY <2>5, <3>2, <3>3 DEF NextSaid
  <2> QED
    BY <2>3, <2>4, <2>5
<1>5. CASE ~Listed(s)
  <2>1. SUFFICES ASSUME r # <<>>
                 PROVE  Len(r) >= 2 /\ r[2].type = "initialize"
    BY <1>3, <1>5 DEF NamesFirst
  <2>2. q # <<>>
    BY <2>1, <1>5 DEF Open
  <2>3. L >= 2 /\ q[2].type = "initialize"
    BY <2>2, <1>1, <1>5 DEF NamesFirst
  <2>4. 2 \in 1 .. L /\ N >= 2
    BY <2>3, <1>1
  <2> QED
    BY <2>3, <2>4, <1>1
<1> QED
  BY <1>4, <1>5

\* A natporte begins with an empty table and no answer.
LEMMA StartHeld ==
  ASSUME SessionInv, HeldRest, NEW p \in Natportes, NEW s \in Sockets, Start(p, s)
  PROVE  HeldRest'
<1>1. PICK m : m = [type |-> "initialize", wan_addrs |-> pool_addr[p]]
  OBVIOUS
<1>2. m \in UpTexts /\ m.type = "initialize"
  BY <1>1, SessionAssumption DEF UpTexts
<1>3. /\ ~Listed(s) /\ (\A q \in Natportes : natporte[q].socket # s) /\ s # undefined
      /\ natporte[p] = Down
      /\ UNCHANGED <<wan_addrs_list, natporte_message, server, overlapped, tcp_db, udp_db>>
  BY SessionAssumption DEF Start, Open, sessionVars, tcpVars, udpVars
<1>4. /\ natporte'[p].socket = s /\ natporte'[p].table = {} /\ natporte'[p].string_buffer = <<>>
      /\ \A q \in Natportes : q # p => natporte'[q] = natporte[q]
  <2>1. natporte \in [Natportes -> NatporteTypes]
    BY Parts, NatporteFields
  <2>2. natporte' = [natporte EXCEPT ![p].socket = s]
    BY DEF Start
  <2>3. PICK new : new = [Down EXCEPT !.socket = s]
    OBVIOUS
  <2>4. Down = [socket |-> Down.socket, table |-> Down.table, awaited |-> Down.awaited,
                string_buffer |-> Down.string_buffer]
    BY DEF Down
  <2>5. new.socket = s /\ new.table = {} /\ new.string_buffer = <<>>
    BY <2>3, <2>4, DownFields
  <2>6. natporte' = [natporte EXCEPT ![p] = new]
    BY <2>2, <2>3, <1>3
  <2> QED
    BY <2>1, <2>5, <2>6
<1>5. PICK U, q : U = Tokens /\ q = <<Connecting>>
  OBVIOUS
<1>6. q \in Seq(U) /\ Len(q) = 1 /\ q[1] = Connecting /\ m \in U /\ NL \in U
  <2>1. Connecting \in U /\ m \in U /\ NL \in U
    BY <1>2, <1>5, EventKinds DEF Tokens
  <2> QED
    BY <2>1, <1>5
<1>7. PICK r : r = q \o Text(m)
  OBVIOUS
<1>8. Len(r) = 3 /\ r[2] = m
  <2>1. /\ Len(q \o Text(m)) = Len(q) + 2
        /\ (q \o Text(m))[Len(q) + 1] = m
    BY <1>6, TextBehind
  <2> QED
    BY <2>1, <1>6, <1>7
<1>9. /\ to_pool'[s] = r /\ to_nat'[s] = <<>>
      /\ \A t \in Sockets : t # s => to_pool'[t] = to_pool[t] /\ to_nat'[t] = to_nat[t]
  <2>1. to_pool' = [to_pool EXCEPT ![s] = r] /\ to_nat' = [to_nat EXCEPT ![s] = <<>>]
    BY <1>1, <1>5, <1>7 DEF Start
  <2> QED
    BY <2>1, Parts DEF Types
<1>10. \A t : Listed(t)' <=> Listed(t)
  BY <1>3 DEF Listed
<1>11. NamesFirst(s)'
  BY <1>2, <1>3, <1>8, <1>9, <1>10 DEF NamesFirst
<1>12. Attended(s)'
  BY <1>4 DEF Attended
<1>13. SoleList' /\ AddingEntries' /\ Connections' = Connections
  BY <1>3, SoleListKept, AddingKept DEF HeldRest, Connections
<1>14. TableReplays(p)'
  <2>1. PICK n, d : n = natporte'[p] /\ d = to_nat'[s]
    OBVIOUS
  <2>2. ReplayOf(n, d) = {}
    <3>1. n.string_buffer \o d = <<>> /\ n.table = {}
      BY <2>1, <1>4, <1>9
    <3>2. Messages(<<>>) = <<>>
      BY MessagesOfOne
    <3>3. Replayed({}, <<>>) = {}
      BY ReplayedOfOne
    <3> QED
      BY <3>1, <3>2, <3>3 DEF ReplayOf
  <2>3. ~Registered(s)'
    BY <1>3, <1>10 DEF Registered
  <2>4. TableReplays(p)' <=>
          (Connected(p)' => IF Registered(s)' THEN overlapped' \/ ReplayOf(n, d) = Connections'
                            ELSE ReplayOf(n, d) = {})
    BY <2>1, <1>4, ReplaysLater
  <2> QED
    BY <2>2, <2>3, <2>4
<1>15. \A t \in Sockets : t # s =>
         /\ to_nat'[t] = to_nat[t] /\ to_pool'[t] = to_pool[t] /\ NextSaid(t)' = NextSaid(t)
         /\ Listed(t)' <=> Listed(t)
         /\ Listed(t) => wan_addrs_list'[t] = wan_addrs_list[t]
  BY <1>3, <1>9, <1>10, NextSaidKept
<1>16. /\ \A a \in Natportes :
            /\ natporte[a].socket \in {s, undefined} \/ natporte'[a] = natporte[a]
            /\ natporte'[a].socket = s \/ natporte'[a] = natporte[a] \/ natporte'[a] = Down
       /\ \A a \in Natportes : natporte'[a].socket = s => a = p
  BY <1>3, <1>4, DownFields
<1> QED
  BY <1>3, <1>11, <1>12, <1>13, <1>14, <1>15, <1>16, Parts, SocketHeld

LEMMA OrderHeld ==
  ASSUME SessionInv, HeldRest, NEW p \in Natportes, NEW m \in Orders(p), Order(p, m)
  PROVE  HeldRest'
<1>1. m \in UpTexts
  BY Parts, OrderTextFact
<1>2. PICK s \in Sockets : /\ s = natporte[p].socket /\ natporte[p] # Down
                          /\ \A q \in Natportes : q # p => natporte[q].socket # s
  BY Parts, RunningSocket DEF Order
<1>3. /\ natporte'[p].socket = s /\ natporte'[p].table = natporte[p].table
      /\ natporte'[p].string_buffer = natporte[p].string_buffer
      /\ \A q \in Natportes : q # p => natporte'[q] = natporte[q]
  <2>1. natporte \in [Natportes -> NatporteTypes]
    BY Parts, NatporteFields
  <2>2. PICK n, new, orders : /\ n = natporte[p] /\ orders = Append(n.awaited, m)
                              /\ new = [n EXCEPT !.awaited = orders]
    OBVIOUS
  <2>3. natporte' = [natporte EXCEPT ![p] = new]
    BY <2>2 DEF Order
  <2>4. n = [socket |-> n.socket, table |-> n.table, awaited |-> n.awaited,
             string_buffer |-> n.string_buffer]
    BY <2>2, Parts, NatporteFields
  <2>5. new.socket = n.socket /\ new.table = n.table /\ new.string_buffer = n.string_buffer
    BY <2>2, <2>4
  <2> QED
    BY <2>1, <2>2, <2>3, <2>5, <1>2
<1>4. UNCHANGED <<wan_addrs_list, natporte_message, server, to_nat, overlapped, tcp_db, udp_db>>
  BY DEF Order, sessionVars, tcpVars, udpVars
<1>5. PICK U, q, r : U = Tokens /\ q = to_pool[s] /\ r = IF Open(s) THEN q \o Text(m) ELSE q
  OBVIOUS
<1>6. q \in Seq(U) /\ m \in U /\ NL \in U
  BY <1>1, <1>5, Parts, TokensFact DEF Tokens
<1>7. to_pool'[s] = r /\ \A t \in Sockets : t # s => to_pool'[t] = to_pool[t]
  <2>1. to_pool' = [to_pool EXCEPT ![s] = r]
    BY <1>2, <1>5 DEF Order
  <2> QED
    BY <2>1, Parts DEF Types
<1>8. r \in Seq(U) /\ Len(q) <= Len(r) /\ \A i \in 1 .. Len(q) : r[i] = q[i]
  <2>1. Len(q) \in Nat /\ q \o Text(m) \in Seq(U) /\ Len(q \o Text(m)) = Len(q) + 2
        /\ \A i \in 1 .. Len(q) : (q \o Text(m))[i] = q[i]
    BY <1>6, TextBehind
  <2> QED
    BY <2>1, <1>5, <1>6
<1>9. NamesFirst(s)'
  <2>1. NamesFirst(s) /\ (~Open(s) => r = q)
    BY <1>5 DEF HeldRest
  <2> QED
    BY <2>1, <1>4, <1>5, <1>6, <1>7, <1>8, NamesFirstLonger
<1>10. Attended(s)'
  BY <1>3 DEF Attended
<1>11. SoleList' /\ AddingEntries' /\ Connections' = Connections
  BY <1>4, SoleListKept, AddingKept DEF HeldRest, Connections
<1>12. \A t : Listed(t)' <=> Listed(t)
  BY <1>4 DEF Listed
<1>13. TableReplays(p)'
  <2>1. PICK n, new, d : n = natporte[p] /\ new = natporte'[p] /\ d = to_nat[s]
    OBVIOUS
  <2>2. Connected(p)' => Connected(p)
    <3>1. Open(s)' => Open(s)
      <4>1. ~Open(s) => to_pool'[s] = to_pool[s]
        BY <1>5, <1>7
      <4> QED
        BY <4>1, <1>12, OpenKept
    <3> QED
      BY <3>1, <1>2, <1>3 DEF Connected
  <2>3. ReplayOf(new, d) = ReplayOf(n, d)
    BY <2>1, <1>3 DEF ReplayOf
  <2>4. TableReplays(p)' <=>
          (Connected(p)' => IF Registered(s)' THEN overlapped' \/ ReplayOf(new, d) = Connections'
                            ELSE ReplayOf(new, d) = {})
    BY <2>1, <1>3, <1>4, ReplaysLater
  <2>5. TableReplays(p) <=>
          (Connected(p) => IF Registered(s) THEN overlapped \/ ReplayOf(n, d) = Connections
                           ELSE ReplayOf(n, d) = {})
    BY <2>1, <1>2, ReplaysNow
  <2>6. Registered(s)' <=> Registered(s)
    BY <1>4, <1>12 DEF Registered
  <2>7. TableReplays(p)
    BY DEF HeldRest
  <2> QED
    BY <2>2, <2>3, <2>4, <2>5, <2>6, <2>7, <1>4, <1>11
<1>14. \A t \in Sockets : t # s =>
         /\ to_nat'[t] = to_nat[t] /\ to_pool'[t] = to_pool[t] /\ NextSaid(t)' = NextSaid(t)
         /\ Listed(t)' <=> Listed(t)
         /\ Listed(t) => wan_addrs_list'[t] = wan_addrs_list[t]
  BY <1>4, <1>7, <1>12, NextSaidKept
<1>15. /\ \A a \in Natportes :
            /\ natporte[a].socket \in {s, undefined} \/ natporte'[a] = natporte[a]
            /\ natporte'[a].socket = s \/ natporte'[a] = natporte[a] \/ natporte'[a] = Down
       /\ \A a \in Natportes : natporte'[a].socket = s => a = p
  BY <1>2, <1>3
<1> QED
  BY <1>4, <1>9, <1>10, <1>11, <1>13, <1>14, <1>15, Parts, SocketHeld

\* The end of its connection stands for the natporte that is gone.
LEMMA ExitHeld ==
  ASSUME SessionInv, HeldRest, NEW p \in Natportes, Exit(p)
  PROVE  HeldRest'
<1>1. PICK s \in Sockets : /\ s = natporte[p].socket /\ natporte[p] # Down /\ s # undefined
                          /\ \A q \in Natportes : q # p => natporte[q].socket # s
  BY Parts, RunningSocket DEF Exit
<1>2. PICK type \in {"end", "reset"} :
        to_pool' = [to_pool EXCEPT ![s] = IF Open(s) THEN Append(to_pool[s], [type |-> type]) ELSE to_pool[s]]
  BY <1>1 DEF Exit
<1>3. /\ natporte' = [natporte EXCEPT ![p] = Down] /\ to_nat' = [to_nat EXCEPT ![s] = <<>>]
      /\ UNCHANGED <<wan_addrs_list, natporte_message, server, overlapped, tcp_db, udp_db>>
  BY <1>1 DEF Exit, sessionVars, tcpVars, udpVars
<1>4. natporte'[p] = Down /\ \A q \in Natportes : q # p => natporte'[q] = natporte[q]
  BY <1>3, Parts, NatporteFields
<1>5. PICK U, q, L, e, r :
        /\ U = Tokens /\ q = to_pool[s] /\ L = Len(q) /\ e = [type |-> type]
        /\ r = IF Open(s) THEN Append(q, e) ELSE q
  OBVIOUS
<1>6. q \in Seq(U) /\ e \in U /\ e \in Ends /\ L \in Nat
  BY <1>5, Parts, TokensFact, EventKinds DEF Tokens, Events, Connecting
<1>7. /\ to_pool'[s] = r
      /\ \A t \in Sockets : t # s => to_pool'[t] = to_pool[t] /\ to_nat'[t] = to_nat[t]
  <2>1. to_pool' = [to_pool EXCEPT ![s] = r]
    BY <1>2, <1>5
  <2> QED
    BY <2>1, <1>3, Parts DEF Types
<1>8. /\ Append(q, e) \in Seq(U) /\ Len(Append(q, e)) = L + 1
      /\ \A i \in 1 .. L : Append(q, e)[i] = q[i]
      /\ Append(q, e)[L + 1] = e /\ L + 1 \in DOMAIN Append(q, e)
  BY <1>5, <1>6, AppendProperties
<1>9. \A t : Listed(t)' <=> Listed(t)
  BY <1>3 DEF Listed
<1>10. NamesFirst(s)'
  <2>1. NamesFirst(s) /\ (~Open(s) => r = q)
    BY <1>5 DEF HeldRest
  <2>2. r \in Seq(U) /\ Len(q) <= Len(r) /\ \A i \in 1 .. Len(q) : r[i] = q[i]
    BY <1>5, <1>6, <1>8
  <2> QED
    BY <2>1, <2>2, <1>3, <1>5, <1>6, <1>7, NamesFirstLonger
<1>11. Attended(s)'
  <2>1. CASE Open(s)
    <3>1. L + 1 \in DOMAIN to_pool'[s] /\ to_pool'[s][L + 1] \in Ends
      BY <2>1, <1>5, <1>6, <1>7, <1>8
    <3> QED
      BY <3>1 DEF Attended
  <2>2. CASE ~Open(s)
    <3>1. to_pool'[s] = to_pool[s]
      BY <2>2, <1>5, <1>7
    <3>2. ~Open(s)'
      BY <2>2, <3>1, <1>9, OpenKept
    <3> QED
      BY <3>2 DEF Attended
  <2> QED
    BY <2>1, <2>2
<1>12. SoleList' /\ AddingEntries' /\ Connections' = Connections
  BY <1>3, SoleListKept, AddingKept DEF HeldRest, Connections
<1>13. \A t \in Sockets : t # s =>
         /\ to_nat'[t] = to_nat[t] /\ to_pool'[t] = to_pool[t] /\ NextSaid(t)' = NextSaid(t)
         /\ Listed(t)' <=> Listed(t)
         /\ Listed(t) => wan_addrs_list'[t] = wan_addrs_list[t]
  BY <1>3, <1>7, <1>9, NextSaidKept
<1>14. /\ \A a \in Natportes :
            /\ natporte[a].socket \in {s, undefined} \/ natporte'[a] = natporte[a]
            /\ natporte'[a].socket = s \/ natporte'[a] = natporte[a] \/ natporte'[a] = Down
       /\ \A a \in Natportes : natporte'[a].socket # s
  BY <1>1, <1>4, DownFields
<1> QED
  BY <1>3, <1>10, <1>11, <1>12, <1>13, <1>14, Parts, SocketHeld

LEMMA TakesReplay ==
  ASSUME NEW p, NEW s, NEW n, NEW q, NEW T, NEW last, NEW rest, Takes(p, s, n, q, T, last, rest),
         n.string_buffer \in Seq(Tokens), q \in Seq(Tokens), NEW new, new = natporte'[p]
  PROVE  ReplayOf(new, rest) = ReplayOf(n, q)
<1>1. PICK U, kept : U = Tokens /\ kept = n.string_buffer
  OBVIOUS
<1>2. PICK a, b, d, e, x : /\ a = Messages(kept) /\ b = Messages(q) /\ d = Messages(T)
                           /\ e = Messages(last) /\ x = Messages(rest)
  OBVIOUS
<1>3. /\ kept \in Seq(U) /\ q \in Seq(U) /\ T \in Seq(U) /\ last \in Seq(U) /\ rest \in Seq(U)
      /\ a \o b = d \o (e \o x)
      /\ new.string_buffer = last /\ new.table = Replayed(n.table, d)
  BY <1>1, <1>2 DEF Takes
<1>4. Messages(kept \o q) = a \o b /\ Messages(last \o rest) = e \o x
  BY <1>2, <1>3, MessagesConcat
<1>5. d \in Seq(U) /\ e \in Seq(U) /\ x \in Seq(U)
  BY <1>2, <1>3, MessagesType
<1>6. PICK y : y = e \o x /\ y \in Seq(U)
  BY <1>5, ConcatProperties
<1>7. Replayed(n.table, d \o y) = Replayed(Replayed(n.table, d), y)
  BY <1>5, <1>6, ReplayedConcat
<1>8. ReplayOf(n, q) = Replayed(n.table, d \o y)
  BY <1>1, <1>3, <1>4, <1>6 DEF ReplayOf
<1>9. ReplayOf(new, rest) = Replayed(new.table, y)
  BY <1>3, <1>4, <1>6 DEF ReplayOf
<1> QED
  BY <1>3, <1>7, <1>8, <1>9

LEMMA ReceiveHeld ==
  ASSUME SessionInv, HeldRest, NEW p \in Natportes, Receive(p)
  PROVE  HeldRest'
<1>1. PICK s, n, q, T, last, rest :
        /\ s \in Sockets /\ s = natporte[p].socket /\ natporte[p] # Down
        /\ n = natporte[p] /\ q = to_nat[s]
        /\ Takes(p, s, n, q, T, last, rest)
  BY ReceiveTakes
<1>2. /\ natporte'[p].socket = s /\ to_nat'[s] = rest
      /\ \A a \in Natportes : a # p => natporte'[a] = natporte[a]
      /\ \A t \in Sockets : t # s => to_nat'[t] = to_nat[t]
  BY <1>1 DEF Takes
<1>3. s # undefined /\ \A a \in Natportes : a # p => natporte[a].socket # s
  BY <1>1, Parts, RunningSocket
<1>4. UNCHANGED <<wan_addrs_list, natporte_message, server, to_pool, overlapped, tcp_db, udp_db>>
  BY DEF Receive, sessionVars, tcpVars, udpVars
<1>5. \A t : Listed(t)' <=> Listed(t)
  BY <1>4 DEF Listed
<1>6. \A t \in Sockets : NextSaid(t)' = NextSaid(t)
  BY <1>4, NextSaidKept
<1>7. NamesFirst(s)'
  BY <1>1, <1>4, <1>5, <1>6, NamesFirstKept DEF HeldRest
<1>8. Attended(s)'
  BY <1>2 DEF Attended
<1>9. SoleList' /\ AddingEntries' /\ Connections' = Connections
  BY <1>4, SoleListKept, AddingKept DEF HeldRest, Connections
<1>10. TableReplays(p)'
  <2>1. PICK new : new = natporte'[p]
    OBVIOUS
  <2>2. ReplayOf(new, rest) = ReplayOf(n, q)
    <3>1. n.string_buffer \in Seq(Tokens) /\ q \in Seq(Tokens)
      BY <1>1, Parts, TokensFact, KeptTokens
    <3> QED
      BY <3>1, <2>1, <1>1, TakesReplay
  <2>3. Connected(p)' => Connected(p)
    BY <1>1, <1>2, <1>4, <1>5 DEF Connected, Open
  <2>4. TableReplays(p)' <=>
          (Connected(p)' => IF Registered(s)' THEN overlapped' \/ ReplayOf(new, rest) = Connections'
                            ELSE ReplayOf(new, rest) = {})
    BY <2>1, <1>2, ReplaysLater
  <2>5. TableReplays(p) <=>
          (Connected(p) => IF Registered(s) THEN overlapped \/ ReplayOf(n, q) = Connections
                           ELSE ReplayOf(n, q) = {})
    BY <1>1, ReplaysNow
  <2>6. Registered(s)' <=> Registered(s)
    BY <1>4, <1>5 DEF Registered
  <2>7. TableReplays(p)
    BY DEF HeldRest
  <2> QED
    BY <2>2, <2>3, <2>4, <2>5, <2>6, <2>7, <1>4, <1>9
<1>11. \A t \in Sockets : t # s =>
         /\ to_nat'[t] = to_nat[t] /\ to_pool'[t] = to_pool[t] /\ NextSaid(t)' = NextSaid(t)
         /\ Listed(t)' <=> Listed(t)
         /\ Listed(t) => wan_addrs_list'[t] = wan_addrs_list[t]
  BY <1>2, <1>4, <1>5, <1>6
<1>12. /\ \A a \in Natportes :
            /\ natporte[a].socket \in {s, undefined} \/ natporte'[a] = natporte[a]
            /\ natporte'[a].socket = s \/ natporte'[a] = natporte[a] \/ natporte'[a] = Down
       /\ \A a \in Natportes : natporte'[a].socket = s => a = p
  BY <1>1, <1>2, <1>3
<1> QED
  BY <1>1, <1>4, <1>7, <1>8, <1>9, <1>10, <1>11, <1>12, Parts, SocketHeld

-----------------------------------------------------------------------------
(* The connections of the server: the steps of the server at one connection *)

\* A read does not change what the server hears next.
LEMMA ServerDataHeld ==
  ASSUME SessionInv, HeldRest, NEW s \in Sockets, ServerData(s)
  PROVE  HeldRest'
<1>1. PICK q, kept, c, k, lines, N, front, last, rest : Reads(s, q, kept, c, k, lines, N, front, last, rest)
  BY ServerDataReads
<1>2. /\ q = to_pool[s] /\ kept = natporte_message[s] /\ c = Len(kept) /\ N = (k + c) \div 2
      /\ c \in Nat /\ c <= 1 /\ kept \in Seq(UpTexts) /\ N \in Nat
      /\ Len(q) \in Nat /\ DOMAIN q = 1 .. Len(q) /\ k \in 1 .. Len(q) /\ k \in Nat
  BY <1>1 DEF Reads
<1>3. /\ server'.pc = "lines" /\ server'.socket = s /\ server'.lines = front
      /\ to_pool'[s] = rest /\ natporte_message'[s] = last
      /\ \A t \in Sockets : t # s => to_pool'[t] = to_pool[t] /\ natporte_message'[t] = natporte_message[t]
  BY <1>1 DEF Reads
<1>4. /\ server = Idle /\ Listed(s)
      /\ UNCHANGED <<wan_addrs_list, to_nat, natporte, overlapped, tcp_db, udp_db>>
  BY DEF ServerData, tcpVars, udpVars
<1>5. \A t : Listed(t)' <=> Listed(t)
  BY <1>4 DEF Listed
<1>6. NextSaid(s)' = NextSaid(s)
  <2>1. NextSaid(s) = IF kept # <<>> THEN kept[1].type ELSE q[1].type
    <3>1. q # <<>>
      BY <1>2
    <3>2. server.lines = <<>>
      BY <1>4, DownFields
    <3> QED
      BY <3>1, <3>2, <1>2 DEF NextSaid
  <2>2. kept = <<>> <=> c = 0
    BY <1>2, EmptySeq
  <2>5. front = <<>> <=> N = 0
    <3>1. PICK S : S = Seq(UpTexts)
      OBVIOUS
    <3>2. front \in Seq(S) /\ Len(front) = N
      BY <3>1, <1>1 DEF Reads
    <3> QED
      BY <3>2, EmptySeq
  <2>6. N \in Nat
    BY <1>2
  <2>7. N = 0 => k = 1 /\ c = 0
    <3>1. k \in Nat /\ c \in Nat /\ N = (k + c) \div 2 /\ k >= 1
      BY <1>2
    <3> QED
      BY <3>1
  <2>3. CASE N >= 1
    <3>1. 1 \in 1 .. N /\ front # <<>>
      BY <2>3, <2>5, <2>6
    <3>2. NextSaid(s)' = front[1][1].type
      BY <3>1, <1>3 DEF NextSaid
    <3>3. front[1] = IF kept # <<>> THEN kept ELSE <<q[1]>>
      <4>1. /\ front[1] = lines[1] /\ (kept # <<>> => lines[1] = kept)
            /\ kept = <<>> => lines[1] = <<q[2 * 1 - 1 - c]>>
        BY <3>1, <1>1 DEF Reads
      <4>2. c = 0 => 2 * 1 - 1 - c = 1
        OBVIOUS
      <4> QED
        BY <4>1, <4>2, <2>2
    <3> QED
      BY <2>1, <3>2, <3>3
  <2>4. CASE N = 0
    <3>1. k = 1 /\ c = 0
      BY <2>4, <2>7
    <3>2. last = <<q[1]>>
      <4>1. ~Even(k + c)
        BY <3>1 DEF Even
      <4> QED
        BY <4>1, <3>1, <1>1 DEF Reads
    <3>3. front = <<>>
      BY <2>4, <2>5
    <3>4. last # <<>> /\ last[1] = q[1]
      BY <3>2
    <3>5. NextSaid(s)' = last[1].type
      BY <3>3, <3>4, <1>3 DEF NextSaid
    <3> QED
      BY <2>1, <2>2, <3>1, <3>4, <3>5
  <2> QED
    BY <2>3, <2>4, <2>6
<1>7. NamesFirst(s)'
  BY <1>4, <1>5, <1>6 DEF HeldRest, NamesFirst
<1>8. Attended(s)'
  <2>1. Attended(s) /\ Open(s)
    BY <1>4 DEF HeldRest, Open
  <2>2. CASE \E p \in Natportes : natporte[p].socket = s
    BY <2>2, <1>4 DEF Attended
  <2>3. CASE \E i \in DOMAIN to_pool[s] : to_pool[s][i] \in Ends
    <3>1. PICK i \in 1 .. Len(q) : q[i] \in Ends
      BY <2>3, <1>2
    <3>2. ~(i \in 1 .. k)
      <4>1. \A j \in 1 .. k : q[j] \in UpTexts \cup {NL}
        BY <1>1 DEF Reads
      <4> QED
        BY <4>1, <3>1, UpKinds, EventKinds
    <3>3. PICK j : j = i - k
      OBVIOUS
    <3>4. j \in 1 .. Len(q) - k /\ j + k = i
      BY <3>1, <3>2, <3>3, <1>2
    <3>5. j \in DOMAIN rest /\ rest[j] = q[j + k]
      BY <3>4, <1>1 DEF Reads
    <3>6. j \in DOMAIN to_pool'[s] /\ to_pool'[s][j] \in Ends
      BY <3>1, <3>4, <3>5, <1>3
    <3> QED
      BY <3>6 DEF Attended
  <2> QED
    BY <2>1, <2>2, <2>3 DEF Attended
<1>9. \A t \in Sockets : Registered(t)' <=> Registered(t)
  BY <1>4, <1>5 DEF Registered
<1>10. SoleList' /\ AddingEntries' /\ Connections' = Connections
  BY <1>3, <1>4, <1>9, NoAdding DEF HeldRest, SoleList, Connections
<1>11. ASSUME NEW p \in Natportes, natporte'[p].socket = s
       PROVE  TableReplays(p)'
  <2>1. TableReplays(p) /\ natporte'[p] = natporte[p] /\ (Connected(p)' => Connected(p))
    BY <1>4, <1>5, <1>11 DEF HeldRest, Connected, Open
  <2> QED
    BY <2>1, <1>4, <1>9, <1>10, <1>11, ReplaysKept
<1>12. \A t \in Sockets : t # s =>
         /\ to_nat'[t] = to_nat[t] /\ to_pool'[t] = to_pool[t] /\ NextSaid(t)' = NextSaid(t)
         /\ Listed(t)' <=> Listed(t)
         /\ Listed(t) => wan_addrs_list'[t] = wan_addrs_list[t]
  <2>1. ASSUME NEW t \in Sockets, t # s
        PROVE  NextSaid(t)' = NextSaid(t)
    BY <2>1, <1>3, <1>4, DownFields DEF NextSaid
  <2> QED
    BY <2>1, <1>3, <1>4, <1>5
<1>13. \A a \in Natportes :
         /\ natporte[a].socket \in {s, undefined} \/ natporte'[a] = natporte[a]
         /\ natporte'[a].socket = s \/ natporte'[a] = natporte[a] \/ natporte'[a] = Down
  BY <1>4
<1> QED
  BY <1>4, <1>7, <1>8, <1>10, <1>11, <1>12, <1>13, Parts, SocketHeld

LEMMA ConnectHeld ==
  ASSUME SessionInv, HeldRest, NEW s \in Sockets, Connect(s)
  PROVE  HeldRest'
<1>1. /\ server = Idle /\ to_pool[s] # <<>> /\ Head(to_pool[s]) = Connecting
      /\ to_pool' = [to_pool EXCEPT ![s] = Tail(@)]
      /\ wan_addrs_list' = [t \in DOMAIN wan_addrs_list \cup {s} |->
                              IF t = s THEN <<>> ELSE wan_addrs_list[t]]
      /\ natporte_message' = [natporte_message EXCEPT ![s] = <<>>]
      /\ UNCHANGED <<server, natporte, overlapped, tcp_db, udp_db>>
  BY DEF Connect, tcpVars, udpVars
<1>2. PICK U, q : U = Tokens /\ q = to_pool[s]
  OBVIOUS
<1>3. /\ q \in Seq(U) /\ Len(q) \in Nat /\ q[1] = Connecting /\ DOMAIN q = 1 .. Len(q)
      /\ to_pool'[s] = Tail(q) /\ DOMAIN to_pool'[s] = 1 .. Len(q) - 1
      /\ \A i \in 1 .. Len(q) - 1 : to_pool'[s][i] = q[i + 1]
      /\ \A t \in Sockets : t # s => to_pool'[t] = to_pool[t]
  <2>1. to_pool'[s] = Tail(q)
    BY <1>1, <1>2, Parts DEF Types
  <2> QED
    BY <2>1, <1>1, <1>2, UnreadTail, Parts, TokensFact, FramedFact
<1>4. ~Listed(s) /\ Open(s)
  <2>1. 1 \in DOMAIN to_pool[s] /\ to_pool[s][1] = Connecting
    BY <1>1, UnreadTail
  <2> QED
    BY <2>1, <1>1, FramedFact DEF Open
<1>5. /\ Listed(s)' /\ wan_addrs_list'[s] = <<>>
      /\ \A t \in Sockets : t # s =>
           (Listed(t)' <=> Listed(t)) /\ (Listed(t) => wan_addrs_list'[t] = wan_addrs_list[t])
  BY <1>1 DEF Listed
<1>6. /\ natporte_message'[s] = <<>>
      /\ \A t \in Sockets : t # s => natporte_message'[t] = natporte_message[t]
  BY <1>1, Parts DEF Types
<1>7. PICK d : d = to_nat[s]
  OBVIOUS
<1>8. /\ d \in Seq(U) /\ to_nat'[s] = d \o Text(Initialize)
      /\ \A t \in Sockets : t # s => to_nat'[t] = to_nat[t]
  <2>1. to_nat' = [to_nat EXCEPT ![s] = d \o Text(Initialize)]
    BY <1>7 DEF Connect
  <2> QED
    BY <2>1, <1>2, <1>7, Parts, TokensFact, SameLists
<1>9. \A t \in Sockets : Registered(t)' <=> Registered(t)
  BY <1>4, <1>5 DEF Registered
<1>10. Len(q) >= 2 /\ q[2].type = "initialize"
  BY <1>1, <1>2, <1>4 DEF HeldRest, NamesFirst
<1>11. NamesFirst(s)'
  <2>1. PICK L \in Nat : L = Len(q) /\ L >= 2
    BY <1>3, <1>10
  <2>2. to_pool'[s][1].type = "initialize" /\ to_pool'[s] # <<>>
    <3>1. 1 \in 1 .. L - 1 /\ 1 + 1 = 2
      BY <2>1
    <3>2. to_pool'[s][1] = q[1 + 1] /\ DOMAIN to_pool'[s] = 1 .. L - 1
      BY <2>1, <3>1, <1>3
    <3> QED
      BY <3>1, <3>2, <1>10
  <2>3. NextSaid(s)' = "initialize"
    BY <2>2, <1>1, <1>6, DownFields DEF NextSaid
  <2> QED
    BY <2>3, <1>5 DEF NamesFirst
<1>12. Attended(s)'
  <2>1. CASE \E p \in Natportes : natporte[p].socket = s
    BY <2>1, <1>1 DEF Attended
  <2>2. CASE \E i \in DOMAIN to_pool[s] : to_pool[s][i] \in Ends
    <3>1. PICK i \in 1 .. Len(q) : q[i] \in Ends
      BY <2>2, <1>2, <1>3
    <3>2. i # 1
      BY <3>1, <1>3, EventKinds
    <3>3. PICK j : j = i - 1
      OBVIOUS
    <3>4. j \in 1 .. Len(q) - 1 /\ j + 1 = i
      BY <3>2, <3>3, <1>3
    <3>5. j \in DOMAIN to_pool'[s] /\ to_pool'[s][j] \in Ends
      BY <3>1, <3>4, <1>3
    <3> QED
      BY <3>5 DEF Attended
  <2> QED
    BY <2>1, <2>2, <1>4 DEF HeldRest, Attended
<1>13. SoleList' /\ AddingEntries' /\ Connections' = Connections
  <2>1. server'.pc # "adding"
    BY <1>1, DownFields
  <2> QED
    BY <2>1, <1>1, <1>9, NoAdding DEF HeldRest, SoleList, Connections
<1>14. ASSUME NEW p \in Natportes, natporte'[p].socket = s
       PROVE  TableReplays(p)'
  <2>1. CASE natporte[p] = Down
    BY <2>1, <1>1 DEF TableReplays, Connected
  <2>2. CASE natporte[p] # Down
    <3>1. PICK n, e : n = natporte[p] /\ e = d \o Text(Initialize)
      OBVIOUS
    <3>2. ReplayOf(n, d) = {}
      <4>1. Connected(p) /\ TableReplays(p) /\ s = n.socket /\ ~Registered(s)
        BY <2>2, <3>1, <1>1, <1>4, <1>14 DEF Connected, HeldRest, Registered
      <4> QED
        BY <4>1, <3>1, <1>7, ReplaysNow
    <3>3. ReplayOf(n, e) = ReplayOf(n, d)
      <4>1. ~OfOrder(Initialize) /\ Initialize \in U /\ NL \in U
        BY <1>2 DEF OfOrder, Initialize, Tokens, DownTexts
      <4>2. n.string_buffer \in Seq(U)
        BY <3>1, <1>2, Parts, KeptTokens
      <4> QED
        BY <4>1, <4>2, <3>1, <1>8, ReplayText
    <3>4. TableReplays(p)' <=> (Connected(p)' => IF Registered(s)' THEN overlapped' \/ ReplayOf(n, e) = Connections'
                                                 ELSE ReplayOf(n, e) = {})
      BY <3>1, <1>1, <1>8, <1>14, ReplaysLater
    <3>5. ~Registered(s)'
      BY <1>4, <1>9 DEF Registered
    <3> QED
      BY <3>2, <3>3, <3>4, <3>5
  <2> QED
    BY <2>1, <2>2
<1>15. \A t \in Sockets : t # s =>
         /\ to_nat'[t] = to_nat[t] /\ to_pool'[t] = to_pool[t] /\ NextSaid(t)' = NextSaid(t)
         /\ Listed(t)' <=> Listed(t)
         /\ Listed(t) => wan_addrs_list'[t] = wan_addrs_list[t]
  <2>1. ASSUME NEW t \in Sockets, t # s
        PROVE  NextSaid(t)' = NextSaid(t)
    BY <2>1, <1>1, <1>3, <1>6, NextSaidKept
  <2> QED
    BY <2>1, <1>3, <1>5, <1>8
<1>16. \A a \in Natportes :
         /\ natporte[a].socket \in {s, undefined} \/ natporte'[a] = natporte[a]
         /\ natporte'[a].socket = s \/ natporte'[a] = natporte[a] \/ natporte'[a] = Down
  BY <1>1
<1> QED
  BY <1>1, <1>11, <1>12, <1>13, <1>14, <1>15, <1>16, Parts, SocketHeld

\* Nobody is at a connection that has ended.
LEMMA EndHeld ==
  ASSUME SessionInv, HeldRest, NEW s \in Sockets, End(s)
  PROVE  HeldRest'
<1>1. /\ server = Idle /\ Listed(s) /\ to_pool[s] # <<>> /\ Head(to_pool[s]) = [type |-> "end"]
      /\ to_pool' = [to_pool EXCEPT ![s] = Tail(@)]
      /\ server' = [pc |-> "deleting", socket |-> s, lines |-> <<>>, addrs |-> wan_addrs_list[s]]
      /\ DOMAIN wan_addrs_list' = DOMAIN wan_addrs_list \ {s}
      /\ \A t \in DOMAIN wan_addrs_list : t # s => wan_addrs_list'[t] = wan_addrs_list[t]
      /\ UNCHANGED <<natporte_message, to_nat, natporte, overlapped, tcp_db, udp_db>>
  BY DEF End, Restrict, tcpVars, udpVars
<1>2. server'.pc = "deleting" /\ server'.socket = s /\ server'.lines = <<>> /\ server'.addrs = wan_addrs_list[s]
  BY <1>1
<1>3. /\ Len(to_pool[s]) \in Nat /\ Len(to_pool'[s]) = Len(to_pool[s]) - 1
      /\ to_pool[s][1] = [type |-> "end"] /\ 1 \in DOMAIN to_pool[s]
      /\ \A t \in Sockets : t # s => to_pool'[t] = to_pool[t]
      /\ to_pool'[s] \in Seq(UpTexts \cup {NL} \cup Events)
  BY <1>1, UnreadTail, FramedFact
<1>4. to_pool[s][1] \in Ends
  BY <1>3, EventKinds
<1>5. to_pool'[s] = <<>>
  <2>1. Len(to_pool[s]) = 1
    BY <1>3, <1>4, FramedFact
  <2>2. Len(to_pool'[s]) = 0
    BY <2>1, <1>3
  <2> QED
    BY <2>2, <1>3, EmptySeq
<1>6. ~Listed(s)' /\ \A t \in Sockets : t # s => (Listed(t)' <=> Listed(t))
  BY <1>1 DEF Listed
<1>7. /\ ~Registered(s)' /\ \A t \in Sockets : t # s => (Registered(t)' <=> Registered(t))
      /\ Registered(s) <=> server'.addrs # <<>>
  BY <1>1, <1>2, <1>6 DEF Registered, Listed
<1>8. NamesFirst(s)' /\ Attended(s)'
  BY <1>5, <1>6 DEF NamesFirst, Attended, Open
<1>9. SoleList'
  BY <1>1, <1>7 DEF HeldRest, SoleList
<1>10. AddingEntries' /\ Connections' = Connections
  BY <1>1, <1>2, NoAdding DEF Connections
<1>11. ASSUME NEW p \in Natportes, natporte'[p].socket = s
       PROVE  TableReplays(p)'
  BY <1>5, <1>6, <1>11 DEF TableReplays, Connected, Open
<1>12. \A t \in Sockets : t # s =>
         /\ to_nat'[t] = to_nat[t] /\ to_pool'[t] = to_pool[t] /\ NextSaid(t)' = NextSaid(t)
         /\ Listed(t)' <=> Listed(t)
         /\ Listed(t) => wan_addrs_list'[t] = wan_addrs_list[t]
  <2>1. ASSUME NEW t \in Sockets, t # s
        PROVE  NextSaid(t)' = NextSaid(t)
    BY <2>1, <1>1, <1>2, <1>3, DownFields DEF NextSaid
  <2> QED
    BY <2>1, <1>1, <1>3, <1>6 DEF Listed
<1>13. \A a \in Natportes :
         /\ natporte[a].socket \in {s, undefined} \/ natporte'[a] = natporte[a]
         /\ natporte'[a].socket = s \/ natporte'[a] = natporte[a] \/ natporte'[a] = Down
  BY <1>1
<1> QED
  BY <1>1, <1>8, <1>9, <1>10, <1>11, <1>12, <1>13, Parts, SocketHeld

LEMMA ServerDiesHeld ==
  ASSUME SessionInv, NEW s \in Sockets, ServerDies(s)
  PROVE  HeldRest'
<1>1. /\ server = Idle /\ UNCHANGED <<natporte, server>> /\ wan_addrs_list' = << >>
      /\ to_pool' = [t \in Sockets |-> <<>>]
  BY DEF ServerDies
<1>2. \A t \in Sockets : ~Listed(t)' /\ ~Open(t)' /\ to_pool'[t] = <<>>
  BY <1>1 DEF Open, Listed
<1>3. \A t \in Sockets : NamesFirst(t)' /\ Attended(t)' /\ ~Registered(t)'
  BY <1>2 DEF NamesFirst, Attended, Registered
<1>4. SoleList' /\ AddingEntries'
  <2>1. server'.pc # "adding"
    BY <1>1, DownFields
  <2> QED
    BY <2>1, <1>3, NoAdding DEF SoleList
<1>5. ASSUME NEW p \in Natportes
      PROVE  TableReplays(p)'
  <2>1. CASE natporte[p] = Down
    BY <2>1, <1>1 DEF TableReplays, Connected
  <2>2. CASE natporte[p] # Down
    <3>1. PICK t \in Sockets : t = natporte[p].socket
      BY <2>2, Parts, RunningSocket
    <3>2. ~Open(t)' /\ t = natporte'[p].socket
      BY <3>1, <1>1, <1>2
    <3> QED
      BY <3>2 DEF TableReplays, Connected
  <2> QED
    BY <2>1, <2>2
<1> QED
  BY <1>3, <1>4, <1>5 DEF HeldRest

LEMMA InitHeld == Init => HeldRest
<1> SUFFICES ASSUME Init PROVE HeldRest
  OBVIOUS
<1>1. /\ server = Idle /\ wan_addrs_list = << >> /\ to_pool = [s \in Sockets |-> <<>>]
      /\ natporte = [p \in Natportes |-> Down]
  BY DEF Init
<1>2. \A t \in Sockets : ~Listed(t) /\ ~Open(t) /\ to_pool[t] = <<>>
  BY <1>1 DEF Open, Listed
<1>3. \A t \in Sockets : NamesFirst(t) /\ Attended(t) /\ ~Registered(t)
  BY <1>2 DEF NamesFirst, Attended, Registered
<1>4. SoleList /\ AddingEntries
  <2>1. server.pc = "idle"
    BY <1>1, DownFields
  <2> QED
    BY <2>1, <1>3 DEF SoleList, AddingEntries
<1>5. \A p \in Natportes : TableReplays(p)
  BY <1>1 DEF TableReplays, Connected
<1> QED
  BY <1>3, <1>4, <1>5 DEF HeldRest

-----------------------------------------------------------------------------
(* Every connection is held *)

LEMMA HeldStep ==
  ASSUME SessionInv, HeldRest, [Next]_vars
  PROVE  HeldRest'
<1>1. CASE UNCHANGED vars
  BY <1>1, StutterHeld
<1>2. CASE Next
  <2>1. ASSUME NEW s \in Sockets, Connect(s) \/ ServerData(s) \/ End(s) \/ ServerDies(s)
        PROVE  HeldRest'
    BY <2>1, ConnectHeld, ServerDataHeld, EndHeld, ServerDiesHeld
  <2>2. CASE LoopEnds \/ Name \/ AddAddress \/ DeleteAddress \/ Ended
    BY <2>2, LoopEndsHeld, NameHeld, AddAddressHeld, DeleteAddressHeld, EndedHeld
  <2>3. CASE Request \/ Release \/ Named
    BY <2>3, RequestHeld, ReleaseHeld, NamedHeld
  <2>4. ASSUME NEW p \in Natportes, Natporte(p)
        PROVE  HeldRest'
    <3>1. ASSUME NEW s \in Sockets, Start(p, s)
          PROVE  HeldRest'
      BY <3>1, StartHeld
    <3>2. ASSUME NEW m \in Orders(p), Order(p, m)
          PROVE  HeldRest'
      BY <3>2, OrderHeld
    <3>3. CASE Receive(p)
      BY <3>3, ReceiveHeld
    <3>4. CASE Exit(p)
      BY <3>4, ExitHeld
    <3> QED
      BY <2>4, <3>1, <3>2, <3>3, <3>4 DEF Natporte
  <2> QED
    BY <1>2, <2>1, <2>2, <2>3, <2>4 DEF Next, Server
<1> QED
  BY <1>1, <1>2

\* In every reachable state the answers that a natporte has not taken in lead
\* from its table to the connections of the server, unless addresses of two
\* connections overlapped, and each connection has its natporte or its end in
\* the stream (bin/pool_server:210-298, addrpool.h:565-662).
THEOREM HeldInvariance == Spec => []HeldInv
<1>1. Init => SessionInv /\ HeldRest
  BY InitInv, InitHeld
<1>2. SessionInv /\ HeldRest /\ [Next]_vars => SessionInv' /\ HeldRest'
  BY NextStep, HeldStep
<1>3. SessionInv /\ HeldRest => HeldInv
  BY HeldParts
<1> QED
  BY <1>1, <1>2, <1>3, PTL DEF Spec

LEMMA MessagesOfOrder ==
  ASSUME NEW S, NEW stream \in Seq(S)
  PROVE  \A i \in 1 .. Len(Messages(stream)) : OfOrder(Messages(stream)[i])
<1>1. PICK N, D : N = Len(stream) /\ D = {x \in S : OfOrder(x)}
  OBVIOUS
<1>2. N \in Nat /\ N \in 0 .. N
  BY <1>1, LenProperties
<1>3. PICK F : FoundBy(F, stream, N)
  BY <1>2, FoundExists
<1> DEFINE T == {k \in 0 .. N : F[k] \in Seq(D)}
<1>4. 0 \in T
  <2>1. F[0] = <<>> /\ 0 \in 0 .. N /\ <<>> \in Seq(D)
    BY <1>2, <1>3, FoundAt
  <2> QED
    BY <2>1
<1>5. ASSUME NEW k \in 0 .. N, k < N, k \in T
      PROVE  k + 1 \in T
  <2>1. PICK x : x = stream[k + 1]
    OBVIOUS
  <2>2. k + 1 \in 0 .. N /\ F[k] \in Seq(D) /\ k + 1 \in 1 .. Len(stream)
    BY <1>1, <1>2, <1>5
  <2>3. x \in S
    BY <2>1, <2>2, ElementOfSeq
  <2>4. F[k + 1] = IF OfOrder(x) THEN Append(F[k], x) ELSE F[k]
    BY <2>1, <1>2, <1>3, <1>5, FoundAt
  <2>5. CASE OfOrder(x)
    <3>1. x \in D
      BY <2>3, <2>5, <1>1
    <3>2. Append(F[k], x) \in Seq(D)
      BY <2>2, <3>1, AppendProperties
    <3> QED
      BY <2>2, <2>4, <2>5, <3>2
  <2>6. CASE ~OfOrder(x)
    BY <2>2, <2>4, <2>6
  <2> QED
    BY <2>5, <2>6
<1> HIDE DEF T
<1>6. 0 .. N \subseteq T
  BY <1>2, <1>4, <1>5, UpTo
<1>7. F[N] \in Seq(D)
  BY <1>2, <1>6 DEF T
<1>8. PICK q : q = Messages(stream)
  OBVIOUS
<1>9. q \in Seq(D)
  BY <1>1, <1>2, <1>3, <1>7, <1>8, MessagesBy
<1>10. ASSUME NEW i \in 1 .. Len(q)
       PROVE  OfOrder(q[i])
  <2>1. q[i] \in D
    BY <1>9, ElementOfSeq
  <2> QED
    BY <2>1, <1>1
<1> QED
  BY <1>8, <1>10

\* What a natporte leads its table to is in the table or on its way to it.
LEMMA ReplayHeld ==
  ASSUME SessionInv, NEW p \in Natportes, Connected(p),
         NEW c \in Replayed(natporte[p].table, AnswersTo(p))
  PROVE  Holds(p, c)
<1>1. PICK s \in Sockets : s = natporte[p].socket
  BY Parts, RunningSocket DEF Connected
<1>2. PICK U, W : U = Tokens /\ W = DownTexts \cup {NL}
  OBVIOUS
<1>3. PICK kept, down, lines, part, up, to :
        /\ kept = natporte[p].string_buffer /\ down = to_nat[s] /\ lines = LinesOf(s)
        /\ part = natporte_message[s] /\ up = to_pool[s] /\ to = kept \o down
  OBVIOUS
<1>4. /\ to \in Seq(U) /\ lines \in Seq(U) /\ part \in Seq(U) /\ up \in Seq(U)
  <2>1. kept \in Seq(U) /\ down \in Seq(U) /\ lines \in Seq(U) /\ part \in Seq(U) /\ up \in Seq(U)
    BY <1>2, <1>3, Parts, TokensFact, KeptTokens, LinesOfFact
  <2> QED
    BY <2>1, <1>3, ConcatProperties
<1>5. to \in Seq(W)
  <2>1. kept \in Seq(DownTexts) /\ down \in Seq(W)
    BY <1>2, <1>3, Parts, NatporteFields, TokensFact
  <2>2. kept \in Seq(W)
    BY <2>1, <1>2
  <2> QED
    BY <2>1, <2>2, <1>3, ConcatProperties
<1>6. PICK answers, N : answers = Messages(to) /\ N = Len(answers)
  OBVIOUS
<1>7. answers \in Seq(U) /\ answers \in Seq(W) /\ N \in Nat
  BY <1>4, <1>5, <1>6, MessagesType, LenProperties
<1>8. AnswerKinds(answers, N)
  <2>1. ASSUME NEW i \in 1 .. N
        PROVE  answers[i].type \in {"request_ack", "release_ack", "request_discard", "initialize"}
    <3>1. PICK m : m = answers[i]
      OBVIOUS
    <3>2. m \in W
      BY <3>1, <1>6, <1>7, ElementOfSeq
    <3>3. OfOrder(m)
      BY <3>1, <1>5, <1>6, MessagesOfOrder
    <3>4. m \in DownTexts
      BY <3>2, <3>3, <1>2, NewlineNoOrder
    <3> QED
      BY <3>1, <3>4, DownKinds
  <2> QED
    BY <2>1 DEF AnswerKinds
<1>9. AnswersTo(p) = answers
  BY <1>1, <1>3, <1>6 DEF AnswersTo
<1>10. c \in natporte[p].table \/ \E i \in 1 .. N : Acknowledges(answers, i, c)
  BY <1>6, <1>7, <1>8, <1>9, ReplayedFrom
<1>11. CASE c \in natporte[p].table
  BY <1>11 DEF Holds
<1>12. ASSUME NEW i \in 1 .. N, Acknowledges(answers, i, c)
       PROVE  Holds(p, c)
  <2>1. PICK m : m = answers[i]
    OBVIOUS
  <2>2. m.type = "request_ack" /\ m.protocol = c.protocol /\ m.entry = c.entry
    BY <2>1, <1>12 DEF Acknowledges
  <2>3. PICK tail, way : tail \in Seq(U) /\ way = answers \o tail /\ OnTheWay(p) = way
    <3>1. PICK a, b, e : a = to \o lines /\ b = a \o part /\ e = b \o up
      OBVIOUS
    <3>2. a \in Seq(U) /\ b \in Seq(U)
      BY <3>1, <1>4, ConcatProperties
    <3>3. PICK x, y, z : x = Messages(lines) /\ y = Messages(part) /\ z = Messages(up)
      OBVIOUS
    <3>4. x \in Seq(U) /\ y \in Seq(U) /\ z \in Seq(U)
      BY <3>3, <1>4, MessagesType
    <3>5. Messages(e) = ((answers \o x) \o y) \o z
      <4>1. Messages(a) = answers \o x
        BY <3>1, <3>3, <1>4, <1>6, MessagesConcat
      <4>2. Messages(b) = Messages(a) \o y
        BY <3>1, <3>2, <3>3, <1>4, MessagesConcat
      <4>3. Messages(e) = Messages(b) \o z
        BY <3>1, <3>2, <3>3, <1>4, MessagesConcat
      <4> QED
        BY <4>1, <4>2, <4>3
    <3>6. PICK first, yz, tail : first = answers \o x /\ yz = y \o z /\ tail = x \o yz
      OBVIOUS
    <3>7. first \in Seq(U) /\ yz \in Seq(U) /\ tail \in Seq(U)
      BY <3>4, <3>6, <1>7, ConcatProperties
    <3>8. Messages(e) = answers \o tail
      <4>1. (first \o y) \o z = first \o (y \o z)
        BY <3>4, <3>7, ConcatAssociative
      <4>2. (answers \o x) \o yz = answers \o (x \o yz)
        BY <3>4, <3>7, <1>7, ConcatAssociative
      <4> QED
        BY <3>5, <3>6, <4>1, <4>2
    <3>9. OnTheWay(p) = Messages(e)
      BY <3>1, <1>1, <1>3 DEF OnTheWay
    <3> QED
      BY <3>7, <3>8, <3>9
  <2>4. i \in DOMAIN way /\ way[i] = m
    <3>1. /\ Len(way) = N + Len(tail) /\ way \in Seq(U)
          /\ \A j \in 1 .. N + Len(tail) : way[j] = IF j <= N THEN answers[j] ELSE tail[j - N]
      BY <2>3, <1>6, <1>7, ConcatProperties
    <3>2. Len(tail) \in Nat /\ DOMAIN way = 1 .. Len(way)
      BY <2>3, <3>1, LenProperties
    <3>3. i \in 1 .. N + Len(tail) /\ i <= N
      BY <3>2, <1>7
    <3> QED
      BY <3>1, <3>2, <3>3, <2>1
  <2>5. m \in Range(OnTheWay(p))
    BY <2>3, <2>4 DEF Range
  <2> QED
    BY <2>2, <2>5 DEF Holds
<1> QED
  BY <1>10, <1>11, <1>12

\* A connection of the server is one that a natporte knows of, in its table or
\* in an answer that is on its way, or the natporte whose address it has is gone
\* and the end of its connection is still to be handled: the ports of a natporte
\* that has gone come back, unless another one was registered meanwhile
\* (bin/pool_server:264-281).
THEOREM EntriesHeld == Spec => []EntryHeld
<1>1. HeldInv => EntryHeld
  <2>1. SUFFICES ASSUME HeldInv, ~overlapped, NEW c \in Connections,
                        ~(server.pc = "deleting" /\ c.entry.wan_ip \in Range(server.addrs))
                 PROVE  \/ \E p \in Natportes : Holds(p, c)
                        \/ \E s \in DOMAIN wan_addrs_list :
                             c.entry.wan_ip \in Range(wan_addrs_list[s]) /\ Ends \cap Range(to_pool[s]) # {}
    BY DEF EntryHeld
  <2>2. SessionInv /\ HeldRest
    BY <2>1, HeldParts
  <2>3. PICK a : a = c.entry.wan_ip
    OBVIOUS
  <2>4. a \in Lists
    <3>1. a \in Range(tcp_addrs)
      BY <2>2, <2>3, ConnectionsInPool
    <3>2. CASE server.pc \in {"idle", "lines"}
      BY <2>2, <3>1, <3>2, Parts DEF PoolInCallback
    <3>3. CASE server.pc = "adding"
      BY <2>2, <2>3, <3>3 DEF HeldRest, AddingEntries
    <3>4. CASE server.pc = "deleting"
      BY <2>1, <2>2, <2>3, <3>1, <3>4, Parts DEF PoolInCallback
    <3>5. server.pc \in {"idle", "lines", "adding", "deleting"}
      BY <2>2, Parts, ServerFields
    <3> QED
      BY <3>2, <3>3, <3>4, <3>5
  <2>5. PICK s \in DOMAIN wan_addrs_list : a \in Range(wan_addrs_list[s])
    BY <2>4 DEF Lists
  <2>6. s \in Sockets /\ Registered(s) /\ Open(s)
    <3>1. wan_addrs_list[s] # <<>>
      BY <2>5 DEF Range
    <3>2. s \in Sockets
      BY <2>2, Parts DEF Types
    <3> QED
      BY <3>1, <3>2 DEF Registered, Listed, Open
  <2>7. CASE \E i \in DOMAIN to_pool[s] : to_pool[s][i] \in Ends
    <3>1. Ends \cap Range(to_pool[s]) # {}
      BY <2>7 DEF Range
    <3> QED
      BY <2>3, <2>5, <3>1
  <2>8. ASSUME NEW p \in Natportes, natporte[p].socket = s
        PROVE  Holds(p, c)
    <3>1. natporte[p] # Down
      BY <2>6, <2>8, DownFields, SessionAssumption
    <3>2. Connected(p)
      BY <2>6, <2>8, <3>1 DEF Connected
    <3>3. Replayed(natporte[p].table, AnswersTo(p)) = Connections
      BY <2>1, <2>2, <2>6, <2>8, <3>2 DEF HeldRest, TableReplays
    <3> QED
      BY <2>1, <2>2, <3>2, <3>3, ReplayHeld
  <2>9. Attended(s)
    BY <2>2, <2>6 DEF HeldRest
  <2> QED
    BY <2>6, <2>7, <2>8, <2>9 DEF Attended
<1> QED
  BY <1>1, HeldInvariance, PTL
=============================================================================
