------------------------------ MODULE Checksum ------------------------------
(***************************************************************************)
(* The Internet checksum as src/src/alias.h computes it, over words with   *)
(* B values: B is 2^16 in the program, and less for TLC.  An IPv4 address  *)
(* is a number of two words, read as the program reads it, lowest word     *)
(* first, and a port is a word.                                            *)
(*                                                                         *)
(* checksum() sums a whole packet.  diff_checksum() changes a checksum by  *)
(* what was replaced; natporte translates with the latter (DIFF_CKSUM).    *)
(***************************************************************************)
EXTENDS Integers

CONSTANT B

ASSUME BaseAssumption == B \in Nat /\ B > 2

Words == 0 .. B - 1
Addresses == 0 .. B * B - 1

\* uint16_t* into a number: its first and its second word.
Low(n) == n % B
High(n) == (n \div B) % B

AddressSum(ip) == Low(ip) + High(ip)

FoldOnce(s) == (s \div B) + (s % B)

\* The loop of checksum(): while there is a carry it is added again.
folded[s \in Nat] == IF s < B THEN s ELSE folded[FoldOnce(s)]

checksum(s) == B - 1 - folded[s]

\* The fold of diff_checksum: two rounds, then the cast to uint16_t.
FoldTwice(a) == (FoldOnce(a) + FoldOnce(a) \div B) % B

Accumulated(base, orig, alias) == base + AddressSum(orig) - AddressSum(alias)

\* Mutant: a negative difference is folded and not complemented.
diff_checksum_NoComplement(base, orig, alias) ==
    LET accumulate == Accumulated(base, orig, alias) IN
    IF accumulate < 0 THEN FoldTwice(-accumulate) ELSE FoldTwice(accumulate)

diff_checksum(base, orig, alias) ==
    LET accumulate == Accumulated(base, orig, alias) IN
    IF accumulate < 0 THEN B - 1 - FoldTwice(-accumulate) ELSE FoldTwice(accumulate)

\* Address and port are added up first; what exceeds two words is not read.
set_diff_checksum(sum, orig_ip, orig_port, alias_ip, alias_port) ==
    diff_checksum(sum, orig_ip + orig_port, alias_ip + alias_port)

\* Zero has two representations in the arithmetic of the checksum.
SameChecksum(x, y) == x = y \/ {x, y} = {0, B - 1}
=============================================================================
