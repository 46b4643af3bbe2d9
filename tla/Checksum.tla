------------------------------- MODULE Checksum -------------------------------
(***************************************************************************)
(* checksum() of HW5_1_5.c, and what a receiver finds who adds up the same *)
(* bytes with the result in its place.  A byte has BYTE values, so that a  *)
(* word of two bytes stays small; carries and odd lengths are as with 256. *)
(***************************************************************************)
EXTENDS Naturals, Sequences

CONSTANTS
  BYTE,    \* how many values a byte has: 256
  MaxLen   \* bound of the check: the longest buffer

ASSUME ChecksumAssumption == BYTE \in Nat \ {0, 1} /\ MaxLen \in Nat \ {0, 1}

WORD == BYTE * BYTE

\* v[1] + ... + v[n], for each n
Sums(v) ==
  LET sum[n \in 0 .. Len(v)] == IF n = 0 THEN 0 ELSE sum[n - 1] + v[n]
  IN sum
Total(v) == Sums(v)[Len(v)]

\* the words of b, in the byte order of the machine: the low byte first
Words(b) == [n \in 1 .. Len(b) \div 2 |-> b[2 * n - 1] + BYTE * b[2 * n]]

\* the byte that is left
Left(b) == IF Len(b) % 2 = 1 THEN b[Len(b)] ELSE 0

Sum(b) == Total(Words(b)) + Left(b)

\* mutant: the carry is folded in once, not until there is none
FoldOnce(s) == (s % WORD) + (s \div WORD)

\* while(sum >> 16) sum = (sum & 0xffff) + (sum >> 16)
Folded(s) ==
  LET fold[n \in 0 .. s] ==
        IF n \div WORD = 0 THEN n ELSE fold[(n % WORD) + (n \div WORD)]
  IN fold[s]

\* ~sum, cut to a word
checksum(b) == (WORD - 1 - Folded(Sum(b))) % WORD

-----------------------------------------------------------------------------
Byte == 0 .. BYTE - 1

\* the buffers before the checksum is made: its field, here the first word, is 0
Buffers == UNION {{b \in [1 .. n -> Byte] : b[1] = 0 /\ b[2] = 0} : n \in 2 .. MaxLen}

\* the words as the receiver adds them up, in the order of the network: the high
\* byte first, and a missing last byte counts as 0
Network(b) == [n \in 1 .. Len(b) \div 2 |-> BYTE * b[2 * n - 1] + b[2 * n]]

AddedUp(b) == Total(Network(b)) + BYTE * Left(b)

\* the result in the field it is for
Stored(b, c) == [b EXCEPT ![1] = c % BYTE, ![2] = c \div BYTE]

\* Whether the receiver of any buffer of an even (0) or odd (1) length, with the
\* result in its field, gets all ones, modulo the carries.
Verifies ==
  [odd \in 0 .. 1 |->
    \A b \in {x \in Buffers : Len(x) % 2 = odd} :
      LET c == checksum(b)
          r == AddedUp(Stored(b, c))
      IN c \in 0 .. WORD - 1 /\ r > 0 /\ r % (WORD - 1) = 0]
=============================================================================
