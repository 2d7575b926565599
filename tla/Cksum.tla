-------------------------------- MODULE Cksum --------------------------------
(***************************************************************************)
(* The checksum of crc.c.  A word is the set of the positions of its bits  *)
(* that are 1, as TLC's integers are too narrow; a byte is in 0..255.      *)
(***************************************************************************)
EXTENDS Naturals, FiniteSets, SequencesExt

Word == SUBSET (0..31)

Xor(x, y) == (x \ y) \cup (y \ x)

Bits(byte) == {b \in 0..7 : (byte \div 2^b) % 2 = 1}

\* The entries of crc32tab for the bytes of one bit, 1 to 128: the remainders
\* of x^32 to x^39 by the polynomial of POSIX 1003.2.
OneBit ==
    <<{0, 1, 2, 4, 5, 7, 8, 10, 11, 12, 16, 22, 23, 26},
      {1, 2, 3, 5, 6, 8, 9, 11, 12, 13, 17, 23, 24, 27},
      {2, 3, 4, 6, 7, 9, 10, 12, 13, 14, 18, 24, 25, 28},
      {3, 4, 5, 7, 8, 10, 11, 13, 14, 15, 19, 25, 26, 29},
      {4, 5, 6, 8, 9, 11, 12, 14, 15, 16, 20, 26, 27, 30},
      {5, 6, 7, 9, 10, 12, 13, 15, 16, 17, 21, 27, 28, 31},
      {0, 1, 2, 4, 5, 6, 12, 13, 14, 17, 18, 23, 26, 28, 29},
      {1, 2, 3, 5, 6, 7, 13, 14, 15, 18, 19, 24, 27, 29, 30}>>

\* The entry of a byte is the sum of those of its bits.
crc32tab(i) ==
    {k \in 0..31 : Cardinality({b \in i : k \in OneBit[b + 1]}) % 2 = 1}

\* Mutant of UPDATE: the byte is left out of the index.
UPDATEWithoutByte(crc, byte) ==
    Xor({k + 8 : k \in crc \cap 0..23}, crc32tab({k - 24 : k \in crc \ 0..23}))

UPDATE(crc, byte) ==
    Xor({k + 8 : k \in crc \cap 0..23},
        crc32tab(Xor({k - 24 : k \in crc \ 0..23}, Bits(byte))))

CKSUM_Update(crc, buf) ==
    LET sum[n \in 0..Len(buf)] ==
          IF n = 0 THEN crc ELSE UPDATE(sum[n - 1], buf[n])
    IN  sum[Len(buf)]

\* The bytes of the length, the lowest one first.
LengthBytes[len \in Nat] ==
    IF len = 0 THEN <<>> ELSE <<len % 256>> \o LengthBytes[len \div 256]

CKSUM_Final(crc, len) == (0..31) \ CKSUM_Update(crc, LengthBytes[len])

=============================================================================
