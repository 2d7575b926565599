--------------------------- MODULE TextFileProofs ----------------------------
(***************************************************************************)
(* Proofs about TextFile, for any texts, keywords and sizes of buffers.    *)
(*                                                                         *)
(* First the operators, in the order of the module: what they yield, and   *)
(* that join_list, wcscasestr and the growth of an array do what they are  *)
(* for.  Their recursions (Pieces, FlattenSeq, join_list, Ensured, the     *)
(* checksum) are functions given by an equation: a lemma about one builds  *)
(* a solution step by step and uses that there is no other.                *)
(* Then the steps: TypeOK, BufferTerminated and ArrayFits are inductive    *)
(* together; MatchExact needs no more than they, PrefixWhole also JoinInv. *)
(***************************************************************************)
EXTENDS TextFile, Inductions, SequenceTheorems, TLAPS

-----------------------------------------------------------------------------
(* Least and greatest positions.                                           *)

\* The minimum of a set of naturals is in it and below all of it.
LEMMA MinOf ==
  ASSUME NEW S \in SUBSET Nat, S # {}
  PROVE  Min(S) \in S /\ \A x \in S : Min(S) <= x
  BY LeastNat DEF Min

\* So is the maximum of a set that is bounded.
LEMMA MaxOf ==
  ASSUME NEW S \in SUBSET Nat, NEW b \in Nat, \A x \in S : x <= b, S # {}
  PROVE  Max(S) \in S /\ \A x \in S : x <= Max(S)
<1>1. PICK m \in S : \A x \in S : x <= m
  BY GreatestNat
<1>2. \A x \in S : m >= x
  <2>1. \A x \in S : x \in Nat
    OBVIOUS
  <2> QED BY <1>1, <2>1
<1>3. Max(S) \in S /\ \A x \in S : Max(S) >= x
  BY <1>2, Zenon DEF Max
<1>4. \A x \in S : x \in Nat
  OBVIOUS
<1> QED
  BY <1>3, <1>4

-----------------------------------------------------------------------------
(* Pieces.                                                                 *)

\* The equation of Pieces.
Follows(from, n, next, piece) ==
  \A i \in 1..(n + 1) :
    from[i] = IF i \in DOMAIN next THEN piece[i] \o from[next[i]] ELSE <<>>

\* The recursion of Pieces has a solution, as each position is followed by a
\* later one.
LEMMA PiecesFrom ==
  ASSUME NEW n \in Nat, NEW next, NEW piece,
         \A i \in DOMAIN next : i \in 1..n /\ next[i] \in (i + 1)..(n + 1)
  PROVE  \E from : /\ Follows(from, n, next, piece)
                   /\ Pieces(n, next, piece) = from[1]
<1> DEFINE P(f, t) == f = [i \in t..(n + 1) |-> IF i \in DOMAIN next
                             THEN piece[i] \o f[next[i]] ELSE <<>>]
           G == {t \in 1..(n + 1) : \E f : P(f, t)}
<1>1. n + 1 \in G
  <2> DEFINE f == [i \in (n + 1)..(n + 1) |-> <<>>]
  <2>1. \A i \in (n + 1)..(n + 1) : i \notin DOMAIN next
    OBVIOUS
  <2>2. P(f, n + 1)
    BY <2>1
  <2>3. n + 1 \in 1..(n + 1)
    OBVIOUS
  <2> HIDE DEF f, P
  <2> QED BY <2>2, <2>3
<1>2. ASSUME NEW t \in 1..((n + 1) - 1), t + 1 \in G
      PROVE  t \in G
  <2>1. PICK f : P(f, t + 1)
    BY <1>2
  <2> DEFINE h == [i \in t..(n + 1) |->
                     IF i # t THEN f[i]
                     ELSE IF t \in DOMAIN next THEN piece[t] \o f[next[t]]
                     ELSE <<>>]
  <2>2. \A i \in DOMAIN next : i >= t => h[next[i]] = f[next[i]]
    OBVIOUS
  <2>3. \A i \in t..(n + 1) :
          h[i] = IF i \in DOMAIN next THEN piece[i] \o h[next[i]] ELSE <<>>
    <3> SUFFICES ASSUME NEW i \in t..(n + 1)
                 PROVE  h[i] = IF i \in DOMAIN next
                               THEN piece[i] \o h[next[i]] ELSE <<>>
      OBVIOUS
    <3>1. CASE i = t
      BY <3>1, <2>2
    <3>2. CASE i # t
      <4>1. i \in (t + 1)..(n + 1) /\ h[i] = f[i]
        BY <3>2
      <4>2. f[i] = IF i \in DOMAIN next THEN piece[i] \o f[next[i]] ELSE <<>>
        BY <4>1, <2>1
      <4> QED BY <4>1, <4>2, <2>2
    <3> QED BY <3>1, <3>2
  <2>4. P(h, t)
    <3>1. h = [i \in t..(n + 1) |-> h[i]]
      OBVIOUS
    <3> HIDE DEF h
    <3> QED BY <2>3, <3>1
  <2> HIDE DEF h, P
  <2> QED BY <2>4
<1>3. \E f : P(f, 1)
  <2>1. 1 \in 1..(n + 1) /\ n + 1 \in Nat
    OBVIOUS
  <2> HIDE DEF G
  <2>2. 1 \in G
    BY <1>1, <1>2, <2>1, DownwardNat
  <2> QED BY <2>2 DEF G
<1>4. P(CHOOSE f : P(f, 1), 1)
  <2> HIDE DEF P
  <2> QED BY <1>3
<1>5. Pieces(n, next, piece) = (CHOOSE f : P(f, 1))[1]
  BY Zenon DEF Pieces
<1>6. PICK g : P(g, 1) /\ Pieces(n, next, piece) = g[1]
  <2> HIDE DEF P
  <2> QED BY <1>4, <1>5
<1>7. Follows(g, n, next, piece)
  BY <1>6 DEF Follows
<1> QED
  BY <1>6, <1>7

\* What Pieces makes is a sequence of what the pieces are made of; it is no
\* longer than n when no piece is longer than the way to the next one.
LEMMA PiecesType ==
  ASSUME NEW n \in Nat, NEW next, NEW piece, NEW S,
         \A i \in DOMAIN next : /\ i \in 1..n /\ next[i] \in (i + 1)..(n + 1)
                                /\ piece[i] \in Seq(S)
  PROVE  /\ Pieces(n, next, piece) \in Seq(S)
         /\ (\A i \in DOMAIN next : Len(piece[i]) <= next[i] - i)
              => Len(Pieces(n, next, piece)) <= n
<1>1. PICK from : /\ Follows(from, n, next, piece)
                  /\ Pieces(n, next, piece) = from[1]
  <2>1. \A i \in DOMAIN next : i \in 1..n /\ next[i] \in (i + 1)..(n + 1)
    OBVIOUS
  <2> QED BY <2>1, PiecesFrom
<1>2. \A i \in 1..(n + 1) : from[i] = IF i \in DOMAIN next
                              THEN piece[i] \o from[next[i]] ELSE <<>>
  BY <1>1 DEF Follows
<1> DEFINE Tight == \A i \in DOMAIN next : Len(piece[i]) <= next[i] - i
           Good(i) == /\ from[i] \in Seq(S)
                      /\ Tight => Len(from[i]) <= n + 1 - i
           B == {i \in 1..(n + 1) : ~Good(i)}
<1>3. SUFFICES B = {}
  <2>1. 1 \in 1..(n + 1) /\ n + 1 - 1 = n
    OBVIOUS
  <2> QED BY <1>1, <2>1
<1>4. SUFFICES ASSUME B # {} PROVE FALSE
  OBVIOUS
<1>5. /\ B \in SUBSET Nat /\ \A i \in B : i <= n + 1 /\ i \in 1..(n + 1)
      /\ \A i \in 1..(n + 1) : i \in B <=> ~Good(i)
      /\ n + 1 \in Nat
  OBVIOUS
<1>6. PICK i \in B : \A k \in B : k <= i
  <2> HIDE DEF B
  <2> QED BY <1>4, <1>5, GreatestNat
<1>7. i \in 1..(n + 1) /\ ~Good(i)
  BY <1>5
<1>8. CASE i \notin DOMAIN next
  <2>1. from[i] = <<>>
    BY <1>2, <1>7, <1>8
  <2> QED BY <1>7, <2>1
<1>9. CASE i \in DOMAIN next
  <2>1. from[i] = piece[i] \o from[next[i]] /\ piece[i] \in Seq(S)
    BY <1>2, <1>7, <1>9
  <2>2. next[i] \in 1..(n + 1) /\ ~(next[i] <= i) /\ next[i] \in Nat
    BY <1>7, <1>9
  <2>3. Good(next[i])
    <3> HIDE DEF B, Good
    <3> QED BY <1>5, <1>6, <2>2
  <2>4. /\ from[i] \in Seq(S)
        /\ Len(from[i]) = Len(piece[i]) + Len(from[next[i]])
        /\ Len(piece[i]) \in Nat /\ Len(from[next[i]]) \in Nat
    BY <2>1, <2>3
  <2>5. Tight => Len(from[i]) <= n + 1 - i
    <3>1. ASSUME Tight PROVE Len(from[i]) <= n + 1 - i
      <4>1. Len(piece[i]) <= next[i] - i /\ Len(from[next[i]]) <= n + 1 - next[i]
        BY <1>9, <2>3, <3>1
      <4>2. \A p, q, k, j \in Nat :
              p <= k - j /\ q <= n + 1 - k => p + q <= n + 1 - j
        OBVIOUS
      <4>3. i \in Nat
        BY <1>7
      <4> HIDE DEF B, Good, Tight
      <4> QED BY <4>1, <4>2, <4>3, <2>4, <2>2
    <3> QED BY <3>1
  <2> QED BY <1>7, <2>4, <2>5
<1> QED
  BY <1>8, <1>9

-----------------------------------------------------------------------------
(* Characters and bytes.                                                   *)

\* Bytes decode to characters, to no more than there are bytes.
LEMMA DecodedType ==
  ASSUME NEW s \in Seq(Byte)
  PROVE  Decoded(s) \in Seq(Char) /\ Len(Decoded(s)) <= Len(s)
<1> DEFINE heads == {i \in DOMAIN s : Width(s, i) # 0}
           next  == [i \in heads |-> i + Width(s, i)]
           piece == [i \in heads |-> <<DecodedChar(s, i)>>]
<1>1. /\ \A b \in Byte : b < 128 => b \in Char
      /\ \A a \in 194..223, b \in 128..191 :
           (a - 192) * 64 + (b - 128) \in Char
  BY DEF Byte, Char
<1>2. \A i \in 1..Len(s) : s[i] \in Byte
  OBVIOUS
<1>3. \A i \in 1..Len(s) : /\ Width(s, i) \in 0..2
                           /\ Width(s, i) = 1 => s[i] < 128
                           /\ Width(s, i) = 2 => /\ i < Len(s)
                                                 /\ s[i] \in 194..223
                                                 /\ s[i + 1] \in 128..191
  BY DEF Width
<1>4. \A i \in heads : i \in 1..Len(s) /\ Width(s, i) \in 1..2
  BY <1>3
<1>5. DOMAIN next = heads /\ Len(s) \in Nat
  OBVIOUS
<1>6. \A i \in heads : next[i] \in (i + 1)..(Len(s) + 1) /\ 1 <= next[i] - i
  BY <1>3, <1>4
<1>7. \A i \in heads : piece[i] = <<DecodedChar(s, i)>>
  OBVIOUS
<1>8. Decoded(s) = Pieces(Len(s), next, piece)
  BY DEF Decoded
<1> HIDE DEF heads, next, piece
<1>9. ASSUME NEW i \in heads
      PROVE  DecodedChar(s, i) \in Char
  <2>1. CASE Width(s, i) = 1
    <3>1. s[i] < 128 /\ s[i] \in Byte
      BY <1>2, <1>3, <1>4, <2>1
    <3>2. s[i] \in Char
      BY <1>1, <3>1, Zenon
    <3> QED BY <2>1, <3>2 DEF DecodedChar
  <2>2. CASE Width(s, i) # 1
    <3>1. s[i] \in 194..223 /\ s[i + 1] \in 128..191
      <4>1. i \in 1..Len(s) /\ Width(s, i) \in 1..2
        BY <1>4, Zenon
      <4>2. Width(s, i) = 2
        <5>1. \A w \in 1..2 : w # 1 => w = 2
          OBVIOUS
        <5> QED BY <4>1, <5>1, <2>2, Zenon
      <4> QED BY <1>3, <4>1, <4>2
    <3>2. (s[i] - 192) * 64 + (s[i + 1] - 128) \in Char
      BY <1>1, <3>1, Zenon
    <3>3. DecodedChar(s, i) = (s[i] - 192) * 64 + (s[i + 1] - 128)
      BY <2>2, Zenon DEF DecodedChar
    <3> QED BY <3>2, <3>3, Zenon
  <2> QED BY <2>1, <2>2
<1>10. \A i \in heads : piece[i] \in Seq(Char) /\ Len(piece[i]) = 1
  <2> TAKE i \in heads
  <2>1. piece[i] = <<DecodedChar(s, i)>> /\ DecodedChar(s, i) \in Char
    BY <1>7, <1>9, Zenon
  <2> QED BY <2>1
<1>11. /\ \A i \in DOMAIN next : /\ i \in 1..Len(s)
                                   /\ next[i] \in (i + 1)..(Len(s) + 1)
                                   /\ piece[i] \in Seq(Char)
       /\ \A i \in DOMAIN next : Len(piece[i]) <= next[i] - i
  BY <1>4, <1>5, <1>6, <1>10
<1> QED
  BY <1>5, <1>8, <1>11, PiecesType

\* A text of keywords is split into texts.
LEMMA TokensType ==
  ASSUME NEW s \in Seq(Byte)
  PROVE  Tokens(s) \in Seq(Seq(Byte))
<1> DEFINE spaces(i) == {k \in i..Len(s) : s[k] = SPACE} \cup {Len(s) + 1}
           end(i) == Min(spaces(i))
           next   == [i \in DOMAIN s |-> IF s[i] = SPACE THEN i + 1 ELSE end(i)]
           piece  == [i \in DOMAIN s |-> IF s[i] = SPACE THEN <<>>
                                         ELSE <<SubSeq(s, i, end(i) - 1)>>]
<1>1. Len(s) \in Nat /\ DOMAIN s = 1..Len(s) /\ DOMAIN next = DOMAIN s
  OBVIOUS
<1>2. ASSUME NEW i \in 1..Len(s)
      PROVE  end(i) \in i..(Len(s) + 1) /\ (end(i) = i => s[i] = SPACE)
  <2>1. spaces(i) \in SUBSET Nat /\ spaces(i) # {}
    OBVIOUS
  <2>2. end(i) \in spaces(i)
    <3> HIDE DEF spaces
    <3> QED BY <2>1, MinOf
  <2> HIDE DEF end
  <2> QED BY <2>2
<1> HIDE DEF end
<1>3. \A i \in 1..Len(s) : next[i] \in (i + 1)..(Len(s) + 1)
  BY <1>2
<1>4. \A i \in 1..Len(s) : piece[i] \in Seq(Seq(Byte))
  <2> TAKE i \in 1..Len(s)
  <2>1. SubSeq(s, i, end(i) - 1) \in Seq(Byte)
    <3>1. \A k \in i..(end(i) - 1) : s[k] \in Byte
      BY <1>2
    <3>2. i \in Int /\ end(i) - 1 \in Int
      BY <1>2
    <3> QED BY <3>1, <3>2, SubSeqProperties
  <2> QED BY <2>1
<1>5. Tokens(s) = Pieces(Len(s), next, piece)
  BY Zenon DEF Tokens, end
<1> HIDE DEF next, piece
<1> QED
  BY <1>1, <1>3, <1>4, <1>5, PiecesType

\* What FlattenSeq has put together after each of the sequences.
Partial(S, seqs) ==
    {flat \in [0..Len(seqs) -> Seq(S)] :
       /\ flat[0] = <<>>
       /\ \A n \in 1..Len(seqs) : flat[n] = flat[n - 1] \o seqs[n]}

\* FlattenSeq puts the sequences one after the other.
LEMMA FlattenSteps ==
  ASSUME NEW S, NEW seqs \in Seq(Seq(S))
  PROVE  \E flat : /\ flat \in Partial(S, seqs)
                   /\ FlattenSeq(seqs) = flat[Len(seqs)]
<1> DEFINE L == Len(seqs)
           step == [n \in 1..L |-> [x \in Seq(S) |-> x \o seqs[n]]]
<1>1. L \in Nat /\ \A n \in 1..L : seqs[n] \in Seq(S)
  OBVIOUS
<1>2. <<>> \in Seq(S) /\ step \in [1..L -> [Seq(S) -> Seq(S)]]
  BY <1>1
<1>3. \A n \in 1..L, x \in Seq(S) : step[n][x] = x \o seqs[n]
  OBVIOUS
<1>4. /\ \A n \in 1..L : n - 1 \in 0..L /\ (n # 1 => n - 1 \in 1..L)
      /\ \A n \in Nat : n + 1 \in 1..L => /\ (n + 1) - 1 = n
                                          /\ n # 0 => n \in 1..L /\ n + 1 # 1
      /\ 1 - 1 = 0 /\ 0 + 1 = 1
      /\ L # 0 => 1 \in 1..L /\ L \in 1..L
  BY <1>1
<1> HIDE DEF step, L
<1>5. PICK flat : flat \in Iterations(L, Seq(S), <<>>, step)
  BY <1>1, <1>2, IterationExists
<1>6. /\ flat \in [0..L -> Seq(S)] /\ flat[0] = <<>>
      /\ \A n \in 1..L : flat[n] = step[n][flat[n - 1]]
  BY <1>5 DEF Iterations
<1>7. \A n \in 1..L : flat[n] = flat[n - 1] \o seqs[n]
  <2> TAKE n \in 1..L
  <2>1. flat[n - 1] \in Seq(S)
    BY <1>4, <1>6
  <2> QED BY <1>3, <1>6, <2>1
<1>8. flat \in Partial(S, seqs)
  BY <1>6, <1>7 DEF Partial, L
<1>9. CASE L = 0
  BY <1>6, <1>8, <1>9 DEF FlattenSeq, L
<1>10. CASE L # 0
  <2> DEFINE P(f) == f = [i \in 1..L |-> IF i = 1 THEN seqs[i]
                                         ELSE f[i - 1] \o seqs[i]]
             restricted == [n \in 1..L |-> flat[n]]
  <2>1. flat[1] = seqs[1]
    <3>1. flat[1] = flat[0] \o seqs[1]
      BY <1>4, <1>7, <1>10, Zenon
    <3>2. seqs[1] \in Seq(S)
      BY <1>1, <1>4, <1>10
    <3> QED BY <1>6, <3>1, <3>2
  <2>2. P(restricted)
    <3> SUFFICES ASSUME NEW n \in 1..L
                 PROVE  flat[n] = IF n = 1 THEN seqs[n]
                                  ELSE restricted[n - 1] \o seqs[n]
      OBVIOUS
    <3>1. n # 1 => restricted[n - 1] = flat[n - 1]
      BY <1>4
    <3> QED BY <1>7, <2>1, <3>1
  <2>3. FlattenSeq(seqs) = (CHOOSE f : P(f))[L]
    BY <1>10, Zenon DEF FlattenSeq, L
  <2>4. PICK f : P(f) /\ FlattenSeq(seqs) = f[L]
    <3> HIDE DEF P, restricted
    <3> QED BY <2>2, <2>3
  <2>5. \A n \in 1..L : f[n] = IF n = 1 THEN seqs[n] ELSE f[n - 1] \o seqs[n]
    BY <2>4
  <2> DEFINE G == {n \in Nat : n \in 1..L => f[n] = flat[n]}
  <2>6. 0 \in G
    OBVIOUS
  <2>7. ASSUME NEW n \in Nat, n \in G
        PROVE  n + 1 \in G
    <3>1. SUFFICES ASSUME n + 1 \in 1..L PROVE f[n + 1] = flat[n + 1]
      OBVIOUS
    <3>2. CASE n = 0
      <4>1. f[1] = seqs[1]
        BY <2>5, <1>4, <1>10, Zenon
      <4> QED BY <1>4, <2>1, <3>2, <4>1, Zenon
    <3>3. CASE n # 0
      <4>1. n \in 1..L /\ (n + 1) - 1 = n /\ n + 1 # 1
        BY <1>4, <3>1, <3>3, Zenon
      <4>2. f[n] = flat[n]
        BY <2>7, <4>1, Zenon
      <4>3. f[n + 1] = f[(n + 1) - 1] \o seqs[n + 1]
        BY <2>5, <3>1, <4>1, Zenon
      <4>4. flat[n + 1] = flat[(n + 1) - 1] \o seqs[n + 1]
        BY <1>7, <3>1, Zenon
      <4> QED BY <4>1, <4>2, <4>3, <4>4, Zenon
    <3> QED BY <3>2, <3>3
  <2>8. \A n \in Nat : n \in G
    <3> HIDE DEF G
    <3> QED BY <2>6, <2>7, UpwardNat
  <2>9. f[L] = flat[L]
    BY <1>1, <1>4, <1>10, <2>8
  <2> HIDE DEF P
  <2> QED BY <1>8, <2>4, <2>9 DEF L
<1> QED
  BY <1>9, <1>10

\* Two sequences agree up to m.
Agree(s, t, m) ==
    m <= Len(s) /\ m <= Len(t) /\ \A i \in 1..m : s[i] = t[i]

\* As long as they do, so does what is put together.
LEMMA PartialUnique ==
  ASSUME NEW S, NEW s \in Seq(Seq(S)), NEW t \in Seq(Seq(S)),
         NEW f \in Partial(S, s), NEW g \in Partial(S, t)
  PROVE  \A m \in Nat : Agree(s, t, m) => f[m] = g[m]
<1> SUFFICES ASSUME NEW m \in Nat, m <= Len(s), m <= Len(t),
                    \A i \in 1..m : s[i] = t[i]
             PROVE  f[m] = g[m]
  BY DEF Agree
<1>1. /\ f[0] = <<>> /\ \A n \in 1..Len(s) : f[n] = f[n - 1] \o s[n]
      /\ g[0] = <<>> /\ \A n \in 1..Len(t) : g[n] = g[n - 1] \o t[n]
  BY DEF Partial
<1>2. \A n \in Nat : n + 1 <= m => /\ n + 1 \in 1..m /\ (n + 1) - 1 = n
                                   /\ n + 1 \in 1..Len(s) /\ n + 1 \in 1..Len(t)
                                   /\ n <= m
  OBVIOUS
<1> DEFINE G == {n \in Nat : n <= m => f[n] = g[n]}
<1>3. 0 \in G
  BY <1>1
<1>4. ASSUME NEW n \in Nat, n \in G
      PROVE  n + 1 \in G
  <2>1. SUFFICES ASSUME n + 1 <= m PROVE f[n + 1] = g[n + 1]
    OBVIOUS
  <2>2. f[n] = g[n] /\ s[n + 1] = t[n + 1]
    BY <1>2, <1>4, <2>1
  <2>3. /\ f[n + 1] = f[(n + 1) - 1] \o s[n + 1]
        /\ g[n + 1] = g[(n + 1) - 1] \o t[n + 1]
    BY <1>1, <1>2, <2>1, Zenon
  <2>4. (n + 1) - 1 = n
    OBVIOUS
  <2> QED BY <2>2, <2>3, <2>4, Zenon
<1>5. m \in G
  <2> HIDE DEF G
  <2> QED BY <1>3, <1>4, UpwardNat
<1>6. m <= m
  OBVIOUS
<1> QED
  BY <1>5, <1>6

\* FlattenSeq, one sequence after the other.
LEMMA FlattenAppend ==
  ASSUME NEW S
  PROVE  /\ FlattenSeq(<<>>) = <<>>
         /\ \A s \in Seq(Seq(S)) : FlattenSeq(s) \in Seq(S)
         /\ \A s \in Seq(Seq(S)), x \in Seq(S) :
              FlattenSeq(Append(s, x)) = FlattenSeq(s) \o x
<1>1. FlattenSeq(<<>>) = <<>>
  BY DEF FlattenSeq
<1>2. ASSUME NEW s \in Seq(Seq(S))
      PROVE  FlattenSeq(s) \in Seq(S)
  <2>1. PICK f : f \in Partial(S, s) /\ FlattenSeq(s) = f[Len(s)]
    BY FlattenSteps
  <2>2. f \in [0..Len(s) -> Seq(S)] /\ Len(s) \in 0..Len(s)
    BY <2>1 DEF Partial
  <2> QED BY <2>1, <2>2
<1>3. ASSUME NEW s \in Seq(Seq(S)), NEW x \in Seq(S)
      PROVE  FlattenSeq(Append(s, x)) = FlattenSeq(s) \o x
  <2> DEFINE t == Append(s, x)
  <2>1. /\ t \in Seq(Seq(S)) /\ Len(t) = Len(s) + 1 /\ t[Len(s) + 1] = x
        /\ \A i \in 1..Len(s) : s[i] = t[i]
    OBVIOUS
  <2>2. /\ Len(s) \in Nat /\ Len(s) <= Len(s) /\ Len(s) <= Len(t)
        /\ Len(t) \in 1..Len(t) /\ Len(t) - 1 = Len(s)
    BY <2>1
  <2> HIDE DEF t
  <2>3. PICK f : f \in Partial(S, s) /\ FlattenSeq(s) = f[Len(s)]
    BY FlattenSteps
  <2>4. PICK g : g \in Partial(S, t) /\ FlattenSeq(t) = g[Len(t)]
    BY <2>1, FlattenSteps
  <2>5. f[Len(s)] = g[Len(s)]
    <3>1. Agree(s, t, Len(s))
      BY <2>1, <2>2 DEF Agree
    <3>2. \A m \in Nat : Agree(s, t, m) => f[m] = g[m]
      BY <2>1, <2>3, <2>4, PartialUnique
    <3> QED BY <2>2, <3>1, <3>2, Zenon
  <2>6. g[Len(t)] = g[Len(t) - 1] \o t[Len(t)]
    BY <2>2, <2>4, Zenon DEF Partial
  <2> QED BY <2>1, <2>2, <2>3, <2>4, <2>5, <2>6, Zenon DEF t
<1> QED
  BY <1>1, <1>2, <1>3

\* A character takes one byte or two.
LEMMA EncodedCharType ==
  ASSUME NEW c \in Char
  PROVE  EncodedChar(c) \in Seq(Byte)
<1>1. c \in Nat /\ 1 <= c /\ c <= 2047
  BY DEF Char
<1>2. CASE c < 128
  <2>1. c \in Byte
    BY <1>1, <1>2 DEF Byte
  <2> QED BY <1>2, <2>1 DEF EncodedChar
<1>3. CASE ~(c < 128)
  <2>1. 192 + c \div 64 \in 1..255 /\ 128 + (c % 64) \in 1..255
    BY <1>1, <1>3, SMTT(30)
  <2>2. EncodedChar(c) = <<192 + c \div 64, 128 + (c % 64)>>
    BY <1>3, Zenon DEF EncodedChar
  <2>3. \A a, b \in Byte : <<a, b>> \in Seq(Byte)
    OBVIOUS
  <2> QED BY <2>1, <2>2, <2>3, Zenon DEF Byte
<1> QED
  BY <1>2, <1>3

\* Characters are encoded one after the other.
LEMMA EncodedAppend ==
  /\ Encoded(<<>>) = <<>>
  /\ \A w \in Seq(Char) : Encoded(w) \in Seq(Byte)
  /\ \A w \in Seq(Char), c \in Char :
       Encoded(Append(w, c)) = Encoded(w) \o EncodedChar(c)
<1> DEFINE Codes(w) == [i \in DOMAIN w |-> EncodedChar(w[i])]
<1>1. Codes(<<>>) = <<>>
  OBVIOUS
<1>2. ASSUME NEW w \in Seq(Char)
      PROVE  Codes(w) \in Seq(Seq(Byte)) /\ Len(Codes(w)) = Len(w)
  <2>1. \A i \in 1..Len(w) : EncodedChar(w[i]) \in Seq(Byte)
    BY EncodedCharType
  <2> QED BY <2>1
<1>3. ASSUME NEW w \in Seq(Char), NEW c \in Char
      PROVE  Codes(Append(w, c)) = Append(Codes(w), EncodedChar(c))
  <2>1. Append(w, c) \in Seq(Char)
    OBVIOUS
  <2>2. /\ Len(Codes(Append(w, c))) = Len(w) + 1
        /\ Codes(Append(w, c)) \in Seq(Seq(Byte))
    <3>1. Len(Append(w, c)) = Len(w) + 1
      OBVIOUS
    <3> HIDE DEF Codes
    <3> QED BY <1>2, <2>1, <3>1
  <2>3. /\ Append(Codes(w), EncodedChar(c)) \in Seq(Seq(Byte))
        /\ Len(Append(Codes(w), EncodedChar(c))) = Len(w) + 1
    BY <1>2, EncodedCharType
  <2>4. \A i \in 1..(Len(w) + 1) :
          Codes(Append(w, c))[i] = Append(Codes(w), EncodedChar(c))[i]
    <3> TAKE i \in 1..(Len(w) + 1)
    <3>1. Codes(Append(w, c))[i] = EncodedChar(Append(w, c)[i])
      OBVIOUS
    <3>2. CASE i = Len(w) + 1
      BY <1>2, <3>1, <3>2
    <3>3. CASE i \in 1..Len(w)
      BY <1>2, <3>1, <3>3
    <3> QED BY <3>2, <3>3
  <2> HIDE DEF Codes
  <2> QED BY <2>2, <2>3, <2>4, SeqEqual
<1>4. \A w : Encoded(w) = FlattenSeq(Codes(w))
  BY Zenon DEF Encoded
<1> HIDE DEF Codes
<1>5. \A w \in Seq(Char), c \in Char :
        FlattenSeq(Append(Codes(w), EncodedChar(c)))
          = FlattenSeq(Codes(w)) \o EncodedChar(c)
  BY <1>2, EncodedCharType, FlattenAppend
<1>6. \A w \in Seq(Char) : FlattenSeq(Codes(w)) \in Seq(Byte)
  BY <1>2, FlattenAppend
<1> QED
  BY <1>1, <1>3, <1>4, <1>5, <1>6, FlattenAppend, Zenon

\* The encoding of two strings is that of the one and that of the other.
LEMMA EncodedConcat ==
  ASSUME NEW v \in Seq(Char), NEW w \in Seq(Char)
  PROVE  Encoded(v \o w) = Encoded(v) \o Encoded(w)
<1> DEFINE pre(n) == SubSeq(w, 1, n)
           G == {n \in Nat : n <= Len(w) =>
                   Encoded(v \o pre(n)) = Encoded(v) \o Encoded(pre(n))}
<1>1. 0 \in G
  <2>1. pre(0) = <<>> /\ v \o <<>> = v
    OBVIOUS
  <2>2. Encoded(v) \o <<>> = Encoded(v)
    BY EncodedAppend, ConcatEmptySeq
  <2> HIDE DEF pre
  <2> QED BY <2>1, <2>2, EncodedAppend
<1>2. ASSUME NEW n \in Nat, n \in G
      PROVE  n + 1 \in G
  <2>1. SUFFICES ASSUME n + 1 <= Len(w)
                 PROVE  Encoded(v \o pre(n + 1))
                          = Encoded(v) \o Encoded(pre(n + 1))
    OBVIOUS
  <2> DEFINE c == w[n + 1]
             x == EncodedChar(c)
  <2>2. /\ pre(n) \in Seq(Char) /\ c \in Char /\ n <= Len(w)
        /\ pre(n + 1) = Append(pre(n), c)
    BY <2>1
  <2>3. v \o Append(pre(n), c) = Append(v \o pre(n), c) /\ v \o pre(n) \in Seq(Char)
    <3> HIDE DEF pre, c
    <3> QED BY <2>2
  <2>4. Encoded(v \o pre(n)) = Encoded(v) \o Encoded(pre(n))
    BY <1>2, <2>2
  <2> HIDE DEF pre, c
  <2>5. /\ Encoded(Append(pre(n), c)) = Encoded(pre(n)) \o x
        /\ Encoded(Append(v \o pre(n), c)) = Encoded(v \o pre(n)) \o x
        /\ Encoded(v) \in Seq(Byte) /\ Encoded(pre(n)) \in Seq(Byte)
    BY <2>2, <2>3, EncodedAppend
  <2>6. x \in Seq(Byte)
    BY <2>2, EncodedCharType
  <2> HIDE DEF x
  <2>7. (Encoded(v) \o Encoded(pre(n))) \o x
          = Encoded(v) \o (Encoded(pre(n)) \o x)
    <3>1. \A a, b, d \in Seq(Byte) : (a \o b) \o d = a \o (b \o d)
      BY ConcatAssociative
    <3> QED BY <2>5, <2>6, <3>1, Zenon
  <2> QED BY <2>2, <2>3, <2>4, <2>5, <2>7, Zenon
<1>3. Len(w) \in Nat /\ Len(w) <= Len(w) /\ pre(Len(w)) = w
  BY SubSeqFull
<1>4. Len(w) \in G
  <2> HIDE DEF G
  <2> QED BY <1>1, <1>2, <1>3, UpwardNat
<1> QED
  BY <1>3, <1>4

-----------------------------------------------------------------------------
(* join_list.                                                              *)

\* Nothing is cut off that leaves room for the NUL.
LEMMA StrlcatWhole ==
  ASSUME NEW dst \in Seq(Byte), NEW src \in Seq(Byte), NEW siz \in Nat,
         Len(dst) + Len(src) < siz
  PROVE  strlcat(dst, src, siz) = dst \o src
<1> DEFINE room == {Len(src), siz - 1 - Len(dst)}
<1>1. room \in SUBSET Nat /\ room # {} /\ \A x \in room : x >= Len(src)
  OBVIOUS
<1>2. Min(room) \in room /\ Min(room) <= Len(src)
  <2> Len(src) \in room
    OBVIOUS
  <2> HIDE DEF room
  <2> QED BY <1>1, MinOf
<1>3. Min(room) = Len(src)
  <2>1. Min(room) \in Nat /\ Min(room) >= Len(src)
    BY <1>1, <1>2
  <2> HIDE DEF room
  <2> QED BY <1>2, <2>1
<1> HIDE DEF room
<1>4. SubSeq(src, 1, Len(src)) = src
  BY SubSeqFull
<1> QED
  BY <1>3, <1>4, Zenon DEF strlcat, room

\* The words with a space before each one but the first.
Spaced(tokens) == [i \in DOMAIN tokens |-> IF i = 1 THEN tokens[1]
                                           ELSE <<SPACE>> \o tokens[i]]

\* The words with their spaces are strings of bytes, as many as the words.
LEMMA SpacedType ==
  ASSUME NEW tokens \in Seq(Seq(Byte))
  PROVE  /\ Spaced(tokens) \in Seq(Seq(Byte))
         /\ Len(Spaced(tokens)) = Len(tokens)
         /\ <<SPACE>> \in Seq(Byte)
         /\ \A i \in 1..Len(tokens) :
              Spaced(tokens)[i] = IF i = 1 THEN tokens[i]
                                  ELSE <<SPACE>> \o tokens[i]
<1>1. <<SPACE>> \in Seq(Byte)
  BY DEF SPACE, Byte
<1>2. \A i \in 1..Len(tokens) : <<SPACE>> \o tokens[i] \in Seq(Byte)
  <2> TAKE i \in 1..Len(tokens)
  <2>1. tokens[i] \in Seq(Byte)
    OBVIOUS
  <2> QED BY <1>1, <2>1, ConcatProperties
<1>3. DOMAIN tokens = 1..Len(tokens) /\ Len(tokens) \in Nat
  OBVIOUS
<1>4. /\ Spaced(tokens) = [i \in 1..Len(tokens) |-> IF i = 1 THEN tokens[1]
                                                 ELSE <<SPACE>> \o tokens[i]]
      /\ \A i \in 1..Len(tokens) : Spaced(tokens)[i] \in Seq(Byte)
  BY <1>2, <1>3 DEF Spaced
<1>5. Spaced(tokens) \in Seq(Seq(Byte)) /\ Len(Spaced(tokens)) = Len(tokens)
  BY <1>3, <1>4
<1>6. \A i \in 1..Len(tokens) :
        Spaced(tokens)[i] = IF i = 1 THEN tokens[i]
                            ELSE <<SPACE>> \o tokens[i]
  BY <1>4
<1> QED
  BY <1>1, <1>5, <1>6

\* join_list cuts nothing off: the size counts the NUL and every separator.
LEMMA JoinIsWhole ==
  ASSUME NEW tokens \in Seq(Seq(Byte))
  PROVE  join_list(tokens) = FlattenSeq(Spaced(tokens))
<1> DEFINE L == Len(tokens)
           Next1(o, n) ==
             LET siz == o.siz + Len(tokens[n]) + (IF n = 1 THEN 0 ELSE 1)
                 str == IF n = 1 THEN <<>> ELSE strlcat(o.str, <<SPACE>>, siz)
             IN  [siz |-> siz, str |-> strlcat(str, tokens[n], siz)]
           P(f) == f = [n \in 0..L |->
                          IF n = 0 THEN [siz |-> L, str |-> <<>>]
                          ELSE Next1(f[n - 1], n)]
<1>1. PICK flat : /\ flat \in Partial(Byte, Spaced(tokens))
                  /\ FlattenSeq(Spaced(tokens)) = flat[Len(Spaced(tokens))]
  BY SpacedType, FlattenSteps
<1>2. /\ flat \in [0..L -> Seq(Byte)] /\ flat[0] = <<>>
      /\ \A n \in 1..L : flat[n] = flat[n - 1] \o Spaced(tokens)[n]
      /\ FlattenSeq(Spaced(tokens)) = flat[L]
  BY <1>1, SpacedType DEF Partial
<1>3. L \in Nat /\ \A n \in 1..L : tokens[n] \in Seq(Byte)
  OBVIOUS
<1> HIDE DEF L, Next1
<1>4. ASSUME NEW n \in 1..L, NEW o,
             o = [siz |-> L + Len(flat[n - 1]), str |-> flat[n - 1]]
      PROVE  Next1(o, n) = [siz |-> L + Len(flat[n]), str |-> flat[n]]
  <2> DEFINE c == tokens[n]
             d == flat[n - 1]
             siz == o.siz + Len(tokens[n]) + (IF n = 1 THEN 0 ELSE 1)
             str == IF n = 1 THEN <<>> ELSE strlcat(o.str, <<SPACE>>, siz)
  <2>1. Next1(o, n) = [siz |-> siz, str |-> strlcat(str, c, siz)]
    BY Zenon DEF Next1
  <2>2. c \in Seq(Byte) /\ Len(c) \in Nat
    BY <1>3
  <2>3. d \in Seq(Byte) /\ Len(d) \in Nat
    <3>1. n - 1 \in 0..L
      BY <1>3
    <3>2. d \in Seq(Byte)
      BY <1>2, <3>1
    <3> QED BY <3>2
  <2>4. o.siz = L + Len(d) /\ o.str = d
    BY <1>4
  <2>5. flat[n] = d \o (IF n = 1 THEN c ELSE <<SPACE>> \o c)
    BY <1>2, SpacedType, Zenon DEF L
  <2> HIDE DEF c, d
  <2>6. siz = L + Len(d) + Len(c) + (IF n = 1 THEN 0 ELSE 1)
    BY <2>4, Zenon DEF c
  <2>7. n \in Nat /\ L >= 1
    BY <1>3
  <2>8. CASE n = 1
    <3>1. d = <<>>
      BY <1>2, <2>8 DEF d
    <3>2. siz = L + Len(c) /\ siz \in Nat /\ Len(<<>>) + Len(c) < siz
      BY <1>3, <2>2, <2>6, <2>7, <2>8, <3>1
    <3>3. str = <<>> /\ <<>> \in Seq(Byte)
      BY <2>8
    <3> HIDE DEF siz, str
    <3>4. strlcat(str, c, siz) = <<>> \o c
      BY <2>2, <3>2, <3>3, StrlcatWhole
    <3>5. flat[n] = c /\ <<>> \o c = c /\ L + Len(flat[n]) = siz
      BY <2>2, <2>5, <2>8, <3>1, <3>2
    <3> QED BY <2>1, <3>4, <3>5, Zenon
  <2>9. CASE n # 1
    <3>1. siz = L + Len(d) + Len(c) + 1
      BY <2>6, <2>9
    <3>2. <<SPACE>> \in Seq(Byte) /\ Len(<<SPACE>>) = 1
      BY SpacedType
    <3>3. str = strlcat(d, <<SPACE>>, siz)
      BY <2>4, <2>9
    <3> HIDE DEF siz, str
    <3>4. siz \in Nat /\ Len(d) + Len(<<SPACE>>) < siz
      BY <1>3, <2>2, <2>3, <2>7, <3>1, <3>2
    <3>5. str = d \o <<SPACE>>
      BY <2>3, <3>2, <3>3, <3>4, StrlcatWhole
    <3>6. str \in Seq(Byte) /\ Len(str) = Len(d) + 1
      BY <2>3, <3>2, <3>5
    <3>7. Len(str) + Len(c) < siz
      BY <1>3, <2>2, <2>3, <2>7, <3>1, <3>6
    <3>8. strlcat(str, c, siz) = str \o c
      BY <2>2, <3>4, <3>6, <3>7, StrlcatWhole
    <3>9. flat[n] = str \o c
      <4>1. \A x, y, z \in Seq(Byte) : (x \o y) \o z = x \o (y \o z)
        BY ConcatAssociative
      <4>2. flat[n] = d \o (<<SPACE>> \o c)
        BY <2>5, <2>9, Zenon
      <4> QED BY <2>2, <2>3, <3>2, <3>5, <4>1, <4>2, Zenon
    <3>10. Len(str \o c) = Len(str) + Len(c)
      <4>1. \A x, y \in Seq(Byte) : Len(x \o y) = Len(x) + Len(y)
        OBVIOUS
      <4> QED BY <2>2, <3>6, <4>1, Zenon
    <3>11. L + Len(flat[n]) = siz
      BY <1>3, <2>2, <2>3, <3>1, <3>6, <3>9, <3>10
    <3> QED BY <2>1, <3>8, <3>9, <3>11, Zenon
  <2> QED BY <2>8, <2>9
<1>5. join_list(tokens) = (CHOOSE f : P(f))[L].str
  BY Zenon DEF join_list, L, Next1
<1> DEFINE g == [n \in 0..L |-> [siz |-> L + Len(flat[n]), str |-> flat[n]]]
<1>6. P(g)
  <2>1. ASSUME NEW n \in 0..L
        PROVE  g[n] = IF n = 0 THEN [siz |-> L, str |-> <<>>]
                      ELSE Next1(g[n - 1], n)
    <3>1. CASE n = 0
      <4>1. g[n] = [siz |-> L + Len(flat[n]), str |-> flat[n]]
        OBVIOUS
      <4>2. Len(flat[n]) = 0 /\ flat[n] = <<>> /\ L + 0 = L
        BY <1>2, <1>3, <3>1
      <4> QED BY <3>1, <4>1, <4>2, Zenon
    <3>2. CASE n # 0
      <4>1. n \in 1..L /\ n - 1 \in 0..L
        BY <1>3, <3>2
      <4>2. g[n - 1] = [siz |-> L + Len(flat[n - 1]), str |-> flat[n - 1]]
        BY <4>1
      <4>3. g[n] = [siz |-> L + Len(flat[n]), str |-> flat[n]]
        OBVIOUS
      <4> HIDE DEF g
      <4>4. Next1(g[n - 1], n) = g[n]
        BY <1>4, <4>1, <4>2, <4>3, Zenon
      <4> QED BY <3>2, <4>4
    <3> QED BY <3>1, <3>2
  <2>2. g = [n \in 0..L |-> g[n]]
    OBVIOUS
  <2> HIDE DEF g
  <2> QED BY <2>1, <2>2
<1>7. PICK f : P(f) /\ join_list(tokens) = f[L].str
  <2> HIDE DEF P, g
  <2> QED BY <1>5, <1>6
<1>8. \A n \in 0..L : f[n] = IF n = 0 THEN [siz |-> L, str |-> <<>>]
                             ELSE Next1(f[n - 1], n)
  BY <1>7
<1> DEFINE G == {n \in Nat : n <= L => f[n] = [siz |-> L + Len(flat[n]),
                                               str |-> flat[n]]}
<1>9. 0 \in G
  BY <1>2, <1>3, <1>8
<1>10. ASSUME NEW n \in Nat, n \in G
       PROVE  n + 1 \in G
  <2>1. SUFFICES ASSUME n + 1 <= L
                 PROVE  f[n + 1] = [siz |-> L + Len(flat[n + 1]),
                                    str |-> flat[n + 1]]
    OBVIOUS
  <2>2. n + 1 \in 1..L /\ n + 1 \in 0..L /\ n + 1 # 0 /\ (n + 1) - 1 = n
    BY <1>3, <2>1
  <2>3. f[n] = [siz |-> L + Len(flat[n]), str |-> flat[n]]
    BY <1>3, <1>10, <2>1
  <2>4. f[n + 1] = Next1(f[n], n + 1)
    BY <1>8, <2>2
  <2> QED BY <1>4, <2>2, <2>3, <2>4
<1>11. L \in G
  <2> HIDE DEF G
  <2> QED BY <1>3, <1>9, <1>10, UpwardNat
<1>12. f[L].str = flat[L]
  BY <1>3, <1>11
<1> QED
  BY <1>2, <1>7, <1>12

\* So the words that it joins are bytes.
LEMMA JoinType ==
  ASSUME NEW tokens \in Seq(Seq(Byte))
  PROVE  join_list(tokens) \in Seq(Byte)
  BY JoinIsWhole, SpacedType, FlattenAppend

-----------------------------------------------------------------------------
(* Sums and lists.                                                         *)

\* A sum is a word, whatever is added to it.
LEMMA UpdateType == \A crc0, byte : UPDATE(crc0, byte) \in Word
<1>1. \A i : crc32tab(i) \in Word
  BY DEF crc32tab, Word
<1>2. \A x, y \in Word : Xor(x, y) \in Word
  BY DEF Xor, Word
<1>3. \A c : {k + 8 : k \in c \cap 0..23} \in Word
  BY DEF Word
<1> QED
  BY <1>1, <1>2, <1>3, Zenon DEF UPDATE

\* The sums after the first bytes of a text.
Sums(f, c, t) ==
  /\ f[0] = c
  /\ \A n \in 1..Len(t) : f[n] = UPDATE(f[n - 1], t[n])

\* CKSUM_Update goes through them.
LEMMA SumIs ==
  ASSUME NEW c \in Word, NEW t \in Seq(Byte)
  PROVE  \E f : Sums(f, c, t) /\ CKSUM_Update(c, t) = f[Len(t)]
<1> DEFINE L == Len(t)
           P(f) == f = [n \in 0..L |-> IF n = 0 THEN c
                                       ELSE UPDATE(f[n - 1], t[n])]
           step == [n \in 1..L |-> [x \in Word |-> UPDATE(x, t[n])]]
<1>1. L \in Nat /\ step \in [1..L -> [Word -> Word]]
  BY UpdateType
<1>2. \A n \in 1..L, x \in Word : step[n][x] = UPDATE(x, t[n])
  OBVIOUS
<1>3. CKSUM_Update(c, t) = (CHOOSE f : P(f))[L]
  BY Zenon DEF CKSUM_Update
<1>4. \E f : P(f)
  <2> HIDE DEF L, step
  <2>1. PICK f : f \in Iterations(L, Word, c, step)
    BY <1>1, IterationExists
  <2>2. /\ f \in [0..L -> Word] /\ f[0] = c
        /\ \A n \in 1..L : f[n] = step[n][f[n - 1]]
    BY <2>1 DEF Iterations
  <2>3. ASSUME NEW n \in 0..L
        PROVE  f[n] = IF n = 0 THEN c ELSE UPDATE(f[n - 1], t[n])
    <3>1. CASE n = 0
      BY <2>2, <3>1
    <3>2. CASE n # 0
      <4>1. n \in 1..L /\ n - 1 \in 0..L
        BY <1>1, <3>2
      <4>2. f[n - 1] \in Word
        BY <2>2, <4>1
      <4> QED BY <1>2, <2>2, <3>2, <4>1, <4>2
    <3> QED BY <3>1, <3>2
  <2>4. f = [n \in 0..L |-> f[n]]
    BY <2>2
  <2> QED BY <2>3, <2>4
<1>5. PICK f : P(f) /\ CKSUM_Update(c, t) = f[L]
  <2> HIDE DEF P
  <2> QED BY <1>3, <1>4
<1>6. f[0] = c
  <2>1. 0 \in 0..L
    BY <1>1
  <2> QED BY <1>5, <2>1
<1>7. ASSUME NEW n \in 1..L
      PROVE  f[n] = UPDATE(f[n - 1], t[n])
  <2>1. n \in 0..L /\ n # 0
    BY <1>1
  <2> QED BY <1>5, <2>1
<1> QED
  BY <1>5, <1>6, <1>7 DEF Sums

\* Nor is a sum anything else after all bytes of a text.
LEMMA SumType ==
  ASSUME NEW c \in Word, NEW buf \in Seq(Byte)
  PROVE  CKSUM_Update(c, buf) \in Word
<1>1. PICK f : Sums(f, c, buf) /\ CKSUM_Update(c, buf) = f[Len(buf)]
  BY SumIs
<1>2. f[Len(buf)] = IF Len(buf) = 0 THEN c
                    ELSE UPDATE(f[Len(buf) - 1], buf[Len(buf)])
  BY <1>1 DEF Sums
<1> QED
  BY <1>1, <1>2, UpdateType

\* ARRAY_ENSURE makes room.
LEMMA EnsuredFits ==
  ASSUME NEW have \in Nat, NEW num \in Nat
  PROVE  Ensured(have, num) \in Nat /\ Ensured(have, num) > num
<1> DEFINE P(f, t) == f = [s \in {u \in Nat : u >= t} |->
                             IF s <= num THEN f[s * 2] ELSE s]
           Q(f) == f = [s \in Nat |-> IF s <= num THEN f[s * 2] ELSE s]
           G == {t \in 1..(num + 1) : \E f : P(f, t)}
           first == IF have = 0 THEN InitialSpace ELSE have
<1>1. num + 1 \in G
  <2> DEFINE f == [s \in {u \in Nat : u >= num + 1} |-> s]
  <2>1. P(f, num + 1)
    OBVIOUS
  <2>2. num + 1 \in 1..(num + 1)
    OBVIOUS
  <2> HIDE DEF f, P
  <2> QED BY <2>1, <2>2
<1>2. ASSUME NEW t \in 1..((num + 1) - 1), t + 1 \in G
      PROVE  t \in G
  <2>1. PICK f : P(f, t + 1)
    BY <1>2
  <2> DEFINE D == {u \in Nat : u >= t}
             h == [s \in D |-> IF s = t THEN f[t * 2] ELSE f[s]]
  <2>2. \A s \in Nat : s >= t => s * 2 \in Nat /\ s * 2 >= t + 1
    OBVIOUS
  <2>3. ASSUME NEW s \in D
        PROVE  h[s] = IF s <= num THEN h[s * 2] ELSE s
    <3>1. s * 2 \in D /\ s * 2 # t /\ h[s * 2] = f[s * 2]
      BY <2>2
    <3>2. CASE s = t
      BY <3>1, <3>2
    <3>3. CASE s # t
      <4>1. s \in {u \in Nat : u >= t + 1} /\ h[s] = f[s]
        BY <3>3
      <4>2. f[s] = IF s <= num THEN f[s * 2] ELSE s
        BY <2>1, <4>1
      <4> QED BY <3>1, <4>1, <4>2
    <3> QED BY <3>2, <3>3
  <2>4. h = [s \in D |-> h[s]]
    OBVIOUS
  <2>5. P(h, t)
    <3> HIDE DEF h
    <3> QED BY <2>3, <2>4
  <2>6. t \in 1..(num + 1)
    OBVIOUS
  <2> HIDE DEF h, P
  <2> QED BY <2>5, <2>6
<1>3. \E f : Q(f)
  <2>1. 1 \in G
    <3>1. 1 \in Nat /\ num + 1 \in Nat /\ 1 \in 1..(num + 1)
      OBVIOUS
    <3> HIDE DEF G
    <3> QED BY <1>1, <1>2, <3>1, DownwardNat
  <2>2. PICK f : P(f, 1)
    BY <2>1
  <2> DEFINE h == [s \in Nat |-> IF s = 0 THEN 0 ELSE f[s]]
  <2>3. ASSUME NEW s \in Nat
        PROVE  h[s] = IF s <= num THEN h[s * 2] ELSE s
    <3>1. CASE s = 0
      BY <3>1
    <3>2. CASE s # 0
      <4>1. s \in {u \in Nat : u >= 1} /\ s * 2 \in Nat /\ s * 2 # 0
        BY <3>2
      <4>2. f[s] = IF s <= num THEN f[s * 2] ELSE s
        BY <2>2, <4>1
      <4>3. h[s] = f[s] /\ h[s * 2] = f[s * 2]
        BY <3>2, <4>1
      <4> QED BY <4>2, <4>3
    <3> QED BY <3>1, <3>2
  <2>4. h = [s \in Nat |-> h[s]]
    OBVIOUS
  <2> HIDE DEF h
  <2>5. Q(h)
    BY <2>3, <2>4
  <2> QED BY <2>5
<1>4. Ensured(have, num) = (CHOOSE f : Q(f))[first]
  BY Zenon DEF Ensured
<1>5. PICK f : Q(f) /\ Ensured(have, num) = f[first]
  <2> HIDE DEF Q, first
  <2> QED BY <1>3, <1>4
<1>6. \A s \in Nat : f[s] = IF s <= num THEN f[s * 2] ELSE s
  BY <1>5
<1> DEFINE B == {s \in 1..num : ~(f[s] \in Nat /\ f[s] > num)}
<1>7. B = {}
  <2>1. SUFFICES ASSUME B # {} PROVE FALSE
    OBVIOUS
  <2>2. B \in SUBSET Nat /\ \A s \in B : s <= num /\ s \in 1..num
    OBVIOUS
  <2>3. PICK s \in B : \A u \in B : u <= s
    <3> HIDE DEF B
    <3> QED BY <2>1, <2>2, GreatestNat
  <2>4. s \in 1..num /\ s * 2 \in Nat /\ ~(s * 2 <= s)
    BY <2>2
  <2>5. f[s] = f[s * 2] /\ ~(f[s] \in Nat /\ f[s] > num)
    BY <1>6, <2>4
  <2>6. f[s * 2] \in Nat /\ f[s * 2] > num
    <3>1. CASE s * 2 <= num
      <4>1. s * 2 \in 1..num /\ s * 2 \notin B
        BY <2>3, <2>4, <3>1
      <4> QED BY <4>1
    <3>2. CASE ~(s * 2 <= num)
      <4>1. f[s * 2] = s * 2
        BY <1>6, <2>4, <3>2, Zenon
      <4> QED BY <2>4, <3>2, <4>1
    <3> QED BY <3>1, <3>2
  <2> QED BY <2>5, <2>6, Zenon
<1>8. first \in Nat /\ first >= 1
  BY SizeAssumption
<1>9. CASE first <= num
  <2>1. first \in 1..num /\ first \notin B
    BY <1>7, <1>8, <1>9
  <2> HIDE DEF first
  <2> QED BY <1>5, <2>1
<1>10. CASE ~(first <= num)
  <2> HIDE DEF first
  <2>1. f[first] = first
    BY <1>6, <1>8, <1>10, Zenon
  <2> QED BY <1>5, <1>8, <1>10, <2>1
<1> QED
  BY <1>9, <1>10

-----------------------------------------------------------------------------
(* The static buffer.                                                      *)

Buffer == [1..LineSize -> Char \cup {NUL}]

\* wcslen finds the first NUL, or the end of the buffer.
LEMMA WcslenType ==
  ASSUME NEW buf \in Buffer
  PROVE  /\ wcslen(buf) \in 0..LineSize
         /\ \A i \in 1..wcslen(buf) : buf[i] \in Char
         /\ SubSeq(buf, 1, wcslen(buf)) \in Seq(Char)
<1> DEFINE S == {i \in DOMAIN buf : buf[i] = NUL} \cup {Len(buf) + 1}
<1>1. /\ LineSize \in Nat /\ DOMAIN buf = 1..LineSize /\ Len(buf) = LineSize
      /\ \A i \in 1..LineSize : buf[i] \in Char \cup {NUL}
  BY SizeAssumption DEF Buffer
<1>2. S \in SUBSET Nat /\ S # {} /\ \A i \in S : i \in 1..(LineSize + 1)
  BY <1>1
<1>3. \A i \in 1..LineSize : buf[i] = NUL => i \in S
  BY <1>1
<1>4. wcslen(buf) = Min(S) - 1
  BY Zenon DEF wcslen
<1> HIDE DEF S
<1>5. Min(S) \in S /\ \A i \in S : Min(S) <= i
  BY <1>2, MinOf
<1>6. Min(S) \in 1..(LineSize + 1)
  BY <1>2, <1>5
<1>7. wcslen(buf) \in 0..LineSize
  BY <1>1, <1>4, <1>6
<1>8. ASSUME NEW i \in 1..wcslen(buf)
      PROVE  buf[i] \in Char
  <2>1. i \in 1..LineSize /\ ~(Min(S) <= i)
    BY <1>1, <1>4, <1>6
  <2>2. buf[i] # NUL
    BY <1>3, <1>5, <2>1
  <2> QED BY <1>1, <2>1, <2>2
<1>9. SubSeq(buf, 1, wcslen(buf)) \in Seq(Char)
  BY <1>7, <1>8, SubSeqProperties
<1> QED
  BY <1>7, <1>8, <1>9

\* mbstowcs and the stripping stay inside of the buffer, and leave the NUL at
\* its end when what is decoded is shorter.
LEMMA BufferStep ==
  ASSUME NEW buf \in Buffer, NEW s \in Seq(Byte)
  PROVE  /\ wcs_strip_trailing_whitespaces(mbstowcs(buf, s)) \in Buffer
         /\ buf[LineSize] = NUL /\ Len(s) < LineSize
              => wcs_strip_trailing_whitespaces(mbstowcs(buf, s))[LineSize]
                   = NUL
<1> DEFINE w == Decoded(s)
           b == mbstowcs(buf, s)
           c == wcs_strip_trailing_whitespaces(b)
<1>1. /\ LineSize \in Nat /\ LineSize \in 1..LineSize
      /\ DOMAIN buf = 1..LineSize
      /\ \A i \in 1..LineSize : buf[i] \in Char \cup {NUL}
  BY SizeAssumption DEF Buffer
<1>2. w \in Seq(Char) /\ Len(w) <= Len(s) /\ Len(w) \in Nat /\ Len(s) \in Nat
  BY DecodedType
<1> HIDE DEF w
<1>3. b = [i \in 1..LineSize |->
             CASE i <= Len(w) -> w[i]
               [] i = Len(w) + 1 /\ Decodes(s) -> NUL
               [] OTHER -> buf[i]]
  BY <1>1 DEF mbstowcs, w
<1>4. \A i \in 1..LineSize :
        /\ i <= Len(w) => b[i] = w[i] /\ w[i] \in Char
        /\ ~(i <= Len(w)) => b[i] \in {NUL, buf[i]}
  BY <1>2, <1>3
<1>5. DOMAIN b = 1..LineSize
  BY <1>3
<1>6. b \in Buffer
  <2>1. \A i \in 1..LineSize : b[i] \in Char \cup {NUL}
    BY <1>1, <1>4
  <2> QED BY <1>3, <2>1 DEF Buffer
<1> HIDE DEF b
<1>7. /\ DOMAIN c = 1..LineSize
      /\ \A i \in 1..LineSize : c[i] \in {NUL, b[i]}
      /\ c \in [1..LineSize -> Char \cup {NUL}]
  BY <1>5, <1>6 DEF wcs_strip_trailing_whitespaces, Buffer
<1> HIDE DEF c
<1>8. ASSUME buf[LineSize] = NUL, Len(s) < LineSize
      PROVE  c[LineSize] = NUL
  <2>1. ~(LineSize <= Len(w))
    BY <1>1, <1>2, <1>8
  <2> QED BY <1>1, <1>4, <1>7, <1>8, <2>1
<1>9. c \in Buffer
  BY <1>7 DEF Buffer
<1> QED
  BY <1>8, <1>9 DEF b, c

\* fgets takes no more than there is, and leaves room for the NUL.
LEMMA FgetsType ==
  ASSUME NEW s \in Seq(Byte)
  PROVE  FgetsLength(s) \in 0..Len(s) /\ FgetsLength(s) < LineSize
<1> DEFINE S == {i \in DOMAIN s : s[i] = NL} \cup {LineSize - 1, Len(s)}
<1>1. Len(s) \in Nat /\ LineSize \in Nat /\ LineSize > 1
  BY SizeAssumption
<1>2. S \in SUBSET Nat /\ S # {} /\ Len(s) \in S /\ LineSize - 1 \in S
  BY <1>1
<1>3. FgetsLength(s) = Min(S)
  BY Zenon DEF FgetsLength
<1> HIDE DEF S
<1>4. Min(S) \in Nat /\ Min(S) <= Len(s) /\ Min(S) <= LineSize - 1
  BY <1>2, MinOf
<1> QED
  BY <1>1, <1>3, <1>4

-----------------------------------------------------------------------------
(* Types, the buffer and the array.                                        *)

\* A result of a string is a result.
LEMMA NewResultType == \A v \in Seq(Char) : result_new(v) \in Result
  BY DEF result_new, Result

\* The program starts with an empty, terminated buffer and no list.
LEMMA InitType == Init => TypeOK /\ BufferTerminated /\ ArrayFits
<1> SUFFICES ASSUME Init PROVE TypeOK /\ BufferTerminated /\ ArrayFits
  OBVIOUS
<1>1. session \in Given /\ session.file \in Seq(Byte)
  BY TextAssumption DEF Init, Given
<1>2. LineSize \in 1..LineSize
  BY SizeAssumption
<1>3. pc \in {"parse", "load"} /\ {} \in Word
  BY DEF Init, Word
<1>4. TypeOK
  BY <1>1, <1>3 DEF Init, TypeOK
<1>5. BufferTerminated /\ ArrayFits
  BY <1>2 DEF Init, BufferTerminated, ArrayFits
<1> QED
  BY <1>4, <1>5

\* A line is read into the buffer and added to the list that grew for it.
LEMMA ReadLineStep ==
  ASSUME TypeOK, BufferTerminated, ArrayFits, ReadLine
  PROVE  TypeOK' /\ BufferTerminated' /\ ArrayFits'
<1> DEFINE k == FgetsLength(fp)
           line == SubSeq(fp, 1, k)
           buf == wcs_strip_trailing_whitespaces(mbstowcs(wline, line))
           new == result_new(SubSeq(buf, 1, wcslen(buf)))
<1>1. /\ fp \in Seq(Byte) /\ wline \in Buffer /\ results \in Seq(Result)
      /\ crc \in Word /\ len \in Nat /\ space \in Nat
  BY DEF TypeOK, Buffer
<1>2. k \in 0..Len(fp) /\ k < LineSize /\ Len(fp) \in Nat
  BY <1>1, FgetsType
<1>3. /\ fp' = SubSeq(fp, k + 1, Len(fp))
      /\ crc' = CKSUM_Update(crc, line) /\ len' = len + k
      /\ wline' = buf
      /\ results' = Append(results, new)
      /\ space' = Ensured(space, Len(results) + 1)
  BY Zenon DEF ReadLine
<1> HIDE DEF k
<1>4. line \in Seq(Byte) /\ Len(line) = k
  <2>1. \A i \in 1..k : fp[i] \in Byte
    BY <1>1, <1>2
  <2>2. 1 \in Int /\ k \in Int /\ (1 <= k => k - 1 + 1 = k) /\ (~(1 <= k) => k = 0)
    BY <1>2
  <2>3. line \in Seq(Byte) /\ Len(line) = IF 1 <= k THEN k - 1 + 1 ELSE 0
    BY <2>1, <2>2, SubSeqProperties
  <2> QED BY <2>2, <2>3
<1>5. fp' \in Seq(Byte)
  <2>1. \A i \in (k + 1)..Len(fp) : fp[i] \in Byte
    BY <1>1, <1>2
  <2>2. k + 1 \in Int /\ Len(fp) \in Int
    BY <1>2
  <2> QED BY <1>3, <2>1, <2>2, SubSeqProperties
<1> HIDE DEF line
<1>6. buf \in Buffer /\ buf[LineSize] = NUL
  BY <1>1, <1>2, <1>4, BufferStep DEF BufferTerminated
<1> HIDE DEF buf
<1>7. new \in Result
  BY <1>6, WcslenType, NewResultType
<1> HIDE DEF new
<1>8. results' \in Seq(Result) /\ Len(results') = Len(results) + 1
  BY <1>1, <1>3, <1>7
<1>9. space' \in Nat /\ space' > Len(results) + 1
  <2>1. Len(results) + 1 \in Nat
    BY <1>1
  <2> QED BY <1>1, <1>3, <2>1, EnsuredFits
<1>10. crc' \in Word /\ len' \in Nat
  BY <1>1, <1>2, <1>3, <1>4, SumType
<1>11. wline' \in [1..LineSize -> Char \cup {NUL}] /\ wline'[LineSize] = NUL
  BY <1>3, <1>6 DEF Buffer
<1>12. UNCHANGED <<session, pc, sums, tmp, keywords>>
  BY DEF ReadLine
<1>13. TypeOK'
  BY <1>5, <1>8, <1>9, <1>10, <1>11, <1>12 DEF TypeOK, sums
<1>14. ArrayFits'
  <2>1. Len(results) \in Nat
    BY <1>1
  <2> QED BY <1>8, <1>9, <2>1 DEF ArrayFits
<1> QED
  BY <1>11, <1>13, <1>14 DEF BufferTerminated

\* The prefix of `mdp add' and the lines that it makes.
LEMMA PrefixType ==
  ASSUME TypeOK
  PROVE  Prefix \in Seq(Char)
<1>1. session.argv \in Seq(Seq(Byte))
  BY DEF TypeOK, Given
<1> QED
  BY <1>1, JoinType, DecodedType DEF Prefix

\* The lines that `mdp add' makes of the passwords.
AddedLine(p) == IF session.argv = <<>> THEN p ELSE wcsjoin(TAB, Prefix, p)

\* What is added are strings of characters.
LEMMA AddedType ==
  ASSUME TypeOK
  PROVE  \A p \in Seq(Char) : AddedLine(p) \in Seq(Char)
<1> TAKE p \in Seq(Char)
<1>1. <<TAB>> \in Seq(Char)
  BY DEF TAB, Char
<1>2. Prefix \o <<TAB>> \in Seq(Char)
  BY <1>1, PrefixType, ConcatProperties
<1>3. Prefix \o <<TAB>> \o p \in Seq(Char)
  BY <1>2, ConcatProperties
<1> QED
  BY <1>3 DEF AddedLine, wcsjoin

\* The list grows for all passwords that are added at once.
LEMMA AddPasswordsStep ==
  ASSUME TypeOK, BufferTerminated, ArrayFits, AddPasswords
  PROVE  TypeOK' /\ BufferTerminated' /\ ArrayFits'
<1> DEFINE new == [i \in DOMAIN session.passwords |->
                     result_new(AddedLine(session.passwords[i]))]
<1>1. /\ results' = results \o new
      /\ space' = Ensured(space, Len(results) + Len(new))
      /\ pc' = "added"
      /\ UNCHANGED <<session, fp, wline, crc, len, sums, tmp, keywords>>
  BY DEF AddPasswords, AddedLine
<1>2. /\ session.passwords \in Seq(Seq(Char)) /\ space \in Nat
      /\ results \in Seq(Result)
  BY DEF TypeOK, Given
<1>3. new \in Seq(Result)
  <2>1. \A i \in 1..Len(session.passwords) :
          session.passwords[i] \in Seq(Char)
    BY <1>2
  <2>2. \A i \in 1..Len(session.passwords) :
          result_new(AddedLine(session.passwords[i])) \in Result
    BY <2>1, AddedType, NewResultType
  <2>3. /\ DOMAIN session.passwords = 1..Len(session.passwords)
        /\ Len(session.passwords) \in Nat
    BY <1>2
  <2>4. new \in [1..Len(session.passwords) -> Result]
    BY <2>2, <2>3
  <2> HIDE DEF new
  <2> QED BY <2>3, <2>4
<1> HIDE DEF new
<1>4. results' \in Seq(Result) /\ Len(results') = Len(results) + Len(new)
  BY <1>1, <1>2, <1>3
<1>5. Len(results) + Len(new) \in Nat
  BY <1>2, <1>3
<1>6. space' \in Nat /\ space' > Len(results) + Len(new)
  BY <1>1, <1>2, <1>5, EnsuredFits
<1>7. TypeOK'
  BY <1>1, <1>4, <1>6 DEF TypeOK, sums
<1>8. ArrayFits'
  BY <1>4, <1>5, <1>6 DEF ArrayFits
<1>9. BufferTerminated'
  BY <1>1 DEF BufferTerminated
<1> QED
  BY <1>7, <1>8, <1>9

\* The temporary file is written in bytes.
LEMMA DumpStep ==
  ASSUME TypeOK, Dump
  PROVE  tmp' \in Seq(Byte)
<1> DEFINE L == Len(results)
           lines == [i \in DOMAIN results |->
                       Append(Encoded(results[i].wcs_value), NL)]
<1>1. tmp' = FlattenSeq(lines)
  BY DEF Dump
<1>2. results \in Seq(Result)
  BY DEF TypeOK
<1>3. DOMAIN results = 1..L /\ L \in Nat
  BY <1>2
<1>4. \A i \in 1..L : Append(Encoded(results[i].wcs_value), NL) \in Seq(Byte)
  <2> TAKE i \in 1..L
  <2>1. results[i].wcs_value \in Seq(Char)
    <3>1. results[i] \in Result
      BY <1>2
    <3> QED BY <3>1 DEF Result
  <2>2. NL \in Byte /\ Encoded(results[i].wcs_value) \in Seq(Byte)
    BY <2>1, EncodedAppend DEF NL, Byte
  <2> QED BY <2>2, AppendProperties
<1>5. lines \in [1..L -> Seq(Byte)]
  BY <1>3, <1>4
<1> HIDE DEF lines
<1>6. lines \in Seq(Seq(Byte))
  BY <1>3, <1>5
<1> QED
  BY <1>1, <1>6, FlattenAppend

\* The editor leaves bytes in it.
LEMMA EditorStep ==
  ASSUME TypeOK, Editor
  PROVE  tmp' \in Seq(Byte)
<1>1. tmp \in Seq(Byte) /\ Len(tmp) \in Nat /\ DOMAIN tmp = 1..Len(tmp)
  BY DEF TypeOK
<1>2. \A b \in Typed : b \in Byte
  BY TextAssumption
<1>3. \A m, n \in Int : m >= 1 /\ n <= Len(tmp) => SubSeq(tmp, m, n) \in Seq(Byte)
  <2> SUFFICES ASSUME NEW m \in Int, NEW n \in Int, m >= 1, n <= Len(tmp)
               PROVE  SubSeq(tmp, m, n) \in Seq(Byte)
    OBVIOUS
  <2>1. \A i \in m..n : tmp[i] \in Byte
    BY <1>1
  <2> QED BY <2>1, SubSeqProperties
<1>4. CASE UNCHANGED tmp
  BY <1>1, <1>4
<1>5. CASE \E i \in DOMAIN tmp, b \in Typed : tmp' = [tmp EXCEPT ![i] = b]
  BY <1>1, <1>2, <1>5
<1>6. CASE \E i \in 1..(Len(tmp) + 1), b \in Typed : tmp' = InsertAt(tmp, i, b)
  <2>1. PICK i \in 1..(Len(tmp) + 1), b \in Typed : tmp' = InsertAt(tmp, i, b)
    BY <1>6
  <2>2. tmp' = SubSeq(tmp, 1, i - 1) \o <<b>> \o SubSeq(tmp, i, Len(tmp))
    BY <2>1 DEF InsertAt
  <2>3. /\ 1 \in Int /\ i - 1 \in Int /\ i - 1 <= Len(tmp) /\ 1 >= 1
        /\ i \in Int /\ Len(tmp) \in Int /\ i >= 1 /\ Len(tmp) <= Len(tmp)
    BY <1>1
  <2>4. /\ SubSeq(tmp, 1, i - 1) \in Seq(Byte)
        /\ SubSeq(tmp, i, Len(tmp)) \in Seq(Byte) /\ <<b>> \in Seq(Byte)
    <3>1. <<b>> \in Seq(Byte)
      BY <1>2
    <3> QED BY <1>3, <2>3, <3>1, Zenon
  <2>5. SubSeq(tmp, 1, i - 1) \o <<b>> \in Seq(Byte)
    BY <2>4, ConcatProperties
  <2> QED BY <2>2, <2>4, <2>5, ConcatProperties
<1>7. CASE \E i \in DOMAIN tmp : tmp' = RemoveAt(tmp, i)
  <2>1. PICK i \in 1..Len(tmp) : tmp' = RemoveAt(tmp, i)
    BY <1>1, <1>7
  <2>2. tmp' = SubSeq(tmp, 1, i - 1) \o SubSeq(tmp, i + 1, Len(tmp))
    BY <2>1 DEF RemoveAt
  <2>3. /\ 1 \in Int /\ i - 1 \in Int /\ i - 1 <= Len(tmp) /\ 1 >= 1
        /\ i + 1 \in Int /\ Len(tmp) \in Int /\ i + 1 >= 1
        /\ Len(tmp) <= Len(tmp)
    BY <1>1
  <2>4. /\ SubSeq(tmp, 1, i - 1) \in Seq(Byte)
        /\ SubSeq(tmp, i + 1, Len(tmp)) \in Seq(Byte)
    BY <1>3, <2>3, Zenon
  <2> QED BY <2>2, <2>4, ConcatProperties
<1> QED
  BY <1>4, <1>5, <1>6, <1>7 DEF Editor

\* A search leaves the lines alone and changes only what is visible.
LEMMA FilterStep ==
  ASSUME TypeOK, filter_results
  PROVE  /\ results' \in Seq(Result) /\ Len(results') = Len(results)
         /\ \A i \in 1..Len(results) :
              /\ results'[i].wcs_value = results[i].wcs_value
              /\ results'[i].visible \in Matches(results[i].wcs_value)
<1>1. results \in Seq(Result) /\ Len(results) \in Nat
  BY DEF TypeOK
<1>2. DOMAIN results = 1..Len(results) /\ \A i \in 1..Len(results) :
        results[i] \in Result
  BY <1>1
<1>3. PICK visible \in [1..Len(results) -> BOOLEAN] :
        /\ \A i \in 1..Len(results) :
             visible[i] \in Matches(results[i].wcs_value)
        /\ results' = [i \in 1..Len(results) |->
                         [results[i] EXCEPT !.visible = visible[i]]]
  BY <1>2, Zenon DEF filter_results
<1>4. \A i \in 1..Len(results) :
        /\ results'[i] \in Result
        /\ results'[i].wcs_value = results[i].wcs_value
        /\ results'[i].visible = visible[i]
  BY <1>2, <1>3 DEF Result
<1>5. results' \in Seq(Result) /\ Len(results') = Len(results)
  BY <1>1, <1>3, <1>4
<1> QED
  BY <1>3, <1>4, <1>5

\* A search takes bytes for its keywords and adds no result.
LEMMA SearchStep ==
  ASSUME TypeOK, ArrayFits, Get \/ Refine
  PROVE  /\ results' \in Seq(Result) /\ keywords' \in Seq(Seq(Byte))
         /\ ArrayFits'
<1>1. filter_results /\ UNCHANGED space
  BY DEF Get, Refine
<1>2. keywords' \in Seq(Seq(Byte))
  <2>1. \A q \in Queries : Tokens(q) \in Seq(Seq(Byte))
    BY TextAssumption, TokensType
  <2>2. \A l \in KeywordLists : l \in Seq(Seq(Byte))
    BY TextAssumption
  <2> QED BY <2>1, <2>2 DEF Get, Refine
<1> QED
  BY <1>1, <1>2, FilterStep DEF ArrayFits

\* The three invariants together are kept by every step.
LEMMA TypeStep ==
  TypeOK /\ BufferTerminated /\ ArrayFits /\ [Next]_vars
    => TypeOK' /\ BufferTerminated' /\ ArrayFits'
<1> SUFFICES ASSUME TypeOK, BufferTerminated, ArrayFits, [Next]_vars
             PROVE  TypeOK' /\ BufferTerminated' /\ ArrayFits'
  OBVIOUS
<1>1. CASE ParseAdd
  BY <1>1 DEF ParseAdd, TypeOK, BufferTerminated, ArrayFits, reading, sums
<1>2. CASE ReadLine
  BY <1>2, ReadLineStep
<1>3. CASE LoadEnd
  <2>1. CKSUM_Final(crc, len) \in Word
    BY DEF CKSUM_Final, Word
  <2> QED
    BY <1>3, <2>1
    DEF LoadEnd, TypeOK, BufferTerminated, ArrayFits, reading
<1>4. CASE AddPasswords
  BY <1>4, AddPasswordsStep
<1>5. CASE Dump
  BY <1>5, DumpStep
  DEF Dump, TypeOK, BufferTerminated, ArrayFits, reading, sums
<1>6. CASE Editor
  <2>1. tmp' \in Seq(Byte) /\ pc' = "edited"
        /\ UNCHANGED <<session, reading, sums, keywords>>
    BY <1>6, EditorStep DEF Editor
  <2> QED BY <2>1 DEF TypeOK, BufferTerminated, ArrayFits, reading, sums
<1>7. CASE HasChanged
  BY <1>7 DEF HasChanged, TypeOK, BufferTerminated, ArrayFits, Word
<1>8. CASE NoPasswords
  BY <1>8 DEF NoPasswords, TypeOK, BufferTerminated, ArrayFits, reading, sums
<1>9. CASE Get
  <2>1. pc' = "shown"
        /\ UNCHANGED <<session, fp, wline, crc, len, space, sums, tmp>>
    BY <1>9 DEF Get
  <2> QED BY <1>9, <2>1, SearchStep DEF TypeOK, BufferTerminated, sums
<1>10. CASE Refine
  <2>1. UNCHANGED <<session, pc, fp, wline, crc, len, space, sums, tmp>>
    BY <1>10 DEF Refine
  <2> QED BY <1>10, <2>1, SearchStep DEF TypeOK, BufferTerminated, sums
<1>11. CASE UNCHANGED vars
  BY <1>11 DEF vars, TypeOK, BufferTerminated, ArrayFits, reading, sums
<1> QED
  BY <1>1, <1>2, <1>3, <1>4, <1>5, <1>6, <1>7, <1>8, <1>9, <1>10, <1>11
  DEF Next

\* The types: what is read, decoded, typed and written are bytes and characters
\* of the encoding, and no result holds a NUL.
THEOREM TextTypes == Spec => []TypeOK
<1>1. Init => TypeOK /\ BufferTerminated /\ ArrayFits
  BY InitType
<1>2. TypeOK /\ BufferTerminated /\ ArrayFits /\ [Next]_vars
        => (TypeOK /\ BufferTerminated /\ ArrayFits)'
  BY TypeStep
<1> QED
  BY <1>1, <1>2, PTL DEF Spec

\* The static buffer of load_results_fp ends in a NUL, whatever was decoded
\* into it, for any size of the buffer (results.c:230).
THEOREM BuffersTerminated == Spec => []BufferTerminated
<1>1. Init => TypeOK /\ BufferTerminated /\ ArrayFits
  BY InitType
<1>2. TypeOK /\ BufferTerminated /\ ArrayFits /\ [Next]_vars
        => (TypeOK /\ BufferTerminated /\ ArrayFits)'
  BY TypeStep
<1> QED
  BY <1>1, <1>2, PTL DEF Spec

\* No result is stored behind the end of the array, for any first size and any
\* number of results (ARRAY_ADD).
THEOREM ArraysFit == Spec => []ArrayFits
<1>1. Init => TypeOK /\ BufferTerminated /\ ArrayFits
  BY InitType
<1>2. TypeOK /\ BufferTerminated /\ ArrayFits /\ [Next]_vars
        => (TypeOK /\ BufferTerminated /\ ArrayFits)'
  BY TypeStep
<1> QED
  BY <1>1, <1>2, PTL DEF Spec

-----------------------------------------------------------------------------
(* Searching.                                                              *)

LowerCase(w) == [i \in DOMAIN w |-> towlower(w[i])]

OccursIn(k, w) == \E i \in 1..(Len(w) - Len(k) + 1) :
                    SubSeq(w, i, i + Len(k) - 1) = k

\* Only the NUL is the NUL in lower case.
LEMMA LowerType == towlower(NUL) = 0 /\ \A c \in Char : towlower(c) \in Nat \ {0}
<1>1. towlower(NUL) = 0
  BY DEF towlower, NUL
<1>2. \A c \in Char : c \in Nat /\ c # 0
  BY DEF Char
<1>3. \A c \in Nat : c # 0 => towlower(c) \in Nat \ {0}
  BY DEF towlower
<1> QED
  BY <1>1, <1>2, <1>3

\* A string occurs at i when its characters follow one another from there.
LEMMA OccursAt ==
  ASSUME NEW w \in Seq(Char), NEW k \in Seq(Char)
  PROVE  OccursIn(LowerCase(k), LowerCase(w)) <=>
           \E i \in 1..(Len(w) + 1) :
             /\ i + Len(k) <= Len(w) + 1
             /\ \A m \in 1..Len(k) : towlower(w[i + m - 1]) = towlower(k[m])
<1> DEFINE u == LowerCase(w)
           v == LowerCase(k)
<1>1. /\ u \in Seq(Nat) /\ Len(u) = Len(w)
      /\ \A i \in 1..Len(w) : u[i] = towlower(w[i])
      /\ v \in Seq(Nat) /\ Len(v) = Len(k)
      /\ \A i \in 1..Len(k) : v[i] = towlower(k[i])
  <2>1. ASSUME NEW x \in Seq(Char)
        PROVE  /\ LowerCase(x) \in Seq(Nat) /\ Len(LowerCase(x)) = Len(x)
               /\ \A i \in 1..Len(x) : LowerCase(x)[i] = towlower(x[i])
    <3>1. DOMAIN x = 1..Len(x) /\ Len(x) \in Nat
      OBVIOUS
    <3>2. \A i \in 1..Len(x) : towlower(x[i]) \in Nat
      BY LowerType
    <3> QED BY <3>1, <3>2 DEF LowerCase
  <2> QED BY <2>1
<1>2. Len(w) \in Nat /\ Len(k) \in Nat
  OBVIOUS
<1> HIDE DEF u, v
<1>3. ASSUME NEW i \in 1..(Len(w) + 1), i + Len(k) <= Len(w) + 1
      PROVE  SubSeq(u, i, i + Len(k) - 1) = v <=>
               \A m \in 1..Len(k) : towlower(w[i + m - 1]) = towlower(k[m])
  <2> DEFINE x == SubSeq(u, i, i + Len(k) - 1)
  <2>1. /\ i \in Int /\ i + Len(k) - 1 \in Int
        /\ \A m \in i..(i + Len(k) - 1) : m \in 1..Len(w)
        /\ (i + Len(k) - 1) - i + 1 = Len(k)
        /\ (IF i <= i + Len(k) - 1 THEN (i + Len(k) - 1) - i + 1 ELSE 0) = Len(k)
        /\ \A m \in 1..Len(k) : i + m - 1 \in 1..Len(w)
    BY <1>2, <1>3
  <2>2. \A m \in i..(i + Len(k) - 1) : u[m] \in Nat
    BY <1>1, <2>1
  <2>3. /\ x \in Seq(Nat)
        /\ Len(x) = IF i <= i + Len(k) - 1 THEN (i + Len(k) - 1) - i + 1 ELSE 0
        /\ \A m \in 1..((i + Len(k) - 1) - i + 1) : x[m] = u[i + m - 1]
    BY <2>1, <2>2, SubSeqProperties
  <2>4. Len(x) = Len(k) /\ \A m \in 1..Len(k) : x[m] = u[i + m - 1]
    BY <2>1, <2>3, Zenon
  <2> HIDE DEF x
  <2>5. x = v <=> \A m \in 1..Len(k) : x[m] = v[m]
    <3>1. ASSUME \A m \in 1..Len(k) : x[m] = v[m] PROVE x = v
      BY <1>1, <2>3, <2>4, <3>1, SeqEqual
    <3> QED BY <3>1
  <2>6. \A m \in 1..Len(k) :
          /\ x[m] = towlower(w[i + m - 1]) /\ v[m] = towlower(k[m])
    BY <1>1, <2>1, <2>4
  <2>7. x = v <=> \A m \in 1..Len(k) : towlower(w[i + m - 1]) = towlower(k[m])
    BY <2>5, <2>6
  <2> QED BY <2>7 DEF x
<1>4. \A i \in Int : i \in 1..(Len(w) - Len(k) + 1) <=>
                       i \in 1..(Len(w) + 1) /\ i + Len(k) <= Len(w) + 1
  BY <1>2
<1>5. OccursIn(v, u) <=> \E i \in 1..(Len(w) - Len(k) + 1) :
                           SubSeq(u, i, i + Len(k) - 1) = v
  BY <1>1 DEF OccursIn
<1>6. \A i \in 1..(Len(w) - Len(k) + 1) : i \in Int
  BY <1>2
<1>7. \A i \in 1..(Len(w) + 1) : i \in Int
  BY <1>2
<1>8. OccursIn(v, u) <=>
        \E i \in 1..(Len(w) + 1) :
          /\ i + Len(k) <= Len(w) + 1
          /\ \A m \in 1..Len(k) : towlower(w[i + m - 1]) = towlower(k[m])
  BY <1>3, <1>4, <1>5, <1>6, <1>7
<1> QED
  BY <1>8 DEF u, v

\* Where the first character is the same, wcsncasecmp finds the others the same
\* exactly when they all are there: the NUL of s is no character of find.
LEMMA SameFromExact ==
  ASSUME NEW w \in Seq(Char), NEW k \in Seq(Char), k # <<>>,
         NEW i \in 1..Len(w)
  PROVE  /\ towlower(w[i]) = towlower(k[1])
         /\ SameFrom(w, i + 1, k, 2, Len(k) - 1)
         <=> /\ i + Len(k) <= Len(w) + 1
             /\ \A m \in 1..Len(k) : towlower(w[i + m - 1]) = towlower(k[m])
<1>1. /\ Len(w) \in Nat /\ Len(k) \in Nat /\ Len(k) >= 1 /\ i \in Nat
      /\ \A j \in 1..Len(w) : w[j] \in Char
      /\ \A j \in 1..Len(k) : k[j] \in Char
  OBVIOUS
<1>2. /\ \A j \in 1..Len(w) : At(w, j) = w[j] /\ At(w, j) # NUL
      /\ \A j \in 1..Len(k) : At(k, j) = k[j]
      /\ At(w, Len(w) + 1) = NUL
  <2>1. \A c \in Char : c # NUL
    BY DEF Char, NUL
  <2> QED BY <1>1, <2>1 DEF At
<1> DEFINE Before(m) == \A j \in 0..(m - 1) : At(w, i + 1 + j) # NUL
           Equal(m)  == towlower(At(w, i + 1 + m)) = towlower(At(k, 2 + m))
<1>3. SameFrom(w, i + 1, k, 2, Len(k) - 1) <=>
        \A m \in 0..(Len(k) - 1 - 1) : Before(m) => Equal(m)
  BY Zenon DEF SameFrom
<1>4. ASSUME NEW m \in 0..(Len(k) - 1 - 1), i + 1 + m <= Len(w) + 1
      PROVE  Before(m)
  <2>1. \A j \in 0..(m - 1) : i + 1 + j \in 1..Len(w)
    BY <1>1, <1>4
  <2> QED BY <1>2, <2>1
<1>5. ASSUME towlower(w[i]) = towlower(k[1]),
             SameFrom(w, i + 1, k, 2, Len(k) - 1)
      PROVE  /\ i + Len(k) <= Len(w) + 1
             /\ \A m \in 1..Len(k) : towlower(w[i + m - 1]) = towlower(k[m])
  <2>1. i + Len(k) <= Len(w) + 1
    <3>1. SUFFICES ASSUME ~(i + Len(k) <= Len(w) + 1) PROVE FALSE
      OBVIOUS
    <3> DEFINE m == Len(w) - i
    <3>2. /\ m \in 0..(Len(k) - 1 - 1) /\ i + 1 + m = Len(w) + 1
          /\ i + 1 + m <= Len(w) + 1 /\ 2 + m \in 1..Len(k)
      BY <1>1, <3>1
    <3> HIDE DEF m
    <3>3. Equal(m)
      <4> HIDE DEF Before, Equal
      <4> QED BY <1>3, <1>4, <1>5, <3>2
    <3>4. At(w, i + 1 + m) = NUL /\ At(k, 2 + m) \in Char
      BY <1>1, <1>2, <3>2
    <3> QED BY <3>3, <3>4, LowerType
  <2>2. ASSUME NEW m \in 1..Len(k)
        PROVE  towlower(w[i + m - 1]) = towlower(k[m])
    <3>1. CASE m = 1
      <4>1. i + 1 - 1 = i
        BY <1>1
      <4> QED BY <1>5, <3>1, <4>1
    <3>2. CASE m # 1
      <4> DEFINE n == m - 2
      <4>1. /\ n \in 0..(Len(k) - 1 - 1) /\ i + 1 + n <= Len(w) + 1
            /\ i + 1 + n = i + m - 1 /\ 2 + n = m /\ i + m - 1 \in 1..Len(w)
        BY <1>1, <2>1, <3>2
      <4> HIDE DEF n
      <4>2. Equal(n)
        <5> HIDE DEF Before, Equal
        <5> QED BY <1>3, <1>4, <1>5, <4>1
      <4> QED BY <1>2, <4>1, <4>2
    <3> QED BY <3>1, <3>2
  <2> QED BY <2>1, <2>2
<1>6. ASSUME i + Len(k) <= Len(w) + 1,
             \A m \in 1..Len(k) : towlower(w[i + m - 1]) = towlower(k[m])
      PROVE  /\ towlower(w[i]) = towlower(k[1])
             /\ SameFrom(w, i + 1, k, 2, Len(k) - 1)
  <2>1. towlower(w[i]) = towlower(k[1])
    <3>1. 1 \in 1..Len(k) /\ i + 1 - 1 = i
      BY <1>1
    <3> QED BY <1>6, <3>1
  <2>2. ASSUME NEW m \in 0..(Len(k) - 1 - 1)
        PROVE  Equal(m)
    <3>1. /\ m + 2 \in 1..Len(k) /\ i + (m + 2) - 1 = i + 1 + m
          /\ i + 1 + m \in 1..Len(w) /\ m + 2 = 2 + m
      BY <1>1, <1>6
    <3> QED BY <1>2, <1>6, <3>1
  <2> HIDE DEF Before, Equal
  <2> QED BY <1>3, <2>1, <2>2
<1> QED
  BY <1>5, <1>6

\* wcscasestr finds a string in a line exactly when it occurs in it, in
\* capitals or not.
LEMMA WcscasestrExact ==
  ASSUME NEW w \in Seq(Char), NEW k \in Seq(Char)
  PROVE  wcscasestr(w, k) <=> OccursIn(LowerCase(k), LowerCase(w))
<1> DEFINE Fits(i) ==
             /\ i + Len(k) <= Len(w) + 1
             /\ \A m \in 1..Len(k) : towlower(w[i + m - 1]) = towlower(k[m])
           Starts(i) == /\ towlower(w[i]) = towlower(k[1])
                        /\ SameFrom(w, i + 1, k, 2, Len(k) - 1)
<1>1. OccursIn(LowerCase(k), LowerCase(w)) <=>
        \E i \in 1..(Len(w) + 1) : Fits(i)
  BY OccursAt
<1>2. Len(w) \in Nat /\ Len(k) \in Nat /\ DOMAIN w = 1..Len(w)
  OBVIOUS
<1>3. CASE k = <<>>
  <2>1. 1 \in 1..(Len(w) + 1) /\ Fits(1)
    BY <1>2, <1>3
  <2> HIDE DEF Fits
  <2> QED BY <1>1, <1>3, <2>1 DEF wcscasestr
<1>4. CASE k # <<>>
  <2>1. \A i \in 1..Len(w) : Starts(i) <=> Fits(i)
    BY <1>4, SameFromExact
  <2>2. wcscasestr(w, k) <=> \E i \in 1..Len(w) : Starts(i)
    BY <1>2, <1>4, Zenon DEF wcscasestr
  <2>3. Len(k) >= 1
    BY <1>4
  <2>4. \A i \in 1..(Len(w) + 1) : Fits(i) => i \in 1..Len(w)
    BY <1>2, <2>3
  <2>5. \A i \in 1..Len(w) : i \in 1..(Len(w) + 1)
    BY <1>2
  <2> HIDE DEF Fits, Starts
  <2> QED BY <1>1, <2>1, <2>2, <2>4, <2>5
<1> QED
  BY <1>3, <1>4

\* MatchExact in the words of the lemmas above.
ShownExactly(rs, ks) ==
  \A i \in DOMAIN rs :
    rs[i].visible <=>
      /\ At(rs[i].wcs_value, 1) # HASH
      /\ \A k \in DOMAIN ks :
           OccursIn(LowerCase(Decoded(ks[k])), LowerCase(rs[i].wcs_value))

\* The two say the same.
LEMMA MatchIsShown ==
  MatchExact <=>
    (pc = "shown" /\ (\A k \in DOMAIN keywords : KeywordDefined(keywords[k]))
       => ShownExactly(results, keywords))
<1>1. \A i \in DOMAIN results : wcs_values[i] = results[i].wcs_value
  BY DEF wcs_values
<1>2. ASSUME NEW i \in DOMAIN results, NEW k \in DOMAIN keywords
      PROVE  OccursIn(LowerCase(Decoded(keywords[k])),
                      LowerCase(results[i].wcs_value))
             <=> \E j \in 1..(Len(LowerCase(wcs_values[i]))
                              - Len(LowerCase(Decoded(keywords[k]))) + 1) :
                   SubSeq(LowerCase(wcs_values[i]), j,
                          j + Len(LowerCase(Decoded(keywords[k]))) - 1)
                     = LowerCase(Decoded(keywords[k]))
  BY <1>1, Zenon DEF OccursIn
<1> QED
  BY <1>1, <1>2, Zenon DEF MatchExact, ShownExactly, LowerCase

\* Every search shows the lines that MatchExact asks for.
LEMMA MatchStep ==
  ASSUME TypeOK, ArrayFits, Get \/ Refine
  PROVE  MatchExact'
<1> SUFFICES ASSUME \A k \in DOMAIN keywords' : KeywordDefined(keywords'[k])
             PROVE  MatchExact'
  BY DEF MatchExact
<1>1. /\ results' \in Seq(Result) /\ Len(results') = Len(results)
      /\ \A i \in 1..Len(results) :
           /\ results'[i].wcs_value = results[i].wcs_value
           /\ results'[i].visible \in Matches(results[i].wcs_value)
  <2>1. filter_results
    BY DEF Get, Refine
  <2> QED BY <2>1, FilterStep
<1>2. /\ \A k \in DOMAIN keywords' : keywords'[k] \in Seq(Byte)
      /\ DOMAIN results' = 1..Len(results)
      /\ \A i \in 1..Len(results) : results'[i].wcs_value \in Seq(Char)
  <2>1. keywords' \in Seq(Seq(Byte))
    BY SearchStep
  <2>2. \A i \in 1..Len(results) : results'[i] \in Result
    BY <1>1
  <2> QED BY <1>1, <2>1, <2>2 DEF Result
<1> DEFINE Shown(i) ==
             /\ At(results'[i].wcs_value, 1) # HASH
             /\ \A k \in DOMAIN keywords' :
                  OccursIn(LowerCase(Decoded(keywords'[k])),
                           LowerCase(results'[i].wcs_value))
<1>3. ASSUME NEW i \in 1..Len(results)
      PROVE  results'[i].visible <=> Shown(i)
  <2> DEFINE line == results'[i].wcs_value
             Found(k) == wcscasestr(line, Decoded(keywords'[k]))
  <2>1. \A k \in DOMAIN keywords' :
          Found(k) <=> OccursIn(LowerCase(Decoded(keywords'[k])),
                                LowerCase(line))
    <3> TAKE k \in DOMAIN keywords'
    <3>1. line \in Seq(Char) /\ Decoded(keywords'[k]) \in Seq(Char)
      BY <1>2, DecodedType
    <3> QED BY <3>1, WcscasestrExact
  <2>2. results'[i].visible \in Matches(line)
    BY <1>1
  <2>3. Matches(line) =
          IF At(line, 1) = HASH \/ \E k \in DOMAIN keywords' : ~Found(k)
          THEN {FALSE} ELSE {TRUE}
    BY DEF Matches
  <2> HIDE DEF line, Found
  <2>4. results'[i].visible <=>
          At(line, 1) # HASH /\ \A k \in DOMAIN keywords' : Found(k)
    <3>1. CASE At(line, 1) = HASH \/ \E k \in DOMAIN keywords' : ~Found(k)
      <4>1. results'[i].visible = FALSE
        BY <2>2, <2>3, <3>1, Zenon
      <4> QED BY <3>1, <4>1
    <3>2. CASE ~(At(line, 1) = HASH \/ \E k \in DOMAIN keywords' : ~Found(k))
      <4>1. results'[i].visible = TRUE
        BY <2>2, <2>3, <3>2, Zenon
      <4> QED BY <3>2, <4>1
    <3> QED BY <3>1, <3>2
  <2> QED BY <2>1, <2>4 DEF line
<1>4. ShownExactly(results', keywords')
  BY <1>2, <1>3, Zenon DEF ShownExactly
<1>5. (MatchExact <=>
         (pc = "shown"
            /\ (\A k \in DOMAIN keywords : KeywordDefined(keywords[k]))
              => ShownExactly(results, keywords)))'
  BY MatchIsShown, PTL
<1> QED
  BY <1>4, <1>5

\* What is shown are the lines that are no comment and contain every keyword,
\* for any lines, keywords and length of a keyword (line_matches, wcscasestr).
THEOREM MatchesExact == Spec => []MatchExact
<1> DEFINE Inv == TypeOK /\ BufferTerminated /\ ArrayFits /\ MatchExact
<1>1. Init => Inv
  BY InitType DEF Init, MatchExact
<1>2. Inv /\ [Next]_vars => Inv'
  <2> SUFFICES ASSUME Inv, [Next]_vars PROVE MatchExact'
    BY TypeStep
  <2>1. CASE Get \/ Refine
    BY <2>1, MatchStep
  <2>2. CASE UNCHANGED vars
    <3>1. UNCHANGED <<pc, results, keywords>>
      BY <2>2 DEF vars, reading
    <3>2. (MatchExact <=>
             (pc = "shown"
                /\ (\A k \in DOMAIN keywords : KeywordDefined(keywords[k]))
                  => ShownExactly(results, keywords)))'
      BY MatchIsShown, PTL
    <3> QED BY <3>1, <3>2, MatchIsShown, Zenon
  <2>3. CASE pc' # "shown"
    BY <2>3 DEF MatchExact
  <2>4. CASE ParseAdd \/ ReadLine \/ LoadEnd \/ AddPasswords \/ Dump
               \/ Editor \/ HasChanged \/ NoPasswords
    <3>1. pc' # "shown"
      BY <2>4 DEF ParseAdd, ReadLine, LoadEnd, AddPasswords, Dump, Editor,
                  HasChanged, NoPasswords
    <3> QED BY <2>3, <3>1
  <2> QED BY <2>1, <2>2, <2>4 DEF Next
<1>3. Inv => MatchExact
  OBVIOUS
<1> QED
  BY <1>1, <1>2, <1>3, PTL DEF Spec

-----------------------------------------------------------------------------
(* The prefix of `mdp add'.                                                *)

\* After cmd_parse_add, the prefix decodes.
JoinInv ==
  session.command = "add" /\ session.argv # <<>> /\ pc \in {"load", "loaded"}
    => Decodes(join_list(session.argv))

\* What a line of `mdp add' is written as.
Written(p) ==
  (IF session.argv = <<>> THEN <<>>
   ELSE Append(FlattenSeq(Spaced(session.argv)), TAB)) \o Encoded(p)

\* An added line is written as the words, a tabulation and the password.
LEMMA AddedLineWritten ==
  ASSUME TypeOK, session.argv # <<>> => Decodes(join_list(session.argv)),
         NEW p \in Seq(Char)
  PROVE  Encoded(AddedLine(p)) = Written(p)
<1>1. session.argv \in Seq(Seq(Byte)) /\ Encoded(p) \in Seq(Byte)
  BY EncodedAppend DEF TypeOK, Given
<1>2. CASE session.argv = <<>>
  <2>1. \A s \in Seq(Byte) : <<>> \o s = s
    BY ConcatEmptySeq
  <2> QED BY <1>1, <1>2, <2>1, Zenon DEF AddedLine, Written
<1>3. CASE session.argv # <<>>
  <2> DEFINE joined == FlattenSeq(Spaced(session.argv))
  <2>1. joined \in Seq(Byte) /\ joined = join_list(session.argv)
    BY <1>1, JoinIsWhole, JoinType
  <2>2. Encoded(Prefix) = joined
    BY <1>3, <2>1, Zenon DEF Prefix, Decodes
  <2> HIDE DEF joined
  <2>3. Encoded(<<TAB>>) = <<TAB>>
    <3>1. TAB \in Char /\ <<>> \in Seq(Char) /\ Append(<<>>, TAB) = <<TAB>>
      BY DEF TAB, Char
    <3>2. EncodedChar(TAB) = <<TAB>> /\ <<>> \o <<TAB>> = <<TAB>>
      BY DEF EncodedChar, TAB
    <3> QED BY <3>1, <3>2, EncodedAppend, Zenon
  <2>4. Prefix \in Seq(Char) /\ <<TAB>> \in Seq(Char)
        /\ Prefix \o <<TAB>> \in Seq(Char)
    <3>1. <<TAB>> \in Seq(Char)
      BY DEF TAB, Char
    <3> QED BY <3>1, PrefixType, ConcatProperties
  <2>5. Encoded(Prefix \o <<TAB>>) = joined \o <<TAB>>
    BY <2>2, <2>3, <2>4, EncodedConcat
  <2>6. Encoded((Prefix \o <<TAB>>) \o p) = (joined \o <<TAB>>) \o Encoded(p)
    BY <2>4, <2>5, EncodedConcat
  <2>7. Append(joined, TAB) = joined \o <<TAB>>
    BY <2>1, AppendIsConcat DEF TAB, Byte
  <2> QED
    BY <1>3, <2>6, <2>7, Zenon DEF AddedLine, wcsjoin, Written, joined
<1> QED
  BY <1>2, <1>3

\* The passwords are added behind the lines, each one after the whole prefix.
LEMMA PrefixStep ==
  ASSUME TypeOK, JoinInv, AddPasswords
  PROVE  PrefixWhole'
<1> DEFINE count == Len(session.passwords)
           new == [i \in DOMAIN session.passwords |->
                     result_new(AddedLine(session.passwords[i]))]
<1>1. /\ results' = results \o new
      /\ pc = "loaded" /\ session.command = "add" /\ UNCHANGED session
  BY DEF AddPasswords, AddedLine
<1>2. /\ results \in Seq(Result) /\ count \in Nat
      /\ DOMAIN session.passwords = 1..count
      /\ \A i \in 1..count : session.passwords[i] \in Seq(Char)
  BY DEF TypeOK, Given
<1>3. new \in Seq(Result) /\ Len(new) = count
  <2>1. \A i \in 1..count : result_new(AddedLine(session.passwords[i])) \in Result
    BY <1>2, AddedType, NewResultType
  <2>2. new \in [1..count -> Result]
    BY <1>2, <2>1
  <2> HIDE DEF new, count
  <2> QED BY <1>2, <2>2
<1>4. \A i \in 1..count : new[i].wcs_value = AddedLine(session.passwords[i])
  BY <1>2 DEF result_new
<1> HIDE DEF new, count
<1>5. /\ DOMAIN results' = 1..(Len(results) + count)
      /\ Len(results') = Len(results) + count
      /\ \A i \in 1..count : results'[Len(results) + i] = new[i]
      /\ Len(results) \in Nat
  <2>1. /\ Len(results \o new) = Len(results) + Len(new)
        /\ results \o new \in Seq(Result)
        /\ \A i \in 1..Len(new) : (results \o new)[Len(results) + i] = new[i]
    <3>1. \A s, u \in Seq(Result) :
            /\ Len(s \o u) = Len(s) + Len(u) /\ s \o u \in Seq(Result)
            /\ \A i \in 1..Len(u) : (s \o u)[Len(s) + i] = u[i]
      OBVIOUS
    <3> QED BY <1>2, <1>3, <3>1, Zenon
  <2>2. \A s \in Seq(Result) : DOMAIN s = 1..Len(s) /\ Len(s) \in Nat
    OBVIOUS
  <2> QED BY <1>1, <1>2, <1>3, <2>1, <2>2, Zenon
<1>6. \A i \in 1..count : /\ Len(results') - count + i \in DOMAIN results'
                          /\ Len(results') - count + i = Len(results) + i
  BY <1>2, <1>5
<1>7. \A i \in 1..count :
        wcs_values'[Len(results') - count + i]
          = AddedLine(session.passwords[i])
  BY <1>4, <1>5, <1>6 DEF wcs_values
<1>8. \A i \in 1..count :
        Encoded(AddedLine(session.passwords[i])) = Written(session.passwords[i])
  <2>1. session.argv # <<>> => Decodes(join_list(session.argv))
    BY <1>1 DEF JoinInv
  <2> QED BY <1>2, <2>1, AddedLineWritten
<1>9. \A i \in 1..count :
        Encoded(wcs_values'[Len(results') - count + i])
          = Written(session.passwords[i])
  BY <1>7, <1>8, Zenon
<1> QED
  BY <1>1, <1>9, Zenon DEF PrefixWhole, Written, Spaced, count

\* Each password of `mdp add' is in the file after all the words of its prefix,
\* for any words and passwords: join_list and strlcat cut nothing off.
THEOREM PrefixesWhole == Spec => []PrefixWhole
<1> DEFINE Inv == /\ TypeOK /\ BufferTerminated /\ ArrayFits
                  /\ JoinInv /\ PrefixWhole
<1>1. Init => Inv
  <2>1. Init => JoinInv
    BY DEF Init, JoinInv
  <2>2. Init => PrefixWhole
    BY DEF Init, PrefixWhole
  <2> QED BY <2>1, <2>2, InitType
<1>2. Inv /\ [Next]_vars => Inv'
  <2> SUFFICES ASSUME Inv, [Next]_vars PROVE JoinInv' /\ PrefixWhole'
    BY TypeStep
  <2>1. JoinInv'
    <3>1. CASE ParseAdd
      BY <3>1 DEF ParseAdd, JoinInv
    <3>2. CASE UNCHANGED session /\ pc' \notin {"load", "loaded"}
      BY <3>2 DEF JoinInv
    <3>3. CASE UNCHANGED session /\ pc \in {"load", "loaded"}
      BY <3>3 DEF JoinInv
    <3>4. CASE UNCHANGED <<session, pc>>
      BY <3>4 DEF JoinInv
    <3>5. ReadLine \/ UNCHANGED vars => UNCHANGED <<session, pc>>
      BY DEF ReadLine, vars
    <3>6. LoadEnd => /\ UNCHANGED session
                     /\ pc \in {"load", "loaded"} \/ pc' \notin {"load", "loaded"}
      BY DEF LoadEnd
    <3>7. AddPasswords \/ Dump \/ Editor \/ HasChanged \/ NoPasswords \/ Get
            => UNCHANGED session /\ pc' \notin {"load", "loaded"}
      BY DEF AddPasswords, Dump, Editor, HasChanged, NoPasswords, Get
    <3>8. Refine => UNCHANGED <<session, pc>>
      BY DEF Refine
    <3> QED
      BY <3>1, <3>2, <3>3, <3>4, <3>5, <3>6, <3>7, <3>8 DEF Next
  <2>2. PrefixWhole'
    <3>1. CASE AddPasswords
      BY <3>1, PrefixStep
    <3>2. CASE UNCHANGED vars
      <4>1. UNCHANGED <<session, pc, results>>
        BY <3>2 DEF vars, reading
      <4> QED BY <4>1 DEF PrefixWhole, wcs_values
    <3>3. CASE pc' # "added"
      BY <3>3 DEF PrefixWhole
    <3>4. CASE ParseAdd \/ ReadLine \/ LoadEnd \/ Dump \/ Editor
                 \/ HasChanged \/ NoPasswords \/ Get \/ Refine
      <4>1. pc' # "added"
        BY <3>4 DEF ParseAdd, ReadLine, LoadEnd, Dump, Editor, HasChanged,
                    NoPasswords, Get, Refine
      <4> QED BY <3>3, <4>1
    <3> QED BY <3>1, <3>2, <3>4 DEF Next
  <2> QED BY <2>1, <2>2
<1>3. Inv => PrefixWhole
  OBVIOUS
<1> QED
  BY <1>1, <1>2, <1>3, PTL DEF Spec

=============================================================================
