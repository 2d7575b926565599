--------------------------- MODULE FaithfulProofs ----------------------------
(***************************************************************************)
(* Proofs that TextFile loads and dumps texts faithfully, for texts of any *)
(* length, over a buffer of any size.                                      *)
(***************************************************************************)
EXTENDS TextFileProofs

-----------------------------------------------------------------------------
(* Pieces, from one position on.                                           *)

\* Without positions there are no pieces.
LEMMA PiecesNone ==
  ASSUME NEW next, NEW piece, DOMAIN next = {}
  PROVE  Pieces(0, next, piece) = <<>>
<1>0. 0 \in Nat
  OBVIOUS
<1>1. \A i \in DOMAIN next : i \in 1..0 /\ next[i] \in (i + 1)..(0 + 1)
  OBVIOUS
<1>2. PICK from : /\ Follows(from, 0, next, piece)
                  /\ Pieces(0, next, piece) = from[1]
  BY <1>0, <1>1, PiecesFrom
<1>3. 1 \in 1..(0 + 1) /\ 1 \notin DOMAIN next
  OBVIOUS
<1> QED
  BY <1>2, <1>3, Zenon DEF Follows

\* The positions of a text after its first k are the positions of another.
Shifted(n, next, piece, k, m, next2, piece2) ==
  /\ n \in Nat /\ k \in Nat /\ m \in Nat /\ n = k + m
  /\ 1 \in DOMAIN next /\ next[1] = k + 1
  /\ \A i \in DOMAIN next : i \in 1..n /\ next[i] \in (i + 1)..(n + 1)
  /\ \A i \in DOMAIN next2 : i \in 1..m /\ next2[i] \in (i + 1)..(m + 1)
  /\ \A i \in 1..m :
       /\ i \in DOMAIN next2 <=> i + k \in DOMAIN next
       /\ i \in DOMAIN next2 => /\ next[i + k] = next2[i] + k
                                /\ piece[i + k] = piece2[i]

\* The first piece, and the pieces of what comes after.
LEMMA PiecesStep ==
  ASSUME NEW n, NEW next, NEW piece, NEW k, NEW m, NEW next2, NEW piece2,
         Shifted(n, next, piece, k, m, next2, piece2)
  PROVE  Pieces(n, next, piece) = piece[1] \o Pieces(m, next2, piece2)
<1>0. n \in Nat /\ k \in Nat /\ m \in Nat
  BY DEF Shifted
<1>1. /\ \A i \in DOMAIN next : i \in 1..n /\ next[i] \in (i + 1)..(n + 1)
      /\ \A i \in DOMAIN next2 : i \in 1..m /\ next2[i] \in (i + 1)..(m + 1)
      /\ \A i \in 1..m :
           /\ i \in DOMAIN next2 <=> i + k \in DOMAIN next
           /\ i \in DOMAIN next2 => /\ next[i + k] = next2[i] + k
                                    /\ piece[i + k] = piece2[i]
      /\ n = k + m /\ 1 \in DOMAIN next /\ next[1] = k + 1
  BY DEF Shifted
<1>2. PICK f : Follows(f, n, next, piece) /\ Pieces(n, next, piece) = f[1]
  BY <1>0, <1>1, PiecesFrom
<1>3. PICK g : Follows(g, m, next2, piece2) /\ Pieces(m, next2, piece2) = g[1]
  BY <1>0, <1>1, PiecesFrom
<1>4. \A i \in 1..(n + 1) :
        f[i] = IF i \in DOMAIN next THEN piece[i] \o f[next[i]] ELSE <<>>
  BY <1>2 DEF Follows
<1>5. \A i \in 1..(m + 1) :
        g[i] = IF i \in DOMAIN next2 THEN piece2[i] \o g[next2[i]] ELSE <<>>
  BY <1>3 DEF Follows
<1> DEFINE Same(i) == f[i + k] = g[i]
           B == {i \in 1..(m + 1) : ~Same(i)}
<1>6. B = {}
  <2>1. SUFFICES ASSUME B # {} PROVE FALSE
    OBVIOUS
  <2>2. /\ B \in SUBSET Nat /\ m + 1 \in Nat
        /\ \A i \in B : i <= m + 1 /\ i \in 1..(m + 1) /\ ~Same(i)
        /\ \A i \in 1..(m + 1) : i \in B <=> ~Same(i)
    BY <1>0
  <2> HIDE DEF B
  <2>3. PICK i \in B : \A j \in B : j <= i
    BY <2>1, <2>2, GreatestNat
  <2>4. /\ i \in 1..(m + 1) /\ i + k \in 1..(n + 1)
    BY <1>0, <1>1, <2>2
  <2>5. CASE i \in DOMAIN next2
    <3>1. /\ i \in 1..m /\ next2[i] \in 1..(m + 1) /\ ~(next2[i] <= i)
      BY <1>0, <1>1, <2>4, <2>5
    <3>2. Same(next2[i])
      <4> HIDE DEF Same
      <4> QED BY <2>2, <2>3, <3>1
    <3>3. /\ i + k \in DOMAIN next /\ next[i + k] = next2[i] + k
          /\ piece[i + k] = piece2[i]
      BY <1>1, <2>5, <3>1
    <3>4. /\ f[i + k] = piece[i + k] \o f[next[i + k]]
          /\ g[i] = piece2[i] \o g[next2[i]]
      BY <1>4, <1>5, <2>4, <2>5, <3>3, Zenon
    <3>5. f[i + k] = g[i]
      BY <3>2, <3>3, <3>4, Zenon
    <3> QED BY <2>2, <3>5
  <2>6. CASE i \notin DOMAIN next2
    <3>1. i + k \notin DOMAIN next
      <4>1. CASE i \in 1..m
        BY <1>1, <2>6, <4>1
      <4>2. CASE i = m + 1
        <5>1. i + k \notin 1..n
          BY <1>0, <1>1, <4>2
        <5> QED BY <1>0, <1>1, <5>1
      <4> QED BY <1>0, <2>4, <4>1, <4>2
    <3>2. f[i + k] = <<>> /\ g[i] = <<>>
      BY <1>4, <1>5, <2>4, <2>6, <3>1, Zenon
    <3>3. f[i + k] = g[i]
      BY <3>2, Zenon
    <3> QED BY <2>2, <3>3
  <2> QED BY <2>5, <2>6
<1>7. f[k + 1] = g[1]
  <2>1. 1 \in 1..(m + 1) /\ 1 + k = k + 1
    BY <1>0
  <2>2. Same(1)
    <3> HIDE DEF Same
    <3> QED BY <1>6, <2>1
  <2> QED BY <2>1, <2>2
<1>8. f[1] = piece[1] \o f[next[1]]
  <2>1. 1 \in 1..(n + 1)
    BY <1>0
  <2> QED BY <1>1, <1>4, <2>1, Zenon
<1> QED
  BY <1>1, <1>2, <1>3, <1>7, <1>8, Zenon

-----------------------------------------------------------------------------
(* Lines.                                                                  *)

\* The new line after position i, or the end of the text.
LineEnd(t, i) == Min({k \in i..Len(t) : t[k] = NL} \cup {Len(t) + 1})

LineNext(t) == [i \in DOMAIN t |-> Min({LineEnd(t, i), Len(t)}) + 1]

LinePiece(t) == [i \in DOMAIN t |-> <<SubSeq(t, i, LineEnd(t, i) - 1)>>]

\* Lines, in these words.
LEMMA LinesArePieces ==
  \A t : Lines(t) = Pieces(Len(t), LineNext(t), LinePiece(t))
  BY Zenon DEF Lines, LineNext, LinePiece, LineEnd

\* The new line after a position is the first one there is.
LEMMA LineEndIs ==
  ASSUME NEW t \in Seq(Byte), NEW i \in 1..Len(t)
  PROVE  /\ LineEnd(t, i) \in i..(Len(t) + 1)
         /\ LineEnd(t, i) <= Len(t) => t[LineEnd(t, i)] = NL
         /\ \A k \in i..Len(t) : t[k] = NL => LineEnd(t, i) <= k
<1> DEFINE S == {k \in i..Len(t) : t[k] = NL} \cup {Len(t) + 1}
<1>1. S \in SUBSET Nat /\ S # {}
  OBVIOUS
<1>2. /\ \A k \in S : k \in i..(Len(t) + 1)
      /\ \A k \in S : k <= Len(t) => t[k] = NL
      /\ \A k \in i..Len(t) : t[k] = NL => k \in S
  OBVIOUS
<1>3. LineEnd(t, i) = Min(S)
  BY Zenon DEF LineEnd
<1> HIDE DEF S
<1>4. Min(S) \in S /\ \A k \in S : Min(S) <= k
  BY <1>1, MinOf
<1> QED
  BY <1>2, <1>3, <1>4

\* No other position is.
LEMMA LineEndUnique ==
  ASSUME NEW t \in Seq(Byte), NEW i \in 1..Len(t), NEW e \in i..(Len(t) + 1),
         e <= Len(t) => t[e] = NL,
         \A k \in i..(e - 1) : t[k] # NL
  PROVE  LineEnd(t, i) = e
<1>1. Len(t) \in Nat
  OBVIOUS
<1>2. /\ LineEnd(t, i) \in i..(Len(t) + 1)
      /\ LineEnd(t, i) <= Len(t) => t[LineEnd(t, i)] = NL
      /\ \A k \in i..Len(t) : t[k] = NL => LineEnd(t, i) <= k
  BY LineEndIs
<1> DEFINE l == LineEnd(t, i)
<1> HIDE DEF l
<1>3. ~(l < e)
  <2>1. SUFFICES ASSUME l < e PROVE FALSE
    OBVIOUS
  <2>2. l \in i..(e - 1) /\ l <= Len(t)
    BY <1>1, <1>2, <2>1 DEF l
  <2> QED BY <1>2, <2>2 DEF l
<1>4. ~(e < l)
  <2>1. SUFFICES ASSUME e < l PROVE FALSE
    OBVIOUS
  <2>2. e \in i..Len(t) /\ e <= Len(t)
    BY <1>1, <1>2, <2>1 DEF l
  <2>3. l <= e
    BY <1>2, <2>2 DEF l
  <2> QED BY <1>1, <1>2, <2>1, <2>3 DEF l
<1> QED
  BY <1>1, <1>2, <1>3, <1>4 DEF l

\* The next line begins behind the new line, or nowhere.
LEMMA LineNextIs ==
  ASSUME NEW t \in Seq(Byte), NEW i \in 1..Len(t)
  PROVE  /\ LineNext(t)[i] = IF LineEnd(t, i) <= Len(t) THEN LineEnd(t, i) + 1
                             ELSE Len(t) + 1
         /\ LineNext(t)[i] \in (i + 1)..(Len(t) + 1)
<1> DEFINE e == LineEnd(t, i)
           S == {e, Len(t)}
<1>1. e \in i..(Len(t) + 1) /\ Len(t) \in Nat /\ e \in Nat
  BY LineEndIs
<1> HIDE DEF e
<1>2. S \in SUBSET Nat /\ S # {} /\ e \in S /\ Len(t) \in S
  BY <1>1
<1>3. \A x \in S : x = e \/ x = Len(t)
  OBVIOUS
<1>4. LineNext(t)[i] = Min(S) + 1
  BY DEF LineNext, e
<1> HIDE DEF S
<1>5. Min(S) \in S /\ Min(S) <= e /\ Min(S) <= Len(t)
  BY <1>2, MinOf
<1>6. Min(S) = IF e <= Len(t) THEN e ELSE Len(t)
  BY <1>1, <1>3, <1>5
<1>7. LineNext(t)[i] = IF e <= Len(t) THEN e + 1 ELSE Len(t) + 1
  BY <1>4, <1>6
<1> QED
  BY <1>1, <1>7 DEF e

\* The sequence r is what is left of s without its first k elements.
Rest(s, r, k) ==
  /\ s \in Seq(Byte) /\ r \in Seq(Byte) /\ k \in Nat
  /\ Len(s) = Len(r) + k /\ \A i \in 1..Len(r) : r[i] = s[i + k]

\* The parts of r are parts of s.
PartsOf(s, r, k) ==
  \A a \in 1..(Len(r) + 1), b \in Int :
    b + 1 \in a..(Len(r) + 1) => SubSeq(r, a, b) = SubSeq(s, a + k, b + k)

\* A part of the rest of a sequence is a part of the sequence.
LEMMA SubSeqShift ==
  ASSUME NEW s, NEW r, NEW k, Rest(s, r, k)
  PROVE  PartsOf(s, r, k)
<1>s. SUFFICES ASSUME NEW a \in 1..(Len(r) + 1), NEW b \in Int,
                      b + 1 \in a..(Len(r) + 1)
               PROVE  SubSeq(r, a, b) = SubSeq(s, a + k, b + k)
  BY DEF PartsOf
<1>0. /\ s \in Seq(Byte) /\ r \in Seq(Byte) /\ k \in Nat
      /\ Len(s) = Len(r) + k /\ \A i \in 1..Len(r) : r[i] = s[i + k]
  BY DEF Rest
<1> DEFINE u == SubSeq(r, a, b)
           v == SubSeq(s, a + k, b + k)
<1>1. /\ a \in Int /\ b \in Int /\ a + k \in Int /\ b + k \in Int
      /\ Len(r) \in Nat /\ (b + k) - (a + k) + 1 = b - a + 1
      /\ \A i \in a..b : i \in 1..Len(r)
      /\ \A i \in (a + k)..(b + k) : i \in 1..Len(s)
      /\ a <= b <=> a + k <= b + k
      /\ ~(a <= b) => b - a + 1 = 0
      /\ b - a + 1 \in Nat
  BY <1>0, <1>s
<1>2. /\ u \in Seq(Byte) /\ Len(u) = b - a + 1
      /\ \A i \in 1..(b - a + 1) : u[i] = r[a + i - 1]
  <2>1. \A i \in a..b : r[i] \in Byte
    BY <1>0, <1>1, ElementOfSeq
  <2> QED BY <1>1, <2>1, SubSeqProperties
<1>3. /\ v \in Seq(Byte) /\ Len(v) = b - a + 1
      /\ \A i \in 1..(b - a + 1) : v[i] = s[(a + k) + i - 1]
  <2>1. \A i \in (a + k)..(b + k) : s[i] \in Byte
    BY <1>0, <1>1
  <2>2. /\ v \in Seq(Byte)
        /\ Len(v) = IF a + k <= b + k THEN (b + k) - (a + k) + 1 ELSE 0
        /\ \A i \in 1..((b + k) - (a + k) + 1) : v[i] = s[(a + k) + i - 1]
    BY <1>1, <2>1, SubSeqProperties
  <2> HIDE DEF v
  <2> QED BY <1>1, <2>2
<1>4. \A i \in 1..(b - a + 1) :
        /\ a + i - 1 \in 1..Len(r) /\ (a + i - 1) + k = (a + k) + i - 1
  BY <1>0, <1>s
<1> HIDE DEF u, v
<1>5. \A i \in 1..Len(u) : u[i] = v[i]
  BY <1>0, <1>2, <1>3, <1>4
<1>6. u = v
  BY <1>2, <1>3, <1>5, SeqEqual
<1> QED
  BY <1>6 DEF u, v

\* The end of the first line, its new line included.
FirstEnd(t) == IF LineEnd(t, 1) <= Len(t) THEN LineEnd(t, 1) ELSE Len(t)

FirstLine(t) == SubSeq(t, 1, LineEnd(t, 1) - 1)

OtherLines(t) == SubSeq(t, FirstEnd(t) + 1, Len(t))

\* The first line is in the text, and the others are what is left of it.
LEMMA FirstLineType ==
  ASSUME NEW t \in Seq(Byte), t # <<>>
  PROVE  /\ LineEnd(t, 1) \in 1..(Len(t) + 1)
         /\ FirstEnd(t) \in 1..Len(t)
         /\ FirstLine(t) \in Seq(Byte) /\ Len(FirstLine(t)) = LineEnd(t, 1) - 1
         /\ \A i \in 1..(LineEnd(t, 1) - 1) : FirstLine(t)[i] = t[i]
         /\ OtherLines(t) \in Seq(Byte)
         /\ Len(t) = Len(OtherLines(t)) + FirstEnd(t)
         /\ \A i \in 1..Len(OtherLines(t)) :
              OtherLines(t)[i] = t[i + FirstEnd(t)]
<1> DEFINE e == LineEnd(t, 1)
           k == FirstEnd(t)
<1>1. Len(t) \in Nat /\ 1 \in 1..Len(t)
  OBVIOUS
<1>2. e \in 1..(Len(t) + 1)
  BY <1>1, LineEndIs
<1>3. k = IF e <= Len(t) THEN e ELSE Len(t)
  BY DEF FirstEnd
<1> HIDE DEF e, k
<1>4. k \in 1..Len(t)
  BY <1>1, <1>2, <1>3
<1>5. \A i \in 1..Len(t) : t[i] \in Byte
  OBVIOUS
<1>6. /\ SubSeq(t, 1, e - 1) \in Seq(Byte) /\ Len(SubSeq(t, 1, e - 1)) = e - 1
      /\ \A i \in 1..(e - 1) : SubSeq(t, 1, e - 1)[i] = t[i]
  <2>1. /\ 1 \in Int /\ e - 1 \in Int /\ (e - 1) - 1 + 1 = e - 1
        /\ (IF 1 <= e - 1 THEN (e - 1) - 1 + 1 ELSE 0) = e - 1
        /\ \A i \in 1..(e - 1) : i \in 1..Len(t) /\ 1 + i - 1 = i
    BY <1>1, <1>2
  <2>2. \A i \in 1..(e - 1) : t[i] \in Byte
    BY <1>5, <2>1
  <2> QED BY <2>1, <2>2, SubSeqProperties
<1>7. /\ SubSeq(t, k + 1, Len(t)) \in Seq(Byte)
      /\ Len(SubSeq(t, k + 1, Len(t))) = Len(t) - k
      /\ \A i \in 1..(Len(t) - k) : SubSeq(t, k + 1, Len(t))[i] = t[i + k]
  <2>1. /\ k + 1 \in Int /\ Len(t) \in Int /\ Len(t) - (k + 1) + 1 = Len(t) - k
        /\ (IF k + 1 <= Len(t) THEN Len(t) - (k + 1) + 1 ELSE 0) = Len(t) - k
        /\ \A i \in (k + 1)..Len(t) : i \in 1..Len(t)
        /\ \A i \in 1..(Len(t) - k) : (k + 1) + i - 1 = i + k
    BY <1>1, <1>4
  <2>2. \A i \in (k + 1)..Len(t) : t[i] \in Byte
    BY <1>5, <2>1
  <2> QED BY <2>1, <2>2, SubSeqProperties
<1>8. Len(t) = (Len(t) - k) + k
  BY <1>1, <1>4
<1> QED
  BY <1>2, <1>4, <1>6, <1>7, <1>8 DEF FirstLine, OtherLines, e, k

\* The lines of a text are the first one and the others.
LEMMA LinesStep ==
  ASSUME NEW t \in Seq(Byte), t # <<>>
  PROVE  Lines(t) = <<FirstLine(t)>> \o Lines(OtherLines(t))
<1> DEFINE k == FirstEnd(t)
           r == OtherLines(t)
<1>1. /\ k \in 1..Len(t) /\ r \in Seq(Byte) /\ Len(t) = Len(r) + k
      /\ \A i \in 1..Len(r) : r[i] = t[i + k]
      /\ LineEnd(t, 1) \in 1..(Len(t) + 1)
  BY FirstLineType
<1>2. k = IF LineEnd(t, 1) <= Len(t) THEN LineEnd(t, 1) ELSE Len(t)
  BY DEF FirstEnd
<1> HIDE DEF k, r
<1>3. Len(t) \in Nat /\ Len(r) \in Nat /\ k \in Nat /\ 1 \in 1..Len(t)
  BY <1>1
<1>4. \A s \in Seq(Byte) :
        /\ DOMAIN LineNext(s) = 1..Len(s)
        /\ \A i \in 1..Len(s) :
             LinePiece(s)[i] = <<SubSeq(s, i, LineEnd(s, i) - 1)>>
  BY DEF LineNext, LinePiece
<1>5. ASSUME NEW i \in 1..Len(r)
      PROVE  LineEnd(t, i + k) = LineEnd(r, i) + k
  <2>1. /\ LineEnd(r, i) \in i..(Len(r) + 1)
        /\ LineEnd(r, i) <= Len(r) => r[LineEnd(r, i)] = NL
        /\ \A j \in i..Len(r) : r[j] = NL => LineEnd(r, i) <= j
    BY <1>1, LineEndIs
  <2> DEFINE e == LineEnd(r, i)
  <2> HIDE DEF e
  <2>2. /\ i + k \in 1..Len(t) /\ e + k \in (i + k)..(Len(t) + 1)
        /\ e + k <= Len(t) => e \in 1..Len(r)
    BY <1>1, <1>3, <2>1 DEF e
  <2>3. e + k <= Len(t) => t[e + k] = NL
    BY <1>1, <2>1, <2>2 DEF e
  <2>4. \A j \in (i + k)..((e + k) - 1) : t[j] # NL
    <3>0. SUFFICES ASSUME NEW j \in (i + k)..((e + k) - 1)
                   PROVE  t[j] # NL
      OBVIOUS
    <3>1. /\ j - k \in i..Len(r) /\ j - k \in 1..Len(r) /\ (j - k) + k = j
          /\ ~(e <= j - k)
      BY <1>1, <1>3, <2>1 DEF e
    <3>2. r[j - k] = t[j]
      BY <1>1, <3>1
    <3> QED BY <2>1, <3>1, <3>2 DEF e
  <2>5. LineEnd(t, i + k) = e + k
    BY <2>2, <2>3, <2>4, LineEndUnique
  <2> QED BY <2>5 DEF e
<1>6. ASSUME NEW i \in 1..Len(r)
      PROVE  /\ i + k \in 1..Len(t)
             /\ LineNext(t)[i + k] = LineNext(r)[i] + k
             /\ LinePiece(t)[i + k] = LinePiece(r)[i]
  <2>1. i + k \in 1..Len(t)
    BY <1>1, <1>3
  <2>2. /\ LineNext(t)[i + k] = IF LineEnd(t, i + k) <= Len(t)
                                THEN LineEnd(t, i + k) + 1 ELSE Len(t) + 1
        /\ LineNext(r)[i] = IF LineEnd(r, i) <= Len(r)
                            THEN LineEnd(r, i) + 1 ELSE Len(r) + 1
        /\ LineEnd(r, i) \in i..(Len(r) + 1)
    BY <1>1, <2>1, LineNextIs, LineEndIs
  <2>3. LineEnd(t, i + k) = LineEnd(r, i) + k
    BY <1>5
  <2> DEFINE e == LineEnd(r, i)
  <2>4. LineNext(t)[i + k] = LineNext(r)[i] + k
    BY <1>1, <1>3, <2>2, <2>3
  <2>5. SubSeq(r, i, e - 1) = SubSeq(t, i + k, (e - 1) + k)
    <3>1. i \in 1..(Len(r) + 1)
      BY <1>3
    <3>2. e - 1 \in Int /\ (e - 1) + 1 \in i..(Len(r) + 1)
      BY <1>3, <2>2
    <3>3. Rest(t, r, k)
      BY <1>1, <1>3 DEF Rest
    <3>4. \A a \in 1..(Len(r) + 1), b \in Int :
            b + 1 \in a..(Len(r) + 1)
              => SubSeq(r, a, b) = SubSeq(t, a + k, b + k)
      <4>1. PartsOf(t, r, k)
        BY <3>3, SubSeqShift
      <4> QED BY <4>1, Zenon DEF PartsOf
    <3> HIDE DEF e
    <3> QED BY <3>1, <3>2, <3>4, Zenon
  <2>6. (e - 1) + k = (e + k) - 1
    BY <1>3, <2>2
  <2>7. LinePiece(t)[i + k] = LinePiece(r)[i]
    <3>1. /\ LinePiece(t)[i + k]
               = <<SubSeq(t, i + k, LineEnd(t, i + k) - 1)>>
          /\ LinePiece(r)[i] = <<SubSeq(r, i, LineEnd(r, i) - 1)>>
      BY <1>1, <1>4, <2>1, Zenon
    <3> QED BY <3>1, <2>3, <2>5, <2>6, Zenon
  <2> QED BY <2>1, <2>4, <2>7
<1>7. /\ 1 \in DOMAIN LineNext(t) /\ LineNext(t)[1] = k + 1
      /\ LinePiece(t)[1] = <<FirstLine(t)>>
  <2>1. LineNext(t)[1] = IF LineEnd(t, 1) <= Len(t) THEN LineEnd(t, 1) + 1
                         ELSE Len(t) + 1
    BY <1>3, LineNextIs
  <2> QED BY <1>2, <1>3, <1>4, <2>1 DEF FirstLine
<1>8. Shifted(Len(t), LineNext(t), LinePiece(t), k,
              Len(r), LineNext(r), LinePiece(r))
  <2>1. ASSUME NEW s \in Seq(Byte)
        PROVE  \A i \in DOMAIN LineNext(s) :
                 /\ i \in 1..Len(s)
                 /\ LineNext(s)[i] \in (i + 1)..(Len(s) + 1)
    BY <1>4, LineNextIs
  <2>2. Len(t) = k + Len(r)
    BY <1>1, <1>3
  <2> QED BY <1>1, <1>3, <1>4, <1>6, <1>7, <2>1, <2>2 DEF Shifted
<1>9. Pieces(Len(t), LineNext(t), LinePiece(t))
        = LinePiece(t)[1] \o Pieces(Len(r), LineNext(r), LinePiece(r))
  BY <1>8, PiecesStep
<1> QED
  BY <1>7, <1>9, LinesArePieces, Zenon DEF r

-----------------------------------------------------------------------------
(* Characters.                                                             *)

DecodedHeads(s) == {i \in DOMAIN s : Width(s, i) # 0}

DecodedNext(s) == [i \in DecodedHeads(s) |-> i + Width(s, i)]

DecodedPiece(s) == [i \in DecodedHeads(s) |-> <<DecodedChar(s, i)>>]

\* Decoded, in these words.
LEMMA DecodedArePieces ==
  \A s : Decoded(s) = Pieces(Len(s), DecodedNext(s), DecodedPiece(s))
  BY Zenon DEF Decoded, DecodedNext, DecodedPiece, DecodedHeads

OneByte(s, i) == s[i] < 128

TwoBytes(s, i) ==
  i < Len(s) /\ s[i] \in 194..223 /\ s[i + 1] \in 128..191

\* What Width says of a position.
LEMMA WidthIs ==
  ASSUME NEW s \in Seq(Byte), NEW i \in 1..Len(s)
  PROVE  /\ OneByte(s, i) => Width(s, i) = 1
         /\ TwoBytes(s, i) => Width(s, i) = 2
         /\ ~OneByte(s, i) /\ ~TwoBytes(s, i) => Width(s, i) = 0
<1>1. TwoBytes(s, i) => ~OneByte(s, i)
  <2>1. \A b \in 194..223 : ~(b < 128)
    OBVIOUS
  <2> QED BY <2>1, Zenon DEF TwoBytes, OneByte
<1>2. Width(s, i) = CASE OneByte(s, i) -> 1
                      [] s[i] \in 194..223 /\ i < Len(s)
                           /\ s[i + 1] \in 128..191 -> 2
                      [] OTHER -> 0
  BY Zenon DEF Width, OneByte
<1>3. Width(s, i)
        = CASE OneByte(s, i) -> 1 [] TwoBytes(s, i) -> 2 [] OTHER -> 0
  <2>1. TwoBytes(s, i) <=> s[i] \in 194..223 /\ i < Len(s)
                             /\ s[i + 1] \in 128..191
    BY Zenon DEF TwoBytes
  <2> QED BY <1>2, <2>1
<1> QED
  BY <1>1, <1>3

\* The bytes of a character.
LEMMA EncodedCharIs ==
  ASSUME NEW c \in Char
  PROVE  /\ EncodedChar(c) \in Seq(Byte) /\ Len(EncodedChar(c)) \in 1..2
         /\ Len(EncodedChar(c)) = 1 => EncodedChar(c)[1] = c /\ c < 128
         /\ Len(EncodedChar(c)) = 2 =>
              /\ EncodedChar(c)[1] \in 194..223
              /\ EncodedChar(c)[2] \in 128..191
              /\ (EncodedChar(c)[1] - 192) * 64 + (EncodedChar(c)[2] - 128) = c
<1>1. EncodedChar(c) \in Seq(Byte)
  BY EncodedCharType
<1>2. CASE c < 128
  <2>1. EncodedChar(c) = <<c>>
    BY <1>2 DEF EncodedChar
  <2>2. Len(<<c>>) = 1 /\ <<c>>[1] = c
    OBVIOUS
  <2> QED BY <1>1, <1>2, <2>1, <2>2
<1>3. CASE ~(c < 128)
  <2> DEFINE a == 192 + c \div 64
             b == 128 + (c % 64)
  <2>1. EncodedChar(c) = <<a, b>>
    BY <1>3 DEF EncodedChar
  <2>2. /\ a \in 194..223 /\ b \in 128..191
        /\ (a - 192) * 64 + (b - 128) = c
    BY <1>3 DEF Char
  <2> HIDE DEF a, b
  <2>3. Len(<<a, b>>) = 2 /\ <<a, b>>[1] = a /\ <<a, b>>[2] = b
    OBVIOUS
  <2> QED BY <1>1, <2>1, <2>2, <2>3
<1> QED
  BY <1>2, <1>3

\* The text t is a character of k bytes in front of the text s.
Leads(c, s, t, k) == t = EncodedChar(c) \o s /\ k = Len(EncodedChar(c))

\* A character in front of a text is its first one, and the others stay what
\* they are.
LEMMA FrontChar ==
  ASSUME NEW c \in Char, NEW s \in Seq(Byte), NEW t, NEW k, Leads(c, s, t, k)
  PROVE  /\ t \in Seq(Byte) /\ k \in 1..2 /\ Len(t) = Len(s) + k
         /\ Width(t, 1) = k /\ DecodedChar(t, 1) = c
         /\ \A i \in 1..Len(s) :
              /\ Width(t, i + k) = Width(s, i)
              /\ Width(s, i) # 0 => DecodedChar(t, i + k) = DecodedChar(s, i)
<1> DEFINE e == EncodedChar(c)
<1>1. /\ e \in Seq(Byte) /\ k \in 1..2
      /\ k = 1 => e[1] = c /\ c < 128
      /\ k = 2 => /\ e[1] \in 194..223 /\ e[2] \in 128..191
                  /\ (e[1] - 192) * 64 + (e[2] - 128) = c
  <2>1. k = Len(e)
    BY DEF Leads
  <2>2. /\ e \in Seq(Byte) /\ Len(e) \in 1..2
        /\ Len(e) = 1 => e[1] = c /\ c < 128
        /\ Len(e) = 2 => /\ e[1] \in 194..223 /\ e[2] \in 128..191
                         /\ (e[1] - 192) * 64 + (e[2] - 128) = c
    BY EncodedCharIs
  <2> HIDE DEF e
  <2> QED BY <2>1, <2>2, Zenon
<1>d. t = e \o s /\ k = Len(e)
  BY DEF Leads
<1> HIDE DEF e
<1>2. /\ t \in Seq(Byte) /\ Len(t) = k + Len(s) /\ Len(s) \in Nat
      /\ \A i \in 1..(k + Len(s)) : t[i] = IF i <= k THEN e[i] ELSE s[i - k]
  BY <1>1, <1>d, ConcatProperties
<1>3. /\ \A i \in 1..k : i \in 1..(k + Len(s)) /\ i <= k
      /\ \A i \in 1..Len(s) : /\ i + k \in 1..(k + Len(s)) /\ ~(i + k <= k)
                              /\ (i + k) - k = i
  BY <1>1, <1>2
<1>4. /\ \A i \in 1..k : t[i] = e[i]
      /\ \A i \in 1..Len(s) : t[i + k] = s[i]
  <2>1. ASSUME NEW i \in 1..Len(s) PROVE t[i + k] = s[i]
    BY <1>2, <1>3
  <2> QED BY <1>2, <1>3, <2>1
<1>5. Width(t, 1) = k /\ DecodedChar(t, 1) = c
  <2>1. 1 \in 1..Len(t) /\ 1 \in 1..k
    BY <1>1, <1>2
  <2>2. CASE k = 1
    <3>1. t[1] = c /\ OneByte(t, 1)
      BY <1>1, <1>4, <2>1, <2>2 DEF OneByte
    <3>2. Width(t, 1) = 1
      BY <1>2, <2>1, <3>1, WidthIs, Zenon
    <3> QED BY <2>2, <3>1, <3>2 DEF DecodedChar
  <2>3. CASE k = 2
    <3>1. t[1] = e[1] /\ t[1 + 1] = e[2] /\ 1 < Len(t)
      BY <1>1, <1>2, <1>4, <2>3
    <3>2. 1 < Len(t) /\ t[1] \in 194..223 /\ t[1 + 1] \in 128..191
      BY <1>1, <2>3, <3>1
    <3>3. Width(t, 1) = 2
      BY <1>2, <2>1, <3>2, WidthIs, Zenon DEF TwoBytes
    <3> QED BY <1>1, <2>3, <3>1, <3>3 DEF DecodedChar
  <2> QED BY <1>1, <2>2, <2>3
<1>6. ASSUME NEW i \in 1..Len(s)
      PROVE  /\ Width(t, i + k) = Width(s, i)
             /\ Width(s, i) # 0 => DecodedChar(t, i + k) = DecodedChar(s, i)
  <2> DEFINE j == i + k
  <2>1. /\ j \in 1..Len(t) /\ t[j] = s[i]
        /\ j < Len(t) <=> i < Len(s)
        /\ i < Len(s) => t[j + 1] = s[i + 1]
    <3>1. i < Len(s) => i + 1 \in 1..Len(s) /\ (i + 1) + k = j + 1
      BY <1>1, <1>2
    <3>2. i < Len(s) => t[(i + 1) + k] = s[i + 1]
      BY <1>4, <3>1
    <3> QED BY <1>1, <1>2, <1>4, <3>1, <3>2
  <2> HIDE DEF j
  <2>2. Width(t, j) = Width(s, i)
    <3>1. OneByte(s, i) <=> OneByte(t, j)
      BY <2>1, Zenon DEF OneByte
    <3>2. TwoBytes(s, i) => TwoBytes(t, j)
      BY <2>1 DEF TwoBytes
    <3>3. TwoBytes(t, j) => TwoBytes(s, i)
      BY <2>1 DEF TwoBytes
    <3> QED BY <1>2, <2>1, <3>1, <3>2, <3>3, WidthIs, Zenon
  <2>3. ASSUME Width(s, i) # 0
        PROVE  DecodedChar(t, j) = DecodedChar(s, i)
    <3>1. CASE OneByte(s, i)
      <4>1. Width(s, i) = 1
        BY <3>1, WidthIs, Zenon
      <4> QED BY <2>1, <2>2, <4>1 DEF DecodedChar
    <3>2. CASE ~OneByte(s, i)
      <4>1. TwoBytes(s, i)
        BY <2>3, <3>2, WidthIs, Zenon
      <4>2. Width(s, i) = 2 /\ i < Len(s)
        BY <4>1, WidthIs DEF TwoBytes
      <4> QED BY <2>1, <2>2, <4>2 DEF DecodedChar
    <3> QED BY <3>1, <3>2
  <2> QED BY <2>2, <2>3 DEF j
<1> QED
  BY <1>1, <1>2, <1>5, <1>6

\* A position at which a character begins, and the one at which it ends.
LEMMA DecodedNextIs ==
  ASSUME NEW s \in Seq(Byte)
  PROVE  /\ DOMAIN DecodedNext(s) = DecodedHeads(s)
         /\ \A i : i \in DecodedHeads(s) <=> i \in 1..Len(s) /\ Width(s, i) # 0
         /\ \A i \in DecodedHeads(s) :
              /\ DecodedNext(s)[i] = i + Width(s, i)
              /\ DecodedPiece(s)[i] = <<DecodedChar(s, i)>>
              /\ i + Width(s, i) \in (i + 1)..(Len(s) + 1)
<1>1. /\ DOMAIN DecodedNext(s) = DecodedHeads(s)
      /\ \A i : i \in DecodedHeads(s) <=> i \in 1..Len(s) /\ Width(s, i) # 0
      /\ \A i \in DecodedHeads(s) :
           /\ DecodedNext(s)[i] = i + Width(s, i)
           /\ DecodedPiece(s)[i] = <<DecodedChar(s, i)>>
  <2>1. DOMAIN s = 1..Len(s)
    OBVIOUS
  <2> QED BY <2>1, Zenon DEF DecodedNext, DecodedPiece, DecodedHeads
<1>2. ASSUME NEW i \in DecodedHeads(s)
      PROVE  i + Width(s, i) \in (i + 1)..(Len(s) + 1)
  <2>1. i \in 1..Len(s) /\ Width(s, i) # 0 /\ Len(s) \in Nat
    BY <1>1
  <2>2. CASE OneByte(s, i)
    <3>1. Width(s, i) = 1
      BY <2>1, <2>2, WidthIs, Zenon
    <3> QED BY <2>1, <3>1
  <2>3. CASE ~OneByte(s, i)
    <3>1. TwoBytes(s, i)
      BY <2>1, <2>3, WidthIs, Zenon
    <3>2. Width(s, i) = 2 /\ i < Len(s)
      BY <2>1, <3>1, WidthIs DEF TwoBytes
    <3> QED BY <2>1, <3>2
  <2> QED BY <2>2, <2>3
<1> QED
  BY <1>1, <1>2

\* What follows a character is decoded as if the character were not there.
LEMMA DecodedCons ==
  ASSUME NEW c \in Char, NEW s \in Seq(Byte)
  PROVE  Decoded(EncodedChar(c) \o s) = <<c>> \o Decoded(s)
<1> DEFINE t == EncodedChar(c) \o s
           k == Len(EncodedChar(c))
<1>1. Leads(c, s, t, k)
  BY DEF Leads
<1> HIDE DEF t, k
<1>2. /\ t \in Seq(Byte) /\ k \in 1..2 /\ Len(t) = Len(s) + k
      /\ Width(t, 1) = k /\ DecodedChar(t, 1) = c
      /\ \A i \in 1..Len(s) :
           /\ Width(t, i + k) = Width(s, i)
           /\ Width(s, i) # 0 => DecodedChar(t, i + k) = DecodedChar(s, i)
  BY <1>1, FrontChar
<1>3. /\ Len(s) \in Nat /\ Len(t) \in Nat /\ k \in Nat /\ Len(t) = k + Len(s)
      /\ 1 \in 1..Len(t) /\ k # 0 /\ 1 + k = k + 1
      /\ \A i \in 1..Len(s) : i + k \in 1..Len(t)
  BY <1>2
<1>4. ASSUME NEW r \in Seq(Byte)
      PROVE  /\ DOMAIN DecodedNext(r) = DecodedHeads(r)
             /\ \A i : i \in DecodedHeads(r) <=>
                         i \in 1..Len(r) /\ Width(r, i) # 0
             /\ \A i \in DecodedHeads(r) :
                  /\ DecodedNext(r)[i] = i + Width(r, i)
                  /\ DecodedPiece(r)[i] = <<DecodedChar(r, i)>>
                  /\ i + Width(r, i) \in (i + 1)..(Len(r) + 1)
  BY DecodedNextIs, Zenon
<1>5. /\ 1 \in DOMAIN DecodedNext(t) /\ DecodedNext(t)[1] = k + 1
      /\ DecodedPiece(t)[1] = <<c>>
  BY <1>2, <1>3, <1>4, Zenon
<1>6. ASSUME NEW r \in Seq(Byte)
      PROVE  \A i \in DOMAIN DecodedNext(r) :
               i \in 1..Len(r) /\ DecodedNext(r)[i] \in (i + 1)..(Len(r) + 1)
  BY <1>4, Zenon
<1>7. ASSUME NEW i \in 1..Len(s)
      PROVE  /\ i \in DOMAIN DecodedNext(s) <=> i + k \in DOMAIN DecodedNext(t)
             /\ i \in DOMAIN DecodedNext(s) =>
                  /\ DecodedNext(t)[i + k] = DecodedNext(s)[i] + k
                  /\ DecodedPiece(t)[i + k] = DecodedPiece(s)[i]
  <2>1. i \in DOMAIN DecodedNext(s) <=> i + k \in DOMAIN DecodedNext(t)
    <3>1. i \in DOMAIN DecodedNext(s) <=> Width(s, i) # 0
      BY <1>4
    <3>2. i + k \in DOMAIN DecodedNext(t) <=> Width(t, i + k) # 0
      BY <1>2, <1>3, <1>4
    <3> QED BY <1>2, <3>1, <3>2, Zenon
  <2>2. ASSUME i \in DOMAIN DecodedNext(s)
        PROVE  /\ DecodedNext(t)[i + k] = DecodedNext(s)[i] + k
               /\ DecodedPiece(t)[i + k] = DecodedPiece(s)[i]
    <3>1. i \in DecodedHeads(s) /\ i + k \in DecodedHeads(t) /\ Width(s, i) # 0
      BY <1>2, <1>4, <2>1, <2>2, Zenon
    <3>2. /\ DecodedNext(t)[i + k] = (i + k) + Width(s, i)
          /\ DecodedNext(s)[i] = i + Width(s, i)
          /\ DecodedPiece(t)[i + k] = <<DecodedChar(s, i)>>
          /\ DecodedPiece(s)[i] = <<DecodedChar(s, i)>>
      BY <1>2, <1>4, <3>1, Zenon
    <3>3. Width(s, i) \in Int
      <4>1. Width(s, i) = 0 \/ Width(s, i) = 1 \/ Width(s, i) = 2
        BY WidthIs, Zenon
      <4> QED BY <4>1
    <3> QED BY <1>3, <3>2, <3>3
  <2> QED BY <2>1, <2>2
<1>8. Shifted(Len(t), DecodedNext(t), DecodedPiece(t), k,
              Len(s), DecodedNext(s), DecodedPiece(s))
  BY <1>2, <1>3, <1>5, <1>6, <1>7, Zenon DEF Shifted
<1>9. Pieces(Len(t), DecodedNext(t), DecodedPiece(t))
        = DecodedPiece(t)[1] \o Pieces(Len(s), DecodedNext(s), DecodedPiece(s))
  BY <1>8, PiecesStep
<1>10. Decoded(t) = <<c>> \o Decoded(s)
  BY <1>5, <1>9, DecodedArePieces, Zenon
<1> QED
  BY <1>10 DEF t

\* Nothing is decoded to nothing.
LEMMA DecodedEmpty == Decoded(<<>>) = <<>>
<1>1. Len(<<>>) = 0 /\ DOMAIN DecodedNext(<<>>) = {}
  BY DEF DecodedNext, DecodedHeads
<1>2. Pieces(0, DecodedNext(<<>>), DecodedPiece(<<>>)) = <<>>
  BY <1>1, PiecesNone
<1> QED
  BY <1>1, <1>2, DecodedArePieces, Zenon

\* A string begins with its first character.
LEMMA FirstChar ==
  ASSUME NEW S, NEW w \in Seq(S), w # <<>>
  PROVE  /\ Head(w) \in S /\ Tail(w) \in Seq(S) /\ Len(w) = Len(Tail(w)) + 1
         /\ w = <<Head(w)>> \o Tail(w)
<1>1. /\ Head(w) \in S /\ Tail(w) \in Seq(S) /\ Len(Tail(w)) = Len(w) - 1
      /\ \A i \in 1..Len(Tail(w)) : Tail(w)[i] = w[i + 1]
  BY HeadTailProperties
<1>2. Head(w) = w[1] /\ Len(w) \in Nat
  OBVIOUS
<1> DEFINE h == Head(w)
           u == Tail(w)
<1> HIDE DEF h, u
<1>3. <<h>> \in Seq(S) /\ Len(<<h>>) = 1 /\ <<h>>[1] = h
  BY <1>1 DEF h
<1>4. /\ <<h>> \o u \in Seq(S) /\ Len(<<h>> \o u) = 1 + Len(u)
      /\ \A i \in 1..(1 + Len(u)) :
           (<<h>> \o u)[i] = IF i <= 1 THEN <<h>>[i] ELSE u[i - 1]
  BY <1>1, <1>3, ConcatProperties DEF h, u
<1>5. w = <<h>> \o u
  <2>1. Len(w) = 1 + Len(u)
    BY <1>1, <1>2 DEF u
  <2>2. ASSUME NEW i \in 1..Len(w)
        PROVE  w[i] = (<<h>> \o u)[i]
    <3>1. CASE i = 1
      BY <1>2, <1>3, <1>4, <2>1, <3>1 DEF h
    <3>2. CASE i # 1
      <4>1. /\ i - 1 \in 1..Len(u) /\ (i - 1) + 1 = i /\ ~(i <= 1)
            /\ i \in 1..(1 + Len(u))
        BY <1>2, <2>1, <3>2
      <4>2. u[i - 1] = w[i]
        BY <1>1, <4>1 DEF u
      <4> QED BY <1>4, <4>1, <4>2
    <3> QED BY <3>1, <3>2
  <2> HIDE DEF u
  <2> QED BY <1>4, <2>1, <2>2, SeqEqual
<1> QED
  BY <1>1, <1>2, <1>5 DEF h, u

\* Encoding a character and a string.
LEMMA EncodedCons ==
  ASSUME NEW c \in Char, NEW w \in Seq(Char)
  PROVE  /\ Encoded(<<c>>) = EncodedChar(c)
         /\ Encoded(<<c>> \o w) = EncodedChar(c) \o Encoded(w)
<1>1. <<c>> \in Seq(Char) /\ <<>> \in Seq(Char) /\ Append(<<>>, c) = <<c>>
  OBVIOUS
<1>2. EncodedChar(c) \in Seq(Byte)
  BY EncodedCharType
<1>3. <<>> \o EncodedChar(c) = EncodedChar(c)
  BY <1>2, ConcatEmptySeq
<1>4. Encoded(Append(<<>>, c)) = Encoded(<<>>) \o EncodedChar(c)
  BY <1>1, EncodedAppend, Zenon
<1>5. Encoded(<<c>>) = EncodedChar(c)
  BY <1>1, <1>3, <1>4, EncodedAppend, Zenon
<1>6. Encoded(<<c>> \o w) = Encoded(<<c>>) \o Encoded(w)
  BY <1>1, EncodedConcat, Zenon
<1> QED
  BY <1>5, <1>6, Zenon

\* What is encoded is decoded again, whatever is in it: mbstowcs undoes
\* wcstombs.
LEMMA DecodedEncoded ==
  \A w \in Seq(Char) : Decoded(Encoded(w)) = w /\ Decodes(Encoded(w))
<1> DEFINE G == {n \in Nat : \A w \in Seq(Char) :
                               Len(w) = n => Decoded(Encoded(w)) = w}
<1>1. 0 \in G
  <2>1. \A w \in Seq(Char) : Len(w) = 0 => w = <<>>
    OBVIOUS
  <2>2. Decoded(Encoded(<<>>)) = <<>>
    BY EncodedAppend, DecodedEmpty, Zenon
  <2> QED BY <2>1, <2>2
<1>2. ASSUME NEW n \in Nat, n \in G
      PROVE  n + 1 \in G
  <2>1. SUFFICES ASSUME NEW w \in Seq(Char), Len(w) = n + 1
                 PROVE  Decoded(Encoded(w)) = w
    OBVIOUS
  <2>2. w # <<>>
    BY <2>1
  <2> DEFINE c == Head(w)
             u == Tail(w)
  <2>3. /\ c \in Char /\ u \in Seq(Char) /\ Len(w) = Len(u) + 1
        /\ w = <<c>> \o u
    BY <2>2, FirstChar
  <2>4. Decoded(Encoded(u)) = u
    <3>1. Len(u) = n
      BY <2>1, <2>3
    <3> QED BY <1>2, <2>3, <3>1
  <2> HIDE DEF c, u
  <2>5. Encoded(u) \in Seq(Byte)
    BY <2>3, EncodedAppend
  <2>6. Encoded(<<c>> \o u) = EncodedChar(c) \o Encoded(u)
    BY <2>3, EncodedCons, Zenon
  <2>7. Decoded(EncodedChar(c) \o Encoded(u)) = <<c>> \o Decoded(Encoded(u))
    BY <2>3, <2>5, DecodedCons, Zenon
  <2> QED BY <2>3, <2>4, <2>6, <2>7, Zenon
<1>3. \A n \in Nat : n \in G
  <2> HIDE DEF G
  <2> QED BY <1>1, <1>2, UpwardNat
<1>4. \A w \in Seq(Char) : Decoded(Encoded(w)) = w
  <2> TAKE w \in Seq(Char)
  <2>1. Len(w) \in Nat
    OBVIOUS
  <2>2. Len(w) \in G
    BY <1>3, <2>1
  <2> QED BY <2>2
<1> QED
  BY <1>4, Zenon DEF Decodes

-----------------------------------------------------------------------------
(* The buffer.                                                             *)

TrimLength(w) == Max({0} \cup {i \in DOMAIN w : w[i] \notin Blank})

\* The place after the last character that is no blank.
LEMMA TrimLengthIs ==
  ASSUME NEW w \in Seq(Char)
  PROVE  /\ Trimmed(w) = SubSeq(w, 1, TrimLength(w))
         /\ TrimLength(w) \in 0..Len(w)
         /\ TrimLength(w) # 0 => w[TrimLength(w)] \notin Blank
         /\ \A i \in 1..Len(w) : w[i] \notin Blank => i <= TrimLength(w)
<1> DEFINE S == {0} \cup {i \in DOMAIN w : w[i] \notin Blank}
<1>1. Trimmed(w) = SubSeq(w, 1, TrimLength(w)) /\ TrimLength(w) = Max(S)
  BY Zenon DEF Trimmed, TrimLength
<1>2. /\ Len(w) \in Nat /\ S \in SUBSET Nat /\ S # {}
      /\ \A i \in S : i <= Len(w)
      /\ \A i \in S : i # 0 => w[i] \notin Blank
      /\ \A i \in 1..Len(w) : w[i] \notin Blank => i \in S
  OBVIOUS
<1> HIDE DEF S
<1>3. Max(S) \in S /\ \A i \in S : i <= Max(S)
  BY <1>2, MaxOf
<1>4. Max(S) \in 0..Len(w)
  <2>1. Max(S) \in Nat /\ Max(S) <= Len(w)
    BY <1>2, <1>3
  <2> QED BY <1>2, <2>1
<1>5. /\ Max(S) # 0 => w[Max(S)] \notin Blank
      /\ \A i \in 1..Len(w) : w[i] \notin Blank => i <= Max(S)
  BY <1>2, <1>3, Zenon
<1> QED
  BY <1>1, <1>4, <1>5, Zenon

\* No other place is.
LEMMA TrimLengthUnique ==
  ASSUME NEW w \in Seq(Char), NEW m \in 0..Len(w),
         m # 0 => w[m] \notin Blank,
         \A i \in (m + 1)..Len(w) : w[i] \in Blank
  PROVE  TrimLength(w) = m
<1>1. /\ TrimLength(w) \in 0..Len(w)
      /\ TrimLength(w) # 0 => w[TrimLength(w)] \notin Blank
      /\ \A i \in 1..Len(w) : w[i] \notin Blank => i <= TrimLength(w)
  BY TrimLengthIs
<1> DEFINE l == TrimLength(w)
<1> HIDE DEF l
<1>2. ~(m < l)
  <2>1. SUFFICES ASSUME m < l PROVE FALSE
    OBVIOUS
  <2>2. l \in (m + 1)..Len(w) /\ l # 0
    BY <1>1, <2>1 DEF l
  <2> QED BY <1>1, <2>2 DEF l
<1>3. ~(l < m)
  <2>1. SUFFICES ASSUME l < m PROVE FALSE
    OBVIOUS
  <2>2. m \in 1..Len(w) /\ m # 0
    BY <1>1, <2>1 DEF l
  <2>3. m <= l
    BY <1>1, <2>2 DEF l
  <2> QED BY <1>1, <2>1, <2>3 DEF l
<1> QED
  BY <1>1, <1>2, <1>3 DEF l

\* A new line at the end is stripped with the other blanks.
LEMMA TrimmedLine ==
  ASSUME NEW w \in Seq(Char)
  PROVE  Append(w, NL) \in Seq(Char) /\ Trimmed(Append(w, NL)) = Trimmed(w)
<1> DEFINE v == Append(w, NL)
           m == TrimLength(w)
<1>1. NL \in Char /\ NL \in Blank
  BY DEF NL, Char, Blank
<1>2. /\ v \in Seq(Char) /\ Len(v) = Len(w) + 1 /\ v[Len(w) + 1] = NL
      /\ \A i \in 1..Len(w) : v[i] = w[i]
  BY <1>1, AppendProperties
<1>3. /\ m \in 0..Len(w) /\ (m # 0 => w[m] \notin Blank)
      /\ \A i \in 1..Len(w) : w[i] \notin Blank => i <= m
      /\ Trimmed(w) = SubSeq(w, 1, m)
  BY TrimLengthIs
<1> HIDE DEF v, m
<1>4. TrimLength(v) = m
  <2>1. m \in 0..Len(v) /\ (m # 0 => v[m] \notin Blank)
    BY <1>2, <1>3
  <2>2. ASSUME NEW i \in (m + 1)..Len(v)
        PROVE  v[i] \in Blank
    <3>1. CASE i = Len(w) + 1
      BY <1>1, <1>2, <3>1
    <3>2. CASE i # Len(w) + 1
      <4>1. i \in 1..Len(w) /\ ~(i <= m)
        BY <1>2, <1>3, <3>2
      <4> QED BY <1>2, <1>3, <4>1
    <3> QED BY <3>1, <3>2
  <2> QED BY <1>2, <2>1, <2>2, TrimLengthUnique
<1>5. SubSeq(v, 1, m) = SubSeq(w, 1, m)
  <2>1. /\ m \in Int /\ 1 \in Int /\ m - 1 + 1 = m
        /\ (IF 1 <= m THEN m - 1 + 1 ELSE 0) = m
        /\ \A i \in 1..m : i \in 1..Len(w) /\ 1 + i - 1 = i
        /\ \A i \in 1..m : v[i] \in Char /\ w[i] \in Char /\ v[i] = w[i]
    BY <1>2, <1>3
  <2>2. /\ SubSeq(v, 1, m) \in Seq(Char) /\ Len(SubSeq(v, 1, m)) = m
        /\ \A i \in 1..m : SubSeq(v, 1, m)[i] = v[i]
    BY <2>1, SubSeqProperties
  <2>3. /\ SubSeq(w, 1, m) \in Seq(Char) /\ Len(SubSeq(w, 1, m)) = m
        /\ \A i \in 1..m : SubSeq(w, 1, m)[i] = w[i]
    BY <2>1, SubSeqProperties
  <2>4. \A i \in 1..m : SubSeq(v, 1, m)[i] = SubSeq(w, 1, m)[i]
    BY <2>1, <2>2, <2>3
  <2> QED BY <2>2, <2>3, <2>4, SeqEqual
<1>6. Trimmed(v) = SubSeq(v, 1, m)
  BY <1>2, <1>4, TrimLengthIs
<1>7. v \in Seq(Char) /\ Trimmed(v) = Trimmed(w)
  BY <1>2, <1>3, <1>5, <1>6, Zenon
<1> QED
  BY <1>7 DEF v

\* The length of a string is the place before its first NUL.
LEMMA WcslenUnique ==
  ASSUME NEW buf \in Buffer, NEW n \in 0..(LineSize - 1),
         buf[n + 1] = NUL, \A i \in 1..n : buf[i] # NUL
  PROVE  wcslen(buf) = n
<1> DEFINE S == {i \in DOMAIN buf : buf[i] = NUL} \cup {Len(buf) + 1}
<1>1. LineSize \in Nat /\ DOMAIN buf = 1..LineSize /\ Len(buf) = LineSize
  BY SizeAssumption DEF Buffer
<1>2. S \in SUBSET Nat /\ S # {} /\ n + 1 \in S
  BY <1>1
<1>3. \A i \in S : n + 1 <= i
  BY <1>1
<1>4. wcslen(buf) = Min(S) - 1
  BY Zenon DEF wcslen
<1> HIDE DEF S
<1>5. Min(S) \in S /\ \A i \in S : Min(S) <= i
  BY <1>2, MinOf
<1>6. Min(S) = n + 1
  <2>1. Min(S) \in Nat /\ Min(S) <= n + 1 /\ n + 1 <= Min(S)
    BY <1>2, <1>3, <1>5
  <2> QED BY <2>1
<1> QED
  BY <1>4, <1>6

\* Whatever is in the buffer, after a text that decodes and fits it holds the
\* characters of the text without the blanks at their end.
THEOREM BufferExact ==
  ASSUME NEW buf \in Buffer, NEW s \in Seq(Byte), Decodes(s), Len(s) < LineSize,
         NEW c, c = wcs_strip_trailing_whitespaces(mbstowcs(buf, s))
  PROVE  SubSeq(c, 1, wcslen(c)) = Trimmed(Decoded(s))
<1> DEFINE w == Decoded(s)
           b == mbstowcs(buf, s)
           m == TrimLength(w)
           n == Len(w)
<1>1. /\ LineSize \in Nat /\ DOMAIN buf = 1..LineSize
      /\ \A i \in 1..LineSize : buf[i] \in Char \cup {NUL}
  BY SizeAssumption DEF Buffer
<1>2. /\ w \in Seq(Char) /\ n \in 0..(LineSize - 1)
      /\ \A i \in 1..n : w[i] \in Char
  <2>1. w \in Seq(Char) /\ Len(w) <= Len(s) /\ Len(w) \in Nat /\ Len(s) \in Nat
    BY DecodedType
  <2> HIDE DEF w
  <2> QED BY <1>1, <2>1
<1>3. /\ m \in 0..n /\ Trimmed(w) = SubSeq(w, 1, m)
      /\ \A i \in 1..n : w[i] \notin Blank => i <= m
      /\ m # 0 => w[m] \notin Blank
  BY <1>2, TrimLengthIs, Zenon
<1>4. b = [i \in 1..LineSize |->
             CASE i <= n -> w[i]
               [] i = n + 1 /\ Decodes(s) -> NUL
               [] OTHER -> buf[i]]
  BY <1>1 DEF mbstowcs
<1>c. NUL \notin Char
  BY DEF NUL, Char
<1> HIDE DEF w, n
<1>5. /\ DOMAIN b = 1..LineSize /\ b[n + 1] = NUL
      /\ \A i \in 1..n : i \in 1..LineSize /\ b[i] = w[i]
      /\ n + 1 \in 1..LineSize
  <2>1. n + 1 \in 1..LineSize /\ ~(n + 1 <= n)
    BY <1>1, <1>2
  <2>2. \A i \in 1..n : i \in 1..LineSize /\ i <= n
    BY <1>1, <1>2
  <2> QED BY <1>4, <2>1, <2>2
<1>6. b \in Buffer
  <2>1. \A i \in 1..LineSize : b[i] \in Char \cup {NUL}
    <3> TAKE i \in 1..LineSize
    <3>1. CASE i <= n
      <4>1. i \in 1..n
        BY <1>2, <3>1
      <4> QED BY <1>2, <1>5, <4>1
    <3>2. CASE ~(i <= n)
      <4>1. b[i] \in {NUL, buf[i]}
        BY <1>4, <3>2
      <4> QED BY <1>1, <4>1
    <3> QED BY <3>1, <3>2
  <2> QED BY <1>4, <2>1 DEF Buffer
<1> HIDE DEF b
<1>7. wcslen(b) = n
  <2>1. \A i \in 1..n : b[i] # NUL
    BY <1>2, <1>5, <1>c
  <2> QED BY <1>2, <1>5, <1>6, <2>1, WcslenUnique
<1>8. Max({0} \cup {i \in 1..wcslen(b) : b[i] \notin Blank}) = m
  <2>1. {i \in 1..wcslen(b) : b[i] \notin Blank}
          = {i \in DOMAIN w : w[i] \notin Blank}
    <3>1. DOMAIN w = 1..n
      BY <1>2 DEF n
    <3> QED BY <1>5, <1>7, <3>1
  <2> QED BY <2>1, Zenon DEF TrimLength
<1> HIDE DEF m
<1>9. c = [i \in 1..LineSize |-> IF i \in (m + 1)..n THEN NUL ELSE b[i]]
  BY <1>5, <1>7, <1>8 DEF wcs_strip_trailing_whitespaces, b
<1>10. /\ \A i \in 1..m : c[i] = w[i] /\ w[i] \in Char
       /\ c[m + 1] = NUL /\ m \in 0..(LineSize - 1)
  <2>1. \A i \in 1..m : i \in 1..n /\ i \in 1..LineSize /\ i \notin (m + 1)..n
    BY <1>1, <1>2, <1>3
  <2>2. \A i \in 1..m : c[i] = w[i] /\ w[i] \in Char
    BY <1>2, <1>5, <1>9, <2>1
  <2>3. m \in 0..(LineSize - 1) /\ m + 1 \in 1..LineSize
    BY <1>1, <1>2, <1>3
  <2>4. CASE m = n
    <3>1. m + 1 \notin (m + 1)..n
      BY <1>2, <1>3, <2>4
    <3> QED BY <1>5, <1>9, <2>2, <2>3, <2>4, <3>1
  <2>5. CASE m # n
    <3>1. m + 1 \in (m + 1)..n
      BY <1>2, <1>3, <2>5
    <3> QED BY <1>9, <2>2, <2>3, <3>1
  <2> QED BY <2>4, <2>5
<1>11. c \in Buffer
  BY <1>6, <1>9 DEF Buffer
<1>12. wcslen(c) = m
  <2>1. \A i \in 1..m : c[i] # NUL
    BY <1>10, <1>c
  <2> QED BY <1>10, <1>11, <2>1, WcslenUnique
<1>13. SubSeq(c, 1, m) = SubSeq(w, 1, m)
  <2>1. /\ m \in Int /\ 1 \in Int /\ m - 1 + 1 = m
        /\ (IF 1 <= m THEN m - 1 + 1 ELSE 0) = m
        /\ \A i \in 1..m : 1 + i - 1 = i
        /\ \A i \in 1..m : c[i] \in Char /\ w[i] \in Char
    BY <1>10
  <2>2. /\ SubSeq(c, 1, m) \in Seq(Char) /\ Len(SubSeq(c, 1, m)) = m
        /\ \A i \in 1..m : SubSeq(c, 1, m)[i] = c[i]
    BY <2>1, SubSeqProperties
  <2>3. /\ SubSeq(w, 1, m) \in Seq(Char) /\ Len(SubSeq(w, 1, m)) = m
        /\ \A i \in 1..m : SubSeq(w, 1, m)[i] = w[i]
    BY <2>1, SubSeqProperties
  <2>4. \A i \in 1..m : SubSeq(c, 1, m)[i] = SubSeq(w, 1, m)[i]
    BY <1>10, <2>2, <2>3
  <2> QED BY <2>2, <2>3, <2>4, SeqEqual
<1>14. SubSeq(c, 1, wcslen(c)) = Trimmed(w)
  BY <1>3, <1>12, <1>13, Zenon
<1> QED
  BY <1>14 DEF w

-----------------------------------------------------------------------------
(* Entries.                                                                *)

\* Lines are sequences of bytes; an empty text has none.
LEMMA LinesType ==
  /\ Lines(<<>>) = <<>>
  /\ \A t \in Seq(Byte) : Lines(t) \in Seq(Seq(Byte))
<1>1. Lines(<<>>) = <<>>
  <2>1. Len(<<>>) = 0 /\ DOMAIN LineNext(<<>>) = {}
    BY DEF LineNext
  <2>2. Pieces(0, LineNext(<<>>), LinePiece(<<>>)) = <<>>
    BY <2>1, PiecesNone
  <2> QED BY <2>1, <2>2, LinesArePieces, Zenon
<1>2. ASSUME NEW t \in Seq(Byte)
      PROVE  Lines(t) \in Seq(Seq(Byte))
  <2>1. Len(t) \in Nat /\ DOMAIN LineNext(t) = 1..Len(t)
    BY DEF LineNext
  <2>2. ASSUME NEW i \in 1..Len(t)
        PROVE  /\ LineNext(t)[i] \in (i + 1)..(Len(t) + 1)
               /\ LinePiece(t)[i] \in Seq(Seq(Byte))
    <3>1. LineNext(t)[i] \in (i + 1)..(Len(t) + 1)
      BY LineNextIs
    <3>2. LineEnd(t, i) \in i..(Len(t) + 1)
      BY LineEndIs
    <3> DEFINE e == LineEnd(t, i) - 1
               u == SubSeq(t, i, e)
    <3>3. e \in Int /\ i \in Int /\ \A j \in i..e : t[j] \in Byte
      BY <3>2
    <3>4. LinePiece(t)[i] = <<u>>
      BY DEF LinePiece
    <3> HIDE DEF e
    <3>5. u \in Seq(Byte)
      BY <3>3, SubSeqProperties
    <3> HIDE DEF u
    <3>6. <<u>> \in Seq(Seq(Byte))
      BY <3>5
    <3> QED BY <3>1, <3>4, <3>6
  <2>3. \A i \in DOMAIN LineNext(t) : /\ i \in 1..Len(t)
                                     /\ LineNext(t)[i] \in (i + 1)..(Len(t) + 1)
                                     /\ LinePiece(t)[i] \in Seq(Seq(Byte))
    BY <2>1, <2>2, Zenon
  <2>4. Pieces(Len(t), LineNext(t), LinePiece(t)) \in Seq(Seq(Byte))
    BY <2>1, <2>3, PiecesType
  <2> QED BY <2>4, LinesArePieces, Zenon
<1> QED
  BY <1>1, <1>2

\* An element in front of a sequence.
LEMMA ConsIs ==
  ASSUME NEW S, NEW x \in S, NEW s \in Seq(S), NEW a, a = <<x>> \o s
  PROVE  /\ a \in Seq(S) /\ Len(a) = Len(s) + 1 /\ a[1] = x
         /\ \A i \in 1..Len(s) : a[i + 1] = s[i]
<1>1. <<x>> \in Seq(S) /\ Len(<<x>>) = 1 /\ <<x>>[1] = x
  OBVIOUS
<1>2. /\ <<x>> \o s \in Seq(S) /\ Len(<<x>> \o s) = 1 + Len(s)
      /\ \A i \in 1..(1 + Len(s)) :
           (<<x>> \o s)[i] = IF i <= 1 THEN <<x>>[i] ELSE s[i - 1]
  BY <1>1, ConcatProperties
<1>3. /\ 1 \in 1..(1 + Len(s)) /\ 1 + Len(s) = Len(s) + 1
      /\ \A i \in 1..Len(s) : /\ i + 1 \in 1..(1 + Len(s)) /\ ~(i + 1 <= 1)
                              /\ (i + 1) - 1 = i
  OBVIOUS
<1>4. /\ a \in Seq(S) /\ Len(a) = 1 + Len(s)
      /\ \A i \in 1..(1 + Len(s)) : a[i] = IF i <= 1 THEN <<x>>[i] ELSE s[i - 1]
  BY <1>2, Zenon
<1>5. a[1] = x
  BY <1>1, <1>3, <1>4
<1>6. \A i \in 1..Len(s) : a[i + 1] = s[i]
  BY <1>3, <1>4
<1> QED
  BY <1>3, <1>4, <1>5, <1>6, Zenon

\* Entries and Readable, of the lines of a text.
EntriesOf(lines) == [i \in DOMAIN lines |-> Trimmed(Decoded(lines[i]))]

GoodLine(s) == Len(s) < LineSize - 1 /\ Decodes(s)

GoodLines(lines) == \A i \in DOMAIN lines : GoodLine(lines[i])

\* What a text means is what its lines mean, one by one.
LEMMA EntriesAreOfLines ==
  \A t : /\ Entries(t) = EntriesOf(Lines(t))
         /\ Readable(t) <=> GoodLines(Lines(t))
<1>1. \A t : Entries(t) = EntriesOf(Lines(t))
  BY Zenon DEF Entries, EntriesOf
<1>2. \A t : Readable(t) <=> GoodLines(Lines(t))
  BY Zenon DEF Readable, Short, GoodLines, GoodLine
<1> QED
  BY <1>1, <1>2, Zenon

\* A string without the blanks at its end is a string.
LEMMA TrimmedType == \A w \in Seq(Char) : Trimmed(w) \in Seq(Char)
<1> TAKE w \in Seq(Char)
<1> DEFINE m == TrimLength(w)
<1>1. Trimmed(w) = SubSeq(w, 1, m) /\ m \in 0..Len(w)
  BY TrimLengthIs
<1> HIDE DEF m
<1>2. m \in Int /\ 1 \in Int /\ \A i \in 1..m : w[i] \in Char
  BY <1>1
<1>3. SubSeq(w, 1, m) \in Seq(Char)
  BY <1>2, SubSeqProperties
<1> QED
  BY <1>1, <1>3, Zenon

\* The entry of a line is a string.
LEMMA EntryType == \A s \in Seq(Byte) : Trimmed(Decoded(s)) \in Seq(Char)
  BY DecodedType, TrimmedType, Zenon

\* The entries of lines are as many strings.
LEMMA EntriesType ==
  \A lines \in Seq(Seq(Byte)) : EntriesOf(lines) \in Seq(Seq(Char))
<1> TAKE lines \in Seq(Seq(Byte))
<1>1. /\ Len(lines) \in Nat /\ DOMAIN lines = 1..Len(lines)
      /\ \A i \in 1..Len(lines) : lines[i] \in Seq(Byte)
  OBVIOUS
<1>2. \A i \in 1..Len(lines) : Trimmed(Decoded(lines[i])) \in Seq(Char)
  BY <1>1, EntryType, Zenon
<1>3. EntriesOf(lines) = [i \in 1..Len(lines) |-> Trimmed(Decoded(lines[i]))]
  BY <1>1 DEF EntriesOf
<1>4. EntriesOf(lines) \in [1..Len(lines) -> Seq(Char)]
  BY <1>2, <1>3
<1>5. \A S : \A n \in Nat : \A f \in [1..n -> S] : f \in Seq(S)
  OBVIOUS
<1> QED
  BY <1>1, <1>4, <1>5, Zenon

\* The entries of a line and of others.
LEMMA EntriesCons ==
  ASSUME NEW x \in Seq(Byte), NEW s \in Seq(Seq(Byte))
  PROVE  /\ EntriesOf(<<x>> \o s) = <<Trimmed(Decoded(x))>> \o EntriesOf(s)
         /\ GoodLines(<<x>> \o s) <=> GoodLine(x) /\ GoodLines(s)
<1> DEFINE a == <<x>> \o s
           v == Trimmed(Decoded(x))
           e == EntriesOf(s)
           b == <<v>> \o e
<1>1. /\ a \in Seq(Seq(Byte)) /\ Len(a) = Len(s) + 1 /\ a[1] = x
      /\ \A i \in 1..Len(s) : a[i + 1] = s[i]
  BY ConsIs
<1>2. v \in Seq(Char) /\ e \in Seq(Seq(Char)) /\ EntriesOf(a) \in Seq(Seq(Char))
  BY <1>1, EntryType, EntriesType
<1>3. /\ Len(s) \in Nat /\ DOMAIN s = 1..Len(s) /\ DOMAIN a = 1..Len(a)
      /\ 1 \in 1..Len(a)
      /\ \A i \in 1..Len(a) : i # 1 => i - 1 \in 1..Len(s) /\ (i - 1) + 1 = i
      /\ \A i \in 1..Len(s) : i + 1 \in 1..Len(a)
  <2> HIDE DEF a
  <2> QED BY <1>1
<1>4. /\ Len(e) = Len(s) /\ \A i \in 1..Len(s) : e[i] = Trimmed(Decoded(s[i]))
  BY <1>3 DEF EntriesOf
<1>5. /\ Len(EntriesOf(a)) = Len(a)
      /\ \A i \in 1..Len(a) : EntriesOf(a)[i] = Trimmed(Decoded(a[i]))
  <2> HIDE DEF a
  <2> QED BY <1>3, <1>1 DEF EntriesOf
<1> HIDE DEF v, e
<1>6. /\ b \in Seq(Seq(Char)) /\ Len(b) = Len(e) + 1 /\ b[1] = v
      /\ \A i \in 1..Len(e) : b[i + 1] = e[i]
  BY <1>2, ConsIs
<1> HIDE DEF a, b
<1>7. EntriesOf(a) = b
  <2>1. ASSUME NEW i \in 1..Len(a)
        PROVE  EntriesOf(a)[i] = b[i]
    <3>1. EntriesOf(a)[i] = Trimmed(Decoded(a[i]))
      BY <1>5
    <3>2. CASE i = 1
      <4>1. a[i] = x /\ b[i] = v
        BY <1>1, <1>6, <3>2, Zenon
      <4> QED BY <3>1, <4>1, Zenon DEF v
    <3>3. CASE i # 1
      <4>1. i - 1 \in 1..Len(s) /\ (i - 1) + 1 = i
        BY <1>3, <3>3
      <4>2. a[i] = s[i - 1] /\ b[i] = e[i - 1]
        BY <1>1, <1>4, <1>6, <4>1
      <4> QED BY <1>4, <3>1, <4>1, <4>2, Zenon
    <3> QED BY <3>2, <3>3
  <2>2. Len(EntriesOf(a)) = Len(b)
    BY <1>1, <1>4, <1>5, <1>6
  <2>3. \A i \in 1..Len(EntriesOf(a)) : EntriesOf(a)[i] = b[i]
    BY <1>5, <2>1
  <2> DEFINE ea == EntriesOf(a)
  <2>4. ea \in Seq(Seq(Char)) /\ Len(ea) = Len(b) /\ \A i \in 1..Len(ea) : ea[i] = b[i]
    BY <1>2, <2>2, <2>3, Zenon
  <2> HIDE DEF ea
  <2>5. ea = b
    BY <1>6, <2>4, SeqEqual
  <2> QED BY <2>5 DEF ea
<1>8. GoodLines(a) <=> GoodLine(x) /\ GoodLines(s)
  <2>1. ASSUME GoodLines(a) PROVE GoodLine(x) /\ GoodLines(s)
    <3>1. \A i \in 1..Len(a) : GoodLine(a[i])
      BY <1>3, <2>1, Zenon DEF GoodLines
    <3>2. GoodLine(x)
      BY <1>1, <1>3, <3>1, Zenon
    <3>3. \A i \in 1..Len(s) : GoodLine(s[i])
      BY <1>1, <1>3, <3>1, Zenon
    <3> QED BY <1>3, <3>2, <3>3, Zenon DEF GoodLines
  <2>2. ASSUME GoodLine(x), GoodLines(s) PROVE GoodLines(a)
    <3>1. \A i \in 1..Len(s) : GoodLine(s[i])
      BY <1>3, <2>2, Zenon DEF GoodLines
    <3>2. ASSUME NEW i \in 1..Len(a) PROVE GoodLine(a[i])
      <4>1. CASE i = 1
        BY <1>1, <2>2, <4>1, Zenon
      <4>2. CASE i # 1
        <5>1. i - 1 \in 1..Len(s) /\ a[i] = s[i - 1]
          BY <1>1, <1>3, <4>2
        <5> QED BY <3>1, <5>1, Zenon
      <4> QED BY <4>1, <4>2
    <3> QED BY <1>3, <3>2, Zenon DEF GoodLines
  <2> QED BY <2>1, <2>2, Zenon
<1> QED
  BY <1>7, <1>8 DEF a, b, v, e

\* An empty text has no entries; another one has that of its first line and
\* those of the others.
LEMMA EntriesStep ==
  /\ Entries(<<>>) = <<>> /\ Readable(<<>>)
  /\ \A t \in Seq(Byte) : Entries(t) \in Seq(Seq(Char))
  /\ \A t \in Seq(Byte) : t # <<>> =>
       /\ Entries(t) = <<Trimmed(Decoded(FirstLine(t)))>>
                         \o Entries(OtherLines(t))
       /\ Readable(t) <=> GoodLine(FirstLine(t)) /\ Readable(OtherLines(t))
<1>1. Entries(<<>>) = <<>> /\ Readable(<<>>)
  <2>1. EntriesOf(<<>>) = <<>> /\ GoodLines(<<>>)
    BY DEF EntriesOf, GoodLines
  <2> QED BY <2>1, LinesType, EntriesAreOfLines, Zenon
<1>2. \A t \in Seq(Byte) : Entries(t) \in Seq(Seq(Char))
  BY LinesType, EntriesAreOfLines, EntriesType, Zenon
<1>3. ASSUME NEW t \in Seq(Byte), t # <<>>
      PROVE  /\ Entries(t) = <<Trimmed(Decoded(FirstLine(t)))>>
                               \o Entries(OtherLines(t))
             /\ Readable(t) <=> /\ GoodLine(FirstLine(t))
                                /\ Readable(OtherLines(t))
  <2>1. FirstLine(t) \in Seq(Byte) /\ OtherLines(t) \in Seq(Byte)
    BY <1>3, FirstLineType
  <2>2. Lines(OtherLines(t)) \in Seq(Seq(Byte))
    BY <2>1, LinesType
  <2>3. Lines(t) = <<FirstLine(t)>> \o Lines(OtherLines(t))
    BY <1>3, LinesStep
  <2>4. /\ EntriesOf(<<FirstLine(t)>> \o Lines(OtherLines(t)))
             = <<Trimmed(Decoded(FirstLine(t)))>>
                 \o EntriesOf(Lines(OtherLines(t)))
        /\ GoodLines(<<FirstLine(t)>> \o Lines(OtherLines(t)))
             <=> GoodLine(FirstLine(t)) /\ GoodLines(Lines(OtherLines(t)))
    BY <2>1, <2>2, EntriesCons, Zenon
  <2> QED BY <2>3, <2>4, EntriesAreOfLines, Zenon
<1> QED
  BY <1>1, <1>2, <1>3, Zenon

-----------------------------------------------------------------------------
(* One turn of the loop of load_results_fp.                                *)

\* fgets returns the first line with its new line, if it is short enough.
LEMMA FgetsFirst ==
  ASSUME NEW t \in Seq(Byte), t # <<>>, Len(FirstLine(t)) < LineSize - 1
  PROVE  FgetsLength(t) = FirstEnd(t) /\ FirstEnd(t) < LineSize
<1> DEFINE S == {i \in DOMAIN t : t[i] = NL} \cup {LineSize - 1, Len(t)}
           e == LineEnd(t, 1)
<1>1. Len(t) \in Nat /\ LineSize \in Nat /\ LineSize > 1 /\ 1 \in 1..Len(t)
  BY SizeAssumption
<1>2. /\ e \in 1..(Len(t) + 1) /\ Len(FirstLine(t)) = e - 1
      /\ e <= Len(t) => t[e] = NL
      /\ \A i \in 1..Len(t) : t[i] = NL => e <= i
      /\ FirstEnd(t) = IF e <= Len(t) THEN e ELSE Len(t)
  BY <1>1, FirstLineType, LineEndIs DEF FirstEnd
<1> HIDE DEF e
<1>3. e < LineSize
  BY <1>1, <1>2
<1>4. S \in SUBSET Nat /\ S # {}
  BY <1>1
<1>5. \A i \in S : i = LineSize - 1 \/ i = Len(t) \/ (i \in 1..Len(t) /\ t[i] = NL)
  OBVIOUS
<1>6. FirstEnd(t) \in S
  BY <1>1, <1>2
<1>7. \A i \in S : FirstEnd(t) <= i
  <2> TAKE i \in S
  <2>1. CASE i = LineSize - 1
    BY <1>1, <1>2, <1>3, <2>1
  <2>2. CASE i = Len(t)
    BY <1>1, <1>2, <2>2
  <2>3. CASE i \in 1..Len(t) /\ t[i] = NL
    <3>1. e <= i
      BY <1>2, <2>3
    <3> QED BY <1>1, <1>2, <2>3, <3>1
  <2> QED BY <1>5, <2>1, <2>2, <2>3
<1>8. FgetsLength(t) = Min(S)
  BY Zenon DEF FgetsLength
<1> HIDE DEF S
<1>9. Min(S) \in S /\ \A i \in S : Min(S) <= i
  BY <1>4, MinOf
<1>10. Min(S) = FirstEnd(t)
  <2>1. /\ Min(S) \in Nat /\ FirstEnd(t) \in Nat
        /\ Min(S) <= FirstEnd(t) /\ FirstEnd(t) <= Min(S)
    BY <1>4, <1>6, <1>7, <1>9
  <2> QED BY <2>1
<1> QED
  BY <1>1, <1>2, <1>3, <1>8, <1>10

\* The new line changes nothing for a line that decodes.
LEMMA LineWithEnd ==
  ASSUME NEW s \in Seq(Byte), Decodes(s)
  PROVE  /\ Append(s, NL) \in Seq(Byte) /\ Decodes(Append(s, NL))
         /\ Trimmed(Decoded(Append(s, NL))) = Trimmed(Decoded(s))
<1> DEFINE w == Decoded(s)
           v == Append(w, NL)
<1>1. w \in Seq(Char) /\ s = Encoded(w)
  BY DecodedType, Zenon DEF Decodes
<1> HIDE DEF w
<1>2. v \in Seq(Char) /\ Trimmed(v) = Trimmed(w)
  BY <1>1, TrimmedLine
<1>3. NL \in Char /\ NL \in Byte /\ EncodedChar(NL) = <<NL>>
  BY DEF NL, Char, Byte, EncodedChar
<1>4. Encoded(v) = s \o <<NL>>
  BY <1>1, <1>3, EncodedAppend, Zenon
<1>5. Append(s, NL) \in Seq(Byte) /\ Append(s, NL) = s \o <<NL>>
  BY <1>3, AppendIsConcat
<1>6. Decoded(Encoded(v)) = v /\ Decodes(Encoded(v))
  BY <1>2, DecodedEncoded, Zenon
<1>7. Append(s, NL) = Encoded(v)
  BY <1>4, <1>5, Zenon
<1> QED
  BY <1>2, <1>5, <1>6, <1>7, Zenon DEF w

\* The bytes that fgets returns are the first line, or it and its new line.
LEMMA FgetsLine ==
  ASSUME NEW t \in Seq(Byte), t # <<>>
  PROVE  \/ SubSeq(t, 1, FirstEnd(t)) = FirstLine(t)
         \/ SubSeq(t, 1, FirstEnd(t)) = Append(FirstLine(t), NL)
<1> DEFINE e == LineEnd(t, 1)
<1>1. Len(t) \in Nat /\ 1 \in 1..Len(t)
  OBVIOUS
<1>2. /\ e \in 1..(Len(t) + 1) /\ FirstLine(t) = SubSeq(t, 1, e - 1)
      /\ e <= Len(t) => t[e] = NL
      /\ FirstEnd(t) = IF e <= Len(t) THEN e ELSE Len(t)
      /\ FirstLine(t) \in Seq(Byte)
  BY <1>1, LineEndIs, FirstLineType DEF FirstEnd, FirstLine
<1> HIDE DEF e
<1>3. CASE e <= Len(t)
  <2>1. 1 \in 1..Len(t) /\ e \in 1..Len(t)
    BY <1>1, <1>2, <1>3
  <2>2. SubSeq(t, 1, e) = SubSeq(t, 1, e - 1) \o <<t[e]>>
    BY <2>1, SubSeqRecursiveSecond
  <2>3. NL \in Byte
    BY DEF NL, Byte
  <2>4. Append(FirstLine(t), NL) = FirstLine(t) \o <<NL>>
    BY <1>2, <2>3, AppendIsConcat
  <2> QED BY <1>2, <1>3, <2>2, <2>4, Zenon
<1>4. CASE ~(e <= Len(t))
  <2>1. e - 1 = Len(t)
    BY <1>1, <1>2, <1>4
  <2> QED BY <1>2, <1>4, <2>1, Zenon
<1> QED
  BY <1>3, <1>4

\* The string that is made of the bytes that fgets returned.
Loaded(buf, t) ==
  LET c == wcs_strip_trailing_whitespaces(
             mbstowcs(buf, SubSeq(t, 1, FgetsLength(t))))
  IN  SubSeq(c, 1, wcslen(c))

\* A turn of the loop takes the first line off a text and adds its entry.
LEMMA LineLoaded ==
  ASSUME NEW buf \in Buffer, NEW t \in Seq(Byte), t # <<>>
  PROVE  /\ Loaded(buf, t) \in Seq(Char)
         /\ SubSeq(t, FgetsLength(t) + 1, Len(t)) \in Seq(Byte)
         /\ Readable(t) =>
              /\ Readable(SubSeq(t, FgetsLength(t) + 1, Len(t)))
              /\ Entries(t) = <<Loaded(buf, t)>>
                    \o Entries(SubSeq(t, FgetsLength(t) + 1, Len(t)))
<1> DEFINE k == FgetsLength(t)
           s == SubSeq(t, 1, k)
           c == wcs_strip_trailing_whitespaces(mbstowcs(buf, s))
<1>1. Loaded(buf, t) = SubSeq(c, 1, wcslen(c))
  BY Zenon DEF Loaded
<1>2. k \in 0..Len(t) /\ k < LineSize /\ Len(t) \in Nat
  BY FgetsType
<1> HIDE DEF k
<1>3. s \in Seq(Byte) /\ Len(s) = k
  <2>1. \A i \in 1..k : t[i] \in Byte
    BY <1>2
  <2>2. 1 \in Int /\ k \in Int /\ (1 <= k => k - 1 + 1 = k) /\ (~(1 <= k) => k = 0)
    BY <1>2
  <2>3. s \in Seq(Byte) /\ Len(s) = IF 1 <= k THEN k - 1 + 1 ELSE 0
    BY <2>1, <2>2, SubSeqProperties
  <2> QED BY <2>2, <2>3
<1>4. SubSeq(t, k + 1, Len(t)) \in Seq(Byte)
  <2>1. \A i \in (k + 1)..Len(t) : t[i] \in Byte
    BY <1>2
  <2>2. k + 1 \in Int /\ Len(t) \in Int
    BY <1>2
  <2> QED BY <2>1, <2>2, SubSeqProperties
<1> HIDE DEF s
<1>5. c \in Buffer
  BY <1>3, BufferStep
<1> HIDE DEF c
<1>6. Loaded(buf, t) \in Seq(Char)
  BY <1>1, <1>5, WcslenType
<1>7. ASSUME Readable(t)
      PROVE  /\ Readable(SubSeq(t, k + 1, Len(t)))
             /\ Entries(t) = <<Loaded(buf, t)>>
                               \o Entries(SubSeq(t, k + 1, Len(t)))
  <2>1. /\ Entries(t) = <<Trimmed(Decoded(FirstLine(t)))>>
                          \o Entries(OtherLines(t))
        /\ GoodLine(FirstLine(t)) /\ Readable(OtherLines(t))
    BY <1>7, EntriesStep
  <2>2. k = FirstEnd(t) /\ k < LineSize
    BY <2>1, FgetsFirst DEF GoodLine, k
  <2>3. FirstLine(t) \in Seq(Byte)
    BY FirstLineType
  <2>4. OtherLines(t) = SubSeq(t, k + 1, Len(t))
    BY <2>2 DEF OtherLines
  <2>5. s = FirstLine(t) \/ s = Append(FirstLine(t), NL)
    BY <2>2, FgetsLine DEF s
  <2>6. Decodes(s) /\ Trimmed(Decoded(s)) = Trimmed(Decoded(FirstLine(t)))
    BY <2>1, <2>3, <2>5, LineWithEnd, Zenon DEF GoodLine
  <2>7. Len(s) < LineSize
    BY <1>2, <1>3
  <2>8. SubSeq(c, 1, wcslen(c)) = Trimmed(Decoded(s))
    BY <1>3, <2>6, <2>7, BufferExact DEF c
  <2> QED BY <1>1, <2>1, <2>4, <2>6, <2>8, Zenon
<1> QED
  BY <1>4, <1>6, <1>7 DEF k

-----------------------------------------------------------------------------
(* LoadFaithful.                                                           *)

ValuesOf(r) == [i \in DOMAIN r |-> r[i].wcs_value]

\* During a load: the values of the results and the entries of what remains to
\* be read are the entries of the text; during the second one, the values of
\* the results after some of them.
Loading(r, rest, text) ==
  Readable(text) => /\ Readable(rest)
                    /\ ValuesOf(r) \o Entries(rest) = Entries(text)

Reloading(r, rest, text) ==
  Readable(text) =>
    /\ Readable(rest)
    /\ \E n \in 0..Len(r) :
         SubSeq(ValuesOf(r), n + 1, Len(r)) \o Entries(rest) = Entries(text)

LastValues(r, entries) ==
  SubSeq(ValuesOf(r), Len(r) - Len(entries) + 1, Len(r)) = entries

LoadInv ==
  /\ pc \in {"parse", "load"} => Loading(results, fp, session.file)
  /\ pc = "reload" => Reloading(results, fp, tmp)
  /\ pc = "loaded" /\ Readable(session.file) =>
       ValuesOf(results) = Entries(session.file)
  /\ pc \in {"changed", "unchanged"} /\ Readable(tmp) =>
       LastValues(results, Entries(tmp))

\* LoadFaithful is a part of it.
LEMMA LoadInvSays == LoadInv => LoadFaithful
<1>1. wcs_values = ValuesOf(results)
  BY Zenon DEF wcs_values, ValuesOf
<1> QED
  BY <1>1, Zenon DEF LoadInv, LoadFaithful, LastValues

\* The values of results, and of one more.
LEMMA ValuesType ==
  ASSUME NEW r \in Seq(Result)
  PROVE  ValuesOf(r) \in Seq(Seq(Char)) /\ Len(ValuesOf(r)) = Len(r)
<1>1. /\ Len(r) \in Nat /\ DOMAIN r = 1..Len(r)
      /\ \A i \in 1..Len(r) : r[i] \in Result
  OBVIOUS
<1>2. \A x \in Result : x.wcs_value \in Seq(Char)
  BY DEF Result
<1>3. ValuesOf(r) = [i \in 1..Len(r) |-> r[i].wcs_value]
  BY <1>1, Zenon DEF ValuesOf
<1>4. ValuesOf(r) \in [1..Len(r) -> Seq(Char)]
  BY <1>1, <1>2, <1>3
<1>5. \A S : \A n \in Nat : \A f \in [1..n -> S] : f \in Seq(S) /\ Len(f) = n
  OBVIOUS
<1> QED
  BY <1>1, <1>4, <1>5, Zenon

\* A result more is a value more, after the others.
LEMMA ValuesAppend ==
  ASSUME NEW r \in Seq(Result), NEW v \in Seq(Char)
  PROVE  /\ Append(r, result_new(v)) \in Seq(Result)
         /\ Len(Append(r, result_new(v))) = Len(r) + 1
         /\ ValuesOf(Append(r, result_new(v))) = Append(ValuesOf(r), v)
<1> DEFINE x == result_new(v)
           q == Append(r, x)
           a == ValuesOf(q)
           b == Append(ValuesOf(r), v)
<1>1. x \in Result /\ x.wcs_value = v
  BY NewResultType DEF result_new
<1> HIDE DEF x
<1>2. /\ q \in Seq(Result) /\ Len(q) = Len(r) + 1 /\ q[Len(r) + 1] = x
      /\ \A i \in 1..Len(r) : q[i] = r[i]
  BY <1>1, AppendProperties
<1> HIDE DEF q
<1>3. /\ a \in Seq(Seq(Char)) /\ Len(a) = Len(q)
      /\ ValuesOf(r) \in Seq(Seq(Char)) /\ Len(ValuesOf(r)) = Len(r)
  BY <1>2, ValuesType
<1>4. /\ \A i \in 1..Len(q) : a[i] = q[i].wcs_value
      /\ \A i \in 1..Len(r) : ValuesOf(r)[i] = r[i].wcs_value
  BY <1>2 DEF ValuesOf
<1> HIDE DEF a
<1>5. /\ b \in Seq(Seq(Char)) /\ Len(b) = Len(r) + 1 /\ b[Len(r) + 1] = v
      /\ \A i \in 1..Len(r) : b[i] = ValuesOf(r)[i]
  BY <1>3, AppendProperties
<1> HIDE DEF b
<1>6. ASSUME NEW i \in 1..Len(a)
      PROVE  a[i] = b[i]
  <2>1. i \in 1..Len(q) /\ Len(r) \in Nat /\ i \in 1..(Len(r) + 1)
    BY <1>2, <1>3
  <2>2. CASE i = Len(r) + 1
    BY <1>1, <1>2, <1>4, <1>5, <2>1, <2>2, Zenon
  <2>3. CASE i # Len(r) + 1
    <3>1. i \in 1..Len(r)
      BY <2>1, <2>3
    <3> QED BY <1>2, <1>4, <1>5, <2>1, <3>1, Zenon
  <2> QED BY <2>2, <2>3
<1>7. a = b
  BY <1>2, <1>3, <1>5, <1>6, SeqEqual
<1> QED
  BY <1>2, <1>7 DEF a, b, q, x

\* The end of a sequence that grows by an element.
EndGrows(S) ==
  \A s \in Seq(S), x \in S : \A n \in 0..Len(s) :
    /\ SubSeq(s, n + 1, Len(s)) \in Seq(S)
    /\ Len(SubSeq(s, n + 1, Len(s))) = Len(s) - n
    /\ SubSeq(Append(s, x), n + 1, Len(s) + 1)
         = SubSeq(s, n + 1, Len(s)) \o <<x>>

\* Any sequence grows so, and its end with it.
LEMMA EndAppend == \A S : EndGrows(S)
<1> TAKE S
<1> SUFFICES ASSUME NEW s \in Seq(S), NEW x \in S, NEW n \in 0..Len(s)
             PROVE  /\ SubSeq(s, n + 1, Len(s)) \in Seq(S)
                    /\ Len(SubSeq(s, n + 1, Len(s))) = Len(s) - n
                    /\ SubSeq(Append(s, x), n + 1, Len(s) + 1)
                         = SubSeq(s, n + 1, Len(s)) \o <<x>>
  BY DEF EndGrows
<1> DEFINE a == Append(s, x)
           m == Len(s) + 1
<1>1. /\ a \in Seq(S) /\ Len(a) = m /\ a[m] = x
      /\ \A i \in 1..Len(s) : a[i] = s[i]
  BY AppendProperties
<1> HIDE DEF a
<1>2. n + 1 \in 1..Len(a) /\ m \in (n + 1)..Len(a) /\ m - 1 = Len(s)
  BY <1>1
<1>3. SubSeq(a, n + 1, m) = SubSeq(a, n + 1, m - 1) \o <<a[m]>>
  BY <1>1, <1>2, SubSeqRecursiveSecond
<1>4. /\ Len(s) \in Int /\ n + 1 \in Int /\ Len(s) - (n + 1) + 1 = Len(s) - n
      /\ (IF n + 1 <= Len(s) THEN Len(s) - (n + 1) + 1 ELSE 0) = Len(s) - n
      /\ \A i \in (n + 1)..Len(s) : s[i] \in S
      /\ \A i \in (n + 1)..Len(s) : a[i] \in S
      /\ \A i \in 1..(Len(s) - n) : (n + 1) + i - 1 \in 1..Len(s)
  BY <1>1
<1>5. /\ SubSeq(s, n + 1, Len(s)) \in Seq(S)
      /\ Len(SubSeq(s, n + 1, Len(s))) = Len(s) - n
      /\ \A i \in 1..(Len(s) - n) :
           SubSeq(s, n + 1, Len(s))[i] = s[(n + 1) + i - 1]
  <2>1. /\ SubSeq(s, n + 1, Len(s)) \in Seq(S)
        /\ Len(SubSeq(s, n + 1, Len(s)))
             = IF n + 1 <= Len(s) THEN Len(s) - (n + 1) + 1 ELSE 0
        /\ \A i \in 1..(Len(s) - (n + 1) + 1) :
             SubSeq(s, n + 1, Len(s))[i] = s[(n + 1) + i - 1]
    <3> DEFINE lo == n + 1
               hi == Len(s)
    <3>1. lo \in Int /\ hi \in Int /\ \A i \in lo..hi : s[i] \in S
      BY <1>4
    <3> HIDE DEF lo, hi
    <3>2. /\ SubSeq(s, lo, hi) \in Seq(S)
          /\ Len(SubSeq(s, lo, hi)) = IF lo <= hi THEN hi - lo + 1 ELSE 0
          /\ \A i \in 1..(hi - lo + 1) :
               SubSeq(s, lo, hi)[i] = s[lo + i - 1]
      BY <3>1, SubSeqProperties
    <3> QED BY <3>2 DEF lo, hi
  <2> QED BY <1>4, <2>1, Zenon
<1>6. /\ SubSeq(a, n + 1, Len(s)) \in Seq(S)
      /\ Len(SubSeq(a, n + 1, Len(s))) = Len(s) - n
      /\ \A i \in 1..(Len(s) - n) :
           SubSeq(a, n + 1, Len(s))[i] = a[(n + 1) + i - 1]
  <2>1. /\ SubSeq(a, n + 1, Len(s)) \in Seq(S)
        /\ Len(SubSeq(a, n + 1, Len(s)))
             = IF n + 1 <= Len(s) THEN Len(s) - (n + 1) + 1 ELSE 0
        /\ \A i \in 1..(Len(s) - (n + 1) + 1) :
             SubSeq(a, n + 1, Len(s))[i] = a[(n + 1) + i - 1]
    <3> DEFINE lo == n + 1
               hi == Len(s)
    <3>1. lo \in Int /\ hi \in Int /\ \A i \in lo..hi : a[i] \in S
      BY <1>4
    <3> HIDE DEF lo, hi
    <3>2. /\ SubSeq(a, lo, hi) \in Seq(S)
          /\ Len(SubSeq(a, lo, hi)) = IF lo <= hi THEN hi - lo + 1 ELSE 0
          /\ \A i \in 1..(hi - lo + 1) :
               SubSeq(a, lo, hi)[i] = a[lo + i - 1]
      BY <3>1, SubSeqProperties
    <3> QED BY <3>2 DEF lo, hi
  <2> QED BY <1>4, <2>1, Zenon
<1>7. SubSeq(a, n + 1, Len(s)) = SubSeq(s, n + 1, Len(s))
  <2>1. \A i \in 1..(Len(s) - n) :
          SubSeq(a, n + 1, Len(s))[i] = SubSeq(s, n + 1, Len(s))[i]
    BY <1>1, <1>4, <1>5, <1>6
  <2> QED BY <1>5, <1>6, <2>1, SeqEqual
<1>8. SubSeq(a, n + 1, m) = SubSeq(s, n + 1, Len(s)) \o <<x>>
  BY <1>1, <1>2, <1>3, <1>7, Zenon
<1> QED
  BY <1>5, <1>8 DEF a

\* Concatenating sequences of strings is associative.
LEMMA StringsAssociative ==
  \A s, t, u \in Seq(Seq(Char)) : (s \o t) \o u = s \o (t \o u)
  OBVIOUS

\* The string v was made of the first line of f, and g is what is left.
Taken(f, v, g) == Readable(f) => Readable(g) /\ Entries(f) = <<v>> \o Entries(g)

\* A turn of the loop keeps what a load knows.
LEMMA LoadingStep ==
  ASSUME NEW r \in Seq(Result), NEW f \in Seq(Byte), NEW g \in Seq(Byte),
         NEW v \in Seq(Char), NEW text, Taken(f, v, g)
  PROVE  /\ Loading(r, f, text) => Loading(Append(r, result_new(v)), g, text)
         /\ Reloading(r, f, text)
              => Reloading(Append(r, result_new(v)), g, text)
<1> DEFINE q == Append(r, result_new(v))
           a == ValuesOf(r)
           b == Entries(g)
<1>1. /\ q \in Seq(Result) /\ Len(q) = Len(r) + 1
      /\ ValuesOf(q) = Append(a, v)
  BY ValuesAppend
<1> HIDE DEF q
<1>2. a \in Seq(Seq(Char)) /\ Len(a) = Len(r) /\ b \in Seq(Seq(Char))
  BY ValuesType, EntriesStep
<1> HIDE DEF a, b
<1>3. <<v>> \in Seq(Seq(Char)) /\ Append(a, v) = a \o <<v>>
  BY <1>2, AppendIsConcat
<1>4. \A s, t, u \in Seq(Seq(Char)) : (s \o t) \o u = s \o (t \o u)
  BY StringsAssociative
<1>5. ASSUME Loading(r, f, text), Readable(text)
      PROVE  Readable(g) /\ ValuesOf(q) \o Entries(g) = Entries(text)
  <2>1. Readable(f) /\ a \o Entries(f) = Entries(text)
    BY <1>5, Zenon DEF Loading, a
  <2>2. Readable(g) /\ Entries(f) = <<v>> \o b
    BY <2>1, Zenon DEF Taken, b
  <2>3. (a \o <<v>>) \o b = a \o (<<v>> \o b)
    BY <1>2, <1>3, <1>4, Zenon
  <2> QED BY <1>1, <1>3, <2>1, <2>2, <2>3, Zenon DEF b
<1>6. ASSUME Reloading(r, f, text), Readable(text)
      PROVE  /\ Readable(g)
             /\ \E n \in 0..Len(q) :
                  SubSeq(ValuesOf(q), n + 1, Len(q)) \o Entries(g)
                    = Entries(text)
  <2>1. PICK n \in 0..Len(r) :
          /\ Readable(f)
          /\ SubSeq(a, n + 1, Len(r)) \o Entries(f) = Entries(text)
    BY <1>6, Zenon DEF Reloading, a
  <2>2. Readable(g) /\ Entries(f) = <<v>> \o b
    BY <2>1, Zenon DEF Taken, b
  <2> DEFINE e == SubSeq(a, n + 1, Len(r))
  <2>3. /\ e \in Seq(Seq(Char))
        /\ SubSeq(Append(a, v), n + 1, Len(r) + 1) = e \o <<v>>
    <3>1. n \in 0..Len(a)
      BY <1>2
    <3>2. /\ SubSeq(a, n + 1, Len(a)) \in Seq(Seq(Char))
          /\ SubSeq(Append(a, v), n + 1, Len(a) + 1)
               = SubSeq(a, n + 1, Len(a)) \o <<v>>
      <4>1. EndGrows(Seq(Char))
        BY EndAppend, Zenon
      <4> QED BY <1>2, <3>1, <4>1, Zenon DEF EndGrows
    <3> QED BY <1>2, <3>2, Zenon
  <2> HIDE DEF e
  <2>4. (e \o <<v>>) \o b = e \o (<<v>> \o b)
    BY <1>2, <1>3, <1>4, <2>3, Zenon
  <2>5. n \in 0..Len(q)
    <3>1. Len(r) \in Nat
      OBVIOUS
    <3> QED BY <1>1, <3>1
  <2>6. SubSeq(ValuesOf(q), n + 1, Len(q)) \o Entries(g) = Entries(text)
    BY <1>1, <2>1, <2>2, <2>3, <2>4, Zenon DEF b, e
  <2> QED BY <2>2, <2>5, <2>6, Zenon
<1>7. Loading(r, f, text) => Loading(q, g, text)
  BY <1>5, Zenon DEF Loading
<1>8. Reloading(r, f, text) => Reloading(q, g, text)
  BY <1>6, Zenon DEF Reloading
<1> QED
  BY <1>7, <1>8 DEF q

\* What a load knows when nothing is left to be read.
LEMMA LoadingEnd ==
  ASSUME NEW r \in Seq(Result), NEW text \in Seq(Byte), Readable(text)
  PROVE  /\ Loading(r, <<>>, text) => ValuesOf(r) = Entries(text)
         /\ Reloading(r, <<>>, text) => LastValues(r, Entries(text))
<1> DEFINE a == ValuesOf(r)
           e == Entries(text)
<1>1. a \in Seq(Seq(Char)) /\ Len(a) = Len(r) /\ Len(r) \in Nat
  BY ValuesType
<1>2. e \in Seq(Seq(Char))
  BY EntriesStep
<1> HIDE DEF a, e
<1>3. \A s \in Seq(Seq(Char)) : s \o <<>> = s
  BY ConcatEmptySeq
<1>4. Loading(r, <<>>, text) => a = e
  BY <1>1, <1>3, EntriesStep, Zenon DEF Loading, a, e
<1>5. ASSUME Reloading(r, <<>>, text)
      PROVE  LastValues(r, e)
  <2>1. PICK n \in 0..Len(r) : SubSeq(a, n + 1, Len(r)) \o <<>> = e
    BY <1>5, EntriesStep, Zenon DEF Reloading, a, e
  <2> DEFINE u == SubSeq(a, n + 1, Len(r))
  <2>2. u \in Seq(Seq(Char)) /\ Len(u) = Len(r) - n
    <3>1. <<>> \in Seq(Char)
      OBVIOUS
    <3> QED BY <1>1, <3>1, EndAppend
  <2> HIDE DEF u
  <2>3. u = e
    BY <1>3, <2>1, <2>2, Zenon DEF u
  <2>4. Len(r) - Len(e) + 1 = n + 1
    <3>1. Len(e) = Len(r) - n
      BY <2>2, <2>3, Zenon
    <3> QED BY <1>1, <3>1
  <2> QED BY <2>3, <2>4, Zenon DEF LastValues, a, u
<1> QED
  BY <1>4, <1>5 DEF a, e

\* Every step keeps LoadInv.
LEMMA LoadStep ==
  TypeOK /\ LoadInv /\ [Next]_vars => LoadInv'
<1> SUFFICES ASSUME TypeOK, LoadInv, [Next]_vars PROVE LoadInv'
  OBVIOUS
<1>1. /\ fp \in Seq(Byte) /\ tmp \in Seq(Byte) /\ wline \in Buffer
      /\ results \in Seq(Result) /\ session.file \in Seq(Byte)
  BY DEF TypeOK, Buffer, Given
<1>2. CASE ParseAdd
  <2>1. /\ pc = "parse" /\ pc' \in {"load", "failed"}
        /\ UNCHANGED <<session, fp, results, tmp>>
    BY <1>2 DEF ParseAdd, reading
  <2> QED BY <2>1 DEF LoadInv
<1>3. CASE ReadLine
  <2>1. /\ pc \in {"load", "reload"} /\ fp # <<>>
        /\ fp' = SubSeq(fp, FgetsLength(fp) + 1, Len(fp))
        /\ results' = Append(results, result_new(Loaded(wline, fp)))
        /\ UNCHANGED <<session, pc, tmp>>
    BY <1>3, Zenon DEF ReadLine, Loaded
  <2>2. /\ Loaded(wline, fp) \in Seq(Char) /\ fp' \in Seq(Byte)
        /\ Taken(fp, Loaded(wline, fp), fp')
    BY <1>1, <2>1, LineLoaded DEF Taken
  <2>3. /\ Loading(results, fp, session.file)
             => Loading(results', fp', session.file)
        /\ Reloading(results, fp, tmp) => Reloading(results', fp', tmp)
    <3> DEFINE v == Loaded(wline, fp)
               g == fp'
    <3> HIDE DEF v, g
    <3>1. /\ v \in Seq(Char) /\ g \in Seq(Byte) /\ Taken(fp, v, g)
          /\ results' = Append(results, result_new(v))
      BY <2>1, <2>2 DEF v, g
    <3>2. \A text :
            /\ Loading(results, fp, text)
                 => Loading(Append(results, result_new(v)), g, text)
            /\ Reloading(results, fp, text)
                 => Reloading(Append(results, result_new(v)), g, text)
      BY <1>1, <3>1, LoadingStep
    <3> QED BY <3>1, <3>2 DEF g
  <2>4. pc' = pc /\ session' = session /\ tmp' = tmp
    BY <2>1
  <2> QED BY <2>1, <2>3, <2>4 DEF LoadInv
<1>4. CASE LoadEnd
  <2>1. /\ pc \in {"load", "reload"} /\ fp = <<>>
        /\ pc = "load" => pc' = "loaded"
        /\ pc = "reload" => pc' \in {"changed", "unchanged"}
        /\ UNCHANGED <<session, fp, results, tmp>>
    BY <1>4 DEF LoadEnd, reading
  <2>2. CASE pc = "load"
    <3>1. Readable(session.file) => ValuesOf(results) = Entries(session.file)
      BY <1>1, <2>1, <2>2, LoadingEnd, Zenon DEF LoadInv
    <3>2. /\ pc' = "loaded"
          /\ session' = session /\ results' = results
      BY <2>1, <2>2
    <3> QED BY <3>1, <3>2 DEF LoadInv
  <2>3. CASE pc = "reload"
    <3>1. Readable(tmp) => LastValues(results, Entries(tmp))
      BY <1>1, <2>1, <2>3, LoadingEnd, Zenon DEF LoadInv
    <3>2. pc' \in {"changed", "unchanged"} /\ tmp' = tmp /\ results' = results
      BY <2>1, <2>3
    <3> QED BY <3>1, <3>2 DEF LoadInv
  <2> QED BY <2>1, <2>2, <2>3
<1>5. CASE HasChanged
  <2>1. pc' = "reload" /\ fp' = tmp /\ UNCHANGED <<results, tmp>>
    BY <1>5 DEF HasChanged
  <2> DEFINE n == Len(results)
             a == ValuesOf(results)
  <2>2. a \in Seq(Seq(Char)) /\ n \in Nat /\ n \in 0..n
    BY <1>1, ValuesType
  <2>3. SubSeq(a, n + 1, n) = <<>>
    <3>1. n + 1 \in Int /\ n \in Int /\ n < n + 1
      BY <2>2
    <3> QED BY <3>1, SubSeqEmpty
  <2>4. Entries(tmp) \in Seq(Seq(Char))
    BY <1>1, EntriesStep
  <2>5. <<>> \o Entries(tmp) = Entries(tmp)
    BY <2>4, ConcatEmptySeq
  <2>6. SubSeq(a, n + 1, n) \o Entries(tmp) = Entries(tmp)
    BY <2>3, <2>5, Zenon
  <2>7. Reloading(results, tmp, tmp)
    BY <2>2, <2>6, Zenon DEF Reloading
  <2> QED BY <2>1, <2>7 DEF LoadInv
<1>6. CASE AddPasswords \/ Dump \/ Editor \/ NoPasswords \/ Get
  <2>1. pc' \in {"added", "dumped", "edited", "failed", "shown"}
    BY <1>6 DEF AddPasswords, Dump, Editor, NoPasswords, Get
  <2> QED BY <2>1 DEF LoadInv
<1>7. CASE Refine
  <2>1. pc' = "shown"
    BY <1>7 DEF Refine
  <2> QED BY <2>1 DEF LoadInv
<1>8. CASE UNCHANGED vars
  <2>1. UNCHANGED <<session, pc, fp, results, tmp>>
    BY <1>8 DEF vars, reading
  <2> QED BY <2>1 DEF LoadInv
<1> QED
  BY <1>2, <1>3, <1>4, <1>5, <1>6, <1>7, <1>8 DEF Next

\* Loading a text whose lines decode and fit the buffer yields its lines
\* without their trailing blanks, each one once and in order, and so does
\* loading the edited text into the buffer and after the results of the first
\* load, whatever they are (load_results_fp, has_changed).
THEOREM LoadsFaithful == Spec => []LoadFaithful
<1>1. Init => TypeOK /\ BufferTerminated /\ ArrayFits
  BY InitType
<1>2. TypeOK /\ BufferTerminated /\ ArrayFits /\ [Next]_vars
        => (TypeOK /\ BufferTerminated /\ ArrayFits)'
  BY TypeStep
<1>3. Init => LoadInv
  <2> SUFFICES ASSUME Init PROVE LoadInv
    OBVIOUS
  <2>1. /\ pc \in {"parse", "load"} /\ fp = session.file /\ results = <<>>
        /\ session.file \in Seq(Byte)
    BY TextAssumption DEF Init, Given
  <2>2. ValuesOf(<<>>) = <<>>
    BY DEF ValuesOf
  <2>3. Entries(session.file) \in Seq(Seq(Char))
    BY <2>1, EntriesStep
  <2>4. <<>> \o Entries(session.file) = Entries(session.file)
    BY <2>3, ConcatEmptySeq
  <2>5. Loading(results, fp, session.file)
    BY <2>1, <2>2, <2>4, Zenon DEF Loading
  <2> QED BY <2>1, <2>5 DEF LoadInv
<1>4. TypeOK /\ LoadInv /\ [Next]_vars => LoadInv'
  BY LoadStep
<1>5. LoadInv => LoadFaithful
  BY LoadInvSays
<1> QED
  BY <1>1, <1>2, <1>3, <1>4, <1>5, PTL DEF Spec

-----------------------------------------------------------------------------
(* The text of the temporary file.                                         *)

\* A text that is put in front of others comes first.
LEMMA FlattenCons ==
  ASSUME NEW x \in Seq(Byte), NEW seqs \in Seq(Seq(Byte))
  PROVE  FlattenSeq(<<x>> \o seqs) = x \o FlattenSeq(seqs)
<1> DEFINE pre(n) == SubSeq(seqs, 1, n)
           G == {n \in Nat : n <= Len(seqs) =>
                   FlattenSeq(<<x>> \o pre(n)) = x \o FlattenSeq(pre(n))}
<1>1. /\ FlattenSeq(<<>>) = <<>>
      /\ \A s \in Seq(Seq(Byte)) : FlattenSeq(s) \in Seq(Byte)
      /\ \A s \in Seq(Seq(Byte)), y \in Seq(Byte) :
           FlattenSeq(Append(s, y)) = FlattenSeq(s) \o y
  BY FlattenAppend
<1>2. <<x>> \in Seq(Seq(Byte)) /\ Append(<<>>, x) = <<x>> /\ <<>> \in Seq(Seq(Byte))
  OBVIOUS
<1>3. FlattenSeq(<<x>>) = x
  <2>1. <<>> \o x = x
    BY ConcatEmptySeq
  <2> QED BY <1>1, <1>2, <2>1, Zenon
<1>4. 0 \in G
  <2>1. pre(0) = <<>> /\ <<x>> \o <<>> = <<x>> /\ x \o <<>> = x
    BY <1>2, ConcatEmptySeq
  <2> HIDE DEF pre
  <2> QED BY <1>1, <1>3, <2>1
<1>5. ASSUME NEW n \in Nat, n \in G
      PROVE  n + 1 \in G
  <2>1. SUFFICES ASSUME n + 1 <= Len(seqs)
                 PROVE  FlattenSeq(<<x>> \o pre(n + 1))
                          = x \o FlattenSeq(pre(n + 1))
    <3>1. n + 1 \in Nat
      OBVIOUS
    <3> HIDE DEF pre
    <3> QED BY <3>1, Zenon
  <2> DEFINE y == seqs[n + 1]
  <2>2. /\ pre(n) \in Seq(Seq(Byte)) /\ y \in Seq(Byte) /\ n <= Len(seqs)
        /\ pre(n + 1) = Append(pre(n), y)
    BY <2>1
  <2>3. FlattenSeq(<<x>> \o pre(n)) = x \o FlattenSeq(pre(n))
    BY <1>5, <2>2
  <2> HIDE DEF pre, y
  <2>4. /\ <<x>> \o Append(pre(n), y) = Append(<<x>> \o pre(n), y)
        /\ <<x>> \o pre(n) \in Seq(Seq(Byte))
    <3>1. \A s, u \in Seq(Seq(Byte)), z \in Seq(Byte) :
            s \o Append(u, z) = Append(s \o u, z) /\ s \o u \in Seq(Seq(Byte))
      OBVIOUS
    <3> QED BY <1>2, <2>2, <3>1, Zenon
  <2>5. /\ FlattenSeq(Append(pre(n), y)) = FlattenSeq(pre(n)) \o y
        /\ FlattenSeq(Append(<<x>> \o pre(n), y))
             = FlattenSeq(<<x>> \o pre(n)) \o y
        /\ FlattenSeq(pre(n)) \in Seq(Byte)
    BY <1>1, <2>2, <2>4, Zenon
  <2>6. (x \o FlattenSeq(pre(n))) \o y = x \o (FlattenSeq(pre(n)) \o y)
    <3>1. \A s, u, z \in Seq(Byte) : (s \o u) \o z = s \o (u \o z)
      BY ConcatAssociative
    <3> QED BY <2>2, <2>5, <3>1, Zenon
  <2> QED BY <2>2, <2>3, <2>4, <2>5, <2>6, Zenon
<1>6. \A n \in Nat : n \in G
  <2> HIDE DEF G
  <2> QED BY <1>4, <1>5, UpwardNat
<1>7. Len(seqs) \in Nat /\ Len(seqs) <= Len(seqs) /\ pre(Len(seqs)) = seqs
  BY SubSeqFull
<1>8. Len(seqs) \in G
  BY <1>6, <1>7
<1> QED
  BY <1>7, <1>8

\* The values of a function over a sequence of strings.
Mapped(f, s) == [i \in DOMAIN s |-> f[s[i]]]

\* The value of the first string comes first.
LEMMA MappedCons ==
  ASSUME NEW f, NEW x \in Seq(Char), NEW s \in Seq(Seq(Char))
  PROVE  Mapped(f, <<x>> \o s) = <<f[x]>> \o Mapped(f, s)
<1> DEFINE T == {f[z] : z \in Seq(Char)}
           a == <<x>> \o s
           p == Mapped(f, a)
           q == Mapped(f, s)
           b == <<f[x]>> \o q
<1>1. /\ a \in Seq(Seq(Char)) /\ Len(a) = Len(s) + 1 /\ a[1] = x
      /\ \A i \in 1..Len(s) : a[i + 1] = s[i]
  BY ConsIs
<1> HIDE DEF a
<1>2. \A z \in Seq(Char) : f[z] \in T
  OBVIOUS
<1> HIDE DEF T
<1>3. ASSUME NEW r \in Seq(Seq(Char))
      PROVE  /\ Mapped(f, r) \in Seq(T) /\ Len(Mapped(f, r)) = Len(r)
             /\ \A i \in 1..Len(r) : Mapped(f, r)[i] = f[r[i]]
  <2>1. /\ Len(r) \in Nat /\ DOMAIN r = 1..Len(r)
        /\ \A i \in 1..Len(r) : r[i] \in Seq(Char)
    OBVIOUS
  <2>2. Mapped(f, r) = [i \in 1..Len(r) |-> f[r[i]]]
    BY <2>1, Zenon DEF Mapped
  <2>3. Mapped(f, r) \in [1..Len(r) -> T]
    BY <1>2, <2>1, <2>2
  <2>4. \A S : \A n \in Nat : \A g \in [1..n -> S] : g \in Seq(S) /\ Len(g) = n
    OBVIOUS
  <2>5. \A i \in 1..Len(r) : Mapped(f, r)[i] = f[r[i]]
    BY <2>2
  <2> QED BY <2>1, <2>3, <2>4, <2>5, Zenon
<1>4. /\ p \in Seq(T) /\ Len(p) = Len(a) /\ \A i \in 1..Len(a) : p[i] = f[a[i]]
      /\ q \in Seq(T) /\ Len(q) = Len(s) /\ \A i \in 1..Len(s) : q[i] = f[s[i]]
      /\ f[x] \in T
  BY <1>1, <1>2, <1>3, Zenon
<1> HIDE DEF p, q
<1>5. /\ b \in Seq(T) /\ Len(b) = Len(q) + 1 /\ b[1] = f[x]
      /\ \A i \in 1..Len(q) : b[i + 1] = q[i]
  BY <1>4, ConsIs
<1> HIDE DEF b
<1>6. ASSUME NEW i \in 1..Len(p)
      PROVE  p[i] = b[i]
  <2>1. i \in 1..Len(a) /\ Len(s) \in Nat /\ i \in 1..(Len(s) + 1)
    BY <1>1, <1>4
  <2>2. CASE i = 1
    BY <1>1, <1>4, <1>5, <2>1, <2>2, Zenon
  <2>3. CASE i # 1
    <3>1. i - 1 \in 1..Len(s) /\ (i - 1) + 1 = i
      BY <2>1, <2>3
    <3>2. a[i] = s[i - 1] /\ b[i] = q[i - 1]
      BY <1>1, <1>4, <1>5, <3>1
    <3> QED BY <1>4, <2>1, <3>1, <3>2, Zenon
  <2> QED BY <2>2, <2>3
<1>7. p = b
  BY <1>1, <1>4, <1>5, <1>6, SeqEqual
<1> QED
  BY <1>7 DEF p, b, a, q

\* A text without new lines and a new line, in front of a text, are its first
\* line.
LEMMA FirstLineIs ==
  ASSUME NEW u \in Seq(Byte), NEW r \in Seq(Byte), \A i \in 1..Len(u) : u[i] # NL
  PROVE  /\ Append(u, NL) \o r \in Seq(Byte) /\ Append(u, NL) \o r # <<>>
         /\ FirstLine(Append(u, NL) \o r) = u
         /\ OtherLines(Append(u, NL) \o r) = r
<1> DEFINE a == Append(u, NL)
           t == a \o r
           n == Len(u)
<1>1. NL \in Byte
  BY DEF NL, Byte
<1>2. /\ a \in Seq(Byte) /\ Len(a) = n + 1 /\ a[n + 1] = NL
      /\ \A i \in 1..n : a[i] = u[i]
  BY <1>1, AppendProperties
<1> HIDE DEF a
<1>3. /\ t \in Seq(Byte) /\ Len(t) = Len(a) + Len(r)
      /\ \A i \in 1..(Len(a) + Len(r)) :
           t[i] = IF i <= Len(a) THEN a[i] ELSE r[i - Len(a)]
  BY <1>2, ConcatProperties
<1>4. n \in Nat /\ Len(r) \in Nat
  OBVIOUS
<1> HIDE DEF n, t
<1>5. /\ \A i \in 1..n : i \in 1..(Len(a) + Len(r)) /\ i <= Len(a)
      /\ n + 1 \in 1..(Len(a) + Len(r)) /\ n + 1 <= Len(a)
      /\ \A i \in 1..Len(r) : /\ i + (n + 1) \in 1..(Len(a) + Len(r))
                              /\ ~(i + (n + 1) <= Len(a))
                              /\ (i + (n + 1)) - Len(a) = i
  BY <1>2, <1>4
<1>6. /\ \A i \in 1..n : t[i] = u[i]
      /\ t[n + 1] = NL
      /\ \A i \in 1..Len(r) : t[i + (n + 1)] = r[i]
  <2>1. \A i \in 1..n : t[i] = u[i]
    BY <1>2, <1>3, <1>5
  <2>2. t[n + 1] = NL
    BY <1>2, <1>3, <1>5
  <2>3. \A i \in 1..Len(r) : t[i + (n + 1)] = r[i]
    BY <1>3, <1>5
  <2> QED BY <2>1, <2>2, <2>3
<1>7. Len(t) = n + 1 + Len(r) /\ t # <<>> /\ 1 \in 1..Len(t)
  <2>1. Len(t) = n + 1 + Len(r) /\ Len(t) # 0
    BY <1>2, <1>3, <1>4
  <2>2. t # <<>>
    BY <2>1
  <2> QED BY <1>4, <2>1, <2>2
<1>8. LineEnd(t, 1) = n + 1
  <2>1. /\ n + 1 \in 1..(Len(t) + 1) /\ n + 1 <= Len(t)
        /\ \A k \in 1..((n + 1) - 1) : k \in 1..n
    BY <1>4, <1>7
  <2>2. \A k \in 1..((n + 1) - 1) : t[k] # NL
    BY <1>6, <2>1 DEF n
  <2> QED BY <1>3, <1>6, <1>7, <2>1, <2>2, LineEndUnique
<1>9. FirstEnd(t) = n + 1
  BY <1>4, <1>7, <1>8 DEF FirstEnd
<1>10. /\ FirstLine(t) \in Seq(Byte) /\ Len(FirstLine(t)) = n
       /\ \A i \in 1..n : FirstLine(t)[i] = t[i]
       /\ OtherLines(t) \in Seq(Byte) /\ Len(OtherLines(t)) = Len(r)
       /\ \A i \in 1..Len(r) : OtherLines(t)[i] = t[i + (n + 1)]
  <2>1. /\ FirstLine(t) \in Seq(Byte) /\ Len(FirstLine(t)) = LineEnd(t, 1) - 1
        /\ \A i \in 1..(LineEnd(t, 1) - 1) : FirstLine(t)[i] = t[i]
        /\ OtherLines(t) \in Seq(Byte)
        /\ Len(t) = Len(OtherLines(t)) + FirstEnd(t)
        /\ \A i \in 1..Len(OtherLines(t)) :
             OtherLines(t)[i] = t[i + FirstEnd(t)]
    BY <1>3, <1>7, FirstLineType
  <2>2. LineEnd(t, 1) - 1 = n
    BY <1>4, <1>8
  <2>3. Len(OtherLines(t)) = Len(r)
    <3>1. Len(OtherLines(t)) \in Nat
      BY <2>1
    <3> QED BY <1>4, <1>7, <1>9, <2>1, <3>1
  <2> QED BY <1>9, <2>1, <2>2, <2>3, Zenon
<1>11. FirstLine(t) = u
  <2>1. \A i \in 1..n : FirstLine(t)[i] = u[i]
    BY <1>6, <1>10
  <2> QED BY <1>10, <2>1, SeqEqual DEF n
<1>12. OtherLines(t) = r
  <2>1. \A i \in 1..Len(r) : OtherLines(t)[i] = r[i]
    BY <1>6, <1>10
  <2> QED BY <1>10, <2>1, SeqEqual
<1> QED
  BY <1>3, <1>7, <1>11, <1>12 DEF t, a

\* No byte of a string is a new line when no character is.
LEMMA EncodedNewLine ==
  ASSUME NEW w \in Seq(Char), \A i \in 1..Len(w) : w[i] # NL
  PROVE  \A i \in 1..Len(Encoded(w)) : Encoded(w)[i] # NL
<1> DEFINE Clean(s) == \A i \in 1..Len(s) : s[i] # NL
           G == {n \in Nat : \A v \in Seq(Char) :
                   Len(v) = n /\ Clean(v) => Clean(Encoded(v))}
<1>1. 0 \in G
  <2>1. \A v \in Seq(Char) : Len(v) = 0 => v = <<>>
    OBVIOUS
  <2>2. Clean(Encoded(<<>>))
    BY EncodedAppend
  <2> HIDE DEF Clean
  <2> QED BY <2>1, <2>2
<1>2. ASSUME NEW n \in Nat, n \in G
      PROVE  n + 1 \in G
  <2>1. SUFFICES ASSUME NEW v \in Seq(Char), Len(v) = n + 1, Clean(v)
                 PROVE  Clean(Encoded(v))
    <3> HIDE DEF Clean
    <3> QED OBVIOUS
  <2> DEFINE c == Head(v)
             u == Tail(v)
             e == EncodedChar(c)
             f == Encoded(u)
  <2>2. v # <<>>
    BY <2>1
  <2>3. /\ c \in Char /\ u \in Seq(Char) /\ Len(v) = Len(u) + 1
        /\ v = <<c>> \o u
    BY <2>2, FirstChar
  <2>4. c # NL /\ Clean(u) /\ Len(u) = n
    <3>1. c = v[1] /\ 1 \in 1..Len(v)
      BY <2>1, <2>2
    <3>2. /\ \A i \in 1..Len(u) : u[i] = v[i + 1]
          /\ \A i \in 1..Len(u) : i + 1 \in 1..Len(v)
      <4>1. \A i \in 1..Len(u) : u[i] = v[i + 1]
        BY <2>2, HeadTailProperties
      <4>2. Len(u) \in Nat
        BY <2>3
      <4> QED BY <2>1, <2>3, <4>1, <4>2
    <3>3. Len(u) = n
      <4>1. Len(u) \in Nat
        BY <2>3
      <4> QED BY <2>1, <2>3, <4>1
    <3> QED BY <2>1, <3>1, <3>2, <3>3
  <2> HIDE DEF c, u
  <2>5. Clean(f)
    <3> HIDE DEF Clean
    <3> QED BY <1>2, <2>3, <2>4
  <2>6. f \in Seq(Byte)
    BY <2>3, EncodedAppend
  <2>7. e \in Seq(Byte) /\ Clean(e)
    <3>1. /\ e \in Seq(Byte) /\ Len(e) \in 1..2
          /\ Len(e) = 1 => e[1] = c
          /\ Len(e) = 2 => e[1] \in 194..223 /\ e[2] \in 128..191
      BY <2>3, EncodedCharIs
    <3> HIDE DEF e
    <3>2. CASE Len(e) = 1
      BY <2>4, <3>1, <3>2
    <3>3. CASE Len(e) = 2
      <4>1. \A b \in (194..223) \cup (128..191) : b # NL
        BY DEF NL
      <4>2. e[1] # NL /\ e[2] # NL
        BY <3>1, <3>3, <4>1
      <4>3. \A i \in 1..Len(e) : i = 1 \/ i = 2
        BY <3>3
      <4> QED BY <3>1, <4>2, <4>3, Zenon
    <3> QED BY <3>1, <3>2, <3>3
  <2>8. Encoded(v) = e \o f
    BY <2>3, EncodedCons, Zenon
  <2> HIDE DEF e, f
  <2>9. Clean(e \o f)
    <3>1. /\ Len(e \o f) = Len(e) + Len(f)
          /\ \A i \in 1..(Len(e) + Len(f)) :
               (e \o f)[i] = IF i <= Len(e) THEN e[i] ELSE f[i - Len(e)]
      BY <2>6, <2>7, ConcatProperties
    <3>2. Len(e) \in Nat /\ Len(f) \in Nat
      BY <2>6, <2>7
    <3>3. ASSUME NEW i \in 1..(Len(e) + Len(f)) PROVE (e \o f)[i] # NL
      <4>1. CASE i <= Len(e)
        <5>1. i \in 1..Len(e)
          BY <3>2, <4>1
        <5> QED BY <2>7, <3>1, <4>1, <5>1
      <4>2. CASE ~(i <= Len(e))
        <5>1. i - Len(e) \in 1..Len(f)
          BY <3>2, <4>2
        <5> QED BY <2>5, <3>1, <4>2, <5>1
      <4> QED BY <4>1, <4>2
    <3> QED BY <3>1, <3>3
  <2> QED BY <2>8, <2>9, Zenon
<1>3. \A n \in Nat : n \in G
  <2> HIDE DEF G
  <2> QED BY <1>1, <1>2, UpwardNat
<1>4. Len(w) \in Nat /\ Clean(w)
  OBVIOUS
<1>5. Len(w) \in G
  <2> HIDE DEF G
  <2> QED BY <1>3, <1>4
<1>6. Clean(Encoded(w))
  <2> HIDE DEF Clean
  <2> QED BY <1>4, <1>5
<1> QED
  BY <1>6

-----------------------------------------------------------------------------
(* DumpFaithful.                                                           *)

\* The line that is written for a string, and what it is read as.
LineOf == [v \in Seq(Char) |-> Append(Encoded(v), NL)]

EntryOf == [v \in Seq(Char) |-> Trimmed(v)]

\* A string that is written on one line that fits the buffer.
OneLine(v) == /\ Len(Encoded(v)) < LineSize - 1
              /\ \A i \in 1..Len(v) : v[i] # NL

OneLines(vals) == \A i \in 1..Len(vals) : OneLine(vals[i])

DumpText(vals) == FlattenSeq(Mapped(LineOf, vals))

\* What is read of strings, each on a line of its own.
ReadBack(vals) == /\ Readable(DumpText(vals))
                  /\ Entries(DumpText(vals)) = Mapped(EntryOf, vals)

\* The lines of strings are a text.
LEMMA DumpTextType ==
  ASSUME NEW vals \in Seq(Seq(Char))
  PROVE  Mapped(LineOf, vals) \in Seq(Seq(Byte)) /\ DumpText(vals) \in Seq(Byte)
<1>1. /\ Len(vals) \in Nat /\ DOMAIN vals = 1..Len(vals)
      /\ \A i \in 1..Len(vals) : vals[i] \in Seq(Char)
  OBVIOUS
<1>2. \A v \in Seq(Char) : LineOf[v] \in Seq(Byte)
  <2> TAKE v \in Seq(Char)
  <2>1. Encoded(v) \in Seq(Byte) /\ NL \in Byte
    BY EncodedAppend DEF NL, Byte
  <2>2. Append(Encoded(v), NL) \in Seq(Byte)
    BY <2>1, AppendProperties
  <2> QED BY <2>2 DEF LineOf
<1>3. Mapped(LineOf, vals) = [i \in 1..Len(vals) |-> LineOf[vals[i]]]
  BY <1>1, Zenon DEF Mapped
<1>4. Mapped(LineOf, vals) \in [1..Len(vals) -> Seq(Byte)]
  BY <1>1, <1>2, <1>3
<1>5. \A S : \A n \in Nat : \A g \in [1..n -> S] : g \in Seq(S)
  OBVIOUS
<1>6. Mapped(LineOf, vals) \in Seq(Seq(Byte))
  BY <1>1, <1>4, <1>5, Zenon
<1>7. \A s \in Seq(Seq(Byte)) : FlattenSeq(s) \in Seq(Byte)
  BY FlattenAppend
<1> QED
  BY <1>6, <1>7, Zenon DEF DumpText

\* A first string, and others.
LEMMA ReadBackCons ==
  ASSUME NEW v \in Seq(Char), NEW vals \in Seq(Seq(Char)),
         OneLine(v), ReadBack(vals)
  PROVE  ReadBack(<<v>> \o vals)
<1> DEFINE u == Encoded(v)
           r == DumpText(vals)
           t == Append(u, NL) \o r
<1>1. /\ u \in Seq(Byte) /\ Decoded(u) = v /\ Decodes(u)
      /\ \A i \in 1..Len(u) : u[i] # NL
      /\ Len(u) < LineSize - 1
  BY EncodedAppend, DecodedEncoded, EncodedNewLine DEF OneLine
<1>2. r \in Seq(Byte) /\ Mapped(LineOf, vals) \in Seq(Seq(Byte))
  BY DumpTextType
<1>3. /\ Mapped(LineOf, <<v>> \o vals) = <<LineOf[v]>> \o Mapped(LineOf, vals)
      /\ Mapped(EntryOf, <<v>> \o vals)
           = <<EntryOf[v]>> \o Mapped(EntryOf, vals)
  BY MappedCons
<1>4. LineOf[v] = Append(u, NL) /\ EntryOf[v] = Trimmed(v)
  BY DEF LineOf, EntryOf
<1>5. Append(u, NL) \in Seq(Byte)
  <2>1. NL \in Byte
    BY DEF NL, Byte
  <2> HIDE DEF u
  <2> QED BY <1>1, <2>1, AppendProperties
<1>6. DumpText(<<v>> \o vals) = t
  <2>1. FlattenSeq(<<Append(u, NL)>> \o Mapped(LineOf, vals))
          = Append(u, NL) \o FlattenSeq(Mapped(LineOf, vals))
    BY <1>2, <1>5, FlattenCons
  <2> QED BY <1>3, <1>4, <2>1, Zenon DEF DumpText
<1> HIDE DEF u, r
<1>7. /\ t \in Seq(Byte) /\ t # <<>> /\ FirstLine(t) = u
      /\ OtherLines(t) = r
  BY <1>1, <1>2, FirstLineIs
<1> HIDE DEF t
<1>8. /\ Entries(t) = <<Trimmed(Decoded(FirstLine(t)))>>
                        \o Entries(OtherLines(t))
      /\ Readable(t) <=> GoodLine(FirstLine(t)) /\ Readable(OtherLines(t))
  BY <1>7, EntriesStep
<1>9. Readable(r) /\ Entries(r) = Mapped(EntryOf, vals)
  BY Zenon DEF ReadBack, r
<1>10. Readable(t)
  BY <1>1, <1>7, <1>8, <1>9, Zenon DEF GoodLine
<1>11. Entries(t) = Mapped(EntryOf, <<v>> \o vals)
  BY <1>1, <1>3, <1>4, <1>7, <1>8, <1>9, Zenon
<1> QED
  BY <1>6, <1>10, <1>11, Zenon DEF ReadBack

\* Strings that are written on a line each are read back without the blanks at
\* their ends, all of them and in order.
THEOREM DumpIsReadBack ==
  \A vals \in Seq(Seq(Char)) : OneLines(vals) => ReadBack(vals)
<1> DEFINE G == {n \in Nat : \A vals \in Seq(Seq(Char)) :
                   Len(vals) = n /\ OneLines(vals) => ReadBack(vals)}
<1>1. 0 \in G
  <2>1. \A vals \in Seq(Seq(Char)) : Len(vals) = 0 => vals = <<>>
    OBVIOUS
  <2>2. \A f : Mapped(f, <<>>) = <<>>
    BY DEF Mapped
  <2>3. FlattenSeq(<<>>) = <<>>
    BY FlattenAppend
  <2>4. ReadBack(<<>>)
    BY <2>2, <2>3, EntriesStep, Zenon DEF ReadBack, DumpText
  <2> QED BY <2>1, <2>4
<1>2. ASSUME NEW n \in Nat, n \in G
      PROVE  n + 1 \in G
  <2>1. SUFFICES ASSUME NEW vals \in Seq(Seq(Char)), Len(vals) = n + 1,
                        OneLines(vals)
                 PROVE  ReadBack(vals)
    OBVIOUS
  <2> DEFINE v == vals[1]
             r == SubSeq(vals, 2, n + 1)
  <2>2. /\ v \in Seq(Char) /\ r \in Seq(Seq(Char)) /\ Len(r) = n
        /\ \A i \in 1..n : r[i] = vals[i + 1]
        /\ vals = <<v>> \o r
    <3>1. 1 \in 1..Len(vals) /\ n + 1 \in 1..Len(vals)
      BY <2>1
    <3>2. /\ 2 \in Int /\ n + 1 \in Int /\ (n + 1) - 2 + 1 = n
          /\ (IF 2 <= n + 1 THEN (n + 1) - 2 + 1 ELSE 0) = n
          /\ \A i \in 1..n : 2 + i - 1 = i + 1
      OBVIOUS
    <3>3. \A i \in 2..(n + 1) : vals[i] \in Seq(Char)
      BY <2>1
    <3>4. r \in Seq(Seq(Char)) /\ Len(r) = n /\ \A i \in 1..n : r[i] = vals[i + 1]
      BY <3>2, <3>3, SubSeqProperties
    <3>5. vals = <<v>> \o r
      <4> DEFINE b == <<v>> \o r
      <4>1. v \in Seq(Char)
        BY <3>1
      <4> HIDE DEF v, r
      <4>2. /\ b \in Seq(Seq(Char)) /\ Len(b) = Len(r) + 1 /\ b[1] = v
            /\ \A i \in 1..Len(r) : b[i + 1] = r[i]
        BY <3>4, <4>1, ConsIs
      <4> HIDE DEF b
      <4>3. ASSUME NEW i \in 1..Len(vals) PROVE vals[i] = b[i]
        <5>1. CASE i = 1
          BY <4>2, <5>1 DEF v
        <5>2. CASE i # 1
          <6>1. i - 1 \in 1..n /\ (i - 1) + 1 = i
            BY <2>1, <5>2
          <6> QED BY <3>4, <4>2, <6>1
        <5> QED BY <5>1, <5>2
      <4>4. vals = b
        BY <2>1, <3>4, <4>2, <4>3, SeqEqual
      <4> QED BY <4>4 DEF b
    <3> QED BY <3>1, <3>4, <3>5
  <2>3. OneLine(v) /\ OneLines(r)
    <3>1. 1 \in 1..Len(vals) /\ \A i \in 1..n : i + 1 \in 1..Len(vals)
      BY <2>1
    <3> HIDE DEF r
    <3>2. \A i \in 1..n : OneLine(r[i])
      BY <2>1, <2>2, <3>1, Zenon DEF OneLines
    <3> QED BY <2>1, <2>2, <3>1, <3>2, Zenon DEF OneLines
  <2> HIDE DEF v, r
  <2>4. ReadBack(r)
    BY <1>2, <2>2, <2>3
  <2> QED BY <2>2, <2>3, <2>4, ReadBackCons, Zenon
<1>3. \A n \in Nat : n \in G
  <2> HIDE DEF G
  <2> QED BY <1>1, <1>2, UpwardNat
<1> QED
  <2> TAKE vals \in Seq(Seq(Char))
  <2>1. Len(vals) \in Nat
    OBVIOUS
  <2>2. Len(vals) \in G
    BY <1>3, <2>1
  <2> QED BY <2>2

\* DumpFaithful, of the results and of a text.
Dumped(r, t) ==
  (\A i \in DOMAIN r : /\ Len(Encoded(r[i].wcs_value)) < LineSize - 1
                       /\ NL \notin Range(r[i].wcs_value))
  => Readable(t) /\ Entries(t) = [i \in DOMAIN r |-> Trimmed(ValuesOf(r)[i])]

\* DumpFaithful says it of the results that edit_results wrote to tmp.
LEMMA DumpFaithfulIs == DumpFaithful <=> (pc = "dumped" => Dumped(results, tmp))
<1>1. wcs_values = ValuesOf(results)
  BY Zenon DEF wcs_values, ValuesOf
<1> QED
  BY <1>1, Zenon DEF DumpFaithful, Dumped

\* The temporary file is that text.
LEMMA DumpedStep ==
  ASSUME TypeOK, Dump
  PROVE  Dumped(results, tmp')
<1> DEFINE a == ValuesOf(results)
<1>1. results \in Seq(Result)
  BY DEF TypeOK
<1>2. /\ a \in Seq(Seq(Char)) /\ Len(a) = Len(results)
      /\ DOMAIN results = 1..Len(results) /\ DOMAIN a = 1..Len(results)
      /\ \A i \in 1..Len(results) :
           a[i] = results[i].wcs_value /\ a[i] \in Seq(Char)
  <2>1. a \in Seq(Seq(Char)) /\ Len(a) = Len(results)
    BY <1>1, ValuesType
  <2>2. DOMAIN results = 1..Len(results)
    BY <1>1
  <2>3. \A i \in 1..Len(results) : a[i] = results[i].wcs_value
    BY <2>2 DEF ValuesOf
  <2> HIDE DEF a
  <2>4. DOMAIN a = 1..Len(results) /\ \A i \in 1..Len(results) : a[i] \in Seq(Char)
    BY <2>1
  <2> QED BY <2>1, <2>2, <2>3, <2>4
<1> HIDE DEF a
<1>3. tmp' = DumpText(a)
  <2>1. tmp' = FlattenSeq([i \in DOMAIN results |->
                             Append(Encoded(results[i].wcs_value), NL)])
    BY Zenon DEF Dump
  <2>2. \A i \in 1..Len(results) :
          LineOf[a[i]] = Append(Encoded(results[i].wcs_value), NL)
    BY <1>2 DEF LineOf
  <2>3. Mapped(LineOf, a) = [i \in DOMAIN results |->
                               Append(Encoded(results[i].wcs_value), NL)]
    BY <1>2, <2>2 DEF Mapped
  <2> QED BY <2>1, <2>3, Zenon DEF DumpText
<1>4. ASSUME \A i \in DOMAIN results :
               /\ Len(Encoded(results[i].wcs_value)) < LineSize - 1
               /\ NL \notin Range(results[i].wcs_value)
      PROVE  OneLines(a)
  <2>1. ASSUME NEW i \in 1..Len(results)
        PROVE  OneLine(a[i])
    <3>1. /\ Len(Encoded(a[i])) < LineSize - 1 /\ NL \notin Range(a[i])
      BY <1>2, <1>4, Zenon
    <3>2. DOMAIN a[i] = 1..Len(a[i])
      BY <1>2
    <3>3. \A j \in 1..Len(a[i]) : a[i][j] # NL
      BY <3>1, <3>2 DEF Range
    <3> QED BY <3>1, <3>3, Zenon DEF OneLine
  <2> QED BY <1>2, <2>1, Zenon DEF OneLines
<1>5. Mapped(EntryOf, a) = [i \in DOMAIN results |-> Trimmed(a[i])]
  BY <1>2 DEF Mapped, EntryOf
<1>6. OneLines(a) => ReadBack(a)
  BY <1>2, DumpIsReadBack, Zenon
<1> QED
  BY <1>3, <1>4, <1>5, <1>6, Zenon DEF ReadBack, Dumped, a

\* Whoever reads the temporary file finds the entries of the results, without
\* the blanks at their ends and in order, also those of lines that were not
\* decoded, as long as no entry is too long for the buffer or was given with a
\* new line inside (edit_results).
THEOREM DumpsFaithful == Spec => []DumpFaithful
<1>1. Init => TypeOK /\ BufferTerminated /\ ArrayFits
  BY InitType
<1>2. TypeOK /\ BufferTerminated /\ ArrayFits /\ [Next]_vars
        => (TypeOK /\ BufferTerminated /\ ArrayFits)'
  BY TypeStep
<1> DEFINE Inv == pc = "dumped" => Dumped(results, tmp)
<1>3. Init => Inv
  BY DEF Init
<1>4. TypeOK /\ Inv /\ [Next]_vars => Inv'
  <2> SUFFICES ASSUME TypeOK, Inv, [Next]_vars, pc' = "dumped"
               PROVE  Dumped(results', tmp')
    OBVIOUS
  <2>1. CASE Dump
    <3>1. Dumped(results, tmp') /\ results' = results
      BY <2>1, DumpedStep DEF Dump, reading
    <3> QED BY <3>1
  <2>2. CASE UNCHANGED vars
    <3>1. pc' = pc /\ results' = results /\ tmp' = tmp
      BY <2>2 DEF vars, reading
    <3> QED BY <3>1
  <2>3. CASE ParseAdd \/ ReadLine \/ LoadEnd \/ AddPasswords \/ Editor
               \/ HasChanged \/ NoPasswords \/ Get \/ Refine
    BY <2>3 DEF ParseAdd, ReadLine, LoadEnd, AddPasswords, Editor, HasChanged,
                NoPasswords, Get, Refine
  <2> QED BY <2>1, <2>2, <2>3 DEF Next
<1>5. Inv => DumpFaithful
  BY DumpFaithfulIs
<1> QED
  BY <1>1, <1>2, <1>3, <1>4, <1>5, PTL DEF Spec

-----------------------------------------------------------------------------
(* NoFalseChange: sums that are taken line by line.                        *)

\* Nothing is added to a sum by no bytes.
LEMMA SumOfNone ==
  ASSUME NEW c \in Word
  PROVE  CKSUM_Update(c, <<>>) = c
<1>1. <<>> \in Seq(Byte) /\ Len(<<>>) = 0
  OBVIOUS
<1>2. PICK f : Sums(f, c, <<>>) /\ CKSUM_Update(c, <<>>) = f[Len(<<>>)]
  BY <1>1, SumIs
<1> QED
  BY <1>1, <1>2 DEF Sums

\* The sum of a text in two parts.
LEMMA SumSplit ==
  ASSUME NEW c \in Word, NEW t \in Seq(Byte), NEW k \in 0..Len(t)
  PROVE  /\ Len(SubSeq(t, k + 1, Len(t))) = Len(t) - k
         /\ CKSUM_Update(CKSUM_Update(c, SubSeq(t, 1, k)),
                         SubSeq(t, k + 1, Len(t))) = CKSUM_Update(c, t)
<1> DEFINE L == Len(t)
           u == SubSeq(t, 1, k)
           v == SubSeq(t, k + 1, L)
<1>1. L \in Nat /\ k \in Nat /\ k <= L /\ L - k \in Nat
  OBVIOUS
<1>2. u \in Seq(Byte) /\ Len(u) = k /\ \A i \in 1..k : u[i] = t[i]
  <2>1. \A i \in 1..k : t[i] \in Byte
    OBVIOUS
  <2>2. 1 \in Int /\ k \in Int /\ (1 <= k => k - 1 + 1 = k) /\ (~(1 <= k) => k = 0)
    BY <1>1
  <2>3. u \in Seq(Byte) /\ Len(u) = IF 1 <= k THEN k - 1 + 1 ELSE 0
    BY <2>1, <2>2, SubSeqProperties
  <2>4. Len(u) = k
    BY <2>2, <2>3
  <2>5. \A i \in 1..k : u[i] = t[i]
    OBVIOUS
  <2> QED BY <2>3, <2>4, <2>5
<1>3. /\ v \in Seq(Byte) /\ Len(v) = L - k
      /\ \A i \in 1..(L - k) : v[i] = t[i + k]
  OBVIOUS
<1> HIDE DEF L, u, v
<1>4. PICK f : Sums(f, c, t) /\ CKSUM_Update(c, t) = f[L]
  BY SumIs DEF L
<1>5. PICK g : Sums(g, c, u) /\ CKSUM_Update(c, u) = g[k]
  BY <1>2, SumIs
<1>6. CKSUM_Update(c, u) \in Word
  BY <1>2, SumType
<1>7. PICK h : /\ Sums(h, g[k], v)
               /\ CKSUM_Update(CKSUM_Update(c, u), v) = h[L - k]
  BY <1>3, <1>5, <1>6, SumIs
<1>8. /\ f[0] = c /\ \A n \in 1..L : f[n] = UPDATE(f[n - 1], t[n])
      /\ g[0] = c /\ \A n \in 1..k : g[n] = UPDATE(g[n - 1], u[n])
      /\ h[0] = g[k]
      /\ \A n \in 1..(L - k) : h[n] = UPDATE(h[n - 1], v[n])
  BY <1>2, <1>3, <1>4, <1>5, <1>7 DEF Sums, L
<1>9. g[k] = f[k]
  <2> DEFINE G == {n \in Nat : n <= k => g[n] = f[n]}
  <2>1. 0 \in G
    BY <1>8
  <2>2. ASSUME NEW n \in Nat, n \in G
        PROVE  n + 1 \in G
    <3>1. SUFFICES ASSUME n + 1 <= k PROVE g[n + 1] = f[n + 1]
      OBVIOUS
    <3>2. n + 1 \in 1..k /\ n + 1 \in 1..L /\ (n + 1) - 1 = n /\ n <= k
      BY <1>1, <3>1
    <3>3. g[n] = f[n]
      BY <2>2, <3>2
    <3> QED BY <1>2, <1>8, <3>2, <3>3
  <2>3. k \in G
    <3> HIDE DEF G
    <3> QED BY <1>1, <2>1, <2>2, UpwardNat
  <2> QED BY <1>1, <2>3
<1>10. h[L - k] = f[L]
  <2> DEFINE G == {n \in Nat : n <= L - k => h[n] = f[n + k]}
  <2>1. 0 \in G
    <3>1. 0 + k = k
      BY <1>1
    <3> QED BY <1>8, <1>9, <3>1
  <2>2. ASSUME NEW n \in Nat, n \in G
        PROVE  n + 1 \in G
    <3>1. SUFFICES ASSUME n + 1 <= L - k PROVE h[n + 1] = f[(n + 1) + k]
      OBVIOUS
    <3>2. /\ n + 1 \in 1..(L - k) /\ (n + 1) + k \in 1..L
          /\ (n + 1) - 1 = n /\ ((n + 1) + k) - 1 = n + k /\ n <= L - k
      BY <1>1, <3>1
    <3>3. h[n] = f[n + k]
      BY <2>2, <3>2
    <3>4. h[n + 1] = UPDATE(f[n + k], t[(n + 1) + k])
      BY <1>3, <1>8, <3>2, <3>3
    <3>5. f[(n + 1) + k] = UPDATE(f[n + k], t[(n + 1) + k])
      BY <1>8, <3>2
    <3> QED BY <3>4, <3>5
  <2>3. L - k \in G
    <3> HIDE DEF G
    <3> QED BY <1>1, <2>1, <2>2, UpwardNat
  <2>4. (L - k) + k = L
    BY <1>1
  <2> QED BY <1>1, <2>3, <2>4
<1> QED
  BY <1>2, <1>3, <1>4, <1>7, <1>10 DEF L, u, v

\* The sum of a text.
TextSum(t) == CKSUM_Final(CKSUM_Update({}, t), Len(t))

\* The sum of what was read goes on to the sum of the text.
Summed(c, n, rest, text) ==
  /\ CKSUM_Update(c, rest) = CKSUM_Update({}, text)
  /\ n + Len(rest) = Len(text)

SumInv ==
  /\ pc \in {"parse", "load"} => Summed(crc, len, fp, session.file)
  /\ pc = "reload" => Summed(crc, len, fp, tmp)
  /\ pc \in {"loaded", "added", "dumped", "edited"} /\ session.exists =>
       result_crc32 = TextSum(session.file)
  /\ pc = "reload" /\ session.exists => previous_crc32 = TextSum(session.file)
  /\ pc \in {"changed", "unchanged"} /\ session.exists =>
       (pc = "changed" <=> TextSum(tmp) # TextSum(session.file))

\* A turn of the loop keeps the sum.
LEMMA SummedStep ==
  ASSUME NEW c \in Word, NEW n \in Nat, NEW rest \in Seq(Byte), NEW text,
         NEW k \in 0..Len(rest), Summed(c, n, rest, text)
  PROVE  Summed(CKSUM_Update(c, SubSeq(rest, 1, k)), n + k,
                SubSeq(rest, k + 1, Len(rest)), text)
<1>1. /\ Len(SubSeq(rest, k + 1, Len(rest))) = Len(rest) - k
      /\ CKSUM_Update(CKSUM_Update(c, SubSeq(rest, 1, k)),
                      SubSeq(rest, k + 1, Len(rest))) = CKSUM_Update(c, rest)
  BY SumSplit, Zenon
<1>2. (n + k) + (Len(rest) - k) = n + Len(rest)
  OBVIOUS
<1> QED
  BY <1>1, <1>2, Zenon DEF Summed

\* At the end it is the sum of the text.
LEMMA SummedEnd ==
  ASSUME NEW c \in Word, NEW n \in Nat, NEW text, Summed(c, n, <<>>, text)
  PROVE  CKSUM_Final(c, n) = TextSum(text)
<1>1. CKSUM_Update(c, <<>>) = c
  BY SumOfNone
<1>2. n + Len(<<>>) = n
  OBVIOUS
<1> QED
  BY <1>1, <1>2, Zenon DEF Summed, TextSum

\* A load starts with all of the text before it.
LEMMA SummedInit ==
  ASSUME NEW text \in Seq(Byte)
  PROVE  Summed({}, 0, text, text)
<1>1. 0 + Len(text) = Len(text)
  OBVIOUS
<1> QED
  BY <1>1, Zenon DEF Summed

\* Every step keeps SumInv.
LEMMA SumStep ==
  TypeOK /\ SumInv /\ [Next]_vars => SumInv'
<1> SUFFICES ASSUME TypeOK, SumInv, [Next]_vars PROVE SumInv'
  OBVIOUS
<1>1. /\ fp \in Seq(Byte) /\ tmp \in Seq(Byte) /\ session.file \in Seq(Byte)
      /\ crc \in Word /\ len \in Nat
  BY DEF TypeOK, Given
<1>2. CASE ParseAdd
  <2>1. /\ pc = "parse" /\ pc' \in {"load", "failed"}
        /\ UNCHANGED <<session, fp, crc, len>>
    BY <1>2 DEF ParseAdd, reading
  <2> QED BY <2>1 DEF SumInv
<1>3. CASE ReadLine
  <2> DEFINE k == FgetsLength(fp)
             line == SubSeq(fp, 1, k)
             rest == SubSeq(fp, k + 1, Len(fp))
  <2>1. /\ pc \in {"load", "reload"}
        /\ fp' = rest /\ crc' = CKSUM_Update(crc, line) /\ len' = len + k
        /\ UNCHANGED <<session, pc, tmp, result_crc32, previous_crc32>>
    BY <1>3, Zenon DEF ReadLine, sums
  <2>2. k \in 0..Len(fp)
    BY <1>1, FgetsType
  <2>3. \A text : Summed(crc, len, fp, text)
                    => Summed(CKSUM_Update(crc, line), len + k, rest, text)
    <3> HIDE DEF k
    <3> QED BY <1>1, <2>2, SummedStep
  <2>4. /\ Summed(crc, len, fp, session.file)
             => Summed(crc', len', fp', session'.file)
        /\ Summed(crc, len, fp, tmp) => Summed(crc', len', fp', tmp')
    BY <2>1, <2>3, Zenon
  <2>5. /\ pc' = pc /\ session' = session
        /\ previous_crc32' = previous_crc32
    BY <2>1
  <2> HIDE DEF k
  <2> QED BY <2>1, <2>4, <2>5 DEF SumInv
<1>4. CASE LoadEnd
  <2>1. /\ pc \in {"load", "reload"} /\ fp = <<>>
        /\ (pc = "load" /\ session.exists) \/ pc = "reload"
             => result_crc32' = CKSUM_Final(crc, len)
        /\ pc = "load" => pc' = "loaded"
        /\ pc = "reload" =>
             /\ pc' \in {"changed", "unchanged"}
             /\ pc' = "changed" <=> previous_crc32 # result_crc32'
        /\ UNCHANGED <<session, tmp>>
    BY <1>4 DEF LoadEnd
  <2>2. \A text : Summed(crc, len, <<>>, text)
                    => CKSUM_Final(crc, len) = TextSum(text)
    BY <1>1, SummedEnd
  <2>3. CASE pc = "load"
    <3>1. CKSUM_Final(crc, len) = TextSum(session.file)
      BY <2>1, <2>2, <2>3 DEF SumInv
    <3> QED BY <2>1, <2>3, <3>1 DEF SumInv
  <2>4. CASE pc = "reload"
    <3>1. CKSUM_Final(crc, len) = TextSum(tmp)
      BY <2>1, <2>2, <2>4 DEF SumInv
    <3>2. session.exists => previous_crc32 = TextSum(session.file)
      BY <2>4 DEF SumInv
    <3> QED BY <2>1, <2>4, <3>1, <3>2 DEF SumInv
  <2> QED BY <2>1, <2>3, <2>4
<1>5. CASE AddPasswords \/ Dump \/ Editor
  <2>1. /\ pc \in {"loaded", "added", "dumped"}
        /\ pc' \in {"added", "dumped", "edited"}
        /\ UNCHANGED <<session, result_crc32>>
    BY <1>5 DEF AddPasswords, Dump, Editor, sums
  <2> QED BY <2>1 DEF SumInv
<1>6. CASE HasChanged
  <2>1. /\ pc = "edited" /\ pc' = "reload"
        /\ previous_crc32' = result_crc32
        /\ fp' = tmp /\ crc' = {} /\ len' = 0
        /\ UNCHANGED <<session, tmp>>
    BY <1>6 DEF HasChanged
  <2>2. Summed(crc', len', fp', tmp')
    BY <1>1, <2>1, SummedInit
  <2> QED BY <2>1, <2>2 DEF SumInv
<1>7. CASE NoPasswords \/ Get \/ Refine
  <2>1. pc' \in {"failed", "shown"}
    BY <1>7 DEF NoPasswords, Get, Refine
  <2> QED BY <2>1 DEF SumInv
<1>8. CASE UNCHANGED vars
  <2>1. UNCHANGED <<session, pc, fp, crc, len, tmp, result_crc32,
                    previous_crc32>>
    BY <1>8 DEF vars, reading, sums
  <2> QED BY <2>1 DEF SumInv
<1> QED
  BY <1>2, <1>3, <1>4, <1>5, <1>6, <1>7, <1>8 DEF Next

\* The sums of the two whole texts decide, however their lines fell into the
\* buffer.
SumsDecide ==
  pc \in {"changed", "unchanged"} /\ session.exists =>
    (pc = "changed" <=> TextSum(tmp) # TextSum(session.file))

\* has_changed decides by the sums of the two whole texts: the one that was
\* decrypted and the one that the editor left, of whatever length they are and
\* however fgets cut them.
THEOREM SumsOfTheTexts == Spec => []SumsDecide
<1>1. Init => TypeOK /\ BufferTerminated /\ ArrayFits
  BY InitType
<1>2. TypeOK /\ BufferTerminated /\ ArrayFits /\ [Next]_vars
        => (TypeOK /\ BufferTerminated /\ ArrayFits)'
  BY TypeStep
<1>3. Init => SumInv
  <2> SUFFICES ASSUME Init PROVE SumInv
    OBVIOUS
  <2>1. /\ pc \in {"parse", "load"} /\ crc = {} /\ len = 0
        /\ fp = session.file
    BY DEF Init
  <2>2. session.file \in Seq(Byte)
    BY <1>1 DEF TypeOK, Given
  <2>3. Summed(crc, len, fp, session.file)
    BY <2>1, <2>2, SummedInit
  <2> QED BY <2>1, <2>3 DEF SumInv
<1>4. TypeOK /\ SumInv /\ [Next]_vars => SumInv'
  BY SumStep
<1>5. SumInv => SumsDecide
  BY DEF SumInv, SumsDecide
<1> QED
  BY <1>1, <1>2, <1>3, <1>4, <1>5, PTL DEF Spec

\* A text that was read and that the editor left as it was is not encrypted
\* again: one text has one sum (has_changed).
THEOREM ChangesAreReal == Spec => []NoFalseChange
<1>1. SumsDecide => NoFalseChange
  BY DEF SumsDecide, NoFalseChange
<1> QED
  BY <1>1, SumsOfTheTexts, PTL

=============================================================================
