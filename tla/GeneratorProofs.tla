--------------------------- MODULE GeneratorProofs ---------------------------
(***************************************************************************)
(* Proofs about Generator, for every number of bytes, size of a key,       *)
(* interval between two keys, bound, and profile.                          *)
(***************************************************************************)
EXTENDS Generator, FunctionTheorems, FiniteSetTheorems, TLAPS

-----------------------------------------------------------------------------
(* Bytes.                                                                  *)

\* What is reduced by the number of bytes is a byte.
LEMMA ModIsByte == \A a \in Int : a % B \in Byte
  BY StreamAssumption DEF Byte

\* Bytes are numbers.
LEMMA ByteIsInt == \A x \in Byte : x \in Nat
  BY StreamAssumption DEF Byte

\* There is a byte.
LEMMA ZeroIsByte == B \in Nat /\ 0 \in Byte
  BY StreamAssumption DEF Byte

\* The index of arc4_addrandom into the key is in the key.
LEMMA ModIsKeyIndex == \A a \in Int : a % KeySize \in 0..(KeySize - 1)
  BY StreamAssumption

\* An exchange of two entries yields a state of the stream.
LEMMA SwapType ==
  ASSUME NEW f \in [Byte -> Byte], NEW x \in Byte, NEW y \in Byte
  PROVE  Swap(f, x, y) \in [Byte -> Byte]
  BY DEF Swap

\* An exchange loses no value, also when the two indices are one.
LEMMA SwapInjective ==
  ASSUME NEW f \in [Byte -> Byte], NEW x \in Byte, NEW y \in Byte,
         \A a, b \in Byte : f[a] = f[b] => a = b
  PROVE  \A a, b \in Byte : Swap(f, x, y)[a] = Swap(f, x, y)[b] => a = b
  BY DEF Swap

\* The indices that arc4_getbyte exchanges are bytes.
LEMMA IndicesType ==
  ASSUME NEW x \in Byte, NEW y \in Byte, NEW f \in [Byte -> Byte], NEW d \in Nat
  PROVE  LET i == (x + 1) % B
             k == (y + f[i] + d) % B
         IN  i \in Byte /\ k \in Byte /\ f[i] \in Byte /\ f[k] \in Byte
<1> DEFINE i == (x + 1) % B
<1>1. i \in Byte
  BY ModIsByte, ByteIsInt
<1> HIDE DEF i
<1>2. f[i] \in Byte
  BY <1>1
<1> DEFINE k == (y + f[i] + d) % B
<1>3. k \in Byte
  <2>1. y \in Int /\ f[i] \in Int
    BY <1>2, ByteIsInt
  <2>2. y + f[i] + d \in Int
    BY <2>1
  <2> QED BY <2>2, ModIsByte
<1> HIDE DEF k
<1>4. f[k] \in Byte
  BY <1>3
<1> QED BY <1>1, <1>2, <1>3, <1>4 DEF i, k

\* The same without a byte of the key.
LEMMA GetbyteIndices ==
  ASSUME NEW x \in Byte, NEW y \in Byte, NEW f \in [Byte -> Byte]
  PROVE  LET i == (x + 1) % B
             k == (y + f[i]) % B
         IN  i \in Byte /\ k \in Byte /\ f[i] \in Byte /\ f[k] \in Byte
<1> DEFINE i == (x + 1) % B
<1>1. i \in Byte /\ f[i] \in Byte
  BY IndicesType
<1> HIDE DEF i
<1> DEFINE k == (y + f[i]) % B
<1>2. k \in Byte
  <2>1. y \in Int /\ f[i] \in Int
    BY <1>1, ByteIsInt
  <2>2. y + f[i] \in Int
    BY <2>1
  <2> QED BY <2>2, ModIsByte
<1> HIDE DEF k
<1> QED BY <1>1, <1>2 DEF i, k

\* A step of arc4_getbyte leaves bytes behind.
LEMMA AdvanceType ==
  ASSUME rs_i \in Byte, rs_j \in Byte, rs_s \in [Byte -> Byte], Advance
  PROVE  rs_i' \in Byte /\ rs_j' \in Byte /\ rs_s' \in [Byte -> Byte]
<1> DEFINE i == (rs_i + 1) % B
           k == (rs_j + rs_s[i]) % B
<1>1. i \in Byte /\ k \in Byte
  BY GetbyteIndices
<1>2. rs_i' = i /\ rs_j' = k /\ rs_s' = Swap(rs_s, i, k)
  BY DEF Advance
<1> HIDE DEF i, k
<1> QED BY <1>1, <1>2, SwapType

\* arc4_getbyte returns a byte.
LEMMA GetByteType ==
  ASSUME rs_i \in Byte, rs_j \in Byte, rs_s \in [Byte -> Byte]
  PROVE  GetByte \in Byte
<1> DEFINE i == (rs_i + 1) % B
           k == (rs_j + rs_s[i]) % B
           t == (rs_s[i] + rs_s[k]) % B
<1>1. i \in Byte /\ k \in Byte /\ rs_s[i] \in Byte /\ rs_s[k] \in Byte
  BY GetbyteIndices
<1>2. GetByte = Swap(rs_s, i, k)[t]
  BY DEF GetByte
<1> HIDE DEF i, k
<1>3. t \in Byte
  <2>1. rs_s[i] \in Int /\ rs_s[k] \in Int
    BY <1>1, ByteIsInt
  <2>2. rs_s[i] + rs_s[k] \in Int
    BY <2>1
  <2> QED BY <2>2, ModIsByte
<1> HIDE DEF t
<1> QED BY <1>1, <1>2, <1>3, SwapType

\* A step of arc4_getbyte keeps a permutation one.
LEMMA AdvanceInjective ==
  ASSUME rs_i \in Byte, rs_j \in Byte, rs_s \in [Byte -> Byte], Advance,
         \A a, b \in Byte : rs_s[a] = rs_s[b] => a = b
  PROVE  \A a, b \in Byte : rs_s'[a] = rs_s'[b] => a = b
<1> DEFINE i == (rs_i + 1) % B
           k == (rs_j + rs_s[i]) % B
<1>1. i \in Byte /\ k \in Byte
  BY GetbyteIndices
<1>2. rs_s' = Swap(rs_s, i, k)
  BY DEF Advance
<1> HIDE DEF i, k
<1> QED BY <1>1, <1>2, SwapInjective

-----------------------------------------------------------------------------
(* Types.                                                                  *)

\* The characters of a profile.
LEMMA CharacterSetType ==
  ASSUME TypeOK
  PROVE  /\ character_set \in Seq(STRING) /\ Len(character_set) \in Nat
         /\ DOMAIN character_set = 1..Len(character_set)
  BY ProfileAssumption DEF TypeOK

\* Whether a profile is refused depends on the profile only.
LEMMA RefusedStable == UNCHANGED profile => (Refused' <=> Refused)
  BY DEF profile, Refused, Length, Requested, xcallocFails

\* The numbers that the index of a password is compared with.
LEMMA LengthType == ASSUME TypeOK PROVE Requested \in Nat /\ Length \in Int
  BY ProfileAssumption DEF TypeOK, Requested, Length

\* The types at the start.
LEMMA InitType == Init => TypeOK /\ LoopInv
<1> SUFFICES ASSUME Init PROVE TypeOK /\ LoopInv
  OBVIOUS
<1>1. dat \in Key /\ rs_s \in [Byte -> Byte]
  BY ZeroIsByte DEF Init, Key
<1>2. random_weight \in [DOMAIN character_set -> Nat]
  BY DEF Init
<1>3. <<>> \in Seq(STRING)
  OBVIOUS
<1> QED BY <1>1, <1>2, <1>3, ZeroIsByte DEF Init, TypeOK, LoopInv, Drawing

\* Every step keeps the types; a password that was refused is not begun.
LEMMA TypeStep == TypeOK /\ LoopInv /\ [Next]_vars => TypeOK' /\ LoopInv'
<1> SUFFICES ASSUME TypeOK, LoopInv, [Next]_vars PROVE TypeOK' /\ LoopInv'
  OBVIOUS
<1> USE DEF stream, stirring, profile, choice, output
<1>0. character_set \in Seq(STRING) /\ Len(character_set) \in Nat
      /\ DOMAIN character_set = 1..Len(character_set)
  BY CharacterSetType
<1>1. CASE NextPassword
  <2>1. random_weight' \in [DOMAIN character_set' -> Nat]
    BY <1>1 DEF NextPassword
  <2>2. password_string' \in Seq(STRING)
    BY <1>1 DEF NextPassword
  <2>3. TypeOK'
    BY <1>1, <2>1, <2>2 DEF NextPassword, TypeOK
  <2>4. LoopInv'
    BY <1>1, RefusedStable DEF NextPassword, LoopInv, Drawing
  <2> QED BY <2>3, <2>4
<1>2. CASE For
  BY <1>2, RefusedStable DEF For, TypeOK, LoopInv, Drawing
<1>3. CASE Weigh
  <2>1. random_weight' \in [DOMAIN character_set' -> Nat]
    BY <1>3 DEF Weigh, TypeOK
  <2>2. j' \in Nat \ {0} /\ pc' \in {"weigh", "scan", "arc4random"}
    BY <1>3 DEF Weigh, TypeOK
  <2>3. TypeOK'
    BY <1>3, <2>1, <2>2 DEF Weigh, TypeOK
  <2>4. upper_bound \in Int /\ j \in Int
    BY StreamAssumption DEF TypeOK
  <2>5. LoopInv'
    BY <1>3, RefusedStable, <1>0, <2>4 DEF Weigh, LoopInv, Drawing
  <2> QED BY <2>3, <2>5
<1>4. CASE Scan
  <2>1. j \in Nat \ {0} /\ j <= Len(character_set)
    BY <1>4 DEF Scan, TypeOK
  <2>2. j \in DOMAIN character_set
    BY <1>0, <2>1
  <2>3. random_weight[j] \in Nat
    BY <2>2 DEF TypeOK
  <2>4. j' \in Nat \ {0}
    BY <1>4, <2>1 DEF Scan
  <2>5. max_weight' \in Nat /\ max_weight_element_number' \in Nat \ {0}
        /\ max_weight_element_number' \in {1} \cup DOMAIN character_set
    BY <1>4, <2>1, <2>2, <2>3 DEF Scan, TypeOK, LoopInv
  <2>6. TypeOK'
    BY <1>4, <2>4, <2>5 DEF Scan, TypeOK
  <2>7. LoopInv'
    BY <1>4, RefusedStable, <2>5 DEF Scan, LoopInv, Drawing
  <2> QED BY <2>6, <2>7
<1>5. CASE Symbol
  <2>1. Len(character_set) # 0
    BY <1>5 DEF Symbol, LoopInv, Refused, xcallocFails
  <2>2. max_weight_element_number \in DOMAIN character_set
    BY <1>0, <2>1 DEF LoopInv
  <2>3. character_set[max_weight_element_number] \in STRING
    BY <1>0, <2>2
  <2>4. password_string' \in Seq(STRING)
    BY <1>5, <2>3 DEF Symbol, TypeOK
  <2>5. random_weight' \in [DOMAIN character_set' -> Nat]
    BY <1>5 DEF Symbol
  <2>6. TypeOK'
    BY <1>5, <2>4, <2>5 DEF Symbol, TypeOK
  <2>7. LoopInv'
    BY <1>5, RefusedStable DEF Symbol, LoopInv, Drawing
  <2> QED BY <2>6, <2>7
<1>6. CASE Arc4Random
  <2>1. rs_i' \in Byte /\ rs_j' \in Byte /\ rs_s' \in [Byte -> Byte]
    BY <1>6, ZeroIsByte
       DEF Arc4Random, arc4_check_init, arc4_init, TypeOK
  <2>2. rs_initialized' \in BOOLEAN /\ pc' \in {"stir", "getword"}
    BY <1>6 DEF Arc4Random, arc4_check_init
  <2>3. TypeOK'
    BY <1>6, <2>1, <2>2 DEF Arc4Random, TypeOK
  <2>4. LoopInv'
    BY <1>6, RefusedStable, <2>2 DEF Arc4Random, LoopInv, Drawing
  <2> QED BY <2>3, <2>4
<1>7. CASE Stir
  <2>1. rs_i' \in Byte
    BY <1>7, ModIsByte, ByteIsInt DEF Stir, TypeOK
  <2>2. TypeOK'
    BY <1>7, <2>1 DEF Stir, TypeOK
  <2>3. LoopInv'
    BY <1>7, RefusedStable DEF Stir, LoopInv, Drawing
  <2> QED BY <2>2, <2>3
<1>8. CASE AddRandom
  <2> DEFINE i == (rs_i + 1) % B
             k == (rs_j + rs_s[i] + dat[n % KeySize]) % B
  <2>1. dat[n % KeySize] \in Nat
    <3>1. n % KeySize \in 0..(KeySize - 1)
      BY ModIsKeyIndex DEF TypeOK
    <3>2. dat[n % KeySize] \in Byte
      BY <3>1 DEF TypeOK, Key
    <3> QED BY <3>2, ByteIsInt
  <2>2. i \in Byte /\ k \in Byte
    <3>1. rs_i \in Byte /\ rs_j \in Byte /\ rs_s \in [Byte -> Byte]
      BY DEF TypeOK
    <3> QED BY <2>1, <3>1, IndicesType
  <2>3. n < B => rs_i' = i /\ rs_j' = k /\ rs_s' = Swap(rs_s, i, k)
    BY <1>8 DEF AddRandom
  <2> HIDE DEF i, k
  <2>4. Swap(rs_s, i, k) \in [Byte -> Byte]
    BY <2>2, SwapType DEF TypeOK
  <2>5. rs_i' \in Byte /\ rs_j' \in Byte /\ rs_s' \in [Byte -> Byte]
    BY <1>8, <2>2, <2>3, <2>4 DEF AddRandom, TypeOK
  <2>6. n' \in Nat /\ pc' \in {"addrandom", "discard"}
    BY <1>8 DEF AddRandom, TypeOK
  <2>7. TypeOK'
    BY <1>8, <2>5, <2>6 DEF AddRandom, TypeOK
  <2>8. LoopInv'
    BY <1>8, RefusedStable, <2>6 DEF AddRandom, LoopInv, Drawing
  <2> QED BY <2>7, <2>8
<1>9. CASE Discard
  <2>1. rs_i' \in Byte /\ rs_j' \in Byte /\ rs_s' \in [Byte -> Byte]
    BY <1>9, AdvanceType DEF Discard, TypeOK
  <2>2. n' \in Nat /\ pc' \in {"discard", "getword"} /\ used' \in Nat
    BY <1>9 DEF Discard, TypeOK
  <2>3. arc4_count' \in Int /\ rs_stired' \in BOOLEAN
    <3>1. arc4_count' \in {arc4_count, StirInterval}
      BY <1>9 DEF Discard
    <3>2. rs_stired' \in {rs_stired, TRUE}
      BY <1>9 DEF Discard
    <3>3. arc4_count' \in Int
      BY <3>1, StreamAssumption DEF TypeOK
    <3>4. rs_stired' \in BOOLEAN
      BY <3>2 DEF TypeOK
    <3> QED BY <3>3, <3>4
  <2>4. pc' = "getword" => n' = 0
    BY <1>9 DEF Discard
  <2>5. TypeOK'
    BY <1>9, <2>1, <2>2, <2>3 DEF Discard, TypeOK
  <2>6. LoopInv'
    BY <1>9, RefusedStable, <2>2, <2>4 DEF Discard, LoopInv, Drawing
  <2> QED BY <2>5, <2>6
<1>10. CASE GetWord
  <2>1. rs_i' \in Byte /\ rs_j' \in Byte /\ rs_s' \in [Byte -> Byte]
    BY <1>10, AdvanceType DEF GetWord, TypeOK
  <2>2. val' \in Nat
    <3>1. GetByte \in Nat
      BY GetByteType, ByteIsInt DEF TypeOK
    <3>2. val * B \in Nat
      BY ZeroIsByte DEF TypeOK
    <3>3. val' = val * B + GetByte
      BY <1>10 DEF GetWord
    <3> QED BY <3>1, <3>2, <3>3
  <2>3. n' \in Nat /\ n' <= 4 /\ used' \in Nat /\ arc4_count' \in Int
    BY <1>10 DEF GetWord, TypeOK
  <2>4. TypeOK'
    BY <1>10, <2>1, <2>2, <2>3 DEF GetWord, TypeOK
  <2>5. LoopInv'
    BY <1>10, RefusedStable, <2>3 DEF GetWord, LoopInv, Drawing
  <2> QED BY <2>4, <2>5
<1>11. CASE Uniform
  <2>1. upper_bound \in Nat \ {0} /\ val \in Nat
    BY <1>11, StreamAssumption DEF Uniform, TypeOK, LoopInv, Drawing
  <2>2. 1 + (val % upper_bound) \in Nat
    BY <2>1
  <2>3. random_weight' \in [DOMAIN character_set' -> Nat]
    BY <1>11, <2>2 DEF Uniform, TypeOK
  <2>4. j' \in Nat \ {0} /\ pc' \in {"arc4random", "weigh"}
        /\ (pc' = "arc4random" => j' = j)
    BY <1>11 DEF Uniform, TypeOK
  <2>5. TypeOK'
    BY <1>11, <2>3, <2>4 DEF Uniform, TypeOK
  <2>6. LoopInv'
    BY <1>11, RefusedStable, <2>4 DEF Uniform, LoopInv, Drawing
  <2> QED BY <2>5, <2>6
<1>12. CASE UNCHANGED vars
  BY <1>12, RefusedStable DEF vars, TypeOK, LoopInv, Drawing
<1> QED BY <1>1, <1>2, <1>3, <1>4, <1>5, <1>6, <1>7, <1>8, <1>9, <1>10, <1>11,
           <1>12 DEF Next

\* Types, and which loop a step belongs to, for every profile and every key.
THEOREM GeneratorTypes == Spec => [](TypeOK /\ LoopInv)
<1>1. Init => TypeOK /\ LoopInv
  BY InitType
<1>2. TypeOK /\ LoopInv /\ [Next]_vars => TypeOK' /\ LoopInv'
  BY TypeStep
<1> QED BY <1>1, <1>2, PTL DEF Spec

-----------------------------------------------------------------------------
(* The stream stays a permutation.                                         *)

\* An exchange of arc4_addrandom or arc4_getbyte loses no value.
LEMMA PermutationStep ==
  TypeOK /\ StateIsPermutation /\ [Next]_vars => StateIsPermutation'
<1> SUFFICES ASSUME TypeOK, StateIsPermutation, [Next]_vars
             PROVE  StateIsPermutation'
  OBVIOUS
<1> USE DEF stream, stirring, profile, choice, output
<1>0. rs_i \in Byte /\ rs_j \in Byte /\ rs_s \in [Byte -> Byte]
  BY DEF TypeOK
<1>1. CASE Arc4Random
  <2>1. CASE rs_initialized
    BY <1>1, <2>1 DEF Arc4Random, arc4_check_init, StateIsPermutation
  <2>2. CASE ~rs_initialized
    <3>1. rs_s' = [x \in Byte |-> x]
      BY <1>1, <2>2 DEF Arc4Random, arc4_check_init, arc4_init
    <3> QED BY <3>1 DEF StateIsPermutation
  <2> QED BY <2>1, <2>2
<1>2. CASE AddRandom
  <2>1. CASE n < B
    <3> DEFINE i == (rs_i + 1) % B
               k == (rs_j + rs_s[i] + dat[n % KeySize]) % B
    <3>1. dat[n % KeySize] \in Nat
      <4>1. n % KeySize \in 0..(KeySize - 1)
        BY ModIsKeyIndex DEF TypeOK
      <4>2. dat[n % KeySize] \in Byte
        BY <4>1 DEF TypeOK, Key
      <4> QED BY <4>2, ByteIsInt
    <3>2. i \in Byte /\ k \in Byte
      BY <1>0, <3>1, IndicesType
    <3>3. rs_s' = Swap(rs_s, i, k) /\ rs_initialized' = rs_initialized
      BY <1>2, <2>1 DEF AddRandom
    <3> HIDE DEF i, k
    <3> QED BY <1>0, <3>2, <3>3, SwapInjective DEF StateIsPermutation
  <2>2. CASE ~(n < B)
    BY <1>2, <2>2 DEF AddRandom, StateIsPermutation
  <2> QED BY <2>1, <2>2
<1>3. CASE Discard
  <2>1. CASE n < Discarded
    <3>1. Advance /\ rs_initialized' = rs_initialized
      BY <1>3, <2>1 DEF Discard
    <3> QED BY <1>0, <3>1, AdvanceInjective DEF StateIsPermutation
  <2>2. CASE ~(n < Discarded)
    BY <1>3, <2>2 DEF Discard, StateIsPermutation
  <2> QED BY <2>1, <2>2
<1>4. CASE GetWord
  <2>1. Advance /\ rs_initialized' = rs_initialized
    BY <1>4 DEF GetWord
  <2> QED BY <1>0, <2>1, AdvanceInjective DEF StateIsPermutation
<1>5. CASE NextPassword \/ For \/ Weigh \/ Scan \/ Symbol \/ Stir \/ Uniform
            \/ UNCHANGED vars
  BY <1>5 DEF NextPassword, For, Weigh, Scan, Symbol, Stir, Uniform, vars,
              StateIsPermutation
<1> QED BY <1>1, <1>2, <1>3, <1>4, <1>5 DEF Next

\* For every key and every number of bytes, the state of the stream stays a
\* permutation from its initialization on (arc4_addrandom, arc4_getbyte).
THEOREM StreamStaysPermutation == Spec => []StateIsPermutation
<1>1. Init => StateIsPermutation
  BY DEF Init, StateIsPermutation
<1>2. TypeOK /\ StateIsPermutation /\ [Next]_vars => StateIsPermutation'
  BY PermutationStep
<1> QED BY <1>1, <1>2, GeneratorTypes, PTL DEF Spec

-----------------------------------------------------------------------------
(* Keys are renewed.                                                       *)

\* The count of arc4random.c and the bytes used add up to the interval.
LEMMA CountStep == TypeOK /\ LoopInv /\ CountInv /\ [Next]_vars => CountInv'
<1> SUFFICES ASSUME TypeOK, LoopInv, CountInv, [Next]_vars PROVE CountInv'
  OBVIOUS
<1> USE DEF stream, stirring, profile, choice, output
<1>0. n \in Nat /\ arc4_count \in Int /\ used \in Nat
      /\ StirInterval \in Nat \ {0}
  BY StreamAssumption DEF TypeOK
<1>1. CASE Arc4Random
  BY <1>0, <1>1 DEF Arc4Random, StirDue, CountInv
<1>2. CASE Discard
  BY <1>0, <1>2 DEF Discard, CountInv
<1>3. CASE GetWord
  <2>1. rs_stired /\ arc4_count > 0 /\ rs_stired' = rs_stired /\ n < 4
        /\ pc = "getword" /\ pc' = "getword" /\ n' = n + 1
        /\ used' = used + 1 /\ used = StirInterval - arc4_count + n
    BY <1>0, <1>3 DEF GetWord, CountInv
  <2>2. CASE n = 3
    BY <1>0, <1>3, <2>1, <2>2 DEF GetWord, CountInv
  <2>3. CASE n # 3
    BY <1>0, <1>3, <2>1, <2>3 DEF GetWord, CountInv
  <2> QED BY <2>2, <2>3
<1>4. CASE Uniform
  BY <1>0, <1>4 DEF Uniform, CountInv
<1>5. CASE NextPassword \/ For \/ Weigh \/ Scan \/ Symbol \/ Stir \/ AddRandom
            \/ UNCHANGED vars
  BY <1>0, <1>5 DEF NextPassword, For, Weigh, Scan, Symbol, Stir, AddRandom,
                    vars, CountInv
<1> QED BY <1>1, <1>2, <1>3, <1>4, <1>5 DEF Next

\* The count bounds what is taken from one key.
LEMMA CountBounds == TypeOK /\ LoopInv /\ CountInv => KeyRenewed
  BY StreamAssumption DEF TypeOK, LoopInv, CountInv, KeyRenewed

\* For every interval, no byte is used before the first key and at most the
\* interval and the rest of a word between two keys (arc4_check_stir).
THEOREM KeysAreRenewed == Spec => []KeyRenewed
<1>1. Init => CountInv
  BY DEF Init, CountInv
<1>2. TypeOK /\ LoopInv /\ CountInv /\ [Next]_vars => CountInv'
  BY CountStep
<1>3. TypeOK /\ LoopInv /\ CountInv => KeyRenewed
  BY CountBounds
<1> QED BY <1>1, <1>2, <1>3, GeneratorTypes, PTL DEF Spec

-----------------------------------------------------------------------------
(* Passwords are as long as asked for.                                     *)

\* A length that is not refused is the number that was asked for.
LEMMA AcceptedLength ==
  ASSUME TypeOK, ~Refused
  PROVE  Length = Requested /\ Length \in 1..MaxPasswordLength
<1>1. Requested \in 0..(UInt - 1) /\ UInt \in Nat /\ MaxPasswordLength \in Nat
  BY ProfileAssumption DEF TypeOK, Requested
<1>2. Length <= MaxPasswordLength /\ ~(Length < 1)
  BY <1>1, LengthType DEF Refused
<1> QED BY <1>1, <1>2 DEF Length

\* The characters of s are characters of the profile.
FromSet(s) ==
  \A x \in DOMAIN s : \E y \in DOMAIN character_set : s[x] = character_set[y]

\* Every step preserves the length and the characters of the password so far.
LEMMA LengthStep ==
  TypeOK /\ LoopInv /\ LengthInv /\ [Next]_vars => LengthInv'
<1> SUFFICES ASSUME TypeOK, LoopInv, LengthInv, [Next]_vars PROVE LengthInv'
  OBVIOUS
<1> USE DEF stream, stirring, profile, choice, output
<1>0. /\ Length' = Length /\ Requested' = Requested
      /\ character_set' = character_set /\ password_count' = password_count
  BY DEF Next, NextPassword, For, Weigh, Scan, Symbol, Arc4Random, Stir,
         AddRandom, Discard, GetWord, Uniform, vars, Length, Requested
<1>01. Requested \in Nat /\ Length \in Int /\ Len(password_string) \in Nat
  BY LengthType DEF TypeOK
<1>1. CASE NextPassword
  <2>1. password_string' = <<>> /\ printed' = printed /\ done' = done
    BY <1>1 DEF NextPassword
  <2>2. Len(password_string') = 0 /\ DOMAIN password_string' = {}
    BY <2>1
  <2>3. pc' \in {"done", "failed", "for"} /\ (pc' = "done" => done = password_count)
        /\ (pc' = "for" => ~Refused)
    BY <1>1 DEF NextPassword
  <2>4. pc' = "for" => Length >= 1
    BY <2>3, AcceptedLength
  <2>5. PrintedAsAsked'
    BY <1>0, <2>1, <2>3 DEF PrintedAsAsked, LengthInv
  <2> QED BY <1>0, <1>01, <2>2, <2>3, <2>4, <2>5 DEF LengthInv
<1>2. CASE For
  <2>1. pc = "for" /\ password_string' = password_string /\ FromSet(password_string)
        /\ Len(password_string) <= Length
    BY <1>2 DEF For, LengthInv, FromSet
  <2>2. CASE Len(password_string) < Length
    <3>1. pc' = "weigh" /\ printed' = printed /\ done' = done
      BY <1>2, <2>2 DEF For
    <3>2. PrintedAsAsked'
      BY <1>0, <3>1 DEF PrintedAsAsked, LengthInv
    <3> QED BY <1>0, <2>1, <2>2, <3>1, <3>2 DEF LengthInv, FromSet
  <2>3. CASE ~(Len(password_string) < Length)
    <3>1. pc' = "next" /\ printed' = password_string
      BY <1>2, <2>3 DEF For
    <3>2. Len(password_string) = Length
      BY <1>01, <2>1, <2>3
    <3>3. Length = Requested /\ Length \in 1..MaxPasswordLength
      BY <2>1, AcceptedLength DEF LoopInv
    <3>4. PrintedAsAsked'
      BY <1>0, <2>1, <3>1, <3>2, <3>3 DEF PrintedAsAsked, FromSet
    <3> QED BY <3>1, <3>4 DEF LengthInv
  <2> QED BY <2>2, <2>3
<1>3. CASE Symbol
  <2> DEFINE c == character_set[max_weight_element_number]
  <2>1. pc = "scan" /\ pc' = "for" /\ printed' = printed /\ done' = done
        /\ password_string' = Append(password_string, c)
    BY <1>3 DEF Symbol
  <2>2. Len(password_string) < Length /\ FromSet(password_string) /\ ~Refused
    BY <2>1 DEF LengthInv, LoopInv, FromSet
  <2>3. max_weight_element_number \in DOMAIN character_set
    BY <2>2, CharacterSetType DEF LoopInv, Refused, xcallocFails
  <2>4. c \in STRING /\ password_string \in Seq(STRING)
    BY <2>3, CharacterSetType DEF TypeOK
  <2> HIDE DEF c
  <2>5. Len(password_string') = Len(password_string) + 1
    BY <2>1, <2>4
  <2>6. FromSet(password_string')
    <3>1. \A x \in DOMAIN password_string' :
            \/ x \in DOMAIN password_string
               /\ password_string'[x] = password_string[x]
            \/ password_string'[x] = c
      BY <2>1, <2>4
    <3> QED BY <2>2, <2>3, <3>1 DEF FromSet, c
  <2>7. PrintedAsAsked'
    BY <1>0, <2>1 DEF PrintedAsAsked, LengthInv
  <2>8. Len(password_string') <= Length'
    BY <1>0, <1>01, <2>2, <2>5
  <2> QED BY <1>0, <2>1, <2>6, <2>7, <2>8 DEF LengthInv, FromSet
<1>4. CASE Weigh \/ Scan \/ Arc4Random \/ Stir \/ AddRandom \/ Discard
            \/ GetWord \/ Uniform \/ UNCHANGED vars
  <2>1. /\ password_string' = password_string /\ printed' = printed
        /\ done' = done
        /\ pc' = pc \/ ({pc, pc'} \cap {"next", "for", "done", "failed"} = {})
    BY <1>4 DEF Weigh, Scan, Arc4Random, Stir, AddRandom, Discard, GetWord,
                Uniform, vars
  <2>2. PrintedAsAsked'
    BY <1>0, <2>1 DEF PrintedAsAsked, LengthInv
  <2> QED BY <1>0, <2>1, <2>2 DEF LengthInv
<1> QED BY <1>1, <1>2, <1>3, <1>4 DEF Next

\* For every profile, count and option: what is printed has the length that
\* was asked for and characters of the profile, and the passwords are as many
\* as asked for (profile_fprint_passwords, generate_password_from_set).
THEOREM PasswordsAsAsked == Spec => []PrintedAsAsked
<1>1. Init => LengthInv
  BY DEF Init, LengthInv, PrintedAsAsked
<1>2. TypeOK /\ LoopInv /\ LengthInv /\ [Next]_vars => LengthInv'
  BY LengthStep
<1>3. LengthInv => PrintedAsAsked
  BY DEF LengthInv
<1> QED BY <1>1, <1>2, <1>3, GeneratorTypes, PTL DEF Spec

-----------------------------------------------------------------------------
(* The heaviest character is added.                                        *)

\* The loops over the characters of generate_password_from_set.
LEMMA WeightStep ==
  TypeOK /\ LoopInv /\ WeightInv /\ [Next]_vars => WeightInv'
<1> SUFFICES ASSUME TypeOK, LoopInv, WeightInv, [Next]_vars PROVE WeightInv'
  OBVIOUS
<1> USE DEF stream, stirring, profile, choice, output
<1>0. /\ DOMAIN character_set = 1..Len(character_set)
      /\ Len(character_set) \in Nat
      /\ random_weight \in [DOMAIN character_set -> Nat]
      /\ j \in Nat \ {0} /\ max_weight \in Nat
      /\ max_weight_element_number \in Nat \ {0}
  BY CharacterSetType DEF TypeOK
<1>1. CASE NextPassword
  BY <1>0, <1>1 DEF NextPassword, WeightInv, Drawing
<1>2. CASE For
  BY <1>0, <1>2 DEF For, WeightInv, Drawing
<1>3. CASE Weigh
  <2>1. CASE j > Len(character_set)
    <3>1. pc = "weigh" /\ pc' = "scan" /\ j' = 1 /\ random_weight' = random_weight
          /\ character_set' = character_set /\ max_weight' = max_weight
          /\ max_weight_element_number' = max_weight_element_number
      BY <1>0, <1>3, <2>1 DEF Weigh
    <3>2. \A x \in DOMAIN character_set : random_weight[x] >= 1
      BY <1>0, <2>1, <3>1 DEF WeightInv
    <3> QED BY <1>0, <3>1, <3>2 DEF WeightInv, Drawing
  <2>2. CASE j <= Len(character_set) /\ upper_bound < 2
    <3>1. pc = "weigh" /\ pc' = "weigh" /\ j' = j + 1
          /\ random_weight' = [random_weight EXCEPT ![j] = 1]
          /\ character_set' = character_set /\ max_weight' = max_weight
          /\ max_weight_element_number' = max_weight_element_number
      BY <1>0, <1>3, <2>2, StreamAssumption DEF Weigh, TypeOK
    <3>2. \A x \in DOMAIN character_set : x < j + 1 => random_weight'[x] >= 1
      BY <1>0, <3>1 DEF WeightInv
    <3> QED BY <3>1, <3>2 DEF WeightInv, Drawing
  <2>3. CASE j <= Len(character_set) /\ upper_bound >= 2
    BY <1>0, <1>3, <2>3, StreamAssumption DEF Weigh, WeightInv, Drawing, TypeOK
  <2> QED BY <1>3, <2>1, <2>2, <2>3 DEF Weigh
<1>4. CASE Uniform
  <2>0. pc = "getword" /\ max_weight' = max_weight /\ character_set' = character_set
        /\ max_weight_element_number' = max_weight_element_number
    BY <1>4 DEF Uniform
  <2>1. CASE pc' = "arc4random" /\ UNCHANGED <<random_weight, j>>
    BY <2>0, <2>1 DEF WeightInv, Drawing
  <2>2. CASE /\ random_weight' = [random_weight EXCEPT
                                    ![j] = 1 + (val % upper_bound)]
             /\ j' = j + 1 /\ pc' = "weigh"
    <3>1. upper_bound \in Nat \ {0} /\ val \in Nat
      BY <2>0, StreamAssumption DEF TypeOK, LoopInv, Drawing
    <3>2. val % upper_bound \in Nat
      BY <3>1
    <3>3. \A x \in DOMAIN character_set : x < j + 1 => random_weight'[x] >= 1
      BY <1>0, <2>0, <2>2, <3>2 DEF WeightInv, Drawing
    <3> QED BY <2>0, <2>2, <3>3 DEF WeightInv, Drawing
  <2> QED BY <1>4, <2>1, <2>2 DEF Uniform
<1>5. CASE Scan
  <2>1. /\ pc = "scan" /\ pc' = "scan" /\ j' = j + 1 /\ j \in DOMAIN character_set
        /\ random_weight' = random_weight /\ character_set' = character_set
    BY <1>0, <1>5 DEF Scan
  <2>2. CASE random_weight[j] > max_weight
    <3>1. max_weight' = random_weight[j] /\ max_weight_element_number' = j
      BY <1>5, <2>2 DEF Scan
    <3>2. \A x \in DOMAIN character_set : x < j => random_weight[x] < random_weight[j]
      BY <1>0, <2>1, <2>2 DEF WeightInv
    <3> QED BY <1>0, <2>1, <3>1, <3>2 DEF WeightInv, Drawing
  <2>3. CASE ~(random_weight[j] > max_weight)
    <3>1. max_weight' = max_weight
          /\ max_weight_element_number' = max_weight_element_number
      BY <1>5, <2>3 DEF Scan
    <3>2. random_weight[j] >= 1 /\ random_weight[j] <= max_weight
      BY <1>0, <2>1, <2>3 DEF WeightInv
    <3>3. j > 1
      BY <1>0, <2>1, <3>2 DEF WeightInv
    <3> QED BY <1>0, <2>1, <3>1, <3>2, <3>3 DEF WeightInv, Drawing
  <2> QED BY <2>2, <2>3
<1>6. CASE Symbol
  BY <1>0, <1>6 DEF Symbol, WeightInv, Drawing
<1>7. CASE Arc4Random \/ Stir \/ AddRandom \/ Discard \/ GetWord
            \/ UNCHANGED vars
  BY <1>7 DEF Arc4Random, Stir, AddRandom, Discard, GetWord, vars, WeightInv,
              Drawing
<1> QED BY <1>1, <1>2, <1>3, <1>4, <1>5, <1>6, <1>7 DEF Next

\* Only Symbol makes the password longer, by the character it has found.
LEMMA HeaviestStep ==
  ASSUME TypeOK, LoopInv, WeightInv, [Next]_vars,
         Len(password_string') > Len(password_string)
  PROVE  \E k \in DOMAIN character_set :
           /\ password_string' = Append(password_string, character_set[k])
           /\ \A x \in DOMAIN character_set :
                /\ random_weight[x] <= random_weight[k]
                /\ x < k => random_weight[x] < random_weight[k]
<1> USE DEF stream, stirring, profile, choice, output
<1>1. Len(password_string) \in Nat
  BY DEF TypeOK
<1>2. CASE Symbol
  <2>1. /\ pc = "scan" /\ j > Len(character_set)
        /\ password_string' = Append(password_string,
                                     character_set[max_weight_element_number])
    BY <1>2 DEF Symbol
  <2>2. /\ DOMAIN character_set = 1..Len(character_set)
        /\ Len(character_set) \in Nat /\ j \in Nat
    BY CharacterSetType DEF TypeOK
  <2>3. Len(character_set) # 0
    BY <2>1 DEF LoopInv, Refused, xcallocFails
  <2>4. /\ max_weight_element_number \in DOMAIN character_set
        /\ random_weight[max_weight_element_number] = max_weight
        /\ \A x \in DOMAIN character_set :
             /\ random_weight[x] <= max_weight
             /\ x < max_weight_element_number => random_weight[x] < max_weight
    BY <2>1, <2>2, <2>3 DEF WeightInv
  <2> QED BY <2>1, <2>4
<1>3. CASE NextPassword
  <2>1. Len(password_string') = 0
    BY <1>3 DEF NextPassword
  <2> QED BY <1>1, <2>1
<1>4. CASE For \/ Weigh \/ Scan \/ Arc4Random \/ Stir \/ AddRandom \/ Discard
            \/ GetWord \/ Uniform \/ UNCHANGED vars
  <2>1. password_string' = password_string
    BY <1>4 DEF For, Weigh, Scan, Arc4Random, Stir, AddRandom, Discard,
                GetWord, Uniform, vars
  <2> QED BY <1>1, <2>1
<1> QED BY <1>2, <1>3, <1>4 DEF Next

\* For every character set and every outcome of the draws, the character that
\* is added is the first of greatest weight (generate_password_from_set).
THEOREM FirstHeaviestAdded == Spec => HeaviestAdded
<1>1. Init => WeightInv
  BY DEF Init, WeightInv, Drawing
<1>2. TypeOK /\ LoopInv /\ WeightInv /\ [Next]_vars => WeightInv'
  BY WeightStep
<1>3. TypeOK /\ LoopInv /\ WeightInv /\ [Next]_vars =>
        [Len(password_string') > Len(password_string) =>
           \E k \in DOMAIN character_set :
             /\ password_string' = Append(password_string, character_set[k])
             /\ \A x \in DOMAIN character_set :
                  /\ random_weight[x] <= random_weight[k]
                  /\ x < k => random_weight[x] < random_weight[k]]_vars
  BY HeaviestStep
<1> QED BY <1>1, <1>2, <1>3, GeneratorTypes, PTL DEF Spec, HeaviestAdded

-----------------------------------------------------------------------------
(* arc4random_uniform has no bias.                                         *)

\* A positive multiple of b is at least b.
LEMMA MultipleGrows ==
  ASSUME NEW b \in Nat \ {0}, NEW u \in Int, u >= 1
  PROVE  b * u >= b
  OBVIOUS

\* Division with remainder, and that the remainder is unique.
LEMMA DivMod ==
  ASSUME NEW b \in Nat \ {0}, NEW x \in Int
  PROVE  /\ x = b * (x \div b) + (x % b)
         /\ x % b \in 0..(b - 1) /\ x \div b \in Int
  OBVIOUS

\* There is one remainder below the divisor.
LEMMA RemainderUnique ==
  ASSUME NEW b \in Nat \ {0}, NEW u \in Int, NEW v \in Int,
         NEW k \in 0..(b - 1), NEW l \in 0..(b - 1), b * u + k = b * v + l
  PROVE  k = l
<1>1. b * (u - v) = l - k /\ b * (v - u) = k - l
  OBVIOUS
<1>2. u - v >= 1 => b * (u - v) >= b
  BY MultipleGrows
<1>3. v - u >= 1 => b * (v - u) >= b
  BY MultipleGrows
<1>4. u - v < 1 /\ v - u < 1
  BY <1>1, <1>2, <1>3
<1>5. u = v
  BY <1>4
<1> QED BY <1>5

\* What is above a multiple of the divisor is the remainder.
LEMMA RemainderOf ==
  ASSUME NEW b \in Nat \ {0}, NEW u \in Int, NEW k \in 0..(b - 1)
  PROVE  (b * u + k) % b = k
<1> DEFINE x == b * u + k
<1>1. x \in Int /\ x = b * u + k
  OBVIOUS
<1> HIDE DEF x
<1>2. x = b * (x \div b) + (x % b) /\ x % b \in 0..(b - 1) /\ x \div b \in Int
  BY <1>1, DivMod
<1>3. b * u + k = b * (x \div b) + (x % b)
  BY <1>1, <1>2
<1>4. k = x % b
  BY <1>2, <1>3, RemainderUnique
<1> QED BY <1>4 DEF x

\* The words that are accepted are a multiple of the bound, and the most.
LEMMA MinCuts ==
  ASSUME NEW b \in 2..(Word - 1), Word \in Nat
  PROVE  /\ Min(b) \in Nat
         /\ \E q \in Nat \ {0} : Word = Min(b) + b * q
         /\ 2 * (Word - Min(b)) > Word
<1>1. CASE 2 * b > Word
  <2>1. Min(b) = Word - b
    BY <1>1 DEF Min
  <2>2. Word = Min(b) + b * 1
    BY <2>1
  <2> QED BY <1>1, <2>1, <2>2
<1>2. CASE ~(2 * b > Word)
  <2> DEFINE r == Word - 2 * b
  <2>1. r \in Nat /\ r < Word /\ b \in Nat \ {0} /\ Word \in Nat \ {0}
    BY <1>2
  <2>2. (Word - ((b * 2) % Word)) % Word = r
    <3>1. CASE b * 2 = Word
      <4>1. (b * 2) % Word = 0
        BY <2>1, <3>1
      <4>2. Word % Word = 0
        BY <2>1
      <4> QED BY <3>1, <4>1, <4>2
    <3>2. CASE b * 2 # Word
      <4>1. b * 2 \in 0..(Word - 1)
        BY <1>2, <3>2
      <4>2. (b * 2) % Word = b * 2
        BY <2>1, <4>1
      <4>3. r % Word = r
        BY <2>1
      <4> QED BY <4>2, <4>3
    <3> QED BY <3>1, <3>2
  <2>3. Min(b) = r % b
    BY <1>2, <2>2 DEF Min
  <2> HIDE DEF r
  <2>4. r = b * (r \div b) + (r % b) /\ r % b \in 0..(b - 1) /\ r \div b \in Int
    BY <2>1, DivMod
  <2>5. r \div b \in Nat
    BY <2>1
  <2> DEFINE q == 2 + (r \div b)
  <2>6. q \in Nat \ {0}
    BY <2>5
  <2>7. b * q = 2 * b + b * (r \div b)
    BY <2>1, <2>5
  <2>8. Word = Min(b) + b * q
    BY <2>1, <2>3, <2>4, <2>7 DEF r
  <2>9. 2 * (Word - Min(b)) > Word
    BY <1>2, <2>1, <2>3, <2>4
  <2>10. Min(b) \in Nat
    BY <2>3, <2>4
  <2> HIDE DEF q
  <2> QED BY <2>6, <2>8, <2>9, <2>10
<1> QED BY <1>1, <1>2

\* Two words that are moved to one are one.
LEMMA ShiftInjective ==
  ASSUME NEW m \in Int, NEW c \in Int, NEW w \in Int, w = m + c, NEW k \in Int,
         NEW x \in m..(w - 1), NEW y \in m..(w - 1),
         (IF x + k < w THEN x + k ELSE x + k - c)
           = (IF y + k < w THEN y + k ELSE y + k - c)
  PROVE  x = y
  OBVIOUS

\* The words from m up to w that yield k.
Yielding(b, m, w, k) == {r \in m..(w - 1) : r % b = k}

\* Moving the multiples of b up by k, around the end of the accepted words,
\* is a bijection onto the words with remainder k.
LEMMA ShiftIsBijection ==
  ASSUME NEW b \in Nat \ {0}, NEW m \in Nat, NEW q \in Nat \ {0},
         NEW w \in Nat, w = m + b * q, NEW k \in 0..(b - 1)
  PROVE  ExistsBijection(Yielding(b, m, w, 0), Yielding(b, m, w, k))
<1> DEFINE S == {r \in m..(w - 1) : r % b = 0}
           T == {r \in m..(w - 1) : r % b = k}
           f == [x \in S |-> IF x + k < w THEN x + k ELSE x + k - b * q]
<1>0. b * q \in Nat /\ b * q >= b
  BY MultipleGrows
<1>1. ASSUME NEW x \in S PROVE f[x] \in T
  <2>1. x = b * (x \div b) /\ x \div b \in Int /\ x \in m..(w - 1)
    BY DivMod
  <2>2. (x + k) % b = k
    <3>1. (b * (x \div b) + k) % b = k
      BY <2>1, RemainderOf
    <3> QED BY <2>1, <3>1
  <2>3. (x + k - b * q) % b = k
    <3>1. (b * ((x \div b) - q) + k) % b = k
      <4>1. (x \div b) - q \in Int
        BY <2>1
      <4> QED BY <4>1, RemainderOf
    <3>2. b * ((x \div b) - q) = b * (x \div b) - b * q
      BY <2>1
    <3>3. x + k - b * q = b * ((x \div b) - q) + k
      BY <2>1, <3>2, <1>0
    <3> QED BY <3>1, <3>3
  <2>4. CASE x + k < w
    BY <2>1, <2>2, <2>4
  <2>5. CASE ~(x + k < w)
    BY <1>0, <2>1, <2>3, <2>5
  <2> QED BY <2>4, <2>5
<1>2. \A x, y \in S : f[x] = f[y] => x = y
  <2> SUFFICES ASSUME NEW x \in S, NEW y \in S, f[x] = f[y] PROVE x = y
    OBVIOUS
  <2>1. x \in m..(w - 1) /\ y \in m..(w - 1)
    OBVIOUS
  <2>2. f[x] = IF x + k < w THEN x + k ELSE x + k - b * q
    OBVIOUS
  <2>3. f[y] = IF y + k < w THEN y + k ELSE y + k - b * q
    OBVIOUS
  <2> HIDE DEF f
  <2> DEFINE c == b * q
  <2>4. c \in Nat /\ w = m + c
    BY <1>0
  <2>5. /\ f[x] = IF x + k < w THEN x + k ELSE x + k - c
        /\ f[y] = IF y + k < w THEN y + k ELSE y + k - c
    BY <2>2, <2>3
  <2> HIDE DEF c
  <2>6. (IF x + k < w THEN x + k ELSE x + k - c)
          = (IF y + k < w THEN y + k ELSE y + k - c)
    BY <2>5
  <2>7. m \in Int /\ c \in Int /\ w \in Int /\ k \in Int
    BY <2>4
  <2> HIDE DEF S
  <2> QED BY <2>1, <2>4, <2>6, <2>7, ShiftInjective, Zenon
<1>3. \A t \in T : \E x \in S : f[x] = t
  <2> SUFFICES ASSUME NEW t \in T PROVE \E x \in S : f[x] = t
    OBVIOUS
  <2>1. t = b * (t \div b) + k /\ t \div b \in Int /\ t \in m..(w - 1)
    BY DivMod
  <2>2. (t - k) % b = 0
    <3>1. (b * (t \div b) + 0) % b = 0
      BY <2>1, RemainderOf
    <3>2. t - k = b * (t \div b) + 0
      BY <2>1
    <3> QED BY <3>1, <3>2
  <2>3. (t - k + b * q) % b = 0
    <3>1. (b * ((t \div b) + q) + 0) % b = 0
      BY <2>1, RemainderOf
    <3>2. b * ((t \div b) + q) = b * (t \div b) + b * q
      BY <2>1
    <3>3. t - k + b * q = b * ((t \div b) + q) + 0
      BY <2>1, <3>2, <1>0
    <3> QED BY <3>1, <3>3
  <2>4. CASE t - k >= m
    <3>1. t - k \in S /\ (t - k) + k < w
      BY <2>1, <2>2, <2>4
    <3>2. f[t - k] = t
      BY <2>1, <3>1
    <3> QED BY <3>1, <3>2
  <2>5. CASE ~(t - k >= m)
    <3>1. t - k + b * q \in S /\ ~((t - k + b * q) + k < w)
      BY <1>0, <2>1, <2>3, <2>5
    <3>2. f[t - k + b * q] = t
      BY <1>0, <2>1, <3>1
    <3> QED BY <3>1, <3>2
  <2> QED BY <2>4, <2>5
<1>4. f \in [S -> T]
  BY <1>1
<1> HIDE DEF S, T, f
<1>5. f \in Bijection(S, T)
  BY <1>2, <1>3, <1>4, Fun_IsBij
<1> QED BY <1>5 DEF ExistsBijection, Yielding, S, T

\* Every bound of the profile is even, whatever the number of bytes.
LEMMA AllBoundsEven == EvenBounds = Bounds
<1>1. Word \in Nat
  BY ZeroIsByte DEF Word
<1> SUFFICES ASSUME NEW b \in Bounds, b >= 2
             PROVE  LET accepted == Min(b)..(Word - 1)
                        Sources(k) == {r \in accepted : r % b = k}
                    IN  /\ 2 * Cardinality(accepted) > Word
                        /\ \A k \in 0..(b - 1) :
                             Cardinality(Sources(k)) = Cardinality(Sources(0))
  BY DEF EvenBounds
<1>2. b \in 2..(Word - 1)
  BY <1>1, StreamAssumption
<1>3. PICK q \in Nat \ {0} : Word = Min(b) + b * q
  BY <1>1, <1>2, MinCuts
<1>4. Min(b) \in Nat /\ 2 * (Word - Min(b)) > Word
  BY <1>1, <1>2, MinCuts
<1>5. /\ IsFiniteSet(Min(b)..(Word - 1))
      /\ 2 * Cardinality(Min(b)..(Word - 1)) > Word
  <2> DEFINE m == Min(b)
             w == Word
  <2>1. m \in Int /\ w - 1 \in Int /\ m <= w - 1
    BY <1>1, <1>2, <1>4
  <2>2. w \in Int /\ 2 * (w - m) > w
    BY <1>1, <1>4
  <2> HIDE DEF m, w
  <2>3. IsFiniteSet(m..(w - 1)) /\ Cardinality(m..(w - 1)) = (w - 1) - m + 1
    BY <2>1, FS_Interval
  <2>4. 2 * Cardinality(m..(w - 1)) > w
    BY <2>1, <2>2, <2>3
  <2> QED BY <2>3, <2>4 DEF m, w
<1>6. ASSUME NEW k \in 0..(b - 1)
      PROVE  Cardinality({r \in Min(b)..(Word - 1) : r % b = k})
               = Cardinality({r \in Min(b)..(Word - 1) : r % b = 0})
  <2> DEFINE S == {r \in Min(b)..(Word - 1) : r % b = 0}
             T == {r \in Min(b)..(Word - 1) : r % b = k}
  <2>1. ExistsBijection(S, T)
    <3> DEFINE m == Min(b)
               w == Word
    <3>1. /\ b \in Nat \ {0} /\ m \in Nat /\ q \in Nat \ {0} /\ w \in Nat
          /\ w = m + b * q /\ k \in 0..(b - 1)
      BY <1>1, <1>2, <1>3, <1>4
    <3>2. S = Yielding(b, m, w, 0) /\ T = Yielding(b, m, w, k)
      BY DEF Yielding
    <3> HIDE DEF m, w, S, T
    <3>3. ExistsBijection(Yielding(b, m, w, 0), Yielding(b, m, w, k))
      BY <3>1, ShiftIsBijection
    <3> QED BY <3>2, <3>3
  <2>2. IsFiniteSet(S)
    BY <1>5, FS_Subset
  <2> HIDE DEF S, T
  <2>3. Cardinality(T) = Cardinality(S)
    BY <2>1, <2>2, FS_Bijection
  <2> QED BY <2>3 DEF S, T
<1> QED BY <1>5, <1>6

\* For every number of bytes and every bound, whenever a word is drawn each
\* result comes from equally many accepted words, and most are accepted
\* (arc4random_uniform).
THEOREM DrawsAreUnbiased == Spec => []Unbiased
<1>1. TypeOK => Unbiased
  BY AllBoundsEven DEF TypeOK, Unbiased
<1> QED BY <1>1, GeneratorTypes, PTL

=============================================================================
