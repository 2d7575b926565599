------------------------------ MODULE Generator ------------------------------
(***************************************************************************)
(* Password generation: `mdp generate' once its profile is chosen, from    *)
(* profile_fprint_passwords down to the RC4 stream of arc4random.c.        *)
(*                                                                         *)
(* One action is one turn of a loop or one call.  The width of a byte, the *)
(* size of a key and the numbers of bytes discarded and produced between   *)
(* two keys are parameters; a word is four bytes, as in the code.          *)
(***************************************************************************)
EXTENDS Integers, Sequences, FiniteSets

CONSTANTS
    B,                 \* the number of bytes: 256
    KeySize,           \* KEYSIZE: 128
    Discarded,         \* bytes thrown away after a key: 1024
    StirInterval,      \* arc4_count after a stir: 1600000
    Bounds,            \* upper bounds of arc4random_uniform: 20000
    MaxPasswordLength, \* MAX_PASSWORD_LENGTH: 256
    UInt,              \* an unsigned int is in 0..(UInt - 1)
    PasswordCounts,    \* values of profile_get_password_count
    CharacterCounts,   \* values of the profile's character_count
    CmdCharacterCounts,\* values of cmd_character_count: 0 without -l
    CharacterSets      \* values of character_set

Byte == 0..(B - 1)
Key  == [0..(KeySize - 1) -> Byte]
Word == B * B * B * B

ASSUME StreamAssumption ==
    /\ B \in Nat \ {0} /\ KeySize \in Nat \ {0} /\ Discarded \in Nat
    /\ StirInterval \in Nat \ {0} /\ Bounds \subseteq 0..(Word - 1)
ASSUME ProfileAssumption ==
    /\ UInt \in Nat \ {0} /\ MaxPasswordLength \in Nat
    /\ 2 * MaxPasswordLength < UInt
    /\ PasswordCounts \subseteq 0..(UInt - 1)
    /\ CharacterCounts \subseteq 0..(UInt - 1)
    /\ CmdCharacterCounts \subseteq 0..(UInt - 1)
    /\ \A c \in CharacterSets : c \in Seq(STRING)

VARIABLES
    rs_i, rs_j, rs_s, \* struct arc4_stream rs
    rs_initialized,   \* rs has been set up
    rs_stired,        \* rs has been given a key
    arc4_count,       \* bytes left until the next key
    dat,              \* the key being mixed in
    n,                \* the loop index in arc4random.c
    val,              \* the word being put together
    pc,               \* the step the program is at
    password_count, character_count, cmd_character_count, character_set,
    upper_bound,      \* the bound of the weights
    password_string,  \* the password so far
    random_weight,    \* the weight of each character
    j,                \* the loop index over the characters
    max_weight, max_weight_element_number,
    printed,          \* the password printed last
    done,             \* how many have been printed
    used              \* history: bytes put into words since the last key

stream   == <<rs_i, rs_j, rs_s>>
stirring == <<rs_initialized, rs_stired, arc4_count, dat, used>>
profile  == <<password_count, character_count, cmd_character_count,
              character_set, upper_bound>>
choice   == <<random_weight, j, max_weight, max_weight_element_number>>
output   == <<password_string, printed, done>>
vars     == <<stream, stirring, n, val, pc, profile, choice, output>>

-----------------------------------------------------------------------------
TypeOK ==
    /\ rs_i \in Byte /\ rs_j \in Byte /\ rs_s \in [Byte -> Byte]
    /\ rs_initialized \in BOOLEAN /\ rs_stired \in BOOLEAN
    /\ arc4_count \in Int /\ used \in Nat
    /\ dat \in Key
    /\ n \in Nat /\ val \in Nat
    /\ pc \in {"next", "for", "weigh", "scan", "arc4random", "stir",
               "addrandom", "discard", "getword", "done", "failed"}
    /\ password_count \in PasswordCounts
    /\ character_count \in CharacterCounts
    /\ cmd_character_count \in CmdCharacterCounts
    /\ character_set \in CharacterSets
    /\ upper_bound \in Bounds
    /\ password_string \in Seq(STRING) /\ printed \in Seq(STRING)
    /\ random_weight \in [DOMAIN character_set -> Nat]
    /\ j \in Nat \ {0} /\ max_weight \in Nat
    /\ max_weight_element_number \in Nat \ {0}
    /\ done \in Nat

Init ==
    /\ rs_i = 0 /\ rs_j = 0 /\ rs_s = [x \in Byte |-> 0]
    /\ rs_initialized = FALSE /\ rs_stired = FALSE
    /\ arc4_count = 0 /\ used = 0
    /\ dat = [x \in 0..(KeySize - 1) |-> 0]
    /\ n = 0 /\ val = 0
    /\ pc = "next"
    /\ password_count \in PasswordCounts
    /\ character_count \in CharacterCounts
    /\ cmd_character_count \in CmdCharacterCounts
    /\ character_set \in CharacterSets
    /\ upper_bound \in Bounds
    /\ password_string = <<>> /\ printed = <<>> /\ done = 0
    /\ random_weight = [x \in DOMAIN character_set |-> 0]
    /\ j = 1 /\ max_weight = 0 /\ max_weight_element_number = 1

-----------------------------------------------------------------------------
(* The stream: arc4random.c.                                               *)

\* Mutant of Swap: the first index is overwritten before it is saved.
SwapUnsaved(f, x, y) == [f EXCEPT ![x] = f[y]]

Swap(f, x, y) == [f EXCEPT ![x] = f[y], ![y] = f[x]]

arc4_init == rs_i' = 0 /\ rs_j' = 0 /\ rs_s' = [x \in Byte |-> x]

arc4_check_init ==
    /\ rs_initialized' = TRUE
    /\ IF rs_initialized THEN UNCHANGED stream ELSE arc4_init

\* Mutant of StirDue: only the first key is ever mixed in.
StirDueOnce == ~rs_stired

\* The test of arc4_check_stir.
StirDue == ~rs_stired \/ arc4_count <= 0

\* arc4random up to arc4_getword.
Arc4Random ==
    /\ pc = "arc4random"
    /\ arc4_check_init
    /\ pc' = IF StirDue THEN "stir" ELSE "getword"
    /\ n' = 0 /\ val' = 0
    /\ UNCHANGED <<rs_stired, arc4_count, dat, used, profile, choice, output>>

\* Mutant of Stir: the index is decremented without regard to its width.
StirUnwrapped ==
    /\ pc = "stir"
    /\ \E key \in Key : dat' = key
    /\ rs_i' = rs_i - 1
    /\ n' = 0
    /\ pc' = "addrandom"
    /\ UNCHANGED <<rs_j, rs_s, rs_initialized, rs_stired, arc4_count, used,
                   val, profile, choice, output>>

\* arc4_stir up to the loop of arc4_addrandom.  When /dev/urandom cannot be
\* read the key is the time, the pid and what is on the stack: any bytes too.
Stir ==
    /\ pc = "stir"
    /\ \E key \in Key : dat' = key
    /\ rs_i' = (rs_i - 1) % B
    /\ n' = 0
    /\ pc' = "addrandom"
    /\ UNCHANGED <<rs_j, rs_s, rs_initialized, rs_stired, arc4_count, used,
                   val, profile, choice, output>>

\* The loop of arc4_addrandom, and the assignment to rs.j after it.
AddRandom ==
    /\ pc = "addrandom"
    /\ IF n < B
         THEN LET i == (rs_i + 1) % B
                  k == (rs_j + rs_s[i] + dat[n % KeySize]) % B
              IN  /\ rs_i' = i /\ rs_j' = k /\ rs_s' = Swap(rs_s, i, k)
                  /\ n' = n + 1
                  /\ UNCHANGED pc
         ELSE /\ rs_j' = rs_i
              /\ n' = 0
              /\ pc' = "discard"
              /\ UNCHANGED <<rs_i, rs_s>>
    /\ UNCHANGED <<stirring, val, profile, choice, output>>

\* arc4_getbyte: the stream moves on, and the byte that it returns.
Advance ==
    LET i == (rs_i + 1) % B
        k == (rs_j + rs_s[i]) % B
    IN  rs_i' = i /\ rs_j' = k /\ rs_s' = Swap(rs_s, i, k)

GetByte ==
    LET i  == (rs_i + 1) % B
        si == rs_s[i]
        k  == (rs_j + si) % B
        sj == rs_s[k]
    IN  Swap(rs_s, i, k)[(si + sj) % B]

\* The end of arc4_stir: bytes are thrown away, and the count is renewed.
Discard ==
    /\ pc = "discard"
    /\ IF n < Discarded
         THEN /\ Advance
              /\ n' = n + 1
              /\ UNCHANGED <<rs_stired, arc4_count, used, pc>>
         ELSE /\ rs_stired' = TRUE
              /\ arc4_count' = StirInterval
              /\ used' = 0
              /\ n' = 0
              /\ pc' = "getword"
              /\ UNCHANGED stream
    /\ UNCHANGED <<rs_initialized, dat, val, profile, choice, output>>

\* Mutant of Min: the greatest word is taken for the number of words.
MinOfGreatest(b) ==
    IF 2 * b > Word THEN Word - b
    ELSE (Word - 1 - ((b * 2) % Word)) % b

\* 2^32 % upper_bound without 64-bit numbers; the build sees no ULONG_MAX.
Min(b) ==
    IF 2 * b > Word THEN Word - b
    ELSE ((Word - ((b * 2) % Word)) % Word) % b

\* arc4_getword, byte by byte; arc4random then counts the four of them.
GetWord ==
    /\ pc = "getword" /\ n < 4
    /\ val' = val * B + GetByte
    /\ Advance
    /\ n' = n + 1
    /\ used' = used + 1
    /\ arc4_count' = IF n = 3 THEN arc4_count - 4 ELSE arc4_count
    /\ UNCHANGED <<rs_initialized, rs_stired, dat, pc, profile, choice,
                   output>>

\* arc4random_uniform draws again below the minimum, or it returns to
\* generate_password_from_set.
Uniform ==
    /\ pc = "getword" /\ n = 4
    /\ \/ /\ val < Min(upper_bound)
          /\ pc' = "arc4random"
          /\ UNCHANGED <<random_weight, j>>
       \/ /\ val >= Min(upper_bound)
          /\ random_weight' = [random_weight EXCEPT
                                 ![j] = 1 + (val % upper_bound)]
          /\ j' = j + 1
          /\ pc' = "weigh"
    /\ UNCHANGED <<stream, stirring, n, val, profile, max_weight,
                   max_weight_element_number, output>>

-----------------------------------------------------------------------------
(* The password: profile.c and randpass.c.                                 *)

\* A character count specified on the command line takes precedence.
Requested == IF cmd_character_count > 0 THEN cmd_character_count
                                        ELSE character_count

\* The unsigned count, taken for an int.
Length == IF 2 * Requested < UInt THEN Requested ELSE Requested - UInt

\* xcalloc ends the program instead of allocating nothing.
xcallocFails(nmemb) == nmemb = 0

\* Mutant of Refused: the least length is not tested.
RefusedUnlessShort ==
    \/ xcallocFails((Requested + 1) % UInt)
    \/ Length > MaxPasswordLength
    \/ xcallocFails(Len(character_set))

\* The allocations and tests that end the program: xcalloc of the password,
\* the bounds of generate_password_from_set, xcalloc of the weights.
Refused ==
    \/ xcallocFails((Requested + 1) % UInt)
    \/ Length > MaxPasswordLength \/ Length < 1
    \/ xcallocFails(Len(character_set))

\* The loop of profile_fprint_passwords, and profile_generate_password up to
\* the loops of generate_password_from_set.
NextPassword ==
    /\ pc = "next"
    /\ \/ done = password_count /\ pc' = "done"
       \/ done # password_count /\ Refused /\ pc' = "failed"
       \/ done # password_count /\ ~Refused /\ pc' = "for"
    /\ password_string' = <<>>
    /\ j' = 1
    /\ random_weight' = [x \in DOMAIN character_set |-> 0]
    /\ UNCHANGED <<stream, stirring, n, val, profile, max_weight,
                   max_weight_element_number, printed, done>>

\* The loop over the symbols; profile_fprint_passwords prints the password
\* when it is complete.
For ==
    /\ pc = "for"
    /\ IF Len(password_string) < Length
         THEN pc' = "weigh" /\ UNCHANGED <<printed, done>>
         ELSE pc' = "next" /\ printed' = password_string /\ done' = done + 1
    /\ UNCHANGED <<stream, stirring, n, val, profile, choice, password_string>>

\* One weight: arc4random_uniform up to its loop.
Weigh ==
    /\ pc = "weigh"
    /\ \/ /\ j > Len(character_set)
          /\ j' = 1 /\ pc' = "scan"
          /\ UNCHANGED random_weight
       \/ /\ j <= Len(character_set) /\ upper_bound < 2
          /\ random_weight' = [random_weight EXCEPT ![j] = 1]
          /\ j' = j + 1
          /\ UNCHANGED pc
       \/ /\ j <= Len(character_set) /\ upper_bound >= 2
          /\ pc' = "arc4random"
          /\ UNCHANGED <<j, random_weight>>
    /\ UNCHANGED <<stream, stirring, n, val, profile, max_weight,
                   max_weight_element_number, output>>

\* Find an element with maximum weight.
Scan ==
    /\ pc = "scan" /\ j <= Len(character_set)
    /\ j' = j + 1
    /\ IF random_weight[j] > max_weight
         THEN max_weight' = random_weight[j] /\ max_weight_element_number' = j
         ELSE UNCHANGED <<max_weight, max_weight_element_number>>
    /\ UNCHANGED <<stream, stirring, n, val, pc, profile, random_weight,
                   output>>

\* Mutant of Symbol: the greatest weight is kept for the next symbol.
SymbolMaxWeightKept ==
    /\ pc = "scan" /\ j > Len(character_set)
    /\ password_string' = Append(password_string,
                                 character_set[max_weight_element_number])
    /\ pc' = "for"
    /\ j' = 1
    /\ max_weight_element_number' = 1
    /\ random_weight' = [x \in DOMAIN character_set |-> 0]
    /\ UNCHANGED <<stream, stirring, n, val, profile, max_weight, printed,
                   done>>

\* Get password symbol, and start over.
Symbol ==
    /\ pc = "scan" /\ j > Len(character_set)
    /\ password_string' = Append(password_string,
                                 character_set[max_weight_element_number])
    /\ pc' = "for"
    /\ j' = 1
    /\ max_weight' = 0 /\ max_weight_element_number' = 1
    /\ random_weight' = [x \in DOMAIN character_set |-> 0]
    /\ UNCHANGED <<stream, stirring, n, val, profile, printed, done>>

-----------------------------------------------------------------------------
Next == \/ NextPassword \/ For \/ Weigh \/ Scan \/ Symbol
        \/ Arc4Random \/ Stir \/ AddRandom \/ Discard
        \/ GetWord \/ Uniform

Spec == Init /\ [][Next]_vars

-----------------------------------------------------------------------------
(* Properties.                                                             *)

\* Key after key, the state of the stream stays a permutation of the bytes:
\* no exchange of arc4_addrandom or arc4_getbyte drops a value, even when its
\* two indices are the same.
StateIsPermutation ==
    rs_initialized => \A x, y \in Byte : rs_s[x] = rs_s[y] => x = y

\* No byte reaches a password before a key was mixed in, and at most
\* StirInterval bytes and the rest of a word come out of one key, however the
\* draws of arc4random_uniform fall (arc4_check_stir, arc4random).
KeyRenewed ==
    /\ used > 0 => rs_stired
    /\ used <= StirInterval + 3

\* The bounds below which every result comes from equally many of the words
\* that arc4random_uniform accepts, and most words are accepted.
EvenBounds ==
    {b \in Bounds : b >= 2 =>
       LET accepted == Min(b)..(Word - 1)
           Sources(k) == {r \in accepted : r % b = k}
       IN  /\ 2 * Cardinality(accepted) > Word
           /\ \A k \in 0..(b - 1) :
                Cardinality(Sources(k)) = Cardinality(Sources(0))}

\* arc4random_uniform has no "modulo bias", and "each retry has p > 0.5", also
\* at and above half the range of a word, where b * 2 wraps around: a word is
\* only drawn for a bound for which both hold.
Unbiased == pc = "getword" => upper_bound \in EvenBounds

\* A password that is printed has exactly the length that was asked for, also
\* at the ends of unsigned int, and characters of the profile's set; and there
\* are as many as were asked for unless the program fails (profile.c).
PrintedAsAsked ==
    /\ done > 0 =>
         /\ Len(printed) = Requested
         /\ Len(printed) \in 1..MaxPasswordLength
         /\ \A x \in DOMAIN printed :
              \E y \in DOMAIN character_set : printed[x] = character_set[y]
    /\ pc = "done" => done = password_count

\* The character that is added is the first one of greatest weight, whatever
\* the weights of the characters before were (generate_password_from_set).
HeaviestAdded ==
    [][Len(password_string') > Len(password_string) =>
         \E k \in DOMAIN character_set :
           /\ password_string' = Append(password_string, character_set[k])
           /\ \A x \in DOMAIN character_set :
                /\ random_weight[x] <= random_weight[k]
                /\ x < k => random_weight[x] < random_weight[k]]_vars

-----------------------------------------------------------------------------
(* What the proofs need besides.                                           *)

Drawing == {"arc4random", "stir", "addrandom", "discard", "getword"}

\* A character is only drawn for a password that was not refused.
LoopInv ==
    /\ pc \notin {"next", "done", "failed"} => ~Refused
    /\ pc \in Drawing => upper_bound >= 2 /\ j <= Len(character_set)
    /\ pc = "getword" => n <= 4
    /\ max_weight_element_number \in {1} \cup DOMAIN character_set

\* The count and the bytes used since the last key add up.
CountInv ==
    /\ ~rs_stired => used = 0
    /\ rs_stired =>
         /\ arc4_count > -4
         /\ used = StirInterval - arc4_count
                     + (IF pc = "getword" /\ n < 4 THEN n ELSE 0)
    /\ pc = "getword" => rs_stired /\ (n < 4 => arc4_count > 0)

\* The password so far.
LengthInv ==
    /\ pc \notin {"next", "done", "failed"} =>
         /\ Len(password_string) <= Length
         /\ pc # "for" => Len(password_string) < Length
         /\ \A x \in DOMAIN password_string :
              \E y \in DOMAIN character_set :
                password_string[x] = character_set[y]
    /\ PrintedAsAsked

\* The weights so far, and the greatest of them.
WeightInv ==
    /\ pc # "scan" => max_weight = 0 /\ max_weight_element_number = 1
    /\ pc \in Drawing \cup {"weigh"} =>
         \A x \in DOMAIN character_set : x < j => random_weight[x] >= 1
    /\ pc = "for" => j = 1
    /\ pc = "scan" =>
         /\ \A x \in DOMAIN character_set : random_weight[x] >= 1
         /\ \A x \in DOMAIN character_set :
              x < j => random_weight[x] <= max_weight
         /\ j = 1 => max_weight = 0 /\ max_weight_element_number = 1
         /\ j > 1 =>
              /\ max_weight_element_number \in DOMAIN character_set
              /\ max_weight_element_number < j
              /\ random_weight[max_weight_element_number] = max_weight
              /\ \A x \in DOMAIN character_set :
                   x < max_weight_element_number =>
                     random_weight[x] < max_weight

=============================================================================
