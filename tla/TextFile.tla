------------------------------ MODULE TextFile -------------------------------
(***************************************************************************)
(* What mdp does to the text of the passwords: it reads lines in pieces,   *)
(* decodes them into a buffer that it uses again and again, strips them,   *)
(* keeps them in an array, writes them out for the editor, reads the text  *)
(* back, and compares two checksums; or it matches the lines against       *)
(* keywords.  EditSession.tla has the files, the locks and the signals     *)
(* around this; here one process runs, and the bytes are the subject.      *)
(*                                                                         *)
(* A byte is in 1..255 and a wide character is a code point: the encoding  *)
(* is UTF-8, of which the sequences of one and two bytes are modelled.     *)
(***************************************************************************)
EXTENDS Integers, SequencesExt, FiniteSetsExt, Cksum

CONSTANTS
    LineSize,      \* MAX_LINE_SIZE: 16384
    KeywordLength, \* KEYWORD_LENGTH: 50
    InitialSpace,  \* ARRAY_INITIALSPACE, in items: 10
    Sessions,      \* the command, the password file and the arguments
    Typed,         \* bytes that an editor may put into the file
    Queries,       \* texts typed in the pager
    KeywordLists   \* arguments of `mdp get'

ASSUME SizeAssumption ==
    /\ LineSize \in Nat /\ LineSize > 1
    /\ KeywordLength \in Nat \ {0} /\ InitialSpace \in Nat \ {0}

Byte == 1..255

\* The characters that two bytes encode.
Char == 1..2047

\* What a session is given.
Given == [command: {"add", "edit", "get"}, exists: BOOLEAN, file: Seq(Byte),
          argv: Seq(Seq(Byte)), passwords: Seq(Seq(Char))]

ASSUME TextAssumption ==
    /\ Sessions \subseteq Given
    /\ Typed \subseteq Byte /\ Queries \subseteq Seq(Byte)
    /\ KeywordLists \subseteq Seq(Seq(Byte))

NUL   == 0
TAB   == 9
NL    == 10
CR    == 13
SPACE == 32
HASH  == 35

VARIABLES
    session,         \* [command, exists, file, argv, passwords]
    pc,              \* the step the program is at
    fp,              \* what remains to be read
    wline,           \* the static buffer of load_results_fp
    crc, len,        \* crcctx
    results,         \* the array of results
    space,           \* the items that its allocation holds
    result_crc32,    \* the sum of the text that was loaded last
    previous_crc32,  \* the sum before the editor ran
    tmp,             \* the temporary file
    keywords         \* the keywords of the last search

reading == <<fp, wline, crc, len, results, space>>
sums    == <<result_crc32, previous_crc32>>
vars    == <<session, pc, reading, sums, tmp, keywords>>

-----------------------------------------------------------------------------
(* Characters.                                                             *)

\* The number of bytes of the character at i; 0 when there is none there.
Width(s, i) ==
    CASE s[i] < 128 -> 1
      [] s[i] \in 194..223 /\ i < Len(s) /\ s[i + 1] \in 128..191 -> 2
      [] OTHER -> 0

DecodedChar(s, i) ==
    IF Width(s, i) = 1 THEN s[i] ELSE (s[i] - 192) * 64 + (s[i + 1] - 128)

\* What is made of n positions, from the first one on: piece[i] of position i,
\* then what is made from next[i] on, up to a position that has no next one.
Pieces(n, next, piece) ==
    LET from[i \in 1..(n + 1)] ==
          IF i \in DOMAIN next THEN piece[i] \o from[next[i]] ELSE <<>>
    IN  from[1]

\* The characters of s up to the end or to bytes that are no character.
Decoded(s) ==
    LET heads == {i \in DOMAIN s : Width(s, i) # 0}
    IN  Pieces(Len(s), [i \in heads |-> i + Width(s, i)],
                       [i \in heads |-> <<DecodedChar(s, i)>>])

EncodedChar(c) ==
    IF c < 128 THEN <<c>> ELSE <<192 + c \div 64, 128 + (c % 64)>>

\* wcstombs, in wcs_duplicate_as_mbs.
Encoded(w) == FlattenSeq([i \in DOMAIN w |-> EncodedChar(w[i])])

Decodes(s) == Encoded(Decoded(s)) = s

\* Mutant of mbstowcs: no room is left for the NUL.
mbstowcsUnterminated(buf, s) ==
    LET w == Decoded(s)
    IN  [i \in DOMAIN buf |-> IF i <= Len(w) THEN w[i] ELSE buf[i]]

\* mbstowcs: what precedes the error is stored, and no NUL after it.
mbstowcs(buf, s) ==
    LET w == Decoded(s)
    IN  [i \in DOMAIN buf |->
           CASE i <= Len(w) -> w[i]
             [] i = Len(w) + 1 /\ Decodes(s) -> NUL
             [] OTHER -> buf[i]]

\* Mutant of wcslen: the NUL is counted.
wcslenWithNul(buf) == Min({i \in DOMAIN buf : buf[i] = NUL})

wcslen(buf) == Min({i \in DOMAIN buf : buf[i] = NUL} \cup {Len(buf) + 1}) - 1

Blank == {SPACE, TAB, CR, NL}

wcs_strip_trailing_whitespaces(buf) ==
    LET kept == Max({0} \cup {i \in 1..wcslen(buf) : buf[i] \notin Blank})
    IN  [i \in DOMAIN buf |-> IF i \in (kept + 1)..wcslen(buf) THEN NUL
                                                              ELSE buf[i]]

towlower(c) == IF c \in (65..90) \cup ((192..222) \ {215}) THEN c + 32 ELSE c

\* At position i, the character of a string or the NUL after it.
At(s, i) == IF i > Len(s) THEN NUL ELSE s[i]

\* Mutant of SameFrom: the characters after the first are compared as they are.
SameFromExactly(s, i, find, k, n) ==
    \A m \in 0..(n - 1) : At(s, i + m) = At(find, k + m)

\* wcsncasecmp(s + i - 1, find + k - 1, n) = 0: no difference up to the n-th
\* character or to the NUL of s.
SameFrom(s, i, find, k, n) ==
    \A m \in 0..(n - 1) :
      (\A j \in 0..(m - 1) : At(s, i + j) # NUL) =>
        towlower(At(s, i + m)) = towlower(At(find, k + m))

\* wcscasestr(s, find) # NULL: the first character, then the others.
wcscasestr(s, find) ==
    \/ find = <<>>
    \/ \E i \in DOMAIN s :
         /\ towlower(s[i]) = towlower(find[1])
         /\ SameFrom(s, i + 1, find, 2, Len(find) - 1)

-----------------------------------------------------------------------------
(* Arrays: ARRAY_ENSURE and ARRAY_ADD.                                     *)

\* Mutant of Ensured: the list is allocated and never grows.
EnsuredOnce(have, num) == IF have = 0 THEN InitialSpace ELSE have

Ensured(have, num) ==
    LET grown[s \in Nat] == IF s <= num THEN grown[s * 2] ELSE s
    IN  grown[IF have = 0 THEN InitialSpace ELSE have]

Result == [wcs_value: Seq(Char), visible: BOOLEAN]

result_new(value) == [wcs_value |-> value, visible |-> TRUE]

-----------------------------------------------------------------------------
(* load_results_fp.                                                        *)

\* Mutant of FgetsLength: no room is left for the NUL.
FgetsLengthFull(s) == Min({i \in DOMAIN s : s[i] = NL} \cup {LineSize, Len(s)})

\* fgets: up to a new line, at most LineSize - 1 bytes.
FgetsLength(s) ==
    Min({i \in DOMAIN s : s[i] = NL} \cup {LineSize - 1, Len(s)})

ReadLine ==
    /\ pc \in {"load", "reload"} /\ fp # <<>>
    /\ LET k    == FgetsLength(fp)
           line == SubSeq(fp, 1, k)
           buf  == wcs_strip_trailing_whitespaces(mbstowcs(wline, line))
       IN  /\ fp' = SubSeq(fp, k + 1, Len(fp))
           /\ crc' = CKSUM_Update(crc, line) /\ len' = len + k
           /\ wline' = buf
           /\ results' = Append(results,
                                result_new(SubSeq(buf, 1, wcslen(buf))))
           /\ space' = Ensured(space, Len(results) + 1)
    /\ UNCHANGED <<session, pc, sums, tmp, keywords>>

\* CKSUM_Final; for the second load, the comparison in has_changed too.  Then
\* edit_results goes to gpg_encrypt ("changed") or not ("unchanged").
LoadEnd ==
    /\ pc \in {"load", "reload"} /\ fp = <<>>
    /\ result_crc32' = IF pc = "load" /\ ~session.exists THEN result_crc32
                       ELSE CKSUM_Final(crc, len)
    /\ pc' = IF pc = "load" THEN "loaded"
             ELSE IF previous_crc32 # result_crc32' THEN "changed"
             ELSE "unchanged"
    /\ UNCHANGED <<session, reading, previous_crc32, tmp, keywords>>

-----------------------------------------------------------------------------
(* mdp add and mdp edit.                                                   *)

strlcat(dst, src, siz) ==
    dst \o SubSeq(src, 1, Min({Len(src), siz - 1 - Len(dst)}))

\* Mutant of join_list: the NUL is not counted.
join_listWithoutNul(tokens) ==
    LET joined[n \in 0..Len(tokens)] ==
          IF n = 0 THEN [siz |-> Len(tokens) - 1, str |-> <<>>]
          ELSE LET o == joined[n - 1]
                   siz == o.siz + Len(tokens[n]) + (IF n = 1 THEN 0 ELSE 1)
                   str == IF n = 1 THEN <<>> ELSE strlcat(o.str, <<SPACE>>, siz)
               IN  [siz |-> siz, str |-> strlcat(str, tokens[n], siz)]
    IN  joined[Len(tokens)].str

\* join_list(' ', count, tokens): the string after n tokens, and its size.
join_list(tokens) ==
    LET joined[n \in 0..Len(tokens)] ==
          IF n = 0 THEN [siz |-> Len(tokens), str |-> <<>>]
          ELSE LET o == joined[n - 1]
                   siz == o.siz + Len(tokens[n]) + (IF n = 1 THEN 0 ELSE 1)
                   str == IF n = 1 THEN <<>> ELSE strlcat(o.str, <<SPACE>>, siz)
               IN  [siz |-> siz, str |-> strlcat(str, tokens[n], siz)]
    IN  joined[Len(tokens)].str

\* cmd_parse_add: the prefix, or the end of the program.
Prefix == Decoded(join_list(session.argv))

ParseAdd ==
    /\ pc = "parse"
    /\ pc' = IF session.argv # <<>> /\ ~Decodes(join_list(session.argv))
               THEN "failed" ELSE "load"
    /\ UNCHANGED <<session, reading, sums, tmp, keywords>>

wcsjoin(sep, base, suffix) == base \o <<sep>> \o suffix

\* profile_passwords_to_results.
AddPasswords ==
    /\ pc = "loaded" /\ session.command = "add"
    /\ LET Line(p) == IF session.argv = <<>> THEN p
                      ELSE wcsjoin(TAB, Prefix, p)
           new == [i \in DOMAIN session.passwords |->
                     result_new(Line(session.passwords[i]))]
       IN  /\ results' = results \o new
           /\ space' = Ensured(space, Len(results) + Len(new))
    /\ pc' = "added"
    /\ UNCHANGED <<session, fp, wline, crc, len, sums, tmp, keywords>>

\* Mutant of Dump: wcs_len bytes of mbs_value are written.
DumpWideLength ==
    /\ \/ pc = "loaded" /\ session.command = "edit"
       \/ pc = "added"
    /\ tmp' = FlattenSeq([i \in DOMAIN results |->
                 Append(SubSeq(Encoded(results[i].wcs_value), 1,
                               Len(results[i].wcs_value)), NL)])
    /\ pc' = "dumped"
    /\ UNCHANGED <<session, reading, sums, keywords>>

\* edit_results: the temporary file.
Dump ==
    /\ \/ pc = "loaded" /\ session.command = "edit"
       \/ pc = "added"
    /\ tmp' = FlattenSeq([i \in DOMAIN results |->
                            Append(Encoded(results[i].wcs_value), NL)])
    /\ pc' = "dumped"
    /\ UNCHANGED <<session, reading, sums, keywords>>

\* The editor leaves the file alone, or changes, inserts or removes a byte.
Editor ==
    /\ pc = "dumped"
    /\ \/ UNCHANGED tmp
       \/ \E i \in DOMAIN tmp, b \in Typed : tmp' = [tmp EXCEPT ![i] = b]
       \/ \E i \in 1..(Len(tmp) + 1), b \in Typed : tmp' = InsertAt(tmp, i, b)
       \/ \E i \in DOMAIN tmp : tmp' = RemoveAt(tmp, i)
    /\ pc' = "edited"
    /\ UNCHANGED <<session, reading, sums, keywords>>

\* Mutant of HasChanged: the second load goes on with the sum of the first.
HasChangedWithoutReset ==
    /\ pc = "edited"
    /\ previous_crc32' = result_crc32
    /\ fp' = tmp
    /\ pc' = "reload"
    /\ UNCHANGED <<session, wline, crc, len, results, space, result_crc32, tmp,
                   keywords>>

\* has_changed up to the loop of load_results_fp.
HasChanged ==
    /\ pc = "edited"
    /\ previous_crc32' = result_crc32
    /\ fp' = tmp
    /\ crc' = {} /\ len' = 0
    /\ pc' = "reload"
    /\ UNCHANGED <<session, wline, results, space, result_crc32, tmp,
                   keywords>>

-----------------------------------------------------------------------------
(* mdp get: keywords.c and filter_results.                                 *)

\* strtok_r(kw, " "): the maximal runs without a space.
Tokens(s) ==
    LET end(i) == Min({k \in i..Len(s) : s[k] = SPACE} \cup {Len(s) + 1})
    IN  Pieces(Len(s),
               [i \in DOMAIN s |-> IF s[i] = SPACE THEN i + 1 ELSE end(i)],
               [i \in DOMAIN s |-> IF s[i] = SPACE THEN <<>>
                                   ELSE <<SubSeq(s, i, end(i) - 1)>>])

\* kw is not read past its end, and no byte of it is left from before.
KeywordDefined(k) == Decodes(k) /\ Len(Decoded(k)) < KeywordLength

\* What line_matches may return: a keyword that is not defined may match.
Matches(line) ==
    IF At(line, 1) = HASH THEN {FALSE}
    ELSE IF \E i \in DOMAIN keywords' :
              /\ KeywordDefined(keywords'[i])
              /\ ~wcscasestr(line, Decoded(keywords'[i]))
         THEN {FALSE}
    ELSE IF \E i \in DOMAIN keywords' : ~KeywordDefined(keywords'[i])
         THEN BOOLEAN
    ELSE {TRUE}

filter_results ==
    \E visible \in [DOMAIN results -> BOOLEAN] :
      /\ \A i \in DOMAIN results :
           visible[i] \in Matches(results[i].wcs_value)
      /\ results' = [i \in DOMAIN results |->
                       [results[i] EXCEPT !.visible = visible[i]]]

\* mdp_get and mdp_prompt end when there are no passwords; otherwise the
\* keywords are the arguments, or what is typed at the prompt.
NoPasswords ==
    /\ pc = "loaded" /\ session.command = "get" /\ results = <<>>
    /\ pc' = "failed"
    /\ UNCHANGED <<session, reading, sums, tmp, keywords>>

Get ==
    /\ pc = "loaded" /\ session.command = "get" /\ results # <<>>
    /\ \/ keywords' \in KeywordLists
       \/ \E q \in Queries : keywords' = Tokens(q)
    /\ filter_results
    /\ pc' = "shown"
    /\ UNCHANGED <<session, fp, wline, crc, len, space, sums, tmp>>

\* The loop of _pager: the user searches again.
Refine ==
    /\ pc = "shown"
    /\ \E q \in Queries : keywords' = Tokens(q)
    /\ filter_results
    /\ UNCHANGED <<session, pc, fp, wline, crc, len, space, sums, tmp>>

-----------------------------------------------------------------------------
Init ==
    /\ session \in Sessions
    /\ pc = IF session.command = "add" THEN "parse" ELSE "load"
    /\ fp = session.file
    /\ wline = [i \in 1..LineSize |-> NUL]
    /\ crc = {} /\ len = 0
    /\ results = <<>> /\ space = 0
    /\ result_crc32 = {} /\ previous_crc32 = {}
    /\ tmp = <<>> /\ keywords = <<>>

Next == \/ ParseAdd \/ ReadLine \/ LoadEnd
        \/ AddPasswords \/ Dump \/ Editor \/ HasChanged
        \/ NoPasswords \/ Get \/ Refine

Spec == Init /\ [][Next]_vars

-----------------------------------------------------------------------------
(* Properties.                                                             *)

TypeOK ==
    /\ session \in Given
    /\ pc \in {"parse", "load", "loaded", "added", "dumped", "edited",
               "reload", "changed", "unchanged", "shown", "failed"}
    /\ fp \in Seq(Byte) /\ tmp \in Seq(Byte)
    /\ wline \in [1..LineSize -> Char \cup {NUL}]
    /\ crc \in Word /\ result_crc32 \in Word /\ previous_crc32 \in Word
    /\ len \in Nat /\ space \in Nat
    /\ results \in Seq(Result)
    /\ keywords \in Seq(Seq(Byte))

\* The static buffer of load_results_fp ends in a NUL whatever was decoded into
\* it, a line that fills it or a failed mbstowcs over an earlier line: wcslen
\* and wcsdup stay inside (results.c:230).
BufferTerminated == wline[LineSize] = NUL

\* The results are inside of the allocated list, however it has grown over two
\* loads and the added passwords (ARRAY_ADD).
ArrayFits == Len(results) <= space

\* Reference: the lines of a text, the last one with or without a new line.
Lines(t) ==
    LET end(i) == Min({k \in i..Len(t) : t[k] = NL} \cup {Len(t) + 1})
    IN  Pieces(Len(t), [i \in DOMAIN t |-> Min({end(i), Len(t)}) + 1],
                       [i \in DOMAIN t |-> <<SubSeq(t, i, end(i) - 1)>>])

\* Reference: a string without the blanks at its end.
Trimmed(w) ==
    SubSeq(w, 1, Max({0} \cup {i \in DOMAIN w : w[i] \notin Blank}))

Entries(t) ==
    LET lines == Lines(t)
    IN  [i \in DOMAIN lines |-> Trimmed(Decoded(lines[i]))]

Short(t) == LET lines == Lines(t)
            IN  \A i \in DOMAIN lines : Len(lines[i]) < LineSize - 1

Readable(t) == LET lines == Lines(t)
               IN  Short(t) /\ \A i \in DOMAIN lines : Decodes(lines[i])

wcs_values == [i \in DOMAIN results |-> results[i].wcs_value]

\* Loading a text whose lines decode and are short enough yields its lines
\* without their trailing blanks, each one once and in order; also the second
\* time, into the buffer and after the results of the first (load_results_fp).
LoadFaithful ==
    /\ pc = "loaded" /\ Readable(session.file) =>
         wcs_values = Entries(session.file)
    /\ pc \in {"changed", "unchanged"} /\ Readable(tmp) =>
         LET entries == Entries(tmp)
             before  == Len(results) - Len(entries)
         IN  SubSeq(wcs_values, before + 1, Len(results)) = entries

\* The temporary file says what the results say: whoever reads it back finds
\* the same entries, also next to lines that were not decoded; unless one is
\* too long or was given with a new line inside (edit_results).
DumpFaithful ==
    /\ pc = "dumped"
    /\ \A i \in DOMAIN results :
         /\ Len(Encoded(results[i].wcs_value)) < LineSize - 1
         /\ NL \notin Range(results[i].wcs_value)
    => /\ Readable(tmp)
       /\ Entries(tmp) = [i \in DOMAIN results |-> Trimmed(wcs_values[i])]

\* Each password of `mdp add' is in the file after all the words that were
\* given as its prefix, with a space between two of them: no size in join_list
\* or strlcat cuts one off.
PrefixWhole ==
    pc = "added" =>
      LET argv   == session.argv
          joined == FlattenSeq([i \in DOMAIN argv |->
                      IF i = 1 THEN argv[1] ELSE <<SPACE>> \o argv[i]])
          count  == Len(session.passwords)
      IN  \A i \in 1..count :
            Encoded(wcs_values[Len(results) - count + i]) =
              (IF argv = <<>> THEN <<>> ELSE Append(joined, TAB))
                \o Encoded(session.passwords[i])

\* An edit that changes nothing is not saved: the sum of has_changed, taken line
\* by line in the second load, is the one of the first for the same bytes.
NoFalseChange ==
    pc = "changed" => ~session.exists \/ tmp # session.file

\* The edited text is dropped only when it is the text that was read: no change
\* of a byte, and no blank that the dump left out, is lost on the sums of
\* has_changed.
ChangeNoticed ==
    pc = "unchanged" => session.exists /\ tmp = session.file

\* What is shown are the lines that are no comment and contain every keyword,
\* in capitals or not; each search starts over (line_matches, wcscasestr).
MatchExact ==
    pc = "shown" /\ (\A k \in DOMAIN keywords : KeywordDefined(keywords[k])) =>
      LET Lower(w) == [i \in DOMAIN w |-> towlower(w[i])]
          Occurs(k, w) == \E i \in 1..(Len(w) - Len(k) + 1) :
                            SubSeq(w, i, i + Len(k) - 1) = k
      IN  \A i \in DOMAIN results :
            results[i].visible <=>
              /\ At(wcs_values[i], 1) # HASH
              /\ \A k \in DOMAIN keywords :
                   Occurs(Lower(Decoded(keywords[k])), Lower(wcs_values[i]))

\* Violated: a line that the locale cannot decode ends the program, "unable to
\* read line %d with the current locale." (results.c:235).  Even less is asked
\* here: whatever is loaded for a line is found at the start of that line.
LinesIntact ==
    pc = "loaded" /\ Short(session.file) =>
      \A i \in DOMAIN results :
        IsPrefix(Encoded(wcs_values[i]), Lines(session.file)[i])

=============================================================================
