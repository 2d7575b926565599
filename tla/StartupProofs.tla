---------------------------- MODULE StartupProofs ----------------------------
(***************************************************************************)
(* Proofs about Startup, for any configuration file, command words, names  *)
(* and numbers: the types, the checks of the store, the choice of the      *)
(* command and the number of passwords.  The last rests on RegistryInv,    *)
(* which says of the file read so far what CountAsDeclared says of the     *)
(* whole: what each line does to the settings, seen from the whole file.   *)
(***************************************************************************)
EXTENDS Startup, Inductions, SequenceTheorems, TLAPS

-----------------------------------------------------------------------------
(* Sets of indices.                                                        *)

\* First returns the least index, and only that one.
LEMMA FirstIsLeast ==
  ASSUME NEW S \in SUBSET Nat, S # {}
  PROVE  /\ First(S) \in S /\ \A k \in S : First(S) <= k
         /\ \A i \in S : (\A k \in S : i <= k) => First(S) = i
<1>1. First(S) \in S /\ \A k \in S : First(S) <= k
  BY LeastNat DEF First
<1>2. \A i \in S : i \in Nat
  OBVIOUS
<1>3. ASSUME NEW i \in S, \A k \in S : i <= k
      PROVE  First(S) = i
  <2>1. First(S) <= i /\ i <= First(S) /\ First(S) \in Nat /\ i \in Nat
    BY <1>1, <1>2, <1>3
  <2> QED BY <2>1
<1> QED
  BY <1>1, <1>3

-----------------------------------------------------------------------------
(* Types.                                                                  *)

\* Numbers are kept modulo Word.
LEMMA ModWord == \A n \in Int : n % Word \in 0..(Word - 1)
  BY WordAssumption

\* What a user writes are numbers.
LEMMA NumberType == \A n \in Numbers : n \in Nat
  BY NumbersAssumption, Zenon

\* What is kept of the options are a profile, a number below Word and a key.
LEMMA CmdType ==
  ASSUME NEW options \in Options
  PROVE  CmdVariables(options) \in
           [profile : ProfileNames \cup {"none", "default"},
            password_count : 0..(Word - 1), gpg_key_id : {NoKey, "option"}]
<1>1. options.password_count # NoCount =>
        options.password_count % Word \in 0..(Word - 1)
  <2>1. options.password_count # NoCount => options.password_count \in Int
    BY NumberType DEF Options
  <2> QED BY <2>1, ModWord
<1>2. 0 \in 0..(Word - 1)
  BY WordAssumption
<1> QED
  BY <1>1, <1>2 DEF CmdVariables, Options

\* What the lines that are acted upon hold.
LEMMA LineType ==
  ASSUME NEW l \in ConfigLines
  PROVE  /\ l.op = "profile" => l.name \in ProfileNames
         /\ l.op = "set" /\ l.name \in {"password_count", "timeout"} =>
              l.value \in Nat
         /\ l.op = "set" /\ l.name = "gpg_key_id" => l.value = "config"
<1>1. \A n \in Numbers : n \in Nat
  BY NumberType
<1>2. CASE l \in {[op |-> op, name |-> "", given |-> FALSE, value |-> ""] :
                     op \in {"blank", "unknown"}}
  <2>1. PICK op \in {"blank", "unknown"} :
          l = [op |-> op, name |-> "", given |-> FALSE, value |-> ""]
    BY <1>2
  <2>2. l.op \in {"blank", "unknown"}
    BY <2>1
  <2> QED BY <2>2
<1>3. CASE l \in [op : {"profile"}, name : ProfileNames, given : BOOLEAN,
                  value : {""}]
  BY <1>3
<1>4. CASE l \in SetLines("backup", Words)
  BY <1>4 DEF SetLines
<1>5. CASE l \in SetLines("password_count", Numbers)
  BY <1>1, <1>5 DEF SetLines
<1>6. CASE l \in SetLines("timeout", Numbers)
  BY <1>1, <1>6 DEF SetLines
<1>7. CASE l \in SetLines("gpg_key_id", {"config"})
  BY <1>7 DEF SetLines
<1>8. CASE l \in SetLines("unknown", {""})
  BY <1>8 DEF SetLines
<1> QED
  BY <1>2, <1>3, <1>4, <1>5, <1>6, <1>7, <1>8 DEF ConfigLines

\* The types and the order of the steps, at the start and at every step.
LEMMA InitType == Init => TypeOK /\ OrderInv
<1>1. 10 % Word \in 0..(Word - 1) /\ 4 \in 0..(Word - 1) /\ 0 \in 0..(Word - 1)
  BY WordAssumption
<1> QED
  BY <1>1, MaxLinesAssumption DEF Init, TypeOK, OrderInv, NoProfile, Profile,
     Options, NoOptions, CmdVariables, NoCount, NoKey, DirStates, FileStates, ConfigFileStates

\* Every step preserves them; reading a line is the long case.
LEMMA TypeStep == TypeOK /\ OrderInv /\ [Next]_vars => TypeOK' /\ OrderInv'
<1> SUFFICES ASSUME TypeOK, OrderInv, [Next]_vars
             PROVE  TypeOK' /\ OrderInv'
  OBVIOUS
<1>1. CASE UNCHANGED vars
  BY <1>1 DEF vars, TypeOK, OrderInv
<1>2. CASE ParseCore
  BY <1>2 DEF ParseCore, Exit, TypeOK, OrderInv
<1>3. CASE EnsureConfigDir
  BY <1>3 DEF EnsureConfigDir, EnsureDirectory, Exit, TypeOK, OrderInv,
              DirStates
<1>4. CASE CheckConfigFile
  BY <1>4 DEF CheckConfigFile, Exit, TypeOK, OrderInv, ConfigFileStates
<1>5. CASE ReadLine
  <2>1. PICK l \in ConfigLines :
          /\ lines' = Append(lines, l)
          /\ \/ UNCHANGED <<cfg, profiles>>
             \/ /\ l.op = "profile"
                /\ profiles' = Append(profiles, ProfileNew(l.name))
                /\ UNCHANGED cfg
             \/ /\ l.op = "set" /\ cfg' = SetVariable(l)
                /\ UNCHANGED profiles
             \/ /\ l.op = "set" /\ profiles # <<>> /\ SetProfileVariableOK(l)
                /\ profiles' = SetProfileVariable(l)
                /\ UNCHANGED cfg
    BY <1>5 DEF ReadLine
  <2>2. lines' \in Seq(ConfigLines) /\ Len(lines') <= MaxLines
    BY <1>5, <2>1, MaxLinesAssumption DEF ReadLine, TypeOK
  <2>3. profiles' \in Seq(Profile)
    <3>1. CASE UNCHANGED profiles
      BY <3>1 DEF TypeOK
    <3>2. CASE /\ l.op = "profile"
               /\ profiles' = Append(profiles, ProfileNew(l.name))
      <4>1. ProfileNew(l.name) \in Profile
        BY <3>2, LineType DEF ProfileNew, Profile, TypeOK
      <4> QED BY <3>2, <4>1 DEF TypeOK
    <3>3. CASE /\ l.op = "set" /\ profiles # <<>> /\ SetProfileVariableOK(l)
               /\ profiles' = SetProfileVariable(l)
      <4>1. l.value % Word \in 0..(Word - 1)
        BY <3>3, LineType, ModWord DEF SetProfileVariableOK
      <4>2. /\ profiles \in Seq(Profile) /\ Len(profiles) \in DOMAIN profiles
            /\ profiles[Len(profiles)] \in Profile
        BY <3>3 DEF TypeOK
      <4>3. [profiles[Len(profiles)] EXCEPT !.password_count = l.value % Word]
              \in Profile
        BY <4>1, <4>2 DEF Profile
      <4> QED BY <3>3, <4>2, <4>3 DEF SetProfileVariable
    <3> QED BY <2>1, <3>1, <3>2, <3>3
  <2>4. cfg' \in [backup : BOOLEAN, password_count : 0..(Word - 1),
                  timeout : 0..(Word - 1), gpg_key_id : {NoKey, "config"}]
    <3>1. CASE UNCHANGED cfg
      BY <3>1 DEF TypeOK
    <3>2. CASE l.op = "set" /\ cfg' = SetVariable(l)
      <4>1. l.name \in {"password_count", "timeout"} =>
              l.value % Word \in 0..(Word - 1)
        BY <3>2, LineType, ModWord
      <4>2. l.name = "gpg_key_id" => l.value = "config"
        BY <3>2, LineType
      <4> QED BY <3>2, <4>1, <4>2 DEF SetVariable, TypeOK, ParseBoolean
    <3> QED BY <2>1, <3>1, <3>2
  <2>5. /\ phase = "reading" /\ phase' \in {"reading", "exit"}
        /\ UNCHANGED <<fs, word, typed, cmd, chosen>>
    BY <1>5 DEF ReadLine, Exit
  <2> QED
    BY <2>2, <2>3, <2>4, <2>5 DEF TypeOK, OrderInv
<1>6. CASE ReadEnd
  BY <1>6 DEF ReadEnd, TypeOK, OrderInv
<1>7. CASE SetDefaults
  BY <1>7 DEF SetDefaults, TypeOK, OrderInv
<1>8. CASE EnsurePasswordDir
  BY <1>8 DEF EnsurePasswordDir, EnsureDirectory, Exit, TypeOK, OrderInv,
              DirStates
<1>9. CASE CheckPasswordFile
  BY <1>9 DEF CheckPasswordFile, Exit, TypeOK, OrderInv, FileStates
<1>10. CASE ParseCommand
  <2>1. PICK w \in CommandWords, options \in Options :
          /\ word' = w /\ typed' = options
          /\ \/ cmd' = CmdVariables(options)
             \/ UNCHANGED cmd
    BY <1>10 DEF ParseCommand
  <2>3. cmd' \in [profile : ProfileNames \cup {"none", "default"},
                  password_count : 0..(Word - 1),
                  gpg_key_id : {NoKey, "option"}]
    BY <2>1, CmdType DEF TypeOK
  <2>4. phase = "dispatch" /\ phase' \in {"profile", "running", "exit"}
    BY <1>10 DEF ParseCommand, Exit
  <2>5. UNCHANGED <<fs, lines, cfg, profiles, chosen>>
    BY <1>10 DEF ParseCommand
  <2>6. word' \in Seq(STRING) /\ typed' \in Options
    BY <2>1, CommandWordsAssumption
  <2> QED
    BY <2>3, <2>4, <2>5, <2>6 DEF TypeOK, OrderInv
<1>11. CASE ChooseProfile
  <2>1. ProfileNew("default") \in Profile
    BY DEF ProfileNew, Profile, TypeOK
  <2>2. ProfileGetFromName(cmd.profile) \in Profile
    <3> DEFINE found == {k \in DOMAIN profiles : profiles[k].name = cmd.profile}
    <3>1. CASE found = {}
      BY <3>1, WordAssumption DEF ProfileGetFromName, NoProfile, Profile
    <3>2. CASE found # {}
      <4>1. found \in SUBSET Nat
        BY DEF TypeOK
      <4>2. First(found) \in found
        <5> HIDE DEF found
        <5> QED BY <3>2, <4>1, FirstIsLeast
      <4> QED BY <3>2, <4>2 DEF ProfileGetFromName, TypeOK
    <3> QED BY <3>1, <3>2
  <2>3. chosen' \in Profile
    BY <1>11, <2>1, <2>2 DEF ChooseProfile
  <2>4. /\ phase = "profile" /\ phase' \in {"running", "exit"}
        /\ UNCHANGED <<fs, lines, cfg, profiles, word, typed, cmd>>
    BY <1>11 DEF ChooseProfile, Exit
  <2> QED
    BY <2>3, <2>4 DEF TypeOK, OrderInv
<1> QED
  BY <1>1, <1>2, <1>3, <1>4, <1>5, <1>6, <1>7, <1>8, <1>9, <1>10, <1>11
  DEF Next

\* The variables of Startup keep their types: counts stay in the width of an
\* unsigned int whatever numbers the file and the command line hold.
THEOREM StartupTypes == Spec => []TypeOK
<1>1. TypeOK /\ OrderInv /\ [Next]_vars => (TypeOK /\ OrderInv)'
  BY TypeStep
<1> QED
  BY <1>1, InitType, PTL DEF Spec

\* No command runs before every directory and file was found safe, on any path
\* through read_config (config_ensure_directory, config_check_file,
\* config_check_password_file).
THEOREM StoreIsChecked == Spec => []StoreChecked
<1>1. TypeOK /\ OrderInv /\ [Next]_vars => (TypeOK /\ OrderInv)'
  BY TypeStep
<1>2. OrderInv => StoreChecked
  BY DEF OrderInv, StoreChecked
<1> QED
  BY <1>1, <1>2, InitType, PTL DEF Spec
-----------------------------------------------------------------------------
(* The choice of the command.                                              *)

\* Letters of a larger set.
LEMMA WiderSeq ==
  ASSUME NEW S, NEW T, NEW w \in Seq(S)
  PROVE  w \in Seq(S \cup T)
  OBVIOUS

\* A word begins a name when the letters agree.
LEMMA PrefixLetters ==
  ASSUME NEW S, NEW w \in Seq(S), NEW t \in Seq(S)
  PROVE  IsPrefix(w, t) <=> /\ Len(w) <= Len(t)
                            /\ \A k \in 1..Len(w) : w[k] = t[k]
<1>1. ASSUME Len(w) <= Len(t)
      PROVE  SubSeq(w, 1, Len(w)) = SubSeq(t, 1, Len(w))
                <=> \A k \in 1..Len(w) : w[k] = t[k]
  <2> DEFINE a == SubSeq(w, 1, Len(w))
             b == SubSeq(t, 1, Len(w))
  <2>1. Len(w) \in Nat /\ Len(t) \in Nat
    OBVIOUS
  <2>2. /\ a \in Seq(S) /\ b \in Seq(S)
        /\ Len(a) = Len(w) /\ Len(b) = Len(w)
        /\ \A k \in 1..Len(w) : a[k] = w[k] /\ b[k] = t[k]
    BY <1>1, <2>1
  <2> HIDE DEF a, b
  <2>3. ASSUME \A k \in 1..Len(w) : w[k] = t[k]
        PROVE  a = b
    BY <2>2, <2>3, SeqEqual
  <2> QED BY <2>2, <2>3
<1> QED
  BY <1>1 DEF IsPrefix

\* How the five names differ: by their first letter, or by the third one.
LEMMA NamesDiffer ==
  ASSUME NEW w \in Seq(STRING)
  PROVE  LET Begins(c) == IsPrefix(w, CommandNames[c]) IN
         /\ Len(w) = 0 => \A c \in Commands : Begins(c)
         /\ Len(w) > 0 => /\ Begins("edit") => w[1] = "e"
                          /\ Begins("generate") => w[1] = "g"
                          /\ Begins("add") => w[1] = "a"
                          /\ Begins("get") => w[1] = "g"
                          /\ Begins("prompt") => w[1] = "p"
         /\ Len(w) < 3 => (Begins("generate") <=> Begins("get"))
         /\ Len(w) >= 3 => /\ Begins("generate") => w[3] = "n"
                           /\ Begins("get") => w[3] = "t"
<1> DEFINE Begins(c) == IsPrefix(w, CommandNames[c])
           Agree(t) == Len(w) <= Len(t) /\ \A k \in 1..Len(w) : w[k] = t[k]
           edit == <<"e", "d", "i", "t">>
           generate == <<"g", "e", "n", "e", "r", "a", "t", "e">>
           add == <<"a", "d", "d">>
           get == <<"g", "e", "t">>
           prompt == <<"p", "r", "o", "m", "p", "t">>
           L == {"a", "d", "e", "g", "i", "m", "n", "o", "p", "r", "t"}
           S == STRING \cup L
<1>1. /\ CommandNames["edit"] = edit /\ CommandNames["generate"] = generate
      /\ CommandNames["add"] = add /\ CommandNames["get"] = get
      /\ CommandNames["prompt"] = prompt
  BY DEF CommandNames
<1>2. /\ edit \in Seq(S) /\ generate \in Seq(S) /\ add \in Seq(S)
      /\ get \in Seq(S) /\ prompt \in Seq(S) /\ w \in Seq(S)
  <2>1. \A x \in L : x \in S
    OBVIOUS
  <2>2. w \in Seq(S)
    <3> HIDE DEF L
    <3> QED BY WiderSeq
  <2> HIDE DEF S
  <2> QED BY <2>1, <2>2
<1>3. /\ Begins("edit") <=> Agree(edit)
      /\ Begins("generate") <=> Agree(generate)
      /\ Begins("add") <=> Agree(add)
      /\ Begins("get") <=> Agree(get)
      /\ Begins("prompt") <=> Agree(prompt)
  <2> HIDE DEF edit, generate, add, get, prompt, S
  <2> QED BY <1>1, <1>2, PrefixLetters
<1>4. Commands = {"edit", "generate", "add", "get", "prompt"}
  BY DEF Commands, CommandNames
<1>5. /\ Len(edit) = 4 /\ Len(generate) = 8 /\ Len(add) = 3 /\ Len(get) = 3
      /\ Len(prompt) = 6 /\ Len(w) \in Nat
      /\ edit[1] = "e" /\ add[1] = "a" /\ prompt[1] = "p"
      /\ generate[1] = "g" /\ generate[2] = "e" /\ generate[3] = "n"
      /\ get[1] = "g" /\ get[2] = "e" /\ get[3] = "t"
  OBVIOUS
<1> HIDE DEF Begins, edit, generate, add, get, prompt
<1>6. Len(w) = 0 => \A c \in Commands : Begins(c)
  BY <1>3, <1>4, <1>5
<1>7. Len(w) > 0 => /\ Begins("edit") => w[1] = "e"
                    /\ Begins("generate") => w[1] = "g"
                    /\ Begins("add") => w[1] = "a"
                    /\ Begins("get") => w[1] = "g"
                    /\ Begins("prompt") => w[1] = "p"
  BY <1>3, <1>5
<1>8. Len(w) < 3 => (Begins("generate") <=> Begins("get"))
  <2>1. Len(w) < 3 => \A k \in 1..Len(w) : k = 1 \/ k = 2
    BY <1>5
  <2> QED BY <2>1, <1>3, <1>5
<1>9. Len(w) >= 3 => /\ Begins("generate") => w[3] = "n"
                     /\ Begins("get") => w[3] = "t"
  BY <1>3, <1>5
<1> QED
  BY <1>6, <1>7, <1>8, <1>9 DEF Begins

\* The attempts of main, by the index of the command they are for.
LEMMA DispatchWord ==
  ASSUME NEW w \in Seq(STRING), NEW c \in Commands
  PROVE  (Dispatch(w) = c) <=>
           ({d \in Commands : IsPrefix(w, CommandNames[d])} = {c})
<1> DEFINE Begins(d) == IsPrefix(w, CommandNames[d])
           begun == {d \in Commands : Begins(d)}
           hits == {k \in DOMAIN Attempts : Begins(Attempts[k][1])}
<1> SUFFICES (Dispatch(w) = c) <=> (begun = {c})
  OBVIOUS
<1>1. Commands = {"edit", "generate", "add", "get", "prompt"}
  BY DEF Commands, CommandNames
<1>2. /\ DOMAIN Attempts = 1..5
      /\ Attempts[1] = <<"edit", 1>> /\ Attempts[2] = <<"generate", 3>>
      /\ Attempts[3] = <<"add", 1>> /\ Attempts[4] = <<"get", 3>>
      /\ Attempts[5] = <<"prompt", 1>>
  BY DEF Attempts
<1>3. Dispatch(w) = IF hits = {} THEN "unknown"
                    ELSE IF Len(w) < Attempts[First(hits)][2] THEN "ambiguous"
                         ELSE Attempts[First(hits)][1]
  BY DEF Dispatch
<1>4. /\ Len(w) \in Nat
      /\ Len(w) = 0 => \A d \in Commands : Begins(d)
      /\ Len(w) > 0 => /\ Begins("edit") => w[1] = "e"
                       /\ Begins("generate") => w[1] = "g"
                       /\ Begins("add") => w[1] = "a"
                       /\ Begins("get") => w[1] = "g"
                       /\ Begins("prompt") => w[1] = "p"
      /\ Len(w) < 3 => (Begins("generate") <=> Begins("get"))
      /\ Len(w) >= 3 => /\ Begins("generate") => w[3] = "n"
                        /\ Begins("get") => w[3] = "t"
  BY NamesDiffer
<1> HIDE DEF Begins
<1>5. /\ 1 \in hits <=> Begins("edit")
      /\ 2 \in hits <=> Begins("generate")
      /\ 3 \in hits <=> Begins("add")
      /\ 4 \in hits <=> Begins("get")
      /\ 5 \in hits <=> Begins("prompt")
      /\ \A k \in hits : k \in {1, 2, 3, 4, 5}
  BY <1>2
<1>6. hits \in SUBSET Nat
  BY <1>2
<1> HIDE DEF hits
<1>7. ASSUME NEW k \in hits, \A m \in hits : k <= m
      PROVE  First(hits) = k
  BY <1>6, <1>7, FirstIsLeast
<1>8. /\ "edit" \in begun <=> Begins("edit")
      /\ "generate" \in begun <=> Begins("generate")
      /\ "add" \in begun <=> Begins("add")
      /\ "get" \in begun <=> Begins("get")
      /\ "prompt" \in begun <=> Begins("prompt")
      /\ \A d \in begun : d \in Commands
  BY <1>1
<1> HIDE DEF begun
<1>9. begun = {c} <=> c \in begun /\ \A d \in Commands : d \in begun => d = c
  BY <1>8
<1>10. CASE Len(w) = 0
  <2>1. First(hits) = 1
    BY <1>1, <1>4, <1>5, <1>7, <1>10
  <2>2. Dispatch(w) = "ambiguous"
    BY <1>1, <1>2, <1>3, <1>4, <1>5, <1>10, <2>1
  <2>3. "edit" \in begun /\ "add" \in begun
    BY <1>1, <1>4, <1>8, <1>10
  <2> QED BY <1>1, <2>2, <2>3
<1>11. CASE Len(w) > 0 /\ Begins("edit")
  <2>1. First(hits) = 1
    BY <1>5, <1>7, <1>11
  <2>2. Dispatch(w) = "edit"
    BY <1>2, <1>3, <1>4, <1>5, <1>11, <2>1
  <2> QED BY <1>1, <1>4, <1>8, <1>9, <1>11, <2>2
<1>12. CASE Len(w) > 0 /\ Begins("add")
  <2>1. First(hits) = 3
    BY <1>4, <1>5, <1>7, <1>12
  <2>2. Dispatch(w) = "add"
    BY <1>2, <1>3, <1>4, <1>5, <1>12, <2>1
  <2> QED BY <1>1, <1>4, <1>8, <1>9, <1>12, <2>2
<1>13. CASE Len(w) > 0 /\ Begins("prompt")
  <2>1. First(hits) = 5
    BY <1>4, <1>5, <1>7, <1>13
  <2>2. Dispatch(w) = "prompt"
    BY <1>2, <1>3, <1>4, <1>5, <1>13, <2>1
  <2> QED BY <1>1, <1>4, <1>8, <1>9, <1>13, <2>2
<1>14. CASE Len(w) \in 1..2 /\ Begins("generate")
  <2>1. First(hits) = 2
    BY <1>4, <1>5, <1>7, <1>14
  <2>2. Dispatch(w) = "ambiguous"
    BY <1>2, <1>3, <1>4, <1>5, <1>14, <2>1
  <2>3. "generate" \in begun /\ "get" \in begun
    BY <1>4, <1>8, <1>14
  <2> QED BY <1>1, <2>2, <2>3
<1>15. CASE Len(w) >= 3 /\ Begins("generate")
  <2>1. First(hits) = 2
    BY <1>4, <1>5, <1>7, <1>15
  <2>2. Dispatch(w) = "generate"
    BY <1>2, <1>3, <1>4, <1>5, <1>15, <2>1
  <2> QED BY <1>1, <1>4, <1>8, <1>9, <1>15, <2>2
<1>16. CASE Len(w) >= 3 /\ Begins("get")
  <2>1. First(hits) = 4
    BY <1>4, <1>5, <1>7, <1>16
  <2>2. Dispatch(w) = "get"
    BY <1>2, <1>3, <1>4, <1>5, <1>16, <2>1
  <2> QED BY <1>1, <1>4, <1>8, <1>9, <1>16, <2>2
<1>17. CASE \A d \in Commands : ~Begins(d)
  <2>1. hits = {}
    BY <1>1, <1>5, <1>17
  <2>2. Dispatch(w) = "unknown"
    BY <1>3, <2>1
  <2>3. c \notin begun
    BY <1>1, <1>8, <1>17
  <2> QED BY <1>1, <2>2, <2>3
<1>18. \/ \A d \in Commands : ~Begins(d)
       \/ Len(w) = 0
       \/ Len(w) > 0 /\ (Begins("edit") \/ Begins("add") \/ Begins("prompt"))
       \/ Len(w) \in 1..2 /\ Begins("generate")
       \/ Len(w) >= 3 /\ (Begins("generate") \/ Begins("get"))
  <2>1. \A n \in Nat : \/ n = 0
                       \/ n \in 1..2 /\ n > 0 /\ n < 3
                       \/ n >= 3 /\ n > 0
    OBVIOUS
  <2>2. \/ Len(w) = 0
        \/ Len(w) \in 1..2 /\ Len(w) > 0 /\ Len(w) < 3
        \/ Len(w) >= 3 /\ Len(w) > 0
    BY <1>4, <2>1, Zenon
  <2> QED BY <1>1, <1>4, <2>2, Zenon
<1> QED
  BY <1>10, <1>11, <1>12, <1>13, <1>14, <1>15, <1>16, <1>17, <1>18

\* Any word that a user may type picks a command exactly when it begins the
\* name of that one alone: the order and the minimal lengths of main's calls
\* of command_match against the names.
THEOREM DispatchesUnique == Spec => []DispatchUnique
<1>1. TypeOK /\ OrderInv /\ [Next]_vars => (TypeOK /\ OrderInv)'
  BY TypeStep
<1>2. TypeOK => DispatchUnique
  BY DispatchWord DEF TypeOK, DispatchUnique
<1> QED
  BY <1>1, <1>2, InitType, PTL DEF Spec
-----------------------------------------------------------------------------
(* The number of passwords.                                                *)

\* Lines are a sequence, and the profiles another.
LEMMA LinesType ==
  ASSUME NEW ls \in Seq(ConfigLines)
  PROVE  /\ Len(ls) \in Nat /\ DOMAIN ls = 1..Len(ls)
         /\ \A j \in 1..Len(ls) : ls[j] \in ConfigLines
  OBVIOUS

\* A line at the end.
LEMMA AppendLine ==
  ASSUME NEW ls \in Seq(ConfigLines), NEW l \in ConfigLines
  PROVE  /\ Append(ls, l) \in Seq(ConfigLines)
         /\ Len(Append(ls, l)) = Len(ls) + 1
         /\ Append(ls, l)[Len(ls) + 1] = l
         /\ \A j \in 1..Len(ls) : Append(ls, l)[j] = ls[j]
  OBVIOUS

\* A section is a bounded set of numbers, and its last line is one of it.
LEMMA LastOfSection ==
  ASSUME NEW ls \in Seq(ConfigLines), NEW i \in Nat \ {0},
         Section(ls, i) # {}
  PROVE  /\ Section(ls, i) \in SUBSET (1..Len(ls))
         /\ \E m \in Section(ls, i) : \A k \in Section(ls, i) : k <= m
<1>1. Len(ls) \in Nat
  BY LinesType
<1>2. \A j \in Section(ls, i) : j \in i..Len(ls)
  BY DEF Section
<1>3. \A j \in Section(ls, i) : j \in Nat /\ j \in 1..Len(ls) /\ j <= Len(ls)
  BY <1>1, <1>2
<1>4. Section(ls, i) \in SUBSET Nat
  BY <1>3
<1> QED
  BY <1>1, <1>3, <1>4, GreatestNat

\* A line that sets no count, or that comes after another header, leaves what
\* a section declares as it was.
LEMMA SectionKept ==
  ASSUME NEW ls \in Seq(ConfigLines), NEW l \in ConfigLines,
         NEW i \in 1..Len(ls) + 1, NEW default,
         ~SetsCount(l) \/ \E k \in i..Len(ls) : ls[k].op = "profile"
  PROVE  LastIn(Append(ls, l), Section(Append(ls, l), i), default)
           = LastIn(ls, Section(ls, i), default)
<1> DEFINE ms == Append(ls, l)
           n == Len(ls)
<1>1. /\ n \in Nat /\ ms \in Seq(ConfigLines) /\ Len(ms) = n + 1
      /\ ms[n + 1] = l /\ \A j \in 1..n : ms[j] = ls[j]
  BY LinesType, AppendLine
<1> HIDE DEF ms
<1>2. i \in Nat \ {0} /\ i \in 1..(n + 1)
  BY <1>1
<1>3. \A j \in i..n : j \in 1..n /\ ms[j] = ls[j]
  BY <1>1, <1>2
<1>4. \A j \in i..n : j \in Section(ms, i) <=> j \in Section(ls, i)
  <2>1. SUFFICES ASSUME NEW j \in i..n
                 PROVE  j \in Section(ms, i) <=> j \in Section(ls, i)
    OBVIOUS
  <2>2. j \in i..(n + 1) /\ \A k \in i..j : k \in i..n
    BY <1>1, <1>2
  <2> QED
    BY <1>1, <1>3, <2>2 DEF Section
<1>5. n + 1 \notin Section(ms, i)
  <2>1. CASE ~SetsCount(l)
    BY <1>1, <2>1 DEF Section
  <2>2. CASE \E k \in i..n : ls[k].op = "profile"
    <3>1. PICK k \in i..n : ls[k].op = "profile"
      BY <2>2
    <3>2. k \in i..(n + 1) /\ ms[k].op = "profile"
      BY <1>1, <1>2, <1>3, <3>1
    <3> QED
      BY <3>2 DEF Section
  <2> QED BY <2>1, <2>2
<1>6. Section(ms, i) = Section(ls, i)
  <2>1. \A j \in Section(ms, i) : j \in i..(n + 1)
    BY <1>1 DEF Section
  <2>2. \A j \in Section(ls, i) : j \in i..n
    BY DEF Section
  <2>3. \A j \in i..(n + 1) : j \in i..n \/ j = n + 1
    BY <1>1, <1>2
  <2> QED
    BY <1>4, <1>5, <2>1, <2>2, <2>3
<1>7. CASE Section(ls, i) = {}
  BY <1>6, <1>7 DEF LastIn, LastSet, ms
<1>8. CASE Section(ls, i) # {}
  <2> DEFINE S == Section(ls, i)
             m == CHOOSE j \in S : \A k \in S : k <= j
  <2>1. S \in SUBSET (1..n) /\ \E j \in S : \A k \in S : k <= j
    BY <1>2, <1>8, LastOfSection
  <2> HIDE DEF S
  <2>2. m \in S
    BY <2>1
  <2>3. ms[m] = ls[m]
    BY <1>1, <2>1, <2>2
  <2> QED
    BY <1>6, <1>8, <2>3 DEF LastIn, LastSet, S, ms
<1> QED
  BY <1>7, <1>8

\* A line that sets the count, in the section that is open, is its last.
LEMMA SectionSet ==
  ASSUME NEW ls \in Seq(ConfigLines), NEW l \in ConfigLines,
         NEW i \in 1..Len(ls) + 1, NEW default,
         SetsCount(l), \A k \in i..Len(ls) : ls[k].op # "profile"
  PROVE  LastIn(Append(ls, l), Section(Append(ls, l), i), default)
           = l.value % Word
<1> DEFINE ms == Append(ls, l)
           n == Len(ls)
           S == Section(ms, i)
<1>1. /\ n \in Nat /\ ms \in Seq(ConfigLines) /\ Len(ms) = n + 1
      /\ ms[n + 1] = l /\ \A j \in 1..n : ms[j] = ls[j]
  BY LinesType, AppendLine
<1> HIDE DEF ms
<1>2. i \in Nat \ {0} /\ i \in 1..(n + 1)
  BY <1>1
<1>3. \A k \in i..(n + 1) : ms[k].op # "profile"
  <2>1. \A k \in i..(n + 1) : k = n + 1 \/ (k \in i..n /\ k \in 1..n)
    BY <1>1, <1>2
  <2> QED
    BY <1>1, <2>1 DEF SetsCount
<1>4. n + 1 \in S
  BY <1>1, <1>2, <1>3 DEF Section
<1>5. \A k \in S : k \in Int /\ k <= n + 1
  BY <1>1, <1>2 DEF Section
<1> HIDE DEF S
<1>6. (CHOOSE j \in S : \A k \in S : k <= j) = n + 1
  <2>1. \E j \in S : \A k \in S : k <= j
    BY <1>4, <1>5
  <2> DEFINE m == CHOOSE j \in S : \A k \in S : k <= j
  <2>2. m \in S /\ \A k \in S : k <= m
    BY <2>1
  <2> HIDE DEF m
  <2>3. m = n + 1
    BY <1>1, <1>4, <1>5, <2>2
  <2> QED
    BY <2>3 DEF m
<1> QED
  BY <1>1, <1>4, <1>6 DEF LastIn, LastSet, S, ms

\* A section that begins after the last line declares nothing.
LEMMA SectionEmpty ==
  ASSUME NEW ls \in Seq(ConfigLines), NEW default
  PROVE  LastIn(ls, Section(ls, Len(ls) + 1), default) = default
<1>1. \A j \in (Len(ls) + 1)..Len(ls) : FALSE
  BY LinesType
<1>2. Section(ls, Len(ls) + 1) = {}
  BY <1>1 DEF Section
<1> QED
  BY <1>2 DEF LastIn, LastSet

\* A section all of whose counts are below Word declares what is kept.
LEMMA SectionFits ==
  ASSUME NEW ls \in Seq(ConfigLines), NEW i \in Nat \ {0}, NEW default,
         \A j \in 1..Len(ls) : SetsCount(ls[j]) => ls[j].value < Word
  PROVE  LastIn(ls, Section(ls, i), default)
           = LastSet(ls, Section(ls, i), default)
<1> DEFINE S == Section(ls, i)
           m == CHOOSE j \in S : \A k \in S : k <= j
<1>1. CASE S = {}
  BY <1>1 DEF LastIn, LastSet
<1>2. CASE S # {}
  <2>1. S \in SUBSET (1..Len(ls)) /\ \E j \in S : \A k \in S : k <= j
    BY <1>2, LastOfSection
  <2>2. \A j \in S : SetsCount(ls[j])
    BY DEF Section
  <2> HIDE DEF S
  <2>3. m \in S
    BY <2>1
  <2>4. m \in 1..Len(ls) /\ SetsCount(ls[m])
    BY <2>1, <2>2, <2>3
  <2>5. ls[m].value \in Nat /\ ls[m].value < Word
    BY <2>4, LinesType, LineType DEF SetsCount
  <2>6. ls[m].value % Word = ls[m].value
    BY <2>5, WordAssumption
  <2> QED
    BY <1>2, <2>6 DEF LastIn, LastSet, S
<1> QED
  BY <1>1, <1>2

\* The headers, with one more line.
LEMMA HeadersAppend ==
  ASSUME NEW ls \in Seq(ConfigLines), NEW l \in ConfigLines
  PROVE  Headers(Append(ls, l)) =
           Headers(ls) \cup (IF l.op = "profile" THEN {Len(ls) + 1} ELSE {})
<1> DEFINE ms == Append(ls, l)
           n == Len(ls)
<1>1. /\ n \in Nat /\ Len(ms) = n + 1
      /\ ms[n + 1] = l /\ \A j \in 1..n : ms[j] = ls[j]
  BY LinesType, AppendLine
<1> HIDE DEF ms, n
<1>2. \A j : j \in 1..(n + 1) <=> j \in 1..n \/ j = n + 1
  BY <1>1
<1>3. Headers(ms) = {j \in 1..(n + 1) : ms[j].op = "profile"}
  BY <1>1 DEF Headers
<1>4. Headers(ls) = {j \in 1..n : ls[j].op = "profile"}
  BY DEF Headers, n
<1>5. Headers(ms) = Headers(ls) \cup (IF l.op = "profile" THEN {n + 1} ELSE {})
  BY <1>1, <1>2, <1>3, <1>4
<1> QED
  BY <1>5 DEF ms, n

\* Steps that leave the lines and the counts alone.
LEMMA RegistryStable ==
  ASSUME RegistryInv, phase # "exit" \/ phase' = "exit",
         UNCHANGED <<lines, profiles>>,
         cfg'.password_count = cfg.password_count
  PROVE  RegistryInv'
  BY DEF RegistryInv, Registered, HeadersOf

\* A blank line.
LEMMA BlankLine ==
  ASSUME TypeOK, NEW l \in ConfigLines,
         NEW h \in [DOMAIN profiles -> 1..Len(lines)],
         Registered(h), l.op \notin {"profile", "set"},
         lines' = Append(lines, l), UNCHANGED <<cfg, profiles>>
  PROVE  Registered(h)'
<1>1. lines \in Seq(ConfigLines) /\ Len(lines) \in Nat
  BY DEF TypeOK
<1>2. Headers(lines') = Headers(lines)
  BY <1>1, HeadersAppend
<1>3. ~SetsCount(l)
  BY DEF SetsCount
<1>4. SUFFICES ASSUME NEW k \in DOMAIN profiles
               PROVE  /\ lines'[h[k]] = lines[h[k]]
                      /\ LastIn(lines', Section(lines', h[k] + 1),
                                cfg.password_count)
                          = LastIn(lines, Section(lines, h[k] + 1),
                                   cfg.password_count)
  BY <1>2 DEF Registered, HeadersOf
<1>5. h[k] \in 1..Len(lines) /\ h[k] + 1 \in 1..Len(lines) + 1
  BY <1>1
<1> QED
  BY <1>1, <1>3, <1>5, SectionKept, AppendLine

\* A profile line: its header comes after the others.
LEMMA ProfileLine ==
  ASSUME TypeOK, NEW l \in ConfigLines,
         NEW h \in [DOMAIN profiles -> 1..Len(lines)],
         Registered(h), l.op = "profile", lines' = Append(lines, l),
         profiles' = Append(profiles, ProfileNew(l.name)), UNCHANGED cfg
  PROVE  \E g \in [DOMAIN profiles' -> 1..Len(lines')] : Registered(g)'
<1> DEFINE n == Len(lines)
           m == Len(profiles)
<1>1. /\ lines \in Seq(ConfigLines) /\ n \in Nat /\ m \in Nat
      /\ DOMAIN profiles = 1..m
  BY DEF TypeOK
<1>2. /\ Len(lines') = n + 1 /\ lines'[n + 1] = l
      /\ \A j \in 1..n : lines'[j] = lines[j]
      /\ lines' \in Seq(ConfigLines)
  BY <1>1, AppendLine
<1>3. Headers(lines') = Headers(lines) \cup {n + 1}
  BY <1>1, HeadersAppend
<1>4. /\ DOMAIN profiles' = 1..(m + 1) /\ profiles'[m + 1] = ProfileNew(l.name)
      /\ \A k \in 1..m : profiles'[k] = profiles[k]
  BY DEF TypeOK
<1> HIDE DEF n, m
<1>5. \A k \in 1..(m + 1) : k = m + 1 \/ (k \in 1..m /\ k # m + 1)
  BY <1>1
<1>h. \A k \in 1..m : h[k] \in 1..n /\ h[k] \in Headers(lines)
  BY <1>1 DEF Registered, HeadersOf, n
<1>g. PICK g \in [1..(m + 1) -> 1..(n + 1)] :
        \A k \in 1..(m + 1) : g[k] = IF k = m + 1 THEN n + 1 ELSE h[k]
  <2> DEFINE f == [k \in 1..(m + 1) |-> IF k = m + 1 THEN n + 1 ELSE h[k]]
  <2>1. \A k \in 1..(m + 1) :
          (IF k = m + 1 THEN n + 1 ELSE h[k]) \in 1..(n + 1)
    BY <1>1, <1>5, <1>h
  <2>2. f \in [1..(m + 1) -> 1..(n + 1)]
    BY <2>1
  <2> QED BY <2>2
<1>6. /\ \A k \in 1..m : /\ k \in 1..(m + 1) /\ g[k] = h[k]
                         /\ h[k] \in 1..n /\ h[k] \in Headers(lines)
      /\ g[m + 1] = n + 1
  BY <1>1, <1>h, <1>g
<1>7. g \in [1..(m + 1) -> Headers(lines')]
  <2>1. \A k \in 1..(m + 1) : g[k] \in Headers(lines')
    BY <1>3, <1>5, <1>6
  <2> QED BY <1>g, <2>1
<1>8. ASSUME NEW k \in 1..(m + 1), NEW k2 \in 1..(m + 1), k < k2
      PROVE  g[k] < g[k2]
  <2>1. k \in 1..m
    BY <1>1, <1>8
  <2>2. CASE k2 \in 1..m
    BY <1>1, <1>6, <1>8, <2>1, <2>2 DEF Registered, HeadersOf
  <2>3. CASE k2 = m + 1
    BY <1>1, <1>6, <2>1, <2>3
  <2> QED BY <1>5, <2>2, <2>3
<1>9. ASSUME NEW j \in Headers(lines')
      PROVE  \E k \in 1..(m + 1) : g[k] = j
  <2>1. CASE j = n + 1
    BY <1>1, <1>6, <2>1
  <2>2. CASE j \in Headers(lines)
    <3>1. PICK k \in 1..m : h[k] = j
      BY <1>1, <2>2 DEF Registered, HeadersOf
    <3> QED BY <1>6, <3>1
  <2> QED BY <1>3, <2>1, <2>2
<1>10. HeadersOf(g)'
  BY <1>4, <1>7, <1>8, <1>9 DEF HeadersOf
<1>11. ASSUME NEW k \in 1..(m + 1)
       PROVE  /\ profiles'[k].name = lines'[g[k]].name
              /\ profiles'[k].password_count =
                   LastIn(lines', Section(lines', g[k] + 1), cfg.password_count)
  <2>1. CASE k = m + 1
    <3>1. g[k] + 1 = Len(lines') + 1
      BY <1>2, <1>6, <2>1
    <3>2. LastIn(lines', Section(lines', g[k] + 1), cfg.password_count)
            = cfg.password_count
      BY <1>2, <3>1, SectionEmpty
    <3>3. /\ profiles'[k].name = l.name
          /\ profiles'[k].password_count = cfg.password_count
      BY <1>4, <2>1 DEF ProfileNew
    <3> QED BY <1>2, <1>6, <2>1, <3>2, <3>3
  <2>2. CASE k \in 1..m
    <3>1. h[k] \in 1..n /\ h[k] + 1 \in 1..Len(lines) + 1
      BY <1>1, <1>6, <2>2 DEF n
    <3>2. ~SetsCount(l)
      BY DEF SetsCount
    <3>3. LastIn(lines', Section(lines', h[k] + 1), cfg.password_count)
            = LastIn(lines, Section(lines, h[k] + 1), cfg.password_count)
      BY <1>1, <3>1, <3>2, SectionKept
    <3>4. /\ profiles'[k] = profiles[k] /\ g[k] = h[k]
          /\ lines'[h[k]] = lines[h[k]]
      BY <1>2, <1>4, <1>6, <2>2, <3>1
    <3> QED
      BY <1>1, <2>2, <3>3, <3>4 DEF Registered
  <2> QED BY <1>5, <2>1, <2>2
<1>12. Registered(g)'
  BY <1>4, <1>10, <1>11 DEF Registered
<1> QED
  BY <1>2, <1>4, <1>g, <1>12

\* A setting under a profile: it is the last profile's.
LEMMA ProfileSetting ==
  ASSUME TypeOK, NEW l \in ConfigLines,
         NEW h \in [DOMAIN profiles -> 1..Len(lines)],
         Registered(h), l.op = "set", profiles # <<>>, SetProfileVariableOK(l),
         lines' = Append(lines, l), profiles' = SetProfileVariable(l),
         UNCHANGED cfg
  PROVE  /\ Registered(h)' /\ DOMAIN profiles' = DOMAIN profiles
         /\ LastIn(lines', Section(lines', 1), 4)
              = LastIn(lines, Section(lines, 1), 4)
<1> DEFINE n == Len(lines)
           m == Len(profiles)
<1>1. /\ lines \in Seq(ConfigLines) /\ n \in Nat
      /\ m \in Nat \ {0} /\ DOMAIN profiles = 1..m
  BY DEF TypeOK
<1>2. /\ Len(lines') = n + 1 /\ \A j \in 1..n : lines'[j] = lines[j]
  BY <1>1, AppendLine
<1>3. Headers(lines') = Headers(lines) /\ SetsCount(l)
  BY <1>1, HeadersAppend DEF SetProfileVariableOK, SetsCount
<1>4. /\ DOMAIN profiles' = 1..m
      /\ \A k \in 1..m : profiles'[k].name = profiles[k].name
      /\ \A k \in 1..m : k # m => profiles'[k] = profiles[k]
      /\ profiles'[m].password_count = l.value % Word
  <2>1. profiles' = [profiles EXCEPT ![m].password_count = l.value % Word]
    BY DEF SetProfileVariable
  <2>2. \A k \in 1..m : profiles[k] \in Profile
    BY DEF TypeOK
  <2> QED BY <1>1, <2>1, <2>2 DEF Profile
<1>5. /\ \A k \in 1..m : h[k] \in 1..n /\ h[k] \in Headers(lines)
      /\ \A k, k2 \in 1..m : k < k2 => h[k] < h[k2]
      /\ \A j \in Headers(lines) : \E k \in 1..m : h[k] = j
  BY <1>1 DEF Registered, HeadersOf
<1> HIDE DEF n, m
<1>6. HeadersOf(h)'
  BY <1>1, <1>3, <1>4 DEF Registered, HeadersOf
<1>7. ASSUME NEW k \in 1..m
      PROVE  /\ profiles'[k].name = lines'[h[k]].name
             /\ profiles'[k].password_count =
                  LastIn(lines', Section(lines', h[k] + 1), cfg.password_count)
  <2>1. profiles'[k].name = lines'[h[k]].name
    BY <1>1, <1>2, <1>4, <1>5 DEF Registered
  <2>2. h[k] + 1 \in 1..Len(lines) + 1
    BY <1>1, <1>5 DEF n
  <2>3. CASE k = m
    <3>1. \A j \in h[k] + 1..Len(lines) : lines[j].op # "profile"
      <4>1. SUFFICES ASSUME NEW j \in h[k] + 1..Len(lines),
                            lines[j].op = "profile"
                     PROVE  FALSE
        OBVIOUS
      <4>2. j \in 1..n /\ h[k] < j
        BY <1>1, <1>5 DEF n
      <4>3. j \in Headers(lines)
        BY <4>1, <4>2 DEF Headers, n
      <4>4. PICK k2 \in 1..m : h[k2] = j
        BY <1>5, <4>3
      <4>5. k2 = m \/ k2 < m
        BY <1>1
      <4>6. h[k2] = h[m] \/ h[k2] < h[m]
        BY <1>1, <1>5, <4>5
      <4> QED BY <1>1, <1>5, <2>3, <4>2, <4>4, <4>6
    <3>2. LastIn(lines', Section(lines', h[k] + 1), cfg.password_count)
            = l.value % Word
      BY <1>1, <1>3, <2>2, <3>1, SectionSet
    <3> QED BY <1>4, <2>1, <2>3, <3>2
  <2>4. CASE k # m
    <3>1. k + 1 \in 1..m /\ k < k + 1
      BY <1>1, <2>4
    <3>2. h[k + 1] \in h[k] + 1..Len(lines) /\ lines[h[k + 1]].op = "profile"
      BY <1>1, <1>5, <3>1 DEF n, Headers
    <3>3. LastIn(lines', Section(lines', h[k] + 1), cfg.password_count)
            = LastIn(lines, Section(lines, h[k] + 1), cfg.password_count)
      BY <1>1, <2>2, <3>2, SectionKept
    <3>4. profiles'[k] = profiles[k]
      BY <1>4, <2>4
    <3> QED BY <1>1, <2>1, <3>3, <3>4 DEF Registered
  <2> QED BY <2>3, <2>4
<1>8. LastIn(lines', Section(lines', 1), 4)
        = LastIn(lines, Section(lines, 1), 4)
  <2>1. 1 \in 1..m /\ h[1] \in 1..n /\ h[1] \in Headers(lines)
    BY <1>1, <1>5
  <2>2. h[1] \in 1..Len(lines) /\ lines[h[1]].op = "profile"
    BY <2>1 DEF Headers, n
  <2>3. 1 \in 1..Len(lines) + 1
    BY <1>1 DEF n
  <2> QED BY <1>1, <2>2, <2>3, SectionKept
<1> QED
  BY <1>1, <1>4, <1>6, <1>7, <1>8 DEF Registered

\* A setting before the first profile: it is a global one.
LEMMA GlobalSetting ==
  ASSUME TypeOK, NEW l \in ConfigLines,
         NEW h \in [DOMAIN profiles -> 1..Len(lines)],
         Registered(h), l.op = "set", profiles = <<>>,
         cfg.password_count = LastIn(lines, Section(lines, 1), 4),
         lines' = Append(lines, l), cfg' = SetVariable(l), UNCHANGED profiles
  PROVE  /\ h \in [DOMAIN profiles' -> 1..Len(lines')] /\ Registered(h)'
         /\ cfg'.password_count = LastIn(lines', Section(lines', 1), 4)
<1>1. /\ lines \in Seq(ConfigLines) /\ Len(lines) \in Nat
      /\ DOMAIN profiles = {} /\ 1 \in 1..Len(lines) + 1
  BY DEF TypeOK
<1>2. Headers(lines) = {}
  BY <1>1 DEF Registered, HeadersOf
<1>3. Headers(lines') = {}
  BY <1>1, <1>2, HeadersAppend
<1>4. cfg'.password_count = IF l.name = "password_count" THEN l.value % Word
                            ELSE cfg.password_count
  BY DEF SetVariable, TypeOK
<1>5. CASE l.name = "password_count"
  <2>1. \A k \in 1..Len(lines) : lines[k].op # "profile"
    BY <1>2 DEF Headers
  <2>2. LastIn(lines', Section(lines', 1), 4) = l.value % Word
    BY <1>1, <1>5, <2>1, SectionSet DEF SetsCount
  <2> QED
    BY <1>1, <1>3, <1>4, <1>5, <2>2 DEF Registered, HeadersOf
<1>6. CASE l.name # "password_count"
  <2>1. LastIn(lines', Section(lines', 1), 4)
          = LastIn(lines, Section(lines, 1), 4)
    BY <1>1, <1>6, SectionKept DEF SetsCount
  <2> QED
    BY <1>1, <1>3, <1>4, <1>6, <2>1 DEF Registered, HeadersOf
<1> QED
  BY <1>5, <1>6

\* Whatever the next line is, the settings follow the file.
LEMMA RegistryStep == TypeOK /\ RegistryInv /\ [Next]_vars => RegistryInv'
<1> SUFFICES ASSUME TypeOK, RegistryInv, [Next]_vars
             PROVE  RegistryInv'
  OBVIOUS
<1>1. CASE UNCHANGED vars
  BY <1>1, RegistryStable DEF vars, RegistryInv, Registered, HeadersOf
<1>2. CASE ParseCore
  BY <1>2, RegistryStable DEF ParseCore
<1>3. CASE EnsureConfigDir
  BY <1>3, RegistryStable DEF EnsureConfigDir, EnsureDirectory
<1>4. CASE CheckConfigFile
  BY <1>4, RegistryStable DEF CheckConfigFile
<1>5. CASE ReadLine
  <2>1. phase = "reading" /\ phase' \in {"reading", "exit"}
    BY <1>5 DEF ReadLine, Exit
  <2>2. CASE phase' = "exit"
    BY <2>2 DEF RegistryInv
  <2>3. CASE phase' # "exit"
    <3>1. PICK h \in [DOMAIN profiles -> 1..Len(lines)] : Registered(h)
      BY <2>1 DEF RegistryInv
    <3>2. cfg.password_count = LastIn(lines, Section(lines, 1), 4)
      BY <2>1 DEF RegistryInv
    <3>3. PICK l \in ConfigLines :
            /\ lines' = Append(lines, l)
            /\ \/ l.op = "blank" /\ UNCHANGED <<cfg, profiles>>
               \/ /\ l.op = "profile"
                  /\ profiles' = Append(profiles, ProfileNew(l.name))
                  /\ UNCHANGED cfg
               \/ /\ l.op = "set" /\ profiles = <<>> /\ cfg' = SetVariable(l)
                  /\ UNCHANGED profiles
               \/ /\ l.op = "set" /\ profiles # <<>> /\ SetProfileVariableOK(l)
                  /\ profiles' = SetProfileVariable(l)
                  /\ UNCHANGED cfg
      BY <1>5, <2>3 DEF ReadLine, Exit
    <3>4. /\ lines \in Seq(ConfigLines) /\ Len(lines) \in Nat
          /\ Len(lines') = Len(lines) + 1 /\ 1 \in 1..Len(lines) + 1
      BY <3>3 DEF TypeOK
    <3>5. \A f \in [DOMAIN profiles -> 1..Len(lines)] :
            f \in [DOMAIN profiles -> 1..Len(lines')]
      <4>1. \A j \in 1..Len(lines) : j \in 1..Len(lines')
        BY <3>4
      <4> QED BY <4>1
    <3>6. CASE l.op = "blank" /\ UNCHANGED <<cfg, profiles>>
      <4>1. ~SetsCount(l)
        BY <3>6 DEF SetsCount
      <4>2. LastIn(lines', Section(lines', 1), 4) = cfg.password_count
        BY <3>2, <3>3, <3>4, <4>1, SectionKept
      <4>3. Registered(h)'
        BY <3>1, <3>3, <3>6, BlankLine
      <4>4. h \in [DOMAIN profiles' -> 1..Len(lines')]
        BY <3>5, <3>6
      <4> QED BY <3>6, <4>2, <4>3, <4>4 DEF RegistryInv
    <3>7. CASE /\ l.op = "profile"
               /\ profiles' = Append(profiles, ProfileNew(l.name))
               /\ UNCHANGED cfg
      <4>1. ~SetsCount(l)
        BY <3>7 DEF SetsCount
      <4>2. LastIn(lines', Section(lines', 1), 4) = cfg.password_count
        BY <3>2, <3>3, <3>4, <4>1, SectionKept
      <4>3. \E g \in [DOMAIN profiles' -> 1..Len(lines')] : Registered(g)'
        BY <3>1, <3>3, <3>7, ProfileLine
      <4> QED BY <3>7, <4>2, <4>3 DEF RegistryInv
    <3>8. CASE /\ l.op = "set" /\ profiles = <<>> /\ cfg' = SetVariable(l)
               /\ UNCHANGED profiles
      <4>1. /\ h \in [DOMAIN profiles' -> 1..Len(lines')] /\ Registered(h)'
            /\ cfg'.password_count = LastIn(lines', Section(lines', 1), 4)
        BY <3>1, <3>2, <3>3, <3>8, GlobalSetting
      <4> QED BY <4>1 DEF RegistryInv
    <3>9. CASE /\ l.op = "set" /\ profiles # <<>> /\ SetProfileVariableOK(l)
               /\ profiles' = SetProfileVariable(l)
               /\ UNCHANGED cfg
      <4>1. /\ Registered(h)' /\ DOMAIN profiles' = DOMAIN profiles
            /\ LastIn(lines', Section(lines', 1), 4) = cfg.password_count
        BY <3>1, <3>2, <3>3, <3>9, ProfileSetting
      <4>2. h \in [DOMAIN profiles' -> 1..Len(lines')]
        BY <3>5, <4>1
      <4> QED BY <3>9, <4>1, <4>2 DEF RegistryInv
    <3> QED BY <3>3, <3>6, <3>7, <3>8, <3>9
  <2> QED BY <2>2, <2>3
<1>6. CASE ReadEnd
  BY <1>6, RegistryStable DEF ReadEnd
<1>7. CASE SetDefaults
  <2>1. cfg'.password_count = cfg.password_count
    BY <1>7 DEF SetDefaults, TypeOK
  <2> QED BY <1>7, <2>1, RegistryStable DEF SetDefaults
<1>8. CASE EnsurePasswordDir
  BY <1>8, RegistryStable DEF EnsurePasswordDir, EnsureDirectory
<1>9. CASE CheckPasswordFile
  BY <1>9, RegistryStable DEF CheckPasswordFile
<1>10. CASE ParseCommand
  BY <1>10, RegistryStable DEF ParseCommand
<1>11. CASE ChooseProfile
  BY <1>11, RegistryStable DEF ChooseProfile
<1> QED
  BY <1>1, <1>2, <1>3, <1>4, <1>5, <1>6, <1>7, <1>8, <1>9, <1>10, <1>11
  DEF Next

\* The options and the profile that the command uses are those asked for.
LEMMA ChoiceStep == ChoiceInv /\ [Next]_vars => ChoiceInv'
<1> SUFFICES ASSUME ChoiceInv, [Next]_vars
             PROVE  ChoiceInv'
  OBVIOUS
<1>1. CASE UNCHANGED vars
  BY <1>1 DEF vars, ChoiceInv, ProfileNew, ProfileGetFromName
<1>2. CASE ParseCommand
  <2>1. CASE phase' = "exit"
    BY <2>1 DEF ChoiceInv
  <2>2. CASE phase' # "exit"
    <3>1. PICK w \in CommandWords, options \in Options :
            /\ word' = w /\ typed' = options
            /\ cmd' = CmdVariables(options)
            /\ phase' = IF Dispatch(w) \in {"add", "generate"}
                          THEN "profile" ELSE "running"
      BY <1>2, <2>2 DEF ParseCommand, Exit
    <3> QED BY <3>1 DEF ChoiceInv
  <2> QED BY <2>1, <2>2
<1>3. CASE ChooseProfile
  <2>1. UNCHANGED <<cfg, profiles, word, typed, cmd>> /\ phase = "profile"
    BY <1>3 DEF ChooseProfile
  <2>2. phase' \in {"running", "exit"}
    BY <1>3 DEF ChooseProfile, Exit
  <2>3. phase' = "running" => chosen' # NoProfile
    BY <1>3 DEF ChooseProfile, Exit
  <2>4. chosen' = IF cmd.profile = "none" THEN ProfileNew("default")
                  ELSE ProfileGetFromName(cmd.profile)
    BY <1>3 DEF ChooseProfile
  <2>5. /\ ProfileNew("default")' = ProfileNew("default")
        /\ ProfileGetFromName(cmd.profile)' = ProfileGetFromName(cmd.profile)
    BY <2>1 DEF ProfileNew, ProfileGetFromName
  <2> QED
    BY <2>1, <2>2, <2>3, <2>4, <2>5 DEF ChoiceInv
<1>4. CASE ParseCore \/ ReadEnd \/ SetDefaults
  BY <1>4 DEF ParseCore, ReadEnd, SetDefaults, Exit, ChoiceInv
<1>5. CASE EnsureConfigDir \/ EnsurePasswordDir
  BY <1>5 DEF EnsureConfigDir, EnsurePasswordDir, EnsureDirectory, Exit,
              ChoiceInv
<1>6. CASE CheckConfigFile \/ CheckPasswordFile
  BY <1>6 DEF CheckConfigFile, CheckPasswordFile, Exit, ChoiceInv
<1>7. CASE ReadLine
  BY <1>7 DEF ReadLine, Exit, ChoiceInv
<1> QED
  BY <1>1, <1>2, <1>3, <1>4, <1>5, <1>6, <1>7 DEF Next

\* The first profile of a name is the one of the first header of that name.
LEMMA FirstHeader ==
  ASSUME TypeOK, NEW h \in [DOMAIN profiles -> 1..Len(lines)], Registered(h),
         NEW name, ProfileGetFromName(name) # NoProfile
  PROVE  \E k \in DOMAIN profiles :
           /\ ProfileGetFromName(name) = profiles[k]
           /\ First({i \in Headers(lines) : lines[i].name = name}) = h[k]
<1> DEFINE P == {k \in DOMAIN profiles : profiles[k].name = name}
           H == {i \in Headers(lines) : lines[i].name = name}
           k == First(P)
<1>1. DOMAIN profiles = 1..Len(profiles) /\ Len(profiles) \in Nat
  BY DEF TypeOK
<1>2. P # {} /\ ProfileGetFromName(name) = profiles[k]
  BY DEF ProfileGetFromName
<1>3. P \in SUBSET Nat
  BY <1>1
<1>4. k \in P /\ \A m \in P : k <= m
  <2> HIDE DEF P
  <2> QED BY <1>2, <1>3, FirstIsLeast
<1>5. \A m \in DOMAIN profiles : /\ h[m] \in Headers(lines) /\ h[m] \in Nat
                                 /\ lines[h[m]].name = profiles[m].name
  BY DEF Registered, HeadersOf
<1>6. k \in DOMAIN profiles /\ profiles[k].name = name /\ h[k] \in H
  BY <1>4, <1>5
<1>7. H \in SUBSET Nat
  BY DEF Headers
<1>8. ASSUME NEW i \in H
      PROVE  h[k] <= i
  <2>1. PICK m \in DOMAIN profiles : h[m] = i
    BY DEF Registered, HeadersOf
  <2>2. m \in P
    BY <1>5, <2>1
  <2>3. k \in Nat /\ m \in Nat /\ k <= m
    BY <1>3, <1>4, <2>2
  <2>4. k = m \/ k < m
    BY <2>3
  <2>5. h[k] = h[m] \/ h[k] < h[m]
    BY <1>6, <2>4 DEF Registered, HeadersOf
  <2> QED BY <1>5, <1>6, <2>1, <2>5
<1>9. First(H) = h[k]
  <2> HIDE DEF H, k
  <2> QED BY <1>6, <1>7, <1>8, FirstIsLeast
<1> QED
  BY <1>2, <1>6, <1>9

\* The number of passwords that add and generate make is the one declared, for
\* any file, any profiles and any options, as long as the numbers are ones that
\* the program takes for what they are (config.c, cmd.c and profile.c together).
THEOREM CountsAsDeclared == Spec => []CountAsDeclared
<1> DEFINE I == TypeOK /\ OrderInv /\ RegistryInv /\ ChoiceInv
<1>1. Init => RegistryInv /\ ChoiceInv
  <2> SUFFICES ASSUME Init PROVE RegistryInv /\ ChoiceInv
    OBVIOUS
  <2>1. /\ lines = <<>> /\ profiles = <<>> /\ cfg.password_count = 4
        /\ phase = "core"
    BY DEF Init
  <2>2. /\ Section(lines, 1) = {} /\ Headers(lines) = {}
        /\ DOMAIN profiles = {}
    BY <2>1 DEF Section, Headers
  <2>3. PICK h \in [DOMAIN profiles -> 1..Len(lines)] : TRUE
    <3>1. [k \in DOMAIN profiles |-> 1] \in [DOMAIN profiles -> 1..Len(lines)]
      BY <2>2
    <3> QED BY <3>1
  <2>4. Registered(h)
    BY <2>2 DEF Registered, HeadersOf
  <2> QED
    BY <2>1, <2>2, <2>4 DEF RegistryInv, LastIn, LastSet, ChoiceInv
<1>2. I /\ [Next]_vars => I'
  BY TypeStep, RegistryStep, ChoiceStep
<1>3. I => CountAsDeclared
  <2> SUFFICES ASSUME I, NumbersKept, Uses("add") \/ Uses("generate")
               PROVE  ProfileGetPasswordCount = DeclaredCount
    BY DEF CountAsDeclared
  <2>1. phase = "running" /\ Dispatch(word) \in {"add", "generate"}
    BY DEF Uses
  <2>2. PICK h \in [DOMAIN profiles -> 1..Len(lines)] : Registered(h)
    BY <2>1 DEF RegistryInv
  <2>3. \A i \in Nat \ {0} : \A d :
          LastIn(lines, Section(lines, i), d)
            = LastSet(lines, Section(lines, i), d)
    BY SectionFits DEF TypeOK, NumbersKept
  <2>4. cfg.password_count = LastSet(lines, Section(lines, 1), 4)
    BY <2>1, <2>3 DEF RegistryInv
  <2>5. cmd = CmdVariables(typed) /\ typed \in Options
    BY <2>1 DEF ChoiceInv, TypeOK
  <2>6. /\ cmd.profile = typed.profile
        /\ cmd.password_count = IF typed.password_count = NoCount THEN 0
                                ELSE typed.password_count % Word
    BY <2>5 DEF CmdVariables, Options
  <2>7. /\ chosen # NoProfile
        /\ chosen = IF typed.profile = "none" THEN ProfileNew("default")
                    ELSE ProfileGetFromName(typed.profile)
    BY <2>1, <2>6 DEF ChoiceInv
  <2>8. CASE typed.password_count # NoCount
    <3>1. typed.password_count \in 1..(Word - 1)
      BY <2>8 DEF NumbersKept
    <3>2. /\ typed.password_count % Word = typed.password_count
          /\ typed.password_count > 0
      BY <3>1, WordAssumption
    <3> QED
      BY <2>6, <2>8, <3>2 DEF ProfileGetPasswordCount, DeclaredCount
  <2>9. CASE typed.password_count = NoCount /\ typed.profile = "none"
    <3>1. ProfileGetPasswordCount = cfg.password_count
      BY <2>6, <2>7, <2>9 DEF ProfileGetPasswordCount, ProfileNew
    <3> QED
      BY <2>4, <2>9, <3>1 DEF DeclaredCount
  <2>10. CASE typed.password_count = NoCount /\ typed.profile # "none"
    <3>1. PICK k \in DOMAIN profiles :
            /\ ProfileGetFromName(typed.profile) = profiles[k]
            /\ First({i \in Headers(lines) : lines[i].name = typed.profile})
                 = h[k]
      BY <2>2, <2>7, <2>10, FirstHeader
    <3>2. profiles[k].password_count =
            LastIn(lines, Section(lines, h[k] + 1), cfg.password_count)
      BY <2>2 DEF Registered
    <3>3. h[k] + 1 \in Nat \ {0}
      BY DEF TypeOK
    <3>4. ProfileGetPasswordCount = profiles[k].password_count
      BY <2>6, <2>7, <2>10, <3>1 DEF ProfileGetPasswordCount
    <3> QED
      BY <2>3, <2>4, <2>10, <3>1, <3>2, <3>3, <3>4 DEF DeclaredCount
  <2> QED BY <2>8, <2>9, <2>10
<1> QED
  BY <1>1, <1>2, <1>3, InitType, PTL DEF Spec
=============================================================================
