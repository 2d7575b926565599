------------------------------- MODULE Startup -------------------------------
(***************************************************************************)
(* The start of mdp, from the command line to the command: read_config,    *)
(* the checks of the directories and files it relies on, the configuration *)
(* file line by line, the defaults, the choice of the command, its options *)
(* and its profile.  The steps run in the order of main, which matters:    *)
(* the options of the command are parsed after the defaults are set.       *)
(*                                                                         *)
(* The environment is discovered as the program looks at it: a file's      *)
(* state is chosen by the step that stats it, a line by the step that      *)
(* reads it.  Of the settings, one of each kind is kept: a flag (backup),  *)
(* a number (password_count, which stands for character_count too), a      *)
(* number that profiles do not have (timeout, for gpg_timeout too) and a   *)
(* string that may be set once (gpg_key_id, for gpg_path, password_file).  *)
(***************************************************************************)
EXTENDS Integers, Sequences, SequencesExt

CONSTANTS
    Word,         \* numbers are kept modulo Word (2^32 for unsigned int)
    Numbers,      \* the numbers a user writes
    Words,        \* the words a user writes for a flag
    ProfileNames, \* the names a user gives to profiles
    CommandWords, \* what a user types for the command, letter by letter
    MaxLines      \* bound on the lines of the configuration file

ASSUME WordAssumption == Word \in Nat /\ Word > 4
ASSUME NumbersAssumption == Numbers \subseteq Nat
ASSUME CommandWordsAssumption == CommandWords \subseteq Seq(STRING)
ASSUME MaxLinesAssumption == MaxLines \in Nat

VARIABLES
    phase,    \* the step main is at
    fs,       \* what the program found when it looked at its files
    lines,    \* the lines of the configuration file read so far
    cfg,      \* the global cfg_ variables
    profiles, \* the profile registry
    word,     \* argv[0] of the command
    typed,    \* the options of the command as typed
    cmd,      \* the cmd_ variables
    chosen    \* the profile that the command works with

vars == <<phase, fs, lines, cfg, profiles, word, typed, cmd, chosen>>

-----------------------------------------------------------------------------
(* Files and directories, by what the checks tell apart.                   *)

\* "open" grants something to others; "foreign" is neither root's nor the
\* user's; "other" is not a directory, or not a regular file.
DirStates == {"absent", "private", "open", "foreign", "other"}

\* A configuration file is the user's or not; its mode is not looked at.
ConfigFileStates == {"absent", "regular", "foreign", "other"}

\* Modes of a regular file of the user's: 0600, readable by others, writable.
FileStates == {"absent", "private", "readable", "writable", "foreign", "other"}

-----------------------------------------------------------------------------
(* Settings, lines and profiles.                                           *)

NoKey == "none"
NoProfile == [name |-> "none", password_count |-> 0]

\* A line is blank or a comment, unknown, `profile name' or `set name value';
\* "given" tells whether the name (profile) or the value (set) is there.
SetLines(name, values) ==
    [op : {"set"}, name : {name}, given : BOOLEAN, value : values]

ConfigLines ==
    {[op |-> op, name |-> "", given |-> FALSE, value |-> ""] :
        op \in {"blank", "unknown"}}
    \cup [op : {"profile"}, name : ProfileNames, given : BOOLEAN, value : {""}]
    \cup SetLines("backup", Words)
    \cup SetLines("password_count", Numbers)
    \cup SetLines("timeout", Numbers)
    \cup SetLines("gpg_key_id", {"config"})
    \cup SetLines("unknown", {""})

\* parse_boolean: a value that begins with an `o'.
ParseBoolean(given, value) == given /\ value \in {"on", "off", "o"}

\* set_variable stops the program on a missing value, on a second definition
\* of a string that may be set once and on an unknown name.
SetVariableOK(l) ==
    \/ l.name = "backup"
    \/ l.name \in {"password_count", "timeout"} /\ l.given
    \/ l.name = "gpg_key_id" /\ l.given /\ cfg.gpg_key_id = NoKey

\* Mutant of SetVariable: numbers are kept as strtoull returns them.
SetVariableWide(l) ==
    [cfg EXCEPT !.password_count = IF l.name = "password_count"
                                     THEN l.value ELSE @]

SetVariable(l) ==
    [cfg EXCEPT
        !.backup = IF l.name = "backup"
                     THEN ParseBoolean(l.given, l.value) ELSE @,
        !.password_count = IF l.name = "password_count"
                             THEN l.value % Word ELSE @,
        !.timeout = IF l.name = "timeout" THEN l.value % Word ELSE @,
        !.gpg_key_id = IF l.name = "gpg_key_id" THEN l.value ELSE @]

SetProfileVariableOK(l) == l.name = "password_count" /\ l.given

\* Mutant of SetProfileVariable: it goes to the first profile.
SetProfileVariableFirst(l) ==
    [profiles EXCEPT ![1].password_count = l.value % Word]

\* current_profile is the last profile that was registered.
SetProfileVariable(l) ==
    [profiles EXCEPT ![Len(profiles)].password_count = l.value % Word]

\* A new profile starts from the globals of the moment.
ProfileNew(name) == [name |-> name, password_count |-> cfg.password_count]

\* The least of a set of indices: where a search from the start stops.
First(S) == CHOOSE i \in S : \A k \in S : i <= k

\* The first profile of the registry with that name.
ProfileGetFromName(name) ==
    LET found == {i \in DOMAIN profiles : profiles[i].name = name}
    IN  IF found = {} THEN NoProfile ELSE profiles[First(found)]

\* A count on the command line takes precedence, if it is not zero.
ProfileGetPasswordCount ==
    IF cmd.password_count > 0 THEN cmd.password_count ELSE chosen.password_count

-----------------------------------------------------------------------------
(* The choice of the command.                                              *)

CommandNames == [
    edit     |-> <<"e", "d", "i", "t">>,
    generate |-> <<"g", "e", "n", "e", "r", "a", "t", "e">>,
    add      |-> <<"a", "d", "d">>,
    get      |-> <<"g", "e", "t">>,
    prompt   |-> <<"p", "r", "o", "m", "p", "t">>]

Commands == DOMAIN CommandNames

\* Mutant of Attempts: two letters are enough for generate.
AttemptsShort == << <<"edit", 1>>, <<"generate", 2>>, <<"add", 1>>,
                    <<"get", 3>>, <<"prompt", 1>> >>

\* The order in which main tries them, with the shortest accepted prefix.
Attempts == << <<"edit", 1>>, <<"generate", 3>>, <<"add", 1>>, <<"get", 3>>,
               <<"prompt", 1>> >>

\* The first name that the word begins decides: it is the command, or the
\* word is too short ("ambiguous"); otherwise the command is unknown.
Dispatch(w) ==
    LET hits == {i \in DOMAIN Attempts :
                   IsPrefix(w, CommandNames[Attempts[i][1]])}
    IN  IF hits = {} THEN "unknown"
        ELSE LET hit == Attempts[First(hits)]
             IN  IF Len(w) < hit[2] THEN "ambiguous" ELSE hit[1]

-----------------------------------------------------------------------------
\* The options of a command as typed, and what stands for those left out.
NoCount == -1
Options == [profile : ProfileNames \cup {"none", "default"},
            password_count : Numbers \cup {NoCount},
            gpg_key_id : {NoKey, "option"}]
NoOptions == [profile |-> "none", password_count |-> NoCount,
              gpg_key_id |-> NoKey]

\* The cmd_ variables that the parser of a command leaves: an option that is
\* not there leaves the zero, or NULL, of a static variable.
CmdVariables(options) ==
    [options EXCEPT !.password_count = IF @ = NoCount THEN 0 ELSE @ % Word]

Init ==
    /\ phase = "core"
    /\ fs = [config_dir |-> "unseen", config_file |-> "unseen",
             password_dir |-> "unseen", password_file |-> "unseen"]
    /\ lines = <<>>
    /\ cfg = [backup |-> TRUE, password_count |-> 4, timeout |-> 10 % Word,
              gpg_key_id |-> NoKey]
    /\ profiles = <<>>
    /\ word = <<>>
    /\ typed = NoOptions
    /\ cmd = CmdVariables(NoOptions)
    /\ chosen = NoProfile

Exit == phase' = "exit"

\* cmd_parse_core, and get_home: usage, a deprecated flag, no command, no
\* $HOME.
ParseCore ==
    /\ phase = "core"
    /\ phase' = "config_dir" \/ Exit
    /\ UNCHANGED <<fs, lines, cfg, profiles, word, typed, cmd, chosen>>

\* config_ensure_directory, for the directory `which': made with mode 0700 if
\* absent (mkdir may fail), otherwise it must be the user's and private.
EnsureDirectory(which, next) ==
    /\ phase = which
    /\ \E d \in DirStates :
         \/ /\ d \in {"absent", "private"}
            /\ fs' = [fs EXCEPT ![which] = "private"]
            /\ phase' = next
         \/ /\ d # "private"
            /\ fs' = [fs EXCEPT ![which] = d]
            /\ Exit
    /\ UNCHANGED <<lines, cfg, profiles, word, typed, cmd, chosen>>

EnsureConfigDir == EnsureDirectory("config_dir", "config_file")

\* config_check_file: no file is fine.
CheckConfigFile ==
    /\ phase = "config_file"
    /\ \E f \in ConfigFileStates :
         /\ fs' = [fs EXCEPT !.config_file = f]
         /\ IF f \in {"foreign", "other"} THEN Exit ELSE phase' = "reading"
    /\ UNCHANGED <<lines, cfg, profiles, word, typed, cmd, chosen>>

\* process_config_line.
ReadLine ==
    /\ phase = "reading"
    /\ fs.config_file # "absent"
    /\ Len(lines) < MaxLines
    /\ \E l \in ConfigLines :
         /\ lines' = Append(lines, l)
         /\ \/ /\ l.op = "blank"
               /\ UNCHANGED <<phase, cfg, profiles>>
            \/ /\ l.op = "profile" /\ l.given
               /\ profiles' = Append(profiles, ProfileNew(l.name))
               /\ UNCHANGED <<phase, cfg>>
            \/ /\ l.op = "set" /\ profiles = <<>> /\ SetVariableOK(l)
               /\ cfg' = SetVariable(l)
               /\ UNCHANGED <<phase, profiles>>
            \/ /\ l.op = "set" /\ profiles # <<>> /\ SetProfileVariableOK(l)
               /\ profiles' = SetProfileVariable(l)
               /\ UNCHANGED <<phase, cfg>>
            \/ /\ \/ l.op = "unknown"
                  \/ l.op = "profile" /\ ~l.given
                  \/ l.op = "set" /\ profiles = <<>> /\ ~SetVariableOK(l)
                  \/ l.op = "set" /\ profiles # <<>> /\ ~SetProfileVariableOK(l)
               /\ Exit
               /\ UNCHANGED <<cfg, profiles>>
    /\ UNCHANGED <<fs, word, typed, cmd, chosen>>

ReadEnd ==
    /\ phase = "reading"
    /\ phase' = "defaults"
    /\ UNCHANGED <<fs, lines, cfg, profiles, word, typed, cmd, chosen>>

\* config_set_defaults: the key of the command line replaces the configured
\* one, if there is one by now.
SetDefaults ==
    /\ phase = "defaults"
    /\ cfg' = [cfg EXCEPT !.gpg_key_id =
                 IF cmd.gpg_key_id # NoKey THEN cmd.gpg_key_id ELSE @]
    /\ phase' = "password_dir"
    /\ UNCHANGED <<fs, lines, profiles, word, typed, cmd, chosen>>

EnsurePasswordDir == EnsureDirectory("password_dir", "password_file")

\* Mutant of CheckPasswordFile: the owner is not looked at.
CheckPasswordFileAnyOwner ==
    /\ phase = "password_file"
    /\ \E f \in FileStates :
         /\ fs' = [fs EXCEPT !.password_file = f]
         /\ IF f \in {"writable", "other"} THEN Exit ELSE phase' = "dispatch"
    /\ UNCHANGED <<lines, cfg, profiles, word, typed, cmd, chosen>>

CheckPasswordFile ==
    /\ phase = "password_file"
    /\ \E f \in FileStates :
         /\ fs' = [fs EXCEPT !.password_file = f]
         /\ IF f \in {"writable", "foreign", "other"}
              THEN Exit ELSE phase' = "dispatch"
    /\ UNCHANGED <<lines, cfg, profiles, word, typed, cmd, chosen>>

\* edit has no -p and -n, generate has no -k, get and prompt have neither:
\* getopt ends the program on an option that is not the command's.
Accepts(command, options) ==
    /\ options.profile # "none" \/ options.password_count # NoCount
         => command \in {"add", "generate"}
    /\ options.gpg_key_id # NoKey => command \in {"add", "edit"}

\* command_match over the commands, and the parser of the one found.  Help,
\* surplus or missing arguments end the program too.
ParseCommand ==
    /\ phase = "dispatch"
    /\ \E w \in CommandWords, options \in Options :
         /\ word' = w /\ typed' = options
         /\ \/ /\ Dispatch(w) \in Commands /\ Accepts(Dispatch(w), options)
               /\ cmd' = CmdVariables(options)
               /\ phase' = IF Dispatch(w) \in {"add", "generate"}
                             THEN "profile" ELSE "running"
            \/ Exit /\ UNCHANGED cmd
    /\ UNCHANGED <<fs, lines, cfg, profiles, chosen>>

\* The head of mdp_add and mdp_generate.
ChooseProfile ==
    /\ phase = "profile"
    /\ chosen' = IF cmd.profile = "none" THEN ProfileNew("default")
                                         ELSE ProfileGetFromName(cmd.profile)
    /\ IF chosen' = NoProfile THEN Exit ELSE phase' = "running"
    /\ UNCHANGED <<fs, lines, cfg, profiles, word, typed, cmd>>

Next ==
    \/ ParseCore \/ EnsureConfigDir \/ CheckConfigFile \/ ReadLine \/ ReadEnd
    \/ SetDefaults \/ EnsurePasswordDir \/ CheckPasswordFile \/ ParseCommand
    \/ ChooseProfile

Spec == Init /\ [][Next]_vars

-----------------------------------------------------------------------------
(* Properties.                                                             *)

Profile == [name : ProfileNames \cup {"none", "default"},
            password_count : 0..(Word - 1)]

TypeOK ==
    /\ phase \in {"core", "config_dir", "config_file", "reading", "defaults",
                  "password_dir", "password_file", "dispatch", "profile",
                  "running", "exit"}
    /\ fs \in [config_dir : {"unseen"} \cup DirStates,
               config_file : {"unseen"} \cup ConfigFileStates,
               password_dir : {"unseen"} \cup DirStates,
               password_file : {"unseen"} \cup FileStates]
    /\ lines \in Seq(ConfigLines) /\ Len(lines) <= MaxLines
    /\ cfg \in [backup : BOOLEAN, password_count : 0..(Word - 1),
                timeout : 0..(Word - 1), gpg_key_id : {NoKey, "config"}]
    /\ profiles \in Seq(Profile)
    /\ word \in Seq(STRING)
    /\ typed \in Options
    /\ cmd \in [profile : ProfileNames \cup {"none", "default"},
                password_count : 0..(Word - 1), gpg_key_id : {NoKey, "option"}]
    /\ chosen \in Profile

Uses(c) == phase = "running" /\ Dispatch(word) = c

\* The whole configuration file at once: the lines from i to the next profile
\* header that set the password count, and what the last of them sets.
SetsCount(l) == l.op = "set" /\ l.name = "password_count"
Section(ls, i) == {j \in i..Len(ls) : /\ SetsCount(ls[j])
                                      /\ \A k \in i..j : ls[k].op # "profile"}
LastSet(ls, S, default) ==
    IF S = {} THEN default ELSE ls[CHOOSE j \in S : \A k \in S : k <= j].value
Headers(ls) == {i \in 1..Len(ls) : ls[i].op = "profile"}

\* What README promises for -n ("will override all other values of
\* password_count (global and profile)") and for the configuration file, in
\* numbers as the user wrote them.
DeclaredCount ==
    LET global == LastSet(lines, Section(lines, 1), 4)
        header == First({i \in Headers(lines) : lines[i].name = typed.profile})
    IN  CASE typed.password_count # NoCount -> typed.password_count
          [] OTHER -> IF typed.profile = "none" THEN global
                      ELSE LastSet(lines, Section(lines, header + 1), global)

\* The numbers that the program takes for what they are.  Left out is where it
\* departs from README: `-n 0' counts as no option (profile.c), and a number of
\* 2^32 or more loses its upper bits (config.c, cmd.c).
NumbersKept ==
    /\ typed.password_count \in {NoCount} \cup 1..(Word - 1)
    /\ \A i \in 1..Len(lines) : SetsCount(lines[i]) => lines[i].value < Word

\* With such numbers, the number of passwords that add and generate make is the
\* one declared by option, first profile of that name, global section, built-in
\* default, in this order, whatever lines come between, globals set behind a
\* profile header included (config.c, cmd.c and profile.c together).
CountAsDeclared ==
    NumbersKept /\ (Uses("add") \/ Uses("generate"))
      => ProfileGetPasswordCount = DeclaredCount

\* No command runs on directories or a password file that others may change
\* (config_ensure_directory, config_check_password_file).
StoreChecked ==
    phase \in {"profile", "running"} =>
        /\ fs.config_dir = "private" /\ fs.password_dir = "private"
        /\ fs.config_file \notin {"foreign", "other"}
        /\ fs.password_file \notin {"writable", "foreign", "other"}

\* A word picks a command exactly when it begins the name of that one alone
\* (the minimal lengths in main against the names themselves).
DispatchUnique ==
    LET begun == {c \in Commands : IsPrefix(word, CommandNames[c])}
    IN  \A c \in Commands : (Dispatch(word) = c) <=> (begun = {c})

-----------------------------------------------------------------------------
(* What the proofs need besides.                                           *)

\* What has been checked by each phase; no option is known before the command.
OrderInv ==
    /\ phase \notin {"core", "config_dir", "exit"} => fs.config_dir = "private"
    /\ phase \notin {"core", "config_dir", "config_file", "exit"} =>
         fs.config_file \notin {"foreign", "other"}
    /\ phase \in {"password_file", "dispatch", "profile", "running"} =>
         fs.password_dir = "private"
    /\ phase \in {"dispatch", "profile", "running"} =>
         fs.password_file \notin {"writable", "foreign", "other"}
    /\ phase \notin {"profile", "running", "exit"} => cmd.gpg_key_id = NoKey

\* The number as the program keeps it.
LastIn(ls, S, default) ==
    IF S = {} THEN default ELSE LastSet(ls, S, default) % Word

\* h gives the header of each profile: all headers, in their order.
HeadersOf(h) ==
    /\ h \in [DOMAIN profiles -> Headers(lines)]
    /\ \A k, m \in DOMAIN profiles : k < m => h[k] < h[m]
    /\ \A i \in Headers(lines) : \E k \in DOMAIN profiles : h[k] = i

\* The settings made line by line are those of the file as a whole.
Registered(h) ==
    /\ HeadersOf(h)
    /\ \A k \in DOMAIN profiles :
         /\ profiles[k].name = lines[h[k]].name
         /\ profiles[k].password_count =
              LastIn(lines, Section(lines, h[k] + 1), cfg.password_count)

RegistryInv ==
    phase # "exit" =>
      /\ cfg.password_count = LastIn(lines, Section(lines, 1), 4)
      /\ \E h \in [DOMAIN profiles -> 1..Len(lines)] : Registered(h)

\* The command and the profile it works with.
ChoiceInv ==
    /\ phase \in {"profile", "running"} =>
         cmd = CmdVariables(typed)
    /\ phase = "running" /\ Dispatch(word) \in {"add", "generate"} =>
         /\ chosen # NoProfile
         /\ chosen = IF cmd.profile = "none" THEN ProfileNew("default")
                     ELSE ProfileGetFromName(cmd.profile)

=============================================================================
