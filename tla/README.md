# Verification of mdp

mdp keeps passwords in one GnuPG-encrypted text file.  `mdp edit` and `mdp add`
decrypt it, let the user edit the plain text and encrypt it again; `mdp get` and
`mdp prompt` decrypt and display it; `mdp generate` prints random passwords.
This directory holds TLA+ models of the program, the TLC configurations that
check them on small instances, and TLAPS proofs of the main results for every
value of the constants.

## 1. The system

| Component | State | Operations | Interacts through |
|---|---|---|---|
| Session (`main.c`, `editor.c`, `gpg.c`) | temporary file, encrypted temporary file, `results`, `result_crc32` | `mdp_edit`, `mdp_add`, `mdp_get`, `edit_results`, `gpg_encrypt` | password file, backup, lock |
| Lock (`lock.c`) | `~/.mdp/lock`, holding a pid nobody reads | `lock_set`, `lock_unset` | stat, open, unlink |
| Cleanup (`cleanup.c`) | handlers for exit and SIGINT | `atexit_cleanup`, `sig_cleanup` | called by `exit`, by the signal, and in forked children |
| gpg reader (`gpg.c`, `results.c`) | pipe, gpg's pid | `gpg_open`, `load_results_fp`, `gpg_close` | pipe, `waitpid` |
| Watcher (`utils.c`) | `watcher_pid` | `set_pid_timeout`, `cancel_pid_timeout` | SIGINT to gpg, SIGINT from the parent |
| Configuration (`config.c`) | `cfg_*`, current profile | checks, line interpreter, defaults | read by all commands |
| Command line (`cmd.c`, `main.c`) | `cmd_*` | `command_match`, `cmd_parse_*` | read by configuration and profiles |
| Profiles (`profile.c`) | registry | `profile_new`, `profile_get_from_name`, counts | copies globals, read by add and generate |
| Results and keywords (`results.c`, `keywords.c`) | `results`, `keywords` | load, filter, print | pager |
| Pager (`pager.c`, `ui-curses.c`) | offsets, time left | scroll, refresh, prompt | terminal |
| Generator (`randpass.c`, `arc4random.c`) | RC4 state, count until the next key, weights | `generate_password_from_set`, `arc4random_uniform` | `/dev/urandom`; called by add and generate |
| Text (`results.c`, `str.c`, `crc.c`, `array.h`) | static buffers, list of results, sums | reading, decoding, stripping, sums, searching, joining | called by load, dump, `has_changed`, filter |
| Allocation, compatibility (`xmalloc.c`, ...) | none | wrappers that exit on failure | called by all |

What is hard: several mdp processes share files with no lock but a stat followed
by an open; the password file is replaced by unlink and link, with crashes in
between; SIGINT runs a handler that removes files and *returns*; two children are
forked that inherit the handlers; gpg may hang, fail or be killed with half of
its output read; lines are cut to pieces at the size of a buffer and decoded over
what the previous line left in it; whether an edit is saved hangs on a checksum.
`PROJECT.json` lists these hazards line by line.

What makes the components correct: sessions exclude each other, a save never
publishes a partial file, never drops an earlier save and keeps the previous
version; the lock and the plain text do not outlive their session; a load is all
or nothing and ends; commands run on checked files only and with the counts that
the configuration declares; a text that goes through load and dump says the same
afterwards, a change to it is noticed, a search shows what contains its words; the
characters of a password are evenly drawn from a stream that is keyed in time.

## 2. Modules

### EditSession

Any number of `Sessions`, each a process running edit, add or get (prompt loads
as get does).  One action is one system call that another process can observe.

* `pc[p]` is the place in the main flow.  The actions, in the order of the code:
  `Start`, `GpgCheck` (`gpg_check`), `LockExists` and `LockOpen` (`lock_set`),
  `SetupSignalsAndAtexit`, `GpgOpen` and `Decrypt` (`load_results_gpg`),
  `AddPasswords`, `Mkstemp` and `Dump` (`edit_results`), `EditorExit`
  (`spawn_editor`), `HasChanged`, then `gpg_encrypt` call by call: `EncryptStart`,
  `EncryptEnd`, `PwExists`, `BakUnlink`, `BakLink`, `PwUnlink`, `LinkNew`,
  `Chmod`, `EncUnlink`; at exit `AxStat`, `AxUnlink`, `AxTmp` (`cleanup`).  A
  cleanup that is ended half-way leaves the session `unclean` (the lock or the
  temporary file was gone) or `failed` (a call of its own failed).
* `hs[p]` is the place in `sig_cleanup`.  While it runs the main flow stands
  still; when all its calls succeed it returns and the main flow goes on; when
  one fails, `err` leaves through the exit handlers with SIGINT masked.  The
  parent ignores SIGINT inside `system()`, that is while the editor or `gpg -e`
  runs.
* `child[p]` is the forked watcher, as far as it touches the lock.
* `lock` is the lock file with the session that wrote it, `pw` and `bak` are the
  password file and its backup, `tmp[p]` and `enc[p]` the temporary files.

A text is the set of edits that it embodies, named by the session that made them,
and whether it is *tidy*, i.e. what `edit_results` would write for its entries.
The editor may leave the text alone, save it with or without its session's edit,
tidy or not, or leave no file by that name.  `results` grows by what is loaded, as in the code.  `sum` stands for
`result_crc32` and identifies the text; a text that was never loaded has a sum (0)
of its own.  That the sums do tell texts apart is checked in `TextFile`, where the
texts are bytes and the sum is computed.  A session that takes itself down on a
null pointer (`fclose(NULL)` in `has_changed`, the unchecked `fopen` of `lock_set`)
is `crashed`, which is not the same as being killed from outside (`dead`): the
promises about the lock and the plain text say what a crash may leave.  `Fault`
lets either `fopen` fail on a file that is there.

`Environment` says which hazards occur: `interrupt`, `child` (the watcher runs the
inherited handlers), `kill`, `fault` (a system call fails).  `breach` records how
the protection was lost: two `lock_set` raced (`double`), a handler or a watcher
removed the lock (`interrupt`, `child`), an editor found no password file although
one had been published (`blank`).  It is a history variable: no action reads it, the properties say with
it exactly what each promise depends on.  The promises about what a session leaves behind
depend on how that session ended, not on the others: `CutShort` names the two ways
in which its cleanup stops half-way.

### Loader, GpgReader

`Loader` is what `load_results_gpg` promises: all the lines, or none because there
is no file, or an exit, and it does come back.  `GpgReader` is how it is done: the
parent (`FileExists`, `ForkGpg`, `SetPidTimeout`, `ReadLine`, `ReadEnd`, `WaitPid`,
`CancelPidTimeout`, `ExitCode`), gpg (`GpgExec` from the source; `GpgWrite`,
`GpgExit`, `GpgInterrupted` from how the code uses it) and the watcher
(`ResetSignals`, `Timeout`, `CheckParent`, `KillGpg`, `WatcherAtexit`,
`WatcherInterrupted`), with a bounded pipe and pending signals.  gpg may write any
number of lines and then hang, fail or be killed.  `EditSession` takes a load as
one step on the strength of the refinement.

### Startup

`main` up to the command: `ParseCore`, `EnsureConfigDir`, `CheckConfigFile`,
`ReadLine` (`process_config_line`), `SetDefaults`, `EnsurePasswordDir`,
`CheckPasswordFile`, `ParseCommand`, `ChooseProfile`.  Files are discovered in the
state in which the checks may find them.  Numbers are cut to `Word` values as
`unsigned int` does.  One setting of each kind is kept (a flag, a number that
profiles inherit, one that they do not have, a string that may be set once).
`typed` is what the user gave as options, `cmd` what the parser makes of it
(`CmdVariables`: no option is a zero).  `DeclaredCount` reads the file and the options
as the README of mdp does, with no cut and with any `-n` before all else; the
program differs from it for `-n 0` and for numbers of 2^32 or more, and
`CountAsDeclared` is about the other numbers (`NumbersKept`).

### Pager

`mdp_get` and `mdp_prompt` after the load: `LoadFromArgv` or `StartPrompt`,
`FilterResults`, `PrintResults` (-r) or the loop of `_pager`: `PromptFirst`,
`RefreshListing`, `PlaceResult` (one turn of the loop), `ShowListing`, then
`Slash`, `AnyKey` or `TimeIsUp`; `ReadKeywords`, `ShutdownCurses`, and `Resize` at
any time.  A result is whether it is a comment, the keywords it matches, its
length in characters, which is what the code computes with, and the columns that it
takes on the terminal, which are more if it has tabs or wide characters (the most
that it takes, wherever it begins).  `drawn` is curses' own screen, `shown` the terminal's; only a refresh
carries one over to the other, so that a listing stays on the terminal while the
prompt waits.  `Delay` is the argument of `timeout()` with its wrap-around.
`moved` says whether `wmove` accepted the row: it refuses one below the window,
which wrapped lines can lead to, and `waddstr` then goes on after the previous
result; `ListingFits` promises a place for each result only when none is longer
than the window is wide.  A result that takes more columns than it has characters
(it is not `Countable`) may be written over by the next; `ListingFits` says that no
other is, also below such a result.

### Generator

`mdp generate` from `profile_fprint_passwords` down to the stream: `NextPassword`
(with `profile_generate_password`, its two allocations and the test of the
length), `For`, `Weigh`, `Scan` and `Symbol` (`generate_password_from_set`),
`Arc4Random`, `Stir`, `AddRandom`, `Discard`, `GetWord` and `Uniform`
(`arc4random.c`).  The loops are steps.  A key is any key, as `/dev/urandom`, or
the stack when it cannot be read, may yield; everything after it is computed.  The
number of bytes, 256 in the code, is `B`, and a word is four of them;
`unsigned int` is `UInt`.  `Min` is the branch of `arc4random_uniform` that the
build compiles: the file does not include `limits.h`, so `ULONG_MAX` is 0 to the
preprocessor.  `used` is a history variable, the bytes taken since the last key.

### Cksum, TextFile

`Cksum` is `crc.c` on sets of bit positions.  `OneBit` has the eight entries of
`crc32tab` for the bytes of one bit; the other entries of the table in the source
are their sums.

`TextFile` is one process and its bytes.  `ReadLine` is a turn of the loop of
`load_results_fp`: `fgets` into a buffer of `LineSize`, the checksum, `mbstowcs` into
the static `wline`, stripping, `result_new`, `ARRAY_ADD`.  `LoadEnd` finishes the sum.
For add, `ParseAdd` and `AddPasswords` join the arguments and the passwords; then
`Dump`, `Editor` (no change, or one byte changed, inserted or removed) and `HasChanged`
lead to a second load and to `changed` or `unchanged`.  For get, `Get` and `Refine`
split what is typed into keywords and filter.  When `mbstowcs` fails it stores
what it has decoded and no NUL (as the GNU C library does), so `wline` keeps
the end of an earlier line.  A keyword that does not fit its buffer, or does not
decode, leaves what is compared undefined: the search may then come out either way.
`Pieces` is the loop that decoding, `strtok_r` and the reference `Lines` have in common:
what a position yields, and the position after it.

## 3. Runs

Bounds: two sessions are enough for every race between a session and "the others"
since the shared state is one lock, one file and one backup, and the theorems
below remove the bound for safety.  One SIGINT per behaviour; an `add` whose
additions are empty behaves as `edit`, so that one editing command is enough in
each run, and the layouts that are not tidy are left to the theorems and to
`TextFile`.  Sessions are interchangeable (symmetry, in the runs without
liveness).  In `edit_store` the constraint `OneStraySession` keeps to behaviours in
which at most one session at a time has been killed or has a watcher that runs the
inherited handlers; any number of calls may fail.  `edit_signals` has two editing
sessions, one SIGINT and any number of failing calls; it leaves the backup off, whose
steps end a session no differently from those around them, and keeps a cancelled
watcher where it is (`NoBackup`, `WatchersStay`): without the inherited handlers
it touches nothing.  Two lines through a pipe of one make reader and writer wait for each
other in turn.  In `startup`, `Word` is 8, with the numbers 0, 1 and 8, the last of
which does not fit; three configuration lines
hold a global, a header and a setting, or two headers of one name with a setting
before or after the second.  The pager gets up to three results, of lengths below,
at and above the width of the window, one with more columns than characters, windows that hold two lines or none, and a
second search; its `Word` is 4096, so that a timeout of 3 s is already too long for
an int.  The generator has four bytes, keys of two, and a new key after six bytes,
so that keys are renewed within a password and between rejected draws; the bounds
lie below, at and above half the range of a word; the lengths are 0, one that fits,
one that is too large and the greatest `unsigned int`.  The texts are all those of
up to five bytes over a letter, the space, the new line and the two bytes of one
accented letter, with pieces of at most four bytes, so that lines are cut, also
inside of a character; those for get have capitals and comments.

| Run | Checks |
|---|---|
| `edit_store` | `TypeOK`, `Exclusion`, `PublishedWhole`, `Recoverable`, `NoLostUpdate`, `BackupIsPrevious`: add and get, with a kill, a failing call or a watcher that runs the handlers, at any step |
| `edit_signals` | `LockAccountable`, `PlaintextRemoved`, `LockReleased` (under fairness): SIGINT and failing calls at any step |
| `reader_load` | `TypeOK`, `NoPartialLoad`, `RefinesLoader`, `WatcherEnds` |
| `startup` | `TypeOK`, `StoreChecked`, `DispatchUnique`, `CountAsDeclared` |
| `pager_search` | `TypeOK`, `ListingMatches`, `ListingFits`, `PagerEnds` |
| `generator` | `TypeOK`, `StateIsPermutation`, `KeyRenewed`, `Unbiased`, `PrintedAsAsked`, `HeaviestAdded` |
| `text` | `TypeOK`, `BufferTerminated`, `ArrayFits`, `LoadFaithful`, `DumpFaithful`, `PrefixWhole`, `NoFalseChange`, `ChangeNoticed`, `MatchExact` |

What `text` shows: within the bounds, the sum of a text differs from that of the
text that was loaded whenever the texts differ (`ChangeNoticed`, both for an edit of
a byte and for blanks that the dump leaves out), and only then (`NoFalseChange`);
entries survive load, dump and load (`LoadFaithful`, `DumpFaithful`) if they decode and
are two bytes shorter than the buffer.  At one byte more they do not: the
piece that `fgets` reads has no room for the new line, which comes back as an empty
entry at each edit.

Five more runs show where the code does something else than its documentation or
comments say (`PROJECT.json`, findings): two editors at a time after a race for
the lock (`edit_two_editors`); a get that sees no store during a save
(`edit_reader`); exit handlers in the watcher (`reader_atexit`); passwords left on the
terminal by an error in the pager (`pager_exit`); a line that cannot be decoded and
is replaced by the line before it, on the screen and, after an edit, in the file
(`text_locale`).

Smaller disagreements are visible in the models and have no run of their own:

* a session that is interrupted before its editor starts goes on to edit without a
  lock, because `sig_cleanup` returns (`HandlerTmp`, `cleanup.c:66`, against
  `README:243`);
* `has_changed` does not check its `fopen`: when the temporary file has gone, for lack
  of a descriptor or of rights, `fclose(NULL)` crashes and no exit handler runs.  The
  lock stays, and if it was the `fopen` of an existing file that failed, the plain
  text (`HasChanged` and `Fault`, `editor.c:142`, against "called when the program
  terminates" at `cleanup.c:29`);
* a session whose lock goes between the stat and the unlink of its `lock_unset`
  leaves its plain text, because the error ends `cleanup` (`AxUnlink`, `lock.c:65`,
  against the same comment);
* `-n 0` is no option to the program, and a number of 2^32 or more loses its upper
  bits, on the command line and in the file (`CmdVariables` and `SetVariable`,
  `profile.c:90`, `cmd.c:182`, `config.c:175`, against `README:64-67` and
  `README:160`);
* a timeout of more than 2147483 s wraps when it is turned into milliseconds and
  may make the pager wait for ever, or too short a time (`Delay`, `ui-curses.c:106`,
  against `README:169`);
* a result with tabs or wide characters takes more columns than `wcs_len` counts:
  when it wraps for that, the next one is written over its end (`Wrapped` and
  `RowsOf`, `pager.c:73`, against the comment at `pager.c:61`).  `mdp add` itself
  writes a tab between prefix and password (`profile.c:115`);
* `mdp edit -k` and `mdp add -k` have no effect: the defaults are settled before the
  options of the command are parsed (`SetDefaults`, `main.c:207`, against
  `README:44`); the type of `cfg.gpg_key_id` in `Startup` says so;
* a text that was not touched is encrypted and published again when it differs
  from the stored one by layout only or when there is no password file yet
  (`HasChanged`, `editor.c:146`, against `README:39`);
* `set backup yes` turns the backup off (`ParseBoolean`, `config.c:53`, against
  `README:124`);
* a password file that others may read is accepted (`CheckPasswordFile`,
  `config.c:405`, against `README:165`);
* results that follow wrapped lines may be glued to the previous one, because the
  limit counts results and not rows (`PlaceResult`, `pager.c:43`, against the
  comment at `pager.c:61`);
* a profile called `default` is looked up in vain (`ProfileGetFromName`,
  `profile.c:80`, against its comment);
* a watcher whose parent died may still signal gpg's pid, because `getppid` names
  the adopting process (`CheckParent`, `utils.c:166`, against its comment);
* a line that ends in bytes after a NUL loses them, and they do not count as a
  change (`strlen` at `results.c:228`): the texts of `TextFile` have no NUL.

Deadlock is not checked: sessions, loads, start-up and generation all come to an end.

Fairness.  `EditSession`: weak fairness of the main flow and of the handler of
every session: the system schedules processes that can run, and the editor and
gpg end (gpg -d because of the watcher; the editor and gpg -e because the user
leaves them).  Nothing is assumed of signals, kills, watchers or the start.
`GpgReader`: parent and watcher run, `sleep` returns, gpg reacts to SIGINT and to
its exec; gpg's own progress is *not* fair, so it may hang.  `Pager`: the program
runs, and `getch` and `getnstr` return when their time is up; the user may do
anything or nothing.  `Generator` and `TextFile` have no liveness:
`arc4random_uniform` "could theoretically loop forever", and a text is finite.

## 4. Proofs

Each module has its proofs in a module of its own, `<module>Proofs` (`TextFile` in two,
of which `FaithfulProofs` is the second), and assumes only the named assumptions of
the module it is about: the constants have their types, and the few relations
between them that the code has.  None bounds the
number of sessions, lines, results, profiles or characters.  Every invariant that a
run checks is a theorem except `ChangeNoticed`, for the reason given at the end.

### EditSessionProofs, GpgReaderProofs

`EditSession` assumes that `Nobody` is no session; the sessions may be any number,
failures and interrupts of any kind.  `TypeOK`, `Exclusion`, `LockAccountable`,
`PublishedWhole`, `Recoverable`, `PlaintextRemoved`, `NoLostUpdate` and
`BackupIsPrevious` are theorems.  The invariants are not inductive as they stand:

* `LockInv` adds `Frames` (where a session and its handler can be together),
  `HandlerUnlocked` (a handler past `lock_unset` has no lock left), without which
  a resumed session could be at its exit with its lock in place.
* `TmpInv` says that a temporary file exists only while a cleanup lies ahead, or
  for one of the reasons that `PlaintextRemoved` names.
* `StoreInv` says when `enc[p]` is whole: from gpg's success on.
* `SaveInv` is the argument for updates and backup: the holder of the lock works
  on a text that carries all that was published (`Carried`), `pw` and `bak` are
  what the step of `gpg_encrypt` implies (`Replacing`), and an edit that has not
  been linked is in nobody else's text (`Fresh`), so that an editor taking back
  its own edit cannot take back a published one.

One lemma per invariant has one step per action.  `NoLostUpdate` and
`BackupIsPrevious` then follow since only `LinkNew` publishes (`Publication`).

`GpgReaderProofs` proves types, `NoPartialLoad` and the safety part of the
refinement (`RefinesLoaderSafely`) for any number of lines and any capacity, from
`Stages`: what each stage of the parent knows of gpg's status and of the pipe.

### StartupProofs

`TypeOK`, `StoreChecked`, `DispatchUnique` and `CountAsDeclared`, for files of any
length, any names and numbers (`WordAssumption`, `NumbersAssumption`,
`CommandWordsAssumption`, `MaxLinesAssumption`).

* `OrderInv` says what has been checked by each phase, and that no option of the
  command is known before the command.
* `DispatchUnique` is about all words: it is shown from the letters in which the five
  names differ (`DispatchWord`, `NamesDiffer`), not by looking at the words of a run.
* `CountAsDeclared` speaks of the whole file, while the code keeps counts line by
  line, cut to an `unsigned int`; `LastIn` is the last count of a section as the code
  keeps it, and `SectionFits` says that it is the declared one where the numbers
  fit.  `RegistryInv` says of the lines read so far what the property says at the
  end: there is a function from the registry to the headers of the file, in order
  and onto, and each profile's count is the last one that its section sets.
  Without it nothing ties a profile to its section.  One lemma says what one more
  line does to the sections, for each kind of line.  `ChoiceInv` carries the
  options and the chosen profile to the command.

### PagerProofs

`TypeOK`, `ListingMatches` and `ListingFits` for any results, keywords and windows
(`LinesAssumption`, `WindowsAssumption`: a window that has rows has columns;
`BoundsAssumption`).

* `RoomInv`: the loop of `refresh_listing` is reached only with rows to divide by;
  types need it.
* `SearchInv` ties the visible flags to the last keywords, except between a prompt
  and its filter.
* `DrawnInv` says which results are drawn amid the loop, so that the terminal can
  be compared with all of them at its end.
* `PlaceInv` says that what is drawn and `Countable` lies above the row of the next
  result, and that this row is the number of results placed so far when none is
  longer than the window is wide.  That the rows which the code counts are enough for
  such a result (`WrappedEnough`) needs that the listing is centered only when the
  longest visible result fits.  Without the second half, a result could fall below the window although
  the count of visible results fits.

### GeneratorProofs

`TypeOK`, `StateIsPermutation`, `KeyRenewed`, `Unbiased`, `PrintedAsAsked` and the action
property `HeaviestAdded`, for any number of bytes, key size, interval, character sets
and counts (`StreamAssumption`; `ProfileAssumption`, of which one part is a relation:
twice the greatest length is below `UINT_MAX`, so that no accepted length wraps).

* `LoopInv`: characters are drawn only for a password that was not refused, and
  below a bound of at least two.
* `CountInv`: `arc4_count` and the bytes used since the last key add up to the
  interval, with the bytes of an unfinished word in between.
* `LengthInv`: the password so far is short enough and of the right characters.
* `WeightInv`: the greatest weight of those scanned, and the first that has it.
* `Unbiased` is arithmetic: what `Min` rejects leaves a multiple of the bound
  (`MinCuts`, for every width of a word, also above half the range), and moving the
  multiples of the bound up by k is a bijection onto the words that yield k
  (`ShiftIsBijection`), so that all results have equally many words.

### TextFileProofs

`TypeOK`, `BufferTerminated`, `ArrayFits`, `MatchExact` and `PrefixWhole`, for texts,
arguments, passwords, keywords and queries of any length and any sizes of the
buffers (`SizeAssumption`: a line has room for a byte and its NUL; `TextAssumption`).

* `TypeOK`, `BufferTerminated` and `ArrayFits` are inductive together: decoding into the
  buffer stays away from its last NUL because `fgets` leaves one byte free and no
  text has more characters than bytes, and a result has no NUL because the buffer is
  measured up to one.  `ArrayFits` needs that the growth of `ARRAY_ENSURE` ends above
  what was asked for (`EnsuredFits`).
* `MatchExact` needs that `wcscasestr` finds what occurs (`WcscasestrExact`): its
  comparison may run into the NUL of the line, which differs from every character
  of the keyword (`SameFromExact`).
* `PrefixWhole` needs that `strlcat` never has to cut inside `join_list` (`JoinIsWhole`:
  the size grows with the string and stays ahead of it by the number of words), that strings
  are encoded one after the other (`EncodedConcat`), and `JoinInv`: after
  `cmd_parse_add` the prefix decodes.

### FaithfulProofs

The rest of `TextFile`: `LoadFaithful`, `DumpFaithful` and `NoFalseChange`, under the same
assumptions.  The properties speak of the lines of a whole text, the code takes
pieces from what remains of one.

* `PiecesStep` and its consequences say that the lines of a text are its first one and
  those of what comes after it (`LinesStep`), and that decoding goes on in the same
  way (`DecodedCons`).  By induction over the characters, decoding undoes encoding
  (`DecodedEncoded`).
* `BufferExact` is the step from the buffer to the text: after a piece that decodes and
  fits, the characters up to the first NUL are those of the piece without its
  trailing blanks, whatever the buffer held before.
* `LoadInv` is the invariant for `LoadFaithful`.  Before a load is over, the values of
  the results followed by the entries of what remains to be read are the entries of
  the text (`Loading`).  The second load appends to the results of the first and to
  passwords that were added, about which nothing is known when the first text was
  not readable; so `Reloading` says it of the results after some number of them, and
  the number is fixed only at the end.  `LoadFaithful` alone says nothing amid the
  loop.  TLC has checked `LoadInv` on the instance of `text`.
* `DumpFaithful` is not about a loop of the model: `Dump` is one step, and the theorem is
  that reading undoes writing (`DumpIsReadBack`), by induction over the strings.  A
  result has no NUL by `TypeOK`, and new lines and length are the hypotheses of the
  property.
* `SumInv` is the invariant for `NoFalseChange`: the sum of what was read, continued
  over what remains, is the sum of the text (`SumSplit`: a sum may be taken in two
  parts), `result_crc32` and `previous_crc32` are the sums of the texts that were
  loaded.  It gives more than the property: `SumsOfTheTexts` says that `has_changed`
  decides by the sums of the two whole texts, so that all that is left to chance in
  `ChangeNoticed` is a collision of CRC-32.

### Inductions

The induction theorems of the library take the formula as an operator, which the
installed provers cannot instantiate.  `Inductions` states about sets what they
state about operators: a set of naturals has a least element, a bounded one a
greatest, and one with 0 and all successors has them all.  A recursive function
(`Pieces`, `FlattenSeq`, `join_list`, `Ensured`, `CKSUM_Update`) is a choice of a function that
satisfies an equation: the proofs build one that does, step by step
(`IterationExists`), and where the value matters show that there is no other
(`PartialUnique`).

### Only model-checked

* `LockReleased`, `WatcherEnds`, `PagerEnds` and the liveness half of `RefinesLoader`:
  liveness is out of the prover's reach.
* `ChangeNoticed`: that every edit changes the sum is not true of texts of any
  length, since 32 bits cannot tell them all apart; it holds of the texts and the
  edits of the run.  What is true of all texts is `SumsOfTheTexts`.

## 5. Not modelled

`strdelim`, which splits a configuration line into words: `Startup` starts from the
words.  Whether a regular expression matches a line is taken as given, and curses'
own signal handlers are not modelled.  UTF-8 sequences of three and four bytes
behave as those of two do.  `arc4random_stir`, `arc4random_addrandom`,
`arc4random_buf`, `CKSUM_End`, `wcslcpy` and most macros of `array.h` are called by
nothing in mdp.  pid reuse, memory that runs out (`xmalloc` exits) and debug output are
left out.  Memory errors are modelled where they decide what happens: `fopen` of
`lock_set` is not checked, `fclose(NULL)` in `has_changed` crashes, a keyword may lack
its NUL.  A session that is killed while its editor or gpg runs is taken to end at
once, although the child may go on for a while.

## 6. Plan

1. Done: EditSession, Loader, GpgReader with the refinement, Startup, Pager,
   Generator, Cksum and TextFile, and the theorems of section 4.
2. Done since: the theorems about whole texts, `LoadFaithful`, `DumpFaithful` and
   `NoFalseChange` (`FaithfulProofs`).
3. An abstract store that EditSession implements was considered and given up: while
   the lock holds its steps are those of `NoLostUpdate` and `BackupIsPrevious`, which
   are proved, and when the lock fails there is nothing that the code implements.
