-------------------------------- MODULE Pager --------------------------------
(***************************************************************************)
(* The search commands once the password file is loaded: mdp get and mdp   *)
(* prompt filter the results and show them, on the terminal as they are    *)
(* (-r) or in a full-screen pager that asks for other keywords on `/' and  *)
(* ends on any other key or when its time is up.                           *)
(*                                                                         *)
(* A result is abstracted to whether it is a comment, the keywords that it *)
(* matches, its length in characters (wcs_len) and the columns it takes on *)
(* the terminal, which are more where it has tabs or wide characters.      *)
(* curses keeps what was drawn apart from what the terminal shows: only    *)
(* refresh carries one over to the other.                                  *)
(***************************************************************************)
EXTENDS Integers, Sequences, FiniteSets

CONSTANTS
    Lines,         \* results: records with fields comment, matches, length
                   \* and columns, the most it takes wherever it begins
    MaxResults,    \* bound on the number of results
    Keywords,      \* the keywords a user types
    Malformed,     \* those that are no regular expression
    MaxKeywords,   \* bound on the number of keywords of a search
    MaxSearches,   \* bound on the number of times the user presses `/'
    Windows,       \* window sizes; height and width 0 when ioctl fails
    ResultsMaxLen, \* RESULTS_MAX_LEN
    Timeouts,      \* values of cfg_timeout
    Word           \* unsigned numbers are kept modulo Word (2^32)

ASSUME LinesAssumption ==
    \A l \in Lines : /\ l.comment \in BOOLEAN /\ l.matches \subseteq Keywords
                     /\ l.length \in Nat /\ l.columns \in Nat
ASSUME WindowsAssumption ==
    \A w \in Windows : /\ w.height \in Nat /\ w.width \in Nat
                       /\ w.height > 0 => w.width > 0
ASSUME BoundsAssumption ==
    /\ MaxResults \in Nat /\ MaxKeywords \in Nat /\ MaxSearches \in Nat
    /\ ResultsMaxLen \in Nat /\ Word \in Nat \ {0} /\ Timeouts \subseteq Nat
    /\ Malformed \subseteq Keywords

VARIABLES
    cmd,               \* the command and its flags
    results,           \* the results array
    visible,           \* the visible flag of each result
    keywords,          \* the keywords array
    asked,             \* history: the keywords the user gave last
    window,            \* window_height and window_width
    cfg_timeout,       \* the configured time on screen, in seconds
    pc,                \* the step the program is at
    start_with_prompt, \* the argument of _pager
    i,                 \* the loop index of refresh_listing
    top_offset,        \* the row where it places the next result
    drawn,             \* the placements drawn since the last clear
    shown,             \* the placements that the terminal shows
    curses,            \* the terminal is in curses mode
    printed,           \* the results printed by -r
    searches           \* how many times the user pressed `/'

setting == <<cmd, results, window, cfg_timeout>>
listing == <<i, top_offset, drawn>>
search  == <<keywords, asked, searches>>
vars == <<setting, visible, search, pc, start_with_prompt, listing, shown,
          curses, printed>>

\* A search: up to MaxKeywords keywords, none when the user types nothing.
Searches == UNION {[1..n -> Keywords] : n \in 0..MaxKeywords}

\* Where a result was asked to go, and whether wmove went there: it fails on a
\* row below the window, and waddstr then goes on after the previous result.
Placements == [line : 1..MaxResults, row : Nat, col : Nat, moved : BOOLEAN]

-----------------------------------------------------------------------------
(* Matching: line_matches.                                                 *)

\* Commented lines are excluded.
LineMatches(l) ==
    /\ ~l.comment
    /\ \A n \in DOMAIN keywords : keywords[n] \in l.matches

\* regcomp fails on a keyword that the loop reaches, with -E only.
RegexFails(l) ==
    /\ cmd.regex /\ ~l.comment
    /\ \E n \in DOMAIN keywords :
         /\ keywords[n] \in Malformed
         /\ \A k \in 1..(n - 1) : keywords[k] \in l.matches

VisibleResults == {j \in DOMAIN results : visible[j]}

\* results_visible_length.
ResultsVisibleLength == Cardinality(VisibleResults)

\* get_max_length.
GetMaxLength ==
    LET lengths == {results[j].length : j \in VisibleResults} \cup {0}
    IN  CHOOSE m \in lengths : \A n \in lengths : n <= m

\* The argument of curses' timeout(): an unsigned product taken for an int.
Delay ==
    LET product == (cfg_timeout * 1000) % Word
    IN  IF 2 * product < Word THEN product ELSE product - Word

-----------------------------------------------------------------------------
TypeOK ==
    /\ cmd \in [name : {"get", "prompt"}, regex : BOOLEAN, raw : BOOLEAN]
    /\ results \in Seq(Lines) /\ Len(results) <= MaxResults
    /\ visible \in [DOMAIN results -> BOOLEAN]
    /\ keywords \in Searches /\ asked \in Searches
    /\ window \in Windows
    /\ cfg_timeout \in Timeouts
    /\ pc \in {"start", "filter", "print", "init", "loop", "place", "getch",
               "getnstr", "shutdown", "exit"}
    /\ start_with_prompt \in BOOLEAN
    /\ i \in 1..(MaxResults + 1)
    /\ top_offset \in Nat
    /\ drawn \subseteq Placements /\ shown \subseteq Placements
    /\ curses \in BOOLEAN
    /\ printed \subseteq DOMAIN results
    /\ searches \in 0..MaxSearches

Init ==
    /\ cmd \in [name : {"get", "prompt"}, regex : BOOLEAN, raw : BOOLEAN]
    /\ cmd.raw => cmd.name = "get"
    /\ results \in UNION {[1..n -> Lines] : n \in 1..MaxResults}
    /\ visible = [j \in DOMAIN results |-> TRUE]
    /\ keywords = <<>> /\ asked = <<>> /\ searches = 0
    /\ window \in Windows
    /\ cfg_timeout \in Timeouts
    /\ pc = "start"
    /\ start_with_prompt = (cmd.name = "prompt")
    /\ i = 1 /\ top_offset = 0
    /\ drawn = {} /\ shown = {} /\ curses = FALSE
    /\ printed = {}

-----------------------------------------------------------------------------
(* The commands: mdp_get, mdp_prompt.                                      *)

\* keywords_load_from_argv; cmd_parse_get insists on a keyword.
LoadFromArgv ==
    /\ pc = "start" /\ cmd.name = "get"
    /\ \E s \in Searches \ {<<>>} : keywords' = s /\ asked' = s
    /\ pc' = "filter"
    /\ UNCHANGED <<setting, visible, searches, start_with_prompt, listing,
                   shown, curses, printed>>

StartPrompt ==
    /\ pc = "start" /\ cmd.name = "prompt"
    /\ pc' = "init"
    /\ UNCHANGED <<setting, visible, search, start_with_prompt, listing,
                   shown, curses, printed>>

\* Mutant of FilterResults: a result that was hidden stays hidden.
FilterResultsOnce ==
    /\ pc = "filter"
    /\ visible' = [j \in DOMAIN results |->
                     visible[j] /\ LineMatches(results[j])]
    /\ pc' = IF curses THEN "loop" ELSE IF cmd.raw THEN "print" ELSE "init"
    /\ UNCHANGED <<setting, search, start_with_prompt, listing, shown, curses,
                   printed>>

\* filter_results.  err ends the program where it is: get and prompt have
\* not installed atexit_cleanup.
FilterResults ==
    /\ pc = "filter"
    /\ \/ /\ \E j \in DOMAIN results : RegexFails(results[j])
          /\ pc' = "exit"
          /\ UNCHANGED visible
       \/ /\ \A j \in DOMAIN results : ~RegexFails(results[j])
          /\ visible' = [j \in DOMAIN results |-> LineMatches(results[j])]
          /\ pc' = IF curses THEN "loop"
                             ELSE IF cmd.raw THEN "print" ELSE "init"
    /\ UNCHANGED <<setting, search, start_with_prompt, listing, shown, curses,
                   printed>>

PrintResults ==
    /\ pc = "print"
    /\ printed' = VisibleResults
    /\ pc' = "exit"
    /\ UNCHANGED <<setting, visible, search, start_with_prompt, listing,
                   shown, curses>>

-----------------------------------------------------------------------------
(* The pager: _pager.                                                      *)

InitCurses ==
    /\ pc = "init"
    /\ curses' = TRUE
    /\ pc' = "loop"
    /\ UNCHANGED <<setting, visible, search, start_with_prompt, listing,
                   shown, printed>>

\* keyword_prompt up to getnstr: its refresh shows what has been drawn.
KeywordPrompt(screen) ==
    /\ pc' = "getnstr"
    /\ shown' = screen
    /\ UNCHANGED <<setting, visible, keywords, asked, i, top_offset, curses,
                   printed>>

\* The first turn of prompt: clear, and ask for keywords.
PromptFirst ==
    /\ pc = "loop" /\ start_with_prompt
    /\ start_with_prompt' = FALSE
    /\ drawn' = {}
    /\ KeywordPrompt({})
    /\ UNCHANGED searches

\* getnstr returns on a newline or, with what was typed so far, when the time
\* is up; keywords_load_from_char replaces the keywords.
ReadKeywords ==
    /\ pc = "getnstr"
    /\ \E s \in Searches : keywords' = s /\ asked' = s
    /\ pc' = "filter"
    /\ UNCHANGED <<setting, visible, searches, start_with_prompt, listing,
                   shown, curses, printed>>

TooMany ==
    \/ ResultsVisibleLength >= window.height
    \/ ResultsVisibleLength >= ResultsMaxLen

\* Mutant of RefreshListing: the return after the message is missing.
RefreshListingGoesOn ==
    /\ pc = "loop" /\ ~start_with_prompt
    /\ drawn' = {} /\ shown' = {}
    /\ i' = 1
    /\ top_offset' = (window.height - ResultsVisibleLength) \div 2
    /\ pc' = "place"
    /\ UNCHANGED <<setting, visible, search, start_with_prompt, curses,
                   printed>>

\* clear, and refresh_listing up to its loop, or its "too many" message.
RefreshListing ==
    /\ pc = "loop" /\ ~start_with_prompt
    /\ drawn' = {}
    /\ \/ /\ TooMany
          /\ shown' = {}
          /\ pc' = "getch"
          /\ UNCHANGED <<i, top_offset>>
       \/ /\ ~TooMany
          /\ i' = 1
          /\ top_offset' = (window.height - ResultsVisibleLength) \div 2
          /\ pc' = "place"
          /\ UNCHANGED shown
    /\ UNCHANGED <<setting, visible, search, start_with_prompt, curses,
                   printed>>

LeftOffset ==
    IF window.width < GetMaxLength THEN 0
    ELSE (window.width - GetMaxLength) \div 2

\* Mutant of Wrapped: the rows of a long line are not counted.
WrappedNever(l) == 0

\* Rows a result takes beyond its first, as the code counts them: from its
\* length in characters.
Wrapped(l) == IF l.length > window.width THEN l.length \div window.width ELSE 0

\* One turn of the loop: waddstr writes on from where wmove went, over the
\* rows that the columns of the result take (RowsOf).
PlaceResult ==
    /\ pc = "place" /\ i <= Len(results)
    /\ i' = i + 1
    /\ IF visible[i]
         THEN /\ drawn' = drawn \cup {[line |-> i, row |-> top_offset,
                                       col |-> LeftOffset,
                                       moved |-> top_offset < window.height]}
              /\ top_offset' = top_offset + Wrapped(results[i]) + 1
         ELSE UNCHANGED <<drawn, top_offset>>
    /\ UNCHANGED <<setting, visible, search, pc, start_with_prompt, shown,
                   curses, printed>>

\* The refresh at the end of the listing.
ShowListing ==
    /\ pc = "place" /\ i > Len(results)
    /\ shown' = drawn
    /\ pc' = "getch"
    /\ UNCHANGED <<setting, visible, search, start_with_prompt, listing,
                   curses, printed>>

\* The user presses `/': nothing is cleared before the prompt.
Slash ==
    /\ pc = "getch"
    /\ searches < MaxSearches
    /\ searches' = searches + 1
    /\ KeywordPrompt(drawn)
    /\ UNCHANGED <<drawn, start_with_prompt>>

AnyKey ==
    /\ pc = "getch"
    /\ pc' = "shutdown"
    /\ UNCHANGED <<setting, visible, search, start_with_prompt, listing,
                   shown, curses, printed>>

\* Mutant of TimeIsUp: the loop goes on when getch returns ERR.
TimeIsUpAgain ==
    /\ pc = "getch" /\ Delay >= 0
    /\ pc' = "loop"
    /\ UNCHANGED <<setting, visible, search, start_with_prompt, listing,
                   shown, curses, printed>>

\* getch returns ERR; with a negative delay it waits for ever.
TimeIsUp ==
    /\ pc = "getch" /\ Delay >= 0
    /\ pc' = "shutdown"
    /\ UNCHANGED <<setting, visible, search, start_with_prompt, listing,
                   shown, curses, printed>>

\* shutdown_curses: clear, refresh and endwin.
LeaveCurses == pc' = "exit" /\ drawn' = {} /\ shown' = {} /\ curses' = FALSE

ShutdownCurses ==
    /\ pc = "shutdown"
    /\ LeaveCurses
    /\ UNCHANGED <<setting, visible, search, start_with_prompt, i, top_offset,
                   printed>>

\* SIGWINCH, at any time: resize shuts curses down and exits.
Resize ==
    /\ curses /\ pc # "exit"
    /\ LeaveCurses
    /\ UNCHANGED <<setting, visible, search, start_with_prompt, i, top_offset,
                   printed>>

-----------------------------------------------------------------------------
\* The steps that the program takes without the user, the end of the time
\* that getch and getnstr wait included.
Program ==
    \/ LoadFromArgv \/ StartPrompt \/ FilterResults \/ PrintResults
    \/ InitCurses \/ PromptFirst \/ RefreshListing \/ PlaceResult \/ ShowListing
    \/ ShutdownCurses \/ TimeIsUp
    \/ Delay >= 0 /\ ReadKeywords

Next == Program \/ ReadKeywords \/ Slash \/ AnyKey \/ Resize

\* The program runs and clocks advance; nothing is assumed of the user.
Spec == Init /\ [][Next]_vars /\ WF_vars(Program)

-----------------------------------------------------------------------------
(* Properties.                                                             *)

\* What a search asks for, over all the results.
Wanted(s) ==
    {j \in DOMAIN results : /\ ~results[j].comment
                            /\ \A n \in DOMAIN s : s[n] \in results[j].matches}

\* However many searches went before, a listing or a print holds exactly the
\* lines that the last keywords ask for, or nothing when they are too many
\* for the window (filter_results, keywords_load_from_char, refresh_listing).
ListingMatches ==
    /\ pc = "getch" =>
         {d.line : d \in shown} =
            IF \/ Cardinality(Wanted(asked)) >= window.height
               \/ Cardinality(Wanted(asked)) >= ResultsMaxLen
              THEN {} ELSE Wanted(asked)
    /\ pc = "exit" => printed \in {{}, Wanted(asked)}

\* Rows that a placed result takes on the terminal, which counts columns.
RowsOf(d) ==
    LET columns == d.col + results[d.line].columns
    IN  IF columns = 0 THEN 1
        ELSE (columns + window.width - 1) \div window.width

\* A result that takes no more columns than it has characters: one without
\* tabs and wide characters.  The code counts characters, so that others may
\* be written over, those of mdp add included, with a tab before the password.
Countable(d) == results[d.line].columns <= results[d.line].length

\* No such result is written over by a later one, wrapped lines included,
\* whatever else is listed; and when none is longer than the window is wide,
\* each has a place of its own inside the window (refresh_listing).  With
\* longer ones the last results may run on.
ListingFits ==
    /\ \A d, e \in shown :
         d.line < e.line /\ e.moved /\ Countable(d) => d.row + RowsOf(d) <= e.row
    /\ (\A d \in shown : results[d.line].length <= window.width) =>
         \A d \in shown :
           /\ d.moved
           /\ Countable(d) => d.col + results[d.line].columns <= window.width

\* The timeouts that fit an int in milliseconds.
ShortTimeouts == {t \in Timeouts : 2 * t * 1000 < Word}

\* Get and prompt end by themselves when the user goes away, after whatever
\* searches, as long as the timeout fits an int (init_curses, _pager).
PagerEnds == (pc = "start" /\ cfg_timeout \in ShortTimeouts) ~> pc = "exit"

-----------------------------------------------------------------------------
(* What the comments say, where the code disagrees.                        *)

\* "Just in case we error'd out somewhere during the pager": every way out of
\* the program takes the passwords off the terminal (cleanup).
NothingLeftOnScreen == pc = "exit" => shown = {}

-----------------------------------------------------------------------------
(* What the proofs need besides.                                           *)

Filtered == \A j \in DOMAIN results : visible[j] = LineMatches(results[j])

\* The visible flags are those of the last keywords, except between the start
\* or a prompt and the filter that follows it.
SearchInv ==
    /\ keywords = asked
    /\ pc = "start" => start_with_prompt = (cmd.name = "prompt")
    /\ pc \in {"print", "place", "getch"} => Filtered
    /\ pc \in {"init", "loop"} /\ ~start_with_prompt => Filtered
    /\ pc # "exit" => printed = {}
    /\ pc = "exit" => printed \in {{}, Wanted(asked)}

\* The visible results that the loop of refresh_listing has passed.
Placed == {j \in VisibleResults : j < i}

\* The loop is reached only when the window has the rows.
RoomInv == pc = "place" => ~TooMany

\* What is drawn amid the listing, and that all of it is shown at the end.
DrawnInv ==
    /\ pc = "place" => {d.line : d \in drawn} = Placed
    /\ pc = "getch" =>
         {d.line : d \in drawn} = IF TooMany THEN {} ELSE VisibleResults
    /\ pc = "getch" => shown = drawn

\* The placements in S keep apart, as ListingFits has it of those shown.
Apart(S) ==
    \A d, e \in S : d.line < e.line /\ Countable(d) => d.row + RowsOf(d) <= e.row
Narrow(S) == \A d \in S : results[d.line].length <= window.width
Inside(S) ==
    Narrow(S) =>
      \A d \in S :
        /\ d.moved
        /\ Countable(d) => d.col + results[d.line].columns <= window.width

\* The next result goes below those drawn, and as many rows down as there are
\* if none of them is wider than the window.
PlaceInv ==
    /\ Apart(drawn) /\ Apart(shown)
    /\ Inside(drawn) /\ Inside(shown)
    /\ pc = "place" =>
         /\ \A d \in drawn : Countable(d) => d.row + RowsOf(d) <= top_offset
         /\ Narrow(drawn) =>
              top_offset = (window.height - ResultsVisibleLength) \div 2
                             + Cardinality(Placed)

=============================================================================
