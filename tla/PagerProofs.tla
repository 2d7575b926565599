----------------------------- MODULE PagerProofs -----------------------------
(***************************************************************************)
(* Proofs about Pager, for any results, keywords, windows and timeouts:    *)
(* the types, that a listing holds what the last keywords ask for, and     *)
(* that results keep apart and inside the window.  The argument goes in    *)
(* three layers, each used by the next: the types, the visible flags and   *)
(* what is drawn (SearchInv, DrawnInv), and where it is drawn (PlaceInv).  *)
(***************************************************************************)
EXTENDS Pager, Inductions, FiniteSetTheorems, TLAPS

-----------------------------------------------------------------------------
(* Bounds.                                                                 *)

\* The values of a function on 1..n have a bound.
LEMMA Bounded ==
  ASSUME NEW n \in Nat, NEW f, \A j \in 1..n : f[j] \in Nat
  PROVE  \E b \in Nat : \A j \in 1..n : f[j] <= b
<1> DEFINE Bad == {m \in 0..n : \A b \in Nat : \E j \in 1..m : ~(f[j] <= b)}
<1>1. SUFFICES Bad = {}
  <2>1. n \notin Bad
    BY <1>1
  <2> QED
    BY <2>1
<1>2. SUFFICES ASSUME Bad # {} PROVE FALSE
  OBVIOUS
<1>3. \A m \in Bad : m \in Nat
  OBVIOUS
<1>4. PICK m \in Bad : \A k \in Bad : m <= k
  <2> HIDE DEF Bad
  <2> QED BY <1>2, <1>3, LeastNat
<1>5. m \in 0..n /\ \A b \in Nat : \E j \in 1..m : ~(f[j] <= b)
  OBVIOUS
<1>6. m # 0
  <2>1. \A j \in 1..0 : FALSE
    OBVIOUS
  <2> QED BY <1>5, <2>1
<1>7. m - 1 \in 0..n /\ m - 1 \notin Bad
  <2>1. m \in Nat /\ m - 1 \in 0..n
    BY <1>5, <1>6
  <2>2. ~(m <= m - 1)
    BY <2>1
  <2> HIDE DEF Bad
  <2> QED BY <1>4, <2>1, <2>2
<1>8. PICK b \in Nat : \A j \in 1..(m - 1) : f[j] <= b
  BY <1>7
<1>9. f[m] \in Nat
  BY <1>5, <1>6
<1>10. \A j \in 1..m : f[j] <= b + f[m]
  <2>1. SUFFICES ASSUME NEW j \in 1..m PROVE f[j] <= b + f[m]
    OBVIOUS
  <2>2. CASE j = m
    BY <2>2, <1>9
  <2>3. CASE j # m
    <3>1. j \in 1..(m - 1) /\ j \in 1..n
      BY <2>3, <1>5
    <3>2. f[j] \in Nat /\ f[j] <= b
      BY <3>1, <1>8
    <3> QED BY <3>2, <1>9
  <2> QED BY <2>2, <2>3
<1>11. b + f[m] \in Nat
  BY <1>9
<1> QED
  BY <1>5, <1>10, <1>11

-----------------------------------------------------------------------------
(* Types, and what the operators of the listing return.                    *)

\* Windows and results, as the assumptions describe them.
LEMMA WindowType ==
  ASSUME TypeOK
  PROVE  /\ window.height \in Nat /\ window.width \in Nat
         /\ window.height > 0 => window.width > 0
  BY WindowsAssumption DEF TypeOK

\* Results are as many as there is room for, and have a length.
LEMMA ResultType ==
  ASSUME TypeOK
  PROVE  /\ Len(results) \in 0..MaxResults
         /\ DOMAIN results = 1..Len(results)
         /\ \A j \in DOMAIN results : /\ results[j] \in Lines
                                      /\ results[j].length \in Nat
                                      /\ results[j].columns \in Nat
                                      /\ results[j].comment \in BOOLEAN
<1>1. results \in Seq(Lines) /\ Len(results) <= MaxResults
  BY DEF TypeOK
<1>2. Len(results) \in 0..MaxResults /\ DOMAIN results = 1..Len(results)
  BY <1>1, BoundsAssumption
<1>3. \A j \in DOMAIN results : results[j] \in Lines
  BY <1>1
<1> QED
  BY <1>2, <1>3, LinesAssumption

\* The number of visible results is a number.
LEMMA VisibleFinite ==
  ASSUME TypeOK
  PROVE  IsFiniteSet(VisibleResults) /\ ResultsVisibleLength \in Nat
<1>1. DOMAIN results = 1..Len(results) /\ Len(results) \in Nat
  BY ResultType
<1>2. VisibleResults \in SUBSET (1..Len(results))
  BY <1>1 DEF VisibleResults
<1>3. IsFiniteSet(1..Len(results))
  BY <1>1, FS_Interval
<1>4. IsFiniteSet(VisibleResults)
  BY <1>2, <1>3, FS_Subset
<1> QED
  BY <1>4, FS_CardinalityType DEF ResultsVisibleLength

\* get_max_length returns a length that no visible result exceeds.
LEMMA MaxLength ==
  ASSUME TypeOK
  PROVE  /\ GetMaxLength \in Nat
         /\ \A j \in VisibleResults : results[j].length <= GetMaxLength
<1> DEFINE L == {results[j].length : j \in VisibleResults} \cup {0}
           f == [j \in DOMAIN results |-> results[j].length]
<1>1. /\ Len(results) \in Nat /\ DOMAIN results = 1..Len(results)
      /\ \A j \in DOMAIN results : results[j].length \in Nat
  BY ResultType
<1>2. \A j \in 1..Len(results) : f[j] \in Nat
  BY <1>1
<1>3. PICK b \in Nat : \A j \in 1..Len(results) : f[j] <= b
  <2> HIDE DEF f
  <2> QED BY <1>1, <1>2, Bounded
<1>4. \A j \in VisibleResults :
        j \in DOMAIN results /\ results[j].length \in Nat
                             /\ results[j].length <= b
  BY <1>1, <1>3 DEF VisibleResults
<1>5. L \in SUBSET Nat /\ L # {}
  BY <1>4
<1>6. \A x \in L : x <= b
  BY <1>4
<1>7. \E m \in L : \A x \in L : x <= m
  <2> HIDE DEF L
  <2> QED BY <1>3, <1>5, <1>6, GreatestNat
<1>8. GetMaxLength = CHOOSE m \in L : \A x \in L : x <= m
  BY DEF GetMaxLength
<1>9. GetMaxLength \in L /\ \A x \in L : x <= GetMaxLength
  <2> HIDE DEF L
  <2> QED BY <1>7, <1>8
<1> QED
  BY <1>5, <1>9

\* left_offset is in the window, and the widest visible result fits there if
\* it fits at all.
LEMMA LeftOffsetType ==
  ASSUME TypeOK
  PROVE  /\ LeftOffset \in Nat
         /\ GetMaxLength <= window.width =>
              LeftOffset + GetMaxLength <= window.width
         /\ GetMaxLength > window.width => LeftOffset = 0
<1>1. GetMaxLength \in Nat /\ window.width \in Nat
  BY MaxLength, WindowType
<1> QED
  BY <1>1 DEF LeftOffset

\* A placement takes a number of rows.
LEMMA RowsType ==
  ASSUME TypeOK, window.width > 0,
         NEW d, d.line \in DOMAIN results, d.col \in Nat
  PROVE  RowsOf(d) \in Nat
<1> DEFINE c == d.col + results[d.line].columns
<1>1. c \in Nat /\ window.width \in Nat
  BY ResultType, WindowType
<1>2. \A x, w \in Nat : w > 0 => (x + w - 1) \div w \in Nat
  BY SMTT(30)
<1>3. RowsOf(d) = IF c = 0 THEN 1 ELSE (c + window.width - 1) \div window.width
  BY DEF RowsOf
<1> HIDE DEF c
<1> QED
  BY <1>1, <1>2, <1>3

\* Division rounded up exceeds no division rounded down by more than one.
LEMMA RowsBound ==
  ASSUME NEW c \in Nat, NEW l \in Nat, NEW w \in Nat, w > 0, c <= l
  PROVE  /\ (c + w - 1) \div w <= l \div w + 1
         /\ l <= w /\ c > 0 => (c + w - 1) \div w = 1
<1>1. (c + w - 1) \div w <= (l + w - 1) \div w
  BY SMTT(30)
<1>2. (l + w - 1) \div w <= l \div w + 1
  BY SMTT(30)
<1>3. c > 0 /\ c <= w => (c + w - 1) \div w = 1
  BY SMTT(30)
<1>4. /\ (c + w - 1) \div w \in Int /\ (l + w - 1) \div w \in Int
      /\ l \div w \in Int
  BY SMTT(30)
<1> QED
  BY <1>1, <1>2, <1>3, <1>4

\* The rows that the code counts are enough for a visible result that takes no
\* more columns than it has characters.
LEMMA WrappedEnough ==
  ASSUME TypeOK, window.width > 0, NEW j \in VisibleResults,
         NEW d, d.line = j, d.col = LeftOffset
  PROVE  /\ Wrapped(results[j]) \in Nat
         /\ RowsOf(d) \in Nat
         /\ Countable(d) => RowsOf(d) <= Wrapped(results[j]) + 1
         /\ results[j].length <= window.width => Wrapped(results[j]) = 0
<1> DEFINE l == results[j].length
           c == LeftOffset + results[j].columns
           w == window.width
           up == (c + w - 1) \div w
<1>1. /\ j \in DOMAIN results /\ l \in Nat /\ results[j].columns \in Nat
      /\ w \in Nat /\ w > 0
      /\ LeftOffset \in Nat /\ GetMaxLength \in Nat /\ l <= GetMaxLength
      /\ GetMaxLength <= w => LeftOffset + GetMaxLength <= w
      /\ GetMaxLength > w => LeftOffset = 0
  BY ResultType, WindowType, MaxLength, LeftOffsetType DEF VisibleResults
<1>2. Wrapped(results[j]) = IF l > w THEN l \div w ELSE 0
  BY DEF Wrapped
<1>3. RowsOf(d) = IF c = 0 THEN 1 ELSE up
  BY DEF RowsOf
<1>4. Countable(d) <=> results[j].columns <= l
  BY DEF Countable
<1>5. RowsOf(d) \in Nat
  BY <1>1, RowsType
<1>6. l \div w \in Nat
  <2> HIDE DEF l, w
  <2> QED BY <1>1, SMTT(30)
<1>7. ASSUME results[j].columns <= l
      PROVE  RowsOf(d) <= Wrapped(results[j]) + 1
  <2>1. c \in Nat
    BY <1>1
  <2>2. CASE l <= w
    <3>1. c <= w
      BY <1>1, <1>7, <2>2
    <3>2. c > 0 => up = 1
      <4> HIDE DEF c, w
      <4> QED BY <1>1, <2>1, <3>1, RowsBound
    <3>3. c = 0 \/ c > 0
      BY <2>1
    <3>4. RowsOf(d) = 1
      <4> HIDE DEF c, up
      <4> QED BY <1>3, <3>2, <3>3
    <3>5. Wrapped(results[j]) = 0
      <4> HIDE DEF l, w
      <4> QED BY <1>1, <1>2, <2>2
    <3> QED BY <3>4, <3>5
  <2>3. CASE l > w
    <3>1. c <= l
      BY <1>1, <1>7, <2>3
    <3>2. up <= l \div w + 1
      <4> HIDE DEF c, w, l
      <4> QED BY <1>1, <2>1, <3>1, RowsBound
    <3>3. Wrapped(results[j]) = l \div w
      BY <1>2, <2>3
    <3>4. RowsOf(d) = 1 \/ RowsOf(d) = up
      BY <1>3
    <3>5. 1 <= l \div w + 1
      <4> DEFINE q == l \div w
      <4> HIDE DEF q
      <4> QED BY <1>6 DEF q
    <3> HIDE DEF up
    <3> QED BY <3>2, <3>3, <3>4, <3>5
  <2> QED BY <1>1, <2>2, <2>3
<1>8. Wrapped(results[j]) \in Nat /\ (l <= w => Wrapped(results[j]) = 0)
  <2> HIDE DEF l, w
  <2> QED BY <1>1, <1>2, <1>6
<1> QED
  BY <1>4, <1>5, <1>7, <1>8

\* Where a listing starts: a result is only placed in a window.
LEMMA TopOffsetType ==
  ASSUME TypeOK, ~TooMany
  PROVE  /\ (window.height - ResultsVisibleLength) \div 2 \in Nat
         /\ window.height > 0 /\ window.width > 0
<1>1. /\ window.height \in Nat /\ ResultsVisibleLength \in Nat
      /\ window.height > 0 => window.width > 0
  BY WindowType, VisibleFinite
<1>2. window.height > ResultsVisibleLength
  BY <1>1 DEF TooMany
<1> QED
  BY <1>1, <1>2

\* Whether there are too many results only depends on them and the window.
LEMMA TooManyStable ==
  ASSUME UNCHANGED <<results, visible, window>>
  PROVE  (TooMany' <=> TooMany) /\ VisibleResults' = VisibleResults
  BY DEF TooMany, ResultsVisibleLength, VisibleResults

\* No keyword is a search too.
LEMMA SearchesType == <<>> \in Searches
<1>1. <<>> \in [1..0 -> Keywords]
  OBVIOUS
<1>2. 0 \in 0..MaxKeywords
  BY BoundsAssumption
<1> QED
  BY <1>1, <1>2 DEF Searches

\* The types at the start.
LEMMA InitType == Init => TypeOK /\ RoomInv
<1> SUFFICES ASSUME Init PROVE TypeOK /\ RoomInv
  OBVIOUS
<1>1. results \in Seq(Lines) /\ Len(results) <= MaxResults
  <2>1. PICK n \in 1..MaxResults : results \in [1..n -> Lines]
    BY DEF Init
  <2>2. n \in Nat /\ n <= MaxResults
    BY <2>1, BoundsAssumption
  <2> QED BY <2>1, <2>2
<1>2. i \in 1..(MaxResults + 1) /\ searches \in 0..MaxSearches
  BY BoundsAssumption DEF Init
<1> QED
  BY <1>1, <1>2, SearchesType DEF Init, TypeOK, RoomInv

\* The types at every step: RoomInv is what keeps the divisions by the width of
\* the window and the offsets of the listing in range.
LEMMA TypeStep == TypeOK /\ RoomInv /\ [Next]_vars => TypeOK' /\ RoomInv'
<1> SUFFICES ASSUME TypeOK, RoomInv, [Next]_vars
             PROVE  TypeOK' /\ RoomInv'
  OBVIOUS
<1>t. /\ cmd \in [name : {"get", "prompt"}, regex : BOOLEAN, raw : BOOLEAN]
      /\ results \in Seq(Lines) /\ Len(results) <= MaxResults
  BY DEF TypeOK
<1> USE DEF setting, listing, search, RoomInv
<1>1. CASE UNCHANGED vars
  BY <1>1, TooManyStable DEF vars, TypeOK
<1>2. CASE LoadFromArgv
  BY <1>2 DEF LoadFromArgv, TypeOK
<1>3. CASE StartPrompt
  BY <1>3 DEF StartPrompt, TypeOK
<1>4. CASE FilterResults
  <2>1. visible' \in [DOMAIN results' -> BOOLEAN]
    BY <1>4 DEF FilterResults, TypeOK, LineMatches
  <2> QED
    BY <1>4, <2>1 DEF FilterResults, TypeOK
<1>5. CASE PrintResults
  BY <1>5 DEF PrintResults, TypeOK, VisibleResults
<1>6. CASE InitCurses
  BY <1>6 DEF InitCurses, TypeOK
<1>7. CASE PromptFirst
  BY <1>7 DEF PromptFirst, KeywordPrompt, TypeOK
<1>8. CASE RefreshListing
  <2>1. CASE TooMany
    BY <1>8, <2>1 DEF RefreshListing, TypeOK
  <2>2. CASE ~TooMany
    <3>1. top_offset' \in Nat
      BY <1>8, <2>2, TopOffsetType DEF RefreshListing
    <3>2. i' \in 1..(MaxResults + 1)
      BY <1>8, <2>2, BoundsAssumption DEF RefreshListing
    <3>3. ~TooMany'
      BY <1>8, <2>2, TooManyStable DEF RefreshListing
    <3> QED
      BY <1>8, <2>2, <3>1, <3>2, <3>3 DEF RefreshListing, TypeOK
  <2> QED BY <2>1, <2>2
<1>9. CASE PlaceResult
  <2>1. i \in DOMAIN results /\ i \in 1..MaxResults
    BY <1>9, ResultType, BoundsAssumption DEF PlaceResult, TypeOK
  <2>2. ~TooMany /\ ~TooMany'
    BY <1>9, TooManyStable DEF PlaceResult
  <2>3. LeftOffset \in Nat /\ Wrapped(results[i]) \in Nat
    <3>1. \A l, w \in Nat : w > 0 => l \div w \in Nat
      BY SMTT(30)
    <3>2. /\ results[i].length \in Nat /\ window.width \in Nat
          /\ window.width > 0
      BY <2>1, <2>2, ResultType, WindowType, TopOffsetType
    <3> QED BY <3>1, <3>2, LeftOffsetType DEF Wrapped
  <2>4. top_offset \in Nat /\ top_offset + Wrapped(results[i]) + 1 \in Nat
    BY <2>3 DEF TypeOK
  <2>5. [line |-> i, row |-> top_offset, col |-> LeftOffset,
         moved |-> top_offset < window.height] \in Placements
    BY <2>1, <2>3, <2>4, WindowType DEF Placements
  <2>6. i' \in 1..(MaxResults + 1)
    BY <1>9, <2>1, BoundsAssumption DEF PlaceResult
  <2> QED
    BY <1>9, <2>2, <2>4, <2>5, <2>6 DEF PlaceResult, TypeOK
<1>10. CASE ShowListing
  BY <1>10 DEF ShowListing, TypeOK
<1>11. CASE ShutdownCurses
  BY <1>11 DEF ShutdownCurses, LeaveCurses, TypeOK
<1>12. CASE TimeIsUp
  BY <1>12 DEF TimeIsUp, TypeOK
<1>13. CASE ReadKeywords
  BY <1>13 DEF ReadKeywords, TypeOK
<1>14. CASE Slash
  BY <1>14, BoundsAssumption DEF Slash, KeywordPrompt, TypeOK
<1>15. CASE AnyKey
  BY <1>15 DEF AnyKey, TypeOK
<1>16. CASE Resize
  BY <1>16 DEF Resize, LeaveCurses, TypeOK
<1> QED
  BY <1>1, <1>2, <1>3, <1>4, <1>5, <1>6, <1>7, <1>8, <1>9, <1>10, <1>11,
     <1>12, <1>13, <1>14, <1>15, <1>16
  DEF Next, Program

\* The variables of Pager keep their types, the row where refresh_listing
\* places the next result included: it never starts above the window.
THEOREM PagerTypes == Spec => []TypeOK
<1>1. TypeOK /\ RoomInv /\ [Next]_vars => (TypeOK /\ RoomInv)'
  BY TypeStep
<1> QED
  BY <1>1, InitType, PTL DEF Spec

-----------------------------------------------------------------------------
(* The visible flags and the listing.                                      *)

\* filter_results makes visible what the last keywords ask for.
LEMMA FilteredIsWanted ==
  ASSUME TypeOK, Filtered, keywords = asked
  PROVE  VisibleResults = Wanted(asked)
  BY DEF TypeOK, Filtered, VisibleResults, Wanted, LineMatches

\* The flags are right at every step that uses them.
LEMMA SearchStep == TypeOK /\ SearchInv /\ [Next]_vars => SearchInv'
<1> SUFFICES ASSUME TypeOK, SearchInv, [Next]_vars
             PROVE  SearchInv'
  OBVIOUS
<1>f. ASSUME UNCHANGED <<results, visible, keywords>>
      PROVE  Filtered' <=> Filtered
  BY <1>f DEF Filtered, LineMatches
<1>w. ASSUME UNCHANGED <<results, asked>>
      PROVE  Wanted(asked)' = Wanted(asked)
  BY <1>w DEF Wanted
<1> USE DEF setting, listing, search, SearchInv
<1>1. CASE UNCHANGED vars
  BY <1>1, <1>f, <1>w DEF vars
<1>2. CASE LoadFromArgv
  BY <1>2 DEF LoadFromArgv
<1>3. CASE StartPrompt
  BY <1>3 DEF StartPrompt
<1>4. CASE FilterResults
  <2>1. CASE visible' = [j \in DOMAIN results |-> LineMatches(results[j])]
    BY <1>4, <2>1 DEF FilterResults, Filtered, LineMatches
  <2>2. CASE pc' = "exit"
    BY <1>4, <2>2 DEF FilterResults
  <2> QED BY <1>4, <2>1, <2>2 DEF FilterResults
<1>5. CASE PrintResults
  BY <1>5, <1>w, FilteredIsWanted DEF PrintResults
<1>6. CASE InitCurses
  BY <1>6, <1>f DEF InitCurses
<1>7. CASE PromptFirst
  BY <1>7 DEF PromptFirst, KeywordPrompt
<1>8. CASE RefreshListing
  BY <1>8, <1>f DEF RefreshListing
<1>9. CASE PlaceResult
  BY <1>9, <1>f DEF PlaceResult
<1>10. CASE ShowListing
  BY <1>10, <1>f DEF ShowListing
<1>11. CASE ShutdownCurses
  BY <1>11 DEF ShutdownCurses, LeaveCurses
<1>12. CASE TimeIsUp
  BY <1>12 DEF TimeIsUp
<1>13. CASE ReadKeywords
  BY <1>13 DEF ReadKeywords
<1>14. CASE Slash
  BY <1>14 DEF Slash, KeywordPrompt
<1>15. CASE AnyKey
  BY <1>15 DEF AnyKey
<1>16. CASE Resize
  BY <1>16 DEF Resize, LeaveCurses
<1> QED
  BY <1>1, <1>2, <1>3, <1>4, <1>5, <1>6, <1>7, <1>8, <1>9, <1>10, <1>11,
     <1>12, <1>13, <1>14, <1>15, <1>16
  DEF Next, Program

\* What is drawn at every turn of the loop, and shown at its end.
LEMMA DrawnStep ==
  TypeOK /\ RoomInv /\ DrawnInv /\ [Next]_vars => DrawnInv'
<1> SUFFICES ASSUME TypeOK, RoomInv, DrawnInv, [Next]_vars
             PROVE  DrawnInv'
  OBVIOUS
<1>p. ASSUME UNCHANGED <<results, visible, i>>
      PROVE  Placed' = Placed
  BY <1>p DEF Placed, VisibleResults
<1> USE DEF setting, listing, search, DrawnInv
<1>1. CASE UNCHANGED vars
  BY <1>1, <1>p, TooManyStable DEF vars
<1>2. CASE LoadFromArgv
  BY <1>2 DEF LoadFromArgv
<1>3. CASE StartPrompt
  BY <1>3 DEF StartPrompt
<1>4. CASE FilterResults
  BY <1>4 DEF FilterResults
<1>5. CASE PrintResults
  BY <1>5 DEF PrintResults
<1>6. CASE InitCurses
  BY <1>6 DEF InitCurses
<1>7. CASE PromptFirst
  BY <1>7 DEF PromptFirst, KeywordPrompt
<1>8. CASE RefreshListing
  <2>1. TooMany' <=> TooMany
    BY <1>8, TooManyStable DEF RefreshListing
  <2>2. CASE TooMany
    BY <1>8, <2>1, <2>2 DEF RefreshListing
  <2>3. CASE ~TooMany
    <3>1. \A x \in VisibleResults' : x \in 1..Len(results)
      BY <1>8, ResultType DEF RefreshListing, VisibleResults
    <3>2. Placed' = {}
      BY <1>8, <2>3, <3>1, ResultType DEF RefreshListing, Placed
    <3> QED
      BY <1>8, <2>3, <3>2 DEF RefreshListing
  <2> QED BY <2>2, <2>3
<1>9. CASE PlaceResult
  <2>1. i \in DOMAIN results /\ i \in Nat
    BY <1>9, ResultType, BoundsAssumption DEF PlaceResult, TypeOK
  <2>2. VisibleResults' = VisibleResults
    BY <1>9, TooManyStable DEF PlaceResult
  <2>3. \A x \in VisibleResults : x \in Nat
    BY ResultType DEF VisibleResults
  <2>4. \A x \in VisibleResults : x < i + 1 <=> x < i \/ x = i
    BY <2>1, <2>3
  <2>5. CASE visible[i]
    <3>1. i \in VisibleResults
      BY <2>1, <2>5 DEF VisibleResults
    <3>2. Placed' = Placed \cup {i}
      BY <1>9, <2>2, <2>4, <3>1 DEF PlaceResult, Placed
    <3> DEFINE p == [line |-> i, row |-> top_offset, col |-> LeftOffset,
                     moved |-> top_offset < window.height]
    <3>3. drawn' = drawn \cup {p} /\ p.line = i
      BY <1>9, <2>5 DEF PlaceResult
    <3>4. {d.line : d \in drawn'} = {d.line : d \in drawn} \cup {i}
      <4> HIDE DEF p
      <4> QED BY <3>3
    <3> QED
      BY <1>9, <3>2, <3>4 DEF PlaceResult
  <2>6. CASE ~visible[i]
    <3>1. i \notin VisibleResults
      BY <2>6 DEF VisibleResults
    <3>2. Placed' = Placed
      BY <1>9, <2>2, <2>4, <3>1 DEF PlaceResult, Placed
    <3> QED
      BY <1>9, <2>6, <3>2 DEF PlaceResult
  <2> QED BY <2>5, <2>6
<1>10. CASE ShowListing
  <2>1. i \in Nat /\ \A x \in VisibleResults : x \in Nat /\ x <= Len(results)
    BY ResultType, BoundsAssumption DEF VisibleResults, TypeOK
  <2>2. Placed = VisibleResults
    BY <1>10, <2>1, ResultType DEF ShowListing, Placed
  <2>3. ~TooMany' /\ VisibleResults' = VisibleResults
    BY <1>10, TooManyStable DEF ShowListing, RoomInv
  <2> QED
    BY <1>10, <2>2, <2>3 DEF ShowListing
<1>11. CASE ShutdownCurses
  BY <1>11 DEF ShutdownCurses, LeaveCurses
<1>12. CASE TimeIsUp
  BY <1>12 DEF TimeIsUp
<1>13. CASE ReadKeywords
  BY <1>13 DEF ReadKeywords
<1>14. CASE Slash
  BY <1>14 DEF Slash, KeywordPrompt
<1>15. CASE AnyKey
  BY <1>15 DEF AnyKey
<1>16. CASE Resize
  BY <1>16 DEF Resize, LeaveCurses
<1> QED
  BY <1>1, <1>2, <1>3, <1>4, <1>5, <1>6, <1>7, <1>8, <1>9, <1>10, <1>11,
     <1>12, <1>13, <1>14, <1>15, <1>16
  DEF Next, Program

\* The invariants above imply what ListingMatches says.
LEMMA ListingFromDrawn ==
  TypeOK /\ SearchInv /\ DrawnInv => ListingMatches
<1> SUFFICES ASSUME TypeOK, SearchInv, DrawnInv
             PROVE  ListingMatches
  OBVIOUS
<1>1. CASE pc = "getch"
  <2>1. VisibleResults = Wanted(asked)
    BY <1>1, FilteredIsWanted DEF SearchInv
  <2>2. TooMany <=> \/ Cardinality(Wanted(asked)) >= window.height
                    \/ Cardinality(Wanted(asked)) >= ResultsMaxLen
    BY <2>1 DEF TooMany, ResultsVisibleLength
  <2> QED
    BY <1>1, <2>1, <2>2 DEF DrawnInv, ListingMatches
<1>2. CASE pc # "getch"
  BY <1>2 DEF SearchInv, ListingMatches
<1> QED
  BY <1>1, <1>2

\* Every listing and every print of get and prompt holds exactly the lines that
\* the last keywords ask for, or nothing when they are too many, after any
\* searches, for any lines, keywords and window (filter_results,
\* keywords_load_from_char, refresh_listing, print_results).
THEOREM ListingsMatch == Spec => []ListingMatches
<1> DEFINE I == TypeOK /\ RoomInv /\ SearchInv /\ DrawnInv
<1>1. Init => I
  BY InitType DEF Init, SearchInv, DrawnInv
<1>2. I /\ [Next]_vars => I'
  BY TypeStep, SearchStep, DrawnStep
<1>3. I => ListingMatches
  BY ListingFromDrawn
<1> QED
  BY <1>1, <1>2, <1>3, PTL DEF Spec

-----------------------------------------------------------------------------
(* Where the results go.                                                   *)

\* What is drawn or shown keeps apart and inside, when nothing is added.
LEMMA PlacesStable ==
  ASSUME PlaceInv, UNCHANGED <<results, window>>,
         drawn' \in {{}, drawn}, shown' \in {{}, shown, drawn}
  PROVE  /\ Apart(drawn)' /\ Apart(shown)'
         /\ Inside(drawn)' /\ Inside(shown)'
<1>1. \A S : /\ Apart(S) => Apart(S)'
             /\ Inside(S) => Inside(S)'
  BY DEF Apart, Inside, Narrow, RowsOf, Countable
<1> QED
  BY <1>1 DEF Apart, Inside, Narrow, RowsOf, Countable, PlaceInv

\* The visible results before i, one of which may be added.
LEMMA PlacedFinite ==
  ASSUME TypeOK
  PROVE  /\ IsFiniteSet(Placed) /\ Cardinality(Placed) \in Nat
         /\ i \in VisibleResults =>
              /\ Cardinality(Placed \cup {i}) = Cardinality(Placed) + 1
              /\ Cardinality(Placed) + 1 <= ResultsVisibleLength
<1>1. Placed \in SUBSET VisibleResults /\ i \notin Placed
  <2>1. \A x \in VisibleResults : x \in Nat
    BY ResultType DEF VisibleResults
  <2>2. i \in Nat
    BY BoundsAssumption DEF TypeOK
  <2> QED BY <2>1, <2>2 DEF Placed
<1>2. IsFiniteSet(VisibleResults)
  BY VisibleFinite
<1>3. IsFiniteSet(Placed)
  BY <1>1, <1>2, FS_Subset
<1>4. Cardinality(Placed \cup {i}) = Cardinality(Placed) + 1
  BY <1>1, <1>3, FS_AddElement
<1>5. ASSUME i \in VisibleResults
      PROVE  Cardinality(Placed \cup {i}) <= ResultsVisibleLength
  <2>1. (Placed \cup {i}) \in SUBSET VisibleResults
    BY <1>1, <1>5
  <2> QED
    BY <1>2, <2>1, FS_Subset DEF ResultsVisibleLength
<1> QED
  BY <1>3, <1>4, <1>5, FS_CardinalityType

\* One turn of the loop of refresh_listing, for a visible result.
LEMMA PlaceOne ==
  ASSUME TypeOK, RoomInv, DrawnInv, PlaceInv, PlaceResult, visible[i]
  PROVE  /\ Apart(drawn') /\ Inside(drawn')
         /\ \A d \in drawn' : Countable(d) => d.row + RowsOf(d) <= top_offset'
         /\ Narrow(drawn') =>
              top_offset' = (window.height - ResultsVisibleLength) \div 2
                              + Cardinality(Placed \cup {i})
<1> DEFINE p == [line |-> i, row |-> top_offset, col |-> LeftOffset,
                 moved |-> top_offset < window.height]
           r == RowsOf(p)
<1>1. /\ drawn' = drawn \cup {p}
      /\ p.line = i /\ p.row = top_offset /\ p.col = LeftOffset
      /\ p.moved = (top_offset < window.height)
  BY DEF PlaceResult
<1>2. top_offset' = top_offset + Wrapped(results[i]) + 1
  BY DEF PlaceResult
<1>3. pc = "place" /\ ~TooMany /\ i \in DOMAIN results /\ i \in Nat
  BY ResultType, BoundsAssumption DEF PlaceResult, TypeOK, RoomInv
<1>4. i \in VisibleResults
  BY <1>3 DEF VisibleResults
<1>5. /\ window.height \in Nat /\ window.width \in Nat /\ window.width > 0
      /\ top_offset \in Nat /\ ResultsVisibleLength \in Nat
      /\ ResultsVisibleLength < window.height
  BY <1>3, WindowType, TopOffsetType, VisibleFinite DEF TypeOK, TooMany
<1>6. /\ Wrapped(results[i]) \in Nat /\ r \in Nat
      /\ Countable(p) => r <= Wrapped(results[i]) + 1
      /\ results[i].length <= window.width => Wrapped(results[i]) = 0
  BY <1>1, <1>4, <1>5, WrappedEnough
<1>7. \A d \in drawn : /\ d.line \in VisibleResults /\ d.line < i
                       /\ d.row \in Nat /\ RowsOf(d) \in Nat
                       /\ Countable(d) => d.row + RowsOf(d) <= top_offset
  <2>1. SUFFICES ASSUME NEW d \in drawn
                 PROVE  /\ d.line \in VisibleResults /\ d.line < i
                        /\ d.row \in Nat /\ RowsOf(d) \in Nat
                        /\ Countable(d) => d.row + RowsOf(d) <= top_offset
    OBVIOUS
  <2>2. d.line \in Placed
    BY <1>3 DEF DrawnInv
  <2>3. d.line \in VisibleResults /\ d.line < i /\ d.line \in DOMAIN results
    BY <2>2 DEF Placed, VisibleResults
  <2>4. d.row \in Nat /\ d.col \in Nat
    BY DEF TypeOK, Placements
  <2>5. RowsOf(d) \in Nat
    BY <2>3, <2>4, <1>5, RowsType
  <2> QED
    BY <1>3, <2>3, <2>4, <2>5 DEF PlaceInv
<1>8. Apart(drawn')
  <2>1. SUFFICES ASSUME NEW d \in drawn', NEW e \in drawn', d.line < e.line,
                        Countable(d)
                 PROVE  d.row + RowsOf(d) <= e.row
    BY DEF Apart
  <2>2. CASE d \in drawn /\ e \in drawn
    BY <2>1, <2>2 DEF PlaceInv, Apart
  <2>3. CASE d \in drawn /\ e = p
    BY <2>1, <2>3, <1>1, <1>7
  <2>4. CASE d = p
    <3>1. i < e.line
      BY <2>1, <2>4, <1>1
    <3>2. e.line \in Nat /\ (e.line = i \/ e.line < i)
      <4>1. CASE e = p
        BY <4>1, <1>1, <1>3
      <4>2. CASE e \in drawn
        <5>1. e.line \in VisibleResults /\ e.line < i
          BY <4>2, <1>7
        <5> QED BY <5>1, ResultType DEF VisibleResults
      <4> QED BY <1>1, <4>1, <4>2
    <3> QED BY <3>1, <3>2, <1>3
  <2> QED BY <1>1, <2>2, <2>3, <2>4
<1>9. \A d \in drawn' : Countable(d) => d.row + RowsOf(d) <= top_offset'
  <2>1. SUFFICES ASSUME NEW d \in drawn', Countable(d)
                 PROVE  d.row + RowsOf(d) <= top_offset'
    OBVIOUS
  <2>2. CASE d \in drawn
    BY <2>1, <2>2, <1>2, <1>5, <1>6, <1>7
  <2>3. CASE d = p
    BY <2>1, <2>3, <1>1, <1>2, <1>5, <1>6
  <2> QED BY <1>1, <2>2, <2>3
<1>10. Cardinality(Placed) \in Nat
       /\ Cardinality(Placed \cup {i}) = Cardinality(Placed) + 1
       /\ Cardinality(Placed) + 1 <= ResultsVisibleLength
  BY <1>4, PlacedFinite
<1>11. ASSUME Narrow(drawn')
       PROVE  /\ Narrow(drawn) /\ results[i].length <= window.width
              /\ top_offset = (window.height - ResultsVisibleLength) \div 2
                               + Cardinality(Placed)
  <2>1. Narrow(drawn) /\ results[i].length <= window.width
    <3> HIDE DEF p
    <3> QED BY <1>11, <1>1 DEF Narrow
  <2> QED
    BY <1>3, <2>1 DEF PlaceInv
<1>12. Inside(drawn')
  <2>1. SUFFICES ASSUME Narrow(drawn'), NEW d \in drawn'
                 PROVE  /\ d.moved
                        /\ Countable(d) =>
                             d.col + results[d.line].columns <= window.width
    BY DEF Inside
  <2>2. CASE d \in drawn
    BY <2>1, <2>2, <1>11 DEF PlaceInv, Inside
  <2>3. CASE d = p
    <3>1. top_offset < window.height
      BY <2>1, <1>5, <1>10, <1>11
    <3>2. /\ LeftOffset \in Nat /\ GetMaxLength \in Nat
          /\ results[i].length \in Nat /\ results[i].length <= GetMaxLength
          /\ results[i].columns \in Nat
          /\ GetMaxLength <= window.width =>
               LeftOffset + GetMaxLength <= window.width
          /\ GetMaxLength > window.width => LeftOffset = 0
      BY <1>3, <1>4, LeftOffsetType, MaxLength, ResultType
    <3>3. results[i].columns <= results[i].length =>
            LeftOffset + results[i].columns <= window.width
      BY <2>1, <3>2, <1>5, <1>11
    <3> QED
      BY <2>3, <1>1, <3>1, <3>3 DEF Countable
  <2> QED BY <1>1, <2>2, <2>3
<1>13. ASSUME Narrow(drawn')
       PROVE  top_offset' = (window.height - ResultsVisibleLength) \div 2
                              + Cardinality(Placed \cup {i})
  <2>1. (window.height - ResultsVisibleLength) \div 2 \in Nat
    BY <1>3, TopOffsetType
  <2> QED
    BY <1>2, <1>6, <1>10, <1>11, <1>13, <2>1
<1> QED
  BY <1>8, <1>9, <1>12, <1>13

\* The results keep apart and inside the window at every step.
LEMMA PlaceStep ==
  TypeOK /\ RoomInv /\ DrawnInv /\ PlaceInv /\ [Next]_vars => PlaceInv'
<1> SUFFICES ASSUME TypeOK, RoomInv, DrawnInv, PlaceInv, [Next]_vars
             PROVE  PlaceInv'
  OBVIOUS
<1>q. ASSUME UNCHANGED <<results, window>>, pc' # "place",
             drawn' \in {{}, drawn}, shown' \in {{}, shown, drawn}
      PROVE  PlaceInv'
  BY <1>q, PlacesStable DEF PlaceInv
<1> USE DEF setting, listing, search
<1>1. CASE UNCHANGED vars
  <2>1. /\ Narrow(drawn)' <=> Narrow(drawn) /\ Placed' = Placed
        /\ ResultsVisibleLength' = ResultsVisibleLength
        /\ \A d \in drawn : /\ RowsOf(d)' = RowsOf(d)
                            /\ Countable(d)' <=> Countable(d)
    BY <1>1 DEF vars, Narrow, Placed, ResultsVisibleLength, VisibleResults,
                RowsOf, Countable
  <2>2. UNCHANGED <<results, window, drawn, shown, pc, top_offset>>
    BY <1>1 DEF vars
  <2> QED BY <2>1, <2>2, PlacesStable DEF PlaceInv
<1>2. CASE LoadFromArgv
  BY <1>2, <1>q DEF LoadFromArgv
<1>3. CASE StartPrompt
  BY <1>3, <1>q DEF StartPrompt
<1>4. CASE FilterResults
  BY <1>4, <1>q DEF FilterResults
<1>5. CASE PrintResults
  BY <1>5, <1>q DEF PrintResults
<1>6. CASE InitCurses
  BY <1>6, <1>q DEF InitCurses
<1>7. CASE PromptFirst
  BY <1>7, <1>q DEF PromptFirst, KeywordPrompt
<1>8. CASE RefreshListing
  <2>1. CASE TooMany
    BY <1>8, <2>1, <1>q DEF RefreshListing
  <2>2. CASE ~TooMany
    <3>1. /\ drawn' = {} /\ i' = 1
          /\ UNCHANGED <<results, window, visible, shown>>
          /\ top_offset' = (window.height - ResultsVisibleLength) \div 2
      BY <1>8, <2>2 DEF RefreshListing
    <3>2. ResultsVisibleLength' = ResultsVisibleLength
      BY <3>1 DEF ResultsVisibleLength, VisibleResults
    <3>3. Placed' = {}
      BY <3>1, ResultType DEF Placed, VisibleResults
    <3>4. (window.height - ResultsVisibleLength) \div 2 \in Nat
      BY <2>2, TopOffsetType
    <3>5. top_offset' = ((window.height - ResultsVisibleLength) \div 2)'
                          + Cardinality(Placed')
      BY <3>1, <3>2, <3>3, <3>4, FS_EmptySet
    <3> QED
      BY <3>1, <3>5, PlacesStable DEF PlaceInv
  <2> QED BY <2>1, <2>2
<1>9. CASE PlaceResult
  <2>1. /\ UNCHANGED <<results, window, visible, shown>> /\ pc = "place"
        /\ i' = i + 1
    BY <1>9 DEF PlaceResult
  <2>2. /\ ResultsVisibleLength' = ResultsVisibleLength
        /\ VisibleResults' = VisibleResults
        /\ Apart(shown)' /\ Inside(shown)'
    BY <2>1
    DEF ResultsVisibleLength, VisibleResults, PlaceInv, Apart, Inside, Narrow,
        RowsOf, Countable
  <2>3. i \in DOMAIN results /\ i \in Nat
    BY <1>9, ResultType, BoundsAssumption DEF PlaceResult, TypeOK
  <2>4. \A x \in VisibleResults : x < i + 1 <=> x < i \/ x = i
    BY <2>3, ResultType DEF VisibleResults
  <2>5. CASE visible[i]
    <3>1. Placed' = Placed \cup {i}
      BY <2>1, <2>2, <2>3, <2>4, <2>5 DEF Placed, VisibleResults
    <3>2. /\ Apart(drawn)' /\ Inside(drawn)'
          /\ (\A d \in drawn :
                Countable(d) => d.row + RowsOf(d) <= top_offset)'
          /\ Narrow(drawn)' =>
               top_offset' = (window.height - ResultsVisibleLength) \div 2
                               + Cardinality(Placed \cup {i})
      BY <1>9, <2>1, <2>5, PlaceOne
      DEF Apart, Inside, Narrow, RowsOf, Countable
    <3> QED
      BY <2>1, <2>2, <3>1, <3>2 DEF PlaceInv
  <2>6. CASE ~visible[i]
    <3>1. Placed' = Placed
      BY <2>1, <2>2, <2>4, <2>6 DEF Placed, VisibleResults
    <3>2. UNCHANGED <<drawn, top_offset>>
      BY <1>9, <2>6 DEF PlaceResult
    <3>3. /\ Narrow(drawn)' <=> Narrow(drawn)
          /\ \A d \in drawn : /\ RowsOf(d)' = RowsOf(d)
                              /\ Countable(d)' <=> Countable(d)
      BY <2>1, <3>2 DEF Narrow, RowsOf, Countable
    <3>4. Apart(drawn)' /\ Inside(drawn)'
      BY <2>1, <3>2, PlacesStable
    <3> QED
      BY <2>1, <2>2, <3>1, <3>2, <3>3, <3>4 DEF PlaceInv
  <2> QED BY <2>5, <2>6
<1>10. CASE ShowListing
  BY <1>10, <1>q DEF ShowListing
<1>11. CASE ShutdownCurses
  BY <1>11, <1>q DEF ShutdownCurses, LeaveCurses
<1>12. CASE TimeIsUp
  BY <1>12, <1>q DEF TimeIsUp
<1>13. CASE ReadKeywords
  BY <1>13, <1>q DEF ReadKeywords
<1>14. CASE Slash
  BY <1>14, <1>q DEF Slash, KeywordPrompt
<1>15. CASE AnyKey
  BY <1>15, <1>q DEF AnyKey
<1>16. CASE Resize
  BY <1>16, <1>q DEF Resize, LeaveCurses
<1> QED
  BY <1>1, <1>2, <1>3, <1>4, <1>5, <1>6, <1>7, <1>8, <1>9, <1>10, <1>11,
     <1>12, <1>13, <1>14, <1>15, <1>16
  DEF Next, Program

\* In a window of any size a result that takes no more columns than it has
\* characters is written over by no later one, however long the lines and
\* whatever columns the others take, and when no line is longer than the window
\* is wide all have their place inside it: the loop of refresh_listing, the
\* division that counts the rows of a wrapped line in characters and the one
\* that centers the listing.  It says nothing of lines with tabs or wide
\* characters, which the code counts too short.
THEOREM ListingsFit == Spec => []ListingFits
<1> DEFINE I == TypeOK /\ RoomInv /\ DrawnInv /\ PlaceInv
<1>1. Init => I
  BY InitType DEF Init, DrawnInv, PlaceInv, Apart, Inside
<1>2. I /\ [Next]_vars => I'
  BY TypeStep, DrawnStep, PlaceStep
<1>3. I => ListingFits
  BY DEF PlaceInv, Apart, Inside, Narrow, ListingFits
<1> QED
  BY <1>1, <1>2, <1>3, PTL DEF Spec
=============================================================================
