----------------------------- MODULE MCTextFile ------------------------------
(***************************************************************************)
(* TextFile for TLC: texts of a few bytes, lines of at most four.          *)
(***************************************************************************)
EXTENDS TextFile

\* "a", "A", and the two bytes of e with an acute accent.
la == 97
ua == 65
e1 == 195
e2 == 169

TextsOver(bytes, n) == UNION {[1..k -> bytes] : k \in 0..n}

Session(command, exists, file, argv, passwords) ==
    [command |-> command, exists |-> exists, file |-> file, argv |-> argv,
     passwords |-> passwords]

MCSessions ==
    {Session("edit", TRUE, t, <<>>, <<>>) :
       t \in TextsOver({la, SPACE, NL, e1, e2}, 5)}
    \cup {Session("edit", FALSE, <<>>, <<>>, <<>>)}
    \cup {Session("add", TRUE, t, argv, <<<<la>>, <<233, SPACE>>>>) :
            t \in TextsOver({la, NL}, 2),
            argv \in {<<>>, <<<<la>>>>, <<<<la>>, <<>>>>, <<<<e1>>, <<la>>>>,
                      <<<<e1>>, <<e2>>>>, <<<<NL>>>>}}
    \cup {Session("get", TRUE, t, <<>>, <<>>) :
            t \in TextsOver({la, ua, NL, HASH}, 4)
                    \cup TextsOver({la, e1, e2}, 3)}

MCQueries == {<<>>, <<SPACE>>, <<SPACE, la, SPACE, ua, la>>,
              <<e1, e2, SPACE, SPACE, la>>, <<la, la, la>>}

MCKeywordLists == {<<>>, <<<<>>>>, <<<<ua, la>>, <<la>>>>, <<<<HASH>>>>}

=============================================================================
