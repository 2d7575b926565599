------------------------------- MODULE MCPager -------------------------------
(***************************************************************************)
(* Pager for TLC: a comment and lines that are short, as wide as the       *)
(* window, or wider, under one or both of two keywords, one of them with a *)
(* tab in it.                                                              *)
(***************************************************************************)
EXTENDS Pager

Line(comment, matches, length, columns) ==
    [comment |-> comment, matches |-> matches, length |-> length,
     columns |-> columns]

MCLines == {Line(TRUE, {"a"}, 1, 1), Line(FALSE, {"a"}, 1, 1),
            Line(FALSE, {"b"}, 2, 5), Line(FALSE, {"a", "b"}, 4, 4),
            Line(FALSE, {"a"}, 5, 5)}

\* A window with room for two lines, one for three, and ioctl's failure.
MCWindows == {[height |-> 3, width |-> 2], [height |-> 4, width |-> 4],
              [height |-> 0, width |-> 0]}

=============================================================================
