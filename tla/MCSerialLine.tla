---------------------------- MODULE MCSerialLine ----------------------------
(***************************************************************************)
(* Lines a host may send.                                                  *)
(***************************************************************************)
EXTENDS SerialLine

Line(letter, priority, repeat, length, plus, data) ==
  [letter |-> letter, priority |-> priority, repeat |-> repeat, length |-> length,
   plus |-> plus, data |-> data, wide |-> 0, rest |-> 0, fields |-> Len(Fields(letter))]
Short(letter, data) == Line(letter, 0, 0, 0, FALSE, data)

\* Each command, on both sides of the limits of its arguments; a line without
\* arguments, one that just fits and one with more text than a buffer takes.
LinesGood == <<
  Line("S", 1, 0, 2, TRUE, 3), Line("S", 7, 0, 2, FALSE, 1), Line("S", 2, 0, 33, FALSE, 1),
  Line("Q", 5, 0, 1, FALSE, 1), Line("Q", 1, 0, 2, FALSE, 5),
  Line("R", 5, 3, 2, FALSE, 2), Line("R", 0, 1, 2, FALSE, 1),
  Short("Y", 255), Short("Y", 256), Short("W", 9), Short("W", 0), Short("N", 0),
  Short("X", 0), Short("I", 0), Short("?", 0),
  [Line("S", 1, 0, 2, FALSE, 0) EXCEPT !.fields = 0],
  [Line("Q", 2, 0, 1, TRUE, 0) EXCEPT !.wide = 1],
  [Line("S", 3, 0, 1, FALSE, 0) EXCEPT !.rest = 3]>>

\* They are all lines about which code and manual agree.
ASSUME LinesClear == \A n \in DOMAIN LinesGood : ClearLine(LinesGood[n])

\* A command, and a request for information with an end of line.
LinesHelp == <<Short("Y", 255), [Short("?", 0) EXCEPT !.rest = 1]>>
=============================================================================
