----------------------------- MODULE MCDisplay -----------------------------
(***************************************************************************)
(* The display on a screen of two rows and two columns, with cursor        *)
(* registers of three values each, so that a cursor that has gone before   *)
(* the first cell comes out as 8, far behind the last.                     *)
(***************************************************************************)
EXTENDS Display

MCHex == [d \in {"4", "a"} |-> IF d = "4" THEN 4 ELSE 10]

\* %s and %c are given their text, the util bee writes that of the others, and
\* %p has 0x in front, here zz.
MCText(d, arg) == IF d = "p" THEN <<"z", "z">> \o arg ELSE arg

Call(str, args) == [str |-> str, args |-> args]

\* A directive of each kind: colors of two digits, of one and of none, the
\* default color, texts, a letter that is no directive, and strings that end
\* behind % and behind %#.
MCFormats ==
    { Call(<<"%", "#", "4", "a", "z", "%", "#", "$">>, <<>>),
      Call(<<"%", "#", "a", "bs", "%", "#", "z">>, <<>>),
      Call(<<"%", "d", "nl", "%", "c", "%">>, <<<<"z">>, <<"z">>>>),
      Call(<<"%", "s", "%", "p", "%", "#">>, <<<<>>, <<>>>>),
      Call(<<"%", "#", "4", "a", "%", "z", "%", "%", "%", "#", "4">>, <<>>) }

\* To a place on the screen, and before the first cell by column and by row.
MCMoves == {<<3, 1>>, <<-1, 0>>, <<0, -1>>}

\* The calls meet what the theorems ask of a caller.
ASSUME Instances == ArgumentsSuffice
=============================================================================
