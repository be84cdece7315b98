--------------------------- MODULE MCFileNatives ---------------------------
(* Instances of FileNatives: two names, files of at most two bytes.        *)
EXTENDS FileNatives

CONSTANTS p, q, dot, dotdot, a, b, nul, w

\* The wide character loses all but the byte b.
MCLow == [c \in {a, b, nul, w} |-> IF c = w THEN b ELSE c]

\* Both names begin with dots: p is a hidden file, q is called ..x.
MCShape ==
  [e \in {p, q, dot, dotdot} |->
     CASE e = p -> <<"dot", "other", "end">> [] e = q -> <<"dot", "dot", "other">>
       [] e = dot -> <<"dot", "end", "end">> [] e = dotdot -> <<"dot", "dot", "end">>]

\* A text as it should be, one with a NUL, one with a wide character.
MCTexts == {<<a, b>>, <<a, nul>>, <<w>>}

\* The file is emptied, and it gets a NUL at its end.
MCOtherTexts == {<<>>, <<b, nul>>}
=============================================================================
