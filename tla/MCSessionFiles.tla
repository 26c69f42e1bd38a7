--------------------------- MODULE MCSessionFiles ---------------------------
(* The instance of SessionFiles for TLC.  The texts have two lines, without *)
(* and with a newline at the end, and line ends of two kinds; "a" occurs in *)
(* them once, and twice.                                                    *)
EXTENDS SessionFiles

MCTexts == {<<"a", "r", "n", "b", "n">>, <<"a", "n", "a">>}
MCOlds == {<<"a">>}
MCNews == {<<"b">>, <<"a", "n">>}
MCToolLists == {<<"echo">>, <<"echo", "echo">>, <<"if">>, <<"send and newline">>}
=============================================================================
