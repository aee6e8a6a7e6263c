----------------------------- MODULE MCConsole -----------------------------
(* A screen of 2 rows of 9 columns, and lines of at most 6 characters      *)
(* behind a prompt of 7: a line wraps, and every command makes the screen  *)
(* scroll.  One message in a command: in the prompt, in a line, also when  *)
(* it is almost full, or in what a command prints.                         *)
EXTENDS Console

MCPromptText == <<">", ">", ">", ">", ">", ">", ">">>
MCBuiltins ==
  << [name |-> <<"h", "h">>, prints |-> <<CR, ".", CR, TAB, ".", CR, CR>>],
     [name |-> <<"h">>, prints |-> <<CLEAR>>] >>
MCUnknownText == <<".">>
MCMessage == <<"!", "!">>
MCMessageAt ==
  {<<"first", 0>>, <<"more", 2>>, <<"more", 5>>} \union ({"prompt", "execute"} \X {1, 2})
=============================================================================
