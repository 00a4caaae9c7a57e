----------------------------- MODULE MCRendering -----------------------------
(***************************************************************************)
(* The characters that matter to the parsers, and cards around every cap.  *)
(***************************************************************************)
EXTENDS Rendering

MCHtmlChars == {"<b>", "</b>", "<i>", "</i>", "<code>", "</code>", "<", "*", "\\", "a"}
MCMarkdownChars == {"*", Tick, "\\", "_", " ", "a"}

MCTitles == {<< >>, <<"t">>, <<"t", "u", "v">>}
MCBodies == {<< >>, <<" ">>, <<"<b>", "a", "</b>", " ", "b">>}

Act(type, label, value) == [type |-> type, label |-> label, value |-> value]

\* Labels that differ only past the cut, one that needs trimming, one that is blank; values
\* at the cap of a row, at the cap of a button, and past both; a link.
MCActions ==
  {Act("postback", <<"a", "b", "c", "d">>, <<"v">>),
   Act("postback", <<"a", "b", "c", "e">>, <<"v", "w">>),
   Act("postback", <<" ", "a", "b", "c", "d", "f">>, <<"v", "w", "x">>),
   Act("postback", <<"a", " ", "2">>, <<"w">>),
   Act("postback", <<" ">>, <<"x">>),
   Act("postback", <<"b">>, <<"v", "w", "x", "y">>),
   Act("url", <<"c">>, <<"v">>)}
==============================================================================
