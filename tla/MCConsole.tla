------------------------------ MODULE MCConsole ------------------------------
(* A screen of three rows and two columns: every other character wraps and *)
(* the bottom is never far.                                                *)
EXTENDS Console

MCGlyphs == {" ", "x", "k"} \cup {HexDigits[i] : i \in 1 .. 16}
MCEchoed == {"k", NL}
MCWritten == {<<NL, "k">>, <<"k", "k", "k">>}
MCBanner == <<"k">>
MCAddresses == {0, 26}

=============================================================================
