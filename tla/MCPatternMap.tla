---------------------------- MODULE MCPatternMap ----------------------------
(* PatternMap with every pattern of up to three parts, a few of four, and  *)
(* every room of up to three names.                                        *)
EXTENDS PatternMap

MCPatterns ==
  (SeqOf({"a", "*", "**"}, 3) \ {<<>>})
    \cup {<<"a", "**", "*", "b">>, <<"a", "**", "**", "b">>, <<"**", "b", "a", "**">>}

MCRooms ==
  (SeqOf({"a", "b"}, 3) \ {<<>>}) \cup {<<"a", "b", "a", "b">>}
=============================================================================
