------------------------------- MODULE MCText --------------------------------
(***************************************************************************)
(* Text on small instances.                                                *)
(***************************************************************************)
EXTENDS Text

\* One, two and three characters, one that overlaps itself.
SmallPatterns == {<<"1">>, <<",", "2">>, <<"1", "1", ",">>, <<"2", ",", "2">>}
=============================================================================
