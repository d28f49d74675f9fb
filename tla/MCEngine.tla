------------------------------- MODULE MCEngine -------------------------------
(***************************************************************************)
(* Small instances of Engine: which lines are typed and what devices send. *)
(***************************************************************************)
EXTENDS Engine, TLC

CONSTANTS a, b

Line(after, op, addr) == [after |-> after, op |-> op, addr |-> addr]
Msg(kind, pairs) == [kind |-> kind, pairs |-> pairs]
Pair(key, value) == [key |-> key, value |-> value]

Dialogue == {Line(<<>>, "connect-to", a), Line(<<>>, "connect-to", b)}
TypedLines ==
  {Line(<<>>, "connect-to", a), Line(<<1>>, "connect-to", a),
   Line(<<>>, "stop", a), Line(<<1, 2>>, "stop", a), Line(<<9>>, "stop", a),
   Line(<<>>, "garbled", a), Line(<<>>, "list-active-connections", a),
   Line(<<>>, "unknown", a)}

SomeMsgs ==
  {Msg("APLSIRI", <<>>), Msg("IPHONEACCEV", <<>>),
   Msg("IPHONEACCEV", <<Pair(<<2, 1>>, 0)>>),
   Msg("IPHONEACCEV", <<Pair(<<2>>, 1), Pair(<<1>>, 9)>>),
   Msg("IPHONEACCEV", <<Pair(<<1>>, 0)>>)}
Silence == {}
FewMsgs ==
  {Msg("BRSF", <<>>), Msg("IPHONEACCEV", <<>>),
   Msg("IPHONEACCEV", <<Pair(<<1>>, 4)>>)}
Stoppable == Dialogue \cup {Line(<<>>, "stop", a)}
=============================================================================
