--------------------------- MODULE MCStatsCounters ---------------------------
(* A model of StatsCounters for TLC: the keys aa and aba, and the patterns *)
(* a*, a*a, *b, *b* and a*b*a.                                             *)
EXTENDS StatsCounters

MCKey == {<<"a", "a">>, <<"a", "b", "a">>}

MCPattern == LET a == <<"a">>
                 b == <<"b">>
             IN  { <<a, <<>> >>, <<a, a>>, << <<>>, b>>, << <<>>, b, <<>> >>,
                   <<a, b, a>> }
=============================================================================
