----------------------------- MODULE MCServices -----------------------------
(* A small instance of Services for TLC. *)
EXTENDS Services

Answer(list, tags, object) == [list |-> list, tags |-> tags, object |-> object]

(* Every kind of call, in each of the three forms, and one batch that is   *)
(* larger than the pool. *)
MCAnswers ==
  {Answer(<<"fine", "fine", "fine">>, <<>>, <<>>),
   Answer(<<"nameless", "fine", "unknown">>, <<"fine">>, <<>>),
   Answer(<<"nameless">>, <<"forbidden", "fine">>, <<"fine">>),
   Answer(<<>>, <<"unreadable", "nameless", "invalid">>, <<>>),
   Answer(<<>>, <<>>, <<"fine">>),
   Answer(<<>>, <<>>, <<"nameless">>)}

MCBatches == {<<"a">>, <<"a", "b", "">>}
=============================================================================
