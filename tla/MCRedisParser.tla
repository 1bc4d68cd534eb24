---------------------------- MODULE MCRedisParser ----------------------------
(***************************************************************************)
(* RedisParser for TLC: pipelines of two or three requests with one, two   *)
(* and three strings, empty and nil ones among them.                       *)
(***************************************************************************)
EXTENDS RedisParser

Get == <<<<"g">>, <<"k", "e">>>>
SetEmpty == <<<<"s">>, <<"k">>, <<>>>>
Nil == <<nil>>

MCInputs == {<<Get, SetEmpty>>, <<Nil, Get>>, <<Get, <<>>, Get>>, <<SetEmpty, Nil>>}

MCEmpty == {<<SetEmpty>>}

=============================================================================
