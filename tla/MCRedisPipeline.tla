--------------------------- MODULE MCRedisPipeline ---------------------------
(***************************************************************************)
(* RedisPipeline for TLC: pipelines in which commands are refused, and     *)
(* two threads of the pool beside the parser's.                            *)
(***************************************************************************)
EXTENDS RedisPipeline

Command(name, valid) == [name |-> name, valid |-> valid]

MCCommands == {
    <<Command("get", "yes"), Command("unknown", "yes"), Command("set", "yes")>>,
    <<Command("ttl", "yes"), Command("setex", "no"), Command("pttl", "yes")>>,
    <<Command("del", "yes"), Command("setex", "yes")>>}

MCPair == {<<Command("set", "yes"), Command("get", "yes")>>}

=============================================================================
