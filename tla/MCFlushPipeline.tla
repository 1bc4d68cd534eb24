--------------------------- MODULE MCFlushPipeline ---------------------------
(* FlushPipeline for TLC.                                                    *)
EXTENDS FlushPipeline

=============================================================================
