--------------------------- MODULE MCSpanQueries ---------------------------
(* SpanQueries with a retention period per series, for TLC. *)
EXTENDS SpanQueries

MCPeriod == [x \in Series |-> x + 1]
=============================================================================
