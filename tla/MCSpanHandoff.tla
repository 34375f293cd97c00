--------------------------- MODULE MCSpanHandoff ---------------------------
(* SpanHandoff with a retention period per series, for TLC. *)
EXTENDS SpanHandoff

\* Series 0 expires a span earlier than series 1.
MCPeriod == [x \in Series |-> x + 1]
=============================================================================
