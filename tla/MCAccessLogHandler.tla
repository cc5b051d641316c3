------------------------- MODULE MCAccessLogHandler -------------------------
(* Requests that overlap in every way, any of which may fail to be logged.    *)
EXTENDS AccessLogHandler
=============================================================================
