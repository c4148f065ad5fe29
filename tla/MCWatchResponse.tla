--------------------------- MODULE MCWatchResponse ----------------------------
(* WatchResponse with one object under the watched prefix, one in another    *)
(* namespace of its type and one of another type.                            *)
EXTENDS WatchResponse

CONSTANT obj

OneKey == {obj}
===============================================================================
