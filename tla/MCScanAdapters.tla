--------------------------- MODULE MCScanAdapters ---------------------------
(* One call of each kind for TLC; the constants are in the configuration.   *)
EXTENDS ScanAdapters
=============================================================================
