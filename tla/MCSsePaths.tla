----------------------------- MODULE MCSsePaths -----------------------------
(* An answer of two events around a comment line, closed by [DONE].        *)
EXTENDS SsePaths

MCLines == <<"data", "other", "data", "DONE">>
=============================================================================
