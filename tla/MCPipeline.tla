----------------------------- MODULE MCPipeline -----------------------------
(***************************************************************************)
(* A ring of two slots, so that it wraps, fills up and empties; more       *)
(* requests than slots, and workers that compete for them.                 *)
(***************************************************************************)
EXTENDS Pipeline

CONSTANTS c1, c2, c3, r1, r2, r3, r4
=============================================================================
