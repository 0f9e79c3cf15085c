----------------------------- MODULE MCPipeline -----------------------------
(* Small instances of Pipeline for TLC. *)
EXTENDS Pipeline

(* No agent skipped; each of the switches the loop itself looks at; all.   *)
MCSkipSets == {{}, {"tests"}, {"critique"}, {"docs", "performance"}}
MCFewSkips == {{}}

AllFaults  == {"event", "db", "call", "memory", "process"}
NoFaults   == {}

=============================================================================
