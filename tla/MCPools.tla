------------------------------- MODULE MCPools -------------------------------
(***************************************************************************)
(* Small instances of Pools for TLC.                                       *)
(***************************************************************************)
EXTENDS Pools

\* Two reads and a raced replay beside a mutating call and a probe: enough to
\* hold every connection without a thread while others hold every thread.
MixedRequests == 1..5
MixedKind == <<"read", "read", "raced", "write", "live">>

\* A liveness probe beside as many mutating calls as there are threads.
ProbeRequests == 1..3
ProbeKind == <<"write", "write", "live">>

============================================================================
