--------------------------- MODULE MCSwarmRuntime ---------------------------
(***************************************************************************)
(* Small instances of SwarmRuntime: two or three agents, one or two tasks. *)
(***************************************************************************)
EXTENDS SwarmRuntime

CONSTANTS t1, t2

\* A task for which f has no entry is there from the start, or never expires.
Ticks(f) == [t \in Tasks |-> IF t \in DOMAIN f THEN f[t] ELSE 0]

Never == Ticks(<<>>)

\* t2 is a dynamic task: injected at tick 2, expired from tick 5 on.
InjectSecond == Ticks([t \in {t2} |-> 2])
ExpireSecond == Ticks([t \in {t2} |-> 5])

\* Nobody restarted, and agent 1 restarted before the run.
FirstGeneration == [a \in 1 .. N |-> 1]
RestartedFirst == [a \in 1 .. N |-> IF a = 1 THEN 2 ELSE 1]

=============================================================================
