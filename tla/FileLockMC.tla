----------------------------- MODULE FileLockMC -----------------------------
(* Two threads of one process and one thread of another. *)
EXTENDS FileLock

CONSTANTS t1, t2, t3, p1, p2

MCThreads == {t1, t2, t3}
MCPids    == {p1, p2}
MCPidOf   == [t \in MCThreads |-> IF t = t3 THEN p2 ELSE p1]
=============================================================================
