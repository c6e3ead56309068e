------------------------- MODULE MCSessionDeletion -------------------------
(* Deleting a session on small instances. *)
EXTENDS SessionDeletion

CONSTANTS o1, m1, m2, c1, artifacts, events

\* The purge order of the code around its event store.
MCPurgeOrder == <<artifacts, events>>

\* The operation runs in the manager that may crash, the collector in the other.
MCManagerOf == [a \in Operations \cup Collectors |-> IF a = o1 THEN m1 ELSE m2]
=============================================================================
