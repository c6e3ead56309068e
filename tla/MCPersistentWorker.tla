------------------------- MODULE MCPersistentWorker -------------------------
(* A small instance of the persistent worker for TLC. *)
EXTENDS PersistentWorker, TLC

CONSTANTS j1, k1, w1, t1, a1, a2

MCKeyOf == j1 :> k1
MCTypeOf == j1 :> t1
MCMaxAttempts == j1 :> 2
MCHandles == w1 :> {t1}

\* Two loops of one worker: they share the lease owner.
MCOneWorker == (a1 :> w1) @@ (a2 :> w1)
============================================================================
