--------------------------- MODULE MCDurablePrompt ---------------------------
(* One prompt on small instances. *)
EXTENDS DurablePrompt

CONSTANTS s1, s2, r2, i1, h1, h2

\* The calls of the first host; those of the second are the rest.
MCOutboxOf == [c \in Callers |-> IF c \in {s1, i1} THEN h1 ELSE h2]

\* Everything on one host.
MCOneHost == [c \in Callers |-> h1]

MCCallers == Sends \cup Recoveries \cup Interrupts
=============================================================================
