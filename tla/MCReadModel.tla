----------------------------- MODULE MCReadModel -----------------------------
(* ReadModel with one work item, one queue of two items and two writers. *)
EXTENDS ReadModel

CONSTANTS work, queue, a, b, c, w1, w2, client

MCParts == {a, b, c}

MCEntityOf == [p \in MCParts |-> IF p = a THEN work ELSE queue]

==============================================================================
