--------------------------- MODULE MCConsumerSync ---------------------------
(* A small instance of ConsumerSync for TLC. *)
EXTENDS ConsumerSync, TLC

CONSTANTS r1, r2, old, new

\* The later template ends with its end marker, without a line terminator.
MCBlockOf == r1 :> old @@ r2 :> new

MCRagged == {new}

\* The record is in the tool's own form at first; an edit may give it another.
MCInit == Init /\ consumer.record.canonical

Rivals == Permutations(Invocation)
=============================================================================
