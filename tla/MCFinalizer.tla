----------------------------- MODULE MCFinalizer -----------------------------
(* Small instances of Finalizer for TLC. *)
EXTENDS Finalizer

Review == [state |-> "AI_REVIEW", gate |-> "AI", identity |-> "named",
           result |-> None, others |-> "kept"]

\* Work in review, in progress, and work that already claims DONE.
MCPushedText == {Review, [Review EXCEPT !.state = "WORKING"],
                 [Review EXCEPT !.state = "DONE", !.identity = "cleared"]}

MCReviewOnly == {Review}
=============================================================================
