------------------------------ MODULE MCGitState ------------------------------
(* Small instances of GitState for TLC. *)
EXTENDS GitState, TLC

MCAllowed == {"docs/a", "docs/b"}
MCPath == MCAllowed \cup {"src/c", "src/d"}
=============================================================================
