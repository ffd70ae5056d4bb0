------------------------------ MODULE Oracles ------------------------------
(***************************************************************************)
(* The pure part of validation/: what the supervisor decides of a candidate, *)
(* and what the two sides of the closure boundary accept, the supervisor's    *)
(* oracle (supervisor_harness.py) and the heartbeat's (heartbeat_harness.py). *)
(* Commits of a pull request are numbered; the oracles compare them for       *)
(* equality only.  A pull request keeps its number, which is left out.        *)
(***************************************************************************)
EXTENDS Integers, Sequences, FiniteSetsExt

CONSTANTS Checkpoints  \* number of checkpoints, in the order of the queue

ASSUME CheckpointsAssumption == Checkpoints \in Nat \ {0}

Checkpoint == 1 .. Checkpoints
Commit == Nat \ {0}
None == 0

State == {"READY", "WORKING", "AI_REVIEW", "AI_REWORK", "HUMAN_REQUIRED", "DONE"}
Gate == {"AI", "HUMAN"}

\* With Gate AI or HUMAN only, merge_authorized of a decision says that it is APPROVED.
DecisionKind == {"APPROVED", "AI_REWORK", "HUMAN_REQUIRED"}
Decision == [decision : DecisionKind, head : Commit]

\* The diff of a closure: its label, the parent, the files as listed, and the changed fields
\* of one checkpoint's row.  "result" names the approval; "other" is any other change.
Field == {"state", "result", "other"}
Closure == [label : Checkpoint, parent : Commit, files : Seq({"queue", "code"}),
            row : Checkpoint, fields : Seq(Field)]

Files(closure) == {closure.files[n] : n \in DOMAIN closure.files}

NoClosure == [label |-> 1, parent |-> 1, files |-> <<>>, row |-> 1, fields |-> <<>>]

\* One checkpoint of the durable state.  "eligible": mergeable, checks satisfied, a
\* legitimate PR and nothing reserved for the human owner.
Item == [state : State, gate : Gate, head : Commit, decisions : Seq(Decision),
         approved_base : Commit \cup {None}, closure : Closure, eligible : BOOLEAN]

(***************************************************************************)
(* The supervisor.                                                         *)
(***************************************************************************)
\* What the evidence of one review shows, beside what the candidate says of itself.  No
\* caller's evidence names a field of the identity, which it would replace.
Evidence == [conformant : BOOLEAN, reserved : BOOLEAN]

ReviewValue(candidate, evidence) ==
    LET human == evidence.reserved \/ candidate.gate = "HUMAN"
        findings == candidate.state # "AI_REVIEW" \/ ~evidence.conformant
    IN  CASE human -> "HUMAN_REQUIRED"
          [] ~human /\ findings -> "AI_REWORK"
          [] ~human /\ ~findings -> "APPROVED"

\* Slip: the parent of the closure is not compared with the approved HEAD.
MechanicalClosurePreservesReviewAnyParent(c, decision, closure) ==
    /\ decision.decision = "APPROVED"
    /\ closure.label = c /\ closure.row = c
    /\ closure.files = <<"queue">>
    /\ closure.fields \in {<<"state">>, <<"state", "result">>}

MechanicalClosurePreservesReview(c, decision, closure) ==
    /\ decision.decision = "APPROVED"
    /\ closure.parent = decision.head
    /\ closure.label = c /\ closure.row = c
    /\ closure.files = <<"queue">>
    /\ closure.fields \in {<<"state">>, <<"state", "result">>}

(***************************************************************************)
(* The heartbeat.                                                          *)
(***************************************************************************)
Approvals(item) == {n \in DOMAIN item.decisions : item.decisions[n].decision = "APPROVED"}

Base(item) == IF item.approved_base = None THEN item.head ELSE item.approved_base

\* Slip: a decision against the work counts only if it is about the approved HEAD.
ApprovedHeadSameHeadOnly(item) ==
    LET latest == Max(Approvals(item))
        invalidated == \E n \in DOMAIN item.decisions :
                          /\ n > latest /\ item.decisions[n].decision # "APPROVED"
                          /\ item.decisions[n].head = item.decisions[latest].head
    IN  IF Approvals(item) = {} THEN None
        ELSE IF invalidated \/ item.decisions[latest].head # Base(item) THEN None
        ELSE item.decisions[latest].head

\* The HEAD of the valid approval: the latest one, if no decision against the work
\* follows and it is bound to the approved base, or to the HEAD where none is recorded.
ApprovedHead(item) ==
    LET latest == Max(Approvals(item))
        invalidated == \E n \in DOMAIN item.decisions :
                          n > latest /\ item.decisions[n].decision # "APPROVED"
    IN  IF Approvals(item) = {} THEN None
        ELSE IF invalidated \/ item.decisions[latest].head # Base(item) THEN None
        ELSE item.decisions[latest].head

\* The state changes once, the approval may be recorded once, in either order.
ValidClosureContent(c, closure) ==
    /\ closure.row = c
    /\ closure.fields \in {<<"state">>, <<"state", "result">>, <<"result", "state">>}

ClosureValid(c, item) ==
    /\ ApprovedHead(item) # None
    /\ Files(item.closure) = {"queue"}
    /\ item.closure.parent = ApprovedHead(item)
    /\ ValidClosureContent(c, item.closure)

\* Slip: an approval counts whoever the Gate belongs to.
SemanticDoneAnyGate(item) == ApprovedHead(item) # None

SemanticDone(item) == item.gate = "AI" /\ ApprovedHead(item) # None

\* A merge needs a valid closure; without one it is authorized at most.
MergeExecutable(c, item) == SemanticDone(item) /\ ClosureValid(c, item) /\ item.eligible

(***************************************************************************)
(* evaluate: which checkpoint c is selected, and what becomes of it.       *)
(***************************************************************************)
\* Slip: whatever is in review comes before new work.
TierReviewFirst(item) ==
    CASE item.state = "AI_REWORK" -> 1
      [] item.state = "AI_REVIEW" -> 2
      [] item.state = "WORKING" -> 3
      [] item.state = "READY" /\ item.gate = "AI" -> 4
      [] OTHER -> 5

Tier(item) ==
    CASE item.state = "AI_REWORK" -> 1
      [] item.state = "AI_REVIEW" /\ SemanticDone(item) -> 2
      [] item.state = "WORKING" -> 3
      [] item.state = "READY" /\ item.gate = "AI" -> 4
      [] OTHER -> 5

\* The first of the best tier; None stands for NO_OP.
Selection(items) ==
    LET best == Min({Tier(items[c]) : c \in Checkpoint})
    IN  IF best = 5 THEN None ELSE Min({c \in Checkpoint : Tier(items[c]) = best})

Merges(items, c) ==
    c # None /\ items[c].state = "AI_REVIEW" /\ MergeExecutable(c, items[c])

Evaluated(items, c) ==
    CASE c # None /\ items[c].state \in {"AI_REWORK", "READY"} ->
            [items EXCEPT ![c].state = "WORKING"]
      [] Merges(items, c) -> [items EXCEPT ![c].state = "DONE"]
      [] OTHER -> items
=============================================================================
