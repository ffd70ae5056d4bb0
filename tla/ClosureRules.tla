---------------------------- MODULE ClosureRules ----------------------------
(***************************************************************************)
(* The pure part of runtime/gate_ai_finalizer.py: what one provider        *)
(* snapshot must show before the finalizer acts on it, and the one queue   *)
(* edit it may derive.  A commit is named by its position on the pull      *)
(* request's branch; the code compares SHAs for equality only.  The text   *)
(* of docs/WORK_QUEUE.md at a commit is abstracted to the cells of the     *)
(* checkpoint's row that the code reads or writes, plus "others", which    *)
(* stands for every other character of the file.                           *)
(***************************************************************************)
EXTENDS Integers, Sequences

Commit == Nat \ {0}
None == 0

(***************************************************************************)
(* Data.                                                                   *)
(***************************************************************************)
QueueState == {"AI_REVIEW", "DONE", "WORKING"}
Gate == {"AI", "HUMAN"}
Identity == {"named", "cleared", "other"}  \* "named": branch and #pr occur in the cell
Path == {"queue", "code"}                  \* docs/WORK_QUEUE.md, anything else

QueueText == [state : QueueState, gate : Gate, identity : Identity,
              result : Commit \cup {None}, others : {"kept", "edited"}]

DecisionKind == {"APPROVED", "AI_REWORK", "HUMAN_REQUIRED"}
Decision == [decision : DecisionKind, head : Commit]

\* A commit of the PR branch, with the substantive HEAD and the changed paths
\* since it that the provider reports while the commit is HEAD.
CommitRecord == [substantive : Commit, paths : SUBSET Path, text : QueueText,
                 by : {"worker", "finalizer"}]

Status == {"OPEN", "CLOSED", "MERGED"}

(***************************************************************************)
(* The queue edit (replace_queue_row).                                     *)
(***************************************************************************)
Replaceable(text) ==
    /\ text.state = "AI_REVIEW"
    /\ text.gate = "AI"
    /\ text.identity = "named"

ReplaceQueueRow(text, substantive) ==
    [text EXCEPT !.state = "DONE", !.identity = "cleared", !.result = substantive]

(***************************************************************************)
(* Supervisor decisions, ordered by sequence number.  The code takes the   *)
(* latest approval bound to the substantive HEAD and looks for a rework or *)
(* human escalation, of any HEAD, after it.                                *)
(***************************************************************************)
Approves(d, substantive) == d.decision = "APPROVED" /\ d.head = substantive

Invalidates(d) == d.decision \in {"AI_REWORK", "HUMAN_REQUIRED"}

HasApproval(decisions, substantive) ==
    \E i \in DOMAIN decisions : Approves(decisions[i], substantive)

\* An approval among the first n decisions that none of them invalidates.
StandsAt(decisions, n, substantive) ==
    \E i \in 1..n : /\ Approves(decisions[i], substantive)
                   /\ \A j \in (i + 1)..n : ~Invalidates(decisions[j])

\* Slip: any approval counts, whatever was decided after it.
ApprovalStandsOnceGiven(decisions, substantive) ==
    HasApproval(decisions, substantive)

ApprovalStands(decisions, substantive) ==
    StandsAt(decisions, Len(decisions), substantive)

(***************************************************************************)
(* validate_snapshot: the first check that fails, in the order of the      *)
(* code, names the classification; "valid" means all of them passed.       *)
(* "already_merged" and "already_done" are raised as StopIteration.        *)
(***************************************************************************)
StopIterations == {"already_merged", "already_done"}

\* Slip: DONE is final even when it was materialised by a derived closure.
QueueVerdictDoneIsFinal(snap) ==
    IF snap.queue_text.state = "DONE" THEN "already_done"
    ELSE IF snap.queue_text.state # "AI_REVIEW" THEN "invalid_evidence"
    ELSE "valid"

QueueVerdict(snap) ==
    IF snap.queue_text.state = "DONE" /\ snap.head = snap.substantive_head
    THEN "already_done"
    ELSE IF snap.queue_text.state \notin {"DONE", "AI_REVIEW"} THEN "invalid_evidence"
    ELSE IF snap.queue_text.gate # "AI" THEN "invalid_evidence"
    ELSE "valid"

\* Slip: nobody asks for an approval.
ApprovalVerdictSkipped(snap) == "valid"

ApprovalVerdict(snap) ==
    IF ~HasApproval(snap.decisions, snap.substantive_head)
    THEN "missing_current_head_approval"
    ELSE IF ~ApprovalStands(snap.decisions, snap.substantive_head)
    THEN "approval_invalidated_by_later_decision"
    ELSE "valid"

\* Slip: the Gate and the human-reserved condition are not consulted.
AuthorityVerdictSkipped(snap) == "valid"

AuthorityVerdict(snap) ==
    IF snap.gate # "AI" THEN "gate_is_not_ai"
    ELSE IF ~snap.authority_clear THEN "human_reserved_condition"
    ELSE "valid"

SnapshotVerdict(snap) ==
    IF snap.status = "MERGED" THEN "already_merged"
    ELSE IF snap.status # "OPEN" THEN "candidate_pr_not_open"
    ELSE IF AuthorityVerdict(snap) # "valid" THEN AuthorityVerdict(snap)
    ELSE IF QueueVerdict(snap) # "valid" THEN QueueVerdict(snap)
    ELSE ApprovalVerdict(snap)

\* Slip: the outcome is printed where the classification belongs.
ChecksVerdictOutcome(snap, expected_head) ==
    IF snap.mergeable /\ snap.green THEN "valid" ELSE "ineligible"

\* validate_checks_and_mergeability: "green" stands for every required check
\* completed with success on exactly the HEAD of the snapshot.
ChecksVerdict(snap, expected_head) ==
    IF snap.head # expected_head THEN "invalid_evidence"
    ELSE IF ~snap.mergeable THEN "mergeability_not_confirmed"
    ELSE IF ~snap.green THEN "required_checks_not_successful"
    ELSE "valid"

ClosureIsExact(snap, expected_text, substantive) ==
    /\ snap.head # substantive
    /\ snap.head_parent = substantive
    /\ snap.changed_paths = {"queue"}
    /\ snap.queue_text = expected_text

Classification ==
    {"finalized", "head_race", "mechanical_failure", "invalid_evidence",
     "already_merged", "already_done", "candidate_pr_not_open", "gate_is_not_ai",
     "human_reserved_condition", "missing_current_head_approval",
     "approval_invalidated_by_later_decision", "mergeability_not_confirmed",
     "required_checks_not_successful"}

(***************************************************************************)
(* What a closure is, said of the branch instead of a snapshot: the one    *)
(* commit directly on an undisputed substantive commit that performs the   *)
(* queue edit and nothing else.                                            *)
(***************************************************************************)
IsClosure(history, h) ==
    LET s == history[h].substantive
    IN  /\ h = s + 1
        /\ history[s].substantive = s
        /\ Replaceable(history[s].text)
        /\ history[h].paths = {"queue"}
        /\ history[h].text = ReplaceQueueRow(history[s].text, s)
=============================================================================
