----------------------------- MODULE Acceptance -----------------------------
(***************************************************************************)
(* AcceptanceProtocol of validation/acceptance_harness.py: the life cycle of *)
(* the checkpoints as heartbeat, worker, supervisor and closure act on the   *)
(* durable state through the oracles, in whatever order they are called.  A  *)
(* review is two steps, since the HEAD is confirmed after the candidate was  *)
(* evaluated; everything else may happen in between.  Its author pushes to   *)
(* the pull request, checks, mergeability and reserved conditions change from *)
(* outside, and the owner may reserve a checkpoint at any time.               *)
(***************************************************************************)
EXTENDS Oracles

CONSTANTS Queues,        \* queues to start from: state and Gate of each checkpoint
          Offered(_, _), \* closures derived for a checkpoint from a parent
          Nobody,        \* no review in progress
          MaxHead,       \* bound: commits of each pull request
          MaxDecisions,  \* bound: decisions on each checkpoint
          MaxChanges     \* bound: changes of each one's eligibility or Gate

ASSUME AcceptanceAssumption ==
    /\ Queues \subseteq [Checkpoint -> [state : {"READY", "AI_REVIEW"}, gate : Gate]]
    /\ MaxHead \in [Checkpoint -> Nat \ {0}] /\ MaxDecisions \in [Checkpoint -> Nat]
    /\ MaxChanges \in [Checkpoint -> Nat]
    /\ \A c \in Checkpoint : \A p \in 1 .. MaxHead[c] :
          \A closure \in Offered(c, p) : closure \in Closure /\ closure.parent = p

VARIABLES
    items,      \* the checkpoints of the durable state
    selected,   \* checkpoint the invocation works on
    reviewing,  \* checkpoint under review, as the supervisor saw it; Nobody
    answer,     \* what the latest closure was answered
    changes

vars == <<items, selected, reviewing, answer, changes>>

NoAnswer == [checkpoint |-> None, decision |-> "APPROVED", selection |-> None,
             supervisor |-> FALSE, accepted |-> FALSE]

Init ==
    /\ \E queue \in Queues :
          items = [c \in Checkpoint |->
                      [state |-> queue[c].state, gate |-> queue[c].gate, head |-> 1,
                       decisions |-> <<>>, approved_base |-> None, closure |-> NoClosure,
                       eligible |-> TRUE]]
    /\ selected = None
    /\ reviewing = Nobody
    /\ answer = NoAnswer
    /\ changes = [c \in Checkpoint |-> 0]

(***************************************************************************)
(* The protocol.                                                           *)
(***************************************************************************)
\* A new protocol object, over the state the last one left.
NewInvocation ==
    /\ selected # None
    /\ selected' = None
    /\ answer' = NoAnswer
    /\ UNCHANGED <<items, reviewing, changes>>

\* A second checkpoint is an error, but evaluate has acted on it by then.
Heartbeat ==
    /\ UNCHANGED <<reviewing, changes>>
    /\ answer' = NoAnswer
    /\ \E c \in {Selection(items)} :
          /\ items' = Evaluated(items, c)
          /\ selected' = IF selected = None THEN c ELSE selected

\* Technical failure and an invalid outcome leave everything as it was.
WorkerResult ==
    /\ selected # None /\ items[selected].state = "WORKING"
    /\ items' = [items EXCEPT ![selected].state = "AI_REVIEW"]
    /\ answer' = NoAnswer
    /\ UNCHANGED <<selected, reviewing, changes>>

\* The candidate is put together and evaluated; a review without identity or evidence
\* ends here, with nothing changed.
Supervise ==
    /\ selected # None /\ reviewing = Nobody
    /\ Len(items[selected].decisions) < MaxDecisions[selected]
    /\ \E evidence \in Evidence :
          reviewing' = [checkpoint |-> selected, head |-> items[selected].head,
                        value |-> ReviewValue(items[selected], evidence)]
    /\ answer' = NoAnswer
    /\ UNCHANGED <<items, selected, changes>>

\* Slip: the decision becomes the state.
StateAfterVerbatim(value, state) == value

StateAfter(value, state) ==
    CASE value = "AI_REWORK" -> "AI_REWORK"
      [] value = "HUMAN_REQUIRED" -> "HUMAN_REQUIRED"
      [] value = "APPROVED" -> state

Recorded(review, head) ==
    [items EXCEPT
        ![review.checkpoint].decisions = Append(@, [decision |-> review.value, head |-> head]),
        ![review.checkpoint].state = StateAfter(review.value, @)]

\* Slip: the decision is recorded for the HEAD the PR has by now.
PublishRetargeted ==
    /\ reviewing # Nobody /\ reviewing' = Nobody
    /\ items' = Recorded(reviewing, items[reviewing.checkpoint].head)
    /\ answer' = NoAnswer
    /\ UNCHANGED <<selected, changes>>

\* A decision is recorded only if the HEAD is still the one evaluated; else, or when it
\* cannot be read, nothing is.
Publish ==
    /\ reviewing # Nobody /\ reviewing' = Nobody
    /\ \/ /\ items[reviewing.checkpoint].head = reviewing.head
          /\ items' = Recorded(reviewing, reviewing.head)
       \/ UNCHANGED items
    /\ answer' = NoAnswer
    /\ UNCHANGED <<selected, changes>>

\* A closure of some decision is recorded as the new HEAD of the pull request, then both
\* oracles are asked; the heartbeat's evaluates every checkpoint, and merges.
Presented(c, decision, closure) ==
    [items EXCEPT ![c].approved_base = decision.head, ![c].head = @ + 1,
                  ![c].closure = closure]

Close(c, decision, closure) ==
    /\ items[c].head < MaxHead[c]
    /\ \E presented \in {Presented(c, decision, closure)} :
       \E selection \in {Selection(presented)} :
       \E supervisor \in {MechanicalClosurePreservesReview(c, decision, closure)} :
          /\ items' = Evaluated(presented, selection)
          /\ answer' = [checkpoint |-> c, decision |-> decision.decision,
                        selection |-> selection, supervisor |-> supervisor,
                        accepted |-> supervisor /\ Merges(presented, selection)]
    /\ UNCHANGED <<selected, reviewing, changes>>

(***************************************************************************)
(* Around it.                                                              *)
(***************************************************************************)
\* A commit on top of a closure makes the diff more than the closure.
AuthorPushes(c) ==
    /\ items[c].state \in {"WORKING", "AI_REVIEW"} /\ items[c].head < MaxHead[c]
    /\ items' = [items EXCEPT
                    ![c].head = @ + 1,
                    ![c].closure.files = IF items[c].approved_base = None THEN <<>>
                                         ELSE IF "code" \in Files(items[c].closure) THEN @
                                         ELSE Append(@, "code")]
    /\ answer' = NoAnswer
    /\ UNCHANGED <<selected, reviewing, changes>>

EligibilityChanges(c) ==
    /\ changes[c] < MaxChanges[c] /\ changes' = [changes EXCEPT ![c] = @ + 1]
    /\ \/ items' = [items EXCEPT ![c].eligible = ~@]
       \/ items' = [items EXCEPT ![c].gate = "HUMAN"]
    /\ answer' = NoAnswer
    /\ UNCHANGED <<selected, reviewing>>

Next ==
    \/ NewInvocation \/ Heartbeat \/ WorkerResult \/ Supervise \/ Publish
    \/ \E c \in Checkpoint :
          \/ \E n \in DOMAIN items[c].decisions, closure \in Offered(c, items[c].head) :
                Close(c, items[c].decisions[n], closure)
          \/ AuthorPushes(c)
          \/ EligibilityChanges(c)

Spec == Init /\ [][Next]_vars

\* The timer starts heartbeats again and again.
FairSpec == Spec /\ WF_items(Heartbeat)

(***************************************************************************)
(* Properties.                                                             *)
(***************************************************************************)

\* Every variable keeps its type.
TypeOK ==
    /\ items \in [Checkpoint -> Item]
    /\ selected \in Checkpoint \cup {None}
    /\ reviewing \in [checkpoint : Checkpoint, head : Commit, value : DecisionKind] \cup {Nobody}
    /\ answer \in [checkpoint : Checkpoint \cup {None}, decision : DecisionKind,
                   selection : Checkpoint \cup {None}, supervisor : BOOLEAN, accepted : BOOLEAN]
    /\ changes \in [Checkpoint -> Nat]

Finalizer == INSTANCE ClosureRules

\* docs/AUTONOMY.md lets only the closure of the approved HEAD be merged.  In whatever
\* order reviews, pushes, closures and heartbeats come, a checkpoint becomes DONE only at
\* the one commit right above a HEAD whose approval stands by the rule of the production
\* finalizer, when that commit edits its own queue row and nothing else of the row than
\* state and result; a closure that also clears the identity cell, as the finalizer's
\* own does, is therefore never merged here.
MergedIsApprovedClosure ==
    [][\A c \in Checkpoint :
          items[c].state # "DONE" /\ items'[c].state = "DONE" =>
             LET i == items'[c]
             IN  /\ i.eligible
                 /\ Finalizer!ApprovalStands(i.decisions, i.closure.parent)
                 /\ i.head = i.closure.parent + 1
                 /\ Files(i.closure) = {"queue"} /\ i.closure.row = c
                 /\ \A n \in DOMAIN i.closure.fields :
                       i.closure.fields[n] \in {"state", "result"}]_vars

\* docs/SUPERVISOR_VALIDATION.md: a decision is never retargeted.  Whatever was pushed or
\* closed since the candidate was evaluated, a decision that is recorded is about the
\* HEAD that was evaluated, which is still the HEAD.
DecisionsAreOfTheHead ==
    [][\A c \in Checkpoint :
          items'[c].decisions # items[c].decisions =>
             /\ reviewing # Nobody /\ reviewing.checkpoint = c
             /\ items'[c].decisions[Len(items'[c].decisions)].head = reviewing.head
             /\ items[c].head = reviewing.head]_vars

\* Once the owner has set Gate HUMAN, although the checkpoint may be at work, in review
\* or approved with its closure pushed: it is not started, not merged, and a review that
\* begins only asks for the owner, whatever its evidence.  (Work and rework that had
\* begun go on: lines 143 and 156 do not look at the Gate.)
HumanGateIsReserved ==
    [][\A c \in Checkpoint :
          items[c].gate = "HUMAN" =>
             /\ items[c].state = "READY" => items'[c].state # "WORKING"
             /\ items[c].state # "DONE" => items'[c].state # "DONE"
             /\ reviewing = Nobody /\ reviewing' # Nobody /\ reviewing'.checkpoint = c =>
                   reviewing'.value = "HUMAN_REQUIRED"]_vars

\* The supervisor's and the heartbeat's oracles, written apart, agree on a closure of an
\* approval that stands, except that the heartbeat's ignores the label, the order of the
\* fields and a file that is listed twice (heartbeat_harness.py:87-98 and 105,
\* supervisor_harness.py:134-140).  A closure the
\* protocol accepts is merged, unless evaluate selected another checkpoint, whose merge it
\* then takes for this one's (acceptance_harness.py:105-109).
OraclesAgree ==
    LET c == answer.checkpoint
    IN  c # None /\ answer.decision = "APPROVED" =>
            /\ answer.supervisor /\ SemanticDone(items[c]) => ClosureValid(c, items[c])
            /\ /\ ClosureValid(c, items[c]) /\ items[c].closure.label = c
               /\ items[c].closure.fields # <<"result", "state">>
               /\ Len(items[c].closure.files) = 1
               => answer.supervisor
            /\ answer.accepted /\ answer.selection = c => items[c].state = "DONE"

\* Selected on every heartbeat and never merged.
Stuck(c) ==
    /\ items[c].state = "AI_REVIEW" /\ SemanticDone(items[c])
    /\ ~MergeExecutable(c, items[c])

\* What can be merged is merged by a later heartbeat if it stays so, unless an approved
\* checkpoint before it in the queue cannot: evaluate selects that one every time
\* (lines 147-151).
ExecutableIsMerged ==
    \A c \in Checkpoint :
        items[c].state = "AI_REVIEW" /\ MergeExecutable(c, items[c]) ~>
            \/ items[c].state # "AI_REVIEW" \/ ~MergeExecutable(c, items[c])
            \/ \E d \in 1 .. (c - 1) : Stuck(d)
=============================================================================
