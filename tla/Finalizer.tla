------------------------------ MODULE Finalizer ------------------------------
(***************************************************************************)
(* Invocations of runtime/gate_ai_finalizer.py working on one pull request *)
(* through the provider, with the people and jobs that change the pull     *)
(* request while they run.                                                 *)
(*                                                                         *)
(* An invocation issues one provider request at a time and evaluates the   *)
(* reply before the next one, so each action below is one provider call    *)
(* with the evaluation that follows it.  Everything else may happen        *)
(* between two calls.  A request whose sender was killed, or whose reply   *)
(* was lost, stays in "late" and may still take effect: the provider is a  *)
(* separate process talking to a remote API.                               *)
(***************************************************************************)
EXTENDS ClosureRules, FiniteSets

CONSTANTS
    Invocation,    \* finalizer processes that may run at the same time
    PushedText,    \* queue texts a worker may push
    MaxPushes,     \* bound: worker commits after the first
    MaxDecisions,  \* bound: supervisor decisions
    MaxChanges,    \* bound: owner interventions and check regressions
    MaxFaults      \* bound: kills, provider failures and malformed input

ASSUME ConstantsAssumption ==
    /\ PushedText \subseteq QueueText
    /\ {MaxPushes, MaxDecisions, MaxChanges, MaxFaults} \subseteq Nat

VARIABLES
    history,    \* commits of the PR branch, oldest first; the last one is HEAD
    decisions,  \* supervisor decisions in sequence order
    pr,         \* status, gate, authority_clear and mergeable of the PR
    green,      \* commits whose required checks all succeeded
    landed,     \* what was merged, by whom, and the decisions seen before
    pc,         \* the provider call each invocation waits for
    approved,   \* its "substantive"
    closure,    \* its "current_head"
    seen,       \* decisions present in its boundary snapshot (history variable)
    report,     \* the classification it printed, or how it ended without one
    late,       \* requests that may still take effect without their sender
    changes, faults

repoVars == <<history, decisions, pr, green, landed>>
procVars == <<pc, approved, closure, seen, report>>
vars == <<repoVars, procVars, late, changes, faults>>

(***************************************************************************)
(* The pull request as the provider reads it.                              *)
(***************************************************************************)
Request == [op : {"create_closure", "merge"}, expected_head : Commit \cup {None},
            seen : Nat]

CurrentHead == Len(history)

Substantive == history[CurrentHead].substantive

Snapshot ==
    [status |-> pr.status, gate |-> pr.gate, authority_clear |-> pr.authority_clear,
     mergeable |-> pr.mergeable, green |-> CurrentHead \in green, decisions |-> decisions,
     head |-> CurrentHead, substantive_head |-> Substantive, head_parent |-> CurrentHead - 1,
     changed_paths |-> history[CurrentHead].paths, queue_text |-> history[CurrentHead].text]

\* expected_text: derived from the queue text of the substantive HEAD, which is
\* immutable once published.
ExpectedText(substantive) == ReplaceQueueRow(history[substantive].text, substantive)

ClosureCommit(substantive) ==
    [substantive |-> substantive, paths |-> {"queue"},
     text |-> ExpectedText(substantive), by |-> "finalizer"]

Init ==
    /\ \E t \in PushedText :
          history = <<[substantive |-> 1, paths |-> {}, text |-> t, by |-> "worker"]>>
    /\ decisions = <<>>
    /\ pr = [status |-> "OPEN", gate |-> "AI", authority_clear |-> TRUE,
             mergeable |-> FALSE]
    /\ green = {}
    /\ landed = [head |-> None, by |-> "nobody", seen |-> 0]
    /\ pc = [f \in Invocation |-> "idle"]
    /\ approved = [f \in Invocation |-> None]
    /\ closure = [f \in Invocation |-> None]
    /\ seen = [f \in Invocation |-> 0]
    /\ report = [f \in Invocation |-> "none"]
    /\ late = {}
    /\ changes = 0
    /\ faults = 0

(***************************************************************************)
(* One invocation.                                                         *)
(***************************************************************************)
Goto(f, label) == pc' = [pc EXCEPT ![f] = label]

\* emit(...) and return: the process is gone, only its report remains.
Exit(f, classification) ==
    /\ pc' = [pc EXCEPT ![f] = "idle"]
    /\ report' = [report EXCEPT ![f] = classification]
    /\ approved' = [approved EXCEPT ![f] = None]
    /\ closure' = [closure EXCEPT ![f] = None]
    /\ seen' = [seen EXCEPT ![f] = 0]

Wake(f) ==
    /\ pc[f] = "idle"
    /\ Goto(f, "initial")
    /\ report' = [report EXCEPT ![f] = "none"]
    /\ UNCHANGED <<repoVars, approved, closure, seen, late, changes, faults>>

\* The first snapshot (lines 226-251): nothing to do, a closure to create, or an
\* exact one to resume.
ReadInitial(f) ==
    LET snap == Snapshot
        s == snap.substantive_head
        verdict == SnapshotVerdict(snap)
        derivable == Replaceable(history[s].text)
        exact == ClosureIsExact(snap, ExpectedText(s), s)
    IN  /\ pc[f] = "initial"
        /\ \/ /\ verdict # "valid"
              /\ Exit(f, verdict)
           \/ /\ verdict = "valid"
              /\ ~derivable \/ (snap.head # s /\ ~exact)
              /\ Exit(f, "invalid_evidence")
           \/ /\ verdict = "valid" /\ derivable
              /\ \/ snap.head = s /\ Goto(f, "create")
                 \/ exact /\ Goto(f, "refresh")
              /\ approved' = [approved EXCEPT ![f] = s]
              /\ UNCHANGED <<closure, seen, report>>
        /\ UNCHANGED <<repoVars, late, changes, faults>>

\* The provider's compare of a mutation's expected_head with the PR's HEAD.
HeadIs(expected_head) == CurrentHead = expected_head

\* The swap: the branch moves to the closure commit.
PushClosure(substantive) ==
    /\ history' = Append(history, ClosureCommit(substantive))
    /\ UNCHANGED <<decisions, pr, green, landed>>

\* Slip: the request carries no expected HEAD.
CreateClosureUncompared(f) ==
    /\ pc[f] = "create"
    /\ PushClosure(approved[f])
    /\ Goto(f, "refresh")
    /\ UNCHANGED <<approved, closure, seen, report, late, changes, faults>>

CreateClosure(f) ==
    /\ pc[f] = "create"
    /\ \/ /\ HeadIs(approved[f])
          /\ PushClosure(approved[f])
          /\ Goto(f, "refresh")
          /\ UNCHANGED <<approved, closure, seen, report>>
       \/ /\ ~HeadIs(approved[f])
          /\ Exit(f, "head_race")
          /\ UNCHANGED repoVars
    /\ UNCHANGED <<late, changes, faults>>

\* What a later snapshot must still show (lines 254-261 and 265-271).
StillMergeable(snap, substantive, expected_head) ==
    IF snap.substantive_head # substantive THEN "invalid_evidence"
    ELSE IF ~ClosureIsExact(snap, ExpectedText(substantive), substantive)
    THEN "invalid_evidence"
    ELSE ChecksVerdict(snap, expected_head)

ReadRefreshed(f) ==
    LET snap == Snapshot
        verdict == SnapshotVerdict(snap)
        result == IF verdict # "valid" THEN verdict
                  ELSE StillMergeable(snap, approved[f], snap.head)
    IN  /\ pc[f] = "refresh"
        /\ \/ /\ result # "valid"
              /\ Exit(f, result)
           \/ /\ result = "valid"
              /\ Goto(f, "boundary")
              /\ closure' = [closure EXCEPT ![f] = snap.head]
              /\ UNCHANGED <<approved, seen, report>>
        /\ UNCHANGED <<repoVars, late, changes, faults>>

\* The second fresh read, "the decision boundary immediately before CAS merge".
\* No handler surrounds this validation: a StopIteration escapes _run and run.
ReadBoundary(f) ==
    LET snap == Snapshot
        verdict == SnapshotVerdict(snap)
        result == IF verdict \in StopIterations THEN "uncaught_exception"
                  ELSE IF verdict # "valid" THEN verdict
                  ELSE StillMergeable(snap, approved[f], closure[f])
    IN  /\ pc[f] = "boundary"
        /\ \/ /\ result # "valid"
              /\ Exit(f, result)
           \/ /\ result = "valid"
              /\ Goto(f, "merge")
              /\ seen' = [seen EXCEPT ![f] = Len(decisions)]
              /\ UNCHANGED <<approved, closure, report>>
        /\ UNCHANGED <<repoVars, late, changes, faults>>

\* The merge itself, of whatever HEAD the provider compared.  Repeating it on a merged PR whose
\* HEAD still matches changes nothing and succeeds.
LandMerge(n) ==
    /\ IF pr.status = "OPEN"
       THEN /\ landed' = [head |-> CurrentHead, by |-> "finalizer", seen |-> n]
            /\ pr' = [pr EXCEPT !.status = "MERGED"]
       ELSE UNCHANGED <<landed, pr>>
    /\ UNCHANGED <<history, decisions, green>>

\* Slip: the provider's answer is not looked at.
MergeAssumingOk(f) ==
    /\ pc[f] = "merge"
    /\ IF HeadIs(closure[f]) /\ pr.status # "CLOSED" THEN LandMerge(seen[f]) ELSE UNCHANGED repoVars
    /\ Exit(f, "finalized")
    /\ UNCHANGED <<late, changes, faults>>

Merge(f) ==
    /\ pc[f] = "merge"
    /\ \/ /\ HeadIs(closure[f]) /\ pr.status # "CLOSED"
          /\ LandMerge(seen[f])
          /\ Exit(f, "finalized")
       \/ /\ ~HeadIs(closure[f])
          /\ Exit(f, "head_race")
          /\ UNCHANGED repoVars
       \/ /\ HeadIs(closure[f]) /\ pr.status = "CLOSED"
          /\ Exit(f, "mechanical_failure")
          /\ UNCHANGED repoVars
    /\ UNCHANGED <<late, changes, faults>>

(***************************************************************************)
(* Faults.                                                                 *)
(***************************************************************************)
Outstanding(f) ==
    IF pc[f] = "create"
    THEN {[op |-> "create_closure", expected_head |-> approved[f], seen |-> 0]}
    ELSE IF pc[f] = "merge"
    THEN {[op |-> "merge", expected_head |-> closure[f], seen |-> seen[f]]}
    ELSE {}

Fault == faults < MaxFaults /\ faults' = faults + 1 /\ UNCHANGED changes

\* Provider.call raises ProviderFailure, at the launch or after it; a mutation may have
\* been sent.
ProviderFails(f) ==
    /\ pc[f] # "idle"
    /\ Exit(f, "mechanical_failure")
    /\ late' = late \cup Outstanding(f)
    /\ Fault
    /\ UNCHANGED repoVars

\* A snapshot with a missing, malformed or foreign field; a decision that cannot even be
\* looked up in DECISIONS is an exception of no handler.  At "initial" this is also an
\* argument for the provider that is no list of words, or not JSON.
MalformedSnapshot(f) ==
    /\ pc[f] \in {"initial", "refresh", "boundary"}
    /\ \E c \in {"invalid_evidence", "uncaught_exception"} : Exit(f, c)
    /\ Fault
    /\ UNCHANGED <<repoVars, late>>

\* The process dies; the provider it had started lives on.
Kill(f) ==
    /\ pc[f] # "idle"
    /\ Exit(f, "killed")
    /\ late' = late \cup Outstanding(f)
    /\ Fault
    /\ UNCHANGED repoVars

LateRequest(r) ==
    /\ late' = late \ {r}
    /\ \/ r.op = "create_closure" /\ HeadIs(r.expected_head)
          /\ PushClosure(r.expected_head)
       \/ r.op = "merge" /\ HeadIs(r.expected_head) /\ pr.status # "CLOSED"
          /\ LandMerge(r.seen)
    /\ UNCHANGED <<procVars, changes, faults>>

(***************************************************************************)
(* Everyone else, outside this program: the worker, the supervisor, the    *)
(* checks, GitHub's mergeability computation and the owner.                *)
(***************************************************************************)
Pushes == Cardinality({i \in DOMAIN history : history[i].by = "worker"}) - 1

\* New work: it becomes the substantive HEAD.
WorkerPushesWork(text) ==
    /\ pr.status = "OPEN" /\ Pushes < MaxPushes
    /\ history' = Append(history, [substantive |-> CurrentHead + 1, paths |-> {},
                                   text |-> text, by |-> "worker"])
    /\ UNCHANGED <<decisions, pr, green, landed, procVars, late, changes, faults>>

\* A commit the provider reports as derived from the same substantive HEAD: a
\* closure made by hand, exact or not, or an addition to one.
WorkerPushesDerived(paths, text) ==
    /\ pr.status = "OPEN" /\ Pushes < MaxPushes
    /\ "queue" \in paths \/ text = history[CurrentHead].text
    /\ history' = Append(history, [substantive |-> Substantive,
                                   paths |-> history[CurrentHead].paths \cup paths,
                                   text |-> text, by |-> "worker"])
    /\ UNCHANGED <<decisions, pr, green, landed, procVars, late, changes, faults>>

SupervisorDecides(d) ==
    /\ pr.status = "OPEN" /\ Len(decisions) < MaxDecisions
    /\ decisions' = Append(decisions, d)
    /\ UNCHANGED <<history, pr, green, landed, procVars, late, changes, faults>>

ChecksSucceed ==
    /\ CurrentHead \notin green
    /\ green' = green \cup {CurrentHead}
    /\ UNCHANGED <<history, decisions, pr, landed, procVars, late, changes, faults>>

MergeabilityComputed ==
    /\ pr.status = "OPEN" /\ ~pr.mergeable
    /\ pr' = [pr EXCEPT !.mergeable = TRUE]
    /\ UNCHANGED <<history, decisions, green, landed, procVars, late, changes, faults>>

Change == changes < MaxChanges /\ changes' = changes + 1 /\ UNCHANGED <<procVars, late, faults>>

ChecksRegress ==
    /\ CurrentHead \in green
    /\ green' = green \ {CurrentHead}
    /\ Change
    /\ UNCHANGED <<history, decisions, pr, landed>>

\* The Gate, the reserved condition, mergeability or the PR's state changes.
OwnerIntervenes ==
    /\ pr.status # "MERGED"
    /\ \E g \in Gate, clear \in BOOLEAN, status \in {"OPEN", "CLOSED"} :
          pr' = [status |-> status, gate |-> g, authority_clear |-> clear,
                 mergeable |-> FALSE]
    /\ pr' # pr
    /\ Change
    /\ UNCHANGED <<history, decisions, green, landed>>

OwnerMerges ==
    /\ pr.status = "OPEN"
    /\ pr' = [pr EXCEPT !.status = "MERGED"]
    /\ landed' = [head |-> CurrentHead, by |-> "owner", seen |-> Len(decisions)]
    /\ Change
    /\ UNCHANGED <<history, decisions, green>>

Invoke(f) ==
    \/ Wake(f) \/ ReadInitial(f) \/ CreateClosure(f)
    \/ ReadRefreshed(f) \/ ReadBoundary(f) \/ Merge(f)

Failure ==
    \/ \E f \in Invocation : ProviderFails(f) \/ MalformedSnapshot(f) \/ Kill(f)
    \/ \E r \in late : LateRequest(r)

Surroundings ==
    \/ \E t \in PushedText : WorkerPushesWork(t)
    \/ \E p \in SUBSET Path \ {{}},
          t \in PushedText \cup {history[CurrentHead].text, ExpectedText(Substantive)} :
          WorkerPushesDerived(p, t)
    \/ \E k \in DecisionKind, h \in DOMAIN history :
          SupervisorDecides([decision |-> k, head |-> h])
    \/ ChecksSucceed \/ MergeabilityComputed \/ ChecksRegress
    \/ OwnerIntervenes \/ OwnerMerges

Next == (\E f \in Invocation : Invoke(f)) \/ Failure \/ Surroundings

Spec == Init /\ [][Next]_vars

\* The timer starts invocations again and again, a provider call returns, checks
\* finish and GitHub computes mergeability.
FairSpec ==
    /\ Spec
    /\ \A f \in Invocation : WF_vars(Invoke(f))
    /\ WF_vars(ChecksSucceed) /\ WF_vars(MergeabilityComputed)

(***************************************************************************)
(* Properties.                                                             *)
(***************************************************************************)
Label == {"idle", "initial", "create", "refresh", "boundary", "merge"}

\* Every variable keeps its type.
TypeOK ==
    /\ history \in Seq(CommitRecord) /\ history # <<>>
    /\ \A h \in DOMAIN history : history[h].substantive \in 1..h
    /\ decisions \in Seq(Decision)
    /\ pr \in [status : Status, gate : Gate, authority_clear : BOOLEAN,
              mergeable : BOOLEAN]
    /\ green \subseteq DOMAIN history
    /\ landed \in [head : DOMAIN history \cup {None},
                  by : {"nobody", "owner", "finalizer"}, seen : Nat]
    /\ pc \in [Invocation -> Label]
    /\ approved \in [Invocation -> DOMAIN history \cup {None}]
    /\ closure \in [Invocation -> DOMAIN history \cup {None}]
    /\ seen \in [Invocation -> 0..Len(decisions)]
    /\ report \in [Invocation -> Classification \cup
                                {"none", "killed", "uncaught_exception"}]
    /\ late \subseteq Request
    /\ changes \in 0..MaxChanges
    /\ faults \in 0..MaxFaults

\* Whatever else ran, was killed or answered late, what a finalizer merges is the
\* exact closure of a commit whose approval stood, undisputed, when the merging
\* invocation read the decisions for the last time (lines 264-273).
MergedIsApprovedClosure ==
    landed.by = "finalizer" =>
        /\ IsClosure(history, landed.head)
        /\ StandsAt(decisions, landed.seen, history[landed.head].substantive)

\* Every commit a finalizer adds to the branch is the exact closure of the commit
\* right below it, which the supervisor had approved: no second closure, no
\* closure of unreviewed work, also after lost replies and from rival
\* invocations (lines 238-250).
EveryClosureIsDerived ==
    \A h \in DOMAIN history :
        history[h].by = "finalizer" =>
            /\ IsClosure(history, h)
            /\ \E n \in 0..Len(decisions) : StandsAt(decisions, n, h - 1)

\* The inductive invariant behind the two properties above.  A commit some
\* invocation set out to close stays closable, a closure some invocation validated
\* at its boundary read stays mergeable with the decisions it saw, and this holds
\* of requests that outlive their senders too.
Closable(s) ==
    /\ s \in DOMAIN history
    /\ history[s].substantive = s
    /\ Replaceable(history[s].text)
    /\ \E n \in 0..Len(decisions) : StandsAt(decisions, n, s)

Validated(h, n) ==
    /\ h \in DOMAIN history /\ n \in 0..Len(decisions)
    /\ IsClosure(history, h)
    /\ StandsAt(decisions, n, history[h].substantive)

SubstantiveIsARoot ==
    \A h \in DOMAIN history :
        history[history[h].substantive].substantive = history[h].substantive

InvocationKnows(f) ==
    /\ pc[f] \in {"create", "refresh", "boundary"} => Closable(approved[f])
    /\ pc[f] = "merge" => Validated(closure[f], seen[f])

RequestKnows(r) ==
    /\ r.op = "create_closure" => Closable(r.expected_head)
    /\ r.op = "merge" => Validated(r.expected_head, r.seen)

LandedInv ==
    /\ pr.status = "MERGED" <=> landed.by # "nobody"
    /\ landed.by = "finalizer" => Validated(landed.head, landed.seen)
    /\ landed.by # "nobody" =>
          /\ landed.head # None
          /\ \A f \in Invocation : pc[f] = "merge" => closure[f] <= landed.head

\* What an invocation, a late request or the landing record remembers of the
\* branch and the decisions is true of them (lines 226-278).
MemoryIsTrue ==
    /\ SubstantiveIsARoot
    /\ \A f \in Invocation : InvocationKnows(f)
    /\ \A r \in late : RequestKnows(r)
    /\ LandedInv
    /\ EveryClosureIsDerived

Authorised ==
    /\ pr.status = "OPEN" /\ pr.gate = "AI" /\ pr.authority_clear
    /\ ApprovalStands(decisions, Substantive)

\* A mutation is requested only in a state that authorises it: an approved head
\* still in AI_REVIEW for a closure; its exact closure, mergeable and with all
\* checks green, for a merge (lines 128-213, 238-240, 264-273).
RequestsAreAuthorised ==
    [][\A f \in Invocation :
        /\ pc'[f] = "create" /\ pc[f] # "create" =>
              Authorised /\ CurrentHead = Substantive
                         /\ Replaceable(history[CurrentHead].text)
        /\ pc'[f] = "merge" /\ pc[f] # "merge" =>
              Authorised /\ IsClosure(history, CurrentHead)
                         /\ pr.mergeable /\ CurrentHead \in green]_vars

\* "finalized" is never printed of a PR that did not land at the closure the
\* invocation reports, not even when a rival, the owner or a late request
\* merged first (lines 272-278).
FinalizedIsMerged ==
    [][\A f \in Invocation :
        report'[f] = "finalized" /\ report[f] # "finalized" =>
            landed'.by # "nobody" /\ landed'.head = closure[f]]_vars

\* The PR can be finalized as it stands: only checks, mergeability and further
\* invocations are missing.
Finalizable ==
    /\ Authorised
    /\ \/ CurrentHead = Substantive /\ Replaceable(history[CurrentHead].text)
       \/ IsClosure(history, CurrentHead)

\* If the PR stays finalizable until it is merged, it is merged: by a resumed
\* invocation if the first was killed, lost a reply or found checks pending.
FinalizableIsMerged ==
    <>[](Finalizable \/ pr.status = "MERGED") => <>(pr.status = "MERGED")

\* docs/EXECUTION.md:194 says the executable emits exactly one JSON object.
EmitsOneObject == \A f \in Invocation : report[f] # "uncaught_exception"

\* The abstract promise of GateAIClosure, with the invocations' own state hidden.
Abstract == INSTANCE GateAIClosure
                WITH merged <- [head |-> landed.head, by |-> landed.by]

\* Concurrent, killed and late invocations together only ever take the two steps
\* an atomic finalizer could take.
ImplementsGateAIClosure == Abstract!Spec
=============================================================================
