----------------------------- MODULE Publication -----------------------------
(***************************************************************************)
(* One work item across wakes: the rules recovery_action and                *)
(* reconcile_identity of runtime/host_boundary.py, followed by the recovery  *)
(* child and the host phase, and the runner's routing between them and the   *)
(* worker.  A wake may die between any two steps, leaving a branch without a *)
(* pull request, or finished work that was never pushed.  The worker, the    *)
(* remote, the recovery child and the host phase are not in the repository:  *)
(* they do here what the rules tell them, as docs/EXECUTION.md describes.    *)
(***************************************************************************)
EXTENDS Integers, FiniteSets

CONSTANTS Host,        \* checkouts with a timer of their own
          Name,        \* branch names the item may be given
          None,        \* no branch, no pull request
          MaxCrashes,  \* bound: wakes that die
          MaxReviews   \* bound: decisions that ask for rework

ASSUME ConstantsAssumption ==
    /\ None \notin Name /\ IsFiniteSet(Host)
    /\ MaxCrashes \in Nat /\ MaxReviews \in Nat

VARIABLES
    branches,  \* remote branches of the item
    prs,       \* those of them with a pull request
    durable,   \* the item's durable state
    pc,        \* where the wake of each checkout is
    known,     \* durable facts the wake refreshed when it began
    local,     \* branch checked out for the item
    complete,  \* local flag: the worker finished and nothing was pushed yet
    identity,  \* branch the wake publishes to
    crashes, reviews

remote == <<branches, prs, durable>>
checkout == <<local, complete>>
counts == <<crashes, reviews>>
vars == <<remote, pc, known, checkout, identity, counts>>

State == {"READY", "WORKING", "AI_REVIEW", "AI_REWORK"}
Label == {"idle", "recover", "reconcile", "work", "identify", "push", "open_pr", "hand_off"}

Facts == [state : State, branch_exists : BOOLEAN, pr_exists : BOOLEAN]

FreshFacts == [state |-> durable, branch_exists |-> branches # {}, pr_exists |-> prs # {}]

Init ==
    /\ branches = {} /\ prs = {} /\ durable = "READY"
    /\ pc = [h \in Host |-> "idle"]
    /\ known = [h \in Host |-> FreshFacts]
    /\ local = [h \in Host |-> None]
    /\ complete = [h \in Host |-> FALSE]
    /\ identity = [h \in Host |-> None]
    /\ crashes = 0 /\ reviews = 0

(***************************************************************************)
(* The rules.                                                              *)
(***************************************************************************)
\* Slip: a branch without a pull request does not count as publication.
RecoveryActionPrOnly(facts, result_complete) ==
    CASE facts.pr_exists ->
            IF facts.state = "AI_REVIEW" THEN "reconciled_no_action"
            ELSE "reconcile_existing_publication"
      [] ~facts.pr_exists /\ result_complete -> "validate_and_publish"
      [] ~facts.pr_exists /\ ~result_complete -> "invoke_worker"

RecoveryAction(facts, result_complete) ==
    LET published == facts.pr_exists \/ facts.branch_exists
    IN  CASE facts.state = "AI_REVIEW" /\ facts.pr_exists -> "reconciled_no_action"
          [] ~(facts.state = "AI_REVIEW" /\ facts.pr_exists) /\ published ->
                "reconcile_existing_publication"
          [] ~published /\ result_complete -> "validate_and_publish"
          [] ~published /\ ~result_complete -> "invoke_worker"

Answer(class, branch, derive) == [class |-> class, branch |-> branch, should_derive |-> derive]

\* The branch of the pull request is the durable identity, so the code's first case, a
\* durable_pr without a durable_branch, does not arise.
ReconcileIdentity(durable_branch, local_branch, derived_branch, remote_branches) ==
    IF durable_branch # None
    THEN IF local_branch \in {None, durable_branch}
         THEN Answer("preserved_durable_identity", durable_branch, FALSE)
         ELSE Answer("branch_ref_mismatch", durable_branch, FALSE)
    ELSE IF local_branch \in remote_branches
    THEN Answer("unverified_existing_remote_identity", local_branch, FALSE)
    ELSE IF derived_branch \in remote_branches
    THEN Answer("unverified_existing_remote_identity", derived_branch, FALSE)
    ELSE Answer("new_identity", derived_branch, TRUE)

\* Slip: an unknown action is not rejected.
RouteUnknown(action) ==
    CASE action = "invoke_worker" -> "work"
      [] action = "reconcile_existing_publication" -> "reconcile"
      [] action = "reconciled_no_action" -> "idle"
      [] action = "validate_and_publish" -> action

\* runner: where a wake goes after the recovery child answered; an action it does not
\* know is a recovery failure.
Route(action) ==
    CASE action = "invoke_worker" -> "work"
      [] action = "reconcile_existing_publication" -> "reconcile"
      [] action \notin {"invoke_worker", "reconcile_existing_publication"} -> "idle"

(***************************************************************************)
(* One wake.                                                               *)
(***************************************************************************)
Goto(h, label) == pc' = [pc EXCEPT ![h] = label]

Refresh(h) ==
    /\ pc[h] = "idle"
    /\ Goto(h, "recover")
    /\ known' = [known EXCEPT ![h] = FreshFacts]
    /\ UNCHANGED <<remote, checkout, identity, counts>>

Recover(h) ==
    /\ pc[h] = "recover"
    /\ Goto(h, Route(RecoveryAction(known[h], complete[h])))
    /\ UNCHANGED <<remote, known, checkout, identity, counts>>

\* The recovery child completes what is missing of an existing publication.
Reconcile(h) ==
    /\ pc[h] = "reconcile"
    /\ \/ /\ prs = {}
          /\ \E b \in branches : identity' = [identity EXCEPT ![h] = b]
          /\ Goto(h, "open_pr")
       \/ /\ prs # {} /\ durable = "WORKING"
          /\ \E b \in prs : identity' = [identity EXCEPT ![h] = b]
          /\ Goto(h, "hand_off")
       \/ /\ prs # {} /\ durable # "WORKING"
          /\ Goto(h, "idle")
          /\ UNCHANGED identity
    /\ UNCHANGED <<remote, known, checkout, counts>>

\* The worker works in the checkout; the host phase follows.
WorkerFinishes(h) ==
    /\ pc[h] = "work"
    /\ Goto(h, "identify")
    /\ complete' = [complete EXCEPT ![h] = TRUE]
    /\ UNCHANGED <<remote, known, local, identity, counts>>

\* The name is derived anew each time and may come out differently.
Identify(h) ==
    /\ pc[h] = "identify"
    /\ \E derived \in Name, durable_branch \in IF prs = {} THEN {None} ELSE prs :
          LET answer == ReconcileIdentity(durable_branch, local[h], derived, branches)
              publish == answer.should_derive \/ answer.class = "preserved_durable_identity"
          IN  \/ /\ publish
                 /\ identity' = [identity EXCEPT ![h] = answer.branch]
                 /\ local' = [local EXCEPT ![h] = answer.branch]
                 /\ Goto(h, "push")
              \/ /\ ~publish
                 /\ Goto(h, "idle")
                 /\ UNCHANGED <<identity, local>>
    /\ UNCHANGED <<remote, known, complete, counts>>

\* The remote creates a branch that is absent; a push to one that exists may be
\* rejected, being no fast-forward.
Push(h) ==
    /\ pc[h] = "push"
    /\ \/ /\ branches' = branches \cup {identity[h]}
          /\ durable' = IF identity[h] \in branches THEN durable ELSE "WORKING"
          /\ complete' = [complete EXCEPT ![h] = FALSE]
          /\ Goto(h, "open_pr")
       \/ /\ identity[h] \in branches
          /\ Goto(h, "idle")
          /\ UNCHANGED <<branches, durable, complete>>
    /\ UNCHANGED <<prs, known, local, identity, counts>>

OpenPr(h) ==
    /\ pc[h] = "open_pr"
    /\ prs' = prs \cup {identity[h]}
    /\ Goto(h, "hand_off")
    /\ UNCHANGED <<branches, durable, known, checkout, identity, counts>>

HandOff(h) ==
    /\ pc[h] = "hand_off"
    /\ durable' = "AI_REVIEW"
    /\ Goto(h, "idle")
    /\ UNCHANGED <<branches, prs, known, checkout, identity, counts>>

\* The wake dies; what it left in the checkout survives it or is made anew.
Crash(h) ==
    /\ pc[h] # "idle" /\ crashes < MaxCrashes /\ crashes' = crashes + 1
    /\ Goto(h, "idle")
    /\ \/ UNCHANGED checkout
       \/ /\ local' = [local EXCEPT ![h] = None]
          /\ complete' = [complete EXCEPT ![h] = FALSE]
    /\ UNCHANGED <<remote, known, identity, reviews>>

SupervisorAsksForRework ==
    /\ durable = "AI_REVIEW" /\ reviews < MaxReviews /\ reviews' = reviews + 1
    /\ durable' = "AI_REWORK"
    /\ UNCHANGED <<branches, prs, pc, known, checkout, identity, crashes>>

Proceed(h) ==
    \/ Refresh(h) \/ Recover(h) \/ Reconcile(h) \/ WorkerFinishes(h) \/ Identify(h)
    \/ Push(h) \/ OpenPr(h) \/ HandOff(h)

Next ==
    \/ \E h \in Host : Proceed(h) \/ Crash(h)
    \/ SupervisorAsksForRework

Spec == Init /\ [][Next]_vars

\* Each timer starts wakes again and again and a wake goes on.
FairSpec == Spec /\ \A h \in Host : WF_vars(Proceed(h))

(***************************************************************************)
(* Properties.                                                             *)
(***************************************************************************)

\* Every variable keeps its type.
TypeOK ==
    /\ branches \subseteq Name /\ prs \subseteq Name /\ durable \in State
    /\ pc \in [Host -> Label] /\ known \in [Host -> Facts]
    /\ local \in [Host -> Name \cup {None}] /\ complete \in [Host -> BOOLEAN]
    /\ identity \in [Host -> Name \cup {None}]
    /\ crashes \in 0 .. MaxCrashes /\ reviews \in 0 .. MaxReviews

\* docs/EXECUTION.md:110-112 says an existing identity is preserved and the host never
\* derives or publishes a duplicate.  The flock makes a checkout's wakes one after the
\* other, so each checkout can publish one name at most, whatever wake died where,
\* whatever its checkout remembers after that and whatever name is derived then: a
\* single checkout never makes a duplicate.  Pull requests are of pushed branches.
OneIdentityPerCheckout ==
    Cardinality(branches) <= Cardinality(Host) /\ prs \subseteq branches

\* A wake that saw a branch or a pull request when it refreshed never adds a branch:
\* only wakes of two checkouts that began before either pushed can duplicate.
KnownPublicationIsKept ==
    [][\A h \in Host :
          pc[h] = "push" /\ branches' # branches =>
              ~known[h].branch_exists /\ ~known[h].pr_exists]_vars

\* A branch that was pushed gets its pull request, by a later wake if need be.
PublicationCompletes == branches # {} ~> prs # {}

\* docs/EXECUTION.md:126-128 says the recovery boundary only decides to invoke the
\* worker, reconcile publication or record that nothing remains; work that is finished
\* but not published gets out of that decision.
FinishedWorkIsPublished == \A h \in Host : complete[h] ~> ~complete[h]
=============================================================================
