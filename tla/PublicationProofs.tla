-------------------------- MODULE PublicationProofs --------------------------
(***************************************************************************)
(* Publication's safety properties, for every finite set of checkouts,     *)
(* every set of names and any number of crashes and reviews.               *)
(***************************************************************************)
EXTENDS Publication, FiniteSetTheorems, TLAPS

Unpublished(facts) == ~facts.branch_exists /\ ~facts.pr_exists

\* Wakes that may still push a branch which they believe to be the first.
Pushers ==
    {h \in Host : pc[h] \in {"recover", "work", "identify", "push"} /\ Unpublished(known[h])}

\* The recovery rule lets only a wake that saw no publication work; what is given a pull
\* request was pushed.
WakeInv(h) ==
    /\ pc[h] \in {"work", "identify", "push"} => Unpublished(known[h])
    /\ pc[h] = "push" => identity[h] \in Name
    /\ pc[h] = "open_pr" => identity[h] \in branches

\* Every branch used up a wake of a checkout of its own.
SpentInv ==
    /\ IsFiniteSet(branches)
    /\ branches # {} => Cardinality(branches) + Cardinality(Pushers) <= Cardinality(Host)

Inv == TypeOK /\ prs \subseteq branches /\ SpentInv /\ \A h \in Host : WakeInv(h)

(***************************************************************************)
(* Facts about the rules.                                                  *)
(***************************************************************************)

\* Only an unpublished item is worked on.
LEMMA WorkIsUnpublished ==
    ASSUME NEW facts \in Facts, NEW flag \in BOOLEAN,
           Route(RecoveryAction(facts, flag)) = "work"
    PROVE  Unpublished(facts)
  BY DEF Facts, RecoveryAction, Route, Unpublished

\* An answer leads to one of three places.
LEMMA RouteFacts ==
    ASSUME NEW action PROVE Route(action) \in {"work", "reconcile", "idle"}
  BY DEF Route

\* What is refreshed are facts, and a branch that exists is among them.
LEMMA RefreshFacts ==
    ASSUME TypeOK
    PROVE  FreshFacts \in Facts /\ (branches # {} => ~Unpublished(FreshFacts))
  BY DEF TypeOK, FreshFacts, Facts, Unpublished

\* The identity to publish is a name.
LEMMA IdentityFacts ==
    ASSUME NEW durable_branch \in Name \cup {None}, NEW local_branch,
           NEW derived \in Name, NEW remote_branches \in SUBSET Name
    PROVE  ReconcileIdentity(durable_branch, local_branch, derived, remote_branches).branch
              \in Name
  BY DEF ReconcileIdentity, Answer

(***************************************************************************)
(* A step of a wake.                                                       *)
(***************************************************************************)
Step(h) == Proceed(h) \/ Crash(h)

\* What it leaves alone of the others, and that branches and pull requests stay.
Frame(h) ==
    /\ branches \subseteq branches'
    /\ \A g \in Host \ {h} : pc'[g] = pc[g] /\ known'[g] = known[g] /\ identity'[g] = identity[g]

\* A step of one wake is not noticed by the others.
LEMMA StepFrame ==
    ASSUME TypeOK, NEW h \in Host, Step(h) PROVE Frame(h)
  <1> USE DEF TypeOK, Frame, remote, Goto
  <1>1. CASE Refresh(h)
    BY <1>1 DEF Refresh
  <1>2. CASE Recover(h)
    BY <1>2 DEF Recover
  <1>3. CASE Reconcile(h)
    BY <1>3 DEF Reconcile
  <1>4. CASE WorkerFinishes(h)
    BY <1>4 DEF WorkerFinishes
  <1>5. CASE Identify(h)
    BY <1>5 DEF Identify
  <1>6. CASE Push(h)
    BY <1>6 DEF Push
  <1>7. CASE OpenPr(h)
    BY <1>7 DEF OpenPr
  <1>8. CASE HandOff(h)
    BY <1>8 DEF HandOff
  <1>9. CASE Crash(h)
    BY <1>9 DEF Crash
  <1>10. QED
    BY <1>1, <1>2, <1>3, <1>4, <1>5, <1>6, <1>7, <1>8, <1>9 DEF Step, Proceed

\* A step of a wake keeps the types and what holds of the wake.
LEMMA StepWake ==
    ASSUME TypeOK, prs \subseteq branches, NEW h \in Host, WakeInv(h), Step(h)
    PROVE  TypeOK' /\ prs' \subseteq branches' /\ WakeInv(h)'
  <1> USE DEF TypeOK, WakeInv, remote, checkout, counts, Goto, Label, State
  <1>1. CASE Refresh(h)
    BY <1>1, RefreshFacts DEF Refresh
  <1>2. CASE Recover(h)
    <2> DEFINE target == Route(RecoveryAction(known[h], complete[h]))
    <2>1. target \in {"work", "reconcile", "idle"} /\ (target = "work" => Unpublished(known[h]))
      BY WorkIsUnpublished, RouteFacts
    <2> HIDE DEF target
    <2>2. pc' = [pc EXCEPT ![h] = target]
      BY <1>2 DEF Recover, target
    <2>3. QED
      BY <1>2, <2>1, <2>2 DEF Recover
  <1>3. CASE Reconcile(h)
    BY <1>3 DEF Reconcile
  <1>4. CASE WorkerFinishes(h)
    BY <1>4 DEF WorkerFinishes
  <1>5. CASE Identify(h)
    <2>1. PICK derived \in Name, durable_branch \in IF prs = {} THEN {None} ELSE prs :
            LET answer == ReconcileIdentity(durable_branch, local[h], derived, branches)
                publish == answer.should_derive \/ answer.class = "preserved_durable_identity"
            IN  \/ /\ publish
                   /\ identity' = [identity EXCEPT ![h] = answer.branch]
                   /\ local' = [local EXCEPT ![h] = answer.branch]
                   /\ Goto(h, "push")
                \/ /\ ~publish
                   /\ Goto(h, "idle")
                   /\ UNCHANGED <<identity, local>>
      BY <1>5 DEF Identify
    <2> DEFINE name == ReconcileIdentity(durable_branch, local[h], derived, branches).branch
    <2>2. name \in Name
      BY <2>1, IdentityFacts
    <2>3. \/ /\ identity' = [identity EXCEPT ![h] = name]
             /\ local' = [local EXCEPT ![h] = name]
             /\ pc' = [pc EXCEPT ![h] = "push"]
          \/ pc' = [pc EXCEPT ![h] = "idle"] /\ UNCHANGED <<identity, local>>
      BY <2>1
    <2> HIDE DEF name
    <2>4. QED
      BY <1>5, <2>2, <2>3 DEF Identify
  <1>6. CASE Push(h)
    BY <1>6 DEF Push
  <1>7. CASE OpenPr(h)
    BY <1>7 DEF OpenPr
  <1>8. CASE HandOff(h)
    BY <1>8 DEF HandOff
  <1>9. CASE Crash(h)
    <2>1. crashes + 1 \in 0 .. MaxCrashes
      BY <1>9, ConstantsAssumption DEF Crash
    <2>2. QED
      BY <1>9, <2>1 DEF Crash
  <1>10. QED
    BY <1>1, <1>2, <1>3, <1>4, <1>5, <1>6, <1>7, <1>8, <1>9 DEF Step, Proceed

\* A wake adds a branch only if it saw none, and is a pusher no longer; nobody becomes
\* a pusher once there is a branch.
LEMMA StepPushers ==
    ASSUME TypeOK, NEW h \in Host, WakeInv(h), Step(h)
    PROVE  /\ branches' = branches \/ (h \in Pushers /\ pc[h] = "push" /\ identity[h] \in Name
                                         /\ branches' = branches \cup {identity[h]})
           /\ branches' # branches => h \notin Pushers'
           /\ branches # {} => Pushers' \subseteq Pushers
  <1>1. Frame(h)
    BY StepFrame
  <1>2. CASE Push(h)
    BY <1>1, <1>2 DEF Push, Goto, TypeOK, WakeInv, Frame, Pushers
  <1>3. CASE Refresh(h)
    BY <1>1, <1>3, RefreshFacts DEF Refresh, remote, Goto, TypeOK, Frame, Pushers
  <1>4. CASE ~Push(h) /\ ~Refresh(h)
    <2>1. /\ UNCHANGED <<branches, known>>
          /\ pc'[h] \in {"work", "identify", "push", "recover"} =>
                pc[h] \in {"recover", "work", "identify"}
      BY <1>4 DEF Step, Proceed, Recover, Reconcile, WorkerFinishes, Identify, OpenPr,
                  HandOff, Crash, remote, Goto, TypeOK
    <2>2. QED
      BY <1>1, <2>1 DEF Frame, Pushers
  <1>5. QED
    BY <1>2, <1>3, <1>4

\* The cardinality argument.
LEMMA StepSpent ==
    ASSUME TypeOK, SpentInv, NEW h \in Host, WakeInv(h), Step(h) PROVE SpentInv'
  <1>1. /\ IsFiniteSet(Host) /\ Cardinality(Host) \in Nat
        /\ IsFiniteSet(Pushers) /\ Cardinality(Pushers) \in Nat
        /\ IsFiniteSet(branches) /\ Cardinality(branches) \in Nat
    <2>1. Pushers \subseteq Host
      BY DEF Pushers
    <2>2. QED
      BY <2>1, ConstantsAssumption, FS_Subset, FS_CardinalityType DEF SpentInv
  <1>2. IsFiniteSet(Pushers') /\ Cardinality(Pushers') \in Nat
    <2>1. Pushers' \subseteq Host
      BY DEF Pushers
    <2>2. QED
      BY <1>1, <2>1, FS_Subset, FS_CardinalityType
  <1>3. CASE branches' = branches
    <2>1. branches # {} => Cardinality(Pushers') <= Cardinality(Pushers)
      BY <1>1, StepPushers, FS_Subset
    <2>2. QED
      BY <1>1, <1>2, <1>3, <2>1 DEF SpentInv
  <1>4. CASE branches' # branches
    <2>1. /\ branches' = branches \cup {identity[h]} /\ identity[h] \notin branches
          /\ h \in Pushers /\ h \notin Pushers'
      BY <1>4, StepPushers
    <2>2. IsFiniteSet(branches') /\ Cardinality(branches') = Cardinality(branches) + 1
      BY <1>1, <2>1, FS_AddElement
    <2>3. CASE branches = {}
      <3>1. Pushers' \subseteq Host \ {h}
        BY <2>1 DEF Pushers
      <3>2. /\ IsFiniteSet(Host \ {h})
            /\ Cardinality(Host \ {h}) = Cardinality(Host) - 1
        BY <1>1, FS_RemoveElement
      <3>3. Cardinality(Pushers') <= Cardinality(Host) - 1
        BY <3>1, <3>2, FS_Subset
      <3>4. Cardinality(branches') = 1
        BY <2>2, <2>3, FS_EmptySet
      <3>5. QED
        BY <1>1, <1>2, <2>2, <3>3, <3>4 DEF SpentInv
    <2>4. CASE branches # {}
      <3>1. Pushers' \subseteq Pushers \ {h}
        BY <2>1, <2>4, StepPushers
      <3>2. /\ IsFiniteSet(Pushers \ {h})
            /\ Cardinality(Pushers \ {h}) = Cardinality(Pushers) - 1
        BY <1>1, <2>1, FS_RemoveElement
      <3>3. Cardinality(Pushers') <= Cardinality(Pushers) - 1
        BY <3>1, <3>2, FS_Subset
      <3>4. QED
        BY <1>1, <1>2, <2>2, <2>4, <3>3 DEF SpentInv
    <2>5. QED
      BY <2>3, <2>4
  <1>5. QED
    BY <1>3, <1>4

(***************************************************************************)
(* The inductive invariant.                                                *)
(***************************************************************************)

\* It holds before the first wake.
LEMMA InitInv == Init => Inv
  <1> SUFFICES ASSUME Init PROVE Inv
    OBVIOUS
  <1>1. TypeOK
    BY ConstantsAssumption DEF Init, TypeOK, FreshFacts, Facts, Label, State
  <1>2. SpentInv
    BY FS_EmptySet DEF Init, SpentInv
  <1>3. QED
    BY <1>1, <1>2 DEF Init, Inv, WakeInv

\* Every step keeps it.
LEMMA NextInv == Inv /\ [Next]_vars => Inv'
  <1> SUFFICES ASSUME Inv, [Next]_vars PROVE Inv'
    OBVIOUS
  <1>a. TypeOK /\ prs \subseteq branches /\ SpentInv /\ \A h \in Host : WakeInv(h)
    BY DEF Inv
  <1>1. ASSUME NEW h \in Host, Step(h) PROVE Inv'
    <2>1. TypeOK' /\ prs' \subseteq branches' /\ WakeInv(h)' /\ SpentInv' /\ Frame(h)
      BY <1>1, <1>a, StepWake, StepSpent, StepFrame
    <2>2. ASSUME NEW g \in Host, g # h PROVE WakeInv(g)'
      BY <1>a, <2>1, <2>2 DEF Frame, WakeInv
    <2>3. QED
      BY <2>1, <2>2 DEF Inv
  <1>2. CASE SupervisorAsksForRework
    <2>1. reviews + 1 \in 0 .. MaxReviews
      BY <1>2, <1>a, ConstantsAssumption DEF TypeOK, SupervisorAsksForRework
    <2>2. UNCHANGED <<branches, prs, pc, known, checkout, identity, crashes>>
      BY <1>2 DEF SupervisorAsksForRework
    <2>3. TypeOK'
      BY <1>2, <1>a, <2>1, <2>2 DEF TypeOK, SupervisorAsksForRework, State, checkout
    <2>4. SpentInv' /\ \A h \in Host : WakeInv(h)'
      BY <1>a, <2>2 DEF SpentInv, Pushers, WakeInv
    <2>5. QED
      BY <1>a, <2>2, <2>3, <2>4 DEF Inv
  <1>3. CASE UNCHANGED vars
    BY <1>3, <1>a
    DEF Inv, TypeOK, SpentInv, Pushers, WakeInv, vars, remote, checkout, counts
  <1>4. QED
    BY <1>1, <1>2, <1>3 DEF Next, Step

\* It holds of every state of every behaviour.
LEMMA InvAlways == Spec => []Inv
  BY InitInv, NextInv, PTL DEF Spec

(***************************************************************************)
(* Theorems.                                                               *)
(***************************************************************************)

\* Every variable keeps its type.
THEOREM TypeCorrect == Spec => []TypeOK
  <1>1. Inv => TypeOK
    BY DEF Inv
  <1>2. QED
    BY <1>1, InvAlways, PTL

\* However many wakes die, n checkouts publish n branches at most, one checkout one.
THEOREM OneIdentity == Spec => []OneIdentityPerCheckout
  <1>1. ASSUME Inv PROVE OneIdentityPerCheckout
    <2>1. Pushers \subseteq Host
      BY DEF Pushers
    <2>2. /\ Cardinality(Host) \in Nat /\ Cardinality(Pushers) \in Nat
          /\ Cardinality(branches) \in Nat
      BY <1>1, <2>1, ConstantsAssumption, FS_Subset, FS_CardinalityType DEF Inv, SpentInv
    <2>3. CASE branches = {}
      BY <1>1, <2>2, <2>3, FS_EmptySet DEF Inv, OneIdentityPerCheckout
    <2>4. CASE branches # {}
      BY <1>1, <2>2, <2>4 DEF Inv, SpentInv, OneIdentityPerCheckout
    <2>5. QED
      BY <2>3, <2>4
  <1>2. QED
    BY <1>1, InvAlways, PTL

\* A wake that saw a publication never adds a branch.
THEOREM KnownPublicationKept == Spec => KnownPublicationIsKept
  <1> DEFINE Kept == \A h \in Host :
                        pc[h] = "push" /\ branches' # branches =>
                           ~known[h].branch_exists /\ ~known[h].pr_exists
  <1>1. Inv /\ [Next]_vars => Kept
    BY DEF Inv, WakeInv, Unpublished
  <1>2. QED
    BY <1>1, InvAlways, PTL DEF Spec, KnownPublicationIsKept

(***************************************************************************)
(* The part of completion that needs no fairness.                          *)
(***************************************************************************)
\* What a wake saw of the remote stays true, a publication it reconciles has a branch,
\* and one that it hands off a pull request.
SeenInv(h) ==
    /\ known[h].branch_exists \/ pc[h] = "reconcile" => branches # {}
    /\ known[h].pr_exists \/ pc[h] = "hand_off" => prs # {}

\* docs/EXECUTION.md:110-112, host_boundary.py:161-164: a branch is reconciled before
\* any work.  A wake that saw one never ends without a pull request, whatever other wakes
\* did meanwhile, unless it dies; so does the next one then.
KnownBranchIsCompleted ==
    [][\A h \in Host :
          /\ pc[h] # "idle" /\ pc'[h] = "idle" /\ crashes' = crashes
          /\ known[h].branch_exists
          => prs' # {}]_vars

\* Where the recovery rule sends a wake that saw a publication.
LEMMA RouteOfPublished ==
    ASSUME NEW facts \in Facts, NEW flag \in BOOLEAN
    PROVE  /\ Route(RecoveryAction(facts, flag)) = "reconcile" =>
                 facts.branch_exists \/ facts.pr_exists
           /\ facts.branch_exists /\ ~facts.pr_exists =>
                 Route(RecoveryAction(facts, flag)) = "reconcile"
           /\ Route(RecoveryAction(facts, flag)) # "hand_off"
  BY DEF Facts, RecoveryAction, Route

\* Publications stay, so what was seen of them stays true.
LEMMA StepSeen ==
    ASSUME Inv, \A h \in Host : SeenInv(h), NEW h \in Host, Step(h)
    PROVE  \A g \in Host : SeenInv(g)'
  <1>a. /\ TypeOK /\ Frame(h) /\ WakeInv(h) /\ SeenInv(h) /\ prs \subseteq branches
        /\ known[h] \in Facts /\ complete[h] \in BOOLEAN
    BY StepFrame DEF Inv, TypeOK
  <1>1. prs \subseteq prs'
    BY DEF Step, Proceed, Refresh, Recover, Reconcile, WorkerFinishes, Identify, Push, OpenPr,
           HandOff, Crash, remote
  <1>2. SeenInv(h)'
    <2> USE DEF SeenInv, TypeOK, remote, Goto
    <2>1. CASE Refresh(h)
      BY <1>a, <2>1 DEF Refresh, FreshFacts
    <2>2. CASE Recover(h)
      <3> DEFINE target == Route(RecoveryAction(known[h], complete[h]))
      <3>1. /\ target = "reconcile" => known[h].branch_exists \/ known[h].pr_exists
            /\ target # "hand_off"
        BY <1>a, RouteOfPublished
      <3>2. pc' = [pc EXCEPT ![h] = target] /\ UNCHANGED <<remote, known>>
        BY <2>2 DEF Recover
      <3> HIDE DEF target
      <3>3. QED
        BY <1>a, <3>1, <3>2
    <2>3. CASE Reconcile(h)
      BY <1>a, <2>3 DEF Reconcile
    <2>4. CASE WorkerFinishes(h)
      BY <1>a, <2>4 DEF WorkerFinishes
    <2>5. CASE Identify(h)
      <3>1. pc'[h] \in {"push", "idle"} /\ UNCHANGED <<remote, known>>
        BY <1>a, <2>5 DEF Identify
      <3>2. QED
        BY <1>a, <3>1
    <2>6. CASE Push(h)
      BY <1>a, <1>1, <2>6 DEF Push
    <2>7. CASE OpenPr(h)
      BY <1>a, <1>1, <2>7 DEF OpenPr
    <2>8. CASE HandOff(h)
      BY <1>a, <2>8 DEF HandOff
    <2>9. CASE Crash(h)
      BY <1>a, <2>9 DEF Crash
    <2>10. QED
      BY <2>1, <2>2, <2>3, <2>4, <2>5, <2>6, <2>7, <2>8, <2>9 DEF Step, Proceed
  <1>3. ASSUME NEW g \in Host, g # h PROVE SeenInv(g)'
    BY <1>a, <1>1, <1>3 DEF Frame, SeenInv
  <1>4. QED
    BY <1>2, <1>3

\* It holds of every wake in every state of every behaviour.
LEMMA SeenAlways == Spec => [](\A h \in Host : SeenInv(h))
  <1>1. Init => \A h \in Host : SeenInv(h)
    <2> SUFFICES ASSUME Init, NEW h \in Host PROVE SeenInv(h)
      OBVIOUS
    <2>1. ~FreshFacts.branch_exists /\ ~FreshFacts.pr_exists
      BY DEF Init, FreshFacts
    <2>2. known[h] = FreshFacts /\ pc[h] = "idle"
      BY DEF Init
    <2>3. QED
      BY <2>1, <2>2 DEF SeenInv
  <1>2. Inv /\ (\A h \in Host : SeenInv(h)) /\ [Next]_vars => (\A h \in Host : SeenInv(h))'
    <2> SUFFICES ASSUME Inv, \A h \in Host : SeenInv(h), [Next]_vars
                 PROVE  \A g \in Host : SeenInv(g)'
      OBVIOUS
    <2>1. CASE \E h \in Host : Step(h)
      BY <2>1, StepSeen
    <2>2. CASE SupervisorAsksForRework \/ UNCHANGED vars
      BY <2>2 DEF SupervisorAsksForRework, vars, remote, SeenInv
    <2>3. QED
      BY <2>1, <2>2 DEF Next, Step
  <1>3. QED
    BY <1>1, <1>2, InvAlways, PTL DEF Spec

\* A branch that a wake saw has its pull request when the wake ends, unless it died.
THEOREM KnownBranchCompleted == Spec => KnownBranchIsCompleted
  <1> DEFINE Seen == \A h \in Host : SeenInv(h)
             Completed(h) == /\ pc[h] # "idle" /\ pc'[h] = "idle" /\ crashes' = crashes
                             /\ known[h].branch_exists
                             => prs' # {}
  <1>1. ASSUME Inv, Seen, [Next]_vars, NEW h \in Host PROVE Completed(h)
    <2> SUFFICES ASSUME pc[h] # "idle", pc'[h] = "idle", crashes' = crashes,
                        known[h].branch_exists
                 PROVE  prs' # {}
      OBVIOUS
    <2>a. /\ TypeOK /\ SeenInv(h) /\ WakeInv(h) /\ crashes \in Nat
          /\ known[h] \in Facts /\ complete[h] \in BOOLEAN
      BY <1>1, ConstantsAssumption DEF Inv, TypeOK
    <2>b. Proceed(h)
      <3>1. PICK g \in Host : Step(g)
        BY <1>1 DEF Next, Step, SupervisorAsksForRework, vars
      <3>2. g = h
        BY <2>a, <3>1, StepFrame DEF Frame
      <3>3. ~Crash(g)
        BY <2>a DEF Crash
      <3>4. QED
        BY <3>1, <3>2, <3>3 DEF Step
    <2>1. ~Refresh(h)
      BY DEF Refresh
    <2>2. CASE Recover(h)
      <3> DEFINE target == Route(RecoveryAction(known[h], complete[h]))
      <3>1. ~known[h].pr_exists => target = "reconcile"
        BY <2>a, RouteOfPublished
      <3>2. pc' = [pc EXCEPT ![h] = target] /\ UNCHANGED prs
        BY <2>2 DEF Recover, Goto, remote
      <3> HIDE DEF target
      <3>3. known[h].pr_exists
        BY <2>a, <3>1, <3>2 DEF TypeOK, Facts
      <3>4. QED
        BY <2>a, <3>2, <3>3 DEF SeenInv
    <2>3. CASE Reconcile(h)
      BY <2>a, <2>3 DEF Reconcile, Goto, TypeOK, remote
    <2>4. pc[h] \notin {"work", "identify", "push"}
      BY <2>a DEF WakeInv, Unpublished
    <2>5. CASE OpenPr(h) \/ HandOff(h)
      BY <2>a, <2>5 DEF OpenPr, HandOff, SeenInv
    <2>6. QED
      BY <2>b, <2>1, <2>2, <2>3, <2>4, <2>5 DEF Proceed, WorkerFinishes, Identify, Push
  <1>2. Inv /\ Seen /\ [Next]_vars => \A h \in Host : Completed(h)
    BY <1>1
  <1>3. QED
    BY <1>2, InvAlways, SeenAlways, PTL DEF Spec, KnownBranchIsCompleted
=============================================================================
