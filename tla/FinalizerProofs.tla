--------------------------- MODULE FinalizerProofs ---------------------------
(***************************************************************************)
(* Finalizer's type invariant and safety properties, and that it implements *)
(* GateAIClosure, for every set of invocations, every set of queue texts a *)
(* worker may push and every bound.                                        *)
(***************************************************************************)
EXTENDS Finalizer, TLAPS

(***************************************************************************)
(* Facts about the data.                                                   *)
(***************************************************************************)

\* Appending to a sequence keeps its elements and adds one at the end.
LEMMA AppendFacts ==
    ASSUME NEW S, NEW q \in Seq(S), NEW e \in S
    PROVE  /\ Append(q, e) \in Seq(S)
           /\ Append(q, e) # <<>>
           /\ Len(Append(q, e)) = Len(q) + 1
           /\ DOMAIN Append(q, e) = 1..(Len(q) + 1)
           /\ \A i \in DOMAIN q : Append(q, e)[i] = q[i]
           /\ Append(q, e)[Len(q) + 1] = e
  OBVIOUS

\* The branch has a HEAD, and the commit it reports as substantive is on it.
LEMMA BranchFacts ==
    ASSUME TypeOK
    PROVE  /\ Len(history) \in Nat /\ Len(history) >= 1
           /\ DOMAIN history = 1..Len(history)
           /\ CurrentHead \in DOMAIN history
           /\ Substantive \in DOMAIN history
           /\ \A h \in DOMAIN history : history[h] \in CommitRecord
           /\ Len(decisions) \in Nat
  BY DEF TypeOK, CurrentHead, Substantive

\* The queue edit yields a queue text.
LEMMA ExpectedTextType ==
    ASSUME TypeOK, NEW s \in DOMAIN history
    PROVE  ExpectedText(s) \in QueueText
  <1>1. history[s].text \in QueueText /\ s \in Commit
    BY BranchFacts DEF CommitRecord, Commit
  <1>2. QED
    BY <1>1 DEF ExpectedText, ReplaceQueueRow, QueueText, QueueState, Identity

\* A closure commit is a commit.
LEMMA ClosureCommitType ==
    ASSUME TypeOK, NEW s \in DOMAIN history
    PROVE  ClosureCommit(s) \in CommitRecord
  BY ExpectedTextType, BranchFacts DEF ClosureCommit, CommitRecord, Path, Commit

\* Every verdict is a classification or "valid".
LEMMA VerdictType ==
    ASSUME NEW snap, NEW s, NEW h
    PROVE  /\ SnapshotVerdict(snap) \in Classification \cup {"valid"}
           /\ StillMergeable(snap, s, h) \in Classification \cup {"valid"}
  BY DEF SnapshotVerdict, AuthorityVerdict, QueueVerdict, ApprovalVerdict,
         StillMergeable, ChecksVerdict, Classification

(***************************************************************************)
(* Type correctness.                                                       *)
(***************************************************************************)

\* The initial state is well typed.
LEMMA InitTypeOK == Init => TypeOK
  <1> SUFFICES ASSUME Init PROVE TypeOK
    OBVIOUS
  <1>1. PICK t \in PushedText :
          history = <<[substantive |-> 1, paths |-> {}, text |-> t, by |-> "worker"]>>
    BY DEF Init
  <1>2. [substantive |-> 1, paths |-> {}, text |-> t, by |-> "worker"] \in CommitRecord
    BY ConstantsAssumption DEF CommitRecord, Commit, Path
  <1>3. /\ history \in Seq(CommitRecord) /\ history # <<>>
        /\ \A h \in DOMAIN history : history[h].substantive \in 1..h
    BY <1>1, <1>2
  <1>4. decisions \in Seq(Decision) /\ Len(decisions) = 0
    BY DEF Init
  <1>5. QED
    BY <1>3, <1>4, ConstantsAssumption DEF Init, TypeOK, Status, Gate, Label, None

\* A new commit on the branch keeps the types of everything that refers to it.
LEMMA AppendCommitType ==
    ASSUME TypeOK, NEW rec \in CommitRecord,
           rec.substantive \in 1..(Len(history) + 1),
           history' = Append(history, rec)
    PROVE  /\ history' \in Seq(CommitRecord) /\ history' # <<>>
           /\ \A h \in DOMAIN history' : history'[h].substantive \in 1..h
           /\ DOMAIN history \subseteq DOMAIN history'
           /\ Len(history) + 1 \in DOMAIN history'
  <1>1. history \in Seq(CommitRecord)
    BY DEF TypeOK
  <1>2. /\ history' \in Seq(CommitRecord) /\ history' # <<>>
        /\ DOMAIN history' = 1..(Len(history) + 1)
        /\ \A i \in DOMAIN history : history'[i] = history[i]
        /\ history'[Len(history) + 1] = rec
    BY <1>1, AppendFacts
  <1>3. DOMAIN history = 1..Len(history) /\ Len(history) \in Nat
    BY BranchFacts
  <1>4. \A h \in DOMAIN history' : history'[h].substantive \in 1..h
    BY <1>2, <1>3 DEF TypeOK
  <1>5. QED
    BY <1>2, <1>3, <1>4

\* An invocation that ends leaves its own variables well typed.
LEMMA ExitType ==
    ASSUME TypeOK, NEW f \in Invocation,
           NEW c \in Classification \cup {"killed", "uncaught_exception"}, Exit(f, c)
    PROVE  /\ pc' \in [Invocation -> Label]
           /\ approved' \in [Invocation -> DOMAIN history \cup {None}]
           /\ closure' \in [Invocation -> DOMAIN history \cup {None}]
           /\ seen' \in [Invocation -> 0..Len(decisions)]
           /\ report' \in [Invocation -> Classification \cup
                                {"none", "killed", "uncaught_exception"}]
  BY BranchFacts DEF TypeOK, Exit, Label

\* The PR's fields and the landing record keep their types when something lands.
LEMMA LandType ==
    ASSUME TypeOK, NEW n \in Nat, NEW who \in {"owner", "finalizer"},
           landed' = [head |-> CurrentHead, by |-> who, seen |-> n],
           pr' = [pr EXCEPT !.status = "MERGED"]
    PROVE  /\ pr' \in [status : Status, gate : Gate, authority_clear : BOOLEAN,
                       mergeable : BOOLEAN]
           /\ landed' \in [head : DOMAIN history \cup {None},
                           by : {"nobody", "owner", "finalizer"}, seen : Nat]
  <1>1. landed' \in [head : DOMAIN history \cup {None},
                    by : {"nobody", "owner", "finalizer"}, seen : Nat]
    BY BranchFacts
  <1>2. pr' \in [status : Status, gate : Gate, authority_clear : BOOLEAN,
                mergeable : BOOLEAN]
    BY DEF TypeOK, Status
  <1>3. QED
    BY <1>1, <1>2

\* The same of the provider's merge, which may change nothing.
LEMMA LandMergeType ==
    ASSUME TypeOK, NEW n \in Nat, LandMerge(n)
    PROVE  /\ pr' \in [status : Status, gate : Gate, authority_clear : BOOLEAN,
                       mergeable : BOOLEAN]
           /\ landed' \in [head : DOMAIN history \cup {None},
                           by : {"nobody", "owner", "finalizer"}, seen : Nat]
  <1>1. CASE pr.status = "OPEN"
    BY <1>1, LandType DEF LandMerge
  <1>2. CASE pr.status # "OPEN"
    BY <1>2 DEF LandMerge, TypeOK
  <1>3. QED
    BY <1>1, <1>2

\* Every step keeps the types.
LEMMA NextTypeOK == TypeOK /\ [Next]_vars => TypeOK'
  <1> SUFFICES ASSUME TypeOK, [Next]_vars PROVE TypeOK'
    OBVIOUS
  <1>a. \A c \in Classification : c \in Classification \cup {"killed", "uncaught_exception"}
    OBVIOUS
  <1>1. ASSUME NEW f \in Invocation, Wake(f) PROVE TypeOK'
    BY <1>1 DEF TypeOK, Wake, Goto, Label, repoVars
  <1>2. ASSUME NEW f \in Invocation, ReadInitial(f) PROVE TypeOK'
    <2>1. SnapshotVerdict(Snapshot) \in Classification \cup {"valid"}
      BY VerdictType
    <2>2. UNCHANGED <<repoVars, late, changes, faults>>
      BY <1>2 DEF ReadInitial
    <2>3. CASE \E c \in Classification : Exit(f, c)
      BY <2>2, <2>3, ExitType DEF TypeOK, repoVars
    <2>4. CASE /\ Goto(f, "create") \/ Goto(f, "refresh")
               /\ approved' = [approved EXCEPT ![f] = Substantive]
               /\ UNCHANGED <<closure, seen, report>>
      BY <2>2, <2>4, BranchFacts DEF TypeOK, Goto, Label, repoVars
    <2>5. "invalid_evidence" \in Classification
      BY DEF Classification
    <2>6. QED
      BY <1>2, <2>1, <2>3, <2>4, <2>5 DEF ReadInitial, Snapshot
  <1>3. ASSUME NEW f \in Invocation, CreateClosure(f) PROVE TypeOK'
    <2>1. CASE HeadIs(approved[f]) /\ PushClosure(approved[f]) /\ Goto(f, "refresh")
               /\ UNCHANGED <<approved, closure, seen, report>>
      <3>1. approved[f] \in DOMAIN history /\ approved[f] = Len(history)
        BY <2>1, BranchFacts DEF HeadIs, CurrentHead
      <3>2. ClosureCommit(approved[f]) \in CommitRecord
            /\ ClosureCommit(approved[f]).substantive \in 1..(Len(history) + 1)
        BY <3>1, ClosureCommitType, BranchFacts DEF ClosureCommit
      <3>3. history' = Append(history, ClosureCommit(approved[f]))
        BY <2>1 DEF PushClosure
      <3> HIDE DEF ClosureCommit
      <3>4. QED
        BY <1>3, <2>1, <3>2, <3>3, AppendCommitType
        DEF TypeOK, CreateClosure, PushClosure, Goto, Label
    <2>2. CASE Exit(f, "head_race") /\ UNCHANGED repoVars
      <3>1. "head_race" \in Classification
        BY DEF Classification
      <3>2. QED
        BY <1>3, <2>2, <3>1, ExitType DEF TypeOK, CreateClosure, repoVars
    <2>3. QED
      BY <1>3, <2>1, <2>2 DEF CreateClosure
  <1>4. ASSUME NEW f \in Invocation, ReadRefreshed(f) PROVE TypeOK'
    <2>1. SnapshotVerdict(Snapshot) \in Classification \cup {"valid"}
          /\ StillMergeable(Snapshot, approved[f], Snapshot.head)
                \in Classification \cup {"valid"}
      BY VerdictType
    <2>2. UNCHANGED <<repoVars, late, changes, faults>>
      BY <1>4 DEF ReadRefreshed
    <2>3. CASE \E c \in Classification : Exit(f, c)
      BY <2>2, <2>3, ExitType DEF TypeOK, repoVars
    <2>4. CASE /\ Goto(f, "boundary")
               /\ closure' = [closure EXCEPT ![f] = CurrentHead]
               /\ UNCHANGED <<approved, seen, report>>
      BY <2>2, <2>4, BranchFacts DEF TypeOK, Goto, Label, repoVars
    <2>5. Snapshot.head = CurrentHead
      BY DEF Snapshot
    <2>6. QED
      BY <1>4, <2>1, <2>3, <2>4, <2>5 DEF ReadRefreshed
  <1>5. ASSUME NEW f \in Invocation, ReadBoundary(f) PROVE TypeOK'
    <2>1. SnapshotVerdict(Snapshot) \in Classification \cup {"valid"}
          /\ StillMergeable(Snapshot, approved[f], closure[f])
                \in Classification \cup {"valid"}
      BY VerdictType
    <2>2. UNCHANGED <<repoVars, late, changes, faults>>
      BY <1>5 DEF ReadBoundary
    <2>3. CASE \E c \in Classification \cup {"killed", "uncaught_exception"} : Exit(f, c)
      BY <2>2, <2>3, ExitType DEF TypeOK, repoVars
    <2>4. CASE /\ Goto(f, "merge")
               /\ seen' = [seen EXCEPT ![f] = Len(decisions)]
               /\ UNCHANGED <<approved, closure, report>>
      BY <2>2, <2>4, BranchFacts DEF TypeOK, Goto, Label, repoVars
    <2>5. QED
      BY <1>5, <2>1, <2>3, <2>4 DEF ReadBoundary
  <1>6. ASSUME NEW f \in Invocation, Merge(f) PROVE TypeOK'
    <2>1. \E c \in Classification : Exit(f, c)
      BY <1>6 DEF Merge, Classification
    <2>2. UNCHANGED <<history, decisions, green, late, changes, faults>>
      BY <1>6 DEF Merge, LandMerge, repoVars
    <2>3. /\ pr' \in [status : Status, gate : Gate, authority_clear : BOOLEAN,
                      mergeable : BOOLEAN]
          /\ landed' \in [head : DOMAIN history \cup {None},
                          by : {"nobody", "owner", "finalizer"}, seen : Nat]
      <3>1. CASE LandMerge(seen[f])
        <4>1. seen[f] \in Nat
          BY BranchFacts DEF TypeOK
        <4>2. QED
          BY <3>1, <4>1, LandMergeType
      <3>2. CASE UNCHANGED repoVars
        BY <3>2 DEF TypeOK, repoVars
      <3>3. QED
        BY <1>6, <3>1, <3>2 DEF Merge
    <2>4. QED
      BY <2>1, <2>2, <2>3, ExitType DEF TypeOK
  <1>7. ASSUME NEW f \in Invocation PROVE Outstanding(f) \subseteq Request
    BY BranchFacts DEF TypeOK, Outstanding, Request, Commit, None
  <1>8. ASSUME NEW f \in Invocation, ProviderFails(f) PROVE TypeOK'
    <2>1. "mechanical_failure" \in Classification
      BY DEF Classification
    <2>2. QED
      BY <1>7, <1>8, <2>1, ExitType, ConstantsAssumption
      DEF TypeOK, ProviderFails, Fault, repoVars
  <1>9. ASSUME NEW f \in Invocation, MalformedSnapshot(f) PROVE TypeOK'
    <2>1. "invalid_evidence" \in Classification
      BY DEF Classification
    <2>2. QED
      BY <1>9, <2>1, ExitType, ConstantsAssumption
      DEF TypeOK, MalformedSnapshot, Fault, repoVars
  <1>10. ASSUME NEW f \in Invocation, Kill(f) PROVE TypeOK'
    BY <1>7, <1>10, ExitType, ConstantsAssumption DEF TypeOK, Kill, Fault, repoVars
  <1>11. ASSUME NEW r \in late, LateRequest(r) PROVE TypeOK'
    <2>1. CASE HeadIs(r.expected_head) /\ PushClosure(r.expected_head)
      <3>1. r.expected_head \in DOMAIN history /\ r.expected_head = Len(history)
        BY <2>1, BranchFacts DEF HeadIs, CurrentHead
      <3>2. ClosureCommit(r.expected_head) \in CommitRecord
            /\ ClosureCommit(r.expected_head).substantive \in 1..(Len(history) + 1)
        BY <3>1, ClosureCommitType, BranchFacts DEF ClosureCommit
      <3>3. history' = Append(history, ClosureCommit(r.expected_head))
        BY <2>1 DEF PushClosure
      <3> HIDE DEF ClosureCommit
      <3>4. QED
        BY <1>11, <2>1, <3>2, <3>3, AppendCommitType
        DEF TypeOK, LateRequest, PushClosure, procVars
    <2>2. CASE LandMerge(r.seen)
      <3>1. r.seen \in Nat
        BY DEF TypeOK, Request
      <3>2. /\ pr' \in [status : Status, gate : Gate, authority_clear : BOOLEAN,
                        mergeable : BOOLEAN]
            /\ landed' \in [head : DOMAIN history \cup {None},
                            by : {"nobody", "owner", "finalizer"}, seen : Nat]
            /\ UNCHANGED <<history, decisions, green>>
        BY <2>2, <3>1, LandMergeType DEF LandMerge
      <3>3. QED
        BY <1>11, <3>2 DEF TypeOK, LateRequest, procVars
    <2>3. QED
      BY <1>11, <2>1, <2>2 DEF LateRequest
  <1>12. ASSUME NEW t \in PushedText, WorkerPushesWork(t) PROVE TypeOK'
    <2> DEFINE rec == [substantive |-> CurrentHead + 1, paths |-> {}, text |-> t,
                       by |-> "worker"]
    <2>1. rec \in CommitRecord /\ rec.substantive \in 1..(Len(history) + 1)
      BY BranchFacts, ConstantsAssumption DEF CommitRecord, Commit, Path, CurrentHead
    <2>2. history' = Append(history, rec)
      BY <1>12 DEF WorkerPushesWork
    <2> HIDE DEF rec
    <2>3. QED
      BY <1>12, <2>1, <2>2, AppendCommitType DEF TypeOK, WorkerPushesWork, procVars
  <1>13. ASSUME NEW p \in SUBSET Path, NEW t \in QueueText, WorkerPushesDerived(p, t)
         PROVE  TypeOK'
    <2> DEFINE rec == [substantive |-> Substantive,
                       paths |-> history[CurrentHead].paths \cup p,
                       text |-> t, by |-> "worker"]
    <2>0. /\ Substantive \in 1..Len(history) /\ Len(history) \in Nat
          /\ history[CurrentHead].paths \cup p \in SUBSET Path
      BY BranchFacts DEF CommitRecord
    <2>1. rec \in CommitRecord /\ rec.substantive \in 1..(Len(history) + 1)
      BY <2>0 DEF CommitRecord, Commit
    <2>2. history' = Append(history, rec)
      BY <1>13 DEF WorkerPushesDerived
    <2> HIDE DEF rec
    <2>3. QED
      BY <1>13, <2>1, <2>2, AppendCommitType DEF TypeOK, WorkerPushesDerived, procVars
  <1>14. PushedText \cup {history[CurrentHead].text, ExpectedText(Substantive)}
            \subseteq QueueText
    BY ConstantsAssumption, ExpectedTextType, BranchFacts DEF CommitRecord
  <1>15. ASSUME NEW d \in Decision, SupervisorDecides(d) PROVE TypeOK'
    <2>1. /\ decisions' \in Seq(Decision)
          /\ Len(decisions') = Len(decisions) + 1 /\ Len(decisions) \in Nat
      BY <1>15, AppendFacts, BranchFacts DEF TypeOK, SupervisorDecides
    <2>2. QED
      BY <1>15, <2>1 DEF TypeOK, SupervisorDecides, procVars
  <1>16. CASE ChecksSucceed
    BY <1>16, BranchFacts DEF TypeOK, ChecksSucceed, procVars
  <1>17. CASE MergeabilityComputed
    <2>1. pr' \in [status : Status, gate : Gate, authority_clear : BOOLEAN,
                   mergeable : BOOLEAN]
      BY <1>17 DEF TypeOK, MergeabilityComputed
    <2>2. QED
      BY <1>17, <2>1 DEF TypeOK, MergeabilityComputed, procVars
  <1>18. CASE ChecksRegress
    <2>1. changes' \in 0..MaxChanges
      BY <1>18, ConstantsAssumption DEF TypeOK, ChecksRegress, Change
    <2>2. QED
      BY <1>18, <2>1 DEF TypeOK, ChecksRegress, Change, procVars
  <1>19. CASE OwnerIntervenes
    BY <1>19, ConstantsAssumption DEF TypeOK, OwnerIntervenes, Change, procVars, Status
  <1>20. CASE OwnerMerges
    <2>1. Len(decisions) \in Nat
      BY BranchFacts
    <2>2. /\ pr' \in [status : Status, gate : Gate, authority_clear : BOOLEAN,
                      mergeable : BOOLEAN]
          /\ landed' \in [head : DOMAIN history \cup {None},
                          by : {"nobody", "owner", "finalizer"}, seen : Nat]
      BY <1>20, <2>1, LandType DEF OwnerMerges
    <2>3. changes' \in 0..MaxChanges
      BY <1>20, ConstantsAssumption DEF TypeOK, OwnerMerges, Change
    <2>4. QED
      BY <1>20, <2>2, <2>3 DEF TypeOK, OwnerMerges, Change, procVars
  <1>21. CASE UNCHANGED vars
    BY <1>21 DEF TypeOK, vars, repoVars, procVars
  <1>22. CASE \E f \in Invocation : Invoke(f)
    BY <1>22, <1>1, <1>2, <1>3, <1>4, <1>5, <1>6 DEF Invoke
  <1>23. CASE Failure
    BY <1>23, <1>8, <1>9, <1>10, <1>11 DEF Failure
  <1>24. CASE Surroundings
    <2>1. ASSUME NEW k \in DecisionKind, NEW h \in DOMAIN history
          PROVE  [decision |-> k, head |-> h] \in Decision
      BY BranchFacts DEF Decision, Commit
    <2>2. QED
      BY <1>24, <1>12, <1>13, <1>14, <1>15, <1>16, <1>17, <1>18, <1>19, <1>20, <2>1
      DEF Surroundings
  <1>25. QED
    BY <1>21, <1>22, <1>23, <1>24 DEF Next

\* Finalizer is type correct.
THEOREM TypeCorrect == Spec => []TypeOK
  <1>1. Init => TypeOK
    BY InitTypeOK
  <1>2. TypeOK /\ [Next]_vars => TypeOK'
    BY NextTypeOK
  <1>3. QED
    BY <1>1, <1>2, PTL DEF Spec

(***************************************************************************)
(* The branch and the decisions only grow, so what was true of a commit    *)
(* or of a prefix of the decisions stays true.                             *)
(***************************************************************************)
Grows(new, old) ==
    /\ DOMAIN old \subseteq DOMAIN new
    /\ \A i \in DOMAIN old : new[i] = old[i]

\* Appending is growing.
LEMMA AppendGrows ==
    ASSUME NEW S, NEW q \in Seq(S), NEW e \in S
    PROVE  Grows(Append(q, e), q)
  BY AppendFacts DEF Grows

\* Every step appends to the branch and to the decisions, or leaves them alone.
LEMMA NextGrows ==
    ASSUME TypeOK, TypeOK', [Next]_vars
    PROVE  Grows(history', history) /\ Grows(decisions', decisions)
  <1>1. ASSUME NEW q PROVE Grows(q, q)
    BY DEF Grows
  <1>2. ASSUME NEW r, history' = Append(history, r) PROVE Grows(history', history)
    BY <1>2 DEF TypeOK, Grows
  <1>3. ASSUME NEW d, decisions' = Append(decisions, d)
        PROVE  Grows(decisions', decisions)
    BY <1>3 DEF TypeOK, Grows
  <1>4. history' = history \/ \E r : history' = Append(history, r)
    BY DEF Next, vars, repoVars, Invoke, Failure, Surroundings, Wake, ReadInitial,
       CreateClosure, PushClosure, ReadRefreshed, ReadBoundary, Merge, LandMerge,
       ProviderFails, MalformedSnapshot, Kill, LateRequest, WorkerPushesWork,
       WorkerPushesDerived, SupervisorDecides, ChecksSucceed, MergeabilityComputed,
       ChecksRegress, OwnerIntervenes, OwnerMerges
  <1>5. decisions' = decisions \/ \E d : decisions' = Append(decisions, d)
    BY DEF Next, vars, repoVars, Invoke, Failure, Surroundings, Wake, ReadInitial,
       CreateClosure, PushClosure, ReadRefreshed, ReadBoundary, Merge, LandMerge,
       ProviderFails, MalformedSnapshot, Kill, LateRequest, WorkerPushesWork,
       WorkerPushesDerived, SupervisorDecides, ChecksSucceed, MergeabilityComputed,
       ChecksRegress, OwnerIntervenes, OwnerMerges
  <1>6. QED
    BY <1>1, <1>2, <1>3, <1>4, <1>5

\* A closure stays a closure when the branch grows.
LEMMA ClosureKept ==
    ASSUME TypeOK, Grows(history', history), NEW h \in DOMAIN history
    PROVE  IsClosure(history, h) => IsClosure(history', h)
  <1>1. history[h].substantive \in DOMAIN history
    BY BranchFacts DEF TypeOK
  <1>2. history'[h] = history[h]
        /\ history'[history[h].substantive] = history[history[h].substantive]
    BY <1>1 DEF Grows
  <1>3. QED
    BY <1>2 DEF IsClosure

\* An approval standing among the first n decisions stands there for good.
LEMMA ApprovalKept ==
    ASSUME TypeOK, Grows(decisions', decisions), NEW n \in 0..Len(decisions), NEW s
    PROVE  StandsAt(decisions, n, s) => StandsAt(decisions', n, s)
  <1>1. DOMAIN decisions = 1..Len(decisions) /\ Len(decisions) \in Nat
    BY DEF TypeOK
  <1>2. \A i \in 1..n : decisions'[i] = decisions[i]
    BY <1>1 DEF Grows
  <1>3. \A i \in 1..n : \A j \in (i + 1)..n : j \in 1..n
    BY <1>1
  <1>4. QED
    BY <1>2, <1>3 DEF StandsAt

\* So does everything an invocation may remember.
LEMMA MemoryKept ==
    ASSUME TypeOK, TypeOK', Grows(history', history), Grows(decisions', decisions)
    PROVE  /\ \A s : Closable(s) => Closable(s)'
           /\ \A h, n : Validated(h, n) => Validated(h, n)'
  <1>1. 0..Len(decisions) \subseteq 0..Len(decisions')
    <2>1. /\ Len(decisions) \in Nat /\ DOMAIN decisions = 1..Len(decisions)
          /\ Len(decisions') \in Nat /\ DOMAIN decisions' = 1..Len(decisions')
      BY DEF TypeOK
    <2>2. \A i \in 1..Len(decisions) : i \in 1..Len(decisions')
      BY <2>1 DEF Grows
    <2>3. Len(decisions) = 0 \/ Len(decisions) \in 1..Len(decisions)
      BY <2>1
    <2>4. QED
      BY <2>1, <2>2, <2>3
  <1>2. ASSUME NEW s, Closable(s) PROVE Closable(s)'
    <2>1. PICK n \in 0..Len(decisions) : StandsAt(decisions, n, s)
      BY <1>2 DEF Closable
    <2>2. StandsAt(decisions', n, s) /\ n \in 0..Len(decisions')
      BY <1>1, <2>1, ApprovalKept
    <2>3. s \in DOMAIN history' /\ history'[s] = history[s]
      BY <1>2 DEF Closable, Grows
    <2>4. QED
      BY <1>2, <2>2, <2>3 DEF Closable
  <1>3. ASSUME NEW h, NEW n, Validated(h, n) PROVE Validated(h, n)'
    <2>1. h \in DOMAIN history /\ n \in 0..Len(decisions)
      BY <1>3 DEF Validated
    <2>2. h \in DOMAIN history' /\ history'[h] = history[h] /\ n \in 0..Len(decisions')
      BY <1>1, <2>1 DEF Grows
    <2>3. IsClosure(history', h) /\ StandsAt(decisions', n, history[h].substantive)
      BY <1>3, <2>1, ClosureKept, ApprovalKept DEF Validated
    <2>4. QED
      BY <2>2, <2>3 DEF Validated
  <1>4. QED
    BY <1>2, <1>3

(***************************************************************************)
(* MemoryIsTrue is inductive.                                              *)
(***************************************************************************)

\* A snapshot that passes validate_snapshot shows an open, delegated PR with a
\* standing approval of its substantive HEAD.
LEMMA ValidSnapshot ==
    ASSUME SnapshotVerdict(Snapshot) = "valid"
    PROVE  Authorised
  <1>1. /\ pr.status = "OPEN"
        /\ AuthorityVerdict(Snapshot) = "valid"
        /\ ApprovalVerdict(Snapshot) = "valid"
    BY DEF SnapshotVerdict, Snapshot
  <1>2. pr.gate = "AI" /\ pr.authority_clear
    BY <1>1 DEF AuthorityVerdict, Snapshot
  <1>3. ApprovalStands(decisions, Substantive)
    BY <1>1 DEF ApprovalVerdict, Snapshot
  <1>4. QED
    BY <1>1, <1>2, <1>3 DEF Authorised

\* A derivable and approved substantive HEAD is closable.
LEMMA ValidIsClosable ==
    ASSUME TypeOK, SubstantiveIsARoot, ApprovalStands(decisions, Substantive),
           Replaceable(history[Substantive].text)
    PROVE  Closable(Substantive)
  <1>1. Len(decisions) \in 0..Len(decisions)
        /\ StandsAt(decisions, Len(decisions), Substantive)
    BY BranchFacts DEF ApprovalStands
  <1>2. Substantive \in DOMAIN history
        /\ history[Substantive].substantive = Substantive
    BY BranchFacts DEF SubstantiveIsARoot, Substantive
  <1>3. QED
    BY <1>1, <1>2 DEF Closable

\* A snapshot that passes the boundary checks shows the closure of the commit the
\* invocation set out to close.
LEMMA BoundaryIsValidated ==
    ASSUME TypeOK, NEW f \in Invocation, Closable(approved[f]),
           SnapshotVerdict(Snapshot) = "valid",
           StillMergeable(Snapshot, approved[f], closure[f]) = "valid"
    PROVE  /\ Validated(closure[f], Len(decisions))
           /\ closure[f] = CurrentHead
           /\ pr.mergeable /\ CurrentHead \in green
  <1> DEFINE s == approved[f]
  <1>1. /\ Substantive = s
        /\ ClosureIsExact(Snapshot, ExpectedText(s), s)
        /\ ChecksVerdict(Snapshot, closure[f]) = "valid"
    BY DEF StillMergeable, Snapshot
  <1>2. CurrentHead = closure[f] /\ pr.mergeable /\ CurrentHead \in green
    BY <1>1 DEF ChecksVerdict, Snapshot
  <1>3. /\ CurrentHead - 1 = s
        /\ history[CurrentHead].paths = {"queue"}
        /\ history[CurrentHead].text = ExpectedText(s)
    BY <1>1 DEF ClosureIsExact, Snapshot
  <1>4. CurrentHead = s + 1 /\ s \in Nat
    BY <1>3, BranchFacts DEF Closable
  <1>5. IsClosure(history, CurrentHead)
    BY <1>1, <1>3, <1>4 DEF IsClosure, Closable, Substantive, ExpectedText
  <1>6. StandsAt(decisions, Len(decisions), history[CurrentHead].substantive)
    BY ValidSnapshot DEF Authorised, ApprovalStands, Substantive
  <1>7. QED
    BY <1>2, <1>5, <1>6, BranchFacts DEF Validated

\* The invariant holds initially.
LEMMA InitMemory == Init => MemoryIsTrue
  <1> SUFFICES ASSUME Init PROVE MemoryIsTrue
    OBVIOUS
  <1>1. PICK t \in PushedText :
          history = <<[substantive |-> 1, paths |-> {}, text |-> t, by |-> "worker"]>>
    BY DEF Init
  <1>2. DOMAIN history = {1} /\ history[1].substantive = 1 /\ history[1].by = "worker"
    BY <1>1
  <1>3. SubstantiveIsARoot /\ EveryClosureIsDerived
    BY <1>2 DEF SubstantiveIsARoot, EveryClosureIsDerived
  <1>4. /\ \A f \in Invocation : InvocationKnows(f)
        /\ \A r \in late : RequestKnows(r)
        /\ LandedInv
    BY DEF Init, InvocationKnows, RequestKnows, LandedInv
  <1>5. QED
    BY <1>3, <1>4 DEF MemoryIsTrue

\* A finalizer's or a late request's closure keeps the branch part of the invariant.
LEMMA PushClosureBranch ==
    ASSUME TypeOK, TypeOK', SubstantiveIsARoot, EveryClosureIsDerived,
           Grows(history', history), Grows(decisions', decisions),
           Closable(CurrentHead), PushClosure(CurrentHead)
    PROVE  SubstantiveIsARoot' /\ EveryClosureIsDerived'
  <1> DEFINE s == CurrentHead
             rec == ClosureCommit(s)
  <1>1. /\ s \in Nat /\ s = Len(history) /\ DOMAIN history = 1..s
        /\ history'[s + 1] = rec /\ DOMAIN history' = 1..(s + 1)
        /\ \A i \in 1..s : history'[i] = history[i]
    <2>1. rec \in CommitRecord /\ history' = Append(history, rec)
      BY ClosureCommitType DEF PushClosure, Closable
    <2>2. history \in Seq(CommitRecord)
      BY DEF TypeOK
    <2> HIDE DEF rec
    <2>3. QED
      BY <2>1, <2>2, AppendFacts, BranchFacts DEF CurrentHead
  <1>2. /\ rec.substantive = s /\ rec.paths = {"queue"}
        /\ rec.text = ReplaceQueueRow(history[s].text, s)
    BY DEF ClosureCommit, ExpectedText
  <1>3. /\ s \in 1..s /\ history[s].substantive = s /\ Replaceable(history[s].text)
        /\ \E n \in 0..Len(decisions) : StandsAt(decisions, n, s)
    BY <1>1 DEF Closable
  <1> HIDE DEF rec, s
  <1>4. SubstantiveIsARoot'
    <2>1. \A h \in 1..s : history[h].substantive \in 1..s
      BY <1>1 DEF TypeOK
    <2>2. QED
      BY <1>1, <1>2, <1>3, <2>1 DEF SubstantiveIsARoot
  <1>5. IsClosure(history', s + 1)
    BY <1>1, <1>2, <1>3 DEF IsClosure
  <1>6. \A h \in 1..s : IsClosure(history, h) => IsClosure(history', h)
    BY <1>1, ClosureKept
  <1>7. decisions' = decisions
    BY DEF PushClosure
  <1>8. (s + 1) - 1 = s
    BY <1>1
  <1>9. QED
    BY <1>1, <1>3, <1>4, <1>5, <1>6, <1>7, <1>8 DEF EveryClosureIsDerived

\* An invocation whose own variables do not change keeps knowing what it knew, and
\* so does a late request.
LEMMA KnowledgeKept ==
    ASSUME TypeOK, TypeOK', Grows(history', history), Grows(decisions', decisions)
    PROVE  /\ \A f \in Invocation :
                 /\ InvocationKnows(f)
                 /\ pc'[f] = pc[f] /\ approved'[f] = approved[f]
                 /\ closure'[f] = closure[f] /\ seen'[f] = seen[f]
                 => InvocationKnows(f)'
           /\ \A r : RequestKnows(r) => RequestKnows(r)'
  BY MemoryKept DEF InvocationKnows, RequestKnows

\* The branch part of the invariant does not depend on the invocations.
LEMMA SameBranch ==
    ASSUME SubstantiveIsARoot, EveryClosureIsDerived, UNCHANGED <<history, decisions>>
    PROVE  SubstantiveIsARoot' /\ EveryClosureIsDerived'
  BY DEF SubstantiveIsARoot, EveryClosureIsDerived

\* What was sent by an invocation knows what the invocation knew.
LEMMA OutstandingKnows ==
    ASSUME NEW f \in Invocation, InvocationKnows(f), NEW r \in Outstanding(f)
    PROVE  RequestKnows(r)
  BY DEF Outstanding, InvocationKnows, RequestKnows

\* An invocation that ends, leaving its request behind or not, keeps the invariant.
LEMMA ExitMemory ==
    ASSUME TypeOK, TypeOK', MemoryIsTrue, NEW f \in Invocation, NEW c, Exit(f, c),
           UNCHANGED <<history, decisions, pr, landed>>,
           late' \subseteq late \cup Outstanding(f)
    PROVE  MemoryIsTrue'
  <1>1. Grows(history', history) /\ Grows(decisions', decisions)
    BY DEF Grows
  <1>2. SubstantiveIsARoot' /\ EveryClosureIsDerived'
    BY SameBranch DEF MemoryIsTrue
  <1>3. ASSUME NEW g \in Invocation PROVE InvocationKnows(g)'
    <2>1. CASE g = f
      BY <2>1 DEF InvocationKnows, Exit, TypeOK
    <2>2. CASE g # f
      BY <1>1, <2>2, KnowledgeKept DEF MemoryIsTrue, Exit, TypeOK
    <2>3. QED
      BY <2>1, <2>2
  <1>4. ASSUME NEW r \in late' PROVE RequestKnows(r)'
    <2>1. RequestKnows(r)
      BY OutstandingKnows DEF MemoryIsTrue
    <2>2. QED
      BY <1>1, <2>1, KnowledgeKept
  <1>5. LandedInv'
    <2>1. Validated(landed.head, landed.seen) => Validated(landed.head, landed.seen)'
      BY <1>1, MemoryKept
    <2>2. \A g \in Invocation : pc'[g] = "merge" => pc[g] = "merge" /\ closure'[g] = closure[g]
      BY DEF Exit, TypeOK
    <2>3. QED
      BY <2>1, <2>2 DEF MemoryIsTrue, LandedInv
  <1>6. QED
    BY <1>2, <1>3, <1>4, <1>5 DEF MemoryIsTrue

\* An invocation that goes on with true knowledge keeps the invariant.
LEMMA GotoMemory ==
    ASSUME TypeOK, TypeOK', MemoryIsTrue, NEW f \in Invocation, NEW label, Goto(f, label),
           UNCHANGED <<history, decisions, pr, landed, late>>,
           \A g \in Invocation \ {f} : /\ approved'[g] = approved[g]
                                      /\ closure'[g] = closure[g]
                                      /\ seen'[g] = seen[g],
           InvocationKnows(f)',
           label = "merge" => pr.status = "OPEN"
    PROVE  MemoryIsTrue'
  <1>1. Grows(history', history) /\ Grows(decisions', decisions)
    BY DEF Grows
  <1>2. SubstantiveIsARoot' /\ EveryClosureIsDerived'
    BY SameBranch DEF MemoryIsTrue
  <1>3. \A g \in Invocation : pc'[g] = IF g = f THEN label ELSE pc[g]
    BY DEF Goto, TypeOK
  <1>4. ASSUME NEW g \in Invocation, g # f PROVE InvocationKnows(g)'
    BY <1>1, <1>3, <1>4, KnowledgeKept DEF MemoryIsTrue
  <1>5. ASSUME NEW r \in late' PROVE RequestKnows(r)'
    BY <1>1, KnowledgeKept DEF MemoryIsTrue
  <1>6. LandedInv'
    <2>1. Validated(landed.head, landed.seen) => Validated(landed.head, landed.seen)'
      BY <1>1, MemoryKept
    <2>2. ASSUME landed.by # "nobody", NEW g \in Invocation, pc'[g] = "merge"
          PROVE  closure'[g] <= landed.head
      BY <1>3, <2>2 DEF MemoryIsTrue, LandedInv
    <2>3. QED
      BY <2>1, <2>2 DEF MemoryIsTrue, LandedInv
  <1>7. QED
    BY <1>2, <1>4, <1>5, <1>6 DEF MemoryIsTrue

\* A merge by an invocation or by a late request, validated earlier, keeps the
\* landing record true.
LEMMA LandMergeMemory ==
    ASSUME TypeOK, TypeOK', MemoryIsTrue, NEW n, Validated(CurrentHead, n), LandMerge(n),
           \A g \in Invocation : pc'[g] = "merge" => pc[g] = "merge" /\ closure'[g] = closure[g]
    PROVE  LandedInv'
  <1>1. Grows(history', history) /\ Grows(decisions', decisions)
    BY DEF LandMerge, Grows
  <1>2. CASE pr.status = "OPEN"
    <2>1. /\ landed' = [head |-> CurrentHead, by |-> "finalizer", seen |-> n]
          /\ pr'.status = "MERGED"
      BY <1>2 DEF LandMerge, TypeOK
    <2>2. Validated(CurrentHead, n)'
      BY <1>1, MemoryKept DEF LandMerge, CurrentHead
    <2>3. \A g \in Invocation : pc'[g] = "merge" => closure'[g] <= CurrentHead
      BY BranchFacts DEF TypeOK, CurrentHead, MemoryIsTrue, InvocationKnows, Validated
    <2>4. CurrentHead # None
      BY BranchFacts DEF None
    <2>5. CurrentHead' = CurrentHead
      BY DEF LandMerge, CurrentHead
    <2>6. QED
      BY <2>1, <2>2, <2>3, <2>4, <2>5 DEF LandedInv
  <1>3. CASE pr.status # "OPEN"
    <2>1. UNCHANGED <<landed, pr>>
      BY <1>3 DEF LandMerge
    <2>2. Validated(landed.head, landed.seen) => Validated(landed.head, landed.seen)'
      BY <1>1, <2>1, MemoryKept
    <2>3. QED
      BY <2>1, <2>2 DEF MemoryIsTrue, LandedInv
  <1>4. QED
    BY <1>2, <1>3

\* A step of the surroundings that does not merge keeps the invariant, provided the
\* branch part survives.
LEMMA SurroundingsMemory ==
    ASSUME TypeOK, TypeOK', MemoryIsTrue,
           Grows(history', history), Grows(decisions', decisions),
           UNCHANGED <<procVars, late, landed>>,
           pr'.status = "MERGED" <=> pr.status = "MERGED",
           SubstantiveIsARoot', EveryClosureIsDerived'
    PROVE  MemoryIsTrue'
  <1>1. \A g \in Invocation : InvocationKnows(g)'
    BY KnowledgeKept DEF MemoryIsTrue, procVars
  <1>2. \A r \in late' : RequestKnows(r)'
    BY KnowledgeKept DEF MemoryIsTrue
  <1>3. Validated(landed.head, landed.seen) => Validated(landed.head, landed.seen)'
    BY MemoryKept
  <1>4. LandedInv'
    BY <1>3 DEF MemoryIsTrue, LandedInv, procVars
  <1>5. QED
    BY <1>1, <1>2, <1>4 DEF MemoryIsTrue

\* A worker's commit keeps the branch part of the invariant.
LEMMA WorkerBranch ==
    ASSUME TypeOK, TypeOK', SubstantiveIsARoot, EveryClosureIsDerived,
           Grows(history', history), UNCHANGED decisions,
           NEW rec \in CommitRecord, history' = Append(history, rec), rec.by = "worker",
           rec.substantive \in {CurrentHead + 1, Substantive}
    PROVE  SubstantiveIsARoot' /\ EveryClosureIsDerived'
  <1> DEFINE n == Len(history)
  <1>1. /\ n \in Nat /\ DOMAIN history = 1..n /\ CurrentHead = n
        /\ history'[n + 1] = rec /\ DOMAIN history' = 1..(n + 1)
        /\ \A i \in 1..n : history'[i] = history[i]
    <2>1. history \in Seq(CommitRecord)
      BY DEF TypeOK
    <2>2. QED
      BY <2>1, AppendFacts, BranchFacts DEF CurrentHead
  <1>2. Substantive \in 1..n /\ history[Substantive].substantive = Substantive
    BY <1>1, BranchFacts DEF SubstantiveIsARoot, Substantive
  <1>3. \A h \in 1..n : history[h].substantive \in 1..n
    BY <1>1 DEF TypeOK
  <1> HIDE DEF n
  <1>4. SubstantiveIsARoot'
    BY <1>1, <1>2, <1>3 DEF SubstantiveIsARoot
  <1>5. \A h \in 1..n : IsClosure(history, h) => IsClosure(history', h)
    BY <1>1, ClosureKept
  <1>6. EveryClosureIsDerived'
    BY <1>1, <1>5 DEF EveryClosureIsDerived
  <1>7. QED
    BY <1>4, <1>6

\* Every step of an invocation keeps the invariant.
LEMMA InvokeMemory ==
    ASSUME TypeOK, TypeOK', MemoryIsTrue,
           Grows(history', history), Grows(decisions', decisions),
           NEW f \in Invocation, Invoke(f)
    PROVE  MemoryIsTrue'
  <1>1. CASE Wake(f)
    <2>1. InvocationKnows(f)'
      BY <1>1 DEF Wake, Goto, InvocationKnows, TypeOK
    <2>2. QED
      BY <1>1, <2>1, GotoMemory DEF Wake, repoVars
  <1>2. CASE ReadInitial(f)
    <2>1. UNCHANGED <<repoVars, late>>
      BY <1>2 DEF ReadInitial
    <2>2. CASE \E c : Exit(f, c)
      BY <2>1, <2>2, ExitMemory DEF repoVars
    <2>3. CASE /\ SnapshotVerdict(Snapshot) = "valid"
               /\ Replaceable(history[Substantive].text)
               /\ Goto(f, "create") \/ Goto(f, "refresh")
               /\ approved' = [approved EXCEPT ![f] = Substantive]
               /\ UNCHANGED <<closure, seen, report>>
      <3>1. Closable(Substantive)
        BY <2>3, ValidSnapshot, ValidIsClosable DEF Authorised, MemoryIsTrue
      <3>2. Closable(Substantive)' /\ Substantive' = Substantive
        BY <2>1, <3>1, MemoryKept DEF repoVars, Substantive, CurrentHead
      <3>3. pc'[f] \in {"create", "refresh"} /\ approved'[f] = Substantive
        BY <2>3 DEF Goto, TypeOK
      <3>4. InvocationKnows(f)'
        BY <3>2, <3>3 DEF InvocationKnows
      <3>5. \A g \in Invocation \ {f} : approved'[g] = approved[g]
        BY <2>3 DEF TypeOK
      <3>6. QED
        BY <2>1, <2>3, <3>4, <3>5, GotoMemory DEF repoVars
    <2>4. QED
      BY <1>2, <2>2, <2>3 DEF ReadInitial, Snapshot
  <1>3. CASE CreateClosure(f)
    <2>1. CASE HeadIs(approved[f]) /\ PushClosure(approved[f]) /\ Goto(f, "refresh")
               /\ UNCHANGED <<approved, closure, seen, report>>
      <3>1. approved[f] = CurrentHead /\ Closable(CurrentHead)
        BY <1>3, <2>1 DEF CreateClosure, HeadIs, MemoryIsTrue, InvocationKnows
      <3>2. SubstantiveIsARoot' /\ EveryClosureIsDerived'
        BY <2>1, <3>1, PushClosureBranch DEF MemoryIsTrue
      <3>3. InvocationKnows(f)'
        BY <2>1, <3>1, MemoryKept DEF Goto, InvocationKnows, TypeOK
      <3>4. \A g \in Invocation : InvocationKnows(g)'
        BY <2>1, <3>3, KnowledgeKept DEF MemoryIsTrue, Goto, TypeOK
      <3>5. late' = late /\ UNCHANGED <<pr, landed>>
        BY <1>3, <2>1 DEF CreateClosure, PushClosure
      <3>6. \A r \in late' : RequestKnows(r)'
        BY <3>5, KnowledgeKept DEF MemoryIsTrue
      <3>7. LandedInv'
        <4>1. Validated(landed.head, landed.seen) => Validated(landed.head, landed.seen)'
          BY <3>5, MemoryKept
        <4>2. \A g \in Invocation : pc'[g] = "merge" => pc[g] = "merge"
          BY <2>1 DEF Goto, TypeOK
        <4>3. QED
          BY <2>1, <3>5, <4>1, <4>2 DEF MemoryIsTrue, LandedInv
      <3>8. QED
        BY <3>2, <3>4, <3>6, <3>7 DEF MemoryIsTrue
    <2>2. CASE Exit(f, "head_race") /\ UNCHANGED repoVars
      BY <1>3, <2>2, ExitMemory DEF CreateClosure, repoVars
    <2>3. QED
      BY <1>3, <2>1, <2>2 DEF CreateClosure
  <1>4. CASE ReadRefreshed(f)
    <2>1. UNCHANGED <<repoVars, late>>
      BY <1>4 DEF ReadRefreshed
    <2>2. CASE \E c : Exit(f, c)
      BY <2>1, <2>2, ExitMemory DEF repoVars
    <2>3. CASE Goto(f, "boundary") /\ closure' = [closure EXCEPT ![f] = CurrentHead]
               /\ UNCHANGED <<approved, seen, report>>
      <3>1. Closable(approved[f])'
        BY <1>4, <2>3, MemoryKept DEF ReadRefreshed, MemoryIsTrue, InvocationKnows
      <3>2. InvocationKnows(f)'
        BY <2>3, <3>1 DEF Goto, InvocationKnows, TypeOK
      <3>3. \A g \in Invocation \ {f} : closure'[g] = closure[g]
        BY <2>3 DEF TypeOK
      <3>4. QED
        BY <2>1, <2>3, <3>2, <3>3, GotoMemory DEF repoVars
    <2>4. QED
      BY <1>4, <2>2, <2>3 DEF ReadRefreshed, Snapshot
  <1>5. CASE ReadBoundary(f)
    <2>1. UNCHANGED <<repoVars, late>>
      BY <1>5 DEF ReadBoundary
    <2>2. CASE \E c : Exit(f, c)
      BY <2>1, <2>2, ExitMemory DEF repoVars
    <2>3. CASE /\ SnapshotVerdict(Snapshot) = "valid"
               /\ StillMergeable(Snapshot, approved[f], closure[f]) = "valid"
               /\ Goto(f, "merge") /\ seen' = [seen EXCEPT ![f] = Len(decisions)]
               /\ UNCHANGED <<approved, closure, report>>
      <3>1. Closable(approved[f])
        BY <1>5 DEF ReadBoundary, MemoryIsTrue, InvocationKnows
      <3>2. Validated(closure[f], Len(decisions))'
        BY <2>1, <2>3, <3>1, BoundaryIsValidated, MemoryKept DEF repoVars
      <3>3. InvocationKnows(f)'
        BY <2>1, <2>3, <3>2 DEF Goto, InvocationKnows, TypeOK, repoVars
      <3>4. \A g \in Invocation \ {f} : seen'[g] = seen[g]
        BY <2>3 DEF TypeOK
      <3>5. pr.status = "OPEN"
        BY <2>3, ValidSnapshot DEF Authorised
      <3>6. QED
        BY <2>1, <2>3, <3>3, <3>4, <3>5, GotoMemory DEF repoVars
    <2>4. QED
      BY <1>5, <2>2, <2>3 DEF ReadBoundary
  <1>6. CASE Merge(f)
    <2>1. CASE HeadIs(closure[f]) /\ LandMerge(seen[f]) /\ Exit(f, "finalized")
      <3>1. Validated(CurrentHead, seen[f])
        BY <1>6, <2>1 DEF Merge, HeadIs, MemoryIsTrue, InvocationKnows
      <3>2. \A g \in Invocation :
               pc'[g] = "merge" => pc[g] = "merge" /\ closure'[g] = closure[g]
        BY <2>1 DEF Exit, TypeOK
      <3>3. LandedInv'
        BY <2>1, <3>1, <3>2, LandMergeMemory
      <3>4. UNCHANGED <<history, decisions, late>>
        BY <1>6, <2>1 DEF Merge, LandMerge
      <3>5. SubstantiveIsARoot' /\ EveryClosureIsDerived'
        BY <3>4, SameBranch DEF MemoryIsTrue
      <3>6. ASSUME NEW g \in Invocation PROVE InvocationKnows(g)'
        <4>1. CASE g = f
          BY <2>1, <4>1 DEF InvocationKnows, Exit, TypeOK
        <4>2. CASE g # f
          BY <2>1, <4>2, KnowledgeKept DEF MemoryIsTrue, Exit, TypeOK
        <4>3. QED
          BY <4>1, <4>2
      <3>7. \A r \in late' : RequestKnows(r)'
        BY <3>4, KnowledgeKept DEF MemoryIsTrue
      <3>8. QED
        BY <3>3, <3>5, <3>6, <3>7 DEF MemoryIsTrue
    <2>2. CASE \E c : Exit(f, c) /\ UNCHANGED repoVars
      BY <1>6, <2>2, ExitMemory DEF Merge, repoVars
    <2>3. QED
      BY <1>6, <2>1, <2>2 DEF Merge
  <1>7. QED
    BY <1>1, <1>2, <1>3, <1>4, <1>5, <1>6 DEF Invoke

\* Every step keeps the invariant.
LEMMA NextMemory ==
    TypeOK /\ TypeOK' /\ MemoryIsTrue /\ [Next]_vars => MemoryIsTrue'
  <1> SUFFICES ASSUME TypeOK, TypeOK', MemoryIsTrue, [Next]_vars PROVE MemoryIsTrue'
    OBVIOUS
  <1>1. Grows(history', history) /\ Grows(decisions', decisions)
    BY NextGrows
  <1>2. CASE \E f \in Invocation : Invoke(f)
    BY <1>1, <1>2, InvokeMemory
  <1>3. ASSUME NEW f \in Invocation,
               ProviderFails(f) \/ MalformedSnapshot(f) \/ Kill(f)
        PROVE  MemoryIsTrue'
    <2>1. /\ \E c : Exit(f, c)
          /\ UNCHANGED <<history, decisions, pr, landed>>
          /\ late' \subseteq late \cup Outstanding(f)
      BY <1>3 DEF ProviderFails, MalformedSnapshot, Kill, repoVars
    <2>2. QED
      BY <2>1, ExitMemory
  <1>4. ASSUME NEW r \in late, LateRequest(r) PROVE MemoryIsTrue'
    <2>1. UNCHANGED procVars /\ late' \subseteq late /\ RequestKnows(r)
          /\ HeadIs(r.expected_head)
      BY <1>4 DEF LateRequest, MemoryIsTrue
    <2>2. \A g \in Invocation : InvocationKnows(g)'
      BY <1>1, <2>1, KnowledgeKept DEF MemoryIsTrue, procVars
    <2>3. \A q \in late' : RequestKnows(q)'
      BY <1>1, <2>1, KnowledgeKept DEF MemoryIsTrue
    <2>4. CASE r.op = "create_closure" /\ PushClosure(r.expected_head)
      <3>1. Closable(CurrentHead) /\ PushClosure(CurrentHead)
        BY <2>1, <2>4 DEF RequestKnows, HeadIs
      <3>2. SubstantiveIsARoot' /\ EveryClosureIsDerived'
        BY <1>1, <3>1, PushClosureBranch DEF MemoryIsTrue
      <3>3. UNCHANGED <<pr, landed>>
        BY <3>1 DEF PushClosure
      <3>4. Validated(landed.head, landed.seen) => Validated(landed.head, landed.seen)'
        BY <1>1, <3>3, MemoryKept
      <3>5. LandedInv'
        BY <2>1, <3>3, <3>4 DEF MemoryIsTrue, LandedInv, procVars
      <3>6. QED
        BY <2>2, <2>3, <3>2, <3>5 DEF MemoryIsTrue
    <2>5. CASE r.op = "merge" /\ LandMerge(r.seen)
      <3>1. Validated(CurrentHead, r.seen)
        BY <2>1, <2>5 DEF RequestKnows, HeadIs
      <3>2. \A g \in Invocation :
               pc'[g] = "merge" => pc[g] = "merge" /\ closure'[g] = closure[g]
        BY <2>1 DEF procVars
      <3>3. LandedInv'
        BY <2>5, <3>1, <3>2, LandMergeMemory
      <3>4. SubstantiveIsARoot' /\ EveryClosureIsDerived'
        BY <2>5, SameBranch DEF MemoryIsTrue, LandMerge
      <3>5. QED
        BY <2>2, <2>3, <3>3, <3>4 DEF MemoryIsTrue
    <2>6. QED
      BY <1>4, <2>4, <2>5 DEF LateRequest
  <1>5. ASSUME NEW t \in PushedText, WorkerPushesWork(t) PROVE MemoryIsTrue'
    <2> DEFINE rec == [substantive |-> CurrentHead + 1, paths |-> {}, text |-> t,
                       by |-> "worker"]
    <2>1. rec \in CommitRecord
      BY BranchFacts, ConstantsAssumption DEF CommitRecord, Commit, Path, CurrentHead
    <2>2. /\ history' = Append(history, rec) /\ rec.by = "worker"
          /\ rec.substantive \in {CurrentHead + 1, Substantive}
          /\ UNCHANGED <<decisions, procVars, late, landed, pr>>
      BY <1>5 DEF WorkerPushesWork
    <2> HIDE DEF rec
    <2>3. SubstantiveIsARoot' /\ EveryClosureIsDerived'
      BY <1>1, <2>1, <2>2, WorkerBranch DEF MemoryIsTrue
    <2>4. QED
      BY <1>1, <2>2, <2>3, SurroundingsMemory
  <1>6. ASSUME NEW p \in SUBSET Path, NEW t \in QueueText, WorkerPushesDerived(p, t)
        PROVE  MemoryIsTrue'
    <2> DEFINE rec == [substantive |-> Substantive,
                       paths |-> history[CurrentHead].paths \cup p,
                       text |-> t, by |-> "worker"]
    <2>0. /\ Substantive \in Commit
          /\ history[CurrentHead].paths \cup p \in SUBSET Path
      BY BranchFacts DEF CommitRecord, Commit
    <2>1. rec \in CommitRecord
      BY <2>0 DEF CommitRecord
    <2>2. /\ history' = Append(history, rec) /\ rec.by = "worker"
          /\ rec.substantive \in {CurrentHead + 1, Substantive}
          /\ UNCHANGED <<decisions, procVars, late, landed, pr>>
      BY <1>6 DEF WorkerPushesDerived
    <2> HIDE DEF rec
    <2>3. SubstantiveIsARoot' /\ EveryClosureIsDerived'
      BY <1>1, <2>1, <2>2, WorkerBranch DEF MemoryIsTrue
    <2>4. QED
      BY <1>1, <2>2, <2>3, SurroundingsMemory
  <1>7. PushedText \cup {history[CurrentHead].text, ExpectedText(Substantive)}
            \subseteq QueueText
    BY ConstantsAssumption, ExpectedTextType, BranchFacts DEF CommitRecord
  <1>8. ASSUME NEW d, SupervisorDecides(d) PROVE MemoryIsTrue'
    <2>1. /\ UNCHANGED <<procVars, late, landed, pr, history>>
          /\ 0..Len(decisions) \subseteq 0..Len(decisions')
      BY <1>8, BranchFacts DEF SupervisorDecides, TypeOK
    <2>2. \A h : IsClosure(history, h) => IsClosure(history', h)
      BY <2>1
    <2>3. \A n \in 0..Len(decisions) : \A s :
             StandsAt(decisions, n, s) => StandsAt(decisions', n, s)
      BY <1>1, ApprovalKept
    <2>4. SubstantiveIsARoot' /\ EveryClosureIsDerived'
      BY <2>1, <2>2, <2>3 DEF MemoryIsTrue, SubstantiveIsARoot, EveryClosureIsDerived
    <2>5. QED
      BY <1>1, <2>1, <2>4, SurroundingsMemory
  <1>9. ASSUME UNCHANGED <<procVars, late, landed, history, decisions>>,
               pr'.status = "MERGED" <=> pr.status = "MERGED"
        PROVE  MemoryIsTrue'
    BY <1>1, <1>9, SameBranch, SurroundingsMemory DEF MemoryIsTrue
  <1>10. CASE ChecksSucceed \/ ChecksRegress \/ UNCHANGED vars
    BY <1>9, <1>10 DEF ChecksSucceed, ChecksRegress, Change, vars, repoVars
  <1>11. CASE MergeabilityComputed \/ OwnerIntervenes
    <2>1. pr'.status = "MERGED" <=> pr.status = "MERGED"
      BY <1>11 DEF MergeabilityComputed, OwnerIntervenes, TypeOK
    <2>2. QED
      BY <1>9, <1>11, <2>1 DEF MergeabilityComputed, OwnerIntervenes, Change
  <1>12. CASE OwnerMerges
    <2>1. UNCHANGED <<procVars, late, history, decisions>>
      BY <1>12 DEF OwnerMerges, Change
    <2>2. SubstantiveIsARoot' /\ EveryClosureIsDerived'
      BY <2>1, SameBranch DEF MemoryIsTrue
    <2>3. \A g \in Invocation : InvocationKnows(g)'
      BY <1>1, <2>1, KnowledgeKept DEF MemoryIsTrue, procVars
    <2>4. \A q \in late' : RequestKnows(q)'
      BY <1>1, <2>1, KnowledgeKept DEF MemoryIsTrue
    <2>5. \A g \in Invocation : pc[g] = "merge" => closure[g] <= CurrentHead
      BY BranchFacts DEF MemoryIsTrue, InvocationKnows, Validated, CurrentHead
    <2>6. /\ landed'.head = CurrentHead /\ landed'.by = "owner" /\ CurrentHead # None
          /\ pr'.status = "MERGED"
      BY <1>12, BranchFacts DEF OwnerMerges, TypeOK, None
    <2>7. LandedInv'
      BY <2>1, <2>5, <2>6 DEF LandedInv, procVars
    <2>8. QED
      BY <2>2, <2>3, <2>4, <2>7 DEF MemoryIsTrue
  <1>13. CASE Failure
    BY <1>13, <1>3, <1>4 DEF Failure
  <1>14. CASE Surroundings
    BY <1>14, <1>5, <1>6, <1>7, <1>8, <1>10, <1>11, <1>12 DEF Surroundings
  <1>15. QED
    BY <1>2, <1>10, <1>13, <1>14 DEF Next

(***************************************************************************)
(* Theorems.                                                               *)
(***************************************************************************)

\* What invocations, late requests and the landing record remember is always true.
THEOREM MemoryStaysTrue == Spec => []MemoryIsTrue
  <1>1. Init => TypeOK /\ MemoryIsTrue
    BY InitTypeOK, InitMemory
  <1>2. TypeOK /\ MemoryIsTrue /\ [Next]_vars => (TypeOK /\ MemoryIsTrue)'
    BY NextTypeOK, NextMemory
  <1>3. QED
    BY <1>1, <1>2, PTL DEF Spec

\* A finalizer merges nothing but the exact closure of work whose approval stood at
\* its boundary read, for any number of rival, killed and late invocations.
THEOREM MergedClosureSafety == Spec => []MergedIsApprovedClosure
  <1>1. MemoryIsTrue => MergedIsApprovedClosure
    BY DEF MemoryIsTrue, LandedInv, Validated, MergedIsApprovedClosure
  <1>2. QED
    BY <1>1, MemoryStaysTrue, PTL

\* Every commit a finalizer adds is the exact closure of approved work.
THEOREM ClosureSafety == Spec => []EveryClosureIsDerived
  <1>1. MemoryIsTrue => EveryClosureIsDerived
    BY DEF MemoryIsTrue
  <1>2. QED
    BY <1>1, MemoryStaysTrue, PTL

\* A closure is requested only for an approved HEAD still in review, a merge only of the
\* exact closure of one, mergeable and with its checks green.
THEOREM RequestsAuthorised == Spec => RequestsAreAuthorised
  <1> DEFINE Inv == TypeOK /\ MemoryIsTrue
             Wanted(f) ==
               /\ pc'[f] = "create" /\ pc[f] # "create" =>
                     Authorised /\ CurrentHead = Substantive
                                /\ Replaceable(history[CurrentHead].text)
               /\ pc'[f] = "merge" /\ pc[f] # "merge" =>
                     Authorised /\ IsClosure(history, CurrentHead)
                                /\ pr.mergeable /\ CurrentHead \in green
  <1>1. ASSUME Inv, [Next]_vars, NEW f \in Invocation PROVE Wanted(f)
    <2>1. TypeOK /\ MemoryIsTrue /\ pc \in [Invocation -> Label]
      BY <1>1 DEF TypeOK
    <2>2. ASSUME pc'[f] = "create", pc[f] # "create"
          PROVE  ReadInitial(f) /\ SnapshotVerdict(Snapshot) = "valid"
                 /\ Replaceable(history[Substantive].text) /\ CurrentHead = Substantive
      BY <1>1, <2>1, <2>2
      DEF Next, Invoke, Failure, Surroundings, vars, procVars, Wake, Goto, Exit, ReadInitial,
          Snapshot, CreateClosure, ReadRefreshed, ReadBoundary, Merge, ProviderFails,
          MalformedSnapshot, Kill, LateRequest, WorkerPushesWork, WorkerPushesDerived,
          SupervisorDecides, ChecksSucceed, MergeabilityComputed, Change, ChecksRegress,
          OwnerIntervenes, OwnerMerges
    <2>3. ASSUME pc'[f] = "merge", pc[f] # "merge"
          PROVE  /\ pc[f] = "boundary" /\ SnapshotVerdict(Snapshot) = "valid"
                 /\ StillMergeable(Snapshot, approved[f], closure[f]) = "valid"
      BY <1>1, <2>1, <2>3
      DEF Next, Invoke, Failure, Surroundings, vars, procVars, Wake, Goto, Exit, ReadInitial,
          CreateClosure, ReadRefreshed, ReadBoundary, Merge, ProviderFails,
          MalformedSnapshot, Kill, LateRequest, WorkerPushesWork, WorkerPushesDerived,
          SupervisorDecides, ChecksSucceed, MergeabilityComputed, Change, ChecksRegress,
          OwnerIntervenes, OwnerMerges
    <2>4. pc'[f] = "create" /\ pc[f] # "create" =>
             Authorised /\ CurrentHead = Substantive
                        /\ Replaceable(history[CurrentHead].text)
      BY <2>2, ValidSnapshot
    <2>5. ASSUME pc'[f] = "merge", pc[f] # "merge"
          PROVE  Authorised /\ IsClosure(history, CurrentHead)
                            /\ pr.mergeable /\ CurrentHead \in green
      <3>1. Closable(approved[f])
        BY <2>1, <2>3, <2>5 DEF MemoryIsTrue, InvocationKnows
      <3>2. /\ Validated(closure[f], Len(decisions)) /\ closure[f] = CurrentHead
            /\ pr.mergeable /\ CurrentHead \in green
        BY <2>1, <2>3, <2>5, <3>1, BoundaryIsValidated
      <3>3. QED
        BY <2>3, <2>5, <3>2, ValidSnapshot DEF Validated
    <2>6. QED
      BY <2>4, <2>5
  <1>2. Inv /\ [Next]_vars => \A f \in Invocation : Wanted(f)
    BY <1>1
  <1>3. Spec => []Inv
    BY TypeCorrect, MemoryStaysTrue, PTL
  <1>4. QED
    BY <1>2, <1>3, PTL DEF Spec, RequestsAreAuthorised

\* "finalized" is printed only of a pull request that landed at the closure reported.
THEOREM FinalizedMerged == Spec => FinalizedIsMerged
  <1> DEFINE Inv == TypeOK /\ MemoryIsTrue
             Landed(f) ==
               report'[f] = "finalized" /\ report[f] # "finalized" =>
                 landed'.by # "nobody" /\ landed'.head = closure[f]
  <1>1. ASSUME Inv, [Next]_vars, NEW f \in Invocation,
               report'[f] = "finalized", report[f] # "finalized"
        PROVE  landed'.by # "nobody" /\ landed'.head = closure[f]
    <2>1. TypeOK /\ MemoryIsTrue /\ report \in [Invocation -> Classification \cup
                                {"none", "killed", "uncaught_exception"}]
      BY <1>1 DEF TypeOK
    <2>2. /\ SnapshotVerdict(Snapshot) # "finalized"
          /\ \A s, h : StillMergeable(Snapshot, s, h) # "finalized"
      BY DEF SnapshotVerdict, AuthorityVerdict, QueueVerdict, ApprovalVerdict,
             StillMergeable, ChecksVerdict
    <2>a. ASSUME NEW g \in Invocation, NEW c, Exit(g, c) PROVE g = f /\ c = "finalized"
      BY <1>1, <2>1, <2>a DEF Exit
    <2>b. Merge(f)
      <3>1. ~(Failure \/ Surroundings \/ UNCHANGED vars)
        <4>1. CASE Failure
          BY <1>1, <2>a, <4>1
          DEF Failure, ProviderFails, MalformedSnapshot, Kill, LateRequest, procVars
        <4>2. CASE Surroundings \/ UNCHANGED vars
          BY <1>1, <4>2
          DEF Surroundings, WorkerPushesWork, WorkerPushesDerived, SupervisorDecides,
              ChecksSucceed, MergeabilityComputed, Change, ChecksRegress, OwnerIntervenes,
              OwnerMerges, vars, procVars
        <4>3. QED
          BY <4>1, <4>2
      <3>2. PICK g \in Invocation : Invoke(g)
        BY <1>1, <3>1 DEF Next
      <3>3. ~Wake(g) /\ ~CreateClosure(g)
        BY <1>1, <2>1, <2>a DEF Wake, CreateClosure
      <3>4. ~ReadInitial(g) /\ ~ReadRefreshed(g) /\ ~ReadBoundary(g)
        <4>1. ~ReadInitial(g)
          BY <1>1, <2>2, <2>a DEF ReadInitial
        <4>2. ~ReadRefreshed(g)
          BY <1>1, <2>2, <2>a DEF ReadRefreshed
        <4>3. ~ReadBoundary(g)
          BY <1>1, <2>2, <2>a DEF ReadBoundary
        <4>4. QED
          BY <4>1, <4>2, <4>3
      <3>5. Merge(g)
        BY <3>2, <3>3, <3>4 DEF Invoke
      <3>6. QED
        BY <2>a, <3>5 DEF Merge
    <2>3. /\ pc[f] = "merge" /\ HeadIs(closure[f]) /\ pr.status # "CLOSED"
          /\ LandMerge(seen[f])
      BY <2>a, <2>b DEF Merge
    <2>4. CASE pr.status = "OPEN"
      BY <2>3, <2>4 DEF LandMerge, HeadIs
    <2>5. CASE pr.status # "OPEN"
      <3>1. pr.status = "MERGED" /\ landed' = landed
        BY <2>1, <2>3, <2>5 DEF TypeOK, Status, LandMerge
      <3>2. /\ landed.by # "nobody" /\ landed.head # None /\ closure[f] <= landed.head
        BY <2>1, <2>3, <3>1 DEF MemoryIsTrue, LandedInv
      <3>3. landed.head \in DOMAIN history
        BY <2>1, <3>2 DEF TypeOK
      <3>4. /\ landed.head \in Nat /\ landed.head <= Len(history) /\ Len(history) \in Nat
            /\ closure[f] = Len(history)
        BY <2>1, <2>3, <3>3, BranchFacts DEF HeadIs, CurrentHead
      <3>5. QED
        BY <3>1, <3>2, <3>4
    <2>6. QED
      BY <2>4, <2>5
  <1>2. Inv /\ [Next]_vars => \A f \in Invocation : Landed(f)
    BY <1>1
  <1>3. Spec => []Inv
    BY TypeCorrect, MemoryStaysTrue, PTL
  <1>4. QED
    BY <1>2, <1>3, PTL DEF Spec, FinalizedIsMerged

(***************************************************************************)
(* Finalizer implements GateAIClosure.                                     *)
(***************************************************************************)

\* The abstract specification has its own copy of the rules.
LEMMA SameRules ==
  ASSUME NEW H, NEW D, NEW h, NEW n
  PROVE  /\ Abstract!StandsAt(D, n, h) <=> StandsAt(D, n, h)
         /\ Abstract!IsClosure(H, h) <=> IsClosure(H, h)
  BY DEF Abstract!StandsAt, StandsAt, Abstract!Approves, Approves, Abstract!Invalidates,
         Invalidates, Abstract!IsClosure, IsClosure, Abstract!Replaceable, Replaceable,
         Abstract!ReplaceQueueRow, ReplaceQueueRow

\* What was merged, and the branch, as the abstract specification sees them.
LEMMA AbstractState ==
  ASSUME TypeOK
  PROVE  /\ Abstract!Tip = CurrentHead
         /\ Closable(CurrentHead) => Abstract!WasApproved(CurrentHead)
  BY SameRules DEF Abstract!Tip, CurrentHead, Closable, Abstract!WasApproved

\* Appending is what the abstract specification calls extending.
LEMMA AppendExtends ==
  ASSUME NEW S, NEW q \in Seq(S), NEW e \in S
  PROVE  Abstract!Extends(Append(q, e), q)
  BY AppendFacts DEF Abstract!Extends

\* Putting a closure on the HEAD is the atomic close.
LEMMA CloseStep ==
  ASSUME TypeOK, TypeOK', MemoryIsTrue, Closable(CurrentHead), PushClosure(CurrentHead)
  PROVE  Abstract!Close
  <1> DEFINE s == CurrentHead
             rec == ClosureCommit(s)
  <1>1. /\ history \in Seq(CommitRecord) /\ rec \in CommitRecord
        /\ history' = Append(history, rec) /\ UNCHANGED <<decisions, landed>>
    BY ClosureCommitType DEF TypeOK, PushClosure, Closable
  <1>2. /\ s \in 1 .. Len(history) /\ s = Len(history) /\ Len(history) \in Nat
    BY BranchFacts DEF CurrentHead
  <1>3. /\ rec.substantive = s /\ rec.paths = {"queue"}
        /\ rec.text = ReplaceQueueRow(history[s].text, s)
    BY DEF ClosureCommit, ExpectedText
  <1> HIDE DEF rec
  <1>4. history'[s + 1] = rec /\ history'[s] = history[s]
    BY <1>1, <1>2, AppendFacts
  <1>5. IsClosure(history', s + 1)
    BY <1>3, <1>4 DEF IsClosure, Closable
  <1>6. Abstract!Extends(history', history)
    BY <1>1, AppendExtends
  <1>7. QED
    BY <1>1, <1>5, <1>6, SameRules, AbstractState DEF Abstract!Close

\* Landing a validated closure of an open pull request is the atomic merge, and landing
\* it again is nothing.
LEMMA MergeStep ==
  ASSUME TypeOK, TypeOK', MemoryIsTrue, NEW n, Validated(CurrentHead, n), LandMerge(n)
  PROVE  Abstract!DelegatedMerge \/ UNCHANGED Abstract!vars
  <1>1. CASE pr.status = "OPEN"
    <2>1. /\ landed' = [head |-> CurrentHead, by |-> "finalizer", seen |-> n]
          /\ UNCHANGED <<history, decisions>>
      BY <1>1 DEF LandMerge
    <2>2. landed.by = "nobody"
      BY <1>1 DEF MemoryIsTrue, LandedInv
    <2>3. /\ IsClosure(history, CurrentHead) /\ n \in 0 .. Len(decisions)
          /\ StandsAt(decisions, n, history[CurrentHead].substantive)
      BY DEF Validated
    <2>4. history[CurrentHead].substantive = CurrentHead - 1
      BY <2>3, BranchFacts DEF IsClosure, TypeOK
    <2>5. Abstract!WasApproved(CurrentHead - 1)
      BY <2>3, <2>4, SameRules DEF Abstract!WasApproved
    <2>6. QED
      BY <2>1, <2>2, <2>3, <2>5, SameRules, AbstractState DEF Abstract!DelegatedMerge
  <1>2. CASE pr.status # "OPEN"
    BY <1>2 DEF LandMerge, Abstract!vars
  <1>3. QED
    BY <1>1, <1>2

\* A worker's commit is published on top of the branch.
LEMMA PublishStep ==
  ASSUME TypeOK, NEW rec \in CommitRecord, history' = Append(history, rec),
         rec.by = "worker", rec.substantive \in {CurrentHead + 1, Substantive},
         UNCHANGED <<decisions, landed>>
  PROVE  Abstract!Publish
  <1>1. history \in Seq(CommitRecord)
    BY DEF TypeOK
  <1>2. history'[Len(history) + 1] = rec /\ Abstract!Extends(history', history)
    BY <1>1, AppendFacts, AppendExtends
  <1>3. QED
    BY <1>2 DEF Abstract!Publish, Abstract!Tip, CurrentHead, Substantive

\* Every step of Finalizer is a step of GateAIClosure, or none.
LEMMA StepSimulation ==
  ASSUME TypeOK, TypeOK', MemoryIsTrue, [Next]_vars
  PROVE  Abstract!Next \/ UNCHANGED Abstract!vars
  <1>1. CASE UNCHANGED <<history, decisions, landed>>
    BY <1>1 DEF Abstract!vars
  <1>2. ASSUME NEW f \in Invocation, Invoke(f)
        PROVE  Abstract!Next \/ UNCHANGED Abstract!vars
    <2>1. CASE CreateClosure(f) /\ HeadIs(approved[f]) /\ PushClosure(approved[f])
      <3>1. approved[f] = CurrentHead /\ Closable(approved[f])
        BY <2>1 DEF CreateClosure, HeadIs, MemoryIsTrue, InvocationKnows
      <3>2. QED
        BY <2>1, <3>1, CloseStep DEF Abstract!Next
    <2>2. CASE Merge(f) /\ HeadIs(closure[f]) /\ LandMerge(seen[f])
      <3>1. closure[f] = CurrentHead /\ Validated(closure[f], seen[f])
        BY <2>2 DEF Merge, HeadIs, MemoryIsTrue, InvocationKnows
      <3>2. QED
        BY <2>2, <3>1, MergeStep DEF Abstract!Next
    <2>3. CASE UNCHANGED repoVars
      BY <1>1, <2>3 DEF repoVars
    <2>4. QED
      BY <1>2, <2>1, <2>2, <2>3
      DEF Invoke, Wake, ReadInitial, CreateClosure, ReadRefreshed, ReadBoundary, Merge
  <1>3. CASE Failure
    <2>1. ASSUME NEW r \in late, LateRequest(r)
          PROVE  Abstract!Next \/ UNCHANGED Abstract!vars
      <3>1. RequestKnows(r)
        BY DEF MemoryIsTrue
      <3>2. CASE r.op = "create_closure" /\ HeadIs(r.expected_head)
                 /\ PushClosure(r.expected_head)
        BY <3>1, <3>2, CloseStep DEF RequestKnows, HeadIs, Abstract!Next
      <3>3. CASE r.op = "merge" /\ HeadIs(r.expected_head) /\ LandMerge(r.seen)
        BY <3>1, <3>3, MergeStep DEF RequestKnows, HeadIs, Abstract!Next
      <3>4. QED
        BY <2>1, <3>2, <3>3 DEF LateRequest
    <2>2. QED
      BY <1>1, <1>3, <2>1 DEF Failure, ProviderFails, MalformedSnapshot, Kill, repoVars
  <1>4. CASE Surroundings
    <2>1. ASSUME NEW t \in PushedText, WorkerPushesWork(t)
          PROVE  Abstract!Next
      <3>1. [substantive |-> CurrentHead + 1, paths |-> {}, text |-> t, by |-> "worker"]
               \in CommitRecord
        BY BranchFacts, ConstantsAssumption DEF CommitRecord, Commit, Path, CurrentHead
      <3>2. QED
        BY <2>1, <3>1, PublishStep DEF WorkerPushesWork, Abstract!Next
    <2>2. ASSUME NEW p \in SUBSET Path \ {{}},
                 NEW t \in PushedText \cup {history[CurrentHead].text,
                                            ExpectedText(Substantive)},
                 WorkerPushesDerived(p, t)
          PROVE  Abstract!Next
      <3>1. history[CurrentHead] \in CommitRecord /\ Substantive \in Commit
        BY BranchFacts DEF Commit
      <3>2. t \in QueueText
        BY <2>2, <3>1, BranchFacts, ExpectedTextType, ConstantsAssumption DEF CommitRecord
      <3>3. [substantive |-> Substantive, paths |-> history[CurrentHead].paths \cup p,
             text |-> t, by |-> "worker"] \in CommitRecord
        BY <3>1, <3>2 DEF CommitRecord
      <3>4. QED
        BY <2>2, <3>3, PublishStep DEF WorkerPushesDerived, Abstract!Next
    <2>3. ASSUME NEW d \in Decision, SupervisorDecides(d)
          PROVE  Abstract!Next
      BY <2>3, AppendExtends DEF TypeOK, SupervisorDecides, Abstract!Decide, Abstract!Next
    <2>4. CASE OwnerMerges
      BY <2>4 DEF OwnerMerges, MemoryIsTrue, LandedInv, CurrentHead, Abstract!Tip,
                  Abstract!OwnerMerge, Abstract!Next
    <2>5. CASE ChecksSucceed \/ MergeabilityComputed \/ ChecksRegress \/ OwnerIntervenes
      BY <1>1, <2>5 DEF ChecksSucceed, MergeabilityComputed, ChecksRegress, OwnerIntervenes
    <2>6. ASSUME NEW k \in DecisionKind, NEW h \in DOMAIN history
          PROVE  [decision |-> k, head |-> h] \in Decision
      BY BranchFacts DEF Decision, Commit
    <2>7. QED
      BY <1>4, <2>1, <2>2, <2>3, <2>4, <2>5, <2>6 DEF Surroundings
  <1>5. CASE UNCHANGED vars
    BY <1>1, <1>5 DEF vars, repoVars
  <1>6. QED
    BY <1>2, <1>3, <1>4, <1>5 DEF Next

\* Concurrent, killed and late invocations together only ever take the two steps an
\* atomic finalizer could take.
THEOREM Refinement == Spec => ImplementsGateAIClosure
  <1>1. Init => Abstract!Init
    BY DEF Init, Abstract!Init, None, Abstract!None
  <1>2. TypeOK /\ TypeOK' /\ MemoryIsTrue /\ [Next]_vars => [Abstract!Next]_(Abstract!vars)
    BY StepSimulation
  <1>3. QED
    BY <1>1, <1>2, TypeCorrect, MemoryStaysTrue, PTL
    DEF Spec, ImplementsGateAIClosure, Abstract!Spec

(***************************************************************************)
(* The part of progress that needs no fairness.                            *)
(***************************************************************************)
\* What an invocation knows of its closure: once created or found, the branch is past the
\* commit it closes; once validated, it is the commit right above that one.
AheadInv(f) ==
    /\ pc[f] \in {"refresh", "boundary", "merge"} =>
          approved[f] \in DOMAIN history /\ approved[f] < CurrentHead
    /\ pc[f] \in {"boundary", "merge"} => closure[f] = approved[f] + 1

\* Lines 226-278 never refuse a PR that can be finalized but for a cause that goes away
\* by itself or is another's progress: mergeability or checks are pending, or the branch
\* is not the one the invocation set out to close, because a rival has closed it or new
\* work has been pushed and approved since.
RefusalsHaveCause ==
    [][\A f \in Invocation :
          Finalizable /\ pc[f] # "idle" /\ pc'[f] = "idle" /\ faults' = faults =>
             \/ report'[f] = "finalized" /\ pr'.status = "MERGED"
             \/ report'[f] = "mergeability_not_confirmed" /\ ~pr.mergeable
             \/ report'[f] = "required_checks_not_successful" /\ CurrentHead \notin green
             \/ report'[f] = "head_race" /\ pc[f] = "create" /\ approved[f] < CurrentHead
             \/ report'[f] \in {"head_race", "invalid_evidence"} /\ Substantive # approved[f]]_vars

\* Only an invocation's own call moves it on; a fault may end it.
LEMMA OwnStep ==
    ASSUME TypeOK, [Next]_vars, NEW f \in Invocation
    PROVE  \/ Invoke(f)
           \/ pc'[f] = "idle" /\ faults' # faults
           \/ UNCHANGED <<pc[f], approved[f], closure[f]>>
  <1>a. /\ pc \in [Invocation -> Label] /\ faults \in Int
        /\ approved \in [Invocation -> DOMAIN history \cup {None}]
        /\ closure \in [Invocation -> DOMAIN history \cup {None}]
    BY ConstantsAssumption DEF TypeOK
  <1>1. ASSUME NEW g \in Invocation, Invoke(g), g # f
        PROVE  UNCHANGED <<pc[f], approved[f], closure[f]>>
    BY <1>a, <1>1
    DEF Invoke, Wake, ReadInitial, CreateClosure, ReadRefreshed, ReadBoundary, Merge, Goto, Exit
  <1>2. ASSUME NEW g \in Invocation, ProviderFails(g) \/ MalformedSnapshot(g) \/ Kill(g)
        PROVE  \/ pc'[f] = "idle" /\ faults' # faults
               \/ UNCHANGED <<pc[f], approved[f], closure[f]>>
    BY <1>a, <1>2 DEF ProviderFails, MalformedSnapshot, Kill, Fault, Exit
  <1>3. ASSUME NEW r \in late, LateRequest(r)
        PROVE  UNCHANGED <<pc[f], approved[f], closure[f]>>
    BY <1>3 DEF LateRequest, procVars
  <1>4. CASE Surroundings \/ UNCHANGED vars
    BY <1>4
    DEF Surroundings, WorkerPushesWork, WorkerPushesDerived, SupervisorDecides, ChecksSucceed,
        MergeabilityComputed, Change, ChecksRegress, OwnerIntervenes, OwnerMerges, vars, procVars
  <1>5. QED
    BY <1>1, <1>2, <1>3, <1>4 DEF Next, Failure

\* The invariant is inductive.
LEMMA NextAhead ==
    ASSUME TypeOK, TypeOK', [Next]_vars, NEW f \in Invocation, AheadInv(f)
    PROVE  AheadInv(f)'
  <1>a. /\ pc \in [Invocation -> Label] /\ f \in DOMAIN pc
        /\ approved \in [Invocation -> DOMAIN history \cup {None}]
        /\ closure \in [Invocation -> DOMAIN history \cup {None}]
        /\ CurrentHead \in Nat /\ CurrentHead' \in Nat /\ DOMAIN history = 1 .. CurrentHead
        /\ DOMAIN history' = 1 .. CurrentHead'
    BY DEF TypeOK, CurrentHead
  <1>b. DOMAIN history \subseteq DOMAIN history' /\ CurrentHead <= CurrentHead'
    BY <1>a, NextGrows DEF Grows
  <1>1. CASE UNCHANGED <<pc[f], approved[f], closure[f]>>
    BY <1>a, <1>b, <1>1 DEF AheadInv
  <1>2. CASE pc'[f] = "idle"
    BY <1>2 DEF AheadInv
  <1>3. CASE Wake(f)
    BY <1>a, <1>3 DEF Wake, Goto, AheadInv
  <1>4. CASE ReadInitial(f)
    <2>1. CASE pc'[f] = "create" \/ pc'[f] = "idle"
      BY <2>1 DEF AheadInv
    <2>2. CASE ClosureIsExact(Snapshot, ExpectedText(Substantive), Substantive)
                 /\ Goto(f, "refresh") /\ approved' = [approved EXCEPT ![f] = Substantive]
      <3>1. Substantive = CurrentHead - 1 /\ Substantive \in DOMAIN history
        BY <2>2, BranchFacts DEF ClosureIsExact, Snapshot
      <3>2. approved'[f] = Substantive /\ pc'[f] = "refresh"
        BY <1>a, <2>2 DEF Goto
      <3>3. QED
        BY <1>a, <1>b, <3>1, <3>2 DEF AheadInv
    <2>3. QED
      BY <1>a, <1>4, <2>1, <2>2 DEF ReadInitial, Snapshot, Goto, Exit
  <1>5. CASE CreateClosure(f)
    <2>1. CASE HeadIs(approved[f]) /\ PushClosure(approved[f]) /\ Goto(f, "refresh")
                 /\ UNCHANGED approved
      <3>1. CurrentHead' = CurrentHead + 1 /\ approved[f] = CurrentHead
        BY <1>a, <2>1 DEF PushClosure, HeadIs, CurrentHead, TypeOK
      <3>2. pc'[f] = "refresh" /\ approved'[f] = CurrentHead
        BY <1>a, <2>1, <3>1 DEF Goto
      <3>3. CurrentHead \in DOMAIN history'
        BY <1>a, <1>b, BranchFacts
      <3>4. QED
        BY <1>a, <3>1, <3>2, <3>3 DEF AheadInv
    <2>2. QED
      BY <1>2, <1>a, <1>5, <2>1 DEF CreateClosure, Exit
  <1>6. CASE ReadRefreshed(f)
    <2>1. CASE pc[f] = "refresh" /\ Goto(f, "boundary") /\ UNCHANGED approved
                 /\ StillMergeable(Snapshot, approved[f], CurrentHead) = "valid"
                 /\ closure' = [closure EXCEPT ![f] = CurrentHead]
      <3>1. CurrentHead - 1 = approved[f]
        BY <2>1 DEF StillMergeable, ClosureIsExact, Snapshot
      <3>2. pc'[f] = "boundary" /\ closure'[f] = CurrentHead /\ approved'[f] = approved[f]
        BY <1>a, <2>1 DEF Goto
      <3>3. QED
        BY <1>a, <1>b, <2>1, <3>1, <3>2 DEF AheadInv
    <2>2. QED
      BY <1>2, <1>a, <1>6, <2>1 DEF ReadRefreshed, Snapshot, Exit
  <1>7. CASE ReadBoundary(f)
    <2>0. ASSUME NEW c, Exit(f, c) PROVE pc'[f] = "idle"
      BY <1>a, <2>0 DEF Exit
    <2>1. \/ pc'[f] = "idle"
          \/ pc[f] = "boundary" /\ pc'[f] = "merge" /\ UNCHANGED <<approved, closure>>
      BY <1>a, <1>7, <2>0 DEF ReadBoundary, Goto
    <2>2. QED
      BY <1>a, <1>b, <1>2, <2>1 DEF AheadInv
  <1>8. CASE Merge(f)
    BY <1>2, <1>a, <1>8 DEF Merge, Exit
  <1>9. QED
    BY <1>1, <1>2, <1>3, <1>4, <1>5, <1>6, <1>7, <1>8, OwnStep DEF Invoke

\* It holds of every invocation in every state of every behaviour.
LEMMA AheadAlways == Spec => [](\A f \in Invocation : AheadInv(f))
  <1>1. Init => \A f \in Invocation : AheadInv(f)
    BY DEF Init, AheadInv
  <1>2. TypeOK /\ TypeOK' /\ (\A f \in Invocation : AheadInv(f)) /\ [Next]_vars
           => (\A f \in Invocation : AheadInv(f))'
    <2> SUFFICES ASSUME TypeOK, TypeOK', \A f \in Invocation : AheadInv(f), [Next]_vars,
                        NEW f \in Invocation
                 PROVE  AheadInv(f)'
      OBVIOUS
    <2>1. QED
      BY NextAhead
  <1>3. QED
    BY <1>1, <1>2, TypeCorrect, PTL DEF Spec

\* The snapshot of a PR that can be finalized passes every check but the last two.
LEMMA FinalizableSnapshot ==
    ASSUME TypeOK, Finalizable
    PROVE  /\ SnapshotVerdict(Snapshot) = "valid"
           /\ Replaceable(history[Substantive].text)
           /\ CurrentHead # Substantive =>
                 /\ CurrentHead = Substantive + 1
                 /\ ClosureIsExact(Snapshot, ExpectedText(Substantive), Substantive)
  <1>1. Authorised /\ Substantive \in DOMAIN history /\ CurrentHead \in DOMAIN history
        /\ history[Substantive].text \in QueueText /\ DOMAIN history \subseteq Nat
    BY BranchFacts DEF Finalizable, CommitRecord
  <1>2. CurrentHead # Substantive => IsClosure(history, CurrentHead)
    BY DEF Finalizable
  <1>3. IsClosure(history, CurrentHead) =>
          /\ CurrentHead = Substantive + 1 /\ Replaceable(history[Substantive].text)
          /\ history[CurrentHead].paths = {"queue"}
          /\ history[CurrentHead].text = ExpectedText(Substantive)
    BY DEF IsClosure, Substantive, ExpectedText
  <1>4. Replaceable(history[Substantive].text)
    BY <1>2, <1>3 DEF Finalizable
  <1>5. CurrentHead # Substantive =>
          /\ CurrentHead = Substantive + 1
          /\ ClosureIsExact(Snapshot, ExpectedText(Substantive), Substantive)
    BY <1>1, <1>2, <1>3 DEF ClosureIsExact, Snapshot
  <1>6. QueueVerdict(Snapshot) = "valid"
    <2>1. CASE CurrentHead = Substantive
      BY <1>4, <2>1 DEF QueueVerdict, Snapshot, Replaceable
    <2>2. CASE CurrentHead # Substantive
      <3>1. /\ ExpectedText(Substantive).state = "DONE"
            /\ ExpectedText(Substantive).gate = "AI"
        BY <1>1, <1>4 DEF ExpectedText, ReplaceQueueRow, Replaceable, QueueText
      <3>2. history[CurrentHead].text = ExpectedText(Substantive)
        BY <1>2, <1>3, <2>2
      <3>3. QED
        BY <2>2, <3>1, <3>2 DEF QueueVerdict, Snapshot
    <2>3. QED
      BY <2>1, <2>2
  <1>7. ApprovalVerdict(Snapshot) = "valid"
    <2>1. ApprovalStands(decisions, Substantive)
      BY <1>1 DEF Authorised
    <2>2. HasApproval(decisions, Substantive)
      BY <2>1 DEF ApprovalStands, StandsAt, HasApproval, TypeOK
    <2>3. QED
      BY <2>1, <2>2 DEF ApprovalVerdict, Snapshot
  <1>8. AuthorityVerdict(Snapshot) = "valid" /\ Snapshot.status = "OPEN"
    BY <1>1 DEF AuthorityVerdict, Authorised, Snapshot
  <1>9. QED
    BY <1>4, <1>5, <1>6, <1>7, <1>8 DEF SnapshotVerdict

\* A fresh snapshot still shows the closure unless new work was pushed.
LEMMA FinalizableIsExact ==
    ASSUME TypeOK, Finalizable, NEW f \in Invocation, AheadInv(f),
           pc[f] \in {"refresh", "boundary", "merge"}, Substantive = approved[f]
    PROVE  /\ ClosureIsExact(Snapshot, ExpectedText(approved[f]), approved[f])
           /\ CurrentHead = approved[f] + 1
           /\ pc[f] \in {"boundary", "merge"} => closure[f] = CurrentHead
  <1>1. CurrentHead # Substantive
    BY BranchFacts DEF AheadInv
  <1>2. QED
    BY <1>1, FinalizableSnapshot DEF AheadInv

\* The finalizer never refuses what can be finalized but for a cause outside it.
THEOREM RefusedForCause == Spec => RefusalsHaveCause
  <1> DEFINE Inv == TypeOK /\ \A f \in Invocation : AheadInv(f)
             Pending(f) ==
               \/ report'[f] = "mergeability_not_confirmed" /\ ~pr.mergeable
               \/ report'[f] = "required_checks_not_successful" /\ CurrentHead \notin green
               \/ report'[f] \in {"head_race", "invalid_evidence"} /\ Substantive # approved[f]
             Caused(f) ==
               Finalizable /\ pc[f] # "idle" /\ pc'[f] = "idle" /\ faults' = faults =>
                 \/ report'[f] = "finalized" /\ pr'.status = "MERGED"
                 \/ report'[f] = "mergeability_not_confirmed" /\ ~pr.mergeable
                 \/ report'[f] = "required_checks_not_successful" /\ CurrentHead \notin green
                 \/ report'[f] = "head_race" /\ pc[f] = "create" /\ approved[f] < CurrentHead
                 \/ report'[f] \in {"head_race", "invalid_evidence"}
                      /\ Substantive # approved[f]
  <1>1. ASSUME Inv, [Next]_vars, NEW f \in Invocation PROVE Caused(f)
    <2> SUFFICES ASSUME Finalizable, pc[f] # "idle", pc'[f] = "idle", faults' = faults
                 PROVE  Caused(f)
      OBVIOUS
    <2>a. /\ TypeOK /\ AheadInv(f) /\ Invoke(f)
          /\ pc \in [Invocation -> Label]
          /\ report \in [Invocation -> Classification \cup {"none", "killed", "uncaught_exception"}]
      BY <1>1, OwnStep DEF TypeOK
    <2>b. /\ SnapshotVerdict(Snapshot) = "valid" /\ Replaceable(history[Substantive].text)
          /\ CurrentHead # Substantive =>
               ClosureIsExact(Snapshot, ExpectedText(Substantive), Substantive)
      BY <2>a, FinalizableSnapshot
    <2>1. CASE Wake(f)
      BY <2>1 DEF Wake
    <2>2. CASE ReadInitial(f)
      <3>1. ~Exit(f, SnapshotVerdict(Snapshot)) \/ SnapshotVerdict(Snapshot) = "valid"
        BY <2>b
      <3>2. Goto(f, "create") \/ Goto(f, "refresh")
        BY <2>2, <2>b DEF ReadInitial, Snapshot
      <3>3. QED
        BY <2>a, <3>2 DEF Goto
    <2>3. CASE CreateClosure(f)
      <3>1. ~HeadIs(approved[f]) /\ report'[f] = "head_race" /\ pc[f] = "create"
        BY <2>3, <2>a DEF CreateClosure, Goto, Exit
      <3>2. approved[f] < CurrentHead \/ approved[f] = None
        BY <2>a, <3>1, BranchFacts DEF HeadIs, CurrentHead, TypeOK
      <3>3. None < CurrentHead
        BY <2>a, BranchFacts DEF None, CurrentHead
      <3>4. QED
        BY <3>1, <3>2, <3>3
    <2>4. ASSUME NEW h, StillMergeable(Snapshot, approved[f], h) # "valid",
                 pc[f] \in {"refresh", "boundary"}, h = CurrentHead \/ h = closure[f],
                 pc[f] = "refresh" => h = CurrentHead,
                 report'[f] = StillMergeable(Snapshot, approved[f], h)
          PROVE  Pending(f)
      <3>1. CASE Substantive # approved[f]
        BY <2>4, <3>1 DEF StillMergeable, Snapshot
      <3>2. CASE Substantive = approved[f]
        <4>1. /\ ClosureIsExact(Snapshot, ExpectedText(approved[f]), approved[f])
              /\ h = CurrentHead
          BY <2>a, <2>4, <3>2, FinalizableIsExact
        <4>2. ChecksVerdict(Snapshot, h) # "valid" /\ report'[f] = ChecksVerdict(Snapshot, h)
          BY <2>4, <3>2, <4>1 DEF StillMergeable, Snapshot
        <4>3. QED
          BY <4>1, <4>2 DEF ChecksVerdict, Snapshot
      <3>3. QED
        BY <3>1, <3>2
    <2>5. CASE ReadRefreshed(f)
      <3>1. /\ pc[f] = "refresh" /\ StillMergeable(Snapshot, approved[f], CurrentHead) # "valid"
            /\ report'[f] = StillMergeable(Snapshot, approved[f], CurrentHead)
        BY <2>5, <2>a, <2>b DEF ReadRefreshed, Snapshot, Goto, Exit
      <3>2. QED
        BY <2>4, <3>1
    <2>6. CASE ReadBoundary(f)
      <3>1. /\ pc[f] = "boundary" /\ StillMergeable(Snapshot, approved[f], closure[f]) # "valid"
            /\ report'[f] = StillMergeable(Snapshot, approved[f], closure[f])
        BY <2>6, <2>a, <2>b DEF ReadBoundary, StopIterations, Goto, Exit
      <3>2. QED
        BY <2>4, <3>1
    <2>7. CASE Merge(f)
      <3>1. pr.status = "OPEN" /\ pc[f] = "merge"
        BY <2>7 DEF Finalizable, Authorised, Merge
      <3>2. CASE HeadIs(closure[f])
        BY <2>7, <2>a, <3>1, <3>2 DEF Merge, LandMerge, Exit, TypeOK
      <3>3. CASE ~HeadIs(closure[f])
        <4>1. report'[f] = "head_race"
          BY <2>7, <2>a, <3>3 DEF Merge, Exit
        <4>2. Substantive # approved[f]
          BY <2>a, <3>1, <3>3, FinalizableIsExact DEF HeadIs
        <4>3. QED
          BY <4>1, <4>2
      <3>4. QED
        BY <3>2, <3>3
    <2>8. QED
      BY <2>a, <2>1, <2>2, <2>3, <2>5, <2>6, <2>7 DEF Invoke
  <1>2. Inv /\ [Next]_vars => \A f \in Invocation : Caused(f)
    BY <1>1
  <1>3. Spec => []Inv
    BY TypeCorrect, AheadAlways, PTL
  <1>4. QED
    BY <1>2, <1>3, PTL DEF Spec, RefusalsHaveCause
=============================================================================
