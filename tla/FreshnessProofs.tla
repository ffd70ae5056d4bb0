--------------------------- MODULE FreshnessProofs ---------------------------
(***************************************************************************)
(* Freshness's type invariant and EvaluatedIsFresh, for every set of       *)
(* evaluations and any number of commits, rewinds and failures.            *)
(***************************************************************************)
EXTENDS Freshness, TLAPS

\* What one evaluation has learnt, and what it is worth.
ReaderInv(h) ==
    /\ began[h] <= commits + rewinds /\ verified[h] <= writes
    /\ pc[h] = "update" => fetched[h] \in Commit
    /\ pc[h] \notin {"idle", "ls_remote"} =>
          /\ remote_sha[h] \in Commit
          /\ began[h] = commits + rewinds => remote_sha[h] = main
    /\ pc[h] = "show" /\ writes = verified[h] => tracking = remote_sha[h]

\* Main is a commit that was made.
Inv == TypeOK /\ main <= commits /\ \A h \in Reader : ReaderInv(h)

\* It holds before the first evaluation.
LEMMA InitInv == Init => Inv
  <1> SUFFICES ASSUME Init PROVE Inv
    OBVIOUS
  <1>1. TypeOK
    BY ConstantsAssumption DEF Init, TypeOK, Commit, Label
  <1>2. QED
    BY <1>1 DEF Init, Inv, ReaderInv

\* What a step of one evaluation leaves alone.
Frame(h) ==
    /\ UNCHANGED remote
    /\ writes' \in Nat /\ writes <= writes' /\ (writes' = writes => tracking' = tracking)
    /\ \A g \in Reader \ {h} :
          /\ pc'[g] = pc[g] /\ began'[g] = began[g] /\ remote_sha'[g] = remote_sha[g]
          /\ fetched'[g] = fetched[g] /\ verified'[g] = verified[g]

\* The others notice at most that the ref was written.
LEMMA StepFrame ==
    ASSUME TypeOK, NEW h \in Reader, Proceed(h) \/ GitFails(h) PROVE Frame(h)
  <1> USE DEF TypeOK, Frame, remote, Goto
  <1>1. CASE Begin(h)
    BY <1>1 DEF Begin
  <1>2. CASE LsRemote(h)
    BY <1>2 DEF LsRemote
  <1>3. CASE FetchAsks(h)
    BY <1>3 DEF FetchAsks
  <1>4. CASE FetchUpdates(h)
    BY <1>4 DEF FetchUpdates
  <1>5. CASE RevParse(h)
    BY <1>5 DEF RevParse
  <1>6. CASE Show(h)
    BY <1>6 DEF Show
  <1>7. CASE GitFails(h)
    BY <1>7 DEF GitFails
  <1>8. QED
    BY <1>1, <1>2, <1>3, <1>4, <1>5, <1>6, <1>7 DEF Proceed

\* A step of an evaluation keeps the types.
LEMMA StepTypeOK ==
    ASSUME TypeOK, NEW h \in Reader, ReaderInv(h), Proceed(h) \/ GitFails(h) PROVE TypeOK'
  <1> USE DEF TypeOK, remote, Goto, Label
  <1>1. CASE Begin(h)
    <2>1. commits + rewinds \in 0 .. (MaxCommits + MaxRewinds)
      BY ConstantsAssumption DEF Commit
    <2>2. QED
      BY <1>1, <2>1 DEF Begin
  <1>2. CASE LsRemote(h)
    BY <1>2 DEF LsRemote
  <1>3. CASE FetchAsks(h)
    BY <1>3 DEF FetchAsks
  <1>4. CASE FetchUpdates(h)
    <2>1. fetched[h] \in Commit
      BY <1>4 DEF FetchUpdates, ReaderInv
    <2>2. QED
      BY <1>4, <2>1 DEF FetchUpdates
  <1>5. CASE RevParse(h)
    BY <1>5 DEF RevParse
  <1>6. CASE Show(h)
    BY <1>6 DEF Show
  <1>7. CASE GitFails(h)
    <2>1. failures + 1 \in 0 .. MaxFailures
      BY <1>7, ConstantsAssumption DEF GitFails
    <2>2. QED
      BY <1>7, <2>1 DEF GitFails
  <1>8. QED
    BY <1>1, <1>2, <1>3, <1>4, <1>5, <1>6, <1>7 DEF Proceed

\* A step of an evaluation keeps what holds of it: only the comparison leads to the
\* state being read.
LEMMA StepReaderInv ==
    ASSUME TypeOK, NEW h \in Reader, ReaderInv(h), Proceed(h) \/ GitFails(h)
    PROVE  ReaderInv(h)'
  <1>a. commits \in Nat /\ rewinds \in Nat /\ writes \in Nat /\ verified[h] \in Nat
    BY ConstantsAssumption DEF TypeOK, Commit
  <1> USE DEF TypeOK, ReaderInv, remote, Goto
  <1>1. CASE Begin(h)
    BY <1>1, <1>a DEF Begin
  <1>2. CASE LsRemote(h)
    BY <1>2 DEF LsRemote
  <1>3. CASE FetchAsks(h)
    BY <1>3 DEF FetchAsks
  <1>4. CASE FetchUpdates(h)
    BY <1>4, <1>a DEF FetchUpdates
  <1>5. CASE RevParse(h)
    BY <1>5, <1>a DEF RevParse
  <1>6. CASE Show(h)
    BY <1>6 DEF Show
  <1>7. CASE GitFails(h)
    BY <1>7 DEF GitFails
  <1>8. QED
    BY <1>1, <1>2, <1>3, <1>4, <1>5, <1>6, <1>7 DEF Proceed

\* Every step keeps the invariant.
LEMMA NextInv == Inv /\ [Next]_vars => Inv'
  <1> SUFFICES ASSUME Inv, [Next]_vars PROVE Inv'
    OBVIOUS
  <1>a. TypeOK /\ \A h \in Reader : ReaderInv(h)
    BY DEF Inv
  <1>1. ASSUME NEW h \in Reader, Proceed(h) \/ GitFails(h) PROVE Inv'
    <2>1. TypeOK' /\ Frame(h)
      BY <1>1, <1>a, StepTypeOK, StepFrame
    <2>2. ASSUME NEW g \in Reader PROVE ReaderInv(g)'
      <3>1. CASE g = h
        BY <1>1, <1>a, <3>1, StepReaderInv
      <3>2. CASE g # h
        <4>1. ReaderInv(g) /\ verified[g] \in Nat /\ writes \in Nat
          BY <1>a DEF TypeOK
        <4>2. QED
          BY <2>1, <3>2, <4>1 DEF Frame, ReaderInv, remote
      <3>3. QED
        BY <3>1, <3>2
    <2>3. QED
      BY <2>1, <2>2 DEF Inv, Frame, remote
  <1>2. CASE Push \/ Rewind
    <2>1. /\ main' \in Commit /\ commits' \in Commit /\ rewinds' \in 0 .. MaxRewinds
          /\ main' <= commits' /\ commits' + rewinds' = commits + rewinds + 1
      BY <1>2, <1>a, ConstantsAssumption DEF Inv, TypeOK, Push, Rewind, Commit
    <2>2. UNCHANGED <<failures, tracking, writes, pc, began, remote_sha, fetched, verified,
                      evaluated>>
      BY <1>2 DEF Push, Rewind
    <2>3. TypeOK'
      BY <1>a, <2>1, <2>2 DEF TypeOK
    <2>4. ASSUME NEW h \in Reader PROVE ReaderInv(h)'
      <3>1. ReaderInv(h) /\ began[h] \in Nat /\ commits + rewinds \in Nat
        BY <1>a, ConstantsAssumption DEF TypeOK, Commit
      <3>2. began[h] <= commits' + rewinds' /\ began[h] # commits' + rewinds'
        <4>1. began[h] <= commits + rewinds
          BY <3>1 DEF ReaderInv
        <4>2. QED
          BY <2>1, <3>1, <4>1
      <3>3. QED
        BY <2>2, <3>1, <3>2 DEF ReaderInv
    <2>5. QED
      BY <2>1, <2>3, <2>4 DEF Inv
  <1>3. CASE UNCHANGED vars
    BY <1>3, <1>a DEF Inv, TypeOK, ReaderInv, vars, remote
  <1>4. QED
    BY <1>1, <1>2, <1>3 DEF Next

\* It holds of every state of every behaviour.
LEMMA InvAlways == Spec => []Inv
  BY InitInv, NextInv, PTL DEF Spec

\* Every variable keeps its type, however many evaluations share the checkout.
THEOREM TypeCorrect == Spec => []TypeOK
  <1>1. Inv => TypeOK
    BY DEF Inv
  <1>2. QED
    BY <1>1, InvAlways, PTL

\* What is evaluated is what the remote said, and what is on main if main rests, unless
\* another evaluation wrote the ref after it was compared.
THEOREM EvaluationFresh == Spec => EvaluatedIsFresh
  <1> DEFINE Fresh(h) ==
        evaluated[h] = None /\ evaluated'[h] # None /\ writes = verified[h] =>
          /\ evaluated'[h] = remote_sha[h]
          /\ began[h] = commits + rewinds => evaluated'[h] = main
  <1>1. ASSUME Inv, [Next]_vars, NEW h \in Reader PROVE Fresh(h)
    <2>1. CASE Show(h)
      BY <1>1, <2>1 DEF Inv, TypeOK, ReaderInv, Show
    <2>2. CASE ~Show(h)
      <3>1. evaluated'[h] = evaluated[h] \/ evaluated'[h] = None
        <4>1. CASE \E g \in Reader : Proceed(g) \/ GitFails(g)
          BY <1>1, <2>2, <4>1
          DEF Inv, TypeOK, Proceed, Begin, LsRemote, FetchAsks, FetchUpdates, RevParse, Show,
              GitFails
        <4>2. CASE Push \/ Rewind \/ UNCHANGED vars
          BY <4>2 DEF Push, Rewind, vars
        <4>3. QED
          BY <1>1, <4>1, <4>2 DEF Next
      <3>2. QED
        BY <3>1
    <2>3. QED
      BY <2>1, <2>2
  <1>2. Inv /\ [Next]_vars => \A h \in Reader : Fresh(h)
    BY <1>1
  <1>3. QED
    BY <1>2, InvAlways, PTL DEF Spec, EvaluatedIsFresh
\* Evaluations that were told of another commit than the one on main and have yet to
\* write it to the ref.
Leftover == {h \in Reader : pc[h] = "update" /\ fetched[h] # main}

\* The safety half of MainIsEvaluatedAgain.  While main rests, no evaluation becomes a
\* leftover, only the write of one takes the ref away from main and uses it up, every other
\* fetch brings the ref to main, and the comparison of validation/heartbeat_harness.py:226
\* turns an evaluation that began since away only while the ref is elsewhere.
LeftoversAreUsedUp ==
    [][UNCHANGED remote =>
          /\ Leftover' \subseteq Leftover
          /\ tracking = main /\ tracking' # main => \E h \in Leftover : h \notin Leftover'
          /\ \A h \in Reader :
                /\ pc[h] = "update" /\ pc'[h] = "rev_parse" /\ h \notin Leftover =>
                      tracking' = main
                /\ /\ pc[h] = "rev_parse" /\ pc'[h] = "idle" /\ failures' = failures
                   /\ began[h] = commits + rewinds
                   => tracking # main]_vars
\* What one step does to the leftovers, for every step but those of other actors.
LeftoverStep ==
    UNCHANGED remote =>
      /\ Leftover' \subseteq Leftover
      /\ tracking = main /\ tracking' # main => \E h \in Leftover : h \notin Leftover'
      /\ \A h \in Reader :
            /\ pc[h] = "update" /\ pc'[h] = "rev_parse" /\ h \notin Leftover => tracking' = main
            /\ /\ pc[h] = "rev_parse" /\ pc'[h] = "idle" /\ failures' = failures
               /\ began[h] = commits + rewinds
               => tracking # main

\* A fetch writes what it was told, and is over.
LEMMA WriteUsesUp ==
    ASSUME Inv, NEW h \in Reader, FetchUpdates(h) PROVE LeftoverStep
  <1>1. /\ pc \in [Reader -> Label] /\ fetched \in [Reader -> Commit \cup {None}]
        /\ pc[h] = "update" /\ tracking' = fetched[h]
        /\ pc' = [pc EXCEPT ![h] = "rev_parse"] /\ fetched' = [fetched EXCEPT ![h] = None]
    BY DEF Inv, TypeOK, FetchUpdates, Goto
  <1>2. /\ pc'[h] = "rev_parse"
        /\ \A g \in Reader \ {h} : pc'[g] = pc[g] /\ fetched'[g] = fetched[g]
    BY <1>1
  <1>3. ASSUME UNCHANGED remote
        PROVE  Leftover' \subseteq Leftover /\ h \notin Leftover'
    BY <1>2, <1>3 DEF Leftover, remote
  <1>4. fetched[h] # main => h \in Leftover
    BY <1>1 DEF Leftover
  <1>5. \A g \in Reader :
           /\ pc[g] = "update" /\ pc'[g] = "rev_parse" => g = h
           /\ ~(pc[g] = "rev_parse" /\ pc'[g] = "idle")
    BY <1>1, <1>2
  <1>6. QED
    BY <1>1, <1>3, <1>4, <1>5 DEF LeftoverStep, remote

\* A step that is not the write of a fetch leaves the ref alone, and tells of main as it is.
LEMMA OtherStepsKeep ==
    ASSUME Inv, NEW h \in Reader, Proceed(h) \/ GitFails(h), ~FetchUpdates(h)
    PROVE  LeftoverStep
  <1>1. /\ pc \in [Reader -> Label] /\ fetched \in [Reader -> Commit \cup {None}]
        /\ failures \in Nat /\ ReaderInv(h)
    BY ConstantsAssumption DEF Inv, TypeOK
  <1>2. /\ tracking' = tracking
        /\ \A g \in Reader \ {h} : pc'[g] = pc[g] /\ fetched'[g] = fetched[g]
    BY <1>1 DEF Proceed, Begin, LsRemote, FetchAsks, RevParse, Show, GitFails, Goto
  <1>3. pc'[h] = "update" => fetched'[h] = main
    BY <1>1 DEF Proceed, Begin, LsRemote, FetchAsks, RevParse, Show, GitFails, Goto
  <1>4. UNCHANGED remote => Leftover' \subseteq Leftover
    BY <1>2, <1>3 DEF Leftover, remote
  <1>5. ~(pc[h] = "update" /\ pc'[h] = "rev_parse")
    BY <1>1 DEF Proceed, Begin, LsRemote, FetchAsks, RevParse, Show, GitFails, Goto
  <1>6. pc[h] = "rev_parse" /\ pc'[h] = "idle" /\ failures' = failures =>
           tracking # remote_sha[h]
    BY <1>1 DEF Proceed, Begin, LsRemote, FetchAsks, RevParse, Show, GitFails, Goto
  <1>7. pc[h] = "rev_parse" /\ began[h] = commits + rewinds => remote_sha[h] = main
    BY <1>1 DEF ReaderInv
  <1>8. QED
    BY <1>2, <1>4, <1>5, <1>6, <1>7 DEF LeftoverStep, remote

\* Once main rests, what rivals fetched earlier can delay its evaluation a bounded number
\* of times only.
THEOREM LeftoversUsedUp == Spec => LeftoversAreUsedUp
  <1>1. ASSUME Inv, [Next]_vars PROVE LeftoverStep
    <2>1. CASE \E h \in Reader : Proceed(h) \/ GitFails(h)
      BY <1>1, <2>1, WriteUsesUp, OtherStepsKeep
    <2>2. CASE Push
      BY <1>1, <2>2, ConstantsAssumption DEF Inv, TypeOK, Commit, Push, LeftoverStep, remote
    <2>3. CASE Rewind
      BY <1>1, <2>3, ConstantsAssumption DEF Inv, TypeOK, Rewind, LeftoverStep, remote
    <2>4. CASE UNCHANGED vars
      BY <2>4 DEF LeftoverStep, Leftover, vars, remote
    <2>5. QED
      BY <1>1, <2>1, <2>2, <2>3, <2>4 DEF Next
  <1>2. Inv /\ [Next]_vars => [LeftoverStep]_vars
    BY <1>1
  <1>3. LeftoversAreUsedUp <=> [][LeftoverStep]_vars
    BY PTL DEF LeftoversAreUsedUp, LeftoverStep
  <1>4. QED
    BY <1>2, <1>3, InvAlways, PTL DEF Spec
=============================================================================
