------------------------- MODULE ConsumerSyncProofs -------------------------
(***************************************************************************)
(* ConsumerSync's properties, for every set of invocations, revisions,     *)
(* blocks and files and any number of edits.                               *)
(***************************************************************************)
EXTENDS ConsumerSync, TLAPS

(***************************************************************************)
(* What holds of one invocation.                                           *)
(***************************************************************************)
Staging == {"copy", "write", "verify", "replace"}

\* It goes on only with a plan that did not fail on what it read.
PlanInv(i) ==
    /\ pc[i] \in {"record", "again", "stage"} \cup Staging =>
          job[i].revision \in Revision /\ read[i].agents \in Agents
    /\ pc[i] \in {"again", "stage"} \cup Staging =>
          /\ read[i].record \in Record
          /\ ~PlanFails(read[i].agents, read[i].record, job[i].revision)

\* What is staged is complete before it is written, and the template's before it is renamed.
StagingInv(i) ==
    /\ pc[i] \in {"agents", "record", "again", "stage", "return"} => staging[i] = None
    /\ pc[i] = "done" => staging[i] \in {None, NothingStaged}
    /\ exit[i] = "success" => staging[i] = None
    /\ pc[i] \in Staging => staging[i] \in Staged
    /\ pc[i] \in {"write", "verify", "replace"} => \A f \in File : staging[i].files[f] # None
    /\ pc[i] \in {"verify", "replace"} =>
          /\ staging[i].agents = Spliced(read[i].agents, BlockOf[job[i].revision])
          /\ staging[i].record = Canonical(job[i].revision)
    /\ pc[i] = "replace" =>
          staging[i].agents.block # None /\ staging[i].agents.block = BlockOf[job[i].revision]

\* Only the rename publishes, and nothing fails after it.
OutcomeInv(i) ==
    /\ pc[i] # "done" => exit[i] = None
    /\ pc[i] = "return" => i \in published
    /\ pc[i] \notin {"return", "done"} => i \notin published
    /\ pc[i] = "done" /\ i \in published => exit[i] \in {"success", "unflushed", "killed"}
    /\ exit[i] = "success" /\ status[i] = "change" /\ job[i].target # "none" =>
          i \in published

\* What it read first, then, and copied, was in the tree at its beginning, and since.
PastInv(i) ==
    /\ pc[i] \in {"record", "again", "stage"} \cup Staging =>
          began[i] <= edits /\ read[i].agents = past[began[i]].agents
    /\ pc[i] \in {"again", "stage"} \cup Staging =>
          \E m \in began[i] .. edits : read[i].record = past[m].record
    /\ pc[i] \in Staging =>
          \A f \in File : staging[i].files[f] = None
                            \/ \E m \in began[i] .. edits : staging[i].files[f] = past[m].files[f]

InvocationInv(i) == PlanInv(i) /\ StagingInv(i) /\ OutcomeInv(i) /\ PastInv(i)

Inv ==
    /\ TypeOK /\ past[edits] = consumer /\ CandidateIsSynchronised
    /\ \A i \in Invocation : InvocationInv(i)

(***************************************************************************)
(* Facts about the plan.                                                   *)
(***************************************************************************)

\* What a splice returns.
LEMMA SplicedFacts ==
    ASSUME NEW agents \in Agents, NEW block \in Block \cup {None}
    PROVE  /\ Spliced(agents, block) \in Agents
           /\ Spliced(agents, block).block \in {None, block}
           /\ Spliced(agents, block).block # None =>
                 Spliced(agents, block) = [agents EXCEPT !.block = block]
  BY DEF Agents, Spliced

\* A plan that does not fail knows both blocks.
LEMMA PlanFacts ==
    ASSUME NEW agents \in Agents, NEW record \in Record, NEW proposed \in Revision,
           ~PlanFails(agents, record, proposed)
    PROVE  /\ record.revision \in Revision
           /\ agents.block # None /\ agents.block = BlockOf[record.revision]
           /\ BlockOf[proposed] # None
  BY DEF PlanFails, Record

\* A plan that changes nothing finds its own output.
LEMMA NoChange ==
    ASSUME NEW agents \in Agents, NEW record \in Record, NEW proposed \in Revision,
           ~PlanFails(agents, record, proposed), ~IsChange(agents, record, proposed)
    PROVE  /\ record = Canonical(proposed)
           /\ agents.block # None /\ agents.block = BlockOf[proposed]
  BY PlanFacts DEF IsChange, Canonical

\* The block of a revision, and the record the tool writes.
LEMMA BlockType ==
    ASSUME NEW revision \in Revision
    PROVE  BlockOf[revision] \in Block \cup {None} /\ Canonical(revision) \in Record
  BY ConstantsAssumption DEF Canonical, Record

\* What is staged is a tree when nothing of it is missing.
LEMMA StagedTree ==
    ASSUME NEW x \in Staged, x.agents \in Agents, x.record \in Record,
           \A f \in File : x.files[f] # None
    PROVE  x \in Tree
  BY DEF Staged, Tree

(***************************************************************************)
(* A step of an invocation.                                                *)
(***************************************************************************)
Step(i) == Run(i) \/ Kill(i)

\* What it leaves alone.
Frame(i) ==
    /\ UNCHANGED <<tree, job>>
    /\ \A j \in Invocation \ {i} :
          /\ pc'[j] = pc[j] /\ began'[j] = began[j] /\ read'[j] = read[j]
          /\ staging'[j] = staging[j] /\ status'[j] = status[j] /\ exit'[j] = exit[j]
          /\ j \in published' <=> j \in published

\* A step of one invocation is not noticed by the others.
LEMMA StepFrame ==
    ASSUME TypeOK, NEW i \in Invocation, Step(i) PROVE Frame(i)
  <1> USE DEF TypeOK, Frame, tree, memory, Goto, End, EndFlushing, Abort, Fail
  <1>1. CASE ReadAgents(i)
    BY <1>1 DEF ReadAgents
  <1>2. CASE ReadRecord(i)
    BY <1>2 DEF ReadRecord
  <1>3. CASE ReadRecordAgain(i)
    BY <1>3 DEF ReadRecordAgain
  <1>4. CASE Stage(i)
    BY <1>4 DEF Stage
  <1>5. CASE Copy(i)
    BY <1>5 DEF Copy
  <1>6. CASE Write(i)
    BY <1>6 DEF Write
  <1>7. CASE Verify(i)
    BY <1>7 DEF Verify
  <1>8. CASE Replace(i)
    BY <1>8 DEF Replace, Publish
  <1>9. CASE Return(i)
    BY <1>9 DEF Return
  <1>10. CASE Kill(i)
    BY <1>10 DEF Kill
  <1>11. QED
    BY <1>1, <1>2, <1>3, <1>4, <1>5, <1>6, <1>7, <1>8, <1>9, <1>10 DEF Step, Run

\* What is renamed is a tree in the tool's own form.
LEMMA ReplacedTree ==
    ASSUME TypeOK, NEW i \in Invocation, InvocationInv(i), pc[i] = "replace"
    PROVE  /\ staging[i] \in Tree
           /\ staging[i].record = Canonical(job[i].revision) /\ job[i].revision \in Revision
           /\ staging[i].agents.block # None
           /\ staging[i].agents.block = BlockOf[job[i].revision]
           /\ \A f \in File : staging[i].files[f] # None
  <1>1. /\ staging[i] \in Staged /\ job[i].revision \in Revision /\ read[i].agents \in Agents
        /\ \A f \in File : staging[i].files[f] # None
        /\ staging[i].agents = Spliced(read[i].agents, BlockOf[job[i].revision])
        /\ staging[i].record = Canonical(job[i].revision)
        /\ staging[i].agents.block # None
        /\ staging[i].agents.block = BlockOf[job[i].revision]
    BY DEF InvocationInv, StagingInv, PlanInv, Staging
  <1>2. QED
    BY <1>1, SplicedFacts, BlockType, StagedTree

\* The parts of the type invariant.
Shared ==
    /\ consumer \in Tree /\ edits \in Version /\ past \in [Version -> Tree]
    /\ destination \in Tree \cup {None, Empty}

Control ==
    /\ pc \in [Invocation -> Label] /\ status \in [Invocation -> {"change", "no-op", None}]
    /\ exit \in [Invocation -> ExitCode \cup {None}] /\ published \subseteq Invocation

Memory ==
    /\ job \in [Invocation -> [revision : Revision \cup {None},
                               target : {"none", "outside", "inside"}]]
    /\ began \in [Invocation -> Version]
    /\ read \in [Invocation -> [agents : Agents \cup {None}, record : Record \cup {None}]]
    /\ staging \in [Invocation -> Staged \cup {None}]

\* They make it up.
LEMMA TypeParts == TypeOK <=> Shared /\ Control /\ Memory
  BY DEF TypeOK, Shared, Control, Memory

\* Also in the next state.
LEMMA TypePartsNext == TypeOK' <=> Shared' /\ Control' /\ Memory'
  BY DEF TypeOK, Shared, Control, Memory

\* An invocation ends, goes on, or goes on with what it has read.
LEMMA StepKinds ==
    ASSUME NEW i \in Invocation, Step(i)
    PROVE  \/ \E code \in ExitCode : End(i, code)
           \/ \E label \in Label : Goto(i, label) /\ UNCHANGED memory
           \/ /\ Goto(i, "record") /\ began' = [began EXCEPT ![i] = edits]
              /\ read' = [read EXCEPT ![i].agents = consumer.agents]
           \/ /\ Goto(i, "again") /\ UNCHANGED began
              /\ read' = [read EXCEPT ![i].record = consumer.record]
  <1>a. /\ "success" \in ExitCode /\ "failure" \in ExitCode
        /\ "traceback" \in ExitCode /\ "unflushed" \in ExitCode /\ "killed" \in ExitCode
        /\ "stage" \in Label /\ "copy" \in Label /\ "write" \in Label
        /\ "verify" \in Label /\ "replace" \in Label /\ "return" \in Label
    BY DEF ExitCode, Label
  <1>b. \A code \in Exception : code \in ExitCode
    BY DEF Exception, ExitCode
  <1>1. CASE ReadAgents(i)
    BY <1>1, <1>a, <1>b DEF ReadAgents, Fail
  <1>2. CASE ReadRecord(i)
    BY <1>2, <1>a, <1>b DEF ReadRecord, Fail
  <1>3. CASE ReadRecordAgain(i)
    BY <1>3, <1>a DEF ReadRecordAgain, EndFlushing
  <1>4. CASE Stage(i)
    BY <1>4, <1>a, <1>b DEF Stage, Fail
  <1>5. CASE Copy(i)
    BY <1>5, <1>a DEF Copy, Abort
  <1>6. CASE Write(i)
    BY <1>6, <1>a DEF Write, Abort
  <1>7. CASE Verify(i)
    BY <1>7, <1>a, <1>b DEF Verify, Abort
  <1>8. CASE Replace(i)
    BY <1>8, <1>a DEF Replace, Publish, Abort
  <1>9. CASE Return(i)
    BY <1>9, <1>a DEF Return, EndFlushing
  <1>10. CASE Kill(i)
    BY <1>10, <1>a DEF Kill, Abort
  <1>11. QED
    BY <1>1, <1>2, <1>3, <1>4, <1>5, <1>6, <1>7, <1>8, <1>9, <1>10 DEF Step, Run

\* The end keeps the types.
LEMMA EndType ==
    ASSUME Control, Memory, NEW i \in Invocation, NEW code \in ExitCode, End(i, code)
    PROVE  /\ pc' \in [Invocation -> Label] /\ exit' \in [Invocation -> ExitCode \cup {None}]
           /\ began' \in [Invocation -> Version]
           /\ read' \in [Invocation -> [agents : Agents \cup {None}, record : Record \cup {None}]]
  <1>1. /\ 0 \in Version /\ "done" \in Label
        /\ NothingRead \in [agents : Agents \cup {None}, record : Record \cup {None}]
    BY ConstantsAssumption DEF Version, Label, NothingRead
  <1>2. QED
    BY <1>1 DEF End, Control, Memory

\* Every step of an invocation keeps the types.
LEMMA StepTypeOK ==
    ASSUME TypeOK, NEW i \in Invocation, InvocationInv(i), Step(i) PROVE TypeOK'
  <1>a. Shared /\ Control /\ Memory
    BY TypeParts
  <1>c. /\ 0 \in Version /\ edits \in Version
        /\ consumer.agents \in Agents /\ consumer.record \in Record
    BY <1>a, ConstantsAssumption DEF Shared, Tree, Version
  <1>b. /\ pc' \in [Invocation -> Label] /\ exit' \in [Invocation -> ExitCode \cup {None}]
        /\ began' \in [Invocation -> Version]
        /\ read' \in [Invocation -> [agents : Agents \cup {None}, record : Record \cup {None}]]
    <2>1. CASE \E code \in ExitCode : End(i, code)
      BY <1>a, <2>1, EndType DEF Control, Memory
    <2>2. CASE \E label \in Label : Goto(i, label) /\ UNCHANGED memory
      BY <1>a, <2>2 DEF Goto, memory, Control, Memory
    <2>3. CASE /\ Goto(i, "record") /\ began' = [began EXCEPT ![i] = edits]
               /\ read' = [read EXCEPT ![i].agents = consumer.agents]
      BY <1>a, <1>c, <2>3 DEF Goto, Control, Memory, Label
    <2>4. CASE /\ Goto(i, "again") /\ UNCHANGED began
               /\ read' = [read EXCEPT ![i].record = consumer.record]
      BY <1>a, <1>c, <2>4 DEF Goto, Control, Memory, Label
    <2>5. QED
      BY <2>1, <2>2, <2>3, <2>4, StepKinds
  <1>d. NothingStaged \in Staged
    BY DEF NothingStaged, Staged
  <1>1. CASE ReadAgents(i)
    BY <1>1, <1>a, <1>b, TypePartsNext DEF ReadAgents, Shared, Control, Memory, tree
  <1>2. CASE ReadRecord(i)
    BY <1>2, <1>a, <1>b, TypePartsNext DEF ReadRecord, Shared, Control, Memory, tree
  <1>3. CASE ReadRecordAgain(i)
    BY <1>3, <1>a, <1>b, TypePartsNext
    DEF ReadRecordAgain, Shared, Control, Memory, tree
  <1>4. CASE Stage(i)
    <2>1. QED
      BY <1>4, <1>a, <1>b, <1>d, TypePartsNext
      DEF Stage, Fail, Shared, Control, Memory, tree, End
  <1>5. CASE Copy(i)
    <2>1. staging[i] \in Staged
      BY <1>5 DEF Copy, InvocationInv, StagingInv, Staging
    <2>2. ASSUME NEW f \in File
          PROVE  [staging[i] EXCEPT !.files[f] = consumer.files[f]] \in Staged
      BY <1>a, <2>1 DEF Shared, Tree, Staged
    <2>3. staging' \in [Invocation -> Staged \cup {None}]
      BY <1>5, <1>a, <1>d, <2>2 DEF Copy, Abort, Memory
    <2>4. QED
      BY <1>5, <1>a, <1>b, <2>3, TypePartsNext DEF Copy, Shared, Control, Memory, tree
  <1>6. CASE Write(i)
    <2>1. /\ staging[i] \in Staged /\ job[i].revision \in Revision /\ read[i].agents \in Agents
      BY <1>6 DEF Write, InvocationInv, StagingInv, PlanInv, Staging
    <2>2. /\ Spliced(read[i].agents, BlockOf[job[i].revision]) \in Agents
          /\ Canonical(job[i].revision) \in Record
      BY <2>1, SplicedFacts, BlockType
    <2>3. staging' \in [Invocation -> Staged \cup {None}]
      BY <1>6, <1>a, <1>d, <2>1, <2>2 DEF Write, Abort, Memory, Staged
    <2>4. QED
      BY <1>6, <1>a, <1>b, <2>3, TypePartsNext DEF Write, Shared, Control, Memory, tree
  <1>7. CASE Verify(i)
    BY <1>7, <1>a, <1>b, <1>d, TypePartsNext DEF Verify, Abort, Shared, Control, Memory, tree
  <1>8. CASE Replace(i)
    <2>1. staging[i] \in Tree
      BY <1>8, ReplacedTree DEF Replace
    <2>2. QED
      BY <1>8, <1>a, <1>b, <1>d, <2>1, TypePartsNext
      DEF Replace, Publish, Abort, Shared, Control, Memory, tree
  <1>9. CASE Return(i)
    BY <1>9, <1>a, <1>b, TypePartsNext DEF Return, Shared, Control, Memory, tree
  <1>10. CASE Kill(i)
    BY <1>10, <1>a, <1>b, <1>d, TypePartsNext DEF Kill, Abort, Shared, Control, Memory, tree
  <1>11. QED
    BY <1>1, <1>2, <1>3, <1>4, <1>5, <1>6, <1>7, <1>8, <1>9, <1>10 DEF Step, Run

\* A step of an invocation keeps what holds of it.
LEMMA StepInvocationInv ==
    ASSUME TypeOK, past[edits] = consumer, NEW i \in Invocation, InvocationInv(i), Step(i)
    PROVE  InvocationInv(i)'
  <1>a. Shared /\ Control /\ Memory
    BY TypeParts
  <1>b. PlanInv(i) /\ StagingInv(i) /\ OutcomeInv(i) /\ PastInv(i)
    BY DEF InvocationInv
  <1>c. consumer \in Tree /\ consumer.agents \in Agents /\ consumer.record \in Record
    BY <1>a DEF Shared, Tree
  <1>d. /\ edits \in Int /\ edits \in edits .. edits
        /\ \A m \in Int : m <= edits => edits \in m .. edits
        /\ began[i] \in Int
    BY <1>a, ConstantsAssumption DEF Shared, Memory, Version
  <1> USE DEF Staging, Control, Memory, tree, memory, Goto, End, EndFlushing, Fail,
          Exception
  <1>1. CASE ReadAgents(i)
    <2>1. PlanInv(i)'
      BY <1>1, <1>a, <1>c DEF ReadAgents, PlanInv
    <2>2. StagingInv(i)'
      BY <1>1, <1>a, <1>b DEF ReadAgents, StagingInv
    <2>3. OutcomeInv(i)'
      BY <1>1, <1>a, <1>b DEF ReadAgents, OutcomeInv
    <2>4. PastInv(i)'
      BY <1>1, <1>a, <1>d DEF ReadAgents, PastInv, Shared
    <2>5. QED
      BY <2>1, <2>2, <2>3, <2>4 DEF InvocationInv
  <1>2. CASE ReadRecord(i)
    <2>1. PlanInv(i)'
      BY <1>2, <1>a, <1>b, <1>c DEF ReadRecord, PlanInv
    <2>2. StagingInv(i)'
      BY <1>2, <1>a, <1>b DEF ReadRecord, StagingInv
    <2>3. OutcomeInv(i)'
      BY <1>2, <1>a, <1>b DEF ReadRecord, OutcomeInv
    <2>4. PastInv(i)'
      <3>1. CASE Fail(i)
        BY <1>a, <3>1 DEF PastInv
      <3>2. CASE ~Fail(i)
        <4>1. /\ pc[i] = "record" /\ pc'[i] = "again" /\ read'[i].record = consumer.record
              /\ read'[i].agents = read[i].agents /\ UNCHANGED <<past, edits, began>>
          BY <1>2, <1>a, <3>2 DEF ReadRecord
        <4>2. began[i] <= edits /\ read[i].agents = past[began[i]].agents
          BY <1>b, <4>1 DEF PastInv
        <4>3. \E m \in began[i] .. edits : consumer.record = past[m].record
          BY <1>d, <4>2
        <4>4. QED
          BY <4>1, <4>2, <4>3 DEF PastInv
      <3>3. QED
        BY <3>1, <3>2
    <2>5. QED
      BY <2>1, <2>2, <2>3, <2>4 DEF InvocationInv
  <1>3. CASE ReadRecordAgain(i)
    <2>1. PlanInv(i)'
      BY <1>3, <1>a, <1>b DEF ReadRecordAgain, PlanInv
    <2>2. StagingInv(i)'
      BY <1>3, <1>a, <1>b DEF ReadRecordAgain, StagingInv
    <2>3. OutcomeInv(i)'
      BY <1>3, <1>a, <1>b, ConstantsAssumption DEF ReadRecordAgain, OutcomeInv
    <2>4. PastInv(i)'
      BY <1>3, <1>a, <1>b DEF ReadRecordAgain, PastInv
    <2>5. QED
      BY <2>1, <2>2, <2>3, <2>4 DEF InvocationInv
  <1>4. CASE Stage(i)
    <2>1. PlanInv(i)'
      BY <1>4, <1>a, <1>b DEF Stage, PlanInv
    <2>2. NothingStaged \in Staged
      BY DEF NothingStaged, Staged
    <2>3. StagingInv(i)'
      BY <1>4, <1>a, <1>b, <2>2, ConstantsAssumption DEF Stage, StagingInv, OutcomeInv
    <2>4. OutcomeInv(i)'
      BY <1>4, <1>a, <1>b, ConstantsAssumption DEF Stage, OutcomeInv
    <2>5. PastInv(i)'
      BY <1>4, <1>a, <1>b DEF Stage, NothingStaged, PastInv
    <2>6. QED
      BY <2>1, <2>3, <2>4, <2>5 DEF InvocationInv
  <1>5. CASE Copy(i)
    <2>1. PlanInv(i)'
      BY <1>5, <1>a, <1>b DEF Copy, Abort, PlanInv
    <2>2. staging[i] \in Staged
      BY <1>5, <1>b DEF Copy, StagingInv
    <2>3. ASSUME NEW f \in File
          PROVE  /\ [staging[i] EXCEPT !.files[f] = consumer.files[f]] \in Staged
                 /\ \A g \in File :
                       [staging[i] EXCEPT !.files[f] = consumer.files[f]].files[g]
                          = IF g = f THEN consumer.files[f] ELSE staging[i].files[g]
      BY <1>c, <2>2 DEF Tree, Staged
    <2>4. StagingInv(i)'
      <3>1. CASE Abort(i, "traceback")
        BY <1>a, <3>1 DEF Abort, StagingInv
      <3>2. CASE ~Abort(i, "traceback")
        <4>1. pc[i] = "copy" /\ pc'[i] \in {"copy", "write"} /\ exit'[i] # "success"
          BY <1>5, <1>a, <1>b, <3>2, ConstantsAssumption DEF Copy, OutcomeInv
        <4>2. staging'[i] \in Staged
          BY <1>5, <1>a, <2>2, <2>3, <3>2 DEF Copy
        <4>3. pc'[i] = "write" => \A f \in File : staging'[i].files[f] # None
          BY <1>5, <1>a, <3>2 DEF Copy
        <4>4. QED
          BY <4>1, <4>2, <4>3 DEF StagingInv
      <3>3. QED
        BY <3>1, <3>2
    <2>5. OutcomeInv(i)'
      BY <1>5, <1>a, <1>b, ConstantsAssumption DEF Copy, Abort, OutcomeInv
    <2>6. PastInv(i)'
      <3>1. CASE pc'[i] = "done"
        BY <3>1 DEF PastInv
      <3>2. CASE pc'[i] # "done"
        <4>1. /\ pc[i] = "copy" /\ pc'[i] \in {"copy", "write"}
              /\ UNCHANGED <<consumer, edits, past, began, read>>
          BY <1>5, <1>a, <3>2 DEF Copy, Abort
        <4>2. /\ began[i] <= edits /\ read[i].agents = past[began[i]].agents
              /\ \E m \in began[i] .. edits : read[i].record = past[m].record
          BY <1>b, <4>1 DEF PastInv
        <4>3. ASSUME NEW g \in File
              PROVE  \/ staging'[i].files[g] = None
                     \/ \E m \in began[i] .. edits : staging'[i].files[g] = past[m].files[g]
          <5>1. \/ staging[i].files[g] = None
                \/ \E m \in began[i] .. edits : staging[i].files[g] = past[m].files[g]
            BY <1>b, <4>1 DEF PastInv
          <5>2. CASE UNCHANGED staging
            BY <5>1, <5>2
          <5>3. CASE ~UNCHANGED staging
            <6>1. PICK f \in File :
                    staging'[i] = [staging[i] EXCEPT !.files[f] = consumer.files[f]]
              BY <1>5, <1>a, <3>2, <5>3 DEF Copy, Abort
            <6>2. staging'[i].files[g] = IF g = f THEN consumer.files[f] ELSE staging[i].files[g]
              BY <2>3, <6>1
            <6>3. \E m \in began[i] .. edits : consumer.files[f] = past[m].files[f]
              BY <1>d, <4>2
            <6>4. QED
              BY <5>1, <6>2, <6>3
          <5>4. QED
            BY <5>2, <5>3
        <4>4. QED
          BY <4>1, <4>2, <4>3 DEF PastInv
      <3>3. QED
        BY <3>1, <3>2
    <2>7. QED
      BY <2>1, <2>4, <2>5, <2>6 DEF InvocationInv
  <1>6. CASE Write(i)
    <2>1. PlanInv(i)'
      BY <1>6, <1>a, <1>b DEF Write, Abort, PlanInv
    <2>2. /\ staging[i] \in Staged /\ job[i].revision \in Revision /\ read[i].agents \in Agents
      BY <1>6, <1>b DEF Write, StagingInv, PlanInv
    <2>3. /\ Spliced(read[i].agents, BlockOf[job[i].revision]) \in Agents
          /\ Canonical(job[i].revision) \in Record
      BY <2>2, SplicedFacts, BlockType
    <2>4. StagingInv(i)'
      <3>1. CASE Abort(i, "traceback")
        BY <1>a, <3>1 DEF Abort, StagingInv
      <3>2. CASE ~Abort(i, "traceback")
        <4>1. /\ staging'[i] = [staging[i] EXCEPT
                                   !.agents = Spliced(read[i].agents, BlockOf[job[i].revision]),
                                   !.record = Canonical(job[i].revision)]
              /\ pc'[i] = "verify" /\ exit'[i] = None /\ UNCHANGED <<job, read>>
          BY <1>6, <1>a, <1>b, <3>2 DEF Write, OutcomeInv
        <4>2. \A f \in File : staging[i].files[f] # None
          BY <1>6, <1>b DEF Write, StagingInv
        <4>3. /\ staging'[i] \in Staged /\ \A f \in File : staging'[i].files[f] # None
              /\ staging'[i].agents = Spliced(read[i].agents, BlockOf[job[i].revision])
              /\ staging'[i].record = Canonical(job[i].revision)
          BY <2>2, <2>3, <4>1, <4>2 DEF Staged
        <4>4. QED
          BY <4>1, <4>3, ConstantsAssumption DEF StagingInv
      <3>3. QED
        BY <3>1, <3>2
    <2>5. OutcomeInv(i)'
      BY <1>6, <1>a, <1>b, ConstantsAssumption DEF Write, Abort, OutcomeInv
    <2>6. PastInv(i)'
      BY <1>6, <1>a, <1>b, <2>2 DEF Write, Abort, PastInv, Staged
    <2>7. QED
      BY <2>1, <2>4, <2>5, <2>6 DEF InvocationInv
  <1>7. CASE Verify(i)
    <2>1. PlanInv(i)'
      BY <1>7, <1>a, <1>b DEF Verify, Abort, PlanInv
    <2>2. /\ staging[i].agents \in Agents /\ staging[i].record \in Record
          /\ job[i].revision \in Revision
      BY <1>7, <1>b, SplicedFacts, BlockType DEF Verify, StagingInv, PlanInv
    <2>3. pc'[i] = "replace" => /\ staging[i].agents.block # None
                               /\ staging[i].agents.block = BlockOf[job[i].revision]
      BY <1>7, <1>a, <2>2, NoChange DEF Verify, Abort
    <2>4. StagingInv(i)'
      BY <1>7, <1>a, <1>b, <2>3 DEF Verify, Abort, StagingInv
    <2>5. OutcomeInv(i)'
      BY <1>7, <1>a, <1>b, ConstantsAssumption DEF Verify, Abort, OutcomeInv
    <2>6. PastInv(i)'
      BY <1>7, <1>a, <1>b DEF Verify, Abort, PastInv
    <2>7. QED
      BY <2>1, <2>4, <2>5, <2>6 DEF InvocationInv
  <1>8. CASE Replace(i)
    <2> USE DEF Replace, Publish, Abort
    <2>1. PlanInv(i)'
      BY <1>8, <1>a, <1>b DEF PlanInv
    <2>2. StagingInv(i)'
      BY <1>8, <1>a, <1>b DEF StagingInv
    <2>3. OutcomeInv(i)'
      BY <1>8, <1>a, <1>b, ConstantsAssumption DEF OutcomeInv
    <2>4. PastInv(i)'
      BY <1>8, <1>a, <1>b DEF PastInv
    <2>5. QED
      BY <2>1, <2>2, <2>3, <2>4 DEF InvocationInv
  <1>9. CASE Return(i)
    <2>1. PlanInv(i)' /\ StagingInv(i)'
      BY <1>9, <1>a, <1>b DEF Return, PlanInv, StagingInv
    <2>2. OutcomeInv(i)' /\ PastInv(i)'
      BY <1>9, <1>a, <1>b DEF Return, OutcomeInv, PastInv
    <2>3. QED
      BY <2>1, <2>2 DEF InvocationInv
  <1>10. CASE Kill(i)
    <2>1. PlanInv(i)' /\ StagingInv(i)'
      BY <1>10, <1>a, <1>b DEF Kill, Abort, PlanInv, StagingInv
    <2>2. OutcomeInv(i)' /\ PastInv(i)'
      BY <1>10, <1>a, <1>b DEF Kill, Abort, OutcomeInv, PastInv
    <2>3. QED
      BY <2>1, <2>2 DEF InvocationInv
  <1>11. QED
    BY <1>1, <1>2, <1>3, <1>4, <1>5, <1>6, <1>7, <1>8, <1>9, <1>10 DEF Step, Run

\* Only the rename of an invocation writes the destination, and only where nothing is.
LEMMA StepDestination ==
    ASSUME TypeOK, NEW i \in Invocation, InvocationInv(i), Step(i)
    PROVE  \/ destination' = destination /\ published' = published
           \/ /\ destination \in {None, Empty} /\ pc[i] = "replace"
              /\ destination' = staging[i] /\ published' = published \cup {i}
  <1>1. CASE Replace(i)
    BY <1>1 DEF Replace, Publish
  <1>2. CASE ~Replace(i)
    BY <1>2 DEF Step, Run, ReadAgents, ReadRecord, ReadRecordAgain, Stage, Copy, Write, Verify,
                Return, Kill
  <1>3. QED
    BY <1>1, <1>2

\* People write only the consumer's tree, or take the candidate or make a directory.
LEMMA PeopleStep ==
    ASSUME TypeOK, Edit \/ MakeDirectory
    PROVE  /\ consumer' \in Tree /\ edits' \in Version /\ UNCHANGED invocations
           /\ past' \in [Version -> Tree]
           /\ \/ destination' = destination
              \/ destination = None /\ destination' = Empty
              \/ destination' = None /\ consumer' = destination
           /\ \/ edits' = edits + 1 /\ past' = [past EXCEPT ![edits'] = consumer']
              \/ UNCHANGED tree
           /\ past[edits] = consumer => past'[edits'] = consumer'
           /\ edits <= edits' /\ \A m \in 0 .. edits : past'[m] = past[m]
  <1>1. /\ consumer \in Tree /\ edits \in Version /\ edits \in Nat /\ MaxEdits \in Nat
        /\ past \in [Version -> Tree]
    BY ConstantsAssumption DEF TypeOK, Version
  <1>2. CASE MakeDirectory
    BY <1>1, <1>2 DEF MakeDirectory, tree
  <1>3. CASE Edit
    <2>1. /\ edits + 1 \in Version /\ edits' = edits + 1
          /\ past' = [past EXCEPT ![edits'] = consumer'] /\ UNCHANGED invocations
      BY <1>1, <1>3 DEF Edit, Version
    <2>2. /\ consumer' \in Tree
          /\ \/ destination' = destination
             \/ destination' = None /\ consumer' = destination
      <3>0. consumer.agents \in Agents /\ consumer.files \in [File -> Version]
        BY <1>1 DEF Tree
      <3>1. CASE EditAgents /\ UNCHANGED destination
        <4>1. PICK b \in Block \cup {None} :
                 consumer' = [consumer EXCEPT !.agents.block = b, !.agents.rest = edits + 1]
          BY <3>1 DEF EditAgents
        <4>2. consumer' = [consumer EXCEPT !.agents =
                              [[consumer.agents EXCEPT !.block = b] EXCEPT !.rest = edits + 1]]
          BY <1>1, <3>0, <4>1 DEF Tree, Agents
        <4>3. [[consumer.agents EXCEPT !.block = b] EXCEPT !.rest = edits + 1] \in Agents
          BY <2>1, <3>0 DEF Agents
        <4>4. consumer' \in Tree
          BY <1>1, <4>2, <4>3 DEF Tree
        <4>5. QED
          BY <3>1, <4>4
      <3>2. CASE EditRecord /\ UNCHANGED destination
        <4>1. PICK r \in Record : consumer' = [consumer EXCEPT !.record = r]
          BY <3>2 DEF EditRecord
        <4>2. consumer' \in Tree
          BY <1>1, <4>1 DEF Tree
        <4>3. QED
          BY <3>2, <4>2
      <3>3. CASE EditFile /\ UNCHANGED destination
        <4>1. PICK f \in File : consumer' = [consumer EXCEPT !.files[f] = edits + 1]
          BY <3>3 DEF EditFile
        <4>2. consumer' = [consumer EXCEPT !.files = [consumer.files EXCEPT ![f] = edits + 1]]
          BY <1>1, <4>1 DEF Tree
        <4>3. [consumer.files EXCEPT ![f] = edits + 1] \in [File -> Version]
          BY <2>1, <3>0
        <4>4. consumer' \in Tree
          BY <1>1, <4>2, <4>3 DEF Tree
        <4>5. QED
          BY <3>3, <4>4
      <3>4. CASE AdoptCandidate
        BY <3>4 DEF AdoptCandidate, TypeOK
      <3>5. QED
        BY <1>3, <3>1, <3>2, <3>3, <3>4 DEF Edit
    <2>3. past' \in [Version -> Tree] /\ past'[edits'] = consumer'
      <3>1. edits' \in Version /\ past' = [past EXCEPT ![edits'] = consumer']
        BY <2>1
      <3>2. QED
        BY <1>1, <2>2, <3>1
    <2>4. edits <= edits' /\ \A m \in 0 .. edits : past'[m] = past[m]
      BY <1>1, <2>1 DEF Version
    <2>5. QED
      BY <2>1, <2>2, <2>3, <2>4
  <1>4. QED
    BY <1>2, <1>3

(***************************************************************************)
(* The inductive invariant.                                                *)
(***************************************************************************)

\* It holds before anybody edits or runs.
LEMMA InitInv == Init => Inv
  <1> SUFFICES ASSUME Init PROVE Inv
    OBVIOUS
  <1>1. consumer \in Tree
    <2>1. PICK r \in {q \in Revision : BlockOf[q] # None}, t \in BOOLEAN, c \in BOOLEAN :
             consumer = [agents |-> [block |-> BlockOf[r], rest |-> 0, tail |-> t],
                         record |-> [revision |-> r, canonical |-> c],
                         files |-> [f \in File |-> 0]]
      BY DEF Init
    <2>2. BlockOf[r] \in Block \cup {None} /\ 0 \in Version
      BY ConstantsAssumption, BlockType DEF Version
    <2>3. QED
      BY <2>1, <2>2 DEF Tree, Agents, Record
  <1>2. TypeOK /\ past[edits] = consumer
    BY <1>1, ConstantsAssumption DEF Init, TypeOK, Label, Version, NothingRead
  <1>3. CandidateIsSynchronised
    BY DEF Init, CandidateIsSynchronised
  <1>4. ASSUME NEW i \in Invocation PROVE InvocationInv(i)
    BY ConstantsAssumption
    DEF Init, InvocationInv, PlanInv, StagingInv, OutcomeInv, PastInv, Staging
  <1>5. QED
    BY <1>2, <1>3, <1>4 DEF Inv

\* Every step keeps it.
LEMMA NextInv == Inv /\ [Next]_vars => Inv'
  <1> SUFFICES ASSUME Inv, [Next]_vars PROVE Inv'
    OBVIOUS
  <1>a. /\ TypeOK /\ past[edits] = consumer /\ CandidateIsSynchronised
        /\ \A i \in Invocation : InvocationInv(i)
    BY DEF Inv
  <1>1. ASSUME NEW i \in Invocation, Step(i) PROVE Inv'
    <2>1. TypeOK' /\ Frame(i)
      BY <1>1, <1>a, StepTypeOK, StepFrame
    <2>2. ASSUME NEW j \in Invocation PROVE InvocationInv(j)'
      <3>1. CASE j = i
        BY <1>1, <1>a, <3>1, StepInvocationInv
      <3>2. CASE j # i
        <4>1. InvocationInv(j)
          BY <1>a
        <4>2. QED
          BY <2>1, <3>2, <4>1
          DEF Frame, tree, InvocationInv, PlanInv, StagingInv, OutcomeInv, PastInv
      <3>3. QED
        BY <3>1, <3>2
    <2>3. CandidateIsSynchronised'
      <3>1. CASE destination' = destination
        BY <1>a, <3>1 DEF CandidateIsSynchronised
      <3>2. CASE pc[i] = "replace" /\ destination' = staging[i]
        <4>1. /\ \A f \in File : destination'.files[f] # None
              /\ destination'.record = Canonical(job[i].revision)
              /\ job[i].revision \in Revision
              /\ destination'.agents.block # None
              /\ destination'.agents.block = BlockOf[job[i].revision]
          BY <1>a, <3>2, ReplacedTree
        <4>2. QED
          BY <4>1, ConstantsAssumption DEF CandidateIsSynchronised, Canonical
      <3>3. QED
        BY <1>1, <1>a, <3>1, <3>2, StepDestination
    <2>4. past'[edits'] = consumer'
      BY <1>a, <2>1 DEF Frame, tree
    <2>5. QED
      BY <2>1, <2>2, <2>3, <2>4 DEF Inv
  <1>2. CASE Edit \/ MakeDirectory
    <2>1. TypeOK' /\ past'[edits'] = consumer'
      BY <1>2, <1>a, PeopleStep DEF TypeOK, invocations, memory
    <2>2. CandidateIsSynchronised'
      BY <1>2, <1>a, PeopleStep DEF CandidateIsSynchronised
    <2>3. ASSUME NEW i \in Invocation PROVE InvocationInv(i)'
      <3>1. InvocationInv(i) /\ UNCHANGED invocations /\ edits \in Nat /\ began[i] \in Nat
        BY <1>2, <1>a, PeopleStep, ConstantsAssumption DEF TypeOK, Version
      <3>2. PlanInv(i)' /\ StagingInv(i)' /\ OutcomeInv(i)'
        BY <3>1 DEF InvocationInv, PlanInv, StagingInv, OutcomeInv, invocations, memory
      <3>3. PastInv(i)'
        <4>1. PastInv(i) /\ UNCHANGED <<pc, began, read, staging>>
          BY <3>1 DEF InvocationInv, invocations, memory
        <4>2. edits <= edits' /\ \A m \in 0 .. edits : past'[m] = past[m]
          BY <1>2, <1>a, PeopleStep
        <4>3. edits' \in Nat /\ edits \in Nat
          BY <1>2, <1>a, PeopleStep, ConstantsAssumption DEF TypeOK, Version
        <4>4. ASSUME NEW m \in began[i] .. edits
              PROVE  m \in began[i] .. edits' /\ past'[m] = past[m]
          BY <3>1, <4>2, <4>3
        <4>5. began[i] <= edits => /\ began[i] <= edits'
                                   /\ past'[began[i]] = past[began[i]]
          BY <3>1, <4>2, <4>3
        <4>6. QED
          BY <4>1, <4>4, <4>5 DEF PastInv
      <3>4. QED
        BY <3>2, <3>3 DEF InvocationInv
    <2>4. QED
      BY <2>1, <2>2, <2>3 DEF Inv
  <1>3. CASE UNCHANGED vars
    BY <1>3, <1>a
    DEF Inv, TypeOK, CandidateIsSynchronised, InvocationInv, PlanInv, StagingInv, OutcomeInv,
        PastInv, vars, tree, invocations, memory
  <1>4. QED
    BY <1>1, <1>2, <1>3 DEF Next, Step

\* It holds of every state of every behaviour.
LEMMA InvAlways == Spec => []Inv
  BY InitInv, NextInv, PTL DEF Spec

(***************************************************************************)
(* Theorems.                                                               *)
(***************************************************************************)

\* Every variable keeps its type, however many invocations share a destination.
THEOREM TypeCorrect == Spec => []TypeOK
  <1>1. Inv => TypeOK
    BY DEF Inv
  <1>2. QED
    BY <1>1, InvAlways, PTL

\* What write_candidate leaves at a destination is complete and in the tool's own form,
\* whatever was edited, failed or was killed before.
THEOREM CandidateCorrect == Spec => []CandidateIsSynchronised
  <1>1. Inv => CandidateIsSynchronised
    BY DEF Inv
  <1>2. QED
    BY <1>1, InvAlways, PTL

\* The exit status never contradicts what is at the destination.
THEOREM HonestExit == Spec => []ExitIsHonest
  <1>1. ASSUME Inv, NEW i \in Invocation PROVE OutcomeInv(i) /\ StagingInv(i) /\ pc[i] \in Label
    BY <1>1 DEF Inv, InvocationInv, TypeOK
  <1>2. Inv => ExitIsHonest
    BY <1>1 DEF ExitIsHonest, OutcomeInv, StagingInv, Label
  <1>3. QED
    BY <1>2, InvAlways, PTL

\* A candidate is never overwritten, although the destination is looked at long before
\* the rename.
THEOREM CandidateKept == Spec => CandidateIsKept
  <1> DEFINE Kept == destination \notin {None, Empty} =>
                        destination' = destination \/ (destination' = None /\ consumer' = destination)
  <1>1. Inv /\ [Next]_vars => Kept
    <2> SUFFICES ASSUME Inv, [Next]_vars PROVE Kept
      OBVIOUS
    <2>1. CASE \E i \in Invocation : Step(i)
      BY <2>1, StepDestination DEF Inv
    <2>2. CASE Edit \/ MakeDirectory
      BY <2>2, PeopleStep DEF Inv
    <2>3. CASE UNCHANGED vars
      BY <2>3 DEF vars
    <2>4. QED
      BY <2>1, <2>2, <2>3 DEF Next, Step
  <1>2. QED
    BY <1>1, InvAlways, PTL DEF Spec, CandidateIsKept

\* While nobody edits the tree, a candidate is that tree but for block and record.
THEOREM CandidateUndisturbed == Spec => UndisturbedCandidateIsTheTree
  <1> DEFINE Same(i) ==
        edits = began[i] =>
          /\ destination'.agents = [consumer.agents EXCEPT !.block = BlockOf[job[i].revision]]
          /\ destination'.files = consumer.files
          /\ consumer.record.revision # None
          /\ consumer.agents.block = BlockOf[consumer.record.revision]
  <1>1. ASSUME Inv, NEW i \in Invocation, pc[i] = "replace", destination' = staging[i]
        PROVE  Same(i)
    <2> SUFFICES ASSUME edits = began[i] PROVE Same(i)
      OBVIOUS
    <2>1. /\ staging[i] \in Staged /\ job[i].revision \in Revision
          /\ staging[i].agents = Spliced(read[i].agents, BlockOf[job[i].revision])
          /\ staging[i].agents.block # None
          /\ ~PlanFails(read[i].agents, read[i].record, job[i].revision)
          /\ \A f \in File : staging[i].files[f] # None
          /\ read[i].agents = consumer.agents /\ read[i].record = consumer.record
          /\ \A f \in File : staging[i].files[f] \in {None, consumer.files[f]}
      <3>1. edits \in Int /\ began[i] .. edits = {edits} /\ past[edits] = consumer
        BY <1>1, ConstantsAssumption DEF Inv, TypeOK, Version
      <3>2. QED
        BY <1>1, <3>1
        DEF Inv, InvocationInv, PlanInv, StagingInv, PastInv, Staging
    <2>2. consumer.agents \in Agents /\ consumer.record \in Record
      BY <1>1 DEF Inv, TypeOK, Tree
    <2>3. staging[i].agents = [consumer.agents EXCEPT !.block = BlockOf[job[i].revision]]
      BY <2>1, <2>2, SplicedFacts, BlockType
    <2>4. consumer.record.revision # None
          /\ consumer.agents.block = BlockOf[consumer.record.revision]
      BY <2>1, <2>2, PlanFacts, ConstantsAssumption
    <2>5. staging[i].files = consumer.files
      BY <1>1, <2>1 DEF Inv, TypeOK, Tree, Staged
    <2>6. QED
      BY <1>1, <2>3, <2>4, <2>5
  <1>2. Inv /\ [Next]_vars => \A i \in published' \ published : Same(i)
    <2> SUFFICES ASSUME Inv, [Next]_vars, NEW i \in published' \ published PROVE Same(i)
      OBVIOUS
    <2>1. CASE \E j \in Invocation : Step(j)
      <3>1. PICK j \in Invocation : Step(j)
        BY <2>1
      <3>2. i = j /\ pc[i] = "replace" /\ destination' = staging[i]
        BY <3>1, StepDestination DEF Inv
      <3>3. QED
        BY <1>1, <3>2
    <2>2. CASE Edit \/ MakeDirectory
      BY <2>2, PeopleStep DEF Inv, invocations
    <2>3. CASE UNCHANGED vars
      BY <2>3 DEF vars, invocations, memory
    <2>4. QED
      BY <2>1, <2>2, <2>3 DEF Next, Step
  <1>3. QED
    BY <1>2, InvAlways, PTL DEF Spec, UndisturbedCandidateIsTheTree

(***************************************************************************)
(* The refinement: every step is one of the abstract specification or is   *)
(* not noticed there.                                                      *)
(***************************************************************************)

\* Work begins with the first read of the tree, and its beginning is never revised.
LEMMA WorkBegan ==
    ASSUME TypeOK, NEW i \in Invocation, Step(i), AtWork(i)'
    PROVE  began'[i] = IF AtWork(i) THEN began[i] ELSE edits
  <1> USE DEF TypeOK, AtWork, memory, Goto, End, EndFlushing, Abort, Fail
  <1>1. CASE ReadAgents(i)
    BY <1>1 DEF ReadAgents
  <1>2. CASE ReadRecord(i)
    BY <1>2 DEF ReadRecord
  <1>3. CASE ReadRecordAgain(i)
    BY <1>3 DEF ReadRecordAgain
  <1>4. CASE Stage(i)
    BY <1>4 DEF Stage
  <1>5. CASE Copy(i)
    BY <1>5 DEF Copy
  <1>6. CASE Write(i)
    BY <1>6 DEF Write
  <1>7. CASE Verify(i)
    BY <1>7 DEF Verify
  <1>8. CASE Replace(i)
    BY <1>8 DEF Replace, Publish
  <1>9. CASE Return(i)
    BY <1>9 DEF Return
  <1>10. CASE Kill(i)
    BY <1>10 DEF Kill
  <1>11. QED
    BY <1>1, <1>2, <1>3, <1>4, <1>5, <1>6, <1>7, <1>8, <1>9, <1>10 DEF Step, Run

\* What is renamed is the abstract candidate: AGENTS.md of the beginning with the new
\* block, the tool's record, and each file as it was at some moment since.
LEMMA StagedCandidate ==
    ASSUME Inv, NEW i \in Invocation, pc[i] = "replace"
    PROVE  \E moment \in [File -> began[i] .. edits] :
              staging[i] =
                 [agents |-> [past[began[i]].agents EXCEPT !.block = BlockOf[job[i].revision]],
                  record |-> [revision |-> job[i].revision, canonical |-> TRUE],
                  files  |-> [f \in File |-> past[moment[f]].files[f]]]
  <1>1. /\ TypeOK /\ InvocationInv(i)
        /\ job[i].revision \in Revision /\ read[i].agents \in Agents
        /\ staging[i].agents = Spliced(read[i].agents, BlockOf[job[i].revision])
        /\ staging[i].agents.block # None
        /\ read[i].agents = past[began[i]].agents
        /\ \A f \in File : staging[i].files[f] # None
        /\ \A f \in File : staging[i].files[f] = None
                             \/ \E m \in began[i] .. edits : staging[i].files[f] = past[m].files[f]
    BY DEF Inv, InvocationInv, PlanInv, StagingInv, PastInv, Staging
  <1>2. staging[i] \in Tree /\ staging[i].record = Canonical(job[i].revision)
    BY <1>1, ReplacedTree
  <1> DEFINE Seen(f, m) == staging[i].files[f] = past[m].files[f]
             moment == [f \in File |-> CHOOSE m \in began[i] .. edits : Seen(f, m)]
  <1>3. ASSUME NEW f \in File
        PROVE  moment[f] \in began[i] .. edits /\ Seen(f, moment[f])
    <2>1. \E m \in began[i] .. edits : Seen(f, m)
      BY <1>1
    <2>2. /\ (CHOOSE m \in began[i] .. edits : Seen(f, m)) \in began[i] .. edits
          /\ Seen(f, CHOOSE m \in began[i] .. edits : Seen(f, m))
      <3> HIDE DEF Seen
      <3>1. QED
        BY <2>1
    <2>3. QED
      BY <2>2
  <1>4. moment \in [File -> began[i] .. edits]
    BY <1>3
  <1>5. staging[i].files = [f \in File |-> past[moment[f]].files[f]]
    <2>1. staging[i].files \in [File -> Version]
      BY <1>2 DEF Tree
    <2>2. \A f \in File : staging[i].files[f] = past[moment[f]].files[f]
      BY <1>3
    <2>3. QED
      BY <2>1, <2>2
  <1>6. staging[i].agents = [past[began[i]].agents EXCEPT !.block = BlockOf[job[i].revision]]
    BY <1>1, SplicedFacts, BlockType
  <1> HIDE DEF moment
  <1>7. staging[i] = [agents |-> staging[i].agents, record |-> staging[i].record,
                      files |-> staging[i].files]
    BY <1>2 DEF Tree
  <1>8. QED
    BY <1>2, <1>4, <1>5, <1>6, <1>7 DEF Canonical

\* The record the plan went by was there at some moment, and vouched for the block.
LEMMA PlanVouched ==
    ASSUME Inv, NEW i \in Invocation, pc[i] = "replace"
    PROVE  /\ job[i].revision # None /\ BlockOf[job[i].revision] # None
           /\ \E m \in began[i] .. edits :
                 /\ past[m].record.revision # None
                 /\ past[began[i]].agents.block = BlockOf[past[m].record.revision]
  <1>1. /\ job[i].revision \in Revision /\ read[i].agents \in Agents /\ read[i].record \in Record
        /\ ~PlanFails(read[i].agents, read[i].record, job[i].revision)
        /\ read[i].agents = past[began[i]].agents
        /\ \E m \in began[i] .. edits : read[i].record = past[m].record
    BY DEF Inv, InvocationInv, PlanInv, PastInv, Staging
  <1>2. /\ read[i].record.revision \in Revision
        /\ read[i].agents.block = BlockOf[read[i].record.revision]
        /\ BlockOf[job[i].revision] # None
    BY <1>1, PlanFacts
  <1>3. QED
    BY <1>1, <1>2, ConstantsAssumption

\* A rename is the abstract publication.
LEMMA PublishSimulation ==
    ASSUME Inv, NEW i \in Invocation, Step(i), pc[i] = "replace", ~AtWork(i)',
           destination \in {None, Empty}, destination' = staging[i]
    PROVE  Abstract!Publish(i)
  <1>1. TypeOK /\ Frame(i) /\ AtWork(i) /\ began[i] \in Version /\ None \notin Version
    BY StepFrame, ConstantsAssumption DEF Inv, TypeOK, AtWork, Version
  <1>2. AbstractSince[i] = began[i] /\ AbstractSince[i] # None
    BY <1>1 DEF AbstractSince
  <1>3. AbstractSince' = [AbstractSince EXCEPT ![i] = None]
    BY <1>1 DEF AbstractSince, AtWork, Frame
  <1>4. UNCHANGED <<past, edits, job>>
    BY <1>1 DEF Frame, tree
  <1>5. Abstract!Vouched(i) /\ job[i].revision # None /\ BlockOf[job[i].revision] # None
    BY <1>2, PlanVouched DEF Abstract!Vouched, Abstract!Moments
  <1>6. \E moment \in [File -> Abstract!Moments(i)] : destination' = Abstract!Candidate(i, moment)
    BY <1>2, StagedCandidate DEF Abstract!Moments, Abstract!Candidate
  <1>7. QED
    BY <1>2, <1>3, <1>4, <1>5, <1>6 DEF Abstract!Publish

\* So is every other step of an invocation its beginning, its end or nothing.
LEMMA RunSimulation ==
    ASSUME Inv, NEW i \in Invocation, Step(i)
    PROVE  Abstract!Next \/ UNCHANGED Abstract!vars
  <1>1. TypeOK /\ Frame(i) /\ None \notin Version
    BY StepFrame, ConstantsAssumption DEF Inv, Version
  <1>2. UNCHANGED <<past, edits, job>>
    BY <1>1 DEF Frame, tree
  <1>3. AbstractSince' = [AbstractSince EXCEPT ![i] = IF AtWork(i)' THEN began'[i] ELSE None]
    BY <1>1 DEF AbstractSince, AtWork, Frame
  <1>4. /\ AbstractSince[i] = IF AtWork(i) THEN began[i] ELSE None
        /\ began[i] \in Version
    BY <1>1 DEF AbstractSince, TypeOK
  <1>5. CASE destination' = destination
    <2>1. CASE AtWork(i)' /\ AtWork(i)
      <3>1. AbstractSince' = [AbstractSince EXCEPT ![i] = AbstractSince[i]]
        BY <1>1, <1>3, <1>4, <2>1, WorkBegan
      <3>2. AbstractSince' = AbstractSince
        BY <3>1 DEF AbstractSince
      <3>3. QED
        BY <1>2, <1>5, <3>2 DEF Abstract!vars
    <2>2. CASE AtWork(i)' /\ ~AtWork(i)
      <3>1. AbstractSince' = [AbstractSince EXCEPT ![i] = edits] /\ AbstractSince[i] = None
        BY <1>1, <1>3, <1>4, <2>2, WorkBegan
      <3>2. Abstract!Begin(i)
        BY <1>2, <1>5, <3>1 DEF Abstract!Begin
      <3>3. QED
        BY <3>2 DEF Abstract!Next
    <2>3. CASE ~AtWork(i)' /\ AtWork(i)
      <3>1. AbstractSince' = [AbstractSince EXCEPT ![i] = None] /\ AbstractSince[i] # None
        BY <1>1, <1>3, <1>4, <2>3
      <3>2. Abstract!GiveUp(i)
        BY <1>2, <1>5, <3>1 DEF Abstract!GiveUp
      <3>3. QED
        BY <3>2 DEF Abstract!Next
    <2>4. CASE ~AtWork(i)' /\ ~AtWork(i)
      <3>1. AbstractSince' = [AbstractSince EXCEPT ![i] = AbstractSince[i]]
        BY <1>3, <1>4, <2>4
      <3>2. AbstractSince' = AbstractSince
        BY <3>1 DEF AbstractSince
      <3>3. QED
        BY <1>2, <1>5, <3>2 DEF Abstract!vars
    <2>5. QED
      BY <2>1, <2>2, <2>3, <2>4
  <1>6. CASE destination' # destination
    <2>1. /\ destination \in {None, Empty} /\ pc[i] = "replace" /\ destination' = staging[i]
          /\ Replace(i)
      <3>1. Replace(i)
        BY <1>6
        DEF Step, Run, ReadAgents, ReadRecord, ReadRecordAgain, Stage, Copy, Write, Verify,
            Return, Kill
      <3>2. QED
        BY <1>1, <1>6, <3>1, StepDestination DEF Inv
    <2>2. ~AtWork(i)'
      BY <1>1, <2>1 DEF Replace, Publish, Abort, End, Goto, AtWork, TypeOK
    <2>3. QED
      BY <2>1, <2>2, PublishSimulation DEF Abstract!Next
  <1>7. QED
    BY <1>5, <1>6

\* What people do is the same in both.
LEMMA PeopleSimulation ==
    ASSUME Inv, Edit \/ MakeDirectory
    PROVE  Abstract!Next
  <1>1. TypeOK /\ UNCHANGED <<job, AbstractSince>>
    BY PeopleStep DEF Inv, invocations, memory, AbstractSince, AtWork
  <1>2. CASE Edit
    <2>1. /\ edits' = edits + 1 /\ edits' \in Version
          /\ past \in [Version -> Tree] /\ past' \in [Version -> Tree]
          /\ past' = [past EXCEPT ![edits'] = consumer'] /\ past'[edits'] = consumer'
      BY <1>1, <1>2, PeopleStep DEF Edit, Inv, TypeOK
    <2>2. \A v \in Version \ {edits'} : past'[v] = past[v]
      BY <2>1
    <2>3. \/ UNCHANGED destination
          \/ /\ destination \notin {None, Empty} /\ past'[edits'] = destination
             /\ destination' = None
      BY <1>2, <2>1 DEF Edit, AdoptCandidate
    <2>4. Abstract!Edit
      BY <1>1, <2>1, <2>2, <2>3 DEF Abstract!Edit, Abstract!Version, Version
    <2>5. QED
      BY <2>4 DEF Abstract!Next
  <1>3. CASE MakeDirectory
    BY <1>1, <1>3 DEF MakeDirectory, tree, Abstract!MakeDirectory, Abstract!Next
  <1>4. QED
    BY <1>2, <1>3

\* For whoever looks at the destination, and for any number of invocations and edits, a
\* candidate appears in one step, of what was in the tree since its invocation began.
THEOREM PublicationIsAtomic == Spec => ImplementsAtomicSync
  <1>1. Init => Abstract!Init
    BY ConstantsAssumption
    DEF Init, AbstractSince, AtWork, Version, Abstract!Init, Abstract!Version
  <1>2. Inv /\ [Next]_vars => [Abstract!Next]_(Abstract!vars)
    <2> SUFFICES ASSUME Inv, [Next]_vars
                 PROVE  Abstract!Next \/ UNCHANGED Abstract!vars
      OBVIOUS
    <2>1. CASE \E i \in Invocation : Step(i)
      BY <2>1, RunSimulation
    <2>2. CASE Edit \/ MakeDirectory
      BY <2>2, PeopleSimulation
    <2>3. CASE UNCHANGED vars
      BY <2>3 DEF vars, tree, invocations, memory, Abstract!vars, AbstractSince, AtWork
    <2>4. QED
      BY <2>1, <2>2, <2>3 DEF Next, Step
  <1>3. QED
    BY <1>1, <1>2, InvAlways, PTL DEF Spec, ImplementsAtomicSync, Abstract!Spec
=============================================================================
