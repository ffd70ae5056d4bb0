---------------------------- MODULE ConsumerSync ----------------------------
(***************************************************************************)
(* sync/consumer_sync.py: each invocation plans from three reads of the      *)
(* consumer tree, copies the tree to a staging directory, puts the new       *)
(* managed block and adoption record there, plans again on the copy and      *)
(* renames it to the destination.  Meanwhile people edit the tree, other     *)
(* invocations aim at the same destination, and any of them may be killed.   *)
(* The baseline's commits never change.  Bytes are told apart only where the *)
(* code compares them: the managed block, what is around it, the record.     *)
(***************************************************************************)
EXTENDS Integers

CONSTANTS Invocation,
          Revision,    \* commits of the baseline
          Block,       \* contents a managed block may have
          BlockOf,     \* the template's block at a revision; None: not exactly one marker pair
          Ragged,      \* blocks whose end marker is the last, unterminated line of the template
          File,        \* other files of the consumer
          None, Empty, \* absent or malformed; an empty directory
          MaxEdits     \* bound: edits of the consumer tree

ASSUME ConstantsAssumption ==
    /\ BlockOf \in [Revision -> Block \cup {None}] /\ Ragged \subseteq Block
    /\ None \notin Nat
    /\ None \notin Block \cup Revision \cup Invocation \cup {"success", "killed"}
    /\ MaxEdits \in Nat

VARIABLES
    consumer,     \* the input tree
    edits,        \* edits of it so far; also the version of what an edit wrote
    past,         \* the tree after each edit (history variable)
    destination,  \* None, Empty or a published tree
    job,          \* arguments of each invocation: --revision, and where the candidate goes
    pc,
    began,        \* edits when the invocation first read the tree (history variable)
    read,         \* AGENTS.md and the record as planned from
    staging,      \* the staging directory
    status,       \* what was printed; it may still be in the buffer when one is killed
    exit,         \* how the invocation ended
    published     \* invocations whose rename succeeded (history variable)

tree == <<consumer, edits, past>>
memory == <<began, read>>
invocations == <<job, pc, memory, staging, status, exit, published>>
vars == <<tree, destination, invocations>>

Version == 0 .. MaxEdits
Agents == [block : Block \cup {None}, rest : Version, tail : BOOLEAN]
Record == [revision : Revision \cup {None}, canonical : BOOLEAN]
Tree == [agents : Agents, record : Record, files : [File -> Version]]
Staged == [agents : Agents \cup {None}, record : Record \cup {None},
           files : [File -> Version \cup {None}]]

NothingRead == [agents |-> None, record |-> None]
NothingStaged == [agents |-> None, record |-> None, files |-> [f \in File |-> None]]

(***************************************************************************)
(* The plan.                                                               *)
(***************************************************************************)
Canonical(revision) == [revision |-> revision, canonical |-> TRUE]

\* The template's block in the place of the consumer's.  Text that follows an
\* unterminated end marker joins its line, which is a marker no longer.
Spliced(agents, block) ==
    [agents EXCEPT !.block = IF block \in Ragged /\ agents.tail THEN None ELSE block]

\* A revision is None when it is not the full name of a commit; a record's also when
\* the record is unreadable or of another repository.
PlanFails(agents, record, proposed) ==
    \/ None \in {proposed, agents.block, record.revision}
    \/ agents.block # BlockOf[record.revision]
    \/ BlockOf[proposed] = None

IsChange(agents, old_record, proposed) ==
    Spliced(agents, BlockOf[proposed]) # agents \/ old_record # Canonical(proposed)

Init ==
    /\ consumer \in {[agents |-> [block |-> BlockOf[r], rest |-> 0, tail |-> t],
                      record |-> [revision |-> r, canonical |-> c],
                      files |-> [f \in File |-> 0]] :
                        r \in {q \in Revision : BlockOf[q] # None}, t, c \in BOOLEAN}
    /\ consumer.agents = Spliced(consumer.agents, consumer.agents.block)
    /\ edits = 0 /\ past = [v \in Version |-> consumer]
    /\ destination = None
    /\ job \in [Invocation -> [revision : Revision \cup {None},
                               target : {"none", "outside", "inside"}]]
    /\ pc = [i \in Invocation |-> "agents"]
    /\ began = [i \in Invocation |-> 0]
    /\ read = [i \in Invocation |-> NothingRead]
    /\ staging = [i \in Invocation |-> None]
    /\ status = [i \in Invocation |-> None]
    /\ exit = [i \in Invocation |-> None]
    /\ published = {}

(***************************************************************************)
(* One invocation.                                                         *)
(***************************************************************************)
Goto(i, label) == pc' = [pc EXCEPT ![i] = label] /\ UNCHANGED exit

\* What the process knew goes with it.
End(i, code) ==
    /\ pc' = [pc EXCEPT ![i] = "done"]
    /\ exit' = [exit EXCEPT ![i] = code]
    /\ began' = [began EXCEPT ![i] = 0]
    /\ read' = [read EXCEPT ![i] = NothingRead]

\* A SyncFailure ends the invocation with status 2, any other exception with a traceback.
Exception == {"failure", "traceback"}

Fail(i) == \E code \in Exception : End(i, code)

\* The process returns 0; when what it printed cannot be flushed at exit, its status is 120.
EndFlushing(i) == \E code \in {"success", "unflushed"} : End(i, code)

\* The handler of write_candidate removes the staging directory and lets the exception go
\* on.  What it cannot remove stays, and it is not told; nobody reads it again.
Abort(i, code) ==
    /\ End(i, code)
    /\ \E rest \in {None, NothingStaged} : staging' = [staging EXCEPT ![i] = rest]

\* Every step of a plan may also fail because a file cannot be read or git fails.
ReadAgents(i) ==
    /\ pc[i] = "agents"
    /\ \/ Fail(i)
       \/ /\ job[i].revision # None
          /\ began' = [began EXCEPT ![i] = edits]
          /\ read' = [read EXCEPT ![i].agents = consumer.agents]
          /\ Goto(i, "record")
    /\ UNCHANGED <<tree, destination, job, staging, status, published>>

ReadRecord(i) ==
    /\ pc[i] = "record"
    /\ \/ Fail(i)
       \/ /\ ~PlanFails(read[i].agents, consumer.record, job[i].revision)
          /\ read' = [read EXCEPT ![i].record = consumer.record]
          /\ Goto(i, "again") /\ UNCHANGED began
    /\ UNCHANGED <<tree, destination, job, staging, status, published>>

\* The record is read again, for its bytes; then the result is printed.  A record that
\* is gone by now is an exception of no handler, and so is an output that takes nothing.
ReadRecordAgain(i) ==
    /\ pc[i] = "again"
    /\ \/ LET change == IsChange(read[i].agents, consumer.record, job[i].revision)
          IN  /\ status' = [status EXCEPT ![i] = IF change THEN "change" ELSE "no-op"]
              /\ IF change /\ job[i].target # "none"
                 THEN Goto(i, "stage") /\ UNCHANGED memory
                 ELSE EndFlushing(i)
       \/ End(i, "traceback") /\ UNCHANGED status
    /\ UNCHANGED <<tree, destination, job, staging, published>>

\* Slip: a destination that exists is cleared for the candidate.
StageClearing(i) ==
    /\ pc[i] = "stage"
    /\ IF job[i].target = "inside"
       THEN Fail(i) /\ UNCHANGED <<staging, destination>>
       ELSE /\ destination' = None
            /\ staging' = [staging EXCEPT ![i] = NothingStaged]
            /\ Goto(i, "copy") /\ UNCHANGED memory
    /\ UNCHANGED <<tree, job, status, published>>

\* The destination must not exist nor lie inside the consumer tree; mkdtemp.
Stage(i) ==
    /\ pc[i] = "stage"
    /\ IF destination # None \/ job[i].target = "inside"
       THEN Fail(i) /\ UNCHANGED staging
       ELSE \/ /\ staging' = [staging EXCEPT ![i] = NothingStaged]
               /\ Goto(i, "copy") /\ UNCHANGED memory
            \/ End(i, "traceback") /\ UNCHANGED staging
    /\ UNCHANGED <<tree, destination, job, status, published>>

\* Slip: a file that cannot be copied is passed over.
CopyPassingOver(i) ==
    /\ pc[i] = "copy"
    /\ \/ /\ \E f \in File :
                /\ staging[i].files[f] = None
                /\ staging' = [staging EXCEPT ![i].files[f] = consumer.files[f]]
          /\ Goto(i, "copy")
       \/ Goto(i, "write") /\ UNCHANGED staging
    /\ UNCHANGED <<tree, destination, job, memory, status, published>>

\* copytree copies one file after the other, in the order of the directory; what it
\* copies of AGENTS.md and the record is overwritten afterwards.  It may fail.
Copy(i) ==
    /\ pc[i] = "copy"
    /\ \/ /\ \E f \in File :
                /\ staging[i].files[f] = None
                /\ staging' = [staging EXCEPT ![i].files[f] = consumer.files[f]]
          /\ Goto(i, "copy") /\ UNCHANGED memory
       \/ /\ \A f \in File : staging[i].files[f] # None
          /\ Goto(i, "write") /\ UNCHANGED <<memory, staging>>
       \/ Abort(i, "traceback")
    /\ UNCHANGED <<tree, destination, job, status, published>>

\* Both come from the plan: AGENTS.md as it was read first, with the new block.
Write(i) ==
    /\ pc[i] = "write"
    /\ \/ /\ staging' = [staging EXCEPT
                            ![i].agents = Spliced(read[i].agents, BlockOf[job[i].revision]),
                            ![i].record = Canonical(job[i].revision)]
          /\ Goto(i, "verify") /\ UNCHANGED memory
       \/ Abort(i, "traceback")
    /\ UNCHANGED <<tree, destination, job, status, published>>

\* Slip: no plan on the staged tree.
VerifySkipped(i) ==
    /\ pc[i] = "verify"
    /\ Goto(i, "replace")
    /\ UNCHANGED <<tree, destination, job, memory, staging, status, published>>

\* The postcondition: a plan on the staged tree succeeds and is a no-op.
Verify(i) ==
    /\ pc[i] = "verify"
    /\ \/ \E code \in Exception : Abort(i, code)
       \/ /\ ~PlanFails(staging[i].agents, staging[i].record, job[i].revision)
          /\ ~IsChange(staging[i].agents, staging[i].record, job[i].revision)
          /\ Goto(i, "replace") /\ UNCHANGED <<memory, staging>>
    /\ UNCHANGED <<tree, destination, job, status, published>>

Publish(i) ==
    /\ destination' = staging[i]
    /\ staging' = [staging EXCEPT ![i] = None]
    /\ published' = published \cup {i}
    /\ Goto(i, "return") /\ UNCHANGED memory

\* Slip: a rename that fails is not an error.
ReplaceSilently(i) ==
    /\ pc[i] = "replace"
    /\ IF destination \in {None, Empty}
       THEN Publish(i)
       ELSE Abort(i, "success") /\ UNCHANGED <<destination, published>>
    /\ UNCHANGED <<tree, job, status>>

\* os.replace takes the place of an empty directory, not of one with files.
Replace(i) ==
    /\ pc[i] = "replace"
    /\ IF destination \in {None, Empty}
       THEN Publish(i)
       ELSE Abort(i, "traceback") /\ UNCHANGED <<destination, published>>
    /\ UNCHANGED <<tree, job, status>>

Return(i) ==
    /\ pc[i] = "return"
    /\ EndFlushing(i)
    /\ UNCHANGED <<tree, destination, job, staging, status, published>>

\* Neither an interrupt nor a kill passes through "except Exception", but it may come when
\* the handler is at work.
Kill(i) ==
    /\ pc[i] # "done"
    /\ IF staging[i] = None
       THEN End(i, "killed") /\ UNCHANGED staging
       ELSE Abort(i, "killed")
    /\ UNCHANGED <<tree, destination, job, status, published>>

(***************************************************************************)
(* People.                                                                 *)
(***************************************************************************)
EditAgents ==
    \E b \in Block \cup {None} :
        consumer' = [consumer EXCEPT !.agents.block = b, !.agents.rest = edits + 1]

EditRecord ==
    \E r \in Record :
        /\ r # consumer.record
        /\ r.revision = None => ~r.canonical
        /\ consumer' = [consumer EXCEPT !.record = r]

EditFile ==
    \E f \in File : consumer' = [consumer EXCEPT !.files[f] = edits + 1]

\* The reviewed candidate becomes the consumer's tree.
AdoptCandidate ==
    /\ destination \notin {None, Empty}
    /\ consumer' = destination
    /\ destination' = None

Edit ==
    /\ edits < MaxEdits /\ edits' = edits + 1
    /\ \/ EditAgents /\ UNCHANGED destination
       \/ EditRecord /\ UNCHANGED destination
       \/ EditFile /\ UNCHANGED destination
       \/ AdoptCandidate
    /\ past' = [past EXCEPT ![edits'] = consumer']
    /\ UNCHANGED invocations

MakeDirectory ==
    /\ destination = None /\ destination' = Empty
    /\ UNCHANGED <<tree, invocations>>

Run(i) ==
    \/ ReadAgents(i) \/ ReadRecord(i) \/ ReadRecordAgain(i) \/ Stage(i) \/ Copy(i)
    \/ Write(i) \/ Verify(i) \/ Replace(i) \/ Return(i)

Next ==
    \/ \E i \in Invocation : Run(i) \/ Kill(i)
    \/ Edit \/ MakeDirectory

Spec == Init /\ [][Next]_vars

(***************************************************************************)
(* Properties.                                                             *)
(***************************************************************************)
\* Status 0, status 2, a traceback, status 120 after a return, and a signal.
ExitCode == {"success", "failure", "traceback", "unflushed", "killed"}

Label == {"agents", "record", "again", "stage", "copy", "write", "verify", "replace",
          "return", "done"}

\* Every variable keeps its type.
TypeOK ==
    /\ consumer \in Tree /\ edits \in Version /\ past \in [Version -> Tree]
    /\ destination \in Tree \cup {None, Empty}
    /\ job \in [Invocation -> [revision : Revision \cup {None},
                               target : {"none", "outside", "inside"}]]
    /\ pc \in [Invocation -> Label] /\ began \in [Invocation -> Version]
    /\ read \in [Invocation -> [agents : Agents \cup {None}, record : Record \cup {None}]]
    /\ staging \in [Invocation -> Staged \cup {None}]
    /\ status \in [Invocation -> {"change", "no-op", None}]
    /\ exit \in [Invocation -> ExitCode \cup {None}]
    /\ published \subseteq Invocation

\* sync/README.md promises a complete candidate and no partial destination: whatever was
\* edited or killed meanwhile, what is at the destination has every file, one managed
\* block, that of the revision its record names, and a record in the tool's own form.
CandidateIsSynchronised ==
    destination \notin {None, Empty} =>
        /\ \A f \in File : destination.files[f] # None
        /\ destination.record.revision # None
        /\ destination.record = Canonical(destination.record.revision)
        /\ destination.agents.block # None
        /\ destination.agents.block = BlockOf[destination.record.revision]

\* An invocation is at work from its first read until it renames or ends.
AtWork(i) == pc[i] \notin {"agents", "return", "done"}

AbstractSince == [i \in Invocation |-> IF AtWork(i) THEN began[i] ELSE None]

Abstract == INSTANCE AtomicSync WITH since <- AbstractSince

\* sync/README.md's atomic publication: for whoever looks at the destination, plan, copy,
\* edit, check and rename are one step, and nothing in the candidate is older than the
\* invocation or was never there.  Not that it is of one moment: the tree is read four
\* times, with edits in between (lines 113-174).
ImplementsAtomicSync == Abstract!Spec

\* A candidate at the destination stays as it is until it is taken, although two
\* invocations may both have found the destination free (lines 148 and 171).
CandidateIsKept ==
    [][destination \notin {None, Empty} =>
          destination' = destination \/ (destination' = None /\ consumer' = destination)]_vars

\* Unmanaged content is the consumer's, and an edited block is divergence, never replaced
\* silently.  When nobody edited the tree between the first read and the rename, the
\* candidate is that tree but for block and record, and the block that went was the
\* baseline's.  The code itself does not notice an edit made in between (lines 113-157).
UndisturbedCandidateIsTheTree ==
    [][\A i \in published' \ published :
          edits = began[i] =>
             /\ destination'.agents =
                   [consumer.agents EXCEPT !.block = BlockOf[job[i].revision]]
             /\ destination'.files = consumer.files
             /\ consumer.record.revision # None
             /\ consumer.agents.block = BlockOf[consumer.record.revision]]_vars

\* Status 0 after "change" with a destination means that the candidate was published, and
\* that no staging directory is left.  After status 2 or a traceback nothing was published,
\* and after a publication nothing fails but the flush of what was printed.
ExitIsHonest ==
    \A i \in Invocation :
        /\ exit[i] = "success" =>
              /\ staging[i] = None
              /\ status[i] = "change" /\ job[i].target # "none" => i \in published
        /\ i \in published =>
              pc[i] = "return" \/ exit[i] \in {"success", "unflushed", "killed"}
=============================================================================
