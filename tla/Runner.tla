-------------------------------- MODULE Runner --------------------------------
(***************************************************************************)
(* Wakes of runtime/systemd_runner.py in one checkout: the timer and manual *)
(* starts may overlap.  A wake takes the nonblocking flock, runs its phases *)
(* as child processes one after the other, prints one summary, appends the  *)
(* same summary to the evidence file, returns and exits.  Between any two   *)
(* of these a wake can be interrupted (SIGINT) or killed; its lock is then  *)
(* released, but a child can outlive it.                                    *)
(***************************************************************************)
EXTENDS Integers, Sequences

CONSTANTS Wake,  \* wakes that may overlap; a finished one may start again
          None   \* nobody holds the lock

ASSUME NoneAssumption == None \notin Wake

VARIABLES
    config,    \* which of the argv hooks before the worker are configured
    lock,      \* holder of the flock
    orphans,   \* phases whose child outlived its runner
    pc,        \* where each wake is
    launched,  \* adapter_launched
    stale,     \* a finalization was not followed by a refresh (history variable)
    action,    \* recovery_action
    code,      \* completed.returncode of the adapter
    pending,   \* summary about to be printed, with the exit status that goes with it
    printed,   \* classifications printed on stdout
    recorded,  \* classifications appended to the evidence file
    exit       \* exit status, or how it stands

memory == <<launched, stale, action, code>>
output == <<printed, recorded, exit>>
vars == <<config, lock, orphans, pc, pending, memory, output>>

Hook == {"refresh", "finalizer", "recovery"}

ChildPhase == {"refresh_pre", "finalizer_pre", "refresh_after_finalization",
               "recovery_pre_worker", "adapter", "host_post_worker"}

Label ==
    {"idle", "preflight", "lock", "emit", "evidence", "return", "handler", "handled"}
    \cup ChildPhase

Classification ==
    {"preflight_failure", "lock_contended", "recovery_failure", "reconciled_no_action",
     "valid_completion", "interrupted_invalid", "adapter_execution_failure",
     "runner_internal_failure"}

Summary == [class : Classification, status : {0, 65, 70, 130}]

NoSummary == [class |-> "runner_internal_failure", status |-> 70]

\* No exit status: still running, or ended by a signal: killed, or by a SIGINT whose
\* KeyboardInterrupt no handler caught.
Running == -1
Signalled == -2

\* An exception that no handler catches; it stands also for 120, with which Python ends
\* when stdout cannot be flushed at exit.
Traceback == 1

Init ==
    /\ config \in [Hook -> BOOLEAN]
    /\ lock = None
    /\ orphans = {}
    /\ pc = [w \in Wake |-> "idle"]
    /\ launched = [w \in Wake |-> FALSE]
    /\ stale = [w \in Wake |-> FALSE]
    /\ action = [w \in Wake |-> "none"]
    /\ code = [w \in Wake |-> 0]
    /\ pending = [w \in Wake |-> NoSummary]
    /\ printed = [w \in Wake |-> <<>>]
    /\ recorded = [w \in Wake |-> <<>>]
    /\ exit = [w \in Wake |-> Running]

(***************************************************************************)
(* Control flow.                                                           *)
(***************************************************************************)
Goto(w, label) == pc' = [pc EXCEPT ![w] = label] /\ UNCHANGED pending

\* Build a summary and go print it; the return value follows it.
Conclude(w, label, class, status) ==
    /\ pc' = [pc EXCEPT ![w] = label]
    /\ pending' = [pending EXCEPT ![w] = [class |-> class, status |-> status]]

\* Slip: the lock outlives the wake that took it.
ReleaseNothing(w) == UNCHANGED lock

Release(w) == lock' = IF lock = w THEN None ELSE lock

\* What a wake knows and no later step of it reads.
Forget(w) ==
    /\ launched' = [launched EXCEPT ![w] = FALSE]
    /\ stale' = [stale EXCEPT ![w] = FALSE]
    /\ action' = [action EXCEPT ![w] = "none"]
    /\ code' = [code EXCEPT ![w] = 0]

\* An exception leaves the with block, which closes the lock file, before its
\* handler prints.
Raise(w, class, status) ==
    /\ Conclude(w, "handler", class, status)
    /\ Release(w)
    /\ Forget(w)

\* The process is gone.  What a success vouches for is kept until the next start (history,
\* for SuccessIsHonest).
Exit(w, status) ==
    /\ Conclude(w, "idle", NoSummary.class, NoSummary.status)
    /\ Release(w)
    /\ IF status = 0 THEN UNCHANGED memory ELSE Forget(w)
    /\ exit' = [exit EXCEPT ![w] = status]

Start(w) ==
    /\ pc[w] = "idle"
    /\ pc' = [pc EXCEPT ![w] = "preflight"]
    /\ Forget(w)
    /\ pending' = [pending EXCEPT ![w] = NoSummary]
    /\ printed' = [printed EXCEPT ![w] = <<>>]
    /\ recorded' = [recorded EXCEPT ![w] = <<>>]
    /\ exit' = [exit EXCEPT ![w] = Running]
    /\ UNCHANGED <<config, lock, orphans>>

\* Paths, hook configuration, checkout, adapter and interpreter are checked; any of
\* them may be missing or unusable.
Preflight(w) ==
    /\ pc[w] = "preflight"
    /\ \/ Goto(w, "lock") /\ UNCHANGED <<lock, memory>>
       \/ Raise(w, "preflight_failure", 70)
    /\ UNCHANGED <<config, orphans, output>>

\* Slip: flock without LOCK_NB.
TakeLockBlocking(w) ==
    /\ pc[w] = "lock" /\ lock = None
    /\ lock' = w
    /\ Goto(w, "refresh_pre")
    /\ UNCHANGED <<config, orphans, memory, output>>

\* Slip: a lock that is taken does not stop the wake.
TakeLockIgnoringContention(w) ==
    /\ pc[w] = "lock"
    /\ lock' = IF lock = None THEN w ELSE lock
    /\ Goto(w, "refresh_pre")
    /\ UNCHANGED <<config, orphans, memory, output>>

TakeLock(w) ==
    /\ pc[w] = "lock"
    /\ \/ /\ lock = None
          /\ lock' = w
          /\ Goto(w, "refresh_pre")
       \/ /\ lock # None
          /\ Conclude(w, "emit", "lock_contended", 0)
          /\ UNCHANGED lock
    /\ UNCHANGED <<config, orphans, memory, output>>

(***************************************************************************)
(* Phases.  A child either completed (exit status 0) or did not: launch    *)
(* failure and nonzero status are classified alike.                        *)
(***************************************************************************)
RefreshPre(w) ==
    /\ pc[w] = "refresh_pre"
    /\ \/ Goto(w, "finalizer_pre")
       \/ config["refresh"] /\ Conclude(w, "emit", "preflight_failure", 70)
    /\ UNCHANGED <<config, lock, orphans, memory, output>>

\* What the finalizer child may leave: it completed and reported "finalized" or
\* another outcome, printed something else, or failed, possibly after merging.
FinalizerOutcome == {"finalized", "other", "garbled", "failed"}

\* Slip: a finalizer that failed is treated like one that had nothing to do.
AfterFinalizerIgnoringFailure(outcome) ==
    IF outcome = "finalized" /\ config["refresh"] THEN "refresh_after_finalization"
    ELSE "recovery_pre_worker"

\* The phase that follows, or "emit" for a wake that fails closed.
AfterFinalizer(outcome) ==
    IF outcome \in {"failed", "garbled"} THEN "emit"
    ELSE IF outcome = "other" THEN "recovery_pre_worker"
    ELSE IF config["refresh"] THEN "refresh_after_finalization"
    ELSE "emit"

FinalizerPre(w) ==
    /\ pc[w] = "finalizer_pre"
    /\ \/ /\ ~config["finalizer"]
          /\ Goto(w, "recovery_pre_worker")
          /\ UNCHANGED memory
       \/ /\ config["finalizer"]
          /\ \E outcome \in FinalizerOutcome, merged \in BOOLEAN :
                /\ outcome = "finalized" => merged
                /\ outcome = "other" => ~merged
                /\ stale' = [stale EXCEPT ![w] = merged]
                /\ IF AfterFinalizer(outcome) = "emit"
                   THEN Conclude(w, "emit", "preflight_failure", 70)
                   ELSE Goto(w, AfterFinalizer(outcome))
          /\ UNCHANGED <<launched, action, code>>
    /\ UNCHANGED <<config, lock, orphans, output>>

RefreshAfterFinalization(w) ==
    /\ pc[w] = "refresh_after_finalization"
    /\ \/ /\ stale' = [stale EXCEPT ![w] = FALSE]
          /\ Goto(w, "recovery_pre_worker")
          /\ UNCHANGED <<launched, action, code>>
       \/ /\ Conclude(w, "emit", "preflight_failure", 70)
          /\ UNCHANGED memory
    /\ UNCHANGED <<config, lock, orphans, output>>

\* What the recovery child may answer: one of the three actions, anything else that
\* is not an action, or an action that is a list or an object.
RecoveryActions == {"invoke_worker", "reconciled_no_action", "reconcile_existing_publication"}
RecoveryAnswer == RecoveryActions \cup {"not_an_action", "unhashable", "failed"}

\* A list or an object raises TypeError at the membership test (line 187), which no
\* handler catches: the wake ends with a traceback and prints nothing.
RecoveryPreWorker(w) ==
    /\ pc[w] = "recovery_pre_worker"
    /\ \/ /\ ~config["recovery"]
          /\ Conclude(w, "emit", "recovery_failure", 70)
          /\ UNCHANGED <<lock, memory, output>>
       \/ /\ config["recovery"]
          /\ \E answer \in RecoveryAnswer :
                \/ /\ answer \in {"not_an_action", "failed"}
                   /\ action' = [action EXCEPT ![w] = answer]
                   /\ Conclude(w, "emit", "recovery_failure", 70)
                   /\ UNCHANGED <<lock, launched, stale, code, output>>
                \/ /\ answer \in RecoveryActions
                   /\ action' = [action EXCEPT ![w] = answer]
                   /\ IF answer = "invoke_worker"
                      THEN Goto(w, "adapter")
                      ELSE Conclude(w, "emit", "reconciled_no_action", 0)
                   /\ UNCHANGED <<lock, launched, stale, code, output>>
                \/ /\ answer = "unhashable"
                   /\ Exit(w, Traceback)
                   /\ UNCHANGED <<printed, recorded>>
    /\ UNCHANGED <<config, orphans>>

\* The adapter ends with a status of its contract or with another one (1 stands for
\* all of those, signals included), or subprocess.run raises OSError.
RunAdapter(w) ==
    /\ pc[w] = "adapter"
    /\ \/ /\ launched' = [launched EXCEPT ![w] = TRUE]
          /\ \E c \in {0, 65, 70, 130, 1} : code' = [code EXCEPT ![w] = c]
          /\ Goto(w, "host_post_worker")
          /\ UNCHANGED <<lock, stale, action>>
       \/ Raise(w, "runner_internal_failure", 70)
    /\ UNCHANGED <<config, orphans, output>>

\* Slip: an adapter status outside the contract is passed on.
ResultPassesUnknown(adapter_code, host_failed) ==
    [class |-> IF host_failed THEN "runner_internal_failure" ELSE "interrupted_invalid",
     status |-> adapter_code]

Result(adapter_code, host_failed) ==
    CASE host_failed -> [class |-> "runner_internal_failure", status |-> 70]
      [] ~host_failed /\ adapter_code = 0 ->
            [class |-> "valid_completion", status |-> 0]
      [] ~host_failed /\ adapter_code = 70 ->
            [class |-> "adapter_execution_failure", status |-> 70]
      [] ~host_failed /\ adapter_code \notin {0, 70} ->
            [class |-> "interrupted_invalid",
             status |-> IF adapter_code = 130 THEN 130 ELSE 65]

\* A host hook that is not configured is like one that completed.
HostPostWorker(w) ==
    /\ pc[w] = "host_post_worker"
    /\ \E failed \in BOOLEAN :
          LET result == Result(code[w], failed)
          IN  Conclude(w, "emit", result.class, result.status)
    /\ UNCHANGED <<config, lock, orphans, memory, output>>

(***************************************************************************)
(* The summary: print, then append, then return.                           *)
(***************************************************************************)
\* An OSError outside a phase: what the handler prints depends on the launch.
RaiseOSError(w) ==
    Raise(w, IF launched[w] THEN "runner_internal_failure" ELSE "preflight_failure", 70)

Printed(w) == [printed EXCEPT ![w] = Append(@, pending[w].class)]

\* The print may raise OSError too; the line may still come out with what is flushed next.
Emit(w) ==
    /\ pc[w] = "emit"
    /\ \/ /\ printed' = Printed(w)
          /\ Goto(w, "evidence")
          /\ UNCHANGED <<lock, memory>>
       \/ /\ printed' \in {printed, Printed(w)}
          /\ RaiseOSError(w)
    /\ UNCHANGED <<config, orphans, recorded, exit>>

Recorded(w) == [recorded EXCEPT ![w] = Append(@, pending[w].class)]

\* Slip: a failed append is ignored.
AppendFailsSilently(w) == Goto(w, "return") /\ UNCHANGED <<lock, memory, output>>

\* Slip: after a failed append the summary is emitted again.
AppendFailsRetries(w) == Goto(w, "emit") /\ UNCHANGED <<lock, memory, output>>

\* append_evidence raises OSError, before or after the line is in the file (closing the
\* file may fail): the handler prints once more.
AppendFails(w) ==
    /\ RaiseOSError(w)
    /\ recorded' \in {recorded, Recorded(w)}
    /\ UNCHANGED <<printed, exit>>

AppendEvidence(w) ==
    /\ pc[w] = "evidence"
    /\ \/ /\ recorded' = Recorded(w)
          /\ Goto(w, "return")
          /\ UNCHANGED <<lock, memory, printed, exit>>
       \/ AppendFails(w)
    /\ UNCHANGED <<config, orphans>>

\* The except clauses: print a summary, append nothing.  Nothing catches what their own
\* print raises.
Handle(w) ==
    /\ pc[w] = "handler"
    /\ \/ /\ printed' = Printed(w)
          /\ Goto(w, "handled")
          /\ UNCHANGED <<lock, memory, exit>>
       \/ /\ printed' \in {printed, Printed(w)}
          /\ Exit(w, Traceback)
    /\ UNCHANGED <<config, orphans, recorded>>

\* The end of the with block or of the handler, and of the process.
Return(w) ==
    /\ pc[w] \in {"return", "handled"}
    /\ Exit(w, pending[w].status)
    /\ UNCHANGED <<config, orphans, printed, recorded>>

(***************************************************************************)
(* Interruption and death.                                                 *)
(***************************************************************************)
\* Of a child that changes durable state something may live on: the adapter's Codex
\* process, a finalizer's provider request.
Lasting == {"finalizer_pre", "adapter"}

LeaveChild(w) == orphans' \in {orphans, orphans \cup ({pc[w]} \cap Lasting)}

\* SIGINT inside the try: the lock goes, the handler prints, whatever was printed and
\* recorded before.
Interrupt(w) ==
    /\ pc[w] \notin {"idle", "handler", "handled"}
    /\ Raise(w, "interrupted_invalid", 130)
    /\ LeaveChild(w)
    /\ UNCHANGED <<config, output>>

\* SIGINT before the try is entered (lines 70-77), in a handler or after it, or once
\* run() has returned: a traceback, no further line.
InterruptUncaught(w) ==
    /\ pc[w] \in {"preflight", "return", "handler", "handled"}
    /\ Exit(w, Signalled)
    /\ UNCHANGED <<config, orphans, printed, recorded>>

Kill(w) ==
    /\ pc[w] # "idle"
    /\ Exit(w, Signalled)
    /\ LeaveChild(w)
    /\ UNCHANGED <<config, printed, recorded>>

OrphanEnds ==
    /\ \E phase \in orphans : orphans' = orphans \ {phase}
    /\ UNCHANGED <<config, lock, pc, pending, memory, output>>

Proceed(w) ==
    \/ Preflight(w) \/ TakeLock(w) \/ RefreshPre(w) \/ FinalizerPre(w)
    \/ RefreshAfterFinalization(w) \/ RecoveryPreWorker(w) \/ RunAdapter(w)
    \/ HostPostWorker(w) \/ Emit(w) \/ AppendEvidence(w) \/ Handle(w) \/ Return(w)

Signal(w) == Interrupt(w) \/ InterruptUncaught(w) \/ Kill(w)

Next ==
    \/ \E w \in Wake : Start(w) \/ Proceed(w) \/ Signal(w)
    \/ OrphanEnds

Spec == Init /\ [][Next]_vars

\* A started wake goes on: its children end and the kernel schedules it.
FairSpec == Spec /\ \A w \in Wake : WF_vars(Proceed(w))

(***************************************************************************)
(* Properties.                                                             *)
(***************************************************************************)

\* Every variable keeps its type.
TypeOK ==
    /\ config \in [Hook -> BOOLEAN]
    /\ lock \in Wake \cup {None}
    /\ orphans \subseteq Lasting
    /\ pc \in [Wake -> Label]
    /\ launched \in [Wake -> BOOLEAN] /\ stale \in [Wake -> BOOLEAN]
    /\ action \in [Wake -> RecoveryAnswer \cup {"none"}]
    /\ code \in [Wake -> {0, 65, 70, 130, 1}]
    /\ pending \in [Wake -> Summary]
    /\ printed \in [Wake -> Seq(Classification)]
    /\ recorded \in [Wake -> Seq(Classification)]
    /\ exit \in [Wake -> {Running, Signalled, Traceback, 0, 65, 70, 130}]

HoldsLock(w) ==
    \/ pc[w] \in ChildPhase
    \/ pc[w] \in {"emit", "evidence", "return"} /\ pending[w].class # "lock_contended"

\* A phase runs only under the flock, and the lock is never left behind by a wake
\* that ended, raised or was killed (lines 112-121, 299-316).
LockMatchesPhase == \A w \in Wake : HoldsLock(w) <=> lock = w

\* What the wakes look like to the checkout: the phase of the wake that holds the lock,
\* and what of its memory the phases after it depend on.
AbstractPhase(w) ==
    IF pc[w] \in ChildPhase THEN pc[w] ELSE IF HoldsLock(w) THEN "report" ELSE "away"

AbstractUnread(w) == HoldsLock(w) /\ stale[w]

AbstractAsked(w) == HoldsLock(w) /\ action[w] = "invoke_worker"

Abstract ==
    INSTANCE SerialWakes
    WITH phase  <- [w \in Wake |-> AbstractPhase(w)],
         unread <- [w \in Wake |-> AbstractUnread(w)],
         asked  <- [w \in Wake |-> AbstractAsked(w)]

\* docs/EXECUTION.md:151 again, for the phases: overlapping wakes work in the checkout one
\* after the other, each in the order of its phases and with a refresh between its merge
\* and its worker, whichever is interrupted or killed where (lines 112-298).
ImplementsSerialWakes == Abstract!Spec

\* The worker is invoked, and the host phase entered, only after the recovery child
\* asked for it and, if this wake merged a PR, after a refresh since (lines 145-227).
WorkerIsCleared ==
    \A w \in Wake :
        pc[w] \in {"adapter", "host_post_worker"} =>
            action[w] = "invoke_worker" /\ ~stale[w]

\* Exit status 0 vouches for the wake: one summary was printed, the evidence file
\* holds the same one, and it says either that no worker was launched or that the
\* adapter itself ended with 0 (lines 116-121, 205-213, 270-298).
SuccessIsHonest ==
    \A w \in Wake : exit[w] = 0 =>
        /\ Len(printed[w]) = 1 /\ recorded[w] = printed[w]
        /\ \/ printed[w][1] \in {"lock_contended", "reconciled_no_action"} /\ ~launched[w]
           \/ printed[w][1] = "valid_completion" /\ launched[w] /\ code[w] = 0

\* The exit statuses that go with a classification (lines 121-316, where each summary is
\* printed).
StatusOf ==
    [class \in Classification |->
        IF class \in {"lock_contended", "reconciled_no_action", "valid_completion"} THEN {0}
        ELSE IF class = "interrupted_invalid" THEN {65, 130} ELSE {70}]

LastLine(w) == printed[w][Len(printed[w])]

\* runtime/README.md:87 says the runner emits one bounded JSON line.  A failed append, or
\* an interrupt after the line, makes the handler print another one, also when the record
\* is already in the file (lines 297-316): never a third line, never a second record, and
\* a record always repeats the first line.  Whoever reads the exit status of a wake that
\* returned finds the last line agreeing with it, and behind 0 and 65 one line and its
\* record.
EvidenceFollowsJournal ==
    \A w \in Wake :
        /\ Len(printed[w]) <= 2
        /\ recorded[w] # <<>> => printed[w] # <<>> /\ recorded[w] = <<printed[w][1]>>
        /\ exit[w] \in {0, 65, 70, 130} =>
              printed[w] # <<>> /\ exit[w] \in StatusOf[LastLine(w)]
        /\ exit[w] \in {0, 65} => Len(printed[w]) = 1 /\ recorded[w] = printed[w]

\* Every wake ends, and so gives the lock back.
WakeEnds == \A w \in Wake : pc[w] # "idle" ~> pc[w] = "idle"

\* docs/EXECUTION.md:151 says the runtime must prevent incompatible concurrent
\* invocations for the same repository.
OneWorkerAtATime == "adapter" \in orphans => \A w \in Wake : pc[w] # "adapter"
=============================================================================
