# Verification of my-own-governance

TLA+ models of the executable part of this repository, the TLC runs that check
them on small instances, and TLAPS proofs of the most important results for
every instance. Paths and line numbers refer to the repository's sources under
`src/`. `PROJECT.json` lists the components, the runs with the properties each
one checks, the mutated definitions each property is known to reject, the lines
every definition translates, the hazards, the findings and the theorems.

## 1. The system

The repository lets a code-writing agent work on a repository unattended, one
checkpoint at a time, and lets a mechanical host carry approved work to a merge.
What matters is durable: commits, the queue file `docs/WORK_QUEUE.md`, the pull
request (PR) and the supervisor's decisions on it.

    timer / manual start
          |  (flock)
    systemd_runner ── refresh ── finalizer ── refresh ── recovery ── adapter ── host phase
                                     |                      |           |
                               provider (external)   host_boundary    Codex CLI
                                     |                      |           |
                                     └──────── Git / GitHub ┴───────────┘

| Component | State | Operations | What makes it hard | What makes it correct |
|---|---|---|---|---|
| `runtime/gate_ai_finalizer.py` | none of its own; reads PR snapshots, remembers a substantive and a closure HEAD | snapshot, create_closure, merge, through a provider process | rivals, lost replies, kills, decisions and pushes between two reads, resumption | a merge is always of the exact closure of approved work; no second closure; finalizable work gets merged |
| `runtime/systemd_runner.py` | flock, journal line, evidence file | one wake: phases in order, one summary, one evidence record | overlapping wakes, interrupts, kills, children that outlive the wake, a failed append | phases run under the lock; the worker runs only when cleared; exit 0 is never wrong |
| `adapter/codex_execution_adapter.py` | Codex process, two artifacts, one summary | launch, wait, terminate, kill, save, classify | interrupts at any point, a child that ignores SIGTERM, pipes held open, write failures | what the summary says is what happened; success is proven; an interrupt ends it |
| `runtime/host_boundary.py`, Git state | none | three git reads, classification against an allowlist | another actor in the worktree, bounded output, renames | nothing outside the allowlist is publishable |
| `runtime/host_boundary.py`, identity and recovery | durable branch and PR, local flag | choose worker / reconcile / nothing; preserve or derive a branch | wakes that die between push, PR and hand-off; two checkouts | one item has one branch and PR; a half publication is completed |
| `sync/consumer_sync.py` | consumer tree, adoption record, staging and candidate directory | plan, copy, write, plan again on the copy, rename | edits between the reads and the copy, two synchronisations of one destination, failures and kills at every step | the candidate is complete and synchronised or absent; without an edit it is the consumer's own tree; the exit status says which |
| `validation/heartbeat_harness.py` | checkpoints of the durable state, a clone | select and transition one checkpoint, validate approval and closure, read fresh state | decisions and pushes in any order, an approved checkpoint that cannot be merged, fetches that share a ref | only closures of standing approvals are merged; fresh state is evaluated |
| `validation/supervisor_harness.py` | none | review a candidate, confirm its HEAD, judge a closure | the HEAD moves during a review | a decision is bound to the HEAD that was evaluated |
| `validation/acceptance_harness.py` | one invocation's selected checkpoint | heartbeat, worker result, review, closure | any order of the operations, two oracles written apart | both oracles agree; what is accepted is merged |
| `runtime/systemd/` | | a timer and a oneshot service | wakes that overlap a manual one | |
| `docs/`, `agents/`, `templates/` | | policy text | | source of the statements the code is checked against |

The components share no memory. They interact through child processes (exit
status and one JSON object on stdout), the flock, files in `.git/`, and the
remote repository. The full list of hazards, each at its line, is in
`PROJECT.json`.

## 2. Modules

| Module | Models | Notes |
|---|---|---|
| `ClosureRules` | the pure checks and the queue edit of the finalizer | no state; used by the next two and by `Acceptance` as a reference |
| `Finalizer` | invocations of the finalizer against one PR | one action per provider call with the evaluation after it |
| `GateAIClosure` | the promise: close approved work, merge that closure, each in one atomic step | abstract; `Finalizer` implements it |
| `Runner` | wakes in one checkout | one action per phase, emit, append, handler |
| `SerialWakes` | the promise: one wake at a time, phases in order, work only as recovery asked and on what was read last | abstract; `Runner` implements it |
| `Adapter` | one adapter invocation and its Codex process | no constants |
| `GitState` | `validate_git_state` in a worktree others use | one action per git command |
| `Publication` | recovery and identity over many wakes of one item | composes the rules of `host_boundary` with the runner's routing |
| `ConsumerSync` | synchronisations that share a consumer tree and a destination | one action per read or write of the file system |
| `AtomicSync` | the promise: a complete candidate appears in one step, of states of the tree since the invocation began | abstract; `ConsumerSync` implements it |
| `Oracles` | the pure rules of the supervisor's and the heartbeat's oracles, and `evaluate` | no state |
| `Acceptance` | `AcceptanceProtocol` over both oracles | composes the three harnesses; a review is two steps |
| `Freshness` | `evaluate_fresh_checkout` in a shared checkout | one action per git command |
| `FinalizerProofs`, `RunnerProofs`, `AdapterProofs`, `GitStateProofs`, `PublicationProofs`, `ConsumerSyncProofs`, `AcceptanceProofs`, `FreshnessProofs` | theorems about the module each is named after | TLAPS |
| `MCFinalizer`, `MCGitState`, `MCConsumerSync`, `MCAcceptance` | constants for TLC | the other modules get theirs in their cfgs |

Operators named after a mistake and introduced by a comment "Slip:" are mutated
forms of the definition that follows them. Specifications do not use them; they
show that the properties notice such a mistake.

### Finalizer

`history` is the PR branch as a sequence of commits, a commit being its position;
the code compares SHAs for equality only. A queue text is a record of the cells
of the checkpoint's row the code reads or writes, plus one field for the rest of
the file. `decisions` is the sequence of supervisor decisions. `pc[f]` is the
provider call invocation `f` waits for: `ReadInitial`, `CreateClosure`,
`ReadRefreshed`, `ReadBoundary` and `Merge` are the calls of `_run` in order,
each with everything the code does up to the next call. The order of checks in
`validate_snapshot` is kept, since it decides the classification. A request whose
reply is lost, or whose sender is killed, stays in `late` and may still take
effect at any later time. Worker pushes (new work, or queue-only and other
derived commits), supervisor decisions on any commit, checks, mergeability and
the owner's interventions are actions of their own.

The provider is external. It is taken to do what `docs/EXECUTION.md` requires:
compare the expected HEAD and mutate in one step, and report a rejected compare.

### Runner

`pc[w]` is the phase of wake `w`. Printing (`Emit`), appending
(`AppendEvidence`) and returning (`Return`) are separate steps, in the `with`
block and in the handlers (`Handle`), because an interrupt, a kill or a failed
write can fall between them. Leaving the `with` block releases the lock before
the handler prints. `Interrupt` is a SIGINT that the code catches, also after
the summary was printed or recorded; `InterruptUncaught` is one before the `try`
is entered, in a handler, or after `run()` returned. A write that fails may have
done its work: the line may be on stdout or in the file all the same.
`Signalled` stands for a death by signal, `Traceback` for an exception that
nothing catches and for the 120 of a stdout that cannot be flushed at exit. A
host hook that is not configured is like one that completed. `orphans` are
phases whose child lives on after its runner; only the adapter and the finalizer
change durable state, so only they are kept. `stale` records that a merge has
not been followed by a refresh: a finalizer that fails, or prints something
unreadable, may have merged.

As an implementation of `SerialWakes` a wake is at the phase whose child runs, at
`report` while it holds the lock between or after the phases, and `away`
otherwise: preflight, the wait for the lock, everything after its release, and
orphans are invisible there.

### Adapter

`codex` is the child process. It ends with any status and any output, on its own
or on SIGTERM, or not at all until SIGKILL. `helper` stands for anything Codex
started that still holds its pipes: `communicate()` returns only when they are
closed. Interrupts inside the one `communicate()` that handles them are
`InterruptWait`; all others are `InterruptElsewhere`. `Emit` prints and `Return`
ends the process, so a signal may come between them; until the end the line may
still be buffered, and a kill or a failing flush may lose it. The print of an
interrupted execution (line 119, label `emit_interrupted`) is inside the `try`,
so when it fails the adapter reports again; the print at 170 is not.

### GitState

The worktree has a current branch (or none), a tip per branch, and a set of
status records; a rename carries its source. `Truncations` are the ways
`run_process` may cut the output: whole records are lost from the end, tracked
ones being first (`WholeRecords`), and the record at the cut may keep part of
its path (`Remnants`). Commands
may fail. A person or a worker that outlived its wake may edit, revert, commit
or switch branches between any two reads.

### Publication

`RecoveryAction`, `ReconcileIdentity` and `Route` are the code. What follows an
answer is not in the repository and is modelled as the documents describe it:
the worker finishes and sets a local flag; the host phase identifies the branch
with fresh reads, pushes, opens the PR and hands it to review; the recovery
child completes a publication that lacks its PR or hand-off. Wakes die anywhere,
the checkout then survives or is made anew, and a derived name may come out
differently each time.

### ConsumerSync

An invocation reads `AGENTS.md` and the record, reads the record again for its
bytes, prints its result, and then stages: `Copy` takes one file at a time,
`Write` puts the planned block and record into the copy, `Verify` plans on the
copy, `Replace` renames it. Every step may fail; whether the staging directory
is then to be removed, and whether the process can end with status 2 or a
traceback, follows the handlers of `main` and `write_candidate`. The removal
ignores its errors, so `Abort` may leave the directory. `Return` ends with
status 0, or with 120 ("unflushed") when the printed result cannot be flushed.
Contents are told apart where the code compares them: the block, the text around
it (by the edit that wrote it), the record, every other file. A template whose
end marker is its last, unterminated line is `Ragged`: spliced before further
text, it is a marker no longer. Around the invocations, people edit the
consumer, adopt a candidate, and create the destination; any invocation may be
killed. Edited records that are in the tool's own form name a revision, as the
tool writes no others.

`past` (a history variable) is the tree after each edit. `AtomicSync` is told in
its terms: an invocation is at work from the read of `AGENTS.md` to its rename
or end, and its candidate is `AGENTS.md` of its beginning with the new block,
the new record, and each other file of some moment since; the block that went
was that of the baseline which the record named at some moment since.

### Oracles, Acceptance

`Oracles` holds what `supervisor_harness` and `heartbeat_harness` decide, as two
separate sets of rules, as they are in the code; the fields of a closure and its
files are sequences where one oracle compares lists and the other sets.
`evaluate` of the supervisor merges a caller's evidence over the item; as in the
tests, no evidence names a field of the item. `Acceptance` is the protocol
object over the durable state they share: `NewInvocation`, `Heartbeat`,
`WorkerResult`, `Supervise` and `Publish` (the review, before and after the HEAD
is confirmed), and `Close`, which presents a closure, asks both oracles, and
merges as a side effect of asking the heartbeat's. Authors push in between,
eligibility comes and goes, and the owner may set Gate HUMAN. A closure's parent
is the HEAD it was derived from; what it edits is any diff of `Offered`.

### Freshness

`tracking` is the remote-tracking ref that every evaluation in the checkout
fetches into; `FetchAsks` and `FetchUpdates` are apart because git asks the
remote before it writes the ref. Main advances and is rewound; git may fail.

## 3. Runs

Passing runs and what they show:

| Run | Instance | Shows |
|---|---|---|
| `finalizer_rivals` | 2 invocations, 1 push, 2 decisions, 1 fault | safety with rivals and lost replies, that `Finalizer` implements `GateAIClosure`, and that a PR that stays finalizable is merged |
| `finalizer_owner` | 1 invocation, any pushed queue text, 3 decisions over 2 substantive commits, 1 owner change | every mutation is requested in a state that authorises it; approve, rework, approve again, in any order |
| `runner_wakes` | 2 wakes, every hook configuration | that `Runner` implements `SerialWakes`; lock, clearance of the worker, honesty of exit 0, journal and evidence; every wake ends |
| `adapter_outcome` | one invocation | truth of summary and exit status, no Codex behind a summary, interrupts end it |
| `git_state_reads` | 4 paths, 2 allowed, 3 changes of which the report holds 2, 1 commit or checkout | what a publishable verdict says of a report that fits and of one that is cut; refusals have a cause; an undisturbed verdict is of one state |
| `publication_hosts` | 2 checkouts, 3 names, 2 crashes, 1 rework | one published name per checkout; a wake that saw a publication never adds another; a pushed branch gets its PR |
| `consumer_sync` | 2 synchronisations, 2 revisions, 1 other file, 2 edits, symmetric, the record first in the tool's own form | the candidate is complete and synchronised; that `ConsumerSync` implements `AtomicSync`; what each exit status says of the candidate |
| `acceptance` | 2 checkpoints; the first goes to 3 commits, 2 decisions, 1 change and 7 kinds of closure | what is merged is the closure of an approval that stands by the finalizer's rule; the oracles agree; decisions are bound; Gate HUMAN is reserved; what can be merged is merged unless a stuck checkpoint is before it |
| `freshness` | 2 evaluations, 3 commits, 1 rewind, 1 failure | undisturbed, what is evaluated is on main; once main rests, it is evaluated again |

Violations, each a disagreement between the code and a statement of the
repository (quoted in `PROJECT.json`, "findings"):

| Run | What the code does |
|---|---|
| `finalizer_emits` | a PR merged between the last two reads makes the finalizer end with a traceback |
| `runner_two_workers` | a killed or interrupted runner leaves Codex running and the lock free |
| `publication_stuck` | finished work that was not pushed fails every later wake |

`publication_stuck` is a counterexample under the fairness below and with a
single crash: each later wake takes the same route again. It says what follows
from `recovery_action` and the runner's routing when the recovery child answers
with that function's answer as it stands; an integration could translate it.

### Behaviour a reader may not expect

The models contain more, with no violated property of its own; where a property
passes, it says exactly how far the promise goes.

- Runner: a failed print or append, or an interrupt after the summary, prints a
  second summary where `runtime/README.md:87` says one line. The first may be in
  the evidence file already: an interrupt between `append_evidence` and the
  return leaves a recorded `valid_completion` beside a printed
  `interrupted_invalid` and status 130. `EvidenceFollowsJournal` says what is
  sure: at most two lines, at most one record, and it is the first of them; two
  lines only of a wake that does not end with status 0. A recovery answer that
  is a list or an object ends the wake without a line (`RecoveryPreWorker`), and
  so does an interrupt before the `try`.
- Adapter: an artifact that cannot be written ends it without a line
  (`SaveArtifact`). A signal between print and return leaves a printed
  `valid_completion` beside the status of a signal. When the first print of an
  interrupted execution fails, the same summary may be printed twice and the
  status is 70 (`EmitFails`). `SummaryIsTrue` says what a line is worth in all
  of these.
- GitState: paths beyond the output limit are cut without a word
  (`runtime/host_boundary.py:39`) and the worktree may be publishable although
  `docs/EXECUTION.md:119-123` wants every change expected
  (`PublishableIsExpected` says what is still sure). A checkout or a commit
  between the three reads goes unnoticed.
- Finalizer: a decision that cannot be hashed, or a provider command that is not
  JSON, ends it with a traceback instead of `invalid_evidence`
  (`MalformedSnapshot`). A decision published after the boundary read does not
  stop the merge, since `Merge` looks at the HEAD only.
- Publication: an item in AI_REWORK is reconciled without a worker on every
  wake, and two checkouts that refresh before either pushes publish two names.
- ConsumerSync: `sync/README.md:178` says that a failure removes the unpublished
  candidate; the removal ignores its errors, and an interrupt does not pass
  through it (`Abort`, `Kill`). Nothing is left after status 0, and nothing is
  published after a failure (`ExitIsHonest`). An edit between plan and copy is
  not noticed; the candidate then mixes states of the consumer, and the block it
  replaces may be vouched for by a record written later. `AtomicSync` says
  exactly which states may mix, and `UndisturbedCandidateIsTheTree` when none
  do.
- Acceptance: `closure()` asks the heartbeat's oracle in any case, so a closure
  whose label or field order the supervisor's oracle rejects is merged although
  it is not accepted (`OraclesAgree` names these and the third exception, a file
  listed twice). The evaluation may select another checkpoint, start or merge
  that one, and its merge is taken for this one's. A heartbeat that meets a
  second checkpoint raises after it has changed it. A review that ends after the
  merge can reopen a DONE item. An approved checkpoint that cannot be merged is
  selected on every heartbeat and holds up all others (`ExecutableIsMerged`
  excepts it). The production finalizer's own closure clears the identity cell,
  which neither oracle accepts. Work and rework under way go on when the Gate
  becomes HUMAN.
- Freshness: after the comparison the state is read by ref name, so a rival
  fetch can put another commit there (`EvaluatedIsFresh` has the condition).

### Bounds and why they are enough

Finalizer: two invocations are enough for every conflict the code can have,
because an invocation only meets another through the branch and the PR; a killed
one adds a late request, which is a third actor. Two commits after the first
allow closure on approved work, new work on a closure, and a foreign derived
commit; three decisions allow every order of approval, invalidation and renewed
approval. Runner: wakes interact only through one lock, so a third adds nothing.
GitState: three changes cover a tracked, a renamed and an untracked record
together, each expected or not, and one more than the report holds; one move is
enough to fall between two reads. Publication: one item; three names, so that
each of two checkouts could publish one and one of them a second; two crashes let
a wake die in one gap (worker–push, push–PR, PR–hand-off) and the next in
another. ConsumerSync: two invocations race for one destination; two edits allow
one between reads and one between read and copy; a second file would be copied
like the first; a record of another form at first is one that an edit put there. Acceptance: two checkpoints are needed for priority and for one
oracle's merge of another's item; three commits allow work, closure and a push
on top of it, or two closures; two decisions allow an approval and what
invalidates it. Freshness: an older answer that overwrites a newer ref needs two
readers, two commits and a rewind.

The theorems of section 4 do away with these bounds: every safety property a
passing run checks is also proved, for every value of the constants. The runs
remain the evidence for liveness, and the check that the formulas say what they
should: each property has a mutated definition in `PROJECT.json` under which its
run fails.

Deadlock is checked except for `Adapter` and `ConsumerSync`, whose processes end.

### Fairness

Finalizer: weak fairness of each invocation (the timer starts it again and the
provider's calls return), of checks and of mergeability. Nothing is assumed of
workers, supervisors, the owner or late requests. Runner: weak fairness of a
wake's own steps, so children are assumed to end: neither the code nor the
oneshot unit sets a timeout, and a child that hangs holds the lock for ever.
Adapter: weak fairness of the adapter and of helpers ending; none of Codex. (A
helper that never lets go of the pipes holds the adapter for ever: the second
`communicate()` has no timeout.)
Publication: weak fairness of each checkout's wakes. Acceptance: weak fairness of
heartbeats that change a checkpoint, since the timer starts them again and again;
none of workers, reviews, closures or the owner. Freshness: weak fairness of each
evaluation, started again by its timer; none of pushes, rewinds or failures.
`ConsumerSync` and `GitState` state no liveness: one-shot commands whose end is
their last step.

## 4. Proofs

TLAPS proves, for every value of the constants, every invariant and every action
property that a passing run checks, and the three refinements: `Finalizer`
implements `GateAIClosure`, `Runner` implements `SerialWakes`, `ConsumerSync`
implements `AtomicSync`. The assumptions are those the modules name: bounds are
natural numbers, `None` and the other marks are none of the values they stand
beside, pushed texts are queue texts, checkouts are finitely many
(`Publication`), a closure's parent is the commit it was derived from
(`Acceptance`). TLC evaluates them in every run.

Some theorems state a property that no run lists. `CandidateIsKept` and
`UndisturbedCandidateIsTheTree` follow from what `AtomicSync` allows and are kept
because they read better; `TypeOK` of `Freshness`; and the properties under
"Safety halves" below, which are defined in the modules that prove them. TLC was
given each of them on the instance of the component's run before it was proved.

Each proof is `Init => Inv`, `Inv /\ [Next]_vars => Inv'` with one step per
action, and a theorem per property that `Inv`, or `Inv` and one step, implies.
What `Inv` must add to the properties, which are seldom inductive:

| Module | `Inv` beside `TypeOK` | Why |
|---|---|---|
| `FinalizerProofs` | `MemoryIsTrue` | a merge is right because of what the invocation validated earlier and remembers; so do requests that outlive their sender, and the record of what landed |
| `RunnerProofs` | `LockMatchesPhase` and, of every wake, `JournalInv`, `SummaryInv`, `EndInv`, `ClearanceInv` | exit 0 is honest because the pending summary was so when it was chosen, phases earlier; evidence because the journal had one line when it was appended; serial wakes because what cleared the worker is remembered until it runs |
| `AdapterProofs` | `ProgressInv`, `ReportInv` | what the summary says was so when each part was set, and no later step undoes it |
| `GitStateProofs` | `WorktreeInv`, `ReadsInv`, `VerdictInv` | a verdict is of three reads; moves only grow, so equal counts mean that nothing moved in between |
| `PublicationProofs` | `SpentInv` and, of every checkout, `WakeInv` | branches are counted against checkouts: published branches and wakes that may still push a first one are together at most the checkouts |
| `ConsumerSyncProofs` | `CandidateIsSynchronised`, `past[edits] = consumer` and, of every invocation, `PlanInv`, `StagingInv`, `OutcomeInv`, `PastInv` | what is renamed was planned, copied and verified by earlier steps, and each part of it was in the tree at some moment since the first read |
| `AcceptanceProofs` | `ClosureOnTop` | a closure nothing was pushed on is the commit right above its parent |
| `FreshnessProofs` | `ReaderInv` | what a reader compared is what it will read, unless the ref was written since |

Finalizer. `MemoryIsTrue` stays true because the branch and the decisions only
grow (`NextGrows`), so that a fact about a commit or a prefix of the decisions is
never undone (`ClosureKept`, `ApprovalKept`), and because every mutation compares
the HEAD, so a closure is always put directly on the commit it was derived from
(`PushClosureBranch`). The refinement (`StepSimulation`) then follows: a create
request that succeeds is the abstract `Close` (`CloseStep`), a merge of an open
PR the abstract `DelegatedMerge` (`MergeStep`), a worker's commit `Publish`, and
every other step a stutter.

Runner. `AbstractPhase`, `AbstractUnread` and `AbstractAsked` map a wake's state.
A step of a wake that is not seen at work and does not take the lock is a stutter
(`UnseenStep`, `AwayStep`); taking the lock is `Enter`, possible because
`LockMatchesPhase` says that nobody else seen at work holds it (`EnterStep`); the
phases map one to one (`PhaseStep`); and whatever releases the lock is `Leave`.

ConsumerSync. The rename is `Publish`, and the moments of the files, which
`Publish` only says to exist, come from `PastInv` (`StagedCandidate`); that the
block was vouched for comes from the plan, made before (`PlanVouched`,
`PublishSimulation`). Other steps of an invocation begin it, end it or stutter
(`RunSimulation`), and people's are `Edit` and `MakeDirectory`
(`PeopleSimulation`).

Acceptance. That `evaluate` selects a checkpoint rests on the existence of the
least member of a set of numbers, and that the latest approval is one of the
approvals on that of the greatest (`MinExists`, `MaxExists`): of the finite sets
`0 .. x`, one contains no other. `StepFacts` says what any step does to one
checkpoint, and the action properties follow from it.

### Safety halves of the liveness properties

Liveness is out of the prover's reach. What each liveness property rests on
besides fairness is not, and is proved:

| Liveness (TLC) | Theorem | Says |
|---|---|---|
| `FinalizableIsMerged` | `RefusedForCause` | on a PR that can be finalized an invocation merges, or stops for mergeability, checks, or a branch that is no longer the one it set out to close; `AheadInv` keeps what it knows of its closure |
| `WakeEnds` | `WakesAreBounded` | every step of a started wake lowers `StepsLeft`, at most 13, and no other step touches it |
| `InterruptEnds` | `InterruptedRunsDown` | every step of the adapter lowers `StepsLeft`, Codex's steps do not raise it, and after the kill only helpers are waited for |
| `PublicationCompletes` | `KnownBranchCompleted` | a wake that saw the branch ends with a pull request or by dying; `SeenInv` keeps what it saw |
| `ExecutableIsMerged` | `HeartbeatServed` | a heartbeat that could merge something starts a rework, merges the first it can, or is held up by a stuck checkpoint before it |
| `MainIsEvaluatedAgain` | `LeftoversUsedUp` | while main rests, the leftovers of earlier fetches are used up by their writes, and nothing else makes a comparison fail |

Model-checked only: that these, with the fairness of section 3, add up to the
liveness properties, and the three violations.

## 5. Not modelled

- A force-push of a PR branch: it only grows. The provider's compare of HEADs
  would not see a branch that was moved away and back. (`Freshness` does rewind
  main.)
- Provider snapshots that mix two states: a snapshot is one atomic read.
- Text: the queue file's parsing, JSON and JSONL syntax, timestamps, wall times,
  the 300-character cut of errors, the byte form of markers. A malformed input is
  an outcome, not a string.
- Writing to stdout failing in the finalizer and in the harnesses, and exceptions
  outside those the code could plausibly raise.
- Pushes to the branch after the merge other than a late closure request.
- Symbolic links and file modes in consumer trees.
- Gates other than AI and HUMAN, and a pull request that is replaced by another,
  in the harnesses' fixtures.
- What the finalizer's provider, the recovery child, the host command and the
  integration of an installation do beyond what the code here relies on.
- The governance documents and templates: policy text, read as the source of
  statements the code is checked against.

## 6. What is left

`Wake`, a composition of `Runner`, `Adapter` and `Finalizer` in which the
adapter's exit statuses and the finalizer's outcomes are those of their models
instead of free choices. `Runner` lets its children end in any way, which covers
every way they do end; the composition would show which summaries can really
occur together.
