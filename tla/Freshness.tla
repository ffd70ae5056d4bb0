----------------------------- MODULE Freshness -----------------------------
(***************************************************************************)
(* evaluate_fresh_checkout of validation/heartbeat_harness.py: five git      *)
(* commands establish that origin/main of the checkout is what the remote    *)
(* said, and then the state is read by the name of the ref.  Meanwhile main  *)
(* advances or is rewound, and other evaluations fetch into the same         *)
(* checkout.  What evaluate makes of the state is in Oracles.                *)
(***************************************************************************)
EXTENDS Integers

CONSTANTS Reader,     \* evaluations that share the checkout
          None,
          MaxCommits, \* bound: commits
          MaxRewinds, \* bound: rewinds of main
          MaxFailures \* bound: git commands that fail

ASSUME ConstantsAssumption ==
    /\ MaxCommits \in Nat \ {0} /\ MaxRewinds \in Nat /\ MaxFailures \in Nat
    /\ None \notin Nat

VARIABLES
    main,        \* commit of the remote's main
    commits,     \* commits made so far
    rewinds,     \* rewinds of main so far
    failures,    \* commands that failed so far
    tracking,    \* refs/remotes/origin/main in the checkout
    writes,      \* updates of that ref so far (history variable)
    pc,
    began,       \* commits and rewinds when the evaluation began (history variable)
    remote_sha,  \* answer of ls-remote
    fetched,     \* what a fetch under way will write
    verified,    \* writes when the ref was last compared (history variable)
    evaluated    \* commit whose state was evaluated; None: no evaluation

remote == <<main, commits, rewinds>>
vars == <<remote, failures, tracking, writes, pc, began, remote_sha, fetched, verified, evaluated>>

Commit == 1 .. MaxCommits
Label == {"idle", "ls_remote", "fetch", "update", "rev_parse", "show"}

Init ==
    /\ main = 1 /\ commits = 1 /\ rewinds = 0 /\ failures = 0
    /\ tracking = 1 /\ writes = 0
    /\ pc = [h \in Reader |-> "idle"]
    /\ began = [h \in Reader |-> 0]
    /\ remote_sha = [h \in Reader |-> None]
    /\ fetched = [h \in Reader |-> None]
    /\ verified = [h \in Reader |-> 0]
    /\ evaluated = [h \in Reader |-> None]

Goto(h, label) == pc' = [pc EXCEPT ![h] = label]

Begin(h) ==
    /\ pc[h] = "idle"
    /\ began' = [began EXCEPT ![h] = commits + rewinds]
    /\ remote_sha' = [remote_sha EXCEPT ![h] = None]
    /\ evaluated' = [evaluated EXCEPT ![h] = None]
    /\ Goto(h, "ls_remote")
    /\ UNCHANGED <<remote, failures, tracking, writes, fetched, verified>>

\* The ref as it is before the fetch is only reported.
LsRemote(h) ==
    /\ pc[h] = "ls_remote"
    /\ remote_sha' = [remote_sha EXCEPT ![h] = main]
    /\ Goto(h, "fetch")
    /\ UNCHANGED <<remote, failures, tracking, writes, began, fetched, verified, evaluated>>

\* git fetch asks the remote, then forces the ref to what it was told.
FetchAsks(h) ==
    /\ pc[h] = "fetch"
    /\ fetched' = [fetched EXCEPT ![h] = main]
    /\ Goto(h, "update")
    /\ UNCHANGED <<remote, failures, tracking, writes, began, remote_sha, verified, evaluated>>

\* Slip: the refspec does not force the ref.
FetchUpdatesUnforced(h) ==
    /\ pc[h] = "update"
    /\ IF fetched[h] >= tracking
       THEN /\ tracking' = fetched[h] /\ Goto(h, "rev_parse")
            /\ writes' = writes + (IF tracking = fetched[h] THEN 0 ELSE 1)
       ELSE Goto(h, "idle") /\ UNCHANGED <<tracking, writes>>
    /\ fetched' = [fetched EXCEPT ![h] = None]
    /\ UNCHANGED <<remote, failures, began, remote_sha, verified, evaluated>>

FetchUpdates(h) ==
    /\ pc[h] = "update"
    /\ tracking' = fetched[h] /\ writes' = writes + (IF tracking = fetched[h] THEN 0 ELSE 1)
    /\ fetched' = [fetched EXCEPT ![h] = None]
    /\ Goto(h, "rev_parse")
    /\ UNCHANGED <<remote, failures, began, remote_sha, verified, evaluated>>

\* Slip: the ref is not compared with what the remote said.
RevParseUncompared(h) ==
    /\ pc[h] = "rev_parse"
    /\ verified' = [verified EXCEPT ![h] = writes]
    /\ Goto(h, "show")
    /\ UNCHANGED <<remote, failures, tracking, writes, began, remote_sha, fetched, evaluated>>

RevParse(h) ==
    /\ pc[h] = "rev_parse"
    /\ verified' = [verified EXCEPT ![h] = writes]
    /\ Goto(h, IF tracking = remote_sha[h] THEN "show" ELSE "idle")
    /\ UNCHANGED <<remote, failures, tracking, writes, began, remote_sha, fetched, evaluated>>

\* The state is read by ref name.
Show(h) ==
    /\ pc[h] = "show"
    /\ evaluated' = [evaluated EXCEPT ![h] = tracking]
    /\ Goto(h, "idle")
    /\ UNCHANGED <<remote, failures, tracking, writes, began, remote_sha, fetched, verified>>

\* Any of the commands may fail, the fetch before it updates the ref.
GitFails(h) ==
    /\ pc[h] # "idle" /\ failures < MaxFailures /\ failures' = failures + 1
    /\ fetched' = [fetched EXCEPT ![h] = None]
    /\ Goto(h, "idle")
    /\ UNCHANGED <<remote, tracking, writes, began, remote_sha, verified, evaluated>>

Push ==
    /\ commits < MaxCommits /\ commits' = commits + 1
    /\ main' = commits + 1
    /\ UNCHANGED <<rewinds, failures, tracking, writes, pc, began, remote_sha, fetched,
                   verified, evaluated>>

Rewind ==
    /\ rewinds < MaxRewinds /\ rewinds' = rewinds + 1
    /\ main' \in (1 .. commits) \ {main}
    /\ UNCHANGED <<commits, failures, tracking, writes, pc, began, remote_sha, fetched,
                   verified, evaluated>>

Proceed(h) ==
    \/ Begin(h) \/ LsRemote(h) \/ FetchAsks(h) \/ FetchUpdates(h) \/ RevParse(h) \/ Show(h)

Next ==
    \/ \E h \in Reader : Proceed(h) \/ GitFails(h)
    \/ Push \/ Rewind

Spec == Init /\ [][Next]_vars

\* A git command ends and heartbeats are started again and again.
FairSpec == Spec /\ \A h \in Reader : WF_vars(Proceed(h))

(***************************************************************************)
(* Properties.                                                             *)
(***************************************************************************)

\* Every variable keeps its type.
TypeOK ==
    /\ main \in Commit /\ commits \in Commit /\ rewinds \in 0 .. MaxRewinds
    /\ failures \in 0 .. MaxFailures
    /\ tracking \in Commit /\ writes \in Nat
    /\ pc \in [Reader -> Label]
    /\ began \in [Reader -> 0 .. (MaxCommits + MaxRewinds)]
    /\ remote_sha \in [Reader -> Commit \cup {None}]
    /\ fetched \in [Reader -> Commit \cup {None}]
    /\ verified \in [Reader -> Nat]
    /\ evaluated \in [Reader -> Commit \cup {None}]

\* docs/HEARTBEAT_VALIDATION.md: stale durable state is never evaluated.  What is evaluated
\* is what the remote said, and still is on main if main did not move meanwhile, provided
\* that no other evaluation moved the ref after it was compared (lines 225-230): a fetch
\* that asked the remote earlier may put an older commit there.
EvaluatedIsFresh ==
    [][\A h \in Reader :
          evaluated[h] = None /\ evaluated'[h] # None /\ writes = verified[h] =>
             /\ evaluated'[h] = remote_sha[h]
             /\ began[h] = commits + rewinds => evaluated'[h] = main]_vars

\* Once main rests, also after it was rewound, heartbeats evaluate what is on it: no
\* left-over ref and no fetch of a rival makes every comparison fail for ever.
MainIsEvaluatedAgain == \A h \in Reader : []<>(evaluated[h] = main)
=============================================================================
