------------------------------ MODULE AtomicSync ------------------------------
(***************************************************************************)
(* What sync/consumer_sync.py promises, without plans, staging directories   *)
(* or failures: a candidate appears in one step, complete, where nothing is; *)
(* nobody but who takes it removes it.  An invocation does not see one state *)
(* of the consumer's tree, which people go on editing: AGENTS.md is that of  *)
(* its beginning, each other file that of some moment since then, and the    *)
(* record that vouches for the block it replaces was there at some moment.   *)
(***************************************************************************)
EXTENDS Integers

CONSTANTS Invocation, File, Tree, None, Empty, MaxEdits,
          BlockOf  \* the template's block at a revision

VARIABLES past,         \* the consumer's tree after each edit; past[edits] is there now
          edits,
          destination,  \* None, Empty or a candidate
          job,          \* the revision each invocation is given
          since         \* edits when an invocation began; None when it is not at work

vars == <<past, edits, destination, job, since>>

Version == 0 .. MaxEdits

Init ==
    /\ past = [v \in Version |-> past[0]] /\ edits = 0
    /\ destination = None
    /\ since = [i \in Invocation |-> None]

Begin(i) ==
    /\ since[i] = None
    /\ since' = [since EXCEPT ![i] = edits]
    /\ UNCHANGED <<past, edits, destination, job>>

GiveUp(i) ==
    /\ since[i] # None
    /\ since' = [since EXCEPT ![i] = None]
    /\ UNCHANGED <<past, edits, destination, job>>

\* The moments an invocation may have seen.
Moments(i) == since[i] .. edits

\* The block of AGENTS.md as it was at the beginning was the recorded baseline's.
Vouched(i) ==
    \E m \in Moments(i) :
        /\ past[m].record.revision # None
        /\ past[since[i]].agents.block = BlockOf[past[m].record.revision]

\* The candidate, given the moment of each of its files.
Candidate(i, moment) ==
    [agents |-> [past[since[i]].agents EXCEPT !.block = BlockOf[job[i].revision]],
     record |-> [revision |-> job[i].revision, canonical |-> TRUE],
     files  |-> [f \in File |-> past[moment[f]].files[f]]]

Publish(i) ==
    /\ since[i] # None /\ Vouched(i)
    /\ job[i].revision # None /\ BlockOf[job[i].revision] # None
    /\ destination \in {None, Empty}
    /\ \E moment \in [File -> Moments(i)] : destination' = Candidate(i, moment)
    /\ since' = [since EXCEPT ![i] = None]
    /\ UNCHANGED <<past, edits, job>>

\* People write anything, or make the candidate the consumer's tree.
Edit ==
    /\ edits' = edits + 1 /\ edits' \in Version
    /\ past' \in [Version -> Tree]
    /\ \A v \in Version \ {edits'} : past'[v] = past[v]
    /\ \/ UNCHANGED destination
       \/ destination \notin {None, Empty} /\ past'[edits'] = destination /\ destination' = None
    /\ UNCHANGED <<job, since>>

MakeDirectory ==
    /\ destination = None /\ destination' = Empty
    /\ UNCHANGED <<past, edits, job, since>>

Next ==
    \/ \E i \in Invocation : Begin(i) \/ GiveUp(i) \/ Publish(i)
    \/ Edit \/ MakeDirectory

Spec == Init /\ [][Next]_vars
=============================================================================
