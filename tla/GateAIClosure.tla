---------------------------- MODULE GateAIClosure ----------------------------
(***************************************************************************)
(* What the finalizer promises, without processes, snapshots or requests:  *)
(* the branch of one pull request grows, decisions accumulate, and the     *)
(* delegated merge is two atomic steps, closing an approved commit and     *)
(* merging that closure.  Everything else that lands is the owner's doing. *)
(***************************************************************************)
EXTENDS ClosureRules

VARIABLES history,    \* commits of the PR branch
          decisions,  \* supervisor decisions
          merged      \* [head, by] of what landed

vars == <<history, decisions, merged>>

Tip == Len(history)

\* The approval of s stood at some moment.
WasApproved(s) == \E n \in 0..Len(decisions) : StandsAt(decisions, n, s)

Init ==
    /\ Len(history) = 1 /\ history[1].by = "worker" /\ history[1].substantive = 1
    /\ decisions = <<>>
    /\ merged = [head |-> None, by |-> "nobody"]

Extends(new, old) ==
    /\ Len(new) = Len(old) + 1
    /\ \A i \in DOMAIN old : new[i] = old[i]

Publish ==
    /\ Extends(history', history)
    /\ history'[Tip + 1].by = "worker"
    /\ history'[Tip + 1].substantive \in {Tip + 1, history[Tip].substantive}
    /\ UNCHANGED <<decisions, merged>>

Decide ==
    /\ Extends(decisions', decisions)
    /\ UNCHANGED <<history, merged>>

\* The tip is approved work: put its closure on top.
Close ==
    /\ WasApproved(Tip)
    /\ Extends(history', history)
    /\ IsClosure(history', Tip + 1)
    /\ UNCHANGED <<decisions, merged>>

\* The tip is the closure of approved work: merge it, once.
DelegatedMerge ==
    /\ merged.by = "nobody"
    /\ IsClosure(history, Tip)
    /\ WasApproved(Tip - 1)
    /\ merged' = [head |-> Tip, by |-> "finalizer"]
    /\ UNCHANGED <<history, decisions>>

OwnerMerge ==
    /\ merged.by = "nobody"
    /\ merged' = [head |-> Tip, by |-> "owner"]
    /\ UNCHANGED <<history, decisions>>

Next == Publish \/ Decide \/ Close \/ DelegatedMerge \/ OwnerMerge

Spec == Init /\ [][Next]_vars
=============================================================================
