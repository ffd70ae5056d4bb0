------------------------------- MODULE GitState -------------------------------
(***************************************************************************)
(* validate_git_state of runtime/host_boundary.py: three git commands read   *)
(* HEAD, the symbolic branch and the status of a worktree, one after the     *)
(* other; the answers are classified against an allowlist.  A worker that    *)
(* outlived its wake, or a person, may use the same worktree meanwhile.      *)
(***************************************************************************)
EXTENDS Integers, FiniteSets

CONSTANTS Branch, Expected,   \* branches, and expected_branch
          Path, Allowed,      \* paths, and those allowed_paths covers
          None,               \* no branch, no path, no commit
          Limit,              \* status records that fit in output_limit
          MaxChanges,         \* bound: changes in the worktree
          MaxMoves            \* bound: commits and checkouts

ASSUME ConstantsAssumption ==
    /\ Expected \in Branch /\ Allowed \subseteq Path
    /\ None \notin Branch /\ None \notin Path
    /\ Limit \in Nat /\ MaxChanges \in Nat /\ MaxMoves \in Nat

VARIABLES
    current,  \* branch checked out, None when HEAD is detached
    tip,      \* latest commit of each branch
    changes,  \* what git status would report
    moves,    \* commits and checkouts so far
    pc,       \* where the validation is
    began,    \* moves when the validation began (history variable)
    head,     \* answer of rev-parse
    branch,   \* answer of symbolic-ref
    seen,     \* the worktree when its status was read (history variable)
    verdict   \* classification returned

worktree == <<current, tip, changes, moves>>
validation == <<pc, began, head, branch, seen, verdict>>
vars == <<worktree, validation>>

\* A porcelain record; a rename or copy carries its source.
Change == [kind : {"tracked"}, path : Path, source : Path \cup {None}]
          \cup [kind : {"untracked"}, path : Path, source : {None}]

\* A commit is told by the branch it was made on and its place there; a detached HEAD
\* is at some other commit.
Commit == (Branch \cup {None}) \X (0 .. MaxMoves)

Classification ==
    {"invalid_git_state", "branch_ref_mismatch", "unexpected_tracked_modifications",
     "unexpected_untracked_paths", "expected_modifications", "clean"}

Publishable == {"clean", "expected_modifications"}

ASSUME VerdictAssumption == None \notin Classification

NotRead == [current |-> None, tip |-> None, changes |-> {}, moves |-> 0]

HeadCommit == <<current, IF current = None THEN 0 ELSE tip[current]>>

Init ==
    /\ current = Expected
    /\ tip = [b \in Branch |-> 0]
    /\ changes = {}
    /\ moves = 0
    /\ pc = "head" /\ began = 0 /\ head = None /\ branch = None
    /\ seen = NotRead /\ verdict = None

(***************************************************************************)
(* Classification.                                                         *)
(***************************************************************************)
\* Slip: only the new name of a rename is looked at.
PathsOfTargetOnly(change) == {change.path}

PathsOf(change) == {change.path, change.source} \ {None}

Unexpected(records, kind) ==
    {c \in records : c.kind = kind /\ ~(PathsOf(c) \subseteq Allowed)}

\* Slip: untracked paths are looked at first.
ClassifyUntrackedFirst(records) ==
    CASE Unexpected(records, "untracked") # {} -> "unexpected_untracked_paths"
      [] /\ Unexpected(records, "untracked") = {}
         /\ Unexpected(records, "tracked") # {} -> "unexpected_tracked_modifications"
      [] /\ Unexpected(records, "tracked") \cup Unexpected(records, "untracked") = {}
         /\ records # {} -> "expected_modifications"
      [] records = {} -> "clean"

Classify(records) ==
    CASE Unexpected(records, "tracked") # {} -> "unexpected_tracked_modifications"
      [] /\ Unexpected(records, "tracked") = {}
         /\ Unexpected(records, "untracked") # {} -> "unexpected_untracked_paths"
      [] /\ Unexpected(records, "tracked") \cup Unexpected(records, "untracked") = {}
         /\ records # {} -> "expected_modifications"
      [] records = {} -> "clean"

Tracked(all) == {c \in all : c.kind = "tracked"}

\* As many records as fit, the tracked ones first.
WholeRecords(all) ==
    {kept \in SUBSET all :
        Cardinality(kept) = Limit /\ (kept \subseteq Tracked(all) \/ Tracked(all) \subseteq kept)}

\* What a cut within the next record leaves of it.
Remnants(all, kept) ==
    LET next == IF Tracked(all) \subseteq kept THEN all \ kept ELSE Tracked(all) \ kept
    IN  {[c EXCEPT !.path = p, !.source = None] : c \in next, p \in Path}

\* The output is cut at output_limit characters: records beyond it are lost, and the
\* record at the cut may keep a part of its path.
Truncations(all) ==
    IF Cardinality(all) <= Limit
    THEN {all}
    ELSE WholeRecords(all)
         \cup UNION {{kept \cup {rest} : rest \in Remnants(all, kept)} : kept \in WholeRecords(all)}

(***************************************************************************)
(* The three reads.                                                        *)
(***************************************************************************)
\* Slip: rev-parse --abbrev-ref answers with the branch.
ReadHeadAbbreviated ==
    /\ pc = "head"
    /\ head' \in {current, None} /\ began' = moves
    /\ pc' = "branch"
    /\ UNCHANGED <<worktree, branch, seen, verdict>>

\* rev-parse and symbolic-ref are both run before either answer is looked at.
ReadHead ==
    /\ pc = "head"
    /\ head' \in {HeadCommit, None} /\ began' = moves
    /\ pc' = "branch"
    /\ UNCHANGED <<worktree, branch, seen, verdict>>

\* Slip: the branch is read and never compared.
ReadBranchUncompared ==
    /\ pc = "branch"
    /\ branch' \in {current, None}
    /\ IF None \in {head, branch'} THEN verdict' = "invalid_git_state" /\ pc' = "done"
                                   ELSE pc' = "status" /\ UNCHANGED verdict
    /\ UNCHANGED <<worktree, began, head, seen>>

\* A command may fail; a detached HEAD has no symbolic ref.
ReadBranch ==
    /\ pc = "branch"
    /\ branch' \in {current, None}
    /\ \/ /\ head = None \/ branch' = None
          /\ verdict' = "invalid_git_state" /\ pc' = "done"
       \/ /\ head # None /\ branch' \notin {None, Expected}
          /\ verdict' = "branch_ref_mismatch" /\ pc' = "done"
       \/ /\ head # None /\ branch' = Expected
          /\ pc' = "status" /\ UNCHANGED verdict
    /\ UNCHANGED <<worktree, began, head, seen>>

\* The command may fail, or leave half a record at the cut.
ReadStatus ==
    /\ pc = "status"
    /\ pc' = "done"
    /\ seen' = [current |-> current,
                tip |-> HeadCommit,
                changes |-> changes,
                moves |-> moves]
    /\ \/ \E records \in Truncations(changes) : verdict' = Classify(records)
       \/ verdict' = "invalid_git_state"
    /\ UNCHANGED <<worktree, began, head, branch>>

\* The next validation of the same worktree.
ValidateAgain ==
    /\ pc = "done"
    /\ pc' = "head" /\ head' = None /\ branch' = None /\ seen' = NotRead /\ verdict' = None
    /\ UNCHANGED <<worktree, began>>

(***************************************************************************)
(* The worktree.                                                           *)
(***************************************************************************)
\* git reports a path once, and a renamed file under its new name.
ChangeFile ==
    /\ Cardinality(changes) < MaxChanges
    /\ \E c \in Change :
          /\ c.path # c.source
          /\ \A d \in changes : c.path \notin {d.path, d.source} /\ c.source # d.path
          /\ changes' = changes \cup {c}
    /\ UNCHANGED <<current, tip, moves, validation>>

RevertFile ==
    /\ \E c \in changes : changes' = changes \ {c}
    /\ UNCHANGED <<current, tip, moves, validation>>

CommitAll ==
    /\ moves < MaxMoves /\ moves' = moves + 1
    /\ current # None /\ changes # {}
    /\ tip' = [tip EXCEPT ![current] = @ + 1]
    /\ changes' = {}
    /\ UNCHANGED <<current, validation>>

\* git keeps the changes when it switches branches.
Checkout ==
    /\ moves < MaxMoves /\ moves' = moves + 1
    /\ current' \in (Branch \cup {None}) \ {current}
    /\ UNCHANGED <<tip, changes, validation>>

Next ==
    \/ ReadHead \/ ReadBranch \/ ReadStatus \/ ValidateAgain
    \/ ChangeFile \/ RevertFile \/ CommitAll \/ Checkout

Spec == Init /\ [][Next]_vars

(***************************************************************************)
(* Properties.                                                             *)
(***************************************************************************)

\* Every variable keeps its type.
TypeOK ==
    /\ current \in Branch \cup {None}
    /\ tip \in [Branch -> 0 .. MaxMoves]
    /\ changes \subseteq Change
    /\ moves \in 0 .. MaxMoves /\ began \in 0 .. MaxMoves
    /\ pc \in {"head", "branch", "status", "done"}
    /\ head \in Commit \cup {None} /\ branch \in Branch \cup {None}
    /\ seen \in [current : Branch \cup {None}, tip : Commit \cup {None}, changes : SUBSET Change,
                moves : 0 .. MaxMoves]
    /\ verdict \in Classification \cup {None}

\* What git reported was not cut.
Fits == Cardinality(seen.changes) <= Limit

\* docs/EXECUTION.md:121-123 says only clean or wholly expected changes are
\* publishable: no path outside the allowlist, old names of renames included.  That is
\* true of a report that fits in the output limit; when it is cut (line 39), without a
\* word, only as many changes as fit are sure to be expected.
PublishableIsExpected ==
    verdict \in Publishable =>
        LET expected == {c \in seen.changes : {c.path, c.source} \ {None} \subseteq Allowed}
        IN  Cardinality(expected) >= IF Fits THEN Cardinality(seen.changes) ELSE Limit

\* A worktree is refused for a path only if that path is there: what a refusal for
\* unexpected changes blames was in the worktree when it was read.  The half of a path at
\* the cut of a longer report may be blamed instead.
RefusalHasACause ==
    /\ Fits /\ verdict = "unexpected_tracked_modifications" =>
          \E c \in seen.changes : c.kind = "tracked" /\ ~(({c.path, c.source} \ {None}) \subseteq Allowed)
    /\ Fits /\ verdict = "unexpected_untracked_paths" =>
          /\ \E c \in seen.changes : c.kind = "untracked" /\ c.path \notin Allowed
          /\ \A c \in seen.changes :
                c.kind = "tracked" => ({c.path, c.source} \ {None}) \subseteq Allowed

\* runtime/README.md:159 says ref mismatches and ambiguous state fail closed.  The
\* worktree found publishable was on the expected branch, at the reported HEAD, when its
\* status was read, provided nobody committed or switched branches between the three
\* reads (lines 77-91): the code itself does not notice when somebody does.
UndisturbedVerdictIsOfOneState ==
    verdict \in Publishable /\ seen.moves = began =>
        seen.current = Expected /\ branch = Expected /\ seen.tip = head
=============================================================================
