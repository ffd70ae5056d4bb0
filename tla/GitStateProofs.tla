---------------------------- MODULE GitStateProofs ----------------------------
(***************************************************************************)
(* GitState's type invariant and safety properties, for every set of       *)
(* branches and paths, every allowlist and every output limit.             *)
(***************************************************************************)
EXTENDS GitState, FiniteSetTheorems, TLAPS

\* The worktree: commits are counted by the moves.
WorktreeInv ==
    /\ IsFiniteSet(changes) /\ IsFiniteSet(seen.changes)
    /\ \A b \in Branch : tip[b] <= moves

\* What the reads found is still so, unless somebody moved.
ReadsInv ==
    /\ began <= moves
    /\ pc \in {"branch", "status"} /\ began = moves => head \in {HeadCommit, None}
    /\ pc = "status" => branch = Expected /\ head # None
    /\ pc = "status" /\ began = moves => current = Expected

\* A verdict is of what was seen.
VerdictInv ==
    /\ pc # "done" => verdict = None
    /\ \/ verdict \in {None, "invalid_git_state", "branch_ref_mismatch"}
       \/ /\ \E records \in Truncations(seen.changes) : verdict = Classify(records)
          /\ branch = Expected
          /\ seen.moves = began => seen.current = Expected /\ seen.tip = head

Inv == TypeOK /\ WorktreeInv /\ ReadsInv /\ VerdictInv

(***************************************************************************)
(* Facts about the classification.                                         *)
(***************************************************************************)
ExpectedOf(all) == {c \in all : {c.path, c.source} \ {None} \subseteq Allowed}

\* What each class says of the records.
LEMMA ClassifyFacts ==
    ASSUME NEW records
    PROVE  /\ Classify(records) \in Classification \ {"invalid_git_state", "branch_ref_mismatch"}
           /\ Classify(records) \in Publishable =>
                 Unexpected(records, "tracked") = {} /\ Unexpected(records, "untracked") = {}
           /\ Classify(records) = "unexpected_tracked_modifications" =>
                 Unexpected(records, "tracked") # {}
           /\ Classify(records) = "unexpected_untracked_paths" =>
                 Unexpected(records, "tracked") = {} /\ Unexpected(records, "untracked") # {}
  <1> DEFINE tracked == Unexpected(records, "tracked")
             untracked == Unexpected(records, "untracked")
  <1>1. Unexpected({}, "tracked") = {} /\ Unexpected({}, "untracked") = {}
    BY DEF Unexpected
  <1>2. CASE tracked # {}
    <2>1. Classify(records) = "unexpected_tracked_modifications"
      BY <1>1, <1>2 DEF Classify
    <2>2. QED
      BY <1>2, <2>1 DEF Classification, Publishable
  <1>3. CASE tracked = {} /\ untracked # {}
    <2>1. Classify(records) = "unexpected_untracked_paths"
      BY <1>1, <1>3 DEF Classify
    <2>2. QED
      BY <1>3, <2>1 DEF Classification, Publishable
  <1>4. CASE tracked = {} /\ untracked = {} /\ records # {}
    <2>1. Classify(records) = "expected_modifications"
      BY <1>4 DEF Classify
    <2>2. QED
      BY <1>4, <2>1 DEF Classification, Publishable
  <1>5. CASE records = {}
    <2>1. Classify(records) = "clean"
      BY <1>1, <1>5 DEF Classify
    <2>2. QED
      BY <1>1, <1>5, <2>1 DEF Classification, Publishable
  <1>6. QED
    BY <1>2, <1>3, <1>4, <1>5

\* A cut report still holds as many whole records as fit; one that fits is not cut.
LEMMA TruncationFacts ==
    ASSUME NEW all \in SUBSET Change, NEW records \in Truncations(all)
    PROVE  /\ Cardinality(all) <= Limit => records = all
           /\ ~(Cardinality(all) <= Limit) =>
                 \E kept \in SUBSET all : Cardinality(kept) = Limit /\ kept \subseteq records
  <1>1. CASE Cardinality(all) <= Limit
    BY <1>1 DEF Truncations
  <1>2. CASE ~(Cardinality(all) <= Limit)
    <2>1. \E kept \in WholeRecords(all) : kept \subseteq records
      BY <1>2 DEF Truncations
    <2>2. QED
      BY <1>2, <2>1 DEF WholeRecords
  <1>3. QED
    BY <1>1, <1>2

\* Records none of which is unexpected are expected.
LEMMA NoneUnexpected ==
    ASSUME NEW kept \in SUBSET Change, NEW records, kept \subseteq records,
           Unexpected(records, "tracked") = {}, Unexpected(records, "untracked") = {}
    PROVE  kept \subseteq ExpectedOf(kept)
  <1> SUFFICES ASSUME NEW c \in kept PROVE PathsOf(c) \subseteq Allowed
    BY DEF ExpectedOf, PathsOf
  <1>1. c.kind = "tracked" \/ c.kind = "untracked"
    BY DEF Change
  <1>2. QED
    BY <1>1 DEF Unexpected

(***************************************************************************)
(* The inductive invariant.                                                *)
(***************************************************************************)

\* It holds at first.
LEMMA InitInv == Init => Inv
  <1> SUFFICES ASSUME Init PROVE Inv
    OBVIOUS
  <1>1. TypeOK
    BY ConstantsAssumption DEF Init, TypeOK, NotRead
  <1>2. WorktreeInv
    BY FS_EmptySet DEF Init, WorktreeInv, NotRead
  <1>3. ReadsInv /\ VerdictInv
    BY DEF Init, ReadsInv, VerdictInv
  <1>4. QED
    BY <1>1, <1>2, <1>3 DEF Inv

\* HEAD is a commit, also of the branch that is expected.
LEMMA HeadType ==
    ASSUME TypeOK PROVE HeadCommit \in Commit
  <1>1. CASE current = None
    BY <1>1, ConstantsAssumption DEF HeadCommit, Commit
  <1>2. CASE current # None
    BY <1>2 DEF TypeOK, HeadCommit, Commit
  <1>3. QED
    BY <1>1, <1>2

\* The reads keep it.
LEMMA ReadStep ==
    ASSUME Inv, ReadHead \/ ReadBranch \/ ReadStatus \/ ValidateAgain PROVE Inv'
  <1>a. TypeOK /\ WorktreeInv /\ ReadsInv /\ VerdictInv
    BY DEF Inv
  <1>b. HeadCommit \in Commit /\ HeadCommit' = HeadCommit /\ UNCHANGED worktree
    BY <1>a, HeadType
    DEF HeadCommit, worktree, ReadHead, ReadBranch, ReadStatus, ValidateAgain
  <1>1. CASE ReadHead
    <2>1. TypeOK'
      BY <1>1, <1>a, <1>b DEF TypeOK, ReadHead, worktree
    <2>2. WorktreeInv' /\ ReadsInv'
      BY <1>1, <1>a, <1>b DEF TypeOK, WorktreeInv, ReadsInv, ReadHead, worktree
    <2>3. VerdictInv'
      BY <1>1, <1>a DEF VerdictInv, ReadHead
    <2>4. QED
      BY <2>1, <2>2, <2>3 DEF Inv
  <1>2. CASE ReadBranch
    <2>1. branch' \in Branch \cup {None} /\ verdict' \in Classification \cup {None}
      BY <1>2, <1>a DEF TypeOK, ReadBranch, Classification
    <2>2. TypeOK'
      BY <1>2, <1>a, <1>b, <2>1 DEF TypeOK, ReadBranch, worktree
    <2>3. WorktreeInv' /\ ReadsInv'
      BY <1>2, <1>a, <1>b, ConstantsAssumption
      DEF WorktreeInv, ReadsInv, ReadBranch, worktree
    <2>4. VerdictInv'
      BY <1>2, <1>a DEF VerdictInv, ReadBranch
    <2>5. QED
      BY <2>2, <2>3, <2>4 DEF Inv
  <1>3. CASE ReadStatus
    <2>1. /\ seen' = [current |-> current, tip |-> HeadCommit, changes |-> changes,
                      moves |-> moves]
          /\ seen' \in [current : Branch \cup {None}, tip : Commit \cup {None},
                        changes : SUBSET Change, moves : 0 .. MaxMoves]
      BY <1>3, <1>a, <1>b DEF TypeOK, ReadStatus
    <2>2. /\ pc' = "done" /\ UNCHANGED <<began, head, branch>>
          /\ \/ \E records \in Truncations(changes) : verdict' = Classify(records)
             \/ verdict' = "invalid_git_state"
      BY <1>3 DEF ReadStatus
    <2>3. verdict' \in Classification
      BY <2>2, ClassifyFacts DEF Classification
    <2>4. TypeOK'
      BY <1>a, <1>b, <2>1, <2>2, <2>3 DEF TypeOK, worktree
    <2>5. WorktreeInv' /\ ReadsInv'
      BY <1>a, <1>b, <2>1, <2>2 DEF WorktreeInv, ReadsInv, worktree
    <2>6. branch = Expected /\ (moves = began => current = Expected /\ HeadCommit = head)
      BY <1>3, <1>a DEF ReadStatus, ReadsInv
    <2>7. VerdictInv'
      BY <2>1, <2>2, <2>6 DEF VerdictInv
    <2>8. QED
      BY <2>4, <2>5, <2>7 DEF Inv
  <1>4. CASE ValidateAgain
    <2>1. TypeOK'
      BY <1>4, <1>a, <1>b, ConstantsAssumption DEF TypeOK, NotRead, ValidateAgain, worktree
    <2>2. WorktreeInv' /\ ReadsInv'
      BY <1>4, <1>a, <1>b, FS_EmptySet
      DEF WorktreeInv, ReadsInv, NotRead, ValidateAgain, worktree
    <2>3. VerdictInv'
      BY <1>4 DEF VerdictInv, ValidateAgain
    <2>4. QED
      BY <2>1, <2>2, <2>3 DEF Inv
  <1>5. QED
    BY <1>1, <1>2, <1>3, <1>4

\* Whoever works in the worktree keeps it: a move makes what was read old.
LEMMA WorktreeStep ==
    ASSUME Inv, ChangeFile \/ RevertFile \/ CommitAll \/ Checkout PROVE Inv'
  <1>a. TypeOK /\ WorktreeInv /\ ReadsInv /\ VerdictInv /\ moves \in Nat /\ began \in Nat
    BY ConstantsAssumption DEF Inv, TypeOK
  <1>b. UNCHANGED validation
    BY DEF ChangeFile, RevertFile, CommitAll, Checkout
  <1>1. CASE ChangeFile \/ RevertFile
    <2>1. UNCHANGED <<current, tip, moves>>
      BY <1>1 DEF ChangeFile, RevertFile
    <2>2. PICK c \in Change : changes' = changes \cup {c} \/ changes' = changes \ {c}
      BY <1>1, <1>a DEF ChangeFile, RevertFile, TypeOK
    <2>3. changes' \subseteq Change /\ IsFiniteSet(changes')
      BY <1>a, <2>2, FS_AddElement, FS_RemoveElement DEF TypeOK, WorktreeInv
    <2>4. TypeOK' /\ WorktreeInv'
      BY <1>a, <1>b, <2>1, <2>3 DEF TypeOK, WorktreeInv, validation
    <2>5. ReadsInv' /\ VerdictInv'
      BY <1>a, <1>b, <2>1 DEF ReadsInv, VerdictInv, HeadCommit, validation
    <2>6. QED
      BY <2>4, <2>5 DEF Inv
  <1>2. CASE CommitAll \/ Checkout
    <2>1. moves' = moves + 1 /\ moves' \in 0 .. MaxMoves
      BY <1>2, <1>a, ConstantsAssumption DEF CommitAll, Checkout
    <2>2. /\ current' \in Branch \cup {None}
          /\ tip' \in [Branch -> 0 .. MaxMoves] /\ \A b \in Branch : tip'[b] <= moves'
      <3>1. CASE CommitAll
        <4>1. /\ current \in Branch /\ current' = current
              /\ tip' = [tip EXCEPT ![current] = @ + 1]
          BY <3>1, <1>a DEF CommitAll, TypeOK
        <4>2. tip[current] \in Nat /\ tip[current] <= moves
          BY <1>a, <4>1 DEF WorktreeInv, TypeOK
        <4>3. tip[current] + 1 \in 0 .. MaxMoves
          BY <1>a, <2>1, <4>2, ConstantsAssumption
        <4>4. QED
          BY <1>a, <2>1, <4>1, <4>3 DEF WorktreeInv, TypeOK
      <3>2. CASE Checkout
        BY <3>2, <1>a, <2>1 DEF Checkout, WorktreeInv, TypeOK
      <3>3. QED
        BY <1>2, <3>1, <3>2
    <2>3. changes' \subseteq Change /\ IsFiniteSet(changes')
      BY <1>2, <1>a, FS_EmptySet DEF CommitAll, Checkout, TypeOK, WorktreeInv
    <2>4. TypeOK' /\ WorktreeInv'
      BY <1>a, <1>b, <2>1, <2>2, <2>3 DEF TypeOK, WorktreeInv, validation
    <2>5. began <= moves' /\ began # moves'
      BY <1>a, <2>1 DEF ReadsInv
    <2>6. ReadsInv' /\ VerdictInv'
      BY <1>a, <1>b, <2>5 DEF ReadsInv, VerdictInv, validation
    <2>7. QED
      BY <2>4, <2>6 DEF Inv
  <1>3. QED
    BY <1>1, <1>2

\* Every step keeps it.
LEMMA NextInv == Inv /\ [Next]_vars => Inv'
  <1> SUFFICES ASSUME Inv, [Next]_vars PROVE Inv'
    OBVIOUS
  <1>1. CASE Next
    BY <1>1, ReadStep, WorktreeStep DEF Next
  <1>2. CASE UNCHANGED vars
    BY <1>2
    DEF Inv, TypeOK, WorktreeInv, ReadsInv, VerdictInv, HeadCommit, vars, worktree, validation
  <1>3. QED
    BY <1>1, <1>2

\* It holds of every state of every behaviour.
LEMMA InvAlways == Spec => []Inv
  BY InitInv, NextInv, PTL DEF Spec

(***************************************************************************)
(* Theorems.                                                               *)
(***************************************************************************)

\* Every variable keeps its type.
THEOREM TypeCorrect == Spec => []TypeOK
  <1>1. Inv => TypeOK
    BY DEF Inv
  <1>2. QED
    BY <1>1, InvAlways, PTL

\* A verdict other than the two that the reads alone can give is a classification of what
\* was seen.
LEMMA VerdictFacts ==
    ASSUME Inv, verdict \notin {None, "invalid_git_state", "branch_ref_mismatch"}
    PROVE  /\ seen.changes \in SUBSET Change /\ IsFiniteSet(seen.changes)
           /\ branch = Expected
           /\ seen.moves = began => seen.current = Expected /\ seen.tip = head
           /\ \E records \in Truncations(seen.changes) : verdict = Classify(records)
  BY DEF Inv, TypeOK, WorktreeInv, VerdictInv

\* A worktree that is publishable was the expected branch at the reported HEAD, if nobody
\* moved it between the reads.
THEOREM UndisturbedVerdict == Spec => []UndisturbedVerdictIsOfOneState
  <1>1. Inv => UndisturbedVerdictIsOfOneState
    BY VerdictFacts, VerdictAssumption
    DEF UndisturbedVerdictIsOfOneState, Publishable, Classification
  <1>2. QED
    BY <1>1, InvAlways, PTL

\* Nothing outside the allowlist is published, as far as the report reached.
THEOREM PublishableExpected == Spec => []PublishableIsExpected
  <1>1. ASSUME Inv, verdict \in Publishable PROVE PublishableIsExpected
    <2>1. /\ seen.changes \in SUBSET Change /\ IsFiniteSet(seen.changes)
          /\ \E records \in Truncations(seen.changes) : verdict = Classify(records)
      BY <1>1, VerdictFacts, VerdictAssumption DEF Publishable, Classification
    <2>2. PICK records \in Truncations(seen.changes) : verdict = Classify(records)
      BY <2>1
    <2>3. Unexpected(records, "tracked") = {} /\ Unexpected(records, "untracked") = {}
      BY <1>1, <2>2, ClassifyFacts
    <2>4. /\ IsFiniteSet(ExpectedOf(seen.changes))
          /\ Cardinality(ExpectedOf(seen.changes)) \in Nat
      BY <2>1, FS_Subset, FS_CardinalityType DEF ExpectedOf
    <2>5. CASE Fits
      <3>1. records = seen.changes
        BY <2>1, <2>2, <2>5, TruncationFacts DEF Fits
      <3>2. ExpectedOf(seen.changes) = seen.changes
        BY <2>1, <2>3, <3>1, NoneUnexpected DEF ExpectedOf
      <3>3. Cardinality(ExpectedOf(seen.changes)) >= Cardinality(seen.changes)
        BY <2>4, <3>2
      <3>4. QED
        BY <2>5, <3>3 DEF PublishableIsExpected, ExpectedOf
    <2>6. CASE ~Fits
      <3>1. PICK kept \in SUBSET seen.changes : Cardinality(kept) = Limit /\ kept \subseteq records
        BY <2>1, <2>2, <2>6, TruncationFacts DEF Fits
      <3>2. kept \subseteq ExpectedOf(seen.changes)
        BY <2>1, <2>3, <3>1, NoneUnexpected DEF ExpectedOf
      <3>3. Limit <= Cardinality(ExpectedOf(seen.changes))
        BY <2>4, <3>1, <3>2, FS_Subset
      <3>4. QED
        BY <2>4, <2>6, <3>3, ConstantsAssumption DEF PublishableIsExpected, ExpectedOf
    <2>7. QED
      BY <2>5, <2>6
  <1>2. Inv => PublishableIsExpected
    BY <1>1 DEF PublishableIsExpected
  <1>3. QED
    BY <1>2, InvAlways, PTL

\* What a refusal blames is there, if the report was not cut.
THEOREM RefusalCaused == Spec => []RefusalHasACause
  <1>1. ASSUME Inv, Fits,
               verdict \in {"unexpected_tracked_modifications", "unexpected_untracked_paths"}
        PROVE  /\ seen.changes \in SUBSET Change /\ verdict = Classify(seen.changes)
    <2>1. /\ seen.changes \in SUBSET Change
          /\ \E records \in Truncations(seen.changes) : verdict = Classify(records)
      BY <1>1, VerdictFacts, VerdictAssumption DEF Classification
    <2>2. QED
      BY <1>1, <2>1, TruncationFacts DEF Fits
  <1>2. Inv => RefusalHasACause
    <2>1. ASSUME Inv, Fits, verdict = "unexpected_tracked_modifications"
          PROVE  \E c \in seen.changes :
                    c.kind = "tracked" /\ ~(({c.path, c.source} \ {None}) \subseteq Allowed)
      <3>1. Unexpected(seen.changes, "tracked") # {}
        BY <1>1, <2>1, ClassifyFacts
      <3>2. QED
        BY <3>1 DEF Unexpected, PathsOf
    <2>2. ASSUME Inv, Fits, verdict = "unexpected_untracked_paths"
          PROVE  /\ \E c \in seen.changes : c.kind = "untracked" /\ c.path \notin Allowed
                 /\ \A c \in seen.changes :
                       c.kind = "tracked" => ({c.path, c.source} \ {None}) \subseteq Allowed
      <3>1. /\ Unexpected(seen.changes, "tracked") = {}
            /\ Unexpected(seen.changes, "untracked") # {}
            /\ seen.changes \in SUBSET Change
        BY <1>1, <2>2, ClassifyFacts
      <3>2. PICK c \in seen.changes : c.kind = "untracked" /\ ~(PathsOf(c) \subseteq Allowed)
        BY <3>1 DEF Unexpected
      <3>3. c.source = None
        BY <3>1, <3>2 DEF Change
      <3>4. c.path \notin Allowed
        BY <3>2, <3>3 DEF PathsOf
      <3>5. QED
        BY <3>1, <3>2, <3>4 DEF Unexpected, PathsOf
    <2>3. QED
      BY <2>1, <2>2 DEF RefusalHasACause
  <1>3. QED
    BY <1>2, InvAlways, PTL
=============================================================================
