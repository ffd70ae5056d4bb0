--------------------------- MODULE AcceptanceProofs ---------------------------
(***************************************************************************)
(* Acceptance's safety properties, for every number of checkpoints, every  *)
(* queue to start from, every set of closures derived from their parent    *)
(* and any number of commits, decisions and changes.                       *)
(***************************************************************************)
EXTENDS Acceptance, FiniteSetTheorems, WellFoundedInduction, TLAPS

AnswerType == [checkpoint : Checkpoint \cup {None}, decision : DecisionKind,
               selection : Checkpoint \cup {None}, supervisor : BOOLEAN,
               accepted : BOOLEAN]

\* A closure that nothing was pushed on top of is the commit right above its parent.
ClosureOnTop ==
    \A c \in Checkpoint :
        Files(items[c].closure) = {"queue"} => items[c].head = items[c].closure.parent + 1

Inv == TypeOK /\ ClosureOnTop

(***************************************************************************)
(* Least and greatest members.                                             *)
(***************************************************************************)

\* The sets 0 .. x are finite, so one of them contains no other.
LEMMA MinExists ==
  ASSUME NEW S \in SUBSET Nat, S # {}
  PROVE  Min(S) \in S /\ \A y \in S : Min(S) <= y
  <1> DEFINE T == {0 .. x : x \in S}
  <1>1. IsWellFoundedOn(StrictSubsetOrdering(Nat), FiniteSubsetsOf(Nat))
    BY FS_StrictSubsetOrderingWellFounded
  <1>2. T \subseteq FiniteSubsetsOf(Nat) /\ T # {}
    <2>1. ASSUME NEW x \in S  PROVE 0 .. x \in FiniteSubsetsOf(Nat)
      <3>1. IsFiniteSet(0 .. x)
        BY FS_Interval
      <3>2. 0 .. x \in SUBSET Nat
        OBVIOUS
      <3>3. QED
        BY <3>1, <3>2 DEF FiniteSubsetsOf
    <2>2. QED
      BY <2>1
  <1>3. PICK t \in T : \A u \in T : ~ (<<u, t>> \in StrictSubsetOrdering(Nat))
    <2> HIDE DEF T
    <2>1. QED
      BY <1>1, <1>2, WFMin, Zenon
  <1>4. PICK x \in S : t = 0 .. x
    BY DEF T
  <1>5. \A y \in S : x <= y
    <2>1. SUFFICES ASSUME NEW y \in S, y < x  PROVE FALSE
      OBVIOUS
    <2>2. 0 .. y \subseteq 0 .. x /\ 0 .. y # 0 .. x /\ 0 .. y \in T
      BY <2>1
    <2>3. <<0 .. y, 0 .. x>> \in StrictSubsetOrdering(Nat)
      BY <2>2 DEF StrictSubsetOrdering
    <2>4. QED
      BY <1>3, <1>4, <2>2, <2>3
  <1>6. QED
    BY <1>5 DEF Min

LEMMA MaxExists ==
  ASSUME NEW N \in Nat, NEW S \in SUBSET (1 .. N), S # {}
  PROVE  Max(S) \in S
  <1> DEFINE R == {N - x : x \in S}
  <1>1. R \in SUBSET Nat /\ R # {}
    <2>1. \A x \in S : N - x \in Nat
      OBVIOUS
    <2>2. QED
      BY <2>1
  <1>2. Min(R) \in R /\ \A y \in R : Min(R) <= y
    <2> HIDE DEF R
    <2>1. QED
      BY <1>1, MinExists
  <1>3. PICK x \in S : Min(R) = N - x
    BY <1>2
  <1>4. \A y \in S : x >= y
    <2>1. SUFFICES ASSUME NEW y \in S PROVE x >= y
      OBVIOUS
    <2>2. N - y \in R
      OBVIOUS
    <2>3. N - x <= N - y
      BY <1>2, <1>3, <2>2
    <2>4. QED
      BY <2>3
  <1>5. QED
    BY <1>4 DEF Max

(***************************************************************************)
(* Facts about the oracles.                                                *)
(***************************************************************************)

\* The HEAD of a valid approval is the one the approved base names, and the approval
\* stands by the rule of the production finalizer as well.
LEMMA ApprovedFacts ==
  ASSUME NEW item \in Item, ApprovedHead(item) # None
  PROVE  /\ ApprovedHead(item) = Base(item)
         /\ Finalizer!ApprovalStands(item.decisions, ApprovedHead(item))
  <1> DEFINE latest == Max(Approvals(item))
  <1>1. item.decisions \in Seq(Decision) /\ Len(item.decisions) \in Nat
    BY DEF Item
  <1>2. Approvals(item) \in SUBSET (1 .. Len(item.decisions)) /\ Approvals(item) # {}
    BY <1>1 DEF Approvals, ApprovedHead
  <1>3. latest \in Approvals(item)
    BY <1>1, <1>2, MaxExists
  <1> HIDE DEF latest
  <1>4. /\ ~ \E n \in DOMAIN item.decisions :
              n > latest /\ item.decisions[n].decision # "APPROVED"
        /\ item.decisions[latest].head = Base(item)
        /\ ApprovedHead(item) = item.decisions[latest].head
    BY DEF ApprovedHead, latest
  <1>5. latest \in 1 .. Len(item.decisions) /\ item.decisions[latest].decision = "APPROVED"
    BY <1>1, <1>3 DEF Approvals
  <1>6. Finalizer!ApprovalStands(item.decisions, ApprovedHead(item))
    BY <1>1, <1>4, <1>5
    DEF Finalizer!ApprovalStands, Finalizer!StandsAt, Finalizer!Approves, Finalizer!Invalidates
  <1>7. QED
    BY <1>4, <1>6

\* A checkpoint that is selected can be worked on or merged, and is the first of its tier;
\* none is selected only when there is none of these.
LEMMA SelectionIsFirst ==
  ASSUME NEW I \in [Checkpoint -> Item]
  PROVE  /\ Selection(I) \in Checkpoint \cup {None}
         /\ Selection(I) # None => Tier(I[Selection(I)]) # 5
         /\ \A c \in Checkpoint :
               Tier(I[c]) # 5 =>
                  /\ Selection(I) # None /\ Tier(I[Selection(I)]) <= Tier(I[c])
                  /\ Tier(I[Selection(I)]) = Tier(I[c]) => Selection(I) <= c
  <1> DEFINE tiers == {Tier(I[c]) : c \in Checkpoint}
             best == Min(tiers)
             first == {c \in Checkpoint : Tier(I[c]) = best}
  <1>1. \A c \in Checkpoint : Tier(I[c]) \in 1 .. 5
    BY DEF Tier
  <1>2. 1 \in Checkpoint /\ Checkpoint \subseteq Nat
    BY CheckpointsAssumption DEF Checkpoint
  <1>3. tiers \in SUBSET Nat /\ tiers # {}
    BY <1>1, <1>2
  <1>4. best \in tiers /\ \A t \in tiers : best <= t
    <2> HIDE DEF tiers
    <2>1. QED
      BY <1>3, MinExists
  <1>5. first \in SUBSET Nat /\ first # {}
    BY <1>2, <1>4
  <1>6. Min(first) \in first /\ \A c \in first : Min(first) <= c
    <2> HIDE DEF first
    <2>1. QED
      BY <1>5, MinExists
  <1>7. Selection(I) = IF best = 5 THEN None ELSE Min(first)
    BY DEF Selection
  <1>8. best \in 1 .. 5 /\ \A c \in Checkpoint : best <= Tier(I[c])
    <2> HIDE DEF best
    <2>1. QED
      BY <1>1, <1>4
  <1>9. Min(first) \in Checkpoint /\ Tier(I[Min(first)]) = best
    <2> HIDE DEF best
    <2>1. QED
      BY <1>6
  <1>10. \A c \in Checkpoint : Tier(I[c]) = best => Min(first) <= c
    <2> HIDE DEF best
    <2>1. QED
      BY <1>6
  <1>11. /\ best \in 1 .. 5 /\ \A c \in Checkpoint : best <= Tier(I[c])
        /\ Min(first) \in Checkpoint /\ Min(first) # None /\ Tier(I[Min(first)]) = best
        /\ \A c \in Checkpoint : Tier(I[c]) = best => Min(first) <= c
    <2> HIDE DEF best, first
    <2>1. QED
      BY <1>8, <1>9, <1>10 DEF Checkpoint, None
  <1> HIDE DEF best, first
  <1>12. CASE best = 5
    <2>1. \A c \in Checkpoint : Tier(I[c]) = 5
      BY <1>1, <1>11, <1>12
    <2>2. QED
      BY <1>7, <1>12, <2>1
  <1>13. CASE best # 5
    <2>1. Selection(I) = Min(first)
      BY <1>7, <1>13
    <2>2. QED
      BY <1>11, <1>13, <2>1
  <1>14. QED
    BY <1>12, <1>13

\* What most proofs need of that.
LEMMA SelectionFacts ==
  ASSUME NEW I \in [Checkpoint -> Item]
  PROVE  /\ Selection(I) \in Checkpoint \cup {None}
         /\ Selection(I) # None => Tier(I[Selection(I)]) # 5
  BY SelectionIsFirst

\* What an evaluation of the checkpoints does to one of them: it changes the state only,
\* starts what may be started and merges what may be merged.
Advanced(before, after, c) ==
    /\ after.gate = before.gate /\ after.head = before.head
    /\ after.decisions = before.decisions /\ after.approved_base = before.approved_base
    /\ after.closure = before.closure /\ after.eligible = before.eligible
    /\ after.state # before.state =>
          \/ before.state = "AI_REWORK" /\ after.state = "WORKING"
          \/ before.state = "READY" /\ before.gate = "AI" /\ after.state = "WORKING"
          \/ before.state = "AI_REVIEW" /\ MergeExecutable(c, before) /\ after.state = "DONE"

LEMMA EvaluatedFacts ==
  ASSUME NEW I \in [Checkpoint -> Item]
  PROVE  /\ Evaluated(I, Selection(I)) \in [Checkpoint -> Item]
         /\ \A c \in Checkpoint : Advanced(I[c], Evaluated(I, Selection(I))[c], c)
         /\ Merges(I, Selection(I)) => Evaluated(I, Selection(I))[Selection(I)].state = "DONE"
  <1> SUFFICES ASSUME NEW s, s = Selection(I)
               PROVE  /\ Evaluated(I, s) \in [Checkpoint -> Item]
                      /\ \A c \in Checkpoint : Advanced(I[c], Evaluated(I, s)[c], c)
                      /\ Merges(I, s) => Evaluated(I, s)[s].state = "DONE"
    OBVIOUS
  <1> DEFINE E == Evaluated(I, s)
  <1>1. s \in Checkpoint \cup {None} /\ (s # None => Tier(I[s]) # 5)
    BY SelectionFacts
  <1>a. \A c \in Checkpoint : c # None
    BY DEF Checkpoint, None
  <1>b. ASSUME s \in Checkpoint, NEW st \in State
        PROVE  /\ [I EXCEPT ![s].state = st] \in [Checkpoint -> Item]
               /\ [I EXCEPT ![s].state = st][s].state = st
    <2>1. I[s] \in Item
      BY <1>b
    <2>2. [I[s] EXCEPT !.state = st] \in Item /\ [I[s] EXCEPT !.state = st].state = st
      BY <1>b, <2>1 DEF Item
    <2>3. QED
      BY <1>b, <2>2
  <1>2. CASE s # None /\ I[s].state \in {"AI_REWORK", "READY"}
    <2>3. ~Merges(I, s)
      BY <1>2 DEF Merges
    <2>1. E = [I EXCEPT ![s].state = "WORKING"]
      BY <1>2, <2>3 DEF Evaluated
    <2>2. I[s].state = "READY" => I[s].gate = "AI"
      BY <1>1, <1>2 DEF Tier
    <2>4. E \in [Checkpoint -> Item]
      <3>1. s \in Checkpoint /\ "WORKING" \in State
        BY <1>1, <1>2 DEF State
      <3>2. QED
        BY <1>b, <2>1, <3>1
    <2>5. ASSUME NEW c \in Checkpoint PROVE Advanced(I[c], E[c], c)
      BY <1>1, <1>2, <2>1, <2>2 DEF Advanced, Item
    <2>6. QED
      BY <2>3, <2>4, <2>5
  <1>3. CASE Merges(I, s)
    <2>1. E = [I EXCEPT ![s].state = "DONE"]
      <3>1. I[s].state \notin {"AI_REWORK", "READY"}
        BY <1>3 DEF Merges
      <3>2. QED
        BY <1>3, <3>1 DEF Evaluated
    <2>2. s \in Checkpoint
      BY <1>1, <1>3 DEF Merges
    <2>3. "DONE" \in State
      BY DEF State
    <2>6. E \in [Checkpoint -> Item]
      BY <1>b, <2>1, <2>2, <2>3
    <2>4. ASSUME NEW c \in Checkpoint PROVE Advanced(I[c], E[c], c)
      BY <1>3, <2>1, <2>2 DEF Advanced, Item, Merges
    <2>5. E[s].state = "DONE"
      BY <1>b, <2>1, <2>2, <2>3
    <2>7. QED
      BY <2>4, <2>5, <2>6
  <1>4. CASE ~(s # None /\ I[s].state \in {"AI_REWORK", "READY"}) /\ ~Merges(I, s)
    <2>1. E = I
      BY <1>4 DEF Evaluated
    <2>2. QED
      BY <1>4, <2>1 DEF Advanced
  <1>5. QED
    BY <1>2, <1>3, <1>4

(***************************************************************************)
(* Facts about the protocol.                                               *)
(***************************************************************************)

\* A closure that is presented changes the approved base, the HEAD and the diff.
LEMMA PresentedFacts ==
  ASSUME TypeOK, NEW c \in Checkpoint, NEW decision \in Decision, NEW closure \in Closure
  PROVE  /\ Presented(c, decision, closure) \in [Checkpoint -> Item]
         /\ LET before == items[c]
                after == Presented(c, decision, closure)[c]
            IN  /\ after.approved_base = decision.head /\ after.head = before.head + 1
                /\ after.closure = closure /\ after.decisions = before.decisions
                /\ after.state = before.state /\ after.gate = before.gate
                /\ after.eligible = before.eligible
         /\ \A d \in Checkpoint \ {c} : Presented(c, decision, closure)[d] = items[d]
  <1>1. items \in [Checkpoint -> Item] /\ items[c] \in Item
    BY DEF TypeOK
  <1>2. decision.head \in Commit
    BY DEF Decision
  <1>3. items[c].head \in Commit /\ items[c].head + 1 \in Commit
    BY <1>1 DEF Item, Commit
  <1> DEFINE new == [items[c] EXCEPT !.approved_base = decision.head, !.head = @ + 1,
                                     !.closure = closure]
  <1>4. /\ new \in Item
        /\ new.approved_base = decision.head /\ new.head = items[c].head + 1
        /\ new.closure = closure /\ new.decisions = items[c].decisions
        /\ new.state = items[c].state /\ new.gate = items[c].gate
        /\ new.eligible = items[c].eligible
    BY <1>1, <1>2, <1>3 DEF Item
  <1>5. Presented(c, decision, closure) = [items EXCEPT ![c] = new]
    BY <1>1 DEF Presented
  <1> HIDE DEF new
  <1>6. QED
    BY <1>1, <1>4, <1>5

\* A decision that is recorded adds to the list and may change the state.
LEMMA RecordedFacts ==
  ASSUME TypeOK, reviewing # Nobody
  PROVE  /\ reviewing.checkpoint \in Checkpoint
         /\ Recorded(reviewing, reviewing.head) \in [Checkpoint -> Item]
         /\ \A c \in Checkpoint \ {reviewing.checkpoint} :
               Recorded(reviewing, reviewing.head)[c] = items[c]
         /\ LET before == items[reviewing.checkpoint]
                after == Recorded(reviewing, reviewing.head)[reviewing.checkpoint]
            IN  /\ after.decisions = Append(before.decisions, [decision |-> reviewing.value,
                                                              head |-> reviewing.head])
                /\ after.head = before.head /\ after.closure = before.closure
                /\ after.state \in {before.state, "AI_REWORK", "HUMAN_REQUIRED"}
  <1> DEFINE r == reviewing
             new == [items[r.checkpoint] EXCEPT
                        !.decisions = Append(@, [decision |-> r.value, head |-> r.head]),
                        !.state = StateAfter(r.value, @)]
  <1>1. /\ r.checkpoint \in Checkpoint /\ r.head \in Commit /\ r.value \in DecisionKind
        /\ items \in [Checkpoint -> Item]
    BY DEF TypeOK
  <1>2. items[r.checkpoint] \in Item
    BY <1>1
  <1>3. [decision |-> r.value, head |-> r.head] \in Decision
    BY <1>1 DEF Decision
  <1>4. StateAfter(r.value, items[r.checkpoint].state)
           \in {items[r.checkpoint].state, "AI_REWORK", "HUMAN_REQUIRED"}
    BY <1>1 DEF StateAfter, DecisionKind
  <1>5. Append(items[r.checkpoint].decisions, [decision |-> r.value, head |-> r.head])
           \in Seq(Decision)
    BY <1>2, <1>3 DEF Item
  <1>6. StateAfter(r.value, items[r.checkpoint].state) \in State
    BY <1>2, <1>4 DEF Item, State
  <1>7. /\ new \in Item /\ new.state = StateAfter(r.value, items[r.checkpoint].state)
        /\ new.decisions = Append(items[r.checkpoint].decisions,
                                  [decision |-> r.value, head |-> r.head])
        /\ new.head = items[r.checkpoint].head
        /\ new.closure = items[r.checkpoint].closure
    BY <1>2, <1>5, <1>6 DEF Item
  <1>8. Recorded(r, r.head) = [items EXCEPT ![r.checkpoint] = new]
    BY <1>1 DEF Recorded
  <1> HIDE DEF new
  <1>9. QED
    BY <1>1, <1>4, <1>7, <1>8

\* What the boundary does: the closure is presented, then the heartbeat evaluates.
LEMMA CloseFacts ==
  ASSUME TypeOK, NEW c \in Checkpoint, NEW n \in DOMAIN items[c].decisions,
         NEW closure \in Offered(c, items[c].head),
         Close(c, items[c].decisions[n], closure)
  PROVE  LET decision == items[c].decisions[n]
             presented == Presented(c, decision, closure)
             selection == Selection(presented)
             supervisor == MechanicalClosurePreservesReview(c, decision, closure)
         IN  /\ decision \in Decision /\ closure \in Closure /\ closure.parent = items[c].head
             /\ presented \in [Checkpoint -> Item]
             /\ presented[c].approved_base = decision.head
             /\ presented[c].head = items[c].head + 1 /\ presented[c].closure = closure
             /\ presented[c].decisions = items[c].decisions
             /\ presented[c].state = items[c].state /\ presented[c].gate = items[c].gate
             /\ \A d \in Checkpoint \ {c} : presented[d] = items[d]
             /\ items' \in [Checkpoint -> Item]
             /\ \A d \in Checkpoint : Advanced(presented[d], items'[d], d)
             /\ Merges(presented, selection) => items'[selection].state = "DONE"
             /\ answer' = [checkpoint |-> c, decision |-> decision.decision,
                           selection |-> selection, supervisor |-> supervisor,
                           accepted |-> supervisor /\ Merges(presented, selection)]
             /\ UNCHANGED <<selected, reviewing, changes>>
  <1> DEFINE decision == items[c].decisions[n]
             presented == Presented(c, decision, closure)
             selection == Selection(presented)
  <1>1. items[c] \in Item
    BY DEF TypeOK
  <1>2. decision \in Decision /\ items[c].head \in 1 .. MaxHead[c]
    BY <1>1, AcceptanceAssumption DEF Item, Close, Commit
  <1>3. closure \in Closure /\ closure.parent = items[c].head
    BY <1>2, AcceptanceAssumption
  <1>4. /\ items' = Evaluated(presented, selection)
        /\ answer' = [checkpoint |-> c, decision |-> decision.decision,
                      selection |-> selection,
                      supervisor |-> MechanicalClosurePreservesReview(c, decision, closure),
                      accepted |-> /\ MechanicalClosurePreservesReview(c, decision, closure)
                                   /\ Merges(presented, selection)]
        /\ UNCHANGED <<selected, reviewing, changes>>
    BY DEF Close
  <1> HIDE DEF decision
  <1>5. /\ presented \in [Checkpoint -> Item]
        /\ presented[c].approved_base = decision.head
        /\ presented[c].head = items[c].head + 1 /\ presented[c].closure = closure
        /\ presented[c].decisions = items[c].decisions
        /\ presented[c].state = items[c].state /\ presented[c].gate = items[c].gate
        /\ \A d \in Checkpoint \ {c} : presented[d] = items[d]
    BY <1>2, <1>3, PresentedFacts
  <1> HIDE DEF presented
  <1>6. /\ items' \in [Checkpoint -> Item]
        /\ \A d \in Checkpoint : Advanced(presented[d], items'[d], d)
        /\ Merges(presented, selection) => items'[selection].state = "DONE"
    BY <1>4, <1>5, EvaluatedFacts
  <1>7. QED
    BY <1>2, <1>3, <1>4, <1>5, <1>6 DEF decision, presented

\* It holds at the start.
LEMMA InitInv == Init => Inv
  <1> SUFFICES ASSUME Init PROVE Inv
    OBVIOUS
  <1>1. PICK queue \in Queues :
          items = [c \in Checkpoint |->
                      [state |-> queue[c].state, gate |-> queue[c].gate, head |-> 1,
                       decisions |-> <<>>, approved_base |-> None, closure |-> NoClosure,
                       eligible |-> TRUE]]
    BY DEF Init
  <1>2. NoClosure \in Closure /\ Files(NoClosure) = {}
    BY CheckpointsAssumption DEF NoClosure, Files, Closure, Checkpoint, Commit
  <1>3. ASSUME NEW c \in Checkpoint PROVE items[c] \in Item /\ items[c].closure = NoClosure
    <2>1. queue[c].state \in State /\ queue[c].gate \in Gate
      BY AcceptanceAssumption, <1>1 DEF State, Gate
    <2>2. items[c] = [state |-> queue[c].state, gate |-> queue[c].gate, head |-> 1,
                      decisions |-> <<>>, approved_base |-> None, closure |-> NoClosure,
                      eligible |-> TRUE]
      BY <1>1
    <2>3. QED
      BY <1>2, <2>1, <2>2 DEF Item, Commit, None
  <1>4. TypeOK
    <2>1. items \in [Checkpoint -> Item]
      BY <1>1, <1>3
    <2>2. answer \in [checkpoint : Checkpoint \cup {None}, decision : DecisionKind,
                      selection : Checkpoint \cup {None}, supervisor : BOOLEAN,
                      accepted : BOOLEAN]
      BY DEF Init, NoAnswer, DecisionKind
    <2>3. QED
      BY <2>1, <2>2 DEF Init, TypeOK
  <1>5. ClosureOnTop
    BY <1>2, <1>3 DEF ClosureOnTop
  <1>6. QED
    BY <1>4, <1>5 DEF Inv

\* Every step keeps it.
LEMMA NextInv == Inv /\ [Next]_vars => Inv'
  <1> SUFFICES ASSUME Inv, [Next]_vars PROVE Inv'
    OBVIOUS
  <1>1. /\ items \in [Checkpoint -> Item] /\ selected \in Checkpoint \cup {None}
        /\ reviewing \in [checkpoint : Checkpoint, head : Commit, value : DecisionKind]
                            \cup {Nobody}
        /\ answer \in AnswerType /\ changes \in [Checkpoint -> Nat]
        /\ TypeOK /\ ClosureOnTop
    BY DEF Inv, TypeOK, AnswerType
  <1>2. NoAnswer \in AnswerType
    BY DEF NoAnswer, AnswerType, DecisionKind
  <1>3. CASE NewInvocation
    BY <1>1, <1>2, <1>3 DEF Inv, TypeOK, AnswerType, ClosureOnTop, NewInvocation
  <1>4. CASE Heartbeat
    <2>1. /\ items' = Evaluated(items, Selection(items))
          /\ selected' \in {Selection(items), selected}
          /\ answer' = NoAnswer /\ UNCHANGED <<reviewing, changes>>
      BY <1>4 DEF Heartbeat
    <2>2. Selection(items) \in Checkpoint \cup {None}
      BY <1>1, SelectionFacts
    <2>3. /\ items' \in [Checkpoint -> Item]
          /\ \A c \in Checkpoint : Advanced(items[c], items'[c], c)
      BY <1>1, <2>1, EvaluatedFacts
    <2>4. TypeOK'
      BY <1>1, <1>2, <2>1, <2>2, <2>3 DEF TypeOK, AnswerType
    <2>5. ClosureOnTop'
      BY <1>1, <2>3 DEF ClosureOnTop, Advanced
    <2>6. QED
      BY <2>4, <2>5 DEF Inv
  <1>5. CASE WorkerResult
    <2>1. /\ selected \in Checkpoint /\ answer' = NoAnswer
          /\ items' = [items EXCEPT ![selected] = [items[selected] EXCEPT !.state = "AI_REVIEW"]]
          /\ UNCHANGED <<selected, reviewing, changes>>
      BY <1>1, <1>5 DEF WorkerResult
    <2>2. [items[selected] EXCEPT !.state = "AI_REVIEW"] \in Item
      BY <1>1, <2>1 DEF Item, State
    <2>3. TypeOK'
      BY <1>1, <1>2, <2>1, <2>2 DEF TypeOK, AnswerType
    <2>4. ClosureOnTop'
      BY <1>1, <2>1 DEF ClosureOnTop, Item
    <2>5. QED
      BY <2>3, <2>4 DEF Inv
  <1>6. CASE Supervise
    <2>1. PICK evidence \in Evidence :
            /\ selected # None
            /\ reviewing' = [checkpoint |-> selected, head |-> items[selected].head,
                             value |-> ReviewValue(items[selected], evidence)]
            /\ answer' = NoAnswer /\ UNCHANGED <<items, selected, changes>>
      BY <1>6 DEF Supervise
    <2>2. items[selected].head \in Commit
      BY <1>1, <2>1 DEF Item
    <2>3. ReviewValue(items[selected], evidence) \in DecisionKind
      BY DEF ReviewValue, DecisionKind
    <2>4. QED
      BY <1>1, <1>2, <2>1, <2>2, <2>3 DEF Inv, TypeOK, AnswerType, ClosureOnTop
  <1>7. CASE Publish
    <2>1. /\ reviewing' = Nobody /\ answer' = NoAnswer /\ UNCHANGED <<selected, changes>>
          /\ items' = Recorded(reviewing, reviewing.head) \/ items' = items
          /\ reviewing # Nobody
      BY <1>7 DEF Publish
    <2>2. CASE items' = items
      BY <1>1, <1>2, <2>1, <2>2 DEF Inv, TypeOK, AnswerType, ClosureOnTop
    <2>3. CASE items' = Recorded(reviewing, reviewing.head)
      <3>1. TypeOK'
        BY <1>1, <1>2, <2>1, <2>3, RecordedFacts DEF TypeOK, AnswerType
      <3>2. ASSUME NEW c \in Checkpoint
            PROVE  items'[c].head = items[c].head /\ items'[c].closure = items[c].closure
        BY <1>1, <2>1, <2>3, <3>2, RecordedFacts
      <3>3. QED
        BY <1>1, <3>1, <3>2 DEF Inv, ClosureOnTop
    <2>4. QED
      BY <2>1, <2>2, <2>3
  <1>8. ASSUME NEW c \in Checkpoint, NEW n \in DOMAIN items[c].decisions,
               NEW closure \in Offered(c, items[c].head),
               Close(c, items[c].decisions[n], closure)
        PROVE  Inv'
    <2> DEFINE decision == items[c].decisions[n]
               presented == Presented(c, decision, closure)
               selection == Selection(presented)
    <2>1. /\ presented \in [Checkpoint -> Item] /\ items' \in [Checkpoint -> Item]
          /\ presented[c].head = items[c].head + 1 /\ presented[c].closure = closure
          /\ closure.parent = items[c].head
          /\ \A d \in Checkpoint \ {c} : presented[d] = items[d]
          /\ \A d \in Checkpoint : Advanced(presented[d], items'[d], d)
          /\ decision \in Decision
          /\ answer' = [checkpoint |-> c, decision |-> decision.decision,
                        selection |-> selection,
                        supervisor |-> MechanicalClosurePreservesReview(c, decision, closure),
                        accepted |-> /\ MechanicalClosurePreservesReview(c, decision, closure)
                                     /\ Merges(presented, selection)]
          /\ UNCHANGED <<selected, reviewing, changes>>
      BY <1>1, <1>8, CloseFacts
    <2>2. selection \in Checkpoint \cup {None}
      BY <2>1, SelectionFacts
    <2>3. /\ MechanicalClosurePreservesReview(c, decision, closure) \in BOOLEAN
          /\ Merges(presented, selection) \in BOOLEAN
      BY DEF MechanicalClosurePreservesReview, Merges
    <2> HIDE DEF decision, presented, selection
    <2>4. answer' \in AnswerType
      <3>1. decision.decision \in DecisionKind
        BY <2>1 DEF Decision
      <3>2. QED
        BY <2>1, <2>2, <2>3, <3>1 DEF AnswerType
    <2>5. TypeOK'
      BY <1>1, <2>1, <2>4 DEF TypeOK, AnswerType
    <2>6. ClosureOnTop'
      BY <1>1, <2>1 DEF ClosureOnTop, Advanced
    <2>7. QED
      BY <2>5, <2>6 DEF Inv
  <1>9. ASSUME NEW c \in Checkpoint, AuthorPushes(c) PROVE Inv'
    <2> DEFINE old == items[c].closure.files
               files == IF items[c].approved_base = None THEN <<>>
                        ELSE IF "code" \in Files(items[c].closure) THEN old
                        ELSE Append(old, "code")
               new == [items[c] EXCEPT !.head = @ + 1, !.closure = [@ EXCEPT !.files = files]]
    <2>1. /\ items' = [items EXCEPT ![c] = new]
          /\ answer' = NoAnswer /\ UNCHANGED <<selected, reviewing, changes>>
      BY <1>1, <1>9 DEF AuthorPushes
    <2>2. items[c] \in Item /\ items[c].closure \in Closure /\ items[c].head \in Commit
      BY <1>1 DEF Item
    <2>3. /\ files \in Seq({"queue", "code"})
          /\ {files[n] : n \in DOMAIN files} # {"queue"}
      <3>1. old \in Seq({"queue", "code"})
        BY <2>2 DEF Closure
      <3>2. CASE items[c].approved_base = None
        BY <3>2
      <3>3. CASE items[c].approved_base # None /\ "code" \in Files(items[c].closure)
        BY <3>1, <3>3 DEF Files
      <3>4. CASE items[c].approved_base # None /\ "code" \notin Files(items[c].closure)
        <4>1. files = Append(old, "code")
          BY <3>4
        <4>2. /\ files \in Seq({"queue", "code"})
              /\ Len(old) + 1 \in DOMAIN files /\ files[Len(old) + 1] = "code"
          BY <3>1, <4>1
        <4>3. QED
          BY <4>2
      <3>5. QED
        BY <3>2, <3>3, <3>4
    <2> HIDE DEF old, files
    <2>4. [items[c].closure EXCEPT !.files = files] \in Closure
      BY <2>2, <2>3 DEF Closure
    <2>5. items[c].head + 1 \in Commit
      BY <2>2 DEF Commit
    <2>6. new \in Item /\ new.closure = [items[c].closure EXCEPT !.files = files]
      BY <2>2, <2>4, <2>5 DEF Item
    <2>7. new.closure.files = files
      BY <2>2, <2>6 DEF Closure
    <2> HIDE DEF new
    <2>8. TypeOK'
      BY <1>1, <1>2, <2>1, <2>6 DEF TypeOK, AnswerType
    <2>9. ClosureOnTop'
      <3>1. Files(new.closure) # {"queue"}
        BY <2>3, <2>7 DEF Files
      <3>2. QED
        BY <1>1, <2>1, <3>1 DEF ClosureOnTop
    <2>10. QED
      BY <2>8, <2>9 DEF Inv
  <1>10. ASSUME NEW c \in Checkpoint, EligibilityChanges(c) PROVE Inv'
    <2>1. /\ changes' = [changes EXCEPT ![c] = @ + 1] /\ answer' = NoAnswer
          /\ UNCHANGED <<selected, reviewing>>
          /\ \/ items' = [items EXCEPT ![c] = [items[c] EXCEPT !.eligible = ~@]]
             \/ items' = [items EXCEPT ![c] = [items[c] EXCEPT !.gate = "HUMAN"]]
      BY <1>1, <1>10 DEF EligibilityChanges
    <2>2. /\ [items[c] EXCEPT !.eligible = ~@] \in Item
          /\ [items[c] EXCEPT !.gate = "HUMAN"] \in Item
      BY <1>1 DEF Item, Gate
    <2>3. TypeOK'
      BY <1>1, <1>2, <2>1, <2>2 DEF TypeOK, AnswerType
    <2>4. ClosureOnTop'
      BY <1>1, <2>1 DEF ClosureOnTop, Item
    <2>5. QED
      BY <2>3, <2>4 DEF Inv
  <1>11. CASE UNCHANGED vars
    BY <1>1, <1>11 DEF Inv, TypeOK, AnswerType, ClosureOnTop, vars
  <1>12. QED
    BY <1>3, <1>4, <1>5, <1>6, <1>7, <1>8, <1>9, <1>10, <1>11 DEF Next

\* It holds of every state of every behaviour.
LEMMA InvAlways == Spec => []Inv
  BY InitInv, NextInv, PTL DEF Spec

(***************************************************************************)
(* Theorems.                                                               *)
(***************************************************************************)

\* Every variable keeps its type.
THEOREM TypeCorrect == Spec => []TypeOK
  <1>1. Inv => TypeOK
    BY DEF Inv
  <1>2. QED
    BY <1>1, InvAlways, PTL

\* What each step does to the checkpoints, for the action properties.
LEMMA StepFacts ==
  ASSUME Inv, [Next]_vars, NEW c \in Checkpoint
  PROVE  /\ items'[c].state # items[c].state /\ items'[c].state \in {"WORKING", "DONE"} =>
               \E item \in Item : Advanced(item, items'[c], c) /\ item.gate = items[c].gate
                                  /\ item.state = items[c].state
         /\ items'[c].decisions # items[c].decisions =>
               Publish /\ reviewing.checkpoint = c
               /\ items' = Recorded(reviewing, reviewing.head)
               /\ items[c].head = reviewing.head
         /\ reviewing' # reviewing /\ reviewing' # Nobody => Supervise
  <1>1. TypeOK /\ items \in [Checkpoint -> Item] /\ items[c] \in Item
        /\ selected \in Checkpoint \cup {None}
    BY DEF Inv, TypeOK
  <1>2. CASE NewInvocation \/ UNCHANGED vars
    BY <1>2 DEF NewInvocation, vars
  <1>3. CASE Heartbeat
    <2>1. items' = Evaluated(items, Selection(items)) /\ reviewing' = reviewing
      BY <1>3 DEF Heartbeat
    <2>2. Advanced(items[c], items'[c], c)
      BY <1>1, <2>1, EvaluatedFacts
    <2>3. QED
      BY <1>1, <2>1, <2>2 DEF Advanced
  <1>4. CASE WorkerResult
    BY <1>1, <1>4 DEF WorkerResult, Item
  <1>5. CASE Supervise
    BY <1>5 DEF Supervise
  <1>6. CASE Publish
    <2>1. reviewing' = Nobody /\ reviewing # Nobody
      BY <1>6 DEF Publish
    <2>2. CASE items' = items
      BY <2>1, <2>2
    <2>3. CASE items' # items
      <3>1. /\ items' = Recorded(reviewing, reviewing.head)
            /\ items[reviewing.checkpoint].head = reviewing.head
        BY <1>6, <2>3 DEF Publish
      <3>2. items'[c].state \in {items[c].state, "AI_REWORK", "HUMAN_REQUIRED"}
        BY <1>1, <2>1, <3>1, RecordedFacts
      <3>3. c # reviewing.checkpoint => items'[c] = items[c]
        BY <1>1, <2>1, <3>1, RecordedFacts
      <3>4. QED
        BY <1>6, <2>1, <3>1, <3>2, <3>3
    <2>4. QED
      BY <2>2, <2>3
  <1>7. ASSUME NEW e \in Checkpoint, NEW n \in DOMAIN items[e].decisions,
               NEW closure \in Offered(e, items[e].head),
               Close(e, items[e].decisions[n], closure)
        PROVE  /\ \E item \in Item : /\ Advanced(item, items'[c], c)
                                     /\ item.gate = items[c].gate
                                     /\ item.state = items[c].state
               /\ items'[c].decisions = items[c].decisions
               /\ reviewing' = reviewing
    <2> DEFINE presented == Presented(e, items[e].decisions[n], closure)
    <2>1. /\ presented \in [Checkpoint -> Item] /\ Advanced(presented[c], items'[c], c)
          /\ presented[e].decisions = items[e].decisions
          /\ presented[e].state = items[e].state /\ presented[e].gate = items[e].gate
          /\ \A d \in Checkpoint \ {e} : presented[d] = items[d]
          /\ reviewing' = reviewing
      BY <1>1, <1>7, CloseFacts
    <2> HIDE DEF presented
    <2>2. /\ presented[c] \in Item /\ presented[c].gate = items[c].gate
          /\ presented[c].state = items[c].state
          /\ presented[c].decisions = items[c].decisions
      BY <2>1
    <2>3. QED
      BY <2>1, <2>2 DEF Advanced
  <1>8. ASSUME NEW e \in Checkpoint, AuthorPushes(e) \/ EligibilityChanges(e)
        PROVE  /\ items'[c].state = items[c].state
               /\ items'[c].decisions = items[c].decisions
               /\ reviewing' = reviewing
    <2>1. CASE AuthorPushes(e)
      <3>1. items' = [items EXCEPT ![e] =
                        [items[e] EXCEPT
                           !.head = @ + 1,
                           !.closure.files =
                              IF items[e].approved_base = None THEN <<>>
                              ELSE IF "code" \in Files(items[e].closure) THEN @
                              ELSE Append(@, "code")]]
            /\ reviewing' = reviewing
        BY <1>1, <2>1 DEF AuthorPushes
      <3>2. QED
        BY <1>1, <3>1 DEF Item
    <2>2. CASE EligibilityChanges(e)
      <3>1. /\ \/ items' = [items EXCEPT ![e] = [items[e] EXCEPT !.eligible = ~@]]
               \/ items' = [items EXCEPT ![e] = [items[e] EXCEPT !.gate = "HUMAN"]]
            /\ reviewing' = reviewing
        BY <1>1, <2>2 DEF EligibilityChanges
      <3>2. items[e] \in Item
        BY <1>1
      <3>3. CASE items' = [items EXCEPT ![e] = [items[e] EXCEPT !.eligible = ~@]]
        BY <1>1, <3>1, <3>2, <3>3 DEF Item
      <3>4. CASE items' = [items EXCEPT ![e] = [items[e] EXCEPT !.gate = "HUMAN"]]
        BY <1>1, <3>1, <3>2, <3>4 DEF Item
      <3>5. QED
        BY <3>1, <3>3, <3>4
    <2>3. QED
      BY <1>8, <2>1, <2>2
  <1>9. QED
    BY <1>2, <1>3, <1>4, <1>5, <1>6, <1>7, <1>8 DEF Next

\* A decision that is recorded is about the HEAD that was evaluated, which is still the
\* HEAD, whatever was pushed or closed in between.
THEOREM DecisionsBound == Spec => DecisionsAreOfTheHead
  <1> DEFINE Bound(c) ==
        items'[c].decisions # items[c].decisions =>
          /\ reviewing # Nobody /\ reviewing.checkpoint = c
          /\ items'[c].decisions[Len(items'[c].decisions)].head = reviewing.head
          /\ items[c].head = reviewing.head
  <1>1. ASSUME Inv, [Next]_vars, NEW c \in Checkpoint PROVE Bound(c)
    <2>1. SUFFICES ASSUME items'[c].decisions # items[c].decisions PROVE Bound(c)
      OBVIOUS
    <2>2. /\ reviewing # Nobody /\ reviewing.checkpoint = c
          /\ items' = Recorded(reviewing, reviewing.head) /\ items[c].head = reviewing.head
      BY <1>1, <2>1, StepFacts DEF Publish
    <2>3. TypeOK /\ items[c] \in Item
      BY <1>1 DEF Inv, TypeOK
    <2>4. items'[c].decisions = Append(items[c].decisions, [decision |-> reviewing.value,
                                                          head |-> reviewing.head])
      BY <2>2, <2>3, RecordedFacts
    <2>5. items[c].decisions \in Seq(Decision)
      BY <2>3 DEF Item
    <2>6. items'[c].decisions[Len(items'[c].decisions)].head = reviewing.head
      BY <2>4, <2>5
    <2>7. QED
      BY <2>2, <2>6
  <1>2. Inv /\ [Next]_vars => \A c \in Checkpoint : Bound(c)
    BY <1>1
  <1>3. QED
    BY <1>2, InvAlways, PTL DEF Spec, DecisionsAreOfTheHead

\* Once the owner has set Gate HUMAN, a checkpoint is not started, not merged, and a
\* review that begins only asks for the owner.
THEOREM HumanGateReserved == Spec => HumanGateIsReserved
  <1> DEFINE Reserved(c) ==
        items[c].gate = "HUMAN" =>
          /\ items[c].state = "READY" => items'[c].state # "WORKING"
          /\ items[c].state # "DONE" => items'[c].state # "DONE"
          /\ reviewing = Nobody /\ reviewing' # Nobody /\ reviewing'.checkpoint = c =>
                reviewing'.value = "HUMAN_REQUIRED"
  <1>1. ASSUME Inv, [Next]_vars, NEW c \in Checkpoint, items[c].gate = "HUMAN"
        PROVE  Reserved(c)
    <2>1. /\ items[c].state = "READY" => items'[c].state # "WORKING"
          /\ items[c].state # "DONE" => items'[c].state # "DONE"
      <3>1. SUFFICES ASSUME NEW item \in Item, Advanced(item, items'[c], c),
                            item.gate = "HUMAN", item.state = items[c].state
                     PROVE  /\ items[c].state = "READY" => items'[c].state # "WORKING"
                            /\ items[c].state # "DONE" => items'[c].state # "DONE"
        BY <1>1, StepFacts
      <3>2. ~MergeExecutable(c, item)
        BY <3>1 DEF MergeExecutable, SemanticDone
      <3>3. QED
        BY <3>1, <3>2 DEF Advanced
    <2>2. ASSUME reviewing = Nobody, reviewing' # Nobody, reviewing'.checkpoint = c
          PROVE  reviewing'.value = "HUMAN_REQUIRED"
      <3>1. Supervise
        BY <1>1, <2>2, StepFacts
      <3>2. PICK evidence \in Evidence :
              reviewing' = [checkpoint |-> selected, head |-> items[selected].head,
                            value |-> ReviewValue(items[selected], evidence)]
        BY <3>1 DEF Supervise
      <3>3. ReviewValue(items[c], evidence) = "HUMAN_REQUIRED"
        BY <1>1 DEF ReviewValue
      <3>4. QED
        BY <2>2, <3>2, <3>3
    <2>3. QED
      BY <2>1, <2>2
  <1>2. Inv /\ [Next]_vars => \A c \in Checkpoint : Reserved(c)
    BY <1>1
  <1>3. QED
    BY <1>2, InvAlways, PTL DEF Spec, HumanGateIsReserved

\* A checkpoint becomes DONE only at the one commit right above a HEAD whose approval
\* stands by the rule of the production finalizer, when that commit edits its own queue
\* row and nothing but state and result.
THEOREM MergedClosure == Spec => MergedIsApprovedClosure
  <1> DEFINE Approved(c) ==
        items[c].state # "DONE" /\ items'[c].state = "DONE" =>
           LET i == items'[c]
           IN  /\ i.eligible
               /\ Finalizer!ApprovalStands(i.decisions, i.closure.parent)
               /\ i.head = i.closure.parent + 1
               /\ Files(i.closure) = {"queue"} /\ i.closure.row = c
               /\ \A n \in DOMAIN i.closure.fields :
                     i.closure.fields[n] \in {"state", "result"}
  <1>1. ASSUME Inv, [Next]_vars, NEW c \in Checkpoint,
               items[c].state # "DONE", items'[c].state = "DONE"
        PROVE  Approved(c)
    <2>1. PICK item \in Item : Advanced(item, items'[c], c) /\ item.state = items[c].state
      BY <1>1, StepFacts
    <2>2. /\ items'[c].decisions = item.decisions /\ items'[c].closure = item.closure
          /\ items'[c].eligible = item.eligible /\ MergeExecutable(c, item)
      BY <1>1, <2>1 DEF Advanced
    <2>3. /\ item.eligible /\ ApprovedHead(item) # None
          /\ Files(item.closure) = {"queue"} /\ item.closure.parent = ApprovedHead(item)
          /\ ValidClosureContent(c, item.closure)
      BY <2>2 DEF MergeExecutable, SemanticDone, ClosureValid
    <2>4. Finalizer!ApprovalStands(item.decisions, item.closure.parent)
      BY <2>3, ApprovedFacts
    <2>5. item.closure.row = c
          /\ \A n \in DOMAIN item.closure.fields :
                item.closure.fields[n] \in {"state", "result"}
      BY <2>3 DEF ValidClosureContent
    <2>6. items'[c].head = items'[c].closure.parent + 1
      BY <1>1, <2>2, <2>3, NextInv DEF Inv, ClosureOnTop
    <2>7. QED
      BY <2>2, <2>3, <2>4, <2>5, <2>6
  <1>2. Inv /\ [Next]_vars => \A c \in Checkpoint : Approved(c)
    BY <1>1
  <1>3. QED
    BY <1>2, InvAlways, PTL DEF Spec, MergedIsApprovedClosure

\* Only a closure has an answer.
LEMMA AnswerFacts ==
  ASSUME Next
  PROVE  \/ answer'.checkpoint = None
         \/ \E c \in Checkpoint :
            \E n \in DOMAIN items[c].decisions, closure \in Offered(c, items[c].head) :
               Close(c, items[c].decisions[n], closure)
  <1>1. NoAnswer.checkpoint = None
    BY DEF NoAnswer
  <1>2. QED
    BY <1>1
    DEF Next, NewInvocation, Heartbeat, WorkerResult, Supervise, Publish, AuthorPushes,
        EligibilityChanges

\* The two oracles agree on a closure of an approval that stands, except for its label, the
\* order of its fields and a file listed twice, and what the protocol accepts is merged unless another
\* checkpoint was selected.
THEOREM OracleAgreement == Spec => []OraclesAgree
  <1>1. Init => OraclesAgree
    BY DEF Init, NoAnswer, OraclesAgree
  <1>2. ASSUME Inv, NEW c \in Checkpoint, NEW n \in DOMAIN items[c].decisions,
               NEW closure \in Offered(c, items[c].head),
               Close(c, items[c].decisions[n], closure)
        PROVE  OraclesAgree'
    <2> DEFINE decision == items[c].decisions[n]
               presented == Presented(c, decision, closure)
               selection == Selection(presented)
               supervisor == MechanicalClosurePreservesReview(c, decision, closure)
    <2>1. /\ presented[c].approved_base = decision.head /\ decision \in Decision
          /\ closure \in Closure /\ presented[c].closure = closure
          /\ items' \in [Checkpoint -> Item]
          /\ Advanced(presented[c], items'[c], c)
          /\ Merges(presented, selection) => items'[selection].state = "DONE"
          /\ answer' = [checkpoint |-> c, decision |-> decision.decision,
                        selection |-> selection, supervisor |-> supervisor,
                        accepted |-> supervisor /\ Merges(presented, selection)]
      BY <1>2, CloseFacts DEF Inv
    <2> HIDE DEF decision, presented, selection
    <2>2. items'[c].closure = closure /\ items'[c].approved_base = decision.head
      BY <2>1 DEF Advanced
    <2>3. decision.head # None /\ Base(items'[c]) = decision.head
      BY <2>1, <2>2 DEF Base, Decision, Commit, None
    <2>4. ApprovedHead(items'[c]) # None => ApprovedHead(items'[c]) = decision.head
      BY <2>1, <2>3, ApprovedFacts
    <2>5. supervisor /\ SemanticDone(items'[c]) => ClosureValid(c, items'[c])
      BY <2>2, <2>4
      DEF MechanicalClosurePreservesReview, SemanticDone, ClosureValid, ValidClosureContent,
          Files
    <2>6. /\ decision.decision = "APPROVED"
          /\ ClosureValid(c, items'[c]) /\ closure.label = c
          /\ closure.fields # <<"result", "state">> /\ Len(closure.files) = 1
          => supervisor
      <3>1. closure.files \in Seq({"queue", "code"})
        BY <2>1 DEF Closure
      <3>2. Files(closure) = {"queue"} /\ Len(closure.files) = 1 => closure.files = <<"queue">>
        BY <3>1 DEF Files
      <3>3. QED
        BY <2>2, <2>4, <3>2
        DEF MechanicalClosurePreservesReview, ClosureValid, ValidClosureContent
    <2>7. /\ answer'.checkpoint = c /\ answer'.decision = decision.decision
          /\ answer'.selection = selection /\ answer'.supervisor = supervisor
          /\ answer'.accepted = (supervisor /\ Merges(presented, selection))
      BY <2>1
    <2> HIDE DEF supervisor
    <2>8. answer'.accepted /\ answer'.selection = c => items'[c].state = "DONE"
      BY <2>1, <2>7
    <2>9. answer'.decision = "APPROVED" =>
            /\ answer'.supervisor /\ SemanticDone(items'[c]) => ClosureValid(c, items'[c])
            /\ /\ ClosureValid(c, items'[c]) /\ items'[c].closure.label = c
               /\ items'[c].closure.fields # <<"result", "state">>
               /\ Len(items'[c].closure.files) = 1
               => answer'.supervisor
      <3> HIDE DEF decision
      <3>1. QED
        BY <2>2, <2>5, <2>6, <2>7, Zenon
    <2>10. QED
      BY <2>7, <2>8, <2>9, Zenon DEF OraclesAgree
  <1>3. ASSUME Inv, OraclesAgree, [Next]_vars PROVE OraclesAgree'
    <2>1. CASE UNCHANGED vars
      <3>1. items' = items /\ answer' = answer
        BY <2>1 DEF vars
      <3>2. QED
        BY <1>3, <3>1, SMTT(30) DEF OraclesAgree
    <2>2. CASE answer'.checkpoint = None
      BY <2>2 DEF OraclesAgree
    <2>3. QED
      BY <1>2, <1>3, <2>1, <2>2, AnswerFacts
  <1>4. QED
    BY <1>1, <1>3, InvAlways, PTL DEF Spec

(***************************************************************************)
(* The part of ExecutableIsMerged that needs no fairness.                  *)
(***************************************************************************)
\* A heartbeat (heartbeat_harness.py:143-175) acts whenever something can be merged: it
\* takes up a rework, or merges the first that can be merged, unless an approved
\* checkpoint that cannot be merged comes before it in the queue.
HeartbeatServes ==
    \A c \in Checkpoint :
        items[c].state = "AI_REVIEW" /\ MergeExecutable(c, items[c]) =>
            LET s == Selection(items)
                after == Evaluated(items, s)
            IN  /\ s \in Checkpoint
                /\ \/ items[s].state = "AI_REWORK" /\ after[s].state = "WORKING"
                   \/ s <= c /\ items[s].state = "AI_REVIEW" /\ after[s].state = "DONE"
                   \/ s < c /\ Stuck(s)

\* Whatever can be merged, the next heartbeat does something for it or names what is in
\* the way, in every state the protocol can reach and for any number of checkpoints.
THEOREM HeartbeatServed == Spec => []HeartbeatServes
  <1>1. ASSUME TypeOK, NEW c \in Checkpoint, items[c].state = "AI_REVIEW",
               MergeExecutable(c, items[c]),
               NEW s, s = Selection(items), NEW after, after = Evaluated(items, s)
        PROVE  /\ s \in Checkpoint
               /\ \/ items[s].state = "AI_REWORK" /\ after[s].state = "WORKING"
                  \/ s <= c /\ items[s].state = "AI_REVIEW" /\ after[s].state = "DONE"
                  \/ s < c /\ Stuck(s)
    <2>1. items \in [Checkpoint -> Item] /\ Checkpoint \subseteq Nat
      BY <1>1 DEF TypeOK, Checkpoint
    <2>2. Tier(items[c]) = 2
      BY <1>1 DEF Tier, MergeExecutable
    <2>3. /\ s \in Checkpoint /\ s # None /\ Tier(items[s]) <= 2
          /\ Tier(items[s]) = 2 => s <= c
      BY <1>1, <2>1, <2>2, SelectionIsFirst
    <2>4. \/ items[s].state = "AI_REWORK"
          \/ items[s].state = "AI_REVIEW" /\ SemanticDone(items[s]) /\ s <= c
      BY <2>3 DEF Tier
    <2>5. CASE items[s].state = "AI_REWORK"
      <3>1. after = [items EXCEPT ![s].state = "WORKING"]
        BY <1>1, <2>3, <2>5 DEF Evaluated, Merges
      <3>2. after[s].state = "WORKING"
        BY <2>1, <2>3, <3>1 DEF Item
      <3>3. QED
        BY <2>3, <2>5, <3>2
    <2>6. CASE items[s].state = "AI_REVIEW" /\ SemanticDone(items[s]) /\ s <= c
      <3>1. CASE MergeExecutable(s, items[s])
        <4>1. Merges(items, s)
          BY <2>3, <2>6, <3>1 DEF Merges
        <4>2. after[s].state = "DONE"
          BY <1>1, <2>1, <4>1, EvaluatedFacts
        <4>3. QED
          BY <2>3, <2>6, <4>2
      <3>2. CASE ~MergeExecutable(s, items[s])
        <4>1. Stuck(s) /\ s # c
          BY <1>1, <2>6, <3>2 DEF Stuck
        <4>2. s < c
          BY <2>1, <2>3, <2>6, <4>1
        <4>3. QED
          BY <2>3, <4>1, <4>2
      <3>3. QED
        BY <3>1, <3>2
    <2>7. QED
      BY <2>4, <2>5, <2>6
  <1>2. TypeOK => HeartbeatServes
    BY <1>1 DEF HeartbeatServes
  <1>3. QED
    BY <1>2, TypeCorrect, PTL
=============================================================================
