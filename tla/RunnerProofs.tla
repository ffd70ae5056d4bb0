----------------------------- MODULE RunnerProofs -----------------------------
(***************************************************************************)
(* Runner's type invariant and safety properties, for every set of wakes.  *)
(***************************************************************************)
EXTENDS Runner, TLAPS

(***************************************************************************)
(* What holds of one wake, whatever the others do.                         *)
(***************************************************************************)
BeforeWorker == {"preflight", "lock", "refresh_pre", "finalizer_pre",
                 "refresh_after_finalization", "recovery_pre_worker", "adapter"}

\* Nothing or one line is printed, or two; a record repeats the first line.
OneLine(lines, records) ==
    \/ lines = <<>> /\ records = <<>>
    \/ \E first \in Classification : lines = <<first>> /\ records \in {<<>>, <<first>>}

Ends(lines, records, last) ==
    \/ lines = <<last>> /\ records \in {<<>>, <<last>>}
    \/ \E first \in Classification :
          lines = Append(<<first>>, last) /\ records \in {<<>>, <<first>>}

\* What is printed and recorded where.
JournalInv(w) ==
    /\ pc[w] \in BeforeWorker \cup {"host_post_worker", "emit"} =>
          printed[w] = <<>> /\ recorded[w] = <<>>
    /\ pc[w] = "evidence" => printed[w] = <<pending[w].class>> /\ recorded[w] = <<>>
    /\ pc[w] = "return" => printed[w] = <<pending[w].class>> /\ recorded[w] = printed[w]
    /\ pc[w] = "handler" => OneLine(printed[w], recorded[w])
    /\ pc[w] = "handled" => Ends(printed[w], recorded[w], pending[w].class)
    /\ pc[w] # "idle" => exit[w] = Running

\* Which summary vouches for what happened.
Vouches(class, status, was_launched, adapter_code) ==
    status = 0 =>
        \/ class \in {"lock_contended", "reconciled_no_action"} /\ ~was_launched
        \/ class = "valid_completion" /\ was_launched /\ adapter_code = 0

\* What the summary about to be printed, or just printed, says; a handler's is a failure.
SummaryInv(w) ==
    /\ pc[w] \in {"emit", "evidence", "return", "handler", "handled"} =>
          pending[w].status \in StatusOf[pending[w].class]
    /\ pc[w] \in {"handler", "handled"} => pending[w].status \in {70, 130}
    /\ pc[w] \in {"emit", "evidence", "return"} =>
          Vouches(pending[w].class, pending[w].status, launched[w], code[w])

\* How a wake may end: with its own status and the line that goes with it, of which 0 and
\* 65 are only returned with a record, or without one of its own.
Vouched(w) ==
    \E last \in Classification :
        /\ printed[w] = <<last>> /\ recorded[w] = <<last>>
        /\ exit[w] \in StatusOf[last] /\ Vouches(last, exit[w], launched[w], code[w])

Reported(w) ==
    \E last \in Classification :
        Ends(printed[w], recorded[w], last) /\ exit[w] \in StatusOf[last] \cap {70, 130}

Unreported(w) ==
    /\ \/ OneLine(printed[w], recorded[w])
       \/ \E last \in Classification : Ends(printed[w], recorded[w], last)
    /\ exit[w] \in {Running, Signalled, Traceback}

EndInv(w) == pc[w] = "idle" => Vouched(w) \/ Reported(w) \/ Unreported(w)

\* The worker runs last, asked for, and never on what a merge left stale.
ClearanceInv(w) ==
    /\ pc[w] \in BeforeWorker => ~launched[w]
    /\ pc[w] = "host_post_worker" => launched[w]
    /\ pc[w] \in (BeforeWorker \cup {"host_post_worker"}) \ {"refresh_after_finalization"} =>
          ~stale[w]
    /\ pc[w] \in BeforeWorker \ {"adapter"} => action[w] = "none"
    /\ pc[w] \in {"adapter", "host_post_worker"} => action[w] = "invoke_worker"

WakeInv(w) == JournalInv(w) /\ SummaryInv(w) /\ EndInv(w) /\ ClearanceInv(w)

\* The inductive invariant.
Inv == TypeOK /\ LockMatchesPhase /\ \A w \in Wake : WakeInv(w)

(***************************************************************************)
(* Facts about the data.                                                   *)
(***************************************************************************)

\* The first line of a journal.
LEMMA FirstLine ==
    ASSUME NEW e
    PROVE  /\ Append(<<>>, e) = <<e>> /\ Len(<<e>>) = 1 /\ <<e>>[1] = e
           /\ Len(<<>>) = 0
  OBVIOUS

\* What the readers of a journal of one or two lines find.
LEMMA EndsFacts ==
    ASSUME NEW lines, NEW records, NEW last \in Classification, Ends(lines, records, last)
    PROVE  /\ lines # <<>> /\ Len(lines) <= 2 /\ lines[Len(lines)] = last
           /\ records # <<>> => records = <<lines[1]>>
  <1>1. CASE lines = <<last>> /\ records \in {<<>>, <<last>>}
    BY <1>1
  <1>2. ASSUME NEW first \in Classification, lines = Append(<<first>>, last),
               records \in {<<>>, <<first>>}
        PROVE  /\ lines # <<>> /\ Len(lines) <= 2 /\ lines[Len(lines)] = last
               /\ records # <<>> => records = <<lines[1]>>
    <2>1. <<first>> \in Seq(Classification) /\ Len(<<first>>) = 1 /\ <<first>>[1] = first
      OBVIOUS
    <2>2. Len(lines) = 2 /\ lines[2] = last /\ lines[1] = first
      BY <1>2, <2>1
    <2>3. lines # <<>>
      BY <2>2
    <2>4. QED
      BY <1>2, <2>2, <2>3
  <1>3. QED
    BY <1>1, <1>2 DEF Ends

\* Another line after at most one.
LEMMA NextEnds ==
    ASSUME NEW lines, NEW records, NEW last \in Classification, OneLine(lines, records)
    PROVE  Ends(Append(lines, last), records, last)
  <1>1. CASE lines = <<>> /\ records = <<>>
    BY <1>1, FirstLine DEF Ends
  <1>2. ASSUME NEW first \in Classification, lines = <<first>>, records \in {<<>>, <<first>>}
        PROVE  Ends(Append(lines, last), records, last)
    BY <1>2 DEF Ends
  <1>3. QED
    BY <1>1, <1>2 DEF OneLine

\* Appending a line adds one.
LEMMA NextLine ==
    ASSUME NEW S, NEW q \in Seq(S), NEW e \in S
    PROVE  /\ Append(q, e) \in Seq(S) /\ Len(Append(q, e)) = Len(q) + 1
           /\ Len(q) \in Nat
           /\ Len(q) = 0 => q = <<>>
  OBVIOUS

\* Every result of the adapter is a summary that vouches for it.
LEMMA ResultFacts ==
    ASSUME NEW c \in {0, 65, 70, 130, 1}, NEW failed \in BOOLEAN
    PROVE  /\ Result(c, failed) \in Summary
           /\ Result(c, failed).class # "lock_contended"
           /\ Vouches(Result(c, failed).class, Result(c, failed).status, TRUE, c)
           /\ Result(c, failed).status \in StatusOf[Result(c, failed).class]
  BY DEF Result, Summary, Classification, Vouches, StatusOf

(***************************************************************************)
(* Type correctness.                                                       *)
(***************************************************************************)
Step(w) == Start(w) \/ Proceed(w) \/ Signal(w)

\* What a wake's step does to the other wakes and the lock.
Frame(w) ==
    /\ \A v \in Wake \ {w} :
          /\ pc'[v] = pc[v] /\ pending'[v] = pending[v]
          /\ launched'[v] = launched[v] /\ stale'[v] = stale[v]
          /\ action'[v] = action[v] /\ code'[v] = code[v]
          /\ printed'[v] = printed[v] /\ recorded'[v] = recorded[v] /\ exit'[v] = exit[v]
    /\ lock' = lock \/ (lock = None /\ lock' = w) \/ (lock = w /\ lock' = None)

\* The parts of the type invariant.
Control == pc \in [Wake -> Label] /\ pending \in [Wake -> Summary] /\ lock \in Wake \cup {None}

Memory ==
    /\ launched \in [Wake -> BOOLEAN] /\ stale \in [Wake -> BOOLEAN]
    /\ action \in [Wake -> RecoveryAnswer \cup {"none"}]
    /\ code \in [Wake -> {0, 65, 70, 130, 1}]

ExitStatus == {Running, Signalled, Traceback, 0, 65, 70, 130}

Journal ==
    /\ printed \in [Wake -> Seq(Classification)]
    /\ recorded \in [Wake -> Seq(Classification)]
    /\ exit \in [Wake -> ExitStatus]

\* They make it up.
LEMMA TypeParts ==
    TypeOK <=> /\ Control /\ Memory /\ Journal
               /\ config \in [Hook -> BOOLEAN] /\ orphans \subseteq Lasting
  BY DEF TypeOK, Control, Memory, Journal, ExitStatus

\* Also in the next state.
LEMMA TypePartsNext ==
    TypeOK' <=> /\ Control' /\ Memory' /\ Journal'
                /\ config' \in [Hook -> BOOLEAN] /\ orphans' \subseteq Lasting
  BY DEF TypeOK, Control, Memory, Journal, ExitStatus

\* The four ways control moves keep the types.
LEMMA GotoType ==
    ASSUME Control, NEW w \in Wake, NEW label \in Label, Goto(w, label), UNCHANGED lock
    PROVE  Control'
  BY DEF Control, Goto

\* ... with a summary to be printed,
LEMMA ConcludeType ==
    ASSUME Control, NEW w \in Wake, NEW label \in Label, NEW class \in Classification,
           NEW status \in {0, 65, 70, 130}, Conclude(w, label, class, status),
           lock' \in Wake \cup {None}
    PROVE  Control'
  BY DEF Control, Conclude, Summary

\* What a wake knows is forgotten or kept.
LEMMA ForgetType ==
    ASSUME Memory, NEW w \in Wake, Forget(w) \/ UNCHANGED memory PROVE Memory'
  BY DEF Memory, Forget, memory

\* ... with an exception that a handler catches,
LEMMA RaiseType ==
    ASSUME Control, Memory, NEW w \in Wake, NEW class \in Classification,
           NEW status \in {0, 65, 70, 130}, Raise(w, class, status)
    PROVE  Control' /\ Memory'
  <1>1. "handler" \in Label
    BY DEF Label
  <1>2. lock' \in Wake \cup {None}
    BY DEF Raise, Release, Control
  <1>3. Memory'
    BY ForgetType DEF Raise
  <1>4. QED
    BY <1>1, <1>2, <1>3, ConcludeType DEF Raise

\* ... an OSError among them,
LEMMA OSErrorType ==
    ASSUME Control, Memory, NEW w \in Wake, RaiseOSError(w) PROVE Control' /\ Memory'
  <1>1. /\ "runner_internal_failure" \in Classification /\ "preflight_failure" \in Classification
        /\ Raise(w, "runner_internal_failure", 70) \/ Raise(w, "preflight_failure", 70)
    BY DEF RaiseOSError, Classification
  <1>2. QED
    BY <1>1, RaiseType

\* ... and the end of the wake.
LEMMA ExitType ==
    ASSUME Control, Memory, Journal, NEW w \in Wake, NEW status \in ExitStatus, Exit(w, status)
    PROVE  Control' /\ Memory' /\ exit' \in [Wake -> ExitStatus]
  <1>1. /\ "idle" \in Label /\ NoSummary.class \in Classification
        /\ NoSummary.status \in {0, 65, 70, 130}
    BY DEF Label, NoSummary, Classification
  <1>2. lock' \in Wake \cup {None}
    BY DEF Exit, Release, Control
  <1>3. Memory'
    BY ForgetType DEF Exit
  <1>4. Control'
    BY <1>1, <1>2, ConcludeType DEF Exit
  <1>5. QED
    BY <1>3, <1>4 DEF Exit, Journal

\* What is about to be printed.
LEMMA PendingFacts ==
    ASSUME Control, NEW w \in Wake
    PROVE  /\ pending[w].class \in Classification
           /\ pending[w].status \in {0, 65, 70, 130}
           /\ pending[w].status \in ExitStatus
  BY DEF Control, Summary, ExitStatus

\* Every step of a wake keeps the types.
LEMMA StepTypeOK ==
    ASSUME TypeOK, NEW w \in Wake, Step(w) PROVE TypeOK'
  <1>a. /\ Control /\ Memory /\ Journal
        /\ config \in [Hook -> BOOLEAN] /\ orphans \subseteq Lasting
    BY TypeParts
  <1>c. /\ "idle" \in Label /\ "preflight" \in Label /\ "lock" \in Label
        /\ "emit" \in Label /\ "evidence" \in Label /\ "refresh_pre" \in Label
        /\ "finalizer_pre" \in Label /\ "refresh_after_finalization" \in Label
        /\ "recovery_pre_worker" \in Label /\ "adapter" \in Label
        /\ "host_post_worker" \in Label /\ "return" \in Label /\ "handled" \in Label
        /\ "preflight_failure" \in Classification /\ "lock_contended" \in Classification
        /\ "recovery_failure" \in Classification /\ "reconciled_no_action" \in Classification
        /\ "interrupted_invalid" \in Classification
        /\ "runner_internal_failure" \in Classification
    BY DEF Label, ChildPhase, Classification
  <1>1. CASE Start(w)
    <2>1. Control'
      BY <1>1, <1>a, <1>c DEF Start, Control, NoSummary, Summary
    <2>2. Memory'
      BY <1>1, <1>a, ForgetType DEF Start
    <2>3. Journal'
      BY <1>1, <1>a DEF Start, Journal, ExitStatus
    <2>4. UNCHANGED <<config, orphans>>
      BY <1>1 DEF Start
    <2>5. QED
      BY <1>a, <2>1, <2>2, <2>3, <2>4, TypePartsNext
  <1>2. CASE Preflight(w)
    <2>1. Control'
      BY <1>2, <1>a, <1>c, GotoType, RaiseType DEF Preflight
    <2>2. Memory'
      BY <1>2, <1>a, <1>c, ForgetType, RaiseType DEF Preflight
    <2>3. Journal'
      BY <1>2, <1>a, ExitType, PendingFacts DEF Preflight, Journal, output
    <2>4. UNCHANGED <<config, orphans>>
      BY <1>2 DEF Preflight
    <2>5. QED
      BY <1>a, <2>1, <2>2, <2>3, <2>4, TypePartsNext
  <1>3. CASE TakeLock(w)
    <2>1. Control'
      <3>1. CASE lock' = w /\ Goto(w, "refresh_pre")
        BY <3>1, <1>a, <1>c DEF Control, Goto
      <3>2. CASE Conclude(w, "emit", "lock_contended", 0) /\ UNCHANGED lock
        <4>1. lock' \in Wake \cup {None}
          BY <3>2, <1>a DEF Control
        <4>2. QED
          BY <3>2, <4>1, <1>a, <1>c, ConcludeType
      <3>3. QED
        BY <1>3, <3>1, <3>2 DEF TakeLock
    <2>2. Memory'
      BY <1>3, <1>a DEF TakeLock, Memory, memory
    <2>3. Journal'
      BY <1>3, <1>a, ExitType, PendingFacts DEF TakeLock, Journal, output
    <2>4. UNCHANGED <<config, orphans>>
      BY <1>3 DEF TakeLock
    <2>5. QED
      BY <1>a, <2>1, <2>2, <2>3, <2>4, TypePartsNext
  <1>4. CASE RefreshPre(w)
    <2>1. Control'
      <3>1. lock' = lock /\ lock' \in Wake \cup {None}
        BY <1>4, <1>a DEF RefreshPre, Control
      <3>2. CASE Goto(w, "finalizer_pre")
        BY <3>1, <3>2, <1>a, <1>c, GotoType
      <3>3. CASE Conclude(w, "emit", "preflight_failure", 70)
        BY <3>1, <3>3, <1>a, <1>c, ConcludeType
      <3>4. QED
        BY <1>4, <3>2, <3>3 DEF RefreshPre
    <2>2. Memory'
      BY <1>4, <1>a DEF RefreshPre, Memory, memory
    <2>3. Journal'
      BY <1>4, <1>a, ExitType, PendingFacts DEF RefreshPre, Journal, output
    <2>4. UNCHANGED <<config, orphans>>
      BY <1>4 DEF RefreshPre
    <2>5. QED
      BY <1>a, <2>1, <2>2, <2>3, <2>4, TypePartsNext
  <1>5. CASE FinalizerPre(w)
    <2>1. Control'
      <3>1. lock' = lock /\ lock' \in Wake \cup {None}
        BY <1>5, <1>a DEF FinalizerPre, Control
      <3>2. CASE Goto(w, "recovery_pre_worker")
        BY <3>1, <3>2, <1>a, <1>c, GotoType
      <3>3. CASE Goto(w, "refresh_after_finalization")
        BY <3>1, <3>3, <1>a, <1>c, GotoType
      <3>4. CASE Conclude(w, "emit", "preflight_failure", 70)
        BY <3>1, <3>4, <1>a, <1>c, ConcludeType
      <3>5. QED
        BY <1>5, <3>2, <3>3, <3>4 DEF FinalizerPre, FinalizerOutcome, AfterFinalizer
    <2>2. Memory'
      BY <1>5, <1>a DEF FinalizerPre, Memory, memory
    <2>3. Journal'
      BY <1>5, <1>a, ExitType, PendingFacts DEF FinalizerPre, Journal, output
    <2>4. UNCHANGED <<config, orphans>>
      BY <1>5 DEF FinalizerPre
    <2>5. QED
      BY <1>a, <2>1, <2>2, <2>3, <2>4, TypePartsNext
  <1>6. CASE RefreshAfterFinalization(w)
    <2>1. Control'
      <3>1. lock' = lock /\ lock' \in Wake \cup {None}
        BY <1>6, <1>a DEF RefreshAfterFinalization, Control
      <3>2. CASE Goto(w, "recovery_pre_worker")
        BY <3>1, <3>2, <1>a, <1>c, GotoType
      <3>3. CASE Conclude(w, "emit", "preflight_failure", 70)
        BY <3>1, <3>3, <1>a, <1>c, ConcludeType
      <3>4. QED
        BY <1>6, <3>2, <3>3 DEF RefreshAfterFinalization
    <2>2. Memory'
      BY <1>6, <1>a DEF RefreshAfterFinalization, Memory, memory
    <2>3. Journal'
      BY <1>6, <1>a, ExitType, PendingFacts DEF RefreshAfterFinalization, Journal, output
    <2>4. UNCHANGED <<config, orphans>>
      BY <1>6 DEF RefreshAfterFinalization
    <2>5. QED
      BY <1>a, <2>1, <2>2, <2>3, <2>4, TypePartsNext
  <1>7. CASE RecoveryPreWorker(w)
    <2>1. Control'
      <3>1. CASE Exit(w, Traceback)
        BY <3>1, <1>a, ExitType DEF ExitStatus
      <3>2. CASE lock' = lock /\ Goto(w, "adapter")
        BY <3>2, <1>a, <1>c, GotoType
      <3>3. CASE lock' = lock /\ (\/ Conclude(w, "emit", "recovery_failure", 70)
                                  \/ Conclude(w, "emit", "reconciled_no_action", 0))
        <4>1. lock' \in Wake \cup {None}
          BY <3>3, <1>a DEF Control
        <4>2. QED
          BY <3>3, <4>1, <1>a, <1>c, ConcludeType
      <3>4. QED
        BY <1>7, <3>1, <3>2, <3>3 DEF RecoveryPreWorker
    <2>2. Memory'
      <3>1. CASE Exit(w, Traceback)
        BY <3>1, <1>a, ExitType DEF ExitStatus
      <3>2. CASE UNCHANGED memory
        BY <3>2, <1>a, ForgetType
      <3>3. CASE /\ \E answer \in RecoveryAnswer : action' = [action EXCEPT ![w] = answer]
                 /\ UNCHANGED <<launched, stale, code>>
        BY <3>3, <1>a DEF Memory
      <3>4. QED
        BY <1>7, <3>1, <3>2, <3>3 DEF RecoveryPreWorker
    <2>3. Journal'
      BY <1>7, <1>a DEF RecoveryPreWorker, Exit, Journal, ExitStatus, output
    <2>4. UNCHANGED <<config, orphans>>
      BY <1>7 DEF RecoveryPreWorker
    <2>5. QED
      BY <1>a, <2>1, <2>2, <2>3, <2>4, TypePartsNext
  <1>8. CASE RunAdapter(w)
    <2>1. Control'
      BY <1>8, <1>a, <1>c, GotoType, ConcludeType, RaiseType, ExitType DEF RunAdapter
    <2>2. Memory'
      <3>1. CASE Raise(w, "runner_internal_failure", 70)
        BY <3>1, <1>a, <1>c, RaiseType
      <3>2. CASE ~Raise(w, "runner_internal_failure", 70)
        <4>1. /\ launched' = [launched EXCEPT ![w] = TRUE] /\ UNCHANGED <<stale, action>>
              /\ \E c \in {0, 65, 70, 130, 1} : code' = [code EXCEPT ![w] = c]
          BY <1>8, <3>2 DEF RunAdapter
        <4>2. PICK c \in {0, 65, 70, 130, 1} : code' = [code EXCEPT ![w] = c]
          BY <4>1
        <4>3. code' \in [Wake -> {0, 65, 70, 130, 1}] /\ launched' \in [Wake -> BOOLEAN]
          BY <4>1, <4>2, <1>a DEF Memory
        <4>4. QED
          BY <4>1, <4>3, <1>a DEF Memory
      <3>3. QED
        BY <3>1, <3>2
    <2>3. Journal'
      BY <1>8, <1>a, ExitType, PendingFacts DEF RunAdapter, Journal, output
    <2>4. UNCHANGED <<config, orphans>>
      BY <1>8 DEF RunAdapter
    <2>5. QED
      BY <1>a, <2>1, <2>2, <2>3, <2>4, TypePartsNext
  <1>9. CASE HostPostWorker(w)
    <2>1. Control'
      <3>1. lock' = lock /\ lock' \in Wake \cup {None}
        BY <1>9, <1>a DEF HostPostWorker, Control
      <3>2. PICK failed \in BOOLEAN :
               Conclude(w, "emit", Result(code[w], failed).class, Result(code[w], failed).status)
        BY <1>9 DEF HostPostWorker
      <3>3. Result(code[w], failed) \in Summary
        BY <1>a, ResultFacts DEF Memory
      <3>4. /\ Result(code[w], failed).class \in Classification
            /\ Result(code[w], failed).status \in {0, 65, 70, 130}
        BY <3>3 DEF Summary
      <3>5. QED
        BY <3>1, <3>2, <3>4, <1>a, <1>c, ConcludeType
    <2>2. Memory'
      BY <1>9, <1>a DEF HostPostWorker, Memory, memory
    <2>3. Journal'
      BY <1>9, <1>a, ExitType, PendingFacts DEF HostPostWorker, Journal, output
    <2>4. UNCHANGED <<config, orphans>>
      BY <1>9 DEF HostPostWorker
    <2>5. QED
      BY <1>a, <2>1, <2>2, <2>3, <2>4, TypePartsNext
  <1>10. CASE Emit(w)
    <2>1. Control' /\ Memory'
      <3>1. CASE Goto(w, "evidence") /\ UNCHANGED <<lock, memory>>
        BY <3>1, <1>a, <1>c, GotoType, ForgetType
      <3>2. CASE RaiseOSError(w)
        BY <3>2, <1>a, OSErrorType
      <3>3. QED
        BY <1>10, <3>1, <3>2 DEF Emit
    <2>2. Journal'
      <3>1. Append(printed[w], pending[w].class) \in Seq(Classification)
        BY <1>a, PendingFacts, NextLine DEF Journal
      <3>2. Printed(w) \in [Wake -> Seq(Classification)]
        BY <3>1, <1>a DEF Journal, Printed
      <3>3. QED
        BY <1>10, <3>2, <1>a DEF Emit, Journal
    <2>3. UNCHANGED <<config, orphans>>
      BY <1>10 DEF Emit
    <2>4. QED
      BY <1>a, <2>1, <2>2, <2>3, TypePartsNext
  <1>11. CASE AppendEvidence(w)
    <2>1. Control' /\ Memory'
      <3>1. CASE Goto(w, "return") /\ UNCHANGED <<lock, memory>>
        BY <3>1, <1>a, <1>c, GotoType, ForgetType
      <3>2. CASE RaiseOSError(w)
        BY <3>2, <1>a, OSErrorType
      <3>3. QED
        BY <1>11, <3>1, <3>2 DEF AppendEvidence, AppendFails
    <2>2. Journal'
      <3>1. Append(recorded[w], pending[w].class) \in Seq(Classification)
        BY <1>a, PendingFacts, NextLine DEF Journal
      <3>2. Recorded(w) \in [Wake -> Seq(Classification)]
        BY <3>1, <1>a DEF Recorded, Journal
      <3>3. QED
        BY <1>11, <3>2, <1>a DEF AppendEvidence, AppendFails, Journal
    <2>3. UNCHANGED <<config, orphans>>
      BY <1>11 DEF AppendEvidence
    <2>4. QED
      BY <1>a, <2>1, <2>2, <2>3, TypePartsNext
  <1>12. CASE Handle(w)
    <2>1. Control' /\ Memory' /\ exit' \in [Wake -> ExitStatus]
      <3>1. CASE Goto(w, "handled") /\ UNCHANGED <<lock, memory, exit>>
        BY <3>1, <1>a, <1>c, GotoType, ForgetType DEF Journal
      <3>2. CASE Exit(w, Traceback)
        BY <3>2, <1>a, ExitType DEF ExitStatus
      <3>3. QED
        BY <1>12, <3>1, <3>2 DEF Handle
    <2>2. Journal'
      <3>1. Append(printed[w], pending[w].class) \in Seq(Classification)
        BY <1>a, PendingFacts, NextLine DEF Journal
      <3>2. Printed(w) \in [Wake -> Seq(Classification)]
        BY <3>1, <1>a DEF Journal, Printed
      <3>3. QED
        BY <1>12, <2>1, <3>2, <1>a DEF Handle, Journal
    <2>3. UNCHANGED <<config, orphans>>
      BY <1>12 DEF Handle
    <2>4. QED
      BY <1>a, <2>1, <2>2, <2>3, TypePartsNext
  <1>13. CASE Return(w)
    <2>1. Control' /\ Memory' /\ exit' \in [Wake -> ExitStatus]
      BY <1>13, <1>a, PendingFacts, ExitType DEF Return
    <2>2. Journal'
      BY <1>13, <2>1, <1>a DEF Return, Journal
    <2>3. UNCHANGED <<config, orphans>>
      BY <1>13 DEF Return
    <2>4. QED
      BY <1>a, <2>1, <2>2, <2>3, TypePartsNext
  <1>14. CASE Interrupt(w)
    <2>1. Control' /\ Memory'
      BY <1>14, <1>a, <1>c, RaiseType DEF Interrupt
    <2>2. Journal'
      BY <1>14, <1>a DEF Interrupt, Journal, output
    <2>3. config' = config /\ orphans' \subseteq Lasting
      BY <1>14, <1>a DEF Interrupt, LeaveChild
    <2>4. QED
      BY <1>a, <2>1, <2>2, <2>3, TypePartsNext
  <1>15. CASE InterruptUncaught(w) \/ Kill(w)
    <2>1. Control' /\ Memory' /\ exit' \in [Wake -> ExitStatus]
      <3>1. Exit(w, Signalled) /\ Signalled \in ExitStatus
        BY <1>15 DEF InterruptUncaught, Kill, ExitStatus
      <3>2. QED
        BY <3>1, <1>a, ExitType
    <2>2. Journal'
      BY <1>15, <2>1, <1>a DEF InterruptUncaught, Kill, Journal
    <2>3. config' = config /\ orphans' \subseteq Lasting
      BY <1>15, <1>a DEF InterruptUncaught, Kill, LeaveChild
    <2>4. QED
      BY <1>a, <2>1, <2>2, <2>3, TypePartsNext
  <1>16. QED
    BY <1>1, <1>2, <1>3, <1>4, <1>5, <1>6, <1>7, <1>8, <1>9, <1>10, <1>11, <1>12, <1>13,
       <1>14, <1>15
    DEF Step, Proceed, Signal

\* A step of one wake is not noticed by the others.
LEMMA StepFrame ==
    ASSUME TypeOK, NEW w \in Wake, Step(w) PROVE Frame(w)
  <1>a. Control /\ Memory /\ Journal
    BY TypeParts
  <1> USE DEF Frame, Control, Memory, Journal, memory, output, Goto, Conclude, Raise, Exit,
             Release, Forget
  <1>1. CASE Start(w)
    BY <1>1, <1>a DEF Start, NoSummary
  <1>2. CASE Preflight(w)
    BY <1>2, <1>a DEF Preflight
  <1>3. CASE TakeLock(w)
    BY <1>3, <1>a DEF TakeLock
  <1>4. CASE RefreshPre(w)
    BY <1>4, <1>a DEF RefreshPre
  <1>5. CASE FinalizerPre(w)
    BY <1>5, <1>a DEF FinalizerPre, FinalizerOutcome, AfterFinalizer
  <1>6. CASE RefreshAfterFinalization(w)
    BY <1>6, <1>a DEF RefreshAfterFinalization
  <1>7. CASE RecoveryPreWorker(w)
    BY <1>7, <1>a DEF RecoveryPreWorker, RecoveryAnswer, RecoveryActions
  <1>8. CASE RunAdapter(w)
    BY <1>8, <1>a DEF RunAdapter
  <1>9. CASE HostPostWorker(w)
    BY <1>9, <1>a DEF HostPostWorker
  <1>10. CASE Emit(w)
    BY <1>10, <1>a DEF Emit, Printed, RaiseOSError
  <1>11. CASE AppendEvidence(w)
    BY <1>11, <1>a DEF AppendEvidence, AppendFails, Recorded, RaiseOSError
  <1>12. CASE Handle(w)
    BY <1>12, <1>a DEF Handle, Printed, NoSummary
  <1>13. CASE Return(w)
    BY <1>13, <1>a DEF Return, NoSummary
  <1>14. CASE Interrupt(w)
    BY <1>14, <1>a DEF Interrupt
  <1>15. CASE InterruptUncaught(w) \/ Kill(w)
    BY <1>15, <1>a DEF InterruptUncaught, Kill, NoSummary
  <1>16. QED
    BY <1>1, <1>2, <1>3, <1>4, <1>5, <1>6, <1>7, <1>8, <1>9, <1>10, <1>11, <1>12, <1>13,
       <1>14, <1>15
    DEF Step, Proceed, Signal

\* Until a wake ends it has no status; before its last words it has one line at most.
LEMMA NotEnded ==
    ASSUME TypeOK, NEW w \in Wake, WakeInv(w), pc[w] # "idle"
    PROVE  /\ exit[w] = Running
           /\ pc[w] # "handled" => OneLine(printed[w], recorded[w])
           /\ \/ OneLine(printed[w], recorded[w])
              \/ \E last \in Classification : Ends(printed[w], recorded[w], last)
  <1>1. pc[w] \in Label /\ pending[w].class \in Classification
    BY PendingFacts, TypeParts DEF TypeOK
  <1>2. QED
    BY <1>1 DEF WakeInv, JournalInv, OneLine, BeforeWorker, Label, ChildPhase

\* The statuses of the handlers' summaries.
LEMMA HandlerStatus ==
    /\ 70 \in StatusOf["preflight_failure"] /\ 70 \in StatusOf["runner_internal_failure"]
    /\ 130 \in StatusOf["interrupted_invalid"]
  BY DEF StatusOf, Classification

\* An exception keeps what holds of the wake.
LEMMA RaiseInv ==
    ASSUME TypeOK, NEW w \in Wake, NEW class \in Classification, NEW status \in {70, 130},
           status \in StatusOf[class], Raise(w, class, status),
           OneLine(printed'[w], recorded'[w]), exit'[w] = Running
    PROVE  WakeInv(w)'
  <1>1. /\ pc'[w] = "handler"
        /\ pending'[w].class = class /\ pending'[w].status = status
    BY DEF TypeOK, Raise, Conclude
  <1>2. QED
    BY <1>1 DEF WakeInv, JournalInv, SummaryInv, EndInv, ClearanceInv, BeforeWorker

\* So does the end by a signal, or by an exception that nothing catches.
LEMMA CutShort ==
    ASSUME TypeOK, NEW w \in Wake, NEW status \in {Signalled, Traceback}, Exit(w, status),
           UNCHANGED <<printed, recorded>>, WakeInv(w), pc[w] # "idle"
    PROVE  WakeInv(w)'
  <1>1. pc'[w] = "idle" /\ exit'[w] = status
    BY DEF TypeOK, Exit, Conclude
  <1>2. Unreported(w)'
    BY <1>1, NotEnded DEF Unreported
  <1>3. QED
    BY <1>1, <1>2 DEF WakeInv, JournalInv, SummaryInv, EndInv, ClearanceInv, BeforeWorker

\* And an OSError.
LEMMA OSErrorInv ==
    ASSUME TypeOK, NEW w \in Wake, RaiseOSError(w),
           OneLine(printed'[w], recorded'[w]), exit'[w] = Running
    PROVE  WakeInv(w)'
  <1>1. /\ "runner_internal_failure" \in Classification /\ "preflight_failure" \in Classification
        /\ Raise(w, "runner_internal_failure", 70) \/ Raise(w, "preflight_failure", 70)
    BY DEF RaiseOSError, Classification
  <1>2. QED
    BY <1>1, HandlerStatus, RaiseInv

\* A step of one wake keeps what holds of it.
LEMMA StepWakeInv ==
    ASSUME TypeOK, NEW w \in Wake, WakeInv(w), Step(w) PROVE WakeInv(w)'
  <1>a. Control /\ Memory /\ Journal
    BY TypeParts
  <1>b. /\ "preflight_failure" \in Classification /\ "interrupted_invalid" \in Classification
        /\ "runner_internal_failure" \in Classification
        /\ 70 \in {70, 130} /\ 130 \in {70, 130}
    BY DEF Classification
  <1>c. pc[w] # "idle" => exit[w] = Running /\ (pc[w] # "handled" => OneLine(printed[w], recorded[w]))
    BY NotEnded
  <1> USE DEF Control, Memory, Journal, memory, output, Goto, Conclude, BeforeWorker
  <1>1. CASE Start(w)
    <2>1. /\ pc'[w] = "preflight" /\ printed'[w] = <<>> /\ recorded'[w] = <<>>
          /\ exit'[w] = Running
      BY <1>1, <1>a DEF Start
    <2>2. ~launched'[w] /\ ~stale'[w] /\ action'[w] = "none"
      BY <1>1, <1>a DEF Start, Forget
    <2>3. QED
      BY <2>1, <2>2 DEF WakeInv, JournalInv, SummaryInv, EndInv, ClearanceInv
  <1>2. CASE Preflight(w)
    <2>1. CASE Goto(w, "lock") /\ UNCHANGED <<lock, memory, output>>
      BY <1>2, <2>1, <1>a
      DEF Preflight, WakeInv, JournalInv, SummaryInv, EndInv, ClearanceInv
    <2>2. CASE Raise(w, "preflight_failure", 70)
      <3>1. UNCHANGED output /\ pc[w] = "preflight"
        BY <1>2 DEF Preflight
      <3>2. QED
        BY <1>b, <1>c, <2>2, <3>1, HandlerStatus, RaiseInv
    <2>3. QED
      BY <1>2, <2>1, <2>2 DEF Preflight
  <1>3. CASE TakeLock(w)
    <2>1. JournalInv(w)'
      BY <1>3, <1>a DEF TakeLock, WakeInv, JournalInv
    <2>2. SummaryInv(w)'
      BY <1>3, <1>a DEF TakeLock, WakeInv, JournalInv, SummaryInv, ClearanceInv, Vouches,
          StatusOf, Classification
    <2>3. EndInv(w)'
      BY <1>3, <1>a DEF TakeLock, EndInv
    <2>4. ClearanceInv(w)'
      BY <1>3, <1>a DEF TakeLock, WakeInv, ClearanceInv
    <2>5. QED
      BY <2>1, <2>2, <2>3, <2>4 DEF WakeInv
  <1>4. CASE RefreshPre(w)
    <2>1. JournalInv(w)'
      BY <1>4, <1>a DEF RefreshPre, WakeInv, JournalInv
    <2>2. SummaryInv(w)'
      BY <1>4, <1>a DEF RefreshPre, WakeInv, JournalInv, SummaryInv, ClearanceInv, Vouches,
          StatusOf, Classification
    <2>3. EndInv(w)'
      BY <1>4, <1>a DEF RefreshPre, EndInv
    <2>4. ClearanceInv(w)'
      BY <1>4, <1>a DEF RefreshPre, WakeInv, ClearanceInv
    <2>5. QED
      BY <2>1, <2>2, <2>3, <2>4 DEF WakeInv
  <1>5. CASE FinalizerPre(w)
    <2>1. JournalInv(w)'
      BY <1>5, <1>a DEF FinalizerPre, FinalizerOutcome, AfterFinalizer, WakeInv, JournalInv
    <2>2. SummaryInv(w)'
      BY <1>5, <1>a
      DEF FinalizerPre, FinalizerOutcome, AfterFinalizer, WakeInv, JournalInv, SummaryInv,
          ClearanceInv, Vouches,
          StatusOf, Classification
    <2>3. EndInv(w)'
      BY <1>5, <1>a DEF FinalizerPre, FinalizerOutcome, AfterFinalizer, EndInv
    <2>4. ClearanceInv(w)'
      BY <1>5, <1>a
      DEF FinalizerPre, FinalizerOutcome, AfterFinalizer, WakeInv, ClearanceInv
    <2>5. QED
      BY <2>1, <2>2, <2>3, <2>4 DEF WakeInv
  <1>6. CASE RefreshAfterFinalization(w)
    <2>1. JournalInv(w)'
      BY <1>6, <1>a DEF RefreshAfterFinalization, WakeInv, JournalInv
    <2>2. SummaryInv(w)'
      BY <1>6, <1>a
      DEF RefreshAfterFinalization, WakeInv, JournalInv, SummaryInv, ClearanceInv,
          Vouches,
          StatusOf, Classification
    <2>3. EndInv(w)'
      BY <1>6, <1>a DEF RefreshAfterFinalization, EndInv
    <2>4. ClearanceInv(w)'
      BY <1>6, <1>a DEF RefreshAfterFinalization, WakeInv, ClearanceInv
    <2>5. QED
      BY <2>1, <2>2, <2>3, <2>4 DEF WakeInv
  <1>7. CASE RecoveryPreWorker(w)
    <2>a. CASE Exit(w, Traceback)
      BY <1>7, <2>a, CutShort DEF RecoveryPreWorker
    <2>b. CASE ~Exit(w, Traceback)
      <3>1. JournalInv(w)'
        BY <1>7, <2>b, <1>a
        DEF RecoveryPreWorker, RecoveryAnswer, RecoveryActions, WakeInv, JournalInv
      <3>2. SummaryInv(w)'
        BY <1>7, <2>b, <1>a
        DEF RecoveryPreWorker, RecoveryAnswer, RecoveryActions, WakeInv, JournalInv,
            SummaryInv, ClearanceInv, Vouches,
            StatusOf, Classification
      <3>3. EndInv(w)'
        BY <1>7, <2>b, <1>a DEF RecoveryPreWorker, RecoveryAnswer, RecoveryActions, EndInv
      <3>4. ClearanceInv(w)'
        BY <1>7, <2>b, <1>a
        DEF RecoveryPreWorker, RecoveryAnswer, RecoveryActions, WakeInv, ClearanceInv
      <3>5. QED
        BY <3>1, <3>2, <3>3, <3>4 DEF WakeInv
    <2>c. QED
      BY <2>a, <2>b
  <1>8. CASE RunAdapter(w)
    <2>1. CASE Raise(w, "runner_internal_failure", 70)
      <3>1. UNCHANGED output /\ pc[w] = "adapter"
        BY <1>8 DEF RunAdapter
      <3>2. QED
        BY <1>b, <1>c, <2>1, <3>1, HandlerStatus, RaiseInv
    <2>2. CASE ~Raise(w, "runner_internal_failure", 70)
      <3>1. /\ pc[w] = "adapter" /\ pc'[w] = "host_post_worker" /\ launched'[w] = TRUE
            /\ UNCHANGED <<stale, action, output>>
        BY <1>8, <2>2, <1>a DEF RunAdapter
      <3>2. QED
        BY <3>1 DEF WakeInv, JournalInv, SummaryInv, EndInv, ClearanceInv
    <2>3. QED
      BY <2>1, <2>2
  <1>9. CASE HostPostWorker(w)
    <2>1. JournalInv(w)'
      BY <1>9, <1>a DEF HostPostWorker, WakeInv, JournalInv
    <2>2. SummaryInv(w)'
      <3>1. PICK failed \in BOOLEAN :
               Conclude(w, "emit", Result(code[w], failed).class, Result(code[w], failed).status)
        BY <1>9 DEF HostPostWorker
      <3>2. launched[w] = TRUE /\ UNCHANGED <<launched, code>>
        BY <1>9, <1>a DEF HostPostWorker, WakeInv, ClearanceInv
      <3>3. /\ Vouches(Result(code[w], failed).class, Result(code[w], failed).status, TRUE, code[w])
            /\ Result(code[w], failed).status \in StatusOf[Result(code[w], failed).class]
        BY <1>a, ResultFacts
      <3>4. /\ pending'[w].class = Result(code[w], failed).class
            /\ pending'[w].status = Result(code[w], failed).status /\ pc'[w] = "emit"
        BY <3>1, <1>a
      <3>5. QED
        BY <3>2, <3>3, <3>4 DEF SummaryInv
    <2>3. EndInv(w)'
      BY <1>9, <1>a DEF HostPostWorker, EndInv
    <2>4. ClearanceInv(w)'
      BY <1>9, <1>a DEF HostPostWorker, WakeInv, ClearanceInv
    <2>5. QED
      BY <2>1, <2>2, <2>3, <2>4 DEF WakeInv
  <1>10. CASE Emit(w)
    <2>a. /\ pc[w] = "emit" /\ UNCHANGED <<recorded, exit>> /\ recorded[w] = <<>>
          /\ printed[w] = <<>> /\ pending[w].class \in Classification
      BY <1>10, <1>a, PendingFacts DEF Emit, WakeInv, JournalInv
    <2>b. Printed(w)[w] = <<pending[w].class>>
      BY <2>a, <1>a, FirstLine DEF Printed
    <2>1. CASE RaiseOSError(w) /\ printed' \in {printed, Printed(w)}
      <3>1. OneLine(printed'[w], recorded'[w])
        BY <2>1, <2>a, <2>b DEF OneLine
      <3>2. QED
        BY <1>c, <2>1, <2>a, <3>1, OSErrorInv
    <2>2. CASE printed' = Printed(w) /\ Goto(w, "evidence") /\ UNCHANGED <<lock, memory>>
      <3>1. /\ pc'[w] = "evidence" /\ pending'[w] = pending[w]
            /\ printed'[w] = <<pending[w].class>> /\ UNCHANGED <<launched, code>>
        BY <2>2, <2>b, <1>a
      <3>2. QED
        BY <2>a, <3>1, <1>c DEF WakeInv, JournalInv, SummaryInv, EndInv, ClearanceInv
    <2>3. QED
      BY <1>10, <2>1, <2>2 DEF Emit
  <1>11. CASE AppendEvidence(w)
    <2>1. /\ pc[w] = "evidence" /\ printed[w] = <<pending[w].class>> /\ recorded[w] = <<>>
          /\ pending[w].class \in Classification
      BY <1>11, <1>a, PendingFacts DEF AppendEvidence, WakeInv, JournalInv
    <2>2. Recorded(w)[w] = <<pending[w].class>>
      BY <2>1, <1>a, FirstLine DEF Recorded
    <2>3. CASE AppendFails(w)
      <3>1. /\ UNCHANGED <<printed, exit>> /\ RaiseOSError(w)
            /\ recorded'[w] \in {<<>>, <<pending[w].class>>}
        BY <2>1, <2>2, <2>3 DEF AppendFails
      <3>2. OneLine(printed'[w], recorded'[w])
        BY <2>1, <3>1 DEF OneLine
      <3>3. QED
        BY <1>c, <2>1, <3>1, <3>2, OSErrorInv
    <2>4. CASE /\ recorded' = Recorded(w)
               /\ Goto(w, "return") /\ UNCHANGED <<lock, memory, printed, exit>>
      <3>1. /\ pc'[w] = "return" /\ pending'[w] = pending[w]
            /\ recorded'[w] = <<pending[w].class>> /\ UNCHANGED <<launched, code, printed, exit>>
        BY <2>2, <2>4, <1>a
      <3>2. QED
        BY <2>1, <3>1, <1>c DEF WakeInv, JournalInv, SummaryInv, EndInv, ClearanceInv
    <2>5. QED
      BY <1>11, <2>3, <2>4 DEF AppendEvidence
  <1>12. CASE Handle(w)
    <2>a. /\ pc[w] = "handler" /\ recorded' = recorded /\ pending[w].class \in Classification
          /\ OneLine(printed[w], recorded[w])
      BY <1>12, <1>a, PendingFacts DEF Handle, WakeInv, JournalInv
    <2>b. Ends(Printed(w)[w], recorded[w], pending[w].class)
      BY <2>a, <1>a, NextEnds DEF Printed
    <2>1. CASE Exit(w, Traceback) /\ printed' \in {printed, Printed(w)}
      <3>1. pc'[w] = "idle" /\ exit'[w] = Traceback
        BY <2>1, <1>a DEF Exit
      <3>2. Unreported(w)'
        BY <2>1, <2>a, <2>b, <3>1 DEF Unreported
      <3>3. QED
        BY <3>1, <3>2 DEF WakeInv, JournalInv, SummaryInv, EndInv, ClearanceInv
    <2>2. CASE printed' = Printed(w) /\ Goto(w, "handled") /\ UNCHANGED <<lock, memory, exit>>
      <3>1. pc'[w] = "handled" /\ pending'[w] = pending[w] /\ exit' = exit
        BY <2>2, <1>a
      <3>2. Ends(printed'[w], recorded'[w], pending[w].class)
        BY <2>2, <2>a, <2>b
      <3>3. QED
        BY <2>a, <3>1, <3>2, <1>c DEF WakeInv, JournalInv, SummaryInv, EndInv, ClearanceInv
    <2>3. QED
      BY <1>12, <2>1, <2>2 DEF Handle
  <1>13. CASE Return(w)
    <2>1. /\ pc[w] \in {"return", "handled"} /\ pc'[w] = "idle" /\ exit'[w] = pending[w].status
          /\ UNCHANGED <<printed, recorded>> /\ pending[w].class \in Classification
          /\ pending[w].status \in StatusOf[pending[w].class]
      BY <1>13, <1>a, PendingFacts DEF Return, Exit, WakeInv, SummaryInv
    <2>2. CASE pc[w] = "return"
      <3>1. /\ printed[w] = <<pending[w].class>> /\ recorded[w] = <<pending[w].class>>
            /\ Vouches(pending[w].class, pending[w].status, launched[w], code[w])
        BY <2>2 DEF WakeInv, JournalInv, SummaryInv
      <3>2. pending[w].status = 0 => UNCHANGED <<launched, code>>
        BY <1>13 DEF Return, Exit
      <3>3. Vouches(pending[w].class, pending[w].status, launched'[w], code'[w])
        BY <3>1, <3>2 DEF Vouches
      <3>4. Vouched(w)'
        BY <2>1, <3>1, <3>3 DEF Vouched
      <3>5. QED
        BY <2>1, <3>4 DEF WakeInv, JournalInv, SummaryInv, EndInv, ClearanceInv
    <2>3. CASE pc[w] = "handled"
      <3>1. Ends(printed[w], recorded[w], pending[w].class) /\ pending[w].status \in {70, 130}
        BY <2>3 DEF WakeInv, JournalInv, SummaryInv
      <3>2. Reported(w)'
        BY <2>1, <3>1 DEF Reported
      <3>3. QED
        BY <2>1, <3>2 DEF WakeInv, JournalInv, SummaryInv, EndInv, ClearanceInv
    <2>4. QED
      BY <2>1, <2>2, <2>3
  <1>14. CASE Interrupt(w)
    <2>1. /\ Raise(w, "interrupted_invalid", 130) /\ UNCHANGED output
          /\ pc[w] # "idle" /\ pc[w] # "handled"
      BY <1>14 DEF Interrupt
    <2>2. QED
      BY <1>b, <1>c, <2>1, HandlerStatus, RaiseInv
  <1>15. CASE InterruptUncaught(w) \/ Kill(w)
    <2>1. Exit(w, Signalled) /\ UNCHANGED <<printed, recorded>> /\ pc[w] # "idle"
      BY <1>15 DEF InterruptUncaught, Kill
    <2>2. QED
      BY <2>1, CutShort
  <1>16. QED
    BY <1>1, <1>2, <1>3, <1>4, <1>5, <1>6, <1>7, <1>8, <1>9, <1>10, <1>11, <1>12, <1>13,
       <1>14, <1>15
    DEF Step, Proceed, Signal

\* A wake that moves holds the lock afterwards exactly when its phase says so.
LEMMA StepOwnLock ==
    ASSUME TypeOK, NEW w \in Wake, HoldsLock(w) <=> lock = w, Step(w)
    PROVE  HoldsLock(w)' <=> lock' = w
  <1>a. Control /\ Memory /\ Journal /\ None # w
    BY TypeParts, NoneAssumption
  <1> USE DEF Control, HoldsLock, ChildPhase, memory, output, Goto, Conclude, Raise, Exit,
             Release, Forget
  <1>1. CASE Start(w)
    BY <1>1, <1>a DEF Start, NoSummary
  <1>2. CASE Preflight(w)
    BY <1>2, <1>a DEF Preflight
  <1>3. CASE TakeLock(w)
    BY <1>3, <1>a DEF TakeLock
  <1>4. CASE RefreshPre(w)
    BY <1>4, <1>a DEF RefreshPre
  <1>5. CASE FinalizerPre(w)
    BY <1>5, <1>a DEF FinalizerPre, FinalizerOutcome, AfterFinalizer
  <1>6. CASE RefreshAfterFinalization(w)
    BY <1>6, <1>a DEF RefreshAfterFinalization
  <1>7. CASE RecoveryPreWorker(w)
    BY <1>7, <1>a DEF RecoveryPreWorker, RecoveryAnswer, RecoveryActions
  <1>8. CASE RunAdapter(w)
    BY <1>8, <1>a DEF RunAdapter
  <1>9. CASE HostPostWorker(w)
    <2>1. PICK failed \in BOOLEAN :
             Conclude(w, "emit", Result(code[w], failed).class, Result(code[w], failed).status)
      BY <1>9 DEF HostPostWorker
    <2>2. Result(code[w], failed).class # "lock_contended"
      BY <1>a, ResultFacts DEF Memory
    <2>3. /\ pc'[w] = "emit" /\ pending'[w].class # "lock_contended"
          /\ lock' = lock /\ pc[w] = "host_post_worker"
      BY <1>9, <1>a, <2>1, <2>2 DEF HostPostWorker
    <2>4. QED
      BY <2>3
  <1>10. CASE Emit(w)
    BY <1>10, <1>a DEF Emit, Printed, RaiseOSError
  <1>11. CASE AppendEvidence(w)
    BY <1>11, <1>a DEF AppendEvidence, AppendFails, Recorded, RaiseOSError
  <1>12. CASE Handle(w)
    BY <1>12, <1>a DEF Handle, Printed, NoSummary
  <1>13. CASE Return(w)
    BY <1>13, <1>a DEF Return, NoSummary
  <1>14. CASE Interrupt(w)
    BY <1>14, <1>a DEF Interrupt
  <1>15. CASE InterruptUncaught(w) \/ Kill(w)
    BY <1>15, <1>a DEF InterruptUncaught, Kill, NoSummary
  <1>16. QED
    BY <1>1, <1>2, <1>3, <1>4, <1>5, <1>6, <1>7, <1>8, <1>9, <1>10, <1>11, <1>12, <1>13,
       <1>14, <1>15
    DEF Step, Proceed, Signal

(***************************************************************************)
(* Every step keeps the invariant.                                         *)
(***************************************************************************)
\* It holds before the first wake.
LEMMA InitInv == Init => Inv
  <1> SUFFICES ASSUME Init PROVE Inv
    OBVIOUS
  <1>1. TypeOK
    BY DEF Init, TypeOK, Label, Summary, NoSummary, Classification, Running
  <1>2. LockMatchesPhase
    BY NoneAssumption DEF Init, LockMatchesPhase, HoldsLock, ChildPhase
  <1>3. ASSUME NEW w \in Wake PROVE WakeInv(w)
    BY DEF Init, WakeInv, JournalInv, SummaryInv, EndInv, Unreported, OneLine, ClearanceInv,
           BeforeWorker
  <1>4. QED
    BY <1>1, <1>2, <1>3 DEF Inv

\* Every step keeps it.
LEMMA NextInv == Inv /\ [Next]_vars => Inv'
  <1> SUFFICES ASSUME Inv, [Next]_vars PROVE Inv'
    OBVIOUS
  <1>1. ASSUME NEW w \in Wake, Step(w) PROVE Inv'
    <2>1. TypeOK' /\ Frame(w)
      BY <1>1, StepTypeOK, StepFrame DEF Inv
    <2>2. ASSUME NEW v \in Wake PROVE HoldsLock(v)' <=> lock' = v
      <3>1. CASE v = w
        BY <1>1, <3>1, StepOwnLock DEF Inv, LockMatchesPhase
      <3>2. CASE v # w
        BY <2>1, <3>2, NoneAssumption DEF Frame, Inv, LockMatchesPhase, HoldsLock
      <3>3. QED
        BY <3>1, <3>2
    <2>3. ASSUME NEW v \in Wake PROVE WakeInv(v)'
      <3>1. CASE v = w
        BY <1>1, <3>1, StepWakeInv DEF Inv
      <3>2. CASE v # w
        <4>1. WakeInv(v)
          BY DEF Inv
        <4>2. QED
          BY <2>1, <3>2, <4>1
          DEF Frame, WakeInv, JournalInv, SummaryInv, EndInv, Vouched, Reported, Unreported,
              ClearanceInv
      <3>3. QED
        BY <3>1, <3>2
    <2>4. QED
      BY <2>1, <2>2, <2>3 DEF Inv, LockMatchesPhase
  <1>2. CASE OrphanEnds \/ UNCHANGED vars
    <2>1. UNCHANGED <<config, lock, pc, pending, memory, output>> /\ orphans' \subseteq orphans
      BY <1>2 DEF OrphanEnds, vars
    <2>2. TypeOK'
      BY <2>1 DEF Inv, TypeOK, memory, output
    <2>3. LockMatchesPhase'
      BY <2>1 DEF Inv, LockMatchesPhase, HoldsLock
    <2>4. ASSUME NEW w \in Wake PROVE WakeInv(w)'
      BY <2>1
      DEF Inv, WakeInv, JournalInv, SummaryInv, EndInv, Vouched, Reported, Unreported,
                  ClearanceInv, memory, output
    <2>5. QED
      BY <2>2, <2>3, <2>4 DEF Inv
  <1>3. QED
    BY <1>1, <1>2 DEF Next, Step

\* It holds of every state of every behaviour.
LEMMA InvAlways == Spec => []Inv
  BY InitInv, NextInv, PTL DEF Spec

(***************************************************************************)
(* Theorems.                                                               *)
(***************************************************************************)

\* Every variable of the runner keeps its type, however many wakes overlap.
THEOREM TypeCorrect == Spec => []TypeOK
  <1>1. Inv => TypeOK
    BY DEF Inv
  <1>2. QED
    BY <1>1, InvAlways, PTL

\* A phase runs only under the flock, and no wake that ended, raised, was interrupted or
\* was killed leaves it locked.
THEOREM LockSafety == Spec => []LockMatchesPhase
  <1>1. Inv => LockMatchesPhase
    BY DEF Inv
  <1>2. QED
    BY <1>1, InvAlways, PTL

\* No worker runs unasked, nor on a state that a merge of this wake left behind.
THEOREM WorkerClearance == Spec => []WorkerIsCleared
  <1>1. Inv => WorkerIsCleared
    BY DEF Inv, WakeInv, ClearanceInv, WorkerIsCleared, BeforeWorker
  <1>2. QED
    BY <1>1, InvAlways, PTL

\* A wake with a status of its own has ended, and what it printed goes with it.
LEMMA OwnStatus ==
    ASSUME Inv, NEW w \in Wake, exit[w] \in {0, 65, 70, 130}
    PROVE  /\ Vouched(w) \/ Reported(w)
           /\ exit[w] \in {0, 65} => Vouched(w)
  <1>1. WakeInv(w) /\ TypeOK
    BY DEF Inv
  <1>2. pc[w] = "idle"
    BY <1>1, NotEnded DEF Running
  <1>3. QED
    BY <1>1, <1>2
    DEF WakeInv, EndInv, Reported, Unreported, Running, Signalled, Traceback

\* Exit status 0 is never wrong about the worker, the journal and the evidence.
THEOREM HonestSuccess == Spec => []SuccessIsHonest
  <1>1. ASSUME Inv, NEW w \in Wake, exit[w] = 0
        PROVE  /\ Len(printed[w]) = 1 /\ recorded[w] = printed[w]
               /\ Vouches(printed[w][1], 0, launched[w], code[w])
    <2>1. PICK last \in Classification :
             /\ printed[w] = <<last>> /\ recorded[w] = <<last>>
             /\ Vouches(last, exit[w], launched[w], code[w])
      BY <1>1, OwnStatus DEF Vouched
    <2>2. QED
      BY <1>1, <2>1
  <1>2. Inv => SuccessIsHonest
    BY <1>1 DEF SuccessIsHonest, Vouches
  <1>3. QED
    BY <1>2, InvAlways, PTL

\* A wake prints two lines at most and records the first or nothing; its own exit status
\* goes with its last line, and 0 and 65 with the only line and its record.
THEOREM EvidenceSafety == Spec => []EvidenceFollowsJournal
  <1>1. ASSUME Inv, NEW w \in Wake
        PROVE  /\ Len(printed[w]) <= 2
               /\ recorded[w] # <<>> => printed[w] # <<>> /\ recorded[w] = <<printed[w][1]>>
    <2>1. \/ OneLine(printed[w], recorded[w])
          \/ \E last \in Classification : Ends(printed[w], recorded[w], last)
      <3>1. WakeInv(w) /\ TypeOK
        BY <1>1 DEF Inv
      <3>2. CASE pc[w] # "idle"
        BY <3>1, <3>2, NotEnded
      <3>3. CASE pc[w] = "idle"
        BY <3>1, <3>3 DEF WakeInv, EndInv, Vouched, Reported, Unreported, OneLine
      <3>4. QED
        BY <3>2, <3>3
    <2>2. CASE printed[w] = <<>> /\ recorded[w] = <<>>
      BY <2>2
    <2>3. ASSUME NEW last \in Classification, Ends(printed[w], recorded[w], last)
          PROVE  /\ Len(printed[w]) <= 2
                 /\ recorded[w] # <<>> => printed[w] # <<>> /\ recorded[w] = <<printed[w][1]>>
      BY <2>3, EndsFacts
    <2>4. QED
      BY <2>1, <2>2, <2>3 DEF OneLine, Ends
  <1>2. ASSUME Inv, NEW w \in Wake, exit[w] \in {0, 65, 70, 130}
        PROVE  /\ printed[w] # <<>> /\ exit[w] \in StatusOf[LastLine(w)]
               /\ exit[w] \in {0, 65} => Len(printed[w]) = 1 /\ recorded[w] = printed[w]
    <2>1. PICK last \in Classification :
             Ends(printed[w], recorded[w], last) /\ exit[w] \in StatusOf[last]
      BY <1>2, OwnStatus DEF Vouched, Reported, Ends
    <2>2. printed[w] # <<>> /\ LastLine(w) = last
      BY <2>1, EndsFacts DEF LastLine
    <2>3. ASSUME Vouched(w) PROVE Len(printed[w]) = 1 /\ recorded[w] = printed[w]
      BY <2>3 DEF Vouched
    <2>4. QED
      BY <1>2, <2>1, <2>2, <2>3, OwnStatus
  <1>3. Inv => EvidenceFollowsJournal
    BY <1>1, <1>2 DEF EvidenceFollowsJournal
  <1>4. QED
    BY <1>3, InvAlways, PTL

(***************************************************************************)
(* The wakes as the checkout sees them: one after the other.               *)
(***************************************************************************)
MappedPhase == [w \in Wake |-> AbstractPhase(w)]
MappedUnread == [w \in Wake |-> AbstractUnread(w)]
MappedAsked == [w \in Wake |-> AbstractAsked(w)]

\* A wake's step changes only what is seen of that wake.
LEMMA MappedStep ==
    ASSUME NEW w \in Wake, Frame(w)
    PROVE  /\ MappedPhase' = [MappedPhase EXCEPT ![w] = AbstractPhase(w)']
           /\ MappedUnread' = [MappedUnread EXCEPT ![w] = AbstractUnread(w)']
           /\ MappedAsked' = [MappedAsked EXCEPT ![w] = AbstractAsked(w)']
  <1>1. ASSUME NEW v \in Wake, v # w
        PROVE  /\ AbstractPhase(v)' = AbstractPhase(v)
               /\ AbstractUnread(v)' = AbstractUnread(v)
               /\ AbstractAsked(v)' = AbstractAsked(v)
    BY <1>1 DEF Frame, AbstractPhase, AbstractUnread, AbstractAsked, HoldsLock
  <1>2. QED
    BY <1>1 DEF MappedPhase, MappedUnread, MappedAsked

\* A wake is at work while it holds the lock; else nothing is seen of it.
LEMMA AwayFacts ==
    ASSUME NEW w \in Wake
    PROVE  /\ HoldsLock(w) <=> AbstractPhase(w) # "away"
           /\ ~HoldsLock(w) => ~AbstractUnread(w) /\ ~AbstractAsked(w)
  BY DEF AbstractPhase, AbstractUnread, AbstractAsked, HoldsLock, ChildPhase

\* A step of which the checkout sees nothing.
LEMMA UnseenStep ==
    ASSUME NEW w \in Wake, Frame(w), AbstractPhase(w)' = AbstractPhase(w),
           AbstractUnread(w)' = AbstractUnread(w), AbstractAsked(w)' = AbstractAsked(w)
    PROVE  UNCHANGED Abstract!vars
  <1>1. ASSUME NEW v \in Wake
        PROVE  /\ AbstractPhase(v)' = AbstractPhase(v)
               /\ AbstractUnread(v)' = AbstractUnread(v)
               /\ AbstractAsked(v)' = AbstractAsked(v)
    BY DEF Frame, AbstractPhase, AbstractUnread, AbstractAsked, HoldsLock
  <1>2. QED
    BY <1>1 DEF Abstract!vars

\* A step after which the wake is away: it leaves, or was away before.
LEMMA AwayStep ==
    ASSUME NEW w \in Wake, Frame(w), ~HoldsLock(w)'
    PROVE  Abstract!Leave(w) \/ UNCHANGED Abstract!vars
  <1>1. /\ AbstractPhase(w)' = "away"
        /\ AbstractUnread(w)' = FALSE /\ AbstractAsked(w)' = FALSE
    BY DEF AbstractPhase, AbstractUnread, AbstractAsked, HoldsLock
  <1>2. CASE HoldsLock(w)
    <2>1. /\ MappedPhase' = [MappedPhase EXCEPT ![w] = "away"]
          /\ MappedUnread' = [MappedUnread EXCEPT ![w] = FALSE]
          /\ MappedAsked' = [MappedAsked EXCEPT ![w] = FALSE]
      BY <1>1, MappedStep
    <2>2. MappedPhase[w] # "away"
      BY <1>2, AwayFacts DEF MappedPhase
    <2>3. QED
      BY <2>1, <2>2
      DEF Abstract!Leave, Abstract!AtWork, MappedPhase, MappedUnread, MappedAsked
  <1>3. CASE ~HoldsLock(w)
    <2>1. /\ AbstractPhase(w) = "away"
          /\ AbstractUnread(w) = FALSE /\ AbstractAsked(w) = FALSE
      BY <1>3, AwayFacts
    <2>2. QED
      BY <1>1, <2>1, UnseenStep
  <1>4. QED
    BY <1>2, <1>3

\* A step from one phase to another.
LEMMA MoveStep ==
    ASSUME NEW w \in Wake, Frame(w)
    PROVE  /\ Abstract!Move(w, AbstractPhase(w), AbstractPhase(w)')
           /\ MappedUnread[w] = AbstractUnread(w) /\ MappedAsked[w] = AbstractAsked(w)
           /\ AbstractUnread(w)' = AbstractUnread(w) => MappedUnread' = MappedUnread
           /\ AbstractAsked(w)' = AbstractAsked(w) => MappedAsked' = MappedAsked
  <1>1. MappedPhase' = [MappedPhase EXCEPT ![w] = AbstractPhase(w)']
    BY MappedStep
  <1>2. /\ MappedPhase[w] = AbstractPhase(w)
        /\ MappedUnread[w] = AbstractUnread(w) /\ MappedAsked[w] = AbstractAsked(w)
    BY DEF MappedPhase, MappedUnread, MappedAsked
  <1>3. ASSUME NEW v \in Wake, v # w
        PROVE  AbstractUnread(v)' = AbstractUnread(v) /\ AbstractAsked(v)' = AbstractAsked(v)
    BY <1>3 DEF Frame, AbstractUnread, AbstractAsked, HoldsLock
  <1>4. QED
    BY <1>1, <1>2, <1>3 DEF Abstract!Move, MappedPhase, MappedUnread, MappedAsked

\* What is seen of a wake that is in a phase, or reports under the lock.
LEMMA WorkFacts ==
    ASSUME TypeOK, NEW w \in Wake, HoldsLock(w)
    PROVE  /\ pc[w] \in ChildPhase => AbstractPhase(w) = pc[w]
           /\ pc[w] \notin ChildPhase => AbstractPhase(w) = "report"
           /\ AbstractUnread(w) = stale[w]
           /\ AbstractAsked(w) = (action[w] = "invoke_worker")
  <1>1. stale[w] \in BOOLEAN
    BY DEF TypeOK
  <1>2. QED
    BY <1>1 DEF HoldsLock, AbstractPhase, AbstractUnread, AbstractAsked

\* Afterwards.
LEMMA WorkFactsNext ==
    ASSUME TypeOK', NEW w \in Wake, HoldsLock(w)'
    PROVE  /\ pc'[w] \in ChildPhase => AbstractPhase(w)' = pc'[w]
           /\ pc'[w] \notin ChildPhase => AbstractPhase(w)' = "report"
           /\ AbstractUnread(w)' = stale'[w]
           /\ AbstractAsked(w)' = (action'[w] = "invoke_worker")
  <1>1. stale'[w] \in BOOLEAN
    BY DEF TypeOK
  <1>2. QED
    BY <1>1 DEF HoldsLock, AbstractPhase, AbstractUnread, AbstractAsked

\* The wake that takes the lock enters, and nobody else is at work.
LEMMA EnterStep ==
    ASSUME Inv, TypeOK', NEW w \in Wake, Frame(w), TakeLock(w), HoldsLock(w)'
    PROVE  Abstract!Enter(w)
  <1>a. TypeOK /\ LockMatchesPhase /\ ClearanceInv(w)
    BY DEF Inv, WakeInv
  <1>1. /\ pc[w] = "lock" /\ pc'[w] = "refresh_pre" /\ lock = None
        /\ UNCHANGED <<stale, action>>
    BY <1>a DEF TakeLock, TypeOK, Goto, Conclude, HoldsLock, ChildPhase, memory
  <1>2. ASSUME NEW v \in Wake PROVE AbstractPhase(v) = "away"
    <2>1. ~HoldsLock(v)
      BY <1>a, <1>1, NoneAssumption DEF LockMatchesPhase
    <2>2. QED
      BY <2>1, AwayFacts
  <1>3. AbstractPhase(w)' = "refresh_pre" /\ ~HoldsLock(w)
    BY <1>1 DEF AbstractPhase, ChildPhase, HoldsLock
  <1>4. ~stale[w] /\ action[w] = "none"
    BY <1>a, <1>1 DEF ClearanceInv, BeforeWorker
  <1>5. AbstractUnread(w)' = AbstractUnread(w) /\ AbstractAsked(w)' = AbstractAsked(w)
    BY <1>1, <1>3, <1>4 DEF AbstractUnread, AbstractAsked
  <1>6. /\ Abstract!Move(w, "away", "refresh_pre")
        /\ MappedUnread' = MappedUnread /\ MappedAsked' = MappedAsked
    BY <1>2, <1>3, <1>5, MoveStep
  <1>7. QED
    BY <1>2, <1>6 DEF Abstract!Enter, Abstract!AtWork, MappedUnread, MappedAsked

\* A phase that ends without the wake ending: the next one, or the report.
LEMMA PhaseStep ==
    ASSUME Inv, TypeOK', NEW w \in Wake, Frame(w), Proceed(w), HoldsLock(w), HoldsLock(w)'
    PROVE  Abstract!Next \/ UNCHANGED Abstract!vars
  <1>a. TypeOK /\ ClearanceInv(w)
    BY DEF Inv, WakeInv
  <1>b. /\ pc \in [Wake -> Label] /\ stale \in [Wake -> BOOLEAN]
        /\ pending \in [Wake -> Summary] /\ action \in [Wake -> RecoveryAnswer \cup {"none"}]
    BY <1>a DEF TypeOK
  <1>c. /\ pc[w] \in ChildPhase => AbstractPhase(w) = pc[w]
        /\ pc[w] \notin ChildPhase => AbstractPhase(w) = "report"
        /\ AbstractUnread(w) = stale[w]
        /\ AbstractAsked(w) = (action[w] = "invoke_worker")
    BY <1>a, WorkFacts
  <1>d. /\ pc'[w] \in ChildPhase => AbstractPhase(w)' = pc'[w]
        /\ pc'[w] \notin ChildPhase => AbstractPhase(w)' = "report"
        /\ AbstractUnread(w)' = stale'[w]
        /\ AbstractAsked(w)' = (action'[w] = "invoke_worker")
    BY WorkFactsNext
  <1>e. /\ Abstract!Move(w, AbstractPhase(w), AbstractPhase(w)')
        /\ MappedUnread[w] = AbstractUnread(w) /\ MappedAsked[w] = AbstractAsked(w)
        /\ MappedUnread' = [MappedUnread EXCEPT ![w] = AbstractUnread(w)']
        /\ MappedAsked' = [MappedAsked EXCEPT ![w] = AbstractAsked(w)']
        /\ AbstractUnread(w)' = AbstractUnread(w) => MappedUnread' = MappedUnread
        /\ AbstractAsked(w)' = AbstractAsked(w) => MappedAsked' = MappedAsked
    BY MoveStep, MappedStep
  <1>f. \A label \in ChildPhase : label \notin {"emit", "evidence", "return"}
    BY DEF ChildPhase
  <1>g. /\ "refresh_pre" \in ChildPhase /\ "finalizer_pre" \in ChildPhase
        /\ "refresh_after_finalization" \in ChildPhase /\ "recovery_pre_worker" \in ChildPhase
        /\ "adapter" \in ChildPhase /\ "host_post_worker" \in ChildPhase
        /\ "emit" \notin ChildPhase /\ "evidence" \notin ChildPhase /\ "return" \notin ChildPhase
    BY DEF ChildPhase
  <1>1. CASE RefreshPre(w)
    <2>1. /\ pc[w] = "refresh_pre" /\ pc'[w] \in {"finalizer_pre", "emit"}
          /\ UNCHANGED <<stale, action>>
      BY <1>1, <1>b DEF RefreshPre, Goto, Conclude, memory
    <2>2. Abstract!Refresh(w)
      BY <2>1, <1>c, <1>d, <1>e, <1>g DEF Abstract!Refresh, MappedUnread, MappedAsked
    <2>3. QED
      BY <2>2 DEF Abstract!Next
  <1>2. CASE FinalizerPre(w)
    <2>1. /\ pc[w] = "finalizer_pre" /\ action' = action
          /\ \/ pc'[w] = "recovery_pre_worker" /\ stale'[w] = FALSE
             \/ pc'[w] = "refresh_after_finalization" /\ stale'[w] = TRUE
             \/ pc'[w] = "emit" /\ stale'[w] \in BOOLEAN
      BY <1>2, <1>a, <1>b
      DEF FinalizerPre, FinalizerOutcome, AfterFinalizer, Goto, Conclude, memory, ClearanceInv,
          BeforeWorker
    <2>2. Abstract!Finalize(w)
      BY <2>1, <1>c, <1>d, <1>e, <1>g DEF Abstract!Finalize, MappedUnread, MappedAsked
    <2>3. QED
      BY <2>2 DEF Abstract!Next
  <1>3. CASE RefreshAfterFinalization(w)
    <2>1. /\ pc[w] = "refresh_after_finalization" /\ action' = action
          /\ \/ pc'[w] = "recovery_pre_worker" /\ stale'[w] = FALSE
             \/ pc'[w] = "emit" /\ stale' = stale
      BY <1>3, <1>b DEF RefreshAfterFinalization, Goto, Conclude, memory
    <2>2. Abstract!RefreshAgain(w)
      BY <2>1, <1>c, <1>d, <1>e, <1>g DEF Abstract!RefreshAgain, MappedUnread, MappedAsked
    <2>3. QED
      BY <2>2 DEF Abstract!Next
  <1>4. CASE RecoveryPreWorker(w)
    <2>1. /\ pc[w] = "recovery_pre_worker" /\ stale' = stale /\ ~stale[w] /\ action[w] = "none"
          /\ \/ pc'[w] = "adapter" /\ action'[w] = "invoke_worker"
             \/ pc'[w] = "emit" /\ action'[w] # "invoke_worker"
      BY <1>4, <1>a, <1>b
      DEF RecoveryPreWorker, RecoveryAnswer, RecoveryActions, Goto, Conclude, Exit, memory,
          ClearanceInv, BeforeWorker, HoldsLock, ChildPhase
    <2>2. Abstract!Recover(w)
      BY <2>1, <1>c, <1>d, <1>e, <1>g DEF Abstract!Recover, MappedUnread, MappedAsked
    <2>3. QED
      BY <2>2 DEF Abstract!Next
  <1>5. CASE RunAdapter(w)
    <2>1. /\ pc[w] = "adapter" /\ pc'[w] = "host_post_worker" /\ UNCHANGED <<stale, action>>
          /\ ~stale[w] /\ action[w] = "invoke_worker"
      BY <1>5, <1>a, <1>b
      DEF RunAdapter, Goto, Raise, Conclude, memory, ClearanceInv, BeforeWorker, HoldsLock,
          ChildPhase
    <2>2. Abstract!Work(w)
      BY <2>1, <1>c, <1>d, <1>e, <1>g DEF Abstract!Work, MappedUnread, MappedAsked
    <2>3. QED
      BY <2>2 DEF Abstract!Next
  <1>6. CASE HostPostWorker(w)
    <2>1. /\ pc[w] = "host_post_worker" /\ pc'[w] = "emit" /\ UNCHANGED <<stale, action>>
      BY <1>6, <1>b DEF HostPostWorker, Conclude, memory
    <2>2. Abstract!FollowUp(w)
      BY <2>1, <1>c, <1>d, <1>e, <1>g DEF Abstract!FollowUp, MappedUnread, MappedAsked
    <2>3. QED
      BY <2>2 DEF Abstract!Next
  <1>7. CASE Emit(w) \/ AppendEvidence(w)
    <2>1. /\ pc[w] \in {"emit", "evidence"} /\ pc'[w] \in {"evidence", "return"}
          /\ UNCHANGED <<stale, action>>
      BY <1>7, <1>b
      DEF Emit, AppendEvidence, AppendFails, RaiseOSError, Goto, Raise, Conclude, memory,
          HoldsLock, ChildPhase
    <2>2. QED
      BY <2>1, <1>c, <1>d, <1>g, UnseenStep
  <1>8. CASE Preflight(w) \/ TakeLock(w) \/ Handle(w) \/ Return(w)
    BY <1>8, <1>b
    DEF Preflight, TakeLock, Handle, Return, Exit, Conclude, HoldsLock, ChildPhase
  <1>9. QED
    BY <1>1, <1>2, <1>3, <1>4, <1>5, <1>6, <1>7, <1>8 DEF Proceed

\* Nothing else takes a wake from away to work.
LEMMA OnlyTakeLock ==
    ASSUME TypeOK, NEW w \in Wake, Step(w), ~HoldsLock(w), HoldsLock(w)'
    PROVE  TakeLock(w)
  <1>a. pc \in [Wake -> Label] /\ pending \in [Wake -> Summary]
    BY DEF TypeOK
  <1>1. pc[w] \notin ChildPhase /\ pc'[w] \in ChildPhase \cup {"emit", "evidence", "return"}
    BY DEF HoldsLock
  <1>2. ~(Start(w) \/ Preflight(w) \/ Handle(w) \/ Return(w) \/ Signal(w))
    BY <1>1, <1>a
    DEF Start, Preflight, Handle, Return, Signal, Interrupt, InterruptUncaught, Kill, Raise, Exit,
        Goto, Conclude, ChildPhase
  <1>3. ~(Emit(w) \/ AppendEvidence(w))
    BY <1>a
    DEF Emit, AppendEvidence, AppendFails, RaiseOSError, Raise, Goto, Conclude, HoldsLock,
                ChildPhase
  <1>4. ~(\/ RefreshPre(w) \/ FinalizerPre(w) \/ RefreshAfterFinalization(w)
          \/ RecoveryPreWorker(w) \/ RunAdapter(w) \/ HostPostWorker(w))
    BY <1>1
    DEF RefreshPre, FinalizerPre, RefreshAfterFinalization, RecoveryPreWorker, RunAdapter,
                HostPostWorker, ChildPhase
  <1>5. QED
    BY <1>2, <1>3, <1>4 DEF Step, Proceed

\* Every step is one of the abstract wakes or is not seen.
LEMMA StepSimulation ==
    ASSUME Inv, Inv', [Next]_vars PROVE Abstract!Next \/ UNCHANGED Abstract!vars
  <1>1. CASE OrphanEnds \/ UNCHANGED vars
    <2>1. UNCHANGED <<pc, pending, stale, action>>
      BY <1>1 DEF OrphanEnds, vars, memory
    <2>2. QED
      BY <2>1 DEF Abstract!vars, AbstractPhase, AbstractUnread, AbstractAsked, HoldsLock
  <1>2. ASSUME NEW w \in Wake, Step(w) PROVE Abstract!Next \/ UNCHANGED Abstract!vars
    <2>1. TypeOK /\ TypeOK' /\ Frame(w)
      BY <1>2, StepFrame DEF Inv
    <2>2. CASE ~HoldsLock(w)'
      BY <2>1, <2>2, AwayStep DEF Abstract!Next
    <2>3. CASE HoldsLock(w) /\ HoldsLock(w)'
      <3>1. Proceed(w)
        BY <1>2, <2>1, <2>3
        DEF Step, Start, Signal, Interrupt, InterruptUncaught, Kill, Raise, Exit, Goto, Conclude,
            HoldsLock, ChildPhase, TypeOK
      <3>2. QED
        BY <2>1, <2>3, <3>1, PhaseStep
    <2>4. CASE ~HoldsLock(w) /\ HoldsLock(w)'
      <3>1. TakeLock(w)
        BY <1>2, <2>1, <2>4, OnlyTakeLock
      <3>2. QED
        BY <2>1, <2>4, <3>1, EnterStep DEF Abstract!Next
    <2>5. QED
      BY <2>2, <2>3, <2>4
  <1>3. QED
    BY <1>1, <1>2 DEF Next, Step

\* Overlapping wakes are wakes one after the other, for any number of them.
THEOREM WakesAreSerial == Spec => ImplementsSerialWakes
  <1>1. Init => Abstract!Init
    BY DEF Init, Abstract!Init, AbstractPhase, AbstractUnread, AbstractAsked, HoldsLock,
           ChildPhase
  <1>2. Inv /\ Inv' /\ [Next]_vars => [Abstract!Next]_(Abstract!vars)
    BY StepSimulation
  <1>3. QED
    BY <1>1, <1>2, InvAlways, PTL DEF Spec, ImplementsSerialWakes, Abstract!Spec

(***************************************************************************)
(* The part of termination that needs no fairness: a wake runs down.       *)
(***************************************************************************)
\* At most so many steps of its own are left to a wake at each label.
StepsLeft ==
    [idle |-> 0, handled |-> 1, handler |-> 2, return |-> 3, evidence |-> 4, emit |-> 5,
     host_post_worker |-> 6, adapter |-> 7, recovery_pre_worker |-> 8,
     refresh_after_finalization |-> 9, finalizer_pre |-> 10, refresh_pre |-> 11, lock |-> 12,
     preflight |-> 13]

Own(w) == <<pc[w], pending[w], launched[w], stale[w], action[w], code[w],
            printed[w], recorded[w], exit[w]>>

\* Whatever a step does to a wake that has started brings it nearer to its end.
WakesRunDown ==
    [][\A w \in Wake : pc[w] # "idle" =>
          StepsLeft[pc'[w]] < StepsLeft[pc[w]] \/ UNCHANGED Own(w)]_vars

\* Each step of a started wake lowers the measure.
LEMMA StepRunsDown ==
    ASSUME TypeOK, NEW w \in Wake, Step(w), pc[w] # "idle"
    PROVE  StepsLeft[pc'[w]] < StepsLeft[pc[w]]
  <1>a. pc \in [Wake -> Label]
    BY DEF TypeOK
  <1> USE DEF StepsLeft, Goto, Conclude, Raise, Exit, Forget
  <1>1. CASE Start(w)
    BY <1>1 DEF Start
  <1>2. CASE Preflight(w)
    BY <1>2, <1>a DEF Preflight
  <1>3. CASE TakeLock(w)
    BY <1>3, <1>a DEF TakeLock
  <1>4. CASE RefreshPre(w)
    BY <1>4, <1>a DEF RefreshPre
  <1>5. CASE FinalizerPre(w)
    BY <1>5, <1>a DEF FinalizerPre, FinalizerOutcome, AfterFinalizer
  <1>6. CASE RefreshAfterFinalization(w)
    BY <1>6, <1>a DEF RefreshAfterFinalization
  <1>7. CASE RecoveryPreWorker(w)
    BY <1>7, <1>a DEF RecoveryPreWorker, RecoveryAnswer, RecoveryActions
  <1>8. CASE RunAdapter(w)
    BY <1>8, <1>a DEF RunAdapter
  <1>9. CASE HostPostWorker(w)
    BY <1>9, <1>a DEF HostPostWorker
  <1>10. CASE Emit(w)
    BY <1>10, <1>a DEF Emit, Printed, RaiseOSError
  <1>11. CASE AppendEvidence(w)
    BY <1>11, <1>a DEF AppendEvidence, AppendFails, Recorded, RaiseOSError
  <1>12. CASE Handle(w)
    BY <1>12, <1>a DEF Handle, Printed, NoSummary
  <1>13. CASE Return(w)
    BY <1>13, <1>a DEF Return, NoSummary
  <1>14. CASE Interrupt(w)
    BY <1>14, <1>a DEF Interrupt, Label, ChildPhase
  <1>15. CASE InterruptUncaught(w) \/ Kill(w)
    BY <1>15, <1>a DEF InterruptUncaught, Kill, Label, ChildPhase
  <1>16. QED
    BY <1>1, <1>2, <1>3, <1>4, <1>5, <1>6, <1>7, <1>8, <1>9, <1>10, <1>11, <1>12, <1>13,
       <1>14, <1>15
    DEF Step, Proceed, Signal

\* No wake goes round in circles: after Start it has thirteen steps at most, however the
\* hooks answer, signals arrive and other wakes interfere.
THEOREM WakesAreBounded == Spec => WakesRunDown
  <1> DEFINE RunsDown(w) == pc[w] # "idle" =>
                StepsLeft[pc'[w]] < StepsLeft[pc[w]] \/ UNCHANGED Own(w)
  <1>1. ASSUME Inv, [Next]_vars, NEW w \in Wake PROVE RunsDown(w)
    <2>1. CASE Step(w)
      BY <1>1, <2>1, StepRunsDown DEF Inv
    <2>2. ASSUME NEW v \in Wake, v # w, Step(v) PROVE UNCHANGED Own(w)
      BY <1>1, <2>2, StepFrame DEF Inv, Frame, Own
    <2>3. CASE OrphanEnds \/ UNCHANGED vars
      BY <2>3 DEF OrphanEnds, vars, memory, output, Own
    <2>4. QED
      BY <1>1, <2>1, <2>2, <2>3 DEF Next, Step
  <1>2. Inv /\ [Next]_vars => \A w \in Wake : RunsDown(w)
    BY <1>1
  <1>3. QED
    BY <1>2, InvAlways, PTL DEF Spec, WakesRunDown
=============================================================================
