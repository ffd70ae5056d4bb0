---------------------------- MODULE AdapterProofs ----------------------------
(***************************************************************************)
(* Adapter's type invariant and safety properties: whatever Codex and its  *)
(* helper do, and wherever the adapter is interrupted or killed.           *)
(***************************************************************************)
EXTENDS Adapter, TLAPS

Whole == \A f \in Artifact : files[f] = "whole"

\* A summary of a finished execution: what it says is so, and so is its exit status.
Proven(s, code) ==
    /\ codex = "exited" /\ s.status = status /\ s.paths = TRUE /\ Whole
    /\ \/ s.class = "valid_completion" /\ code = 0 /\ status = 0 /\ output = "events" /\ ~helper
       \/ s.class = "execution_failure" /\ code = 70
       \/ s.class = "interrupted_invalid" /\ (code \in {70, 130} \/ (code = 65 /\ status = 0))

Reported(s, code) ==
    \/ s = InitialSummary /\ code = 70 /\ codex # "running"
    \/ Proven(s, code)

\* What was done by each step of the adapter.
ProgressInv ==
    /\ pc \in {"check", "prepare", "launch"} => codex = "absent"
    /\ pc \in {"save", "save_interrupted", "classify"} => Drained
    /\ pc = "classify" => Whole

\* Nothing is printed, or the summary is, once or (its first print having failed) twice.
Lines(s) == {<<>>, <<s>>, Append(<<s>>, s)}

\* Nothing is reported before the end, and then only what is so.
ReportInv ==
    /\ pc \notin {"emit", "emit_interrupted", "return", "ended"} => summary = InitialSummary
    /\ pc \notin {"emit", "return", "ended"} => printed = <<>>
    /\ pc # "ended" => exit = Running
    /\ pc \in {"emit", "emit_interrupted", "return"} => Reported(summary, result)
    /\ pc = "emit_interrupted" => summary.class = "interrupted_invalid"
    /\ pc = "emit" => printed = <<>> \/ (printed = <<summary>> /\ result = 70)
    /\ pc = "return" =>
          printed = <<summary>> \/ (printed = Append(<<summary>>, summary) /\ result = 70)
    /\ pc = "ended" =>
          \/ printed = <<>> /\ exit \in {Traceback, SigInt, SigKill}
          \/ /\ printed \in Lines(summary) /\ Reported(summary, result)
             /\ exit \in {Traceback, SigInt, SigKill}
          \/ /\ printed = <<summary>> \/ (printed = Append(<<summary>>, summary) /\ result = 70)
             /\ exit = result /\ Reported(summary, result)

Inv == TypeOK /\ ProgressInv /\ ReportInv

(***************************************************************************)
(* The inductive invariant.                                                *)
(***************************************************************************)

\* It holds before the adapter starts.
LEMMA InitInv == Init => Inv
  <1> SUFFICES ASSUME Init PROVE Inv
    OBVIOUS
  <1>1. TypeOK
    <2>1. InitialSummary \in Summary
      BY DEF InitialSummary, Summary
    <2>2. <<>> \in Seq(Summary)
      OBVIOUS
    <2>3. QED
      BY <2>1, <2>2 DEF Init, TypeOK, Label, ReturnCode, Output, Running
  <1>2. ProgressInv /\ ReportInv
    BY DEF Init, ProgressInv, ReportInv, Drained
  <1>3. QED
    BY <1>1, <1>2 DEF Inv

\* Codex and its helper disturb nothing that was reported.
LEMMA ChildStep ==
    ASSUME Inv, CodexStartsHelper \/ CodexEnds \/ HelperEnds PROVE Inv'
  <1>1. TypeOK'
    <2>1. /\ codex' \in {"absent", "running", "exited"} /\ helper' \in BOOLEAN
          /\ status' \in ReturnCode /\ output' \in Output
      BY DEF Inv, TypeOK, CodexStartsHelper, CodexEnds, HelperEnds
    <2>2. UNCHANGED <<pc, files, summary, result, printed, exit>>
      BY DEF CodexStartsHelper, CodexEnds, HelperEnds
    <2>3. QED
      BY <2>1, <2>2 DEF Inv, TypeOK
  <1>2. ProgressInv'
    BY DEF Inv, ProgressInv, Drained, Whole, CodexStartsHelper, CodexEnds, HelperEnds
  <1>3. Reported(summary, result) => Reported(summary, result)'
    BY DEF Reported, Proven, Whole, InitialSummary, CodexStartsHelper, CodexEnds, HelperEnds
  <1>4. ReportInv'
    BY <1>3 DEF Inv, ReportInv, CodexStartsHelper, CodexEnds, HelperEnds
  <1>5. QED
    BY <1>1, <1>2, <1>4 DEF Inv

\* What the adapter may report are summaries.
LEMMA SummaryType ==
    ASSUME TypeOK
    PROVE  /\ InitialSummary \in Summary
           /\ [class |-> "interrupted_invalid", status |-> status, paths |-> TRUE] \in Summary
           /\ [class |-> Verdict(status, output).class, status |-> status, paths |-> TRUE]
                 \in Summary
           /\ Verdict(status, output).code \in {0, 65, 70, 130}
  BY DEF TypeOK, ReturnCode, Output, Summary, InitialSummary, Unknown, Verdict

\* The steps of the adapter and what ends them.
AdapterStep == Proceed \/ InterruptWait \/ InterruptElsewhere \/ Kill

\* A step of the adapter keeps the types.
LEMMA AdapterTypeOK ==
    ASSUME Inv, AdapterStep PROVE TypeOK'
  <1>a. TypeOK /\ ReportInv
    BY DEF Inv
  <1>b. /\ InitialSummary \in Summary
        /\ [class |-> "interrupted_invalid", status |-> status, paths |-> TRUE] \in Summary
        /\ [class |-> Verdict(status, output).class, status |-> status, paths |-> TRUE]
              \in Summary
        /\ Verdict(status, output).code \in {0, 65, 70, 130}
    BY <1>a, SummaryType
  <1> USE DEF TypeOK, Label, Goto, Report, ReportAt, ReportInterrupted, End, child, Running,
              SigInt, SigKill, Traceback
  <1>1. CASE CheckRepository
    BY <1>1, <1>a DEF CheckRepository
  <1>2. CASE PrepareOutput
    BY <1>2, <1>a DEF PrepareOutput
  <1>3. CASE LaunchCodex
    BY <1>3, <1>a DEF LaunchCodex
  <1>4. CASE BeginWait
    BY <1>4, <1>a DEF BeginWait
  <1>5. CASE CodexFinishes
    BY <1>5, <1>a DEF CodexFinishes
  <1>6. CASE TerminatedInTime
    BY <1>6, <1>a DEF TerminatedInTime
  <1>7. CASE TerminationTimesOut
    BY <1>7, <1>a DEF TerminationTimesOut, KillCodex, ReturnCode
  <1>8. CASE ReapCodex
    BY <1>8, <1>a DEF ReapCodex
  <1>9. CASE SaveArtifact
    <2>1. files' \in [Artifact -> {"absent", "cut", "whole"}]
      BY <1>9, <1>a DEF SaveArtifact, Artifact
    <2>2. /\ pc' \in Label
          /\ exit' \in {Running, SigInt, SigKill, Traceback, 0, 65, 70, 130}
      BY <1>9, <1>a DEF SaveArtifact, SaveFails
    <2>3. \/ summary' = summary /\ result' \in {result, 70}
          \/ /\ summary' = [class |-> "interrupted_invalid", status |-> status, paths |-> TRUE]
             /\ result' = 130
      BY <1>9 DEF SaveArtifact, SaveFails
    <2>4. summary' \in Summary /\ result' \in {0, 65, 70, 130}
      BY <1>a, <1>b, <2>3
    <2>5. QED
      BY <1>9, <1>a, <2>1, <2>2, <2>4 DEF SaveArtifact
  <1>10. CASE ClassifyExecution
    BY <1>10, <1>a, <1>b DEF ClassifyExecution
  <1>11. CASE Emit
    <2>1. Append(printed, summary) \in Seq(Summary)
      BY <1>a
    <2>2. QED
      BY <1>11, <1>a, <2>1 DEF Emit, EmitFails
  <1>12. CASE InterruptWait
    BY <1>12, <1>a DEF InterruptWait, ReturnCode
  <1>13. CASE InterruptElsewhere
    BY <1>13, <1>a DEF InterruptElsewhere
  <1>14. CASE Kill \/ Return
    <2>1. <<>> \in Seq(Summary)
      OBVIOUS
    <2>2. printed' \in Seq(Summary) /\ pc' \in Label
          /\ exit' \in {Running, SigInt, SigKill, Traceback, 0, 65, 70, 130}
      BY <1>14, <1>a, <2>1 DEF Kill, Return
    <2>3. UNCHANGED <<child, files, summary, result>>
      BY <1>14 DEF Kill, Return
    <2>4. QED
      BY <1>a, <2>2, <2>3
  <1>15. QED
    BY <1>1, <1>2, <1>3, <1>4, <1>5, <1>6, <1>7, <1>8, <1>9, <1>10, <1>11, <1>12, <1>13, <1>14
    DEF AdapterStep, Proceed

\* A step of the adapter knows what was done, and drains Codex before it saves.
LEMMA AdapterProgress ==
    ASSUME Inv, AdapterStep PROVE ProgressInv'
  <1>a. TypeOK /\ ProgressInv
    BY DEF Inv
  <1> USE DEF ProgressInv, Drained, Whole, Goto, Report, ReportAt, ReportInterrupted, End, child
  <1>1. CASE SaveArtifact
    <2>1. pc \in {"save", "save_interrupted"} /\ Drained /\ UNCHANGED child
      BY <1>1, <1>a DEF SaveArtifact
    <2>2. pc' = "classify" => Whole'
      BY <1>1, <1>a DEF SaveArtifact, SaveFails, Artifact, TypeOK
    <2>3. pc' \in {"save", "save_interrupted", "classify", "emit", "emit_interrupted", "ended"}
      BY <1>1, <2>1 DEF SaveArtifact, SaveFails
    <2>4. QED
      BY <2>1, <2>2, <2>3
  <1>2. CASE AdapterStep /\ ~SaveArtifact
    BY <1>2, <1>a
    DEF AdapterStep, Proceed, CheckRepository, PrepareOutput, LaunchCodex, BeginWait,
        CodexFinishes, TerminatedInTime, TerminationTimesOut, KillCodex, ReapCodex,
        ClassifyExecution, Emit, EmitFails, Return, InterruptWait, InterruptElsewhere, Kill
  <1>3. QED
    BY <1>1, <1>2

\* The verdict on a finished execution is proven by it.
LEMMA VerdictProven ==
    ASSUME TypeOK, Drained, Whole
    PROVE  Proven([class |-> Verdict(status, output).class, status |-> status, paths |-> TRUE],
                  Verdict(status, output).code)
  BY DEF TypeOK, Drained, ReturnCode, Verdict, Proven

\* A step of the adapter reports at its end, what is so.
LEMMA AdapterReport ==
    ASSUME Inv, AdapterStep PROVE ReportInv'
  <1>a. TypeOK /\ ProgressInv /\ ReportInv
    BY DEF Inv
  <1> USE DEF ReportInv, Goto, Report, ReportAt, ReportInterrupted, End, child
  <1>1. CASE CheckRepository \/ PrepareOutput \/ LaunchCodex
    <2>1. /\ pc \in {"check", "prepare", "launch"} /\ codex = "absent"
          /\ summary = InitialSummary /\ printed = <<>> /\ exit = Running
      BY <1>1, <1>a DEF ProgressInv, CheckRepository, PrepareOutput, LaunchCodex
    <2>2. \/ pc' \in {"prepare", "launch", "launched"} /\ UNCHANGED summary
          \/ pc' = "emit" /\ summary' = summary /\ result' = 70 /\ UNCHANGED codex
      BY <1>1 DEF CheckRepository, PrepareOutput, LaunchCodex
    <2>3. UNCHANGED <<printed, exit>>
      BY <1>1 DEF CheckRepository, PrepareOutput, LaunchCodex
    <2>4. pc' = "emit" => Reported(summary, result)'
      BY <2>1, <2>2 DEF Reported
    <2>5. QED
      BY <2>1, <2>2, <2>3, <2>4
  <1>2. CASE BeginWait \/ CodexFinishes \/ TerminatedInTime \/ TerminationTimesOut
             \/ ReapCodex \/ InterruptWait
    BY <1>2, <1>a DEF BeginWait, CodexFinishes, TerminatedInTime, TerminationTimesOut,
                      ReapCodex, InterruptWait
  <1>3. CASE SaveArtifact
    <2>1. /\ pc \in {"save", "save_interrupted"} /\ Drained /\ summary = InitialSummary
          /\ printed = <<>> /\ exit = Running /\ UNCHANGED <<child, printed>>
      BY <1>3, <1>a DEF ProgressInv, SaveArtifact
    <2>2. \/ /\ pc' \in {"save", "save_interrupted", "classify"}
             /\ UNCHANGED <<summary, result, exit>>
          \/ /\ pc' = "emit_interrupted" /\ result' = 130 /\ exit' = exit /\ Whole'
             /\ summary' = [class |-> "interrupted_invalid", status |-> status, paths |-> TRUE]
          \/ pc' = "emit" /\ summary' = summary /\ result' = 70 /\ exit' = exit
          \/ pc' = "ended" /\ exit' = Traceback
      BY <1>3, <1>a DEF SaveArtifact, SaveFails, Whole, Artifact, TypeOK
    <2>3. pc' \in {"emit", "emit_interrupted"} => Reported(summary, result)'
      BY <2>1, <2>2 DEF Reported, Proven, Drained, Whole
    <2>4. QED
      BY <2>1, <2>2, <2>3
  <1>4. CASE ClassifyExecution
    <2> DEFINE s == [class |-> Verdict(status, output).class, status |-> status, paths |-> TRUE]
               code == Verdict(status, output).code
    <2>1. Proven(s, code)
      BY <1>4, <1>a, VerdictProven DEF ProgressInv, ClassifyExecution
    <2>2. /\ pc' = "emit" /\ summary' = s /\ result' = code /\ UNCHANGED <<child, files, printed, exit>>
          /\ pc = "classify"
      BY <1>4 DEF ClassifyExecution
    <2> HIDE DEF s, code
    <2>3. Reported(summary, result)'
      BY <2>1, <2>2 DEF Reported, Proven, Whole
    <2>4. QED
      BY <1>a, <2>2, <2>3
  <1>5. CASE Emit
    <2>a. Append(<<>>, summary) = <<summary>>
      OBVIOUS
    <2>b. Reported(summary, result) /\ UNCHANGED <<child, files>> /\ exit = Running
      BY <1>5, <1>a DEF Emit
    <2>c. summary' = summary /\ result' = result => Reported(summary, result)'
      BY <2>b DEF Reported, Proven, Whole
    <2>1. CASE printed' = Append(printed, summary) /\ Goto("return") /\ UNCHANGED exit
      BY <1>5, <1>a, <2>1, <2>a, <2>b, <2>c DEF Emit
    <2>2. CASE EmitFails /\ pc = "emit"
      <3>1. printed' \in Lines(summary) /\ UNCHANGED <<summary, result>>
        BY <1>a, <2>2, <2>a DEF EmitFails, Lines
      <3>2. QED
        BY <2>2, <2>b, <2>c, <3>1 DEF EmitFails, Lines
    <2>3. CASE EmitFails /\ pc = "emit_interrupted"
      <3>1. /\ pc' = "emit" /\ summary' = summary /\ result' = 70 /\ exit' = exit
            /\ printed' = <<>> \/ printed' = <<summary>>
        BY <1>a, <2>3, <2>a DEF EmitFails
      <3>2. Reported(summary, result)'
        BY <2>3, <2>b, <3>1, <1>a DEF Reported, Proven, Whole, InitialSummary
      <3>3. QED
        BY <2>b, <3>1, <3>2
    <2>4. QED
      BY <1>5, <2>1, <2>2, <2>3 DEF Emit
  <1>6. CASE Return
    <2>1. /\ pc = "return" /\ Reported(summary, result)
          /\ UNCHANGED <<child, files, summary, result>> /\ pc' = "ended"
          /\ (printed' = printed /\ exit' = result) \/ (printed' = <<>> /\ exit' = Traceback)
      BY <1>6, <1>a DEF Return
    <2>2. Reported(summary, result)'
      BY <2>1 DEF Reported, Proven, Whole
    <2>3. QED
      BY <1>a, <2>1, <2>2 DEF Lines
  <1>8. CASE InterruptElsewhere \/ Kill
    <2>1. /\ pc # "ended" /\ pc' = "ended" /\ exit' \in {SigInt, SigKill}
          /\ UNCHANGED <<child, files, summary, result>>
          /\ printed' = printed \/ printed' = <<>>
      BY <1>8 DEF InterruptElsewhere, Kill
    <2>2. Reported(summary, result) => Reported(summary, result)'
      BY <2>1 DEF Reported, Proven, Whole
    <2>3. QED
      BY <1>a, <2>1, <2>2 DEF Lines
  <1>9. QED
    BY <1>1, <1>2, <1>3, <1>4, <1>5, <1>6, <1>8 DEF AdapterStep, Proceed

\* Every step keeps the invariant.
LEMMA NextInv == Inv /\ [Next]_vars => Inv'
  <1> SUFFICES ASSUME Inv, [Next]_vars PROVE Inv'
    OBVIOUS
  <1>1. CASE AdapterStep
    BY <1>1, AdapterTypeOK, AdapterProgress, AdapterReport DEF Inv
  <1>2. CASE CodexStartsHelper \/ CodexEnds \/ HelperEnds
    BY <1>2, ChildStep
  <1>3. CASE UNCHANGED vars
    BY <1>3 DEF Inv, TypeOK, ProgressInv, ReportInv, Reported, Proven, Whole, Drained, vars, child
  <1>4. QED
    BY <1>1, <1>2, <1>3 DEF Next, AdapterStep

\* It holds of every state of every behaviour.
LEMMA InvAlways == Spec => []Inv
  BY InitInv, NextInv, PTL DEF Spec

(***************************************************************************)
(* Theorems.                                                               *)
(***************************************************************************)

\* Every variable keeps its type.
THEOREM TypeCorrect == Spec => []TypeOK
  <1>1. Inv => TypeOK
    BY DEF Inv
  <1>2. QED
    BY <1>1, InvAlways, PTL

\* What was printed, and how an adapter ended that returned.
LEMMA Printed ==
    ASSUME Inv
    PROVE  /\ printed \in Lines(summary)
           /\ printed # <<>> => Reported(summary, result)
  BY DEF Inv, ReportInv, Lines

\* A status of its own comes with what was reported.
LEMMA Ending ==
    ASSUME Inv, exit \in {0, 65, 70, 130}
    PROVE  /\ exit = result /\ Reported(summary, result)
           /\ \/ printed = <<summary>>
              \/ printed = Append(<<summary>>, summary) /\ result = 70
  BY DEF Inv, ReportInv, Running, SigInt, SigKill, Traceback

\* Every printed line is the summary.
LEMMA LineFacts ==
    ASSUME NEW s \in Summary, NEW q \in Lines(s)
    PROVE  \A i \in 1 .. Len(q) : q[i] = s
  <1>1. CASE q = <<>> \/ q = <<s>>
    BY <1>1
  <1>2. CASE q = Append(<<s>>, s)
    <2>1. <<s>> \in Seq(Summary) /\ Len(<<s>>) = 1 /\ <<s>>[1] = s
      OBVIOUS
    <2>2. Len(q) = 2 /\ q[1] = s /\ q[2] = s
      BY <1>2, <2>1
    <2>3. QED
      BY <2>2
  <1>3. QED
    BY <1>1, <1>2 DEF Lines

\* Exit status 0 is proven by what Codex did and by what is on disk.
THEOREM ZeroProven == Spec => []ZeroIsProven
  <1>1. ASSUME Inv, exit = 0 PROVE ZeroIsProven
    <2>1. printed = <<summary>> /\ result = 0 /\ Proven(summary, 0)
      BY <1>1, Ending DEF Reported
    <2>2. /\ codex = "exited" /\ ~helper /\ status = 0 /\ output = "events" /\ Whole
          /\ summary.class = "valid_completion" /\ summary.status = 0 /\ summary.paths = TRUE
      BY <2>1 DEF Proven
    <2>3. summary = [class |-> "valid_completion", status |-> 0, paths |-> TRUE]
      BY <1>1, <2>2 DEF Inv, TypeOK, Summary
    <2>4. QED
      BY <2>1, <2>2, <2>3 DEF ZeroIsProven, Drained, Whole
  <1>2. Inv => ZeroIsProven
    BY <1>1 DEF ZeroIsProven
  <1>3. QED
    BY <1>2, InvAlways, PTL

\* What a printed summary says of Codex, of the artifacts and of the exit status is so.
THEOREM SummaryTrue == Spec => []SummaryIsTrue
  <1>1. ASSUME Inv PROVE SummaryIsTrue
    <2>1. ASSUME NEW i \in 1 .. Len(printed)
          PROVE  /\ printed[i].status # Unknown => codex = "exited" /\ printed[i].status = status
                 /\ printed[i].paths => \A f \in Artifact : files[f] = "whole"
                 /\ exit \in {0, 65, 70, 130} => StatusFor(printed[i], exit)
      <3>1. printed \in Lines(summary) /\ summary \in Summary
        BY <1>1, Printed DEF Inv, TypeOK
      <3>2. printed[i] = summary
        BY <3>1, LineFacts
      <3>3. printed # <<>>
        BY <2>1
      <3>4. Reported(summary, result)
        BY <1>1, <3>3, Printed
      <3>5. CASE summary = InitialSummary /\ result = 70
        <4>1. /\ printed[i].class = "execution_failure" /\ printed[i].status = Unknown
              /\ printed[i].paths = FALSE
          BY <3>2, <3>5 DEF InitialSummary
        <4>2. exit \in {0, 65, 70, 130} => exit = 70
          BY <1>1, <3>5, Ending
        <4>3. QED
          BY <4>1, <4>2 DEF StatusFor
      <3>6. CASE Proven(summary, result)
        <4>1. codex = "exited" /\ printed[i].status = status /\ Whole
          BY <3>2, <3>6 DEF Proven
        <4>2. ASSUME exit \in {0, 65, 70, 130} PROVE StatusFor(printed[i], exit)
          <5>1. exit = result
            BY <1>1, <4>2, Ending
          <5>2. QED
            BY <3>2, <3>6, <5>1 DEF Proven, StatusFor
        <4>3. QED
          BY <4>1, <4>2 DEF Whole
      <3>7. QED
        BY <3>4, <3>5, <3>6 DEF Reported
    <2>2. exit \in {0, 65, 70, 130} => printed # <<>>
      BY <1>1, Ending, Printed DEF Inv, ReportInv, Running, SigInt, SigKill, Traceback
    <2>3. QED
      BY <2>1, <2>2 DEF SummaryIsTrue
  <1>2. Inv => SummaryIsTrue
    BY <1>1
  <1>3. QED
    BY <1>2, InvAlways, PTL

\* Codex never runs on behind a summary.
THEOREM NoCodexBehind == Spec => []NoCodexBehindASummary
  <1>1. Inv => NoCodexBehindASummary
    BY Printed DEF Reported, Proven, NoCodexBehindASummary
  <1>2. QED
    BY <1>1, InvAlways, PTL
\* The steps an adapter still has before it, at most.
StepsLeft ==
    LET order == [check |-> 13, prepare |-> 12, launch |-> 11, launched |-> 10, wait |-> 9,
                  terminating |-> 8, killed |-> 7, save |-> 6, save_interrupted |-> 6,
                  classify |-> 4, emit_interrupted |-> 3, emit |-> 2, return |-> 1,
                  ended |-> 0]
    IN  order[pc] + (IF files["stdout"] = "whole" THEN 0 ELSE 1)

\* The safety half of InterruptEnds.  Every step of the adapter leaves fewer steps before
\* it, none of Codex's or its helper's leaves more; and after process.kill() Codex no
\* longer runs, so the second communicate() (line 107) waits for helpers at most.
InterruptRunsDown ==
    [][/\ StepsLeft \in 0 .. 14
       /\ pc' # pc \/ files' # files => StepsLeft' < StepsLeft
       /\ pc = "killed" => codex = "exited"]_vars

\* What remains is a number, and decreases from label to label.
LEMMA StepsLeftType == ASSUME TypeOK PROVE StepsLeft \in 0 .. 14
  BY DEF TypeOK, Label, StepsLeft

\* Only the adapter's steps move it, and each brings it nearer to its end.
LEMMA StepsDecrease ==
    ASSUME Inv, [Next]_vars, pc' # pc \/ files' # files PROVE StepsLeft' < StepsLeft
  <1>a. TypeOK /\ TypeOK'
    BY NextInv DEF Inv
  <1> USE DEF StepsLeft, Goto, Report, ReportAt, ReportInterrupted, End, child
  <1>1. CASE SaveArtifact
    <2>1. /\ pc \in {"save", "save_interrupted"}
          /\ files["stdout"] = "whole" => files'["stdout"] = "whole"
          /\ \/ pc' \in {"classify", "emit", "emit_interrupted", "ended"}
             \/ pc' = pc /\ files["stdout"] # "whole" /\ files'["stdout"] = "whole"
      BY <1>1, <1>a DEF SaveArtifact, SaveFails, TypeOK, Artifact
    <2>2. QED
      BY <2>1
  <1>2. CASE AdapterStep /\ ~SaveArtifact
    <2>1. UNCHANGED files
      BY <1>2
      DEF AdapterStep, Proceed, CheckRepository, PrepareOutput, LaunchCodex, BeginWait,
          CodexFinishes, TerminatedInTime, TerminationTimesOut, ReapCodex,
          ClassifyExecution, Emit, EmitFails, Return, InterruptWait, InterruptElsewhere, Kill
    <2>2. \/ pc = "check" /\ pc' \in {"prepare", "emit"}
          \/ pc = "prepare" /\ pc' \in {"launch", "emit"}
          \/ pc = "launch" /\ pc' \in {"launched", "emit"}
          \/ pc = "launched" /\ pc' = "wait"
          \/ pc = "wait" /\ pc' \in {"save", "terminating"}
          \/ pc = "terminating" /\ pc' \in {"save_interrupted", "killed"}
          \/ pc = "killed" /\ pc' = "save_interrupted"
          \/ pc = "classify" /\ pc' = "emit"
          \/ pc = "emit_interrupted" /\ pc' \in {"emit", "return"}
          \/ pc = "emit" /\ pc' = "return"
          \/ pc # "ended" /\ pc' = "ended"
      BY <1>2
      DEF AdapterStep, Proceed, CheckRepository, PrepareOutput, LaunchCodex, BeginWait,
          CodexFinishes, TerminatedInTime, TerminationTimesOut, ReapCodex,
          ClassifyExecution, Emit, EmitFails, Return, InterruptWait, InterruptElsewhere, Kill
    <2>3. QED
      BY <1>a, <2>1, <2>2 DEF TypeOK, Label
  <1>3. CASE CodexStartsHelper \/ CodexEnds \/ HelperEnds \/ UNCHANGED vars
    BY <1>3 DEF CodexStartsHelper, CodexEnds, HelperEnds, vars
  <1>4. QED
    BY <1>1, <1>2, <1>3 DEF Next, AdapterStep

\* From its start on there is a Codex; after the kill it is not Codex that the adapter
\* waits for.
KilledInv ==
    /\ pc \in {"launched", "wait", "terminating"} => codex # "absent"
    /\ pc = "killed" => codex = "exited"

\* That, too, is inductive, for nothing starts Codex again.
LEMMA KilledAlways == Spec => [](Inv /\ KilledInv)
  <1>1. Init => KilledInv
    BY DEF Init, KilledInv
  <1>2. Inv /\ KilledInv /\ [Next]_vars => KilledInv'
    <2> SUFFICES ASSUME Inv, KilledInv, [Next]_vars PROVE KilledInv'
      OBVIOUS
    <2> USE DEF KilledInv, Goto, Report, ReportAt, ReportInterrupted, End, child
    <2>1. CASE TerminationTimesOut
      BY <2>1 DEF TerminationTimesOut, KillCodex, Drained, Inv, TypeOK, ProgressInv
    <2>2. CASE AdapterStep /\ ~TerminationTimesOut
      BY <2>2
      DEF AdapterStep, Proceed, CheckRepository, PrepareOutput, LaunchCodex, BeginWait,
          CodexFinishes, TerminatedInTime, ReapCodex, SaveArtifact, SaveFails,
          ClassifyExecution, Emit, EmitFails, Return, InterruptWait, InterruptElsewhere, Kill
    <2>3. CASE CodexStartsHelper \/ CodexEnds \/ HelperEnds \/ UNCHANGED vars
      BY <2>3 DEF CodexStartsHelper, CodexEnds, HelperEnds, vars
    <2>4. QED
      BY <2>1, <2>2, <2>3 DEF Next, AdapterStep
  <1>3. QED
    BY <1>1, <1>2, InvAlways, PTL DEF Spec

\* An adapter that is interrupted cannot go on for ever, and waits for no Codex it killed.
THEOREM InterruptedRunsDown == Spec => InterruptRunsDown
  <1> DEFINE Down == /\ StepsLeft \in 0 .. 14
                     /\ pc' # pc \/ files' # files => StepsLeft' < StepsLeft
                     /\ pc = "killed" => codex = "exited"
  <1>1. Inv /\ KilledInv /\ [Next]_vars => Down
    BY StepsLeftType, StepsDecrease DEF KilledInv, Inv
  <1>2. QED
    BY <1>1, KilledAlways, PTL DEF Spec, InterruptRunsDown
=============================================================================
