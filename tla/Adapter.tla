------------------------------- MODULE Adapter -------------------------------
(***************************************************************************)
(* One invocation of adapter/codex_execution_adapter.py: check the          *)
(* worktree, start Codex, wait for it, save what it wrote, classify, print  *)
(* one summary.  Codex runs beside the adapter: it ends when and how it     *)
(* likes, and a helper it started can hold its output pipes open after it.  *)
(* The adapter can be interrupted or killed between any two steps.          *)
(***************************************************************************)
EXTENDS Integers, Sequences

VARIABLES
    pc,       \* where the adapter is
    codex,    \* the Codex process
    helper,   \* a process started by Codex holds its output pipes
    status,   \* returncode of Codex once it ended
    output,   \* what Codex wrote on stdout once it ended
    files,    \* the two artifacts
    summary,  \* the summary about to be printed
    result,   \* the exit status that goes with it
    printed,  \* the summaries printed; until the end they may still be buffered
    exit      \* exit status of the adapter

child == <<codex, helper, status, output>>
vars == <<pc, child, files, summary, result, printed, exit>>

Label == {"check", "prepare", "launch", "launched", "wait", "terminating", "killed",
          "save", "save_interrupted", "classify", "emit_interrupted", "emit", "return", "ended"}

Artifact == {"stdout", "stderr"}

\* A line of stdout parses or it does not; blank lines do not count.
Output == {"events", "empty", "malformed"}

\* Success, any positive status, SIGTERM and SIGKILL.
ReturnCode == {0, 1, -15, -9}

\* cli_exit_status is null.
Unknown == 256

Summary ==
    [class : {"execution_failure", "interrupted_invalid", "valid_completion"},
     status : ReturnCode \cup {Unknown},
     paths : BOOLEAN]

InitialSummary == [class |-> "execution_failure", status |-> Unknown, paths |-> FALSE]

\* Still running; ended by SIGINT or SIGKILL.
Running == -1
SigInt == -2
SigKill == -9

Init ==
    /\ pc = "check"
    /\ codex = "absent" /\ helper = FALSE /\ status = 0 /\ output = "empty"
    /\ files = [f \in Artifact |-> "absent"]
    /\ summary = InitialSummary
    /\ result = 70
    /\ printed = <<>>
    /\ exit = Running

(***************************************************************************)
(* Codex and what it starts.                                               *)
(***************************************************************************)
CodexStartsHelper ==
    /\ codex = "running" /\ ~helper
    /\ helper' = TRUE
    /\ UNCHANGED <<pc, codex, status, output, files, summary, result, printed, exit>>

CodexEnds ==
    /\ codex = "running"
    /\ codex' = "exited"
    /\ status' \in ReturnCode /\ output' \in Output
    /\ UNCHANGED <<pc, helper, files, summary, result, printed, exit>>

HelperEnds ==
    /\ helper
    /\ helper' = FALSE
    /\ UNCHANGED <<pc, codex, status, output, files, summary, result, printed, exit>>

\* communicate() returns when the process ended and its pipes are closed.
Drained == codex = "exited" /\ ~helper

(***************************************************************************)
(* The adapter.                                                            *)
(***************************************************************************)
Goto(label) == pc' = label /\ UNCHANGED <<summary, result>>

\* Print this summary and return this status.
ReportAt(label, s, code) == pc' = label /\ summary' = s /\ result' = code
Report(s, code) == ReportAt("emit", s, code)

\* The process is gone.
End(code) ==
    /\ Goto("ended")
    /\ exit' = code

\* An exception no clause catches; it stands also for 120, with which Python ends when
\* what is buffered for stdout cannot be flushed at exit.
Traceback == 1

CheckRepository ==
    /\ pc = "check"
    /\ Goto("prepare") \/ Report(summary, 70)
    /\ UNCHANGED <<child, files, printed, exit>>

PrepareOutput ==
    /\ pc = "prepare"
    /\ Goto("launch") \/ Report(summary, 70)
    /\ UNCHANGED <<child, files, printed, exit>>

LaunchCodex ==
    /\ pc = "launch"
    /\ \/ codex' = "running" /\ Goto("launched")
       \/ Report(summary, 70) /\ UNCHANGED codex
    /\ UNCHANGED <<helper, status, output, files, printed, exit>>

\* Between Popen and the inner try (lines 97-98) an interrupt is not caught.
BeginWait ==
    /\ pc = "launched"
    /\ Goto("wait")
    /\ UNCHANGED <<child, files, printed, exit>>

CodexFinishes ==
    /\ pc = "wait" /\ Drained
    /\ Goto("save")
    /\ UNCHANGED <<child, files, printed, exit>>

\* SIGTERM may end Codex at once, later (CodexEnds), or not at all.
InterruptWait ==
    /\ pc = "wait"
    /\ Goto("terminating")
    /\ IF codex = "running"
       THEN \/ codex' = "exited" /\ status' = -15 /\ output' \in Output
            \/ UNCHANGED <<codex, status, output>>
       ELSE UNCHANGED <<codex, status, output>>
    /\ UNCHANGED <<helper, files, printed, exit>>

TerminatedInTime ==
    /\ pc = "terminating" /\ Drained
    /\ Goto("save_interrupted")
    /\ UNCHANGED <<child, files, printed, exit>>

\* Slip: wait again without the kill.
KillCodexNot == UNCHANGED <<codex, status, output>>

\* process.kill(), which does nothing to a process that ended.
KillCodex ==
    IF codex = "running"
    THEN codex' = "exited" /\ status' = -9 /\ output' \in Output
    ELSE UNCHANGED <<codex, status, output>>

\* Slip: give up on Codex and report.
TerminationTimesOutGivingUp ==
    /\ pc = "terminating" /\ ~Drained
    /\ Goto("save_interrupted")
    /\ UNCHANGED <<child, files, printed, exit>>

\* Five seconds went by.
TerminationTimesOut ==
    /\ pc = "terminating" /\ ~Drained
    /\ KillCodex
    /\ Goto("killed")
    /\ UNCHANGED <<helper, files, printed, exit>>

ReapCodex ==
    /\ pc = "killed" /\ Drained
    /\ Goto("save_interrupted")
    /\ UNCHANGED <<child, files, printed, exit>>

ReportInterrupted ==
    ReportAt("emit_interrupted",
             [class |-> "interrupted_invalid", status |-> status, paths |-> TRUE], 130)

\* Slip: a failed write is swallowed.
SaveFailsUnnoticed ==
    /\ IF pc = "save" THEN Goto("classify") ELSE ReportInterrupted
    /\ UNCHANGED exit

\* OSError from write_private: caught while handling an interrupt (line 121), not
\* caught after a normal end (lines 128-129).
SaveFails ==
    \/ /\ pc = "save_interrupted"
       /\ Report(summary, 70)
       /\ UNCHANGED exit
    \/ /\ pc = "save"
       /\ End(Traceback)

\* First the stdout artifact, then the stderr artifact.
SaveArtifact ==
    LET f == IF files["stdout"] = "whole" THEN "stderr" ELSE "stdout"
    IN  /\ pc \in {"save", "save_interrupted"}
        /\ \/ /\ files' = [files EXCEPT ![f] = "whole"]
              /\ \/ f = "stdout" /\ Goto(pc)
                 \/ f = "stderr" /\ pc = "save" /\ Goto("classify")
                 \/ f = "stderr" /\ pc = "save_interrupted" /\ ReportInterrupted
              /\ UNCHANGED exit
           \/ /\ files' \in {files, [files EXCEPT ![f] = "cut"]}
              /\ SaveFails
        /\ UNCHANGED <<child, printed>>

\* Slip: the exit status of Codex alone decides.
VerdictIgnoringOutput(returncode, out) ==
    CASE returncode > 0 -> [class |-> "execution_failure", code |-> 70]
      [] returncode < 0 -> [class |-> "interrupted_invalid", code |-> 130]
      [] returncode = 0 -> [class |-> "valid_completion", code |-> 0]

\* Slip: the adapter ends with Codex's own status.
VerdictOwnStatus(returncode, out) ==
    CASE returncode > 0 -> [class |-> "execution_failure", code |-> returncode]
      [] returncode < 0 -> [class |-> "interrupted_invalid", code |-> 130]
      [] returncode = 0 -> [class |-> "valid_completion", code |-> 0]

Verdict(returncode, out) ==
    CASE returncode > 0 -> [class |-> "execution_failure", code |-> 70]
      [] returncode < 0 -> [class |-> "interrupted_invalid", code |-> 130]
      [] returncode = 0 /\ out = "events" -> [class |-> "valid_completion", code |-> 0]
      [] returncode = 0 /\ out # "events" -> [class |-> "interrupted_invalid", code |-> 65]

ClassifyExecution ==
    /\ pc = "classify"
    /\ LET verdict == Verdict(status, output)
       IN  Report([class |-> verdict.class, status |-> status, paths |-> TRUE], verdict.code)
    /\ UNCHANGED <<child, files, printed, exit>>

\* print raises OSError; the line may still come out with what is flushed next.  The
\* print of an interrupted execution (line 119) is inside the try: the clause at line 121
\* prints the same summary again and returns another status.
EmitFails ==
    /\ printed' \in {printed, Append(printed, summary)}
    /\ \/ pc = "emit_interrupted" /\ Report(summary, 70) /\ UNCHANGED exit
       \/ pc = "emit" /\ End(Traceback)

Emit ==
    /\ pc \in {"emit", "emit_interrupted"}
    /\ \/ /\ printed' = Append(printed, summary)
          /\ Goto("return")
          /\ UNCHANGED exit
       \/ EmitFails
    /\ UNCHANGED <<child, files>>

Return ==
    /\ pc = "return"
    /\ \/ End(result) /\ UNCHANGED printed
       \/ End(Traceback) /\ printed' = <<>>
    /\ UNCHANGED <<child, files>>

\* KeyboardInterrupt anywhere but in the first communicate(), also after the print.
InterruptElsewhere ==
    /\ pc \notin {"wait", "ended"}
    /\ End(SigInt)
    /\ UNCHANGED <<child, files, printed>>

\* What is buffered is lost.
Kill ==
    /\ pc # "ended"
    /\ End(SigKill)
    /\ printed' \in {printed, <<>>}
    /\ UNCHANGED <<child, files>>

Proceed ==
    \/ CheckRepository \/ PrepareOutput \/ LaunchCodex \/ BeginWait \/ CodexFinishes
    \/ TerminatedInTime \/ TerminationTimesOut \/ ReapCodex \/ SaveArtifact
    \/ ClassifyExecution \/ Emit \/ Return

Next ==
    \/ Proceed \/ InterruptWait \/ InterruptElsewhere \/ Kill
    \/ CodexStartsHelper \/ CodexEnds \/ HelperEnds

Spec == Init /\ [][Next]_vars

\* The adapter goes on.  Codex need not end and need not obey SIGTERM; what it started
\* does end.
FairSpec == Spec /\ WF_vars(Proceed) /\ WF_vars(HelperEnds)

(***************************************************************************)
(* Properties.                                                             *)
(***************************************************************************)

\* Every variable keeps its type.
TypeOK ==
    /\ pc \in Label
    /\ codex \in {"absent", "running", "exited"} /\ helper \in BOOLEAN
    /\ status \in ReturnCode /\ output \in Output
    /\ files \in [Artifact -> {"absent", "cut", "whole"}]
    /\ summary \in Summary /\ result \in {0, 65, 70, 130}
    /\ printed \in Seq(Summary)
    /\ exit \in {Running, SigInt, SigKill, Traceback, 0, 65, 70, 130}

\* Exit status 0 is proven: Codex ended by itself with 0, nothing holds its pipes, it
\* wrote events, both artifacts are on disk in full and the one summary says so.
ZeroIsProven ==
    exit = 0 =>
        /\ Drained /\ status = 0 /\ output = "events"
        /\ \A f \in Artifact : files[f] = "whole"
        /\ printed = <<[class |-> "valid_completion", status |-> 0, paths |-> TRUE]>>

\* The exit statuses that go with a summary; 70 behind an interrupted one means that its
\* first print failed.
StatusFor(s, code) ==
    CASE s.class = "valid_completion" -> code = 0
      [] s.class = "execution_failure" -> code = 70
      [] s.class = "interrupted_invalid" -> code \in {70, 130} \/ (code = 65 /\ s.status = 0)

\* What a printed summary says is so, even when a signal comes between the print and the
\* return: it names Codex's own exit status and artifacts that are complete.  An adapter
\* that returned has printed, and its exit status goes with every line (adapter/README.md).
SummaryIsTrue ==
    /\ \A i \in 1 .. Len(printed) :
          LET s == printed[i]
          IN  /\ s.status # Unknown => codex = "exited" /\ s.status = status
              /\ s.paths => \A f \in Artifact : files[f] = "whole"
              /\ exit \in {0, 65, 70, 130} => StatusFor(s, exit)
    /\ exit \in {0, 65, 70, 130} => printed # <<>>

\* Once the adapter has reported, Codex no longer runs: neither a normal end, nor an
\* interrupt that Codex ignores, nor a failed write leaves it behind a summary.
NoCodexBehindASummary == printed # <<>> => codex # "running"

\* An interrupted adapter ends even if Codex ignores SIGTERM (lines 102-107).
InterruptEnds == pc = "terminating" ~> pc = "ended"
=============================================================================
