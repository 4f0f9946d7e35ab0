-------------------------- MODULE AttemptLifecycle --------------------------
(***************************************************************************)
(* run_attempt as a whole, and test_daily_graph_sync, which calls it once  *)
(* or twice: the dedicated fnn process, its private work dir with the      *)
(* plaintext keys, the report dir, and the order in which the finally      *)
(* block takes all of it down.  Every step may fail; the node may exit or  *)
(* write its own key at any time; the run may be interrupted.              *)
(*                                                                         *)
(* The monitoring loop is one step here: GraphSyncMonitor models it.       *)
(***************************************************************************)
EXTENDS Naturals, Sequences

CONSTANT Attempts   \* DAILY_SYNC_ATTEMPTS, 1 or 2

ASSUME AttemptsAssumption == Attempts \in Nat \ {0}

Ids == 1..Attempts
KeyFiles == {"ckb", "fiber"}            \* ckb/key and fiber/sk
Artifacts == {"summary", "samples", "node_log"}

VARIABLES
    attempt,   \* the attempt under way
    pc,        \* its step; "returned": run_attempt is left
    hasNode,   \* the DailySyncNode was constructed
    result,    \* its SyncResult
    procs,     \* the attempts whose fnn process runs
    dirs,      \* the attempts whose work dir exists
    logs,      \* the attempts whose work dir holds node.log
    keys,      \* the <<attempt, file>> key files on disk
    report,    \* per attempt and artifact: "none", "stale" or "new"
    summary,   \* per attempt: the SyncResult that summary.json holds
    results,   \* the results the test has collected
    verdict    \* what the test run as a whole ended in

vars == <<attempt, pc, hasNode, result, procs, dirs, logs, keys, report,
          summary, results, verdict>>

files == <<procs, dirs, logs, keys>>
outer == <<attempt, results, verdict>>

\* SyncResult: retryable "unset" is Python's None.
Fresh == [converged |-> FALSE, retryable |-> "unset", cause |-> "none",
          cleanupFailure |-> FALSE, artifactFailure |-> FALSE]

\* The steps of the try block and the exceptions each may raise.
Raises ==
    [report_dir |-> {"os"},
     validate   |-> {"config"},
     precheck   |-> {"config", "request", "runtime"},
     mkdtemp    |-> {"os"},
     construct  |-> {"os"},
     prepare    |-> {"config", "os"},
     spawn      |-> {"os"},
     rpc_ready  |-> {"exited", "deadline"},
     identity   |-> {"config"},
     monitor    |-> {"exited", "log", "graph", "os"}]

Body == DOMAIN Raises

FollowedBy ==
    [report_dir |-> "validate", validate |-> "precheck", precheck |-> "mkdtemp",
     mkdtemp |-> "construct", construct |-> "prepare", prepare |-> "spawn",
     spawn |-> "rpc_ready", rpc_ready |-> "identity", identity |-> "monitor"]

\* The classes an exception belongs to: those of requests derive from OSError.
Classes(k) == IF k = "request" THEN {"request", "os"} ELSE {k}

\* Mutated form: the OSError bucket is looked at first.
FatalFirst(k) ==
    IF Classes(k) \cap {"config", "graph", "log", "exited", "os"} # {} THEN "no"
    ELSE IF Classes(k) \cap {"deadline", "request", "runtime"} # {} THEN "yes"
    ELSE "no"

\* _is_retryable: the first class that matches decides.
IsRetryable(k) ==
    IF Classes(k) \cap {"deadline", "request"} # {} THEN "yes"
    ELSE IF Classes(k) \cap {"config", "graph", "log", "exited", "os"} # {} THEN "no"
    ELSE IF Classes(k) \cap {"runtime", "value"} # {} THEN "yes"
    ELSE "no"

\* Mutated form: only failure_reason tells of it.
ReasonOnly(r) == [r EXCEPT !.converged = FALSE]

\* _record_cleanup_failure
CleanupFailed(r) ==
    [r EXCEPT !.cleanupFailure = TRUE, !.converged = FALSE, !.retryable = "no"]

\* Mutated form: the failed archive is noted but the verdict stands.
ArtifactNoted(r) == [r EXCEPT !.artifactFailure = TRUE]

\* _record_artifact_failure
ArtifactFailed(r) ==
    [r EXCEPT !.artifactFailure = TRUE, !.converged = FALSE, !.retryable = "no"]

-----------------------------------------------------------------------------
\* An earlier invocation may have left artifacts in the report dirs.
Init ==
    /\ attempt = 1
    /\ pc = "report_dir"
    /\ hasNode = FALSE
    /\ result = Fresh
    /\ procs = {}
    /\ dirs = {}
    /\ logs = {}
    /\ keys = {}
    /\ report \in [Ids -> [Artifacts -> {"none", "stale"}]]
    /\ summary = [i \in Ids |-> Fresh]
    /\ results = << >>
    /\ verdict = "running"

-----------------------------------------------------------------------------
(* The try block *)

Unlinked(i, names) ==
    [report EXCEPT ![i] = [a \in Artifacts |-> IF a \in names THEN "none" ELSE @[a]]]

Advance == pc' = FollowedBy[pc]

PrepareReportDir ==
    /\ pc = "report_dir"
    /\ report' = Unlinked(attempt, Artifacts)
    /\ Advance
    /\ UNCHANGED <<outer, files, hasNode, result, summary>>

\* Validation, precheck and the checks of node_info change no files.
Check ==
    /\ pc \in {"validate", "precheck", "rpc_ready", "identity"}
    /\ Advance
    /\ UNCHANGED <<outer, files, hasNode, result, report, summary>>

MakeWorkDir ==
    /\ pc = "mkdtemp"
    /\ dirs' = dirs \cup {attempt}
    /\ Advance
    /\ UNCHANGED <<outer, hasNode, result, procs, logs, keys, report, summary>>

Construct ==
    /\ pc = "construct"
    /\ hasNode' = TRUE
    /\ Advance
    /\ UNCHANGED <<outer, files, result, report, summary>>

PrepareNode ==
    /\ pc = "prepare"
    /\ keys' = keys \cup {<<attempt, "ckb">>}
    /\ Advance
    /\ UNCHANGED <<outer, hasNode, result, procs, dirs, logs, report, summary>>

Spawn ==
    /\ pc = "spawn"
    /\ logs' = logs \cup {attempt}
    /\ procs' = procs \cup {attempt}
    /\ Advance
    /\ UNCHANGED <<outer, hasNode, result, dirs, keys, report, summary>>

\* The monitoring loop returned with a verdict of its own.
Monitored ==
    /\ pc = "monitor"
    /\ \/ result' = [result EXCEPT !.converged = TRUE]
       \/ result' = [result EXCEPT !.retryable = "yes", !.cause = "timeout"]
    /\ pc' = "stop"
    /\ UNCHANGED <<outer, files, hasNode, report, summary>>

\* What a step had already done when it failed.
PartialEffect ==
    CASE pc = "report_dir" ->
           /\ \E done \in SUBSET Artifacts : report' = Unlinked(attempt, done)
           /\ UNCHANGED files
      [] pc = "prepare" ->
           /\ keys' \in {keys, keys \cup {<<attempt, "ckb">>}}
           /\ UNCHANGED <<procs, dirs, logs, report>>
      [] pc = "spawn" ->
           /\ logs' \in {logs, logs \cup {attempt}}
           /\ UNCHANGED <<procs, dirs, keys, report>>
      [] OTHER -> UNCHANGED <<files, report>>

Raise ==
    /\ pc \in Body
    /\ \E k \in Raises[pc] :
         result' = [result EXCEPT !.cause = k, !.retryable = IsRetryable(k)]
    /\ PartialEffect
    /\ pc' = "stop"
    /\ UNCHANGED <<outer, hasNode, summary>>

\* KeyboardInterrupt passes the except clause; only the finally block runs.
Interrupt ==
    /\ pc \in Body
    /\ result' = [result EXCEPT !.cause = "interrupt"]
    /\ pc' = "stop"
    /\ UNCHANGED <<outer, files, hasNode, report, summary>>

-----------------------------------------------------------------------------
(* The node *)

Running == verdict = "running"

NodeExits ==
    /\ Running
    /\ procs # {}
    /\ \E i \in procs : procs' = procs \ {i}
    /\ UNCHANGED <<outer, pc, hasNode, result, dirs, logs, keys, report, summary>>

\* fnn creates fiber/sk in its data directory while it runs.
NodeWritesKey ==
    /\ Running
    /\ \E i \in procs \cap dirs :
         /\ <<i, "fiber">> \notin keys
         /\ keys' = keys \cup {<<i, "fiber">>}
    /\ UNCHANGED <<outer, pc, hasNode, result, procs, dirs, logs, report, summary>>

-----------------------------------------------------------------------------
(* The finally block *)

\* SIGTERM and then SIGKILL to the process group.
Stop ==
    /\ pc = "stop"
    /\ hasNode
    /\ procs' = procs \ {attempt}
    /\ pc' = "shred"
    /\ UNCHANGED <<outer, hasNode, result, dirs, logs, keys, report, summary>>

SurvivesKill ==
    /\ pc = "stop"
    /\ hasNode
    /\ attempt \in procs
    /\ result' = CleanupFailed(result)
    /\ pc' = "shred"
    /\ UNCHANGED <<outer, files, hasNode, report, summary>>

KeysOf(i) == {k \in keys : k[1] = i}

\* Both key files are tried; those that could not be unlinked are reported.
ShredSecret ==
    /\ pc = "shred"
    /\ \E left \in SUBSET KeysOf(attempt) :
         /\ keys' = (keys \ KeysOf(attempt)) \cup left
         /\ result' = IF left = {} THEN result ELSE CleanupFailed(result)
    /\ pc' = "archive"
    /\ UNCHANGED <<outer, hasNode, procs, dirs, logs, report, summary>>

\* Measure node.log and copy it, bounded, into the report dir.
ArchiveLog ==
    /\ pc = "archive"
    /\ \/ /\ attempt \in logs
          /\ report' = [report EXCEPT ![attempt]["node_log"] = "new"]
          /\ UNCHANGED result
       \/ /\ attempt \in logs
          /\ result' = ArtifactFailed(result)
          /\ UNCHANGED report
       \/ /\ attempt \notin logs
          /\ UNCHANGED <<result, report>>
    /\ pc' = "clean"
    /\ UNCHANGED <<outer, files, hasNode, summary>>

RemoveWorkDir ==
    /\ dirs' = dirs \ {attempt}
    /\ logs' = logs \ {attempt}
    /\ keys' = keys \ KeysOf(attempt)

\* rmtree gave up part of the way.
RemoveWorkDirFails ==
    /\ \E gone \in SUBSET KeysOf(attempt) : keys' = keys \ gone
    /\ logs' \in {logs, logs \ {attempt}}
    /\ UNCHANGED dirs

\* Skipped if stop() failed: the work dir stays for diagnosis.
StopFailed == attempt \in procs

\* Mutated form: the work dir goes even if the node is still using it.
CleanAnyway ==
    /\ pc = "clean"
    /\ RemoveWorkDir
    /\ UNCHANGED result
    /\ pc' = "write_samples"
    /\ UNCHANGED <<outer, hasNode, procs, report, summary>>

\* Mutated form: rmtree(ignore_errors=True).
CleanQuietly ==
    /\ pc = "clean"
    /\ IF StopFailed THEN UNCHANGED <<dirs, logs, keys>>
       ELSE RemoveWorkDir \/ (attempt \in dirs /\ RemoveWorkDirFails)
    /\ UNCHANGED result
    /\ pc' = "write_samples"
    /\ UNCHANGED <<outer, hasNode, procs, report, summary>>

Clean ==
    /\ pc = "clean"
    /\ \/ /\ StopFailed
          /\ UNCHANGED <<result, dirs, logs, keys>>
       \/ /\ ~StopFailed
          /\ RemoveWorkDir
          /\ UNCHANGED result
       \/ /\ ~StopFailed
          /\ attempt \in dirs
          /\ RemoveWorkDirFails
          /\ result' = CleanupFailed(result)
    /\ pc' = "write_samples"
    /\ UNCHANGED <<outer, hasNode, procs, report, summary>>

\* No node owns the work dir, if there is one.
CleanWithoutNode ==
    /\ pc = "stop"
    /\ ~hasNode
    /\ \/ /\ RemoveWorkDir
          /\ UNCHANGED result
       \/ /\ attempt \in dirs
          /\ RemoveWorkDirFails
          /\ result' = CleanupFailed(result)
    /\ pc' = "write_samples"
    /\ UNCHANGED <<outer, hasNode, procs, report, summary>>

\* Mutated form: the summary is renamed into place before the samples.
SummaryFirst ==
    /\ pc = "write_samples"
    /\ report' = [report EXCEPT ![attempt]["summary"] = "new"]
    /\ pc' = "write_summary"
    /\ UNCHANGED <<outer, files, hasNode, result, summary>>

\* _write_result_files: each artifact is a temporary file renamed into place.
WriteSamples ==
    /\ pc = "write_samples"
    /\ report' = [report EXCEPT ![attempt]["samples"] = "new"]
    /\ pc' = "write_summary"
    /\ UNCHANGED <<outer, files, hasNode, result, summary>>

WriteSummary ==
    /\ pc = "write_summary"
    /\ report' = [report EXCEPT ![attempt]["summary"] = "new"]
    /\ summary' = [summary EXCEPT ![attempt] = result]
    /\ pc' = "returned"
    /\ UNCHANGED <<outer, files, hasNode, result>>

\* The exception leaves run_attempt and the test.
WriteFails ==
    /\ pc \in {"write_samples", "write_summary"}
    /\ pc' = "returned"
    /\ verdict' = "error"
    /\ UNCHANGED <<attempt, results, files, hasNode, result, report, summary>>

-----------------------------------------------------------------------------
(* test_daily_graph_sync *)

Aborted ==
    /\ pc = "returned"
    /\ Running
    /\ result.cause = "interrupt"
    /\ verdict' = "interrupted"
    /\ UNCHANGED <<attempt, results, pc, hasNode, files, result, report, summary>>

\* The conditions under which the loop over the attempts breaks.
LastAttempt(r) ==
    r.cleanupFailure \/ r.artifactFailure \/ r.converged \/ r.retryable = "no"

\* The assertions at the end of the test.
Verdict(rs) ==
    IF /\ \A i \in DOMAIN rs : ~rs[i].cleanupFailure /\ ~rs[i].artifactFailure
       /\ \E i \in DOMAIN rs : rs[i].converged
    THEN "passed" ELSE "failed"

Collect ==
    /\ pc = "returned"
    /\ Running
    /\ result.cause # "interrupt"
    /\ results' = Append(results, result)

Finish ==
    /\ Collect
    /\ LastAttempt(result) \/ attempt = Attempts
    /\ verdict' = Verdict(results')
    /\ UNCHANGED <<attempt, pc, hasNode, files, result, report, summary>>

NextAttempt ==
    /\ Collect
    /\ ~LastAttempt(result)
    /\ attempt < Attempts
    /\ attempt' = attempt + 1
    /\ pc' = "report_dir"
    /\ hasNode' = FALSE
    /\ result' = Fresh
    /\ UNCHANGED <<files, report, summary, verdict>>

-----------------------------------------------------------------------------
Try == PrepareReportDir \/ Check \/ MakeWorkDir \/ Construct \/ PrepareNode
       \/ Spawn \/ Monitored \/ Raise \/ Interrupt

Finally == Stop \/ SurvivesKill \/ ShredSecret \/ ArchiveLog \/ Clean
           \/ CleanWithoutNode \/ WriteSamples \/ WriteSummary \/ WriteFails

Test == Aborted \/ Finish \/ NextAttempt

Node == NodeExits \/ NodeWritesKey

Next == Try \/ Finally \/ Test \/ Node

Spec == Init /\ [][Next]_vars

-----------------------------------------------------------------------------
(* Properties *)

Causes == {"none", "timeout", "interrupt", "os", "config", "request", "runtime",
           "exited", "deadline", "log", "graph"}

SyncResult == [converged : BOOLEAN, retryable : {"unset", "yes", "no"},
               cause : Causes, cleanupFailure : BOOLEAN, artifactFailure : BOOLEAN]

Steps == Body \cup {"stop", "shred", "archive", "clean", "write_samples",
                    "write_summary", "returned"}

\* The type invariant of the run of the test.
TypeOK ==
    /\ attempt \in Ids
    /\ pc \in Steps
    /\ hasNode \in BOOLEAN
    /\ result \in SyncResult
    /\ procs \subseteq Ids
    /\ dirs \subseteq Ids
    /\ logs \subseteq Ids
    /\ keys \subseteq Ids \X KeyFiles
    /\ report \in [Ids -> [Artifacts -> {"none", "stale", "new"}]]
    /\ summary \in [Ids -> SyncResult]
    /\ results \in Seq(SyncResult)
    /\ verdict \in {"running", "passed", "failed", "error", "interrupted"}

\* What attempt i has left on the machine.
Leftover(i) == i \in procs \/ i \in dirs \/ KeysOf(i) # {}

Over(i) == i < attempt \/ (i = attempt /\ pc = "returned")

Complete(i) == report[i]["summary"] = "new"

\* Whatever fails, and in whatever combination: once run_attempt is left, a
\* process, a work dir or a plaintext key that is still there is reported as
\* a cleanup failure in summary.json, unless the report itself could not be
\* written and the test ends with that error.
NothingLeftUnreported ==
    \A i \in Ids :
        Over(i) /\ Leftover(i) =>
            verdict = "error" \/ (Complete(i) /\ summary[i].cleanupFailure)

\* A summary.json that says "converged" is never about a node that is still
\* running, keys that are still on disk, or artifacts that are missing or
\* from an earlier invocation, now or later.
SummaryTellsTheTruth ==
    \A i \in Ids :
        Complete(i) /\ summary[i].converged =>
            /\ ~Leftover(i)
            /\ \A a \in Artifacts : report[i][a] = "new"

\* A running node belongs to the attempt under way, so that two nodes never
\* talk to the public network at once, and its work dir is there: the dir of
\* a process that survived SIGKILL is kept for diagnosis.
NodeKeepsItsWorkDir == \A i \in procs : i = attempt /\ i \in dirs

Transient(k) == k \in {"deadline", "request", "runtime", "timeout"}

CleanlyRetryable(r) ==
    ~r.converged /\ Transient(r.cause) /\ ~r.cleanupFailure /\ ~r.artifactFailure

\* A further attempt is made exactly after those that failed of a transient
\* cause and were cleaned up: never after success or a permanent failure,
\* and the test does not give up while one is due.
RetriesExactlyTransientFailures ==
    /\ Len(results) \in {attempt - 1, attempt}
    /\ \A i \in 1..(attempt - 1) : CleanlyRetryable(results[i])
    /\ verdict = "failed" /\ attempt < Attempts =>
          ~CleanlyRetryable(results[attempt])

\* summary.json marks completion: with it the samples are of this invocation,
\* and an archived log of an earlier one can lie beside it only when clearing
\* the report dir was what failed or was interrupted.
SummaryMarksCompletion ==
    \A i \in Ids :
        Complete(i) =>
            /\ report[i]["samples"] = "new"
            /\ report[i]["node_log"] = "stale" =>
                  summary[i].cause \in {"os", "interrupt"}

-----------------------------------------------------------------------------
(* The inductive invariant behind them *)

Reporting == {"write_samples", "write_summary", "returned"}

\* Which steps have a work dir, a node, a log; nothing is anywhere else.
NodeInv ==
    /\ NodeKeepsItsWorkDir
    /\ \A i \in Ids : i # attempt => ~Leftover(i)
    /\ pc \in {"construct", "prepare", "spawn", "rpc_ready", "identity", "monitor"} =>
          attempt \in dirs
    /\ pc \in {"prepare", "spawn", "rpc_ready", "identity", "monitor"} => hasNode
    /\ pc \in {"rpc_ready", "identity", "monitor"} => attempt \in logs
    /\ attempt \in procs => hasNode

\* What the finally block has established by each step.
FailureInv ==
    /\ result.cleanupFailure \/ result.artifactFailure =>
          ~result.converged /\ result.retryable = "no"
    /\ pc \in {"shred", "archive", "clean"} /\ attempt \in procs => result.cleanupFailure
    /\ pc \in Reporting /\ Leftover(attempt) => result.cleanupFailure
    /\ pc \in Body => /\ ~result.converged
                      /\ ~result.cleanupFailure
                      /\ ~result.artifactFailure
    /\ pc \in {"stop", "shred", "archive"} /\ result.converged =>
          hasNode /\ attempt \in logs
    /\ pc \in {"clean"} \cup Reporting /\ result.converged =>
          report[attempt]["node_log"] = "new"

\* What the report dir holds by each step.
ReportInv ==
    /\ \A i \in Ids : Complete(i) => Over(i)
    /\ \A i \in Ids : Complete(i) => report[i]["samples"] = "new"
    /\ \A i \in Ids : Complete(i) /\ i < attempt => ~summary[i].converged
    /\ pc = "write_summary" => report[attempt]["samples"] = "new"
    /\ pc = "returned" /\ Complete(attempt) => summary[attempt] = result
    /\ pc = "returned" => verdict = "error" \/ Complete(attempt)
    /\ pc # "returned" => Running
    /\ pc \in Body => result.cause = "none"
    /\ pc # "report_dir" /\ report[attempt]["node_log"] = "stale" =>
          result.cause \in {"os", "interrupt"}
    /\ SummaryMarksCompletion

LifecycleInv == TypeOK /\ NodeInv /\ FailureInv /\ ReportInv
=============================================================================
