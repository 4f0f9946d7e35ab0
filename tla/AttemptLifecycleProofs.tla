----------------------- MODULE AttemptLifecycleProofs -----------------------
(***************************************************************************)
(* Proofs about AttemptLifecycle for every number of attempts.             *)
(***************************************************************************)
EXTENDS AttemptLifecycle, TLAPS

\* The steps of the try block have a successor, and an exception is classified.
LEMMA StepFacts ==
    /\ Fresh \in SyncResult
    /\ Body \subseteq Steps
    /\ \A s \in Body : s # "monitor" => FollowedBy[s] \in Body
    /\ \A k : IsRetryable(k) \in {"yes", "no"}
    /\ \A s \in Body : Raises[s] \subseteq Causes
<1>1. Fresh \in SyncResult
    BY DEF Fresh, SyncResult, Causes
<1>2. Body \subseteq Steps
    BY DEF Steps
<1>3. \A s \in Body : s # "monitor" => FollowedBy[s] \in Body
    BY DEF Body, Raises, FollowedBy
<1>4. \A k : IsRetryable(k) \in {"yes", "no"}
    BY DEF IsRetryable
<1>5. \A s \in Body : Raises[s] \subseteq Causes
    BY DEF Body, Raises, Causes
<1>6. QED
    BY <1>1, <1>2, <1>3, <1>4, <1>5

\* Recording a failure keeps the result a SyncResult that has not converged.
LEMMA Failures ==
    ASSUME NEW r \in SyncResult, NEW f, f \in {CleanupFailed(r), ArtifactFailed(r)}
    PROVE  /\ f \in SyncResult
           /\ ~f.converged
           /\ f.retryable = "no"
           /\ f.cause = r.cause
           /\ r.cleanupFailure => f.cleanupFailure
BY DEF SyncResult, CleanupFailed, ArtifactFailed

\* Recording a cleanup failure sets the flag that LastAttempt and the test look at.
LEMMA CleanupRecorded ==
    ASSUME NEW r \in SyncResult
    PROVE  CleanupFailed(r).cleanupFailure
BY DEF SyncResult, CleanupFailed

\* Clearing and writing artifacts keeps the type of the report dirs.
LEMMA ReportType ==
    ASSUME TypeOK, NEW names
    PROVE  /\ Unlinked(attempt, names) \in [Ids -> [Artifacts -> {"none", "stale", "new"}]]
           /\ \A a \in Artifacts :
                [report EXCEPT ![attempt][a] = "new"]
                  \in [Ids -> [Artifacts -> {"none", "stale", "new"}]]
BY DEF TypeOK, Unlinked, Artifacts

\* The test starts in a state of the inductive invariant.
LEMMA InitLifecycleInv == Init => LifecycleInv
<1> SUFFICES ASSUME Init PROVE LifecycleInv
    OBVIOUS
<1>0. 1 \in Ids
    BY AttemptsAssumption DEF Ids
<1>1. TypeOK
    <2>1. pc \in Steps
        BY DEF Init, Steps, Body, Raises
    <2>2. report \in [Ids -> [Artifacts -> {"none", "stale", "new"}]]
        <3>1. [Artifacts -> {"none", "stale"}]
                \subseteq [Artifacts -> {"none", "stale", "new"}]
            OBVIOUS
        <3>2. QED
            BY <3>1 DEF Init
    <2>3. summary \in [Ids -> SyncResult] /\ result \in SyncResult
        BY StepFacts DEF Init
    <2>4. results \in Seq(SyncResult)
        BY DEF Init
    <2>5. /\ procs \subseteq Ids /\ dirs \subseteq Ids /\ logs \subseteq Ids
          /\ keys \subseteq Ids \X KeyFiles
        BY DEF Init
    <2>6. attempt \in Ids /\ hasNode \in BOOLEAN
          /\ verdict \in {"running", "passed", "failed", "error", "interrupted"}
        BY <1>0 DEF Init
    <2>7. QED
        BY <2>1, <2>2, <2>3, <2>4, <2>5, <2>6 DEF TypeOK
<1>2. NodeInv
    BY DEF Init, NodeInv, NodeKeepsItsWorkDir, Leftover, KeysOf
<1>3. FailureInv
    BY DEF Init, FailureInv, Fresh, Reporting
<1>4. ReportInv
    BY DEF Init, ReportInv, Complete, SummaryMarksCompletion, Running, Artifacts, Fresh
<1>5. QED
    BY <1>1, <1>2, <1>3, <1>4 DEF LifecycleInv

\* Every step keeps every variable within its type.
LEMMA TypeStep == TypeOK /\ NodeInv /\ [Next]_vars => TypeOK'
<1> SUFFICES ASSUME TypeOK, NodeInv, [Next]_vars PROVE TypeOK'
    OBVIOUS
<1>0. attempt \in Ids /\ Ids \subseteq Nat
    BY DEF TypeOK, Ids
<1>a. pc \in Body /\ pc # "monitor" => FollowedBy[pc] \in Steps
    BY StepFacts
<1>1. CASE PrepareReportDir
    <2>1. pc' \in Steps
        BY <1>1, <1>a DEF PrepareReportDir, Advance, Body, Raises
    <2>2. QED
        BY <1>1, <2>1, ReportType DEF PrepareReportDir, TypeOK, outer, files
<1>2. CASE Check \/ MakeWorkDir \/ Construct \/ PrepareNode \/ Spawn
    <2>1. pc' \in Steps
        BY <1>2, <1>a DEF Check, MakeWorkDir, Construct, PrepareNode, Spawn,
                          Advance, Body, Raises
    <2>2. keys' \subseteq Ids \X KeyFiles
        BY <1>2, <1>0 DEF Check, MakeWorkDir, Construct, PrepareNode, Spawn,
                          TypeOK, KeyFiles, files
    <2>3. QED
        BY <1>2, <2>1, <2>2 DEF Check, MakeWorkDir, Construct, PrepareNode, Spawn,
                                TypeOK, outer, files
<1>3. CASE Monitored
    <2>1. result' \in SyncResult
        BY <1>3 DEF Monitored, TypeOK, SyncResult, Causes
    <2>2. QED
        BY <1>3, <2>1 DEF Monitored, TypeOK, Steps, outer, files
<1>4. CASE Raise
    <2>1. result' \in SyncResult
        <3>1. PICK k \in Raises[pc] :
                 result' = [result EXCEPT !.cause = k, !.retryable = IsRetryable(k)]
            BY <1>4 DEF Raise
        <3>2. k \in Causes /\ IsRetryable(k) \in {"yes", "no"}
            BY <1>4, <3>1, StepFacts DEF Raise
        <3>3. QED
            BY <3>1, <3>2 DEF TypeOK, SyncResult
    <2>2. /\ keys' \subseteq Ids \X KeyFiles
          /\ procs' \subseteq Ids /\ dirs' \subseteq Ids /\ logs' \subseteq Ids
          /\ report' \in [Ids -> [Artifacts -> {"none", "stale", "new"}]]
        <3>1. CASE pc = "report_dir"
            BY <1>4, <3>1, ReportType DEF Raise, PartialEffect, TypeOK, files
        <3>2. CASE pc = "prepare"
            BY <1>4, <3>2, <1>0 DEF Raise, PartialEffect, TypeOK, KeyFiles
        <3>3. CASE pc = "spawn"
            BY <1>4, <3>3, <1>0 DEF Raise, PartialEffect, TypeOK
        <3>4. CASE pc \notin {"report_dir", "prepare", "spawn"}
            BY <1>4, <3>4 DEF Raise, PartialEffect, TypeOK, files
        <3>5. QED
            BY <3>1, <3>2, <3>3, <3>4
    <2>3. QED
        BY <1>4, <2>1, <2>2 DEF Raise, TypeOK, Steps, outer
<1>5. CASE Interrupt
    <2>1. result' \in SyncResult
        BY <1>5 DEF Interrupt, TypeOK, SyncResult, Causes
    <2>2. QED
        BY <1>5, <2>1 DEF Interrupt, TypeOK, Steps, outer, files
<1>6. CASE Stop \/ SurvivesKill \/ NodeExits
    <2>1. result' \in SyncResult /\ procs' \subseteq procs /\ pc' \in Steps
        BY <1>6, Failures DEF Stop, SurvivesKill, NodeExits, TypeOK, Steps, files
    <2>2. UNCHANGED <<outer, hasNode, dirs, logs, keys, report, summary>>
        BY <1>6 DEF Stop, SurvivesKill, NodeExits, files
    <2>3. QED
        BY <2>1, <2>2 DEF TypeOK, outer
<1>7. CASE ShredSecret
    <2>1. result' \in SyncResult
        BY <1>7, Failures DEF ShredSecret, TypeOK
    <2>2. keys' \subseteq Ids \X KeyFiles
        BY <1>7 DEF ShredSecret, KeysOf, TypeOK
    <2>3. QED
        BY <1>7, <2>1, <2>2 DEF ShredSecret, TypeOK, Steps, outer
<1>8. CASE ArchiveLog
    <2>1. result' \in SyncResult
        BY <1>8, Failures DEF ArchiveLog, TypeOK
    <2>2. report' \in [Ids -> [Artifacts -> {"none", "stale", "new"}]]
        BY <1>8, ReportType DEF ArchiveLog, Artifacts, TypeOK
    <2>3. QED
        BY <1>8, <2>1, <2>2 DEF ArchiveLog, TypeOK, Steps, outer, files
<1>9. CASE Clean \/ CleanWithoutNode
    <2>1. result' \in SyncResult
        BY <1>9, Failures DEF Clean, CleanWithoutNode, TypeOK
    <2>2. keys' \subseteq keys /\ dirs' \subseteq dirs /\ logs' \subseteq logs
        BY <1>9 DEF Clean, CleanWithoutNode, RemoveWorkDir, RemoveWorkDirFails
    <2>3. QED
        BY <1>9, <2>1, <2>2 DEF Clean, CleanWithoutNode, TypeOK, Steps, outer
<1>10. CASE WriteSamples \/ WriteSummary
    <2>1. report' \in [Ids -> [Artifacts -> {"none", "stale", "new"}]]
        BY <1>10, ReportType DEF WriteSamples, WriteSummary, Artifacts
    <2>2. summary' \in [Ids -> SyncResult]
        BY <1>10 DEF WriteSamples, WriteSummary, TypeOK
    <2>3. QED
        BY <1>10, <2>1, <2>2 DEF WriteSamples, WriteSummary, TypeOK, Steps, outer, files
<1>11. CASE WriteFails \/ Aborted
    BY <1>11 DEF WriteFails, Aborted, TypeOK, Steps, files
<1>12. CASE Finish
    BY <1>12 DEF Finish, Collect, Verdict, TypeOK, files
<1>13. CASE NextAttempt
    <2>1. attempt + 1 \in Ids
        BY <1>13, AttemptsAssumption DEF NextAttempt, TypeOK, Ids
    <2>2. pc' \in Steps
        BY <1>13 DEF NextAttempt, Steps, Body, Raises
    <2>3. results' \in Seq(SyncResult)
        BY <1>13 DEF NextAttempt, Collect, TypeOK
    <2>4. QED
        BY <1>13, <2>1, <2>2, <2>3, StepFacts DEF NextAttempt, TypeOK, files
<1>14. CASE NodeWritesKey
    BY <1>14 DEF NodeWritesKey, TypeOK, KeyFiles, outer
<1>15. CASE UNCHANGED vars
    BY <1>15 DEF vars, TypeOK
<1>16. QED
    BY <1>1, <1>2, <1>3, <1>4, <1>5, <1>6, <1>7, <1>8, <1>9, <1>10, <1>11, <1>12,
       <1>13, <1>14, <1>15 DEF Next, Try, Finally, Test, Node

\* A step within an attempt touches nothing outside that attempt.
LEMMA OwnFilesOnly ==
    ASSUME NodeInv, [Next]_vars, ~NextAttempt
    PROVE  /\ attempt' = attempt
           /\ procs' \subseteq procs \cup {attempt}
           /\ dirs' \subseteq dirs \cup {attempt}
           /\ \A k \in keys' : k \in keys \/ k[1] = attempt
<1>1. CASE PrepareReportDir \/ Check \/ MakeWorkDir \/ Construct \/ PrepareNode
           \/ Spawn \/ Monitored \/ Interrupt
    BY <1>1 DEF PrepareReportDir, Check, MakeWorkDir, Construct, PrepareNode, Spawn,
                Monitored, Interrupt, outer, files
<1>2. CASE Raise
    <2>1. CASE pc = "prepare"
        BY <1>2, <2>1 DEF Raise, PartialEffect, outer
    <2>2. CASE pc # "prepare"
        BY <1>2, <2>2 DEF Raise, PartialEffect, outer, files
    <2>3. QED
        BY <2>1, <2>2
<1>3. CASE Stop \/ SurvivesKill \/ ShredSecret \/ ArchiveLog \/ Clean \/ CleanWithoutNode
    BY <1>3 DEF Stop, SurvivesKill, ShredSecret, ArchiveLog, Clean, CleanWithoutNode,
                RemoveWorkDir, RemoveWorkDirFails, KeysOf, outer, files
<1>4. CASE WriteSamples \/ WriteSummary \/ WriteFails \/ Aborted \/ Finish
    BY <1>4 DEF WriteSamples, WriteSummary, WriteFails, Aborted, Finish, outer, files
<1>5. CASE NodeExits \/ NodeWritesKey
    <2>1. CASE NodeExits
        BY <2>1 DEF NodeExits, outer
    <2>2. CASE NodeWritesKey
        <3>1. PICK i \in procs : keys' = keys \cup {<<i, "fiber">>}
            BY <2>2 DEF NodeWritesKey
        <3>2. i = attempt
            BY DEF NodeInv, NodeKeepsItsWorkDir
        <3>3. UNCHANGED <<attempt, procs, dirs>>
            BY <2>2 DEF NodeWritesKey, outer
        <3>4. QED
            BY <3>1, <3>2, <3>3
    <2>3. QED
        BY <1>5, <2>1, <2>2
<1>6. CASE UNCHANGED vars
    BY <1>6 DEF vars
<1>7. QED
    BY <1>1, <1>2, <1>3, <1>4, <1>5, <1>6 DEF Next, Try, Finally, Test, Node

\* The conditions under which the test goes on leave nothing behind.
LEMMA RetryIsClean ==
    ASSUME TypeOK, FailureInv, NextAttempt
    PROVE  ~Leftover(attempt) /\ attempt' = attempt + 1 /\ attempt' # attempt
<1>1. pc = "returned" /\ ~result.cleanupFailure
    BY Zenon DEF NextAttempt, Collect, LastAttempt
<1>2. ~Leftover(attempt)
    BY <1>1 DEF FailureInv, Reporting
<1>3. attempt' = attempt + 1 /\ attempt \in Nat
    BY DEF TypeOK, NextAttempt, Ids
<1>4. QED
    BY <1>2, <1>3

\* Every step keeps the places of the node, its work dir and its keys.
LEMMA NodeStep == TypeOK /\ NodeInv /\ FailureInv /\ [Next]_vars => NodeInv'
<1> SUFFICES ASSUME TypeOK, NodeInv, FailureInv, [Next]_vars PROVE NodeInv'
    OBVIOUS
<1>1. CASE NextAttempt
    <2>1. \A i \in Ids : ~Leftover(i)
        BY <1>1, RetryIsClean DEF NodeInv
    <2>2. UNCHANGED files /\ pc' = "report_dir" /\ \A i \in Ids : ~Leftover(i)'
        BY <1>1, <2>1 DEF NextAttempt, Leftover, KeysOf, files
    <2>3. procs' = {}
        BY <2>1, <2>2 DEF Leftover, TypeOK, files
    <2>4. QED
        BY <2>2, <2>3 DEF NodeInv, NodeKeepsItsWorkDir
<1>2. CASE ~NextAttempt
    <2>1. \A i \in Ids : i # attempt' => ~Leftover(i)'
        BY <1>2, OwnFilesOnly DEF NodeInv, Leftover, KeysOf
    <2>2. /\ \A i \in procs' : i = attempt'
          /\ attempt' = attempt
        BY <1>2, OwnFilesOnly DEF NodeInv, NodeKeepsItsWorkDir
    <2> DEFINE Stages ==
          /\ attempt \in procs => attempt \in dirs /\ hasNode
          /\ pc \in {"construct", "prepare", "spawn", "rpc_ready", "identity",
                     "monitor"} => attempt \in dirs
          /\ pc \in {"prepare", "spawn", "rpc_ready", "identity", "monitor"} => hasNode
          /\ pc \in {"rpc_ready", "identity", "monitor"} => attempt \in logs
    <2>3. Stages
        BY DEF NodeInv, NodeKeepsItsWorkDir
    <2>4. Stages'
        <3>1. CASE PrepareReportDir
            BY <2>3, <3>1 DEF PrepareReportDir, Advance, FollowedBy, outer, files
        <3>2. CASE Check \/ Construct
            BY <2>3, <3>2 DEF Check, Construct, Advance, FollowedBy, outer, files
        <3>3. CASE MakeWorkDir \/ PrepareNode \/ Spawn
            BY <2>3, <3>3 DEF MakeWorkDir, PrepareNode, Spawn, Advance, FollowedBy, outer
        <3>4. CASE Monitored \/ Interrupt
            BY <2>3, <3>4 DEF Monitored, Interrupt, outer, files
        <3>5. CASE Raise
            BY <2>3, <3>5 DEF Raise, PartialEffect, outer, files
        <3>6. CASE Stop \/ SurvivesKill \/ ShredSecret \/ ArchiveLog
            BY <2>3, <3>6 DEF Stop, SurvivesKill, ShredSecret, ArchiveLog, outer, files
        <3>7. CASE Clean \/ CleanWithoutNode
            BY <2>3, <3>7 DEF Clean, CleanWithoutNode, RemoveWorkDir, RemoveWorkDirFails,
                              StopFailed, outer, files
        <3>8. CASE WriteSamples \/ WriteSummary \/ WriteFails \/ Aborted \/ Finish
            BY <2>3, <3>8 DEF WriteSamples, WriteSummary, WriteFails, Aborted, Finish,
                              outer, files
        <3>9. CASE NodeExits \/ NodeWritesKey
            BY <2>3, <3>9 DEF NodeExits, NodeWritesKey, outer
        <3>10. CASE UNCHANGED vars
            BY <2>3, <3>10 DEF vars
        <3>11. QED
            BY <1>2, <3>1, <3>2, <3>3, <3>4, <3>5, <3>6, <3>7, <3>8, <3>9, <3>10
               DEF Next, Try, Finally, Test, Node
    <2>5. QED
        BY <2>1, <2>2, <2>4 DEF NodeInv, NodeKeepsItsWorkDir
<1>3. QED
    BY <1>1, <1>2

\* Every step keeps what the finally block has established so far.
LEMMA FailureStep ==
    TypeOK /\ NodeInv /\ FailureInv /\ ReportInv /\ [Next]_vars => FailureInv'
<1> SUFFICES ASSUME TypeOK, NodeInv, FailureInv, ReportInv, [Next]_vars
             PROVE  FailureInv'
    OBVIOUS
<1>0. result \in SyncResult /\ attempt \in Ids
    BY DEF TypeOK
<1>1. CASE PrepareReportDir \/ Check \/ MakeWorkDir \/ Construct \/ PrepareNode \/ Spawn
    <2>1. pc \in Body \ {"monitor"} /\ pc' = FollowedBy[pc] /\ result' = result
        BY <1>1 DEF PrepareReportDir, Check, MakeWorkDir, Construct, PrepareNode, Spawn,
                    Advance, Body, Raises
    <2>2. pc' \in Body
        BY <2>1, StepFacts
    <2>3. pc' \notin {"stop", "shred", "archive", "clean"} \cup Reporting
        BY <2>2 DEF Body, Raises, Reporting
    <2>4. QED
        BY <2>1, <2>2, <2>3 DEF FailureInv
<1>2. CASE Monitored \/ Raise \/ Interrupt
    <2>1. ~result.converged /\ ~result.cleanupFailure /\ ~result.artifactFailure
        BY <1>2 DEF FailureInv, Monitored, Raise, Interrupt, Body, Raises
    <2>2. ~result'.cleanupFailure /\ ~result'.artifactFailure
        BY <1>2, <1>0, <2>1 DEF Monitored, Raise, Interrupt, SyncResult
    <2>3. result'.converged => hasNode' /\ attempt' \in logs'
        <3>1. CASE Monitored
            BY <3>1 DEF Monitored, NodeInv, outer, files
        <3>2. CASE Raise \/ Interrupt
            BY <3>2, <1>0, <2>1 DEF Raise, Interrupt, SyncResult
        <3>3. QED
            BY <1>2, <3>1, <3>2
    <2>4. pc' = "stop" /\ pc' \notin Body
        BY <1>2 DEF Monitored, Raise, Interrupt, Body, Raises
    <2>5. QED
        BY <2>2, <2>3, <2>4 DEF FailureInv, Reporting
<1>3. CASE Stop \/ SurvivesKill
    <2>1. /\ pc = "stop" /\ pc' = "shred"
          /\ UNCHANGED <<attempt, hasNode, logs>>
        BY <1>3 DEF Stop, SurvivesKill, outer, files
    <2>2. attempt' \in procs' => result'.cleanupFailure
        BY <1>3, <1>0, CleanupRecorded DEF Stop, SurvivesKill, outer
    <2>3. \/ result' = result
          \/ ~result'.converged /\ result'.retryable = "no"
        BY <1>3, <1>0, Failures DEF Stop, SurvivesKill
    <2>4. QED
        BY <2>1, <2>2, <2>3 DEF FailureInv, Reporting, Body, Raises
<1>4. CASE ShredSecret
    <2>1. /\ pc = "shred" /\ pc' = "archive"
          /\ UNCHANGED <<attempt, hasNode, procs, logs>>
        BY <1>4 DEF ShredSecret, outer
    <2>2. \/ result' = result
          \/ /\ ~result'.converged /\ result'.retryable = "no"
             /\ result'.cleanupFailure
        BY <1>4, <1>0, Failures, CleanupRecorded DEF ShredSecret
    <2>3. QED
        BY <2>1, <2>2 DEF FailureInv, Reporting, Body, Raises
<1>5. CASE ArchiveLog
    <2>1. /\ pc = "archive" /\ pc' = "clean"
          /\ UNCHANGED <<attempt, hasNode, procs, logs>>
        BY <1>5 DEF ArchiveLog, outer, files
    <2>2. \/ /\ result' = result
             /\ attempt \in logs => report'[attempt]["node_log"] = "new"
          \/ /\ ~result'.converged /\ result'.retryable = "no"
             /\ result.cleanupFailure => result'.cleanupFailure
        BY <1>5, <1>0, Failures DEF ArchiveLog, TypeOK, Artifacts
    <2>3. QED
        BY <2>1, <2>2 DEF FailureInv, Reporting, Body, Raises
<1>6. CASE Clean
    <2>1. /\ pc = "clean" /\ pc' = "write_samples"
          /\ UNCHANGED <<attempt, hasNode, procs, report>>
        BY <1>6 DEF Clean, outer
    <2>2. \/ result' = result
          \/ /\ ~result'.converged /\ result'.retryable = "no"
             /\ result'.cleanupFailure
        BY <1>6, <1>0, Failures, CleanupRecorded DEF Clean
    <2>3. Leftover(attempt)' => result'.cleanupFailure
        <3>1. CASE attempt \in procs
            BY <2>1, <2>2, <3>1 DEF FailureInv
        <3>2. CASE attempt \notin procs /\ RemoveWorkDir
            BY <2>1, <3>2 DEF RemoveWorkDir, Leftover, KeysOf
        <3>3. CASE attempt \notin procs /\ result' = CleanupFailed(result)
            BY <1>0, <3>3, CleanupRecorded
        <3>4. QED
            BY <1>6, <3>1, <3>2, <3>3 DEF Clean, StopFailed
    <2>4. QED
        BY <2>1, <2>2, <2>3 DEF FailureInv, Reporting, Body, Raises
<1>7. CASE CleanWithoutNode
    <2>1. /\ pc = "stop" /\ pc' = "write_samples" /\ ~hasNode
          /\ UNCHANGED <<attempt, hasNode, procs, report>>
        BY <1>7 DEF CleanWithoutNode, outer
    <2>2. attempt \notin procs /\ ~result.converged
        BY <2>1 DEF NodeInv, FailureInv
    <2>3. \/ result' = result
          \/ /\ ~result'.converged /\ result'.retryable = "no"
             /\ result'.cleanupFailure
        BY <1>7, <1>0, Failures, CleanupRecorded DEF CleanWithoutNode
    <2>4. Leftover(attempt)' => result'.cleanupFailure
        BY <1>7, <1>0, <2>1, <2>2, CleanupRecorded
           DEF CleanWithoutNode, RemoveWorkDir, Leftover, KeysOf
    <2>5. QED
        BY <2>1, <2>2, <2>3, <2>4 DEF FailureInv, Reporting, Body, Raises
<1>8. CASE WriteSamples \/ WriteSummary \/ WriteFails
    <2>1. /\ pc \in Reporting /\ pc' \in Reporting
          /\ UNCHANGED <<attempt, result, procs, dirs, keys>>
        BY <1>8 DEF WriteSamples, WriteSummary, WriteFails, Reporting, outer, files
    <2>2. report'[attempt]["node_log"] = report[attempt]["node_log"]
        BY <1>8, <1>0 DEF WriteSamples, WriteSummary, WriteFails, TypeOK, Artifacts
    <2>3. Leftover(attempt)' <=> Leftover(attempt)
        BY <2>1 DEF Leftover, KeysOf
    <2>4. QED
        BY <2>1, <2>2, <2>3 DEF FailureInv, Reporting, Body, Raises
<1>9. CASE Aborted \/ Finish
    <2>1. UNCHANGED <<attempt, pc, hasNode, result, files, report>>
        BY <1>9 DEF Aborted, Finish
    <2>2. QED
        BY <2>1 DEF FailureInv, Leftover, KeysOf, files
<1>10. CASE NextAttempt
    BY <1>10 DEF NextAttempt, FailureInv, Fresh, Reporting
<1>11. CASE NodeExits \/ NodeWritesKey
    <2>1. UNCHANGED <<attempt, pc, hasNode, result, logs, report>>
        BY <1>11 DEF NodeExits, NodeWritesKey, outer
    <2>2. attempt \in procs' => attempt \in procs
        BY <1>11 DEF NodeExits, NodeWritesKey
    <2>3. Leftover(attempt)' => Leftover(attempt)
        <3>1. CASE NodeExits
            BY <3>1, <2>1, <2>2 DEF NodeExits, Leftover, KeysOf
        <3>2. CASE NodeWritesKey
            <4>1. PICK i \in procs : keys' = keys \cup {<<i, "fiber">>}
                BY <3>2 DEF NodeWritesKey
            <4>2. i = attempt
                BY DEF NodeInv, NodeKeepsItsWorkDir
            <4>3. QED
                BY <4>2 DEF Leftover
        <3>3. QED
            BY <1>11, <3>1, <3>2
    <2>4. QED
        BY <2>1, <2>2, <2>3 DEF FailureInv
<1>12. CASE UNCHANGED vars
    BY <1>12 DEF vars, FailureInv, Leftover, KeysOf
<1>13. QED
    BY <1>1, <1>2, <1>3, <1>4, <1>5, <1>6, <1>7, <1>8, <1>9, <1>10, <1>11, <1>12
       DEF Next, Try, Finally, Test, Node

\* What ReportInv says is unaffected by a step that keeps these variables.
LEMMA ReportUntouched ==
    ASSUME ReportInv, UNCHANGED <<attempt, result, report, summary>>,
           pc' # "returned" => Running',
           pc' # "write_summary" /\ pc' # "report_dir",
           pc # "report_dir",
           pc' \in Body => pc \in Body,
           pc' = "returned" => pc = "returned",
           pc = "returned" => pc' = "returned" /\ (verdict = "error" => verdict' = "error")
    PROVE  ReportInv'
BY DEF ReportInv, SummaryMarksCompletion, Complete, Over

\* Every step keeps the report dir in order.
LEMMA ReportStep ==
    TypeOK /\ FailureInv /\ ReportInv /\ [Next]_vars => ReportInv'
<1> SUFFICES ASSUME TypeOK, FailureInv, ReportInv, [Next]_vars
             PROVE  ReportInv'
    OBVIOUS
<1>0. result \in SyncResult /\ attempt \in Ids /\ attempt \in Nat /\ Ids \subseteq Nat
    BY DEF TypeOK, Ids
<1>a. \A i \in Ids : i # attempt /\ Over(i) => i < attempt
    BY DEF Over
<1>b. \A x \in Artifacts : report[attempt][x] \in {"none", "stale", "new"}
    BY <1>0 DEF TypeOK
<1>1. CASE PrepareReportDir
    <2>1. /\ pc = "report_dir" /\ pc' = "validate"
          /\ UNCHANGED <<attempt, result, summary, verdict>>
        BY <1>1 DEF PrepareReportDir, Advance, FollowedBy, outer
    <2>2. /\ \A i \in Ids \ {attempt} : report'[i] = report[i]
          /\ \A x \in Artifacts : report'[attempt][x] = "none"
        BY <1>1, <1>0 DEF PrepareReportDir, Unlinked, TypeOK
    <2>3. ~Complete(attempt)' /\ report'[attempt]["node_log"] # "stale"
        BY <2>1, <2>2 DEF Complete, Artifacts
    <2>4. QED
        BY <2>1, <2>2, <2>3
           DEF ReportInv, SummaryMarksCompletion, Complete, Over, Running, Body, Raises
<1>2. CASE Check \/ MakeWorkDir \/ Construct \/ PrepareNode \/ Spawn
    <2>1. /\ pc \in Body \ {"monitor", "report_dir"} /\ pc' = FollowedBy[pc]
          /\ UNCHANGED <<attempt, result, report, summary, verdict>>
        BY <1>2 DEF Check, MakeWorkDir, Construct, PrepareNode, Spawn,
                    Advance, Body, Raises, outer
    <2>2. pc' \in Body /\ pc' # "report_dir"
        BY <2>1 DEF Body, Raises, FollowedBy
    <2>3. QED
        BY <2>1, <2>2, ReportUntouched DEF ReportInv, Running, Body, Raises
<1>3. CASE Monitored \/ Interrupt \/ (Raise /\ pc # "report_dir")
    <2>1. /\ pc \in Body /\ pc' = "stop"
          /\ UNCHANGED <<attempt, report, summary, verdict>>
        BY <1>3 DEF Monitored, Interrupt, Raise, PartialEffect, outer, files, Body, Raises
    <2>2. report[attempt]["node_log"] = "stale" => result'.cause \in {"os", "interrupt"}
        <3>1. CASE pc # "report_dir"
            BY <2>1, <3>1 DEF ReportInv
        <3>2. CASE pc = "report_dir"
            BY <1>3, <1>0, <3>2 DEF Monitored, Interrupt, SyncResult
        <3>3. QED
            BY <3>1, <3>2
    <2>3. QED
        BY <2>1, <2>2
           DEF ReportInv, SummaryMarksCompletion, Complete, Over, Running, Body, Raises
<1>4. CASE Raise /\ pc = "report_dir"
    <2>1. /\ pc' = "stop" /\ UNCHANGED <<attempt, summary, verdict>>
        BY <1>4 DEF Raise, outer
    <2>2. result'.cause = "os"
        BY <1>4, <1>0 DEF Raise, Raises, SyncResult
    <2>3. PICK done \in SUBSET Artifacts : report' = Unlinked(attempt, done)
        BY <1>4 DEF Raise, PartialEffect
    <2>4. /\ \A i \in Ids \ {attempt} : report'[i] = report[i]
          /\ report'[attempt]["summary"] \in {"none", report[attempt]["summary"]}
        BY <2>3, <1>0 DEF Unlinked, TypeOK, Artifacts
    <2>5. ~Complete(attempt)
        BY <1>4, <1>0 DEF ReportInv, Over
    <2>6. ~Complete(attempt)'
        BY <2>1, <2>4, <2>5 DEF Complete
    <2>7. QED
        BY <1>4, <2>1, <2>2, <2>4, <2>6
           DEF ReportInv, SummaryMarksCompletion, Complete, Over, Running, Body, Raises
<1>5. CASE Stop \/ SurvivesKill \/ ShredSecret \/ Clean \/ CleanWithoutNode
    <2>1. UNCHANGED <<attempt, report, summary, verdict>>
        BY <1>5 DEF Stop, SurvivesKill, ShredSecret, Clean, CleanWithoutNode, outer
    <2>2. result'.cause = result.cause
        BY <1>5, <1>0, Failures DEF Stop, SurvivesKill, ShredSecret, Clean, CleanWithoutNode
    <2>3. /\ pc \notin {"report_dir", "write_summary", "returned"}
          /\ pc' \notin {"report_dir", "write_summary", "returned"} \cup Body
        BY <1>5 DEF Stop, SurvivesKill, ShredSecret, Clean, CleanWithoutNode, Body, Raises
    <2>4. QED
        BY <2>1, <2>2, <2>3
           DEF ReportInv, SummaryMarksCompletion, Complete, Over, Running
<1>6. CASE ArchiveLog
    <2>1. /\ pc = "archive" /\ pc' = "clean"
          /\ UNCHANGED <<attempt, summary, verdict>>
          /\ result'.cause = result.cause
        BY <1>6, <1>0, Failures DEF ArchiveLog, outer
    <2>2. /\ \A i \in Ids \ {attempt} : report'[i] = report[i]
          /\ report'[attempt]["summary"] = report[attempt]["summary"]
          /\ report'[attempt]["node_log"] \in {"new", report[attempt]["node_log"]}
        BY <1>6, <1>0 DEF ArchiveLog, TypeOK, Artifacts
    <2>3. ~Complete(attempt)'
        BY <2>1, <2>2, <1>0 DEF ReportInv, Complete, Over
    <2>4. QED
        BY <2>1, <2>2, <2>3
           DEF ReportInv, SummaryMarksCompletion, Complete, Over, Running, Body, Raises
<1>7. CASE WriteSamples
    <2>1. /\ pc = "write_samples" /\ pc' = "write_summary"
          /\ UNCHANGED <<attempt, result, summary, verdict>>
        BY <1>7 DEF WriteSamples, outer
    <2>2. /\ \A i \in Ids \ {attempt} : report'[i] = report[i]
          /\ report'[attempt]["summary"] = report[attempt]["summary"]
          /\ report'[attempt]["samples"] = "new"
          /\ report'[attempt]["node_log"] = report[attempt]["node_log"]
        BY <1>7, <1>0 DEF WriteSamples, TypeOK, Artifacts
    <2>3. ~Complete(attempt)'
        BY <2>1, <2>2, <1>0 DEF ReportInv, Complete, Over
    <2>4. QED
        BY <2>1, <2>2, <2>3
           DEF ReportInv, SummaryMarksCompletion, Complete, Over, Running, Body, Raises
<1>8. CASE WriteSummary
    <2>1. /\ pc = "write_summary" /\ pc' = "returned"
          /\ UNCHANGED <<attempt, result, verdict>>
        BY <1>8 DEF WriteSummary, outer
    <2>2. /\ \A i \in Ids \ {attempt} :
                report'[i] = report[i] /\ summary'[i] = summary[i]
          /\ summary'[attempt] = result
          /\ report'[attempt]["summary"] = "new"
          /\ report'[attempt]["samples"] = report[attempt]["samples"]
          /\ report'[attempt]["node_log"] = report[attempt]["node_log"]
        BY <1>8, <1>0 DEF WriteSummary, TypeOK, Artifacts
    <2>3. QED
        BY <1>0, <2>1, <2>2
           DEF ReportInv, SummaryMarksCompletion, Complete, Over, Running, Body, Raises
<1>9. CASE WriteFails
    <2>1. /\ pc \in {"write_samples", "write_summary"} /\ pc' = "returned"
          /\ verdict' = "error"
          /\ UNCHANGED <<attempt, result, report, summary>>
        BY <1>9 DEF WriteFails
    <2>2. ~Complete(attempt)
        BY <2>1, <1>0 DEF ReportInv, Over
    <2>3. QED
        BY <2>1, <2>2
           DEF ReportInv, SummaryMarksCompletion, Complete, Over, Body, Raises
<1>10. CASE Aborted \/ Finish
    <2>1. UNCHANGED <<attempt, pc, result, report, summary>> /\ pc = "returned" /\ Running
        BY <1>10 DEF Aborted, Finish, Collect
    <2>2. QED
        BY <2>1, ReportUntouched DEF Running
<1>11. CASE NextAttempt
    <2>1. /\ pc = "returned" /\ pc' = "report_dir" /\ Running
          /\ attempt' = attempt + 1 /\ attempt + 1 \in Nat
          /\ result' = Fresh /\ UNCHANGED <<report, summary, verdict>>
        BY <1>11, <1>0 DEF NextAttempt, Collect
    <2>2. ~result.converged
        BY <1>11, Zenon DEF NextAttempt, LastAttempt
    <2>3. Complete(attempt) /\ summary[attempt] = result
        BY <2>1 DEF ReportInv, Running
    <2>4. \A i \in Ids : Complete(i) => i < attempt + 1 /\ ~summary[i].converged
        <3>1. TAKE i \in Ids
        <3>2. CASE i = attempt
            BY <1>0, <2>2, <2>3, <3>2
        <3>3. CASE i # attempt
            BY <1>0, <1>a, <3>3 DEF ReportInv
        <3>4. QED
            BY <3>2, <3>3
    <2>5. QED
        BY <2>1, <2>4
           DEF ReportInv, SummaryMarksCompletion, Complete, Over, Running, Fresh
<1>12. CASE NodeExits \/ NodeWritesKey \/ UNCHANGED vars
    <2>1. UNCHANGED <<attempt, pc, result, report, summary, verdict>>
        BY <1>12 DEF NodeExits, NodeWritesKey, outer, vars
    <2>2. QED
        BY <2>1 DEF ReportInv, SummaryMarksCompletion, Complete, Over, Running
<1>13. QED
    BY <1>1, <1>2, <1>3, <1>4, <1>5, <1>6, <1>7, <1>8, <1>9, <1>10, <1>11, <1>12
       DEF Next, Try, Finally, Test, Node

\* The inductive invariant holds throughout: which files and processes exist at
\* each step of run_attempt, what its result has recorded, what is reported.
THEOREM LifecycleInvariant == Spec => []LifecycleInv
<1>1. LifecycleInv /\ [Next]_vars => LifecycleInv'
    BY TypeStep, NodeStep, FailureStep, ReportStep DEF LifecycleInv
<1>2. QED
    BY InitLifecycleInv, <1>1, PTL DEF Spec

\* After any failure or combination of failures, what run_attempt leaves behind
\* is reported as a cleanup failure, or the test ends with the write error.
THEOREM LeftoversAreReported == Spec => []NothingLeftUnreported
<1>1. LifecycleInv => NothingLeftUnreported
    <2> SUFFICES ASSUME LifecycleInv, NEW i \in Ids, Over(i), Leftover(i), verdict # "error"
                 PROVE  Complete(i) /\ summary[i].cleanupFailure
        BY DEF NothingLeftUnreported
    <2>1. i = attempt
        BY DEF LifecycleInv, NodeInv
    <2>2. attempt \in Nat
        BY DEF LifecycleInv, TypeOK, Ids
    <2>3. pc = "returned"
        BY <2>1, <2>2 DEF Over
    <2>4. Complete(i) /\ summary[i] = result
        BY <2>1, <2>3 DEF LifecycleInv, ReportInv
    <2>5. result.cleanupFailure
        BY <2>1, <2>3 DEF LifecycleInv, FailureInv, Reporting
    <2>6. QED
        BY <2>4, <2>5
<1>2. QED
    BY LifecycleInvariant, <1>1, PTL

\* A summary that says "converged" is about a node that is gone with its keys
\* and work dir, and lies beside the samples and the log of that very attempt.
THEOREM ConvergedSummaryIsTrue == Spec => []SummaryTellsTheTruth
<1>1. LifecycleInv => SummaryTellsTheTruth
    <2> SUFFICES ASSUME LifecycleInv, NEW i \in Ids, Complete(i), summary[i].converged
                 PROVE  ~Leftover(i) /\ \A a \in Artifacts : report[i][a] = "new"
        BY DEF SummaryTellsTheTruth
    <2>1. i = attempt /\ pc = "returned"
        BY DEF LifecycleInv, ReportInv, Over
    <2>2. summary[i] = result
        BY <2>1 DEF LifecycleInv, ReportInv
    <2>3. ~result.cleanupFailure
        BY <2>2 DEF LifecycleInv, FailureInv
    <2>4. ~Leftover(i) /\ report[i]["node_log"] = "new"
        BY <2>1, <2>2, <2>3 DEF LifecycleInv, FailureInv, Reporting
    <2>5. report[i]["samples"] = "new"
        BY DEF LifecycleInv, ReportInv
    <2>6. QED
        BY <2>4, <2>5 DEF Complete, Artifacts
<1>2. QED
    BY LifecycleInvariant, <1>1, PTL

\* At most the node of the attempt under way runs, and in a work dir that is there.
THEOREM OneNodeAtATime == Spec => []NodeKeepsItsWorkDir
<1>1. LifecycleInv => NodeKeepsItsWorkDir
    BY DEF LifecycleInv, NodeInv
<1>2. QED
    BY LifecycleInvariant, <1>1, PTL

\* A summary marks completion: the samples beside it are of this invocation, and so is
\* an archived log unless clearing the report dir was what went wrong.
THEOREM SummariesMarkCompletion == Spec => []SummaryMarksCompletion
<1>1. LifecycleInv => SummaryMarksCompletion
    BY DEF LifecycleInv, ReportInv
<1>2. QED
    BY LifecycleInvariant, <1>1, PTL

-----------------------------------------------------------------------------
(* The retries *)

\* retryable says what the cause is, unless a failure of the finally block overrode it.
Classified(r) ==
    /\ ~r.converged /\ r.retryable # "no" => Transient(r.cause) \/ r.cause = "interrupt"
    /\ r.retryable = "no" /\ ~r.cleanupFailure /\ ~r.artifactFailure => ~Transient(r.cause)

\* The result is classified when the try block is left, and the test has collected one
\* result per attempt that is over.
RetryInv ==
    /\ pc \in Body => result.retryable = "unset"
    /\ pc \notin Body => Classified(result)
    /\ Running => Len(results) = attempt - 1
    /\ Len(results) \in {attempt - 1, attempt}
    /\ \A i \in 1 .. (attempt - 1) : CleanlyRetryable(results[i])
    /\ verdict = "failed" /\ attempt < Attempts =>
          Len(results) = attempt /\ ~CleanlyRetryable(results[attempt])

\* What an exception is classified as says whether it is transient.
LEMMA RetryableIsTransient ==
    ASSUME NEW k \in UNION {Raises[s] : s \in Body}
    PROVE  IsRetryable(k) = "yes" <=> Transient(k)
BY DEF Body, Raises, IsRetryable, Classes, Transient

\* The steps of the finally block leave a classified result classified.
LEMMA FailuresClassified ==
    ASSUME NEW r \in SyncResult, Classified(r),
           NEW f \in {r, CleanupFailed(r), ArtifactFailed(r)}
    PROVE  Classified(f)
BY DEF SyncResult, Classified, CleanupFailed, ArtifactFailed

\* The test makes a further attempt of exactly the results that are cleanly retryable.
LEMMA LastIsNotRetryable ==
    ASSUME NEW r \in SyncResult, Classified(r), r.cause # "interrupt"
    PROVE  LastAttempt(r) <=> ~CleanlyRetryable(r)
BY DEF SyncResult, Classified, LastAttempt, CleanlyRetryable, Transient

\* Every step keeps it.
LEMMA RetryStep == LifecycleInv /\ RetryInv /\ [Next]_vars => RetryInv'
<1> SUFFICES ASSUME LifecycleInv, RetryInv, [Next]_vars PROVE RetryInv'
    OBVIOUS
<1>0. /\ TypeOK /\ result \in SyncResult /\ results \in Seq(SyncResult)
      /\ attempt \in Nat /\ Attempts \in Nat
      /\ Body \cap {"stop", "shred", "archive", "clean", "write_samples",
                    "write_summary", "returned"} = {}
    BY AttemptsAssumption DEF LifecycleInv, TypeOK, Ids, Body, Raises
\* Steps that collect nothing and keep the verdict.
<1>1. ASSUME UNCHANGED <<attempt, results>>, Running,
             verdict' \notin {"running", "failed"} \/ UNCHANGED verdict,
             pc' \in Body => result'.retryable = "unset",
             pc' \notin Body => Classified(result')
      PROVE  RetryInv'
    <2>1. \A i \in 1 .. (attempt - 1) : CleanlyRetryable(results[i])'
        BY <1>1 DEF RetryInv, CleanlyRetryable, Transient
    <2>2. QED
        BY <1>0, <1>1, <2>1 DEF RetryInv, Running
<1>2. CASE PrepareReportDir \/ Check \/ MakeWorkDir \/ Construct \/ PrepareNode \/ Spawn
    <2>1. /\ UNCHANGED <<attempt, results, verdict, result>>
          /\ pc \in Body \ {"monitor"} /\ pc' = FollowedBy[pc]
        BY <1>2
        DEF PrepareReportDir, Check, MakeWorkDir, Construct, PrepareNode, Spawn, Advance,
            outer, Body, Raises
    <2>2. pc' \in Body
        BY <2>1, StepFacts
    <2>3. Running
        BY <1>0, <2>1 DEF LifecycleInv, ReportInv
    <2>4. QED
        BY <1>1, <2>1, <2>2, <2>3 DEF RetryInv
<1>3. CASE Monitored \/ Raise \/ Interrupt
    <2>1. /\ UNCHANGED <<attempt, results, verdict>>
          /\ pc \in Body /\ pc' \notin Body
        BY <1>0, <1>3 DEF Monitored, Raise, Interrupt, outer, Body, Raises
    <2>2. /\ result.retryable = "unset" /\ result.cause = "none"
          /\ ~result.converged /\ ~result.cleanupFailure /\ ~result.artifactFailure
          /\ Running
        BY <1>0, <2>1 DEF RetryInv, LifecycleInv, FailureInv, ReportInv
    <2>3. Classified(result')
        <3>1. CASE Monitored \/ Interrupt
            BY <1>0, <2>2, <3>1
            DEF Monitored, Interrupt, SyncResult, Classified, Transient
        <3>2. CASE Raise
            <4>1. PICK k \in Raises[pc] :
                      result' = [result EXCEPT !.cause = k, !.retryable = IsRetryable(k)]
                BY <3>2 DEF Raise
            <4>2. /\ IsRetryable(k) = "yes" <=> Transient(k)
                  /\ IsRetryable(k) \in {"yes", "no"}
                BY <2>1, StepFacts, RetryableIsTransient
            <4>3. QED
                BY <1>0, <2>2, <4>1, <4>2 DEF SyncResult, Classified
        <3>3. QED
            BY <1>3, <3>1, <3>2
    <2>4. QED
        BY <1>1, <2>1, <2>2, <2>3
<1>4. CASE Stop \/ SurvivesKill \/ ShredSecret \/ ArchiveLog \/ Clean \/ CleanWithoutNode
           \/ WriteSamples \/ WriteSummary
    <2>1. /\ UNCHANGED <<attempt, results, verdict>>
          /\ result' \in {result, CleanupFailed(result), ArtifactFailed(result)}
          /\ pc \notin Body /\ pc # "returned" /\ pc' \notin Body
        BY <1>0, <1>4
        DEF Stop, SurvivesKill, ShredSecret, ArchiveLog, Clean, CleanWithoutNode,
            WriteSamples, WriteSummary, outer
    <2>2. Classified(result')
        BY <1>0, <2>1, FailuresClassified DEF RetryInv
    <2>3. Running
        BY <2>1 DEF LifecycleInv, ReportInv
    <2>4. QED
        BY <1>1, <2>1, <2>2, <2>3
<1>5. CASE WriteFails \/ Aborted
    <2>1. /\ UNCHANGED <<attempt, results, result>>
          /\ pc \notin Body /\ pc' \notin Body
          /\ verdict' \in {"error", "interrupted"}
          /\ Running
        BY <1>0, <1>5 DEF WriteFails, Aborted, LifecycleInv, ReportInv
    <2>2. QED
        BY <1>1, <2>1 DEF RetryInv
<1>6. CASE Finish \/ NextAttempt
    <2>1. /\ Classified(result) /\ result.cause # "interrupt"
          /\ Len(results) = attempt - 1
          /\ results' = Append(results, result)
          /\ pc \notin Body
        BY <1>0, <1>6 DEF Finish, NextAttempt, Collect, RetryInv
    <2>2. /\ Len(results') = attempt
          /\ results'[attempt] = result
          /\ \A i \in 1 .. (attempt - 1) : results'[i] = results[i]
        BY <1>0, <2>1
    <2>3. LastAttempt(result) <=> ~CleanlyRetryable(result)
        BY <1>0, <2>1, LastIsNotRetryable
    <2>4. \A i \in 1 .. (attempt - 1) : CleanlyRetryable(results'[i])
        BY <2>2 DEF RetryInv
    <2>5. CASE Finish
        <3>1. /\ UNCHANGED <<attempt, pc, result>>
              /\ verdict' \in {"passed", "failed"}
              /\ LastAttempt(result) \/ attempt = Attempts
            BY <2>5 DEF Finish, Verdict
        <3>2. QED
            BY <1>0, <2>1, <2>2, <2>3, <2>4, <3>1 DEF RetryInv, Running
    <2>6. CASE NextAttempt
        <3>1. /\ attempt' = attempt + 1 /\ pc' \in Body /\ result' = Fresh
              /\ ~LastAttempt(result)
              /\ UNCHANGED verdict /\ Running
            BY <2>6 DEF NextAttempt, Collect, Body, Raises
        <3>2. \A i \in 1 .. (attempt' - 1) : CleanlyRetryable(results'[i])
            BY <1>0, <2>2, <2>3, <2>4, <3>1
        <3>3. QED
            BY <1>0, <2>2, <3>1, <3>2 DEF RetryInv, Running, Fresh
    <2>7. QED
        BY <1>6, <2>5, <2>6
<1>7. CASE NodeExits \/ NodeWritesKey \/ UNCHANGED vars
    <2>1. UNCHANGED <<attempt, results, verdict, result, pc>>
        BY <1>7 DEF NodeExits, NodeWritesKey, vars, outer
    <2>2. QED
        BY <2>1 DEF RetryInv, Running, Classified, CleanlyRetryable, Transient
<1>8. QED
    BY <1>2, <1>3, <1>4, <1>5, <1>6, <1>7 DEF Next, Try, Finally, Test, Node

\* A further attempt is made exactly after those that failed of a transient cause and
\* were cleaned up, however many attempts there are.
THEOREM OnlyTransientFailuresAreRetried == Spec => []RetriesExactlyTransientFailures
<1>1. Init => RetryInv
    BY AttemptsAssumption
    DEF Init, RetryInv, Fresh, Body, Raises, Running
<1>2. RetryInv => RetriesExactlyTransientFailures
    BY DEF RetryInv, RetriesExactlyTransientFailures
<1>3. QED
    BY LifecycleInvariant, RetryStep, <1>1, <1>2, PTL DEF Spec

-----------------------------------------------------------------------------
(* What a step may never do *)

\* A step changes the report of the attempt under way only, and none once
\* run_attempt has returned.
LEMMA ReportsOfOthersUntouched ==
    ASSUME LifecycleInv, [Next]_vars, NEW i \in Ids, i # attempt \/ pc = "returned"
    PROVE  report'[i] = report[i] /\ summary'[i] = summary[i]
<1>0. /\ report \in [Ids -> [Artifacts -> {"none", "stale", "new"}]]
      /\ summary \in [Ids -> SyncResult]
    BY DEF LifecycleInv, TypeOK
<1>1. CASE PrepareReportDir
    <2>1. \E names : report' = Unlinked(attempt, names)
        BY <1>1 DEF PrepareReportDir
    <2>2. i # attempt /\ UNCHANGED summary
        BY <1>1 DEF PrepareReportDir
    <2>3. QED
        BY <1>0, <2>1, <2>2 DEF Unlinked
<1>2. CASE Raise
    <2>1. i # attempt /\ UNCHANGED summary
        BY <1>2 DEF Raise, Body, Raises
    <2>2. UNCHANGED report \/ \E names : report' = Unlinked(attempt, names)
        <3>1. CASE pc = "report_dir"
            BY <1>2, <3>1 DEF Raise, PartialEffect
        <3>2. CASE pc # "report_dir"
            BY <1>2, <3>2 DEF Raise, PartialEffect
        <3>3. QED
            BY <3>1, <3>2
    <2>3. QED
        BY <1>0, <2>1, <2>2 DEF Unlinked
<1>3. CASE ArchiveLog \/ WriteSamples \/ WriteSummary
    <2>1. i # attempt
        BY <1>3 DEF ArchiveLog, WriteSamples, WriteSummary
    <2>2. QED
        BY <1>0, <1>3, <2>1 DEF ArchiveLog, WriteSamples, WriteSummary
<1>4. CASE UNCHANGED <<report, summary>>
    BY <1>4
<1>5. QED
    BY <1>1, <1>2, <1>3, <1>4
    DEF Next, Try, Finally, Test, Node, Check, MakeWorkDir, Construct, PrepareNode, Spawn,
        Monitored, Interrupt, Stop, SurvivesKill, ShredSecret, Clean, CleanWithoutNode,
        WriteFails, Aborted, Finish, NextAttempt, NodeExits, NodeWritesKey, vars

\* Once its summary.json is in place an attempt's report is final: neither the end of
\* the test nor a further attempt rewrites it or takes an artifact away from beside it.
THEOREM ReportsAreFinal ==
    Spec => [][\A i \in Ids :
                  Complete(i) => report'[i] = report[i] /\ summary'[i] = summary[i]]_vars
<1>1. ASSUME LifecycleInv, [Next]_vars, NEW i \in Ids, Complete(i)
      PROVE  report'[i] = report[i] /\ summary'[i] = summary[i]
    <2>1. Over(i)
        BY <1>1 DEF LifecycleInv, ReportInv
    <2>2. attempt \in Nat /\ i \in Nat
        BY <1>1 DEF LifecycleInv, TypeOK, Ids
    <2>3. i # attempt \/ pc = "returned"
        BY <2>1, <2>2 DEF Over
    <2>4. QED
        BY <1>1, <2>3, ReportsOfOthersUntouched
<1>2. LifecycleInv /\ [Next]_vars =>
         [\A i \in Ids :
             Complete(i) => report'[i] = report[i] /\ summary'[i] = summary[i]]_vars
    BY <1>1
<1>3. QED
    BY LifecycleInvariant, <1>2, PTL DEF Spec

\* A further attempt starts on a clean machine: no node, work dir or key file of any
\* attempt before it is left.
THEOREM AttemptsStartClean ==
    Spec => [][attempt' # attempt => \A i \in Ids : ~Leftover(i)]_vars
<1>1. ASSUME LifecycleInv, [Next]_vars, attempt' # attempt
      PROVE  \A i \in Ids : ~Leftover(i)
    <2>1. NextAttempt
        BY <1>1, OwnFilesOnly DEF LifecycleInv
    <2>2. ~Leftover(attempt)
        BY <1>1, <2>1, RetryIsClean DEF LifecycleInv
    <2>3. \A i \in Ids : i # attempt => ~Leftover(i)
        BY <1>1 DEF LifecycleInv, NodeInv
    <2>4. QED
        BY <2>2, <2>3
<1>2. LifecycleInv /\ [Next]_vars =>
         [attempt' # attempt => \A i \in Ids : ~Leftover(i)]_vars
    BY <1>1
<1>3. QED
    BY LifecycleInvariant, <1>2, PTL DEF Spec

-----------------------------------------------------------------------------
(* How long a test can be *)

\* The steps of an attempt from here to its end, if none is skipped.
StepsFrom ==
    [report_dir |-> 17, validate |-> 16, precheck |-> 15, mkdtemp |-> 14, construct |-> 13,
     prepare |-> 12, spawn |-> 11, rpc_ready |-> 10, identity |-> 9, monitor |-> 8,
     stop |-> 7, shred |-> 6, archive |-> 5, clean |-> 4, write_samples |-> 3,
     write_summary |-> 2, returned |-> 1]

\* The steps the test may still take, over all the attempts it may still make.
StepsLeft ==
    IF verdict = "running" THEN 17 * (Attempts - attempt) + StepsFrom[pc] ELSE 0

control == <<attempt, pc, verdict>>

\* Every step of an attempt has between 1 and 17 steps to go.
LEMMA StepsFromType == \A s \in Steps : StepsFrom[s] \in 1..17
<1>1. Steps = DOMAIN StepsFrom
    BY DEF Steps, Body, Raises, StepsFrom
<1>2. QED
    BY <1>1 DEF StepsFrom

\* A step of the test leaves fewer of them, whatever it does.
LEMMA StepsGetFewer ==
    ASSUME LifecycleInv, LifecycleInv', [Next]_vars, control' # control
    PROVE  StepsLeft' < StepsLeft
<1>0. /\ attempt \in Nat /\ Attempts \in Nat /\ attempt <= Attempts
      /\ pc \in Steps /\ pc' \in Steps
    BY AttemptsAssumption DEF LifecycleInv, TypeOK, Ids
<1>1. PICK k \in Nat : k = 17 * (Attempts - attempt)
    BY <1>0
<1>2. StepsFrom[pc] \in 1..17 /\ StepsFrom[pc'] \in 1..17
    BY <1>0, StepsFromType
<1>3. pc # "returned" => verdict = "running"
    BY DEF LifecycleInv, ReportInv, Running
<1>4. CASE /\ UNCHANGED <<attempt, verdict>> /\ verdict = "running"
           /\ StepsFrom[pc'] < StepsFrom[pc]
    <2>1. StepsLeft = k + StepsFrom[pc] /\ StepsLeft' = k + StepsFrom[pc']
        BY <1>1, <1>4 DEF StepsLeft
    <2>2. QED
        BY <1>2, <1>4, <2>1
<1>5. CASE verdict = "running" /\ verdict' # "running"
    <2>1. StepsLeft = k + StepsFrom[pc] /\ StepsLeft' = 0
        BY <1>1, <1>5 DEF StepsLeft
    <2>2. QED
        BY <1>2, <2>1
<1>6. CASE PrepareReportDir \/ Check \/ MakeWorkDir \/ Construct \/ PrepareNode \/ Spawn
    <2>1. /\ pc \in Body \ {"monitor"} /\ pc' = FollowedBy[pc]
          /\ UNCHANGED <<attempt, verdict>>
        BY <1>6 DEF PrepareReportDir, Check, MakeWorkDir, Construct, PrepareNode, Spawn,
            Advance, Body, Raises, outer
    <2>2. pc # "returned" /\ StepsFrom[pc'] < StepsFrom[pc]
        BY <2>1 DEF Body, Raises, FollowedBy, StepsFrom
    <2>3. QED
        BY <1>3, <1>4, <2>1, <2>2
<1>7. CASE Monitored \/ Raise \/ Interrupt
    <2>1. /\ pc \in Body /\ pc' = "stop"
          /\ UNCHANGED <<attempt, verdict>>
        BY <1>7 DEF Monitored, Raise, Interrupt, Body, Raises, outer
    <2>2. pc # "returned" /\ StepsFrom[pc'] < StepsFrom[pc]
        BY <2>1 DEF Body, Raises, StepsFrom
    <2>3. QED
        BY <1>3, <1>4, <2>1, <2>2
<1>8. CASE Stop \/ SurvivesKill \/ ShredSecret \/ ArchiveLog \/ Clean \/ CleanWithoutNode
           \/ WriteSamples \/ WriteSummary
    <2>1. UNCHANGED <<attempt, verdict>> /\ pc # "returned"
        BY <1>8 DEF Stop, SurvivesKill, ShredSecret, ArchiveLog, Clean, CleanWithoutNode,
            WriteSamples, WriteSummary, outer
    <2>2. StepsFrom[pc'] < StepsFrom[pc]
        BY <1>8 DEF Stop, SurvivesKill, ShredSecret, ArchiveLog, Clean, CleanWithoutNode,
            WriteSamples, WriteSummary, StepsFrom
    <2>3. QED
        BY <1>3, <1>4, <2>1, <2>2
<1>9. CASE WriteFails
    <2>1. pc # "returned" /\ verdict' = "error"
        BY <1>9 DEF WriteFails
    <2>2. QED
        BY <1>3, <1>5, <2>1
<1>10. CASE Aborted \/ Finish
    <2>1. verdict = "running" /\ verdict' \in {"interrupted", "passed", "failed"}
        BY <1>10 DEF Aborted, Finish, Collect, Running, Verdict
    <2>2. QED
        BY <1>5, <2>1
<1>11. CASE NextAttempt
    <2>1. /\ attempt' = attempt + 1 /\ attempt + 1 <= Attempts /\ verdict = "running"
          /\ verdict' = verdict /\ pc = "returned" /\ pc' = "report_dir"
        BY <1>0, <1>11 DEF NextAttempt, Collect, Running
    <2>2. StepsFrom[pc] = 1 /\ StepsFrom[pc'] = 17
        BY <2>1 DEF StepsFrom
    <2>3. StepsLeft = 17 * (Attempts - attempt) + 1
          /\ StepsLeft' = 17 * (Attempts - (attempt + 1)) + 17
        BY <2>1, <2>2 DEF StepsLeft
    <2>4. QED
        BY <1>0, <2>3
<1>12. QED
    BY <1>6, <1>7, <1>8, <1>9, <1>10, <1>11
    DEF Next, Try, Finally, Test, Node, NodeExits, NodeWritesKey, outer, vars, control

\* However steps fail and nodes behave, the test is over after at most 17 steps per
\* attempt: each step leaves fewer to take, what the nodes do adds none, and when none
\* is left the test has its verdict.
THEOREM TestsAreBounded ==
    Spec => /\ [](StepsLeft \in 0..(17 * Attempts))
            /\ [](StepsLeft = 0 <=> verdict # "running")
            /\ [][StepsLeft' < StepsLeft]_control
<1>1. ASSUME LifecycleInv
      PROVE  StepsLeft \in 0..(17 * Attempts) /\ (StepsLeft = 0 <=> verdict # "running")
    <2>1. /\ attempt \in Nat \ {0} /\ Attempts \in Nat /\ attempt <= Attempts
          /\ pc \in Steps
        BY <1>1, AttemptsAssumption DEF LifecycleInv, TypeOK, Ids
    <2>2. StepsFrom[pc] \in 1..17
        BY <2>1, StepsFromType
    <2>3. QED
        BY <2>1, <2>2 DEF StepsLeft
<1>2. LifecycleInv /\ LifecycleInv' /\ [Next]_vars => [StepsLeft' < StepsLeft]_control
    BY StepsGetFewer
<1>3. LifecycleInv => StepsLeft \in 0..(17 * Attempts)
    BY <1>1
<1>4. LifecycleInv => (StepsLeft = 0 <=> verdict # "running")
    BY <1>1
<1>5. QED
    BY LifecycleInvariant, <1>2, <1>3, <1>4, PTL DEF Spec
=============================================================================
