--------------------------- MODULE ExportJobsProofs ---------------------------
(***************************************************************************)
(* Exports for every number of jobs, workers, attempts, retries and faults: *)
(* a completed job has the artifact of its last claim, it can be downloaded *)
(* until its retention ends, and no artifact is forgotten.                 *)
(***************************************************************************)
EXTENDS ExportJobs, TLAPS

LEMMA TypeInit == Init => TypeOK
<1> SUFFICES ASSUME Init PROVE TypeOK OBVIOUS
<1> USE MaxAttemptsAssumption, BoundsAssumption DEF Init, Status, PC
<1>1. (CHOOSE j \in Job : TRUE) \in Job BY JobAssumption
<1>2. job \in [Worker -> Job] BY <1>1
<1>3. /\ status \in [Job -> Status] /\ attempts \in [Job -> 0..MaxAttempts]
      /\ lease \in [Job -> {"none", "live", "past"}] /\ claimToken \in [Job -> Nat]
      /\ artifact \in [Job -> Nat] /\ lastClaim \in [Job -> Nat]
  OBVIOUS
<1>4. pc \in [Worker -> PC] /\ token \in [Worker -> Nat] /\ todo \in [Worker -> SUBSET Job]
  OBVIOUS
<1>5. /\ due \in SUBSET Job /\ expired \in SUBSET Job /\ files \in SUBSET Nat /\ issued \in Nat
      /\ orphaned \in SUBSET Nat /\ retries \in 0..MaxRetries /\ faults \in 0..MaxFaults
  OBVIOUS
<1> QED BY <1>2, <1>3, <1>4, <1>5 DEF TypeOK

\* Every step keeps the types.
LEMMA TypeStep == ASSUME TypeOK, [Next]_vars PROVE TypeOK'
<1> USE MaxAttemptsAssumption, BoundsAssumption DEF TypeOK, Status, PC
<1>1. ASSUME NEW j \in Job, CreateExportJob(j) PROVE TypeOK'
  BY <1>1 DEF CreateExportJob, ageVars, workerVars, bounds
<1>2. ASSUME NEW j \in Job, CancelExportJob(j) PROVE TypeOK'
  BY <1>2 DEF CancelExportJob, ageVars, workerVars, bounds
<1>3. ASSUME NEW j \in Job, RetryExportJob(j) PROVE TypeOK'
  BY <1>3 DEF RetryExportJob, ageVars, workerVars
<1>4. ASSUME NEW j \in Job, PruneHistory(j) PROVE TypeOK'
  BY <1>4 DEF PruneHistory, ageVars, workerVars, bounds
<1>5. ASSUME NEW j \in Job, LeaseExpires(j) PROVE TypeOK'
  BY <1>5 DEF LeaseExpires, ageVars, workerVars, bounds
<1>6. ASSUME NEW j \in Job, RetentionEnds(j) PROVE TypeOK'
  BY <1>6 DEF RetentionEnds, rowVars, workerVars, bounds
<1>7. ASSUME NEW w \in Worker, NEW j \in Job, ClaimExportJob(w, j) PROVE TypeOK'
  BY <1>7 DEF ClaimExportJob, Claimable, ageVars, bounds
<1>8. ASSUME NEW w \in Worker, RenewLease(w) PROVE TypeOK'
  BY <1>8 DEF RenewLease, At, Holds, ageVars, workerVars, bounds
<1>9. ASSUME NEW w \in Worker, WriteArtifact(w) PROVE TypeOK'
  BY <1>9 DEF WriteArtifact, At, Go, rowVars, ageVars, bounds
<1>10. ASSUME NEW w \in Worker, ExportFails(w) PROVE TypeOK'
  <2>1. files' \in SUBSET Nat /\ orphaned' \in SUBSET Nat BY <1>10 DEF ExportFails
  <2>2. pc' \in [Worker -> PC] /\ faults' \in 0..MaxFaults BY <1>10 DEF ExportFails, Go, Fault
  <2> QED BY <1>10, <2>1, <2>2 DEF ExportFails, rowVars, ageVars
<1>11. ASSUME NEW w \in Worker, CompleteExportJob(w) PROVE TypeOK'
  BY <1>11 DEF CompleteExportJob, At, Go, Holds, Finish, ageVars, bounds
<1>12. ASSUME NEW w \in Worker, CompleteErrs(w) PROVE TypeOK'
  <2>1. /\ status' \in [Job -> Status] /\ lease' \in [Job -> {"none", "live", "past"}]
        /\ claimToken' \in [Job -> Nat] /\ artifact' \in [Job -> Nat]
    BY <1>12 DEF CompleteErrs, Finish, Holds
  <2>2. pc' \in [Worker -> PC] BY <1>12 DEF CompleteErrs, Go
  <2>3. orphaned' \in SUBSET Nat
    <3>1. token[w] \in Nat OBVIOUS
    <3>2. orphaned' = orphaned \/ orphaned' = orphaned \cup {token[w]} BY <1>12 DEF CompleteErrs
    <3> QED BY <3>1, <3>2
  <2>4. /\ faults' \in 0..MaxFaults
        /\ UNCHANGED <<attempts, due, expired, files, issued, job, token, todo, lastClaim, retries>>
    BY <1>12 DEF CompleteErrs, Fault, ageVars
  <2> QED BY <2>1, <2>2, <2>3, <2>4
<1>13. ASSUME NEW w \in Worker, FailExportJob(w) PROVE TypeOK'
  <2>1. /\ status' \in [Job -> Status] /\ lease' \in [Job -> {"none", "live", "past"}]
        /\ claimToken' \in [Job -> Nat] /\ artifact' \in [Job -> Nat]
    BY <1>13 DEF FailExportJob, Finish, Holds
  <2>2. pc' \in [Worker -> PC] BY <1>13 DEF FailExportJob, Go
  <2>3. /\ orphaned' \in SUBSET Nat /\ faults' \in 0..MaxFaults
        /\ UNCHANGED <<attempts, due, expired, files, issued, job, token, todo, lastClaim, retries>>
    BY <1>13 DEF FailExportJob, Fault, ageVars
  <2> QED BY <2>1, <2>2, <2>3
<1>14. ASSUME NEW w \in Worker, Discard(w) PROVE TypeOK'
  <2>1. files' \in SUBSET Nat /\ orphaned' \in SUBSET Nat
    <3>1. token[w] \in Nat OBVIOUS
    <3> QED BY <1>14, <3>1 DEF Discard
  <2>2. pc' \in [Worker -> PC] BY <1>14 DEF Discard, Go
  <2>3. faults' \in 0..MaxFaults BY <1>14 DEF Discard, Fault
  <2> QED BY <1>14, <2>1, <2>2, <2>3 DEF Discard, rowVars, ageVars
<1>15. ASSUME NEW w \in Worker, LoseLease(w) PROVE TypeOK'
  <2>1. files' \in SUBSET Nat /\ orphaned' \in SUBSET Nat
    <3>1. token[w] \in Nat OBVIOUS
    <3> QED BY <1>15, <3>1 DEF LoseLease
  <2>2. pc' \in [Worker -> PC] BY <1>15 DEF LoseLease, Go
  <2>3. faults' \in 0..MaxFaults BY <1>15 DEF LoseLease, Fault
  <2> QED BY <1>15, <2>1, <2>2, <2>3 DEF LoseLease, rowVars, ageVars
<1>16. ASSUME NEW w \in Worker, CleanupOnce(w) PROVE TypeOK'
  BY <1>16 DEF CleanupOnce, Go, ExpiredCandidates, rowVars, ageVars, bounds
<1>17. ASSUME NEW w \in Worker, CleanupMark(w) PROVE TypeOK'
  BY <1>17 DEF CleanupMark, At, Go, Fault, rowVars
<1>18. ASSUME NEW w \in Worker, CleanupDone(w) PROVE TypeOK'
  BY <1>18 DEF CleanupDone, At, Go, rowVars, ageVars, bounds
<1>19. ASSUME NEW w \in Worker, Crash(w) PROVE TypeOK'
  <2>1. files' \in SUBSET Nat /\ orphaned' \in SUBSET Nat
    <3>1. token[w] \in Nat OBVIOUS
    <3> QED BY <1>19, <3>1 DEF Crash
  <2>2. pc' \in [Worker -> PC] BY <1>19 DEF Crash, Go
  <2>3. faults' \in 0..MaxFaults BY <1>19 DEF Crash, Fault
  <2>4. todo' \in [Worker -> SUBSET Job] BY <1>19 DEF Crash
  <2> QED BY <1>19, <2>1, <2>2, <2>3, <2>4 DEF Crash, rowVars, ageVars
<1>20. ASSUME NEW w \in Worker, NEW j \in Job, CleanupRemove(w, j) PROVE TypeOK'
  <2>1. files' \in SUBSET Nat /\ orphaned' \in SUBSET Nat
    <3>1. token[w] \in Nat OBVIOUS
    <3> QED BY <1>20, <3>1 DEF CleanupRemove
  <2>2. pc' \in [Worker -> PC] BY <1>20 DEF CleanupRemove, Go
  <2>3. faults' \in 0..MaxFaults BY <1>20 DEF CleanupRemove, Fault
  <2>4. todo' \in [Worker -> SUBSET Job] /\ job' \in [Worker -> Job] BY <1>20 DEF CleanupRemove
  <2> QED BY <1>20, <2>1, <2>2, <2>3, <2>4 DEF CleanupRemove, rowVars, ageVars
<1>21. ASSUME UNCHANGED vars PROVE TypeOK'
  BY <1>21 DEF vars, rowVars, ageVars, workerVars, bounds
<1> QED
  BY <1>1, <1>2, <1>3, <1>4, <1>5, <1>6, <1>7, <1>8, <1>9, <1>10, <1>11,
     <1>12, <1>13, <1>14, <1>15, <1>16, <1>17, <1>18, <1>19, <1>20, <1>21 DEF Next, Work, Clean

\* The types of the job rows, the store and the workers' places.
THEOREM TypeCorrect == Spec => []TypeOK
<1> QED BY TypeInit, TypeStep, PTL DEF Spec

----------------------------------------------------------------------------
(* The fence.                                                              *)

Active == {"exporting", "written", "failing", "discard"}

Done(j) == status[j] \in {"completed", "pruned"}

\* Claim tokens are handed out once, a running job carries the one of its last claim,
\* and a job that was completed names it.
Claims ==
    /\ \A j \in Job : lastClaim[j] <= issued
    /\ \A j, k \in Job : j # k /\ lastClaim[j] = lastClaim[k] => lastClaim[j] = 0
    /\ \A j \in Job : status[j] = "running" => claimToken[j] = lastClaim[j] /\ lastClaim[j] > 0
    /\ \A j \in Job : Done(j) => artifact[j] = lastClaim[j] /\ lastClaim[j] > 0

\* Only a claim changes the last claim, and only its holder completes the job.
LEMMA ClaimsStep == ASSUME TypeOK, Claims, [Next]_vars PROVE Claims'
<1> USE DEF TypeOK, Claims, Done
<1>1. ASSUME NEW j \in Job, CreateExportJob(j) PROVE Claims'
  BY <1>1 DEF CreateExportJob, ageVars, workerVars, bounds
<1>2. ASSUME NEW j \in Job, CancelExportJob(j) PROVE Claims'
  BY <1>2 DEF CancelExportJob, ageVars, workerVars, bounds
<1>3. ASSUME NEW j \in Job, RetryExportJob(j) PROVE Claims'
  BY <1>3 DEF RetryExportJob, ageVars, workerVars
<1>4. ASSUME NEW j \in Job, PruneHistory(j) PROVE Claims'
  BY <1>4 DEF PruneHistory, ageVars, workerVars, bounds
<1>5. ASSUME NEW j \in Job, LeaseExpires(j) PROVE Claims'
  BY <1>5 DEF LeaseExpires, ageVars, workerVars, bounds
<1>6. ASSUME NEW j \in Job, RetentionEnds(j) PROVE Claims'
  BY <1>6 DEF RetentionEnds, rowVars, workerVars, bounds
<1>7. ASSUME NEW w \in Worker, NEW j \in Job, ClaimExportJob(w, j) PROVE Claims'
  BY <1>7 DEF ClaimExportJob, Claimable, ageVars, bounds
<1>8. ASSUME NEW w \in Worker, RenewLease(w) PROVE Claims'
  BY <1>8 DEF RenewLease, At, Holds, ageVars, workerVars, bounds
<1>9. ASSUME NEW w \in Worker, WriteArtifact(w) PROVE Claims'
  BY <1>9 DEF WriteArtifact, At, Go, rowVars, ageVars, bounds
<1>10. ASSUME NEW w \in Worker, ExportFails(w) PROVE Claims'
  BY <1>10 DEF ExportFails, At, Go, Fault, rowVars, ageVars
<1>11. ASSUME NEW w \in Worker, CompleteExportJob(w) PROVE Claims'
  BY <1>11 DEF CompleteExportJob, At, Go, Holds, Finish, ageVars, bounds
<1>12. ASSUME NEW w \in Worker, CompleteErrs(w) PROVE Claims'
  BY <1>12 DEF CompleteErrs, At, Go, Holds, Finish, Fault, ageVars
<1>13. ASSUME NEW w \in Worker, FailExportJob(w) PROVE Claims'
  BY <1>13 DEF FailExportJob, At, Go, Holds, Finish, Fault, ageVars
<1>14. ASSUME NEW w \in Worker, Discard(w) PROVE Claims'
  BY <1>14 DEF Discard, At, Go, Fault, rowVars, ageVars
<1>15. ASSUME NEW w \in Worker, LoseLease(w) PROVE Claims'
  BY <1>15 DEF LoseLease, At, Go, Holds, Fault, rowVars, ageVars
<1>16. ASSUME NEW w \in Worker, CleanupOnce(w) PROVE Claims'
  BY <1>16 DEF CleanupOnce, Go, ExpiredCandidates, rowVars, ageVars, bounds
<1>17. ASSUME NEW w \in Worker, CleanupMark(w) PROVE Claims'
  BY <1>17 DEF CleanupMark, At, Go, Fault, rowVars
<1>18. ASSUME NEW w \in Worker, CleanupDone(w) PROVE Claims'
  BY <1>18 DEF CleanupDone, At, Go, rowVars, ageVars, bounds
<1>19. ASSUME NEW w \in Worker, Crash(w) PROVE Claims'
  BY <1>19 DEF Crash, At, Go, Fault, rowVars, ageVars
<1>20. ASSUME NEW w \in Worker, NEW j \in Job, CleanupRemove(w, j) PROVE Claims'
  BY <1>20 DEF CleanupRemove, At, Go, Fault, rowVars, ageVars
<1>21. ASSUME UNCHANGED vars PROVE Claims'
  BY <1>21 DEF vars, rowVars, ageVars, workerVars, bounds
<1> QED
  BY <1>1, <1>2, <1>3, <1>4, <1>5, <1>6, <1>7, <1>8, <1>9, <1>10, <1>11,
     <1>12, <1>13, <1>14, <1>15, <1>16, <1>17, <1>18, <1>19, <1>20, <1>21 DEF Next, Work, Clean

\* The artifact a download serves was written under the last claim of its job.
THEOREM CompletedByLast == Spec => []CompletedByLastClaim
<1>1. Init => Claims BY DEF Init, Claims, Done
<1>2. Claims => CompletedByLastClaim BY DEF Claims, CompletedByLastClaim, Done
<1> QED BY <1>1, <1>2, TypeCorrect, ClaimsStep, PTL DEF Spec

----------------------------------------------------------------------------
(* The store.                                                              *)

\* No two workers, and no worker and a completed job, share a token.
Tokens ==
    /\ \A w \in Worker : pc[w] \in Active => 0 < token[w] /\ token[w] <= issued
    /\ \A v, w \in Worker :
          v # w /\ pc[v] \in Active /\ pc[w] \in Active => token[v] # token[w]
    /\ \A w \in Worker, j \in Job : pc[w] \in Active /\ Done(j) => token[w] # artifact[j]

\* A claim's token is new, and the worker that completes with it lets it go.
LEMMA TokensStep ==
    ASSUME TypeOK, Claims, Tokens, [Next]_vars
    PROVE Tokens'
<1> USE DEF TypeOK, Claims, Tokens, Done, Active
<1>1. ASSUME NEW j \in Job, CreateExportJob(j) PROVE Tokens'
  BY <1>1 DEF CreateExportJob, ageVars, workerVars, bounds
<1>2. ASSUME NEW j \in Job, CancelExportJob(j) PROVE Tokens'
  BY <1>2 DEF CancelExportJob, ageVars, workerVars, bounds
<1>3. ASSUME NEW j \in Job, RetryExportJob(j) PROVE Tokens'
  BY <1>3 DEF RetryExportJob, ageVars, workerVars
<1>4. ASSUME NEW j \in Job, PruneHistory(j) PROVE Tokens'
  BY <1>4 DEF PruneHistory, ageVars, workerVars, bounds
<1>5. ASSUME NEW j \in Job, LeaseExpires(j) PROVE Tokens'
  BY <1>5 DEF LeaseExpires, ageVars, workerVars, bounds
<1>6. ASSUME NEW j \in Job, RetentionEnds(j) PROVE Tokens'
  BY <1>6 DEF RetentionEnds, rowVars, workerVars, bounds
<1>7. ASSUME NEW w \in Worker, NEW j \in Job, ClaimExportJob(w, j) PROVE Tokens'
  BY <1>7 DEF ClaimExportJob, Claimable, ageVars, bounds
<1>8. ASSUME NEW w \in Worker, RenewLease(w) PROVE Tokens'
  BY <1>8 DEF RenewLease, At, Holds, ageVars, workerVars, bounds
<1>9. ASSUME NEW w \in Worker, WriteArtifact(w) PROVE Tokens'
  BY <1>9 DEF WriteArtifact, At, Go, rowVars, ageVars, bounds
<1>10. ASSUME NEW w \in Worker, ExportFails(w) PROVE Tokens'
  BY <1>10 DEF ExportFails, At, Go, rowVars, ageVars
<1>11. ASSUME NEW w \in Worker, CompleteExportJob(w) PROVE Tokens'
  BY <1>11 DEF CompleteExportJob, At, Go, Holds, Finish, ageVars, bounds
<1>12. ASSUME NEW w \in Worker, CompleteErrs(w) PROVE Tokens'
  BY <1>12 DEF CompleteErrs, At, Go, Holds, Finish, ageVars
<1>13. ASSUME NEW w \in Worker, FailExportJob(w) PROVE Tokens'
  BY <1>13 DEF FailExportJob, At, Go, Holds, Finish, ageVars
<1>14. ASSUME NEW w \in Worker, Discard(w) PROVE Tokens'
  BY <1>14 DEF Discard, At, Go, rowVars, ageVars
<1>15. ASSUME NEW w \in Worker, LoseLease(w) PROVE Tokens'
  BY <1>15 DEF LoseLease, At, Go, rowVars, ageVars
<1>16. ASSUME NEW w \in Worker, CleanupOnce(w) PROVE Tokens'
  BY <1>16 DEF CleanupOnce, Go, ExpiredCandidates, rowVars, ageVars, bounds
<1>17. ASSUME NEW w \in Worker, CleanupMark(w) PROVE Tokens'
  BY <1>17 DEF CleanupMark, At, Go, rowVars
<1>18. ASSUME NEW w \in Worker, CleanupDone(w) PROVE Tokens'
  BY <1>18 DEF CleanupDone, At, Go, rowVars, ageVars, bounds
<1>19. ASSUME NEW w \in Worker, Crash(w) PROVE Tokens'
  BY <1>19 DEF Crash, At, Go, rowVars, ageVars
<1>20. ASSUME NEW w \in Worker, NEW j \in Job, CleanupRemove(w, j) PROVE Tokens'
  BY <1>20 DEF CleanupRemove, At, Go, rowVars, ageVars
<1>21. ASSUME UNCHANGED vars PROVE Tokens'
  BY <1>21 DEF vars, rowVars, ageVars, workerVars, bounds
<1> QED
  BY <1>1, <1>2, <1>3, <1>4, <1>5, <1>6, <1>7, <1>8, <1>9, <1>10, <1>11,
     <1>12, <1>13, <1>14, <1>15, <1>16, <1>17, <1>18, <1>19, <1>20, <1>21 DEF Next, Work, Clean

\* What clean-ups and workers hold: only completed jobs past their retention are
\* listed, what is about to be marked is gone, and what was written is there.
Held ==
    /\ \A w \in Worker : \A j \in todo[w] : Done(j) /\ j \in due
    /\ \A w \in Worker : pc[w] = "marking" => /\ Done(job[w]) /\ job[w] \in due
                                              /\ artifact[job[w]] \notin files
    /\ \A w \in Worker : pc[w] = "written" => token[w] \in files
    /\ \A j \in expired : Done(j)

\* An artifact is removed only by the worker that wrote it or by a clean-up.
LEMMA HeldStep ==
    ASSUME TypeOK, Claims, Tokens, Held, [Next]_vars
    PROVE Held'
<1> USE DEF TypeOK, Claims, Tokens, Held, Done, Active
<1>1. ASSUME NEW j \in Job, CreateExportJob(j) PROVE Held'
  BY <1>1 DEF CreateExportJob, ageVars, workerVars, bounds
<1>2. ASSUME NEW j \in Job, CancelExportJob(j) PROVE Held'
  BY <1>2 DEF CancelExportJob, ageVars, workerVars, bounds
<1>3. ASSUME NEW j \in Job, RetryExportJob(j) PROVE Held'
  BY <1>3 DEF RetryExportJob, ageVars, workerVars
<1>4. ASSUME NEW j \in Job, PruneHistory(j) PROVE Held'
  BY <1>4 DEF PruneHistory, ageVars, workerVars, bounds
<1>5. ASSUME NEW j \in Job, LeaseExpires(j) PROVE Held'
  BY <1>5 DEF LeaseExpires, ageVars, workerVars, bounds
<1>6. ASSUME NEW j \in Job, RetentionEnds(j) PROVE Held'
  BY <1>6 DEF RetentionEnds, rowVars, workerVars, bounds
<1>7. ASSUME NEW w \in Worker, NEW j \in Job, ClaimExportJob(w, j) PROVE Held'
  BY <1>7 DEF ClaimExportJob, Claimable, ageVars, bounds
<1>8. ASSUME NEW w \in Worker, RenewLease(w) PROVE Held'
  BY <1>8 DEF RenewLease, At, Holds, ageVars, workerVars, bounds
<1>9. ASSUME NEW w \in Worker, WriteArtifact(w) PROVE Held'
  BY <1>9 DEF WriteArtifact, At, Go, rowVars, ageVars, bounds
<1>10. ASSUME NEW w \in Worker, ExportFails(w) PROVE Held'
  BY <1>10 DEF ExportFails, At, Go, rowVars, ageVars
<1>11. ASSUME NEW w \in Worker, CompleteExportJob(w) PROVE Held'
  <2>1. /\ pc[w] = "written" /\ UNCHANGED <<due, expired, files, job, token, todo>>
        /\ \E place \in {"idle", "discard"} : pc' = [pc EXCEPT ![w] = place]
    BY <1>11 DEF CompleteExportJob, At, Go, ageVars
  <2>2. CASE UNCHANGED <<status, artifact>> BY <2>1, <2>2
  <2>3. CASE /\ status[job[w]] = "running"
             /\ status' = [status EXCEPT ![job[w]] = "completed"]
             /\ artifact' = [artifact EXCEPT ![job[w]] = token[w]]
    <3>1. \A k \in Job : Done(k) => Done(k)' /\ artifact'[k] = artifact[k] BY <2>3
    <3> QED BY <2>1, <3>1
  <2> QED BY <1>11, <2>2, <2>3 DEF CompleteExportJob, Finish, Holds
<1>12. ASSUME NEW w \in Worker, CompleteErrs(w) PROVE Held'
  <2>1. /\ pc[w] = "written" /\ UNCHANGED <<due, expired, files, job, token, todo>>
        /\ \E place \in {"idle", "discard"} : pc' = [pc EXCEPT ![w] = place]
    BY <1>12 DEF CompleteErrs, At, Go, ageVars
  <2>2. CASE UNCHANGED <<status, artifact>> BY <2>1, <2>2
  <2>3. CASE /\ status[job[w]] = "running"
             /\ status' = [status EXCEPT ![job[w]] = "completed"]
             /\ artifact' = [artifact EXCEPT ![job[w]] = token[w]]
    <3>1. \A k \in Job : Done(k) => Done(k)' /\ artifact'[k] = artifact[k] BY <2>3
    <3> QED BY <2>1, <3>1
  <2> QED BY <1>12, <2>2, <2>3 DEF CompleteErrs, Finish, Holds
<1>13. ASSUME NEW w \in Worker, FailExportJob(w) PROVE Held'
  <2>1. /\ UNCHANGED <<artifact, due, expired, files, job, token, todo>>
        /\ pc' = [pc EXCEPT ![w] = "idle"]
    BY <1>13 DEF FailExportJob, Go, ageVars
  <2>2. \A k \in Job : Done(k) => Done(k)'
    BY <1>13 DEF FailExportJob, Holds, Finish
  <2> QED BY <2>1, <2>2
<1>14. ASSUME NEW w \in Worker, Discard(w) PROVE Held'
  BY <1>14 DEF Discard, At, Go, rowVars, ageVars
<1>15. ASSUME NEW w \in Worker, LoseLease(w) PROVE Held'
  BY <1>15 DEF LoseLease, At, Go, rowVars, ageVars
<1>16. ASSUME NEW w \in Worker, CleanupOnce(w) PROVE Held'
  BY <1>16 DEF CleanupOnce, Go, ExpiredCandidates, rowVars, ageVars, bounds
<1>17. ASSUME NEW w \in Worker, CleanupMark(w) PROVE Held'
  BY <1>17 DEF CleanupMark, At, Go, rowVars
<1>18. ASSUME NEW w \in Worker, CleanupDone(w) PROVE Held'
  BY <1>18 DEF CleanupDone, At, Go, rowVars, ageVars, bounds
<1>19. ASSUME NEW w \in Worker, Crash(w) PROVE Held'
  BY <1>19 DEF Crash, At, Go, rowVars, ageVars
<1>20. ASSUME NEW w \in Worker, NEW j \in Job, CleanupRemove(w, j) PROVE Held'
  BY <1>20 DEF CleanupRemove, At, Go, rowVars, ageVars
<1>21. ASSUME UNCHANGED vars PROVE Held'
  BY <1>21 DEF vars, rowVars, ageVars, workerVars, bounds
<1> QED
  BY <1>1, <1>2, <1>3, <1>4, <1>5, <1>6, <1>7, <1>8, <1>9, <1>10, <1>11,
     <1>12, <1>13, <1>14, <1>15, <1>16, <1>17, <1>18, <1>19, <1>20, <1>21 DEF Next, Work, Clean

\* No step takes the artifact of a completed job before its retention ends.
LEMMA DownloadStep ==
    ASSUME TypeOK, Claims, Tokens, Held, DownloadableUntilExpiry, [Next]_vars
    PROVE DownloadableUntilExpiry'
<1> USE DEF TypeOK, Claims, Tokens, Held, Done, Active, DownloadableUntilExpiry
<1>1. ASSUME NEW j \in Job, CreateExportJob(j) PROVE DownloadableUntilExpiry'
  BY <1>1 DEF CreateExportJob, ageVars, workerVars, bounds
<1>2. ASSUME NEW j \in Job, CancelExportJob(j) PROVE DownloadableUntilExpiry'
  BY <1>2 DEF CancelExportJob, ageVars, workerVars, bounds
<1>3. ASSUME NEW j \in Job, RetryExportJob(j) PROVE DownloadableUntilExpiry'
  BY <1>3 DEF RetryExportJob, ageVars, workerVars
<1>4. ASSUME NEW j \in Job, PruneHistory(j) PROVE DownloadableUntilExpiry'
  BY <1>4 DEF PruneHistory, ageVars, workerVars, bounds
<1>5. ASSUME NEW j \in Job, LeaseExpires(j) PROVE DownloadableUntilExpiry'
  BY <1>5 DEF LeaseExpires, ageVars, workerVars, bounds
<1>6. ASSUME NEW j \in Job, RetentionEnds(j) PROVE DownloadableUntilExpiry'
  BY <1>6 DEF RetentionEnds, rowVars, workerVars, bounds
<1>7. ASSUME NEW w \in Worker, NEW j \in Job, ClaimExportJob(w, j) PROVE DownloadableUntilExpiry'
  BY <1>7 DEF ClaimExportJob, Claimable, ageVars, bounds
<1>8. ASSUME NEW w \in Worker, RenewLease(w) PROVE DownloadableUntilExpiry'
  BY <1>8 DEF RenewLease, At, Holds, ageVars, workerVars, bounds
<1>9. ASSUME NEW w \in Worker, WriteArtifact(w) PROVE DownloadableUntilExpiry'
  BY <1>9 DEF WriteArtifact, At, Go, rowVars, ageVars, bounds
<1>10. ASSUME NEW w \in Worker, ExportFails(w) PROVE DownloadableUntilExpiry'
  BY <1>10 DEF ExportFails, At, Go, rowVars, ageVars
<1>11. ASSUME NEW w \in Worker, CompleteExportJob(w) PROVE DownloadableUntilExpiry'
  BY <1>11 DEF CompleteExportJob, At, Go, Holds, Finish, ageVars, bounds
<1>12. ASSUME NEW w \in Worker, CompleteErrs(w) PROVE DownloadableUntilExpiry'
  BY <1>12 DEF CompleteErrs, At, Go, Holds, Finish, ageVars
<1>13. ASSUME NEW w \in Worker, FailExportJob(w) PROVE DownloadableUntilExpiry'
  BY <1>13 DEF FailExportJob, At, Go, Holds, Finish, ageVars
<1>14. ASSUME NEW w \in Worker, Discard(w) PROVE DownloadableUntilExpiry'
  BY <1>14 DEF Discard, At, Go, rowVars, ageVars
<1>15. ASSUME NEW w \in Worker, LoseLease(w) PROVE DownloadableUntilExpiry'
  BY <1>15 DEF LoseLease, At, Go, rowVars, ageVars
<1>16. ASSUME NEW w \in Worker, CleanupOnce(w) PROVE DownloadableUntilExpiry'
  BY <1>16 DEF CleanupOnce, Go, ExpiredCandidates, rowVars, ageVars, bounds
<1>17. ASSUME NEW w \in Worker, CleanupMark(w) PROVE DownloadableUntilExpiry'
  BY <1>17 DEF CleanupMark, At, Go, rowVars
<1>18. ASSUME NEW w \in Worker, CleanupDone(w) PROVE DownloadableUntilExpiry'
  BY <1>18 DEF CleanupDone, At, Go, rowVars, ageVars, bounds
<1>19. ASSUME NEW w \in Worker, Crash(w) PROVE DownloadableUntilExpiry'
  BY <1>19 DEF Crash, At, Go, rowVars, ageVars
<1>20. ASSUME NEW w \in Worker, NEW j \in Job, CleanupRemove(w, j) PROVE DownloadableUntilExpiry'
  BY <1>20 DEF CleanupRemove, At, Go, rowVars, ageVars
<1>21. ASSUME UNCHANGED vars PROVE DownloadableUntilExpiry'
  BY <1>21 DEF vars, rowVars, ageVars, workerVars, bounds
<1> QED
  BY <1>1, <1>2, <1>3, <1>4, <1>5, <1>6, <1>7, <1>8, <1>9, <1>10, <1>11,
     <1>12, <1>13, <1>14, <1>15, <1>16, <1>17, <1>18, <1>19, <1>20, <1>21 DEF Next, Work, Clean

LEMMA StoreInvariant == Spec => [](TypeOK /\ Claims /\ Tokens /\ Held)
<1>1. Init => Claims /\ Tokens /\ Held BY DEF Init, Claims, Tokens, Held, Done, Active
<1> QED BY <1>1, TypeCorrect, ClaimsStep, TokensStep, HeldStep, PTL DEF Spec

\* A completed job can be downloaded until its retention ends, whatever stale worker
\* discards its artifact and whatever completion or clean-up fails half way.
THEOREM Downloadable == Spec => []DownloadableUntilExpiry
<1>1. Init => DownloadableUntilExpiry BY DEF Init, DownloadableUntilExpiry
<1> QED BY <1>1, StoreInvariant, DownloadStep, PTL DEF Spec

Hands == {"written", "discard"}

InHands(f) == \E w \in Worker : pc[w] \in Hands /\ token[w] = f

Named(f) == \E j \in Job : status[j] = "completed" /\ j \notin expired /\ artifact[j] = f

Accounted(f) == f \in orphaned \/ InHands(f) \/ Named(f)

LEMMA AccountedFor == EveryFileAccountedFor <=> \A f \in files : Accounted(f)
BY DEF EveryFileAccountedFor, Accounted, InHands, Named, Hands, At

\* An artifact that nobody lets go stays accounted for.
LEMMA Stays ==
    ASSUME NEW f, Accounted(f), orphaned \subseteq orphaned',
           \A w \in Worker : pc[w] \in Hands /\ token[w] = f => pc'[w] \in Hands /\ token'[w] = f,
           \A j \in Job : status[j] = "completed" /\ j \notin expired /\ artifact[j] = f
                            => status'[j] = "completed" /\ j \notin expired' /\ artifact'[j] = f
    PROVE Accounted(f)'
BY DEF Accounted, InHands, Named

\* Whoever lets an artifact go removes it, hands it to its job, or had a fault.
LEMMA AccountStep ==
    ASSUME TypeOK, Claims, Tokens, Held, EveryFileAccountedFor, [Next]_vars
    PROVE EveryFileAccountedFor'
<1> SUFFICES ASSUME NEW f \in files' PROVE Accounted(f)'
  BY DEF EveryFileAccountedFor, Accounted, InHands, Named, Hands, At
<1>0. f \in files => Accounted(f) BY AccountedFor
<1> DEFINE HandsStay == \A w \in Worker :
                           pc[w] \in Hands /\ token[w] = f => pc'[w] \in Hands /\ token'[w] = f
           JobsStay == \A j \in Job : status[j] = "completed" /\ j \notin expired /\ artifact[j] = f
                            => status'[j] = "completed" /\ j \notin expired' /\ artifact'[j] = f
           Orphans == orphaned \subseteq orphaned'
<1>1. ASSUME f \in files, HandsStay, JobsStay, Orphans PROVE Accounted(f)' BY <1>0, <1>1, Stays
<1> USE DEF TypeOK, Hands
<1>2. ASSUME NEW j \in Job,
             \/ CreateExportJob(j) \/ CancelExportJob(j) \/ RetryExportJob(j)
             \/ LeaseExpires(j) \/ RetentionEnds(j)
      PROVE Accounted(f)'
  <2>1. f \in files /\ HandsStay /\ Orphans
    BY <1>2 DEF CreateExportJob, CancelExportJob, RetryExportJob, LeaseExpires, RetentionEnds, workerVars
  <2>2. JobsStay
    BY <1>2 DEF CreateExportJob, CancelExportJob, RetryExportJob, LeaseExpires, RetentionEnds,
       ageVars, rowVars
  <2> QED BY <1>1, <2>1, <2>2
<1>3. ASSUME NEW j \in Job, PruneHistory(j) PROVE Accounted(f)'
  <2>1. f \in files /\ HandsStay /\ Orphans BY <1>3 DEF PruneHistory, workerVars
  <2>2. JobsStay BY <1>3 DEF PruneHistory, ageVars
  <2> QED BY <1>1, <2>1, <2>2
<1>4. ASSUME NEW w \in Worker, NEW j \in Job, ClaimExportJob(w, j) PROVE Accounted(f)'
  <2>1. f \in files /\ HandsStay /\ Orphans BY <1>4 DEF ClaimExportJob
  <2>2. JobsStay BY <1>4 DEF ClaimExportJob, Claimable, ageVars
  <2> QED BY <1>1, <2>1, <2>2
<1>5. ASSUME NEW w \in Worker, RenewLease(w) \/ CleanupOnce(w) \/ CleanupDone(w) PROVE Accounted(f)'
  <2>1. f \in files /\ HandsStay /\ Orphans
    BY <1>5 DEF RenewLease, CleanupOnce, CleanupDone, At, Go, workerVars
  <2>2. JobsStay BY <1>5 DEF RenewLease, CleanupOnce, CleanupDone, rowVars, ageVars
  <2> QED BY <1>1, <2>1, <2>2
<1>6. ASSUME NEW w \in Worker, WriteArtifact(w) PROVE Accounted(f)'
  <2>1. HandsStay /\ Orphans BY <1>6 DEF WriteArtifact, At, Go
  <2>2. JobsStay BY <1>6 DEF WriteArtifact, rowVars, ageVars
  <2>3. f = token[w] => InHands(f)' BY <1>6 DEF WriteArtifact, Go, InHands
  <2>4. f \in files \/ f = token[w] BY <1>6 DEF WriteArtifact
  <2> QED BY <1>1, <2>1, <2>2, <2>3, <2>4 DEF Accounted
<1>7. ASSUME NEW w \in Worker, ExportFails(w) PROVE Accounted(f)'
  <2>1. HandsStay /\ Orphans BY <1>7 DEF ExportFails, At, Go
  <2>2. JobsStay BY <1>7 DEF ExportFails, rowVars, ageVars
  <2>3. f \in files \/ f \in orphaned' BY <1>7 DEF ExportFails
  <2> QED BY <1>1, <2>1, <2>2, <2>3 DEF Accounted
<1>8. ASSUME NEW w \in Worker, CompleteExportJob(w) \/ CompleteErrs(w) PROVE Accounted(f)'
  <2>1. /\ f \in files /\ Orphans /\ UNCHANGED <<expired, token>> /\ pc[w] = "written"
        /\ \E place \in {"idle", "discard"} : pc' = [pc EXCEPT ![w] = place]
    BY <1>8 DEF CompleteExportJob, CompleteErrs, At, Go, ageVars
  <2>2. CASE UNCHANGED <<status, artifact>> /\ (pc'[w] = "discard" \/ token[w] \in orphaned')
    <3>1. JobsStay BY <2>1, <2>2
    <3>2. CASE f = token[w] /\ f \in orphaned' BY <3>2 DEF Accounted
    <3>3. CASE ~(f = token[w] /\ f \in orphaned')
      <4>1. HandsStay BY <2>1, <2>2, <3>3
      <4> QED BY <1>1, <2>1, <3>1, <4>1
    <3> QED BY <3>2, <3>3
  <2>3. CASE /\ status[job[w]] = "running"
             /\ status' = [status EXCEPT ![job[w]] = "completed"]
             /\ artifact' = [artifact EXCEPT ![job[w]] = token[w]]
    <3>1. JobsStay BY <2>1, <2>3
    <3>2. job[w] \notin expired BY <2>3 DEF Held, Done
    <3>3. CASE f = token[w]
      <4>1. Named(f)' BY <2>1, <2>3, <3>2, <3>3 DEF Named
      <4> QED BY <4>1 DEF Accounted
    <3>4. CASE f # token[w]
      <4>1. HandsStay BY <2>1, <3>4
      <4> QED BY <1>1, <2>1, <3>1, <4>1
    <3> QED BY <3>3, <3>4
  <2> QED BY <1>8, <2>2, <2>3 DEF CompleteExportJob, CompleteErrs, Finish, Holds, Go
<1>9. ASSUME NEW w \in Worker, FailExportJob(w) PROVE Accounted(f)'
  <2>1. f \in files /\ HandsStay /\ Orphans BY <1>9 DEF FailExportJob, At, Go
  <2>2. JobsStay BY <1>9 DEF FailExportJob, Holds, Finish, ageVars
  <2> QED BY <1>1, <2>1, <2>2
<1>10. ASSUME NEW w \in Worker, Discard(w) \/ Crash(w) PROVE Accounted(f)'
  <2>1. /\ f \in files /\ Orphans /\ UNCHANGED token
        /\ pc' = [pc EXCEPT ![w] = "idle"]
    BY <1>10 DEF Discard, Crash, Go
  <2>2. JobsStay BY <1>10 DEF Discard, Crash, rowVars, ageVars
  <2>3. pc[w] \in Hands /\ f = token[w] => f \in orphaned' BY <1>10 DEF Discard, Crash, At
  <2>4. CASE f \in orphaned' BY <2>4 DEF Accounted
  <2>5. CASE f \notin orphaned'
    <3>1. HandsStay BY <2>1, <2>3, <2>5
    <3> QED BY <1>1, <2>1, <2>2, <3>1
  <2> QED BY <2>4, <2>5
<1>11. ASSUME NEW w \in Worker, LoseLease(w) PROVE Accounted(f)'
  <2>1. /\ UNCHANGED <<token, orphaned>> /\ (f \in files \/ (f = token[w] /\ pc'[w] = "discard"))
        /\ (pc[w] = "written" => pc'[w] = "discard")
        /\ pc[w] # "discard" /\ \E place \in {"idle", "discard"} : pc' = [pc EXCEPT ![w] = place]
    BY <1>11 DEF LoseLease, At, Go
  <2>2. JobsStay BY <1>11 DEF LoseLease, rowVars, ageVars
  <2>3. HandsStay /\ Orphans BY <2>1
  <2>4. f = token[w] /\ pc'[w] = "discard" => InHands(f)' BY <2>1 DEF InHands
  <2> QED BY <1>1, <2>1, <2>2, <2>3, <2>4 DEF Accounted
<1>12. ASSUME NEW w \in Worker, NEW j \in Job, CleanupRemove(w, j) PROVE Accounted(f)'
  <2>1. f \in files /\ HandsStay /\ Orphans BY <1>12 DEF CleanupRemove, At, Go
  <2>2. JobsStay BY <1>12 DEF CleanupRemove, rowVars, ageVars
  <2> QED BY <1>1, <2>1, <2>2
<1>13. ASSUME NEW w \in Worker, CleanupMark(w) PROVE Accounted(f)'
  <2>1. f \in files /\ HandsStay /\ Orphans BY <1>13 DEF CleanupMark, At, Go
  <2>2. artifact[job[w]] # f BY <1>13, <2>1 DEF CleanupMark, At, Held
  <2>3. JobsStay BY <1>13, <2>2 DEF CleanupMark, rowVars
  <2> QED BY <1>1, <2>1, <2>3
<1>14. ASSUME UNCHANGED vars PROVE Accounted(f)'
  <2>1. f \in files /\ HandsStay /\ JobsStay /\ Orphans BY <1>14 DEF vars, rowVars, ageVars, workerVars
  <2> QED BY <1>1, <2>1
<1> QED
  BY <1>2, <1>3, <1>4, <1>5, <1>6, <1>7, <1>8, <1>9, <1>10, <1>11, <1>12, <1>13, <1>14
  DEF Next, Work, Clean

\* No artifact is forgotten in the store except by a fault.
THEOREM FilesAccountedFor == Spec => []EveryFileAccountedFor
<1>1. Init => EveryFileAccountedFor BY DEF Init, EveryFileAccountedFor
<1> QED BY <1>1, StoreInvariant, AccountStep, PTL DEF Spec
=============================================================================
