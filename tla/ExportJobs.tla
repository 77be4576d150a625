----------------------------- MODULE ExportJobs -----------------------------
(***************************************************************************)
(* Asynchronous usage exports: the job rows, the export workers with their *)
(* lease renewal, the artifact store and its clean-up.                     *)
(*                                                                         *)
(* The row and the file store share no transaction.  A claim hands out a   *)
(* fresh claim token which is also part of the artifact's name, so an      *)
(* artifact is its token here.  The clock is abstracted to whether a lease *)
(* has run out and whether a completed job is past the retention.          *)
(***************************************************************************)
EXTENDS Integers

CONSTANTS
    Job,           \* export jobs
    Worker,        \* replicas of the export worker
    MaxAttempts,   \* OPEN_SPANNER_EXPORT_WORKER_MAX_ATTEMPTS
    MaxRetries,    \* bound: retries by users
    MaxFaults      \* bound: crashes and failed calls

ASSUME MaxAttemptsAssumption == MaxAttempts \in Nat \ {0}
ASSUME BoundsAssumption == MaxRetries \in Nat /\ MaxFaults \in Nat
ASSUME JobAssumption == Job # {}

VARIABLES
    status, attempts, lease, claimToken, artifact,  \* columns of usage_export_jobs
    due,         \* jobs completed longer ago than the retention
    expired,     \* jobs whose expired_at is set
    files,       \* artifacts in the store
    issued,      \* claim tokens handed out so far
    pc, job, token,   \* each worker: where it is, the job and token it claimed
    todo,        \* each worker: jobs its clean-up listed and has not handled
    lastClaim,   \* history: each job's latest claim token
    orphaned,    \* history: artifacts left behind by a fault
    retries, faults

rowVars == <<status, attempts, lease, claimToken, artifact>>
ageVars == <<due, expired>>
workerVars == <<pc, job, token, todo>>
bounds == <<retries, faults>>
vars == <<rowVars, ageVars, files, issued, workerVars, lastClaim, orphaned, bounds>>

Status == {"none", "queued", "running", "completed", "failed", "canceled", "pruned"}
PC == {"idle", "exporting", "written", "failing", "discard", "cleaning", "marking"}

TypeOK ==
    /\ status \in [Job -> Status]
    /\ attempts \in [Job -> 0..MaxAttempts]
    /\ lease \in [Job -> {"none", "live", "past"}]
    /\ claimToken \in [Job -> Nat]       \* 0: NULL
    /\ artifact \in [Job -> Nat]         \* 0: no artifact
    /\ due \in SUBSET Job /\ expired \in SUBSET Job
    /\ files \in SUBSET Nat /\ issued \in Nat
    /\ pc \in [Worker -> PC] /\ job \in [Worker -> Job] /\ token \in [Worker -> Nat]
    /\ todo \in [Worker -> SUBSET Job]
    /\ lastClaim \in [Job -> Nat] /\ orphaned \in SUBSET Nat
    /\ retries \in 0..MaxRetries /\ faults \in 0..MaxFaults

Init ==
    /\ status = [j \in Job |-> "none"]
    /\ attempts = [j \in Job |-> 0]
    /\ lease = [j \in Job |-> "none"]
    /\ claimToken = [j \in Job |-> 0]
    /\ artifact = [j \in Job |-> 0]
    /\ due = {} /\ expired = {} /\ files = {} /\ issued = 0
    /\ pc = [w \in Worker |-> "idle"]
    /\ job = [w \in Worker |-> CHOOSE j \in Job : TRUE]
    /\ token = [w \in Worker |-> 0]
    /\ todo = [w \in Worker |-> {}]
    /\ lastClaim = [j \in Job |-> 0] /\ orphaned = {}
    /\ retries = 0 /\ faults = 0

Fault == faults < MaxFaults /\ faults' = faults + 1

----------------------------------------------------------------------------
(* Calls of the API.                                                       *)

CreateExportJob(j) ==
    /\ status[j] = "none"
    /\ status' = [status EXCEPT ![j] = "queued"]
    /\ UNCHANGED <<attempts, lease, claimToken, artifact, ageVars, files, issued, workerVars,
                   lastClaim, orphaned, bounds>>

\* The read of the status and the UPDATE have the same condition, and a row that
\* changes between them is answered as not found.
CancelExportJob(j) ==
    /\ status[j] \in {"queued", "running"}
    /\ status' = [status EXCEPT ![j] = "canceled"]
    /\ lease' = [lease EXCEPT ![j] = "none"]
    /\ claimToken' = [claimToken EXCEPT ![j] = 0]
    /\ UNCHANGED <<attempts, artifact, ageVars, files, issued, workerVars, lastClaim,
                   orphaned, bounds>>

RetryExportJob(j) ==
    /\ retries < MaxRetries /\ retries' = retries + 1
    /\ status[j] \in {"failed", "canceled"}
    /\ status' = [status EXCEPT ![j] = "queued"]
    /\ attempts' = [attempts EXCEPT ![j] = 0]
    /\ lease' = [lease EXCEPT ![j] = "none"]
    /\ claimToken' = [claimToken EXCEPT ![j] = 0]
    /\ artifact' = [artifact EXCEPT ![j] = 0]
    /\ UNCHANGED <<ageVars, files, issued, workerVars, lastClaim, orphaned, faults>>

----------------------------------------------------------------------------
(* The worker: claim, lease, export, complete or fail.                     *)

\* (mutant) a claim does not look at attempts
ClaimableForEver(j) == status[j] = "queued" \/ (status[j] = "running" /\ lease[j] = "past")

\* The WHERE clause of ClaimUsageExportJob; which of the claimable jobs is the
\* oldest is left open.
Claimable(j) ==
    /\ status[j] = "queued" \/ (status[j] = "running" /\ lease[j] = "past")
    /\ attempts[j] < MaxAttempts

ClaimExportJob(w, j) ==
    /\ pc[w] = "idle" /\ Claimable(j)
    /\ status' = [status EXCEPT ![j] = "running"]
    /\ attempts' = [attempts EXCEPT ![j] = @ + 1]
    /\ lease' = [lease EXCEPT ![j] = "live"]
    /\ issued' = issued + 1
    /\ claimToken' = [claimToken EXCEPT ![j] = issued']
    /\ lastClaim' = [lastClaim EXCEPT ![j] = issued']
    /\ pc' = [pc EXCEPT ![w] = "exporting"]
    /\ job' = [job EXCEPT ![w] = j]
    /\ token' = [token EXCEPT ![w] = issued']
    /\ UNCHANGED <<artifact, ageVars, files, todo, orphaned, bounds>>

\* (mutant) the updates of a worker ask only for a running job
HoldsAnyClaim(w) == status[job[w]] = "running"

\* The fence of every update of a worker: status = 'running' AND claim_token = its own.
Holds(w) == status[job[w]] = "running" /\ claimToken[job[w]] = token[w]

At(w, places) == pc[w] \in places
Go(w, place) == pc' = [pc EXCEPT ![w] = place]

\* maintainLease: the lease need not be live any more, the token must be the row's.
RenewLease(w) ==
    /\ At(w, {"exporting", "written", "failing"}) /\ Holds(w)
    /\ lease' = [lease EXCEPT ![job[w]] = "live"]
    /\ UNCHANGED <<status, attempts, claimToken, artifact, ageVars, files, issued, workerVars,
                   lastClaim, orphaned, bounds>>

\* A renewal fails, because the job is no longer this worker's or because the call
\* fails: the export is cancelled, and an artifact that was written meanwhile is
\* removed (Discard).
LoseLease(w) ==
    /\ At(w, {"exporting", "written", "failing"})
    /\ \/ ~Holds(w) /\ UNCHANGED faults
       \/ Fault
    /\ \/ pc[w] # "written" /\ Go(w, "idle") /\ UNCHANGED files
       \/ pc[w] # "failing" /\ Go(w, "discard") /\ files' = files \cup {token[w]}
    /\ UNCHANGED <<rowVars, ageVars, issued, job, token, todo, lastClaim, orphaned, retries>>

\* store.Write: a temporary file renamed to the artifact's name.
WriteArtifact(w) ==
    /\ At(w, {"exporting"})
    /\ files' = files \cup {token[w]}
    /\ Go(w, "written")
    /\ UNCHANGED <<rowVars, ageVars, issued, job, token, todo, lastClaim, orphaned, bounds>>

\* The query or the store fails; the store may have failed after its rename.
ExportFails(w) ==
    /\ At(w, {"exporting"}) /\ Fault
    /\ \E left \in SUBSET {token[w]} : files' = files \cup left /\ orphaned' = orphaned \cup left
    /\ Go(w, "failing")
    /\ UNCHANGED <<rowVars, ageVars, issued, job, token, todo, lastClaim, retries>>

Finish(j, outcome) ==
    /\ status' = [status EXCEPT ![j] = outcome]
    /\ lease' = [lease EXCEPT ![j] = "none"]
    /\ claimToken' = [claimToken EXCEPT ![j] = 0]

\* (mutant) the artifact of a fenced completion is kept
CompleteKeepsFile(w) ==
    /\ At(w, {"written"})
    /\ \/ Holds(w) /\ Finish(job[w], "completed")
          /\ artifact' = [artifact EXCEPT ![job[w]] = token[w]]
       \/ ~Holds(w) /\ UNCHANGED <<status, lease, claimToken, artifact>>
    /\ Go(w, "idle")
    /\ UNCHANGED <<attempts, ageVars, files, issued, job, token, todo, lastClaim, orphaned, bounds>>

\* CompleteExportJob: fenced by the token; ErrNotFound discards the artifact.
CompleteExportJob(w) ==
    /\ At(w, {"written"})
    /\ \/ /\ Holds(w) /\ Finish(job[w], "completed")
          /\ artifact' = [artifact EXCEPT ![job[w]] = token[w]]
          /\ Go(w, "idle")
       \/ ~Holds(w) /\ Go(w, "discard") /\ UNCHANGED <<status, lease, claimToken, artifact>>
    /\ UNCHANGED <<attempts, ageVars, files, issued, job, token, todo, lastClaim, orphaned, bounds>>

\* (mutant) any error of the completion discards the artifact
CompleteErrorDiscards(w) ==
    /\ At(w, {"written"}) /\ Fault
    /\ Holds(w)
    /\ Finish(job[w], "completed") /\ artifact' = [artifact EXCEPT ![job[w]] = token[w]]
    /\ Go(w, "discard")
    /\ UNCHANGED <<attempts, ageVars, files, issued, job, token, todo, lastClaim, orphaned, retries>>

\* CompleteExportJob returns another error: the update was or was not applied, the
\* artifact stays and the worker goes on with the next tick.
CompleteErrs(w) ==
    /\ At(w, {"written"}) /\ Fault
    /\ \/ /\ Holds(w) /\ Finish(job[w], "completed")
          /\ artifact' = [artifact EXCEPT ![job[w]] = token[w]] /\ UNCHANGED orphaned
       \/ /\ orphaned' = orphaned \cup {token[w]}
          /\ UNCHANGED <<status, lease, claimToken, artifact>>
    /\ Go(w, "idle")
    /\ UNCHANGED <<attempts, ageVars, files, issued, job, token, todo, lastClaim, retries>>

\* FailExportJob: fenced by the token, an error or a lost fence leaves the row alone.
FailExportJob(w) ==
    /\ At(w, {"failing"})
    /\ \/ Holds(w) /\ Finish(job[w], "failed") /\ UNCHANGED faults
       \/ ~Holds(w) /\ UNCHANGED <<status, lease, claimToken, faults>>
       \/ Fault /\ UNCHANGED <<status, lease, claimToken>>
    /\ Go(w, "idle")
    /\ UNCHANGED <<attempts, artifact, ageVars, files, issued, job, token, todo, lastClaim,
                   orphaned, retries>>

\* The artifact of a lost lease or a fenced completion is removed; a failure to
\* remove it is ignored.
Discard(w) ==
    /\ At(w, {"discard"})
    /\ \/ files' = files \ {token[w]} /\ UNCHANGED <<orphaned, faults>>
       \/ Fault /\ orphaned' = orphaned \cup {token[w]} /\ UNCHANGED files
    /\ Go(w, "idle")
    /\ UNCHANGED <<rowVars, ageVars, issued, job, token, todo, lastClaim, retries>>

\* The worker stops: a crash, or a shutdown, which abandons the job and cancels the
\* removal of an artifact.
Crash(w) ==
    /\ pc[w] # "idle" /\ Fault
    /\ orphaned' = IF At(w, {"written", "discard"}) THEN orphaned \cup {token[w]} ELSE orphaned
    /\ Go(w, "idle") /\ todo' = [todo EXCEPT ![w] = {}]
    /\ UNCHANGED <<rowVars, ageVars, files, issued, job, token, lastClaim, retries>>

----------------------------------------------------------------------------
(* Clean-up by the export workers, and the pruning of history.             *)

\* The WHERE clause of ListExpiredUsageExportJobs.
ExpiredCandidates == {j \in due : status[j] = "completed" /\ j \notin expired}

CleanupOnce(w) ==
    /\ pc[w] = "idle" /\ ExpiredCandidates # {}
    /\ Go(w, "cleaning")
    /\ todo' = [todo EXCEPT ![w] = ExpiredCandidates]
    /\ UNCHANGED <<rowVars, ageVars, files, issued, job, token, lastClaim, orphaned, bounds>>

\* (mutant) removing an artifact that is gone already is an error
CleanupRemoveOnce(w, j) ==
    /\ At(w, {"cleaning"}) /\ j \in todo[w]
    /\ todo' = [todo EXCEPT ![w] = @ \ {j}]
    /\ IF artifact[j] \in files
       THEN /\ files' = files \ {artifact[j]}
            /\ Go(w, "marking") /\ job' = [job EXCEPT ![w] = j] /\ UNCHANGED faults
       ELSE UNCHANGED <<files, pc, job, faults>>
    /\ UNCHANGED <<rowVars, ageVars, issued, token, lastClaim, orphaned, retries>>

\* store.Remove succeeds on a missing artifact; after an error the job is left to a
\* later clean-up.
CleanupRemove(w, j) ==
    /\ At(w, {"cleaning"}) /\ j \in todo[w]
    /\ todo' = [todo EXCEPT ![w] = @ \ {j}]
    /\ \/ /\ files' = files \ {artifact[j]}
          /\ Go(w, "marking") /\ job' = [job EXCEPT ![w] = j] /\ UNCHANGED faults
       \/ Fault /\ UNCHANGED <<files, pc, job>>
    /\ UNCHANGED <<rowVars, ageVars, issued, token, lastClaim, orphaned, retries>>

\* ExpireExportJob: only a completed job that is not marked yet; or an error.
CleanupMark(w) ==
    /\ At(w, {"marking"}) /\ Go(w, "cleaning")
    /\ \/ /\ expired' = IF status[job[w]] = "completed" THEN expired \cup {job[w]} ELSE expired
          /\ UNCHANGED faults
       \/ Fault /\ UNCHANGED expired
    /\ UNCHANGED <<rowVars, due, files, issued, job, token, todo, lastClaim, orphaned, retries>>

CleanupDone(w) ==
    /\ At(w, {"cleaning"}) /\ todo[w] = {}
    /\ Go(w, "idle")
    /\ UNCHANGED <<rowVars, ageVars, files, issued, job, token, todo, lastClaim, orphaned, bounds>>

\* The history worker deletes expired jobs after its own retention.
PruneHistory(j) ==
    /\ status[j] = "completed" /\ j \in expired
    /\ status' = [status EXCEPT ![j] = "pruned"]
    /\ UNCHANGED <<attempts, lease, claimToken, artifact, ageVars, files, issued, workerVars,
                   lastClaim, orphaned, bounds>>

----------------------------------------------------------------------------
(* Time.                                                                   *)

LeaseExpires(j) ==
    /\ lease[j] = "live"
    /\ lease' = [lease EXCEPT ![j] = "past"]
    /\ UNCHANGED <<status, attempts, claimToken, artifact, ageVars, files, issued, workerVars,
                   lastClaim, orphaned, bounds>>

RetentionEnds(j) ==
    /\ status[j] = "completed" /\ j \notin due
    /\ due' = due \cup {j}
    /\ UNCHANGED <<rowVars, expired, files, issued, workerVars, lastClaim, orphaned, bounds>>

----------------------------------------------------------------------------
\* The export and the rest of a claimed job, without the renewals.
Work(w) ==
    \/ WriteArtifact(w) \/ ExportFails(w) \/ CompleteExportJob(w) \/ CompleteErrs(w)
    \/ FailExportJob(w) \/ Discard(w) \/ LoseLease(w)

Clean(w) == CleanupOnce(w) \/ (\E j \in Job : CleanupRemove(w, j)) \/ CleanupMark(w) \/ CleanupDone(w)

Next ==
    \/ \E j \in Job : CreateExportJob(j) \/ CancelExportJob(j) \/ RetryExportJob(j)
                      \/ PruneHistory(j) \/ LeaseExpires(j) \/ RetentionEnds(j)
    \/ \E w \in Worker : \/ \E j \in Job : ClaimExportJob(w, j)
                         \/ RenewLease(w) \/ Work(w) \/ Clean(w) \/ Crash(w)

Spec == Init /\ [][Next]_vars

\* No worker is on this claim of the job any more.
Abandoned(j) ==
    \A w \in Worker : ~(At(w, {"exporting", "written", "failing"}) /\ job[w] = j /\ Holds(w))

\* A worker goes on with its job, polls while there are jobs (a claim is strongly
\* fair: its SKIP LOCKED scan takes the oldest job first) and cleans up on its
\* ticker; a lease nobody renews runs out.
Fairness ==
    /\ \A w \in Worker : WF_vars(Work(w)) /\ WF_vars(Clean(w))
    /\ \A j \in Job : /\ SF_vars(\E w \in Worker : ClaimExportJob(w, j))
                      /\ WF_vars(Abandoned(j) /\ LeaseExpires(j))
                      /\ WF_vars(RetentionEnds(j))

FairSpec == Spec /\ Fairness

----------------------------------------------------------------------------
(* Properties.                                                             *)

\* A completed job can be downloaded until its retention ends: no stale worker that
\* discards its artifact, no failed completion, retry or clean-up takes it away.
DownloadableUntilExpiry ==
    \A j \in Job : status[j] = "completed" /\ j \notin due => artifact[j] \in files

\* The artifact of a completed job is the one of the last claim, never that of a
\* worker whose lease was taken over or whose job was cancelled and retried.
CompletedByLastClaim ==
    \A j \in Job : status[j] = "completed" => artifact[j] = lastClaim[j]

\* Every artifact in the store is in a worker's hands, or a completed job that will
\* expire names it, or a fault left it behind: losing a lease or a fence leaks none.
EveryFileAccountedFor ==
    \A f \in files :
        \/ f \in orphaned
        \/ \E w \in Worker : At(w, {"written", "discard"}) /\ token[w] = f
        \/ \E j \in Job : status[j] = "completed" /\ j \notin expired /\ artifact[j] = f

\* A job whose last attempt was abandoned: it is never claimed again.
Stranded(j) ==
    /\ status[j] = "running" /\ attempts[j] = MaxAttempts
    /\ \A w \in Worker : At(w, {"exporting", "written", "failing"}) => token[w] # claimToken[j]

\* A queued job ends, or is stranded in its last attempt until a user cancels it;
\* and a completed job expires after its retention, whatever clean-ups failed half
\* way through, between the artifact and its row.
EventuallySettled ==
    \A j \in Job :
        /\ status[j] = "queued" ~>
               status[j] \in {"completed", "failed", "canceled", "pruned"} \/ Stranded(j)
        /\ status[j] = "completed" ~> j \in expired
============================================================================
