----------------------- MODULE ReconciliationSchedule -----------------------
(***************************************************************************)
(* Scheduled reconciliation of one workspace: the replicas of the worker   *)
(* that claim its schedule, scan and record the run, and the notifications *)
(* they deliver.                                                           *)
(*                                                                         *)
(* What a scan finds is its fingerprint, "none" without issues (see        *)
(* CounterRepair for the scan).  A replica has one claim at a time and     *)
(* forgets it when it stops, so a claim token is the replica that drew it; *)
(* a lease is live or has run out.                                         *)
(***************************************************************************)
EXTENDS Integers

CONSTANTS
    Worker,          \* replicas of the reconciliation worker
    Drift,           \* fingerprints a scan may find
    MaxAttempts,     \* delivery attempts of a notification
    MaxRuns,         \* bound: claims of the schedule
    MaxRequeues,     \* bound: notifications requeued by a user
    MaxFaults        \* bound: crashes, failed calls, replicas slower than their lease

VARIABLES
    present,         \* what is wrong now
    lastFingerprint, lastNotified, lastFailure,  \* columns of the schedule
    holder, lease,   \* its claim token and locked_until
    notes, noteCount,    \* reconciliation_notifications
    wpc, claimed, found, note,  \* each replica: where it is, the columns it claimed,
                                \* what it found, the notification it delivers
    runs, requeues, sfaults

scheduleVars == <<lastFingerprint, lastNotified, lastFailure, holder, lease>>
noteVars == <<notes, noteCount>>
replicaVars == <<wpc, claimed, found, note>>
sbounds == <<runs, requeues, sfaults>>
vars == <<present, scheduleVars, noteVars, replicaVars, sbounds>>

Found == Drift \cup {"none"}
NoteId == 1..MaxRuns
Nobody == "nobody"

NoNote == [kind |-> "none", fingerprint |-> "none", status |-> "none", attempts |-> 0,
           holder |-> Nobody, lease |-> "none"]

TypeOK ==
    /\ present \in Found /\ lastFingerprint \in Found /\ lastNotified \in Found
    /\ lastFailure \in {"none", "failed"}
    /\ holder \in Worker \cup {Nobody} /\ lease \in {"none", "live", "past"}
    /\ noteCount \in 0..MaxRuns
    /\ notes \in [NoteId -> [kind : {"none", "drift_detected", "scan_failed"},
                             fingerprint : Found \cup {"failed"},
                             status : {"none", "pending", "delivered", "dead_letter"},
                             attempts : 0..MaxAttempts,
                             holder : Worker \cup {Nobody}, lease : {"none", "live", "past"}]]
    /\ wpc \in [Worker -> {"idle", "scanning", "saving", "failing", "notifying", "sent", "unsent"}]
    /\ claimed \in [Worker -> [fingerprint : Found, failure : {"none", "failed"}]]
    /\ found \in [Worker -> Found] /\ note \in [Worker -> NoteId \cup {0}]
    /\ runs \in 0..MaxRuns /\ requeues \in 0..MaxRequeues /\ sfaults \in 0..MaxFaults

Unclaimed == [fingerprint |-> "none", failure |-> "none"]

Init ==
    /\ present = "none" /\ lastFingerprint = "none" /\ lastNotified = "none"
    /\ lastFailure = "none" /\ holder = Nobody /\ lease = "none"
    /\ notes = [n \in NoteId |-> NoNote] /\ noteCount = 0
    /\ wpc = [w \in Worker |-> "idle"] /\ claimed = [w \in Worker |-> Unclaimed]
    /\ found = [w \in Worker |-> "none"] /\ note = [w \in Worker |-> 0]
    /\ runs = 0 /\ requeues = 0 /\ sfaults = 0

SFault == sfaults < MaxFaults /\ sfaults' = sfaults + 1
SGo(w, place) == wpc' = [wpc EXCEPT ![w] = place]

----------------------------------------------------------------------------
(* The schedule.                                                           *)

DriftChanges ==
    /\ present' \in Found \ {present}
    /\ UNCHANGED <<scheduleVars, noteVars, replicaVars, sbounds>>

ClaimSchedule(w) ==
    /\ wpc[w] = "idle" /\ lease # "live" /\ runs < MaxRuns
    /\ runs' = runs + 1 /\ holder' = w /\ lease' = "live" /\ SGo(w, "scanning")
    /\ claimed' = [claimed EXCEPT ![w] = [fingerprint |-> lastFingerprint, failure |-> lastFailure]]
    /\ UNCHANGED <<present, lastFingerprint, lastNotified, lastFailure, noteVars, found, note,
                   requeues, sfaults>>

Reconcile(w) ==
    /\ wpc[w] = "scanning"
    /\ \/ found' = [found EXCEPT ![w] = present] /\ SGo(w, "saving") /\ UNCHANGED sfaults
       \/ SFault /\ SGo(w, "failing") /\ UNCHANGED found
    /\ UNCHANGED <<present, scheduleVars, noteVars, claimed, note, runs, requeues>>

SaveNotification(kind, fingerprint) ==
    /\ noteCount' = noteCount + 1
    /\ notes' = [notes EXCEPT ![noteCount'] =
                    [NoNote EXCEPT !.kind = kind, !.fingerprint = fingerprint, !.status = "pending"]]

Unlock == holder' = Nobody /\ lease' = "none"

\* The run, the notification of a drift that the claim did not know, the schedule.
SaveRun(w) ==
    /\ IF found[w] # "none" /\ found[w] # claimed[w].fingerprint
       THEN SaveNotification("drift_detected", found[w]) ELSE UNCHANGED noteVars
    /\ lastFingerprint' = found[w] /\ lastFailure' = "none"
    /\ lastNotified' = IF found[w] = "none" THEN "none" ELSE lastNotified
    /\ Unlock

\* (mutant) the schedule is completed whoever holds its claim
CompleteUnfenced(w) ==
    /\ wpc[w] = "saving" /\ SaveRun(w) /\ SGo(w, "idle")
    /\ UNCHANGED <<present, claimed, found, note, sbounds>>

\* CompleteReconciliationSchedule: fenced by the token; without it, or with an error,
\* the scan counts as failed.
CompleteSchedule(w) ==
    /\ wpc[w] = "saving"
    /\ \/ holder = w /\ SaveRun(w) /\ SGo(w, "idle") /\ UNCHANGED sfaults
       \/ holder # w /\ SGo(w, "failing") /\ UNCHANGED <<scheduleVars, noteVars, sfaults>>
       \/ SFault /\ SGo(w, "failing")
          /\ \/ holder = w /\ SaveRun(w)
             \/ UNCHANGED <<scheduleVars, noteVars>>
    /\ UNCHANGED <<present, claimed, found, note, runs, requeues>>

\* A failure is known by the text of its error: after a failure, one with another
\* text is announced and one with the same is not.
FailSchedule(w) ==
    /\ wpc[w] = "failing" /\ SGo(w, "idle")
    /\ \/ /\ holder = w /\ UNCHANGED <<lastFingerprint, lastNotified, sfaults>>
          /\ \/ SaveNotification("scan_failed", "failed")
             \/ claimed[w].failure = "failed" /\ UNCHANGED noteVars
          /\ lastFailure' = "failed" /\ Unlock
       \/ holder # w /\ UNCHANGED <<scheduleVars, noteVars, sfaults>>
       \/ SFault /\ UNCHANGED <<scheduleVars, noteVars>>
    /\ UNCHANGED <<present, claimed, found, note, runs, requeues>>

----------------------------------------------------------------------------
(* The notifications.                                                      *)

\* (mutant) a claim takes a notification only once
ClaimOnce(w, n) ==
    /\ wpc[w] = "idle" /\ notes[n].status = "pending" /\ notes[n].lease = "none"
    /\ notes' = [notes EXCEPT ![n] = [@ EXCEPT !.holder = w, !.lease = "live"]]
    /\ note' = [note EXCEPT ![w] = n] /\ SGo(w, "notifying")
    /\ UNCHANGED <<present, scheduleVars, noteCount, claimed, found, sbounds>>

\* The claim leaves attempts alone: a replica that stops uses none up.  A worker
\* without a Notifier claims none.
ClaimNotification(w, n) ==
    /\ wpc[w] = "idle" /\ notes[n].status = "pending" /\ notes[n].lease # "live"
    /\ notes' = [notes EXCEPT ![n] = [@ EXCEPT !.holder = w, !.lease = "live"]]
    /\ note' = [note EXCEPT ![w] = n] /\ SGo(w, "notifying")
    /\ UNCHANGED <<present, scheduleVars, noteCount, claimed, found, sbounds>>

Notify(w) ==
    /\ wpc[w] = "notifying" /\ (SGo(w, "sent") \/ SGo(w, "unsent"))
    /\ UNCHANGED <<present, scheduleVars, noteVars, claimed, found, note, sbounds>>

Settle(w, status) ==
    notes' = [notes EXCEPT ![note[w]] = [@ EXCEPT !.status = status,
                                !.attempts = notes[note[w]].attempts + 1,
                                !.holder = Nobody, !.lease = "none"]]

\* Both are fenced by the notification's token; without it, or with an error, nothing
\* is saved.
CompleteNotification(w) ==
    /\ wpc[w] = "sent" /\ SGo(w, "idle") /\ note' = [note EXCEPT ![w] = 0]
    /\ \/ /\ notes[note[w]].holder = w /\ Settle(w, "delivered") /\ UNCHANGED sfaults
          /\ lastNotified' = IF lastFingerprint = notes[note[w]].fingerprint
                             THEN lastFingerprint ELSE lastNotified
       \/ notes[note[w]].holder # w /\ UNCHANGED <<notes, lastNotified, sfaults>>
       \/ SFault /\ UNCHANGED <<notes, lastNotified>>
    /\ UNCHANGED <<present, lastFingerprint, lastFailure, holder, lease, noteCount, claimed, found,
                   runs, requeues>>

RetryNotification(w) ==
    /\ wpc[w] = "unsent" /\ SGo(w, "idle") /\ note' = [note EXCEPT ![w] = 0]
    /\ \/ /\ notes[note[w]].holder = w /\ UNCHANGED sfaults
          /\ Settle(w, IF notes[note[w]].attempts + 1 >= MaxAttempts THEN "dead_letter" ELSE "pending")
       \/ notes[note[w]].holder # w /\ UNCHANGED <<notes, sfaults>>
       \/ SFault /\ UNCHANGED notes
    /\ UNCHANGED <<present, scheduleVars, noteCount, claimed, found, runs, requeues>>

RequeueNotification(n) ==
    /\ notes[n].status = "dead_letter" /\ requeues < MaxRequeues /\ requeues' = requeues + 1
    /\ notes' = [notes EXCEPT ![n] = [@ EXCEPT !.status = "pending", !.attempts = 0,
                                               !.holder = Nobody, !.lease = "none"]]
    /\ UNCHANGED <<present, scheduleVars, noteCount, replicaVars, runs, sfaults>>

----------------------------------------------------------------------------
(* Replicas stop, and leases run out: those of a replica that stopped, and *)
(* as a fault those of one that is too slow.                               *)

SCrash(w) ==
    /\ wpc[w] # "idle" /\ SFault /\ SGo(w, "idle") /\ note' = [note EXCEPT ![w] = 0]
    /\ UNCHANGED <<present, scheduleVars, noteVars, claimed, found, runs, requeues>>

ScheduleLeaseExpires ==
    /\ lease = "live" /\ lease' = "past"
    /\ \/ wpc[holder] \notin {"scanning", "saving", "failing"} /\ UNCHANGED sfaults
       \/ SFault
    /\ UNCHANGED <<present, lastFingerprint, lastNotified, lastFailure, holder, noteVars,
                   replicaVars, runs, requeues>>

NoteLeaseExpires(n) ==
    /\ notes[n].lease = "live" /\ notes' = [notes EXCEPT ![n] = [@ EXCEPT !.lease = "past"]]
    /\ \/ note[notes[n].holder] # n /\ UNCHANGED sfaults
       \/ SFault
    /\ UNCHANGED <<present, scheduleVars, noteCount, replicaVars, runs, requeues>>

----------------------------------------------------------------------------
SStep(w) ==
    \/ Reconcile(w) \/ CompleteSchedule(w) \/ FailSchedule(w)
    \/ Notify(w) \/ CompleteNotification(w) \/ RetryNotification(w)

Next ==
    \/ DriftChanges \/ ScheduleLeaseExpires
    \/ \E n \in NoteId : RequeueNotification(n) \/ NoteLeaseExpires(n)
    \/ \E w \in Worker : \/ ClaimSchedule(w) \/ SStep(w) \/ SCrash(w)
                         \/ \E n \in NoteId : ClaimNotification(w, n)

Spec == Init /\ [][Next]_vars

----------------------------------------------------------------------------
(* Properties.                                                             *)

\* A drift is announced once for as long as it lasts: a notification is saved exactly
\* when the schedule comes to know a fingerprint other than the one it knew, whatever
\* replica scans, fails, stops or comes back after its lease.
DriftAnnouncedOnce ==
    [][ (\E n \in NoteId : notes[n].kind = "none" /\ notes'[n].kind = "drift_detected")
        <=> (lastFingerprint' # lastFingerprint /\ lastFingerprint' # "none") ]_vars

\* With a Notifier configured, every notification is delivered or given up after its
\* attempts: no replica that stops while it holds one strands it.
NotificationSettles ==
    \A n \in NoteId : notes[n].status = "pending" ~> notes[n].status \in {"delivered", "dead_letter"}
============================================================================
