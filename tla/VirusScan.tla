----------------------------- MODULE VirusScan -----------------------------
(***************************************************************************)
(* Scanning uploaded files for viruses: the commit hook that marks a file  *)
(* pending and enqueues a scan, the scan jobs with their retries, the      *)
(* hourly sweep that picks up what was lost, the analysis that rewrites    *)
(* the same metadata column without a lock, and the guard that serves only *)
(* what was found clean.                                                   *)
(*                                                                         *)
(* The files are covered attachments (ScansForViruses.covers?); the        *)
(* scanner is right about a file whenever it gives a verdict.              *)
(***************************************************************************)
EXTENDS Naturals, FiniteSets

CONSTANTS
  Blobs,           \* uploaded files
  Jobs,            \* bound: identities of unfinished scan jobs
  ErrorAttempts,   \* attempts when the job fails (3 in the code)
  OutageAttempts,  \* attempts when the scanner is unavailable (5)
  MaxHooks         \* bound: enqueuers between marking and enqueueing

ASSUME ScanAssumption ==
  /\ ErrorAttempts \in Nat \ {0}
  /\ OutageAttempts \in Nat \ {0}
  /\ MaxHooks \in Nat
  /\ "none" \notin Blobs

VARIABLES
  infected,  \* does the file hold a virus?
  file,      \* attached, detached (a blob without attachment), or purged
  old,       \* was the blob created more than the grace period ago?
  status,    \* the recorded virus_scan_status
  marked,    \* enqueuers that have marked the blob and not enqueued yet
  sweep,     \* what the sweep loaded of the blob: recorded, unrecorded
  analysis,  \* the analysis job of the blob, with the status it loaded
  job        \* the unfinished scan jobs

vars == <<infected, file, old, status, marked, sweep, analysis, job>>

Recorded == {"none", "pending", "clean", "failed"}

Idle == [blob |-> "none"]

Scan == [blob : Blobs, at : {"queued", "clean", "infected", "purging"},
         errors : 0..(ErrorAttempts - 1), outages : 0..(OutageAttempts - 1)]

TypeOK ==
  /\ infected \in [Blobs -> BOOLEAN]
  /\ file \in [Blobs -> {"attached", "detached", "purged"}]
  /\ old \in [Blobs -> BOOLEAN]
  /\ status \in [Blobs -> Recorded]
  /\ marked \in [Blobs -> 0..MaxHooks]
  /\ sweep \in [Blobs -> {"idle", "recorded", "unrecorded"}]
  /\ analysis \in [Blobs -> [at : {"queued", "loaded", "done"}, saw : Recorded]]
  /\ job \in [Jobs -> Scan \cup {Idle}]

(***************************************************************************)
(* Every file has just been attached and its transaction committed.        *)
(***************************************************************************)
Init ==
  /\ infected \in [Blobs -> BOOLEAN]
  /\ file = [b \in Blobs |-> "attached"]
  /\ old = [b \in Blobs |-> FALSE]
  /\ status = [b \in Blobs |-> "none"]
  /\ marked = [b \in Blobs |-> 0]
  /\ sweep = [b \in Blobs |-> "idle"]
  /\ analysis = [b \in Blobs |-> [at |-> "queued", saw |-> "none"]]
  /\ job = [j \in Jobs |-> Idle]

-----------------------------------------------------------------------------
(* Enqueueing.                                                             *)

(* VirusScanJob.perform_later: any free identity will do.                  *)
Enqueue(b) ==
  \E j \in Jobs :
    /\ job[j] = Idle
    /\ job' = [job EXCEPT ![j] =
                 [blob |-> b, at |-> "queued", errors |-> 0, outages |-> 0]]

(* Mutant: a file that was recorded before is marked again.                *)
MarkAgain(b) ==
  /\ marked[b] < MaxHooks
  /\ status' = [status EXCEPT ![b] = "pending"]
  /\ marked' = [marked EXCEPT ![b] = @ + 1]

(***************************************************************************)
(* enqueue_scan under the row lock: only a file nothing is recorded of is  *)
(* marked.  The lock is gone before the job is enqueued.                   *)
(***************************************************************************)
Mark(b) ==
  /\ status[b] = "none"
  /\ marked[b] < MaxHooks
  /\ status' = [status EXCEPT ![b] = "pending"]
  /\ marked' = [marked EXCEPT ![b] = @ + 1]

(***************************************************************************)
(* The after_commit hook of the record, on its creation and on every later *)
(* update of it.                                                           *)
(***************************************************************************)
RecordCommitted(b) ==
  /\ file[b] = "attached"
  /\ Mark(b)
  /\ UNCHANGED <<infected, file, old, sweep, analysis, job>>

EnqueueMarked(b) ==
  /\ marked[b] > 0
  /\ marked' = [marked EXCEPT ![b] = @ - 1]
  /\ Enqueue(b)
  /\ UNCHANGED <<infected, file, old, status, sweep, analysis>>

(* The process dies between the two.                                       *)
EnqueuerDies(b) ==
  /\ marked[b] > 0
  /\ marked' = [marked EXCEPT ![b] = @ - 1]
  /\ UNCHANGED <<infected, file, old, status, sweep, analysis, job>>

-----------------------------------------------------------------------------
(* The scan job.                                                           *)

Exists(b) == file[b] # "purged"

Drop(j) == job' = [job EXCEPT ![j] = Idle]

(* Mutant: one attempt too many.                                           *)
FailOnceMore(j) ==
  LET b == job[j].blob IN
  IF job[j].errors < ErrorAttempts
  THEN /\ job' = [job EXCEPT ![j].errors = @ + 1]
       /\ UNCHANGED status
  ELSE /\ Drop(j)
       /\ status' = IF Exists(b) THEN [status EXCEPT ![b] = "failed"] ELSE status

(* Mutant: every failure marks the blob failed, and it is tried again.     *)
FailEachTime(j) ==
  LET b == job[j].blob IN
  /\ IF job[j].errors + 1 < ErrorAttempts
     THEN job' = [job EXCEPT ![j].errors = @ + 1]
     ELSE Drop(j)
  /\ status' = IF Exists(b) THEN [status EXCEPT ![b] = "failed"] ELSE status

(***************************************************************************)
(* retry_on StandardError.  The last failure marks the blob failed, if it  *)
(* is still there.                                                         *)
(***************************************************************************)
Fail(j) ==
  LET b == job[j].blob IN
  IF job[j].errors + 1 < ErrorAttempts
  THEN /\ job' = [job EXCEPT ![j].errors = @ + 1]
       /\ UNCHANGED status
  ELSE /\ Drop(j)
       /\ status' = IF Exists(b) THEN [status EXCEPT ![b] = "failed"] ELSE status

(***************************************************************************)
(* An attempt that ends with a verdict; with an error of the scanner or of *)
(* the download, or because the blob is gone; or with no scanner.          *)
(***************************************************************************)
ScanAnswers(j) ==
  /\ job[j] # Idle
  /\ job[j].at = "queued"
  /\ Exists(job[j].blob)
  /\ job' = [job EXCEPT ![j].at =
               IF infected[job[j].blob] THEN "infected" ELSE "clean"]
  /\ UNCHANGED <<infected, file, old, status, marked, sweep, analysis>>

ScanFails(j) ==
  /\ job[j] # Idle
  /\ job[j].at = "queued"
  /\ Fail(j)
  /\ UNCHANGED <<infected, file, old, marked, sweep, analysis>>

(* retry_on ScannerUnavailableError: after the last attempt nothing is     *)
(* written, the sweep will come back to the file.                          *)
ScannerUnavailable(j) ==
  /\ job[j] # Idle
  /\ job[j].at = "queued"
  /\ Exists(job[j].blob)
  /\ IF job[j].outages + 1 < OutageAttempts
     THEN job' = [job EXCEPT ![j].outages = @ + 1]
     ELSE Drop(j)
  /\ UNCHANGED <<infected, file, old, status, marked, sweep, analysis>>

(***************************************************************************)
(* update_scan_status! under the row lock; RecordNotFound discards the job *)
(* when the blob went in the meantime.                                     *)
(***************************************************************************)
RecordClean(j) ==
  /\ job[j] # Idle
  /\ job[j].at = "clean"
  /\ status' = IF Exists(job[j].blob)
               THEN [status EXCEPT ![job[j].blob] = "clean"] ELSE status
  /\ Drop(j)
  /\ UNCHANGED <<infected, file, old, marked, sweep, analysis>>

(***************************************************************************)
(* attachment.purge: the attachment first, then its blob.                  *)
(***************************************************************************)
DetachInfected(j) ==
  /\ job[j] # Idle
  /\ job[j].at = "infected"
  /\ IF file[job[j].blob] = "attached"
     THEN /\ file' = [file EXCEPT ![job[j].blob] = "detached"]
          /\ job' = [job EXCEPT ![j].at = "purging"]
     ELSE /\ Drop(j)
          /\ UNCHANGED file
  /\ UNCHANGED <<infected, old, status, marked, sweep, analysis>>

PurgeInfected(j) ==
  /\ job[j] # Idle
  /\ job[j].at = "purging"
  /\ file' = [file EXCEPT ![job[j].blob] = "purged"]
  /\ Drop(j)
  /\ UNCHANGED <<infected, old, status, marked, sweep, analysis>>

(* The worker dies; the job is taken up again from its start.              *)
WorkerDies(j) ==
  /\ job[j] # Idle
  /\ job[j].at # "queued"
  /\ job' = [job EXCEPT ![j].at = "queued"]
  /\ UNCHANGED <<infected, file, old, status, marked, sweep, analysis>>

-----------------------------------------------------------------------------
(* The sweep.                                                              *)

GracePeriodEnds(b) ==
  /\ ~old[b]
  /\ old' = [old EXCEPT ![b] = TRUE]
  /\ UNCHANGED <<infected, file, status, marked, sweep, analysis, job>>

(* Mutant: only files that nothing is recorded of are swept.               *)
SweepUnrecorded(b) ==
  /\ sweep[b] = "idle"
  /\ file[b] = "attached"
  /\ old[b]
  /\ status[b] = "none"
  /\ sweep' = [sweep EXCEPT ![b] = "unrecorded"]
  /\ UNCHANGED <<infected, file, old, status, marked, analysis, job>>

(***************************************************************************)
(* The sweep loads a batch, and decides later by what it loaded.  (It      *)
(* waits for a free job identity here, the bound of the model.)            *)
(***************************************************************************)
SweepLoads(b) ==
  /\ sweep[b] = "idle"
  /\ file[b] = "attached"
  /\ old[b]
  /\ status[b] \in {"none", "pending"}
  /\ \E j \in Jobs : job[j] = Idle
  /\ sweep' = [sweep EXCEPT ![b] =
                 IF status[b] = "none" THEN "unrecorded" ELSE "recorded"]
  /\ UNCHANGED <<infected, file, old, status, marked, analysis, job>>

SweepRescans(b) ==
  /\ sweep[b] = "recorded"
  /\ sweep' = [sweep EXCEPT ![b] = "idle"]
  /\ Enqueue(b)
  /\ UNCHANGED <<infected, file, old, status, marked, analysis>>

SweepMarks(b) ==
  /\ sweep[b] = "unrecorded"
  /\ sweep' = [sweep EXCEPT ![b] = "idle"]
  /\ IF Exists(b) /\ status[b] = "none"
     THEN Mark(b)
     ELSE UNCHANGED <<status, marked>>
  /\ UNCHANGED <<infected, file, old, analysis, job>>

SweepDies(b) ==
  /\ sweep[b] # "idle"
  /\ sweep' = [sweep EXCEPT ![b] = "idle"]
  /\ UNCHANGED <<infected, file, old, status, marked, analysis, job>>

-----------------------------------------------------------------------------
(* What Active Storage does beside: the analysis job writes the metadata   *)
(* it loaded, merged with what it found, over whatever is there; files are *)
(* replaced and detached; blobs without attachment are purged.             *)

AnalysisLoads(b) ==
  /\ analysis[b].at = "queued"
  /\ Exists(b)
  /\ analysis' = [analysis EXCEPT ![b] = [at |-> "loaded", saw |-> status[b]]]
  /\ UNCHANGED <<infected, file, old, status, marked, sweep, job>>

AnalysisWrites(b) ==
  /\ analysis[b].at = "loaded"
  /\ analysis' = [analysis EXCEPT ![b].at = "done"]
  /\ status' = IF Exists(b) THEN [status EXCEPT ![b] = analysis[b].saw] ELSE status
  /\ UNCHANGED <<infected, file, old, marked, sweep, job>>

Detach(b) ==
  /\ file[b] = "attached"
  /\ file' = [file EXCEPT ![b] = "detached"]
  /\ UNCHANGED <<infected, old, status, marked, sweep, analysis, job>>

PurgeUnattached(b) ==
  /\ file[b] = "detached"
  /\ file' = [file EXCEPT ![b] = "purged"]
  /\ UNCHANGED <<infected, old, status, marked, sweep, analysis, job>>

-----------------------------------------------------------------------------
ScanStep(j) ==
  \/ ScanAnswers(j)
  \/ ScanFails(j)
  \/ ScannerUnavailable(j)

WriteVerdict(j) ==
  \/ RecordClean(j)
  \/ DetachInfected(j)
  \/ PurgeInfected(j)

JobStep(j) == ScanStep(j) \/ WriteVerdict(j) \/ WorkerDies(j)

SweepActs(b) == SweepRescans(b) \/ SweepMarks(b)

BlobStep(b) ==
  \/ RecordCommitted(b)
  \/ EnqueueMarked(b)
  \/ EnqueuerDies(b)
  \/ GracePeriodEnds(b)
  \/ SweepLoads(b)
  \/ SweepActs(b)
  \/ SweepDies(b)
  \/ AnalysisLoads(b)
  \/ AnalysisWrites(b)
  \/ Detach(b)
  \/ PurgeUnattached(b)

Next == (\E j \in Jobs : JobStep(j)) \/ (\E b \in Blobs : BlobStep(b))

(***************************************************************************)
(* The queue runs every job, the cron entry sweeps every hour, the clock   *)
(* moves and the purge of unattached blobs runs daily.  A process that     *)
(* marked a file goes on or dies.  Jobs and sweeps do not die at the same  *)
(* point again and again, and a scanner that is asked often enough gives a *)
(* verdict: the strong fairness of the writes and of the answers says no   *)
(* more than that.  Nothing is assumed of the analysis.                    *)
(***************************************************************************)
Fairness ==
  /\ \A j \in Jobs :
       /\ WF_vars(ScanStep(j))
       /\ SF_vars(ScanAnswers(j))
       /\ SF_vars(WriteVerdict(j))
  /\ \A b \in Blobs :
       /\ WF_vars(GracePeriodEnds(b))
       /\ WF_vars(EnqueueMarked(b) \/ EnqueuerDies(b))
       /\ SF_vars(SweepLoads(b))
       /\ SF_vars(SweepActs(b))
       /\ WF_vars(PurgeUnattached(b))

Spec == Init /\ [][Next]_vars

FairSpec == Spec /\ Fairness

-----------------------------------------------------------------------------
(* Properties.                                                             *)

(* Mutant: a file nothing is recorded of is taken for one not covered.     *)
ServedUnlessRecorded(b) == file[b] = "attached" /\ status[b] \in {"none", "clean"}

(***************************************************************************)
(* What the guards of the file-serving controllers let through.  The       *)
(* authorization asks the records the file is attached to, so it refuses a *)
(* detached one; VirusScanGuard takes a covered file without a record for  *)
(* pending.                                                                *)
(***************************************************************************)
Served(b) == file[b] = "attached" /\ status[b] = "clean"

(***************************************************************************)
(* "File-serving controllers fail closed while a protected upload is       *)
(* pending or failed" (docs/deployment.md): no infected file is ever       *)
(* served, whatever dies, retries or overwrites what.                      *)
(***************************************************************************)
NothingInfectedServed == \A b \in Blobs : Served(b) => ~infected[b]

(* Neither the sweep nor a wiped mark can have enqueued a second scan.     *)
Undisturbed(b) == ~old[b] /\ ~(analysis[b].at = "done" /\ analysis[b].saw = "none")

(***************************************************************************)
(* Enqueued once (test "marks each configured attachment pending and       *)
(* enqueues scanning once"): before the sweep looks at a file at most one  *)
(* scan of it is outstanding, however often its record is saved, unless    *)
(* the analysis has wiped the mark.                                        *)
(***************************************************************************)
EnqueuedOnce ==
  \A b \in Blobs :
    Undisturbed(b) =>
      marked[b] + Cardinality({j \in Jobs : job[j].blob = b}) <= 1

Verdicts == {"clean", "failed"}

(***************************************************************************)
(* A verdict is never taken back: whichever save of the record, retry or   *)
(* sweep comes after it (enqueue_scan, VirusScanJob), a file found clean   *)
(* or failed does not go back to pending or to unrecorded, except by the   *)
(* analysis, which writes back the metadata it loaded before.  One verdict *)
(* replaces the other only where there may be a second scan: of the sweep, *)
(* or after the analysis wiped the mark.                                   *)
(***************************************************************************)
VerdictStands ==
  [][\A b \in Blobs :
       status[b] \in Verdicts /\ status'[b] # status[b] =>
         \/ analysis'[b] # analysis[b]
         \/ status'[b] \in Verdicts /\ ~Undisturbed(b)]_vars

Settled(b) == file[b] = "purged" \/ status[b] \in Verdicts

(***************************************************************************)
(* Every file is in the end, and for good, found clean, given up as        *)
(* failed, or purged: no lost mark, dead process, outage or overwritten    *)
(* verdict leaves one pending for ever (VirusScanSweepJob).                *)
(***************************************************************************)
EventuallySettled == \A b \in Blobs : <>[]Settled(b)

(***************************************************************************)
(* "Most jobs are safe to ignore if the underlying records are no longer   *)
(* available" (ApplicationJob): a scan whose blob is gone is dropped, it   *)
(* is not tried again.                                                     *)
(***************************************************************************)
GoneBlobsAreIgnored ==
  [][\A j \in Jobs :
       job[j] # Idle /\ job[j].at = "queued" /\ file[job[j].blob] = "purged"
         => job'[j] \in {job[j], Idle}]_vars
=============================================================================
