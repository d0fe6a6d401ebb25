-------------------------- MODULE VirusScanProofs --------------------------
(***************************************************************************)
(* No infected file is served, for any number of files, jobs and retries.  *)
(*                                                                         *)
(* The record of a file may be written by three parties: an enqueuer, a    *)
(* scan job, and the analysis, which writes what it loaded long before.    *)
(* "clean" can only come from the verdict of a job, so an infected file    *)
(* has neither that record, nor a job with that verdict, nor an analysis   *)
(* that loaded it.                                                         *)
(***************************************************************************)
EXTENDS VirusScan, FiniteSetTheorems, TLAPS

CleanIsClean ==
  /\ \A b \in Blobs :
       infected[b] => status[b] # "clean" /\ analysis[b].saw # "clean"
  /\ \A j \in Jobs :
       job[j] # Idle /\ job[j].at = "clean" => ~infected[job[j].blob]

IInv == TypeOK /\ CleanIsClean

LEMMA InitIInv == Init => IInv
<1> SUFFICES ASSUME Init PROVE IInv
  OBVIOUS
<1> USE ScanAssumption DEF Init
<1>1. analysis \in [Blobs -> [at : {"queued", "loaded", "done"}, saw : Recorded]]
  BY DEF Recorded
<1>2. TypeOK
  BY <1>1 DEF TypeOK, Recorded
<1>3. CleanIsClean
  BY DEF CleanIsClean, Idle
<1> QED
  BY <1>2, <1>3 DEF IInv

LEMMA NextTypeOK == TypeOK /\ [Next]_vars => TypeOK'
<1> SUFFICES ASSUME TypeOK, [Next]_vars PROVE TypeOK'
  OBVIOUS
<1> USE ScanAssumption DEF TypeOK
<1>1. ASSUME NEW j \in Jobs, job[j] # Idle PROVE job[j] \in Scan
  BY <1>1
<1>2. ASSUME NEW j \in Jobs, JobStep(j) PROVE TypeOK'
  <2>1. CASE ScanAnswers(j)
    BY <1>1, <2>1 DEF ScanAnswers, Scan
  <2>2. CASE ScanFails(j)
    <3>1. job[j] \in Scan /\ job[j].blob \in Blobs
      BY <1>1, <2>2 DEF ScanFails, Scan
    <3>2. CASE job[j].errors + 1 < ErrorAttempts
      <4>1. [job[j] EXCEPT !.errors = @ + 1] \in Scan
        BY <3>1, <3>2 DEF Scan
      <4>2. job' = [job EXCEPT ![j] = [job[j] EXCEPT !.errors = @ + 1]]
        BY <2>2, <3>2 DEF ScanFails, Fail
      <4> QED
        BY <2>2, <3>2, <4>1, <4>2 DEF ScanFails, Fail
    <3>3. CASE ~(job[j].errors + 1 < ErrorAttempts)
      BY <2>2, <3>1, <3>3 DEF ScanFails, Fail, Drop, Recorded
    <3> QED
      BY <3>2, <3>3
  <2>3. CASE ScannerUnavailable(j)
    <3>1. job[j] \in Scan
      BY <1>1, <2>3 DEF ScannerUnavailable
    <3>2. CASE job[j].outages + 1 < OutageAttempts
      <4>1. [job[j] EXCEPT !.outages = @ + 1] \in Scan
        BY <3>1, <3>2 DEF Scan
      <4>2. job' = [job EXCEPT ![j] = [job[j] EXCEPT !.outages = @ + 1]]
        BY <2>3, <3>2 DEF ScannerUnavailable
      <4> QED
        BY <2>3, <4>1, <4>2 DEF ScannerUnavailable
    <3>3. CASE ~(job[j].outages + 1 < OutageAttempts)
      BY <2>3, <3>3 DEF ScannerUnavailable, Drop
    <3> QED
      BY <3>2, <3>3
  <2>4. CASE RecordClean(j)
    BY <1>1, <2>4 DEF RecordClean, Drop, Recorded
  <2>5. CASE DetachInfected(j)
    <3>1. job[j] \in Scan /\ [job[j] EXCEPT !.at = "purging"] \in Scan
      BY <1>1, <2>5 DEF DetachInfected, Scan
    <3>2. CASE file[job[j].blob] = "attached"
      <4>1. job' = [job EXCEPT ![j] = [job[j] EXCEPT !.at = "purging"]]
        BY <2>5, <3>2 DEF DetachInfected
      <4> QED
        BY <2>5, <3>1, <3>2, <4>1 DEF DetachInfected
    <3>3. CASE file[job[j].blob] # "attached"
      BY <2>5, <3>3 DEF DetachInfected, Drop
    <3> QED
      BY <3>2, <3>3
  <2>6. CASE PurgeInfected(j)
    BY <1>1, <2>6 DEF PurgeInfected, Drop
  <2>7. CASE WorkerDies(j)
    BY <1>1, <2>7 DEF WorkerDies, Scan
  <2> QED
    BY <1>2, <2>1, <2>2, <2>3, <2>4, <2>5, <2>6, <2>7
    DEF JobStep, ScanStep, WriteVerdict
<1>3. ASSUME NEW b \in Blobs, Enqueue(b) PROVE job' \in [Jobs -> Scan \cup {Idle}]
  BY <1>3 DEF Enqueue, Scan
<1>4. ASSUME NEW b \in Blobs, Mark(b)
      PROVE  status' \in [Blobs -> Recorded] /\ marked' \in [Blobs -> 0..MaxHooks]
  BY <1>4 DEF Mark, Recorded
<1>5. ASSUME NEW b \in Blobs, BlobStep(b) PROVE TypeOK'
  <2>1. CASE RecordCommitted(b)
    BY <1>4, <2>1 DEF RecordCommitted
  <2>2. CASE EnqueueMarked(b)
    <3>1. marked' \in [Blobs -> 0..MaxHooks]
      BY <2>2 DEF EnqueueMarked
    <3> QED
      BY <1>3, <2>2, <3>1 DEF EnqueueMarked
  <2>3. CASE EnqueuerDies(b)
    BY <2>3 DEF EnqueuerDies
  <2>4. CASE GracePeriodEnds(b)
    BY <2>4 DEF GracePeriodEnds
  <2>5. CASE SweepLoads(b)
    BY <2>5 DEF SweepLoads
  <2>6. CASE SweepRescans(b)
    BY <1>3, <2>6 DEF SweepRescans
  <2>7. CASE SweepMarks(b)
    BY <1>4, <2>7 DEF SweepMarks
  <2>8. CASE SweepDies(b)
    BY <2>8 DEF SweepDies
  <2>9. CASE AnalysisLoads(b)
    BY <2>9 DEF AnalysisLoads
  <2>10. CASE AnalysisWrites(b)
    BY <2>10 DEF AnalysisWrites
  <2>11. CASE Detach(b)
    BY <2>11 DEF Detach
  <2>12. CASE PurgeUnattached(b)
    BY <2>12 DEF PurgeUnattached
  <2> QED
    BY <1>5, <2>1, <2>2, <2>3, <2>4, <2>5, <2>6, <2>7, <2>8, <2>9, <2>10,
       <2>11, <2>12 DEF BlobStep, SweepActs
<1>6. CASE UNCHANGED vars
  BY <1>6 DEF vars
<1> QED
  BY <1>2, <1>5, <1>6 DEF Next

LEMMA NextCleanIsClean == IInv /\ [Next]_vars => CleanIsClean'
<1> SUFFICES ASSUME IInv, [Next]_vars PROVE CleanIsClean'
  OBVIOUS
<1> USE DEF IInv, TypeOK, CleanIsClean
<1>1. ASSUME NEW j \in Jobs, job[j] # Idle PROVE job[j] \in Scan
  BY <1>1
<1>2. ASSUME NEW j \in Jobs, JobStep(j) PROVE CleanIsClean'
  <2>1. CASE ScanAnswers(j)
    BY <1>1, <2>1 DEF ScanAnswers, Scan
  <2>2. CASE ScanFails(j)
    BY <1>1, <2>2 DEF ScanFails, Fail, Drop, Scan, Exists, Idle
  <2>3. CASE ScannerUnavailable(j)
    BY <1>1, <2>3 DEF ScannerUnavailable, Drop, Scan, Idle
  <2>4. CASE RecordClean(j)
    BY <1>1, <2>4 DEF RecordClean, Drop, Idle
  <2>5. CASE DetachInfected(j)
    BY <1>1, <2>5 DEF DetachInfected, Drop, Scan, Idle
  <2>6. CASE PurgeInfected(j)
    BY <1>1, <2>6 DEF PurgeInfected, Drop, Idle
  <2>7. CASE WorkerDies(j)
    BY <1>1, <2>7 DEF WorkerDies, Scan
  <2> QED
    BY <1>2, <2>1, <2>2, <2>3, <2>4, <2>5, <2>6, <2>7
    DEF JobStep, ScanStep, WriteVerdict
<1>3. ASSUME NEW b \in Blobs, Enqueue(b), UNCHANGED <<infected, status, analysis>>
      PROVE  CleanIsClean'
  BY <1>3 DEF Enqueue
<1>4. ASSUME NEW b \in Blobs, Mark(b), UNCHANGED <<infected, analysis, job>>
      PROVE  CleanIsClean'
  BY <1>4 DEF Mark
<1>5. ASSUME NEW b \in Blobs, BlobStep(b) PROVE CleanIsClean'
  <2>1. CASE RecordCommitted(b)
    BY <1>4, <2>1 DEF RecordCommitted
  <2>2. CASE EnqueueMarked(b)
    BY <1>3, <2>2 DEF EnqueueMarked
  <2>3. CASE EnqueuerDies(b)
    BY <2>3 DEF EnqueuerDies
  <2>4. CASE GracePeriodEnds(b)
    BY <2>4 DEF GracePeriodEnds
  <2>5. CASE SweepLoads(b)
    BY <2>5 DEF SweepLoads
  <2>6. CASE SweepRescans(b)
    BY <1>3, <2>6 DEF SweepRescans
  <2>7. CASE SweepMarks(b)
    BY <1>4, <2>7 DEF SweepMarks
  <2>8. CASE SweepDies(b)
    BY <2>8 DEF SweepDies
  <2>9. CASE AnalysisLoads(b)
    BY <2>9 DEF AnalysisLoads
  <2>10. CASE AnalysisWrites(b)
    BY <2>10 DEF AnalysisWrites
  <2>11. CASE Detach(b)
    BY <2>11 DEF Detach
  <2>12. CASE PurgeUnattached(b)
    BY <2>12 DEF PurgeUnattached
  <2> QED
    BY <1>5, <2>1, <2>2, <2>3, <2>4, <2>5, <2>6, <2>7, <2>8, <2>9, <2>10,
       <2>11, <2>12 DEF BlobStep, SweepActs
<1>6. CASE UNCHANGED vars
  BY <1>6 DEF vars
<1> QED
  BY <1>2, <1>5, <1>6 DEF Next

(***************************************************************************)
(* Every record, counter and job of a run has its type: no attempt counter *)
(* of a scan job passes its limit.                                         *)
(***************************************************************************)
THEOREM TypeCorrect == Spec => []TypeOK
<1>1. Init => TypeOK
  BY InitIInv DEF IInv
<1> QED
  BY <1>1, NextTypeOK, PTL DEF Spec

(***************************************************************************)
(* No infected file is ever served: the guard fails closed whatever the    *)
(* interleaving of enqueuers, jobs, sweeps and analyses.                   *)
(***************************************************************************)
THEOREM InfectedNeverServed == Spec => []NothingInfectedServed
<1>1. IInv /\ [Next]_vars => IInv'
  BY NextTypeOK, NextCleanIsClean DEF IInv
<1>2. IInv => NothingInfectedServed
  BY DEF IInv, CleanIsClean, NothingInfectedServed, Served
<1> QED
  BY <1>1, <1>2, InitIInv, PTL DEF Spec

-----------------------------------------------------------------------------
(***************************************************************************)
(* Enqueued once.  The mark is what keeps a second scan away: a file that  *)
(* nothing is recorded of has neither an enqueuer nor a job.  Before the   *)
(* grace period has ended no sweep has loaded the file, and until the      *)
(* analysis writes, no record goes back to none.                           *)
(***************************************************************************)
Waiting(j, b) == job[j].blob = b

Alone(b) ==
  /\ sweep[b] = "idle"
  /\ marked[b] \in {0, 1}
  /\ marked[b] = 1 => \A j \in Jobs : ~Waiting(j, b)
  /\ \A j, k \in Jobs : Waiting(j, b) /\ Waiting(k, b) => j = k
  /\ status[b] = "none" => marked[b] = 0 /\ \A j \in Jobs : ~Waiting(j, b)

MarkHolds == \A b \in Blobs : Undisturbed(b) => Alone(b)

(***************************************************************************)
(* A step which leaves the sweep of b idle, adds neither an enqueuer nor a *)
(* job, and does not clear the record, leaves b alone.                     *)
(***************************************************************************)
LEMMA StillAlone ==
  ASSUME TypeOK, NEW b \in Blobs, Alone(b), sweep'[b] = sweep[b],
         marked'[b] \in Nat, marked'[b] <= marked[b],
         \A j \in Jobs : Waiting(j, b)' => Waiting(j, b),
         status'[b] = "none" => status[b] = "none"
  PROVE  Alone(b)'
<1>1. marked'[b] \in {0, 1} /\ (marked'[b] = 1 => marked[b] = 1)
  BY DEF Alone
<1>2. marked[b] = 0 => marked'[b] = 0
  OBVIOUS
<1> QED
  BY <1>1, <1>2 DEF Alone, Waiting

(***************************************************************************)
(* A step of a job adds no job of any file, and touches neither sweep nor  *)
(* enqueuers.  It writes the record of its own file only, with a verdict,  *)
(* and is over then.                                                       *)
(***************************************************************************)
LEMMA JobStepsAddNone ==
  ASSUME TypeOK, NEW b \in Blobs, NEW j \in Jobs, JobStep(j)
  PROVE  /\ UNCHANGED <<sweep, old, analysis, marked>>
         /\ \A k \in Jobs : Waiting(k, b)' => Waiting(k, b)
         /\ status'[b] # status[b] =>
              /\ status'[b] \in {"clean", "failed"}
              /\ Waiting(j, b) /\ ~Waiting(j, b)'
<1>1. UNCHANGED <<sweep, old, analysis, marked>> /\ job[j] \in Scan
  BY DEF JobStep, ScanStep, WriteVerdict, ScanAnswers, ScanFails, ScannerUnavailable,
         RecordClean, DetachInfected, PurgeInfected, WorkerDies, TypeOK
<1>2. \/ job' = [job EXCEPT ![j] = Idle]
      \/ job' = job
      \/ \E r : job' = [job EXCEPT ![j] = r] /\ r.blob = job[j].blob
  <2>1. CASE ScanAnswers(j)
    <3>1. job' = [job EXCEPT ![j] = [job[j] EXCEPT !.at =
                    IF infected[job[j].blob] THEN "infected" ELSE "clean"]]
      BY <2>1 DEF ScanAnswers
    <3>2. [job[j] EXCEPT !.at =
             IF infected[job[j].blob] THEN "infected" ELSE "clean"].blob = job[j].blob
      BY <1>1 DEF Scan
    <3> QED
      BY <3>1, <3>2
  <2>2. CASE ScanFails(j)
    <3>1. \/ job' = [job EXCEPT ![j] = Idle]
          \/ job' = [job EXCEPT ![j] = [job[j] EXCEPT !.errors = @ + 1]]
      BY <2>2 DEF ScanFails, Fail, Drop
    <3> QED
      BY <1>1, <3>1 DEF Scan
  <2>3. CASE ScannerUnavailable(j)
    <3>1. \/ job' = [job EXCEPT ![j] = Idle]
          \/ job' = [job EXCEPT ![j] = [job[j] EXCEPT !.outages = @ + 1]]
      BY <2>3 DEF ScannerUnavailable, Drop
    <3> QED
      BY <1>1, <3>1 DEF Scan
  <2>4. CASE RecordClean(j) \/ PurgeInfected(j)
    BY <2>4 DEF RecordClean, PurgeInfected, Drop
  <2>5. CASE DetachInfected(j)
    <3>1. \/ job' = [job EXCEPT ![j] = Idle]
          \/ job' = [job EXCEPT ![j] = [job[j] EXCEPT !.at = "purging"]]
      BY <2>5 DEF DetachInfected, Drop
    <3> QED
      BY <1>1, <3>1 DEF Scan
  <2>6. CASE WorkerDies(j)
    <3>1. job' = [job EXCEPT ![j] = [job[j] EXCEPT !.at = "queued"]]
      BY <2>6 DEF WorkerDies
    <3>2. [job[j] EXCEPT !.at = "queued"].blob = job[j].blob
      BY <1>1 DEF Scan
    <3> QED
      BY <3>1, <3>2
  <2> QED
    BY <2>1, <2>2, <2>3, <2>4, <2>5, <2>6 DEF JobStep, ScanStep, WriteVerdict
<1>3. \A k \in Jobs : Waiting(k, b)' => Waiting(k, b)
  <2>1. job \in [Jobs -> Scan \cup {Idle}] /\ Idle.blob # b
    BY ScanAssumption DEF TypeOK, Idle
  <2> QED
    BY <1>2, <2>1 DEF Waiting
<1>4. ASSUME status'[b] # status[b]
      PROVE  status'[b] \in {"clean", "failed"} /\ Waiting(j, b) /\ ~Waiting(j, b)'
  <2>1. ScanFails(j) \/ RecordClean(j)
    BY <1>4
    DEF JobStep, ScanStep, WriteVerdict, ScanAnswers, ScannerUnavailable,
        DetachInfected, PurgeInfected, WorkerDies
  <2>2. Drop(j) /\ \E s \in {"clean", "failed"} : status' = [status EXCEPT ![job[j].blob] = s]
    BY <1>4, <2>1 DEF ScanFails, Fail, RecordClean
  <2>3. b = job[j].blob /\ status'[b] \in {"clean", "failed"}
    BY <1>1, <1>4, <2>2 DEF TypeOK
  <2>4. job'[j] = Idle /\ Idle.blob # b
    BY <2>2, ScanAssumption DEF Drop, TypeOK, Idle
  <2> QED
    BY <2>3, <2>4 DEF Waiting
<1> QED
  BY <1>1, <1>3, <1>4

LEMMA InitMarkHolds == Init => MarkHolds
  BY ScanAssumption DEF Init, MarkHolds, Undisturbed, Alone, Waiting, Idle

LEMMA NextMarkHolds == TypeOK /\ MarkHolds /\ [Next]_vars => MarkHolds'
<1> SUFFICES ASSUME TypeOK, MarkHolds, [Next]_vars,
                    NEW b \in Blobs, Undisturbed(b)'
             PROVE  Alone(b)'
  BY DEF MarkHolds
<1> USE ScanAssumption
<1>1. ASSUME NEW j \in Jobs, JobStep(j) PROVE Alone(b)'
  <2>1. Alone(b)
    BY <1>1, JobStepsAddNone DEF MarkHolds, Undisturbed
  <2> QED
    BY <1>1, <2>1, JobStepsAddNone, StillAlone DEF Alone
<1>2. ASSUME NEW c \in Blobs, BlobStep(c) PROVE Alone(b)'
  <2>1. Undisturbed(b) /\ Alone(b)
    BY <1>2
    DEF BlobStep, RecordCommitted, EnqueueMarked, EnqueuerDies, GracePeriodEnds,
        SweepLoads, SweepActs, SweepRescans, SweepMarks, SweepDies,
        AnalysisLoads, AnalysisWrites, Detach, PurgeUnattached,
        Undisturbed, MarkHolds, TypeOK
  <2>2. ASSUME Enqueue(c) PROVE \A j \in Jobs : Waiting(j, b)' /\ c # b => Waiting(j, b)
    BY <2>2 DEF Enqueue, Waiting, TypeOK
  <2>3. ASSUME Mark(c), UNCHANGED job, sweep'[b] = "idle" PROVE Alone(b)'
    BY <2>1, <2>3 DEF Mark, Alone, Waiting, TypeOK
  <2>4. CASE RecordCommitted(c)
    BY <2>1, <2>3, <2>4 DEF RecordCommitted, Alone
  <2>5. CASE EnqueueMarked(c)
    <3>1. CASE c # b
      BY <2>1, <2>2, <2>5, <3>1, StillAlone DEF EnqueueMarked, Alone, TypeOK
    <3>2. CASE c = b
      <4>1. /\ marked[b] = 1 /\ marked'[b] = 0
            /\ status'[b] # "none" /\ sweep'[b] = "idle"
        BY <2>1, <2>5, <3>2 DEF EnqueueMarked, Alone, TypeOK
      <4>2. PICK i \in Jobs : \A j \in Jobs \ {i} : job'[j] = job[j]
        BY <2>5 DEF EnqueueMarked, Enqueue, TypeOK
      <4>3. \A j \in Jobs : Waiting(j, b)' => j = i
        BY <2>1, <4>1, <4>2 DEF Alone, Waiting
      <4> QED
        BY <4>1, <4>3 DEF Alone
    <3> QED
      BY <3>1, <3>2
  <2>6. CASE EnqueuerDies(c)
    BY <2>1, <2>6, StillAlone DEF EnqueuerDies, Alone, Waiting, TypeOK
  <2>7. CASE GracePeriodEnds(c) \/ Detach(c) \/ PurgeUnattached(c)
    BY <2>1, <2>7 DEF GracePeriodEnds, Detach, PurgeUnattached, Alone, Waiting
  <2>8. CASE SweepLoads(c) \/ SweepDies(c)
    BY <2>1, <2>8 DEF SweepLoads, SweepDies, Undisturbed, Alone, Waiting, TypeOK
  <2>9. CASE SweepRescans(c)
    <3>1. c # b
      BY <2>1, <2>9 DEF SweepRescans, Alone
    <3> QED
      BY <2>1, <2>2, <2>9, <3>1, StillAlone DEF SweepRescans, Alone, TypeOK
  <2>10. CASE SweepMarks(c)
    <3>1. c # b
      BY <2>1, <2>10 DEF SweepMarks, Alone
    <3> QED
      BY <2>1, <2>10, <3>1 DEF SweepMarks, Mark, Alone, Waiting, TypeOK
  <2>11. CASE AnalysisLoads(c)
    BY <2>1, <2>11 DEF AnalysisLoads, Alone, Waiting
  <2>12. CASE AnalysisWrites(c)
    <3>1. status'[b] = "none" => status[b] = "none"
      BY <2>12 DEF AnalysisWrites, Undisturbed, TypeOK
    <3> QED
      BY <2>1, <2>12, <3>1 DEF AnalysisWrites, Alone, Waiting
  <2> QED
    BY <1>2, <2>4, <2>5, <2>6, <2>7, <2>8, <2>9, <2>10, <2>11, <2>12
    DEF BlobStep, SweepActs
<1>3. CASE UNCHANGED vars
  BY <1>3 DEF vars, MarkHolds, Undisturbed, Alone, Waiting
<1> QED
  BY <1>1, <1>2, <1>3 DEF Next

(***************************************************************************)
(* However often a record is saved and whatever dies, at most one scan of  *)
(* a file is outstanding until the sweep may look at it, unless the        *)
(* analysis has wiped the mark; for any number of files, jobs and hooks.   *)
(***************************************************************************)
THEOREM ScannedOnce == Spec => []EnqueuedOnce
<1>1. Init => MarkHolds
  BY InitMarkHolds
<1>2. ASSUME TypeOK, MarkHolds, NEW b \in Blobs, Undisturbed(b)
      PROVE  marked[b] + Cardinality({j \in Jobs : job[j].blob = b}) <= 1
  <2> DEFINE J == {j \in Jobs : job[j].blob = b}
  <2>1. Alone(b)
    BY <1>2 DEF MarkHolds
  <2>2. CASE J = {}
    BY <2>1, <2>2, FS_EmptySet DEF Alone
  <2>3. CASE J # {}
    <3>1. PICK j \in J : TRUE
      BY <2>3
    <3>2. J = {j}
      BY <2>1, <3>1 DEF Alone, Waiting
    <3>3. Cardinality(J) = 1
      BY <3>2, FS_Singleton
    <3>4. marked[b] = 0
      BY <2>1, <3>1 DEF Alone, Waiting
    <3> QED
      BY <3>3, <3>4
  <2> QED
    BY <2>2, <2>3
<1>3. TypeOK /\ MarkHolds => EnqueuedOnce
  BY <1>2 DEF EnqueuedOnce, Undisturbed
<1> QED
  BY <1>1, <1>3, NextMarkHolds, TypeCorrect, PTL DEF Spec
-----------------------------------------------------------------------------
(***************************************************************************)
(* A verdict is the last word.  What could change it is a job or an        *)
(* enqueuer of the same file, so the invariant says that there is none:    *)
(* the job that gave the verdict was the only one.  The analysis may have  *)
(* loaded a verdict, and then writes it back over one.                     *)
(***************************************************************************)
Final(b) ==
  /\ status[b] \in Verdicts => marked[b] = 0 /\ \A j \in Jobs : ~Waiting(j, b)
  /\ analysis[b].at = "loaded" /\ analysis[b].saw \in Verdicts
       => status[b] \in Verdicts

VerdictsFinal == \A b \in Blobs : Undisturbed(b) => Final(b)

(* What has disturbed the scanning of a file stays.                        *)
LEMMA DisturbedForGood ==
  ASSUME TypeOK, [Next]_vars, NEW b \in Blobs, Undisturbed(b)'
  PROVE  Undisturbed(b)
<1>1. ASSUME NEW j \in Jobs, JobStep(j) PROVE Undisturbed(b)
  BY <1>1, JobStepsAddNone DEF Undisturbed
<1>2. ASSUME NEW c \in Blobs, BlobStep(c) PROVE Undisturbed(b)
  BY <1>2
  DEF BlobStep, RecordCommitted, EnqueueMarked, EnqueuerDies, GracePeriodEnds,
      SweepLoads, SweepActs, SweepRescans, SweepMarks, SweepDies,
      AnalysisLoads, AnalysisWrites, Detach, PurgeUnattached, Undisturbed, TypeOK
<1>3. CASE UNCHANGED vars
  BY <1>3 DEF vars, Undisturbed
<1> QED
  BY <1>1, <1>2, <1>3 DEF Next

LEMMA NextVerdictsFinal ==
  ASSUME TypeOK, MarkHolds, VerdictsFinal, [Next]_vars, NEW b \in Blobs, Undisturbed(b)
  PROVE  /\ Final(b)'
         /\ status[b] \in Verdicts => status'[b] = status[b] \/ analysis'[b] # analysis[b]
<1> DEFINE Goal == /\ Final(b)'
                   /\ status[b] \in Verdicts
                        => status'[b] = status[b] \/ analysis'[b] # analysis[b]
<1>0. Alone(b) /\ Final(b)
  BY DEF MarkHolds, VerdictsFinal
<1>1. ASSUME NEW j \in Jobs, JobStep(j) PROVE Goal
  <2>1. CASE status'[b] = status[b]
    BY <1>0, <1>1, <2>1, JobStepsAddNone DEF Final
  <2>2. CASE status'[b] # status[b]
    <3>1. /\ status'[b] \in Verdicts /\ marked'[b] = marked[b]
          /\ Waiting(j, b) /\ ~Waiting(j, b)'
      BY <1>1, <2>2, JobStepsAddNone DEF Verdicts
    <3>2. marked'[b] = 0 /\ \A k \in Jobs : ~Waiting(k, b)'
      BY <1>0, <1>1, <3>1, JobStepsAddNone DEF Alone
    <3>3. status[b] \notin Verdicts
      BY <1>0, <3>1 DEF Final
    <3> QED
      BY <3>1, <3>2, <3>3 DEF Final
  <2> QED
    BY <2>1, <2>2
<1>2. ASSUME NEW c \in Blobs, BlobStep(c) PROVE Goal
  <2>1. ASSUME Enqueue(c), c # b PROVE \A j \in Jobs : Waiting(j, b)' => Waiting(j, b)
    BY <2>1 DEF Enqueue, Waiting, TypeOK
  <2>2. ASSUME Mark(c), UNCHANGED <<analysis, job>> PROVE Goal
    BY <1>0, <2>2 DEF Mark, Final, Verdicts, Waiting, TypeOK
  <2>3. CASE RecordCommitted(c)
    BY <2>2, <2>3 DEF RecordCommitted
  <2>4. CASE EnqueueMarked(c)
    <3>1. CASE c # b
      BY <1>0, <2>1, <2>4, <3>1 DEF EnqueueMarked, Final, TypeOK
    <3>2. CASE c = b
      BY <1>0, <2>4, <3>2 DEF EnqueueMarked, Final, TypeOK
    <3> QED
      BY <3>1, <3>2
  <2>5. CASE EnqueuerDies(c)
    BY <1>0, <2>5 DEF EnqueuerDies, Final, Waiting, TypeOK
  <2>6. CASE GracePeriodEnds(c) \/ Detach(c) \/ PurgeUnattached(c)
    BY <1>0, <2>6 DEF GracePeriodEnds, Detach, PurgeUnattached, Final, Waiting
  <2>7. CASE SweepLoads(c) \/ SweepDies(c)
    BY <1>0, <2>7 DEF SweepLoads, SweepDies, Final, Waiting
  <2>8. CASE SweepRescans(c)
    <3>1. c # b
      BY <1>0, <2>8 DEF SweepRescans, Alone
    <3> QED
      BY <1>0, <2>1, <2>8, <3>1 DEF SweepRescans, Final
  <2>9. CASE SweepMarks(c)
    <3>1. CASE Exists(c) /\ status[c] = "none"
      BY <2>2, <2>9, <3>1 DEF SweepMarks
    <3>2. CASE ~(Exists(c) /\ status[c] = "none")
      BY <1>0, <2>9, <3>2 DEF SweepMarks, Final, Waiting
    <3> QED
      BY <3>1, <3>2
  <2>10. CASE AnalysisLoads(c)
    BY <1>0, <2>10 DEF AnalysisLoads, Final, Waiting, TypeOK
  <2>11. CASE AnalysisWrites(c)
    <3>1. CASE c # b
      BY <1>0, <2>11, <3>1 DEF AnalysisWrites, Final, Waiting, TypeOK
    <3>2. CASE c = b
      <4>1. /\ analysis[b].at = "loaded" /\ analysis'[b].at = "done"
            /\ status'[b] \in {status[b], analysis[b].saw}
            /\ UNCHANGED <<marked, job>>
        BY <2>11, <3>2 DEF AnalysisWrites, TypeOK
      <4>2. status'[b] \in Verdicts => status[b] \in Verdicts
        BY <1>0, <4>1 DEF Final
      <4> QED
        BY <1>0, <4>1, <4>2 DEF Final, Waiting
    <3> QED
      BY <3>1, <3>2
  <2> QED
    BY <1>2, <2>3, <2>4, <2>5, <2>6, <2>7, <2>8, <2>9, <2>10, <2>11
    DEF BlobStep, SweepActs
<1>3. CASE UNCHANGED vars
  BY <1>0, <1>3 DEF vars, Final, Waiting
<1> QED
  BY <1>1, <1>2, <1>3 DEF Next

(***************************************************************************)
(* Disturbed or not, a verdict gives way to a verdict only: a file that    *)
(* has one is not marked, and a job that writes writes a verdict.          *)
(***************************************************************************)
LEMMA VerdictsGiveWayToVerdicts ==
  ASSUME TypeOK, [Next]_vars, NEW b \in Blobs, status[b] \in Verdicts,
         analysis'[b] = analysis[b]
  PROVE  status'[b] \in Verdicts
<1>1. ASSUME NEW j \in Jobs, JobStep(j) PROVE status'[b] \in Verdicts
  BY <1>1, JobStepsAddNone DEF Verdicts
<1>2. ASSUME NEW c \in Blobs, Mark(c) PROVE status'[b] = status[b]
  BY <1>2 DEF Mark, Verdicts, TypeOK
<1>3. ASSUME NEW c \in Blobs, BlobStep(c) PROVE status'[b] \in Verdicts
  <2>1. CASE AnalysisWrites(c)
    <3>1. c # b
      BY <2>1 DEF AnalysisWrites, TypeOK
    <3> QED
      BY <2>1, <3>1 DEF AnalysisWrites, TypeOK
  <2>2. CASE ~AnalysisWrites(c)
    BY <1>2, <1>3, <2>2
    DEF BlobStep, RecordCommitted, EnqueueMarked, EnqueuerDies, GracePeriodEnds,
        SweepLoads, SweepActs, SweepRescans, SweepMarks, SweepDies,
        AnalysisLoads, Detach, PurgeUnattached
  <2> QED
    BY <2>1, <2>2
<1>4. CASE UNCHANGED vars
  BY <1>4 DEF vars
<1> QED
  BY <1>1, <1>3, <1>4 DEF Next

(***************************************************************************)
(* VerdictStands: no save of the record, retry or sweep takes a verdict    *)
(* back, and where there can be no second scan none replaces it; for any   *)
(* number of files, jobs, attempts and hooks.                              *)
(***************************************************************************)
THEOREM FirstVerdictStands == Spec => VerdictStands
<1>1. Init => VerdictsFinal
  BY DEF Init, VerdictsFinal, Final, Verdicts
<1>2. TypeOK /\ MarkHolds /\ VerdictsFinal /\ [Next]_vars => VerdictsFinal'
  BY NextVerdictsFinal, DisturbedForGood DEF VerdictsFinal
<1>3. ASSUME TypeOK, MarkHolds, VerdictsFinal, [Next]_vars, NEW b \in Blobs,
             status[b] \in Verdicts, status'[b] # status[b], analysis'[b] = analysis[b]
      PROVE  status'[b] \in Verdicts /\ ~Undisturbed(b)
  BY <1>3, NextVerdictsFinal, VerdictsGiveWayToVerdicts
<1>4. TypeOK /\ MarkHolds /\ VerdictsFinal /\ [Next]_vars =>
        [\A b \in Blobs :
           status[b] \in Verdicts /\ status'[b] # status[b] =>
             \/ analysis'[b] # analysis[b]
             \/ status'[b] \in Verdicts /\ ~Undisturbed(b)]_vars
  BY <1>3
<1> QED
  BY <1>1, <1>2, <1>4, InitMarkHolds, NextMarkHolds, TypeCorrect, PTL
  DEF VerdictStands, Spec
=============================================================================
