--------------------------- MODULE FeedJobsPgProofs ---------------------------
(***************************************************************************)
(* Proofs about FeedJobsPg.  The inductive invariant Inv ties a run to the *)
(* locks it holds: while a run is between Lock and Project its job row is  *)
(* locked, so the lease it found is still its own (ProjectorLeases), and   *)
(* while it is at "commit" the repository is locked, so the version it     *)
(* compared with is still there (ComparedIsCurrent).                       *)
(***************************************************************************)
EXTENDS FeedJobsPg, TLAPS

\* A run that started is about a committed event.
Named ==
  \A x \in Executions : runs[x].at # "new" =>
    runs[x].event \in Events /\ version[runs[x].event] # 0

\* A transaction's now() is not in the future.
BeganBefore == \A x \in Executions : runs[x].began <= now

\* Open transactions share the control row, so nobody changed it.
GateHolds == \A x \in Executions : runs[x].at \in Open => writable

\* What a run applied is shown, or something newer is.
AppliedIsShown ==
  \A x \in Executions :
    /\ runs[x].at = "applied" =>
         evidence[RepoOf[runs[x].event]] >= version[runs[x].event]
    /\ runs[x].at = "complete" =>
         \/ evidence[RepoOf[runs[x].event]] >= version[runs[x].event]
         \/ Superseded(runs[x].event)

\* A job's attempts fit its status, and only committed events have jobs.
Counted ==
  \A e \in Events :
    /\ jobs[e].status = "absent" => jobs[e].attempts = 0
    /\ jobs[e].status = "leased" => jobs[e].attempts # 0
    /\ jobs[e].status = "completed" => version[e] # 0

\* Versions are handed out in order.
Ordered == \A e \in Events : version[e] <= counter

\* The advisory lock of a repository has one holder.
ReposExclusive ==
  \A x, y \in Executions :
    runs[x].at = "commit" /\ runs[y].at = "commit" /\ x # y =>
      RepoOf[runs[x].event] # RepoOf[runs[y].event]

Inv == /\ TypeOK /\ Named /\ BeganBefore /\ GateHolds /\ AppliedIsShown
       /\ Counted /\ Ordered /\ ProjectorLeases /\ ComparedIsCurrent
       /\ CompletedIsCovered /\ DeadAfterAllAttempts /\ ReposExclusive

-----------------------------------------------------------------------------
(* Rows. *)

LEMMA MovedRow ==
  ASSUME TypeOK, NEW x \in Executions, NEW s \in Step, Moved(x, s)
  PROVE  /\ runs' \in [Executions -> Run]
         /\ runs'[x].at = s /\ runs'[x].event = runs[x].event
         /\ runs'[x].began = runs[x].began /\ runs'[x].seen = runs[x].seen
         /\ \A y \in Executions : y # x => runs'[y] = runs[y]
<1>1. \E row \in Run : /\ runs' = [runs EXCEPT ![x] = row]
                       /\ row.at = s /\ row.event = runs[x].event
                       /\ row.began = runs[x].began /\ row.seen = runs[x].seen
  <2>. DEFINE row == [runs[x] EXCEPT !.at = s]
  <2>1. runs[x] \in Run
    BY DEF TypeOK
  <2>2. row \in Run /\ row.at = s /\ row.event = runs[x].event
        /\ row.began = runs[x].began /\ row.seen = runs[x].seen
    BY <2>1 DEF Run
  <2>3. runs' = [runs EXCEPT ![x] = row]
    BY DEF Moved
  <2>. QED BY <2>2, <2>3
<1>. QED BY <1>1 DEF TypeOK

LEMMA BeginRow ==
  ASSUME TypeOK, NEW x \in Executions, NEW s \in Step, Begin(x, s)
  PROVE  /\ runs' \in [Executions -> Run]
         /\ runs'[x].at = s /\ runs'[x].event = runs[x].event
         /\ runs'[x].began = now /\ runs'[x].seen = runs[x].seen
         /\ \A y \in Executions : y # x => runs'[y] = runs[y]
<1>1. \E row \in Run : /\ runs' = [runs EXCEPT ![x] = row]
                       /\ row.at = s /\ row.event = runs[x].event
                       /\ row.began = now /\ row.seen = runs[x].seen
  <2>. DEFINE row == [runs[x] EXCEPT !.at = s, !.began = now]
  <2>1. runs[x] \in Run /\ now \in Nat
    BY DEF TypeOK
  <2>2. row \in Run /\ row.at = s /\ row.event = runs[x].event
        /\ row.began = now /\ row.seen = runs[x].seen
    BY <2>1 DEF Run
  <2>3. runs' = [runs EXCEPT ![x] = row]
    BY DEF Begin
  <2>. QED BY <2>2, <2>3
<1>. QED BY <1>1 DEF TypeOK

\* The job a claim stores.
LEMMA ClaimedJob ==
  ASSUME NEW old \in Job, NEW x \in Executions, NEW t \in Nat, NEW job,
         job = Claimed(Inserted(old, t), x, t),
         old.status = "absent" => old.attempts = 0,
         old.status = "pending" => old.attempts < MaxAttempts,
         old.status = "dead_letter" => old.attempts = MaxAttempts,
         old.status = "leased" => old.attempts # 0
  PROVE  /\ job \in Job
         /\ job.status # "absent"
         /\ job.status = "completed" => old.status = "completed"
         /\ job.status = "pending" => job.attempts < MaxAttempts
         /\ job.status = "dead_letter" => job.attempts = MaxAttempts
         /\ job.status = "leased" => job.attempts # 0
         /\ old.status = "leased" /\ old.until > t => job = old
<1>. DEFINE in == Inserted(old, t)
<1>1. /\ in \in Job /\ in.status # "absent" /\ in.attempts = old.attempts
      /\ in.status = "pending" => in.attempts < MaxAttempts
      /\ in.status = "dead_letter" => in.attempts = MaxAttempts
      /\ in.status = "leased" => in.attempts # 0
      /\ in.status \in {"completed", "leased"} => in = old
      /\ in.status = "completed" => old.status = "completed"
      /\ old.status = "leased" => in = old
  BY JobsAssumption DEF JobsAssumption, Inserted, Job, Status
<1>. HIDE DEF in
<1>2. job = Claimed(in, x, t)
  BY DEF in
<1>3. CASE in.status = "completed" \/ Active(in, t)
  BY <1>1, <1>2, <1>3 DEF Claimed
<1>4. CASE ~(in.status = "completed" \/ Active(in, t))
  <2>1. ~(old.status = "leased" /\ old.until > t)
    BY <1>1, <1>4 DEF Active
  <2>2. CASE in.attempts >= MaxAttempts
    <3>1. job = Buried(in)
      BY <1>2, <1>4, <2>2 DEF Claimed
    <3>2. job \in Job /\ job.status = "dead_letter"
          /\ job.attempts = in.attempts
      BY <1>1, <3>1 DEF Buried, Job, Status
    <3>3. job.attempts = MaxAttempts
      BY <1>1, <2>2, <3>2, JobsAssumption DEF JobsAssumption, Job
    <3>. QED BY <2>1, <3>2, <3>3
  <2>3. CASE ~(in.attempts >= MaxAttempts) /\ in.available > t
    BY <1>1, <1>2, <1>4, <2>1, <2>3 DEF Claimed
  <2>4. CASE ~(in.attempts >= MaxAttempts) /\ ~(in.available > t)
    <3>1. job = LeasedTo(in, x, t)
      BY <1>2, <1>4, <2>4 DEF Claimed
    <3>2. in.attempts \in 0..MaxAttempts /\ in.available \in Nat
          /\ MaxAttempts \in Nat /\ Lease \in Nat
      BY <1>1, JobsAssumption DEF JobsAssumption, Job
    <3>3. in.attempts + 1 \in 0..MaxAttempts /\ in.attempts + 1 # 0
          /\ t + Lease \in Nat
      BY <2>4, <3>2
    <3>4. job \in Job /\ job.status = "leased" /\ job.attempts # 0
      BY <3>1, <3>2, <3>3 DEF LeasedTo, Job, Status
    <3>. QED BY <2>1, <3>4
  <2>. QED BY <2>2, <2>3, <2>4
<1>. QED BY <1>3, <1>4

\* The job a completion or a failure stores.
LEMMA FinishedJob ==
  ASSUME NEW old \in Job, NEW t \in Nat, old.attempts # 0
  PROVE  /\ Completed(old) \in Job /\ Completed(old).status = "completed"
         /\ Failed(old, t) \in Job
         /\ Failed(old, t).status \in {"pending", "dead_letter"}
         /\ Failed(old, t).status = "pending" =>
              Failed(old, t).attempts < MaxAttempts
         /\ Failed(old, t).status = "dead_letter" =>
              Failed(old, t).attempts = MaxAttempts
<1>1. old.attempts \in 1..MaxAttempts /\ MaxAttempts \in Nat
  BY JobsAssumption DEF JobsAssumption, Job
<1>2. t + Backoff[old.attempts] \in Nat
  BY <1>1, JobsAssumption DEF JobsAssumption
<1>. QED BY <1>1, <1>2 DEF Completed, Failed, Job, Status

-----------------------------------------------------------------------------
(* Steps that move one run and nothing else. *)

RunEffect(x) ==
  /\ runs' \in [Executions -> Run]
  /\ \A y \in Executions : y # x => runs'[y] = runs[y]
  /\ runs[x].at # "new"
  /\ runs'[x].at # "new" /\ runs'[x].at # "applied"
  /\ runs'[x].event = runs[x].event
  /\ runs'[x].began = runs[x].began \/ runs'[x].began = now
  /\ runs'[x].at \in Open => writable
  /\ runs'[x].at = "project" =>
       /\ jobs[runs[x].event].status = "leased"
       /\ jobs[runs[x].event].owner = x
  /\ runs'[x].at = "commit" =>
       /\ runs'[x].seen = evidence[RepoOf[runs[x].event]]
       /\ RepoFree(RepoOf[runs[x].event])
       /\ runs[x].at = "project"
  /\ runs'[x].at = "complete" =>
       \/ evidence[RepoOf[runs[x].event]] >= version[runs[x].event]
       \/ Superseded(runs[x].event)
  /\ UNCHANGED <<version, counter, now, writable, jobs, evidence>>

LEMMA ReadStep ==
  ASSUME Inv, NEW x \in Executions, Read(x)
  PROVE  RunEffect(x)
<1>. DEFINE next == IF Superseded(runs[x].event) THEN "complete" ELSE "apply"
<1>1. next \in {"complete", "apply"}
      /\ (next = "complete" => Superseded(runs[x].event))
  OBVIOUS
<1>. HIDE DEF next
<1>2. /\ runs[x].at = "read" /\ TypeOK
      /\ UNCHANGED <<version, counter, now, writable, jobs, evidence>>
      /\ \/ writable /\ Begin(x, next)
         \/ Moved(x, "failing")
         \/ Moved(x, "over")
  BY DEF Read, next, Inv, sourceVars
<1>3. CASE writable /\ Begin(x, next)
  BY <1>1, <1>2, <1>3, BeginRow DEF RunEffect, Step
<1>4. CASE Moved(x, "failing")
  BY <1>2, <1>4, MovedRow DEF RunEffect, Step, Open
<1>5. CASE Moved(x, "over")
  BY <1>2, <1>5, MovedRow DEF RunEffect, Step, Open
<1>. QED BY <1>2, <1>3, <1>4, <1>5

LEMMA AppliedStep ==
  ASSUME Inv, NEW x \in Executions, Applied(x)
  PROVE  RunEffect(x)
<1>1. /\ runs[x].at = "applied" /\ TypeOK
      /\ UNCHANGED <<version, counter, now, writable, jobs, evidence>>
      /\ evidence[RepoOf[runs[x].event]] >= version[runs[x].event]
  BY DEF Applied, Inv, sourceVars, AppliedIsShown
<1>2. CASE writable /\ Begin(x, "complete")
  BY <1>1, <1>2, BeginRow DEF RunEffect, Step
<1>3. CASE Moved(x, "over")
  BY <1>1, <1>3, MovedRow DEF RunEffect, Step, Open
<1>. QED BY <1>2, <1>3 DEF Applied

LEMMA FailingStep ==
  ASSUME Inv, NEW x \in Executions, Failing(x)
  PROVE  RunEffect(x)
<1>1. /\ runs[x].at = "failing" /\ TypeOK
      /\ UNCHANGED <<version, counter, now, writable, jobs, evidence>>
  BY DEF Failing, Inv, sourceVars
<1>2. CASE writable /\ Begin(x, "fail")
  BY <1>1, <1>2, BeginRow DEF RunEffect, Step
<1>3. CASE Moved(x, "over")
  BY <1>1, <1>3, MovedRow DEF RunEffect, Step, Open
<1>. QED BY <1>2, <1>3 DEF Failing

LEMMA VanishStep ==
  ASSUME Inv, NEW x \in Executions, Vanish(x)
  PROVE  RunEffect(x)
<1>1. /\ runs[x].at # "new" /\ TypeOK /\ Moved(x, "over")
      /\ UNCHANGED <<version, counter, now, writable, jobs, evidence>>
  BY DEF Vanish, Inv, sourceVars
<1>. QED BY <1>1, MovedRow DEF RunEffect, Step, Open

LEMMA LockStep ==
  ASSUME Inv, NEW x \in Executions, Lock(x)
  PROVE  RunEffect(x)
<1>1. /\ runs[x].at = "apply" /\ TypeOK /\ writable
      /\ UNCHANGED <<version, counter, now, writable, jobs, evidence>>
  BY DEF Lock, Inv, sourceVars, GateHolds, Open
<1>2. CASE Leases(x) /\ Moved(x, "project")
  BY <1>1, <1>2, MovedRow DEF RunEffect, Step, Open, Leases
<1>3. CASE Moved(x, "failing")
  BY <1>1, <1>3, MovedRow DEF RunEffect, Step, Open
<1>. QED BY <1>2, <1>3 DEF Lock

LEMMA CompareStep ==
  ASSUME Inv, NEW x \in Executions, Compare(x)
  PROVE  RunEffect(x)
<1>. DEFINE k == RepoOf[runs[x].event]
<1>1. /\ runs[x].at = "project" /\ TypeOK /\ writable /\ RepoFree(k)
      /\ runs[x].event \in Events
      /\ UNCHANGED <<version, counter, now, writable, jobs, evidence>>
  BY DEF Compare, Inv, sourceVars, GateHolds, Open, Named
<1>2. runs[x] \in Run /\ evidence[k] \in Nat
  BY <1>1, JobsAssumption DEF TypeOK, JobsAssumption
<1>3. \E row \in Run : /\ runs' = [runs EXCEPT ![x] = row]
                       /\ row.at = "commit" /\ row.event = runs[x].event
                       /\ row.began = runs[x].began
                       /\ row.seen = evidence[k]
  <2>. DEFINE row == [runs[x] EXCEPT !.at = "commit", !.seen = evidence[k]]
  <2>1. row \in Run /\ row.at = "commit" /\ row.event = runs[x].event
        /\ row.began = runs[x].began /\ row.seen = evidence[k]
    BY <1>2 DEF Run, Step
  <2>2. runs' = [runs EXCEPT ![x] = row]
    BY DEF Compare
  <2>. QED BY <2>1, <2>2
<1>. QED BY <1>1, <1>3 DEF RunEffect, TypeOK

LEMMA RunEffectKeepsInv ==
  ASSUME Inv, NEW x \in Executions, RunEffect(x)
  PROVE  Inv'
<1>. USE DEF Inv, RunEffect
<1>1. TypeOK'
  BY DEF TypeOK
<1>2. Named'
  BY DEF Named
<1>3. BeganBefore'
  BY DEF BeganBefore, TypeOK
<1>4. GateHolds'
  BY DEF GateHolds
<1>5. AppliedIsShown'
  BY DEF AppliedIsShown, Superseded
<1>6. Counted' /\ Ordered' /\ DeadAfterAllAttempts'
  BY DEF Counted, Ordered, DeadAfterAllAttempts
<1>7. ProjectorLeases'
  BY DEF ProjectorLeases
<1>8. ComparedIsCurrent'
  BY DEF ComparedIsCurrent
<1>9. CompletedIsCovered'
  BY DEF CompletedIsCovered, Superseded
<1>10. ReposExclusive'
  BY DEF ReposExclusive, RepoFree
<1>. QED BY <1>1, <1>2, <1>3, <1>4, <1>5, <1>6, <1>7, <1>8, <1>9, <1>10

-----------------------------------------------------------------------------
(* The other steps. *)

LEMMA CommitKeepsInv ==
  ASSUME Inv, NEW e \in Events, Commit(e)
  PROVE  Inv'
<1>. USE DEF Inv, Commit
<1>1. /\ version[e] = 0 /\ counter \in Nat /\ version \in [Events -> Nat]
      /\ version' = [version EXCEPT ![e] = counter + 1]
      /\ counter' = counter + 1
      /\ UNCHANGED <<now, writable, jobs, runs, evidence>>
  BY DEF TypeOK
<1>2. version' \in [Events -> Nat] /\ version'[e] = counter + 1
      /\ \A n \in Events : n # e => version'[n] = version[n]
  BY <1>1
<1>3. TypeOK'
  BY <1>1, <1>2 DEF TypeOK
<1>4. \A n \in Events : version[n] # 0 => version'[n] = version[n]
  BY <1>1, <1>2
<1>5. Named'
  BY <1>1, <1>4 DEF Named
<1>6. \A n \in Events : version[n] # 0 /\ Superseded(n) => Superseded(n)'
  <2>1. SUFFICES ASSUME NEW n \in Events, version[n] # 0, Superseded(n)
                 PROVE  Superseded(n)'
    OBVIOUS
  <2>2. PICK m \in Events : RepoOf[m] = RepoOf[n] /\ version[m] > version[n]
    BY <2>1 DEF Superseded
  <2>3. version[m] # 0 /\ version'[m] = version[m] /\ version'[n] = version[n]
    BY <1>1, <1>4, <2>1, <2>2
  <2>. QED BY <2>2, <2>3 DEF Superseded
<1>7. AppliedIsShown'
  BY <1>1, <1>4, <1>6 DEF AppliedIsShown, Named
<1>8. CompletedIsCovered'
  BY <1>1, <1>4, <1>6 DEF CompletedIsCovered, Counted
<1>9. Counted' /\ DeadAfterAllAttempts'
  BY <1>1, <1>4 DEF Counted, DeadAfterAllAttempts
<1>10. Ordered'
  BY <1>1, <1>2 DEF Ordered
<1>11. BeganBefore' /\ GateHolds' /\ ProjectorLeases' /\ ComparedIsCurrent'
       /\ ReposExclusive'
  BY <1>1 DEF BeganBefore, GateHolds, ProjectorLeases, ComparedIsCurrent,
              ReposExclusive
<1>. QED BY <1>3, <1>5, <1>7, <1>8, <1>9, <1>10, <1>11

LEMMA TickKeepsInv ==
  ASSUME Inv, Tick
  PROVE  Inv'
<1>. USE DEF Inv, Tick, sourceVars
<1>1. TypeOK' /\ BeganBefore'
  BY DEF TypeOK, BeganBefore, Run
<1>2. Named' /\ Ordered' /\ Counted' /\ DeadAfterAllAttempts'
  BY DEF Named, Ordered, Counted, DeadAfterAllAttempts
<1>3. AppliedIsShown' /\ CompletedIsCovered'
  BY DEF AppliedIsShown, CompletedIsCovered, Superseded
<1>4. GateHolds' /\ ProjectorLeases' /\ ComparedIsCurrent' /\ ReposExclusive'
  BY DEF GateHolds, ProjectorLeases, ComparedIsCurrent, ReposExclusive
<1>. QED BY <1>1, <1>2, <1>3, <1>4

LEMMA ControlKeepsInv ==
  ASSUME Inv, Control
  PROVE  Inv'
<1>. USE DEF Inv, Control, sourceVars
<1>1. TypeOK' /\ BeganBefore'
  BY DEF TypeOK, BeganBefore
<1>2. Named' /\ Ordered' /\ Counted' /\ DeadAfterAllAttempts'
  BY DEF Named, Ordered, Counted, DeadAfterAllAttempts
<1>3. AppliedIsShown' /\ CompletedIsCovered'
  BY DEF AppliedIsShown, CompletedIsCovered, Superseded
<1>4. GateHolds' /\ ProjectorLeases' /\ ComparedIsCurrent' /\ ReposExclusive'
  BY DEF GateHolds, ProjectorLeases, ComparedIsCurrent, ReposExclusive
<1>. QED BY <1>1, <1>2, <1>3, <1>4

LEMMA StartKeepsInv ==
  ASSUME Inv, NEW x \in Executions, NEW e \in Events, Start(x, e)
  PROVE  Inv'
<1>. USE DEF Inv
<1>. DEFINE row == [at |-> IF writable THEN "claim" ELSE "over", event |-> e,
                    began |-> now, seen |-> 0]
<1>1. /\ row \in Run /\ row.at \in {"claim", "over"} /\ row.event = e
      /\ row.began = now
      /\ row.at \in Open => writable
  BY DEF TypeOK, Run, Step, Open
<1>2. runs' = [runs EXCEPT ![x] = row] /\ version[e] # 0
      /\ UNCHANGED <<version, counter, now, writable, jobs, evidence>>
  BY DEF Start, sourceVars
<1>. HIDE DEF row
<1>3. runs' \in [Executions -> Run] /\ runs'[x] = row
      /\ \A y \in Executions : y # x => runs'[y] = runs[y]
  BY <1>1, <1>2 DEF TypeOK
<1>4. TypeOK' /\ BeganBefore' /\ GateHolds'
  BY <1>1, <1>2, <1>3 DEF TypeOK, BeganBefore, GateHolds
<1>5. Named' /\ Ordered' /\ Counted' /\ DeadAfterAllAttempts'
  BY <1>1, <1>2, <1>3 DEF Named, Ordered, Counted, DeadAfterAllAttempts
<1>6. AppliedIsShown' /\ CompletedIsCovered'
  BY <1>1, <1>2, <1>3 DEF AppliedIsShown, CompletedIsCovered, Superseded
<1>7. ProjectorLeases' /\ ComparedIsCurrent' /\ ReposExclusive'
  BY <1>1, <1>2, <1>3 DEF ProjectorLeases, ComparedIsCurrent, ReposExclusive
<1>. QED BY <1>4, <1>5, <1>6, <1>7

\* A transaction that rewrites one job whose row nobody has locked, and moves
\* its run to `s`.
JobEffect(x, s, job) ==
  /\ jobs' = [jobs EXCEPT ![runs[x].event] = job]
  /\ RowFree(runs[x].event)
  /\ runs[x].at # "new"
  /\ Moved(x, s)
  /\ UNCHANGED <<version, counter, now, writable, evidence>>

LEMMA JobEffectKeepsInv ==
  ASSUME Inv, NEW x \in Executions, NEW s \in {"read", "over"}, NEW job \in Job,
         JobEffect(x, s, job),
         job.status = "absent" => job.attempts = 0,
         job.status = "leased" => job.attempts # 0,
         job.status = "pending" => job.attempts < MaxAttempts,
         job.status = "dead_letter" => job.attempts = MaxAttempts,
         job.status = "completed" =>
           \/ evidence[RepoOf[runs[x].event]] >= version[runs[x].event]
           \/ Superseded(runs[x].event)
  PROVE  Inv'
<1>. USE DEF Inv, JobEffect
<1>. DEFINE e == runs[x].event
<1>1. e \in Events /\ version[e] # 0
  BY DEF Named
<1>2. jobs' \in [Events -> Job] /\ jobs'[e] = job
      /\ \A n \in Events : n # e => jobs'[n] = jobs[n]
  BY <1>1 DEF TypeOK
<1>3. /\ runs' \in [Executions -> Run]
      /\ runs'[x].at = s /\ runs'[x].event = runs[x].event
      /\ runs'[x].began = runs[x].began
      /\ \A y \in Executions : y # x => runs'[y] = runs[y]
  BY MovedRow DEF Step
<1>4. TypeOK' /\ BeganBefore' /\ GateHolds'
  BY <1>2, <1>3 DEF TypeOK, BeganBefore, GateHolds, Open
<1>5. Named' /\ Ordered'
  BY <1>3 DEF Named, Ordered
<1>6. Counted' /\ DeadAfterAllAttempts'
  BY <1>1, <1>2 DEF Counted, DeadAfterAllAttempts
<1>7. AppliedIsShown'
  BY <1>3 DEF AppliedIsShown, Superseded
<1>8. CompletedIsCovered'
  BY <1>2 DEF CompletedIsCovered, Superseded
<1>9. ProjectorLeases'
  BY <1>2, <1>3 DEF ProjectorLeases, RowFree, Named
<1>10. ComparedIsCurrent' /\ ReposExclusive'
  BY <1>3 DEF ComparedIsCurrent, ReposExclusive
<1>. QED BY <1>4, <1>5, <1>6, <1>7, <1>8, <1>9, <1>10

LEMMA ClaimKeepsInv ==
  ASSUME Inv, NEW x \in Executions, Claim(x)
  PROVE  Inv'
<1>. USE DEF Inv
<1>. DEFINE e == runs[x].event
            t == runs[x].began
            job == Claimed(Inserted(jobs[e], t), x, t)
            s == IF job.owner = x THEN "read" ELSE "over"
<1>1. e \in Events /\ jobs[e] \in Job /\ t \in Nat
  BY DEF Claim, Named, TypeOK, Run
<1>2. /\ job \in Job /\ job.status # "absent"
      /\ job.status = "completed" => jobs[e].status = "completed"
      /\ job.status = "pending" => job.attempts < MaxAttempts
      /\ job.status = "dead_letter" => job.attempts = MaxAttempts
      /\ job.status = "leased" => job.attempts # 0
  BY <1>1, ClaimedJob DEF Counted, DeadAfterAllAttempts
<1>3. s \in {"read", "over"}
  OBVIOUS
<1>4. JobEffect(x, s, job)
  BY DEF Claim, JobEffect, sourceVars
<1>5. job.status = "completed" =>
        evidence[RepoOf[e]] >= version[e] \/ Superseded(e)
  BY <1>1, <1>2 DEF CompletedIsCovered
<1>. HIDE DEF e, job, s
<1>6. e = runs[x].event
  BY DEF e
<1>. QED BY <1>2, <1>3, <1>4, <1>5, <1>6, JobEffectKeepsInv

LEMMA FinishKeepsInv ==
  ASSUME Inv, NEW x \in Executions, Finish(x)
  PROVE  Inv'
<1>. USE DEF Inv
<1>. DEFINE e == runs[x].event
            t == runs[x].began
            done == runs[x].at = "complete"
<1>1. /\ e \in Events /\ jobs[e] \in Job /\ t \in Nat
      /\ jobs \in [Events -> Job]
  BY DEF Finish, Named, TypeOK, Run
<1>2. done => evidence[RepoOf[e]] >= version[e] \/ Superseded(e)
  BY DEF AppliedIsShown
<1>3. CASE ~Leases(x)
  <2>1. JobEffect(x, "over", jobs[e])
    BY <1>1, <1>3 DEF Finish, JobEffect, sourceVars
  <2>. QED BY <1>1, <2>1, JobEffectKeepsInv
             DEF Counted, DeadAfterAllAttempts, CompletedIsCovered
<1>4. CASE Leases(x)
  <2>1. jobs[e].attempts # 0
    BY <1>1, <1>4 DEF Leases, Counted
  <2>2. CASE done
    <3>1. JobEffect(x, "over", Completed(jobs[e]))
      BY <1>1, <1>4, <2>2 DEF Finish, JobEffect, sourceVars
    <3>. QED BY <1>1, <1>2, <2>1, <2>2, <3>1, FinishedJob, JobEffectKeepsInv
  <2>3. CASE ~done
    <3>1. JobEffect(x, "over", Failed(jobs[e], t))
      BY <1>1, <1>4, <2>3 DEF Finish, JobEffect, sourceVars
    <3>. QED BY <1>1, <2>1, <3>1, FinishedJob, JobEffectKeepsInv
  <2>. QED BY <2>2, <2>3
<1>. QED BY <1>3, <1>4

\* What an apply leaves of the repository's version.
LEMMA ProjectEffect ==
  ASSUME Inv, NEW x \in Executions, Project(x)
  PROVE  LET k == RepoOf[runs[x].event] IN
         /\ runs[x].event \in Events /\ k \in Repos
         /\ \E s \in {"applied", "failing"} :
              /\ Moved(x, s)
              /\ s = "applied" => evidence'[k] >= version[runs[x].event]
         /\ \/ evidence' = evidence
            \/ /\ evidence' = [evidence EXCEPT ![k] = version[runs[x].event]]
               /\ version[runs[x].event] > evidence[k]
         /\ UNCHANGED <<version, counter, now, writable, jobs>>
<1>. DEFINE k == RepoOf[runs[x].event]
            v == version[runs[x].event]
<1>1. /\ runs[x].event \in Events /\ k \in Repos /\ v \in Nat
      /\ evidence \in [Repos -> Nat] /\ runs[x].seen = evidence[k]
      /\ UNCHANGED <<version, counter, now, writable, jobs>>
  BY JobsAssumption DEF Project, Inv, Named, TypeOK, JobsAssumption,
                        ComparedIsCurrent, sourceVars
<1>2. CASE UNCHANGED evidence /\ Moved(x, "failing")
  BY <1>1, <1>2
<1>3. CASE /\ evidence' = IF runs[x].seen >= v THEN evidence
                          ELSE [evidence EXCEPT ![k] = v]
           /\ \E s \in {"applied", "failing"} : Moved(x, s)
  <2>1. /\ evidence'[k] >= v
        /\ \/ evidence' = evidence
           \/ evidence' = [evidence EXCEPT ![k] = v] /\ v > evidence[k]
    BY <1>1, <1>3
  <2>. QED BY <1>1, <1>3, <2>1
<1>. QED BY <1>2, <1>3 DEF Project

LEMMA ProjectKeepsInv ==
  ASSUME Inv, NEW x \in Executions, Project(x)
  PROVE  Inv'
<1>. USE DEF Inv
<1>. DEFINE k == RepoOf[runs[x].event]
<1>1. PICK s \in {"applied", "failing"} :
        /\ Moved(x, s)
        /\ s = "applied" => evidence'[k] >= version[runs[x].event]
  BY ProjectEffect
<1>2. /\ runs[x].event \in Events /\ k \in Repos
      /\ UNCHANGED <<version, counter, now, writable, jobs>>
      /\ runs[x].at = "commit"
  BY ProjectEffect DEF Project
<1>3. /\ evidence' \in [Repos -> Nat]
      /\ \A r \in Repos : evidence'[r] >= evidence[r]
      /\ \A r \in Repos : r # k => evidence'[r] = evidence[r]
  BY <1>2, ProjectEffect DEF TypeOK
<1>4. /\ runs' \in [Executions -> Run]
      /\ runs'[x].at = s /\ runs'[x].event = runs[x].event
      /\ runs'[x].began = runs[x].began
      /\ \A y \in Executions : y # x => runs'[y] = runs[y]
  BY <1>1, MovedRow DEF Step
<1>5. \A e \in Events : RepoOf[e] \in Repos /\ version[e] \in Nat
  BY JobsAssumption DEF JobsAssumption, TypeOK
<1>6. TypeOK' /\ BeganBefore' /\ GateHolds'
  BY <1>2, <1>3, <1>4 DEF TypeOK, BeganBefore, GateHolds, Open
<1>7. Named' /\ Ordered' /\ Counted' /\ DeadAfterAllAttempts'
  BY <1>2, <1>4 DEF Named, Ordered, Counted, DeadAfterAllAttempts
<1>8. AppliedIsShown'
  <2>1. SUFFICES ASSUME NEW y \in Executions
                 PROVE  /\ runs'[y].at = "applied" =>
                             evidence'[RepoOf[runs'[y].event]]
                               >= version[runs'[y].event]
                        /\ runs'[y].at = "complete" =>
                             \/ evidence'[RepoOf[runs'[y].event]]
                                  >= version[runs'[y].event]
                             \/ Superseded(runs'[y].event)
    BY <1>2 DEF AppliedIsShown, Superseded
  <2>2. CASE y = x
    BY <1>1, <1>4, <2>2
  <2>3. CASE y # x
    BY <1>3, <1>4, <1>5, <2>3 DEF AppliedIsShown, Named, TypeOK
  <2>. QED BY <2>2, <2>3
<1>9. CompletedIsCovered'
  BY <1>2, <1>3, <1>5 DEF CompletedIsCovered, Superseded, TypeOK
<1>10. ProjectorLeases' /\ ReposExclusive'
  BY <1>2, <1>4 DEF ProjectorLeases, ReposExclusive
<1>11. ComparedIsCurrent'
  BY <1>2, <1>3, <1>4, <1>5 DEF ComparedIsCurrent, ReposExclusive, Named
<1>. QED BY <1>6, <1>7, <1>8, <1>9, <1>10, <1>11

-----------------------------------------------------------------------------
(* The invariant and its consequences. *)

LEMMA InitInv == Init => Inv
<1>. SUFFICES ASSUME Init PROVE Inv
  OBVIOUS
<1>. USE JobsAssumption DEF Init, JobsAssumption, NoJob, NewRun
<1>1. TypeOK
  BY DEF TypeOK, Job, Status, Run, Step
<1>2. /\ Named /\ BeganBefore /\ GateHolds /\ AppliedIsShown /\ Counted
      /\ Ordered /\ ProjectorLeases /\ ComparedIsCurrent
      /\ CompletedIsCovered /\ DeadAfterAllAttempts /\ ReposExclusive
  BY DEF Named, BeganBefore, GateHolds, AppliedIsShown, Counted, Ordered,
         ProjectorLeases, ComparedIsCurrent, CompletedIsCovered,
         DeadAfterAllAttempts, ReposExclusive, Open
<1>. QED BY <1>1, <1>2 DEF Inv

\* A step of one execution.
ExecutionStep(x) ==
  \/ \E e \in Events : Start(x, e)
  \/ Claim(x) \/ Read(x) \/ Lock(x) \/ Compare(x) \/ Project(x)
  \/ Applied(x) \/ Failing(x) \/ Finish(x) \/ Vanish(x)

LEMMA RunEffects ==
  ASSUME Inv, NEW x \in Executions,
         Read(x) \/ Lock(x) \/ Compare(x) \/ Applied(x) \/ Failing(x)
           \/ Vanish(x)
  PROVE  RunEffect(x)
BY ReadStep, LockStep, CompareStep, AppliedStep, FailingStep, VanishStep

LEMMA NextInv == Inv /\ [Next]_vars => Inv'
<1>. SUFFICES ASSUME Inv, [Next]_vars PROVE Inv'
  OBVIOUS
<1>1. CASE UNCHANGED vars
  BY <1>1 DEF Inv, vars, sourceVars, TypeOK, Named, BeganBefore, GateHolds,
              AppliedIsShown, Counted, Ordered, ProjectorLeases, Superseded,
              ComparedIsCurrent, CompletedIsCovered, DeadAfterAllAttempts,
              ReposExclusive
<1>2. CASE \E e \in Events : Commit(e)
  BY <1>2, CommitKeepsInv
<1>3. CASE Tick
  BY <1>3, TickKeepsInv
<1>4. CASE Control
  BY <1>4, ControlKeepsInv
<1>5. ASSUME NEW x \in Executions, ExecutionStep(x)
      PROVE  Inv'
  <2>1. CASE \E e \in Events : Start(x, e)
    BY <2>1, StartKeepsInv
  <2>2. CASE Claim(x)
    BY <2>2, ClaimKeepsInv
  <2>3. CASE Project(x)
    BY <2>3, ProjectKeepsInv
  <2>4. CASE Finish(x)
    BY <2>4, FinishKeepsInv
  <2>5. CASE Read(x) \/ Lock(x) \/ Compare(x) \/ Applied(x) \/ Failing(x)
              \/ Vanish(x)
    BY <2>5, RunEffects, RunEffectKeepsInv
  <2>. QED BY <1>5, <2>1, <2>2, <2>3, <2>4, <2>5 DEF ExecutionStep
<1>. QED BY <1>1, <1>2, <1>3, <1>4, <1>5 DEF Next, ExecutionStep

THEOREM InvHolds == Spec => []Inv
BY InitInv, NextInv, PTL DEF Spec

\* Every variable keeps its type.
THEOREM TypesHold == Spec => []TypeOK
<1>1. Inv => TypeOK
  BY DEF Inv
<1>. QED BY <1>1, InvHolds, PTL

\* Between its lock and its commit, an apply owns the lease of its job, however
\* long ago that lease ran out.
THEOREM ProjectorLeasesHolds == Spec => []ProjectorLeases
<1>1. Inv => ProjectorLeases
  BY DEF Inv
<1>. QED BY <1>1, InvHolds, PTL

\* Between an apply's comparison and its commit nobody changes the version.
THEOREM ComparedIsCurrentHolds == Spec => []ComparedIsCurrent
<1>1. Inv => ComparedIsCurrent
  BY DEF Inv
<1>. QED BY <1>1, InvHolds, PTL

\* A completed event is shown, or superseded.
THEOREM CompletedIsCoveredHolds == Spec => []CompletedIsCovered
<1>1. Inv => CompletedIsCovered
  BY DEF Inv
<1>. QED BY <1>1, InvHolds, PTL

\* A dead letter used all its attempts, and a waiting job has some left.
THEOREM DeadAfterAllAttemptsHolds == Spec => []DeadAfterAllAttempts
<1>1. Inv => DeadAfterAllAttempts
  BY DEF Inv
<1>. QED BY <1>1, InvHolds, PTL

\* What a step does to the tables.
LEMMA Effects ==
  ASSUME Inv, [Next]_vars
  PROVE  \/ UNCHANGED <<jobs, evidence>>
         \/ \E x \in Executions : \/ Claim(x) \/ Finish(x) \/ Project(x)
<1>1. ASSUME NEW x \in Executions, ExecutionStep(x)
      PROVE  \/ UNCHANGED <<jobs, evidence>>
             \/ Claim(x) \/ Finish(x) \/ Project(x)
  BY <1>1, RunEffects DEF ExecutionStep, Start, RunEffect
<1>2. CASE UNCHANGED vars
  BY <1>2 DEF vars
<1>3. CASE (\E e \in Events : Commit(e)) \/ Tick \/ Control
  BY <1>3 DEF Commit, Tick, Control
<1>. QED BY <1>1, <1>2, <1>3 DEF Next, ExecutionStep

\* Behind a closed gate nothing of this writer commits any more.
THEOREM NothingAfterTheGateHolds == Spec => NothingAfterTheGate
<1>1. ASSUME Inv, [Next]_vars, ~writable
      PROVE  UNCHANGED <<jobs, evidence>>
  BY <1>1, Effects DEF Claim, Finish, Project, Inv, GateHolds, Open
<1>2. Inv /\ [Next]_vars => [~writable => UNCHANGED <<jobs, evidence>>]_vars
  BY <1>1
<1>. QED BY <1>2, InvHolds, PTL DEF Spec, NothingAfterTheGate

\* Nobody but its owner touches a job while its lease runs.
THEOREM LeaseIsHonouredHolds == Spec => LeaseIsHonoured
<1>. DEFINE Kept(e) ==
       jobs[e].status = "leased" /\ jobs[e].until > now =>
         \/ jobs'[e] = jobs[e]
         \/ \E x \in Executions :
              jobs[e].owner = x /\ runs[x].at \in {"complete", "fail"}
                /\ runs'[x].at = "over"
<1>1. ASSUME Inv, [Next]_vars, NEW e \in Events
      PROVE  Kept(e)
  <2>1. CASE UNCHANGED <<jobs, evidence>>
    BY <2>1
  <2>2. ASSUME NEW x \in Executions, Claim(x)
        PROVE  Kept(e)
    <3>. DEFINE job == Claimed(Inserted(jobs[runs[x].event], runs[x].began), x,
                               runs[x].began)
    <3>1. /\ jobs' = [jobs EXCEPT ![runs[x].event] = job]
          /\ jobs \in [Events -> Job] /\ runs[x].began \in Nat /\ now \in Nat
          /\ runs[x].began <= now
      BY <1>1, <2>2 DEF Claim, Inv, TypeOK, Run, BeganBefore
    <3>2. CASE e # runs[x].event
      BY <3>1, <3>2
    <3>3. CASE e = runs[x].event
      <4>1. SUFFICES ASSUME jobs[e].status = "leased", jobs[e].until > now
                     PROVE  jobs'[e] = jobs[e]
        OBVIOUS
      <4>2. jobs[e] \in Job /\ jobs[e].until \in Nat
            /\ jobs[e].until > runs[x].began
        BY <3>1, <4>1 DEF Job
      <4>3. job = jobs[e]
        BY <1>1, <3>1, <3>3, <4>1, <4>2, ClaimedJob
           DEF Inv, Counted, DeadAfterAllAttempts
      <4>. QED BY <3>1, <3>3, <4>3
    <3>. QED BY <3>2, <3>3
  <2>3. ASSUME NEW x \in Executions, Finish(x)
        PROVE  Kept(e)
    <3>1. runs'[x].at = "over" /\ jobs \in [Events -> Job]
      BY <1>1, <2>3, MovedRow DEF Finish, Inv, TypeOK, Step
    <3>. QED BY <2>3, <3>1 DEF Finish, Leases
  <2>4. ASSUME NEW x \in Executions, Project(x)
        PROVE  Kept(e)
    BY <2>4 DEF Project
  <2>. QED BY <1>1, <2>1, <2>2, <2>3, <2>4, Effects
<1>2. Inv /\ [Next]_vars => [\A e \in Events : Kept(e)]_vars
  BY <1>1
<1>. QED BY <1>2, InvHolds, PTL DEF Spec, LeaseIsHonoured

-----------------------------------------------------------------------------
(* Refinement of ProjectedVersions. *)

LEMMA CommitLearns ==
  ASSUME Inv, NEW e \in Events, Commit(e)
  PROVE  Shown!Learn
<1>. DEFINE p == <<RepoOf[e], counter + 1>>
<1>1. /\ version[e] = 0 /\ counter \in Nat /\ version \in [Events -> Nat]
      /\ version' = [version EXCEPT ![e] = counter + 1]
      /\ RepoOf[e] \in Repos /\ evidence' = evidence
  BY JobsAssumption DEF Commit, Inv, TypeOK, JobsAssumption
<1>2. version'[e] = counter + 1
      /\ \A n \in Events : n # e => version'[n] = version[n]
  BY <1>1
<1>3. CommittedVersions' = CommittedVersions \cup {p}
  BY <1>1, <1>2 DEF CommittedVersions
<1>4. p \in CommittedVersions' \cap (Repos \X Nat)
  BY <1>1, <1>3
<1>5. \A q \in CommittedVersions : p[2] > q[2]
  BY <1>1 DEF CommittedVersions, Inv, Ordered, TypeOK
<1>. QED BY <1>1, <1>3, <1>4, <1>5 DEF Shown!Learn

LEMMA ProjectShows ==
  ASSUME Inv, NEW x \in Executions, Project(x)
  PROVE  Shown!Show \/ UNCHANGED <<CommittedVersions, evidence>>
<1>. DEFINE p == <<RepoOf[runs[x].event], version[runs[x].event]>>
<1>1. CommittedVersions' = CommittedVersions
  BY ProjectEffect DEF CommittedVersions
<1>2. p \in CommittedVersions
  BY DEF Project, CommittedVersions, Inv, Named
<1>3. \/ evidence' = evidence
      \/ p[2] > evidence[p[1]] /\ evidence' = [evidence EXCEPT ![p[1]] = p[2]]
  BY ProjectEffect
<1>. QED BY <1>1, <1>2, <1>3 DEF Shown!Show

\* The PostgreSQL store implements ProjectedVersions: whatever is executed
\* twice, late or out of order, a repository's version only ever advances.
THEOREM EvidenceAdvancesHolds == Spec => EvidenceAdvances
<1>1. Init => Shown!Init
  BY DEF Init, Shown!Init, CommittedVersions
<1>2. Inv /\ [Next]_vars => [Shown!Next]_<<CommittedVersions, evidence>>
  <2>1. SUFFICES ASSUME Inv, [Next]_vars
                 PROVE  [Shown!Next]_<<CommittedVersions, evidence>>
    OBVIOUS
  <2>2. CASE \E e \in Events : Commit(e)
    BY <2>1, <2>2, CommitLearns DEF Shown!Next
  <2>3. CASE \E x \in Executions : Project(x)
    BY <2>1, <2>3, ProjectShows DEF Shown!Next
  <2>4. ASSUME UNCHANGED <<version, evidence>>
        PROVE  [Shown!Next]_<<CommittedVersions, evidence>>
    BY <2>4 DEF CommittedVersions
  <2>5. CASE UNCHANGED vars \/ Tick \/ Control
    BY <2>4, <2>5 DEF vars, sourceVars, Tick, Control
  <2>6. ASSUME NEW x \in Executions, ExecutionStep(x), ~Project(x)
        PROVE  UNCHANGED <<version, evidence>>
    BY <2>1, <2>6, RunEffects
       DEF ExecutionStep, RunEffect, Start, Claim, Finish, sourceVars
  <2>. QED BY <2>1, <2>2, <2>3, <2>4, <2>5, <2>6 DEF Next, ExecutionStep
<1>. QED BY <1>1, <1>2, InvHolds, PTL DEF Spec, EvidenceAdvances, Shown!Spec
=============================================================================
