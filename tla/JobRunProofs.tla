---------------------------- MODULE JobRunProofs ----------------------------
(***************************************************************************)
(* Proofs about JobRun, for any number of steps, attempts and runs, when   *)
(* one session runs the job: Runners = {r}.  The assumption is needed; the *)
(* run v_job_two_turns shows what two sessions do to the file.             *)
(***************************************************************************)
EXTENDS JobRun, TLAPS

-----------------------------------------------------------------------------
(* The inductive invariant: what a job file always satisfies, and what the *)
(* state of a turn satisfies at each place of its loop.                    *)

\* Coverage says of a step what its mark says (CoverageHonest for any job).
Honest(job) == \A s \in Steps :
    /\ job.cover[s] = "fait" <=> job.mark[s] = "done"
    /\ job.cover[s] = "non fait" => job.mark[s] = "failed" /\ job.attempts[s] >= MaxAttempts

\* Only a closed job has skipped steps, and it has no open ones; only a job
\* whose status says so is in the middle of a step.
FileSound(job) == \A s \in Steps :
    /\ job.status \in Closed => job.mark[s] \notin {"pending", "running"}
    /\ job.status \notin Closed => job.mark[s] # "skipped"
    /\ job.mark[s] = "running" => job.status = "running"

\* Every failed result is an attempt, and an open step has attempts left
\* unless they were interrupted.
Counted(job) == \A s \in Steps :
    /\ fails[s] <= job.attempts[s]
    /\ fails[s] <= MaxAttempts
    /\ job.mark[s] \in {"pending", "running"} => fails[s] < MaxAttempts
    /\ job.mark[s] = "running" => fails[s] < job.attempts[s]

\* The marks in memory at place p of the loop, with step a in hand.
InLoop(job, p, a) ==
    /\ job.status = "running"
    /\ p = "step" => a <= N
    /\ \A s \in Steps :
          /\ job.mark[s] = "running" <=> p = "step" /\ s = a
          /\ job.mark[s] = "skipped" => p = "loop" /\ a = N + 1
          /\ job.mark[s] = "pending" => p = "stopping" \/ s >= a

\* What a turn holds, against the file.
Holds(r) ==
    /\ disk.status \notin Closed
    /\ pc[r] = "loaded" => mem[r] = disk
    /\ pc[r] # "loaded" => InLoop(mem[r], pc[r], at[r])
    /\ \A s \in Steps : disk.mark[s] = "done" => mem[r].mark[s] = "done"
    /\ Honest(mem[r])
    /\ ~lost => Counted(mem[r])

IInv ==
    /\ TypeOK
    /\ FileSound(disk) /\ Honest(disk)
    /\ ~lost => Counted(disk)
    /\ \A r \in Runners : pc[r] # "idle" => Holds(r)

Alone == \E r : Runners = {r}

-----------------------------------------------------------------------------
(* The changes of a job, as facts about its fields.                        *)

LEMMA OpenedFields ==
    ASSUME NEW job \in Jobs
    PROVE  /\ Opened(job) \in Jobs
           /\ Opened(job).status = "running"
           /\ Opened(job).mark = Recovered(job)
           /\ Opened(job).attempts = job.attempts
           /\ Opened(job).cover = job.cover
           /\ Recovered(job) \in [Steps -> Marks]
  BY DEF Opened, Recovered, Jobs, Marks

LEMMA BegunFields ==
    ASSUME NEW job \in Jobs, NEW s \in Steps
    PROVE  /\ Begun(job, s) \in Jobs
           /\ Begun(job, s).status = job.status
           /\ Begun(job, s).mark = [job.mark EXCEPT ![s] = "running"]
           /\ Begun(job, s).attempts = [job.attempts EXCEPT ![s] = @ + 1]
           /\ Begun(job, s).cover = job.cover
<1>1. job.attempts[s] + 1 \in Nat
  BY DEF Jobs
<1>2. [job.mark EXCEPT ![s] = "running"] \in [Steps -> Marks]
  BY DEF Jobs, Marks
<1>3. [job.attempts EXCEPT ![s] = @ + 1] \in [Steps -> Nat]
  BY <1>1 DEF Jobs
<1> DEFINE marked == [job.mark EXCEPT ![s] = "running"]
           counted == [job.attempts EXCEPT ![s] = @ + 1]
<1>4. Begun(job, s) = [job EXCEPT !.mark = marked, !.attempts = counted]
  BY DEF Begun, Jobs
<1> HIDE DEF marked, counted
<1>5. /\ marked \in [Steps -> Marks] /\ counted \in [Steps -> Nat]
  BY <1>2, <1>3 DEF marked, counted
<1>6. /\ Begun(job, s) \in Jobs
      /\ Begun(job, s).status = job.status
      /\ Begun(job, s).mark = marked
      /\ Begun(job, s).attempts = counted
      /\ Begun(job, s).cover = job.cover
  BY <1>4, <1>5 DEF Jobs
<1> QED
  BY <1>6 DEF marked, counted

LEMMA PutBackFields ==
    ASSUME NEW job \in Jobs, NEW s \in Steps
    PROVE  /\ PutBack(job, s) \in Jobs
           /\ PutBack(job, s).status = job.status
           /\ PutBack(job, s).mark = [job.mark EXCEPT ![s] = "pending"]
           /\ PutBack(job, s).attempts = job.attempts
           /\ PutBack(job, s).cover = job.cover
  BY DEF PutBack, Jobs, Marks

LEMMA GivenUpFields ==
    ASSUME NEW job \in Jobs
    PROVE  /\ GivenUp(job) \in Jobs
           /\ GivenUp(job).status = job.status
           /\ GivenUp(job).mark =
                [s \in Steps |-> IF job.mark[s] = "pending" THEN "skipped" ELSE job.mark[s]]
           /\ GivenUp(job).attempts = job.attempts
           /\ GivenUp(job).cover = job.cover
  BY DEF GivenUp, Jobs, Marks

\* countSteps and the final status: a job is closed or stopped.
LEMMA EndedFields ==
    ASSUME NEW job \in Jobs, NEW aborted \in BOOLEAN
    PROVE  /\ Ended(job, aborted) \in Jobs
           /\ Ended(job, aborted).mark = job.mark
           /\ Ended(job, aborted).attempts = job.attempts
           /\ Ended(job, aborted).cover = job.cover
           /\ IF aborted THEN Ended(job, aborted).status = "stopped"
                         ELSE Ended(job, aborted).status \in Closed
  BY DEF Ended, FinalStatus, Jobs, Closed

-----------------------------------------------------------------------------
(* Every step keeps the invariant.                                         *)

\* A write leaves a sound file if what is written is sound.
LEMMA WriteSound ==
    ASSUME NEW job \in Jobs, FileSound(job), Honest(job),
           disk \in Jobs, FileSound(disk), Honest(disk), Write(job)
    PROVE  /\ disk' \in Jobs /\ FileSound(disk') /\ Honest(disk')
           /\ disk' = job \/ (disk' = disk /\ lost')
           /\ ~lost' => ~lost
  BY DEF Write

\* A turn saves a job and goes on: what it has to keep.
LEMMA SaveKeeps ==
    ASSUME IInv, NEW r, Runners = {r}, pc[r] # "idle",
           NEW job \in Jobs, Honest(job), job.status = "running",
           \A s \in Steps : disk.mark[s] = "done" => job.mark[s] = "done",
           \A s \in Steps : job.mark[s] # "skipped",
           Save(r, job),
           pc' \in [Runners -> {"loop", "step", "stopping"}],
           at' \in [Runners -> 1 .. N + 1],
           InLoop(job, pc'[r], at'[r]),
           fails' \in [Steps -> Nat],
           ~lost' => Counted(job)',
           fails' = fails \/ disk' = job \/ lost',
           stop' = stop, runs' = runs
    PROVE  IInv'
<1>1. disk \in Jobs /\ FileSound(disk) /\ Honest(disk) /\ TypeOK /\ Holds(r)
  BY DEF IInv, TypeOK
<1>2. FileSound(job)
  BY DEF FileSound, Closed
<1>3. Write(job) /\ mem' = [mem EXCEPT ![r] = job]
  BY DEF Save
<1>4. /\ disk' \in Jobs /\ FileSound(disk') /\ Honest(disk')
      /\ disk' = job \/ (disk' = disk /\ lost')
  BY <1>1, <1>2, <1>3, WriteSound
<1>5. mem'[r] = job /\ job # None /\ pc'[r] # "idle"
  BY <1>1, <1>3, JobAssumption DEF TypeOK
<1>6. TypeOK'
  BY <1>1, <1>3, <1>4, <1>5 DEF TypeOK, Write
<1>7. ~lost' => Counted(disk)'
  BY <1>4 DEF Counted
<1>8. Holds(r)'
  BY <1>1, <1>4, <1>5 DEF Holds, Counted, Closed
<1> QED
  BY <1>4, <1>6, <1>7, <1>8 DEF IInv, FileSound, Honest

LEMMA LoadKeeps ==
    ASSUME IInv, NEW r, Runners = {r}, Load(r)
    PROVE  IInv'
<1>1. disk # None /\ disk \in Jobs /\ mem'[r] = disk /\ pc'[r] = "loaded"
  BY JobAssumption DEF IInv, TypeOK, Load, Goto
<1>2. TypeOK'
  BY <1>1, JobAssumption DEF IInv, TypeOK, Load, Goto
<1>3. Holds(r)'
  <2>1. disk.status \notin Closed /\ UNCHANGED <<disk, lost, fails>>
    BY DEF Load, Resumable, Closed
  <2>2. Honest(disk)' /\ (~lost' => Counted(disk)')
    BY <2>1 DEF IInv, Honest, Counted
  <2> QED
    BY <1>1, <2>1, <2>2 DEF Holds, Honest, Counted
<1> QED
  BY <1>2, <1>3 DEF IInv, Load, FileSound, Honest, Counted

LEMMA StartKeeps ==
    ASSUME IInv, NEW r, Runners = {r}, Start(r)
    PROVE  IInv'
<1>0. PICK job : job = Opened(mem[r])
  OBVIOUS
<1>1. /\ mem[r] \in Jobs /\ mem[r] = disk /\ Holds(r) /\ TypeOK /\ FileSound(disk)
      /\ pc[r] = "loaded"
  BY DEF IInv, TypeOK, Start, Holds
<1>2. /\ job \in Jobs /\ job.status = "running" /\ job.mark = Recovered(mem[r])
      /\ job.attempts = mem[r].attempts /\ job.cover = mem[r].cover
  BY <1>0, <1>1, OpenedFields
<1>3. \A s \in Steps :
         /\ mem[r].mark[s] = "running" => job.mark[s] = "pending"
         /\ mem[r].mark[s] # "running" => job.mark[s] = mem[r].mark[s]
  BY <1>1, <1>2 DEF Recovered, FileSound
<1>4. Honest(job)
  BY <1>1, <1>2, <1>3 DEF Holds, Honest
<1>5. InLoop(job, "loop", 1)
  BY <1>1, <1>2, <1>3 DEF InLoop, FileSound, Holds, Steps, Closed
<1>6. ~lost => Counted(job)
  BY <1>1, <1>2, <1>3 DEF Counted, Holds
<1>7. \A s \in Steps : /\ disk.mark[s] = "done" => job.mark[s] = "done"
                       /\ job.mark[s] # "skipped"
  BY <1>1, <1>3 DEF Holds, FileSound, Closed
<1>8. /\ Save(r, job) /\ pc' = [pc EXCEPT ![r] = "loop"] /\ at' = [at EXCEPT ![r] = 1]
      /\ stop' = stop /\ runs' = runs /\ fails' = fails
  BY <1>0 DEF Start, Goto
<1>9. ~lost' => Counted(job)'
  BY <1>6, <1>8 DEF Counted, Save, Write
<1> QED
  BY <1>1, <1>2, <1>4, <1>5, <1>7, <1>8, <1>9, SaveKeeps, JobAssumption DEF TypeOK

LEMMA BeginKeeps ==
    ASSUME IInv, NEW r, Runners = {r}, Begin(r)
    PROVE  IInv'
<1>s. PICK s : s = at[r]
  OBVIOUS
<1>0. PICK job : job = Begun(mem[r], s)
  OBVIOUS
<1>1. /\ mem[r] \in Jobs /\ Holds(r) /\ TypeOK /\ FileSound(disk)
      /\ InLoop(mem[r], "loop", s) /\ s \in Steps /\ pc[r] = "loop"
      /\ Retryable(mem[r], s)
  BY <1>s, JobAssumption DEF IInv, TypeOK, Begin, Holds, Steps
<1>2. /\ job \in Jobs /\ job.status = "running"
      /\ job.mark = [mem[r].mark EXCEPT ![s] = "running"]
      /\ job.attempts = [mem[r].attempts EXCEPT ![s] = @ + 1]
      /\ job.cover = mem[r].cover
  BY <1>0, <1>1, BegunFields DEF InLoop
<1>3. /\ job.mark[s] = "running" /\ job.attempts[s] = mem[r].attempts[s] + 1
      /\ mem[r].attempts[s] \in Nat
      /\ \A q \in Steps : q # s => /\ job.mark[q] = mem[r].mark[q]
                                   /\ job.attempts[q] = mem[r].attempts[q]
  BY <1>1, <1>2 DEF Jobs
<1>m. /\ mem[r].mark[s] \in {"pending", "failed"}
      /\ MaxAttempts \in Nat
      /\ mem[r].mark[s] = "failed" => mem[r].attempts[s] < MaxAttempts
  BY <1>1, JobAssumption DEF Retryable
<1>k. \A q \in Steps : mem[r].attempts[q] \in Nat
  BY <1>1 DEF Jobs
<1>4. Honest(job)
  <2>1. Honest(mem[r])
    BY <1>1 DEF Holds
  <2>2. job.cover = mem[r].cover
    BY <1>2
  <2> QED
    <3>1. \A q \in Steps : q # s => /\ job.mark[q] = mem[r].mark[q]
                                   /\ job.attempts[q] = mem[r].attempts[q]
      BY <1>3
    <3>2. mem[r].cover[s] \notin {"fait", "non fait"}
      <4>1. s \in Steps /\ mem[r].attempts[s] \in Nat /\ MaxAttempts \in Nat
        BY <1>1, <1>k, <1>m
      <4>2. ~(mem[r].mark[s] = "failed" /\ mem[r].attempts[s] >= MaxAttempts)
        BY <4>1, <1>m
      <4> QED
        BY <2>1, <4>1, <4>2, <1>m DEF Honest
    <3> QED
      BY <2>1, <2>2, <3>1, <3>2, <1>3 DEF Honest
<1>5. InLoop(job, "step", s)
  <2>1. s <= N /\ \A q \in Steps : q \in Nat
    BY <1>1, JobAssumption DEF Steps
  <2>2. \A q \in Steps : /\ mem[r].mark[q] # "running"
                         /\ mem[r].mark[q] = "skipped" => s = N + 1
                         /\ mem[r].mark[q] = "pending" => q >= s
    BY <1>1 DEF InLoop
  <2>3. s # N + 1
    BY <1>1, JobAssumption DEF Steps
  <2>4. job.status = "running"
    BY <1>2
  <2> QED
    BY <2>1, <2>2, <2>3, <2>4, <1>1, <1>3 DEF InLoop
<1>6. ~lost => Counted(job)
  BY <1>1, <1>3, JobAssumption DEF Counted, Holds, Retryable, TypeOK
<1>7. \A q \in Steps : /\ disk.mark[q] = "done" => job.mark[q] = "done"
                       /\ job.mark[q] # "skipped"
  <2>1. \A q \in Steps : disk.mark[q] = "done" => mem[r].mark[q] = "done"
    BY <1>1 DEF Holds
  <2>2. \A q \in Steps : job.mark[q] # "skipped"
    BY <1>1, <1>5, JobAssumption DEF InLoop, Steps
  <2>3. \A q \in Steps : q # s => job.mark[q] = mem[r].mark[q]
    BY <1>3
  <2>4. mem[r].mark[s] # "done"
    BY <1>m
  <2> QED
    BY <2>1, <2>2, <2>3, <2>4
<1>8. /\ Save(r, job) /\ pc' = [pc EXCEPT ![r] = "step"] /\ at' = at
      /\ stop' = stop /\ runs' = runs /\ fails' = fails
  BY <1>0, <1>s DEF Begin, Goto
<1>9. ~lost' => Counted(job)'
  BY <1>6, <1>8 DEF Counted, Save, Write
<1> QED
  BY <1>s, <1>1, <1>2, <1>4, <1>5, <1>7, <1>8, <1>9, SaveKeeps DEF TypeOK

LEMMA ResultKeeps ==
    ASSUME IInv, NEW r, Runners = {r}, NEW ok \in BOOLEAN, Result(r, ok)
    PROVE  IInv'
<1>s. PICK s : s = at[r]
  OBVIOUS
<1>1. /\ mem[r] \in Jobs /\ Holds(r) /\ TypeOK /\ FileSound(disk)
      /\ InLoop(mem[r], "step", s) /\ s \in Steps /\ pc[r] = "step"
      /\ mem[r].mark[s] = "running"
  <2>1. pc[r] = "step" /\ TypeOK /\ Holds(r) /\ FileSound(disk)
    BY DEF IInv, Result
  <2>2. mem[r] \in Jobs /\ s \in 1 .. N + 1
    BY <2>1, <1>s DEF TypeOK
  <2>3. InLoop(mem[r], "step", s)
    BY <2>1, <1>s DEF Holds
  <2>4. s \in Steps
    BY <2>2, <2>3, JobAssumption DEF InLoop, Steps
  <2> QED
    BY <2>1, <2>2, <2>3, <2>4 DEF InLoop
<1>2. CASE stop[r]
  <2>0. PICK job : job = PutBack(mem[r], s)
    OBVIOUS
  <2>2. /\ job \in Jobs /\ job.status = "running"
        /\ job.mark = [mem[r].mark EXCEPT ![s] = "pending"]
        /\ job.attempts = mem[r].attempts /\ job.cover = mem[r].cover
    BY <2>0, <1>1, PutBackFields DEF InLoop
  <2>3. /\ job.mark[s] = "pending"
        /\ \A q \in Steps : q # s => job.mark[q] = mem[r].mark[q]
    BY <1>1, <2>2 DEF Jobs
  <2>4. Honest(job)
    <3>1. Honest(mem[r])
      BY <1>1 DEF Holds
    <3>2. mem[r].cover[s] \notin {"fait", "non fait"}
      BY <1>1, <3>1 DEF Honest
    <3> QED
      BY <2>2, <2>3, <3>1, <3>2 DEF Honest
  <2>5. InLoop(job, "stopping", s)
    BY <1>1, <2>2, <2>3 DEF InLoop, Steps
  <2>6. ~lost => Counted(job)
    BY <1>1, <2>2, <2>3 DEF Counted, Holds
  <2>7. \A q \in Steps : /\ disk.mark[q] = "done" => job.mark[q] = "done"
                         /\ job.mark[q] # "skipped"
    BY <1>1, <2>3 DEF Holds, InLoop
  <2>8. /\ Save(r, job) /\ pc' = [pc EXCEPT ![r] = "stopping"] /\ at' = at
        /\ stop' = stop /\ runs' = runs /\ fails' = fails
    BY <2>0, <1>s, <1>2 DEF Result, Goto
  <2>9. ~lost' => Counted(job)'
    BY <2>6, <2>8 DEF Counted, Save, Write
  <2> QED
    BY <1>s, <1>1, <2>2, <2>4, <2>5, <2>7, <2>8, <2>9, SaveKeeps DEF TypeOK
<1>3. CASE ~stop[r]
  <2>0. PICK job : job = Judged(mem[r], s, ok)
    OBVIOUS
  <2>2. /\ job \in Jobs /\ job.status = "running"
        /\ job.mark = [mem[r].mark EXCEPT ![s] = IF ok THEN "done" ELSE "failed"]
        /\ job.attempts = mem[r].attempts
        /\ job.cover = [mem[r].cover EXCEPT ![s] = IF ok THEN "fait" ELSE
                           IF mem[r].attempts[s] >= MaxAttempts THEN "non fait" ELSE "echec"]
    <3>1. mem[r].status = "running"
      BY <1>1 DEF InLoop
    <3>2. mem[r] \in Jobs /\ s \in Steps
      BY <1>1
    <3> QED
      BY <2>0, <3>1, <3>2 DEF Judged, Jobs, Marks, Cover
  <2>3. /\ job.mark[s] = IF ok THEN "done" ELSE "failed"
        /\ job.cover[s] = IF ok THEN "fait" ELSE
                             IF mem[r].attempts[s] >= MaxAttempts THEN "non fait" ELSE "echec"
        /\ \A q \in Steps : q # s => /\ job.mark[q] = mem[r].mark[q]
                                     /\ job.cover[q] = mem[r].cover[q]
    BY <1>1, <2>2 DEF Jobs
  <2>4. Honest(job)
    <3>1. Honest(mem[r])
      BY <1>1 DEF Holds
    <3>2. job.attempts = mem[r].attempts
      BY <2>2
    <3> QED
      BY <2>3, <3>1, <3>2 DEF Honest
  <2>5. InLoop(job, "loop", s + 1)
    <3>1. s <= N /\ s \in Nat /\ N \in Nat /\ \A q \in Steps : q \in Nat
      BY <1>1, JobAssumption DEF Steps
    <3>2. \A q \in Steps : /\ mem[r].mark[q] = "running" <=> q = s
                           /\ mem[r].mark[q] # "skipped"
                           /\ mem[r].mark[q] = "pending" => q >= s
      BY <1>1 DEF InLoop
    <3>3. job.status = "running" /\ job.mark[s] \in {"done", "failed"}
      BY <2>2, <2>3
    <3>4. \A q \in Steps : q # s => job.mark[q] = mem[r].mark[q]
      BY <2>3
    <3> QED
      BY <3>1, <3>2, <3>3, <3>4 DEF InLoop
  <2>7. \A q \in Steps : /\ disk.mark[q] = "done" => job.mark[q] = "done"
                         /\ job.mark[q] # "skipped"
    BY <1>1, <2>3 DEF Holds, InLoop
  <2>8. /\ Save(r, job) /\ pc' = [pc EXCEPT ![r] = "loop"]
        /\ at' = [at EXCEPT ![r] = @ + 1] /\ stop' = stop /\ runs' = runs
        /\ fails' = IF ok THEN fails ELSE [fails EXCEPT ![s] = @ + 1]
    BY <2>0, <1>s, <1>3 DEF Result, Goto
  <2>10. fails' \in [Steps -> Nat]
    BY <1>1, <2>8 DEF TypeOK
  <2>11. disk' = job \/ lost'
    BY <2>8 DEF Save, Write
  <2>9. ~lost' => Counted(job)'
    <3> SUFFICES ASSUME ~lost' PROVE Counted(job)'
      OBVIOUS
    <3>1. Counted(mem[r])
      BY <1>1, <2>8 DEF Holds, Save, Write, TypeOK
    <3>2. \A q \in Steps : fails[q] \in Nat /\ job.attempts[q] \in Nat
      BY <1>1, <2>2 DEF TypeOK, Jobs
    <3>3. \A q \in Steps : fails'[q] = IF ~ok /\ q = s THEN fails[q] + 1 ELSE fails[q]
      BY <1>s, <1>1, <2>8 DEF TypeOK
    <3>4. /\ job.attempts = mem[r].attempts /\ MaxAttempts \in Nat
          /\ job.mark[s] \in {"done", "failed"}
          /\ \A q \in Steps : q # s => job.mark[q] = mem[r].mark[q]
      BY <2>2, <2>3, JobAssumption
    <3>5. fails[s] < mem[r].attempts[s] /\ fails[s] < MaxAttempts
      BY <1>1, <3>1 DEF Counted
    <3> QED
      BY <3>1, <3>2, <3>3, <3>4, <3>5 DEF Counted
  <2>12. at' \in [Runners -> 1 .. N + 1] /\ at'[r] = s + 1
    BY <1>s, <1>1, <2>8, JobAssumption DEF TypeOK, Steps
  <2>13. pc' \in [Runners -> {"loop", "step", "stopping"}] /\ pc'[r] = "loop"
    BY <1>1, <2>8 DEF TypeOK
  <2> QED
    BY <1>1, <2>2, <2>4, <2>5, <2>7, <2>8, <2>9, <2>10, <2>11, <2>12, <2>13, SaveKeeps
<1> QED
  BY <1>2, <1>3

LEMMA BreakSkipKeep ==
    ASSUME IInv, NEW r, Runners = {r}, Break(r) \/ Skip(r)
    PROVE  IInv'
<1>1. /\ TypeOK /\ Holds(r) /\ mem[r] \in Jobs /\ pc[r] = "loop" /\ at[r] \in Nat /\ at[r] <= N
      /\ InLoop(mem[r], "loop", at[r]) /\ N \in Nat
  <2>1. TypeOK /\ Holds(r) /\ pc[r] = "loop" /\ at[r] <= N /\ N \in Nat
    BY JobAssumption DEF IInv, Break, Skip
  <2> QED
    BY <2>1 DEF TypeOK, Holds
<1>2. /\ disk' = disk /\ mem' = mem /\ lost' = lost /\ fails' = fails
      /\ runs' = runs /\ stop' = stop
  BY DEF Break, Skip
<1>3. \A s \in Steps : s \in Nat /\ s <= N
  BY <1>1 DEF Steps
<1>4. \A s \in Steps : /\ mem[r].mark[s] \notin {"running", "skipped"}
                       /\ mem[r].mark[s] = "pending" => s >= at[r]
  BY <1>1 DEF InLoop
<1>5. mem[r].status = "running"
  BY <1>1 DEF InLoop
<1>6. TypeOK' /\ pc'[r] \in {"loop", "stopping"} /\ InLoop(mem[r], pc'[r], at'[r])
  <2>1. CASE Break(r)
    <3>1. pc' = [pc EXCEPT ![r] = "stopping"] /\ at' = at
      BY <2>1 DEF Break, Goto
    <3>2. pc'[r] = "stopping" /\ TypeOK'
      BY <1>1, <1>2, <3>1, JobAssumption DEF TypeOK
    <3> QED
      BY <3>2, <1>4, <1>5 DEF InLoop
  <2>2. CASE Skip(r)
    <3>1. /\ pc' = pc /\ at' = [at EXCEPT ![r] = @ + 1]
          /\ at[r] \in Steps => mem[r].mark[at[r]] # "pending"
      BY <2>2 DEF Skip, Retryable
    <3>2. at'[r] = at[r] + 1 /\ at[r] \in 1 .. N /\ pc'[r] = "loop"
      BY <1>1, <3>1 DEF TypeOK
    <3>3. TypeOK'
      BY <1>1, <1>2, <3>1, <3>2 DEF TypeOK
    <3>4. mem[r].mark[at[r]] # "pending"
      BY <3>1, <3>2 DEF Steps
    <3>5. InLoop(mem[r], "loop", at[r] + 1)
      BY <1>1, <1>3, <1>4, <1>5, <3>4 DEF InLoop
    <3> QED
      BY <3>2, <3>3, <3>5
  <2> QED
    BY <2>1, <2>2
<1>7. Holds(r)'
  BY <1>1, <1>2, <1>6 DEF Holds, Counted
<1> QED
  BY <1>2, <1>6, <1>7 DEF IInv, Counted

LEMMA BudgetKeeps ==
    ASSUME IInv, NEW r, Runners = {r}, Budget(r)
    PROVE  IInv'
<1>0. PICK job : job = GivenUp(mem[r])
  OBVIOUS
<1>1. /\ TypeOK /\ Holds(r) /\ mem[r] \in Jobs /\ pc[r] = "loop" /\ N \in Nat
      /\ InLoop(mem[r], "loop", at[r])
  <2>1. TypeOK /\ Holds(r) /\ pc[r] = "loop" /\ at[r] <= N /\ N \in Nat
    BY JobAssumption DEF IInv, Budget
  <2> QED
    BY <2>1 DEF TypeOK, Holds
<1>2. /\ job \in Jobs /\ job.status = mem[r].status
      /\ job.mark = [s \in Steps |-> IF mem[r].mark[s] = "pending" THEN "skipped"
                                                                   ELSE mem[r].mark[s]]
      /\ job.attempts = mem[r].attempts /\ job.cover = mem[r].cover
  BY <1>0, <1>1, GivenUpFields
<1>3. \A s \in Steps : /\ mem[r].mark[s] = "pending" => job.mark[s] = "skipped"
                       /\ mem[r].mark[s] # "pending" => job.mark[s] = mem[r].mark[s]
  BY <1>2
<1>4. /\ disk' = disk /\ lost' = lost /\ fails' = fails /\ runs' = runs /\ stop' = stop
      /\ pc' = pc /\ mem' = [mem EXCEPT ![r] = job] /\ at' = [at EXCEPT ![r] = N + 1]
  BY <1>0 DEF Budget
<1>5. mem'[r] = job /\ at'[r] = N + 1 /\ TypeOK'
  BY <1>1, <1>2, <1>4, JobAssumption DEF TypeOK
<1>6. InLoop(job, "loop", N + 1)
  <2>1. \A s \in Steps : mem[r].mark[s] # "running"
    BY <1>1 DEF InLoop
  <2>2. job.status = "running"
    BY <1>1, <1>2 DEF InLoop
  <2> QED
    BY <2>1, <2>2, <1>3 DEF InLoop
<1>7. Honest(job)
  <2>1. Honest(mem[r]) /\ job.cover = mem[r].cover /\ job.attempts = mem[r].attempts
    BY <1>1, <1>2 DEF Holds
  <2> QED
    BY <2>1, <1>3 DEF Honest
<1>8. ~lost => Counted(job)
  <2>1. ~lost => Counted(mem[r]) /\ job.attempts = mem[r].attempts
    BY <1>1, <1>2 DEF Holds
  <2> QED
    BY <2>1, <1>3 DEF Counted
<1>9. Holds(r)'
  <2>1. \A s \in Steps : disk.mark[s] = "done" => job.mark[s] = "done"
    BY <1>1, <1>3 DEF Holds
  <2>2. ~lost' => Counted(job)'
    BY <1>4, <1>8 DEF Counted
  <2> QED
    BY <2>1, <2>2, <1>1, <1>4, <1>5, <1>6, <1>7 DEF Holds, Honest, Closed, Counted
<1> QED
  BY <1>4, <1>5, <1>9 DEF IInv, Counted

LEMMA FinishKeeps ==
    ASSUME IInv, NEW r, Runners = {r}, Finish(r)
    PROVE  IInv'
<1>0. PICK job : job = Ended(mem[r], pc[r] = "stopping")
  OBVIOUS
<1>1. /\ TypeOK /\ Holds(r) /\ mem[r] \in Jobs /\ N \in Nat
      /\ pc[r] = "stopping" \/ (pc[r] = "loop" /\ at[r] > N)
      /\ InLoop(mem[r], pc[r], at[r])
  <2>1. /\ TypeOK /\ Holds(r) /\ N \in Nat
        /\ pc[r] = "stopping" \/ (pc[r] = "loop" /\ at[r] > N)
    BY JobAssumption DEF IInv, Finish
  <2> QED
    BY <2>1 DEF TypeOK, Holds
<1>2. /\ job \in Jobs /\ job.mark = mem[r].mark
      /\ job.attempts = mem[r].attempts /\ job.cover = mem[r].cover
      /\ pc[r] = "stopping" => job.status = "stopped"
      /\ pc[r] = "loop" => job.status \in Closed
  BY <1>0, <1>1, EndedFields
<1>3. FileSound(job)
  <2>1. \A s \in Steps : /\ s \in Nat /\ s <= N
    BY <1>1 DEF Steps
  <2>2. at[r] \in Nat
    BY <1>1 DEF TypeOK
  <2>3. CASE pc[r] = "stopping"
    BY <1>1, <1>2, <2>3 DEF InLoop, FileSound, Closed
  <2>4. CASE pc[r] = "loop" /\ at[r] > N
    <3>1. \A s \in Steps : mem[r].mark[s] \notin {"pending", "running"}
      BY <1>1, <2>1, <2>2, <2>4 DEF InLoop
    <3> QED
      BY <1>2, <2>4, <3>1 DEF FileSound
  <2> QED
    BY <1>1, <2>3, <2>4
<1>4. Honest(job)
  BY <1>1, <1>2 DEF Holds, Honest
<1>5. ~lost => Counted(job)
  BY <1>1, <1>2 DEF Holds, Counted
<1>6. /\ Write(job) /\ mem' = [mem EXCEPT ![r] = None] /\ pc' = [pc EXCEPT ![r] = "idle"]
      /\ at' = at /\ stop' = stop /\ runs' = runs /\ fails' = fails
  BY <1>0 DEF Finish, Goto
<1>7. /\ disk' \in Jobs /\ FileSound(disk') /\ Honest(disk')
      /\ disk' = job \/ (disk' = disk /\ lost')
      /\ ~lost' => ~lost
  BY <1>2, <1>3, <1>4, <1>6, WriteSound DEF IInv, TypeOK
<1>8. TypeOK' /\ pc'[r] = "idle"
  BY <1>1, <1>6, <1>7 DEF TypeOK, Write
<1>9. ~lost' => Counted(disk)'
  BY <1>5, <1>6, <1>7 DEF Counted
<1> QED
  BY <1>7, <1>8, <1>9 DEF IInv, FileSound, Honest

\* Nothing is lost or gained when the turn leaves, is stopped or dies.
LEMMA OthersKeep ==
    ASSUME IInv, NEW r, Runners = {r},
           Leave(r) \/ Stop(r) \/ Crash \/ UNCHANGED vars
    PROVE  IInv'
<1>1. /\ disk' = disk /\ lost' = lost /\ fails' = fails /\ runs' = runs /\ at' = at
  BY DEF Leave, Stop, Crash, vars
<1>2. TypeOK'
  BY DEF IInv, TypeOK, Leave, Stop, Crash, vars, Goto
<1>3. pc'[r] # "idle" => pc'[r] = pc[r] /\ mem'[r] = mem[r]
  BY DEF IInv, TypeOK, Leave, Stop, Crash, vars, Goto
<1>4. pc'[r] # "idle" => Holds(r)'
  BY <1>1, <1>3 DEF IInv, Holds, Counted
<1> QED
  BY <1>1, <1>2, <1>4 DEF IInv, FileSound, Honest, Counted

LEMMA InitInv ==
    ASSUME NEW r, Runners = {r}, Init
    PROVE  IInv
<1>1. TypeOK
  <2>1. disk \in Jobs
    BY DEF Init, Jobs, Marks, Cover
  <2>2. \A q \in Runners : mem[q] = None /\ pc[q] = "idle"
    BY DEF Init
  <2>3. /\ mem \in [Runners -> Jobs \cup {None}]
        /\ pc \in [Runners -> {"idle", "loaded", "loop", "step", "stopping"}]
        /\ stop \in [Runners -> BOOLEAN] /\ lost \in BOOLEAN
    BY DEF Init
  <2>4. /\ at \in [Runners -> 1 .. N + 1]
        /\ runs \in 0 .. MaxRuns /\ fails \in [Steps -> Nat]
    BY JobAssumption DEF Init
  <2> QED
    BY <2>1, <2>2, <2>3, <2>4 DEF TypeOK
<1>2. FileSound(disk) /\ Honest(disk) /\ Counted(disk)
  BY JobAssumption DEF Init, FileSound, Honest, Counted, Closed
<1> QED
  BY <1>1, <1>2 DEF IInv, Init

LEMMA StepInv ==
    ASSUME IInv, NEW r, Runners = {r}, [Next]_vars
    PROVE  IInv'
<1>1. CASE Load(r)
  BY <1>1, LoadKeeps
<1>2. CASE Start(r)
  BY <1>2, StartKeeps
<1>3. CASE Begin(r)
  BY <1>3, BeginKeeps
<1>4. CASE ChildAnswers(r) \/ Watchdog(r)
  BY <1>4, ResultKeeps DEF ChildAnswers, Watchdog
<1>5. CASE Break(r) \/ Skip(r)
  BY <1>5, BreakSkipKeep
<1>6. CASE Budget(r)
  BY <1>6, BudgetKeeps
<1>7. CASE Finish(r)
  BY <1>7, FinishKeeps
<1>8. CASE Leave(r) \/ Stop(r) \/ Crash \/ UNCHANGED vars
  BY <1>8, OthersKeep
<1> QED
  BY <1>1, <1>2, <1>3, <1>4, <1>5, <1>6, <1>7, <1>8 DEF Next, Run

LEMMA Inductive ==
    ASSUME NEW r, Runners = {r}
    PROVE  Spec => []IInv
<1>1. Init => IInv
  BY InitInv
<1>2. IInv /\ [Next]_vars => IInv'
  BY StepInv
<1> QED
  BY <1>1, <1>2, PTL DEF Spec

-----------------------------------------------------------------------------
(* Theorems.                                                               *)

\* The state of the file and of the turn is always well formed.
THEOREM JobTypeCorrect ==
    ASSUME NEW r, Runners = {r}
    PROVE  Spec => []TypeOK
<1>1. IInv => TypeOK
  BY DEF IInv
<1> QED
  BY <1>1, Inductive, PTL

\* The coverage table never says more than the steps do.
THEOREM TableHonest ==
    ASSUME NEW r, Runners = {r}
    PROVE  Spec => []CoverageHonest
<1>1. IInv => CoverageHonest
  BY DEF IInv, Honest, CoverageHonest
<1> QED
  BY <1>1, Inductive, PTL

\* A step the process died in belongs to a job that can be resumed, and over all
\* runs no step fails more often than the budget allows, as long as no write
\* was lost.
THEOREM AttemptsBounded ==
    ASSUME NEW r, Runners = {r}
    PROVE  Spec => []AttemptsAccounted
<1>1. IInv => AttemptsAccounted
  BY DEF IInv, FileSound, Counted, AttemptsAccounted, InterruptedIsResumable, FailuresBounded
<1> QED
  BY <1>1, Inductive, PTL

-----------------------------------------------------------------------------
(* The file keeps the promise of JobPromise.                               *)

LEMMA PromiseInit ==
    Init => Promise!Init
  BY DEF Init, Promise!Init, Closed

\* A write of a job that is still open, with no step given up and every done
\* step kept, is work; of a closed job with no step left open, its closing.
LEMMA PromiseWrite ==
    ASSUME disk \in Jobs, NEW job \in Jobs, FileSound(job), disk.status \notin Closed,
           \A s \in Steps : disk.mark[s] = "done" => job.mark[s] = "done",
           disk' = job \/ disk' = disk
    PROVE  [Promise!Next]_Promise!vars
<1> DEFINE out(j) == [s \in Steps |-> IF j.mark[s] \in {"pending", "running"}
                                      THEN "open" ELSE j.mark[s]]
<1>1. CASE disk' = disk
  BY <1>1 DEF Promise!vars
<1>2. CASE disk' = job
  <2>1. \A s \in Steps : job.mark[s] \in Marks
    BY DEF Jobs
  <2>2. Promise!Keeps
    BY <1>2 DEF Promise!Keeps
  <2>3. CASE job.status \in Closed
    <3>1. out(job) \in [Steps -> Promise!Outcomes \ {"open"}]
      BY <2>1, <2>3 DEF FileSound, Marks, Promise!Outcomes
    <3> QED
      BY <1>2, <2>2, <2>3, <3>1 DEF Promise!Next, Promise!Close
  <2>4. CASE job.status \notin Closed
    <3>1. out(job) \in [Steps -> Promise!Outcomes \ {"skipped"}]
      BY <2>1, <2>4 DEF FileSound, Marks, Promise!Outcomes
    <3> QED
      BY <1>2, <2>2, <2>4, <3>1 DEF Promise!Next, Promise!Work
  <2> QED
    BY <2>3, <2>4
<1> QED
  BY <1>1, <1>2

\* The saves of a run keep what the file says is done.
LEMMA DoneKept ==
    ASSUME IInv, NEW r, Runners = {r},
           Start(r) \/ Begin(r) \/ ChildAnswers(r) \/ Watchdog(r) \/ Finish(r)
    PROVE  /\ disk.status \notin Closed
           /\ \A s \in Steps : disk.mark[s] = "done" => disk'.mark[s] = "done"
<1>1. pc[r] # "idle" /\ TypeOK
  BY DEF IInv, Start, Begin, ChildAnswers, Watchdog, Result, Finish
<1>2. /\ mem[r] \in Jobs /\ disk.status \notin Closed
      /\ \A s \in Steps : disk.mark[s] = "done" => mem[r].mark[s] = "done"
  BY <1>1 DEF IInv, TypeOK, Holds
<1>3. CASE Start(r)
  <2>1. mem[r] = disk /\ Write(Opened(mem[r]))
    BY <1>3 DEF IInv, Holds, Start, Save
  <2>2. \A s \in Steps : mem[r].mark[s] = "done" => Recovered(mem[r])[s] = "done"
    BY <1>2 DEF Recovered
  <2> QED
    BY <1>2, <2>1, <2>2, OpenedFields DEF Write
<1>4. CASE Begin(r)
  <2>1. PICK s : s = at[r]
    OBVIOUS
  <2>2. s \in Steps /\ Write(Begun(mem[r], s)) /\ mem[r].mark[s] # "done"
    BY <1>1, <1>4, <2>1, JobAssumption DEF TypeOK, Steps, Begin, Save, Retryable
  <2>3. \A q \in Steps : mem[r].mark[q] = "done" => Begun(mem[r], s).mark[q] = "done"
    <3>1. Begun(mem[r], s).mark = [mem[r].mark EXCEPT ![s] = "running"]
      BY <1>2, <2>2, BegunFields
    <3>2. mem[r].mark \in [Steps -> Marks]
      BY <1>2 DEF Jobs
    <3> QED
      BY <2>2, <3>1, <3>2
  <2> QED
    BY <1>2, <2>2, <2>3 DEF Write
<1>5. CASE ChildAnswers(r) \/ Watchdog(r)
  <2>1. PICK s : s = at[r]
    OBVIOUS
  <2>2. PICK ok \in BOOLEAN : Result(r, ok)
    BY <1>5 DEF ChildAnswers, Watchdog
  <2>3. /\ mem[r].mark[s] = "running" \/ s \notin Steps
        /\ Write(PutBack(mem[r], s)) \/ Write(Judged(mem[r], s, ok))
    BY <1>1, <2>1, <2>2 DEF IInv, Holds, InLoop, Result, Save
  <2>4. mem[r].mark \in [Steps -> Marks]
    BY <1>2 DEF Jobs
  <2>5. \A q \in Steps : mem[r].mark[q] = "done" =>
           /\ PutBack(mem[r], s).mark[q] = "done"
           /\ Judged(mem[r], s, ok).mark[q] = "done"
    BY <1>2, <2>3, <2>4 DEF PutBack, Judged, Jobs
  <2> QED
    BY <1>2, <2>3, <2>5 DEF Write
<1>6. CASE Finish(r)
  <2>1. PICK aborted \in BOOLEAN : aborted = (pc[r] = "stopping")
    OBVIOUS
  <2>2. Write(Ended(mem[r], aborted))
    BY <1>6, <2>1 DEF Finish
  <2> QED
    BY <1>2, <2>2, EndedFields DEF Write
<1> QED
  BY <1>3, <1>4, <1>5, <1>6

LEMMA PromiseStep ==
    ASSUME IInv, IInv', NEW r, Runners = {r}, [Next]_vars
    PROVE  [Promise!Next]_Promise!vars
<1>1. CASE Start(r) \/ Begin(r) \/ ChildAnswers(r) \/ Watchdog(r) \/ Finish(r)
  <2>1. PICK job : job = disk'
    OBVIOUS
  <2>2. disk \in Jobs /\ job \in Jobs /\ FileSound(job)
    BY <2>1 DEF IInv, TypeOK
  <2> QED
    BY <1>1, <2>1, <2>2, DoneKept, PromiseWrite
<1>2. CASE ~(Start(r) \/ Begin(r) \/ ChildAnswers(r) \/ Watchdog(r) \/ Finish(r))
  <2>1. disk' = disk
    BY <1>2 DEF Next, Run, Load, Leave, Break, Skip, Budget, Stop, Crash, vars
  <2> QED
    BY <2>1 DEF Promise!vars
<1> QED
  BY <1>1, <1>2

\* Through stops, deaths of the process, resumptions and failed writes the job
\* file implements JobPromise: done is final, and a job is closed once, with no
\* step open.
THEOREM FileKeepsPromise ==
    ASSUME NEW r, Runners = {r}
    PROVE  Spec => KeepsPromise
<1>1. Init => Promise!Init
  BY PromiseInit
<1>2. IInv /\ IInv' /\ [Next]_vars => [Promise!Next]_Promise!vars
  BY PromiseStep
<1> QED
  BY <1>1, <1>2, Inductive, PTL DEF Spec, KeepsPromise, Promise!Spec

=============================================================================
