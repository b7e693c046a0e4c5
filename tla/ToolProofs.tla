----------------------------- MODULE ToolProofs -----------------------------
(* Safety of what the tools keep. Of ExecProcs, for every number of          *)
(* processes, whatever their kills do: what is reported of a check, and that *)
(* no process is lost of sight. Of GenRun, for every number of phases, of    *)
(* files and of contents: that a marked phase can be restored. Of McpClient, *)
(* for every number of users and of clients: that its table is true.         *)
EXTENDS ExecProcs, GenRun, McpClient, TLAPS

-----------------------------------------------------------------------------
(* The processes.                                                           *)

\* Nothing is known of a process before it is started.
Untouched == \A p \in Procs : record[p] = "none" =>
    /\ p \notin finished \cup timedOut \cup killed
    /\ lifeTimer[p] = "off" /\ os[p] = "none" /\ exitCode[p] = "null" /\ check[p] = "none"

\* Only a kill makes an end out of something else than the exit event.
EndedOrKilled == \A p \in Procs :
    /\ p \in timedOut => p \in killed
    /\ lifeTimer[p] = "grace" => p \in timedOut
    /\ lifeTimer[p] = "life" => p \notin timedOut
    /\ p \in finished /\ os[p] = "alive" => p \in killed

\* A code is that of a process that is over, and its event is dealt with.
CodeIsStatus == \A p \in Procs :
    /\ exitCode[p] # "null" => os[p] = "none" /\ exitCode[p] = status[p]
    /\ p \in finished /\ status[p] = "zero" => exitCode[p] = "zero" \/ p \in killed

\* How a check may come to its verdict.
VerdictFrom == \A p \in Procs :
    /\ check[p] = "waits" /\ record[p] = "gone" => p \in stolen
    /\ check[p] = "passed" => exitCode[p] = "zero"
    /\ check[p] = "failed" => p \in finished \cup stolen

ExecInv == /\ ExecTypeOK /\ Untouched /\ EndedOrKilled /\ CodeIsStatus /\ VerdictFrom
        /\ CheckVerdictTrue /\ NoOrphan /\ EndInSight

-----------------------------------------------------------------------------
\* A kill changes nothing but the state of processes that live.
LEMMA KillOnlyLiving ==
    ASSUME ExecTypeOK, NEW K, KillTree(K)
    PROVE  /\ os' \in [Procs -> {"none", "alive", "over"}]
           /\ status' \in [Procs -> {"null", "zero", "other", "signal", "unstarted"}]
           /\ \A p \in Procs :
                \/ os'[p] = os[p] /\ status'[p] = status[p]
                \/ os[p] = "alive" /\ os'[p] = "over" /\ status'[p] = "signal"
<1> PICK deaf \in SUBSET {p \in K : os[p] = "alive"} :
       LET dead == {p \in K : os[p] = "alive"} \ deaf
       IN /\ os' = [p \in Procs |-> IF p \in dead THEN "over" ELSE os[p]]
          /\ status' = [p \in Procs |-> IF p \in dead THEN "signal" ELSE status[p]]
  BY DEF KillTree
<1> QED
  BY DEF ExecTypeOK

LEMMA ExecInductive == ExecSpec => []ExecInv
<1>1. ExecInit => ExecInv
  BY DEF ExecInit, ExecInv, ExecTypeOK, Untouched, EndedOrKilled, CodeIsStatus, VerdictFrom,
         CheckVerdictTrue, NoOrphan, EndInSight, Table
<1>2. ExecInv /\ [ExecNext]_execVars => ExecInv'
  <2> SUFFICES ASSUME ExecInv, [ExecNext]_execVars PROVE ExecInv'
    OBVIOUS
  <2> USE DEF ExecInv
  <2>1. CASE \E p \in Procs, waits \in BOOLEAN : Start(p, waits)
    <3> SUFFICES ASSUME NEW p \in Procs, NEW waits \in BOOLEAN, Start(p, waits) PROVE ExecInv'
      BY <2>1
    <3> USE DEF Start, Unused, Table
    <3>1. ExecTypeOK'
      BY DEF ExecTypeOK
    <3>2. Untouched'
      BY DEF ExecTypeOK, Untouched
    <3>3. EndedOrKilled'
      BY DEF ExecTypeOK, Untouched, EndedOrKilled
    <3>4. CodeIsStatus'
      BY DEF ExecTypeOK, Untouched, EndedOrKilled, CodeIsStatus
    <3>5. VerdictFrom'
      BY DEF ExecTypeOK, Untouched, VerdictFrom, CodeIsStatus
    <3>6. CheckVerdictTrue'
      BY DEF ExecTypeOK, Untouched, EndedOrKilled, CodeIsStatus, VerdictFrom, CheckVerdictTrue
    <3>7. NoOrphan'
      BY DEF ExecTypeOK, Untouched, EndedOrKilled, NoOrphan
    <3>8. EndInSight'
      BY DEF ExecTypeOK, Untouched, EndedOrKilled, EndInSight
    <3> QED
      BY <3>1, <3>2, <3>3, <3>4, <3>5, <3>6, <3>7, <3>8
  <2>2. CASE \E p \in Procs : Exits(p)
    <3> SUFFICES ASSUME NEW p \in Procs, Exits(p) PROVE ExecInv'
      BY <2>2
    <3> USE DEF Exits, recVars, Table
    <3>1. ExecTypeOK'
      BY DEF ExecTypeOK
    <3>2. Untouched'
      BY DEF ExecTypeOK, Untouched
    <3>3. EndedOrKilled'
      BY DEF ExecTypeOK, Untouched, EndedOrKilled
    <3>4. CodeIsStatus'
      BY DEF ExecTypeOK, Untouched, EndedOrKilled, CodeIsStatus
    <3>5. VerdictFrom'
      BY DEF ExecTypeOK, Untouched, VerdictFrom, CodeIsStatus
    <3>6. CheckVerdictTrue'
      BY DEF ExecTypeOK, Untouched, EndedOrKilled, CodeIsStatus, VerdictFrom, CheckVerdictTrue
    <3>7. NoOrphan'
      BY DEF ExecTypeOK, Untouched, EndedOrKilled, NoOrphan
    <3>8. EndInSight'
      BY DEF ExecTypeOK, Untouched, EndedOrKilled, EndInSight
    <3> QED
      BY <3>1, <3>2, <3>3, <3>4, <3>5, <3>6, <3>7, <3>8
  <2>3. CASE \E p \in Procs : Event(p)
    <3> SUFFICES ASSUME NEW p \in Procs, Event(p) PROVE ExecInv'
      BY <2>3
    <3> USE DEF Event, Settles, Table
    <3>1. ExecTypeOK'
      BY DEF ExecTypeOK
    <3>2. Untouched'
      BY DEF ExecTypeOK, Untouched
    <3>3. EndedOrKilled'
      BY DEF ExecTypeOK, Untouched, EndedOrKilled
    <3>4. CodeIsStatus'
      BY DEF ExecTypeOK, Untouched, EndedOrKilled, CodeIsStatus
    <3>5. VerdictFrom'
      BY DEF ExecTypeOK, Untouched, VerdictFrom, CodeIsStatus
    <3>6. CheckVerdictTrue'
      BY DEF ExecTypeOK, Untouched, EndedOrKilled, CodeIsStatus, VerdictFrom, CheckVerdictTrue
    <3>7. NoOrphan'
      BY DEF ExecTypeOK, Untouched, EndedOrKilled, NoOrphan
    <3>8. EndInSight'
      BY DEF ExecTypeOK, Untouched, EndedOrKilled, EndInSight
    <3> QED
      BY <3>1, <3>2, <3>3, <3>4, <3>5, <3>6, <3>7, <3>8
  <2>4. CASE \E p \in Procs : TimeLimit(p)
    <3> SUFFICES ASSUME NEW p \in Procs, TimeLimit(p) PROVE ExecInv'
      BY <2>4
    <3> USE DEF TimeLimit, Table
    <3>k. /\ os' \in [Procs -> {"none", "alive", "over"}]
          /\ status' \in [Procs -> {"null", "zero", "other", "signal", "unstarted"}]
          /\ \A q \in Procs :
               \/ os'[q] = os[q] /\ status'[q] = status[q]
               \/ os[q] = "alive" /\ os'[q] = "over" /\ status'[q] = "signal"
      BY KillOnlyLiving
    <3>1. ExecTypeOK'
      <4>1. /\ {finished, timedOut, killed, stolen} \subseteq SUBSET Procs
            /\ lifeTimer' \in [Procs -> {"off", "life", "grace"}]
        BY DEF ExecTypeOK
      <4>2. {finished', timedOut', killed', stolen'} \subseteq SUBSET Procs
        BY ONLY <4>1, p \in Procs, TimeLimit(p) DEF TimeLimit
      <4> QED
        BY <3>k, <4>1, <4>2 DEF ExecTypeOK
    <3>2. Untouched'
      BY <3>k DEF ExecTypeOK, Untouched
    <3>3. EndedOrKilled'
      BY <3>k DEF ExecTypeOK, Untouched, EndedOrKilled
    <3>4. CodeIsStatus'
      BY <3>k DEF ExecTypeOK, Untouched, EndedOrKilled, CodeIsStatus
    <3>5. VerdictFrom'
      BY <3>k DEF ExecTypeOK, Untouched, VerdictFrom, CodeIsStatus
    <3>6. CheckVerdictTrue'
      BY <3>k DEF ExecTypeOK, Untouched, EndedOrKilled, CodeIsStatus, VerdictFrom, CheckVerdictTrue
    <3>7. NoOrphan'
      BY <3>k DEF ExecTypeOK, Untouched, EndedOrKilled, NoOrphan
    <3>8. EndInSight'
      BY <3>k DEF ExecTypeOK, Untouched, EndedOrKilled, EndInSight
    <3> QED
      BY <3>1, <3>2, <3>3, <3>4, <3>5, <3>6, <3>7, <3>8
  <2>5. CASE \E p \in Procs : GraceOver(p)
    <3> SUFFICES ASSUME NEW p \in Procs, GraceOver(p) PROVE ExecInv'
      BY <2>5
    <3> USE DEF GraceOver, Table
    <3>1. ExecTypeOK'
      BY DEF ExecTypeOK
    <3>2. Untouched'
      BY DEF ExecTypeOK, Untouched
    <3>3. EndedOrKilled'
      BY DEF ExecTypeOK, Untouched, EndedOrKilled
    <3>4. CodeIsStatus'
      BY DEF ExecTypeOK, Untouched, EndedOrKilled, CodeIsStatus
    <3>5. VerdictFrom'
      BY DEF ExecTypeOK, Untouched, VerdictFrom, CodeIsStatus
    <3>6. CheckVerdictTrue'
      BY DEF ExecTypeOK, Untouched, EndedOrKilled, CodeIsStatus, VerdictFrom, CheckVerdictTrue
    <3>7. NoOrphan'
      BY DEF ExecTypeOK, Untouched, EndedOrKilled, NoOrphan
    <3>8. EndInSight'
      BY DEF ExecTypeOK, Untouched, EndedOrKilled, EndInSight
    <3> QED
      BY <3>1, <3>2, <3>3, <3>4, <3>5, <3>6, <3>7, <3>8
  <2>6. CASE \E p \in Procs : Stop(p)
    <3> SUFFICES ASSUME NEW p \in Procs, Stop(p) PROVE ExecInv'
      BY <2>6
    <3> USE DEF Stop, Table
    <3>k. /\ os' \in [Procs -> {"none", "alive", "over"}]
          /\ status' \in [Procs -> {"null", "zero", "other", "signal", "unstarted"}]
          /\ \A q \in Procs :
               \/ os'[q] = os[q] /\ status'[q] = status[q]
               \/ os[q] = "alive" /\ os'[q] = "over" /\ status'[q] = "signal"
      BY KillOnlyLiving
    <3>1. ExecTypeOK'
      <4>1. /\ {finished, timedOut, killed, stolen} \subseteq SUBSET Procs
            /\ lifeTimer' \in [Procs -> {"off", "life", "grace"}]
        BY DEF ExecTypeOK
      <4>2. {finished', timedOut', killed', stolen'} \subseteq SUBSET Procs
        BY ONLY <4>1, p \in Procs, Stop(p) DEF Stop
      <4> QED
        BY <3>k, <4>1, <4>2 DEF ExecTypeOK
    <3>2. Untouched'
      BY <3>k DEF ExecTypeOK, Untouched
    <3>3. EndedOrKilled'
      BY <3>k DEF ExecTypeOK, Untouched, EndedOrKilled
    <3>4. CodeIsStatus'
      BY <3>k DEF ExecTypeOK, Untouched, EndedOrKilled, CodeIsStatus
    <3>5. VerdictFrom'
      BY <3>k DEF ExecTypeOK, Untouched, VerdictFrom, CodeIsStatus
    <3>6. CheckVerdictTrue'
      BY <3>k DEF ExecTypeOK, Untouched, EndedOrKilled, CodeIsStatus, VerdictFrom, CheckVerdictTrue
    <3>7. NoOrphan'
      BY <3>k DEF ExecTypeOK, Untouched, EndedOrKilled, NoOrphan
    <3>8. EndInSight'
      BY <3>k DEF ExecTypeOK, Untouched, EndedOrKilled, EndInSight
    <3> QED
      BY <3>1, <3>2, <3>3, <3>4, <3>5, <3>6, <3>7, <3>8
  <2>7. CASE \E p \in Procs : Poll(p)
    <3> SUFFICES ASSUME NEW p \in Procs, Poll(p) PROVE ExecInv'
      BY <2>7
    <3> USE DEF Poll, Forget, Table
    <3>1. ExecTypeOK'
      BY DEF ExecTypeOK
    <3>2. Untouched'
      BY DEF ExecTypeOK, Untouched
    <3>3. EndedOrKilled'
      BY DEF ExecTypeOK, Untouched, EndedOrKilled
    <3>4. CodeIsStatus'
      BY DEF ExecTypeOK, Untouched, EndedOrKilled, CodeIsStatus
    <3>5. VerdictFrom'
      BY DEF ExecTypeOK, Untouched, VerdictFrom, CodeIsStatus
    <3>6. CheckVerdictTrue'
      BY DEF ExecTypeOK, Untouched, EndedOrKilled, CodeIsStatus, VerdictFrom, CheckVerdictTrue
    <3>7. NoOrphan'
      BY DEF ExecTypeOK, Untouched, EndedOrKilled, NoOrphan
    <3>8. EndInSight'
      BY DEF ExecTypeOK, Untouched, EndedOrKilled, EndInSight
    <3> QED
      BY <3>1, <3>2, <3>3, <3>4, <3>5, <3>6, <3>7, <3>8
  <2>8. CASE \E p \in Procs : CheckPolls(p)
    <3> SUFFICES ASSUME NEW p \in Procs, CheckPolls(p) PROVE ExecInv'
      BY <2>8
    <3> USE DEF CheckPolls, Forget, GoodCheck, Table
    <3>1. ExecTypeOK'
      BY DEF ExecTypeOK
    <3>2. Untouched'
      BY DEF ExecTypeOK, Untouched
    <3>3. EndedOrKilled'
      BY DEF ExecTypeOK, Untouched, EndedOrKilled
    <3>4. CodeIsStatus'
      BY DEF ExecTypeOK, Untouched, EndedOrKilled, CodeIsStatus
    <3>5. VerdictFrom'
      BY DEF ExecTypeOK, Untouched, VerdictFrom, CodeIsStatus
    <3>6. CheckVerdictTrue'
      BY DEF ExecTypeOK, Untouched, EndedOrKilled, CodeIsStatus, VerdictFrom, CheckVerdictTrue
    <3>7. NoOrphan'
      BY DEF ExecTypeOK, Untouched, EndedOrKilled, NoOrphan
    <3>8. EndInSight'
      BY DEF ExecTypeOK, Untouched, EndedOrKilled, EndInSight
    <3> QED
      BY <3>1, <3>2, <3>3, <3>4, <3>5, <3>6, <3>7, <3>8
  <2>9. CASE StopAll
    <3> USE <2>9 DEF StopAll, Table
    <3>k. /\ os' \in [Procs -> {"none", "alive", "over"}]
          /\ status' \in [Procs -> {"null", "zero", "other", "signal", "unstarted"}]
          /\ \A q \in Procs :
               \/ os'[q] = os[q] /\ status'[q] = status[q]
               \/ os[q] = "alive" /\ os'[q] = "over" /\ status'[q] = "signal"
      BY KillOnlyLiving
    <3>1. ExecTypeOK'
      BY <3>k DEF ExecTypeOK
    <3>2. Untouched'
      BY <3>k DEF ExecTypeOK, Untouched
    <3>3. EndedOrKilled'
      BY <3>k DEF ExecTypeOK, Untouched, EndedOrKilled
    <3>4. CodeIsStatus'
      BY <3>k DEF ExecTypeOK, Untouched, EndedOrKilled, CodeIsStatus
    <3>5. VerdictFrom'
      BY <3>k DEF ExecTypeOK, Untouched, VerdictFrom, CodeIsStatus
    <3>6. CheckVerdictTrue'
      BY <3>k DEF ExecTypeOK, Untouched, EndedOrKilled, CodeIsStatus, VerdictFrom, CheckVerdictTrue
    <3>7. NoOrphan'
      BY <3>k DEF ExecTypeOK, Untouched, EndedOrKilled, NoOrphan
    <3>8. EndInSight'
      BY <3>k DEF ExecTypeOK, Untouched, EndedOrKilled, EndInSight
    <3> QED
      BY <3>1, <3>2, <3>3, <3>4, <3>5, <3>6, <3>7, <3>8
  <2>10. CASE UNCHANGED execVars
    BY <2>10 DEF execVars, recVars, ExecTypeOK, Untouched, EndedOrKilled, CodeIsStatus,
       VerdictFrom, CheckVerdictTrue, NoOrphan, EndInSight, Table
  <2> QED
    BY <2>1, <2>2, <2>3, <2>4, <2>5, <2>6, <2>7, <2>8, <2>9, <2>10 DEF ExecNext, ProcStep
<1> QED
  BY <1>1, <1>2, PTL DEF ExecSpec

-----------------------------------------------------------------------------
\* The table, the timers and the verdicts keep their types.
THEOREM ExecTyped == ExecSpec => []ExecTypeOK
<1>1. ExecInv => ExecTypeOK
  BY DEF ExecInv
<1> QED
  BY <1>1, ExecInductive, PTL

\* A gen_check reports how its command ended, unless the poll of another
\* process had its record forgotten, or a kill ended it.
THEOREM CheckIsTrue == ExecSpec => []CheckVerdictTrue
<1>1. ExecInv => CheckVerdictTrue
  BY DEF ExecInv
<1> QED
  BY <1>1, ExecInductive, PTL

\* A process whose record is forgotten while it runs is one that was killed
\* and survived: no poll and no check of another process loses one; and a
\* running record has a timer or an exit event to come, or was stopped.
THEOREM NoProcessLost == ExecSpec => []NoneLost
<1>1. ExecInv => NoneLost
  BY DEF ExecInv, NoneLost
<1> QED
  BY <1>1, ExecInductive, PTL

-----------------------------------------------------------------------------
(* The restore points of a generation.                                      *)

\* A manifest has what was seen of the project.
Taken == \A t \in Tags : \A f \in GenFiles :
    manifest[t][f] = IF was[t][f] = Large THEN Gone ELSE was[t][f]

\* The files the phase being marked must copy.
ToCopy == {f \in GenFiles : manifest[next][f] # Gone
                            /\ (next = 0 \/ manifest[next][f] # manifest[next - 1][f])}

\* Those that are done have their copy, or the mark knows that they do not.
Copied == IF marking
          THEN /\ next \in Tags /\ todo \subseteq ToCopy
               /\ \A f \in ToCopy \ todo :
                    backup[next][f] = manifest[next][f] \/ f \in gaps[next] \cup raced
          ELSE todo = {}

\* No other copy is in the way.
NoneInTheWay == \A t \in Tags : \A f \in GenFiles :
    t >= next /\ backup[t][f] # Gone =>
        t = next /\ (cutShort \/ (marking /\ f \in ToCopy))

GenInv == GenTypeOK /\ Taken /\ Copied /\ NoneInTheWay /\ Restorable

\* A backup that has the file is the one that is read.
LEMMA NewestOwn ==
    ASSUME NEW t \in Tags, NEW f \in GenFiles, backup[t][f] # Gone
    PROVE  ContentFor(t, f) = backup[t][f]
<1>1. Newest(t, f) = {t}
  BY GenAssumption DEF Newest, Tags
<1>2. (CHOOSE k \in {t} : TRUE) = t
  OBVIOUS
<1>3. Newest(t, f) # {}
  BY <1>1
<1> QED
  BY <1>1, <1>2, <1>3, Zenon DEF ContentFor

\* One that does not have it leaves the search to the phase before.
LEMMA NewestOlder ==
    ASSUME NEW t \in Tags, t # 0, NEW f \in GenFiles, backup[t][f] = Gone
    PROVE  t - 1 \in Tags /\ ContentFor(t, f) = ContentFor(t - 1, f)
<1>1. t - 1 \in Tags
  BY GenAssumption DEF Tags
<1>2. Newest(t, f) = Newest(t - 1, f)
  <2>1. ASSUME NEW k \in 0 .. t, backup[k][f] # Gone
        PROVE  k \in 0 .. t - 1 /\ ((\A j \in k + 1 .. t : backup[j][f] = Gone)
                                    <=> \A j \in k + 1 .. t - 1 : backup[j][f] = Gone)
    <3>1. k # t
      BY <2>1
    <3>2. k \in 0 .. t - 1 /\ k + 1 .. t = (k + 1 .. t - 1) \cup {t}
      BY <3>1, GenAssumption DEF Tags
    <3> QED
      BY <3>2
  <2>2. 0 .. t - 1 \subseteq 0 .. t
    BY GenAssumption DEF Tags
  <2> QED
    BY <2>1, <2>2 DEF Newest
<1>3. CASE Newest(t, f) = {}
  <2>1. ContentFor(t, f) = Gone
    BY <1>3, Zenon DEF ContentFor
  <2>2. ContentFor(t - 1, f) = Gone
    BY <1>2, <1>3, Zenon DEF ContentFor
  <2> QED
    BY <2>1, <2>2, <1>1
<1>4. CASE Newest(t, f) # {}
  <2> DEFINE k == CHOOSE k \in Newest(t, f) : TRUE
  <2>1. ContentFor(t, f) = backup[k][f]
    BY <1>4, Zenon DEF ContentFor
  <2>2. ContentFor(t - 1, f) = backup[k][f]
    BY <1>4, <1>2, Zenon DEF ContentFor
  <2> QED
    BY <2>1, <2>2, <1>1
<1> QED
  BY <1>1, <1>3, <1>4

\* What is read for a marked phase does not change while the next is marked.
LEMMA OlderKept ==
    ASSUME GenTypeOK, NEW t \in Tags, t < next, NEW f \in GenFiles,
           \A k \in Tags : k < next => backup'[k] = backup[k]
    PROVE  ContentFor(t, f)' = ContentFor(t, f)
<1>1. \A k \in 0 .. t : backup'[k] = backup[k]
  BY GenAssumption DEF Tags, GenTypeOK
<1>2. Newest(t, f)' = Newest(t, f)
  <2>1. ASSUME NEW k \in 0 .. t
        PROVE  (\A j \in k + 1 .. t : backup'[j][f] = Gone)
               <=> \A j \in k + 1 .. t : backup[j][f] = Gone
    BY <1>1, GenAssumption DEF Tags
  <2> QED
    BY <1>1, <2>1 DEF Newest
<1>3. CASE Newest(t, f) = {}
  BY <1>2, <1>3 DEF ContentFor
<1>4. CASE Newest(t, f) # {}
  <2>1. (CHOOSE k \in Newest(t, f) : TRUE) \in Newest(t, f)
    BY <1>4
  <2> DEFINE k == CHOOSE k \in Newest(t, f) : TRUE
  <2>2. k \in 0 .. t
    BY <2>1 DEF Newest
  <2>3. ContentFor(t, f) = backup[k][f]
    BY <1>4, Zenon DEF ContentFor
  <2>4. ContentFor(t, f)' = backup'[k][f]
    BY <1>4, <1>2, Zenon DEF ContentFor
  <2> QED
    BY <2>2, <2>3, <2>4, <1>1
<1> QED
  BY <1>3, <1>4

\* So the restore points that are marked stay, as long as nothing that was told
\* of them is forgotten.
LEMMA RestorableKept ==
    ASSUME GenTypeOK, Restorable, next' = next,
           \A k \in Tags : k < next => /\ backup'[k] = backup[k]
                                       /\ gaps'[k] = gaps[k] /\ was'[k] = was[k],
           raced \subseteq raced', cutShort => cutShort'
    PROVE  Restorable'
<1> SUFFICES ASSUME NEW t \in 0 .. next - 1, NEW f \in GenFiles, was'[t][f] \in Versions
             PROVE  ContentFor(t, f)' = was'[t][f] \/ f \in Told(t)' \cup raced' \/ cutShort'
  BY DEF Restorable
<1>1. t \in Tags /\ t < next
  BY GenAssumption DEF GenTypeOK, Tags
<1>2. ContentFor(t, f)' = ContentFor(t, f)
  BY <1>1, OlderKept
<1>3. was'[t] = was[t]
  BY <1>1
<1>4. \A k \in 0 .. t : gaps'[k] = gaps[k]
  BY <1>1, GenAssumption DEF GenTypeOK, Tags
<1>5. f \in Told(t) => f \in Told(t)'
  BY <1>4 DEF Told
<1> QED
  BY <1>2, <1>3, <1>5 DEF Restorable

LEMMA GenInductive == GenSpec => []GenInv
<1> USE GenAssumption
<1>1. GenInit => GenInv
  <2> SUFFICES ASSUME GenInit PROVE GenInv
    OBVIOUS
  <2> USE DEF GenInit, Empty, Tags
  <2>1. GenTypeOK
    <3>1. marking \in BOOLEAN /\ cutShort \in BOOLEAN
      OBVIOUS
    <3> QED
      BY <3>1 DEF GenTypeOK, Copies
  <2>2. Taken /\ Copied /\ NoneInTheWay /\ Restorable
    BY DEF Taken, Copied, NoneInTheWay, Restorable
  <2> QED
    BY <2>1, <2>2 DEF GenInv
<1>2. GenInv /\ [GenNext]_genVars => GenInv'
  <2> SUFFICES ASSUME GenInv, [GenNext]_genVars PROVE GenInv'
    OBVIOUS
  <2> USE DEF GenInv
  <2>1. ASSUME NEW f \in GenFiles, Edit(f) PROVE GenInv'
    <3> USE <2>1 DEF Edit, diskVars
    <3>1. GenTypeOK'
      BY DEF GenTypeOK
    <3>2. Taken' /\ Copied' /\ NoneInTheWay'
      BY DEF Taken, Copied, NoneInTheWay, ToCopy
    <3>3. Restorable'
      BY RestorableKept
    <3> QED
      BY <3>1, <3>2, <3>3
  <2>2. CASE TakeManifest
    <3> USE <2>2 DEF TakeManifest
    <3>1. Seen \in [GenFiles -> Copies]
      BY DEF GenTypeOK, Seen, Copies
    <3>2. GenTypeOK'
      BY <3>1 DEF GenTypeOK, Changed, Copies
    <3>3. Taken'
      BY DEF Taken, GenTypeOK, Seen
    <3>4. ToCopy' = Changed
      BY <3>1 DEF ToCopy, Changed, GenTypeOK, Tags
    <3>5. Copied'
      BY <3>4 DEF Copied
    <3>6. NoneInTheWay'
      BY <3>4 DEF NoneInTheWay, Copied
    <3>7. Restorable'
      BY RestorableKept DEF GenTypeOK, Tags
    <3> QED
      BY <3>2, <3>3, <3>5, <3>6, <3>7
  <2>3. ASSUME NEW f \in GenFiles, BackUp(f) PROVE GenInv'
    <3> USE <2>3 DEF BackUp
    <3>m. marking /\ next \in Tags /\ f \in ToCopy
      BY DEF Copied
    <3>1. GenTypeOK'
      BY <3>m DEF GenTypeOK, Copies
    <3>2. Taken' /\ ToCopy' = ToCopy
      BY DEF Taken, ToCopy
    <3>3. Copied'
      <4> SUFFICES ASSUME NEW g \in ToCopy, g \notin todo'
                   PROVE  backup'[next][g] = manifest[next][g] \/ g \in gaps'[next] \cup raced'
        BY <3>2, <3>m DEF Copied
      <4>1. CASE g = f
        BY <4>1, <3>m DEF GenTypeOK, ToCopy
      <4>2. CASE g # f
        <5>1. backup'[next][g] = backup[next][g] /\ (g \in gaps[next] => g \in gaps'[next])
          BY <4>2, <3>m DEF GenTypeOK, ToCopy
        <5>2. g \notin todo /\ (g \in raced => g \in raced')
          BY <4>2
        <5> QED
          BY <5>1, <5>2, <3>m DEF Copied
      <4> QED
        BY <4>1, <4>2
    <3>4. NoneInTheWay'
      BY <3>2, <3>m DEF NoneInTheWay, GenTypeOK
    <3>5. Restorable'
      <4>1. \A k \in Tags : k < next => backup'[k] = backup[k] /\ gaps'[k] = gaps[k]
        BY <3>m DEF GenTypeOK, Tags
      <4> QED
        BY <4>1, RestorableKept
    <3> QED
      BY <3>1, <3>2, <3>3, <3>4, <3>5
  <2>4. CASE WriteRun
    <3> USE <2>4 DEF WriteRun
    <3>m. next \in Tags /\ next' \in Nat /\ next' = next + 1
      BY DEF Copied, Tags
    <3>1. GenTypeOK'
      <4>1. marking' \in BOOLEAN
        OBVIOUS
      <4>2. next' \in 0 .. LastPhase + 1
        BY <3>m DEF Tags
      <4> QED
        BY <4>1, <4>2 DEF GenTypeOK
    <3>2. Taken' /\ Copied'
      BY DEF Taken, Copied
    <3>3. NoneInTheWay'
      BY <3>m DEF NoneInTheWay, Tags
    <3>4. Restorable'
      <4> SUFFICES ASSUME NEW t \in 0 .. next' - 1, NEW f \in GenFiles, was[t][f] \in Versions
                   PROVE  ContentFor(t, f) = was[t][f] \/ f \in Told(t) \cup raced \/ cutShort
        BY DEF Restorable, ContentFor, Newest, Told
      <4>1. CASE t # next
        BY <4>1, <3>m DEF Restorable, Tags
      <4>2. CASE t = next /\ f \in ToCopy
        <5>1. manifest[t][f] = was[t][f] /\ manifest[t][f] # Gone
          BY <4>2, <3>m DEF Taken
        <5>2. CASE backup[t][f] = manifest[t][f]
          BY <5>1, <5>2, <4>2, <3>m, NewestOwn
        <5>3. CASE f \in gaps[t] \cup raced
          BY <5>3, <4>2, <3>m DEF Told, Tags
        <5> QED
          BY <5>2, <5>3, <4>2 DEF Copied
      <4>3. CASE t = next /\ f \notin ToCopy
        <5>1. manifest[t][f] = was[t][f] /\ manifest[t][f] # Gone
          BY <4>3, <3>m DEF Taken
        <5>2. t # 0 /\ manifest[t - 1][f] = was[t][f]
          BY <5>1, <4>3 DEF ToCopy
        <5>3. t - 1 \in Tags /\ t - 1 \in 0 .. next - 1
          BY <5>2, <4>3, <3>m DEF Tags
        <5>4. was[t - 1][f] = was[t][f]
          BY <5>2, <5>3 DEF Taken
        <5>5. f \in Told(t - 1) => f \in Told(t)
          BY <5>3, <3>m, <4>3 DEF Told, Tags
        <5>6. cutShort \/ backup[t][f] = Gone
          BY <4>3, <3>m DEF NoneInTheWay, Tags
        <5>7. backup[t][f] = Gone => ContentFor(t, f) = ContentFor(t - 1, f)
          BY <5>2, <4>3, <3>m, NewestOlder
        <5> QED
          BY <5>3, <5>4, <5>5, <5>6, <5>7 DEF Restorable
      <4> QED
        BY <4>1, <4>2, <4>3
    <3> QED
      BY <3>1, <3>2, <3>3, <3>4
  <2>5. CASE CutShort
    <3> USE <2>5 DEF CutShort
    <3>m. next \in Tags
      BY DEF Copied
    <3>1. GenTypeOK'
      <4>1. marking' \in BOOLEAN /\ cutShort' \in BOOLEAN
        BY DEF GenTypeOK
      <4>2. runFile' \in {"none", "there", "torn"}
        BY DEF GenTypeOK
      <4>3. backup' \in [Tags -> [GenFiles -> Copies]] /\ gaps' \in [Tags -> SUBSET GenFiles]
        BY <3>m DEF GenTypeOK, Empty, Copies
      <4> QED
        BY <4>1, <4>2, <4>3 DEF GenTypeOK
    <3>2. Taken' /\ Copied'
      BY DEF Taken, Copied
    <3>3. NoneInTheWay'
      BY <3>m DEF NoneInTheWay, GenTypeOK, Empty, Tags
    <3>4. Restorable'
      <4>1. \A k \in Tags : k < next => backup'[k] = backup[k] /\ gaps'[k] = gaps[k]
        BY <3>m DEF GenTypeOK, Tags
      <4> QED
        BY <4>1, RestorableKept
    <3> QED
      BY <3>1, <3>2, <3>3, <3>4
  <2>6. ASSUME NEW t \in Tags, NEW failed \in SUBSET GenFiles, Restore(t, failed) PROVE GenInv'
    <3> USE <2>6 DEF Restore, diskVars
    <3>1. tree' \in [GenFiles -> Versions \cup {Large, Gone}]
      <4> SUFFICES ASSUME NEW f \in GenFiles, f \in Wanted(t), f \notin Missing(t)
                   PROVE  ContentFor(t, f) \in Versions \cup {Large, Gone}
        BY DEF GenTypeOK
      <4>1. ContentFor(t, f) = manifest[t][f]
        BY DEF Missing
      <4> QED
        BY <4>1 DEF GenTypeOK, Copies
    <3>2. GenTypeOK'
      BY <3>1 DEF GenTypeOK
    <3>3. Taken' /\ Copied' /\ NoneInTheWay'
      BY DEF Taken, Copied, NoneInTheWay, ToCopy
    <3>4. Restorable'
      BY RestorableKept
    <3> QED
      BY <3>2, <3>3, <3>4
  <2>7. CASE UNCHANGED genVars
    <3> USE <2>7 DEF genVars, diskVars
    <3>1. GenTypeOK' /\ Taken' /\ Copied' /\ NoneInTheWay'
      BY DEF GenTypeOK, Taken, Copied, NoneInTheWay, ToCopy
    <3>2. Restorable'
      BY RestorableKept
    <3> QED
      BY <3>1, <3>2
  <2> QED
    BY <2>1, <2>2, <2>3, <2>4, <2>5, <2>6, <2>7 DEF GenNext
<1> QED
  BY <1>1, <1>2, PTL DEF GenSpec

\* Whatever the number of phases, of files and of contents, and whatever is
\* written while a phase is marked or dies before its mark: what a file held at
\* a marked phase is found by a restore, or is known to be a gap.
THEOREM PhasesRestorable == GenSpec => []Restorable
<1>1. GenInv => Restorable
  BY DEF GenInv
<1> QED
  BY <1>1, GenInductive, PTL

\* A restore that tells of no gap and of no error brings the phase back.
THEOREM FullRestoreExact == GenSpec => RestoreExact
<1>1. GenInv => [\A t \in Tags : FullRestore(t) =>
        \A f \in GenFiles : Large \notin {was[t][f], tree[f]} => tree'[f] = was[t][f]]_genVars
  <2> SUFFICES ASSUME GenInv, NEW t \in Tags, FullRestore(t), NEW f \in GenFiles,
                      was[t][f] # Large, tree[f] # Large
               PROVE  tree'[f] = was[t][f]
    OBVIOUS
  <2>1. manifest[t][f] = was[t][f] /\ Seen[f] = tree[f]
    BY DEF GenInv, Taken, Seen
  <2>2. tree'[f] = IF f \in Wanted(t) \ Missing(t) THEN ContentFor(t, f)
                   ELSE IF f \in Appeared(t) THEN Gone ELSE tree[f]
    BY DEF FullRestore, Restore
  <2>3. CASE f \in Wanted(t)
    BY <2>1, <2>2, <2>3 DEF FullRestore, Missing
  <2>4. CASE f \notin Wanted(t)
    BY <2>1, <2>2, <2>4 DEF Wanted, Appeared
  <2> QED
    BY <2>3, <2>4
<1> QED
  BY <1>1, GenInductive, PTL DEF RestoreExact

-----------------------------------------------------------------------------
(* The MCP client.                                                          *)

\* Who waits has a request, and it is with the client in the table or with one
\* that was replaced there.
InHand == \A u \in Users :
    /\ u \in pending <=> place[u] \in {"initialize", "tools/list", "call"}
    /\ u \in pending => with[u] \in Clients /\ (with[u] = entry \/ with[u] \in replaced)

McpInv == McpTypeOK /\ TableTrue /\ InHand

\* Sending a request on a client one may use, and rejecting some, keeps it.
LEMMA SendKeeps ==
    ASSUME McpInv, NEW u \in Users, NEW c \in Clients, NEW p \in {"initialize", "tools/list", "call"},
           Send(u, c, p), replaced \subseteq replaced',
           c = entry' \/ c \in replaced', entry = entry' \/ entry = NoClient \/ entry \in replaced'
    PROVE  /\ InHand' /\ pending' \subseteq Users /\ with' \in [Users -> Clients \cup {NoClient}]
           /\ place' \in [Users -> {"idle", "secrets", "initialize", "tools/list", "call"}]
  BY ClientAssumption DEF McpInv, McpTypeOK, InHand, Send

LEMMA RejectKeeps ==
    ASSUME McpInv, NEW U, Reject(U), with' = with, replaced' = replaced,
           entry' = entry \/ \A u \in pending \ U : with[u] # entry
    PROVE  /\ InHand' /\ pending' \subseteq Users
           /\ place' \in [Users -> {"idle", "secrets", "initialize", "tools/list", "call"}]
<1> USE DEF McpInv, McpTypeOK, Reject
<1>1. /\ pending' \subseteq Users
      /\ place' \in [Users -> {"idle", "secrets", "initialize", "tools/list", "call"}]
  OBVIOUS
<1>2. ASSUME NEW u \in Users, u \in U
      PROVE  u \notin pending' /\ place'[u] \notin {"initialize", "tools/list", "call"}
  BY <1>2
<1>3. ASSUME NEW u \in Users, u \notin U
      PROVE  /\ u \in pending' <=> place'[u] \in {"initialize", "tools/list", "call"}
             /\ u \in pending' => with[u] \in Clients /\ (with[u] = entry' \/ with[u] \in replaced)
  BY <1>3 DEF InHand
<1>4. InHand'
  BY <1>2, <1>3 DEF InHand
<1> QED
  BY <1>1, <1>4

\* Nothing is left of the client in the table.
LEMMA DisconnectKeeps ==
    ASSUME McpInv, NEW U, Disconnect(U), UNCHANGED <<wants, with, replaced, late>>, config' \in Configs
    PROVE  McpInv'
<1> USE ClientAssumption DEF McpInv, McpTypeOK, Disconnect
<1>1. ASSUME NEW u \in pending \ (U \cup (IF entry = NoClient THEN {} ELSE Waiting(entry)))
      PROVE  with[u] # entry
  BY <1>1 DEF InHand, Waiting
<1>2. /\ InHand' /\ pending' \subseteq Users
      /\ place' \in [Users -> {"idle", "secrets", "initialize", "tools/list", "call"}]
  BY <1>1, RejectKeeps
<1>3. proc' \in [Clients -> {"none", "alive", "signalled", "failed", "unstarted", "over", "gone"}]
  OBVIOUS
<1>4. TableTrue'
  <2>1. ASSUME NEW c \in Clients, proc'[c] = "alive" PROVE c \in replaced
    BY <2>1 DEF TableTrue
  <2> QED
    BY <2>1 DEF TableTrue
<1> QED
  BY <1>2, <1>3, <1>4

\* What is done with a connected client.
LEMMA UseKeeps ==
    ASSUME McpInv, NEW u \in Users, NEW c \in Clients, c = entry \/ c \in replaced, Use(u, c),
           wants' \in [Users -> {"list", "call", "test"}],
           UNCHANGED <<config, replaced, late>>
    PROVE  McpInv'
<1> USE DEF Use
<1>1. ASSUME wants'[u] = "call", Send(u, c, "call"), UNCHANGED <<entry, proc>> PROVE McpInv'
  <2>1. /\ InHand' /\ pending' \subseteq Users /\ with' \in [Users -> Clients \cup {NoClient}]
        /\ place' \in [Users -> {"idle", "secrets", "initialize", "tools/list", "call"}]
    BY <1>1, SendKeeps
  <2> QED
    BY <1>1, <2>1 DEF McpInv, McpTypeOK, TableTrue
<1>2. ASSUME wants'[u] = "test", Disconnect({u}), UNCHANGED with PROVE McpInv'
  <2> USE ClientAssumption DEF McpInv, McpTypeOK, Disconnect
  <2>1. ASSUME NEW x \in pending \ ({u} \cup (IF entry = NoClient THEN {} ELSE Waiting(entry)))
        PROVE  with[x] # entry
    BY <2>1 DEF InHand, Waiting
  <2>2. /\ InHand' /\ pending' \subseteq Users
        /\ place' \in [Users -> {"idle", "secrets", "initialize", "tools/list", "call"}]
    BY <1>2, <2>1, RejectKeeps
  <2>3. proc' \in [Clients -> {"none", "alive", "signalled", "failed", "unstarted", "over", "gone"}]
    BY <1>2
  <2>4. TableTrue'
    <3>1. ASSUME NEW x \in Clients, proc'[x] = "alive" PROVE x \in replaced
      BY <1>2, <3>1 DEF TableTrue
    <3> QED
      BY <1>2, <3>1 DEF TableTrue
  <2> QED
    BY <1>2, <2>2, <2>3, <2>4
<1>3. ASSUME Reject({u}), UNCHANGED <<entry, proc, with>> PROVE McpInv'
  <2>1. /\ InHand' /\ pending' \subseteq Users
        /\ place' \in [Users -> {"idle", "secrets", "initialize", "tools/list", "call"}]
    BY <1>3, RejectKeeps
  <2> QED
    BY <1>3, <2>1 DEF McpInv, McpTypeOK, TableTrue
<1> QED
  BY <1>1, <1>2, <1>3

LEMMA McpInductive == McpSpec => []McpInv
<1> USE ClientAssumption
<1>1. McpInit => McpInv
  BY DEF McpInit, McpInv, McpTypeOK, TableTrue, InHand
<1>2. McpInv /\ [McpNext]_mcpVars => McpInv'
  <2> SUFFICES ASSUME McpInv, [McpNext]_mcpVars PROVE McpInv'
    OBVIOUS
  <2>1. ASSUME NEW u \in Users, Ask(u) PROVE McpInv'
    <3> USE <2>1 DEF Ask
    <3>1. wants' \in [Users -> {"list", "call", "test"}]
      BY DEF McpInv, McpTypeOK
    <3>2. CASE entry # NoClient /\ Use(u, entry)
      <4>1. entry \in Clients
        BY <3>2 DEF McpInv, McpTypeOK
      <4> QED
        BY <3>1, <3>2, <4>1, UseKeeps
    <3>3. CASE /\ place' = [place EXCEPT ![u] = "secrets"]
               /\ UNCHANGED <<entry, proc, with, pending>>
      BY <3>1, <3>3 DEF McpInv, McpTypeOK, TableTrue, InHand
    <3> QED
      BY <3>2, <3>3
  <2>2. ASSUME NEW u \in Users, SpawnServer(u) PROVE McpInv'
    <3> USE <2>2
    <3>1. PICK c \in Unmade :
            /\ \E p \in {"alive", "failed"} : proc' = [proc EXCEPT ![c] = p]
            /\ entry' = c /\ Send(u, c, "initialize")
            /\ replaced' = replaced \cup ({entry} \ {NoClient})
            /\ late' = IF config = "on" THEN late ELSE late \cup {c}
      BY DEF SpawnServer
    <3>2. c \in Clients /\ UNCHANGED <<config, wants>>
      BY DEF SpawnServer, Unmade
    <3>3. /\ InHand' /\ pending' \subseteq Users /\ with' \in [Users -> Clients \cup {NoClient}]
          /\ place' \in [Users -> {"idle", "secrets", "initialize", "tools/list", "call"}]
      BY <3>1, <3>2, SendKeeps
    <3>4. McpTypeOK'
      BY <3>1, <3>2, <3>3 DEF McpInv, McpTypeOK
    <3>5. TableTrue'
      BY <3>1, <3>2 DEF McpInv, McpTypeOK, TableTrue
    <3> QED
      BY <3>3, <3>4, <3>5 DEF McpInv
  <2>3. ASSUME NEW u \in Users, Answer(u) PROVE McpInv'
    <3> USE <2>3 DEF Answer
    <3>0. /\ wants' \in [Users -> {"list", "call", "test"}]
          /\ with[u] \in Clients /\ (with[u] = entry \/ with[u] \in replaced)
      BY DEF McpInv, McpTypeOK, InHand
    <3>1. CASE Send(u, with[u], "tools/list") /\ UNCHANGED <<entry, proc>>
      <4>1. /\ InHand' /\ pending' \subseteq Users /\ with' \in [Users -> Clients \cup {NoClient}]
            /\ place' \in [Users -> {"idle", "secrets", "initialize", "tools/list", "call"}]
        BY <3>0, <3>1, SendKeeps
      <4> QED
        BY <3>0, <3>1, <4>1 DEF McpInv, McpTypeOK, TableTrue
    <3>2. CASE Use(u, with[u])
      BY <3>0, <3>2, UseKeeps
    <3>3. CASE Reject({u}) /\ UNCHANGED <<entry, proc, with>>
      <4>1. /\ InHand' /\ pending' \subseteq Users
            /\ place' \in [Users -> {"idle", "secrets", "initialize", "tools/list", "call"}]
        BY <3>3, RejectKeeps
      <4> QED
        BY <3>0, <3>3, <4>1 DEF McpInv, McpTypeOK, TableTrue
    <3> QED
      BY <3>1, <3>2, <3>3
  <2>4. ASSUME NEW u \in Users, RequestTimeout(u) PROVE McpInv'
    <3> USE <2>4 DEF RequestTimeout
    <3>1. /\ InHand' /\ pending' \subseteq Users
          /\ place' \in [Users -> {"idle", "secrets", "initialize", "tools/list", "call"}]
      BY RejectKeeps
    <3> QED
      BY <3>1 DEF McpInv, McpTypeOK, TableTrue
  <2>5. ASSUME NEW c \in Clients, Dies(c) PROVE McpInv'
    BY <2>5 DEF Dies, McpInv, McpTypeOK, TableTrue, InHand
  <2>6. ASSUME NEW c \in Clients, ExitEvent(c) PROVE McpInv'
    <3> USE <2>6 DEF ExitEvent
    <3>1. CASE entry = c
      <4>1. \A u \in pending \ Waiting(c) : with[u] # entry
        BY <3>1 DEF Waiting
      <4>2. /\ InHand' /\ pending' \subseteq Users
            /\ place' \in [Users -> {"idle", "secrets", "initialize", "tools/list", "call"}]
        BY <3>1, <4>1, RejectKeeps
      <4> QED
        BY <3>1, <4>2 DEF McpInv, McpTypeOK, TableTrue
    <3>2. CASE entry # c
      BY <3>2 DEF McpInv, McpTypeOK, TableTrue, InHand
    <3> QED
      BY <3>1, <3>2
  <2>7. ASSUME NEW c \in Clients, ErrorEvent(c) PROVE McpInv'
    <3> USE <2>7 DEF ErrorEvent
    <3>1. /\ InHand' /\ pending' \subseteq Users
          /\ place' \in [Users -> {"idle", "secrets", "initialize", "tools/list", "call"}]
      BY RejectKeeps
    <3> QED
      BY <3>1 DEF McpInv, McpTypeOK, TableTrue
  <2>8. CASE SetEnabled
    <3>1. config' \in {"on", "off"}
      BY <2>8 DEF SetEnabled
    <3>2. CASE config' = "off"
      BY <2>8, <3>1, <3>2, DisconnectKeeps DEF SetEnabled, Configs
    <3>3. CASE config' = "on"
      BY <2>8, <3>1, <3>3 DEF SetEnabled, McpInv, McpTypeOK, TableTrue, InHand, Configs
    <3> QED
      BY <3>1, <3>2, <3>3
  <2>9. CASE RewriteConfig
    BY <2>9 DEF RewriteConfig, McpInv, McpTypeOK, TableTrue, InHand
  <2>10. CASE ReapIdle
    <3>1. config' \in Configs
      BY <2>10 DEF ReapIdle, McpInv, McpTypeOK
    <3> QED
      BY <2>10, <3>1, DisconnectKeeps DEF ReapIdle
  <2>11. CASE UNCHANGED mcpVars
    BY <2>11 DEF mcpVars, McpInv, McpTypeOK, TableTrue, InHand
  <2> QED
    BY <2>1, <2>2, <2>3, <2>4, <2>5, <2>6, <2>7, <2>8, <2>9, <2>10, <2>11 DEF McpNext, User, Goes
<1> QED
  BY <1>1, <1>2, PTL DEF McpSpec

\* No run leaves the types.
THEOREM McpTyped == McpSpec => []McpTypeOK
<1>1. McpInv => McpTypeOK
  BY DEF McpInv
<1> QED
  BY <1>1, McpInductive, PTL

\* A server's process that runs is the one in the table, was replaced there, or
\* was sent the signal; the one in the table is not over and dealt with; and a
\* server that is off or deleted has a client only if that was started afterwards
\* or mcp.json was rewritten under it (mcp.js: connect, disconnectOne,
\* setEnabled, importMcpServersJson).
THEOREM TableIsTrue == McpSpec => []TableTrue
<1>1. McpInv => TableTrue
  BY DEF McpInv
<1> QED
  BY <1>1, McpInductive, PTL

\* Nobody waits for the server without a request that can be rejected, and a
\* request outlives the exit event of its client, with nothing but its timer to
\* end it, only when overlapping connects replaced that client in the table.
WaitsEnd == \A u \in Users :
    /\ place[u] \in {"initialize", "tools/list", "call"} => u \in pending
    /\ u \in pending /\ proc[with[u]] = "gone" => with[u] \in replaced

\* The exit event rejects every request of the client in the table, so that
\* only those on a replaced client are left to their timers: WaitsEnd.
THEOREM NobodyForgotten == McpSpec => []WaitsEnd
<1>1. McpInv => WaitsEnd
  BY ClientAssumption DEF McpInv, McpTypeOK, TableTrue, InHand, WaitsEnd
<1> QED
  BY <1>1, McpInductive, PTL
=============================================================================
