------------------------------ MODULE DeskProofs ------------------------------
(* Safety of Desk for every number of prompts, engines, sessions, requests,  *)
(* relaunches and upsets: the queue of the panel, the flag of its engines, and *)
(* the types of the state.                                                   *)
EXTENDS Desk, SequenceTheorems, FiniteSetTheorems, TLAPS

\* The types of what the flags and the queue depend on.
RunTypes ==
    /\ pc \in [Calls -> Steps] /\ by \in [Calls -> Engines \cup {None}]
    /\ busy \in [Engines -> BOOLEAN] /\ overruled \subseteq Engines
    /\ eng \in Engines \cup {None} /\ queue \in Seq(Calls)

\* A run has an engine, whose flag is up unless it was overruled.
FlagOfRun == \A c \in Calls : pc[c] \in InRun =>
    by[c] \in Engines /\ (busy[by[c]] = TRUE \/ by[c] \in overruled)

Runs == FlagOfRun /\ FlagFollowsRun /\ OneRunUnlessOverruled

\* A queued prompt waits once.
QueuedOnce == /\ \A i \in 1 .. Len(queue) : pc[queue[i]] = "queued"
              /\ \A i, j \in 1 .. Len(queue) : queue[i] = queue[j] => i = j

\* The last poll of a run is the only one, and the run awaits it.
LastPolls == /\ \A p \in polls : p.c # None =>
                   p.c \in Calls /\ pc[p.c] = "polling" /\ p.e = by[p.c]
             /\ \A p, q \in polls : p.c # None /\ p.c = q.c => p = q

IInv == RunTypes /\ Runs /\ QueuedOnce /\ LastPolls /\ QueueAwaits

-----------------------------------------------------------------------------
(* What a step can do to the runs: nothing, end one, or begin one.           *)

SameRuns ==
    /\ UNCHANGED <<by, busy, overruled>> /\ pc' \in [Calls -> Steps]
    /\ \A c \in Calls : pc'[c] \in InRun <=> pc[c] \in InRun

EndsRun(c) ==
    /\ pc[c] \in InRun /\ UNCHANGED <<by, overruled>>
    /\ busy' = [busy EXCEPT ![by[c]] = FALSE]
    /\ \E d \in Steps \ InRun : pc' = [pc EXCEPT ![c] = d]

LEMMA SameRunsKeep ==
    ASSUME RunTypes, Runs, SameRuns
    PROVE  Runs'
  BY DEF RunTypes, Runs, FlagOfRun, FlagFollowsRun, OneRunUnlessOverruled, InRunOf, SameRuns

LEMMA EndsRunKeeps ==
    ASSUME RunTypes, Runs, NEW c \in Calls, EndsRun(c)
    PROVE  Runs' /\ pc' \in [Calls -> Steps] /\ busy' \in [Engines -> BOOLEAN]
<1> USE DEF RunTypes, Runs, EndsRun
<1>1. PICK d \in Steps \ InRun : pc' = [pc EXCEPT ![c] = d]
  OBVIOUS
<1>2. by[c] \in Engines
  BY DEF FlagOfRun
<1>3. pc' \in [Calls -> Steps] /\ busy' \in [Engines -> BOOLEAN]
  BY <1>1
<1>4. OneRunUnlessOverruled'
  BY <1>1, <1>2 DEF OneRunUnlessOverruled, InRunOf
<1>5. FlagOfRun'
  BY <1>1, <1>2 DEF FlagOfRun, OneRunUnlessOverruled, InRunOf
<1>6. FlagFollowsRun'
  BY <1>1, <1>2 DEF FlagFollowsRun, InRunOf
<1> QED
  BY <1>3, <1>4, <1>5, <1>6

\* A refused run: the engine fails, overruled if it was busy.
Refused(c, e) ==
    /\ pc' = [pc EXCEPT ![c] = "over"] /\ by' = by
    /\ busy' = [busy EXCEPT ![e] = FALSE]
    /\ overruled' = IF busy[e] THEN overruled \cup {e} ELSE overruled

Begun(c, e) ==
    /\ ~busy[e]
    /\ pc' = [pc EXCEPT ![c] = "gate"] /\ by' = [by EXCEPT ![c] = e]
    /\ busy' = [busy EXCEPT ![e] = TRUE] /\ overruled' = overruled

LEMMA BeginKeeps ==
    ASSUME RunTypes, Runs, NEW c \in Calls, NEW e \in Engines, pc[c] \notin InRun,
           Refused(c, e) \/ Begun(c, e)
    PROVE  /\ Runs' /\ pc' \in [Calls -> Steps] /\ by' \in [Calls -> Engines \cup {None}]
           /\ busy' \in [Engines -> BOOLEAN] /\ overruled' \subseteq Engines
           /\ \A d \in Calls : d # c => pc'[d] = pc[d] /\ by'[d] = by[d]
<1> USE DEF RunTypes, Runs
<1>s. "over" \in Steps /\ "gate" \in Steps /\ "over" \notin InRun /\ "gate" \in InRun
  BY DEF Steps, Flight, InRun
<1>1. CASE Refused(c, e)
  <2> USE <1>1, <1>s DEF Refused
  <2>1. OneRunUnlessOverruled'
    BY DEF OneRunUnlessOverruled, InRunOf
  <2>2. FlagOfRun'
    BY DEF FlagOfRun
  <2>3. FlagFollowsRun'
    BY DEF FlagFollowsRun, InRunOf
  <2> QED
    BY <2>1, <2>2, <2>3
<1>2. CASE Begun(c, e)
  <2> USE <1>2, <1>s DEF Begun
  <2>1. OneRunUnlessOverruled'
    BY DEF OneRunUnlessOverruled, FlagOfRun, InRunOf
  <2>2. FlagOfRun'
    BY DEF FlagOfRun
  <2>3. FlagFollowsRun'
    BY DEF FlagFollowsRun, InRunOf
  <2> QED
    BY <2>1, <2>2, <2>3
<1> QED
  BY <1>1, <1>2

LEMMA BeginCases ==
    ASSUME NEW c, NEW e, NEW s, NEW l, RunTypes, Begin(c, e, s, l)
    PROVE  /\ Refused(c, e) \/ Begun(c, e)
           /\ running' = TRUE \/ draining' = TRUE
  BY DEF Begin, Fail, OnDone, Refused, Begun, RunTypes

-----------------------------------------------------------------------------
LEMMA DeskInductive == Spec => []IInv
<1>1. Init => IInv
  BY DeskAssumption DEF Init, IInv, RunTypes, Runs, FlagOfRun, FlagFollowsRun, OneRunUnlessOverruled,
     QueuedOnce, LastPolls, QueueAwaits, InRunOf, InRun, Flight, Steps
<1>2. IInv /\ [Next]_vars => IInv'
  <2> SUFFICES ASSUME IInv, [Next]_vars PROVE IInv'
    OBVIOUS
  <2> USE DEF IInv, panel, engine, calls, host, server, net, hist
  <2>s. /\ Flight \subseteq Steps /\ InRun \subseteq Flight
        /\ {"gate", "create", "mode", "post", "stream", "wrapup", "polling"} = InRun
        /\ {"tail", "idle", "moving", "queued", "over", "dropped", "stuck"} \subseteq Steps \ InRun
    BY DEF Steps, Flight, InRun
  <2>1. CASE Drain /\ UNCHANGED upsets
    <3> USE <2>1 DEF Drain, RunOne
    <3>e. CASE queue = <<>>
      BY <3>e DEF RunTypes, Runs, FlagOfRun, FlagFollowsRun, OneRunUnlessOverruled, InRunOf,
         QueuedOnce, LastPolls, QueueAwaits
    <3>n. CASE queue # <<>>
      <4> DEFINE c == Head(queue)
      <4>h. /\ c \in Calls /\ c = queue[1] /\ Len(queue) \in Nat \ {0}
            /\ Tail(queue) \in Seq(Calls) /\ Len(Tail(queue)) = Len(queue) - 1
            /\ \A i \in 1 .. Len(queue) - 1 : Tail(queue)[i] = queue[i + 1]
        BY <3>n DEF RunTypes
      <4>q. pc[c] = "queued"
        BY <4>h DEF QueuedOnce
      <4>1. PICK e \in Engines : \E l : Begin(c, e, resume, l) /\ eng' = e
        BY <3>n
      <4>2. queue' = Tail(queue) /\ polls' = polls
        BY <3>n
      <4> HIDE DEF c
      <4>3. Refused(c, e) \/ Begun(c, e)
        BY <4>1, BeginCases
      <4>4. /\ Runs' /\ pc' \in [Calls -> Steps] /\ by' \in [Calls -> Engines \cup {None}]
            /\ busy' \in [Engines -> BOOLEAN] /\ overruled' \subseteq Engines
            /\ \A d \in Calls : d # c => pc'[d] = pc[d] /\ by'[d] = by[d]
        BY <2>s, <4>h, <4>q, <4>3, BeginKeeps
      <4>5. RunTypes'
        BY <4>1, <4>2, <4>4, <4>h DEF RunTypes
      <4>6. QueuedOnce'
        <5>1. \A i \in 1 .. Len(queue) : queue[i] \in Calls
          BY DEF RunTypes
        <5>2. \A i \in 1 .. Len(queue) - 1 :
                 /\ i + 1 \in 1 .. Len(queue) /\ 1 \in 1 .. Len(queue)
                 /\ queue[i + 1] # c
          BY <4>h DEF QueuedOnce
        <5>3. \A i \in 1 .. Len(queue') :
                 /\ i \in 1 .. Len(queue) - 1 /\ i + 1 \in 1 .. Len(queue)
                 /\ queue'[i] = queue[i + 1]
          BY <4>2, <4>h, <5>2
        <5> HIDE DEF Drain
        <5>4. \A i \in 1 .. Len(queue') : pc'[queue'[i]] = "queued"
          BY <4>4, <5>1, <5>2, <5>3 DEF QueuedOnce
        <5>5. \A i, j \in 1 .. Len(queue') : queue'[i] = queue'[j] => i = j
          BY <4>h, <5>3 DEF QueuedOnce
        <5> QED
          BY <5>4, <5>5 DEF QueuedOnce
      <4>7. LastPolls'
        BY <4>2, <4>4, <4>q DEF LastPolls
      <4>8. QueueAwaits'
        BY <4>1, BeginCases DEF QueueAwaits
      <4> QED
        BY <4>4, <4>5, <4>6, <4>7, <4>8
    <3> QED
      BY <3>e, <3>n
  <2>2. CASE \E c \in Calls : Send(c)
    <3> SUFFICES ASSUME NEW c \in Calls, Send(c) PROVE IInv'
      BY <2>2
    <3> USE DEF Send, RunOne, Prompt, Unused
    <3>c. pc[c] = "idle"
      OBVIOUS
    <3>r. CASE running
      <4>f. /\ queue' = Append(queue, c) /\ pc' = [pc EXCEPT ![c] = "queued"]
            /\ UNCHANGED <<by, busy, overruled, polls, running>>
            /\ eng' \in Engines \cup {None}
        BY <3>r DEF RunTypes
      <4> HIDE DEF Send
      <4>0. SameRuns
        BY <2>s, <3>c, <4>f DEF SameRuns, RunTypes
      <4>1. RunTypes'
        <5>1. queue' \in Seq(Calls)
          BY <4>f DEF RunTypes
        <5> QED
          BY <4>0, <4>f, <5>1 DEF SameRuns, RunTypes
      <4>2. QueuedOnce'
        <5>1. /\ Len(queue) \in Nat
              /\ Len(queue') = Len(queue) + 1 /\ queue'[Len(queue) + 1] = c
              /\ \A i \in 1 .. Len(queue) : queue'[i] = queue[i] /\ queue[i] \in Calls
          BY <4>f DEF RunTypes
        <5>2. pc \in [Calls -> Steps]
          BY DEF RunTypes
        <5>3. \A i \in 1 .. Len(queue) : queue[i] # c
          BY <3>c DEF QueuedOnce
        <5>4. \A i \in 1 .. Len(queue') : i \in 1 .. Len(queue) \/ i = Len(queue) + 1
          BY <5>1
        <5>5. \A i \in 1 .. Len(queue') : pc'[queue'[i]] = "queued"
          BY <4>f, <5>1, <5>2, <5>3, <5>4 DEF QueuedOnce
        <5>6. \A i, j \in 1 .. Len(queue') : queue'[i] = queue'[j] => i = j
          BY <5>1, <5>3, <5>4 DEF QueuedOnce
        <5> QED
          BY <5>5, <5>6 DEF QueuedOnce
      <4>3. LastPolls'
        BY <3>c, <4>f DEF LastPolls, RunTypes
      <4>4. QueueAwaits'
        BY <3>r, <4>f DEF QueueAwaits
      <4> QED
        BY <4>0, <4>1, <4>2, <4>3, <4>4, SameRunsKeep
    <3>n. CASE ~running
      <4>1. PICK e \in Engines : \E s, l : Begin(c, e, s, l) /\ eng' = e
        BY <3>n
      <4>2. queue' = queue /\ polls' = polls
        BY <3>n
      <4> HIDE DEF Send
      <4>3. Refused(c, e) \/ Begun(c, e)
        BY <4>1, BeginCases
      <4>4. /\ Runs' /\ pc' \in [Calls -> Steps] /\ by' \in [Calls -> Engines \cup {None}]
            /\ busy' \in [Engines -> BOOLEAN] /\ overruled' \subseteq Engines
            /\ \A d \in Calls : d # c => pc'[d] = pc[d] /\ by'[d] = by[d]
        BY <2>s, <3>c, <4>3, BeginKeeps
      <4>5. RunTypes'
        BY <4>1, <4>2, <4>4 DEF RunTypes
      <4>6. QueuedOnce'
        BY <3>c, <4>2, <4>4 DEF QueuedOnce, RunTypes
      <4>7. LastPolls'
        BY <3>c, <4>2, <4>4 DEF LastPolls
      <4>8. QueueAwaits'
        BY <4>1, BeginCases DEF QueueAwaits
      <4> QED
        BY <4>4, <4>5, <4>6, <4>7, <4>8
    <3> QED
      BY <3>r, <3>n
  <2>3. CASE \E c \in Calls : Moved(c)
    <3> SUFFICES ASSUME NEW c \in Calls, Moved(c) PROVE IInv'
      BY <2>3
    <3> USE DEF Moved, RunOne
    <3>c. pc[c] = "moving"
      OBVIOUS
    <3>r. CASE running
      <4>f. /\ queue' = Append(queue, c) /\ pc' = [pc EXCEPT ![c] = "queued"]
            /\ UNCHANGED <<by, busy, overruled, polls, running>>
            /\ eng' \in Engines \cup {None}
        BY <3>r DEF RunTypes
      <4> HIDE DEF Moved
      <4>0. SameRuns
        BY <2>s, <3>c, <4>f DEF SameRuns, RunTypes
      <4>1. RunTypes'
        <5>1. queue' \in Seq(Calls)
          BY <4>f DEF RunTypes
        <5> QED
          BY <4>0, <4>f, <5>1 DEF SameRuns, RunTypes
      <4>2. QueuedOnce'
        <5>1. /\ Len(queue) \in Nat
              /\ Len(queue') = Len(queue) + 1 /\ queue'[Len(queue) + 1] = c
              /\ \A i \in 1 .. Len(queue) : queue'[i] = queue[i] /\ queue[i] \in Calls
          BY <4>f DEF RunTypes
        <5>2. pc \in [Calls -> Steps]
          BY DEF RunTypes
        <5>3. \A i \in 1 .. Len(queue) : queue[i] # c
          BY <3>c DEF QueuedOnce
        <5>4. \A i \in 1 .. Len(queue') : i \in 1 .. Len(queue) \/ i = Len(queue) + 1
          BY <5>1
        <5>5. \A i \in 1 .. Len(queue') : pc'[queue'[i]] = "queued"
          BY <4>f, <5>1, <5>2, <5>3, <5>4 DEF QueuedOnce
        <5>6. \A i, j \in 1 .. Len(queue') : queue'[i] = queue'[j] => i = j
          BY <5>1, <5>3, <5>4 DEF QueuedOnce
        <5> QED
          BY <5>5, <5>6 DEF QueuedOnce
      <4>3. LastPolls'
        BY <3>c, <4>f DEF LastPolls, RunTypes
      <4>4. QueueAwaits'
        BY <3>r, <4>f DEF QueueAwaits
      <4> QED
        BY <4>0, <4>1, <4>2, <4>3, <4>4, SameRunsKeep
    <3>n. CASE ~running
      <4>1. PICK e \in Engines : \E s, l : Begin(c, e, s, l) /\ eng' = e
        BY <3>n
      <4>2. queue' = queue /\ polls' = polls
        BY <3>n
      <4> HIDE DEF Moved
      <4>3. Refused(c, e) \/ Begun(c, e)
        BY <4>1, BeginCases
      <4>4. /\ Runs' /\ pc' \in [Calls -> Steps] /\ by' \in [Calls -> Engines \cup {None}]
            /\ busy' \in [Engines -> BOOLEAN] /\ overruled' \subseteq Engines
            /\ \A d \in Calls : d # c => pc'[d] = pc[d] /\ by'[d] = by[d]
        BY <2>s, <3>c, <4>3, BeginKeeps
      <4>5. RunTypes'
        BY <4>1, <4>2, <4>4 DEF RunTypes
      <4>6. QueuedOnce'
        BY <3>c, <4>2, <4>4 DEF QueuedOnce, RunTypes
      <4>7. LastPolls'
        BY <3>c, <4>2, <4>4 DEF LastPolls
      <4>8. QueueAwaits'
        BY <4>1, BeginCases DEF QueueAwaits
      <4> QED
        BY <4>4, <4>5, <4>6, <4>7, <4>8
    <3> QED
      BY <3>r, <3>n
  <2>4. CASE \E c \in Calls : Continue(c)
    <3> SUFFICES ASSUME NEW c \in Calls, Continue(c) PROVE IInv'
      BY <2>4
    <3> USE DEF Continue, Prompt, Unused
    <3>c. pc[c] = "idle"
      OBVIOUS
    <3>g. eng \in Engines
      BY DEF RunTypes
    <3>0. SameRuns \/ Refused(c, eng) \/ Begun(c, eng)
      <4>1. CASE ~decided[eng]
        BY <2>s, <3>c, <4>1 DEF SameRuns, RunTypes
      <4>2. CASE decided[eng] /\ Begin(c, eng, last[eng], link[eng])
        BY <4>2, BeginCases
      <4>3. CASE decided[eng] /\ (busy[eng] \/ ~Ready(eng))
        BY <4>3 DEF Refused, Fail
      <4> QED
        BY <4>1, <4>2, <4>3
    <3>b. /\ Runs' /\ pc' \in [Calls -> Steps] /\ by' \in [Calls -> Engines \cup {None}]
          /\ busy' \in [Engines -> BOOLEAN] /\ overruled' \subseteq Engines
      BY <2>s, <3>0, <3>c, <3>g, SameRunsKeep, BeginKeeps DEF SameRuns, RunTypes
    <3>d. \A d \in Calls : d # c => pc'[d] = pc[d] /\ by'[d] = by[d]
      <4>1. CASE ~decided[eng]
        BY <4>1 DEF RunTypes
      <4>2. CASE Refused(c, eng) \/ Begun(c, eng)
        BY <2>s, <3>c, <3>g, <4>2, BeginKeeps
      <4> QED
        BY <4>1, <4>2, BeginCases DEF Refused, Fail
    <3>1. RunTypes'
      BY <3>b DEF RunTypes
    <3>2. Runs'
      BY <3>b
    <3>3. QueuedOnce'
      BY <3>c, <3>d DEF QueuedOnce, RunTypes
    <3>4. LastPolls'
      BY <3>c, <3>d DEF LastPolls
    <3>5. QueueAwaits'
      <4>1. CASE ~decided[eng]
        BY <4>1 DEF QueueAwaits
      <4>2. CASE decided[eng] /\ Begin(c, eng, last[eng], link[eng])
        BY <4>2, BeginCases DEF QueueAwaits
      <4>3. CASE decided[eng] /\ (busy[eng] \/ ~Ready(eng))
        BY <4>3 DEF QueueAwaits, Fail, OnDone
      <4> QED
        BY <4>1, <4>2, <4>3
    <3> QED
      BY <3>1, <3>2, <3>3, <3>4, <3>5
  <2>5. CASE \E c \in Calls : Gate(c)
    <3> SUFFICES ASSUME NEW c \in Calls, Gate(c) PROVE IInv'
      BY <2>5
    <3> USE DEF Gate, FailRun, Fail, OnDone, Goto
    <3>0. SameRuns \/ EndsRun(c)
      BY <2>s DEF SameRuns, EndsRun, RunTypes
    <3>1. RunTypes'
      BY <3>0, EndsRunKeeps DEF SameRuns, EndsRun, RunTypes
    <3>2. Runs'
      BY <3>0, SameRunsKeep, EndsRunKeeps
    <3>3. QueuedOnce'
      BY DEF QueuedOnce, RunTypes
    <3>4. LastPolls'
      BY DEF LastPolls, RunTypes
    <3>5. QueueAwaits'
      BY DEF QueueAwaits
    <3> QED
      BY <3>1, <3>2, <3>3, <3>4, <3>5
  <2>6. CASE \E c \in Calls : Create(c)
    <3> SUFFICES ASSUME NEW c \in Calls, Create(c) PROVE IInv'
      BY <2>6
    <3> USE DEF Create, FailRun, Fail, OnDone, Goto
    <3>0. SameRuns \/ EndsRun(c)
      BY <2>s DEF SameRuns, EndsRun, RunTypes
    <3>1. RunTypes'
      BY <3>0, EndsRunKeeps DEF SameRuns, EndsRun, RunTypes
    <3>2. Runs'
      BY <3>0, SameRunsKeep, EndsRunKeeps
    <3>3. QueuedOnce'
      BY DEF QueuedOnce, RunTypes
    <3>4. LastPolls'
      BY DEF LastPolls, RunTypes
    <3>5. QueueAwaits'
      BY DEF QueueAwaits
    <3> QED
      BY <3>1, <3>2, <3>3, <3>4, <3>5
  <2>7. CASE \E c \in Calls : SetMode(c)
    <3> SUFFICES ASSUME NEW c \in Calls, SetMode(c) PROVE IInv'
      BY <2>7
    <3> USE DEF SetMode, FailRun, Fail, OnDone, Goto
    <3>0. SameRuns \/ EndsRun(c)
      BY <2>s DEF SameRuns, EndsRun, RunTypes
    <3>1. RunTypes'
      BY <3>0, EndsRunKeeps DEF SameRuns, EndsRun, RunTypes
    <3>2. Runs'
      BY <3>0, SameRunsKeep, EndsRunKeeps
    <3>3. QueuedOnce'
      BY DEF QueuedOnce, RunTypes
    <3>4. LastPolls'
      BY DEF LastPolls, RunTypes
    <3>5. QueueAwaits'
      BY DEF QueueAwaits
    <3> QED
      BY <3>1, <3>2, <3>3, <3>4, <3>5
  <2>8. CASE \E c \in Calls : Post(c)
    <3> SUFFICES ASSUME NEW c \in Calls, Post(c) PROVE IInv'
      BY <2>8
    <3> USE DEF Post, Goto
    <3>0. SameRuns
      BY <2>s DEF SameRuns, RunTypes
    <3>1. RunTypes'
      BY <3>0 DEF SameRuns, RunTypes
    <3>2. Runs'
      BY <3>0, SameRunsKeep
    <3>3. QueuedOnce'
      BY DEF QueuedOnce, RunTypes
    <3>4. LastPolls'
      BY DEF LastPolls, RunTypes
    <3>5. QueueAwaits'
      BY DEF QueueAwaits
    <3> QED
      BY <3>1, <3>2, <3>3, <3>4, <3>5
  <2>9. CASE \E c \in Calls : TurnEnds(c)
    <3> SUFFICES ASSUME NEW c \in Calls, TurnEnds(c) PROVE IInv'
      BY <2>9
    <3> USE DEF TurnEnds, Goto
    <3>0. SameRuns
      BY <2>s DEF SameRuns, RunTypes
    <3>1. RunTypes'
      BY <3>0 DEF SameRuns, RunTypes
    <3>2. Runs'
      BY <3>0, SameRunsKeep
    <3>3. QueuedOnce'
      BY DEF QueuedOnce, RunTypes
    <3>4. LastPolls'
      BY DEF LastPolls, RunTypes
    <3>5. QueueAwaits'
      BY DEF QueueAwaits
    <3> QED
      BY <3>1, <3>2, <3>3, <3>4, <3>5
  <2>10. CASE \E c \in Calls : StreamTimeout(c)
    <3> SUFFICES ASSUME NEW c \in Calls, StreamTimeout(c) PROVE IInv'
      BY <2>10
    <3> USE DEF StreamTimeout, Goto
    <3>0. SameRuns
      BY <2>s DEF SameRuns, RunTypes
    <3>1. RunTypes'
      BY <3>0 DEF SameRuns, RunTypes
    <3>2. Runs'
      BY <3>0, SameRunsKeep
    <3>3. QueuedOnce'
      BY DEF QueuedOnce, RunTypes
    <3>4. LastPolls'
      BY DEF LastPolls, RunTypes
    <3>5. QueueAwaits'
      BY DEF QueueAwaits
    <3> QED
      BY <3>1, <3>2, <3>3, <3>4, <3>5
  <2>11. CASE \E c \in Calls : TurnAsks(c)
    <3> SUFFICES ASSUME NEW c \in Calls, TurnAsks(c) PROVE IInv'
      BY <2>11
    <3> USE DEF TurnAsks
    <3>0. SameRuns
      BY <2>s DEF SameRuns, RunTypes
    <3>1. RunTypes'
      BY <3>0 DEF SameRuns, RunTypes
    <3>2. Runs'
      BY <3>0, SameRunsKeep
    <3>3. QueuedOnce'
      BY DEF QueuedOnce, RunTypes
    <3>4. LastPolls'
      BY DEF LastPolls, RunTypes
    <3>5. QueueAwaits'
      BY DEF QueueAwaits
    <3> QED
      BY <3>1, <3>2, <3>3, <3>4, <3>5
  <2>12. CASE \E c \in Calls : LastPoll(c)
    <3> SUFFICES ASSUME NEW c \in Calls, LastPoll(c) PROVE IInv'
      BY <2>12
    <3> USE DEF LastPoll, Goto
    <3>0. SameRuns
      BY <2>s DEF SameRuns, RunTypes
    <3>1. RunTypes'
      BY <3>0 DEF SameRuns, RunTypes
    <3>2. Runs'
      BY <3>0, SameRunsKeep
    <3>3. QueuedOnce'
      BY DEF QueuedOnce, RunTypes
    <3>4. LastPolls'
      <4> DEFINE q == [e |-> by[c], c |-> c,
                       seen |-> IF Ready(by[c]) THEN Listed(sid[c]) ELSE {}]
      <4>1. q.e = by[c] /\ q.c = c /\ polls' = polls \cup {q}
        OBVIOUS
      <4> HIDE DEF q
      <4>2. pc' = [pc EXCEPT ![c] = "polling"] /\ pc[c] = "wrapup" /\ by' = by
        OBVIOUS
      <4>3. \A p \in polls : p.c # c \/ p.c = None
        BY <4>2 DEF LastPolls
      <4>4. c # None
        BY DeskAssumption
      <4> HIDE DEF LastPoll
      <4> QED
        BY <4>1, <4>2, <4>3, <4>4 DEF LastPolls, RunTypes
    <3>5. QueueAwaits'
      BY DEF QueueAwaits
    <3> QED
      BY <3>1, <3>2, <3>3, <3>4, <3>5
  <2>13. CASE \E c \in Calls : Done(c)
    <3> SUFFICES ASSUME NEW c \in Calls, Done(c) PROVE IInv'
      BY <2>13
    <3> USE DEF Done, Goto, OnDone
    <3>0. SameRuns
      BY <2>s DEF SameRuns, RunTypes
    <3>1. RunTypes'
      BY <3>0 DEF SameRuns, RunTypes
    <3>2. Runs'
      BY <3>0, SameRunsKeep
    <3>3. QueuedOnce'
      BY DEF QueuedOnce, RunTypes
    <3>4. LastPolls'
      BY DEF LastPolls, RunTypes
    <3>5. QueueAwaits'
      BY DEF QueueAwaits
    <3> QED
      BY <3>1, <3>2, <3>3, <3>4, <3>5
  <2>14. CASE \E c \in Calls : SendMoved(c)
    <3> SUFFICES ASSUME NEW c \in Calls, SendMoved(c) PROVE IInv'
      BY <2>14
    <3> USE DEF SendMoved, Prompt, Unused
    <3>0. SameRuns
      BY <2>s DEF SameRuns, RunTypes
    <3>1. RunTypes'
      BY <3>0 DEF SameRuns, RunTypes
    <3>2. Runs'
      BY <3>0, SameRunsKeep
    <3>3. QueuedOnce'
      BY DEF QueuedOnce, RunTypes
    <3>4. LastPolls'
      BY DEF LastPolls, RunTypes
    <3>5. QueueAwaits'
      BY DEF QueueAwaits
    <3> QED
      BY <3>1, <3>2, <3>3, <3>4, <3>5
  <2>15. CASE \E k \in Requests : Click(k)
    <3> SUFFICES ASSUME NEW k \in Requests, Click(k) PROVE IInv'
      BY <2>15
    <3> USE DEF Click
    <3>0. SameRuns
      BY <2>s DEF SameRuns, RunTypes
    <3>1. RunTypes'
      BY <3>0 DEF SameRuns, RunTypes
    <3>2. Runs'
      BY <3>0, SameRunsKeep
    <3>3. QueuedOnce'
      BY DEF QueuedOnce, RunTypes
    <3>4. LastPolls'
      BY DEF LastPolls, RunTypes
    <3>5. QueueAwaits'
      BY DEF QueueAwaits
    <3> QED
      BY <3>1, <3>2, <3>3, <3>4, <3>5
  <2>16. CASE \E e \in Engines : PollAsked(e)
    <3> SUFFICES ASSUME NEW e \in Engines, PollAsked(e) PROVE IInv'
      BY <2>16
    <3> USE DEF PollAsked
    <3>0. SameRuns
      BY <2>s DEF SameRuns, RunTypes
    <3>1. RunTypes'
      BY <3>0 DEF SameRuns, RunTypes
    <3>2. Runs'
      BY <3>0, SameRunsKeep
    <3>3. QueuedOnce'
      BY DEF QueuedOnce, RunTypes
    <3>4. LastPolls'
      BY DEF LastPolls, RunTypes
    <3>5. QueueAwaits'
      BY DEF QueueAwaits
    <3> QED
      BY <3>1, <3>2, <3>3, <3>4, <3>5
  <2>17. CASE Stop
    <3> USE <2>17 DEF Stop
    <3>0. SameRuns
      BY <2>s DEF SameRuns, RunTypes
    <3>1. RunTypes'
      BY <3>0 DEF SameRuns, RunTypes
    <3>2. Runs'
      BY <3>0, SameRunsKeep
    <3>3. QueuedOnce'
      BY DEF QueuedOnce, RunTypes
    <3>4. LastPolls'
      BY DEF LastPolls, RunTypes
    <3>5. QueueAwaits'
      BY DEF QueueAwaits
    <3> QED
      BY <3>1, <3>2, <3>3, <3>4, <3>5
  <2>18. CASE Clear
    <3> USE <2>18 DEF Clear
    <3>0. SameRuns
      BY <2>s DEF SameRuns, RunTypes
    <3>1. RunTypes'
      BY <3>0 DEF SameRuns, RunTypes
    <3>2. Runs'
      BY <3>0, SameRunsKeep
    <3>3. QueuedOnce'
      BY DEF QueuedOnce, RunTypes
    <3>4. LastPolls'
      BY DEF LastPolls, RunTypes
    <3>5. QueueAwaits'
      BY DEF QueueAwaits
    <3> QED
      BY <3>1, <3>2, <3>3, <3>4, <3>5
  <2>19. CASE NewSession
    <3> USE <2>19 DEF NewSession
    <3>0. SameRuns
      BY <2>s DEF SameRuns, RunTypes
    <3>1. RunTypes'
      BY <3>0 DEF SameRuns, RunTypes
    <3>2. Runs'
      BY <3>0, SameRunsKeep
    <3>3. QueuedOnce'
      BY DEF QueuedOnce, RunTypes
    <3>4. LastPolls'
      BY DEF LastPolls, RunTypes
    <3>5. QueueAwaits'
      BY DEF QueueAwaits
    <3> QED
      BY <3>1, <3>2, <3>3, <3>4, <3>5
  <2>20. CASE Relaunch
    <3> USE <2>20 DEF Relaunch, Goes
    <3>0. SameRuns
      BY <2>s DEF SameRuns, RunTypes
    <3>1. RunTypes'
      BY <3>0 DEF SameRuns, RunTypes
    <3>2. Runs'
      BY <3>0, SameRunsKeep
    <3>3. QueuedOnce'
      BY DEF QueuedOnce, RunTypes
    <3>4. LastPolls'
      BY DEF LastPolls, RunTypes
    <3>5. QueueAwaits'
      BY DEF QueueAwaits
    <3> QED
      BY <3>1, <3>2, <3>3, <3>4, <3>5
  <2>21. CASE Crash
    <3> USE <2>21 DEF Crash, Goes
    <3>0. SameRuns
      BY <2>s DEF SameRuns, RunTypes
    <3>1. RunTypes'
      BY <3>0 DEF SameRuns, RunTypes
    <3>2. Runs'
      BY <3>0, SameRunsKeep
    <3>3. QueuedOnce'
      BY DEF QueuedOnce, RunTypes
    <3>4. LastPolls'
      BY DEF LastPolls, RunTypes
    <3>5. QueueAwaits'
      BY DEF QueueAwaits
    <3> QED
      BY <3>1, <3>2, <3>3, <3>4, <3>5
  <2>22. CASE \E s \in Sessions : ResumeSession(s)
    <3> SUFFICES ASSUME NEW s \in Sessions, ResumeSession(s) PROVE IInv'
      BY <2>22
    <3> USE DEF ResumeSession
    <3>0. SameRuns
      BY <2>s DEF SameRuns, RunTypes
    <3>1. RunTypes'
      BY <3>0 DEF SameRuns, RunTypes
    <3>2. Runs'
      BY <3>0, SameRunsKeep
    <3>3. QueuedOnce'
      BY DEF QueuedOnce, RunTypes
    <3>4. LastPolls'
      BY DEF LastPolls, RunTypes
    <3>5. QueueAwaits'
      BY DEF QueueAwaits
    <3> QED
      BY <3>1, <3>2, <3>3, <3>4, <3>5
  <2>23. CASE Renewed
    <3> USE <2>23 DEF Renewed
    <3>0. SameRuns
      BY <2>s DEF SameRuns, RunTypes
    <3>1. RunTypes'
      BY <3>0 DEF SameRuns, RunTypes
    <3>2. Runs'
      BY <3>0, SameRunsKeep
    <3>3. QueuedOnce'
      BY DEF QueuedOnce, RunTypes
    <3>4. LastPolls'
      BY DEF LastPolls, RunTypes
    <3>5. QueueAwaits'
      BY DEF QueueAwaits
    <3> QED
      BY <3>1, <3>2, <3>3, <3>4, <3>5
  <2>24. CASE Respawn
    <3> USE <2>24 DEF Respawn
    <3>0. SameRuns
      BY <2>s DEF SameRuns, RunTypes
    <3>1. RunTypes'
      BY <3>0 DEF SameRuns, RunTypes
    <3>2. Runs'
      BY <3>0, SameRunsKeep
    <3>3. QueuedOnce'
      BY DEF QueuedOnce, RunTypes
    <3>4. LastPolls'
      BY DEF LastPolls, RunTypes
    <3>5. QueueAwaits'
      BY DEF QueueAwaits
    <3> QED
      BY <3>1, <3>2, <3>3, <3>4, <3>5
  <2>25. CASE Launched
    <3> USE <2>25 DEF Launched
    <3>0. SameRuns
      BY <2>s DEF SameRuns, RunTypes
    <3>1. RunTypes'
      BY <3>0 DEF SameRuns, RunTypes
    <3>2. Runs'
      BY <3>0, SameRunsKeep
    <3>3. QueuedOnce'
      BY DEF QueuedOnce, RunTypes
    <3>4. LastPolls'
      BY DEF LastPolls, RunTypes
    <3>5. QueueAwaits'
      BY DEF QueueAwaits
    <3> QED
      BY <3>1, <3>2, <3>3, <3>4, <3>5
  <2>26. CASE \E s \in Sessions : AbortServed(s)
    <3> SUFFICES ASSUME NEW s \in Sessions, AbortServed(s) PROVE IInv'
      BY <2>26
    <3> USE DEF AbortServed, Goto
    <3>0. SameRuns
      BY <2>s DEF SameRuns, RunTypes
    <3>1. RunTypes'
      BY <3>0 DEF SameRuns, RunTypes
    <3>2. Runs'
      BY <3>0, SameRunsKeep
    <3>3. QueuedOnce'
      BY DEF QueuedOnce, RunTypes
    <3>4. LastPolls'
      BY DEF LastPolls, RunTypes
    <3>5. QueueAwaits'
      BY DEF QueueAwaits
    <3> QED
      BY <3>1, <3>2, <3>3, <3>4, <3>5
  <2>27. CASE \E p \in polls : PollDelivered(p)
    <3> SUFFICES ASSUME NEW p \in polls, PollDelivered(p) PROVE IInv'
      BY <2>27
    <3> USE DEF PollDelivered, Delivered
    <3>0. SameRuns
      BY <2>s DEF SameRuns, RunTypes
    <3>1. RunTypes'
      BY <3>0 DEF SameRuns, RunTypes
    <3>2. Runs'
      BY <3>0, SameRunsKeep
    <3>3. QueuedOnce'
      BY DEF QueuedOnce, RunTypes
    <3>4. LastPolls'
      BY DEF LastPolls, RunTypes
    <3>5. QueueAwaits'
      BY DEF QueueAwaits
    <3> QED
      BY <3>1, <3>2, <3>3, <3>4, <3>5
  <2>28. CASE \E p \in posts : Decide(p)
    <3> SUFFICES ASSUME NEW p \in posts, Decide(p) PROVE IInv'
      BY <2>28
    <3> USE DEF Decide
    <3>0. SameRuns
      BY <2>s DEF SameRuns, RunTypes
    <3>1. RunTypes'
      BY <3>0 DEF SameRuns, RunTypes
    <3>2. Runs'
      BY <3>0, SameRunsKeep
    <3>3. QueuedOnce'
      BY DEF QueuedOnce, RunTypes
    <3>4. LastPolls'
      BY DEF LastPolls, RunTypes
    <3>5. QueueAwaits'
      BY DEF QueueAwaits
    <3> QED
      BY <3>1, <3>2, <3>3, <3>4, <3>5
  <2>29. CASE \E p \in posts : Decided(p)
    <3> SUFFICES ASSUME NEW p \in posts, Decided(p) PROVE IInv'
      BY <2>29
    <3> USE DEF Decided
    <3>0. SameRuns
      BY <2>s DEF SameRuns, RunTypes
    <3>1. RunTypes'
      BY <3>0 DEF SameRuns, RunTypes
    <3>2. Runs'
      BY <3>0, SameRunsKeep
    <3>3. QueuedOnce'
      BY DEF QueuedOnce, RunTypes
    <3>4. LastPolls'
      BY DEF LastPolls, RunTypes
    <3>5. QueueAwaits'
      BY DEF QueueAwaits
    <3> QED
      BY <3>1, <3>2, <3>3, <3>4, <3>5
  <2>30. CASE \E p \in polls : Settle(p)
    <3> SUFFICES ASSUME NEW p \in polls, Settle(p) PROVE IInv'
      BY <2>30
    <3> USE DEF Settle, Delivered, FailRun, Fail, OnDone, Goto
    <3>p. p.c \in Calls /\ pc[p.c] = "polling" /\ p.e = by[p.c]
      BY DEF LastPolls
    <3>0. EndsRun(p.c)
      BY <2>s, <3>p DEF EndsRun, RunTypes
    <3>1. RunTypes'
      BY <3>0, <3>p, EndsRunKeeps DEF EndsRun, RunTypes
    <3>2. Runs'
      BY <3>0, <3>p, EndsRunKeeps
    <3>3. QueuedOnce'
      <4>1. queue' = queue /\ \A c \in Calls : c # p.c => pc'[c] = pc[c]
        BY <3>p DEF RunTypes
      <4>2. \A i \in 1 .. Len(queue) : queue[i] \in Calls /\ queue[i] # p.c
        BY <3>p DEF RunTypes, QueuedOnce
      <4> QED
        BY <4>1, <4>2 DEF QueuedOnce
    <3>4. LastPolls'
      BY DEF LastPolls, RunTypes
    <3>5. QueueAwaits'
      BY DEF QueueAwaits
    <3> QED
      BY <3>1, <3>2, <3>3, <3>4, <3>5
  <2>31. CASE UNCHANGED vars
    BY <2>31 DEF vars, RunTypes, Runs, FlagOfRun, FlagFollowsRun, OneRunUnlessOverruled,
       QueuedOnce, LastPolls, QueueAwaits, InRunOf
  <2> QED
    BY <2>1, <2>2, <2>3, <2>4, <2>5, <2>6, <2>7, <2>8, <2>9, <2>10, <2>11, <2>12, <2>13, <2>14, <2>15, <2>16, <2>17, <2>18, <2>19, <2>20, <2>21, <2>22, <2>23, <2>24, <2>25, <2>26, <2>27, <2>28, <2>29, <2>30, <2>31
    DEF Next, Upset, Routine, Background, Progress
<1> QED
  BY <1>1, <1>2, PTL DEF Spec

-----------------------------------------------------------------------------
(* Who waits is in the queue, and the panel that says running has a run.     *)

Afoot == Flight \cup {"stuck"}

Waiting == WaitsInQueue /\ PanelFollowsRun

\* A step that takes nobody into the queue or out of it.
LEMMA SameQueue ==
    ASSUME WaitsInQueue, queue' = queue, \A c \in Calls : pc'[c] = "queued" => pc[c] = "queued"
    PROVE  WaitsInQueue'
  BY DEF WaitsInQueue

\* A step that leaves running up leaves every run afoot.
LEMMA SameAfoot ==
    ASSUME PanelFollowsRun, running' => running,
           running' => \A c \in Calls : pc[c] \in Afoot => pc'[c] \in Afoot
    PROVE  PanelFollowsRun'
  BY DEF PanelFollowsRun, Afoot

LEMMA QueueAppended ==
    ASSUME RunTypes, WaitsInQueue, NEW c \in Calls,
           queue' = Append(queue, c), pc' = [pc EXCEPT ![c] = "queued"]
    PROVE  WaitsInQueue'
<1>1. /\ Len(queue) \in Nat
      /\ Len(queue') = Len(queue) + 1 /\ queue'[Len(queue) + 1] = c
      /\ \A i \in 1 .. Len(queue) : queue'[i] = queue[i]
  BY DEF RunTypes
<1>2. \A d \in Calls : d # c => pc'[d] = pc[d]
  BY DEF RunTypes
<1>3. ASSUME NEW d \in Calls, pc'[d] = "queued" PROVE \E i \in 1 .. Len(queue') : queue'[i] = d
  <2>1. CASE d = c
    BY <1>1, <2>1
  <2>2. CASE d # c
    <3>1. PICK i \in 1 .. Len(queue) : queue[i] = d
      BY <1>2, <1>3, <2>2 DEF WaitsInQueue
    <3> QED
      BY <1>1, <3>1
  <2> QED
    BY <2>1, <2>2
<1> QED
  BY <1>3 DEF WaitsInQueue

\* A run begun or refused: the panel follows it.
LEMMA BeginFollowed ==
    ASSUME RunTypes, NEW c \in Calls, NEW e, NEW s, NEW l, Begin(c, e, s, l)
    PROVE  PanelFollowsRun' /\ pc'[c] # "queued" /\ \A d \in Calls : d # c => pc'[d] = pc[d]
<1>1. running' => pc'[c] \in Flight
  BY DEF RunTypes, Begin, Fail, OnDone, Flight, InRun
<1>2. pc'[c] # "queued" /\ \A d \in Calls : d # c => pc'[d] = pc[d]
  BY DEF RunTypes, Begin
<1> QED
  BY <1>1, <1>2 DEF PanelFollowsRun

-----------------------------------------------------------------------------
LEMMA WaitingKept ==
    ASSUME IInv, Waiting, [Next]_vars
    PROVE  Waiting'
<1> USE DEF panel, engine, calls, host, server, net, hist
<1>t. RunTypes /\ LastPolls /\ QueuedOnce
  BY DEF IInv
<1>p. pc \in [Calls -> Steps]
  BY <1>t DEF RunTypes
<1>s. {"gate", "create", "mode", "post", "stream", "wrapup", "polling", "tail", "stuck"} = Afoot
  BY DEF Afoot, Flight, InRun
<1>1. CASE Drain
  <2> USE <1>1
  <2>e. CASE queue = <<>>
    <3>1. UNCHANGED <<queue, running, pc>>
      BY <2>e DEF Drain
    <3> QED
      BY <3>1, SameQueue, SameAfoot DEF Waiting
  <2>n. CASE queue # <<>>
    <3> DEFINE c == Head(queue)
    <3>h. /\ c \in Calls /\ c = queue[1] /\ Len(queue) \in Nat \ {0}
          /\ Len(Tail(queue)) = Len(queue) - 1
          /\ \A i \in 1 .. Len(queue) - 1 : Tail(queue)[i] = queue[i + 1]
      BY <1>t, <2>n DEF RunTypes
    <3>1. PICK e \in Engines : RunOne(c, e, resume)
      BY <2>n DEF Drain
    <3>2. queue' = Tail(queue)
      BY <2>n DEF Drain
    <3> HIDE DEF c
    <3>3. PanelFollowsRun' /\ pc'[c] # "queued" /\ \A d \in Calls : d # c => pc'[d] = pc[d]
      BY <1>t, <3>1, <3>h, BeginFollowed DEF RunOne
    <3>4. ASSUME NEW d \in Calls, pc'[d] = "queued" PROVE \E i \in 1 .. Len(queue') : queue'[i] = d
      <4>1. PICK i \in 1 .. Len(queue) : queue[i] = d
        BY <3>3, <3>4 DEF Waiting, WaitsInQueue
      <4>2. i - 1 \in 1 .. Len(queue) - 1
        BY <3>3, <3>4, <3>h, <4>1
      <4>3. Tail(queue)[i - 1] = queue[(i - 1) + 1] /\ (i - 1) + 1 = i
        BY <3>h, <4>2
      <4> QED
        BY <3>2, <3>h, <4>1, <4>2, <4>3
    <3> QED
      BY <3>3, <3>4 DEF Waiting, WaitsInQueue
  <2> QED
    BY <2>e, <2>n
<1>2. CASE \E c \in Calls : Send(c)
  <2> SUFFICES ASSUME NEW c \in Calls, Send(c) PROVE Waiting'
    BY <1>2
  <2>r. CASE running
    <3>1. queue' = Append(queue, c) /\ pc' = [pc EXCEPT ![c] = "queued"] /\ running' = running
      BY <2>r DEF Send
    <3>2. pc[c] \notin Afoot
      BY <1>s DEF Send, Prompt, Unused
    <3>3. WaitsInQueue'
      BY <1>t, <3>1, QueueAppended DEF Waiting
    <3>4. PanelFollowsRun'
      BY <1>p, <3>1, <3>2, SameAfoot DEF Waiting
    <3> QED
      BY <3>3, <3>4 DEF Waiting
  <2>n. CASE ~running
    <3>1. PICK e \in Engines : \E s : RunOne(c, e, s)
      BY <2>n DEF Send
    <3>2. queue' = queue
      BY <2>n DEF Send
    <3>3. PanelFollowsRun' /\ pc'[c] # "queued" /\ \A d \in Calls : d # c => pc'[d] = pc[d]
      BY <1>t, <3>1, BeginFollowed DEF RunOne
    <3>4. WaitsInQueue'
      BY <3>2, <3>3, SameQueue DEF Waiting
    <3> QED
      BY <3>3, <3>4 DEF Waiting
  <2> QED
    BY <2>r, <2>n
<1>3. CASE \E c \in Calls : Moved(c)
  <2> SUFFICES ASSUME NEW c \in Calls, Moved(c) PROVE Waiting'
    BY <1>3
  <2>r. CASE running
    <3>1. queue' = Append(queue, c) /\ pc' = [pc EXCEPT ![c] = "queued"] /\ running' = running
      BY <2>r DEF Moved
    <3>2. pc[c] \notin Afoot
      BY <1>s DEF Moved, Prompt, Unused
    <3>3. WaitsInQueue'
      BY <1>t, <3>1, QueueAppended DEF Waiting
    <3>4. PanelFollowsRun'
      BY <1>p, <3>1, <3>2, SameAfoot DEF Waiting
    <3> QED
      BY <3>3, <3>4 DEF Waiting
  <2>n. CASE ~running
    <3>1. PICK e \in Engines : \E s : RunOne(c, e, s)
      BY <2>n DEF Moved
    <3>2. queue' = queue
      BY <2>n DEF Moved
    <3>3. PanelFollowsRun' /\ pc'[c] # "queued" /\ \A d \in Calls : d # c => pc'[d] = pc[d]
      BY <1>t, <3>1, BeginFollowed DEF RunOne
    <3>4. WaitsInQueue'
      BY <3>2, <3>3, SameQueue DEF Waiting
    <3> QED
      BY <3>3, <3>4 DEF Waiting
  <2> QED
    BY <2>r, <2>n
<1>4. CASE \E c \in Calls : Continue(c)
  <2> SUFFICES ASSUME NEW c \in Calls, Continue(c) PROVE Waiting'
    BY <1>4
  <2>q. queue' = queue /\ ~running
    BY DEF Continue
  <2>1. CASE Begin(c, eng, last[eng], link[eng])
    <3>1. PanelFollowsRun' /\ pc'[c] # "queued" /\ \A d \in Calls : d # c => pc'[d] = pc[d]
      BY <1>t, <2>1, BeginFollowed
    <3>2. WaitsInQueue'
      BY <2>q, <3>1, SameQueue DEF Waiting
    <3> QED
      BY <3>1, <3>2 DEF Waiting
  <2>2. CASE ~Begin(c, eng, last[eng], link[eng])
    <3>1. \/ running' = TRUE /\ pc' = [pc EXCEPT ![c] = "stuck"]
          \/ running' = FALSE /\ pc' = [pc EXCEPT ![c] = "over"]
      BY <2>2 DEF Continue, Fail, OnDone
    <3>2. WaitsInQueue'
      BY <1>p, <2>q, <3>1, SameQueue DEF Waiting
    <3>3. PanelFollowsRun'
      BY <1>p, <3>1 DEF PanelFollowsRun
    <3> QED
      BY <3>2, <3>3 DEF Waiting
  <2> QED
    BY <2>1, <2>2
<1>5. CASE \E c \in Calls : TurnAsks(c)
  <2> SUFFICES ASSUME NEW c \in Calls, TurnAsks(c) PROVE Waiting'
    BY <1>5
  <2>1. queue' = queue /\ \A x \in Calls : pc'[x] = "queued" => pc[x] = "queued"
    BY <1>p DEF TurnAsks
  <2>2. running' => running /\ \A x \in Calls : pc[x] \in Afoot => pc'[x] \in Afoot
    BY <1>p, <1>s DEF TurnAsks
  <2> QED
    BY <2>1, <2>2, SameQueue, SameAfoot DEF Waiting
<1>6. CASE \E k \in Requests : Click(k)
  <2> SUFFICES ASSUME NEW k \in Requests, Click(k) PROVE Waiting'
    BY <1>6
  <2>1. queue' = queue /\ \A x \in Calls : pc'[x] = "queued" => pc[x] = "queued"
    BY <1>p DEF Click
  <2>2. running' => running /\ \A x \in Calls : pc[x] \in Afoot => pc'[x] \in Afoot
    BY <1>p, <1>s DEF Click
  <2> QED
    BY <2>1, <2>2, SameQueue, SameAfoot DEF Waiting
<1>7. CASE \E e \in Engines : PollAsked(e)
  <2> SUFFICES ASSUME NEW e \in Engines, PollAsked(e) PROVE Waiting'
    BY <1>7
  <2>1. queue' = queue /\ \A x \in Calls : pc'[x] = "queued" => pc[x] = "queued"
    BY <1>p DEF PollAsked
  <2>2. running' => running /\ \A x \in Calls : pc[x] \in Afoot => pc'[x] \in Afoot
    BY <1>p, <1>s DEF PollAsked
  <2> QED
    BY <2>1, <2>2, SameQueue, SameAfoot DEF Waiting
<1>8. CASE Stop
  <2> USE <1>8
  <2>1. WaitsInQueue'
    BY DEF Stop, WaitsInQueue
  <2>2. PanelFollowsRun'
    BY <1>p, <1>s, SameAfoot DEF Stop, Waiting
  <2> QED
    BY <2>1, <2>2 DEF Waiting
<1>9. CASE Clear
  <2> USE <1>9
  <2>1. WaitsInQueue'
    BY DEF Clear, WaitsInQueue
  <2>2. PanelFollowsRun'
    BY <1>p, <1>s, SameAfoot DEF Clear, Waiting
  <2> QED
    BY <2>1, <2>2 DEF Waiting
<1>10. CASE NewSession
  <2> USE <1>10
  <2>1. queue' = queue /\ \A x \in Calls : pc'[x] = "queued" => pc[x] = "queued"
    BY <1>p DEF NewSession
  <2>2. running' => running /\ \A x \in Calls : pc[x] \in Afoot => pc'[x] \in Afoot
    BY <1>p, <1>s DEF NewSession
  <2> QED
    BY <2>1, <2>2, SameQueue, SameAfoot DEF Waiting
<1>11. CASE Relaunch
  <2> USE <1>11
  <2>1. queue' = queue /\ \A x \in Calls : pc'[x] = "queued" => pc[x] = "queued"
    BY <1>p DEF Relaunch, Goes
  <2>2. running' => running /\ \A x \in Calls : pc[x] \in Afoot => pc'[x] \in Afoot
    BY <1>p, <1>s DEF Relaunch, Goes
  <2> QED
    BY <2>1, <2>2, SameQueue, SameAfoot DEF Waiting
<1>12. CASE Crash
  <2> USE <1>12
  <2>1. queue' = queue /\ \A x \in Calls : pc'[x] = "queued" => pc[x] = "queued"
    BY <1>p DEF Crash, Goes
  <2>2. running' => running /\ \A x \in Calls : pc[x] \in Afoot => pc'[x] \in Afoot
    BY <1>p, <1>s DEF Crash, Goes
  <2> QED
    BY <2>1, <2>2, SameQueue, SameAfoot DEF Waiting
<1>13. CASE \E c \in Calls : SendMoved(c)
  <2> SUFFICES ASSUME NEW c \in Calls, SendMoved(c) PROVE Waiting'
    BY <1>13
  <2>1. queue' = queue /\ \A x \in Calls : pc'[x] = "queued" => pc[x] = "queued"
    BY <1>p DEF SendMoved, Prompt, Unused
  <2>2. running' => running /\ \A x \in Calls : pc[x] \in Afoot => pc'[x] \in Afoot
    BY <1>p, <1>s DEF SendMoved, Prompt, Unused
  <2> QED
    BY <2>1, <2>2, SameQueue, SameAfoot DEF Waiting
<1>14. CASE \E s \in Sessions : ResumeSession(s)
  <2> SUFFICES ASSUME NEW s \in Sessions, ResumeSession(s) PROVE Waiting'
    BY <1>14
  <2>1. queue' = queue /\ \A x \in Calls : pc'[x] = "queued" => pc[x] = "queued"
    BY <1>p DEF ResumeSession
  <2>2. running' => running /\ \A x \in Calls : pc[x] \in Afoot => pc'[x] \in Afoot
    BY <1>p, <1>s DEF ResumeSession
  <2> QED
    BY <2>1, <2>2, SameQueue, SameAfoot DEF Waiting
<1>15. CASE \E c \in Calls : Gate(c)
  <2> SUFFICES ASSUME NEW c \in Calls, Gate(c) PROVE Waiting'
    BY <1>15
  <2>1. queue' = queue /\ \A x \in Calls : pc'[x] = "queued" => pc[x] = "queued"
    BY <1>p DEF Gate, FailRun, Fail, OnDone, Goto
  <2>2. running' => running /\ \A x \in Calls : pc[x] \in Afoot => pc'[x] \in Afoot
    BY <1>p, <1>s DEF Gate, FailRun, Fail, OnDone, Goto
  <2> QED
    BY <2>1, <2>2, SameQueue, SameAfoot DEF Waiting
<1>16. CASE \E c \in Calls : Create(c)
  <2> SUFFICES ASSUME NEW c \in Calls, Create(c) PROVE Waiting'
    BY <1>16
  <2>1. queue' = queue /\ \A x \in Calls : pc'[x] = "queued" => pc[x] = "queued"
    BY <1>p DEF Create, FailRun, Fail, OnDone, Goto
  <2>2. running' => running /\ \A x \in Calls : pc[x] \in Afoot => pc'[x] \in Afoot
    BY <1>p, <1>s DEF Create, FailRun, Fail, OnDone, Goto
  <2> QED
    BY <2>1, <2>2, SameQueue, SameAfoot DEF Waiting
<1>17. CASE \E c \in Calls : SetMode(c)
  <2> SUFFICES ASSUME NEW c \in Calls, SetMode(c) PROVE Waiting'
    BY <1>17
  <2>1. queue' = queue /\ \A x \in Calls : pc'[x] = "queued" => pc[x] = "queued"
    BY <1>p DEF SetMode, FailRun, Fail, OnDone, Goto
  <2>2. running' => running /\ \A x \in Calls : pc[x] \in Afoot => pc'[x] \in Afoot
    BY <1>p, <1>s DEF SetMode, FailRun, Fail, OnDone, Goto
  <2> QED
    BY <2>1, <2>2, SameQueue, SameAfoot DEF Waiting
<1>18. CASE \E c \in Calls : Post(c)
  <2> SUFFICES ASSUME NEW c \in Calls, Post(c) PROVE Waiting'
    BY <1>18
  <2>1. queue' = queue /\ \A x \in Calls : pc'[x] = "queued" => pc[x] = "queued"
    BY <1>p DEF Post, Goto
  <2>2. running' => running /\ \A x \in Calls : pc[x] \in Afoot => pc'[x] \in Afoot
    BY <1>p, <1>s DEF Post, Goto
  <2> QED
    BY <2>1, <2>2, SameQueue, SameAfoot DEF Waiting
<1>19. CASE \E c \in Calls : TurnEnds(c)
  <2> SUFFICES ASSUME NEW c \in Calls, TurnEnds(c) PROVE Waiting'
    BY <1>19
  <2>1. queue' = queue /\ \A x \in Calls : pc'[x] = "queued" => pc[x] = "queued"
    BY <1>p DEF TurnEnds, Goto
  <2>2. running' => running /\ \A x \in Calls : pc[x] \in Afoot => pc'[x] \in Afoot
    BY <1>p, <1>s DEF TurnEnds, Goto
  <2> QED
    BY <2>1, <2>2, SameQueue, SameAfoot DEF Waiting
<1>20. CASE \E c \in Calls : StreamTimeout(c)
  <2> SUFFICES ASSUME NEW c \in Calls, StreamTimeout(c) PROVE Waiting'
    BY <1>20
  <2>1. queue' = queue /\ \A x \in Calls : pc'[x] = "queued" => pc[x] = "queued"
    BY <1>p DEF StreamTimeout, Goto
  <2>2. running' => running /\ \A x \in Calls : pc[x] \in Afoot => pc'[x] \in Afoot
    BY <1>p, <1>s DEF StreamTimeout, Goto
  <2> QED
    BY <2>1, <2>2, SameQueue, SameAfoot DEF Waiting
<1>21. CASE \E c \in Calls : LastPoll(c)
  <2> SUFFICES ASSUME NEW c \in Calls, LastPoll(c) PROVE Waiting'
    BY <1>21
  <2>1. queue' = queue /\ \A x \in Calls : pc'[x] = "queued" => pc[x] = "queued"
    BY <1>p DEF LastPoll, Goto
  <2>2. running' => running /\ \A x \in Calls : pc[x] \in Afoot => pc'[x] \in Afoot
    BY <1>p, <1>s DEF LastPoll, Goto
  <2> QED
    BY <2>1, <2>2, SameQueue, SameAfoot DEF Waiting
<1>22. CASE \E c \in Calls : Done(c)
  <2> SUFFICES ASSUME NEW c \in Calls, Done(c) PROVE Waiting'
    BY <1>22
  <2>1. queue' = queue /\ \A x \in Calls : pc'[x] = "queued" => pc[x] = "queued"
    BY <1>p DEF Done, Goto, OnDone
  <2>2. running' => running /\ \A x \in Calls : pc[x] \in Afoot => pc'[x] \in Afoot
    BY <1>p, <1>s DEF Done, Goto, OnDone
  <2> QED
    BY <2>1, <2>2, SameQueue, SameAfoot DEF Waiting
<1>23. CASE Renewed
  <2> USE <1>23
  <2>1. queue' = queue /\ \A x \in Calls : pc'[x] = "queued" => pc[x] = "queued"
    BY <1>p DEF Renewed
  <2>2. running' => running /\ \A x \in Calls : pc[x] \in Afoot => pc'[x] \in Afoot
    BY <1>p, <1>s DEF Renewed
  <2> QED
    BY <2>1, <2>2, SameQueue, SameAfoot DEF Waiting
<1>24. CASE Respawn
  <2> USE <1>24
  <2>1. queue' = queue /\ \A x \in Calls : pc'[x] = "queued" => pc[x] = "queued"
    BY <1>p DEF Respawn
  <2>2. running' => running /\ \A x \in Calls : pc[x] \in Afoot => pc'[x] \in Afoot
    BY <1>p, <1>s DEF Respawn
  <2> QED
    BY <2>1, <2>2, SameQueue, SameAfoot DEF Waiting
<1>25. CASE Launched
  <2> USE <1>25
  <2>1. queue' = queue /\ \A x \in Calls : pc'[x] = "queued" => pc[x] = "queued"
    BY <1>p DEF Launched
  <2>2. running' => running /\ \A x \in Calls : pc[x] \in Afoot => pc'[x] \in Afoot
    BY <1>p, <1>s DEF Launched
  <2> QED
    BY <2>1, <2>2, SameQueue, SameAfoot DEF Waiting
<1>26. CASE \E s \in Sessions : AbortServed(s)
  <2> SUFFICES ASSUME NEW s \in Sessions, AbortServed(s) PROVE Waiting'
    BY <1>26
  <2>1. queue' = queue /\ \A x \in Calls : pc'[x] = "queued" => pc[x] = "queued"
    BY <1>p DEF AbortServed, Goto
  <2>2. running' => running /\ \A x \in Calls : pc[x] \in Afoot => pc'[x] \in Afoot
    BY <1>p, <1>s DEF AbortServed, Goto
  <2> QED
    BY <2>1, <2>2, SameQueue, SameAfoot DEF Waiting
<1>27. CASE \E p \in polls : PollDelivered(p)
  <2> SUFFICES ASSUME NEW p \in polls, PollDelivered(p) PROVE Waiting'
    BY <1>27
  <2>1. queue' = queue /\ \A x \in Calls : pc'[x] = "queued" => pc[x] = "queued"
    BY <1>p DEF PollDelivered
  <2>2. running' => running /\ \A x \in Calls : pc[x] \in Afoot => pc'[x] \in Afoot
    BY <1>p, <1>s DEF PollDelivered
  <2> QED
    BY <2>1, <2>2, SameQueue, SameAfoot DEF Waiting
<1>28. CASE \E p \in posts : Decide(p)
  <2> SUFFICES ASSUME NEW p \in posts, Decide(p) PROVE Waiting'
    BY <1>28
  <2>1. queue' = queue /\ \A x \in Calls : pc'[x] = "queued" => pc[x] = "queued"
    BY <1>p DEF Decide
  <2>2. running' => running /\ \A x \in Calls : pc[x] \in Afoot => pc'[x] \in Afoot
    BY <1>p, <1>s DEF Decide
  <2> QED
    BY <2>1, <2>2, SameQueue, SameAfoot DEF Waiting
<1>29. CASE \E p \in posts : Decided(p)
  <2> SUFFICES ASSUME NEW p \in posts, Decided(p) PROVE Waiting'
    BY <1>29
  <2>1. queue' = queue /\ \A x \in Calls : pc'[x] = "queued" => pc[x] = "queued"
    BY <1>p DEF Decided
  <2>2. running' => running /\ \A x \in Calls : pc[x] \in Afoot => pc'[x] \in Afoot
    BY <1>p, <1>s DEF Decided
  <2> QED
    BY <2>1, <2>2, SameQueue, SameAfoot DEF Waiting
<1>30. CASE \E p \in polls : Settle(p)
  <2> SUFFICES ASSUME NEW p \in polls, Settle(p) PROVE Waiting'
    BY <1>30
  <2>c. p.c \in Calls /\ pc[p.c] = "polling"
    BY <1>t DEF LastPolls, Settle
  <2>1. queue' = queue /\ \A x \in Calls : pc'[x] = "queued" => pc[x] = "queued"
    BY <1>p, <2>c DEF Settle, FailRun, Fail, OnDone, Goto
  <2>2. running' => running /\ \A x \in Calls : pc[x] \in Afoot => pc'[x] \in Afoot
    BY <1>p, <2>c, <1>s DEF Settle, FailRun, Fail, OnDone, Goto
  <2> QED
    BY <2>1, <2>2, SameQueue, SameAfoot DEF Waiting
<1>31. CASE UNCHANGED vars
  <2>1. UNCHANGED <<queue, running, pc>>
    BY <1>31 DEF vars
  <2> QED
    BY <2>1, SameQueue, SameAfoot DEF Waiting
<1> QED
  BY <1>1, <1>2, <1>3, <1>4, <1>5, <1>6, <1>7, <1>8, <1>9, <1>10, <1>11, <1>12, <1>13, <1>14, <1>15, <1>16, <1>17, <1>18, <1>19, <1>20, <1>21, <1>22, <1>23, <1>24, <1>25, <1>26, <1>27, <1>28, <1>29, <1>30, <1>31
  DEF Next, Upset, Routine, Background, Progress

LEMMA WaitingInductive == Spec => []Waiting
<1>1. Init => Waiting
  BY DEF Init, Waiting, WaitsInQueue, PanelFollowsRun
<1>2. IInv /\ Waiting /\ [Next]_vars => Waiting'
  BY WaitingKept
<1> QED
  BY <1>1, <1>2, DeskInductive, PTL DEF Spec

-----------------------------------------------------------------------------
\* A prompt that waits is in the queue, and while one is there the panel
\* believes a run is under way, or is draining: none is left behind and none is
\* overtaken.
THEOREM QueueNeverStrands == Spec => []QueueMoves
<1>1. IInv /\ Waiting => QueueMoves
  BY DEF IInv, Waiting, QueueMoves
<1> QED
  BY <1>1, DeskInductive, WaitingInductive, PTL

\* The flag of an engine is up only while one of its runs is under way, two
\* runs are under way on one engine only after it refused a run during another,
\* and the panel says running only while some run will tell it otherwise.
THEOREM BusyHasOneRun == Spec => []FlagsTrue
<1>1. IInv /\ Waiting => FlagsTrue
  BY DEF IInv, Runs, Waiting, FlagsTrue
<1> QED
  BY <1>1, DeskInductive, WaitingInductive, PTL

-----------------------------------------------------------------------------
(* The types of the other variables.                                         *)

Flags == {running, draining, renewing, up, relaunching} \subseteq BOOLEAN

Buttons == {"none", "armed", "shown"}

PanelTypes ==
    /\ cards \in Seq(Requests) /\ resolved \subseteq Requests
    /\ resume \in Sessions \cup {None} /\ button \in Buttons
    /\ decided \in [Engines -> BOOLEAN] /\ epend \in [Engines -> Seq(Requests)]

\* Past the choice of its session a run has one.
Chosen == {"mode", "post", "stream", "wrapup", "polling"}

RunTargets ==
    /\ sessions \subseteq Sessions
    /\ last \in [Engines -> Sessions \cup {None}] /\ cache \in [Engines -> Sessions \cup {None}]
    /\ sid \in [Calls -> Sessions \cup {None}]
    /\ \A c \in Calls : pc[c] \in Chosen => sid[c] \in Sessions

Launches ==
    /\ link \in [Engines -> (0 .. MaxGen) \cup {None}] /\ gen \in 1 .. MaxGen
    /\ relaunching => gen < MaxGen

ReqStates == {"unused", "open", "spent", "lost"}

ServerTypes ==
    /\ turn \in [Sessions -> Calls \cup {None}] /\ aborts \subseteq Sessions
    /\ req \in [Requests -> ReqStates]

NetTypes ==
    /\ polls \subseteq [e : Engines, c : Calls \cup {None}, seen : SUBSET Requests]
    /\ posts \subseteq [card : Requests, r : Requests, e : Engines, at : {"sent", "ok"}]

Rest == Flags /\ PanelTypes /\ RunTargets /\ Launches /\ ServerTypes /\ NetTypes

-----------------------------------------------------------------------------
(* What the parts of a step do to them.                                      *)

LEMMA BeginTypes ==
    ASSUME RunTypes, Rest, NEW c \in Calls, NEW e \in Engines,
           NEW s \in Sessions \cup {None}, NEW l, Begin(c, e, s, l)
    PROVE  /\ running' \in BOOLEAN /\ draining' \in BOOLEAN /\ button' \in Buttons
           /\ decided' \in [Engines -> BOOLEAN] /\ sid' \in [Calls -> Sessions \cup {None}]
           /\ \A d \in Calls : pc'[d] \in Chosen => sid'[d] \in Sessions
<1> USE DEF Begin, Fail, OnDone
<1>1. running' \in BOOLEAN
  OBVIOUS
<1>2. draining' \in BOOLEAN
  OBVIOUS
<1>3. button' \in Buttons
  BY DEF Rest, PanelTypes, Buttons
<1>4. decided' \in [Engines -> BOOLEAN]
  BY DEF Rest, PanelTypes
<1>5. sid' \in [Calls -> Sessions \cup {None}]
  BY DEF Rest, RunTargets
<1>6. \A d \in Calls : pc'[d] \in Chosen => sid'[d] \in Sessions
  BY DEF Rest, RunTargets, RunTypes, Chosen
<1> QED
  BY <1>1, <1>2, <1>3, <1>4, <1>5, <1>6

LEMMA RunOneTypes ==
    ASSUME RunTypes, Rest, NEW c \in Calls, NEW e \in Engines,
           NEW s \in Sessions \cup {None}, RunOne(c, e, s),
           UNCHANGED <<renewing, up, relaunching, gen, epend, sessions, last, cache>>,
           resume' \in Sessions \cup {None}
    PROVE  Flags' /\ PanelTypes' /\ RunTargets' /\ Launches'
<1> DEFINE l == IF link[e] # None THEN link[e] ELSE IF relaunching THEN 0 ELSE gen
<1>0. l \in (0 .. MaxGen) \cup {None}
  BY DeskAssumption DEF Rest, Launches
<1>1. link' = [link EXCEPT ![e] = l] /\ Begin(c, e, s, l)
  BY DEF RunOne
<1> HIDE DEF l
<1>2. /\ running' \in BOOLEAN /\ draining' \in BOOLEAN /\ button' \in Buttons
      /\ decided' \in [Engines -> BOOLEAN] /\ sid' \in [Calls -> Sessions \cup {None}]
      /\ \A d \in Calls : pc'[d] \in Chosen => sid'[d] \in Sessions
  BY <1>1, BeginTypes
<1>3. cards' = <<>> /\ resolved' = {}
  BY DEF RunOne
<1>4. Flags'
  BY <1>2 DEF Rest, Flags
<1>5. PanelTypes'
  BY <1>2, <1>3 DEF Rest, PanelTypes
<1>6. RunTargets'
  BY <1>2 DEF Rest, RunTargets
<1>7. Launches'
  BY <1>0, <1>1 DEF Rest, Launches
<1> QED
  BY <1>4, <1>5, <1>6, <1>7

LEMMA AbortTypes ==
    ASSUME Rest, NEW e \in Engines \cup {None}, PostAbort(e)
    PROVE  aborts' \subseteq Sessions
  BY DEF Rest, ServerTypes, RunTargets, PostAbort

LEMMA GoneTypes ==
    ASSUME RunTypes, Rest, Goes, UNCHANGED <<sessions, last, cache, sid>>
    PROVE  up' \in BOOLEAN /\ RunTargets' /\ ServerTypes'
<1>1. up' \in BOOLEAN
  BY DEF Goes
<1>2. RunTargets'
  BY DEF Rest, RunTargets, RunTypes, Chosen, Goes
<1>3. ServerTypes'
  BY DEF Rest, ServerTypes, ReqStates, Goes
<1> QED
  BY <1>1, <1>2, <1>3

LEMMA DeliveredTypes ==
    ASSUME Rest, NEW p \in polls, Delivered(p)
    PROVE  /\ cards' \in Seq(Requests) /\ epend' \in [Engines -> Seq(Requests)]
           /\ polls' \subseteq polls
<1> DEFINE new == p.seen \ Range(epend[p.e])
<1>1. p.e \in Engines /\ p.seen \subseteq Requests
  BY DEF Rest, NetTypes
<1>2. new \subseteq Requests
  BY <1>1
<1>3. Cardinality(new) \in Nat
  BY <1>2, DeskAssumption, FS_Subset, FS_CardinalityType
<1>4. PICK n \in News(p) : /\ epend' = [epend EXCEPT ![p.e] = @ \o n]
                           /\ cards' = cards \o n
  BY DEF Delivered
<1>5. n \in [1 .. Cardinality(new) -> new]
  BY <1>4 DEF News
<1> HIDE DEF new
<1>6. n \in Seq(Requests)
  BY <1>2, <1>3, <1>5
<1>7. cards' \in Seq(Requests)
  BY <1>4, <1>6 DEF Rest, PanelTypes
<1>8. epend' \in [Engines -> Seq(Requests)]
  <2>1. epend \in [Engines -> Seq(Requests)] /\ epend[p.e] \in Seq(Requests)
    BY <1>1 DEF Rest, PanelTypes
  <2>2. epend[p.e] \o n \in Seq(Requests)
    BY <1>6, <2>1
  <2> QED
    BY <1>4, <2>1, <2>2
<1>9. polls' \subseteq polls
  BY DEF Delivered
<1> QED
  BY <1>7, <1>8, <1>9

LEMMA RemovedTypes ==
    ASSUME NEW q \in Seq(Requests), NEW i \in DOMAIN q
    PROVE  RemoveAt(q, i) \in Seq(Requests)
<1>1. i \in 1 .. Len(q) /\ Len(q) \in Nat
  OBVIOUS
<1>2. SubSeq(q, 1, i - 1) \in Seq(Requests) /\ SubSeq(q, i + 1, Len(q)) \in Seq(Requests)
  BY <1>1
<1> QED
  BY <1>2 DEF RemoveAt

-----------------------------------------------------------------------------
\* Every step keeps them.
LEMMA RestKept ==
    ASSUME IInv, Rest, [Next]_vars
    PROVE  Rest'
<1> USE DEF panel, engine, calls, host, server, net, hist
<1>t. RunTypes /\ FlagOfRun /\ LastPolls
  BY DEF IInv, Runs
<1>1. CASE Drain
  <2> USE <1>1
  <2>u. UNCHANGED <<turn, aborts, req, polls, posts>>
    BY DEF Drain
  <2>k. ServerTypes' /\ NetTypes'
    BY <2>u DEF Rest, ServerTypes, NetTypes
  <2>e. CASE queue = <<>>
    <3>1. draining' \in BOOLEAN /\ UNCHANGED <<running, renewing, up, relaunching>>
      BY <2>e DEF Drain
    <3>2. UNCHANGED <<cards, resolved, resume, button, decided, epend, sessions, last, cache, sid, pc, link, gen>>
      BY <2>e DEF Drain
    <3>3. Flags'
      BY <3>1 DEF Rest, Flags
    <3>4. PanelTypes' /\ RunTargets' /\ Launches'
      BY <3>1, <3>2 DEF Rest, PanelTypes, RunTargets, Launches, Chosen
    <3> QED
      BY <2>k, <3>3, <3>4 DEF Rest
  <2>n. CASE queue # <<>>
    <3>1. PICK e \in Engines : RunOne(Head(queue), e, resume)
      BY <2>n DEF Drain
    <3>2. Head(queue) \in Calls
      BY <1>t, <2>n DEF RunTypes
    <3>3. /\ UNCHANGED <<renewing, up, relaunching, gen, epend, sessions, last, cache, resume>>
          /\ resume \in Sessions \cup {None}
      BY <2>n DEF Drain, Rest, PanelTypes
    <3> QED
      BY <1>t, <2>k, <3>1, <3>2, <3>3, RunOneTypes DEF Rest
  <2> QED
    BY <2>e, <2>n
<1>2. CASE \E c \in Calls : Send(c)
  <2> SUFFICES ASSUME NEW c \in Calls, Send(c) PROVE Rest'
    BY <1>2
  <2>u. UNCHANGED <<turn, aborts, req, polls, posts>>
    BY DEF Send
  <2>k. ServerTypes' /\ NetTypes'
    BY <2>u DEF Rest, ServerTypes, NetTypes
  <2>m. resume' \in Sessions \cup {None} /\ resume \in Sessions \cup {None}
    BY DEF Send, Rest, PanelTypes
  <2>r. CASE running
    <3>1. /\ UNCHANGED <<running, draining, renewing, up, relaunching, link, gen>>
          /\ UNCHANGED <<cards, resolved, button, decided, epend, sessions, last, cache, sid>>
          /\ pc' = [pc EXCEPT ![c] = "queued"]
      BY <2>r DEF Send
    <3>2. Flags' /\ Launches'
      BY <3>1 DEF Rest, Flags, Launches
    <3>3. PanelTypes'
      BY <2>m, <3>1 DEF Rest, PanelTypes
    <3>4. RunTargets'
      BY <1>t, <3>1 DEF Rest, RunTargets, RunTypes, Chosen
    <3> QED
      BY <2>k, <3>2, <3>3, <3>4 DEF Rest
  <2>n. CASE ~running
    <3>1. PICK e \in Engines : RunOne(c, e, resume)
      BY <2>n DEF Send
    <3>2. UNCHANGED <<renewing, up, relaunching, gen, epend, sessions, last, cache>>
      BY <2>n DEF Send
    <3> QED
      BY <1>t, <2>k, <2>m, <3>1, <3>2, RunOneTypes DEF Rest
  <2> QED
    BY <2>r, <2>n
<1>3. CASE \E c \in Calls : Moved(c)
  <2> SUFFICES ASSUME NEW c \in Calls, Moved(c) PROVE Rest'
    BY <1>3
  <2>u. UNCHANGED <<turn, aborts, req, polls, posts>>
    BY DEF Moved
  <2>k. ServerTypes' /\ NetTypes'
    BY <2>u DEF Rest, ServerTypes, NetTypes
  <2>m. resume' \in Sessions \cup {None} /\ resume \in Sessions \cup {None}
    BY DEF Moved, Rest, PanelTypes
  <2>r. CASE running
    <3>1. /\ UNCHANGED <<running, draining, renewing, up, relaunching, link, gen>>
          /\ UNCHANGED <<cards, resolved, button, decided, epend, sessions, last, cache, sid>>
          /\ pc' = [pc EXCEPT ![c] = "queued"]
      BY <2>r DEF Moved
    <3>2. Flags' /\ Launches'
      BY <3>1 DEF Rest, Flags, Launches
    <3>3. PanelTypes'
      BY <2>m, <3>1 DEF Rest, PanelTypes
    <3>4. RunTargets'
      BY <1>t, <3>1 DEF Rest, RunTargets, RunTypes, Chosen
    <3> QED
      BY <2>k, <3>2, <3>3, <3>4 DEF Rest
  <2>n. CASE ~running
    <3>1. PICK e \in Engines : RunOne(c, e, None)
      BY <2>n DEF Moved
    <3>2. UNCHANGED <<renewing, up, relaunching, gen, epend, sessions, last, cache>>
      BY <2>n DEF Moved
    <3> QED
      BY <1>t, <2>k, <2>m, <3>1, <3>2, RunOneTypes DEF Rest
  <2> QED
    BY <2>r, <2>n
<1>4. CASE \E c \in Calls : Continue(c)
  <2> SUFFICES ASSUME NEW c \in Calls, Continue(c) PROVE Rest'
    BY <1>4
  <2>u. UNCHANGED <<link, gen, relaunching, turn, aborts, req, polls, posts>>
    BY DEF Continue
  <2>k. Launches' /\ ServerTypes' /\ NetTypes'
    BY <2>u DEF Rest, Launches, ServerTypes, NetTypes
  <2>e. eng \in Engines
    BY <1>t DEF Continue, RunTypes
  <2>s. UNCHANGED <<renewing, up, relaunching, cards, resolved, resume, epend, sessions, last, cache>>
    BY DEF Continue
  <2>t. last[eng] \in Sessions \cup {None}
    BY <2>e DEF Rest, RunTargets
  <2>1. /\ running' \in BOOLEAN /\ draining' \in BOOLEAN /\ button' \in Buttons
        /\ decided' \in [Engines -> BOOLEAN] /\ sid' \in [Calls -> Sessions \cup {None}]
        /\ \A d \in Calls : pc'[d] \in Chosen => sid'[d] \in Sessions
    <3>1. CASE Begin(c, eng, last[eng], link[eng])
      BY <1>t, <2>e, <2>t, <3>1, BeginTypes
    <3>2. CASE ~Begin(c, eng, last[eng], link[eng]) /\ ~decided[eng]
      <4>1. /\ running' = TRUE /\ pc' = [pc EXCEPT ![c] = "stuck"]
            /\ UNCHANGED <<draining, button, decided, sid>>
        BY <3>2 DEF Continue
      <4>2. draining' \in BOOLEAN /\ button' \in Buttons /\ decided' \in [Engines -> BOOLEAN]
        BY <4>1 DEF Rest, Flags, PanelTypes
      <4> QED
        BY <1>t, <4>1, <4>2 DEF Rest, RunTargets, RunTypes, Chosen
    <3>3. CASE ~Begin(c, eng, last[eng], link[eng]) /\ decided[eng]
      <4>1. /\ running' = FALSE /\ draining' = TRUE /\ sid' = sid
            /\ button' = IF button = "armed" THEN "shown" ELSE button
            /\ pc' = [pc EXCEPT ![c] = "over"] /\ decided' = [decided EXCEPT ![eng] = FALSE]
        BY <3>3 DEF Continue, Fail, OnDone
      <4>2. button' \in Buttons /\ decided' \in [Engines -> BOOLEAN]
        BY <4>1 DEF Rest, PanelTypes, Buttons
      <4> QED
        BY <1>t, <4>1, <4>2 DEF Rest, RunTargets, RunTypes, Chosen
    <3> QED
      BY <3>1, <3>2, <3>3
  <2>2. Flags'
    BY <2>1, <2>s DEF Rest, Flags
  <2>3. PanelTypes' /\ RunTargets'
    BY <2>1, <2>s DEF Rest, PanelTypes, RunTargets
  <2> QED
    BY <2>k, <2>2, <2>3 DEF Rest
<1>5. CASE \E c \in Calls : TurnAsks(c)
  <2> SUFFICES ASSUME NEW c \in Calls, TurnAsks(c) PROVE Rest'
    BY <1>5
  <2>u. UNCHANGED <<running, draining, renewing, up, relaunching, cards, resolved, resume, button, decided, epend, sessions, last, cache, sid, pc, link, gen, polls, posts>>
    BY DEF TurnAsks
  <2>k. Flags' /\ PanelTypes' /\ RunTargets' /\ Launches' /\ NetTypes'
    BY <2>u DEF Rest, Flags, PanelTypes, RunTargets, Launches, NetTypes, Chosen
  <2>1. ServerTypes'
    BY <1>t DEF TurnAsks, Rest, ServerTypes, ReqStates
  <2> QED
    BY <2>k, <2>1 DEF Rest
<1>6. CASE \E k \in Requests : Click(k)
  <2> SUFFICES ASSUME NEW k \in Requests, Click(k) PROVE Rest'
    BY <1>6
  <2>u. UNCHANGED <<running, draining, renewing, up, relaunching, cards, resolved, resume, button, decided, epend, sessions, last, cache, sid, pc, link, gen, turn, aborts, req>>
    BY DEF Click
  <2>k. Flags' /\ PanelTypes' /\ RunTargets' /\ Launches' /\ ServerTypes'
    BY <2>u DEF Rest, Flags, PanelTypes, RunTargets, Launches, ServerTypes, Chosen
  <2>1. eng \in Engines /\ epend[eng] # <<>>
    BY <1>t DEF Click, RunTypes
  <2>2. Oldest(eng) \in Requests
    BY <2>1 DEF Oldest, Rest, PanelTypes
  <2>3. NetTypes'
    BY <2>1, <2>2 DEF Click, Rest, NetTypes
  <2> QED
    BY <2>k, <2>3 DEF Rest
<1>7. CASE \E e \in Engines : PollAsked(e)
  <2> SUFFICES ASSUME NEW e \in Engines, PollAsked(e) PROVE Rest'
    BY <1>7
  <2>u. UNCHANGED <<running, draining, renewing, up, relaunching, cards, resolved, resume, button, decided, epend, sessions, last, cache, sid, pc, link, gen, turn, aborts, req>>
    BY DEF PollAsked, Listed
  <2>k. Flags' /\ PanelTypes' /\ RunTargets' /\ Launches' /\ ServerTypes'
    BY <2>u DEF Rest, Flags, PanelTypes, RunTargets, Launches, ServerTypes, Chosen
  <2>1. NetTypes'
    BY <1>t DEF PollAsked, Listed, Rest, NetTypes
  <2> QED
    BY <2>k, <2>1 DEF Rest
<1>8. CASE Stop
  <2> USE <1>8
  <2>u. UNCHANGED <<cards, resolved, resume, button, decided, epend, link, gen, relaunching, polls, posts>>
    BY DEF Stop
  <2>k. PanelTypes' /\ Launches' /\ NetTypes'
    BY <2>u DEF Rest, PanelTypes, Launches, NetTypes
  <2>a. aborts' \subseteq Sessions
    BY <1>t, AbortTypes DEF Stop, RunTypes
  <2>1. UNCHANGED <<draining, renewing, up, relaunching>>
    BY DEF Stop
  <2>2. running' \in BOOLEAN
    BY DEF Stop, Rest, Flags
  <2>3. Flags'
    BY <2>1, <2>2 DEF Rest, Flags
  <2>4. RunTargets'
    BY <1>t DEF Stop, Rest, RunTargets, Chosen, RunTypes
  <2>5. ServerTypes'
    BY <1>t, <2>a DEF Stop, Rest, ServerTypes, ReqStates
  <2> QED
    BY <2>k, <2>3, <2>4, <2>5 DEF Rest
<1>9. CASE Clear
  <2> USE <1>9
  <2>u. UNCHANGED <<running, draining, renewing, up, relaunching, cards, resolved, resume, button, decided, epend, link, gen, turn, aborts, req, polls, posts>>
    BY DEF Clear
  <2>k. Flags' /\ PanelTypes' /\ Launches' /\ ServerTypes' /\ NetTypes'
    BY <2>u DEF Rest, Flags, PanelTypes, Launches, ServerTypes, NetTypes
  <2>1. RunTargets'
    BY <1>t DEF Clear, Rest, RunTargets, Chosen, RunTypes
  <2> QED
    BY <2>k, <2>1 DEF Rest
<1>10. CASE NewSession
  <2> USE <1>10
  <2>u. UNCHANGED <<cards, resolved, resume, button, decided, epend, sessions, last, cache, sid, pc, link, gen, relaunching, polls, posts>>
    BY DEF NewSession
  <2>k. PanelTypes' /\ RunTargets' /\ Launches' /\ NetTypes'
    BY <2>u DEF Rest, PanelTypes, RunTargets, Launches, NetTypes, Chosen
  <2>a. aborts' \subseteq Sessions
    BY <1>t, AbortTypes DEF NewSession, RunTypes
  <2>1. UNCHANGED <<running, draining, up, relaunching>>
    BY DEF NewSession
  <2>2. renewing' \in BOOLEAN
    BY DEF NewSession, Rest, Flags
  <2>3. Flags'
    BY <2>1, <2>2 DEF Rest, Flags
  <2>4. ServerTypes'
    BY <1>t, <2>a DEF NewSession, Rest, ServerTypes, ReqStates
  <2> QED
    BY <2>k, <2>3, <2>4 DEF Rest
<1>11. CASE Relaunch
  <2> USE <1>11
  <2>u. UNCHANGED <<cards, resolved, resume, button, decided, epend, polls, posts>>
    BY DEF Relaunch
  <2>k. PanelTypes' /\ NetTypes'
    BY <2>u DEF Rest, PanelTypes, NetTypes
  <2>g. up' \in BOOLEAN /\ RunTargets' /\ ServerTypes'
    BY <1>t, GoneTypes DEF Relaunch
  <2>1. UNCHANGED <<running, draining, renewing>>
    BY DEF Relaunch
  <2>2. up' \in BOOLEAN
    BY <2>g
  <2>3. relaunching' \in BOOLEAN
    BY DEF Relaunch, Rest, Flags
  <2>4. Flags'
    BY <2>1, <2>2, <2>3 DEF Rest, Flags
  <2>5. Launches'
    BY DeskAssumption DEF Relaunch, Rest, Launches
  <2> QED
    BY <2>k, <2>4, <2>5, <2>g DEF Rest
<1>12. CASE Crash
  <2> USE <1>12
  <2>u. UNCHANGED <<cards, resolved, resume, button, decided, epend, link, gen, relaunching, polls, posts>>
    BY DEF Crash
  <2>k. PanelTypes' /\ Launches' /\ NetTypes'
    BY <2>u DEF Rest, PanelTypes, Launches, NetTypes
  <2>g. up' \in BOOLEAN /\ RunTargets' /\ ServerTypes'
    BY <1>t, GoneTypes DEF Crash
  <2>1. UNCHANGED <<running, draining, renewing, relaunching>>
    BY DEF Crash
  <2>2. up' \in BOOLEAN
    BY <2>g
  <2>3. Flags'
    BY <2>1, <2>2 DEF Rest, Flags
  <2> QED
    BY <2>k, <2>3, <2>g DEF Rest
<1>13. CASE \E c \in Calls : SendMoved(c)
  <2> SUFFICES ASSUME NEW c \in Calls, SendMoved(c) PROVE Rest'
    BY <1>13
  <2>u. UNCHANGED <<running, draining, renewing, up, relaunching, cards, resolved, resume, button, decided, epend, link, gen, polls, posts>>
    BY DEF SendMoved, Prompt, Unused
  <2>k. Flags' /\ PanelTypes' /\ Launches' /\ NetTypes'
    BY <2>u DEF Rest, Flags, PanelTypes, Launches, NetTypes
  <2>a. aborts' \subseteq Sessions
    BY <1>t, AbortTypes DEF SendMoved, Prompt, Unused, RunTypes
  <2>1. RunTargets'
    BY <1>t DEF SendMoved, Prompt, Unused, Rest, RunTargets, Chosen, RunTypes
  <2>2. ServerTypes'
    BY <1>t, <2>a DEF SendMoved, Prompt, Unused, Rest, ServerTypes, ReqStates
  <2> QED
    BY <2>k, <2>1, <2>2 DEF Rest
<1>14. CASE \E s \in Sessions : ResumeSession(s)
  <2> SUFFICES ASSUME NEW s \in Sessions, ResumeSession(s) PROVE Rest'
    BY <1>14
  <2>u. UNCHANGED <<running, draining, renewing, up, relaunching, sessions, last, cache, sid, pc, link, gen, turn, aborts, req, polls, posts>>
    BY DEF ResumeSession
  <2>k. Flags' /\ RunTargets' /\ Launches' /\ ServerTypes' /\ NetTypes'
    BY <2>u DEF Rest, Flags, RunTargets, Launches, ServerTypes, NetTypes, Chosen
  <2>1. PanelTypes'
    BY <1>t DEF ResumeSession, Rest, PanelTypes, Buttons
  <2> QED
    BY <2>k, <2>1 DEF Rest
<1>15. CASE \E c \in Calls : Gate(c)
  <2> SUFFICES ASSUME NEW c \in Calls, Gate(c) PROVE Rest'
    BY <1>15
  <2>u. UNCHANGED <<link, gen, relaunching, turn, aborts, req, polls, posts>>
    BY DEF Gate, FailRun, Fail, OnDone, Goto
  <2>k. Launches' /\ ServerTypes' /\ NetTypes'
    BY <2>u DEF Rest, Launches, ServerTypes, NetTypes
  <2>e. by[c] \in Engines
    BY <1>t DEF FlagOfRun, InRun, Gate
  <2>1. UNCHANGED <<renewing, up, relaunching>>
    BY DEF Gate, FailRun, Fail, OnDone, Goto
  <2>2. running' \in BOOLEAN
    BY DEF Gate, FailRun, Fail, OnDone, Goto, Rest, Flags
  <2>3. draining' \in BOOLEAN
    BY DEF Gate, FailRun, Fail, OnDone, Goto, Rest, Flags
  <2>4. Flags'
    BY <2>1, <2>2, <2>3 DEF Rest, Flags
  <2>5. PanelTypes'
    BY <1>t, <2>e DEF Gate, FailRun, Fail, OnDone, Goto, Rest, PanelTypes, Buttons
  <2>6. RunTargets'
    BY <1>t, <2>e DEF Gate, FailRun, Fail, OnDone, Goto, Rest, RunTargets, Chosen, RunTypes
  <2> QED
    BY <2>k, <2>4, <2>5, <2>6 DEF Rest
<1>16. CASE \E c \in Calls : Create(c)
  <2> SUFFICES ASSUME NEW c \in Calls, Create(c) PROVE Rest'
    BY <1>16
  <2>u. UNCHANGED <<link, gen, relaunching, turn, aborts, req, polls, posts>>
    BY DEF Create, FailRun, Fail, OnDone, Goto
  <2>k. Launches' /\ ServerTypes' /\ NetTypes'
    BY <2>u DEF Rest, Launches, ServerTypes, NetTypes
  <2>e. by[c] \in Engines
    BY <1>t DEF FlagOfRun, InRun, Create
  <2>1. UNCHANGED <<renewing, up, relaunching>>
    BY DEF Create, FailRun, Fail, OnDone, Goto
  <2>2. running' \in BOOLEAN
    BY DEF Create, FailRun, Fail, OnDone, Goto, Rest, Flags
  <2>3. draining' \in BOOLEAN
    BY DEF Create, FailRun, Fail, OnDone, Goto, Rest, Flags
  <2>4. Flags'
    BY <2>1, <2>2, <2>3 DEF Rest, Flags
  <2>5. PanelTypes'
    BY <1>t, <2>e DEF Create, FailRun, Fail, OnDone, Goto, Rest, PanelTypes, Buttons
  <2>6. RunTargets'
    BY <1>t, <2>e DEF Create, FailRun, Fail, OnDone, Goto, Rest, RunTargets, Chosen, RunTypes
  <2> QED
    BY <2>k, <2>4, <2>5, <2>6 DEF Rest
<1>17. CASE \E c \in Calls : SetMode(c)
  <2> SUFFICES ASSUME NEW c \in Calls, SetMode(c) PROVE Rest'
    BY <1>17
  <2>u. UNCHANGED <<link, gen, relaunching, turn, aborts, req, polls, posts>>
    BY DEF SetMode, FailRun, Fail, OnDone, Goto
  <2>k. Launches' /\ ServerTypes' /\ NetTypes'
    BY <2>u DEF Rest, Launches, ServerTypes, NetTypes
  <2>e. by[c] \in Engines
    BY <1>t DEF FlagOfRun, InRun, SetMode
  <2>1. UNCHANGED <<renewing, up, relaunching>>
    BY DEF SetMode, FailRun, Fail, OnDone, Goto
  <2>2. running' \in BOOLEAN
    BY DEF SetMode, FailRun, Fail, OnDone, Goto, Rest, Flags
  <2>3. draining' \in BOOLEAN
    BY DEF SetMode, FailRun, Fail, OnDone, Goto, Rest, Flags
  <2>4. Flags'
    BY <2>1, <2>2, <2>3 DEF Rest, Flags
  <2>5. PanelTypes'
    BY <1>t, <2>e DEF SetMode, FailRun, Fail, OnDone, Goto, Rest, PanelTypes, Buttons
  <2>6. RunTargets'
    BY <1>t, <2>e DEF SetMode, FailRun, Fail, OnDone, Goto, Rest, RunTargets, Chosen, RunTypes
  <2> QED
    BY <2>k, <2>4, <2>5, <2>6 DEF Rest
<1>18. CASE \E c \in Calls : Post(c)
  <2> SUFFICES ASSUME NEW c \in Calls, Post(c) PROVE Rest'
    BY <1>18
  <2>u. UNCHANGED <<running, draining, renewing, up, relaunching, cards, resolved, resume, button, decided, epend, link, gen, polls, posts>>
    BY DEF Post, Goto
  <2>k. Flags' /\ PanelTypes' /\ Launches' /\ NetTypes'
    BY <2>u DEF Rest, Flags, PanelTypes, Launches, NetTypes
  <2>1. RunTargets'
    BY <1>t DEF Post, Goto, Rest, RunTargets, Chosen, RunTypes
  <2>2. ServerTypes'
    BY <1>t DEF Post, Goto, Rest, ServerTypes, ReqStates
  <2> QED
    BY <2>k, <2>1, <2>2 DEF Rest
<1>19. CASE \E c \in Calls : TurnEnds(c)
  <2> SUFFICES ASSUME NEW c \in Calls, TurnEnds(c) PROVE Rest'
    BY <1>19
  <2>u. UNCHANGED <<running, draining, renewing, up, relaunching, cards, resolved, resume, button, decided, epend, link, gen, polls, posts>>
    BY DEF TurnEnds, Goto
  <2>k. Flags' /\ PanelTypes' /\ Launches' /\ NetTypes'
    BY <2>u DEF Rest, Flags, PanelTypes, Launches, NetTypes
  <2>1. RunTargets'
    BY <1>t DEF TurnEnds, Goto, Rest, RunTargets, Chosen, RunTypes
  <2>2. ServerTypes'
    BY <1>t DEF TurnEnds, Goto, Rest, ServerTypes, ReqStates
  <2> QED
    BY <2>k, <2>1, <2>2 DEF Rest
<1>20. CASE \E c \in Calls : StreamTimeout(c)
  <2> SUFFICES ASSUME NEW c \in Calls, StreamTimeout(c) PROVE Rest'
    BY <1>20
  <2>u. UNCHANGED <<running, draining, renewing, up, relaunching, cards, resolved, resume, button, decided, epend, link, gen, polls, posts>>
    BY DEF StreamTimeout, Goto
  <2>k. Flags' /\ PanelTypes' /\ Launches' /\ NetTypes'
    BY <2>u DEF Rest, Flags, PanelTypes, Launches, NetTypes
  <2>1. RunTargets'
    BY <1>t DEF StreamTimeout, Goto, Rest, RunTargets, Chosen, RunTypes
  <2>2. ServerTypes'
    BY <1>t DEF StreamTimeout, Goto, Rest, RunTargets, Chosen, ServerTypes, ReqStates
  <2> QED
    BY <2>k, <2>1, <2>2 DEF Rest
<1>21. CASE \E c \in Calls : LastPoll(c)
  <2> SUFFICES ASSUME NEW c \in Calls, LastPoll(c) PROVE Rest'
    BY <1>21
  <2>u. UNCHANGED <<running, draining, renewing, up, relaunching, cards, resolved, resume, button, decided, epend, link, gen, turn, aborts, req>>
    BY DEF LastPoll, Goto, Listed
  <2>k. Flags' /\ PanelTypes' /\ Launches' /\ ServerTypes'
    BY <2>u DEF Rest, Flags, PanelTypes, Launches, ServerTypes
  <2>e. by[c] \in Engines
    BY <1>t DEF FlagOfRun, InRun, LastPoll
  <2>1. RunTargets'
    BY <1>t, <2>e DEF LastPoll, Goto, Listed, Rest, RunTargets, Chosen, RunTypes
  <2>2. NetTypes'
    BY <1>t, <2>e DEF LastPoll, Goto, Listed, Rest, NetTypes
  <2> QED
    BY <2>k, <2>1, <2>2 DEF Rest
<1>22. CASE \E c \in Calls : Done(c)
  <2> SUFFICES ASSUME NEW c \in Calls, Done(c) PROVE Rest'
    BY <1>22
  <2>u. UNCHANGED <<link, gen, relaunching, turn, aborts, req, polls, posts>>
    BY DEF Done, Goto, OnDone
  <2>k. Launches' /\ ServerTypes' /\ NetTypes'
    BY <2>u DEF Rest, Launches, ServerTypes, NetTypes
  <2>1. UNCHANGED <<renewing, up, relaunching>>
    BY DEF Done, Goto, OnDone
  <2>2. running' \in BOOLEAN
    BY DEF Done, Goto, OnDone, Rest, Flags
  <2>3. draining' \in BOOLEAN
    BY DEF Done, Goto, OnDone, Rest, Flags
  <2>4. Flags'
    BY <2>1, <2>2, <2>3 DEF Rest, Flags
  <2>5. PanelTypes'
    BY <1>t DEF Done, Goto, OnDone, Rest, PanelTypes, Buttons
  <2>6. RunTargets'
    BY <1>t DEF Done, Goto, OnDone, Rest, RunTargets, Chosen, RunTypes
  <2> QED
    BY <2>k, <2>4, <2>5, <2>6 DEF Rest
<1>23. CASE Renewed
  <2> USE <1>23
  <2>u. UNCHANGED <<sessions, last, cache, sid, pc, link, gen, relaunching, turn, aborts, req, polls, posts>>
    BY DEF Renewed
  <2>k. RunTargets' /\ Launches' /\ ServerTypes' /\ NetTypes'
    BY <2>u DEF Rest, RunTargets, Launches, ServerTypes, NetTypes, Chosen
  <2>1. UNCHANGED <<running, draining, up, relaunching>>
    BY DEF Renewed
  <2>2. renewing' \in BOOLEAN
    BY DEF Renewed, Rest, Flags
  <2>3. Flags'
    BY <2>1, <2>2 DEF Rest, Flags
  <2>4. PanelTypes'
    BY <1>t DEF Renewed, Rest, PanelTypes, Buttons
  <2> QED
    BY <2>k, <2>3, <2>4 DEF Rest
<1>24. CASE Respawn
  <2> USE <1>24
  <2>u. UNCHANGED <<cards, resolved, resume, button, decided, epend, sessions, last, cache, sid, pc, link, gen, relaunching, turn, aborts, req, polls, posts>>
    BY DEF Respawn
  <2>k. PanelTypes' /\ RunTargets' /\ Launches' /\ ServerTypes' /\ NetTypes'
    BY <2>u DEF Rest, PanelTypes, RunTargets, Launches, ServerTypes, NetTypes, Chosen
  <2>1. UNCHANGED <<running, draining, renewing, relaunching>>
    BY DEF Respawn
  <2>2. up' \in BOOLEAN
    BY DEF Respawn, Rest, Flags
  <2>3. Flags'
    BY <2>1, <2>2 DEF Rest, Flags
  <2> QED
    BY <2>k, <2>3 DEF Rest
<1>25. CASE Launched
  <2> USE <1>25
  <2>u. UNCHANGED <<cards, resolved, resume, button, decided, epend, sessions, last, cache, sid, pc, turn, aborts, req, polls, posts>>
    BY DEF Launched
  <2>k. PanelTypes' /\ RunTargets' /\ ServerTypes' /\ NetTypes'
    BY <2>u DEF Rest, PanelTypes, RunTargets, ServerTypes, NetTypes, Chosen
  <2>1. UNCHANGED <<running, draining, renewing, up>>
    BY DEF Launched
  <2>2. relaunching' \in BOOLEAN
    BY DEF Launched, Rest, Flags
  <2>3. Flags'
    BY <2>1, <2>2 DEF Rest, Flags
  <2>4. Launches'
    BY DeskAssumption DEF Launched, Rest, Launches
  <2> QED
    BY <2>k, <2>3, <2>4 DEF Rest
<1>26. CASE \E s \in Sessions : AbortServed(s)
  <2> SUFFICES ASSUME NEW s \in Sessions, AbortServed(s) PROVE Rest'
    BY <1>26
  <2>u. UNCHANGED <<running, draining, renewing, up, relaunching, cards, resolved, resume, button, decided, epend, link, gen, polls, posts>>
    BY DEF AbortServed, Goto
  <2>k. Flags' /\ PanelTypes' /\ Launches' /\ NetTypes'
    BY <2>u DEF Rest, Flags, PanelTypes, Launches, NetTypes
  <2>1. RunTargets'
    BY <1>t DEF AbortServed, Goto, Rest, RunTargets, Chosen, RunTypes
  <2>2. ServerTypes'
    BY <1>t DEF AbortServed, Goto, Rest, ServerTypes, ReqStates
  <2> QED
    BY <2>k, <2>1, <2>2 DEF Rest
<1>27. CASE \E p \in polls : PollDelivered(p)
  <2> SUFFICES ASSUME NEW p \in polls, PollDelivered(p) PROVE Rest'
    BY <1>27
  <2>u. UNCHANGED <<running, draining, renewing, up, relaunching, sessions, last, cache, sid, pc, link, gen, turn, aborts, req>>
    BY DEF PollDelivered
  <2>k. Flags' /\ RunTargets' /\ Launches' /\ ServerTypes'
    BY <2>u DEF Rest, Flags, RunTargets, Launches, ServerTypes, Chosen
  <2>d. /\ cards' \in Seq(Requests) /\ epend' \in [Engines -> Seq(Requests)]
        /\ polls' \subseteq polls
    BY DeliveredTypes DEF PollDelivered
  <2>1. PanelTypes'
    BY <1>t, <2>d DEF PollDelivered, Rest, PanelTypes, Buttons
  <2>2. NetTypes'
    BY <1>t, <2>d DEF PollDelivered, Rest, NetTypes
  <2> QED
    BY <2>k, <2>1, <2>2 DEF Rest
<1>28. CASE \E p \in posts : Decide(p)
  <2> SUFFICES ASSUME NEW p \in posts, Decide(p) PROVE Rest'
    BY <1>28
  <2>u. UNCHANGED <<running, draining, renewing, up, relaunching, cards, resolved, resume, button, decided, epend, sessions, last, cache, sid, pc, link, gen>>
    BY DEF Decide
  <2>k. Flags' /\ PanelTypes' /\ RunTargets' /\ Launches'
    BY <2>u DEF Rest, Flags, PanelTypes, RunTargets, Launches, Chosen
  <2>1. ServerTypes'
    BY <1>t DEF Decide, Rest, ServerTypes, ReqStates
  <2>2. NetTypes'
    BY <1>t DEF Decide, Rest, NetTypes
  <2> QED
    BY <2>k, <2>1, <2>2 DEF Rest
<1>29. CASE \E p \in posts : Decided(p)
  <2> SUFFICES ASSUME NEW p \in posts, Decided(p) PROVE Rest'
    BY <1>29
  <2>u. UNCHANGED <<running, draining, renewing, up, relaunching, sessions, last, cache, sid, pc, link, gen, turn, aborts, req>>
    BY DEF Decided
  <2>k. Flags' /\ RunTargets' /\ Launches' /\ ServerTypes'
    BY <2>u DEF Rest, Flags, RunTargets, Launches, ServerTypes, Chosen
  <2>p. p.card \in Requests /\ p.e \in Engines
    BY DEF Rest, NetTypes
  <2>1. epend' \in [Engines -> Seq(Requests)]
    <3>1. epend \in [Engines -> Seq(Requests)]
      BY DEF Rest, PanelTypes
    <3>2. CASE epend' = epend
      BY <3>1, <3>2
    <3>3. CASE epend' # epend
      <4>1. PICK i \in DOMAIN epend[p.e] :
              epend' = [epend EXCEPT ![p.e] = RemoveAt(epend[p.e], i)]
        BY <3>3 DEF Decided
      <4>2. RemoveAt(epend[p.e], i) \in Seq(Requests)
        BY <2>p, <3>1, RemovedTypes
      <4> QED
        BY <3>1, <4>1, <4>2
    <3> QED
      BY <3>2, <3>3
  <2>2. /\ cards' = cards /\ resume' = resume /\ resolved' = resolved \cup {p.card}
        /\ button' = IF button = "none" THEN "armed" ELSE button
        /\ decided' = [decided EXCEPT ![p.e] = TRUE]
    BY DEF Decided
  <2>3. decided' \in [Engines -> BOOLEAN]
    BY <2>2 DEF Rest, PanelTypes
  <2>4. PanelTypes'
    BY <2>p, <2>1, <2>2, <2>3 DEF Rest, PanelTypes, Buttons
  <2>5. NetTypes'
    BY DEF Decided, Rest, NetTypes
  <2> QED
    BY <2>k, <2>4, <2>5 DEF Rest
<1>30. CASE \E p \in polls : Settle(p)
  <2> SUFFICES ASSUME NEW p \in polls, Settle(p) PROVE Rest'
    BY <1>30
  <2>u. UNCHANGED <<link, gen, relaunching, turn, aborts, req>>
    BY DEF Settle, FailRun, Fail, OnDone, Goto
  <2>k. Launches' /\ ServerTypes'
    BY <2>u DEF Rest, Launches, ServerTypes
  <2>d. /\ cards' \in Seq(Requests) /\ epend' \in [Engines -> Seq(Requests)]
        /\ polls' \subseteq polls
    BY DeliveredTypes DEF Settle
  <2>p. p.c \in Calls /\ p.e = by[p.c] /\ pc[p.c] \in Chosen
    BY <1>t DEF LastPolls, Settle, Chosen
  <2>1. UNCHANGED <<renewing, up, relaunching>>
    BY DEF Settle, FailRun, Fail, OnDone, Goto
  <2>2. running' \in BOOLEAN
    BY DEF Settle, FailRun, Fail, OnDone, Goto, Rest, Flags
  <2>3. draining' \in BOOLEAN
    BY DEF Settle, FailRun, Fail, OnDone, Goto, Rest, Flags
  <2>4. Flags'
    BY <2>1, <2>2, <2>3 DEF Rest, Flags
  <2>5. PanelTypes'
    BY <1>t, <2>d, <2>p DEF Settle, FailRun, Fail, OnDone, Goto, Rest, PanelTypes, Buttons
  <2>6. RunTargets'
    BY <1>t, <2>p DEF Settle, FailRun, Fail, OnDone, Goto, Rest, RunTargets, Chosen, RunTypes
  <2>7. NetTypes'
    BY <1>t, <2>d, <2>p DEF Settle, FailRun, Fail, OnDone, Goto, Rest, NetTypes
  <2> QED
    BY <2>k, <2>4, <2>5, <2>6, <2>7 DEF Rest
<1>31. CASE UNCHANGED vars
  <2>1. Flags' /\ Launches'
    BY <1>31 DEF vars, Rest, Flags, Launches
  <2>2. PanelTypes' /\ RunTargets'
    BY <1>31 DEF vars, Rest, PanelTypes, RunTargets, Chosen
  <2>3. ServerTypes' /\ NetTypes'
    BY <1>31 DEF vars, Rest, ServerTypes, NetTypes
  <2> QED
    BY <2>1, <2>2, <2>3 DEF Rest
<1> QED
  BY <1>1, <1>2, <1>3, <1>4, <1>5, <1>6, <1>7, <1>8, <1>9, <1>10, <1>11, <1>12, <1>13, <1>14, <1>15, <1>16, <1>17, <1>18, <1>19, <1>20, <1>21, <1>22, <1>23, <1>24, <1>25, <1>26, <1>27, <1>28, <1>29, <1>30, <1>31
  DEF Next, Upset, Routine, Background, Progress

\* The variables keep their types: the cards and what an engine remembers stay
\* sequences of requests, a launched instance stays within its bound, and an
\* abort always names a session.
THEOREM DeskTyped == Spec => []TypeOK
<1>1. Init => Rest
  <2> SUFFICES ASSUME Init PROVE Rest
    OBVIOUS
  <2>1. Flags
    BY DEF Init, Flags
  <2>2. PanelTypes
    BY DEF Init, PanelTypes, Buttons
  <2>3. RunTargets
    BY DEF Init, RunTargets, Chosen
  <2>4. Launches
    BY DeskAssumption DEF Init, Launches
  <2>5. ServerTypes /\ NetTypes
    BY DEF Init, ServerTypes, ReqStates, NetTypes
  <2> QED
    BY <2>1, <2>2, <2>3, <2>4, <2>5 DEF Rest
<1>2. IInv /\ Rest /\ [Next]_vars => Rest'
  BY RestKept
<1>3. IInv /\ Rest => TypeOK
  BY DEF IInv, RunTypes, Rest, Flags, PanelTypes, Buttons, Launches, ServerTypes, ReqStates, TypeOK
<1> QED
  BY <1>1, <1>2, <1>3, DeskInductive, PTL DEF Spec
=============================================================================
