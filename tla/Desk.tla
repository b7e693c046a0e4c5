-------------------------------- MODULE Desk --------------------------------
(* The agent panel (AgentPanel.js) and the engine it drives (AgentEngine.js) *)
(* against one agent server at a time.  The extension host is one thread: an *)
(* action is what runs between two awaits, and "draining" holds every other  *)
(* action back while a done event is still being handled synchronously.      *)
(* The server is seen from its client: a turn per session, requests that     *)
(* wait for a decision (module AgentServer has its inside).                  *)
EXTENDS Integers, FiniteSets, Sequences, SequencesExt

CONSTANTS
    Calls,      \* prompts of the operator, each one call of engine.run
    Engines,    \* AgentEngine objects the panel may create
    Sessions,   \* server sessions the engines may create
    Requests,   \* approval ids; all four are numbers, taken in order
    MaxGen,     \* bound: AgentServer instances (relaunches + 1)
    MaxUpsets,  \* bound: stops, changes of session or folder, relaunches, crashes
    None

ASSUME DeskAssumption ==
    /\ Calls \cup Engines \cup Sessions \cup Requests \subseteq Nat
    /\ IsFiniteSet(Requests) /\ MaxGen \in Nat \ {0} /\ MaxUpsets \in Nat
    /\ None \notin Nat

VARIABLES
    running,    \* panel._running
    queue,      \* panel._queue
    cards,      \* panel._approvals
    resolved,   \* panel._resolved
    eng,        \* panel.engine
    resume,     \* panel._resumeSessionId
    draining,   \* the thread is inside _onDone / _drain
    renewing,   \* _handleNewSession awaits engine.stop()
    button,     \* the "continue" button of the last done box
    busy,       \* engine._running
    last,       \* engine._lastSessionId
    cache,      \* engine._sessionIds[mode]
    epend,      \* engine._pending, in insertion order
    decided,    \* engine._decided is not empty
    polled,     \* session the poll timer asks for
    link,       \* instance number of engine._server, 0 for null
    pc, by, sid, ok, \* calls of run(): step, engine, session, outcome
    up, gen, relaunching, \* the agent process, its instance, none for now
    upsets,     \* how many upsets there were
    sessions, turn, req, asker, aborts, \* server: turns and requests
    polls, posts, \* answers and decisions under way
    answer,     \* history: the card whose click decided a request
    overruled   \* history: engines that refused a run during a run

panel  == <<running, queue, cards, resolved, eng, resume, draining, renewing, button>>
engine == <<busy, last, cache, epend, decided, polled, link>>
calls  == <<pc, by, sid, ok>>
host   == <<up, gen, relaunching>>
server == <<sessions, turn, req, asker, aborts>>
net    == <<polls, posts>>
hist   == <<answer, overruled>>
vars   == <<panel, engine, calls, host, server, net, hist, upsets>>

InRun   == {"gate", "create", "mode", "post", "stream", "wrapup", "polling"}
Flight  == InRun \cup {"tail"}
Steps   == Flight \cup {"idle", "moving", "queued", "over", "dropped", "stuck"}

Init ==
    /\ running = FALSE /\ queue = <<>> /\ cards = <<>> /\ resolved = {}
    /\ eng = None /\ resume = None /\ draining = FALSE /\ renewing = FALSE
    /\ button = "none"
    /\ busy = [e \in Engines |-> FALSE] /\ last = [e \in Engines |-> None]
    /\ cache = [e \in Engines |-> None] /\ epend = [e \in Engines |-> <<>>]
    /\ decided = [e \in Engines |-> FALSE] /\ polled = [e \in Engines |-> None]
    /\ link = [e \in Engines |-> None]
    /\ pc = [c \in Calls |-> "idle"] /\ by = [c \in Calls |-> None]
    /\ sid = [c \in Calls |-> None] /\ ok = [c \in Calls |-> TRUE]
    /\ up = TRUE /\ gen = 1 /\ relaunching = FALSE /\ upsets = 0
    /\ sessions = {} /\ turn = [s \in Sessions |-> None]
    /\ req = [r \in Requests |-> "unused"] /\ asker = [r \in Requests |-> None]
    /\ aborts = {} /\ polls = {} /\ posts = {}
    /\ answer = [r \in Requests |-> None] /\ overruled = {}

Ready(e) == up /\ link[e] = gen                \* _serverReady
Open == SelectSeq(cards, LAMBDA k : k \notin resolved)
Unused(x, S) == x \in S /\ \A y \in S : x <= y    \* the next name of S
Prompt(c) == Unused(c, {d \in Calls : pc[d] = "idle"})

-----------------------------------------------------------------------------
(* Ends of a run.  Both vocabularies' "done" reach the panel synchronously:  *)
(* _onDone clears _running and drains.                                      *)

\* Mutant of OnDone: the queue waits for the next message.
OnDoneIdle ==
    /\ running' = FALSE /\ draining' = FALSE
    /\ button' = IF button = "armed" THEN "shown" ELSE button

OnDone ==
    /\ running' = FALSE /\ draining' = TRUE
    /\ button' = IF button = "armed" THEN "shown" ELSE button

\* Mutant of Fail: the flag stays up.
FailBusy(e) ==
    /\ polled' = [polled EXCEPT ![e] = None]
    /\ OnDone /\ UNCHANGED busy

\* _fail of engine e, whatever the reason.
Fail(e) ==
    /\ busy' = [busy EXCEPT ![e] = FALSE]
    /\ polled' = [polled EXCEPT ![e] = None]
    /\ OnDone

\* Mutant of Begin: a second run is not looked for.
BeginAnyway(c, e, s, l) ==
    /\ up /\ l = gen
    /\ pc' = [pc EXCEPT ![c] = "gate"]
    /\ by' = [by EXCEPT ![c] = e] /\ sid' = [sid EXCEPT ![c] = s]
    /\ busy' = [busy EXCEPT ![e] = TRUE]
    /\ decided' = [decided EXCEPT ![e] = FALSE]
    /\ running' = TRUE /\ draining' = FALSE
    /\ UNCHANGED <<polled, button, overruled>>

\* engine.run up to its first await, on an engine whose server is l.
Begin(c, e, s, l) ==
    IF busy[e] \/ ~up \/ l # gen
    THEN /\ pc' = [pc EXCEPT ![c] = "over"]
         /\ Fail(e)
         /\ overruled' = IF busy[e] THEN overruled \cup {e} ELSE overruled
         /\ UNCHANGED <<decided, by, sid>>
    ELSE /\ pc' = [pc EXCEPT ![c] = "gate"]
         /\ by' = [by EXCEPT ![c] = e] /\ sid' = [sid EXCEPT ![c] = s]
         /\ busy' = [busy EXCEPT ![e] = TRUE]
         /\ decided' = [decided EXCEPT ![e] = FALSE]
         /\ running' = TRUE /\ draining' = FALSE
         /\ UNCHANGED <<polled, button, overruled>>

\* _runOne: on the panel's engine, or on a new one tied to the instance the
\* host has now (none while a relaunch awaits its configuration).
RunOne(c, e, s) ==
    /\ eng' = e /\ cards' = <<>> /\ resolved' = {}
    /\ LET l == IF link[e] # None THEN link[e] ELSE IF relaunching THEN 0 ELSE gen
       IN link' = [link EXCEPT ![e] = l] /\ Begin(c, e, s, l)

\* _ensureEngine: the engine there is, else an unused one.
EngineOr(e, cur) ==
    e = cur \/ (cur = None /\ Unused(e, {x \in Engines : link[x] = None}))

\* Mutant of PostAbort: the session is not looked at.
PostAbortBlind(e) ==
    aborts' = IF e # None /\ busy[e] /\ Ready(e) THEN aborts \cup {last[e]} ELSE aborts

\* engine.stop: the abort goes to the session of the last run.
PostAbort(e) ==
    aborts' = IF e # None /\ busy[e] /\ Ready(e) /\ last[e] # None
              THEN aborts \cup {last[e]} ELSE aborts

-----------------------------------------------------------------------------
(* The panel's messages.                                                    *)

\* _handleSend, the folder being the engine's: queued behind a run, else run.
Send(c) ==
    /\ Prompt(c)
    /\ \/ /\ running
          /\ queue' = Append(queue, c) /\ pc' = [pc EXCEPT ![c] = "queued"]
          /\ UNCHANGED <<running, cards, resolved, eng, draining, button, engine, by, sid, hist>>
       \/ /\ ~running
          /\ \E e \in Engines : EngineOr(e, eng) /\ RunOne(c, e, resume)
          /\ UNCHANGED <<queue, last, cache, epend, answer>>
    /\ UNCHANGED <<resume, renewing, ok, host, server, net>>

\* Bound: one engine is being replaced at a time, and another one is left.
Spare ==
    /\ ~renewing /\ \A c \in Calls : pc[c] # "moving"
    /\ \E e \in Engines : link[e] = None

\* _handleSend after a change of folder: the engine is stopped first ...
SendMoved(c) ==
    /\ Prompt(c) /\ eng # None /\ Spare
    /\ pc' = [pc EXCEPT ![c] = "moving"]
    /\ PostAbort(eng)
    /\ UNCHANGED <<panel, engine, by, sid, ok, host, sessions, turn, req, asker, net, hist>>

\* ... and the rest runs after that await, with no engine and no resume.
Moved(c) ==
    /\ pc[c] = "moving"
    /\ resume' = None
    /\ \/ /\ running
          /\ eng' = None
          /\ queue' = Append(queue, c) /\ pc' = [pc EXCEPT ![c] = "queued"]
          /\ UNCHANGED <<running, cards, resolved, draining, button, engine, by, sid, hist>>
       \/ /\ ~running
          /\ \E e \in Engines : EngineOr(e, None) /\ RunOne(c, e, None)
          /\ UNCHANGED <<queue, last, cache, epend, answer>>
    /\ UNCHANGED <<renewing, ok, host, server, net>>

\* _drain, called by _onDone: the next queued prompt, if any.
Drain ==
    /\ draining
    /\ \/ /\ queue = <<>> /\ draining' = FALSE
          /\ UNCHANGED <<running, queue, cards, resolved, eng, button, engine, pc, by, sid, hist>>
       \/ /\ queue # <<>> /\ queue' = Tail(queue)
          /\ \E e \in Engines : EngineOr(e, eng) /\ RunOne(Head(queue), e, resume)
          /\ UNCHANGED <<last, cache, epend, answer>>
    /\ UNCHANGED <<resume, renewing, ok, host, server, net>>

\* stopAgent: the queue is dropped and the panel says idle at once, whenever
\* the run ends.
Stop ==
    /\ queue' = <<>> /\ running' = FALSE
    /\ pc' = [c \in Calls |-> IF pc[c] = "queued" THEN "dropped" ELSE pc[c]]
    /\ PostAbort(eng)
    /\ UNCHANGED <<cards, resolved, eng, resume, draining, renewing, button>>
    /\ UNCHANGED <<engine, by, sid, ok, host, sessions, turn, req, asker, net, hist>>

\* "clear" empties the queue only.
Clear ==
    /\ queue # <<>> /\ queue' = <<>>
    /\ pc' = [c \in Calls |-> IF pc[c] = "queued" THEN "dropped" ELSE pc[c]]
    /\ UNCHANGED <<running, cards, resolved, eng, resume, draining, renewing, button>>
    /\ UNCHANGED <<engine, by, sid, ok, host, server, net, hist>>

\* _handleNewSession, before and after its await.
NewSession ==
    /\ ~running /\ eng # None /\ Spare
    /\ renewing' = TRUE /\ PostAbort(eng)
    /\ UNCHANGED <<running, queue, cards, resolved, eng, resume, draining, button>>
    /\ UNCHANGED <<engine, calls, host, sessions, turn, req, asker, net, hist>>

Renewed ==
    /\ renewing /\ renewing' = FALSE
    /\ eng' = None /\ resume' = None /\ cards' = <<>> /\ resolved' = {}
    /\ UNCHANGED <<running, queue, draining, button>>
    /\ UNCHANGED <<engine, calls, host, server, net, hist>>

ResumeSession(s) ==
    /\ ~running /\ s \in sessions /\ resume # s
    /\ resume' = s
    /\ UNCHANGED <<running, queue, cards, resolved, eng, draining, renewing, button>>
    /\ UNCHANGED <<engine, calls, host, server, net, hist>>

\* _handleContinue, on the button of a done box.  With no decision left to
\* report continueAfterApproval returns without a run and without a "done".
Continue(c) ==
    /\ button = "shown" /\ eng # None /\ ~running /\ Prompt(c)
    /\ \/ /\ ~decided[eng]
          /\ running' = TRUE /\ pc' = [pc EXCEPT ![c] = "stuck"]
          /\ UNCHANGED <<draining, button, busy, decided, polled, by, sid, overruled>>
       \/ /\ decided[eng]
          /\ IF busy[eng] \/ ~Ready(eng)
             THEN /\ pc' = [pc EXCEPT ![c] = "over"] /\ Fail(eng)
                  /\ decided' = [decided EXCEPT ![eng] = FALSE]
                  /\ overruled' = IF busy[eng] THEN overruled \cup {eng} ELSE overruled
                  /\ UNCHANGED <<by, sid>>
             ELSE Begin(c, eng, last[eng], link[eng])
    /\ UNCHANGED <<queue, cards, resolved, eng, resume, renewing, last, cache, epend, link>>
    /\ UNCHANGED <<ok, host, server, net, answer>>

-----------------------------------------------------------------------------
(* engine.run, from await to await.                                         *)

Goto(c, p) == pc' = [pc EXCEPT ![c] = p]

\* Mutant of FailRun: the error is shown, and no done follows.
FailRunMute(c) ==
    /\ Goto(c, "over")
    /\ busy' = [busy EXCEPT ![by[c]] = FALSE]
    /\ polled' = [polled EXCEPT ![by[c]] = None]
    /\ UNCHANGED <<running, draining, button>>

\* The run of c fails here: error, done.
FailRun(c) == Goto(c, "over") /\ Fail(by[c])

\* The gate (licence, policy, provider) refuses, or lets the run choose its
\* session: the one resumed, the cached one, or one to create.
Gate(c) ==
    /\ pc[c] = "gate"
    /\ LET e == by[c]
           s == IF sid[c] # None THEN sid[c] ELSE cache[e]
       IN \/ FailRun(c) /\ UNCHANGED <<last, cache, sid>>
          \/ /\ s = None /\ Goto(c, "create")
             /\ UNCHANGED <<busy, polled, running, draining, button, last, cache, sid>>
          \/ /\ s # None /\ Goto(c, "mode")
             /\ sid' = [sid EXCEPT ![c] = s]
             /\ last' = [last EXCEPT ![e] = s] /\ cache' = [cache EXCEPT ![e] = s]
             /\ UNCHANGED <<busy, polled, running, draining, button>>
    /\ UNCHANGED <<queue, cards, resolved, eng, resume, renewing, epend, decided, link>>
    /\ UNCHANGED <<by, ok, host, server, net, hist>>

\* POST /sessions.
Create(c) ==
    /\ pc[c] = "create"
    /\ \/ /\ ~Ready(by[c]) /\ FailRun(c) /\ UNCHANGED <<last, cache, sid, sessions>>
       \/ /\ Ready(by[c])
          /\ \E s \in Sessions :
               /\ Unused(s, Sessions \ sessions)
               /\ sessions' = sessions \cup {s} /\ sid' = [sid EXCEPT ![c] = s]
               /\ last' = [last EXCEPT ![by[c]] = s] /\ cache' = [cache EXCEPT ![by[c]] = s]
          /\ Goto(c, "mode")
          /\ UNCHANGED <<busy, polled, running, draining, button>>
    /\ UNCHANGED <<queue, cards, resolved, eng, resume, renewing, epend, decided, link>>
    /\ UNCHANGED <<by, ok, host, turn, req, asker, aborts, net, hist>>

\* POST /mode, refused while a turn runs on the session; then the poll starts.
SetMode(c) ==
    /\ pc[c] = "mode"
    /\ \/ /\ ~Ready(by[c]) \/ turn[sid[c]] # None
          /\ FailRun(c)
       \/ /\ Ready(by[c]) /\ turn[sid[c]] = None
          /\ polled' = [polled EXCEPT ![by[c]] = sid[c]]
          /\ Goto(c, "post")
          /\ UNCHANGED <<busy, running, draining, button>>
    /\ UNCHANGED <<queue, cards, resolved, eng, resume, renewing, last, cache, epend, decided, link>>
    /\ UNCHANGED <<by, sid, ok, host, server, net, hist>>

\* POST /messages: the turn begins, or the answer is an error.
Post(c) ==
    /\ pc[c] = "post"
    /\ \/ /\ Ready(by[c]) /\ turn[sid[c]] = None
          /\ turn' = [turn EXCEPT ![sid[c]] = c]
          /\ Goto(c, "stream") /\ UNCHANGED ok
       \/ /\ ~Ready(by[c]) \/ turn[sid[c]] # None
          /\ Goto(c, "wrapup") /\ ok' = [ok EXCEPT ![c] = FALSE]
          /\ UNCHANGED turn
    /\ UNCHANGED <<panel, engine, by, sid, host, sessions, req, asker, aborts, net, hist>>

\* The turn of c ends (turn.done, turn.error); a request it waited on stays
\* open.
TurnEnds(c) ==
    /\ pc[c] = "stream" /\ turn[sid[c]] = c
    /\ turn' = [turn EXCEPT ![sid[c]] = None]
    /\ Goto(c, "wrapup") /\ ok' \in {ok, [ok EXCEPT ![c] = FALSE]}
    /\ UNCHANGED <<panel, engine, by, sid, host, sessions, req, asker, aborts, net, hist>>

\* Silence for streamTimeoutMs: the client closes the stream, and the server
\* aborts the session on that close.
StreamTimeout(c) ==
    /\ pc[c] = "stream" /\ Goto(c, "wrapup") /\ ok' = [ok EXCEPT ![c] = FALSE]
    /\ aborts' = aborts \cup {sid[c]}
    /\ UNCHANGED <<panel, engine, by, sid, host, sessions, turn, req, asker, net, hist>>

\* The turn asks the operator, one request at a time: it is paused meanwhile.
TurnAsks(c) ==
    /\ pc[c] = "stream" /\ \A r \in Requests : asker[r] = c => req[r] # "open"
    /\ \E r \in Requests :
         /\ Unused(r, {q \in Requests : req[q] = "unused"})
         /\ req' = [req EXCEPT ![r] = "open"] /\ asker' = [asker EXCEPT ![r] = c]
    /\ UNCHANGED <<panel, engine, calls, host, sessions, turn, aborts, net, hist>>

Listed(s) == {r \in Requests : req[r] = "open" /\ sid[asker[r]] = s}

\* GET /approvals of the timer: the answer is what is open now, delivered
\* later (one with nothing in it changes nothing and is left out).
PollAsked(e) ==
    /\ busy[e] /\ polled[e] # None /\ Ready(e) /\ Listed(polled[e]) # {}
    /\ \A p \in polls : p.e # e \/ p.c # None      \* the next tick awaits this one
    /\ polls' = polls \cup {[e |-> e, c |-> None, seen |-> Listed(polled[e])]}
    /\ UNCHANGED <<panel, engine, calls, host, server, posts, hist>>

\* The last poll of a run, awaited; none when the server is gone.
LastPoll(c) ==
    /\ pc[c] = "wrapup" /\ Goto(c, "polling")
    /\ polls' = polls \cup {[e |-> by[c], c |-> c, seen |-> IF Ready(by[c])
                               THEN Listed(sid[c]) ELSE {}]}
    /\ UNCHANGED <<panel, engine, by, sid, ok, host, server, posts, hist>>

\* Requests not known yet, oldest first, are remembered and shown.
News(p) == LET new == p.seen \ Range(epend[p.e])
           IN {n \in [1 .. Cardinality(new) -> new] :
                 \A i, j \in DOMAIN n : i < j => n[i] < n[j]}

Delivered(p) ==
    /\ p \in polls /\ polls' = polls \ {p}
    /\ \E n \in News(p) : /\ epend' = [epend EXCEPT ![p.e] = @ \o n]
                         /\ cards' = cards \o n

PollDelivered(p) ==
    /\ p.c = None /\ Delivered(p)
    /\ UNCHANGED <<running, queue, resolved, eng, resume, draining, renewing, button>>
    /\ UNCHANGED <<busy, last, cache, decided, polled, link>>
    /\ UNCHANGED <<calls, host, server, posts, answer, overruled>>

\* The last poll is in: a failed run says so; a good one clears _running and
\* reads the session before it says done.
Settle(p) ==
    /\ p.c # None /\ Delivered(p)
    /\ IF ok[p.c]
       THEN /\ Goto(p.c, "tail")
            /\ busy' = [busy EXCEPT ![p.e] = FALSE]
            /\ polled' = [polled EXCEPT ![p.e] = None]
            /\ UNCHANGED <<running, draining, button>>
       ELSE FailRun(p.c)
    /\ UNCHANGED <<queue, resolved, eng, resume, renewing, last, cache, decided, link>>
    /\ UNCHANGED <<by, sid, ok, host, server, posts, answer, overruled>>

Done(c) ==
    /\ pc[c] = "tail" /\ Goto(c, "over") /\ OnDone
    /\ UNCHANGED <<queue, cards, resolved, eng, resume, renewing, engine>>
    /\ UNCHANGED <<by, sid, ok, host, server, net, hist>>

-----------------------------------------------------------------------------
(* Approvals: a click on the oldest open card lets the engine decide the    *)
(* oldest request it knows.                                                 *)

Oldest(e) == Head(epend[e])

Click(k) ==
    /\ Open # <<>> /\ k = Head(Open) /\ eng # None
    /\ epend[eng] # <<>> /\ Ready(eng)
    /\ posts' = posts \cup {[card |-> k, r |-> Oldest(eng), e |-> eng, at |-> "sent"]}
    /\ UNCHANGED <<panel, engine, calls, host, server, polls, hist>>

\* The server takes an open request once; an unknown one is an error.
Decide(p) ==
    /\ p \in posts /\ p.at = "sent"
    /\ IF Ready(p.e) /\ req[p.r] = "open"
       THEN /\ req' = [req EXCEPT ![p.r] = "spent"]
            /\ answer' = [answer EXCEPT ![p.r] = p.card]
            /\ posts' = (posts \ {p}) \cup {[p EXCEPT !.at = "ok"]}
       ELSE posts' = posts \ {p} /\ UNCHANGED <<req, answer>>
    /\ UNCHANGED <<panel, engine, calls, host, sessions, turn, asker, aborts, polls>>
    /\ UNCHANGED overruled

\* The answer is back: the engine forgets the request, the panel its card.
Decided(p) ==
    /\ p \in posts /\ p.at = "ok" /\ posts' = posts \ {p}
    /\ \/ p.r \notin Range(epend[p.e]) /\ epend' = epend
       \/ \E i \in DOMAIN epend[p.e] :
            epend[p.e][i] = p.r /\ epend' = [epend EXCEPT ![p.e] = RemoveAt(@, i)]
    /\ decided' = [decided EXCEPT ![p.e] = TRUE]
    /\ resolved' = resolved \cup {p.card}
    /\ button' = IF button = "none" THEN "armed" ELSE button
    /\ UNCHANGED <<running, queue, cards, eng, resume, draining, renewing>>
    /\ UNCHANGED <<busy, last, cache, polled, link, calls, host, server, polls, hist>>

-----------------------------------------------------------------------------
(* The agent process.                                                       *)

AbortServed(s) ==
    /\ s \in aborts /\ aborts' = aborts \ {s}
    /\ turn' = [turn EXCEPT ![s] = None]
    /\ IF turn[s] # None /\ pc[turn[s]] = "stream"
       THEN Goto(turn[s], "wrapup") /\ ok' = [ok EXCEPT ![turn[s]] = FALSE]
       ELSE UNCHANGED <<pc, ok>>
    /\ UNCHANGED <<panel, engine, by, sid, host, sessions, req, asker, net, hist>>

\* Its turns and its approvals go with it; the sessions are on disk.
Goes ==
    /\ up' = FALSE
    /\ turn' = [s \in Sessions |-> None]
    /\ req' = [r \in Requests |-> IF req[r] = "open" THEN "lost" ELSE req[r]]
    /\ pc' = [c \in Calls |-> IF pc[c] = "stream" THEN "wrapup" ELSE pc[c]]
    /\ ok' = [c \in Calls |-> ok[c] /\ pc[c] # "stream"]
    /\ aborts' = {}

Crash ==
    /\ up /\ Goes
    /\ UNCHANGED <<panel, engine, by, sid, gen, relaunching, sessions, asker, net, hist>>

Respawn ==
    /\ ~up /\ ~relaunching /\ up' = TRUE
    /\ UNCHANGED <<panel, engine, calls, gen, relaunching, server, net, hist>>

\* _relaunchServer, refused while the panel runs: the instance is stopped and
\* forgotten.
Relaunch ==
    /\ ~running /\ ~relaunching /\ gen < MaxGen
    /\ relaunching' = TRUE /\ Goes
    /\ UNCHANGED <<panel, engine, by, sid, gen, sessions, asker, net, hist>>

\* Another one is launched once the provider's configuration is read.  If that is
\* refused there is none, until the operator relaunches again (nothing is left to
\* stop then): this comes late, or never, and no fairness is assumed of it.
Launched ==
    /\ relaunching /\ relaunching' = FALSE /\ gen' = gen + 1
    /\ UNCHANGED <<panel, engine, calls, up, server, net, hist>>

-----------------------------------------------------------------------------
\* The operator's work and the server's questions ...
Routine ==
    \/ \E c \in Calls : Send(c) \/ Continue(c) \/ TurnAsks(c)
    \/ \E k \in Requests : Click(k)
    \/ \E e \in Engines : PollAsked(e)

\* ... and what upsets a run under way, bounded.
Upset ==
    /\ upsets < MaxUpsets /\ upsets' = upsets + 1
    /\ \/ Stop \/ Clear \/ NewSession \/ Relaunch \/ Crash
       \/ \E c \in Calls : SendMoved(c)
       \/ \E s \in Sessions : ResumeSession(s)

Progress(c) ==
    \/ Moved(c) \/ Gate(c) \/ Create(c) \/ SetMode(c) \/ Post(c)
    \/ TurnEnds(c) \/ StreamTimeout(c) \/ LastPoll(c) \/ Done(c)

Background ==
    \/ Renewed \/ Respawn \/ Launched
    \/ \E s \in Sessions : AbortServed(s)
    \/ \E p \in polls : PollDelivered(p)
    \/ \E p \in posts : Decide(p) \/ Decided(p)

Next ==
    \/ Drain /\ UNCHANGED upsets
    \/ /\ ~draining
       /\ \/ Upset
          \/ /\ UNCHANGED upsets
             /\ \/ Routine \/ Background
                \/ \E c \in Calls : Progress(c)
                \/ \E p \in polls : Settle(p)

Spec == Init /\ [][Next]_vars

\* The thread runs, the process answers or is gone, a turn ends (its own
\* limits or the client's stream timeout), a stopped process is spawned again.
Calm(A) == ~draining /\ A /\ UNCHANGED upsets

Fairness ==
    /\ WF_vars(Drain /\ UNCHANGED upsets)
    /\ WF_vars(Calm(Renewed)) /\ WF_vars(Calm(Respawn))
    /\ WF_vars(Calm(\E p \in polls : PollDelivered(p)))
    /\ \A c \in Calls : /\ WF_vars(Calm(Progress(c)))
                       /\ WF_vars(Calm(\E p \in polls : p.c = c /\ Settle(p)))

FairSpec == Spec /\ Fairness

-----------------------------------------------------------------------------
(* Properties.                                                              *)

Flying == {c \in Calls : pc[c] \in Flight}
InRunOf(e) == {c \in Calls : pc[c] \in InRun /\ by[c] = e}

\* The variables keep their types; an abort names a session.
TypeOK ==
    /\ {running, draining, renewing, up, relaunching} \subseteq BOOLEAN
    /\ queue \in Seq(Calls) /\ cards \in Seq(Requests) /\ resolved \subseteq Requests
    /\ eng \in Engines \cup {None} /\ resume \in Sessions \cup {None}
    /\ button \in {"none", "armed", "shown"}
    /\ busy \in [Engines -> BOOLEAN] /\ decided \in [Engines -> BOOLEAN]
    /\ epend \in [Engines -> Seq(Requests)]
    /\ link \in [Engines -> (0 .. MaxGen) \cup {None}] /\ gen \in 1 .. MaxGen
    /\ pc \in [Calls -> Steps] /\ by \in [Calls -> Engines \cup {None}]
    /\ turn \in [Sessions -> Calls \cup {None}] /\ aborts \subseteq Sessions
    /\ req \in [Requests -> {"unused", "open", "spent", "lost"}]
    /\ overruled \subseteq Engines

\* While a message waits, the panel believes a run is under way (whose done
\* will drain) or is draining now.  Hence a new one never overtakes it either.
QueueAwaits == queue # <<>> => running \/ draining

\* A message that waits is in the queue.
WaitsInQueue == \A c \in Calls : pc[c] = "queued" => \E i \in 1 .. Len(queue) : queue[i] = c

\* A queued message is never stranded: no step takes it out of the queue but to
\* run it or because the operator drops it, and what it waits for is to come.
QueueMoves == QueueAwaits /\ WaitsInQueue

\* AgentEngine.js "One in-flight run per engine": two runs are under way on
\* one engine only after it refused a run during a run (_fail clears the flag
\* of the run that goes on, reached by stop-then-send in the panel).
OneRunUnlessOverruled == \A e \in Engines : \A c, d \in InRunOf(e) :
    c # d => e \in overruled

\* An engine that says it is busy has a run under way: the flag is never left
\* up by a failure, a crash of the agent, a relaunch or a change of engine.
FlagFollowsRun == \A e \in Engines : busy[e] => InRunOf(e) # {}

\* A panel that says a run is under way has one, on whatever engine, or pressed
\* "continue" with nothing to report.
PanelFollowsRun == running => \E c \in Calls : pc[c] \in Flight \cup {"stuck"}

\* What the panel goes by is true: an engine that passes for busy has a run, and
\* one only, but for the refusal above, and so has a panel that says so.
FlagsTrue == OneRunUnlessOverruled /\ FlagFollowsRun /\ PanelFollowsRun

\* Every prompt handed over or queued is answered or dropped by the operator,
\* whatever the server does, unless "continue" was pressed with no decision to
\* report: the panel then says a run is under way and none is.
PromptSettles == \A c \in Calls :
    pc[c] \in Flight \cup {"queued"} ~>
        pc[c] \in {"over", "dropped"} \/ \E d \in Calls : pc[d] = "stuck"

\* AgentPanel.js "engine answers FIFO so only the oldest unresolved card is
\* actionable": the request a click decides is the one on its card.
AnswersItsCard == \A r \in Requests : answer[r] \in {None, r}
=============================================================================
