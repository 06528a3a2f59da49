---------------------------- MODULE SpeechClient ----------------------------
(***************************************************************************)
(* SpeechdClient (fotw-speechd-client/src/client.rs): the owner of the     *)
(* speech helper process.  Concurrent callers share one helper; whichever  *)
(* task first sees it go fails its connection, every waiter is told, and a *)
(* replacement is started under the restart budget, with the engines the   *)
(* application had loaded replayed into it.                                *)
(*                                                                         *)
(* A process is a caller of the API (one operation each), the restart task *)
(* conn_died spawns for a generation, or shutdown.  An action is what runs *)
(* between two awaits.  Locks held across no await are implicit; spawn_lock*)
(* is not.  The helper is external: it answers, refuses, hangs, crashes or *)
(* sends garbage.  There is one engine; texts, audio and progress are left *)
(* out.  The deadlines bite only a helper that hangs (a slow one is hung   *)
(* for as long as it is slow), and the spacing of spawns is left out.      *)
(***************************************************************************)
EXTENDS Integers, FiniteSets

CONSTANTS Callers,      \* tasks calling the API, each once
          OpsOf,        \* what each may call
          MaxAttempts,  \* RestartPolicy::max_attempts
          MaxFaults,    \* bound on the helper's crashes, hangs, bad hellos
          MaxResets     \* bound on reset

\* "ask" is health or install: a question that leaves nothing behind in the client.
AllOps == {"load", "warmup", "unload", "ask", "stream"}

Gens == 1 .. MaxFaults + 1   \* every generation but the first follows a fault
None == 0
Stop == -1                   \* the task in shutdown
Procs == Callers \cup Gens \cup {Stop}

ASSUME ClientAssumption ==
  /\ OpsOf \in [Callers -> SUBSET AllOps]
  /\ {MaxAttempts, MaxFaults, MaxResets} \subseteq Nat
  /\ \A c \in Callers : c \notin Gens \cup {None, Stop}

VARIABLES
  client,  \* Shared: current, starting, attempts, failed, gen, wanted, stop, lock
  conn,    \* Conn and the helper behind it, by generation
  proc,    \* every process: pc, op, conn held, engines to replay, answer, event
  died,    \* generations marked dead whose conn_died has not run yet
  faults, resets,
  since,   \* history: restarts begun since something worked
  late     \* history: a call was noted after its helper's replacement was begun and greeted

vars == <<client, conn, proc, died, faults, resets, since, late>>

-----------------------------------------------------------------------------
(* Connections. *)

Alive(cs, g) == cs[g].up /\ ~cs[g].dead

\* live(): the published connection, if it is alive.
Live == client.current # None /\ Alive(conn, client.current)

\* A connection as mark_dead_if and kill leave it.  The reader goes on reading
\* what was written: replies have nobody to go to any more, a Closed still tells
\* the budget.
Dead(h) == [h EXCEPT !.dead = TRUE, !.child = "killed", !.loaded = "none",
                     !.asked = {}, !.pending = {}, !.streams = {},
                     !.out = {m \in @ : m[2] = "finish"}]

\* Mutant: the helper of a dead connection is left running.
Fail_LeavesChild(cs, g) ==
  IF cs[g].dead THEN cs ELSE [cs EXCEPT ![g] = [Dead(@) EXCEPT !.child = cs[g].child]]

\* fail: dead once, killed, nobody left waiting on it.
Fail(cs, g) == IF cs[g].dead THEN cs ELSE [cs EXCEPT ![g] = Dead(@)]

\* What fail tells those who were: the error to requests, Failed to streams.
Told(ps, g) ==
  [p \in Procs |-> [ps[p] EXCEPT
     !.ans = IF p \in conn[g].pending THEN "dead" ELSE @,
     !.event = IF p \in conn[g].streams THEN "failed" ELSE @]]

\* close: no restart follows.
Close(cs, g) == Fail([cs EXCEPT ![g].closing = TRUE], g)

\* A connection that dies other than by close tells its owner.
Orphaned(g) == IF ~conn[g].dead /\ ~conn[g].closing THEN died \cup {g} ELSE died

-----------------------------------------------------------------------------
(* conn(): the connection to use, started if need be. *)

Idle == [pc |-> "idle", op |-> "none", req |-> "none", conn |-> None,
         replay |-> "none", ans |-> "no", event |-> "no"]

\* A call returns; what it returns is what it found.
Returns(ps, p) == [ps EXCEPT ![p] = [Idle EXCEPT !.pc = "done"]]

\* conn() has one: a caller sends its request, a restart task is done.
Got(ps, p, g) ==
  IF p \in Callers THEN [ps EXCEPT ![p] = [@ EXCEPT !.pc = "send", !.conn = g]]
  ELSE Returns(ps, p)

\* conn: the published connection if it is alive, else spawn_lock first.
Entered(ps, p) ==
  IF Live THEN Got(ps, p, client.current) ELSE [ps EXCEPT ![p].pc = "lock"]

Init ==
  /\ client = [current |-> None, starting |-> None, attempts |-> 0, failed |-> "no",
               gen |-> 1, wanted |-> "none", stop |-> FALSE, lock |-> None]
  /\ conn = [g \in Gens |-> [up |-> g = 1, dead |-> FALSE, closing |-> FALSE,
               child |-> IF g = 1 THEN "running" ELSE "none", loaded |-> "none",
               asked |-> {}, out |-> {}, pending |-> {}, streams |-> {}]]
  /\ proc = [p \in Procs |-> Idle]
  /\ died = {} /\ faults = 0 /\ resets = 0 /\ since = 0 /\ late = FALSE

Limits == <<faults, resets>>

\* start publishes the first connection.
Start ==
  /\ client.current = None /\ client.gen = 1 /\ client.failed = "no"
  /\ client' = [client EXCEPT !.current = 1]
  /\ UNCHANGED <<conn, proc, died, Limits, since, late>>

\* A caller calls the API.
Call(c, o) ==
  /\ client.current # None \/ client.gen > 1 \/ client.failed # "no"
  /\ proc[c].pc = "idle"
  /\ proc' = Entered([proc EXCEPT ![c] = [@ EXCEPT !.op = o,
                        !.req = IF o = "stream" THEN "open" ELSE o]], c)
  /\ UNCHANGED <<client, conn, died, Limits, since, late>>

\* RestartBudget::take grants an attempt.
MayRestart == client.attempts < MaxAttempts

\* conn with spawn_lock, and the head of its loop: somebody else restarted the
\* helper, it is failed for good, the budget grants an attempt, or it is spent.
Look(p) ==
  /\ p # Stop
  /\ (proc[p].pc = "lock" /\ client.lock = None) \/ proc[p].pc = "look"
  /\ \/ /\ Live
        /\ proc' = Got(proc, p, client.current)
        /\ client' = [client EXCEPT !.lock = None] /\ UNCHANGED since
     \/ /\ ~Live /\ client.failed # "no"
        /\ proc' = Returns(proc, p)
        /\ client' = [client EXCEPT !.lock = None] /\ UNCHANGED since
     \/ /\ ~Live /\ client.failed = "no" /\ MayRestart
        /\ client' = [client EXCEPT !.attempts = @ + 1, !.gen = @ + 1, !.lock = p]
        /\ proc' = [proc EXCEPT ![p] = [@ EXCEPT !.pc = "wait", !.conn = client.gen + 1]]
        /\ since' = since + 1
     \/ /\ ~Live /\ client.failed = "no" /\ ~MayRestart
        /\ client' = [client EXCEPT !.failed = "helperFailed", !.lock = None]
        /\ proc' = Returns(proc, p) /\ UNCHANGED since
  /\ UNCHANGED <<conn, died, Limits, late>>

\* The spacing is over: spawn, unless shutdown came first.
Wake(p) ==
  /\ proc[p].pc = "wait"
  /\ IF client.failed # "no"
     THEN /\ proc' = Returns(proc, p)
          /\ client' = [client EXCEPT !.lock = None]
          /\ UNCHANGED conn
     ELSE /\ conn' = [conn EXCEPT ![proc[p].conn].child = "running"]
          /\ proc' = [proc EXCEPT ![p].pc = "hello"]
          /\ UNCHANGED client
  /\ UNCHANGED <<died, Limits, since, late>>

\* The new helper is the client's, to call with what this process came for.
Published(p, wanted) ==
  LET op == proc[p].op IN
  /\ client' = [client EXCEPT !.starting = None, !.lock = None, !.current = proc[p].conn,
                              !.wanted = wanted]
  /\ proc' = Got([proc EXCEPT ![p] = [@ EXCEPT !.ans = "no",
                    !.req = IF op = "stream" THEN "open" ELSE op]], p, proc[p].conn)
  /\ UNCHANGED conn

\* The new helper is given up, for a failure that is final.
GivenUp(p) ==
  /\ conn' = Close(conn, proc[p].conn)
  /\ proc' = Returns(Told(proc, proc[p].conn), p)
  /\ client' = [client EXCEPT !.starting = None, !.lock = None]

\* The handshake succeeds.  The helper is registered as starting and replay
\* begins, unless shutdown came first or there is nothing to replay.
Hello(p) ==
  LET g == proc[p].conn IN
  /\ proc[p].pc = "hello" /\ conn[g].child = "running"
  /\ IF client.failed # "no"
     THEN GivenUp(p)
     ELSE /\ conn' = [conn EXCEPT ![g].up = TRUE]
          /\ client' = [client EXCEPT !.starting = g]
          /\ proc' = [proc EXCEPT ![p] = [@ EXCEPT !.replay = client.wanted, !.req = "load",
                        !.pc = IF client.wanted = "none" THEN "publish" ELSE "send",
                        !.ans = "no"]]
  /\ late' = FALSE
  /\ UNCHANGED <<died, Limits, since>>

\* It does not: the child is dropped, which kills it.  A helper of another
\* version ends the client, anything else is tried again.
HelloFails(p) ==
  /\ proc[p].pc = "hello" /\ faults < MaxFaults /\ faults' = faults + 1
  /\ conn' = [conn EXCEPT ![proc[p].conn].child = "killed"]
  /\ \/ proc' = [proc EXCEPT ![p].pc = "look"] /\ UNCHANGED client
     \/ /\ proc' = Returns(proc, p)
        /\ client' = [client EXCEPT !.failed = "versionMismatch", !.lock = None]
  /\ UNCHANGED <<died, resets, since, late>>

\* until_stopped: shutdown ends the handshake.
HelloStopped(p) ==
  /\ proc[p].pc = "hello" /\ client.stop
  /\ conn' = [conn EXCEPT ![proc[p].conn].child = "killed"]
  /\ proc' = Returns(proc, p)
  /\ client' = [client EXCEPT !.lock = None]
  /\ UNCHANGED <<died, Limits, since, late>>

\* replay goes on to warm an engine that was warm.
MoreToReplay(p) ==
  proc[p].pc = "await" /\ proc[p].ans = "ok" /\ proc[p].req = "load" /\ proc[p].replay = "warm"

ReplayWarms(p) ==
  /\ client.lock = p /\ MoreToReplay(p)
  /\ proc' = [proc EXCEPT ![p] = [@ EXCEPT !.pc = "send", !.req = "warmup", !.ans = "no"]]
  /\ UNCHANGED <<client, conn, died, Limits, since, late>>

\* Mutant: an engine that was warm is only loaded.
Publish_Cold(p) ==
  /\ client.lock = p /\ p # Stop
  /\ proc[p].pc = "publish" \/ (proc[p].pc = "await" /\ proc[p].ans # "no")
  /\ IF proc[p].ans = "dead"
     THEN /\ conn' = Close(conn, proc[p].conn)
          /\ proc' = [proc EXCEPT ![p].pc = "look"]
          /\ client' = [client EXCEPT !.starting = None]
     ELSE IF client.failed # "no" THEN GivenUp(p)
     ELSE Published(p, IF proc[p].ans = "refused" THEN "none" ELSE client.wanted)
  /\ UNCHANGED <<died, Limits, since, late>>

\* The replay is over: the helper is the client's, or is closed and the loop
\* goes round again, or shutdown came first.  An engine it refused is dropped.
Publish(p) ==
  /\ client.lock = p /\ p # Stop /\ ~MoreToReplay(p)
  /\ proc[p].pc = "publish" \/ (proc[p].pc = "await" /\ proc[p].ans # "no")
  /\ IF proc[p].ans = "dead"
     THEN /\ conn' = Close(conn, proc[p].conn)
          /\ proc' = [proc EXCEPT ![p].pc = "look"]
          /\ client' = [client EXCEPT !.starting = None]
     ELSE IF client.failed # "no" THEN GivenUp(p)
     ELSE Published(p, IF proc[p].ans = "refused" THEN "none" ELSE client.wanted)
  /\ UNCHANGED <<died, Limits, since, late>>

\* until_stopped: shutdown ends the replay.
ReplayStopped(p) ==
  /\ proc[p].pc \in {"send", "await", "publish"} /\ client.lock = p /\ p # Stop
  /\ client.stop
  /\ GivenUp(p)
  /\ UNCHANGED <<died, Limits, since, late>>

-----------------------------------------------------------------------------
(* Requests and streams. *)

\* Mutant: a request is registered without a look at the connection.
Send_Blind(p) ==
  LET g == proc[p].conn
      h == conn[g]
      r == proc[p].req IN
  /\ proc[p].pc = "send"
  /\ conn' = [conn EXCEPT ![g] = [h EXCEPT
                 !.pending = h.pending \cup {p}, !.asked = h.asked \cup {<<p, r>>},
                 !.streams = IF r = "open" THEN h.streams \cup {p} ELSE h.streams]]
  /\ proc' = [proc EXCEPT ![p].pc = "await"]
  /\ UNCHANGED <<client, died, Limits, since, late>>

\* route, and call up to its wait for the answer.
Send(p) ==
  LET g == proc[p].conn
      h == conn[g]
      r == proc[p].req IN
  /\ proc[p].pc = "send"
  /\ IF Alive(conn, g)
     THEN /\ conn' = [conn EXCEPT ![g] = [h EXCEPT
                        !.pending = h.pending \cup {p}, !.asked = h.asked \cup {<<p, r>>},
                        !.streams = IF r = "open" THEN h.streams \cup {p} ELSE h.streams]]
          /\ proc' = [proc EXCEPT ![p].pc = "await"]
     ELSE /\ proc' = [proc EXCEPT ![p] = [@ EXCEPT !.pc = "await", !.ans = "dead"]]
          /\ UNCHANGED conn
  /\ UNCHANGED <<client, died, Limits, since, late>>

\* Mutant: what a restart replays has no deadline.
TimedOut_NotReplay(p) ==
  LET g == proc[p].conn IN
  /\ proc[p].pc = "await" /\ proc[p].ans = "no" /\ conn[g].child = "hung"
  /\ client.lock # p
  /\ conn' = Fail(conn, g)
  /\ proc' = Told(proc, g)
  /\ died' = Orphaned(g)
  /\ UNCHANGED <<client, Limits, since, late>>

\* A request's deadline: the helper is unresponsive.
TimedOut(p) ==
  LET g == proc[p].conn IN
  /\ proc[p].pc = "await" /\ proc[p].ans = "no" /\ conn[g].child = "hung"
  /\ conn' = Fail(conn, g)
  /\ proc' = Told(proc, g)
  /\ died' = Orphaned(g)
  /\ UNCHANGED <<client, Limits, since, late>>

\* A caller has its answer: a stream is open, or not; load, warmup and unload
\* note what to replay after a restart, health and install note nothing.
Answered(c) ==
  LET ok == proc[c].ans = "ok" IN
  /\ proc[c].pc = "await" /\ client.lock # c /\ proc[c].ans # "no"
  /\ proc' = IF ok /\ proc[c].op = "stream" THEN [proc EXCEPT ![c].pc = "open"]
             ELSE Returns(proc, c)
  /\ conn' = IF ok THEN conn ELSE [conn EXCEPT ![proc[c].conn].streams = @ \ {c}]
  /\ client' = [client EXCEPT !.wanted =
       CASE ~ok                                    -> @
         [] proc[c].op = "load" /\ @ = "none"      -> "cold"
         [] proc[c].op = "warmup" /\ @ # "none"    -> "warm"
         [] proc[c].op = "unload"                  -> "none"
         [] OTHER                                  -> @]
  /\ late' = (late \/ (proc[c].conn # client.gen /\ client'.wanted # client.wanted))
  /\ UNCHANGED <<died, Limits, since>>

\* finish, of a stream that is still open.
Finish(c) ==
  LET g == proc[c].conn IN
  /\ proc[c].pc = "open" /\ c \in conn[g].streams
  /\ conn' = [conn EXCEPT ![g].asked = @ \cup {<<c, "finish">>}]
  /\ proc' = [proc EXCEPT ![c].pc = "finishing"]
  /\ UNCHANGED <<client, died, Limits, since, late>>

\* The deadline finish sets, which looks under the lock that ends streams.
FinishDeadline(c) ==
  LET g == proc[c].conn IN
  /\ proc[c].pc = "finishing" /\ c \in conn[g].streams /\ conn[g].child = "hung"
  /\ conn' = Fail(conn, g)
  /\ proc' = Told(proc, g)
  /\ died' = Orphaned(g)
  /\ UNCHANGED <<client, Limits, since, late>>

\* cancel, or a stream that is dropped.
Cancel(c) ==
  /\ proc[c].pc \in {"open", "finishing"} /\ proc[c].event = "no"
  /\ conn' = [conn EXCEPT ![proc[c].conn].streams = @ \ {c}]
  /\ proc' = Returns(proc, c)
  /\ UNCHANGED <<client, died, Limits, since, late>>

-----------------------------------------------------------------------------
(* The helper, and the tasks that watch it. *)

\* The helper takes one request and writes its reply.
Serve(g, p, r, reply) ==
  LET h == conn[g] IN
  /\ h.child = "running" /\ h.up /\ <<p, r>> \in h.asked
  /\ r = "warmup" /\ reply = "ok" => h.loaded # "none"
  /\ r = "shutdown" => reply = "ok"
  /\ conn' = [conn EXCEPT ![g] = [h EXCEPT
       !.asked = h.asked \ {<<p, r>>}, !.out = h.out \cup {<<p, r, reply>>},
       !.child = IF r = "shutdown" THEN "exited" ELSE h.child,
       !.loaded = CASE reply = "refused"                   -> h.loaded
                    [] r = "load" /\ h.loaded = "none"     -> "cold"
                    [] r = "warmup"                        -> "warm"
                    [] r = "unload"                        -> "none"
                    [] OTHER                               -> h.loaded]]
  /\ UNCHANGED <<client, proc, died, Limits, since, late>>

\* read_loop dispatches a reply: to its request, or to its stream, which it
\* ends.  Only a stream that finished refills the budget.
Read(g, p, r, reply) ==
  LET h == conn[g]
      ends == r = "finish" IN
  /\ h.up /\ <<p, r, reply>> \in h.out
  /\ conn' = [conn EXCEPT ![g] = [h EXCEPT !.out = h.out \ {<<p, r, reply>>},
                !.pending = IF ends THEN h.pending ELSE h.pending \ {p},
                !.streams = IF ends THEN h.streams \ {p} ELSE h.streams]]
  /\ proc' = IF ends
             THEN IF p \in conn[g].streams
                  THEN [proc EXCEPT ![p].event = IF reply = "ok" THEN "closed" ELSE "failed"]
                  ELSE proc
             ELSE IF p \in conn[g].pending THEN [proc EXCEPT ![p].ans = reply] ELSE proc
  /\ client' = IF ends /\ reply = "ok" THEN [client EXCEPT !.attempts = 0] ELSE client
  /\ since' = IF ends /\ reply = "ok" THEN 0 ELSE since
  /\ UNCHANGED <<died, Limits, late>>

\* The helper crashes or hangs.
HelperFault(g, how) ==
  /\ conn[g].child = "running" /\ conn[g].up
  /\ faults < MaxFaults /\ faults' = faults + 1
  /\ conn' = [conn EXCEPT ![g].child = how]
  /\ UNCHANGED <<client, proc, died, resets, since, late>>

\* The reader, the writer or the reaper sees the helper gone; the reader may or
\* may not have got to the end of what it wrote.
Detect(g) ==
  /\ conn[g].child = "exited" /\ Alive(conn, g)
  /\ conn' = Fail(conn, g)
  /\ proc' = Told(proc, g)
  /\ died' = Orphaned(g)
  /\ UNCHANGED <<client, Limits, since, late>>

\* A malformed frame, a second hello, an error about nothing in particular.
Garbled(g) ==
  /\ conn[g].child = "running" /\ Alive(conn, g)
  /\ faults < MaxFaults /\ faults' = faults + 1
  /\ conn' = Fail(conn, g)
  /\ proc' = Told(proc, g)
  /\ died' = Orphaned(g)
  /\ UNCHANGED <<client, resets, since, late>>

\* A heartbeat, asked only while a stream is open, goes unanswered.
Heartbeat(g) ==
  /\ conn[g].child = "hung" /\ Alive(conn, g) /\ conn[g].streams # {}
  /\ conn' = Fail(conn, g)
  /\ proc' = Told(proc, g)
  /\ died' = Orphaned(g)
  /\ UNCHANGED <<client, Limits, since, late>>

\* conn_died: the published connection is replaced at once, by a task.
ConnDied(g) ==
  /\ g \in died /\ died' = died \ {g}
  /\ proc' = IF client.failed = "no" /\ client.current = g
             THEN Entered(proc, g) ELSE proc
  /\ UNCHANGED <<client, conn, Limits, since, late>>

-----------------------------------------------------------------------------
(* reset and shutdown. *)

Reset ==
  /\ client.lock = None /\ client.current # None /\ client.attempts > 0
  /\ resets < MaxResets /\ resets' = resets + 1
  /\ client' = [client EXCEPT !.attempts = 0,
                  !.failed = IF @ = "helperFailed" THEN "no" ELSE @]
  /\ since' = 0
  /\ UNCHANGED <<conn, proc, died, faults, late>>

\* shutdown up to its wait for spawn_lock: a restart under way is stopped.
Shutdown ==
  LET s == client.starting IN
  /\ proc[Stop].pc = "idle" /\ client.current # None
  /\ client' = [client EXCEPT !.failed = "shutDown", !.starting = None, !.stop = TRUE]
  /\ conn' = IF s = None THEN conn ELSE Close(conn, s)
  /\ proc' = [(IF s = None THEN proc ELSE Told(proc, s)) EXCEPT ![Stop].pc = "lock"]
  /\ UNCHANGED <<died, Limits, since, late>>

\* With spawn_lock: ask the current helper to exit.
ShutdownTake ==
  LET g == client.current IN
  /\ proc[Stop].pc = "lock" /\ client.lock = None
  /\ conn' = [conn EXCEPT ![g].closing = TRUE]
  /\ client' = [client EXCEPT !.current = None, !.lock = Stop]
  /\ proc' = [proc EXCEPT ![Stop] = [@ EXCEPT !.pc = "send", !.req = "shutdown", !.conn = g]]
  /\ UNCHANGED <<died, Limits, since, late>>

\* And make sure it has.
ShutdownClose ==
  LET g == proc[Stop].conn IN
  /\ proc[Stop].pc = "await" /\ proc[Stop].ans # "no"
  /\ conn' = Close(conn, g)
  /\ proc' = Returns(Told(proc, g), Stop)
  /\ client' = [client EXCEPT !.lock = None]
  /\ UNCHANGED <<died, Limits, since, late>>

-----------------------------------------------------------------------------
Requests == {"load", "warmup", "unload", "ask", "open", "finish", "shutdown"}

Restart(p) == \/ Look(p) \/ Wake(p) \/ Hello(p) \/ HelloStopped(p)
              \/ ReplayWarms(p) \/ Publish(p) \/ ReplayStopped(p)

Request(p) == Send(p) \/ TimedOut(p)

Result(c) == Answered(c) \/ FinishDeadline(c)

Helper(g) == \E p \in Procs, r \in Requests, reply \in {"ok", "refused"} :
               Serve(g, p, r, reply) \/ Read(g, p, r, reply)

Watch(g) == Detect(g) \/ Heartbeat(g) \/ ConnDied(g)

Next ==
  \/ Start \/ Shutdown \/ ShutdownTake \/ ShutdownClose \/ Reset
  \/ \E p \in Procs : Restart(p) \/ Request(p) \/ HelloFails(p)
  \/ \E c \in Callers : Result(c) \/ Finish(c) \/ Cancel(c) \/ \E o \in OpsOf[c] : Call(c, o)
  \/ \E g \in Gens : Helper(g) \/ Watch(g) \/ Garbled(g)
                     \/ \E how \in {"exited", "hung"} : HelperFault(g, how)

Spec == Init /\ [][Next]_vars

\* What the client's own tasks, the runtime's timers and a helper in good order
\* do; the application's calls and the helper's faults are not among them.
Progress ==
  \/ Start \/ ShutdownTake \/ ShutdownClose
  \/ \E p \in Procs : Restart(p) \/ Request(p)
  \/ \E c \in Callers : Result(c)
  \/ \E g \in Gens : Helper(g) \/ Watch(g)

\* A runnable task is run.  No task can go on for ever, so that one condition
\* for all of them keeps none of them waiting.
FairSpec == Spec /\ WF_vars(Progress)

-----------------------------------------------------------------------------
(* Properties. *)

Failures == {"no", "helperFailed", "versionMismatch", "shutDown"}
Engine   == {"none", "cold", "warm"}

\* Every variable keeps its type; the budget is never overdrawn.
TypeOK ==
  /\ client \in [current : Gens \cup {None}, starting : Gens \cup {None},
                  attempts : 0 .. MaxAttempts, failed : Failures, gen : Gens,
                  wanted : Engine, stop : BOOLEAN, lock : Procs \cup {None}]
  /\ \A g \in Gens :
       /\ {conn[g].up, conn[g].dead, conn[g].closing} \subseteq BOOLEAN
       /\ conn[g].child \in {"none", "running", "hung", "exited", "killed"}
       /\ conn[g].loaded \in Engine
       /\ conn[g].asked \subseteq Procs \X Requests
       /\ conn[g].pending \subseteq Procs /\ conn[g].streams \subseteq Callers
  /\ died \subseteq Gens

\* "One SpeechdClient owns at most one live helper at a time" (client.rs:3),
\* whoever races whom to restart it.  A helper that was killed may take a moment
\* to be gone; it is not live.
OneHelper == Cardinality({g \in Gens : conn[g].child \in {"running", "hung"}}) <= 1

\* "Nothing waits on a dead helper" (client.rs:10): whoever awaits a reply or an
\* event of a stream is registered with a connection that is not dead, or has
\* been told.
NobodyWaitsOnTheDead ==
  /\ \A g \in Gens : conn[g].dead => conn[g].pending = {} /\ conn[g].streams = {}
  /\ \A p \in Procs : proc[p].pc = "await" =>
       proc[p].ans # "no" \/ p \in conn[proc[p].conn].pending
  /\ \A c \in Callers : proc[c].pc \in {"open", "finishing"} =>
       proc[c].event # "no" \/ c \in conn[proc[c].conn].streams

\* Once shutdown has returned there is no helper, and none is started again: not
\* by a restart that was under way, nor by a connection that died of it.
ShutdownIsFinal ==
  proc[Stop].pc = "done" => \A g \in Gens : conn[g].child \notin {"running", "hung"}

\* No more than max_attempts helpers are spawned in a row without a stream that
\* finished, or a reset, in between (RestartPolicy).
BudgetIsKept == since <= MaxAttempts

\* A replacement is published only with what the client has noted the application
\* to have loaded and warmed, but for an engine the helper refused: load's "it is
\* loaded again after any restart" (client.rs:391).  A call the old helper answered
\* but that is noted (416, 444, 472) only once its replacement is under way comes too
\* late for that: the replacement then has what was noted when it was greeted.
ReplayedFirst ==
  [][client'.current \notin {client.current, None, 1} =>
       LET p == client.lock
       IN  \/ proc[p].ans = "refused" \/ conn[client'.current].dead
           \/ conn[client'.current].loaded = IF late THEN proc[p].replay ELSE client.wanted]_vars

\* A stream that has had its last event has no other: what a dying helper wrote
\* last is not delivered after the failure (next_event).
StreamsEndOnce ==
  [][\A c \in Callers : proc[c].event # "no" /\ proc'[c].pc # "done" =>
       proc'[c].event = proc[c].event]_vars

\* At most one helper is live, none after shutdown, and no more are spawned in a
\* row than the restart policy allows.
HelpersAreBounded == TypeOK /\ OneHelper /\ ShutdownIsFinal /\ BudgetIsKept

\* A restart shows neither in what is loaded nor in how a stream ends.
HandOverIsClean == ReplayedFirst /\ StreamsEndOnce

\* Has called, and has nothing to show for it.  A stream that is open is its
\* caller's to finish.
Waiting(p) == proc[p].pc \notin {"idle", "open", "done"} /\ proc[p].event = "no"

\* Every call comes back, whatever the helper does: a request, a restart that is
\* waited for, a stream that was finished, shutdown.
CallsReturn == []<>(\A p \in Callers \cup {Stop} : ~Waiting(p))
=============================================================================
