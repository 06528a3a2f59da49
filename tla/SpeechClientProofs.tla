------------------------- MODULE SpeechClientProofs -------------------------
(***************************************************************************)
(* Proofs about SpeechClient, for any set of callers, any restart budget   *)
(* and any number of faults and resets.  Everything turns on spawn_lock:   *)
(* who holds it works on the newest generation, which nobody else knows    *)
(* until it is published, and every older one is over.                     *)
(***************************************************************************)
EXTENDS SpeechClient, FiniteSetTheorems, TLAPS

-----------------------------------------------------------------------------
(* The inductive invariant.                                                *)

Replies  == {"ok", "refused"}
Answers  == {"no", "ok", "refused", "dead"}
Events   == {"no", "closed", "failed"}
Children == {"none", "running", "hung", "exited", "killed"}
Links    == Gens \cup {None}
Questions == SUBSET (Procs \X Requests)
Letters   == SUBSET (Procs \X Requests \X Replies)
Places   == {"idle", "lock", "look", "wait", "hello", "publish", "send", "await", "open",
             "finishing", "done"}
Ops      == AllOps \cup {"none"}
Reqs     == Requests \cup {"none"}
Counts   == 0 .. MaxAttempts
Holders  == Procs \cup {None}

Clients == [current : Links, starting : Links, attempts : Counts, failed : Failures,
            gen : Gens, wanted : Engine, stop : BOOLEAN, lock : Holders]
Conns   == [up : BOOLEAN, dead : BOOLEAN, closing : BOOLEAN, child : Children,
            loaded : Engine, asked : Questions, out : Letters,
            pending : SUBSET Procs, streams : SUBSET Callers]
Tasks   == [pc : Places, op : Ops, req : Reqs, conn : Links, replay : Engine,
            ans : Answers, event : Events]

ShapeInv ==
  /\ client \in Clients /\ conn \in [Gens -> Conns] /\ proc \in [Procs -> Tasks]
  /\ died \subseteq Gens /\ faults \in 0 .. MaxFaults /\ since = client.attempts
  /\ client.starting <= client.gen /\ client.current <= client.gen

(* What the place a task is at says of it.                                 *)
TaskOK(k, p, t) ==
  /\ t.pc \in {"idle", "lock", "done"} => t.conn = None
  /\ t.pc \notin {"idle", "lock", "done"} => t.conn # None
  /\ t.conn <= k.gen
  /\ t.pc \in {"idle", "lock", "send", "publish"} => t.ans = "no"
  /\ t.event # "no" => t.pc \in {"await", "open", "finishing"}
  /\ t.pc \in {"open", "finishing"} => p \in Callers
  /\ t.pc \in {"lock", "send"} /\ k.lock # p /\ t.op = "stream" =>
       t.req = "open"
  /\ t.req = "shutdown" => k.stop
  /\ t.pc = "send" => t.req # "none"
  /\ t.op # "none" => p \in Callers
  /\ t.req = "open" => t.op = "stream"
  /\ p = Stop => t.req \in {"none", "shutdown"}
  /\ p \in Callers /\ t.pc = "lock" => t.req # "none"
  /\ p \in Callers /\ t.pc \notin {"idle", "done"} => t.op # "none"

TaskInv == \A p \in Procs : TaskOK(client, p, proc[p])

(* A restart holds spawn_lock, and works on a generation that is its own.  *)
LockInv ==
  /\ \A p \in Procs :
       /\ proc[p].pc \in {"look", "wait", "hello", "publish"} => client.lock = p
       /\ proc[p].pc \in {"send", "await"} /\ p \notin Callers => client.lock = p
  /\ client.lock # None =>
       proc[client.lock].pc \in {"look", "wait", "hello", "publish", "send", "await"}
  /\ client.lock \notin {None, Stop} =>
       /\ proc[client.lock].conn = client.gen /\ client.current \notin {None, client.gen}
       /\ \A q \in Procs \ {client.lock} : proc[q].conn # client.gen
       /\ client.failed = "no" \/ client.stop
       /\ proc[client.lock].event = "no"

(* Shutdown is on its way, or over, and cannot be taken back.              *)
StopInv ==
  /\ client.stop = (proc[Stop].pc # "idle")
  /\ client.stop => client.failed \in {"shutDown", "versionMismatch"}
  /\ proc[Stop].pc \in {"idle", "lock", "send", "await", "done"}
  /\ proc[Stop].pc \in {"send", "await", "done"} =>
       client.current = None /\ client.lock \in {None, Stop}
  /\ client.current = None /\ proc[Stop].pc \notin {"send", "await", "done"} =>
       /\ client.gen = 1 /\ client.lock = None /\ client.failed = "no" /\ conn[1].up
       /\ \A p \in Procs : proc[p].pc = "idle"

Unborn(h) == /\ h.up = FALSE /\ h.dead = FALSE /\ h.child = "none" /\ h.loaded = "none"
             /\ h.asked = {} /\ h.out = {} /\ h.pending = {} /\ h.streams = {}

Active(h) == h.child \in {"running", "hung"} \/ (h.up /\ ~h.dead)

(* Only the newest generation can be in use, by its user or by the client. *)
ConnInv ==
  /\ \A g \in Gens :
       /\ conn[g].dead => conn[g].child = "killed" /\ conn[g].pending = {} /\ conn[g].streams = {}
       /\ g > client.gen => Unborn(conn[g])
       /\ g < client.gen => ~Active(conn[g])
       /\ \A m \in conn[g].asked : m[2] = "shutdown" => client.stop
  /\ client.current # None => conn[client.current].up
  /\ client.starting # None => conn[client.starting].up
  /\ Active(conn[client.gen]) =>
       \/ client.current = client.gen
       \/ client.current = None /\ proc[Stop].pc = "idle"
       \/ /\ client.lock # None /\ proc[client.lock].conn = client.gen
          /\ proc[client.lock].pc \in {"hello", "send", "await", "publish"}
  /\ conn[client.gen].child = "none" =>
       client.stop \/ (client.lock # None /\ proc[client.lock].pc = "wait")

(* A generation that is spent, but for a client that ended, cost a fault.  *)
FaultInv ==
  /\ client.gen - 1 <= faults
  /\ /\ client.failed \notin {"shutDown", "versionMismatch"}
     /\ conn[client.gen].dead \/ conn[client.gen].child \notin {"none", "running"}
     => client.gen <= faults

(* Whoever waits is registered, and whoever is registered waits.           *)
WaitInv ==
  /\ \A g \in Gens : \A p \in conn[g].pending :
       proc[p].pc = "await" /\ proc[p].conn = g /\ proc[p].ans = "no"
  /\ \A p \in Procs : proc[p].pc = "await" /\ proc[p].ans = "no" => p \in conn[proc[p].conn].pending
  /\ \A g \in Gens : \A c \in conn[g].streams :
       proc[c].pc \in {"await", "open", "finishing"} /\ proc[c].conn = g /\ proc[c].event = "no"
       /\ proc[c].op = "stream"
  /\ \A c \in Callers :
       /\ proc[c].event = "no"
       /\ \/ proc[c].pc \in {"open", "finishing"}
          \/ /\ proc[c].pc = "await" /\ client.lock # c /\ proc[c].op = "stream"
             /\ proc[c].ans \in {"no", "ok"}
       => c \in conn[proc[c].conn].streams

(* The task of a generation runs once, after its connection died.          *)
DiedInv ==
  \A g \in Gens : /\ g \in died => conn[g].dead /\ proc[g].pc = "idle"
                  /\ proc[g].pc # "idle" => conn[g].dead

Before(req) == IF req = "load" THEN "none" ELSE "cold"
After(req)  == IF req = "load" THEN "cold" ELSE "warm"

Quiet(h) == h.asked = {} /\ h.out = {}

(* How far a replay has got, seen from both ends of the pipe.              *)
Replaying(p, q, h) ==
  \/ q.ans = "no" /\ h.asked = {<<p, q.req>>} /\ h.out = {} /\ h.loaded = Before(q.req)
  \/ q.ans = "no" /\ h.asked = {} /\ h.out = {<<p, q.req, "ok">>} /\ h.loaded = After(q.req)
  \/ q.ans = "no" /\ h.asked = {} /\ h.out = {<<p, q.req, "refused">>}
  \/ q.ans = "ok" /\ Quiet(h) /\ h.loaded = After(q.req)
  \/ q.ans = "refused" /\ Quiet(h)

ReplayOK(p, q, h) ==
  /\ q.pc = "wait" => Unborn(h)
  /\ q.pc = "hello" => h.up = FALSE /\ (h.dead \/ (Quiet(h) /\ h.loaded = "none"))
                       /\ h.streams = {} /\ h.pending = {}
  /\ q.pc \in {"send", "await", "publish"} => h.up /\ h.streams = {}
  /\ q.pc = "publish" => q.replay = "none" /\ (h.dead \/ (Quiet(h) /\ h.loaded = "none"))
  /\ q.pc \in {"send", "await"} => /\ q.req \in {"load", "warmup"} /\ q.replay # "none"
                                   /\ q.req = "warmup" => q.replay = "warm"
  /\ q.pc = "send" => h.dead \/ (Quiet(h) /\ h.loaded = Before(q.req))
  /\ q.pc = "await" => h.dead \/ Replaying(p, q, h)

ReplayInv ==
  client.lock \notin {None, Stop} =>
     ReplayOK(client.lock, proc[client.lock], conn[client.gen])

(* What is replayed is what is noted, unless a note came late.             *)
NotedInv ==
  \A p \in Procs \ {Stop} :
    client.lock = p /\ proc[p].pc \in {"publish", "send", "await"} /\ ~late =>
      client.wanted = proc[p].replay

ClientInv == /\ ShapeInv /\ TaskInv /\ LockInv /\ StopInv /\ ConnInv /\ FaultInv
             /\ WaitInv /\ DiedInv /\ ReplayInv

-----------------------------------------------------------------------------
(* Lemmas about the constants and the operators.                           *)

\* Callers, generations and shutdown are different tasks, and None is no task.
LEMMA ProcFacts ==
  /\ Stop \in Procs /\ None \notin Procs /\ Callers \subseteq Procs /\ Gens \subseteq Procs
  /\ Stop \notin Callers /\ Stop \notin Gens /\ None \notin Gens /\ Stop # None
  /\ \A c \in Callers : c \notin Gens
  /\ MaxFaults \in Nat /\ MaxAttempts \in Nat /\ 1 \in Gens
  /\ \A g \in Gens : g \in Nat /\ g >= 1 /\ g <= MaxFaults + 1
  /\ \A g \in Nat : g >= 1 /\ g <= MaxFaults + 1 => g \in Gens
BY ClientAssumption DEF Procs, Gens, None, Stop

\* The types of the parts.
LEMMA Types ==
  ASSUME ShapeInv
  PROVE  /\ client.gen \in Gens /\ client.gen \in Nat /\ client.current \in Gens \cup {None}
         /\ client.lock \in Procs \cup {None} /\ client.stop \in BOOLEAN
         /\ client.failed \in Failures /\ client.wanted \in Engine
         /\ client.attempts \in 0 .. MaxAttempts /\ client.starting \in Gens \cup {None}
         /\ \A g \in Gens : conn[g] \in Conns
         /\ \A p \in Procs : proc[p] \in Tasks
BY ProcFacts DEF ShapeInv, Clients, Links, Counts, Holders

\* fail ends a connection once: the helper is killed, nobody is left registered,
\* and of what was written only the end of a stream is still read.
LEMMA FailFacts ==
  ASSUME ShapeInv, NEW g \in Gens, NEW cs,
         cs = conn \/ cs = [conn EXCEPT ![g].closing = TRUE]
  PROVE  /\ Fail(cs, g) \in [Gens -> Conns]
         /\ \A k \in Gens \ {g} : Fail(cs, g)[k] = conn[k]
         /\ Fail(cs, g)[g].dead /\ Fail(cs, g)[g].up = conn[g].up
         /\ ~conn[g].dead => /\ Fail(cs, g)[g].child = "killed"
                             /\ Fail(cs, g)[g].pending = {} /\ Fail(cs, g)[g].streams = {}
                             /\ Fail(cs, g)[g].asked = {}
         /\ conn[g].dead => /\ Fail(cs, g)[g].child = conn[g].child
                            /\ Fail(cs, g)[g].pending = conn[g].pending
                            /\ Fail(cs, g)[g].streams = conn[g].streams
                            /\ Fail(cs, g)[g].asked = conn[g].asked
<1>1. conn \in [Gens -> Conns] /\ conn[g] \in Conns
  BY DEF ShapeInv
<1>2. /\ cs \in [Gens -> Conns] /\ \A k \in Gens \ {g} : cs[k] = conn[k]
      /\ cs[g].dead = conn[g].dead /\ cs[g].up = conn[g].up /\ cs[g].child = conn[g].child
      /\ cs[g].pending = conn[g].pending /\ cs[g].streams = conn[g].streams
      /\ cs[g].asked = conn[g].asked /\ cs[g] \in Conns
  <2> DEFINE h == [conn[g] EXCEPT !.closing = TRUE]
  <2>1. /\ h \in Conns /\ h.dead = conn[g].dead /\ h.up = conn[g].up
        /\ h.child = conn[g].child /\ h.pending = conn[g].pending
        /\ h.streams = conn[g].streams /\ h.asked = conn[g].asked
    BY <1>1 DEF Conns
  <2>2. cs = conn \/ cs = [conn EXCEPT ![g] = h]
    OBVIOUS
  <2> HIDE DEF h
  <2>3. QED
    BY <1>1, <2>1, <2>2
<1>3. CASE conn[g].dead
  BY <1>2, <1>3 DEF Fail
<1>4. CASE ~conn[g].dead
  <2> DEFINE rest == {m \in cs[g].out : m[2] = "finish"}
  <2>1. rest \in Letters /\ {} \in Questions /\ "killed" \in Children /\ "none" \in Engine
    BY <1>2 DEF Conns, Letters, Questions, Children, Engine
  <2>2. Dead(cs[g]) = [cs[g] EXCEPT !.dead = TRUE, !.child = "killed", !.loaded = "none",
                          !.asked = {}, !.pending = {}, !.streams = {}, !.out = rest]
    BY DEF Dead
  <2> HIDE DEF rest
  <2>3. /\ Dead(cs[g]) \in Conns /\ Dead(cs[g]).dead /\ Dead(cs[g]).up = cs[g].up
        /\ Dead(cs[g]).child = "killed" /\ Dead(cs[g]).pending = {}
        /\ Dead(cs[g]).streams = {} /\ Dead(cs[g]).asked = {}
    BY <1>2, <2>1, <2>2 DEF Conns
  <2>4. Fail(cs, g) = [cs EXCEPT ![g] = Dead(cs[g])]
    BY <1>2, <1>4 DEF Fail
  <2>5. QED
    BY <1>2, <1>4, <2>3, <2>4
<1>5. QED
  BY <1>3, <1>4

\* close leaves a connection dead, whether it was before or not.
LEMMA CloseFacts ==
  ASSUME ShapeInv, ConnInv, NEW g \in Gens
  PROVE  /\ Close(conn, g) \in [Gens -> Conns]
         /\ \A k \in Gens \ {g} : Close(conn, g)[k] = conn[k]
         /\ Close(conn, g)[g].dead /\ Close(conn, g)[g].child = "killed"
         /\ Close(conn, g)[g].up = conn[g].up
         /\ Close(conn, g)[g].pending = {} /\ Close(conn, g)[g].streams = {}
         /\ Close(conn, g)[g].asked \subseteq conn[g].asked
<1> DEFINE cs == [conn EXCEPT ![g].closing = TRUE]
<1>1. cs = conn \/ cs = [conn EXCEPT ![g].closing = TRUE]
  OBVIOUS
<1>2. Close(conn, g) = Fail(cs, g)
  BY DEF Close
<1> HIDE DEF cs
<1>3. QED
  BY <1>1, <1>2, FailFacts DEF ConnInv

\* Those who were registered are told, and nothing else changes.
LEMMA ToldFacts ==
  ASSUME ShapeInv, NEW g \in Gens
  PROVE  /\ Told(proc, g) \in [Procs -> Tasks]
         /\ \A p \in Procs :
              /\ Told(proc, g)[p].pc = proc[p].pc /\ Told(proc, g)[p].op = proc[p].op
              /\ Told(proc, g)[p].req = proc[p].req /\ Told(proc, g)[p].conn = proc[p].conn
              /\ Told(proc, g)[p].replay = proc[p].replay
              /\ Told(proc, g)[p].ans = IF p \in conn[g].pending THEN "dead" ELSE proc[p].ans
              /\ Told(proc, g)[p].event =
                   IF p \in conn[g].streams THEN "failed" ELSE proc[p].event
<1> SUFFICES ASSUME NEW p \in Procs
             PROVE  /\ Told(proc, g)[p] \in Tasks
                    /\ Told(proc, g)[p].pc = proc[p].pc /\ Told(proc, g)[p].op = proc[p].op
                    /\ Told(proc, g)[p].req = proc[p].req /\ Told(proc, g)[p].conn = proc[p].conn
                    /\ Told(proc, g)[p].replay = proc[p].replay
                    /\ Told(proc, g)[p].ans = IF p \in conn[g].pending THEN "dead" ELSE proc[p].ans
                    /\ Told(proc, g)[p].event =
                         IF p \in conn[g].streams THEN "failed" ELSE proc[p].event
  BY DEF Told
<1> DEFINE a == IF p \in conn[g].pending THEN "dead" ELSE proc[p].ans
           e == IF p \in conn[g].streams THEN "failed" ELSE proc[p].event
<1>1. proc[p] \in Tasks
  BY DEF ShapeInv
<1>2. a \in Answers /\ e \in Events
  BY <1>1 DEF Tasks, Answers, Events
<1>3. Told(proc, g)[p] = [proc[p] EXCEPT !.ans = a, !.event = e]
  BY DEF Told
<1> HIDE DEF a, e
<1>4. /\ Told(proc, g)[p] \in Tasks /\ Told(proc, g)[p].pc = proc[p].pc
      /\ Told(proc, g)[p].op = proc[p].op /\ Told(proc, g)[p].req = proc[p].req
      /\ Told(proc, g)[p].conn = proc[p].conn /\ Told(proc, g)[p].replay = proc[p].replay
      /\ Told(proc, g)[p].ans = a /\ Told(proc, g)[p].event = e
  BY <1>1, <1>2, <1>3 DEF Tasks
<1>5. QED
  BY <1>4 DEF a, e

\* A task that returns keeps nothing.
LEMMA ReturnsFacts ==
  ASSUME NEW ps \in [Procs -> Tasks], NEW p \in Procs
  PROVE  /\ Returns(ps, p) \in [Procs -> Tasks]
         /\ \A q \in Procs \ {p} : Returns(ps, p)[q] = ps[q]
         /\ Returns(ps, p)[p] = [Idle EXCEPT !.pc = "done"]
         /\ Returns(ps, p)[p].pc = "done" /\ Returns(ps, p)[p].conn = None
         /\ Returns(ps, p)[p].op = "none" /\ Returns(ps, p)[p].req = "none"
         /\ Returns(ps, p)[p].ans = "no" /\ Returns(ps, p)[p].event = "no"
<1> DEFINE r == [Idle EXCEPT !.pc = "done"]
<1>1. /\ r \in Tasks /\ r.pc = "done" /\ r.conn = None /\ r.op = "none" /\ r.req = "none"
      /\ r.ans = "no" /\ r.event = "no"
  BY DEF Idle, Tasks, Places, Ops, Reqs, Links, Engine, Answers, Events
<1>2. Returns(ps, p) = [ps EXCEPT ![p] = r]
  BY DEF Returns
<1> HIDE DEF r
<1>3. QED
  BY <1>1, <1>2 DEF r

-----------------------------------------------------------------------------
(* The steps.                                                              *)

\* One task moves, with its own registrations on one connection: it is enough to
\* look at that task.
LEMMA WaitMoves ==
  ASSUME ShapeInv, TaskInv, WaitInv, NEW p \in Procs, NEW g \in Gens,
         conn' \in [Gens -> Conns], \A k \in Gens \ {g} : conn'[k] = conn[k],
         \A q \in Procs \ {p} : /\ proc'[q] = proc[q]
                                /\ q \in conn'[g].pending <=> q \in conn[g].pending
                                /\ q \in conn'[g].streams <=> q \in conn[g].streams
                                /\ client'.lock # q => client.lock # q,
         \A k \in Gens : p \in conn'[k].pending =>
            proc'[p].pc = "await" /\ proc'[p].conn = k /\ proc'[p].ans = "no",
         proc'[p].pc = "await" /\ proc'[p].ans = "no" => p \in conn'[proc'[p].conn].pending,
         \A k \in Gens : p \in conn'[k].streams =>
            /\ proc'[p].pc \in {"await", "open", "finishing"} /\ proc'[p].conn = k
            /\ proc'[p].event = "no" /\ proc'[p].op = "stream",
         p \in Callers /\ proc'[p].event = "no"
         /\ (\/ proc'[p].pc \in {"open", "finishing"}
             \/ /\ proc'[p].pc = "await" /\ client'.lock # p /\ proc'[p].op = "stream"
                /\ proc'[p].ans \in {"no", "ok"})
            => p \in conn'[proc'[p].conn].streams
  PROVE  WaitInv'
<1>1. \A k \in Gens : conn[k].pending \subseteq Procs /\ conn'[k].pending \subseteq Procs
                     /\ conn[k].streams \subseteq Procs /\ conn'[k].streams \subseteq Procs
  BY ProcFacts DEF ShapeInv, Conns
<1>2. \A q \in Procs \ {p} : \A k \in Gens : /\ q \in conn'[k].pending <=> q \in conn[k].pending
                                            /\ q \in conn'[k].streams <=> q \in conn[k].streams
  OBVIOUS
<1>3. \A k \in Gens : \A q \in conn'[k].pending :
         proc'[q].pc = "await" /\ proc'[q].conn = k /\ proc'[q].ans = "no"
  BY <1>1, <1>2 DEF WaitInv
<1>4. \A q \in Procs : proc'[q].pc = "await" /\ proc'[q].ans = "no" =>
         q \in conn'[proc'[q].conn].pending
  <2> SUFFICES ASSUME NEW q \in Procs \ {p}, proc[q].pc = "await", proc[q].ans = "no"
               PROVE  q \in conn'[proc[q].conn].pending
    OBVIOUS
  <2>1. q \in conn[proc[q].conn].pending /\ proc[q].conn \in Gens
    BY Types DEF WaitInv, TaskInv, TaskOK, Tasks, Links
  <2>2. QED
    BY <1>2, <2>1
<1>5. \A k \in Gens : \A c \in conn'[k].streams :
         /\ proc'[c].pc \in {"await", "open", "finishing"} /\ proc'[c].conn = k
         /\ proc'[c].event = "no" /\ proc'[c].op = "stream"
  BY <1>1, <1>2 DEF WaitInv
<1>6. ASSUME NEW c \in Callers, proc'[c].event = "no",
             \/ proc'[c].pc \in {"open", "finishing"}
             \/ /\ proc'[c].pc = "await" /\ client'.lock # c /\ proc'[c].op = "stream"
                /\ proc'[c].ans \in {"no", "ok"}
      PROVE  c \in conn'[proc'[c].conn].streams
  <2>1. CASE c = p
    BY <1>6, <2>1
  <2>2. CASE c # p
    <3>1. c \in Procs \ {p} /\ proc'[c] = proc[c] /\ (client'.lock # c => client.lock # c)
      BY <2>2, ProcFacts
    <3>2. c \in conn[proc[c].conn].streams
      BY <1>6, <3>1 DEF WaitInv
    <3>3. proc[c].conn \in Gens
      BY <1>6, <3>1, Types DEF TaskInv, TaskOK, Tasks, Links
    <3>4. QED
      BY <1>2, <3>1, <3>2, <3>3
  <2>3. QED
    BY <2>1, <2>2
<1>7. QED
  BY <1>3, <1>4, <1>5, <1>6 DEF WaitInv

\* A connection fails, and those of D go on to something else: it is enough that
\* they are registered with no other.
LEMMA FailWaits ==
  ASSUME ShapeInv, TaskInv, WaitInv, NEW g \in Gens, NEW D,
         conn' \in [Gens -> Conns], \A k \in Gens \ {g} : conn'[k] = conn[k],
         conn'[g].pending = {}, conn'[g].streams = {},
         \A p \in Procs \ D :
            /\ proc'[p].pc = proc[p].pc /\ proc'[p].op = proc[p].op
            /\ proc'[p].conn = proc[p].conn
            /\ proc'[p].ans = IF p \in conn[g].pending THEN "dead" ELSE proc[p].ans
            /\ proc'[p].event = IF p \in conn[g].streams THEN "failed" ELSE proc[p].event
            /\ client'.lock # p => client.lock # p,
         \A p \in D : /\ proc'[p].pc \notin {"await", "open", "finishing"}
                      /\ \A k \in Gens \ {g} : p \notin conn[k].pending /\ p \notin conn[k].streams
  PROVE  WaitInv'
<1>1. \A k \in Gens : \A p \in conn'[k].pending :
         proc'[p].pc = "await" /\ proc'[p].conn = k /\ proc'[p].ans = "no"
  <2> SUFFICES ASSUME NEW k \in Gens, NEW p \in conn'[k].pending
               PROVE  proc'[p].pc = "await" /\ proc'[p].conn = k /\ proc'[p].ans = "no"
    OBVIOUS
  <2>1. k # g /\ p \in conn[k].pending /\ p \in Procs \ D
    BY DEF Conns
  <2>2. QED
    BY <2>1 DEF WaitInv
<1>2. \A p \in Procs : proc'[p].pc = "await" /\ proc'[p].ans = "no" =>
         p \in conn'[proc'[p].conn].pending
  <2> SUFFICES ASSUME NEW p \in Procs, proc'[p].pc = "await", proc'[p].ans = "no"
               PROVE  p \in conn'[proc'[p].conn].pending
    OBVIOUS
  <2>1. p \notin D /\ proc[p].pc = "await" /\ proc[p].ans = "no" /\ p \notin conn[g].pending
    OBVIOUS
  <2>2. p \in conn[proc[p].conn].pending /\ proc[p].conn \in Gens
    BY <2>1, Types DEF WaitInv, TaskInv, TaskOK, Tasks, Links
  <2>3. QED
    BY <2>1, <2>2
<1>3. \A k \in Gens : \A c \in conn'[k].streams :
         /\ proc'[c].pc \in {"await", "open", "finishing"} /\ proc'[c].conn = k
         /\ proc'[c].event = "no" /\ proc'[c].op = "stream"
  <2> SUFFICES ASSUME NEW k \in Gens, NEW c \in conn'[k].streams
               PROVE  /\ proc'[c].pc \in {"await", "open", "finishing"} /\ proc'[c].conn = k
                      /\ proc'[c].event = "no" /\ proc'[c].op = "stream"
    OBVIOUS
  <2>1. k # g /\ c \in conn[k].streams /\ c \in Procs \ D
    BY ProcFacts DEF Conns
  <2>2. QED
    BY <2>1 DEF WaitInv
<1>4. ASSUME NEW c \in Callers, proc'[c].event = "no",
             \/ proc'[c].pc \in {"open", "finishing"}
             \/ /\ proc'[c].pc = "await" /\ client'.lock # c /\ proc'[c].op = "stream"
                /\ proc'[c].ans \in {"no", "ok"}
      PROVE  c \in conn'[proc'[c].conn].streams
  <2>1. c \in Procs \ D
    BY <1>4, ProcFacts
  <2>2. c \notin conn[g].streams /\ proc[c].event = "no"
    BY <1>4, <2>1
  <2>3. c \in conn[proc[c].conn].streams /\ proc[c].conn \in Gens
    BY <1>4, <2>1, <2>2, Types DEF WaitInv, TaskInv, TaskOK, Tasks, Links
  <2>4. QED
    BY <2>1, <2>2, <2>3
<1>5. QED
  BY <1>1, <1>2, <1>3, <1>4 DEF WaitInv

\* A connection fails: whoever saw it first, every waiter is told.
LEMMA FailInv ==
  ASSUME ClientInv, NEW g \in Gens, g <= client.gen, UNCHANGED <<client, since>>,
         conn' = Fail(conn, g), proc' = Told(proc, g), died' = Orphaned(g),
         faults' \in 0 .. MaxFaults, faults <= faults',
         conn[g].child # "none", conn[g].child = "running" => faults' = faults + 1
  PROVE  ClientInv'
<1>1. /\ ShapeInv /\ TaskInv /\ LockInv /\ StopInv /\ ConnInv /\ FaultInv
      /\ WaitInv /\ DiedInv /\ ReplayInv
  BY DEF ClientInv
<1>2. /\ client.gen \in Gens /\ client.gen \in Nat /\ client.lock \in Procs \cup {None}
      /\ client.current \in Gens \cup {None} /\ faults \in Nat /\ faults' \in Nat
      /\ client.starting \in Gens \cup {None}
  BY <1>1, Types, ProcFacts DEF ShapeInv
<1>3. /\ conn' \in [Gens -> Conns] /\ \A k \in Gens \ {g} : conn'[k] = conn[k]
      /\ conn'[g].dead /\ conn'[g].up = conn[g].up /\ conn'[g].child = "killed"
      /\ conn'[g].pending = {} /\ conn'[g].streams = {}
      /\ conn'[g].asked \subseteq conn[g].asked
  BY <1>1, FailFacts DEF ConnInv
<1>4. /\ proc' \in [Procs -> Tasks]
      /\ \A p \in Procs :
           /\ proc'[p].pc = proc[p].pc /\ proc'[p].op = proc[p].op
           /\ proc'[p].req = proc[p].req /\ proc'[p].conn = proc[p].conn
           /\ proc'[p].replay = proc[p].replay
           /\ proc'[p].ans = IF p \in conn[g].pending THEN "dead" ELSE proc[p].ans
           /\ proc'[p].event = IF p \in conn[g].streams THEN "failed" ELSE proc[p].event
  BY <1>1, ToldFacts
<1>5. ShapeInv'
  BY <1>1, <1>3, <1>4 DEF ShapeInv, Orphaned
<1>6. TaskInv'
  BY <1>1, <1>4 DEF TaskInv, TaskOK, WaitInv
<1>7. LockInv'
  <2>1. client.lock \notin {None, Stop} => client.lock \notin conn[g].streams
    BY <1>1, <1>2 DEF LockInv, ReplayInv, ReplayOK, WaitInv
  <2>2. QED
    BY <1>1, <1>2, <1>4, <2>1 DEF LockInv
<1>8. StopInv'
  BY <1>1, <1>3, <1>4, ProcFacts DEF StopInv
<1>9. ConnInv'
  BY <1>1, <1>2, <1>3, <1>4, ProcFacts DEF ConnInv, Unborn, Active
<1>10. FaultInv'
  BY <1>1, <1>2, <1>3 DEF FaultInv, ConnInv
<1>11. WaitInv'
  <2> DEFINE D == {}
  <2>1. /\ \A p \in Procs \ D :
             /\ proc'[p].pc = proc[p].pc /\ proc'[p].op = proc[p].op
             /\ proc'[p].conn = proc[p].conn
             /\ proc'[p].ans = IF p \in conn[g].pending THEN "dead" ELSE proc[p].ans
             /\ proc'[p].event = IF p \in conn[g].streams THEN "failed" ELSE proc[p].event
             /\ client'.lock # p => client.lock # p
        /\ \A p \in D : /\ proc'[p].pc \notin {"await", "open", "finishing"}
                       /\ \A k \in Gens \ {g} : p \notin conn[k].pending /\ p \notin conn[k].streams
    BY <1>4
  <2> HIDE DEF D
  <2>2. QED
    BY <1>1, <1>3, <2>1, FailWaits
<1>12. DiedInv'
  BY <1>1, <1>3, <1>4, ProcFacts DEF DiedInv, Orphaned
<1>13. ReplayInv'
  <2> SUFFICES ASSUME client.lock \notin {None, Stop}
               PROVE  ReplayOK(client.lock, proc'[client.lock], conn'[client.gen])
    BY DEF ReplayInv
  <2>1. /\ client.lock \in Procs /\ proc[client.lock].conn = client.gen
        /\ ReplayOK(client.lock, proc[client.lock], conn[client.gen])
    BY <1>1, <1>2 DEF ReplayInv, LockInv
  <2>2. CASE g = client.gen
    BY <1>3, <1>4, <2>1, <2>2 DEF ReplayOK, Unborn
  <2>3. CASE g # client.gen
    <3>1. client.lock \notin conn[g].pending
      BY <1>1, <2>1, <2>3 DEF WaitInv
    <3>2. conn'[client.gen] = conn[client.gen]
      BY <1>2, <1>3, <2>3
    <3>3. QED
      BY <1>4, <2>1, <3>1, <3>2 DEF ReplayOK, Replaying
  <2>4. QED
    BY <2>2, <2>3
<1>14. QED
  BY <1>5, <1>6, <1>7, <1>8, <1>9, <1>10, <1>11, <1>12, <1>13 DEF ClientInv

\* start publishes the first connection.
LEMMA StartInv ==
  ASSUME ClientInv, Start
  PROVE  ClientInv'
<1>1. /\ ShapeInv /\ TaskInv /\ LockInv /\ StopInv /\ ConnInv /\ FaultInv
      /\ WaitInv /\ DiedInv /\ ReplayInv
  BY DEF ClientInv
<1>2. client.gen \in Gens /\ client.gen \in Nat /\ client.lock \in Procs \cup {None}
      /\ client.current \in Gens \cup {None} /\ faults \in Nat /\ client.stop \in BOOLEAN
      /\ client.starting \in Gens \cup {None}
  BY <1>1, Types, ProcFacts DEF ShapeInv
<1>3. /\ client' \in Clients /\ client'.current = 1 /\ client'.starting = client.starting
      /\ client'.attempts = client.attempts /\ client'.failed = client.failed
      /\ client'.gen = client.gen /\ client'.wanted = client.wanted
      /\ client'.stop = client.stop /\ client'.lock = client.lock
      /\ UNCHANGED <<conn, proc, died, faults, since>>
  BY <1>1, ProcFacts DEF Start, ShapeInv, Clients, Links, Limits
<1>4. client.current = None /\ client.gen = 1 /\ client.failed = "no"
  BY DEF Start
<1>5. proc[Stop].pc = "idle"
  BY <1>1, <1>4 DEF StopInv
<1>6. ShapeInv'
  BY <1>1, <1>2, <1>3, <1>4, <1>5, ProcFacts DEF ShapeInv
<1>7. TaskInv'
  BY <1>1, <1>2, <1>3, <1>4, <1>5, ProcFacts DEF TaskInv, TaskOK
<1>8. LockInv'
  BY <1>1, <1>2, <1>3, <1>4, <1>5, ProcFacts DEF LockInv
<1>9. StopInv'
  BY <1>1, <1>2, <1>3, <1>4, <1>5, ProcFacts DEF StopInv
<1>10. ConnInv'
  BY <1>1, <1>2, <1>3, <1>4, <1>5, ProcFacts DEF ConnInv, Unborn, Active, StopInv
<1>11. FaultInv'
  BY <1>1, <1>2, <1>3, <1>4, <1>5, ProcFacts DEF FaultInv
<1>12. WaitInv'
  BY <1>1, <1>2, <1>3, <1>4, <1>5, ProcFacts DEF WaitInv
<1>13. DiedInv'
  BY <1>1, <1>2, <1>3, <1>4, <1>5, ProcFacts DEF DiedInv, Orphaned
<1>14. ReplayInv'
  BY <1>1, <1>2, <1>3, <1>4, <1>5, ProcFacts DEF ReplayInv, ReplayOK, Replaying, Quiet, Before, After
<1>15. QED
  BY <1>6, <1>7, <1>8, <1>9, <1>10, <1>11, <1>12, <1>13, <1>14 DEF ClientInv


\* A call takes the published connection, or goes to ask for one.
LEMMA CallInv ==
  ASSUME ClientInv, NEW c \in Callers,
         NEW o \in OpsOf[c],
         Call(c, o)
  PROVE  ClientInv'
<1>1. /\ ShapeInv /\ TaskInv /\ LockInv /\ StopInv /\ ConnInv /\ FaultInv
      /\ WaitInv /\ DiedInv /\ ReplayInv
  BY DEF ClientInv
<1> DEFINE r == IF o = "stream" THEN "open" ELSE o
<1>2. client.gen \in Gens /\ client.gen \in Nat /\ client.lock \in Procs \cup {None}
      /\ client.current \in Gens \cup {None} /\ faults \in Nat /\ client.stop \in BOOLEAN
      /\ client.starting \in Gens \cup {None}
  BY <1>1, Types, ProcFacts DEF ShapeInv
<1>3. /\ c \in Procs /\ o \in AllOps /\ o # "none" /\ r \in Requests /\ r \notin {"none", "shutdown"}
      /\ r = "open" => o = "stream"
      /\ o = "stream" => r = "open"
  BY ClientAssumption, ProcFacts DEF AllOps, Requests
<1>4. /\ proc[c].pc = "idle" /\ UNCHANGED <<client, conn, died, faults, since>>
      /\ client.current # None \/ client.gen > 1 \/ client.failed # "no"
  BY DEF Call, Limits
<1>5. proc' = Entered([proc EXCEPT ![c] = [@ EXCEPT !.op = o, !.req = r]], c)
  BY DEF Call
<1> HIDE DEF r
<1>6. /\ proc' \in [Procs -> Tasks] /\ \A q \in Procs \ {c} : proc'[q] = proc[q]
      /\ proc'[c].op = o /\ proc'[c].req = r /\ proc'[c].ans = proc[c].ans
      /\ proc'[c].event = proc[c].event /\ proc'[c].pc = IF Live THEN "send" ELSE "lock"
      /\ proc'[c].conn = IF Live THEN client.current ELSE proc[c].conn
  <2> DEFINE t == [proc[c] EXCEPT !.op = o, !.req = r]
  <2>1. /\ t \in Tasks /\ t.pc = proc[c].pc /\ t.op = o /\ t.req = r /\ t.conn = proc[c].conn
        /\ t.ans = proc[c].ans /\ t.event = proc[c].event
    BY <1>1, <1>3, Types DEF Tasks, Ops, Reqs
  <2>2. proc' = Entered([proc EXCEPT ![c] = t], c)
    BY <1>5
  <2> HIDE DEF t
  <2> DEFINE u == [t EXCEPT !.pc = "send", !.conn = client.current]
             v == [t EXCEPT !.pc = "lock"]
  <2>3. Live => /\ u \in Tasks /\ u.pc = "send" /\ u.op = o /\ u.req = r
                /\ u.conn = client.current /\ u.ans = t.ans /\ u.event = t.event
    BY <1>2, <2>1 DEF Tasks, Places, Links, Live
  <2>4. /\ v \in Tasks /\ v.pc = "lock" /\ v.op = o /\ v.req = r /\ v.conn = t.conn
        /\ v.ans = t.ans /\ v.event = t.event
    BY <2>1 DEF Tasks, Places
  <2>5. proc' = IF Live THEN [proc EXCEPT ![c] = u] ELSE [proc EXCEPT ![c] = v]
    BY <1>1, <1>3, <2>2 DEF Entered, Got, ShapeInv
  <2> HIDE DEF u, v
  <2>6. QED
    BY <1>1, <1>3, <2>1, <2>3, <2>4, <2>5 DEF ShapeInv
<1>7. /\ Live => client.current \in Gens
      /\ proc[c].conn = None /\ proc[c].ans = "no" /\ proc[c].event = "no" /\ client.lock # c
      /\ client.current <= client.gen /\ None <= client.gen
  BY <1>1, <1>2, <1>3, <1>4, ProcFacts DEF Live, TaskInv, TaskOK, LockInv, ShapeInv, None
<1>8. ShapeInv'
  BY <1>1, <1>2, <1>3, <1>4, <1>6, <1>7, ProcFacts DEF ShapeInv
<1>9. TaskInv'
  BY <1>1, <1>2, <1>3, <1>4, <1>6, <1>7, ProcFacts DEF TaskInv, TaskOK
<1>10. LockInv'
  BY <1>1, <1>2, <1>3, <1>4, <1>6, <1>7, ProcFacts DEF LockInv, Live
<1>11. StopInv'
  BY <1>1, <1>2, <1>3, <1>4, <1>6, <1>7, ProcFacts DEF StopInv
<1>12. ConnInv'
  BY <1>1, <1>2, <1>3, <1>4, <1>6, <1>7, ProcFacts DEF ConnInv, Unborn, Active, StopInv
<1>13. FaultInv'
  BY <1>1, <1>2, <1>3, <1>4, <1>6, <1>7, ProcFacts DEF FaultInv
<1>14. WaitInv'
  <2>1. \A q \in Procs \ {c} :
           /\ proc'[q] = proc[q]
           /\ q \in conn'[client.gen].pending <=> q \in conn[client.gen].pending
           /\ q \in conn'[client.gen].streams <=> q \in conn[client.gen].streams
           /\ client'.lock # q => client.lock # q
    BY <1>1, <1>2, <1>3, <1>4, <1>6, <1>7, ProcFacts
  <2>2. \A k \in Gens : c \in conn'[k].pending =>
           proc'[c].pc = "await" /\ proc'[c].conn = k /\ proc'[c].ans = "no"
    BY <1>1, <1>2, <1>3, <1>4, <1>6, <1>7 DEF WaitInv
  <2>3. proc'[c].pc = "await" /\ proc'[c].ans = "no" => c \in conn'[proc'[c].conn].pending
    BY <1>1, <1>2, <1>3, <1>4, <1>6, <1>7 DEF WaitInv
  <2>4. \A k \in Gens : c \in conn'[k].streams =>
           /\ proc'[c].pc \in {"await", "open", "finishing"} /\ proc'[c].conn = k
           /\ proc'[c].event = "no" /\ proc'[c].op = "stream"
    BY <1>1, <1>2, <1>3, <1>4, <1>6, <1>7 DEF WaitInv
  <2>5. c \in Callers /\ proc'[c].event = "no"
        /\ (\/ proc'[c].pc \in {"open", "finishing"}
            \/ /\ proc'[c].pc = "await" /\ client'.lock # c /\ proc'[c].op = "stream"
               /\ proc'[c].ans \in {"no", "ok"})
           => c \in conn'[proc'[c].conn].streams
    BY <1>1, <1>2, <1>3, <1>4, <1>6, <1>7 DEF WaitInv
  <2>6. conn' \in [Gens -> Conns]
    BY <1>1, <1>2, <1>3, <1>4, <1>6, <1>7 DEF ShapeInv
  <2>7. QED
    BY <1>1, <1>2, <1>3, <1>4, <1>6, <1>7, <2>6, <2>1, <2>2, <2>3, <2>4, <2>5, WaitMoves
<1>15. DiedInv'
  BY <1>1, <1>2, <1>3, <1>4, <1>6, <1>7, ProcFacts DEF DiedInv, Orphaned
<1>16. ReplayInv'
  BY <1>1, <1>2, <1>3, <1>4, <1>6, <1>7 DEF ReplayInv, LockInv
<1>17. QED
  BY <1>8, <1>9, <1>10, <1>11, <1>12, <1>13, <1>14, <1>15, <1>16 DEF ClientInv


\* A request is registered with a connection that is alive, or answered at
\* once.
LEMMA SendInv ==
  ASSUME ClientInv, NEW p \in Procs,
         Send(p)
  PROVE  ClientInv'
<1>1. /\ ShapeInv /\ TaskInv /\ LockInv /\ StopInv /\ ConnInv /\ FaultInv
      /\ WaitInv /\ DiedInv /\ ReplayInv
  BY DEF ClientInv
<1> DEFINE g == proc[p].conn
           r == proc[p].req
<1>2. client.gen \in Gens /\ client.gen \in Nat /\ client.lock \in Procs \cup {None}
      /\ client.current \in Gens \cup {None} /\ faults \in Nat /\ client.stop \in BOOLEAN
      /\ client.starting \in Gens \cup {None}
  BY <1>1, Types, ProcFacts DEF ShapeInv
<1>3. /\ proc[p].pc = "send" /\ g \in Gens /\ r \in Requests /\ proc[p].ans = "no"
      /\ r = "open" => p \in Callers
      /\ proc[p].event = "no"
  BY <1>1, Types DEF Send, TaskInv, TaskOK, Tasks, Links, Reqs
<1>4. /\ UNCHANGED <<client, died, faults, since>> /\ proc' \in [Procs -> Tasks]
      /\ \A q \in Procs \ {p} : proc'[q] = proc[q]
      /\ proc'[p].pc = "await" /\ proc'[p].op = proc[p].op /\ proc'[p].req = r
      /\ proc'[p].conn = g /\ proc'[p].replay = proc[p].replay
      /\ proc'[p].ans = IF Alive(conn, g) THEN "no" ELSE "dead"
      /\ proc'[p].event = proc[p].event
  <2> DEFINE t == [proc[p] EXCEPT !.pc = "await"]
             u == [proc[p] EXCEPT !.pc = "await", !.ans = "dead"]
  <2>1. /\ UNCHANGED <<client, died, faults, since>>
        /\ IF Alive(conn, g) THEN proc' = [proc EXCEPT ![p] = t] ELSE proc' = [proc EXCEPT ![p] = u]
    BY DEF Send, Limits
  <2>2. /\ t \in Tasks /\ t.pc = "await" /\ t.ans = proc[p].ans /\ t.op = proc[p].op
        /\ t.req = r /\ t.conn = g /\ t.replay = proc[p].replay /\ t.event = proc[p].event
    BY <1>1, Types DEF Tasks, Places
  <2>3. /\ u \in Tasks /\ u.pc = "await" /\ u.ans = "dead" /\ u.op = proc[p].op
        /\ u.req = r /\ u.conn = g /\ u.replay = proc[p].replay /\ u.event = proc[p].event
    BY <1>1, Types DEF Tasks, Places, Answers
  <2> HIDE DEF t, u
  <2>4. QED
    BY <1>1, <1>3, <2>1, <2>2, <2>3 DEF ShapeInv
<1>5. IF Alive(conn, g)
      THEN /\ conn' \in [Gens -> Conns] /\ \A k \in Gens \ {g} : conn'[k] = conn[k]
           /\ conn'[g].up = conn[g].up /\ conn'[g].dead = conn[g].dead
           /\ conn'[g].child = conn[g].child /\ conn'[g].loaded = conn[g].loaded
           /\ conn'[g].asked = conn[g].asked \cup {<<p, r>>} /\ conn'[g].out = conn[g].out
           /\ conn'[g].pending = conn[g].pending \cup {p}
           /\ conn'[g].streams = IF r = "open" THEN conn[g].streams \cup {p} ELSE conn[g].streams
      ELSE UNCHANGED conn
  <2> DEFINE a == conn[g].asked \cup {<<p, r>>}
             b == conn[g].pending \cup {p}
             s == IF r = "open" THEN conn[g].streams \cup {p} ELSE conn[g].streams
             h == [conn[g] EXCEPT !.pending = b, !.asked = a, !.streams = s]
  <2>1. conn[g] \in Conns
    BY <1>1, <1>3, Types
  <2>2. a \in Questions /\ b \in SUBSET Procs /\ s \in SUBSET Callers
    BY <1>3, <2>1 DEF Conns, Questions
  <2>3. IF Alive(conn, g) THEN conn' = [conn EXCEPT ![g] = h] ELSE UNCHANGED conn
    BY DEF Send
  <2> HIDE DEF a, b, s
  <2>4. /\ h \in Conns /\ h.up = conn[g].up /\ h.dead = conn[g].dead /\ h.child = conn[g].child
        /\ h.loaded = conn[g].loaded /\ h.asked = a /\ h.out = conn[g].out
        /\ h.pending = b /\ h.streams = s
    BY <2>1, <2>2 DEF Conns
  <2> HIDE DEF h
  <2>5. QED
    BY <1>1, <1>3, <2>3, <2>4 DEF ShapeInv, a, b, s
<1> HIDE DEF g, r
<1>6. ShapeInv'
  BY <1>1, <1>2, <1>3, <1>4, <1>5, ProcFacts DEF ShapeInv, g
<1>7. TaskInv'
  BY <1>1, <1>2, <1>3, <1>4, <1>5, ProcFacts DEF TaskInv, TaskOK, g, r
<1>8. LockInv'
  BY <1>1, <1>2, <1>3, <1>4, <1>5, ProcFacts DEF LockInv, g
<1>9. StopInv'
  BY <1>1, <1>2, <1>3, <1>4, <1>5, ProcFacts DEF StopInv
<1>10. ConnInv'
  BY <1>1, <1>2, <1>3, <1>4, <1>5, ProcFacts DEF ConnInv, Unborn, Active, TaskInv, TaskOK, Alive, g, r
<1>11. FaultInv'
  BY <1>1, <1>2, <1>3, <1>4, <1>5, ProcFacts DEF FaultInv
<1>12. WaitInv'
  <2>0. /\ \A k \in Gens : p \notin conn[k].pending /\ p \notin conn[k].streams
        /\ r = "open" => proc[p].op = "stream"
        /\ proc[p].op = "stream" /\ client.lock # p => r = "open"
    BY <1>1, <1>3 DEF WaitInv, TaskInv, TaskOK, r
  <2>1. \A q \in Procs \ {p} :
           /\ proc'[q] = proc[q]
           /\ q \in conn'[g].pending <=> q \in conn[g].pending
           /\ q \in conn'[g].streams <=> q \in conn[g].streams
           /\ client'.lock # q => client.lock # q
    BY <1>1, <1>2, <1>3, <1>4, <1>5, ProcFacts
  <2>2. \A k \in Gens : p \in conn'[k].pending =>
           proc'[p].pc = "await" /\ proc'[p].conn = k /\ proc'[p].ans = "no"
    BY <1>1, <1>2, <1>3, <1>4, <1>5, <2>0 DEF Conns
  <2>3. proc'[p].pc = "await" /\ proc'[p].ans = "no" => p \in conn'[proc'[p].conn].pending
    BY <1>1, <1>2, <1>3, <1>4, <1>5, <2>0 DEF Conns
  <2>4. \A k \in Gens : p \in conn'[k].streams =>
           /\ proc'[p].pc \in {"await", "open", "finishing"} /\ proc'[p].conn = k
           /\ proc'[p].event = "no" /\ proc'[p].op = "stream"
    BY <1>1, <1>2, <1>3, <1>4, <1>5, <2>0 DEF Conns
  <2>5. p \in Callers /\ proc'[p].event = "no"
        /\ (\/ proc'[p].pc \in {"open", "finishing"}
            \/ /\ proc'[p].pc = "await" /\ client'.lock # p /\ proc'[p].op = "stream"
               /\ proc'[p].ans \in {"no", "ok"})
           => p \in conn'[proc'[p].conn].streams
    BY <1>1, <1>2, <1>3, <1>4, <1>5, <2>0 DEF Conns
  <2>6. conn' \in [Gens -> Conns]
    BY <1>1, <1>2, <1>3, <1>4, <1>5 DEF ShapeInv
  <2>7. QED
    BY <1>1, <1>2, <1>3, <1>4, <1>5, <2>6, <2>1, <2>2, <2>3, <2>4, <2>5, WaitMoves
<1>13. DiedInv'
  BY <1>1, <1>2, <1>3, <1>4, <1>5, ProcFacts DEF DiedInv, Orphaned
<1>14. ReplayInv'
  BY <1>1, <1>2, <1>3, <1>4, <1>5, ProcFacts, SMTT(30) DEF ReplayInv, ReplayOK, Replaying, Quiet, Before, After, LockInv, Alive, g, r
<1>15. QED
  BY <1>6, <1>7, <1>8, <1>9, <1>10, <1>11, <1>12, <1>13, <1>14 DEF ClientInv

\* A task gives spawn_lock back, or never got it, and returns.
LEMMA ReleaseInv ==
  ASSUME ClientInv, NEW p \in Procs \ {Stop},
         NEW f \in Failures,
         \/ proc[p].pc = "lock" /\ client.lock = None
         \/ proc[p].pc \in {"look", "wait", "hello"},
         proc' = Returns(proc, p),
         client' \in Clients,
         client'.current = client.current, client'.starting = client.starting, client'.attempts = client.attempts, client'.gen = client.gen,
         client'.wanted = client.wanted, client'.stop = client.stop,
         client'.failed = f, client'.lock = None,
         UNCHANGED <<died, since>>,
         faults' \in 0 .. MaxFaults, faults <= faults',
         client.failed \in {"shutDown", "versionMismatch"} => f \in {"shutDown", "versionMismatch"},
         proc[p].pc = "wait" => client.stop,
         proc[p].pc = "hello" => f \in {"shutDown", "versionMismatch"},
         conn' = IF proc[p].pc = "hello" THEN [conn EXCEPT ![client.gen].child = "killed"] ELSE conn
  PROVE  ClientInv'
<1>1. /\ ShapeInv /\ TaskInv /\ LockInv /\ StopInv /\ ConnInv /\ FaultInv
      /\ WaitInv /\ DiedInv /\ ReplayInv
  BY DEF ClientInv
<1>2. client.gen \in Gens /\ client.gen \in Nat /\ client.lock \in Procs \cup {None}
      /\ client.current \in Gens \cup {None} /\ faults \in Nat /\ client.stop \in BOOLEAN
      /\ client.starting \in Gens \cup {None}
  BY <1>1, Types, ProcFacts DEF ShapeInv
<1>3. p \in Procs /\ p # Stop /\ faults' \in Nat
  BY ProcFacts
<1>4. /\ proc' \in [Procs -> Tasks] /\ \A q \in Procs \ {p} : proc'[q] = proc[q]
      /\ proc'[p].pc = "done" /\ proc'[p].conn = None /\ proc'[p].op = "none"
      /\ proc'[p].req = "none" /\ proc'[p].ans = "no" /\ proc'[p].event = "no"
  BY <1>1, <1>3, ReturnsFacts DEF ShapeInv
<1>5. /\ conn' \in [Gens -> Conns] /\ \A k \in Gens \ {client.gen} : conn'[k] = conn[k]
      /\ conn'[client.gen].up = conn[client.gen].up
      /\ conn'[client.gen].dead = conn[client.gen].dead
      /\ conn'[client.gen].closing = conn[client.gen].closing
      /\ conn'[client.gen].child = IF proc[p].pc = "hello" THEN "killed" ELSE conn[client.gen].child
      /\ conn'[client.gen].loaded = conn[client.gen].loaded
      /\ conn'[client.gen].asked = conn[client.gen].asked
      /\ conn'[client.gen].out = conn[client.gen].out
      /\ conn'[client.gen].pending = conn[client.gen].pending
      /\ conn'[client.gen].streams = conn[client.gen].streams
  BY <1>1, <1>2, Types DEF ShapeInv, Conns, Children
<1>6. proc[p].pc # "lock" => client.lock = p
  BY <1>1, <1>3 DEF LockInv
<1>7. /\ None <= client.gen
      /\ client.current # None \/ proc[Stop].pc \in {"send", "await", "done"}
  BY <1>1, <1>2, <1>3 DEF StopInv, None
<1>8. ShapeInv'
  BY <1>1, <1>2, <1>3, <1>4, <1>5, <1>6, <1>7, ProcFacts DEF ShapeInv
<1>9. TaskInv'
  BY <1>1, <1>2, <1>3, <1>4, <1>5, <1>6, <1>7, ProcFacts DEF TaskInv, TaskOK
<1>10. LockInv'
  BY <1>1, <1>2, <1>3, <1>4, <1>5, <1>6, <1>7, ProcFacts DEF LockInv
<1>11. StopInv'
  BY <1>1, <1>2, <1>3, <1>4, <1>5, <1>6, <1>7, ProcFacts DEF StopInv
<1>12. ConnInv'
  BY <1>1, <1>2, <1>3, <1>4, <1>5, <1>6, ProcFacts, SMTT(30) DEF ConnInv, Unborn, Active, ReplayInv, ReplayOK, LockInv, StopInv
<1>13. FaultInv'
  BY <1>1, <1>2, <1>3, <1>5 DEF FaultInv
<1>14. WaitInv'
  <2>1. \A q \in Procs \ {p} :
           /\ proc'[q] = proc[q]
           /\ q \in conn'[client.gen].pending <=> q \in conn[client.gen].pending
           /\ q \in conn'[client.gen].streams <=> q \in conn[client.gen].streams
           /\ client'.lock # q => client.lock # q
    BY <1>1, <1>2, <1>3, <1>4, <1>5, <1>6, ProcFacts
  <2>2. \A k \in Gens : p \in conn'[k].pending =>
           proc'[p].pc = "await" /\ proc'[p].conn = k /\ proc'[p].ans = "no"
    BY <1>1, <1>2, <1>3, <1>4, <1>5, <1>6 DEF WaitInv
  <2>3. proc'[p].pc = "await" /\ proc'[p].ans = "no" => p \in conn'[proc'[p].conn].pending
    BY <1>1, <1>2, <1>3, <1>4, <1>5, <1>6 DEF WaitInv
  <2>4. \A k \in Gens : p \in conn'[k].streams =>
           /\ proc'[p].pc \in {"await", "open", "finishing"} /\ proc'[p].conn = k
           /\ proc'[p].event = "no" /\ proc'[p].op = "stream"
    BY <1>1, <1>2, <1>3, <1>4, <1>5, <1>6 DEF WaitInv
  <2>5. p \in Callers /\ proc'[p].event = "no"
        /\ (\/ proc'[p].pc \in {"open", "finishing"}
            \/ /\ proc'[p].pc = "await" /\ client'.lock # p /\ proc'[p].op = "stream"
               /\ proc'[p].ans \in {"no", "ok"})
           => p \in conn'[proc'[p].conn].streams
    BY <1>1, <1>2, <1>3, <1>4, <1>5, <1>6 DEF WaitInv
  <2>6. conn' \in [Gens -> Conns]
    BY <1>1, <1>2, <1>3, <1>4, <1>5, <1>6 DEF ShapeInv
  <2>7. QED
    BY <1>1, <1>2, <1>3, <1>4, <1>5, <1>6, <2>6, <2>1, <2>2, <2>3, <2>4, <2>5, WaitMoves
<1>15. DiedInv'
  BY <1>1, <1>2, <1>3, <1>4, <1>5, <1>6, <1>7, ProcFacts DEF DiedInv, Orphaned
<1>16. ReplayInv'
  BY DEF ReplayInv
<1>17. QED
  BY <1>8, <1>9, <1>10, <1>11, <1>12, <1>13, <1>14, <1>15, <1>16 DEF ClientInv

\* conn() finds a connection that is alive: nothing is to be started.
LEMMA TakeInv ==
  ASSUME ClientInv, NEW p \in Procs \ {Stop},
         proc[p].pc = "lock", client.lock = None, Live,
         proc' = Got(proc, p, client.current),
         UNCHANGED <<client, conn, died, faults, since>>
  PROVE  ClientInv'
<1>1. /\ ShapeInv /\ TaskInv /\ LockInv /\ StopInv /\ ConnInv /\ FaultInv
      /\ WaitInv /\ DiedInv /\ ReplayInv
  BY DEF ClientInv
<1>2. client.gen \in Gens /\ client.gen \in Nat /\ client.lock \in Procs \cup {None}
      /\ client.current \in Gens \cup {None} /\ faults \in Nat /\ client.stop \in BOOLEAN
      /\ client.starting \in Gens \cup {None}
  BY <1>1, Types, ProcFacts DEF ShapeInv
<1>3. p \in Procs /\ p # Stop /\ client.current \in Gens /\ client.current <= client.gen
  BY <1>1, <1>2, ProcFacts DEF Live, ShapeInv
<1>4. /\ proc[p].conn = None /\ proc[p].ans = "no" /\ proc[p].event = "no"
      /\ p \in Callers => proc[p].req # "none"
      /\ p \in Callers /\ proc[p].op = "stream" => proc[p].req = "open"
  BY <1>1, <1>3, ProcFacts DEF TaskInv, TaskOK
<1>5. /\ proc' \in [Procs -> Tasks] /\ \A q \in Procs \ {p} : proc'[q] = proc[q]
      /\ proc'[p].pc = IF p \in Callers THEN "send" ELSE "done"
      /\ proc'[p].conn = IF p \in Callers THEN client.current ELSE None
      /\ proc'[p].op = IF p \in Callers THEN proc[p].op ELSE "none"
      /\ proc'[p].req = IF p \in Callers THEN proc[p].req ELSE "none"
      /\ proc'[p].ans = "no" /\ proc'[p].event = "no"
  <2> DEFINE u == [proc[p] EXCEPT !.pc = "send", !.conn = client.current]
  <2>1. /\ u \in Tasks /\ u.pc = "send" /\ u.conn = client.current /\ u.op = proc[p].op
        /\ u.req = proc[p].req /\ u.ans = proc[p].ans /\ u.event = proc[p].event
    BY <1>1, <1>3, Types DEF Tasks, Places, Links
  <2>2. IF p \in Callers THEN proc' = [proc EXCEPT ![p] = u] ELSE proc' = Returns(proc, p)
    BY DEF Got
  <2> HIDE DEF u
  <2>3. QED
    <3>1. CASE p \in Callers
      BY <1>1, <1>3, <1>4, <2>1, <2>2, <3>1 DEF ShapeInv
    <3>2. CASE p \notin Callers
      BY <1>1, <1>3, <1>4, <2>2, <3>2, ReturnsFacts DEF ShapeInv
    <3>3. QED
      BY <3>1, <3>2
<1>6. None <= client.gen
  BY <1>2, ProcFacts DEF None
<1>7. ShapeInv'
  BY <1>1, <1>2, <1>3, <1>4, <1>5, <1>6, ProcFacts DEF ShapeInv
<1>8. TaskInv'
  BY <1>1, <1>2, <1>3, <1>4, <1>5, <1>6, ProcFacts DEF TaskInv, TaskOK
<1>9. LockInv'
  BY <1>1, <1>2, <1>3, <1>4, <1>5, <1>6, ProcFacts DEF LockInv
<1>10. StopInv'
  BY <1>1, <1>2, <1>3, <1>4, <1>5, <1>6, ProcFacts DEF StopInv
<1>11. ConnInv'
  BY <1>1, <1>2, <1>3, <1>4, <1>5, <1>6, ProcFacts DEF ConnInv, Unborn, Active
<1>12. FaultInv'
  BY <1>1, <1>2, <1>3, <1>4, <1>5, <1>6, ProcFacts DEF FaultInv
<1>13. WaitInv'
  <2>1. \A q \in Procs \ {p} :
           /\ proc'[q] = proc[q]
           /\ q \in conn'[client.gen].pending <=> q \in conn[client.gen].pending
           /\ q \in conn'[client.gen].streams <=> q \in conn[client.gen].streams
           /\ client'.lock # q => client.lock # q
    BY <1>1, <1>2, <1>3, <1>4, <1>5, <1>6, ProcFacts
  <2>2. \A k \in Gens : p \in conn'[k].pending =>
           proc'[p].pc = "await" /\ proc'[p].conn = k /\ proc'[p].ans = "no"
    BY <1>1, <1>2, <1>3, <1>4, <1>5, <1>6 DEF WaitInv
  <2>3. proc'[p].pc = "await" /\ proc'[p].ans = "no" => p \in conn'[proc'[p].conn].pending
    BY <1>1, <1>2, <1>3, <1>4, <1>5, <1>6 DEF WaitInv
  <2>4. \A k \in Gens : p \in conn'[k].streams =>
           /\ proc'[p].pc \in {"await", "open", "finishing"} /\ proc'[p].conn = k
           /\ proc'[p].event = "no" /\ proc'[p].op = "stream"
    BY <1>1, <1>2, <1>3, <1>4, <1>5, <1>6 DEF WaitInv
  <2>5. p \in Callers /\ proc'[p].event = "no"
        /\ (\/ proc'[p].pc \in {"open", "finishing"}
            \/ /\ proc'[p].pc = "await" /\ client'.lock # p /\ proc'[p].op = "stream"
               /\ proc'[p].ans \in {"no", "ok"})
           => p \in conn'[proc'[p].conn].streams
    BY <1>1, <1>2, <1>3, <1>4, <1>5, <1>6 DEF WaitInv
  <2>6. conn' \in [Gens -> Conns]
    BY <1>1, <1>2, <1>3, <1>4, <1>5, <1>6 DEF ShapeInv
  <2>7. QED
    BY <1>1, <1>2, <1>3, <1>4, <1>5, <1>6, <2>6, <2>1, <2>2, <2>3, <2>4, <2>5, WaitMoves
<1>14. DiedInv'
  BY <1>1, <1>2, <1>3, <1>4, <1>5, <1>6, ProcFacts DEF DiedInv, Orphaned
<1>15. ReplayInv'
  BY DEF ReplayInv
<1>16. QED
  BY <1>7, <1>8, <1>9, <1>10, <1>11, <1>12, <1>13, <1>14, <1>15 DEF ClientInv


\* The budget grants an attempt: a new generation, which nobody has heard of.
LEMMA BeginInv ==
  ASSUME ClientInv, NEW p \in Procs \ {Stop},
         (proc[p].pc = "lock" /\ client.lock = None) \/ proc[p].pc = "look",
         ~Live, client.failed = "no", MayRestart,
         client' = [client EXCEPT !.attempts = @ + 1, !.gen = @ + 1, !.lock = p],
         proc' = [proc EXCEPT ![p] = [@ EXCEPT !.pc = "wait", !.conn = client.gen + 1]],
         since' = since + 1, UNCHANGED <<conn, died, faults>>
  PROVE  ClientInv'
<1>1. /\ ShapeInv /\ TaskInv /\ LockInv /\ StopInv /\ ConnInv /\ FaultInv
      /\ WaitInv /\ DiedInv /\ ReplayInv
  BY DEF ClientInv
<1>2. client.gen \in Gens /\ client.gen \in Nat /\ client.lock \in Procs \cup {None}
      /\ client.current \in Gens \cup {None} /\ faults \in Nat /\ client.stop \in BOOLEAN
      /\ client.starting \in Gens \cup {None}
  BY <1>1, Types, ProcFacts DEF ShapeInv
<1>3. /\ p \in Procs /\ p # Stop /\ p # None /\ client.stop = FALSE /\ client.current # None
      /\ client.current \in Gens /\ client.current \in Nat /\ client.current <= client.gen
      /\ proc[Stop].pc = "idle" /\ faults <= MaxFaults /\ MaxFaults \in Nat
  <2>1. p \in Procs /\ p # Stop /\ p # None /\ proc[p].pc # "idle"
    BY ProcFacts
  <2>2. client.stop = FALSE /\ proc[Stop].pc = "idle"
    BY <1>1, <1>2 DEF StopInv
  <2>3. client.current # None
    BY <1>1, <2>1, <2>2 DEF StopInv
  <2>4. faults <= MaxFaults /\ client.current <= client.gen
    BY <1>1, ProcFacts DEF ShapeInv
  <2>5. QED
    BY <1>2, <2>1, <2>2, <2>3, <2>4, ProcFacts
<1>4. conn[client.current].dead /\ ~Active(conn[client.current])
  BY <1>1, <1>3 DEF Live, Alive, ConnInv, Active
<1>5. /\ client.lock = None \/ (client.lock = p /\ proc[p].pc = "look")
      /\ ~Active(conn[client.gen]) /\ conn[client.gen].child # "none"
  BY <1>1, <1>2, <1>3, <1>4 DEF ConnInv, LockInv
<1>6. client.gen <= faults /\ client.gen + 1 \in Gens
  BY <1>1, <1>2, <1>3, <1>5, ProcFacts DEF FaultInv, Active, Conns, ShapeInv, Children
<1>7. /\ client' \in Clients /\ client'.current = client.current
      /\ client'.starting = client.starting /\ client'.attempts = client.attempts + 1
      /\ client'.failed = client.failed /\ client'.gen = client.gen + 1
      /\ client'.wanted = client.wanted /\ client'.stop = client.stop /\ client'.lock = p
  <2>1. client.attempts \in Nat /\ client.attempts + 1 \in Counts /\ p \in Holders
    BY <1>1, <1>3, Types, ProcFacts DEF Counts, Holders, MayRestart
  <2>2. QED
    BY <1>1, <1>6, <2>1 DEF ShapeInv, Clients
<1>8. /\ proc' \in [Procs -> Tasks] /\ \A q \in Procs \ {p} : proc'[q] = proc[q]
      /\ proc'[p].pc = "wait" /\ proc'[p].op = proc[p].op /\ proc'[p].req = proc[p].req
      /\ proc'[p].conn = client.gen + 1 /\ proc'[p].replay = proc[p].replay
      /\ proc'[p].ans = proc[p].ans /\ proc'[p].event = proc[p].event
  BY <1>1, <1>3, <1>6, Types DEF Tasks, Places, Links, ShapeInv
<1>9. Unborn(conn[client.gen + 1])
  BY <1>1, <1>2, <1>6 DEF ConnInv
<1>10. proc[p].event = "no" /\ proc[p].req # "shutdown"
  BY <1>1, <1>3 DEF TaskInv, TaskOK
<1>11. ShapeInv'
  BY <1>1, <1>2, <1>6, <1>7, <1>8, Types, ProcFacts DEF ShapeInv, None
<1>12. TaskInv'
  BY <1>1, <1>2, <1>3, <1>5, <1>6, <1>7, <1>8, <1>10, Types, ProcFacts DEF TaskInv, TaskOK, Tasks, Links, None
<1>13. LockInv'
  BY <1>1, <1>2, <1>3, <1>5, <1>6, <1>7, <1>8, Types, ProcFacts DEF LockInv, TaskInv, TaskOK, Tasks, Links, None
<1>14. StopInv'
  BY <1>1, <1>2, <1>3, <1>4, <1>5, <1>6, <1>7, <1>8, <1>9, <1>10, ProcFacts DEF StopInv
<1>15. ConnInv'
  BY <1>1, <1>2, <1>3, <1>4, <1>5, <1>6, <1>7, <1>8, <1>9, <1>10, ProcFacts DEF ConnInv, Unborn, Active
<1>16. FaultInv'
  BY <1>1, <1>2, <1>3, <1>6, <1>7, <1>9 DEF FaultInv, Unborn
<1>17. WaitInv'
  <2>1. \A q \in Procs \ {p} :
           /\ proc'[q] = proc[q]
           /\ q \in conn'[client.gen].pending <=> q \in conn[client.gen].pending
           /\ q \in conn'[client.gen].streams <=> q \in conn[client.gen].streams
           /\ client'.lock # q => client.lock # q
    BY <1>1, <1>2, <1>3, <1>5, <1>7, <1>8, ProcFacts
  <2>2. \A k \in Gens : p \in conn'[k].pending =>
           proc'[p].pc = "await" /\ proc'[p].conn = k /\ proc'[p].ans = "no"
    BY <1>1, <1>2, <1>3, <1>5, <1>7, <1>8 DEF WaitInv
  <2>3. proc'[p].pc = "await" /\ proc'[p].ans = "no" => p \in conn'[proc'[p].conn].pending
    BY <1>1, <1>2, <1>3, <1>5, <1>7, <1>8 DEF WaitInv
  <2>4. \A k \in Gens : p \in conn'[k].streams =>
           /\ proc'[p].pc \in {"await", "open", "finishing"} /\ proc'[p].conn = k
           /\ proc'[p].event = "no" /\ proc'[p].op = "stream"
    BY <1>1, <1>2, <1>3, <1>5, <1>7, <1>8 DEF WaitInv
  <2>5. p \in Callers /\ proc'[p].event = "no"
        /\ (\/ proc'[p].pc \in {"open", "finishing"}
            \/ /\ proc'[p].pc = "await" /\ client'.lock # p /\ proc'[p].op = "stream"
               /\ proc'[p].ans \in {"no", "ok"})
           => p \in conn'[proc'[p].conn].streams
    BY <1>1, <1>2, <1>3, <1>5, <1>7, <1>8 DEF WaitInv
  <2>6. conn' \in [Gens -> Conns]
    BY <1>1, <1>2, <1>3, <1>5, <1>7, <1>8 DEF ShapeInv
  <2>7. QED
    BY <1>1, <1>2, <1>3, <1>5, <1>7, <1>8, <2>6, <2>1, <2>2, <2>3, <2>4, <2>5, WaitMoves
<1>18. DiedInv'
  BY <1>1, <1>2, <1>3, <1>4, <1>5, <1>6, <1>7, <1>8, <1>9, <1>10, ProcFacts DEF DiedInv, Orphaned
<1>19. ReplayInv'
  BY <1>7, <1>8, <1>9, <1>3 DEF ReplayInv, ReplayOK, Unborn
<1>20. QED
  BY <1>11, <1>12, <1>13, <1>14, <1>15, <1>16, <1>17, <1>18, <1>19 DEF ClientInv

\* With spawn_lock, conn() uses what somebody else started, returns, or starts one.
LEMMA LookInv ==
  ASSUME ClientInv, NEW p \in Procs, Look(p)
  PROVE  ClientInv'
<1>1. /\ ShapeInv /\ TaskInv /\ LockInv /\ StopInv /\ ConnInv /\ FaultInv
      /\ WaitInv /\ DiedInv /\ ReplayInv
  BY DEF ClientInv
<1>2. /\ p \in Procs \ {Stop} /\ UNCHANGED <<conn, died, faults>>
      /\ (proc[p].pc = "lock" /\ client.lock = None) \/ proc[p].pc = "look"
      /\ client \in Clients /\ faults \in Nat /\ faults \in 0 .. MaxFaults
      /\ client.failed \in Failures
  BY <1>1, ProcFacts, Types DEF Look, Limits, ShapeInv
<1>3. CASE Live /\ proc' = Got(proc, p, client.current) /\ since' = since
           /\ client' = [client EXCEPT !.lock = None]
  <2>1. proc[p].pc = "lock" /\ client.lock = None
    <3>1. CASE proc[p].pc = "look"
      <4>1. client.lock = p /\ p \notin {None, Stop}
        BY <1>1, <1>2, <3>1, ProcFacts DEF LockInv
      <4>2. client.current \in Gens /\ client.current < client.gen
        BY <1>1, <4>1, Types, ProcFacts DEF LockInv, ShapeInv
      <4>3. QED
        BY <1>1, <1>3, <4>2 DEF ConnInv, Active, Live, Alive
    <3>2. QED
      BY <1>2, <3>1
  <2>2. client' = client
    BY <1>2, <1>3, <2>1 DEF Clients
  <2>3. QED
    BY <1>2, <1>3, <2>1, <2>2, TakeInv
<1>4. ASSUME NEW f \in Failures, client' = [client EXCEPT !.failed = f, !.lock = None],
             proc' = Returns(proc, p), since' = since, client.failed \in {"no", f}
      PROVE  ClientInv'
  <2>1. /\ client' \in Clients /\ client'.current = client.current
        /\ client'.starting = client.starting /\ client'.attempts = client.attempts
        /\ client'.gen = client.gen /\ client'.wanted = client.wanted
        /\ client'.stop = client.stop /\ client'.failed = f /\ client'.lock = None
    BY <1>2, <1>4 DEF Clients, Holders
  <2>2. QED
    BY <1>2, <1>4, <2>1, ReleaseInv
<1>5. CASE client.failed # "no" /\ proc' = Returns(proc, p) /\ since' = since
           /\ client' = [client EXCEPT !.lock = None]
  <2>1. client' = [client EXCEPT !.failed = client.failed, !.lock = None]
    BY <1>2, <1>5 DEF Clients
  <2>2. QED
    BY <1>2, <1>4, <1>5, <2>1
<1>6. CASE ~Live /\ client.failed = "no" /\ MayRestart /\ since' = since + 1
           /\ client' = [client EXCEPT !.attempts = @ + 1, !.gen = @ + 1, !.lock = p]
           /\ proc' = [proc EXCEPT ![p] = [@ EXCEPT !.pc = "wait", !.conn = client.gen + 1]]
  BY <1>2, <1>6, BeginInv
<1>7. CASE client.failed = "no" /\ proc' = Returns(proc, p) /\ since' = since
           /\ client' = [client EXCEPT !.failed = "helperFailed", !.lock = None]
  <2>1. "helperFailed" \in Failures
    BY DEF Failures
  <2>2. QED
    BY <1>4, <1>7, <2>1
<1>8. QED
  BY <1>3, <1>5, <1>6, <1>7 DEF Look


\* The lock is given back by a task that a shutdown, or a helper of another
\* version, has stopped.
LEMMA StoppedInv ==
  ASSUME ClientInv, NEW p \in Procs, NEW f \in Failures,
         proc[p].pc \in {"wait", "hello"}, proc[p].pc = "wait" => client.stop,
         client' = [client EXCEPT !.failed = f, !.lock = None], proc' = Returns(proc, p),
         client.failed \in {"shutDown", "versionMismatch"} \/ proc[p].pc = "hello" =>
            f \in {"shutDown", "versionMismatch"},
         UNCHANGED <<died, since>>, faults' \in 0 .. MaxFaults, faults <= faults',
         conn' = IF proc[p].pc = "hello" THEN [conn EXCEPT ![client.gen].child = "killed"]
                 ELSE conn
  PROVE  ClientInv'
<1>1. ShapeInv /\ StopInv
  BY DEF ClientInv
<1>2. p \in Procs \ {Stop}
  BY <1>1 DEF StopInv
<1>3. /\ client' \in Clients /\ client'.current = client.current
      /\ client'.starting = client.starting /\ client'.attempts = client.attempts
      /\ client'.gen = client.gen /\ client'.wanted = client.wanted
      /\ client'.stop = client.stop /\ client'.failed = f /\ client'.lock = None
  BY <1>1 DEF Clients, Holders, ShapeInv
<1>4. QED
  BY <1>2, <1>3, ReleaseInv

\* What is known of the task that waits to spawn, or for a hello.
LEMMA Restarting ==
  ASSUME ClientInv, NEW p \in Procs, proc[p].pc \in {"wait", "hello"}
  PROVE  /\ p # Stop /\ p # None /\ client.lock = p /\ proc[p].conn = client.gen
         /\ client.gen \in Gens /\ client.current \in Gens /\ client.current # client.gen
         /\ client.failed = "no" \/ client.stop
         /\ ReplayOK(p, proc[p], conn[client.gen])
         /\ client.stop => client.failed \in {"shutDown", "versionMismatch"}
         /\ client \in Clients /\ client.failed \in Failures
         /\ \A q \in Procs \ {p} : proc[q].conn # client.gen
         /\ \A k \in Gens : p \notin conn[k].pending /\ p \notin conn[k].streams
<1>1. ShapeInv /\ LockInv /\ StopInv /\ ReplayInv /\ WaitInv
  BY DEF ClientInv
<1>2. p # Stop /\ p # None /\ client.lock = p
  BY <1>1, ProcFacts DEF StopInv, LockInv
<1>3. QED
  BY <1>1, <1>2, Types DEF LockInv, ReplayInv, StopInv, ShapeInv, WaitInv


\* until_stopped: a shutdown ends the handshake.
LEMMA HelloStoppedInv ==
  ASSUME ClientInv, NEW p \in Procs, HelloStopped(p)
  PROVE  ClientInv'
<1>1. proc[p].pc = "hello" /\ ShapeInv
  BY DEF HelloStopped, ClientInv
<1>2. /\ client.lock = p /\ proc[p].conn = client.gen /\ client \in Clients
      /\ client.failed \in Failures /\ client.failed \in {"shutDown", "versionMismatch"}
  BY <1>1, Restarting DEF HelloStopped
<1>3. client' = [client EXCEPT !.failed = client.failed, !.lock = None]
  BY <1>2 DEF HelloStopped, Clients
<1>4. /\ proc' = Returns(proc, p) /\ conn' = [conn EXCEPT ![client.gen].child = "killed"]
      /\ UNCHANGED <<died, faults, since>> /\ faults \in 0 .. MaxFaults /\ faults <= faults
  BY <1>1, <1>2, ProcFacts DEF HelloStopped, Limits, ShapeInv
<1>5. QED
  BY <1>1, <1>2, <1>3, <1>4, StoppedInv


\* The spacing is over: the helper of the new generation is spawned.
LEMMA SpawnInv ==
  ASSUME ClientInv, NEW p \in Procs,
         proc[p].pc = "wait", client.failed = "no",
         conn' = [conn EXCEPT ![proc[p].conn].child = "running"],
         proc' = [proc EXCEPT ![p].pc = "hello"],
         UNCHANGED <<client, died, faults, since>>
  PROVE  ClientInv'
<1>1. /\ ShapeInv /\ TaskInv /\ LockInv /\ StopInv /\ ConnInv /\ FaultInv
      /\ WaitInv /\ DiedInv /\ ReplayInv
  BY DEF ClientInv
<1>2. client.gen \in Gens /\ client.gen \in Nat /\ client.lock \in Procs \cup {None}
      /\ client.current \in Gens \cup {None} /\ faults \in Nat /\ client.stop \in BOOLEAN
      /\ client.starting \in Gens \cup {None}
  BY <1>1, Types, ProcFacts DEF ShapeInv
<1>3. /\ p # Stop /\ p # None /\ client.lock = p /\ proc[p].conn = client.gen
      /\ client.current \in Gens /\ client.current # client.gen
      /\ Unborn(conn[client.gen])
      /\ \A k \in Gens : p \notin conn[k].pending /\ p \notin conn[k].streams
  BY Restarting DEF ReplayOK
<1>4. /\ proc' \in [Procs -> Tasks] /\ \A q \in Procs \ {p} : proc'[q] = proc[q]
      /\ proc'[p].pc = "hello" /\ proc'[p].op = proc[p].op /\ proc'[p].req = proc[p].req
      /\ proc'[p].conn = proc[p].conn /\ proc'[p].replay = proc[p].replay
      /\ proc'[p].ans = proc[p].ans /\ proc'[p].event = proc[p].event
  BY <1>1, Types DEF Tasks, Places, ShapeInv
<1>5. /\ conn' \in [Gens -> Conns] /\ \A k \in Gens \ {client.gen} : conn'[k] = conn[k]
      /\ conn'[client.gen].up = conn[client.gen].up
      /\ conn'[client.gen].dead = conn[client.gen].dead
      /\ conn'[client.gen].closing = conn[client.gen].closing
      /\ conn'[client.gen].child = "running"
      /\ conn'[client.gen].loaded = conn[client.gen].loaded
      /\ conn'[client.gen].asked = conn[client.gen].asked
      /\ conn'[client.gen].out = conn[client.gen].out
      /\ conn'[client.gen].pending = conn[client.gen].pending
      /\ conn'[client.gen].streams = conn[client.gen].streams
  BY <1>1, <1>2, <1>3, Types DEF Conns, Children, ShapeInv
<1>6. ShapeInv'
  BY <1>1, <1>2, <1>3, <1>4, <1>5, ProcFacts DEF ShapeInv
<1>7. TaskInv'
  BY <1>1, <1>2, <1>3, <1>4, <1>5, ProcFacts DEF TaskInv, TaskOK
<1>8. LockInv'
  BY <1>1, <1>2, <1>3, <1>4, <1>5, ProcFacts DEF LockInv
<1>9. StopInv'
  BY <1>1, <1>2, <1>3, <1>4, <1>5, ProcFacts DEF StopInv, Unborn
<1>10. ConnInv'
  BY <1>1, <1>2, <1>3, <1>4, <1>5, ProcFacts DEF ConnInv, Unborn, Active
<1>11. FaultInv'
  BY <1>1, <1>2, <1>3, <1>4, <1>5, ProcFacts DEF FaultInv, Unborn
<1>12. WaitInv'
  <2>1. \A q \in Procs \ {p} :
           /\ proc'[q] = proc[q]
           /\ q \in conn'[client.gen].pending <=> q \in conn[client.gen].pending
           /\ q \in conn'[client.gen].streams <=> q \in conn[client.gen].streams
           /\ client'.lock # q => client.lock # q
    BY <1>1, <1>2, <1>3, <1>4, <1>5, ProcFacts
  <2>2. \A k \in Gens : p \in conn'[k].pending =>
           proc'[p].pc = "await" /\ proc'[p].conn = k /\ proc'[p].ans = "no"
    BY <1>1, <1>2, <1>3, <1>4, <1>5 DEF WaitInv
  <2>3. proc'[p].pc = "await" /\ proc'[p].ans = "no" => p \in conn'[proc'[p].conn].pending
    BY <1>1, <1>2, <1>3, <1>4, <1>5 DEF WaitInv
  <2>4. \A k \in Gens : p \in conn'[k].streams =>
           /\ proc'[p].pc \in {"await", "open", "finishing"} /\ proc'[p].conn = k
           /\ proc'[p].event = "no" /\ proc'[p].op = "stream"
    BY <1>1, <1>2, <1>3, <1>4, <1>5 DEF WaitInv
  <2>5. p \in Callers /\ proc'[p].event = "no"
        /\ (\/ proc'[p].pc \in {"open", "finishing"}
            \/ /\ proc'[p].pc = "await" /\ client'.lock # p /\ proc'[p].op = "stream"
               /\ proc'[p].ans \in {"no", "ok"})
           => p \in conn'[proc'[p].conn].streams
    BY <1>1, <1>2, <1>3, <1>4, <1>5 DEF WaitInv
  <2>6. conn' \in [Gens -> Conns]
    BY <1>1, <1>2, <1>3, <1>4, <1>5 DEF ShapeInv
  <2>7. QED
    BY <1>1, <1>2, <1>3, <1>4, <1>5, <2>6, <2>1, <2>2, <2>3, <2>4, <2>5, WaitMoves, SMTT(30)
<1>13. DiedInv'
  BY <1>1, <1>2, <1>3, <1>4, <1>5, ProcFacts DEF DiedInv, Orphaned
<1>14. ReplayInv'
  BY <1>3, <1>4, <1>5 DEF ReplayInv, ReplayOK, Unborn, Quiet
<1>15. QED
  BY <1>6, <1>7, <1>8, <1>9, <1>10, <1>11, <1>12, <1>13, <1>14 DEF ClientInv


\* Wake either spawns or finds that a shutdown came first.
LEMMA WakeInv ==
  ASSUME ClientInv, NEW p \in Procs, Wake(p)
  PROVE  ClientInv'
<1>1. proc[p].pc = "wait" /\ ShapeInv /\ UNCHANGED <<died, faults, since>>
  BY DEF Wake, ClientInv, Limits
<1>2. CASE client.failed = "no"
  BY <1>1, <1>2, SpawnInv DEF Wake
<1>3. CASE client.failed # "no"
  <2>1. /\ client.stop /\ client \in Clients /\ client.failed \in Failures
        /\ client.failed \in {"shutDown", "versionMismatch"}
    BY <1>1, <1>3, Restarting
  <2>2. /\ client' = [client EXCEPT !.failed = client.failed, !.lock = None]
        /\ proc' = Returns(proc, p) /\ conn' = conn
    BY <1>3, <2>1 DEF Wake, Clients
  <2>3. faults \in 0 .. MaxFaults /\ faults <= faults
    BY <1>1, ProcFacts DEF ShapeInv
  <2>4. QED
    BY <1>1, <2>1, <2>2, <2>3, StoppedInv
<1>4. QED
  BY <1>2, <1>3

\* The handshake succeeds: there is an engine to replay, or the helper is
\* ready.
LEMMA GreetedInv ==
  ASSUME ClientInv, NEW p \in Procs,
         Hello(p), client.failed = "no"
  PROVE  ClientInv'
<1>1. /\ ShapeInv /\ TaskInv /\ LockInv /\ StopInv /\ ConnInv /\ FaultInv
      /\ WaitInv /\ DiedInv /\ ReplayInv
  BY DEF ClientInv
<1>2. client.gen \in Gens /\ client.gen \in Nat /\ client.lock \in Procs \cup {None}
      /\ client.current \in Gens \cup {None} /\ faults \in Nat /\ client.stop \in BOOLEAN
      /\ client.starting \in Gens \cup {None}
  BY <1>1, Types, ProcFacts DEF ShapeInv
<1>3. proc[p].pc = "hello" /\ UNCHANGED <<died, faults, since>>
  BY DEF Hello, Limits
<1>4. /\ p # Stop /\ p # None /\ client.lock = p /\ proc[p].conn = client.gen
      /\ client.current \in Gens /\ client.current # client.gen
      /\ ReplayOK(p, proc[p], conn[client.gen])
      /\ \A k \in Gens : p \notin conn[k].pending /\ p \notin conn[k].streams
  BY <1>3, Restarting
<1>5. /\ conn[client.gen].up = FALSE /\ ~conn[client.gen].dead /\ Quiet(conn[client.gen])
      /\ conn[client.gen].loaded = "none" /\ conn[client.gen].streams = {}
      /\ proc[p].event = "no"
  BY <1>1, <1>2, <1>3, <1>4 DEF Hello, ReplayOK, ConnInv, TaskInv, TaskOK
<1>6. /\ proc' \in [Procs -> Tasks] /\ \A q \in Procs \ {p} : proc'[q] = proc[q]
      /\ proc'[p].pc = IF client.wanted = "none" THEN "publish" ELSE "send"
      /\ proc'[p].op = proc[p].op /\ proc'[p].req = "load" /\ proc'[p].conn = proc[p].conn
      /\ proc'[p].replay = client.wanted /\ proc'[p].ans = "no"
      /\ proc'[p].event = proc[p].event
  <2> DEFINE x == IF client.wanted = "none" THEN "publish" ELSE "send"
             t == [proc[p] EXCEPT !.replay = client.wanted, !.req = "load", !.pc = x, !.ans = "no"]
  <2>1. x \in Places /\ "load" \in Reqs /\ "no" \in Answers /\ client.wanted \in Engine
    BY <1>1, Types DEF Places, Reqs, Requests, Answers
  <2>2. proc' = [proc EXCEPT ![p] = t]
    BY <1>3 DEF Hello
  <2> HIDE DEF x
  <2>3. /\ t \in Tasks /\ t.pc = x /\ t.op = proc[p].op /\ t.req = "load" /\ t.conn = proc[p].conn
        /\ t.replay = client.wanted /\ t.ans = "no" /\ t.event = proc[p].event
    BY <1>1, <2>1, Types DEF Tasks
  <2> HIDE DEF t
  <2>4. QED
    BY <1>1, <2>2, <2>3 DEF ShapeInv, x
<1>7. /\ conn' \in [Gens -> Conns] /\ \A k \in Gens \ {client.gen} : conn'[k] = conn[k]
      /\ conn'[client.gen].up = TRUE /\ conn'[client.gen].dead = conn[client.gen].dead
      /\ conn'[client.gen].closing = conn[client.gen].closing
      /\ conn'[client.gen].child = conn[client.gen].child
      /\ conn'[client.gen].loaded = conn[client.gen].loaded
      /\ conn'[client.gen].asked = conn[client.gen].asked
      /\ conn'[client.gen].out = conn[client.gen].out
      /\ conn'[client.gen].pending = conn[client.gen].pending
      /\ conn'[client.gen].streams = conn[client.gen].streams
  <2>1. conn' = [conn EXCEPT ![client.gen].up = TRUE]
    BY <1>4 DEF Hello
  <2>2. QED
    BY <1>1, <1>2, <2>1, Types DEF Conns, ShapeInv
<1>8. /\ client' \in Clients /\ client'.current = client.current
      /\ client'.starting = client.gen /\ client'.attempts = client.attempts
      /\ client'.failed = client.failed /\ client'.gen = client.gen
      /\ client'.wanted = client.wanted /\ client'.stop = client.stop
      /\ client'.lock = client.lock
  BY <1>1, <1>2, <1>4 DEF Hello, ShapeInv, Clients, Links
<1>9. ShapeInv'
  BY <1>1, <1>2, <1>3, <1>4, <1>5, <1>6, <1>7, <1>8, ProcFacts DEF ShapeInv
<1>10. TaskInv'
  BY <1>1, <1>2, <1>3, <1>4, <1>5, <1>6, <1>7, <1>8, ProcFacts DEF TaskInv, TaskOK
<1>11. LockInv'
  BY <1>1, <1>2, <1>3, <1>4, <1>5, <1>6, <1>7, <1>8, ProcFacts DEF LockInv
<1>12. StopInv'
  BY <1>1, <1>2, <1>3, <1>4, <1>5, <1>6, <1>7, <1>8, ProcFacts DEF StopInv
<1>13. ConnInv'
  BY <1>1, <1>2, <1>3, <1>4, <1>5, <1>6, <1>7, <1>8, ProcFacts DEF ConnInv, Unborn, Active
<1>14. FaultInv'
  BY <1>1, <1>2, <1>3, <1>4, <1>5, <1>6, <1>7, <1>8, ProcFacts DEF FaultInv
<1>15. WaitInv'
  <2>1. \A q \in Procs \ {p} :
           /\ proc'[q] = proc[q]
           /\ q \in conn'[client.gen].pending <=> q \in conn[client.gen].pending
           /\ q \in conn'[client.gen].streams <=> q \in conn[client.gen].streams
           /\ client'.lock # q => client.lock # q
    BY <1>1, <1>2, <1>3, <1>4, <1>6, <1>7, <1>8, ProcFacts
  <2>2. \A k \in Gens : p \in conn'[k].pending =>
           proc'[p].pc = "await" /\ proc'[p].conn = k /\ proc'[p].ans = "no"
    BY <1>1, <1>2, <1>3, <1>4, <1>6, <1>7, <1>8 DEF WaitInv
  <2>3. proc'[p].pc = "await" /\ proc'[p].ans = "no" => p \in conn'[proc'[p].conn].pending
    BY <1>1, <1>2, <1>3, <1>4, <1>6, <1>7, <1>8 DEF WaitInv
  <2>4. \A k \in Gens : p \in conn'[k].streams =>
           /\ proc'[p].pc \in {"await", "open", "finishing"} /\ proc'[p].conn = k
           /\ proc'[p].event = "no" /\ proc'[p].op = "stream"
    BY <1>1, <1>2, <1>3, <1>4, <1>6, <1>7, <1>8 DEF WaitInv
  <2>5. p \in Callers /\ proc'[p].event = "no"
        /\ (\/ proc'[p].pc \in {"open", "finishing"}
            \/ /\ proc'[p].pc = "await" /\ client'.lock # p /\ proc'[p].op = "stream"
               /\ proc'[p].ans \in {"no", "ok"})
           => p \in conn'[proc'[p].conn].streams
    BY <1>1, <1>2, <1>3, <1>4, <1>6, <1>7, <1>8 DEF WaitInv
  <2>6. conn' \in [Gens -> Conns]
    BY <1>1, <1>2, <1>3, <1>4, <1>6, <1>7, <1>8 DEF ShapeInv
  <2>7. QED
    BY <1>1, <1>2, <1>7, <2>6, <2>1, <2>2, <2>3, <2>4, <2>5, WaitMoves
<1>16. DiedInv'
  BY <1>1, <1>2, <1>3, <1>4, <1>5, <1>6, <1>7, <1>8, ProcFacts DEF DiedInv, Orphaned
<1>17. ReplayInv'
  BY <1>2, <1>4, <1>5, <1>6, <1>7, <1>8 DEF ReplayInv, ReplayOK, Quiet, Before
<1>18. QED
  BY <1>9, <1>10, <1>11, <1>12, <1>13, <1>14, <1>15, <1>16, <1>17 DEF ClientInv


\* The handshake fails, and is tried again.
LEMMA RetryInv ==
  ASSUME ClientInv, NEW p \in Procs,
         proc[p].pc = "hello", faults < MaxFaults, faults' = faults + 1,
         conn' = [conn EXCEPT ![client.gen].child = "killed"],
         proc' = [proc EXCEPT ![p].pc = "look"],
         UNCHANGED <<client, died, since>>
  PROVE  ClientInv'
<1>1. /\ ShapeInv /\ TaskInv /\ LockInv /\ StopInv /\ ConnInv /\ FaultInv
      /\ WaitInv /\ DiedInv /\ ReplayInv
  BY DEF ClientInv
<1>2. client.gen \in Gens /\ client.gen \in Nat /\ client.lock \in Procs \cup {None}
      /\ client.current \in Gens \cup {None} /\ faults \in Nat /\ client.stop \in BOOLEAN
      /\ client.starting \in Gens \cup {None}
  BY <1>1, Types, ProcFacts DEF ShapeInv
<1>3. /\ p # Stop /\ p # None /\ client.lock = p /\ proc[p].conn = client.gen
      /\ client.current \in Gens /\ client.current # client.gen
      /\ ReplayOK(p, proc[p], conn[client.gen])
      /\ \A k \in Gens : p \notin conn[k].pending /\ p \notin conn[k].streams
  BY Restarting
<1>4. conn[client.gen].up = FALSE
  BY <1>1, <1>2, <1>3 DEF ReplayOK
<1>5. /\ proc' \in [Procs -> Tasks] /\ \A q \in Procs \ {p} : proc'[q] = proc[q]
      /\ proc'[p].pc = "look" /\ proc'[p].op = proc[p].op /\ proc'[p].req = proc[p].req
      /\ proc'[p].conn = proc[p].conn /\ proc'[p].replay = proc[p].replay
      /\ proc'[p].ans = proc[p].ans /\ proc'[p].event = proc[p].event
  BY <1>1, Types DEF Tasks, Places, ShapeInv
<1>6. /\ conn' \in [Gens -> Conns] /\ \A k \in Gens \ {client.gen} : conn'[k] = conn[k]
      /\ conn'[client.gen].up = conn[client.gen].up
      /\ conn'[client.gen].dead = conn[client.gen].dead
      /\ conn'[client.gen].closing = conn[client.gen].closing
      /\ conn'[client.gen].child = "killed"
      /\ conn'[client.gen].loaded = conn[client.gen].loaded
      /\ conn'[client.gen].asked = conn[client.gen].asked
      /\ conn'[client.gen].out = conn[client.gen].out
      /\ conn'[client.gen].pending = conn[client.gen].pending
      /\ conn'[client.gen].streams = conn[client.gen].streams
  BY <1>1, <1>2, Types DEF Conns, Children, ShapeInv
<1>7. ShapeInv'
  BY <1>1, <1>2, <1>3, <1>4, <1>5, <1>6, ProcFacts DEF ShapeInv
<1>8. TaskInv'
  BY <1>1, <1>2, <1>3, <1>4, <1>5, <1>6, ProcFacts DEF TaskInv, TaskOK
<1>9. LockInv'
  BY <1>1, <1>2, <1>3, <1>4, <1>5, <1>6, ProcFacts DEF LockInv
<1>10. StopInv'
  BY <1>1, <1>2, <1>3, <1>4, <1>5, <1>6, ProcFacts DEF StopInv
<1>11. ConnInv'
  BY <1>1, <1>2, <1>3, <1>4, <1>5, <1>6, ProcFacts DEF ConnInv, Unborn, Active
<1>12. FaultInv'
  BY <1>1, <1>2, <1>3, <1>4, <1>5, <1>6, ProcFacts DEF FaultInv, ShapeInv
<1>13. WaitInv'
  <2>1. \A q \in Procs \ {p} :
           /\ proc'[q] = proc[q]
           /\ q \in conn'[client.gen].pending <=> q \in conn[client.gen].pending
           /\ q \in conn'[client.gen].streams <=> q \in conn[client.gen].streams
           /\ client'.lock # q => client.lock # q
    BY <1>1, <1>2, <1>3, <1>4, <1>5, <1>6, ProcFacts
  <2>2. \A k \in Gens : p \in conn'[k].pending =>
           proc'[p].pc = "await" /\ proc'[p].conn = k /\ proc'[p].ans = "no"
    BY <1>1, <1>2, <1>3, <1>4, <1>5, <1>6 DEF WaitInv
  <2>3. proc'[p].pc = "await" /\ proc'[p].ans = "no" => p \in conn'[proc'[p].conn].pending
    BY <1>1, <1>2, <1>3, <1>4, <1>5, <1>6 DEF WaitInv
  <2>4. \A k \in Gens : p \in conn'[k].streams =>
           /\ proc'[p].pc \in {"await", "open", "finishing"} /\ proc'[p].conn = k
           /\ proc'[p].event = "no" /\ proc'[p].op = "stream"
    BY <1>1, <1>2, <1>3, <1>4, <1>5, <1>6 DEF WaitInv
  <2>5. p \in Callers /\ proc'[p].event = "no"
        /\ (\/ proc'[p].pc \in {"open", "finishing"}
            \/ /\ proc'[p].pc = "await" /\ client'.lock # p /\ proc'[p].op = "stream"
               /\ proc'[p].ans \in {"no", "ok"})
           => p \in conn'[proc'[p].conn].streams
    BY <1>1, <1>2, <1>3, <1>4, <1>5, <1>6 DEF WaitInv
  <2>6. conn' \in [Gens -> Conns]
    BY <1>1, <1>2, <1>3, <1>4, <1>5, <1>6 DEF ShapeInv
  <2>7. QED
    BY <1>1, <1>2, <1>3, <1>4, <1>5, <1>6, <2>6, <2>1, <2>2, <2>3, <2>4, <2>5, WaitMoves
<1>14. DiedInv'
  BY <1>1, <1>2, <1>3, <1>4, <1>5, <1>6, ProcFacts DEF DiedInv, Orphaned
<1>15. ReplayInv'
  BY <1>3, <1>5 DEF ReplayInv, ReplayOK
<1>16. QED
  BY <1>7, <1>8, <1>9, <1>10, <1>11, <1>12, <1>13, <1>14, <1>15 DEF ClientInv


\* A handshake that fails is tried again, or the helper is of another version.
LEMMA HelloFailsInv ==
  ASSUME ClientInv, NEW p \in Procs, HelloFails(p)
  PROVE  ClientInv'
<1>1. /\ proc[p].pc = "hello" /\ ShapeInv /\ faults < MaxFaults /\ faults' = faults + 1
      /\ UNCHANGED <<died, since>>
  BY DEF HelloFails, ClientInv
<1>2. client.lock = p /\ proc[p].conn = client.gen
  BY <1>1, Restarting
<1>3. conn' = [conn EXCEPT ![client.gen].child = "killed"]
  BY <1>2 DEF HelloFails
<1>4. CASE proc' = [proc EXCEPT ![p].pc = "look"] /\ UNCHANGED client
  BY <1>1, <1>3, <1>4, RetryInv
<1>5. CASE /\ proc' = Returns(proc, p)
           /\ client' = [client EXCEPT !.failed = "versionMismatch", !.lock = None]
  <2>1. faults' \in 0 .. MaxFaults /\ faults <= faults' /\ "versionMismatch" \in Failures
    BY <1>1, ProcFacts DEF ShapeInv, Failures
  <2>2. QED
    BY <1>1, <1>3, <1>5, <2>1, StoppedInv
<1>6. QED
  BY <1>4, <1>5 DEF HelloFails


\* Those who are not registered hear nothing.
LEMMA ToldNothing ==
  ASSUME ShapeInv, NEW g \in Gens, NEW q \in Procs,
         q \notin conn[g].pending, q \notin conn[g].streams
  PROVE  Told(proc, g)[q] = proc[q]
<1>1. proc[q] \in Tasks
  BY DEF ShapeInv
<1>2. Told(proc, g)[q] = [proc[q] EXCEPT !.ans = proc[q].ans, !.event = proc[q].event]
  BY DEF Told
<1>3. QED
  BY <1>1, <1>2 DEF Tasks


\* A shutdown ends a restart: the new helper is closed, and nobody else knew of
\* it.
LEMMA GivenUpInv ==
  ASSUME ClientInv, NEW p \in Procs \ {Stop},
         proc[p].pc \in {"hello", "send", "await", "publish"}, client.lock = p,
         client.stop, GivenUp(p),
         UNCHANGED <<died, faults, since>>
  PROVE  ClientInv'
<1>1. /\ ShapeInv /\ TaskInv /\ LockInv /\ StopInv /\ ConnInv /\ FaultInv
      /\ WaitInv /\ DiedInv /\ ReplayInv
  BY DEF ClientInv
<1>2. client.gen \in Gens /\ client.gen \in Nat /\ client.lock \in Procs \cup {None}
      /\ client.current \in Gens \cup {None} /\ faults \in Nat /\ client.stop \in BOOLEAN
      /\ client.starting \in Gens \cup {None}
  BY <1>1, Types, ProcFacts DEF ShapeInv
<1>3. /\ p \in Procs /\ p # Stop /\ p # None /\ proc[p].conn = client.gen
      /\ client.current # None /\ client.current # client.gen
      /\ \A q \in Procs \ {p} : proc[q].conn # client.gen
      /\ client.failed \in {"shutDown", "versionMismatch"}
  BY <1>1, <1>2, ProcFacts DEF LockInv, StopInv
<1>4. /\ \A q \in Procs \ {p} : q \notin conn[client.gen].pending /\ q \notin conn[client.gen].streams
      /\ \A k \in Gens \ {client.gen} : p \notin conn[k].pending /\ p \notin conn[k].streams
  BY <1>1, <1>2, <1>3 DEF WaitInv
<1>5. /\ conn' \in [Gens -> Conns] /\ \A k \in Gens \ {client.gen} : conn'[k] = conn[k]
      /\ conn'[client.gen].dead /\ conn'[client.gen].child = "killed"
      /\ conn'[client.gen].up = conn[client.gen].up
      /\ conn'[client.gen].pending = {} /\ conn'[client.gen].streams = {}
      /\ conn'[client.gen].asked \subseteq conn[client.gen].asked
  <2>1. conn' = Close(conn, client.gen)
    BY <1>3 DEF GivenUp
  <2>2. QED
    BY <1>1, <1>2, <2>1, CloseFacts
<1>6. /\ proc' \in [Procs -> Tasks] /\ \A q \in Procs \ {p} : proc'[q] = proc[q]
      /\ proc'[p].pc = "done" /\ proc'[p].conn = None /\ proc'[p].op = "none"
      /\ proc'[p].req = "none" /\ proc'[p].ans = "no" /\ proc'[p].event = "no"
  <2>1. proc' = Returns(Told(proc, client.gen), p)
    BY <1>3 DEF GivenUp
  <2>2. Told(proc, client.gen) \in [Procs -> Tasks]
    BY <1>1, <1>2, ToldFacts
  <2>3. \A q \in Procs \ {p} : Told(proc, client.gen)[q] = proc[q]
    BY <1>1, <1>2, <1>4, ToldNothing
  <2>4. QED
    BY <1>3, <2>1, <2>2, <2>3, ReturnsFacts
<1>7. /\ client' \in Clients /\ client'.current = client.current /\ client'.starting = None
      /\ client'.attempts = client.attempts /\ client'.failed = client.failed
      /\ client'.gen = client.gen /\ client'.wanted = client.wanted
      /\ client'.stop = client.stop /\ client'.lock = None
  BY <1>1 DEF GivenUp, ShapeInv, Clients, Links, Holders
<1>8. None <= client.gen
  BY <1>2, ProcFacts DEF None
<1>9. ShapeInv'
  BY <1>1, <1>2, <1>3, <1>4, <1>5, <1>6, <1>7, <1>8, ProcFacts DEF ShapeInv
<1>10. TaskInv'
  BY <1>1, <1>2, <1>3, <1>4, <1>5, <1>6, <1>7, <1>8, ProcFacts DEF TaskInv, TaskOK
<1>11. LockInv'
  BY <1>1, <1>2, <1>3, <1>4, <1>5, <1>6, <1>7, <1>8, ProcFacts DEF LockInv
<1>12. StopInv'
  BY <1>1, <1>2, <1>3, <1>4, <1>5, <1>6, <1>7, <1>8, ProcFacts DEF StopInv
<1>13. ConnInv'
  BY <1>1, <1>2, <1>3, <1>4, <1>5, <1>6, <1>7, <1>8, ProcFacts DEF ConnInv, Unborn, Active
<1>14. FaultInv'
  BY <1>1, <1>2, <1>3, <1>4, <1>5, <1>6, <1>7, <1>8, ProcFacts DEF FaultInv
<1>15. WaitInv'
  <2>1. \A q \in Procs \ {p} :
           /\ proc'[q] = proc[q]
           /\ q \in conn'[client.gen].pending <=> q \in conn[client.gen].pending
           /\ q \in conn'[client.gen].streams <=> q \in conn[client.gen].streams
           /\ client'.lock # q => client.lock # q
    BY <1>1, <1>2, <1>3, <1>4, <1>5, <1>6, <1>7, <1>8, ProcFacts
  <2>2. \A k \in Gens : p \in conn'[k].pending =>
           proc'[p].pc = "await" /\ proc'[p].conn = k /\ proc'[p].ans = "no"
    BY <1>1, <1>2, <1>3, <1>4, <1>5, <1>6, <1>7, <1>8 DEF WaitInv
  <2>3. proc'[p].pc = "await" /\ proc'[p].ans = "no" => p \in conn'[proc'[p].conn].pending
    BY <1>1, <1>2, <1>3, <1>4, <1>5, <1>6, <1>7, <1>8 DEF WaitInv
  <2>4. \A k \in Gens : p \in conn'[k].streams =>
           /\ proc'[p].pc \in {"await", "open", "finishing"} /\ proc'[p].conn = k
           /\ proc'[p].event = "no" /\ proc'[p].op = "stream"
    BY <1>1, <1>2, <1>3, <1>4, <1>5, <1>6, <1>7, <1>8 DEF WaitInv
  <2>5. p \in Callers /\ proc'[p].event = "no"
        /\ (\/ proc'[p].pc \in {"open", "finishing"}
            \/ /\ proc'[p].pc = "await" /\ client'.lock # p /\ proc'[p].op = "stream"
               /\ proc'[p].ans \in {"no", "ok"})
           => p \in conn'[proc'[p].conn].streams
    BY <1>1, <1>2, <1>3, <1>4, <1>5, <1>6, <1>7, <1>8 DEF WaitInv
  <2>6. conn' \in [Gens -> Conns]
    BY <1>1, <1>2, <1>3, <1>4, <1>5, <1>6, <1>7, <1>8 DEF ShapeInv
  <2>7. QED
    BY <1>1, <1>2, <1>3, <1>4, <1>5, <1>6, <1>7, <1>8, <2>6, <2>1, <2>2, <2>3, <2>4, <2>5, WaitMoves
<1>16. DiedInv'
  BY <1>1, <1>2, <1>3, <1>4, <1>5, <1>6, <1>7, <1>8, ProcFacts DEF DiedInv, Orphaned
<1>17. ReplayInv'
  BY <1>7 DEF ReplayInv
<1>18. QED
  BY <1>9, <1>10, <1>11, <1>12, <1>13, <1>14, <1>15, <1>16, <1>17 DEF ClientInv

\* The handshake succeeds, or comes too late.
LEMMA HelloInv ==
  ASSUME ClientInv, NEW p \in Procs, Hello(p)
  PROVE  ClientInv'
<1>1. proc[p].pc = "hello" /\ UNCHANGED <<died, faults, since>>
  BY DEF Hello, Limits
<1>2. p \in Procs \ {Stop} /\ client.lock = p /\ (client.failed = "no" \/ client.stop)
  BY <1>1, Restarting
<1>3. CASE client.failed = "no"
  BY <1>3, GreetedInv
<1>4. CASE client.failed # "no"
  BY <1>1, <1>2, <1>4, GivenUpInv DEF Hello
<1>5. QED
  BY <1>3, <1>4

\* What is known of the task that holds spawn_lock.
LEMMA Holding ==
  ASSUME ClientInv, NEW p \in Procs \ {Stop}, client.lock = p
  PROVE  /\ p \in Procs /\ p # Stop /\ p # None /\ proc[p].conn = client.gen
         /\ client.current \in Gens /\ client.current # client.gen
         /\ client.failed = "no" \/ client.stop
         /\ ReplayOK(p, proc[p], conn[client.gen])
         /\ proc[p].event = "no"
         /\ \A k \in Gens : /\ p \notin conn[k].streams
                            /\ p \in conn[k].pending => proc[p].pc = "await" /\ proc[p].ans = "no"
<1>1. ShapeInv /\ LockInv /\ ReplayInv /\ WaitInv
  BY DEF ClientInv
<1>2. /\ p \in Procs /\ p # Stop /\ p # None /\ proc[p].conn = client.gen
      /\ client.current \in Gens /\ client.current # client.gen
      /\ client.failed = "no" \/ client.stop
      /\ ReplayOK(p, proc[p], conn[client.gen]) /\ proc[p].event = "no"
      /\ proc[p].pc \in {"look", "wait", "hello", "publish", "send", "await"}
  BY <1>1, Types, ProcFacts DEF LockInv, ReplayInv
<1>3. \A k \in Gens : p \notin conn[k].streams
  BY <1>1, <1>2 DEF WaitInv, ReplayOK
<1>4. QED
  BY <1>1, <1>2, <1>3 DEF WaitInv


\* The engine is loaded again, and was warm: warming it is next.
LEMMA ReplayWarmsInv ==
  ASSUME ClientInv, NEW p \in Procs,
         ReplayWarms(p)
  PROVE  ClientInv'
<1>1. /\ ShapeInv /\ TaskInv /\ LockInv /\ StopInv /\ ConnInv /\ FaultInv
      /\ WaitInv /\ DiedInv /\ ReplayInv
  BY DEF ClientInv
<1>2. client.gen \in Gens /\ client.gen \in Nat /\ client.lock \in Procs \cup {None}
      /\ client.current \in Gens \cup {None} /\ faults \in Nat /\ client.stop \in BOOLEAN
      /\ client.starting \in Gens \cup {None}
  BY <1>1, Types, ProcFacts DEF ShapeInv
<1>3. /\ proc[p].pc = "await" /\ proc[p].ans = "ok" /\ proc[p].req = "load"
      /\ proc[p].replay = "warm" /\ UNCHANGED <<client, conn, died, faults, since>>
  BY DEF ReplayWarms, MoreToReplay, Limits
<1>4. p \in Procs \ {Stop} /\ client.lock = p
  BY <1>1, <1>3, ProcFacts DEF TaskInv, TaskOK, ReplayWarms
<1>5. /\ p \in Procs /\ p # Stop /\ p # None /\ client.lock = p /\ proc[p].conn = client.gen
      /\ client.current \in Gens /\ client.current # client.gen /\ proc[p].event = "no"
      /\ ReplayOK(p, proc[p], conn[client.gen])
      /\ \A k \in Gens : p \notin conn[k].streams /\ p \notin conn[k].pending
  BY <1>3, <1>4, Holding
<1>6. /\ proc' \in [Procs -> Tasks] /\ \A q \in Procs \ {p} : proc'[q] = proc[q]
      /\ proc'[p].pc = "send" /\ proc'[p].op = proc[p].op /\ proc'[p].req = "warmup"
      /\ proc'[p].conn = proc[p].conn /\ proc'[p].replay = proc[p].replay /\ proc'[p].ans = "no"
      /\ proc'[p].event = proc[p].event
  BY <1>1, <1>5, Types DEF ReplayWarms, Tasks, Places, Reqs, Requests, Answers, ShapeInv
<1>7. ShapeInv'
  BY <1>1, <1>2, <1>3, <1>4, <1>5, <1>6, ProcFacts DEF ShapeInv
<1>8. TaskInv'
  BY <1>1, <1>2, <1>3, <1>4, <1>5, <1>6, ProcFacts DEF TaskInv, TaskOK
<1>9. LockInv'
  BY <1>1, <1>2, <1>3, <1>4, <1>5, <1>6, ProcFacts DEF LockInv
<1>10. StopInv'
  BY <1>1, <1>2, <1>3, <1>4, <1>5, <1>6, ProcFacts DEF StopInv
<1>11. ConnInv'
  BY <1>1, <1>2, <1>3, <1>4, <1>5, <1>6, ProcFacts DEF ConnInv, Unborn, Active
<1>12. FaultInv'
  BY <1>1, <1>2, <1>3, <1>4, <1>5, <1>6, ProcFacts DEF FaultInv
<1>13. WaitInv'
  <2>1. \A q \in Procs \ {p} :
           /\ proc'[q] = proc[q]
           /\ q \in conn'[client.gen].pending <=> q \in conn[client.gen].pending
           /\ q \in conn'[client.gen].streams <=> q \in conn[client.gen].streams
           /\ client'.lock # q => client.lock # q
    BY <1>1, <1>2, <1>3, <1>5, <1>6, ProcFacts
  <2>2. \A k \in Gens : p \in conn'[k].pending =>
           proc'[p].pc = "await" /\ proc'[p].conn = k /\ proc'[p].ans = "no"
    BY <1>1, <1>2, <1>3, <1>5, <1>6 DEF WaitInv
  <2>3. proc'[p].pc = "await" /\ proc'[p].ans = "no" => p \in conn'[proc'[p].conn].pending
    BY <1>1, <1>2, <1>3, <1>5, <1>6 DEF WaitInv
  <2>4. \A k \in Gens : p \in conn'[k].streams =>
           /\ proc'[p].pc \in {"await", "open", "finishing"} /\ proc'[p].conn = k
           /\ proc'[p].event = "no" /\ proc'[p].op = "stream"
    BY <1>1, <1>2, <1>3, <1>5, <1>6 DEF WaitInv
  <2>5. p \in Callers /\ proc'[p].event = "no"
        /\ (\/ proc'[p].pc \in {"open", "finishing"}
            \/ /\ proc'[p].pc = "await" /\ client'.lock # p /\ proc'[p].op = "stream"
               /\ proc'[p].ans \in {"no", "ok"})
           => p \in conn'[proc'[p].conn].streams
    BY <1>1, <1>2, <1>3, <1>5, <1>6 DEF WaitInv
  <2>6. conn' \in [Gens -> Conns]
    BY <1>1, <1>2, <1>3, <1>5, <1>6 DEF ShapeInv
  <2>7. QED
    BY <1>1, <1>2, <1>3, <2>6, <2>1, <2>2, <2>3, <2>4, <2>5, WaitMoves
<1>14. DiedInv'
  BY <1>1, <1>2, <1>3, <1>4, <1>5, <1>6, ProcFacts DEF DiedInv, Orphaned
<1>15. ReplayInv'
  BY <1>2, <1>3, <1>5, <1>6 DEF ReplayInv, ReplayOK, Replaying, Quiet, Before, After
<1>16. QED
  BY <1>7, <1>8, <1>9, <1>10, <1>11, <1>12, <1>13, <1>14, <1>15 DEF ClientInv


\* The new helper died in the replay: it is closed, and another is tried.
LEMMA AgainInv ==
  ASSUME ClientInv, NEW p \in Procs,
         Publish(p), proc[p].ans = "dead"
  PROVE  ClientInv'
<1>1. /\ ShapeInv /\ TaskInv /\ LockInv /\ StopInv /\ ConnInv /\ FaultInv
      /\ WaitInv /\ DiedInv /\ ReplayInv
  BY DEF ClientInv
<1>2. client.gen \in Gens /\ client.gen \in Nat /\ client.lock \in Procs \cup {None}
      /\ client.current \in Gens \cup {None} /\ faults \in Nat /\ client.stop \in BOOLEAN
      /\ client.starting \in Gens \cup {None}
  BY <1>1, Types, ProcFacts DEF ShapeInv
<1>3. /\ proc[p].pc \in {"publish", "await"} /\ p \in Procs \ {Stop} /\ client.lock = p
      /\ proc[p].ans = "no" => proc[p].pc = "publish"
      /\ UNCHANGED <<died, faults, since>>
  BY DEF Publish, Limits
<1>4. /\ p \in Procs /\ p # Stop /\ p # None /\ client.lock = p /\ proc[p].conn = client.gen
      /\ client.current \in Gens /\ client.current # client.gen /\ proc[p].event = "no"
      /\ ReplayOK(p, proc[p], conn[client.gen])
      /\ \A k \in Gens : p \notin conn[k].streams /\ p \notin conn[k].pending
  BY <1>3, Holding
<1>5. /\ conn[client.gen].dead /\ proc[p].pc = "await"
      /\ conn[client.gen].pending = {} /\ conn[client.gen].streams = {}
  BY <1>1, <1>2, <1>3, <1>4 DEF ConnInv, ReplayOK, Replaying, TaskInv, TaskOK
<1>6. /\ proc' \in [Procs -> Tasks] /\ \A q \in Procs \ {p} : proc'[q] = proc[q]
      /\ proc'[p].pc = "look" /\ proc'[p].op = proc[p].op /\ proc'[p].req = proc[p].req
      /\ proc'[p].conn = proc[p].conn /\ proc'[p].replay = proc[p].replay
      /\ proc'[p].ans = proc[p].ans /\ proc'[p].event = proc[p].event
  BY <1>1, <1>4, Types DEF Publish, Tasks, Places, ShapeInv
<1>7. /\ conn' \in [Gens -> Conns] /\ \A k \in Gens \ {client.gen} : conn'[k] = conn[k]
      /\ conn'[client.gen].dead /\ conn'[client.gen].child = "killed"
      /\ conn'[client.gen].up = conn[client.gen].up
      /\ conn'[client.gen].pending = {} /\ conn'[client.gen].streams = {}
      /\ conn'[client.gen].asked \subseteq conn[client.gen].asked
  <2>1. conn' = Close(conn, client.gen)
    BY <1>4 DEF Publish
  <2>2. QED
    BY <1>1, <1>2, <2>1, CloseFacts
<1>8. /\ client' \in Clients /\ client'.current = client.current /\ client'.starting = None
      /\ client'.attempts = client.attempts /\ client'.failed = client.failed
      /\ client'.gen = client.gen /\ client'.wanted = client.wanted
      /\ client'.stop = client.stop /\ client'.lock = client.lock
  BY <1>1, <1>4 DEF Publish, ShapeInv, Clients, Links
<1>9. None <= client.gen
  BY <1>2, ProcFacts DEF None
<1>10. ShapeInv'
  BY <1>1, <1>2, <1>3, <1>4, <1>5, <1>6, <1>7, <1>8, <1>9, ProcFacts DEF ShapeInv
<1>11. TaskInv'
  BY <1>1, <1>2, <1>3, <1>4, <1>5, <1>6, <1>7, <1>8, <1>9, ProcFacts DEF TaskInv, TaskOK
<1>12. LockInv'
  BY <1>1, <1>2, <1>3, <1>4, <1>5, <1>6, <1>7, <1>8, <1>9, ProcFacts DEF LockInv
<1>13. StopInv'
  BY <1>1, <1>2, <1>3, <1>4, <1>5, <1>6, <1>7, <1>8, <1>9, ProcFacts DEF StopInv
<1>14. ConnInv'
  BY <1>1, <1>2, <1>3, <1>4, <1>5, <1>6, <1>7, <1>8, <1>9, ProcFacts DEF ConnInv, Unborn, Active
<1>15. FaultInv'
  BY <1>1, <1>2, <1>3, <1>4, <1>5, <1>6, <1>7, <1>8, <1>9, ProcFacts DEF FaultInv
<1>16. WaitInv'
  <2>1. \A q \in Procs \ {p} :
           /\ proc'[q] = proc[q]
           /\ q \in conn'[client.gen].pending <=> q \in conn[client.gen].pending
           /\ q \in conn'[client.gen].streams <=> q \in conn[client.gen].streams
           /\ client'.lock # q => client.lock # q
    BY <1>1, <1>2, <1>3, <1>4, <1>5, <1>6, <1>7, <1>8, ProcFacts
  <2>2. \A k \in Gens : p \in conn'[k].pending =>
           proc'[p].pc = "await" /\ proc'[p].conn = k /\ proc'[p].ans = "no"
    BY <1>1, <1>2, <1>3, <1>4, <1>5, <1>6, <1>7, <1>8 DEF WaitInv
  <2>3. proc'[p].pc = "await" /\ proc'[p].ans = "no" => p \in conn'[proc'[p].conn].pending
    BY <1>1, <1>2, <1>3, <1>4, <1>5, <1>6, <1>7, <1>8 DEF WaitInv
  <2>4. \A k \in Gens : p \in conn'[k].streams =>
           /\ proc'[p].pc \in {"await", "open", "finishing"} /\ proc'[p].conn = k
           /\ proc'[p].event = "no" /\ proc'[p].op = "stream"
    BY <1>1, <1>2, <1>3, <1>4, <1>5, <1>6, <1>7, <1>8 DEF WaitInv
  <2>5. p \in Callers /\ proc'[p].event = "no"
        /\ (\/ proc'[p].pc \in {"open", "finishing"}
            \/ /\ proc'[p].pc = "await" /\ client'.lock # p /\ proc'[p].op = "stream"
               /\ proc'[p].ans \in {"no", "ok"})
           => p \in conn'[proc'[p].conn].streams
    BY <1>1, <1>2, <1>3, <1>4, <1>5, <1>6, <1>7, <1>8 DEF WaitInv
  <2>6. conn' \in [Gens -> Conns]
    BY <1>1, <1>2, <1>3, <1>4, <1>5, <1>6, <1>7, <1>8 DEF ShapeInv
  <2>7. QED
    BY <1>1, <1>2, <1>7, <2>6, <2>1, <2>2, <2>3, <2>4, <2>5, WaitMoves
<1>17. DiedInv'
  BY <1>1, <1>2, <1>3, <1>4, <1>5, <1>6, <1>7, <1>8, <1>9, ProcFacts DEF DiedInv, Orphaned
<1>18. ReplayInv'
  BY <1>4, <1>6, <1>8 DEF ReplayInv, ReplayOK
<1>19. QED
  BY <1>10, <1>11, <1>12, <1>13, <1>14, <1>15, <1>16, <1>17, <1>18 DEF ClientInv


\* The new helper is published, and is its caller's to use.
LEMMA PublishedInv ==
  ASSUME ClientInv, NEW p \in Procs,
         NEW w \in Engine,
         Publish(p), proc[p].ans # "dead", client.failed = "no",
         Published(p, w)
  PROVE  ClientInv'
<1>1. /\ ShapeInv /\ TaskInv /\ LockInv /\ StopInv /\ ConnInv /\ FaultInv
      /\ WaitInv /\ DiedInv /\ ReplayInv
  BY DEF ClientInv
<1> DEFINE op == proc[p].op
           r == IF op = "stream" THEN "open" ELSE op
<1>2. client.gen \in Gens /\ client.gen \in Nat /\ client.lock \in Procs \cup {None}
      /\ client.current \in Gens \cup {None} /\ faults \in Nat /\ client.stop \in BOOLEAN
      /\ client.starting \in Gens \cup {None}
  BY <1>1, Types, ProcFacts DEF ShapeInv
<1>3. /\ proc[p].pc \in {"publish", "await"} /\ p \in Procs \ {Stop} /\ client.lock = p
      /\ proc[p].ans = "no" => proc[p].pc = "publish"
      /\ UNCHANGED <<died, faults, since>>
  BY DEF Publish, Limits
<1>4. /\ p \in Procs /\ p # Stop /\ p # None /\ client.lock = p /\ proc[p].conn = client.gen
      /\ client.current \in Gens /\ client.current # client.gen /\ proc[p].event = "no"
      /\ ReplayOK(p, proc[p], conn[client.gen])
      /\ \A k \in Gens : p \notin conn[k].streams /\ p \notin conn[k].pending
  BY <1>3, Holding
<1>5. /\ conn[client.gen].up /\ client.stop = FALSE
      /\ p \in Callers => op \in AllOps
      /\ UNCHANGED conn
  <2>1. conn[client.gen].up
    BY <1>3, <1>4 DEF ReplayOK
  <2>2. client.stop = FALSE
    BY <1>1, <1>2 DEF StopInv
  <2>3. p \in Callers => op \in AllOps
    BY <1>1, <1>3, <1>4, Types DEF TaskInv, TaskOK, Tasks, Ops
  <2>4. QED
    BY <2>1, <2>2, <2>3 DEF Published
<1>6. p \in Callers => /\ r \in Requests /\ r \notin {"none", "shutdown"} /\ op # "none"
                       /\ r = "open" => op = "stream"
                       /\ op = "stream" => r = "open"
  BY <1>5 DEF AllOps, Requests
<1>7. /\ proc' \in [Procs -> Tasks] /\ \A q \in Procs \ {p} : proc'[q] = proc[q]
      /\ proc'[p].pc = IF p \in Callers THEN "send" ELSE "done"
      /\ proc'[p].conn = IF p \in Callers THEN client.gen ELSE None
      /\ proc'[p].op = IF p \in Callers THEN op ELSE "none"
      /\ proc'[p].req = IF p \in Callers THEN r ELSE "none"
      /\ proc'[p].ans = "no" /\ proc'[p].event = "no"
  <2> DEFINE t == [proc[p] EXCEPT !.ans = "no", !.req = r]
             u == [t EXCEPT !.pc = "send", !.conn = client.gen]
  <2>1. proc' = Got([proc EXCEPT ![p] = t], p, client.gen)
    BY <1>4 DEF Published
  <2>2. r \in Reqs
    BY <1>1, <1>4, <1>6, Types DEF Reqs, Tasks, Ops, AllOps, Requests
  <2> HIDE DEF r
  <2>3. t \in Tasks /\ t.op = op /\ t.req = r /\ t.ans = "no" /\ t.event = "no"
    BY <1>1, <1>4, <2>2, Types DEF Tasks, Answers
  <2> HIDE DEF t
  <2>4. /\ u \in Tasks /\ u.pc = "send" /\ u.conn = client.gen /\ u.op = op /\ u.req = r
        /\ u.ans = "no" /\ u.event = "no"
    BY <1>2, <2>3 DEF Tasks, Places, Links
  <2>5. CASE p \in Callers
    <3>1. proc' = [proc EXCEPT ![p] = u]
      BY <1>1, <2>1, <2>5 DEF Got, ShapeInv
    <3> HIDE DEF u
    <3>2. QED
      BY <1>1, <1>4, <2>4, <2>5, <3>1 DEF ShapeInv
  <2>6. CASE p \notin Callers
    <3> DEFINE ps == [proc EXCEPT ![p] = t]
    <3>1. ps \in [Procs -> Tasks] /\ \A q \in Procs \ {p} : ps[q] = proc[q]
      BY <1>1, <2>3 DEF ShapeInv
    <3>2. proc' = Returns(ps, p)
      BY <2>1, <2>6 DEF Got
    <3> HIDE DEF ps
    <3>3. QED
      BY <1>4, <2>6, <3>1, <3>2, ReturnsFacts
  <2>7. QED
    BY <2>5, <2>6
<1> HIDE DEF op, r
<1>8. /\ client' \in Clients /\ client'.current = client.gen /\ client'.starting = None
      /\ client'.attempts = client.attempts /\ client'.failed = client.failed
      /\ client'.gen = client.gen /\ client'.wanted = w /\ client'.stop = client.stop
      /\ client'.lock = None
  BY <1>1, <1>2, <1>4 DEF Published, ShapeInv, Clients, Links, Holders
<1>9. None <= client.gen
  BY <1>2, ProcFacts DEF None
<1>10. ShapeInv'
  BY <1>1, <1>2, <1>3, <1>4, <1>5, <1>6, <1>7, <1>8, <1>9, ProcFacts DEF ShapeInv
<1>11. TaskInv'
  BY <1>1, <1>2, <1>3, <1>4, <1>5, <1>6, <1>7, <1>8, <1>9, ProcFacts DEF TaskInv, TaskOK
<1>12. LockInv'
  BY <1>1, <1>2, <1>3, <1>4, <1>5, <1>6, <1>7, <1>8, <1>9, ProcFacts DEF LockInv
<1>13. StopInv'
  BY <1>1, <1>2, <1>3, <1>4, <1>5, <1>6, <1>7, <1>8, <1>9, ProcFacts DEF StopInv
<1>14. ConnInv'
  BY <1>1, <1>2, <1>3, <1>4, <1>5, <1>6, <1>7, <1>8, <1>9, ProcFacts DEF ConnInv, Unborn, Active
<1>15. FaultInv'
  BY <1>1, <1>3, <1>5, <1>8 DEF FaultInv
<1>16. WaitInv'
  <2>1. \A q \in Procs \ {p} :
           /\ proc'[q] = proc[q]
           /\ q \in conn'[client.gen].pending <=> q \in conn[client.gen].pending
           /\ q \in conn'[client.gen].streams <=> q \in conn[client.gen].streams
           /\ client'.lock # q => client.lock # q
    BY <1>1, <1>2, <1>3, <1>4, <1>5, <1>7, <1>8, ProcFacts
  <2>2. \A k \in Gens : p \in conn'[k].pending =>
           proc'[p].pc = "await" /\ proc'[p].conn = k /\ proc'[p].ans = "no"
    BY <1>1, <1>2, <1>3, <1>4, <1>5, <1>7, <1>8 DEF WaitInv
  <2>3. proc'[p].pc = "await" /\ proc'[p].ans = "no" => p \in conn'[proc'[p].conn].pending
    BY <1>1, <1>2, <1>3, <1>4, <1>5, <1>7, <1>8 DEF WaitInv
  <2>4. \A k \in Gens : p \in conn'[k].streams =>
           /\ proc'[p].pc \in {"await", "open", "finishing"} /\ proc'[p].conn = k
           /\ proc'[p].event = "no" /\ proc'[p].op = "stream"
    BY <1>1, <1>2, <1>3, <1>4, <1>5, <1>7, <1>8 DEF WaitInv
  <2>5. p \in Callers /\ proc'[p].event = "no"
        /\ (\/ proc'[p].pc \in {"open", "finishing"}
            \/ /\ proc'[p].pc = "await" /\ client'.lock # p /\ proc'[p].op = "stream"
               /\ proc'[p].ans \in {"no", "ok"})
           => p \in conn'[proc'[p].conn].streams
    BY <1>1, <1>2, <1>3, <1>4, <1>5, <1>7, <1>8 DEF WaitInv
  <2>6. conn' \in [Gens -> Conns]
    BY <1>1, <1>2, <1>3, <1>4, <1>5, <1>7, <1>8 DEF ShapeInv
  <2>7. QED
    BY <1>1, <1>2, <1>5, <2>6, <2>1, <2>2, <2>3, <2>4, <2>5, WaitMoves
<1>17. DiedInv'
  BY <1>1, <1>2, <1>3, <1>4, <1>5, <1>6, <1>7, <1>8, <1>9, ProcFacts DEF DiedInv, Orphaned
<1>18. ReplayInv'
  BY <1>8 DEF ReplayInv
<1>19. QED
  BY <1>10, <1>11, <1>12, <1>13, <1>14, <1>15, <1>16, <1>17, <1>18 DEF ClientInv


\* The replay is over, one way or another.
LEMMA PublishInv ==
  ASSUME ClientInv, NEW p \in Procs, Publish(p)
  PROVE  ClientInv'
<1>1. /\ proc[p].pc \in {"publish", "await"} /\ p \in Procs \ {Stop} /\ client.lock = p
      /\ UNCHANGED <<died, faults, since>>
  BY DEF Publish, Limits
<1>2. CASE proc[p].ans = "dead"
  BY <1>2, AgainInv
<1>3. CASE proc[p].ans # "dead" /\ client.failed # "no"
  BY <1>1, <1>3, Holding, GivenUpInv DEF Publish
<1>4. CASE proc[p].ans # "dead" /\ client.failed = "no"
  <2> DEFINE w == IF proc[p].ans = "refused" THEN "none" ELSE client.wanted
  <2>1. w \in Engine
    BY Types DEF ClientInv, Engine
  <2>2. Published(p, w)
    BY <1>4 DEF Publish
  <2> HIDE DEF w
  <2>3. QED
    BY <1>4, <2>1, <2>2, PublishedInv
<1>5. QED
  BY <1>2, <1>3, <1>4

\* until_stopped: a shutdown ends the replay.
LEMMA ReplayStoppedInv ==
  ASSUME ClientInv, NEW p \in Procs, ReplayStopped(p)
  PROVE  ClientInv'
BY GivenUpInv DEF ReplayStopped, Limits

\* A generation that has a helper is one the client has started.
LEMMA Started ==
  ASSUME ClientInv, NEW g \in Gens, conn[g].child # "none"
  PROVE  g <= client.gen
<1>1. ShapeInv /\ ConnInv
  BY DEF ClientInv
<1>2. g \in Nat /\ client.gen \in Nat
  BY <1>1, Types, ProcFacts
<1>3. QED
  BY <1>1, <1>2 DEF ConnInv, Unborn

\* A request's deadline fails the connection.
LEMMA TimedOutInv ==
  ASSUME ClientInv, NEW p \in Procs, TimedOut(p)
  PROVE  ClientInv'
<1>1. proc[p].pc = "await" /\ conn[proc[p].conn].child = "hung"
  BY DEF TimedOut
<1>2. proc[p].conn \in Gens /\ faults \in 0 .. MaxFaults
  BY <1>1, Types DEF ClientInv, ShapeInv, TaskInv, TaskOK, Tasks, Links
<1>3. /\ proc[p].conn <= client.gen /\ UNCHANGED <<client, since, faults>> /\ faults <= faults
      /\ conn' = Fail(conn, proc[p].conn) /\ proc' = Told(proc, proc[p].conn)
      /\ died' = Orphaned(proc[p].conn)
  BY <1>1, <1>2, Started, ProcFacts DEF TimedOut, Limits
<1>4. QED
  BY <1>1, <1>2, <1>3, FailInv

\* So does the deadline that finish sets.
LEMMA FinishDeadlineInv ==
  ASSUME ClientInv, NEW c \in Callers, FinishDeadline(c)
  PROVE  ClientInv'
<1>1. proc[c].pc = "finishing" /\ conn[proc[c].conn].child = "hung"
  BY DEF FinishDeadline
<1>2. proc[c].conn \in Gens /\ faults \in 0 .. MaxFaults
  BY <1>1, Types, ProcFacts DEF ClientInv, ShapeInv, TaskInv, TaskOK, Tasks, Links
<1>3. /\ proc[c].conn <= client.gen /\ UNCHANGED <<client, since, faults>> /\ faults <= faults
      /\ conn' = Fail(conn, proc[c].conn) /\ proc' = Told(proc, proc[c].conn)
      /\ died' = Orphaned(proc[c].conn)
  BY <1>1, <1>2, Started, ProcFacts DEF FinishDeadline, Limits
<1>4. QED
  BY <1>1, <1>2, <1>3, FailInv

\* So does whoever watches the helper: its reader, its reaper, its heartbeat.
LEMMA WatchedInv ==
  ASSUME ClientInv, NEW g \in Gens, Detect(g) \/ Garbled(g) \/ Heartbeat(g)
  PROVE  ClientInv'
<1>1. faults \in 0 .. MaxFaults /\ MaxFaults \in Nat
  BY ProcFacts DEF ClientInv, ShapeInv
<1>2. CASE Detect(g) \/ Heartbeat(g)
  <2>1. /\ UNCHANGED <<client, since, faults>> /\ conn' = Fail(conn, g) /\ proc' = Told(proc, g)
        /\ died' = Orphaned(g) /\ conn[g].child \in {"exited", "hung"}
    BY <1>2 DEF Detect, Heartbeat, Limits
  <2>2. g <= client.gen /\ faults <= faults
    BY <1>1, <2>1, Started
  <2>3. QED
    BY <1>1, <2>1, <2>2, FailInv
<1>3. CASE Garbled(g)
  <2>1. /\ UNCHANGED <<client, since>> /\ conn' = Fail(conn, g) /\ proc' = Told(proc, g)
        /\ died' = Orphaned(g) /\ conn[g].child = "running"
        /\ faults < MaxFaults /\ faults' = faults + 1
    BY <1>3 DEF Garbled
  <2>2. g <= client.gen /\ faults <= faults' /\ faults' \in 0 .. MaxFaults
    BY <1>1, <2>1, Started
  <2>3. QED
    BY <2>1, <2>2, FailInv
<1>4. QED
  BY <1>2, <1>3


\* A caller has its answer, and a stream it did not get is forgotten.
LEMMA AnsweredInv ==
  ASSUME ClientInv, NEW c \in Callers,
         Answered(c)
  PROVE  ClientInv'
<1>1. /\ ShapeInv /\ TaskInv /\ LockInv /\ StopInv /\ ConnInv /\ FaultInv
      /\ WaitInv /\ DiedInv /\ ReplayInv
  BY DEF ClientInv
<1> DEFINE g == proc[c].conn
<1>2. client.gen \in Gens /\ client.gen \in Nat /\ client.lock \in Procs \cup {None}
      /\ client.current \in Gens \cup {None} /\ faults \in Nat /\ client.stop \in BOOLEAN
      /\ client.starting \in Gens \cup {None}
  BY <1>1, Types, ProcFacts DEF ShapeInv
<1>3. /\ proc[c].pc = "await" /\ proc[c].ans # "no" /\ client.lock # c
      /\ UNCHANGED <<died, faults, since>>
  BY DEF Answered, Limits
<1>4. /\ c \in Procs /\ c # Stop /\ c # None /\ client.lock # c /\ g \in Gens
      /\ c \notin conn[g].pending
      /\ client.lock \notin {None, Stop} => g # client.gen
  BY <1>1, <1>3, Types, ProcFacts DEF TaskInv, TaskOK, Tasks, Links, WaitInv, LockInv
<1>5. /\ c \in conn[g].streams => proc[c].op = "stream"
      /\ \A k \in Gens \ {g} : c \notin conn[k].streams /\ c \notin conn[k].pending
      /\ proc[c].ans = "ok" /\ proc[c].op = "stream" /\ proc[c].event = "no" => c \in conn[g].streams
  BY <1>1, <1>3, <1>4 DEF WaitInv
<1>6. /\ client' \in Clients /\ client'.current = client.current
      /\ client'.starting = client.starting /\ client'.attempts = client.attempts
      /\ client'.failed = client.failed /\ client'.gen = client.gen
      /\ client'.stop = client.stop /\ client'.lock = client.lock
  <2> DEFINE w == CASE ~(proc[c].ans = "ok")                            -> client.wanted
                   [] proc[c].op = "load" /\ client.wanted = "none"     -> "cold"
                   [] proc[c].op = "warmup" /\ client.wanted # "none"   -> "warm"
                   [] proc[c].op = "unload"                             -> "none"
                   [] OTHER                                             -> client.wanted
  <2>1. w \in Engine
    BY <1>1, Types DEF Engine
  <2>2. client' = [client EXCEPT !.wanted = w]
    BY DEF Answered
  <2> HIDE DEF w
  <2>3. QED
    BY <1>1, <2>1, <2>2 DEF ShapeInv, Clients
<1>7. /\ conn' \in [Gens -> Conns] /\ \A k \in Gens \ {g} : conn'[k] = conn[k]
      /\ conn'[g].up = conn[g].up /\ conn'[g].dead = conn[g].dead
      /\ conn'[g].closing = conn[g].closing /\ conn'[g].child = conn[g].child
      /\ conn'[g].loaded = conn[g].loaded /\ conn'[g].asked = conn[g].asked
      /\ conn'[g].out = conn[g].out /\ conn'[g].pending = conn[g].pending
      /\ conn'[g].streams = IF proc[c].ans = "ok" THEN conn[g].streams ELSE conn[g].streams \ {c}
  <2>1. conn' = IF proc[c].ans = "ok" THEN conn ELSE [conn EXCEPT ![g].streams = @ \ {c}]
    BY DEF Answered
  <2>2. QED
    BY <1>1, <1>4, <2>1, Types DEF Conns, ShapeInv
<1>8. /\ proc' \in [Procs -> Tasks] /\ \A q \in Procs \ {c} : proc'[q] = proc[q]
      /\ IF proc[c].ans = "ok" /\ proc[c].op = "stream"
         THEN /\ proc'[c].pc = "open" /\ proc'[c].conn = g /\ proc'[c].op = proc[c].op
              /\ proc'[c].req = proc[c].req /\ proc'[c].ans = proc[c].ans
              /\ proc'[c].event = proc[c].event
         ELSE /\ proc'[c].pc = "done" /\ proc'[c].conn = None /\ proc'[c].op = "none"
              /\ proc'[c].req = "none" /\ proc'[c].ans = "no" /\ proc'[c].event = "no"
  <2>1. CASE proc[c].ans = "ok" /\ proc[c].op = "stream"
    BY <1>1, <1>4, <2>1, Types DEF Answered, Tasks, Places, ShapeInv
  <2>2. CASE ~(proc[c].ans = "ok" /\ proc[c].op = "stream")
    BY <1>1, <1>4, <2>2, ReturnsFacts DEF Answered, ShapeInv
  <2>3. QED
    BY <2>1, <2>2
<1> HIDE DEF g
<1>9. None <= client.gen
  BY <1>2, ProcFacts DEF None
<1>10. ShapeInv'
  BY <1>1, <1>2, <1>3, <1>4, <1>5, <1>6, <1>7, <1>8, <1>9, ProcFacts DEF ShapeInv
<1>11. TaskInv'
  BY <1>1, <1>2, <1>3, <1>4, <1>6, <1>8, <1>9, ProcFacts DEF TaskInv, TaskOK, g
<1>12. LockInv'
  BY <1>1, <1>2, <1>3, <1>4, <1>5, <1>6, <1>7, <1>8, <1>9, ProcFacts DEF LockInv
<1>13. StopInv'
  BY <1>1, <1>2, <1>3, <1>4, <1>5, <1>6, <1>7, <1>8, <1>9, ProcFacts DEF StopInv
<1>14. ConnInv'
  BY <1>1, <1>2, <1>3, <1>4, <1>5, <1>6, <1>7, <1>8, <1>9, ProcFacts DEF ConnInv, Unborn, Active
<1>15. FaultInv'
  BY <1>1, <1>2, <1>3, <1>4, <1>5, <1>6, <1>7, <1>8, <1>9, ProcFacts DEF FaultInv
<1>16. WaitInv'
  <2>1. \A q \in Procs \ {c} :
           /\ proc'[q] = proc[q]
           /\ q \in conn'[g].pending <=> q \in conn[g].pending
           /\ q \in conn'[g].streams <=> q \in conn[g].streams
           /\ client'.lock # q => client.lock # q
    BY <1>1, <1>2, <1>3, <1>4, <1>5, <1>6, <1>7, <1>8, ProcFacts
  <2>2. \A k \in Gens : c \in conn'[k].pending =>
           proc'[c].pc = "await" /\ proc'[c].conn = k /\ proc'[c].ans = "no"
    BY <1>1, <1>2, <1>3, <1>4, <1>5, <1>6, <1>7, <1>8 DEF WaitInv
  <2>3. proc'[c].pc = "await" /\ proc'[c].ans = "no" => c \in conn'[proc'[c].conn].pending
    BY <1>1, <1>2, <1>3, <1>4, <1>5, <1>6, <1>7, <1>8 DEF WaitInv
  <2>4. \A k \in Gens : c \in conn'[k].streams =>
           /\ proc'[c].pc \in {"await", "open", "finishing"} /\ proc'[c].conn = k
           /\ proc'[c].event = "no" /\ proc'[c].op = "stream"
    BY <1>1, <1>2, <1>3, <1>4, <1>5, <1>6, <1>7, <1>8 DEF WaitInv
  <2>5. c \in Callers /\ proc'[c].event = "no"
        /\ (\/ proc'[c].pc \in {"open", "finishing"}
            \/ /\ proc'[c].pc = "await" /\ client'.lock # c /\ proc'[c].op = "stream"
               /\ proc'[c].ans \in {"no", "ok"})
           => c \in conn'[proc'[c].conn].streams
    BY <1>1, <1>2, <1>3, <1>4, <1>5, <1>6, <1>7, <1>8 DEF WaitInv
  <2>6. conn' \in [Gens -> Conns]
    BY <1>1, <1>2, <1>3, <1>4, <1>5, <1>6, <1>7, <1>8 DEF ShapeInv
  <2>7. QED
    BY <1>1, <1>4, <1>7, <2>6, <2>1, <2>2, <2>3, <2>4, <2>5, WaitMoves
<1>17. DiedInv'
  BY <1>1, <1>2, <1>3, <1>4, <1>5, <1>6, <1>7, <1>8, <1>9, ProcFacts DEF DiedInv, Orphaned
<1>18. ReplayInv'
  BY <1>1, <1>2, <1>3, <1>4, <1>6, <1>7, <1>8 DEF ReplayInv, LockInv
<1>19. QED
  BY <1>10, <1>11, <1>12, <1>13, <1>14, <1>15, <1>16, <1>17, <1>18 DEF ClientInv


\* A stream that is open is asked to end.
LEMMA FinishInv ==
  ASSUME ClientInv, NEW c \in Callers,
         Finish(c)
  PROVE  ClientInv'
<1>1. /\ ShapeInv /\ TaskInv /\ LockInv /\ StopInv /\ ConnInv /\ FaultInv
      /\ WaitInv /\ DiedInv /\ ReplayInv
  BY DEF ClientInv
<1> DEFINE g == proc[c].conn
<1>2. client.gen \in Gens /\ client.gen \in Nat /\ client.lock \in Procs \cup {None}
      /\ client.current \in Gens \cup {None} /\ faults \in Nat /\ client.stop \in BOOLEAN
      /\ client.starting \in Gens \cup {None}
  BY <1>1, Types, ProcFacts DEF ShapeInv
<1>3. /\ proc[c].pc = "open" /\ c \in conn[g].streams
      /\ UNCHANGED <<client, died, faults, since>>
  BY DEF Finish, Limits
<1>4. /\ c \in Procs /\ c # Stop /\ c # None /\ client.lock # c /\ g \in Gens
      /\ c \notin conn[g].pending
      /\ client.lock \notin {None, Stop} => g # client.gen
  BY <1>1, <1>3, Types, ProcFacts DEF TaskInv, TaskOK, Tasks, Links, WaitInv, LockInv
<1>5. /\ proc[c].op = "stream" /\ proc[c].event = "no"
      /\ \A k \in Gens \ {g} : c \notin conn[k].streams /\ c \notin conn[k].pending
  BY <1>1, <1>3, <1>4 DEF WaitInv
<1>6. /\ conn' \in [Gens -> Conns] /\ \A k \in Gens \ {g} : conn'[k] = conn[k]
      /\ conn'[g].up = conn[g].up /\ conn'[g].dead = conn[g].dead
      /\ conn'[g].closing = conn[g].closing /\ conn'[g].child = conn[g].child
      /\ conn'[g].loaded = conn[g].loaded
      /\ conn'[g].asked = conn[g].asked \cup {<<c, "finish">>} /\ conn'[g].out = conn[g].out
      /\ conn'[g].pending = conn[g].pending /\ conn'[g].streams = conn[g].streams
  <2> DEFINE a == conn[g].asked \cup {<<c, "finish">>}
  <2>1. conn' = [conn EXCEPT ![g].asked = a]
    BY DEF Finish
  <2>2. a \in Questions
    BY <1>1, <1>4, Types DEF Conns, Questions, Requests
  <2> HIDE DEF a
  <2>3. QED
    BY <1>1, <1>4, <2>1, <2>2, Types DEF Conns, ShapeInv, a
<1>7. /\ proc' \in [Procs -> Tasks] /\ \A q \in Procs \ {c} : proc'[q] = proc[q]
      /\ proc'[c].pc = "finishing" /\ proc'[c].op = proc[c].op /\ proc'[c].req = proc[c].req
      /\ proc'[c].conn = proc[c].conn /\ proc'[c].replay = proc[c].replay
      /\ proc'[c].ans = proc[c].ans /\ proc'[c].event = proc[c].event
  BY <1>1, <1>4, Types DEF Finish, Tasks, Places, ShapeInv
<1> HIDE DEF g
<1>8. ShapeInv'
  BY <1>1, <1>2, <1>3, <1>4, <1>5, <1>6, <1>7, ProcFacts DEF ShapeInv
<1>9. TaskInv'
  BY <1>1, <1>2, <1>3, <1>4, <1>5, <1>6, <1>7, ProcFacts DEF TaskInv, TaskOK
<1>10. LockInv'
  BY <1>1, <1>2, <1>3, <1>4, <1>5, <1>6, <1>7, ProcFacts DEF LockInv
<1>11. StopInv'
  BY <1>1, <1>2, <1>3, <1>4, <1>5, <1>6, <1>7, ProcFacts DEF StopInv
<1>12. ConnInv'
  BY <1>1, <1>2, <1>3, <1>4, <1>6, <1>7, ProcFacts, SMTT(30) DEF ConnInv, Unborn, Active, g, TaskInv, TaskOK
<1>13. FaultInv'
  BY <1>1, <1>2, <1>3, <1>4, <1>5, <1>6, <1>7, ProcFacts DEF FaultInv
<1>14. WaitInv'
  <2>1. \A q \in Procs \ {c} :
           /\ proc'[q] = proc[q]
           /\ q \in conn'[g].pending <=> q \in conn[g].pending
           /\ q \in conn'[g].streams <=> q \in conn[g].streams
           /\ client'.lock # q => client.lock # q
    BY <1>1, <1>2, <1>3, <1>4, <1>5, <1>6, <1>7, ProcFacts
  <2>2. \A k \in Gens : c \in conn'[k].pending =>
           proc'[c].pc = "await" /\ proc'[c].conn = k /\ proc'[c].ans = "no"
    BY <1>1, <1>2, <1>3, <1>4, <1>5, <1>6, <1>7 DEF WaitInv, g
  <2>3. proc'[c].pc = "await" /\ proc'[c].ans = "no" => c \in conn'[proc'[c].conn].pending
    BY <1>1, <1>2, <1>3, <1>4, <1>5, <1>6, <1>7 DEF WaitInv, g
  <2>4. \A k \in Gens : c \in conn'[k].streams =>
           /\ proc'[c].pc \in {"await", "open", "finishing"} /\ proc'[c].conn = k
           /\ proc'[c].event = "no" /\ proc'[c].op = "stream"
    BY <1>1, <1>2, <1>3, <1>4, <1>5, <1>6, <1>7 DEF WaitInv, g
  <2>5. c \in Callers /\ proc'[c].event = "no"
        /\ (\/ proc'[c].pc \in {"open", "finishing"}
            \/ /\ proc'[c].pc = "await" /\ client'.lock # c /\ proc'[c].op = "stream"
               /\ proc'[c].ans \in {"no", "ok"})
           => c \in conn'[proc'[c].conn].streams
    BY <1>1, <1>2, <1>3, <1>4, <1>5, <1>6, <1>7 DEF WaitInv, g
  <2>6. conn' \in [Gens -> Conns]
    BY <1>1, <1>2, <1>3, <1>4, <1>5, <1>6, <1>7 DEF ShapeInv
  <2>7. QED
    BY <1>1, <1>4, <1>6, <2>6, <2>1, <2>2, <2>3, <2>4, <2>5, WaitMoves
<1>15. DiedInv'
  BY <1>1, <1>2, <1>3, <1>4, <1>5, <1>6, <1>7, ProcFacts DEF DiedInv, Orphaned
<1>16. ReplayInv'
  BY <1>1, <1>2, <1>3, <1>4, <1>6, <1>7 DEF ReplayInv, LockInv
<1>17. QED
  BY <1>8, <1>9, <1>10, <1>11, <1>12, <1>13, <1>14, <1>15, <1>16 DEF ClientInv


\* A stream is cancelled, or dropped.
LEMMA CancelInv ==
  ASSUME ClientInv, NEW c \in Callers,
         Cancel(c)
  PROVE  ClientInv'
<1>1. /\ ShapeInv /\ TaskInv /\ LockInv /\ StopInv /\ ConnInv /\ FaultInv
      /\ WaitInv /\ DiedInv /\ ReplayInv
  BY DEF ClientInv
<1> DEFINE g == proc[c].conn
<1>2. client.gen \in Gens /\ client.gen \in Nat /\ client.lock \in Procs \cup {None}
      /\ client.current \in Gens \cup {None} /\ faults \in Nat /\ client.stop \in BOOLEAN
      /\ client.starting \in Gens \cup {None}
  BY <1>1, Types, ProcFacts DEF ShapeInv
<1>3. /\ proc[c].pc \in {"open", "finishing"} /\ proc[c].event = "no"
      /\ UNCHANGED <<client, died, faults, since>>
  BY DEF Cancel, Limits
<1>4. /\ c \in Procs /\ c # Stop /\ c # None /\ client.lock # c /\ g \in Gens
      /\ c \notin conn[g].pending
      /\ client.lock \notin {None, Stop} => g # client.gen
  BY <1>1, <1>3, Types, ProcFacts DEF TaskInv, TaskOK, Tasks, Links, WaitInv, LockInv
<1>5. \A k \in Gens \ {g} : c \notin conn[k].streams /\ c \notin conn[k].pending
  BY <1>1, <1>3, <1>4 DEF WaitInv
<1>6. /\ conn' \in [Gens -> Conns] /\ \A k \in Gens \ {g} : conn'[k] = conn[k]
      /\ conn'[g].up = conn[g].up /\ conn'[g].dead = conn[g].dead
      /\ conn'[g].closing = conn[g].closing /\ conn'[g].child = conn[g].child
      /\ conn'[g].loaded = conn[g].loaded /\ conn'[g].asked = conn[g].asked
      /\ conn'[g].out = conn[g].out /\ conn'[g].pending = conn[g].pending
      /\ conn'[g].streams = conn[g].streams \ {c}
  BY <1>1, <1>4, Types DEF Cancel, Conns, ShapeInv
<1>7. /\ proc' \in [Procs -> Tasks] /\ \A q \in Procs \ {c} : proc'[q] = proc[q]
      /\ proc'[c].pc = "done" /\ proc'[c].conn = None /\ proc'[c].op = "none"
      /\ proc'[c].req = "none" /\ proc'[c].ans = "no" /\ proc'[c].event = "no"
  BY <1>1, <1>4, ReturnsFacts DEF Cancel, ShapeInv
<1> HIDE DEF g
<1>8. None <= client.gen
  BY <1>2, ProcFacts DEF None
<1>9. ShapeInv'
  BY <1>1, <1>2, <1>3, <1>4, <1>5, <1>6, <1>7, <1>8, ProcFacts DEF ShapeInv
<1>10. TaskInv'
  BY <1>1, <1>2, <1>3, <1>4, <1>5, <1>6, <1>7, <1>8, ProcFacts DEF TaskInv, TaskOK
<1>11. LockInv'
  BY <1>1, <1>2, <1>3, <1>4, <1>5, <1>6, <1>7, <1>8, ProcFacts DEF LockInv
<1>12. StopInv'
  BY <1>1, <1>2, <1>3, <1>4, <1>5, <1>6, <1>7, <1>8, ProcFacts DEF StopInv
<1>13. ConnInv'
  BY <1>1, <1>2, <1>3, <1>4, <1>5, <1>6, <1>7, <1>8, ProcFacts DEF ConnInv, Unborn, Active
<1>14. FaultInv'
  BY <1>1, <1>2, <1>3, <1>4, <1>5, <1>6, <1>7, <1>8, ProcFacts DEF FaultInv
<1>15. WaitInv'
  <2>1. \A q \in Procs \ {c} :
           /\ proc'[q] = proc[q]
           /\ q \in conn'[g].pending <=> q \in conn[g].pending
           /\ q \in conn'[g].streams <=> q \in conn[g].streams
           /\ client'.lock # q => client.lock # q
    BY <1>1, <1>2, <1>3, <1>4, <1>5, <1>6, <1>7, ProcFacts
  <2>2. \A k \in Gens : c \in conn'[k].pending =>
           proc'[c].pc = "await" /\ proc'[c].conn = k /\ proc'[c].ans = "no"
    BY <1>1, <1>2, <1>3, <1>4, <1>5, <1>6, <1>7 DEF WaitInv
  <2>3. proc'[c].pc = "await" /\ proc'[c].ans = "no" => c \in conn'[proc'[c].conn].pending
    BY <1>1, <1>2, <1>3, <1>4, <1>5, <1>6, <1>7 DEF WaitInv
  <2>4. \A k \in Gens : c \in conn'[k].streams =>
           /\ proc'[c].pc \in {"await", "open", "finishing"} /\ proc'[c].conn = k
           /\ proc'[c].event = "no" /\ proc'[c].op = "stream"
    BY <1>1, <1>2, <1>3, <1>4, <1>5, <1>6, <1>7 DEF WaitInv
  <2>5. c \in Callers /\ proc'[c].event = "no"
        /\ (\/ proc'[c].pc \in {"open", "finishing"}
            \/ /\ proc'[c].pc = "await" /\ client'.lock # c /\ proc'[c].op = "stream"
               /\ proc'[c].ans \in {"no", "ok"})
           => c \in conn'[proc'[c].conn].streams
    BY <1>1, <1>2, <1>3, <1>4, <1>5, <1>6, <1>7 DEF WaitInv
  <2>6. conn' \in [Gens -> Conns]
    BY <1>1, <1>2, <1>3, <1>4, <1>5, <1>6, <1>7 DEF ShapeInv
  <2>7. QED
    BY <1>1, <1>4, <1>6, <2>6, <2>1, <2>2, <2>3, <2>4, <2>5, WaitMoves
<1>16. DiedInv'
  BY <1>1, <1>2, <1>3, <1>4, <1>5, <1>6, <1>7, <1>8, ProcFacts DEF DiedInv, Orphaned
<1>17. ReplayInv'
  BY <1>1, <1>2, <1>3, <1>4, <1>6, <1>7 DEF ReplayInv, LockInv
<1>18. QED
  BY <1>9, <1>10, <1>11, <1>12, <1>13, <1>14, <1>15, <1>16, <1>17 DEF ClientInv

\* The helper takes a request and writes its reply.
LEMMA ServeInv ==
  ASSUME ClientInv, NEW g \in Gens, NEW p \in Procs, NEW r \in Requests, NEW reply \in Replies,
         Serve(g, p, r, reply)
  PROVE  ClientInv'
<1>1. /\ ShapeInv /\ TaskInv /\ LockInv /\ StopInv /\ ConnInv /\ FaultInv
      /\ WaitInv /\ DiedInv /\ ReplayInv
  BY DEF ClientInv
<1>2. client.gen \in Gens /\ client.gen \in Nat /\ client.lock \in Procs \cup {None}
      /\ client.current \in Gens \cup {None} /\ faults \in Nat /\ client.stop \in BOOLEAN
      /\ client.starting \in Gens \cup {None}
  BY <1>1, Types, ProcFacts DEF ShapeInv
<1>3. /\ conn[g].child = "running" /\ conn[g].up /\ <<p, r>> \in conn[g].asked
      /\ UNCHANGED <<client, proc, died, faults, since>>
  BY DEF Serve, Limits
<1>4. /\ g = client.gen /\ ~conn[g].dead
  <2>1. g <= client.gen
    BY <1>3, Started
  <2>2. g \in Nat /\ client.gen \in Nat
    BY <1>2, ProcFacts
  <2>3. QED
    BY <1>1, <1>3, <2>1, <2>2 DEF ConnInv, Active
<1>5. /\ conn' \in [Gens -> Conns] /\ \A k \in Gens \ {g} : conn'[k] = conn[k]
      /\ conn'[g].up = conn[g].up /\ conn'[g].dead = conn[g].dead
      /\ conn'[g].asked = conn[g].asked \ {<<p, r>>}
      /\ conn'[g].out = conn[g].out \cup {<<p, r, reply>>} /\ conn'[g].pending = conn[g].pending
      /\ conn'[g].streams = conn[g].streams
      /\ conn'[g].child = IF r = "shutdown" THEN "exited" ELSE conn[g].child
      /\ r = "load" /\ reply = "ok" /\ conn[g].loaded = "none" => conn'[g].loaded = "cold"
      /\ r = "warmup" /\ reply = "ok" => conn'[g].loaded = "warm"
  <2> DEFINE a == conn[g].asked \ {<<p, r>>}
             o == conn[g].out \cup {<<p, r, reply>>}
             x == IF r = "shutdown" THEN "exited" ELSE conn[g].child
             l == CASE reply = "refused"                       -> conn[g].loaded
                    [] r = "load" /\ conn[g].loaded = "none"   -> "cold"
                    [] r = "warmup"                            -> "warm"
                    [] r = "unload"                            -> "none"
                    [] OTHER                                   -> conn[g].loaded
             h == [conn[g] EXCEPT !.asked = a, !.out = o, !.child = x, !.loaded = l]
  <2>1. conn[g] \in Conns
    BY <1>1, Types
  <2>2. a \in Questions /\ o \in Letters
    BY <2>1 DEF Conns, Questions, Letters
  <2>3. x \in Children /\ l \in Engine
    BY <2>1 DEF Conns, Children, Engine
  <2>4. /\ r = "load" /\ reply = "ok" /\ conn[g].loaded = "none" => l = "cold"
        /\ r = "warmup" /\ reply = "ok" => l = "warm"
    <3>1. r = "load" /\ reply = "ok" /\ conn[g].loaded = "none" => l = "cold"
      OBVIOUS
    <3>2. r = "warmup" /\ reply = "ok" => l = "warm"
      OBVIOUS
    <3>3. QED
      BY <3>1, <3>2
  <2>5. conn' = [conn EXCEPT ![g] = h]
    BY DEF Serve
  <2> HIDE DEF a, o, x, l
  <2>6. /\ h \in Conns /\ h.up = conn[g].up /\ h.dead = conn[g].dead /\ h.child = x
        /\ h.loaded = l /\ h.asked = a /\ h.out = o
        /\ h.pending = conn[g].pending /\ h.streams = conn[g].streams
    BY <2>1, <2>2, <2>3 DEF Conns
  <2> HIDE DEF h
  <2>7. QED
    BY <1>1, <2>4, <2>5, <2>6 DEF ShapeInv, a, o, x
<1>6. r = "shutdown" => client.stop
  BY <1>1, <1>3, <1>4 DEF ConnInv
<1>7. ShapeInv'
  BY <1>1, <1>2, <1>3, <1>4, <1>5, <1>6, ProcFacts DEF ShapeInv
<1>8. TaskInv'
  BY <1>1, <1>2, <1>3, <1>4, <1>5, <1>6, ProcFacts DEF TaskInv, TaskOK
<1>9. LockInv'
  BY <1>1, <1>2, <1>3, <1>4, <1>5, <1>6, ProcFacts DEF LockInv
<1>10. StopInv'
  BY <1>1, <1>2, <1>3, <1>4, <1>5, <1>6, ProcFacts DEF StopInv
<1>11. ConnInv'
  <2>1. Active(conn[client.gen]) /\ conn'[client.gen].child # "none"
    BY <1>3, <1>4, <1>5 DEF Active
  <2>2. \A k \in Gens : conn'[k].up = conn[k].up /\ conn'[k].asked \subseteq conn[k].asked
    BY <1>5
  <2>3. \A k \in Gens :
           /\ conn'[k].dead => /\ conn'[k].child = "killed" /\ conn'[k].pending = {}
                               /\ conn'[k].streams = {}
           /\ k > client.gen => Unborn(conn'[k])
           /\ k < client.gen => ~Active(conn'[k])
    <3>1. \A k \in Gens : k \in Nat
      BY ProcFacts
    <3>2. QED
      BY <1>1, <1>2, <1>4, <1>5, <3>1 DEF ConnInv
  <2>4. \A k \in Gens : \A m \in conn'[k].asked : m[2] = "shutdown" => client.stop
    BY <1>1, <2>2 DEF ConnInv
  <2>5. /\ client.current # None => conn'[client.current].up
        /\ client.starting # None => conn'[client.starting].up
    BY <1>1, <1>2, <2>2 DEF ConnInv
  <2>6. \/ client.current = client.gen
        \/ client.current = None /\ proc[Stop].pc = "idle"
        \/ /\ client.lock # None /\ proc[client.lock].conn = client.gen
           /\ proc[client.lock].pc \in {"hello", "send", "await", "publish"}
    BY <1>1, <2>1 DEF ConnInv
  <2>7. QED
    BY <1>3, <2>1, <2>3, <2>4, <2>5, <2>6 DEF ConnInv, Unborn, Active
<1>12. FaultInv'
  BY <1>1, <1>3, <1>4, <1>5, <1>6 DEF FaultInv, StopInv
<1>13. WaitInv'
  <2>1. \A k \in Gens : conn'[k].pending = conn[k].pending /\ conn'[k].streams = conn[k].streams
    BY <1>5
  <2>2. \A q \in Procs : proc[q].pc \in {"await", "open", "finishing"} => proc[q].conn \in Gens
    BY <1>1, Types DEF TaskInv, TaskOK, Tasks, Links
  <2>3. QED
    BY <1>1, <1>3, <2>1, <2>2, ProcFacts DEF WaitInv
<1>14. DiedInv'
  BY <1>1, <1>2, <1>3, <1>4, <1>5, <1>6, ProcFacts DEF DiedInv, Orphaned
<1>15. ReplayInv'
  <2> SUFFICES ASSUME client.lock \notin {None, Stop}
               PROVE  ReplayOK(client.lock, proc[client.lock], conn'[g])
    BY <1>3, <1>4 DEF ReplayInv
  <2> DEFINE n == client.lock
             q == proc[n]
  <2>1. ReplayOK(n, q, conn[g]) /\ q.pc \in {"look", "wait", "hello", "publish", "send", "await"}
    BY <1>1, <1>4 DEF ReplayInv, LockInv
  <2> HIDE DEF n, q
  <2>2. q.pc \in {"look", "await"}
    BY <1>3, <1>4, <2>1 DEF ReplayOK, Quiet, Unborn
  <2>3. CASE q.pc = "look"
    BY <2>3 DEF ReplayOK, n, q
  <2>4. CASE q.pc = "await"
    <3>1. /\ q.ans = "no" /\ conn[g].asked = {<<n, q.req>>} /\ conn[g].out = {}
          /\ conn[g].loaded = Before(q.req) /\ q.req \in {"load", "warmup"}
      BY <1>3, <1>4, <2>1, <2>4 DEF ReplayOK, Replaying, Quiet
    <3>2. p = n /\ r = q.req
      BY <1>3, <3>1
    <3>3. conn'[g].asked = {} /\ conn'[g].out = {<<n, q.req, reply>>}
      BY <1>5, <3>1, <3>2
    <3>4. reply = "ok" => conn'[g].loaded = After(q.req)
      BY <1>5, <3>1, <3>2 DEF Before, After
    <3>5. Replaying(n, q, conn'[g])
      BY <3>1, <3>3, <3>4 DEF Replaying, Replies
    <3>6. QED
      BY <1>5, <2>1, <2>4, <3>5 DEF ReplayOK, n, q
  <2>5. QED
    BY <2>2, <2>3, <2>4
<1>16. QED
  BY <1>7, <1>8, <1>9, <1>10, <1>11, <1>12, <1>13, <1>14, <1>15 DEF ClientInv


\* The helper crashes or hangs.
LEMMA HelperFaultInv ==
  ASSUME ClientInv, NEW g \in Gens, NEW how \in {"exited", "hung"},
         HelperFault(g, how)
  PROVE  ClientInv'
<1>1. /\ ShapeInv /\ TaskInv /\ LockInv /\ StopInv /\ ConnInv /\ FaultInv
      /\ WaitInv /\ DiedInv /\ ReplayInv
  BY DEF ClientInv
<1>2. client.gen \in Gens /\ client.gen \in Nat /\ client.lock \in Procs \cup {None}
      /\ client.current \in Gens \cup {None} /\ faults \in Nat /\ client.stop \in BOOLEAN
      /\ client.starting \in Gens \cup {None}
  BY <1>1, Types, ProcFacts DEF ShapeInv
<1>3. /\ conn[g].child = "running" /\ conn[g].up /\ faults < MaxFaults /\ faults' = faults + 1
      /\ UNCHANGED <<client, proc, died, since>>
  BY DEF HelperFault
<1>4. /\ g = client.gen /\ ~conn[g].dead
  <2>1. g <= client.gen
    BY <1>3, Started
  <2>2. g \in Nat /\ client.gen \in Nat
    BY <1>2, ProcFacts
  <2>3. QED
    BY <1>1, <1>3, <2>1, <2>2 DEF ConnInv, Active
<1>5. /\ conn' \in [Gens -> Conns] /\ \A k \in Gens \ {g} : conn'[k] = conn[k]
      /\ conn'[g].up = conn[g].up /\ conn'[g].dead = conn[g].dead
      /\ conn'[g].closing = conn[g].closing /\ conn'[g].child = how
      /\ conn'[g].loaded = conn[g].loaded /\ conn'[g].asked = conn[g].asked
      /\ conn'[g].out = conn[g].out /\ conn'[g].pending = conn[g].pending
      /\ conn'[g].streams = conn[g].streams
  BY <1>1, Types DEF HelperFault, Conns, Children, ShapeInv
<1>6. ShapeInv'
  BY <1>1, <1>2, <1>3, <1>4, <1>5, ProcFacts DEF ShapeInv
<1>7. TaskInv'
  BY <1>1, <1>2, <1>3, <1>4, <1>5, ProcFacts DEF TaskInv, TaskOK
<1>8. LockInv'
  BY <1>1, <1>2, <1>3, <1>4, <1>5, ProcFacts DEF LockInv
<1>9. StopInv'
  BY <1>1, <1>2, <1>3, <1>4, <1>5, ProcFacts DEF StopInv
<1>10. ConnInv'
  <2>1. Active(conn[client.gen]) /\ conn'[client.gen].child # "none"
    BY <1>3, <1>4, <1>5 DEF Active
  <2>2. \A k \in Gens : conn'[k].up = conn[k].up /\ conn'[k].asked \subseteq conn[k].asked
    BY <1>5
  <2>3. \A k \in Gens :
           /\ conn'[k].dead => /\ conn'[k].child = "killed" /\ conn'[k].pending = {}
                               /\ conn'[k].streams = {}
           /\ k > client.gen => Unborn(conn'[k])
           /\ k < client.gen => ~Active(conn'[k])
    <3>1. \A k \in Gens : k \in Nat
      BY ProcFacts
    <3>2. QED
      BY <1>1, <1>2, <1>4, <1>5, <3>1 DEF ConnInv
  <2>4. \A k \in Gens : \A m \in conn'[k].asked : m[2] = "shutdown" => client.stop
    BY <1>1, <2>2 DEF ConnInv
  <2>5. /\ client.current # None => conn'[client.current].up
        /\ client.starting # None => conn'[client.starting].up
    BY <1>1, <1>2, <2>2 DEF ConnInv
  <2>6. \/ client.current = client.gen
        \/ client.current = None /\ proc[Stop].pc = "idle"
        \/ /\ client.lock # None /\ proc[client.lock].conn = client.gen
           /\ proc[client.lock].pc \in {"hello", "send", "await", "publish"}
    BY <1>1, <2>1 DEF ConnInv
  <2>7. QED
    BY <1>3, <2>1, <2>3, <2>4, <2>5, <2>6 DEF ConnInv, Unborn, Active
<1>11. FaultInv'
  BY <1>1, <1>2, <1>3, <1>4, <1>5, ProcFacts DEF FaultInv, ShapeInv
<1>12. WaitInv'
  <2>1. \A k \in Gens : conn'[k].pending = conn[k].pending /\ conn'[k].streams = conn[k].streams
    BY <1>5
  <2>2. \A q \in Procs : proc[q].pc \in {"await", "open", "finishing"} => proc[q].conn \in Gens
    BY <1>1, Types DEF TaskInv, TaskOK, Tasks, Links
  <2>3. QED
    BY <1>1, <1>3, <2>1, <2>2, ProcFacts DEF WaitInv
<1>13. DiedInv'
  BY <1>1, <1>2, <1>3, <1>4, <1>5, ProcFacts DEF DiedInv, Orphaned
<1>14. ReplayInv'
  <2>1. client.lock \notin {None, Stop} => proc[client.lock].pc # "wait"
    BY <1>1, <1>3, <1>4 DEF ReplayInv, ReplayOK, Unborn
  <2>2. QED
    BY <1>1, <1>3, <1>4, <1>5, <2>1 DEF ReplayInv, ReplayOK, Replaying, Quiet
<1>15. QED
  BY <1>6, <1>7, <1>8, <1>9, <1>10, <1>11, <1>12, <1>13, <1>14 DEF ClientInv


\* reset: the budget is whole again, and a client it had ended is not.
LEMMA ResetInv ==
  ASSUME ClientInv, Reset
  PROVE  ClientInv'
<1>1. /\ ShapeInv /\ TaskInv /\ LockInv /\ StopInv /\ ConnInv /\ FaultInv
      /\ WaitInv /\ DiedInv /\ ReplayInv
  BY DEF ClientInv
<1>2. client.gen \in Gens /\ client.gen \in Nat /\ client.lock \in Procs \cup {None}
      /\ client.current \in Gens \cup {None} /\ faults \in Nat /\ client.stop \in BOOLEAN
      /\ client.starting \in Gens \cup {None}
  BY <1>1, Types, ProcFacts DEF ShapeInv
<1>3. /\ client.lock = None /\ client.current # None /\ UNCHANGED <<conn, proc, died, faults>> /\ since' = 0
  BY DEF Reset
<1>4. /\ client' \in Clients /\ client'.current = client.current
      /\ client'.starting = client.starting /\ client'.attempts = 0 /\ client'.gen = client.gen
      /\ client'.wanted = client.wanted /\ client'.stop = client.stop
      /\ client'.lock = client.lock
      /\ client'.failed = IF client.failed = "helperFailed" THEN "no" ELSE client.failed
  <2> DEFINE f == IF client.failed = "helperFailed" THEN "no" ELSE client.failed
  <2>1. f \in Failures /\ 0 \in Counts
    BY <1>1, Types, ProcFacts DEF Failures, Counts
  <2>2. client' = [client EXCEPT !.attempts = 0, !.failed = f]
    BY DEF Reset
  <2> HIDE DEF f
  <2>3. QED
    BY <1>1, <2>1, <2>2 DEF ShapeInv, Clients, f
<1>5. ShapeInv'
  BY <1>1, <1>2, <1>3, <1>4, ProcFacts DEF ShapeInv
<1>6. TaskInv'
  BY <1>1, <1>2, <1>3, <1>4, ProcFacts DEF TaskInv, TaskOK
<1>7. LockInv'
  BY <1>1, <1>2, <1>3, <1>4, ProcFacts DEF LockInv
<1>8. StopInv'
  BY <1>1, <1>2, <1>3, <1>4, ProcFacts DEF StopInv
<1>9. ConnInv'
  BY <1>1, <1>2, <1>3, <1>4, ProcFacts DEF ConnInv, Unborn, Active
<1>10. FaultInv'
  BY <1>1, <1>2, <1>3, <1>4, ProcFacts DEF FaultInv
<1>11. WaitInv'
  BY <1>1, <1>2, <1>3, <1>4, ProcFacts DEF WaitInv
<1>12. DiedInv'
  BY <1>1, <1>2, <1>3, <1>4, ProcFacts DEF DiedInv, Orphaned
<1>13. ReplayInv'
  BY <1>1, <1>2, <1>3, <1>4, ProcFacts DEF ReplayInv, ReplayOK, Replaying, Quiet, Before, After
<1>14. QED
  BY <1>5, <1>6, <1>7, <1>8, <1>9, <1>10, <1>11, <1>12, <1>13 DEF ClientInv

\* A reply reaches its request, if it is still waited for.
LEMMA ReplyInv ==
  ASSUME ClientInv, NEW g \in Gens, NEW p \in Procs, NEW r \in Requests, NEW reply \in Replies,
         Read(g, p, r, reply), r # "finish"
  PROVE  ClientInv'
<1>1. /\ ShapeInv /\ TaskInv /\ LockInv /\ StopInv /\ ConnInv /\ FaultInv
      /\ WaitInv /\ DiedInv /\ ReplayInv
  BY DEF ClientInv
<1>2. client.gen \in Gens /\ client.gen \in Nat /\ client.lock \in Procs \cup {None}
      /\ client.current \in Gens \cup {None} /\ faults \in Nat /\ client.stop \in BOOLEAN
      /\ client.starting \in Gens \cup {None}
  BY <1>1, Types, ProcFacts DEF ShapeInv
<1>3. /\ conn[g].up /\ <<p, r, reply>> \in conn[g].out /\ UNCHANGED <<died, faults>>
      /\ g \in Nat /\ g <= client.gen
  BY <1>1, <1>2, ProcFacts DEF Read, Limits, ConnInv, Unborn
<1>4. /\ conn' \in [Gens -> Conns] /\ \A k \in Gens \ {g} : conn'[k] = conn[k]
      /\ conn'[g].up = conn[g].up /\ conn'[g].dead = conn[g].dead
      /\ conn'[g].child = conn[g].child /\ conn'[g].loaded = conn[g].loaded
      /\ conn'[g].asked = conn[g].asked /\ conn'[g].out = conn[g].out \ {<<p, r, reply>>}
      /\ conn'[g].pending = conn[g].pending \ {p} /\ conn'[g].streams = conn[g].streams
  <2> DEFINE o == conn[g].out \ {<<p, r, reply>>}
             b == conn[g].pending \ {p}
             s == conn[g].streams
             h == [conn[g] EXCEPT !.out = o, !.pending = b, !.streams = s]
  <2>1. conn[g] \in Conns
    BY <1>1, Types
  <2>2. o \in Letters /\ b \in SUBSET Procs /\ s \in SUBSET Callers
    BY <2>1 DEF Conns, Letters
  <2>3. conn' = [conn EXCEPT ![g] = h]
    BY DEF Read
  <2> HIDE DEF o, b, s
  <2>4. /\ h \in Conns /\ h.up = conn[g].up /\ h.dead = conn[g].dead /\ h.child = conn[g].child
        /\ h.loaded = conn[g].loaded /\ h.asked = conn[g].asked /\ h.out = o
        /\ h.pending = b /\ h.streams = s
    BY <2>1, <2>2 DEF Conns
  <2> HIDE DEF h
  <2>5. QED
    BY <1>1, <2>3, <2>4 DEF ShapeInv, o, b, s
<1>5. /\ proc' \in [Procs -> Tasks] /\ \A q \in Procs \ {p} : proc'[q] = proc[q]
      /\ proc'[p].pc = proc[p].pc /\ proc'[p].op = proc[p].op /\ proc'[p].req = proc[p].req
      /\ proc'[p].conn = proc[p].conn /\ proc'[p].replay = proc[p].replay
      /\ proc'[p].ans = IF p \in conn[g].pending THEN reply ELSE proc[p].ans
      /\ proc'[p].event = proc[p].event
      /\ p \notin conn[g].pending => proc' = proc
  <2>1. proc' = IF p \in conn[g].pending THEN [proc EXCEPT ![p].ans = reply] ELSE proc
    BY DEF Read
  <2>2. reply \in Answers
    BY DEF Replies, Answers
  <2>3. QED
    BY <1>1, <2>1, <2>2, Types DEF Tasks, ShapeInv
<1>6. client' = client /\ since' = since
  BY DEF Read
<1>7. /\ p \in conn[g].pending => /\ proc[p].pc = "await" /\ proc[p].conn = g
                                    /\ proc[p].ans = "no"
      /\ \A k \in Gens \ {g} : p \in conn[k].pending => p \notin conn[g].pending
      /\ reply # "no" /\ reply # "dead"
      /\ proc[p].pc \in {"await", "open", "finishing"} => proc[p].conn \in Gens
  BY <1>1, Types DEF WaitInv, Replies, TaskInv, TaskOK, Tasks, Links
<1>8. ShapeInv'
  BY <1>1, <1>2, <1>3, <1>4, <1>5, <1>6, <1>7, ProcFacts DEF ShapeInv
<1>9. TaskInv'
  BY <1>1, <1>2, <1>3, <1>4, <1>5, <1>6, <1>7, ProcFacts DEF TaskInv, TaskOK
<1>10. LockInv'
  BY <1>1, <1>2, <1>5, <1>6 DEF LockInv
<1>11. StopInv'
  <2>1. conn'[1].up = conn[1].up /\ \A q \in Procs : proc'[q].pc = proc[q].pc
    BY <1>4, <1>5, ProcFacts
  <2>2. QED
    BY <1>1, <1>6, <2>1, ProcFacts DEF StopInv
<1>12. ConnInv'
  <2>1. \A k \in Gens :
           /\ conn'[k].up = conn[k].up /\ conn'[k].dead = conn[k].dead
           /\ conn'[k].child = conn[k].child /\ conn'[k].asked = conn[k].asked
    BY <1>4
  <2>2. \A k \in Gens :
           /\ conn'[k].dead => /\ conn'[k].child = "killed" /\ conn'[k].pending = {}
                               /\ conn'[k].streams = {}
           /\ k > client.gen => Unborn(conn'[k])
           /\ k < client.gen => ~Active(conn'[k])
           /\ \A m \in conn'[k].asked : m[2] = "shutdown" => client.stop
    <3> SUFFICES ASSUME NEW k \in Gens
                 PROVE  /\ conn'[k].dead => /\ conn'[k].child = "killed" /\ conn'[k].pending = {}
                                            /\ conn'[k].streams = {}
                        /\ k > client.gen => Unborn(conn'[k])
                        /\ k < client.gen => ~Active(conn'[k])
                        /\ \A m \in conn'[k].asked : m[2] = "shutdown" => client.stop
      OBVIOUS
    <3>1. CASE k = g
      BY <1>1, <1>2, <1>3, <1>4, <3>1 DEF ConnInv, Unborn, Active
    <3>2. CASE k # g
      BY <1>1, <1>4, <3>2 DEF ConnInv
    <3>3. QED
      BY <3>1, <3>2
  <2>3. /\ client.current # None => conn'[client.current].up
        /\ client.starting # None => conn'[client.starting].up
    BY <1>1, <1>2, <2>1 DEF ConnInv
  <2>4. /\ Active(conn'[client.gen]) = Active(conn[client.gen])
        /\ conn'[client.gen].child = conn[client.gen].child
    BY <1>2, <2>1 DEF Active
  <2>5. \A q \in Procs : proc'[q].pc = proc[q].pc /\ proc'[q].conn = proc[q].conn
    BY <1>5
  <2>6. Active(conn[client.gen]) =>
          \/ client.current = client.gen
          \/ client.current = None /\ proc'[Stop].pc = "idle"
          \/ /\ client.lock # None /\ proc'[client.lock].conn = client.gen
             /\ proc'[client.lock].pc \in {"hello", "send", "await", "publish"}
    BY <1>1, <1>2, <2>5, ProcFacts DEF ConnInv
  <2>7. conn[client.gen].child = "none" =>
          client.stop \/ (client.lock # None /\ proc'[client.lock].pc = "wait")
    BY <1>1, <1>2, <2>5, ProcFacts DEF ConnInv
  <2>8. QED
    BY <1>6, <2>2, <2>3, <2>4, <2>6, <2>7 DEF ConnInv, Unborn, Active
<1>13. FaultInv'
  BY <1>1, <1>2, <1>3, <1>4, <1>6 DEF FaultInv
<1>14. WaitInv'
  <2>1. \A q \in Procs \ {p} :
           /\ proc'[q] = proc[q]
           /\ q \in conn'[g].pending <=> q \in conn[g].pending
           /\ q \in conn'[g].streams <=> q \in conn[g].streams
           /\ client'.lock # q => client.lock # q
    BY <1>1, <1>2, <1>4, <1>5, <1>6, <1>7, ProcFacts
  <2>2. \A k \in Gens : p \in conn'[k].pending =>
           proc'[p].pc = "await" /\ proc'[p].conn = k /\ proc'[p].ans = "no"
    BY <1>1, <1>2, <1>4, <1>5, <1>6, <1>7 DEF WaitInv
  <2>3. proc'[p].pc = "await" /\ proc'[p].ans = "no" => p \in conn'[proc'[p].conn].pending
    BY <1>1, <1>2, <1>4, <1>5, <1>6, <1>7 DEF WaitInv
  <2>4. \A k \in Gens : p \in conn'[k].streams =>
           /\ proc'[p].pc \in {"await", "open", "finishing"} /\ proc'[p].conn = k
           /\ proc'[p].event = "no" /\ proc'[p].op = "stream"
    BY <1>1, <1>2, <1>4, <1>5, <1>6, <1>7 DEF WaitInv
  <2>5. p \in Callers /\ proc'[p].event = "no"
        /\ (\/ proc'[p].pc \in {"open", "finishing"}
            \/ /\ proc'[p].pc = "await" /\ client'.lock # p /\ proc'[p].op = "stream"
               /\ proc'[p].ans \in {"no", "ok"})
           => p \in conn'[proc'[p].conn].streams
    <3> SUFFICES ASSUME p \in Callers, proc'[p].event = "no",
                        \/ proc'[p].pc \in {"open", "finishing"}
                        \/ /\ proc'[p].pc = "await" /\ client'.lock # p /\ proc'[p].op = "stream"
                           /\ proc'[p].ans \in {"no", "ok"}
                 PROVE  p \in conn'[proc'[p].conn].streams
      OBVIOUS
    <3>1. /\ proc[p].event = "no"
          /\ \/ proc[p].pc \in {"open", "finishing"}
             \/ /\ proc[p].pc = "await" /\ client.lock # p /\ proc[p].op = "stream"
                /\ proc[p].ans \in {"no", "ok"}
      BY <1>5, <1>6, <1>7
    <3>2. p \in conn[proc[p].conn].streams /\ proc[p].conn \in Gens
      BY <1>1, <1>7, <3>1 DEF WaitInv
    <3>3. \A k \in Gens : conn'[k].streams = conn[k].streams
      BY <1>4
    <3>4. QED
      BY <1>5, <3>2, <3>3
  <2>6. conn' \in [Gens -> Conns]
    BY <1>1, <1>2, <1>4, <1>5, <1>6, <1>7 DEF ShapeInv
  <2>7. QED
    BY <1>1, <1>4, <2>6, <2>1, <2>2, <2>3, <2>4, <2>5, WaitMoves
<1>15. DiedInv'
  BY <1>1, <1>2, <1>3, <1>4, <1>5, <1>6, <1>7, ProcFacts DEF DiedInv, Orphaned
<1>16. ReplayInv'
  <2> SUFFICES ASSUME client.lock \notin {None, Stop}
               PROVE  ReplayOK(client.lock, proc'[client.lock], conn'[client.gen])
    BY <1>6 DEF ReplayInv
  <2> DEFINE n == client.lock
             q == proc[n]
  <2>1. /\ ReplayOK(n, q, conn[client.gen]) /\ n \in Procs /\ q.conn = client.gen
        /\ q.pc \in {"look", "wait", "hello", "publish", "send", "await"}
    BY <1>1, <1>2 DEF ReplayInv, LockInv
  <2>2. CASE g # client.gen
    <3>1. n \notin conn[g].pending /\ n \notin conn[g].streams
      BY <1>1, <2>1, <2>2 DEF WaitInv
    <3>2. conn'[client.gen] = conn[client.gen] /\ proc'[n] = q
      BY <1>2, <1>4, <1>5, <2>1, <2>2, <3>1
    <3>3. QED
      BY <2>1, <3>2
  <2>3. CASE g = client.gen /\ conn[g].dead
    <3>1. proc'[n] = q
      BY <1>1, <1>5, <2>1, <2>3 DEF ConnInv
    <3>2. /\ conn'[g].dead /\ conn'[g].up /\ conn'[g].streams = {}
          /\ ~Unborn(conn[g]) /\ conn[g].up
      BY <1>1, <1>3, <1>4, <2>3 DEF ConnInv, Unborn
    <3>3. QED
      BY <2>1, <2>3, <3>1, <3>2 DEF ReplayOK
  <2>4. CASE g = client.gen /\ ~conn[g].dead
    <3>1. q.pc \in {"look", "await"}
      BY <1>3, <2>1, <2>4 DEF ReplayOK, Quiet, Unborn
    <3>2. CASE q.pc = "look"
      BY <1>5, <2>1, <3>2 DEF ReplayOK
    <3>3. CASE q.pc = "await"
      <4> HIDE DEF n, q
      <4>1. /\ q.ans = "no" /\ conn[g].asked = {} /\ conn[g].out = {<<p, r, reply>>}
            /\ p = n /\ r = q.req /\ r \in {"load", "warmup"}
            /\ reply = "ok" => conn[g].loaded = After(q.req)
        BY <1>3, <2>1, <2>4, <3>3 DEF ReplayOK, Replaying, Quiet
      <4>2. p \in conn[g].pending
        BY <1>1, <2>1, <2>4, <3>3, <4>1 DEF WaitInv, q, n
      <4>3. /\ proc'[n].ans = reply /\ proc'[n].pc = q.pc /\ proc'[n].req = q.req
            /\ proc'[n].replay = q.replay
        BY <1>5, <4>1, <4>2 DEF q, n
      <4>4. conn'[g].asked = {} /\ conn'[g].out = {} /\ conn'[g].loaded = conn[g].loaded
        BY <1>4, <4>1
      <4>5. Replaying(n, proc'[n], conn'[g])
        BY <4>1, <4>3, <4>4 DEF Replaying, Quiet, Replies
      <4>6. QED
        BY <1>4, <2>1, <2>4, <3>3, <4>3, <4>5 DEF ReplayOK, n, q
    <3>4. QED
      BY <3>1, <3>2, <3>3
  <2>5. QED
    BY <2>2, <2>3, <2>4
<1>17. QED
  BY <1>8, <1>9, <1>10, <1>11, <1>12, <1>13, <1>14, <1>15, <1>16 DEF ClientInv


\* The end of a stream reaches it, if it has had no other; one that finished
\* refills the budget.
LEMMA EndInv ==
  ASSUME ClientInv, NEW g \in Gens, NEW p \in Procs, NEW r \in Requests, NEW reply \in Replies,
         Read(g, p, r, reply), r = "finish"
  PROVE  ClientInv'
<1>1. /\ ShapeInv /\ TaskInv /\ LockInv /\ StopInv /\ ConnInv /\ FaultInv
      /\ WaitInv /\ DiedInv /\ ReplayInv
  BY DEF ClientInv
<1>2. client.gen \in Gens /\ client.gen \in Nat /\ client.lock \in Procs \cup {None}
      /\ client.current \in Gens \cup {None} /\ faults \in Nat /\ client.stop \in BOOLEAN
      /\ client.starting \in Gens \cup {None}
  BY <1>1, Types, ProcFacts DEF ShapeInv
<1>3. /\ conn[g].up /\ <<p, r, reply>> \in conn[g].out /\ UNCHANGED <<died, faults>>
      /\ g \in Nat /\ g <= client.gen
  BY <1>1, <1>2, ProcFacts DEF Read, Limits, ConnInv, Unborn
<1>4. /\ conn' \in [Gens -> Conns] /\ \A k \in Gens \ {g} : conn'[k] = conn[k]
      /\ conn'[g].up = conn[g].up /\ conn'[g].dead = conn[g].dead
      /\ conn'[g].child = conn[g].child /\ conn'[g].loaded = conn[g].loaded
      /\ conn'[g].asked = conn[g].asked /\ conn'[g].out = conn[g].out \ {<<p, r, reply>>}
      /\ conn'[g].pending = conn[g].pending /\ conn'[g].streams = conn[g].streams \ {p}
  <2> DEFINE o == conn[g].out \ {<<p, r, reply>>}
             b == conn[g].pending
             s == conn[g].streams \ {p}
             h == [conn[g] EXCEPT !.out = o, !.pending = b, !.streams = s]
  <2>1. conn[g] \in Conns
    BY <1>1, Types
  <2>2. o \in Letters /\ b \in SUBSET Procs /\ s \in SUBSET Callers
    BY <2>1 DEF Conns, Letters
  <2>3. conn' = [conn EXCEPT ![g] = h]
    BY DEF Read
  <2> HIDE DEF o, b, s
  <2>4. /\ h \in Conns /\ h.up = conn[g].up /\ h.dead = conn[g].dead /\ h.child = conn[g].child
        /\ h.loaded = conn[g].loaded /\ h.asked = conn[g].asked /\ h.out = o
        /\ h.pending = b /\ h.streams = s
    BY <2>1, <2>2 DEF Conns
  <2> HIDE DEF h
  <2>5. QED
    BY <1>1, <2>3, <2>4 DEF ShapeInv, o, b, s
<1>5. /\ proc' \in [Procs -> Tasks] /\ \A q \in Procs \ {p} : proc'[q] = proc[q]
      /\ proc'[p].pc = proc[p].pc /\ proc'[p].op = proc[p].op /\ proc'[p].req = proc[p].req
      /\ proc'[p].conn = proc[p].conn /\ proc'[p].replay = proc[p].replay
      /\ proc'[p].ans = proc[p].ans
      /\ p \in conn[g].streams => proc'[p].event # "no"
      /\ p \notin conn[g].streams => proc' = proc
  <2> DEFINE e == IF reply = "ok" THEN "closed" ELSE "failed"
  <2>1. proc' = IF p \in conn[g].streams THEN [proc EXCEPT ![p].event = e] ELSE proc
    BY DEF Read
  <2>2. e \in Events /\ e # "no"
    BY DEF Events
  <2> HIDE DEF e
  <2>3. QED
    BY <1>1, <2>1, <2>2, Types DEF Tasks, ShapeInv
<1>6. /\ client' \in Clients /\ client'.current = client.current
      /\ client'.starting = client.starting /\ client'.failed = client.failed
      /\ client'.gen = client.gen /\ client'.wanted = client.wanted
      /\ client'.stop = client.stop /\ client'.lock = client.lock /\ since' = client'.attempts
  <2>1. \/ client' = client /\ since' = since
        \/ client' = [client EXCEPT !.attempts = 0] /\ since' = 0
    BY DEF Read
  <2>2. 0 \in Counts
    BY ProcFacts DEF Counts
  <2>3. QED
    BY <1>1, <2>1, <2>2 DEF ShapeInv, Clients
<1>7. /\ p \in conn[g].streams => /\ proc[p].pc \in {"await", "open", "finishing"}
                                 /\ proc[p].conn = g /\ proc[p].event = "no"
      /\ \A k \in Gens \ {g} : p \in conn[k].streams => p \notin conn[g].streams
      /\ proc[p].pc \in {"await", "open", "finishing"} => proc[p].conn \in Gens
  BY <1>1, Types DEF WaitInv, TaskInv, TaskOK, Tasks, Links
<1>8. ShapeInv'
  BY <1>1, <1>2, <1>3, <1>4, <1>5, <1>6, <1>7, ProcFacts DEF ShapeInv
<1>9. TaskInv'
  BY <1>1, <1>2, <1>3, <1>4, <1>5, <1>6, <1>7, ProcFacts DEF TaskInv, TaskOK
<1>10. LockInv'
  <2>1. client.lock \notin {None, Stop} => client.lock \notin conn[g].streams
    BY <1>1, <1>2 DEF LockInv, ReplayInv, ReplayOK, WaitInv
  <2>2. QED
    BY <1>1, <1>2, <1>5, <1>6, <2>1 DEF LockInv
<1>11. StopInv'
  <2>1. conn'[1].up = conn[1].up /\ \A q \in Procs : proc'[q].pc = proc[q].pc
    BY <1>4, <1>5, ProcFacts
  <2>2. QED
    BY <1>1, <1>6, <2>1, ProcFacts DEF StopInv
<1>12. ConnInv'
  <2>1. \A k \in Gens :
           /\ conn'[k].up = conn[k].up /\ conn'[k].dead = conn[k].dead
           /\ conn'[k].child = conn[k].child /\ conn'[k].asked = conn[k].asked
    BY <1>4
  <2>2. \A k \in Gens :
           /\ conn'[k].dead => /\ conn'[k].child = "killed" /\ conn'[k].pending = {}
                               /\ conn'[k].streams = {}
           /\ k > client.gen => Unborn(conn'[k])
           /\ k < client.gen => ~Active(conn'[k])
           /\ \A m \in conn'[k].asked : m[2] = "shutdown" => client.stop
    <3> SUFFICES ASSUME NEW k \in Gens
                 PROVE  /\ conn'[k].dead => /\ conn'[k].child = "killed" /\ conn'[k].pending = {}
                                            /\ conn'[k].streams = {}
                        /\ k > client.gen => Unborn(conn'[k])
                        /\ k < client.gen => ~Active(conn'[k])
                        /\ \A m \in conn'[k].asked : m[2] = "shutdown" => client.stop
      OBVIOUS
    <3>1. CASE k = g
      BY <1>1, <1>2, <1>3, <1>4, <3>1 DEF ConnInv, Unborn, Active
    <3>2. CASE k # g
      BY <1>1, <1>4, <3>2 DEF ConnInv
    <3>3. QED
      BY <3>1, <3>2
  <2>3. /\ client.current # None => conn'[client.current].up
        /\ client.starting # None => conn'[client.starting].up
    BY <1>1, <1>2, <2>1 DEF ConnInv
  <2>4. /\ Active(conn'[client.gen]) = Active(conn[client.gen])
        /\ conn'[client.gen].child = conn[client.gen].child
    BY <1>2, <2>1 DEF Active
  <2>5. \A q \in Procs : proc'[q].pc = proc[q].pc /\ proc'[q].conn = proc[q].conn
    BY <1>5
  <2>6. Active(conn[client.gen]) =>
          \/ client.current = client.gen
          \/ client.current = None /\ proc'[Stop].pc = "idle"
          \/ /\ client.lock # None /\ proc'[client.lock].conn = client.gen
             /\ proc'[client.lock].pc \in {"hello", "send", "await", "publish"}
    BY <1>1, <1>2, <2>5, ProcFacts DEF ConnInv
  <2>7. conn[client.gen].child = "none" =>
          client.stop \/ (client.lock # None /\ proc'[client.lock].pc = "wait")
    BY <1>1, <1>2, <2>5, ProcFacts DEF ConnInv
  <2>8. QED
    BY <1>6, <2>2, <2>3, <2>4, <2>6, <2>7 DEF ConnInv, Unborn, Active
<1>13. FaultInv'
  BY <1>1, <1>2, <1>3, <1>4, <1>6 DEF FaultInv
<1>14. WaitInv'
  <2>1. \A q \in Procs \ {p} :
           /\ proc'[q] = proc[q]
           /\ q \in conn'[g].pending <=> q \in conn[g].pending
           /\ q \in conn'[g].streams <=> q \in conn[g].streams
           /\ client'.lock # q => client.lock # q
    BY <1>1, <1>2, <1>4, <1>5, <1>6, <1>7, ProcFacts
  <2>2. \A k \in Gens : p \in conn'[k].pending =>
           proc'[p].pc = "await" /\ proc'[p].conn = k /\ proc'[p].ans = "no"
    BY <1>1, <1>2, <1>4, <1>5, <1>6, <1>7 DEF WaitInv
  <2>3. proc'[p].pc = "await" /\ proc'[p].ans = "no" => p \in conn'[proc'[p].conn].pending
    <3>1. proc[p].pc = "await" /\ proc[p].ans = "no" => /\ p \in conn[proc[p].conn].pending
                                                        /\ proc[p].conn \in Gens
      BY <1>1, <1>7 DEF WaitInv
    <3>2. \A k \in Gens : conn'[k].pending = conn[k].pending
      BY <1>4
    <3>3. QED
      BY <1>5, <3>1, <3>2
  <2>4. \A k \in Gens : p \in conn'[k].streams =>
           /\ proc'[p].pc \in {"await", "open", "finishing"} /\ proc'[p].conn = k
           /\ proc'[p].event = "no" /\ proc'[p].op = "stream"
    BY <1>1, <1>2, <1>4, <1>5, <1>6, <1>7 DEF WaitInv
  <2>5. p \in Callers /\ proc'[p].event = "no"
        /\ (\/ proc'[p].pc \in {"open", "finishing"}
            \/ /\ proc'[p].pc = "await" /\ client'.lock # p /\ proc'[p].op = "stream"
               /\ proc'[p].ans \in {"no", "ok"})
           => p \in conn'[proc'[p].conn].streams
    <3> SUFFICES ASSUME p \in Callers, proc'[p].event = "no",
                        \/ proc'[p].pc \in {"open", "finishing"}
                        \/ /\ proc'[p].pc = "await" /\ client'.lock # p /\ proc'[p].op = "stream"
                           /\ proc'[p].ans \in {"no", "ok"}
                 PROVE  p \in conn'[proc'[p].conn].streams
      OBVIOUS
    <3>1. p \notin conn[g].streams /\ proc' = proc
      BY <1>5
    <3>2. p \in conn[proc[p].conn].streams /\ proc[p].conn \in Gens
      BY <1>1, <1>6, <1>7, <3>1 DEF WaitInv
    <3>3. QED
      BY <1>4, <3>1, <3>2
  <2>6. conn' \in [Gens -> Conns]
    BY <1>1, <1>2, <1>4, <1>5, <1>6, <1>7 DEF ShapeInv
  <2>7. QED
    BY <1>1, <1>4, <1>6, <2>6, <2>1, <2>2, <2>3, <2>4, <2>5, WaitMoves
<1>15. DiedInv'
  BY <1>1, <1>2, <1>3, <1>4, <1>5, <1>6, <1>7, ProcFacts DEF DiedInv, Orphaned
<1>16. ReplayInv'
  <2> SUFFICES ASSUME client.lock \notin {None, Stop}
               PROVE  ReplayOK(client.lock, proc'[client.lock], conn'[client.gen])
    BY <1>6 DEF ReplayInv
  <2> DEFINE n == client.lock
             q == proc[n]
  <2>1. /\ ReplayOK(n, q, conn[client.gen]) /\ n \in Procs /\ q.conn = client.gen
        /\ q.pc \in {"look", "wait", "hello", "publish", "send", "await"}
    BY <1>1, <1>2 DEF ReplayInv, LockInv
  <2>2. CASE g # client.gen
    <3>1. n \notin conn[g].pending /\ n \notin conn[g].streams
      BY <1>1, <2>1, <2>2 DEF WaitInv
    <3>2. conn'[client.gen] = conn[client.gen] /\ proc'[n] = q
      BY <1>2, <1>4, <1>5, <2>1, <2>2, <3>1
    <3>3. QED
      BY <2>1, <3>2
  <2>3. CASE g = client.gen /\ conn[g].dead
    <3>1. proc'[n] = q
      BY <1>1, <1>5, <2>1, <2>3 DEF ConnInv
    <3>2. /\ conn'[g].dead /\ conn'[g].up /\ conn'[g].streams = {}
          /\ ~Unborn(conn[g]) /\ conn[g].up
      BY <1>1, <1>3, <1>4, <2>3 DEF ConnInv, Unborn
    <3>3. QED
      BY <2>1, <2>3, <3>1, <3>2 DEF ReplayOK
  <2>4. CASE g = client.gen /\ ~conn[g].dead
    <3>1. q.pc \in {"look", "await"}
      BY <1>3, <2>1, <2>4 DEF ReplayOK, Quiet, Unborn
    <3>2. CASE q.pc = "look"
      BY <1>5, <2>1, <3>2 DEF ReplayOK
    <3>3. CASE q.pc = "await"
      <4> HIDE DEF n, q
      <4>1. /\ q.ans = "no" /\ conn[g].asked = {} /\ conn[g].out = {<<p, r, reply>>}
            /\ p = n /\ r = q.req /\ r \in {"load", "warmup"}
            /\ reply = "ok" => conn[g].loaded = After(q.req)
        BY <1>3, <2>1, <2>4, <3>3 DEF ReplayOK, Replaying, Quiet
      <4>2. QED
        BY <4>1
    <3>4. QED
      BY <3>1, <3>2, <3>3
  <2>5. QED
    BY <2>2, <2>3, <2>4
<1>17. QED
  BY <1>8, <1>9, <1>10, <1>11, <1>12, <1>13, <1>14, <1>15, <1>16 DEF ClientInv

\* The published connection is dead: a task of its generation goes to replace
\* it.
LEMMA SuccessorInv ==
  ASSUME ClientInv, NEW g \in Gens,
         g \in died, died' = died \ {g}, client.failed = "no", client.current = g,
         proc' = Entered(proc, g), UNCHANGED <<client, conn, faults, since>>
  PROVE  ClientInv'
<1>1. /\ ShapeInv /\ TaskInv /\ LockInv /\ StopInv /\ ConnInv /\ FaultInv
      /\ WaitInv /\ DiedInv /\ ReplayInv
  BY DEF ClientInv
<1>2. client.gen \in Gens /\ client.gen \in Nat /\ client.lock \in Procs \cup {None}
      /\ client.current \in Gens \cup {None} /\ faults \in Nat /\ client.stop \in BOOLEAN
      /\ client.starting \in Gens \cup {None}
  BY <1>1, Types, ProcFacts DEF ShapeInv
<1>3. /\ g \in Procs /\ g \notin Callers /\ g # Stop /\ g # None /\ ~Live
      /\ proc[g].pc = "idle" /\ conn[g].dead
  BY <1>1, ProcFacts DEF DiedInv, Live, Alive
<1>4. /\ proc' \in [Procs -> Tasks] /\ \A q \in Procs \ {g} : proc'[q] = proc[q]
      /\ proc'[g].pc = "lock" /\ proc'[g].op = proc[g].op /\ proc'[g].req = proc[g].req
      /\ proc'[g].conn = proc[g].conn /\ proc'[g].replay = proc[g].replay
      /\ proc'[g].ans = proc[g].ans /\ proc'[g].event = proc[g].event
  BY <1>1, <1>3, Types DEF Entered, Tasks, Places, ShapeInv
<1>5. /\ proc[g].conn = None /\ proc[g].ans = "no" /\ proc[g].event = "no" /\ proc[g].op = "none"
      /\ client.lock # g
  BY <1>1, <1>3 DEF TaskInv, TaskOK, LockInv
<1>6. ShapeInv'
  BY <1>1, <1>2, <1>3, <1>4, <1>5, ProcFacts DEF ShapeInv
<1>7. TaskInv'
  BY <1>1, <1>2, <1>3, <1>4, <1>5, ProcFacts DEF TaskInv, TaskOK
<1>8. LockInv'
  BY <1>1, <1>2, <1>3, <1>4, <1>5, ProcFacts DEF LockInv
<1>9. StopInv'
  BY <1>1, <1>2, <1>3, <1>4, <1>5, ProcFacts DEF StopInv
<1>10. ConnInv'
  BY <1>1, <1>2, <1>3, <1>4, <1>5, ProcFacts DEF ConnInv, Unborn, Active
<1>11. FaultInv'
  BY <1>1, <1>2, <1>3, <1>4, <1>5, ProcFacts DEF FaultInv
<1>12. WaitInv'
  <2>1. \A q \in Procs \ {g} :
           /\ proc'[q] = proc[q]
           /\ q \in conn'[g].pending <=> q \in conn[g].pending
           /\ q \in conn'[g].streams <=> q \in conn[g].streams
           /\ client'.lock # q => client.lock # q
    BY <1>1, <1>2, <1>3, <1>4, <1>5, ProcFacts
  <2>2. \A k \in Gens : g \in conn'[k].pending =>
           proc'[g].pc = "await" /\ proc'[g].conn = k /\ proc'[g].ans = "no"
    BY <1>1, <1>2, <1>3, <1>4, <1>5 DEF WaitInv
  <2>3. proc'[g].pc = "await" /\ proc'[g].ans = "no" => g \in conn'[proc'[g].conn].pending
    BY <1>1, <1>2, <1>3, <1>4, <1>5 DEF WaitInv
  <2>4. \A k \in Gens : g \in conn'[k].streams =>
           /\ proc'[g].pc \in {"await", "open", "finishing"} /\ proc'[g].conn = k
           /\ proc'[g].event = "no" /\ proc'[g].op = "stream"
    BY <1>1, <1>2, <1>3, <1>4, <1>5 DEF WaitInv
  <2>5. g \in Callers /\ proc'[g].event = "no"
        /\ (\/ proc'[g].pc \in {"open", "finishing"}
            \/ /\ proc'[g].pc = "await" /\ client'.lock # g /\ proc'[g].op = "stream"
               /\ proc'[g].ans \in {"no", "ok"})
           => g \in conn'[proc'[g].conn].streams
    BY <1>1, <1>2, <1>3, <1>4, <1>5 DEF WaitInv
  <2>6. conn' \in [Gens -> Conns]
    BY <1>1, <1>2, <1>3, <1>4, <1>5 DEF ShapeInv
  <2>7. QED
    BY <1>1, <1>3, <1>4, <2>6, <2>1, <2>2, <2>3, <2>4, <2>5, WaitMoves
<1>13. DiedInv'
  BY <1>1, <1>2, <1>3, <1>4, <1>5, ProcFacts DEF DiedInv, Orphaned
<1>14. ReplayInv'
  BY <1>1, <1>2, <1>3, <1>4, <1>5 DEF ReplayInv, LockInv
<1>15. QED
  BY <1>6, <1>7, <1>8, <1>9, <1>10, <1>11, <1>12, <1>13, <1>14 DEF ClientInv


\* conn_died, for the published connection and for any other.
LEMMA ConnDiedInv ==
  ASSUME ClientInv, NEW g \in Gens, ConnDied(g)
  PROVE  ClientInv'
<1>1. /\ g \in died /\ died' = died \ {g} /\ UNCHANGED <<client, conn, faults, since>>
      /\ proc' = IF client.failed = "no" /\ client.current = g THEN Entered(proc, g) ELSE proc
  BY DEF ConnDied, Limits
<1>2. CASE client.failed = "no" /\ client.current = g
  BY <1>1, <1>2, SuccessorInv
<1>3. CASE ~(client.failed = "no" /\ client.current = g)
  <2>1. UNCHANGED <<client, conn, proc, faults, since>> /\ died' \subseteq died
    BY <1>1, <1>3
  <2>2. /\ TaskInv' /\ LockInv' /\ StopInv' /\ ConnInv' /\ FaultInv' /\ WaitInv' /\ ReplayInv'
    BY <2>1 DEF ClientInv, TaskInv, LockInv, StopInv, ConnInv, FaultInv, WaitInv, ReplayInv
  <2>3. ShapeInv' /\ DiedInv'
    BY <2>1 DEF ClientInv, ShapeInv, DiedInv
  <2>4. QED
    BY <2>2, <2>3 DEF ClientInv
<1>4. QED
  BY <1>2, <1>3

\* A step that changes nothing the invariant speaks of.
LEMMA StutterInv ==
  ASSUME ClientInv, UNCHANGED <<client, conn, proc, died, faults, since>>
  PROVE  ClientInv'
<1>1. TaskInv' /\ LockInv' /\ StopInv' /\ ConnInv' /\ FaultInv' /\ WaitInv' /\ ReplayInv'
  BY DEF ClientInv, TaskInv, LockInv, StopInv, ConnInv, FaultInv, WaitInv, ReplayInv
<1>2. ShapeInv' /\ DiedInv'
  BY DEF ClientInv, ShapeInv, DiedInv
<1>3. QED
  BY <1>1, <1>2 DEF ClientInv


\* shutdown has spawn_lock, and takes the published connection away.
LEMMA TakeStopInv ==
  ASSUME ClientInv, ShutdownTake
  PROVE  ClientInv'
<1>1. /\ ShapeInv /\ TaskInv /\ LockInv /\ StopInv /\ ConnInv /\ FaultInv
      /\ WaitInv /\ DiedInv /\ ReplayInv
  BY DEF ClientInv
<1> DEFINE g == client.current
<1>2. client.gen \in Gens /\ client.gen \in Nat /\ client.lock \in Procs \cup {None}
      /\ client.current \in Gens \cup {None} /\ faults \in Nat /\ client.stop \in BOOLEAN
      /\ client.starting \in Gens \cup {None}
  BY <1>1, Types, ProcFacts DEF ShapeInv
<1>3. proc[Stop].pc = "lock" /\ client.lock = None /\ UNCHANGED <<died, faults, since>>
  BY DEF ShutdownTake, Limits
<1>4. /\ Stop \in Procs /\ Stop \notin Callers /\ Stop # None /\ g \in Gens /\ g # None
      /\ client.stop /\ proc[Stop].ans = "no" /\ proc[Stop].event = "no" /\ g <= client.gen
      /\ proc[Stop].op = "none"
  BY <1>1, <1>2, <1>3, ProcFacts DEF StopInv, TaskInv, TaskOK, ShapeInv
<1>5. Active(conn[client.gen]) => g = client.gen
  BY <1>1, <1>3, <1>4 DEF ConnInv
<1>6. /\ proc' \in [Procs -> Tasks] /\ \A q \in Procs \ {Stop} : proc'[q] = proc[q]
      /\ proc'[Stop].pc = "send" /\ proc'[Stop].op = proc[Stop].op
      /\ proc'[Stop].req = "shutdown" /\ proc'[Stop].conn = g
      /\ proc'[Stop].replay = proc[Stop].replay /\ proc'[Stop].ans = proc[Stop].ans
      /\ proc'[Stop].event = proc[Stop].event
  BY <1>1, <1>4, Types, ZenonT(40) DEF ShutdownTake, Tasks, Places, Reqs, Requests, Links, ShapeInv
<1>7. /\ conn' \in [Gens -> Conns] /\ \A k \in Gens \ {g} : conn'[k] = conn[k]
      /\ conn'[g].up = conn[g].up /\ conn'[g].dead = conn[g].dead /\ conn'[g].closing = TRUE
      /\ conn'[g].child = conn[g].child /\ conn'[g].loaded = conn[g].loaded
      /\ conn'[g].asked = conn[g].asked /\ conn'[g].out = conn[g].out
      /\ conn'[g].pending = conn[g].pending /\ conn'[g].streams = conn[g].streams
  BY <1>1, <1>4, Types DEF ShutdownTake, Conns, ShapeInv
<1>8. /\ client' \in Clients /\ client'.current = None /\ client'.starting = client.starting
      /\ client'.attempts = client.attempts /\ client'.failed = client.failed
      /\ client'.gen = client.gen /\ client'.wanted = client.wanted
      /\ client'.stop = client.stop /\ client'.lock = Stop
  BY <1>1, <1>4 DEF ShutdownTake, ShapeInv, Clients, Links, Holders
<1> HIDE DEF g
<1>9. None <= client.gen
  BY <1>2, ProcFacts DEF None
<1>10. ShapeInv'
  BY <1>1, <1>2, <1>3, <1>4, <1>5, <1>6, <1>7, <1>8, <1>9, ProcFacts DEF ShapeInv
<1>11. TaskInv'
  BY <1>1, <1>2, <1>3, <1>4, <1>5, <1>6, <1>7, <1>8, <1>9, ProcFacts DEF TaskInv, TaskOK
<1>12. LockInv'
  BY <1>1, <1>2, <1>3, <1>4, <1>5, <1>6, <1>7, <1>8, <1>9, ProcFacts DEF LockInv
<1>13. StopInv'
  BY <1>1, <1>2, <1>3, <1>4, <1>5, <1>6, <1>7, <1>8, <1>9, ProcFacts DEF StopInv
<1>14. ConnInv'
  BY <1>1, <1>2, <1>3, <1>4, <1>5, <1>6, <1>7, <1>8, <1>9, ProcFacts DEF ConnInv, Unborn, Active
<1>15. FaultInv'
  BY <1>1, <1>2, <1>3, <1>4, <1>5, <1>6, <1>7, <1>8, <1>9, ProcFacts DEF FaultInv
<1>16. WaitInv'
  <2>1. \A q \in Procs \ {Stop} :
           /\ proc'[q] = proc[q]
           /\ q \in conn'[g].pending <=> q \in conn[g].pending
           /\ q \in conn'[g].streams <=> q \in conn[g].streams
           /\ client'.lock # q => client.lock # q
    BY <1>1, <1>2, <1>3, <1>4, <1>6, <1>7, <1>8, ProcFacts
  <2>2. \A k \in Gens : Stop \in conn'[k].pending =>
           proc'[Stop].pc = "await" /\ proc'[Stop].conn = k /\ proc'[Stop].ans = "no"
    BY <1>1, <1>2, <1>3, <1>4, <1>6, <1>7, <1>8 DEF WaitInv
  <2>3. proc'[Stop].pc = "await" /\ proc'[Stop].ans = "no" => Stop \in conn'[proc'[Stop].conn].pending
    BY <1>1, <1>2, <1>3, <1>4, <1>6, <1>7, <1>8 DEF WaitInv
  <2>4. \A k \in Gens : Stop \in conn'[k].streams =>
           /\ proc'[Stop].pc \in {"await", "open", "finishing"} /\ proc'[Stop].conn = k
           /\ proc'[Stop].event = "no" /\ proc'[Stop].op = "stream"
    BY <1>1, <1>2, <1>3, <1>4, <1>6, <1>7, <1>8 DEF WaitInv
  <2>5. Stop \in Callers /\ proc'[Stop].event = "no"
        /\ (\/ proc'[Stop].pc \in {"open", "finishing"}
            \/ /\ proc'[Stop].pc = "await" /\ client'.lock # Stop /\ proc'[Stop].op = "stream"
               /\ proc'[Stop].ans \in {"no", "ok"})
           => Stop \in conn'[proc'[Stop].conn].streams
    BY <1>1, <1>2, <1>3, <1>4, <1>6, <1>7, <1>8 DEF WaitInv
  <2>6. conn' \in [Gens -> Conns]
    BY <1>1, <1>2, <1>3, <1>4, <1>6, <1>7, <1>8 DEF ShapeInv
  <2>7. QED
    BY <1>1, <1>4, <1>7, <2>6, <2>1, <2>2, <2>3, <2>4, <2>5, WaitMoves
<1>17. DiedInv'
  BY <1>1, <1>2, <1>3, <1>4, <1>5, <1>6, <1>7, <1>8, <1>9, ProcFacts DEF DiedInv, Orphaned
<1>18. ReplayInv'
  BY <1>8 DEF ReplayInv
<1>19. QED
  BY <1>10, <1>11, <1>12, <1>13, <1>14, <1>15, <1>16, <1>17, <1>18 DEF ClientInv


\* shutdown makes sure that the helper has gone.
LEMMA CloseStopInv ==
  ASSUME ClientInv, ShutdownClose
  PROVE  ClientInv'
<1>1. /\ ShapeInv /\ TaskInv /\ LockInv /\ StopInv /\ ConnInv /\ FaultInv
      /\ WaitInv /\ DiedInv /\ ReplayInv
  BY DEF ClientInv
<1> DEFINE g == proc[Stop].conn
<1>2. client.gen \in Gens /\ client.gen \in Nat /\ client.lock \in Procs \cup {None}
      /\ client.current \in Gens \cup {None} /\ faults \in Nat /\ client.stop \in BOOLEAN
      /\ client.starting \in Gens \cup {None}
  BY <1>1, Types, ProcFacts DEF ShapeInv
<1>3. proc[Stop].pc = "await" /\ proc[Stop].ans # "no" /\ UNCHANGED <<died, faults, since>>
  BY DEF ShutdownClose, Limits
<1>4. /\ Stop \in Procs /\ Stop \notin Callers /\ Stop # None /\ g \in Gens
      /\ client.lock = Stop /\ client.stop /\ client.current = None /\ g <= client.gen
  <2>1. Stop \in Procs /\ Stop \notin Callers /\ Stop # None
    BY ProcFacts
  <2>2. client.lock = Stop
    BY <1>1, <1>3, <2>1 DEF LockInv
  <2>3. client.stop /\ client.current = None
    BY <1>1, <1>2, <1>3 DEF StopInv
  <2>4. g \in Gens /\ g <= client.gen
    BY <1>1, <1>3, <2>1, Types DEF TaskInv, TaskOK, Tasks, Links
  <2>5. QED
    BY <2>1, <2>2, <2>3, <2>4
<1>5. Active(conn[client.gen]) => g = client.gen
  BY <1>1, <1>2, <1>3, <1>4, ProcFacts DEF ConnInv
<1>6. /\ proc' \in [Procs -> Tasks]
      /\ proc'[Stop].pc = "done" /\ proc'[Stop].conn = None /\ proc'[Stop].op = "none"
      /\ proc'[Stop].req = "none" /\ proc'[Stop].ans = "no" /\ proc'[Stop].event = "no"
      /\ \A p \in Procs \ {Stop} :
           /\ proc'[p].pc = proc[p].pc /\ proc'[p].op = proc[p].op
           /\ proc'[p].req = proc[p].req /\ proc'[p].conn = proc[p].conn
           /\ proc'[p].replay = proc[p].replay
           /\ proc'[p].ans = IF p \in conn[g].pending THEN "dead" ELSE proc[p].ans
           /\ proc'[p].event = IF p \in conn[g].streams THEN "failed" ELSE proc[p].event
  <2>1. proc' = Returns(Told(proc, g), Stop)
    BY DEF ShutdownClose
  <2>2. QED
    BY <1>1, <1>4, <2>1, ToldFacts, ReturnsFacts
<1>7. /\ conn' \in [Gens -> Conns] /\ \A k \in Gens \ {g} : conn'[k] = conn[k]
      /\ conn'[g].dead /\ conn'[g].child = "killed" /\ conn'[g].up = conn[g].up
      /\ conn'[g].pending = {} /\ conn'[g].streams = {}
      /\ conn'[g].asked \subseteq conn[g].asked
  <2>1. conn' = Close(conn, g)
    BY <1>4 DEF ShutdownClose
  <2>2. QED
    BY <1>1, <1>4, <2>1, CloseFacts
<1>8. /\ client' \in Clients /\ client'.current = client.current
      /\ client'.starting = client.starting /\ client'.attempts = client.attempts
      /\ client'.failed = client.failed /\ client'.gen = client.gen
      /\ client'.wanted = client.wanted /\ client'.stop = client.stop /\ client'.lock = None
  BY <1>1 DEF ShutdownClose, ShapeInv, Clients, Holders
<1> HIDE DEF g
<1>9. None <= client.gen
  BY <1>2, ProcFacts DEF None
<1>10. ShapeInv'
  BY <1>1, <1>2, <1>3, <1>4, <1>5, <1>6, <1>7, <1>8, <1>9, ProcFacts DEF ShapeInv
<1>11. TaskInv'
  BY <1>1, <1>2, <1>3, <1>4, <1>5, <1>6, <1>7, <1>8, <1>9, ProcFacts DEF TaskInv, TaskOK, WaitInv
<1>12. LockInv'
  BY <1>1, <1>2, <1>3, <1>4, <1>5, <1>6, <1>7, <1>8, <1>9, ProcFacts DEF LockInv
<1>13. StopInv'
  BY <1>1, <1>2, <1>3, <1>4, <1>5, <1>6, <1>7, <1>8, <1>9, ProcFacts DEF StopInv
<1>14. ConnInv'
  BY <1>1, <1>2, <1>3, <1>4, <1>5, <1>6, <1>7, <1>8, <1>9, ProcFacts DEF ConnInv, Unborn, Active
<1>15. FaultInv'
  BY <1>1, <1>3, <1>4, <1>8 DEF FaultInv, StopInv
<1>16. WaitInv'
  <2> DEFINE D == {Stop}
  <2>1. /\ \A p \in Procs \ D :
             /\ proc'[p].pc = proc[p].pc /\ proc'[p].op = proc[p].op
             /\ proc'[p].conn = proc[p].conn
             /\ proc'[p].ans = IF p \in conn[g].pending THEN "dead" ELSE proc[p].ans
             /\ proc'[p].event = IF p \in conn[g].streams THEN "failed" ELSE proc[p].event
             /\ client'.lock # p => client.lock # p
        /\ \A p \in D : /\ proc'[p].pc \notin {"await", "open", "finishing"}
                       /\ \A k \in Gens \ {g} : p \notin conn[k].pending /\ p \notin conn[k].streams
    BY <1>1, <1>3, <1>4, <1>6, <1>8 DEF WaitInv, g
  <2> HIDE DEF D
  <2>2. QED
    BY <1>1, <1>4, <1>7, <2>1, FailWaits
<1>17. DiedInv'
  BY <1>1, <1>2, <1>3, <1>4, <1>5, <1>6, <1>7, <1>8, <1>9, ProcFacts DEF DiedInv, Orphaned
<1>18. ReplayInv'
  BY <1>8 DEF ReplayInv
<1>19. QED
  BY <1>10, <1>11, <1>12, <1>13, <1>14, <1>15, <1>16, <1>17, <1>18 DEF ClientInv


\* shutdown begins while a new helper is on its way: that one is closed.
LEMMA StopRestartInv ==
  ASSUME ClientInv, Shutdown, client.starting # None
  PROVE  ClientInv'
<1>1. /\ ShapeInv /\ TaskInv /\ LockInv /\ StopInv /\ ConnInv /\ FaultInv
      /\ WaitInv /\ DiedInv /\ ReplayInv
  BY DEF ClientInv
<1> DEFINE s == client.starting
<1>2. client.gen \in Gens /\ client.gen \in Nat /\ client.lock \in Procs \cup {None}
      /\ client.current \in Gens \cup {None} /\ faults \in Nat /\ client.stop \in BOOLEAN
      /\ client.starting \in Gens \cup {None}
  BY <1>1, Types, ProcFacts DEF ShapeInv
<1>3. proc[Stop].pc = "idle" /\ client.current # None /\ UNCHANGED <<died, faults, since>>
  BY DEF Shutdown, Limits
<1>4. /\ Stop \in Procs /\ Stop \notin Callers /\ Stop # None /\ s \in Gens /\ s <= client.gen
      /\ client.lock # Stop /\ conn[s].up
      /\ proc[Stop].conn = None /\ proc[Stop].ans = "no" /\ proc[Stop].event = "no"
      /\ proc[Stop].op = "none"
  BY <1>1, <1>2, <1>3, ProcFacts DEF LockInv, TaskInv, TaskOK, ShapeInv, ConnInv
<1>5. /\ proc' \in [Procs -> Tasks]
      /\ proc'[Stop].pc = "lock" /\ proc'[Stop].conn = None /\ proc'[Stop].op = "none"
      /\ proc'[Stop].req = proc[Stop].req /\ proc'[Stop].ans = "no" /\ proc'[Stop].event = "no"
      /\ \A p \in Procs \ {Stop} :
           /\ proc'[p].pc = proc[p].pc /\ proc'[p].op = proc[p].op
           /\ proc'[p].req = proc[p].req /\ proc'[p].conn = proc[p].conn
           /\ proc'[p].replay = proc[p].replay
           /\ proc'[p].ans = IF p \in conn[s].pending THEN "dead" ELSE proc[p].ans
           /\ proc'[p].event = IF p \in conn[s].streams THEN "failed" ELSE proc[p].event
  <2> DEFINE ps == Told(proc, s)
  <2>1. proc' = [ps EXCEPT ![Stop].pc = "lock"]
    BY DEF Shutdown
  <2>2. /\ ps \in [Procs -> Tasks] /\ ps[Stop].conn = None /\ ps[Stop].op = "none"
        /\ ps[Stop].req = proc[Stop].req /\ ps[Stop].ans = "no" /\ ps[Stop].event = "no"
    <3>1. Stop \notin conn[s].pending /\ Stop \notin conn[s].streams
      BY <1>1, <1>3, <1>4 DEF WaitInv
    <3>2. QED
      BY <1>1, <1>4, <3>1, ToldFacts
  <2>3. \A p \in Procs \ {Stop} :
         /\ ps[p].pc = proc[p].pc /\ ps[p].op = proc[p].op
         /\ ps[p].req = proc[p].req /\ ps[p].conn = proc[p].conn
         /\ ps[p].replay = proc[p].replay
         /\ ps[p].ans = IF p \in conn[s].pending THEN "dead" ELSE proc[p].ans
         /\ ps[p].event = IF p \in conn[s].streams THEN "failed" ELSE proc[p].event
    BY <1>1, <1>4, ToldFacts
  <2> HIDE DEF ps
  <2>4. QED
    BY <1>4, <2>1, <2>2, <2>3 DEF Tasks, Places
<1>6. /\ conn' \in [Gens -> Conns] /\ \A k \in Gens \ {s} : conn'[k] = conn[k]
      /\ conn'[s].dead /\ conn'[s].child = "killed" /\ conn'[s].up = conn[s].up
      /\ conn'[s].pending = {} /\ conn'[s].streams = {}
      /\ conn'[s].asked \subseteq conn[s].asked
  <2>1. conn' = Close(conn, s)
    BY <1>3 DEF Shutdown
  <2>2. QED
    BY <1>1, <1>4, <2>1, CloseFacts
<1>7. /\ client' \in Clients /\ client'.current = client.current /\ client'.starting = None
      /\ client'.attempts = client.attempts /\ client'.failed = "shutDown"
      /\ client'.gen = client.gen /\ client'.wanted = client.wanted /\ client'.stop = TRUE
      /\ client'.lock = client.lock
  BY <1>1 DEF Shutdown, ShapeInv, Clients, Links, Failures
<1> HIDE DEF s
<1>8. None <= client.gen
  BY <1>2, ProcFacts DEF None
<1>9. ShapeInv'
  BY <1>1, <1>2, <1>3, <1>4, <1>5, <1>6, <1>7, <1>8, ProcFacts DEF ShapeInv
<1>10. TaskInv'
  BY <1>1, <1>2, <1>3, <1>4, <1>5, <1>6, <1>7, <1>8, ProcFacts DEF TaskInv, TaskOK, WaitInv
<1>11. LockInv'
  <2>1. client.lock \notin {None, Stop} => client.lock \notin conn[s].streams
    BY <1>1, <1>2, <1>4 DEF LockInv, ReplayInv, ReplayOK, WaitInv
  <2>2. QED
    BY <1>1, <1>2, <1>4, <1>5, <1>7, <2>1 DEF LockInv
<1>12. StopInv'
  BY <1>1, <1>2, <1>3, <1>4, <1>5, <1>6, <1>7, <1>8, ProcFacts DEF StopInv
<1>13. ConnInv'
  <2>1. \A k \in Gens : conn'[k].up = conn[k].up /\ conn'[k].asked \subseteq conn[k].asked
    BY <1>6
  <2>2. \A k \in Gens :
           /\ conn'[k].dead => /\ conn'[k].child = "killed" /\ conn'[k].pending = {}
                               /\ conn'[k].streams = {}
           /\ k > client.gen => Unborn(conn'[k])
           /\ k < client.gen => ~Active(conn'[k])
    <3> SUFFICES ASSUME NEW k \in Gens
                 PROVE  /\ conn'[k].dead => /\ conn'[k].child = "killed" /\ conn'[k].pending = {}
                                            /\ conn'[k].streams = {}
                        /\ k > client.gen => Unborn(conn'[k])
                        /\ k < client.gen => ~Active(conn'[k])
      OBVIOUS
    <3>1. CASE k = s
      <4>1. k \in Nat
        BY ProcFacts
      <4>2. QED
        BY <1>2, <1>4, <1>6, <3>1, <4>1 DEF Active
    <3>2. CASE k # s
      BY <1>1, <1>6, <3>2 DEF ConnInv
    <3>3. QED
      BY <3>1, <3>2
  <2>3. client.current # None => conn'[client.current].up
    BY <1>1, <1>2, <2>1 DEF ConnInv
  <2>4. Active(conn'[client.gen]) =>
          \/ client.current = client.gen
          \/ /\ client.lock # None /\ proc'[client.lock].conn = client.gen
             /\ proc'[client.lock].pc \in {"hello", "send", "await", "publish"}
    <3>1. CASE s = client.gen
      BY <1>6, <3>1 DEF Active
    <3>2. CASE s # client.gen
      BY <1>1, <1>2, <1>3, <1>4, <1>5, <1>6, <3>2 DEF ConnInv
    <3>3. QED
      BY <3>1, <3>2
  <2>5. QED
    BY <1>7, <2>1, <2>2, <2>3, <2>4 DEF ConnInv, Unborn, Active
<1>14. FaultInv'
  BY <1>1, <1>2, <1>3, <1>4, <1>5, <1>6, <1>7, <1>8, ProcFacts DEF FaultInv
<1>15. WaitInv'
  <2> DEFINE D == {Stop}
  <2>1. /\ \A p \in Procs \ D :
             /\ proc'[p].pc = proc[p].pc /\ proc'[p].op = proc[p].op
             /\ proc'[p].conn = proc[p].conn
             /\ proc'[p].ans = IF p \in conn[s].pending THEN "dead" ELSE proc[p].ans
             /\ proc'[p].event = IF p \in conn[s].streams THEN "failed" ELSE proc[p].event
             /\ client'.lock # p => client.lock # p
        /\ \A p \in D : /\ proc'[p].pc \notin {"await", "open", "finishing"}
                       /\ \A k \in Gens \ {s} : p \notin conn[k].pending /\ p \notin conn[k].streams
    BY <1>1, <1>3, <1>4, <1>5, <1>7 DEF WaitInv
  <2> HIDE DEF D
  <2>2. QED
    BY <1>1, <1>4, <1>6, <2>1, FailWaits
<1>16. DiedInv'
  BY <1>1, <1>2, <1>3, <1>4, <1>5, <1>6, <1>7, <1>8, ProcFacts DEF DiedInv, Orphaned
<1>17. ReplayInv'
  <2> SUFFICES ASSUME client.lock \notin {None, Stop}
               PROVE  ReplayOK(client.lock, proc'[client.lock], conn'[client.gen])
    BY <1>7 DEF ReplayInv
  <2>1. /\ client.lock \in Procs \ {Stop} /\ proc[client.lock].conn = client.gen
        /\ ReplayOK(client.lock, proc[client.lock], conn[client.gen])
    BY <1>1, <1>2 DEF ReplayInv, LockInv
  <2>2. CASE s = client.gen
    BY <1>4, <1>5, <1>6, <2>1, <2>2 DEF ReplayOK, Unborn
  <2>3. CASE s # client.gen
    <3>1. client.lock \notin conn[s].pending
      BY <1>1, <1>4, <2>1, <2>3 DEF WaitInv
    <3>2. conn'[client.gen] = conn[client.gen]
      BY <1>2, <1>6, <2>3
    <3>3. QED
      BY <1>5, <2>1, <3>1, <3>2 DEF ReplayOK, Replaying
  <2>4. QED
    BY <2>2, <2>3
<1>18. QED
  BY <1>9, <1>10, <1>11, <1>12, <1>13, <1>14, <1>15, <1>16, <1>17 DEF ClientInv


\* shutdown begins, and nothing is being started.
LEMMA StopOnlyInv ==
  ASSUME ClientInv, Shutdown, client.starting = None
  PROVE  ClientInv'
<1>1. /\ ShapeInv /\ TaskInv /\ LockInv /\ StopInv /\ ConnInv /\ FaultInv
      /\ WaitInv /\ DiedInv /\ ReplayInv
  BY DEF ClientInv
<1>2. client.gen \in Gens /\ client.gen \in Nat /\ client.lock \in Procs \cup {None}
      /\ client.current \in Gens \cup {None} /\ faults \in Nat /\ client.stop \in BOOLEAN
      /\ client.starting \in Gens \cup {None}
  BY <1>1, Types, ProcFacts DEF ShapeInv
<1>3. proc[Stop].pc = "idle" /\ client.current # None /\ UNCHANGED <<conn, died, faults, since>>
  BY DEF Shutdown, Limits
<1>4. /\ Stop \in Procs /\ Stop \notin Callers /\ Stop # None /\ client.lock # Stop
      /\ proc[Stop].conn = None /\ proc[Stop].ans = "no" /\ proc[Stop].event = "no"
      /\ proc[Stop].op = "none"
  BY <1>1, <1>2, <1>3, ProcFacts DEF LockInv, TaskInv, TaskOK
<1>5. /\ proc' \in [Procs -> Tasks] /\ \A q \in Procs \ {Stop} : proc'[q] = proc[q]
      /\ proc'[Stop].pc = "lock" /\ proc'[Stop].op = proc[Stop].op
      /\ proc'[Stop].req = proc[Stop].req /\ proc'[Stop].conn = proc[Stop].conn
      /\ proc'[Stop].replay = proc[Stop].replay /\ proc'[Stop].ans = proc[Stop].ans
      /\ proc'[Stop].event = proc[Stop].event
  BY <1>1, <1>4, Types DEF Shutdown, Tasks, Places, ShapeInv
<1>6. /\ client' \in Clients /\ client'.current = client.current /\ client'.starting = None
      /\ client'.attempts = client.attempts /\ client'.failed = "shutDown"
      /\ client'.gen = client.gen /\ client'.wanted = client.wanted /\ client'.stop = TRUE
      /\ client'.lock = client.lock
  BY <1>1 DEF Shutdown, ShapeInv, Clients, Links, Failures
<1>7. None <= client.gen
  BY <1>2, ProcFacts DEF None
<1>8. ShapeInv'
  BY <1>1, <1>2, <1>3, <1>4, <1>5, <1>6, <1>7, ProcFacts DEF ShapeInv
<1>9. TaskInv'
  BY <1>1, <1>2, <1>3, <1>4, <1>5, <1>6, <1>7, ProcFacts DEF TaskInv, TaskOK
<1>10. LockInv'
  BY <1>1, <1>2, <1>3, <1>4, <1>5, <1>6, <1>7, ProcFacts DEF LockInv
<1>11. StopInv'
  BY <1>1, <1>2, <1>3, <1>4, <1>5, <1>6, <1>7, ProcFacts DEF StopInv
<1>12. ConnInv'
  BY <1>1, <1>2, <1>3, <1>4, <1>5, <1>6, <1>7, ProcFacts DEF ConnInv, Unborn, Active
<1>13. FaultInv'
  BY <1>1, <1>2, <1>3, <1>4, <1>5, <1>6, <1>7, ProcFacts DEF FaultInv
<1>14. WaitInv'
  <2>1. \A q \in Procs \ {Stop} :
           /\ proc'[q] = proc[q]
           /\ q \in conn'[client.gen].pending <=> q \in conn[client.gen].pending
           /\ q \in conn'[client.gen].streams <=> q \in conn[client.gen].streams
           /\ client'.lock # q => client.lock # q
    BY <1>1, <1>2, <1>3, <1>4, <1>5, <1>6, ProcFacts
  <2>2. \A k \in Gens : Stop \in conn'[k].pending =>
           proc'[Stop].pc = "await" /\ proc'[Stop].conn = k /\ proc'[Stop].ans = "no"
    BY <1>1, <1>2, <1>3, <1>4, <1>5, <1>6 DEF WaitInv
  <2>3. proc'[Stop].pc = "await" /\ proc'[Stop].ans = "no" => Stop \in conn'[proc'[Stop].conn].pending
    BY <1>1, <1>2, <1>3, <1>4, <1>5, <1>6 DEF WaitInv
  <2>4. \A k \in Gens : Stop \in conn'[k].streams =>
           /\ proc'[Stop].pc \in {"await", "open", "finishing"} /\ proc'[Stop].conn = k
           /\ proc'[Stop].event = "no" /\ proc'[Stop].op = "stream"
    BY <1>1, <1>2, <1>3, <1>4, <1>5, <1>6 DEF WaitInv
  <2>5. Stop \in Callers /\ proc'[Stop].event = "no"
        /\ (\/ proc'[Stop].pc \in {"open", "finishing"}
            \/ /\ proc'[Stop].pc = "await" /\ client'.lock # Stop /\ proc'[Stop].op = "stream"
               /\ proc'[Stop].ans \in {"no", "ok"})
           => Stop \in conn'[proc'[Stop].conn].streams
    BY <1>1, <1>2, <1>3, <1>4, <1>5, <1>6 DEF WaitInv
  <2>6. conn' \in [Gens -> Conns]
    BY <1>1, <1>2, <1>3, <1>4, <1>5, <1>6 DEF ShapeInv
  <2>7. QED
    BY <1>1, <1>2, <1>3, <1>4, <2>6, <2>1, <2>2, <2>3, <2>4, <2>5, WaitMoves
<1>15. DiedInv'
  BY <1>1, <1>2, <1>3, <1>4, <1>5, <1>6, <1>7, ProcFacts DEF DiedInv, Orphaned
<1>16. ReplayInv'
  BY <1>1, <1>2, <1>3, <1>4, <1>5, <1>6 DEF ReplayInv
<1>17. QED
  BY <1>8, <1>9, <1>10, <1>11, <1>12, <1>13, <1>14, <1>15, <1>16 DEF ClientInv

-----------------------------------------------------------------------------
(* The invariant holds.                                                    *)

\* The application has one helper, connected and not yet published.
LEMMA InitInv ==
  ASSUME Init
  PROVE  ClientInv
<1> DEFINE h(g) == [up |-> g = 1, dead |-> FALSE, closing |-> FALSE,
                    child |-> IF g = 1 THEN "running" ELSE "none", loaded |-> "none",
                    asked |-> {}, out |-> {}, pending |-> {}, streams |-> {}]
<1>1. /\ client \in Clients /\ client.current = None /\ client.starting = None
      /\ client.attempts = 0 /\ client.failed = "no" /\ client.gen = 1
      /\ client.stop = FALSE /\ client.lock = None
  BY ProcFacts DEF Init, Clients, Links, Counts, Failures, Engine, Holders
<1>2. Idle \in Tasks
  BY DEF Idle, Tasks, Places, Ops, Reqs, Links, Engine, Answers, Events
<1>3. /\ proc \in [Procs -> Tasks]
      /\ \A p \in Procs : /\ proc[p].pc = "idle" /\ proc[p].op = "none" /\ proc[p].req = "none"
                          /\ proc[p].conn = None /\ proc[p].ans = "no" /\ proc[p].event = "no"
  BY <1>2 DEF Init, Idle
<1>4. /\ conn \in [Gens -> Conns]
      /\ \A g \in Gens :
           /\ g = 1 => conn[g].up = TRUE
           /\ g # 1 => conn[g].up = FALSE
           /\ conn[g].dead = FALSE
           /\ conn[g].child = IF g = 1 THEN "running" ELSE "none"
           /\ conn[g].loaded = "none" /\ conn[g].asked = {} /\ conn[g].out = {}
           /\ conn[g].pending = {} /\ conn[g].streams = {}
  <2>1. \A g \in Gens : h(g) \in Conns
    <3>1. /\ {} \in Questions /\ {} \in Letters /\ "none" \in Engine
          /\ {"running", "none"} \subseteq Children
      BY DEF Questions, Letters, Engine, Children
    <3>2. QED
      BY <3>1 DEF Conns
  <2>2. conn = [g \in Gens |-> h(g)]
    BY DEF Init
  <2>3. \A g \in Gens : (g = 1 => conn[g].up = TRUE) /\ (g # 1 => conn[g].up = FALSE)
    <3> SUFFICES ASSUME NEW g \in Gens
                 PROVE  (g = 1 => conn[g].up = TRUE) /\ (g # 1 => conn[g].up = FALSE)
      OBVIOUS
    <3>1. conn[g].up = (g = 1)
      BY <2>2
    <3>2. CASE g = 1
      BY <3>1, <3>2
    <3>3. CASE g # 1
      BY <3>1, <3>3, Zenon
    <3>4. QED
      BY <3>2, <3>3
  <2>4. QED
    BY <2>1, <2>2, <2>3
<1>5. died = {} /\ faults = 0 /\ since = 0
  BY DEF Init
<1> HIDE DEF h
<1>6. ShapeInv
  BY <1>1, <1>3, <1>4, <1>5, ProcFacts DEF ShapeInv, None
<1>7. TaskInv
  BY <1>1, <1>3, ProcFacts DEF TaskInv, TaskOK, None
<1>8. LockInv
  BY <1>1, <1>3, ProcFacts DEF LockInv
<1>9. StopInv
  BY <1>1, <1>3, <1>4, ProcFacts DEF StopInv
<1>10. ConnInv
  <2>1. \A g \in Gens : g > 1 => Unborn(conn[g])
    BY <1>4, ProcFacts DEF Unborn
  <2>2. conn[1].child = "running" /\ ~conn[1].dead /\ 1 \in Gens
    BY <1>4, ProcFacts
  <2>3. \A g \in Gens : ~conn[g].dead /\ conn[g].asked = {} /\ ~(g < 1)
    BY <1>4, ProcFacts
  <2>4. QED
    BY <1>1, <1>3, <2>1, <2>2, <2>3, ProcFacts DEF ConnInv
<1>11. FaultInv
  BY <1>1, <1>4, <1>5, ProcFacts DEF FaultInv
<1>12. WaitInv
  BY <1>3, <1>4, ProcFacts DEF WaitInv
<1>13. DiedInv
  BY <1>3, <1>5, ProcFacts DEF DiedInv
<1>14. ReplayInv
  BY <1>1 DEF ReplayInv
<1>15. QED
  BY <1>6, <1>7, <1>8, <1>9, <1>10, <1>11, <1>12, <1>13, <1>14 DEF ClientInv

\* Every step keeps it.
LEMMA NextInv ==
  ASSUME ClientInv, [Next]_vars
  PROVE  ClientInv'
<1>1. CASE Start \/ Reset
  BY <1>1, StartInv, ResetInv
<1>2. CASE Shutdown
  BY <1>2, StopRestartInv, StopOnlyInv
<1>3. CASE ShutdownTake \/ ShutdownClose
  BY <1>3, TakeStopInv, CloseStopInv
<1>4. ASSUME NEW p \in Procs, Restart(p) \/ Request(p) \/ HelloFails(p)
      PROVE  ClientInv'
  <2>1. CASE Restart(p)
    BY <2>1, LookInv, WakeInv, HelloInv, HelloStoppedInv, ReplayWarmsInv, PublishInv,
       ReplayStoppedInv DEF Restart
  <2>2. CASE Request(p) \/ HelloFails(p)
    BY <2>2, SendInv, TimedOutInv, HelloFailsInv DEF Request
  <2>3. QED
    BY <1>4, <2>1, <2>2
<1>5. ASSUME NEW c \in Callers,
             Result(c) \/ Finish(c) \/ Cancel(c) \/ \E o \in OpsOf[c] : Call(c, o)
      PROVE  ClientInv'
  BY <1>5, AnsweredInv, FinishDeadlineInv, FinishInv, CancelInv, CallInv DEF Result
<1>6. ASSUME NEW g \in Gens,
             Helper(g) \/ Watch(g) \/ Garbled(g)
             \/ \E how \in {"exited", "hung"} : HelperFault(g, how)
      PROVE  ClientInv'
  <2>1. CASE Helper(g)
    <3>1. PICK p \in Procs, r \in Requests, reply \in Replies :
             Serve(g, p, r, reply) \/ Read(g, p, r, reply)
      BY <2>1 DEF Helper, Replies
    <3>2. QED
      BY <3>1, ServeInv, ReplyInv, EndInv
  <2>2. CASE Watch(g) \/ Garbled(g)
    BY <2>2, WatchedInv, ConnDiedInv DEF Watch
  <2>3. CASE \E how \in {"exited", "hung"} : HelperFault(g, how)
    BY <2>3, HelperFaultInv
  <2>4. QED
    BY <1>6, <2>1, <2>2, <2>3
<1>7. CASE UNCHANGED vars
  BY <1>7, StutterInv DEF vars
<1>8. QED
  BY <1>1, <1>2, <1>3, <1>4, <1>5, <1>6, <1>7 DEF Next

\* The inductive invariant holds of every behaviour, whatever the numbers of
\* callers, faults, attempts and resets.
THEOREM ClientInvariance == Spec => []ClientInv
<1>1. Init => ClientInv
  BY InitInv
<1>2. ClientInv /\ [Next]_vars => ClientInv'
  BY NextInv
<1>3. QED
  BY <1>1, <1>2, PTL DEF Spec

-----------------------------------------------------------------------------
(* What it says of the client.                                             *)

\* "One SpeechdClient owns at most one live helper at a time", none after shutdown
\* has returned, and the restart policy's budget is never overdrawn.
THEOREM HelpersStayBounded == Spec => []HelpersAreBounded
<1>1. ClientInv => HelpersAreBounded
  <2> SUFFICES ASSUME ClientInv PROVE HelpersAreBounded
    OBVIOUS
  <2>1. ShapeInv /\ ConnInv /\ StopInv /\ LockInv
    BY DEF ClientInv
  <2>2. TypeOK
    BY <2>1 DEF ShapeInv, TypeOK, Clients, Links, Counts, Holders, Conns, Children, Questions
  <2>3. OneHelper
    <3> DEFINE S == {g \in Gens : conn[g].child \in {"running", "hung"}}
    <3>1. S \subseteq {client.gen}
      BY <2>1, Types, ProcFacts DEF ConnInv, Unborn, Active
    <3>2. IsFiniteSet({client.gen}) /\ Cardinality({client.gen}) = 1
      BY FS_Singleton
    <3>3. IsFiniteSet(S) /\ Cardinality(S) <= Cardinality({client.gen})
      BY <3>1, <3>2, FS_Subset
    <3>4. QED
      BY <3>2, <3>3 DEF OneHelper
  <2>4. ShutdownIsFinal
    <3> SUFFICES ASSUME proc[Stop].pc = "done", NEW g \in Gens
                 PROVE  conn[g].child \notin {"running", "hung"}
      BY DEF ShutdownIsFinal
    <3>1. ~Active(conn[client.gen])
      BY <2>1, Types, ProcFacts DEF ConnInv, StopInv, LockInv
    <3>2. QED
      BY <2>1, <3>1, Types, ProcFacts DEF ConnInv, Unborn, Active
  <2>5. BudgetIsKept
    BY <2>1, Types, ProcFacts DEF ShapeInv, BudgetIsKept
  <2>6. QED
    BY <2>2, <2>3, <2>4, <2>5 DEF HelpersAreBounded
<1>2. QED
  BY <1>1, ClientInvariance, PTL

\* "Nothing waits on a dead helper": whoever waits is registered with a
\* connection that lives, or has been told.
THEOREM NobodyEverWaitsOnTheDead == Spec => []NobodyWaitsOnTheDead
<1>1. ClientInv => NobodyWaitsOnTheDead
  <2> SUFFICES ASSUME ClientInv PROVE NobodyWaitsOnTheDead
    OBVIOUS
  <2>1. ShapeInv /\ ConnInv /\ WaitInv
    BY DEF ClientInv
  <2>2. \A p \in Procs : proc[p].pc = "await" =>
           proc[p].ans # "no" \/ p \in conn[proc[p].conn].pending
    BY <2>1 DEF WaitInv
  <2>3. \A c \in Callers : proc[c].pc \in {"open", "finishing"} =>
           proc[c].event # "no" \/ c \in conn[proc[c].conn].streams
    BY <2>1 DEF WaitInv
  <2>4. \A g \in Gens : conn[g].dead => conn[g].pending = {} /\ conn[g].streams = {}
    BY <2>1 DEF ConnInv
  <2>5. QED
    BY <2>2, <2>3, <2>4 DEF NobodyWaitsOnTheDead
<1>2. QED
  BY <1>1, ClientInvariance, PTL

-----------------------------------------------------------------------------
(* A restart shows neither in what is loaded nor in how a stream ends.     *)

\* Whoever is greeted replays what is noted, and later notes are called late: the
\* caller noting them has another helper than the one being replayed into.
LEMMA NotedStep ==
  ASSUME ClientInv, NotedInv, [Next]_vars
  PROVE  NotedInv'
<1> SUFFICES ASSUME NEW p \in Procs \ {Stop}, client'.lock = p,
                    proc'[p].pc \in {"publish", "send", "await"}, ~late'
             PROVE  client'.wanted = proc'[p].replay
  BY DEF NotedInv
<1>1. /\ ShapeInv /\ LockInv /\ DiedInv /\ TaskInv /\ proc \in [Procs -> Tasks] /\ client \in Clients
      /\ \A q \in Procs : proc[q] \in Tasks
  BY DEF ClientInv, ShapeInv
<1>2. p \in Procs /\ p # Stop /\ p # None
  BY ProcFacts
<1>3. ASSUME client'.lock = client.lock, client'.wanted = client.wanted, UNCHANGED late,
             proc'[p].replay = proc[p].replay, proc[p].pc \in {"publish", "send", "await"}
      PROVE  client'.wanted = proc'[p].replay
  BY <1>3 DEF NotedInv
<1>4. ASSUME client'.lock = client.lock, client'.wanted = client.wanted, UNCHANGED late,
             proc'[p] = proc[p]
      PROVE  client'.wanted = proc'[p].replay
  BY <1>3, <1>4
<1>5. ASSUME NEW g \in Gens, proc' = Told(proc, g), UNCHANGED <<client, late>>
      PROVE  client'.wanted = proc'[p].replay
  BY <1>1, <1>2, <1>3, <1>5, ToldFacts
<1>6. ASSUME NEW q \in Procs, GivenUp(q) PROVE FALSE
  BY <1>1, <1>2, <1>6 DEF GivenUp, Clients
<1>7. CASE Start \/ Reset \/ ShutdownTake \/ ShutdownClose \/ UNCHANGED vars
  <2>1. CASE Start
    BY <1>1, <1>4, <2>1 DEF Start, Clients
  <2>2. CASE Reset
    BY <1>1, <1>2, <2>2 DEF Reset, Clients
  <2>3. CASE ShutdownTake \/ ShutdownClose
    BY <1>1, <1>2, <2>3 DEF ShutdownTake, ShutdownClose, Clients
  <2>4. CASE UNCHANGED vars
    BY <1>4, <2>4 DEF vars
  <2>5. QED
    BY <1>7, <2>1, <2>2, <2>3, <2>4
<1>8. CASE Shutdown
  <2>1. /\ client'.lock = client.lock /\ client'.wanted = client.wanted /\ UNCHANGED late
        /\ client.starting \in Gens \cup {None}
    BY <1>1, <1>8, Types DEF Shutdown, Clients
  <2>2. CASE client.starting = None
    BY <1>1, <1>2, <1>4, <1>8, <2>1, <2>2 DEF Shutdown
  <2>3. CASE client.starting # None
    <3> DEFINE ps == Told(proc, client.starting)
    <3>1. proc' = [ps EXCEPT ![Stop].pc = "lock"]
      BY <1>8, <2>3 DEF Shutdown
    <3>2. ps \in [Procs -> Tasks] /\ ps[p].pc = proc[p].pc /\ ps[p].replay = proc[p].replay
      BY <1>1, <1>2, <2>1, <2>3, ToldFacts
    <3> HIDE DEF ps
    <3>3. proc'[p] = ps[p]
      BY <1>2, <3>1, <3>2
    <3>4. QED
      BY <1>3, <2>1, <3>2, <3>3
  <2>4. QED
    BY <2>2, <2>3
<1>9. ASSUME NEW q \in Procs, Restart(q) \/ Request(q) \/ HelloFails(q)
      PROVE  client'.wanted = proc'[p].replay
  <2>1. CASE Look(q)
    <3>1. client'.lock \in {None, q}
      BY <1>1, <2>1 DEF Look, Clients
    <3>2. p = q /\ proc' = [proc EXCEPT ![q] = [@ EXCEPT !.pc = "wait", !.conn = client.gen + 1]]
      BY <1>1, <1>2, <2>1, <3>1 DEF Look, Clients
    <3>3. QED
      BY <1>1, <3>2 DEF Tasks
  <2>2. CASE Wake(q)
    BY <1>1, <1>2, <2>2 DEF Wake, LockInv, Clients, Tasks
  <2>3. CASE HelloStopped(q) \/ HelloFails(q)
    <3>1. proc[q].pc = "hello" /\ client.lock = q
      BY <1>1, <2>3 DEF HelloStopped, HelloFails, LockInv
    <3>2. CASE client' = client /\ proc' = [proc EXCEPT ![q].pc = "look"]
      <4>1. p = q
        BY <3>1, <3>2
      <4>2. QED
        BY <1>1, <3>2, <4>1 DEF Tasks
    <3>3. CASE client'.lock = None
      BY <1>2, <3>3
    <3>4. QED
      BY <1>1, <2>3, <3>2, <3>3 DEF HelloStopped, HelloFails, Clients
  <2>4. CASE Hello(q)
    <3> DEFINE x == IF client.wanted = "none" THEN "publish" ELSE "send"
               t == [proc[q] EXCEPT !.replay = client.wanted, !.req = "load", !.pc = x,
                                    !.ans = "no"]
    <3>1. proc' = [proc EXCEPT ![q] = t] /\ client' = [client EXCEPT !.starting = proc[q].conn]
      BY <1>6, <2>4 DEF Hello
    <3> HIDE DEF x
    <3>2. t.replay = client.wanted
      BY <1>1 DEF Tasks
    <3> HIDE DEF t
    <3>3. client'.lock = client.lock /\ client'.wanted = client.wanted
      BY <1>1, <3>1 DEF Clients
    <3>4. p = q
      BY <2>4, <3>3 DEF Hello, LockInv, ClientInv
    <3>5. QED
      BY <1>1, <3>1, <3>2, <3>3, <3>4
  <2>5. CASE ReplayWarms(q)
    <3> DEFINE t == [proc[q] EXCEPT !.pc = "send", !.req = "warmup", !.ans = "no"]
    <3>1. /\ proc' = [proc EXCEPT ![q] = t] /\ UNCHANGED <<client, late>> /\ client.lock = q
          /\ proc[q].pc = "await"
      BY <2>5 DEF ReplayWarms, MoreToReplay
    <3>2. t.replay = proc[q].replay
      BY <1>1 DEF Tasks
    <3> HIDE DEF t
    <3>3. p = q /\ proc'[p].replay = proc[p].replay
      BY <1>1, <3>1, <3>2
    <3>4. QED
      BY <1>3, <3>1, <3>3
  <2>6. CASE Publish(q)
    <3>1. client.lock = q
      BY <2>6 DEF Publish
    <3>2. CASE proc[q].ans = "dead"
      <4>1. client'.lock = q /\ proc' = [proc EXCEPT ![q].pc = "look"]
        BY <1>1, <2>6, <3>1, <3>2 DEF Publish, Clients
      <4>2. QED
        BY <1>1, <4>1 DEF Tasks
    <3>3. CASE proc[q].ans # "dead"
      BY <1>1, <1>2, <1>6, <2>6, <3>3 DEF Publish, Published, Clients
    <3>4. QED
      BY <3>2, <3>3
  <2>7. CASE ReplayStopped(q)
    BY <1>6, <2>7 DEF ReplayStopped
  <2>8. CASE Send(q)
    <3> DEFINE u == [proc[q] EXCEPT !.pc = "await"]
               v == [proc[q] EXCEPT !.pc = "await", !.ans = "dead"]
    <3>1. /\ proc' = [proc EXCEPT ![q] = u] \/ proc' = [proc EXCEPT ![q] = v]
          /\ UNCHANGED <<client, late>> /\ proc[q].pc = "send"
      BY <2>8 DEF Send
    <3>2. u.replay = proc[q].replay /\ v.replay = proc[q].replay
      BY <1>1 DEF Tasks
    <3> HIDE DEF u, v
    <3>3. CASE p = q
      BY <1>1, <1>3, <3>1, <3>2, <3>3
    <3>4. CASE p # q
      BY <1>1, <1>2, <1>4, <3>1, <3>4
    <3>5. QED
      BY <3>3, <3>4
  <2>9. CASE TimedOut(q)
    <3>1. proc[q].conn \in Gens
      BY <1>1, <2>9 DEF TimedOut, TaskInv, TaskOK, Tasks, Links
    <3>2. QED
      BY <1>5, <2>9, <3>1 DEF TimedOut
  <2>10. QED
    BY <1>9, <2>1, <2>2, <2>3, <2>4, <2>5, <2>6, <2>7, <2>8, <2>9 DEF Restart, Request
<1>10. ASSUME NEW c \in Callers,
              Result(c) \/ Finish(c) \/ Cancel(c) \/ \E o \in OpsOf[c] : Call(c, o)
       PROVE  client'.wanted = proc'[p].replay
  <2>1. c \in Procs /\ (proc[c].pc = "finishing" => proc[c].conn \in Gens)
    BY <1>1, ProcFacts DEF TaskInv, TaskOK, Tasks, Links
  <2>2. CASE Answered(c)
    <3>1. client'.lock = client.lock
      BY <1>1, <2>2 DEF Answered, Clients
    <3>2. c # p /\ proc[c].conn # client.gen
      BY <1>1, <1>2, <2>1, <2>2, <3>1 DEF Answered, LockInv
    <3>3. client'.wanted = client.wanted /\ ~late
      BY <2>2, <3>2 DEF Answered
    <3>4. proc'[p] = proc[p]
      BY <1>1, <1>2, <2>2, <3>2 DEF Answered, Returns
    <3>5. QED
      BY <3>1, <3>3, <3>4 DEF NotedInv
  <2>3. CASE FinishDeadline(c)
    BY <1>5, <2>1, <2>3 DEF FinishDeadline
  <2>4. CASE Finish(c) \/ Cancel(c) \/ \E o \in OpsOf[c] : Call(c, o)
    <3>1. /\ proc[c].pc \in {"open", "finishing", "idle"} /\ UNCHANGED <<client, late>>
          /\ \A q \in Procs \ {c} : proc'[q] = proc[q]
      BY <1>1, <2>1, <2>4 DEF Finish, Cancel, Call, Entered, Got, Returns
    <3>2. c # p
      BY <1>1, <1>2, <3>1 DEF LockInv
    <3>3. QED
      BY <1>2, <1>4, <3>1, <3>2
  <2>5. QED
    BY <1>10, <2>2, <2>3, <2>4 DEF Result
<1>11. ASSUME NEW g \in Gens,
              Helper(g) \/ Watch(g) \/ Garbled(g)
              \/ \E how \in {"exited", "hung"} : HelperFault(g, how)
       PROVE  client'.wanted = proc'[p].replay
  <2>1. ASSUME NEW q \in Procs, NEW r \in Requests, NEW reply \in {"ok", "refused"},
               Serve(g, q, r, reply) \/ Read(g, q, r, reply)
        PROVE  client'.wanted = proc'[p].replay
    <3>1. client'.lock = client.lock /\ client'.wanted = client.wanted /\ UNCHANGED late
      BY <1>1, <2>1 DEF Serve, Read, Clients
    <3>2. proc'[p].replay = proc[p].replay /\ proc'[p].pc = proc[p].pc
      BY <1>1, <1>2, <2>1 DEF Serve, Read, Tasks
    <3>3. QED
      BY <1>3, <3>1, <3>2
  <2>2. CASE Detect(g) \/ Heartbeat(g) \/ Garbled(g)
    BY <1>5, <2>2 DEF Detect, Heartbeat, Garbled
  <2>3. CASE ConnDied(g)
    <3>1. g \in Procs /\ proc[g].pc = "idle" /\ UNCHANGED <<client, late>>
      BY <1>1, <2>3, ProcFacts DEF ConnDied, DiedInv
    <3>2. g # p
      BY <1>1, <1>2, <3>1 DEF LockInv
    <3>3. proc'[p] = proc[p]
      BY <1>1, <1>2, <2>3, <3>1, <3>2 DEF ConnDied, Entered, Got, Returns
    <3>4. QED
      BY <1>4, <3>1, <3>3
  <2>4. CASE \E how \in {"exited", "hung"} : HelperFault(g, how)
    BY <1>4, <2>4 DEF HelperFault
  <2>5. QED
    BY <1>11, <2>1, <2>2, <2>3, <2>4 DEF Helper, Watch
<1>12. QED
  BY <1>7, <1>8, <1>9, <1>10, <1>11 DEF Next

\* A replay is never wrong about what is noted, but for late notes.
LEMMA NotedAlways == Spec => []NotedInv
<1>1. Init => NotedInv
  BY ProcFacts DEF Init, NotedInv
<1>2. QED
  BY <1>1, NotedStep, ClientInvariance, PTL DEF Spec

\* Every step that publishes a connection after the first is the end of a replay.
LEMMA PublishesReplayed ==
  ASSUME ClientInv, NotedInv, [Next]_vars, client'.current \notin {client.current, None, 1}
  PROVE  \/ proc[client.lock].ans = "refused" \/ conn[client'.current].dead
         \/ conn[client'.current].loaded =
              IF late THEN proc[client.lock].replay ELSE client.wanted
<1>1. ShapeInv /\ LockInv /\ ReplayInv
  BY DEF ClientInv
<1>2. client \in Clients
  BY <1>1 DEF ShapeInv
<1>3. \E p \in Procs : Publish(p) \/ GivenUp(p)
  <2>1. CASE Start \/ Shutdown \/ ShutdownTake \/ ShutdownClose \/ Reset
    BY <1>2, <2>1 DEF Start, Shutdown, ShutdownTake, ShutdownClose, Reset, Clients
  <2>2. ASSUME NEW p \in Procs, Restart(p) \/ Request(p) \/ HelloFails(p)
        PROVE  Publish(p) \/ GivenUp(p)
    <3>1. CASE Look(p)
      BY <1>2, <3>1 DEF Look, Clients
    <3>2. CASE Wake(p) \/ HelloStopped(p) \/ HelloFails(p)
      BY <1>2, <3>2 DEF Wake, HelloStopped, HelloFails, Clients
    <3>3. CASE Hello(p)
      BY <1>2, <3>3 DEF Hello, Clients
    <3>4. CASE ReplayWarms(p) \/ ReplayStopped(p)
      BY <3>4 DEF ReplayWarms, ReplayStopped
    <3>5. CASE Send(p) \/ TimedOut(p)
      BY <3>5 DEF Send, TimedOut
    <3>6. QED
      BY <2>2, <3>1, <3>2, <3>3, <3>4, <3>5 DEF Restart, Request
  <2>3. ASSUME NEW c \in Callers,
               Result(c) \/ Finish(c) \/ Cancel(c) \/ \E o \in OpsOf[c] : Call(c, o)
        PROVE  FALSE
    <3>1. CASE Answered(c)
      <4>1. client'.current = client.current
        BY <1>2, <3>1 DEF Answered, Clients
      <4>2. QED
        BY <4>1
    <3>2. CASE FinishDeadline(c) \/ Finish(c) \/ Cancel(c) \/ \E o \in OpsOf[c] : Call(c, o)
      BY <3>2 DEF FinishDeadline, Finish, Cancel, Call
    <3>3. QED
      BY <2>3, <3>1, <3>2 DEF Result
  <2>4. ASSUME NEW g \in Gens,
               Helper(g) \/ Watch(g) \/ Garbled(g)
               \/ \E how \in {"exited", "hung"} : HelperFault(g, how)
        PROVE  FALSE
    <3>1. ASSUME NEW p \in Procs, NEW r \in Requests, NEW reply \in {"ok", "refused"},
                 Serve(g, p, r, reply) \/ Read(g, p, r, reply)
          PROVE  FALSE
      BY <1>2, <3>1 DEF Serve, Read, Clients
    <3>2. CASE Watch(g) \/ Garbled(g) \/ \E how \in {"exited", "hung"} : HelperFault(g, how)
      BY <3>2 DEF Watch, Detect, Heartbeat, ConnDied, Garbled, HelperFault
    <3>3. QED
      BY <2>4, <3>1, <3>2 DEF Helper
  <2>5. QED
    BY <2>1, <2>2, <2>3, <2>4 DEF Next, vars
<1>4. PICK p \in Procs : Publish(p)
  <2>1. \A p \in Procs : GivenUp(p) => client'.current = client.current
    BY <1>2 DEF GivenUp, Clients
  <2>2. QED
    BY <1>3, <2>1
<1>5. /\ p \in Procs \ {Stop} /\ client.lock = p /\ ~MoreToReplay(p)
      /\ proc[p].pc = "publish" \/ (proc[p].pc = "await" /\ proc[p].ans # "no")
  BY <1>4 DEF Publish
<1>6. /\ proc[p].conn = client.gen /\ ReplayOK(p, proc[p], conn[client.gen])
      /\ proc[p] \in Tasks
  BY <1>1, <1>5, Holding, Types
<1>7. proc[p].ans # "dead" /\ client'.current = client.gen
  BY <1>2, <1>4, <1>6 DEF Publish, GivenUp, Published, Clients
<1>8. late \/ client.wanted = proc[p].replay
  BY <1>5 DEF NotedInv
<1>9. QED
  <2>0. SUFFICES \/ proc[p].ans = "refused" \/ conn[client'.current].dead
                 \/ conn[client'.current].loaded = proc[p].replay
    BY <1>5, <1>8
  <2>1. proc[p].replay \in Engine /\ proc[p].ans \in Answers
    BY <1>6 DEF Tasks
  <2>2. CASE proc[p].pc = "publish"
    BY <1>5, <1>6, <1>7, <2>2 DEF ReplayOK
  <2>3. CASE proc[p].pc = "await" /\ proc[p].ans = "ok"
    BY <1>5, <1>6, <1>7, <2>1, <2>3 DEF ReplayOK, Replaying, After, MoreToReplay, Engine
  <2>4. QED
    BY <1>5, <1>7, <2>1, <2>2, <2>3 DEF Answers

\* A task that gets a connection, or returns, keeps its event or is done.
LEMMA GotEvent ==
  ASSUME NEW ps \in [Procs -> Tasks], NEW p \in Procs, NEW g
  PROVE  \A q \in Procs : Got(ps, p, g)[q].event = ps[q].event \/ Got(ps, p, g)[q].pc = "done"
<1>1. CASE p \in Callers
  BY <1>1 DEF Got, Tasks
<1>2. CASE p \notin Callers
  <2>1. Got(ps, p, g) = Returns(ps, p)
    BY <1>2 DEF Got
  <2>2. SUFFICES ASSUME NEW q \in Procs
                 PROVE  Returns(ps, p)[q].event = ps[q].event \/ Returns(ps, p)[q].pc = "done"
    BY <2>1
  <2>3. CASE q = p
    BY <2>3, ReturnsFacts
  <2>4. CASE q # p
    BY <2>4 DEF Returns
  <2>5. QED
    BY <2>3, <2>4
<1>3. QED
  BY <1>1, <1>2

\* No step changes the last event of a stream but the one that gives it back.
LEMMA EventsStay ==
  ASSUME ClientInv, [Next]_vars, NEW c \in Callers, proc[c].event # "no", proc'[c].pc # "done"
  PROVE  proc'[c].event = proc[c].event
<1>1. /\ ShapeInv /\ WaitInv /\ TaskInv /\ proc \in [Procs -> Tasks] /\ c \in Procs /\ c # Stop
      /\ \A p \in Procs : proc[p] \in Tasks
  BY ProcFacts DEF ClientInv, ShapeInv
<1>2. \A g \in Gens : c \notin conn[g].streams
  BY <1>1 DEF WaitInv
<1>3. \A g \in Gens : Told(proc, g) \in [Procs -> Tasks] /\ Told(proc, g)[c].event = proc[c].event
  BY <1>1, <1>2, ToldFacts
<1>4. \A p \in Procs : Returns(proc, p)[c].event = proc[c].event \/ Returns(proc, p)[c].pc = "done"
  BY <1>1, ReturnsFacts
<1>5. \A g \in Gens : \A p \in Procs : \/ Returns(Told(proc, g), p)[c].event = proc[c].event
                                      \/ Returns(Told(proc, g), p)[c].pc = "done"
  BY <1>1, <1>3, ReturnsFacts
<1>6. CASE Start \/ Reset \/ UNCHANGED vars
  BY <1>6 DEF Start, Reset, vars
<1>7. CASE Shutdown
  <2>1. client.starting \in Gens \cup {None}
    BY <1>1, Types
  <2>2. CASE client.starting = None
    BY <1>1, <1>7, <2>2 DEF Shutdown
  <2>3. CASE client.starting # None
    <3> DEFINE ps == Told(proc, client.starting)
    <3>1. proc' = [ps EXCEPT ![Stop].pc = "lock"]
      BY <1>7, <2>3 DEF Shutdown
    <3>2. ps \in [Procs -> Tasks] /\ ps[c].event = proc[c].event
      BY <1>3, <2>1, <2>3
    <3> HIDE DEF ps
    <3>3. QED
      BY <1>1, <3>1, <3>2
  <2>4. QED
    BY <2>2, <2>3
<1>8. CASE ShutdownTake
  BY <1>1, <1>8 DEF ShutdownTake
<1>9. CASE ShutdownClose
  <2>1. proc[Stop].conn \in Gens
    BY <1>1, <1>9, Types, ProcFacts DEF ShutdownClose, TaskInv, TaskOK, Tasks, Links
  <2>2. QED
    BY <1>5, <1>9, <2>1, ProcFacts DEF ShutdownClose
<1>10. ASSUME NEW p \in Procs, Restart(p) \/ Request(p) \/ HelloFails(p)
       PROVE  proc'[c].event = proc[c].event
  <2>1. proc[p].pc \in {"hello", "send", "await", "publish"} => proc[p].conn \in Gens
    BY <1>1 DEF TaskInv, TaskOK, Tasks, Links
  <2>2. CASE Look(p)
    <3>1. CASE proc' = Got(proc, p, client.current)
      BY <1>1, <3>1, GotEvent
    <3>2. CASE proc' = Returns(proc, p)
      BY <1>4, <3>2
    <3>3. CASE proc' = [proc EXCEPT ![p] = [@ EXCEPT !.pc = "wait", !.conn = client.gen + 1]]
      BY <1>1, <3>3 DEF Tasks
    <3>4. QED
      BY <2>2, <3>1, <3>2, <3>3 DEF Look
  <2>3. CASE Wake(p) \/ HelloStopped(p) \/ HelloFails(p)
    BY <1>1, <1>4, <2>3 DEF Wake, HelloStopped, HelloFails, Tasks
  <2>4. ASSUME GivenUp(p), proc[p].conn \in Gens
        PROVE  proc'[c].event = proc[c].event
    BY <1>5, <2>4 DEF GivenUp
  <2>5. CASE Hello(p)
    <3>1. CASE client.failed # "no"
      BY <2>1, <2>4, <2>5, <3>1 DEF Hello
    <3>2. CASE client.failed = "no"
      <4> DEFINE x == IF client.wanted = "none" THEN "publish" ELSE "send"
                 t == [proc[p] EXCEPT !.replay = client.wanted, !.req = "load", !.pc = x,
                                      !.ans = "no"]
      <4>1. proc' = [proc EXCEPT ![p] = t]
        BY <2>5, <3>2 DEF Hello
      <4> HIDE DEF x
      <4>2. t.event = proc[p].event
        BY <1>1 DEF Tasks
      <4> HIDE DEF t
      <4>3. QED
        BY <1>1, <4>1, <4>2
    <3>3. QED
      BY <3>1, <3>2
  <2>6. CASE ReplayStopped(p)
    BY <2>1, <2>4, <2>6 DEF ReplayStopped
  <2>7. CASE ReplayWarms(p) \/ Send(p)
    <3> DEFINE t == [proc[p] EXCEPT !.pc = "send", !.req = "warmup", !.ans = "no"]
               u == [proc[p] EXCEPT !.pc = "await"]
               v == [proc[p] EXCEPT !.pc = "await", !.ans = "dead"]
    <3>1. \/ proc' = [proc EXCEPT ![p] = t] \/ proc' = [proc EXCEPT ![p] = u]
          \/ proc' = [proc EXCEPT ![p] = v]
      BY <2>7 DEF ReplayWarms, Send
    <3>2. t.event = proc[p].event /\ u.event = proc[p].event /\ v.event = proc[p].event
      BY <1>1 DEF Tasks
    <3> HIDE DEF t, u, v
    <3>3. QED
      BY <1>1, <3>1, <3>2
  <2>8. CASE Publish(p)
    <3>1. CASE proc' = [proc EXCEPT ![p].pc = "look"]
      BY <1>1, <3>1 DEF Tasks
    <3>2. CASE GivenUp(p)
      BY <2>1, <2>4, <2>8, <3>2 DEF Publish
    <3>3. ASSUME NEW w, Published(p, w)
          PROVE  proc'[c].event = proc[c].event
      <4> DEFINE op == proc[p].op
                 r  == IF op = "stream" THEN "open" ELSE op
                 t  == [proc[p] EXCEPT !.ans = "no", !.req = r]
                 ps == [proc EXCEPT ![p] = t]
      <4>1. proc' = Got(ps, p, proc[p].conn)
        BY <3>3 DEF Published
      <4>2. r \in Reqs
        BY <1>1 DEF Reqs, Tasks, Ops, AllOps, Requests
      <4> HIDE DEF r
      <4>3. t \in Tasks /\ t.event = proc[p].event
        BY <1>1, <4>2 DEF Tasks, Answers
      <4> HIDE DEF t
      <4>4. ps \in [Procs -> Tasks] /\ ps[c].event = proc[c].event
        BY <1>1, <4>3
      <4> HIDE DEF ps
      <4>5. QED
        BY <1>1, <4>1, <4>4, GotEvent
    <3>4. QED
      BY <2>8, <3>1, <3>2, <3>3 DEF Publish
  <2>9. CASE TimedOut(p)
    BY <1>3, <2>1, <2>9 DEF TimedOut
  <2>10. QED
    BY <1>10, <2>2, <2>3, <2>5, <2>6, <2>7, <2>8, <2>9 DEF Restart, Request
<1>11. ASSUME NEW d \in Callers,
              Result(d) \/ Finish(d) \/ Cancel(d) \/ \E o \in OpsOf[d] : Call(d, o)
       PROVE  proc'[c].event = proc[c].event
  <2>1. d \in Procs /\ (proc[d].pc = "finishing" => proc[d].conn \in Gens)
    BY <1>1, ProcFacts DEF TaskInv, TaskOK, Tasks, Links
  <2>2. CASE Answered(d)
    BY <1>1, <1>4, <2>1, <2>2 DEF Answered, Tasks
  <2>3. CASE FinishDeadline(d)
    BY <1>3, <2>1, <2>3 DEF FinishDeadline
  <2>4. CASE Finish(d) \/ Cancel(d)
    BY <1>1, <1>4, <2>1, <2>4 DEF Finish, Cancel, Tasks
  <2>5. CASE \E o \in OpsOf[d] : Call(d, o)
    <3>1. PICK o \in OpsOf[d] : Call(d, o)
      BY <2>5
    <3>2. c # d
      BY <1>1, <3>1 DEF Call, TaskInv, TaskOK
    <3>3. QED
      BY <1>1, <2>1, <3>1, <3>2 DEF Call, Entered, Got
  <2>6. QED
    BY <1>11, <2>2, <2>3, <2>4, <2>5 DEF Result
<1>12. ASSUME NEW g \in Gens,
              Helper(g) \/ Watch(g) \/ Garbled(g)
              \/ \E how \in {"exited", "hung"} : HelperFault(g, how)
       PROVE  proc'[c].event = proc[c].event
  <2>1. ASSUME NEW p \in Procs, NEW r \in Requests, NEW reply \in {"ok", "refused"},
               Serve(g, p, r, reply) \/ Read(g, p, r, reply)
        PROVE  proc'[c].event = proc[c].event
    BY <1>1, <1>2, <2>1 DEF Serve, Read, Tasks
  <2>2. CASE Detect(g) \/ Heartbeat(g) \/ Garbled(g)
    BY <1>3, <2>2 DEF Detect, Heartbeat, Garbled
  <2>3. CASE ConnDied(g)
    <3>1. g \in Procs /\ g # c /\ g \notin Callers
      BY ProcFacts
    <3>2. QED
      BY <1>1, <2>3, <3>1, ReturnsFacts DEF ConnDied, Entered, Got
  <2>4. CASE \E how \in {"exited", "hung"} : HelperFault(g, how)
    BY <2>4 DEF HelperFault
  <2>5. QED
    BY <1>12, <2>1, <2>2, <2>3, <2>4 DEF Helper, Watch
<1>13. QED
  BY <1>6, <1>7, <1>8, <1>9, <1>10, <1>11, <1>12 DEF Next

\* A replacement is published only with what is noted of the application's loads and
\* warm-ups (what was noted when it was greeted, if a call to its predecessor is
\* noted after that), and a stream that has had its last event has no other.
THEOREM HandOverStaysClean == Spec => HandOverIsClean
<1>1. ASSUME ClientInv, NotedInv, [Next]_vars
      PROVE  /\ [client'.current \notin {client.current, None, 1} =>
                   LET p == client.lock
                   IN  \/ proc[p].ans = "refused" \/ conn[client'.current].dead
                       \/ conn[client'.current].loaded =
                            IF late THEN proc[p].replay ELSE client.wanted]_vars
             /\ [\A c \in Callers : proc[c].event # "no" /\ proc'[c].pc # "done" =>
                   proc'[c].event = proc[c].event]_vars
  BY <1>1, PublishesReplayed, EventsStay
<1>2. QED
  BY <1>1, ClientInvariance, NotedAlways, PTL DEF Spec, HandOverIsClean, ReplayedFirst, StreamsEndOnce
=============================================================================
