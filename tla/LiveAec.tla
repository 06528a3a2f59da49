------------------------------ MODULE LiveAec ------------------------------
(***************************************************************************)
(* Live echo cancellation of the microphone: the recording pump's owner    *)
(* (fotwd session/processing.rs, live_aec/coordinator.rs), the bounded     *)
(* worker boundary (fotw-pipeline aec_worker.rs) and the frame adapter on  *)
(* the native thread (aec.rs).  The owner never waits for the native call: *)
(* it keeps every original until its cleaned form arrives, and publishes   *)
(* the original itself when that is late, refused, or overtaken by a new   *)
(* route.  A fence number tells the thread's late answers from current     *)
(* ones.                                                                   *)
(*                                                                         *)
(* Audio is intervals [from, to) of the microphone clock; one unit is one  *)
(* backend frame.  Whether a reference can be aligned, and whether a       *)
(* deadline has passed when it is looked at, are free choices.             *)
(***************************************************************************)
EXTENDS Integers, Sequences

CONSTANTS
  Block,       \* frames one microphone write brings
  Delay,       \* the backend's declared delay, in frames
  Queue,       \* queued_blocks: commands the worker's queue holds
  Retain,      \* pending_samples: originals the worker boundary may hold
  WaitCap,     \* originals the coordinator may hold for a reference
  MaxWrites,   \* bound on microphone writes
  MaxRoutes,   \* bound on route changes, lost timing and refused routes
  MaxPanics    \* bound on native failures that unwind the thread

ASSUME AecBounds ==
  /\ {Block, Queue, Retain, WaitCap} \subseteq Nat \ {0}
  /\ {Delay, MaxWrites, MaxRoutes, MaxPanics} \subseteq Nat
  /\ Block <= Retain /\ Block <= WaitCap

VARIABLES
  next,      \* the next microphone frame the owner accepts
  waiting,   \* Coordinator.waiting: intervals waiting for a reference
  pending,   \* Worker.pending: intervals handed to the thread, not yet answered
  retained,  \* Worker.retained: the frames they hold
  fence,     \* the generation of answers still wanted
  open,      \* Worker.commands is there
  stopped,   \* finish or cancel was called
  failed,    \* PumpAec gave processing up for this recording
  plan,      \* what the owner's call under way has left to do
  cmds,      \* the command queue
  results,   \* the result mailbox
  thread,    \* the native thread: where it is, its job and its answer
  adapter,   \* the frame adapter: generation, interval held, health
  pub,       \* what the sink got: the next frame it expects, and whether all fitted
  unseen,    \* the thread died where a submission's poll does not see it
  writes, routes, panics

worker == <<pending, retained, fence, open>>
owner == <<next, waiting, worker, stopped, failed, plan>>
native == <<thread, adapter, unseen>>
bounds == <<writes, routes, panics>>
aecVars == <<owner, cmds, results, native, pub, bounds>>

-----------------------------------------------------------------------------

NoJob == [fence |-> 0, from |-> 0, to |-> 0, reference |-> FALSE, last |-> FALSE]
Idle == [at |-> "recv", job |-> NoJob, answer |-> [fence |-> 0, from |-> 0, to |-> 0]]

AecInit ==
  /\ next = 0 /\ waiting = <<>> /\ pending = <<>> /\ retained = 0 /\ fence = 2
  /\ open = TRUE /\ stopped = FALSE /\ failed = FALSE /\ plan = <<>>
  /\ cmds = <<>> /\ results = <<>>
  /\ thread = Idle
  /\ adapter = [fence |-> 1, from |-> 0, to |-> 0, failed |-> FALSE]
  /\ pub = [at |-> 0, fits |-> TRUE] /\ unseen = FALSE
  /\ writes = 0 /\ routes = 0 /\ panics = 0

(* PumpAec.publish: each interval must start where the last one ended.     *)
Published(p, rs) ==
  IF rs = <<>> THEN p
  ELSE [at |-> rs[Len(rs)].to,
        fits |-> /\ p.fits /\ rs[1].from = p.at
                 /\ \A i \in 1 .. Len(rs) - 1 : rs[i].to = rs[i + 1].from]

-----------------------------------------------------------------------------
(* The worker boundary, on the owner's side.  Its operations transform a   *)
(* record of the owner's fields, because one call makes several.           *)

Owner == [pending |-> pending, retained |-> retained, waiting |-> waiting,
          fence |-> fence, open |-> open, pub |-> pub]

(* fallback: nothing in flight is wanted any more, and every original that *)
(* was is published as it is.                                              *)
Fallback_KeepFence(o) ==
  [o EXCEPT !.pub = Published(@, o.pending), !.pending = <<>>, !.retained = 0]
Fallback(o) ==
  [o EXCEPT !.fence = @ + 1, !.pub = Published(@, o.pending), !.pending = <<>>,
            !.retained = 0]

(* accept: an answer must continue where the oldest original stands and    *)
(* reach no further than the youngest; the originals it covers are dropped *)
(* and the one it ends in is cut.                                          *)
Fits(o, r) ==
  /\ o.pending # <<>>
  /\ r.from = Head(o.pending).from
  /\ r.from < r.to /\ r.to - r.from <= o.retained

Used(s, upto) ==
  CHOOSE n \in 0 .. Len(s) : \A i \in 1 .. Len(s) : i <= n <=> s[i].to <= upto
Unused(s, upto) ==
  LET left == SubSeq(s, Used(s, upto) + 1, Len(s)) IN
  IF left = <<>> THEN left ELSE [left EXCEPT ![1].from = upto]

Accept(o, r) ==
  [o EXCEPT !.pending = Unused(@, r.to), !.retained = @ - (r.to - r.from),
            !.pub = Published(@, <<r>>)]

Take(o, r) ==
  IF r.fence # o.fence THEN o
  ELSE IF Fits(o, r) THEN Accept(o, r)
  ELSE [Fallback(o) EXCEPT !.open = FALSE]

(* Worker::poll: the deadline first, then the answers (never more than the *)
(* mailbox holds), then the news that the thread is gone.  Once the queue  *)
(* is given up and nothing is pending the fence no longer matters.         *)
Timely(o, late) == IF late /\ o.pending # <<>> THEN Fallback(o) ELSE o

Answered(o) ==
  LET step[i \in 0 .. Len(results)] ==
        IF i = 0 THEN o ELSE Take(step[i - 1], results[i])
  IN  step[Len(results)]

Observed(o) ==
  IF /\ thread.at = "gone" /\ Len(results) <= Queue
     /\ o.open \/ o.pending # <<>>
  THEN [Fallback(o) EXCEPT !.open = FALSE] ELSE o

WorkerPoll(o, late) == Observed(Answered(Timely(o, late)))

(* Worker::cancel and release_waiting; what invalidate and reconfigure     *)
(* share: pending originals, then waiting ones.                            *)
Release_WaitingFirst(o) ==
  Fallback([o EXCEPT !.pub = Published(@, o.waiting), !.waiting = <<>>])
Release(o) ==
  [Fallback(o) EXCEPT !.pub = Published(@, o.waiting), !.waiting = <<>>]

Becomes(o) ==
  /\ pending' = o.pending /\ retained' = o.retained /\ waiting' = o.waiting
  /\ fence' = o.fence /\ open' = o.open /\ pub' = o.pub

-----------------------------------------------------------------------------
(* The owner's calls.  A call is a plan of steps the native thread may run *)
(* between.                                                                *)

Free == plan = <<>> /\ ~failed /\ ~stopped

(* push_mic: room for the block, the block itself, a poll, a drain.        *)
WriteMic ==
  /\ Free /\ writes < MaxWrites
  /\ writes' = writes + 1
  /\ plan' = (IF Len(waiting) * Block + Block > WaitCap THEN <<"force">> ELSE <<>>)
               \o <<"enqueue", "poll", "drain">>
  /\ UNCHANGED <<next, waiting, worker, stopped, failed, cmds, results, native, pub,
                 routes, panics>>

(* write_mic once processing was given up: originals, straight through.    *)
WriteRaw ==
  /\ failed /\ plan = <<>> /\ ~stopped /\ writes < MaxWrites
  /\ writes' = writes + 1
  /\ next' = next + Block
  /\ pub' = Published(pub, <<[from |-> next, to |-> next + Block]>>)
  /\ UNCHANGED <<waiting, worker, stopped, failed, plan, cmds, results,
                 native, routes, panics>>

Enqueue ==
  /\ plan # <<>> /\ Head(plan) = "enqueue"
  /\ waiting' = Append(waiting, [from |-> next, to |-> next + Block])
  /\ next' = next + Block
  /\ plan' = Tail(plan)
  /\ UNCHANGED <<worker, stopped, failed, cmds, results, native, pub, bounds>>

(* The pump's idle poll, and append_render's.                              *)
PollCall ==
  /\ Free
  /\ waiting # <<>> \/ pending # <<>>
  /\ plan' = <<"poll", "drain">>
  /\ UNCHANGED <<next, waiting, worker, stopped, failed, cmds, results, native, pub,
                 bounds>>

PollStep ==
  /\ plan # <<>> /\ Head(plan) = "poll"
  /\ \E late \in BOOLEAN : Becomes(WorkerPoll(Owner, late))
  /\ results' = <<>>
  /\ plan' = Tail(plan)
  /\ UNCHANGED <<next, stopped, failed, cmds, native, bounds>>

(* drain, once around its loop up to the poll inside the submission: the   *)
(* front block goes when it is aligned, when it has waited long enough, or *)
(* when it must; otherwise the loop ends.                                  *)
Draining == plan # <<>> /\ Head(plan) \in {"drain", "force"}

DrainStops ==
  /\ Draining
  /\ waiting = <<>> \/ Head(plan) = "drain"
  /\ plan' = Tail(plan)
  /\ UNCHANGED <<next, waiting, worker, stopped, failed, cmds, results, native, pub,
                 bounds>>

DrainNext ==
  /\ Draining
  /\ waiting # <<>>
  /\ \E late \in BOOLEAN : Becomes(WorkerPoll(Owner, late))
  /\ results' = <<>>
  /\ \E must \in BOOLEAN, aligned \in BOOLEAN :
       /\ Head(plan) = "force" => must
       /\ must \/ aligned
       /\ plan' = <<IF must THEN (IF aligned THEN "submitAligned" ELSE "submitAlone")
                    ELSE "try">> \o plan
  /\ UNCHANGED <<next, stopped, failed, cmds, native, bounds>>

(* submit_inner after its poll.  A full boundary defers an unforced block  *)
(* and, forced, turns everything in flight into originals.                 *)
Job(o, r, aligned) ==
  [fence |-> o.fence, from |-> r.from, to |-> r.to, reference |-> aligned, last |-> FALSE]

Admits == {"submitAligned", "submitAlone", "try"}
Admitting == plan # <<>> /\ Head(plan) \in Admits

Full == retained + Block > Retain
Running == open /\ thread.at # "gone"
Busy == Running /\ Len(cmds) >= Queue
Deferred == Head(plan) = "try" /\ (Full \/ Busy)

Room ==
  LET rest == [Owner EXCEPT !.waiting = Tail(@)] IN IF Full THEN Fallback(rest) ELSE rest
Kept(o, r) == [o EXCEPT !.pending = Append(@, r), !.retained = @ + (r.to - r.from)]

(* try_submit returns false: the block stays and the drain ends.           *)
AdmitLater ==
  /\ Admitting /\ Deferred
  /\ plan' = Tail(Tail(plan))
  /\ UNCHANGED <<waiting, worker, pub, cmds>>
  /\ UNCHANGED <<next, stopped, failed, results, native, bounds>>

(* No worker any more: the block is published as it is.                    *)
AdmitRaw ==
  /\ Admitting /\ ~Deferred /\ ~Running
  /\ Becomes([Room EXCEPT !.pub = Published(@, <<Head(waiting)>>)])
  /\ plan' = Tail(plan)
  /\ UNCHANGED <<next, stopped, failed, cmds, results, native, bounds>>

AdmitJob ==
  /\ Admitting /\ ~Deferred /\ Running /\ ~Busy
  /\ Becomes(Kept(Room, Head(waiting)))
  /\ cmds' = Append(cmds, Job(Room, Head(waiting), Head(plan) # "submitAlone"))
  /\ plan' = Tail(plan)
  /\ UNCHANGED <<next, stopped, failed, results, native, bounds>>

(* A full queue: the block joins the originals, and all are published.     *)
AdmitBusy ==
  /\ Admitting /\ ~Deferred /\ Busy
  /\ Becomes(Fallback(Kept(Room, Head(waiting))))
  /\ plan' = Tail(plan)
  /\ UNCHANGED <<next, stopped, failed, cmds, results, native, bounds>>

(* The thread went between the look at its status and the send: the block  *)
(* joins the originals, all are published and the queue is given up.       *)
AdmitLost ==
  /\ Admitting /\ ~Deferred /\ open /\ thread.at = "gone"
  /\ Becomes([Fallback(Kept(Room, Head(waiting))) EXCEPT !.open = FALSE])
  /\ plan' = Tail(plan)
  /\ UNCHANGED <<next, stopped, failed, cmds, results, native, bounds>>

Admit == AdmitLater \/ AdmitRaw \/ AdmitJob \/ AdmitBusy \/ AdmitLost

(* invalidate (a clock or reference discontinuity), reset_timing and       *)
(* reconfigure: a new route, everything older published as it is.          *)
NewRoute ==
  /\ Free /\ routes < MaxRoutes
  /\ routes' = routes + 1
  /\ Becomes(Release(Owner))
  /\ UNCHANGED <<next, stopped, failed, plan, cmds, results, native, writes, panics>>

(* A stale or invalid route, or a clock that ran backwards: fail, cancel.  *)
Fail ==
  /\ Free /\ routes < MaxRoutes
  /\ routes' = routes + 1
  /\ failed' = TRUE
  /\ Becomes([Release(Owner) EXCEPT !.open = FALSE])
  /\ UNCHANGED <<next, stopped, plan, cmds, results, native, writes, panics>>

(* finish: drain everything, ask for the tail, poll until nothing is left  *)
(* or the time is up; then cancel.                                         *)
Finish ==
  /\ plan = <<>> /\ ~stopped
  /\ IF failed THEN stopped' = TRUE /\ UNCHANGED plan
     ELSE plan' = <<"force", "close">> /\ UNCHANGED stopped
  /\ UNCHANGED <<next, waiting, worker, failed, cmds, results, native, pub,
                 bounds>>

CloseQueue ==
  /\ plan # <<>> /\ Head(plan) = "close"
  /\ stopped' = TRUE
  /\ \E late \in BOOLEAN :
       LET o == WorkerPoll(Owner, late)
           sent == o.open /\ thread.at # "gone" /\ Len(cmds) < Queue IN
         /\ Becomes([(IF o.open /\ ~sent THEN Fallback(o) ELSE o) EXCEPT !.open = FALSE])
         /\ cmds' = IF sent THEN Append(cmds, [NoJob EXCEPT !.last = TRUE]) ELSE cmds
  /\ results' = <<>>
  /\ plan' = <<"wait">>
  /\ UNCHANGED <<next, failed, native, bounds>>

Drained == waiting = <<>> /\ pending = <<>>

WaitPolls ==
  /\ plan = <<"wait">>
  /\ ~Drained
  /\ \E late \in BOOLEAN : Becomes(WorkerPoll(Owner, late))
  /\ results' = <<>>
  /\ UNCHANGED <<next, stopped, failed, plan, cmds, native, bounds>>

TimeUp_Leave(o) == [o EXCEPT !.open = FALSE]
TimeUp(o) == [Release(o) EXCEPT !.open = FALSE]

WaitEnds ==
  /\ plan = <<"wait">>
  /\ Becomes(IF Drained THEN Owner ELSE TimeUp(Owner))
  /\ plan' = <<"over">>
  /\ UNCHANGED <<next, stopped, failed, cmds, results, native, bounds>>

-----------------------------------------------------------------------------
(* The native thread.                                                      *)

(* adapter.reset when the fence moved; then the block goes to the backend. *)
Receive ==
  /\ thread.at = "recv"
  /\ cmds # <<>>
  /\ cmds' = Tail(cmds)
  /\ LET job == Head(cmds) IN
     IF job.last
     THEN /\ thread' = IF adapter.fence = fence
                       THEN [thread EXCEPT !.at = "native", !.job = job] ELSE thread
          /\ UNCHANGED <<adapter, unseen>>
     ELSE IF job.fence # fence
     THEN UNCHANGED native
     ELSE /\ thread' = [thread EXCEPT !.at = "native", !.job = job]
          /\ \E broken \in BOOLEAN :
               adapter' = IF adapter.fence = fence THEN adapter
                          ELSE [fence |-> fence, from |-> job.from, to |-> job.from,
                                failed |-> broken]
          /\ UNCHANGED unseen
  /\ UNCHANGED <<owner, results, pub, bounds>>

(* push_render and push_capture: with a reference and a healthy backend    *)
(* all but its delay comes back; without, or on a failure, everything      *)
(* held.  finish returns the delay too.                                    *)
Held(job, ok) ==
  IF job.last \/ ~ok \/ ~job.reference \/ adapter.failed THEN 0 ELSE Delay

Native ==
  /\ thread.at = "native"
  /\ LET job == thread.job
         to == IF job.last THEN adapter.to ELSE job.to IN
     \E ok \in BOOLEAN :
       LET upto == IF to - Held(job, ok) > adapter.from THEN to - Held(job, ok) ELSE adapter.from IN
       /\ adapter' = [adapter EXCEPT !.from = upto, !.to = to, !.failed = @ \/ ~ok]
       /\ thread' = IF upto = adapter.from THEN [thread EXCEPT !.at = "recv", !.job = NoJob]
                    ELSE [at |-> "publish", job |-> NoJob,
                          answer |-> [fence |-> adapter.fence, from |-> adapter.from,
                                      to |-> upto]]
  /\ UNCHANGED <<owner, cmds, results, pub, unseen, bounds>>

(* A native call that unwinds takes the thread with it.  A submission's    *)
(* poll misses it when it falls after that poll, or behind a full mailbox  *)
(* (the poll's rounds are spent before it would see the end).              *)
Panic ==
  /\ thread.at = "native"
  /\ panics < MaxPanics
  /\ panics' = panics + 1
  /\ unseen' = (Admitting \/ Len(results) > Queue)
  /\ thread' = [Idle EXCEPT !.at = "gone"]
  /\ cmds' = <<>>
  /\ UNCHANGED <<owner, results, adapter, pub, writes, routes>>

(* publish: an answer nobody wants is dropped; a full mailbox is waited    *)
(* for.                                                                    *)
Unwanted(answer) == answer.fence # fence

PublishAnswer ==
  /\ thread.at = "publish"
  /\ \/ Unwanted(thread.answer) /\ UNCHANGED results
     \/ /\ ~Unwanted(thread.answer)
        /\ Len(results) <= Queue
        /\ results' = Append(results, thread.answer)
  /\ thread' = Idle
  /\ UNCHANGED <<owner, cmds, adapter, pub, unseen, bounds>>

(* The queue was given up and is empty: the backend is dropped.            *)
ThreadEnds ==
  /\ thread.at = "recv"
  /\ ~open /\ cmds = <<>>
  /\ thread' = [Idle EXCEPT !.at = "gone"]
  /\ UNCHANGED <<owner, cmds, results, adapter, pub, unseen, bounds>>

-----------------------------------------------------------------------------

OwnerSteps ==
  \/ Enqueue \/ PollStep \/ DrainStops \/ DrainNext \/ Admit \/ CloseQueue \/ WaitPolls

AecNext ==
  \/ WriteMic \/ WriteRaw \/ PollCall \/ NewRoute \/ Fail \/ Finish
  \/ OwnerSteps \/ WaitEnds
  \/ Receive \/ Native \/ Panic \/ PublishAnswer \/ ThreadEnds

(* The pump runs and its finish loop is timed; nothing is assumed of the   *)
(* native call, which may hang for ever.                                   *)
AecSpec ==
  /\ AecInit /\ [][AecNext]_aecVars
  /\ WF_aecVars(OwnerSteps) /\ WF_aecVars(WaitEnds)
  /\ WF_aecVars(PublishAnswer) /\ WF_aecVars(Receive) /\ WF_aecVars(ThreadEnds)

-----------------------------------------------------------------------------
(* Properties *)

AecTypeOK ==
  /\ {next, fence} \subseteq Nat
  /\ {open, stopped, failed, unseen} \subseteq BOOLEAN
  /\ thread.at \in {"recv", "native", "publish", "gone"}

(* The sink gets every microphone frame once and in order: what was        *)
(* published, what the worker boundary holds and what waits for a          *)
(* reference follow one another and reach exactly the last frame accepted, *)
(* whatever was late, refused, reset or cancelled.  The one exception: a   *)
(* thread that dies unseen, whose next block overtakes the older originals *)
(* (submit_inner tests is_running after its poll).                         *)
MicTiles ==
  unseen \/
  /\ pub.fits
  /\ LET rest == pending \o waiting IN
       /\ rest # <<>> => rest[1].from = pub.at /\ rest[Len(rest)].to = next
       /\ \A i \in 1..Len(rest) - 1 : rest[i].to = rest[i + 1].from
       /\ rest = <<>> => pub.at = next

(* A backend that neither died nor was stopped stays in use: a late answer, *)
(* a busy queue or a reset never costs the recording its echo canceller.   *)
HealthyIsKept == thread.at # "gone" /\ ~stopped /\ ~failed => open

(* Stopping publishes everything accepted, native thread stuck or not.     *)
StopPublishes ==
  (plan # <<>> /\ Head(plan) = "force" /\ Len(plan) = 2)
    ~> (Drained /\ (pub.at = next \/ unseen))

(* Once processing is given up or over, a thread whose native call returns *)
(* ends, and so releases the backend.                                      *)
ThreadIsReleased == (~open /\ thread.at # "gone") ~> (thread.at \in {"gone", "native"})

(* A recording that stops is written to its last frame and lets go of the  *)
(* backend.                                                                *)
StopSettles == StopPublishes /\ ThreadIsReleased
=============================================================================
