------------------------- MODULE SpeechSourceProofs -------------------------
(***************************************************************************)
(* Proofs about SpeechSource, for any amount of audio, any number of       *)
(* faults, crashes and provider epochs.  Everything rests on who may touch *)
(* the files: one worker commits, one writer appends while input is open,  *)
(* and recovery, projection and retirement wait until neither is there.    *)
(***************************************************************************)
EXTENDS SpeechSource, FiniteSetTheorems, SequenceTheorems, TLAPS

-----------------------------------------------------------------------------
(* The inductive invariant.                                                *)

Kinds == {"switch", "text", "silence", "gap"}
Receipt == [kind: Kinds, from: Nat, to: Nat]
Mark == Nat \cup {None}
Projection == [len: Mark, through: Mark]
Files == [made: {"none", "audio", "all"}, plan: BOOLEAN, processed: BOOLEAN, audio: Nat,
          synced: Nat, half: BOOLEAN, tags: Nat, raw: Nat, journal: Seq(Receipt),
          torn: BOOLEAN, sealed: Mark, complete: Mark, projected: Projection,
          retired: BOOLEAN]
Stream == [mode: Modes \cup {"none", "resume", "prefix"}, stop: BOOLEAN, closed: BOOLEAN,
           end: Nat, fenced: BOOLEAN,
           phase: {"none", "cloud", "local", "complete", "prefixRecovered", "incomplete"},
           failed: BOOLEAN, lock: {"free", "write"}]
Gone == {"none", "native"}
Thread == [pc: Gone \cup {"run", "step", "closing", "infer", "commit", "publish", "check",
                          "complete", "exit"},
           local: BOOLEAN, end: Nat, cursor: Nat, sent: Nat, item: Mark,
           kind: Kinds \cup {"none"}, tail: BOOLEAN, ok: BOOLEAN, epoch: Nat]
Answers == {"true", "false", "dropped"}

TypeInv ==
  /\ disk \in Files /\ st \in Stream /\ w \in Thread
  /\ fin \in {"idle", "waiting"} \cup Answers /\ sealer \in {"idle", "queued", "done"}
  /\ proj \in Projection /\ rows \in Nat /\ shown \in Seq(Receipt) /\ accepted \in Nat

(* Receipts cover synced audio only.  Of a completion marker nothing can be *)
(* taken back: the audio it covers is committed and synced, to the end.     *)
AudioInv ==
  /\ Committed(disk.journal) <= disk.synced /\ disk.synced <= disk.audio
  /\ disk.complete # None => /\ disk.complete = disk.audio /\ disk.synced = disk.audio
                             /\ Committed(disk.journal) = disk.audio

(* The worker works inside a stream, on audio that is there.                *)
WorkerInv ==
  /\ w.pc \notin Gone => /\ st.mode # "none" /\ w.end <= disk.audio /\ w.sent <= disk.audio
  /\ w.pc \in {"infer", "commit"} =>
       w.item \in Nat /\ Committed(disk.journal) < w.item /\ w.item <= disk.audio
  /\ w.pc = "commit" => w.kind \in Kinds

(* The stream: input that was closed stays closed, and what a live stream   *)
(* accepted is the file, unless a write failed, which ends publication.     *)
GateInv ==
  /\ st.mode # "none" => st.end <= disk.audio /\ disk.made = "all" /\ ~disk.retired
  /\ st.mode = "none" => st.lock = "free" /\ st.phase # "complete"
  /\ st.lock = "write" => st.mode \in Modes
  /\ st.closed => st.stop /\ st.lock = "free"
  /\ st.mode \in Modes /\ ~st.failed => accepted = disk.audio
  /\ st.failed => st.fenced /\ st.phase # "complete"
  /\ disk.made = "none" => disk.audio = 0 /\ accepted = 0
  /\ fin = "waiting" => st.mode \in Modes
  /\ sealer = "queued" => st.stop

(* What was shown has a receipt; the receipt about to be shown follows it.  *)
ShownInv ==
  /\ \A i \in DOMAIN shown :
       /\ \E k \in DOMAIN disk.journal : disk.journal[k] = shown[i]
       /\ shown[i].to <= Committed(disk.journal)
  /\ \A i, j \in DOMAIN shown : i < j => shown[i].to <= shown[j].from
  /\ w.pc = "publish" =>
       /\ disk.journal # <<>>
       /\ \A i \in DOMAIN shown : shown[i].to <= Last(disk.journal).from

(* Success is announced of a source that is complete and has no more input. *)
DoneInv ==
  /\ (w.pc = "exit" /\ w.ok /\ st.mode # "prefix") => IsComplete(disk) /\ st.closed
  /\ st.phase = "complete" => IsComplete(disk) /\ st.closed
  /\ fin = "true" => /\ IsComplete(disk) /\ disk.audio = accepted
                     /\ st.mode = "none" \/ st.closed

(* After the answer the fence is down, or the worker gone.                  *)
AnswerInv == fin \in Answers => st.fenced \/ w.pc \in Gone

(* The library never holds more than the journal, nor an acknowledgement    *)
(* more than the library; retired files have no owner any more.             *)
LibraryInv ==
  /\ rows <= Len(disk.journal)
  /\ proj # NoProjection => rows = proj.len
  /\ disk.projected # NoProjection => disk.projected.len <= rows
  /\ disk.retired => /\ disk.made = "all" /\ st.mode = "none" /\ w.pc \in Gone
                     /\ disk.complete # None /\ rows = Len(disk.journal)

SourceInv ==
  /\ TypeInv /\ AudioInv /\ WorkerInv /\ GateInv /\ ShownInv /\ DoneInv /\ AnswerInv
  /\ LibraryInv

-----------------------------------------------------------------------------
(* Lemmas about the operators.                                             *)

\* An entry added to a journal: what was there stays, and the entry's end is
\* what is committed.
LEMMA Grown ==
  ASSUME NEW j \in Seq(Receipt), NEW e \in Receipt
  PROVE  LET k == j \o <<e>> IN
         /\ k \in Seq(Receipt) /\ k # <<>> /\ Len(k) = Len(j) + 1
         /\ Last(k) = e /\ Committed(k) = e.to
         /\ \A i \in DOMAIN j : i \in DOMAIN k /\ k[i] = j[i]
         /\ k[Len(k)] = e /\ Len(k) \in DOMAIN k
<1> DEFINE k == j \o <<e>>
<1>1. /\ k \in Seq(Receipt) /\ Len(k) = Len(j) + 1 /\ Len(j) \in Nat
      /\ \A i \in 1..Len(k) : k[i] = IF i <= Len(j) THEN j[i] ELSE <<e>>[i - Len(j)]
  BY ConcatProperties
<1> HIDE DEF k
<1>2. /\ DOMAIN k = 1..Len(k) /\ DOMAIN j = 1..Len(j) /\ k[Len(k)] = e
  BY <1>1
<1>3. k # <<>>
  BY <1>1
<1>4. QED
  BY <1>1, <1>2, <1>3 DEF k, Last, Committed

\* What a journal has committed, and its epoch, are numbers.
LEMMA JournalTypes ==
  ASSUME NEW j \in Seq(Receipt)
  PROVE  Committed(j) \in Nat /\ Epoch(j) \in Nat
<1>1. Committed(j) \in Nat
  <2>1. CASE j = <<>>
    BY <2>1 DEF Committed
  <2>2. CASE j # <<>>
    <3>1. Len(j) \in 1..Len(j)
      BY <2>2, EmptySeq, LenProperties
    <3>2. j[Len(j)] \in Receipt
      BY <3>1, ElementOfSeq
    <3>3. QED
      BY <2>2, <3>2 DEF Committed, Last, Receipt
  <2>3. QED
    BY <2>1, <2>2
<1>2. Epoch(j) \in Nat
  <2>1. IsFiniteSet(DOMAIN j)
    BY FS_Interval, LenProperties
  <2>2. IsFiniteSet(Switches(j))
    BY <2>1, FS_Subset DEF Switches
  <2>3. QED
    BY <2>2, FS_CardinalityType DEF Epoch
<1>3. QED
  BY <1>1, <1>2

\* The entry that notes a change of provider commits nothing.
LEMMA SwitchType ==
  ASSUME NEW j \in Seq(Receipt)
  PROVE  [kind |-> "switch", from |-> Committed(j), to |-> Committed(j)] \in Receipt
  BY JournalTypes DEF Receipt, Kinds

\* The first outcome of a stream stands.
LEMMA TerminalFacts ==
  ASSUME NEW s \in Stream, NEW phase \in {"complete", "prefixRecovered", "incomplete"}
  PROVE  LET t == Terminal(s, phase) IN
         /\ t \in Stream /\ t.fenced /\ t.mode = s.mode /\ t.stop = s.stop
         /\ t.closed = s.closed /\ t.end = s.end /\ t.failed = s.failed /\ t.lock = s.lock
         /\ t.phase \in {s.phase, phase} /\ (s.fenced => t.phase = s.phase)
<1>1. CASE s.fenced
  BY <1>1 DEF Terminal
<1>2. CASE ~s.fenced
  <2> DEFINE t == [s EXCEPT !.fenced = TRUE, !.phase = phase]
  <2>1. /\ t \in Stream /\ t.fenced /\ t.mode = s.mode /\ t.stop = s.stop
        /\ t.closed = s.closed /\ t.end = s.end /\ t.failed = s.failed /\ t.lock = s.lock
        /\ t.phase = phase
    BY DEF Stream
  <2>2. Terminal(s, phase) = t
    BY <1>2 DEF Terminal
  <2>3. QED
    BY <1>2, <2>1, <2>2
<1>3. QED
  BY <1>1, <1>2

\* A worker that ends has nothing in hand.
LEMMA EndsFacts ==
  ASSUME NEW ok \in BOOLEAN, Ends(ok)
  PROVE  /\ w' \in Thread /\ w'.pc = "exit" /\ w'.ok = ok /\ w'.end = 0 /\ w'.sent = 0
<1>1. 0 \in Nat /\ None \in Mark
  BY DEF Mark
<1>2. w' = [NoWorker EXCEPT !.pc = "exit", !.ok = ok]
  BY DEF Ends
<1>3. QED
  BY <1>1, <1>2 DEF NoWorker, Thread, Gone

\* A launched stream starts its worker at what is committed.
LEMMA LaunchFacts ==
  ASSUME NEW mode \in Modes \cup {"resume", "prefix"}, NEW d \in Files, NEW from \in Nat,
         NEW to \in Nat, NEW frozen \in BOOLEAN, Launch(mode, d, from, to, frozen)
  PROVE  /\ st' \in Stream /\ st'.mode = mode /\ st'.stop = frozen /\ st'.closed = frozen
         /\ st'.end = to /\ st'.lock = "free" /\ st'.phase \in {"cloud", "local"} /\ ~st'.failed
         /\ w' \in Thread /\ w'.pc = "run" /\ w'.end = 0 /\ w'.sent = from
         /\ fin' = "idle" /\ sealer' = "idle"
<1> DEFINE phase == IF mode \in {"cloudOnly", "cloud"} THEN "cloud" ELSE "local"
           loc == mode \notin {"cloudOnly", "cloud"}
           ep == Epoch(d.journal)
<1>1. phase \in {"cloud", "local"} /\ loc \in BOOLEAN /\ ep \in Nat
  BY JournalTypes DEF Files
<1>2. /\ st' = [NoStream EXCEPT !.mode = mode, !.stop = frozen, !.closed = frozen, !.end = to,
                                !.phase = phase]
      /\ w' = [NoWorker EXCEPT !.pc = "run", !.local = loc, !.cursor = from, !.sent = from,
                               !.epoch = ep]
      /\ fin' = "idle" /\ sealer' = "idle"
  BY DEF Launch
<1> HIDE DEF phase, loc, ep
<1>3. 0 \in Nat /\ None \in Mark
  BY DEF Mark
<1>4. /\ st' \in Stream /\ st'.mode = mode /\ st'.stop = frozen /\ st'.closed = frozen
      /\ st'.end = to /\ st'.lock = "free" /\ st'.phase = phase /\ ~st'.failed
  BY <1>1, <1>2, <1>3 DEF NoStream, Stream
<1>5. w' \in Thread /\ w'.pc = "run" /\ w'.end = 0 /\ w'.sent = from
  BY <1>1, <1>2, <1>3 DEF NoWorker, Thread, Gone
<1>6. QED
  BY <1>1, <1>2, <1>4, <1>5

\* What was shown keeps its receipts in a journal that only grows.
LEMMA ShownStays ==
  ASSUME SourceInv, UNCHANGED shown, disk' \in Files, w'.pc # "publish",
         \/ disk'.journal = disk.journal
         \/ \E e \in Receipt : /\ disk'.journal = disk.journal \o <<e>>
                               /\ Committed(disk.journal) <= e.to
  PROVE  /\ ShownInv'
         /\ Committed(disk'.journal) \in Nat
         /\ Len(disk.journal) <= Len(disk'.journal)
<1>1. disk.journal \in Seq(Receipt) /\ disk'.journal \in Seq(Receipt)
  BY DEF SourceInv, TypeInv, Files
<1>2. Committed(disk.journal) \in Nat /\ Committed(disk'.journal) \in Nat /\ Len(disk.journal) \in Nat
  BY <1>1, JournalTypes, LenProperties
<1>3. /\ Committed(disk.journal) <= Committed(disk'.journal)
      /\ Len(disk.journal) <= Len(disk'.journal)
      /\ \A i \in DOMAIN disk.journal :
           i \in DOMAIN disk'.journal /\ disk'.journal[i] = disk.journal[i]
  <2>1. CASE disk'.journal = disk.journal
    BY <1>2, <2>1
  <2>2. CASE disk'.journal # disk.journal
    <3>1. PICK e \in Receipt : /\ disk'.journal = disk.journal \o <<e>>
                               /\ Committed(disk.journal) <= e.to
      BY <2>2
    <3>2. QED
      BY <1>1, <1>2, <3>1, Grown
  <2>3. QED
    BY <2>1, <2>2
<1>4. \A i \in DOMAIN shown : shown[i].to \in Nat
  <2>1. shown \in Seq(Receipt)
    BY DEF SourceInv, TypeInv
  <2>2. \A i \in DOMAIN shown : shown[i] \in Receipt
    BY <2>1
  <2>3. QED
    BY <2>2 DEF Receipt
<1>5. QED
  BY <1>2, <1>3, <1>4 DEF SourceInv, ShownInv

-----------------------------------------------------------------------------
(* The invariant holds at the start.                                       *)

LEMMA InitInv == Init => SourceInv
<1> SUFFICES ASSUME Init PROVE SourceInv
  OBVIOUS
<1> USE DEF Init
<1>1. <<>> \in Seq(Receipt) /\ Committed(<<>>) = 0 /\ 0 \in Nat /\ None \in Mark /\ Len(<<>>) = 0
  BY DEF Committed, Mark
<1>2. NoProjection \in Projection
  BY <1>1 DEF NoProjection, Projection
<1>3. /\ disk \in Files /\ disk.journal = <<>> /\ disk.audio = 0 /\ disk.synced = 0
      /\ disk.complete = None /\ disk.made = "none" /\ ~disk.retired
      /\ disk.projected = NoProjection
  BY <1>1, <1>2 DEF NoFiles, Files
<1>4. /\ st \in Stream /\ st.mode = "none" /\ st.lock = "free" /\ st.phase = "none" /\ ~st.closed
      /\ ~st.failed
  BY DEF NoStream, Stream
<1>5. w \in Thread /\ w.pc = "none"
  BY <1>1 DEF NoWorker, Thread, Gone
<1>6. TypeInv
  BY <1>1, <1>2, <1>3, <1>4, <1>5 DEF TypeInv
<1>7. AudioInv /\ WorkerInv /\ GateInv /\ DoneInv /\ AnswerInv /\ LibraryInv
  BY <1>1, <1>3, <1>4, <1>5 DEF AudioInv, WorkerInv, GateInv, DoneInv, AnswerInv, LibraryInv,
     Answers, Gone, Modes
<1>8. ShownInv
  BY <1>5 DEF ShownInv
<1>9. QED
  BY <1>6, <1>7, <1>8 DEF SourceInv

-----------------------------------------------------------------------------
(* The worker.                                                             *)

\* The worker's own steps: the files and the stream are as they were.
LEMMA WorkerMoves ==
  ASSUME SourceInv, UNCHANGED <<disk, st, fin, sealer, proj, rows, shown, accepted>>,
         w.pc \notin Gone, w' \in Thread, w'.end <= disk.audio, w'.sent <= disk.audio,
         w'.pc \in {"infer", "commit"} =>
            w'.item \in Nat /\ Committed(disk.journal) < w'.item /\ w'.item <= disk.audio,
         w'.pc = "commit" => w'.kind \in Kinds,
         w'.pc # "publish", w'.pc = "exit" => ~w'.ok, w'.pc \notin Gone
  PROVE  SourceInv'
<1>1. TypeInv' /\ AudioInv' /\ GateInv'
  BY DEF SourceInv, TypeInv, AudioInv, GateInv
<1>2. WorkerInv' /\ AnswerInv' /\ LibraryInv'
  BY DEF SourceInv, WorkerInv, AnswerInv, LibraryInv
<1>3. ShownInv' /\ DoneInv'
  BY DEF SourceInv, ShownInv, DoneInv, IsComplete, SealHolds, CanMark
<1>4. QED
  BY <1>1, <1>2, <1>3 DEF SourceInv

\* What every step of the worker may assume.
LEMMA WorkerFacts ==
  ASSUME SourceInv
  PROVE  /\ disk \in Files /\ st \in Stream /\ w \in Thread
         /\ disk.audio \in Nat /\ disk.synced \in Nat /\ disk.journal \in Seq(Receipt)
         /\ Committed(disk.journal) \in Nat /\ Epoch(disk.journal) \in Nat
         /\ Committed(disk.journal) <= disk.synced /\ disk.synced <= disk.audio
         /\ w.pc \notin Gone => w.end <= disk.audio /\ w.sent <= disk.audio /\ st.mode # "none"
         /\ w.end \in Nat /\ w.sent \in Nat /\ st.end \in Nat
         /\ st.mode # "none" => st.end <= disk.audio
<1>1. disk \in Files /\ st \in Stream /\ w \in Thread
  BY DEF SourceInv, TypeInv
<1>2. /\ disk.audio \in Nat /\ disk.synced \in Nat /\ disk.journal \in Seq(Receipt)
      /\ w.end \in Nat /\ w.sent \in Nat /\ st.end \in Nat
  BY <1>1 DEF Files, Thread, Stream
<1>3. QED
  BY <1>1, <1>2, JournalTypes DEF SourceInv, AudioInv, WorkerInv, GateInv

\* A worker that gives up, of whatever cause.
LEMMA GivesUp ==
  ASSUME SourceInv, UNCHANGED <<disk, st, fin, sealer, proj, rows, shown, accepted>>,
         w.pc \notin Gone, Ends(FALSE)
  PROVE  SourceInv'
<1>1. w' \in Thread /\ w'.pc = "exit" /\ w'.ok = FALSE /\ w'.end = 0 /\ w'.sent = 0
  BY EndsFacts
<1>2. disk.audio \in Nat
  BY WorkerFacts
<1>3. QED
  BY <1>1, <1>2, WorkerMoves DEF Gone

\* The steps of the loop that change nothing but the worker.
LEMMA LoopInv ==
  ASSUME SourceInv, \/ Fenced \/ CloudFinal \/ CloudSurfaces \/ LoadEnd \/ CloudStep
                    \/ CloudSettles \/ LocalStep \/ Infer \/ LocalCheck
  PROVE  SourceInv'
<1> USE DEF others, outside
<1>1. UNCHANGED <<disk, st, fin, sealer, proj, rows, shown, accepted>>
  BY DEF Fenced, CloudFinal, CloudSurfaces, LoadEnd, CloudStep, CloudSettles, LocalStep, Infer,
     LocalCheck
<1>2. w.pc \notin Gone
  BY DEF Fenced, CloudFinal, CloudSurfaces, LoadEnd, CloudStep, CloudSettles, LocalStep, Infer,
     LocalCheck, Gone
<1>3. /\ w \in Thread /\ disk.audio \in Nat /\ w.end <= disk.audio /\ w.sent <= disk.audio
      /\ Committed(disk.journal) \in Nat /\ w.end \in Nat /\ w.sent \in Nat /\ st.end \in Nat
      /\ st.end <= disk.audio
  BY <1>2, WorkerFacts
<1>4. CASE Ends(FALSE)
  BY <1>1, <1>2, <1>4, GivesUp
<1>5. CASE Fenced \/ CloudSurfaces
  BY <1>4, <1>5 DEF Fenced, CloudSurfaces
<1>6. CASE CloudFinal
  <2>1. PICK to \in Committed(disk.journal) + 1 .. w.sent :
               w' = [w EXCEPT !.pc = "commit", !.item = to, !.kind = "text"]
    BY <1>6 DEF CloudFinal
  <2>2. to \in Nat /\ Committed(disk.journal) < to /\ to <= disk.audio
    BY <1>3
  <2>3. /\ w' \in Thread /\ w'.pc = "commit" /\ w'.item = to /\ w'.kind = "text"
        /\ w'.end = w.end /\ w'.sent = w.sent
    BY <1>3, <2>1, <2>2 DEF Thread, Gone, Mark, Kinds
  <2>4. QED
    BY <1>1, <1>2, <1>3, <2>2, <2>3, WorkerMoves DEF Gone, Kinds
<1>7. CASE LoadEnd \/ CloudSettles
  <2>1. /\ w' \in Thread /\ w'.pc \in {"run", "step"} /\ w'.end <= disk.audio /\ w'.sent = w.sent
    BY <1>3, <1>7 DEF LoadEnd, CloudSettles, Thread, Gone
  <2>2. QED
    BY <1>1, <1>2, <1>3, <2>1, WorkerMoves DEF Gone
<1>8. CASE CloudStep
  <2>1. PICK sent \in {w.sent, w.end}, pc \in {"run", "complete", "closing"} :
               w' = [w EXCEPT !.sent = sent, !.pc = pc]
    BY <1>8 DEF CloudStep
  <2>2. w' \in Thread /\ w'.pc = pc /\ w'.sent = sent /\ w'.end = w.end
    BY <1>3, <2>1 DEF Thread, Gone
  <2>3. QED
    BY <1>1, <1>2, <1>3, <2>2, WorkerMoves DEF Gone
<1>9. CASE LocalStep
  <2> DEFINE read == [w EXCEPT !.cursor = w.end]
  <2>1. read \in Thread /\ read.end = w.end /\ read.sent = w.sent
    BY <1>3 DEF Thread
  <2>2. \/ \E to \in Committed(disk.journal) + 1 .. w.end :
               \/ w' = [read EXCEPT !.pc = "infer", !.item = to]
               \/ w' = [read EXCEPT !.pc = "commit", !.item = to, !.kind = "silence"]
        \/ w' = [read EXCEPT !.pc = "check"]
        \/ w' = [w EXCEPT !.pc = "check"]
    BY <1>9 DEF LocalStep
  <2> HIDE DEF read
  <2>3. CASE \E v \in {read, w} : w' = [v EXCEPT !.pc = "check"]
    <3>1. w' \in Thread /\ w'.pc = "check" /\ w'.end = w.end /\ w'.sent = w.sent
      BY <1>3, <2>1, <2>3 DEF Thread, Gone
    <3>2. QED
      BY <1>1, <1>2, <1>3, <3>1, WorkerMoves DEF Gone
  <2>4. CASE \E to \in Committed(disk.journal) + 1 .. w.end :
               \/ w' = [read EXCEPT !.pc = "infer", !.item = to]
               \/ w' = [read EXCEPT !.pc = "commit", !.item = to, !.kind = "silence"]
    <3>1. PICK to \in Committed(disk.journal) + 1 .. w.end :
               \/ w' = [read EXCEPT !.pc = "infer", !.item = to]
               \/ w' = [read EXCEPT !.pc = "commit", !.item = to, !.kind = "silence"]
      BY <2>4
    <3>2. to \in Nat /\ Committed(disk.journal) < to /\ to <= disk.audio
      BY <1>3
    <3>3. /\ w' \in Thread /\ w'.pc \in {"infer", "commit"} /\ w'.item = to
          /\ w'.pc = "commit" => w'.kind = "silence"
          /\ w'.end = w.end /\ w'.sent = w.sent
      BY <2>1, <3>1, <3>2 DEF Thread, Gone, Mark, Kinds
    <3>4. QED
      BY <1>1, <1>2, <1>3, <3>2, <3>3, WorkerMoves DEF Gone, Kinds
  <2>5. QED
    BY <2>2, <2>3, <2>4
<1>10. CASE Infer
  <2>1. CASE \E kind \in {"text", "gap"} : w' = [w EXCEPT !.pc = "commit", !.kind = kind]
    <3>1. PICK kind \in {"text", "gap"} : w' = [w EXCEPT !.pc = "commit", !.kind = kind]
      BY <2>1
    <3>2. /\ w' \in Thread /\ w'.pc = "commit" /\ w'.item = w.item /\ w'.kind = kind
          /\ w'.end = w.end /\ w'.sent = w.sent
      BY <1>3, <3>1 DEF Thread, Gone, Kinds
    <3>3. w.item \in Nat /\ Committed(disk.journal) < w.item /\ w.item <= disk.audio
      BY <1>10 DEF Infer, SourceInv, WorkerInv
    <3>4. QED
      BY <1>1, <1>2, <1>3, <3>2, <3>3, WorkerMoves DEF Gone, Kinds
  <2>2. QED
    BY <1>4, <1>10, <2>1 DEF Infer
<1>11. CASE LocalCheck
  <2>1. CASE \E pc \in {"complete", "run"} : w' = [w EXCEPT !.pc = pc]
    <3>1. w' \in Thread /\ w'.pc \in {"complete", "run"} /\ w'.end = w.end /\ w'.sent = w.sent
      BY <1>3, <2>1 DEF Thread, Gone
    <3>2. QED
      BY <1>1, <1>2, <1>3, <3>1, WorkerMoves DEF Gone
  <2>2. CASE /\ Committed(disk.journal) < w.end
             /\ \/ w' = [w EXCEPT !.pc = "infer", !.item = w.end, !.tail = TRUE]
                \/ w' = [w EXCEPT !.pc = "commit", !.item = w.end, !.kind = "silence",
                                  !.tail = TRUE]
    <3>1. /\ w' \in Thread /\ w'.pc \in {"infer", "commit"} /\ w'.item = w.end
          /\ w'.pc = "commit" => w'.kind = "silence"
          /\ w'.end = w.end /\ w'.sent = w.sent
      BY <1>3, <2>2 DEF Thread, Gone, Mark, Kinds
    <3>2. QED
      BY <1>1, <1>2, <1>3, <2>2, <3>1, WorkerMoves DEF Gone, Kinds
  <2>3. QED
    BY <1>11, <2>1, <2>2 DEF LocalCheck
<1>12. QED
  BY <1>5, <1>6, <1>7, <1>8, <1>9, <1>10, <1>11

\* What the worker writes goes to the journal, up to the audio that is synced.
LEMMA WorkerWrites ==
  ASSUME SourceInv, w.pc \notin Gone, UNCHANGED <<fin, sealer, proj, rows, shown, accepted>>,
         disk' \in Files, disk'.audio = disk.audio, disk'.made = disk.made,
         disk'.retired = disk.retired, disk'.complete = disk.complete,
         disk'.sealed = disk.sealed, disk'.half = disk.half, disk'.projected = disk.projected,
         disk'.synced \in {disk.synced, disk.audio},
         \/ disk'.journal = disk.journal
         \/ \E e \in Receipt : /\ disk'.journal = disk.journal \o <<e>>
                               /\ Committed(disk.journal) <= e.to /\ e.to <= disk'.synced,
         st' \in Stream, st'.mode = st.mode, st'.closed = st.closed, st'.stop = st.stop,
         st'.lock = st.lock, st'.end = st.end, st'.fenced = st.fenced, st'.failed = st.failed,
         st'.phase \in {st.phase, "local"},
         w' \in Thread, w'.end <= disk.audio, w'.sent <= disk.audio,
         w'.pc \in {"run", "publish", "exit"}, w'.pc = "exit" => ~w'.ok, ShownInv'
  PROVE  SourceInv'
<1>1. /\ disk.audio \in Nat /\ disk.synced \in Nat /\ disk.journal \in Seq(Receipt)
      /\ Committed(disk.journal) \in Nat
      /\ Committed(disk.journal) <= disk.synced /\ disk.synced <= disk.audio
  BY WorkerFacts
<1>2. /\ Committed(disk'.journal) \in Nat /\ Committed(disk.journal) <= Committed(disk'.journal)
      /\ Committed(disk'.journal) <= disk'.synced
      /\ Len(disk.journal) <= Len(disk'.journal) /\ Len(disk.journal) \in Nat
      /\ Len(disk'.journal) \in Nat
  <2>1. CASE disk'.journal = disk.journal
    BY <1>1, <2>1, LenProperties
  <2>2. CASE disk'.journal # disk.journal
    <3>1. PICK e \in Receipt : /\ disk'.journal = disk.journal \o <<e>>
                               /\ Committed(disk.journal) <= e.to /\ e.to <= disk'.synced
      BY <2>2
    <3>2. /\ Committed(disk'.journal) = e.to /\ Len(disk'.journal) = Len(disk.journal) + 1
          /\ Len(disk.journal) \in Nat
      BY <1>1, <3>1, Grown, LenProperties
    <3>3. e.to \in Nat
      BY DEF Receipt
    <3>4. QED
      BY <3>1, <3>2, <3>3
  <2>3. QED
    BY <2>1, <2>2
<1>3. ~disk.retired /\ st.mode # "none"
  BY DEF SourceInv, WorkerInv, LibraryInv
<1>4. AudioInv'
  BY <1>1, <1>2 DEF SourceInv, AudioInv
<1>5. TypeInv' /\ WorkerInv' /\ AnswerInv'
  BY <1>3 DEF SourceInv, TypeInv, WorkerInv, AnswerInv, Gone
<1>6. GateInv'
  BY <1>3 DEF SourceInv, GateInv
<1>7. DoneInv'
  BY <1>3 DEF SourceInv, DoneInv, IsComplete, SealHolds, CanMark
<1>8. LibraryInv'
  <2>1. rows \in Nat
    BY DEF SourceInv, TypeInv
  <2>2. QED
    BY <1>2, <1>3, <2>1 DEF SourceInv, LibraryInv
<1>9. QED
  BY <1>4, <1>5, <1>6, <1>7, <1>8 DEF SourceInv

\* A change of provider is noted in the journal, or cannot be.
LEMMA DemoteInv ==
  ASSUME SourceInv, Demote
  PROVE  SourceInv'
<1> USE DEF others, outside
<1> DEFINE j == disk.journal
           e == [kind |-> "switch", from |-> Committed(j), to |-> Committed(j)]
<1>1. UNCHANGED <<fin, sealer, proj, rows, shown, accepted>> /\ w.pc \notin Gone
  BY DEF Demote, Gone
<1>2. /\ disk \in Files /\ st \in Stream /\ w \in Thread /\ disk.audio \in Nat
      /\ j \in Seq(Receipt) /\ Committed(j) \in Nat /\ disk.synced \in Nat
      /\ Committed(j) <= disk.synced /\ disk.synced <= disk.audio
      /\ w.end <= disk.audio /\ w.sent <= disk.audio
  BY <1>1, WorkerFacts
<1>3. CASE UNCHANGED <<disk, st>> /\ Ends(FALSE)
  BY <1>1, <1>3, GivesUp
<1>4. CASE disk' = [disk EXCEPT !.torn = TRUE] /\ Ends(FALSE) /\ UNCHANGED st
  <2>1. /\ disk' \in Files /\ disk'.audio = disk.audio /\ disk'.made = disk.made
        /\ disk'.retired = disk.retired /\ disk'.complete = disk.complete
        /\ disk'.sealed = disk.sealed /\ disk'.half = disk.half
        /\ disk'.projected = disk.projected /\ disk'.synced = disk.synced
        /\ disk'.journal = disk.journal
    BY <1>2, <1>4 DEF Files
  <2>2. w' \in Thread /\ w'.pc = "exit" /\ w'.ok = FALSE /\ w'.end = 0 /\ w'.sent = 0
    BY <1>4, EndsFacts
  <2>3. ShownInv'
    BY <1>1, <2>1, <2>2, ShownStays
  <2>4. QED
    BY <1>1, <1>2, <1>4, <2>1, <2>2, <2>3, WorkerWrites
<1>5. CASE /\ disk' = [disk EXCEPT !.journal = j \o <<e>>]
           /\ \/ Ends(FALSE) /\ UNCHANGED st
              \/ /\ w' = [w EXCEPT !.pc = "run", !.local = TRUE, !.epoch = @ + 1,
                                   !.cursor = Committed(j)]
                 /\ st' = [st EXCEPT !.phase = "local"]
  <2>1. e \in Receipt /\ e.to = Committed(j) /\ j \o <<e>> \in Seq(Receipt)
    BY <1>2, SwitchType, Grown
  <2> HIDE DEF e
  <2>2. /\ disk' \in Files /\ disk'.audio = disk.audio /\ disk'.made = disk.made
        /\ disk'.retired = disk.retired /\ disk'.complete = disk.complete
        /\ disk'.sealed = disk.sealed /\ disk'.half = disk.half
        /\ disk'.projected = disk.projected /\ disk'.synced = disk.synced
        /\ disk'.journal = disk.journal \o <<e>>
    BY <1>2, <1>5, <2>1 DEF Files
  <2>3. /\ w' \in Thread /\ w'.pc \in {"run", "exit"}
        /\ w'.pc = "exit" => ~w'.ok
    <3>1. CASE Ends(FALSE)
      BY <3>1, EndsFacts
    <3>2. CASE ~Ends(FALSE)
      <4> DEFINE n == w.epoch + 1
                 c == Committed(j)
      <4>1. n \in Nat /\ c \in Nat /\ "run" \in Gone \cup {"run", "step", "closing", "infer",
              "commit", "publish", "check", "complete", "exit"}
        BY <1>2 DEF Thread
      <4>2. w' = [w EXCEPT !.pc = "run", !.local = TRUE, !.epoch = n, !.cursor = c]
        BY <1>5, <3>2
      <4> HIDE DEF n, c
      <4>3. QED
        BY <1>2, <4>1, <4>2 DEF Thread
    <3>3. QED
      BY <3>1, <3>2
  <2>4. w'.end <= disk.audio /\ w'.sent <= disk.audio
    <3>1. CASE Ends(FALSE)
      <4>1. w' \in Thread /\ w'.pc = "exit" /\ w'.ok = FALSE /\ w'.end = 0 /\ w'.sent = 0
        BY <3>1, EndsFacts
      <4>2. QED
        BY <1>2, <4>1
    <3>2. CASE ~Ends(FALSE)
      BY <1>2, <1>5, <3>2 DEF Thread, Gone
    <3>3. QED
      BY <3>1, <3>2
  <2>5. /\ st' \in Stream /\ st'.mode = st.mode /\ st'.closed = st.closed
        /\ st'.stop = st.stop /\ st'.lock = st.lock /\ st'.end = st.end
        /\ st'.fenced = st.fenced /\ st'.phase \in {st.phase, "local"}
        /\ st'.failed = st.failed
    BY <1>2, <1>5 DEF Stream
  <2>6. \E f \in Receipt : /\ disk'.journal = disk.journal \o <<f>>
                           /\ Committed(disk.journal) <= f.to /\ f.to <= disk'.synced
    <3>1. Committed(j) <= e.to /\ e.to <= disk'.synced
      BY <1>2, <2>1, <2>2
    <3>2. QED
      BY <2>1, <2>2, <3>1
  <2>7. w'.pc # "publish"
    BY <2>3
  <2>8. ShownInv'
    BY <1>1, <2>2, <2>6, <2>7, ShownStays
  <2>9. QED
    BY <1>1, <2>2, <2>3, <2>4, <2>5, <2>6, <2>8, WorkerWrites
<1>6. QED
  BY <1>3, <1>4, <1>5 DEF Demote

\* A receipt is written, or not, or half of it; only then may it be shown.
LEMMA CommitInv ==
  ASSUME SourceInv, Commit
  PROVE  SourceInv'
<1> USE DEF others, outside
<1> DEFINE j == disk.journal
           e == Entry
<1>1. /\ UNCHANGED <<st, fin, sealer, proj, rows, shown, accepted>> /\ w.pc \notin Gone
      /\ w.pc = "commit"
  BY DEF Commit, Gone
<1>2. /\ disk \in Files /\ st \in Stream /\ w \in Thread /\ disk.audio \in Nat
      /\ j \in Seq(Receipt) /\ Committed(j) \in Nat /\ disk.synced \in Nat
      /\ Committed(j) <= disk.synced /\ disk.synced <= disk.audio
      /\ w.end <= disk.audio /\ w.sent <= disk.audio
  BY <1>1, WorkerFacts
<1>3. /\ e \in Receipt /\ e.to = w.item /\ Committed(j) < e.to /\ e.to <= disk.audio
      /\ e.from = Committed(j)
  BY <1>1, <1>2 DEF Entry, Receipt, SourceInv, WorkerInv
<1>4. j \o <<e>> \in Seq(Receipt) /\ Last(j \o <<e>>) = e /\ j \o <<e>> # <<>>
  BY <1>2, <1>3, Grown
<1> HIDE DEF e
<1>5. CASE UNCHANGED disk /\ Ends(FALSE)
  BY <1>1, <1>5, GivesUp
<1>6. CASE disk' = [disk EXCEPT !.torn = TRUE, !.synced = disk.audio] /\ Ends(FALSE)
  <2>1. /\ disk' \in Files /\ disk'.audio = disk.audio /\ disk'.made = disk.made
        /\ disk'.retired = disk.retired /\ disk'.complete = disk.complete
        /\ disk'.sealed = disk.sealed /\ disk'.half = disk.half
        /\ disk'.projected = disk.projected /\ disk'.synced = disk.audio
        /\ disk'.journal = disk.journal
    BY <1>2, <1>6 DEF Files
  <2>2. w' \in Thread /\ w'.pc = "exit" /\ w'.ok = FALSE /\ w'.end = 0 /\ w'.sent = 0
    BY <1>6, EndsFacts
  <2>3. ShownInv'
    BY <1>1, <2>1, <2>2, ShownStays
  <2>4. QED
    BY <1>1, <1>2, <2>1, <2>2, <2>3, WorkerWrites
<1>7. CASE /\ disk' = Recorded(disk, e)
           /\ Ends(FALSE) \/ w' = [w EXCEPT !.pc = "publish"]
  <2>1. /\ disk' \in Files /\ disk'.audio = disk.audio /\ disk'.made = disk.made
        /\ disk'.retired = disk.retired /\ disk'.complete = disk.complete
        /\ disk'.sealed = disk.sealed /\ disk'.half = disk.half
        /\ disk'.projected = disk.projected /\ disk'.synced = disk.audio
        /\ disk'.journal = disk.journal \o <<e>>
    BY <1>2, <1>4, <1>7 DEF Files, Recorded
  <2>2. /\ w' \in Thread /\ w'.pc \in {"publish", "exit"} /\ w'.end <= disk.audio
        /\ w'.sent <= disk.audio
        /\ w'.pc = "exit" => ~w'.ok
    <3>1. CASE Ends(FALSE)
      <4>1. w' \in Thread /\ w'.pc = "exit" /\ w'.ok = FALSE /\ w'.end = 0 /\ w'.sent = 0
        BY <3>1, EndsFacts
      <4>2. QED
        BY <1>2, <4>1
    <3>2. CASE w' = [w EXCEPT !.pc = "publish"]
      BY <1>2, <3>2 DEF Thread, Gone
    <3>3. QED
      BY <1>7, <3>1, <3>2
  <2>3. ShownInv'
    <3>1. /\ \A i \in DOMAIN j : i \in DOMAIN disk'.journal /\ disk'.journal[i] = j[i]
          /\ Committed(disk'.journal) = e.to /\ Last(disk'.journal) = e /\ disk'.journal # <<>>
      BY <1>2, <1>3, <2>1, Grown
    <3>2. \A i \in DOMAIN shown : shown[i] \in Receipt
      BY DEF SourceInv, TypeInv
    <3>3. \A i \in DOMAIN shown : shown[i].to \in Nat
      BY <3>2 DEF Receipt
    <3>4. \A i \in DOMAIN shown : shown[i].to <= Committed(j) /\ shown[i].to <= e.to
      BY <1>2, <1>3, <3>3 DEF SourceInv, ShownInv, Receipt
    <3>5. QED
      BY <1>1, <1>3, <3>1, <3>4 DEF SourceInv, ShownInv
  <2>4. \E f \in Receipt : /\ disk'.journal = disk.journal \o <<f>>
                           /\ Committed(disk.journal) <= f.to /\ f.to <= disk'.synced
    <3>1. Committed(j) <= e.to /\ e.to <= disk'.synced
      BY <1>2, <1>3, <2>1 DEF Receipt
    <3>2. QED
      BY <1>3, <2>1, <3>1
  <2>5. st' \in Stream
    BY <1>1, <1>2
  <2>6. QED
    BY <1>1, <2>1, <2>2, <2>3, <2>4, <2>5, WorkerWrites
<1>8. QED
  BY <1>5, <1>6, <1>7 DEF Commit, e

\* The last receipt is shown, behind everything shown before it.
LEMMA PublishInv ==
  ASSUME SourceInv, Publish
  PROVE  SourceInv'
<1> USE DEF others, outside
<1> DEFINE j == disk.journal
           e == Last(j)
           pc == IF w.tail THEN "complete" ELSE IF w.local THEN "check" ELSE "run"
<1>1. /\ UNCHANGED <<disk, st, fin, sealer, proj, rows, accepted>> /\ w.pc = "publish"
      /\ w' = [w EXCEPT !.item = None, !.kind = "none", !.pc = pc]
      /\ shown' = shown \/ shown' = shown \o <<e>>
  BY DEF Publish, Emitted
<1>2. /\ w \in Thread /\ disk.audio \in Nat /\ j \in Seq(Receipt) /\ Committed(j) \in Nat
      /\ w.end <= disk.audio /\ w.sent <= disk.audio /\ st.mode # "none"
  BY <1>1, WorkerFacts DEF Gone
<1>3. pc \in {"complete", "check", "run"} /\ None \in Mark
  BY DEF Mark
<1>4. /\ w' \in Thread /\ w'.pc \in {"complete", "check", "run"} /\ w'.end = w.end
      /\ w'.sent = w.sent
  <2> HIDE DEF pc
  <2>1. QED
    BY <1>1, <1>2, <1>3 DEF Thread, Gone
<1>5. shown' \in Seq(Receipt) /\ ShownInv'
  <2>1. shown \in Seq(Receipt) /\ \A i \in DOMAIN shown : shown[i] \in Receipt
    BY DEF SourceInv, TypeInv
  <2>2. CASE shown' = shown
    BY <1>1, <1>4, <2>1, <2>2 DEF SourceInv, ShownInv
  <2>3. CASE shown' = shown \o <<e>>
    <3>1. j # <<>> /\ \A i \in DOMAIN shown : shown[i].to <= e.from
      BY <1>1 DEF SourceInv, ShownInv
    <3>2. Len(j) \in DOMAIN j /\ e = j[Len(j)] /\ e.to = Committed(j)
      BY <1>2, <3>1, EmptySeq, LenProperties DEF Last, Committed
    <3>3. e \in Receipt
      BY <1>2, <3>2
    <3> HIDE DEF e
    <3>4. /\ shown' \in Seq(Receipt) /\ Len(shown') = Len(shown) + 1 /\ Len(shown) \in Nat
          /\ shown'[Len(shown')] = e
          /\ \A i \in DOMAIN shown : shown'[i] = shown[i]
          /\ DOMAIN shown = 1..Len(shown) /\ DOMAIN shown' = 1..Len(shown')
      BY <2>1, <2>3, <3>3, Grown, LenProperties
    <3>5. \A i \in DOMAIN shown' : i \in DOMAIN shown \/ i = Len(shown')
      BY <3>4
    <3>6. \A i \in DOMAIN shown' :
             /\ \E k \in DOMAIN j : j[k] = shown'[i]
             /\ shown'[i].to <= Committed(j)
      BY <1>2, <3>2, <3>4, <3>5 DEF SourceInv, ShownInv
    <3>7. \A i, k \in DOMAIN shown' : i < k => shown'[i].to <= shown'[k].from
      <4> SUFFICES ASSUME NEW i \in DOMAIN shown', NEW k \in DOMAIN shown', i < k
                   PROVE  shown'[i].to <= shown'[k].from
        OBVIOUS
      <4>1. i \in DOMAIN shown /\ shown'[i] = shown[i]
        BY <3>4
      <4>2. CASE k \in DOMAIN shown
        BY <3>4, <4>1, <4>2 DEF SourceInv, ShownInv
      <4>3. CASE k = Len(shown')
        BY <3>1, <3>4, <4>1, <4>3
      <4>4. QED
        BY <3>5, <4>2, <4>3
    <3>8. QED
      BY <1>1, <1>4, <3>4, <3>6, <3>7 DEF ShownInv
  <2>4. QED
    BY <1>1, <2>2, <2>3
<1>6. TypeInv' /\ AudioInv' /\ GateInv' /\ LibraryInv'
  BY <1>1, <1>2, <1>4, <1>5 DEF SourceInv, TypeInv, AudioInv, GateInv, LibraryInv, Gone
<1>7. WorkerInv' /\ AnswerInv' /\ DoneInv'
  BY <1>1, <1>2, <1>4 DEF SourceInv, WorkerInv, AnswerInv, DoneInv, Gone, IsComplete, SealHolds,
     CanMark
<1>8. QED
  BY <1>5, <1>6, <1>7 DEF SourceInv

\* The completion marker is written over audio that is all committed.
LEMMA CompleteInv ==
  ASSUME SourceInv, Complete
  PROVE  SourceInv'
<1> USE DEF others, outside
<1>1. /\ UNCHANGED <<st, fin, sealer, proj, rows, shown, accepted>> /\ w.pc \notin Gone
      /\ w.pc = "complete"
  BY DEF Complete, Gone
<1>2. CASE UNCHANGED disk /\ Ends(FALSE)
  BY <1>1, <1>2, GivesUp
<1>3. CASE /\ ~st.fenced /\ st.closed /\ Committed(disk.journal) = w.end
           /\ IF st.mode = "prefix" THEN UNCHANGED disk
              ELSE SealHolds(disk) /\ CanMark(disk, w.end) /\ disk' = MarkComplete(disk, w.end)
           /\ Ends(TRUE)
  <2>1. w' \in Thread /\ w'.pc = "exit" /\ w'.ok = TRUE /\ w'.end = 0 /\ w'.sent = 0
    BY <1>3, EndsFacts
  <2>2. /\ disk \in Files /\ st.mode # "none" /\ disk.audio \in Nat /\ disk.synced \in Nat
        /\ w.end \in Nat /\ Committed(disk.journal) \in Nat
        /\ Committed(disk.journal) <= disk.synced /\ disk.synced <= disk.audio
    BY <1>1, WorkerFacts
  <2>3. /\ disk' \in Files /\ disk'.audio = disk.audio /\ disk'.made = disk.made
        /\ disk'.retired = disk.retired /\ disk'.sealed = disk.sealed /\ disk'.half = disk.half
        /\ disk'.projected = disk.projected /\ disk'.journal = disk.journal
        /\ \/ disk' = disk
           \/ /\ disk'.synced = disk.audio /\ disk'.complete = w.end /\ w.end = disk.audio
              /\ Committed(disk.journal) = w.end
        /\ st.mode # "prefix" =>
             /\ SealHolds(disk) /\ ~disk.half /\ disk'.complete = w.end /\ w.end = disk.audio
    <3>1. CASE st.mode = "prefix"
      BY <1>3, <2>2, <3>1
    <3>2. CASE st.mode # "prefix"
      <4>1. SealHolds(disk) /\ ~disk.half /\ w.end = disk.audio
        BY <1>3, <3>2 DEF CanMark
      <4>2. w.end \in Mark
        BY <2>2 DEF Mark
      <4>3. disk' = [disk EXCEPT !.complete = w.end, !.synced = disk.audio]
        BY <1>3, <3>2 DEF MarkComplete
      <4>4. QED
        BY <1>3, <2>2, <4>1, <4>2, <4>3 DEF Files
    <3>3. QED
      BY <3>1, <3>2
  <2>4. IsComplete(disk) => IsComplete(disk')
    BY <2>2, <2>3 DEF IsComplete, SealHolds, CanMark
  <2>5. st.mode # "prefix" => IsComplete(disk')
    BY <2>2, <2>3 DEF IsComplete, SealHolds, CanMark, None
  <2>6. ShownInv' /\ TypeInv'
    BY <1>1, <2>1, <2>3, ShownStays DEF SourceInv, TypeInv
  <2>7. AudioInv'
    BY <2>2, <2>3 DEF SourceInv, AudioInv
  <2>8. GateInv' /\ WorkerInv' /\ AnswerInv'
    BY <1>1, <2>1, <2>2, <2>3 DEF SourceInv, GateInv, WorkerInv, AnswerInv, Gone
  <2>9. DoneInv'
    BY <1>1, <1>3, <2>1, <2>3, <2>4, <2>5 DEF SourceInv, DoneInv
  <2>10. LibraryInv'
    BY <1>1, <2>1, <2>2, <2>3 DEF SourceInv, LibraryInv, WorkerInv
  <2>11. QED
    BY <2>6, <2>7, <2>8, <2>9, <2>10 DEF SourceInv
<1>4. QED
  BY <1>2, <1>3 DEF Complete

\* The worker's outcome is the stream's, unless the fence fell first.
LEMMA WorkerExitsInv ==
  ASSUME SourceInv, WorkerExits
  PROVE  SourceInv'
<1> USE DEF others, outside
<1> DEFINE phase == IF w.ok THEN Succeeded(st) ELSE "incomplete"
<1>1. /\ UNCHANGED <<disk, fin, sealer, proj, rows, shown, accepted>> /\ w.pc = "exit"
      /\ st' = Terminal(st, phase) /\ w' = [w EXCEPT !.pc = "native"]
  BY DEF WorkerExits
<1>2. w \in Thread /\ st \in Stream /\ st.mode # "none"
  BY <1>1, WorkerFacts DEF Gone
<1>3. /\ phase \in {"complete", "prefixRecovered", "incomplete"}
      /\ phase = "complete" => w.ok /\ st.mode # "prefix"
  BY DEF Succeeded
<1> HIDE DEF phase
<1>4. /\ st' \in Stream /\ st'.fenced /\ st'.mode = st.mode /\ st'.stop = st.stop
      /\ st'.closed = st.closed /\ st'.end = st.end /\ st'.lock = st.lock
      /\ st'.phase \in {st.phase, phase} /\ st'.failed = st.failed
      /\ st.fenced => st'.phase = st.phase
  BY <1>1, <1>2, <1>3, TerminalFacts
<1>5. w' \in Thread /\ w'.pc = "native"
  BY <1>1, <1>2 DEF Thread, Gone
<1>6. TypeInv' /\ AudioInv' /\ LibraryInv'
  BY <1>1, <1>2, <1>4, <1>5 DEF SourceInv, TypeInv, AudioInv, LibraryInv
<1>7. WorkerInv' /\ AnswerInv' /\ ShownInv'
  BY <1>1, <1>4, <1>5 DEF SourceInv, WorkerInv, AnswerInv, ShownInv, Gone
<1>8. GateInv'
  BY <1>1, <1>2, <1>4 DEF SourceInv, GateInv
<1>9. DoneInv'
  <2>1. IsComplete(disk)' = IsComplete(disk)
    BY <1>1 DEF IsComplete, SealHolds, CanMark
  <2>2. QED
    BY <1>1, <1>3, <1>4, <1>5, <2>1 DEF SourceInv, DoneInv
<1>10. QED
  BY <1>6, <1>7, <1>8, <1>9 DEF SourceInv

\* The native state goes last.
LEMMA NativeExitsInv ==
  ASSUME SourceInv, NativeExits
  PROVE  SourceInv'
<1> USE DEF others, outside
<1>1. /\ UNCHANGED <<disk, st, fin, sealer, proj, rows, shown, accepted>> /\ w.pc = "native"
      /\ w' = NoWorker
  BY DEF NativeExits
<1>2. w' \in Thread /\ w'.pc = "none"
  BY <1>1 DEF NoWorker, Thread, Gone, Mark
<1>3. TypeInv' /\ AudioInv' /\ WorkerInv' /\ GateInv' /\ AnswerInv' /\ LibraryInv'
  BY <1>1, <1>2 DEF SourceInv, TypeInv, AudioInv, WorkerInv, GateInv, AnswerInv, LibraryInv, Gone
<1>4. ShownInv' /\ DoneInv'
  BY <1>1, <1>2 DEF SourceInv, ShownInv, DoneInv, IsComplete, SealHolds, CanMark
<1>5. QED
  BY <1>3, <1>4 DEF SourceInv

-----------------------------------------------------------------------------
(* Opening, writing and stopping.                                          *)

\* A fresh source is launched over files that hold nothing yet.
LEMMA OpensInv ==
  ASSUME SourceInv, NEW mode \in Modes, NEW plan \in BOOLEAN, Opens(mode, plan)
  PROVE  SourceInv'
<1> USE DEF outside
<1>1. PICK processed \in BOOLEAN :
         disk' = [disk EXCEPT !.made = "all", !.plan = plan, !.processed = processed]
  BY DEF Opens
<1>2. /\ UNCHANGED <<proj, rows, shown, accepted>> /\ disk.made = "none"
      /\ Launch(mode, disk', 0, 0, FALSE)
  BY DEF Opens
<1>3. disk \in Files /\ disk.audio = 0 /\ accepted = 0 /\ ~disk.retired
  BY <1>2 DEF SourceInv, TypeInv, GateInv, LibraryInv
<1>4. /\ disk' \in Files /\ disk'.audio = disk.audio /\ disk'.made = "all"
      /\ disk'.retired = disk.retired /\ disk'.complete = disk.complete
      /\ disk'.projected = disk.projected /\ disk'.synced = disk.synced
      /\ disk'.journal = disk.journal
  BY <1>1, <1>3 DEF Files
<1>5. /\ st' \in Stream /\ st'.mode = mode /\ st'.stop = FALSE /\ st'.closed = FALSE
      /\ st'.end = 0 /\ st'.lock = "free" /\ st'.phase \in {"cloud", "local"} /\ ~st'.failed
      /\ w' \in Thread /\ w'.pc = "run" /\ w'.end = 0 /\ w'.sent = 0
      /\ fin' = "idle" /\ sealer' = "idle"
  BY <1>2, <1>4, LaunchFacts
<1>6. TypeInv' /\ AudioInv'
  BY <1>2, <1>4, <1>5 DEF SourceInv, TypeInv, AudioInv
<1>7. WorkerInv' /\ GateInv'
  BY <1>2, <1>3, <1>4, <1>5 DEF WorkerInv, GateInv, Modes
<1>8. ShownInv'
  BY <1>2, <1>4, <1>5, ShownStays
<1>9. DoneInv' /\ AnswerInv' /\ LibraryInv'
  BY <1>2, <1>3, <1>4, <1>5 DEF SourceInv, DoneInv, AnswerInv, LibraryInv, Answers
<1>10. QED
  BY <1>6, <1>7, <1>8, <1>9 DEF SourceInv

\* Files that could not be made are never opened.
LEMMA OpenFailsInv ==
  ASSUME SourceInv, OpenFails
  PROVE  SourceInv'
<1> USE DEF outside, thread
<1>1. /\ UNCHANGED <<st, w, fin, sealer, proj, rows, shown, accepted>> /\ disk.made = "none"
      /\ disk' = [disk EXCEPT !.made = "audio"]
  BY DEF OpenFails
<1>2. disk \in Files /\ st.mode = "none" /\ ~disk.retired
  BY <1>1 DEF SourceInv, TypeInv, GateInv, LibraryInv
<1>3. /\ disk' \in Files /\ disk'.audio = disk.audio /\ disk'.made = "audio"
      /\ disk'.retired = disk.retired /\ disk'.complete = disk.complete
      /\ disk'.projected = disk.projected /\ disk'.synced = disk.synced
      /\ disk'.journal = disk.journal /\ disk'.sealed = disk.sealed /\ disk'.half = disk.half
  BY <1>1, <1>2 DEF Files
<1>4. TypeInv' /\ AudioInv' /\ WorkerInv' /\ GateInv' /\ AnswerInv'
  BY <1>1, <1>2, <1>3 DEF SourceInv, TypeInv, AudioInv, WorkerInv, GateInv, AnswerInv
<1>5. ShownInv' /\ LibraryInv'
  BY <1>1, <1>2, <1>3 DEF SourceInv, ShownInv, LibraryInv
<1>6. DoneInv'
  BY <1>1, <1>3 DEF SourceInv, DoneInv, IsComplete, SealHolds, CanMark
<1>7. QED
  BY <1>4, <1>5, <1>6 DEF SourceInv

\* The audio arrives while input is open: nothing can be complete yet.
LEMMA WritesInv ==
  ASSUME SourceInv, WriteEnters \/ WriteAppends \/ WriteFails
  PROVE  SourceInv'
<1> USE DEF outside, thread
<1>1. /\ UNCHANGED <<w, fin, sealer, proj, rows, shown>>
      /\ disk \in Files /\ st \in Stream /\ disk.audio \in Nat /\ disk.synced \in Nat
      /\ Committed(disk.journal) \in Nat /\ disk.journal \in Seq(Receipt)
      /\ Committed(disk.journal) <= disk.synced /\ disk.synced <= disk.audio /\ w \in Thread
  BY WorkerFacts DEF WriteEnters, WriteAppends, WriteFails
<1>2. /\ st.mode \in Modes /\ ~st.closed /\ disk.made = "all" /\ ~disk.retired
      /\ st.mode # "none" /\ st.end \in Nat /\ st.end <= disk.audio
      /\ ~st.failed => accepted = disk.audio
      /\ st.failed => st.fenced
  BY WorkerFacts DEF WriteEnters, WriteAppends, WriteFails, SourceInv, GateInv, Modes
<1>3. /\ fin # "true" /\ st.phase # "complete" /\ ~(w.pc = "exit" /\ w.ok)
  <2>1. st.mode \notin {"none", "prefix"}
    BY <1>2 DEF Modes
  <2>2. QED
    BY <1>2, <2>1 DEF SourceInv, DoneInv
<1>4. CASE WriteEnters
  <2>1. /\ st' = [st EXCEPT !.lock = "write"] /\ disk' = [disk EXCEPT !.raw = @ + 1]
        /\ UNCHANGED accepted
    BY <1>4 DEF WriteEnters
  <2>2. /\ disk' \in Files /\ disk'.audio = disk.audio /\ disk'.made = disk.made
        /\ disk'.retired = disk.retired /\ disk'.complete = disk.complete
        /\ disk'.projected = disk.projected /\ disk'.synced = disk.synced
        /\ disk'.journal = disk.journal
    <3>1. disk.raw + 1 \in Nat
      BY <1>1 DEF Files
    <3>2. QED
      BY <1>1, <2>1, <3>1 DEF Files
  <2>3. /\ st' \in Stream /\ st'.mode = st.mode /\ st'.closed = st.closed /\ st'.end = st.end
        /\ st'.fenced = st.fenced /\ st'.phase = st.phase /\ st'.lock = "write"
        /\ st'.stop = st.stop /\ st'.failed = st.failed
    BY <1>1, <2>1 DEF Stream
  <2>4. TypeInv' /\ AudioInv' /\ WorkerInv' /\ AnswerInv'
    BY <1>1, <2>1, <2>2, <2>3 DEF SourceInv, TypeInv, AudioInv, WorkerInv, AnswerInv
  <2>5. GateInv' /\ LibraryInv'
    BY <1>1, <1>2, <2>1, <2>2, <2>3 DEF SourceInv, GateInv, LibraryInv
  <2>6. DoneInv' /\ ShownInv'
    BY <1>1, <1>3, <2>2, <2>3 DEF SourceInv, DoneInv, ShownInv
  <2>7. QED
    BY <2>4, <2>5, <2>6 DEF SourceInv
<1>5. CASE WriteAppends
  <2> DEFINE tags == IF disk.processed THEN disk.tags + 1 ELSE disk.tags
             d == Tagged(disk, 1)
  <2>1. PICK synced \in {disk.synced, disk.audio + 1} :
             disk' = [Appended(d) EXCEPT !.synced = synced]
    BY <1>5 DEF WriteAppends
  <2>2. /\ d \in Files /\ d.audio = disk.audio /\ d.made = disk.made
        /\ d.retired = disk.retired /\ d.journal = disk.journal /\ d.synced = disk.synced
    BY <1>1 DEF Files, Tagged
  <2> HIDE DEF d
  <2>3. /\ synced \in Nat /\ disk.audio + 1 \in Nat /\ None \in Mark /\ NoProjection \in Projection
    BY <1>1, <1>2 DEF Mark, NoProjection, Projection
  <2>4. /\ disk' \in Files /\ disk'.audio = disk.audio + 1 /\ disk'.made = disk.made
        /\ disk'.retired = disk.retired /\ disk'.complete = None
        /\ disk'.projected = NoProjection /\ disk'.synced = synced
        /\ disk'.journal = disk.journal
    BY <2>1, <2>2, <2>3 DEF Files, Appended
  <2>5. /\ st' \in Stream /\ st'.mode = st.mode /\ st'.closed = st.closed
        /\ st'.end = disk'.audio /\ st'.fenced = st.fenced /\ st'.phase = st.phase
        /\ st'.lock = "free" /\ accepted' = accepted + 1 /\ st'.stop = st.stop
        /\ st'.failed = st.failed /\ ~st.failed
    BY <1>1, <1>5, <2>3, <2>4 DEF Stream, WriteAppends
  <2>6. AudioInv'
    BY <1>1, <2>1, <2>3, <2>4 DEF AudioInv
  <2>7. TypeInv' /\ AnswerInv'
    BY <1>1, <1>2, <2>3, <2>4, <2>5 DEF SourceInv, TypeInv, AnswerInv
  <2>8. WorkerInv'
    <3>1. \A n \in Nat : n <= disk.audio => n <= disk'.audio
      BY <1>1, <2>4
    <3>2. w.end \in Nat /\ w.sent \in Nat
      BY <1>1 DEF Thread
    <3>3. QED
      BY <1>1, <2>4, <2>5, <3>1, <3>2 DEF SourceInv, WorkerInv
  <2>9. GateInv'
    BY <1>1, <1>2, <2>4, <2>5 DEF SourceInv, GateInv
  <2>10. DoneInv' /\ ShownInv' /\ LibraryInv'
    BY <1>1, <1>2, <1>3, <2>4, <2>5 DEF SourceInv, DoneInv, ShownInv, LibraryInv
  <2>11. QED
    BY <2>6, <2>7, <2>8, <2>9, <2>10 DEF SourceInv
<1>6. CASE WriteFails
  <2> DEFINE t == Terminal(st, "incomplete")
  <2>1. st' = [t EXCEPT !.lock = "free", !.failed = TRUE] /\ UNCHANGED accepted
    BY <1>6 DEF WriteFails
  <2>2. /\ t \in Stream /\ t.fenced /\ t.mode = st.mode /\ t.closed = st.closed /\ t.end = st.end
        /\ t.phase \in {st.phase, "incomplete"} /\ t.stop = st.stop
    BY <1>1, TerminalFacts
  <2> HIDE DEF t
  <2>3. /\ st' \in Stream /\ st'.fenced /\ st'.mode = st.mode /\ st'.closed = st.closed
        /\ st'.end = st.end /\ st'.lock = "free" /\ st'.phase \in {st.phase, "incomplete"}
        /\ st'.stop = st.stop /\ st'.failed
    BY <2>1, <2>2 DEF Stream
  <2>4. /\ disk' \in Files /\ disk'.made = disk.made
        /\ disk'.audio \in Nat /\ disk.audio <= disk'.audio
        /\ disk'.retired = disk.retired /\ disk'.synced = disk.synced
        /\ disk'.journal = disk.journal
        /\ disk'.complete = None \/ (disk'.complete = disk.complete /\ disk'.audio = disk.audio)
        /\ disk'.projected \in {disk.projected, NoProjection}
    <3>1. CASE UNCHANGED disk
      BY <1>1, <3>1
    <3>2. CASE ~UNCHANGED disk
      <4>1. PICK half \in BOOLEAN, tag \in {0, 1}, whole \in {0, 1} :
             disk' = [Tagged(disk, tag) EXCEPT !.complete = None, !.half = half,
                                !.projected = NoProjection, !.audio = @ + whole]
        BY <1>6, <3>2 DEF WriteFails
      <4> DEFINE d == Tagged(disk, tag)
      <4>2. /\ d \in Files /\ d.audio = disk.audio /\ d.made = disk.made
            /\ d.retired = disk.retired /\ d.journal = disk.journal /\ d.synced = disk.synced
        BY <1>1 DEF Files, Tagged
      <4> HIDE DEF d
      <4> DEFINE n == d.audio + whole
      <4>3. None \in Mark /\ NoProjection \in Projection /\ n \in Nat /\ disk.audio <= n
        BY <1>1, <4>2 DEF Mark, NoProjection, Projection
      <4>4. disk' = [d EXCEPT !.complete = None, !.half = half, !.projected = NoProjection,
                              !.audio = n]
        BY <4>1 DEF d
      <4> HIDE DEF n
      <4>5. QED
        BY <4>2, <4>3, <4>4 DEF Files
    <3>3. QED
      BY <3>1, <3>2
  <2>5. TypeInv' /\ AnswerInv'
    BY <1>1, <2>1, <2>3, <2>4 DEF SourceInv, TypeInv, AnswerInv
  <2>6. AudioInv'
    BY <1>1, <2>4 DEF SourceInv, AudioInv
  <2>7. WorkerInv'
    <3>1. \A n \in Nat : n <= disk.audio => n <= disk'.audio
      BY <1>1, <2>4
    <3>2. w.end \in Nat /\ w.sent \in Nat
      BY <1>1 DEF Thread
    <3>3. QED
      BY <1>1, <2>3, <2>4, <3>1, <3>2 DEF SourceInv, WorkerInv
  <2>8. GateInv'
    BY <1>1, <1>2, <1>3, <2>1, <2>3, <2>4 DEF SourceInv, GateInv
  <2>9. LibraryInv'
    BY <1>1, <1>2, <2>3, <2>4 DEF SourceInv, LibraryInv
  <2>10. DoneInv' /\ ShownInv'
    BY <1>1, <1>3, <2>3, <2>4 DEF SourceInv, DoneInv, ShownInv
  <2>11. QED
    BY <2>5, <2>6, <2>7, <2>8, <2>9, <2>10 DEF SourceInv
<1>7. QED
  BY <1>4, <1>5, <1>6

\* Stop: the flag, the answer, the time-out and the drop leave the files alone.
LEMMA StopsInv ==
  ASSUME SourceInv,
         FinishStarts \/ FinishReturns \/ FinishTimesOut \/ Drop \/ DropWhileWorking
  PROVE  SourceInv'
<1> USE DEF outside, thread
<1>1. /\ UNCHANGED <<disk, w, proj, rows, shown, accepted>> /\ st \in Stream
  BY WorkerFacts DEF FinishStarts, FinishReturns, FinishTimesOut, Drop, DropWhileWorking
<1>2. IsComplete(disk)' = IsComplete(disk)
  BY <1>1 DEF IsComplete, SealHolds, CanMark
<1>3. AudioInv' /\ ShownInv'
  BY <1>1 DEF SourceInv, AudioInv, ShownInv
<1>4. CASE FinishStarts
  <2>1. /\ st' \in Stream /\ st'.mode = st.mode /\ st'.closed = st.closed /\ st'.end = st.end
        /\ st'.fenced = st.fenced /\ st'.phase = st.phase /\ st'.lock = st.lock /\ st'.stop
        /\ st'.failed = st.failed
        /\ fin' = "waiting" /\ sealer' = "queued" /\ st.mode \in Modes /\ fin = "idle"
    BY <1>1, <1>4 DEF FinishStarts, Stream
  <2>2. TypeInv' /\ WorkerInv' /\ AnswerInv'
    BY <1>1, <2>1 DEF SourceInv, TypeInv, WorkerInv, AnswerInv, Answers
  <2>3. GateInv' /\ LibraryInv' /\ DoneInv'
    BY <1>1, <1>2, <2>1 DEF SourceInv, GateInv, LibraryInv, DoneInv
  <2>4. QED
    BY <1>3, <2>2, <2>3 DEF SourceInv
<1>5. CASE FinishReturns
  <2>1. /\ UNCHANGED <<st, sealer>> /\ fin = "waiting" /\ w.pc \in Gone
        /\ fin' = IF st.phase = "complete" THEN "true" ELSE "false"
    BY <1>5 DEF FinishReturns, WorkerIsDone, Gone
  <2>2. TypeInv' /\ WorkerInv' /\ AnswerInv' /\ GateInv' /\ LibraryInv'
    BY <1>1, <2>1 DEF SourceInv, TypeInv, WorkerInv, AnswerInv, Answers, GateInv, LibraryInv
  <2>3. DoneInv'
    BY <1>1, <1>2, <2>1 DEF SourceInv, DoneInv, GateInv
  <2>4. QED
    BY <1>3, <2>2, <2>3 DEF SourceInv
<1>6. CASE FinishTimesOut
  <2>1. /\ st' \in Stream /\ st'.fenced /\ st'.mode = st.mode /\ st'.stop = st.stop
        /\ st'.closed = st.closed /\ st'.end = st.end /\ st'.lock = st.lock
        /\ st'.phase \in {st.phase, "incomplete"} /\ st'.failed = st.failed
        /\ UNCHANGED sealer /\ fin' = "false"
    BY <1>1, <1>6, TerminalFacts DEF FinishTimesOut
  <2>2. TypeInv' /\ WorkerInv' /\ AnswerInv'
    BY <1>1, <2>1 DEF SourceInv, TypeInv, WorkerInv, AnswerInv, Answers
  <2>3. GateInv' /\ LibraryInv' /\ DoneInv'
    BY <1>1, <1>2, <2>1 DEF SourceInv, GateInv, LibraryInv, DoneInv
  <2>4. QED
    BY <1>3, <2>2, <2>3 DEF SourceInv
<1>7. CASE Drop
  <2>1. /\ st' \in Stream /\ st'.mode = "none" /\ st'.closed = FALSE /\ st'.lock = "free"
        /\ st'.phase = "none" /\ st'.end = 0 /\ ~st'.failed
        /\ UNCHANGED <<sealer, fin>> /\ w.pc \in Gone /\ fin # "waiting" /\ sealer # "queued"
    BY <1>7 DEF Drop, NoStream, Stream, Gone
  <2>2. TypeInv' /\ WorkerInv' /\ AnswerInv'
    BY <1>1, <2>1 DEF SourceInv, TypeInv, WorkerInv, AnswerInv, Gone
  <2>3. GateInv' /\ LibraryInv' /\ DoneInv'
    BY <1>1, <1>2, <2>1 DEF SourceInv, GateInv, LibraryInv, DoneInv, Modes, Gone
  <2>4. QED
    BY <1>3, <2>2, <2>3 DEF SourceInv
<1>8. CASE DropWhileWorking
  <2> DEFINE t == Terminal(st, "incomplete")
  <2>1. /\ st' = [t EXCEPT !.stop = TRUE, !.closed = TRUE] /\ st.lock = "free"
        /\ UNCHANGED sealer /\ fin' = (IF fin = "idle" THEN "dropped" ELSE fin)
        /\ fin # "waiting" /\ st.mode # "none"
    BY <1>8 DEF DropWhileWorking
  <2>2. /\ t \in Stream /\ t.fenced /\ t.mode = st.mode /\ t.end = st.end
        /\ t.phase \in {st.phase, "incomplete"} /\ t.lock = "free" /\ t.failed = st.failed
    BY <1>1, <2>1, TerminalFacts
  <2> HIDE DEF t
  <2>3. /\ st' \in Stream /\ st'.fenced /\ st'.mode = st.mode /\ st'.closed /\ st'.stop
        /\ st'.end = st.end /\ st'.lock = "free" /\ st'.phase \in {st.phase, "incomplete"}
        /\ st'.failed = st.failed
    BY <2>1, <2>2 DEF Stream
  <2>4. TypeInv' /\ WorkerInv' /\ AnswerInv'
    BY <1>1, <2>1, <2>3 DEF SourceInv, TypeInv, WorkerInv, AnswerInv, Answers
  <2>5. GateInv' /\ LibraryInv' /\ DoneInv'
    BY <1>1, <1>2, <2>1, <2>3 DEF SourceInv, GateInv, LibraryInv, DoneInv
  <2>6. QED
    BY <1>3, <2>4, <2>5 DEF SourceInv
<1>9. QED
  BY <1>4, <1>5, <1>6, <1>7, <1>8

\* The seal covers the whole file; with it, or without, input is closed.
LEMMA SealInv ==
  ASSUME SourceInv, SealRuns
  PROVE  SourceInv'
<1> USE DEF outside
<1>1. /\ UNCHANGED <<w, fin, proj, rows, shown, accepted>> /\ sealer' = "done" /\ st.stop
      /\ st.mode # "none" /\ st.lock = "free"
      /\ disk \in Files /\ st \in Stream /\ disk.audio \in Nat /\ disk.synced \in Nat
      /\ Committed(disk.journal) \in Nat
      /\ Committed(disk.journal) <= disk.synced /\ disk.synced <= disk.audio
  BY WorkerFacts DEF SealRuns, SourceInv, GateInv
<1>2. /\ disk' \in Files /\ disk'.audio = disk.audio /\ disk'.made = disk.made
      /\ disk'.retired = disk.retired /\ disk'.complete = disk.complete
      /\ disk'.projected = disk.projected /\ disk'.journal = disk.journal
      /\ disk'.synced \in {disk.synced, disk.audio}
      /\ IsComplete(disk) => IsComplete(disk')
  <2>1. CASE UNCHANGED disk
    BY <1>1, <2>1 DEF IsComplete, SealHolds, CanMark
  <2>2. CASE ~disk.half /\ disk' = [disk EXCEPT !.sealed = disk.audio, !.synced = disk.audio]
    <3>1. disk.audio \in Mark
      BY <1>1 DEF Mark
    <3>2. /\ disk' \in Files /\ disk'.audio = disk.audio /\ disk'.made = disk.made
          /\ disk'.retired = disk.retired /\ disk'.complete = disk.complete
          /\ disk'.projected = disk.projected /\ disk'.journal = disk.journal
          /\ disk'.synced = disk.audio /\ disk'.sealed = disk.audio /\ disk'.half = disk.half
      BY <1>1, <2>2, <3>1 DEF Files
    <3>3. QED
      BY <2>2, <3>2 DEF IsComplete, SealHolds, CanMark
  <2>3. QED
    BY <2>1, <2>2 DEF SealRuns, CanMark, Seal
<1>3. /\ st' \in Stream /\ st'.mode = st.mode /\ st'.closed /\ st'.stop = st.stop
      /\ st'.end = st.end /\ st'.lock = "free" /\ st'.phase \in {st.phase, "incomplete"}
      /\ st'.failed = st.failed /\ (st.fenced => st'.fenced)
  <2> DEFINE t == Terminal(st, "incomplete")
  <2>1. /\ t \in Stream /\ t.fenced /\ t.mode = st.mode /\ t.end = st.end /\ t.stop = st.stop
        /\ t.phase \in {st.phase, "incomplete"} /\ t.lock = "free" /\ t.failed = st.failed
    BY <1>1, TerminalFacts
  <2>2. \E v \in {st, t} : st' = [v EXCEPT !.closed = TRUE]
    BY DEF SealRuns
  <2> HIDE DEF t
  <2>3. PICK v \in {st, t} : st' = [v EXCEPT !.closed = TRUE]
    BY <2>2
  <2>4. /\ v \in Stream /\ v.mode = st.mode /\ v.end = st.end /\ v.stop = st.stop
        /\ v.phase \in {st.phase, "incomplete"} /\ v.lock = "free"
        /\ v.failed = st.failed /\ (st.fenced => v.fenced)
    BY <1>1, <2>1
  <2>5. QED
    BY <2>3, <2>4 DEF Stream
<1>4. TypeInv' /\ WorkerInv' /\ AnswerInv'
  BY <1>1, <1>2, <1>3 DEF SourceInv, TypeInv, WorkerInv, AnswerInv
<1>5. AudioInv'
  BY <1>1, <1>2 DEF SourceInv, AudioInv
<1>6. GateInv' /\ LibraryInv'
  BY <1>1, <1>2, <1>3 DEF SourceInv, GateInv, LibraryInv
<1>7. DoneInv' /\ ShownInv'
  BY <1>1, <1>2, <1>3 DEF SourceInv, DoneInv, ShownInv
<1>8. QED
  BY <1>4, <1>5, <1>6, <1>7 DEF SourceInv

-----------------------------------------------------------------------------
(* Crash and recovery.                                                     *)

\* A crash takes unsynced audio, which no receipt and no marker covers.
LEMMA CrashInv ==
  ASSUME SourceInv, Crash
  PROVE  SourceInv'
<1>1. PICK audio \in disk.synced .. disk.audio, half \in BOOLEAN :
        \E raw \in audio .. disk.raw :
            disk' = [disk EXCEPT !.audio = audio, !.raw = raw,
                                 !.half = half \/ (@ /\ audio = disk.audio)]
  BY DEF Crash
<1>2. PICK raw \in audio .. disk.raw :
            disk' = [disk EXCEPT !.audio = audio, !.raw = raw,
                                 !.half = half \/ (@ /\ audio = disk.audio)]
  BY <1>1
<1>3. /\ st' = NoStream /\ w' = NoWorker /\ fin' = "idle" /\ sealer' = "idle"
      /\ proj' = NoProjection /\ UNCHANGED <<rows, shown, accepted>>
  BY DEF Crash
<1>4. /\ disk \in Files /\ disk.audio \in Nat /\ disk.synced \in Nat
      /\ Committed(disk.journal) \in Nat /\ disk.raw \in Nat
      /\ Committed(disk.journal) <= disk.synced /\ disk.synced <= disk.audio
  BY WorkerFacts DEF Files
<1>5. audio \in Nat /\ raw \in Nat /\ disk.synced <= audio /\ audio <= disk.audio
  BY <1>4
<1>6. /\ disk' \in Files /\ disk'.audio = audio /\ disk'.made = disk.made
      /\ disk'.retired = disk.retired /\ disk'.complete = disk.complete
      /\ disk'.projected = disk.projected /\ disk'.synced = disk.synced
      /\ disk'.journal = disk.journal
  <2> DEFINE h == half \/ (disk.half /\ audio = disk.audio)
  <2>1. h \in BOOLEAN
    OBVIOUS
  <2>2. disk' = [disk EXCEPT !.audio = audio, !.raw = raw, !.half = h]
    BY <1>2
  <2> HIDE DEF h
  <2>3. QED
    BY <1>4, <1>5, <2>1, <2>2 DEF Files
<1>7. /\ st' \in Stream /\ st'.mode = "none" /\ st'.lock = "free" /\ st'.phase = "none"
      /\ ~st'.closed /\ ~st'.failed
  BY <1>3 DEF NoStream, Stream
<1>8. w' \in Thread /\ w'.pc = "none" /\ NoProjection \in Projection
  BY <1>3 DEF NoWorker, Thread, Gone, Mark, NoProjection, Projection
<1>9. TypeInv' /\ WorkerInv' /\ AnswerInv'
  BY <1>3, <1>6, <1>7, <1>8 DEF SourceInv, TypeInv, WorkerInv, AnswerInv, Answers, Gone
<1>10. AudioInv'
  BY <1>4, <1>5, <1>6 DEF SourceInv, AudioInv
<1>11. GateInv' /\ LibraryInv'
  <2>1. disk.audio = 0 => audio = 0
    BY <1>4, <1>5
  <2>2. QED
    BY <1>3, <1>6, <1>7, <1>8, <2>1 DEF SourceInv, GateInv, LibraryInv, Modes, Gone
<1>12. DoneInv' /\ ShownInv'
  BY <1>3, <1>6, <1>7, <1>8 DEF SourceInv, DoneInv, ShownInv
<1>13. QED
  BY <1>9, <1>10, <1>11, <1>12 DEF SourceInv

\* Opening saved files trims what was half written.
LEMMA RepairedFacts ==
  ASSUME NEW d \in Files, NEW prefix \in BOOLEAN
  PROVE  LET r == Repaired(d, prefix) IN
         /\ r \in Files /\ r.audio = d.audio /\ r.made = d.made /\ r.retired = d.retired
         /\ r.complete = d.complete /\ r.projected = d.projected /\ r.synced = d.synced
         /\ r.journal = d.journal /\ r.sealed = d.sealed /\ r.half \in {d.half, FALSE}
         /\ ~prefix => ~r.half
<1> DEFINE h == IF prefix THEN d.half ELSE FALSE
           r == [d EXCEPT !.half = h, !.torn = FALSE]
<1>1. h \in BOOLEAN /\ h \in {d.half, FALSE} /\ (~prefix => ~h)
  BY DEF Files
<1>2. Repaired(d, prefix) = r
  BY DEF Repaired
<1> HIDE DEF h
<1>3. /\ r \in Files /\ r.audio = d.audio /\ r.made = d.made /\ r.retired = d.retired
      /\ r.complete = d.complete /\ r.projected = d.projected /\ r.synced = d.synced
      /\ r.journal = d.journal /\ r.sealed = d.sealed /\ r.half = h
  BY <1>1 DEF Files
<1> HIDE DEF r
<1>4. QED
  BY <1>1, <1>2, <1>3

\* The seal changes the markers only.
LEMMA SealFacts ==
  ASSUME NEW d \in Files
  PROVE  LET r == Seal(d) IN
         /\ r \in Files /\ r.audio = d.audio /\ r.made = d.made /\ r.retired = d.retired
         /\ r.complete = d.complete /\ r.projected = d.projected /\ r.synced = d.audio
         /\ r.journal = d.journal /\ r.sealed = d.audio /\ r.half = d.half
<1>1. d.audio \in Nat /\ d.audio \in Mark
  BY DEF Files, Mark
<1>2. QED
  BY <1>1 DEF Seal, Files

\* What nobody owns: only the files change, and their audio stays.
LEMMA RestFacts ==
  ASSUME SourceInv, st.mode = "none", w.pc \in Gone, ~disk.retired,
         UNCHANGED <<st, w, fin, sealer, proj, rows, shown, accepted>>,
         disk' \in Files, disk'.audio = disk.audio, disk'.made = disk.made, ~disk'.retired,
         disk'.projected = disk.projected, disk'.journal = disk.journal,
         disk'.synced \in {disk.synced, disk.audio},
         \/ disk'.complete = disk.complete
         \/ /\ disk'.complete = disk.audio /\ disk'.synced = disk.audio
            /\ Committed(disk.journal) = disk.audio,
         IsComplete(disk) => IsComplete(disk')
  PROVE  SourceInv'
<1>1. /\ disk.audio \in Nat /\ disk.synced \in Nat /\ Committed(disk.journal) \in Nat
      /\ Committed(disk.journal) <= disk.synced /\ disk.synced <= disk.audio
  BY WorkerFacts
<1>2. TypeInv' /\ WorkerInv' /\ AnswerInv'
  BY DEF SourceInv, TypeInv, WorkerInv, AnswerInv, Gone
<1>3. AudioInv'
  BY <1>1 DEF SourceInv, AudioInv
<1>4. GateInv' /\ LibraryInv'
  BY DEF SourceInv, GateInv, LibraryInv, Modes
<1>5. DoneInv' /\ ShownInv'
  BY DEF SourceInv, DoneInv, ShownInv
<1>6. QED
  BY <1>2, <1>3, <1>4, <1>5 DEF SourceInv

\* A saved source is launched again behind what is committed.
LEMMA ResumeInv ==
  ASSUME SourceInv, Resume
  PROVE  SourceInv'
<1> USE DEF outside
<1> DEFINE Switch(j) == [kind |-> "switch", from |-> Committed(j), to |-> Committed(j)]
<1>1. PICK prefix \in BOOLEAN, through \in Committed(disk.journal) .. disk.audio :
        LET d == Repaired(disk, prefix)
            pending == Committed(d.journal) < through
            frozen == IF prefix THEN d ELSE Seal(d)
            resumed == IF pending THEN [frozen EXCEPT !.journal = @ \o <<Switch(@)>>] ELSE frozen
        IN  /\ CanResume(prefix)
            /\ disk' = resumed
            /\ Launch(IF prefix THEN "prefix" ELSE "resume", resumed,
                      Committed(d.journal), through, TRUE)
            /\ UNCHANGED <<proj, rows, shown, accepted>>
  BY DEF Resume
<1> DEFINE d == Repaired(disk, prefix)
           frozen == IF prefix THEN d ELSE Seal(d)
           j == disk.journal
           mode == IF prefix THEN "prefix" ELSE "resume"
<1>2. /\ disk \in Files /\ disk.audio \in Nat /\ disk.synced \in Nat /\ j \in Seq(Receipt)
      /\ Committed(j) \in Nat /\ Committed(j) <= disk.synced /\ disk.synced <= disk.audio
  BY WorkerFacts
<1>3. /\ disk.made = "all" /\ ~disk.retired /\ UNCHANGED <<proj, rows, shown, accepted>>
  BY <1>1 DEF CanResume
<1>4. /\ d \in Files /\ d.audio = disk.audio /\ d.made = disk.made /\ d.retired = disk.retired
      /\ d.complete = disk.complete /\ d.projected = disk.projected /\ d.synced = disk.synced
      /\ d.journal = j
  BY <1>2, RepairedFacts
<1>5. /\ frozen \in Files /\ frozen.audio = disk.audio /\ frozen.made = disk.made
      /\ frozen.retired = disk.retired /\ frozen.complete = disk.complete
      /\ frozen.projected = disk.projected /\ frozen.synced \in {disk.synced, disk.audio}
      /\ frozen.journal = j
  <2> HIDE DEF d
  <2>1. QED
    BY <1>4, SealFacts
<1>6. /\ disk' = IF Committed(j) < through
                 THEN [frozen EXCEPT !.journal = j \o <<Switch(j)>>] ELSE frozen
      /\ Launch(mode, disk', Committed(j), through, TRUE)
  BY <1>1, <1>4, <1>5
<1> HIDE DEF d, frozen
<1>7. /\ Switch(j) \in Receipt /\ Switch(j).to = Committed(j)
      /\ j \o <<Switch(j)>> \in Seq(Receipt)
      /\ Committed(j \o <<Switch(j)>>) = Committed(j)
  BY <1>2, SwitchType, Grown
<1>8. /\ disk' \in Files /\ disk'.audio = disk.audio /\ disk'.made = "all" /\ ~disk'.retired
      /\ disk'.complete = disk.complete /\ disk'.projected = disk.projected
      /\ disk'.synced \in {disk.synced, disk.audio}
      /\ disk'.journal = j \/ disk'.journal = j \o <<Switch(j)>>
  <2> DEFINE k == j \o <<Switch(j)>>
  <2>1. k \in Seq(Receipt)
    BY <1>7
  <2> HIDE DEF k
  <2>2. disk' = frozen \/ disk' = [frozen EXCEPT !.journal = k]
    BY <1>6 DEF k
  <2>3. disk'.journal = j \/ disk'.journal = k
    BY <1>5, <2>1, <2>2 DEF Files
  <2>4. /\ disk' \in Files /\ disk'.audio = disk.audio /\ disk'.made = "all" /\ ~disk'.retired
        /\ disk'.complete = disk.complete /\ disk'.projected = disk.projected
        /\ disk'.synced \in {disk.synced, disk.audio}
    BY <1>3, <1>5, <2>1, <2>2 DEF Files
  <2>5. QED
    BY <2>3, <2>4 DEF k
<1>9. Committed(disk'.journal) = Committed(j)
  BY <1>7, <1>8
<1>10. /\ st' \in Stream /\ st'.mode = mode /\ st'.stop = TRUE /\ st'.closed = TRUE
       /\ st'.end = through /\ st'.lock = "free" /\ st'.phase \in {"cloud", "local"}
       /\ ~st'.failed
       /\ w' \in Thread /\ w'.pc = "run" /\ w'.end = 0 /\ w'.sent = Committed(j)
       /\ fin' = "idle" /\ sealer' = "idle"
  <2>1. mode \in Modes \cup {"resume", "prefix"} /\ through \in Nat
    BY <1>2
  <2> HIDE DEF mode
  <2>2. Launch(mode, disk', Committed(j), through, TRUE)
    BY <1>6 DEF mode
  <2>3. QED
    BY <1>2, <1>8, <2>1, <2>2, LaunchFacts
<1>11. mode \notin Modes /\ mode # "none" /\ through <= disk.audio /\ Committed(j) <= disk.audio
  BY <1>2 DEF Modes
<1> HIDE DEF Switch, mode
<1>12. ShownInv' /\ Len(j) <= Len(disk'.journal) /\ Len(j) \in Nat /\ Len(disk'.journal) \in Nat
  <2>1. \/ disk'.journal = disk.journal
        \/ \E e \in Receipt : disk'.journal = disk.journal \o <<e>> /\ Committed(disk.journal) <= e.to
    <3> DEFINE e == Switch(j)
    <3>1. e \in Receipt /\ Committed(j) <= e.to
      BY <1>2, <1>7
    <3>2. disk'.journal = j \/ disk'.journal = j \o <<e>>
      BY <1>8
    <3> HIDE DEF e
    <3>3. QED
      BY <3>1, <3>2
  <2>2. w'.pc # "publish"
    BY <1>10
  <2>3. ShownInv' /\ Len(j) <= Len(disk'.journal)
    BY <1>3, <1>8, <2>1, <2>2, ShownStays
  <2>4. disk'.journal \in Seq(Receipt)
    BY <1>8 DEF Files
  <2>5. QED
    BY <1>2, <2>3, <2>4, LenProperties
<1>13. TypeInv' /\ AudioInv'
  BY <1>2, <1>3, <1>8, <1>9, <1>10 DEF SourceInv, TypeInv, AudioInv
<1>14. WorkerInv' /\ AnswerInv' /\ GateInv'
  BY <1>2, <1>3, <1>8, <1>10, <1>11 DEF SourceInv, WorkerInv, AnswerInv, GateInv, Answers
<1>15. DoneInv'
  BY <1>10 DEF DoneInv
<1>16. LibraryInv'
  <2>1. rows \in Nat
    BY DEF SourceInv, TypeInv
  <2>2. QED
    BY <1>3, <1>8, <1>12, <2>1 DEF SourceInv, LibraryInv
<1>17. QED
  BY <1>12, <1>13, <1>14, <1>15, <1>16 DEF SourceInv

\* A resume that fails leaves the files repaired, sealed or torn.
LEMMA ResumeFailsInv ==
  ASSUME SourceInv, ResumeFails
  PROVE  SourceInv'
<1> USE DEF outside, thread
<1> DEFINE d == Repaired(disk, FALSE)
           s == Seal(d)
<1>1. /\ UNCHANGED <<st, w, fin, sealer, proj, rows, shown, accepted>>
      /\ st.mode = "none" /\ w.pc \in Gone /\ ~disk.retired /\ disk \in Files
      /\ disk' \in {d, s, [s EXCEPT !.torn = TRUE]}
  BY WorkerFacts DEF ResumeFails, CanResume, Unowned, Gone
<1>2. /\ d \in Files /\ d.audio = disk.audio /\ d.made = disk.made /\ d.retired = disk.retired
      /\ d.complete = disk.complete /\ d.projected = disk.projected /\ d.synced = disk.synced
      /\ d.journal = disk.journal /\ d.sealed = disk.sealed /\ ~d.half
  BY <1>1, RepairedFacts
<1> HIDE DEF d
<1>3. /\ s \in Files /\ s.audio = disk.audio /\ s.made = disk.made /\ s.retired = disk.retired
      /\ s.complete = disk.complete /\ s.projected = disk.projected /\ s.synced = disk.audio
      /\ s.journal = disk.journal /\ s.sealed = disk.audio /\ ~s.half
  BY <1>2, SealFacts
<1> HIDE DEF s
<1>4. /\ disk' \in Files /\ disk'.audio = disk.audio /\ disk'.made = disk.made
      /\ disk'.retired = disk.retired /\ disk'.complete = disk.complete
      /\ disk'.projected = disk.projected /\ disk'.synced \in {disk.synced, disk.audio}
      /\ disk'.journal = disk.journal /\ disk'.sealed \in {disk.sealed, disk.audio}
      /\ ~disk'.half
  <2>1. CASE disk' \in {d, s}
    BY <1>2, <1>3, <2>1
  <2>2. CASE disk' = [s EXCEPT !.torn = TRUE]
    BY <1>3, <2>2 DEF Files
  <2>3. QED
    BY <1>1, <2>1, <2>2
<1>5. IsComplete(disk) => IsComplete(disk')
  BY <1>4 DEF IsComplete, SealHolds, CanMark
<1>6. QED
  BY <1>1, <1>4, <1>5, RestFacts

\* The missing proof is added to a source whose audio is all committed.
LEMMA CompleteConfirmedInv ==
  ASSUME SourceInv, CompleteConfirmed
  PROVE  SourceInv'
<1> USE DEF outside, thread
<1> DEFINE d == Repaired(disk, FALSE)
           s == Seal(d)
<1>1. /\ UNCHANGED <<st, w, fin, sealer, proj, rows, shown, accepted>>
      /\ st.mode = "none" /\ w.pc \in Gone /\ ~disk.retired /\ disk \in Files
      /\ disk' = MarkComplete(s, d.audio) /\ Committed(d.journal) = d.audio /\ ~IsComplete(disk)
  BY WorkerFacts DEF CompleteConfirmed, Unowned, Gone
<1>2. /\ d \in Files /\ d.audio = disk.audio /\ d.made = disk.made /\ d.retired = disk.retired
      /\ d.projected = disk.projected /\ d.journal = disk.journal
  BY <1>1, RepairedFacts
<1> HIDE DEF d
<1>3. /\ s \in Files /\ s.audio = disk.audio /\ s.made = disk.made /\ s.retired = disk.retired
      /\ s.projected = disk.projected /\ s.journal = disk.journal
  BY <1>2, SealFacts
<1> HIDE DEF s
<1>4. disk.audio \in Nat /\ disk.audio \in Mark
  BY <1>1 DEF Files, Mark
<1>5. disk' = [s EXCEPT !.complete = disk.audio, !.synced = disk.audio]
  BY <1>1, <1>2, <1>3 DEF MarkComplete
<1>6. /\ disk' \in Files /\ disk'.audio = disk.audio /\ disk'.made = disk.made
      /\ disk'.retired = disk.retired /\ disk'.complete = disk.audio
      /\ disk'.projected = disk.projected /\ disk'.synced = disk.audio
      /\ disk'.journal = disk.journal
  BY <1>3, <1>4, <1>5 DEF Files
<1>7. Committed(disk.journal) = disk.audio
  BY <1>1, <1>2
<1>8. QED
  BY <1>1, <1>6, <1>7, RestFacts

\* The lost end is made again only where no marker speaks of the shorter audio.
LEMMA RestoreInv ==
  ASSUME SourceInv, Restore
  PROVE  SourceInv'
<1> USE DEF outside, thread
<1>1. /\ UNCHANGED <<st, w, fin, sealer, proj, rows, shown, accepted>>
      /\ st.mode = "none" /\ w.pc \in Gone /\ ~disk.retired /\ disk.made = "all"
      /\ disk.audio < disk.raw /\ ProofsAllow(disk, disk.raw)
      /\ disk' = [disk EXCEPT !.audio = disk.raw, !.synced = disk.raw, !.half = FALSE]
  BY DEF Restore, Unowned, Gone, Restored
<1>2. /\ disk \in Files /\ disk.audio \in Nat /\ disk.synced \in Nat /\ disk.raw \in Nat
      /\ Committed(disk.journal) \in Nat
      /\ Committed(disk.journal) <= disk.synced /\ disk.synced <= disk.audio
  BY WorkerFacts DEF Files
<1>3. disk.complete = None
  <2>1. disk.complete \in {None, disk.raw}
    BY <1>1 DEF ProofsAllow
  <2>2. QED
    BY <1>1, <1>2, <2>1 DEF SourceInv, AudioInv
<1>4. fin # "true"
  BY <1>3 DEF SourceInv, DoneInv, IsComplete
<1>5. /\ disk' \in Files /\ disk'.audio = disk.raw /\ disk'.made = disk.made
      /\ disk'.retired = disk.retired /\ disk'.complete = disk.complete
      /\ disk'.projected = disk.projected /\ disk'.synced = disk.raw
      /\ disk'.journal = disk.journal
  BY <1>1, <1>2 DEF Files
<1>6. TypeInv' /\ AnswerInv' /\ WorkerInv'
  BY <1>1, <1>5 DEF SourceInv, TypeInv, AnswerInv, WorkerInv, Gone
<1>7. AudioInv'
  BY <1>1, <1>2, <1>3, <1>5 DEF AudioInv
<1>8. GateInv' /\ LibraryInv'
  BY <1>1, <1>5 DEF SourceInv, GateInv, LibraryInv, Modes
<1>9. DoneInv' /\ ShownInv'
  BY <1>1, <1>4, <1>5 DEF SourceInv, DoneInv, ShownInv, GateInv, Gone
<1>10. QED
  BY <1>6, <1>7, <1>8, <1>9 DEF SourceInv

-----------------------------------------------------------------------------
(* The library.                                                            *)

\* The library takes a snapshot of the journal, which is acknowledged if it is
\* still the journal; files are retired once all of it is there.
LEMMA LibraryMovesInv ==
  ASSUME SourceInv, Project \/ Acknowledge \/ Retire
  PROVE  SourceInv'
<1> USE DEF outside, thread
<1>1. /\ UNCHANGED <<st, w, fin, sealer, shown, accepted>> /\ disk \in Files /\ rows \in Nat
      /\ Len(disk.journal) \in Nat /\ Committed(disk.journal) \in Nat
  BY WorkerFacts, LenProperties DEF Project, Acknowledge, Retire, SourceInv, TypeInv
<1>2. CASE Project
  <2>1. /\ UNCHANGED disk /\ rows' = Len(disk.journal) /\ ~disk.retired /\ disk.made = "all"
        /\ proj' = [len |-> Len(disk.journal), through |-> Committed(disk.journal)]
    BY <1>2 DEF Project
  <2>2. proj' \in Projection /\ rows' \in Nat /\ proj'.len = rows'
    BY <1>1, <2>1 DEF Projection, Mark
  <2>3. TypeInv' /\ AudioInv' /\ WorkerInv' /\ GateInv' /\ AnswerInv'
    BY <1>1, <2>1, <2>2 DEF SourceInv, TypeInv, AudioInv, WorkerInv, GateInv, AnswerInv
  <2>4. ShownInv' /\ DoneInv'
    BY <1>1, <2>1 DEF SourceInv, ShownInv, DoneInv, IsComplete, SealHolds, CanMark
  <2>5. LibraryInv'
    <3>1. disk.projected.len \in Int
      BY <1>1 DEF Files, Projection, Mark, None
    <3>2. QED
      BY <1>1, <2>1, <2>2, <3>1 DEF SourceInv, LibraryInv
  <2>6. QED
    BY <2>3, <2>4, <2>5 DEF SourceInv
<1>3. CASE Acknowledge
  <2>1. /\ proj # NoProjection /\ proj' = NoProjection /\ UNCHANGED rows
        /\ disk' = disk \/ disk' = [disk EXCEPT !.projected = proj]
    BY <1>3 DEF Acknowledge
  <2>2. proj \in Projection /\ NoProjection \in Projection /\ proj.len = rows
    BY <2>1 DEF SourceInv, TypeInv, LibraryInv, Projection, NoProjection, Mark
  <2>3. /\ disk' \in Files /\ disk'.audio = disk.audio /\ disk'.made = disk.made
        /\ disk'.retired = disk.retired /\ disk'.complete = disk.complete
        /\ disk'.projected \in {disk.projected, proj} /\ disk'.synced = disk.synced
        /\ disk'.journal = disk.journal /\ disk'.sealed = disk.sealed /\ disk'.half = disk.half
    BY <1>1, <2>1, <2>2 DEF Files
  <2>4. TypeInv' /\ AudioInv' /\ WorkerInv' /\ GateInv' /\ AnswerInv'
    BY <1>1, <2>1, <2>2, <2>3 DEF SourceInv, TypeInv, AudioInv, WorkerInv, GateInv, AnswerInv
  <2>5. ShownInv' /\ DoneInv'
    BY <1>1, <2>3 DEF SourceInv, ShownInv, DoneInv, IsComplete, SealHolds, CanMark
  <2>6. LibraryInv'
    BY <1>1, <2>1, <2>2, <2>3 DEF SourceInv, LibraryInv
  <2>7. QED
    BY <2>4, <2>5, <2>6 DEF SourceInv
<1>4. CASE Retire
  <2>1. /\ UNCHANGED <<proj, rows>> /\ disk.made = "all" /\ st.mode = "none" /\ w.pc \in Gone
        /\ IsProjected(disk) /\ disk' = [disk EXCEPT !.retired = TRUE]
    BY <1>4 DEF Retire, Unowned, Gone
  <2>2. /\ disk.complete # None /\ disk.projected # NoProjection
        /\ disk.projected.len = Len(disk.journal)
    BY <2>1 DEF IsProjected, IsComplete
  <2>3. rows = Len(disk.journal)
    BY <1>1, <2>2 DEF SourceInv, LibraryInv
  <2>4. /\ disk' \in Files /\ disk'.audio = disk.audio /\ disk'.made = disk.made
        /\ disk'.complete = disk.complete
        /\ disk'.projected = disk.projected /\ disk'.synced = disk.synced
        /\ disk'.journal = disk.journal /\ disk'.sealed = disk.sealed /\ disk'.half = disk.half
    BY <1>1, <2>1 DEF Files
  <2>5. TypeInv' /\ AudioInv' /\ WorkerInv' /\ GateInv' /\ AnswerInv'
    BY <1>1, <2>1, <2>4 DEF SourceInv, TypeInv, AudioInv, WorkerInv, GateInv, AnswerInv, Modes
  <2>6. ShownInv' /\ DoneInv'
    BY <1>1, <2>4 DEF SourceInv, ShownInv, DoneInv, IsComplete, SealHolds, CanMark
  <2>7. LibraryInv'
    BY <1>1, <2>1, <2>2, <2>3, <2>4 DEF SourceInv, LibraryInv
  <2>8. QED
    BY <2>5, <2>6, <2>7 DEF SourceInv
<1>5. QED
  BY <1>2, <1>3, <1>4

-----------------------------------------------------------------------------
(* Every step, and what follows.                                           *)

\* No step of worker, writer, stop, crash, recovery or library leaves the invariant.
LEMMA NextInv == SourceInv /\ [Next]_vars => SourceInv'
<1> SUFFICES ASSUME SourceInv, [Next]_vars PROVE SourceInv'
  OBVIOUS
<1>1. CASE OpenCloud \/ OpenLocal \/ OpenPrepared
  BY <1>1, OpensInv DEF OpenCloud, OpenLocal, OpenPrepared, Modes
<1>2. CASE OpenFails \/ WriteEnters \/ WriteAppends \/ WriteFails
  BY <1>2, OpenFailsInv, WritesInv
<1>3. CASE Worker
  BY <1>3, LoopInv, DemoteInv, CommitInv, PublishInv, CompleteInv, WorkerExitsInv, NativeExitsInv
     DEF Worker
<1>4. CASE Stop
  BY <1>4, StopsInv, SealInv DEF Stop
<1>5. CASE Crash \/ Resume \/ ResumeFails \/ CompleteConfirmed \/ Restore
  BY <1>5, CrashInv, ResumeInv, ResumeFailsInv, CompleteConfirmedInv, RestoreInv
<1>6. CASE Project \/ Acknowledge \/ Retire
  BY <1>6, LibraryMovesInv
<1>7. CASE UNCHANGED vars
  <2>1. TypeInv' /\ AudioInv' /\ WorkerInv' /\ GateInv' /\ AnswerInv' /\ LibraryInv'
    BY <1>7 DEF vars, SourceInv, TypeInv, AudioInv, WorkerInv, GateInv, AnswerInv, LibraryInv
  <2>2. ShownInv' /\ DoneInv'
    BY <1>7 DEF vars, SourceInv, ShownInv, DoneInv, IsComplete, SealHolds, CanMark
  <2>3. QED
    BY <2>1, <2>2 DEF SourceInv
<1>8. QED
  BY <1>1, <1>2, <1>3, <1>4, <1>5, <1>6, <1>7 DEF Next

\* The inductive invariant: receipts behind the synced audio, markers that only
\* speak of all of it, one owner of the files at a time.
THEOREM SourceInvariance == Spec => []SourceInv
<1>1. QED
  BY InitInv, NextInv, PTL DEF Spec

\* Through any crash, every receipt covers audio that is synced, and every final
\* the session was shown is a receipt and was shown once (CoverageJournal::record,
\* Worker::commit).
THEOREM ReceiptsAlwaysHold == Spec => []ReceiptsHold
<1>1. SourceInv => ReceiptsHold
  BY DEF SourceInv, AudioInv, ShownInv, ReceiptsHold, ReceiptsAreSafe, ShownOnce
<1>2. QED
  BY <1>1, SourceInvariance, PTL

\* A completion marker that is believed, an answer of true and a retired source
\* each mean that all of the audio has its receipt (mark_complete, finish,
\* retirement_guard).
THEOREM ClaimsStayTrue == Spec => []ClaimsAreTrue
<1>1. SourceInv => ClaimsAreTrue
  <2> SUFFICES ASSUME SourceInv PROVE ClaimsAreTrue
    OBVIOUS
  <2>1. CompletionIsTrue
    BY DEF SourceInv, AudioInv, CompletionIsTrue, IsComplete
  <2>2. TrueMeansComplete
    BY DEF SourceInv, DoneInv, TrueMeansComplete
  <2>3. RetiredIsInLibrary
    BY DEF SourceInv, LibraryInv, AudioInv, RetiredIsInLibrary
  <2>4. QED
    BY <2>1, <2>2, <2>3 DEF ClaimsAreTrue
<1>2. QED
  BY <1>1, SourceInvariance, PTL

\* A final is shown by Publish only, and not once the fence has fallen.
LEMMA ShownStep ==
  ASSUME SourceInv, [Next]_vars, fin \in Answers, fin' = fin
  PROVE  shown' = shown
<1>1. CASE Publish
  <2>1. st.fenced
    BY <1>1 DEF Publish, SourceInv, AnswerInv, Gone
  <2>2. QED
    BY <1>1, <2>1 DEF Publish, Emitted
<1>2. CASE ~Publish
  BY <1>2 DEF Next, vars, Worker, Stop, OpenCloud, OpenLocal, OpenPrepared, Opens, OpenFails,
     WriteEnters, WriteAppends, WriteFails, Fenced, CloudFinal, CloudSurfaces, Demote, LoadEnd,
     CloudStep, CloudSettles, LocalStep, Infer, Commit, LocalCheck, Complete, WorkerExits,
     NativeExits, FinishStarts, SealRuns, FinishReturns, FinishTimesOut, Drop, DropWhileWorking,
     Crash, Resume, ResumeFails, CompleteConfirmed, Restore, Project, Acknowledge, Retire
<1>3. QED
  BY <1>1, <1>2

\* After finish has answered, or the stream was dropped, nothing more is shown
\* (Shared::emit behind the fence, or a worker that is gone).
THEOREM NothingFollowsTheAnswer == Spec => NothingAfterAnswer
<1>1. SourceInv /\ [Next]_vars =>
        [(fin \in {"true", "false", "dropped"} /\ fin' = fin) => shown' = shown]_vars
  BY ShownStep DEF Answers
<1>2. QED
  BY <1>1, SourceInvariance, PTL DEF Spec, NothingAfterAnswer

=============================================================================
