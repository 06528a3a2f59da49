------------------------- MODULE AfterMeetingProofs -------------------------
(***************************************************************************)
(* Proofs about what is made of a meeting once it is over, each module for *)
(* itself: the cleanup of its transcript (PostPass) and its title, summary *)
(* and documents (Enrichment).                                             *)
(*                                                                         *)
(* The cleanup, for any track and any number of restarts, upgrades,        *)
(* failures, cancels and retries: a run works by the engine that planned   *)
(* its job, on checkpoints of that plan, and what people see changes only  *)
(* with a job that is done.  Enrichment, for any number of edits and       *)
(* restarts: the stamps of the calls under way are tied to what was read   *)
(* with them, and the inputs' epoch only moves forward, so that a stamp    *)
(* that still matches was taken on the inputs, and on the title, that are  *)
(* there now.                                                              *)
(***************************************************************************)
EXTENDS PostPass, Enrichment, WellFoundedInduction, NaturalsInduction, TLAPS

-----------------------------------------------------------------------------
(* Post-meeting cleanup: the inductive invariant.                          *)

RunPlaces == {"idle", "factory", "arm", "open", "window", "hear", "unload", "restore",
           "diarize", "complete", "giveback", "release"}
(* Where the run has read its row, and where it has heard every window.    *)
Opened == {"window", "hear", "unload", "restore", "diarize", "complete"}
Through == {"unload", "restore", "diarize", "complete"}

Revisions == 1 .. MaxUpgrades + 1
Rows == [st : {"none", "pending", "failed", "done"}, plan : Nat,
         wins : SUBSET (Windows \X Nat), words : SUBSET (Windows \X Nat)]
Workers == [at : RunPlaces, armed : BOOLEAN, stop : BOOLEAN, saved : SUBSET (Windows \X Nat),
            end : {"none", "done", "stopped", "error"}]

(* The row: its checkpoints are of the plan it was queued with, and words  *)
(* are there once it is done.                                              *)
RowInv ==
  /\ row \in Rows /\ rev \in Revisions
  /\ row.st # "none" => row.plan \in Revisions
  /\ row.wins \subseteq Windows \X {row.plan}
  /\ row.st # "done" => row.words = {}
  /\ row.words # {} => VersionIsWhole

(* The run: of a job there is, by the engine that planned it, with what it *)
(* has heard of that plan.                                                 *)
RunInv ==
  /\ w \in Workers /\ halt \in BOOLEAN
  /\ w.at # "idle" => row.st # "none"
  /\ w.at \in Opened => rev = row.plan /\ w.saved \subseteq Windows \X {row.plan}
  /\ w.at = "hear" => Windows \ Heard # {}
  /\ w.at \in Through => Windows \ Heard = {}

(* What people see: the cleaned version only of a job that is done, and no *)
(* summary while a pending job may still replace what it was made from,    *)
(* but in the last instant of a wait that began on a second.               *)
ShownInv ==
  /\ age \in Nat
  /\ primary = "cleaned" => row.st = "done"
  /\ Pending /\ InTime => summarized = "none" \/ (sharp /\ age = Wait)

PassInv == RowInv /\ RunInv /\ ShownInv

-----------------------------------------------------------------------------
(* The windows of a track are numbered.                                    *)

(* What holds of 0 and of each successor up to n holds of n.               *)
LEMMA CountUp ==
  ASSUME NEW n \in Nat, NEW G, 0 \in G, \A i \in 1 .. n : i - 1 \in G => i \in G
  PROVE  n \in G
<1> DEFINE Bad == {k \in Nat : k <= n /\ k \notin G}
<1> SUFFICES ASSUME Bad # {} PROVE FALSE
  OBVIOUS
<1>1. IsWellFoundedOn(OpToRel(<, Nat), Nat)
  BY NatLessThanWellFounded
<1>2. PICK k \in Bad : \A y \in Bad : ~(<<y, k>> \in OpToRel(<, Nat))
  BY <1>1, WFMin
<1>3. k \in Nat /\ k <= n /\ k \notin G /\ k # 0
  BY <1>2
<1>4. k - 1 \in Nat /\ k - 1 < k /\ k \in 1 .. n
  BY <1>3
<1>5. k - 1 \notin Bad
  BY <1>2, <1>4 DEF OpToRel
<1> QED BY <1>3, <1>4, <1>5

Piece == [s : Nat, e : Nat]
Piece1(s) == <<[s |-> s, e |-> Total]>>
Piece2(s) == <<[s |-> s, e |-> s + Window]>>
Cut(f, s) == IF s + Window >= Total THEN Piece1(s) ELSE Piece2(s) \o f[s + Window - Overlap]

LEMMA CutsAre ==
  ASSUME NEW s \in 0 .. Total
  PROVE  /\ Piece1(s) \in Seq(Piece) /\ Piece2(s) \in Seq(Piece)
         /\ s + Window < Total => s + Window - Overlap \in s + 1 .. Total
BY MergeBounds DEF Piece1, Piece2, Piece

(* plan's recursion has a solution ...                                     *)
LEMMA CutExists == \E f : f = [s \in 0 .. Total |-> Cut(f, s)]
<1>0. Total \in Nat
  BY MergeBounds
<1> DEFINE Solved(f, k) == f = [s \in 0 .. Total |-> f[s]]
                           /\ \A s \in 0 .. Total : s + k >= Total => f[s] = Cut(f, s)
           G == {k \in Nat : \E f : Solved(f, k)}
<1>1. 0 \in G
  <2> DEFINE f == [s \in 0 .. Total |-> Piece1(s)]
  <2>1. \A s \in 0 .. Total : s + 0 >= Total => f[s] = Cut(f, s)
    BY <1>0, MergeBounds DEF Cut
  <2>2. Solved(f, 0)
    BY <2>1
  <2> QED BY <2>2
<1>2. ASSUME NEW k \in 1 .. Total, k - 1 \in G PROVE k \in G
  <2>1. PICK f : Solved(f, k - 1)
    BY <1>2
  <2> DEFINE z == Total - k
             g == [s \in 0 .. Total |-> IF s = z THEN Cut(f, z) ELSE f[s]]
  <2>2. z \in 0 .. Total /\ k \in Nat
    BY <1>0
  <2>3. ASSUME NEW s \in 0 .. Total, s + k >= Total PROVE g[s] = Cut(g, s)
    <3>1. s >= z
      BY <1>0, <2>3
    <3>2. s + Window < Total => g[s + Window - Overlap] = f[s + Window - Overlap]
      <4> SUFFICES ASSUME s + Window < Total PROVE g[s + Window - Overlap] = f[s + Window - Overlap]
        OBVIOUS
      <4>1. s + Window - Overlap \in s + 1 .. Total
        BY CutsAre
      <4>2. s + Window - Overlap \in 0 .. Total /\ s + Window - Overlap # z
        BY <1>0, <2>2, <3>1, <4>1
      <4> QED BY <4>2
    <3>3. Cut(g, s) = Cut(f, s)
      <4>1. s \in Nat /\ Window \in Nat /\ Total \in Nat
        BY <1>0, MergeBounds
      <4> HIDE DEF g
      <4> QED BY <3>2, <4>1 DEF Cut
    <3>4. g[s] = IF s = z THEN Cut(f, z) ELSE f[s]
      OBVIOUS
    <3>5. s # z => f[s] = Cut(f, s)
      BY <1>0, <2>1, <2>2, <3>1
    <3> HIDE DEF g
    <3> QED BY <3>3, <3>4, <3>5
  <2>4. g = [s \in 0 .. Total |-> g[s]]
    OBVIOUS
  <2>5. Solved(g, k)
    <3> HIDE DEF g
    <3> QED BY <2>3, <2>4
  <2> QED BY <2>2, <2>5
<1>3. Total \in G
  <2> HIDE DEF G
  <2> QED BY <1>0, <1>1, <1>2, CountUp
<1>4. PICK f : Solved(f, Total)
  BY <1>3
<1>5. \A s \in 0 .. Total : f[s] = Cut(f, s)
  BY <1>0, <1>4
<1>6. f = [s \in 0 .. Total |-> Cut(f, s)]
  BY <1>4, <1>5
<1> QED BY <1>6

(* ... and every solution is a sequence of pieces.                         *)
LEMMA CutIsSeq ==
  ASSUME NEW f, f = [s \in 0 .. Total |-> Cut(f, s)]
  PROVE  \A s \in 0 .. Total : f[s] \in Seq(Piece)
<1>0. Total \in Nat /\ Window \in Nat
  BY MergeBounds
<1> DEFINE G == {k \in Nat : \A s \in 0 .. Total : s + k >= Total => f[s] \in Seq(Piece)}
<1>a. \A s \in 0 .. Total : f[s] = Cut(f, s)
  OBVIOUS
<1>1. 0 \in G
  <2>1. ASSUME NEW s \in 0 .. Total, s + 0 >= Total PROVE f[s] \in Seq(Piece)
    BY <1>0, <1>a, <2>1, CutsAre DEF Cut
  <2> QED BY <2>1
<1>2. ASSUME NEW k \in 1 .. Total, k - 1 \in G PROVE k \in G
  <2>1. ASSUME NEW s \in 0 .. Total, s + k >= Total PROVE f[s] \in Seq(Piece)
    <3>1. CASE s + Window >= Total
      BY <1>a, <3>1, CutsAre DEF Cut
    <3>2. CASE s + Window < Total
      <4>1. s + Window - Overlap \in s + 1 .. Total
        BY <3>2, CutsAre
      <4> DEFINE t == s + Window - Overlap
      <4>2. t \in 0 .. Total /\ t + (k - 1) >= Total
        BY <1>0, <2>1, <4>1
      <4>3. f[t] \in Seq(Piece)
        BY <1>2, <4>2
      <4>4. f[s] = Piece2(s) \o f[t]
        <5>1. f[s] = Cut(f, s) /\ ~(s + Window >= Total)
          BY <1>0, <1>a, <3>2
        <5> QED BY <5>1 DEF Cut
      <4> HIDE DEF t
      <4>5. Piece2(s) \in Seq(Piece)
        BY CutsAre
      <4>6. \A p, q \in Seq(Piece) : p \o q \in Seq(Piece)
        OBVIOUS
      <4> QED BY <4>3, <4>4, <4>5, <4>6
    <3> QED BY <1>0, <3>1, <3>2
  <2> QED BY <1>0, <2>1
<1>3. Total \in G
  <2> HIDE DEF G
  <2> QED BY <1>0, <1>1, <1>2, CountUp
<1> QED BY <1>0, <1>3

LEMMA WindowsAre == Windows = 1 .. Len(Plan) /\ Len(Plan) \in Nat
<1>1. Plan \in Seq(Piece)
  <2> DEFINE h == CHOOSE f : f = [s \in 0 .. Total |-> Cut(f, s)]
  <2>1. h = [s \in 0 .. Total |-> Cut(h, s)]
    BY CutExists
  <2>2. Plan = IF Total = 0 THEN <<>> ELSE h[0]
    BY DEF Plan, Cut, Piece1, Piece2
  <2> HIDE DEF h
  <2>3. h[0] \in Seq(Piece)
    BY <2>1, CutIsSeq, MergeBounds
  <2> QED BY <2>2, <2>3
<1> QED BY <1>1 DEF Windows

(* Of some windows one comes first.                                        *)
LEMMA FirstWindow ==
  ASSUME Windows \ Heard # {} PROVE NextWin \in Windows \ Heard
<1>1. Windows \subseteq Nat
  BY WindowsAre
<1>2. IsWellFoundedOn(OpToRel(<, Nat), Nat)
  BY NatLessThanWellFounded
<1> DEFINE Left == Windows \ Heard
<1>3. PICK k \in Left : \A y \in Left : ~(<<y, k>> \in OpToRel(<, Nat))
  BY <1>1, <1>2, WFMin
<1>4. \A j \in Left : k <= j
  <2>1. Left \subseteq Nat
    BY <1>1
  <2> HIDE DEF Left
  <2>2. ASSUME NEW j \in Left PROVE k <= j
    <3>1. j \in Nat /\ k \in Nat /\ ~(<<j, k>> \in OpToRel(<, Nat))
      BY <1>3, <2>1
    <3> QED BY <3>1 DEF OpToRel
  <2> QED BY <2>2
<1> QED BY <1>3, <1>4 DEF NextWin

-----------------------------------------------------------------------------
(* The invariant is kept.                                                  *)

LEMMA RowTypes ==
  ASSUME PassInv
  PROVE  /\ row \in Rows /\ row.plan \in Nat
         /\ row.wins \subseteq Windows \X Nat /\ row.words \subseteq Windows \X Nat
         /\ w \in Workers /\ rev \in Nat
BY PassBounds DEF PassInv, RowInv, RunInv, Rows, Revisions

LEMMA FailIs ==
  ASSUME NEW r \in Rows
  PROVE  /\ Fail(r) \in Rows /\ Fail(r).plan = r.plan /\ Fail(r).wins = {}
         /\ Fail(r).words = r.words
         /\ Fail(r).st = (IF r.st = "pending" THEN "failed" ELSE r.st)
<1> DEFINE x == IF r.st = "pending" THEN "failed" ELSE r.st
<1>1. Fail(r) = [r EXCEPT !.st = x, !.wins = {}]
  BY DEF Fail, Rows
<1>2. x \in {"none", "pending", "failed", "done"}
  BY DEF Rows
<1> HIDE DEF x
<1>3. /\ Fail(r) \in Rows /\ Fail(r).plan = r.plan /\ Fail(r).wins = {}
      /\ Fail(r).words = r.words /\ Fail(r).st = x
  BY <1>1, <1>2 DEF Rows
<1> QED BY <1>3 DEF x

(* A step that leaves the worker's place in the run, the row's plan and    *)
(* words alone, or fails the job.                                          *)
LEMMA SameRun ==
  ASSUME PassInv, w' = w \/ (w' \in Workers /\ w'.at = w.at /\ w'.saved = w.saved),
         row' = row \/ row' = Fail(row), rev' = rev, halt' \in BOOLEAN
  PROVE  RowInv' /\ RunInv' /\ w' \in Workers
<1>0. row \in Rows /\ w \in Workers
  BY RowTypes
<1>1. /\ row' \in Rows /\ row'.plan = row.plan /\ row'.words = row.words
      /\ row'.wins \subseteq row.wins
      /\ row'.st = "none" <=> row.st = "none"
      /\ row'.st = "done" <=> row.st = "done"
  BY <1>0, FailIs
<1>2. w' \in Workers /\ w'.at = w.at /\ w'.saved = w.saved /\ Heard' = Heard
  BY <1>0 DEF Heard
<1>3. RowInv'
  BY <1>1 DEF PassInv, RowInv, VersionIsWhole
<1>4. RunInv'
  BY <1>1, <1>2 DEF PassInv, RunInv
<1> QED BY <1>2, <1>3, <1>4

(* A step that leaves the row alone.                                       *)
LEMMA SameRow ==
  ASSUME PassInv, row' = row, rev' = rev PROVE RowInv'
BY DEF PassInv, RowInv, VersionIsWhole

(* A step that leaves what people see alone, and does not queue the job.   *)
LEMMA SameShown ==
  ASSUME PassInv, UNCHANGED <<primary, age, sharp, summarized>>,
         row'.st = row.st \/ row'.st = "done" \/ (row.st # "done" /\ row'.st = "failed")
  PROVE  ShownInv'
BY DEF PassInv, ShownInv, Pending, InTime

LEMMA RestIs ==
  /\ Asleep \in Workers /\ Asleep.at = "idle"
  /\ NoRow \in Rows
BY DEF Asleep, Workers, RunPlaces, NoRow, Rows

LEMMA WorkerIs ==
  ASSUME NEW x \in Workers, NEW a \in RunPlaces
  PROVE  LET y == [x EXCEPT !.at = a] IN
           y \in Workers /\ y.at = a /\ y.saved = x.saved
BY DEF Workers

LEMMA EndsIs ==
  ASSUME NEW x \in Workers, NEW a \in RunPlaces, NEW r \in {"none", "done", "stopped", "error"}
  PROVE  LET y == [x EXCEPT !.at = a, !.end = r] IN
           y \in Workers /\ y.at = a /\ y.saved = x.saved
BY DEF Workers

(* A run that moves on, over a row it does not touch.                      *)
LEMMA MovedRun ==
  ASSUME PassInv, rev' = rev, halt' = halt, row' = row \/ row' = Fail(row),
         w' \in Workers, w'.saved = w.saved,
         w'.at # "idle" => w.at # "idle",
         w'.at \in Opened => w.at \in Opened,
         w'.at = "hear" => Windows \ Heard # {},
         w'.at \in Through => Windows \ Heard = {}
  PROVE  RowInv' /\ RunInv'
<1>0. row \in Rows
  BY RowTypes
<1>1. /\ row' \in Rows /\ row'.plan = row.plan /\ row'.words = row.words
      /\ row'.wins \subseteq row.wins
      /\ row'.st = "none" <=> row.st = "none"
      /\ row'.st = "done" <=> row.st = "done"
  BY <1>0, FailIs
<1>2. Heard' = Heard
  BY DEF Heard
<1>3. RowInv'
  BY <1>1 DEF PassInv, RowInv, VersionIsWhole
<1>4. RunInv'
  BY <1>1, <1>2 DEF PassInv, RunInv
<1> QED BY <1>3, <1>4

(* A run that ends.                                                        *)
LEMMA EndedRun ==
  ASSUME PassInv, rev' = rev, halt' = halt, w.at # "idle",
         NEW r \in {"done", "stopped", "error"}, RunEnds(r)
  PROVE  RowInv' /\ RunInv' /\ row' = row
<1>1. w \in Workers
  BY RowTypes
<1>2. row' = row /\ w' = [w EXCEPT !.at = "giveback", !.end = r]
  BY DEF RunEnds
<1>3. w' \in Workers /\ w'.at = "giveback" /\ w'.saved = w.saved
  BY <1>1, <1>2 DEF Workers, RunPlaces
<1> QED BY <1>2, <1>3, MovedRun DEF Opened, Through

(* The worker goes to sleep.                                               *)
LEMMA SleepingRun ==
  ASSUME PassInv, rev' \in Revisions, halt' \in BOOLEAN, row' = row \/ row' = Fail(row), w' = Asleep
  PROVE  RowInv' /\ RunInv'
<1>0. row \in Rows
  BY RowTypes
<1>1. /\ row' \in Rows /\ row'.plan = row.plan /\ row'.words = row.words
      /\ row'.wins \subseteq row.wins
      /\ row'.st = "none" <=> row.st = "none"
      /\ row'.st = "done" <=> row.st = "done"
  BY <1>0, FailIs
<1>2. w' \in Workers /\ w'.at = "idle"
  BY RestIs
<1>3. RowInv'
  BY <1>1 DEF PassInv, RowInv, VersionIsWhole
<1>4. RunInv'
  BY <1>2 DEF RunInv, Opened, Through
<1> QED BY <1>3, <1>4

LEMMA FailedIs ==
  ASSUME PassInv, Failed
  PROVE  (row' = row \/ row' = Fail(row))
         /\ (row'.st = row.st \/ (row.st # "done" /\ row'.st = "failed"))
BY RowTypes, FailIs DEF Failed

(* What a step may not do to what is settled.                              *)
LateStep == primary' = "cleaned" /\ row'.st # row.st =>
              summarized = "none" \/ (sharp /\ age = Wait)
CancelStep == row.st = "failed" /\ row'.st # "failed" => row'.st = "pending" /\ w' = w
SettledStep == LateStep /\ CancelStep

(* A step that keeps the row's state, or fails it.                         *)
LEMMA QuietStep ==
  ASSUME PassInv, primary' = primary,
         row'.st = row.st \/ (row.st # "done" /\ row'.st = "failed")
  PROVE  SettledStep
BY DEF PassInv, ShownInv, SettledStep, LateStep, CancelStep

LEMMA QueueKeeps == PassInv /\ Queue => PassInv' /\ SettledStep
<1> SUFFICES ASSUME PassInv, Queue PROVE PassInv' /\ SettledStep
  OBVIOUS
<1>0. /\ row.st = "none" /\ row' = [NoRow EXCEPT !.st = "pending", !.plan = rev]
      /\ age' = 0 /\ summarized' = "none" /\ UNCHANGED <<primary, w, halt, rev>>
  BY DEF Queue
<1>1. /\ row' \in Rows /\ row'.st = "pending" /\ row'.plan = rev /\ row'.wins = {}
      /\ row'.words = {}
  BY <1>0, RowTypes, RestIs DEF Rows, NoRow
<1>2. RowInv'
  BY <1>0, <1>1 DEF PassInv, RowInv, VersionIsWhole
<1>3. w.at = "idle" /\ w \in Workers
  BY <1>0 DEF PassInv, RunInv
<1>4. RunInv'
  BY <1>0, <1>3 DEF PassInv, RunInv, Opened, Through
<1>5. ShownInv'
  BY <1>0 DEF PassInv, ShownInv
<1>6. SettledStep
  BY <1>0 DEF PassInv, ShownInv, SettledStep, LateStep, CancelStep
<1> QED BY <1>2, <1>4, <1>5, <1>6 DEF PassInv

LEMMA RetryKeeps == PassInv /\ Retry => PassInv' /\ SettledStep
<1> SUFFICES ASSUME PassInv, Retry PROVE PassInv' /\ SettledStep
  OBVIOUS
<1>0. /\ row.st = "failed" /\ row' = [row EXCEPT !.st = "pending"]
      /\ age' = 0 /\ summarized' = "none" /\ UNCHANGED <<primary, w, halt, rev>>
  BY DEF Retry
<1>1. /\ row' \in Rows /\ row'.st = "pending" /\ row'.plan = row.plan /\ row'.wins = row.wins
      /\ row'.words = row.words
  BY <1>0, RowTypes DEF Rows
<1>2. RowInv'
  BY <1>0, <1>1 DEF PassInv, RowInv, VersionIsWhole
<1>3. Heard' = Heard
  BY <1>0 DEF Heard
<1>4. RunInv'
  BY <1>0, <1>1, <1>3 DEF PassInv, RunInv
<1>5. ShownInv'
  BY <1>0 DEF PassInv, ShownInv
<1>6. SettledStep
  BY <1>0, <1>1 DEF PassInv, ShownInv, SettledStep, LateStep, CancelStep
<1> QED BY <1>2, <1>4, <1>5, <1>6 DEF PassInv

LEMMA CancelKeeps == PassInv /\ Cancel => PassInv' /\ SettledStep
<1> SUFFICES ASSUME PassInv, Cancel PROVE PassInv' /\ SettledStep
  OBVIOUS
<1>0. /\ row.st = "pending" /\ row' = Fail(row)
      /\ w' = w \/ w' = [w EXCEPT !.stop = TRUE]
      /\ UNCHANGED <<primary, age, sharp, summarized, halt, rev>>
  BY DEF Cancel, Pending
<1>1. row'.st = "failed"
  BY <1>0, RowTypes, FailIs
<1>2. w' = w \/ (w' \in Workers /\ w'.at = w.at /\ w'.saved = w.saved)
  BY <1>0, RowTypes DEF Workers
<1>3. RowInv' /\ RunInv'
  BY <1>0, <1>2, SameRun DEF PassInv, RunInv
<1>4. ShownInv'
  BY <1>0, <1>1, SameShown
<1>5. SettledStep
  BY <1>0, <1>1, QuietStep
<1> QED BY <1>3, <1>4, <1>5 DEF PassInv

LEMMA ShowKeeps == PassInv /\ Show => PassInv' /\ SettledStep
<1> SUFFICES ASSUME PassInv, Show PROVE PassInv' /\ SettledStep
  OBVIOUS
<1>0. /\ primary' \in {"live", "other"} \/ (row.words # {} /\ primary' = "cleaned")
      /\ UNCHANGED <<row, age, sharp, summarized, w, halt, rev>>
  BY DEF Show
<1>1. RowInv' /\ RunInv'
  BY <1>0, SameRun DEF PassInv, RunInv
<1>2. ShownInv'
  BY <1>0 DEF PassInv, RowInv, ShownInv, Pending, InTime
<1>3. SettledStep
  BY <1>0 DEF SettledStep, LateStep, CancelStep
<1> QED BY <1>1, <1>2, <1>3 DEF PassInv

LEMMA EnrichKeeps == PassInv /\ Enrich => PassInv' /\ SettledStep
<1> SUFFICES ASSUME PassInv, Enrich PROVE PassInv' /\ SettledStep
  OBVIOUS
<1>0. ~Held /\ UNCHANGED <<row, primary, age, sharp, w, halt, rev>>
  BY DEF Enrich
<1>1. RowInv' /\ RunInv'
  BY <1>0, SameRun DEF PassInv, RunInv
<1>2. Pending /\ InTime => sharp /\ age = Wait
  BY <1>0, PassBounds DEF PassInv, ShownInv, Held, InTime
<1>3. ShownInv'
  BY <1>0, <1>2 DEF PassInv, ShownInv, Pending, InTime
<1>4. SettledStep
  BY <1>0, QuietStep
<1> QED BY <1>1, <1>3, <1>4 DEF PassInv

LEMMA TickKeeps == PassInv /\ Tick => PassInv' /\ SettledStep
<1> SUFFICES ASSUME PassInv, Tick PROVE PassInv' /\ SettledStep
  OBVIOUS
<1>0. age' = age + 1 /\ UNCHANGED <<row, primary, sharp, summarized, w, halt, rev>>
  BY DEF Tick
<1>1. RowInv' /\ RunInv'
  BY <1>0, SameRun DEF PassInv, RunInv
<1>2. ShownInv'
  BY <1>0, PassBounds DEF PassInv, ShownInv, Pending, InTime
<1>3. SettledStep
  BY <1>0, QuietStep
<1> QED BY <1>1, <1>2, <1>3 DEF PassInv

(* Steps beside the job: a due time, a recording, the shutdown.            *)
LEMMA BesideKeeps ==
  PassInv /\ (Elapse \/ RecStarts \/ RecLoads \/ RecEnds \/ UNCHANGED passVars)
    => PassInv' /\ SettledStep
<1> SUFFICES ASSUME PassInv, Elapse \/ RecStarts \/ RecLoads \/ RecEnds \/ UNCHANGED passVars
             PROVE  PassInv' /\ SettledStep
  OBVIOUS
<1>0. UNCHANGED <<row, primary, age, sharp, summarized, w, halt, rev>>
  BY DEF Elapse, RecStarts, RecLoads, RecEnds, passVars, jobRows
<1>1. RowInv' /\ RunInv'
  BY <1>0, SameRun DEF PassInv, RunInv
<1>2. ShownInv'
  BY <1>0, SameShown
<1>3. SettledStep
  BY <1>0, QuietStep
<1> QED BY <1>1, <1>2, <1>3 DEF PassInv

LEMMA ShutdownKeeps == PassInv /\ Shutdown => PassInv' /\ SettledStep
<1> SUFFICES ASSUME PassInv, Shutdown PROVE PassInv' /\ SettledStep
  OBVIOUS
<1>0. /\ halt' = TRUE /\ UNCHANGED <<row, primary, age, sharp, summarized, rev>>
      /\ w' = w \/ w' = [w EXCEPT !.stop = TRUE]
  BY DEF Shutdown, jobRows
<1>1. w' = w \/ (w' \in Workers /\ w'.at = w.at /\ w'.saved = w.saved)
  BY <1>0, RowTypes DEF Workers
<1>2. RowInv' /\ RunInv'
  BY <1>0, <1>1, SameRun
<1>3. ShownInv'
  BY <1>0, SameShown
<1>4. SettledStep
  BY <1>0, QuietStep
<1> QED BY <1>2, <1>3, <1>4 DEF PassInv

LEMMA RestartKeeps == PassInv /\ Restart => PassInv' /\ SettledStep
<1> SUFFICES ASSUME PassInv, Restart PROVE PassInv' /\ SettledStep
  OBVIOUS
<1>0. /\ halt' = FALSE /\ UNCHANGED <<row, primary, age, sharp, summarized>> /\ w' = Asleep
      /\ rev' = rev \/ (rev <= MaxUpgrades /\ rev' = rev + 1)
  BY DEF Restart, jobRows
<1>1. rev' \in Revisions
  BY <1>0, PassBounds DEF PassInv, RowInv, Revisions
<1>2. RowInv' /\ RunInv'
  BY <1>0, <1>1, SleepingRun
<1>3. ShownInv'
  BY <1>0, SameShown
<1>4. SettledStep
  BY <1>0, QuietStep
<1> QED BY <1>2, <1>3, <1>4 DEF PassInv

(* The run's steps.  One that keeps the row, or fails it, and people's     *)
(* view of it, has only its place to account for.                          *)
LEMMA RunStep ==
  ASSUME PassInv, UNCHANGED <<primary, age, sharp, summarized, rev, halt>>,
         row' = row \/ row' = Fail(row), RowInv', RunInv'
  PROVE  PassInv' /\ SettledStep
<1>1. row'.st = row.st \/ (row.st # "done" /\ row'.st = "failed")
  BY RowTypes, FailIs
<1>2. ShownInv' /\ SettledStep
  BY <1>1, SameShown, QuietStep
<1> QED BY <1>2 DEF PassInv

(* A plain move to place a.                                                *)
LEMMA PlainMove ==
  ASSUME PassInv, UNCHANGED <<row, primary, age, sharp, summarized, rev, halt>>,
         NEW a \in RunPlaces, w' = [w EXCEPT !.at = a], w.at # "idle",
         a \in Opened => w.at \in Opened,
         a = "hear" => Windows \ Heard # {},
         a \in Through => Windows \ Heard = {}
  PROVE  PassInv' /\ SettledStep
<1>1. w' \in Workers /\ w'.at = a /\ w'.saved = w.saved
  BY RowTypes, WorkerIs
<1>2. RowInv' /\ RunInv'
  BY <1>1, MovedRun
<1> QED BY <1>2, RunStep

(* A run that ends, over the same row.                                     *)
LEMMA PlainEnd ==
  ASSUME PassInv, UNCHANGED <<primary, age, sharp, summarized, rev, halt>>, w.at # "idle",
         NEW r \in {"done", "stopped", "error"}, RunEnds(r)
  PROVE  PassInv' /\ SettledStep
BY EndedRun, RunStep

LEMMA TakeKeeps == PassInv /\ Take => PassInv' /\ SettledStep
<1> SUFFICES ASSUME PassInv, Take PROVE PassInv' /\ SettledStep
  OBVIOUS
<1>0. /\ row.st = "pending" /\ w' = [Asleep EXCEPT !.at = "factory"]
      /\ UNCHANGED <<row, primary, age, sharp, summarized, rev, halt>>
  BY DEF Take, Pending, jobRows
<1>1. w' \in Workers /\ w'.at = "factory"
  BY <1>0, RestIs DEF Workers, RunPlaces
<1>2. RunInv'
  BY <1>0, <1>1 DEF PassInv, RunInv, Opened, Through
<1>3. RowInv'
  BY <1>0, SameRow
<1> QED BY <1>0, <1>2, <1>3, RunStep

LEMMA FactoryKeeps == PassInv /\ Factory => PassInv' /\ SettledStep
<1> SUFFICES ASSUME PassInv, Factory PROVE PassInv' /\ SettledStep
  OBVIOUS
<1>0. w.at = "factory" /\ UNCHANGED <<primary, age, sharp, summarized, rev, halt>>
  BY DEF Factory
<1>1. CASE w' = [w EXCEPT !.at = "arm"] /\ row' = row
  BY <1>0, <1>1, PlainMove DEF RunPlaces, Opened, Through
<1>2. CASE Failed /\ w' = Asleep
  <2>1. row' = row \/ row' = Fail(row)
    BY <1>2, FailedIs
  <2>2. RowInv' /\ RunInv'
    BY <1>0, <1>2, <2>1, SleepingRun DEF PassInv, RowInv, RunInv
  <2> QED BY <1>0, <2>1, <2>2, RunStep
<1> QED BY <1>1, <1>2 DEF Factory

LEMMA ArmKeeps == PassInv /\ Arm => PassInv' /\ SettledStep
<1> SUFFICES ASSUME PassInv, Arm PROVE PassInv' /\ SettledStep
  OBVIOUS
<1>0. /\ w.at = "arm" /\ w' = [w EXCEPT !.at = "open", !.armed = TRUE, !.stop = halt]
      /\ UNCHANGED <<row, primary, age, sharp, summarized, rev, halt>>
  BY DEF Arm, jobRows
<1>1. halt \in BOOLEAN /\ w \in Workers
  BY DEF PassInv, RunInv
<1>2. w' \in Workers /\ w'.at = "open" /\ w'.saved = w.saved
  BY <1>0, <1>1 DEF Workers, RunPlaces
<1>3. RowInv' /\ RunInv'
  BY <1>0, <1>2, MovedRun DEF Opened, Through
<1> QED BY <1>0, <1>3, RunStep

LEMMA OpenKeeps == PassInv /\ Open => PassInv' /\ SettledStep
<1> SUFFICES ASSUME PassInv, Open PROVE PassInv' /\ SettledStep
  OBVIOUS
<1>0. w.at = "open" /\ UNCHANGED <<primary, age, sharp, summarized, rev, halt>>
  BY DEF Open
<1>1. CASE SamePlan
  <2>1. row' = row /\ w' = [w EXCEPT !.at = "window", !.saved = row.wins] /\ row.plan = rev
    BY <1>1 DEF Open, SamePlan
  <2>2. w' \in Workers /\ w'.at = "window" /\ w'.saved = row.wins
    BY <2>1, RowTypes DEF Workers, RunPlaces
  <2>3. RowInv'
    BY <1>0, <2>1, SameRow
  <2>4. row.wins \subseteq Windows \X {row.plan} /\ row.st # "none" /\ halt \in BOOLEAN
    BY <1>0 DEF PassInv, RowInv, RunInv
  <2>5. RunInv'
    BY <1>0, <2>1, <2>2, <2>4 DEF RunInv, Through
  <2> QED BY <1>0, <2>1, <2>3, <2>5, RunStep
<1>2. CASE ~SamePlan
  BY <1>0, <1>2, PlainEnd DEF Open
<1> QED BY <1>1, <1>2

LEMMA YieldsKeeps == PassInv /\ (Yields \/ YieldStops) => PassInv' /\ SettledStep
<1> SUFFICES ASSUME PassInv, Yields \/ YieldStops PROVE PassInv' /\ SettledStep
  OBVIOUS
<1>0. w.at \in {"window", "diarize"} /\ UNCHANGED <<primary, age, sharp, summarized, rev, halt>>
  BY DEF Yields, YieldStops
<1>1. CASE RunEnds("stopped")
  BY <1>0, <1>1, PlainEnd
<1>2. CASE /\ w.at = "window" /\ Windows \ Heard # {}
           /\ w' = [w EXCEPT !.at = "hear"] /\ row' = row
  BY <1>0, <1>2, PlainMove DEF RunPlaces, Opened, Through
<1> QED BY <1>1, <1>2 DEF Yields, YieldStops

LEMMA HearKeeps == PassInv /\ Hear => PassInv' /\ SettledStep
<1> SUFFICES ASSUME PassInv, Hear PROVE PassInv' /\ SettledStep
  OBVIOUS
<1>0. w.at = "hear" /\ UNCHANGED <<primary, age, sharp, summarized, rev, halt>>
  BY DEF Hear
<1>1. CASE RunEnds("error")
  BY <1>0, <1>1, PlainEnd
<1> DEFINE c == <<NextWin, rev>>
<1>2. CASE /\ Pending /\ row' = [row EXCEPT !.wins = @ \cup {c}]
           /\ w' = [w EXCEPT !.at = "window", !.saved = @ \cup {c}]
  <2>1. /\ NextWin \in Windows /\ rev = row.plan /\ w.saved \subseteq Windows \X {row.plan}
        /\ row.wins \subseteq Windows \X {row.plan} /\ row.st # "none" /\ halt \in BOOLEAN
    BY <1>0, FirstWindow DEF PassInv, RunInv, RowInv, Opened
  <2>2. c \in Windows \X {row.plan} /\ c \in Windows \X Nat
    BY <2>1, RowTypes
  <2> HIDE DEF c
  <2>3. /\ row' \in Rows /\ row'.st = row.st /\ row'.plan = row.plan
        /\ row'.wins = row.wins \cup {c} /\ row'.words = row.words
    BY <1>2, <2>2, RowTypes DEF Rows
  <2>4. w' \in Workers /\ w'.at = "window" /\ w'.saved = w.saved \cup {c}
    BY <1>2, <2>2, RowTypes DEF Workers, RunPlaces
  <2>5. RowInv'
    BY <1>0, <2>1, <2>2, <2>3 DEF PassInv, RowInv, VersionIsWhole
  <2>6. RunInv'
    BY <1>0, <2>1, <2>2, <2>3, <2>4 DEF RunInv, Through
  <2>7. ShownInv' /\ SettledStep
    BY <1>0, <2>3, SameShown, QuietStep
  <2> QED BY <2>5, <2>6, <2>7 DEF PassInv
<1> QED BY <1>1, <1>2 DEF Hear

LEMMA DiarizeKeeps == PassInv /\ (Diarize \/ Diarized) => PassInv' /\ SettledStep
<1> SUFFICES ASSUME PassInv, Diarize \/ Diarized PROVE PassInv' /\ SettledStep
  OBVIOUS
<1>0. w.at \in {"window", "diarize"} /\ UNCHANGED <<primary, age, sharp, summarized, rev, halt>>
  BY DEF Diarize, Diarized
<1>1. CASE RunEnds("stopped")
  BY <1>0, <1>1, PlainEnd
<1>2. CASE /\ w.at = "window" /\ Windows \ Heard = {}
           /\ w' = [w EXCEPT !.at = "unload"] /\ row' = row
  BY <1>0, <1>2, PlainMove DEF RunPlaces, Opened, Through
<1>3. CASE w.at = "diarize" /\ w' = [w EXCEPT !.at = "complete"] /\ row' = row
  <2>1. Windows \ Heard = {}
    BY <1>3 DEF PassInv, RunInv, Through
  <2> QED BY <1>0, <1>3, <2>1, PlainMove DEF RunPlaces, Opened, Through
<1> QED BY <1>1, <1>2, <1>3 DEF Diarize, Diarized

LEMMA MovesKeep ==
  PassInv /\ (NoRemote \/ Unload \/ Restore \/ GiveBack) => PassInv' /\ SettledStep
<1> SUFFICES ASSUME PassInv, NoRemote \/ Unload \/ Restore \/ GiveBack
             PROVE  PassInv' /\ SettledStep
  OBVIOUS
<1>0. UNCHANGED <<row, primary, age, sharp, summarized, rev, halt>>
  BY DEF NoRemote, Unload, Restore, GiveBack, jobRows
<1>1. CASE NoRemote
  BY <1>0, <1>1, PlainMove DEF NoRemote, RunPlaces, Opened, Through
<1>2. CASE Unload
  <2>1. Windows \ Heard = {}
    BY <1>2 DEF Unload, PassInv, RunInv, Through
  <2> QED BY <1>0, <1>2, <2>1, PlainMove DEF Unload, RunPlaces, Opened, Through
<1>3. CASE Restore
  <2>1. Windows \ Heard = {}
    BY <1>3 DEF Restore, PassInv, RunInv, Through
  <2> QED BY <1>0, <1>3, <2>1, PlainMove DEF Restore, RunPlaces, Opened, Through
<1>4. CASE GiveBack
  BY <1>0, <1>4, PlainMove DEF GiveBack, RunPlaces, Opened, Through
<1> QED BY <1>1, <1>2, <1>3, <1>4

(* The new version is made of every window, each heard by one engine.      *)
LEMMA CompleteKeeps == PassInv /\ Complete => PassInv' /\ SettledStep
<1> SUFFICES ASSUME PassInv, Complete PROVE PassInv' /\ SettledStep
  OBVIOUS
<1>0. w.at = "complete" /\ UNCHANGED <<age, sharp, summarized, rev, halt>>
  BY DEF Complete
<1>1. CASE ~Pending
  BY <1>0, <1>1, PlainEnd DEF Complete
<1>2. CASE Pending
  <2>1. /\ row' = [row EXCEPT !.st = "done", !.wins = {}, !.words = w.saved]
        /\ primary' = (IF primary = "live" /\ InTime THEN "cleaned" ELSE primary)
        /\ w' = [w EXCEPT !.at = "giveback", !.end = "done"]
    BY <1>2 DEF Complete, Completed
  <2>2. /\ w.saved \subseteq Windows \X {row.plan} /\ Windows \ Heard = {} /\ rev = row.plan
        /\ row.plan \in Revisions /\ row.st = "pending"
    BY <1>0, <1>2 DEF PassInv, RowInv, RunInv, Opened, Through, Pending
  <2>3. w.saved = Windows \X {row.plan}
    <3>1. ASSUME NEW x \in Windows PROVE <<x, row.plan>> \in w.saved
      <4>1. x \in Heard
        BY <2>2
      <4>2. PICK d \in w.saved : d[1] = x
        BY <4>1 DEF Heard
      <4>3. d = <<x, row.plan>>
        BY <2>2, <4>2
      <4> QED BY <4>2, <4>3
    <3> QED BY <2>2, <3>1
  <2>4. /\ row' \in Rows /\ row'.st = "done" /\ row'.plan = row.plan /\ row'.wins = {}
        /\ row'.words = w.saved
    <3>1. w.saved \in SUBSET (Windows \X Nat)
      BY RowTypes DEF Workers
    <3> QED BY <2>1, <3>1, RowTypes DEF Rows
  <2>5. w' \in Workers /\ w'.at = "giveback"
    BY <2>1, RowTypes DEF Workers, RunPlaces
  <2>6. RowInv'
    BY <1>0, <2>2, <2>3, <2>4 DEF PassInv, RowInv, VersionIsWhole, Revisions
  <2>7. RunInv'
    BY <1>0, <2>4, <2>5 DEF PassInv, RunInv, Opened, Through
  <2>8. ShownInv'
    BY <1>0, <2>4 DEF PassInv, ShownInv, Pending
  <2>9. SettledStep
    BY <1>2, <2>1, <2>2 DEF PassInv, ShownInv, SettledStep, LateStep, CancelStep
  <2> QED BY <2>6, <2>7, <2>8, <2>9 DEF PassInv
<1> QED BY <1>1, <1>2

LEMMA ReleaseKeeps == PassInv /\ Release => PassInv' /\ SettledStep
<1> SUFFICES ASSUME PassInv, Release PROVE PassInv' /\ SettledStep
  OBVIOUS
<1>0. w' = Asleep /\ UNCHANGED <<primary, age, sharp, summarized, rev, halt>>
  BY DEF Release
<1>1. row' = row \/ Failed
  BY DEF Release
<1>2. row' = row \/ row' = Fail(row)
  BY <1>1, FailedIs
<1>3. RowInv' /\ RunInv'
  BY <1>0, <1>2, SleepingRun DEF PassInv, RowInv, RunInv
<1> QED BY <1>0, <1>2, <1>3, RunStep

LEMMA PassStarts == PassInit => PassInv
<1> SUFFICES ASSUME PassInit PROVE PassInv
  OBVIOUS
<1>1. row = NoRow /\ w = Asleep /\ primary = "live" /\ age = 0 /\ rev = 1 /\ halt = FALSE
      /\ summarized = "none"
  BY DEF PassInit
<1>2. RowInv
  BY <1>1, RestIs, PassBounds DEF RowInv, VersionIsWhole, NoRow, Revisions
<1>3. RunInv
  BY <1>1, RestIs DEF RunInv, Opened, Through
<1>4. ShownInv
  BY <1>1 DEF ShownInv
<1> QED BY <1>2, <1>3, <1>4 DEF PassInv

LEMMA PassMoves == PassInv /\ [PassNext]_passVars => PassInv' /\ SettledStep
<1> SUFFICES ASSUME PassInv, [PassNext]_passVars PROVE PassInv' /\ SettledStep
  OBVIOUS
<1>1. CASE Queue \/ Retry \/ Cancel \/ Show \/ Enrich \/ Tick
  BY <1>1, QueueKeeps, RetryKeeps, CancelKeeps, ShowKeeps, EnrichKeeps, TickKeeps
<1>2. CASE Elapse \/ RecStarts \/ RecLoads \/ RecEnds \/ UNCHANGED passVars
  BY <1>2, BesideKeeps
<1>3. CASE Shutdown \/ Restart
  BY <1>3, ShutdownKeeps, RestartKeeps
<1>4. CASE Run
  BY <1>4, TakeKeeps, FactoryKeeps, ArmKeeps, OpenKeeps, YieldsKeeps, HearKeeps, DiarizeKeeps,
     MovesKeep, CompleteKeeps, ReleaseKeeps DEF Run
<1> QED BY <1>1, <1>2, <1>3, <1>4 DEF PassNext

(* The invariant of the cleanup of one meeting holds at every step, over   *)
(* any number of restarts, upgrades, failures, cancels and retries.        *)
THEOREM PassHolds == PassSpec => []PassInv
<1>1. PassInit => PassInv
  BY PassStarts
<1>2. PassInv /\ [PassNext]_passVars => PassInv'
  BY PassMoves
<1> QED BY <1>1, <1>2, PTL DEF PassSpec

(* post_pass_complete: a cleaned version holds every window once, in the   *)
(* words of one engine revision: what CleanedIsWhole says of the job, for  *)
(* any track and any number of interruptions.                              *)
THEOREM VersionsAreWhole == PassSpec => [](row.words # {} => VersionIsWhole)
<1>1. PassInv => (row.words # {} => VersionIsWhole)
  BY DEF PassInv, RowInv
<1> QED BY <1>1, PassHolds, PTL

(* A cancelled or failed job stays so until somebody retries it.           *)
THEOREM CancelsHold == PassSpec => CancelHolds
<1>1. PassInv /\ [PassNext]_passVars =>
        [(row.st = "failed" /\ row'.st # "failed") => row'.st = "pending" /\ w' = w]_passVars
  BY PassMoves DEF SettledStep, CancelStep
<1> QED BY <1>1, PassHolds, PTL DEF PassSpec, CancelHolds

(* What a summary or a person settled while a run was under way is not     *)
(* undone by it, whenever the job was queued (post_pass_complete against   *)
(* HOLDS_ENRICHMENT); of a job queued exactly on a second, the last        *)
(* instant of the wait is excepted.                                        *)
THEOREM SettledStaysKept == PassSpec => SettledIsKept
<1>1. PassInv /\ [PassNext]_passVars =>
        [(primary' = "cleaned" /\ row'.st # row.st) =>
           summarized = "none" \/ (sharp /\ age = Wait)]_passVars
  BY PassMoves DEF SettledStep, LateStep
<1>2. PassSpec => LateIsOffered
  BY <1>1, PassHolds, PTL DEF PassSpec, LateIsOffered
<1> QED BY <1>2, CancelsHold, PTL DEF SettledIsKept

-----------------------------------------------------------------------------
(* Enrichment: the inductive invariant.                                    *)

Receipts == [run : {"none", "running", "finished"}, minted : Minted]
Codes == {"none", "ok", "no_engine", "engine_unresolvable", "failed"}
Pass == [at : Places, receipt : Receipts, fallback : Stamp,
         speech : {"none", "short", "long"}, heard : Nat, replaceable : BOOLEAN,
         rev : Nat, stamp : Stamp, from : Nat, status : Codes]

(* What a pass p whose local state is r knows of a meeting whose inputs    *)
(* are at epoch e under the title t.  Every stamp is of the past; a call's *)
(* stamp is of what the call was given; the title was the machine's to     *)
(* replace at the epoch it was looked at.                                  *)
Sound(p, r, e, t) ==
  /\ r.stamp.epoch <= e /\ r.fallback.epoch <= e
  /\ r.at \in {"naming", "summing", "drafting"} => r.stamp = [rev |-> r.rev, epoch |-> r.from]
  /\ r.at = "naming" /\ p # "cli" /\ r.stamp.epoch = e => t # "user"
  /\ r.at = "stamping" => ~r.replaceable
  /\ r.replaceable => /\ r.fallback.epoch <= r.heard /\ r.heard <= e
                      /\ r.heard = e => t # "user"

PassesInv ==
  /\ pass \in [Passes -> Pass]
  /\ \A p \in Passes : Sound(p, pass[p], epoch, title)

EnrichInv == TypeOK /\ PassesInv

-----------------------------------------------------------------------------
(* Lemmas.                                                                 *)

\* The empty local state is sound whatever the meeting is.
LEMMA NoPassFacts ==
  /\ NoPass \in Pass /\ NoPass.at = "idle" /\ NoPass.stamp = NoStamp /\ NoPass.fallback = NoStamp
  /\ ~NoPass.replaceable /\ NoStamp.epoch = 0 /\ NoStamp \in Stamp
BY DEF NoPass, Pass, Places, NoReceipt, Receipts, Minted, NoStamp, Stamp, Codes

\* The meeting stays as it is, or its inputs move to a later epoch.
Onward(e, t, e2, t2) == (e2 = e /\ t2 = t) \/ e2 > e

\* What a pass knows stays true when the meeting moves on without it.
LEMMA SoundOnward ==
  ASSUME NEW p, NEW r \in Pass, NEW e \in Nat, NEW e2 \in Nat, NEW t, NEW t2,
         Sound(p, r, e, t), Onward(e, t, e2, t2)
  PROVE  Sound(p, r, e2, t2)
<1>1. r.stamp.epoch \in Nat /\ r.fallback.epoch \in Nat /\ r.heard \in Nat
  BY DEF Pass, Stamp
<1>2. QED
  BY <1>1 DEF Sound, Onward

\* A step of one pass leaves the others sound.
LEMMA OthersSound ==
  ASSUME EnrichInv, NEW p \in Passes, epoch' \in Nat, Onward(epoch, title, epoch', title'),
         pass' \in [Passes -> Pass], \A q \in Passes \ {p} : pass'[q] = pass[q],
         Sound(p, pass'[p], epoch', title')
  PROVE  PassesInv'
<1>1. ASSUME NEW q \in Passes PROVE Sound(q, pass'[q], epoch', title')
  <2>1. CASE q = p
    BY <2>1
  <2>2. CASE q # p
    <3>1. pass'[q] = pass[q] /\ pass[q] \in Pass /\ Sound(q, pass[q], epoch, title)
      BY <2>2 DEF EnrichInv, PassesInv
    <3>2. epoch \in Nat
      BY DEF EnrichInv, TypeOK
    <3>3. QED
      BY <3>1, <3>2, SoundOnward
  <2>3. QED
    BY <2>1, <2>2
<1>2. QED
  BY <1>1 DEF PassesInv

\* A step of nobody's pass leaves them all sound.
LEMMA AllSound ==
  ASSUME EnrichInv, epoch' \in Nat, Onward(epoch, title, epoch', title'), UNCHANGED pass
  PROVE  PassesInv'
<1>1. ASSUME NEW q \in Passes PROVE Sound(q, pass'[q], epoch', title')
  <2>1. pass'[q] = pass[q] /\ pass[q] \in Pass /\ Sound(q, pass[q], epoch, title)
    BY DEF EnrichInv, PassesInv
  <2>2. epoch \in Nat
    BY DEF EnrichInv, TypeOK
  <2>3. QED
    BY <2>1, <2>2, SoundOnward
<1>2. QED
  BY <1>1 DEF EnrichInv, PassesInv

\* A pass that goes on without a call under way: a place that is not one of a call's.
Between == Places \ {"stamping", "naming", "summing", "drafting"}

\* It stays sound if all it knows of the meeting is what it knew before, or nothing.
LEMMA SoundBetween ==
  ASSUME NEW p, NEW r \in Pass, NEW s \in Pass, NEW e \in Nat, NEW t, Sound(p, r, e, t),
         s.at \in Between, s.stamp = NoStamp \/ s.stamp = r.stamp,
         s.fallback = NoStamp \/ s.fallback = r.fallback,
         s.replaceable => r.replaceable /\ s.heard = r.heard /\ s.fallback = r.fallback
  PROVE  Sound(p, s, e, t)
<1>1. NoStamp.epoch = 0 /\ s.at \notin {"stamping", "naming", "summing", "drafting"}
  BY NoPassFacts DEF Between
<1>2. s.stamp.epoch <= e /\ s.fallback.epoch <= e
  BY <1>1 DEF Sound
<1>3. QED
  BY <1>1, <1>2 DEF Sound

\* The initial state: no pass under way.
LEMMA InitInv == Init => EnrichInv
<1> SUFFICES ASSUME Init PROVE EnrichInv
  OBVIOUS
<1>1. pass \in [Passes -> Pass] /\ \A p \in Passes : pass[p] = NoPass
  BY NoPassFacts DEF Init
<1>2. TypeOK
  <2>1. policy \in [rev : Nat, engine : Engines]
    BY DEF Init, Engines
  <2>2. summary \in [from : Nat, rev : Nat] /\ draft \in [rev : Nat, base : Nat, by : {"nobody", "engine", "person"}]
    BY DEF Init, NoSummary
  <2>3. /\ receipt \in [run : {"none", "running", "finished"}, minted : Minted]
        /\ sweep \in [at : {"due", "read", "done"}, seen : [run : {"none", "running", "finished"}, minted : Minted]]
    BY DEF Init, NoReceipt, Minted
  <2>4. window \in [at : {"idle", "generating"}, loaded : Nat, stamp : Stamp]
    BY NoPassFacts DEF Init
  <2>5. \A p \in Passes : pass[p].at \in Places
    BY <1>1 DEF Pass
  <2>6. QED
    BY <2>1, <2>2, <2>3, <2>4, <2>5, EnrichmentBounds DEF Init, TypeOK, Titles
<1>3. PassesInv
  BY <1>1, NoPassFacts DEF PassesInv, Sound, Init
<1>4. QED
  BY <1>2, <1>3 DEF EnrichInv

-----------------------------------------------------------------------------
(* The steps of a pass.                                                    *)

\* A step of a pass that leaves the inputs alone and goes on between calls.
LEMMA BetweenStep ==
  ASSUME EnrichInv, NEW p \in Passes, UNCHANGED <<epoch, title>>,
         pass' \in [Passes -> Pass], \A q \in Passes \ {p} : pass'[q] = pass[q],
         pass'[p].at \in Between,
         pass'[p].stamp = NoStamp \/ pass'[p].stamp = pass[p].stamp,
         pass'[p].fallback = NoStamp \/ pass'[p].fallback = pass[p].fallback,
         pass'[p].replaceable => /\ pass[p].replaceable /\ pass'[p].heard = pass[p].heard
                                 /\ pass'[p].fallback = pass[p].fallback
  PROVE  PassesInv'
<1>1. epoch \in Nat /\ pass[p] \in Pass /\ pass'[p] \in Pass /\ Sound(p, pass[p], epoch, title)
  BY DEF EnrichInv, PassesInv, TypeOK
<1>2. Sound(p, pass'[p], epoch, title)
  BY <1>1, SoundBetween
<1>3. QED
  BY <1>1, <1>2, OthersSound DEF Onward

\* A pass that ends or moves between calls by Goto is sound there.
LEMMA GotoInv ==
  ASSUME EnrichInv, NEW p \in Passes, NEW at \in Between, Goto(p, at), UNCHANGED <<epoch, title>>
  PROVE  PassesInv'
<1> DEFINE new == IF at = "idle" THEN NoPass
                  ELSE [pass[p] EXCEPT !.at = at, !.stamp = NoStamp, !.from = 0]
<1>1. pass[p] \in Pass /\ pass' = [pass EXCEPT ![p] = new]
  BY DEF Goto, EnrichInv, PassesInv
<1>2. /\ new \in Pass /\ new.at = at /\ new.stamp = NoStamp
      /\ new.fallback = NoStamp \/ new.fallback = pass[p].fallback
      /\ new.replaceable => /\ pass[p].replaceable /\ new.heard = pass[p].heard
                            /\ new.fallback = pass[p].fallback
  <2>1. CASE at = "idle"
    BY <2>1, NoPassFacts
  <2>2. CASE at # "idle"
    BY <1>1, <2>2, NoPassFacts DEF Pass, Between
  <2>3. QED
    BY <2>1, <2>2
<1> HIDE DEF new
<1>3. pass' \in [Passes -> Pass] /\ pass'[p] = new /\ \A q \in Passes \ {p} : pass'[q] = pass[q]
  BY <1>1, <1>2 DEF EnrichInv, PassesInv
<1>4. QED
  BY <1>2, <1>3, BetweenStep

\* A call starts with a stamp of the inputs it is given, under the revision in force.
LEMMA AskInv ==
  ASSUME EnrichInv, NEW p \in Passes, NEW waiting \in {"naming", "summing", "drafting"},
         Ask(p, waiting), UNCHANGED <<epoch, title>>,
         waiting = "naming" /\ p # "cli" => title # "user"
  PROVE  PassesInv'
<1> DEFINE new == [pass[p] EXCEPT !.at = waiting, !.stamp = WithMeetingInputs(pass[p].rev),
                                  !.from = epoch]
<1>1. /\ pass[p] \in Pass /\ epoch \in Nat /\ Sound(p, pass[p], epoch, title)
      /\ pass' = [pass EXCEPT ![p] = new]
  BY DEF Ask, EnrichInv, PassesInv, TypeOK
<1>2. /\ new \in Pass /\ new.at = waiting /\ new.stamp = [rev |-> new.rev, epoch |-> new.from]
      /\ new.stamp.epoch = epoch /\ new.fallback = pass[p].fallback /\ new.heard = pass[p].heard
      /\ new.replaceable = pass[p].replaceable
  BY <1>1 DEF Pass, Stamp, WithMeetingInputs, Places
<1> HIDE DEF new
<1>3. pass' \in [Passes -> Pass] /\ pass'[p] = new /\ \A q \in Passes \ {p} : pass'[q] = pass[q]
  BY <1>1, <1>2 DEF EnrichInv, PassesInv
<1>4. Sound(p, new, epoch, title)
  BY <1>1, <1>2 DEF Sound
<1>5. QED
  BY <1>1, <1>3, <1>4, OthersSound DEF Onward

\* With the passes' places right, a step that leaves the rest alone keeps every type.
LEMMA LibraryStays ==
  ASSUME EnrichInv, UNCHANGED <<library, receipt, sweep, due, window, edits, crashes>>, PassesInv'
  PROVE  TypeOK'
<1>1. \A q \in Passes : pass'[q].at \in Places
  BY DEF PassesInv, Pass
<1>2. QED
  BY <1>1 DEF EnrichInv, TypeOK, library

\* A pass's row says the machine minted a title only of a title the machine mints.
LEMMA MintedFacts ==
  ASSUME NEW r \in Pass
  PROVE  Replaceable(title, r.receipt) => title # "user"
BY DEF Pass, Receipts, Minted, Replaceable

\* A pass begins with the row of its meeting as it stands.
LEMMA BeginInv ==
  ASSUME EnrichInv, NEW p \in Passes, Begin(p), UNCHANGED <<epoch, title>>
  PROVE  PassesInv'
<1> DEFINE new == [NoPass EXCEPT !.at = "stamping",
                                 !.receipt = [run |-> "running", minted |-> receipt.minted]]
<1>0. [run |-> "running", minted |-> receipt.minted] \in Receipts /\ epoch \in Nat
  BY DEF EnrichInv, TypeOK, Receipts
<1>1. /\ new \in Pass /\ new.at = "stamping" /\ new.stamp = NoStamp /\ new.fallback = NoStamp
      /\ ~new.replaceable /\ epoch \in Nat
  BY <1>0, NoPassFacts, ZenonT(40) DEF NoPass, Pass, Places
<1>2. pass' = [pass EXCEPT ![p] = new]
  BY DEF Begin
<1> HIDE DEF new
<1>3. Sound(p, new, epoch, title)
  BY <1>1, NoPassFacts DEF Sound
<1>4. QED
  BY <1>1, <1>2, <1>3, OthersSound DEF EnrichInv, PassesInv, Onward

\* The start is stamped, and the fallback's observation taken.
LEMMA StampStartedInv ==
  ASSUME EnrichInv, NEW p \in Passes, StampStarted(p)
  PROVE  EnrichInv'
<1> DEFINE new == [pass[p] EXCEPT !.at = "read", !.fallback = Now]
<1>1. /\ pass[p] \in Pass /\ epoch \in Nat /\ policy.rev \in Nat /\ Sound(p, pass[p], epoch, title)
      /\ pass' = [pass EXCEPT ![p] = new]
  BY DEF StampStarted, EnrichInv, PassesInv, TypeOK
<1>2. /\ new \in Pass /\ new.at = "read" /\ new.fallback.epoch = epoch /\ new.stamp = pass[p].stamp
      /\ ~new.replaceable
  BY <1>1, NoPassFacts DEF Pass, Places, Now, Stamp, Sound, StampStarted
<1> HIDE DEF new
<1>3. pass' \in [Passes -> Pass] /\ pass'[p] = new /\ \A q \in Passes \ {p} : pass'[q] = pass[q]
  BY <1>1, <1>2 DEF EnrichInv, PassesInv
<1>4. PassesInv'
  <2>1. Sound(p, new, epoch', title')
    BY <1>1, <1>2 DEF Sound, StampStarted, library
  <2>2. QED
    BY <1>1, <1>3, <2>1, OthersSound DEF Onward, StampStarted, library
<1>5. TypeOK'
  <2>1. \A q \in Passes : pass'[q].at \in Places
    BY <1>4 DEF PassesInv, Pass
  <2>2. UNCHANGED <<library, sweep, due, window, edits, crashes>>
    BY DEF StampStarted, Receipts
  <2>3. receipt' \in Receipts
    BY <1>1 DEF StampStarted, Pass
  <2>4. QED
    BY <2>1, <2>2, <2>3 DEF EnrichInv, TypeOK, library, Receipts
<1>6. QED
  BY <1>4, <1>5 DEF EnrichInv

\* The segments and the title are read: replaceable is of this very epoch.
LEMMA ReadMeetingInv ==
  ASSUME EnrichInv, NEW p \in Passes, ReadMeeting(p)
  PROVE  EnrichInv'
<1> DEFINE new == [pass[p] EXCEPT !.at = IF speech = "none" THEN "mint" ELSE "resolve",
                                  !.speech = speech, !.heard = epoch,
                                  !.replaceable = Replaceable(title, pass[p].receipt)]
<1>1. /\ pass[p] \in Pass /\ epoch \in Nat /\ policy.rev \in Nat /\ Sound(p, pass[p], epoch, title)
      /\ pass' = [pass EXCEPT ![p] = new]
  BY DEF ReadMeeting, EnrichInv, PassesInv, TypeOK
<1>2. /\ new \in Pass /\ new.at \in {"mint", "resolve"} /\ new.fallback = pass[p].fallback
      /\ new.stamp = pass[p].stamp /\ new.heard = epoch
      /\ new.replaceable = Replaceable(title, pass[p].receipt)
  BY <1>1, NoPassFacts DEF Pass, Places, EnrichInv, TypeOK, Replaceable
<1> HIDE DEF new
<1>3. pass' \in [Passes -> Pass] /\ pass'[p] = new /\ \A q \in Passes \ {p} : pass'[q] = pass[q]
  BY <1>1, <1>2 DEF EnrichInv, PassesInv
<1>4. PassesInv'
  <2>1. Sound(p, new, epoch', title')
    BY <1>1, <1>2, MintedFacts DEF Sound, ReadMeeting, library
  <2>2. QED
    BY <1>1, <1>3, <2>1, OthersSound DEF Onward, ReadMeeting, library
<1>5. TypeOK'
  <2>1. \A q \in Passes : pass'[q].at \in Places
    BY <1>4 DEF PassesInv, Pass
  <2>2. UNCHANGED <<library, receipt, sweep, due, window, edits, crashes>>
    BY DEF ReadMeeting
  <2>3. QED
    BY <2>1, <2>2 DEF EnrichInv, TypeOK, library
<1>6. QED
  BY <1>4, <1>5 DEF EnrichInv

\* The engine is resolved under the revision in force.
LEMMA ResolveInv ==
  ASSUME EnrichInv, NEW p \in Passes, Resolve(p)
  PROVE  EnrichInv'
<1> DEFINE at == CASE ResolveEngine # "on" -> "report"
                   [] pass[p].replaceable -> "title"
                   [] OTHER -> "summary"
           code == CASE ResolveEngine = "off" -> "no_engine"
                     [] ResolveEngine = "gone" -> "engine_unresolvable"
                     [] OTHER -> "none"
           new == [pass[p] EXCEPT !.rev = policy.rev, !.at = at, !.status = code]
<1>a. at \in {"report", "title", "summary"} /\ code \in Codes
  BY DEF Codes
<1>b. pass' = [pass EXCEPT ![p].rev = policy.rev, ![p].at = at, ![p].status = code]
  BY Zenon DEF Resolve
<1> HIDE DEF at, code
<1>1. /\ pass[p] \in Pass /\ epoch \in Nat /\ policy.rev \in Nat /\ Sound(p, pass[p], epoch, title)
      /\ pass' = [pass EXCEPT ![p] = new]
  BY <1>b DEF EnrichInv, PassesInv, TypeOK
<1>2. /\ new \in Pass /\ new.at \in {"report", "title", "summary"} /\ new.fallback = pass[p].fallback
      /\ new.stamp = pass[p].stamp /\ new.heard = pass[p].heard
      /\ new.replaceable = pass[p].replaceable
  BY <1>1, <1>a DEF Pass, Places
<1> HIDE DEF new
<1>3. pass' \in [Passes -> Pass] /\ pass'[p] = new /\ \A q \in Passes \ {p} : pass'[q] = pass[q]
  BY <1>1, <1>2 DEF EnrichInv, PassesInv
<1>4. PassesInv'
  BY <1>2, <1>3, BetweenStep DEF Resolve, Between, Places, library
<1>5. TypeOK'
  <2>1. \A q \in Passes : pass'[q].at \in Places
    BY <1>4 DEF PassesInv, Pass
  <2>2. UNCHANGED <<library, receipt, sweep, due, window, edits, crashes>>
    BY DEF Resolve
  <2>3. QED
    BY <2>1, <2>2 DEF EnrichInv, TypeOK, library
<1>6. QED
  BY <1>4, <1>5 DEF EnrichInv

\* The title call: only a title that is the machine's to replace, but for a retitle.
LEMMA AskTitleInv ==
  ASSUME EnrichInv, NEW p \in Passes, AskTitle(p)
  PROVE  EnrichInv'
<1>1. UNCHANGED <<library, receipt, sweep, due, window, edits, crashes>>
  BY DEF AskTitle
<1>2. pass[p] \in Pass /\ AfterTitle(p) \in Between
  BY DEF EnrichInv, PassesInv, AfterTitle, Between, Places
<1>3. PassesInv'
  <2>1. CASE Recheck(p) /\ Ask(p, "naming")
    BY <1>1, <1>2, <2>1, AskInv, MintedFacts DEF Recheck, library
  <2>2. CASE Goto(p, AfterTitle(p))
    BY <1>1, <1>2, <2>2, GotoInv DEF library
  <2>3. QED
    BY <2>1, <2>2 DEF AskTitle, Refused
<1>4. QED
  BY <1>1, <1>3, LibraryStays DEF EnrichInv

\* A summary's outcome is kept for the report.
LEMMA OutcomeInv ==
  ASSUME EnrichInv, NEW p \in Passes, NEW code \in Codes, Outcome(p, code),
         UNCHANGED <<epoch, title>>
  PROVE  PassesInv'
<1> DEFINE new == [pass[p] EXCEPT !.at = "draft", !.status = code, !.stamp = NoStamp, !.from = 0]
<1>1. pass[p] \in Pass /\ pass' = [pass EXCEPT ![p] = new]
  BY DEF Outcome, EnrichInv, PassesInv
<1>2. /\ new \in Pass /\ new.at = "draft" /\ new.stamp = NoStamp
      /\ new.fallback = pass[p].fallback /\ new.heard = pass[p].heard
      /\ new.replaceable = pass[p].replaceable
  BY <1>1, NoPassFacts DEF Pass, Places
<1> HIDE DEF new
<1>3. pass' \in [Passes -> Pass] /\ pass'[p] = new /\ \A q \in Passes \ {p} : pass'[q] = pass[q]
  BY <1>1, <1>2 DEF EnrichInv, PassesInv
<1>4. QED
  BY <1>2, <1>3, BetweenStep DEF Between, Places

\* The summary call, or its refusal.
LEMMA AskSummaryInv ==
  ASSUME EnrichInv, NEW p \in Passes, AskSummary(p)
  PROVE  EnrichInv'
<1>1. UNCHANGED <<library, receipt, sweep, due, window, edits, crashes>>
  BY DEF AskSummary
<1>2. PassesInv'
  <2>1. CASE Ask(p, "summing")
    BY <1>1, <2>1, AskInv DEF library
  <2>2. CASE Outcome(p, "failed")
    BY <1>1, <2>2, OutcomeInv DEF library, Codes
  <2>3. QED
    BY <2>1, <2>2 DEF AskSummary
<1>3. QED
  BY <1>1, <1>2, LibraryStays DEF EnrichInv

\* The draft's call, or none.
LEMMA AskDraftInv ==
  ASSUME EnrichInv, NEW p \in Passes, AskDraft(p)
  PROVE  EnrichInv'
<1>1. UNCHANGED <<library, receipt, sweep, due, window, edits, crashes>>
  BY DEF AskDraft
<1>2. PassesInv'
  <2>1. CASE Ask(p, "drafting")
    BY <1>1, <2>1, AskInv DEF library
  <2>2. CASE Goto(p, "report")
    BY <1>1, <2>2, GotoInv DEF library, Between, Places
  <2>3. QED
    BY <2>1, <2>2 DEF AskDraft, Refused
<1>3. QED
  BY <1>1, <1>2, LibraryStays DEF EnrichInv

\* The engine's name is written: the inputs move on.
LEMMA NamedInv ==
  ASSUME EnrichInv, NEW p \in Passes, Named(p)
  PROVE  EnrichInv'
<1> DEFINE at == IF p = "cli" THEN "finish" ELSE "summary"
           claim == [pass[p].receipt EXCEPT !.minted = "named"]
           new == [NoPass EXCEPT !.at = at, !.rev = pass[p].rev, !.receipt = claim]
<1>1. /\ pass[p] \in Pass /\ epoch \in Nat /\ policy.rev \in Nat /\ Sound(p, pass[p], epoch, title)
      /\ pass' = [pass EXCEPT ![p] = new]
  BY DEF Named, EnrichInv, PassesInv, TypeOK
<1>a. claim \in Receipts /\ at \in {"finish", "summary"} /\ pass[p].rev \in Nat
  BY <1>1 DEF Pass, Receipts, Minted
<1> HIDE DEF claim, at
<1>2. /\ new \in Pass /\ new.at \in {"finish", "summary"} /\ new.fallback = NoStamp
      /\ new.stamp = NoStamp /\ ~new.replaceable
  BY <1>1, NoPassFacts, <1>a, ZenonT(40) DEF Pass, Places, NoPass
<1> HIDE DEF new
<1>3. pass' \in [Passes -> Pass] /\ pass'[p] = new /\ \A q \in Passes \ {p} : pass'[q] = pass[q]
  BY <1>1, <1>2 DEF EnrichInv, PassesInv
<1>4. PassesInv'
  <2>1. epoch' = epoch + 1
    BY DEF Named, SetTitle
  <2>2. Sound(p, new, epoch', title')
    BY <1>1, <1>2, <2>1, NoPassFacts DEF Sound
  <2>3. QED
    BY <1>1, <1>3, <2>1, <2>2, OthersSound DEF Onward
<1>5. TypeOK'
  <2>1. \A q \in Passes : pass'[q].at \in Places
    BY <1>4 DEF PassesInv, Pass
  <2>2. UNCHANGED <<policy, speech, summary, status, draft, auto, receipt, sweep, due, window, edits, crashes>>
    BY DEF Named, SetTitle, Titles
  <2>3. title' \in Titles /\ epoch' \in Nat
    BY <1>1 DEF Named, SetTitle, Titles
  <2>4. QED
    BY <2>1, <2>2, <2>3 DEF EnrichInv, TypeOK, library
<1>6. QED
  BY <1>4, <1>5 DEF EnrichInv

\* The engine gave no name.
LEMMA NotNamedInv ==
  ASSUME EnrichInv, NEW p \in Passes, NotNamed(p)
  PROVE  EnrichInv'
<1>1. PassesInv'
  BY GotoInv DEF NotNamed, AfterTitle, Between, Places, library
<1>2. TypeOK'
  <2>1. \A q \in Passes : pass'[q].at \in Places
    BY <1>1 DEF PassesInv, Pass
  <2>2. UNCHANGED <<library, receipt, sweep, due, window, edits, crashes>>
    BY DEF NotNamed
  <2>3. QED
    BY <2>1, <2>2 DEF EnrichInv, TypeOK, library
<1>3. QED
  BY <1>1, <1>2 DEF EnrichInv

\* The summary is written.
LEMMA SummarisedInv ==
  ASSUME EnrichInv, NEW p \in Passes, Summarised(p)
  PROVE  EnrichInv'
<1>1. PassesInv'
  BY OutcomeInv DEF Summarised, Codes
<1>2. TypeOK'
  <2>1. \A q \in Passes : pass'[q].at \in Places
    BY <1>1 DEF PassesInv, Pass
  <2>2. UNCHANGED <<policy, epoch, speech, title, status, draft, auto, receipt, sweep, due, window, edits, crashes>>
    BY DEF Summarised
  <2>3. summary' \in [from : Nat, rev : Nat]
    BY DEF Summarised, EnrichInv, PassesInv, Pass
  <2>4. QED
    BY <2>1, <2>2, <2>3 DEF EnrichInv, TypeOK, library
<1>3. QED
  BY <1>1, <1>2 DEF EnrichInv

\* No summary came of the call.
LEMMA NotSummarisedInv ==
  ASSUME EnrichInv, NEW p \in Passes, NotSummarised(p)
  PROVE  EnrichInv'
<1>1. PassesInv'
  BY OutcomeInv DEF NotSummarised, Codes, library
<1>2. TypeOK'
  <2>1. \A q \in Passes : pass'[q].at \in Places
    BY <1>1 DEF PassesInv, Pass
  <2>2. UNCHANGED <<library, receipt, sweep, due, window, edits, crashes>>
    BY DEF NotSummarised
  <2>3. QED
    BY <2>1, <2>2 DEF EnrichInv, TypeOK, library
<1>3. QED
  BY <1>1, <1>2 DEF EnrichInv

\* The automatic draft is written.
LEMMA DraftedInv ==
  ASSUME EnrichInv, NEW p \in Passes, Drafted(p)
  PROVE  EnrichInv'
<1>1. PassesInv'
  BY GotoInv DEF Drafted, Between, Places
<1>2. TypeOK'
  <2>1. \A q \in Passes : pass'[q].at \in Places
    BY <1>1 DEF PassesInv, Pass
  <2>2. UNCHANGED <<policy, epoch, speech, title, summary, status, auto, receipt, sweep, due, window, edits, crashes>>
    BY DEF Drafted
  <2>3. draft' \in [rev : Nat, base : Nat, by : {"nobody", "engine", "person"}]
    BY DEF Drafted, SaveDocument, EnrichInv, TypeOK
  <2>4. QED
    BY <2>1, <2>2, <2>3 DEF EnrichInv, TypeOK, library
<1>3. QED
  BY <1>1, <1>2 DEF EnrichInv

\* No draft came of the call.
LEMMA NotDraftedInv ==
  ASSUME EnrichInv, NEW p \in Passes, NotDrafted(p)
  PROVE  EnrichInv'
<1>1. PassesInv'
  BY GotoInv DEF NotDrafted, Between, Places, library
<1>2. TypeOK'
  <2>1. \A q \in Passes : pass'[q].at \in Places
    BY <1>1 DEF PassesInv, Pass
  <2>2. UNCHANGED <<library, receipt, sweep, due, window, edits, crashes>>
    BY DEF NotDrafted
  <2>3. QED
    BY <2>1, <2>2 DEF EnrichInv, TypeOK, library
<1>3. QED
  BY <1>1, <1>2 DEF EnrichInv

\* The outcome is reported.
LEMMA ReportInv ==
  ASSUME EnrichInv, NEW p \in Passes, Report(p)
  PROVE  EnrichInv'
<1> DEFINE new == [pass[p] EXCEPT !.at = "mint", !.status = "none", !.rev = 0]
<1>1. /\ pass[p] \in Pass /\ epoch \in Nat /\ policy.rev \in Nat /\ Sound(p, pass[p], epoch, title)
      /\ pass' = [pass EXCEPT ![p] = new]
  BY DEF Report, EnrichInv, PassesInv, TypeOK
<1>2. /\ new \in Pass /\ new.at = "mint" /\ new.fallback = pass[p].fallback
      /\ new.stamp = pass[p].stamp /\ new.heard = pass[p].heard
      /\ new.replaceable = pass[p].replaceable
  BY <1>1, NoPassFacts DEF Pass, Places, Codes
<1> HIDE DEF new
<1>3. pass' \in [Passes -> Pass] /\ pass'[p] = new /\ \A q \in Passes \ {p} : pass'[q] = pass[q]
  BY <1>1, <1>2 DEF EnrichInv, PassesInv
<1>4. PassesInv'
  BY <1>2, <1>3, BetweenStep DEF Report, Between, Places, library
<1>5. TypeOK'
  <2>1. \A q \in Passes : pass'[q].at \in Places
    BY <1>4 DEF PassesInv, Pass
  <2>2. UNCHANGED <<policy, epoch, speech, title, summary, draft, auto, receipt, sweep, due, window, edits, crashes>>
    BY DEF Report, Codes
  <2>3. status' \in Codes
    BY <1>1 DEF Report, Pass
  <2>4. QED
    BY <2>1, <2>2, <2>3 DEF EnrichInv, TypeOK, library, Codes
<1>6. QED
  BY <1>4, <1>5 DEF EnrichInv

\* The local fallback's title is written, or none is.
LEMMA MintInv ==
  ASSUME EnrichInv, NEW p \in Passes, Mint(p)
  PROVE  EnrichInv'
<1>1. pass[p] \in Pass /\ epoch \in Nat
  BY DEF EnrichInv, PassesInv, TypeOK
<1>2. PICK rc \in Receipts : Ends(p, rc)
  BY <1>1 DEF Mint, Pass, Receipts, Minted
<1> DEFINE new == [NoPass EXCEPT !.at = "finish", !.receipt = rc]
<1>3. /\ new \in Pass /\ new.at = "finish" /\ new.fallback = NoStamp /\ new.stamp = NoStamp
      /\ ~new.replaceable
  BY NoPassFacts, ZenonT(40) DEF Pass, Places, NoPass
<1>4. pass' = [pass EXCEPT ![p] = new]
  BY <1>2 DEF Ends
<1> HIDE DEF new
<1>5. epoch' \in Nat /\ Onward(epoch, title, epoch', title')
  BY <1>1 DEF Mint, SetTitle, Onward
<1>6. Sound(p, new, epoch', title')
  BY <1>3, <1>5, NoPassFacts DEF Sound
<1>7. PassesInv'
  BY <1>3, <1>4, <1>5, <1>6, OthersSound DEF EnrichInv, PassesInv
<1>8. TypeOK'
  BY <1>5, <1>7 DEF Mint, SetTitle, EnrichInv, PassesInv, Pass, TypeOK, Titles
<1>9. QED
  BY <1>7, <1>8 DEF EnrichInv

\* The row goes back, and the pass is over.
LEMMA FinishInv ==
  ASSUME EnrichInv, NEW p \in Passes, Finish(p)
  PROVE  EnrichInv'
<1> DEFINE new == NoPass
<1>1. /\ pass[p] \in Pass /\ epoch \in Nat /\ policy.rev \in Nat /\ Sound(p, pass[p], epoch, title)
      /\ pass' = [pass EXCEPT ![p] = new]
  BY DEF Finish, EnrichInv, PassesInv, TypeOK
<1>2. /\ new \in Pass /\ new.at = "idle" /\ new.stamp = NoStamp /\ new.fallback = NoStamp
      /\ ~new.replaceable
  BY <1>1, NoPassFacts DEF Pass
<1> HIDE DEF new
<1>3. pass' \in [Passes -> Pass] /\ pass'[p] = new /\ \A q \in Passes \ {p} : pass'[q] = pass[q]
  BY <1>1, <1>2 DEF EnrichInv, PassesInv
<1>4. PassesInv'
  BY <1>2, <1>3, BetweenStep DEF Finish, Between, Places, library
<1>5. TypeOK'
  <2>1. \A q \in Passes : pass'[q].at \in Places
    BY <1>4 DEF PassesInv, Pass
  <2>2. UNCHANGED <<library, sweep, due, window, edits, crashes>>
    BY DEF Finish, Receipts
  <2>3. receipt' \in Receipts
    BY <1>1 DEF Finish, Pass, Receipts
  <2>4. QED
    BY <2>1, <2>2, <2>3 DEF EnrichInv, TypeOK, library, Receipts
<1>6. QED
  BY <1>4, <1>5 DEF EnrichInv

\* The session's own pass, one lost, and the backfill's.
LEMMA StartsInv ==
  ASSUME EnrichInv, SessionEnd \/ SessionEndLost \/ Backfill
  PROVE  EnrichInv'
<1>1. UNCHANGED <<library, receipt, sweep, window, edits, crashes>> /\ due' \in BOOLEAN
  BY DEF SessionEnd, SessionEndLost, Backfill, EnrichInv, TypeOK
<1>2. PassesInv'
  <2>1. CASE Begin("end") \/ Begin("fill")
    BY <1>1, <2>1, BeginInv DEF library, Passes
  <2>2. CASE UNCHANGED pass
    BY <1>1, <2>2 DEF EnrichInv, PassesInv, library
  <2>3. QED
    BY <2>1, <2>2 DEF SessionEnd, SessionEndLost, Backfill
<1>3. \A q \in Passes : pass'[q].at \in Places
  BY <1>2 DEF PassesInv, Pass
<1>4. QED
  BY <1>1, <1>2, <1>3 DEF EnrichInv, TypeOK, library

-----------------------------------------------------------------------------
(* The sweep, the CLI, people, and restarts.                               *)

\* The sweep writes back rows it read, or rows that claim the first utterance.
LEMMA SweepInv ==
  ASSUME EnrichInv, SweepRead \/ SweepWrite
  PROVE  EnrichInv'
<1>1. UNCHANGED <<library, pass, due, window, edits, crashes>>
  BY DEF SweepRead, SweepWrite
<1>2. PassesInv'
  BY <1>1 DEF EnrichInv, PassesInv, library
<1>3. receipt \in Receipts /\ sweep.seen \in Receipts
  BY DEF EnrichInv, TypeOK, Receipts
<1>4. Adopted(sweep.seen) \in Receipts
  BY <1>3 DEF Adopted, Receipts, Minted
<1>5. receipt' \in Receipts
  BY <1>3, <1>4 DEF SweepRead, SweepWrite
<1>6. sweep' \in [at : {"due", "read", "done"}, seen : Receipts]
  <2>1. NoReceipt \in Receipts
    BY DEF NoReceipt, Receipts, Minted
  <2>2. QED
    BY <1>3, <2>1 DEF SweepRead, SweepWrite
<1>7. QED
  BY <1>1, <1>2, <1>5, <1>6 DEF EnrichInv, TypeOK, library, Receipts

\* The CLI takes the meeting for one title call.
LEMMA RetitleInv ==
  ASSUME EnrichInv, Retitle
  PROVE  EnrichInv'
<1> DEFINE claim == [receipt EXCEPT !.minted = title]
           new == [NoPass EXCEPT !.at = "title", !.rev = policy.rev, !.speech = speech,
                                 !.receipt = claim]
<1>0. edits' \in 0..MaxEdits
  <2>1. edits \in 0..MaxEdits /\ edits < MaxEdits /\ edits' = edits + 1
    BY DEF Retitle, EnrichInv, TypeOK
  <2>2. QED
    BY <2>1, EnrichmentBounds
<1>1. claim \in Receipts /\ policy.rev \in Nat /\ speech \in {"none", "short", "long"}
  BY DEF Retitle, EnrichInv, TypeOK, Receipts, Minted
<1>2. pass' = [pass EXCEPT !["cli"] = new] /\ receipt' = claim
  BY DEF Retitle
<1> HIDE DEF claim
<1>3. /\ new \in Pass /\ new.at = "title" /\ new.stamp = NoStamp /\ new.fallback = NoStamp
      /\ ~new.replaceable
  BY <1>1, NoPassFacts, ZenonT(40) DEF NoPass, Pass, Places
<1> HIDE DEF new
<1>4. /\ "cli" \in Passes /\ pass' \in [Passes -> Pass] /\ pass'["cli"] = new
      /\ \A q \in Passes \ {"cli"} : pass'[q] = pass[q]
  BY <1>2, <1>3 DEF EnrichInv, PassesInv, Passes
<1>5. UNCHANGED <<library, sweep, due, window, crashes>>
  BY DEF Retitle
<1>6. PassesInv'
  BY <1>3, <1>4, <1>5, BetweenStep DEF Between, Places, library
<1>7. \A q \in Passes : pass'[q].at \in Places
  BY <1>6 DEF PassesInv, Pass
<1>8. QED
  BY <1>0, <1>1, <1>2, <1>5, <1>6, <1>7 DEF EnrichInv, TypeOK, library, Receipts

\* People: a new title or a new note is a later epoch.
LEMMA PeopleInv ==
  ASSUME EnrichInv, Rename \/ EditInputs \/ ChangeSettings \/ Configure
  PROVE  EnrichInv'
<1>1. /\ UNCHANGED <<speech, summary, status, draft, receipt, pass, sweep, due, window, crashes>>
      /\ edits' \in 0..MaxEdits
  BY EnrichmentBounds DEF Rename, EditInputs, ChangeSettings, Configure, Edit, EnrichInv, TypeOK
<1>2. epoch' \in Nat /\ title' \in Titles /\ auto' \in BOOLEAN /\ Onward(epoch, title, epoch', title')
  <2>1. epoch \in Nat /\ title \in Titles /\ auto \in BOOLEAN
    BY DEF EnrichInv, TypeOK
  <2>2. auto' \in BOOLEAN
    BY <2>1 DEF Rename, EditInputs, ChangeSettings, Configure
  <2>3. QED
    BY <2>1, <2>2 DEF Rename, EditInputs, ChangeSettings, Configure, SetTitle, Titles, Onward
<1>3. policy' \in [rev : Nat, engine : Engines]
  BY DEF Rename, EditInputs, ChangeSettings, Configure, EnrichInv, TypeOK
<1>4. PassesInv'
  BY <1>1, <1>2, AllSound
<1>5. QED
  BY <1>1, <1>2, <1>3, <1>4 DEF EnrichInv, TypeOK

\* The document window.
LEMMA WindowInv ==
  ASSUME EnrichInv, LoadDocument \/ SaveEdited \/ Generate \/ Generated
  PROVE  EnrichInv'
<1>1. UNCHANGED <<policy, epoch, speech, title, summary, status, auto, receipt, pass, sweep, due,
                  crashes>>
  BY DEF LoadDocument, SaveEdited, Generate, Generated, library
<1>2. edits' \in 0..MaxEdits
  BY EnrichmentBounds DEF LoadDocument, SaveEdited, Generate, Generated, Edit, EnrichInv, TypeOK
<1>3. draft' \in [rev : Nat, base : Nat, by : {"nobody", "engine", "person"}]
  BY DEF LoadDocument, SaveEdited, Generate, Generated, SaveDocument, library, EnrichInv, TypeOK
<1>4. draft'.rev \in Nat /\ draft.rev \in Nat /\ Now \in Stamp /\ NoStamp \in Stamp
  BY <1>3, NoPassFacts DEF Now, Stamp, EnrichInv, TypeOK
<1>5. window' \in [at : {"idle", "generating"}, loaded : Nat, stamp : Stamp]
  <2>1. \E at \in {"idle", "generating"}, n \in Nat, st \in Stamp :
          window' = [at |-> at, loaded |-> n, stamp |-> st]
    BY <1>4, ZenonT(40) DEF LoadDocument, SaveEdited, Generate, Generated, EnrichInv, TypeOK
  <2>2. QED
    BY <2>1
<1>6. PassesInv'
  BY <1>1 DEF EnrichInv, PassesInv
<1>7. QED
  BY <1>1, <1>2, <1>3, <1>5, <1>6 DEF EnrichInv, TypeOK

\* The daemon restarts: its passes are gone, the CLI's is not its own.
LEMMA CrashInv ==
  ASSUME EnrichInv, Crash
  PROVE  EnrichInv'
<1>1. UNCHANGED <<library, receipt, edits>> /\ crashes' \in 0..MaxCrashes /\ due' \in BOOLEAN
  <2>1. UNCHANGED <<library, receipt, edits>> /\ due' = FALSE
    BY DEF Crash
  <2>2. crashes' \in 0..MaxCrashes
    BY EnrichmentBounds DEF Crash, EnrichInv, TypeOK
  <2>3. QED
    BY <2>1, <2>2
<1>2. pass' = [p \in Passes |-> IF p = "cli" THEN pass[p] ELSE NoPass]
  BY DEF Crash
<1>3. pass' \in [Passes -> Pass] /\ \A p \in Passes : pass'[p] = pass[p] \/ pass'[p] = NoPass
  BY <1>2, NoPassFacts DEF EnrichInv, PassesInv
<1>4. \A p : Sound(p, NoPass, epoch, title)
  BY NoPassFacts DEF Sound, EnrichInv, TypeOK
<1>5. PassesInv'
  BY <1>1, <1>3, <1>4 DEF EnrichInv, PassesInv, library
<1>6. sweep' \in [at : {"due", "read", "done"}, seen : Receipts]
  BY DEF Crash, EnrichInv, TypeOK, Receipts, NoReceipt, Minted
<1>7. window' \in [at : {"idle", "generating"}, loaded : Nat, stamp : Stamp]
  BY NoPassFacts DEF Crash, EnrichInv, TypeOK
<1>8. \A q \in Passes : pass'[q].at \in Places
  BY <1>5 DEF PassesInv, Pass
<1>9. QED
  BY <1>1, <1>5, <1>6, <1>7, <1>8 DEF EnrichInv, TypeOK, library, Receipts

\* Every step preserves the invariant.
LEMMA NextInv == EnrichInv /\ [Next]_vars => EnrichInv'
<1> SUFFICES ASSUME EnrichInv, [Next]_vars PROVE EnrichInv'
  OBVIOUS
<1>1. ASSUME NEW p \in Passes, Step(p) PROVE EnrichInv'
  BY <1>1, StampStartedInv, ReadMeetingInv, ResolveInv, AskTitleInv, NamedInv, NotNamedInv,
    AskSummaryInv, SummarisedInv, NotSummarisedInv, AskDraftInv, DraftedInv, NotDraftedInv,
    ReportInv, MintInv, FinishInv DEF Step
<1>2. CASE UNCHANGED vars
  BY <1>2 DEF vars, EnrichInv, PassesInv, TypeOK
<1>3. QED
  BY <1>1, <1>2, StartsInv, SweepInv, RetitleInv, PeopleInv, WindowInv, CrashInv DEF Next

-----------------------------------------------------------------------------
(* The theorems.                                                           *)

\* EnrichInv is an invariant of enrichment.
THEOREM EnrichInvariance == Spec => []EnrichInv
BY InitInv, NextInv, PTL DEF Spec

\* The variables of enrichment keep their types.
THEOREM EnrichTypes == Spec => []TypeOK
<1>1. EnrichInv => TypeOK
  BY DEF EnrichInv
<1>2. QED
  BY <1>1, EnrichInvariance, PTL

\* A step that leaves the passes, or the meeting, alone publishes nothing of theirs.
LEMMA PassSteps ==
  ASSUME [Next]_vars, NEW p \in Passes, pass'[p] # pass[p], EnrichInv,
         <<title, summary, draft>>' # <<title, summary, draft>>
  PROVE  Named(p) \/ Summarised(p) \/ Drafted(p) \/ Mint(p)
<1>1. ASSUME NEW q \in Passes, Step(q) PROVE q = p
  <2>1. pass' = [pass EXCEPT ![q] = pass'[q]]
    BY <1>1 DEF EnrichInv, PassesInv, Step, StampStarted, ReadMeeting, Resolve, AskTitle, Ask,
      Refused, Goto, Named, NotNamed, AskSummary, Outcome, Summarised, NotSummarised, AskDraft,
      Drafted, NotDrafted, Report, Mint, Ends, Finish
  <2>2. QED
    BY <2>1 DEF EnrichInv, PassesInv
<1>2. CASE \E q \in Passes : Step(q)
  BY <1>1, <1>2, ZenonT(40) DEF Step, StampStarted, ReadMeeting, Resolve, AskTitle, NotNamed, AskSummary,
    NotSummarised, AskDraft, NotDrafted, Report, Finish, library
<1>3. QED
  BY <1>2 DEF Next, vars, SessionEnd, SessionEndLost, Backfill, SweepRead, SweepWrite, Retitle,
    Rename, EditInputs, ChangeSettings, Configure, LoadDocument, SaveEdited, Generate, Generated,
    Crash, library

\* A generated title, summary or draft is published only on the inputs and under the
\* settings its call was given (PolicyStamp, set_title_if_setting,
\* insert_summary_if_setting, save_sharing_document_checked).
THEOREM OutputsStayCurrent == Spec => OutputsAreCurrent
<1> DEFINE Current ==
             /\ \A p \in Passes :
                  Publishes(p) => IF pass[p].at = "mint" THEN pass[p].heard = epoch
                                  ELSE pass[p].from = epoch /\ pass[p].rev = policy.rev
             /\ (window.at = "generating" /\ window' # window /\ draft' # draft)
                  => window.stamp.epoch = epoch
<1>1. ASSUME EnrichInv, [Next]_vars PROVE Current
  <2> USE <1>1
  <2>1. ASSUME NEW p \in Passes, Publishes(p)
        PROVE  IF pass[p].at = "mint" THEN pass[p].heard = epoch
               ELSE pass[p].from = epoch /\ pass[p].rev = policy.rev
    <3>1. Named(p) \/ Summarised(p) \/ Drafted(p) \/ Mint(p)
      BY <2>1, PassSteps DEF Publishes
    <3>2. pass[p] \in Pass /\ Sound(p, pass[p], epoch, title) /\ epoch \in Nat
      BY DEF EnrichInv, PassesInv, TypeOK
    <3>3. CASE Named(p) \/ Summarised(p) \/ Drafted(p)
      <4>1. pass[p].at \in {"naming", "summing", "drafting"} /\ pass[p].stamp = Now
        BY <3>3 DEF Named, Summarised, Drafted, Matches
      <4>2. QED
        BY <3>2, <4>1 DEF Sound, Now
    <3>4. CASE Mint(p)
      <4>1. pass[p].at = "mint" /\ pass[p].replaceable /\ pass[p].fallback = Now
        BY <2>1, <3>4 DEF Mint, Publishes, Mints, Matches
      <4>2. pass[p].heard \in Nat /\ pass[p].fallback.epoch = epoch
        BY <3>2, <4>1 DEF Pass, Now
      <4>3. QED
        BY <3>2, <4>1, <4>2 DEF Sound
    <3>5. QED
      BY <3>1, <3>3, <3>4
  <2>2. ASSUME window.at = "generating", window' # window, draft' # draft
        PROVE  window.stamp.epoch = epoch
    <3>1. Generated
      BY <2>2 DEF Next, vars, SessionEnd, SessionEndLost, Backfill, SweepRead, SweepWrite,
        Retitle, Rename, EditInputs, ChangeSettings, Configure, LoadDocument, SaveEdited, Generate,
        Crash, library, Step, StampStarted, ReadMeeting, Resolve, AskTitle, Named, NotNamed,
        AskSummary, Summarised, NotSummarised, AskDraft, Drafted, NotDrafted, Report, Mint, Finish
    <3>2. QED
      BY <2>2, <3>1 DEF Generated, Matches, Now
  <2>3. QED
    BY <2>1, <2>2
<1>2. QED
  BY <1>1, EnrichInvariance, PTL DEF Spec, OutputsAreCurrent

\* What a person typed stands: a name is never replaced by an automatic pass whenever
\* it was typed, and every revision of the draft is written over the one its author had
\* loaded (title_from_engine, the local fallback, documents::save).
THEOREM HumanWorkStays == Spec => HumanWorkStands
<1> DEFINE TitleStands == \A p \in {"end", "fill"} :
             (pass'[p] # pass[p] /\ title = "user") => title' = "user"
           DraftStands == draft' # draft =>
             /\ draft'.base = draft.rev
             /\ (draft'.by = "engine" /\ window'.at = window.at) => draft.rev = 0
<1>1. ASSUME EnrichInv, [Next]_vars PROVE TitleStands
  <2> SUFFICES ASSUME NEW p \in {"end", "fill"}, pass'[p] # pass[p], title = "user", title' # "user"
               PROVE  FALSE
    OBVIOUS
  <2>1. p \in Passes /\ p # "cli"
    BY DEF Passes
  <2>2. Named(p) \/ Mint(p)
    BY <1>1, <2>1, PassSteps DEF Summarised, Drafted
  <2>3. pass[p] \in Pass /\ Sound(p, pass[p], epoch, title) /\ epoch \in Nat
    BY <1>1, <2>1 DEF EnrichInv, PassesInv, TypeOK
  <2>4. CASE Named(p)
    BY <2>1, <2>3, <2>4 DEF Named, Matches, Now, Sound
  <2>5. CASE Mint(p)
    <3>1. pass[p].replaceable /\ pass[p].fallback.epoch = epoch
      BY <2>5 DEF Mint, Mints, Matches, Now
    <3>2. pass[p].heard = epoch
      BY <2>3, <3>1 DEF Sound, Pass
    <3>3. QED
      BY <2>3, <3>1, <3>2 DEF Sound
  <2>6. QED
    BY <2>2, <2>4, <2>5
<1>2. ASSUME EnrichInv, [Next]_vars PROVE DraftStands
  <2> SUFFICES ASSUME draft' # draft PROVE DraftStands
    OBVIOUS
  <2>1. Generated \/ SaveEdited \/ \E p \in Passes : Drafted(p)
    BY <1>2 DEF Next, vars, SessionEnd, SessionEndLost, Backfill, SweepRead, SweepWrite,
      Retitle, Rename, EditInputs, ChangeSettings, Configure, LoadDocument, Generate,
      Crash, library, Step, StampStarted, ReadMeeting, Resolve, AskTitle, Named, NotNamed,
      AskSummary, Summarised, NotSummarised, AskDraft, NotDrafted, Report, Mint, Finish
  <2>2. CASE Generated
    <3>1. window'.at = "idle" /\ window.at = "generating"
      BY <1>2, <2>2 DEF Generated, EnrichInv, TypeOK
    <3>2. QED
      BY <2>2, <3>1 DEF Generated, SaveDocument
  <2>3. CASE SaveEdited
    BY <2>3 DEF SaveEdited, SaveDocument
  <2>4. CASE \E p \in Passes : Drafted(p)
    BY <2>4 DEF Drafted, SaveDocument
  <2>5. QED
    BY <2>1, <2>2, <2>3, <2>4
<1>3. QED
  BY <1>1, <1>2, EnrichInvariance, PTL DEF Spec, HumanWorkStands, HumanTitleStands, NoDraftIsLost

=============================================================================
