------------------------ MODULE GithubExportProofs ------------------------
(***************************************************************************)
(* Proofs about GithubExport, for any number of meetings and repositories, *)
(* any settings that may be saved, and any number of upsets.  ExportInv is *)
(* inductive; the properties the run checks follow from it.                *)
(***************************************************************************)
EXTENDS GithubExport, FiniteSetTheorems, TLAPS

-----------------------------------------------------------------------------
(* The inductive invariant.                                                *)

Claimed == {"lock", "put", "companions", "record", "release"}
Writing == {"put", "companions", "record", "release"}
Places == Claimed \cup {"idle", "scan", "round", "settle", "bundle", "lockIndex"}

File == [m : Meetings, path : Nat, version : Nat]
Pushing == [at : Places, m : Meetings \cup {0}, repo : Repos \cup {"none"}, ack : BOOLEAN,
            path : Nat, version : Nat, before : Nat, result : {"none", "ok", "stall", "own"},
            listing : SUBSET Meetings]

(* Every type, that of each push under way included.                       *)
TypeLibrary ==
  /\ TypeOK
  /\ title \in [Meetings -> Nat]
  /\ version \in [Meetings -> Nat]
TypeBooks ==
  /\ receipts \in [Meetings -> [repo : Repos, path : Nat] \cup {NoReceipt}]
  /\ artifacts \in [Meetings -> [repo : Repos, version : Nat] \cup {NoArtifact}]
  /\ failed \in [Meetings -> [failures : Nat, waiting : BOOLEAN]]
TypeJobs ==
  /\ remote \in [Repos -> SUBSET File]
  /\ job \in [Jobs -> Pushing]
Settings == [mode : {"off", "manual", "auto"}, repo : Repos \cup {"none"}, ack : BOOLEAN,
             whole : BOOLEAN, since : Nat]
TypeRound == round \in [todo : SUBSET Meetings, landed : BOOLEAN, read : Settings,
                        owes : SUBSET Meetings]

(* A claimed meeting is one job's alone, and its snapshot is no older than *)
(* what the books say has landed: nobody else can have pushed it since.    *)
ClaimInv ==
  \A j \in Jobs : job[j].at \in Claimed =>
    /\ job[j].m \in inFlight
    /\ job[j].repo \in Repos
    /\ artifacts[job[j].m].version <= job[j].version
    /\ job[j].version <= version[job[j].m]
    /\ \A i \in Jobs : job[i].at \in Claimed /\ i # j => job[i].m # job[j].m

(* Whoever is writing holds the write lock.                                *)
LockInv == \A j \in Jobs : job[j].at \in Writing => writer = j

(* A push past its transcript has left the file its receipt will name, and *)
(* one past its companions no older version beside it than it will record. *)
LandedInv ==
  \A j \in Jobs : job[j].at \in {"companions", "record"} =>
    \E f \in remote[job[j].repo] :
      /\ f.m = job[j].m /\ f.path = job[j].path
      /\ job[j].at = "record" => f.version >= job[j].version

(* The acknowledgement travels with the repository it was given for.       *)
AckInv ==
  /\ target.ack => target.repo \in acked
  /\ \A j \in Jobs : job[j].ack => job[j].repo \in acked
  /\ \A j \in Jobs : job[j].at \in {"put", "companions", "record"} /\ job[j].repo \in Public
                       => job[j].ack

(* Automatic mode's stamp separates the meetings recorded under it.        *)
FreshInv ==
  target.mode = "auto" =>
    \A m \in Meetings : m <= recorded /\ target.since <= m => m \in fresh

(* Between a round's two readings, what the settings it read put in scope  *)
(* is what they owed.                                                      *)
ScopeInv ==
  job["worker"].at = "scan" => \A m \in Meetings : InScope(round.read, m) => m \in round.owes

(* The books name files that are there, and no version from the future.    *)
BooksInv ==
  \A m \in Meetings :
    /\ receipts[m] # NoReceipt =>
         \E f \in remote[receipts[m].repo] : f.m = m /\ f.path = receipts[m].path
    /\ artifacts[m] # NoArtifact =>
         \E f \in remote[artifacts[m].repo] : f.m = m /\ f.version >= artifacts[m].version
    /\ artifacts[m].version <= version[m]

ExportInv ==
  /\ TypeLibrary /\ TypeBooks /\ TypeJobs
  /\ ClaimInv /\ LockInv /\ LandedInv /\ AckInv /\ FreshInv /\ BooksInv /\ NoPublicByAccident

-----------------------------------------------------------------------------

\* Meetings are positive numbers.
LEMMA MeetingFacts ==
  /\ Meetings \subseteq Nat /\ 0 \notin Meetings /\ Public \subseteq Repos
  /\ Cardinality(Meetings) \in Nat
<1>1. Cardinality(Meetings) \in Nat
  BY ExportBounds, FS_CardinalityType
<1>2. QED
  BY <1>1, ExportBounds

\* No push is under way in the empty record.
LEMMA NoJobFacts ==
  /\ NoJob \in Pushing /\ ~NoJob.ack
  /\ \A at \in Places : [NoJob EXCEPT !.at = at] \in Pushing /\ ~[NoJob EXCEPT !.at = at].ack
BY DEF NoJob, Pushing, Places, Claimed

\* The initial state: nothing recorded, nothing pushed.
LEMMA InitInv == Init => ExportInv
<1> SUFFICES ASSUME Init PROVE ExportInv
  OBVIOUS
<1>1. TypeLibrary
  BY MeetingFacts DEF Init, TypeLibrary, TypeOK, Jobs
<1>2. TypeBooks /\ TypeJobs
  BY NoJobFacts DEF Init, TypeBooks, TypeJobs, NoReceipt, NoArtifact, File
<1>3. \A j \in Jobs : job[j].at = "idle" /\ job[j].ack = FALSE
  BY DEF Init, NoJob
<1>4. ClaimInv /\ LockInv /\ LandedInv /\ AckInv
  BY <1>3 DEF Init, ClaimInv, LockInv, LandedInv, AckInv, Claimed, Writing
<1>5. FreshInv /\ BooksInv /\ NoPublicByAccident
  BY MeetingFacts DEF Init, FreshInv, BooksInv, NoPublicByAccident, NoArtifact
<1>6. QED
  BY <1>1, <1>2, <1>4, <1>5 DEF ExportInv

-----------------------------------------------------------------------------
(* The library, the environment and the settings.                          *)

\* A meeting is recorded: the stamp stays ahead of it.
LEMMA RecordInv ==
  ASSUME ExportInv, Record
  PROVE  ExportInv'
<1> USE DEF ExportInv, library, books, world, history
<1>1. TypeLibrary'
  BY MeetingFacts DEF Record, TypeLibrary, TypeOK
<1>2. FreshInv'
  BY MeetingFacts DEF Record, FreshInv, TypeLibrary, TypeOK
<1>3. TypeBooks' /\ TypeJobs' /\ ClaimInv' /\ LockInv' /\ LandedInv' /\ AckInv' /\ BooksInv' /\ NoPublicByAccident'
  BY DEF Record, TypeBooks, TypeJobs, ClaimInv, LockInv, LandedInv, AckInv, BooksInv, NoPublicByAccident
<1>4. QED
  BY <1>1, <1>2, <1>3

\* gh breaks or is mended.
LEMMA EnvironmentInv ==
  ASSUME ExportInv, Environment
  PROVE  ExportInv'
<1> USE DEF ExportInv, library, books, world, history
<1>1. TypeLibrary' /\ TypeBooks' /\ TypeJobs' /\ ClaimInv' /\ LockInv' /\ LandedInv' /\ AckInv' /\ FreshInv' /\ BooksInv' /\ NoPublicByAccident'
  BY ZenonT(40) DEF Environment, TypeLibrary, TypeOK, TypeBooks, TypeJobs, ClaimInv, LockInv, LandedInv, AckInv, FreshInv, BooksInv, NoPublicByAccident
<1>2. QED
  BY <1>1

\* Settings are saved: the acknowledgement with the repository it names.
LEMMA SettingsInv ==
  ASSUME ExportInv, SetSettings
  PROVE  ExportInv'
<1> USE DEF ExportInv, library, books, world, history
<1>1. PICK saved \in Saveable :
        /\ target' = [mode |-> saved.mode, repo |-> saved.repo, ack |-> saved.ack,
                      whole |-> saved.whole, since |-> Since(saved)]
        /\ acked' = IF saved.ack THEN acked \cup {saved.repo} ELSE acked
        /\ fresh' = IF saved.mode = "auto" /\ target.mode = "auto" THEN fresh ELSE {}
  BY DEF SetSettings
<1>2. /\ saved.mode \in {"off", "manual", "auto"} /\ saved.repo \in Repos
      /\ saved.ack \in BOOLEAN /\ saved.whole \in BOOLEAN
  BY ExportBounds
<1>3. Since(saved) \in Nat
  BY MeetingFacts DEF Since, TypeLibrary, TypeOK
<1>4. TypeLibrary'
  BY <1>1, <1>2, <1>3 DEF SetSettings, TypeLibrary, TypeOK
<1>5. AckInv' /\ NoPublicByAccident'
  BY <1>1, <1>2 DEF SetSettings, AckInv, NoPublicByAccident, TypeLibrary, TypeOK
<1>6. FreshInv'
  BY <1>1, <1>2, MeetingFacts DEF SetSettings, Since, FreshInv, TypeLibrary, TypeOK
<1>7. TypeBooks' /\ TypeJobs' /\ ClaimInv' /\ LockInv' /\ LandedInv' /\ BooksInv'
  BY DEF SetSettings, TypeBooks, TypeJobs, ClaimInv, LockInv, LandedInv, BooksInv
<1>8. QED
  BY <1>4, <1>5, <1>6, <1>7

\* What the books and the pushes under way know of versions stays behind when
\* versions grow.
LEMMA VersionsGrow ==
  ASSUME ExportInv, version' \in [Meetings -> Nat],
         \A n \in Meetings : version[n] <= version'[n],
         UNCHANGED <<books, world, inFlight, job>>
  PROVE  ClaimInv' /\ BooksInv'
<1> USE DEF ExportInv, library, books, world, history
<1>1. \A n \in Meetings : artifacts[n].version \in Nat /\ version[n] \in Nat
  BY DEF TypeLibrary, TypeBooks, NoArtifact
<1>2. BooksInv'
  <2>1. \A n \in Meetings : artifacts[n].version <= version'[n]
    BY <1>1 DEF BooksInv
  <2>2. QED
    BY <2>1 DEF BooksInv
<1>3. ASSUME NEW j \in Jobs, job[j].at \in Claimed
      PROVE  job[j].version <= version'[job[j].m]
  <2>1. job[j].m \in Meetings /\ job[j].version \in Nat /\ job[j].version <= version[job[j].m]
    BY <1>3 DEF ClaimInv, TypeLibrary, TypeOK, TypeJobs, Pushing
  <2>2. QED
    BY <1>1, <2>1
<1>4. ClaimInv'
  BY <1>3 DEF ClaimInv
<1>5. QED
  BY <1>2, <1>4

\* An enrichment ends or is lost: versions only grow.
LEMMA EnrichInv ==
  ASSUME ExportInv, NEW m \in Meetings, Enrich(m)
  PROVE  ExportInv'
<1> USE DEF ExportInv, library, books, world, history
<1>1. /\ version' \in [Meetings -> Nat]
      /\ \A n \in Meetings : version[n] <= version'[n]
  BY MeetingFacts DEF Enrich, TypeLibrary, TypeOK
<1>2. TypeLibrary'
  BY <1>1, MeetingFacts DEF Enrich, TypeLibrary, TypeOK
<1>3. ClaimInv' /\ BooksInv'
  BY <1>1, VersionsGrow DEF Enrich
<1>4. TypeBooks' /\ TypeJobs' /\ LockInv' /\ LandedInv' /\ AckInv' /\ FreshInv' /\ NoPublicByAccident'
  BY <1>1 DEF Enrich, TypeBooks, TypeJobs, LockInv, LandedInv, AckInv, FreshInv, NoPublicByAccident
<1>5. QED
  BY <1>2, <1>3, <1>4

\* A rename or a new summary: versions only grow.
LEMMA ChangeInv ==
  ASSUME ExportInv, NEW m \in Meetings, Change(m)
  PROVE  ExportInv'
<1> USE DEF ExportInv, library, books, world, history
<1>1. /\ version' \in [Meetings -> Nat]
      /\ \A n \in Meetings : version[n] <= version'[n]
  BY MeetingFacts DEF Change, TypeLibrary, TypeOK
<1>2. TypeLibrary'
  BY <1>1, MeetingFacts DEF Change, TypeLibrary, TypeOK
<1>3. ClaimInv' /\ BooksInv'
  BY <1>1, VersionsGrow DEF Change
<1>4. TypeBooks' /\ TypeJobs' /\ LockInv' /\ LandedInv' /\ AckInv' /\ FreshInv' /\ NoPublicByAccident'
  BY <1>1 DEF Change, TypeBooks, TypeJobs, LockInv, LandedInv, AckInv, FreshInv, NoPublicByAccident
<1>5. QED
  BY <1>2, <1>3, <1>4

\* A retry window ends.
LEMMA WindowInv ==
  ASSUME ExportInv, NEW m \in Meetings, WindowEnds(m)
  PROVE  ExportInv'
<1> USE DEF ExportInv, library, books, world, history
<1>1. TypeBooks'
  BY DEF WindowEnds, TypeBooks
<1>2. TypeLibrary' /\ TypeJobs' /\ ClaimInv' /\ LockInv' /\ LandedInv' /\ AckInv' /\ FreshInv' /\ BooksInv' /\ NoPublicByAccident'
  BY DEF WindowEnds, TypeLibrary, TypeOK, TypeJobs, ClaimInv, LockInv, LandedInv, AckInv, FreshInv, BooksInv, NoPublicByAccident
<1>3. QED
  BY <1>1, <1>2

-----------------------------------------------------------------------------
(* Pushes.  Each lemma first says what becomes of the job.                 *)

\* A window opened in the retry table leaves it a table.
LEMMA BackoffType ==
  ASSUME TypeBooks, NEW m \in Meetings, EnterBackoff(m)
  PROVE  failed' \in [Meetings -> [failures : Nat, waiting : BOOLEAN]]
<1>1. failed[m].failures + 1 \in Nat
  BY DEF TypeBooks
<1>2. failed' = [failed EXCEPT ![m] = [failures |-> failed[m].failures + 1, waiting |-> TRUE]]
  BY DEF EnterBackoff
<1>3. QED
  BY <1>1, <1>2 DEF TypeBooks

\* A round reads the settings.
LEMMA ReadScopeInv ==
  ASSUME ExportInv, ReadScope
  PROVE  ExportInv'
<1> USE DEF ExportInv, library, books, world, history
<1>1. /\ job' \in [Jobs -> Pushing]
      /\ job'["worker"].at = "scan" /\ job'["worker"].ack = job["worker"].ack
      /\ job'["worker"].repo = job["worker"].repo
      /\ \A k \in Jobs \ {"worker"} : job'[k] = job[k]
  BY DEF ReadScope, TypeJobs, Pushing, Places, Jobs
<1>2. TypeJobs'
  BY <1>1 DEF ReadScope, TypeJobs
<1>3. ClaimInv' /\ LockInv' /\ LandedInv'
  BY <1>1 DEF ReadScope, ClaimInv, LockInv, LandedInv, Claimed, Writing
<1>4. AckInv'
  BY <1>1 DEF ReadScope, AckInv
<1>5. TypeLibrary' /\ TypeBooks' /\ FreshInv' /\ BooksInv' /\ NoPublicByAccident'
  BY <1>1 DEF ReadScope, TypeLibrary, TypeOK, TypeBooks, FreshInv, BooksInv, NoPublicByAccident
<1>6. QED
  BY <1>2, <1>3, <1>4, <1>5

\* It lists what it owes.
LEMMA StartRoundInv ==
  ASSUME ExportInv, StartRound
  PROVE  ExportInv'
<1> USE DEF ExportInv, library, books, world, history
<1>1. /\ job' \in [Jobs -> Pushing]
      /\ job'["worker"].at = "round" /\ job'["worker"].ack = job["worker"].ack
      /\ job'["worker"].repo = job["worker"].repo
      /\ \A k \in Jobs \ {"worker"} : job'[k] = job[k]
  BY DEF StartRound, TypeJobs, Pushing, Places, Jobs
<1>2. TypeJobs'
  BY <1>1 DEF StartRound, TypeJobs
<1>3. ClaimInv' /\ LockInv' /\ LandedInv'
  BY <1>1 DEF StartRound, ClaimInv, LockInv, LandedInv, Claimed, Writing
<1>4. AckInv'
  BY <1>1 DEF StartRound, AckInv
<1>5. TypeLibrary' /\ TypeBooks' /\ FreshInv' /\ BooksInv' /\ NoPublicByAccident'
  BY <1>1 DEF StartRound, TypeLibrary, TypeOK, TypeBooks, FreshInv, BooksInv, NoPublicByAccident
<1>6. QED
  BY <1>2, <1>3, <1>4, <1>5

\* A round ends.
LEMMA EndRoundInv ==
  ASSUME ExportInv, EndRound
  PROVE  ExportInv'
<1> USE DEF ExportInv, library, books, world, history
<1>1. /\ job' \in [Jobs -> Pushing]
      /\ job'["worker"].at \in {"idle", "bundle"} /\ ~job'["worker"].ack
      /\ \A k \in Jobs \ {"worker"} : job'[k] = job[k]
  BY NoJobFacts DEF EndRound, TypeJobs, Pushing, Places, Jobs, NoJob
<1>2. TypeJobs'
  BY <1>1 DEF EndRound, TypeJobs
<1>3. ClaimInv' /\ LockInv' /\ LandedInv'
  BY <1>1 DEF EndRound, ClaimInv, LockInv, LandedInv, Claimed, Writing
<1>4. AckInv'
  BY <1>1 DEF EndRound, AckInv
<1>5. TypeLibrary' /\ TypeBooks' /\ FreshInv' /\ BooksInv' /\ NoPublicByAccident'
  BY <1>1 DEF EndRound, TypeLibrary, TypeOK, TypeBooks, FreshInv, BooksInv, NoPublicByAccident
<1>6. QED
  BY <1>2, <1>3, <1>4, <1>5

\* A push claims its meeting: nobody else has it, and its version is the newest.
LEMMA ClaimedInv ==
  ASSUME ExportInv, NEW i \in Jobs, NEW m \in Meetings, Claim(i, m),
         UNCHANGED <<target, library, receipts, artifacts, world, writer, history>>
  PROVE  ExportInv'
<1> USE DEF ExportInv, library, books, world, history
<1>0. /\ Path(m) \in Nat /\ version[m] \in Nat /\ failed[m].failures \in Nat
      /\ target.repo \in Repos /\ target.ack \in BOOLEAN
  BY MeetingFacts DEF Path, NoReceipt, TypeLibrary, TypeOK, TypeBooks
<1>1. /\ job' \in [Jobs -> Pushing]
      /\ job'[i].at = "lock" /\ job'[i].m = m /\ job'[i].repo = target.repo
      /\ job'[i].ack = target.ack /\ job'[i].version = version[m]
      /\ \A k \in Jobs \ {i} : job'[k] = job[k]
  BY <1>0 DEF Claim, NoJob, TypeJobs, Pushing, Places, Claimed
<1>2. TypeLibrary'
  BY <1>1 DEF Claim, TypeLibrary, TypeOK
<1>3. TypeJobs'
  BY <1>1 DEF Claim, TypeJobs
<1>4. ClaimInv'
  BY <1>1, MeetingFacts DEF Claim, ClaimInv, BooksInv, Claimed, TypeLibrary, TypeOK
<1>5. LockInv' /\ LandedInv'
  BY <1>1 DEF Claim, LockInv, LandedInv, Writing
<1>6. AckInv'
  BY <1>1 DEF Claim, AckInv
<1>7. TypeBooks' /\ FreshInv' /\ BooksInv' /\ NoPublicByAccident'
  BY <1>1 DEF Claim, TypeBooks, FreshInv, BooksInv, NoPublicByAccident
<1>8. QED
  BY <1>2, <1>3, <1>4, <1>5, <1>6, <1>7

\* A push is refused before its claim.
LEMMA DeclinedInv ==
  ASSUME ExportInv, NEW i \in Jobs, NEW m \in Meetings, Declined(i, m),
         UNCHANGED <<target, library, receipts, artifacts, world, writer, history>>
  PROVE  ExportInv'
<1> USE DEF ExportInv, library, books, world, history
<1>1. /\ job' \in [Jobs -> Pushing]
      /\ job'[i].at \in {"idle", "round"} /\ ~job'[i].ack
      /\ \A k \in Jobs \ {i} : job'[k] = job[k]
  BY NoJobFacts DEF Declined, Returned, NoJob, TypeJobs, Pushing, Places
<1>2. TypeJobs'
  BY <1>1 DEF Declined, TypeJobs
<1>3. ClaimInv' /\ LockInv' /\ LandedInv'
  <2>1. UNCHANGED <<library, receipts, artifacts, world, inFlight, writer>>
    BY DEF Declined
  <2>2. ClaimInv'
    BY <1>1, <2>1 DEF ClaimInv, Claimed
  <2>3. LockInv'
    BY <1>1, <2>1 DEF LockInv, Writing
  <2>4. LandedInv'
    BY <1>1, <2>1 DEF LandedInv
  <2>5. QED
    BY <2>2, <2>3, <2>4
<1>4. AckInv'
  BY <1>1 DEF Declined, AckInv
<1>5. TypeLibrary' /\ TypeBooks' /\ FreshInv' /\ BooksInv' /\ NoPublicByAccident'
  BY <1>1 DEF Declined, TypeLibrary, TypeOK, TypeBooks, FreshInv, BooksInv, NoPublicByAccident
<1>6. QED
  BY <1>2, <1>3, <1>4, <1>5

\* The library cannot give the meeting: its window opens.
LEMMA UnreadableInv ==
  ASSUME ExportInv, NEW i \in Jobs, NEW m \in Meetings, Unreadable(i, m),
         UNCHANGED <<target, library, receipts, artifacts, world, writer, history>>
  PROVE  ExportInv'
<1> USE DEF ExportInv, library, books, world, history
<1>1. /\ job' \in [Jobs -> Pushing]
      /\ job'[i].at \in {"idle", "round"} /\ ~job'[i].ack
      /\ \A k \in Jobs \ {i} : job'[k] = job[k]
  BY NoJobFacts DEF Unreadable, Returned, NoJob, TypeJobs, Pushing, Places
<1>2. TypeJobs' /\ TypeBooks'
  BY <1>1, BackoffType DEF Unreadable, TypeJobs, TypeBooks
<1>3. ClaimInv' /\ LockInv' /\ LandedInv'
  <2>1. UNCHANGED <<library, receipts, artifacts, world, inFlight, writer>>
    BY DEF Unreadable
  <2>2. ClaimInv'
    BY <1>1, <2>1 DEF ClaimInv, Claimed
  <2>3. LockInv'
    BY <1>1, <2>1 DEF LockInv, Writing
  <2>4. LandedInv'
    BY <1>1, <2>1 DEF LandedInv
  <2>5. QED
    BY <2>2, <2>3, <2>4
<1>4. AckInv'
  BY <1>1 DEF Unreadable, AckInv
<1>5. TypeLibrary' /\ FreshInv' /\ BooksInv' /\ NoPublicByAccident'
  BY <1>1 DEF Unreadable, TypeLibrary, TypeOK, FreshInv, BooksInv, NoPublicByAccident
<1>6. QED
  BY <1>2, <1>3, <1>4, <1>5

\* The write lock is taken and GitHub asked, about the push's own repository.
LEMMA PreflightInv ==
  ASSUME ExportInv, NEW i \in Jobs, Preflight(i)
  PROVE  ExportInv'
<1> USE DEF ExportInv, library, books, world, history
<1>1. job[i].m \in Meetings
  BY DEF Preflight, ClaimInv, Claimed, TypeLibrary, TypeOK
<1>2. PICK known \in {job[i].before, failed[job[i].m].failures} :
        job' = [job EXCEPT ![i].at = IF MayWrite(i) THEN "put" ELSE "release",
                           ![i].result = IF MayWrite(i) THEN "none" ELSE "stall",
                           ![i].before = known]
  BY DEF Preflight
<1>3. known \in Nat
  BY <1>1, <1>2 DEF TypeJobs, TypeBooks, Pushing
<1> DEFINE at == IF MayWrite(i) THEN "put" ELSE "release"
           result == IF MayWrite(i) THEN "none" ELSE "stall"
<1>a. at \in Places /\ result \in {"none", "stall"}
  BY DEF Places, Claimed
<1>b. job' = [job EXCEPT ![i].at = at, ![i].result = result, ![i].before = known]
  BY <1>2
<1> DEFINE new == [job[i] EXCEPT !.at = at, !.result = result, !.before = known]
<1> HIDE DEF at, result
<1>c. new \in Pushing /\ job' = [job EXCEPT ![i] = new]
  BY <1>3, <1>a, <1>b DEF TypeJobs, Pushing
<1>d. /\ new.at = at /\ new.m = job[i].m /\ new.repo = job[i].repo /\ new.ack = job[i].ack
      /\ new.version = job[i].version
  BY DEF TypeJobs, Pushing
<1> HIDE DEF new
<1>4. /\ job' \in [Jobs -> Pushing]
      /\ job'[i].at = at
      /\ job'[i].m = job[i].m /\ job'[i].repo = job[i].repo /\ job'[i].ack = job[i].ack
      /\ job'[i].version = job[i].version
      /\ \A k \in Jobs \ {i} : job'[k] = job[k]
  BY <1>c, <1>d DEF TypeJobs
<1>5. ClaimInv'
  BY <1>4 DEF at, Preflight, ClaimInv, Claimed
<1>6. LockInv' /\ LandedInv'
  <2>1. LockInv'
    BY <1>4 DEF at, Preflight, LockInv, Writing, Jobs
  <2>2. LandedInv'
    BY <1>4 DEF at, Preflight, LandedInv
  <2>3. QED
    BY <2>1, <2>2
<1>7. AckInv'
  BY <1>4 DEF at, Preflight, AckInv, MayWrite
<1>8. TypeLibrary' /\ TypeBooks' /\ TypeJobs' /\ FreshInv' /\ BooksInv' /\ NoPublicByAccident'
  BY <1>4 DEF Preflight, TypeLibrary, TypeOK, TypeBooks, TypeJobs, FreshInv, BooksInv,
    NoPublicByAccident
<1>9. QED
  BY <1>5, <1>6, <1>7, <1>8

\* The transcript is written: what was beside it stays, and a public repository
\* gets it only if that was acknowledged.
LEMMA PutInv ==
  ASSUME ExportInv, NEW i \in Jobs, Put(i)
  PROVE  ExportInv'
<1> USE DEF ExportInv, library, books, world, history
<1> DEFINE file == [m |-> job[i].m, path |-> job[i].path, version |-> 0]
           repo == job[i].repo
<1>1. /\ job' \in [Jobs -> Pushing]
      /\ job'[i].at = "companions"
      /\ job'[i].m = job[i].m /\ job'[i].repo = job[i].repo /\ job'[i].ack = job[i].ack
      /\ job'[i].path = job[i].path /\ job'[i].version = job[i].version
      /\ \A k \in Jobs \ {i} : job'[k] = job[k]
  BY DEF Put, TypeJobs, Pushing, Places, Claimed
<1>2. file \in File /\ repo \in Repos
  BY DEF Put, ClaimInv, Claimed, TypeLibrary, TypeOK, TypeJobs, Pushing, File
<1>3. /\ \A r \in Repos : remote[r] \subseteq remote'[r]
      /\ \A r \in Repos \ {repo} : remote'[r] = remote[r]
      /\ remote' \in [Repos -> SUBSET File]
  BY <1>2 DEF Put, TypeJobs
<1>4. \E f \in remote'[repo] : f.m = job[i].m /\ f.path = job[i].path
  <2>1. CASE At(repo, job[i].m, job[i].path) # {}
    BY <1>2, <1>3, <2>1 DEF At
  <2>2. CASE At(repo, job[i].m, job[i].path) = {}
    <3>1. remote'[repo] = remote[repo] \cup {file}
      BY <1>2, <2>2 DEF Put, TypeJobs
    <3>2. QED
      BY <3>1
  <2>3. QED
    BY <2>1, <2>2
<1>5. ClaimInv'
  BY <1>1 DEF Put, ClaimInv, Claimed
<1>6. LockInv'
  BY <1>1 DEF Put, LockInv, Writing
<1>7. LandedInv'
  <2>1. \A k \in Jobs \ {i} : job'[k].at \notin {"companions", "record"}
    BY <1>1 DEF Put, LockInv, Writing
  <2>2. QED
    BY <1>1, <1>4, <2>1 DEF LandedInv
<1>8. AckInv'
  BY <1>1 DEF Put, AckInv
<1>9. BooksInv'
  <2>1. \A n \in Meetings : /\ receipts[n] # NoReceipt => receipts[n].repo \in Repos
                            /\ artifacts[n] # NoArtifact => artifacts[n].repo \in Repos
    BY DEF TypeBooks
  <2>2. receipts' = receipts /\ artifacts' = artifacts /\ version' = version
    BY DEF Put
  <2>3. QED
    BY <1>3, <2>1, <2>2 DEF BooksInv
<1>10. NoPublicByAccident'
  BY <1>2, <1>3, MeetingFacts DEF Put, AckInv, NoPublicByAccident
<1>11. TypeLibrary' /\ TypeBooks' /\ TypeJobs' /\ FreshInv'
  BY <1>1, <1>3 DEF Put, TypeLibrary, TypeOK, TypeBooks, TypeJobs, FreshInv
<1>12. QED
  BY <1>5, <1>6, <1>7, <1>8, <1>9, <1>10, <1>11

\* The companions replace what lay beside the transcript: never a newer version
\* than any receipt claims.
LEMMA PutCompanionsInv ==
  ASSUME ExportInv, NEW i \in Jobs, PutCompanions(i)
  PROVE  ExportInv'
<1> USE DEF ExportInv, library, books, world, history
<1> DEFINE file == [m |-> job[i].m, path |-> job[i].path, version |-> job[i].version]
           repo == job[i].repo
<1>1. /\ job' \in [Jobs -> Pushing]
      /\ job'[i].at = "record"
      /\ job'[i].m = job[i].m /\ job'[i].repo = job[i].repo /\ job'[i].ack = job[i].ack
      /\ job'[i].path = job[i].path /\ job'[i].version = job[i].version
      /\ \A k \in Jobs \ {i} : job'[k] = job[k]
  BY DEF PutCompanions, TypeJobs, Pushing, Places, Claimed
<1>2. /\ file \in File /\ repo \in Repos
      /\ artifacts[job[i].m].version <= job[i].version /\ job[i].version \in Nat
  BY DEF PutCompanions, ClaimInv, Claimed, TypeLibrary, TypeOK, TypeJobs, Pushing, File
<1>a. CASE job[i].version = 0
  <2>1. remote' = remote
    BY <1>a DEF PutCompanions
  <2>2. \A f \in remote[repo] : f.version >= 0
    BY <1>2 DEF TypeJobs, File
  <2>3. LandedInv'
    BY <1>a, <1>1, <2>1, <2>2 DEF PutCompanions, LandedInv
  <2>4. ClaimInv' /\ LockInv'
    BY <1>1 DEF PutCompanions, ClaimInv, LockInv, Claimed, Writing
  <2>5. AckInv'
    BY <1>1 DEF PutCompanions, AckInv
  <2>6. TypeJobs'
    BY <1>1, <2>1 DEF TypeJobs
  <2>7. TypeLibrary' /\ TypeBooks' /\ FreshInv' /\ BooksInv' /\ NoPublicByAccident'
    BY <2>1 DEF PutCompanions, TypeLibrary, TypeOK, TypeBooks, FreshInv, BooksInv,
      NoPublicByAccident
  <2>8. QED
    BY <2>3, <2>4, <2>5, <2>6, <2>7
<1>b. CASE job[i].version # 0
  <2>3. /\ remote'[repo] = (remote[repo] \ At(repo, job[i].m, job[i].path)) \cup {file}
        /\ \A r \in Repos \ {repo} : remote'[r] = remote[r]
        /\ remote' \in [Repos -> SUBSET File]
    BY <1>b, <1>2 DEF PutCompanions, TypeJobs
  <2>4. \A r \in Repos : \A f \in remote[r] :
          \/ f \in remote'[r]
          \/ r = repo /\ f.m = job[i].m /\ f.path = job[i].path
    BY <2>3 DEF At
  <2>5. ClaimInv'
    BY <1>1 DEF PutCompanions, ClaimInv, Claimed
  <2>6. LockInv'
    BY <1>1 DEF PutCompanions, LockInv, Writing
  <2>7. LandedInv'
    <3>1. \A k \in Jobs \ {i} : job'[k].at \notin {"companions", "record"}
      BY <1>1 DEF PutCompanions, LockInv, Writing
    <3>2. file \in remote'[repo] /\ file.version >= job[i].version
      BY <1>2, <2>3
    <3>3. QED
      BY <1>1, <3>1, <3>2 DEF LandedInv
  <2>8. AckInv'
    BY <1>1 DEF PutCompanions, AckInv
  <2>9. BooksInv'
    <3> SUFFICES ASSUME NEW n \in Meetings
                 PROVE  /\ receipts[n] # NoReceipt =>
                             \E f \in remote'[receipts[n].repo] : f.m = n /\ f.path = receipts[n].path
                        /\ artifacts[n] # NoArtifact =>
                             \E f \in remote'[artifacts[n].repo] :
                               f.m = n /\ f.version >= artifacts[n].version
                        /\ artifacts[n].version <= version[n]
      BY DEF PutCompanions, BooksInv
    <3>1. ASSUME receipts[n] # NoReceipt
          PROVE  \E f \in remote'[receipts[n].repo] : f.m = n /\ f.path = receipts[n].path
      <4>1. receipts[n].repo \in Repos
        BY <3>1 DEF TypeBooks
      <4>2. PICK f \in remote[receipts[n].repo] : f.m = n /\ f.path = receipts[n].path
        BY <3>1 DEF BooksInv
      <4>3. CASE f \in remote'[receipts[n].repo]
        BY <4>2, <4>3
      <4>4. CASE receipts[n].repo = repo /\ f.m = job[i].m /\ f.path = job[i].path
        <5>1. file \in remote'[receipts[n].repo] /\ file.m = n /\ file.path = receipts[n].path
          BY <2>3, <4>2, <4>4
        <5>2. QED
          BY <5>1
      <4>5. QED
        BY <2>4, <4>1, <4>2, <4>3, <4>4
    <3>2. ASSUME artifacts[n] # NoArtifact
          PROVE  \E f \in remote'[artifacts[n].repo] : f.m = n /\ f.version >= artifacts[n].version
      <4>1. artifacts[n].repo \in Repos /\ artifacts[n].version \in Nat
        BY <3>2 DEF TypeBooks
      <4>2. PICK f \in remote[artifacts[n].repo] : f.m = n /\ f.version >= artifacts[n].version
        BY <3>2 DEF BooksInv
      <4>3. CASE f \in remote'[artifacts[n].repo]
        BY <4>2, <4>3
      <4>4. CASE artifacts[n].repo = repo /\ f.m = job[i].m
        BY <1>2, <2>3, <4>1, <4>2, <4>4
      <4>5. QED
        BY <2>4, <4>1, <4>2, <4>3, <4>4
    <3>3. QED
      BY <3>1, <3>2 DEF BooksInv
  <2>10. NoPublicByAccident'
    BY <1>2, <2>3, MeetingFacts DEF PutCompanions, AckInv, NoPublicByAccident
  <2>11. TypeLibrary' /\ TypeBooks' /\ TypeJobs' /\ FreshInv'
    BY <1>1, <2>3 DEF PutCompanions, TypeLibrary, TypeOK, TypeBooks, TypeJobs, FreshInv
  <2>12. QED
    BY <2>5, <2>6, <2>7, <2>8, <2>9, <2>10, <2>11
<1>c. QED
  BY <1>a, <1>b

\* A call fails half-way: the push keeps its lock until it is released.
LEMMA PutFailedInv ==
  ASSUME ExportInv, NEW i \in Jobs, PutFailed(i)
  PROVE  ExportInv'
<1> USE DEF ExportInv, library, books, world, history
<1>1. /\ job' \in [Jobs -> Pushing]
      /\ job'[i].at = "release"
      /\ job'[i].m = job[i].m /\ job'[i].repo = job[i].repo /\ job'[i].ack = job[i].ack /\ job'[i].path = job[i].path /\ job'[i].version = job[i].version
      /\ \A k \in Jobs \ {i} : job'[k] = job[k]
  BY DEF PutFailed, TypeJobs, Pushing, Places, Claimed, Writing
<1>2. TypeJobs'
  BY <1>1 DEF PutFailed, TypeJobs
<1>3. ClaimInv'
  BY <1>1 DEF PutFailed, ClaimInv, Claimed
<1>4. LockInv'
  BY <1>1 DEF PutFailed, LockInv, Writing, Jobs
<1>5. LandedInv'
  BY <1>1 DEF PutFailed, LandedInv
<1>6. AckInv'
  BY <1>1 DEF PutFailed, AckInv
<1>7. TypeLibrary' /\ TypeBooks' /\ FreshInv' /\ BooksInv' /\ NoPublicByAccident'
  BY <1>1 DEF PutFailed, TypeLibrary, TypeOK, TypeBooks, FreshInv, BooksInv, NoPublicByAccident
<1>8. QED
  BY <1>2, <1>3, <1>4, <1>5, <1>6, <1>7

\* The receipts of a push that has landed are true when they are written.
LEMMA RecordPushInv ==
  ASSUME ExportInv, NEW i \in Jobs, RecordPush(i)
  PROVE  ExportInv'
<1> USE DEF ExportInv, library, books, world, history
<1>0. job' = [job EXCEPT ![i].at = "release", ![i].result = "ok"]
  BY DEF RecordPush
<1> DEFINE new == [job[i] EXCEPT !.at = "release", !.result = "ok"]
<1>a. new \in Pushing /\ job' = [job EXCEPT ![i] = new]
  <2>1. job[i] \in Pushing /\ job \in [Jobs -> Pushing]
    BY DEF TypeJobs
  <2>2. new \in Pushing
    BY <2>1 DEF Pushing, Places, Claimed
  <2>3. job' = [job EXCEPT ![i] = new]
    BY <1>0, <2>1
  <2>4. QED
    BY <2>2, <2>3
<1>b. /\ new.at = "release" /\ new.m = job[i].m /\ new.repo = job[i].repo
      /\ new.ack = job[i].ack /\ new.version = job[i].version
  BY DEF TypeJobs, Pushing
<1> HIDE DEF new
<1>1. /\ job' \in [Jobs -> Pushing]
      /\ job'[i].at = "release"
      /\ job'[i].m = job[i].m /\ job'[i].repo = job[i].repo /\ job'[i].ack = job[i].ack
      /\ job'[i].version = job[i].version
      /\ \A k \in Jobs \ {i} : job'[k] = job[k]
  BY <1>a, <1>b DEF TypeJobs
<1>2. /\ job[i].m \in Meetings /\ job[i].repo \in Repos /\ job[i].version \in Nat
      /\ job[i].path \in Nat /\ job[i].version <= version[job[i].m]
      /\ \E f \in remote[job[i].repo] :
           f.m = job[i].m /\ f.path = job[i].path /\ f.version >= job[i].version
  BY DEF RecordPush, ClaimInv, LandedInv, Claimed, TypeLibrary, TypeOK, TypeJobs, Pushing
<1>3. /\ artifacts'[job[i].m] = [repo |-> job[i].repo, version |-> job[i].version]
      /\ receipts'[job[i].m] = [repo |-> job[i].repo, path |-> job[i].path]
      /\ \A n \in Meetings \ {job[i].m} : artifacts'[n] = artifacts[n] /\ receipts'[n] = receipts[n]
  BY <1>2 DEF RecordPush, Pushed, TypeBooks
<1>4. TypeBooks'
  BY <1>2 DEF RecordPush, Pushed, TypeBooks
<1>5. ClaimInv'
  BY <1>1, <1>2, <1>3 DEF RecordPush, ClaimInv, Claimed, TypeLibrary, TypeOK
<1>6. LockInv' /\ LandedInv'
  BY <1>1 DEF RecordPush, LockInv, LandedInv, Writing
<1>7. AckInv'
  BY <1>1 DEF RecordPush, AckInv
<1>8. BooksInv'
  BY <1>2, <1>3 DEF RecordPush, BooksInv
<1>9. TypeLibrary' /\ TypeJobs' /\ FreshInv' /\ NoPublicByAccident'
  BY <1>1 DEF RecordPush, TypeLibrary, TypeOK, TypeJobs, FreshInv, NoPublicByAccident
<1>10. QED
  BY <1>4, <1>5, <1>6, <1>7, <1>8, <1>9

\* A receipt is refused by the library: what is written is still true.
LEMMA ReceiptLostInv ==
  ASSUME ExportInv, NEW i \in Jobs, ReceiptLost(i)
  PROVE  ExportInv'
<1> USE DEF ExportInv, library, books, world, history
<1>1. /\ job' \in [Jobs -> Pushing]
      /\ job'[i].at = "release"
      /\ job'[i].m = job[i].m /\ job'[i].repo = job[i].repo /\ job'[i].ack = job[i].ack
      /\ job'[i].version = job[i].version
      /\ \A k \in Jobs \ {i} : job'[k] = job[k]
  BY DEF ReceiptLost, TypeJobs, Pushing, Places, Claimed
<1>2. /\ job[i].m \in Meetings /\ job[i].repo \in Repos /\ job[i].version \in Nat
      /\ job[i].version <= version[job[i].m]
      /\ \E f \in remote[job[i].repo] :
           f.m = job[i].m /\ f.path = job[i].path /\ f.version >= job[i].version
  BY DEF ReceiptLost, ClaimInv, LandedInv, Claimed, TypeLibrary, TypeOK, TypeJobs, Pushing
<1>3. /\ artifacts'[job[i].m] \in {artifacts[job[i].m],
                                   [repo |-> job[i].repo, version |-> job[i].version]}
      /\ \A n \in Meetings \ {job[i].m} : artifacts'[n] = artifacts[n]
  BY <1>2 DEF ReceiptLost, Pushed, TypeBooks
<1>4. TypeBooks'
  <2>1. failed' \in [Meetings -> [failures : Nat, waiting : BOOLEAN]]
    BY <1>2, BackoffType DEF ReceiptLost, TypeBooks
  <2>2. artifacts' \in [Meetings -> [repo : Repos, version : Nat] \cup {NoArtifact}]
    BY <1>2 DEF ReceiptLost, Pushed, TypeBooks
  <2>3. QED
    BY <2>1, <2>2 DEF ReceiptLost, TypeBooks
<1>5. ClaimInv'
  BY <1>1, <1>2, <1>3 DEF ReceiptLost, ClaimInv, Claimed, TypeLibrary, TypeOK
<1>6. LockInv' /\ LandedInv'
  BY <1>1 DEF ReceiptLost, LockInv, LandedInv, Writing
<1>7. AckInv'
  BY <1>1 DEF ReceiptLost, AckInv
<1>8. BooksInv'
  BY <1>2, <1>3 DEF ReceiptLost, BooksInv
<1>9. TypeLibrary' /\ TypeJobs' /\ FreshInv' /\ NoPublicByAccident'
  BY <1>1 DEF ReceiptLost, TypeLibrary, TypeOK, TypeJobs, FreshInv, NoPublicByAccident
<1>10. QED
  BY <1>4, <1>5, <1>6, <1>7, <1>8, <1>9

\* Lock and claim are given back: nobody else was writing, or held this meeting.
LEMMA ReleaseInv ==
  ASSUME ExportInv, NEW i \in Jobs, Release(i)
  PROVE  ExportInv'
<1> USE DEF ExportInv, library, books, world, history
<1>1. /\ job' \in [Jobs -> Pushing]
      /\ job'[i].at = "settle"
      /\ job'[i].m = job[i].m /\ job'[i].repo = job[i].repo /\ job'[i].ack = job[i].ack /\ job'[i].path = job[i].path /\ job'[i].version = job[i].version
      /\ \A k \in Jobs \ {i} : job'[k] = job[k]
  BY DEF Release, TypeJobs, Pushing, Places, Claimed, Writing
<1>2. TypeLibrary'
  BY <1>1 DEF Release, TypeLibrary, TypeOK
<1>3. TypeJobs'
  BY <1>1 DEF Release, TypeJobs
<1>4. ClaimInv'
  BY <1>1 DEF Release, ClaimInv, Claimed
<1>5. LockInv'
  BY <1>1 DEF Release, LockInv, Writing, Jobs
<1>6. LandedInv'
  BY <1>1 DEF Release, LandedInv
<1>7. AckInv'
  BY <1>1 DEF Release, AckInv
<1>8. TypeBooks' /\ FreshInv' /\ BooksInv' /\ NoPublicByAccident'
  BY <1>1 DEF Release, TypeBooks, FreshInv, BooksInv, NoPublicByAccident
<1>9. QED
  BY <1>2, <1>3, <1>4, <1>5, <1>6, <1>7, <1>8

\* The outcome is kept, and the push is over.
LEMMA SettleInv ==
  ASSUME ExportInv, NEW i \in Jobs, Settle(i)
  PROVE  ExportInv'
<1> USE DEF ExportInv, library, books, world, history
<1>1. /\ job' \in [Jobs -> Pushing]
      /\ job'[i].at \in {"idle", "round", "bundle"} /\ ~job'[i].ack
      /\ \A k \in Jobs \ {i} : job'[k] = job[k]
  BY NoJobFacts DEF Settle, Returned, NoJob, TypeJobs, Pushing, Places
<1>2. TypeBooks'
  <2>1. CASE job[i].result = "own"
    <3>1. EnterBackoff(job[i].m)
      BY <2>1 DEF Settle
    <3>2. CASE job[i].m \in Meetings
      BY <3>1, <3>2, BackoffType DEF Settle, TypeBooks
    <3>3. CASE job[i].m \notin Meetings
      BY <3>1, <3>3 DEF EnterBackoff, Settle, TypeBooks
    <3>4. QED
      BY <3>2, <3>3
  <2>2. CASE job[i].result # "own"
    <3>1. \/ UNCHANGED failed
          \/ failed' = [failed EXCEPT ![job[i].m] = [failures |-> 0, waiting |-> FALSE]]
      BY <2>2 DEF Settle
    <3>2. failed' \in [Meetings -> [failures : Nat, waiting : BOOLEAN]]
      <4> DEFINE none == [failures |-> 0, waiting |-> FALSE]
      <4>1. none \in [failures : Nat, waiting : BOOLEAN]
        OBVIOUS
      <4>2. UNCHANGED failed \/ failed' = [failed EXCEPT ![job[i].m] = none]
        BY <3>1
      <4> HIDE DEF none
      <4>3. QED
        BY <4>1, <4>2 DEF TypeBooks
    <3>3. QED
      BY <3>2 DEF Settle, TypeBooks
  <2>3. QED
    BY <2>1, <2>2
<1>3. TypeJobs'
  BY <1>1 DEF Settle, TypeJobs
<1>4. ClaimInv' /\ LockInv' /\ LandedInv'
  BY <1>1 DEF Settle, ClaimInv, LockInv, LandedInv, Claimed, Writing
<1>5. AckInv'
  BY <1>1 DEF Settle, AckInv
<1>6. TypeLibrary' /\ FreshInv' /\ BooksInv' /\ NoPublicByAccident'
  BY <1>1 DEF Settle, TypeLibrary, TypeOK, FreshInv, BooksInv, NoPublicByAccident
<1>7. QED
  BY <1>2, <1>3, <1>4, <1>5, <1>6

\* The index's listing is read, with the settings of that moment.
LEMMA ReadBundleInv ==
  ASSUME ExportInv, NEW i \in Jobs, ReadBundle(i)
  PROVE  ExportInv'
<1> USE DEF ExportInv, library, books, world, history
<1>1. /\ job' \in [Jobs -> Pushing]
      /\ job'[i].at \in {"idle", "lockIndex"}
      /\ job'[i].ack => target.ack /\ job'[i].repo = target.repo
      /\ \A k \in Jobs \ {i} : job'[k] = job[k]
  BY DEF ReadBundle, Listing, NoJob, TypeLibrary, TypeOK, TypeJobs, Pushing, Places
<1>2. TypeJobs'
  BY <1>1 DEF ReadBundle, TypeJobs
<1>3. ClaimInv' /\ LockInv' /\ LandedInv'
  BY <1>1 DEF ReadBundle, ClaimInv, LockInv, LandedInv, Claimed, Writing
<1>4. AckInv'
  BY <1>1 DEF ReadBundle, AckInv
<1>5. TypeLibrary' /\ TypeBooks' /\ FreshInv' /\ BooksInv' /\ NoPublicByAccident'
  BY <1>1 DEF ReadBundle, TypeLibrary, TypeOK, TypeBooks, FreshInv, BooksInv, NoPublicByAccident
<1>6. QED
  BY <1>2, <1>3, <1>4, <1>5

\* The index is written, where it may be.
LEMMA WriteIndexInv ==
  ASSUME ExportInv, NEW i \in Jobs, WriteIndex(i)
  PROVE  ExportInv'
<1> USE DEF ExportInv, library, books, world, history
<1>1. /\ job' \in [Jobs -> Pushing]
      /\ job'[i].at = "idle" /\ ~job'[i].ack
      /\ \A k \in Jobs \ {i} : job'[k] = job[k]
  BY NoJobFacts DEF WriteIndex, NoJob, TypeJobs
<1>2. TypeLibrary'
  BY <1>1 DEF WriteIndex, TypeLibrary, TypeOK, TypeJobs, Pushing
<1>3. TypeJobs'
  BY <1>1 DEF WriteIndex, TypeJobs
<1>4. ClaimInv' /\ LockInv' /\ LandedInv'
  BY <1>1 DEF WriteIndex, ClaimInv, LockInv, LandedInv, Claimed, Writing
<1>5. AckInv'
  BY <1>1 DEF WriteIndex, AckInv
<1>6. NoPublicByAccident'
  BY <1>1, MeetingFacts DEF WriteIndex, MayWrite, NoPublicByAccident, AckInv, TypeLibrary, TypeOK, TypeJobs, Pushing
<1>7. TypeBooks' /\ FreshInv' /\ BooksInv'
  BY <1>1 DEF WriteIndex, TypeBooks, FreshInv, BooksInv
<1>8. QED
  BY <1>2, <1>3, <1>4, <1>5, <1>6, <1>7

\* The daemon restarts, perhaps between the two receipts of a push that landed.
LEMMA CrashInv ==
  ASSUME ExportInv, Crash
  PROVE  ExportInv'
<1> USE DEF ExportInv, library, books, world, history
<1>1. job' = [k \in Jobs |-> NoJob]
  BY DEF Crash
<1>2. \A k \in Jobs : job'[k].at = "idle" /\ ~job'[k].ack
  BY <1>1 DEF NoJob
<1>3. TypeJobs' /\ TypeLibrary'
  BY <1>1, NoJobFacts DEF Crash, TypeJobs, TypeLibrary, TypeOK
<1>4. ClaimInv' /\ LockInv' /\ LandedInv'
  BY <1>2 DEF ClaimInv, LockInv, LandedInv, Claimed, Writing
<1>5. AckInv' /\ FreshInv' /\ NoPublicByAccident'
  BY <1>2 DEF Crash, AckInv, FreshInv, NoPublicByAccident
<1>6. CASE UNCHANGED artifacts
  <2>1. TypeBooks' /\ BooksInv'
    BY <1>6 DEF Crash, TypeBooks, BooksInv
  <2>2. QED
    BY <1>3, <1>4, <1>5, <2>1
<1>7. ASSUME NEW i \in Jobs, job[i].at = "record",
             artifacts' = [artifacts EXCEPT ![job[i].m] = Pushed(i)]
      PROVE  ExportInv'
  <2>1. /\ job[i].m \in Meetings /\ job[i].repo \in Repos /\ job[i].version \in Nat
        /\ job[i].version <= version[job[i].m]
        /\ \E f \in remote[job[i].repo] : f.m = job[i].m /\ f.version >= job[i].version
    BY <1>7 DEF ClaimInv, LandedInv, Claimed, TypeLibrary, TypeOK, TypeJobs, Pushing
  <2>2. /\ artifacts'[job[i].m] = [repo |-> job[i].repo, version |-> job[i].version]
        /\ \A n \in Meetings \ {job[i].m} : artifacts'[n] = artifacts[n]
    BY <1>7, <2>1 DEF Pushed, TypeBooks
  <2>3. TypeBooks'
    BY <1>7, <2>1 DEF Crash, Pushed, TypeBooks
  <2>4. BooksInv'
    BY <2>1, <2>2 DEF Crash, BooksInv
  <2>5. QED
    BY <1>3, <1>4, <1>5, <2>3, <2>4
<1>8. QED
  BY <1>6, <1>7 DEF Crash

-----------------------------------------------------------------------------
(* The round.                                                              *)

\* A set of meetings that is not empty has an oldest.
LEMMA OldestExists ==
  ASSUME NEW S \in SUBSET Nat, S # {}
  PROVE  Min(S) \in S /\ \A n \in S : Min(S) <= n
<1>1. PICK m \in S : \A n \in S : ~(<<n, m>> \in OpToRel(<, Nat))
  BY NatLessThanWellFounded, WFMin
<1>2. \A n \in S : m <= n
  <2> SUFFICES ASSUME NEW n \in S, ~(m <= n) PROVE FALSE
    OBVIOUS
  <2> DEFINE pair == <<n, m>>
  <2>1. pair \in Nat \X Nat /\ pair[1] < pair[2]
    OBVIOUS
  <2>2. pair \in OpToRel(<, Nat)
    BY <2>1, Zenon DEF OpToRel
  <2>3. QED
    BY <1>1, <2>2
<1>3. QED
  BY <1>2 DEF Min

\* The round's candidates are meetings, whatever happens to it.
LEMMA RoundType == ExportInv /\ TypeRound /\ [Next]_vars => TypeRound'
<1> SUFFICES ASSUME ExportInv, TypeRound, [Next]_vars PROVE TypeRound'
  OBVIOUS
<1> USE DEF TypeRound
<1>0. NoRound \in [todo : SUBSET Meetings, landed : BOOLEAN, read : Settings,
                    owes : SUBSET Meetings]
  BY DEF NoRound, Unread, Settings
<1>a. CASE ReadScope
  <2>1. target \in Settings
    BY DEF ExportInv, TypeLibrary, TypeOK, Settings
  <2>2. QED
    BY <1>a, <2>1 DEF ReadScope
<1>1. CASE StartRound
  BY <1>0, <1>1 DEF StartRound, Oldest
<1>2. CASE PushNext
  BY <1>2 DEF PushNext
<1>3. CASE EndRound \/ Crash
  BY <1>0, <1>3 DEF EndRound, Crash
<1>4. ASSUME NEW j \in Jobs, Settle(j) PROVE TypeRound'
  BY <1>4 DEF Settle
<1>5. CASE UNCHANGED round
  BY <1>5
<1>6. QED
  BY <1>a, <1>1, <1>2, <1>3, <1>4, <1>5 DEF Next, Work, vars, Record, Environment, SetSettings, PressPush,
    Enrich, Change, WindowEnds, Preflight, Put, PutCompanions, PutFailed, RecordPush, ReceiptLost,
    Release, ReadBundle, WriteIndex

\* What the settings read put in scope is what they owed: meetings from the stamp
\* on were recorded since automatic mode was switched on, or are still to come.
LEMMA ScopeStep == ExportInv /\ TypeRound /\ ScopeInv /\ [Next]_vars => ScopeInv'
<1> SUFFICES ASSUME ExportInv, TypeRound, ScopeInv, [Next]_vars PROVE ScopeInv'
  OBVIOUS
<1> USE DEF Jobs
<1>0. \A k \in Jobs : job[k] \in Pushing /\ job \in [Jobs -> Pushing]
  BY DEF ExportInv, TypeJobs
<1>1. CASE ReadScope
  <2>1. round'.read = target
    BY <1>1 DEF ReadScope, TypeRound
  <2>2. round'.owes = {m \in Meetings : target.whole \/ m \in fresh \/ m > recorded}
    BY <1>1 DEF ReadScope, TypeRound
  <2>3. \A m \in Meetings : InScope(target, m) => target.whole \/ m \in fresh \/ m > recorded
    BY <1>1, MeetingFacts DEF ReadScope, InScope, ExportInv, FreshInv, TypeLibrary, TypeOK
  <2>4. QED
    BY <2>1, <2>2, <2>3 DEF ScopeInv, InScope
<1>2. CASE StartRound \/ EndRound \/ Crash
  <2>1. job'["worker"].at # "scan"
    BY <1>0, <1>2 DEF StartRound, EndRound, Crash, NoJob, Pushing
  <2>2. QED
    BY <2>1 DEF ScopeInv
<1>3. CASE PushNext
  <2>1. PICK m : Claim("worker", m) \/ Declined("worker", m) \/ Unreadable("worker", m)
    BY <1>3 DEF PushNext
  <2>2. job'["worker"].at # "scan"
    BY <1>0, <2>1 DEF Claim, Declined, Unreadable, Returned, NoJob
  <2>3. QED
    BY <2>2 DEF ScopeInv
<1>4. CASE PressPush
  <2>1. PICK m \in 1..recorded :
          Claim("button", m) \/ Declined("button", m) \/ Unreadable("button", m)
    BY <1>4 DEF PressPush
  <2>2. job'["worker"] = job["worker"]
    BY <1>0, <2>1 DEF Claim, Declined, Unreadable
  <2>3. QED
    BY <1>4, <2>2 DEF PressPush, ScopeInv, InScope
<1>5. ASSUME Work("worker") PROVE ScopeInv'
  <2>1. ASSUME Preflight("worker") PROVE job'["worker"].at # "scan"
    BY <1>0, <2>1 DEF Preflight, Pushing
  <2>2. ASSUME Put("worker") \/ PutCompanions("worker") PROVE job'["worker"].at # "scan"
    BY <1>0, <2>2 DEF Put, PutCompanions, Pushing
  <2>3. ASSUME PutFailed("worker") \/ Release("worker") PROVE job'["worker"].at # "scan"
    BY <1>0, <2>3 DEF PutFailed, Release, Pushing
  <2>4. ASSUME RecordPush("worker") \/ ReceiptLost("worker") PROVE job'["worker"].at # "scan"
    BY <1>0, <2>4 DEF RecordPush, ReceiptLost, Pushing
  <2>5. ASSUME Settle("worker") \/ ReadBundle("worker") \/ WriteIndex("worker")
        PROVE  job'["worker"].at # "scan"
    <3>1. CASE Settle("worker")
      <4>1. job' = [job EXCEPT !["worker"] = Returned("worker", job["worker"].result = "ok")]
        BY <3>1 DEF Settle
      <4>2. QED
        BY <1>0, <4>1 DEF Returned, NoJob
    <3>2. CASE ReadBundle("worker")
      BY <1>0, <3>2 DEF ReadBundle, NoJob
    <3>3. CASE WriteIndex("worker")
      BY <1>0, <3>3 DEF WriteIndex, NoJob
    <3>4. QED
      BY <2>5, <3>1, <3>2, <3>3
  <2>6. QED
    BY <1>5, <2>1, <2>2, <2>3, <2>4, <2>5 DEF Work, ScopeInv
<1>6. ASSUME Work("button") PROVE ScopeInv'
  <2>1. job'["worker"] = job["worker"] /\ UNCHANGED round
    BY <1>0, <1>6 DEF Work, Preflight, Put, PutCompanions, PutFailed, RecordPush, ReceiptLost,
      Release, Settle, ReadBundle, WriteIndex
  <2>2. QED
    BY <2>1 DEF ScopeInv, InScope
<1>7. CASE UNCHANGED <<job, round>>
  BY <1>7 DEF ScopeInv, InScope
<1>8. QED
  BY <1>1, <1>2, <1>3, <1>4, <1>5, <1>6, <1>7 DEF Next, vars, Record, Environment, SetSettings,
    Enrich, Change, WindowEnds

-----------------------------------------------------------------------------
(* The theorems.                                                           *)

\* Every step preserves the invariant.
LEMMA NextInv == ExportInv /\ TypeRound /\ [Next]_vars => ExportInv'
<1> SUFFICES ASSUME ExportInv, TypeRound, [Next]_vars PROVE ExportInv'
  OBVIOUS
<1>1. CASE Record \/ Environment \/ SetSettings \/ Crash
  BY <1>1, RecordInv, EnvironmentInv, SettingsInv, CrashInv
<1>2. CASE PressPush
  <2>1. PICK m \in 1..recorded : Claim("button", m) \/ Declined("button", m) \/ Unreadable("button", m)
    BY <1>2 DEF PressPush
  <2>2. m \in Meetings
    BY <2>1, MeetingFacts, ExportBounds DEF ExportInv, TypeLibrary, TypeOK
  <2>3. QED
    BY <1>2, <2>1, <2>2, ClaimedInv, DeclinedInv, UnreadableInv DEF PressPush, library, world, history, Jobs
<1>3. CASE PushNext
  <2>1. PICK m : m = Min(round.todo) /\ (Claim("worker", m) \/ Declined("worker", m) \/ Unreadable("worker", m))
    BY <1>3 DEF PushNext
  <2>2. m \in Meetings
    BY <1>3, <2>1, OldestExists, MeetingFacts DEF PushNext, TypeRound
  <2>3. QED
    BY <1>3, <2>1, <2>2, ClaimedInv, DeclinedInv, UnreadableInv DEF PushNext, library, world, history, Jobs
<1>4. CASE \E m \in Meetings : Enrich(m) \/ Change(m) \/ WindowEnds(m)
  BY <1>4, EnrichInv, ChangeInv, WindowInv
<1>5. CASE ReadScope \/ StartRound \/ EndRound
  BY <1>5, ReadScopeInv, StartRoundInv, EndRoundInv
<1>6. CASE \E j \in Jobs : Work(j)
  BY <1>6, PreflightInv, PutInv, PutCompanionsInv, PutFailedInv, RecordPushInv, ReceiptLostInv,
    ReleaseInv, SettleInv, ReadBundleInv, WriteIndexInv DEF Work
<1>7. CASE UNCHANGED vars
  BY <1>7 DEF vars, library, books, world, history, ExportInv, TypeLibrary, TypeOK, TypeBooks,
    TypeJobs, ClaimInv, LockInv, LandedInv, AckInv, FreshInv, BooksInv, NoPublicByAccident
<1>8. QED
  BY <1>1, <1>2, <1>3, <1>4, <1>5, <1>6, <1>7 DEF Next

\* ExportInv is an invariant of the export, whatever is saved, pressed, renamed,
\* summarised, broken or restarted while pushes are under way.
THEOREM ExportInvariance == Spec => [](ExportInv /\ TypeRound /\ ScopeInv)
<1>1. Init => TypeRound /\ ScopeInv
  BY DEF Init, TypeRound, ScopeInv, NoRound, Unread, Settings, NoJob, Jobs
<1>2. QED
  BY <1>1, InitInv, NextInv, RoundType, ScopeStep, PTL DEF Spec

\* The export's variables keep their types.
THEOREM ExportTypes == Spec => []TypeOK
<1>1. ExportInv => TypeOK
  BY DEF ExportInv, TypeLibrary
<1>2. QED
  BY <1>1, ExportInvariance, PTL

\* Receipts name transcripts that are there, companion receipts claim nothing newer
\* than the summary and document files beside them, and a meeting shown as synced has
\* the files of its newest version in the configured repository (push_claimed,
\* record_push, sync_status).
THEOREM ReceiptsAreTrue == Spec => []ReceiptIsTrue
<1>1. ExportInv => ReceiptIsTrue
  <2> SUFFICES ASSUME ExportInv, NEW m \in Meetings, SyncStatus(m) = "synced", version[m] > 0
               PROVE  \E f \in remote[target.repo] : f.m = m /\ f.version >= version[m]
    BY DEF ReceiptIsTrue, ExportInv, BooksInv, At
  <2>1. ~Changed(target.repo, m)
    BY DEF SyncStatus
  <2>2. artifacts[m] = [repo |-> target.repo, version |-> version[m]]
    BY <2>1 DEF Changed
  <2>3. artifacts[m] # NoArtifact
    BY <2>2 DEF NoArtifact
  <2>4. QED
    BY <2>2, <2>3 DEF ExportInv, BooksInv
<1>2. QED
  BY <1>1, ExportInvariance, PTL

\* Nothing reaches a repository GitHub does not confirm as private unless that
\* repository was itself named with the acknowledgement (preflight, push, sync_bundle).
THEOREM NothingPublicByAccident == Spec => []NoPublicByAccident
<1>1. ExportInv => NoPublicByAccident
  BY DEF ExportInv
<1>2. QED
  BY <1>1, ExportInvariance, PTL

\* A round takes only meetings the settings it read asked for (the whole library, or
\* those recorded since automatic mode was last switched on) and only once their
\* enrichment has ended, whatever is saved or recorded between its two readings
\* (worker_scope, export_ready, auto_push_pending).
THEOREM RoundsTakeOnlyOwed == Spec => RoundTakesOnlyOwed
<1> DEFINE Taken == round'.todo \ round.todo # {} =>
             \A m \in round'.todo :
               enriched[m] \in {"finished", "lost"} /\ m \in round.owes
<1>1. ASSUME ExportInv, TypeRound, ScopeInv, [Next]_vars PROVE Taken
  <2> USE <1>1 DEF TypeRound
  <2>1. CASE StartRound
    <3>1. \A m \in round'.todo : m \in Meetings /\ Owed(round.read, m)
      BY <2>1 DEF StartRound, Oldest, NoRound
    <3>2. \A m \in round'.todo : m \in round.owes
      BY <2>1, <3>1 DEF StartRound, Owed, ScopeInv
    <3>3. QED
      BY <3>1, <3>2 DEF Owed, ExportReady
  <2>2. CASE PushNext
    BY <2>2 DEF PushNext
  <2>3. CASE EndRound \/ Crash
    BY <2>3 DEF EndRound, Crash, NoRound
  <2>a. CASE ReadScope
    BY <2>a DEF ReadScope
  <2>4. ASSUME NEW j \in Jobs, Settle(j) PROVE Taken
    BY <2>4 DEF Settle
  <2>5. CASE UNCHANGED round
    BY <2>5
  <2>6. QED
    BY <2>1, <2>2, <2>3, <2>a, <2>4, <2>5 DEF Next, Work, vars, Record, Environment, SetSettings,
      PressPush, Enrich, Change, WindowEnds, Preflight, Put, PutCompanions, PutFailed, RecordPush,
      ReceiptLost, Release, ReadBundle, WriteIndex
<1>2. QED
  BY <1>1, ExportInvariance, PTL DEF Spec, RoundTakesOnlyOwed

=============================================================================
