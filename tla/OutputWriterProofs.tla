------------------------- MODULE OutputWriterProofs -------------------------
(***************************************************************************)
(* What holds of the writer for every set of paths, contents and requests, *)
(* every number of calls, crashes and edits, and any operation failing.    *)
(* First its types and that no output is torn; then why a failed call      *)
(* leaves everything as it was, and why the file it found at a path is     *)
(* never gone while the call can still be undone.  The invariant of that   *)
(* says, while a call is under way, what the plan says of each entry       *)
(* (PlanInv) and where the file that each path had before is to be found   *)
(* (UndoInv).                                                              *)
(*                                                                         *)
(* Last what a call has done when it returns: at most one file is ever     *)
(* taken away without a successor, the statuses of a call are what is on   *)
(* the disk when it returns, and the writer, step by step, is an           *)
(* AtomicPublish where nobody else edits the output files.  For these      *)
(* FlightInv adds what the published files are while they are taken back,  *)
(* ReportInv what the statuses given in CheckExistingOutputs say of the    *)
(* files found there, and StoreInv what an undo would put back             *)
(* (LogicalIsBefore), also after an undo of which a step has failed.       *)
(***************************************************************************)
EXTENDS OutputWriter, TLAPS

(* The phases in which the loop stands at an entry of the plan that is to be
   published.                                                              *)
AtEntry == {"write", "inspect", "rename", "restore"}

(* Phases after a plan without diagnostics: paths are accepted and distinct. *)
PlanOK ==
  /\ \A k \in Idx : PathOf(k) \in Paths
  /\ \A j, k \in Idx : PathOf(j) = PathOf(k) => j = k

IndexInv ==
  /\ pc \in AtEntry => i \in publish
  /\ pc \in {"check", "stage", "publish"} => i \in 1 .. Len(req.files) + 1
  /\ pc \in {"root", "parents"} => i = 1
  /\ pc = "rollback" => i \in 0 .. Len(req.files)
  /\ pc \notin Resting => PlanOK

TypeInv == TypeOK /\ IndexInv

LEMMA RequestFacts ==
  ASSUME NEW r \in Request
  PROVE  /\ r.files \in Seq(File)
         /\ Len(r.files) \in Nat
         /\ DOMAIN r.files = 1 .. Len(r.files)
         /\ \A k \in DOMAIN r.files :
              /\ r.files[k].path \in Paths \union {BadPath}
              /\ r.files[k].class \in Classes \union {NoClass}
              /\ r.files[k].content \in Contents
         /\ r.overwrite \in BOOLEAN
         /\ r.dry_run \in BOOLEAN
<1>1. /\ r.files \in Seq(File)
      /\ r.overwrite \in BOOLEAN
      /\ r.dry_run \in BOOLEAN
  BY DEF Request
<1>2. Len(r.files) \in Nat /\ DOMAIN r.files = 1 .. Len(r.files)
  BY <1>1
<1>3. \A k \in DOMAIN r.files : r.files[k] \in File
  BY <1>1
<1>. QED
  BY <1>1, <1>2, <1>3 DEF File

(* A plan without diagnostics has accepted and distinct paths. *)
LEMMA AcceptedPlan ==
  ASSUME NEW r \in Request, PathDiags(r) = {}
  PROVE  /\ \A k \in DOMAIN r.files : r.files[k].path \in Paths
         /\ \A j, k \in DOMAIN r.files :
              r.files[j].path = r.files[k].path => j = k
<1>1. \A k \in DOMAIN r.files : ~Rejected(r.files, k)
  BY DEF PathDiags
<1>2. \A k \in DOMAIN r.files : r.files[k].path \in Paths
  BY <1>1, RequestFacts DEF Rejected
<1>3. ASSUME NEW j \in DOMAIN r.files, NEW k \in DOMAIN r.files, j < k,
             r.files[j].path = r.files[k].path
      PROVE  FALSE
  <2>1. j \in 1 .. k - 1
    BY <1>3, RequestFacts
  <2>. QED
    BY <1>1, <1>3, <2>1 DEF Rejected
<1>4. \A j, k \in DOMAIN r.files : r.files[j].path = r.files[k].path => j = k
  BY <1>3, RequestFacts
<1>. QED
  BY <1>2, <1>4

-----------------------------------------------------------------------------
(* Type correctness: the state keeps its shape, in every phase that is at an
   entry the loop index is that of an entry to be published, and a plan that
   is carried out has accepted and distinct paths.                          *)

LEMMA InitTypeInv == Init => TypeInv
<1>. SUFFICES ASSUME Init PROVE TypeInv
  OBVIOUS
<1>1. req = [files |-> <<>>, overwrite |-> FALSE, dry_run |-> FALSE]
  BY DEF Init
<1>2. req \in Request /\ Idx = {} /\ Len(req.files) = 0
  <2>1. <<>> \in Seq(File) /\ DOMAIN <<>> = {} /\ Len(<<>>) = 0
    OBVIOUS
  <2>. QED
    BY <1>1, <2>1 DEF Request, Idx
<1>3. status \in [Idx -> Status]
  BY <1>2 DEF Init
<1>. QED
  BY <1>2, <1>3, BoundsNatural DEF Init, TypeInv, TypeOK, IndexInv, Phases, Resting,
     AtEntry, Values, Codes

LEMMA PlanFrame ==
  ASSUME UNCHANGED req
  PROVE  Idx' = Idx /\ PlanOK' = PlanOK
BY DEF PlanOK, Idx, PathOf

LEMMA TypeInvStep == TypeInv /\ [Next]_vars => TypeInv'
<1>. SUFFICES ASSUME TypeInv, [Next]_vars PROVE TypeInv'
  OBVIOUS
<1>. USE DEF Phases, Resting, AtEntry, Status, Codes, argVars, planVars, fsVars,
         histVars, counters, resVars
<1>0. /\ Len(req.files) \in Nat
      /\ Idx = 1 .. Len(req.files)
      /\ \A k \in Idx : /\ req.files[k].class \in Classes \union {NoClass}
                        /\ ContentOf(k) \in Contents
  BY RequestFacts DEF TypeInv, TypeOK, Idx, ContentOf
<1>1. CASE CreateOutputRoot
  <2>. USE <1>0, <1>1 DEF CreateOutputRoot, Report
  <2>1. UNCHANGED req
    OBVIOUS
  <2>2. TypeOK'
    <3>1. pc' \in Phases /\ i' \in 0 .. Len(req.files) + 1
      BY DEF TypeInv, TypeOK, IndexInv
    <3>2. status' \in [Idx -> Status] /\ diags' \subseteq Codes
      BY DEF TypeInv, TypeOK
    <3>3. /\ out' \in [Paths -> Values] /\ staged' \in [Paths -> Values]
          /\ backup' \in [Paths -> Values]
      BY DEF TypeInv, TypeOK, IndexInv, PlanOK, Values
    <3>4. backedUp' \subseteq Idx /\ published' \subseteq Idx
      BY DEF TypeInv, TypeOK, IndexInv
    <3>5. crashes' \in 0 .. MaxCrashes
      BY BoundsNatural DEF TypeInv, TypeOK
    <3>. QED
      BY <2>1, <3>1, <3>2, <3>3, <3>4, <3>5, PlanFrame DEF TypeInv, TypeOK
  <2>3. IndexInv'
    BY <2>1, PlanFrame DEF TypeInv, TypeOK, IndexInv
  <2>. QED
    BY <2>2, <2>3 DEF TypeInv
<1>2. CASE PrepareOutputParents
  <2>. USE <1>0, <1>2 DEF PrepareOutputParents, MarkPublishEntriesFailed
  <2>1. UNCHANGED req
    OBVIOUS
  <2>2. TypeOK'
    BY <2>1, PlanFrame DEF TypeInv, TypeOK, IndexInv, Values
  <2>3. IndexInv'
    BY <2>1, PlanFrame DEF TypeInv, TypeOK, IndexInv
  <2>. QED
    BY <2>2, <2>3 DEF TypeInv
<1>3. CASE CheckAbsent
  <2>. USE <1>0, <1>3 DEF CheckAbsent, Checking, CheckDone
  <2>1. UNCHANGED req
    OBVIOUS
  <2>2. TypeOK'
    BY <2>1, PlanFrame DEF TypeInv, TypeOK, IndexInv, Values
  <2>3. IndexInv'
    BY <2>1, PlanFrame DEF TypeInv, TypeOK, IndexInv
  <2>. QED
    BY <2>2, <2>3 DEF TypeInv
<1>4. CASE CheckConflict
  <2>. USE <1>0, <1>4 DEF CheckConflict, Checking, CheckDone, BlockedWith
  <2>1. UNCHANGED req
    OBVIOUS
  <2>2. TypeOK'
    BY <2>1, PlanFrame DEF TypeInv, TypeOK, IndexInv, Values
  <2>3. IndexInv'
    BY <2>1, PlanFrame DEF TypeInv, TypeOK, IndexInv
  <2>. QED
    BY <2>2, <2>3 DEF TypeInv
<1>5. CASE CheckUnchanged
  <2>. USE <1>0, <1>5 DEF CheckUnchanged, Checking, CheckDone
  <2>1. UNCHANGED req
    OBVIOUS
  <2>2. TypeOK'
    BY <2>1, PlanFrame DEF TypeInv, TypeOK, IndexInv, Values
  <2>3. IndexInv'
    BY <2>1, PlanFrame DEF TypeInv, TypeOK, IndexInv
  <2>. QED
    BY <2>2, <2>3 DEF TypeInv
<1>6. CASE CheckSkipped
  <2>. USE <1>0, <1>6 DEF CheckSkipped, Checking, CheckDone, BlockedWith
  <2>1. UNCHANGED req
    OBVIOUS
  <2>2. TypeOK'
    BY <2>1, PlanFrame DEF TypeInv, TypeOK, IndexInv, Values
  <2>3. IndexInv'
    BY <2>1, PlanFrame DEF TypeInv, TypeOK, IndexInv
  <2>. QED
    BY <2>2, <2>3 DEF TypeInv
<1>7. CASE CheckOverwrite
  <2>. USE <1>0, <1>7 DEF CheckOverwrite, Checking, CheckDone, BlockedWith
  <2>1. UNCHANGED req
    OBVIOUS
  <2>2. TypeOK'
    BY <2>1, PlanFrame DEF TypeInv, TypeOK, IndexInv, Values
  <2>3. IndexInv'
    BY <2>1, PlanFrame DEF TypeInv, TypeOK, IndexInv
  <2>. QED
    BY <2>2, <2>3 DEF TypeInv
<1>8. CASE FinishCheck
  <2>. USE <1>0, <1>8 DEF FinishCheck, InBlockedClass
  <2>1. UNCHANGED req
    OBVIOUS
  <2>2. TypeOK'
    BY <2>1, PlanFrame DEF TypeInv, TypeOK, IndexInv, Values
  <2>3. IndexInv'
    BY <2>1, PlanFrame DEF TypeInv, TypeOK, IndexInv
  <2>. QED
    BY <2>2, <2>3 DEF TypeInv
<1>9. CASE PrepareStagingRoot
  <2>. USE <1>0, <1>9 DEF PrepareStagingRoot, MarkPublishEntriesFailed, StagingRemoved, StagingPartlyRemoved, Kept, Occupied, Report
  <2>1. UNCHANGED req
    OBVIOUS
  <2>2. TypeOK'
    <3>1. pc' \in Phases /\ i' \in 0 .. Len(req.files) + 1
      BY DEF TypeInv, TypeOK, IndexInv
    <3>2. status' \in [Idx -> Status] /\ diags' \subseteq Codes
      BY DEF TypeInv, TypeOK
    <3>3. /\ out' \in [Paths -> Values] /\ staged' \in [Paths -> Values]
          /\ backup' \in [Paths -> Values]
      BY DEF TypeInv, TypeOK, IndexInv, PlanOK, Values
    <3>4. backedUp' \subseteq Idx /\ published' \subseteq Idx
      BY DEF TypeInv, TypeOK, IndexInv
    <3>5. crashes' \in 0 .. MaxCrashes
      BY BoundsNatural DEF TypeInv, TypeOK
    <3>. QED
      BY <2>1, <3>1, <3>2, <3>3, <3>4, <3>5, PlanFrame DEF TypeInv, TypeOK
  <2>3. IndexInv'
    BY <2>1, PlanFrame DEF TypeInv, TypeOK, IndexInv
  <2>. QED
    BY <2>2, <2>3 DEF TypeInv
<1>10. CASE SkipForward
  <2>. USE <1>0, <1>10 DEF SkipForward
  <2>1. UNCHANGED req
    OBVIOUS
  <2>2. TypeOK'
    BY <2>1, PlanFrame DEF TypeInv, TypeOK, IndexInv, Values
  <2>3. IndexInv'
    BY <2>1, PlanFrame DEF TypeInv, TypeOK, IndexInv
  <2>. QED
    BY <2>2, <2>3 DEF TypeInv
<1>11. CASE OpenStaged
  <2>. USE <1>0, <1>11 DEF OpenStaged, Report
  <2>1. UNCHANGED req
    OBVIOUS
  <2>2. TypeOK'
    <3>1. pc' \in Phases /\ i' \in 0 .. Len(req.files) + 1
      BY DEF TypeInv, TypeOK, IndexInv
    <3>2. status' \in [Idx -> Status] /\ diags' \subseteq Codes
      BY DEF TypeInv, TypeOK
    <3>3. /\ out' \in [Paths -> Values] /\ staged' \in [Paths -> Values]
          /\ backup' \in [Paths -> Values]
      BY DEF TypeInv, TypeOK, IndexInv, PlanOK, Values
    <3>4. backedUp' \subseteq Idx /\ published' \subseteq Idx
      BY DEF TypeInv, TypeOK, IndexInv
    <3>5. crashes' \in 0 .. MaxCrashes
      BY BoundsNatural DEF TypeInv, TypeOK
    <3>. QED
      BY <2>1, <3>1, <3>2, <3>3, <3>4, <3>5, PlanFrame DEF TypeInv, TypeOK
  <2>3. IndexInv'
    BY <2>1, PlanFrame DEF TypeInv, TypeOK, IndexInv
  <2>. QED
    BY <2>2, <2>3 DEF TypeInv
<1>12. CASE WriteStaged
  <2>. USE <1>0, <1>12 DEF WriteStaged, Report
  <2>1. UNCHANGED req
    OBVIOUS
  <2>2. TypeOK'
    <3>1. pc' \in Phases /\ i' \in 0 .. Len(req.files) + 1
      BY DEF TypeInv, TypeOK, IndexInv
    <3>2. status' \in [Idx -> Status] /\ diags' \subseteq Codes
      BY DEF TypeInv, TypeOK
    <3>3. /\ out' \in [Paths -> Values] /\ staged' \in [Paths -> Values]
          /\ backup' \in [Paths -> Values]
      BY DEF TypeInv, TypeOK, IndexInv, PlanOK, Values
    <3>4. backedUp' \subseteq Idx /\ published' \subseteq Idx
      BY DEF TypeInv, TypeOK, IndexInv
    <3>5. crashes' \in 0 .. MaxCrashes
      BY BoundsNatural DEF TypeInv, TypeOK
    <3>. QED
      BY <2>1, <3>1, <3>2, <3>3, <3>4, <3>5, PlanFrame DEF TypeInv, TypeOK
  <2>3. IndexInv'
    BY <2>1, PlanFrame DEF TypeInv, TypeOK, IndexInv
  <2>. QED
    BY <2>2, <2>3 DEF TypeInv
<1>13. CASE FinishStage
  <2>. USE <1>0, <1>13 DEF FinishStage, MarkPublishEntriesFailed, RemoveStagingRoot, StagingPartlyRemoved, Kept, Occupied
  <2>1. UNCHANGED req
    OBVIOUS
  <2>2. TypeOK'
    BY <2>1, PlanFrame DEF TypeInv, TypeOK, IndexInv, Values
  <2>3. IndexInv'
    BY <2>1, PlanFrame DEF TypeInv, TypeOK, IndexInv
  <2>. QED
    BY <2>2, <2>3 DEF TypeInv
<1>14. CASE BackupExisting
  <2>. USE <1>0, <1>14 DEF BackupExisting, FailPublish, Report, MarkPublishEntriesFailed
  <2>1. UNCHANGED req
    OBVIOUS
  <2>2. TypeOK'
    <3>1. pc' \in Phases /\ i' \in 0 .. Len(req.files) + 1
      BY DEF TypeInv, TypeOK, IndexInv
    <3>2. status' \in [Idx -> Status] /\ diags' \subseteq Codes
      BY DEF TypeInv, TypeOK
    <3>3. /\ out' \in [Paths -> Values] /\ staged' \in [Paths -> Values]
          /\ backup' \in [Paths -> Values]
      BY DEF TypeInv, TypeOK, IndexInv, PlanOK, Values
    <3>4. backedUp' \subseteq Idx /\ published' \subseteq Idx
      BY DEF TypeInv, TypeOK, IndexInv
    <3>5. crashes' \in 0 .. MaxCrashes
      BY BoundsNatural DEF TypeInv, TypeOK
    <3>. QED
      BY <2>1, <3>1, <3>2, <3>3, <3>4, <3>5, PlanFrame DEF TypeInv, TypeOK
  <2>3. IndexInv'
    BY <2>1, PlanFrame DEF TypeInv, TypeOK, IndexInv
  <2>. QED
    BY <2>2, <2>3 DEF TypeInv
<1>15. CASE OutputPathStillPublishable
  <2>. USE <1>0, <1>15 DEF OutputPathStillPublishable, AtInspection, FailPublish, Report, MarkPublishEntriesFailed
  <2>1. UNCHANGED req
    OBVIOUS
  <2>2. TypeOK'
    <3>1. pc' \in Phases /\ i' \in 0 .. Len(req.files) + 1
      BY DEF TypeInv, TypeOK, IndexInv
    <3>2. status' \in [Idx -> Status] /\ diags' \subseteq Codes
      BY DEF TypeInv, TypeOK
    <3>3. /\ out' \in [Paths -> Values] /\ staged' \in [Paths -> Values]
          /\ backup' \in [Paths -> Values]
      BY DEF TypeInv, TypeOK, IndexInv, PlanOK, Values
    <3>4. backedUp' \subseteq Idx /\ published' \subseteq Idx
      BY DEF TypeInv, TypeOK, IndexInv
    <3>5. crashes' \in 0 .. MaxCrashes
      BY BoundsNatural DEF TypeInv, TypeOK
    <3>. QED
      BY <2>1, <3>1, <3>2, <3>3, <3>4, <3>5, PlanFrame DEF TypeInv, TypeOK
  <2>3. IndexInv'
    BY <2>1, PlanFrame DEF TypeInv, TypeOK, IndexInv
  <2>. QED
    BY <2>2, <2>3 DEF TypeInv
<1>16. CASE RenameStaged
  <2>. USE <1>0, <1>16 DEF RenameStaged, FailPublish, Report, MarkPublishEntriesFailed
  <2>1. UNCHANGED req
    OBVIOUS
  <2>2. TypeOK'
    <3>1. pc' \in Phases /\ i' \in 0 .. Len(req.files) + 1
      BY DEF TypeInv, TypeOK, IndexInv
    <3>2. status' \in [Idx -> Status] /\ diags' \subseteq Codes
      BY DEF TypeInv, TypeOK
    <3>3. /\ out' \in [Paths -> Values] /\ staged' \in [Paths -> Values]
          /\ backup' \in [Paths -> Values]
      BY DEF TypeInv, TypeOK, IndexInv, PlanOK, Values
    <3>4. backedUp' \subseteq Idx /\ published' \subseteq Idx
      BY DEF TypeInv, TypeOK, IndexInv
    <3>5. crashes' \in 0 .. MaxCrashes
      BY BoundsNatural DEF TypeInv, TypeOK
    <3>. QED
      BY <2>1, <3>1, <3>2, <3>3, <3>4, <3>5, PlanFrame DEF TypeInv, TypeOK
  <2>3. IndexInv'
    BY <2>1, PlanFrame DEF TypeInv, TypeOK, IndexInv
  <2>. QED
    BY <2>2, <2>3 DEF TypeInv
<1>17. CASE FinishPublish
  <2>. USE <1>0, <1>17 DEF FinishPublish, RemoveStagingRoot, StagingPartlyRemoved, Kept, Occupied
  <2>1. UNCHANGED req
    OBVIOUS
  <2>2. TypeOK'
    BY <2>1, PlanFrame DEF TypeInv, TypeOK, IndexInv, Values
  <2>3. IndexInv'
    BY <2>1, PlanFrame DEF TypeInv, TypeOK, IndexInv
  <2>. QED
    BY <2>2, <2>3 DEF TypeInv
<1>18. CASE SkipBack
  <2>. USE <1>0, <1>18 DEF SkipBack
  <2>1. UNCHANGED req
    OBVIOUS
  <2>2. TypeOK'
    BY <2>1, PlanFrame DEF TypeInv, TypeOK, IndexInv, Values
  <2>3. IndexInv'
    BY <2>1, PlanFrame DEF TypeInv, TypeOK, IndexInv
  <2>. QED
    BY <2>2, <2>3 DEF TypeInv
<1>19. CASE RollbackRemove
  <2>. USE <1>0, <1>19 DEF RollbackRemove, Report
  <2>1. UNCHANGED req
    OBVIOUS
  <2>2. TypeOK'
    BY <2>1, PlanFrame DEF TypeInv, TypeOK, IndexInv, Values
  <2>3. IndexInv'
    BY <2>1, PlanFrame DEF TypeInv, TypeOK, IndexInv
  <2>. QED
    BY <2>2, <2>3 DEF TypeInv
<1>20. CASE RollbackRestore
  <2>. USE <1>0, <1>20 DEF RollbackRestore, Report
  <2>1. UNCHANGED req
    OBVIOUS
  <2>2. TypeOK'
    <3>1. pc' \in Phases /\ i' \in 0 .. Len(req.files) + 1
      BY DEF TypeInv, TypeOK, IndexInv
    <3>2. status' \in [Idx -> Status] /\ diags' \subseteq Codes
      BY DEF TypeInv, TypeOK
    <3>3. /\ out' \in [Paths -> Values] /\ staged' \in [Paths -> Values]
          /\ backup' \in [Paths -> Values]
      BY DEF TypeInv, TypeOK, IndexInv, PlanOK, Values
    <3>4. backedUp' \subseteq Idx /\ published' \subseteq Idx
      BY DEF TypeInv, TypeOK, IndexInv
    <3>5. crashes' \in 0 .. MaxCrashes
      BY BoundsNatural DEF TypeInv, TypeOK
    <3>. QED
      BY <2>1, <3>1, <3>2, <3>3, <3>4, <3>5, PlanFrame DEF TypeInv, TypeOK
  <2>3. IndexInv'
    BY <2>1, PlanFrame DEF TypeInv, TypeOK, IndexInv
  <2>. QED
    BY <2>2, <2>3 DEF TypeInv
<1>21. CASE FinishRollback
  <2>. USE <1>0, <1>21 DEF FinishRollback, RemoveStagingRoot, StagingPartlyRemoved, Kept, Occupied
  <2>1. UNCHANGED req
    OBVIOUS
  <2>2. TypeOK'
    BY <2>1, PlanFrame DEF TypeInv, TypeOK, IndexInv, Values
  <2>3. IndexInv'
    BY <2>1, PlanFrame DEF TypeInv, TypeOK, IndexInv
  <2>. QED
    BY <2>2, <2>3 DEF TypeInv
<1>22. CASE Crash
  <2>. USE <1>0, <1>22 DEF Crash
  <2>1. UNCHANGED req
    OBVIOUS
  <2>2. TypeOK'
    <3>1. pc' \in Phases /\ i' \in 0 .. Len(req.files) + 1
      BY DEF TypeInv, TypeOK, IndexInv
    <3>2. status' \in [Idx -> Status] /\ diags' \subseteq Codes
      BY DEF TypeInv, TypeOK
    <3>3. /\ out' \in [Paths -> Values] /\ staged' \in [Paths -> Values]
          /\ backup' \in [Paths -> Values]
      BY DEF TypeInv, TypeOK, IndexInv, PlanOK, Values
    <3>4. backedUp' \subseteq Idx /\ published' \subseteq Idx
      BY DEF TypeInv, TypeOK, IndexInv
    <3>5. crashes' \in 0 .. MaxCrashes
      BY BoundsNatural DEF TypeInv, TypeOK
    <3>. QED
      BY <2>1, <3>1, <3>2, <3>3, <3>4, <3>5, PlanFrame DEF TypeInv, TypeOK
  <2>3. IndexInv'
    BY <2>1, PlanFrame DEF TypeInv, TypeOK, IndexInv
  <2>. QED
    BY <2>2, <2>3 DEF TypeInv
<1>23. ASSUME NEW r \in Requests, Start(r) \/ StartWithoutRoot(r)
      PROVE  TypeInv'
  <2>1. r \in Request /\ req' = r /\ Idx' = DOMAIN r.files
    BY <1>23, RequestsWellFormed DEF Start, StartWithoutRoot, Begin, Idx
  <2>2. status' \in [DOMAIN r.files -> Status] /\ diags' \subseteq Codes
    BY <1>23 DEF Start, StartWithoutRoot, PlannedStatus, PathDiags
  <2>3. pc' \in {"done", "root"} /\ (pc' = "root" => PathDiags(r) = {})
    BY <1>23 DEF Start, StartWithoutRoot
  <2>4. TypeOK'
    BY <1>23, <2>1, <2>2, <2>3, RequestFacts, BoundsNatural
       DEF Start, StartWithoutRoot, Begin, TypeInv, TypeOK, Values
  <2>5. pc' = "root" => PlanOK'
    BY <2>1, <2>3, AcceptedPlan DEF PlanOK, PathOf
  <2>6. IndexInv'
    BY <1>23, <2>3, <2>5 DEF Start, StartWithoutRoot, Begin, IndexInv
  <2>. QED
    BY <2>4, <2>6 DEF TypeInv
<1>24. ASSUME NEW p \in Paths, NEW c \in Contents \union {Absent, Odd}, Edit(p, c)
      PROVE  TypeInv'
  <2>1. TypeOK'
    BY <1>0, <1>24, PlanFrame, BoundsNatural DEF Edit, TypeInv, TypeOK, Values
  <2>2. IndexInv'
    BY <1>0, <1>24, PlanFrame DEF Edit, TypeInv, IndexInv
  <2>. QED
    BY <2>1, <2>2 DEF TypeInv
<1>25. CASE UNCHANGED vars
  BY <1>25, PlanFrame DEF vars, TypeInv, TypeOK, IndexInv
<1>. QED
  BY <1>1, <1>2, <1>3, <1>4, <1>5, <1>6, <1>7, <1>8, <1>9, <1>10, <1>11, <1>12, <1>13, <1>14, <1>15, <1>16, <1>17, <1>18, <1>19, <1>20, <1>21, <1>22, <1>23, <1>24, <1>25
     DEF Next, WriterStep, CheckExistingOutputs
LEMMA TypeInvariant == Spec => []TypeInv
<1>1. Init => TypeInv
  BY InitTypeInv
<1>2. TypeInv /\ [Next]_vars => TypeInv'
  BY TypeInvStep
<1>. QED
  BY <1>1, <1>2, PTL DEF Spec

(* Every reachable state has the shape TypeOK gives it, whatever the requests
   of WriteGeneratedFiles are and however its operations fail.              *)
THEOREM TypeCorrect == Spec => []TypeOK
<1>1. TypeInv => TypeOK
  BY DEF TypeInv
<1>. QED
  BY <1>1, TypeInvariant, PTL

-----------------------------------------------------------------------------
(* No torn output.  The inductive invariant says where complete contents are:
   in the part of the staging directory that has been written while nothing
   has failed, and in the part that has not been published yet.             *)

TornInv ==
  /\ \A p \in Paths : out[p] # Torn /\ backup[p] # Torn
  /\ pc \in {"stage", "write"} /\ ok =>
       \A k \in publish : k < i => staged[PathOf(k)] = ContentOf(k)
  /\ pc \in {"publish", "inspect", "rename"} =>
       \A k \in publish : k >= i => staged[PathOf(k)] = ContentOf(k)

LEMMA ContentsAreComplete ==
  ASSUME TypeOK, NEW k \in Idx
  PROVE  ContentOf(k) \in Contents /\ ContentOf(k) # Torn /\ ContentOf(k) # Absent
BY RequestFacts, MarkersDistinct DEF TypeOK, Idx, ContentOf

LEMMA InitTornInv == Init => TornInv
BY MarkersDistinct DEF Init, TornInv

LEMMA TornInvStep == TypeInv /\ TornInv /\ [Next]_vars => TornInv'
<1>. SUFFICES ASSUME TypeInv, TornInv, [Next]_vars PROVE TornInv'
  OBVIOUS
<1>. USE DEF Resting, AtEntry, argVars, planVars, fsVars, histVars, counters, resVars
<1>0. /\ Len(req.files) \in Nat
      /\ Idx = 1 .. Len(req.files)
      /\ publish \subseteq Idx
      /\ i \in Int
      /\ \A k \in Idx : ContentOf(k) \in Contents /\ ContentOf(k) # Torn
      /\ out \in [Paths -> Values] /\ staged \in [Paths -> Values]
      /\ backup \in [Paths -> Values]
  BY RequestFacts, ContentsAreComplete DEF TypeInv, TypeOK, Idx
<1>1. ASSUME UNCHANGED req
      PROVE  \A k : PathOf(k)' = PathOf(k) /\ ContentOf(k)' = ContentOf(k)
  BY <1>1 DEF PathOf, ContentOf
<1>2. Absent # Torn /\ Odd # Torn /\ Torn \notin Contents
  BY MarkersDistinct
<1>3. /\ pc \notin Resting => \A k \in Idx : PathOf(k) \in Paths
      /\ pc \notin Resting => \A j, k \in Idx : PathOf(j) = PathOf(k) => j = k
      /\ pc \in AtEntry => i \in publish
      /\ pc \in {"stage", "publish"} => i \in 1 .. Len(req.files) + 1
  BY DEF TypeInv, IndexInv, PlanOK
(* Steps that neither stage nor publish anything. *)
<1>4. ASSUME UNCHANGED <<out, backup>>,
             pc' \notin {"stage", "write", "publish", "inspect", "rename"}
      PROVE  TornInv'
  BY <1>4 DEF TornInv
<1>5. CASE CreateOutputRoot \/ PrepareOutputParents \/ FinishCheck
  BY <1>4, <1>5 DEF CreateOutputRoot, PrepareOutputParents, FinishCheck
<1>6. CASE CheckExistingOutputs
  <2>1. pc' = "check" /\ UNCHANGED <<out, backup>>
    BY <1>6 DEF CheckExistingOutputs, CheckAbsent, CheckConflict, CheckUnchanged,
       CheckSkipped, CheckOverwrite, Checking, CheckDone
  <2>. QED
    BY <2>1, <1>4
<1>7. CASE PrepareStagingRoot
  <2>1. \A p \in Paths : out'[p] # Torn /\ backup'[p] # Torn
    BY <1>2, <1>7 DEF PrepareStagingRoot, StagingRemoved, StagingPartlyRemoved,
       Kept, TornInv
  <2>2. pc' \in {"stage", "done"} /\ (pc' = "stage" => i' = 1) /\ publish' = publish
    BY <1>7 DEF PrepareStagingRoot
  <2>. QED
    BY <1>0, <2>1, <2>2 DEF TornInv
<1>8. CASE SkipForward
  <2>1. UNCHANGED <<pc, req, publish, out, staged, backup, diags>> /\ i \notin publish
        /\ i' = i + 1
    BY <1>8 DEF SkipForward
  <2>. QED
    BY <1>0, <1>1, <2>1 DEF TornInv, ok
<1>9. CASE OpenStaged
  <2>1. /\ UNCHANGED <<req, publish, out, backup>>
        /\ pc = "stage" /\ pc' \in {"stage", "write"} /\ i \in publish
    BY <1>9 DEF OpenStaged
  <2>2. \/ diags' # {}
        \/ diags' = diags /\ i' = i /\ staged' = [staged EXCEPT ![PathOf(i)] = Torn]
    BY <1>9 DEF OpenStaged, Report
  <2>. QED
    BY <1>0, <1>1, <1>3, <2>1, <2>2 DEF TornInv, ok
<1>10. CASE WriteStaged
  <2>1. /\ UNCHANGED <<req, publish, out, backup>>
        /\ pc = "write" /\ pc' = "stage" /\ i' = i + 1
    BY <1>10 DEF WriteStaged
  <2>2. \/ diags' # {}
        \/ diags' = diags /\ staged' = [staged EXCEPT ![PathOf(i)] = ContentOf(i)]
    BY <1>10 DEF WriteStaged, Report
  <2>. QED
    BY <1>0, <1>1, <1>3, <2>1, <2>2 DEF TornInv, ok
<1>11. CASE FinishStage
  <2>1. CASE ok
    <3>1. /\ UNCHANGED <<req, publish, out, staged, backup>>
          /\ pc = "stage" /\ pc' = "publish" /\ i \notin Idx
      BY <1>11, <2>1 DEF FinishStage
    <3>2. \A k \in publish : k < i
      BY <1>0, <1>3, <3>1
    <3>. QED
      BY <1>0, <1>1, <2>1, <3>1, <3>2 DEF TornInv
  <2>2. CASE ~ok
    <3>1. pc' = "done" /\ out' = out /\ StagingPartlyRemoved
      BY <1>11, <2>2 DEF FinishStage, RemoveStagingRoot
    <3>. QED
      BY <1>2, <3>1 DEF TornInv, StagingPartlyRemoved, Kept
  <2>. QED
    BY <2>1, <2>2
<1>12. CASE BackupExisting
  <2>1. /\ UNCHANGED <<req, publish, staged>>
        /\ pc = "publish" /\ pc' \in {"inspect", "rollback"} /\ i \in Idx
        /\ pc' = "inspect" => i' = i
    BY <1>12 DEF BackupExisting, FailPublish
  <2>2. \/ UNCHANGED <<out, backup>>
        \/ /\ backup' = [backup EXCEPT ![PathOf(i)] = out[PathOf(i)]]
           /\ out' = [out EXCEPT ![PathOf(i)] = Absent]
    BY <1>12 DEF BackupExisting
  <2>3. \A p \in Paths : out'[p] # Torn /\ backup'[p] # Torn
    BY <1>0, <1>2, <1>3, <2>1, <2>2 DEF TornInv
  <2>. QED
    BY <1>0, <1>1, <2>1, <2>3 DEF TornInv
<1>13. CASE OutputPathStillPublishable
  <2>1. /\ UNCHANGED <<req, publish, out, staged, backup>>
        /\ pc \in {"publish", "inspect"} /\ pc' \in {"rename", "rollback"}
        /\ pc' = "rename" => i' = i
    BY <1>13 DEF OutputPathStillPublishable, AtInspection, FailPublish
  <2>. QED
    BY <1>1, <2>1 DEF TornInv
<1>14. CASE RenameStaged
  <2>1. /\ UNCHANGED <<req, publish, backup>>
        /\ pc = "rename" /\ pc' \in {"publish", "rollback"}
    BY <1>14 DEF RenameStaged, FailPublish
  <2>2. \/ pc' = "rollback" /\ out' = out
        \/ /\ pc' = "publish" /\ i' = i + 1
           /\ out' = [out EXCEPT ![PathOf(i)] = staged[PathOf(i)]]
           /\ staged' = [staged EXCEPT ![PathOf(i)] = Absent]
    BY <1>14 DEF RenameStaged, FailPublish
  <2>3. staged[PathOf(i)] = ContentOf(i)
    BY <1>0, <1>3, <2>1 DEF TornInv
  <2>. QED
    BY <1>0, <1>1, <1>3, <2>1, <2>2, <2>3 DEF TornInv
<1>15. CASE FinishPublish \/ FinishRollback
  <2>1. pc' = "done" /\ out' = out /\ StagingPartlyRemoved
    BY <1>15 DEF FinishPublish, FinishRollback, RemoveStagingRoot
  <2>. QED
    BY <1>2, <2>1 DEF TornInv, StagingPartlyRemoved, Kept
<1>16. CASE SkipBack
  BY <1>4, <1>16 DEF SkipBack
<1>17. CASE RollbackRemove
  <2>1. pc' = "restore" /\ backup' = backup
        /\ (out' = out \/ out' = [out EXCEPT ![PathOf(i)] = Absent])
    BY <1>17 DEF RollbackRemove
  <2>. QED
    BY <1>0, <1>2, <2>1 DEF TornInv
<1>18. CASE RollbackRestore
  <2>1. /\ pc = "restore" /\ pc' = "rollback"
        /\ \/ UNCHANGED <<out, backup>>
           \/ /\ out' = [out EXCEPT ![PathOf(i)] = backup[PathOf(i)]]
              /\ backup' = [backup EXCEPT ![PathOf(i)] = Absent]
    BY <1>18 DEF RollbackRestore
  <2>2. PathOf(i) \in Paths
    BY <1>0, <1>3, <2>1
  <2>. QED
    BY <1>0, <1>2, <2>1, <2>2 DEF TornInv
<1>19. CASE Crash
  BY <1>4, <1>19 DEF Crash
<1>20. ASSUME NEW r \in Requests, Start(r) \/ StartWithoutRoot(r)
       PROVE  TornInv'
  <2>1. pc' \in {"done", "root"} /\ UNCHANGED <<out, backup>>
    BY <1>20 DEF Start, StartWithoutRoot, Begin
  <2>. QED
    BY <1>4, <2>1
<1>21. ASSUME NEW p \in Paths, NEW c \in Contents \union {Absent, Odd}, Edit(p, c)
       PROVE  TornInv'
  <2>1. /\ UNCHANGED <<pc, i, req, publish, staged, backup, diags>>
        /\ out' = [out EXCEPT ![p] = c]
    BY <1>21 DEF Edit
  <2>. QED
    BY <1>0, <1>1, <1>2, <2>1 DEF TornInv, ok
<1>22. CASE UNCHANGED vars
  BY <1>1, <1>22 DEF vars, TornInv, ok
<1>. QED
  BY <1>5, <1>6, <1>7, <1>8, <1>9, <1>10, <1>11, <1>12, <1>13, <1>14, <1>15,
     <1>16, <1>17, <1>18, <1>19, <1>20, <1>21, <1>22 DEF Next, WriterStep

(* Atomic write: for any requests, failures, crashes, leftovers of earlier
   runs and edits by others, no output path ever holds half a file.         *)
THEOREM OutputsNeverTorn == Spec => []NoTornOutput
<1>1. Init => TornInv
  BY InitTornInv
<1>2. TypeInv /\ TypeInv' /\ TornInv /\ [Next]_vars => TornInv'
  BY TornInvStep
<1>3. TornInv => NoTornOutput
  BY DEF TornInv, NoTornOutput
<1>. QED
  BY <1>1, <1>2, <1>3, TypeInvariant, PTL DEF Spec
-----------------------------------------------------------------------------
(* Undoing a call *)


Early == {"root", "parents", "check", "prepare", "stage", "write"}

Forward == {"publish", "inspect", "rename"}

Backward == {"rollback", "restore"}

Mine(k) == PathOf(k) \notin raced

(* What CheckExistingOutputs has concluded about an entry. *)
Decided(k) ==
  IF k \in publish
  THEN Mine(k) => (k \in hadExisting <=> before[PathOf(k)] # Absent)
  ELSE /\ status[k] = "Unchanged"
       /\ Mine(k) => before[PathOf(k)] = ContentOf(k)

NoneWritten == ~req.dry_run /\ \A k \in Idx : status[k] # "Written"

DecidedUpTo ==
  /\ publish \subseteq 1 .. i - 1 /\ hadExisting \subseteq 1 .. i - 1
  /\ ok => blocked = {} /\ \A k \in 1 .. i - 1 : Decided(k)

PlanInv ==
  /\ pc \notin Resting => NoneWritten
  /\ pc \in {"root", "parents", "check"} => DecidedUpTo
  /\ pc \in {"prepare", "stage", "write"} \union Forward \union Backward =>
       \A k \in Idx : Decided(k)
  /\ pc \in Early => ~RollbackFailed
  /\ pc \in {"prepare"} \union Forward => ok
  /\ pc \in Backward => ~ok

(* One entry while the files are published, and while they are taken back. *)
ForwardEntry(k) ==
  /\ k \in published <=> k < i
  /\ k \in backedUp <=> k \in hadExisting /\ (k < i \/ (k = i /\ pc # "publish"))
  /\ Mine(k) =>
       /\ k \in published => out[PathOf(k)] = ContentOf(k)
       /\ k \notin published \union backedUp => out[PathOf(k)] = before[PathOf(k)]
       /\ k \in backedUp => backup[PathOf(k)] = before[PathOf(k)]

BackwardEntry(k) ==
  Mine(k) =>
    IF k > i THEN out[PathOf(k)] = before[PathOf(k)]
    ELSE /\ k \in backedUp => backup[PathOf(k)] = before[PathOf(k)]
         /\ k \notin backedUp /\ (k \notin published \/ (k = i /\ pc = "restore"))
              => out[PathOf(k)] = before[PathOf(k)]
         /\ k \in published \ backedUp => before[PathOf(k)] = Absent

Untouched == \A p \in Paths \ raced : out[p] = before[p]

OthersUntouched ==
  \A p \in Paths \ raced :
    (\A k \in publish : PathOf(k) # p) => out[p] = before[p]

UndoInv ==
  /\ pc \in Early => Untouched /\ backedUp = {} /\ published = {}
  /\ pc \in Forward \union Backward /\ ~RollbackFailed => OthersUntouched
  /\ pc \in Forward => \A k \in publish : ForwardEntry(k)
  /\ pc \in Backward /\ ~RollbackFailed => \A k \in publish : BackwardEntry(k)
  /\ AllOrNothing
  /\ OldCopyKept
-----------------------------------------------------------------------------
LEMMA PlanFacts ==
  ASSUME TypeInv
  PROVE  /\ Len(req.files) \in Nat
         /\ Idx = 1 .. Len(req.files)
         /\ i \in Int
         /\ publish \subseteq Idx /\ hadExisting \subseteq Idx
         /\ status \in [Idx -> Status]
         /\ out \in [Paths -> Values] /\ backup \in [Paths -> Values]
         /\ staged \in [Paths -> Values] /\ before \in [Paths -> Values]
         /\ pc \notin Resting => \A k \in Idx : PathOf(k) \in Paths
         /\ pc \notin Resting =>
              \A j, k \in Idx : PathOf(j) = PathOf(k) => j = k
         /\ pc \in AtEntry => i \in publish
         /\ pc \in {"check", "stage", "publish"} => i \in 1 .. Len(req.files) + 1
         /\ pc = "rollback" => i \in 0 .. Len(req.files)
BY RequestFacts DEF TypeInv, TypeOK, IndexInv, PlanOK, Idx

LEMMA RequestFrame ==
  ASSUME UNCHANGED req
  PROVE  /\ Idx' = Idx
         /\ \A k : PathOf(k)' = PathOf(k) /\ ContentOf(k)' = ContentOf(k)
BY DEF Idx, PathOf, ContentOf

(* What has been decided of an entry stays so while nobody edits its path. *)
LEMMA DecidedFrame ==
  ASSUME UNCHANGED <<req, before, raced>>, NEW k,
         k \in publish' <=> k \in publish,
         k \in hadExisting' <=> k \in hadExisting,
         k \notin publish => status'[k] = status[k]
  PROVE  Decided(k)' <=> Decided(k)
BY RequestFrame DEF Decided, Mine

LEMMA FailedEntries ==
  ASSUME TypeInv, status' = MarkPublishEntriesFailed
  PROVE  /\ \A k \in Idx \ publish : status'[k] = status[k]
         /\ (\A k \in Idx : status[k] # "Written")
              => \A k \in Idx : status'[k] # "Written"
BY PlanFacts DEF MarkPublishEntriesFailed

LEMMA InitPlanInv == Init => PlanInv
BY DEF Init, PlanInv, Early, Forward, Backward, Resting

LEMMA PlanInvStep == TypeInv /\ PlanInv /\ UndoInv /\ [Next]_vars => PlanInv'
<1>. SUFFICES ASSUME TypeInv, PlanInv, UndoInv, [Next]_vars PROVE PlanInv'
  OBVIOUS
<1>. USE DEF Resting, AtEntry, Early, Forward, Backward, argVars, planVars, fsVars,
         histVars, counters, resVars
<1>0. /\ Len(req.files) \in Nat
      /\ Idx = 1 .. Len(req.files)
      /\ i \in Int
      /\ publish \subseteq Idx /\ hadExisting \subseteq Idx
      /\ status \in [Idx -> Status]
      /\ pc \in {"check", "stage", "publish"} => i \in 1 .. Len(req.files) + 1
  BY PlanFacts
<1>1. ASSUME UNCHANGED req
      PROVE  /\ Idx' = Idx
             /\ \A k : PathOf(k)' = PathOf(k) /\ ContentOf(k)' = ContentOf(k)
  BY <1>1, RequestFrame
(* A call that has ended promises nothing here. *)
<1>2. ASSUME pc' \in Resting PROVE PlanInv'
  BY <1>2 DEF PlanInv
(* Steps in the later phases leave the decisions alone. *)
<1>3. ASSUME pc \in {"prepare", "stage", "write"} \union Forward \union Backward,
             pc' \in {"prepare", "stage", "write"} \union Forward \union Backward,
             UNCHANGED <<req, before, raced, publish, hadExisting>>,
             status' = status \/ status' = MarkPublishEntriesFailed,
             pc' \in Early => ~RollbackFailed',
             pc' \in {"prepare"} \union Forward => ok',
             pc' \in Backward => ~ok'
      PROVE  PlanInv'
  <2>1. NoneWritten'
    BY <1>1, <1>3, FailedEntries DEF PlanInv, NoneWritten
  <2>2. \A k \in Idx : k \notin publish => status'[k] = status[k]
    BY <1>3, FailedEntries
  <2>3. \A k \in Idx' : Decided(k)'
    BY <1>1, <1>3, <2>2, DecidedFrame DEF PlanInv
  <2>. QED
    BY <1>3, <2>1, <2>3 DEF PlanInv
<1>4. CASE CreateOutputRoot
  <2>1. CASE pc' = "done"
    BY <1>2, <2>1
  <2>2. CASE pc' = "parents"
    <3>1. UNCHANGED <<req, before, raced, publish, hadExisting, status, diags, blocked, i>>
          /\ pc = "root"
      BY <1>4, <2>2 DEF CreateOutputRoot
    <3>2. \A k : Decided(k)' <=> Decided(k)
      BY <3>1, DecidedFrame
    <3>. QED
      BY <1>1, <2>2, <3>1, <3>2 DEF PlanInv, NoneWritten, DecidedUpTo, ok, RollbackFailed
  <2>. QED
    BY <1>4, <2>1, <2>2 DEF CreateOutputRoot
<1>5. CASE PrepareOutputParents
  <2>1. CASE pc' = "done"
    BY <1>2, <2>1
  <2>2. CASE pc' = "check"
    <3>1. UNCHANGED <<req, before, raced, publish, hadExisting, status, diags, blocked, i>>
          /\ pc = "parents"
      BY <1>5, <2>2 DEF PrepareOutputParents
    <3>2. \A k : Decided(k)' <=> Decided(k)
      BY <3>1, DecidedFrame
    <3>. QED
      BY <1>1, <2>2, <3>1, <3>2 DEF PlanInv, NoneWritten, DecidedUpTo, ok, RollbackFailed
  <2>. QED
    BY <1>5, <2>1, <2>2 DEF PrepareOutputParents
<1>6. CASE CheckExistingOutputs
  <2>1. /\ pc = "check" /\ pc' = "check" /\ i \in Idx /\ i' = i + 1
        /\ UNCHANGED <<req, before, raced, out>>
        /\ publish' \subseteq publish \union {i}
        /\ publish \subseteq publish'
        /\ hadExisting' \subseteq hadExisting \union {i}
        /\ hadExisting \subseteq hadExisting'
        /\ diags' \in {diags, diags \union {"output_conflict"}}
        /\ status' \in {status, [status EXCEPT ![i] = "Unchanged"],
                        [status EXCEPT ![i] = "SkippedExisting"]}
    BY <1>6 DEF CheckExistingOutputs, CheckAbsent, CheckConflict, CheckUnchanged,
       CheckSkipped, CheckOverwrite, Checking, CheckDone
  <2>2. NoneWritten'
    BY <1>0, <1>1, <2>1 DEF PlanInv, NoneWritten
  <2>3. publish' \subseteq 1 .. i' - 1 /\ hadExisting' \subseteq 1 .. i' - 1
    BY <1>0, <2>1 DEF PlanInv, DecidedUpTo
  <2>4. i \notin publish /\ i \notin hadExisting
    BY <1>0, <2>1 DEF PlanInv, DecidedUpTo
  <2>5. ASSUME ok' PROVE blocked' = {} /\ \A k \in 1 .. i' - 1 : Decided(k)'
    <3>1. diags' = diags /\ ok
      BY <2>1, <2>5 DEF ok
    <3>2. CheckAbsent \/ CheckUnchanged \/ CheckOverwrite
      BY <1>6, <2>5 DEF CheckExistingOutputs, CheckConflict, CheckSkipped, CheckDone, ok
    <3>3. blocked' = blocked /\ blocked = {}
      BY <2>1, <3>1, <3>2 DEF CheckAbsent, CheckUnchanged, CheckOverwrite, CheckDone,
         PlanInv, DecidedUpTo
    <3>4. ASSUME NEW k \in 1 .. i - 1 PROVE Decided(k)'
      <4>1. k # i /\ k \in Idx /\ Decided(k)
        BY <1>0, <2>1, <3>1 DEF PlanInv, DecidedUpTo
      <4>2. status'[k] = status[k]
        BY <1>0, <2>1, <4>1
      <4>. QED
        BY <2>1, <4>1, <4>2, DecidedFrame
    <3>5. ASSUME NEW k \in Idx, k = i PROVE Decided(k)'
      <4>1. Mine(k) => out[PathOf(k)] = before[PathOf(k)]
        BY <2>1, PlanFacts DEF UndoInv, Untouched, Mine
      <4>2. CASE CheckAbsent
        BY <1>1, <2>1, <2>4, <3>5, <4>1, <4>2 DEF CheckAbsent, CheckDone, Decided, Mine
      <4>3. CASE CheckUnchanged
        <5>1. /\ k \notin publish' /\ status'[k] = "Unchanged"
              /\ out[PathOf(k)] = ContentOf(k)
          BY <1>0, <2>1, <2>4, <3>5, <4>3 DEF CheckUnchanged, CheckDone
        <5>. QED
          BY <1>1, <2>1, <4>1, <5>1 DEF Decided, Mine
      <4>4. CASE CheckOverwrite
        BY <1>1, <2>1, <2>4, <3>5, <4>1, <4>4 DEF CheckOverwrite, CheckDone, Decided,
           Mine, IsRegular
      <4>. QED
        BY <3>2, <4>2, <4>3, <4>4
    <3>6. \A k \in 1 .. i' - 1 : k \in 1 .. i - 1 \/ k = i
      BY <1>0, <2>1
    <3>. QED
      BY <2>1, <3>3, <3>4, <3>5, <3>6
  <2>6. ~RollbackFailed'
    BY <2>1 DEF PlanInv, RollbackFailed
  <2>. QED
    BY <2>1, <2>2, <2>3, <2>5, <2>6 DEF PlanInv, DecidedUpTo
<1>7. CASE FinishCheck
  <2>1. CASE pc' = "done"
    BY <1>2, <2>1
  <2>2. CASE pc' = "prepare"
    <3>1. /\ pc = "check" /\ i \notin Idx /\ ok
          /\ UNCHANGED <<req, before, raced, hadExisting, diags>>
      BY <1>7, <2>2 DEF FinishCheck
    <3>2. blocked = {} /\ \A k \in Idx : Decided(k)
      BY <1>0, <3>1 DEF PlanInv, DecidedUpTo
    <3>3. publish' = publish
      BY <1>7, <3>2 DEF FinishCheck, InBlockedClass
    <3>4. \A k \in Idx : status'[k] = IF k \in publish THEN "Failed" ELSE status[k]
      BY <1>0, <1>7, <3>2 DEF FinishCheck, InBlockedClass
    <3>5. \A k \in Idx' : Decided(k)'
      BY <1>1, <3>1, <3>2, <3>3, <3>4, DecidedFrame
    <3>6. NoneWritten'
      BY <1>1, <3>1, <3>4 DEF PlanInv, NoneWritten
    <3>. QED
      BY <2>2, <3>1, <3>5, <3>6 DEF PlanInv, ok, RollbackFailed
  <2>. QED
    BY <1>7, <2>1, <2>2 DEF FinishCheck
<1>8. CASE PrepareStagingRoot
  <2>1. CASE pc' = "done"
    BY <1>2, <2>1
  <2>2. CASE pc' = "stage"
    BY <1>3, <1>8, <2>2 DEF PrepareStagingRoot, PlanInv, RollbackFailed
  <2>. QED
    BY <1>8, <2>1, <2>2 DEF PrepareStagingRoot
<1>9. CASE SkipForward
  BY <1>3, <1>9 DEF SkipForward, PlanInv, RollbackFailed, ok
<1>10. CASE OpenStaged
  <2>1. diags' \in {diags, diags \union {"output_staging_failure"}}
    BY <1>10 DEF OpenStaged, Report
  <2>. QED
    BY <1>3, <1>10, <2>1 DEF OpenStaged, PlanInv, RollbackFailed
<1>11. CASE WriteStaged
  <2>1. diags' \in {diags, diags \union {"output_staging_failure"}}
    BY <1>11 DEF WriteStaged, Report
  <2>. QED
    BY <1>3, <1>11, <2>1 DEF WriteStaged, PlanInv, RollbackFailed
<1>12. CASE FinishStage
  <2>1. CASE ok
    <3>1. /\ pc = "stage" /\ pc' = "publish"
          /\ UNCHANGED <<req, before, raced, publish, hadExisting, status, diags>>
      BY <1>12, <2>1 DEF FinishStage
    <3>. QED
      BY <1>3, <2>1, <3>1 DEF PlanInv, ok
  <2>2. CASE ~ok
    BY <1>2, <1>12, <2>2 DEF FinishStage
  <2>. QED
    BY <2>1, <2>2
<1>13. CASE BackupExisting \/ OutputPathStillPublishable \/ RenameStaged
  <2>1. /\ pc \in Forward
        /\ UNCHANGED <<req, before, raced, publish, hadExisting>>
        /\ \/ pc' \in Forward /\ UNCHANGED <<status, diags>>
           \/ /\ pc' = "rollback" /\ status' = MarkPublishEntriesFailed
              /\ diags' = diags \union {"output_publish_failure"}
    BY <1>13 DEF BackupExisting, OutputPathStillPublishable, AtInspection,
       RenameStaged, FailPublish, Report
  <2>. QED
    BY <1>3, <2>1 DEF PlanInv, ok
<1>14. CASE SkipBack \/ RollbackRemove \/ RollbackRestore
  <2>1. /\ pc \in Backward /\ pc' \in Backward
        /\ UNCHANGED <<req, before, raced, publish, hadExisting, status>>
        /\ diags \subseteq diags'
    BY <1>14 DEF SkipBack, RollbackRemove, RollbackRestore, Report
  <2>. QED
    BY <1>3, <2>1 DEF PlanInv, ok
<1>15. CASE FinishPublish \/ FinishRollback
  BY <1>2, <1>15 DEF FinishPublish, FinishRollback
<1>16. CASE Crash
  BY <1>2, <1>16 DEF Crash
<1>17. ASSUME NEW r \in Requests, Start(r) \/ StartWithoutRoot(r)
       PROVE  PlanInv'
  <2>1. CASE pc' = "done"
    BY <1>2, <2>1
  <2>2. CASE pc' = "root"
    <3>1. /\ Start(r) /\ ~r.dry_run /\ req' = r /\ diags' = {} /\ i' = 1
          /\ publish' = {} /\ hadExisting' = {} /\ blocked' = {}
          /\ status' = PlannedStatus(r)
      BY <1>17, <2>2 DEF Start, StartWithoutRoot, Begin
    <3>2. NoneWritten'
      BY <3>1 DEF NoneWritten, PlannedStatus, Idx
    <3>. QED
      BY <2>2, <3>1, <3>2 DEF PlanInv, DecidedUpTo, ok, RollbackFailed
  <2>. QED
    BY <1>17, <2>1, <2>2 DEF Start, StartWithoutRoot
<1>18. ASSUME NEW p \in Paths, NEW c \in Contents \union {Absent, Odd}, Edit(p, c)
       PROVE  PlanInv'
  <2>1. /\ UNCHANGED <<pc, i, req, publish, hadExisting, status, diags, blocked>>
        /\ before' = [before EXCEPT ![p] = c]
        /\ raced' = IF LookedAt(p) THEN raced \union {p} ELSE raced
        /\ pc \notin Resting
    BY <1>18 DEF Edit
  <2>2. ASSUME NEW k \in Idx, Decided(k), PathOf(k) = p => LookedAt(p)
        PROVE  Decided(k)'
    <3>1. Mine(k)' => Mine(k) /\ PathOf(k) # p
      BY <1>1, <2>1, <2>2 DEF Mine
    <3>2. PathOf(k) # p => before'[PathOf(k)] = before[PathOf(k)]
      BY <2>1, PlanFacts
    <3>. QED
      BY <1>1, <2>1, <2>2, <3>1, <3>2 DEF Decided
  <2>3. pc \in {"prepare", "stage", "write"} \union Forward \union Backward
          => LookedAt(p)
    BY DEF LookedAt, Phases
  <2>4. ASSUME pc \in {"root", "parents", "check"}, ok
        PROVE  \A k \in 1 .. i - 1 : Decided(k)'
    <3>1. pc \in {"root", "parents"} => i = 1
      BY DEF TypeInv, IndexInv
    <3>2. ASSUME NEW k \in 1 .. i - 1
          PROVE  k \in Idx /\ Decided(k) /\ (PathOf(k) = p => LookedAt(p))
      BY <1>0, <2>4, <3>1, <3>2 DEF PlanInv, DecidedUpTo, LookedAt
    <3>. QED
      BY <2>2, <3>2
  <2>. QED
    BY <1>1, <2>1, <2>2, <2>3, <2>4 DEF PlanInv, NoneWritten, DecidedUpTo, ok,
       RollbackFailed
<1>19. CASE UNCHANGED vars
  <2>1. UNCHANGED <<pc, i, req, before, raced, publish, hadExisting, status, diags,
                    blocked>>
    BY <1>19 DEF vars
  <2>2. \A k : Decided(k)' <=> Decided(k)
    BY <2>1, DecidedFrame
  <2>. QED
    BY <1>1, <2>1, <2>2 DEF PlanInv, NoneWritten, DecidedUpTo, ok, RollbackFailed
<1>. QED
  BY <1>4, <1>5, <1>6, <1>7, <1>8, <1>9, <1>10, <1>11, <1>12, <1>13, <1>14, <1>15,
     <1>16, <1>17, <1>18, <1>19 DEF Next, WriterStep
-----------------------------------------------------------------------------
(* While a call can be undone, the file that each path had is at the path or
   in the backup directory.                                                 *)
Undoing ==
  /\ TypeInv /\ PlanInv
  /\ pc \notin Resting /\ ~RollbackFailed
  /\ pc \in Early => Untouched
  /\ pc \notin Early => OthersUntouched
  /\ pc \in Forward => \A k \in publish : ForwardEntry(k)
  /\ pc \in Backward => \A k \in publish : BackwardEntry(k)

LEMMA KeptWhileOpen == Undoing => OldCopyKept
<1>. SUFFICES ASSUME Undoing PROVE OldCopyKept
  OBVIOUS
<1>. SUFFICES ASSUME NEW p \in Paths \ raced
              PROVE  before[p] \in {Absent, out[p], backup[p]}
  BY DEF OldCopyKept
<1>1. pc \in Early \/ pc \in Forward \/ pc \in Backward
  BY DEF Undoing, TypeInv, TypeOK, Phases, Resting, Early, Forward, Backward
<1>2. CASE pc \in Early
  BY <1>2 DEF Undoing, Untouched
<1>3. CASE pc \notin Early /\ \A k \in publish : PathOf(k) # p
  BY <1>3 DEF Undoing, OthersUntouched
<1>4. ASSUME pc \notin Early, NEW k \in publish, PathOf(k) = p
      PROVE  before[p] \in {Absent, out[p], backup[p]}
  <2>1. Mine(k) /\ k \in Idx /\ i \in Int /\ k \in Int
    BY <1>4, PlanFacts DEF Undoing, Mine
  <2>2. CASE pc \in Forward
    <3>1. ForwardEntry(k) /\ Decided(k)
      BY <1>4, <2>1, <2>2 DEF Undoing, PlanInv
    <3>. QED
      BY <1>4, <2>1, <3>1 DEF ForwardEntry, Decided
  <2>3. CASE pc \in Backward
    <3>1. BackwardEntry(k)
      BY <1>4, <2>3 DEF Undoing
    <3>. QED
      BY <1>4, <2>1, <3>1 DEF BackwardEntry
  <2>. QED
    BY <1>1, <1>4, <2>2, <2>3
<1>. QED
  BY <1>2, <1>3, <1>4

LEMMA InitUndoInv == Init => UndoInv
BY DEF Init, UndoInv, Early, Forward, Backward, AllOrNothing, OldCopyKept

(* A call that ends without having published anything. *)
LEMMA EndedUntouched ==
  ASSUME pc' = "done", Untouched', ~(ok' /\ ~req'.dry_run),
         (\A k \in Idx : status[k] # "Written")'
  PROVE  UndoInv'
<1>1. AllOrNothing'
  BY DEF AllOrNothing, Untouched
<1>2. OldCopyKept'
  BY DEF OldCopyKept, Untouched
<1>. QED
  BY <1>1, <1>2 DEF UndoInv, Early, Forward, Backward

(* A step within the phases that leave the outputs alone. *)
LEMMA StaysEarly ==
  ASSUME pc' \in Early, Untouched', backedUp' = {}, published' = {}
  PROVE  UndoInv'
<1>1. AllOrNothing' /\ OldCopyKept'
  BY DEF AllOrNothing, OldCopyKept, Untouched, Early
<1>. QED
  BY <1>1 DEF UndoInv, Early, Forward, Backward

(* A step of the publication or of the rollback. *)
LEMMA StaysOpen ==
  ASSUME TypeInv', PlanInv',
         pc' \in Forward \union Backward,
         ~RollbackFailed' => OthersUntouched',
         pc' \in Forward => (\A k \in publish : ForwardEntry(k))',
         pc' \in Backward /\ ~RollbackFailed' => (\A k \in publish : BackwardEntry(k))'
  PROVE  UndoInv'
<1>1. pc' \notin Early /\ pc' \notin Resting
  BY DEF Early, Forward, Backward, Resting
<1>2. AllOrNothing'
  BY <1>1 DEF AllOrNothing, Resting
<1>3. OldCopyKept'
  <2>1. CASE RollbackFailed'
    BY <2>1 DEF OldCopyKept
  <2>2. CASE ~RollbackFailed'
    <3>1. Undoing'
      BY <1>1, <2>2 DEF Undoing
    <3>. QED
      BY <3>1, KeptWhileOpen, PTL
  <2>. QED
    BY <2>1, <2>2
<1>. QED
  BY <1>1, <1>2, <1>3 DEF UndoInv
LEMMA UndoInvStep ==
  TypeInv /\ TypeInv' /\ TornInv /\ PlanInv /\ PlanInv' /\ UndoInv /\ [Next]_vars
    => UndoInv'
<1>. SUFFICES ASSUME TypeInv, TypeInv', TornInv, PlanInv, PlanInv', UndoInv,
                     [Next]_vars
              PROVE  UndoInv'
  OBVIOUS
<1>. USE DEF Resting, AtEntry, Early, Forward, Backward, argVars, planVars, fsVars,
         histVars, counters, resVars
<1>0. /\ Len(req.files) \in Nat
      /\ Idx = 1 .. Len(req.files)
      /\ i \in Int
      /\ publish \subseteq Idx
      /\ status \in [Idx -> Status]
      /\ out \in [Paths -> Values] /\ backup \in [Paths -> Values]
      /\ before \in [Paths -> Values]
      /\ pc \notin Resting => \A k \in Idx : PathOf(k) \in Paths
      /\ pc \notin Resting => \A j, k \in Idx : PathOf(j) = PathOf(k) => j = k
      /\ pc \in AtEntry => i \in publish
      /\ pc \in {"check", "stage", "publish"} => i \in 1 .. Len(req.files) + 1
      /\ pc = "rollback" => i \in 0 .. Len(req.files)
  BY PlanFacts
<1>1. ASSUME UNCHANGED req
      PROVE  /\ Idx' = Idx
             /\ \A k : PathOf(k)' = PathOf(k) /\ ContentOf(k)' = ContentOf(k)
  BY <1>1, RequestFrame
<1>2. ASSUME pc \in Early, UNCHANGED <<out, before, raced>>
      PROVE  Untouched'
  BY <1>2 DEF UndoInv, Untouched
(* The call ends before it has published anything. *)
<1>3. ASSUME pc \in Early, pc' = "done", ~ok', UNCHANGED <<req, out, before, raced>>,
             \A k \in Idx : status'[k] # "Written"
      PROVE  UndoInv'
  <2>1. (\A k \in Idx : status[k] # "Written")'
    BY <1>1, <1>3
  <2>. QED
    BY <1>2, <1>3, <2>1, EndedUntouched
(* It goes on without publishing anything. *)
<1>4. ASSUME pc \in Early, pc' \in Early,
             UNCHANGED <<out, before, raced, backedUp, published>>
      PROVE  UndoInv'
  <2>1. backedUp' = {} /\ published' = {}
    BY <1>4 DEF UndoInv
  <2>. QED
    BY <1>2, <1>4, <2>1, StaysEarly
<1>5. pc \in Early => \A k \in Idx : status[k] # "Written"
  BY DEF PlanInv, NoneWritten
<1>6. CASE CreateOutputRoot
  <2>1. CASE pc' = "done"
    BY <1>0, <1>3, <1>6, <2>1 DEF CreateOutputRoot, Report, ok
  <2>2. CASE pc' = "parents"
    BY <1>4, <1>6, <2>2 DEF CreateOutputRoot
  <2>. QED
    BY <1>6, <2>1, <2>2 DEF CreateOutputRoot
<1>7. CASE PrepareOutputParents
  <2>1. CASE pc' = "done"
    <3>1. ~ok' /\ status' = MarkPublishEntriesFailed
      BY <1>7, <2>1 DEF PrepareOutputParents, ok
    <3>2. \A k \in Idx : status'[k] # "Written"
      BY <1>5, <1>7, <3>1, FailedEntries DEF PrepareOutputParents
    <3>. QED
      BY <1>3, <1>7, <2>1, <3>1, <3>2 DEF PrepareOutputParents
  <2>2. CASE pc' = "check"
    BY <1>4, <1>7, <2>2 DEF PrepareOutputParents
  <2>. QED
    BY <1>7, <2>1, <2>2 DEF PrepareOutputParents
<1>8. CASE CheckExistingOutputs
  <2>1. /\ pc = "check" /\ pc' = "check"
        /\ UNCHANGED <<out, before, raced, backedUp, published>>
    BY <1>8 DEF CheckExistingOutputs, CheckAbsent, CheckConflict, CheckUnchanged,
       CheckSkipped, CheckOverwrite, Checking, CheckDone
  <2>. QED
    BY <1>4, <2>1
<1>9. CASE FinishCheck
  <2>1. CASE pc' = "prepare"
    BY <1>4, <1>9, <2>1 DEF FinishCheck
  <2>2. CASE pc' = "done" /\ ~ok
    <3>1. \A k \in Idx : status'[k] # "Written"
      BY <1>0, <1>5, <1>9 DEF FinishCheck
    <3>. QED
      BY <1>3, <1>9, <2>2, <3>1 DEF FinishCheck, ok
  <2>3. CASE pc' = "done" /\ ok
    <3>1. /\ UNCHANGED <<req, out, before, raced, diags>>
          /\ pc = "check" /\ i \notin Idx /\ publish' = {}
      BY <1>9, <2>3 DEF FinishCheck
    <3>2. blocked = {} /\ \A k \in Idx : Decided(k)
      BY <1>0, <2>3, <3>1 DEF PlanInv, DecidedUpTo
    <3>3. publish = {}
      BY <1>9, <3>1, <3>2 DEF FinishCheck, InBlockedClass
    <3>4. \A k \in Idx : status'[k] = "Unchanged"
      BY <1>0, <1>9, <3>2, <3>3 DEF FinishCheck, InBlockedClass, Decided
    <3>5. \A k \in Idx : PathOf(k) \notin raced => out[PathOf(k)] = ContentOf(k)
      BY <1>0, <3>1, <3>2, <3>3 DEF Decided, Mine, UndoInv, Untouched
    <3>6. ok' /\ ~req'.dry_run
      BY <2>3, <3>1 DEF PlanInv, NoneWritten, ok
    <3>7. AllOrNothing'
      BY <1>1, <3>1, <3>4, <3>5, <3>6 DEF AllOrNothing
    <3>8. OldCopyKept'
      BY <2>3, <3>6 DEF OldCopyKept
    <3>. QED
      BY <2>3, <3>7, <3>8 DEF UndoInv
  <2>. QED
    BY <1>9, <2>1, <2>2, <2>3 DEF FinishCheck
<1>10. CASE PrepareStagingRoot
  <2>1. CASE pc' = "stage"
    BY <1>4, <1>10, <2>1 DEF PrepareStagingRoot
  <2>2. CASE pc' = "done"
    <3>1. ~ok' /\ status' = MarkPublishEntriesFailed
      BY <1>10, <2>2 DEF PrepareStagingRoot, Report, ok
    <3>2. \A k \in Idx : status'[k] # "Written"
      BY <1>5, <1>10, <3>1, FailedEntries DEF PrepareStagingRoot
    <3>. QED
      BY <1>3, <1>10, <2>2, <3>1, <3>2 DEF PrepareStagingRoot
  <2>. QED
    BY <1>10, <2>1, <2>2 DEF PrepareStagingRoot
<1>11. CASE OpenStaged \/ WriteStaged
  BY <1>4, <1>11 DEF OpenStaged, WriteStaged
<1>12. CASE SkipForward
  <2>1. /\ UNCHANGED <<pc, req, before, raced, out, backup, publish, hadExisting,
                       backedUp, published, diags>>
        /\ i \notin publish /\ i' = i + 1
    BY <1>12 DEF SkipForward
  <2>2. CASE pc = "stage"
    BY <1>4, <2>1, <2>2
  <2>3. CASE pc = "publish"
    <3>1. OthersUntouched'
      BY <1>1, <2>1, <2>3 DEF UndoInv, PlanInv, OthersUntouched, ok, RollbackFailed
    <3>2. ASSUME NEW k \in publish PROVE ForwardEntry(k)'
      <4>1. ForwardEntry(k)
        BY <2>3 DEF UndoInv
      <4>2. k < i' <=> k < i
        BY <1>0, <2>1
      <4>. QED
        BY <1>0, <1>1, <2>1, <2>3, <4>1, <4>2 DEF ForwardEntry, Mine
    <3>. QED
      BY <2>1, <2>3, <3>1, <3>2, StaysOpen
  <2>. QED
    BY <1>12, <2>2, <2>3 DEF SkipForward
<1>13. CASE FinishStage
  <2>1. CASE ok
    <3>1. /\ pc = "stage" /\ pc' = "publish" /\ i' = 1
          /\ UNCHANGED <<req, before, raced, out, publish, hadExisting, backedUp,
                         published>>
      BY <1>13, <2>1 DEF FinishStage
    <3>2. Untouched' /\ backedUp = {} /\ published = {}
      BY <1>2, <3>1 DEF UndoInv
    <3>3. OthersUntouched'
      BY <3>2 DEF Untouched, OthersUntouched
    <3>4. ASSUME NEW k \in publish PROVE ForwardEntry(k)'
      <4>1. k \in Idx /\ PathOf(k) \in Paths
        BY <1>0, <3>1
      <4>2. Mine(k)' => (out[PathOf(k)] = before[PathOf(k)])'
        BY <1>1, <3>1, <3>2, <4>1 DEF Untouched, Mine
      <4>. QED
        BY <1>0, <3>1, <3>2, <4>1, <4>2 DEF ForwardEntry
    <3>. QED
      BY <3>1, <3>3, <3>4, StaysOpen
  <2>2. CASE ~ok
    <3>1. /\ pc = "stage" /\ pc' = "done" /\ status' = MarkPublishEntriesFailed
          /\ UNCHANGED <<req, out, before, raced, diags>>
      BY <1>13, <2>2 DEF FinishStage
    <3>2. \A k \in Idx : status'[k] # "Written"
      BY <1>5, <3>1, FailedEntries
    <3>. QED
      BY <1>3, <2>2, <3>1, <3>2 DEF ok
  <2>. QED
    BY <2>1, <2>2
(* An entry cannot be published: the rollback starts from what there is. *)
<1>14. ASSUME pc \in Forward, pc' = "rollback", i' = Len(req.files),
              UNCHANGED <<req, before, raced, out, backup, publish, hadExisting,
                          backedUp, published>>
       PROVE  UndoInv'
  <2>1. OthersUntouched'
    BY <1>1, <1>14 DEF UndoInv, PlanInv, OthersUntouched, ok, RollbackFailed
  <2>2. ASSUME NEW k \in publish PROVE BackwardEntry(k)'
    <3>1. ForwardEntry(k) /\ Decided(k) /\ k \in Idx
      BY <1>0, <1>14 DEF UndoInv, PlanInv
    <3>2. ~(k > i')
      BY <1>0, <1>14, <3>1
    <3>3. k \in published \ backedUp => k \notin hadExisting
      BY <3>1 DEF ForwardEntry
    <3>. QED
      BY <1>1, <1>14, <3>1, <3>2, <3>3 DEF ForwardEntry, BackwardEntry, Decided, Mine
  <2>. QED
    BY <1>14, <2>1, <2>2, StaysOpen
<1>15. CASE BackupExisting
  <2>1. CASE pc' = "rollback"
    <3>1. FailPublish /\ UNCHANGED <<backedUp, out, backup>>
      BY <1>15, <2>1 DEF BackupExisting
    <3>. QED
      BY <1>14, <1>15, <2>1, <3>1 DEF BackupExisting, FailPublish
  <2>2. CASE pc' = "inspect"
    <3>1. /\ pc = "publish" /\ i \in publish /\ i \in Idx /\ i \in hadExisting
          /\ UNCHANGED <<i, req, before, raced, publish, hadExisting, published, diags>>
          /\ backup' = [backup EXCEPT ![PathOf(i)] = out[PathOf(i)]]
          /\ out' = [out EXCEPT ![PathOf(i)] = Absent]
          /\ backedUp' = backedUp \union {i}
      BY <1>15, <2>2 DEF BackupExisting, FailPublish
    <3>2. OthersUntouched'
      BY <1>0, <1>1, <3>1 DEF UndoInv, PlanInv, OthersUntouched, ok, RollbackFailed
    <3>3. ASSUME NEW k \in publish PROVE ForwardEntry(k)'
      <4>1. ForwardEntry(k) /\ ForwardEntry(i) /\ k \in Idx /\ k \in Int
        BY <1>0, <3>1 DEF UndoInv
      <4>2. PathOf(k) \in Paths /\ PathOf(i) \in Paths
            /\ (PathOf(k) = PathOf(i) => k = i)
        BY <1>0, <3>1, <4>1
      <4>3. CASE k = i
        <5>1. i \notin published /\ i \notin backedUp
          BY <3>1, <4>1 DEF ForwardEntry
        <5>2. Mine(k) => out[PathOf(k)] = before[PathOf(k)]
          BY <4>1, <4>3, <5>1 DEF ForwardEntry
        <5>3. k \in backedUp' /\ k \notin published' /\ k \in hadExisting'
              /\ i' = k /\ ~(k < i')
          BY <3>1, <4>1, <4>3, <5>1
        <5>4. backup'[PathOf(k)] = out[PathOf(k)]
          BY <1>0, <3>1, <4>2, <4>3
        <5>. QED
          BY <1>1, <2>2, <3>1, <5>2, <5>3, <5>4 DEF ForwardEntry, Mine
      <4>4. CASE k # i
        <5>1. /\ out'[PathOf(k)] = out[PathOf(k)]
              /\ backup'[PathOf(k)] = backup[PathOf(k)]
          BY <1>0, <3>1, <4>2, <4>4
        <5>2. k \in backedUp' <=> k \in backedUp
          BY <3>1, <4>4
        <5>. QED
          BY <1>1, <2>2, <3>1, <4>1, <4>4, <5>1, <5>2 DEF ForwardEntry, Mine
      <4>. QED
        BY <4>3, <4>4
    <3>. QED
      BY <2>2, <3>1, <3>2, <3>3, StaysOpen
  <2>. QED
    BY <1>15, <2>1, <2>2 DEF BackupExisting, FailPublish
<1>16. CASE OutputPathStillPublishable
  <2>1. CASE pc' = "rollback"
    BY <1>14, <1>16, <2>1 DEF OutputPathStillPublishable, AtInspection, FailPublish
  <2>2. CASE pc' = "rename"
    <3>1. /\ UNCHANGED <<i, req, before, raced, out, backup, publish, hadExisting,
                         backedUp, published, diags>>
          /\ pc = "inspect" \/ (pc = "publish" /\ i \notin hadExisting)
      BY <1>16, <2>2 DEF OutputPathStillPublishable, AtInspection, FailPublish
    <3>2. OthersUntouched'
      BY <1>1, <3>1 DEF UndoInv, PlanInv, OthersUntouched, ok, RollbackFailed
    <3>3. ASSUME NEW k \in publish PROVE ForwardEntry(k)'
      <4>1. ForwardEntry(k)
        BY <3>1 DEF UndoInv
      <4>. QED
        BY <1>1, <2>2, <3>1, <4>1 DEF ForwardEntry, Mine
    <3>. QED
      BY <2>2, <3>1, <3>2, <3>3, StaysOpen
  <2>. QED
    BY <1>16, <2>1, <2>2 DEF OutputPathStillPublishable, FailPublish
<1>17. CASE RenameStaged
  <2>1. CASE pc' = "rollback"
    <3>1. FailPublish /\ UNCHANGED <<out, staged, published>>
      BY <1>17, <2>1 DEF RenameStaged
    <3>. QED
      BY <1>14, <1>17, <2>1, <3>1 DEF RenameStaged, FailPublish
  <2>2. CASE pc' = "publish"
    <3>1. /\ pc = "rename" /\ i' = i + 1
          /\ UNCHANGED <<req, before, raced, backup, publish, hadExisting, backedUp,
                         diags>>
          /\ out' = [out EXCEPT ![PathOf(i)] = staged[PathOf(i)]]
          /\ published' = published \union {i}
      BY <1>17, <2>2 DEF RenameStaged, FailPublish
    <3>2. i \in publish /\ i \in Idx /\ staged[PathOf(i)] = ContentOf(i)
      BY <1>0, <3>1 DEF TornInv
    <3>3. OthersUntouched'
      BY <1>0, <1>1, <3>1, <3>2 DEF UndoInv, PlanInv, OthersUntouched, ok,
         RollbackFailed
    <3>4. ASSUME NEW k \in publish PROVE ForwardEntry(k)'
      <4>1. ForwardEntry(k) /\ k \in Idx /\ k \in Int
        BY <1>0, <3>1 DEF UndoInv
      <4>2. PathOf(k) \in Paths /\ PathOf(i) \in Paths
            /\ (PathOf(k) = PathOf(i) => k = i)
        BY <1>0, <3>1, <3>2, <4>1
      <4>3. k < i' <=> k < i \/ k = i
        BY <1>0, <3>1, <4>1
      <4>4. CASE k = i
        <5>1. out'[PathOf(k)] = ContentOf(k) /\ k \in published'
          BY <1>0, <3>1, <3>2, <4>2, <4>4
        <5>2. k < i' /\ (k \in backedUp <=> k \in hadExisting)
          BY <3>1, <4>1, <4>3, <4>4 DEF ForwardEntry
        <5>. QED
          BY <1>1, <3>1, <4>1, <5>1, <5>2 DEF ForwardEntry, Mine
      <4>5. CASE k # i
        <5>1. /\ out'[PathOf(k)] = out[PathOf(k)]
              /\ k \in published' <=> k \in published
          BY <1>0, <3>1, <4>2, <4>5
        <5>. QED
          BY <1>1, <2>2, <3>1, <4>1, <4>3, <4>5, <5>1 DEF ForwardEntry, Mine
      <4>. QED
        BY <4>4, <4>5
    <3>. QED
      BY <2>2, <3>1, <3>3, <3>4, StaysOpen
  <2>. QED
    BY <1>17, <2>1, <2>2 DEF RenameStaged, FailPublish
<1>18. CASE FinishPublish
  <2>1. /\ pc = "publish" /\ pc' = "done" /\ i \notin Idx
        /\ UNCHANGED <<req, out, raced, before, diags>>
        /\ \A k \in Idx : status'[k] = IF k \in publish THEN "Written" ELSE status[k]
    BY <1>0, <1>18 DEF FinishPublish
  <2>2. ok' /\ ~req'.dry_run
    BY <2>1 DEF PlanInv, NoneWritten, ok
  <2>3. ASSUME NEW k \in Idx
        PROVE  /\ status'[k] \in {"Written", "Unchanged"}
               /\ PathOf(k) \notin raced => out[PathOf(k)] = ContentOf(k)
    <3>1. CASE k \in publish
      BY <1>0, <2>1, <3>1 DEF UndoInv, ForwardEntry, Mine
    <3>2. CASE k \notin publish
      <4>1. \A j \in publish : PathOf(j) # PathOf(k)
        BY <1>0, <2>1, <3>2
      <4>2. PathOf(k) \notin raced => out[PathOf(k)] = before[PathOf(k)]
        BY <1>0, <2>1, <4>1 DEF UndoInv, PlanInv, OthersUntouched, ok, RollbackFailed
      <4>3. Decided(k)
        BY <2>1 DEF PlanInv
      <4>. QED
        BY <2>1, <3>2, <4>2, <4>3 DEF Decided, Mine
    <3>. QED
      BY <3>1, <3>2
  <2>4. AllOrNothing'
    BY <1>1, <2>1, <2>2, <2>3 DEF AllOrNothing
  <2>5. OldCopyKept'
    BY <2>1, <2>2 DEF OldCopyKept
  <2>. QED
    BY <2>1, <2>4, <2>5 DEF UndoInv
<1>19. CASE SkipBack
  <2>1. /\ UNCHANGED <<pc, req, before, raced, out, backup, publish, hadExisting,
                       backedUp, published, diags>>
        /\ pc = "rollback" /\ i \notin publish /\ i' = i - 1
    BY <1>19 DEF SkipBack
  <2>2. ~RollbackFailed' => ~RollbackFailed /\ OthersUntouched'
    BY <1>1, <2>1 DEF UndoInv, OthersUntouched, RollbackFailed
  <2>3. ASSUME NEW k \in publish, ~RollbackFailed PROVE BackwardEntry(k)'
    <3>1. BackwardEntry(k)
      BY <2>1, <2>3 DEF UndoInv
    <3>2. k > i' <=> k > i
      BY <1>0, <2>1
    <3>. QED
      BY <1>1, <2>1, <3>1, <3>2 DEF BackwardEntry, Mine
  <2>. QED
    BY <2>1, <2>2, <2>3, StaysOpen
<1>20. CASE RollbackRemove
  <2>1. /\ pc = "rollback" /\ pc' = "restore" /\ i \in publish /\ i \in Idx
        /\ UNCHANGED <<i, req, before, raced, backup, publish, hadExisting, backedUp,
                       published>>
        /\ \/ "output_rollback_failure" \in diags'
           \/ /\ i \in published /\ diags' = diags
              /\ out' = [out EXCEPT ![PathOf(i)] = Absent]
           \/ i \notin published /\ UNCHANGED <<out, diags>>
    BY <1>20 DEF RollbackRemove, Report
  <2>2. ASSUME ~RollbackFailed'
        PROVE  OthersUntouched' /\ \A k \in publish : BackwardEntry(k)'
    <3>1. /\ ~RollbackFailed
          /\ \/ i \in published /\ out' = [out EXCEPT ![PathOf(i)] = Absent]
             \/ i \notin published /\ out' = out
      BY <2>1, <2>2 DEF RollbackFailed
    <3>2. OthersUntouched'
      BY <1>0, <1>1, <2>1, <3>1 DEF UndoInv, OthersUntouched
    <3>3. ASSUME NEW k \in publish PROVE BackwardEntry(k)'
      <4>1. BackwardEntry(k) /\ k \in Idx /\ k \in Int
        BY <1>0, <2>1, <3>1 DEF UndoInv
      <4>2. PathOf(k) \in Paths /\ PathOf(i) \in Paths
            /\ (PathOf(k) = PathOf(i) => k = i)
        BY <1>0, <2>1, <4>1
      <4>3. CASE k = i
        <5>1. ~(k > i') /\ (k \in published => out'[PathOf(k)] = Absent)
          BY <1>0, <2>1, <3>1, <4>1, <4>2, <4>3
        <5>2. k \notin published => out' = out
          BY <3>1, <4>3
        <5>. QED
          BY <1>1, <2>1, <4>1, <4>3, <5>1, <5>2 DEF BackwardEntry, Mine
      <4>4. CASE k # i
        <5>1. out'[PathOf(k)] = out[PathOf(k)]
          BY <1>0, <3>1, <4>2, <4>4
        <5>. QED
          BY <1>1, <2>1, <4>1, <4>4, <5>1 DEF BackwardEntry, Mine
      <4>. QED
        BY <4>3, <4>4
    <3>. QED
      BY <3>2, <3>3
  <2>3. publish' = publish
    BY <2>1
  <2>. QED
    BY <2>1, <2>2, <2>3, StaysOpen
<1>21. CASE RollbackRestore
  <2>1. /\ pc = "restore" /\ pc' = "rollback" /\ i' = i - 1
        /\ UNCHANGED <<req, before, raced, publish, hadExisting, backedUp, published>>
        /\ \/ "output_rollback_failure" \in diags'
           \/ /\ i \in backedUp /\ diags' = diags
              /\ out' = [out EXCEPT ![PathOf(i)] = backup[PathOf(i)]]
              /\ backup' = [backup EXCEPT ![PathOf(i)] = Absent]
           \/ i \notin backedUp /\ UNCHANGED <<out, backup, diags>>
    BY <1>21 DEF RollbackRestore, Report
  <2>2. i \in publish /\ i \in Idx
    BY <1>0, <2>1
  <2>3. ASSUME ~RollbackFailed'
        PROVE  OthersUntouched' /\ \A k \in publish : BackwardEntry(k)'
    <3>1. /\ ~RollbackFailed
          /\ \/ /\ i \in backedUp
                /\ out' = [out EXCEPT ![PathOf(i)] = backup[PathOf(i)]]
                /\ backup' = [backup EXCEPT ![PathOf(i)] = Absent]
             \/ i \notin backedUp /\ out' = out /\ backup' = backup
      BY <2>1, <2>3 DEF RollbackFailed
    <3>2. OthersUntouched'
      BY <1>0, <1>1, <2>1, <2>2, <3>1 DEF UndoInv, OthersUntouched
    <3>3. ASSUME NEW k \in publish PROVE BackwardEntry(k)'
      <4>1. BackwardEntry(k) /\ k \in Idx /\ k \in Int
        BY <1>0, <2>1, <3>1 DEF UndoInv
      <4>2. PathOf(k) \in Paths /\ PathOf(i) \in Paths
            /\ (PathOf(k) = PathOf(i) => k = i)
        BY <1>0, <2>1, <2>2, <4>1
      <4>3. CASE k = i
        <5>1. Mine(k) => out'[PathOf(k)] = before[PathOf(k)]
          BY <1>0, <2>1, <3>1, <4>1, <4>2, <4>3 DEF BackwardEntry
        <5>2. k > i'
          BY <1>0, <2>1, <4>1, <4>3
        <5>. QED
          BY <1>1, <2>1, <5>1, <5>2 DEF BackwardEntry, Mine
      <4>4. CASE k # i
        <5>1. /\ out'[PathOf(k)] = out[PathOf(k)]
              /\ backup'[PathOf(k)] = backup[PathOf(k)]
          BY <1>0, <3>1, <4>2, <4>4
        <5>2. k > i' <=> k > i
          BY <1>0, <2>1, <4>1, <4>4
        <5>. QED
          BY <1>1, <2>1, <4>1, <4>4, <5>1, <5>2 DEF BackwardEntry, Mine
      <4>. QED
        BY <4>3, <4>4
    <3>. QED
      BY <3>2, <3>3
  <2>4. publish' = publish
    BY <2>1
  <2>. QED
    BY <2>1, <2>3, <2>4, StaysOpen
<1>22. CASE FinishRollback
  <2>1. /\ pc = "rollback" /\ pc' = "done" /\ i \notin Idx
        /\ UNCHANGED <<req, out, raced, before, diags, status>>
    BY <1>22 DEF FinishRollback
  <2>2. ~ok' /\ (\A k \in Idx : status[k] # "Written")'
    BY <1>1, <2>1 DEF PlanInv, NoneWritten, ok
  <2>3. ASSUME ~RollbackFailed PROVE Untouched'
    <3>1. \A k \in publish : k > i
      BY <1>0, <2>1
    <3>2. OthersUntouched /\ \A k \in publish : BackwardEntry(k)
      BY <2>1, <2>3 DEF UndoInv
    <3>. QED
      BY <2>1, <3>1, <3>2 DEF Untouched, OthersUntouched, BackwardEntry, Mine
  <2>4. CASE RollbackFailed
    <3>1. RollbackFailed'
      BY <2>1, <2>4 DEF RollbackFailed
    <3>2. AllOrNothing' /\ OldCopyKept'
      BY <2>2, <3>1 DEF AllOrNothing, OldCopyKept
    <3>. QED
      BY <2>1, <3>2 DEF UndoInv
  <2>5. CASE ~RollbackFailed
    BY <2>1, <2>2, <2>3, <2>5, EndedUntouched
  <2>. QED
    BY <2>4, <2>5
<1>23. CASE Crash
  <2>1. /\ pc \notin Resting /\ pc' = "crashed"
        /\ UNCHANGED <<diags, out, backup, before, raced>>
    BY <1>23 DEF Crash
  <2>2. OldCopyKept'
    BY <2>1 DEF UndoInv, OldCopyKept, RollbackFailed
  <2>3. AllOrNothing'
    BY <2>1 DEF AllOrNothing
  <2>. QED
    BY <2>1, <2>2, <2>3 DEF UndoInv
<1>24. ASSUME NEW r \in Requests, Start(r) \/ StartWithoutRoot(r)
       PROVE  UndoInv'
  <2>1. /\ out' = out /\ before' = out /\ backedUp' = {} /\ published' = {}
        /\ req' = r
    BY <1>24 DEF Start, StartWithoutRoot, Begin
  <2>2. Untouched'
    BY <2>1 DEF Untouched
  <2>3. CASE pc' = "root"
    BY <2>1, <2>2, <2>3, StaysEarly
  <2>4. CASE pc' = "done"
    <3>1. ~(ok' /\ ~req'.dry_run)
      BY <1>24, <2>1, <2>4 DEF Start, StartWithoutRoot, ok
    <3>2. (\A k \in Idx : status[k] # "Written")'
      BY <1>24, <2>1 DEF Start, StartWithoutRoot, PlannedStatus, Idx
    <3>. QED
      BY <2>2, <2>4, <3>1, <3>2, EndedUntouched
  <2>. QED
    BY <1>24, <2>3, <2>4 DEF Start, StartWithoutRoot
<1>25. ASSUME NEW p \in Paths, NEW c \in Contents \union {Absent, Odd}, Edit(p, c)
       PROVE  UndoInv'
  <2>1. /\ UNCHANGED <<pc, i, req, backup, publish, hadExisting, backedUp, published,
                       status, diags>>
        /\ pc \notin Resting
        /\ out' = [out EXCEPT ![p] = c]
        /\ before' = [before EXCEPT ![p] = c]
        /\ raced \subseteq raced'
        /\ LookedAt(p) => p \in raced'
    BY <1>25 DEF Edit
  <2>2. \A q \in Paths : q # p => out'[q] = out[q] /\ before'[q] = before[q]
    BY <1>0, <2>1
  <2>3. CASE pc \in Early
    <3>1. Untouched'
      BY <1>0, <2>1, <2>2, <2>3 DEF UndoInv, Untouched
    <3>. QED
      BY <2>1, <2>3, <3>1, StaysEarly DEF UndoInv
  <2>4. CASE pc \in Forward \union Backward
    <3>1. p \in raced'
      BY <2>1, <2>4 DEF LookedAt, Phases
    <3>2. ~RollbackFailed' => ~RollbackFailed /\ OthersUntouched'
      BY <1>1, <2>1, <2>2, <2>4, <3>1 DEF UndoInv, OthersUntouched, RollbackFailed
    <3>3. ASSUME NEW k \in publish
          PROVE  Mine(k)' => /\ Mine(k)
                             /\ out'[PathOf(k)] = out[PathOf(k)]
                             /\ before'[PathOf(k)] = before[PathOf(k)]
      BY <1>0, <1>1, <2>1, <2>2, <3>1 DEF Mine
    <3>4. ASSUME NEW k \in publish, pc \in Forward PROVE ForwardEntry(k)'
      <4>1. ForwardEntry(k)
        BY <3>4 DEF UndoInv
      <4>. QED
        BY <1>1, <2>1, <3>3, <4>1 DEF ForwardEntry
    <3>5. ASSUME NEW k \in publish, pc \in Backward, ~RollbackFailed
          PROVE  BackwardEntry(k)'
      <4>1. BackwardEntry(k)
        BY <3>5 DEF UndoInv
      <4>. QED
        BY <1>1, <2>1, <3>3, <4>1 DEF BackwardEntry
    <3>. QED
      BY <2>1, <2>4, <3>2, <3>4, <3>5, StaysOpen
  <2>. QED
    BY <2>1, <2>3, <2>4 DEF TypeInv, TypeOK, Phases
<1>26. CASE UNCHANGED vars
  <2>1. UNCHANGED <<pc, i, req, publish, hadExisting, backedUp, published, status,
                    diags, out, backup, before, raced>>
    BY <1>26 DEF vars
  <2>2. /\ Untouched' <=> Untouched
        /\ OthersUntouched' <=> OthersUntouched
        /\ \A k : ForwardEntry(k)' <=> ForwardEntry(k)
        /\ \A k : BackwardEntry(k)' <=> BackwardEntry(k)
    BY <1>1, <2>1 DEF Untouched, OthersUntouched, ForwardEntry, BackwardEntry, Mine
  <2>3. AllOrNothing'
    BY <1>1, <2>1 DEF UndoInv, AllOrNothing, ok, RollbackFailed
  <2>4. OldCopyKept'
    BY <2>1 DEF UndoInv, OldCopyKept, ok, RollbackFailed
  <2>. QED
    BY <2>1, <2>2, <2>3, <2>4 DEF UndoInv, RollbackFailed
<1>. QED
  BY <1>6, <1>7, <1>8, <1>9, <1>10, <1>11, <1>12, <1>13, <1>15, <1>16, <1>17, <1>18,
     <1>19, <1>20, <1>21, <1>22, <1>23, <1>24, <1>25, <1>26 DEF Next, WriterStep

LEMMA Undo == Spec => [](TypeInv /\ TornInv /\ PlanInv /\ UndoInv)
<1>1. Init => TornInv /\ PlanInv /\ UndoInv
  BY InitTornInv, InitPlanInv, InitUndoInv
<1>2. TypeInv /\ TypeInv' /\ TornInv /\ PlanInv /\ UndoInv /\ [Next]_vars
        => TornInv' /\ PlanInv' /\ UndoInv'
  BY TornInvStep, PlanInvStep, UndoInvStep
<1>. QED
  BY <1>1, <1>2, TypeInvariant, PTL DEF Spec

(* A call that reports a problem has changed no file, unless it reports that
   its rollback failed; a call that reports none has put every file in place.
   This is for any number of files, classes and failing operations.         *)
THEOREM FailedCallChangesNothing == Spec => []AllOrNothing
<1>1. UndoInv => AllOrNothing
  BY DEF UndoInv
<1>. QED
  BY <1>1, Undo, PTL

(* Also when the process dies, at any point of the publication or of the
   rollback, each file found by the call is at its path or in the backup
   directory until the call has succeeded or a failed rollback is reported.  *)
THEOREM OldFilesKept == Spec => []OldCopyKept
<1>1. UndoInv => OldCopyKept
  BY DEF UndoInv
<1>. QED
  BY <1>1, Undo, PTL
-----------------------------------------------------------------------------
(* What a call has done when it returns *)

Open == pc \notin Resting

Returned == pc = "done"

HalfWay == (backedUp \ published) \intersect publish

FlightInv ==
  pc \in Backward /\ ~RollbackFailed =>
    /\ \A k \in publish \intersect published :
         Mine(k) /\ k <= i /\ (k = i => pc # "restore") => out[PathOf(k)] = ContentOf(k)
    /\ \A k \in HalfWay : \A j \in publish \intersect published : j < k
    /\ \A j, k \in HalfWay : j = k

Settled == {"Unchanged", "SkippedExisting"}

SettledEntry(k) ==
  status[k] \in Settled =>
    /\ k \notin publish
    /\ Mine(k) =>
         /\ out[PathOf(k)] = before[PathOf(k)]
         /\ status[k] = "Unchanged" <=> before[PathOf(k)] = ContentOf(k)

ReportInv ==
  /\ pc \notin Resting => \A k \in Idx : SettledEntry(k)
  /\ pc \in {"root", "parents"} => \A k \in Idx : status[k] = "Failed"
  /\ pc = "check" => \A k \in Idx : k >= i => status[k] = "Failed"
-----------------------------------------------------------------------------
(* Where the files are while a call is under way: a path without the file  *)
(* found there belongs to the one entry that is half published, or to the  *)
(* one that is half taken back, and these are never both under way.        *)
LEMMA OneWhileOpen ==
  TypeInv /\ PlanInv /\ UndoInv /\ FlightInv /\ Open => OneFileInFlight
<1>. SUFFICES ASSUME TypeInv, PlanInv, UndoInv, FlightInv, pc \notin Resting,
                     ~RollbackFailed,
                     NEW p \in Paths \ raced, NEW q \in Paths \ raced,
                     before[p] # Absent, out[p] = Absent,
                     before[q] # Absent, out[q] = Absent
              PROVE  p = q
  BY DEF OneFileInFlight, Open
<1>1. pc \notin Early
  BY DEF UndoInv, Untouched
<1>2. pc \in Forward \union Backward
  BY <1>1 DEF TypeInv, TypeOK, Phases, Resting, Early, Forward, Backward
<1>3. PICK j \in publish : PathOf(j) = p
  BY <1>2 DEF UndoInv, OthersUntouched
<1>4. PICK k \in publish : PathOf(k) = q
  BY <1>2 DEF UndoInv, OthersUntouched
<1>5. /\ j \in Int /\ k \in Int /\ i \in Int
      /\ Mine(j) /\ Mine(k)
      /\ ContentOf(j) # Absent /\ ContentOf(k) # Absent
  BY <1>3, <1>4, PlanFacts, ContentsAreComplete DEF Mine, TypeInv
<1>6. CASE pc \in Forward
  <2>1. ForwardEntry(j) /\ ForwardEntry(k)
    BY <1>3, <1>4, <1>6 DEF UndoInv
  <2>2. j = i /\ k = i
    BY <1>3, <1>4, <1>5, <2>1 DEF ForwardEntry
  <2>. QED
    BY <1>3, <1>4, <2>2
<1>7. CASE pc \in Backward
  <2>1. BackwardEntry(j) /\ BackwardEntry(k)
    BY <1>3, <1>4, <1>7 DEF UndoInv
  <2>2. j <= i /\ k <= i
    BY <1>3, <1>4, <1>5, <2>1 DEF BackwardEntry
  <2>3. /\ j \in published => j = i /\ pc = "restore"
        /\ k \in published => k = i /\ pc = "restore"
    BY <1>3, <1>4, <1>5, <1>7, <2>2 DEF FlightInv
  <2>4. /\ j \notin published => j \in HalfWay
        /\ k \notin published => k \in HalfWay
    BY <1>3, <1>4, <1>5, <2>1, <2>2 DEF BackwardEntry, HalfWay
  <2>5. j = k
    BY <1>5, <1>7, <2>2, <2>3, <2>4 DEF FlightInv
  <2>. QED
    BY <1>3, <1>4, <2>5
<1>. QED
  BY <1>2, <1>6, <1>7
-----------------------------------------------------------------------------
LEMMA InitFlightInv == Init => FlightInv /\ OneFileInFlight
BY DEF Init, FlightInv, Backward, OneFileInFlight

(* The undo begins with every file before the failed entry published.      *)
LEMMA UndoBegins ==
  ASSUME TypeInv, UndoInv, pc \in Forward, FailPublish,
         UNCHANGED <<req, publish, backedUp, published, out, raced>>
  PROVE  FlightInv'
<1>1. /\ i \in Int /\ publish \subseteq Idx /\ Idx = 1 .. Len(req.files)
      /\ Len(req.files) \in Nat
  BY PlanFacts
<1>2. \A k \in publish : ForwardEntry(k)
  BY DEF UndoInv
<1>3. pc' = "rollback"
  BY DEF FailPublish
<1>4. ASSUME NEW k \in publish, k \in published, Mine(k)
      PROVE  out[PathOf(k)] = ContentOf(k)
  BY <1>2, <1>4 DEF ForwardEntry
<1>5. ASSUME NEW k \in HalfWay
      PROVE  k = i /\ \A j \in publish \intersect published : j < k
  <2>1. k \in publish /\ ForwardEntry(k) /\ k \in backedUp /\ k \notin published
    BY <1>2 DEF HalfWay
  <2>2. k = i
    BY <1>1, <2>1 DEF ForwardEntry
  <2>. QED
    BY <1>2, <2>2 DEF ForwardEntry
<1>6. HalfWay' = HalfWay /\ \A k : (Mine(k)' <=> Mine(k)) /\ PathOf(k)' = PathOf(k)
                                  /\ ContentOf(k)' = ContentOf(k)
  BY DEF HalfWay, Mine, PathOf, ContentOf
<1>. QED
  BY <1>3, <1>4, <1>5, <1>6 DEF FlightInv

LEMMA FlightInvStep == TypeInv /\ UndoInv /\ FlightInv /\ [Next]_vars => FlightInv'
<1>. SUFFICES ASSUME TypeInv, UndoInv, FlightInv, [Next]_vars,
                     pc' \in Backward, ~RollbackFailed'
              PROVE  FlightInv'
  BY DEF FlightInv
<1>. USE DEF Backward, argVars, planVars, fsVars, histVars, counters, resVars
<1>0. /\ i \in Int /\ publish \subseteq Idx /\ Idx = 1 .. Len(req.files)
      /\ Len(req.files) \in Nat
      /\ out \in [Paths -> Values]
      /\ pc \in Backward => \A k \in Idx : PathOf(k) \in Paths
      /\ pc \in Backward => \A j, k \in Idx : PathOf(j) = PathOf(k) => j = k
  BY PlanFacts DEF Resting
(* The rollback goes on; it may have touched the file of entry i. *)
<1>1. ASSUME pc \in Backward, ~RollbackFailed,
             UNCHANGED <<req, publish, backedUp, published>>,
             raced \subseteq raced',
             i' <= i, i' \in Int,
             \A k \in publish \intersect published :
               Mine(k)' /\ k <= i' /\ (k = i' => pc' # "restore") =>
                 /\ k = i => pc # "restore"
                 /\ out'[PathOf(k)] = out[PathOf(k)]
      PROVE  FlightInv'
  <2>1. HalfWay' = HalfWay /\ \A k : (Mine(k)' => Mine(k)) /\ PathOf(k)' = PathOf(k)
                                    /\ ContentOf(k)' = ContentOf(k)
    BY <1>1 DEF HalfWay, Mine, PathOf, ContentOf
  <2>2. \A k \in publish : k \in Int
    BY <1>0
  <2>3. ASSUME NEW k \in publish \intersect published,
               Mine(k)', k <= i', k = i' => pc' # "restore"
        PROVE  out'[PathOf(k)] = ContentOf(k)
    <3>1. k <= i
      BY <1>0, <1>1, <2>2, <2>3
    <3>. QED
      BY <1>1, <2>1, <2>3, <3>1 DEF FlightInv
  <2>. QED
    BY <1>1, <2>1, <2>3 DEF FlightInv
<1>2. ASSUME pc \in Forward,
             BackupExisting \/ OutputPathStillPublishable \/ RenameStaged
      PROVE  FlightInv'
  BY <1>2, UndoBegins DEF BackupExisting, OutputPathStillPublishable, RenameStaged, Forward
<1>3. CASE SkipBack
  <2>1. ~RollbackFailed
    BY <1>3 DEF SkipBack, RollbackFailed
  <2>. QED
    BY <1>0, <1>1, <1>3, <2>1 DEF SkipBack
<1>4. CASE RollbackRemove
  <2>1. ~RollbackFailed
    BY <1>4 DEF RollbackRemove, RollbackFailed, Report
  <2>2. pc' = "restore" /\ i' = i /\ pc = "rollback"
    BY <1>4 DEF RollbackRemove
  <2>3. ASSUME NEW k \in publish, k # i PROVE out'[PathOf(k)] = out[PathOf(k)]
    <3>1. i \in Idx
      BY <1>4 DEF RollbackRemove
    <3>2. PathOf(k) # PathOf(i) /\ PathOf(k) \in Paths
      BY <1>0, <2>2, <2>3, <3>1
    <3>. QED
      BY <1>0, <1>4, <3>2 DEF RollbackRemove
  <2>. QED
    BY <1>0, <1>1, <1>4, <2>1, <2>2, <2>3 DEF RollbackRemove
<1>5. CASE RollbackRestore
  <2>1. ~RollbackFailed
    BY <1>5 DEF RollbackRestore, RollbackFailed, Report
  <2>2. pc' = "rollback" /\ i' = i - 1 /\ pc = "restore"
    BY <1>5 DEF RollbackRestore
  <2>3. i \in Idx
    BY <2>2, PlanFacts DEF AtEntry
  <2>4. ASSUME NEW k \in publish, k # i PROVE out'[PathOf(k)] = out[PathOf(k)]
    <3>1. PathOf(k) # PathOf(i) /\ PathOf(k) \in Paths
      BY <1>0, <2>2, <2>3, <2>4
    <3>. QED
      BY <1>0, <1>5, <3>1 DEF RollbackRestore
  <2>5. \A k \in publish : k <= i' => k # i
    BY <1>0, <2>2
  <2>. QED
    BY <1>0, <1>1, <1>5, <2>1, <2>2, <2>4, <2>5 DEF RollbackRestore
<1>6. ASSUME NEW p \in Paths, NEW c \in Contents \union {Absent, Odd}, Edit(p, c)
      PROVE  FlightInv'
  <2>1. /\ UNCHANGED <<pc, i, req, publish, backedUp, published, diags>>
        /\ out' = [out EXCEPT ![p] = c]
        /\ raced' = raced \union {p}
    BY <1>6 DEF Edit, LookedAt, Phases, Resting
  <2>2. ~RollbackFailed
    BY <2>1 DEF RollbackFailed
  <2>3. ASSUME NEW k \in publish, Mine(k)' PROVE out'[PathOf(k)] = out[PathOf(k)]
    <3>1. PathOf(k) # p /\ PathOf(k) \in Paths
      BY <1>0, <2>1, <2>3 DEF Mine, PathOf
    <3>. QED
      BY <1>0, <2>1, <3>1
  <2>. QED
    BY <1>0, <1>1, <2>1, <2>2, <2>3
<1>7. CASE UNCHANGED vars
  <2>1. ~RollbackFailed
    BY <1>7 DEF vars, RollbackFailed
  <2>. QED
    BY <1>0, <1>1, <1>7, <2>1 DEF vars
<1>8. /\ ~CreateOutputRoot /\ ~PrepareOutputParents /\ ~CheckExistingOutputs
      /\ ~FinishCheck /\ ~PrepareStagingRoot /\ ~SkipForward /\ ~OpenStaged
      /\ ~WriteStaged /\ ~FinishStage /\ ~FinishPublish /\ ~FinishRollback /\ ~Crash
  BY DEF CreateOutputRoot, PrepareOutputParents, CheckExistingOutputs, CheckAbsent,
     CheckConflict, CheckUnchanged, CheckSkipped, CheckOverwrite, Checking, CheckDone,
     FinishCheck, PrepareStagingRoot, SkipForward, OpenStaged, WriteStaged, FinishStage,
     FinishPublish, FinishRollback, Crash
<1>9. \A r \in Requests : ~Start(r) /\ ~StartWithoutRoot(r)
  BY DEF Start, StartWithoutRoot
<1>10. BackupExisting \/ OutputPathStillPublishable \/ RenameStaged => pc \in Forward
  BY DEF BackupExisting, OutputPathStillPublishable, AtInspection, RenameStaged, Forward
<1>. QED
  BY <1>2, <1>3, <1>4, <1>5, <1>6, <1>7, <1>8, <1>9, <1>10 DEF Next, WriterStep
-----------------------------------------------------------------------------
(* A step after which every call has ended has left the files alone.       *)
LEMMA EndingStep ==
  ASSUME [Next]_vars, pc' \in Resting
  PROVE  \/ \E r \in Requests : Start(r) \/ StartWithoutRoot(r)
         \/ UNCHANGED <<req, out, before, raced>> /\ diags \subseteq diags'
<1>. USE DEF argVars, planVars, fsVars, histVars, counters, resVars, Resting
<1>1. CASE WriterStep
  BY <1>1 DEF WriterStep, CreateOutputRoot, PrepareOutputParents, CheckExistingOutputs,
     CheckAbsent, CheckConflict, CheckUnchanged, CheckSkipped, CheckOverwrite, Checking,
     CheckDone, FinishCheck, PrepareStagingRoot, SkipForward, OpenStaged, WriteStaged,
     FinishStage, BackupExisting, OutputPathStillPublishable, AtInspection, RenameStaged,
     FailPublish, FinishPublish, SkipBack, RollbackRemove, RollbackRestore,
     FinishRollback, Report
<1>2. CASE Crash \/ UNCHANGED vars
  BY <1>2 DEF Crash, vars
<1>3. ASSUME NEW p \in Paths, NEW c \in Contents \union {Absent, Odd}, Edit(p, c)
      PROVE  FALSE
  BY <1>3 DEF Edit
<1>. QED
  BY <1>1, <1>2, <1>3 DEF Next

LEMMA OneWhenEnded ==
  ASSUME TypeInv, PlanInv, UndoInv, FlightInv, OneFileInFlight, [Next]_vars, pc' \in Resting
  PROVE  OneFileInFlight'
<1>1. CASE \E r \in Requests : Start(r) \/ StartWithoutRoot(r)
  BY <1>1 DEF Start, StartWithoutRoot, Begin, fsVars, OneFileInFlight
<1>2. CASE UNCHANGED <<req, out, before, raced>> /\ diags \subseteq diags'
  BY <1>2 DEF OneFileInFlight, RollbackFailed
<1>. QED
  BY <1>1, <1>2, EndingStep

(* Wherever the process dies, whatever fails, in a publication of any      *)
(* number of files at most one of those found is gone without a successor. *)
THEOREM OneInFlight == Spec => []OneFileInFlight
<1>1. Init => FlightInv /\ OneFileInFlight
  BY InitFlightInv
<1>2. TypeInv /\ UndoInv /\ FlightInv /\ [Next]_vars => FlightInv'
  BY FlightInvStep
<1>3. TypeInv /\ PlanInv /\ UndoInv /\ FlightInv /\ Open => OneFileInFlight
  BY OneWhileOpen
<1>4. TypeInv /\ PlanInv /\ UndoInv /\ FlightInv /\ OneFileInFlight /\ [Next]_vars
        /\ ~Open' => OneFileInFlight'
  BY OneWhenEnded DEF Open
<1>. QED
  BY <1>1, <1>2, <1>3, <1>4, Undo, PTL DEF Spec
-----------------------------------------------------------------------------
LEMMA InitReportInv == Init => ReportInv /\ ReportsMatchDisk
BY DEF Init, ReportInv, Resting, ReportsMatchDisk

(* An entry stays settled while its status and its path are left alone.    *)
LEMMA SettledFrame ==
  ASSUME UNCHANGED req, raced \subseteq raced', NEW k, SettledEntry(k),
         k \in publish' => k \in publish,
         status'[k] \in Settled => status'[k] = status[k],
         Mine(k)' => /\ out'[PathOf(k)] = out[PathOf(k)]
                     /\ before'[PathOf(k)] = before[PathOf(k)]
  PROVE  SettledEntry(k)'
<1>1. PathOf(k)' = PathOf(k) /\ ContentOf(k)' = ContentOf(k)
  BY RequestFrame
<1>2. Mine(k)' => Mine(k)
  BY <1>1 DEF Mine
<1>. QED
  BY <1>1, <1>2 DEF SettledEntry

LEMMA ReportInvStep == TypeInv /\ PlanInv /\ UndoInv /\ ReportInv /\ [Next]_vars => ReportInv'
<1>. SUFFICES ASSUME TypeInv, PlanInv, UndoInv, ReportInv, [Next]_vars, pc' \notin Resting
              PROVE  ReportInv'
  BY DEF ReportInv, Resting
<1>. USE DEF argVars, planVars, fsVars, histVars, counters, resVars
<1>0. /\ i \in Int /\ publish \subseteq Idx /\ Idx = 1 .. Len(req.files)
      /\ Len(req.files) \in Nat
      /\ status \in [Idx -> Status]
      /\ out \in [Paths -> Values] /\ before \in [Paths -> Values]
      /\ pc \notin Resting => \A k \in Idx : PathOf(k) \in Paths
      /\ pc \notin Resting => \A j, k \in Idx : PathOf(j) = PathOf(k) => j = k
  BY PlanFacts
<1>1. UNCHANGED req => Idx' = Idx
  BY RequestFrame
(* From the preparation on, only entries to publish are touched.           *)
<1>2. ASSUME pc \notin Resting, pc' \notin {"root", "parents", "check"},
             UNCHANGED <<req, publish, before, raced>>,
             status' = status \/ status' = MarkPublishEntriesFailed,
             out' = out \/ (i \in publish /\ \E v : out' = [out EXCEPT ![PathOf(i)] = v])
      PROVE  ReportInv'
  <2>1. ASSUME NEW k \in Idx, SettledEntry(k)
        PROVE  SettledEntry(k)'
    <3>1. CASE k \in publish
      <4>1. status'[k] \notin Settled
        BY <1>0, <1>2, <2>1, <3>1 DEF SettledEntry, MarkPublishEntriesFailed, Settled
      <4>. QED
        BY <4>1 DEF SettledEntry
    <3>2. CASE k \notin publish
      <4>1. out'[PathOf(k)] = out[PathOf(k)]
        BY <1>0, <1>2, <3>2
      <4>2. status'[k] = status[k]
        BY <1>0, <1>2, <3>2 DEF MarkPublishEntriesFailed
      <4>. QED
        BY <1>2, <2>1, <4>1, <4>2, SettledFrame
    <3>. QED
      BY <3>1, <3>2
  <2>. QED
    BY <1>1, <1>2, <2>1 DEF ReportInv
<1>3. CASE CreateOutputRoot \/ PrepareOutputParents
  <2>1. /\ UNCHANGED <<req, publish, status, out, before, raced>>
        /\ pc \in {"root", "parents"}
    BY <1>3 DEF CreateOutputRoot, PrepareOutputParents, Resting
  <2>2. \A k \in Idx : status[k] = "Failed"
    BY <2>1 DEF ReportInv
  <2>3. \A k \in Idx' : SettledEntry(k)'
    BY <1>1, <2>1, <2>2 DEF SettledEntry, Settled
  <2>. QED
    BY <1>1, <2>1, <2>2, <2>3 DEF ReportInv
<1>4. CASE CheckExistingOutputs
  <2>1. /\ pc = "check" /\ pc' = "check" /\ i \in Idx /\ i' = i + 1
        /\ UNCHANGED <<req, before, raced, out>>
        /\ publish' \subseteq publish \union {i}
        /\ status' \in {status, [status EXCEPT ![i] = "Unchanged"],
                        [status EXCEPT ![i] = "SkippedExisting"]}
    BY <1>4 DEF CheckExistingOutputs, CheckAbsent, CheckConflict, CheckUnchanged,
       CheckSkipped, CheckOverwrite, Checking, CheckDone
  <2>2. status[i] = "Failed" /\ i \notin publish
    BY <1>0, <2>1 DEF ReportInv, PlanInv, DecidedUpTo
  <2>3. \A k \in Idx : k # i => status'[k] = status[k]
    BY <1>0, <2>1
  <2>4. \A k \in Idx' : k >= i' => status'[k] = "Failed"
    <3>1. \A k \in Idx : k >= i + 1 => k # i /\ k >= i
      BY <1>0
    <3>. QED
      BY <1>1, <2>1, <2>3, <3>1 DEF ReportInv
  <2>5. ASSUME NEW k \in Idx, k # i PROVE SettledEntry(k)'
    <3>1. SettledEntry(k)
      BY <2>1 DEF ReportInv, Resting
    <3>2. status'[k] = status[k] /\ (k \in publish' => k \in publish)
      BY <2>1, <2>3, <2>5
    <3>. QED
      BY <2>1, <3>1, <3>2, SettledFrame
  <2>6. ASSUME NEW k \in Idx, k = i PROVE SettledEntry(k)'
    <3>1. Mine(k) => out[PathOf(k)] = before[PathOf(k)]
      BY <1>0, <2>1 DEF UndoInv, Untouched, Mine, Early, Resting
    <3>2. /\ PathOf(k)' = PathOf(k) /\ ContentOf(k)' = ContentOf(k)
          /\ Mine(k)' <=> Mine(k)
      BY <2>1, RequestFrame DEF Mine
    <3>3. CASE CheckAbsent \/ CheckConflict \/ CheckOverwrite
      <4>1. status' = status
        BY <3>3 DEF CheckAbsent, CheckConflict, CheckOverwrite, CheckDone
      <4>. QED
        BY <2>2, <2>6, <4>1 DEF SettledEntry, Settled
    <3>4. CASE CheckUnchanged
      <4>1. /\ status'[k] = "Unchanged" /\ k \notin publish'
            /\ out[PathOf(k)] = ContentOf(k)
        BY <1>0, <2>1, <2>2, <2>6, <3>4 DEF CheckUnchanged, CheckDone
      <4>. QED
        BY <2>1, <3>1, <3>2, <4>1 DEF SettledEntry, Settled
    <3>5. CASE CheckSkipped
      <4>1. /\ status'[k] = "SkippedExisting" /\ k \notin publish'
            /\ out[PathOf(k)] # ContentOf(k)
        BY <1>0, <2>1, <2>2, <2>6, <3>5 DEF CheckSkipped, CheckDone
      <4>. QED
        BY <2>1, <3>1, <3>2, <4>1 DEF SettledEntry, Settled
    <3>. QED
      BY <1>4, <3>3, <3>4, <3>5 DEF CheckExistingOutputs
  <2>. QED
    BY <1>1, <2>1, <2>4, <2>5, <2>6 DEF ReportInv
<1>5. CASE FinishCheck
  <2>1. /\ pc = "check" /\ pc' = "prepare"
        /\ UNCHANGED <<req, before, raced, out>>
        /\ publish' \subseteq publish
    BY <1>5 DEF FinishCheck, Resting
  <2>2. \A k \in Idx : status'[k] \in Settled => status'[k] = status[k]
    BY <1>0, <1>5 DEF FinishCheck, Settled
  <2>3. \A k \in Idx : SettledEntry(k)
    BY <2>1 DEF ReportInv, Resting
  <2>4. ASSUME NEW k \in Idx PROVE SettledEntry(k)'
    BY <2>1, <2>2, <2>3, SettledFrame
  <2>. QED
    BY <1>1, <2>1, <2>4 DEF ReportInv
<1>6. CASE PrepareStagingRoot \/ SkipForward \/ OpenStaged \/ WriteStaged \/ FinishStage
  <2>1. /\ UNCHANGED <<req, publish, before, raced, out>>
        /\ status' = status \/ status' = MarkPublishEntriesFailed
        /\ pc \notin Resting /\ pc' \notin {"root", "parents", "check"}
    BY <1>6 DEF PrepareStagingRoot, SkipForward, OpenStaged, WriteStaged, FinishStage, Resting
  <2>. QED
    BY <1>2, <2>1
<1>7. CASE BackupExisting \/ OutputPathStillPublishable \/ RenameStaged
  <2>1. /\ UNCHANGED <<req, publish, before, raced>>
        /\ status' = status \/ status' = MarkPublishEntriesFailed
        /\ pc \in Forward /\ pc' \notin {"root", "parents", "check"}
        /\ out' = out \/ \E v : out' = [out EXCEPT ![PathOf(i)] = v]
    BY <1>7 DEF BackupExisting, OutputPathStillPublishable, AtInspection, RenameStaged,
       FailPublish, Forward
  <2>2. out' = out \/ i \in publish
    <3>1. CASE BackupExisting
      BY <3>1 DEF BackupExisting
    <3>2. CASE OutputPathStillPublishable
      BY <3>2 DEF OutputPathStillPublishable
    <3>3. CASE RenameStaged
      BY <3>3, PlanFacts DEF RenameStaged, AtEntry
    <3>. QED
      BY <1>7, <3>1, <3>2, <3>3
  <2>. QED
    BY <1>2, <2>1, <2>2 DEF Forward, Resting
<1>8. CASE SkipBack \/ RollbackRemove \/ RollbackRestore
  <2>1. /\ UNCHANGED <<req, publish, before, raced, status>>
        /\ pc \in Backward /\ pc' \notin {"root", "parents", "check"}
        /\ out' = out \/ \E v : out' = [out EXCEPT ![PathOf(i)] = v]
    BY <1>8 DEF SkipBack, RollbackRemove, RollbackRestore, Backward
  <2>2. out' = out \/ i \in publish
    <3>1. CASE SkipBack
      BY <3>1 DEF SkipBack
    <3>2. CASE RollbackRemove
      BY <3>2 DEF RollbackRemove
    <3>3. CASE RollbackRestore
      BY <3>3, PlanFacts DEF RollbackRestore, AtEntry
    <3>. QED
      BY <1>8, <3>1, <3>2, <3>3
  <2>. QED
    BY <1>2, <2>1, <2>2 DEF Backward, Resting
<1>9. ASSUME NEW r \in Requests, Start(r)
      PROVE  ReportInv'
  <2>1. /\ pc' = "root" /\ req' = r /\ status' = PlannedStatus(r) /\ ~r.dry_run
    BY <1>9 DEF Start, Begin, Resting
  <2>2. \A k \in Idx' : status'[k] = "Failed"
    BY <2>1 DEF PlannedStatus, Idx
  <2>. QED
    BY <2>1, <2>2 DEF ReportInv, SettledEntry, Settled
<1>10. ASSUME NEW p \in Paths, NEW c \in Contents \union {Absent, Odd}, Edit(p, c)
       PROVE  ReportInv'
  <2>1. /\ UNCHANGED <<pc, i, req, publish, status>> /\ pc \notin Resting
        /\ out' = [out EXCEPT ![p] = c] /\ before' = [before EXCEPT ![p] = c]
        /\ raced' = IF LookedAt(p) THEN raced \union {p} ELSE raced
    BY <1>10 DEF Edit
  <2>2. ASSUME NEW k \in Idx PROVE SettledEntry(k)'
    <3>1. SettledEntry(k) /\ PathOf(k) \in Paths
      BY <1>0, <2>1 DEF ReportInv
    <3>2. CASE status[k] \notin Settled
      BY <2>1, <3>2 DEF SettledEntry
    <3>3. CASE PathOf(k) # p
      BY <1>0, <2>1, <3>1, <3>3, SettledFrame
    <3>4. CASE status[k] \in Settled /\ PathOf(k) = p
      <4>1. LookedAt(p)
        <5>1. pc \notin {"root", "parents"}
          BY <3>4 DEF ReportInv, Settled
        <5>2. pc = "check" => k \in 1 .. i - 1
          BY <1>0, <3>4 DEF ReportInv, Settled
        <5>. QED
          BY <2>1, <3>4, <5>1, <5>2 DEF LookedAt, TypeInv, TypeOK
      <4>2. ~Mine(k)'
        BY <2>1, <3>4, <4>1 DEF Mine, PathOf
      <4>. QED
        BY <2>1, <3>1, <4>2, SettledFrame
    <3>. QED
      BY <3>2, <3>3, <3>4
  <2>. QED
    BY <1>1, <2>1, <2>2 DEF ReportInv
<1>11. CASE UNCHANGED vars
  <2>1. UNCHANGED <<pc, i, req, publish, status, out, before, raced>>
    BY <1>11 DEF vars
  <2>2. ASSUME NEW k \in Idx PROVE SettledEntry(k)'
    BY <2>1, SettledFrame DEF ReportInv
  <2>. QED
    BY <1>1, <2>1, <2>2 DEF ReportInv
<1>12. /\ ~FinishPublish /\ ~FinishRollback /\ ~Crash
       /\ \A r \in Requests : ~StartWithoutRoot(r)
  BY DEF FinishPublish, FinishRollback, Crash, StartWithoutRoot, Resting
<1>. QED
  BY <1>3, <1>4, <1>5, <1>6, <1>7, <1>8, <1>9, <1>10, <1>11, <1>12 DEF Next, WriterStep

(* The statuses a call returns with.                                       *)
LEMMA ReportsAtEnd ==
  ASSUME TypeInv, ReportInv, ReportsMatchDisk, TypeInv', UndoInv', [Next]_vars, pc' = "done"
  PROVE  ReportsMatchDisk'
<1>. USE DEF argVars, planVars, fsVars, histVars, counters, resVars
<1>1. ASSUME NEW r \in Requests, Start(r) \/ StartWithoutRoot(r)
      PROVE  ReportsMatchDisk'
  <2>1. /\ out' = out /\ before' = out /\ req' = r
        /\ \A k \in Idx' : status'[k] \in {"Planned", "Failed"}
    BY <1>1 DEF Start, StartWithoutRoot, Begin, PlannedStatus, Idx
  <2>. QED
    BY <2>1 DEF ReportsMatchDisk
<1>2. CASE UNCHANGED vars
  <2>1. UNCHANGED <<pc, req, status, out, before, raced, diags>>
    BY <1>2 DEF vars
  <2>. QED
    BY <2>1 DEF ReportsMatchDisk, Idx, PathOf, ContentOf, RollbackFailed
<1>3. CASE WriterStep
  <2>1. /\ pc \notin Resting /\ UNCHANGED <<req, out, before, raced>>
    BY <1>3 DEF WriterStep, CreateOutputRoot, PrepareOutputParents, CheckExistingOutputs,
       CheckAbsent, CheckConflict, CheckUnchanged, CheckSkipped, CheckOverwrite, Checking,
       CheckDone, FinishCheck, PrepareStagingRoot, SkipForward, OpenStaged, WriteStaged,
       FinishStage, BackupExisting, OutputPathStillPublishable, AtInspection, RenameStaged,
       FailPublish, FinishPublish, SkipBack, RollbackRemove, RollbackRestore,
       FinishRollback, Resting
  <2>2. status \in [Idx -> Status] /\ Idx' = Idx
    BY <2>1, PlanFacts, RequestFrame
  <2>3. \A k \in Idx : status'[k] \in Settled => status'[k] = status[k]
    BY <1>3, <2>2 DEF WriterStep, CreateOutputRoot, PrepareOutputParents, CheckExistingOutputs,
       CheckAbsent, CheckConflict, CheckUnchanged, CheckSkipped, CheckOverwrite, Checking,
       CheckDone, FinishCheck, PrepareStagingRoot, SkipForward, OpenStaged, WriteStaged,
       FinishStage, BackupExisting, OutputPathStillPublishable, AtInspection, RenameStaged,
       FailPublish, FinishPublish, SkipBack, RollbackRemove, RollbackRestore,
       FinishRollback, MarkPublishEntriesFailed, Settled
  <2>4. \A k : PathOf(k)' = PathOf(k) /\ ContentOf(k)' = ContentOf(k)
    BY <2>1, RequestFrame
  <2>5. ASSUME NEW k \in Idx', PathOf(k)' \in Paths \ raced'
        PROVE  CASE status'[k] \in {"Written", "Unchanged"} -> out'[PathOf(k)'] = ContentOf(k)'
                 [] status'[k] = "SkippedExisting" ->
                      /\ out'[PathOf(k)'] = before'[PathOf(k)']
                      /\ out'[PathOf(k)'] # ContentOf(k)'
                 [] OTHER -> RollbackFailed' \/ out'[PathOf(k)'] = before'[PathOf(k)']
    <3>1. AllOrNothing'
      BY DEF UndoInv
    <3>2. Mine(k) /\ SettledEntry(k)
      BY <2>1, <2>2, <2>4, <2>5 DEF ReportInv, Mine
    <3>3. CASE status'[k] \in Settled
      <4>1. /\ out[PathOf(k)] = before[PathOf(k)]
            /\ status'[k] = "Unchanged" <=> before[PathOf(k)] = ContentOf(k)
        BY <2>2, <2>3, <3>2, <3>3 DEF SettledEntry
      <4>. QED
        BY <2>1, <2>4, <3>3, <4>1 DEF Settled
    <3>4. CASE status'[k] = "Written"
      BY <2>5, <3>1, <3>4 DEF AllOrNothing
    <3>5. CASE status'[k] \notin Settled \union {"Written"}
      BY <2>5, <3>1, <3>5 DEF AllOrNothing, Settled
    <3>. QED
      BY <3>3, <3>4, <3>5 DEF Settled
  <2>. QED
    BY <2>5 DEF ReportsMatchDisk
<1>4. /\ ~Crash
      /\ \A p \in Paths, c \in Contents \union {Absent, Odd} : ~Edit(p, c)
  BY DEF Crash, Edit, Resting
<1>. QED
  BY <1>1, <1>2, <1>3, <1>4 DEF Next

(* What a call says of each of its files is what is on the disk when it    *)
(* returns, for any number of files, classes, failures and edits.          *)
THEOREM ReportTrue == Spec => []ReportsMatchDisk
<1>1. Init => ReportInv /\ ReportsMatchDisk
  BY InitReportInv
<1>2. TypeInv /\ PlanInv /\ UndoInv /\ ReportInv /\ [Next]_vars => ReportInv'
  BY ReportInvStep
<1>3. TypeInv /\ ReportInv /\ ReportsMatchDisk /\ TypeInv' /\ UndoInv' /\ [Next]_vars
        /\ Returned' => ReportsMatchDisk'
  BY ReportsAtEnd DEF Returned
<1>4. ~Returned => ReportsMatchDisk
  BY DEF ReportsMatchDisk, Returned
<1>. QED
  BY <1>1, <1>2, <1>3, <1>4, Undo, PTL DEF Spec
-----------------------------------------------------------------------------
(* The writer as an AtomicPublish *)


InPlace(k) == out[PathOf(k)] = before[PathOf(k)]

(* An entry of the plan while it is published or taken back. *)
StoreEntry(k) ==
  /\ out[PathOf(k)] \in {before[PathOf(k)], ContentOf(k), Absent}
  /\ k \in backedUp =>
       /\ before[PathOf(k)] # Absent
       /\ \/ backup[PathOf(k)] = before[PathOf(k)]
          \/ pc \in Backward /\ k > i /\ backup[PathOf(k)] = Absent /\ InPlace(k)
  /\ k \in published \ backedUp => before[PathOf(k)] = Absent
  /\ k \notin published \union backedUp => InPlace(k)

(* The backup directory has nothing but the files this call has moved. *)
BackupsOwn ==
  \A p \in Paths : backup[p] # Absent => \E k \in publish \intersect backedUp : PathOf(k) = p

StoreInv ==
  /\ raced = {}
  /\ pc \in {"stage", "write"} \union Forward \union Backward => BackupsOwn
  /\ pc \in Forward \union Backward =>
       published \subseteq publish /\ OthersUntouched /\ \A k \in publish : StoreEntry(k)
-----------------------------------------------------------------------------
LEMMA StoreFrame ==
  ASSUME UNCHANGED <<req, before>>, NEW k, StoreEntry(k),
         k \in backedUp' <=> k \in backedUp,
         k \in published' <=> k \in published,
         out'[PathOf(k)] = out[PathOf(k)],
         backup'[PathOf(k)] = backup[PathOf(k)],
         pc \in Backward /\ k > i => pc' \in Backward /\ k > i'
  PROVE  StoreEntry(k)'
BY RequestFrame DEF StoreEntry, InPlace

LEMMA InitStoreInv == Init => StoreInv
BY DEF Init, StoreInv, Forward, Backward

LEMMA StoreInvStep ==
  TypeInv /\ TornInv /\ PlanInv /\ UndoInv /\ StoreInv /\ raced' = {} /\ [Next]_vars
    => StoreInv'
<1>. SUFFICES ASSUME TypeInv, TornInv, PlanInv, UndoInv, StoreInv, raced' = {}, [Next]_vars,
                     pc' \in {"stage", "write"} \union Forward \union Backward
              PROVE  StoreInv'
  BY DEF StoreInv
<1>. USE DEF Forward, Backward, argVars, planVars, fsVars, histVars, counters, resVars
<1>0. /\ i \in Int /\ publish \subseteq Idx /\ Idx = 1 .. Len(req.files)
      /\ Len(req.files) \in Nat
      /\ out \in [Paths -> Values] /\ backup \in [Paths -> Values]
      /\ pc \notin Resting => \A k \in Idx : PathOf(k) \in Paths
      /\ pc \notin Resting => \A j, k \in Idx : PathOf(j) = PathOf(k) => j = k
      /\ pc \in AtEntry => i \in publish
  BY PlanFacts
<1>1. \A k : Mine(k)
  BY DEF StoreInv, Mine
<1>2. ASSUME UNCHANGED <<publish, backup, backedUp, req>>, BackupsOwn
      PROVE  BackupsOwn'
  BY <1>2, RequestFrame DEF BackupsOwn
(* A step that touches the entry i at most, and its path. *)
<1>3. ASSUME pc \in Forward \union Backward, pc' \in Forward \union Backward,
             UNCHANGED <<req, before, publish>>, published' \subseteq published \union publish,
             pc \in Backward => pc' \in Backward /\ i' <= i /\ i' \in Int,
             \A k \in publish : k # i => /\ k \in backedUp' <=> k \in backedUp
                                         /\ k \in published' <=> k \in published
                                         /\ out'[PathOf(k)] = out[PathOf(k)]
                                         /\ backup'[PathOf(k)] = backup[PathOf(k)],
             \A p \in Paths : (\A k \in publish : PathOf(k) # p) => out'[p] = out[p],
             BackupsOwn',
             \A k \in publish : k = i => StoreEntry(k)'
      PROVE  StoreInv'
  <2>1. ASSUME NEW k \in publish, k # i PROVE StoreEntry(k)'
    <3>1. StoreEntry(k) /\ k \in Int
      BY <1>0, <1>3 DEF StoreInv
    <3>2. pc \in Backward /\ k > i => pc' \in Backward /\ k > i'
      BY <1>0, <1>3, <3>1
    <3>. QED
      BY <1>3, <2>1, <3>1, <3>2, StoreFrame
  <2>2. OthersUntouched'
    <3>1. OthersUntouched
      BY <1>3 DEF StoreInv
    <3>2. \A k : PathOf(k)' = PathOf(k)
      BY <1>3, RequestFrame
    <3>. QED
      BY <1>3, <3>1, <3>2 DEF OthersUntouched, StoreInv
  <2>3. published' \subseteq publish'
    BY <1>3 DEF StoreInv
  <2>. QED
    BY <1>3, <2>1, <2>2, <2>3 DEF StoreInv
(* A step that touches no file and no mark. *)
<1>4. ASSUME pc \in Forward \union Backward, pc' \in Forward \union Backward,
             UNCHANGED <<req, before, publish, backedUp, published, out, backup>>,
             pc \in Backward => pc' \in Backward /\ i' <= i /\ i' \in Int
      PROVE  StoreInv'
  <2>1. BackupsOwn'
    BY <1>2, <1>4 DEF StoreInv
  <2>2. ASSUME NEW k \in publish PROVE StoreEntry(k)'
    <3>1. StoreEntry(k) /\ k \in Int
      BY <1>0, <1>4 DEF StoreInv
    <3>2. pc \in Backward /\ k > i => pc' \in Backward /\ k > i'
      BY <1>0, <1>4, <3>1
    <3>. QED
      BY <1>4, <3>1, <3>2, StoreFrame
  <2>. QED
    BY <1>3, <1>4, <2>1, <2>2
<1>5. CASE PrepareStagingRoot
  <2>1. pc' = "stage" /\ \A p \in Paths : backup'[p] = Absent
    BY <1>5 DEF PrepareStagingRoot, StagingRemoved
  <2>. QED
    BY <2>1 DEF StoreInv, BackupsOwn
<1>6. CASE pc \in {"stage", "write"} /\ (SkipForward \/ OpenStaged \/ WriteStaged)
  <2>1. UNCHANGED <<publish, backup, backedUp, req>> /\ pc' \in {"stage", "write"}
    BY <1>6 DEF SkipForward, OpenStaged, WriteStaged
  <2>. QED
    BY <1>2, <1>6, <2>1 DEF StoreInv
<1>7. CASE FinishStage
  <2>1. /\ pc = "stage" /\ pc' = "publish"
        /\ UNCHANGED <<req, publish, backup, backedUp, published, out, before, raced>>
    BY <1>7 DEF FinishStage
  <2>2. Untouched /\ backedUp = {} /\ published = {}
    BY <2>1 DEF UndoInv, Early
  <2>3. BackupsOwn'
    BY <1>2, <2>1 DEF StoreInv
  <2>4. OthersUntouched'
    BY <2>1, <2>2 DEF OthersUntouched, Untouched
  <2>5. ASSUME NEW k \in publish PROVE StoreEntry(k)'
    <3>1. PathOf(k)' = PathOf(k) /\ PathOf(k) \in Paths
      BY <1>0, <2>1, RequestFrame DEF Resting
    <3>. QED
      BY <2>1, <2>2, <3>1 DEF StoreEntry, InPlace, Untouched, StoreInv
  <2>. QED
    BY <2>1, <2>2, <2>3, <2>4, <2>5 DEF StoreInv
<1>8. CASE pc = "publish" /\ SkipForward
  BY <1>4, <1>8 DEF SkipForward
<1>9. CASE OutputPathStillPublishable
  BY <1>4, <1>9 DEF OutputPathStillPublishable, AtInspection, FailPublish
<1>10. CASE BackupExisting
  <2>1. CASE pc' = "rollback"
    BY <1>4, <1>10, <2>1 DEF BackupExisting, FailPublish
  <2>2. CASE pc' = "inspect"
    <3>1. /\ pc = "publish" /\ i \in publish /\ out[PathOf(i)] # Absent
          /\ UNCHANGED <<req, before, publish, published, i>>
          /\ backup' = [backup EXCEPT ![PathOf(i)] = out[PathOf(i)]]
          /\ out' = [out EXCEPT ![PathOf(i)] = Absent]
          /\ backedUp' = backedUp \union {i}
      BY <1>10, <2>2 DEF BackupExisting, FailPublish
    <3>2. /\ PathOf(i) \in Paths
          /\ \A k \in publish : k # i => PathOf(k) # PathOf(i) /\ PathOf(k) \in Paths
      BY <1>0, <3>1 DEF Resting
    <3>3. i \notin published /\ out[PathOf(i)] = before[PathOf(i)]
      <4>1. ForwardEntry(i)
        BY <3>1 DEF UndoInv
      <4>. QED
        BY <1>0, <1>1, <3>1, <4>1 DEF ForwardEntry
    <3>4. \A k : PathOf(k)' = PathOf(k) /\ ContentOf(k)' = ContentOf(k)
      BY <3>1, RequestFrame
    <3>5. BackupsOwn'
      <4>1. ASSUME NEW p \in Paths, backup'[p] # Absent
            PROVE  \E k \in publish' \intersect backedUp' : PathOf(k)' = p
        <5>1. CASE p = PathOf(i)
          BY <3>1, <3>4, <5>1
        <5>2. CASE p # PathOf(i)
          <6>1. backup[p] # Absent
            BY <1>0, <3>1, <4>1, <5>2
          <6>. QED
            BY <3>1, <3>4, <6>1 DEF StoreInv, BackupsOwn
        <5>. QED
          BY <5>1, <5>2
      <4>. QED
        BY <4>1 DEF BackupsOwn
    <3>6. ASSUME NEW k \in publish, k = i PROVE StoreEntry(k)'
      <4>1. out'[PathOf(k)] = Absent /\ backup'[PathOf(k)] = before[PathOf(k)]
        BY <1>0, <3>1, <3>2, <3>3, <3>6
      <4>. QED
        BY <3>1, <3>3, <3>4, <3>6, <4>1 DEF StoreEntry
    <3>7. \A k \in publish : k # i => /\ out'[PathOf(k)] = out[PathOf(k)]
                                      /\ backup'[PathOf(k)] = backup[PathOf(k)]
      BY <1>0, <3>1, <3>2
    <3>8. \A p \in Paths : (\A k \in publish : PathOf(k) # p) => out'[p] = out[p]
      BY <1>0, <3>1
    <3>. QED
      BY <1>3, <2>2, <3>1, <3>5, <3>6, <3>7, <3>8
  <2>. QED
    BY <1>10, <2>1, <2>2 DEF BackupExisting, FailPublish
<1>11. CASE RenameStaged
  <2>1. CASE pc' = "rollback"
    BY <1>4, <1>11, <2>1 DEF RenameStaged, FailPublish
  <2>2. CASE pc' = "publish"
    <3>1. /\ pc = "rename" /\ i \in publish
          /\ UNCHANGED <<req, before, publish, backedUp, backup>>
          /\ out' = [out EXCEPT ![PathOf(i)] = staged[PathOf(i)]]
          /\ published' = published \union {i}
      BY <1>0, <1>11, <2>2 DEF RenameStaged, FailPublish, AtEntry
    <3>2. /\ PathOf(i) \in Paths
          /\ \A k \in publish : k # i => PathOf(k) # PathOf(i) /\ PathOf(k) \in Paths
      BY <1>0, <3>1 DEF Resting
    <3>3. staged[PathOf(i)] = ContentOf(i)
      BY <1>0, <3>1 DEF TornInv
    <3>4. \A k : PathOf(k)' = PathOf(k) /\ ContentOf(k)' = ContentOf(k)
      BY <3>1, RequestFrame
    <3>5. BackupsOwn'
      BY <1>2, <3>1 DEF StoreInv
    <3>6. ASSUME NEW k \in publish, k = i PROVE StoreEntry(k)'
      <4>1. out'[PathOf(k)] = ContentOf(k)
        BY <1>0, <3>1, <3>2, <3>3, <3>6
      <4>2. StoreEntry(k) /\ ForwardEntry(k) /\ Decided(k)
        BY <1>0, <3>1 DEF StoreInv, UndoInv, PlanInv
      <4>3. k \notin backedUp => before[PathOf(k)] = Absent
        BY <1>1, <3>1, <3>6, <4>2 DEF ForwardEntry, Decided
      <4>. QED
        BY <3>1, <3>4, <3>6, <4>1, <4>2, <4>3 DEF StoreEntry
    <3>7. \A k \in publish : k # i => out'[PathOf(k)] = out[PathOf(k)]
      BY <1>0, <3>1, <3>2
    <3>8. \A p \in Paths : (\A k \in publish : PathOf(k) # p) => out'[p] = out[p]
      BY <1>0, <3>1
    <3>. QED
      BY <1>3, <2>2, <3>1, <3>5, <3>6, <3>7, <3>8
  <2>. QED
    BY <1>11, <2>1, <2>2 DEF RenameStaged, FailPublish
<1>12. CASE SkipBack
  BY <1>0, <1>4, <1>12 DEF SkipBack
<1>13. CASE RollbackRemove
  <2>1. /\ pc = "rollback" /\ pc' = "restore" /\ i \in publish
        /\ UNCHANGED <<req, before, publish, backedUp, backup, published, i>>
        /\ \/ out' = out
           \/ i \in published /\ out' = [out EXCEPT ![PathOf(i)] = Absent]
    BY <1>13 DEF RollbackRemove
  <2>2. /\ PathOf(i) \in Paths
        /\ \A k \in publish : k # i => PathOf(k) # PathOf(i) /\ PathOf(k) \in Paths
    BY <1>0, <2>1 DEF Resting
  <2>3. \A k : PathOf(k)' = PathOf(k) /\ ContentOf(k)' = ContentOf(k)
    BY <2>1, RequestFrame
  <2>4. BackupsOwn'
    BY <1>2, <2>1 DEF StoreInv
  <2>5. ASSUME NEW k \in publish, k = i PROVE StoreEntry(k)'
    <3>1. StoreEntry(k)
      BY <2>1 DEF StoreInv
    <3>2. k \in backedUp => backup[PathOf(k)] = before[PathOf(k)]
      BY <1>0, <2>5, <3>1 DEF StoreEntry
    <3>3. out'[PathOf(k)] = out[PathOf(k)] \/ (k \in published /\ out'[PathOf(k)] = Absent)
      BY <1>0, <2>1, <2>2, <2>5
    <3>. QED
      BY <2>1, <2>3, <3>1, <3>2, <3>3 DEF StoreEntry, InPlace
  <2>6. \A k \in publish : k # i => out'[PathOf(k)] = out[PathOf(k)]
    BY <1>0, <2>1, <2>2
  <2>7. \A p \in Paths : (\A k \in publish : PathOf(k) # p) => out'[p] = out[p]
    BY <1>0, <2>1
  <2>. QED
    BY <1>0, <1>3, <2>1, <2>4, <2>5, <2>6, <2>7
<1>14. CASE RollbackRestore
  <2>1. /\ pc = "restore" /\ pc' = "rollback" /\ i' = i - 1 /\ i \in publish
        /\ UNCHANGED <<req, before, publish, backedUp, published>>
        /\ \/ out' = out /\ backup' = backup
           \/ /\ i \in backedUp
              /\ backup[PathOf(i)] # Absent
              /\ out' = [out EXCEPT ![PathOf(i)] = backup[PathOf(i)]]
              /\ backup' = [backup EXCEPT ![PathOf(i)] = Absent]
    BY <1>0, <1>14 DEF RollbackRestore, AtEntry
  <2>2. /\ PathOf(i) \in Paths
        /\ \A k \in publish : k # i => PathOf(k) # PathOf(i) /\ PathOf(k) \in Paths
    BY <1>0, <2>1 DEF Resting
  <2>3. \A k : PathOf(k)' = PathOf(k) /\ ContentOf(k)' = ContentOf(k)
    BY <2>1, RequestFrame
  <2>4. BackupsOwn'
    <3>1. \A p \in Paths : backup'[p] # Absent => backup[p] # Absent
      BY <1>0, <2>1
    <3>. QED
      BY <2>1, <2>3, <3>1 DEF StoreInv, BackupsOwn
  <2>5. ASSUME NEW k \in publish, k = i PROVE StoreEntry(k)'
    <3>1. StoreEntry(k) /\ k \in Int
      BY <1>0, <2>1 DEF StoreInv
    <3>2. k \in backedUp => backup[PathOf(k)] = before[PathOf(k)]
      BY <1>0, <2>5, <3>1 DEF StoreEntry
    <3>3. CASE out' = out /\ backup' = backup
      BY <2>1, <2>3, <3>1, <3>2, <3>3 DEF StoreEntry, InPlace
    <3>4. CASE ~(out' = out /\ backup' = backup)
      <4>1. /\ k \in backedUp
            /\ out'[PathOf(k)] = before[PathOf(k)]
            /\ backup'[PathOf(k)] = Absent
        BY <1>0, <2>1, <2>2, <2>5, <3>2, <3>4
      <4>2. k > i'
        BY <1>0, <2>1, <2>5
      <4>. QED
        BY <2>1, <2>3, <3>1, <4>1, <4>2 DEF StoreEntry, InPlace
    <3>. QED
      BY <3>3, <3>4
  <2>6. \A k \in publish : k # i => /\ out'[PathOf(k)] = out[PathOf(k)]
                                    /\ backup'[PathOf(k)] = backup[PathOf(k)]
    BY <1>0, <2>1, <2>2
  <2>7. \A p \in Paths : (\A k \in publish : PathOf(k) # p) => out'[p] = out[p]
    BY <1>0, <2>1
  <2>. QED
    BY <1>0, <1>3, <2>1, <2>4, <2>5, <2>6, <2>7
<1>15. CASE UNCHANGED vars
  <2>1. UNCHANGED <<pc, i, req, before, publish, backedUp, published, out, backup>>
    BY <1>15 DEF vars
  <2>2. CASE pc \in {"stage", "write"}
    BY <1>2, <2>1, <2>2 DEF StoreInv
  <2>3. CASE pc \in Forward \union Backward
    BY <1>0, <1>4, <2>1, <2>3
  <2>. QED
    BY <2>1, <2>2, <2>3
<1>16. ASSUME NEW p \in Paths, NEW c \in Contents \union {Absent, Odd}, Edit(p, c)
       PROVE  FALSE
  BY <1>16 DEF Edit, LookedAt, Resting, Phases
<1>17. /\ ~CreateOutputRoot /\ ~PrepareOutputParents /\ ~CheckExistingOutputs
       /\ ~FinishCheck /\ ~FinishPublish /\ ~FinishRollback /\ ~Crash
       /\ \A r \in Requests : ~Start(r) /\ ~StartWithoutRoot(r)
  BY DEF CreateOutputRoot, PrepareOutputParents, CheckExistingOutputs, CheckAbsent,
     CheckConflict, CheckUnchanged, CheckSkipped, CheckOverwrite, Checking, CheckDone,
     FinishCheck, FinishPublish, FinishRollback, Crash, Start, StartWithoutRoot
<1>18. /\ SkipForward => pc \in {"stage", "publish"}
       /\ OpenStaged \/ WriteStaged => pc \in {"stage", "write"}
  BY DEF SkipForward, OpenStaged, WriteStaged
<1>. QED
  BY <1>5, <1>6, <1>7, <1>8, <1>9, <1>10, <1>11, <1>12, <1>13, <1>14, <1>15, <1>16,
     <1>17, <1>18 DEF Next, WriterStep
-----------------------------------------------------------------------------
(* What a reader who may undo would find                                   *)

LEMMA LogicalIsBefore ==
  ASSUME TypeInv, UndoInv, StoreInv, pc \notin Resting
  PROVE  Logical = before
<1>0. /\ publish \subseteq Idx
      /\ before \in [Paths -> Values]
      /\ \A k \in Idx : PathOf(k) \in Paths
      /\ \A j, k \in Idx : PathOf(j) = PathOf(k) => j = k
      /\ published \subseteq Idx /\ backedUp \subseteq Idx
  BY PlanFacts DEF TypeInv, TypeOK
<1>. DEFINE L(p) == IF Undoable /\ backup[p] # Absent THEN backup[p]
                    ELSE IF Undoable /\ \E k \in published \ backedUp : PathOf(k) = p THEN Absent
                    ELSE out[p]
<1>1. Undoable <=> pc \in Forward \union Backward
  BY DEF Undoable, Forward, Backward
<1>2. CASE pc \notin Forward \union Backward
  <2>1. pc \in Early
    BY <1>2 DEF TypeInv, TypeOK, Phases, Resting, Early, Forward, Backward
  <2>2. \A p \in Paths : L(p) = before[p]
    BY <1>1, <1>2, <2>1 DEF UndoInv, Untouched, StoreInv
  <2>. QED
    BY <1>0, <2>2 DEF Logical
<1>3. CASE pc \in Forward \union Backward
  <2>1. ASSUME NEW k \in publish PROVE L(PathOf(k)) = before[PathOf(k)]
    <3>1. StoreEntry(k)
      BY <1>3 DEF StoreInv
    <3>2. \A j \in Idx : PathOf(j) = PathOf(k) => j = k
      BY <1>0
    <3>3. backup[PathOf(k)] # Absent => k \in backedUp
      BY <1>0, <1>3, <3>2 DEF StoreInv, BackupsOwn
    <3>4. (\E j \in published \ backedUp : PathOf(j) = PathOf(k)) <=> k \in published \ backedUp
      BY <1>0, <3>2
    <3>. QED
      BY <1>1, <1>3, <3>1, <3>3, <3>4 DEF StoreEntry, InPlace
  <2>2. ASSUME NEW p \in Paths, \A k \in publish : PathOf(k) # p
        PROVE  L(p) = before[p]
    <3>1. backup[p] = Absent
      BY <1>3, <2>2 DEF StoreInv, BackupsOwn
    <3>2. out[p] = before[p]
      BY <1>3, <2>2 DEF StoreInv, OthersUntouched
    <3>3. CASE \E k \in published \ backedUp : PathOf(k) = p
      <4>1. PICK k \in published \ backedUp : PathOf(k) = p
        BY <3>3
      <4>2. published \subseteq publish
        BY <1>3 DEF StoreInv
      <4>. QED
        BY <2>2, <4>1, <4>2
    <3>. QED
      BY <1>1, <3>1, <3>2, <3>3
  <2>3. \A p \in Paths : L(p) = before[p]
    BY <2>1, <2>2
  <2>. QED
    BY <1>0, <2>3 DEF Logical
<1>. QED
  BY <1>2, <1>3

(* Named, so that a temporal step can carry them over to the next state.   *)
GoalTyped == AbstractGoal \in [Paths -> SUBSET Contents]

OutputsTyped == out \in [Paths -> Contents \union {Absent, Odd}]

LogicalKept == Logical = before

LEMMA KeptByUndo == TypeInv /\ UndoInv /\ StoreInv /\ Open => LogicalKept
BY LogicalIsBefore DEF Open, LogicalKept

LEMMA KeptByUndoNext == TypeInv' /\ UndoInv' /\ StoreInv' /\ Open' => LogicalKept'
BY KeptByUndo, PTL

LEMMA GoalType == TypeInv => GoalTyped
<1>. SUFFICES ASSUME TypeInv PROVE AbstractGoal \in [Paths -> SUBSET Contents]
  BY DEF GoalTyped
<1>1. \A k \in Idx : ContentOf(k) \in Contents
  BY ContentsAreComplete DEF TypeInv
<1>. QED
  BY <1>1 DEF AbstractGoal

LEMMA GoalTypeNext == TypeInv' => GoalTyped'
BY GoalType, PTL

LEMMA OutputsWhole == TypeInv /\ TornInv => OutputsTyped
BY PlanFacts DEF TornInv, Values, OutputsTyped

LEMMA OutputsWholeNext == TypeInv' /\ TornInv' => OutputsTyped'
BY OutputsWhole, PTL

(* A file of an open call is the old one, the new one or missing.          *)
LEMMA OutputsBounded ==
  ASSUME TypeInv, UndoInv, StoreInv, pc \notin Resting, NEW p \in Paths
  PROVE  \/ out[p] = before[p]
         \/ \E k \in Idx : PathOf(k) = p /\ out[p] \in {ContentOf(k), Absent}
<1>1. CASE pc \in Early
  BY <1>1 DEF UndoInv, Untouched, StoreInv
<1>2. CASE pc \in Forward \union Backward
  <2>1. CASE \A k \in publish : PathOf(k) # p
    BY <1>2, <2>1 DEF StoreInv, OthersUntouched
  <2>2. ASSUME NEW k \in publish, PathOf(k) = p
        PROVE  \/ out[p] = before[p]
               \/ \E j \in Idx : PathOf(j) = p /\ out[p] \in {ContentOf(j), Absent}
    <3>1. StoreEntry(k) /\ k \in Idx
      BY <1>2, PlanFacts DEF StoreInv
    <3>. QED
      BY <2>2, <3>1 DEF StoreEntry
  <2>. QED
    BY <2>1, <2>2
<1>. QED
  BY <1>1, <1>2 DEF TypeInv, TypeOK, Phases, Resting, Early, Forward, Backward

(* What becomes of an open call in the step that ends it.                  *)
LEMMA EndImplemented ==
  ASSUME TypeInv, UndoInv, StoreInv, TypeInv', TornInv', UndoInv', raced' = {},
         pc \notin Resting, pc' \in {"done", "crashed"}, UNCHANGED <<req, out, before>>
  PROVE  [Atomic!Next]_(Atomic!vars)
<1>0. /\ Idx' = Idx
      /\ \A k : PathOf(k)' = PathOf(k) /\ ContentOf(k)' = ContentOf(k)
  BY RequestFrame
<1>1. AbstractPhase = "open" /\ AbstractGoal' = AbstractGoal
  BY <1>0 DEF AbstractPhase, AbstractGoal, Resting
<1>2. Logical = before /\ before \in [Paths -> Values]
  BY LogicalIsBefore, PlanFacts
<1>3. Logical' = out /\ out \in [Paths -> Contents \union {Absent, Odd}]
  <2>1. out' \in [Paths -> Contents \union {Absent, Odd}]
    BY OutputsWholeNext DEF OutputsTyped
  <2>. QED
    BY <2>1 DEF Logical, Undoable
<1>4. Atomic!OldNewOrMissing
  <2>1. ASSUME NEW p \in Paths
        PROVE  Logical'[p] \in {Logical[p]} \union AbstractGoal[p]
                 \union (IF AbstractGoal[p] = {} THEN {} ELSE {Absent})
    <3>1. CASE out[p] = before[p]
      BY <1>2, <1>3, <3>1
    <3>2. ASSUME NEW k \in Idx, PathOf(k) = p, out[p] \in {ContentOf(k), Absent}
          PROVE  Logical'[p] \in AbstractGoal[p]
                   \union (IF AbstractGoal[p] = {} THEN {} ELSE {Absent})
      BY <1>3, <3>2 DEF AbstractGoal
    <3>. QED
      BY <3>1, <3>2, OutputsBounded
  <2>. QED
    BY <1>3, <2>1 DEF Atomic!OldNewOrMissing, Atomic!Values
<1>5. CASE pc' = "crashed"
  <2>1. AbstractPhase' = "crashed"
    BY <1>5 DEF AbstractPhase
  <2>. QED
    BY <1>1, <1>4, <2>1 DEF Atomic!Next, Atomic!Die
<1>6. CASE pc' = "done" /\ RollbackFailed'
  <2>1. AbstractPhase' = "damaged"
    BY <1>6 DEF AbstractPhase
  <2>. QED
    BY <1>1, <1>4, <2>1 DEF Atomic!Next, Atomic!Damage
<1>7. CASE pc' = "done" /\ ~RollbackFailed' /\ ~(ok' /\ ~req'.dry_run)
  <2>1. AbstractPhase' = "aborted"
    BY <1>7 DEF AbstractPhase
  <2>2. \A p \in Paths : out'[p] = before'[p]
    BY <1>7 DEF UndoInv, AllOrNothing
  <2>3. Logical' = Logical
    BY <1>2, <1>3, <2>2
  <2>. QED
    BY <1>1, <2>1, <2>3 DEF Atomic!Next, Atomic!Abort
<1>8. CASE pc' = "done" /\ ok' /\ ~req'.dry_run
  <2>1. AbstractPhase' = "committed"
    BY <1>8 DEF AbstractPhase, RollbackFailed, ok
  <2>2. \A k \in Idx : out[PathOf(k)] = ContentOf(k) /\ PathOf(k) \in Paths
    <3>1. \A k \in Idx' : PathOf(k)' \notin raced' => out'[PathOf(k)'] = ContentOf(k)'
      BY <1>8 DEF UndoInv, AllOrNothing
    <3>. QED
      BY <1>0, <3>1, PlanFacts
  <2>3. ASSUME NEW p \in Paths
        PROVE  IF AbstractGoal[p] = {} THEN Logical'[p] = Logical[p]
                                       ELSE Logical'[p] \in AbstractGoal[p]
    <3>1. AbstractGoal[p] = {ContentOf(k) : k \in {j \in Idx : PathOf(j) = p}}
      BY DEF AbstractGoal
    <3>2. CASE \E k \in Idx : PathOf(k) = p
      <4>1. PICK k \in Idx : PathOf(k) = p
        BY <3>2
      <4>2. ContentOf(k) \in AbstractGoal[p] /\ Logical'[p] = ContentOf(k)
        BY <1>3, <2>2, <3>1, <4>1
      <4>. QED
        BY <4>2
    <3>3. CASE ~ \E k \in Idx : PathOf(k) = p
      <4>1. AbstractGoal[p] = {}
        BY <3>1, <3>3
      <4>2. out[p] = before[p]
        BY <3>3, OutputsBounded
      <4>. QED
        BY <1>2, <1>3, <4>1, <4>2
    <3>. QED
      BY <3>2, <3>3
  <2>4. Logical' \in [Paths -> Atomic!Values]
    BY <1>3 DEF Atomic!Values
  <2>. QED
    BY <1>1, <2>1, <2>3, <2>4 DEF Atomic!Next, Atomic!Commit
<1>. QED
  BY <1>5, <1>6, <1>7, <1>8

LEMMA StepImplemented ==
  ASSUME TypeInv, UndoInv, StoreInv, TypeInv', TornInv', UndoInv', StoreInv', raced' = {},
         edits' = edits, [Next]_vars
  PROVE  [Atomic!Next]_(Atomic!vars)
<1>. USE DEF argVars, planVars, fsVars, histVars, counters, resVars
<1>1. CASE UNCHANGED vars
  BY <1>1 DEF vars, Atomic!vars, AbstractPhase, AbstractGoal, Logical, Undoable,
     RollbackFailed, ok, Idx, PathOf, ContentOf
<1>2. ASSUME NEW r \in Requests, Start(r) \/ StartWithoutRoot(r)
      PROVE  [Atomic!Next]_(Atomic!vars)
  <2>1. /\ pc \in Resting /\ out' = out
        /\ pc' = "root" \/ (pc' = "done" /\ ~(ok' /\ ~req'.dry_run) /\ ~RollbackFailed')
    BY <1>2 DEF Start, StartWithoutRoot, Begin, PathDiags, ok, RollbackFailed
  <2>2. Logical' = Logical
    BY <2>1 DEF Logical, Undoable, Resting
  <2>3. AbstractPhase \in Atomic!Ended
    BY <2>1 DEF AbstractPhase, Atomic!Ended, Resting
  <2>4. AbstractPhase' \in {"open", "aborted"}
    BY <2>1 DEF AbstractPhase
  <2>5. AbstractGoal' \in [Paths -> SUBSET Contents]
    BY GoalTypeNext DEF GoalTyped
  <2>. QED
    BY <2>2, <2>3, <2>4, <2>5 DEF Atomic!Next, Atomic!Open
<1>3. CASE WriterStep \/ Crash
  <2>1. pc \notin Resting /\ UNCHANGED <<req, before>>
    BY <1>3 DEF WriterStep, CreateOutputRoot, PrepareOutputParents, CheckExistingOutputs,
       CheckAbsent, CheckConflict, CheckUnchanged, CheckSkipped, CheckOverwrite, Checking,
       CheckDone, FinishCheck, PrepareStagingRoot, SkipForward, OpenStaged, WriteStaged,
       FinishStage, BackupExisting, OutputPathStillPublishable, AtInspection, RenameStaged,
       FailPublish, FinishPublish, SkipBack, RollbackRemove, RollbackRestore,
       FinishRollback, Crash, Resting
  <2>2. CASE pc' \notin Resting
    <3>1. Logical = before
      BY <2>1, LogicalIsBefore
    <3>2. Logical' = before'
      BY <2>2, KeptByUndoNext DEF Open, LogicalKept
    <3>3. Logical' = Logical
      BY <2>1, <2>2, <3>1, <3>2
    <3>4. AbstractPhase' = AbstractPhase /\ AbstractGoal' = AbstractGoal
      BY <2>1, <2>2, RequestFrame DEF AbstractPhase, AbstractGoal, Resting
    <3>. QED
      BY <3>3, <3>4 DEF Atomic!vars
  <2>3. CASE pc' \in Resting
    <3>1. UNCHANGED <<req, out, before>>
      <4>1. \A r \in Requests : ~Start(r) /\ ~StartWithoutRoot(r)
        BY <2>1 DEF Start, StartWithoutRoot, Begin
      <4>. QED
        BY <2>3, <4>1, EndingStep
    <3>2. pc' \in {"done", "crashed"}
      <4>1. pc' # "idle"
        BY <1>3, <2>1 DEF WriterStep, CreateOutputRoot, PrepareOutputParents,
           CheckExistingOutputs, CheckAbsent, CheckConflict, CheckUnchanged, CheckSkipped,
           CheckOverwrite, Checking, CheckDone, FinishCheck, PrepareStagingRoot,
           SkipForward, OpenStaged, WriteStaged, FinishStage, BackupExisting,
           OutputPathStillPublishable, AtInspection, RenameStaged, FailPublish,
           FinishPublish, SkipBack, RollbackRemove, RollbackRestore, FinishRollback,
           Crash, Resting
      <4>. QED
        BY <2>3, <4>1 DEF Resting
    <3>. QED
      BY <2>1, <3>1, <3>2, EndImplemented
  <2>. QED
    BY <2>2, <2>3
<1>4. ASSUME NEW p \in Paths, NEW c \in Contents \union {Absent, Odd}, Edit(p, c)
      PROVE  FALSE
  <2>1. edits \in Int
    BY DEF TypeInv, TypeOK
  <2>. QED
    BY <1>4, <2>1 DEF Edit
<1>. QED
  BY <1>1, <1>2, <1>3, <1>4 DEF Next

LEMMA InitImplemented == Init => Atomic!Init
<1>. SUFFICES ASSUME Init PROVE Atomic!Init
  OBVIOUS
<1>1. AbstractPhase = "aborted"
  BY DEF Init, AbstractPhase
<1>2. AbstractGoal = [p \in Paths |-> {}]
  BY DEF Init, AbstractGoal, Idx
<1>3. Logical \in [Paths -> Atomic!Values]
  BY DEF Init, Logical, Undoable, Atomic!Values
<1>. QED
  BY <1>1, <1>2, <1>3 DEF Atomic!Init

(* Without edits nothing is raced for, and nothing is counted as an edit.  *)
LEMMA NobodyEdits ==
  ASSUME MaxEdits = 0
  PROVE  TypeInv /\ TypeInv' /\ raced = {} /\ [Next]_vars => raced' = {} /\ edits' = edits
<1>. SUFFICES ASSUME TypeInv, TypeInv', raced = {}, [Next]_vars
              PROVE  raced' = {} /\ edits' = edits
  OBVIOUS
<1>. USE DEF argVars, planVars, fsVars, histVars, counters, resVars
<1>1. edits = 0 /\ edits' = 0
  BY DEF TypeInv, TypeOK
<1>2. CASE \E p \in Paths, c \in Contents \union {Absent, Odd} : Edit(p, c)
  BY <1>1, <1>2 DEF Edit
<1>3. CASE \E r \in Requests : Start(r) \/ StartWithoutRoot(r)
  BY <1>1, <1>3 DEF Start, StartWithoutRoot, Begin
<1>4. CASE WriterStep \/ Crash \/ UNCHANGED vars
  BY <1>1, <1>4 DEF WriterStep, CreateOutputRoot, PrepareOutputParents,
     CheckExistingOutputs, CheckAbsent, CheckConflict, CheckUnchanged, CheckSkipped,
     CheckOverwrite, Checking, CheckDone, FinishCheck, PrepareStagingRoot, SkipForward,
     OpenStaged, WriteStaged, FinishStage, BackupExisting, OutputPathStillPublishable,
     AtInspection, RenameStaged, FailPublish, FinishPublish, SkipBack, RollbackRemove,
     RollbackRestore, FinishRollback, Crash, vars
<1>. QED
  BY <1>2, <1>3, <1>4 DEF Next

(* Where nobody else edits the outputs, the writer implements AtomicPublish *)
(* for any number of calls, files, failures and crashes: each of its steps  *)
(* is one of AtomicPublish's or leaves what that sees alone.                *)
THEOREM WriterIsAtomic ==
  ASSUME MaxEdits = 0
  PROVE  Spec => ImplementsAtomicPublish
<1>1. Init => StoreInv /\ Atomic!Init
  BY InitStoreInv, InitImplemented
<1>2. StoreInv => raced = {}
  BY DEF StoreInv
<1>3. TypeInv /\ TypeInv' /\ StoreInv /\ [Next]_vars => raced' = {} /\ edits' = edits
  BY <1>2, NobodyEdits
<1>4. TypeInv /\ TypeInv' /\ TornInv /\ PlanInv /\ UndoInv /\ StoreInv /\ [Next]_vars
        => StoreInv'
  BY <1>3, StoreInvStep
<1>5. TypeInv /\ UndoInv /\ StoreInv /\ TypeInv' /\ TornInv' /\ UndoInv' /\ StoreInv'
        /\ [Next]_vars => [Atomic!Next]_(Atomic!vars)
  BY <1>3, StepImplemented
<1>. QED
  BY <1>1, <1>4, <1>5, Undo, PTL DEF Spec, ImplementsAtomicPublish, Atomic!Spec
-----------------------------------------------------------------------------
(* A file that appears while a call is under way.  The second look leaves   *)
(* nothing at the path of the entry to be renamed but what the look takes   *)
(* for nothing, or what came after it; and nothing is put back where        *)
(* nothing was found.                                                       *)

LookInv ==
  /\ backedUp \subseteq hadExisting
  /\ pc = "rename" => out[PathOf(i)] \in {Absent, Odd} \/ PathOf(i) \in windowed

LEMMA InitLookInv == Init => LookInv
BY DEF Init, LookInv

LEMMA LookInvStep == TypeInv /\ LookInv /\ [Next]_vars => LookInv'
<1>. SUFFICES ASSUME TypeInv, LookInv, [Next]_vars PROVE LookInv'
  OBVIOUS
<1>. USE DEF argVars, planVars, fsVars, histVars, counters, resVars
<1>1. backedUp' \subseteq hadExisting'
  <2>1. CASE WriterStep
    BY <2>1 DEF LookInv, WriterStep, CreateOutputRoot, PrepareOutputParents,
       CheckExistingOutputs, CheckAbsent, CheckConflict, CheckUnchanged, CheckSkipped,
       CheckOverwrite, Checking, CheckDone, FinishCheck, PrepareStagingRoot, SkipForward,
       OpenStaged, WriteStaged, FinishStage, BackupExisting, OutputPathStillPublishable,
       AtInspection, RenameStaged, FinishPublish, SkipBack, RollbackRemove,
       RollbackRestore, FinishRollback
  <2>2. CASE UNCHANGED <<backedUp, hadExisting>>
    BY <2>2 DEF LookInv
  <2>3. ASSUME NEW r \in Requests, Start(r) \/ StartWithoutRoot(r)
        PROVE  backedUp' = {}
    BY <2>3 DEF Start, StartWithoutRoot, Begin
  <2>. QED
    BY <2>1, <2>2, <2>3 DEF Next, Crash, Edit, vars
<1>2. ASSUME pc' = "rename"
      PROVE  out'[PathOf(i)'] \in {Absent, Odd} \/ PathOf(i)' \in windowed'
  <2>1. CASE OutputPathStillPublishable
    BY <1>2, <2>1 DEF OutputPathStillPublishable, FailPublish, PathOf
  <2>2. CASE UNCHANGED vars
    BY <1>2, <2>2 DEF vars, LookInv, PathOf
  <2>3. ASSUME NEW p \in Paths, NEW c \in Contents \union {Absent, Odd}, Edit(p, c)
        PROVE  out'[PathOf(i)'] \in {Absent, Odd} \/ PathOf(i)' \in windowed'
    <3>1. PathOf(i)' = PathOf(i) /\ PathOf(i) \in Paths /\ out \in [Paths -> Values]
      BY <1>2, <2>3, PlanFacts DEF Edit, PathOf, Resting, AtEntry
    <3>2. pc = "rename" /\ (out[PathOf(i)] \in {Absent, Odd} \/ PathOf(i) \in windowed)
      BY <1>2, <2>3 DEF Edit, LookInv
    <3>3. CASE PathOf(i) = p
      BY <2>3, <3>1, <3>2, <3>3 DEF Edit
    <3>4. CASE PathOf(i) # p
      BY <2>3, <3>1, <3>2, <3>4 DEF Edit
    <3>. QED
      BY <3>3, <3>4
  <2>4. ASSUME WriterStep, ~OutputPathStillPublishable
        PROVE  FALSE
    BY <1>2, <2>4 DEF WriterStep, CreateOutputRoot, PrepareOutputParents,
       CheckExistingOutputs, CheckAbsent, CheckConflict, CheckUnchanged, CheckSkipped,
       CheckOverwrite, Checking, CheckDone, FinishCheck, PrepareStagingRoot, SkipForward,
       OpenStaged, WriteStaged, FinishStage, BackupExisting, FailPublish,
       RenameStaged, FinishPublish, SkipBack, RollbackRemove,
       RollbackRestore, FinishRollback
  <2>5. ~Crash /\ \A r \in Requests : ~Start(r) /\ ~StartWithoutRoot(r)
    BY <1>2 DEF Crash, Start, StartWithoutRoot
  <2>. QED
    BY <2>1, <2>2, <2>3, <2>4, <2>5 DEF Next
<1>. QED
  BY <1>1, <1>2 DEF LookInv

(* A step of the writer at the entry i leaves the paths of the others.      *)
LEMMA AppearedKept ==
  ASSUME TypeInv, LookInv, [Next]_vars, edits' = edits,
         NEW k \in publish \ hadExisting,
         out[PathOf(k)] \in Contents, out'[PathOf(k)] # out[PathOf(k)]
  PROVE  k \in published \/ PathOf(k) \in windowed
<1>. USE DEF argVars, planVars, fsVars, histVars, counters, resVars
<1>1. /\ publish \subseteq Idx /\ out \in [Paths -> Values] /\ edits \in Int
      /\ pc \notin Resting => PathOf(k) \in Paths
      /\ pc \notin Resting => \A j \in Idx : PathOf(j) = PathOf(k) => j = k
      /\ pc \in AtEntry => i \in publish
  BY PlanFacts, BoundsNatural DEF TypeInv, TypeOK
<1>2. out' # out
  OBVIOUS
<1>3. BackupExisting \/ RenameStaged \/ RollbackRemove \/ RollbackRestore
  <2>1. \A p \in Paths, c \in Contents \union {Absent, Odd} : ~Edit(p, c)
    BY <1>1 DEF Edit
  <2>2. ~Crash /\ ~UNCHANGED vars /\ \A r \in Requests : ~Start(r) /\ ~StartWithoutRoot(r)
    BY <1>2 DEF Crash, vars, Start, StartWithoutRoot, Begin
  <2>3. /\ ~CreateOutputRoot /\ ~PrepareOutputParents /\ ~CheckExistingOutputs
        /\ ~FinishCheck /\ ~PrepareStagingRoot /\ ~SkipForward /\ ~OpenStaged
        /\ ~WriteStaged /\ ~FinishStage /\ ~OutputPathStillPublishable
        /\ ~FinishPublish /\ ~SkipBack /\ ~FinishRollback
    BY <1>2 DEF CreateOutputRoot, PrepareOutputParents, CheckExistingOutputs, CheckAbsent,
       CheckConflict, CheckUnchanged, CheckSkipped, CheckOverwrite, CheckDone, FinishCheck,
       PrepareStagingRoot, SkipForward, OpenStaged, WriteStaged, FinishStage,
       OutputPathStillPublishable, FinishPublish, SkipBack, FinishRollback
  <2>. QED
    BY <2>1, <2>2, <2>3 DEF Next, WriterStep
<1>4. pc \in {"publish", "rename", "rollback", "restore"} /\ i \in Idx
  BY <1>1, <1>3 DEF BackupExisting, RenameStaged, RollbackRemove, RollbackRestore, AtEntry
<1>5. /\ PathOf(k) \in Paths
      /\ out' = [out EXCEPT ![PathOf(i)] = out'[PathOf(i)]]
  BY <1>1, <1>3, <1>4 DEF BackupExisting, RenameStaged, RollbackRemove, RollbackRestore, Resting
<1>6. PathOf(i) = PathOf(k)
  BY <1>1, <1>5
<1>7. i = k
  BY <1>1, <1>4, <1>6 DEF Resting
<1>8. ~BackupExisting
  BY <1>7 DEF BackupExisting
<1>9. RollbackRemove => k \in published
  BY <1>2, <1>7 DEF RollbackRemove
<1>10. ~RollbackRestore
  BY <1>2, <1>7 DEF RollbackRestore, LookInv
<1>11. RenameStaged => PathOf(k) \in windowed
  BY <1>7, MarkersDistinct DEF RenameStaged, LookInv
<1>. QED
  BY <1>3, <1>8, <1>9, <1>10, <1>11

(* A file that somebody creates where the call had found none is never      *)
(* replaced or removed by any step of the writer, for any requests, failures *)
(* and edits: unless it came after the second look, or the writer had by    *)
(* then put a file of its own there.                                        *)
THEOREM AppearedIsKept == Spec => AppearedFileSurvives
<1>1. Init => LookInv
  BY InitLookInv
<1>2. TypeInv /\ LookInv /\ [Next]_vars => LookInv'
  BY LookInvStep
<1>3. TypeInv /\ LookInv /\ [Next]_vars =>
        (edits' = edits =>
           \A k \in publish \ hadExisting :
             LET p == PathOf(k) IN
             out[p] \in Contents /\ out'[p] # out[p] => k \in published \/ p \in windowed)
  BY AppearedKept
<1>. QED
  BY <1>1, <1>2, <1>3, TypeInvariant, PTL DEF Spec, AppearedFileSurvives
=============================================================================
