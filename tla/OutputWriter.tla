---------------------------- MODULE OutputWriter ----------------------------
(***************************************************************************)
(* WriteGeneratedFiles of src/src/output/OutputWriter.cpp: the transaction *)
(* that puts a set of generated files into the output directory.  It plans *)
(* every path, looks at what is already there, writes all new contents to  *)
(* a staging directory and only then moves them over the output files one  *)
(* by one, keeping the replaced files in a backup directory from which a   *)
(* failed publication is rolled back.                                      *)
(*                                                                         *)
(* One step of the model is one filesystem operation, so every operation   *)
(* can fail, the process can die between any two of them, and somebody     *)
(* else can edit an output file between any two of them.                   *)
(*                                                                         *)
(* Nobody else touches the staging directory: two generators working on    *)
(* one output directory at a time are outside this module.                 *)
(***************************************************************************)
EXTENDS Integers, Sequences, FiniteSets

CONSTANTS
  Paths,       \* output files, as paths below the output directory
  BadPath,     \* any relative path that ValidateGeneratedPath refuses
  Contents,    \* complete file contents
  Absent,      \* nothing at that path
  Odd,         \* something that is not a regular file: a symlink, a directory
  Torn,        \* a file whose write has not been completed
  Classes,     \* qualified names of source classes
  NoClass,     \* the file belongs to no single class (AllMocks, CMake, report)
  Requests,    \* the calls of WriteGeneratedFiles to consider
  MaxRuns,     \* bound: calls of WriteGeneratedFiles
  MaxCrashes,  \* bound: deaths of the process
  MaxEdits     \* bound: edits of output files by somebody else

File == [path : Paths \union {BadPath}, class : Classes \union {NoClass},
         content : Contents]

Request == [files : Seq(File), overwrite : BOOLEAN, dry_run : BOOLEAN]

Values == Contents \union {Absent, Odd, Torn}

(* What the constants must be for the model to make sense: the markers are
   no file contents and no two of them are equal.                          *)
ASSUME MarkersDistinct ==
  /\ Contents \intersect {Absent, Odd, Torn} = {}
  /\ Absent # Odd /\ Absent # Torn /\ Odd # Torn
  /\ BadPath \notin Paths
  /\ NoClass \notin Classes

ASSUME RequestsWellFormed == Requests \subseteq Request

ASSUME BoundsNatural == MaxRuns \in Nat /\ MaxCrashes \in Nat /\ MaxEdits \in Nat

VARIABLES
  pc,          \* where WriteGeneratedFiles is
  req,         \* its arguments
  i,           \* the loop index of the phase, over req.files
  publish,     \* PlanEntry::publish, the entries for which it is true
  hadExisting, \* PlanEntry::had_existing
  backedUp,    \* PlanEntry::backed_up
  published,   \* PlanEntry::published
  blocked,     \* blocked_source_classes of CheckExistingOutputs
  status,      \* OutputFileResult::status of each file
  diags,       \* codes of the diagnostics in the result
  out,         \* the output directory
  staged,      \* <output>/.mockfakegen-staging/files
  backup,      \* <output>/.mockfakegen-staging/backup
  before,      \* history: the output files as the run found them, with the
               \* edits somebody else made since
  raced,       \* history: paths edited after the writer had looked at them
  windowed,    \* history: paths edited between the last look and the rename
  runs, crashes, edits  \* counters, for the bounds only

argVars   == <<req>>
planVars  == <<publish, hadExisting, backedUp, published, blocked>>
fsVars    == <<out, staged, backup>>
histVars  == <<before, raced, windowed>>
counters  == <<runs, crashes, edits>>
resVars   == <<status, diags>>
vars == <<pc, i, argVars, planVars, resVars, fsVars, histVars, counters>>

Phases == {"idle", "root", "parents", "check", "prepare", "stage", "write",
           "publish", "inspect", "rename", "rollback", "restore", "done",
           "crashed"}

Resting == {"idle", "done", "crashed"}

Status == {"Planned", "Written", "Unchanged", "SkippedExisting", "Failed"}

Codes == {"output_path_invalid", "output_directory_failure", "output_conflict",
          "output_staging_failure", "output_publish_failure",
          "output_rollback_failure"}

Idx == DOMAIN req.files

PathOf(k) == req.files[k].path

ContentOf(k) == req.files[k].content

ok == diags = {}
-----------------------------------------------------------------------------
(* The path plan *)

Rejected(files, k) ==
  \/ files[k].path = BadPath
  \/ \E j \in 1 .. k - 1 : files[j].path = files[k].path

(* BuildPathPlan: every file first fails, a dry run plans the accepted ones,
   and one rejected path is a diagnostic for the whole call.               *)
PlannedStatus(r) ==
  [k \in DOMAIN r.files |->
     IF r.dry_run /\ ~Rejected(r.files, k) THEN "Planned" ELSE "Failed"]

PathDiags(r) ==
  IF \E k \in DOMAIN r.files : Rejected(r.files, k)
  THEN {"output_path_invalid"} ELSE {}

Begin(r) ==
  /\ pc \in Resting
  /\ runs < MaxRuns
  /\ runs' = runs + 1
  /\ req' = r
  /\ publish' = {} /\ hadExisting' = {} /\ backedUp' = {} /\ published' = {}
  /\ blocked' = {}
  /\ before' = out /\ raced' = {} /\ windowed' = {}
  /\ i' = 1
  /\ UNCHANGED <<fsVars, crashes, edits>>

(* The output directory cannot be made absolute: every file fails. *)
StartWithoutRoot(r) ==
  /\ Begin(r)
  /\ status' = [k \in DOMAIN r.files |-> "Failed"]
  /\ diags' = {"output_path_invalid"}
  /\ pc' = "done"

Start(r) ==
  /\ Begin(r)
  /\ status' = PlannedStatus(r)
  /\ diags' = PathDiags(r)
  /\ pc' = IF r.dry_run \/ diags' # {} THEN "done" ELSE "root"
-----------------------------------------------------------------------------
(* Directories *)

Report(code) == diags' = diags \union {code}

MarkPublishEntriesFailed ==
  [k \in DOMAIN status |-> IF k \in publish THEN "Failed" ELSE status[k]]

CreateOutputRoot ==
  /\ pc = "root"
  /\ \/ pc' = "parents" /\ UNCHANGED resVars
     \/ /\ pc' = "done"
        /\ Report("output_directory_failure")
        /\ status' = [k \in DOMAIN status |-> "Failed"]
  /\ UNCHANGED <<i, argVars, planVars, fsVars, histVars, counters>>

(* All parents are resolved inside the root and created, or the call ends.
   The loop goes on after a failure, so both codes can be reported.        *)
PrepareOutputParents ==
  /\ pc = "parents"
  /\ \/ pc' = "check" /\ UNCHANGED resVars
     \/ /\ pc' = "done"
        /\ \E codes \in SUBSET {"output_path_invalid", "output_directory_failure"} :
             codes # {} /\ diags' = diags \union codes
        /\ status' = MarkPublishEntriesFailed
  /\ UNCHANGED <<i, argVars, planVars, fsVars, histVars, counters>>
-----------------------------------------------------------------------------
(* CheckExistingOutputs, one entry at a time *)

Checking == pc = "check" /\ i \in Idx

CheckDone(newPublish, newHad, newStatus, newDiags, newBlocked) ==
  /\ publish' = newPublish
  /\ hadExisting' = newHad
  /\ status' = newStatus
  /\ diags' = newDiags
  /\ blocked' = newBlocked
  /\ i' = i + 1
  /\ UNCHANGED <<pc, argVars, backedUp, published, fsVars, histVars, counters>>

BlockedWith(k) ==
  IF req.files[k].class = NoClass THEN blocked
  ELSE blocked \union {req.files[k].class}

CheckAbsent ==
  /\ Checking
  /\ out[PathOf(i)] = Absent
  /\ CheckDone(publish \union {i}, hadExisting, status, diags, blocked)

(* A path that cannot be inspected or read, or is no regular file. *)
CheckConflict ==
  /\ Checking
  /\ CheckDone(publish, hadExisting, status,
               diags \union {"output_conflict"}, BlockedWith(i))

IsRegular(p) == out[p] \notin {Absent, Odd}

CheckUnchanged ==
  /\ Checking
  /\ out[PathOf(i)] = ContentOf(i)
  /\ CheckDone(publish, hadExisting, [status EXCEPT ![i] = "Unchanged"], diags,
               blocked)

CheckSkipped ==
  /\ Checking
  /\ IsRegular(PathOf(i)) /\ out[PathOf(i)] # ContentOf(i)
  /\ ~req.overwrite
  /\ CheckDone(publish, hadExisting, [status EXCEPT ![i] = "SkippedExisting"],
               diags \union {"output_conflict"}, BlockedWith(i))

CheckOverwrite ==
  /\ Checking
  /\ IsRegular(PathOf(i)) /\ out[PathOf(i)] # ContentOf(i)
  /\ req.overwrite
  /\ CheckDone(publish \union {i}, hadExisting \union {i}, status, diags, blocked)

CheckExistingOutputs ==
  \/ CheckAbsent \/ CheckConflict \/ CheckUnchanged \/ CheckSkipped
  \/ CheckOverwrite

InBlockedClass(k) == req.files[k].class \in blocked

(* SuppressBlockedSourceClasses followed by the two early returns of
   WriteGeneratedFiles: no file is touched when one of them conflicts.      *)
FinishCheck ==
  /\ pc = "check" /\ i \notin Idx
  /\ publish' = {k \in publish : ~InBlockedClass(k)}
  /\ status' = [k \in DOMAIN status |->
                  IF \/ k \in publish
                     \/ /\ InBlockedClass(k)
                        /\ status[k] \notin {"SkippedExisting", "Unchanged"}
                  THEN "Failed" ELSE status[k]]
  /\ pc' = IF ~ok \/ publish' = {} THEN "done" ELSE "prepare"
  /\ UNCHANGED <<i, argVars, hadExisting, backedUp, published, blocked, diags,
                 fsVars, histVars, counters>>
-----------------------------------------------------------------------------
(* Staging *)

Kept(f, keep) == [p \in Paths |-> IF p \in keep THEN f[p] ELSE Absent]

Occupied(f) == {p \in Paths : f[p] # Absent}

(* remove_all that failed half way: any part of the tree may be left. *)
StagingPartlyRemoved ==
  /\ \E keep \in SUBSET Occupied(staged) : staged' = Kept(staged, keep)
  /\ \E keep \in SUBSET Occupied(backup) : backup' = Kept(backup, keep)

StagingRemoved ==
  /\ staged' = [p \in Paths |-> Absent]
  /\ backup' = [p \in Paths |-> Absent]

(* RemoveStagingRoot ignores the error of remove_all. *)
RemoveStagingRoot == StagingPartlyRemoved

PrepareStagingKeepingStale ==
  /\ pc = "prepare"
  /\ pc' = "stage"
  /\ i' = 1
  /\ UNCHANGED <<argVars, planVars, resVars, fsVars, histVars, counters>>

PrepareStagingRoot ==
  /\ pc = "prepare"
  /\ \/ /\ StagingRemoved
        /\ pc' = "stage"
        /\ i' = 1
        /\ UNCHANGED resVars
     \/ /\ StagingPartlyRemoved
        /\ pc' = "done"
        /\ Report("output_staging_failure")
        /\ status' = MarkPublishEntriesFailed
        /\ UNCHANGED i
  /\ UNCHANGED <<argVars, planVars, out, histVars, counters>>

SkipForwardPastEnd ==
  /\ pc \in {"stage", "publish"}
  /\ i \notin publish
  /\ i' = i + 1
  /\ UNCHANGED <<pc, argVars, planVars, resVars, fsVars, histVars, counters>>

(* The loops over the plan pass over the entries that are not published. *)
SkipForward ==
  /\ pc \in {"stage", "publish"}
  /\ i \in Idx \ publish
  /\ i' = i + 1
  /\ UNCHANGED <<pc, argVars, planVars, resVars, fsVars, histVars, counters>>

(* The staged file is created empty; its directory or the open can fail, and
   the loop then goes on with the next entry.                              *)
OpenStaged ==
  /\ pc = "stage" /\ i \in Idx /\ i \in publish
  /\ \/ /\ staged' = [staged EXCEPT ![PathOf(i)] = Torn]
        /\ pc' = "write"
        /\ UNCHANGED <<i, diags>>
     \/ /\ Report("output_staging_failure")
        /\ i' = i + 1
        /\ UNCHANGED <<pc, staged>>
  /\ UNCHANGED <<argVars, planVars, status, out, backup, histVars, counters>>

WriteStagedErrorLost ==
  /\ pc = "write"
  /\ pc' = "stage"
  /\ i' = i + 1
  /\ \/ staged' = [staged EXCEPT ![PathOf(i)] = ContentOf(i)]
     \/ UNCHANGED staged
  /\ UNCHANGED <<argVars, planVars, resVars, out, backup, histVars, counters>>

(* write, flush and close, any of which can fail and leave the file short. *)
WriteStaged ==
  /\ pc = "write"
  /\ pc' = "stage"
  /\ i' = i + 1
  /\ \/ /\ staged' = [staged EXCEPT ![PathOf(i)] = ContentOf(i)]
        /\ UNCHANGED diags
     \/ Report("output_staging_failure") /\ UNCHANGED staged
  /\ UNCHANGED <<argVars, planVars, status, out, backup, histVars, counters>>

FinishStage ==
  /\ pc = "stage" /\ i \notin Idx
  /\ \/ /\ ok
        /\ pc' = "publish"
        /\ i' = 1
        /\ UNCHANGED <<staged, backup, status>>
     \/ /\ ~ok
        /\ pc' = "done"
        /\ status' = MarkPublishEntriesFailed
        /\ RemoveStagingRoot
        /\ UNCHANGED i
  /\ UNCHANGED <<argVars, planVars, diags, out, histVars, counters>>
-----------------------------------------------------------------------------
(* Publication *)

FailPublishSkippingEntry ==
  /\ Report("output_publish_failure")
  /\ status' = MarkPublishEntriesFailed
  /\ pc' = "rollback"
  /\ i' = i - 1

(* One entry fails to be published: everything done so far is undone, what has
   been done for this entry included.                                       *)
FailPublish ==
  /\ Report("output_publish_failure")
  /\ status' = MarkPublishEntriesFailed
  /\ pc' = "rollback"
  /\ i' = Len(req.files)

BackupFlagForgotten ==
  /\ pc = "publish" /\ i \in Idx /\ i \in publish \intersect hadExisting
  /\ \/ /\ out[PathOf(i)] # Absent
        /\ backup' = [backup EXCEPT ![PathOf(i)] = out[PathOf(i)]]
        /\ out' = [out EXCEPT ![PathOf(i)] = Absent]
        /\ pc' = "inspect"
        /\ UNCHANGED <<i, resVars>>
     \/ FailPublish /\ UNCHANGED <<out, backup>>
  /\ UNCHANGED <<argVars, planVars, staged, histVars, counters>>

BackupExisting ==
  /\ pc = "publish" /\ i \in Idx /\ i \in publish \intersect hadExisting
  /\ \/ /\ out[PathOf(i)] # Absent
        /\ backup' = [backup EXCEPT ![PathOf(i)] = out[PathOf(i)]]
        /\ out' = [out EXCEPT ![PathOf(i)] = Absent]
        /\ backedUp' = backedUp \union {i}
        /\ pc' = "inspect"
        /\ UNCHANGED <<i, resVars>>
     \/ FailPublish /\ UNCHANGED <<backedUp, out, backup>>
  /\ UNCHANGED <<argVars, publish, hadExisting, published, blocked, staged,
                 histVars, counters>>

AtInspection ==
  \/ pc = "inspect"
  \/ pc = "publish" /\ i \in Idx /\ i \in publish \ hadExisting

(* exists() follows links, so something odd may look absent or present. *)
OutputPathStillPublishable ==
  /\ AtInspection
  /\ \/ /\ out[PathOf(i)] \in {Absent, Odd}
        /\ pc' = "rename"
        /\ UNCHANGED <<i, resVars>>
     \/ FailPublish
  /\ UNCHANGED <<argVars, planVars, fsVars, histVars, counters>>

RenameErrorIgnored ==
  /\ pc = "rename"
  /\ \/ /\ staged[PathOf(i)] # Absent
        /\ out' = [out EXCEPT ![PathOf(i)] = staged[PathOf(i)]]
        /\ staged' = [staged EXCEPT ![PathOf(i)] = Absent]
        /\ published' = published \union {i}
     \/ UNCHANGED <<out, staged, published>>
  /\ pc' = "publish"
  /\ i' = i + 1
  /\ UNCHANGED <<argVars, publish, hadExisting, backedUp, blocked, backup,
                 resVars, histVars, counters>>

(* rename replaces whatever is at the output path by then. *)
RenameStaged ==
  /\ pc = "rename"
  /\ \/ /\ staged[PathOf(i)] # Absent
        /\ out' = [out EXCEPT ![PathOf(i)] = staged[PathOf(i)]]
        /\ staged' = [staged EXCEPT ![PathOf(i)] = Absent]
        /\ published' = published \union {i}
        /\ pc' = "publish"
        /\ i' = i + 1
        /\ UNCHANGED resVars
     \/ FailPublish /\ UNCHANGED <<out, staged, published>>
  /\ UNCHANGED <<argVars, publish, hadExisting, backedUp, blocked, backup,
                 histVars, counters>>

FinishPublish ==
  /\ pc = "publish" /\ i \notin Idx
  /\ status' = [k \in DOMAIN status |->
                  IF k \in publish THEN "Written" ELSE status[k]]
  /\ RemoveStagingRoot
  /\ pc' = "done"
  /\ UNCHANGED <<i, argVars, planVars, diags, out, histVars, counters>>
-----------------------------------------------------------------------------
(* RollbackPublishedFiles, from the last entry to the first *)

SkipBack ==
  /\ pc = "rollback"
  /\ i \in Idx \ publish
  /\ i' = i - 1
  /\ UNCHANGED <<pc, argVars, planVars, resVars, fsVars, histVars, counters>>

RollbackRemoveAlways ==
  /\ pc = "rollback" /\ i \in Idx /\ i \in publish
  /\ pc' = "restore"
  /\ \/ out' = [out EXCEPT ![PathOf(i)] = Absent] /\ UNCHANGED diags
     \/ Report("output_rollback_failure") /\ UNCHANGED out
  /\ UNCHANGED <<i, argVars, planVars, status, staged, backup, histVars, counters>>

RollbackRemove ==
  /\ pc = "rollback" /\ i \in Idx /\ i \in publish
  /\ pc' = "restore"
  /\ IF i \in published
     THEN \/ out' = [out EXCEPT ![PathOf(i)] = Absent] /\ UNCHANGED diags
          \/ Report("output_rollback_failure") /\ UNCHANGED out
     ELSE UNCHANGED <<out, diags>>
  /\ UNCHANGED <<i, argVars, planVars, status, staged, backup, histVars, counters>>

RollbackRestoreErrorLost ==
  /\ pc = "restore"
  /\ pc' = "rollback"
  /\ i' = i - 1
  /\ IF i \in backedUp
     THEN \/ /\ backup[PathOf(i)] # Absent
             /\ out' = [out EXCEPT ![PathOf(i)] = backup[PathOf(i)]]
             /\ backup' = [backup EXCEPT ![PathOf(i)] = Absent]
          \/ UNCHANGED <<out, backup>>
     ELSE UNCHANGED <<out, backup>>
  /\ UNCHANGED <<argVars, planVars, resVars, staged, histVars, counters>>

RollbackRestore ==
  /\ pc = "restore"
  /\ pc' = "rollback"
  /\ i' = i - 1
  /\ IF i \in backedUp
     THEN \/ /\ backup[PathOf(i)] # Absent
             /\ out' = [out EXCEPT ![PathOf(i)] = backup[PathOf(i)]]
             /\ backup' = [backup EXCEPT ![PathOf(i)] = Absent]
             /\ UNCHANGED diags
          \/ Report("output_rollback_failure") /\ UNCHANGED <<out, backup>>
     ELSE UNCHANGED <<out, backup, diags>>
  /\ UNCHANGED <<argVars, planVars, status, staged, histVars, counters>>

(* WriteGeneratedFiles removes the staging directory after a failed
   publication too, with the backups a failed rollback left in it.         *)
FinishRollback ==
  /\ pc = "rollback" /\ i \notin Idx
  /\ RemoveStagingRoot
  /\ pc' = "done"
  /\ UNCHANGED <<i, argVars, planVars, resVars, out, histVars, counters>>
-----------------------------------------------------------------------------
WriterStep ==
  \/ CreateOutputRoot \/ PrepareOutputParents
  \/ CheckExistingOutputs \/ FinishCheck
  \/ PrepareStagingRoot \/ SkipForward \/ OpenStaged \/ WriteStaged \/ FinishStage
  \/ BackupExisting \/ OutputPathStillPublishable \/ RenameStaged \/ FinishPublish
  \/ SkipBack \/ RollbackRemove \/ RollbackRestore \/ FinishRollback

(* The process dies; the filesystem stays as it is. *)
Crash ==
  /\ pc \notin Resting
  /\ crashes < MaxCrashes
  /\ crashes' = crashes + 1
  /\ pc' = "crashed"
  /\ UNCHANGED <<i, argVars, planVars, resVars, fsVars, histVars, runs, edits>>

(* The writer has decided what to do with the output file p. *)
LookedAt(p) ==
  \/ pc \in Phases \ (Resting \union {"root", "parents", "check"})
  \/ pc = "check" /\ \E k \in 1 .. i - 1 : k \in Idx /\ PathOf(k) = p

(* Somebody else creates, replaces or deletes an output file. *)
Edit(p, c) ==
  /\ pc \notin Resting
  /\ edits < MaxEdits
  /\ edits' = edits + 1
  /\ c # out[p]
  /\ out' = [out EXCEPT ![p] = c]
  /\ before' = [before EXCEPT ![p] = c]
  /\ raced' = IF LookedAt(p) THEN raced \union {p} ELSE raced
  /\ windowed' = IF pc = "rename" /\ PathOf(i) = p THEN windowed \union {p}
                 ELSE windowed
  /\ UNCHANGED <<pc, i, argVars, planVars, resVars, staged, backup, runs, crashes>>

Init ==
  /\ pc = "idle"
  /\ req \in {[files |-> <<>>, overwrite |-> FALSE, dry_run |-> FALSE]}
  /\ i = 1
  /\ publish = {} /\ hadExisting = {} /\ backedUp = {} /\ published = {}
  /\ blocked = {}
  /\ status = <<>> /\ diags = {}
  /\ out \in [Paths -> Contents \union {Absent, Odd}]
  /\ staged = [p \in Paths |-> Absent] /\ backup = [p \in Paths |-> Absent]
  /\ before = out /\ raced = {} /\ windowed = {}
  /\ runs = 0 /\ crashes = 0 /\ edits = 0

Next ==
  \/ \E r \in Requests : Start(r) \/ StartWithoutRoot(r)
  \/ WriterStep
  \/ Crash
  \/ \E p \in Paths, c \in Contents \union {Absent, Odd} : Edit(p, c)

Spec == Init /\ [][Next]_vars
-----------------------------------------------------------------------------
(* The constituents of the state; everything else below rests on it. *)
TypeOK ==
  /\ pc \in Phases
  /\ req \in Request
  /\ i \in 0 .. Len(req.files) + 1
  /\ publish \subseteq Idx /\ hadExisting \subseteq Idx
  /\ backedUp \subseteq Idx /\ published \subseteq Idx
  /\ blocked \subseteq Classes
  /\ status \in [Idx -> Status]
  /\ diags \subseteq Codes
  /\ out \in [Paths -> Values]
  /\ staged \in [Paths -> Values]
  /\ backup \in [Paths -> Values]
  /\ before \in [Paths -> Values]
  /\ raced \subseteq Paths /\ windowed \subseteq Paths
  /\ runs \in 0 .. MaxRuns /\ crashes \in 0 .. MaxCrashes /\ edits \in 0 .. MaxEdits

RollbackFailed == "output_rollback_failure" \in diags

(* Atomic write (design section 21.3): whatever fails, whenever the process
   dies and whatever an earlier run left in the staging directory, no output
   path ever holds a file whose write was not completed.                    *)
NoTornOutput == \A p \in Paths : out[p] # Torn

(* While no undo has failed, the file that was at an output path before the
   run is still at that path or in the backup directory, also after a crash;
   a successful run alone may let go of it.                                 *)
OldCopyKept ==
  RollbackFailed \/ (pc = "done" /\ ok) \/
    \A p \in Paths \ raced : before[p] \in {Absent, out[p], backup[p]}

(* A run that died, or is at any point of its publication or of its rollback,
   has taken at most one of the files it found away without a successor.    *)
OneFileInFlight ==
  RollbackFailed \/
    \A p, q \in Paths \ raced :
      (/\ before[p] # Absent /\ out[p] = Absent
       /\ before[q] # Absent /\ out[q] = Absent) => p = q

(* The statuses a caller sees are what is on the disk when the call returns:
   Written and Unchanged files have their contents, and every other file is
   the one the run found, unless a failed rollback is reported.             *)
ReportsMatchDisk ==
  pc = "done" => \A k \in Idx : PathOf(k) \in Paths \ raced =>
    CASE status[k] \in {"Written", "Unchanged"} -> out[PathOf(k)] = ContentOf(k)
      [] status[k] = "SkippedExisting" ->
           /\ out[PathOf(k)] = before[PathOf(k)]
           /\ out[PathOf(k)] # ContentOf(k)
      [] OTHER -> RollbackFailed \/ out[PathOf(k)] = before[PathOf(k)]

(* A call without diagnostics has all its files in place and a call with one
   has changed none and calls none Written, although files of several source
   classes fail, conflict and are blocked independently of each other.      *)
AllOrNothing ==
  pc = "done" =>
    IF ok /\ ~req.dry_run
    THEN \A k \in Idx : /\ status[k] \in {"Written", "Unchanged"}
                        /\ PathOf(k) \notin raced => out[PathOf(k)] = ContentOf(k)
    ELSE /\ \A k \in Idx : status[k] # "Written"
         /\ RollbackFailed \/ \A p \in Paths \ raced : out[p] = before[p]

(* A file that somebody creates after CheckExistingOutputs found nothing at
   its path survives the run: the second look before the rename catches it.
   It is lost only if it comes between that look and the rename, or after
   the run had published a file of its own there and takes it back.         *)
AppearedFileSurvives ==
  [][edits' = edits =>
       \A k \in publish \ hadExisting :
         LET p == PathOf(k) IN
         out[p] \in Contents /\ out'[p] # out[p]
           => k \in published \/ p \in windowed]_vars
-----------------------------------------------------------------------------
(* The refinement mapping to AtomicPublish.  While an entry can still be
   undone, its path counts as holding what the rollback would put back.     *)

Undoable == pc \in {"publish", "inspect", "rename", "rollback", "restore"}

Logical ==
  [p \in Paths |->
     IF Undoable /\ backup[p] # Absent THEN backup[p]
     ELSE IF Undoable /\ \E k \in published \ backedUp : PathOf(k) = p THEN Absent
     ELSE out[p]]

AbstractPhase ==
  CASE pc = "idle" -> "aborted"
    [] pc = "crashed" -> "crashed"
    [] pc = "done" -> IF RollbackFailed THEN "damaged"
                      ELSE IF ok /\ ~req.dry_run THEN "committed" ELSE "aborted"
    [] OTHER -> "open"

AbstractGoal ==
  [p \in Paths |-> {ContentOf(k) : k \in {j \in Idx : PathOf(j) = p}}]

Atomic == INSTANCE AtomicPublish
            WITH phase <- AbstractPhase, goal <- AbstractGoal, store <- Logical

(* Where nobody else edits the outputs, the writer is an AtomicPublish. *)
ImplementsAtomicPublish == Atomic!Spec
=============================================================================
