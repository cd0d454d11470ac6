------------------------------- MODULE Runner -------------------------------
(***************************************************************************)
(* RunCli of src/src/Runner.cpp: a run of mockfakegen from its arguments   *)
(* to its exit code, as a sequence of stages that can each fail, and of    *)
(* runs on one output directory.  What the stages find is chosen at the    *)
(* start of a run; what becomes of it is decided by GenerationPolicy; and  *)
(* each call of WriteGeneratedFiles is one of AtomicPublish, with the      *)
(* conflicts that make it end without a change.                            *)
(*                                                                         *)
(* --help, which does nothing, is left out.  So are edits of the output    *)
(* directory by others, which OutputWriter is about.                       *)
(***************************************************************************)
EXTENDS GenerationPolicy, FiniteSets

CONSTANTS
  Absent,     \* nothing at a path
  Odd,        \* something that is not a regular file
  Foreign,    \* a file mockfakegen has not written
  Campaigns,  \* names of the sequences of runs to consider, and for each of them
  Options,    \*   the configurations to consider
  Inputs,     \*   what the stages may find
  FirstDisks, \*   what the output directory may hold before the first run
  MaxRuns,    \*   bound: runs
  MaxLosses   \*   bound: runs that die, or fail and cannot undo what they did

Option == [strict : BOOLEAN, overwrite : BOOLEAN, dry_run : BOOLEAN,
           emit_manifest : BOOLEAN]

ASSUME CampaignsGiven ==
  \A c \in Campaigns :
    /\ Options[c] \subseteq Option /\ Inputs[c] \subseteq Findings
    /\ MaxRuns[c] \in Nat /\ MaxLosses[c] \in Nat

Mock(c) == <<"mock", c>>
Fake(c) == <<"fake", c>>
Support == <<"support", "none">>  \* AllMocks.h, the runtime header, CMake
Manifest == <<"manifest", "none">>
Report == <<"report", "none">>

Publishable == {Mock(c) : c \in Classes} \union {Fake(c) : c \in Classes} \union {Support}

Files == Publishable \union {Manifest, Report}

ASSUME DisksGiven ==
  \A c \in Campaigns : FirstDisks[c] \subseteq [Files -> {Absent, Odd, Foreign}]

VARIABLES
  campaign, \* the sequence of runs, fixed
  pc,       \* the stage that comes next
  opt,      \* the configuration of the run
  found,    \* what its stages find
  path,     \* which of the calls of WriteGeneratedFiles the run has come to
  decision, \* the decision of the policy
  text,     \* what the diagnostic artifacts of the run say
  exit,     \* the exit code
  phase, goal, disk,  \* the writer: see AtomicPublish
  faulty,   \* history: the last write failed without a conflict
  before,   \* history: the disk as the run found it, or as an undo that failed left it
  runs, losses        \* counters, for the bounds only

runVars == <<opt, found, decision>>
writerVars == <<phase, goal, disk>>
history == <<faulty, before>>
counters == <<runs, losses>>
vars == <<campaign, pc, runVars, path, text, exit, writerVars, history, counters>>

Resting == {"idle", "done", "dead"}

WritePaths == {"config", "scan", "format", "suppressed", "publish", "write"}

(* A manifest or a report, reduced to what it says of the run. *)
Texts == [path : WritePaths, ver : Int, classes : SUBSET Classes,
          kinds : SUBSET FailureKinds, usable : SUBSET Classes]

FileContents == [ver : Int] \union [classes : SUBSET Classes]

Contents == FileContents \union Texts \union {Foreign}

Writer == INSTANCE AtomicPublish WITH Paths <- Files, store <- disk
-----------------------------------------------------------------------------
(* The generated files and their contents *)

GeneratedBy(f) ==
  {Mock(c) : c \in f.classes} \union {Fake(c) : c \in f.classes} \union {Support}

Generated == GeneratedBy(found)

ContentOf(f) ==
  IF f = Support THEN [classes |-> found.classes] ELSE [ver |-> found.ver]

(* AppendDiagnosticArtifacts and what FilesSelectedByPolicy takes of it *)
Artifacts(manifest, report) ==
  (IF manifest THEN {Manifest} ELSE {}) \union (IF report THEN {Report} ELSE {})

(* Every link-ready class, published or not: for comparison *)
LinkReadySources(p, unchanged) ==
  IF p \in {"publish", "write"} THEN {c \in found.classes : LinkReady(found, c)} ELSE {}

(* UsableFakeSources: a class whose files have a publication status must
   have had both published; without any status, all count as published.     *)
UsableSources(p, unchanged) ==
  LET extracted == found.classes \ (found.marked \union found.unsupported)
      ready == {c \in found.classes : LinkReady(found, c)}
  IN CASE p = "format" -> extracted
       [] p = "publish" -> ready
       [] p = "write" -> {c \in ready : {Mock(c), Fake(c)} \subseteq unchanged}
       [] OTHER -> {}

(* The failures whose diagnostics the artifacts of a path include *)
ReportedKinds(p) ==
  CASE p \in {"config", "scan"} -> {}
    [] p = "format" -> {"format"} \union (FoundKinds(found) \intersect {"parse"})
    [] p = "write" -> {"write"} \union FoundKinds(found)
    [] OTHER -> FoundKinds(found)

TextOf(p, unchanged) ==
  [path |-> p,
   ver |-> IF p \in {"config", "scan"} THEN 0 ELSE found.ver,
   classes |-> IF p \in {"config", "scan"} THEN {} ELSE found.classes,
   kinds |-> ReportedKinds(p), usable |-> UsableSources(p, unchanged)]
-----------------------------------------------------------------------------
(* The stages *)

Begin(o, n) ==
  /\ pc \in Resting
  /\ runs < MaxRuns[campaign]
  /\ runs' = runs + 1
  /\ opt' = o /\ found' = n
  /\ pc' = "config"
  /\ path' = "config" /\ text' = TextOf("config", {}) /\ exit' = 0
  /\ before' = disk
  /\ UNCHANGED <<decision, writerVars, faulty, losses>>

(* The run is over but for the artifacts that tell of its failure. *)
FailAt(p, code) ==
  /\ path' = p
  /\ text' = TextOf(p, {})
  /\ exit' = code
  /\ pc' = "write"
  /\ UNCHANGED <<runVars, writerVars, history, counters>>

(* Without an output directory there is nowhere to write the artifacts. *)
RefuseArguments ==
  /\ pc = "config"
  /\ \/ FailAt("config", 2)
     \/ /\ exit' = 2 /\ pc' = "done"
        /\ UNCHANGED <<runVars, path, text, writerVars, history, counters>>

ScanFails == pc = "config" /\ FailAt("scan", 1)

FormatFails == pc = "config" /\ FailAt("format", 1)

(* Scanned, resolved, generated, formatted, checked and validated. *)
Decide ==
  /\ pc = "config"
  /\ LET d == EvaluateGenerationPolicy(opt.strict, opt.emit_manifest, found) IN
     /\ decision' = d
     /\ exit' = d.exit_code
     /\ path' = IF d.publish THEN "publish" ELSE "suppressed"
     /\ pc' = IF d.publish THEN "write" ELSE "remove"
  /\ text' = TextOf(path', {})
  /\ UNCHANGED <<opt, found, writerVars, history, counters>>

(* RemoveStaleSuppressedGeneratedFiles, whose errors are ignored. *)
RemoveStaleSuppressedGeneratedFiles ==
  /\ pc = "remove"
  /\ pc' = "write"
  /\ IF opt.dry_run \/ ~opt.overwrite THEN UNCHANGED disk
     ELSE \E kept \in SUBSET Generated :
            disk' = [f \in Files |-> IF f \in Generated \ kept THEN Absent ELSE disk[f]]
  /\ UNCHANGED <<runVars, path, text, exit, phase, goal, history, counters>>
-----------------------------------------------------------------------------
(* WriteGeneratedFiles *)

(* What is published although the policy says that it is not: for comparison *)
SelectedRegardless ==
  CASE path \in {"publish", "suppressed"} ->
         Generated \union Artifacts(decision.manifest, decision.report)
    [] OTHER -> Artifacts(opt.emit_manifest, TRUE)

(* FilesSelectedByPolicy, or the artifacts alone where the policy was not
   asked; after a failed write the policy for write failures.               *)
Selected ==
  LET afterWrite == EvaluateFailurePolicy(opt.strict, "write") IN
  CASE path \in {"publish", "suppressed"} ->
         (IF decision.publish THEN Generated ELSE {})
           \union Artifacts(decision.manifest, decision.report)
    [] path = "write" ->
         Artifacts(opt.emit_manifest /\ afterWrite.manifest, afterWrite.report)
    [] OTHER -> Artifacts(opt.emit_manifest, TRUE)

GoalFor(files) ==
  [f \in Files |-> IF f \notin files THEN {}
                   ELSE IF f \in Publishable THEN {ContentOf(f)} ELSE {text}]

OpenWrite ==
  /\ pc = "write" /\ ~opt.dry_run
  /\ pc' = "writing"
  /\ phase' = "open" /\ Writer!Open(GoalFor(Selected))
  /\ UNCHANGED <<runVars, path, text, exit, disk, history, counters>>

(* A dry run ends with the plan of paths, before anything that is there is
   looked at.  A plan with a path that cannot be used fails the run, unless it
   is only one for the artifacts of a stage that has failed.                *)
PlanWrite ==
  /\ pc = "write" /\ opt.dry_run
  /\ pc' = "done"
  /\ \/ UNCHANGED exit
     \/ path \in {"publish", "suppressed"} /\ exit' = 1
  /\ UNCHANGED <<runVars, path, text, writerVars, history, counters>>

Asked == {f \in Files : goal[f] # {}}

Identical == {f \in Asked : disk[f] \in goal[f]}

(* The second write of a run may also replace a report that the first one has
   written, but a failed call has written none (AllOrNothing of OutputWriter). *)
Conflict ==
  \E f \in Asked \ Identical :
    disk[f] = Odd \/ (disk[f] # Absent /\ ~opt.overwrite)

WriteSucceeds ==
  /\ pc = "writing" /\ ~Conflict
  /\ disk' = [f \in Files |-> IF f \in Asked THEN CHOOSE c \in goal[f] : TRUE ELSE disk[f]]
  /\ Writer!Commit
  /\ pc' = "done"
  /\ faulty' = FALSE
  /\ UNCHANGED <<runVars, path, text, exit, before, counters>>

(* Other ways to go on after a failed write, for comparison: with the exit code
   of the policy, without a report, and with a report after any failure.    *)
KeepExitCode(unchanged) ==
  IF path \in {"publish", "suppressed"}
  THEN path' = "write" /\ text' = TextOf("write", unchanged) /\ pc' = "write" /\ exit' = exit
  ELSE pc' = "done" /\ UNCHANGED <<path, text, exit>>

GiveUp(unchanged) ==
  pc' = "done" /\ exit' = 1 /\ UNCHANGED <<path, text>>

(* After a failure the run writes its report once more, unless the failure
   was one of artifacts only written because a stage had failed.            *)
AfterFailedWrite(unchanged) ==
  IF path \in {"publish", "suppressed"}
  THEN /\ path' = "write"
       /\ text' = TextOf("write", unchanged)
       /\ exit' = 1
       /\ pc' = "write"
  ELSE pc' = "done" /\ UNCHANGED <<path, text, exit>>

(* A conflict, or an operation of the writer that failed and was undone. *)
WriteFails ==
  /\ pc = "writing"
  /\ \/ faulty' = FALSE /\ Conflict /\ AfterFailedWrite(Identical)
     \/ /\ faulty' = TRUE
        /\ \E unchanged \in SUBSET Identical : AfterFailedWrite(unchanged)
  /\ Writer!Abort
  /\ UNCHANGED <<runVars, before, counters>>

Partly ==
  \E replaced \in SUBSET Asked : \E missing \in SUBSET (Asked \ replaced) :
    disk' = [f \in Files |-> IF f \in replaced THEN CHOOSE c \in goal[f] : TRUE
                             ELSE IF f \in missing THEN Absent ELSE disk[f]]

(* An operation that failed and could not be undone *)
WriteDamages ==
  /\ pc = "writing" /\ ~Conflict
  /\ losses < MaxLosses[campaign]
  /\ losses' = losses + 1
  /\ Partly
  /\ Writer!Damage
  /\ faulty' = TRUE /\ before' = disk'
  /\ AfterFailedWrite({})
  /\ UNCHANGED <<runVars, runs>>

Die ==
  /\ pc \notin Resting
  /\ losses < MaxLosses[campaign]
  /\ losses' = losses + 1
  /\ pc' = "dead"
  /\ IF pc = "writing"
     THEN (IF Conflict THEN UNCHANGED disk ELSE Partly) /\ Writer!Die
     ELSE UNCHANGED writerVars
  /\ UNCHANGED <<runVars, path, text, exit, history, runs>>
-----------------------------------------------------------------------------
NoFindings ==
  [ver |-> 0, classes |-> {}, marked |-> {}, unsupported |-> {}, misfit |-> {},
   topLevel |-> FALSE, parse |-> FALSE, ket |-> FALSE, validation |-> FALSE]

Init ==
  /\ pc = "idle"
  /\ opt = [strict |-> FALSE, overwrite |-> FALSE, dry_run |-> FALSE,
            emit_manifest |-> TRUE]
  /\ found = NoFindings
  /\ decision = [exit_code |-> 0, publish |-> TRUE, manifest |-> TRUE, report |-> TRUE]
  /\ path = "config" /\ text = TextOf("config", {}) /\ exit = 0
  /\ campaign \in Campaigns
  /\ disk \in FirstDisks[campaign]
  /\ Writer!Init
  /\ faulty = FALSE /\ before = disk
  /\ runs = 0 /\ losses = 0

Next ==
  /\ \/ \E o \in Options[campaign], n \in Inputs[campaign] : Begin(o, n)
     \/ RefuseArguments \/ ScanFails \/ FormatFails \/ Decide
     \/ RemoveStaleSuppressedGeneratedFiles
     \/ OpenWrite \/ PlanWrite \/ WriteSucceeds \/ WriteFails \/ WriteDamages
     \/ Die
  /\ UNCHANGED campaign

Spec == Init /\ [][Next]_vars
-----------------------------------------------------------------------------
TypeOK ==
  /\ pc \in Resting \union {"config", "remove", "write", "writing"}
  /\ opt \in Option /\ found \in Findings /\ decision \in Decision
  /\ path \in WritePaths /\ text \in Texts /\ exit \in 0 .. 2
  /\ phase \in Writer!Ended \union {"open"}
  /\ goal \in [Files -> SUBSET Contents]
  /\ disk \in [Files -> Contents \union {Absent, Odd}]
  /\ before \in [Files -> Contents \union {Absent, Odd}]
  /\ faulty \in BOOLEAN
  /\ campaign \in Campaigns
  /\ runs \in 0 .. MaxRuns[campaign] /\ losses \in 0 .. MaxLosses[campaign]

Ended == pc = "done" /\ ~opt.dry_run

(* The policy table of design section 21.5, and link readiness after it. *)
Matrix(kind) ==
  CASE kind \in {"parse", "format", "ket", "validation", "fallback"} ->
         [best |-> 1, strict |-> 1, publish |-> FALSE, manifest |-> TRUE]
    [] kind \in {"unsupported", "readiness"} ->
         [best |-> 0, strict |-> 1, publish |-> TRUE, manifest |-> TRUE]
    [] kind = "write" ->
         [best |-> 1, strict |-> 1, publish |-> FALSE, manifest |-> FALSE]

(* However many failures of whatever kinds a run has, the outcome is that of
   the strictest of their rows.  The exit code is zero only if each row allows
   it, in a dry run as well, and that of a run that publishes is the one of the
   rows.  If one row forbids publication, no generated file is there that was
   not there before the run; and if none does, all of them are, when the run is
   one that has come as far as to generate them.                            *)
OutcomeFollowsMatrix ==
  pc = "done" =>
    LET rows == {Matrix(k) : k \in text.kinds}
        publish == \A r \in rows : r.publish
    IN /\ exit = 0 => \A r \in rows : (IF opt.strict THEN r.strict ELSE r.best) = 0
       /\ (Ended /\ path = "publish" /\ rows # {}) => exit = (IF opt.strict THEN 1 ELSE 0)
       /\ ~publish => \A f \in Publishable : disk[f] \in {before[f], Absent}
       /\ (Ended /\ publish /\ path \notin {"config", "scan"}) =>
            \A f \in Generated : disk[f] = ContentOf(f)

(* No path through a run, a failing write included, puts a generated file on
   the disk if one of the failures found forbids its publication.           *)
SuppressedNeverPublished ==
  [][\A f \in Publishable : disk'[f] \notin {disk[f], Absent} =>
       /\ path = "publish"
       /\ \A k \in FoundKinds(found) : Matrix(k).publish]_vars

(* Exit code zero means that the output directory holds what the run made:
   every generated file, the report, and the manifest if it is wanted.      *)
ExitZeroMeansPublished ==
  Ended /\ exit = 0 =>
    /\ \A f \in Generated : disk[f] = ContentOf(f)
    /\ disk[Report] = text
    /\ opt.emit_manifest => disk[Manifest] = text

(* The sources that the report of the run calls usable are in the output
   directory, with their mock headers and as this run generated them: what
   the tests ask for ("report should not advertise the unpublished same-class
   fake source", cli_e2e_test.cpp line 1577), unless an undo has failed.     *)
UsableSourcesExist ==
  Ended /\ disk[Report] = text /\ phase # "damaged" =>
    \A c \in text.usable : \A f \in {Mock(c), Fake(c)} : disk[f] = ContentOf(f)

(* The same where the code computes it from what was published: it does not
   when the formatter has failed.                                           *)
AdvertisedSourcesExist == path # "format" => UsableSourcesExist

(* A write that fails leaves a report that tells of it: "emit report: yes" in
   the row for write failures of design section 21.5, and section 24.11, unless
   the filesystem fails as the report is written.                           *)
WriteFailureReported == Ended /\ path = "write" /\ ~faulty => disk[Report] = text

(* Given leave to replace files, every run that fails on its way leaves its
   own report and none of an earlier run, unless the filesystem fails in its
   last write or what is to be replaced is no file.                         *)
FailureReportedOnOverwrite ==
  /\ Ended /\ exit # 0 /\ path # "config" /\ ~faulty
  /\ opt.overwrite /\ disk[Report] # Odd /\ disk[Manifest] # Odd
  => disk[Report] = text
=============================================================================
