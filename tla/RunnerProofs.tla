---------------------------- MODULE RunnerProofs ----------------------------
(***************************************************************************)
(* Proofs about the runner and its policy, for any classes, findings,      *)
(* options, output directories and numbers of runs.  MatrixFacts says that *)
(* the policy of each kind of failure is its row of the design's table,    *)
(* PolicyFacts that the policy for all that a run has found is the         *)
(* strictest of their rows.  OutcomeInv relates exit code, decision and    *)
(* artifacts of a run to what it found and the path it took, WritingInv    *)
(* the open call of the writer to them, WrittenInv what is on the disk     *)
(* after a run to both, and BeforeInv what is there to what was there      *)
(* before the run.                                                         *)
(***************************************************************************)
EXTENDS Runner, TLAPS

(* Past the stages that only find something *)
Judged == pc \in {"remove", "write", "writing", "done"}

RowCode(strict, kind) == IF strict THEN Matrix(kind).strict ELSE Matrix(kind).best

Code(kind) == RowCode(opt.strict, kind)

(* The report of a failed write says that the files in unchanged, and no
   others, are as the run made them.                                        *)
TellsOf(unchanged) ==
  /\ text = TextOf("write", unchanged)
  /\ \A f \in unchanged \intersect Publishable : disk[f] = ContentOf(f)

OutcomeInv ==
  /\ pc = "config" => path = "config" /\ text = TextOf("config", {})
  /\ pc = "remove" => path = "suppressed"
  /\ Judged =>
       /\ path = "config" => exit = 2
       /\ path \in {"scan", "format", "write"} => exit = 1
       /\ path \in {"publish", "suppressed"} =>
            /\ decision = EvaluateGenerationPolicy(opt.strict, opt.emit_manifest, found)
            /\ exit = decision.exit_code \/ (opt.dry_run /\ pc = "done" /\ exit = 1)
            /\ decision.publish <=> path = "publish"
       /\ path # "write" => text = TextOf(path, {})
       /\ path = "write" => \E unchanged \in SUBSET Files : TellsOf(unchanged)

WritingInv ==
  pc = "writing" => phase = "open" /\ ~opt.dry_run /\ goal = GoalFor(Selected)

(* After a run either what it last wanted to write is in place, or it had
   failed before and could not write its report either.                     *)
WrittenInv ==
  Ended /\ path # "config" =>
    \/ \A f \in Selected : disk[f] \in GoalFor(Selected)[f]
    \/ /\ path \notin {"publish", "suppressed"}
       /\ faulty \/ ~opt.overwrite \/ disk[Report] = Odd \/ disk[Manifest] = Odd

(* No generated file is new until a run that publishes has succeeded.       *)
BeforeInv ==
  pc \notin {"idle", "dead"} /\ ~(pc = "done" /\ path = "publish") =>
    \A f \in Publishable : disk[f] \in {before[f], Absent}

Inv == TypeOK /\ OutcomeInv /\ WritingInv /\ WrittenInv /\ BeforeInv
-----------------------------------------------------------------------------
(* The policy *)

(* What the code does about one failure is what the design's table says.   *)
LEMMA MatrixFacts ==
  ASSUME NEW strict \in BOOLEAN, NEW kind \in FailureKinds
  PROVE  LET p == EvaluateFailurePolicy(strict, kind)
             row == Matrix(kind)
         IN /\ p \in Decision /\ p.exit_code \in {0, 1}
            /\ p.exit_code = IF strict THEN row.strict ELSE row.best
            /\ p.publish = row.publish /\ p.manifest = row.manifest /\ p.report = TRUE
            /\ row.best = 0 <=> row.publish
            /\ row.strict = 1 /\ row.best \in {0, 1}
            /\ kind # "write" => p.manifest = TRUE
<1>. DEFINE p == EvaluateFailurePolicy(strict, kind)
            row == Matrix(kind)
<1>1. CASE kind \in {"unsupported", "readiness"}
  <2>1. /\ p = [exit_code |-> IF strict THEN 1 ELSE 0, publish |-> TRUE,
               manifest |-> TRUE, report |-> TRUE]
        /\ row = [best |-> 0, strict |-> 1, publish |-> TRUE, manifest |-> TRUE]
    BY <1>1 DEF EvaluateFailurePolicy, Matrix
  <2>. QED
    BY <2>1 DEF Decision
<1>2. CASE kind = "write"
  <2>1. /\ p = [exit_code |-> 1, publish |-> FALSE, manifest |-> FALSE, report |-> TRUE]
        /\ row = [best |-> 1, strict |-> 1, publish |-> FALSE, manifest |-> FALSE]
    BY <1>2 DEF EvaluateFailurePolicy, Matrix
  <2>2. p \in Decision /\ p.exit_code = 1 /\ p.publish = FALSE /\ p.manifest = FALSE
        /\ p.report = TRUE
    BY <2>1 DEF Decision
  <2>3. row.best = 1 /\ row.strict = 1 /\ row.publish = FALSE /\ row.manifest = FALSE
    BY <2>1
  <2>4. /\ p.exit_code \in {0, 1} /\ p.exit_code = IF strict THEN row.strict ELSE row.best
        /\ row.best = 0 <=> row.publish
    BY <2>2, <2>3
  <2>5. p.publish = row.publish /\ p.manifest = row.manifest
    BY <2>2, <2>3
  <2>. HIDE DEF p, row
  <2>6. kind # "write" => p.manifest = TRUE
    BY <1>2
  <2>7. row.strict = 1 /\ row.best \in {0, 1}
    BY <2>3
  <2>. QED
    BY <2>2, <2>4, <2>5, <2>6, <2>7 DEF p, row
<1>3. CASE kind \in {"parse", "format", "ket", "validation", "fallback"}
  <2>1. /\ p = [exit_code |-> 1, publish |-> FALSE, manifest |-> TRUE, report |-> TRUE]
        /\ row = [best |-> 1, strict |-> 1, publish |-> FALSE, manifest |-> TRUE]
    BY <1>3 DEF EvaluateFailurePolicy, Matrix
  <2>. QED
    BY <2>1 DEF Decision
<1>. QED
  BY <1>1, <1>2, <1>3 DEF FailureKinds

LEMMA ApplyFacts ==
  ASSUME NEW d \in Decision, NEW p \in Decision
  PROVE  LET a == ApplyFailurePolicy(d, p)
         IN /\ a \in Decision
            /\ a.exit_code = IF d.exit_code > p.exit_code THEN d.exit_code ELSE p.exit_code
            /\ a.publish <=> d.publish /\ p.publish
            /\ a.manifest <=> d.manifest /\ p.manifest
            /\ a.report <=> d.report /\ p.report
BY DEF ApplyFailurePolicy, Decision

(* One of the six steps of the policy *)
ApplyKind(strict, n, d, kind) ==
  IF kind \in FoundKinds(n)
  THEN ApplyFailurePolicy(d, EvaluateFailurePolicy(strict, kind)) ELSE d

(* The decision d takes account of the kinds K among those found. *)
Covers(strict, emitManifest, n, d, K) ==
  /\ d \in Decision
  /\ d.exit_code \in {0, 1}
  /\ d.exit_code = 0 <=>
       \A k \in K \intersect FoundKinds(n) :
         RowCode(strict, k) = 0
  /\ d.publish <=> \A k \in K \intersect FoundKinds(n) : Matrix(k).publish
  /\ d.manifest = emitManifest /\ d.report = TRUE

LEMMA ApplyKindFacts ==
  ASSUME NEW strict \in BOOLEAN, NEW emitManifest \in BOOLEAN, NEW n, NEW d,
         NEW K \in SUBSET FailureKinds, NEW kind \in FailureKinds \ {"write"},
         Covers(strict, emitManifest, n, d, K)
  PROVE  Covers(strict, emitManifest, n, ApplyKind(strict, n, d, kind), K \union {kind})
<1>. DEFINE p == EvaluateFailurePolicy(strict, kind)
            a == ApplyFailurePolicy(d, p)
<1>1. CASE kind \notin FoundKinds(n)
  BY <1>1 DEF Covers, ApplyKind
<1>2. CASE kind \in FoundKinds(n)
  <2>1. /\ p \in Decision /\ p.exit_code \in {0, 1}
        /\ p.exit_code = RowCode(strict, kind)
        /\ p.publish = Matrix(kind).publish /\ p.manifest = TRUE /\ p.report = TRUE
    BY MatrixFacts DEF RowCode
  <2>2. /\ d \in Decision /\ d.exit_code \in {0, 1} /\ d.manifest = emitManifest
        /\ d.report = TRUE
    BY DEF Covers
  <2>3. /\ a \in Decision
        /\ a.exit_code = IF d.exit_code > p.exit_code THEN d.exit_code ELSE p.exit_code
        /\ a.publish <=> d.publish /\ p.publish
        /\ a.manifest <=> d.manifest /\ p.manifest
        /\ a.report <=> d.report /\ p.report
    BY <2>1, <2>2, ApplyFacts
  <2>. HIDE DEF p, a
  <2>4. a.exit_code \in {0, 1} /\ (a.exit_code = 0 <=> d.exit_code = 0 /\ p.exit_code = 0)
    BY <2>1, <2>2, <2>3
  <2>5. a.manifest \in BOOLEAN /\ a.report \in BOOLEAN
    BY <2>3 DEF Decision
  <2>6. a.manifest = emitManifest /\ a.report = TRUE
    BY <2>1, <2>2, <2>3, <2>5
  <2>7. ApplyKind(strict, n, d, kind) = a
    BY <1>2 DEF ApplyKind, a, p
  <2>8. Covers(strict, emitManifest, n, a, K \union {kind})
    BY <1>2, <2>1, <2>3, <2>4, <2>6 DEF Covers
  <2>. QED
    BY <2>7, <2>8
<1>. QED
  BY <1>1, <1>2

(* However many failures of whatever kinds were found, the decision is the  *)
(* strictest of their rows: their least upper bound, in no matter which     *)
(* order they are applied.                                                 *)
LEMMA PolicyFacts ==
  ASSUME NEW strict \in BOOLEAN, NEW emitManifest \in BOOLEAN, NEW n
  PROVE  Covers(strict, emitManifest, n, EvaluateGenerationPolicy(strict, emitManifest, n),
                FailureKinds)
<1>. DEFINE none == [exit_code |-> 0, publish |-> TRUE, manifest |-> emitManifest,
                     report |-> TRUE]
            d1 == ApplyKind(strict, n, none, "parse")
            d2 == ApplyKind(strict, n, d1, "unsupported")
            d3 == ApplyKind(strict, n, d2, "ket")
            d4 == ApplyKind(strict, n, d3, "validation")
            d5 == ApplyKind(strict, n, d4, "fallback")
            d6 == ApplyKind(strict, n, d5, "readiness")
            K1 == {} \union {"parse"}
            K2 == K1 \union {"unsupported"}
            K3 == K2 \union {"ket"}
            K4 == K3 \union {"validation"}
            K5 == K4 \union {"fallback"}
            K6 == K5 \union {"readiness"}
<1>1. d6 = EvaluateGenerationPolicy(strict, emitManifest, n)
  BY DEF EvaluateGenerationPolicy, ApplyKind
<1>2. Covers(strict, emitManifest, n, none, {})
  BY DEF Covers, Decision
<1>3. K6 \intersect FoundKinds(n) = FailureKinds \intersect FoundKinds(n)
  BY DEF FoundKinds, FailureKinds
<1>4. /\ {} \in SUBSET FailureKinds /\ K1 \in SUBSET FailureKinds
      /\ K2 \in SUBSET FailureKinds /\ K3 \in SUBSET FailureKinds
      /\ K4 \in SUBSET FailureKinds /\ K5 \in SUBSET FailureKinds
  BY DEF FailureKinds
<1>5. {"parse", "unsupported", "ket", "validation", "fallback", "readiness"}
        \subseteq FailureKinds \ {"write"}
  BY DEF FailureKinds
<1>. HIDE DEF none
<1>6. Covers(strict, emitManifest, n, d1, K1)
  BY <1>2, <1>4, <1>5, ApplyKindFacts
<1>. HIDE DEF d1, K1
<1>7. Covers(strict, emitManifest, n, d2, K2)
  BY <1>6, <1>4, <1>5, ApplyKindFacts
<1>. HIDE DEF d2, K2
<1>8. Covers(strict, emitManifest, n, d3, K3)
  BY <1>7, <1>4, <1>5, ApplyKindFacts
<1>. HIDE DEF d3, K3
<1>9. Covers(strict, emitManifest, n, d4, K4)
  BY <1>8, <1>4, <1>5, ApplyKindFacts
<1>. HIDE DEF d4, K4
<1>10. Covers(strict, emitManifest, n, d5, K5)
  BY <1>9, <1>4, <1>5, ApplyKindFacts
<1>. HIDE DEF d5, K5
<1>11. Covers(strict, emitManifest, n, d6, K6)
  BY <1>10, <1>4, <1>5, ApplyKindFacts
<1>. HIDE DEF d6, K6
<1>. QED
  BY <1>1, <1>3, <1>11 DEF Covers
-----------------------------------------------------------------------------
(* What is written *)

LEMMA TextFacts ==
  ASSUME found \in Findings, NEW p \in WritePaths, NEW unchanged
  PROVE  /\ TextOf(p, unchanged) \in Texts
         /\ TextOf(p, unchanged).kinds = ReportedKinds(p)
         /\ TextOf(p, unchanged).usable = UsableSources(p, unchanged)
         /\ FoundKinds(found) \subseteq FailureKinds \ {"write", "format"}
<1>1. FoundKinds(found) \subseteq FailureKinds \ {"write", "format"}
  BY DEF FoundKinds, FailureKinds
<1>2. ReportedKinds(p) \subseteq FailureKinds
  BY <1>1 DEF ReportedKinds, FailureKinds
<1>3. found.ver \in Int /\ found.classes \subseteq Classes
  BY DEF Findings
<1>4. UsableSources(p, unchanged) \subseteq Classes
  BY <1>3 DEF UsableSources
<1>. QED
  BY <1>1, <1>2, <1>3, <1>4 DEF TextOf, Texts

LEMMA FileFacts ==
  /\ Report \notin Publishable /\ Manifest \notin Publishable /\ Report # Manifest
  /\ Report \in Files /\ Manifest \in Files /\ Publishable \subseteq Files
  /\ \A c \in Classes : Mock(c) \in Publishable /\ Fake(c) \in Publishable
BY DEF Files, Publishable, Report, Manifest, Support, Mock, Fake

LEMMA SelectedFacts ==
  ASSUME found \in Findings, decision \in Decision
  PROVE  /\ Generated \subseteq Publishable
         /\ Selected \subseteq Files
         /\ path \in {"publish", "suppressed"} =>
              /\ decision.publish => Generated \subseteq Selected
              /\ ~decision.publish => Selected \intersect Publishable = {}
              /\ decision.report => Report \in Selected
              /\ decision.manifest => Manifest \in Selected
         /\ path \in WritePaths \ {"publish", "suppressed"} =>
              Report \in Selected /\ Selected \subseteq {Report, Manifest}
<1>1. Generated \subseteq Publishable
  BY DEF Generated, GeneratedBy, Publishable, Findings
<1>2. \A m, r \in BOOLEAN : /\ Artifacts(m, r) \subseteq {Report, Manifest}
                            /\ r => Report \in Artifacts(m, r)
                            /\ m => Manifest \in Artifacts(m, r)
  BY DEF Artifacts
<1>3. ASSUME path \in {"publish", "suppressed"}
      PROVE  Selected = (IF decision.publish THEN Generated ELSE {})
                          \union Artifacts(decision.manifest, decision.report)
  BY <1>3 DEF Selected
<1>4. ASSUME path \in WritePaths \ {"publish", "suppressed"}
      PROVE  \E m : Selected = Artifacts(m, TRUE)
  <2>1. CASE path = "write"
    BY <2>1 DEF Selected, EvaluateFailurePolicy
  <2>2. CASE path # "write"
    BY <1>4, <2>2 DEF Selected
  <2>. QED
    BY <2>1, <2>2
<1>5. \A m : Report \in Artifacts(m, TRUE) /\ Artifacts(m, TRUE) \subseteq {Report, Manifest}
  BY DEF Artifacts
<1>6. decision.manifest \in BOOLEAN /\ decision.report \in BOOLEAN
  BY DEF Decision
<1>7. ASSUME path \in {"publish", "suppressed"}
      PROVE  /\ decision.publish => Generated \subseteq Selected
             /\ ~decision.publish => Selected \intersect Publishable = {}
             /\ decision.report => Report \in Selected
             /\ decision.manifest => Manifest \in Selected
             /\ Selected \subseteq Files
  BY <1>1, <1>2, <1>3, <1>6, <1>7, FileFacts
<1>8. ASSUME path \in WritePaths \ {"publish", "suppressed"}
      PROVE  Report \in Selected /\ Selected \subseteq {Report, Manifest}
  BY <1>4, <1>5, <1>8
<1>9. ASSUME path \notin WritePaths
      PROVE  Selected \subseteq {Report, Manifest}
  <2>1. Selected = Artifacts(opt.emit_manifest, TRUE)
    BY <1>9 DEF Selected, WritePaths
  <2>. QED
    BY <1>5, <2>1
<1>. QED
  BY <1>1, <1>7, <1>8, <1>9, FileFacts

LEMMA GoalFacts ==
  ASSUME found \in Findings, decision \in Decision, text \in Texts
  PROVE  /\ GoalFor(Selected) \in [Files -> SUBSET Contents]
         /\ \A f \in Files : GoalFor(Selected)[f] # {} <=> f \in Selected
         /\ \A f \in Selected \intersect Publishable : GoalFor(Selected)[f] = {ContentOf(f)}
         /\ \A f \in Selected \ Publishable : GoalFor(Selected)[f] = {text}
<1>1. \A f : ContentOf(f) \in Contents
  BY DEF ContentOf, Contents, FileContents, Findings
<1>2. text \in Contents
  BY DEF Contents
<1>3. Selected \subseteq Files
  BY SelectedFacts
<1>. QED
  BY <1>1, <1>2, <1>3 DEF GoalFor

(* What a step leaves alone that touches none of what the run has decided. *)
LEMMA SelectedFrame ==
  ASSUME UNCHANGED <<runVars, path, text>>
  PROVE  /\ Selected' = Selected /\ GoalFor(Selected)' = GoalFor(Selected)
         /\ \A f : ContentOf(f)' = ContentOf(f)
         /\ Generated' = Generated
<1>. USE DEF runVars
<1>1. Generated' = Generated /\ \A f : ContentOf(f)' = ContentOf(f)
  BY DEF Generated, ContentOf
<1>2. Selected' = Selected
  BY <1>1 DEF Selected
<1>. QED
  BY <1>1, <1>2 DEF GoalFor

LEMMA FoundFrame ==
  ASSUME UNCHANGED found
  PROVE  /\ \A p, u : TextOf(p, u)' = TextOf(p, u)
         /\ \A f : ContentOf(f)' = ContentOf(f)
BY DEF TextOf, ContentOf, ReportedKinds, UsableSources

(* A call of the writer that has been opened asks for what was selected.   *)
LEMMA AskedFacts ==
  ASSUME TypeOK, WritingInv, pc = "writing"
  PROVE  /\ Asked = Selected /\ Asked \subseteq Files
         /\ \A f \in Asked : (CHOOSE c \in goal[f] : TRUE) \in goal[f]
         /\ \A f \in Files : goal[f] \subseteq Contents
         /\ \A f \in Asked \intersect Publishable : goal[f] = {ContentOf(f)}
         /\ goal = GoalFor(Selected)
<1>1. goal = GoalFor(Selected)
  BY DEF WritingInv
<1>2. /\ \A f \in Files : goal[f] # {} <=> f \in Selected
      /\ \A f \in Selected \intersect Publishable : goal[f] = {ContentOf(f)}
      /\ Selected \subseteq Files
  BY <1>1, GoalFacts, SelectedFacts DEF TypeOK
<1>3. Asked = Selected
  BY <1>2 DEF Asked
<1>4. \A f \in Asked : (CHOOSE c \in goal[f] : TRUE) \in goal[f]
  BY <1>2, <1>3
<1>. QED
  BY <1>1, <1>2, <1>3, <1>4 DEF TypeOK

(* A call that is cut short leaves each file old, new or missing.          *)
LEMMA PartlyFacts ==
  ASSUME TypeOK, WritingInv, pc = "writing", Partly
  PROVE  /\ disk' \in [Files -> Contents \union {Absent, Odd}]
         /\ \A f \in Files \ Asked : disk'[f] = disk[f]
         /\ \A f \in Asked : disk'[f] \in {disk[f], Absent} \union goal[f]
<1>1. PICK replaced \in SUBSET Asked, missing \in SUBSET Asked :
        disk' = [f \in Files |-> IF f \in replaced THEN CHOOSE c \in goal[f] : TRUE
                                ELSE IF f \in missing THEN Absent ELSE disk[f]]
  BY DEF Partly
<1>2. /\ \A f \in Asked : (CHOOSE c \in goal[f] : TRUE) \in goal[f]
      /\ \A f \in Files : goal[f] \subseteq Contents
      /\ Asked \subseteq Files
  BY AskedFacts
<1>3. disk \in [Files -> Contents \union {Absent, Odd}]
  BY DEF TypeOK
<1>. QED
  BY <1>1, <1>2, <1>3

LEMMA RemoveFacts ==
  ASSUME TypeOK, RemoveStaleSuppressedGeneratedFiles
  PROVE  /\ disk' \in [Files -> Contents \union {Absent, Odd}]
         /\ \A f \in Files : disk'[f] \in {disk[f], Absent}
<1>1. disk \in [Files -> Contents \union {Absent, Odd}]
  BY DEF TypeOK
<1>2. ASSUME NEW kept
      PROVE  LET d == [f \in Files |-> IF f \in Generated \ kept THEN Absent ELSE disk[f]]
             IN /\ d \in [Files -> Contents \union {Absent, Odd}]
                /\ \A f \in Files : d[f] \in {disk[f], Absent}
  BY <1>1
<1>3. CASE disk' = disk
  BY <1>1, <1>3
<1>4. CASE disk' # disk
  BY <1>2, <1>4 DEF RemoveStaleSuppressedGeneratedFiles
<1>. QED
  BY <1>3, <1>4

LEMMA AfterFailedWriteFacts ==
  ASSUME TypeOK, NEW unchanged, AfterFailedWrite(unchanged)
  PROVE  /\ path' \in WritePaths /\ text' \in Texts /\ exit' \in 0 .. 2
         /\ pc' \in {"write", "done"}
<1>1. found \in Findings /\ "write" \in WritePaths
  BY DEF TypeOK, WritePaths
<1>2. TextOf("write", unchanged) \in Texts
  BY <1>1, TextFacts
<1>. QED
  BY <1>1, <1>2 DEF AfterFailedWrite, TypeOK
-----------------------------------------------------------------------------
LEMMA TypeStep == Inv /\ [Next]_vars => TypeOK'
<1>. SUFFICES ASSUME Inv, [Next]_vars PROVE TypeOK'
  OBVIOUS
<1>. USE DEF Inv, runVars, writerVars, history, counters
<1>1. TypeOK
  OBVIOUS
<1>2. CASE UNCHANGED vars
  BY <1>1, <1>2 DEF vars, TypeOK
<1>. SUFFICES ASSUME Next PROVE TypeOK'
  BY <1>2
<1>3. UNCHANGED campaign /\ campaign \in Campaigns
  BY <1>1 DEF Next, TypeOK
<1>4. /\ Options[campaign] \subseteq Option /\ Inputs[campaign] \subseteq Findings
      /\ MaxRuns[campaign] \in Nat /\ MaxLosses[campaign] \in Nat
  BY <1>3, CampaignsGiven
<1>5. \A p \in WritePaths : TextOf(p, {}) \in Texts
  BY <1>1, TextFacts DEF TypeOK
<1>6. {"config", "scan", "format", "suppressed", "publish", "write"} = WritePaths
  BY DEF WritePaths
<1>7. {"idle", "done", "dead"} = Resting
  BY DEF Resting
<1>8. ASSUME NEW o \in Options[campaign], NEW n \in Inputs[campaign], Begin(o, n)
      PROVE  TypeOK'
  BY <1>1, <1>3, <1>4, <1>5, <1>6, <1>7, <1>8 DEF Begin, TypeOK
<1>9. CASE RefuseArguments \/ ScanFails \/ FormatFails
  BY <1>1, <1>3, <1>5, <1>6, <1>7, <1>9
  DEF RefuseArguments, ScanFails, FormatFails, FailAt, TypeOK
<1>10. CASE Decide
  <2>1. opt.strict \in BOOLEAN /\ opt.emit_manifest \in BOOLEAN
    BY <1>1 DEF TypeOK, Option
  <2>2. decision' \in Decision /\ exit' \in 0 .. 2
    <3>1. /\ decision' = EvaluateGenerationPolicy(opt.strict, opt.emit_manifest, found)
          /\ exit' = decision'.exit_code
      BY <1>10 DEF Decide
    <3>2. decision' \in Decision
      BY <2>1, <3>1, PolicyFacts DEF Covers
    <3>. QED
      BY <3>1, <3>2 DEF Decision
  <2>3. path' \in WritePaths /\ pc' \in {"write", "remove"}
    BY <1>6, <1>10 DEF Decide
  <2>4. text' \in Texts
    BY <1>5, <1>10, <2>3 DEF Decide
  <2>. QED
    BY <1>1, <1>3, <1>10, <2>2, <2>3, <2>4 DEF Decide, TypeOK
<1>11. CASE RemoveStaleSuppressedGeneratedFiles
  <2>1. disk' \in [Files -> Contents \union {Absent, Odd}]
    BY <1>1, <1>11, RemoveFacts
  <2>2. pc' = "write" /\ UNCHANGED <<runVars, path, text, exit, phase, goal, history, counters>>
    BY <1>11 DEF RemoveStaleSuppressedGeneratedFiles
  <2>. QED
    BY <1>1, <1>3, <2>1, <2>2 DEF TypeOK
<1>12. CASE OpenWrite
  <2>1. GoalFor(Selected) \in [Files -> SUBSET Contents]
    BY <1>1, GoalFacts DEF TypeOK
  <2>2. goal' \in [Files -> SUBSET Contents] /\ phase' \in Writer!Ended \union {"open"}
    BY <1>1, <1>12, <2>1 DEF OpenWrite, Writer!Open, TypeOK
  <2>. QED
    BY <1>1, <1>3, <1>7, <1>12, <2>2 DEF OpenWrite, TypeOK
<1>17. CASE PlanWrite
  BY <1>1, <1>3, <1>7, <1>17 DEF PlanWrite, TypeOK
<1>13. CASE WriteSucceeds
  <2>1. disk' \in [Files -> Contents \union {Absent, Odd}]
    BY <1>13 DEF WriteSucceeds, Writer!Commit, Writer!Values
  <2>2. phase' = "committed" /\ goal' = goal
    BY <1>13 DEF WriteSucceeds, Writer!Commit
  <2>. QED
    BY <1>1, <1>3, <1>7, <1>13, <2>1, <2>2 DEF WriteSucceeds, TypeOK, Writer!Ended
<1>14. CASE WriteFails
  <2>1. \E u : AfterFailedWrite(u)
    BY <1>14 DEF WriteFails
  <2>2. phase' = "aborted" /\ UNCHANGED <<goal, disk>> /\ faulty' \in BOOLEAN
    BY <1>14 DEF WriteFails, Writer!Abort
  <2>3. /\ path' \in WritePaths /\ text' \in Texts /\ exit' \in 0 .. 2
        /\ pc' \in {"write", "done"}
    BY <1>1, <2>1, AfterFailedWriteFacts
  <2>. QED
    BY <1>1, <1>3, <1>7, <1>14, <2>2, <2>3 DEF WriteFails, TypeOK, Writer!Ended
<1>15. CASE WriteDamages
  <2>1. phase' = "damaged" /\ goal' = goal
    BY <1>15 DEF WriteDamages, Writer!Damage
  <2>2. disk' \in [Files -> Contents \union {Absent, Odd}]
    BY <1>1, <1>15, PartlyFacts DEF WriteDamages
  <2>3. /\ path' \in WritePaths /\ text' \in Texts /\ exit' \in 0 .. 2
        /\ pc' \in {"write", "done"}
    BY <1>1, <1>15, AfterFailedWriteFacts DEF WriteDamages
  <2>4. losses' \in 0 .. MaxLosses[campaign]
    BY <1>1, <1>4, <1>15 DEF WriteDamages, TypeOK
  <2>. QED
    BY <1>1, <1>3, <1>7, <1>15, <2>1, <2>2, <2>3, <2>4 DEF WriteDamages, TypeOK, Writer!Ended
<1>16. CASE Die
  <2>1. disk' \in [Files -> Contents \union {Absent, Odd}]
    BY <1>1, <1>16, PartlyFacts DEF Die, TypeOK
  <2>2. phase' \in Writer!Ended \union {"open"} /\ goal' = goal
    BY <1>1, <1>16 DEF Die, Writer!Die, Writer!Ended, TypeOK
  <2>3. losses' \in 0 .. MaxLosses[campaign]
    BY <1>1, <1>4, <1>16 DEF Die, TypeOK
  <2>. QED
    BY <1>1, <1>3, <1>7, <1>16, <2>1, <2>2, <2>3 DEF Die, TypeOK
<1>. QED
  BY <1>3, <1>8, <1>9, <1>10, <1>11, <1>12, <1>13, <1>14, <1>15, <1>16, <1>17 DEF Next

(* Removing stale files and opening a call decide nothing.                  *)
LEMMA OutcomeFrame ==
  ASSUME OutcomeInv, Judged, pc # "done", UNCHANGED <<runVars, path, text, exit>>,
         path = "write" =>
           \A f \in Publishable : disk'[f] = disk[f],
         pc' \in {"write", "writing", "done"}
  PROVE  OutcomeInv'
<1>. USE DEF runVars
<1>1. /\ \A p, u : TextOf(p, u)' = TextOf(p, u)
      /\ \A f : ContentOf(f)' = ContentOf(f)
  BY FoundFrame
<1>2. path = "write" => \E unchanged \in SUBSET Files : TellsOf(unchanged)'
  <2>. SUFFICES ASSUME path = "write" PROVE \E unchanged \in SUBSET Files : TellsOf(unchanged)'
    OBVIOUS
  <2>1. PICK unchanged \in SUBSET Files : TellsOf(unchanged)
    BY DEF OutcomeInv
  <2>2. TellsOf(unchanged)'
    BY <1>1, <2>1 DEF TellsOf
  <2>. QED
    BY <2>2
<1>. QED
  BY <1>1, <1>2 DEF OutcomeInv, Judged

(* Whatever the last write did, its failure is told of as it happened.      *)
LEMMA OutcomeAfterFailure ==
  ASSUME TypeOK, OutcomeInv, WritingInv, pc = "writing", UNCHANGED runVars,
         NEW unchanged \in SUBSET Identical, AfterFailedWrite(unchanged),
         \A f \in unchanged \union (Files \ Asked) : disk'[f] = disk[f]
  PROVE  OutcomeInv'
<1>. USE DEF runVars
<1>0. Judged /\ path \in WritePaths /\ found \in Findings /\ decision \in Decision
  BY DEF Judged, TypeOK
<1>1. /\ \A p, u : TextOf(p, u)' = TextOf(p, u)
      /\ \A f : ContentOf(f)' = ContentOf(f)
  BY FoundFrame
<1>2. CASE path \in {"publish", "suppressed"}
  <2>1. path' = "write" /\ text' = TextOf("write", unchanged) /\ exit' = 1 /\ pc' = "write"
    BY <1>2 DEF AfterFailedWrite
  <2>2. \A f \in unchanged \intersect Publishable : disk[f] = ContentOf(f)
    BY AskedFacts DEF Identical
  <2>3. unchanged \in SUBSET Files
    BY DEF Identical, Asked
  <2>4. TellsOf(unchanged)'
    BY <1>1, <2>1, <2>2 DEF TellsOf
  <2>. QED
    BY <1>1, <2>1, <2>3, <2>4 DEF OutcomeInv, Judged
<1>3. CASE path \notin {"publish", "suppressed"}
  <2>1. pc' = "done" /\ UNCHANGED <<path, text, exit>>
    BY <1>3 DEF AfterFailedWrite
  <2>2. \A f \in Publishable : f \in Files /\ f \notin Asked
    BY <1>0, <1>3, AskedFacts, SelectedFacts, FileFacts
  <2>. QED
    BY <1>0, <2>1, <2>2, OutcomeFrame
<1>. QED
  BY <1>2, <1>3

LEMMA OutcomeStep == Inv /\ [Next]_vars => OutcomeInv'
<1>. SUFFICES ASSUME Inv, [Next]_vars PROVE OutcomeInv'
  OBVIOUS
<1>. USE DEF Inv, runVars, writerVars, history, counters
<1>1. TypeOK /\ OutcomeInv /\ WritingInv
  OBVIOUS
<1>2. path \in WritePaths /\ found \in Findings /\ decision \in Decision /\ opt \in Option
  BY <1>1 DEF TypeOK
<1>3. CASE UNCHANGED vars
  <2>1. /\ \A p, u : TextOf(p, u)' = TextOf(p, u)
        /\ \A f : ContentOf(f)' = ContentOf(f)
    BY <1>3, FoundFrame DEF vars
  <2>2. \A u : TellsOf(u)' <=> TellsOf(u)
    BY <1>3, <2>1 DEF vars, TellsOf
  <2>. QED
    BY <1>1, <1>3, <2>1, <2>2 DEF vars, OutcomeInv, Judged
<1>4. ASSUME NEW o, NEW n, Begin(o, n)
      PROVE  OutcomeInv'
  <2>1. TextOf("config", {})' = TextOf("config", {})
    BY DEF TextOf, ReportedKinds, UsableSources
  <2>. QED
    BY <1>4, <2>1 DEF Begin, OutcomeInv, Judged
<1>5. CASE RefuseArguments \/ ScanFails \/ FormatFails
  <2>1. \A p, u : TextOf(p, u)' = TextOf(p, u)
    BY <1>5, FoundFrame DEF RefuseArguments, ScanFails, FormatFails, FailAt
  <2>2. path = "config" /\ text = TextOf("config", {})
    BY <1>1, <1>5 DEF RefuseArguments, ScanFails, FormatFails, OutcomeInv
  <2>. QED
    BY <1>5, <2>1, <2>2 DEF RefuseArguments, ScanFails, FormatFails, FailAt, OutcomeInv, Judged
<1>6. CASE Decide
  <2>1. \A p, u : TextOf(p, u)' = TextOf(p, u)
    BY <1>6, FoundFrame DEF Decide
  <2>2. decision' \in Decision
    BY <1>2, <1>6, PolicyFacts DEF Decide, Option, Covers
  <2>3. /\ path' = IF decision'.publish THEN "publish" ELSE "suppressed"
        /\ pc' = IF decision'.publish THEN "write" ELSE "remove"
        /\ decision' = EvaluateGenerationPolicy(opt.strict, opt.emit_manifest, found)
        /\ exit' = decision'.exit_code /\ text' = TextOf(path', {})
        /\ UNCHANGED <<opt, found>>
    BY <1>6 DEF Decide
  <2>4. text' = TextOf(path, {})'
    BY <2>1, <2>3 DEF TextOf, ReportedKinds, UsableSources
  <2>5. decision' = EvaluateGenerationPolicy(opt.strict, opt.emit_manifest, found)'
    BY <2>3
  <2>. QED
    BY <2>2, <2>3, <2>4, <2>5 DEF OutcomeInv, Judged, Decision
<1>7. CASE RemoveStaleSuppressedGeneratedFiles
  <2>1. path = "suppressed" /\ Judged
    BY <1>1, <1>7 DEF RemoveStaleSuppressedGeneratedFiles, OutcomeInv, Judged
  <2>. QED
    BY <1>1, <1>7, <2>1, OutcomeFrame DEF RemoveStaleSuppressedGeneratedFiles
<1>8. CASE OpenWrite
  <2>1. Judged /\ pc' \in {"done", "writing"}
    BY <1>8 DEF OpenWrite, Judged
  <2>. QED
    BY <1>1, <1>8, <2>1, OutcomeFrame DEF OpenWrite
<1>13. CASE PlanWrite
  <2>1. /\ \A p, u : TextOf(p, u)' = TextOf(p, u)
        /\ \A f : ContentOf(f)' = ContentOf(f)
    BY <1>13, FoundFrame DEF PlanWrite
  <2>2. \A u : TellsOf(u)' <=> TellsOf(u)
    BY <1>13, <2>1 DEF PlanWrite, TellsOf
  <2>3. /\ Judged /\ pc = "write" /\ pc' = "done" /\ opt.dry_run
        /\ UNCHANGED <<runVars, path, text>>
        /\ exit' = exit \/ (path \in {"publish", "suppressed"} /\ exit' = 1)
    BY <1>13 DEF PlanWrite, Judged
  <2>4. CASE path \in {"publish", "suppressed"}
    BY <1>1, <2>1, <2>3, <2>4 DEF OutcomeInv, Judged
  <2>5. CASE path \notin {"publish", "suppressed"}
    BY <1>1, <2>1, <2>2, <2>3, <2>5 DEF OutcomeInv, Judged
  <2>. QED
    BY <2>4, <2>5
<1>9. CASE WriteSucceeds
  <2>1. Judged /\ pc = "writing" /\ pc' = "done" /\ UNCHANGED <<runVars, path, text, exit>>
    BY <1>9 DEF WriteSucceeds, Judged
  <2>2. \A f \in Files \ Asked : disk'[f] = disk[f]
    BY <1>9 DEF WriteSucceeds
  <2>3. path = "write" => \A f \in Publishable : f \in Files /\ f \notin Asked
    BY <1>1, <1>2, <2>1, AskedFacts, SelectedFacts, FileFacts
  <2>. QED
    BY <1>1, <2>1, <2>2, <2>3, OutcomeFrame
<1>10. CASE WriteFails
  <2>1. PICK u \in SUBSET Identical : AfterFailedWrite(u)
    BY <1>10 DEF WriteFails
  <2>2. pc = "writing" /\ UNCHANGED runVars /\ disk' = disk
    BY <1>10 DEF WriteFails, Writer!Abort
  <2>. QED
    BY <1>1, <2>1, <2>2, OutcomeAfterFailure
<1>11. CASE WriteDamages
  <2>1. pc = "writing" /\ UNCHANGED runVars /\ AfterFailedWrite({})
    BY <1>11 DEF WriteDamages
  <2>2. \A f \in Files \ Asked : disk'[f] = disk[f]
    BY <1>1, <1>11, PartlyFacts DEF WriteDamages
  <2>. QED
    BY <1>1, <2>1, <2>2, OutcomeAfterFailure
<1>12. CASE Die
  BY <1>12 DEF Die, OutcomeInv, Judged
<1>. QED
  BY <1>3, <1>4, <1>5, <1>6, <1>7, <1>8, <1>9, <1>10, <1>11, <1>12, <1>13 DEF Next

LEMMA WritingStep == Inv /\ [Next]_vars => WritingInv'
<1>. SUFFICES ASSUME Inv, [Next]_vars, pc' = "writing" PROVE WritingInv'
  BY DEF WritingInv
<1>. USE DEF Inv, runVars, writerVars, history, counters
<1>1. CASE UNCHANGED vars
  BY <1>1, SelectedFrame DEF vars, WritingInv
<1>2. CASE OpenWrite
  <2>1. /\ ~opt.dry_run /\ phase' = "open" /\ goal' = GoalFor(Selected)
        /\ UNCHANGED <<runVars, path, text>>
    BY <1>2 DEF OpenWrite, Writer!Open
  <2>2. GoalFor(Selected)' = GoalFor(Selected)
    BY <2>1, SelectedFrame
  <2>. QED
    BY <2>1, <2>2 DEF WritingInv
<1>3. CASE ~OpenWrite /\ ~UNCHANGED vars
  BY <1>3 DEF Next, Begin, RefuseArguments, ScanFails, FormatFails, FailAt, Decide,
              RemoveStaleSuppressedGeneratedFiles, PlanWrite, WriteSucceeds, WriteFails,
              WriteDamages, AfterFailedWrite, Die
<1>. QED
  BY <1>1, <1>2, <1>3

LEMMA WrittenStep == Inv /\ [Next]_vars => WrittenInv'
<1>. SUFFICES ASSUME Inv, [Next]_vars, Ended', path' # "config" PROVE WrittenInv'
  BY DEF WrittenInv
<1>. USE DEF Inv, runVars, writerVars, history, counters
<1>0. /\ TypeOK /\ WritingInv /\ path \in WritePaths /\ found \in Findings
      /\ decision \in Decision /\ pc' = "done" /\ ~opt'.dry_run
  BY DEF TypeOK, Ended
<1>1. CASE UNCHANGED vars
  <2>1. Selected' = Selected /\ GoalFor(Selected)' = GoalFor(Selected)
    BY <1>1, SelectedFrame DEF vars
  <2>. QED
    BY <1>0, <1>1, <2>1 DEF vars, WrittenInv, Ended
<1>2. CASE WriteSucceeds
  <2>1. /\ pc = "writing" /\ UNCHANGED <<runVars, path, text>>
        /\ disk' = [f \in Files |-> IF f \in Asked THEN CHOOSE c \in goal[f] : TRUE ELSE disk[f]]
    BY <1>2 DEF WriteSucceeds
  <2>2. Selected' = Selected /\ GoalFor(Selected)' = GoalFor(Selected)
    BY <2>1, SelectedFrame
  <2>3. \A f \in Selected : disk'[f] \in GoalFor(Selected)[f]
    BY <1>0, <2>1, AskedFacts
  <2>. QED
    BY <2>2, <2>3 DEF WrittenInv
<1>3. CASE WriteFails
  <2>1. PICK u : AfterFailedWrite(u)
    BY <1>3 DEF WriteFails
  <2>2. path \notin {"publish", "suppressed"} /\ path' = path
    BY <1>0, <2>1 DEF AfterFailedWrite
  <2>3. pc = "writing" /\ disk' = disk /\ opt' = opt
    BY <1>3 DEF WriteFails, Writer!Abort
  <2>4. Asked \subseteq {Report, Manifest}
    BY <1>0, <2>2, <2>3, AskedFacts, SelectedFacts
  <2>5. faulty' \/ ~opt.overwrite \/ disk[Report] = Odd \/ disk[Manifest] = Odd
    BY <1>3, <2>4 DEF WriteFails, Conflict
  <2>. QED
    BY <2>2, <2>3, <2>5 DEF WrittenInv
<1>4. CASE WriteDamages
  <2>1. faulty' /\ AfterFailedWrite({})
    BY <1>4 DEF WriteDamages
  <2>2. path \notin {"publish", "suppressed"} /\ path' = path
    BY <1>0, <2>1 DEF AfterFailedWrite
  <2>. QED
    BY <2>1, <2>2 DEF WrittenInv
<1>5. CASE RefuseArguments
  <2>1. pc = "config" /\ path' = path
    BY <1>0, <1>5 DEF RefuseArguments, FailAt
  <2>2. path = "config"
    BY <2>1 DEF OutcomeInv
  <2>. QED
    BY <2>1, <2>2
<1>6. CASE ~(WriteSucceeds \/ WriteFails \/ WriteDamages \/ RefuseArguments \/ UNCHANGED vars)
  BY <1>0, <1>6 DEF Next, Begin, ScanFails, FormatFails, FailAt, Decide,
              RemoveStaleSuppressedGeneratedFiles, OpenWrite, PlanWrite, Die
<1>. QED
  BY <1>1, <1>2, <1>3, <1>4, <1>5, <1>6

LEMMA BeforeStep == Inv /\ [Next]_vars => BeforeInv'
<1>. SUFFICES ASSUME Inv, [Next]_vars, pc' \notin {"idle", "dead"},
                     ~(pc' = "done" /\ path' = "publish"), NEW f \in Publishable
              PROVE  disk'[f] \in {before'[f], Absent}
  BY DEF BeforeInv
<1>. USE DEF Inv, runVars, writerVars, history, counters
<1>1. f \in Files /\ TypeOK /\ OutcomeInv /\ WritingInv /\ BeforeInv
  BY FileFacts
<1>2. path \in WritePaths /\ found \in Findings /\ decision \in Decision
  BY <1>1 DEF TypeOK
<1>3. CASE UNCHANGED vars
  BY <1>1, <1>3 DEF vars, BeforeInv
<1>4. ASSUME NEW o, NEW n, Begin(o, n)
      PROVE  disk'[f] \in {before'[f], Absent}
  BY <1>4 DEF Begin
<1>5. CASE RemoveStaleSuppressedGeneratedFiles
  <2>1. disk[f] \in {before[f], Absent} /\ before' = before
    BY <1>1, <1>5 DEF RemoveStaleSuppressedGeneratedFiles, BeforeInv
  <2>. QED
    BY <1>1, <1>5, <2>1, RemoveFacts
<1>6. CASE WriteSucceeds
  <2>1. /\ pc = "writing" /\ pc' = "done" /\ path' = path /\ before' = before
        /\ disk'[f] = IF f \in Asked THEN CHOOSE c \in goal[f] : TRUE ELSE disk[f]
    BY <1>1, <1>6 DEF WriteSucceeds
  <2>2. path = "suppressed" => ~decision.publish
    BY <1>1, <2>1 DEF OutcomeInv, Judged
  <2>3. f \notin Asked
    BY <1>1, <1>2, <2>1, <2>2, AskedFacts, SelectedFacts, FileFacts
  <2>. QED
    BY <1>1, <2>1, <2>3 DEF BeforeInv
<1>7. CASE WriteDamages
  BY <1>7 DEF WriteDamages
<1>8. CASE Die
  BY <1>8 DEF Die
<1>9. CASE \/ RefuseArguments \/ ScanFails \/ FormatFails \/ Decide
           \/ OpenWrite \/ PlanWrite \/ WriteFails
  <2>1. disk' = disk /\ before' = before /\ pc \notin {"idle", "done", "dead"}
    BY <1>9 DEF RefuseArguments, ScanFails, FormatFails, FailAt, Decide, OpenWrite,
                PlanWrite, WriteFails, Writer!Open, Writer!Abort
  <2>. QED
    BY <1>1, <2>1 DEF BeforeInv
<1>. QED
  BY <1>3, <1>4, <1>5, <1>6, <1>7, <1>8, <1>9 DEF Next

LEMMA InitInv == Init => Inv
<1>. SUFFICES ASSUME Init PROVE Inv
  OBVIOUS
<1>1. NoFindings \in Findings
  BY DEF NoFindings, Findings
<1>2. found \in Findings /\ "config" \in WritePaths
  BY <1>1 DEF Init, WritePaths
<1>3. text \in Texts
  BY <1>2, TextFacts DEF Init
<1>4. disk \in [Files -> Contents \union {Absent, Odd}] /\ before = disk
  BY DisksGiven DEF Init, Contents
<1>5. /\ goal \in [Files -> SUBSET Contents] /\ phase \in Writer!Ended \union {"open"}
  BY DEF Init, Writer!Init, Writer!Ended
<1>6. opt \in Option /\ decision \in Decision
  BY DEF Init, Option, Decision
<1>7. runs \in 0 .. MaxRuns[campaign] /\ losses \in 0 .. MaxLosses[campaign]
  BY CampaignsGiven DEF Init
<1>8. TypeOK
  <2>1. /\ pc = "idle" /\ path = "config" /\ exit = 0 /\ faulty = FALSE
        /\ campaign \in Campaigns
    BY DEF Init
  <2>2. pc \in Resting /\ path \in WritePaths /\ exit \in 0 .. 2
    BY <1>2, <2>1 DEF Resting
  <2>. QED
    BY <1>2, <1>3, <1>4, <1>5, <1>6, <1>7, <2>1, <2>2 DEF TypeOK
<1>. QED
  BY <1>8 DEF Init, Inv, OutcomeInv, WritingInv, WrittenInv, BeforeInv, Judged, Ended

LEMMA InvStep == Inv /\ [Next]_vars => Inv'
BY TypeStep, OutcomeStep, WritingStep, WrittenStep, BeforeStep DEF Inv

LEMMA Invariance == Spec => []Inv
<1>1. Inv /\ [Next]_vars => Inv'
  BY InvStep
<1>2. Init => Inv
  BY InitInv
<1>. QED
  BY <1>1, <1>2, PTL DEF Spec

(* The variables keep their types.                                          *)
THEOREM TypeCorrect == Spec => []TypeOK
<1>1. Inv => TypeOK
  BY DEF Inv
<1>. QED
  BY <1>1, Invariance, PTL

(* What the decision of a run that has been judged is worth                 *)
LEMMA JudgedFacts ==
  ASSUME Inv, Judged, path \in {"publish", "suppressed"}
  PROVE  /\ exit \in {0, 1}
         /\ exit = 0 => \A k \in FoundKinds(found) : Code(k) = 0
         /\ ~opt.dry_run /\ (\A k \in FoundKinds(found) : Code(k) = 0) => exit = 0
         /\ path = "publish" <=> \A k \in FoundKinds(found) : Matrix(k).publish
         /\ decision.manifest = opt.emit_manifest /\ decision.report = TRUE
         /\ decision.publish <=> path = "publish"
         /\ exit = 0 => path = "publish"
<1>1. /\ decision = EvaluateGenerationPolicy(opt.strict, opt.emit_manifest, found)
      /\ exit = decision.exit_code \/ (opt.dry_run /\ exit = 1)
      /\ (decision.publish <=> path = "publish")
  BY DEF Inv, OutcomeInv
<1>2. opt.strict \in BOOLEAN /\ opt.emit_manifest \in BOOLEAN /\ found \in Findings
  BY DEF Inv, TypeOK, Option
<1>3. /\ decision.exit_code \in {0, 1}
      /\ decision.exit_code = 0 <=> \A k \in FoundKinds(found) : Code(k) = 0
      /\ decision.publish <=> \A k \in FoundKinds(found) : Matrix(k).publish
      /\ decision.manifest = opt.emit_manifest /\ decision.report = TRUE
  <2>1. Covers(opt.strict, opt.emit_manifest, found, decision, FailureKinds)
    BY <1>1, <1>2, PolicyFacts
  <2>2. FailureKinds \intersect FoundKinds(found) = FoundKinds(found)
    BY DEF FoundKinds
  <2>. QED
    BY <2>1, <2>2 DEF Covers, Code
<1>4. \A k \in FoundKinds(found) : Code(k) = 0 => Matrix(k).publish
  <2>1. FoundKinds(found) \subseteq FailureKinds
    BY DEF FoundKinds
  <2>. QED
    BY <1>2, <2>1, MatrixFacts DEF Code, RowCode
<1>5. /\ exit = 0 => \A k \in FoundKinds(found) : Code(k) = 0
      /\ ~opt.dry_run /\ (\A k \in FoundKinds(found) : Code(k) = 0) => exit = 0
  BY <1>1, <1>3
<1>6. path = "publish" <=> \A k \in FoundKinds(found) : Matrix(k).publish
  BY <1>1, <1>3
<1>7. exit = 0 => path = "publish"
  BY <1>4, <1>5, <1>6
<1>. QED
  BY <1>1, <1>3, <1>5, <1>6, <1>7

(* After a run that published, what it generated and its report are there.  *)
LEMMA PublishedFacts ==
  ASSUME Inv, Ended, path = "publish"
  PROVE  /\ \A f \in Generated : disk[f] = ContentOf(f)
         /\ disk[Report] = text
         /\ opt.emit_manifest => disk[Manifest] = text
<1>1. /\ found \in Findings /\ decision \in Decision /\ text \in Texts /\ Judged
  BY DEF Inv, TypeOK, Ended, Judged
<1>2. /\ decision.manifest = opt.emit_manifest /\ decision.report = TRUE
      /\ decision.publish
  BY <1>1, JudgedFacts
<1>3. /\ Generated \subseteq Selected /\ Generated \subseteq Publishable
      /\ Report \in Selected /\ (opt.emit_manifest => Manifest \in Selected)
  BY <1>1, <1>2, SelectedFacts
<1>4. \A f \in Selected : disk[f] \in GoalFor(Selected)[f]
  BY DEF Inv, WrittenInv
<1>5. /\ \A f \in Selected \intersect Publishable : GoalFor(Selected)[f] = {ContentOf(f)}
      /\ \A f \in Selected \ Publishable : GoalFor(Selected)[f] = {text}
  BY <1>1, GoalFacts
<1>. QED
  BY <1>3, <1>4, <1>5, FileFacts

(* Whatever failures of whatever kinds a run has, and on whichever path it  *)
(* ends, its exit code and what it publishes are those of the strictest row *)
(* of the design's table: no generated file is new where one row forbids    *)
(* it, even if the run fails, and all are in place where every row allows.  *)
THEOREM ExitFollowsMatrix == Spec => []OutcomeFollowsMatrix
<1>1. Inv => OutcomeFollowsMatrix
  <2>. DEFINE rows == {Matrix(k) : k \in text.kinds}
              publish == \A k \in text.kinds : Matrix(k).publish
  <2>. SUFFICES ASSUME Inv, pc = "done"
                PROVE  /\ exit = 0 => \A k \in text.kinds : Code(k) = 0
                       /\ (Ended /\ path = "publish" /\ text.kinds # {}) =>
                            exit = (IF opt.strict THEN 1 ELSE 0)
                       /\ ~publish => \A f \in Publishable : disk[f] \in {before[f], Absent}
                       /\ (Ended /\ publish /\ path \notin {"config", "scan"}) =>
                            \A f \in Generated : disk[f] = ContentOf(f)
    BY DEF OutcomeFollowsMatrix, Code, RowCode
  <2>1. Judged /\ path \in WritePaths /\ found \in Findings /\ opt.strict \in BOOLEAN
    BY DEF Judged, Inv, TypeOK, Option
  <2>2. text.kinds = ReportedKinds(path)
    <3>1. \E unchanged : text = TextOf(path, unchanged)
      BY <2>1 DEF Inv, OutcomeInv, TellsOf
    <3>. QED
      BY <2>1, <3>1, TextFacts
  <2>3. path # "publish" => \A f \in Publishable : disk[f] \in {before[f], Absent}
    BY DEF Inv, BeforeInv
  <2>4. CASE path \in {"publish", "suppressed"}
    <3>1. text.kinds = FoundKinds(found)
      BY <2>2, <2>4 DEF ReportedKinds
    <3>2. /\ exit \in {0, 1}
          /\ exit = 0 => \A k \in FoundKinds(found) : Code(k) = 0
          /\ ~opt.dry_run /\ (\A k \in FoundKinds(found) : Code(k) = 0) => exit = 0
          /\ path = "publish" <=> \A k \in FoundKinds(found) : Matrix(k).publish
      BY <2>1, <2>4, JudgedFacts
    <3>3. ASSUME Ended, path = "publish", FoundKinds(found) # {}
          PROVE  exit = IF opt.strict THEN 1 ELSE 0
      <4>1. FoundKinds(found) \subseteq FailureKinds
        BY DEF FoundKinds
      <4>2. \A k \in FoundKinds(found) : Matrix(k).best = 0 /\ Matrix(k).strict = 1
        BY <3>2, <3>3, <4>1, MatrixFacts
      <4>3. CASE opt.strict
        <5>1. PICK k \in FoundKinds(found) : TRUE
          BY <3>3
        <5>2. Code(k) = 1
          BY <4>2, <4>3, <5>1 DEF Code, RowCode
        <5>. QED
          BY <3>2, <4>3, <5>1, <5>2
      <4>4. CASE ~opt.strict
        <5>1. \A k \in FoundKinds(found) : Code(k) = 0
          BY <4>2, <4>4 DEF Code, RowCode
        <5>. QED
          BY <3>2, <3>3, <4>4, <5>1 DEF Ended
      <4>. QED
        BY <4>3, <4>4
    <3>4. Ended /\ path = "publish" => \A f \in Generated : disk[f] = ContentOf(f)
      BY PublishedFacts
    <3>5. publish <=> path = "publish"
      BY <3>1, <3>2
    <3>. QED
      BY <2>3, <3>1, <3>2, <3>3, <3>4, <3>5
  <2>5. CASE path \in {"format", "write"}
    <3>1. exit # 0
      BY <2>1, <2>5 DEF Inv, OutcomeInv
    <3>2. path \in text.kinds /\ ~Matrix(path).publish
      BY <2>2, <2>5 DEF ReportedKinds, Matrix
    <3>. QED
      BY <2>3, <2>5, <3>1, <3>2
  <2>6. CASE path \in {"config", "scan"}
    <3>1. exit # 0
      BY <2>1, <2>6 DEF Inv, OutcomeInv
    <3>. QED
      BY <2>3, <2>6, <3>1
  <2>. QED
    BY <2>1, <2>4, <2>5, <2>6 DEF WritePaths
<1>. QED
  BY <1>1, Invariance, PTL

(* Exit code zero: all that was generated, the report and the wanted        *)
(* manifest are in the output directory.                                    *)
THEOREM ZeroMeansPublished == Spec => []ExitZeroMeansPublished
<1>1. Inv => ExitZeroMeansPublished
  <2>. SUFFICES ASSUME Inv, Ended, exit = 0 PROVE ExitZeroMeansPublished
    BY DEF ExitZeroMeansPublished
  <2>1. Judged /\ path \in WritePaths
    BY DEF Ended, Judged, Inv, TypeOK
  <2>2. path \in {"publish", "suppressed"}
    BY <2>1 DEF Inv, OutcomeInv, WritePaths
  <2>3. path = "publish"
    BY <2>1, <2>2, JudgedFacts
  <2>. QED
    BY <2>3, PublishedFacts DEF ExitZeroMeansPublished
<1>. QED
  BY <1>1, Invariance, PTL

(* Except after a format failure, the sources that a report calls usable    *)
(* are in the output directory as this run generated them.                  *)
THEOREM AdvertisedExist == Spec => []AdvertisedSourcesExist
<1>1. Inv => AdvertisedSourcesExist
  <2>. SUFFICES ASSUME Inv, Ended, path # "format", NEW c \in text.usable,
                       NEW f \in {Mock(c), Fake(c)}
                PROVE  disk[f] = ContentOf(f)
    BY DEF AdvertisedSourcesExist, UsableSourcesExist
  <2>1. Judged /\ path \in WritePaths /\ found \in Findings
    BY DEF Ended, Judged, Inv, TypeOK
  <2>2. CASE path = "write"
    <3>1. PICK unchanged \in SUBSET Files : TellsOf(unchanged)
      BY <2>1, <2>2 DEF Inv, OutcomeInv
    <3>2. c \in UsableSources("write", unchanged)
      BY <2>1, <2>2, <3>1, TextFacts DEF TellsOf
    <3>3. f \in unchanged /\ c \in Classes
      BY <2>1, <3>2 DEF UsableSources, Findings
    <3>. QED
      BY <3>1, <3>3, FileFacts DEF TellsOf
  <2>3. CASE path # "write"
    <3>1. c \in UsableSources(path, {})
      BY <2>1, <2>3, TextFacts DEF Inv, OutcomeInv
    <3>2. path = "publish" /\ c \in found.classes
      BY <2>1, <2>3, <3>1 DEF UsableSources, WritePaths
    <3>3. f \in Generated
      BY <3>2 DEF Generated, GeneratedBy
    <3>. QED
      BY <3>2, <3>3, PublishedFacts
  <2>. QED
    BY <2>2, <2>3
<1>. QED
  BY <1>1, Invariance, PTL

(* A run that fails and may replace files leaves its own report, unless the *)
(* filesystem fails in its last write or what it would replace is no file.   *)
THEOREM FailureReported == Spec => []FailureReportedOnOverwrite
<1>1. Inv => FailureReportedOnOverwrite
  <2>. SUFFICES ASSUME Inv, Ended, path # "config", ~faulty, opt.overwrite,
                       disk[Report] # Odd, disk[Manifest] # Odd
                PROVE  disk[Report] = text
    BY DEF FailureReportedOnOverwrite
  <2>1. /\ Judged /\ path \in WritePaths /\ found \in Findings /\ decision \in Decision
        /\ text \in Texts
    BY DEF Ended, Judged, Inv, TypeOK
  <2>2. \A f \in Selected : disk[f] \in GoalFor(Selected)[f]
    BY DEF Inv, WrittenInv
  <2>3. Report \in Selected
    <3>1. CASE path \in {"publish", "suppressed"}
      BY <2>1, <3>1, JudgedFacts, SelectedFacts
    <3>2. CASE path \notin {"publish", "suppressed"}
      BY <2>1, <3>2, SelectedFacts
    <3>. QED
      BY <3>1, <3>2
  <2>. QED
    BY <2>1, <2>2, <2>3, GoalFacts, FileFacts
<1>. QED
  BY <1>1, Invariance, PTL

SuppressedStep ==
  \A f \in Publishable : disk'[f] \notin {disk[f], Absent} =>
    /\ path = "publish"
    /\ \A k \in FoundKinds(found) : Matrix(k).publish

LEMMA SuppressedFacts == Inv /\ [Next]_vars => [SuppressedStep]_vars
<1>. SUFFICES ASSUME Inv, Next, NEW f \in Publishable, disk'[f] \notin {disk[f], Absent}
              PROVE  path = "publish" /\ \A k \in FoundKinds(found) : Matrix(k).publish
  BY DEF SuppressedStep
<1>. USE DEF Inv, writerVars
<1>1. f \in Files /\ TypeOK /\ WritingInv
  BY FileFacts
<1>2. pc = "writing" /\ f \in Asked
  <2>1. CASE RemoveStaleSuppressedGeneratedFiles
    BY <1>1, <2>1, RemoveFacts
  <2>2. CASE WriteSucceeds
    BY <1>1, <2>2 DEF WriteSucceeds
  <2>3. ASSUME Partly, pc = "writing"
        PROVE  f \in Asked
    BY <1>1, <2>3, PartlyFacts
  <2>4. CASE WriteDamages \/ Die
    BY <2>3, <2>4 DEF WriteDamages, Die
  <2>5. CASE ~(RemoveStaleSuppressedGeneratedFiles \/ WriteSucceeds \/ WriteDamages \/ Die)
    BY <2>5 DEF Next, Begin, RefuseArguments, ScanFails, FormatFails, FailAt, Decide,
                OpenWrite, PlanWrite, WriteFails, Writer!Open, Writer!Abort
  <2>. QED
    BY <2>1, <2>2, <2>4, <2>5
<1>3. f \in Selected /\ Judged
  BY <1>1, <1>2, AskedFacts DEF Judged
<1>4. path \in {"publish", "suppressed"} /\ decision.publish
  BY <1>3, SelectedFacts, FileFacts DEF TypeOK
<1>. QED
  BY <1>3, <1>4, JudgedFacts

(* No step, of whichever run, puts a generated file on the disk unless every *)
(* failure that this run has found allows its publication.                  *)
THEOREM NeverPublished == Spec => SuppressedNeverPublished
<1>1. Inv /\ [Next]_vars => [SuppressedStep]_vars
  BY SuppressedFacts
<1>2. Spec => [][SuppressedStep]_vars
  BY <1>1, Invariance, PTL DEF Spec
<1>. QED
  BY <1>2 DEF SuppressedNeverPublished, SuppressedStep
=============================================================================
