-------------------------- MODULE GenerationPolicy --------------------------
(***************************************************************************)
(* EvaluateGenerationPolicy of src/src/validation/GenerationPolicy.cpp:    *)
(* from what the stages of a run have found, whether the generated files   *)
(* are published, which diagnostic artifacts are, and the exit code.  The  *)
(* field write_outputs, which nothing reads, is left out.                  *)
(***************************************************************************)
EXTENDS Integers

CONSTANT Classes  \* the classes a run can find, by qualified name

FailureKinds == {"parse", "unsupported", "write", "format", "ket", "validation",
                 "fallback", "readiness"}

Decision == [exit_code : 0 .. 2, publish : BOOLEAN, manifest : BOOLEAN,
             report : BOOLEAN]

(* What the stages before the policy report of their input. *)
Findings == [ver : Int,                \* the state of the headers
             classes : SUBSET Classes,     \* extracted
             marked : SUBSET Classes,      \* not link-ready when extracted
             unsupported : SUBSET Classes, \* with unsupported items left
             misfit : SUBSET Classes,      \* with a method the fallback cannot serve
             topLevel : BOOLEAN,       \* unsupported items outside of classes
             parse : BOOLEAN, ket : BOOLEAN, validation : BOOLEAN]

EvaluateFailurePolicy(strict, kind) ==
  CASE kind \in {"unsupported", "readiness"} ->
         [exit_code |-> IF strict THEN 1 ELSE 0, publish |-> TRUE,
          manifest |-> TRUE, report |-> TRUE]
    [] kind = "write" ->
         [exit_code |-> 1, publish |-> FALSE, manifest |-> FALSE, report |-> TRUE]
    [] OTHER ->
         [exit_code |-> 1, publish |-> FALSE, manifest |-> TRUE, report |-> TRUE]

(* The strictest exit code, but published if any failure allows it: for comparison *)
AnyAllows(d, p) ==
  [exit_code |-> IF d.exit_code > p.exit_code THEN d.exit_code ELSE p.exit_code,
   publish |-> d.publish \/ p.publish,
   manifest |-> d.manifest /\ p.manifest, report |-> d.report /\ p.report]

ApplyFailurePolicy(d, p) ==
  [exit_code |-> IF d.exit_code > p.exit_code THEN d.exit_code ELSE p.exit_code,
   publish |-> d.publish /\ p.publish,
   manifest |-> d.manifest /\ p.manifest,
   report |-> d.report /\ p.report]

(* EvaluateClassLinkReadiness *)
LinkReady(found, c) == c \notin found.marked \union found.unsupported \union found.misfit

(* The kinds of failure that the policy finds in its input. *)
FoundKinds(found) ==
  {k \in FailureKinds :
     \/ k = "parse" /\ found.parse
     \/ k = "unsupported" /\ (found.topLevel \/ found.unsupported \intersect found.classes # {})
     \/ k = "ket" /\ found.ket
     \/ k = "validation" /\ found.validation
     \/ k = "fallback" /\ found.misfit \intersect found.classes # {}
     \/ k = "readiness" /\ \E c \in found.classes : ~LinkReady(found, c)}

EvaluateGenerationPolicy(strict, emitManifest, found) ==
  LET Apply(d, kind) ==
        IF kind \in FoundKinds(found)
        THEN ApplyFailurePolicy(d, EvaluateFailurePolicy(strict, kind)) ELSE d
      none == [exit_code |-> 0, publish |-> TRUE, manifest |-> emitManifest,
               report |-> TRUE]
  IN Apply(Apply(Apply(Apply(Apply(Apply(none, "parse"), "unsupported"), "ket"),
                       "validation"), "fallback"), "readiness")
=============================================================================
