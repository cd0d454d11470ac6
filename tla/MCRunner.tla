------------------------------ MODULE MCRunner ------------------------------
(* Instances of Runner for TLC. *)
EXTENDS Runner

CONSTANT A

OneClass == {A}

Found(ver, classes) == [NoFindings EXCEPT !.ver = ver, !.classes = classes]

(* All the combinations of failures, with a class and without. *)
AllFindings ==
  {f \in [ver : {1}, classes : {{A}, {}}, marked : {{A}, {}}, unsupported : {{A}, {}},
          misfit : {{A}, {}}, topLevel : BOOLEAN, parse : BOOLEAN, ket : BOOLEAN,
          validation : BOOLEAN] :
     f.marked \union f.unsupported \union f.misfit \subseteq f.classes}

(* One run after another on headers that change, some of them failing. *)
Histories ==
  {Found(1, {A}), Found(2, {A}), [Found(2, {A}) EXCEPT !.ket = TRUE],
   [Found(1, {A}) EXCEPT !.unsupported = {A}], [Found(1, {A}) EXCEPT !.misfit = {A}],
   [Found(2, {}) EXCEPT !.parse = TRUE]}

Nothing == [f \in Files |-> Absent]

FewDisks ==
  {Nothing, [Nothing EXCEPT ![Fake(A)] = Odd], [Nothing EXCEPT ![Mock(A)] = Foreign]}

OddReport == [Nothing EXCEPT ![Report] = Odd]

MatrixDisks == {Nothing, [f \in Files |-> Foreign]}

HistoryDisks == FewDisks \union {OddReport}

(* The manifest is always wanted and nothing is only planned. *)
RealRuns == {o \in Option : o.emit_manifest /\ ~o.dry_run}

(* "matrix": one run with every combination of findings and options.
   "history": two runs, one of which may be lost.  "short": two without loss. *)
MCOptions == [matrix |-> Option, history |-> RealRuns, short |-> RealRuns]

MCInputs == [matrix |-> AllFindings, history |-> Histories, short |-> Histories]

MCDisks == [matrix |-> MatrixDisks, history |-> HistoryDisks, short |-> FewDisks]

MCRuns == [matrix |-> 1, history |-> 2, short |-> 2]

MCLosses == [matrix |-> 0, history |-> 1, short |-> 0]
=============================================================================
