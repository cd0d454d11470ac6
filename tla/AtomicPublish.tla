---------------------------- MODULE AtomicPublish ----------------------------
(***************************************************************************)
(* What a caller of WriteGeneratedFiles may rely on, without any of its    *)
(* steps: a call is open for a while and then ends in one step, in which   *)
(* either every file it was asked for is in place, or none has changed, or *)
(* a failed undo is reported.  Only a call whose undo failed and a process *)
(* that dies may leave some files changed and others not, and even then    *)
(* each file is the old one, the new one, or missing: never half of one.   *)
(***************************************************************************)
CONSTANTS Paths, Contents, Absent, Odd

Values == Contents \union {Absent, Odd}

VARIABLES
  phase,  \* how far the call is
  goal,   \* for each path the contents it was asked to have: none or one
  store   \* for each path what a reader who may undo would find

vars == <<phase, goal, store>>

Ended == {"committed", "aborted", "damaged", "crashed"}

TypeOK ==
  /\ phase \in Ended \union {"open"}
  /\ goal \in [Paths -> SUBSET Contents]
  /\ store \in [Paths -> Values]

Init ==
  /\ phase = "aborted"
  /\ goal = [p \in Paths |-> {}]
  /\ store \in [Paths -> Values]

(* A call can be refused at once, so that it opens and ends in one step. *)
Open(g) ==
  /\ phase \in Ended
  /\ phase' \in {"open", "aborted"}
  /\ goal' = g
  /\ UNCHANGED store

Commit ==
  /\ phase = "open"
  /\ phase' = "committed"
  /\ \A p \in Paths : IF goal[p] = {} THEN store'[p] = store[p]
                                     ELSE store'[p] \in goal[p]
  /\ store' \in [Paths -> Values]
  /\ UNCHANGED goal

Abort ==
  /\ phase = "open"
  /\ phase' = "aborted"
  /\ UNCHANGED <<goal, store>>

OldNewOrMissing ==
  /\ store' \in [Paths -> Values]
  /\ \A p \in Paths : store'[p] \in
       {store[p]} \union goal[p] \union (IF goal[p] = {} THEN {} ELSE {Absent})

Damage ==
  /\ phase = "open"
  /\ phase' = "damaged"
  /\ OldNewOrMissing
  /\ UNCHANGED goal

Die ==
  /\ phase = "open"
  /\ phase' = "crashed"
  /\ OldNewOrMissing
  /\ UNCHANGED goal

Next ==
  \/ \E g \in [Paths -> SUBSET Contents] : Open(g)
  \/ Commit \/ Abort \/ Damage \/ Die

Spec == Init /\ [][Next]_vars
=============================================================================
