----------------------------- MODULE ProgramTree -----------------------------
(***************************************************************************)
(* AFTaskGraph, the tree of ASYNC, FINISH and STEP nodes that PTracer and  *)
(* SPD3 build while the program runs.  A node is named by its path: the    *)
(* sequence of the <<seq_num, type>> from the root down.                   *)
(*                                                                         *)
(* cur[thread] is a stack of nodes; the part of it a task has pushed is    *)
(* kept with the task.                                                     *)
(***************************************************************************)
EXTENDS TaskProgram, SequencesExt

VARIABLE frames   \* the nodes each task has on the stack, its own first

(* A frame: the node, its num_children, whether its youngest child that is *)
(* no step is ASYNC, its current step, and whether it is a FINISH node     *)
(* opened by a spawn.                                                      *)
Frame(path, step, opened) ==
  [path |-> path, num_children |-> 0, async |-> FALSE, step |-> step,
   opened |-> opened]

Node(f, type) == Append(f.path, <<f.num_children, type>>)

(* f with one more child.                                                  *)
NextChild(f) == [f EXCEPT !.num_children = @ + 1]

(* f with a new step as its youngest child.                                *)
NewStep(f) == NextChild([f EXCEPT !.step = Node(f, "STEP")])

Top(t) == Last(frames[t])
WithTop(t, f) == Append(Front(frames[t]), f)

TreeInit ==
  frames = [t \in Task |-> IF t = 0 THEN <<Frame(<<>>, <<>>, FALSE)>> ELSE <<>>]

(* Faulty: every spawn opens a FINISH node.                                *)
OpensAlways(s, c) ==
  LET f == Frame(Node(Top(s), "FINISH"), <<>>, TRUE)
      own == NewStep(Frame(Node(f, "ASYNC"), <<>>, FALSE))
      spawner == NewStep([NextChild(f) EXCEPT !.async = TRUE])
  IN  frames' = [frames EXCEPT ![s] = WithTop(s, NextChild(Top(s))) \o <<spawner>>,
                               ![c] = <<own>>]

(* CaptureSpawnOnly: children that are waited for together hang under one  *)
(* FINISH node, opened by the first of them.                               *)
TreeSpawn(s, c) ==
  LET group == IF Top(s).async
               THEN frames[s]
               ELSE Append(WithTop(s, NextChild(Top(s))),
                           Frame(Node(Top(s), "FINISH"), <<>>, TRUE))
      f == Last(group)
      own == NewStep(Frame(Node(f, "ASYNC"), <<>>, FALSE))
      spawner == NewStep([NextChild(f) EXCEPT !.async = TRUE])
  IN  frames' = [frames EXCEPT ![s] = Append(Front(group), spawner), ![c] = <<own>>]

(* CaptureSpawnAndWait: the root task is a FINISH node.  The caller keeps  *)
(* its step, and nothing is recorded when its wait ends.                   *)
TreeSpawnRoot(s, c) ==
  frames' = [frames EXCEPT
    ![s] = WithTop(s, [NextChild(Top(s)) EXCEPT !.async = FALSE]),
    ![c] = <<NewStep(Frame(Node(Top(s), "FINISH"), <<>>, FALSE))>>]

(* CaptureWaitOnly: the node on top is popped whatever it is, and the new  *)
(* step hangs under the next.  A task whose own node was on top has none   *)
(* left: the next one, if the thread has any, is another task's, and what  *)
(* happens to that is not followed.                                        *)
TreeWait(t) ==
  LET rest == Front(frames[t])
  IN  frames' = [frames EXCEPT
        ![t] = IF rest = <<>> THEN <<>> ELSE Append(Front(rest), NewStep(Last(rest)))]

(* Faulty: a FINISH node the task has opened stays.                        *)
PopsOne(t) == frames' = [frames EXCEPT ![t] = Front(@)]

(* CaptureReturn pops the node of the task, and one opened FINISH node.    *)
TreeReturn(t) ==
  frames' = [frames EXCEPT ![t] = IF Top(t).opened THEN Front(Front(@)) ELSE Front(@)]

-----------------------------------------------------------------------------
(* The level at which two paths part.                                      *)
Parting(p, q) ==
  CHOOSE i \in 1 .. Len(p) : /\ i > Len(q) \/ p[i] # q[i]
                             /\ \A j \in 1 .. i - 1 : j <= Len(q) /\ p[j] = q[j]

(* Below their lowest common ancestor the older of two steps hangs under   *)
(* an ASYNC child.                                                         *)
Parallel(p, q) ==
  LET i == Parting(p, q)
      older == IF q[i][1] < p[i][1] THEN q[i] ELSE p[i]
  IN  older[2] = "ASYNC"

LCADepth(p, q) == IF p = q THEN Len(p) ELSE Parting(p, q) - 1

(* An access as the two detectors record it.                               *)
Recorded(t) == [task |-> t, step |-> Top(t).step]
Nobody == [task |-> 0, step |-> <<>>]

AreParallel(t, r) ==
  r # Nobody /\ r.task # t /\ Parallel(Top(t).step, r.step)

(* r1 is replaced by an access parallel to both if that brings the common  *)
(* ancestor up.                                                            *)
Widens(t, r1, r2) ==
  LCADepth(r1.step, Top(t).step) < LCADepth(r1.step, r2.step)

(* Main accesses nothing the two detectors record.                         *)
Skipped(t) == t = 0
=============================================================================
