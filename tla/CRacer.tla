------------------------------- MODULE CRacer -------------------------------
(***************************************************************************)
(* C-RACER: every strand (a stretch of a task between spawns and waits) is *)
(* a node of two total orders, the serial one with the children first      *)
(* (English) and the one with the continuation first (Hebrew).  Strands    *)
(* are ordered when the two orders agree and parallel when they differ.    *)
(* The module gives what the hooks do; it has no next-state relation.      *)
(***************************************************************************)
EXTENDS TaskProgram

VARIABLES
  english, hebrew,   \* g_english and g_hebrew, as sets of pairs
  current,           \* the strand each task is in
  sync,              \* the strand that follows its next wait
  child,             \* TaskState::child
  deleted,           \* the tasks whose TaskState was deleted
  access,            \* VarState of the address: the strands recorded
  violation          \* is the address in all_violations?

strandVars == <<english, hebrew, current, sync, child, deleted>>
accessVars == <<access, violation>>
cracerVars == <<strandVars, accessVars>>

(* Strands are named after the child whose spawn creates them.             *)
Strand == {"first", "cont", "sync"} \X Task
NULL == <<"null", 0>>

E == INSTANCE OrderList
       WITH Node <- Strand, Base <- <<"first", 0>>, nodes <- Strand, order <- english

CRacerInit ==
  /\ english = {} /\ hebrew = {}
  /\ current = [t \in Task |-> IF t = 0 THEN <<"first", 0>> ELSE NULL]
  /\ sync = [t \in Task |-> NULL]
  /\ child = [t \in Task |-> {}]
  /\ deleted = {}
  /\ access = [writer |-> NULL, lreader |-> NULL, rreader |-> NULL]
  /\ violation = FALSE

(* Faulty: the strand after the wait is inserted for every child.          *)
InsertsNull(R, cur, group, second, third) ==
  E!InsertedAfter(E!InsertedAfter(E!InsertedAfter(R, cur, group), cur, second),
                  second, third)

(***************************************************************************)
(* t_debug_task::spawn for child c of p: in the English order the child    *)
(* comes before the continuation, in the Hebrew order after it, and the    *)
(* strand after the wait, made by the first spawn of a group, comes last.  *)
(***************************************************************************)
Inserted(R, cur, group, second, third) ==
  LET opened == IF group = NULL THEN R ELSE E!InsertedAfter(R, cur, group)
  IN  E!InsertedAfter(E!InsertedAfter(opened, cur, second), second, third)

CRacerSpawn(p, c) ==
  LET first == <<"first", c>>
      cont == <<"cont", c>>
      group == IF sync[p] = NULL THEN <<"sync", c>> ELSE NULL
  IN  /\ english' = Inserted(english, current[p], group, first, cont)
      /\ hebrew' = Inserted(hebrew, current[p], group, cont, first)
      /\ current' = [current EXCEPT ![p] = cont, ![c] = first]
      /\ sync' = [sync EXCEPT ![p] = IF group = NULL THEN @ ELSE group]
      /\ child' = [child EXCEPT ![p] = @ \cup {c}]
      /\ UNCHANGED <<deleted, accessVars>>

CRacerExecBegin(t) ==
  /\ child' = [child EXCEPT ![t] = {}]
  /\ UNCHANGED <<english, hebrew, current, sync, deleted, accessVars>>

(* The tasks whose state a wait of t deletes: its children, and those its  *)
(* children left behind.                                                   *)
Adopted(t) ==
  {c \in Task : \A S \in SUBSET Task :
     child[t] \subseteq S /\ (\A x \in S : child[x] \subseteq S) => c \in S}

(* Faulty: the task goes on in the strand it is in.                        *)
StaysInStrand(t) ==
  /\ child' = [x \in Task |-> IF x \in {t} \cup Adopted(t) THEN {} ELSE child[x]]
  /\ deleted' = deleted \cup Adopted(t)
  /\ sync' = [sync EXCEPT ![t] = NULL]
  /\ UNCHANGED <<english, hebrew, current, accessVars>>

(* Faulty: the lists of children are not cleared.                          *)
KeepsChildren(t) ==
  /\ deleted' = deleted \cup Adopted(t)
  /\ IF sync[t] = NULL
     THEN UNCHANGED <<current, sync>>
     ELSE /\ current' = [current EXCEPT ![t] = sync[t]]
          /\ sync' = [sync EXCEPT ![t] = NULL]
  /\ UNCHANGED <<english, hebrew, child, accessVars>>

CRacerWait(t) ==
  /\ child' = [x \in Task |-> IF x \in {t} \cup Adopted(t) THEN {} ELSE child[x]]
  /\ deleted' = deleted \cup Adopted(t)
  /\ IF sync[t] = NULL
     THEN UNCHANGED <<current, sync>>
     ELSE /\ current' = [current EXCEPT ![t] = sync[t]]
          /\ sync' = [sync EXCEPT ![t] = NULL]
  /\ UNCHANGED <<english, hebrew, accessVars>>

-----------------------------------------------------------------------------
Precedes(R, x, y) == <<x, y>> \in R

RacesWithStrand(t, x) ==
  /\ x # NULL
  /\ Precedes(english, x, current[t]) # Precedes(hebrew, x, current[t])

CRacerFinds(t, kind) ==
  \/ RacesWithStrand(t, access.writer)
  \/ /\ kind = WRITE
     /\ RacesWithStrand(t, access.lreader) \/ RacesWithStrand(t, access.rreader)

(* A reader replaces the left one when it comes first in the English order *)
(* or after it in the Hebrew order, and the right one when it comes after  *)
(* it in the English order.                                                *)
IsLeftmost(t) ==
  \/ access.lreader = NULL
  \/ Precedes(english, current[t], access.lreader)
  \/ Precedes(hebrew, access.lreader, current[t])

(* Faulty: the first reader stays the right one.                           *)
IsFirstReader(t) == access.rreader = NULL

IsRightmost(t) ==
  access.rreader = NULL \/ Precedes(english, access.rreader, current[t])

(***************************************************************************)
(* RecordMem of C-RACER, under the accessor of the address.  A race with   *)
(* the writer ends the call; the writer is replaced before the readers are *)
(* looked at.                                                              *)
(***************************************************************************)
CRacerRecordMem(t, kind) ==
  /\ IF violation \/ RacesWithStrand(t, access.writer)
     THEN UNCHANGED access
     ELSE access' =
       IF kind = WRITE
       THEN [access EXCEPT !.writer = current[t]]
       ELSE [access EXCEPT !.lreader = IF IsLeftmost(t) THEN current[t] ELSE @,
                           !.rreader = IF IsRightmost(t) THEN current[t] ELSE @]
  /\ violation' = (violation \/ CRacerFinds(t, kind))
  /\ UNCHANGED strandVars

-----------------------------------------------------------------------------
CRacerTypeOK ==
  /\ english \subseteq Strand \X Strand /\ hebrew \subseteq Strand \X Strand
  /\ current \in [Task -> Strand \cup {NULL}]
  /\ sync \in [Task -> Strand \cup {NULL}]
  /\ child \in [Task -> SUBSET Task]
  /\ deleted \subseteq Task
  /\ access \in [writer : Strand \cup {NULL}, lreader : Strand \cup {NULL},
                 rreader : Strand \cup {NULL}]
  /\ violation \in BOOLEAN
=============================================================================
