------------------------ MODULE ProgramTree_proofs -------------------------
(***************************************************************************)
(* Proofs about the tree that PTracer and SPD3 build, for any number of    *)
(* tasks.  A path names a node by the labels from the root down; the query *)
(* looks at the first level at which two paths part.  The invariant,       *)
(* TreeInv, says where the nodes of the tasks lie in the tree, and what    *)
(* each task knows of what was run below them.  From it follows what the   *)
(* two detectors report: the accesses they keep stand for all that were    *)
(* made, as what a task knows lies in older steps than the one it is in.   *)
(***************************************************************************)
EXTENDS Detectors_proofs

(* The path p leads to a node below the one of path g.                     *)
Under(g, p) == Len(g) < Len(p) /\ \A i \in 1 .. Len(g) : p[i] = g[i]

(* Where two paths part first, they lead to children of different number.  *)
PartAt(p, q, i) ==
  /\ i \in 1 .. Len(p) /\ i <= Len(q) /\ p[i][1] # q[i][1]
  /\ \A j \in 1 .. i - 1 : p[j] = q[j]

Apart(p, q) == \E i : PartAt(p, q, i)

(* Labels, and what a path is that has one more of them.                   *)
LEMMA LabelFacts ==
  /\ \A k \in Nat : /\ <<k, "ASYNC">> \in Label /\ <<k, "FINISH">> \in Label
                    /\ <<k, "STEP">> \in Label
  /\ \A e \in Label : e[1] \in Nat
BY DEF Label

LEMMA AppendIs ==
  ASSUME NEW g \in Seq(Label), NEW e \in Label
  PROVE  /\ Append(g, e) \in Seq(Label) /\ Len(Append(g, e)) = Len(g) + 1
         /\ Append(g, e)[Len(g) + 1] = e
         /\ \A i \in 1 .. Len(g) : Append(g, e)[i] = g[i]
         /\ Under(g, Append(g, e)) /\ Len(g) \in Nat
<1>1. /\ Append(g, e) \in Seq(Label) /\ Len(Append(g, e)) = Len(g) + 1 /\ Len(g) \in Nat
      /\ Append(g, e)[Len(g) + 1] = e
      /\ \A i \in 1 .. Len(g) : Append(g, e)[i] = g[i]
  OBVIOUS
<1>2. QED
  BY <1>1 DEF Under

LEMMA UnderTrans ==
  ASSUME NEW f \in Seq(Label), NEW g \in Seq(Label), NEW p \in Seq(Label),
         Under(f, g), Under(g, p)
  PROVE  Under(f, p) /\ p[Len(f) + 1] = g[Len(f) + 1]
<1>1. Len(f) \in Nat /\ Len(g) \in Nat /\ Len(p) \in Nat
  OBVIOUS
<1>2. QED
  BY <1>1 DEF Under

LEMMA EntryIs ==
  ASSUME NEW p \in Seq(Label), NEW i \in 1 .. Len(p)
  PROVE  p[i] \in Label /\ p[i][1] \in Nat /\ i \in Nat /\ Len(p) \in Nat
BY LabelFacts

(* The answer of the query, where the two paths part in this way.          *)
LEMMA PartingIs ==
  ASSUME NEW p \in Seq(Label), NEW q \in Seq(Label), NEW i, PartAt(p, q, i)
  PROVE  /\ Parting(p, q) = i
         /\ Parallel(p, q) <=>
              IF q[i][1] < p[i][1] THEN q[i][2] = "ASYNC" ELSE p[i][2] = "ASYNC"
<1>1. /\ i \in 1 .. Len(p) /\ i <= Len(q) /\ p[i] # q[i] /\ p[i][1] # q[i][1]
      /\ \A j \in 1 .. i - 1 : p[j] = q[j]
      /\ Len(p) \in Nat /\ Len(q) \in Nat
  BY DEF PartAt
<1> DEFINE P(k) == /\ k > Len(q) \/ p[k] # q[k]
                   /\ \A j \in 1 .. k - 1 : j <= Len(q) /\ p[j] = q[j]
<1>2. P(i)
  BY <1>1
<1>3. ASSUME NEW k \in 1 .. Len(p), P(k) PROVE k = i
  <2>1. ~ k < i
    BY <1>1, <1>3
  <2>2. ~ i < k
    BY <1>1, <1>3
  <2>3. QED
    BY <1>1, <2>1, <2>2
<1>4. Parting(p, q) = CHOOSE k \in 1 .. Len(p) : P(k)
  BY DEF Parting
<1> HIDE DEF P
<1>5. Parting(p, q) = i
  BY <1>1, <1>2, <1>3, <1>4
<1>6. QED
  BY <1>5 DEF Parallel

LEMMA ApartBoth ==
  ASSUME NEW p \in Seq(Label), NEW q \in Seq(Label), Apart(p, q)
  PROVE  Apart(q, p) /\ p # q /\ (Parallel(p, q) <=> Parallel(q, p))
<1>1. PICK i : PartAt(p, q, i)
  BY DEF Apart
<1>2. PartAt(q, p, i) /\ p # q
  BY <1>1 DEF PartAt
<1>3. p[i][1] # q[i][1] /\ p[i][1] \in Nat /\ q[i][1] \in Nat
  <2>1. i \in 1 .. Len(p) /\ i \in 1 .. Len(q)
    BY <1>1 DEF PartAt
  <2>2. QED
    BY <1>1, <2>1, EntryIs DEF PartAt
<1>4. /\ Parallel(p, q) <=>
           IF q[i][1] < p[i][1] THEN q[i][2] = "ASYNC" ELSE p[i][2] = "ASYNC"
      /\ Parallel(q, p) <=>
           IF p[i][1] < q[i][1] THEN p[i][2] = "ASYNC" ELSE q[i][2] = "ASYNC"
  BY <1>1, <1>2, PartingIs
<1>5. QED
  BY <1>2, <1>3, <1>4 DEF Apart

(***************************************************************************)
(* A task moves on from the node q to a younger one, r, both below g.      *)
(* What is below the child of g that q is, or is below, becomes ordered or *)
(* parallel as that child is no ASYNC or one; all else is as before.       *)
(***************************************************************************)
LEMMA Follow ==
  ASSUME NEW g \in Seq(Label), NEW q \in Seq(Label), NEW r \in Seq(Label),
         NEW p \in Seq(Label), Under(g, q), Under(g, r),
         q[Len(g) + 1][1] < r[Len(g) + 1][1],
         Under(g, p) => p[Len(g) + 1][1] <= q[Len(g) + 1][1],
         p = q \/ Apart(p, q)
  PROVE  /\ Apart(p, r)
         /\ IF Under(g, p) /\ p[Len(g) + 1] = q[Len(g) + 1]
            THEN Parallel(r, p) <=> q[Len(g) + 1][2] = "ASYNC"
            ELSE Parallel(r, p) <=> Parallel(q, p)
<1> DEFINE k == Len(g) + 1
<1>1. /\ k \in 1 .. Len(q) /\ k \in 1 .. Len(r) /\ k \in Nat /\ Len(p) \in Nat
      /\ \A i \in 1 .. k - 1 : q[i] = g[i] /\ r[i] = g[i]
      /\ q[k][1] \in Nat /\ r[k][1] \in Nat
  <2>1. /\ k \in 1 .. Len(q) /\ k \in 1 .. Len(r) /\ k \in Nat /\ Len(p) \in Nat
        /\ \A i \in 1 .. k - 1 : q[i] = g[i] /\ r[i] = g[i]
    BY DEF Under
  <2>2. QED
    BY <2>1, EntryIs
<1>2. CASE Under(g, p)
  <2>1. k \in 1 .. Len(p) /\ \A i \in 1 .. k - 1 : p[i] = g[i]
    BY <1>2 DEF Under
  <2>2. p[k][1] < r[k][1] /\ p[k][1] \in Nat /\ p[k][1] <= q[k][1]
    BY <1>1, <1>2, <2>1, EntryIs
  <2>3. PartAt(p, r, k) /\ PartAt(r, p, k)
    BY <1>1, <2>1, <2>2 DEF PartAt
  <2>4. Parallel(r, p) <=> p[k][2] = "ASYNC"
    BY <2>2, <2>3, PartingIs
  <2>5. CASE p[k] = q[k]
    BY <1>2, <2>3, <2>4, <2>5 DEF Apart
  <2>6. CASE p[k] # q[k]
    <3>1. PICK i : PartAt(p, q, i)
      BY <2>6 DEF Apart
    <3>8. i \in 1 .. Len(p) /\ i <= Len(q)
      BY <3>1 DEF PartAt
    <3>2. i \in Nat /\ ~ i < k
      <4>1. i \in Nat
        BY <3>8
      <4>2. ASSUME i < k PROVE FALSE
        <5>1. i \in 1 .. k - 1
          BY <1>1, <3>8, <4>2
        <5>2. p[i] = q[i]
          BY <1>1, <2>1, <5>1
        <5>3. QED
          BY <3>1, <5>2 DEF PartAt
      <4>3. QED
        BY <4>1, <4>2
    <3>3. ~ k < i
      BY <1>1, <2>1, <2>6, <3>1, <3>2 DEF PartAt
    <3>4. i = k
      BY <1>1, <3>2, <3>3
    <3>5. Parallel(q, p) <=> Parallel(p, q)
      BY <3>1, ApartBoth DEF Apart
    <3>6. Parallel(p, q) <=>
            IF q[k][1] < p[k][1] THEN q[k][2] = "ASYNC" ELSE p[k][2] = "ASYNC"
      BY <3>1, <3>4, PartingIs
    <3>7. p[k][1] # q[k][1]
      BY <3>1, <3>4 DEF PartAt
    <3>9. p[k][1] < q[k][1]
      BY <1>1, <2>2, <3>7
    <3>10. Parallel(q, p) <=> p[k][2] = "ASYNC"
      BY <1>1, <2>2, <3>5, <3>6, <3>9
    <3>11. QED
      BY <1>2, <2>3, <2>4, <2>6, <3>10 DEF Apart
  <2>7. QED
    BY <2>5, <2>6
<1>3. CASE ~ Under(g, p)
  <2>1. p # q
    BY <1>3
  <2>2. PICK i : PartAt(p, q, i)
    BY <2>1 DEF Apart
  <2>3. i \in 1 .. Len(p) /\ i <= Len(q) /\ i \in Nat
    BY <2>2 DEF PartAt
  <2>4. i < k
    <3>1. ASSUME ~ i < k PROVE Under(g, p)
      <4>1. \A j \in 1 .. Len(g) : j \in 1 .. i - 1 /\ q[j] = g[j]
        BY <1>1, <2>3, <3>1
      <4>2. \A j \in 1 .. Len(g) : p[j] = g[j]
        BY <2>2, <4>1 DEF PartAt
      <4>3. Len(g) < Len(p)
        BY <1>1, <2>3, <3>1
      <4>4. QED
        BY <4>2, <4>3 DEF Under
    <3>2. QED
      BY <1>3, <3>1
  <2>5. q[i] = r[i] /\ i <= Len(r)
    BY <1>1, <2>3, <2>4
  <2>6. \A j \in 1 .. i - 1 : q[j] = r[j]
    BY <1>1, <2>3, <2>4
  <2>7. PartAt(p, r, i)
    BY <2>2, <2>5, <2>6 DEF PartAt
  <2>8. Parallel(p, r) <=> Parallel(p, q)
    BY <2>2, <2>5, <2>7, PartingIs
  <2>9. Apart(p, q) /\ Apart(p, r)
    BY <2>2, <2>7 DEF Apart
  <2>10. QED
    BY <1>3, <2>8, <2>9, ApartBoth
<1>4. QED
  BY <1>2, <1>3

-----------------------------------------------------------------------------
(* The frames of a task: its own node, and the one on top of the stack.    *)
Own(t) == frames[t][1]
Step(t) == Top(t).step

LEMMA FramesAre ==
  ASSUME NEW t
  PROVE  /\ \A f : frames[t] = <<f>> => Own(t) = f /\ Top(t) = f
         /\ \A f, g : frames[t] = <<f, g>> => Own(t) = f /\ Top(t) = g
<1>1. ASSUME NEW f, frames[t] = <<f>> PROVE Own(t) = f /\ Top(t) = f
  <2>1. <<f>>[1] = f /\ Last(<<f>>) = f
    BY StackFacts
  <2>2. QED
    BY <1>1, <2>1 DEF Own, Top
<1>2. ASSUME NEW f, NEW g, frames[t] = <<f, g>> PROVE Own(t) = f /\ Top(t) = g
  <2>1. <<f, g>>[1] = f /\ Last(<<f, g>>) = g
    BY StackFacts
  <2>2. QED
    BY <1>2, <2>1 DEF Own, Top
<1>3. QED
  BY <1>1, <1>2

(* A node of type own (ASYNC or FINISH) at path, with its first step.      *)
StartsAt(f, path) ==
  /\ f.path = path /\ f.num_children = 1 /\ f.step = Append(path, <<0, "STEP">>)

(* What the operations on a frame do to its path and to its children.      *)
LEMMA FrameValues ==
  ASSUME NEW f \in FrameSet
  PROVE  /\ f.path \in Seq(Label) /\ f.num_children \in Nat
         /\ \A type : Node(f, type) = Append(f.path, <<f.num_children, type>>)
         /\ NextChild(f).path = f.path /\ NextChild(f).num_children = f.num_children + 1
         /\ NewStep(f).path = f.path /\ NewStep(f).num_children = f.num_children + 1
         /\ NewStep(f).step = Append(f.path, <<f.num_children, "STEP">>)
         /\ \A b : /\ [f EXCEPT !.async = b].path = f.path
                   /\ [f EXCEPT !.async = b].num_children = f.num_children
<1>1. f.path \in Seq(Label) /\ f.num_children \in Nat
  BY DEF FrameSet
<1>2. \A type : Node(f, type) = Append(f.path, <<f.num_children, type>>)
  BY DEF Node
<1>3. NextChild(f).path = f.path /\ NextChild(f).num_children = f.num_children + 1
  BY DEF NextChild, FrameSet
<1>4. PICK n \in Seq(Label) : n = Node(f, "STEP")
  BY FrameFacts
<1>5. PICK g : g = [f EXCEPT !.step = n]
  OBVIOUS
<1>6. /\ g \in FrameSet /\ g.path = f.path /\ g.num_children = f.num_children
      /\ g.step = n
  BY <1>4, <1>5 DEF FrameSet
<1>7. NewStep(f) = NextChild(g)
  BY <1>4, <1>5 DEF NewStep
<1>8. /\ NextChild(g).path = g.path /\ NextChild(g).num_children = g.num_children + 1
      /\ NextChild(g).step = g.step
  BY <1>6 DEF NextChild, FrameSet
<1>9. \A b : /\ [f EXCEPT !.async = b].path = f.path
             /\ [f EXCEPT !.async = b].num_children = f.num_children
  BY DEF FrameSet
<1>10. QED
  BY <1>1, <1>2, <1>3, <1>4, <1>6, <1>7, <1>8, <1>9

LEMMA FreshFrame ==
  ASSUME NEW path \in Seq(Label), NEW b \in BOOLEAN
  PROVE  /\ Frame(path, <<>>, b) \in FrameSet
         /\ Frame(path, <<>>, b).path = path /\ Frame(path, <<>>, b).num_children = 0
         /\ StartsAt(NewStep(Frame(path, <<>>, b)), path)
<1>1. PICK f : f = Frame(path, <<>>, b)
  OBVIOUS
<1>2. <<>> \in Seq(Label)
  OBVIOUS
<1>3. f \in FrameSet
  BY <1>1, <1>2, FrameFacts
<1>4. f.path = path /\ f.num_children = 0
  BY <1>1 DEF Frame
<1>5. StartsAt(NewStep(f), path)
  BY <1>3, <1>4, FrameValues DEF StartsAt
<1>6. QED
  BY <1>1, <1>3, <1>4, <1>5

(* What a spawn by a task other than main does to the tree.                *)
SpawnsIn(s, c, g, j) ==
  /\ g \in Seq(Label) /\ j \in Nat
  /\ StartsAt(Own(c)', Append(g, <<j, "ASYNC">>)) /\ Top(c)' = Own(c)'
  /\ Own(s)'.path = Own(s).path
  /\ Top(s)'.path = g /\ Top(s)'.num_children = j + 2
  /\ Top(s)'.step = Append(g, <<j + 1, "STEP">>)
  /\ \/ /\ Two(s) /\ g = Top(s).path /\ j = Top(s).num_children
        /\ Own(s)'.num_children = Own(s).num_children
     \/ /\ One(s) /\ g = Append(Top(s).path, <<Top(s).num_children, "FINISH">>) /\ j = 0
        /\ Own(s)'.num_children = Own(s).num_children + 1

LEMMA SpawnValues ==
  ASSUME NEW s \in Task, NEW c \in Task, s # c, One(s) \/ Two(s),
         DOMAIN frames = Task, TreeSpawn(s, c)
  PROVE  \E g, j : SpawnsIn(s, c, g, j)
<1> DEFINE group == IF Top(s).async
                    THEN frames[s]
                    ELSE Append(WithTop(s, NextChild(Top(s))),
                                Frame(Node(Top(s), "FINISH"), <<>>, TRUE))
           own(f) == NewStep(Frame(Node(f, "ASYNC"), <<>>, FALSE))
           spawner(f) == NewStep([NextChild(f) EXCEPT !.async = TRUE])
<1>1. frames' = [frames EXCEPT ![s] = Append(Front(group), spawner(Last(group))),
                               ![c] = <<own(Last(group))>>]
  BY DEF TreeSpawn
<1>2. ASSUME NEW e, NEW f \in FrameSet, group = <<e, f>>
      PROVE  /\ Own(s)' = e
             /\ StartsAt(Own(c)', Append(f.path, <<f.num_children, "ASYNC">>))
             /\ Top(c)' = Own(c)'
             /\ Top(s)'.path = f.path /\ Top(s)'.num_children = f.num_children + 2
             /\ Top(s)'.step = Append(f.path, <<f.num_children + 1, "STEP">>)
  <2>1. Front(group) = <<e>> /\ Last(group) = f
    BY <1>2, StackFacts
  <2>2. PICK h : h = spawner(f)
    OBVIOUS
  <2>3. PICK k : k = own(f)
    OBVIOUS
  <2>4. Append(<<e>>, h) = <<e, h>>
    BY StackFacts
  <2>5. frames'[s] = <<e, h>> /\ frames'[c] = <<k>>
    BY <1>1, <2>1, <2>2, <2>3, <2>4
  <2>6. Own(s)' = e /\ Top(s)' = h /\ Own(c)' = k /\ Top(c)' = k
    BY <2>5, StackFacts DEF Own, Top
  <2>7. StartsAt(k, Append(f.path, <<f.num_children, "ASYNC">>))
    <3>1. Node(f, "ASYNC") \in Seq(Label)
      BY <1>2, FrameFacts
    <3>2. Node(f, "ASYNC") = Append(f.path, <<f.num_children, "ASYNC">>)
      BY <1>2, FrameValues
    <3>3. QED
      BY <2>3, <3>1, <3>2, FreshFrame
  <2>8. /\ h.path = f.path /\ h.num_children = f.num_children + 2
        /\ h.step = Append(f.path, <<f.num_children + 1, "STEP">>)
    <3>1. PICK m : m = NextChild(f)
      OBVIOUS
    <3>2. m \in FrameSet /\ m.path = f.path /\ m.num_children = f.num_children + 1
      BY <1>2, <3>1, FrameFacts, FrameValues
    <3>3. PICK l : l = [m EXCEPT !.async = TRUE]
      OBVIOUS
    <3>4. l \in FrameSet /\ l.path = m.path /\ l.num_children = m.num_children
      BY <3>2, <3>3 DEF FrameSet
    <3>5. h = NewStep(l)
      BY <2>2, <3>1, <3>3
    <3>6. f.num_children \in Nat
      BY <1>2, FrameValues
    <3>7. /\ h.path = l.path /\ h.num_children = l.num_children + 1
          /\ h.step = Append(l.path, <<l.num_children, "STEP">>)
      BY <3>4, <3>5, FrameValues
    <3>8. l.path = f.path /\ l.num_children = f.num_children + 1
      BY <3>2, <3>4
    <3>9. h.num_children = f.num_children + 2
      BY <3>6, <3>7, <3>8
    <3>10. QED
      BY <3>7, <3>8, <3>9
  <2>9. QED
    BY <2>6, <2>7, <2>8
<1>3. CASE Two(s)
  <2>1. PICK e, f : OwnFrame(e) /\ OpenFrame(f) /\ frames[s] = <<e, f>>
    BY <1>3 DEF Two
  <2>2. Top(s) = f /\ Own(s) = e /\ f \in FrameSet /\ f.async
    BY <2>1, FramesAre DEF OpenFrame
  <2>3. group = <<e, f>>
    BY <2>1, <2>2
  <2>4. f.path \in Seq(Label) /\ f.num_children \in Nat
    BY <2>2, FrameValues
  <2> HIDE DEF group
  <2>5. SpawnsIn(s, c, f.path, f.num_children)
    BY <1>2, <1>3, <2>2, <2>3, <2>4 DEF SpawnsIn
  <2>6. QED
    BY <2>5
<1>4. CASE One(s)
  <2>1. PICK e : OwnFrame(e) /\ frames[s] = <<e>>
    BY <1>4 DEF One
  <2>2. Top(s) = e /\ Own(s) = e /\ e \in FrameSet /\ ~ e.async
    BY <2>1, FramesAre DEF OwnFrame
  <2>3. PICK n : n = NextChild(e)
    OBVIOUS
  <2>4. PICK f : f = Frame(Node(e, "FINISH"), <<>>, TRUE)
    OBVIOUS
  <2>5. WithTop(s, n) = <<n>> /\ Append(<<n>>, f) = <<n, f>>
    BY <2>1, StackFacts DEF WithTop
  <2>6. group = <<n, f>>
    BY <2>2, <2>3, <2>4, <2>5
  <2>7. /\ f \in FrameSet /\ f.num_children = 0
        /\ f.path = Append(e.path, <<e.num_children, "FINISH">>)
        /\ f.path \in Seq(Label)
    <3>1. Node(e, "FINISH") \in Seq(Label)
      BY <2>2, FrameFacts
    <3>2. Node(e, "FINISH") = Append(e.path, <<e.num_children, "FINISH">>)
      BY <2>2, FrameValues
    <3>3. QED
      BY <2>4, <3>1, <3>2, FreshFrame
  <2>8. n.path = e.path /\ n.num_children = e.num_children + 1
    BY <2>2, <2>3, FrameValues
  <2> HIDE DEF group
  <2>9. SpawnsIn(s, c, f.path, 0)
    BY <1>2, <1>4, <2>2, <2>6, <2>7, <2>8 DEF SpawnsIn
  <2>10. QED
    BY <2>9
<1>5. QED
  BY <1>3, <1>4

(* A root spawned by main.                                                 *)
LEMMA RootValues ==
  ASSUME NEW c \in Task, c # 0, DOMAIN frames = Task,
         NEW f \in FrameSet, frames[0] = <<f>>, TreeSpawnRoot(0, c)
  PROVE  /\ Own(0) = f /\ Top(0) = f
         /\ Own(0)'.path = f.path /\ Own(0)'.num_children = f.num_children + 1
         /\ Top(0)' = Own(0)'
         /\ StartsAt(Own(c)', Append(f.path, <<f.num_children, "FINISH">>))
         /\ Top(c)' = Own(c)'
<1>1. Top(0) = f /\ Own(0) = f /\ \A g : WithTop(0, g) = <<g>>
  BY FramesAre, StackFacts DEF WithTop
<1>2. PICK m : m = NextChild(f)
  OBVIOUS
<1>3. m \in FrameSet /\ m.path = f.path /\ m.num_children = f.num_children + 1
  BY <1>2, FrameFacts, FrameValues
<1>4. PICK g : g = [m EXCEPT !.async = FALSE]
  OBVIOUS
<1>5. g.path = f.path /\ g.num_children = f.num_children + 1
  BY <1>3, <1>4, FrameValues
<1>6. PICK h : h = NewStep(Frame(Node(f, "FINISH"), <<>>, FALSE))
  OBVIOUS
<1>7. StartsAt(h, Append(f.path, <<f.num_children, "FINISH">>))
  <2>1. Node(f, "FINISH") \in Seq(Label)
    BY FrameFacts
  <2>2. Node(f, "FINISH") = Append(f.path, <<f.num_children, "FINISH">>)
    BY FrameValues
  <2>3. QED
    BY <1>6, <2>1, <2>2, FreshFrame
<1>8. frames'[0] = <<g>> /\ frames'[c] = <<h>>
  BY <1>1, <1>2, <1>4, <1>6, TaskFacts DEF TreeSpawnRoot
<1>9. Own(0)' = g /\ Top(0)' = g /\ Own(c)' = h /\ Top(c)' = h
  BY <1>8, StackFacts DEF Own, Top
<1>10. QED
  BY <1>1, <1>5, <1>7, <1>9

(* The end of a wait.                                                      *)
LEMMA WaitValues ==
  ASSUME NEW t \in Task, Two(t), DOMAIN frames = Task, TreeWait(t)
  PROVE  /\ Own(t) \in FrameSet /\ Own(t)'.path = Own(t).path
         /\ Own(t)'.num_children = Own(t).num_children + 1
         /\ Top(t)' = Own(t)'
         /\ Top(t)'.step = Append(Own(t).path, <<Own(t).num_children, "STEP">>)
<1>1. PICK f, g : OwnFrame(f) /\ OpenFrame(g) /\ frames[t] = <<f, g>>
  BY DEF Two
<1>2. Front(frames[t]) = <<f>> /\ Last(<<f>>) = f
  BY <1>1, StackFacts
<1>3. \A h : Append(Front(<<f>>), h) = <<h>>
  BY StackFacts
<1>4. frames'[t] = <<NewStep(f)>>
  BY <1>2, <1>3 DEF TreeWait
<1>5. Own(t) = f /\ f \in FrameSet
  BY <1>1, FramesAre DEF OwnFrame
<1>6. PICK h : h = NewStep(f)
  OBVIOUS
<1>7. Own(t)' = h /\ Top(t)' = h
  BY <1>4, <1>6, StackFacts DEF Own, Top
<1>8. QED
  BY <1>5, <1>6, <1>7, FrameValues

-----------------------------------------------------------------------------
(***************************************************************************)
(* The tree and what happened before.  A task that has not ended has a     *)
(* place in the tree; an item is a segment of a task other than main with  *)
(* the step it was run in.                                                 *)
(***************************************************************************)
Alive(t) == t # 0 /\ status[t] \in {"ready", "running", "waiting"}
Placed(t) == t = 0 \/ Alive(t)

Stamp(u, n, p) == \E s \in stamps : s[1] = u /\ s[2] = n /\ s[4] = p

Item(u, n, p) ==
  /\ u # 0
  /\ Stamp(u, n, p) \/ (u \in Task /\ Alive(u) /\ n = seg[u] /\ p = Step(u))

Knows(t, u, n) == <<u, n>> \in PastOf(t)

(* The frames of a task are its own node and, while it waits or may still  *)
(* wait, one FINISH node below it; its step is the youngest child of the   *)
(* one on top.                                                             *)
ShapeInv ==
  /\ \E f \in FrameSet : frames[0] = <<f>> /\ f.path = <<>>
  /\ \A t \in Task : Alive(t) =>
       /\ Own(t).path \in Seq(Label) /\ Len(Own(t).path) > 0
       /\ Own(t).num_children \in Nat
       /\ Top(t).path \in Seq(Label)
       /\ Top(t).num_children \in Nat /\ Top(t).num_children > 0
       /\ Step(t) = Append(Top(t).path, <<Top(t).num_children - 1, "STEP">>)
       /\ \/ One(t) /\ Top(t) = Own(t) /\ Awaited(t) = {}
          \/ /\ Two(t) /\ Awaited(t) # {} /\ Own(t).num_children > 0
             /\ Top(t).path = Append(Own(t).path, <<Own(t).num_children - 1, "FINISH">>)

(* An item is a segment that has been entered, below a root.               *)
ItemsInv ==
  \A u, n, p : Item(u, n, p) =>
    /\ u \in Task /\ n \in Nat /\ 0 < n /\ n <= seg[u]
    /\ p \in Seq(Label) /\ Len(p) > 0 /\ p[1][2] = "FINISH"

(* The children of a node have numbers below num_children.                 *)
FreshBelow(f) ==
  \A u, n, p : Item(u, n, p) /\ Under(f.path, p) =>
    p[Len(f.path) + 1][1] < f.num_children

FreshInv == \A t \in Task : Placed(t) => FreshBelow(Own(t)) /\ FreshBelow(Top(t))

(* The step of a task parts from that of every other item.                 *)
ApartInv ==
  \A u, n, p : Item(u, n, p) =>
    \A t \in Task : Alive(t) => \/ p = Step(t) /\ u = t /\ n = seg[t]
                                \/ Apart(p, Step(t))

(* The query answers what happened before.                                 *)
VerdictInv ==
  \A u, n, p : Item(u, n, p) =>
    \A t \in Task : Alive(t) => (Knows(t, u, n) <=> p = Step(t) \/ ~ Parallel(Step(t), p))

(* Below the node of a task are only its descendants, each below the node  *)
(* of a child that is waited for.                                          *)
DescentInv ==
  \A t, v \in Task : Placed(t) /\ Alive(v) /\ v # t /\ Under(Own(t).path, Step(v)) =>
    \E d \in Awaited(t) : d \in Task /\ Alive(d) /\ Under(Own(d).path, Step(v))

(* The children a task waits for are below the FINISH node on top.         *)
PlaceInv ==
  \A t \in Task : Alive(t) =>
    \A d \in Awaited(t) : Alive(d) => Under(Top(t).path, Own(d).path)

(* What was run below the node of a task is known to the task, or to a     *)
(* child it waits for, or was run below the node of such a child.          *)
CompleteInv ==
  \A t \in Task : Placed(t) =>
    \A u, n, p : Item(u, n, p) /\ Under(Own(t).path, p) =>
      \/ Knows(t, u, n)
      \/ \E d \in Awaited(t) : \/ Knows(d, u, n)
                               \/ Alive(d) /\ Under(Own(d).path, p)

(* What a child knows and the task does not was run below the FINISH node  *)
(* the child is in.                                                        *)
LocalInv ==
  \A t \in Task : Alive(t) =>
    \A d \in Awaited(t) : \A u, n, p : Item(u, n, p) /\ Knows(d, u, n) =>
      Knows(t, u, n) \/ Under(Top(t).path, p)

(* No task knows the segment another one is in.                            *)
UnknownInv == \A t, u \in Task : Alive(u) => <<u, seg[u]>> \notin before[t]

(* The inductive invariant of the tree.                                    *)
TreeInv ==
  /\ ShapeInv /\ ItemsInv /\ FreshInv /\ ApartInv /\ VerdictInv
  /\ DescentInv /\ PlaceInv /\ CompleteInv /\ LocalInv /\ UnknownInv

LEMMA AliveIsItem ==
  ASSUME NEW t \in Task, Alive(t)
  PROVE  Item(t, seg[t], Step(t))
BY DEF Item, Alive

(* The place of the step of a task below its nodes.                        *)
LEMMA StepIs ==
  ASSUME ShapeInv, NEW t \in Task, Alive(t)
  PROVE  /\ Step(t) \in Seq(Label) /\ Len(Step(t)) = Len(Top(t).path) + 1
         /\ Step(t)[Len(Top(t).path) + 1] = <<Top(t).num_children - 1, "STEP">>
         /\ Under(Top(t).path, Step(t)) /\ Under(Own(t).path, Step(t))
         /\ Top(t).path \in Seq(Label) /\ Own(t).path \in Seq(Label)
         /\ Top(t).num_children \in Nat /\ Top(t).num_children > 0
         /\ Own(t).num_children \in Nat
         /\ Len(Top(t).path) \in Nat /\ Len(Own(t).path) \in Nat
         /\ Len(Own(t).path) > 0 /\ Len(Own(t).path) <= Len(Top(t).path)
         /\ \/ Top(t) = Own(t)
            \/ /\ Under(Own(t).path, Top(t).path)
               /\ Len(Top(t).path) = Len(Own(t).path) + 1
               /\ Step(t)[Len(Own(t).path) + 1] = <<Own(t).num_children - 1, "FINISH">>
<1>1. /\ Own(t).path \in Seq(Label) /\ Len(Own(t).path) > 0
      /\ Own(t).num_children \in Nat /\ Top(t).path \in Seq(Label)
      /\ Top(t).num_children \in Nat /\ Top(t).num_children > 0
      /\ Step(t) = Append(Top(t).path, <<Top(t).num_children - 1, "STEP">>)
      /\ \/ Top(t) = Own(t)
         \/ /\ Own(t).num_children > 0
            /\ Top(t).path = Append(Own(t).path, <<Own(t).num_children - 1, "FINISH">>)
  BY DEF ShapeInv
<1>2. <<Top(t).num_children - 1, "STEP">> \in Label
  <2>1. Top(t).num_children - 1 \in Nat
    BY <1>1
  <2>2. QED
    BY <2>1, LabelFacts
<1>3. /\ Step(t) \in Seq(Label) /\ Len(Step(t)) = Len(Top(t).path) + 1
      /\ Step(t)[Len(Top(t).path) + 1] = <<Top(t).num_children - 1, "STEP">>
      /\ Under(Top(t).path, Step(t)) /\ Len(Top(t).path) \in Nat
  BY <1>1, <1>2, AppendIs
<1>4. CASE Top(t) = Own(t)
  BY <1>1, <1>3, <1>4
<1>5. CASE /\ Own(t).num_children > 0
           /\ Top(t).path = Append(Own(t).path, <<Own(t).num_children - 1, "FINISH">>)
  <2>0. Own(t).num_children - 1 \in Nat
    BY <1>1, <1>5
  <2>1. <<Own(t).num_children - 1, "FINISH">> \in Label
    BY <2>0, LabelFacts
  <2>2. /\ Under(Own(t).path, Top(t).path) /\ Len(Top(t).path) = Len(Own(t).path) + 1
        /\ Top(t).path[Len(Own(t).path) + 1] = <<Own(t).num_children - 1, "FINISH">>
        /\ Len(Own(t).path) \in Nat
    BY <1>1, <1>5, <2>1, AppendIs
  <2>3. /\ Under(Own(t).path, Step(t))
        /\ Step(t)[Len(Own(t).path) + 1] = Top(t).path[Len(Own(t).path) + 1]
    BY <1>1, <1>3, <2>2, UnderTrans
  <2>4. QED
    BY <1>1, <1>3, <2>2, <2>3
<1>6. QED
  BY <1>1, <1>4, <1>5

(* A task moves on to a node r younger than its step q.                    *)
LEMMA FollowStep ==
  ASSUME NEW g \in Seq(Label), NEW a \in Nat, NEW q, q = Append(g, <<a, "STEP">>),
         NEW r \in Seq(Label), Under(g, r), a < r[Len(g) + 1][1],
         NEW p \in Seq(Label), Under(g, p) => p[Len(g) + 1][1] <= a,
         p = q \/ Apart(p, q)
  PROVE  Apart(p, r) /\ (Parallel(r, p) <=> p # q /\ Parallel(q, p))
<1>1. /\ q \in Seq(Label) /\ Len(q) = Len(g) + 1 /\ q[Len(g) + 1] = <<a, "STEP">>
      /\ \A i \in 1 .. Len(g) : q[i] = g[i]
      /\ Under(g, q) /\ Len(g) \in Nat
  <2>1. PICK e \in Label : e = <<a, "STEP">>
    BY LabelFacts
  <2>2. q = Append(g, e)
    BY <2>1
  <2>3. PICK r0 \in Seq(Label) : r0 = Append(g, e)
    BY AppendIs
  <2>4. /\ Len(r0) = Len(g) + 1 /\ r0[Len(g) + 1] = e
        /\ \A i \in 1 .. Len(g) : r0[i] = g[i]
        /\ Under(g, r0) /\ Len(g) \in Nat
    BY <2>3, AppendIs
  <2>5. QED
    BY <2>1, <2>2, <2>3, <2>4
<1>2. /\ Apart(p, r)
      /\ IF Under(g, p) /\ p[Len(g) + 1] = q[Len(g) + 1]
         THEN Parallel(r, p) <=> q[Len(g) + 1][2] = "ASYNC"
         ELSE Parallel(r, p) <=> Parallel(q, p)
  <2>1. q[Len(g) + 1][1] = a
    BY <1>1
  <2>2. /\ q[Len(g) + 1][1] < r[Len(g) + 1][1]
        /\ Under(g, p) => p[Len(g) + 1][1] <= q[Len(g) + 1][1]
    BY <2>1
  <2>3. QED
    BY <1>1, <2>2, Follow, Zenon
<1>3. ASSUME Under(g, p), p[Len(g) + 1] = q[Len(g) + 1], Apart(p, q) PROVE FALSE
  <2>1. PICK i : PartAt(p, q, i)
    BY <1>3 DEF Apart
  <2>2. i \in 1 .. Len(p) /\ i <= Len(g) + 1 /\ Len(p) \in Nat
    BY <1>1, <2>1 DEF PartAt
  <2>3. i = Len(g) + 1 \/ i \in 1 .. Len(g)
    BY <1>1, <2>2
  <2>4. p[i] = q[i]
    BY <1>1, <1>3, <2>3 DEF Under
  <2>5. QED
    BY <2>1, <2>4 DEF PartAt
<1>4. CASE p = q
  BY <1>1, <1>2, <1>4
<1>5. CASE Apart(p, q)
  <2>1. p # q
    BY <1>1, <1>5, ApartBoth
  <2>2. QED
    BY <1>2, <1>3, <1>5, <2>1
<1>6. QED
  BY <1>4, <1>5

LEMMA MainNode ==
  ASSUME ShapeInv
  PROVE  /\ Own(0) = Top(0) /\ Own(0).path = <<>> /\ Len(Own(0).path) = 0
         /\ Own(0) \in FrameSet /\ Own(0).num_children \in Nat
         /\ \A p \in Seq(Label) : Len(p) > 0 => Under(Own(0).path, p)
<1>1. PICK f \in FrameSet : frames[0] = <<f>> /\ f.path = <<>>
  BY DEF ShapeInv
<1>2. Own(0) = f /\ Top(0) = f
  BY <1>1, FramesAre
<1>3. f.num_children \in Nat
  BY FrameValues
<1>4. QED
  BY <1>1, <1>2, <1>3 DEF Under

(* No two tasks have a node in common.                                     *)
LEMMA NodesDistinct ==
  ASSUME ShapeInv, FreshInv, ApartInv, DescentInv, PlaceInv,
         NEW s \in Task, Alive(s), NEW v \in Task, Placed(v), v # s,
         NEW f \in {Own(v), Top(v)},
         Len(f.path) = Len(Top(s).path), Under(f.path, Step(s))
  PROVE  FALSE
<1>1. /\ Step(s) \in Seq(Label) /\ Len(Step(s)) = Len(Top(s).path) + 1
      /\ Step(s)[Len(Top(s).path) + 1] = <<Top(s).num_children - 1, "STEP">>
      /\ Under(Top(s).path, Step(s)) /\ Len(Top(s).path) \in Nat /\ Len(Top(s).path) > 0
      /\ Top(s).num_children \in Nat
  BY StepIs
<1>2. v # 0
  BY <1>1, MainNode
<1>3. Alive(v)
  BY <1>2 DEF Placed
<1>4. /\ Step(v) \in Seq(Label) /\ Len(Step(v)) = Len(Top(v).path) + 1
      /\ Step(v)[Len(Top(v).path) + 1] = <<Top(v).num_children - 1, "STEP">>
      /\ Under(Top(v).path, Step(v)) /\ Len(Own(v).path) \in Nat
      /\ Top(v).num_children \in Nat
      /\ \/ Top(v) = Own(v)
         \/ /\ Under(Own(v).path, Top(v).path)
            /\ Len(Top(v).path) = Len(Own(v).path) + 1
  BY <1>3, StepIs
<1>5. CASE f = Top(v)
  <2> DEFINE k == Len(Top(s).path) + 1
  <2>1. /\ k \in Nat /\ Len(Step(s)) = k /\ Len(Step(v)) = k
        /\ Step(s)[k] = <<Top(s).num_children - 1, "STEP">>
        /\ Step(v)[k] = <<Top(v).num_children - 1, "STEP">>
        /\ \A i \in 1 .. k - 1 : Step(v)[i] = Step(s)[i]
    BY <1>1, <1>4, <1>5 DEF Under
  <2>2. Under(Top(s).path, Step(v))
    BY <1>1, <1>4, <1>5, <2>1 DEF Under
  <2>3. Top(v).num_children - 1 < Top(s).num_children
    <3>1. Step(v)[k][1] < Top(s).num_children
      BY <1>3, <2>2, AliveIsItem DEF FreshInv, FreshBelow, Placed
    <3>2. QED
      BY <2>1, <3>1
  <2>4. Top(s).num_children - 1 < Top(v).num_children
    <3>1. Step(s)[k][1] < Top(v).num_children
      BY <1>3, <1>5, AliveIsItem DEF FreshInv, FreshBelow, Placed
    <3>2. QED
      BY <2>1, <3>1
  <2>5. Step(s)[k] = Step(v)[k]
    BY <1>1, <1>4, <2>1, <2>3, <2>4
  <2>6. Apart(Step(v), Step(s))
    BY <1>3, AliveIsItem DEF ApartInv
  <2>7. PICK i : PartAt(Step(v), Step(s), i)
    BY <2>6 DEF Apart
  <2>8. i \in 1 .. k - 1 \/ i = k
    BY <2>1, <2>7 DEF PartAt
  <2>9. Step(v)[i] = Step(s)[i]
    BY <2>1, <2>5, <2>8
  <2>10. QED
    BY <2>7, <2>9 DEF PartAt
<1>6. CASE f = Own(v) /\ Top(v) # Own(v)
  <2>1. PICK d \in Awaited(v) : d \in Task /\ Alive(d) /\ Under(Own(d).path, Step(s))
    BY <1>6 DEF DescentInv
  <2>2. Under(Top(v).path, Own(d).path)
    BY <1>3, <2>1 DEF PlaceInv
  <2>3. Len(Own(d).path) \in Nat
    BY <2>1, StepIs
  <2>4. QED
    BY <1>1, <1>4, <1>6, <2>1, <2>2, <2>3 DEF Under
<1>7. QED
  BY <1>5, <1>6

(* A node of another task is above a new node r of s exactly if it is      *)
(* above the step of s.                                                    *)
Younger(s, r) ==
  /\ r \in Seq(Label) /\ Under(Top(s).path, r)
  /\ r[Len(Top(s).path) + 1][1] >= Top(s).num_children

LEMMA SameAbove ==
  ASSUME ShapeInv, FreshInv, ApartInv, DescentInv, PlaceInv,
         NEW s \in Task, Alive(s), NEW v \in Task, Placed(v), v # s,
         NEW f \in {Own(v), Top(v)}, NEW r, Younger(s, r)
  PROVE  /\ Under(f.path, r) <=> Under(f.path, Step(s))
         /\ Under(f.path, r) => r[Len(f.path) + 1] = Step(s)[Len(f.path) + 1]
<1> DEFINE T == Top(s).path  e == f.path
<1>1. /\ Step(s) \in Seq(Label) /\ Len(Step(s)) = Len(T) + 1
      /\ Under(T, Step(s)) /\ Len(T) \in Nat /\ Len(T) > 0
      /\ Top(s).num_children \in Nat
  BY StepIs
<1>2. Len(e) \in Nat /\ (v # 0 => Alive(v) /\ Under(e, Step(v)) /\ Step(v) \in Seq(Label))
  <2>1. CASE v = 0
    BY <2>1, MainNode
  <2>2. CASE v # 0
    BY <2>2, StepIs DEF Placed
  <2>3. QED
    BY <2>1, <2>2
<1>3. /\ r \in Seq(Label) /\ Under(T, r) /\ r[Len(T) + 1][1] >= Top(s).num_children
      /\ Len(r) \in Nat
  BY DEF Younger
<1>4. \A i \in 1 .. Len(T) : r[i] = Step(s)[i]
  BY <1>1, <1>3 DEF Under
<1>5. ASSUME Len(e) < Len(T)
      PROVE  /\ Under(e, r) <=> Under(e, Step(s))
             /\ r[Len(e) + 1] = Step(s)[Len(e) + 1]
  <2>1. \A i \in 1 .. Len(e) : r[i] = Step(s)[i]
    <3>1. \A i \in 1 .. Len(e) : i \in 1 .. Len(T)
      BY <1>1, <1>2, <1>5
    <3>2. QED
      BY <1>4, <3>1
  <2>2. Len(e) < Len(r) /\ Len(e) < Len(Step(s))
    BY <1>1, <1>2, <1>3, <1>5 DEF Under
  <2>3. r[Len(e) + 1] = Step(s)[Len(e) + 1]
    <3>1. Len(e) \in Nat /\ Len(T) \in Nat
      BY <1>1, <1>2
    <3>2. Len(e) + 1 \in 1 .. Len(T)
      BY ONLY <3>1, <1>5
    <3>3. QED
      BY <1>4, <3>2
  <2>4. QED
    BY <2>1, <2>2, <2>3 DEF Under
<1>6. ASSUME ~ Len(e) < Len(T), Under(e, Step(s)) PROVE FALSE
  <2>1. Len(e) = Len(T)
    BY <1>1, <1>2, <1>6 DEF Under
  <2>2. QED
    BY <1>6, <2>1, NodesDistinct
<1>7. ASSUME Len(e) = Len(T), Under(e, r) PROVE FALSE
  <2>1. Under(e, Step(s))
    BY <1>1, <1>3, <1>4, <1>7 DEF Under
  <2>2. QED
    BY <1>7, <2>1, NodesDistinct
<1>8. ASSUME Len(e) > Len(T), Under(e, r) PROVE FALSE
  <2>1. v # 0
    BY <1>1, <1>8, MainNode
  <2>2. Under(T, Step(v)) /\ Step(v)[Len(T) + 1] = r[Len(T) + 1]
    <3>1. Len(T) + 1 \in 1 .. Len(e) /\ \A i \in 1 .. Len(T) : i \in 1 .. Len(e)
      BY <1>1, <1>2, <1>8
    <3>2. /\ \A i \in 1 .. Len(e) : r[i] = e[i] /\ Step(v)[i] = e[i]
          /\ Len(e) < Len(Step(v))
      BY <1>2, <1>8, <2>1 DEF Under
    <3>3. Len(Step(v)) \in Nat
      BY <1>2, <2>1
    <3>4. QED
      BY <1>1, <1>2, <1>3, <1>8, <3>1, <3>2, <3>3 DEF Under
  <2>3. Step(v)[Len(T) + 1][1] < Top(s).num_children
    BY <1>2, <2>1, <2>2, AliveIsItem DEF FreshInv, FreshBelow, Placed
  <2>4. Step(v)[Len(T) + 1][1] \in Nat
    <3>1. Len(T) + 1 \in 1 .. Len(Step(v))
      BY <1>1, <1>2, <2>1, <2>2 DEF Under
    <3>2. QED
      BY <1>2, <2>1, <3>1, EntryIs
  <2>5. QED
    BY <1>1, <1>3, <2>2, <2>3, <2>4
<1>9. CASE Len(e) < Len(T)
  BY <1>5, <1>9
<1>10. CASE ~ Len(e) < Len(T)
  <2>1. Len(e) = Len(T) \/ Len(e) > Len(T)
    BY <1>1, <1>2, <1>10
  <2>2. ~ Under(e, r) /\ ~ Under(e, Step(s))
    BY <1>6, <1>7, <1>8, <1>10, <2>1
  <2>3. QED
    BY <2>2
<1>11. QED
  BY <1>9, <1>10

(* No item is younger than the step of a task below the same node.         *)
LEMMA OldNotYounger ==
  ASSUME ShapeInv, FreshInv, ItemsInv, NEW s \in Task, Alive(s),
         NEW u, NEW n, NEW p, Item(u, n, p)
  PROVE  ~ Younger(s, p)
<1>1. Under(Top(s).path, p) => p[Len(Top(s).path) + 1][1] < Top(s).num_children
  BY DEF FreshInv, FreshBelow, Placed
<1>2. SUFFICES ASSUME Younger(s, p) PROVE FALSE
  OBVIOUS
<1>3. /\ p \in Seq(Label) /\ Under(Top(s).path, p)
      /\ p[Len(Top(s).path) + 1][1] >= Top(s).num_children
  BY <1>2 DEF Younger
<1>4. Len(Top(s).path) + 1 \in 1 .. Len(p) /\ Top(s).num_children \in Nat
  <2>1. Len(Top(s).path) \in Nat /\ Top(s).num_children \in Nat
    BY StepIs
  <2>2. QED
    BY <1>3, <2>1 DEF Under
<1>5. p[Len(Top(s).path) + 1][1] \in Nat
  BY <1>3, <1>4, EntryIs
<1>6. QED
  BY <1>1, <1>3, <1>4, <1>5

LEMMA OneNotTwo == \A t : ~ (One(t) /\ Two(t))
<1>1. \A f, g, h : <<f>> # <<g, h>>
  <2>1. \A f, g, h : Len(<<f>>) = 1 /\ Len(<<g, h>>) = 2
    OBVIOUS
  <2>2. QED
    BY <2>1
<1>2. QED
  BY <1>1 DEF One, Two

(* The nodes a spawn makes.                                                *)
LEMMA ForkNodes ==
  ASSUME ShapeInv, NEW s \in Task, Alive(s), NEW c \in Task,
         NEW g, NEW j, SpawnsIn(s, c, g, j)
  PROVE  /\ g \in Seq(Label) /\ Len(g) \in Nat /\ j \in Nat
         /\ Own(c)'.path \in Seq(Label) /\ Len(Own(c)'.path) = Len(g) + 1
         /\ Own(c)'.path[1] = Step(s)[1] /\ Step(s)'[1] = Step(s)[1]
         /\ Step(c)'[1] = Step(s)[1]
         /\ Younger(s, Step(s)') /\ Younger(s, Step(c)')
         /\ \A p \in Seq(Label) : Under(Own(c)'.path, p) => Younger(s, p)
         /\ \A p \in Seq(Label) : Under(g, p) =>
              Younger(s, p) \/ (Two(s) /\ g = Top(s).path)
         /\ Under(Own(c)'.path, Step(c)') /\ ~ Under(Own(c)'.path, Step(s)')
         /\ Under(g, Step(s)') /\ Under(g, Own(c)'.path) /\ Under(g, Step(c)')
         /\ Under(Own(s).path, Step(s)') /\ Under(Own(s).path, Step(c)')
         /\ Step(s)'[Len(g) + 1] = <<j + 1, "STEP">>
         /\ Step(c)'[Len(g) + 1] = <<j, "ASYNC">>
         /\ Step(c)'[Len(g) + 2] = <<0, "STEP">>
         /\ Apart(Step(c)', Step(s)') /\ Parallel(Step(c)', Step(s)')
<1> DEFINE T == Top(s).path  A == Append(g, <<j, "ASYNC">>)  a == Top(s).num_children
<1>1. /\ T \in Seq(Label) /\ Len(T) \in Nat /\ Len(T) > 0 /\ a \in Nat
      /\ Step(s) \in Seq(Label) /\ Under(T, Step(s)) /\ Own(s).path \in Seq(Label)
      /\ Top(s) = Own(s) \/ Under(Own(s).path, T)
  BY StepIs
<1>2. /\ g \in Seq(Label) /\ j \in Nat /\ Len(g) \in Nat
      /\ Own(c)'.path = A /\ Step(c)' = Append(A, <<0, "STEP">>)
      /\ Step(s)' = Append(g, <<j + 1, "STEP">>)
  <2>1. StartsAt(Own(c)', A) /\ Top(c)' = Own(c)' /\ g \in Seq(Label) /\ j \in Nat
        /\ Top(s)'.step = Append(g, <<j + 1, "STEP">>)
    BY DEF SpawnsIn
  <2>2. Own(c)'.path = A /\ Top(c)'.step = Append(A, <<0, "STEP">>)
    BY <2>1 DEF StartsAt
  <2>3. QED
    BY <2>1, <2>2 DEF Step
<1>3. /\ A \in Seq(Label) /\ Len(A) = Len(g) + 1 /\ A[Len(g) + 1] = <<j, "ASYNC">>
      /\ Under(g, A)
  <2>1. <<j, "ASYNC">> \in Label
    BY <1>2, LabelFacts
  <2>2. QED
    BY <1>2, <2>1, AppendIs
<1> HIDE DEF A
<1>4. /\ Step(s)' \in Seq(Label) /\ Len(Step(s)') = Len(g) + 1
      /\ Step(s)'[Len(g) + 1] = <<j + 1, "STEP">> /\ Under(g, Step(s)')
  <2>1. j + 1 \in Nat
    BY <1>2
  <2>2. <<j + 1, "STEP">> \in Label
    BY <2>1, LabelFacts
  <2>3. QED
    BY <1>2, <2>2, AppendIs
<1>5. /\ Step(c)' \in Seq(Label) /\ Len(Step(c)') = Len(g) + 2
      /\ Step(c)'[Len(g) + 2] = <<0, "STEP">> /\ Under(A, Step(c)')
  <2>1. <<0, "STEP">> \in Label
    BY LabelFacts
  <2>2. PICK r : r = Append(A, <<0, "STEP">>)
    OBVIOUS
  <2>3. /\ r \in Seq(Label) /\ Len(r) = Len(A) + 1
        /\ r[Len(A) + 1] = <<0, "STEP">> /\ Under(A, r)
    BY <1>3, <2>1, <2>2, AppendIs
  <2>4. Step(c)' = r
    BY <1>2, <2>2
  <2>5. Len(A) + 1 = Len(g) + 2
    BY <1>2, <1>3
  <2>6. QED
    BY <2>3, <2>4, <2>5
<1> DEFINE C == Step(c)'  S == Step(s)'
<1> HIDE DEF C, S, T, a
<1>6. Under(g, C) /\ C[Len(g) + 1] = <<j, "ASYNC">>
  BY <1>2, <1>3, <1>5, UnderTrans DEF C
<1>7. /\ \/ Two(s) /\ g = T /\ j = a
         \/ One(s) /\ g = Append(T, <<a, "FINISH">>)
  BY DEF SpawnsIn, T, a
<1>8. ASSUME NEW p \in Seq(Label), Under(g, p)
      PROVE  /\ One(s) \/ (Two(s) /\ g = T /\ p[Len(g) + 1][1] >= j) => Younger(s, p)
             /\ (Two(s) /\ g = T) \/ Younger(s, p)
             /\ g = T \/ Under(T, g)
             /\ Under(T, p) /\ p[1] = Step(s)[1]
  <2>1. CASE Two(s) /\ g = T /\ j = a
    <3>1. Under(T, p) /\ p[1] = Step(s)[1]
      BY <1>1, <1>8, <2>1 DEF Under, T
    <3>2. QED
      BY <1>8, <2>1, <3>1, OneNotTwo DEF Younger, T, a
  <2>2. CASE One(s) /\ g = Append(T, <<a, "FINISH">>)
    <3>1. <<a, "FINISH">> \in Label
      BY <1>1, LabelFacts
    <3>2. Len(g) = Len(T) + 1 /\ g[Len(T) + 1] = <<a, "FINISH">> /\ Under(T, g)
      BY <1>1, <2>2, <3>1, AppendIs
    <3>3. Under(T, p) /\ p[Len(T) + 1] = <<a, "FINISH">>
      BY <1>1, <1>2, <1>8, <3>2, UnderTrans
    <3>4. p[1] = Step(s)[1]
      BY <1>1, <3>3 DEF Under, T
    <3>5. p[Len(T) + 1][1] = a
      BY <3>3
    <3>6. Younger(s, p)
      BY <1>1, <1>8, <3>3, <3>5 DEF Younger, T, a
    <3>7. QED
      BY <3>2, <3>3, <3>4, <3>6
  <2>3. QED
    BY <1>7, <2>1, <2>2
<1>9. Younger(s, S) /\ Younger(s, C) /\ S[1] = Step(s)[1] /\ C[1] = Step(s)[1]
  <2>1. S[Len(g) + 1][1] = j + 1 /\ C[Len(g) + 1][1] = j
    BY <1>4, <1>6 DEF S
  <2>2. S[Len(g) + 1][1] >= j /\ C[Len(g) + 1][1] >= j
    BY <1>2, <2>1
  <2>3. S \in Seq(Label) /\ C \in Seq(Label) /\ Under(g, S) /\ Under(g, C)
    BY <1>4, <1>5, <1>6 DEF S, C
  <2>4. QED
    BY <1>7, <1>8, <2>2, <2>3
<1>10. ASSUME NEW p \in Seq(Label), Under(A, p) PROVE Younger(s, p)
  <2>1. Under(g, p) /\ p[Len(g) + 1] = <<j, "ASYNC">>
    BY <1>2, <1>3, <1>10, UnderTrans
  <2>2. p[Len(g) + 1][1] = j
    BY <2>1
  <2>3. p[Len(g) + 1][1] >= j
    BY <1>2, <2>2
  <2>4. QED
    BY <1>7, <1>8, <2>1, <2>3
<1>11. Under(Own(s).path, S) /\ Under(Own(s).path, C)
  <2>1. Under(T, S) /\ Under(T, C) /\ S \in Seq(Label) /\ C \in Seq(Label)
    BY <1>9 DEF Younger, T
  <2>2. CASE Top(s) = Own(s)
    BY <2>1, <2>2 DEF T
  <2>3. CASE Under(Own(s).path, T)
    BY <1>1, <2>1, <2>3, UnderTrans
  <2>4. QED
    BY <1>1, <2>2, <2>3
<1>12. ~ Under(A, S)
  BY <1>2, <1>3, <1>4 DEF Under, S
<1>13. A[1] = Step(s)[1]
  BY <1>3, <1>5, <1>9 DEF Under, C
<1>14. Apart(C, S) /\ Parallel(C, S)
  <2> DEFINE k == Len(g) + 1
  <2>1. PartAt(C, S, k)
    <3>1. k \in 1 .. Len(C) /\ k <= Len(S)
      BY <1>2, <1>4, <1>5 DEF C, S
    <3>2. C[k][1] # S[k][1]
      BY <1>2, <1>4, <1>6 DEF S
    <3>3. \A i \in 1 .. k - 1 : C[i] = S[i]
      BY <1>2, <1>4, <1>6 DEF Under, S
    <3>4. QED
      BY <3>1, <3>2, <3>3 DEF PartAt
  <2>2. C \in Seq(Label) /\ S \in Seq(Label)
    BY <1>4, <1>5 DEF C, S
  <2>3. Parallel(C, S) <=> IF S[k][1] < C[k][1] THEN S[k][2] = "ASYNC" ELSE C[k][2] = "ASYNC"
    BY <2>1, <2>2, PartingIs
  <2>4. S[k][1] = j + 1 /\ C[k][1] = j /\ C[k][2] = "ASYNC"
    BY <1>4, <1>6 DEF S
  <2>5. ~ S[k][1] < C[k][1]
    BY <1>2, <2>4
  <2>6. QED
    BY <2>1, <2>3, <2>4, <2>5 DEF Apart
<1>15. \A p \in Seq(Label) : Under(g, p) => Younger(s, p) \/ (Two(s) /\ g = T)
  BY <1>8
<1>16. QED
  BY <1>2, <1>3, <1>4, <1>5, <1>6, <1>9, <1>10, <1>11, <1>12, <1>13, <1>14, <1>15
     DEF C, S, T

-----------------------------------------------------------------------------
(***************************************************************************)
(* A spawn by a task other than main.                                      *)
(***************************************************************************)

(* Segments end and tasks begin; nothing else becomes an item.             *)
LEMMA ItemGrows ==
  ASSUME Note \/ stamps' = stamps, NEW u, NEW n, NEW p, Item(u, n, p)'
  PROVE  /\ u # 0
         /\ \/ Stamp(u, n, p)
            \/ u \in Task /\ Alive(u)' /\ n = seg'[u] /\ p = Step(u)'
<1>1. u # 0 /\ (Stamp(u, n, p)' \/ (u \in Task /\ Alive(u)' /\ n = seg'[u] /\ p = Step(u)'))
  BY DEF Item
<1>2. CASE Stamp(u, n, p)'
  <2>1. PICK r \in stamps' : r[1] = u /\ r[2] = n /\ r[4] = p
    BY <1>2 DEF Stamp
  <2>2. CASE r \in stamps
    BY <1>1, <2>1, <2>2 DEF Stamp
  <2>3. CASE r \notin stamps
    <3>1. PICK t \in Task : /\ status'[t] = "running"
                            /\ r = <<t, seg'[t], current'[t], Last(frames'[t]).step>>
      BY <2>1, <2>3 DEF Note
    <3>2. t = u /\ seg'[t] = n /\ Last(frames'[t]).step = p
      BY <2>1, <3>1
    <3>3. Step(u)' = p
      BY <3>2 DEF Step, Top
    <3>4. QED
      BY <1>1, <3>1, <3>2, <3>3 DEF Alive
  <2>4. QED
    BY <2>2, <2>3
<1>3. QED
  BY <1>1, <1>2

(* What an event by other tasks leaves to a task.                          *)
Keeps(t) ==
  /\ Own(t)' = Own(t) /\ Top(t)' = Top(t) /\ Step(t)' = Step(t)
  /\ (One(t)' <=> One(t)) /\ (Two(t)' <=> Two(t)) /\ (Alive(t)' <=> Alive(t))
  /\ Awaited(t)' = Awaited(t) /\ seg'[t] = seg[t]
  /\ \A u, n : Knows(t, u, n)' <=> Knows(t, u, n)

(* A task whose frames and past do not change is left alone.               *)
LEMMA KeepsIs ==
  ASSUME NEW t \in Task, frames'[t] = frames[t], Alive(t)' <=> Alive(t),
         Awaited(t)' = Awaited(t), seg'[t] = seg[t], before'[t] = before[t]
  PROVE  Keeps(t)
<1>1. Own(t)' = Own(t) /\ Top(t)' = Top(t) /\ Step(t)' = Step(t)
  BY DEF Own, Top, Step
<1>2. (One(t)' <=> One(t)) /\ (Two(t)' <=> Two(t))
  BY DEF One, Two, OwnFrame, OpenFrame, FrameSet, Label
<1>3. PastOf(t)' = PastOf(t)
  BY DEF PastOf
<1>4. \A u, n : Knows(t, u, n)' <=> Knows(t, u, n)
  BY <1>3 DEF Knows
<1>5. QED
  BY <1>1, <1>2, <1>4 DEF Keeps

-----------------------------------------------------------------------------
(* A spawn by a task other than main, in a strict program.                 *)
Forks(s, c, g, j) ==
  /\ s # 0 /\ c # 0 /\ s # c
  /\ Alive(s) /\ Alive(s)' /\ ~ Alive(c) /\ Alive(c)'
  /\ frames'[0] = frames[0] /\ One(c)' /\ Two(s)'
  /\ \A t \in Task : t # s /\ t # c => Keeps(t)
  /\ SpawnsIn(s, c, g, j)
  /\ Awaited(s)' = Awaited(s) \cup {c} /\ Awaited(c)' = {}
  /\ \A t \in Task : Awaited(t) \subseteq Task \ {c}
  /\ seg[s] \in Nat /\ seg'[s] = seg[s] + 1 /\ seg[c] = 0 /\ seg'[c] = 1
  /\ \A u, n : /\ Knows(s, u, n)' <=> Knows(s, u, n) \/ (u = s /\ n = seg'[s])
               /\ Knows(c, u, n)' <=> Knows(s, u, n) \/ (u = c /\ n = seg'[c])
  /\ \A t \in Task : ~ Knows(t, s, seg'[s]) /\ ~ Knows(t, c, seg'[c])
  /\ before'[s] = PastOf(s) /\ before'[c] = PastOf(s)
  /\ \A t \in Task : t # s /\ t # c => before'[t] = before[t]
  /\ \A u, n, p : Item(u, n, p)' =>
       \/ Item(u, n, p) \/ (u = s /\ n = seg'[s] /\ p = Step(s)')
       \/ (u = c /\ n = seg'[c] /\ p = Step(c)')

(* A spawn is such a step.                                                 *)
LEMMA ForkIs ==
  ASSUME TypeInv, FullStacks, SegmentsInv, Exact, Note,
         NEW s \in Task, NEW p \in Task, NEW c \in Task, NEW next,
         SpawnEvent(s, p, c, next), s # 0, strict'
  PROVE  \E g, j : Forks(s, c, g, j)
<1>1. p = s /\ TreeSpawn(s, c) /\ ForkStep(s, s, c, next)
  BY DEF SpawnEvent, ForkStep
<1>2. ProgramTypeOK /\ FamilyInv
  BY DEF TypeInv, TypeOK
<1>3. /\ spawned \in Nat /\ c = spawned + 1 /\ s # c /\ c # 0
      /\ status[s] = "running" /\ status[c] = "unborn" /\ status'[c] = "ready"
      /\ status'[s] = next
      /\ \A t \in Task : t # c /\ t # s => status'[t] = status[t]
      /\ Awaited(c)' = {} /\ Awaited(s)' = Awaited(s) \cup {c}
      /\ \A t \in Task : t # s => Awaited(t)' = Awaited(t)
  BY <1>1, <1>2, ForkFacts
<1>4. next \in {"running", "waiting"}
  BY <1>1 DEF ForkStep
<1>5. One(s) \/ Two(s)
  BY <1>3 DEF FullStacks
<1>6. DOMAIN frames = Task /\ frames = [t \in Task |-> frames[t]]
  BY DEF FullStacks
<1>7. /\ Two(s)' /\ One(c)' /\ \A t \in Task : t # s /\ t # c => frames'[t] = frames[t]
  BY <1>1, <1>3, <1>5, <1>6, SpawnStack
<1>8. PICK g, j : SpawnsIn(s, c, g, j)
  BY <1>1, <1>3, <1>5, <1>6, SpawnValues
<1>9. /\ seg'[s] = seg[s] + 1 /\ seg'[c] = 1
      /\ before'[s] = before[s] \cup {<<s, seg[s]>>} /\ before'[c] = before'[s]
      /\ \A t \in Task : t # s /\ t # c => seg'[t] = seg[t] /\ before'[t] = before[t]
      /\ \A t \in Task : seg[t] \in Nat
  BY <1>1, ForkPast
<1>10. seg[c] = 0
  <2>1. ~ (c <= spawned)
    BY <1>3
  <2>2. QED
    BY <2>1 DEF SegmentsInv
<1>11. /\ Alive(s) /\ Alive(s)' /\ ~ Alive(c) /\ Alive(c)'
       /\ \A t \in Task : t # s /\ t # c => (Alive(t)' <=> Alive(t))
  BY <1>3, <1>4 DEF Alive
<1>12. \A t \in Task : t # s /\ t # c => Keeps(t)
  BY <1>3, <1>7, <1>9, <1>11, KeepsIs
<1>13. \A t \in Task : Awaited(t) \subseteq Task \ {c}
  <2>1. \A t, d \in Task : d \in Awaited(t) => d <= spawned
    BY <1>2 DEF FamilyInv, Parents
  <2>2. \A t \in Task : Awaited(t) \subseteq Task
    BY <1>2 DEF ProgramTypeOK, Awaited
  <2>3. ~ (c <= spawned)
    BY <1>3
  <2>4. QED
    BY <2>1, <2>2, <2>3
<1>14. \A t \in Task : ~ Knows(t, s, seg'[s]) /\ ~ Knows(t, c, seg'[c])
  <2>1. ~ (seg'[s] <= seg[s]) /\ ~ (seg'[c] <= seg[c]) /\ seg'[s] # seg[s] /\ seg'[c] # seg[c]
    BY <1>9, <1>10
  <2>2. \A t \in Task : <<s, seg'[s]>> \notin before[t] /\ <<c, seg'[c]>> \notin before[t]
    BY <2>1 DEF Exact
  <2>3. QED
    BY <2>1, <2>2 DEF Knows, PastOf
<1>15. PastOf(s)' = before'[s] \cup {<<s, seg'[s]>>} /\ PastOf(c)' = before'[c] \cup {<<c, seg'[c]>>}
       /\ before'[s] = PastOf(s) /\ before'[c] = PastOf(s)
  BY <1>9 DEF PastOf
<1>16. \A u, n : /\ Knows(s, u, n)' <=> Knows(s, u, n) \/ (u = s /\ n = seg'[s])
                 /\ Knows(c, u, n)' <=> Knows(s, u, n) \/ (u = c /\ n = seg'[c])
  BY <1>15 DEF Knows
<1>17. ASSUME NEW u, NEW n, NEW q, Item(u, n, q)'
       PROVE  \/ Item(u, n, q) \/ (u = s /\ n = seg'[s] /\ q = Step(s)')
              \/ (u = c /\ n = seg'[c] /\ q = Step(c)')
  <2>1. /\ u # 0
        /\ \/ Stamp(u, n, q)
           \/ u \in Task /\ Alive(u)' /\ n = seg'[u] /\ q = Step(u)'
    BY <1>17, ItemGrows
  <2>2. CASE u \in Task /\ u # s /\ u # c /\ Alive(u)' /\ n = seg'[u] /\ q = Step(u)'
    BY <1>12, <2>1, <2>2 DEF Keeps, Item
  <2>3. QED
    BY <2>1, <2>2 DEF Item
<1>18. frames'[0] = frames[0]
  BY <1>3, <1>7, TaskFacts
<1>19. Forks(s, c, g, j)
  BY <1>3, <1>7, <1>8, <1>9, <1>10, <1>11, <1>12, <1>13, <1>14, <1>15, <1>16, <1>17, <1>18
     DEF Forks
<1>20. QED
  BY <1>19

(* What is parallel to a younger node of s is what s does not know.        *)
LEMMA YoungerFollows ==
  ASSUME TreeInv, NEW s \in Task, Alive(s), NEW r, Younger(s, r),
         NEW u, NEW n, NEW p, Item(u, n, p)
  PROVE  Apart(p, r) /\ (Parallel(r, p) <=> ~ Knows(s, u, n))
<1>1. /\ ShapeInv /\ ItemsInv /\ FreshInv /\ ApartInv /\ VerdictInv
  BY DEF TreeInv
<1> DEFINE T == Top(s).path  a == Top(s).num_children - 1
<1>2. /\ T \in Seq(Label) /\ Len(T) \in Nat /\ a \in Nat /\ Top(s).num_children = a + 1
  BY <1>1, StepIs
<1>3. Step(s) = Append(T, <<a, "STEP">>)
  BY <1>1 DEF ShapeInv
<1>4. /\ r \in Seq(Label) /\ Under(T, r) /\ r[Len(T) + 1][1] >= Top(s).num_children
  BY DEF Younger
<1> HIDE DEF T, a
<1>5. a < r[Len(T) + 1][1]
  <2>1. Len(T) + 1 \in 1 .. Len(r)
    BY <1>2, <1>4 DEF Under
  <2>2. r[Len(T) + 1][1] \in Nat
    BY <1>4, <2>1, EntryIs
  <2>3. QED
    BY <1>2, <1>4, <2>2
<1>6. p \in Seq(Label)
  BY <1>1 DEF ItemsInv
<1>7. Under(T, p) => p[Len(T) + 1][1] <= a
  <2>1. SUFFICES ASSUME Under(T, p) PROVE p[Len(T) + 1][1] <= a
    OBVIOUS
  <2>2. Len(T) + 1 \in 1 .. Len(p)
    BY <1>2, <1>6, <2>1 DEF Under
  <2>3. p[Len(T) + 1][1] \in Nat
    BY <1>6, <2>2, EntryIs
  <2>4. p[Len(T) + 1][1] < Top(s).num_children
    BY <1>1, <2>1 DEF FreshInv, FreshBelow, Placed, T
  <2>5. QED
    BY <1>2, <2>3, <2>4
<1>8. p = Step(s) \/ Apart(p, Step(s))
  BY <1>1 DEF ApartInv
<1>9. Apart(p, r) /\ (Parallel(r, p) <=> p # Step(s) /\ Parallel(Step(s), p))
  BY <1>2, <1>3, <1>4, <1>5, <1>6, <1>7, <1>8, FollowStep, Zenon
<1>10. Knows(s, u, n) <=> p = Step(s) \/ ~ Parallel(Step(s), p)
  BY <1>1 DEF VerdictInv
<1>11. QED
  BY <1>9, <1>10

(* No task knows what another one is doing.                                *)
LEMMA OthersUnknown ==
  ASSUME UnknownInv, NEW s \in Task, NEW t \in Task, Alive(t), s # t
  PROVE  ~ Knows(s, t, seg[t])
BY DEF UnknownInv, Knows, PastOf

(* The items after a spawn, and what they are to the old ones.             *)
LEMMA ForkView ==
  ASSUME TreeInv, NEW s \in Task, NEW c \in Task, NEW g, NEW j, Forks(s, c, g, j)
  PROVE  /\ \A r \in {Step(s)', Step(c)'} : r \in Seq(Label) /\ Younger(s, r)
         /\ \A u, n, p : Item(u, n, p) =>
              /\ p \in Seq(Label) /\ u \in Task /\ n \in Nat /\ 0 < n /\ n <= seg[u]
              /\ ~ (u = s /\ n = seg'[s]) /\ u # c
              /\ ~ Younger(s, p) /\ ~ Under(Own(c)'.path, p)
              /\ Under(g, p) => Two(s) /\ g = Top(s).path
         /\ \A t \in Task : t # s /\ t # c => Keeps(t)
         /\ \A t \in Task : Placed(t)' => t = c \/ Placed(t)
         /\ \A t \in Task : Placed(t) => t # c /\ Placed(t)' /\ Own(t)'.path = Own(t).path
<1>1. /\ ShapeInv /\ ItemsInv /\ FreshInv /\ SpawnsIn(s, c, g, j) /\ Alive(s) /\ Alive(s)'
      /\ ~ Alive(c) /\ Alive(c)' /\ c # 0
      /\ \A t \in Task : t # s /\ t # c => Keeps(t)
      /\ seg[s] \in Nat /\ seg'[s] = seg[s] + 1 /\ seg[c] = 0
  BY DEF TreeInv, Forks
<1>2. /\ Younger(s, Step(s)') /\ Younger(s, Step(c)')
      /\ \A p \in Seq(Label) : Under(Own(c)'.path, p) => Younger(s, p)
      /\ \A p \in Seq(Label) : Under(g, p) => Younger(s, p) \/ (Two(s) /\ g = Top(s).path)
  BY <1>1, ForkNodes
<1>3. \A r : Younger(s, r) => r \in Seq(Label)
  BY DEF Younger
<1>4. ASSUME NEW u, NEW n, NEW p, Item(u, n, p)
      PROVE  /\ p \in Seq(Label) /\ u \in Task /\ n \in Nat /\ 0 < n /\ n <= seg[u]
             /\ ~ (u = s /\ n = seg'[s]) /\ u # c
             /\ ~ Younger(s, p) /\ ~ Under(Own(c)'.path, p)
             /\ Under(g, p) => Two(s) /\ g = Top(s).path
  <2>1. p \in Seq(Label) /\ u \in Task /\ n \in Nat /\ 0 < n /\ n <= seg[u]
    BY <1>1, <1>4 DEF ItemsInv
  <2>2. ~ (u = s /\ n = seg'[s]) /\ u # c
    BY <1>1, <2>1
  <2>3. ~ Younger(s, p)
    BY <1>1, <1>4, OldNotYounger
  <2>4. QED
    BY <1>2, <2>1, <2>2, <2>3
<1>5. Own(s)'.path = Own(s).path
  BY <1>1 DEF SpawnsIn
<1>6. \A t \in Task : Placed(t)' => t = c \/ Placed(t)
  BY <1>1 DEF Placed, Keeps
<1>7. \A t \in Task : Placed(t) => t # c /\ Placed(t)' /\ Own(t)'.path = Own(t).path
  BY <1>1, <1>5 DEF Placed, Keeps
<1>8. QED
  BY <1>1, <1>2, <1>3, <1>4, <1>6, <1>7

(* The parts of the invariant, one by one.                                 *)
LEMMA ForkKeepsVerdict ==
  ASSUME TreeInv, NEW s \in Task, NEW c \in Task, NEW g, NEW j, Forks(s, c, g, j)
  PROVE  ApartInv' /\ VerdictInv'
<1>1. /\ s # c /\ Alive(s) /\ SpawnsIn(s, c, g, j)
      /\ \A t \in Task : t # s /\ t # c => Keeps(t)
      /\ \A u, n : /\ Knows(s, u, n)' <=> Knows(s, u, n) \/ (u = s /\ n = seg'[s])
                   /\ Knows(c, u, n)' <=> Knows(s, u, n) \/ (u = c /\ n = seg'[c])
      /\ \A t \in Task : ~ Knows(t, s, seg'[s]) /\ ~ Knows(t, c, seg'[c])
      /\ \A u, n, p : Item(u, n, p)' =>
           \/ Item(u, n, p) \/ (u = s /\ n = seg'[s] /\ p = Step(s)')
           \/ (u = c /\ n = seg'[c] /\ p = Step(c)')
  BY DEF Forks
<1>2. /\ \A r \in {Step(s)', Step(c)'} : r \in Seq(Label) /\ Younger(s, r)
      /\ \A u, n, p : Item(u, n, p) =>
           p \in Seq(Label) /\ ~ (u = s /\ n = seg'[s]) /\ u # c
  BY ForkView
<1>3. /\ Apart(Step(c)', Step(s)') /\ Parallel(Step(c)', Step(s)')
  BY <1>1, ForkNodes DEF TreeInv
<1>4. /\ Apart(Step(s)', Step(c)') /\ Parallel(Step(s)', Step(c)') /\ Step(s)' # Step(c)'
  BY <1>2, <1>3, ApartBoth
<1> DEFINE Fits(u, n, p, t) ==
      /\ (p = Step(t)' /\ u = t /\ n = seg'[t]) \/ Apart(p, Step(t)')
      /\ Knows(t, u, n)' <=> p = Step(t)' \/ ~ Parallel(Step(t)', p)
<1>5. ASSUME NEW u, NEW n, NEW p, Item(u, n, p), NEW t \in {s, c} PROVE Fits(u, n, p, t)
  <2>1. Apart(p, Step(t)') /\ (Parallel(Step(t)', p) <=> ~ Knows(s, u, n))
    BY <1>1, <1>2, <1>5, YoungerFollows
  <2>2. p # Step(t)'
    BY <1>2, <1>5, <2>1, ApartBoth
  <2>3. Knows(t, u, n)' <=> Knows(s, u, n)
    BY <1>1, <1>2, <1>5
  <2>4. QED
    BY <2>1, <2>2, <2>3
<1>6. ASSUME NEW u, NEW n, NEW p, Item(u, n, p), NEW t \in Task, Alive(t)', t # s, t # c
      PROVE  Fits(u, n, p, t)
  <2>1. /\ Alive(t) /\ Step(t)' = Step(t) /\ seg'[t] = seg[t]
        /\ Knows(t, u, n)' <=> Knows(t, u, n)
    BY <1>1, <1>6 DEF Keeps
  <2>2. /\ (p = Step(t) /\ u = t /\ n = seg[t]) \/ Apart(p, Step(t))
        /\ Knows(t, u, n) <=> p = Step(t) \/ ~ Parallel(Step(t), p)
    BY <1>6, <2>1 DEF TreeInv, ApartInv, VerdictInv
  <2>3. QED
    BY <2>1, <2>2
<1>7. ASSUME NEW v \in {s, c}, NEW n, n = seg'[v], NEW p, p = Step(v)', NEW t \in {s, c}
      PROVE  Fits(v, n, p, t)
  <2>1. v = t => Knows(t, v, n)'
    BY <1>1, <1>7
  <2>2. v # t => ~ Knows(t, v, n)'
    BY <1>1, <1>7
  <2>3. v # t => Apart(p, Step(t)') /\ Parallel(Step(t)', p) /\ p # Step(t)'
    BY <1>1, <1>3, <1>4, <1>7
  <2>4. QED
    BY <1>7, <2>1, <2>2, <2>3
<1>8. ASSUME NEW v \in {s, c}, NEW n, n = seg'[v], NEW p, p = Step(v)',
             NEW t \in Task, Alive(t)', t # s, t # c
      PROVE  Fits(v, n, p, t)
  <2>0. Keeps(t)
    BY <1>1, <1>8
  <2>1. Alive(t) /\ Step(t)' = Step(t) /\ (Knows(t, v, n)' <=> Knows(t, v, n))
    BY <1>8, <2>0 DEF Keeps
  <2>2. Item(t, seg[t], Step(t))
    BY <2>1, AliveIsItem
  <2>3. ~ Knows(s, t, seg[t])
    BY <1>8, <2>1, OthersUnknown DEF TreeInv
  <2>4. Younger(s, p) /\ p \in Seq(Label) /\ Step(t) \in Seq(Label)
    BY <1>2, <1>8, <2>2
  <2>5. Apart(Step(t), p) /\ Parallel(p, Step(t))
    BY <1>1, <2>2, <2>3, <2>4, YoungerFollows
  <2>6. Apart(p, Step(t)) /\ Parallel(Step(t), p) /\ p # Step(t)
    BY <2>4, <2>5, ApartBoth
  <2>7. ~ Knows(t, v, n)
    BY <1>1, <1>8
  <2>8. QED
    BY <2>1, <2>6, <2>7
<1>9. ASSUME NEW u, NEW n, NEW p, Item(u, n, p)', NEW t \in Task, Alive(t)'
      PROVE  Fits(u, n, p, t)
  <2>1. CASE Item(u, n, p)
    BY <1>5, <1>6, <1>9, <2>1
  <2>2. CASE u \in {s, c} /\ n = seg'[u] /\ p = Step(u)'
    BY <1>7, <1>8, <1>9, <2>2
  <2>3. QED
    BY <1>1, <1>9, <2>1, <2>2
<1>10. QED
  BY <1>9 DEF ApartInv, VerdictInv

(* Another task has above the new nodes what it has above the step of s.   *)
LEMMA ForkAbove ==
  ASSUME TreeInv, NEW s \in Task, NEW c \in Task, NEW g, NEW j, Forks(s, c, g, j),
         NEW t \in Task, Placed(t), t # s, NEW f \in {Own(t), Top(t)},
         NEW r \in {Step(s)', Step(c)'}
  PROVE  /\ Under(f.path, r) <=> Under(f.path, Step(s))
         /\ Under(f.path, r) => r[Len(f.path) + 1] = Step(s)[Len(f.path) + 1]
<1>1. ShapeInv /\ FreshInv /\ ApartInv /\ DescentInv /\ PlaceInv /\ Alive(s)
  BY DEF TreeInv, Forks
<1>2. Younger(s, r)
  BY ForkView
<1>3. QED
  BY <1>1, <1>2, SameAbove

(* The new nodes below the node of s.                                      *)
LEMMA ForkBelowOwn ==
  ASSUME TreeInv, NEW s \in Task, NEW c \in Task, NEW g, NEW j, Forks(s, c, g, j),
         NEW r \in {Step(s)', Step(c)'}, Under(Own(s).path, r)
  PROVE  r[Len(Own(s).path) + 1][1] < Own(s)'.num_children
<1>1. /\ ShapeInv /\ Alive(s) /\ SpawnsIn(s, c, g, j)
  BY DEF TreeInv, Forks
<1>2. /\ Top(s).path \in Seq(Label) /\ Len(Top(s).path) \in Nat
      /\ Own(s).num_children \in Nat /\ Len(Own(s).path) \in Nat
      /\ Under(Top(s).path, Step(s)) /\ Top(s).num_children \in Nat
      /\ \/ Top(s) = Own(s)
         \/ /\ Under(Own(s).path, Top(s).path)
            /\ Len(Top(s).path) = Len(Own(s).path) + 1
            /\ Step(s)[Len(Own(s).path) + 1] = <<Own(s).num_children - 1, "FINISH">>
  BY <1>1, StepIs
<1>3. Under(g, r) /\ Under(Top(s).path, r) /\ r \in Seq(Label)
  <2>1. Under(g, r)
    BY <1>1, ForkNodes
  <2>2. Younger(s, r)
    BY ForkView
  <2>3. QED
    BY <2>1, <2>2 DEF Younger
<1>4. \/ One(s) /\ Top(s) = Own(s)
      \/ Two(s) /\ Own(s).num_children > 0
         /\ Top(s).path = Append(Own(s).path, <<Own(s).num_children - 1, "FINISH">>)
  BY <1>1 DEF ShapeInv
<1>5. CASE Two(s) /\ Own(s).num_children > 0
           /\ Top(s).path = Append(Own(s).path, <<Own(s).num_children - 1, "FINISH">>)
  <2>1. Own(s).num_children - 1 \in Nat /\ Own(s).path \in Seq(Label)
    BY <1>1, <1>2, <1>5, StepIs
  <2>2. <<Own(s).num_children - 1, "FINISH">> \in Label
    BY <2>1, LabelFacts
  <2>3. /\ Len(Top(s).path) = Len(Own(s).path) + 1
        /\ Top(s).path[Len(Own(s).path) + 1] = <<Own(s).num_children - 1, "FINISH">>
    BY <1>5, <2>1, <2>2, AppendIs
  <2>4. r[Len(Own(s).path) + 1] = <<Own(s).num_children - 1, "FINISH">>
    <3>1. Len(Own(s).path) + 1 \in 1 .. Len(Top(s).path)
      BY <1>2, <2>3
    <3>2. r[Len(Own(s).path) + 1] = Top(s).path[Len(Own(s).path) + 1]
      BY <1>3, <3>1 DEF Under
    <3>3. QED
      BY <2>3, <3>2
  <2>5. Own(s)'.num_children = Own(s).num_children
    BY <1>1, <1>5, OneNotTwo DEF SpawnsIn
  <2>6. r[Len(Own(s).path) + 1][1] = Own(s).num_children - 1
    BY <2>4
  <2>7. QED
    BY <1>2, <2>5, <2>6
<1>6. CASE One(s) /\ Top(s) = Own(s)
  <2>1. /\ g = Append(Own(s).path, <<Own(s).num_children, "FINISH">>)
        /\ Own(s)'.num_children = Own(s).num_children + 1
    BY <1>1, <1>6, OneNotTwo DEF SpawnsIn
  <2>2. <<Own(s).num_children, "FINISH">> \in Label /\ Own(s).path \in Seq(Label)
    BY <1>1, <1>2, LabelFacts, StepIs
  <2>3. /\ Len(g) = Len(Own(s).path) + 1
        /\ g[Len(Own(s).path) + 1] = <<Own(s).num_children, "FINISH">>
    BY <2>1, <2>2, AppendIs
  <2>4. r[Len(Own(s).path) + 1] = <<Own(s).num_children, "FINISH">>
    BY <1>2, <1>3, <2>3 DEF Under
  <2>5. r[Len(Own(s).path) + 1][1] = Own(s).num_children
    BY <2>4
  <2>6. QED
    BY <1>2, <2>1, <2>5
<1>7. QED
  BY <1>4, <1>5, <1>6

LEMMA ForkKeepsFresh ==
  ASSUME TreeInv, NEW s \in Task, NEW c \in Task, NEW g, NEW j, Forks(s, c, g, j)
  PROVE  FreshInv'
<1>1. /\ s # c /\ Alive(s) /\ SpawnsIn(s, c, g, j) /\ s # 0
      /\ \A t \in Task : t # s /\ t # c => Keeps(t)
      /\ \A u, n, p : Item(u, n, p)' =>
           \/ Item(u, n, p) \/ (u = s /\ n = seg'[s] /\ p = Step(s)')
           \/ (u = c /\ n = seg'[c] /\ p = Step(c)')
      /\ ShapeInv /\ FreshInv
  BY DEF Forks, TreeInv
<1>2. /\ \A u, n, p : Item(u, n, p) =>
           /\ p \in Seq(Label) /\ ~ Under(Own(c)'.path, p)
           /\ Under(g, p) => Two(s) /\ g = Top(s).path
      /\ \A t \in Task : Placed(t)' => t = c \/ Placed(t)
  BY ForkView
<1>3. /\ g \in Seq(Label) /\ Len(g) \in Nat /\ j \in Nat
      /\ Own(c)'.path \in Seq(Label) /\ Len(Own(c)'.path) = Len(g) + 1
      /\ ~ Under(Own(c)'.path, Step(s)')
      /\ Step(s)'[Len(g) + 1] = <<j + 1, "STEP">>
      /\ Step(c)'[Len(g) + 1] = <<j, "ASYNC">>
      /\ Step(c)'[Len(g) + 2] = <<0, "STEP">>
  BY <1>1, ForkNodes
<1>4. Item(s, seg[s], Step(s))
  BY <1>1, AliveIsItem
<1> DEFINE Below(f, p) == Under(f.path, p) => p[Len(f.path) + 1][1] < f.num_children
<1>5. \A t \in Task : Placed(t) => \A f \in {Own(t), Top(t)} :
        \A u, n, p : Item(u, n, p) => Below(f, p)
  BY <1>1 DEF FreshInv, FreshBelow
<1>6. ASSUME NEW t \in Task, Placed(t), t # s, t # c, NEW f \in {Own(t), Top(t)},
             NEW u, NEW n, NEW p, Item(u, n, p)'
      PROVE  Below(f, p)
  <2>1. CASE Item(u, n, p)
    BY <1>5, <1>6, <2>1
  <2>2. CASE p \in {Step(s)', Step(c)'}
    <3>1. /\ Under(f.path, p) <=> Under(f.path, Step(s))
          /\ Under(f.path, p) => p[Len(f.path) + 1] = Step(s)[Len(f.path) + 1]
      BY <1>6, <2>2, ForkAbove
    <3>2. Below(f, Step(s))
      BY <1>4, <1>5, <1>6
    <3>3. QED
      BY <3>1, <3>2
  <2>3. QED
    BY <1>1, <1>6, <2>1, <2>2
<1>7. ASSUME NEW u, NEW n, NEW p, Item(u, n, p)'
      PROVE  Below(Own(c)', p) /\ Below(Top(c)', p)
  <2>1. Own(c)'.num_children = 1 /\ Top(c)' = Own(c)'
    BY <1>1 DEF SpawnsIn, StartsAt
  <2>2. Under(Own(c)'.path, p) => p = Step(c)'
    BY <1>1, <1>2, <1>3, <1>7
  <2>3. Step(c)'[Len(Own(c)'.path) + 1] = <<0, "STEP">>
    <3>1. Len(Own(c)'.path) + 1 = Len(g) + 2
      BY <1>3
    <3>2. QED
      BY <1>3, <3>1
  <2>4. Step(c)'[Len(Own(c)'.path) + 1][1] = 0
    BY <2>3
  <2>5. Step(c)'[Len(Own(c)'.path) + 1][1] < Own(c)'.num_children
    BY <2>1, <2>4
  <2>6. QED
    BY <2>1, <2>2, <2>5
<1>8. ASSUME NEW u, NEW n, NEW p, Item(u, n, p)' PROVE Below(Top(s)', p)
  <2>1. Top(s)'.path = g /\ Top(s)'.num_children = j + 2
    BY <1>1 DEF SpawnsIn
  <2>2. CASE Item(u, n, p)
    <3>1. SUFFICES ASSUME Under(g, p) PROVE p[Len(g) + 1][1] < j + 2
      BY <2>1
    <3>2. Two(s) /\ g = Top(s).path
      BY <1>2, <2>2, <3>1
    <3>3. j = Top(s).num_children
      BY <1>1, <3>2, OneNotTwo DEF SpawnsIn
    <3>4. p[Len(g) + 1][1] < j
      BY <1>1, <1>5, <2>2, <3>1, <3>2, <3>3 DEF Placed
    <3>5. p[Len(g) + 1][1] \in Nat
      <4>1. Len(g) + 1 \in 1 .. Len(p)
        BY <1>2, <1>3, <2>2, <3>1 DEF Under
      <4>2. p \in Seq(Label)
        BY <1>2, <2>2
      <4>3. QED
        BY <4>1, <4>2, EntryIs
    <3>6. QED
      BY <1>3, <3>4, <3>5
  <2>3. CASE p = Step(s)'
    <3>1. p[Len(g) + 1][1] = j + 1
      BY <1>3, <2>3
    <3>2. QED
      BY <1>3, <2>1, <3>1
  <2>4. CASE p = Step(c)'
    <3>1. p[Len(g) + 1][1] = j
      BY <1>3, <2>4
    <3>2. QED
      BY <1>3, <2>1, <3>1
  <2>5. QED
    BY <1>1, <1>8, <2>2, <2>3, <2>4
<1>9. ASSUME NEW u, NEW n, NEW p, Item(u, n, p)' PROVE Below(Own(s)', p)
  <2>1. /\ Own(s)'.path = Own(s).path /\ Own(s).num_children \in Nat
        /\ Own(s)'.num_children \in {Own(s).num_children, Own(s).num_children + 1}
        /\ Own(s).path \in Seq(Label) /\ Len(Own(s).path) \in Nat
    BY <1>1, StepIs DEF SpawnsIn
  <2>2. CASE Item(u, n, p)
    <3>1. SUFFICES ASSUME Under(Own(s).path, p)
                   PROVE  p[Len(Own(s).path) + 1][1] < Own(s)'.num_children
      BY <2>1
    <3>2. p[Len(Own(s).path) + 1][1] < Own(s).num_children
      BY <1>1, <1>5, <2>2, <3>1 DEF Placed
    <3>3. p[Len(Own(s).path) + 1][1] \in Nat
      <4>1. Len(Own(s).path) + 1 \in 1 .. Len(p)
        BY <1>2, <2>1, <2>2, <3>1 DEF Under
      <4>2. p \in Seq(Label)
        BY <1>2, <2>2
      <4>3. QED
        BY <4>1, <4>2, EntryIs
    <3>4. QED
      BY <2>1, <3>2, <3>3
  <2>3. CASE p \in {Step(s)', Step(c)'}
    <3>1. Under(Own(s).path, p) => p[Len(Own(s).path) + 1][1] < Own(s)'.num_children
      BY <2>3, ForkBelowOwn
    <3>2. QED
      BY <2>1, <3>1
  <2>4. QED
    BY <1>1, <1>9, <2>2, <2>3
<1>10. ASSUME NEW t \in Task, Placed(t)', NEW u, NEW n, NEW p, Item(u, n, p)'
       PROVE  Below(Own(t)', p) /\ Below(Top(t)', p)
  <2>1. CASE t # s /\ t # c
    <3>1. Placed(t) /\ Own(t)' = Own(t) /\ Top(t)' = Top(t)
      BY <1>1, <1>2, <1>10, <2>1 DEF Keeps
    <3>2. QED
      BY <1>6, <1>10, <2>1, <3>1
  <2>2. QED
    BY <1>7, <1>8, <1>9, <1>10, <2>1
<1>11. QED
  BY <1>10 DEF FreshInv, FreshBelow

LEMMA ForkKeepsDescent ==
  ASSUME TreeInv, NEW s \in Task, NEW c \in Task, NEW g, NEW j, Forks(s, c, g, j)
  PROVE  DescentInv'
<1>1. /\ s # c /\ Alive(s) /\ Alive(s)' /\ Alive(c)' /\ SpawnsIn(s, c, g, j)
      /\ Awaited(s)' = Awaited(s) \cup {c}
      /\ \A t \in Task : Awaited(t) \subseteq Task \ {c}
      /\ ShapeInv /\ DescentInv /\ ~ Alive(c)
  BY DEF Forks, TreeInv
<1>2. /\ \A u, n, p : Item(u, n, p) => ~ Under(Own(c)'.path, p)
      /\ \A t \in Task : t # s /\ t # c => Keeps(t)
      /\ \A t \in Task : Placed(t)' => t = c \/ Placed(t)
      /\ \A t \in Task : Placed(t) => t # c /\ Placed(t)' /\ Own(t)'.path = Own(t).path
  BY ForkView
<1>3. /\ ~ Under(Own(c)'.path, Step(s)') /\ Under(Own(c)'.path, Step(c)')
      /\ Under(Own(s).path, Step(s)') /\ Under(Own(s).path, Step(c)')
  BY <1>1, ForkNodes
<1>4. ASSUME NEW d \in Task, Alive(d)
      PROVE  d # c /\ Alive(d)' /\ Own(d)'.path = Own(d).path
  BY <1>1, <1>2, <1>4 DEF Placed, Keeps
<1>5. \A t \in Task : t # c => Awaited(t) \subseteq Awaited(t)'
  BY <1>1, <1>2 DEF Keeps
<1>6. ASSUME NEW t \in Task, Placed(t)', NEW v \in Task, Alive(v)', v # t,
             Under(Own(t)'.path, Step(v)')
      PROVE  \E d \in Awaited(t)' : d \in Task /\ Alive(d)' /\ Under(Own(d)'.path, Step(v)')
  <2>1. CASE t = c
    <3>1. v # s /\ v # c
      BY <1>3, <1>6, <2>1
    <3>2. Alive(v) /\ Step(v)' = Step(v)
      BY <1>2, <1>6, <3>1 DEF Keeps
    <3>3. QED
      BY <1>2, <1>6, <2>1, <3>2, AliveIsItem
  <2>2. CASE t # c /\ v # s /\ v # c
    <3>1. Alive(v) /\ Step(v)' = Step(v) /\ Placed(t) /\ Own(t)'.path = Own(t).path
      BY <1>2, <1>6, <2>2 DEF Keeps
    <3>2. PICK d \in Awaited(t) : d \in Task /\ Alive(d) /\ Under(Own(d).path, Step(v))
      BY <1>1, <1>6, <3>1 DEF DescentInv
    <3>3. QED
      BY <1>4, <1>5, <2>2, <3>1, <3>2
  <2>3. CASE t = s /\ v = c
    BY <1>1, <1>3, <2>3
  <2>4. CASE t # c /\ t # s /\ v \in {s, c}
    <3>1. Placed(t) /\ Own(t)'.path = Own(t).path
      BY <1>2, <1>6, <2>4
    <3>2. Under(Own(t).path, Step(s))
      <4>1. Under(Own(t).path, Step(v)') <=> Under(Own(t).path, Step(s))
        BY <2>4, <3>1, ForkAbove
      <4>2. QED
        BY <1>6, <3>1, <4>1
    <3>3. PICK d \in Awaited(t) : d \in Task /\ Alive(d) /\ Under(Own(d).path, Step(s))
      BY <1>1, <2>4, <3>1, <3>2 DEF DescentInv
    <3>4. Under(Own(d).path, Step(v)')
      <4>1. CASE d = s
        BY <1>3, <2>4, <4>1
      <4>2. CASE d # s
        BY <2>4, <3>3, <4>2, ForkAbove DEF Placed
      <4>3. QED
        BY <4>1, <4>2
    <3>5. Alive(d)' /\ Own(d)'.path = Own(d).path /\ d \in Awaited(t)'
      BY <1>4, <1>5, <2>4, <3>3
    <3>6. QED
      BY <3>3, <3>4, <3>5
  <2>5. QED
    BY <1>6, <2>1, <2>2, <2>3, <2>4
<1>7. QED
  BY <1>6 DEF DescentInv

LEMMA ForkKeepsPlace ==
  ASSUME TreeInv, NEW s \in Task, NEW c \in Task, NEW g, NEW j, Forks(s, c, g, j)
  PROVE  PlaceInv'
<1>1. /\ s # c /\ Alive(s) /\ SpawnsIn(s, c, g, j)
      /\ Awaited(s)' = Awaited(s) \cup {c} /\ Awaited(c)' = {}
      /\ \A t \in Task : Awaited(t) \subseteq Task \ {c}
      /\ \A t \in Task : t # s /\ t # c => Keeps(t)
      /\ ShapeInv /\ PlaceInv
  BY DEF Forks, TreeInv
<1>2. \A t \in Task : Placed(t) => t # c /\ Own(t)'.path = Own(t).path
  BY ForkView
<1>3. Under(g, Own(c)'.path)
  BY <1>1, ForkNodes
<1>4. \A d \in Task : d # c /\ Alive(d)' => Alive(d) /\ Own(d)'.path = Own(d).path
  BY <1>1, <1>2 DEF Placed, Keeps
<1>5. ASSUME NEW t \in Task, Alive(t)', NEW d \in Awaited(t)', Alive(d)'
      PROVE  Under(Top(t)'.path, Own(d)'.path)
  <2>1. CASE t = s /\ d = c
    BY <1>1, <1>3, <2>1 DEF SpawnsIn
  <2>2. CASE t = s /\ d # c
    <3>1. d \in Awaited(s) /\ d \in Task
      BY <1>1, <1>5, <2>2
    <3>2. Top(s)'.path = Top(s).path
      BY <1>1, <3>1, OneNotTwo DEF ShapeInv, SpawnsIn
    <3>3. Alive(d) /\ Own(d)'.path = Own(d).path
      BY <1>4, <1>5, <2>2, <3>1
    <3>4. QED
      BY <1>1, <2>2, <3>1, <3>2, <3>3 DEF PlaceInv
  <2>3. CASE t # s /\ t # c
    <3>1. d \in Awaited(t) /\ d \in Task /\ d # c /\ Alive(t) /\ Top(t)' = Top(t)
      BY <1>1, <1>5, <2>3 DEF Keeps
    <3>2. Alive(d) /\ Own(d)'.path = Own(d).path
      BY <1>4, <1>5, <3>1
    <3>3. QED
      BY <1>1, <3>1, <3>2 DEF PlaceInv
  <2>4. QED
    BY <1>1, <1>5, <2>1, <2>2, <2>3
<1>6. QED
  BY <1>5 DEF PlaceInv

LEMMA ForkKeepsComplete ==
  ASSUME TreeInv, NEW s \in Task, NEW c \in Task, NEW g, NEW j, Forks(s, c, g, j),
         DescentInv'
  PROVE  CompleteInv'
<1>1. /\ s # c /\ Alive(s) /\ Alive(s)' /\ Alive(c)'
      /\ Awaited(s)' = Awaited(s) \cup {c}
      /\ \A t \in Task : Awaited(t) \subseteq Task \ {c}
      /\ \A u, n : /\ Knows(s, u, n)' <=> Knows(s, u, n) \/ (u = s /\ n = seg'[s])
                   /\ Knows(c, u, n)' <=> Knows(s, u, n) \/ (u = c /\ n = seg'[c])
      /\ \A u, n, p : Item(u, n, p)' =>
           \/ Item(u, n, p) \/ (u = s /\ n = seg'[s] /\ p = Step(s)')
           \/ (u = c /\ n = seg'[c] /\ p = Step(c)')
      /\ CompleteInv
  BY DEF Forks, TreeInv
<1>2. /\ \A u, n, p : Item(u, n, p) => ~ Under(Own(c)'.path, p)
      /\ \A t \in Task : t # s /\ t # c => Keeps(t)
      /\ \A t \in Task : Placed(t)' => t = c \/ Placed(t)
      /\ \A t \in Task : Placed(t) => t # c /\ Placed(t)' /\ Own(t)'.path = Own(t).path
  BY ForkView
<1>3. \A t \in Task : t # c => /\ Awaited(t) \subseteq Awaited(t)'
                               /\ \A u, n : Knows(t, u, n) => Knows(t, u, n)'
                               /\ Alive(t) => Alive(t)' /\ Own(t)'.path = Own(t).path
  BY <1>1, <1>2 DEF Keeps, Placed
<1>4. ASSUME NEW t \in Task, Placed(t)', NEW u, NEW n, NEW p, Item(u, n, p)',
             Under(Own(t)'.path, p)
      PROVE  \/ Knows(t, u, n)'
             \/ \E d \in Awaited(t)' : \/ Knows(d, u, n)'
                                       \/ Alive(d)' /\ Under(Own(d)'.path, p)
  <2>1. CASE Item(u, n, p)
    <3>1. t # c /\ Placed(t) /\ Own(t)'.path = Own(t).path
      BY <1>2, <1>4, <2>1
    <3>2. \/ Knows(t, u, n)
          \/ \E d \in Awaited(t) : Knows(d, u, n) \/ (Alive(d) /\ Under(Own(d).path, p))
      BY <1>1, <1>4, <2>1, <3>1 DEF CompleteInv
    <3>3. CASE Knows(t, u, n)
      BY <1>3, <3>1, <3>3
    <3>4. CASE \E d \in Awaited(t) : Knows(d, u, n) \/ (Alive(d) /\ Under(Own(d).path, p))
      <4>1. PICK d \in Awaited(t) : Knows(d, u, n) \/ (Alive(d) /\ Under(Own(d).path, p))
        BY <3>4
      <4>2. d \in Task /\ d # c /\ d \in Awaited(t)'
        BY <1>1, <1>3, <3>1, <4>1
      <4>3. Knows(d, u, n) => Knows(d, u, n)'
        BY <1>3, <4>2
      <4>4. Alive(d) => Alive(d)' /\ Own(d)'.path = Own(d).path
        BY <1>3, <4>2
      <4>5. Knows(d, u, n)' \/ (Alive(d)' /\ Under(Own(d)'.path, p))
        BY <4>1, <4>3, <4>4
      <4>6. QED
        BY <4>2, <4>5
    <3>5. QED
      BY <3>2, <3>3, <3>4
  <2>2. CASE u \in {s, c} /\ n = seg'[u] /\ p = Step(u)'
    <3>1. u = t => Knows(t, u, n)'
      BY <1>1, <2>2
    <3>2. u # t => \E d \in Awaited(t)' : d \in Task /\ Alive(d)' /\ Under(Own(d)'.path, p)
      BY <1>1, <1>4, <2>2 DEF DescentInv
    <3>3. QED
      BY <3>1, <3>2
  <2>3. QED
    BY <1>1, <1>4, <2>1, <2>2
<1>5. QED
  BY <1>4 DEF CompleteInv

LEMMA ForkKeepsLocal ==
  ASSUME TreeInv, NEW s \in Task, NEW c \in Task, NEW g, NEW j, Forks(s, c, g, j)
  PROVE  LocalInv'
<1>1. /\ s # c /\ Alive(s) /\ SpawnsIn(s, c, g, j)
      /\ Awaited(s)' = Awaited(s) \cup {c} /\ Awaited(c)' = {}
      /\ \A t \in Task : Awaited(t) \subseteq Task \ {c}
      /\ \A t \in Task : t # s /\ t # c => Keeps(t)
      /\ \A u, n : /\ Knows(s, u, n)' <=> Knows(s, u, n) \/ (u = s /\ n = seg'[s])
                   /\ Knows(c, u, n)' <=> Knows(s, u, n) \/ (u = c /\ n = seg'[c])
      /\ \A t \in Task : ~ Knows(t, s, seg'[s]) /\ ~ Knows(t, c, seg'[c])
      /\ \A u, n, p : Item(u, n, p)' =>
           \/ Item(u, n, p) \/ (u = s /\ n = seg'[s] /\ p = Step(s)')
           \/ (u = c /\ n = seg'[c] /\ p = Step(c)')
      /\ ShapeInv /\ LocalInv /\ PlaceInv
  BY DEF Forks, TreeInv
<1>2. /\ \A u, n, p : Item(u, n, p) => ~ (u = s /\ n = seg'[s]) /\ u # c
  BY ForkView
<1>3. Under(g, Step(c)') /\ Under(Own(s).path, Step(s)') /\ Step(s)' \in Seq(Label)
  BY <1>1, ForkNodes DEF Younger
<1>4. \A u, n, p : Item(u, n, p)' =>
        \/ Item(u, n, p) /\ ~ (u = s /\ n = seg'[s]) /\ u # c
        \/ u \in {s, c} /\ n = seg'[u] /\ p = Step(u)'
  BY <1>1, <1>2
<1>5. ASSUME NEW d \in Task, d # c, d # s, NEW u, NEW n, NEW p, Item(u, n, p)', Knows(d, u, n)'
      PROVE  Item(u, n, p) /\ Knows(d, u, n)
  <2>1. Knows(d, u, n)
    BY <1>1, <1>5 DEF Keeps
  <2>2. QED
    BY <1>1, <1>4, <1>5, <2>1
<1>6. ASSUME NEW t \in Task, Alive(t)', NEW d \in Awaited(t)',
             NEW u, NEW n, NEW p, Item(u, n, p)', Knows(d, u, n)'
      PROVE  Knows(t, u, n)' \/ Under(Top(t)'.path, p)
  <2>1. CASE t = s /\ d = c
    <3>1. Knows(s, u, n) => Knows(s, u, n)'
      BY <1>1
    <3>2. ~ Knows(s, u, n) => u = c /\ n = seg'[c]
      BY <1>1, <1>6, <2>1
    <3>3. u = c => p = Step(c)'
      BY <1>1, <1>4, <1>6
    <3>4. Top(s)'.path = g
      BY <1>1 DEF SpawnsIn
    <3>5. QED
      BY <1>3, <2>1, <3>1, <3>2, <3>3, <3>4
  <2>2. CASE t = s /\ d # c
    <3>1. d \in Awaited(s) /\ d \in Task
      BY <1>1, <1>6, <2>2
    <3>2. Top(s)'.path = Top(s).path
      BY <1>1, <3>1, OneNotTwo DEF ShapeInv, SpawnsIn
    <3>3. CASE d = s
      BY <1>6, <2>2, <3>3
    <3>4. CASE d # s
      <4>1. Item(u, n, p) /\ Knows(d, u, n)
        BY <1>5, <1>6, <2>2, <3>1, <3>4
      <4>2. Knows(s, u, n) \/ Under(Top(s).path, p)
        BY <1>1, <3>1, <4>1 DEF LocalInv
      <4>3. Knows(s, u, n) => Knows(s, u, n)'
        BY <1>1
      <4>4. QED
        BY <2>2, <3>2, <4>2, <4>3
    <3>5. QED
      BY <3>3, <3>4
  <2>3. CASE t # s /\ t # c
    <3>1. /\ d \in Awaited(t) /\ d \in Task /\ d # c /\ Alive(t) /\ Top(t)' = Top(t)
          /\ Knows(t, u, n)' <=> Knows(t, u, n)
      BY <1>1, <1>6, <2>3 DEF Keeps
    <3>2. CASE Item(u, n, p) /\ Knows(d, u, n)
      <4>1. Knows(t, u, n) \/ Under(Top(t).path, p)
        BY <1>1, <3>1, <3>2 DEF LocalInv
      <4>2. QED
        BY <3>1, <4>1
    <3>3. CASE d = s /\ p = Step(s)'
      <4>1. Under(Top(t).path, Own(s).path)
        BY <1>1, <3>1, <3>3 DEF PlaceInv
      <4>2. Top(t).path \in Seq(Label) /\ Own(s).path \in Seq(Label)
        BY <1>1, <3>1 DEF ShapeInv
      <4>3. Under(Top(t).path, Step(s)')
        BY <1>3, <4>1, <4>2, UnderTrans
      <4>4. QED
        BY <3>1, <3>3, <4>3
    <3>4. CASE d # s
      BY <1>5, <1>6, <3>1, <3>2, <3>4
    <3>5. CASE d = s /\ ~ p = Step(s)'
      <4>1. Knows(s, u, n) \/ (u = s /\ n = seg'[s])
        BY <1>1, <1>6, <3>5
      <4>2. CASE u = s /\ n = seg'[s]
        BY <1>1, <1>4, <1>6, <3>5, <4>2
      <4>3. CASE Knows(s, u, n)
        BY <1>1, <1>4, <1>6, <3>2, <3>5, <4>3
      <4>4. QED
        BY <4>1, <4>2, <4>3
    <3>6. QED
      BY <3>3, <3>4, <3>5
  <2>4. QED
    BY <1>1, <1>6, <2>1, <2>2, <2>3
<1>7. QED
  BY <1>6 DEF LocalInv

LEMMA ForkKeepsShape ==
  ASSUME TreeInv, NEW s \in Task, NEW c \in Task, NEW g, NEW j, Forks(s, c, g, j)
  PROVE  ShapeInv'
<1>1. /\ s # c /\ Alive(s) /\ SpawnsIn(s, c, g, j) /\ One(c)' /\ Two(s)'
      /\ frames'[0] = frames[0]
      /\ Awaited(s)' = Awaited(s) \cup {c} /\ Awaited(c)' = {}
      /\ \A t \in Task : t # s /\ t # c => Keeps(t)
      /\ ShapeInv
  BY DEF Forks, TreeInv
<1>2. /\ g \in Seq(Label) /\ Len(g) \in Nat /\ j \in Nat
      /\ Own(c)'.path \in Seq(Label) /\ Len(Own(c)'.path) = Len(g) + 1
  BY <1>1, ForkNodes
<1>3. /\ Own(s).path \in Seq(Label) /\ Len(Own(s).path) > 0 /\ Own(s).num_children \in Nat
      /\ \/ One(s) /\ Top(s) = Own(s)
         \/ /\ Two(s) /\ Own(s).num_children > 0
            /\ Top(s).path = Append(Own(s).path, <<Own(s).num_children - 1, "FINISH">>)
  BY <1>1 DEF ShapeInv
<1> DEFINE Fits(own, top, step) ==
      /\ own.path \in Seq(Label) /\ Len(own.path) > 0 /\ own.num_children \in Nat
      /\ top.path \in Seq(Label) /\ top.num_children \in Nat /\ top.num_children > 0
      /\ step = Append(top.path, <<top.num_children - 1, "STEP">>)
<1>4. Fits(Own(c)', Top(c)', Step(c)') /\ Top(c)' = Own(c)'
  <2>1. /\ Own(c)'.num_children = 1 /\ Top(c)' = Own(c)' /\ Step(c)' = Top(c)'.step
        /\ Top(c)'.step = Append(Own(c)'.path, <<0, "STEP">>)
    BY <1>1 DEF SpawnsIn, StartsAt, Step
  <2>2. Own(c)'.num_children - 1 = 0 /\ Len(Own(c)'.path) > 0
    BY <1>2, <2>1
  <2>3. QED
    BY <1>2, <2>1, <2>2
<1>5. /\ Fits(Own(s)', Top(s)', Step(s)') /\ Own(s)'.num_children > 0
      /\ Top(s)'.path = Append(Own(s)'.path, <<Own(s)'.num_children - 1, "FINISH">>)
  <2>1. /\ Own(s)'.path = Own(s).path /\ Top(s)'.path = g /\ Top(s)'.num_children = j + 2
        /\ Step(s)' = Append(g, <<j + 1, "STEP">>)
        /\ \/ Two(s) /\ g = Top(s).path /\ Own(s)'.num_children = Own(s).num_children
           \/ /\ One(s) /\ g = Append(Top(s).path, <<Top(s).num_children, "FINISH">>)
              /\ Own(s)'.num_children = Own(s).num_children + 1
    BY <1>1 DEF SpawnsIn, Step
  <2>2. Top(s)'.num_children - 1 = j + 1 /\ Top(s)'.num_children \in Nat /\ Top(s)'.num_children > 0
    BY <1>2, <2>1
  <2>3. Own(s)'.num_children \in Nat
    BY <1>3, <2>1
  <2>4. Fits(Own(s)', Top(s)', Step(s)')
    BY <1>2, <1>3, <2>1, <2>2, <2>3
  <2>5. CASE Two(s)
    BY <1>3, <2>1, <2>4, <2>5, OneNotTwo
  <2>6. CASE One(s)
    <3>0. Own(s)'.num_children = Own(s).num_children + 1
      BY <2>1, <2>6, OneNotTwo
    <3>1. Own(s)'.num_children - 1 = Own(s).num_children /\ Own(s)'.num_children > 0
      BY <1>3, <3>0
    <3>2. g = Append(Own(s).path, <<Own(s).num_children, "FINISH">>)
      BY <1>3, <2>1, <2>6, OneNotTwo
    <3>3. QED
      BY <2>1, <2>4, <3>1, <3>2
  <2>7. QED
    BY <1>3, <2>5, <2>6
<1>6. ASSUME NEW t \in Task, Alive(t)'
      PROVE  /\ Fits(Own(t)', Top(t)', Step(t)')
             /\ \/ One(t)' /\ Top(t)' = Own(t)' /\ Awaited(t)' = {}
                \/ /\ Two(t)' /\ Awaited(t)' # {} /\ Own(t)'.num_children > 0
                   /\ Top(t)'.path = Append(Own(t)'.path, <<Own(t)'.num_children - 1, "FINISH">>)
  <2>1. CASE t = c
    BY <1>1, <1>4, <2>1
  <2>2. CASE t = s
    <3>1. Awaited(s)' # {}
      BY <1>1
    <3>2. QED
      BY <1>1, <1>5, <2>2, <3>1
  <2>3. CASE t # s /\ t # c
    <3>1. /\ Own(t)' = Own(t) /\ Top(t)' = Top(t) /\ Step(t)' = Step(t) /\ Alive(t)
          /\ (One(t)' <=> One(t)) /\ (Two(t)' <=> Two(t)) /\ Awaited(t)' = Awaited(t)
      BY <1>1, <1>6, <2>3 DEF Keeps
    <3>2. /\ Fits(Own(t), Top(t), Step(t))
          /\ \/ One(t) /\ Top(t) = Own(t) /\ Awaited(t) = {}
             \/ /\ Two(t) /\ Awaited(t) # {} /\ Own(t).num_children > 0
                /\ Top(t).path = Append(Own(t).path, <<Own(t).num_children - 1, "FINISH">>)
      BY <1>1, <3>1 DEF ShapeInv
    <3>3. QED
      BY <3>1, <3>2
  <2>4. QED
    BY <2>1, <2>2, <2>3
<1>7. (\E f \in FrameSet : frames[0] = <<f>> /\ f.path = <<>>)'
  <2>1. PICK f \in FrameSet : frames[0] = <<f>> /\ f.path = <<>>
    BY <1>1 DEF ShapeInv
  <2>2. frames'[0] = <<f>>
    BY <1>1, <2>1
  <2>3. QED
    BY <2>1, <2>2 DEF FrameSet, Label
<1>8. QED
  BY <1>6, <1>7 DEF ShapeInv

LEMMA ForkKeepsItems ==
  ASSUME TreeInv, NEW s \in Task, NEW c \in Task, NEW g, NEW j, Forks(s, c, g, j)
  PROVE  ItemsInv' /\ UnknownInv'
<1>1. /\ s # c /\ Alive(s) /\ SpawnsIn(s, c, g, j)
      /\ \A t \in Task : t # s /\ t # c => Keeps(t)
      /\ \A u, n, p : Item(u, n, p)' =>
           \/ Item(u, n, p) \/ (u = s /\ n = seg'[s] /\ p = Step(s)')
           \/ (u = c /\ n = seg'[c] /\ p = Step(c)')
      /\ seg[s] \in Nat /\ seg'[s] = seg[s] + 1 /\ seg'[c] = 1
      /\ \A t \in Task : ~ Knows(t, s, seg'[s]) /\ ~ Knows(t, c, seg'[c])
      /\ before'[s] = PastOf(s) /\ before'[c] = PastOf(s)
      /\ \A t \in Task : t # s /\ t # c => before'[t] = before[t]
      /\ ShapeInv /\ ItemsInv /\ UnknownInv
  BY DEF Forks, TreeInv
<1>2. /\ Step(s)'[1] = Step(s)[1] /\ Step(c)'[1] = Step(s)[1]
      /\ Step(s)' \in Seq(Label) /\ Step(c)' \in Seq(Label)
      /\ Under(g, Step(s)') /\ Under(g, Step(c)') /\ Len(g) \in Nat
  BY <1>1, ForkNodes DEF Younger
<1>3. Step(s)[1][2] = "FINISH"
  BY <1>1, AliveIsItem DEF ItemsInv
<1>4. Len(Step(s)') > 0 /\ Len(Step(c)') > 0
  BY <1>2 DEF Under
<1>5. ASSUME NEW u, NEW n, NEW p, Item(u, n, p)'
      PROVE  /\ u \in Task /\ n \in Nat /\ 0 < n /\ n <= seg'[u]
             /\ p \in Seq(Label) /\ Len(p) > 0 /\ p[1][2] = "FINISH"
  <2>1. CASE Item(u, n, p)
    <3>1. /\ u \in Task /\ n \in Nat /\ 0 < n /\ n <= seg[u]
          /\ p \in Seq(Label) /\ Len(p) > 0 /\ p[1][2] = "FINISH"
      BY <1>1, <2>1 DEF ItemsInv
    <3>2. u # c
      BY <2>1, ForkView
    <3>3. n <= seg'[u]
      BY <1>1, <3>1, <3>2 DEF Keeps
    <3>4. QED
      BY <3>1, <3>3
  <2>2. CASE u \in {s, c} /\ n = seg'[u] /\ p = Step(u)'
    BY <1>1, <1>2, <1>3, <1>4, <2>2
  <2>3. QED
    BY <1>1, <1>5, <2>1, <2>2
<1>6. ASSUME NEW t \in Task, NEW u \in Task, Alive(u)' PROVE <<u, seg'[u]>> \notin before'[t]
  <2>1. PICK v \in Task : /\ before'[t] \subseteq PastOf(v)
                          /\ (v = t /\ before'[t] = before[t]) \/ v = s
    BY <1>1 DEF PastOf
  <2>2. CASE u \in {s, c}
    BY <1>1, <2>1, <2>2 DEF Knows
  <2>3. CASE u # s /\ u # c
    <3>1. Alive(u) /\ seg'[u] = seg[u]
      BY <1>1, <1>6, <2>3 DEF Keeps
    <3>2. <<u, seg[u]>> \notin before[t] /\ <<u, seg[u]>> \notin PastOf(s)
      BY <1>1, <2>3, <3>1 DEF UnknownInv, PastOf
    <3>3. QED
      BY <2>1, <3>1, <3>2
  <2>4. QED
    BY <2>2, <2>3
<1>7. QED
  BY <1>5, <1>6 DEF ItemsInv, UnknownInv

(* A spawn by a task other than main keeps the tree right.                 *)
LEMMA ForkKeepsTree ==
  ASSUME TreeInv, NEW s \in Task, NEW c \in Task, NEW g, NEW j, Forks(s, c, g, j)
  PROVE  TreeInv'
<1>1. ApartInv' /\ VerdictInv'
  BY ForkKeepsVerdict
<1>2. FreshInv'
  BY ForkKeepsFresh
<1>3. DescentInv'
  BY ForkKeepsDescent
<1>4. PlaceInv'
  BY ForkKeepsPlace
<1>5. CompleteInv'
  BY <1>3, ForkKeepsComplete
<1>6. LocalInv'
  BY ForkKeepsLocal
<1>7. ShapeInv'
  BY ForkKeepsShape
<1>8. ItemsInv' /\ UnknownInv'
  BY ForkKeepsItems
<1>9. QED
  BY <1>1, <1>2, <1>3, <1>4, <1>5, <1>6, <1>7, <1>8 DEF TreeInv

-----------------------------------------------------------------------------
(***************************************************************************)
(* The spawn of a root by main.                                            *)
(***************************************************************************)

(* When main waits for nobody, no other task is alive.                     *)
LEMMA MainAlone ==
  ASSUME ShapeInv, ItemsInv, DescentInv, \A d \in Awaited(0) : ~ Alive(d)
  PROVE  \A t \in Task : ~ Alive(t)
<1>1. SUFFICES ASSUME NEW t \in Task, Alive(t) PROVE FALSE
  OBVIOUS
<1>2. Step(t) \in Seq(Label) /\ Len(Step(t)) > 0
  BY <1>1, AliveIsItem DEF ItemsInv
<1>3. Under(Own(0).path, Step(t)) /\ t # 0 /\ Placed(0)
  BY <1>1, <1>2, MainNode DEF Alive, Placed
<1>4. \E d \in Awaited(0) : Alive(d)
  BY <1>1, <1>3, TaskFacts DEF DescentInv
<1>5. QED
  BY <1>4

(* Main spawns a root.                                                     *)
Roots(c, k) ==
  /\ c # 0 /\ k \in Nat /\ k = Own(0).num_children
  /\ \A t \in Task : ~ Alive(t) /\ (Alive(t)' <=> t = c)
  /\ \E f \in FrameSet : frames'[0] = <<f>>
  /\ Own(0)'.path = <<>> /\ Own(0)'.num_children = k + 1 /\ Top(0)' = Own(0)'
  /\ StartsAt(Own(c)', <<<<k, "FINISH">>>>) /\ Top(c)' = Own(c)' /\ One(c)'
  /\ Awaited(0) = {} /\ Awaited(0)' = {c} /\ Awaited(c)' = {}
  /\ seg[0] \in Nat /\ seg'[0] = seg[0] + 1 /\ seg[c] = 0 /\ seg'[c] = 1
  /\ \A t \in Task : t # 0 /\ t # c => seg'[t] = seg[t]
  /\ \A u, n : /\ Knows(0, u, n)' <=> Knows(0, u, n) \/ (u = 0 /\ n = seg'[0])
               /\ Knows(c, u, n)' <=> Knows(0, u, n) \/ (u = c /\ n = seg'[c])
  /\ \A t \in Task : <<c, seg'[c]>> \notin before'[t]
  /\ \A u, n, p : Item(u, n, p)' =>
       Item(u, n, p) \/ (u = c /\ n = seg'[c] /\ p = Step(c)')

(* The spawn of a root is such a step.                                     *)
LEMMA RootIs ==
  ASSUME TypeInv, FullStacks, SegmentsInv, Exact, Note, ShapeInv, ItemsInv, DescentInv,
         NEW p \in Task, NEW c \in Task, NEW next, SpawnEvent(0, p, c, next)
  PROVE  \E k : Roots(c, k)
<1>1. p = 0 /\ next = "rootwait" /\ TreeSpawnRoot(0, c) /\ ForkStep(0, 0, c, next)
  BY DEF SpawnEvent, ForkStep
<1>2. ProgramTypeOK /\ FamilyInv /\ 0 \in Task
  BY TaskFacts DEF TypeInv, TypeOK
<1>3. /\ spawned \in Nat /\ c = spawned + 1 /\ c # 0
      /\ status[0] = "running" /\ status[c] = "unborn" /\ status'[c] = "ready"
      /\ status'[0] = next
      /\ \A t \in Task : t # c /\ t # 0 => status'[t] = status[t]
      /\ Awaited(c)' = {} /\ Awaited(0)' = Awaited(0) \cup {c}
  BY <1>1, <1>2, ForkFacts
<1>4. Awaited(0) = {}
  <2>1. tbb_roots[0] = {} /\ tbb_children[0] = {}
    BY <1>2, <1>3 DEF FamilyInv, Waits
  <2>2. QED
    BY <2>1 DEF Awaited
<1>5. \A t \in Task : ~ Alive(t)
  BY <1>4, MainAlone
<1>6. \A t \in Task : Alive(t)' <=> t = c
  BY <1>1, <1>3, <1>5 DEF Alive
<1>7. PICK f \in FrameSet : frames[0] = <<f>> /\ f.path = <<>>
  BY DEF ShapeInv
<1>8. DOMAIN frames = Task /\ frames = [t \in Task |-> frames[t]]
  BY DEF FullStacks
<1>9. One(c)' /\ \E h \in FrameSet : frames'[0] = <<h>>
  BY <1>1, <1>3, <1>7, <1>8, SpawnRootStack
<1>10. /\ Own(0) = f
       /\ Own(0)'.path = f.path /\ Own(0)'.num_children = f.num_children + 1
       /\ Top(0)' = Own(0)'
       /\ StartsAt(Own(c)', Append(f.path, <<f.num_children, "FINISH">>))
       /\ Top(c)' = Own(c)'
  BY <1>1, <1>3, <1>7, <1>8, RootValues
<1>11. \A e : Append(<<>>, e) = <<e>>
  BY StackFacts
<1>12. f.num_children \in Nat
  BY FrameValues
<1>13. /\ seg'[0] = seg[0] + 1 /\ seg'[c] = 1
       /\ before'[0] = before[0] \cup {<<0, seg[0]>>} /\ before'[c] = before'[0]
       /\ \A t \in Task : t # 0 /\ t # c => seg'[t] = seg[t] /\ before'[t] = before[t]
       /\ \A t \in Task : seg[t] \in Nat
  <2>1. PICK z \in Task : z = 0
    BY <1>2
  <2>2. SpawnEvent(z, p, c, next)
    BY <2>1
  <2>3. /\ seg'[z] = seg[z] + 1 /\ seg'[c] = 1
        /\ before'[z] = before[z] \cup {<<z, seg[z]>>} /\ before'[c] = before'[z]
        /\ \A t \in Task : t # z /\ t # c => seg'[t] = seg[t] /\ before'[t] = before[t]
        /\ \A t \in Task : seg[t] \in Nat
    BY <2>2, ForkPast
  <2>4. QED
    BY <2>1, <2>3
<1>14. seg[c] = 0
  <2>1. ~ (c <= spawned)
    BY <1>3
  <2>2. QED
    BY <2>1 DEF SegmentsInv
<1>15. \A t \in Task : <<c, seg'[c]>> \notin before'[t]
  <2>1. ~ (seg'[c] <= seg[c])
    BY <1>13, <1>14
  <2>2. \A t \in Task : <<c, seg'[c]>> \notin before[t]
    BY <2>1 DEF Exact
  <2>3. \A t \in Task : before'[t] = before[t] \/ before'[t] = before[0] \cup {<<0, seg[0]>>}
    BY <1>13
  <2>4. QED
    BY <1>2, <1>3, <2>2, <2>3
<1>16. PastOf(0)' = PastOf(0) \cup {<<0, seg'[0]>>} /\ PastOf(c)' = PastOf(0) \cup {<<c, seg'[c]>>}
  BY <1>13 DEF PastOf
<1>17. \A u, n : /\ Knows(0, u, n)' <=> Knows(0, u, n) \/ (u = 0 /\ n = seg'[0])
                 /\ Knows(c, u, n)' <=> Knows(0, u, n) \/ (u = c /\ n = seg'[c])
  BY <1>16 DEF Knows
<1>18. ASSUME NEW u, NEW n, NEW q, Item(u, n, q)'
       PROVE  Item(u, n, q) \/ (u = c /\ n = seg'[c] /\ q = Step(c)')
  BY <1>6, <1>18, ItemGrows DEF Item
<1>19. PICK k : k = f.num_children
  OBVIOUS
<1>20. /\ k \in Nat /\ k = Own(0).num_children /\ Own(0)'.path = <<>>
       /\ Own(0)'.num_children = k + 1 /\ Append(f.path, <<f.num_children, "FINISH">>) = <<<<k, "FINISH">>>>
  BY <1>7, <1>10, <1>11, <1>12, <1>19
<1>21. /\ Top(0)' = Own(0)' /\ Top(c)' = Own(c)'
       /\ StartsAt(Own(c)', <<<<k, "FINISH">>>>)
  BY <1>10, <1>20
<1>22. Awaited(0)' = {c} /\ seg[0] \in Nat
  BY <1>2, <1>3, <1>4, <1>13
<1>23. Roots(c, k)
  BY <1>3, <1>4, <1>5, <1>6, <1>9, <1>13, <1>14, <1>15, <1>17, <1>18, <1>20, <1>21, <1>22
     DEF Roots
<1>24. QED
  BY <1>23

(* The spawn of a root keeps the tree right.                               *)
LEMMA RootKeepsTree ==
  ASSUME TreeInv, NEW c \in Task, NEW k, Roots(c, k)
  PROVE  TreeInv'
<1>1. /\ c # 0 /\ k \in Nat /\ k = Own(0).num_children
      /\ \A t \in Task : ~ Alive(t) /\ (Alive(t)' <=> t = c)
      /\ \E f \in FrameSet : frames'[0] = <<f>>
      /\ Own(0)'.path = <<>> /\ Own(0)'.num_children = k + 1 /\ Top(0)' = Own(0)'
      /\ StartsAt(Own(c)', <<<<k, "FINISH">>>>) /\ Top(c)' = Own(c)' /\ One(c)'
      /\ Awaited(0) = {} /\ Awaited(0)' = {c} /\ Awaited(c)' = {}
      /\ seg[0] \in Nat /\ seg'[0] = seg[0] + 1 /\ seg[c] = 0 /\ seg'[c] = 1
      /\ \A t \in Task : t # 0 /\ t # c => seg'[t] = seg[t]
      /\ \A u, n : /\ Knows(0, u, n)' <=> Knows(0, u, n) \/ (u = 0 /\ n = seg'[0])
                   /\ Knows(c, u, n)' <=> Knows(0, u, n) \/ (u = c /\ n = seg'[c])
      /\ \A t \in Task : <<c, seg'[c]>> \notin before'[t]
      /\ \A u, n, p : Item(u, n, p)' =>
           Item(u, n, p) \/ (u = c /\ n = seg'[c] /\ p = Step(c)')
  BY DEF Roots
<1>2. ShapeInv /\ ItemsInv /\ FreshInv /\ CompleteInv
  BY DEF TreeInv
<1>3. \A t \in Task : Placed(t)' <=> t = 0 \/ t = c
  BY <1>1 DEF Placed
<1> DEFINE A == <<<<k, "FINISH">>>>
<1>4. /\ A \in Seq(Label) /\ Len(A) = 1 /\ A[1] = <<k, "FINISH">>
      /\ Own(c)'.path = A /\ Own(c)'.num_children = 1 /\ Step(c)' = Append(A, <<0, "STEP">>)
  <2>1. <<k, "FINISH">> \in Label
    BY <1>1, LabelFacts
  <2>2. QED
    BY <1>1, <2>1 DEF StartsAt, Step
<1> DEFINE C == Step(c)'
<1> HIDE DEF A, C
<1>5. /\ C \in Seq(Label) /\ Len(C) = 2 /\ Under(A, C)
      /\ C[1] = <<k, "FINISH">> /\ C[2] = <<0, "STEP">>
  <2>1. <<0, "STEP">> \in Label
    BY LabelFacts
  <2>2. PICK r : r = Append(A, <<0, "STEP">>)
    OBVIOUS
  <2>3. /\ r \in Seq(Label) /\ Len(r) = Len(A) + 1 /\ r[Len(A) + 1] = <<0, "STEP">>
        /\ Under(A, r) /\ \A i \in 1 .. Len(A) : r[i] = A[i]
    BY <1>4, <2>1, <2>2, AppendIs
  <2>4. C = r
    BY <1>4, <2>2 DEF C
  <2>5. QED
    BY <1>4, <2>3, <2>4
(* What was run before is known to main, and older than the root.          *)
<1>6. ASSUME NEW u, NEW n, NEW p, Item(u, n, p)
      PROVE  /\ u \in Task /\ n \in Nat /\ 0 < n /\ n <= seg[u] /\ u # c /\ u # 0
             /\ p \in Seq(Label) /\ Len(p) > 0 /\ p[1][2] = "FINISH" /\ p[1][1] \in Nat
             /\ p[1][1] < k /\ Knows(0, u, n)
  <2>1. /\ u \in Task /\ n \in Nat /\ 0 < n /\ n <= seg[u]
        /\ p \in Seq(Label) /\ Len(p) > 0 /\ p[1][2] = "FINISH"
    BY <1>2, <1>6 DEF ItemsInv
  <2>2. u # c /\ u # 0
    BY <1>1, <1>6, <2>1 DEF Item
  <2>3. Under(Own(0).path, p) /\ Len(Own(0).path) = 0 /\ Placed(0)
    BY <1>2, <2>1, MainNode DEF Placed
  <2>4. p[1][1] < k
    <3>1. p[Len(Own(0).path) + 1][1] < Own(0).num_children
      BY <1>2, <1>6, <2>3, TaskFacts DEF FreshInv, FreshBelow
    <3>2. Len(Own(0).path) + 1 = 1
      BY <2>3
    <3>3. QED
      BY <1>1, <3>1, <3>2
  <2>5. p[1][1] \in Nat
    <3>1. 1 \in 1 .. Len(p)
      BY <2>1
    <3>2. QED
      BY <2>1, <3>1, EntryIs
  <2>6. Knows(0, u, n)
    BY <1>1, <1>2, <1>6, <2>3, TaskFacts DEF CompleteInv
  <2>7. QED
    BY <2>1, <2>2, <2>4, <2>5, <2>6
<1>7. ASSUME NEW u, NEW n, NEW p, Item(u, n, p)
      PROVE  Apart(p, C) /\ ~ Parallel(C, p) /\ ~ Under(A, p)
  <2>1. /\ p \in Seq(Label) /\ Len(p) > 0 /\ p[1][2] = "FINISH" /\ p[1][1] \in Nat
        /\ p[1][1] < k
    BY <1>6, <1>7
  <2>2. C[1][1] = k
    BY <1>5
  <2>3. p[1][1] # C[1][1] /\ p[1][1] < C[1][1]
    BY <1>1, <2>1, <2>2
  <2>4. PartAt(p, C, 1) /\ PartAt(C, p, 1)
    BY <1>5, <2>1, <2>3 DEF PartAt
  <2>5. Parallel(C, p) <=> IF p[1][1] < C[1][1] THEN p[1][2] = "ASYNC" ELSE C[1][2] = "ASYNC"
    BY <1>5, <2>1, <2>4, PartingIs
  <2>6. p[1] # <<k, "FINISH">>
    BY <1>1, <2>1
  <2>7. QED
    BY <1>4, <2>1, <2>3, <2>4, <2>5, <2>6 DEF Apart, Under
<1>8. ShapeInv'
  <2>1. (\E f \in FrameSet : frames[0] = <<f>> /\ f.path = <<>>)'
    <3>1. PICK f \in FrameSet : frames'[0] = <<f>>
      BY <1>1
    <3>2. Own(0)' = f
      BY <3>1, StackFacts DEF Own
    <3>3. QED
      BY <1>1, <3>1, <3>2 DEF FrameSet, Label
  <2>2. /\ Own(c)'.path \in Seq(Label) /\ Len(Own(c)'.path) > 0
        /\ Own(c)'.num_children \in Nat /\ Own(c)'.num_children > 0
        /\ Own(c)'.num_children - 1 = 0
    BY <1>4
  <2>3. QED
    BY <1>1, <1>4, <2>1, <2>2 DEF ShapeInv
<1>9. ItemsInv'
  <2>1. ASSUME NEW u, NEW n, NEW p, Item(u, n, p)'
        PROVE  /\ u \in Task /\ n \in Nat /\ 0 < n /\ n <= seg'[u]
               /\ p \in Seq(Label) /\ Len(p) > 0 /\ p[1][2] = "FINISH"
    <3>1. CASE Item(u, n, p)
      BY <1>1, <1>6, <3>1
    <3>2. CASE u = c /\ n = seg'[c] /\ p = C
      BY <1>1, <1>5, <3>2
    <3>3. QED
      BY <1>1, <2>1, <3>1, <3>2 DEF C
  <2>2. QED
    BY <2>1 DEF ItemsInv
<1>10. ApartInv' /\ VerdictInv'
  <2>1. ASSUME NEW u, NEW n, NEW p, Item(u, n, p)'
        PROVE  /\ (p = C /\ u = c /\ n = seg'[c]) \/ Apart(p, C)
               /\ Knows(c, u, n)' <=> p = C \/ ~ Parallel(C, p)
    <3>1. CASE Item(u, n, p)
      <4>1. Apart(p, C) /\ ~ Parallel(C, p)
        BY <1>7, <3>1
      <4>2. Knows(c, u, n)'
        BY <1>1, <1>6, <3>1
      <4>3. QED
        BY <4>1, <4>2
    <3>2. CASE u = c /\ n = seg'[c] /\ p = C
      <4>1. Knows(c, u, n)'
        BY <1>1, <3>2
      <4>2. QED
        BY <3>2, <4>1
    <3>3. QED
      BY <1>1, <2>1, <3>1, <3>2 DEF C
  <2>2. QED
    BY <1>1, <2>1 DEF ApartInv, VerdictInv, C
<1>11. FreshInv'
  <2>1. ASSUME NEW u, NEW n, NEW p, Item(u, n, p)'
        PROVE  /\ Under(Own(0)'.path, p) => p[Len(Own(0)'.path) + 1][1] < Own(0)'.num_children
               /\ Under(Own(c)'.path, p) => p[Len(Own(c)'.path) + 1][1] < Own(c)'.num_children
    <3>1. Len(Own(0)'.path) + 1 = 1 /\ Len(Own(c)'.path) + 1 = 2
      <4>1. Len(Own(0)'.path) = 0
        BY <1>1
      <4>2. Len(Own(c)'.path) = 1
        BY <1>4
      <4>3. QED
        BY <4>1, <4>2
    <3>2. CASE Item(u, n, p)
      <4>1. p[1][1] < k /\ p[1][1] \in Nat /\ ~ Under(A, p)
        BY <1>6, <1>7, <3>2
      <4>2. p[1][1] < k + 1
        BY <1>1, <4>1
      <4>3. QED
        BY <1>1, <1>4, <3>1, <4>1, <4>2
    <3>3. CASE p = C
      <4>1. p[1][1] = k /\ p[2][1] = 0
        BY <1>5, <3>3
      <4>2. p[1][1] < k + 1 /\ p[2][1] < 1
        BY <1>1, <4>1
      <4>3. QED
        BY <1>1, <1>4, <3>1, <4>2
    <3>4. QED
      BY <1>1, <2>1, <3>2, <3>3 DEF C
  <2>2. QED
    BY <1>1, <1>3, <2>1 DEF FreshInv, FreshBelow
<1>12. DescentInv'
  BY <1>1, <1>3, <1>4, <1>5 DEF DescentInv, C
<1>13. PlaceInv' /\ LocalInv'
  BY <1>1 DEF PlaceInv, LocalInv
<1>14. CompleteInv'
  <2>1. ASSUME NEW u, NEW n, NEW p, Item(u, n, p)'
        PROVE  /\ Knows(0, u, n)' \/ Under(Own(c)'.path, p)
               /\ Under(Own(c)'.path, p) => Knows(c, u, n)'
    <3>1. CASE Item(u, n, p)
      BY <1>1, <1>4, <1>6, <1>7, <3>1
    <3>2. CASE u = c /\ n = seg'[c] /\ p = C
      BY <1>1, <1>4, <1>5, <3>2
    <3>3. QED
      BY <1>1, <2>1, <3>1, <3>2 DEF C
  <2>2. QED
    BY <1>1, <1>3, <2>1 DEF CompleteInv
<1>15. UnknownInv'
  BY <1>1 DEF UnknownInv
<1>16. QED
  BY <1>8, <1>9, <1>10, <1>11, <1>12, <1>13, <1>14, <1>15 DEF TreeInv

-----------------------------------------------------------------------------
(***************************************************************************)
(* The end of a wait, of a task and of main.                               *)
(***************************************************************************)

(* A task other than main returns from its wait.                           *)
Waited(t) ==
  /\ Alive(t) /\ Alive(t)' /\ Two(t) /\ One(t)' /\ frames'[0] = frames[0]
  /\ Own(t)'.path = Own(t).path /\ Own(t)'.num_children = Own(t).num_children + 1
  /\ Top(t)' = Own(t)'
  /\ Step(t)' = Append(Own(t).path, <<Own(t).num_children, "STEP">>)
  /\ \A u \in Task : u # t => Keeps(u)
  /\ \A u \in Task : Awaited(u) \subseteq Task
  /\ Awaited(t)' = {} /\ \A d \in Awaited(t) : d \in Task /\ d # t /\ ~ Alive(d)
  /\ seg[t] \in Nat /\ seg'[t] = seg[t] + 1
  /\ \A u, n : Knows(t, u, n)' <=> \/ Knows(t, u, n)
                                   \/ \E d \in Awaited(t) : Knows(d, u, n)
                                   \/ u = t /\ n = seg'[t]
  /\ \A u \in Task : ~ Knows(u, t, seg'[t])
  /\ UnknownInv => UnknownInv'
  /\ \A u, n, p : Item(u, n, p)' =>
       Item(u, n, p) \/ (u = t /\ n = seg'[t] /\ p = Step(t)')

(* What the end of a wait makes known to the task that waited.             *)
LEMMA JoinUnknown ==
  ASSUME TypeInv, Exact, UnknownInv, NEW t \in Task, Returns(t),
         \A u \in Task : Alive(u)' => u = t \/ Alive(u)
  PROVE  UnknownInv'
<1>1. /\ seg'[t] = seg[t] + 1
      /\ \A u, n : <<u, n>> \in before'[t] <=>
           \/ <<u, n>> \in before[t] \/ (u = t /\ n = seg[t])
           \/ \E c \in Awaited(t) : <<u, n>> \in before[c] \/ (u = c /\ n = seg[c])
      /\ \A u \in Task : u # t => seg'[u] = seg[u] /\ before'[u] = before[u]
      /\ \A u \in Task : seg[u] \in Nat
  BY JoinPast
<1>2. \A c \in Awaited(t) : c \in Task /\ status[c] = "finished" /\ c # t
  BY ReturnFacts DEF Returns, TypeInv, TypeOK
<1>3. \A c \in Awaited(t) : c \in Task /\ ~ Alive(c) /\ c # t
  BY <1>2 DEF Alive
<1>4. ASSUME NEW v \in Task, NEW u \in Task, Alive(u)', <<u, seg'[u]>> \in before'[v]
      PROVE  FALSE
  <2>1. CASE u = t
    <3>1. ~ (seg'[t] <= seg[t]) /\ seg'[t] # seg[t]
      BY <1>1
    <3>2. \A w \in Task : <<t, seg'[t]>> \notin before[w]
      BY <3>1 DEF Exact
    <3>3. QED
      BY <1>1, <1>3, <1>4, <2>1, <3>1, <3>2
  <2>2. CASE u # t
    <3>1. Alive(u) /\ seg'[u] = seg[u]
      BY <1>1, <1>4, <2>2
    <3>2. \A w \in Task : <<u, seg[u]>> \notin before[w]
      BY <3>1 DEF UnknownInv
    <3>3. QED
      BY <1>1, <1>3, <1>4, <2>2, <3>1, <3>2
  <2>3. QED
    BY <2>1, <2>2
<1>5. QED
  BY <1>4 DEF UnknownInv

LEMMA JoinKnows ==
  ASSUME TypeInv, NEW t \in Task, Returns(t)
  PROVE  \A u, n : Knows(t, u, n)' <=> \/ Knows(t, u, n)
                                       \/ \E d \in Awaited(t) : Knows(d, u, n)
                                       \/ u = t /\ n = seg'[t]
<1>1. \A u, n : <<u, n>> \in before'[t] <=>
        \/ <<u, n>> \in before[t] \/ (u = t /\ n = seg[t])
        \/ \E c \in Awaited(t) : <<u, n>> \in before[c] \/ (u = c /\ n = seg[c])
  BY JoinPast
<1>2. PastOf(t)' = before'[t] \cup {<<t, seg'[t]>>}
  BY DEF PastOf
<1>3. \A u, n : Knows(t, u, n)' <=> <<u, n>> \in before'[t] \/ (u = t /\ n = seg'[t])
  BY <1>2 DEF Knows
<1>4. \A d, u, n : Knows(d, u, n) <=> <<u, n>> \in before[d] \/ (u = d /\ n = seg[d])
  BY DEF Knows, PastOf
<1>5. ASSUME NEW u, NEW n
      PROVE  Knows(t, u, n)' <=> \/ Knows(t, u, n)
                                 \/ \E d \in Awaited(t) : Knows(d, u, n)
                                 \/ u = t /\ n = seg'[t]
  <2>1. (\E d \in Awaited(t) : Knows(d, u, n)) <=>
          \E d \in Awaited(t) : <<u, n>> \in before[d] \/ (u = d /\ n = seg[d])
    BY <1>4
  <2>2. Knows(t, u, n) <=> <<u, n>> \in before[t] \/ (u = t /\ n = seg[t])
    BY <1>4
  <2>3. <<u, n>> \in before'[t] <=>
          \/ <<u, n>> \in before[t] \/ (u = t /\ n = seg[t])
          \/ \E c \in Awaited(t) : <<u, n>> \in before[c] \/ (u = c /\ n = seg[c])
    BY <1>1
  <2>4. QED
    BY <1>3, <2>1, <2>2, <2>3
<1>6. QED
  BY <1>5

(* The return from a wait is such a step.                                  *)
LEMMA WaitIs ==
  ASSUME TypeInv, FullStacks, Exact, Note, ShapeInv, NEW t \in Task, t # 0, Returns(t)
  PROVE  Waited(t)
<1>1. ProgramTypeOK /\ FamilyInv /\ ReturnStep(t)
  BY DEF TypeInv, TypeOK, Returns
<1>2. /\ status[t] \in {"waiting", "rootwait"} /\ status'[t] = "running"
      /\ \A u \in Task : u # t => status'[u] = status[u]
      /\ Awaited(t)' = {} /\ Awaited(t) # {}
      /\ \A u \in Task : u # t => Awaited(u)' = Awaited(u)
      /\ \A c \in Awaited(t) : c \in Task /\ status[c] = "finished" /\ c # t
  BY <1>1, ReturnFacts
<1>3. status[t] = "waiting" /\ TreeWait(t)
  <2>1. status[t] # "rootwait"
    BY <1>1 DEF FamilyInv, Waits
  <2>2. QED
    BY <1>2, <2>1 DEF Returns
<1>4. Two(t) /\ DOMAIN frames = Task /\ frames = [u \in Task |-> frames[u]]
  BY <1>3 DEF FullStacks
<1>5. One(t)' /\ \A u \in Task : u # t => frames'[u] = frames[u]
  BY <1>3, <1>4, WaitStack
<1>6. /\ Own(t)'.path = Own(t).path /\ Own(t)'.num_children = Own(t).num_children + 1
      /\ Top(t)' = Own(t)'
      /\ Top(t)'.step = Append(Own(t).path, <<Own(t).num_children, "STEP">>)
  BY <1>3, <1>4, WaitValues
<1>7. Step(t)' = Append(Own(t).path, <<Own(t).num_children, "STEP">>)
  BY <1>6 DEF Step
<1>8. /\ Alive(t) /\ Alive(t)' /\ \A u \in Task : u # t => (Alive(u)' <=> Alive(u))
      /\ \A d \in Awaited(t) : d \in Task /\ d # t /\ ~ Alive(d)
  BY <1>2, <1>3 DEF Alive
<1>9. /\ seg'[t] = seg[t] + 1 /\ seg[t] \in Nat
      /\ \A u \in Task : u # t => seg'[u] = seg[u] /\ before'[u] = before[u]
  BY JoinPast
<1>10. \A u \in Task : u # t => Keeps(u)
  BY <1>2, <1>5, <1>8, <1>9, KeepsIs
<1>11. \A u, n : Knows(t, u, n)' <=> \/ Knows(t, u, n)
                                     \/ \E d \in Awaited(t) : Knows(d, u, n)
                                     \/ u = t /\ n = seg'[t]
  BY JoinKnows
<1>12. UnknownInv => UnknownInv'
  BY <1>8, JoinUnknown
<1>13. \A u \in Task : ~ Knows(u, t, seg'[t])
  <2>1. ~ (seg'[t] <= seg[t]) /\ seg'[t] # seg[t]
    BY <1>9
  <2>2. \A u \in Task : <<t, seg'[t]>> \notin before[u]
    BY <2>1 DEF Exact
  <2>3. QED
    BY <2>1, <2>2 DEF Knows, PastOf
<1>14. ASSUME NEW u, NEW n, NEW p, Item(u, n, p)'
       PROVE  Item(u, n, p) \/ (u = t /\ n = seg'[t] /\ p = Step(t)')
  <2>1. /\ u # 0
        /\ \/ Stamp(u, n, p)
           \/ u \in Task /\ Alive(u)' /\ n = seg'[u] /\ p = Step(u)'
    BY <1>14, ItemGrows
  <2>2. CASE u \in Task /\ u # t /\ Alive(u)' /\ n = seg'[u] /\ p = Step(u)'
    BY <1>10, <2>1, <2>2 DEF Keeps, Item
  <2>3. QED
    BY <2>1, <2>2 DEF Item
<1>15. frames'[0] = frames[0]
  BY <1>5, TaskFacts
<1>16. \A u \in Task : Awaited(u) \subseteq Task
  BY <1>1 DEF ProgramTypeOK, Awaited
<1>17. QED
  BY <1>4, <1>5, <1>6, <1>7, <1>8, <1>9, <1>10, <1>11, <1>12, <1>13, <1>14, <1>15, <1>16, <1>2
     DEF Waited

-----------------------------------------------------------------------------
(* The node of the task, the FINISH node above which it waited, and its    *)
(* new step.                                                               *)
LEMMA WaitView ==
  ASSUME TreeInv, NEW t \in Task, Waited(t)
  PROVE  /\ Own(t).path \in Seq(Label) /\ Len(Own(t).path) \in Nat /\ Len(Own(t).path) > 0
         /\ Own(t).num_children \in Nat /\ Own(t).num_children > 0
         /\ Step(t) \in Seq(Label) /\ Top(t).path \in Seq(Label)
         /\ Under(Own(t).path, Top(t).path) /\ Under(Top(t).path, Step(t))
         /\ Under(Own(t).path, Step(t))
         /\ Len(Top(t).path) = Len(Own(t).path) + 1
         /\ Top(t).path[Len(Own(t).path) + 1] = <<Own(t).num_children - 1, "FINISH">>
         /\ Step(t)[Len(Own(t).path) + 1] = <<Own(t).num_children - 1, "FINISH">>
         /\ Step(t)' \in Seq(Label) /\ Len(Step(t)') = Len(Own(t).path) + 1
         /\ Step(t)'[Len(Own(t).path) + 1] = <<Own(t).num_children, "STEP">>
         /\ Under(Own(t).path, Step(t)')
         /\ \A v \in Task : v # t /\ Alive(v) => ~ Under(Own(t).path, Step(v))
<1>1. /\ ShapeInv /\ DescentInv /\ Alive(t) /\ Two(t)
      /\ Step(t)' = Append(Own(t).path, <<Own(t).num_children, "STEP">>)
      /\ \A d \in Awaited(t) : ~ Alive(d)
  BY DEF TreeInv, Waited
<1>2. /\ Own(t).path \in Seq(Label) /\ Len(Own(t).path) \in Nat /\ Len(Own(t).path) > 0
      /\ Own(t).num_children \in Nat
      /\ Step(t) \in Seq(Label) /\ Top(t).path \in Seq(Label)
      /\ Under(Top(t).path, Step(t)) /\ Under(Own(t).path, Step(t))
  BY <1>1, StepIs
<1>3. /\ Own(t).num_children > 0
      /\ Top(t).path = Append(Own(t).path, <<Own(t).num_children - 1, "FINISH">>)
  BY <1>1, OneNotTwo DEF ShapeInv
<1>4. /\ Under(Own(t).path, Top(t).path)
      /\ Len(Top(t).path) = Len(Own(t).path) + 1
      /\ Top(t).path[Len(Own(t).path) + 1] = <<Own(t).num_children - 1, "FINISH">>
  <2>1. Own(t).num_children - 1 \in Nat
    BY <1>2, <1>3
  <2>2. <<Own(t).num_children - 1, "FINISH">> \in Label
    BY <2>1, LabelFacts
  <2>3. QED
    BY <1>2, <1>3, <2>2, AppendIs
<1>5. Step(t)[Len(Own(t).path) + 1] = <<Own(t).num_children - 1, "FINISH">>
  BY <1>2, <1>4, UnderTrans
<1>6. /\ Step(t)' \in Seq(Label) /\ Len(Step(t)') = Len(Own(t).path) + 1
      /\ Step(t)'[Len(Own(t).path) + 1] = <<Own(t).num_children, "STEP">>
      /\ Under(Own(t).path, Step(t)')
  <2>1. <<Own(t).num_children, "STEP">> \in Label
    BY <1>2, LabelFacts
  <2>2. PICK r : r = Append(Own(t).path, <<Own(t).num_children, "STEP">>)
    OBVIOUS
  <2>3. /\ r \in Seq(Label) /\ Len(r) = Len(Own(t).path) + 1
        /\ r[Len(Own(t).path) + 1] = <<Own(t).num_children, "STEP">>
        /\ Under(Own(t).path, r)
    BY <1>2, <2>1, <2>2, AppendIs
  <2>4. Step(t)' = r
    BY <1>1, <2>2
  <2>5. QED
    BY <2>3, <2>4
<1>7. \A v \in Task : v # t /\ Alive(v) => ~ Under(Own(t).path, Step(v))
  BY <1>1 DEF DescentInv, Placed
<1>8. QED
  BY <1>2, <1>3, <1>4, <1>5, <1>6, <1>7

(* What was run below the FINISH node is known now; all else is as before. *)
LEMMA WaitFollows ==
  ASSUME TreeInv, NEW t \in Task, Waited(t), NEW u, NEW n, NEW p, Item(u, n, p)
  PROVE  /\ Apart(p, Step(t)')
         /\ Knows(t, u, n)' <=> ~ Parallel(Step(t)', p)
         /\ ~ Under(Own(t).path, p) =>
              (Parallel(Step(t)', p) <=> Parallel(Step(t), p))
<1> DEFINE G == Own(t).path  q == Step(t)  r == Step(t)'  T == Top(t).path
           k == Own(t).num_children
<1>1. /\ G \in Seq(Label) /\ Len(G) \in Nat /\ k \in Nat /\ k > 0
      /\ q \in Seq(Label) /\ T \in Seq(Label) /\ Under(T, q) /\ Under(G, q)
      /\ Len(T) = Len(G) + 1 /\ T[Len(G) + 1] = <<k - 1, "FINISH">> /\ Under(G, T)
      /\ q[Len(G) + 1] = <<k - 1, "FINISH">>
      /\ r \in Seq(Label) /\ r[Len(G) + 1] = <<k, "STEP">> /\ Under(G, r)
  BY WaitView
<1>2. /\ Placed(t) /\ Alive(t) /\ \A d \in Awaited(t) : d \in Task /\ ~ Alive(d)
      /\ Knows(t, u, n)' <=> \/ Knows(t, u, n) \/ (\E d \in Awaited(t) : Knows(d, u, n))
                             \/ u = t /\ n = seg'[t]
      /\ seg[t] \in Nat /\ seg'[t] = seg[t] + 1
  BY DEF Waited, Placed
<1>3. /\ p \in Seq(Label) /\ n <= seg[u] /\ n \in Nat
      /\ Under(G, p) => p[Len(G) + 1][1] < k
      /\ p = q \/ Apart(p, q)
      /\ Knows(t, u, n) <=> p = q \/ ~ Parallel(q, p)
      /\ Under(G, p) => Knows(t, u, n) \/ \E d \in Awaited(t) : Knows(d, u, n)
      /\ \A d \in Awaited(t) : Knows(d, u, n) => Knows(t, u, n) \/ Under(T, p)
  BY <1>2 DEF TreeInv, ItemsInv, FreshInv, FreshBelow, ApartInv, VerdictInv, CompleteInv,
              LocalInv
<1>4. Knows(t, u, n)' <=> Knows(t, u, n) \/ (\E d \in Awaited(t) : Knows(d, u, n))
  BY <1>2, <1>3
<1> HIDE DEF G, q, r, T, k
<1>5. /\ q[Len(G) + 1][1] < r[Len(G) + 1][1]
      /\ Under(G, p) => p[Len(G) + 1][1] <= q[Len(G) + 1][1]
  <2>1. q[Len(G) + 1][1] = k - 1 /\ r[Len(G) + 1][1] = k
    BY <1>1
  <2>2. Under(G, p) => p[Len(G) + 1][1] \in Nat
    <3>1. Under(G, p) => Len(G) + 1 \in 1 .. Len(p)
      BY <1>1, <1>3 DEF Under
    <3>2. QED
      BY <1>3, <3>1, EntryIs
  <2>3. QED
    BY <1>1, <1>3, <2>1, <2>2
<1>6. /\ Apart(p, r)
      /\ IF Under(G, p) /\ p[Len(G) + 1] = q[Len(G) + 1]
         THEN Parallel(r, p) <=> q[Len(G) + 1][2] = "ASYNC"
         ELSE Parallel(r, p) <=> Parallel(q, p)
  BY <1>1, <1>3, <1>5, Follow, Zenon
<1>7. q[Len(G) + 1][2] = "FINISH"
  BY <1>1
<1>8. CASE Under(G, p) /\ p[Len(G) + 1] = q[Len(G) + 1]
  <2>1. ~ Parallel(r, p)
    BY <1>6, <1>7, <1>8
  <2>2. Knows(t, u, n)'
    BY <1>3, <1>4, <1>8
  <2>3. QED
    BY <1>6, <1>8, <2>1, <2>2 DEF G, r
<1>9. CASE ~ (Under(G, p) /\ p[Len(G) + 1] = q[Len(G) + 1])
  <2>1. ~ Under(T, p)
    <3>1. SUFFICES ASSUME Under(T, p) PROVE FALSE
      OBVIOUS
    <3>2. Under(G, p) /\ p[Len(G) + 1] = T[Len(G) + 1]
      BY <1>1, <1>3, <3>1, UnderTrans
    <3>3. QED
      BY <1>1, <1>9, <3>2
  <2>2. p # q
    BY <1>1, <1>9
  <2>3. Parallel(r, p) <=> Parallel(q, p)
    BY <1>6, <1>9
  <2>4. Knows(t, u, n)' <=> Knows(t, u, n)
    BY <1>3, <1>4, <2>1
  <2>5. QED
    BY <1>3, <1>6, <2>2, <2>3, <2>4 DEF G, r, q
<1>10. QED
  BY <1>8, <1>9

(* Another task has above the new step of t what it has above the old one. *)
LEMMA WaitAbove ==
  ASSUME TreeInv, NEW t \in Task, Waited(t), NEW v \in Task, Placed(v), v # t,
         NEW f \in {Own(v), Top(v)}
  PROVE  /\ Under(f.path, Step(t)') <=> Under(f.path, Step(t))
         /\ Under(f.path, Step(t)') =>
              Step(t)'[Len(f.path) + 1] = Step(t)[Len(f.path) + 1]
<1> DEFINE G == Own(t).path  q == Step(t)  r == Step(t)'  e == f.path
<1>1. /\ G \in Seq(Label) /\ Len(G) \in Nat /\ Len(G) > 0
      /\ q \in Seq(Label) /\ Under(G, q) /\ r \in Seq(Label) /\ Under(G, r)
      /\ Len(r) = Len(G) + 1
      /\ \A w \in Task : w # t /\ Alive(w) => ~ Under(G, Step(w))
  BY WaitView
<1>2. Len(e) \in Nat /\ (v # 0 => Alive(v) /\ Under(e, Step(v)) /\ Step(v) \in Seq(Label))
  <2>1. ShapeInv
    BY DEF TreeInv
  <2>2. CASE v = 0
    BY <2>1, <2>2, MainNode
  <2>3. CASE v # 0
    BY <2>1, <2>3, StepIs DEF Placed
  <2>4. QED
    BY <2>2, <2>3
<1>3. v = 0 => Len(e) = 0
  BY MainNode DEF TreeInv
<1> HIDE DEF G, q, r, e
<1>4. \A i \in 1 .. Len(G) : r[i] = q[i]
  BY <1>1 DEF Under
<1>5. Len(q) \in Nat /\ Len(q) > Len(G)
  BY <1>1 DEF Under
<1>6. CASE Len(e) < Len(G)
  <2>1. \A i \in 1 .. Len(e) + 1 : r[i] = q[i]
    BY <1>1, <1>2, <1>4, <1>6
  <2>2. Len(e) < Len(r) /\ Len(e) < Len(q)
    BY <1>1, <1>2, <1>5, <1>6
  <2>3. Under(e, r) <=> Under(e, q)
    BY <1>2, <2>1, <2>2 DEF Under
  <2>4. r[Len(e) + 1] = q[Len(e) + 1]
    BY <1>2, <2>1
  <2>5. QED
    BY <2>3, <2>4 DEF e, r, q
<1>7. CASE ~ Len(e) < Len(G)
  <2>1. v # 0
    BY <1>1, <1>3, <1>7
  <2>2. ASSUME NEW x, x \in {q, r}, Under(e, x) PROVE FALSE
    <3>1. \A i \in 1 .. Len(G) : i \in 1 .. Len(e) /\ x[i] = G[i]
      BY <1>1, <1>2, <1>7, <2>2 DEF Under
    <3>2. \A i \in 1 .. Len(G) : Step(v)[i] = G[i]
      BY <1>2, <2>1, <2>2, <3>1 DEF Under
    <3>3. Len(G) < Len(Step(v))
      BY <1>1, <1>2, <1>7, <2>1 DEF Under
    <3>4. Under(G, Step(v))
      BY <3>2, <3>3 DEF Under
    <3>5. QED
      BY <1>1, <1>2, <2>1, <3>4
  <2>3. QED
    BY <2>2 DEF e, r, q
<1>8. QED
  BY <1>6, <1>7

(* The parts of the invariant, one by one.                                 *)
LEMMA WaitKeepsVerdict ==
  ASSUME TreeInv, NEW t \in Task, Waited(t)
  PROVE  ApartInv' /\ VerdictInv'
<1>1. /\ \A u \in Task : u # t => Keeps(u)
      /\ \A u, n : Knows(t, u, n)' <=> \/ Knows(t, u, n)
                                       \/ \E d \in Awaited(t) : Knows(d, u, n)
                                       \/ u = t /\ n = seg'[t]
      /\ \A u \in Task : ~ Knows(u, t, seg'[t])
      /\ \A u, n, p : Item(u, n, p)' =>
           Item(u, n, p) \/ (u = t /\ n = seg'[t] /\ p = Step(t)')
      /\ UnknownInv /\ ItemsInv /\ Alive(t)
  BY DEF Waited, TreeInv
<1>2. /\ Step(t)' \in Seq(Label)
      /\ \A v \in Task : v # t /\ Alive(v) => ~ Under(Own(t).path, Step(v))
  BY WaitView
<1> DEFINE Fits(u, n, p, v) ==
      /\ (p = Step(v)' /\ u = v /\ n = seg'[v]) \/ Apart(p, Step(v)')
      /\ Knows(v, u, n)' <=> p = Step(v)' \/ ~ Parallel(Step(v)', p)
<1>3. ASSUME NEW u, NEW n, NEW p, Item(u, n, p) PROVE Fits(u, n, p, t)
  <2>1. Apart(p, Step(t)') /\ (Knows(t, u, n)' <=> ~ Parallel(Step(t)', p))
    BY <1>3, WaitFollows
  <2>2. p # Step(t)'
    BY <1>1, <1>2, <1>3, <2>1, ApartBoth DEF ItemsInv
  <2>3. QED
    BY <2>1, <2>2
<1>4. ASSUME NEW u, NEW n, NEW p, Item(u, n, p), NEW v \in Task, Alive(v)', v # t
      PROVE  Fits(u, n, p, v)
  <2>0. Keeps(v)
    BY <1>1, <1>4
  <2>1. /\ Alive(v) /\ Step(v)' = Step(v) /\ seg'[v] = seg[v]
        /\ Knows(v, u, n)' <=> Knows(v, u, n)
    BY <1>4, <2>0 DEF Keeps
  <2>2. /\ (p = Step(v) /\ u = v /\ n = seg[v]) \/ Apart(p, Step(v))
        /\ Knows(v, u, n) <=> p = Step(v) \/ ~ Parallel(Step(v), p)
    BY <1>4, <2>1 DEF TreeInv, ApartInv, VerdictInv
  <2>3. QED
    BY <2>1, <2>2
<1>5. ASSUME NEW n, n = seg'[t], NEW p, p = Step(t)' PROVE Fits(t, n, p, t)
  <2>1. Knows(t, t, n)'
    BY <1>1, <1>5
  <2>2. QED
    BY <1>5, <2>1
<1>6. ASSUME NEW n, n = seg'[t], NEW p, p = Step(t)', NEW v \in Task, Alive(v)', v # t
      PROVE  Fits(t, n, p, v)
  <2>0. Keeps(v)
    BY <1>1, <1>6
  <2>1. Alive(v) /\ Step(v)' = Step(v) /\ (Knows(v, t, n)' <=> Knows(v, t, n))
    BY <1>6, <2>0 DEF Keeps
  <2>2. Item(v, seg[v], Step(v))
    BY <2>1, AliveIsItem
  <2>3. ~ Knows(t, v, seg[v])
    BY <1>1, <1>6, <2>1, OthersUnknown
  <2>4. /\ Step(v) \in Seq(Label)
        /\ Knows(t, v, seg[v]) <=> Step(v) = Step(t) \/ ~ Parallel(Step(t), Step(v))
    BY <1>1, <2>2 DEF TreeInv, ItemsInv, VerdictInv
  <2>5. Parallel(Step(t), Step(v))
    BY <2>3, <2>4
  <2>6. Apart(Step(v), p) /\ Parallel(p, Step(v))
    <3>1. /\ Apart(Step(v), Step(t)')
          /\ Parallel(Step(t)', Step(v)) <=> Parallel(Step(t), Step(v))
      BY <1>2, <1>6, <2>1, <2>2, WaitFollows
    <3>2. QED
      BY <1>6, <2>5, <3>1
  <2>7. p \in Seq(Label)
    BY <1>2, <1>6
  <2>8. Apart(p, Step(v)) /\ Parallel(Step(v), p) /\ p # Step(v)
    BY <2>4, <2>6, <2>7, ApartBoth
  <2>9. ~ Knows(v, t, n)
    BY <1>1, <1>6
  <2>10. QED
    BY <2>1, <2>8, <2>9
<1>7. ASSUME NEW u, NEW n, NEW p, Item(u, n, p)', NEW v \in Task, Alive(v)'
      PROVE  Fits(u, n, p, v)
  <2>1. CASE Item(u, n, p)
    BY <1>3, <1>4, <1>7, <2>1
  <2>2. CASE u = t /\ n = seg'[t] /\ p = Step(t)'
    BY <1>5, <1>6, <1>7, <2>2
  <2>3. QED
    BY <1>1, <1>7, <2>1, <2>2
<1>8. QED
  BY <1>7 DEF ApartInv, VerdictInv

LEMMA WaitKeepsFresh ==
  ASSUME TreeInv, NEW t \in Task, Waited(t)
  PROVE  FreshInv'
<1>1. /\ \A u \in Task : u # t => Keeps(u)
      /\ \A u, n, p : Item(u, n, p)' =>
           Item(u, n, p) \/ (u = t /\ n = seg'[t] /\ p = Step(t)')
      /\ ItemsInv /\ Alive(t) /\ FreshInv
      /\ Own(t)'.path = Own(t).path /\ Own(t)'.num_children = Own(t).num_children + 1
      /\ Top(t)' = Own(t)'
  BY DEF Waited, TreeInv
<1>2. /\ Own(t).path \in Seq(Label) /\ Len(Own(t).path) \in Nat /\ Own(t).num_children \in Nat
      /\ Step(t)'[Len(Own(t).path) + 1] = <<Own(t).num_children, "STEP">>
  BY WaitView
<1> DEFINE Below(f, p) == Under(f.path, p) => p[Len(f.path) + 1][1] < f.num_children
<1>3. \A v \in Task : Placed(v) => \A f \in {Own(v), Top(v)} :
        \A u, n, p : Item(u, n, p) => Below(f, p)
  BY <1>1 DEF FreshInv, FreshBelow
<1>4. ASSUME NEW v \in Task, Placed(v), v # t, NEW f \in {Own(v), Top(v)},
             NEW u, NEW n, NEW p, Item(u, n, p)'
      PROVE  Below(f, p)
  <2>1. CASE Item(u, n, p)
    BY <1>3, <1>4, <2>1
  <2>2. CASE p = Step(t)'
    <3>1. /\ Under(f.path, p) <=> Under(f.path, Step(t))
          /\ Under(f.path, p) => p[Len(f.path) + 1] = Step(t)[Len(f.path) + 1]
      BY <1>4, <2>2, WaitAbove
    <3>2. Below(f, Step(t))
      BY <1>1, <1>3, <1>4, AliveIsItem
    <3>3. QED
      BY <3>1, <3>2
  <2>3. QED
    BY <1>1, <1>4, <2>1, <2>2
<1>5. ASSUME NEW u, NEW n, NEW p, Item(u, n, p)' PROVE Below(Own(t)', p)
  <2>1. CASE Item(u, n, p)
    <3>1. SUFFICES ASSUME Under(Own(t).path, p)
                   PROVE  p[Len(Own(t).path) + 1][1] < Own(t).num_children + 1
      BY <1>1
    <3>2. p[Len(Own(t).path) + 1][1] < Own(t).num_children
      BY <1>1, <1>3, <2>1, <3>1 DEF Placed
    <3>3. p[Len(Own(t).path) + 1][1] \in Nat
      <4>1. p \in Seq(Label)
        BY <1>1, <2>1 DEF ItemsInv
      <4>2. Len(Own(t).path) + 1 \in 1 .. Len(p)
        BY <1>2, <3>1, <4>1 DEF Under
      <4>3. QED
        BY <4>1, <4>2, EntryIs
    <3>4. QED
      BY <1>2, <3>2, <3>3
  <2>2. CASE p = Step(t)'
    <3>1. p[Len(Own(t).path) + 1][1] = Own(t).num_children
      BY <1>2, <2>2
    <3>2. QED
      BY <1>1, <1>2, <3>1
  <2>3. QED
    BY <1>1, <1>5, <2>1, <2>2
<1>6. ASSUME NEW v \in Task, Placed(v)', NEW u, NEW n, NEW p, Item(u, n, p)'
      PROVE  Below(Own(v)', p) /\ Below(Top(v)', p)
  <2>1. CASE v # t
    <3>1. Placed(v) /\ Own(v)' = Own(v) /\ Top(v)' = Top(v)
      BY <1>1, <1>6, <2>1 DEF Keeps, Placed
    <3>2. QED
      BY <1>4, <1>6, <2>1, <3>1
  <2>2. QED
    BY <1>1, <1>5, <1>6, <2>1
<1>7. QED
  BY <1>6 DEF FreshInv, FreshBelow

LEMMA WaitKeepsDescent ==
  ASSUME TreeInv, NEW t \in Task, Waited(t)
  PROVE  DescentInv' /\ PlaceInv'
<1>1. /\ \A u \in Task : u # t => Keeps(u)
      /\ Alive(t) /\ Alive(t)' /\ Own(t)'.path = Own(t).path /\ Awaited(t)' = {}
      /\ \A u \in Task : Awaited(u) \subseteq Task
      /\ DescentInv /\ PlaceInv
  BY DEF Waited, TreeInv
<1>2. /\ Under(Own(t).path, Step(t)')
      /\ \A v \in Task : v # t /\ Alive(v) => ~ Under(Own(t).path, Step(v))
  BY WaitView
<1>3. \A v \in Task : /\ Alive(v)' <=> Alive(v)
                      /\ Placed(v)' <=> Placed(v)
                      /\ Alive(v) => Own(v)'.path = Own(v).path
                      /\ v # t => Own(v)' = Own(v) /\ Awaited(v)' = Awaited(v)
                      /\ v # t => Step(v)' = Step(v) /\ Top(v)' = Top(v)
  BY <1>1 DEF Keeps, Placed
<1>4. ASSUME NEW w \in Task, Placed(w)', NEW v \in Task, Alive(v)', v # w,
             Under(Own(w)'.path, Step(v)')
      PROVE  \E d \in Awaited(w)' : d \in Task /\ Alive(d)' /\ Under(Own(d)'.path, Step(v)')
  <2>1. w # t
    BY <1>1, <1>2, <1>3, <1>4
  <2>2. Placed(w) /\ Alive(v) /\ Under(Own(w).path, Step(v)')
    BY <1>3, <1>4, <2>1
  <2>3. Under(Own(w).path, Step(v))
    BY <1>3, <2>1, <2>2, WaitAbove
  <2>4. PICK d \in Awaited(w) : d \in Task /\ Alive(d) /\ Under(Own(d).path, Step(v))
    BY <1>1, <1>4, <2>2, <2>3 DEF DescentInv
  <2>5. Under(Own(d).path, Step(v)')
    <3>1. CASE v # t
      BY <1>3, <2>4, <3>1
    <3>2. CASE v = t /\ d = t
      BY <1>2, <3>2
    <3>3. CASE v = t /\ d # t
      BY <2>4, <3>3, WaitAbove DEF Placed
    <3>4. QED
      BY <3>1, <3>2, <3>3
  <2>6. QED
    BY <1>3, <2>1, <2>4, <2>5
<1>5. ASSUME NEW w \in Task, Alive(w)', NEW d \in Awaited(w)', Alive(d)'
      PROVE  Under(Top(w)'.path, Own(d)'.path)
  <2>1. w # t
    BY <1>1, <1>5
  <2>2. d \in Awaited(w) /\ Top(w)' = Top(w) /\ Alive(w)
    BY <1>3, <1>5, <2>1
  <2>3. CASE d = t
    BY <1>1, <2>2, <2>3 DEF PlaceInv
  <2>4. CASE d # t
    <3>1. Alive(d) /\ Own(d)' = Own(d)
      BY <1>1, <1>3, <1>5, <2>2, <2>4
    <3>2. QED
      BY <1>1, <2>2, <3>1 DEF PlaceInv
  <2>5. QED
    BY <2>3, <2>4
<1>6. QED
  BY <1>4, <1>5 DEF DescentInv, PlaceInv

LEMMA WaitKeepsComplete ==
  ASSUME TreeInv, NEW t \in Task, Waited(t), DescentInv'
  PROVE  CompleteInv'
<1>1. /\ \A u \in Task : u # t => Keeps(u)
      /\ Alive(t) /\ Alive(t)' /\ Own(t)'.path = Own(t).path /\ Awaited(t)' = {}
      /\ \A d \in Awaited(t) : ~ Alive(d)
      /\ \A u \in Task : Awaited(u) \subseteq Task
      /\ \A u, n : Knows(t, u, n)' <=> \/ Knows(t, u, n)
                                       \/ \E d \in Awaited(t) : Knows(d, u, n)
                                       \/ u = t /\ n = seg'[t]
      /\ \A u, n, p : Item(u, n, p)' =>
           Item(u, n, p) \/ (u = t /\ n = seg'[t] /\ p = Step(t)')
      /\ CompleteInv
  BY DEF Waited, TreeInv
<1>2. \A v \in Task : /\ Placed(v)' <=> Placed(v)
                      /\ Alive(v) => Alive(v)' /\ Own(v)'.path = Own(v).path
                      /\ Placed(v) => Own(v)'.path = Own(v).path
                      /\ v # t => Awaited(v)' = Awaited(v)
                      /\ \A u, n : Knows(v, u, n) => Knows(v, u, n)'
  BY <1>1 DEF Keeps, Placed
<1>3. ASSUME NEW w \in Task, Placed(w)', NEW u, NEW n, NEW p, Item(u, n, p)',
             Under(Own(w)'.path, p)
      PROVE  \/ Knows(w, u, n)'
             \/ \E d \in Awaited(w)' : Knows(d, u, n)' \/ (Alive(d)' /\ Under(Own(d)'.path, p))
  <2>1. CASE Item(u, n, p)
    <3>1. \/ Knows(w, u, n)
          \/ \E d \in Awaited(w) : Knows(d, u, n) \/ (Alive(d) /\ Under(Own(d).path, p))
      BY <1>1, <1>2, <1>3, <2>1 DEF CompleteInv
    <3>2. CASE w = t
      BY <1>1, <1>2, <3>1, <3>2
    <3>3. CASE w # t /\ ~ Knows(w, u, n)
      <4>1. PICK d \in Awaited(w) : Knows(d, u, n) \/ (Alive(d) /\ Under(Own(d).path, p))
        BY <3>1, <3>3
      <4>2. d \in Task /\ d \in Awaited(w)'
        BY <1>1, <1>2, <3>3, <4>1
      <4>3. Knows(d, u, n) => Knows(d, u, n)'
        BY <1>2, <4>2
      <4>4. Alive(d) => Alive(d)' /\ Own(d)'.path = Own(d).path
        BY <1>2, <4>2
      <4>5. Knows(d, u, n)' \/ (Alive(d)' /\ Under(Own(d)'.path, p))
        BY <4>1, <4>3, <4>4
      <4>6. QED
        BY <4>2, <4>5
    <3>4. QED
      BY <1>2, <3>2, <3>3
  <2>2. CASE u = t /\ n = seg'[t] /\ p = Step(t)'
    <3>1. CASE w = t
      BY <1>1, <2>2, <3>1
    <3>2. CASE w # t
      BY <1>1, <1>3, <2>2, <3>2 DEF DescentInv
    <3>3. QED
      BY <3>1, <3>2
  <2>3. QED
    BY <1>1, <1>3, <2>1, <2>2
<1>4. QED
  BY <1>3 DEF CompleteInv

LEMMA WaitKeepsLocal ==
  ASSUME TreeInv, NEW t \in Task, Waited(t)
  PROVE  LocalInv'
<1>1. /\ \A u \in Task : u # t => Keeps(u)
      /\ Alive(t) /\ Awaited(t)' = {}
      /\ \A u \in Task : Awaited(u) \subseteq Task
      /\ \A u, n : Knows(t, u, n)' <=> \/ Knows(t, u, n)
                                       \/ \E d \in Awaited(t) : Knows(d, u, n)
                                       \/ u = t /\ n = seg'[t]
      /\ \A u \in Task : ~ Knows(u, t, seg'[t])
      /\ \A u, n, p : Item(u, n, p)' =>
           Item(u, n, p) \/ (u = t /\ n = seg'[t] /\ p = Step(t)')
      /\ LocalInv /\ PlaceInv /\ ShapeInv /\ ItemsInv
      /\ seg[t] \in Nat /\ seg'[t] = seg[t] + 1
  BY DEF Waited, TreeInv
<1>2. /\ Under(Own(t).path, Step(t)') /\ Step(t)' \in Seq(Label)
      /\ Own(t).path \in Seq(Label) /\ Top(t).path \in Seq(Label)
      /\ Under(Own(t).path, Top(t).path)
  BY WaitView
<1>3. ASSUME NEW w \in Task, Alive(w)', NEW d \in Awaited(w)',
             NEW u, NEW n, NEW p, Item(u, n, p)', Knows(d, u, n)'
      PROVE  Knows(w, u, n)' \/ Under(Top(w)'.path, p)
  <2>0. w # t
    BY <1>1, <1>3
  <2>1. /\ Alive(w) /\ d \in Awaited(w) /\ d \in Task /\ Top(w)' = Top(w)
        /\ Knows(w, u, n)' <=> Knows(w, u, n)
    BY <1>1, <1>3, <2>0 DEF Keeps
  <2>2. CASE d # t
    <3>1. Knows(d, u, n)
      BY <1>1, <1>3, <2>1, <2>2 DEF Keeps
    <3>2. Item(u, n, p)
      BY <1>1, <1>3, <2>1, <3>1
    <3>3. QED
      BY <1>1, <2>1, <3>1, <3>2 DEF LocalInv
  <2>3. CASE d = t
    <3>1. Under(Top(w).path, Own(t).path) /\ Top(w).path \in Seq(Label)
      BY <1>1, <2>1, <2>3 DEF PlaceInv, ShapeInv
    <3>2. CASE p = Step(t)'
      <4>1. Under(Top(w).path, p)
        BY <1>2, <3>1, <3>2, UnderTrans
      <4>2. QED
        BY <2>1, <4>1
    <3>3. CASE Item(u, n, p)
      <4>1. p \in Seq(Label) /\ n \in Nat /\ n <= seg[u]
        BY <1>1, <3>3 DEF ItemsInv
      <4>2. Knows(t, u, n) \/ \E e \in Awaited(t) : Knows(e, u, n)
        BY <1>1, <1>3, <2>3, <4>1
      <4>3. Knows(t, u, n) \/ Under(Top(t).path, p)
        BY <1>1, <3>3, <4>2 DEF LocalInv
      <4>4. CASE Knows(t, u, n)
        BY <1>1, <2>1, <2>3, <3>3, <4>4 DEF LocalInv
      <4>5. CASE Under(Top(t).path, p)
        <5>1. Under(Own(t).path, p)
          BY <1>2, <4>1, <4>5, UnderTrans
        <5>2. Under(Top(w).path, p)
          BY <1>2, <3>1, <4>1, <5>1, UnderTrans
        <5>3. QED
          BY <2>1, <5>2
      <4>6. QED
        BY <4>3, <4>4, <4>5
    <3>4. QED
      BY <1>1, <1>3, <3>2, <3>3
  <2>4. QED
    BY <2>2, <2>3
<1>4. QED
  BY <1>3 DEF LocalInv

LEMMA WaitKeepsShape ==
  ASSUME TreeInv, NEW t \in Task, Waited(t)
  PROVE  ShapeInv' /\ ItemsInv'
<1>1. /\ \A u \in Task : u # t => Keeps(u)
      /\ Alive(t) /\ One(t)' /\ frames'[0] = frames[0] /\ Awaited(t)' = {}
      /\ Own(t)'.path = Own(t).path /\ Own(t)'.num_children = Own(t).num_children + 1
      /\ Top(t)' = Own(t)'
      /\ Step(t)' = Append(Own(t).path, <<Own(t).num_children, "STEP">>)
      /\ seg[t] \in Nat /\ seg'[t] = seg[t] + 1
      /\ \A u, n, p : Item(u, n, p)' =>
           Item(u, n, p) \/ (u = t /\ n = seg'[t] /\ p = Step(t)')
      /\ ShapeInv /\ ItemsInv
  BY DEF Waited, TreeInv
<1>2. /\ Own(t).path \in Seq(Label) /\ Len(Own(t).path) \in Nat /\ Len(Own(t).path) > 0
      /\ Own(t).num_children \in Nat
      /\ Step(t)' \in Seq(Label) /\ Len(Step(t)') = Len(Own(t).path) + 1
      /\ Under(Own(t).path, Step(t)') /\ Under(Own(t).path, Step(t))
  BY WaitView
<1>3. (\E f \in FrameSet : frames[0] = <<f>> /\ f.path = <<>>)'
  <2>1. PICK f \in FrameSet : frames[0] = <<f>> /\ f.path = <<>>
    BY <1>1 DEF ShapeInv
  <2>2. frames'[0] = <<f>>
    BY <1>1, <2>1
  <2>3. QED
    BY <2>1, <2>2 DEF FrameSet, Label
<1> DEFINE Fits(own, top, step) ==
      /\ own.path \in Seq(Label) /\ Len(own.path) > 0 /\ own.num_children \in Nat
      /\ top.path \in Seq(Label) /\ top.num_children \in Nat /\ top.num_children > 0
      /\ step = Append(top.path, <<top.num_children - 1, "STEP">>)
<1>4. Fits(Own(t)', Top(t)', Step(t)')
  <2>1. PICK k \in Nat : k = Own(t).num_children
    BY <1>2
  <2>2. Own(t)'.num_children = k + 1
    BY <1>1, <2>1
  <2>3. /\ Own(t)'.num_children \in Nat /\ Own(t)'.num_children > 0
        /\ Own(t)'.num_children - 1 = Own(t).num_children
    BY <2>1, <2>2
  <2>4. QED
    BY <1>1, <1>2, <2>3
<1>5. ASSUME NEW v \in Task, Alive(v)'
      PROVE  /\ Fits(Own(v)', Top(v)', Step(v)')
             /\ \/ One(v)' /\ Top(v)' = Own(v)' /\ Awaited(v)' = {}
                \/ /\ Two(v)' /\ Awaited(v)' # {} /\ Own(v)'.num_children > 0
                   /\ Top(v)'.path = Append(Own(v)'.path, <<Own(v)'.num_children - 1, "FINISH">>)
  <2>1. CASE v = t
    BY <1>1, <1>4, <2>1
  <2>2. CASE v # t
    <3>1. /\ Own(v)' = Own(v) /\ Top(v)' = Top(v) /\ Step(v)' = Step(v) /\ Alive(v)
          /\ (One(v)' <=> One(v)) /\ (Two(v)' <=> Two(v)) /\ Awaited(v)' = Awaited(v)
      BY <1>1, <1>5, <2>2 DEF Keeps
    <3>2. /\ Fits(Own(v), Top(v), Step(v))
          /\ \/ One(v) /\ Top(v) = Own(v) /\ Awaited(v) = {}
             \/ /\ Two(v) /\ Awaited(v) # {} /\ Own(v).num_children > 0
                /\ Top(v).path = Append(Own(v).path, <<Own(v).num_children - 1, "FINISH">>)
      BY <1>1, <3>1 DEF ShapeInv
    <3>3. QED
      BY <3>1, <3>2
  <2>3. QED
    BY <2>1, <2>2
<1>6. ShapeInv'
  BY <1>3, <1>5 DEF ShapeInv
<1>7. Step(t)'[1] = Step(t)[1]
  BY <1>2 DEF Under
<1>8. Step(t)[1][2] = "FINISH"
  BY <1>1, AliveIsItem DEF ItemsInv
<1>9. ASSUME NEW u, NEW n, NEW p, Item(u, n, p)'
      PROVE  /\ u \in Task /\ n \in Nat /\ 0 < n /\ n <= seg'[u]
             /\ p \in Seq(Label) /\ Len(p) > 0 /\ p[1][2] = "FINISH"
  <2>1. CASE Item(u, n, p)
    <3>1. /\ u \in Task /\ n \in Nat /\ 0 < n /\ n <= seg[u]
          /\ p \in Seq(Label) /\ Len(p) > 0 /\ p[1][2] = "FINISH"
      BY <1>1, <2>1 DEF ItemsInv
    <3>2. n <= seg'[u]
      BY <1>1, <3>1 DEF Keeps
    <3>3. QED
      BY <3>1, <3>2
  <2>2. CASE u = t /\ n = seg'[t] /\ p = Step(t)'
    BY <1>1, <1>2, <1>7, <1>8, <2>2
  <2>3. QED
    BY <1>1, <1>9, <2>1, <2>2
<1>10. QED
  BY <1>6, <1>9 DEF ItemsInv

(* The end of a wait of another task than main keeps the tree right.       *)
LEMMA WaitKeepsTree ==
  ASSUME TreeInv, NEW t \in Task, Waited(t)
  PROVE  TreeInv'
<1>1. ApartInv' /\ VerdictInv'
  BY WaitKeepsVerdict
<1>2. FreshInv'
  BY WaitKeepsFresh
<1>3. DescentInv' /\ PlaceInv'
  BY WaitKeepsDescent
<1>4. CompleteInv'
  BY <1>3, WaitKeepsComplete
<1>5. LocalInv'
  BY WaitKeepsLocal
<1>6. ShapeInv' /\ ItemsInv'
  BY WaitKeepsShape
<1>7. UnknownInv'
  BY DEF Waited, TreeInv
<1>8. QED
  BY <1>1, <1>2, <1>3, <1>4, <1>5, <1>6, <1>7 DEF TreeInv

(* Main returns from its wait: nobody else is left.                        *)
LEMMA RootWaitKeepsTree ==
  ASSUME TypeInv, Exact, Note, TreeInv, Returns(0)
  PROVE  TreeInv'
<1>0. 0 \in Task
  BY TaskFacts
<1>1. ProgramTypeOK /\ FamilyInv /\ ReturnStep(0) /\ ShapeInv /\ ItemsInv /\ FreshInv
      /\ DescentInv /\ CompleteInv
  BY DEF TypeInv, TypeOK, Returns, TreeInv
<1>2. /\ status'[0] = "running" /\ \A u \in Task : u # 0 => status'[u] = status[u]
      /\ \A c \in Awaited(0) : status[c] = "finished"
      /\ status[0] \in {"waiting", "rootwait"}
  BY <1>0, <1>1, ReturnFacts
<1>3. \A t \in Task : ~ Alive(t) /\ ~ Alive(t)'
  <2>1. \A d \in Awaited(0) : ~ Alive(d)
    BY <1>2 DEF Alive
  <2>2. \A t \in Task : ~ Alive(t)
    BY <1>1, <2>1, MainAlone
  <2>3. QED
    BY <1>2, <2>2 DEF Alive
<1>4. frames' = frames
  <2>1. status[0] # "waiting"
    BY <1>1 DEF FamilyInv, Waits
  <2>2. QED
    BY <2>1 DEF Returns
<1>5. /\ Own(0)' = Own(0) /\ Top(0)' = Top(0) /\ ShapeInv'
  <2>1. Own(0)' = Own(0) /\ Top(0)' = Top(0)
    BY <1>4 DEF Own, Top
  <2>2. PICK h \in FrameSet : frames[0] = <<h>> /\ h.path = <<>>
    BY <1>1 DEF ShapeInv
  <2>3. (\E f \in FrameSet : frames[0] = <<f>> /\ f.path = <<>>)'
    BY <1>4, <2>2 DEF FrameSet, Label
  <2>4. QED
    BY <1>3, <2>1, <2>3 DEF ShapeInv
<1>6. \A u, n, p : Item(u, n, p)' => Item(u, n, p)
  BY <1>3, ItemGrows DEF Item
<1>7. /\ seg'[0] = seg[0] + 1
      /\ \A u \in Task : u # 0 => seg'[u] = seg[u] /\ before'[u] = before[u]
      /\ \A u \in Task : seg[u] \in Nat
  BY <1>0, JoinPast
<1>8. \A u, n : Knows(0, u, n)' <=> \/ Knows(0, u, n)
                                    \/ \E d \in Awaited(0) : Knows(d, u, n)
                                    \/ u = 0 /\ n = seg'[0]
  BY <1>0, JoinKnows
<1>9. ItemsInv'
  <2>1. \A u \in Task : \A n \in Nat : n <= seg[u] => n <= seg'[u]
    BY <1>0, <1>7
  <2>2. QED
    BY <1>1, <1>6, <2>1 DEF ItemsInv
<1>10. \A t \in Task : Placed(t)' => t = 0 /\ Placed(t)
  BY <1>3 DEF Placed
<1>11. FreshInv'
  BY <1>1, <1>5, <1>6, <1>10 DEF FreshInv, FreshBelow
<1>12. CompleteInv'
  <2>1. ASSUME NEW u, NEW n, NEW p, Item(u, n, p)', Under(Own(0)'.path, p)
        PROVE  Knows(0, u, n)'
    <3>1. /\ Item(u, n, p) /\ Under(Own(0).path, p) /\ Placed(0)
      BY <1>5, <1>6, <2>1 DEF Placed
    <3>2. \/ Knows(0, u, n)
          \/ \E d \in Awaited(0) : Knows(d, u, n) \/ (Alive(d) /\ Under(Own(d).path, p))
      BY <1>0, <1>1, <3>1 DEF CompleteInv
    <3>3. \A d \in Awaited(0) : ~ Alive(d)
      BY <1>2 DEF Alive
    <3>4. QED
      BY <1>8, <3>2, <3>3
  <2>2. QED
    BY <1>10, <2>1 DEF CompleteInv
<1>13. /\ ApartInv' /\ VerdictInv' /\ PlaceInv' /\ LocalInv' /\ DescentInv' /\ UnknownInv'
  BY <1>3 DEF ApartInv, VerdictInv, PlaceInv, LocalInv, DescentInv, UnknownInv
<1>14. QED
  BY <1>5, <1>9, <1>11, <1>12, <1>13 DEF TreeInv

-----------------------------------------------------------------------------
(***************************************************************************)
(* All other steps, and the theorem.                                       *)
(***************************************************************************)

(* At most one task ends; nobody else is touched.                          *)
Leaves(T) ==
  /\ \A t \in Task \ T : Keeps(t)
  /\ \A t \in T : t # 0 /\ ~ Alive(t)' /\ Awaited(t) = {}
  /\ frames'[0] = frames[0]
  /\ seg' = seg /\ before' = before
  /\ \A t \in Task : Awaited(t) \subseteq Task
  /\ \A t \in Task : \A u, n : Knows(t, u, n)' <=> Knows(t, u, n)
  /\ \A u, n, p : Item(u, n, p)' => Item(u, n, p)

(* Such a step keeps the tree right.                                       *)
LEMMA LeavesKeepTree ==
  ASSUME TreeInv, NEW T \in SUBSET Task, Leaves(T)
  PROVE  TreeInv'
<1>1. /\ \A t \in Task \ T : Keeps(t)
      /\ \A t \in T : t # 0 /\ ~ Alive(t)' /\ Awaited(t) = {}
      /\ frames'[0] = frames[0]
      /\ seg' = seg /\ before' = before
      /\ \A t \in Task : Awaited(t) \subseteq Task
      /\ \A t \in Task : \A u, n : Knows(t, u, n)' <=> Knows(t, u, n)
      /\ \A u, n, p : Item(u, n, p)' => Item(u, n, p)
  BY DEF Leaves
<1>2. /\ ShapeInv /\ ItemsInv /\ FreshInv /\ ApartInv /\ VerdictInv
      /\ DescentInv /\ PlaceInv /\ CompleteInv /\ LocalInv /\ UnknownInv
  BY DEF TreeInv
<1>3. ASSUME NEW t \in Task, Placed(t)'
      PROVE  /\ t \notin T /\ Placed(t) /\ Own(t)' = Own(t) /\ Top(t)' = Top(t)
             /\ Step(t)' = Step(t) /\ Awaited(t)' = Awaited(t)
             /\ (One(t)' <=> One(t)) /\ (Two(t)' <=> Two(t)) /\ seg'[t] = seg[t]
             /\ Alive(t)' <=> Alive(t)
  <2>1. t \notin T
    BY <1>1, <1>3 DEF Placed
  <2>2. QED
    BY <1>1, <1>3, <2>1 DEF Keeps, Placed
<1>4. \A t \in Task : Alive(t)' => Placed(t)' /\ Alive(t)
  BY <1>3 DEF Placed
<1>5. ShapeInv'
  <2>1. (\E f \in FrameSet : frames[0] = <<f>> /\ f.path = <<>>)'
    <3>1. PICK f \in FrameSet : frames[0] = <<f>> /\ f.path = <<>>
      BY <1>2 DEF ShapeInv
    <3>2. frames'[0] = <<f>>
      BY <1>1, <3>1
    <3>3. QED
      BY <3>1, <3>2 DEF FrameSet, Label
  <2>2. ASSUME NEW t \in Task, Alive(t)'
        PROVE /\ Own(t)'.path \in Seq(Label) /\ Len(Own(t)'.path) > 0
              /\ Own(t)'.num_children \in Nat
              /\ Top(t)'.path \in Seq(Label)
              /\ Top(t)'.num_children \in Nat /\ Top(t)'.num_children > 0
              /\ Step(t)' = Append(Top(t)'.path, <<Top(t)'.num_children - 1, "STEP">>)
              /\ \/ One(t)' /\ Top(t)' = Own(t)' /\ Awaited(t)' = {}
                 \/ /\ Two(t)' /\ Awaited(t)' # {} /\ Own(t)'.num_children > 0
                    /\ Top(t)'.path = Append(Own(t)'.path, <<Own(t)'.num_children - 1, "FINISH">>)
    <3>1. /\ Own(t)' = Own(t) /\ Top(t)' = Top(t) /\ Step(t)' = Step(t) /\ Alive(t)
          /\ (One(t)' <=> One(t)) /\ (Two(t)' <=> Two(t)) /\ Awaited(t)' = Awaited(t)
      BY <1>3, <1>4, <2>2
    <3>2. /\ Own(t).path \in Seq(Label) /\ Len(Own(t).path) > 0
          /\ Own(t).num_children \in Nat
          /\ Top(t).path \in Seq(Label)
          /\ Top(t).num_children \in Nat /\ Top(t).num_children > 0
          /\ Step(t) = Append(Top(t).path, <<Top(t).num_children - 1, "STEP">>)
          /\ \/ One(t) /\ Top(t) = Own(t) /\ Awaited(t) = {}
             \/ /\ Two(t) /\ Awaited(t) # {} /\ Own(t).num_children > 0
                /\ Top(t).path = Append(Own(t).path, <<Own(t).num_children - 1, "FINISH">>)
      BY <1>2, <3>1 DEF ShapeInv
    <3>3. QED
      BY <3>1, <3>2
  <2>3. QED
    BY <2>1, <2>2 DEF ShapeInv
<1>6. ItemsInv'
  BY <1>1, <1>2 DEF ItemsInv
<1>7. FreshInv'
  BY <1>1, <1>2, <1>3 DEF FreshInv, FreshBelow
<1>8. ApartInv' /\ VerdictInv'
  BY <1>1, <1>2, <1>3, <1>4 DEF ApartInv, VerdictInv
<1>9. UnknownInv'
  BY <1>1, <1>2, <1>4 DEF UnknownInv
(* Nobody is below the node of a task that leaves.                         *)
<1>10. ASSUME NEW w \in Task, Placed(w)', NEW v \in Task, Alive(v)', v # w,
              Under(Own(w)'.path, Step(v)')
       PROVE  \E d \in Awaited(w)' : d \in Task /\ Alive(d)' /\ Under(Own(d)'.path, Step(v)')
  <2>1. Placed(w) /\ Own(w)' = Own(w) /\ Alive(v) /\ Step(v)' = Step(v) /\ Awaited(w)' = Awaited(w)
    BY <1>3, <1>4, <1>10
  <2>2. PICK d \in Awaited(w) : d \in Task /\ Alive(d) /\ Under(Own(d).path, Step(v))
    BY <1>2, <1>10, <2>1 DEF DescentInv
  <2>3. d \notin T
    <3>1. SUFFICES ASSUME d \in T PROVE FALSE
      OBVIOUS
    <3>2. d # v /\ Awaited(d) = {}
      BY <1>1, <1>10, <3>1
    <3>3. QED
      BY <1>2, <2>1, <2>2, <3>2 DEF DescentInv, Placed
  <2>4. Alive(d)' /\ Own(d)' = Own(d)
    BY <1>1, <2>2, <2>3 DEF Keeps
  <2>5. QED
    BY <2>1, <2>2, <2>4
<1>11. DescentInv'
  BY <1>10 DEF DescentInv
<1>12. ASSUME NEW t \in Task, Alive(t)', NEW d \in Awaited(t)'
       PROVE  /\ Alive(t) /\ d \in Awaited(t) /\ d \in Task /\ Top(t)' = Top(t)
              /\ Alive(d)' => Alive(d) /\ Own(d)' = Own(d)
  BY <1>1, <1>3, <1>4, <1>12
<1>13. PlaceInv'
  BY <1>2, <1>12 DEF PlaceInv
<1>14. LocalInv'
  BY <1>1, <1>2, <1>12 DEF LocalInv
<1>15. ASSUME NEW w \in Task, Placed(w)', NEW u, NEW n, NEW p, Item(u, n, p)',
              Under(Own(w)'.path, p), ~ Knows(w, u, n)'
       PROVE  \E d \in Awaited(w)' : Knows(d, u, n)' \/ (Alive(d)' /\ Under(Own(d)'.path, p))
  <2>1. Placed(w) /\ Own(w)' = Own(w) /\ Awaited(w)' = Awaited(w) /\ Item(u, n, p)
        /\ ~ Knows(w, u, n)
    BY <1>1, <1>3, <1>15
  <2>2. PICK d \in Awaited(w) : Knows(d, u, n) \/ (Alive(d) /\ Under(Own(d).path, p))
    BY <1>2, <1>15, <2>1 DEF CompleteInv
  <2>3. d \in Task
    BY <1>1, <2>2
  <2>4. Knows(d, u, n) => Knows(d, u, n)'
    BY <1>1, <2>3
  <2>5. CASE d \in T /\ Alive(d) /\ Under(Own(d).path, p)
    <3>1. Knows(d, u, n)
      BY <1>1, <1>2, <2>1, <2>3, <2>5 DEF CompleteInv, Placed
    <3>2. QED
      BY <2>1, <2>2, <2>4, <3>1
  <2>6. CASE d \notin T /\ Alive(d) /\ Under(Own(d).path, p)
    <3>1. Alive(d)' /\ Own(d)' = Own(d)
      BY <1>1, <2>3, <2>6 DEF Keeps
    <3>2. QED
      BY <2>1, <2>2, <2>6, <3>1
  <2>7. CASE Knows(d, u, n)
    BY <2>1, <2>2, <2>4, <2>7
  <2>8. QED
    BY <2>2, <2>5, <2>6, <2>7
<1>16. CompleteInv'
  BY <1>15 DEF CompleteInv
<1>17. QED
  BY <1>5, <1>6, <1>7, <1>8, <1>9, <1>11, <1>13, <1>14, <1>16 DEF TreeInv

(* Everything but a spawn and the end of a wait.                           *)
QuietEvent(t) ==
  \/ Begins(t) \/ Ends(t) \/ Stops(t)
  \/ \E l \in Locks : LockStep(t, l)
  \/ \E kind \in AccessType : Access(t, kind)
  \/ UNCHANGED vars

(* Such an event takes at most one task, the one that ends, off the tree.  *)
LEMMA QuietFrames ==
  ASSUME TypeInv, FullStacks, NEW t \in Task, QuietEvent(t)
  PROVE  \/ /\ t # 0 /\ status[t] = "running" /\ status' = [status EXCEPT ![t] = "finished"]
            /\ Awaited(t) = {} /\ \A u \in Task : u # t => frames'[u] = frames[u]
         \/ /\ frames' = frames
            /\ \A u \in Task : Alive(u)' <=> Alive(u)
<1>0. FamilyInv /\ status \in [Task -> Status]
  BY DEF TypeInv, TypeOK, ProgramTypeOK
<1>1. CASE Ends(t)
  <2>1. /\ t # 0 /\ tbb_children[t] = {} /\ status[t] = "running" /\ TreeReturn(t)
        /\ status' = [status EXCEPT ![t] = "finished"]
    BY <1>1 DEF Ends, ExecEnd, Move
  <2>2. One(t) \/ Two(t)
    BY <2>1 DEF FullStacks
  <2>3. DOMAIN frames = Task /\ frames = [u \in Task |-> frames[u]]
    BY DEF FullStacks
  <2>4. \A u \in Task : u # t => frames'[u] = frames[u]
    BY <2>1, <2>2, <2>3, ReturnStack
  <2>5. tbb_roots[t] = {}
    BY <1>0, <2>1 DEF FamilyInv, Waits
  <2>6. QED
    BY <2>1, <2>4, <2>5 DEF Awaited
<1>2. CASE Begins(t)
  <2>1. /\ frames' = frames /\ status[t] = "ready" /\ status' = [status EXCEPT ![t] = "running"]
    BY <1>2 DEF Begins, ExecBegin, Move
  <2>2. QED
    BY <1>0, <2>1 DEF Alive
<1>3. CASE Stops(t)
  <2>1. frames' = frames
    BY <1>3 DEF Stops, detectorVars
  <2>2. CASE WaitForAll(t)
    BY <1>0, <2>1, <2>2 DEF WaitForAll, Move, Alive
  <2>3. CASE t = 0 /\ MainReturns
    BY <1>0, <2>1, <2>3 DEF MainReturns, Move, Alive
  <2>4. QED
    BY <1>3, <2>2, <2>3 DEF Stops
<1>4. CASE \/ \E l \in Locks : LockStep(t, l)
           \/ \E kind \in AccessType : Access(t, kind)
           \/ UNCHANGED vars
  <2>1. frames' = frames /\ status' = status
    BY <1>4, LockFacts, AccessFacts
       DEF taskStateVars, vars, programVars, detectorVars
  <2>2. QED
    BY <2>1 DEF Alive
<1>5. QED
  BY <1>1, <1>2, <1>3, <1>4 DEF QuietEvent

(* If locks order nothing, nothing else changes that the tree is about.    *)
LEMMA QuietIsLeaves ==
  ASSUME TypeInv, FullStacks, Exact, ~ LockOrder, Note \/ stamps' = stamps,
         NEW t \in Task, QuietEvent(t)
  PROVE  \E T \in SUBSET Task : Leaves(T)
<1>1. Quiet(t)
  BY QuietFacts DEF QuietEvent
<1>2. seg' = seg /\ before' = before
  BY <1>1 DEF Quiet, Exact
<1>3. \A u \in Task : Awaited(u)' = Awaited(u) /\ Awaited(u) \subseteq Task
  BY <1>1 DEF Quiet, Moves, Awaited, TypeInv, TypeOK, ProgramTypeOK
<1>4. ASSUME NEW u \in Task PROVE \A v, n : Knows(u, v, n)' <=> Knows(u, v, n)
  BY <1>2 DEF Knows, PastOf
<1>5. ASSUME NEW T \in SUBSET Task, \A u \in Task \ T : Keeps(u),
             \A u \in T : ~ Alive(u)'
      PROVE  \A u, n, p : Item(u, n, p)' => Item(u, n, p)
  <2>1. ASSUME NEW u, NEW n, NEW p, Item(u, n, p)' PROVE Item(u, n, p)
    <3>1. u # 0 /\ (Stamp(u, n, p) \/ (u \in Task /\ Alive(u)' /\ n = seg'[u] /\ p = Step(u)'))
      BY <2>1, ItemGrows
    <3>2. CASE u \in Task /\ Alive(u)' /\ n = seg'[u] /\ p = Step(u)'
      BY <1>5, <3>1, <3>2 DEF Keeps, Item
    <3>3. QED
      BY <3>1, <3>2 DEF Item
  <2>2. QED
    BY <2>1
<1>6. CASE /\ t # 0 /\ status[t] = "running" /\ status' = [status EXCEPT ![t] = "finished"]
           /\ Awaited(t) = {} /\ \A u \in Task : u # t => frames'[u] = frames[u]
  <2>0. status \in [Task -> Status] /\ 0 \in Task
    BY TaskFacts DEF TypeInv, TypeOK, ProgramTypeOK
  <2>1. ~ Alive(t)' /\ \A u \in Task : u # t => (Alive(u)' <=> Alive(u))
    BY <1>6, <2>0 DEF Alive
  <2>2. \A u \in Task \ {t} : Keeps(u)
    BY <1>2, <1>3, <1>6, <2>1, KeepsIs
  <2>3. {t} \in SUBSET Task /\ \A u \in {t} : ~ Alive(u)'
    BY <2>1
  <2>4. \A u, n, p : Item(u, n, p)' => Item(u, n, p)
    BY <1>5, <2>2, <2>3
  <2>5. frames'[0] = frames[0]
    BY <1>6, <2>0
  <2>6. Leaves({t})
    BY <1>2, <1>3, <1>4, <1>6, <2>1, <2>2, <2>4, <2>5 DEF Leaves
  <2>7. QED
    BY <2>3, <2>6
<1>7. CASE frames' = frames /\ \A u \in Task : Alive(u)' <=> Alive(u)
  <2>1. \A u \in Task : Keeps(u)
    BY <1>2, <1>3, <1>7, KeepsIs
  <2>2. \A u, n, p : Item(u, n, p)' => Item(u, n, p)
    <3>1. {} \in SUBSET Task /\ (\A u \in Task \ {} : Keeps(u)) /\ \A u \in {} : ~ Alive(u)'
      BY <2>1
    <3>2. QED
      BY <1>5, <3>1
  <2>3. Leaves({})
    BY <1>2, <1>3, <1>4, <1>7, <2>1, <2>2 DEF Leaves
  <2>4. QED
    BY <2>3
<1>8. QED
  BY <1>6, <1>7, QuietFrames

LEMMA QuietKeepsTree ==
  ASSUME TypeInv, FullStacks, Exact, ~ LockOrder, TreeInv, Note \/ stamps' = stamps,
         NEW t \in Task, QuietEvent(t)
  PROVE  TreeInv'
<1>1. PICK T \in SUBSET Task : Leaves(T)
  BY QuietIsLeaves
<1>2. QED
  BY <1>1, LeavesKeepTree

LEMMA TreeStart == Init => TreeInv
<1> SUFFICES ASSUME Init PROVE TreeInv
  OBVIOUS
<1>1. /\ stamps = {} /\ \A t \in Task : t # 0 => status[t] = "unborn"
      /\ frames = [t \in Task |-> IF t = 0 THEN <<Frame(<<>>, <<>>, FALSE)>> ELSE <<>>]
  BY DEF Init, TreeInit, ProgramInit
<1>2. \A t \in Task : ~ Alive(t)
  BY <1>1 DEF Alive
<1>3. \A u, n, p : ~ Item(u, n, p)
  BY <1>1, <1>2 DEF Item, Stamp
<1>4. ShapeInv
  <2>1. PICK f : f = Frame(<<>>, <<>>, FALSE)
    OBVIOUS
  <2>2. f \in FrameSet
    <3>1. <<>> \in Seq(Label)
      OBVIOUS
    <3>2. QED
      BY <2>1, <3>1, FrameFacts
  <2>3. f.path = <<>>
    BY <2>1 DEF Frame
  <2>4. frames[0] = <<f>>
    BY <1>1, <2>1, TaskFacts
  <2>5. QED
    BY <1>2, <2>2, <2>3, <2>4 DEF ShapeInv
<1>5. QED
  BY <1>2, <1>3, <1>4
     DEF TreeInv, ItemsInv, FreshInv, FreshBelow, ApartInv, VerdictInv, DescentInv,
         PlaceInv, CompleteInv, LocalInv, UnknownInv

(* A program that is strict has been so.                                   *)
LEMMA NextStrict ==
  ASSUME TypeInv, [Next]_vars, strict'
  PROVE  strict
<1>1. ProgramTypeOK /\ FamilyInv
  BY DEF TypeInv, TypeOK
<1>2. ASSUME NEW t \in Task, Moves(t) PROVE strict
  BY <1>2 DEF Moves
<1>3. ASSUME NEW s \in Task, NEW p \in Task, NEW c \in Task, NEW next,
             SpawnEvent(s, p, c, next)
      PROVE  strict
  BY <1>3 DEF SpawnEvent, ForkStep
<1>4. ASSUME NEW t \in Task, MoveStep(t) PROVE strict
  <2>1. Returns(t) => strict' = strict
    BY <1>1, ReturnFacts DEF Returns
  <2>2. QED
    BY <1>1, <1>2, <1>4, <2>1, MoveIs, MoveFacts
<1>5. CASE UNCHANGED vars
  BY <1>5 DEF vars, programVars, taskStateVars
<1>6. QED
  BY <1>1, <1>2, <1>3, <1>4, <1>5, NextIs, LockFacts, AccessFacts, IdleFacts

(* If the tree records the program in full, it did so before the step; and *)
(* a wait with no child outstanding, which a strict program makes only     *)
(* where nothing is due, was not the step.                                 *)
LEMMA RecordableFrom ==
  ASSUME TypeInv, StackInv, [Next]_vars, Recordable'
  PROVE  Recordable /\ FullStacks /\ ~ \E t \in Task : IdleWait(t)
<1>1. /\ ProgramTypeOK /\ FamilyInv /\ strict \in BOOLEAN /\ due \in [Task -> 0 .. 2]
      /\ strict' /\ \A t \in Task : due'[t] > 0
  BY DEF TypeInv, TypeOK, ProgramTypeOK, Recordable, WaitsMatched
<1>2. WaitsMatched
  <2>1. CASE UNCHANGED vars
    BY <1>1, <2>1 DEF vars, WaitsMatched
  <2>2. QED
    BY <2>1, NextMatched
<1>3. FullStacks /\ NodesDue
  BY <1>2 DEF StackInv
<1>4. strict
  BY <1>1, NextStrict
<1>5. ASSUME NEW t \in Task, IdleWait(t) PROVE FALSE
  <2>1. t # 0 /\ status[t] = "running" /\ tbb_children[t] = {} /\ Settle(t)
    BY <1>5, IdleFacts DEF IdleWait
  <2>2. One(t)
    BY <1>3, <1>4, <2>1 DEF FullStacks, NodesDue
  <2>3. due[t] = 1
    BY <1>3, <2>1, <2>2 DEF NodesDue
  <2>4. due'[t] = 0
    BY <1>1, <2>1, <2>3 DEF Settle
  <2>5. QED
    BY <1>1, <2>4
<1>6. QED
  BY <1>2, <1>3, <1>4, <1>5 DEF Recordable

(* Every step keeps the tree right, as long as the program is recordable.  *)
LEMMA NextTree ==
  ASSUME ~ LockOrder, StrandsInv, StackInv, Recordable => TreeInv, [Next]_vars, Recordable'
  PROVE  TreeInv'
<1>0. Recordable /\ strict /\ strict' /\ FullStacks /\ ~ \E t \in Task : IdleWait(t)
  BY RecordableFrom DEF StrandsInv, Recordable
<1>1. /\ TypeInv /\ FamilyInv /\ ProgramTypeOK /\ SegmentsInv /\ FullStacks /\ strict'
  BY <1>0 DEF StrandsInv, TypeInv, TypeOK, PairInv
<1>2. Exact /\ TreeInv /\ ShapeInv /\ ItemsInv /\ DescentInv
  BY <1>0 DEF StrandsInv, ExactInv, TreeInv
<1>3. ASSUME NEW s \in Task, NEW p \in Task, NEW c \in Task, NEW next,
             SpawnEvent(s, p, c, next), Note
      PROVE  TreeInv'
  <2>1. CASE s = 0
    <3>1. SpawnEvent(0, p, c, next)
      BY <1>3, <2>1
    <3>2. PICK k : Roots(c, k)
      BY <1>1, <1>2, <1>3, <3>1, RootIs, Zenon
    <3>3. QED
      BY <1>2, <3>2, RootKeepsTree, Zenon
  <2>2. CASE s # 0
    <3>1. PICK g, j : Forks(s, c, g, j)
      BY <1>1, <1>2, <1>3, <2>2, ForkIs, Zenon
    <3>2. QED
      BY <1>2, <3>1, ForkKeepsTree, Zenon
  <2>3. QED
    BY <2>1, <2>2
<1>4. ASSUME NEW t \in Task, Returns(t), Note PROVE TreeInv'
  <2>1. CASE t = 0
    <3>1. Returns(0)
      BY <1>4, <2>1
    <3>2. QED
      BY <1>1, <1>2, <1>4, <3>1, RootWaitKeepsTree, Zenon
  <2>2. CASE t # 0
    <3>1. Waited(t)
      BY <1>1, <1>2, <1>4, <2>2, WaitIs, Zenon
    <3>2. QED
      BY <1>2, <3>1, WaitKeepsTree, Zenon
  <2>3. QED
    BY <2>1, <2>2
<1>5. ASSUME NEW t \in Task, QuietEvent(t), Note \/ stamps' = stamps PROVE TreeInv'
  BY <1>1, <1>2, <1>5, QuietKeepsTree, Zenon
<1>6. ASSUME NEW t \in Task, MoveStep(t), Note PROVE TreeInv'
  BY <1>4, <1>5, <1>6, MoveIs DEF QuietEvent
<1>7. CASE UNCHANGED vars
  BY <1>5, <1>7, TaskFacts DEF vars, QuietEvent
<1>8. ASSUME NEW t \in Task, NEW l \in Locks, LockStep(t, l), Note PROVE TreeInv'
  BY <1>5, <1>8 DEF QuietEvent
<1>9. ASSUME NEW t \in Task, NEW kind \in AccessType, Access(t, kind), Note PROVE TreeInv'
  BY <1>5, <1>9 DEF QuietEvent
<1>10. QED
  BY <1>0, <1>1, <1>3, <1>6, <1>7, <1>8, <1>9, NextIs

(***************************************************************************)
(* The query of PTracer and SPD3 is exact, for any number of tasks: in a   *)
(* strict program the tree calls the step in which a task runs parallel to *)
(* a step of another task if and only if the segment run in that step did  *)
(* not happen before, as long as no task has waited without having spawned *)
(* (such a wait takes the node of the task off the stack).  Main's         *)
(* segments are left aside (nothing is recorded when its wait ends), and a *)
(* release must not order the next acquisition: the tree has no node for   *)
(* it.                                                                     *)
(***************************************************************************)
THEOREM StepsAreExact ==
  ASSUME ~ LockOrder
  PROVE  Spec => []StepsExact
<1> DEFINE Inv == StrandsInv /\ StackInv /\ (Recordable => TreeInv)
<1>1. Init => Inv
  <2>1. Init => StackInv
    BY StackStart
  <2>2. QED
    BY <2>1, StrandsInit, TreeStart
<1>2. Inv /\ [Next]_vars => Inv'
  <2>1. SUFFICES ASSUME Inv, [Next]_vars PROVE Inv'
    OBVIOUS
  <2>2. StrandsInv'
    BY <2>1, NextStrands
  <2>3. StackInv'
    BY <2>1, <2>2, NextStack DEF StrandsInv
  <2>4. Recordable' => TreeInv'
    BY <2>1, NextTree
  <2>5. QED
    BY <2>2, <2>3, <2>4
<1>3. Inv => StepsExact
  <2>1. SUFFICES ASSUME Inv, Recordable,
                        NEW t \in Task, NEW s \in stamps,
                        Running(t), t # 0, s[1] \notin {0, t}
                 PROVE  <<s[1], s[2]>> \notin before[t] <=> Parallel(Top(t).step, s[4])
    BY DEF StepsExact
  <2>2. Alive(t) /\ Item(s[1], s[2], s[4])
    BY <2>1 DEF Alive, Running, Item, Stamp
  <2>3. /\ Knows(t, s[1], s[2]) <=> s[4] = Step(t) \/ ~ Parallel(Step(t), s[4])
        /\ Apart(s[4], Step(t))
    BY <2>1, <2>2 DEF TreeInv, VerdictInv, ApartInv
  <2>4. s[4] # Step(t)
    <3>1. s[4] \in Seq(Label)
      BY <2>1, <2>2 DEF TreeInv, ItemsInv
    <3>2. Step(t) \in Seq(Label)
      BY <2>1, <2>2, StepIs DEF TreeInv
    <3>3. QED
      BY <2>3, <3>1, <3>2, ApartBoth
  <2>5. Knows(t, s[1], s[2]) <=> <<s[1], s[2]>> \in before[t]
    BY <2>1 DEF Knows, PastOf
  <2>6. QED
    BY <2>3, <2>4, <2>5 DEF Step
<1>4. QED
  BY <1>1, <1>2, <1>3, PTL DEF Spec

-----------------------------------------------------------------------------
(***************************************************************************)
(* What PTracer and SPD3 report.  First, more about paths.                 *)
(***************************************************************************)

(* Where the two paths part first, p leads to the older child.             *)
OlderAt(p, q, i) == PartAt(p, q, i) /\ p[i][1] < q[i][1]
Older(p, q) == \E i : OlderAt(p, q, i)

(* The node at which p and q part is above the one b leads to.             *)
Between(p, q, b) ==
  \E i : PartAt(p, q, i) /\ \A j \in 1 .. i - 1 : j <= Len(b) /\ b[j] = p[j]

LEMMA PartAtBoth ==
  ASSUME NEW p \in Seq(Label), NEW q \in Seq(Label), NEW i, PartAt(p, q, i)
  PROVE  /\ PartAt(q, p, i) /\ i \in Nat /\ i > 0 /\ i <= Len(p) /\ i <= Len(q)
         /\ Len(p) \in Nat /\ Len(q) \in Nat
         /\ p[i][1] \in Nat /\ q[i][1] \in Nat
<1>1. /\ i \in 1 .. Len(p) /\ i <= Len(q) /\ Len(p) \in Nat /\ Len(q) \in Nat
  BY DEF PartAt
<1>2. i \in 1 .. Len(q) /\ i \in Nat /\ i > 0
  BY <1>1
<1>3. PartAt(q, p, i)
  BY <1>1, <1>2 DEF PartAt
<1>4. QED
  BY <1>1, <1>2, <1>3, EntryIs

(* Two paths part first at one level only.                                 *)
LEMMA PartAtOne ==
  ASSUME NEW p \in Seq(Label), NEW q \in Seq(Label), NEW i, NEW k,
         PartAt(p, q, i), PartAt(p, q, k)
  PROVE  i = k
BY PartingIs

LEMMA OlderIs ==
  ASSUME NEW p \in Seq(Label), NEW q \in Seq(Label), NEW i, OlderAt(p, q, i)
  PROVE  /\ Apart(p, q) /\ Apart(q, p) /\ p # q /\ PartAt(p, q, i)
         /\ Parallel(q, p) <=> p[i][2] = "ASYNC"
<1>1. PartAt(p, q, i) /\ p[i][1] < q[i][1]
  BY DEF OlderAt
<1>2. Apart(p, q) /\ p[i][1] \in Nat /\ q[i][1] \in Nat
  BY <1>1, PartAtBoth DEF Apart
<1>3. Parallel(p, q) <=> p[i][2] = "ASYNC"
  BY <1>1, <1>2, PartingIs
<1>4. QED
  BY <1>1, <1>2, <1>3, ApartBoth

(* What is after two parallel steps is after all that is between them.     *)
LEMMA BetweenKnown ==
  ASSUME NEW p \in Seq(Label), NEW q \in Seq(Label), NEW b \in Seq(Label),
         NEW z \in Seq(Label), Between(p, q, b), Parallel(p, q),
         p = z \/ (Older(p, z) /\ ~ Parallel(z, p)),
         q = z \/ (Older(q, z) /\ ~ Parallel(z, q))
  PROVE  Apart(b, z) /\ ~ Parallel(z, b)
<1>1. PICK i : PartAt(p, q, i) /\ \A j \in 1 .. i - 1 : j <= Len(b) /\ b[j] = p[j]
  BY DEF Between
<1>2. /\ PartAt(q, p, i) /\ i \in Nat /\ i > 0 /\ Apart(p, q)
      /\ p[i][1] \in Nat /\ q[i][1] \in Nat /\ p[i][1] # q[i][1]
      /\ \A j \in 1 .. i - 1 : p[j] = q[j]
  BY <1>1, PartAtBoth DEF Apart, PartAt
<1>3. Parallel(q, p) /\ p # q
  BY <1>2, ApartBoth
<1>4. p # z /\ q # z
  BY <1>3
<1>5. PICK k : OlderAt(p, z, k)
  BY <1>4 DEF Older
<1>6. PICK m : OlderAt(q, z, m)
  BY <1>4 DEF Older
<1>7. p[k][2] # "ASYNC" /\ q[m][2] # "ASYNC" /\ PartAt(p, z, k) /\ PartAt(q, z, m)
  BY <1>4, <1>5, <1>6, OlderIs
<1>8. /\ k \in Nat /\ k > 0 /\ k <= Len(p) /\ k <= Len(z) /\ p[k][1] < z[k][1]
      /\ \A j \in 1 .. k - 1 : p[j] = z[j]
      /\ p[k][1] \in Nat /\ z[k][1] \in Nat
  BY <1>5, <1>7, PartAtBoth DEF OlderAt, PartAt
<1>9. IF q[i][1] < p[i][1] THEN q[i][2] = "ASYNC" ELSE p[i][2] = "ASYNC"
  BY <1>1, PartingIs
<1>10. k < i
  <2>1. ASSUME k > i PROVE FALSE
    <3>1. z[i] = p[i] /\ \A j \in 1 .. i - 1 : z[j] = p[j]
      BY <1>2, <1>8, <2>1
    <3>2. i <= Len(z) /\ Len(z) \in Nat
      BY <1>2, <1>8, <2>1
    <3>3. PartAt(q, z, i)
      BY <1>2, <3>1, <3>2 DEF PartAt
    <3>4. m = i
      BY <1>7, <3>3, PartAtOne
    <3>5. q[i][1] < p[i][1]
      BY <1>6, <3>1, <3>4 DEF OlderAt
    <3>6. QED
      BY <1>7, <1>9, <3>4, <3>5
  <2>2. ASSUME k = i PROVE FALSE
    <3>1. \A j \in 1 .. i - 1 : q[j] = z[j]
      BY <1>2, <1>8, <2>2
    <3>2. q[i][1] < p[i][1] /\ q[i][2] = "ASYNC"
      BY <1>2, <1>7, <1>9, <2>2
    <3>3. q[i][1] # z[i][1] /\ i <= Len(z) /\ i \in 1 .. Len(q)
      BY <1>2, <1>8, <2>2, <3>2 DEF PartAt
    <3>4. PartAt(q, z, i)
      BY <3>1, <3>3 DEF PartAt
    <3>5. m = i
      BY <1>7, <3>4, PartAtOne
    <3>6. QED
      BY <1>7, <3>2, <3>5
  <2>3. QED
    BY <1>2, <1>8, <2>1, <2>2
<1>11. k \in 1 .. i - 1
  BY <1>2, <1>8, <1>10
<1>12. /\ b[k] = p[k] /\ k <= Len(b) /\ Len(b) \in Nat
       /\ \A j \in 1 .. k - 1 : b[j] = p[j]
  BY <1>1, <1>2, <1>8, <1>10, <1>11
<1>13. PartAt(b, z, k) /\ b[k][1] < z[k][1]
  BY <1>8, <1>12 DEF PartAt
<1>14. Apart(b, z) /\ ~ Parallel(z, b)
  BY <1>7, <1>12, <1>13, OlderIs DEF OlderAt
<1>15. QED
  BY <1>14

(* A step that does not lift the node between two others is between them.  *)
LEMMA NotHigher ==
  ASSUME NEW p \in Seq(Label), NEW q \in Seq(Label), NEW z \in Seq(Label),
         Apart(p, q), Apart(p, z), ~ LCADepth(p, z) < LCADepth(p, q)
  PROVE  Between(p, q, z)
<1>1. PICK i : PartAt(p, q, i)
  BY DEF Apart
<1>2. PICK k : PartAt(p, z, k)
  BY DEF Apart
<1>3. p # q /\ p # z
  BY ApartBoth
<1>4. LCADepth(p, q) = i - 1 /\ LCADepth(p, z) = k - 1
  BY <1>1, <1>2, <1>3, PartingIs DEF LCADepth
<1>5. i \in Nat /\ k \in Nat /\ i > 0 /\ k > 0 /\ k <= Len(z) /\ Len(z) \in Nat
  BY <1>1, <1>2, PartAtBoth
<1>6. i <= k
  BY <1>4, <1>5
<1>7. \A j \in 1 .. i - 1 : j <= Len(z) /\ j \in 1 .. k - 1
  BY <1>5, <1>6
<1>8. \A j \in 1 .. i - 1 : j <= Len(z) /\ z[j] = p[j]
  BY <1>2, <1>7 DEF PartAt
<1>9. QED
  BY <1>1, <1>8 DEF Between

(* One that does stands for the first of them.                             *)
LEMMA Higher ==
  ASSUME NEW p \in Seq(Label), NEW q \in Seq(Label), NEW z \in Seq(Label),
         Apart(p, q), Apart(p, z), LCADepth(p, z) < LCADepth(p, q),
         NEW b \in Seq(Label), b = p \/ Between(p, q, b)
  PROVE  Between(z, q, b)
<1>1. PICK i : PartAt(p, q, i) /\ (b = p \/ \A j \in 1 .. i - 1 : j <= Len(b) /\ b[j] = p[j])
  BY DEF Apart, Between
<1>2. PICK k : PartAt(p, z, k)
  BY DEF Apart
<1>3. p # q /\ p # z
  BY ApartBoth
<1>4. LCADepth(p, q) = i - 1 /\ LCADepth(p, z) = k - 1
  BY <1>1, <1>2, <1>3, PartingIs DEF LCADepth
<1>5. /\ i \in Nat /\ k \in Nat /\ i > 0 /\ k > 0 /\ k <= Len(z) /\ Len(z) \in Nat
      /\ i <= Len(p) /\ i <= Len(q) /\ Len(p) \in Nat /\ Len(q) \in Nat
      /\ PartAt(z, p, k)
  BY <1>1, <1>2, PartAtBoth
<1>6. k < i
  BY <1>4, <1>5
<1>7. k \in 1 .. i - 1 /\ \A j \in 1 .. k - 1 : j \in 1 .. i - 1
  BY <1>5, <1>6
<1>8. p[k] = q[k] /\ \A j \in 1 .. k - 1 : p[j] = q[j]
  BY <1>1, <1>7 DEF PartAt
<1>9. PartAt(z, q, k)
  <2>1. k \in 1 .. Len(z) /\ k <= Len(q)
    BY <1>5, <1>6
  <2>2. QED
    BY <1>5, <1>8, <2>1 DEF PartAt
<1>10. \A j \in 1 .. k - 1 : j <= Len(b) /\ b[j] = p[j]
  BY <1>1, <1>5, <1>6, <1>7
<1>11. \A j \in 1 .. k - 1 : z[j] = p[j]
  BY <1>5 DEF PartAt
<1>12. QED
  BY <1>9, <1>10, <1>11 DEF Between

(* So is one that is parallel to one of them and after the other.          *)
LEMMA MixedBetween ==
  ASSUME NEW p \in Seq(Label), NEW q \in Seq(Label), NEW z \in Seq(Label),
         Apart(p, q), Apart(p, z), Apart(q, z), Parallel(z, p), ~ Parallel(z, q)
  PROVE  Between(p, q, z) /\ Between(q, p, z)
<1>1. PICK i : PartAt(p, q, i)
  BY DEF Apart
<1>2. PICK k : PartAt(p, z, k)
  BY DEF Apart
<1>3. Parallel(p, z) /\ ~ Parallel(q, z)
  BY ApartBoth
<1>4. /\ i \in Nat /\ k \in Nat /\ i > 0 /\ k > 0 /\ k <= Len(z) /\ Len(z) \in Nat
      /\ i <= Len(q) /\ Len(q) \in Nat /\ PartAt(q, p, i)
  BY <1>1, <1>2, PartAtBoth
<1>5. ~ k < i
  <2>1. SUFFICES ASSUME k < i PROVE FALSE
    OBVIOUS
  <2>2. k \in 1 .. i - 1 /\ (\A j \in 1 .. k - 1 : j \in 1 .. i - 1) /\ k \in 1 .. Len(q)
    BY <1>4, <2>1
  <2>3. p[k] = q[k] /\ \A j \in 1 .. k - 1 : p[j] = q[j]
    BY <1>1, <2>2 DEF PartAt
  <2>4. PartAt(q, z, k)
    BY <1>2, <2>2, <2>3 DEF PartAt
  <2>5. Parallel(p, z) <=> Parallel(q, z)
    BY <1>2, <2>3, <2>4, PartingIs
  <2>6. QED
    BY <1>3, <2>5
<1>6. \A j \in 1 .. i - 1 : j <= Len(z) /\ j \in 1 .. k - 1
  BY <1>4, <1>5
<1>7. \A j \in 1 .. i - 1 : j <= Len(z) /\ z[j] = p[j] /\ z[j] = q[j]
  BY <1>1, <1>2, <1>6 DEF PartAt
<1>8. QED
  BY <1>1, <1>4, <1>7 DEF Between

(* The five steps of the tree of a recordable program.                     *)
RootWaited ==
  \A t \in Task : /\ ~ Alive(t) /\ ~ Alive(t)'
                  /\ \A u, n : Knows(0, u, n) => Knows(0, u, n)'

TreeStep ==
  \/ \E s, c \in Task : \E g, j : Forks(s, c, g, j)
  \/ \E c \in Task : \E k : Roots(c, k)
  \/ \E t \in Task : Waited(t)
  \/ \E T \in SUBSET Task : Leaves(T)
  \/ RootWaited

LEMMA StepsAre ==
  ASSUME ~ LockOrder, StrandsInv, StackInv, Recordable => TreeInv, [Next]_vars, Recordable'
  PROVE  Recordable /\ TreeStep
<1>0. Recordable /\ strict /\ strict' /\ FullStacks /\ ~ \E t \in Task : IdleWait(t)
  BY RecordableFrom DEF StrandsInv, Recordable
<1>1. /\ TypeInv /\ FamilyInv /\ ProgramTypeOK /\ SegmentsInv /\ FullStacks /\ strict'
  BY <1>0 DEF StrandsInv, TypeInv, TypeOK, PairInv
<1>2. Exact /\ TreeInv /\ ShapeInv /\ ItemsInv /\ DescentInv
  BY <1>0 DEF StrandsInv, ExactInv, TreeInv
<1>3. ASSUME NEW s \in Task, NEW p \in Task, NEW c \in Task, NEW next,
             SpawnEvent(s, p, c, next), Note
      PROVE  TreeStep
  <2>1. CASE s = 0
    <3>1. SpawnEvent(0, p, c, next)
      BY <1>3, <2>1
    <3>2. PICK k : Roots(c, k)
      BY <1>1, <1>2, <1>3, <3>1, RootIs, Zenon
    <3>3. QED
      BY <3>2 DEF TreeStep
  <2>2. CASE s # 0
    <3>1. PICK g, j : Forks(s, c, g, j)
      BY <1>1, <1>2, <1>3, <2>2, ForkIs, Zenon
    <3>2. QED
      BY <3>1 DEF TreeStep
  <2>3. QED
    BY <2>1, <2>2
<1>4. ASSUME NEW t \in Task, Returns(t), Note PROVE TreeStep
  <2>1. CASE t = 0
    <3>1. Returns(0) /\ ReturnStep(0)
      BY <1>4, <2>1 DEF Returns
    <3>2. /\ \A u \in Task : u # 0 => status'[u] = status[u]
          /\ \A d \in Awaited(0) : status[d] = "finished"
      BY <1>1, <3>1, TaskFacts, ReturnFacts
    <3>3. \A u \in Task : ~ Alive(u)
      BY <1>2, <3>2, MainAlone DEF Alive
    <3>4. \A u \in Task : ~ Alive(u)'
      BY <3>2, <3>3 DEF Alive
    <3>5. \A u, n : Knows(0, u, n) => Knows(0, u, n)'
      BY <1>1, <3>1, TaskFacts, JoinKnows
    <3>6. RootWaited
      BY <3>3, <3>4, <3>5 DEF RootWaited
    <3>7. QED
      BY <3>6 DEF TreeStep
  <2>2. CASE t # 0
    <3>1. Waited(t)
      BY <1>1, <1>2, <1>4, <2>2, WaitIs, Zenon
    <3>2. QED
      BY <3>1 DEF TreeStep
  <2>3. QED
    BY <2>1, <2>2
<1>5. ASSUME NEW t \in Task, QuietEvent(t), Note \/ stamps' = stamps PROVE TreeStep
  <2>1. PICK T \in SUBSET Task : Leaves(T)
    BY <1>1, <1>2, <1>5, QuietIsLeaves, Zenon
  <2>2. QED
    BY <2>1 DEF TreeStep
<1>6. ASSUME NEW t \in Task, MoveStep(t), Note PROVE TreeStep
  BY <1>4, <1>5, <1>6, MoveIs DEF QuietEvent
<1>7. CASE UNCHANGED vars
  BY <1>0, <1>5, <1>7, TaskFacts DEF vars, QuietEvent
<1>8. ASSUME NEW t \in Task, NEW l \in Locks, LockStep(t, l), Note PROVE TreeStep
  BY <1>5, <1>8 DEF QuietEvent
<1>9. ASSUME NEW t \in Task, NEW kind \in AccessType, Access(t, kind), Note PROVE TreeStep
  BY <1>5, <1>9 DEF QuietEvent
<1>10. QED
  BY <1>0, <1>1, <1>3, <1>6, <1>7, <1>8, <1>9, NextIs

-----------------------------------------------------------------------------
(* What a task knows was run in its own step or in an older one.           *)
OlderInv ==
  \A u, n, p : Item(u, n, p) =>
    \A t \in Task : Alive(t) /\ Knows(t, u, n) => p = Step(t) \/ Older(p, Step(t))

(* From a step q below g a task moves on to a younger one.                 *)
LEMMA OlderMoves ==
  ASSUME NEW g \in Seq(Label), NEW q \in Seq(Label), NEW r \in Seq(Label),
         NEW p \in Seq(Label), Under(g, q), Under(g, r),
         IF Under(g, p) THEN p[Len(g) + 1][1] < r[Len(g) + 1][1] ELSE Older(p, q)
  PROVE  Older(p, r)
<1>1. /\ Len(g) \in Nat /\ Len(r) \in Nat /\ Len(q) \in Nat /\ Len(p) \in Nat
      /\ Len(g) < Len(r) /\ \A i \in 1 .. Len(g) : q[i] = g[i] /\ r[i] = g[i]
  BY DEF Under
<1>2. CASE Under(g, p)
  <2>1. Len(g) + 1 \in 1 .. Len(p) /\ Len(g) + 1 \in 1 .. Len(r) /\ Len(g) + 1 <= Len(r)
        /\ \A i \in 1 .. (Len(g) + 1) - 1 : p[i] = r[i]
    BY <1>1, <1>2 DEF Under
  <2>2. p[Len(g) + 1][1] \in Nat /\ r[Len(g) + 1][1] \in Nat
    BY <2>1, EntryIs
  <2>3. p[Len(g) + 1][1] # r[Len(g) + 1][1]
    BY <1>2, <2>2
  <2>4. OlderAt(p, r, Len(g) + 1)
    BY <1>2, <2>1, <2>3 DEF OlderAt, PartAt
  <2>5. QED
    BY <2>4 DEF Older
<1>3. CASE ~ Under(g, p)
  <2>1. PICK i : PartAt(p, q, i) /\ p[i][1] < q[i][1]
    BY <1>3 DEF Older, OlderAt
  <2>2. i \in 1 .. Len(p) /\ i \in Nat /\ i > 0 /\ \A j \in 1 .. i - 1 : p[j] = q[j]
    BY <2>1 DEF PartAt
  <2>3. i <= Len(g)
    <3>1. SUFFICES ASSUME ~ i <= Len(g) PROVE Under(g, p)
      BY <1>3
    <3>2. \A j \in 1 .. Len(g) : j \in 1 .. i - 1
      BY <1>1, <2>2, <3>1
    <3>3. \A j \in 1 .. Len(g) : p[j] = g[j]
      BY <1>1, <2>2, <3>2
    <3>4. QED
      BY <1>1, <2>2, <3>1, <3>3 DEF Under
  <2>4. i \in 1 .. Len(g) /\ i <= Len(r) /\ \A j \in 1 .. i - 1 : j \in 1 .. Len(g)
    BY <1>1, <2>2, <2>3
  <2>5. r[i] = q[i] /\ \A j \in 1 .. i - 1 : p[j] = r[j]
    BY <1>1, <2>2, <2>4
  <2>6. OlderAt(p, r, i)
    BY <2>1, <2>2, <2>4, <2>5 DEF OlderAt, PartAt
  <2>7. QED
    BY <2>6 DEF Older
<1>4. QED
  BY <1>2, <1>3

(* What a task knows is older than the steps it goes on with.              *)
LEMMA OlderYounger ==
  ASSUME TreeInv, OlderInv, NEW s \in Task, Alive(s), NEW r, Younger(s, r),
         NEW u, NEW n, NEW p, Item(u, n, p), Knows(s, u, n)
  PROVE  Older(p, r)
<1>1. ShapeInv /\ ItemsInv /\ FreshInv
  BY DEF TreeInv
<1> DEFINE T == Top(s).path  k == Top(s).num_children
<1>2. /\ T \in Seq(Label) /\ Len(T) \in Nat /\ k \in Nat
      /\ Step(s) \in Seq(Label) /\ Under(T, Step(s))
  BY <1>1, StepIs
<1>3. /\ r \in Seq(Label) /\ Under(T, r) /\ r[Len(T) + 1][1] >= k
  BY DEF Younger
<1>4. p \in Seq(Label)
  BY <1>1 DEF ItemsInv
<1>5. Under(T, p) => p[Len(T) + 1][1] < k
  BY <1>1 DEF FreshInv, FreshBelow, Placed
<1>6. p = Step(s) \/ Older(p, Step(s))
  BY DEF OlderInv
<1> HIDE DEF T, k
<1>7. Under(T, p) => p[Len(T) + 1][1] < r[Len(T) + 1][1]
  <2>1. SUFFICES ASSUME Under(T, p) PROVE p[Len(T) + 1][1] < r[Len(T) + 1][1]
    OBVIOUS
  <2>2. Len(T) + 1 \in 1 .. Len(p) /\ Len(T) + 1 \in 1 .. Len(r)
    BY <1>2, <1>3, <1>4, <2>1 DEF Under
  <2>3. p[Len(T) + 1][1] \in Nat /\ r[Len(T) + 1][1] \in Nat
    BY <1>3, <1>4, <2>2, EntryIs
  <2>4. QED
    BY <1>2, <1>3, <1>5, <2>1, <2>3
<1>8. ~ Under(T, p) => Older(p, Step(s))
  BY <1>2, <1>6
<1>9. QED
  BY <1>2, <1>3, <1>4, <1>7, <1>8, OlderMoves

LEMMA ForkKeepsOlder ==
  ASSUME TreeInv, OlderInv, NEW s \in Task, NEW c \in Task, NEW g, NEW j, Forks(s, c, g, j)
  PROVE  OlderInv'
<1>1. /\ s # c /\ Alive(s)
      /\ \A t \in Task : t # s /\ t # c => Keeps(t)
      /\ \A u, n : /\ Knows(s, u, n)' <=> Knows(s, u, n) \/ (u = s /\ n = seg'[s])
                   /\ Knows(c, u, n)' <=> Knows(s, u, n) \/ (u = c /\ n = seg'[c])
      /\ \A t \in Task : ~ Knows(t, s, seg'[s]) /\ ~ Knows(t, c, seg'[c])
      /\ \A u, n, p : Item(u, n, p)' =>
           \/ Item(u, n, p) \/ (u = s /\ n = seg'[s] /\ p = Step(s)')
           \/ (u = c /\ n = seg'[c] /\ p = Step(c)')
  BY DEF Forks
<1>2. /\ Younger(s, Step(s)') /\ Younger(s, Step(c)')
      /\ \A u, n, p : Item(u, n, p) => ~ (u = s /\ n = seg'[s]) /\ u # c
  BY ForkView
<1>3. ASSUME NEW u, NEW n, NEW p, Item(u, n, p)', NEW t \in Task, Alive(t)', Knows(t, u, n)'
      PROVE  p = Step(t)' \/ Older(p, Step(t)')
  <2>1. CASE t # s /\ t # c
    <3>1. Step(t)' = Step(t) /\ Alive(t) /\ Knows(t, u, n)
      BY <1>1, <1>3, <2>1 DEF Keeps
    <3>2. Item(u, n, p)
      BY <1>1, <1>3, <3>1
    <3>3. QED
      BY <3>1, <3>2 DEF OlderInv
  <2>2. CASE t = s
    <3>1. CASE Item(u, n, p)
      <4>1. Knows(s, u, n)
        BY <1>1, <1>2, <1>3, <2>2, <3>1
      <4>2. Older(p, Step(s)')
        BY <1>1, <1>2, <3>1, <4>1, OlderYounger
      <4>3. QED
        BY <2>2, <4>2
    <3>2. CASE u = s /\ n = seg'[s] /\ p = Step(s)'
      BY <2>2, <3>2
    <3>3. CASE u = c /\ n = seg'[c] /\ p = Step(c)'
      BY <1>1, <1>3, <2>2, <3>3
    <3>4. QED
      BY <1>1, <1>3, <3>1, <3>2, <3>3
  <2>3. CASE t = c
    <3>1. CASE Item(u, n, p)
      <4>1. Knows(s, u, n)
        BY <1>1, <1>2, <1>3, <2>3, <3>1
      <4>2. Older(p, Step(c)')
        BY <1>1, <1>2, <3>1, <4>1, OlderYounger
      <4>3. QED
        BY <2>3, <4>2
    <3>2. CASE u = s /\ n = seg'[s] /\ p = Step(s)'
      BY <1>1, <1>3, <2>3, <3>2
    <3>3. CASE u = c /\ n = seg'[c] /\ p = Step(c)'
      BY <2>3, <3>3
    <3>4. QED
      BY <1>1, <1>3, <3>1, <3>2, <3>3
  <2>4. QED
    BY <2>1, <2>2, <2>3
<1>4. QED
  BY <1>3 DEF OlderInv

LEMMA RootKeepsOlder ==
  ASSUME TreeInv, OlderInv, NEW c \in Task, NEW k, Roots(c, k)
  PROVE  OlderInv'
<1>1. /\ c # 0 /\ k \in Nat /\ k = Own(0).num_children
      /\ \A t \in Task : Alive(t)' <=> t = c
      /\ StartsAt(Own(c)', <<<<k, "FINISH">>>>) /\ Top(c)' = Own(c)'
      /\ \A u, n, p : Item(u, n, p)' =>
           Item(u, n, p) \/ (u = c /\ n = seg'[c] /\ p = Step(c)')
      /\ ShapeInv /\ ItemsInv /\ FreshInv
  BY DEF Roots, TreeInv
<1> DEFINE A == <<<<k, "FINISH">>>>
<1>2. A \in Seq(Label) /\ Len(A) = 1 /\ A[1] = <<k, "FINISH">> /\ Step(c)' = Append(A, <<0, "STEP">>)
  <2>1. <<k, "FINISH">> \in Label
    BY <1>1, LabelFacts
  <2>2. QED
    BY <1>1, <2>1 DEF StartsAt, Step
<1> DEFINE C == Step(c)'
<1> HIDE DEF A, C
<1>3. C \in Seq(Label) /\ Len(C) = 2 /\ C[1] = <<k, "FINISH">>
  <2>1. <<0, "STEP">> \in Label
    BY LabelFacts
  <2>2. PICK r : r = Append(A, <<0, "STEP">>)
    OBVIOUS
  <2>3. /\ r \in Seq(Label) /\ Len(r) = Len(A) + 1
        /\ \A i \in 1 .. Len(A) : r[i] = A[i]
    BY <1>2, <2>1, <2>2, AppendIs
  <2>4. C = r
    BY <1>2, <2>2 DEF C
  <2>5. QED
    BY <1>2, <2>3, <2>4
<1>4. ASSUME NEW u, NEW n, NEW p, Item(u, n, p) PROVE Older(p, C)
  <2>1. p \in Seq(Label) /\ Len(p) > 0
    BY <1>1, <1>4 DEF ItemsInv
  <2>2. Under(Own(0).path, p) /\ Len(Own(0).path) = 0 /\ Placed(0)
    BY <1>1, <2>1, MainNode DEF Placed
  <2>3. p[Len(Own(0).path) + 1][1] < Own(0).num_children /\ Len(Own(0).path) + 1 = 1
    BY <1>1, <1>4, <2>2, TaskFacts DEF FreshInv, FreshBelow
  <2>4. p[1][1] < C[1][1]
    BY <1>1, <1>3, <2>3
  <2>5. 1 \in 1 .. Len(p) /\ 1 \in 1 .. Len(C) /\ 1 <= Len(C)
    BY <1>3, <2>1
  <2>6. p[1][1] \in Nat /\ C[1][1] \in Nat
    BY <1>3, <2>1, <2>5, EntryIs
  <2>7. p[1][1] # C[1][1]
    BY <2>4, <2>6
  <2>8. OlderAt(p, C, 1)
    BY <2>4, <2>5, <2>7 DEF OlderAt, PartAt
  <2>9. QED
    BY <2>8 DEF Older
<1>5. QED
  BY <1>1, <1>4 DEF OlderInv, C

LEMMA WaitKeepsOlder ==
  ASSUME TreeInv, OlderInv, NEW t \in Task, Waited(t)
  PROVE  OlderInv'
<1>1. /\ \A v \in Task : v # t => Keeps(v)
      /\ \A v \in Task : ~ Knows(v, t, seg'[t])
      /\ \A u, n, p : Item(u, n, p)' =>
           Item(u, n, p) \/ (u = t /\ n = seg'[t] /\ p = Step(t)')
      /\ Alive(t)
  BY DEF Waited
<1>2. /\ Own(t).path \in Seq(Label) /\ Len(Own(t).path) \in Nat
      /\ Own(t).num_children \in Nat
      /\ Step(t) \in Seq(Label) /\ Under(Own(t).path, Step(t))
      /\ Step(t)' \in Seq(Label) /\ Under(Own(t).path, Step(t)')
      /\ Step(t)'[Len(Own(t).path) + 1] = <<Own(t).num_children, "STEP">>
  BY WaitView
<1>3. ASSUME NEW u, NEW n, NEW p, Item(u, n, p), Knows(t, u, n)'
      PROVE  Older(p, Step(t)')
  <2>1. p \in Seq(Label)
    BY <1>3 DEF TreeInv, ItemsInv
  <2>2. Under(Own(t).path, p) => p[Len(Own(t).path) + 1][1] < Step(t)'[Len(Own(t).path) + 1][1]
    <3>1. Under(Own(t).path, p) => p[Len(Own(t).path) + 1][1] < Own(t).num_children
      BY <1>1, <1>3 DEF TreeInv, FreshInv, FreshBelow, Placed
    <3>2. Step(t)'[Len(Own(t).path) + 1][1] = Own(t).num_children
      BY <1>2
    <3>3. QED
      BY <3>1, <3>2
  <2>3. ASSUME ~ Under(Own(t).path, p) PROVE Older(p, Step(t))
    <3>1. ~ Parallel(Step(t)', p)
      BY <1>3, WaitFollows
    <3>2. ~ Parallel(Step(t), p)
      BY <1>3, <2>3, <3>1, WaitFollows
    <3>3. Knows(t, u, n)
      BY <1>1, <1>3, <3>2 DEF TreeInv, VerdictInv
    <3>4. p # Step(t)
      BY <1>2, <2>3
    <3>5. QED
      BY <1>1, <1>3, <3>3, <3>4 DEF OlderInv
  <2>4. QED
    BY <1>2, <2>1, <2>2, <2>3, OlderMoves
<1>4. ASSUME NEW u, NEW n, NEW p, Item(u, n, p)', NEW v \in Task, Alive(v)', Knows(v, u, n)'
      PROVE  p = Step(v)' \/ Older(p, Step(v)')
  <2>1. CASE v # t
    <3>1. Step(v)' = Step(v) /\ Alive(v) /\ Knows(v, u, n)
      BY <1>1, <1>4, <2>1 DEF Keeps
    <3>2. Item(u, n, p)
      BY <1>1, <1>4, <3>1
    <3>3. QED
      BY <3>1, <3>2 DEF OlderInv
  <2>2. CASE v = t
    BY <1>1, <1>3, <1>4, <2>2
  <2>3. QED
    BY <2>1, <2>2
<1>5. QED
  BY <1>4 DEF OlderInv

LEMMA LeavesKeepOlder ==
  ASSUME OlderInv, NEW T \in SUBSET Task, Leaves(T)
  PROVE  OlderInv'
<1>1. /\ \A t \in Task \ T : Keeps(t)
      /\ \A t \in T : ~ Alive(t)'
      /\ \A u, n, p : Item(u, n, p)' => Item(u, n, p)
  BY DEF Leaves
<1>2. ASSUME NEW u, NEW n, NEW p, Item(u, n, p)', NEW v \in Task, Alive(v)', Knows(v, u, n)'
      PROVE  p = Step(v)' \/ Older(p, Step(v)')
  <2>1. Step(v)' = Step(v) /\ Alive(v) /\ Knows(v, u, n) /\ Item(u, n, p)
    BY <1>1, <1>2 DEF Keeps
  <2>2. QED
    BY <2>1 DEF OlderInv
<1>3. QED
  BY <1>2 DEF OlderInv

LEMMA NextOlder ==
  ASSUME ~ LockOrder, StrandsInv, StackInv, Recordable => TreeInv /\ OlderInv,
         [Next]_vars, Recordable'
  PROVE  OlderInv'
<1>1. TreeStep /\ TreeInv /\ OlderInv
  BY StepsAre
<1>2. ASSUME RootWaited PROVE OlderInv'
  BY <1>2 DEF RootWaited, OlderInv
<1>3. QED
  BY <1>1, <1>2, ForkKeepsOlder, RootKeepsOlder, WaitKeepsOlder, LeavesKeepOlder, Zenon
     DEF TreeStep

-----------------------------------------------------------------------------
(* Who knows more after a step has learnt it from a task that knew it.     *)
LEMMA KnowledgeFrom ==
  ASSUME ~ LockOrder, StrandsInv, [Next]_vars, strict',
         NEW w \in Task, NEW u \in Task, NEW n \in Nat, 0 < n, n <= seg[u], Knows(w, u, n)'
  PROVE  \E v \in Task : Knows(v, u, n) /\ \A x, y : Knows(v, x, y) => Knows(w, x, y)'
<1>1. /\ TypeInv /\ FamilyInv /\ ProgramTypeOK /\ SegmentsInv
  BY DEF StrandsInv, TypeInv, TypeOK, PairInv
<1>2. ASSUME Knows(w, u, n), \A x, y : Knows(w, x, y) => Knows(w, x, y)'
      PROVE  \E v \in Task : Knows(v, u, n) /\ \A x, y : Knows(v, x, y) => Knows(w, x, y)'
  BY <1>2
<1>3. ASSUME NEW s \in Task, NEW p \in Task, NEW c \in Task, NEW next,
             SpawnEvent(s, p, c, next)
      PROVE  \E v \in Task : Knows(v, u, n) /\ \A x, y : Knows(v, x, y) => Knows(w, x, y)'
  <2>1. /\ seg'[s] = seg[s] + 1 /\ seg'[c] = 1
        /\ before'[s] = before[s] \cup {<<s, seg[s]>>} /\ before'[c] = before'[s]
        /\ \A t \in Task : t # s /\ t # c => seg'[t] = seg[t] /\ before'[t] = before[t]
        /\ \A t \in Task : seg[t] \in Nat
    BY <1>1, <1>3, ForkPast
  <2>2. s # c /\ c = spawned + 1 /\ spawned \in Nat
    BY <1>1, <1>3, ForkFacts DEF SpawnEvent
  <2>3. seg[c] = 0
    <3>1. ~ (c <= spawned)
      BY <2>2
    <3>2. QED
      BY <1>1, <3>1 DEF SegmentsInv
  <2>4. before'[s] = PastOf(s) /\ before'[c] = PastOf(s)
    BY <2>1 DEF PastOf
  <2>5. \A x, y : /\ Knows(s, x, y)' <=> Knows(s, x, y) \/ (x = s /\ y = seg'[s])
                  /\ Knows(c, x, y)' <=> Knows(s, x, y) \/ (x = c /\ y = seg'[c])
    BY <2>4 DEF Knows, PastOf
  <2>6. ~ (u = s /\ n = seg'[s]) /\ ~ (u = c /\ n = seg'[c])
    BY <2>1, <2>3
  <2>7. CASE w = s \/ w = c
    <3>1. Knows(s, u, n) /\ \A x, y : Knows(s, x, y) => Knows(w, x, y)'
      BY <2>5, <2>6, <2>7
    <3>2. QED
      BY <3>1
  <2>8. CASE w # s /\ w # c
    <3>1. PastOf(w)' = PastOf(w)
      BY <2>1, <2>8 DEF PastOf
    <3>2. QED
      BY <1>2, <3>1 DEF Knows
  <2>9. QED
    BY <2>7, <2>8
<1>4. ASSUME NEW t \in Task, Returns(t)
      PROVE  \E v \in Task : Knows(v, u, n) /\ \A x, y : Knows(v, x, y) => Knows(w, x, y)'
  <2>1. \A x, y : Knows(t, x, y)' <=> \/ Knows(t, x, y)
                                      \/ \E d \in Awaited(t) : Knows(d, x, y)
                                      \/ x = t /\ y = seg'[t]
    BY <1>1, <1>4, JoinKnows
  <2>2. /\ seg'[t] = seg[t] + 1 /\ seg[t] \in Nat
        /\ \A v \in Task : v # t => seg'[v] = seg[v] /\ before'[v] = before[v]
    BY <1>1, <1>4, JoinPast
  <2>3. Awaited(t) \subseteq Task
    BY <1>1 DEF ProgramTypeOK, Awaited
  <2>4. ~ (u = t /\ n = seg'[t])
    BY <2>2
  <2>5. CASE w = t
    <3>1. PICK v \in Task : Knows(v, u, n) /\ (v = t \/ v \in Awaited(t))
      BY <2>1, <2>3, <2>4, <2>5
    <3>2. \A x, y : Knows(v, x, y) => Knows(w, x, y)'
      BY <2>1, <2>5, <3>1
    <3>3. QED
      BY <3>1, <3>2
  <2>6. CASE w # t
    <3>1. PastOf(w)' = PastOf(w)
      BY <2>2, <2>6 DEF PastOf
    <3>2. QED
      BY <1>2, <3>1 DEF Knows
  <2>7. QED
    BY <2>5, <2>6
<1>5. ASSUME NEW t \in Task, QuietEvent(t)
      PROVE  \E v \in Task : Knows(v, u, n) /\ \A x, y : Knows(v, x, y) => Knows(w, x, y)'
  <2>1. Quiet(t)
    BY <1>1, <1>5, QuietFacts DEF QuietEvent
  <2>2. strict
    BY <2>1 DEF Quiet, Moves
  <2>3. seg' = seg /\ before' = before
    BY <2>1, <2>2 DEF StrandsInv, ExactInv, Exact, Quiet
  <2>4. PastOf(w)' = PastOf(w)
    BY <2>3 DEF PastOf
  <2>5. QED
    BY <1>2, <2>4 DEF Knows
<1>6. ASSUME NEW t \in Task, MoveStep(t)
      PROVE  \E v \in Task : Knows(v, u, n) /\ \A x, y : Knows(v, x, y) => Knows(w, x, y)'
  BY <1>4, <1>5, <1>6, MoveIs DEF QuietEvent
<1>7. ASSUME NEW t \in Task, NEW l \in Locks, LockStep(t, l)
      PROVE  \E v \in Task : Knows(v, u, n) /\ \A x, y : Knows(v, x, y) => Knows(w, x, y)'
  BY <1>5, <1>7 DEF QuietEvent
<1>8. ASSUME NEW t \in Task, NEW kind \in AccessType, Access(t, kind)
      PROVE  \E v \in Task : Knows(v, u, n) /\ \A x, y : Knows(v, x, y) => Knows(w, x, y)'
  BY <1>5, <1>8 DEF QuietEvent
<1>9. CASE UNCHANGED vars
  BY <1>5, <1>9, TaskFacts DEF QuietEvent
<1>10. ASSUME NEW t \in Task, IdleWait(t)
       PROVE  \E v \in Task : Knows(v, u, n) /\ \A x, y : Knows(v, x, y) => Knows(w, x, y)'
  <2>1. PastOf(w)' = PastOf(w)
    BY <1>10, IdleFacts DEF hbVars, orderVars, PastOf
  <2>2. QED
    BY <1>2, <2>1 DEF Knows
<1>11. QED
  BY <1>1, <1>3, <1>6, <1>7, <1>8, <1>9, <1>10, NextIs

(* A task in the tree goes on from one that was, itself or its parent.     *)
LEMMA PlacedFrom ==
  ASSUME TreeStep, NEW w \in Task, Placed(w)'
  PROVE  \E v \in Task : Placed(v) /\ \A x, y : Knows(v, x, y) => Knows(w, x, y)'
<1>1. CASE w = 0
  <2>1. \A x, y : Knows(0, x, y) => Knows(0, x, y)'
    <3>1. ASSUME NEW s \in Task, NEW c \in Task, NEW g, NEW j, Forks(s, c, g, j)
          PROVE  \A x, y : Knows(0, x, y) => Knows(0, x, y)'
      BY <3>1, TaskFacts DEF Forks, Keeps
    <3>2. ASSUME NEW c \in Task, NEW k, Roots(c, k)
          PROVE  \A x, y : Knows(0, x, y) => Knows(0, x, y)'
      BY <3>2 DEF Roots
    <3>3. ASSUME NEW t \in Task, Waited(t) PROVE \A x, y : Knows(0, x, y) => Knows(0, x, y)'
      BY <3>3, TaskFacts DEF Waited, Keeps, Alive
    <3>4. ASSUME NEW T \in SUBSET Task, Leaves(T)
          PROVE  \A x, y : Knows(0, x, y) => Knows(0, x, y)'
      BY <3>4, TaskFacts DEF Leaves
    <3>5. RootWaited => \A x, y : Knows(0, x, y) => Knows(0, x, y)'
      BY TaskFacts DEF RootWaited
    <3>6. QED
      BY <3>1, <3>2, <3>3, <3>4, <3>5, Zenon DEF TreeStep
  <2>2. QED
    BY <1>1, <2>1 DEF Placed
<1>2. ASSUME w # 0, NEW s \in Task, NEW c \in Task, NEW g, NEW j, Forks(s, c, g, j)
      PROVE  \E v \in Task : Placed(v) /\ \A x, y : Knows(v, x, y) => Knows(w, x, y)'
  <2>1. /\ Alive(s) /\ \A t \in Task : t # s /\ t # c => Keeps(t)
        /\ \A x, y : /\ Knows(s, x, y) => Knows(s, x, y)'
                     /\ Knows(s, x, y) => Knows(c, x, y)'
    BY <1>2 DEF Forks
  <2>2. Alive(w)'
    BY <1>2 DEF Placed
  <2>3. CASE w = s \/ w = c
    BY <2>1, <2>3 DEF Placed
  <2>4. CASE w # s /\ w # c
    BY <2>1, <2>2, <2>4 DEF Placed, Keeps
  <2>5. QED
    BY <2>3, <2>4
<1>3. ASSUME w # 0, NEW c \in Task, NEW k, Roots(c, k)
      PROVE  \E v \in Task : Placed(v) /\ \A x, y : Knows(v, x, y) => Knows(w, x, y)'
  <2>1. w = c /\ \A x, y : Knows(0, x, y) => Knows(c, x, y)'
    BY <1>3 DEF Roots, Placed
  <2>2. QED
    BY <2>1, TaskFacts DEF Placed
<1>4. ASSUME w # 0, NEW t \in Task, Waited(t)
      PROVE  \E v \in Task : Placed(v) /\ \A x, y : Knows(v, x, y) => Knows(w, x, y)'
  <2>1. Alive(w)' /\ Alive(t) /\ (\A u \in Task : u # t => Keeps(u))
        /\ \A x, y : Knows(t, x, y) => Knows(t, x, y)'
    BY <1>4 DEF Waited, Placed
  <2>2. Alive(w) /\ \A x, y : Knows(w, x, y) => Knows(w, x, y)'
    BY <2>1 DEF Keeps
  <2>3. QED
    BY <2>2 DEF Placed
<1>5. ASSUME w # 0, NEW T \in SUBSET Task, Leaves(T)
      PROVE  \E v \in Task : Placed(v) /\ \A x, y : Knows(v, x, y) => Knows(w, x, y)'
  <2>1. w \in Task \ T /\ Keeps(w) /\ Alive(w)'
    BY <1>5 DEF Leaves, Placed
  <2>2. Alive(w) /\ \A x, y : Knows(w, x, y) => Knows(w, x, y)'
    BY <2>1 DEF Keeps
  <2>3. QED
    BY <2>2 DEF Placed
<1>6. ~ (w # 0 /\ RootWaited)
  BY DEF RootWaited, Placed
<1>7. QED
  BY <1>1, <1>2, <1>3, <1>4, <1>5, <1>6, Zenon DEF TreeStep

-----------------------------------------------------------------------------
(* A task that runs has been noted with the step it is in (main is, from   *)
(* the first step on).                                                     *)
StampedInv == \A t \in Task : t # 0 /\ Running(t) => Stamp(t, seg[t], Step(t))

(* Nothing is forgotten that was noted.                                    *)
LEMMA StampGrows ==
  ASSUME Note \/ stamps' = stamps, NEW u, NEW n, NEW p, Stamp(u, n, p)
  PROVE  Stamp(u, n, p)'
BY DEF Note, Stamp

LEMMA NextNotes ==
  ASSUME [Next]_vars
  PROVE  Note \/ stamps' = stamps
BY DEF Next, Terminated, vars, IdleWait

LEMMA NextStamped ==
  ASSUME StampedInv, [Next]_vars, ~ \E t \in Task : IdleWait(t)
  PROVE  StampedInv'
<1>1. CASE Note
  <2>1. ASSUME NEW t \in Task, Running(t)' PROVE Stamp(t, seg[t], Step(t))'
    <3>1. <<t, seg'[t], current'[t], Last(frames'[t]).step>> \in stamps'
      BY <1>1, <2>1 DEF Note, Running
    <3>2. PICK r \in stamps' : r = <<t, seg'[t], current'[t], Last(frames'[t]).step>>
      BY <3>1
    <3>3. r[1] = t /\ r[2] = seg'[t] /\ r[4] = Last(frames'[t]).step
      BY <3>2
    <3>4. QED
      BY <3>2, <3>3 DEF Stamp, Step, Top
  <2>2. QED
    BY <2>1 DEF StampedInv
<1>2. CASE UNCHANGED vars
  <2>1. stamps' = stamps /\ status' = status /\ seg' = seg /\ frames' = frames
    BY <1>2 DEF vars, programVars, taskStateVars, hbVars, orderVars, detectorVars
  <2>2. QED
    BY <2>1 DEF StampedInv, Stamp, Running, Step, Top
<1>3. QED
  BY <1>1, <1>2 DEF Next, Terminated

(* What main has accessed all tasks in the tree know.                      *)
MainInv ==
  \A a \in history : a.task = 0 => \A t \in Task : Placed(t) => Knows(t, 0, a.seg)

(* Only an access is put into the history.                                 *)
LEMMA HistoryIs ==
  ASSUME ProgramTypeOK, FamilyInv, [Next]_vars
  PROVE  \/ \E t \in Task, kind \in AccessType : Access(t, kind) /\ Note
         \/ UNCHANGED <<history, raced, ptracerFound, entries, spd3Vars, conflict>>
<1>1. ASSUME NEW s \in Task, NEW p \in Task, NEW c \in Task, NEW next,
             SpawnEvent(s, p, c, next)
      PROVE  UNCHANGED <<history, raced, ptracerFound, entries, spd3Vars, conflict>>
  BY <1>1 DEF SpawnEvent, ForkStep, Create, OtherVars, ptracerVars
<1>2. ASSUME NEW t \in Task, MoveStep(t)
      PROVE  UNCHANGED <<history, raced, ptracerFound, entries, spd3Vars, conflict>>
  <2>1. CASE Returns(t)
    BY <2>1, ReturnFacts DEF Returns, OtherVars, ptracerVars
  <2>2. CASE Begins(t) \/ Ends(t) \/ Stops(t)
    BY <2>2, MoveFacts DEF hbVars, OtherVars, ptracerVars
  <2>3. QED
    BY <1>2, <2>1, <2>2, MoveIs
<1>3. ASSUME NEW t \in Task, NEW l \in Locks, LockStep(t, l)
      PROVE  UNCHANGED <<history, raced, ptracerFound, entries, spd3Vars, conflict>>
  BY <1>3, LockFacts DEF LockStep, LockAcquired, LockReleased
<1>4. CASE UNCHANGED vars
  BY <1>4 DEF vars, programVars, hbVars, detectorVars, ptracerVars
<1>5. ASSUME NEW t \in Task, IdleWait(t)
      PROVE  UNCHANGED <<history, raced, ptracerFound, entries, spd3Vars, conflict>>
  BY <1>5, IdleFacts DEF hbVars, OtherVars, ptracerVars
<1>6. QED
  BY <1>1, <1>2, <1>3, <1>4, <1>5, NextIs

LEMMA NextMain ==
  ASSUME ~ LockOrder, StrandsInv, StackInv, Recordable => TreeInv /\ MainInv,
         [Next]_vars, Recordable'
  PROVE  MainInv'
<1>1. TreeStep /\ TreeInv /\ MainInv
  BY StepsAre
<1>2. /\ TypeInv /\ FamilyInv /\ ProgramTypeOK
  BY DEF StrandsInv, TypeInv, TypeOK
<1>3. ASSUME NEW a \in history, a.task = 0, NEW t \in Task, Placed(t)'
      PROVE  Knows(t, 0, a.seg)'
  <2>1. PICK v \in Task : Placed(v) /\ \A x, y : Knows(v, x, y) => Knows(t, x, y)'
    BY <1>1, <1>3, PlacedFrom
  <2>2. QED
    BY <1>1, <1>3, <2>1 DEF MainInv
<1>4. CASE history' = history
  BY <1>3, <1>4 DEF MainInv
<1>5. ASSUME NEW t \in Task, NEW kind \in AccessType, Access(t, kind), Note
      PROVE  MainInv'
  <2>1. PICK b : b = AccessOf(t, kind, IF LockOrder THEN {} ELSE held[t])
    OBVIOUS
  <2>2. b.task = t /\ b.seg = seg[t]
    BY <2>1 DEF AccessOf
  <2>3. history' = history \cup {b} /\ status[t] = "running"
    BY <1>2, <1>5, <2>1, AccessIs
  <2>4. frames' = frames /\ seg' = seg /\ status' = status
    BY <1>5, AccessFacts DEF taskStateVars, orderVars
  <2>5. ASSUME t = 0, NEW v \in Task, Placed(v)' PROVE Knows(v, 0, b.seg)'
    <3>1. Awaited(0) = {}
      BY <1>2, <2>3, <2>5 DEF FamilyInv, Waits, Awaited
    <3>2. \A x \in Task : ~ Alive(x)
      BY <1>1, <3>1, MainAlone DEF TreeInv
    <3>3. v = 0
      BY <2>4, <2>5, <3>2 DEF Placed, Alive
    <3>4. b.seg = seg'[0]
      BY <2>2, <2>4, <2>5
    <3>5. QED
      BY <3>3, <3>4 DEF Knows, PastOf
  <2>6. ASSUME NEW a \in history', a.task = 0, NEW v \in Task, Placed(v)'
        PROVE  Knows(v, 0, a.seg)'
    <3>1. a \in history \/ a = b
      BY <2>3, <2>6
    <3>2. QED
      BY <1>3, <2>2, <2>5, <2>6, <3>1
  <2>7. QED
    BY <2>6 DEF MainInv
<1>6. QED
  BY <1>2, <1>4, <1>5, HistoryIs

(* What the detectors of races see of the tree.                            *)
ViewInv == ProgramTypeOK /\ SegmentsInv /\ TreeInv /\ OlderInv /\ StampedInv

-----------------------------------------------------------------------------
(***************************************************************************)
(* What a detector keeps of the accesses of one kind: two slots, r and s.  *)
(* The step p is in their span if it is the step of one of them or hangs   *)
(* below their lowest common ancestor.  They cover the access a if there   *)
(* is a segment whose step is in their span, and whoever knows that        *)
(* segment knows the one of a.                                             *)
(***************************************************************************)
SlotOK(r) == r = Nobody \/ (r.task \in Task \ {0} /\ \E n : Stamp(r.task, n, r.step))

SlotsOK(x, y) ==
  /\ SlotOK(x) /\ SlotOK(y) /\ (x = Nobody => y = Nobody)
  /\ y # Nobody => Apart(x.step, y.step) /\ Parallel(x.step, y.step)

InSpan(x, y, p) ==
  \/ x # Nobody /\ p = x.step
  \/ y # Nobody /\ p = y.step
  \/ x # Nobody /\ y # Nobody /\ Between(x.step, y.step, p)

Implies(u, n, a) == \A w \in Task : Knows(w, u, n) => Knows(w, a.task, a.seg)

CoveredBy(a, x, y) ==
  \E u, n, p : u # 0 /\ Stamp(u, n, p) /\ InSpan(x, y, p) /\ Implies(u, n, a)

(* What a task in the tree is told about a slot.                           *)
LEMMA SlotAnswer ==
  ASSUME ViewInv, NEW t \in Task, Alive(t),
         NEW r, r # Nobody, SlotOK(r)
  PROVE  /\ r.step \in Seq(Label) /\ Step(t) \in Seq(Label)
         /\ AreParallel(t, r) =>
              /\ Apart(r.step, Step(t)) /\ Parallel(Step(t), r.step)
              /\ \A n : Stamp(r.task, n, r.step) => ~ Knows(t, r.task, n) /\ r.task # t
         /\ ~ AreParallel(t, r) =>
              r.step = Step(t) \/ (Older(r.step, Step(t)) /\ ~ Parallel(Step(t), r.step))
<1>1. /\ ShapeInv /\ ItemsInv /\ ApartInv /\ VerdictInv /\ OlderInv /\ SegmentsInv
      /\ \A v \in Task : seg[v] \in Nat
  BY DEF ViewInv, TreeInv, ProgramTypeOK
<1>2. PICK n : r.task \in Task /\ Item(r.task, n, r.step) /\ Stamp(r.task, n, r.step)
  BY DEF SlotOK, Item
<1>3. /\ r.step \in Seq(Label) /\ n \in Nat /\ 0 < n /\ n <= seg[r.task]
      /\ Step(t) \in Seq(Label) /\ r.task # 0
  BY <1>1, <1>2, StepIs DEF ItemsInv, Item
<1>4. CASE AreParallel(t, r)
  <2>1. r.task # t /\ Parallel(Step(t), r.step)
    BY <1>4 DEF AreParallel, Step
  <2>2. Apart(r.step, Step(t))
    BY <1>1, <1>2, <2>1 DEF ApartInv
  <2>3. r.step # Step(t)
    BY <1>3, <2>2, ApartBoth
  <2>4. ASSUME NEW m, Stamp(r.task, m, r.step) PROVE ~ Knows(t, r.task, m)
    <3>1. Item(r.task, m, r.step)
      BY <1>3, <2>4 DEF Item
    <3>2. QED
      BY <1>1, <2>1, <2>3, <3>1 DEF VerdictInv
  <2>5. QED
    BY <1>3, <1>4, <2>1, <2>2, <2>4
<1>5. CASE ~ AreParallel(t, r)
  <2>1. CASE r.task = t
    <3>1. Knows(t, r.task, n)
      <4>1. n = seg[t] \/ n < seg[t]
        <5>1. seg[t] \in Nat
          BY <1>1
        <5>2. QED
          BY <1>3, <2>1, <5>1
      <4>2. QED
        BY <1>1, <1>3, <2>1, <4>1 DEF SegmentsInv, Knows, PastOf
    <3>2. r.step = Step(t) \/ ~ Parallel(Step(t), r.step)
      BY <1>1, <1>2, <3>1 DEF VerdictInv
    <3>3. r.step = Step(t) \/ Older(r.step, Step(t))
      BY <1>1, <1>2, <3>1 DEF OlderInv
    <3>4. QED
      BY <1>3, <1>5, <3>2, <3>3
  <2>2. CASE r.task # t
    <3>1. ~ Parallel(Step(t), r.step)
      BY <1>5, <2>2 DEF AreParallel, Step
    <3>2. Knows(t, r.task, n)
      BY <1>1, <1>2, <3>1 DEF VerdictInv
    <3>3. r.step = Step(t) \/ Older(r.step, Step(t))
      BY <1>1, <1>2, <3>2 DEF OlderInv
    <3>4. QED
      BY <1>3, <1>5, <3>1, <3>3
  <2>3. QED
    BY <2>1, <2>2
<1>6. QED
  BY <1>4, <1>5

(* A task that finds neither slot parallel knows all that they cover.      *)
LEMMA CoveredIsKnown ==
  ASSUME ViewInv, NEW t \in Task, Alive(t),
         NEW x, NEW y, SlotsOK(x, y), ~ AreParallel(t, x), ~ AreParallel(t, y),
         NEW a, CoveredBy(a, x, y)
  PROVE  Knows(t, a.task, a.seg)
<1>1. PICK u, n, p : u # 0 /\ Stamp(u, n, p) /\ InSpan(x, y, p) /\ Implies(u, n, a)
  BY DEF CoveredBy
<1>2. Item(u, n, p)
  BY <1>1 DEF Item
<1>3. p \in Seq(Label) /\ Step(t) \in Seq(Label)
  BY <1>2, StepIs DEF ViewInv, TreeInv, ItemsInv
<1>4. /\ x # Nobody => /\ x.step \in Seq(Label)
                       /\ x.step = Step(t) \/ (Older(x.step, Step(t)) /\ ~ Parallel(Step(t), x.step))
      /\ y # Nobody => /\ y.step \in Seq(Label)
                       /\ y.step = Step(t) \/ (Older(y.step, Step(t)) /\ ~ Parallel(Step(t), y.step))
  BY SlotAnswer DEF SlotsOK
<1>5. p = Step(t) \/ ~ Parallel(Step(t), p)
  <2>1. CASE x # Nobody /\ p = x.step
    BY <1>4, <2>1
  <2>2. CASE y # Nobody /\ p = y.step
    BY <1>4, <2>2
  <2>3. CASE x # Nobody /\ y # Nobody /\ Between(x.step, y.step, p)
    <3>1. Parallel(x.step, y.step)
      BY <2>3 DEF SlotsOK
    <3>2. QED
      BY <1>3, <1>4, <2>3, <3>1, BetweenKnown
  <2>4. QED
    BY <1>1, <2>1, <2>2, <2>3 DEF InSpan
<1>6. Knows(t, u, n)
  BY <1>2, <1>5 DEF ViewInv, TreeInv, VerdictInv
<1>7. QED
  BY <1>1, <1>6 DEF Implies

(* Only a task itself knows the segment it is in.                          *)
LEMMA OwnImplies ==
  ASSUME UnknownInv, NEW t \in Task, Alive(t), NEW a, Knows(t, a.task, a.seg)
  PROVE  Implies(t, seg[t], a)
<1>1. ASSUME NEW w \in Task, Knows(w, t, seg[t]) PROVE w = t
  BY <1>1, OthersUnknown
<1>2. QED
  BY <1>1 DEF Implies

(* The accesses the new slots have to cover: those of the old, and that of *)
(* the task itself.                                                        *)
ToCover(t, a, x, y) == CoveredBy(a, x, y) \/ (a.task = t /\ a.seg = seg[t])

(* The access stands in for both slots if neither is parallel to it.       *)
LEMMA ReplaceBoth ==
  ASSUME ViewInv, NEW t \in Task, Alive(t), Running(t),
         NEW x, NEW y, SlotsOK(x, y), ~ AreParallel(t, x), ~ AreParallel(t, y),
         NEW r, r.task = t, r.step = Step(t)
  PROVE  /\ SlotsOK(r, Nobody) /\ r # Nobody
         /\ \A a : ToCover(t, a, x, y) => CoveredBy(a, r, Nobody)
<1>1. r # Nobody /\ t # 0
  BY DEF Nobody, Alive
<1>2. Stamp(t, seg[t], r.step)
  BY <1>1 DEF ViewInv, StampedInv
<1>3. SlotsOK(r, Nobody)
  BY <1>1, <1>2 DEF SlotsOK, SlotOK
<1>4. ASSUME NEW a, ToCover(t, a, x, y) PROVE CoveredBy(a, r, Nobody)
  <2>1. Knows(t, a.task, a.seg)
    <3>1. CASE CoveredBy(a, x, y)
      BY <3>1, CoveredIsKnown
    <3>2. CASE a.task = t /\ a.seg = seg[t]
      BY <3>2 DEF Knows, PastOf
    <3>3. QED
      BY <1>4, <3>1, <3>2 DEF ToCover
  <2>2. Implies(t, seg[t], a)
    BY <2>1, OwnImplies DEF ViewInv, TreeInv
  <2>3. InSpan(r, Nobody, r.step)
    BY <1>1 DEF InSpan
  <2>4. QED
    BY <1>1, <1>2, <2>2, <2>3 DEF CoveredBy
<1>5. QED
  BY <1>1, <1>3, <1>4

(* The two accesses PTracer keeps cover what they did, and the new one.    *)
LEMMA SlotsCover ==
  ASSUME ViewInv, NEW t \in Task, Alive(t), Running(t),
         NEW x, NEW y, SlotsOK(x, y), NEW q, q = Slots(t, x, y)
  PROVE  /\ SlotsOK(q[1], q[2])
         /\ q[1] \in {x, y, Recorded(t)} /\ q[2] \in {x, y, Recorded(t), Nobody}
         /\ \A a : ToCover(t, a, x, y) => CoveredBy(a, q[1], q[2])
<1>1. PICK r : r = Recorded(t)
  OBVIOUS
<1>2. r.task = t /\ r.step = Step(t)
  BY <1>1 DEF Recorded, Step
<1>3. /\ r # Nobody /\ t # 0 /\ SlotOK(r) /\ Stamp(t, seg[t], r.step) /\ r.step \in Seq(Label)
      /\ ~ AreParallel(t, Nobody)
  <2>1. r # Nobody /\ t # 0 /\ ~ AreParallel(t, Nobody)
    BY <1>2 DEF Nobody, Alive, AreParallel
  <2>2. Stamp(t, seg[t], r.step)
    BY <1>2, <2>1 DEF ViewInv, StampedInv
  <2>3. r.step \in Seq(Label)
    BY <1>2, StepIs DEF ViewInv, TreeInv
  <2>4. QED
    BY <1>2, <2>1, <2>2, <2>3 DEF SlotOK
<1>4. SlotOK(x) /\ SlotOK(y) /\ (x = Nobody => y = Nobody)
      /\ (y # Nobody => Apart(x.step, y.step) /\ Parallel(x.step, y.step))
  BY DEF SlotsOK
<1>5. ASSUME NEW z \in {x, y}, z # Nobody
      PROVE  /\ z.step \in Seq(Label)
             /\ AreParallel(t, z) => Apart(z.step, r.step) /\ Parallel(r.step, z.step)
             /\ ~ AreParallel(t, z) =>
                  z.step = r.step \/ (Apart(z.step, r.step) /\ ~ Parallel(r.step, z.step))
  <2>1. /\ z.step \in Seq(Label)
        /\ AreParallel(t, z) => Apart(z.step, r.step) /\ Parallel(r.step, z.step)
        /\ ~ AreParallel(t, z) =>
             z.step = r.step \/ (Older(z.step, r.step) /\ ~ Parallel(r.step, z.step))
    BY <1>2, <1>4, <1>5, SlotAnswer
  <2>2. Older(z.step, r.step) => Apart(z.step, r.step)
    BY DEF Older, OlderAt, Apart
  <2>3. QED
    BY <2>1, <2>2
(* The access of the task itself is covered if its step is in the span.    *)
<1>6. ASSUME NEW v, NEW w, InSpan(v, w, r.step), NEW a, a.task = t, a.seg = seg[t]
      PROVE  CoveredBy(a, v, w)
  <2>1. Implies(t, seg[t], a)
    BY <1>6 DEF Implies
  <2>2. QED
    BY <1>3, <1>6, <2>1 DEF CoveredBy
<1>7. ASSUME NEW v, NEW w, \A p : p \in Seq(Label) /\ InSpan(x, y, p) => InSpan(v, w, p),
             InSpan(v, w, r.step), NEW a, ToCover(t, a, x, y)
      PROVE  CoveredBy(a, v, w)
  <2>1. CASE CoveredBy(a, x, y)
    <3>1. PICK u, n, p : u # 0 /\ Stamp(u, n, p) /\ InSpan(x, y, p) /\ Implies(u, n, a)
      BY <2>1 DEF CoveredBy
    <3>2. p \in Seq(Label)
      BY <3>1 DEF ViewInv, TreeInv, ItemsInv, Item
    <3>3. QED
      BY <1>7, <3>1, <3>2 DEF CoveredBy
  <2>2. QED
    BY <1>6, <1>7, <2>1 DEF ToCover
<1>8. CASE ~ AreParallel(t, x) /\ ~ AreParallel(t, y)
  <2>1. q = <<r, Nobody>>
    BY <1>1, <1>8 DEF Slots
  <2>2. q[1] = r /\ q[2] = Nobody
    BY <2>1
  <2>3. /\ SlotsOK(r, Nobody)
        /\ \A a : ToCover(t, a, x, y) => CoveredBy(a, r, Nobody)
    BY <1>2, <1>8, ReplaceBoth
  <2>4. QED
    BY <1>1, <2>2, <2>3
<1>9. CASE AreParallel(t, x) /\ AreParallel(t, y)
  <2>1. x # Nobody /\ y # Nobody
    BY <1>9 DEF AreParallel
  <2>2. /\ x.step \in Seq(Label) /\ y.step \in Seq(Label)
        /\ Apart(x.step, r.step) /\ Apart(y.step, r.step) /\ Apart(x.step, y.step)
        /\ Parallel(r.step, x.step) /\ Parallel(r.step, y.step) /\ Parallel(x.step, y.step)
        /\ Apart(r.step, y.step)
    <3>1. /\ x.step \in Seq(Label) /\ Apart(x.step, r.step) /\ Parallel(r.step, x.step)
          /\ y.step \in Seq(Label) /\ Apart(y.step, r.step) /\ Parallel(r.step, y.step)
      BY <1>5, <1>9, <2>1
    <3>2. QED
      BY <1>3, <1>4, <2>1, <3>1, ApartBoth
  <2>3. Widens(t, x, y) <=> LCADepth(x.step, r.step) < LCADepth(x.step, y.step)
    BY <1>2 DEF Widens, Step
  <2>4. CASE Widens(t, x, y)
    <3>0. q = <<r, y>>
      BY <1>1, <1>9, <2>1, <2>4, Zenon DEF Slots
    <3>1. q[1] = r /\ q[2] = y
      BY <3>0
    <3>2. SlotsOK(r, y)
      BY <1>3, <1>4, <2>2 DEF SlotsOK
    <3>3. ASSUME NEW p \in Seq(Label), InSpan(x, y, p) PROVE InSpan(r, y, p)
      <4>1. CASE p = y.step
        BY <2>1, <4>1 DEF InSpan
      <4>2. CASE p = x.step \/ Between(x.step, y.step, p)
        <5>1. Between(r.step, y.step, p)
          BY <1>3, <2>2, <2>3, <2>4, <4>2, Higher
        <5>2. QED
          BY <1>3, <2>1, <5>1 DEF InSpan
      <4>3. QED
        BY <3>3, <4>1, <4>2 DEF InSpan
    <3>4. InSpan(r, y, r.step)
      BY <1>3 DEF InSpan
    <3>5. QED
      BY <1>1, <1>7, <3>1, <3>2, <3>3, <3>4
  <2>5. CASE ~ Widens(t, x, y)
    <3>0. q = <<x, y>>
      BY <1>9, <2>1, <2>5, Zenon DEF Slots
    <3>1. q[1] = x /\ q[2] = y
      BY <3>0
    <3>2. Between(x.step, y.step, r.step)
      BY <1>3, <2>2, <2>3, <2>5, NotHigher
    <3>3. InSpan(x, y, r.step)
      BY <2>1, <3>2 DEF InSpan
    <3>4. QED
      BY <1>7, <3>1, <3>3
  <2>6. QED
    BY <2>4, <2>5
<1>10. CASE AreParallel(t, x) /\ ~ AreParallel(t, y) /\ y = Nobody
  <2>1. x # Nobody
    BY <1>10 DEF AreParallel
  <2>2. q = <<x, r>>
    BY <1>1, <1>10 DEF Slots
  <2>3. q[1] = x /\ q[2] = r
    BY <2>2
  <2>4. x.step \in Seq(Label) /\ Apart(x.step, r.step) /\ Parallel(x.step, r.step)
    <3>1. x.step \in Seq(Label) /\ Apart(x.step, r.step) /\ Parallel(r.step, x.step)
      BY <1>5, <1>10, <2>1
    <3>2. QED
      BY <1>3, <3>1, ApartBoth
  <2>5. SlotsOK(x, r)
    BY <1>3, <1>4, <2>1, <2>4 DEF SlotsOK
  <2>6. (\A p : p \in Seq(Label) /\ InSpan(x, y, p) => InSpan(x, r, p)) /\ InSpan(x, r, r.step)
    BY <1>3, <1>10 DEF InSpan
  <2>7. QED
    BY <1>1, <1>7, <2>3, <2>5, <2>6
<1>11. CASE /\ ~ (AreParallel(t, x) <=> AreParallel(t, y)) /\ y # Nobody
  <2>1. x # Nobody
    BY <1>4, <1>11
  <2>2. q = <<x, y>>
    <3>1. /\ ~ (~ AreParallel(t, x) /\ ~ AreParallel(t, y))
          /\ ~ (AreParallel(t, x) /\ AreParallel(t, y))
          /\ ~ (AreParallel(t, x) /\ y = Nobody)
      BY <1>11
    <3>2. QED
      BY <3>1 DEF Slots
  <2>3. q[1] = x /\ q[2] = y
    BY <2>2
  <2>4. x.step \in Seq(Label) /\ y.step \in Seq(Label)
        /\ Apart(x.step, y.step) /\ Apart(y.step, x.step)
    <3>1. x.step \in Seq(Label) /\ y.step \in Seq(Label) /\ Apart(x.step, y.step)
      BY <1>4, <1>5, <1>11, <2>1
    <3>2. QED
      BY <3>1, ApartBoth
  <2>5. InSpan(x, y, r.step)
    <3>1. CASE AreParallel(t, x) /\ ~ AreParallel(t, y)
      <4>1. /\ Apart(x.step, r.step) /\ Parallel(r.step, x.step)
            /\ y.step = r.step \/ (Apart(y.step, r.step) /\ ~ Parallel(r.step, y.step))
        BY <1>5, <1>11, <2>1, <3>1
      <4>2. r.step = y.step \/ Between(x.step, y.step, r.step)
        BY <1>3, <2>4, <4>1, MixedBetween
      <4>3. QED
        BY <1>11, <2>1, <4>2 DEF InSpan
    <3>2. CASE AreParallel(t, y) /\ ~ AreParallel(t, x)
      <4>1. /\ Apart(y.step, r.step) /\ Parallel(r.step, y.step)
            /\ x.step = r.step \/ (Apart(x.step, r.step) /\ ~ Parallel(r.step, x.step))
        BY <1>5, <1>11, <2>1, <3>2
      <4>2. r.step = x.step \/ Between(x.step, y.step, r.step)
        BY <1>3, <2>4, <4>1, MixedBetween
      <4>3. QED
        BY <1>11, <2>1, <4>2 DEF InSpan
    <3>3. QED
      BY <1>11, <3>1, <3>2
  <2>6. QED
    BY <1>7, <2>3, <2>5
<1>12. y = Nobody => ~ AreParallel(t, y)
  BY <1>3
<1>13. QED
  BY <1>8, <1>9, <1>10, <1>11, <1>12

-----------------------------------------------------------------------------
(* What is covered stays covered.                                          *)
LEMMA CoveredKept ==
  ASSUME ~ LockOrder, StrandsInv, strict => ViewInv, [Next]_vars, strict', strict,
         NEW a, NEW x, NEW y, CoveredBy(a, x, y)
  PROVE  CoveredBy(a, x, y)'
<1>1. PICK u, n, p : u # 0 /\ Stamp(u, n, p) /\ InSpan(x, y, p) /\ Implies(u, n, a)
  BY DEF CoveredBy
<1>2. u \in Task /\ n \in Nat /\ 0 < n /\ n <= seg[u]
  BY <1>1 DEF ViewInv, TreeInv, ItemsInv, Item
<1>3. ProgramTypeOK
  BY DEF StrandsInv, TypeInv, TypeOK
<1>4. Stamp(u, n, p)'
  <2>1. Note \/ stamps' = stamps
    BY <1>3, NextNotes
  <2>2. QED
    BY <1>1, <2>1, StampGrows
<1>5. ASSUME NEW w \in Task, Knows(w, u, n)' PROVE Knows(w, a.task, a.seg)'
  <2>1. PICK v \in Task : Knows(v, u, n) /\ \A e, m : Knows(v, e, m) => Knows(w, e, m)'
    BY <1>2, <1>5, KnowledgeFrom
  <2>2. QED
    BY <1>1, <2>1 DEF Implies
<1>6. Implies(u, n, a)'
  BY <1>5 DEF Implies
<1>7. InSpan(x, y, p)'
  BY <1>1 DEF InSpan
<1>8. QED
  BY <1>1, <1>4, <1>6, <1>7 DEF CoveredBy

LEMMA SlotsKept ==
  ASSUME Note \/ stamps' = stamps, NEW x, NEW y, SlotsOK(x, y)
  PROVE  SlotsOK(x, y)'
<1>1. ASSUME NEW r, SlotOK(r) PROVE SlotOK(r)'
  BY <1>1, StampGrows DEF SlotOK
<1>2. QED
  BY <1>1 DEF SlotsOK

-----------------------------------------------------------------------------
(* The accesses of one kind that a slot stands for.                        *)
Made(r, kind) ==
  {a \in history : a.task = r.task /\ a.kind = kind /\ Stamp(a.task, a.seg, r.step)}

SlotMade(r, kind) == r = Nobody \/ (r.task \in Task \ {0} /\ Made(r, kind) # {})

LEMMA MadeIsOK ==
  ASSUME NEW r, NEW kind, SlotMade(r, kind)
  PROVE  SlotOK(r)
BY DEF SlotMade, Made, SlotOK

(* An access in a parallel slot races.                                     *)
LEMMA MadeRaces ==
  ASSUME ViewInv, NEW t \in Task, Alive(t), NEW r, NEW k, SlotMade(r, k), AreParallel(t, r)
  PROVE  Made(r, k) # {} /\ \A a \in Made(r, k) : Concurrent(t, a)
<1>1. r # Nobody /\ r.task \in Task \ {0} /\ Made(r, k) # {} /\ SlotOK(r)
  BY MadeIsOK DEF AreParallel, SlotMade
<1>2. \A n : Stamp(r.task, n, r.step) => ~ Knows(t, r.task, n) /\ r.task # t
  BY <1>1, SlotAnswer
<1>3. ASSUME NEW a \in Made(r, k) PROVE Concurrent(t, a)
  <2>1. ~ Knows(t, a.task, a.seg) /\ a.task # t
    BY <1>2, <1>3 DEF Made
  <2>2. QED
    BY <2>1 DEF Concurrent, Knows, PastOf
<1>4. QED
  BY <1>1, <1>3

LEMMA MadeGrows ==
  ASSUME Note \/ stamps' = stamps, history \subseteq history', NEW r, NEW k
  PROVE  Made(r, k) \subseteq Made(r, k)' /\ (SlotMade(r, k) => SlotMade(r, k)')
<1>1. Made(r, k) \subseteq Made(r, k)'
  BY StampGrows DEF Made
<1>2. QED
  BY <1>1 DEF SlotMade

(* The access of a task other than main is one that its step stands for.   *)
LEMMA MadeNow ==
  ASSUME ~ LockOrder, TypeInv, StampedInv, NEW t \in Task, NEW kind \in AccessType,
         Access(t, kind), Note, NEW b, b = AccessOf(t, kind, held[t]),
         NEW r, r.task = t, r.step = Step(t)
  PROVE  t # 0 => b \in Made(r, kind)' /\ SlotMade(r, kind)'
<1>0. SUFFICES ASSUME t # 0 PROVE b \in Made(r, kind)' /\ SlotMade(r, kind)'
  OBVIOUS
<1>1. b.task = t /\ b.seg = seg[t] /\ b.kind = kind
  BY DEF AccessOf
<1>2. history' = history \cup {b} /\ status[t] = "running"
  BY AccessIs
<1>3. Stamp(t, seg[t], Step(t))
  BY <1>0, <1>2 DEF StampedInv, Running
<1>4. Stamp(b.task, b.seg, r.step)
  BY <1>1, <1>3
<1>5. Stamp(b.task, b.seg, r.step)'
  BY <1>4, StampGrows
<1>6. b \in Made(r, kind)'
  BY <1>1, <1>2, <1>5 DEF Made
<1>7. QED
  BY <1>0, <1>1, <1>6 DEF SlotMade

(* When main runs it knows all that was run.                               *)
LEMMA MainKnows ==
  ASSUME ViewInv, FamilyInv, Running(0), NEW a, NEW x, NEW y, CoveredBy(a, x, y)
  PROVE  Knows(0, a.task, a.seg)
<1>1. PICK u, n, p : u # 0 /\ Stamp(u, n, p) /\ Implies(u, n, a)
  BY DEF CoveredBy
<1>2. Item(u, n, p)
  BY <1>1 DEF Item
<1>3. Awaited(0) = {}
  BY TaskFacts DEF FamilyInv, Waits, Awaited, Running
<1>4. ShapeInv /\ ItemsInv /\ CompleteInv
  BY DEF ViewInv, TreeInv
<1>5. p \in Seq(Label) /\ Len(p) > 0
  BY <1>2, <1>4 DEF ItemsInv
<1>6. Under(Own(0).path, p) /\ Placed(0)
  BY <1>4, <1>5, MainNode DEF Placed
<1>7. Knows(0, u, n)
  BY <1>2, <1>3, <1>4, <1>6, TaskFacts DEF CompleteInv
<1>8. QED
  BY <1>1, <1>7, TaskFacts DEF Implies

(* An access that races with one of t is no access of main.                *)
LEMMA MainRacesNot ==
  ASSUME MainInv, NEW t \in Task, Placed(t), NEW a \in history, Concurrent(t, a)
  PROVE  a.task # 0
BY DEF MainInv, Concurrent, Knows, PastOf

-----------------------------------------------------------------------------
(* What SPD3 keeps for the address: accesses that were made; and until it  *)
(* has reported a race its writer covers all writes.                       *)
SPD3Inv ==
  /\ addr_vec = [wr |-> addr_vec.wr, r1 |-> addr_vec.r1, r2 |-> addr_vec.r2]
  /\ SlotMade(addr_vec.wr, WRITE)
  /\ SlotMade(addr_vec.r1, READ) /\ SlotMade(addr_vec.r2, READ)
  /\ spd3Found => conflict
  /\ ~ spd3Found => \A a \in history : a.kind = WRITE /\ a.task # 0 =>
                      CoveredBy(a, addr_vec.wr, Nobody)

(* What an access leaves in the three slots.                               *)
LEMMA SPD3Leaves ==
  ASSUME SPD3Inv, NEW t, NEW kind \in AccessType, SPD3RecordMem(t, kind)
  PROVE  /\ addr_vec' = [wr |-> addr_vec'.wr, r1 |-> addr_vec'.r1, r2 |-> addr_vec'.r2]
         /\ \/ addr_vec' = addr_vec /\ (t = 0 \/ spd3Found)
            \/ /\ t # 0 /\ ~ spd3Found /\ kind = WRITE /\ addr_vec'.wr = Recorded(t)
               /\ addr_vec'.r1 = addr_vec.r1 /\ addr_vec'.r2 = addr_vec.r2
            \/ /\ t # 0 /\ ~ spd3Found /\ kind = READ /\ addr_vec'.wr = addr_vec.wr
               /\ addr_vec'.r1 \in {addr_vec.r1, Recorded(t)}
               /\ addr_vec'.r2 \in {addr_vec.r2, Recorded(t), Nobody}
<1>1. PICK w, x, y : addr_vec = [wr |-> w, r1 |-> x, r2 |-> y]
                     /\ w = addr_vec.wr /\ x = addr_vec.r1 /\ y = addr_vec.r2
  BY DEF SPD3Inv
<1>2. kind = WRITE \/ (kind = READ /\ kind # WRITE)
  BY DEF AccessType, READ, WRITE
<1>3. CASE t = 0 \/ spd3Found
  <2>1. addr_vec' = addr_vec
    BY <1>3 DEF SPD3RecordMem, Skipped
  <2>2. QED
    BY <1>1, <1>3, <2>1
<1>4. CASE t # 0 /\ ~ spd3Found /\ kind = WRITE
  <2>1. addr_vec' = [addr_vec EXCEPT !.wr = Recorded(t)]
    BY <1>4 DEF SPD3RecordMem, Skipped
  <2>2. addr_vec' = [wr |-> Recorded(t), r1 |-> x, r2 |-> y]
    BY <1>1, <2>1
  <2>3. QED
    BY <1>1, <1>4, <2>2
<1>5. CASE t # 0 /\ ~ spd3Found /\ kind = READ /\ kind # WRITE
  <2>1. PICK e \in {x, Recorded(t)}, f \in {y, Recorded(t), Nobody} : Readers(t, x, y) = <<e, f>>
    BY Zenon DEF Readers
  <2>2. PICK q : q = Readers(t, x, y)
    OBVIOUS
  <2>3. addr_vec' = [addr_vec EXCEPT !.r1 = q[1], !.r2 = q[2]]
    BY <1>1, <1>5, <2>2 DEF SPD3RecordMem, Skipped
  <2>4. q[1] = e /\ q[2] = f
    BY <2>1, <2>2
  <2>5. addr_vec' = [wr |-> w, r1 |-> e, r2 |-> f]
    BY <1>1, <2>3, <2>4
  <2>6. QED
    BY <1>1, <1>5, <2>1, <2>5
<1>6. QED
  BY <1>2, <1>3, <1>4, <1>5

LEMMA AccessKeepsSPD3 ==
  ASSUME ~ LockOrder, StrandsInv, ViewInv, MainInv, SPD3Inv, strict,
         NEW t \in Task, NEW kind \in AccessType, Access(t, kind), Note, [Next]_vars
  PROVE  SPD3Inv'
<1>1. TypeInv /\ StampedInv
  BY DEF StrandsInv, ViewInv
<1>2. PICK b : b = AccessOf(t, kind, held[t])
  OBVIOUS
<1>3. /\ status[t] = "running" /\ strict' = strict
      /\ history' = history \cup {b}
      /\ conflict' = (conflict \/ RacesWith(t, kind, {}) # {})
  BY <1>1, <1>2, AccessIs
<1>4. b.task = t /\ b.seg = seg[t] /\ b.kind = kind
  BY <1>2 DEF AccessOf
<1>5. SPD3RecordMem(t, kind) /\ spd3Found' = (spd3Found \/ SPD3Finds(t, kind))
  BY DEF Access, SPD3RecordMem
<1>6. /\ addr_vec' = [wr |-> addr_vec'.wr, r1 |-> addr_vec'.r1, r2 |-> addr_vec'.r2]
      /\ \/ addr_vec' = addr_vec /\ (t = 0 \/ spd3Found)
         \/ /\ t # 0 /\ ~ spd3Found /\ kind = WRITE /\ addr_vec'.wr = Recorded(t)
            /\ addr_vec'.r1 = addr_vec.r1 /\ addr_vec'.r2 = addr_vec.r2
         \/ /\ t # 0 /\ ~ spd3Found /\ kind = READ /\ addr_vec'.wr = addr_vec.wr
            /\ addr_vec'.r1 \in {addr_vec.r1, Recorded(t)}
            /\ addr_vec'.r2 \in {addr_vec.r2, Recorded(t), Nobody}
  BY <1>5, SPD3Leaves
<1>7. PICK r : r = Recorded(t)
  OBVIOUS
<1>8. r.task = t /\ r.step = Step(t)
  BY <1>7 DEF Recorded, Step
<1>9. t # 0 => SlotMade(r, kind)'
  BY <1>1, <1>2, <1>8, MadeNow
<1>10. t # 0 => Alive(t) /\ Running(t)
  BY <1>3 DEF Alive, Running
<1>11. /\ SlotMade(addr_vec.wr, WRITE)
       /\ SlotMade(addr_vec.r1, READ) /\ SlotMade(addr_vec.r2, READ)
       /\ spd3Found => conflict
       /\ ~ spd3Found => \A a \in history : a.kind = WRITE /\ a.task # 0 =>
                           CoveredBy(a, addr_vec.wr, Nobody)
  BY DEF SPD3Inv
<1>12. \A x, k : SlotMade(x, k) => SlotMade(x, k)'
  BY <1>3, MadeGrows
<1>13. PICK w, x, y : w = addr_vec'.wr /\ x = addr_vec'.r1 /\ y = addr_vec'.r2
  OBVIOUS
<1>14. SlotMade(w, WRITE)' /\ SlotMade(x, READ)' /\ SlotMade(y, READ)'
  <2>1. SlotMade(Nobody, READ)'
    BY DEF SlotMade
  <2>2. QED
    BY <1>6, <1>7, <1>9, <1>11, <1>12, <1>13, <2>1
<1>15. spd3Found' => conflict'
  <2>1. CASE SPD3Finds(t, kind)
    <3>1. t # 0
      BY <2>1 DEF SPD3Finds, Skipped
    <3>2. PICK e, k : /\ AreParallel(t, e) /\ SlotMade(e, k) /\ WRITE \in {k, kind}
      BY <1>11, <2>1 DEF SPD3Finds
    <3>3. PICK a \in Made(e, k) : Concurrent(t, a)
      BY <1>10, <3>1, <3>2, MadeRaces
    <3>4. a \in RacesWith(t, kind, {})
      BY <3>2, <3>3 DEF Made, RacesWith
    <3>5. QED
      BY <1>3, <3>4
  <2>2. QED
    BY <1>3, <1>5, <1>11, <2>1
<1>16. ASSUME ~ spd3Found', NEW a \in history', a.kind = WRITE, a.task # 0
       PROVE  CoveredBy(a, w, Nobody)'
  <2>1. ~ spd3Found /\ ~ SPD3Finds(t, kind)
    BY <1>5, <1>16
  <2>2. CoveredBy(a, w, Nobody)
    <3>1. a \in history => CoveredBy(a, addr_vec.wr, Nobody)
      BY <1>11, <1>16, <2>1
    <3>2. CASE t = 0
      <4>1. a \in history /\ w = addr_vec.wr
        BY <1>3, <1>4, <1>6, <1>13, <1>16, <3>2
      <4>2. QED
        BY <3>1, <4>1
    <3>3. CASE t # 0 /\ kind = READ /\ kind # WRITE
      <4>1. a \in history /\ w = addr_vec.wr
        BY <1>3, <1>4, <1>6, <1>13, <1>16, <2>1, <3>3
      <4>2. QED
        BY <3>1, <4>1
    <3>4. CASE t # 0 /\ kind = WRITE
      <4>1. w = r
        BY <1>6, <1>7, <1>13, <2>1, <3>4 DEF READ, WRITE
      <4>2. ~ AreParallel(t, addr_vec.wr) /\ ~ AreParallel(t, Nobody)
        BY <2>1, <3>4 DEF SPD3Finds, Skipped, AreParallel
      <4>3. SlotsOK(addr_vec.wr, Nobody)
        BY <1>11, MadeIsOK DEF SlotsOK, SlotOK
      <4>4. ToCover(t, a, addr_vec.wr, Nobody)
        BY <1>3, <1>4, <3>1 DEF ToCover
      <4>5. CoveredBy(a, r, Nobody)
        BY <1>8, <1>10, <3>4, <4>2, <4>3, <4>4, ReplaceBoth
      <4>6. QED
        BY <4>1, <4>5
    <3>5. QED
      BY <3>2, <3>3, <3>4 DEF AccessType, READ, WRITE
  <2>3. QED
    BY <1>3, <2>2, CoveredKept
<1>17. QED
  BY <1>6, <1>13, <1>14, <1>15, <1>16 DEF SPD3Inv

LEMMA NextSPD3 ==
  ASSUME ~ LockOrder, StrandsInv, ViewInv, MainInv, SPD3Inv, strict, [Next]_vars, strict'
  PROVE  SPD3Inv'
<1>1. FamilyInv /\ ProgramTypeOK
  BY DEF StrandsInv, TypeInv, TypeOK
<1>2. CASE \E t \in Task, kind \in AccessType : Access(t, kind) /\ Note
  BY <1>2, AccessKeepsSPD3
<1>3. CASE UNCHANGED <<history, raced, ptracerFound, entries, spd3Vars, conflict>>
  <2>1. history' = history /\ addr_vec' = addr_vec /\ spd3Found' = spd3Found /\ conflict' = conflict
    BY <1>3 DEF spd3Vars
  <2>2. Note \/ stamps' = stamps
    BY <1>1, NextNotes
  <2>3. PICK v : v = addr_vec
    OBVIOUS
  <2>4. \A x, k : SlotMade(x, k) => SlotMade(x, k)'
    BY <2>1, <2>2, MadeGrows
  <2>5. ASSUME NEW a, CoveredBy(a, v.wr, Nobody) PROVE CoveredBy(a, v.wr, Nobody)'
    BY <2>5, CoveredKept
  <2>6. /\ SlotMade(v.wr, WRITE)' /\ SlotMade(v.r1, READ)' /\ SlotMade(v.r2, READ)'
        /\ spd3Found => conflict
        /\ ~ spd3Found => \A a \in history : a.kind = WRITE /\ a.task # 0 =>
                            CoveredBy(a, v.wr, Nobody)'
        /\ v = [wr |-> v.wr, r1 |-> v.r1, r2 |-> v.r2]
    BY <2>3, <2>4, <2>5 DEF SPD3Inv
  <2>7. addr_vec' = v
    BY <2>1, <2>3
  <2>8. QED
    BY <2>1, <2>6, <2>7 DEF SPD3Inv
<1>4. QED
  BY <1>1, <1>2, <1>3, HistoryIs

LEMMA SPD3Stays ==
  ASSUME SPD3Inv, UNCHANGED vars
  PROVE  SPD3Inv'
<1>1. /\ history' = history /\ conflict' = conflict /\ stamps' = stamps
      /\ addr_vec' = addr_vec /\ spd3Found' = spd3Found /\ seg' = seg /\ before' = before
  BY DEF vars, programVars, hbVars, orderVars, detectorVars, spd3Vars
<1>2. \A x, k : SlotMade(x, k)' <=> SlotMade(x, k)
  BY <1>1 DEF SlotMade, Made, Stamp
<1>3. \A a, x, y : CoveredBy(a, x, y)' <=> CoveredBy(a, x, y)
  BY <1>1 DEF CoveredBy, Stamp, InSpan, Implies, Knows, PastOf
<1>4. QED
  BY <1>1, <1>2, <1>3 DEF SPD3Inv

-----------------------------------------------------------------------------
(* The parts of the invariants that hold as long as the program is         *)
(* recordable.                                                             *)
RecordInv == StrandsInv /\ StackInv /\ (Recordable => ViewInv /\ MainInv)

LEMMA RecordStart == Init => RecordInv
<1> SUFFICES ASSUME Init PROVE RecordInv
  OBVIOUS
<1>1. StrandsInv /\ StackInv /\ TreeInv
  BY StrandsInit, StackStart, TreeStart
<1>2. ProgramTypeOK /\ SegmentsInv
  BY <1>1 DEF StrandsInv, TypeInv, TypeOK, PairInv
<1>3. /\ stamps = {} /\ history = {} /\ \A t \in Task : t # 0 => status[t] = "unborn"
  BY DEF Init, ProgramInit, HBInit
<1>4. \A t \in Task : ~ Alive(t) /\ (t # 0 => ~ Running(t))
  BY <1>3 DEF Alive, Running
<1>5. OlderInv /\ StampedInv /\ MainInv
  BY <1>3, <1>4 DEF OlderInv, StampedInv, MainInv
<1>6. QED
  BY <1>1, <1>2, <1>5 DEF RecordInv, ViewInv

(* What is recorded is used at the next step only, and only if the program *)
(* was recordable before it.                                               *)
LEMMA NextRecord ==
  ASSUME ~ LockOrder, RecordInv, [Next]_vars
  PROVE  /\ RecordInv'
         /\ strict' => strict
         /\ strict' => UNCHANGED vars \/ (ViewInv /\ MainInv)
<1>1. /\ StrandsInv /\ StackInv /\ TypeInv
      /\ Recordable => TreeInv /\ OlderInv /\ StampedInv /\ MainInv
  BY DEF RecordInv, ViewInv, StrandsInv
<1>2. StrandsInv'
  BY <1>1, NextStrands
<1>3. StackInv'
  BY <1>1, <1>2, NextStack DEF StrandsInv
<1>4. ASSUME Recordable'
      PROVE  TreeInv' /\ OlderInv' /\ StampedInv' /\ MainInv'
  <2>1. Recordable /\ ~ \E t \in Task : IdleWait(t)
    BY <1>1, <1>4, RecordableFrom
  <2>2. TreeInv' /\ OlderInv' /\ MainInv'
    BY <1>1, <1>4, NextTree, NextOlder, NextMain
  <2>3. StampedInv'
    BY <1>1, <2>1, NextStamped
  <2>4. QED
    BY <2>2, <2>3
<1>5. ProgramTypeOK' /\ SegmentsInv'
  BY <1>2 DEF StrandsInv, TypeInv, TypeOK, PairInv
<1>6. strict' => strict
  BY <1>1, NextStrict
<1>7. WaitsMatched /\ strict => ViewInv /\ MainInv
  BY DEF RecordInv, Recordable
<1>8. QED
  BY <1>2, <1>3, <1>4, <1>5, <1>6, <1>7, NextMatched DEF RecordInv, ViewInv

(* With its writer, SPD3 finds every write that an access races with.      *)
LEMMA SPD3Answers ==
  ASSUME RecordInv, Recordable, SPD3Inv, ~ spd3Found,
         NEW t \in Task, NEW kind \in AccessType, Running(t),
         NEW a \in history, a.kind = WRITE, Concurrent(t, a)
  PROVE  SPD3Finds(t, kind)
<1>1. /\ ViewInv /\ MainInv /\ FamilyInv
      /\ a.task # 0 => CoveredBy(a, addr_vec.wr, Nobody)
      /\ SlotMade(addr_vec.wr, WRITE)
  BY DEF RecordInv, SPD3Inv, StrandsInv, TypeInv
<1>2. Placed(t) /\ (t # 0 => Alive(t))
  BY DEF Placed, Alive, Running
<1>3. CoveredBy(a, addr_vec.wr, Nobody)
  BY <1>1, <1>2, MainRacesNot
<1>4. ~ Knows(t, a.task, a.seg)
  BY DEF Concurrent, Knows, PastOf
<1>5. t # 0
  BY <1>1, <1>3, <1>4, MainKnows
<1>6. SlotsOK(addr_vec.wr, Nobody) /\ ~ AreParallel(t, Nobody)
  BY <1>1, MadeIsOK DEF SlotsOK, SlotOK, AreParallel
<1>7. AreParallel(t, addr_vec.wr)
  BY <1>1, <1>2, <1>3, <1>4, <1>5, <1>6, CoveredIsKnown
<1>8. QED
  BY <1>5, <1>7 DEF SPD3Finds, Skipped

(***************************************************************************)
(* SPD3 is sound, and complete for races that begin with a write, for any  *)
(* number of tasks and accesses: in a strict program it reports only if    *)
(* two accesses conflict, and until it has reported every access that      *)
(* races with an earlier write is one at which it reports, unless a task   *)
(* has waited without having spawned.  The one writer SPD3 keeps is        *)
(* enough, as every write replaces it: a write that finds no slot parallel *)
(* follows all that the slot stands for.                                   *)
(***************************************************************************)
THEOREM SPD3WriterIsEnough ==
  ASSUME ~ LockOrder
  PROVE  Spec => []SPD3FindsWrites
<1> DEFINE Inv == RecordInv /\ (strict => SPD3Inv)
<1>1. Init => Inv
  <2>1. SUFFICES ASSUME Init PROVE Inv
    OBVIOUS
  <2>2. PICK v : v = [wr |-> Nobody, r1 |-> Nobody, r2 |-> Nobody]
    OBVIOUS
  <2>3. addr_vec = v /\ spd3Found = FALSE /\ history = {}
    BY <2>1, <2>2 DEF Init, SPD3Init, ProgramInit, HBInit
  <2>4. v.wr = Nobody /\ v.r1 = Nobody /\ v.r2 = Nobody
    BY <2>2
  <2>5. SPD3Inv
    BY <2>2, <2>3, <2>4 DEF SPD3Inv, SlotMade
  <2>6. QED
    BY <2>1, <2>5, RecordStart
<1>2. Inv /\ [Next]_vars => Inv'
  <2>1. SUFFICES ASSUME Inv, [Next]_vars PROVE Inv'
    OBVIOUS
  <2>2. /\ RecordInv' /\ (strict' => strict)
        /\ strict' => UNCHANGED vars \/ (ViewInv /\ MainInv)
    BY <2>1, NextRecord
  <2>3. StrandsInv
    BY <2>1 DEF RecordInv
  <2>4. strict' => SPD3Inv'
    BY <2>1, <2>2, <2>3, NextSPD3, SPD3Stays
  <2>5. QED
    BY <2>2, <2>4
<1>3. Inv => SPD3FindsWrites
  BY SPD3Answers DEF SPD3FindsWrites, SPD3Inv, Recordable
<1>4. QED
  BY <1>1, <1>2, <1>3, PTL DEF Spec

-----------------------------------------------------------------------------
(***************************************************************************)
(* PTracer keeps the locks of a task as a stack and takes the last one off *)
(* at every release.  Its locksets are those of the program if a task      *)
(* gives its locks back in the order opposite to the one it took them in.  *)
(***************************************************************************)
LastOut == \A t \in Task, l \in Locks : Release(t, l) => l = Last(thd_lockset[t])

Unlike(q) == \A i, j \in 1 .. Len(q) : q[i] = q[j] => i = j

LocksetInv ==
  \A t \in Task : Unlike(thd_lockset[t]) /\ \A l : l \in held[t] <=> l \in Lockset(t)

LEMMA PushIs ==
  ASSUME NEW q \in Seq(Locks), NEW l \in Locks, Unlike(q), l \notin ToSet(q)
  PROVE  /\ Unlike(Append(q, l))
         /\ \A m : m \in ToSet(Append(q, l)) <=> m \in ToSet(q) \/ m = l
<1> DEFINE r == Append(q, l)
<1>1. /\ Len(q) \in Nat /\ Len(r) = Len(q) + 1 /\ r[Len(q) + 1] = l
      /\ \A i \in 1 .. Len(q) : r[i] = q[i]
      /\ DOMAIN q = 1 .. Len(q) /\ DOMAIN r = 1 .. Len(r)
  OBVIOUS
<1>2. \A i \in 1 .. Len(q) : q[i] # l
  BY <1>1 DEF ToSet
<1>3. Unlike(r)
  <2>1. ASSUME NEW i \in 1 .. Len(r), NEW j \in 1 .. Len(r), r[i] = r[j] PROVE i = j
    <3>1. (i \in 1 .. Len(q) \/ i = Len(q) + 1) /\ (j \in 1 .. Len(q) \/ j = Len(q) + 1)
      BY <1>1
    <3>2. QED
      BY <1>1, <1>2, <2>1, <3>1 DEF Unlike
  <2>2. QED
    BY <2>1 DEF Unlike
<1>4. ASSUME NEW m PROVE m \in ToSet(r) <=> m \in ToSet(q) \/ m = l
  <2>1. m \in ToSet(r) => m \in ToSet(q) \/ m = l
    <3>1. SUFFICES ASSUME NEW i \in 1 .. Len(r), m = r[i] PROVE m \in ToSet(q) \/ m = l
      BY <1>1 DEF ToSet
    <3>2. i \in 1 .. Len(q) \/ i = Len(q) + 1
      BY <1>1
    <3>3. QED
      BY <1>1, <3>1, <3>2 DEF ToSet
  <2>2. m \in ToSet(q) => m \in ToSet(r)
    <3>1. SUFFICES ASSUME NEW i \in 1 .. Len(q), m = q[i] PROVE m \in ToSet(r)
      BY <1>1 DEF ToSet
    <3>2. i \in 1 .. Len(r) /\ r[i] = m
      BY <1>1, <3>1
    <3>3. QED
      BY <1>1, <3>2 DEF ToSet
  <2>3. m = l => m \in ToSet(r)
    <3>1. Len(r) \in 1 .. Len(r) /\ r[Len(r)] = l
      BY <1>1
    <3>2. QED
      BY <1>1, <3>1 DEF ToSet
  <2>4. QED
    BY <2>1, <2>2, <2>3
<1>5. QED
  BY <1>3, <1>4

LEMMA PopIs ==
  ASSUME NEW q \in Seq(Locks), Unlike(q), Last(q) \in ToSet(q)
  PROVE  /\ Unlike(Front(q))
         /\ \A m : m \in ToSet(Front(q)) <=> m \in ToSet(q) /\ m # Last(q)
<1> DEFINE r == Front(q)  n == Len(q)
<1>1. n \in Nat /\ DOMAIN q = 1 .. n
  OBVIOUS
<1>2. n > 0
  BY <1>1 DEF ToSet
<1>3. /\ Len(r) = n - 1 /\ DOMAIN r = 1 .. Len(r) /\ Last(q) = q[n]
      /\ \A i \in 1 .. n - 1 : r[i] = q[i]
  BY <1>1, <1>2 DEF Front, Last
<1>4. Unlike(r)
  <2>1. \A i \in 1 .. Len(r) : i \in 1 .. n
    BY <1>1, <1>3
  <2>2. QED
    BY <1>3, <2>1 DEF Unlike
<1>5. ASSUME NEW m PROVE m \in ToSet(r) <=> m \in ToSet(q) /\ m # Last(q)
  <2>1. ASSUME m \in ToSet(r) PROVE m \in ToSet(q) /\ m # Last(q)
    <3>1. PICK i \in 1 .. n - 1 : m = r[i]
      BY <1>3, <2>1 DEF ToSet
    <3>2. PICK k \in Nat : k = n /\ k > 0
      BY <1>1, <1>2
    <3>3. i \in 1 .. k - 1
      BY <3>1, <3>2
    <3>4. i \in 1 .. k /\ k \in 1 .. k /\ i # k
      BY <3>2, <3>3
    <3>5. m = q[i]
      BY <1>3, <3>1
    <3>6. q[i] # q[k]
      BY <3>2, <3>4 DEF Unlike
    <3>7. QED
      BY <1>1, <1>3, <3>2, <3>4, <3>5, <3>6 DEF ToSet
  <2>2. ASSUME m \in ToSet(q), m # Last(q) PROVE m \in ToSet(r)
    <3>1. PICK i \in 1 .. n : m = q[i]
      BY <1>1, <2>2 DEF ToSet
    <3>2. i \in 1 .. n - 1 /\ m = r[i]
      BY <1>1, <1>3, <2>2, <3>1
    <3>3. QED
      BY <1>3, <3>2 DEF ToSet
  <2>3. QED
    BY <2>1, <2>2
<1>6. QED
  BY <1>4, <1>5

(* Only the lock hooks change the locks.                                   *)
LEMMA LocksAre ==
  ASSUME ProgramTypeOK, FamilyInv, [Next]_vars
  PROVE  \/ \E t \in Task, l \in Locks : LockStep(t, l)
         \/ held' = held /\ thd_lockset' = thd_lockset
<1>1. ASSUME NEW s \in Task, NEW p \in Task, NEW c \in Task, NEW next,
             SpawnEvent(s, p, c, next)
      PROVE  held' = held /\ thd_lockset' = thd_lockset
  BY <1>1 DEF SpawnEvent, ForkStep, Create, OtherVars, ptracerVars, lockStateVars
<1>2. ASSUME NEW t \in Task, MoveStep(t)
      PROVE  held' = held /\ thd_lockset' = thd_lockset
  <2>1. CASE Returns(t)
    BY <2>1, ReturnFacts DEF Returns, OtherVars, ptracerVars, lockStateVars
  <2>2. CASE Begins(t) \/ Ends(t) \/ Stops(t)
    BY <2>2, MoveFacts DEF hbVars, OtherVars, ptracerVars, lockStateVars
  <2>3. QED
    BY <1>2, <2>1, <2>2, MoveIs
<1>3. ASSUME NEW t \in Task, NEW kind \in AccessType, Access(t, kind)
      PROVE  held' = held /\ thd_lockset' = thd_lockset
  BY <1>3, AccessFacts DEF Access, PTracerRecordMem, lockStateVars
<1>4. CASE UNCHANGED vars
  BY <1>4 DEF vars, programVars, lockStateVars, detectorVars, ptracerVars
<1>5. ASSUME NEW t \in Task, IdleWait(t)
      PROVE  held' = held /\ thd_lockset' = thd_lockset
  BY <1>5, IdleFacts DEF lockStateVars, OtherVars, ptracerVars
<1>6. QED
  BY <1>1, <1>2, <1>3, <1>4, <1>5, NextIs

LEMMA NextLocksets ==
  ASSUME TypeInv, LocksetInv, [Next]_vars, LastOut \/ UNCHANGED vars
  PROVE  LocksetInv'
<1>1. ProgramTypeOK /\ thd_lockset \in [Task -> Seq(Locks)] /\ held \in [Task -> SUBSET Locks]
  BY DEF TypeInv, TypeOK, ProgramTypeOK
<1>2. CASE held' = held /\ thd_lockset' = thd_lockset
  BY <1>2 DEF LocksetInv, Lockset
<1>3. ASSUME NEW t \in Task, NEW l \in Locks, Acquire(t, l), LockAcquired(t, l)
      PROVE  LocksetInv'
  <2>1. /\ l \notin held[t] /\ held' = [held EXCEPT ![t] = @ \cup {l}]
        /\ thd_lockset' = [thd_lockset EXCEPT ![t] = Append(@, l)]
    BY <1>3 DEF Acquire, LockAcquired
  <2>2. /\ thd_lockset[t] \in Seq(Locks) /\ Unlike(thd_lockset[t])
        /\ l \notin ToSet(thd_lockset[t])
    BY <1>1, <2>1 DEF LocksetInv, Lockset
  <2>3. PICK q : q = Append(thd_lockset[t], l)
    OBVIOUS
  <2>4. Unlike(q) /\ \A m : m \in ToSet(q) <=> m \in ToSet(thd_lockset[t]) \/ m = l
    BY <2>2, <2>3, PushIs
  <2>5. thd_lockset'[t] = q /\ held'[t] = held[t] \cup {l}
        /\ \A u \in Task : u # t => thd_lockset'[u] = thd_lockset[u] /\ held'[u] = held[u]
    BY <1>1, <2>1, <2>3
  <2>6. ASSUME NEW u \in Task
        PROVE  Unlike(thd_lockset'[u]) /\ \A m : m \in held'[u] <=> m \in ToSet(thd_lockset'[u])
    <3>1. CASE u = t
      BY <2>4, <2>5, <3>1 DEF LocksetInv, Lockset
    <3>2. CASE u # t
      BY <2>5, <3>2 DEF LocksetInv, Lockset
    <3>3. QED
      BY <3>1, <3>2
  <2>7. QED
    BY <2>6 DEF LocksetInv, Lockset, Unlike
<1>4. ASSUME NEW t \in Task, NEW l \in Locks, Release(t, l), LockReleased(t), LastOut
      PROVE  LocksetInv'
  <2>1. /\ l \in held[t] /\ held' = [held EXCEPT ![t] = @ \ {l}]
        /\ thd_lockset' = [thd_lockset EXCEPT ![t] = Front(@)]
        /\ l = Last(thd_lockset[t])
    BY <1>4 DEF Release, LockReleased, LastOut
  <2>2. /\ thd_lockset[t] \in Seq(Locks) /\ Unlike(thd_lockset[t])
        /\ l \in ToSet(thd_lockset[t])
    BY <1>1, <2>1 DEF LocksetInv, Lockset
  <2>3. PICK q : q = Front(thd_lockset[t])
    OBVIOUS
  <2>4. Unlike(q) /\ \A m : m \in ToSet(q) <=> m \in ToSet(thd_lockset[t]) /\ m # l
    BY <2>1, <2>2, <2>3, PopIs
  <2>5. thd_lockset'[t] = q /\ held'[t] = held[t] \ {l}
        /\ \A u \in Task : u # t => thd_lockset'[u] = thd_lockset[u] /\ held'[u] = held[u]
    BY <1>1, <2>1, <2>3
  <2>6. ASSUME NEW u \in Task
        PROVE  Unlike(thd_lockset'[u]) /\ \A m : m \in held'[u] <=> m \in ToSet(thd_lockset'[u])
    <3>1. CASE u = t
      BY <2>4, <2>5, <3>1 DEF LocksetInv, Lockset
    <3>2. CASE u # t
      BY <2>5, <3>2 DEF LocksetInv, Lockset
    <3>3. QED
      BY <3>1, <3>2
  <2>7. QED
    BY <2>6 DEF LocksetInv, Lockset, Unlike
<1>5. CASE UNCHANGED vars
  <2>1. held' = held /\ thd_lockset' = thd_lockset
    BY <1>5 DEF vars, programVars, lockStateVars, detectorVars, ptracerVars
  <2>2. QED
    BY <1>2, <2>1
<1>6. QED
  BY <1>1, <1>2, <1>3, <1>4, <1>5, LocksAre DEF LockStep, TypeInv

(* With one lock there is only one order.                                  *)
LEMMA OneLockLastOut ==
  ASSUME TypeInv, LocksetInv, \A l, m \in Locks : l = m
  PROVE  LastOut
<1>1. ASSUME NEW t \in Task, NEW l \in Locks, Release(t, l) PROVE l = Last(thd_lockset[t])
  <2>1. PICK q : q = thd_lockset[t]
    OBVIOUS
  <2>2. q \in Seq(Locks) /\ l \in ToSet(q)
    BY <1>1, <2>1 DEF TypeInv, TypeOK, Release, LocksetInv, Lockset
  <2>3. Len(q) \in Nat /\ Len(q) > 0
    BY <2>2 DEF ToSet
  <2>4. Last(q) \in Locks
    BY <2>2, <2>3 DEF Last
  <2>5. QED
    BY <2>1, <2>4
<1>2. QED
  BY <1>1 DEF LastOut

-----------------------------------------------------------------------------
(* What PTracer keeps for a lockset: two accesses of each kind, made under *)
(* that lockset.                                                           *)
LockMade(r, kind, L) ==
  SlotMade(r, kind) /\ (r # Nobody => \E a \in Made(r, kind) : a.locks = L)

EntryOK(e, L) ==
  /\ e = [r1 |-> e.r1, r2 |-> e.r2, w1 |-> e.w1, w2 |-> e.w2]
  /\ SlotsOK(e.r1, e.r2) /\ LockMade(e.r1, READ, L) /\ LockMade(e.r2, READ, L)
  /\ SlotsOK(e.w1, e.w2) /\ LockMade(e.w1, WRITE, L) /\ LockMade(e.w2, WRITE, L)

CoveredIn(a, e) ==
  \/ a.kind = READ /\ CoveredBy(a, e.r1, e.r2)
  \/ a.kind = WRITE /\ CoveredBy(a, e.w1, e.w2)

PTracerInv ==
  /\ entries = [L \in SUBSET Locks |-> entries[L]]
  /\ \A L \in SUBSET Locks : EntryOK(entries[L], L)
  /\ ptracerFound => raced
  /\ ~ ptracerFound =>
       /\ ~ raced
       /\ \A a \in history : a.task # 0 =>
            a.locks \in SUBSET Locks /\ CoveredIn(a, entries[a.locks])

LEMMA LockMadeGrows ==
  ASSUME Note \/ stamps' = stamps, history \subseteq history', NEW r, NEW k, NEW L,
         LockMade(r, k, L)
  PROVE  LockMade(r, k, L)'
<1>1. Made(r, k) \subseteq Made(r, k)' /\ (SlotMade(r, k) => SlotMade(r, k)')
  BY MadeGrows
<1>2. QED
  BY <1>1 DEF LockMade

LEMMA EntryKept ==
  ASSUME Note \/ stamps' = stamps, history \subseteq history', NEW e, NEW L, EntryOK(e, L)
  PROVE  EntryOK(e, L)'
<1>1. \A r, k : LockMade(r, k, L) => LockMade(r, k, L)'
  BY LockMadeGrows
<1>2. \A x, y : SlotsOK(x, y) => SlotsOK(x, y)'
  BY SlotsKept
<1>3. QED
  BY <1>1, <1>2 DEF EntryOK

LEMMA CoveredInKept ==
  ASSUME ~ LockOrder, StrandsInv, ViewInv, [Next]_vars, strict', strict,
         NEW a, NEW e, CoveredIn(a, e)
  PROVE  CoveredIn(a, e)'
<1>1. \A x, y : CoveredBy(a, x, y) => CoveredBy(a, x, y)'
  BY CoveredKept
<1>2. QED
  BY <1>1 DEF CoveredIn

(* The access of a task is put into the entry of its lockset.              *)
LEMMA EntryUpdated ==
  ASSUME ~ LockOrder, TypeInv, ViewInv, NEW t \in Task, Alive(t), NEW kind \in AccessType,
         Access(t, kind), Note, NEW e, NEW L, L = held[t], EntryOK(e, L),
         NEW f, f = Updated(t, kind, e)
  PROVE  /\ EntryOK(f, L)'
         /\ \A a : CoveredIn(a, e) \/ (a.task = t /\ a.seg = seg[t] /\ a.kind = kind)
                     => CoveredIn(a, f)
<1>1. StampedInv /\ Running(t) /\ t # 0
  BY AccessIs DEF ViewInv, Running, Alive
<1>2. PICK b : b = AccessOf(t, kind, held[t])
  OBVIOUS
<1>3. b.locks = L
  BY <1>2 DEF AccessOf
<1>4. history \subseteq history'
  BY AccessIs
<1>5. PICK r : r = Recorded(t)
  OBVIOUS
<1>6. r.task = t /\ r.step = Step(t)
  BY <1>5 DEF Recorded, Step
<1>7. LockMade(r, kind, L)'
  <2>1. b \in Made(r, kind)' /\ SlotMade(r, kind)'
    BY <1>1, <1>2, <1>6, MadeNow
  <2>2. QED
    BY <1>3, <2>1 DEF LockMade
<1>8. LockMade(Nobody, kind, L)'
  BY DEF LockMade, SlotMade
<1>9. PICK rx, ry, wx, wy : e = [r1 |-> rx, r2 |-> ry, w1 |-> wx, w2 |-> wy]
                            /\ rx = e.r1 /\ ry = e.r2 /\ wx = e.w1 /\ wy = e.w2
  BY DEF EntryOK
<1>10. /\ SlotsOK(rx, ry) /\ LockMade(rx, READ, L) /\ LockMade(ry, READ, L)
       /\ SlotsOK(wx, wy) /\ LockMade(wx, WRITE, L) /\ LockMade(wy, WRITE, L)
  BY <1>9 DEF EntryOK
<1>11. /\ SlotsOK(rx, ry)' /\ LockMade(rx, READ, L)' /\ LockMade(ry, READ, L)'
       /\ SlotsOK(wx, wy)' /\ LockMade(wx, WRITE, L)' /\ LockMade(wy, WRITE, L)'
  BY <1>4, <1>10, SlotsKept, LockMadeGrows
<1>12. ASSUME NEW x, NEW y, SlotsOK(x, y), LockMade(x, kind, L)', LockMade(y, kind, L)',
              NEW q, q = Slots(t, x, y)
       PROVE  /\ SlotsOK(q[1], q[2])' /\ LockMade(q[1], kind, L)' /\ LockMade(q[2], kind, L)'
              /\ \A a : CoveredBy(a, x, y) \/ (a.task = t /\ a.seg = seg[t])
                          => CoveredBy(a, q[1], q[2])
  <2>1. PICK u, v : u = q[1] /\ v = q[2]
    OBVIOUS
  <2>2. /\ SlotsOK(u, v) /\ u \in {x, y, r} /\ v \in {x, y, r, Nobody}
        /\ \A a : ToCover(t, a, x, y) => CoveredBy(a, u, v)
    BY <1>1, <1>5, <1>12, <2>1, SlotsCover
  <2>3. SlotsOK(u, v)'
    BY <2>2, SlotsKept
  <2>4. LockMade(u, kind, L)' /\ LockMade(v, kind, L)'
    BY <1>7, <1>8, <1>12, <2>2
  <2>5. QED
    BY <2>1, <2>2, <2>3, <2>4 DEF ToCover
<1>13. CASE kind = READ
  <2>1. PICK q : q = Slots(t, rx, ry)
    OBVIOUS
  <2>2. PICK u, v : u = q[1] /\ v = q[2]
    OBVIOUS
  <2>3. /\ SlotsOK(u, v)' /\ LockMade(u, READ, L)' /\ LockMade(v, READ, L)'
        /\ \A a : CoveredBy(a, rx, ry) \/ (a.task = t /\ a.seg = seg[t]) => CoveredBy(a, u, v)
    BY <1>10, <1>11, <1>12, <1>13, <2>1, <2>2
  <2>4. f = [e EXCEPT !.r1 = u, !.r2 = v]
    BY <1>9, <1>13, <2>1, <2>2 DEF Updated
  <2>5. f = [r1 |-> u, r2 |-> v, w1 |-> wx, w2 |-> wy]
    BY <1>9, <2>4
  <2>6. f.r1 = u /\ f.r2 = v /\ f.w1 = wx /\ f.w2 = wy
    BY <2>5
  <2>7. EntryOK(f, L)'
    BY <1>11, <2>3, <2>5, <2>6 DEF EntryOK
  <2>8. QED
    BY <1>9, <1>13, <2>3, <2>6, <2>7 DEF CoveredIn, READ, WRITE
<1>14. CASE kind = WRITE
  <2>1. PICK q : q = Slots(t, wx, wy)
    OBVIOUS
  <2>2. PICK u, v : u = q[1] /\ v = q[2]
    OBVIOUS
  <2>3. /\ SlotsOK(u, v)' /\ LockMade(u, WRITE, L)' /\ LockMade(v, WRITE, L)'
        /\ \A a : CoveredBy(a, wx, wy) \/ (a.task = t /\ a.seg = seg[t]) => CoveredBy(a, u, v)
    BY <1>10, <1>11, <1>12, <1>14, <2>1, <2>2
  <2>4. f = [e EXCEPT !.w1 = u, !.w2 = v]
    BY <1>9, <1>14, <2>1, <2>2 DEF Updated, READ, WRITE
  <2>5. f = [r1 |-> rx, r2 |-> ry, w1 |-> u, w2 |-> v]
    BY <1>9, <2>4
  <2>6. f.r1 = rx /\ f.r2 = ry /\ f.w1 = u /\ f.w2 = v
    BY <2>5
  <2>7. EntryOK(f, L)'
    BY <1>11, <2>3, <2>5, <2>6 DEF EntryOK
  <2>8. QED
    BY <1>9, <1>14, <2>3, <2>6, <2>7 DEF CoveredIn, READ, WRITE
<1>15. QED
  BY <1>13, <1>14 DEF AccessType

(* A race PTracer finds is one.                                            *)
LEMMA FoundRaces ==
  ASSUME TypeInv, ViewInv, PTracerInv, LocksetInv, NEW t \in Task, NEW kind \in AccessType,
         Running(t), PTracerFinds(t, kind)
  PROVE  RacesWith(t, kind, held[t]) # {}
<1>1. t # 0 /\ Alive(t)
  BY DEF PTracerFinds, Skipped, Alive, Running
<1>2. PICK L \in SUBSET Locks : L \cap Lockset(t) = {} /\ EntryRaces(t, kind, entries[L])
  BY DEF PTracerFinds
<1>3. EntryOK(entries[L], L)
  BY DEF PTracerInv
<1>4. PICK r, k : LockMade(r, k, L) /\ AreParallel(t, r) /\ WRITE \in {k, kind}
  BY <1>2, <1>3 DEF EntryRaces, EntryOK
<1>5. r # Nobody
  BY <1>4 DEF AreParallel
<1>6. PICK a \in Made(r, k) : a.locks = L /\ Concurrent(t, a)
  BY <1>1, <1>4, <1>5, MadeRaces DEF LockMade
<1>7. a.locks \cap held[t] = {}
  BY <1>2, <1>6 DEF LocksetInv
<1>8. QED
  BY <1>4, <1>6, <1>7 DEF Made, RacesWith

(* If there is a race and none was reported yet, PTracer finds it.         *)
LEMMA RacesFound ==
  ASSUME TypeInv, ViewInv, MainInv, PTracerInv, LocksetInv, ~ ptracerFound,
         NEW t \in Task, NEW kind \in AccessType, Running(t),
         RacesWith(t, kind, held[t]) # {}
  PROVE  PTracerFinds(t, kind)
<1>1. PICK a \in history : /\ Concurrent(t, a) /\ WRITE \in {a.kind, kind}
                           /\ a.locks \cap held[t] = {}
  BY DEF RacesWith
<1>2. FamilyInv /\ Placed(t) /\ (t # 0 => Alive(t))
  BY DEF TypeInv, Placed, Alive, Running
<1>3. a.task # 0 /\ ~ Knows(t, a.task, a.seg)
  BY <1>1, <1>2, MainRacesNot DEF Concurrent, Knows, PastOf
<1>4. PICK L, e : /\ L = a.locks /\ L \in SUBSET Locks /\ e = entries[L]
                  /\ CoveredIn(a, e) /\ EntryOK(e, L)
  BY <1>3 DEF PTracerInv
<1>5. PICK x, y : /\ CoveredBy(a, x, y) /\ SlotsOK(x, y)
                  /\ \/ a.kind = READ /\ x = e.r1 /\ y = e.r2
                     \/ a.kind = WRITE /\ x = e.w1 /\ y = e.w2
  BY <1>4 DEF CoveredIn, EntryOK
<1>6. t # 0
  BY <1>2, <1>3, <1>5, MainKnows
<1>7. AreParallel(t, x) \/ AreParallel(t, y)
  BY <1>2, <1>3, <1>5, <1>6, CoveredIsKnown
<1>8. EntryRaces(t, kind, e)
  BY <1>1, <1>5, <1>7 DEF EntryRaces, READ, WRITE
<1>9. L \cap Lockset(t) = {}
  BY <1>1, <1>4 DEF LocksetInv
<1>10. QED
  BY <1>4, <1>6, <1>8, <1>9 DEF PTracerFinds, Skipped

LEMMA AccessKeepsPTracer ==
  ASSUME ~ LockOrder, StrandsInv, ViewInv, MainInv, PTracerInv, LocksetInv, strict,
         NEW t \in Task, NEW kind \in AccessType, Access(t, kind), Note, [Next]_vars
  PROVE  PTracerInv'
<1>1. TypeInv
  BY DEF StrandsInv
<1>2. PICK b : b = AccessOf(t, kind, held[t])
  OBVIOUS
<1>3. /\ Running(t) /\ strict' = strict /\ history' = history \cup {b}
      /\ raced' = (raced \/ RacesWith(t, kind, held[t]) # {})
  <2>1. Touch(t, kind)
    BY AccessFacts
  <2>2. QED
    BY <1>1, <1>2, <2>1, AccessIs DEF Touch, HBAccess, Running
<1>4. b.task = t /\ b.seg = seg[t] /\ b.kind = kind /\ b.locks = held[t]
  BY <1>2 DEF AccessOf
<1>5. PICK L \in SUBSET Locks : L = held[t] /\ L = Lockset(t)
  <2>1. held[t] \in SUBSET Locks
    BY <1>1 DEF TypeInv, TypeOK, ProgramTypeOK
  <2>2. held[t] = Lockset(t)
    BY DEF LocksetInv
  <2>3. QED
    BY <2>1, <2>2
<1>6. PICK old : old = entries
  OBVIOUS
<1>7. /\ old = [M \in SUBSET Locks |-> old[M]]
      /\ \A M \in SUBSET Locks : EntryOK(old[M], M)
      /\ ptracerFound => raced
      /\ ~ ptracerFound =>
           /\ ~ raced
           /\ \A a \in history : a.task # 0 =>
                a.locks \in SUBSET Locks /\ CoveredIn(a, old[a.locks])
  BY <1>6 DEF PTracerInv
<1>8. /\ ptracerFound' = (ptracerFound \/ PTracerFinds(t, kind))
      /\ entries' = IF Skipped(t) \/ ptracerFound \/ PTracerFinds(t, kind)
                    THEN old ELSE [old EXCEPT ![L] = Updated(t, kind, @)]
  BY <1>5, <1>6 DEF Access, PTracerRecordMem
<1>9. PTracerFinds(t, kind) => RacesWith(t, kind, held[t]) # {}
  BY <1>1, <1>3, FoundRaces
<1>10. ~ ptracerFound /\ RacesWith(t, kind, held[t]) # {} => PTracerFinds(t, kind)
  BY <1>1, <1>3, RacesFound
<1>11. history \subseteq history'
  BY <1>3
<1>12. \A M \in SUBSET Locks : EntryOK(old[M], M)'
  <2>1. ASSUME NEW M \in SUBSET Locks PROVE EntryOK(old[M], M)'
    <3>1. PICK e : e = old[M]
      OBVIOUS
    <3>2. EntryOK(e, M)'
      BY <1>7, <1>11, <3>1, EntryKept
    <3>3. QED
      BY <3>1, <3>2
  <2>2. QED
    BY <2>1
<1>13. \A a, e : CoveredIn(a, e) => CoveredIn(a, e)'
  BY <1>3, CoveredInKept
<1>14. CASE ptracerFound \/ PTracerFinds(t, kind)
  <2>1. entries' = old /\ ptracerFound' /\ raced'
    BY <1>3, <1>7, <1>8, <1>9, <1>14
  <2>2. QED
    BY <1>7, <1>12, <2>1 DEF PTracerInv
<1>15. CASE ~ ptracerFound /\ ~ PTracerFinds(t, kind) /\ t = 0
  <2>1. entries' = old /\ ~ ptracerFound' /\ ~ raced'
    BY <1>3, <1>7, <1>8, <1>10, <1>15 DEF Skipped
  <2>2. \A a \in history' : a.task # 0 =>
          a.locks \in SUBSET Locks /\ CoveredIn(a, old[a.locks])'
    BY <1>3, <1>4, <1>7, <1>13, <1>15
  <2>3. QED
    BY <1>7, <1>12, <2>1, <2>2 DEF PTracerInv
<1>16. CASE ~ ptracerFound /\ ~ PTracerFinds(t, kind) /\ t # 0
  <2>1. ~ ptracerFound' /\ ~ raced' /\ entries' = [old EXCEPT ![L] = Updated(t, kind, @)]
    BY <1>3, <1>7, <1>8, <1>10, <1>16 DEF Skipped
  <2>2. PICK e, f : e = old[L] /\ f = Updated(t, kind, e)
    OBVIOUS
  <2>3. PICK new : new = [old EXCEPT ![L] = f]
    OBVIOUS
  <2>4. /\ entries' = new /\ new = [M \in SUBSET Locks |-> new[M]] /\ new[L] = f
        /\ \A M \in SUBSET Locks : M # L => new[M] = old[M]
    BY <1>7, <2>1, <2>2, <2>3
  <2>5. Alive(t)
    BY <1>3, <1>16 DEF Alive, Running
  <2>6. /\ EntryOK(f, L)'
        /\ \A a : CoveredIn(a, e) \/ (a.task = t /\ a.seg = seg[t] /\ a.kind = kind)
                    => CoveredIn(a, f)
    BY <1>1, <1>5, <1>7, <2>2, <2>5, EntryUpdated
  <2>7. \A M \in SUBSET Locks : EntryOK(new[M], M)'
    <3>1. ASSUME NEW M \in SUBSET Locks PROVE EntryOK(new[M], M)'
      <4>1. PICK g : g = new[M]
        OBVIOUS
      <4>2. CASE M = L
        BY <2>4, <2>6, <4>2
      <4>3. CASE M # L
        <5>1. new[M] = old[M]
          BY <2>4, <4>3
        <5>2. QED
          BY <1>12, <5>1
      <4>4. QED
        BY <4>2, <4>3
    <3>2. QED
      BY <3>1
  <2>8. ASSUME NEW a \in history', a.task # 0
        PROVE  a.locks \in SUBSET Locks /\ CoveredIn(a, new[a.locks])'
    <3>1. a \in history \/ a = b
      BY <1>3, <2>8
    <3>2. a \in history => a.locks \in SUBSET Locks /\ CoveredIn(a, old[a.locks])
      BY <1>7, <1>16, <2>8
    <3>3. PICK M : M = a.locks
      OBVIOUS
    <3>4. CASE M = L
      <4>1. CoveredIn(a, f)
        BY <1>4, <2>2, <2>6, <3>1, <3>2, <3>3, <3>4
      <4>2. CoveredIn(a, f)'
        BY <1>13, <4>1
      <4>3. QED
        BY <2>4, <3>3, <3>4, <4>2
    <3>5. CASE M # L
      <4>1. a \in history
        BY <1>4, <1>5, <3>1, <3>3, <3>5
      <4>2. CoveredIn(a, old[M])' /\ M \in SUBSET Locks
        BY <1>13, <3>2, <3>3, <4>1
      <4>3. new[M] = old[M]
        BY <2>4, <3>5, <4>2
      <4>4. QED
        BY <3>3, <4>2, <4>3
    <3>6. QED
      BY <3>4, <3>5
  <2>9. QED
    BY <2>1, <2>4, <2>7, <2>8 DEF PTracerInv
<1>17. QED
  BY <1>14, <1>15, <1>16

LEMMA NextPTracer ==
  ASSUME ~ LockOrder, StrandsInv, ViewInv, MainInv, PTracerInv, LocksetInv, strict,
         [Next]_vars, strict'
  PROVE  PTracerInv'
<1>1. FamilyInv /\ ProgramTypeOK
  BY DEF StrandsInv, TypeInv, TypeOK
<1>2. CASE \E t \in Task, kind \in AccessType : Access(t, kind) /\ Note
  BY <1>2, AccessKeepsPTracer
<1>3. CASE UNCHANGED <<history, raced, ptracerFound, entries, spd3Vars, conflict>>
  <2>1. PICK old : old = entries
    OBVIOUS
  <2>2. history' = history /\ entries' = old /\ ptracerFound' = ptracerFound /\ raced' = raced
    BY <1>3, <2>1
  <2>3. Note \/ stamps' = stamps
    BY <1>1, NextNotes
  <2>4. /\ old = [L \in SUBSET Locks |-> old[L]]
        /\ \A L \in SUBSET Locks : EntryOK(old[L], L)
        /\ ptracerFound => raced
        /\ ~ ptracerFound =>
             /\ ~ raced
             /\ \A a \in history : a.task # 0 =>
                  a.locks \in SUBSET Locks /\ CoveredIn(a, old[a.locks])
    BY <2>1 DEF PTracerInv
  <2>5. \A L \in SUBSET Locks : EntryOK(old[L], L)'
    <3>1. \A e, L : EntryOK(e, L) => EntryOK(e, L)'
      BY <2>2, <2>3, EntryKept
    <3>2. QED
      BY <2>4, <3>1
  <2>6. \A a, e : CoveredIn(a, e) => CoveredIn(a, e)'
    BY CoveredInKept
  <2>7. QED
    BY <2>2, <2>4, <2>5, <2>6 DEF PTracerInv
<1>4. QED
  BY <1>1, <1>2, <1>3, HistoryIs

LEMMA PTracerStays ==
  ASSUME PTracerInv, UNCHANGED vars
  PROVE  PTracerInv'
<1>1. /\ history' = history /\ raced' = raced /\ stamps' = stamps
      /\ entries' = entries /\ ptracerFound' = ptracerFound /\ seg' = seg /\ before' = before
  BY DEF vars, programVars, hbVars, orderVars, detectorVars, ptracerVars
<1>2. \A x, k : SlotMade(x, k)' <=> SlotMade(x, k)
  BY <1>1 DEF SlotMade, Made, Stamp
<1>3. \A a, x, y : CoveredBy(a, x, y)' <=> CoveredBy(a, x, y)
  BY <1>1 DEF CoveredBy, Stamp, InSpan, Implies, Knows, PastOf
<1>4. \A a, e : CoveredIn(a, e)' <=> CoveredIn(a, e)
  BY <1>3 DEF CoveredIn
<1>5. \A e, L : EntryOK(e, L) => EntryOK(e, L)'
  BY <1>1, EntryKept
<1>6. QED
  BY <1>1, <1>4, <1>5 DEF PTracerInv

ExactRecord == RecordInv /\ LocksetInv /\ (strict => PTracerInv)

LEMMA ExactStart == Init => ExactRecord
<1> SUFFICES ASSUME Init PROVE ExactRecord
  OBVIOUS
<1>1. /\ thd_lockset = [t \in Task |-> <<>>] /\ held = [t \in Task |-> {}]
      /\ entries = [L \in SUBSET Locks |-> Empty]
      /\ ptracerFound = FALSE /\ raced = FALSE /\ history = {}
  BY DEF Init, PTracerInit, ProgramInit, HBInit
<1>2. LocksetInv
  <2>1. Unlike(<<>>) /\ \A l : l \notin ToSet(<<>>)
    BY DEF Unlike, ToSet
  <2>2. QED
    BY <1>1, <2>1 DEF LocksetInv, Lockset
<1>3. PICK e : e = Empty
  OBVIOUS
<1>4. /\ e = [r1 |-> e.r1, r2 |-> e.r2, w1 |-> e.w1, w2 |-> e.w2]
      /\ e.r1 = Nobody /\ e.r2 = Nobody /\ e.w1 = Nobody /\ e.w2 = Nobody
  BY <1>3 DEF Empty
<1>5. \A L : EntryOK(e, L)
  BY <1>4 DEF EntryOK, LockMade, SlotMade, SlotsOK, SlotOK
<1>6. PTracerInv
  BY <1>1, <1>3, <1>5 DEF PTracerInv
<1>7. QED
  BY <1>2, <1>6, RecordStart DEF ExactRecord

LEMMA NextExact ==
  ASSUME ~ LockOrder, ExactRecord, [Next]_vars, LastOut \/ UNCHANGED vars
  PROVE  ExactRecord'
<1>1. RecordInv /\ LocksetInv /\ StrandsInv /\ TypeInv
  BY DEF ExactRecord, RecordInv, StrandsInv
<1>2. /\ RecordInv' /\ (strict' => strict)
      /\ strict' => UNCHANGED vars \/ (ViewInv /\ MainInv)
  BY <1>1, NextRecord
<1>3. LocksetInv'
  BY <1>1, NextLocksets
<1>4. strict' => PTracerInv'
  BY <1>1, <1>2, NextPTracer, PTracerStays DEF ExactRecord
<1>5. QED
  BY <1>2, <1>3, <1>4 DEF ExactRecord

LEMMA ExactAnswers ==
  ASSUME ExactRecord
  PROVE  PTracerExact
BY DEF ExactRecord, PTracerInv, PTracerExact

(***************************************************************************)
(* PTracer is precise and complete, for any number of tasks, locks and     *)
(* accesses: in a strict program that gives the locks back in the order    *)
(* opposite to the one it took them in, PTracer has reported a race if and *)
(* only if there was one between accesses with no lock in common.  Two     *)
(* readers and two writers per lockset cover all that were made, and what  *)
(* main accesses, which is skipped, races with nothing.  The order of the  *)
(* releases is needed: each takes the last lock off the stack of its task, *)
(* whichever lock is released.                                             *)
(***************************************************************************)
THEOREM PTracerIsExact ==
  ASSUME ~ LockOrder
  PROVE  Spec /\ [][LastOut]_vars => []PTracerExact
<1>1. Init => ExactRecord
  BY ExactStart
<1>2. ExactRecord /\ [Next]_vars /\ [LastOut]_vars => ExactRecord'
  BY NextExact
<1>3. ExactRecord => PTracerExact
  BY ExactAnswers
<1>4. QED
  BY <1>1, <1>2, <1>3, PTL DEF Spec

(***************************************************************************)
(* A program with one lock releases it as PTracer expects: there PTracer   *)
(* is precise and complete whatever a strict program does.                 *)
(***************************************************************************)
THEOREM PTracerIsExactWithOneLock ==
  ASSUME ~ LockOrder, \A l, m \in Locks : l = m
  PROVE  Spec => []PTracerExact
<1>1. Init => ExactRecord
  BY ExactStart
<1>2. ExactRecord /\ [Next]_vars => ExactRecord'
  <2>1. SUFFICES ASSUME ExactRecord, [Next]_vars PROVE ExactRecord'
    OBVIOUS
  <2>2. TypeInv /\ LocksetInv
    BY <2>1 DEF ExactRecord, RecordInv, StrandsInv
  <2>3. LastOut
    BY <2>2, OneLockLastOut
  <2>4. QED
    BY <2>1, <2>3, NextExact
<1>3. ExactRecord => PTracerExact
  BY ExactAnswers
<1>4. QED
  BY <1>1, <1>2, <1>3, PTL DEF Spec
=============================================================================
