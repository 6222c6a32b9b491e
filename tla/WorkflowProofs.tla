---------------------------- MODULE WorkflowProofs ----------------------------
(***************************************************************************)
(* What a run leaves behind is sound.  The workflow engine is safe, for    *)
(* any definitions, any number of requests and events, and any failures;   *)
(* and so is the event log of a session, for any tasks, calls, rounds,     *)
(* executions, failed writes, crashes and recoveries.                      *)
(***************************************************************************)
EXTENDS Workflow, EventRecorder, FiniteSetTheorems, FunctionTheorems, SequenceTheorems,
        WellFoundedInduction, TLAPS

-----------------------------------------------------------------------------
(* The invariant of the workflow engine.                                   *)

Statuses == Ended \cup {"idle", "open"}

WorkflowTypes ==
  /\ phase \in [Requests -> {"idle", "running", "saving", "answered"}]
  /\ executes \in [Requests -> Workflows \cup {<<>>}]
  /\ node \in [Requests -> [Nodes -> Statuses]]
  /\ iteration \in [Requests -> [Nodes -> Nat]]
  /\ burnt \in [Requests -> [Nodes -> Nat]]
  /\ late \in [Requests -> SUBSET Nodes]
  /\ scheduled \subseteq Nodes \X Nat
  /\ adder \subseteq (Nodes \X Nat) \X Requests
  /\ tickets \in [Nodes -> Nat]
  /\ saved \in [Workflows -> [status : (Ended \ {"failed"}) \cup {"none"}, burnt : [Nodes -> Nat]]]

\* A walk's own state lasts as long as its request.
WalkLasts == \A x \in Requests :
  /\ phase[x] \in {"running", "saving"} => executes[x] \in Workflows
  /\ phase[x] \in {"idle", "answered"} => node[x] = Idle /\ iteration[x] = Zero
  /\ phase[x] = "idle" => \A a \in adder : a[2] # x
  /\ phase[x] = "saving" => node[x][executes[x]] \in Ended \ {"failed"}

\* What was entered was entered in its turn, under an open node.
InTurn == \A x \in Requests, n \in Nodes : \A i \in Kids(n) : Kid(x, n, i) # "idle" => Turn(x, n, i)
OpenAbove == \A x \in Requests, n \in Nodes : node[x][n] = "open" => \A p \in Lineage(n) : node[x][p] = "open"

\* Below what has passed, all has, but for what a lenient node lets pass.
DoneBelow == \A x \in Requests, n \in Nodes : node[x][n] \in Passed =>
  \A m \in Nodes : n \in Lineage(m) /\ node[x][m] \notin Passed =>
    \E p \in Lineage(m) : p # m /\ n \in Lineage(p) /\ Lenient(p)

\* Loops begin with their node and end with their last iteration.
Iterations == \A x \in Requests, n \in Nodes :
  /\ node[x][n] = "idle" => iteration[x][n] = 0
  /\ Kind[n] = "loop" /\ node[x][n] = "completed" => iteration[x][n] = Rounds[n]

\* What was handed over is in the scheduler.
Handed == /\ \A a \in adder : a[1] \in scheduled
          /\ GivenOutOnce

\* What a request has handed over of a task below a loop, so far.
Given(x, m) == {a \in adder : a[1][1] = m /\ a[2] = x}
UpTo(x, m, k) == {<<<<m, j>>, x>> : j \in 1 .. k}

Below(n, m) ==
  /\ Kind[n] = "loop" /\ LoopAbove(n) = {}
  /\ m \in PerRound /\ n \in Lineage(m) /\ \A p \in Lineage(m) : n \in Lineage(p) => ~Lenient(p)

Tally(x, n, m) ==
  /\ iteration[x][n] = 0 => Given(x, m) = {}
  /\ iteration[x][n] > 0 /\ burnt[x][m] = 0 =>
       /\ m \notin InSlice(Append(n, 1))
       /\ \/ Given(x, m) = UpTo(x, m, iteration[x][n])
          \/ Given(x, m) = UpTo(x, m, iteration[x][n] - 1) /\ node[x][m] \notin Passed
  /\ iteration[x][n] > 0 /\ burnt[x][m] # 0 =>
       \/ Given(x, m) = {} /\ iteration[x][n] = 1 /\ node[x][m] \notin Passed
       \/ Given(x, m) = {<<<<m, burnt[x][m]>>, x>>} /\ (iteration[x][n] = 1 \/ node[x][m] \notin Passed)

Tallied == \A x \in Requests, n, m \in Nodes : phase[x] = "running" /\ Below(n, m) => Tally(x, n, m)

WorkflowInv ==
  /\ WorkflowTypes /\ WalkLasts /\ InTurn /\ OpenAbove /\ DoneBelow /\ Iterations /\ Handed /\ Tallied

-----------------------------------------------------------------------------
(* Paths.                                                                   *)

LEMMA PrefixIs ==
  ASSUME NEW s \in Seq(Nat), NEW k \in Nat, k <= Len(s)
  PROVE  /\ SubSeq(s, 1, k) \in Seq(Nat) /\ Len(SubSeq(s, 1, k)) = k
         /\ \A i \in 1 .. k : SubSeq(s, 1, k)[i] = s[i]
  OBVIOUS

LEMMA SameSequence ==
  ASSUME NEW s \in Seq(Nat), NEW t \in Seq(Nat), Len(s) = Len(t), \A i \in 1 .. Len(s) : s[i] = t[i]
  PROVE  s = t
  OBVIOUS

\* A node is above another if it is the beginning of its path.
LEMMA AboveIs ==
  ASSUME NEW p, NEW m \in Seq(Nat)
  PROVE  p \in Lineage(m) <=> /\ p \in Seq(Nat) /\ Len(p) \in 1 .. Len(m)
                              /\ \A i \in 1 .. Len(p) : p[i] = m[i]
<1>1. ASSUME p \in Lineage(m)
      PROVE  p \in Seq(Nat) /\ Len(p) \in 1 .. Len(m) /\ \A i \in 1 .. Len(p) : p[i] = m[i]
  <2>1. PICK k \in 1 .. Len(m) : p = SubSeq(m, 1, k)
    BY <1>1 DEF Lineage
  <2> QED
    BY <2>1, PrefixIs
<1>2. ASSUME p \in Seq(Nat), Len(p) \in 1 .. Len(m), \A i \in 1 .. Len(p) : p[i] = m[i]
      PROVE  p \in Lineage(m)
  <2>1. p = SubSeq(m, 1, Len(p))
    BY <1>2, PrefixIs, SameSequence
  <2> QED
    BY <1>2, <2>1 DEF Lineage
<1> QED
  BY <1>1, <1>2

LEMMA NodeIs ==
  ASSUME NEW n \in Nodes
  PROVE  n \in Seq(Nat) /\ Len(n) \in Nat \ {0} /\ n \in Lineage(n) /\ Lineage(n) \subseteq Nodes
<1>1. n \in Seq(Nat) /\ n # <<>> /\ Lineage(n) \subseteq Nodes
  BY WorkflowAssumption
<1>2. Len(n) \in Nat \ {0}
  BY <1>1
<1> QED
  BY <1>1, <1>2, AboveIs

LEMMA AboveAbove ==
  ASSUME NEW m \in Nodes, NEW p \in Lineage(m), NEW q \in Lineage(p)
  PROVE  q \in Lineage(m)
<1>1. m \in Seq(Nat) /\ Len(m) \in Nat /\ p \in Nodes
  BY NodeIs
<1>2. p \in Seq(Nat) /\ Len(p) \in 1 .. Len(m) /\ \A i \in 1 .. Len(p) : p[i] = m[i]
  BY <1>1, AboveIs
<1>3. q \in Seq(Nat) /\ Len(q) \in 1 .. Len(p) /\ \A i \in 1 .. Len(q) : q[i] = p[i]
  BY <1>2, AboveIs
<1>4. Len(q) \in 1 .. Len(m) /\ \A i \in 1 .. Len(q) : q[i] = m[i]
  BY <1>1, <1>2, <1>3
<1> QED
  BY <1>1, <1>3, <1>4, AboveIs

LEMMA AboveOnce ==
  ASSUME NEW m \in Nodes, NEW p \in Lineage(m), m \in Lineage(p)
  PROVE  p = m
<1>1. p \in Nodes
  BY NodeIs
<1> QED
  BY <1>1, NodeIs, AboveIs, SameSequence

LEMMA AboveInLine ==
  ASSUME NEW m \in Nodes, NEW p \in Lineage(m), NEW q \in Lineage(m)
  PROVE  p \in Lineage(q) \/ q \in Lineage(p)
<1>1. m \in Seq(Nat) /\ Len(m) \in Nat
  BY NodeIs
<1>2. p \in Seq(Nat) /\ Len(p) \in 1 .. Len(m) /\ \A i \in 1 .. Len(p) : p[i] = m[i]
  BY <1>1, AboveIs
<1>3. q \in Seq(Nat) /\ Len(q) \in 1 .. Len(m) /\ \A i \in 1 .. Len(q) : q[i] = m[i]
  BY <1>1, AboveIs
<1>4. CASE Len(p) <= Len(q)
  <2>1. Len(p) \in 1 .. Len(q)
    BY <1>1, <1>2, <1>3, <1>4
  <2>2. ASSUME NEW i \in 1 .. Len(p) PROVE p[i] = q[i]
    <3>1. i \in 1 .. Len(q)
      BY <2>1
    <3>2. p[i] = m[i]
      BY <1>2
    <3>3. q[i] = m[i]
      BY <1>3, <3>1
    <3> QED
      BY <3>2, <3>3
  <2> QED
    BY <1>2, <1>3, <2>1, <2>2, AboveIs
<1>5. CASE Len(q) <= Len(p)
  <2>1. Len(q) \in 1 .. Len(p)
    BY <1>1, <1>2, <1>3, <1>5
  <2>2. ASSUME NEW i \in 1 .. Len(q) PROVE q[i] = p[i]
    <3>1. i \in 1 .. Len(p)
      BY <2>1
    <3>2. q[i] = m[i]
      BY <1>3
    <3>3. p[i] = m[i]
      BY <1>2, <3>1
    <3> QED
      BY <3>2, <3>3
  <2> QED
    BY <1>2, <1>3, <2>1, <2>2, AboveIs
<1> QED
  BY <1>1, <1>2, <1>3, <1>4, <1>5

LEMMA UnderIs ==
  ASSUME NEW n \in Nodes, NEW m \in Nodes
  PROVE  m \in Under(n) <=> n \in Lineage(m)
<1>1. n \in Seq(Nat) /\ m \in Seq(Nat) /\ Len(n) \in Nat \ {0} /\ Len(m) \in Nat
  BY NodeIs
<1>2. ASSUME m \in Under(n) PROVE n \in Lineage(m)
  <2>1. Len(m) >= Len(n) /\ SubSeq(m, 1, Len(n)) = n
    BY <1>2 DEF Under
  <2>2. Len(n) \in 1 .. Len(m)
    BY <1>1, <2>1
  <2>3. SubSeq(m, 1, Len(n)) \in Lineage(m)
    BY <2>2 DEF Lineage
  <2> QED
    BY <2>1, <2>3
<1>3. ASSUME n \in Lineage(m) PROVE m \in Under(n)
  <2>1. Len(n) <= Len(m) /\ \A i \in 1 .. Len(n) : n[i] = m[i]
    BY <1>1, <1>3, AboveIs
  <2>2. SubSeq(m, 1, Len(n)) = n
    BY <1>1, <2>1, PrefixIs, SameSequence
  <2> QED
    BY <1>1, <2>1, <2>2 DEF Under
<1> QED
  BY <1>2, <1>3

LEMMA KidIs ==
  ASSUME NEW n \in Nodes, NEW i \in Kids(n)
  PROVE  /\ Append(n, i) \in Nodes /\ Append(n, i) # n /\ Append(n, i) \notin Lineage(n)
         /\ Len(Append(n, i)) > 1 /\ Parent(Append(n, i)) = n /\ Append(n, i)[Len(Append(n, i))] = i
         /\ Lineage(Append(n, i)) = Lineage(n) \cup {Append(n, i)}
<1>1. n \in Seq(Nat) /\ Len(n) \in Nat \ {0} /\ i \in Nat /\ Append(n, i) \in Nodes
  BY NodeIs, WorkflowAssumption DEF Kids
<1>2. PICK k : k = Append(n, i)
  OBVIOUS
<1>3. /\ k \in Seq(Nat) /\ Len(k) = Len(n) + 1 /\ k[Len(k)] = i
      /\ \A j \in 1 .. Len(n) : k[j] = n[j]
  BY <1>1, <1>2
<1>4. k # n
  BY <1>1, <1>3
<1>5. k \notin Lineage(n)
  BY <1>1, <1>3, AboveIs
<1>6. Parent(k) = n
  <2>1. Len(k) - 1 = Len(n) /\ Len(n) <= Len(k) /\ Len(n) \in Nat
    BY <1>1, <1>3
  <2>2. SubSeq(k, 1, Len(n)) = n
    BY <1>1, <1>3, <2>1, PrefixIs, SameSequence
  <2> QED
    BY <2>1, <2>2 DEF Parent
<1>7. ASSUME NEW p \in Lineage(k) PROVE p \in Lineage(n) \cup {k}
  <2>1. p \in Seq(Nat) /\ Len(p) \in 1 .. Len(k) /\ \A j \in 1 .. Len(p) : p[j] = k[j]
    BY <1>3, AboveIs
  <2>2. CASE Len(p) = Len(k)
    BY <1>3, <2>1, <2>2, SameSequence
  <2>3. CASE Len(p) # Len(k)
    <3>1. Len(p) \in 1 .. Len(n) /\ \A j \in 1 .. Len(p) : p[j] = n[j]
      BY <1>1, <1>3, <2>1, <2>3
    <3> QED
      BY <1>1, <2>1, <3>1, AboveIs
  <2> QED
    BY <2>2, <2>3
<1>8. ASSUME NEW p \in Lineage(n) PROVE p \in Lineage(k)
  <2>1. p \in Seq(Nat) /\ Len(p) \in 1 .. Len(n) /\ \A j \in 1 .. Len(p) : p[j] = n[j]
    BY <1>1, AboveIs
  <2>2. Len(p) \in 1 .. Len(k) /\ \A j \in 1 .. Len(p) : p[j] = k[j]
    BY <1>1, <1>3, <2>1
  <2> QED
    BY <1>3, <2>1, <2>2, AboveIs
<1>9. k \in Lineage(k)
  BY <1>1, <1>2, NodeIs
<1>10. Lineage(k) = Lineage(n) \cup {k}
  BY <1>7, <1>8, <1>9
<1> QED
  BY <1>1, <1>2, <1>3, <1>4, <1>5, <1>6, <1>10

LEMMA ParentIs ==
  ASSUME NEW m \in Nodes, Len(m) > 1
  PROVE  /\ Parent(m) \in Nodes /\ m[Len(m)] \in Kids(Parent(m)) /\ m = Append(Parent(m), m[Len(m)])
         /\ Lineage(m) = Lineage(Parent(m)) \cup {m} /\ Parent(m) # m /\ Parent(m) \in Lineage(m)
<1>1. m \in Seq(Nat) /\ Len(m) \in Nat /\ m[Len(m)] \in 1 .. Width /\ Width \in Nat
  BY NodeIs, WorkflowAssumption
<1>2. Len(m) - 1 \in 1 .. Len(m) /\ Len(m) - 1 \in Nat
  BY <1>1
<1>3. Parent(m) \in Lineage(m)
  BY <1>2 DEF Parent, Lineage
<1>4. Parent(m) \in Nodes
  BY <1>3, NodeIs
<1>5. PICK p : p = Parent(m)
  OBVIOUS
<1>6. p \in Seq(Nat) /\ Len(p) = Len(m) - 1 /\ \A j \in 1 .. Len(p) : p[j] = m[j]
  BY <1>1, <1>2, <1>5, PrefixIs DEF Parent
<1>7. m = Append(p, m[Len(m)])
  <2>1. m[Len(m)] \in Nat
    BY <1>1
  <2>2. PICK q : q = Append(p, m[Len(m)])
    OBVIOUS
  <2>3. q \in Seq(Nat) /\ Len(q) = Len(p) + 1 /\ q[Len(p) + 1] = m[Len(m)] /\ \A j \in 1 .. Len(p) : q[j] = p[j]
    BY <1>6, <2>1, <2>2
  <2>4. Len(q) = Len(m) /\ Len(p) \in Nat /\ Len(m) = Len(p) + 1
    BY <1>1, <1>2, <1>6, <2>3
  <2>5. ASSUME NEW j \in 1 .. Len(m) PROVE m[j] = q[j]
    <3>1. CASE j = Len(m)
      BY <2>3, <2>4, <3>1
    <3>2. CASE j # Len(m)
      <4>1. j \in 1 .. Len(p)
        BY <2>4, <3>2
      <4> QED
        BY <1>6, <2>3, <4>1
    <3> QED
      BY <3>1, <3>2
  <2> QED
    BY <1>1, <2>2, <2>3, <2>4, <2>5, SameSequence
<1>8. m[Len(m)] \in Kids(p)
  BY <1>1, <1>7 DEF Kids
<1> QED
  BY <1>3, <1>4, <1>5, <1>7, <1>8, KidIs

LEMMA RootIs ==
  ASSUME NEW w \in Nodes, Len(w) = 1 PROVE Lineage(w) = {w}
<1>1. w \in Seq(Nat) /\ w \in Lineage(w)
  BY NodeIs
<1>2. ASSUME NEW p \in Lineage(w) PROVE p = w
  BY <1>1, AboveIs, SameSequence
<1> QED
  BY <1>1, <1>2

\* Between a node and one below it lies one of its own.
LEMMA ThroughKid ==
  ASSUME NEW m \in Nodes, NEW n \in Lineage(m), n # m
  PROVE  \E i \in Kids(n) : Append(n, i) \in Lineage(m)
<1>1. m \in Seq(Nat) /\ Len(m) \in Nat /\ n \in Nodes /\ Lineage(m) \subseteq Nodes
  BY NodeIs
<1>2. n \in Seq(Nat) /\ Len(n) \in 1 .. Len(m) /\ \A j \in 1 .. Len(n) : n[j] = m[j]
  BY <1>1, AboveIs
<1>3. Len(n) < Len(m)
  BY <1>1, <1>2, SameSequence
<1>4. PICK k : k = SubSeq(m, 1, Len(n) + 1)
  OBVIOUS
<1>5. Len(n) + 1 \in 1 .. Len(m)
  BY <1>1, <1>2, <1>3
<1>6. k \in Lineage(m)
  BY <1>4, <1>5 DEF Lineage
<1>7. k \in Nodes
  BY <1>1, <1>6
<1>8. k \in Seq(Nat) /\ Len(k) = Len(n) + 1 /\ \A j \in 1 .. Len(n) + 1 : k[j] = m[j]
  BY <1>1, <1>2, <1>4, <1>5, PrefixIs
<1>9. Parent(k) = n
  <2>1. Len(k) - 1 = Len(n) /\ Len(n) \in Nat /\ Len(n) <= Len(k)
    BY <1>2, <1>8
  <2>2. SubSeq(k, 1, Len(n)) = n
    <3>1. SubSeq(k, 1, Len(n)) \in Seq(Nat) /\ Len(SubSeq(k, 1, Len(n))) = Len(n)
          /\ \A j \in 1 .. Len(n) : SubSeq(k, 1, Len(n))[j] = k[j]
      BY <1>8, <2>1, PrefixIs
    <3>2. \A j \in 1 .. Len(n) : k[j] = n[j]
      BY <1>2, <1>8
    <3> QED
      BY <1>2, <3>1, <3>2, SameSequence
  <2> QED
    BY <2>1, <2>2 DEF Parent
<1>10. Len(k) > 1
  BY <1>2, <1>8
<1>11. k[Len(k)] \in Kids(n) /\ k = Append(n, k[Len(k)])
  BY <1>7, <1>9, <1>10, ParentIs
<1> QED
  BY <1>6, <1>11

-----------------------------------------------------------------------------
(* The steps of a walk.                                                     *)

LEMMA KidsFinite == ASSUME NEW n PROVE IsFiniteSet(Kids(n)) /\ Kids(n) \subseteq Nat
<1>1. Width \in Nat
  BY WorkflowAssumption
<1>2. IsFiniteSet(1 .. Width)
  BY <1>1, FS_Interval
<1>3. Kids(n) \subseteq 1 .. Width
  BY DEF Kids
<1>4. IsFiniteSet(Kids(n))
  BY <1>2, <1>3, FS_Subset
<1> QED
  BY <1>1, <1>3, <1>4

LEMMA AllCounted ==
  ASSUME NEW x, NEW n, NEW S, Count(x, n, S) = Cardinality(Kids(n))
  PROVE  \A i \in Kids(n) : Kid(x, n, i) \in S
<1>1. PICK T : T = {i \in Kids(n) : Kid(x, n, i) \in S}
  OBVIOUS
<1>2. T \in SUBSET Kids(n) /\ Cardinality(T) = Cardinality(Kids(n))
  BY <1>1 DEF Count
<1>3. T = Kids(n)
  BY <1>2, KidsFinite, FS_Subset
<1> QED
  BY <1>1, <1>3

LEMMA NoneCounted ==
  ASSUME NEW x, NEW n, NEW S, Count(x, n, S) = 0
  PROVE  \A i \in Kids(n) : Kid(x, n, i) \notin S
<1>1. PICK T : T = {i \in Kids(n) : Kid(x, n, i) \in S}
  OBVIOUS
<1>2. T \in SUBSET Kids(n) /\ Cardinality(T) = 0
  BY <1>1 DEF Count
<1>3. IsFiniteSet(T)
  BY <1>2, KidsFinite, FS_Subset
<1>4. T = {}
  BY <1>2, <1>3, FS_EmptySet
<1> QED
  BY <1>1, <1>4

\* A node is entered.
Enters(x, n, s) ==
  /\ phase[x] = "running" /\ node[x][n] = "idle" /\ s \in {"open", "failed"}
  /\ n = executes[x] \/ (Len(n) > 1 /\ node[x][Parent(n)] = "open" /\ Turn(x, Parent(n), n[Len(n)]))
  /\ Return(x, n, s)
  /\ UNCHANGED <<mine, shared>>

\* A node returns when nothing goes on below it.
Settles(x, n, s) ==
  /\ s \in Ended
  /\ \A i \in Kids(n) : Kid(x, n, i) # "open"
  /\ s \in Passed => Lenient(n) \/ \A i \in Kids(n) : Kid(x, n, i) \in Passed
  /\ Kind[n] = "loop" /\ s = "completed" => iteration[x][n] = Rounds[n]
Gives(x, n, s) ==
  \/ UNCHANGED <<scheduled, adder>> /\ (Kind[n] = "agent_task" => s = "failed")
  \/ /\ Kind[n] = "agent_task" /\ TaskID(x, n) \notin scheduled
     /\ scheduled' = scheduled \cup {TaskID(x, n)} /\ adder' = adder \cup {<<TaskID(x, n), x>>}
ReturnsFrom(x, n, s) ==
  /\ phase[x] = "running" /\ node[x][n] = "open"
  /\ Settles(x, n, s) /\ Gives(x, n, s) /\ Return(x, n, s)
  /\ UNCHANGED <<mine, saved, posted, ends>> /\ tickets' \in {tickets, [tickets EXCEPT ![n] = @ + 1]}

LEMMA EntersIs ==
  ASSUME NEW x, NEW n, executeNode(x, n) PROVE \E s : Enters(x, n, s)
  BY DEF executeNode, Enters

LEMMA CompletesIs ==
  ASSUME NEW x, NEW n, NEW es, CompleteAfter(x, n, es)
  PROVE  Return(x, n, "completed") \/ Return(x, n, "failed")
  BY DEF CompleteAfter

\* What kids of a node in whose turn they were entered are like.
LEMMA SequenceIs ==
  ASSUME WorkflowTypes, InTurn, NEW x \in Requests, NEW n \in Nodes, executeSequence(x, n)
  PROVE  \E s : ReturnsFrom(x, n, s)
<1>1. AtNode(x, n, "sequence") /\ UNCHANGED <<mine, shared>>
  BY DEF executeSequence
<1>2. phase[x] = "running" /\ node[x][n] = "open" /\ Kind[n] = "sequence"
  BY <1>1 DEF AtNode
<1>3. ASSUME NEW i \in Kids(n), Kid(x, n, i) \in Waiting \cup {"failed"}, Pass(x, n, Kid(x, n, i))
      PROVE  ReturnsFrom(x, n, Kid(x, n, i))
  <2>1. ASSUME NEW j \in Kids(n) PROVE Kid(x, n, j) # "open"
    <3>1. CASE j < i
      <4>1. Kid(x, n, i) # "idle"
        BY <1>3 DEF Waiting
      <4>2. \A k \in 1 .. i - 1 : Kid(x, n, k) \in Passed
        BY <1>2, <4>1 DEF InTurn, Turn
      <4>3. j \in 1 .. i - 1
        BY <3>1 DEF Kids
      <4> QED
        BY <4>2, <4>3 DEF Passed
    <3>2. CASE i < j
      <4>1. SUFFICES ASSUME Kid(x, n, j) = "open" PROVE FALSE
        OBVIOUS
      <4>2. \A k \in 1 .. j - 1 : Kid(x, n, k) \in Passed
        BY <1>2, <4>1 DEF InTurn, Turn
      <4>3. i \in 1 .. j - 1
        BY <3>2 DEF Kids
      <4> QED
        BY <1>3, <4>2, <4>3 DEF Passed, Waiting
    <3>3. CASE i = j
      BY <1>3, <3>3 DEF Waiting
    <3>4. i \in Nat /\ j \in Nat
      BY KidsFinite
    <3> QED
      BY <3>1, <3>2, <3>3, <3>4
  <2>2. Settles(x, n, Kid(x, n, i))
    BY <1>2, <1>3, <2>1 DEF Settles, Ended, Passed, Waiting
  <2> QED
    BY <1>1, <1>2, <1>3, <2>2 DEF ReturnsFrom, Gives, Pass, shared, mine
<1>4. ASSUME NEW s, Return(x, n, s), s \in {"completed", "failed"}, Count(x, n, Passed) = Cardinality(Kids(n))
      PROVE  ReturnsFrom(x, n, s)
  <2>1. \A i \in Kids(n) : Kid(x, n, i) \in Passed
    BY <1>4, AllCounted
  <2>2. Settles(x, n, s)
    BY <1>2, <1>4, <2>1 DEF Settles, Ended, Passed, Waiting
  <2> QED
    BY <1>1, <1>2, <1>4, <2>2 DEF ReturnsFrom, Gives, shared, mine
<1> QED
  BY <1>3, <1>4, CompletesIs DEF executeSequence, completeNode

LEMMA ParallelIs ==
  ASSUME WorkflowTypes, InTurn, NEW x \in Requests, NEW n \in Nodes, executeParallel(x, n)
  PROVE  \E s : ReturnsFrom(x, n, s)
<1>1. AtNode(x, n, "parallel") /\ UNCHANGED <<mine, shared>> /\ Count(x, n, Ended) = Cardinality(Kids(n))
  BY DEF executeParallel
<1>2. phase[x] = "running" /\ node[x][n] = "open" /\ Kind[n] = "parallel"
  BY <1>1 DEF AtNode
<1>3. \A i \in Kids(n) : Kid(x, n, i) \in Ended
  BY <1>1, AllCounted
<1>4. \A i \in Kids(n) : Kid(x, n, i) # "open"
  BY <1>3 DEF Ended, Passed, Waiting
<1>5. ASSUME NEW i \in Kids(n), Kid(x, n, i) \in Stops(n), Pass(x, n, Kid(x, n, i))
      PROVE  ReturnsFrom(x, n, Kid(x, n, i))
  <2>1. Kid(x, n, i) \in Waiting \cup {"failed"}
    BY <1>5 DEF Stops
  <2>2. Settles(x, n, Kid(x, n, i))
    BY <1>2, <1>3, <1>4, <2>1 DEF Settles, Passed, Waiting
  <2> QED
    BY <1>1, <1>2, <1>5, <2>2 DEF ReturnsFrom, Gives, Pass, shared, mine
<1>6. ASSUME NEW s, Return(x, n, s), s \in {"completed", "failed"}, Count(x, n, Stops(n)) = 0
      PROVE  ReturnsFrom(x, n, s)
  <2>1. \A i \in Kids(n) : Kid(x, n, i) \notin Stops(n)
    BY <1>6, NoneCounted
  <2>2. Lenient(n) \/ \A i \in Kids(n) : Kid(x, n, i) \in Passed
    BY <1>3, <2>1 DEF Lenient, Stops, Ended
  <2>3. Settles(x, n, s)
    BY <1>2, <1>4, <1>6, <2>2 DEF Settles, Ended, Passed
  <2> QED
    BY <1>1, <1>2, <1>6, <2>3 DEF ReturnsFrom, Gives, shared, mine
<1> QED
  BY <1>5, <1>6, CompletesIs DEF executeParallel, completeNode

LEMMA JoinIs ==
  ASSUME WorkflowTypes, InTurn, NEW x \in Requests, NEW n \in Nodes, executeJoin(x, n)
  PROVE  \E s : ReturnsFrom(x, n, s)
<1>1. AtNode(x, n, "join") /\ UNCHANGED <<mine, shared>>
  BY DEF executeJoin
<1>2. phase[x] = "running" /\ node[x][n] = "open" /\ Kind[n] = "join" /\ Lenient(n)
  BY <1>1 DEF AtNode, Lenient
<1>3. ASSUME NEW i \in Kids(n), Kid(x, n, i) \in Waiting, Pass(x, n, Kid(x, n, i))
      PROVE  ReturnsFrom(x, n, Kid(x, n, i))
  <2>1. ASSUME NEW j \in Kids(n) PROVE Kid(x, n, j) # "open"
    <3>1. CASE j < i
      <4>1. Kid(x, n, i) # "idle"
        BY <1>3 DEF Waiting
      <4>2. \A k \in 1 .. i - 1 : Kid(x, n, k) \in Passed \cup {"failed"}
        BY <1>2, <4>1 DEF InTurn, Turn
      <4>3. j \in 1 .. i - 1
        BY <3>1 DEF Kids
      <4> QED
        BY <4>2, <4>3 DEF Passed
    <3>2. CASE i < j
      <4>1. SUFFICES ASSUME Kid(x, n, j) = "open" PROVE FALSE
        OBVIOUS
      <4>2. \A k \in 1 .. j - 1 : Kid(x, n, k) \in Passed \cup {"failed"}
        BY <1>2, <4>1 DEF InTurn, Turn
      <4>3. i \in 1 .. j - 1
        BY <3>2 DEF Kids
      <4> QED
        BY <1>3, <4>2, <4>3 DEF Passed, Waiting
    <3>3. CASE i = j
      BY <1>3, <3>3 DEF Waiting
    <3>4. i \in Nat /\ j \in Nat
      BY KidsFinite
    <3> QED
      BY <3>1, <3>2, <3>3, <3>4
  <2>2. Settles(x, n, Kid(x, n, i))
    BY <1>2, <1>3, <2>1 DEF Settles, Ended, Passed, Waiting
  <2> QED
    BY <1>1, <1>2, <1>3, <2>2 DEF ReturnsFrom, Gives, Pass, shared, mine
<1>4. ASSUME NEW s, Return(x, n, s), s \in {"completed", "failed"},
             Count(x, n, Passed \cup {"failed"}) = Cardinality(Kids(n))
      PROVE  ReturnsFrom(x, n, s)
  <2>1. \A i \in Kids(n) : Kid(x, n, i) \in Passed \cup {"failed"}
    BY <1>4, AllCounted
  <2>2. Settles(x, n, s)
    BY <1>2, <1>4, <2>1 DEF Settles, Ended, Passed, Waiting
  <2> QED
    BY <1>1, <1>2, <1>4, <2>2 DEF ReturnsFrom, Gives, shared, mine
<1>5. ASSUME Pass(x, n, "failed") PROVE Return(x, n, "failed")
  BY <1>5 DEF Pass
<1> QED
  BY <1>3, <1>4, <1>5, CompletesIs DEF executeJoin, completeNode

LEMMA LoopIs ==
  ASSUME WorkflowTypes, InTurn, NEW x \in Requests, NEW n \in Nodes, executeLoop(x, n)
  PROVE  \E s : ReturnsFrom(x, n, s)
<1>1. AtNode(x, n, "loop") /\ UNCHANGED <<mine, shared>>
  BY DEF executeLoop
<1>2. phase[x] = "running" /\ node[x][n] = "open" /\ Kind[n] = "loop" /\ Kids(n) = {1}
  BY <1>1, WorkflowAssumption DEF AtNode
<1>3. ASSUME Kid(x, n, 1) \in Waiting \cup {"failed"}, Pass(x, n, Kid(x, n, 1))
      PROVE  ReturnsFrom(x, n, Kid(x, n, 1))
  <2>1. Settles(x, n, Kid(x, n, 1))
    BY <1>2, <1>3 DEF Settles, Ended, Passed, Waiting
  <2> QED
    BY <1>1, <1>2, <1>3, <2>1 DEF ReturnsFrom, Gives, Pass, shared, mine
<1>4. ASSUME NEW s, Return(x, n, s), s \in {"completed", "failed"},
             Kid(x, n, 1) \in Passed, iteration[x][n] = Rounds[n]
      PROVE  ReturnsFrom(x, n, s)
  <2>1. Settles(x, n, s)
    BY <1>2, <1>4 DEF Settles, Ended, Passed, Waiting
  <2> QED
    BY <1>1, <1>2, <1>4, <2>1 DEF ReturnsFrom, Gives, shared, mine
<1> QED
  BY <1>3, <1>4, CompletesIs DEF executeLoop, completeNode

LEMMA ConditionIs ==
  ASSUME WorkflowTypes, InTurn, NEW x \in Requests, NEW n \in Nodes, executeCondition(x, n)
  PROVE  \E s : ReturnsFrom(x, n, s)
<1>1. AtNode(x, n, "condition") /\ UNCHANGED <<mine, shared>>
  BY DEF executeCondition
<1>2. phase[x] = "running" /\ node[x][n] = "open" /\ Kind[n] = "condition" /\ Lenient(n)
  BY <1>1 DEF AtNode, Lenient
<1>3. \A i \in Kids(n) : i # Chosen(n) => Kid(x, n, i) = "idle"
  BY <1>2 DEF InTurn, Turn
<1>4. ASSUME NEW s, Return(x, n, s), s \in {"completed", "failed"},
             Chosen(n) \in Kids(n) => Kid(x, n, Chosen(n)) \in Ended
      PROVE  ReturnsFrom(x, n, s)
  <2>1. \A i \in Kids(n) : Kid(x, n, i) # "open"
    BY <1>3, <1>4 DEF Ended, Passed, Waiting
  <2>2. Settles(x, n, s)
    BY <1>2, <1>4, <2>1 DEF Settles, Ended, Passed, Waiting
  <2> QED
    BY <1>1, <1>2, <1>4, <2>2 DEF ReturnsFrom, Gives, shared, mine
<1>5. ASSUME Pass(x, n, "failed") PROVE Return(x, n, "failed")
  BY <1>5 DEF Pass
<1>6. "failed" \in Ended
  BY DEF Ended
<1> QED
  BY <1>4, <1>5, <1>6, CompletesIs DEF executeCondition, completeNode

LEMMA ErrorHandlerIs ==
  ASSUME WorkflowTypes, InTurn, NEW x \in Requests, NEW n \in Nodes, executeErrorHandler(x, n)
  PROVE  \E s : ReturnsFrom(x, n, s)
<1>1. AtNode(x, n, "error_handler") /\ UNCHANGED <<mine, shared>>
  BY DEF executeErrorHandler
<1>2. /\ phase[x] = "running" /\ node[x][n] = "open" /\ Kind[n] = "error_handler" /\ Lenient(n)
      /\ Kids(n) \in {{1}, {1, 2}}
  BY <1>1, WorkflowAssumption DEF AtNode, Lenient
<1>3. 2 \in Kids(n) /\ Kid(x, n, 2) # "idle" => Kid(x, n, 1) = "failed"
  BY <1>2 DEF InTurn, Turn
<1>4. ASSUME NEW s, Pass(x, n, s), s \in Ended, Kid(x, n, 1) \in Ended,
             2 \in Kids(n) /\ Kid(x, n, 1) = "failed" => Kid(x, n, 2) \in Ended
      PROVE  ReturnsFrom(x, n, s)
  <2>1. Kid(x, n, 1) # "open" /\ (2 \in Kids(n) => Kid(x, n, 2) # "open")
    BY <1>3, <1>4 DEF Ended, Passed, Waiting
  <2>2. Settles(x, n, s)
    BY <1>2, <1>4, <2>1 DEF Settles
  <2> QED
    BY <1>1, <1>2, <1>4, <2>2 DEF ReturnsFrom, Gives, Pass, shared, mine
<1>5. "failed" \in Ended /\ "compensated" \in Ended
  BY DEF Ended, Passed
<1> QED
  BY <1>4, <1>5 DEF executeErrorHandler

LEMMA SubworkflowIs ==
  ASSUME WorkflowTypes, InTurn, NEW x \in Requests, NEW n \in Nodes, executeSubworkflow(x, n)
  PROVE  \E s : ReturnsFrom(x, n, s)
<1>1. AtNode(x, n, "subworkflow") /\ UNCHANGED <<mine, shared>>
  BY DEF executeSubworkflow
<1>2. phase[x] = "running" /\ node[x][n] = "open" /\ Kind[n] = "subworkflow" /\ Kids(n) = {1}
  BY <1>1, WorkflowAssumption DEF AtNode
<1>3. ASSUME NEW s, Return(x, n, s), s \in Waiting \cup {"failed"}, Kid(x, n, 1) \in Ended
      PROVE  ReturnsFrom(x, n, s)
  <2>1. Settles(x, n, s)
    BY <1>2, <1>3 DEF Settles, Ended, Passed, Waiting
  <2> QED
    BY <1>1, <1>2, <1>3, <2>1 DEF ReturnsFrom, Gives, shared, mine
<1>4. ASSUME NEW s, Return(x, n, s), s \in {"completed", "failed"}, Kid(x, n, 1) \in Passed
      PROVE  ReturnsFrom(x, n, s)
  <2>1. Settles(x, n, s)
    BY <1>2, <1>4 DEF Settles, Ended, Passed, Waiting
  <2> QED
    BY <1>1, <1>2, <1>4, <2>1 DEF ReturnsFrom, Gives, shared, mine
<1>5. ASSUME Pass(x, n, "failed") PROVE Return(x, n, "failed")
  BY <1>5 DEF Pass
<1>6. "failed" \in Ended /\ Waiting \subseteq Ended /\ "failed" \in Waiting \cup {"failed"}
  BY DEF Ended
<1> QED
  BY <1>3, <1>4, <1>5, <1>6, CompletesIs DEF executeSubworkflow

LEMMA LeafIs ==
  ASSUME WorkflowTypes, InTurn, NEW x \in Requests, NEW n \in Nodes,
         executeAgentTask(x, n) \/ executeApproval(x, n) \/ executeWaitEvent(x, n)
  PROVE  \E s : ReturnsFrom(x, n, s)
<1>1. ASSUME NEW k \in Leaves, AtNode(x, n, k)
      PROVE  phase[x] = "running" /\ node[x][n] = "open" /\ Kind[n] = k /\ Kids(n) = {}
  BY <1>1, WorkflowAssumption DEF AtNode
<1>2. ASSUME NEW k \in Leaves, AtNode(x, n, k), NEW s \in Ended PROVE Settles(x, n, s)
  BY <1>1, <1>2 DEF Settles, Leaves
<1>3. "completed" \in Ended /\ "failed" \in Ended /\ Waiting \subseteq Ended
  BY DEF Ended, Passed
<1>4. CASE executeAgentTask(x, n)
  <2>1. AtNode(x, n, "agent_task") /\ UNCHANGED <<mine, tickets, saved, posted, ends>> /\ "agent_task" \in Leaves
    BY <1>4 DEF executeAgentTask, Leaves
  <2>2. ASSUME TaskID(x, n) \notin scheduled, Add(x, n, TaskID(x, n)) PROVE \E s : ReturnsFrom(x, n, s)
    <3>1. PICK s \in {"completed", "failed"} : Return(x, n, s)
      BY <2>2, CompletesIs DEF Add, completeNode
    <3>2. Settles(x, n, s)
      BY <1>2, <1>3, <2>1, <3>1
    <3> QED
      BY <1>1, <2>1, <2>2, <3>1, <3>2 DEF ReturnsFrom, Gives, Add, mine
  <2>3. ASSUME Pass(x, n, "failed"), UNCHANGED <<scheduled, adder>> PROVE ReturnsFrom(x, n, "failed")
    BY <1>1, <1>2, <1>3, <2>1, <2>3 DEF ReturnsFrom, Gives, Pass, mine
  <2> QED
    BY <1>4, <2>2, <2>3 DEF executeAgentTask
<1>5. CASE executeApproval(x, n)
  <2>1. AtNode(x, n, "approval") /\ UNCHANGED <<mine, scheduled, adder, saved, posted, ends>> /\ "approval" \in Leaves
    BY <1>5 DEF executeApproval, Leaves
  <2>2. PICK s \in {"waiting_approval", "failed"} : Return(x, n, s)
    BY <1>5 DEF executeApproval, Pass
  <2>3. tickets' \in {tickets, [tickets EXCEPT ![n] = @ + 1]}
    BY <1>5 DEF executeApproval
  <2>4. Settles(x, n, s)
    BY <1>2, <1>3, <2>1, <2>2 DEF Waiting
  <2> QED
    BY <1>1, <2>1, <2>2, <2>3, <2>4 DEF ReturnsFrom, Gives, mine
<1>6. CASE executeWaitEvent(x, n)
  <2>1. AtNode(x, n, "wait_event") /\ UNCHANGED <<mine, shared>> /\ "wait_event" \in Leaves
    BY <1>6 DEF executeWaitEvent, Leaves
  <2>2. PICK s \in {"waiting_event", "completed", "failed"} : Return(x, n, s)
    BY <1>6, CompletesIs DEF executeWaitEvent, completeNode, Pass
  <2>3. Settles(x, n, s)
    BY <1>2, <1>3, <2>1, <2>2 DEF Waiting
  <2> QED
    BY <1>1, <2>1, <2>2, <2>3 DEF ReturnsFrom, Gives, mine, shared
<1> QED
  BY <1>4, <1>5, <1>6

LEMMA WalkIs ==
  ASSUME WorkflowTypes, InTurn, NEW x \in Requests, Walk(x)
  PROVE  \E n \in Nodes : (\E s : Enters(x, n, s) \/ ReturnsFrom(x, n, s)) \/ NextIteration(x, n)
<1>1. PICK n \in Nodes :
        \/ executeNode(x, n) \/ executeSequence(x, n) \/ executeParallel(x, n) \/ executeJoin(x, n)
        \/ NextIteration(x, n) \/ executeLoop(x, n) \/ executeCondition(x, n) \/ executeErrorHandler(x, n)
        \/ executeSubworkflow(x, n) \/ executeAgentTask(x, n) \/ executeApproval(x, n) \/ executeWaitEvent(x, n)
  BY DEF Walk
<1> QED
  BY <1>1, EntersIs, SequenceIs, ParallelIs, JoinIs, LoopIs, ConditionIs, ErrorHandlerIs, SubworkflowIs, LeafIs

-----------------------------------------------------------------------------
(* Tasks of loops.                                                          *)

\* Every set of naturals has a least element.
LEMMA Smallest ==
  ASSUME NEW T, T \subseteq Nat, T # {}
  PROVE  \E x \in T : \A y \in T : x <= y
<1> DEFINE R == OpToRel(<, Nat)
<1>1. PICK x \in T : \A y \in T : ~(<<y, x>> \in R)
  <2>1. IsWellFoundedOn(R, Nat)
    BY NatLessThanWellFounded
  <2> HIDE DEF R
  <2> QED
    BY <2>1, WFMin
<1>2. \A a, b \in Nat : a < b => <<a, b>> \in R
  BY DEF OpToRel
<1> HIDE DEF R
<1>3. ASSUME NEW y \in T PROVE x <= y
  <2>1. x \in Nat /\ y \in Nat
    BY <1>1, <1>3
  <2>2. ~(y < x)
    BY <1>1, <1>2, <1>3, <2>1
  <2> QED
    BY <2>1, <2>2
<1> QED
  BY <1>1, <1>3

LEMMA Outermost ==
  ASSUME NEW m \in Nodes, LoopAbove(m) # {}
  PROVE  \E l \in LoopAbove(m) : \A k \in LoopAbove(m) : l \in Lineage(k)
<1>1. LoopAbove(m) \subseteq Lineage(m) /\ Lineage(m) \subseteq Nodes
  BY NodeIs DEF LoopAbove
<1>2. PICK T : T = {Len(l) : l \in LoopAbove(m)}
  OBVIOUS
<1>3. T \subseteq Nat /\ T # {}
  BY <1>1, <1>2, NodeIs
<1>4. PICK t \in T : \A u \in T : t <= u
  BY <1>3, Smallest
<1>5. PICK l \in LoopAbove(m) : Len(l) = t
  BY <1>2, <1>4
<1>6. ASSUME NEW k \in LoopAbove(m) PROVE l \in Lineage(k)
  <2>1. Len(l) <= Len(k)
    BY <1>2, <1>4, <1>5
  <2>2. k \in Nodes /\ l \in Nodes /\ k \in Lineage(m) /\ l \in Lineage(m)
    BY <1>1
  <2>3. CASE k \in Lineage(l)
    <3>1. k \in Seq(Nat) /\ l \in Seq(Nat) /\ Len(l) \in Nat /\ Len(k) \in Nat
      BY <2>2, NodeIs
    <3>2. Len(k) \in 1 .. Len(l) /\ \A i \in 1 .. Len(k) : k[i] = l[i]
      BY <2>3, <3>1, AboveIs
    <3>3. k = l
      BY <2>1, <3>1, <3>2, SameSequence
    <3> QED
      BY <2>3, <3>3
  <2> QED
    BY <2>2, <2>3, AboveInLine
<1> QED
  BY <1>6

LEMMA TaskIDIs ==
  ASSUME WorkflowTypes, NEW x \in Requests, NEW n \in Nodes
  PROVE  TaskID(x, n) \in Nodes \X Nat /\ TaskID(x, n)[1] = n
<1>1. burnt[x][n] \in Nat
  BY DEF WorkflowTypes
<1>2. CASE LoopAbove(n) # {}
  <2>1. PICK l : l = CHOOSE m \in LoopAbove(n) : \A k \in LoopAbove(n) : m \in Lineage(k)
    OBVIOUS
  <2>2. l \in LoopAbove(n)
    BY <1>2, <2>1, Outermost
  <2>3. l \in Nodes
    BY <2>2, NodeIs DEF LoopAbove
  <2>4. iteration[x][l] \in Nat
    BY <2>3 DEF WorkflowTypes
  <2> QED
    BY <1>1, <2>1, <2>4 DEF TaskID
<1>3. CASE LoopAbove(n) = {}
  BY <1>3 DEF TaskID
<1> QED
  BY <1>2, <1>3

LEMMA LoopIsAbove ==
  ASSUME NEW n \in Nodes, NEW m \in Nodes, Below(n, m)
  PROVE  /\ Kind[m] = "agent_task" /\ m # n /\ n \in LoopAbove(m)
         /\ \A k \in LoopAbove(m) : n \in Lineage(k)
         /\ (CHOOSE l \in LoopAbove(m) : \A k \in LoopAbove(m) : l \in Lineage(k)) = n
<1>1. Kind[m] = "agent_task" /\ Kind[n] = "loop" /\ n \in Lineage(m)
  BY WorkflowAssumption DEF Below
<1>2. m # n /\ n \in LoopAbove(m)
  BY <1>1 DEF LoopAbove
<1>3. ASSUME NEW k \in LoopAbove(m) PROVE n \in Lineage(k)
  <2>1. k \in Lineage(m) /\ Kind[k] = "loop" /\ k \in Nodes
    BY <1>3, NodeIs DEF LoopAbove
  <2>2. ~(k \in Lineage(n) /\ k # n)
    BY <2>1 DEF Below, LoopAbove
  <2> QED
    BY <1>1, <2>1, <2>2, AboveInLine, NodeIs
<1>4. ASSUME NEW l \in LoopAbove(m), \A k \in LoopAbove(m) : l \in Lineage(k) PROVE l = n
  <2>1. l \in Lineage(n) /\ n \in Lineage(l) /\ l \in Nodes
    BY <1>2, <1>3, <1>4, NodeIs DEF LoopAbove
  <2> QED
    BY <2>1, AboveOnce
<1>5. PICK l : l = CHOOSE j \in LoopAbove(m) : \A k \in LoopAbove(m) : j \in Lineage(k)
  OBVIOUS
<1>6. l \in LoopAbove(m) /\ \A k \in LoopAbove(m) : l \in Lineage(k)
  BY <1>2, <1>3, <1>5
<1>7. l = n
  BY <1>4, <1>6
<1> QED
  BY <1>1, <1>2, <1>3, <1>5, <1>7

LEMMA TaskIDBelow ==
  ASSUME NEW x \in Requests, NEW n \in Nodes, NEW m \in Nodes, Below(n, m)
  PROVE  TaskID(x, m) = <<m, IF burnt[x][m] # 0 THEN burnt[x][m] ELSE iteration[x][n]>>
<1>1. m \in PerRound /\ LoopAbove(m) # {}
  BY LoopIsAbove DEF Below
<1>2. (CHOOSE l \in LoopAbove(m) : \A k \in LoopAbove(m) : l \in Lineage(k)) = n
  BY LoopIsAbove
<1>3. TaskID(x, m) = IF burnt[x][m] # 0 THEN <<m, burnt[x][m]>>
        ELSE <<m, iteration[x][CHOOSE l \in LoopAbove(m) : \A k \in LoopAbove(m) : l \in Lineage(k)]>>
  BY <1>1, Zenon DEF TaskID
<1> QED
  BY <1>2, <1>3

-----------------------------------------------------------------------------
(* The steps of a request.                                                  *)

SavedStates == [Workflows -> [status : (Ended \ {"failed"}) \cup {"none"}, burnt : [Nodes -> Nat]]]

Begins(x) ==
  /\ phase[x] = "idle" /\ phase' = [phase EXCEPT ![x] = "running"]
  /\ \E w \in Workflows : executes' = [executes EXCEPT ![x] = w]
  /\ \E d \in [Nodes -> Nat] : burnt' = [burnt EXCEPT ![x] = d]
  /\ UNCHANGED <<node, iteration, late, scheduled, adder, tickets, saved>>
Declines(x) ==
  /\ phase[x] = "idle" /\ phase' = [phase EXCEPT ![x] = "answered"]
  /\ UNCHANGED <<executes, node, iteration, burnt, late, scheduled, adder, tickets, saved>>
IsLate(x) ==
  /\ late' \in [Requests -> SUBSET Nodes]
  /\ UNCHANGED <<phase, executes, node, iteration, burnt, scheduled, adder, tickets, saved>>
Concludes(x) ==
  /\ phase[x] = "running" /\ phase' = [phase EXCEPT ![x] = "saving"]
  /\ node[x][executes[x]] \in Ended \ {"failed"}
  /\ UNCHANGED <<executes, node, iteration, burnt, late, scheduled, adder, tickets, saved>>
Releases(xs) ==
  /\ Answer(xs) /\ \A x \in xs : phase[x] # "idle"
  /\ \/ UNCHANGED <<scheduled, adder, tickets>>
     \/ /\ scheduled' = {} /\ adder' = {} /\ tickets' = Zero
        /\ \A x \in Requests \ xs : phase[x] = "idle"
  /\ saved' \in SavedStates

LEMMA StartIs ==
  ASSUME NEW x \in Requests, phase[x] = "idle", NEW w \in Workflows, NEW d \in [Nodes -> Nat], Start(x, w, d)
  PROVE  Begins(x) \/ Declines(x)
  BY DEF Start, Begins, Declines

LEMMA ConcludeIs ==
  ASSUME WorkflowTypes, NEW x \in Requests, ConcludeWorkflow(x)
  PROVE  Concludes(x) \/ Releases({x})
<1>1. PICK status : status = node[x][executes[x]]
  OBVIOUS
<1>2. phase[x] = "running" /\ status \in Ended /\ UNCHANGED shared
  BY <1>1 DEF ConcludeWorkflow, ConcludeIf
<1>3. \/ Answer({x})
      \/ status # "failed" /\ phase' = [phase EXCEPT ![x] = "saving"]
         /\ UNCHANGED <<executes, node, iteration, burnt, late>>
  BY <1>1 DEF ConcludeWorkflow, ConcludeIf, Waiting
<1>4. saved' \in SavedStates
  BY <1>2 DEF shared, WorkflowTypes, SavedStates
<1>5. CASE Answer({x})
  BY <1>2, <1>4, <1>5 DEF Releases, shared
<1>6. CASE status # "failed" /\ phase' = [phase EXCEPT ![x] = "saving"]
           /\ UNCHANGED <<executes, node, iteration, burnt, late>>
  BY <1>1, <1>2, <1>6 DEF Concludes, shared
<1> QED
  BY <1>3, <1>5, <1>6

LEMMA SaveIs ==
  ASSUME WorkflowTypes, WalkLasts, NEW x \in Requests, SaveWorkflowState(x)
  PROVE  Releases({x})
<1>1. phase[x] = "saving" /\ Answer({x}) /\ UNCHANGED <<scheduled, adder, tickets>>
  BY DEF SaveWorkflowState
<1>2. PICK r : r = [status |-> node[x][executes[x]], burnt |-> burnt[x]]
  OBVIOUS
<1>3. r \in [status : (Ended \ {"failed"}) \cup {"none"}, burnt : [Nodes -> Nat]]
  BY <1>1, <1>2 DEF WalkLasts, WorkflowTypes
<1>4. saved' = saved \/ saved' = [saved EXCEPT ![executes[x]] = r]
  BY <1>2 DEF SaveWorkflowState
<1>5. saved \in SavedStates
  BY DEF WorkflowTypes, SavedStates
<1>6. saved' \in SavedStates
  BY <1>3, <1>4, <1>5 DEF SavedStates
<1> QED
  BY <1>1, <1>6 DEF Releases

LEMMA EndIs ==
  ASSUME WorkflowTypes, End PROVE \E xs \in SUBSET Requests : Releases(xs)
<1>1. saved' \in SavedStates
  BY DEF WorkflowTypes, SavedStates, End
<1>2. PICK xs : xs = {x \in Requests : phase[x] # "idle"}
  OBVIOUS
<1>3. Releases(xs) /\ xs \in SUBSET Requests
  BY <1>1, <1>2 DEF End, Releases
<1> QED
  BY <1>3

LEMMA WorkflowCases ==
  ASSUME WorkflowTypes, WalkLasts, WorkflowNext
  PROVE  \/ \E x \in Requests : Walk(x) \/ Begins(x) \/ Declines(x) \/ IsLate(x) \/ Concludes(x)
         \/ \E xs \in SUBSET Requests : Releases(xs)
<1>1. CASE End
  BY <1>1, EndIs
<1>2. ASSUME NEW x \in Requests,
        \/ handleSubmitWorkflow(x) \/ handleResumeWorkflow(x) \/ Walk(x)
        \/ ConcludeWorkflow(x) \/ SaveWorkflowState(x) \/ \E n \in Nodes : ContextEnds(x, n)
      PROVE  \/ Walk(x) \/ Begins(x) \/ Declines(x) \/ IsLate(x) \/ Concludes(x)
             \/ Releases({x})
  <2>1. CASE handleSubmitWorkflow(x)
    <3>1. Zero \in [Nodes -> Nat]
      BY DEF Zero
    <3> QED
      BY <2>1, <3>1, StartIs DEF handleSubmitWorkflow, NextRequest
  <2>2. CASE handleResumeWorkflow(x)
    <3>1. PICK w \in Workflows : Start(x, w, saved[w].burnt)
      BY <2>2 DEF handleResumeWorkflow
    <3>2. saved[w].burnt \in [Nodes -> Nat]
      BY DEF WorkflowTypes
    <3> QED
      BY <2>2, <3>1, <3>2, StartIs DEF handleResumeWorkflow, NextRequest
  <2>3. CASE ConcludeWorkflow(x)
    BY <2>3, ConcludeIs
  <2>4. CASE SaveWorkflowState(x)
    BY <2>4, SaveIs
  <2>5. ASSUME NEW n \in Nodes, ContextEnds(x, n) PROVE IsLate(x)
    <3>1. late' = [late EXCEPT ![x] = @ \cup {n}]
      BY <2>5 DEF ContextEnds
    <3>2. late' \in [Requests -> SUBSET Nodes]
      BY <3>1 DEF WorkflowTypes
    <3> QED
      BY <2>5, <3>2 DEF ContextEnds, IsLate, shared
  <2> QED
    BY <1>2, <2>1, <2>2, <2>3, <2>4, <2>5
<1> QED
  BY <1>1, <1>2 DEF WorkflowNext

-----------------------------------------------------------------------------
(* Types.                                                                   *)

LEMMA ReturnIs ==
  ASSUME WorkflowTypes, NEW x \in Requests, NEW n \in Nodes, NEW s \in Statuses, Return(x, n, s)
  PROVE  /\ node' \in [Requests -> [Nodes -> Statuses]] /\ node'[x][n] = s
         /\ \A y \in Requests, m \in Nodes : y # x \/ m # n => node'[y][m] = node[y][m]
  BY DEF WorkflowTypes, Return

LEMMA NextIterationIs ==
  ASSUME WorkflowTypes, NEW x \in Requests, NEW n \in Nodes, NextIteration(x, n)
  PROVE  /\ phase[x] = "running" /\ node[x][n] = "open" /\ Kind[n] = "loop" /\ Kids(n) = {1}
         /\ UNCHANGED <<phase, executes, late, scheduled, adder, tickets, saved>>
         /\ iteration[x][n] > 0 => Kid(x, n, 1) \in Passed
         /\ node' \in [Requests -> [Nodes -> Statuses]]
         /\ iteration' \in [Requests -> [Nodes -> Nat]]
         /\ burnt' \in [Requests -> [Nodes -> Nat]]
         /\ iteration'[x][n] = iteration[x][n] + 1
         /\ \A y \in Requests \ {x} :
              node'[y] = node[y] /\ iteration'[y] = iteration[y] /\ burnt'[y] = burnt[y]
         /\ \A m \in Nodes : n \in Lineage(m) /\ m # n => node'[x][m] = "idle" /\ iteration'[x][m] = 0
         /\ \A m \in Nodes : n \notin Lineage(m) => node'[x][m] = node[x][m] /\ iteration'[x][m] = iteration[x][m]
         /\ node'[x][n] = "open"
         /\ \A m \in Nodes : burnt'[x][m] =
              IF m \in InSlice(Append(n, 1)) \cap PerRound /\ burnt[x][m] = 0 THEN iteration[x][n] + 1 ELSE burnt[x][m]
<1>1. /\ phase[x] = "running" /\ node[x][n] = "open" /\ Kind[n] = "loop"
      /\ UNCHANGED <<phase, executes, late, scheduled, adder, tickets, saved>>
      /\ iteration[x][n] > 0 => Kid(x, n, 1) \in Passed
  BY DEF NextIteration, AtNode, shared
<1>2. Kids(n) = {1}
  BY <1>1, WorkflowAssumption
<1>3. PICK i : i = iteration[x][n] + 1
  OBVIOUS
<1>4. i \in Nat
  BY <1>3 DEF WorkflowTypes
<1>5. iteration' = [iteration EXCEPT ![x] = [m \in Nodes |->
         IF m = n THEN i ELSE IF m \in Under(n) THEN 0 ELSE iteration[x][m]]]
  BY <1>3 DEF NextIteration
<1>6. node' = [node EXCEPT ![x] = [m \in Nodes |-> IF m \in Under(n) \ {n} THEN "idle" ELSE node[x][m]]]
  BY DEF NextIteration
<1>7. burnt' = [burnt EXCEPT ![x] = [m \in Nodes |->
         IF m \in InSlice(Append(n, 1)) \cap PerRound /\ burnt[x][m] = 0 THEN i ELSE burnt[x][m]]]
  BY <1>3 DEF NextIteration, Render
<1>8. /\ iteration' \in [Requests -> [Nodes -> Nat]] /\ iteration'[x][n] = i
      /\ \A y \in Requests \ {x} : iteration'[y] = iteration[y]
      /\ \A m \in Nodes : iteration'[x][m] = IF m = n THEN i ELSE IF m \in Under(n) THEN 0 ELSE iteration[x][m]
  BY <1>4, <1>5 DEF WorkflowTypes
<1>9. /\ node' \in [Requests -> [Nodes -> Statuses]]
      /\ \A y \in Requests \ {x} : node'[y] = node[y]
      /\ \A m \in Nodes : node'[x][m] = IF m \in Under(n) \ {n} THEN "idle" ELSE node[x][m]
  BY <1>6 DEF WorkflowTypes, Statuses
<1>10. /\ burnt' \in [Requests -> [Nodes -> Nat]]
       /\ \A y \in Requests \ {x} : burnt'[y] = burnt[y]
       /\ \A m \in Nodes : burnt'[x][m] =
            IF m \in InSlice(Append(n, 1)) \cap PerRound /\ burnt[x][m] = 0 THEN i ELSE burnt[x][m]
  BY <1>4, <1>7 DEF WorkflowTypes
<1>11. \A m \in Nodes : m \in Under(n) <=> n \in Lineage(m)
  BY UnderIs
<1>12. n \in Lineage(n)
  BY NodeIs
<1> QED
  BY <1>1, <1>2, <1>3, <1>8, <1>9, <1>10, <1>11, <1>12

LEMMA AnswerIs ==
  ASSUME WorkflowTypes, NEW xs \in SUBSET Requests, Answer(xs)
  PROVE  /\ phase' \in [Requests -> {"idle", "running", "saving", "answered"}]
         /\ executes' \in [Requests -> Workflows \cup {<<>>}]
         /\ node' \in [Requests -> [Nodes -> Statuses]]
         /\ iteration' \in [Requests -> [Nodes -> Nat]]
         /\ burnt' \in [Requests -> [Nodes -> Nat]]
         /\ late' \in [Requests -> SUBSET Nodes]
         /\ \A y \in xs : phase'[y] = "answered" /\ node'[y] = Idle /\ iteration'[y] = Zero
         /\ \A y \in Requests \ xs :
              /\ phase'[y] = phase[y] /\ executes'[y] = executes[y] /\ node'[y] = node[y]
              /\ iteration'[y] = iteration[y] /\ burnt'[y] = burnt[y]
<1>1. Idle \in [Nodes -> Statuses] /\ Zero \in [Nodes -> Nat]
  BY DEF Idle, Zero, Statuses
<1>2. /\ phase' = [x \in Requests |-> IF x \in xs THEN "answered" ELSE phase[x]]
      /\ executes' = [x \in Requests |-> IF x \in xs THEN <<>> ELSE executes[x]]
      /\ node' = [x \in Requests |-> IF x \in xs THEN Idle ELSE node[x]]
      /\ iteration' = [x \in Requests |-> IF x \in xs THEN Zero ELSE iteration[x]]
      /\ burnt' = [x \in Requests |-> IF x \in xs THEN Zero ELSE burnt[x]]
      /\ late' = [x \in Requests |-> IF x \in xs THEN {} ELSE late[x]]
  BY DEF Answer
<1>3. phase' \in [Requests -> {"idle", "running", "saving", "answered"}]
  BY <1>2 DEF WorkflowTypes
<1>4. executes' \in [Requests -> Workflows \cup {<<>>}]
  BY <1>2 DEF WorkflowTypes
<1>5. node' \in [Requests -> [Nodes -> Statuses]]
  BY <1>1, <1>2 DEF WorkflowTypes
<1>6. iteration' \in [Requests -> [Nodes -> Nat]] /\ burnt' \in [Requests -> [Nodes -> Nat]]
  BY <1>1, <1>2 DEF WorkflowTypes
<1>7. late' \in [Requests -> SUBSET Nodes]
  BY <1>2 DEF WorkflowTypes
<1> QED
  BY <1>2, <1>3, <1>4, <1>5, <1>6, <1>7

LEMMA WorkflowTypesStep ==
  ASSUME WorkflowTypes, WalkLasts, InTurn, [WorkflowNext]_workflowVars
  PROVE  WorkflowTypes'
<1>1. CASE UNCHANGED workflowVars
  BY <1>1 DEF workflowVars, WorkflowTypes
<1>2. ASSUME NEW x \in Requests, Walk(x) PROVE WorkflowTypes'
  <2>1. ASSUME NEW n \in Nodes, NEW s, Enters(x, n, s) PROVE WorkflowTypes'
    <3>1. s \in Statuses /\ Return(x, n, s)
      BY <2>1 DEF Enters, Statuses, Ended
    <3>2. node' \in [Requests -> [Nodes -> Statuses]]
      BY <3>1, ReturnIs
    <3> QED
      BY <2>1, <3>2 DEF Enters, WorkflowTypes, mine, shared
  <2>2. ASSUME NEW n \in Nodes, NEW s, ReturnsFrom(x, n, s) PROVE WorkflowTypes'
    <3>1. s \in Statuses /\ Return(x, n, s)
      BY <2>2 DEF ReturnsFrom, Settles, Statuses
    <3>2. node' \in [Requests -> [Nodes -> Statuses]]
      BY <3>1, ReturnIs
    <3>3. tickets' \in [Nodes -> Nat]
      <4>1. tickets \in [Nodes -> Nat]
        BY DEF WorkflowTypes
      <4>2. tickets' = tickets \/ tickets' = [tickets EXCEPT ![n] = @ + 1]
        BY <2>2 DEF ReturnsFrom
      <4> QED
        BY <4>1, <4>2
    <3>4. scheduled' \subseteq Nodes \X Nat /\ adder' \subseteq (Nodes \X Nat) \X Requests
      <4>1. TaskID(x, n) \in Nodes \X Nat /\ <<TaskID(x, n), x>> \in (Nodes \X Nat) \X Requests
        BY TaskIDIs
      <4>2. \/ scheduled' = scheduled /\ adder' = adder
            \/ scheduled' = scheduled \cup {TaskID(x, n)} /\ adder' = adder \cup {<<TaskID(x, n), x>>}
        BY <2>2 DEF ReturnsFrom, Gives
      <4> QED
        BY <4>1, <4>2 DEF WorkflowTypes
    <3> QED
      BY <2>2, <3>2, <3>3, <3>4 DEF ReturnsFrom, WorkflowTypes, mine
  <2>3. ASSUME NEW n \in Nodes, NextIteration(x, n) PROVE WorkflowTypes'
    <3>1. UNCHANGED <<phase, executes, late, scheduled, adder, tickets, saved>>
      BY <2>3, NextIterationIs
    <3>2. /\ node' \in [Requests -> [Nodes -> Statuses]]
          /\ iteration' \in [Requests -> [Nodes -> Nat]] /\ burnt' \in [Requests -> [Nodes -> Nat]]
      BY <2>3, NextIterationIs
    <3> QED
      BY <3>1, <3>2 DEF WorkflowTypes
  <2> QED
    BY <1>2, <2>1, <2>2, <2>3, WalkIs
<1>3. ASSUME NEW x \in Requests, Begins(x) PROVE WorkflowTypes'
  BY <1>3 DEF Begins, WorkflowTypes
<1>4. ASSUME NEW x \in Requests, Declines(x) \/ IsLate(x) \/ Concludes(x) PROVE WorkflowTypes'
  BY <1>4 DEF Declines, IsLate, Concludes, WorkflowTypes
<1>5. ASSUME NEW xs \in SUBSET Requests, Releases(xs) PROVE WorkflowTypes'
  <2>1. Zero \in [Nodes -> Nat]
    BY DEF Zero
  <2>2. /\ scheduled' \subseteq Nodes \X Nat /\ adder' \subseteq (Nodes \X Nat) \X Requests
        /\ tickets' \in [Nodes -> Nat] /\ saved' \in SavedStates
    BY <1>5, <2>1 DEF Releases, WorkflowTypes
  <2>3. Answer(xs)
    BY <1>5 DEF Releases
  <2> QED
    BY <2>2, <2>3, AnswerIs DEF WorkflowTypes, SavedStates
<1> QED
  BY <1>1, <1>2, <1>3, <1>4, <1>5, WorkflowCases

-----------------------------------------------------------------------------
(* The tree a request walks.                                                *)

TurnOf(x) == \A n \in Nodes : \A i \in Kids(n) : Kid(x, n, i) # "idle" => Turn(x, n, i)
OpenOf(x) == \A n \in Nodes : node[x][n] = "open" => \A p \in Lineage(n) : node[x][p] = "open"
DoneOf(x) == \A n \in Nodes : node[x][n] \in Passed =>
  \A m \in Nodes : n \in Lineage(m) /\ node[x][m] \notin Passed =>
    \E p \in Lineage(m) : p # m /\ n \in Lineage(p) /\ Lenient(p)
IterationsOf(x) == \A n \in Nodes :
  /\ node[x][n] = "idle" => iteration[x][n] = 0
  /\ Kind[n] = "loop" /\ node[x][n] = "completed" => iteration[x][n] = Rounds[n]
TreeOf(x) == TurnOf(x) /\ OpenOf(x) /\ DoneOf(x) /\ IterationsOf(x)

LEMMA TreeIs == (InTurn /\ OpenAbove /\ DoneBelow /\ Iterations) <=> \A x \in Requests : TreeOf(x)
  BY DEF InTurn, OpenAbove, DoneBelow, Iterations, TreeOf, TurnOf, OpenOf, DoneOf, IterationsOf

\* Whose turn it was stays in its turn.
LEMMA TurnStays ==
  ASSUME NEW x, NEW p \in Nodes, NEW i \in Kids(p), Turn(x, p, i),
         \A j \in Kids(p) : Kid(x, p, j) \in Passed \cup {"failed"} => Kid(x, p, j)' = Kid(x, p, j),
         iteration'[x][p] = iteration[x][p]
  PROVE  Turn(x, p, i)'
<1>1. CASE Kind[p] = "sequence" /\ \A j \in 1 .. i - 1 : Kid(x, p, j) \in Passed
  <2>1. \A j \in 1 .. i - 1 : j \in Kids(p)
    BY <1>1, KidsFinite, WorkflowAssumption
  <2>2. \A j \in 1 .. i - 1 : Kid(x, p, j)' \in Passed
    BY <1>1, <2>1
  <2> QED
    BY <1>1, <2>2 DEF Turn
<1>2. CASE Kind[p] = "join" /\ \A j \in 1 .. i - 1 : Kid(x, p, j) \in Passed \cup {"failed"}
  <2>1. \A j \in 1 .. i - 1 : j \in Kids(p)
    BY <1>2, KidsFinite, WorkflowAssumption
  <2>2. \A j \in 1 .. i - 1 : Kid(x, p, j)' \in Passed \cup {"failed"}
    BY <1>2, <2>1
  <2> QED
    BY <1>2, <2>2 DEF Turn
<1>3. CASE Kind[p] = "error_handler" /\ (i = 2 => Kid(x, p, 1) = "failed")
  <2>1. 1 \in Kids(p)
    BY <1>3, WorkflowAssumption
  <2>2. i = 2 => Kid(x, p, 1)' = "failed"
    BY <1>3, <2>1
  <2> QED
    BY <1>3, <2>2 DEF Turn
<1>4. CASE \/ Kind[p] \in {"parallel", "subworkflow"}
           \/ Kind[p] = "loop" /\ iteration[x][p] > 0
           \/ Kind[p] = "condition" /\ i = Chosen(p)
  BY <1>4 DEF Turn
<1> QED
  BY <1>1, <1>2, <1>3, <1>4 DEF Turn

LEMMA EntersTree ==
  ASSUME WorkflowTypes, WalkLasts, NEW x \in Requests, NEW n \in Nodes, NEW s, Enters(x, n, s), TreeOf(x)
  PROVE  TreeOf(x)'
<1>1. s \in {"open", "failed"} /\ s \in Statuses /\ node[x][n] = "idle" /\ phase[x] = "running" /\ iteration' = iteration
  BY DEF Enters, Statuses, Ended, mine
<1>2. node'[x][n] = s /\ \A m \in Nodes : m # n => node'[x][m] = node[x][m]
  BY <1>1, ReturnIs DEF Enters
<1>3. CASE n = executes[x] /\ Len(n) = 1
  <2>1. Lineage(n) = {n}
    BY <1>3, RootIs
  <2>2. TurnOf(x)'
    <3>1. SUFFICES ASSUME NEW p \in Nodes, NEW i \in Kids(p), Kid(x, p, i)' # "idle" PROVE Turn(x, p, i)'
      BY DEF TurnOf
    <3>2. Append(p, i) \in Nodes /\ Len(Append(p, i)) > 1
      BY KidIs
    <3>3. Append(p, i) # n
      BY <1>3, <3>2
    <3>4. Kid(x, p, i) # "idle"
      BY <1>2, <3>1, <3>2, <3>3 DEF Kid
    <3>6. Turn(x, p, i)
      BY <3>4 DEF TreeOf, TurnOf
    <3>5. \A j \in Kids(p) : Kid(x, p, j) \in Passed \cup {"failed"} => Kid(x, p, j)' = Kid(x, p, j)
      BY <1>1, <1>2, KidIs DEF Kid, Passed
    <3> QED
      BY <1>1, <3>6, <3>5, TurnStays
  <2>3. OpenOf(x)'
    <3>1. SUFFICES ASSUME NEW m \in Nodes, node'[x][m] = "open", NEW p \in Lineage(m) PROVE node'[x][p] = "open"
      BY DEF OpenOf
    <3>2. p \in Nodes
      BY NodeIs
    <3>3. CASE m = n
      BY <2>1, <3>1, <3>3
    <3>4. CASE m # n
      <4>1. node[x][p] = "open"
        BY <1>2, <3>1, <3>4 DEF TreeOf, OpenOf
      <4> QED
        BY <1>1, <1>2, <3>2, <4>1
    <3> QED
      BY <3>3, <3>4
  <2> QED
    <3>1. DoneOf(x)'
      BY <1>1, <1>2 DEF TreeOf, DoneOf, Passed
    <3>2. IterationsOf(x)'
      BY <1>1, <1>2 DEF TreeOf, IterationsOf
    <3> QED
      BY <2>2, <2>3, <3>1, <3>2 DEF TreeOf
<1>4. CASE Len(n) > 1 /\ node[x][Parent(n)] = "open" /\ Turn(x, Parent(n), n[Len(n)])
  <2>1. /\ Parent(n) \in Nodes /\ n[Len(n)] \in Kids(Parent(n)) /\ n = Append(Parent(n), n[Len(n)])
        /\ Lineage(n) = Lineage(Parent(n)) \cup {n}
    BY <1>4, ParentIs
  <2>2. TurnOf(x)'
    <3>1. SUFFICES ASSUME NEW p \in Nodes, NEW i \in Kids(p), Kid(x, p, i)' # "idle" PROVE Turn(x, p, i)'
      BY DEF TurnOf
    <3>2. Append(p, i) \in Nodes /\ Parent(Append(p, i)) = p /\ Append(p, i)[Len(Append(p, i))] = i
      BY KidIs
    <3>3. Turn(x, p, i)
      <4>1. CASE Append(p, i) = n
        BY <1>4, <3>2, <4>1
      <4>2. CASE Append(p, i) # n
        <5>1. Kid(x, p, i) # "idle"
          BY <1>2, <3>1, <3>2, <4>2 DEF Kid
        <5> QED
          BY <5>1 DEF TreeOf, TurnOf
      <4> QED
        BY <4>1, <4>2
    <3>4. \A j \in Kids(p) : Kid(x, p, j) \in Passed \cup {"failed"} => Kid(x, p, j)' = Kid(x, p, j)
      BY <1>1, <1>2, KidIs DEF Kid, Passed
    <3> QED
      BY <1>1, <3>3, <3>4, TurnStays
  <2>3. OpenOf(x)'
    <3>1. SUFFICES ASSUME NEW m \in Nodes, node'[x][m] = "open", NEW p \in Lineage(m) PROVE node'[x][p] = "open"
      BY DEF OpenOf
    <3>2. p \in Nodes
      BY NodeIs
    <3>3. CASE m = n
      <4>1. p = n \/ p \in Lineage(Parent(n))
        BY <2>1, <3>3
      <4>2. p \in Lineage(Parent(n)) => node[x][p] = "open"
        BY <1>4, <2>1 DEF TreeOf, OpenOf
      <4> QED
        BY <1>1, <1>2, <3>1, <3>2, <3>3, <4>1, <4>2
    <3>4. CASE m # n
      <4>1. node[x][p] = "open"
        BY <1>2, <3>1, <3>4 DEF TreeOf, OpenOf
      <4> QED
        BY <1>1, <1>2, <3>2, <4>1
    <3> QED
      BY <3>3, <3>4
  <2> QED
    <3>1. DoneOf(x)'
      BY <1>1, <1>2 DEF TreeOf, DoneOf, Passed
    <3>2. IterationsOf(x)'
      BY <1>1, <1>2 DEF TreeOf, IterationsOf
    <3> QED
      BY <2>2, <2>3, <3>1, <3>2 DEF TreeOf
<1>5. n = executes[x] => Len(n) = 1
  BY <1>1 DEF WalkLasts, Workflows
<1> QED
  BY <1>3, <1>4, <1>5 DEF Enters

LEMMA ReturnsTree ==
  ASSUME WorkflowTypes, NEW x \in Requests, NEW n \in Nodes, NEW s, ReturnsFrom(x, n, s), TreeOf(x)
  PROVE  TreeOf(x)'
<1>1. s \in Ended /\ s \in Statuses /\ node[x][n] = "open" /\ iteration' = iteration /\ Settles(x, n, s)
  BY DEF ReturnsFrom, Settles, Statuses, mine
<1>2. node'[x][n] = s /\ \A m \in Nodes : m # n => node'[x][m] = node[x][m]
  BY <1>1, ReturnIs DEF ReturnsFrom
<1>3. s \notin {"idle", "open"}
  BY <1>1 DEF Ended, Passed, Waiting
<1>4. TurnOf(x)'
  <2>1. SUFFICES ASSUME NEW p \in Nodes, NEW i \in Kids(p), Kid(x, p, i)' # "idle" PROVE Turn(x, p, i)'
    BY DEF TurnOf
  <2>2. Append(p, i) \in Nodes
    BY KidIs
  <2>3. Kid(x, p, i) # "idle"
    BY <1>1, <1>2, <2>1, <2>2 DEF Kid
  <2>4. Turn(x, p, i)
    BY <2>3 DEF TreeOf, TurnOf
  <2>5. \A j \in Kids(p) : Kid(x, p, j) \in Passed \cup {"failed"} => Kid(x, p, j)' = Kid(x, p, j)
    BY <1>1, <1>2, KidIs DEF Kid, Passed
  <2> QED
    BY <1>1, <2>4, <2>5, TurnStays
<1>5. OpenOf(x)'
  <2>1. SUFFICES ASSUME NEW m \in Nodes, node'[x][m] = "open", NEW p \in Lineage(m) PROVE node'[x][p] = "open"
    BY DEF OpenOf
  <2>2. p \in Nodes /\ m # n /\ node[x][m] = "open"
    BY <1>2, <1>3, <2>1, NodeIs
  <2>3. \A q \in Lineage(m) : node[x][q] = "open"
    BY <2>2 DEF TreeOf, OpenOf
  <2>4. p # n
    <3>1. SUFFICES ASSUME n \in Lineage(m) PROVE FALSE
      OBVIOUS
    <3>2. PICK i \in Kids(n) : Append(n, i) \in Lineage(m)
      BY <2>2, <3>1, ThroughKid
    <3> QED
      BY <1>1, <2>3, <3>2 DEF Settles, Kid
  <2> QED
    BY <1>2, <2>2, <2>3, <2>4
<1>6. DoneOf(x)'
  <2>1. SUFFICES ASSUME NEW k \in Nodes, node'[x][k] \in Passed, NEW m \in Nodes, k \in Lineage(m),
                        node'[x][m] \notin Passed
                 PROVE  \E p \in Lineage(m) : p # m /\ k \in Lineage(p) /\ Lenient(p)
    BY DEF DoneOf
  <2>2. node[x][m] \notin Passed
    BY <1>1, <1>2, <2>1 DEF Passed
  <2>3. CASE k # n
    BY <1>2, <2>1, <2>2, <2>3 DEF TreeOf, DoneOf
  <2>4. CASE k = n
    <3>1. s \in Passed /\ m # n
      BY <1>2, <2>1, <2>4
    <3>2. CASE Lenient(n)
      <4>1. n \in Lineage(n)
        BY NodeIs
      <4> QED
        BY <2>1, <2>4, <3>1, <3>2, <4>1
    <3>3. CASE ~Lenient(n)
      <4>1. PICK i \in Kids(n) : Append(n, i) \in Lineage(m)
        BY <2>1, <2>4, <3>1, ThroughKid
      <4>2. node[x][Append(n, i)] \in Passed
        BY <1>1, <3>1, <3>3 DEF Settles, Kid
      <4>3. Append(n, i) \in Nodes /\ n \in Lineage(Append(n, i))
        BY KidIs, NodeIs
      <4>4. PICK p \in Lineage(m) : p # m /\ Append(n, i) \in Lineage(p) /\ Lenient(p)
        BY <2>2, <4>1, <4>2, <4>3 DEF TreeOf, DoneOf
      <4>5. p \in Nodes
        BY NodeIs
      <4>6. n \in Lineage(p)
        BY <4>3, <4>4, <4>5, AboveAbove
      <4> QED
        BY <2>4, <4>4, <4>6
    <3> QED
      BY <3>2, <3>3
  <2> QED
    BY <2>3, <2>4
<1>7. IterationsOf(x)'
  BY <1>1, <1>2, <1>3 DEF TreeOf, IterationsOf, Settles
<1> QED
  BY <1>4, <1>5, <1>6, <1>7 DEF TreeOf

LEMMA IterationTree ==
  ASSUME WorkflowTypes, NEW x \in Requests, NEW n \in Nodes, NextIteration(x, n), TreeOf(x)
  PROVE  TreeOf(x)'
<1>1. /\ node[x][n] = "open" /\ node'[x][n] = "open" /\ iteration'[x][n] = iteration[x][n] + 1
      /\ \A m \in Nodes : n \in Lineage(m) /\ m # n => node'[x][m] = "idle" /\ iteration'[x][m] = 0
      /\ \A m \in Nodes : n \notin Lineage(m) => node'[x][m] = node[x][m] /\ iteration'[x][m] = iteration[x][m]
  BY NextIterationIs
<1>2. TurnOf(x)'
  <2>1. SUFFICES ASSUME NEW p \in Nodes, NEW i \in Kids(p), Kid(x, p, i)' # "idle" PROVE Turn(x, p, i)'
    BY DEF TurnOf
  <2>2. PICK c : c = Append(p, i)
    OBVIOUS
  <2>3. c \in Nodes /\ Lineage(c) = Lineage(p) \cup {c} /\ c \notin Lineage(p)
    BY <2>2, KidIs
  <2>4. node'[x][c] # "idle"
    BY <2>1, <2>2 DEF Kid
  <2>5. n \notin Lineage(p)
    <3>1. SUFFICES ASSUME n \in Lineage(p) PROVE FALSE
      OBVIOUS
    <3>2. n \in Lineage(c)
      BY <2>3, <3>1
    <3>3. n # c
      BY <2>3, <3>1
    <3> QED
      BY <1>1, <2>3, <2>4, <3>2, <3>3
  <2>6. \A j \in Kids(p) : Kid(x, p, j)' = Kid(x, p, j)
    <3>1. SUFFICES ASSUME NEW j \in Kids(p) PROVE Kid(x, p, j)' = Kid(x, p, j)
      OBVIOUS
    <3>2. Append(p, j) \in Nodes /\ Lineage(Append(p, j)) = Lineage(p) \cup {Append(p, j)}
      BY KidIs
    <3>3. CASE Append(p, j) = n
      BY <1>1, <3>3 DEF Kid
    <3>4. CASE Append(p, j) # n
      <4>1. n \notin Lineage(Append(p, j))
        BY <2>5, <3>2, <3>4
      <4> QED
        BY <1>1, <3>2, <4>1 DEF Kid
    <3> QED
      BY <3>3, <3>4
  <2>7. Turn(x, p, i)
    BY <2>1, <2>6 DEF TreeOf, TurnOf
  <2>8. iteration'[x][p] = iteration[x][p]
    BY <1>1, <2>5
  <2> QED
    BY <2>6, <2>7, <2>8, TurnStays
<1>3. OpenOf(x)'
  <2>1. SUFFICES ASSUME NEW m \in Nodes, node'[x][m] = "open", NEW p \in Lineage(m) PROVE node'[x][p] = "open"
    BY DEF OpenOf
  <2>2. p \in Nodes
    BY NodeIs
  <2>3. m = n \/ n \notin Lineage(m)
    BY <1>1, <2>1
  <2>4. node[x][m] = "open"
    BY <1>1, <2>1, <2>3
  <2>5. node[x][p] = "open"
    BY <2>4 DEF TreeOf, OpenOf
  <2>6. p = n \/ n \notin Lineage(p)
    <3>1. SUFFICES ASSUME n \in Lineage(p) PROVE p = n
      OBVIOUS
    <3>2. n \in Lineage(m)
      BY <3>1, AboveAbove
    <3>3. m = n
      BY <2>3, <3>2
    <3> QED
      BY <2>2, <3>1, <3>3, AboveOnce
  <2> QED
    BY <1>1, <2>2, <2>5, <2>6
<1>4. DoneOf(x)'
  <2>1. SUFFICES ASSUME NEW k \in Nodes, node'[x][k] \in Passed, NEW m \in Nodes, k \in Lineage(m),
                        node'[x][m] \notin Passed
                 PROVE  \E p \in Lineage(m) : p # m /\ k \in Lineage(p) /\ Lenient(p)
    BY DEF DoneOf
  <2>2. k # n /\ n \notin Lineage(k)
    BY <1>1, <2>1 DEF Passed
  <2>3. node[x][k] \in Passed
    BY <1>1, <2>1, <2>2
  <2>4. CASE n \in Lineage(m)
    <3>1. k \in Lineage(n)
      BY <2>1, <2>2, <2>4, AboveInLine
    <3>2. node[x][n] \notin Passed
      BY <1>1 DEF Passed
    <3>3. PICK p \in Lineage(n) : p # n /\ k \in Lineage(p) /\ Lenient(p)
      BY <2>3, <3>1, <3>2 DEF TreeOf, DoneOf
    <3>4. p \in Lineage(m)
      BY <2>4, <3>3, AboveAbove
    <3>5. p # m
      BY <2>4, <3>3, AboveOnce
    <3> QED
      BY <3>3, <3>4, <3>5
  <2>5. CASE n \notin Lineage(m)
    <3>1. node[x][m] \notin Passed
      BY <1>1, <2>1, <2>5
    <3> QED
      BY <2>1, <2>3, <3>1 DEF TreeOf, DoneOf
  <2> QED
    BY <2>4, <2>5
<1>5. IterationsOf(x)'
  <2>1. SUFFICES ASSUME NEW m \in Nodes
                 PROVE  /\ node'[x][m] = "idle" => iteration'[x][m] = 0
                        /\ Kind[m] = "loop" /\ node'[x][m] = "completed" => iteration'[x][m] = Rounds[m]
    BY DEF IterationsOf
  <2>2. CASE m = n
    BY <1>1, <2>2
  <2>3. CASE m # n /\ n \in Lineage(m)
    BY <1>1, <2>3
  <2>4. CASE n \notin Lineage(m)
    BY <1>1, <2>4 DEF TreeOf, IterationsOf
  <2> QED
    BY <2>2, <2>3, <2>4
<1> QED
  BY <1>2, <1>3, <1>4, <1>5 DEF TreeOf

LEMMA FreshTree ==
  ASSUME NEW x \in Requests, node[x] = Idle, iteration[x] = Zero PROVE TreeOf(x)
<1>1. \A n \in Nodes : node[x][n] = "idle" /\ iteration[x][n] = 0
  BY DEF Idle, Zero
<1>2. TurnOf(x)
  BY <1>1, KidIs DEF TurnOf, Kid
<1> QED
  BY <1>1, <1>2 DEF TreeOf, OpenOf, DoneOf, IterationsOf, Passed

LEMMA SameTree ==
  ASSUME NEW x \in Requests, node'[x] = node[x], iteration'[x] = iteration[x], TreeOf(x) PROVE TreeOf(x)'
<1>1. TurnOf(x)'
  BY DEF TreeOf, TurnOf, Turn, Kid
<1> QED
  BY <1>1 DEF TreeOf, OpenOf, DoneOf, IterationsOf

\* What a step does to the walk of a request.
LEMMA WalkChanges ==
  ASSUME WorkflowTypes, WalkLasts, InTurn, [WorkflowNext]_workflowVars, NEW y \in Requests
  PROVE  \/ node'[y] = node[y] /\ iteration'[y] = iteration[y]
         \/ node'[y] = Idle /\ iteration'[y] = Zero
         \/ \E n \in Nodes : (\E s : Enters(y, n, s) \/ ReturnsFrom(y, n, s)) \/ NextIteration(y, n)
<1>1. CASE UNCHANGED workflowVars
  BY <1>1 DEF workflowVars
<1>2. ASSUME NEW x \in Requests, Walk(x), x # y PROVE node'[y] = node[y] /\ iteration'[y] = iteration[y]
  <2>1. ASSUME NEW n \in Nodes, NEW s, Enters(x, n, s) \/ ReturnsFrom(x, n, s)
        PROVE  node'[y] = node[y] /\ iteration'[y] = iteration[y]
    BY <1>2, <2>1 DEF Enters, ReturnsFrom, Return, mine, WorkflowTypes
  <2>2. ASSUME NEW n \in Nodes, NextIteration(x, n) PROVE node'[y] = node[y] /\ iteration'[y] = iteration[y]
    BY <1>2, <2>2, NextIterationIs
  <2> QED
    BY <1>2, <2>1, <2>2, WalkIs
<1>3. ASSUME NEW x \in Requests, Begins(x) \/ Declines(x) \/ IsLate(x) \/ Concludes(x)
      PROVE  node'[y] = node[y] /\ iteration'[y] = iteration[y]
  BY <1>3 DEF Begins, Declines, IsLate, Concludes
<1>4. ASSUME NEW xs \in SUBSET Requests, Releases(xs)
      PROVE  \/ node'[y] = node[y] /\ iteration'[y] = iteration[y]
             \/ node'[y] = Idle /\ iteration'[y] = Zero
  BY <1>4, AnswerIs DEF Releases
<1>5. ASSUME Walk(y)
      PROVE  \E n \in Nodes : (\E s : Enters(y, n, s) \/ ReturnsFrom(y, n, s)) \/ NextIteration(y, n)
  BY <1>5, WalkIs
<1> QED
  BY <1>1, <1>2, <1>3, <1>4, <1>5, WorkflowCases

LEMMA TreeStep ==
  ASSUME WorkflowTypes, WalkLasts, InTurn, OpenAbove, DoneBelow, Iterations, [WorkflowNext]_workflowVars
  PROVE  InTurn' /\ OpenAbove' /\ DoneBelow' /\ Iterations'
<1>1. ASSUME NEW x \in Requests PROVE TreeOf(x)'
  <2>1. TreeOf(x)
    BY TreeIs
  <2>2. CASE node'[x] = node[x] /\ iteration'[x] = iteration[x]
    BY <2>1, <2>2, SameTree
  <2>3. CASE node'[x] = Idle /\ iteration'[x] = Zero
    <3>1. \A n \in Nodes : node'[x][n] = "idle" /\ iteration'[x][n] = 0
      BY <2>3 DEF Idle, Zero
    <3>2. TurnOf(x)'
      BY <3>1, KidIs DEF TurnOf, Kid
    <3> QED
      BY <3>1, <3>2 DEF TreeOf, OpenOf, DoneOf, IterationsOf, Passed
  <2>4. ASSUME NEW n \in Nodes, (\E s : Enters(x, n, s) \/ ReturnsFrom(x, n, s)) \/ NextIteration(x, n)
        PROVE  TreeOf(x)'
    BY <2>1, <2>4, EntersTree, ReturnsTree, IterationTree
  <2> QED
    BY <2>2, <2>3, <2>4, WalkChanges
<1> QED
  BY <1>1 DEF InTurn, OpenAbove, DoneBelow, Iterations, TreeOf, TurnOf, OpenOf, DoneOf, IterationsOf

-----------------------------------------------------------------------------
(* What is handed over.                                                     *)

LEMMA WalkKeeps ==
  ASSUME WorkflowTypes, InTurn, NEW x \in Requests, Walk(x)
  PROVE  /\ phase[x] = "running" /\ phase' = phase /\ executes' = executes
         /\ \A y \in Requests \ {x} : node'[y] = node[y] /\ iteration'[y] = iteration[y] /\ burnt'[y] = burnt[y]
         /\ \/ scheduled' = scheduled /\ adder' = adder
            \/ \E t : /\ t \notin scheduled /\ scheduled' = scheduled \cup {t}
                      /\ adder' = adder \cup {<<t, x>>}
<1>1. ASSUME NEW n \in Nodes, NEW s, Enters(x, n, s)
      PROVE  /\ phase[x] = "running" /\ phase' = phase /\ executes' = executes
             /\ \A y \in Requests \ {x} : node'[y] = node[y] /\ iteration'[y] = iteration[y] /\ burnt'[y] = burnt[y]
             /\ scheduled' = scheduled /\ adder' = adder
  BY <1>1 DEF Enters, Return, mine, shared, WorkflowTypes
<1>2. ASSUME NEW n \in Nodes, NEW s, ReturnsFrom(x, n, s)
      PROVE  /\ phase[x] = "running" /\ phase' = phase /\ executes' = executes
             /\ \A y \in Requests \ {x} : node'[y] = node[y] /\ iteration'[y] = iteration[y] /\ burnt'[y] = burnt[y]
             /\ \/ scheduled' = scheduled /\ adder' = adder
                \/ \E t : /\ t \notin scheduled /\ scheduled' = scheduled \cup {t}
                          /\ adder' = adder \cup {<<t, x>>}
  <2>1. phase[x] = "running" /\ phase' = phase /\ executes' = executes
    BY <1>2 DEF ReturnsFrom, mine
  <2>2. \A y \in Requests \ {x} : node'[y] = node[y] /\ iteration'[y] = iteration[y] /\ burnt'[y] = burnt[y]
    BY <1>2 DEF ReturnsFrom, Return, mine, WorkflowTypes
  <2>3. \/ scheduled' = scheduled /\ adder' = adder
        \/ \E t : /\ t \notin scheduled /\ scheduled' = scheduled \cup {t}
                  /\ adder' = adder \cup {<<t, x>>}
    BY <1>2 DEF ReturnsFrom, Gives
  <2> QED
    BY <2>1, <2>2, <2>3
<1>3. ASSUME NEW n \in Nodes, NextIteration(x, n)
      PROVE  /\ phase[x] = "running" /\ phase' = phase /\ executes' = executes
             /\ \A y \in Requests \ {x} : node'[y] = node[y] /\ iteration'[y] = iteration[y] /\ burnt'[y] = burnt[y]
             /\ scheduled' = scheduled /\ adder' = adder
  BY <1>3, NextIterationIs
<1>4. PICK n \in Nodes : (\E s : Enters(x, n, s) \/ ReturnsFrom(x, n, s)) \/ NextIteration(x, n)
  BY WalkIs
<1>5. CASE \E s : Enters(x, n, s)
  BY <1>1, <1>5
<1>6. CASE \E s : ReturnsFrom(x, n, s)
  BY <1>2, <1>6
<1>7. CASE NextIteration(x, n)
  BY <1>3, <1>7
<1> QED
  BY <1>4, <1>5, <1>6, <1>7

LastsOf(x) ==
  /\ phase[x] \in {"running", "saving"} => executes[x] \in Workflows
  /\ phase[x] \in {"idle", "answered"} => node[x] = Idle /\ iteration[x] = Zero
  /\ phase[x] = "idle" => \A a \in adder : a[2] # x
  /\ phase[x] = "saving" => node[x][executes[x]] \in Ended \ {"failed"}

LEMMA WalkLastsStep ==
  ASSUME WorkflowTypes, WalkLasts, InTurn, [WorkflowNext]_workflowVars
  PROVE  WalkLasts'
<1> SUFFICES ASSUME NEW y \in Requests PROVE LastsOf(y)'
  BY DEF WalkLasts, LastsOf
<1>0. LastsOf(y)
  BY DEF WalkLasts, LastsOf
<1>1. CASE UNCHANGED workflowVars
  BY <1>0, <1>1 DEF workflowVars, LastsOf
<1>2. ASSUME NEW x \in Requests, Walk(x) PROVE LastsOf(y)'
  <2>1. /\ phase[x] = "running" /\ phase' = phase /\ executes' = executes
        /\ x # y => node'[y] = node[y] /\ iteration'[y] = iteration[y]
    BY <1>2, WalkKeeps
  <2>2. adder' = adder \/ \E t : adder' = adder \cup {<<t, x>>}
    BY <1>2, WalkKeeps
  <2>3. phase'[y] = "idle" => \A a \in adder' : a[2] # y
    BY <1>0, <2>1, <2>2 DEF LastsOf
  <2> QED
    BY <1>0, <2>1, <2>3 DEF LastsOf
<1>3. ASSUME NEW x \in Requests, Begins(x) PROVE LastsOf(y)'
  <2>1. PICK w \in Workflows : executes' = [executes EXCEPT ![x] = w]
    BY <1>3 DEF Begins
  <2>2. phase' = [phase EXCEPT ![x] = "running"] /\ UNCHANGED <<node, iteration, adder>>
    BY <1>3 DEF Begins
  <2>3. CASE y = x
    BY <2>1, <2>2, <2>3 DEF LastsOf, WorkflowTypes
  <2>4. CASE y # x
    BY <1>0, <2>1, <2>2, <2>4 DEF LastsOf, WorkflowTypes
  <2> QED
    BY <2>3, <2>4
<1>4. ASSUME NEW x \in Requests, Declines(x) PROVE LastsOf(y)'
  <2>1. phase[x] = "idle" /\ phase' = [phase EXCEPT ![x] = "answered"] /\ UNCHANGED <<executes, node, iteration, adder>>
    BY <1>4 DEF Declines
  <2> QED
    BY <1>0, <2>1 DEF LastsOf, WorkflowTypes
<1>5. ASSUME NEW x \in Requests, IsLate(x) PROVE LastsOf(y)'
  BY <1>0, <1>5 DEF LastsOf, IsLate
<1>6. ASSUME NEW x \in Requests, Concludes(x) PROVE LastsOf(y)'
  <2>1. phase[x] = "running" /\ phase' = [phase EXCEPT ![x] = "saving"] /\ UNCHANGED <<executes, node, iteration, adder>>
        /\ node[x][executes[x]] \in Ended \ {"failed"}
    BY <1>6 DEF Concludes
  <2> QED
    BY <1>0, <2>1 DEF LastsOf, WorkflowTypes
<1>7. ASSUME NEW xs \in SUBSET Requests, Releases(xs) PROVE LastsOf(y)'
  <2>1. Answer(xs) /\ (adder' = adder \/ adder' = {})
    BY <1>7 DEF Releases
  <2>2. CASE y \in xs
    BY <2>1, <2>2, AnswerIs DEF LastsOf
  <2>3. CASE y \notin xs
    <3>1. phase'[y] = phase[y] /\ executes'[y] = executes[y] /\ node'[y] = node[y] /\ iteration'[y] = iteration[y]
      BY <2>1, <2>3, AnswerIs
    <3> QED
      BY <1>0, <2>1, <3>1 DEF LastsOf
  <2> QED
    BY <2>2, <2>3
<1> QED
  BY <1>1, <1>2, <1>3, <1>4, <1>5, <1>6, <1>7, WorkflowCases

LEMMA HandedStep ==
  ASSUME WorkflowTypes, WalkLasts, InTurn, Handed, [WorkflowNext]_workflowVars
  PROVE  Handed'
<1>1. CASE scheduled' = scheduled /\ adder' = adder
  BY <1>1 DEF Handed, GivenOutOnce
<1>2. CASE adder' = {}
  BY <1>2 DEF Handed, GivenOutOnce
<1>3. ASSUME NEW x, NEW t, t \notin scheduled, scheduled' = scheduled \cup {t}, adder' = adder \cup {<<t, x>>}
      PROVE  Handed'
  <2>1. \A a \in adder : a[1] \in scheduled /\ a[1] # t
    BY <1>3 DEF Handed
  <2>2. \A a \in adder' : a \in adder \/ (a[1] = t /\ a[2] = x)
    BY <1>3
  <2>3. ASSUME NEW a \in adder', NEW b \in adder', a[1] = b[1] PROVE a[2] = b[2]
    BY <2>1, <2>2, <2>3 DEF Handed, GivenOutOnce
  <2>4. \A a \in adder' : a[1] \in scheduled'
    BY <1>3, <2>1, <2>2
  <2> QED
    BY <2>3, <2>4 DEF Handed, GivenOutOnce
<1>4. \/ scheduled' = scheduled /\ adder' = adder
      \/ adder' = {}
      \/ \E x, t : t \notin scheduled /\ scheduled' = scheduled \cup {t} /\ adder' = adder \cup {<<t, x>>}
  <2>1. CASE UNCHANGED workflowVars
    BY <2>1 DEF workflowVars
  <2>2. ASSUME NEW x \in Requests, Walk(x)
        PROVE  \/ scheduled' = scheduled /\ adder' = adder
               \/ \E t : t \notin scheduled /\ scheduled' = scheduled \cup {t} /\ adder' = adder \cup {<<t, x>>}
    BY <2>2, WalkKeeps
  <2>3. ASSUME NEW x \in Requests, Begins(x) \/ Declines(x) \/ IsLate(x) \/ Concludes(x)
        PROVE  scheduled' = scheduled /\ adder' = adder
    BY <2>3 DEF Begins, Declines, IsLate, Concludes
  <2>4. ASSUME NEW xs \in SUBSET Requests, Releases(xs)
        PROVE  (scheduled' = scheduled /\ adder' = adder) \/ adder' = {}
    BY <2>4 DEF Releases
  <2> QED
    BY <2>1, <2>2, <2>3, <2>4, WorkflowCases
<1> QED
  BY <1>1, <1>2, <1>3, <1>4

-----------------------------------------------------------------------------
(* A loop gives out its tasks.                                              *)

LEMMA InSliceIs ==
  ASSUME NEW a \in Nodes, NEW m \in Nodes
  PROVE  m \in InSlice(a) <=> /\ a \in Lineage(m) /\ m # a
                              /\ \E p \in Lineage(m) : p # m /\ a \in Lineage(p) /\ Kind[p] \in {"sequence", "parallel", "join"}
<1>1. m \in Under(a) <=> a \in Lineage(m)
  BY UnderIs
<1>2. \A p \in Lineage(m) : p \in Nodes /\ (p \in Under(a) <=> a \in Lineage(p))
  BY NodeIs, UnderIs
<1> QED
  BY <1>1, <1>2 DEF InSlice

LEMMA InSliceUp ==
  ASSUME NEW a \in Nodes, NEW b \in Nodes, a \in Lineage(b), NEW m \in Nodes, m \in InSlice(b)
  PROVE  m \in InSlice(a)
<1>1. b \in Lineage(m) /\ m # b
  BY InSliceIs
<1>2. PICK p \in Lineage(m) : p # m /\ b \in Lineage(p) /\ Kind[p] \in {"sequence", "parallel", "join"}
  BY InSliceIs
<1>3. a \in Lineage(m)
  BY <1>1, AboveAbove
<1>4. m # a
  BY <1>1, AboveOnce
<1>5. p \in Nodes
  BY NodeIs
<1>6. a \in Lineage(p)
  BY <1>2, <1>5, AboveAbove
<1> QED
  BY <1>2, <1>3, <1>4, <1>6, InSliceIs

\* A loop below another one.
LEMMA LoopBelow ==
  ASSUME NEW n \in Nodes, NEW m \in Nodes, Below(n, m), NEW k \in Nodes, Kind[k] = "loop", k # n
  PROVE  /\ k \notin Lineage(n)
         /\ m \in InSlice(Append(k, 1)) => m \in InSlice(Append(n, 1))
<1>1. k \notin Lineage(n)
  BY DEF Below, LoopAbove
<1>2. ASSUME m \in InSlice(Append(k, 1)) PROVE m \in InSlice(Append(n, 1))
  <2>1. Kids(k) = {1} /\ Kids(n) = {1}
    BY WorkflowAssumption DEF Below
  <2>2. Append(k, 1) \in Nodes /\ k \in Lineage(Append(k, 1)) /\ Append(n, 1) \in Nodes
    BY <2>1, KidIs, NodeIs
  <2>3. Append(k, 1) \in Lineage(m)
    BY <1>2, <2>2, InSliceIs
  <2>4. k \in Lineage(m) /\ n \in Lineage(m)
    BY <2>2, <2>3, AboveAbove DEF Below
  <2>5. n \in Lineage(k)
    BY <1>1, <2>4, AboveInLine
  <2>6. Append(n, 1) \in Lineage(k)
    BY <2>1, <2>5, ThroughKid
  <2>7. Append(n, 1) \in Lineage(Append(k, 1))
    BY <2>2, <2>6, AboveAbove
  <2> QED
    BY <1>2, <2>2, <2>7, InSliceUp
<1> QED
  BY <1>1, <1>2

\* Below a loop whose body passed, a task that must be done is.
LEMMA BodyDone ==
  ASSUME NEW x \in Requests, TreeOf(x), NEW n \in Nodes, NEW m \in Nodes, Below(n, m),
         Kid(x, n, 1) \in Passed \/ node[x][n] = "completed"
  PROVE  node[x][m] \in Passed
<1>1. SUFFICES ASSUME node[x][m] \notin Passed PROVE FALSE
  OBVIOUS
<1>2. n \in Lineage(m) /\ Kids(n) = {1} /\ m # n
  BY LoopIsAbove, WorkflowAssumption DEF Below
<1>3. Append(n, 1) \in Lineage(m) /\ Append(n, 1) \in Nodes /\ n \in Lineage(Append(n, 1))
  BY <1>2, ThroughKid, KidIs, NodeIs
<1>4. CASE Kid(x, n, 1) \in Passed
  <2>1. PICK p \in Lineage(m) : p # m /\ Append(n, 1) \in Lineage(p) /\ Lenient(p)
    BY <1>1, <1>3, <1>4 DEF TreeOf, DoneOf, Kid
  <2>2. p \in Nodes
    BY NodeIs
  <2>3. n \in Lineage(p)
    BY <1>3, <2>1, <2>2, AboveAbove
  <2> QED
    BY <2>1, <2>3 DEF Below
<1>5. CASE node[x][n] = "completed"
  <2>1. PICK p \in Lineage(m) : p # m /\ n \in Lineage(p) /\ Lenient(p)
    BY <1>1, <1>2, <1>5 DEF TreeOf, DoneOf, Passed
  <2> QED
    BY <2>1 DEF Below
<1> QED
  BY <1>4, <1>5

\* A task in the hand of a walk is given in the iteration at hand.
LEMMA BelowRuns ==
  ASSUME NEW x \in Requests, TreeOf(x), NEW n \in Nodes, NEW m \in Nodes, Below(n, m), node[x][m] = "open"
  PROVE  iteration[x][n] > 0
<1>1. n \in Lineage(m) /\ Kids(n) = {1} /\ m # n /\ Kind[n] = "loop"
  BY LoopIsAbove, WorkflowAssumption DEF Below
<1>2. Append(n, 1) \in Lineage(m)
  BY <1>1, ThroughKid
<1>3. node[x][Append(n, 1)] = "open"
  BY <1>2 DEF TreeOf, OpenOf
<1>4. Turn(x, n, 1)
  BY <1>1, <1>3 DEF TreeOf, TurnOf, Kid
<1> QED
  BY <1>1, <1>4 DEF Turn

LEMMA EntersTally ==
  ASSUME WorkflowTypes, NEW x \in Requests, NEW k \in Nodes, NEW s, Enters(x, k, s),
         NEW n \in Nodes, NEW m \in Nodes, Tally(x, n, m)
  PROVE  Tally(x, n, m)'
<1>1. s \in {"open", "failed"} /\ s \in Statuses /\ UNCHANGED <<iteration, burnt, adder>>
  BY DEF Enters, Statuses, Ended, mine, shared
<1>2. node'[x][k] = s /\ \A l \in Nodes : l # k => node'[x][l] = node[x][l]
  BY <1>1, ReturnIs DEF Enters
<1>3. node[x][m] \notin Passed => node'[x][m] \notin Passed
  BY <1>1, <1>2 DEF Passed
<1>4. Given(x, m)' = Given(x, m)
  BY <1>1 DEF Given
<1> QED
  BY <1>1, <1>3, <1>4 DEF Tally, UpTo

LEMMA UpToNext ==
  ASSUME NEW x, NEW m, NEW k \in Nat \ {0}
  PROVE  UpTo(x, m, k) = UpTo(x, m, k - 1) \cup {<<<<m, k>>, x>>} /\ <<<<m, k>>, x>> \in UpTo(x, m, k)
<1>1. 1 .. k = (1 .. k - 1) \cup {k}
  OBVIOUS
<1> QED
  BY <1>1 DEF UpTo

LEMMA ReturnsTally ==
  ASSUME WorkflowTypes, Handed, NEW x \in Requests, TreeOf(x), NEW k \in Nodes, NEW s, ReturnsFrom(x, k, s),
         NEW n \in Nodes, NEW m \in Nodes, Below(n, m), Tally(x, n, m)
  PROVE  Tally(x, n, m)'
<1>1. s \in Statuses /\ UNCHANGED <<iteration, burnt>> /\ node[x][k] = "open" /\ Gives(x, k, s)
  BY DEF ReturnsFrom, Settles, Statuses, mine
<1>2. node'[x][k] = s /\ \A l \in Nodes : l # k => node'[x][l] = node[x][l]
  BY <1>1, ReturnIs DEF ReturnsFrom
<1>3. CASE adder' = adder /\ (k = m => s = "failed")
  <2>1. node[x][m] \notin Passed => node'[x][m] \notin Passed
    BY <1>2, <1>3 DEF Passed
  <2>2. Given(x, m)' = Given(x, m)
    BY <1>3 DEF Given
  <2> QED
    BY <1>1, <2>1, <2>2 DEF Tally, UpTo
<1>4. CASE k # m /\ adder' = adder \cup {<<TaskID(x, k), x>>}
  <2>1. TaskID(x, k)[1] # m
    BY <1>4, TaskIDIs
  <2>2. Given(x, m)' = Given(x, m)
    BY <1>4, <2>1 DEF Given
  <2>3. node'[x][m] = node[x][m]
    BY <1>2, <1>4
  <2> QED
    BY <1>1, <2>2, <2>3 DEF Tally, UpTo
<1>5. CASE k = m /\ adder' = adder \cup {<<TaskID(x, m), x>>} /\ TaskID(x, m) \notin scheduled
  <2>1. iteration[x][n] > 0 /\ iteration[x][n] \in Nat /\ burnt[x][m] \in Nat
    BY <1>1, <1>5, BelowRuns DEF WorkflowTypes
  <2>2. Given(x, m)' = Given(x, m) \cup {<<TaskID(x, m), x>>}
    BY <1>5, TaskIDIs DEF Given
  <2>3. <<TaskID(x, m), x>> \notin Given(x, m)
    BY <1>5 DEF Given, Handed
  <2>4. TaskID(x, m) = <<m, IF burnt[x][m] # 0 THEN burnt[x][m] ELSE iteration[x][n]>>
    BY TaskIDBelow
  <2>5. CASE burnt[x][m] = 0
    <3>1. TaskID(x, m) = <<m, iteration[x][n]>>
      BY <2>4, <2>5
    <3>2. m \notin InSlice(Append(n, 1))
      BY <2>1, <2>5 DEF Tally
    <3>3. /\ UpTo(x, m, iteration[x][n]) = UpTo(x, m, iteration[x][n] - 1) \cup {<<TaskID(x, m), x>>}
          /\ <<TaskID(x, m), x>> \in UpTo(x, m, iteration[x][n])
      BY <2>1, <3>1, UpToNext
    <3>4. Given(x, m) = UpTo(x, m, iteration[x][n] - 1)
      BY <2>1, <2>3, <2>5, <3>3 DEF Tally
    <3>5. Given(x, m)' = UpTo(x, m, iteration[x][n])
      BY <2>2, <3>3, <3>4
    <3> QED
      BY <1>1, <2>1, <2>5, <3>2, <3>5 DEF Tally, UpTo
  <2>6. CASE burnt[x][m] # 0
    <3>1. TaskID(x, m) = <<m, burnt[x][m]>>
      BY <2>4, <2>6
    <3>2. Given(x, m) = {} /\ iteration[x][n] = 1
      BY <2>1, <2>3, <2>6, <3>1 DEF Tally
    <3>3. Given(x, m)' = {<<<<m, burnt[x][m]>>, x>>}
      BY <2>2, <3>1, <3>2
    <3> QED
      BY <1>1, <2>6, <3>2, <3>3 DEF Tally
  <2> QED
    BY <2>5, <2>6
<1>6. Kind[m] = "agent_task"
  BY LoopIsAbove
<1> QED
  BY <1>1, <1>3, <1>4, <1>5, <1>6 DEF Gives

LEMMA IterationTally ==
  ASSUME WorkflowTypes, NEW x \in Requests, TreeOf(x), NEW k \in Nodes, NextIteration(x, k),
         NEW n \in Nodes, NEW m \in Nodes, Below(n, m), Tally(x, n, m)
  PROVE  Tally(x, n, m)'
<1>1. /\ Kind[k] = "loop" /\ adder' = adder /\ (iteration[x][k] > 0 => Kid(x, k, 1) \in Passed)
      /\ iteration'[x][k] = iteration[x][k] + 1
      /\ \A l \in Nodes : k \in Lineage(l) /\ l # k => node'[x][l] = "idle" /\ iteration'[x][l] = 0
      /\ \A l \in Nodes : k \notin Lineage(l) => node'[x][l] = node[x][l] /\ iteration'[x][l] = iteration[x][l]
      /\ burnt'[x][m] = IF m \in InSlice(Append(k, 1)) \cap PerRound /\ burnt[x][m] = 0
                        THEN iteration[x][k] + 1 ELSE burnt[x][m]
  BY NextIterationIs
<1>2. /\ iteration[x][k] \in Nat /\ iteration[x][n] \in Nat /\ burnt[x][m] \in Nat
      /\ m \in PerRound /\ m # n /\ n \in Lineage(m)
  <2>1. iteration[x][k] \in Nat /\ iteration[x][n] \in Nat /\ burnt[x][m] \in Nat
    BY DEF WorkflowTypes
  <2>2. m \in PerRound
    BY DEF Below
  <2>3. m # n
    BY LoopIsAbove
  <2>4. n \in Lineage(m)
    BY DEF Below
  <2> QED
    BY <2>1, <2>2, <2>3, <2>4
<1>3. Given(x, m)' = Given(x, m)
  BY <1>1 DEF Given
<1>4. CASE k = n
  <2>1. node'[x][m] = "idle"
    BY <1>1, <1>2, <1>4
  <2>2. node'[x][m] \notin Passed
    BY <2>1 DEF Passed
  <2>3. CASE iteration[x][n] = 0
    <3>1. Given(x, m)' = {} /\ iteration'[x][n] = 1
      BY <1>1, <1>2, <1>3, <1>4, <2>3 DEF Tally
    <3>2. UpTo(x, m, 0) = {}
      BY DEF UpTo
    <3>3. burnt'[x][m] = 0 => m \notin InSlice(Append(n, 1))
      BY <1>1, <1>2, <1>4
    <3> QED
      BY <2>2, <3>1, <3>2, <3>3 DEF Tally, UpTo
  <2>4. CASE iteration[x][n] > 0
    <3>1. node[x][m] \in Passed
      BY <1>1, <1>4, <2>4, BodyDone
    <3>2. burnt'[x][m] = burnt[x][m]
      BY <1>1, <1>2, <1>4, <2>4 DEF Tally
    <3>3. iteration'[x][n] = iteration[x][n] + 1 /\ iteration'[x][n] - 1 = iteration[x][n]
      BY <1>1, <1>2, <1>4
    <3>4. CASE burnt[x][m] = 0
      <4>1. Given(x, m) = UpTo(x, m, iteration[x][n]) /\ m \notin InSlice(Append(n, 1))
        BY <2>4, <3>1, <3>4 DEF Tally
      <4>2. Given(x, m)' = UpTo(x, m, iteration'[x][n] - 1)
        BY <1>3, <3>3, <4>1
      <4> QED
        BY <1>2, <2>2, <3>2, <3>3, <3>4, <4>1, <4>2 DEF Tally, UpTo
    <3>5. CASE burnt[x][m] # 0
      <4>1. Given(x, m) = {<<<<m, burnt[x][m]>>, x>>}
        BY <2>4, <3>1, <3>5 DEF Tally
      <4> QED
        BY <1>2, <1>3, <2>2, <3>2, <3>3, <3>5, <4>1 DEF Tally
    <3> QED
      BY <3>4, <3>5
  <2> QED
    BY <1>2, <2>3, <2>4
<1>5. CASE k # n
  <2>1. k \notin Lineage(n) /\ (m \in InSlice(Append(k, 1)) => m \in InSlice(Append(n, 1)))
    BY <1>1, <1>5, LoopBelow
  <2>2. iteration'[x][n] = iteration[x][n]
    BY <1>1, <2>1
  <2>3. node[x][m] \notin Passed => node'[x][m] \notin Passed
    <3>1. CASE k \in Lineage(m)
      <4>1. m # k
        BY <1>1, LoopIsAbove
      <4> QED
        BY <1>1, <3>1, <4>1 DEF Passed
    <3>2. CASE k \notin Lineage(m)
      BY <1>1, <3>2
    <3> QED
      BY <3>1, <3>2
  <2>4. iteration[x][n] > 0 => burnt'[x][m] = burnt[x][m]
    BY <1>1, <1>2, <2>1 DEF Tally
  <2>5. CASE iteration[x][n] = 0
    BY <1>3, <2>2, <2>5 DEF Tally
  <2>6. CASE iteration[x][n] > 0
    BY <1>3, <2>2, <2>3, <2>4, <2>6 DEF Tally, UpTo
  <2> QED
    BY <1>2, <2>5, <2>6
<1> QED
  BY <1>4, <1>5

LEMMA TalliedStep ==
  ASSUME WorkflowTypes, WalkLasts, InTurn, OpenAbove, DoneBelow, Iterations, Handed, Tallied,
         [WorkflowNext]_workflowVars
  PROVE  Tallied'
<1> SUFFICES ASSUME NEW y \in Requests, NEW n \in Nodes, NEW m \in Nodes, phase'[y] = "running", Below(n, m)
             PROVE  Tally(y, n, m)'
  BY DEF Tallied, Below, LoopAbove, Lineage, Lenient
<1>0. TreeOf(y)
  BY TreeIs
<1>1. ASSUME phase[y] = "running", node'[y] = node[y], iteration'[y] = iteration[y], burnt'[y] = burnt[y],
             \A a \in (adder \cup adder') \ (adder \cap adder') : a[2] # y
      PROVE  Tally(y, n, m)'
  <2>1. Given(y, m)' = Given(y, m)
    BY <1>1 DEF Given
  <2>2. Tally(y, n, m)
    BY <1>1 DEF Tallied
  <2> QED
    BY <1>1, <2>1, <2>2 DEF Tally, UpTo
<1>2. CASE UNCHANGED workflowVars
  BY <1>1, <1>2 DEF workflowVars
<1>3. ASSUME NEW x \in Requests, Walk(x), x # y PROVE Tally(y, n, m)'
  <2>1. phase' = phase /\ node'[y] = node[y] /\ iteration'[y] = iteration[y] /\ burnt'[y] = burnt[y]
    BY <1>3, WalkKeeps
  <2>2. adder' = adder \/ \E t : adder' = adder \cup {<<t, x>>}
    BY <1>3, WalkKeeps
  <2>3. \A a \in (adder \cup adder') \ (adder \cap adder') : a[2] # y
    BY <1>3, <2>2
  <2> QED
    BY <1>1, <2>1, <2>3
<1>4. ASSUME Walk(y) PROVE Tally(y, n, m)'
  <2>1. Tally(y, n, m)
    <3>1. phase[y] = "running"
      BY <1>4, WalkKeeps
    <3> QED
      BY <3>1 DEF Tallied
  <2>2. PICK k \in Nodes : (\E s : Enters(y, k, s) \/ ReturnsFrom(y, k, s)) \/ NextIteration(y, k)
    BY <1>4, WalkIs
  <2> QED
    BY <1>0, <2>1, <2>2, EntersTally, ReturnsTally, IterationTally
<1>5. ASSUME NEW x \in Requests, Begins(x) PROVE Tally(y, n, m)'
  <2>1. /\ phase[x] = "idle" /\ phase' = [phase EXCEPT ![x] = "running"] /\ UNCHANGED <<node, iteration, adder>>
        /\ \E d \in [Nodes -> Nat] : burnt' = [burnt EXCEPT ![x] = d]
    BY <1>5 DEF Begins
  <2>2. CASE y = x
    <3>1. iteration'[y][n] = 0 /\ \A a \in adder : a[2] # y
      BY <2>1, <2>2 DEF WalkLasts, Zero
    <3>2. Given(y, m)' = {}
      BY <2>1, <3>1 DEF Given
    <3> QED
      BY <3>1, <3>2 DEF Tally
  <2>3. CASE y # x
    <3>1. phase[y] = "running" /\ burnt'[y] = burnt[y]
      BY <2>1, <2>3 DEF WorkflowTypes
    <3> QED
      BY <1>1, <2>1, <3>1
  <2> QED
    BY <2>2, <2>3
<1>6. ASSUME NEW x \in Requests, Declines(x) \/ IsLate(x) \/ Concludes(x) PROVE Tally(y, n, m)'
  <2>1. UNCHANGED <<node, iteration, burnt, adder>>
    BY <1>6 DEF Declines, IsLate, Concludes
  <2>2. phase[y] = "running"
    BY <1>6 DEF Declines, IsLate, Concludes, WorkflowTypes
  <2> QED
    BY <1>1, <2>1, <2>2
<1>7. ASSUME NEW xs \in SUBSET Requests, Releases(xs) PROVE Tally(y, n, m)'
  <2>1. Answer(xs)
    BY <1>7 DEF Releases
  <2>2. y \notin xs
    BY <2>1, AnswerIs
  <2>3. phase[y] = "running" /\ node'[y] = node[y] /\ iteration'[y] = iteration[y] /\ burnt'[y] = burnt[y]
    BY <2>1, <2>2, AnswerIs
  <2>4. adder' = adder
    BY <1>7, <2>2, <2>3 DEF Releases
  <2> QED
    BY <1>1, <2>3, <2>4
<1> QED
  BY <1>2, <1>3, <1>4, <1>5, <1>6, <1>7, WorkflowCases

LEMMA WorkflowInitInv == WorkflowInit => WorkflowInv
<1> SUFFICES ASSUME WorkflowInit PROVE WorkflowInv
  OBVIOUS
<1>1. Idle \in [Nodes -> Statuses] /\ Zero \in [Nodes -> Nat]
  BY DEF Idle, Zero, Statuses
<1>2. WorkflowTypes
  <2>1. /\ phase \in [Requests -> {"idle", "running", "saving", "answered"}]
        /\ executes \in [Requests -> Workflows \cup {<<>>}] /\ late \in [Requests -> SUBSET Nodes]
        /\ scheduled \subseteq Nodes \X Nat /\ adder \subseteq (Nodes \X Nat) \X Requests
    BY DEF WorkflowInit
  <2>2. /\ node \in [Requests -> [Nodes -> Statuses]] /\ iteration \in [Requests -> [Nodes -> Nat]]
        /\ burnt \in [Requests -> [Nodes -> Nat]] /\ tickets \in [Nodes -> Nat]
    BY <1>1 DEF WorkflowInit
  <2>3. Unsaved \in [status : (Ended \ {"failed"}) \cup {"none"}, burnt : [Nodes -> Nat]]
    BY <1>1 DEF Unsaved
  <2>4. saved \in [Workflows -> [status : (Ended \ {"failed"}) \cup {"none"}, burnt : [Nodes -> Nat]]]
    BY <2>3 DEF WorkflowInit
  <2> QED
    BY <2>1, <2>2, <2>4 DEF WorkflowTypes
<1>3. \A x \in Requests : phase[x] = "idle" /\ node[x] = Idle /\ iteration[x] = Zero
  BY DEF WorkflowInit
<1>4. WalkLasts
  BY <1>3 DEF WorkflowInit, WalkLasts
<1>5. InTurn /\ OpenAbove /\ DoneBelow /\ Iterations
  BY <1>3, FreshTree, TreeIs
<1>6. Handed
  BY DEF WorkflowInit, Handed, GivenOutOnce
<1>7. Tallied
  BY <1>3 DEF Tallied
<1> QED
  BY <1>2, <1>4, <1>5, <1>6, <1>7 DEF WorkflowInv

LEMMA WorkflowStepInv == WorkflowInv /\ [WorkflowNext]_workflowVars => WorkflowInv'
<1> SUFFICES ASSUME WorkflowInv, [WorkflowNext]_workflowVars PROVE WorkflowInv'
  OBVIOUS
<1>1. WorkflowTypes /\ WalkLasts /\ InTurn /\ OpenAbove /\ DoneBelow /\ Iterations /\ Handed /\ Tallied
  BY DEF WorkflowInv
<1>2. WorkflowTypes'
  BY <1>1, WorkflowTypesStep
<1>3. WalkLasts'
  BY <1>1, WalkLastsStep
<1>4. InTurn' /\ OpenAbove' /\ DoneBelow' /\ Iterations'
  BY <1>1, TreeStep
<1>5. Handed'
  BY <1>1, HandedStep
<1>6. Tallied'
  BY <1>1, TalliedStep
<1> QED
  BY <1>2, <1>3, <1>4, <1>5, <1>6 DEF WorkflowInv

-----------------------------------------------------------------------------
(* What the invariant says.                                                *)

LEMMA UpToCounts ==
  ASSUME NEW x, NEW m, NEW k \in Nat PROVE Cardinality(UpTo(x, m, k)) = k
<1>1. PICK f : f = [j \in 1 .. k |-> <<<<m, j>>, x>>]
  OBVIOUS
<1>2. f \in Bijection(1 .. k, UpTo(x, m, k))
  <2>1. f \in [1 .. k -> UpTo(x, m, k)]
    BY <1>1 DEF UpTo
  <2>2. \A i, j \in 1 .. k : f[i] = f[j] => i = j
    BY <1>1
  <2>3. \A a \in UpTo(x, m, k) : \E j \in 1 .. k : f[j] = a
    BY <1>1 DEF UpTo
  <2> QED
    BY <2>1, <2>2, <2>3, Fun_IsBij
<1>3. ExistsBijection(1 .. k, UpTo(x, m, k))
  BY <1>2 DEF ExistsBijection
<1>4. IsFiniteSet(1 .. k) /\ Cardinality(1 .. k) = k
  BY FS_Interval
<1> QED
  BY <1>3, <1>4, FS_Bijection

\* A loop that completed has given the task below it in each of its iterations.
LEMMA LoopGives ==
  ASSUME WorkflowInv, NEW x \in Requests, phase[x] = "running", NEW n \in Nodes, node[x][n] = "completed",
         NEW m \in Nodes, Below(n, m)
  PROVE  Cardinality(Given(x, m)) = Rounds[n]
<1>1. TreeOf(x) /\ Tally(x, n, m)
  BY TreeIs DEF WorkflowInv, Tallied
<1>2. iteration[x][n] = Rounds[n] /\ Rounds[n] \in Nat \ {0}
  BY <1>1, WorkflowAssumption DEF TreeOf, IterationsOf, Below
<1>3. node[x][m] \in Passed
  BY <1>1, BodyDone
<1>4. burnt[x][m] \in Nat
  BY DEF WorkflowInv, WorkflowTypes
<1>5. CASE burnt[x][m] = 0
  <2>1. Given(x, m) = UpTo(x, m, Rounds[n])
    BY <1>1, <1>2, <1>3, <1>5 DEF Tally
  <2> QED
    BY <1>2, <2>1, UpToCounts
<1>6. CASE burnt[x][m] # 0
  <2>1. Given(x, m) = {<<<<m, burnt[x][m]>>, x>>} /\ Rounds[n] = 1
    BY <1>1, <1>2, <1>3, <1>6 DEF Tally
  <2> QED
    BY <2>1, FS_Singleton
<1> QED
  BY <1>5, <1>6

LEMMA WorkflowInvImplies ==
  WorkflowInv => WorkflowTypeOK /\ GivenOutOnce /\ NothingLeftBehind /\ CompletedIsDone /\ LoopGivesAll
<1> SUFFICES ASSUME WorkflowInv
             PROVE  WorkflowTypeOK /\ GivenOutOnce /\ NothingLeftBehind /\ CompletedIsDone /\ LoopGivesAll
  OBVIOUS
<1>0. WorkflowTypes /\ WalkLasts /\ \A x \in Requests : TreeOf(x)
  BY TreeIs DEF WorkflowInv
<1>1. WorkflowTypeOK
  <2>1. \A w \in Workflows : saved[w].status \in (Ended \ {"failed"}) \cup {"none"}
    BY <1>0 DEF WorkflowTypes
  <2>2. ASSUME NEW x \in Requests, NEW n \in Nodes
        PROVE  node[x][n] \in Ended \cup {"idle", "open"} /\ iteration[x][n] \in Nat /\ burnt[x][n] \in Nat
    BY <1>0 DEF WorkflowTypes, Statuses
  <2> QED
    BY <1>0, <2>1, <2>2 DEF WorkflowTypes, WorkflowTypeOK
<1>2. GivenOutOnce
  BY DEF WorkflowInv, Handed
<1>3. NothingLeftBehind
  <2> SUFFICES ASSUME NEW x \in Requests, NEW n \in Nodes, node[x][n] \in Ended, NEW m \in Under(n),
                      node[x][m] = "open"
               PROVE  FALSE
    BY DEF NothingLeftBehind
  <2>1. m \in Nodes /\ n \in Lineage(m)
    BY UnderIs DEF Under
  <2>2. node[x][n] = "open"
    BY <1>0, <2>1 DEF TreeOf, OpenOf
  <2> QED
    BY <2>2 DEF Ended, Waiting, Passed
<1>4. CompletedIsDone
  <2> SUFFICES ASSUME NEW x \in Requests, phase[x] = "saving", node[x][executes[x]] = "completed",
                      NEW m \in Under(executes[x]), node[x][m] \in Waiting \cup {"failed"}
               PROVE  \E p \in Lineage(m) \ {m} : Lenient(p)
    BY DEF CompletedIsDone
  <2>1. executes[x] \in Nodes
    BY <1>0 DEF WalkLasts, Workflows
  <2>2. m \in Nodes /\ executes[x] \in Lineage(m)
    BY <2>1, UnderIs DEF Under
  <2>3. node[x][m] \notin Passed /\ node[x][executes[x]] \in Passed
    BY DEF Waiting, Passed
  <2>4. PICK p \in Lineage(m) : p # m /\ executes[x] \in Lineage(p) /\ Lenient(p)
    BY <1>0, <2>1, <2>2, <2>3 DEF TreeOf, DoneOf
  <2> QED
    BY <2>4
<1>5. LoopGivesAll
  <2> SUFFICES ASSUME NEW x \in Requests, phase[x] = "running", NEW n \in Nodes, Kind[n] = "loop",
                      LoopAbove(n) = {}, node[x][n] = "completed", NEW m \in Under(n) \cap PerRound,
                      \A p \in Lineage(m) \cap Under(n) : ~Lenient(p)
               PROVE  Cardinality({a \in adder : a[1][1] = m /\ a[2] = x}) = Rounds[n]
    BY DEF LoopGivesAll
  <2>1. m \in Nodes /\ n \in Lineage(m)
    BY UnderIs DEF Under
  <2>2. ASSUME NEW p \in Lineage(m), n \in Lineage(p) PROVE ~Lenient(p)
    <3>1. p \in Nodes
      BY <2>1, NodeIs
    <3> QED
      BY <2>2, <3>1, UnderIs
  <2>3. Below(n, m)
    BY <2>1, <2>2 DEF Below
  <2> QED
    BY <2>1, <2>3, LoopGives DEF Given
<1> QED
  BY <1>1, <1>2, <1>3, <1>4, <1>5

(* For all definitions, requests and bounds: however often a workflow is walked
   again and however walks overlap, no task id is handed to the scheduler by two
   requests, nothing goes on below a node that has returned, a workflow answered as
   completed has nothing in it that waits or failed where it must not, and a
   completed outermost loop has given out a task in each iteration: the walk of
   engine.go's executeNode and its kinds, and of the handlers that start it.  *)
THEOREM WorkflowIsSafe == WorkflowSpec => WorkflowSafe
<1>1. WorkflowInit => WorkflowInv
  BY WorkflowInitInv
<1>2. WorkflowInv /\ [WorkflowNext]_workflowVars => WorkflowInv'
  BY WorkflowStepInv
<1>3. WorkflowInv => WorkflowTypeOK /\ GivenOutOnce /\ NothingLeftBehind /\ CompletedIsDone /\ LoopGivesAll
  BY WorkflowInvImplies
<1> QED
  BY <1>1, <1>2, <1>3, PTL DEF WorkflowSpec, WorkflowSafe

-----------------------------------------------------------------------------
(* The event log: the least of a set of numbers.                             *)

LEMMA LeastOf ==
  ASSUME NEW T, T \subseteq Nat, T # {}
  PROVE  \E x \in T : \A y \in T : x <= y
<1> DEFINE R == OpToRel(<, Nat)
<1>1. PICK x \in T : \A y \in T : ~(<<y, x>> \in R)
  <2>1. IsWellFoundedOn(R, Nat)
    BY NatLessThanWellFounded
  <2> HIDE DEF R
  <2> QED
    BY <2>1, WFMin
<1>2. \A a, b \in Nat : a < b => <<a, b>> \in R
  BY DEF OpToRel
<1> HIDE DEF R
<1>3. ASSUME NEW y \in T PROVE x <= y
  <2>1. x \in Nat /\ y \in Nat
    BY <1>1, <1>3
  <2>2. ~(y < x)
    BY <1>1, <1>2, <1>3, <2>1
  <2> QED
    BY <2>1, <2>2
<1> QED
  BY <1>1, <1>3

-----------------------------------------------------------------------------
(* A record.  What is said here of a log holds of what is stored, and of what *)
(* would be if the execution at work could flush: it is said of a sequence    *)
(* of events, whatever their numbers and the owners of their search rows.     *)

IsAnswered(l, i) == \E k \in Indices(l, "result") : Key(l[k]) = Key(l[i])

InNat(l) == \A i \in DOMAIN l : l[i].turn \in Nat /\ l[i].step \in Nat
Started(l) == \A i \in DOMAIN l : \E s \in Indices(l, "turn/start") : s <= i /\ l[s].turn = l[i].turn
StartsAreRun(l) == \A s \in Indices(l, "turn/start") : l[s].by = "run"
StartsApart(l) == \A i, j \in Indices(l, "turn/start") : l[i].turn = l[j].turn => i = j
InTurns(l) == \A i, j \in DOMAIN l : i < j /\ l[i].turn > l[j].turn => l[j].by = "recovery"

\* A call is announced by the message of its step, and a result follows its call.
CallsAnnounced(l) == \A i \in Indices(l, "call") :
  \E a \in Indices(l, "assistant") : Announces(l[a], l[i].id) /\ l[a].turn = l[i].turn /\ l[a].step = l[i].step
Distinctly(l) == \A a \in Indices(l, "assistant") : IsInjective(l[a].calls)
ResultsFollow(l) == \A r \in Indices(l, "result") : \E c \in Indices(l, "call") : c < r /\ Key(l[c]) = Key(l[r])

\* One call at a time: a run that records a call or a result has the answers to
\* all earlier ones of its turn.
OneAtATime(l) == \A j \in DOMAIN l, i \in Indices(l, "call") :
  ToolEvent(l[j]) /\ l[j].by = "run" /\ i < j /\ l[i].turn = l[j].turn => IsAnswered(l, i)
AllAnswered(l) == \A i \in Indices(l, "call"), j \in Indices(l, "turn/end") : l[i].turn = l[j].turn => IsAnswered(l, i)
Performed(l, ex) == \A i \in Indices(l, "call") :
  Key(l[i]) \in ex \/ \A j \in DOMAIN l : j > i /\ l[j].turn = l[i].turn => l[j].by = "recovery"
EndsAreDue(l, what) == \A i \in Indices(l, EndOf(what)) :
  \E k \in Indices(l, StartOf(what)) : k < i /\ \A m \in Indices(l, EndOf(what)) : ~(k < m /\ m < i)

\* The message a tool event's search row takes its task from.
Voice(l, i, task) == \E j \in DOMAIN l :
  /\ j < i /\ Message(l[j]) /\ l[j].task = task
  /\ \A k \in DOMAIN l : j < k /\ k < i => ~Message(l[k])
Voiced(l) == \A i \in DOMAIN l : ToolEvent(l[i]) /\ l[i].by = "run" => Voice(l, i, l[i].task)

\* A recovery leaves no turn open.
Mended(l) == \A j \in DOMAIN l, s \in Indices(l, "turn/start") :
  l[j].by = "recovery" /\ s < j => \E e \in Indices(l, "turn/end") : e > s

Sound(l, ex) ==
  /\ l \in Seq(Events) /\ InNat(l)
  /\ Started(l) /\ StartsAreRun(l) /\ StartsApart(l) /\ InTurns(l)
  /\ OneOfEach(l, "call") /\ OneOfEach(l, "result")
  /\ CallsAnnounced(l) /\ Distinctly(l) /\ ResultsFollow(l)
  /\ OneAtATime(l) /\ AllAnswered(l) /\ Performed(l, ex)
  /\ EndsAreDue(l, "turn") /\ EndsAreDue(l, "step")
  /\ Voiced(l) /\ Mended(l)

-----------------------------------------------------------------------------
(* The turn in hand.                                                          *)

Latest(l, turn) == /\ \A i \in DOMAIN l : l[i].turn <= turn
                   /\ \E s \in Indices(l, "turn/start") : l[s].turn = turn
Settled(l, turn, ex) == \A i \in Indices(l, "call") : l[i].turn = turn => IsAnswered(l, i) /\ Key(l[i]) \in ex
StepsBelow(l, turn, step) == \A i \in Indices(l, "call") : l[i].turn = turn => l[i].step < step
Unended(l, turn) == \A j \in Indices(l, "turn/end") : l[j].turn # turn
Said(l, task) == Voice(l, Len(l) + 1, task)
Manifest(l, turn, step, calls) ==
  \E a \in Indices(l, "assistant") : l[a].turn = turn /\ l[a].step = step /\ l[a].calls = calls

\* What an event of the run must meet.
Welcome(l, e, ex) ==
  /\ e \in Events /\ e.by = "run" /\ e.turn \in Nat /\ e.step \in Nat
  /\ \A i \in DOMAIN l : l[i].turn <= e.turn
  /\ e.type = "turn/start" => \A i \in DOMAIN l : l[i].turn < e.turn
  /\ e.type # "turn/start" => \E s \in Indices(l, "turn/start") : l[s].turn = e.turn
  /\ e.type = "assistant" => IsInjective(e.calls)
  /\ e.type = "call" => /\ Unended(l, e.turn)
                        /\ \A i \in Indices(l, "call") : Key(l[i]) # Key(e)
                        /\ \E a \in Indices(l, "assistant") : Announces(l[a], e.id) /\ l[a].turn = e.turn /\ l[a].step = e.step
  /\ e.type = "result" => /\ \E c \in Indices(l, "call") : Key(l[c]) = Key(e)
                          /\ \A r \in Indices(l, "result") : Key(l[r]) # Key(e)
  /\ ToolEvent(e) => Said(l, e.task)
  /\ ToolEvent(e) => \A i \in Indices(l, "call") :
       l[i].turn = e.turn => IsAnswered(l, i) \/ (e.type = "result" /\ Key(l[i]) = Key(e))
  /\ e.type = "turn/end" => \A i \in Indices(l, "call") : l[i].turn = e.turn => IsAnswered(l, i)
  /\ e.type = "turn/end" => LeftOpen(l, "turn")
  /\ e.type = "step/end" => LeftOpen(l, "step")
  /\ \A i \in Indices(l, "call") : l[i].turn = e.turn => Key(l[i]) \in ex

\* m is l with one event more.
Grown(l, m, e) ==
  /\ m \in Seq(Events) /\ Len(m) = Len(l) + 1 /\ m[Len(l) + 1] = e
  /\ \A i \in 1 .. Len(l) : m[i] = l[i]
  /\ DOMAIN l = 1 .. Len(l) /\ DOMAIN m = 1 .. Len(l) + 1 /\ Len(l) \in Nat

LEMMA AppendGrows ==
  ASSUME NEW l \in Seq(Events), NEW e \in Events
  PROVE  Grown(l, Append(l, e), e)
BY DEF Grown

LEMMA GrownIndices ==
  ASSUME NEW l, NEW e, NEW m, Grown(l, m, e)
  PROVE  /\ \A ty : \A i \in Indices(l, ty) : i \in Indices(m, ty) /\ i \in 1 .. Len(l) /\ m[i] = l[i]
         /\ \A ty : \A i \in Indices(m, ty) : i \in Indices(l, ty) \/ (i = Len(l) + 1 /\ e.type = ty)
         /\ \A ty : e.type = ty => Len(l) + 1 \in Indices(m, ty)
BY DEF Grown, Indices

LEMMA GrownAnswered ==
  ASSUME NEW l, NEW e, NEW m, Grown(l, m, e)
  PROVE  \A i \in DOMAIN l : /\ IsAnswered(l, i) => IsAnswered(m, i)
                             /\ e.type = "result" /\ Key(l[i]) = Key(e) => IsAnswered(m, i)
<1>1. \A i \in DOMAIN l : m[i] = l[i]
  BY DEF Grown
<1>2. m[Len(l) + 1] = e
  BY DEF Grown
<1> TAKE i \in DOMAIN l
<1>3. ASSUME IsAnswered(l, i) PROVE IsAnswered(m, i)
  BY <1>1, <1>3, GrownIndices DEF IsAnswered
<1>4. ASSUME e.type = "result", Key(l[i]) = Key(e) PROVE IsAnswered(m, i)
  BY <1>1, <1>2, <1>4, GrownIndices DEF IsAnswered
<1> QED
  BY <1>3, <1>4

\* A log that takes a welcome event stays sound.
LEMMA AddsTurns ==
  ASSUME NEW l, NEW e, NEW m, NEW ex, Grown(l, m, e), Sound(l, ex), Welcome(l, e, ex)
  PROVE  InNat(m) /\ Started(m) /\ StartsAreRun(m) /\ StartsApart(m) /\ InTurns(m)
<1>1. PICK n : n = Len(l) + 1
  OBVIOUS
<1>2. /\ n \in Nat /\ DOMAIN l = 1 .. n - 1 /\ DOMAIN m = 1 .. n /\ m[n] = e
      /\ \A i \in 1 .. n - 1 : m[i] = l[i] /\ i \in 1 .. n
      /\ \A i \in 1 .. n : i = n \/ i \in 1 .. n - 1
  BY <1>1 DEF Grown
<1>3. /\ \A i \in Indices(l, "turn/start") : i \in Indices(m, "turn/start") /\ i \in 1 .. n - 1
      /\ \A i \in Indices(m, "turn/start") : i \in Indices(l, "turn/start") \/ (i = n /\ e.type = "turn/start")
      /\ e.type = "turn/start" => n \in Indices(m, "turn/start")
  BY <1>1, <1>2, GrownIndices
<1>4. InNat(m)
  BY <1>2 DEF InNat, Sound, Welcome
<1>5. Started(m)
  <2> SUFFICES ASSUME NEW i \in DOMAIN m PROVE \E s \in Indices(m, "turn/start") : s <= i /\ m[s].turn = m[i].turn
    BY DEF Started
  <2>1. CASE i \in 1 .. n - 1
    <3>1. PICK s \in Indices(l, "turn/start") : s <= i /\ l[s].turn = l[i].turn
      BY <1>2, <2>1 DEF Sound, Started
    <3> QED
      BY <1>2, <1>3, <2>1, <3>1
  <2>2. CASE i = n /\ e.type = "turn/start"
    BY <1>2, <1>3, <2>2
  <2>3. CASE i = n /\ e.type # "turn/start"
    <3>1. PICK s \in Indices(l, "turn/start") : l[s].turn = e.turn
      BY <2>3 DEF Welcome
    <3>2. s \in 1 .. n - 1 /\ s \in Indices(m, "turn/start") /\ s <= n
      BY <1>2, <1>3, <3>1
    <3> QED
      BY <1>2, <2>3, <3>1, <3>2
  <2> QED
    BY <1>2, <2>1, <2>2, <2>3
<1>6. StartsAreRun(m)
  BY <1>2, <1>3 DEF StartsAreRun, Sound, Welcome
<1>7. StartsApart(m)
  <2> SUFFICES ASSUME NEW i \in Indices(m, "turn/start"), NEW j \in Indices(m, "turn/start"), m[i].turn = m[j].turn PROVE i = j
    BY DEF StartsApart
  <2>1. \A s \in Indices(l, "turn/start") : e.type = "turn/start" => m[s].turn < e.turn /\ m[s].turn \in Nat /\ e.turn \in Nat
    BY <1>2, <1>3 DEF Welcome, Sound, InNat
  <2>2. CASE i \in Indices(l, "turn/start") /\ j \in Indices(l, "turn/start")
    BY <1>2, <1>3, <2>2 DEF Sound, StartsApart
  <2>3. CASE i \in Indices(l, "turn/start") /\ j = n /\ e.type = "turn/start"
    <3>1. m[i].turn < e.turn /\ m[i].turn \in Nat /\ e.turn \in Nat /\ m[j].turn = e.turn
      BY <1>2, <2>1, <2>3
    <3> QED
      BY <3>1
  <2>4. CASE j \in Indices(l, "turn/start") /\ i = n /\ e.type = "turn/start"
    <3>1. m[j].turn < e.turn /\ m[j].turn \in Nat /\ e.turn \in Nat /\ m[i].turn = e.turn
      BY <1>2, <2>1, <2>4
    <3> QED
      BY <3>1
  <2> QED
    BY <1>3, <2>2, <2>3, <2>4
<1>8. InTurns(m)
  <2> SUFFICES ASSUME NEW i \in 1 .. n, NEW j \in 1 .. n, i < j, m[i].turn > m[j].turn PROVE m[j].by = "recovery"
    BY <1>2 DEF InTurns
  <2>1. CASE j \in 1 .. n - 1
    <3>1. i \in 1 .. n - 1
      BY <1>2, <2>1
    <3> QED
      BY <1>2, <2>1, <3>1 DEF Sound, InTurns
  <2>2. CASE j = n
    <3>1. i \in 1 .. n - 1
      BY <1>2, <2>2
    <3>2. l[i].turn <= e.turn /\ l[i].turn \in Nat /\ e.turn \in Nat
      BY <1>2, <3>1 DEF Sound, InNat, Welcome
    <3> QED
      BY <1>2, <2>2, <3>1, <3>2
  <2> QED
    BY <1>2, <2>1, <2>2
<1> QED
  BY <1>4, <1>5, <1>6, <1>7, <1>8

LEMMA AddsCalls ==
  ASSUME NEW l, NEW e, NEW m, NEW ex, Grown(l, m, e), Sound(l, ex), Welcome(l, e, ex)
  PROVE  /\ OneOfEach(m, "call") /\ OneOfEach(m, "result")
         /\ CallsAnnounced(m) /\ Distinctly(m) /\ ResultsFollow(m)
<1>1. PICK n : n = Len(l) + 1
  OBVIOUS
<1>2. /\ n \in Nat /\ DOMAIN l = 1 .. n - 1 /\ DOMAIN m = 1 .. n /\ m[n] = e
      /\ \A i \in 1 .. n - 1 : m[i] = l[i] /\ i \in 1 .. n /\ i < n
  BY <1>1 DEF Grown
<1>3. /\ \A ty : \A i \in Indices(l, ty) : i \in Indices(m, ty) /\ i \in 1 .. n - 1
      /\ \A ty : \A i \in Indices(m, ty) : i \in Indices(l, ty) \/ (i = n /\ e.type = ty)
      /\ \A ty : e.type = ty => n \in Indices(m, ty)
  BY <1>1, <1>2, GrownIndices
<1>4. \A ty : \A i \in Indices(l, ty) : m[i] = l[i] /\ i < n
  BY <1>2, <1>3
<1>5. OneOfEach(m, "call")
  <2>1. OneOfEach(l, "call")
    BY DEF Sound
  <2>2. e.type = "call" => \A i \in Indices(l, "call") : Key(l[i]) # Key(e)
    BY DEF Welcome
  <2> QED
    BY <1>2, <1>3, <1>4, <2>1, <2>2 DEF OneOfEach
<1>6. OneOfEach(m, "result")
  <2>1. OneOfEach(l, "result")
    BY DEF Sound
  <2>2. e.type = "result" => \A i \in Indices(l, "result") : Key(l[i]) # Key(e)
    BY DEF Welcome
  <2> QED
    BY <1>2, <1>3, <1>4, <2>1, <2>2 DEF OneOfEach
<1>7. CallsAnnounced(m)
  <2> SUFFICES ASSUME NEW i \in Indices(m, "call")
               PROVE  \E a \in Indices(m, "assistant") : Announces(m[a], m[i].id) /\ m[a].turn = m[i].turn /\ m[a].step = m[i].step
    BY DEF CallsAnnounced
  <2>1. CASE i \in Indices(l, "call")
    <3>1. PICK a \in Indices(l, "assistant") : Announces(l[a], l[i].id) /\ l[a].turn = l[i].turn /\ l[a].step = l[i].step
      BY <2>1 DEF Sound, CallsAnnounced
    <3> QED
      BY <1>3, <1>4, <2>1, <3>1
  <2>2. CASE i = n /\ e.type = "call"
    <3>1. PICK a \in Indices(l, "assistant") : Announces(l[a], e.id) /\ l[a].turn = e.turn /\ l[a].step = e.step
      BY <2>2 DEF Welcome
    <3> QED
      BY <1>2, <1>3, <1>4, <2>2, <3>1
  <2> QED
    BY <1>3, <2>1, <2>2
<1>8. Distinctly(m)
  <2>1. Distinctly(l) /\ (e.type = "assistant" => IsInjective(e.calls))
    BY DEF Sound, Welcome
  <2> QED
    BY <1>2, <1>3, <1>4, <2>1 DEF Distinctly
<1>9. ResultsFollow(m)
  <2> SUFFICES ASSUME NEW r \in Indices(m, "result")
               PROVE  \E c \in Indices(m, "call") : c < r /\ Key(m[c]) = Key(m[r])
    BY DEF ResultsFollow
  <2>1. CASE r \in Indices(l, "result")
    <3>1. PICK c \in Indices(l, "call") : c < r /\ Key(l[c]) = Key(l[r])
      BY <2>1 DEF Sound, ResultsFollow
    <3> QED
      BY <1>3, <1>4, <2>1, <3>1
  <2>2. CASE r = n /\ e.type = "result"
    <3>1. PICK c \in Indices(l, "call") : Key(l[c]) = Key(e)
      BY <2>2 DEF Welcome
    <3> QED
      BY <1>2, <1>3, <1>4, <2>2, <3>1
  <2> QED
    BY <1>3, <2>1, <2>2
<1> QED
  BY <1>5, <1>6, <1>7, <1>8, <1>9

LEMMA AddsAnswers ==
  ASSUME NEW l, NEW e, NEW m, NEW ex, Grown(l, m, e), Sound(l, ex), Welcome(l, e, ex)
  PROVE  OneAtATime(m) /\ AllAnswered(m) /\ Performed(m, ex)
<1>1. PICK n : n = Len(l) + 1
  OBVIOUS
<1>2. /\ n \in Nat /\ DOMAIN l = 1 .. n - 1 /\ DOMAIN m = 1 .. n /\ m[n] = e
      /\ \A i \in 1 .. n - 1 : m[i] = l[i] /\ i \in 1 .. n /\ i < n
  BY <1>1 DEF Grown
<1>3. /\ \A ty : \A i \in Indices(l, ty) : i \in Indices(m, ty) /\ i \in 1 .. n - 1
      /\ \A ty : \A i \in Indices(m, ty) : i \in Indices(l, ty) \/ (i = n /\ e.type = ty)
      /\ \A ty : e.type = ty => n \in Indices(m, ty)
  BY <1>1, <1>2, GrownIndices
<1>4. \A ty : \A i \in Indices(l, ty) : m[i] = l[i] /\ i < n
  BY <1>2, <1>3
<1>5. \A i \in 1 .. n - 1 : (IsAnswered(l, i) => IsAnswered(m, i)) /\ (e.type = "result" /\ Key(l[i]) = Key(e) => IsAnswered(m, i))
  BY <1>2, GrownAnswered
<1>6. OneAtATime(m)
  <2> SUFFICES ASSUME NEW j \in 1 .. n, NEW i \in Indices(m, "call"), ToolEvent(m[j]), m[j].by = "run", i < j, m[i].turn = m[j].turn
               PROVE  IsAnswered(m, i)
    BY <1>2 DEF OneAtATime
  <2>1. i \in Indices(l, "call")
    BY <1>2, <1>3
  <2>2. CASE j \in 1 .. n - 1
    <3>1. IsAnswered(l, i)
      BY <1>2, <1>4, <2>1, <2>2 DEF Sound, OneAtATime
    <3> QED
      BY <1>3, <1>5, <2>1, <3>1
  <2>3. CASE j = n
    <3>1. IsAnswered(l, i) \/ (e.type = "result" /\ Key(l[i]) = Key(e))
      BY <1>2, <1>4, <2>1, <2>3 DEF Welcome
    <3> QED
      BY <1>3, <1>5, <2>1, <3>1
  <2> QED
    BY <1>2, <2>2, <2>3
<1>7. AllAnswered(m)
  <2> SUFFICES ASSUME NEW i \in Indices(m, "call"), NEW j \in Indices(m, "turn/end"), m[i].turn = m[j].turn PROVE IsAnswered(m, i)
    BY DEF AllAnswered
  <2>1. CASE i \in Indices(l, "call") /\ j \in Indices(l, "turn/end")
    <3>1. IsAnswered(l, i)
      BY <1>4, <2>1 DEF Sound, AllAnswered
    <3> QED
      BY <1>3, <1>5, <2>1, <3>1
  <2>2. CASE i \in Indices(l, "call") /\ j = n /\ e.type = "turn/end"
    <3>1. IsAnswered(l, i)
      BY <1>2, <1>4, <2>2 DEF Welcome
    <3> QED
      BY <1>3, <1>5, <2>2, <3>1
  <2>3. CASE i = n /\ e.type = "call" /\ j \in Indices(l, "turn/end")
    BY <1>2, <1>4, <2>3 DEF Welcome, Unended
  <2> QED
    BY <1>3, <2>1, <2>2, <2>3
<1>8. Performed(m, ex)
  <2> SUFFICES ASSUME NEW i \in Indices(m, "call"), Key(m[i]) \notin ex, NEW j \in 1 .. n, j > i, m[j].turn = m[i].turn
               PROVE  m[j].by = "recovery"
    BY <1>2 DEF Performed
  <2>1. i \in Indices(l, "call")
    BY <1>2, <1>3
  <2>2. j # n
    BY <1>2, <1>4, <2>1 DEF Welcome
  <2> QED
    BY <1>2, <1>4, <2>1, <2>2 DEF Sound, Performed
<1> QED
  BY <1>6, <1>7, <1>8

LEMMA AddsEnds ==
  ASSUME NEW l, NEW e, NEW m, NEW ex, Grown(l, m, e), Sound(l, ex), Welcome(l, e, ex)
  PROVE  EndsAreDue(m, "turn") /\ EndsAreDue(m, "step") /\ Voiced(m) /\ Mended(m)
<1>1. PICK n : n = Len(l) + 1
  OBVIOUS
<1>2. /\ n \in Nat /\ DOMAIN l = 1 .. n - 1 /\ DOMAIN m = 1 .. n /\ m[n] = e
      /\ \A i \in 1 .. n - 1 : m[i] = l[i] /\ i \in 1 .. n /\ i < n
  BY <1>1 DEF Grown
<1>3. /\ \A ty : \A i \in Indices(l, ty) : i \in Indices(m, ty) /\ i \in 1 .. n - 1
      /\ \A ty : \A i \in Indices(m, ty) : i \in Indices(l, ty) \/ (i = n /\ e.type = ty)
      /\ \A ty : e.type = ty => n \in Indices(m, ty)
  BY <1>1, <1>2, GrownIndices
<1>4. ASSUME NEW what, EndsAreDue(l, what), e.type = EndOf(what) => LeftOpen(l, what)
      PROVE  EndsAreDue(m, what)
  <2> SUFFICES ASSUME NEW i \in Indices(m, EndOf(what))
               PROVE  \E k \in Indices(m, StartOf(what)) : k < i /\ \A x \in Indices(m, EndOf(what)) : ~(k < x /\ x < i)
    BY DEF EndsAreDue
  <2>1. CASE i \in Indices(l, EndOf(what))
    <3>1. PICK k \in Indices(l, StartOf(what)) : k < i /\ \A x \in Indices(l, EndOf(what)) : ~(k < x /\ x < i)
      BY <1>4, <2>1 DEF EndsAreDue
    <3>2. ~(k < n /\ n < i)
      BY <1>2, <1>3, <2>1
    <3> QED
      BY <1>3, <3>1, <3>2
  <2>2. CASE i = n /\ e.type = EndOf(what)
    <3>1. PICK k \in Indices(l, StartOf(what)) : ~\E x \in Indices(l, EndOf(what)) : x > k
      BY <1>4, <2>2 DEF LeftOpen
    <3>2. k \in Indices(m, StartOf(what)) /\ k < n /\ k \in Nat
      BY <1>2, <1>3, <3>1
    <3>3. ASSUME NEW x \in Indices(m, EndOf(what)), k < x, x < n PROVE FALSE
      BY <1>2, <1>3, <3>1, <3>2, <3>3
    <3> QED
      BY <2>2, <3>2, <3>3
  <2> QED
    BY <1>3, <2>1, <2>2
<1>5. EndsAreDue(m, "turn") /\ EndsAreDue(m, "step")
  <2>1. EndsAreDue(l, "turn") /\ EndsAreDue(l, "step")
    BY DEF Sound
  <2>2. e.type = EndOf("turn") => LeftOpen(l, "turn")
    BY DEF Welcome, EndOf
  <2>3. e.type = EndOf("step") => LeftOpen(l, "step")
    BY DEF Welcome, EndOf
  <2> QED
    BY <1>4, <2>1, <2>2, <2>3
<1>6. Voiced(m)
  <2> SUFFICES ASSUME NEW i \in 1 .. n, ToolEvent(m[i]), m[i].by = "run" PROVE Voice(m, i, m[i].task)
    BY <1>2 DEF Voiced
  <2>1. Voice(l, i, m[i].task)
    <3>1. CASE i \in 1 .. n - 1
      BY <1>2, <3>1 DEF Sound, Voiced
    <3>2. CASE i = n
      BY <1>1, <1>2, <3>2 DEF Welcome, Said
    <3> QED
      BY <1>2, <3>1, <3>2
  <2>2. PICK j \in 1 .. n - 1 : /\ j < i /\ Message(l[j]) /\ l[j].task = m[i].task
                                /\ \A k \in 1 .. n - 1 : j < k /\ k < i => ~Message(l[k])
    BY <1>2, <2>1 DEF Voice
  <2>3. \A k \in 1 .. n : j < k /\ k < i => ~Message(m[k])
    BY <1>2, <2>2
  <2>4. j \in 1 .. n /\ Message(m[j]) /\ m[j].task = m[i].task
    BY <1>2, <2>2
  <2> QED
    BY <1>2, <2>2, <2>3, <2>4 DEF Voice
<1>7. Mended(m)
  <2> SUFFICES ASSUME NEW j \in 1 .. n, NEW s \in Indices(m, "turn/start"), m[j].by = "recovery", s < j
               PROVE  \E x \in Indices(m, "turn/end") : x > s
    BY <1>2 DEF Mended
  <2>1. j # n
    BY <1>2 DEF Welcome
  <2>2. s # n /\ j \in 1 .. n - 1
    BY <1>2, <2>1
  <2>3. PICK x \in Indices(l, "turn/end") : x > s
    BY <1>2, <1>3, <2>2 DEF Sound, Mended
  <2> QED
    BY <1>3, <2>3
<1> QED
  BY <1>5, <1>6, <1>7

LEMMA Adds ==
  ASSUME NEW l, NEW e, NEW m, NEW ex, Grown(l, m, e), Sound(l, ex), Welcome(l, e, ex)
  PROVE  Sound(m, ex)
<1>1. m \in Seq(Events)
  BY DEF Grown
<1> QED
  BY <1>1, AddsTurns, AddsCalls, AddsAnswers, AddsEnds DEF Sound

-----------------------------------------------------------------------------
(* An execution's turn, as far as it has been recorded.                       *)

Of(e, ty, task, turn, step) ==
  e \in Events /\ e.by = "run" /\ e.type = ty /\ e.task = task /\ e.turn = turn /\ e.step = step

\* A turn is under way, and no call of step was recorded yet.
Ready(l, task, turn, step, ex) ==
  /\ Sound(l, ex) /\ turn \in Nat /\ step \in Nat /\ task \in Tasks
  /\ Latest(l, turn) /\ Settled(l, turn, ex) /\ Unended(l, turn) /\ LeftOpen(l, "turn")
  /\ Said(l, task) /\ StepsBelow(l, turn, step)

InStep(l, task, turn, step, ex) == Ready(l, task, turn, step, ex) /\ LeftOpen(l, "step")

Listed(left, sent) ==
  /\ sent \in Seq(Ids) /\ left \in Seq(Ids) /\ IsInjective(left)
  /\ \A k \in 1 .. Len(left) : left[k] \in Range(sent)

\* A round's calls are made, those of left are still to come.
Apart(l, turn, step, left) == \A i \in Indices(l, "call") : l[i].turn = turn =>
  l[i].step <= step /\ (l[i].step = step => l[i].id \notin Range(left))

InRound(l, task, turn, step, sent, left, ex) ==
  /\ Sound(l, ex) /\ turn \in Nat /\ step \in Nat /\ task \in Tasks
  /\ Latest(l, turn) /\ Settled(l, turn, ex) /\ Unended(l, turn) /\ LeftOpen(l, "turn") /\ LeftOpen(l, "step")
  /\ Said(l, task) /\ Manifest(l, turn, step, sent) /\ Listed(left, sent) /\ Apart(l, turn, step, left)

\* The first of left is on record, and its tool is about to run.
Due(l, turn, step, id) ==
  /\ Len(l) > 0 /\ l[Len(l)].type = "call" /\ l[Len(l)].by = "run" /\ Key(l[Len(l)]) = <<turn, step, id>>
  /\ \A r \in Indices(l, "result") : Key(l[r]) # <<turn, step, id>>

InCall(l, task, turn, step, sent, left, ex) ==
  /\ Sound(l, ex) /\ turn \in Nat /\ step \in Nat /\ task \in Tasks
  /\ Latest(l, turn) /\ Unended(l, turn) /\ LeftOpen(l, "turn") /\ LeftOpen(l, "step")
  /\ \A i \in Indices(l, "call") : l[i].turn = turn /\ i # Len(l) => IsAnswered(l, i) /\ Key(l[i]) \in ex
  /\ Said(l, task) /\ Manifest(l, turn, step, sent) /\ Listed(left, sent) /\ left # <<>>
  /\ Due(l, turn, step, left[1])
  /\ \A i \in Indices(l, "call") : l[i].turn = turn =>
       l[i].step <= step /\ (l[i].step = step /\ i # Len(l) => l[i].id \notin Range(left))

\* An event that is no call, no result and no start of a turn.
Plainly(e) == e.type \in {"user", "assistant", "step/start", "step/end", "turn/end"}

Spoken(l, m, e, ty, task, turn, step, ex) ==
  /\ Sound(m, ex) /\ Latest(m, turn) /\ Settled(m, turn, ex)
  /\ Unended(l, turn) /\ ty # "turn/end" => Unended(m, turn)
  /\ LeftOpen(l, "turn") /\ ty # "turn/end" => LeftOpen(m, "turn")
  /\ (LeftOpen(l, "step") /\ ty # "step/end") \/ ty = "step/start" => LeftOpen(m, "step")
  /\ \A x : StepsBelow(l, turn, x) => StepsBelow(m, turn, x)
  /\ Message(e) \/ Said(l, task) => Said(m, task)
  /\ \A x, calls : Manifest(l, turn, x, calls) => Manifest(m, turn, x, calls)
  /\ ty = "assistant" => Manifest(m, turn, step, e.calls)

LEMMA Speaks ==
  ASSUME NEW l, NEW e, NEW m, NEW ex, Grown(l, m, e), Sound(l, ex),
         NEW task, NEW turn \in Nat, NEW step \in Nat, NEW ty, Of(e, ty, task, turn, step), Plainly(e),
         Latest(l, turn), Settled(l, turn, ex),
         ty = "assistant" => IsInjective(e.calls),
         ty = "turn/end" => LeftOpen(l, "turn"),
         ty = "step/end" => LeftOpen(l, "step")
  PROVE  Spoken(l, m, e, ty, task, turn, step, ex)
<1>0. e \in Events /\ e.by = "run" /\ e.type = ty /\ e.task = task /\ e.turn = turn /\ e.step = step /\ ~ToolEvent(e)
      /\ e.type # "turn/start" /\ e.type # "call" /\ e.type # "result"
  BY DEF Of, Plainly, ToolEvent
<1>1. PICK n : n = Len(l) + 1
  OBVIOUS
<1>2. /\ n \in Nat /\ n > 0 /\ DOMAIN l = 1 .. n - 1 /\ DOMAIN m = 1 .. n /\ m[n] = e /\ Len(m) = n
      /\ \A i \in 1 .. n - 1 : m[i] = l[i] /\ i \in 1 .. n /\ i < n
  BY <1>1 DEF Grown
<1>3. /\ \A x : \A i \in Indices(l, x) : i \in Indices(m, x) /\ i \in 1 .. n - 1 /\ m[i] = l[i] /\ i < n
      /\ \A x : \A i \in Indices(m, x) : i \in Indices(l, x) \/ (i = n /\ e.type = x)
      /\ \A x : e.type = x => n \in Indices(m, x)
  BY <1>1, <1>2, GrownIndices
<1>4. \A i \in 1 .. n - 1 : IsAnswered(l, i) => IsAnswered(m, i)
  BY <1>2, GrownAnswered
<1>5. Welcome(l, e, ex)
  BY <1>0 DEF Welcome, Latest, Settled
<1>6. Sound(m, ex)
  BY <1>5, Adds
<1>7. Latest(m, turn)
  BY <1>0, <1>2, <1>3 DEF Latest
<1>8. Settled(m, turn, ex)
  BY <1>0, <1>2, <1>3, <1>4 DEF Settled
<1>9. ASSUME Unended(l, turn), ty # "turn/end" PROVE Unended(m, turn)
  BY <1>0, <1>3, <1>9 DEF Unended
<1>10. ASSUME NEW what \in {"turn", "step"}, LeftOpen(l, what), ty # EndOf(what) PROVE LeftOpen(m, what)
  <2>1. PICK k \in Indices(l, StartOf(what)) : ~\E x \in Indices(l, EndOf(what)) : x > k
    BY <1>10 DEF LeftOpen
  <2>2. \A x \in Indices(m, EndOf(what)) : x \in Indices(l, EndOf(what))
    BY <1>0, <1>3, <1>10
  <2> QED
    BY <1>3, <2>1, <2>2 DEF LeftOpen
<1>11. ASSUME ty = "step/start" PROVE LeftOpen(m, "step")
  <2>1. n \in Indices(m, "step/start")
    BY <1>0, <1>3, <1>11
  <2>2. \A x \in Indices(m, "step/end") : ~(x > n)
    BY <1>0, <1>2, <1>3, <1>11
  <2> QED
    BY <2>1, <2>2 DEF LeftOpen, StartOf, EndOf
<1>12. LeftOpen(l, "turn") /\ ty # "turn/end" => LeftOpen(m, "turn")
  BY <1>10 DEF EndOf
<1>13. (LeftOpen(l, "step") /\ ty # "step/end") \/ ty = "step/start" => LeftOpen(m, "step")
  BY <1>10, <1>11 DEF EndOf
<1>14. ASSUME NEW x, StepsBelow(l, turn, x) PROVE StepsBelow(m, turn, x)
  BY <1>0, <1>3, <1>14 DEF StepsBelow
<1>15. ASSUME Message(e) PROVE Said(m, task)
  <2>1. n \in DOMAIN m /\ n < Len(m) + 1 /\ Message(m[n]) /\ m[n].task = task
    BY <1>0, <1>2, <1>15
  <2>2. \A k \in DOMAIN m : ~(n < k /\ k < Len(m) + 1)
    BY <1>2
  <2> QED
    BY <2>1, <2>2 DEF Said, Voice
<1>16. ASSUME ~Message(e), Said(l, task) PROVE Said(m, task)
  <2>1. PICK j \in 1 .. n - 1 : Message(l[j]) /\ l[j].task = task /\ \A k \in 1 .. n - 1 : j < k => ~Message(l[k])
    BY <1>1, <1>2, <1>16 DEF Said, Voice
  <2>2. j \in 1 .. n /\ j < n + 1 /\ Message(m[j]) /\ m[j].task = task
    BY <1>2, <2>1
  <2>3. \A k \in 1 .. n : j < k /\ k < n + 1 => ~Message(m[k])
    BY <1>2, <1>16, <2>1
  <2> QED
    BY <1>2, <2>2, <2>3 DEF Said, Voice
<1>17. ASSUME NEW x, NEW calls, Manifest(l, turn, x, calls) PROVE Manifest(m, turn, x, calls)
  BY <1>3, <1>17 DEF Manifest
<1>18. ASSUME ty = "assistant" PROVE Manifest(m, turn, step, e.calls)
  BY <1>0, <1>2, <1>3, <1>18 DEF Manifest
<1> QED
  BY <1>6, <1>7, <1>8, <1>9, <1>12, <1>13, <1>14, <1>15, <1>16, <1>17, <1>18 DEF Spoken

LEMMA EmptyRange == \A s : DOMAIN s = {} => Range(s) = {}
BY DEF Range

\* The records of a step.
LEMMA StepStarts ==
  ASSUME NEW l, NEW e, NEW m, NEW ex, Grown(l, m, e), NEW task, NEW turn, NEW step,
         Ready(l, task, turn, step, ex), Of(e, "step/start", task, turn, step)
  PROVE  InStep(m, task, turn, step, ex)
<1>1. Plainly(e) /\ ~Message(e)
  BY DEF Of, Plainly, Message
<1>2. Spoken(l, m, e, "step/start", task, turn, step, ex)
  BY <1>1, Speaks DEF Ready
<1> QED
  BY <1>1, <1>2 DEF Ready, InStep, Spoken

LEMMA MessageAdds ==
  ASSUME NEW l, NEW e, NEW m, NEW ex, Grown(l, m, e), NEW task, NEW turn, NEW step,
         InStep(l, task, turn, step, ex), Of(e, "assistant", task, turn, step), IsInjective(e.calls)
  PROVE  InStep(m, task, turn, step, ex) /\ Manifest(m, turn, step, e.calls)
<1>1. Plainly(e) /\ Message(e)
  BY DEF Of, Plainly, Message
<1>2. Spoken(l, m, e, "assistant", task, turn, step, ex)
  BY <1>1, Speaks DEF Ready, InStep
<1> QED
  BY <1>1, <1>2 DEF Ready, InStep, Spoken

LEMMA BelowNext ==
  ASSUME NEW l, InNat(l), NEW turn, NEW step \in Nat,
         \A i \in Indices(l, "call") : l[i].turn = turn => l[i].step <= step
  PROVE  StepsBelow(l, turn, step + 1)
<1>1. ASSUME NEW i \in Indices(l, "call"), l[i].turn = turn PROVE l[i].step < step + 1
  <2>1. l[i].step \in Nat /\ l[i].step <= step
    BY <1>1 DEF InNat, Indices
  <2> QED
    BY <2>1
<1> QED
  BY <1>1 DEF StepsBelow

LEMMA StepEnds ==
  ASSUME NEW l, NEW e, NEW m, NEW ex, Grown(l, m, e), NEW task, NEW turn, NEW step,
         InStep(l, task, turn, step, ex), Of(e, "step/end", task, turn, step)
  PROVE  Ready(m, task, turn, step + 1, ex)
<1>1. Plainly(e) /\ ~Message(e)
  BY DEF Of, Plainly, Message
<1>2. /\ Sound(m, ex) /\ Latest(m, turn) /\ Settled(m, turn, ex) /\ Unended(m, turn) /\ LeftOpen(m, "turn")
      /\ Said(m, task) /\ StepsBelow(m, turn, step) /\ turn \in Nat /\ step \in Nat /\ task \in Tasks
  <2>1. Spoken(l, m, e, "step/end", task, turn, step, ex)
    BY <1>1, Speaks DEF Ready, InStep
  <2> QED
    BY <1>1, <2>1 DEF Ready, InStep, Spoken
<1>3. \A i \in Indices(m, "call") : m[i].turn = turn => m[i].step <= step
  <2>1. InNat(m)
    BY <1>2 DEF Sound
  <2> QED
    BY <1>2, <2>1 DEF StepsBelow, InNat, Indices
<1>4. StepsBelow(m, turn, step + 1)
  BY <1>2, <1>3, BelowNext DEF Sound
<1> QED
  BY <1>2, <1>4 DEF Ready

LEMMA RoundEnds ==
  ASSUME NEW l, NEW e, NEW m, NEW ex, Grown(l, m, e), NEW task, NEW turn, NEW step, NEW sent, NEW left,
         InRound(l, task, turn, step, sent, left, ex), Of(e, "step/end", task, turn, step)
  PROVE  Ready(m, task, turn, step + 1, ex)
<1>1. Plainly(e) /\ ~Message(e) /\ ~ToolEvent(e)
  BY DEF Of, Plainly, Message, ToolEvent
<1>2. /\ Sound(m, ex) /\ Latest(m, turn) /\ Settled(m, turn, ex) /\ Unended(m, turn) /\ LeftOpen(m, "turn")
      /\ Said(m, task) /\ turn \in Nat /\ step \in Nat /\ task \in Tasks
  <2>1. Spoken(l, m, e, "step/end", task, turn, step, ex)
    BY <1>1, Speaks DEF InRound
  <2> QED
    BY <1>1, <2>1 DEF InRound, Spoken
<1>3. \A i \in Indices(m, "call") : m[i].turn = turn => m[i].step <= step
  <2>1. \A i \in Indices(m, "call") : i \in Indices(l, "call") /\ m[i] = l[i]
    BY GrownIndices DEF Of
  <2> QED
    BY <2>1 DEF InRound, Apart
<1>4. StepsBelow(m, turn, step + 1)
  BY <1>2, <1>3, BelowNext DEF Sound
<1> QED
  BY <1>2, <1>4 DEF Ready

\* The end of a turn, wherever it is.
LEMMA TurnEnds ==
  ASSUME NEW l, NEW e, NEW m, NEW ex, Grown(l, m, e), NEW task, NEW turn \in Nat, NEW step \in Nat,
         Sound(l, ex), Latest(l, turn), Settled(l, turn, ex), LeftOpen(l, "turn"), Of(e, "turn/end", task, turn, step)
  PROVE  Sound(m, ex)
<1>1. Plainly(e)
  BY DEF Of, Plainly
<1>2. Spoken(l, m, e, "turn/end", task, turn, step, ex)
  BY <1>1, Speaks
<1> QED
  BY <1>2 DEF Spoken

\* A round begins.
LEMMA RoundBegins ==
  ASSUME NEW l, NEW ex, NEW task, NEW turn, NEW step, NEW sent \in Seq(Ids), IsInjective(sent),
         InStep(l, task, turn, step, ex), Manifest(l, turn, step, sent)
  PROVE  InRound(l, task, turn, step, sent, sent, ex)
<1>1. Listed(sent, sent)
  <2>1. \A k \in 1 .. Len(sent) : k \in DOMAIN sent
    OBVIOUS
  <2> QED
    BY <2>1 DEF Listed, Range
<1>2. Apart(l, turn, step, sent)
  <2>1. ASSUME NEW i \in Indices(l, "call"), l[i].turn = turn PROVE l[i].step <= step /\ l[i].step # step
    <3>1. l[i].step < step /\ l[i].step \in Nat /\ step \in Nat
      BY <2>1 DEF InStep, Ready, StepsBelow, Sound, InNat, Indices
    <3> QED
      BY <3>1
  <2> QED
    BY <2>1 DEF Apart
<1> QED
  BY <1>1, <1>2 DEF InRound, InStep, Ready

\* A turn begins: its start and the user's message.
LEMMA TurnBegins ==
  ASSUME NEW l, NEW ex, Sound(l, ex), NEW task \in Tasks, NEW turn \in Nat, \A i \in DOMAIN l : l[i].turn < turn,
         NEW e, NEW m, Grown(l, m, e), Of(e, "turn/start", task, turn, 0),
         NEW f, NEW p, Grown(m, p, f), Of(f, "user", task, turn, 0)
  PROVE  Ready(p, task, turn, 0, ex)
<1>0. e \in Events /\ e.by = "run" /\ e.type = "turn/start" /\ e.turn = turn /\ e.step = 0 /\ ~ToolEvent(e)
  BY DEF Of, ToolEvent
<1>1. PICK n : n = Len(l) + 1
  OBVIOUS
<1>2. /\ n \in Nat /\ n > 0 /\ DOMAIN l = 1 .. n - 1 /\ DOMAIN m = 1 .. n /\ m[n] = e /\ Len(m) = n
      /\ \A i \in 1 .. n - 1 : m[i] = l[i] /\ i \in 1 .. n /\ i < n
  BY <1>1 DEF Grown
<1>3. /\ \A x : \A i \in Indices(l, x) : i \in Indices(m, x) /\ i \in 1 .. n - 1 /\ m[i] = l[i] /\ i < n
      /\ \A x : \A i \in Indices(m, x) : i \in Indices(l, x) \/ (i = n /\ e.type = x)
      /\ \A x : e.type = x => n \in Indices(m, x)
  BY <1>1, <1>2, GrownIndices
<1>4. \A i \in 1 .. n - 1 : l[i].turn \in Nat /\ l[i].turn < turn /\ l[i].turn <= turn /\ l[i].turn # turn
  <2> TAKE i \in 1 .. n - 1
  <2>1. l[i].turn \in Nat /\ l[i].turn < turn
    BY <1>2 DEF Sound, InNat
  <2> QED
    BY <2>1
<1>5. Welcome(l, e, ex)
  <2>1. \A i \in Indices(l, "call") : l[i].turn # e.turn
    BY <1>0, <1>3, <1>4
  <2> QED
    BY <1>0, <1>2, <1>4, <2>1 DEF Welcome
<1>6. Sound(m, ex)
  BY <1>5, Adds
<1>7. Latest(m, turn)
  BY <1>0, <1>2, <1>3, <1>4 DEF Latest
<1>8. \A i \in Indices(m, "call") : m[i].turn # turn
  BY <1>0, <1>3, <1>4
<1>9. Unended(m, turn)
  BY <1>0, <1>3, <1>4 DEF Unended
<1>10. LeftOpen(m, "turn")
  <2>1. n \in Indices(m, "turn/start")
    BY <1>0, <1>3
  <2>2. \A x \in Indices(m, "turn/end") : ~(x > n)
    BY <1>0, <1>2, <1>3
  <2> QED
    BY <2>1, <2>2 DEF LeftOpen, StartOf, EndOf
<1>11. Settled(m, turn, ex) /\ StepsBelow(m, turn, 0)
  BY <1>8 DEF Settled, StepsBelow
<1>12. Plainly(f) /\ Message(f)
  BY DEF Of, Plainly, Message
<1>13. Spoken(m, p, f, "user", task, turn, 0, ex)
  BY <1>6, <1>7, <1>11, <1>12, Speaks
<1> QED
  BY <1>9, <1>10, <1>11, <1>12, <1>13 DEF Ready, Spoken

\* What a tool event leaves of the turn it belongs to.
LEMMA ToolEventAdds ==
  ASSUME NEW l, NEW e, NEW m, NEW ex, Grown(l, m, e), Welcome(l, e, ex), Sound(l, ex), ToolEvent(e),
         NEW turn \in Nat, e.turn = turn, Latest(l, turn), Unended(l, turn), LeftOpen(l, "turn"), LeftOpen(l, "step"),
         NEW task, Said(l, task), NEW step, NEW sent, Manifest(l, turn, step, sent)
  PROVE  /\ Sound(m, ex) /\ Latest(m, turn) /\ Unended(m, turn) /\ LeftOpen(m, "turn") /\ LeftOpen(m, "step")
         /\ Said(m, task) /\ Manifest(m, turn, step, sent)
<1>0. e.type \in {"call", "result"} /\ ~Message(e)
  BY DEF ToolEvent, Message
<1>1. PICK n : n = Len(l) + 1
  OBVIOUS
<1>2. /\ n \in Nat /\ n > 0 /\ DOMAIN l = 1 .. n - 1 /\ DOMAIN m = 1 .. n /\ m[n] = e /\ Len(m) = n
      /\ \A i \in 1 .. n - 1 : m[i] = l[i] /\ i \in 1 .. n /\ i < n
  BY <1>1 DEF Grown
<1>3. /\ \A x : \A i \in Indices(l, x) : i \in Indices(m, x) /\ i \in 1 .. n - 1 /\ m[i] = l[i] /\ i < n
      /\ \A x : \A i \in Indices(m, x) : i \in Indices(l, x) \/ (i = n /\ e.type = x)
  BY <1>1, <1>2, GrownIndices
<1>4. Sound(m, ex)
  BY Adds
<1>5. Latest(m, turn)
  BY <1>2, <1>3 DEF Latest
<1>6. Unended(m, turn)
  BY <1>0, <1>3 DEF Unended
<1>7. ASSUME NEW what \in {"turn", "step"}, LeftOpen(l, what) PROVE LeftOpen(m, what)
  <2>1. PICK k \in Indices(l, StartOf(what)) : ~\E x \in Indices(l, EndOf(what)) : x > k
    BY <1>7 DEF LeftOpen
  <2>2. \A x \in Indices(m, EndOf(what)) : x \in Indices(l, EndOf(what))
    BY <1>0, <1>3 DEF EndOf
  <2> QED
    BY <1>3, <2>1, <2>2 DEF LeftOpen
<1>8. Said(m, task)
  <2>1. PICK j \in 1 .. n - 1 : Message(l[j]) /\ l[j].task = task /\ \A k \in 1 .. n - 1 : j < k => ~Message(l[k])
    BY <1>1, <1>2 DEF Said, Voice
  <2>2. j \in 1 .. n /\ j < n + 1 /\ Message(m[j]) /\ m[j].task = task
    BY <1>2, <2>1
  <2>3. \A k \in 1 .. n : j < k /\ k < n + 1 => ~Message(m[k])
    BY <1>0, <1>2, <2>1
  <2> QED
    BY <1>2, <2>2, <2>3 DEF Said, Voice
<1>9. Manifest(m, turn, step, sent)
  BY <1>3 DEF Manifest
<1> QED
  BY <1>4, <1>5, <1>6, <1>7, <1>8, <1>9

\* The first call of left goes on record.
LEMMA CallAdds ==
  ASSUME NEW l, NEW e, NEW m, NEW ex, Grown(l, m, e), NEW task, NEW turn, NEW step, NEW sent, NEW left,
         InRound(l, task, turn, step, sent, left, ex), left # <<>>,
         Of(e, "call", task, turn, step), e.id = left[1]
  PROVE  InCall(m, task, turn, step, sent, left, ex)
<1>0. /\ e \in Events /\ e.by = "run" /\ e.type = "call" /\ e.task = task /\ e.turn = turn /\ e.step = step /\ ToolEvent(e)
      /\ turn \in Nat /\ step \in Nat /\ Listed(left, sent) /\ 1 \in 1 .. Len(left) /\ 1 \in DOMAIN left
      /\ Key(e) = <<turn, step, left[1]>> /\ Sound(l, ex)
  BY DEF Of, ToolEvent, InRound, Listed, Key
<1>1. PICK n : n = Len(l) + 1
  OBVIOUS
<1>2. /\ n \in Nat /\ n > 0 /\ DOMAIN l = 1 .. n - 1 /\ DOMAIN m = 1 .. n /\ m[n] = e /\ Len(m) = n
      /\ \A i \in 1 .. n - 1 : m[i] = l[i] /\ i \in 1 .. n /\ i < n
  BY <1>1 DEF Grown
<1>3. /\ \A x : \A i \in Indices(l, x) : i \in Indices(m, x) /\ i \in 1 .. n - 1 /\ m[i] = l[i] /\ i < n
      /\ \A x : \A i \in Indices(m, x) : i \in Indices(l, x) \/ (i = n /\ e.type = x)
      /\ \A x : e.type = x => n \in Indices(m, x)
  BY <1>1, <1>2, GrownIndices
<1>4. \A i \in 1 .. n - 1 : IsAnswered(l, i) => IsAnswered(m, i)
  BY <1>2, GrownAnswered
<1>5. \A i \in Indices(l, "call") : Key(l[i]) # Key(e)
  <2>1. left[1] \in Range(left)
    BY <1>0 DEF Range
  <2> QED
    BY <1>0, <2>1 DEF Key, InRound, Apart
<1>6. \E a \in Indices(l, "assistant") : Announces(l[a], e.id) /\ l[a].turn = e.turn /\ l[a].step = e.step
  BY <1>0 DEF InRound, Manifest, Listed, Announces
<1>7. Welcome(l, e, ex)
  BY <1>0, <1>5, <1>6 DEF InRound, Welcome, Latest, Settled
<1>8. /\ Sound(m, ex) /\ Latest(m, turn) /\ Unended(m, turn) /\ LeftOpen(m, "turn") /\ LeftOpen(m, "step")
      /\ Said(m, task) /\ Manifest(m, turn, step, sent)
  BY <1>0, <1>7, ToolEventAdds DEF InRound
<1>9. \A i \in Indices(m, "call") : m[i].turn = turn /\ i # Len(m) => IsAnswered(m, i) /\ Key(m[i]) \in ex
  BY <1>2, <1>3, <1>4 DEF InRound, Settled
<1>10. Due(m, turn, step, left[1])
  <2>1. \A r \in Indices(m, "result") : r \in Indices(l, "result") /\ m[r] = l[r]
    BY <1>0, <1>3
  <2>2. ASSUME NEW r \in Indices(l, "result"), Key(l[r]) = Key(e) PROVE FALSE
    <3>1. ResultsFollow(l)
      BY <1>0 DEF Sound
    <3>2. PICK c \in Indices(l, "call") : Key(l[c]) = Key(l[r])
      BY <2>2, <3>1 DEF ResultsFollow
    <3> QED
      BY <1>5, <2>2, <3>2
  <2> QED
    BY <1>0, <1>2, <2>1, <2>2 DEF Due
<1>11. \A i \in Indices(m, "call") : m[i].turn = turn =>
         m[i].step <= step /\ (m[i].step = step /\ i # Len(m) => m[i].id \notin Range(left))
  BY <1>0, <1>2, <1>3 DEF InRound, Apart
<1> QED
  BY <1>0, <1>8, <1>9, <1>10, <1>11 DEF InCall, InRound

\* What ran before has not run less.
LEMMA SoundGrows ==
  ASSUME NEW l, NEW ex, NEW more, Sound(l, ex), ex \subseteq more
  PROVE  Sound(l, more)
BY DEF Sound, Performed

\* Its tool has run, and the result is noted.
LEMMA ResultAdds ==
  ASSUME NEW l, NEW e, NEW m, NEW ex, Grown(l, m, e), NEW task, NEW turn, NEW step, NEW sent, NEW left,
         InCall(l, task, turn, step, sent, left, ex), Of(e, "result", task, turn, step), e.id = left[1],
         NEW more, more = ex \cup {<<turn, step, left[1]>>}
  PROVE  InRound(m, task, turn, step, sent, Tail(left), more)
<1>0. /\ e \in Events /\ e.by = "run" /\ e.type = "result" /\ e.task = task /\ e.turn = turn /\ e.step = step /\ ToolEvent(e)
      /\ turn \in Nat /\ step \in Nat /\ Listed(left, sent) /\ 1 \in 1 .. Len(left) /\ 1 \in DOMAIN left
      /\ Key(e) = <<turn, step, left[1]>>
  BY DEF Of, ToolEvent, InCall, Listed, Key
<1>1. PICK n : n = Len(l) + 1
  OBVIOUS
<1>2. /\ n \in Nat /\ n > 0 /\ DOMAIN l = 1 .. n - 1 /\ DOMAIN m = 1 .. n /\ m[n] = e /\ Len(m) = n /\ Len(l) = n - 1
      /\ \A i \in 1 .. n - 1 : m[i] = l[i] /\ i \in 1 .. n /\ i < n
  BY <1>1 DEF Grown
<1>3. /\ \A x : \A i \in Indices(l, x) : i \in Indices(m, x) /\ i \in 1 .. n - 1 /\ m[i] = l[i] /\ i < n
      /\ \A x : \A i \in Indices(m, x) : i \in Indices(l, x) \/ (i = n /\ e.type = x)
      /\ \A x : e.type = x => n \in Indices(m, x)
  BY <1>1, <1>2, GrownIndices
<1>4. \A i \in 1 .. n - 1 : (IsAnswered(l, i) => IsAnswered(m, i)) /\ (Key(l[i]) = Key(e) => IsAnswered(m, i))
  BY <1>0, <1>2, GrownAnswered
<1>5. Sound(l, more)
  BY SoundGrows DEF InCall
<1>6. /\ n - 1 \in 1 .. n - 1 /\ l[n - 1].type = "call" /\ Key(l[n - 1]) = Key(e)
      /\ \A r \in Indices(l, "result") : Key(l[r]) # Key(e)
  BY <1>0, <1>2 DEF InCall, Due
<1>7. \A i \in Indices(l, "call") : l[i].turn = turn /\ i # n - 1 => IsAnswered(l, i) /\ Key(l[i]) \in more
  BY <1>2 DEF InCall
<1>8. Welcome(l, e, more)
  <2>1. n - 1 \in Indices(l, "call")
    BY <1>2, <1>6 DEF Indices
  <2>2. Key(e) \in more
    BY <1>0
  <2>3. \A i \in Indices(l, "call") : l[i].turn = turn => (IsAnswered(l, i) \/ Key(l[i]) = Key(e)) /\ Key(l[i]) \in more
    BY <1>6, <1>7, <2>2
  <2> QED
    BY <1>0, <1>6, <2>1, <2>3 DEF Welcome, InCall, Latest
<1>9. /\ Sound(m, more) /\ Latest(m, turn) /\ Unended(m, turn) /\ LeftOpen(m, "turn") /\ LeftOpen(m, "step")
      /\ Said(m, task) /\ Manifest(m, turn, step, sent)
  BY <1>0, <1>5, <1>8, ToolEventAdds DEF InCall
<1>10. \A i \in Indices(m, "call") : i \in Indices(l, "call") /\ m[i] = l[i] /\ i \in 1 .. n - 1
  BY <1>0, <1>3
<1>11. Settled(m, turn, more)
  BY <1>0, <1>4, <1>6, <1>7, <1>10 DEF Settled
<1>12. Listed(Tail(left), sent)
  <2>1. /\ Tail(left) \in Seq(Ids) /\ DOMAIN Tail(left) = 1 .. Len(left) - 1 /\ Len(Tail(left)) = Len(left) - 1
        /\ \A k \in 1 .. Len(left) - 1 : Tail(left)[k] = left[k + 1] /\ k + 1 \in 1 .. Len(left)
        /\ DOMAIN left = 1 .. Len(left)
    BY <1>0, HeadTailProperties DEF Listed
  <2>2. IsInjective(Tail(left))
    <3> SUFFICES ASSUME NEW a \in 1 .. Len(left) - 1, NEW b \in 1 .. Len(left) - 1, Tail(left)[a] = Tail(left)[b] PROVE a = b
      BY <2>1 DEF IsInjective
    <3>1. left[a + 1] = left[b + 1] /\ a + 1 \in DOMAIN left /\ b + 1 \in DOMAIN left
      BY <2>1
    <3>2. a + 1 = b + 1
      BY <1>0, <3>1 DEF Listed, IsInjective
    <3> QED
      BY <3>2
  <2> QED
    BY <1>0, <2>1, <2>2 DEF Listed
<1>13. Apart(m, turn, step, Tail(left))
  <2> SUFFICES ASSUME NEW i \in Indices(l, "call"), l[i].turn = turn
               PROVE  l[i].step <= step /\ (l[i].step = step => l[i].id \notin Range(Tail(left)))
    BY <1>10 DEF Apart
  <2>1. \A x \in Range(Tail(left)) : x \in Range(left) /\ x # left[1]
    <3> SUFFICES ASSUME NEW k \in DOMAIN Tail(left) PROVE Tail(left)[k] \in Range(left) /\ Tail(left)[k] # left[1]
      BY DEF Range
    <3>1. /\ k \in 1 .. Len(left) - 1 /\ Tail(left)[k] = left[k + 1] /\ k + 1 \in 1 .. Len(left) /\ k + 1 # 1
          /\ DOMAIN left = 1 .. Len(left)
      BY <1>0, HeadTailProperties DEF Listed
    <3> QED
      BY <1>0, <3>1 DEF Listed, IsInjective, Range
  <2>2. CASE i = n - 1
    BY <1>0, <1>6, <2>1, <2>2 DEF Key
  <2>3. CASE i # n - 1
    BY <1>2, <2>1, <2>3 DEF InCall
  <2> QED
    BY <2>2, <2>3
<1> QED
  BY <1>0, <1>9, <1>11, <1>12, <1>13 DEF InCall, InRound

-----------------------------------------------------------------------------
(* Numbers and owners are not told apart by what was said of a record.        *)

Alike(l, m) ==
  /\ m \in Seq(Events) /\ Len(m) = Len(l) /\ DOMAIN l = 1 .. Len(l) /\ DOMAIN m = 1 .. Len(l) /\ Len(l) \in Nat
  /\ \A i \in 1 .. Len(l) :
       /\ m[i].type = l[i].type /\ m[i].turn = l[i].turn /\ m[i].step = l[i].step /\ m[i].task = l[i].task
       /\ m[i].id = l[i].id /\ m[i].calls = l[i].calls /\ m[i].usage = l[i].usage /\ m[i].by = l[i].by

LEMMA AlikeFacts ==
  ASSUME NEW l, NEW m, Alike(l, m)
  PROVE  /\ \A ty : Indices(m, ty) = Indices(l, ty)
         /\ DOMAIN m = DOMAIN l
         /\ \A ty : \A i \in Indices(l, ty) : i \in DOMAIN l
         /\ \A i \in DOMAIN l : Key(m[i]) = Key(l[i]) /\ (IsAnswered(m, i) <=> IsAnswered(l, i))
         /\ \A i \in DOMAIN l : (Message(m[i]) <=> Message(l[i])) /\ (ToolEvent(m[i]) <=> ToolEvent(l[i]))
         /\ \A i \in DOMAIN l : \A id : Announces(m[i], id) <=> Announces(l[i], id)
<1>1. DOMAIN m = DOMAIN l
  BY DEF Alike
<1>2. ASSUME NEW i \in DOMAIN l PROVE /\ m[i].type = l[i].type /\ Key(m[i]) = Key(l[i]) /\ m[i].calls = l[i].calls
                                      /\ (Message(m[i]) <=> Message(l[i])) /\ (ToolEvent(m[i]) <=> ToolEvent(l[i]))
  BY <1>2 DEF Alike, Key, Message, ToolEvent
<1>3. \A ty : Indices(m, ty) = Indices(l, ty)
  BY <1>1, <1>2 DEF Indices
<1>4. \A ty : \A i \in Indices(l, ty) : i \in DOMAIN l
  BY DEF Indices
<1>5. \A i \in DOMAIN l : IsAnswered(m, i) <=> IsAnswered(l, i)
  BY <1>2, <1>3, <1>4 DEF IsAnswered
<1>6. \A i \in DOMAIN l : \A id : Announces(m[i], id) <=> Announces(l[i], id)
  BY <1>2 DEF Announces
<1> QED
  BY <1>1, <1>2, <1>3, <1>4, <1>5, <1>6

LEMMA AlikeSound ==
  ASSUME NEW l, NEW m, Alike(l, m), NEW ex, Sound(l, ex)
  PROVE  Sound(m, ex)
<1>1. /\ \A ty : Indices(m, ty) = Indices(l, ty) 
      /\ DOMAIN m = DOMAIN l
      /\ \A ty : \A i \in Indices(l, ty) : i \in DOMAIN l
      /\ \A i \in DOMAIN l : Key(m[i]) = Key(l[i]) /\ (IsAnswered(m, i) <=> IsAnswered(l, i))
      /\ \A i \in DOMAIN l : (Message(m[i]) <=> Message(l[i])) /\ (ToolEvent(m[i]) <=> ToolEvent(l[i]))
      /\ \A i \in DOMAIN l : \A id : Announces(m[i], id) <=> Announces(l[i], id)
  BY AlikeFacts
<1>2. \A i \in DOMAIN l : m[i].turn = l[i].turn /\ m[i].step = l[i].step /\ m[i].task = l[i].task
                          /\ m[i].by = l[i].by /\ m[i].calls = l[i].calls /\ m[i].id = l[i].id
  BY DEF Alike
<1>3. m \in Seq(Events)
  BY DEF Alike
<1>4. InNat(m)
  BY <1>1, <1>2 DEF Sound, InNat
<1>5. Started(m) /\ StartsAreRun(m) /\ StartsApart(m)
  BY <1>1, <1>2 DEF Sound, Started, StartsAreRun, StartsApart
<1>6. InTurns(m)
  BY <1>1, <1>2 DEF Sound, InTurns
<1>7. OneOfEach(m, "call") /\ OneOfEach(m, "result")
  BY <1>1, <1>2 DEF Sound, OneOfEach
<1>8. CallsAnnounced(m)
  BY <1>1, <1>2 DEF Sound, CallsAnnounced
<1>9. Distinctly(m)
  BY <1>1, <1>2 DEF Sound, Distinctly
<1>10. ResultsFollow(m)
  BY <1>1, <1>2 DEF Sound, ResultsFollow
<1>11. OneAtATime(m)
  BY <1>1, <1>2 DEF Sound, OneAtATime
<1>12. AllAnswered(m)
  BY <1>1, <1>2 DEF Sound, AllAnswered
<1>13. Performed(m, ex)
  BY <1>1, <1>2 DEF Sound, Performed
<1>14. EndsAreDue(m, "turn") /\ EndsAreDue(m, "step")
  BY <1>1 DEF Sound, EndsAreDue
<1>15. Voiced(m)
  BY <1>1, <1>2 DEF Sound, Voiced, Voice
<1>16. Mended(m)
  BY <1>1, <1>2 DEF Sound, Mended
<1> QED
  BY <1>3, <1>4, <1>5, <1>6, <1>7, <1>8, <1>9, <1>10, <1>11, <1>12, <1>13, <1>14, <1>15, <1>16 DEF Sound

LEMMA AlikeTurn ==
  ASSUME NEW l, NEW m, Alike(l, m), NEW ex, NEW task, NEW turn, NEW step
  PROVE  /\ Latest(l, turn) => Latest(m, turn)
         /\ Settled(l, turn, ex) => Settled(m, turn, ex)
         /\ Unended(l, turn) => Unended(m, turn)
         /\ \A what : LeftOpen(l, what) => LeftOpen(m, what)
         /\ Said(l, task) => Said(m, task)
         /\ StepsBelow(l, turn, step) => StepsBelow(m, turn, step)
         /\ \A sent : Manifest(l, turn, step, sent) => Manifest(m, turn, step, sent)
<1>1. /\ \A ty : Indices(m, ty) = Indices(l, ty) 
      /\ DOMAIN m = DOMAIN l
      /\ \A ty : \A i \in Indices(l, ty) : i \in DOMAIN l
      /\ \A i \in DOMAIN l : Key(m[i]) = Key(l[i]) /\ (IsAnswered(m, i) <=> IsAnswered(l, i))
      /\ \A i \in DOMAIN l : (Message(m[i]) <=> Message(l[i])) /\ (ToolEvent(m[i]) <=> ToolEvent(l[i]))
  BY AlikeFacts
<1>2. \A i \in DOMAIN l : m[i].turn = l[i].turn /\ m[i].step = l[i].step /\ m[i].task = l[i].task
                          /\ m[i].by = l[i].by /\ m[i].calls = l[i].calls /\ m[i].id = l[i].id
  BY DEF Alike
<1>3. Latest(l, turn) => Latest(m, turn)
  BY <1>1, <1>2 DEF Latest
<1>4. Settled(l, turn, ex) => Settled(m, turn, ex)
  BY <1>1, <1>2 DEF Settled
<1>5. Unended(l, turn) => Unended(m, turn)
  BY <1>1, <1>2 DEF Unended
<1>6. \A what : LeftOpen(l, what) => LeftOpen(m, what)
  BY <1>1 DEF LeftOpen
<1>7. Said(l, task) => Said(m, task)
  <2>1. Len(m) = Len(l)
    BY DEF Alike
  <2> QED
    BY <1>1, <1>2, <2>1 DEF Said, Voice
<1>8. StepsBelow(l, turn, step) => StepsBelow(m, turn, step)
  BY <1>1, <1>2 DEF StepsBelow
<1>9. \A sent : Manifest(l, turn, step, sent) => Manifest(m, turn, step, sent)
  BY <1>1, <1>2 DEF Manifest
<1> QED
  BY <1>3, <1>4, <1>5, <1>6, <1>7, <1>8, <1>9

LEMMA AlikeReady ==
  ASSUME NEW l, NEW m, Alike(l, m), NEW ex, NEW task, NEW turn, NEW step
  PROVE  /\ Ready(l, task, turn, step, ex) => Ready(m, task, turn, step, ex)
         /\ InStep(l, task, turn, step, ex) => InStep(m, task, turn, step, ex)
BY AlikeSound, AlikeTurn DEF Ready, InStep

LEMMA AlikeCall ==
  ASSUME NEW l, NEW m, Alike(l, m), NEW ex, NEW task, NEW turn, NEW step, NEW sent, NEW left,
         InCall(l, task, turn, step, sent, left, ex)
  PROVE  InCall(m, task, turn, step, sent, left, ex)
<1>1. /\ \A ty : Indices(m, ty) = Indices(l, ty) 
      /\ DOMAIN m = DOMAIN l
      /\ \A ty : \A i \in Indices(l, ty) : i \in DOMAIN l
      /\ \A i \in DOMAIN l : Key(m[i]) = Key(l[i]) /\ (IsAnswered(m, i) <=> IsAnswered(l, i))
  BY AlikeFacts
<1>2. \A i \in DOMAIN l : m[i].turn = l[i].turn /\ m[i].step = l[i].step /\ m[i].id = l[i].id /\ m[i].by = l[i].by /\ m[i].type = l[i].type
  BY DEF Alike
<1>3. Len(m) = Len(l) /\ DOMAIN l = 1 .. Len(l) /\ Len(l) \in Nat
  BY DEF Alike
<1>4. Sound(m, ex)
  BY AlikeSound DEF InCall
<1>5. Due(m, turn, step, left[1])
  <2>1. Len(l) \in DOMAIN l
    BY <1>3 DEF InCall, Due
  <2> QED
    BY <1>1, <1>2, <1>3, <2>1 DEF InCall, Due
<1>6. \A i \in Indices(m, "call") : m[i].turn = turn /\ i # Len(m) => IsAnswered(m, i) /\ Key(m[i]) \in ex
  BY <1>1, <1>2, <1>3 DEF InCall
<1>7. \A i \in Indices(m, "call") : m[i].turn = turn =>
         m[i].step <= step /\ (m[i].step = step /\ i # Len(m) => m[i].id \notin Range(left))
  BY <1>1, <1>2, <1>3 DEF InCall
<1> QED
  BY <1>4, <1>5, <1>6, <1>7, AlikeTurn DEF InCall

LEMMA AlikeRound ==
  ASSUME NEW l, NEW m, Alike(l, m), NEW ex, NEW task, NEW turn, NEW step, NEW sent, NEW left,
         InRound(l, task, turn, step, sent, left, ex)
  PROVE  InRound(m, task, turn, step, sent, left, ex)
<1>1. /\ Indices(m, "call") = Indices(l, "call") 
      /\ \A i \in Indices(l, "call") : i \in DOMAIN l
  BY AlikeFacts
<1>2. \A i \in DOMAIN l : m[i].turn = l[i].turn /\ m[i].step = l[i].step /\ m[i].id = l[i].id
  BY DEF Alike
<1>3. Apart(m, turn, step, left)
  BY <1>1, <1>2 DEF InRound, Apart
<1> QED
  BY <1>3, AlikeSound, AlikeTurn DEF InRound

-----------------------------------------------------------------------------
(* The record methods add to what is stored and buffered.                     *)

Recorder == [task : Tasks \cup {"none"}, pending : Seq(Events), nextSeq : Nat, seqKnown : BOOLEAN,
             turn : Nat, step : Nat]

SameRun(r, q) == q.task = r.task /\ q.turn = r.turn /\ q.seqKnown = r.seqKnown /\ q.nextSeq = r.nextSeq

\* q has e in its buffer after all that r has.
Puts(r, q, e) ==
  /\ q \in Recorder /\ SameRun(r, q) /\ e \in Events /\ q.pending = Append(r.pending, e)
  /\ \A l \in Seq(Events) : Grown(l \o r.pending, l \o q.pending, e)

LEMMA BufferGrows ==
  ASSUME NEW l \in Seq(Events), NEW p \in Seq(Events), NEW e \in Events
  PROVE  Grown(l \o p, l \o Append(p, e), e)
<1>1. l \o p \in Seq(Events)
  OBVIOUS
<1>2. l \o Append(p, e) = Append(l \o p, e)
  OBVIOUS
<1> QED
  BY <1>1, <1>2, AppendGrows

PutWell(r, ty, id, calls, usage) ==
  \E e : /\ Puts(r, Put(r, ty, id, calls, usage), e) /\ Of(e, ty, r.task, r.turn, r.step)
        /\ e.id = id /\ e.calls = calls /\ e.usage = usage /\ Put(r, ty, id, calls, usage).step = r.step

LEMMA PutIs ==
  ASSUME NEW r \in Recorder, r.task \in Tasks, NEW ty \in Types, NEW id \in Ids \cup {"none"}, NEW calls \in Seq(Ids),
         NEW usage \in Nat
  PROVE  PutWell(r, ty, id, calls, usage)
<1>1. PICK e : e = [type |-> ty, seq |-> -1, turn |-> r.turn, step |-> r.step, task |-> r.task,
      id |-> id, calls |-> calls, usage |-> usage, by |-> "run", owner |-> "none"]
  OBVIOUS
<1>2. r.turn \in Nat /\ r.step \in Nat /\ r.pending \in Seq(Events) /\ r.nextSeq \in Nat /\ r.seqKnown \in BOOLEAN
  BY DEF Recorder
<1>3. e.by = "run" /\ e.type = ty /\ e.task = r.task /\ e.turn = r.turn /\ e.step = r.step /\ e.id = id /\ e.calls = calls /\ e.usage = usage
  BY <1>1
<1>4. e \in Events
  <2>1. -1 \in Int /\ r.turn \in Int /\ r.step \in Int
    BY <1>2
  <2> QED
    BY <1>1, <2>1, Zenon DEF Events
<1>5. PICK q : q = Put(r, ty, id, calls, usage)
  OBVIOUS
<1>6. PICK p : p = Append(r.pending, e)
  OBVIOUS
<1>7. p \in Seq(Events)
  BY <1>2, <1>4, <1>6
<1>8. q = [r EXCEPT !.pending = p]
  BY <1>1, <1>5, <1>6 DEF Put
<1>9. q \in Recorder
  BY <1>7, <1>8 DEF Recorder
<1>10. q.pending = p /\ q.step = r.step /\ SameRun(r, q)
  BY <1>8 DEF Recorder, SameRun
<1>11. \A l \in Seq(Events) : Grown(l \o r.pending, l \o q.pending, e)
  BY <1>2, <1>4, <1>6, <1>10, BufferGrows
<1>12. Puts(r, q, e)
  BY <1>4, <1>6, <1>9, <1>10, <1>11 DEF Puts
<1>13. Of(e, ty, r.task, r.turn, r.step)
  BY <1>3, <1>4 DEF Of
<1> QED
  BY <1>3, <1>5, <1>10, <1>12, <1>13 DEF PutWell

LEMMA PlainIs ==
  ASSUME NEW r \in Recorder, r.task \in Tasks, NEW ty \in Types
  PROVE  \E e : Puts(r, Plain(r, ty), e) /\ Of(e, ty, r.task, r.turn, r.step) /\ e.usage = 0 /\ Plain(r, ty).step = r.step
<1>1. PICK id \in Ids \cup {"none"} : id = "none"
  OBVIOUS
<1>2. PICK calls \in Seq(Ids) : calls = <<>>
  <2>1. <<>> \in Seq(Ids)
    BY EmptySeq
  <2> QED
    BY <2>1, Zenon
<1>3. PICK usage \in Nat : usage = 0
  OBVIOUS
<1>4. PICK e : /\ Puts(r, Put(r, ty, id, calls, usage), e) /\ Of(e, ty, r.task, r.turn, r.step)
               /\ e.id = id /\ e.calls = calls /\ e.usage = usage /\ Put(r, ty, id, calls, usage).step = r.step
  BY PutIs DEF PutWell
<1>5. Plain(r, ty) = Put(r, ty, id, calls, usage)
  BY <1>1, <1>2, <1>3 DEF Plain
<1> QED
  BY <1>3, <1>4, <1>5

-----------------------------------------------------------------------------
(* The tokens of a task.                                                      *)

Cost(e, task) == IF e.type = "assistant" /\ e.task = task THEN e.usage ELSE 0

Sums(l, task, n, f) ==
  f = [i \in 0 .. n |-> IF i = 0 THEN 0
                        ELSE f[i - 1] + (IF l[i].type = "assistant" /\ l[i].task = task THEN l[i].usage ELSE 0)]

LEMMA SumOf ==
  ASSUME NEW l, NEW task, NEW n \in Nat
  PROVE  \E f : Sums(l, task, n, f)
<1>1. SUFFICES ASSUME NEW T, T = {k \in Nat : ~\E f : Sums(l, task, k, f)}, T # {} PROVE FALSE
  <2>1. PICK T : T = {k \in Nat : ~\E f : Sums(l, task, k, f)}
    OBVIOUS
  <2>2. T = {}
    BY <1>1, <2>1
  <2> QED
    BY <2>1, <2>2
<1>2. PICK k \in T : \A j \in T : k <= j
  <2>1. T \subseteq Nat
    BY <1>1
  <2> QED
    BY <1>1, <2>1, LeastOf
<1>3. k \in Nat /\ ~\E f : Sums(l, task, k, f)
  BY <1>1, <1>2
<1>4. CASE k = 0
  <2>1. PICK f : f = [i \in 0 .. 0 |-> 0]
    OBVIOUS
  <2>2. f = [i \in 0 .. 0 |-> IF i = 0 THEN 0
                        ELSE f[i - 1] + (IF l[i].type = "assistant" /\ l[i].task = task THEN l[i].usage ELSE 0)]
    BY <2>1
  <2> QED
    BY <1>3, <1>4, <2>2 DEF Sums
<1>5. CASE k > 0
  <2>1. k - 1 \in Nat /\ ~(k <= k - 1) /\ k - 1 \in 0 .. k - 1
    BY <1>3, <1>5
  <2>2. PICK g : Sums(l, task, k - 1, g)
    BY <1>1, <1>2, <2>1
  <2>3. PICK c : c = IF l[k].type = "assistant" /\ l[k].task = task THEN l[k].usage ELSE 0
    OBVIOUS
  <2>4. PICK f : f = [i \in 0 .. k |-> IF i = k THEN g[k - 1] + c ELSE g[i]]
    OBVIOUS
  <2>5. ASSUME NEW i \in 0 .. k
        PROVE  f[i] = IF i = 0 THEN 0
                      ELSE f[i - 1] + (IF l[i].type = "assistant" /\ l[i].task = task THEN l[i].usage ELSE 0)
    <3>1. CASE i = k
      <4>1. k - 1 \in 0 .. k /\ k - 1 # k /\ k \in 0 .. k /\ k # 0
        BY <1>3, <1>5
      <4>2. f[k] = g[k - 1] + c /\ f[k - 1] = g[k - 1]
        BY <2>4, <4>1
      <4> QED
        BY <2>3, <3>1, <4>1, <4>2
    <3>2. CASE i # k
      <4>1. i \in 0 .. k - 1 /\ f[i] = g[i]
        BY <1>3, <2>4, <3>2
      <4>2. g[i] = IF i = 0 THEN 0
                   ELSE g[i - 1] + (IF l[i].type = "assistant" /\ l[i].task = task THEN l[i].usage ELSE 0)
        BY <2>2, <4>1 DEF Sums
      <4>3. i # 0 => i - 1 \in 0 .. k /\ i - 1 # k
        BY <1>3, <4>1
      <4>4. i # 0 => f[i - 1] = g[i - 1]
        BY <2>4, <4>3
      <4> QED
        BY <4>1, <4>2, <4>4
    <3> QED
      BY <3>1, <3>2
  <2>6. f = [i \in 0 .. k |-> f[i]]
    BY <2>4
  <2>7. Sums(l, task, k, f)
    BY <2>5, <2>6, Zenon DEF Sums
  <2> QED
    BY <1>3, <2>7
<1> QED
  BY <1>3, <1>4, <1>5

LEMMA TokensAreSum ==
  ASSUME NEW l, NEW task, Len(l) \in Nat
  PROVE  \E f : Sums(l, task, Len(l), f) /\ Tokens(l, task) = f[Len(l)]
<1>1. PICK f : f = CHOOSE g : Sums(l, task, Len(l), g)
  OBVIOUS
<1>2. Sums(l, task, Len(l), f)
  BY <1>1, SumOf
<1>3. Tokens(l, task) = f[Len(l)]
  BY <1>1 DEF Tokens, Sums
<1> QED
  BY <1>2, <1>3

\* Two sums that agree on what they add agree.
LEMMA SumsAgree ==
  ASSUME NEW l, NEW m, NEW task, NEW n \in Nat, NEW o \in Nat, n <= o, NEW f, NEW g,
         Sums(l, task, n, f), Sums(m, task, o, g),
         \A i \in 1 .. n : l[i].type = m[i].type /\ l[i].task = m[i].task /\ l[i].usage = m[i].usage
  PROVE  f[n] = g[n]
<1>1. SUFFICES ASSUME NEW T, T = {i \in 0 .. n : f[i] # g[i]}, T # {} PROVE FALSE
  <2>1. PICK T : T = {i \in 0 .. n : f[i] # g[i]}
    OBVIOUS
  <2>2. T = {}
    BY <1>1, <2>1
  <2> QED
    BY <2>1, <2>2
<1>2. PICK i \in T : \A j \in T : i <= j
  <2>1. T \subseteq Nat
    BY <1>1
  <2> QED
    BY <1>1, <2>1, LeastOf
<1>3. i \in 0 .. n /\ i \in 0 .. o /\ f[i] # g[i]
  BY <1>1, <1>2
<1>4. CASE i = 0
  BY <1>3, <1>4 DEF Sums
<1>5. CASE i > 0
  <2>1. i - 1 \in 0 .. n /\ i - 1 < i /\ i # 0 /\ i \in 1 .. n
    BY <1>3, <1>5
  <2>2. f[i - 1] = g[i - 1]
    BY <1>1, <1>2, <2>1
  <2>3. f[i] = f[i - 1] + (IF l[i].type = "assistant" /\ l[i].task = task THEN l[i].usage ELSE 0)
    BY <1>3, <2>1 DEF Sums
  <2>4. g[i] = g[i - 1] + (IF m[i].type = "assistant" /\ m[i].task = task THEN m[i].usage ELSE 0)
    BY <1>3, <2>1 DEF Sums
  <2> QED
    BY <1>3, <2>1, <2>2, <2>3, <2>4
<1> QED
  BY <1>3, <1>4, <1>5

LEMMA TokensGrow ==
  ASSUME NEW l, NEW e, NEW m, Grown(l, m, e), NEW task
  PROVE  Tokens(m, task) = Tokens(l, task) + Cost(e, task)
<1>1. Len(m) = Len(l) + 1 /\ Len(l) \in Nat /\ Len(m) \in Nat /\ m[Len(m)] = e /\ \A i \in 1 .. Len(l) : m[i] = l[i]
  BY DEF Grown
<1>2. PICK f : Sums(l, task, Len(l), f) /\ Tokens(l, task) = f[Len(l)]
  BY <1>1, TokensAreSum
<1>3. PICK g : Sums(m, task, Len(m), g) /\ Tokens(m, task) = g[Len(m)]
  BY <1>1, TokensAreSum
<1>4. f[Len(l)] = g[Len(l)]
  <2>1. Len(l) <= Len(m)
    BY <1>1
  <2> QED
    BY <1>1, <1>2, <1>3, <2>1, SumsAgree
<1>5. g[Len(m)] = g[Len(m) - 1] + (IF m[Len(m)].type = "assistant" /\ m[Len(m)].task = task THEN m[Len(m)].usage ELSE 0)
  <2>1. Len(m) \in 0 .. Len(m) /\ Len(m) # 0
    BY <1>1
  <2> QED
    BY <1>3, <2>1 DEF Sums
<1>6. Len(m) - 1 = Len(l)
  BY <1>1
<1> QED
  BY <1>1, <1>2, <1>3, <1>4, <1>5, <1>6 DEF Cost

LEMMA TokensAlike ==
  ASSUME NEW l, NEW m, Alike(l, m), NEW task
  PROVE  Tokens(m, task) = Tokens(l, task)
<1>1. /\ Len(m) = Len(l) /\ Len(l) \in Nat /\ Len(l) <= Len(m)
      /\ \A i \in 1 .. Len(l) : l[i].type = m[i].type /\ l[i].task = m[i].task /\ l[i].usage = m[i].usage
  BY DEF Alike
<1>2. PICK f : Sums(l, task, Len(l), f) /\ Tokens(l, task) = f[Len(l)]
  BY <1>1, TokensAreSum
<1>3. PICK g : Sums(m, task, Len(m), g) /\ Tokens(m, task) = g[Len(m)]
  BY <1>1, TokensAreSum
<1> QED
  BY <1>1, <1>2, <1>3, SumsAgree

\* No event costs a task less than nothing, and only a run's message costs anything.
LEMMA CostIs ==
  ASSUME NEW e \in Events, NEW task
  PROVE  Cost(e, task) \in Nat /\ (e.type # "assistant" => Cost(e, task) = 0) /\ (e.usage = 0 => Cost(e, task) = 0)
BY DEF Cost, Events

Charged(l, s) == \A t \in Tasks : Tokens(l, t) \in 0 .. s[t]

LEMMA ChargedGrows ==
  ASSUME NEW l, NEW e \in Events, NEW m, Grown(l, m, e), NEW s \in [Tasks -> Nat], Charged(l, s),
         e.type # "assistant" \/ e.usage = 0
  PROVE  Charged(m, s)
<1> SUFFICES ASSUME NEW t \in Tasks PROVE Tokens(m, t) \in 0 .. s[t]
  BY DEF Charged
<1>1. Tokens(m, t) = Tokens(l, t) + Cost(e, t) /\ Cost(e, t) = 0
  BY TokensGrow, CostIs
<1>2. Tokens(l, t) \in 0 .. s[t] /\ s[t] \in Nat
  BY DEF Charged
<1> QED
  BY <1>1, <1>2

LEMMA ChargedMore ==
  ASSUME NEW l, NEW e \in Events, NEW m, Grown(l, m, e), NEW s \in [Tasks -> Nat], Charged(l, s),
         NEW task \in Tasks, e.task = task, e.usage = 1
  PROVE  Charged(m, [s EXCEPT ![task] = @ + 1])
<1> SUFFICES ASSUME NEW t \in Tasks PROVE Tokens(m, t) \in 0 .. [s EXCEPT ![task] = @ + 1][t]
  BY DEF Charged
<1>1. Tokens(m, t) = Tokens(l, t) + Cost(e, t) /\ Cost(e, t) \in Nat
  BY TokensGrow, CostIs
<1>2. Tokens(l, t) \in 0 .. s[t] /\ s[t] \in Nat
  BY DEF Charged
<1>3. CASE t = task
  <2>1. Cost(e, t) \in {0, 1}
    BY DEF Cost
  <2>2. [s EXCEPT ![task] = @ + 1][t] = s[t] + 1
    BY <1>3
  <2> QED
    BY <1>1, <1>2, <2>1, <2>2
<1>4. CASE t # task
  <2>1. Cost(e, t) = 0
    BY <1>4 DEF Cost
  <2>2. [s EXCEPT ![task] = @ + 1][t] = s[t]
    BY <1>4
  <2> QED
    BY <1>1, <1>2, <2>1, <2>2
<1> QED
  BY <1>3, <1>4

-----------------------------------------------------------------------------
(* The record methods, where the loop uses them.                              *)

Newer(l, turn) == \A i \in DOMAIN l : l[i].turn < turn

Opened(l, ex, s, t, q) ==
  /\ q \in Recorder /\ q.task = t /\ q.seqKnown = FALSE
  /\ Ready(l \o q.pending, q.task, q.turn, q.step, ex) /\ Charged(l \o q.pending, s)

LEMMA TurnStartIs ==
  ASSUME NEW l \in Seq(Events), NEW ex, Sound(l, ex), NEW s \in [Tasks -> Nat], Charged(l, s),
         NEW t \in Tasks, NEW turn \in Nat, Newer(l, turn),
         NEW q, q = Opening(t, turn)
  PROVE  Opened(l, ex, s, t, q)
<1>1. PICK r : r = [[NoRecorder EXCEPT !.task = t] EXCEPT !.turn = turn, !.step = 0]
  OBVIOUS
<1>2. <<>> \in Seq(Events)
  BY EmptySeq
<1>3. /\ r \in Recorder /\ r.task = t /\ r.turn = turn /\ r.step = 0 /\ r.pending = <<>> /\ r.seqKnown = FALSE
  BY <1>1, <1>2 DEF NoRecorder, Recorder
<1>4. "turn/start" \in Types /\ "user" \in Types /\ r.task \in Tasks
  BY <1>3 DEF Types
<1>5. PICK p : p = Plain(r, "turn/start")
  OBVIOUS
<1>6. q = Plain(p, "user")
  BY <1>1, <1>5 DEF Opening, recordUserMessage, recordTurnStart
<1>7. PICK e : Puts(r, p, e) /\ Of(e, "turn/start", t, turn, 0) /\ p.step = 0
  BY <1>3, <1>4, <1>5, PlainIs
<1>8. p \in Recorder /\ p.task = t /\ p.turn = turn /\ p.seqKnown = FALSE
  BY <1>3, <1>7 DEF Puts, SameRun
<1>9. PICK f : Puts(p, q, f) /\ Of(f, "user", t, turn, 0) /\ q.step = 0
  <2>1. p.task \in Tasks
    BY <1>8
  <2> QED
    BY <1>4, <1>6, <1>7, <1>8, <2>1, PlainIs
<1>10. q \in Recorder /\ q.task = t /\ q.turn = turn /\ q.seqKnown = FALSE /\ q.step = 0
  BY <1>8, <1>9 DEF Puts, SameRun
<1>11. l \o r.pending = l
  BY <1>3
<1>12. Grown(l, l \o p.pending, e) /\ Grown(l \o p.pending, l \o q.pending, f)
  BY <1>7, <1>9, <1>11 DEF Puts
<1>13. Ready(l \o q.pending, t, turn, 0, ex)
  BY <1>7, <1>9, <1>12, TurnBegins DEF Newer
<1>14. Charged(l \o q.pending, s)
  <2>1. e \in Events /\ f \in Events /\ e.type # "assistant" /\ f.type # "assistant"
    BY <1>7, <1>9 DEF Of
  <2>2. Charged(l \o p.pending, s)
    BY <1>12, <2>1, ChargedGrows
  <2> QED
    BY <1>12, <2>1, <2>2, ChargedGrows
<1> QED
  BY <1>10, <1>13, <1>14 DEF Opened

LEMMA StepStartIs ==
  ASSUME NEW l \in Seq(Events), NEW ex, NEW s \in [Tasks -> Nat], NEW r \in Recorder,
         Ready(l \o r.pending, r.task, r.turn, r.step, ex), Charged(l \o r.pending, s),
         NEW q, q = recordStepStart(r)
  PROVE  /\ q \in Recorder /\ SameRun(r, q)
         /\ InStep(l \o q.pending, q.task, q.turn, q.step, ex) /\ Charged(l \o q.pending, s)
<1>1. r.task \in Tasks
  BY DEF Ready
<1>2. PICK e : Puts(r, q, e) /\ Of(e, "step/start", r.task, r.turn, r.step) /\ q.step = r.step
  BY <1>1, PlainIs DEF recordStepStart, Types
<1>3. q \in Recorder /\ SameRun(r, q) /\ Grown(l \o r.pending, l \o q.pending, e) /\ e \in Events /\ e.type # "assistant"
  BY <1>2 DEF Puts, Of
<1>4. InStep(l \o q.pending, r.task, r.turn, r.step, ex)
  BY <1>2, <1>3, StepStarts
<1>5. Charged(l \o q.pending, s)
  BY <1>3, ChargedGrows
<1> QED
  BY <1>2, <1>3, <1>4, <1>5 DEF SameRun

Messaged(l, ex, s, r, calls, usage, q) ==
  /\ q \in Recorder /\ SameRun(r, q) /\ q.step = r.step
  /\ InStep(l \o q.pending, q.task, q.turn, q.step, ex) /\ Manifest(l \o q.pending, q.turn, q.step, calls)
  /\ usage = 0 => Charged(l \o q.pending, s)
  /\ usage = 1 => Charged(l \o q.pending, [s EXCEPT ![r.task] = @ + 1])

LEMMA MessageIs ==
  ASSUME NEW l \in Seq(Events), NEW ex, NEW s \in [Tasks -> Nat], NEW r \in Recorder,
         InStep(l \o r.pending, r.task, r.turn, r.step, ex), Charged(l \o r.pending, s),
         NEW calls \in Seq(Ids), IsInjective(calls), NEW usage \in Nat,
         NEW q, q = recordAssistantMessage(r, calls, usage)
  PROVE  Messaged(l, ex, s, r, calls, usage, q)
<1>1. r.task \in Tasks
  BY DEF InStep, Ready
<1>2. PICK e : /\ Puts(r, q, e) /\ Of(e, "assistant", r.task, r.turn, r.step)
               /\ e.calls = calls /\ e.usage = usage /\ q.step = r.step
  <2>1. PICK ty \in Types : ty = "assistant"
    BY DEF Types
  <2>2. PICK id \in Ids \cup {"none"} : id = "none"
    OBVIOUS
  <2>3. q = Put(r, ty, id, calls, usage) /\ usage \in Nat
    BY <2>1, <2>2 DEF recordAssistantMessage
  <2>4. PICK e : /\ Puts(r, Put(r, ty, id, calls, usage), e) /\ Of(e, ty, r.task, r.turn, r.step)
                 /\ e.id = id /\ e.calls = calls /\ e.usage = usage /\ Put(r, ty, id, calls, usage).step = r.step
    <3>1. PutWell(r, ty, id, calls, usage)
      BY <1>1, <2>3, PutIs
    <3> QED
      BY <3>1 DEF PutWell
  <2> QED
    BY <2>1, <2>3, <2>4
<1>3. q \in Recorder /\ SameRun(r, q) /\ Grown(l \o r.pending, l \o q.pending, e) /\ e \in Events /\ e.task = r.task
  BY <1>2 DEF Puts, Of
<1>4. InStep(l \o q.pending, r.task, r.turn, r.step, ex) /\ Manifest(l \o q.pending, r.turn, r.step, calls)
  <2>1. PICK a, b : a = l \o r.pending /\ b = l \o q.pending
    OBVIOUS
  <2>2. Grown(a, b, e) /\ InStep(a, r.task, r.turn, r.step, ex)
    BY <1>3, <2>1
  <2>3. Of(e, "assistant", r.task, r.turn, r.step) /\ IsInjective(e.calls) /\ e.calls = calls
    BY <1>2
  <2>4. InStep(b, r.task, r.turn, r.step, ex) /\ Manifest(b, r.turn, r.step, e.calls)
    BY <2>2, <2>3, MessageAdds
  <2> QED
    BY <2>1, <2>3, <2>4
<1>5. usage = 0 => Charged(l \o q.pending, s)
  BY <1>2, <1>3, ChargedGrows
<1>6. usage = 1 => Charged(l \o q.pending, [s EXCEPT ![r.task] = @ + 1])
  BY <1>1, <1>2, <1>3, ChargedMore
<1> QED
  BY <1>2, <1>3, <1>4, <1>5, <1>6 DEF SameRun, Messaged

LEMMA StepEndPuts ==
  ASSUME NEW r \in Recorder, r.task \in Tasks, NEW q, q = recordStepEnd(r)
  PROVE  \E e : /\ Of(e, "step/end", r.task, r.turn, r.step) /\ q \in Recorder /\ SameRun(r, q) /\ q.step = r.step + 1
                /\ \A l \in Seq(Events) : Grown(l \o r.pending, l \o q.pending, e)
<1>1. PICK p : p = Plain(r, "step/end")
  OBVIOUS
<1>2. PICK e : Puts(r, p, e) /\ Of(e, "step/end", r.task, r.turn, r.step) /\ p.step = r.step
  BY <1>1, PlainIs DEF Types
<1>3. p \in Recorder /\ SameRun(r, p) /\ \A l \in Seq(Events) : Grown(l \o r.pending, l \o p.pending, e)
  BY <1>2 DEF Puts
<1>4. q = [p EXCEPT !.step = @ + 1]
  BY <1>1 DEF recordStepEnd
<1>5. q \in Recorder /\ SameRun(p, q) /\ q.pending = p.pending /\ q.step = p.step + 1
  BY <1>3, <1>4 DEF Recorder, SameRun
<1> QED
  BY <1>2, <1>3, <1>5 DEF SameRun

LEMMA StepEndIs ==
  ASSUME NEW l \in Seq(Events), NEW ex, NEW s \in [Tasks -> Nat], NEW r \in Recorder,
         InStep(l \o r.pending, r.task, r.turn, r.step, ex), Charged(l \o r.pending, s),
         NEW q, q = recordStepEnd(r)
  PROVE  /\ q \in Recorder /\ SameRun(r, q)
         /\ Ready(l \o q.pending, q.task, q.turn, q.step, ex) /\ Charged(l \o q.pending, s)
<1>1. r.task \in Tasks
  BY DEF InStep, Ready
<1>2. PICK e : /\ Of(e, "step/end", r.task, r.turn, r.step) /\ q \in Recorder /\ SameRun(r, q) /\ q.step = r.step + 1
               /\ Grown(l \o r.pending, l \o q.pending, e)
  BY <1>1, StepEndPuts
<1>3. e \in Events /\ e.type # "assistant"
  BY <1>2 DEF Of
<1>4. Ready(l \o q.pending, r.task, r.turn, r.step + 1, ex)
  BY <1>2, StepEnds
<1>5. Charged(l \o q.pending, s)
  BY <1>2, <1>3, ChargedGrows
<1> QED
  BY <1>2, <1>4, <1>5 DEF SameRun

LEMMA RoundEndIs ==
  ASSUME NEW l \in Seq(Events), NEW ex, NEW s \in [Tasks -> Nat], NEW r \in Recorder, NEW a, NEW calls,
         InRound(l \o r.pending, r.task, r.turn, r.step, a, calls, ex), Charged(l \o r.pending, s),
         NEW q, q = recordStepEnd(r)
  PROVE  /\ q \in Recorder /\ SameRun(r, q)
         /\ Ready(l \o q.pending, q.task, q.turn, q.step, ex) /\ Charged(l \o q.pending, s)
<1>1. r.task \in Tasks
  BY DEF InRound
<1>2. PICK e : /\ Of(e, "step/end", r.task, r.turn, r.step) /\ q \in Recorder /\ SameRun(r, q) /\ q.step = r.step + 1
               /\ Grown(l \o r.pending, l \o q.pending, e)
  BY <1>1, StepEndPuts
<1>3. e \in Events /\ e.type # "assistant"
  BY <1>2 DEF Of
<1>4. Ready(l \o q.pending, r.task, r.turn, r.step + 1, ex)
  BY <1>2, RoundEnds
<1>5. Charged(l \o q.pending, s)
  BY <1>2, <1>3, ChargedGrows
<1> QED
  BY <1>2, <1>4, <1>5 DEF SameRun

LEMMA TurnEndIs ==
  ASSUME NEW l \in Seq(Events), NEW ex, NEW s \in [Tasks -> Nat], NEW r \in Recorder,
         Ready(l \o r.pending, r.task, r.turn, r.step, ex), Charged(l \o r.pending, s),
         NEW q, q = recordTurnEnd(r)
  PROVE  /\ q \in Recorder /\ SameRun(r, q) /\ Sound(l \o q.pending, ex) /\ Charged(l \o q.pending, s)
<1>1. r.task \in Tasks
  BY DEF Ready
<1>2. PICK e : Puts(r, q, e) /\ Of(e, "turn/end", r.task, r.turn, r.step)
  BY <1>1, PlainIs DEF recordTurnEnd, Types
<1>3. q \in Recorder /\ SameRun(r, q) /\ Grown(l \o r.pending, l \o q.pending, e) /\ e \in Events /\ e.type # "assistant"
  BY <1>2 DEF Puts, Of
<1>4. Sound(l \o q.pending, ex)
  BY <1>2, <1>3, TurnEnds DEF Ready
<1>5. Charged(l \o q.pending, s)
  BY <1>3, ChargedGrows
<1> QED
  BY <1>3, <1>4, <1>5

\* The buffer of a run that waits to dispatch a call: the call is its last event.
Calling(r, id) == \E p \in Seq(Events), e \in Events :
  r.pending = Append(p, e) /\ Of(e, "call", r.task, r.turn, r.step) /\ e.id = id

LEMMA CallIs ==
  ASSUME NEW r \in Recorder, r.task \in Tasks, NEW id \in Ids, NEW q, q = recordToolCall(r, id)
  PROVE  /\ q \in Recorder /\ SameRun(r, q) /\ q.step = r.step /\ Calling(q, id)
         /\ SubSeq(q.pending, 1, Len(q.pending) - 1) = r.pending
<1>1. <<>> \in Seq(Ids) /\ id \in Ids \cup {"none"}
  BY EmptySeq
<1>2. PICK e : Puts(r, q, e) /\ Of(e, "call", r.task, r.turn, r.step) /\ e.id = id /\ q.step = r.step
  <2>1. PICK ty \in Types : ty = "call"
    BY DEF Types
  <2>2. PICK none \in Seq(Ids) : none = <<>>
    BY <1>1, Zenon
  <2>3. PICK usage \in Nat : usage = 0
    OBVIOUS
  <2>4. q = Put(r, ty, id, none, usage) /\ id \in Ids \cup {"none"}
    BY <1>1, <2>1, <2>2, <2>3 DEF recordToolCall
  <2>5. PICK e : /\ Puts(r, Put(r, ty, id, none, usage), e) /\ Of(e, ty, r.task, r.turn, r.step)
                 /\ e.id = id /\ e.calls = none /\ e.usage = usage /\ Put(r, ty, id, none, usage).step = r.step
    <3>1. PutWell(r, ty, id, none, usage)
      BY <1>1, <2>4, PutIs
    <3> QED
      BY <3>1 DEF PutWell
  <2> QED
    BY <2>1, <2>4, <2>5
<1>3. q \in Recorder /\ SameRun(r, q) /\ q.pending = Append(r.pending, e) /\ e \in Events /\ r.pending \in Seq(Events)
  BY <1>2 DEF Puts, Of, Recorder
<1>4. SubSeq(q.pending, 1, Len(q.pending) - 1) = r.pending
  BY <1>3
<1> QED
  BY <1>2, <1>3, <1>4 DEF SameRun, Calling

LEMMA ResultIs ==
  ASSUME NEW l \in Seq(Events), NEW ex, NEW s \in [Tasks -> Nat], NEW r \in Recorder, NEW a, NEW calls,
         InCall(l \o r.pending, r.task, r.turn, r.step, a, calls, ex), Charged(l \o r.pending, s),
         NEW q, q = recordToolResult(r, Head(calls))
  PROVE  /\ q \in Recorder /\ SameRun(r, q) /\ Charged(l \o q.pending, s)
         /\ InRound(l \o q.pending, q.task, q.turn, q.step, a, Tail(calls), ex \cup {<<r.turn, r.step, Head(calls)>>})
<1>1. r.task \in Tasks /\ calls \in Seq(Ids) /\ calls # <<>>
  BY DEF InCall, Listed
<1>2. <<>> \in Seq(Ids) /\ Head(calls) \in Ids \cup {"none"} /\ Head(calls) = calls[1]
  BY <1>1, EmptySeq
<1>3. PICK id : id = Head(calls)
  OBVIOUS
<1>4. PICK e : Puts(r, q, e) /\ Of(e, "result", r.task, r.turn, r.step) /\ e.id = id /\ q.step = r.step
  <2>1. PICK ty \in Types : ty = "result"
    BY DEF Types
  <2>2. PICK none \in Seq(Ids) : none = <<>>
    BY <1>2, Zenon
  <2>3. PICK usage \in Nat : usage = 0
    OBVIOUS
  <2>4. q = Put(r, ty, id, none, usage) /\ id \in Ids \cup {"none"}
    BY <1>1, <1>2, <1>3, <2>1, <2>2, <2>3 DEF recordToolResult
  <2>5. PICK e : /\ Puts(r, Put(r, ty, id, none, usage), e) /\ Of(e, ty, r.task, r.turn, r.step)
                 /\ e.id = id /\ e.calls = none /\ e.usage = usage /\ Put(r, ty, id, none, usage).step = r.step
    <3>1. PutWell(r, ty, id, none, usage)
      BY <1>1, <2>4, PutIs
    <3> QED
      BY <3>1 DEF PutWell
  <2> QED
    BY <2>1, <2>4, <2>5
<1>5. q \in Recorder /\ SameRun(r, q) /\ Grown(l \o r.pending, l \o q.pending, e) /\ e \in Events /\ e.type # "assistant"
  BY <1>4 DEF Puts, Of
<1>6. InRound(l \o q.pending, r.task, r.turn, r.step, a, Tail(calls), ex \cup {<<r.turn, r.step, Head(calls)>>})
  BY <1>2, <1>3, <1>4, <1>5, ResultAdds
<1>7. Charged(l \o q.pending, s)
  BY <1>5, ChargedGrows
<1> QED
  BY <1>4, <1>5, <1>6, <1>7 DEF SameRun

-----------------------------------------------------------------------------
(* The ids of a response, once each.                                          *)

Picks(calls, n, f) ==
  f = [i \in 0 .. n |->
        IF i = 0 THEN <<>>
        ELSE Append(f[i - 1],
               IF calls[i] \in Range(f[i - 1])
               THEN CHOOSE id \in Ids : id \notin Range(f[i - 1]) \cup Range(calls)
               ELSE calls[i])]

LEMMA PicksOf ==
  ASSUME NEW calls, NEW n \in Nat
  PROVE  \E f : Picks(calls, n, f)
<1>1. SUFFICES ASSUME NEW T, T = {k \in Nat : ~\E f : Picks(calls, k, f)}, T # {} PROVE FALSE
  <2>1. PICK T : T = {k \in Nat : ~\E f : Picks(calls, k, f)}
    OBVIOUS
  <2>2. T = {}
    BY <1>1, <2>1
  <2> QED
    BY <2>1, <2>2
<1>2. PICK k \in T : \A j \in T : k <= j
  <2>1. T \subseteq Nat
    BY <1>1
  <2> QED
    BY <1>1, <2>1, LeastOf
<1>3. k \in Nat /\ ~\E f : Picks(calls, k, f)
  BY <1>1, <1>2
<1> DEFINE Pick(i, before) ==
             Append(before, IF calls[i] \in Range(before)
                            THEN CHOOSE id \in Ids : id \notin Range(before) \cup Range(calls)
                            ELSE calls[i])
<1>4. CASE k = 0
  <2>1. PICK f : f = [i \in 0 .. 0 |-> <<>>]
    OBVIOUS
  <2>2. f = [i \in 0 .. 0 |-> IF i = 0 THEN <<>> ELSE Pick(i, f[i - 1])]
    <3> HIDE DEF Pick
    <3> QED
      BY <2>1
  <2> QED
    BY <1>3, <1>4, <2>2 DEF Picks
<1>5. CASE k > 0
  <2>1. k - 1 \in Nat /\ ~(k <= k - 1) /\ k - 1 \in 0 .. k - 1
    BY <1>3, <1>5
  <2>2. PICK g : Picks(calls, k - 1, g)
    BY <1>1, <1>2, <2>1
  <2>3. \A i \in 0 .. k - 1 : g[i] = IF i = 0 THEN <<>> ELSE Pick(i, g[i - 1])
    BY <2>2 DEF Picks
  <2> HIDE DEF Pick
  <2>4. PICK f : f = [i \in 0 .. k |-> IF i = k THEN Pick(k, g[k - 1]) ELSE g[i]]
    OBVIOUS
  <2>5. ASSUME NEW i \in 0 .. k
        PROVE  f[i] = IF i = 0 THEN <<>> ELSE Pick(i, f[i - 1])
    <3>1. CASE i = k
      <4>1. k - 1 \in 0 .. k /\ k - 1 # k /\ k \in 0 .. k /\ k # 0
        BY <1>3, <1>5
      <4>2. f[k] = Pick(k, g[k - 1]) /\ f[k - 1] = g[k - 1]
        BY <2>4, <4>1
      <4> QED
        BY <3>1, <4>1, <4>2
    <3>2. CASE i # k
      <4>1. i \in 0 .. k - 1 /\ f[i] = g[i]
        BY <1>3, <2>4, <3>2
      <4>2. i # 0 => i - 1 \in 0 .. k /\ i - 1 # k
        BY <1>3, <4>1
      <4>3. i # 0 => f[i - 1] = g[i - 1]
        BY <2>4, <4>2
      <4> QED
        BY <2>3, <4>1, <4>3
    <3> QED
      BY <3>1, <3>2
  <2>6. f = [i \in 0 .. k |-> f[i]]
    BY <2>4
  <2>7. f = [i \in 0 .. k |-> IF i = 0 THEN <<>> ELSE Pick(i, f[i - 1])]
    BY <2>5, <2>6, Zenon
  <2>8. Picks(calls, k, f)
    BY <2>7, Zenon DEF Picks, Pick
  <2> QED
    BY <1>3, <2>8
<1> QED
  BY <1>3, <1>4, <1>5

Distinct(s, i) == s \in Seq(Ids) /\ Len(s) = i /\ IsInjective(s) /\ IsFiniteSet(Range(s)) /\ Cardinality(Range(s)) <= i

LEMMA DistinctGrows ==
  ASSUME NEW i \in Nat, NEW s, Distinct(s, i), NEW id \in Ids, id \notin Range(s)
  PROVE  Distinct(Append(s, id), i + 1)
<1>1. PICK t : t = Append(s, id)
  OBVIOUS
<1>2. /\ t \in Seq(Ids) /\ Len(t) = i + 1 /\ DOMAIN t = 1 .. i + 1 /\ t[i + 1] = id /\ DOMAIN s = 1 .. i
      /\ \A k \in 1 .. i : t[k] = s[k] /\ s[k] \in Range(s) /\ k \in 1 .. i + 1
      /\ \A k \in 1 .. i + 1 : k = i + 1 \/ k \in 1 .. i
  BY <1>1 DEF Distinct, Range
<1>3. IsInjective(t)
  BY <1>2 DEF Distinct, IsInjective
<1>4. Range(t) = Range(s) \cup {id}
  <2>1. ASSUME NEW x \in Range(t) PROVE x \in Range(s) \cup {id}
    BY <1>2, <2>1 DEF Range
  <2>2. id \in Range(t)
    <3>1. i + 1 \in DOMAIN t
      BY <1>2
    <3> QED
      BY <1>2, <3>1 DEF Range
  <2>3. ASSUME NEW x \in Range(s) PROVE x \in Range(t)
    BY <1>2, <2>3 DEF Range
  <2> QED
    BY <2>1, <2>2, <2>3
<1>5. /\ IsFiniteSet(Range(t)) /\ Cardinality(Range(t)) = Cardinality(Range(s)) + 1
      /\ Cardinality(Range(s)) \in Nat
  BY <1>4, FS_AddElement, FS_CardinalityType DEF Distinct
<1>6. Cardinality(Range(t)) <= i + 1
  BY <1>5 DEF Distinct
<1> QED
  BY <1>1, <1>2, <1>3, <1>5, <1>6 DEF Distinct

LEMMA DisambiguatedIs ==
  ASSUME NEW calls \in Answers
  PROVE  Disambiguated(calls) \in Seq(Ids) /\ IsInjective(Disambiguated(calls))
<1>1. calls \in Seq(Ids) /\ Len(calls) \in Nat
  BY RecorderAssumption
<1>2. PICK f : f = CHOOSE g : Picks(calls, Len(calls), g)
  OBVIOUS
<1>3. Picks(calls, Len(calls), f)
  BY <1>1, <1>2, PicksOf
<1>4. Disambiguated(calls) = f[Len(calls)]
  BY <1>2 DEF Disambiguated, Picks
<1>5. \A i \in 0 .. Len(calls) : Distinct(f[i], i)
  <2>1. SUFFICES ASSUME NEW T, T = {i \in 0 .. Len(calls) : ~Distinct(f[i], i)}, T # {} PROVE FALSE
    <3>1. PICK T : T = {i \in 0 .. Len(calls) : ~Distinct(f[i], i)}
      OBVIOUS
    <3>2. T = {}
      BY <2>1, <3>1
    <3> QED
      BY <3>1, <3>2
  <2>2. PICK i \in T : \A j \in T : i <= j
    <3>1. T \subseteq Nat
      BY <2>1
    <3> QED
      BY <2>1, <3>1, LeastOf
  <2>3. i \in 0 .. Len(calls) /\ ~Distinct(f[i], i)
    BY <2>1, <2>2
  <2>4. CASE i = 0
    <3>1. f[0] = <<>>
      BY <1>1, <1>3 DEF Picks
    <3>2. <<>> \in Seq(Ids) /\ Len(<<>>) = 0 /\ IsInjective(<<>>) /\ Range(<<>>) = {}
      BY EmptySeq DEF IsInjective, Range
    <3>3. IsFiniteSet({}) /\ Cardinality({}) <= 0
      BY FS_EmptySet
    <3> QED
      BY <2>3, <2>4, <3>1, <3>2, <3>3 DEF Distinct
  <2>5. CASE i > 0
    <3>1. i - 1 \in 0 .. Len(calls) /\ i - 1 < i /\ i # 0 /\ i \in 1 .. Len(calls) /\ i - 1 \in Nat
      BY <2>3, <2>5
    <3>2. PICK s : s = f[i - 1]
      OBVIOUS
    <3>3. Distinct(s, i - 1)
      BY <2>1, <2>2, <3>1, <3>2
    <3>4. PICK id : id = IF calls[i] \in Range(s) THEN CHOOSE x \in Ids : x \notin Range(s) \cup Range(calls) ELSE calls[i]
      OBVIOUS
    <3>5. f[i] = Append(s, id)
      BY <1>3, <2>3, <3>1, <3>2, <3>4 DEF Picks
    <3>6. \E x \in Ids : x \notin Range(s) \cup Range(calls)
      <4>1. Range(s) \subseteq Ids
        BY <3>3 DEF Distinct, Range
      <4>2. IsFiniteSet(Range(s)) /\ Cardinality(Range(s)) \in Nat /\ Cardinality(Range(s)) <= i - 1
        BY <3>3, FS_CardinalityType DEF Distinct
      <4>3. Cardinality(Range(s)) < Len(calls)
        BY <1>1, <3>1, <4>2
      <4> QED
        BY <4>1, <4>2, <4>3, IdsSuffice
    <3>7. id \in Ids /\ id \notin Range(s)
      <4>1. calls[i] \in Ids
        BY <1>1, <3>1
      <4> QED
        BY <3>4, <3>6, <4>1
    <3>8. Distinct(Append(s, id), i)
      <4>1. Distinct(Append(s, id), (i - 1) + 1)
        BY <3>1, <3>3, <3>7, DistinctGrows
      <4>2. (i - 1) + 1 = i
        BY <3>1
      <4> QED
        BY <4>1, <4>2
    <3> QED
      BY <2>3, <3>5, <3>8
  <2> QED
    BY <2>3, <2>4, <2>5
<1> QED
  BY <1>1, <1>4, <1>5 DEF Distinct

-----------------------------------------------------------------------------
(* What a batch becomes in the log.                                           *)

LEMMA GreatestOf ==
  ASSUME NEW n \in Nat, NEW S, S \subseteq 0 .. n, S # {}
  PROVE  \E x \in S : \A y \in S : y <= x
<1>1. PICK T : T = {n - y : y \in S}
  OBVIOUS
<1>2. T \subseteq Nat /\ T # {}
  <2>1. PICK y : y \in S
    OBVIOUS
  <2>2. n - y \in T
    BY <1>1, <2>1
  <2> QED
    BY <1>1, <2>2
<1>3. PICK t \in T : \A u \in T : t <= u
  BY <1>2, LeastOf
<1>4. PICK x \in S : t = n - x
  BY <1>1, <1>3
<1>5. ASSUME NEW y \in S PROVE y <= x
  <2>1. n - y \in T /\ n - x <= n - y
    BY <1>1, <1>3, <1>4
  <2> QED
    BY <1>4, <1>5, <2>1
<1> QED
  BY <1>5

LEMMA OwnerIs ==
  ASSUME NEW l \in Seq(Events), NEW i \in Nat
  PROVE  /\ Owner(l, i) \in Tasks \cup {"none"}
         /\ \A task : Voice(l, i, task) => Owner(l, i) = task
<1>1. PICK before : before = {j \in DOMAIN l : j < i /\ Message(l[j])}
  OBVIOUS
<1>2. DOMAIN l = 1 .. Len(l) /\ Len(l) \in Nat /\ \A j \in DOMAIN l : l[j].task \in Tasks
  <2>1. DOMAIN l = 1 .. Len(l) /\ Len(l) \in Nat /\ \A j \in DOMAIN l : l[j] \in Events
    OBVIOUS
  <2>2. \A e \in Events : e.task \in Tasks
    BY DEF Events
  <2> QED
    BY <2>1, <2>2
<1>3. Owner(l, i) = IF before = {} THEN "none" ELSE l[CHOOSE j \in before : \A k \in before : k <= j].task
  BY <1>1 DEF Owner
<1>4. before \subseteq 0 .. Len(l)
  BY <1>1, <1>2
<1>5. ASSUME before # {} PROVE Owner(l, i) \in Tasks
  <2>1. \E j \in before : \A k \in before : k <= j
    BY <1>2, <1>4, <1>5, GreatestOf
  <2>2. PICK j : j = CHOOSE x \in before : \A k \in before : k <= x
    OBVIOUS
  <2>3. j \in before
    BY <2>1, <2>2
  <2> QED
    BY <1>1, <1>2, <1>3, <1>5, <2>2, <2>3
<1>6. ASSUME NEW task, Voice(l, i, task) PROVE Owner(l, i) = task
  <2>1. PICK j \in DOMAIN l : j < i /\ Message(l[j]) /\ l[j].task = task /\ \A k \in DOMAIN l : j < k /\ k < i => ~Message(l[k])
    BY <1>6 DEF Voice
  <2>2. j \in before
    BY <1>1, <2>1
  <2>3. ASSUME NEW k \in before PROVE k <= j
    BY <1>1, <1>2, <2>1, <2>3
  <2>4. PICK x : x = CHOOSE u \in before : \A k \in before : k <= u
    OBVIOUS
  <2>5. x \in before /\ j <= x
    BY <2>2, <2>3, <2>4
  <2>6. x = j
    <3>1. x <= j /\ x \in Nat /\ j \in Nat
      BY <1>4, <2>2, <2>3, <2>5
    <3> QED
      BY <2>5, <3>1
  <2> QED
    BY <1>3, <2>1, <2>2, <2>4, <2>6
<1> QED
  BY <1>3, <1>5, <1>6

InOrderOf(l) == \A i \in DOMAIN l : l[i].seq = i - 1
Owned(l) == \A i \in DOMAIN l : ToolEvent(l[i]) /\ l[i].by = "run" => l[i].owner = l[i].task

LEMMA NumberedAlike ==
  ASSUME NEW l \in Seq(Events), NEW b \in Seq(Events), NEW n \in Nat
  PROVE  /\ Numbered(n, b) \in Seq(Events) /\ Len(Numbered(n, b)) = Len(b) /\ DOMAIN Numbered(n, b) = 1 .. Len(b)
         /\ \A i \in 1 .. Len(b) : Numbered(n, b)[i].seq = n + i - 1
         /\ Alike(l \o b, l \o Numbered(n, b))
<1>1. PICK c : c = Numbered(n, b)
  OBVIOUS
<1>2. DOMAIN b = 1 .. Len(b) /\ Len(b) \in Nat /\ \A i \in 1 .. Len(b) : b[i] \in Events
  OBVIOUS
<1>3. c = [i \in 1 .. Len(b) |-> [b[i] EXCEPT !.seq = n + i - 1]]
  BY <1>1, <1>2 DEF Numbered
<1>4. ASSUME NEW i \in 1 .. Len(b)
      PROVE  /\ c[i] \in Events /\ c[i].seq = n + i - 1
             /\ c[i].type = b[i].type /\ c[i].turn = b[i].turn /\ c[i].step = b[i].step /\ c[i].task = b[i].task
             /\ c[i].id = b[i].id /\ c[i].calls = b[i].calls /\ c[i].usage = b[i].usage /\ c[i].by = b[i].by
  <2>1. PICK k : k = n + i - 1
    OBVIOUS
  <2>2. k \in Int
    BY <1>2, <2>1
  <2>3. c[i] = [b[i] EXCEPT !.seq = k]
    BY <1>3, <2>1
  <2>4. b[i] \in Events
    BY <1>2
  <2> QED
    BY <2>1, <2>2, <2>3, <2>4 DEF Events
<1>5. c \in Seq(Events) /\ Len(c) = Len(b)
  <2>1. c \in [1 .. Len(b) -> Events]
    BY <1>3, <1>4
  <2> QED
    BY <1>2, <2>1
<1>6. Alike(l \o b, l \o c)
  <2>1. /\ l \o c \in Seq(Events) /\ Len(l \o c) = Len(l \o b) /\ DOMAIN (l \o b) = 1 .. Len(l \o b)
        /\ DOMAIN (l \o c) = 1 .. Len(l \o b) /\ Len(l \o b) \in Nat
    BY <1>5
  <2>2. ASSUME NEW i \in 1 .. Len(l \o b)
        PROVE  \/ (l \o c)[i] = (l \o b)[i]
               \/ \E k \in 1 .. Len(b) : (l \o c)[i] = c[k] /\ (l \o b)[i] = b[k]
    <3>1. Len(l \o b) = Len(l) + Len(b) /\ Len(l) \in Nat /\ i \in Nat
      BY <1>2
    <3>2. CASE i <= Len(l)
      BY <1>5, <3>1, <3>2
    <3>3. CASE ~(i <= Len(l))
      <4>1. i - Len(l) \in 1 .. Len(b)
        BY <1>2, <3>1, <3>3
      <4>2. (l \o c)[i] = c[i - Len(l)] /\ (l \o b)[i] = b[i - Len(l)]
        BY <1>5, <3>1, <3>3
      <4> QED
        BY <4>1, <4>2
    <3> QED
      BY <3>2, <3>3, Zenon
  <2> QED
    BY <1>4, <2>1, <2>2 DEF Alike
<1> QED
  BY <1>1, <1>2, <1>3, <1>4, <1>5, <1>6

Landed(l, b, c, m) ==
  Accepted(l, c) /\ Alike(l \o b, m) /\ InOrderOf(m) /\ Owned(m) /\ \A i \in 1 .. Len(l) : m[i] = l[i]

LEMMA Lands ==
  ASSUME NEW l \in Seq(Events), NEW b \in Seq(Events), InOrderOf(l), Owned(l), Voiced(l \o b),
         NEW c, c = Numbered(Len(l), b), NEW m, m = l \o Indexed(l, c)
  PROVE  Landed(l, b, c, m)
<1>1. /\ Len(l) \in Nat /\ Len(b) \in Nat /\ DOMAIN l = 1 .. Len(l) /\ DOMAIN b = 1 .. Len(b)
      /\ Len(l \o b) = Len(l) + Len(b)
  OBVIOUS
<1>2. /\ c \in Seq(Events) /\ Len(c) = Len(b) /\ DOMAIN c = 1 .. Len(b)
      /\ \A i \in 1 .. Len(b) : c[i].seq = Len(l) + i - 1
      /\ Alike(l \o b, l \o c)
  BY <1>1, NumberedAlike
<1>3. NextSeq(l) = Len(l)
  <2>1. CASE l = <<>>
    BY <2>1 DEF NextSeq
  <2>2. CASE l # <<>>
    <3>1. Len(l) \in DOMAIN l
      BY <1>1, <2>2
    <3>2. l[Len(l)].seq = Len(l) - 1
      BY <3>1 DEF InOrderOf
    <3> QED
      BY <1>1, <2>2, <3>2 DEF NextSeq
  <2> QED
    BY <2>1, <2>2
<1>4. Accepted(l, c)
  <2>1. c # <<>> => c[1].seq = NextSeq(l)
    BY <1>1, <1>2, <1>3
  <2>2. ASSUME NEW i \in 2 .. Len(c) PROVE c[i].seq = c[i - 1].seq + 1
    <3>1. i \in 1 .. Len(b) /\ i - 1 \in 1 .. Len(b)
      BY <1>1, <1>2
    <3>2. c[i].seq = Len(l) + i - 1 /\ c[i - 1].seq = Len(l) + (i - 1) - 1
      BY <1>2, <3>1
    <3> QED
      BY <1>1, <3>1, <3>2
  <2> QED
    BY <2>1, <2>2 DEF Accepted
<1>5. PICK w : w = l \o c
  OBVIOUS
<1>6. w \in Seq(Events) /\ Voiced(w)
  <2>1. l \o b \in Seq(Events)
    OBVIOUS
  <2>2. Alike(l \o b, w)
    BY <1>2, <1>5
  <2>3. /\ DOMAIN w = DOMAIN (l \o b)
        /\ \A i \in DOMAIN (l \o b) : (Message(w[i]) <=> Message((l \o b)[i])) /\ (ToolEvent(w[i]) <=> ToolEvent((l \o b)[i]))
    BY <2>2, AlikeFacts
  <2>4. \A i \in DOMAIN (l \o b) : w[i].task = (l \o b)[i].task /\ w[i].by = (l \o b)[i].by
    BY <2>2 DEF Alike
  <2>5. w \in Seq(Events)
    BY <1>2, <1>5
  <2> QED
    BY <2>3, <2>4, <2>5 DEF Voiced, Voice
<1>7. PICK d : d = Indexed(l, c)
  OBVIOUS
<1>8. d = [i \in 1 .. Len(b) |-> [c[i] EXCEPT !.owner = CASE Message(c[i]) -> c[i].task
                                    [] ToolEvent(c[i]) -> Owner(w, Len(l) + i)
                                    [] OTHER -> "none"]]
  BY <1>2, <1>5, <1>7 DEF Indexed
<1>9. ASSUME NEW i \in 1 .. Len(b)
      PROVE  /\ d[i] \in Events /\ d[i].seq = Len(l) + i - 1
             /\ d[i].type = c[i].type /\ d[i].turn = c[i].turn /\ d[i].step = c[i].step /\ d[i].task = c[i].task
             /\ d[i].id = c[i].id /\ d[i].calls = c[i].calls /\ d[i].usage = c[i].usage /\ d[i].by = c[i].by
             /\ ToolEvent(c[i]) => d[i].owner = Owner(w, Len(l) + i)
  <2>1. PICK o : o = CASE Message(c[i]) -> c[i].task
                       [] ToolEvent(c[i]) -> Owner(w, Len(l) + i)
                       [] OTHER -> "none"
    OBVIOUS
  <2>2. ~(Message(c[i]) /\ ToolEvent(c[i]))
    BY DEF Message, ToolEvent
  <2>3. Owner(w, Len(l) + i) \in Tasks \cup {"none"}
    BY <1>1, <1>6, OwnerIs
  <2>4. c[i] \in Events /\ c[i].task \in Tasks
    <3>1. c[i] \in Events
      BY <1>2
    <3>2. \A e \in Events : e.task \in Tasks
      BY DEF Events
    <3> QED
      BY <3>1, <3>2
  <2>5. o \in Tasks \cup {"none"} /\ (ToolEvent(c[i]) => o = Owner(w, Len(l) + i))
    BY <2>1, <2>2, <2>3, <2>4
  <2>6. d[i] = [c[i] EXCEPT !.owner = o]
    BY <1>8, <2>1
  <2> QED
    BY <1>2, <2>4, <2>5, <2>6 DEF Events
<1>10. d \in Seq(Events) /\ Len(d) = Len(b) /\ DOMAIN d = 1 .. Len(b)
  <2>1. d \in [1 .. Len(b) -> Events]
    BY <1>8, <1>9
  <2> QED
    BY <1>1, <2>1
<1>11. /\ m \in Seq(Events) /\ Len(m) = Len(l) + Len(b) /\ DOMAIN m = 1 .. Len(l) + Len(b)
       /\ \A i \in 1 .. Len(l) : m[i] = l[i] /\ w[i] = l[i]
       /\ \A i \in 1 .. Len(l) + Len(b) :
            i \in 1 .. Len(l) \/ (i - Len(l) \in 1 .. Len(b) /\ m[i] = d[i - Len(l)] /\ w[i] = c[i - Len(l)])
  <2>1. m = l \o d
    BY <1>7
  <2>2. m \in Seq(Events) /\ Len(m) = Len(l) + Len(b) /\ DOMAIN m = 1 .. Len(l) + Len(b)
    BY <1>1, <1>10, <2>1
  <2>3. \A i \in 1 .. Len(l) : m[i] = l[i] /\ w[i] = l[i]
    BY <1>1, <1>2, <1>5, <1>10, <2>1
  <2>4. ASSUME NEW i \in 1 .. Len(l) + Len(b), i \notin 1 .. Len(l)
        PROVE  i - Len(l) \in 1 .. Len(b) /\ m[i] = d[i - Len(l)] /\ w[i] = c[i - Len(l)]
    <3>1. i - Len(l) \in 1 .. Len(b)
      BY <1>1, <2>4
    <3>2. m[i] = d[i - Len(l)]
      BY <1>1, <1>10, <2>1, <2>4
    <3>3. w[i] = c[i - Len(l)]
      BY <1>1, <1>2, <1>5, <2>4
    <3> QED
      BY <3>1, <3>2, <3>3
  <2> QED
    BY <2>2, <2>3, <2>4
<1>12. InOrderOf(m)
  <2> SUFFICES ASSUME NEW i \in 1 .. Len(l) + Len(b) PROVE m[i].seq = i - 1
    BY <1>11 DEF InOrderOf
  <2>1. CASE i \in 1 .. Len(l)
    BY <1>1, <1>11, <2>1 DEF InOrderOf
  <2>2. CASE i \notin 1 .. Len(l)
    <3>1. i - Len(l) \in 1 .. Len(b) /\ m[i] = d[i - Len(l)]
      BY <1>11, <2>2
    <3>2. m[i].seq = Len(l) + (i - Len(l)) - 1
      BY <1>9, <3>1
    <3> QED
      BY <1>1, <3>2
  <2> QED
    BY <2>1, <2>2
<1>13. Alike(l \o b, m)
  <2>1. ASSUME NEW i \in 1 .. Len(l) + Len(b)
        PROVE  /\ m[i].type = w[i].type /\ m[i].turn = w[i].turn /\ m[i].step = w[i].step /\ m[i].task = w[i].task
               /\ m[i].id = w[i].id /\ m[i].calls = w[i].calls /\ m[i].usage = w[i].usage /\ m[i].by = w[i].by
    <3>1. CASE i \in 1 .. Len(l)
      BY <1>11, <3>1
    <3>2. CASE i \notin 1 .. Len(l)
      <4>1. PICK k \in 1 .. Len(b) : m[i] = d[k] /\ w[i] = c[k]
        BY <1>11, <3>2
      <4> QED
        BY <1>9, <4>1
    <3> QED
      BY <3>1, <3>2
  <2>2. Alike(l \o b, w)
    BY <1>2, <1>5
  <2> QED
    BY <1>1, <1>11, <2>1, <2>2 DEF Alike
<1>14. Owned(m)
  <2> SUFFICES ASSUME NEW i \in 1 .. Len(l) + Len(b), ToolEvent(m[i]), m[i].by = "run" PROVE m[i].owner = m[i].task
    BY <1>11 DEF Owned
  <2>1. CASE i \in 1 .. Len(l)
    BY <1>1, <1>11, <2>1 DEF Owned
  <2>2. CASE i \notin 1 .. Len(l)
    <3>1. PICK k \in 1 .. Len(b) : k = i - Len(l) /\ m[i] = d[k] /\ w[i] = c[k]
      BY <1>11, <2>2
    <3>2. ToolEvent(c[k]) /\ c[k].by = "run" /\ d[k].task = c[k].task /\ Len(l) + k = i
      BY <1>1, <1>9, <3>1 DEF ToolEvent
    <3>3. d[k].owner = Owner(w, i)
      BY <1>9, <3>1, <3>2
    <3>4. Voice(w, i, w[i].task)
      <4>1. i \in DOMAIN w
        BY <1>1, <1>2, <1>5
      <4> QED
        BY <1>6, <3>1, <3>2, <4>1 DEF Voiced
    <3>5. Owner(w, i) = w[i].task
      <4>1. i \in Nat
        BY <1>1
      <4> QED
        BY <1>6, <3>4, <4>1, OwnerIs
    <3> QED
      BY <3>1, <3>2, <3>3, <3>5
  <2> QED
    BY <2>1, <2>2
<1> QED
  BY <1>4, <1>11, <1>12, <1>13, <1>14 DEF Landed

-----------------------------------------------------------------------------
(* The invariant.                                                             *)

\* What of the buffer is to stay, whatever comes: a call whose barrier fails is
\* taken back.
Buffer(p, r) == IF p = "calling" THEN SubSeq(r.pending, 1, Len(r.pending) - 1) ELSE r.pending

PlaceOf(p, l, r, a, calls, ex) ==
  /\ p = "idle" => r = NoRecorder
  /\ p \in {"asking", "asking_last", "thinking", "thinking_last"} => InStep(l \o r.pending, r.task, r.turn, r.step, ex)
  /\ p \in {"resuming", "deciding"} =>
       InStep(l \o r.pending, r.task, r.turn, r.step, ex) /\ Manifest(l \o r.pending, r.turn, r.step, a)
  /\ p = "choosing" => InRound(l \o r.pending, r.task, r.turn, r.step, a, calls, ex)
  /\ p = "calling" => /\ InRound(l \o SubSeq(r.pending, 1, Len(r.pending) - 1), r.task, r.turn, r.step, a, calls, ex)
                      /\ calls # <<>> /\ Calling(r, calls[1])
  /\ p = "dispatching" => InCall(l, r.task, r.turn, r.step, a, calls, ex) /\ r.pending = <<>>
  /\ p \in {"stepped", "between", "spent", "last", "answered", "finishing"} =>
       Ready(l \o r.pending, r.task, r.turn, r.step, ex)
  /\ p \in {"closing", "ended", "suspending"} => Sound(l \o r.pending, ex)

LoopTypes ==
  /\ asked \in Seq(Ids) /\ IsInjective(asked) /\ todo \in Seq(Ids)
  /\ checkpoint \in Seq(Ids) \cup {NoCalls} /\ (checkpoint # NoCalls => IsInjective(checkpoint))
  /\ executed \subseteq Nat \X Nat \X Ids /\ spent \in [Tasks -> Nat]

Stored ==
  /\ log \in Seq(Events) /\ InOrderOf(log) /\ Owned(log)
  /\ Sound(log, executed) /\ Charged(log, spent) /\ executed \subseteq Recorded("call")

Buffered ==
  /\ pc \in Places /\ rec \in Recorder /\ (rec.seqKnown => rec.nextSeq = Len(log))
  /\ PlaceOf(pc, log, rec, asked, todo, executed) /\ Charged(log \o Buffer(pc, rec), spent)

RecorderInv == LoopTypes /\ Stored /\ Buffered

LEMMA PlacesAre ==
  /\ DOMAIN After = {"resuming", "asking", "asking_last", "calling", "stepped", "spent", "answered",
                     "closing", "suspending", "ended"}
  /\ After["resuming"] = "deciding" /\ After["asking"] = "thinking" /\ After["asking_last"] = "thinking_last"
  /\ After["calling"] = "dispatching" /\ After["stepped"] = "between" /\ After["spent"] = "last"
  /\ After["answered"] = "finishing" /\ After["closing"] = "idle" /\ After["suspending"] = "idle" /\ After["ended"] = "idle"
  /\ Places = DOMAIN After \cup {"deciding", "thinking", "thinking_last", "dispatching", "between", "last",
                                 "finishing", "idle", "choosing"}
<1>1. DOMAIN After = {"resuming", "asking", "asking_last", "calling", "stepped", "spent", "answered",
                     "closing", "suspending", "ended"}
  BY DEF After
<1>2. /\ After["resuming"] = "deciding" /\ After["asking"] = "thinking" /\ After["asking_last"] = "thinking_last"
      /\ After["calling"] = "dispatching" /\ After["stepped"] = "between" /\ After["spent"] = "last"
      /\ After["answered"] = "finishing" /\ After["closing"] = "idle" /\ After["suspending"] = "idle" /\ After["ended"] = "idle"
  BY DEF After
<1>3. {After[p] : p \in DOMAIN After} = {"deciding", "thinking", "thinking_last", "dispatching", "between", "last",
                                         "finishing", "idle"}
  BY <1>1, <1>2
<1> QED
  BY <1>1, <1>2, <1>3 DEF Places

LEMMA SoundEmpty == Sound(<<>>, {})
<1>1. <<>> \in Seq(Events) /\ DOMAIN <<>> = {}
  BY EmptySeq
<1>2. PICK l : l = <<>>
  OBVIOUS
<1>3. l \in Seq(Events) /\ \A i \in DOMAIN l : FALSE
  BY <1>1, <1>2
<1>4. \A ty : \A i \in Indices(l, ty) : FALSE
  BY <1>3 DEF Indices
<1>5. InNat(l) /\ Started(l) /\ StartsAreRun(l) /\ StartsApart(l) /\ InTurns(l)
  BY <1>3, <1>4 DEF InNat, Started, StartsAreRun, StartsApart, InTurns
<1>6. OneOfEach(l, "call") /\ OneOfEach(l, "result") /\ CallsAnnounced(l) /\ Distinctly(l) /\ ResultsFollow(l)
  BY <1>4 DEF OneOfEach, CallsAnnounced, Distinctly, ResultsFollow
<1>7. OneAtATime(l) /\ AllAnswered(l) /\ Performed(l, {})
  BY <1>3, <1>4 DEF OneAtATime, AllAnswered, Performed
<1>8. EndsAreDue(l, "turn") /\ EndsAreDue(l, "step") /\ Voiced(l) /\ Mended(l)
  BY <1>3, <1>4 DEF EndsAreDue, Voiced, Mended
<1> QED
  BY <1>2, <1>3, <1>5, <1>6, <1>7, <1>8 DEF Sound

LEMMA ChargedEmpty == \A s \in [Tasks -> Nat] : Charged(<<>>, s)
<1> SUFFICES ASSUME NEW s \in [Tasks -> Nat], NEW t \in Tasks PROVE Tokens(<<>>, t) \in 0 .. s[t]
  BY DEF Charged
<1>1. PICK l : l = <<>>
  OBVIOUS
<1>2. Len(l) = 0
  BY <1>1
<1>3. PICK f : Sums(l, t, Len(l), f) /\ Tokens(l, t) = f[Len(l)]
  BY <1>2, TokensAreSum
<1>4. f[0] = 0
  BY <1>2, <1>3 DEF Sums
<1> QED
  BY <1>1, <1>2, <1>3, <1>4

LEMMA RecorderInitInv == Init => RecorderInv
<1> SUFFICES ASSUME Init PROVE RecorderInv
  OBVIOUS
<1>1. /\ log = <<>> /\ pc = "idle" /\ rec = NoRecorder /\ asked = <<>> /\ todo = <<>> /\ checkpoint = NoCalls
      /\ executed = {} /\ spent = [t \in Tasks |-> 0]
  BY DEF Init
<1>2. spent \in [Tasks -> Nat]
  BY <1>1
<1>3. LoopTypes
  <2>1. <<>> \in Seq(Ids) /\ IsInjective(<<>>)
    BY EmptySeq DEF IsInjective
  <2> QED
    BY <1>1, <1>2, <2>1 DEF LoopTypes
<1>4. Stored
  <2>1. log \in Seq(Events) /\ \A i \in DOMAIN log : FALSE
    BY <1>1, EmptySeq
  <2>2. InOrderOf(log) /\ Owned(log)
    BY <2>1 DEF InOrderOf, Owned
  <2> QED
    BY <1>1, <1>2, <2>1, <2>2, SoundEmpty, ChargedEmpty DEF Stored
<1>5. Buffered
  <2>1. rec \in Recorder /\ rec.seqKnown = FALSE /\ rec.pending = <<>>
    <3>1. <<>> \in Seq(Events)
      BY EmptySeq
    <3> QED
      BY <1>1, <3>1 DEF NoRecorder, Recorder
  <2>2. pc \in Places
    BY <1>1, PlacesAre
  <2>3. log \o Buffer(pc, rec) = <<>>
    BY <1>1, <2>1 DEF Buffer
  <2>4. PlaceOf(pc, log, rec, asked, todo, executed)
    BY <1>1 DEF PlaceOf
  <2> QED
    BY <1>2, <2>1, <2>2, <2>3, <2>4, ChargedEmpty DEF Buffered
<1> QED
  BY <1>3, <1>4, <1>5 DEF RecorderInv

LEMMA StoredStays ==
  ASSUME Stored, UNCHANGED <<log, executed, spent>>
  PROVE  Stored'
BY DEF Stored, Recorded

LEMMA NextTurnIs ==
  ASSUME log \in Seq(Events), NEW ex, Sound(log, ex)
  PROVE  NextTurn \in Nat /\ \A i \in DOMAIN log : log[i].turn < NextTurn
<1>0. DOMAIN log = 1 .. Len(log) /\ Len(log) \in Nat /\ \A i \in DOMAIN log : log[i].turn \in Nat
  BY DEF Sound, InNat
<1>1. \A k \in 0 .. Len(log) : \E b \in Nat : \A i \in 1 .. k : log[i].turn <= b
  <2>1. SUFFICES ASSUME NEW T, T = {k \in 0 .. Len(log) : ~\E b \in Nat : \A i \in 1 .. k : log[i].turn <= b}, T # {} PROVE FALSE
    <3>1. PICK T : T = {k \in 0 .. Len(log) : ~\E b \in Nat : \A i \in 1 .. k : log[i].turn <= b}
      OBVIOUS
    <3>2. T = {}
      BY <2>1, <3>1
    <3> QED
      BY <3>1, <3>2
  <2>2. PICK k \in T : \A j \in T : k <= j
    <3>1. T \subseteq Nat
      BY <2>1
    <3> QED
      BY <2>1, <3>1, LeastOf
  <2>3. k \in 0 .. Len(log) /\ ~\E b \in Nat : \A i \in 1 .. k : log[i].turn <= b
    BY <2>1, <2>2
  <2>4. CASE k = 0
    <3>1. 0 \in Nat /\ \A i \in 1 .. k : log[i].turn <= 0
      BY <2>4
    <3> QED
      BY <2>3, <3>1
  <2>5. CASE k > 0
    <3>1. k - 1 \in 0 .. Len(log) /\ ~(k <= k - 1) /\ k \in DOMAIN log
      BY <1>0, <2>3, <2>5
    <3>2. PICK b \in Nat : \A i \in 1 .. k - 1 : log[i].turn <= b
      BY <2>1, <2>2, <3>1
    <3>3. log[k].turn \in Nat
      BY <1>0, <3>1
    <3>4. PICK c \in Nat : b <= c /\ log[k].turn <= c
      <4>1. b <= b + log[k].turn /\ log[k].turn <= b + log[k].turn /\ b + log[k].turn \in Nat
        BY <3>3
      <4> QED
        BY <4>1
    <3>5. ASSUME NEW i \in 1 .. k PROVE log[i].turn <= c
      <4>1. log[i].turn \in Nat
        <5>1. i \in DOMAIN log
          BY <1>0, <2>3
        <5> QED
          BY <1>0, <5>1
      <4>2. CASE i = k
        BY <3>4, <4>2
      <4>3. CASE i # k
        <5>1. i \in 1 .. k - 1
          BY <2>3, <4>3
        <5> QED
          BY <3>2, <3>4, <4>1, <5>1
      <4> QED
        BY <4>2, <4>3
    <3> QED
      BY <2>3, <3>5
  <2> QED
    BY <2>3, <2>4, <2>5
<1>2. CASE log = <<>>
  BY <1>0, <1>2 DEF NextTurn
<1>3. CASE log # <<>>
  <2>1. PICK b \in Nat : \A i \in 1 .. Len(log) : log[i].turn <= b
    <3>1. Len(log) \in 0 .. Len(log)
      BY <1>0
    <3> QED
      BY <1>1, <3>1
  <2>2. PICK S : S = {log[i].turn : i \in DOMAIN log}
    OBVIOUS
  <2>3. S \subseteq 0 .. b
    BY <1>0, <2>1, <2>2
  <2>4. S # {}
    <3>1. 1 \in DOMAIN log
      BY <1>0, <1>3
    <3> QED
      BY <2>2, <3>1
  <2>5. \E x \in S : \A y \in S : x >= y
    <3>1. PICK x \in S : \A y \in S : y <= x
      BY <2>3, <2>4, GreatestOf
    <3> QED
      BY <2>3, <3>1
  <2>6. PICK x : x = Max(S)
    OBVIOUS
  <2>7. x \in S /\ \A y \in S : x >= y
    BY <2>5, <2>6 DEF Max
  <2>8. NextTurn = 1 + x
    BY <1>3, <2>2, <2>6 DEF NextTurn
  <2>9. x \in Nat
    BY <2>3, <2>7
  <2>10. ASSUME NEW i \in DOMAIN log PROVE log[i].turn < 1 + x
    <3>1. log[i].turn \in S /\ log[i].turn \in Nat
      BY <1>0, <2>2
    <3> QED
      BY <2>7, <2>9, <3>1
  <2> QED
    BY <2>8, <2>9, <2>10
<1> QED
  BY <1>2, <1>3

-----------------------------------------------------------------------------
(* The steps keep it.                                                         *)

\* What holds before a step of a run, spelled out.
LEMMA RecorderFacts ==
  ASSUME RecorderInv
  PROVE  /\ log \in Seq(Events) /\ Sound(log, executed) /\ Charged(log, spent) /\ spent \in [Tasks -> Nat]
         /\ pc \in Places /\ rec \in Recorder /\ (rec.seqKnown => rec.nextSeq = Len(log))
         /\ rec.pending \in Seq(Events)
         /\ PlaceOf(pc, log, rec, asked, todo, executed)
         /\ pc # "calling" => Charged(log \o rec.pending, spent)
         /\ pc = "calling" => Charged(log \o SubSeq(rec.pending, 1, Len(rec.pending) - 1), spent)
BY DEF RecorderInv, LoopTypes, Stored, Buffered, Buffer, Recorder

\* Another recorder in the hand of the same run.
LEMMA RunMoves ==
  ASSUME RecorderInv, NEW r \in Recorder, SameRun(rec, r), rec' = r, pc' \in Places, pc' # "calling",
         UNCHANGED <<log, executed>>, spent' \in [Tasks -> Nat], Charged(log, spent'), Charged(log \o r.pending, spent'),
         PlaceOf(pc', log, r, asked', todo', executed), LoopTypes'
  PROVE  RecorderInv'
<1>1. Stored'
  BY DEF RecorderInv, Stored, Recorded
<1>2. r.seqKnown => r.nextSeq = Len(log)
  BY RecorderFacts DEF SameRun
<1>3. Buffered'
  BY <1>2 DEF Buffered, Buffer
<1> QED
  BY <1>1, <1>3 DEF RecorderInv

LEMMA LoopTypesStay ==
  ASSUME LoopTypes, UNCHANGED <<loopVars, executed, spent>>
  PROVE  LoopTypes'
BY DEF LoopTypes, loopVars

LEMMA FailIs ==
  ASSUME RecorderInv, NEW r \in Recorder, SameRun(rec, r), Ready(log \o r.pending, r.task, r.turn, r.step, executed),
         Charged(log \o r.pending, spent), Fail(r)
  PROVE  RecorderInv'
<1>1. pc' = "closing" /\ UNCHANGED <<log, loopVars, executed, spent>>
  BY DEF Fail
<1>2. PICK q : q = recordTurnEnd(r)
  OBVIOUS
<1>3. rec' = q
  BY <1>2 DEF Fail
<1>4. q \in Recorder /\ SameRun(r, q) /\ Sound(log \o q.pending, executed) /\ Charged(log \o q.pending, spent)
  BY <1>2, RecorderFacts, TurnEndIs
<1>5. SameRun(rec, q)
  BY <1>4 DEF SameRun
<1>6. PlaceOf(pc', log, q, asked', todo', executed)
  BY <1>1, <1>4 DEF PlaceOf
<1>7. pc' \in Places /\ pc' # "calling" /\ LoopTypes' /\ UNCHANGED <<log, executed>> /\ spent' = spent
  BY <1>1, PlacesAre, LoopTypesStay DEF RecorderInv
<1> QED
  BY <1>3, <1>4, <1>5, <1>6, <1>7, RunMoves, RecorderFacts

LEMMA RunTaskStep ==
  ASSUME RecorderInv, NEW t \in Tasks, RunTask(t) \/ RunTaskFails(t)
  PROVE  RecorderInv'
<1>0. /\ pc = "idle" /\ UNCHANGED <<log, executed, spent>> /\ rec = NoRecorder
      /\ log \in Seq(Events) /\ Sound(log, executed) /\ Charged(log, spent) /\ spent \in [Tasks -> Nat]
  BY RecorderFacts DEF RunTask, RunTaskFails, PlaceOf, loopVars
<1>1. PICK q : q = Opening(t, NextTurn)
  OBVIOUS
<1>2. /\ q \in Recorder /\ q.task = t /\ q.seqKnown = FALSE
      /\ Ready(log \o q.pending, q.task, q.turn, q.step, executed) /\ Charged(log \o q.pending, spent)
  <2>1. PICK n : n = NextTurn
    OBVIOUS
  <2>2. n \in Nat /\ Newer(log, n)
    BY <1>0, <2>1, NextTurnIs DEF Newer
  <2>3. q = Opening(t, n)
    BY <1>1, <2>1
  <2>4. Opened(log, executed, spent, t, q)
    BY <1>0, <2>2, <2>3, TurnStartIs
  <2> QED
    BY <2>4 DEF Opened
<1>3. Stored'
  BY <1>0, StoredStays DEF RecorderInv
<1>4. CASE RunTaskFails(t)
  <2>1. PICK r : r = recordTurnEnd(q)
    OBVIOUS
  <2>2. r \in Recorder /\ SameRun(q, r) /\ Sound(log \o r.pending, executed) /\ Charged(log \o r.pending, spent)
    BY <1>0, <1>2, <2>1, TurnEndIs
  <2>3. rec' = r /\ pc' = "closing" /\ UNCHANGED loopVars
    BY <1>1, <1>4, <2>1 DEF RunTaskFails
  <2>4. LoopTypes'
    BY <1>0, <2>3, LoopTypesStay DEF RecorderInv
  <2>5. PlaceOf(pc', log', rec', asked', todo', executed')
    BY <1>0, <2>2, <2>3 DEF PlaceOf
  <2>6. r.seqKnown = FALSE
    BY <1>2, <2>2 DEF SameRun
  <2>7. pc' \in Places /\ Charged(log' \o Buffer(pc', rec'), spent')
    BY <1>0, <2>2, <2>3, PlacesAre DEF Buffer
  <2>8. Buffered'
    BY <2>2, <2>3, <2>5, <2>6, <2>7 DEF Buffered
  <2> QED
    BY <1>3, <2>4, <2>8 DEF RecorderInv
<1>5. CASE RunTask(t)
  <2>1. PICK r : r = recordStepStart(q)
    OBVIOUS
  <2>2. /\ r \in Recorder /\ SameRun(q, r)
        /\ InStep(log \o r.pending, r.task, r.turn, r.step, executed) /\ Charged(log \o r.pending, spent)
    BY <1>0, <1>2, <2>1, StepStartIs
  <2>3. CASE checkpoint # NoCalls
    <3>1. rec' = recordAssistantMessage(r, checkpoint, 0) /\ asked' = checkpoint /\ pc' = "resuming"
      BY <1>1, <1>5, <2>1, <2>3 DEF RunTask, ResumedUsage
    <3>2. checkpoint \in Seq(Ids) /\ IsInjective(checkpoint)
      BY <2>3 DEF RecorderInv, LoopTypes
    <3>3. PICK o : o = recordAssistantMessage(r, checkpoint, 0)
      OBVIOUS
    <3>4. /\ o \in Recorder /\ SameRun(r, o) /\ o.step = r.step
          /\ InStep(log \o o.pending, o.task, o.turn, o.step, executed) /\ Manifest(log \o o.pending, o.turn, o.step, checkpoint)
          /\ Charged(log \o o.pending, spent)
      <4>1. PICK usage \in Nat : usage = 0
        OBVIOUS
      <4>2. o = recordAssistantMessage(r, checkpoint, usage)
        BY <3>3, <4>1
      <4>3. Messaged(log, executed, spent, r, checkpoint, usage, o)
        BY <1>0, <2>2, <3>2, <4>2, MessageIs
      <4> QED
        BY <4>1, <4>3 DEF Messaged
    <3>5. o.seqKnown = FALSE
      BY <1>2, <2>2, <3>4 DEF SameRun
    <3>6. LoopTypes'
      BY <1>0, <1>5, <3>1, <3>2 DEF RecorderInv, LoopTypes, RunTask
    <3>7. PlaceOf(pc', log', rec', asked', todo', executed')
      BY <1>0, <3>1, <3>3, <3>4 DEF PlaceOf
    <3>8. pc' \in Places /\ Charged(log' \o Buffer(pc', rec'), spent')
      BY <1>0, <3>1, <3>3, <3>4, PlacesAre DEF Buffer
    <3>9. Buffered'
      BY <3>1, <3>3, <3>4, <3>5, <3>7, <3>8 DEF Buffered
    <3> QED
      BY <1>3, <3>6, <3>9 DEF RecorderInv
  <2>4. CASE ~(checkpoint # NoCalls)
    <3>1. rec' = r /\ asked' = asked /\ pc' = "asking"
      BY <1>1, <1>5, <2>1, <2>4 DEF RunTask
    <3>2. r.seqKnown = FALSE
      BY <1>2, <2>2 DEF SameRun
    <3>3. LoopTypes'
      BY <1>0, <1>5, <3>1 DEF RecorderInv, LoopTypes, RunTask
    <3>4. PlaceOf(pc', log', rec', asked', todo', executed')
      BY <1>0, <2>2, <3>1 DEF PlaceOf
    <3>5. pc' \in Places /\ Charged(log' \o Buffer(pc', rec'), spent')
      BY <1>0, <2>2, <3>1, PlacesAre DEF Buffer
    <3>6. Buffered'
      BY <2>2, <3>1, <3>2, <3>4, <3>5 DEF Buffered
    <3> QED
      BY <1>3, <3>3, <3>6 DEF RecorderInv
  <2> QED
    BY <2>3, <2>4
<1> QED
  BY <1>4, <1>5

LEMMA SpendIs ==
  ASSUME NEW s \in [Tasks -> Nat], NEW t \in Tasks, NEW l, Charged(l, s)
  PROVE  [s EXCEPT ![t] = @ + 1] \in [Tasks -> Nat] /\ Charged(l, [s EXCEPT ![t] = @ + 1])
<1>1. PICK u : u = [s EXCEPT ![t] = @ + 1]
  OBVIOUS
<1>2. u \in [Tasks -> Nat] /\ \A x \in Tasks : s[x] \in Nat /\ u[x] \in Nat /\ s[x] <= u[x]
  BY <1>1
<1>3. \A x \in Tasks : Tokens(l, x) \in 0 .. s[x]
  BY DEF Charged
<1>4. \A x \in Tasks : Tokens(l, x) \in 0 .. u[x]
  BY <1>2, <1>3
<1> QED
  BY <1>1, <1>2, <1>4 DEF Charged

LEMMA ModelStep ==
  ASSUME RecorderInv, ModelAnswers \/ ModelConcludes
  PROVE  RecorderInv'
<1>0. /\ log \in Seq(Events) /\ Sound(log, executed) /\ Charged(log, spent) /\ spent \in [Tasks -> Nat] /\ rec \in Recorder
      /\ PlaceOf(pc, log, rec, asked, todo, executed) /\ (pc # "calling" => Charged(log \o rec.pending, spent))
  BY RecorderFacts
<1>1. PICK calls \in Answers :
        /\ asked' = Disambiguated(calls) /\ Spend
        /\ UNCHANGED <<log, todo, checkpoint, executed>>
        /\ \/ pc = "thinking" /\ pc' = "deciding" /\ rec' = recordAssistantMessage(rec, asked', 1)
           \/ pc = "thinking_last" /\ pc' = "answered" /\ rec' = recordStepEnd(recordAssistantMessage(rec, asked', 1))
  BY DEF ModelAnswers, ModelConcludes
<1>2. PICK a : a = asked'
  OBVIOUS
<1>3. a \in Seq(Ids) /\ IsInjective(a)
  BY <1>1, <1>2, DisambiguatedIs
<1>4. InStep(log \o rec.pending, rec.task, rec.turn, rec.step, executed) /\ Charged(log \o rec.pending, spent) /\ rec.task \in Tasks
  BY <1>0, <1>1 DEF PlaceOf, InStep, Ready
<1>5. PICK s : s = [spent EXCEPT ![rec.task] = @ + 1]
  OBVIOUS
<1>6. s \in [Tasks -> Nat] /\ Charged(log, s) /\ spent' = s
  BY <1>0, <1>1, <1>4, <1>5, SpendIs DEF Spend
<1>7. PICK usage \in Nat : usage = 1
  OBVIOUS
<1>8. PICK q : q = recordAssistantMessage(rec, a, usage)
  OBVIOUS
<1>9. Messaged(log, executed, spent, rec, a, usage, q)
  BY <1>0, <1>3, <1>4, <1>8, MessageIs
<1>10. /\ q \in Recorder /\ SameRun(rec, q) /\ Charged(log \o q.pending, s)
       /\ InStep(log \o q.pending, q.task, q.turn, q.step, executed) /\ Manifest(log \o q.pending, q.turn, q.step, a)
  BY <1>5, <1>7, <1>9 DEF Messaged
<1>11. LoopTypes'
  BY <1>1, <1>2, <1>3, <1>6 DEF RecorderInv, LoopTypes
<1>12. CASE pc' = "deciding" /\ rec' = q
  <2>1. PlaceOf(pc', log, q, asked', todo', executed)
    BY <1>2, <1>10, <1>12 DEF PlaceOf
  <2>2. pc' \in Places /\ pc' # "calling"
    BY <1>12, PlacesAre
  <2> QED
    BY <1>1, <1>6, <1>10, <1>11, <1>12, <2>1, <2>2, RunMoves
<1>13. CASE pc' = "answered" /\ rec' = recordStepEnd(q)
  <2>1. PICK r : r = recordStepEnd(q)
    OBVIOUS
  <2>2. r \in Recorder /\ SameRun(q, r) /\ Ready(log \o r.pending, r.task, r.turn, r.step, executed) /\ Charged(log \o r.pending, s)
    BY <1>0, <1>6, <1>10, <2>1, StepEndIs
  <2>3. PlaceOf(pc', log, r, asked', todo', executed)
    BY <1>13, <2>2 DEF PlaceOf
  <2>4. pc' \in Places /\ pc' # "calling"
    BY <1>13, PlacesAre
  <2>5. SameRun(rec, r)
    BY <1>10, <2>2 DEF SameRun
  <2> QED
    BY <1>1, <1>6, <1>11, <1>13, <2>1, <2>2, <2>3, <2>4, <2>5, RunMoves
<1> QED
  BY <1>1, <1>2, <1>7, <1>8, <1>12, <1>13

\* A step that ends, and the turn it may end with.
LEMMA StepFails ==
  ASSUME RecorderInv, InStep(log \o rec.pending, rec.task, rec.turn, rec.step, executed), pc # "calling",
         Fail(recordStepEnd(rec))
  PROVE  RecorderInv'
<1>0. log \in Seq(Events) /\ spent \in [Tasks -> Nat] /\ rec \in Recorder /\ Charged(log \o rec.pending, spent)
  BY RecorderFacts
<1>1. PICK q : q = recordStepEnd(rec)
  OBVIOUS
<1>2. q \in Recorder /\ SameRun(rec, q) /\ Ready(log \o q.pending, q.task, q.turn, q.step, executed) /\ Charged(log \o q.pending, spent)
  BY <1>0, <1>1, StepEndIs
<1> QED
  BY <1>1, <1>2, FailIs

LEMMA FailingStep ==
  ASSUME RecorderInv, ModelFails \/ SuspendFails \/ FinishFails
  PROVE  RecorderInv'
<1>0. PlaceOf(pc, log, rec, asked, todo, executed) /\ rec \in Recorder /\ (pc # "calling" => Charged(log \o rec.pending, spent))
  BY RecorderFacts
<1>1. CASE ModelFails \/ SuspendFails
  <2>1. InStep(log \o rec.pending, rec.task, rec.turn, rec.step, executed) /\ pc # "calling" /\ Fail(recordStepEnd(rec))
    BY <1>0, <1>1 DEF ModelFails, SuspendFails, PlaceOf
  <2> QED
    BY <2>1, StepFails
<1>2. CASE FinishFails
  <2>1. Ready(log \o rec.pending, rec.task, rec.turn, rec.step, executed) /\ pc # "calling" /\ Fail(rec)
    BY <1>0, <1>2 DEF FinishFails, PlaceOf
  <2>2. SameRun(rec, rec)
    BY DEF SameRun
  <2> QED
    BY <1>0, <2>1, <2>2, FailIs
<1> QED
  BY <1>1, <1>2

LEMMA SuspendStep ==
  ASSUME RecorderInv, Suspend
  PROVE  RecorderInv'
<1>0. /\ log \in Seq(Events) /\ spent \in [Tasks -> Nat] /\ rec \in Recorder /\ Charged(log, spent)
      /\ Charged(log \o rec.pending, spent) /\ InStep(log \o rec.pending, rec.task, rec.turn, rec.step, executed)
  BY RecorderFacts DEF Suspend, PlaceOf
<1>1. PICK q : q = recordStepEnd(rec)
  OBVIOUS
<1>2. q \in Recorder /\ SameRun(rec, q) /\ Ready(log \o q.pending, q.task, q.turn, q.step, executed) /\ Charged(log \o q.pending, spent)
  BY <1>0, <1>1, StepEndIs
<1>3. PICK r : r = recordTurnEnd(q)
  OBVIOUS
<1>4. r \in Recorder /\ SameRun(q, r) /\ Sound(log \o r.pending, executed) /\ Charged(log \o r.pending, spent)
  BY <1>0, <1>2, <1>3, TurnEndIs
<1>5. /\ rec' = r /\ pc' = "suspending" /\ spent' = spent /\ UNCHANGED <<log, executed>>
  BY <1>1, <1>3 DEF Suspend
<1>6. LoopTypes'
  BY DEF RecorderInv, LoopTypes, Suspend
<1>7. PlaceOf(pc', log, r, asked', todo', executed)
  BY <1>4, <1>5 DEF PlaceOf
<1>8. pc' \in Places /\ pc' # "calling" /\ SameRun(rec, r)
  BY <1>2, <1>4, <1>5, PlacesAre DEF SameRun
<1> QED
  BY <1>0, <1>4, <1>5, <1>6, <1>7, <1>8, RunMoves

LEMMA RoundStep ==
  ASSUME RecorderInv, StartRound \/ RoundFails \/ EndRound
  PROVE  RecorderInv'
<1>0. /\ log \in Seq(Events) /\ spent \in [Tasks -> Nat] /\ rec \in Recorder /\ Charged(log, spent)
      /\ PlaceOf(pc, log, rec, asked, todo, executed) /\ (pc # "calling" => Charged(log \o rec.pending, spent))
  BY RecorderFacts
<1>1. CASE StartRound
  <2>1. /\ Charged(log \o rec.pending, spent) /\ InStep(log \o rec.pending, rec.task, rec.turn, rec.step, executed)
        /\ Manifest(log \o rec.pending, rec.turn, rec.step, asked)
    BY <1>0, <1>1 DEF StartRound, PlaceOf
  <2>2. asked \in Seq(Ids) /\ IsInjective(asked)
    BY DEF RecorderInv, LoopTypes
  <2>3. InRound(log \o rec.pending, rec.task, rec.turn, rec.step, asked, asked, executed)
    BY <2>1, <2>2, RoundBegins
  <2>4. pc' = "choosing" /\ rec' = rec /\ asked' = asked /\ todo' = asked /\ UNCHANGED <<log, executed, spent, checkpoint>>
    BY <1>1 DEF StartRound
  <2>5. LoopTypes'
    BY <2>2, <2>4 DEF RecorderInv, LoopTypes
  <2>6. PlaceOf(pc', log, rec, asked', todo', executed)
    BY <2>3, <2>4 DEF PlaceOf
  <2>7. pc' \in Places /\ pc' # "calling" /\ SameRun(rec, rec) /\ spent' = spent
    BY <2>4, PlacesAre DEF SameRun
  <2> QED
    BY <1>0, <2>1, <2>4, <2>5, <2>6, <2>7, RunMoves
<1>2. CASE RoundFails \/ EndRound
  <2>1. InRound(log \o rec.pending, rec.task, rec.turn, rec.step, asked, todo, executed) /\ Charged(log \o rec.pending, spent)
    BY <1>0, <1>2 DEF RoundFails, EndRound, PlaceOf
  <2>2. PICK q : q = recordStepEnd(rec)
    OBVIOUS
  <2>3. q \in Recorder /\ SameRun(rec, q) /\ Ready(log \o q.pending, q.task, q.turn, q.step, executed) /\ Charged(log \o q.pending, spent)
    BY <1>0, <2>1, <2>2, RoundEndIs
  <2>4. CASE RoundFails
    BY <2>2, <2>3, <2>4, FailIs DEF RoundFails
  <2>5. CASE EndRound
    <3>1. pc' = "stepped" /\ rec' = q /\ UNCHANGED <<log, loopVars, executed, spent>>
      BY <2>2, <2>5 DEF EndRound, EndStep
    <3>2. LoopTypes'
      BY <3>1, LoopTypesStay DEF RecorderInv
    <3>3. PlaceOf(pc', log, q, asked', todo', executed)
      BY <2>3, <3>1 DEF PlaceOf
    <3>4. pc' \in Places /\ pc' # "calling" /\ spent' = spent
      BY <3>1, PlacesAre
    <3> QED
      BY <1>0, <2>3, <3>1, <3>2, <3>3, <3>4, RunMoves
  <2> QED
    BY <1>2, <2>4, <2>5
<1> QED
  BY <1>1, <1>2

LEMMA EndingStep ==
  ASSUME RecorderInv, GiveUp \/ NothingAsked
  PROVE  RecorderInv'
<1>0. /\ log \in Seq(Events) /\ spent \in [Tasks -> Nat] /\ rec \in Recorder /\ Charged(log, spent)
      /\ Charged(log \o rec.pending, spent) /\ InStep(log \o rec.pending, rec.task, rec.turn, rec.step, executed)
  BY RecorderFacts DEF GiveUp, NothingAsked, PlaceOf
<1>1. PICK q : q = recordStepEnd(rec)
  OBVIOUS
<1>2. q \in Recorder /\ SameRun(rec, q) /\ Ready(log \o q.pending, q.task, q.turn, q.step, executed) /\ Charged(log \o q.pending, spent)
  BY <1>0, <1>1, StepEndIs
<1>3. pc' \in {"spent", "answered"} /\ rec' = q /\ UNCHANGED <<log, loopVars, executed, spent>>
  BY <1>1 DEF GiveUp, NothingAsked, EndStep
<1>4. LoopTypes'
  BY <1>3, LoopTypesStay DEF RecorderInv
<1>5. PlaceOf(pc', log, q, asked', todo', executed)
  BY <1>2, <1>3 DEF PlaceOf
<1>6. pc' \in Places /\ pc' # "calling" /\ spent' = spent
  BY <1>3, PlacesAre
<1> QED
  BY <1>0, <1>2, <1>3, <1>4, <1>5, <1>6, RunMoves

LEMMA StartingStep ==
  ASSUME RecorderInv, NextRound \/ Conclude
  PROVE  RecorderInv'
<1>0. /\ log \in Seq(Events) /\ spent \in [Tasks -> Nat] /\ rec \in Recorder /\ Charged(log, spent)
      /\ Charged(log \o rec.pending, spent) /\ Ready(log \o rec.pending, rec.task, rec.turn, rec.step, executed)
  BY RecorderFacts DEF NextRound, Conclude, PlaceOf
<1>1. PICK q : q = recordStepStart(rec)
  OBVIOUS
<1>2. q \in Recorder /\ SameRun(rec, q) /\ InStep(log \o q.pending, q.task, q.turn, q.step, executed) /\ Charged(log \o q.pending, spent)
  BY <1>0, <1>1, StepStartIs
<1>3. pc' \in {"asking", "asking_last"} /\ rec' = q /\ UNCHANGED <<log, asked, todo, checkpoint, executed, spent>>
  BY <1>1 DEF NextRound, Conclude, StartStep
<1>4. LoopTypes'
  BY <1>3 DEF RecorderInv, LoopTypes
<1>5. PlaceOf(pc', log, q, asked', todo', executed)
  BY <1>2, <1>3 DEF PlaceOf
<1>6. pc' \in Places /\ pc' # "calling" /\ spent' = spent
  BY <1>3, PlacesAre
<1> QED
  BY <1>0, <1>2, <1>3, <1>4, <1>5, <1>6, RunMoves

LEMMA FinishStep ==
  ASSUME RecorderInv, Finish
  PROVE  RecorderInv'
<1>0. /\ log \in Seq(Events) /\ spent \in [Tasks -> Nat] /\ rec \in Recorder /\ Charged(log, spent)
      /\ Charged(log \o rec.pending, spent) /\ Ready(log \o rec.pending, rec.task, rec.turn, rec.step, executed)
  BY RecorderFacts DEF Finish, PlaceOf
<1>1. PICK q : q = recordTurnEnd(rec)
  OBVIOUS
<1>2. q \in Recorder /\ SameRun(rec, q) /\ Sound(log \o q.pending, executed) /\ Charged(log \o q.pending, spent)
  BY <1>0, <1>1, TurnEndIs
<1>3. pc' = "ended" /\ rec' = q /\ checkpoint' = NoCalls /\ UNCHANGED <<log, asked, todo, executed, spent>>
  BY <1>1 DEF Finish
<1>4. LoopTypes'
  BY <1>3 DEF RecorderInv, LoopTypes
<1>5. PlaceOf(pc', log, q, asked', todo', executed)
  BY <1>2, <1>3 DEF PlaceOf
<1>6. pc' \in Places /\ pc' # "calling" /\ spent' = spent
  BY <1>3, PlacesAre
<1> QED
  BY <1>0, <1>2, <1>3, <1>4, <1>5, <1>6, RunMoves

LEMMA RecordCallStep ==
  ASSUME RecorderInv, RecordCall
  PROVE  RecorderInv'
<1>0. /\ log \in Seq(Events) /\ rec \in Recorder /\ Charged(log \o rec.pending, spent) /\ (rec.seqKnown => rec.nextSeq = Len(log))
      /\ InRound(log \o rec.pending, rec.task, rec.turn, rec.step, asked, todo, executed)
  BY RecorderFacts DEF RecordCall, PlaceOf
<1>1. /\ pc' = "calling" /\ todo # <<>> /\ rec' = recordToolCall(rec, Head(todo))
      /\ UNCHANGED <<log, loopVars, executed, spent>>
  BY DEF RecordCall
<1>2. rec.task \in Tasks /\ todo \in Seq(Ids)
  BY <1>0 DEF InRound, Listed
<1>3. PICK id \in Ids : id = Head(todo) /\ id = todo[1]
  BY <1>1, <1>2
<1>4. PICK q : q = recordToolCall(rec, id)
  OBVIOUS
<1>5. /\ q \in Recorder /\ SameRun(rec, q) /\ q.step = rec.step /\ Calling(q, id)
      /\ SubSeq(q.pending, 1, Len(q.pending) - 1) = rec.pending
  BY <1>0, <1>2, <1>4, CallIs
<1>6. rec' = q
  BY <1>1, <1>3, <1>4
<1>7. Stored' /\ LoopTypes'
  BY <1>1, StoredStays, LoopTypesStay DEF RecorderInv
<1>8. Buffer(pc', q) = rec.pending
  BY <1>1, <1>5 DEF Buffer
<1>9. q.task = rec.task /\ q.turn = rec.turn /\ (q.seqKnown => q.nextSeq = Len(log))
  BY <1>0, <1>5 DEF SameRun
<1>10. PlaceOf(pc', log, q, asked', todo', executed)
  BY <1>0, <1>1, <1>3, <1>5, <1>9 DEF PlaceOf, loopVars
<1>11. pc' \in Places
  BY <1>1, PlacesAre
<1>12. Buffered'
  BY <1>0, <1>1, <1>5, <1>6, <1>8, <1>9, <1>10, <1>11 DEF Buffered
<1> QED
  BY <1>7, <1>12 DEF RecorderInv

LEMMA DispatchStep ==
  ASSUME RecorderInv, Dispatch
  PROVE  RecorderInv'
<1>0. /\ log \in Seq(Events) /\ rec \in Recorder /\ Charged(log \o rec.pending, spent) /\ (rec.seqKnown => rec.nextSeq = Len(log))
      /\ InCall(log, rec.task, rec.turn, rec.step, asked, todo, executed) /\ rec.pending = <<>> /\ spent \in [Tasks -> Nat]
      /\ Sound(log, executed) /\ Charged(log, spent)
  BY RecorderFacts DEF Dispatch, PlaceOf
<1>1. /\ pc' = "choosing" /\ executed' = executed \cup {<<rec.turn, rec.step, Head(todo)>>}
      /\ rec' = recordToolResult(rec, Head(todo)) /\ todo' = Tail(todo) /\ UNCHANGED <<log, asked, checkpoint, spent>>
  BY DEF Dispatch
<1>2. log \o rec.pending = log
  BY <1>0
<1>3. PICK q : q = recordToolResult(rec, Head(todo))
  OBVIOUS
<1>4. /\ q \in Recorder /\ SameRun(rec, q) /\ Charged(log \o q.pending, spent)
      /\ InRound(log \o q.pending, q.task, q.turn, q.step, asked, Tail(todo), executed \cup {<<rec.turn, rec.step, Head(todo)>>})
  BY <1>0, <1>2, <1>3, ResultIs
<1>5. todo \in Seq(Ids) /\ todo # <<>> /\ Head(todo) = todo[1] /\ Head(todo) \in Ids /\ rec.turn \in Nat /\ rec.step \in Nat
  BY <1>0 DEF InCall, Listed
<1>6. LoopTypes'
  <2>1. <<rec.turn, rec.step, Head(todo)>> \in Nat \X Nat \X Ids /\ Tail(todo) \in Seq(Ids)
    BY <1>5
  <2> QED
    BY <1>1, <2>1 DEF RecorderInv, LoopTypes
<1>7. Stored'
  <2>1. Sound(log, executed')
    BY <1>0, <1>1, SoundGrows
  <2>2. <<rec.turn, rec.step, Head(todo)>> \in Recorded("call")
    <3>1. /\ Len(log) \in DOMAIN log /\ log[Len(log)].type = "call"
          /\ Key(log[Len(log)]) = <<rec.turn, rec.step, Head(todo)>>
      <4>1. Due(log, rec.turn, rec.step, Head(todo))
        BY <1>0, <1>5 DEF InCall
      <4>2. DOMAIN log = 1 .. Len(log) /\ Len(log) \in Nat
        BY <1>0
      <4> QED
        BY <4>1, <4>2 DEF Due
    <3> QED
      BY <3>1 DEF Recorded, Indices
  <2>3. executed' \subseteq Recorded("call")
    BY <1>1, <2>2 DEF RecorderInv, Stored
  <2>4. InOrderOf(log) /\ Owned(log)
    BY DEF RecorderInv, Stored
  <2> QED
    BY <1>0, <1>1, <2>1, <2>3, <2>4 DEF Stored, Recorded
<1>8. PlaceOf(pc', log, q, asked', todo', executed')
  BY <1>1, <1>4 DEF PlaceOf
<1>9. pc' \in Places /\ Buffer(pc', q) = q.pending /\ (q.seqKnown => q.nextSeq = Len(log)) /\ rec' = q
  BY <1>0, <1>1, <1>3, <1>4, PlacesAre DEF Buffer, SameRun
<1>10. Buffered'
  BY <1>1, <1>4, <1>8, <1>9 DEF Buffered
<1> QED
  BY <1>6, <1>7, <1>10 DEF RecorderInv

\* An execution that is over, its buffer with it.
LEMMA OverIs ==
  ASSUME RecorderInv, pc' = "idle", Over, UNCHANGED <<log, checkpoint, executed, spent>>
  PROVE  RecorderInv'
<1>1. <<>> \in Seq(Ids) /\ IsInjective(<<>>) /\ <<>> \in Seq(Events)
  BY EmptySeq DEF IsInjective
<1>2. LoopTypes'
  BY <1>1 DEF RecorderInv, LoopTypes, Over
<1>3. Stored'
  BY StoredStays DEF RecorderInv
<1>4. rec' = NoRecorder /\ NoRecorder \in Recorder /\ NoRecorder.seqKnown = FALSE /\ NoRecorder.pending = <<>>
  BY <1>1 DEF Over, NoRecorder, Recorder
<1>5. log \o Buffer(pc', rec') = log
  <2>1. Buffer(pc', rec') = <<>>
    BY <1>4 DEF Buffer
  <2> QED
    BY <2>1, RecorderFacts
<1>6. PlaceOf(pc', log, rec', asked', todo', executed)
  BY <1>4 DEF PlaceOf
<1>7. pc' \in Places /\ Charged(log, spent)
  BY PlacesAre, RecorderFacts
<1>8. Buffered'
  BY <1>4, <1>5, <1>6, <1>7 DEF Buffered
<1> QED
  BY <1>2, <1>3, <1>8 DEF RecorderInv

LEMMA CrashStep ==
  ASSUME RecorderInv, Crash
  PROVE  RecorderInv'
BY OverIs DEF Crash

\* What is written at a barrier is sound.
LEMMA BarrierIs ==
  ASSUME RecorderInv, pc \in DOMAIN After
  PROVE  /\ Sound(log \o rec.pending, executed) /\ Charged(log \o rec.pending, spent)
         /\ pc = "calling" => InCall(log \o rec.pending, rec.task, rec.turn, rec.step, asked, todo, executed)
<1>0. /\ log \in Seq(Events) /\ spent \in [Tasks -> Nat] /\ PlaceOf(pc, log, rec, asked, todo, executed)
      /\ (pc # "calling" => Charged(log \o rec.pending, spent))
      /\ (pc = "calling" => Charged(log \o SubSeq(rec.pending, 1, Len(rec.pending) - 1), spent))
  BY RecorderFacts
<1>1. CASE pc = "calling"
  <2>1. /\ InRound(log \o SubSeq(rec.pending, 1, Len(rec.pending) - 1), rec.task, rec.turn, rec.step, asked, todo, executed)
        /\ todo # <<>> /\ Calling(rec, todo[1])
    BY <1>0, <1>1 DEF PlaceOf
  <2>2. PICK p \in Seq(Events), e \in Events :
          rec.pending = Append(p, e) /\ Of(e, "call", rec.task, rec.turn, rec.step) /\ e.id = todo[1]
    BY <2>1 DEF Calling
  <2>3. SubSeq(rec.pending, 1, Len(rec.pending) - 1) = p
    BY <2>2
  <2>4. Grown(log \o p, log \o rec.pending, e)
    BY <1>0, <2>2, BufferGrows
  <2>5. InCall(log \o rec.pending, rec.task, rec.turn, rec.step, asked, todo, executed)
    BY <2>1, <2>2, <2>3, <2>4, CallAdds
  <2>6. Charged(log \o rec.pending, spent)
    <3>1. e.type # "assistant" /\ Charged(log \o p, spent)
      BY <1>0, <1>1, <2>2, <2>3 DEF Of
    <3> QED
      BY <1>0, <2>2, <2>4, <3>1, ChargedGrows
  <2> QED
    BY <2>5, <2>6 DEF InCall
<1>2. CASE pc # "calling"
  <2>1. pc \in {"resuming", "asking", "asking_last", "stepped", "spent", "answered", "closing", "suspending", "ended"}
    BY <1>2, PlacesAre
  <2>2. \/ InStep(log \o rec.pending, rec.task, rec.turn, rec.step, executed)
        \/ Ready(log \o rec.pending, rec.task, rec.turn, rec.step, executed)
        \/ Sound(log \o rec.pending, executed)
    BY <1>0, <2>1 DEF PlaceOf
  <2>3. Sound(log \o rec.pending, executed)
    BY <2>2 DEF InStep, Ready
  <2> QED
    BY <1>0, <1>2, <2>3
<1> QED
  BY <1>1, <1>2

LEMMA CursorIs ==
  ASSUME RecorderInv
  PROVE  Cursor = Len(log) /\ Len(log) \in Nat
BY RecorderFacts DEF Cursor

LEMMA FlushStep ==
  ASSUME RecorderInv, Flush
  PROVE  RecorderInv'
<1>0. /\ log \in Seq(Events) /\ spent \in [Tasks -> Nat] /\ rec \in Recorder /\ rec.pending \in Seq(Events)
      /\ PlaceOf(pc, log, rec, asked, todo, executed) /\ Len(log) \in Nat
  BY RecorderFacts
<1>1. /\ pc \in DOMAIN After /\ pc' = After[pc] /\ UNCHANGED <<checkpoint, executed, spent>>
      /\ IF After[pc] = "idle" THEN Over ELSE rec' = Written(rec) /\ UNCHANGED <<asked, todo, round>>
      /\ log' = log \o Indexed(log, Numbered(Cursor, rec.pending))
  BY DEF Flush, AppendBatch
<1>2. PICK m : m = log \o Indexed(log, Numbered(Len(log), rec.pending))
  OBVIOUS
<1>3. log' = m
  BY <1>1, <1>2, CursorIs
<1>4. /\ Sound(log \o rec.pending, executed) /\ Charged(log \o rec.pending, spent)
      /\ pc = "calling" => InCall(log \o rec.pending, rec.task, rec.turn, rec.step, asked, todo, executed)
  BY <1>1, BarrierIs
<1>5. Alike(log \o rec.pending, m) /\ InOrderOf(m) /\ Owned(m) /\ \A i \in 1 .. Len(log) : m[i] = log[i]
  <2>1. InOrderOf(log) /\ Owned(log) /\ Voiced(log \o rec.pending)
    BY <1>4 DEF RecorderInv, Stored, Sound
  <2>2. PICK c : c = Numbered(Len(log), rec.pending)
    OBVIOUS
  <2>3. m = log \o Indexed(log, c)
    BY <1>2, <2>2
  <2>4. Landed(log, rec.pending, c, m)
    BY <1>0, <2>1, <2>2, <2>3, Lands
  <2> QED
    BY <2>4 DEF Landed
<1>6. Sound(m, executed) /\ m \in Seq(Events) /\ Len(m) = Len(log) + Len(rec.pending)
  <2>1. Sound(m, executed)
    BY <1>4, <1>5, AlikeSound
  <2> QED
    BY <1>0, <1>5, <2>1 DEF Alike
<1>7. Charged(m, spent)
  BY <1>4, <1>5, TokensAlike DEF Charged
<1>8. executed \subseteq {Key(m[i]) : i \in Indices(m, "call")}
  <2>1. \A i \in Indices(log, "call") : i \in Indices(m, "call") /\ m[i] = log[i]
    <3>1. \A i \in DOMAIN log : i \in 1 .. Len(log) /\ i \in DOMAIN m
      BY <1>0, <1>6
    <3> QED
      BY <1>5, <3>1 DEF Indices
  <2>2. executed \subseteq {Key(log[i]) : i \in Indices(log, "call")}
    BY DEF RecorderInv, Stored, Recorded
  <2> QED
    BY <2>1, <2>2
<1>9. Stored'
  BY <1>1, <1>3, <1>5, <1>6, <1>7, <1>8 DEF Stored, Recorded
<1>10. CASE After[pc] = "idle"
  <2>1. <<>> \in Seq(Ids) /\ IsInjective(<<>>) /\ <<>> \in Seq(Events)
    BY EmptySeq DEF IsInjective
  <2>2. LoopTypes'
    BY <1>1, <1>10, <2>1 DEF RecorderInv, LoopTypes, Over
  <2>3. rec' = NoRecorder /\ NoRecorder \in Recorder /\ NoRecorder.seqKnown = FALSE /\ NoRecorder.pending = <<>> /\ pc' = "idle"
    BY <1>1, <1>10, <2>1 DEF Over, NoRecorder, Recorder
  <2>4. log' \o Buffer(pc', rec') = log'
    BY <1>3, <1>6, <2>3 DEF Buffer
  <2>5. PlaceOf(pc', log', rec', asked', todo', executed')
    BY <2>3 DEF PlaceOf
  <2>6. pc' \in Places /\ Charged(log', spent')
    BY <1>1, <1>3, <1>7, <2>3, PlacesAre
  <2>7. Buffered'
    BY <2>3, <2>4, <2>5, <2>6 DEF Buffered
  <2> QED
    BY <1>9, <2>2, <2>7 DEF RecorderInv
<1>11. CASE After[pc] # "idle"
  <2>1. rec' = Written(rec) /\ UNCHANGED <<asked, todo>>
    BY <1>1, <1>11
  <2>2. LoopTypes'
    BY <1>1, <2>1 DEF RecorderInv, LoopTypes
  <2>3. PICK r : r = Written(rec)
    OBVIOUS
  <2>4. /\ r \in Recorder /\ r.task = rec.task /\ r.turn = rec.turn /\ r.step = rec.step /\ r.pending = <<>>
        /\ r.nextSeq = Len(m)
    <3>1. PICK n \in Nat : n = Len(log) + Len(rec.pending)
      BY <1>0
    <3>2. r = [rec EXCEPT !.seqKnown = TRUE, !.nextSeq = n, !.pending = <<>>]
      BY <2>3, <3>1, CursorIs DEF Written
    <3>3. <<>> \in Seq(Events)
      BY EmptySeq
    <3> QED
      BY <1>0, <1>6, <3>1, <3>2, <3>3 DEF Recorder
  <2>5. m \o r.pending = m /\ pc' # "calling"
    <3>1. pc' # "calling"
      BY <1>1, PlacesAre
    <3> QED
      BY <1>6, <2>4, <3>1
  <2>6. PlaceOf(pc', m, r, asked, todo, executed)
    <3>1. CASE pc = "resuming"
      <4>1. /\ InStep(log \o rec.pending, rec.task, rec.turn, rec.step, executed)
            /\ Manifest(log \o rec.pending, rec.turn, rec.step, asked)
        BY <1>0, <3>1 DEF PlaceOf
      <4>2. InStep(m, rec.task, rec.turn, rec.step, executed) /\ Manifest(m, rec.turn, rec.step, asked)
        BY <1>5, <4>1, AlikeReady, AlikeTurn
      <4>3. pc' = "deciding"
        BY <1>1, <3>1, PlacesAre
      <4> QED
        BY <2>4, <2>5, <4>2, <4>3 DEF PlaceOf
    <3>2. CASE pc \in {"asking", "asking_last"}
      <4>1. InStep(log \o rec.pending, rec.task, rec.turn, rec.step, executed)
        BY <1>0, <3>2 DEF PlaceOf
      <4>2. InStep(m, rec.task, rec.turn, rec.step, executed)
        BY <1>5, <4>1, AlikeReady
      <4>3. pc' \in {"thinking", "thinking_last"}
        BY <1>1, <3>2, PlacesAre
      <4> QED
        BY <2>4, <2>5, <4>2, <4>3 DEF PlaceOf
    <3>3. CASE pc = "calling"
      <4>1. InCall(m, rec.task, rec.turn, rec.step, asked, todo, executed)
        BY <1>4, <1>5, <3>3, AlikeCall
      <4>2. pc' = "dispatching"
        BY <1>1, <3>3, PlacesAre
      <4> QED
        BY <2>4, <2>5, <4>1, <4>2 DEF PlaceOf
    <3>4. CASE pc \in {"stepped", "spent", "answered"}
      <4>1. Ready(log \o rec.pending, rec.task, rec.turn, rec.step, executed)
        BY <1>0, <3>4 DEF PlaceOf
      <4>2. Ready(m, rec.task, rec.turn, rec.step, executed)
        BY <1>5, <4>1, AlikeReady
      <4>3. pc' \in {"between", "last", "finishing"}
        BY <1>1, <3>4, PlacesAre
      <4> QED
        BY <2>4, <2>5, <4>2, <4>3 DEF PlaceOf
    <3> QED
      BY <1>1, <1>11, <3>1, <3>2, <3>3, <3>4, PlacesAre
  <2>7. pc' \in Places /\ Buffer(pc', r) = r.pending
    BY <1>1, <2>5, PlacesAre DEF Buffer
  <2>8. Charged(m \o Buffer(pc', r), spent)
    BY <1>7, <2>5, <2>7
  <2>9. Buffered'
    BY <1>1, <1>3, <2>1, <2>3, <2>4, <2>6, <2>7, <2>8 DEF Buffered
  <2> QED
    BY <1>9, <2>2, <2>9 DEF RecorderInv
<1> QED
  BY <1>10, <1>11

LEMMA FlushFailsStep ==
  ASSUME RecorderInv, FlushFails
  PROVE  RecorderInv'
<1>0. /\ log \in Seq(Events) /\ Charged(log, spent) /\ spent \in [Tasks -> Nat] /\ rec \in Recorder /\ rec.pending \in Seq(Events)
      /\ PlaceOf(pc, log, rec, asked, todo, executed) /\ Len(log) \in Nat
      /\ (pc # "calling" => Charged(log \o rec.pending, spent))
      /\ (pc = "calling" => Charged(log \o SubSeq(rec.pending, 1, Len(rec.pending) - 1), spent))
  BY RecorderFacts
<1>1. /\ pc \in DOMAIN After /\ UNCHANGED <<log, checkpoint, executed, spent>>
      /\ \/ After[pc] = "idle" /\ pc' = "idle" /\ Over
         \/ After[pc] # "idle" /\ pc' = "closing" /\ rec' = Stopped(pc, Unwritten(rec)) /\ UNCHANGED <<asked, todo>>
  BY DEF FlushFails
<1>2. CASE After[pc] = "idle"
  BY <1>1, <1>2, OverIs
<1>3. CASE After[pc] # "idle"
  <2>1. PICK r : r = Unwritten(rec)
    OBVIOUS
  <2>2. /\ r \in Recorder /\ r.task = rec.task /\ r.turn = rec.turn /\ r.step = rec.step /\ r.pending = rec.pending
        /\ r.nextSeq = Len(log)
    <3>1. r = [rec EXCEPT !.seqKnown = TRUE, !.nextSeq = Len(log)]
      BY <2>1, CursorIs DEF Unwritten
    <3> QED
      BY <1>0, <3>1 DEF Recorder
  <2>3. pc \in {"asking", "asking_last", "calling", "resuming", "stepped", "spent", "answered"}
    BY <1>1, <1>3, PlacesAre
  <2>4. \E o \in Recorder : /\ SameRun(r, o) /\ Ready(log \o o.pending, o.task, o.turn, o.step, executed)
                            /\ Charged(log \o o.pending, spent) /\ Stopped(pc, r) = recordTurnEnd(o)
    <3>1. CASE pc \in {"asking", "asking_last"}
      <4>1. InStep(log \o r.pending, r.task, r.turn, r.step, executed) /\ Charged(log \o r.pending, spent)
        BY <1>0, <2>2, <3>1 DEF PlaceOf
      <4>2. PICK o : o = recordStepEnd(r)
        OBVIOUS
      <4>3. o \in Recorder /\ SameRun(r, o) /\ Ready(log \o o.pending, o.task, o.turn, o.step, executed) /\ Charged(log \o o.pending, spent)
        BY <1>0, <2>2, <4>1, <4>2, StepEndIs
      <4>4. Stopped(pc, r) = recordTurnEnd(o)
        BY <3>1, <4>2 DEF Stopped
      <4> QED
        BY <4>3, <4>4
    <3>2. CASE pc = "calling"
      <4>1. PICK d : d = dropBufferedToolCall(r)
        OBVIOUS
      <4>2. PICK p : p = SubSeq(r.pending, 1, Len(r.pending) - 1)
        OBVIOUS
      <4>3. p \in Seq(Events)
        <5>1. Calling(rec, todo[1])
          BY <1>0, <3>2 DEF PlaceOf
        <5>2. PICK b \in Seq(Events), e \in Events : rec.pending = Append(b, e)
          BY <5>1 DEF Calling
        <5>3. SubSeq(rec.pending, 1, Len(rec.pending) - 1) = b
          BY <5>2
        <5> QED
          BY <2>2, <4>2, <5>3
      <4>4. /\ d \in Recorder /\ SameRun(r, d) /\ d.step = r.step /\ d.pending = p
        <5>1. d = [r EXCEPT !.pending = p]
          BY <4>1, <4>2 DEF dropBufferedToolCall
        <5> QED
          BY <2>2, <4>3, <5>1 DEF Recorder, SameRun
      <4>5. InRound(log \o d.pending, d.task, d.turn, d.step, asked, todo, executed) /\ Charged(log \o d.pending, spent)
        BY <1>0, <2>2, <3>2, <4>2, <4>4 DEF PlaceOf, SameRun
      <4>6. PICK o : o = recordStepEnd(d)
        OBVIOUS
      <4>7. o \in Recorder /\ SameRun(d, o) /\ Ready(log \o o.pending, o.task, o.turn, o.step, executed) /\ Charged(log \o o.pending, spent)
        BY <1>0, <4>4, <4>5, <4>6, RoundEndIs
      <4>8. Stopped(pc, r) = recordTurnEnd(o)
        BY <3>2, <4>1, <4>6 DEF Stopped
      <4>9. SameRun(r, o)
        BY <4>4, <4>7 DEF SameRun
      <4> QED
        BY <4>7, <4>8, <4>9
    <3>3. CASE pc \in {"resuming", "stepped", "spent", "answered"}
      <4>1. Ready(log \o r.pending, r.task, r.turn, r.step, executed) /\ Charged(log \o r.pending, spent)
        BY <1>0, <2>2, <3>3 DEF PlaceOf, InStep
      <4>2. Stopped(pc, r) = recordTurnEnd(r)
        BY <3>3 DEF Stopped
      <4>3. SameRun(r, r)
        BY DEF SameRun
      <4> QED
        BY <2>2, <4>1, <4>2, <4>3
    <3> QED
      BY <2>3, <3>1, <3>2, <3>3
  <2>5. PICK o \in Recorder : /\ SameRun(r, o) /\ Ready(log \o o.pending, o.task, o.turn, o.step, executed)
                              /\ Charged(log \o o.pending, spent) /\ Stopped(pc, r) = recordTurnEnd(o)
    BY <2>4
  <2>6. PICK q : q = recordTurnEnd(o)
    OBVIOUS
  <2>7. q \in Recorder /\ SameRun(o, q) /\ Sound(log \o q.pending, executed) /\ Charged(log \o q.pending, spent)
    BY <1>0, <2>5, <2>6, TurnEndIs
  <2>8. rec' = q /\ pc' = "closing" /\ UNCHANGED <<asked, todo>>
    BY <1>1, <1>3, <2>1, <2>5, <2>6
  <2>9. Stored' /\ LoopTypes'
    BY <1>1, <2>8, StoredStays DEF RecorderInv, LoopTypes
  <2>10. PlaceOf(pc', log, q, asked', todo', executed)
    BY <2>7, <2>8 DEF PlaceOf
  <2>11. pc' \in Places /\ Buffer(pc', q) = q.pending /\ (q.seqKnown => q.nextSeq = Len(log))
    BY <2>2, <2>5, <2>7, <2>8, PlacesAre DEF Buffer, SameRun
  <2>12. Buffered'
    BY <1>1, <2>7, <2>8, <2>10, <2>11 DEF Buffered
  <2> QED
    BY <2>9, <2>12 DEF RecorderInv
<1> QED
  BY <1>2, <1>3

-----------------------------------------------------------------------------
(* A recovery.                                                                *)

\* The turn a recovery ends is the last that was started.
EndsLast(l, turn) == \E s \in Indices(l, "turn/start") :
  l[s].turn = turn /\ (\A x \in Indices(l, "turn/start") : x <= s) /\ ~\E y \in Indices(l, "turn/end") : y > s

\* What a recovery adds to l, one event.
Closer(l, e) ==
  /\ e.by = "recovery" /\ e.type \in {"result", "step/end", "turn/end"}
  /\ \E c \in DOMAIN l : e.turn = l[c].turn /\ e.step = l[c].step
  /\ e.type = "result" => \E c \in Pending(l) : Key(e) = Key(l[c])
  /\ e.type = "step/end" => LeftOpen(l, "step")
  /\ e.type = "turn/end" => EndsLast(l, e.turn)

Added(l, m) == Len(l) + 1 .. Len(m)

\* m is l with what a recovery adds.
Closing(l, m) ==
  /\ m \in Seq(Events) /\ Len(l) \in Nat /\ Len(m) \in Nat /\ DOMAIN l = 1 .. Len(l) /\ DOMAIN m = 1 .. Len(m) /\ Len(l) <= Len(m)
  /\ \A i \in 1 .. Len(l) : m[i] = l[i]
  /\ \A j \in Added(l, m) : Closer(l, m[j])
  /\ \A c \in Pending(l) : \E j \in Added(l, m) : m[j].type = "result" /\ Key(m[j]) = Key(l[c])
  /\ \A i, j \in Added(l, m) : m[i].type = m[j].type /\ (m[i].type = "result" => Key(m[i]) = Key(m[j])) => i = j
  /\ \A what \in {"turn", "step"} : LeftOpen(l, what) => \E j \in Added(l, m) : m[j].type = EndOf(what)

LEMMA ClosingIndices ==
  ASSUME NEW l, NEW m, Closing(l, m)
  PROVE  /\ \A i \in DOMAIN m : i \in DOMAIN l \/ i \in Added(l, m)
         /\ \A i \in DOMAIN l : i \in DOMAIN m /\ m[i] = l[i] /\ i \notin Added(l, m) /\ i \in Nat
         /\ \A j \in Added(l, m) : j \in DOMAIN m /\ j \in Nat /\ j \notin DOMAIN l /\ \A i \in DOMAIN l : i < j
         /\ \A ty : \A i \in Indices(l, ty) : i \in Indices(m, ty) /\ i \in DOMAIN l /\ m[i] = l[i]
         /\ \A ty : \A i \in Indices(m, ty) : i \in Indices(l, ty) \/ (i \in Added(l, m) /\ m[i].type = ty)
         /\ \A ty \in {"turn/start", "step/start", "user", "assistant", "call"} : Indices(m, ty) = Indices(l, ty)
<1>1. \A i \in DOMAIN m : i \in DOMAIN l \/ i \in Added(l, m)
  BY DEF Closing, Added
<1>2. \A i \in DOMAIN l : i \in DOMAIN m /\ m[i] = l[i] /\ i \notin Added(l, m) /\ i \in Nat
  BY DEF Closing, Added
<1>3. \A j \in Added(l, m) : j \in DOMAIN m /\ j \in Nat /\ j \notin DOMAIN l /\ \A i \in DOMAIN l : i < j
  BY DEF Closing, Added
<1>4. \A ty : \A i \in Indices(l, ty) : i \in Indices(m, ty) /\ i \in DOMAIN l /\ m[i] = l[i]
  BY <1>2 DEF Indices
<1>5. \A ty : \A i \in Indices(m, ty) : i \in Indices(l, ty) \/ (i \in Added(l, m) /\ m[i].type = ty)
  BY <1>1, <1>2 DEF Indices
<1>6. \A ty \in {"turn/start", "step/start", "user", "assistant", "call"} : Indices(m, ty) = Indices(l, ty)
  <2>1. \A j \in Added(l, m) : m[j].type \in {"result", "step/end", "turn/end"}
    BY DEF Closing, Closer
  <2> QED
    BY <1>4, <1>5, <2>1
<1> QED
  BY <1>1, <1>2, <1>3, <1>4, <1>5, <1>6

LEMMA ClosingTurns ==
  ASSUME NEW l, NEW m, NEW ex, Closing(l, m), Sound(l, ex)
  PROVE  InNat(m) /\ Started(m) /\ StartsAreRun(m) /\ StartsApart(m) /\ InTurns(m)
<1>1. /\ \A i \in DOMAIN m : i \in DOMAIN l \/ i \in Added(l, m)
      /\ \A i \in DOMAIN l : i \in DOMAIN m /\ m[i] = l[i] /\ i \notin Added(l, m) /\ i \in Nat
      /\ \A j \in Added(l, m) : j \in DOMAIN m /\ j \in Nat /\ j \notin DOMAIN l /\ \A i \in DOMAIN l : i < j
      /\ Indices(m, "turn/start") = Indices(l, "turn/start")
      /\ \A i \in Indices(l, "turn/start") : i \in DOMAIN l
  BY ClosingIndices DEF Indices
<1>2. \A j \in Added(l, m) : m[j].by = "recovery" /\ \E c \in DOMAIN l : m[j].turn = l[c].turn /\ m[j].step = l[c].step
  BY DEF Closing, Closer
<1>3. InNat(m)
  BY <1>1, <1>2 DEF Sound, InNat
<1>4. Started(m)
  <2> SUFFICES ASSUME NEW i \in DOMAIN m PROVE \E s \in Indices(l, "turn/start") : s <= i /\ l[s].turn = m[i].turn
    BY <1>1 DEF Started
  <2>1. CASE i \in DOMAIN l
    BY <1>1, <2>1 DEF Sound, Started
  <2>2. CASE i \in Added(l, m)
    <3>1. PICK c \in DOMAIN l : m[i].turn = l[c].turn
      BY <1>2, <2>2
    <3>2. PICK s \in Indices(l, "turn/start") : s <= c /\ l[s].turn = l[c].turn
      BY DEF Sound, Started
    <3>3. s < i
      BY <1>1, <2>2
    <3>4. s <= i
      BY <1>1, <2>2, <3>3
    <3> QED
      BY <3>1, <3>2, <3>4
  <2> QED
    BY <1>1, <2>1, <2>2
<1>5. StartsAreRun(m) /\ StartsApart(m)
  BY <1>1 DEF Sound, StartsAreRun, StartsApart
<1>6. InTurns(m)
  <2> SUFFICES ASSUME NEW i \in DOMAIN m, NEW j \in DOMAIN m, i < j, m[i].turn > m[j].turn PROVE m[j].by = "recovery"
    BY DEF InTurns
  <2>1. CASE j \in Added(l, m)
    BY <1>2, <2>1
  <2>2. CASE j \in DOMAIN l
    <3>1. i \in DOMAIN l
      BY <2>2 DEF Closing
    <3> QED
      BY <1>1, <2>2, <3>1 DEF Sound, InTurns
  <2> QED
    BY <1>1, <2>1, <2>2
<1> QED
  BY <1>3, <1>4, <1>5, <1>6

LEMMA ClosingCalls ==
  ASSUME NEW l, NEW m, NEW ex, Closing(l, m), Sound(l, ex)
  PROVE  /\ OneOfEach(m, "call") /\ OneOfEach(m, "result")
         /\ CallsAnnounced(m) /\ Distinctly(m) /\ ResultsFollow(m)
<1>1. /\ \A i \in DOMAIN l : i \in DOMAIN m /\ m[i] = l[i] /\ i \notin Added(l, m) /\ i \in Nat
      /\ \A j \in Added(l, m) : j \in DOMAIN m /\ j \in Nat /\ j \notin DOMAIN l /\ \A i \in DOMAIN l : i < j
      /\ Indices(m, "call") = Indices(l, "call") /\ Indices(m, "assistant") = Indices(l, "assistant")
      /\ \A ty : \A i \in Indices(l, ty) : i \in DOMAIN l
      /\ \A i \in Indices(m, "result") : i \in Indices(l, "result") \/ (i \in Added(l, m) /\ m[i].type = "result")
  BY ClosingIndices
<1>2. \A j \in Added(l, m) : m[j].type = "result" => \E c \in Pending(l) : Key(m[j]) = Key(l[c])
  BY DEF Closing, Closer
<1>3. \A c \in Pending(l) : c \in Indices(l, "call") /\ ~\E j \in DOMAIN l : j > c /\ ToolEvent(l[j]) /\ l[j].id = l[c].id
  BY DEF Pending
<1>4. OneOfEach(m, "call") /\ CallsAnnounced(m) /\ Distinctly(m)
  BY <1>1 DEF Sound, OneOfEach, CallsAnnounced, Distinctly
<1>5. ASSUME NEW r \in Indices(l, "result"), NEW c \in Pending(l) PROVE Key(l[r]) # Key(l[c])
  <2> SUFFICES ASSUME Key(l[r]) = Key(l[c]) PROVE FALSE
    OBVIOUS
  <2>1. PICK k \in Indices(l, "call") : k < r /\ Key(l[k]) = Key(l[r])
    BY DEF Sound, ResultsFollow
  <2>2. k = c
    BY <1>3, <2>1 DEF Sound, OneOfEach
  <2>3. r \in DOMAIN l /\ r \in Nat /\ c \in Nat /\ ToolEvent(l[r]) /\ l[r].id = l[c].id
    BY <1>1, <1>3 DEF Indices, ToolEvent, Key
  <2>4. r > c
    BY <2>1, <2>2, <2>3
  <2> QED
    BY <1>3, <2>3, <2>4
<1>6. OneOfEach(m, "result")
  <2> SUFFICES ASSUME NEW i \in Indices(m, "result"), NEW j \in Indices(m, "result"), Key(m[i]) = Key(m[j]) PROVE i = j
    BY DEF OneOfEach
  <2>1. CASE i \in Indices(l, "result") /\ j \in Indices(l, "result")
    BY <1>1, <2>1 DEF Sound, OneOfEach
  <2>2. CASE i \in Indices(l, "result") /\ j \in Added(l, m) /\ m[j].type = "result"
    BY <1>1, <1>2, <1>5, <2>2
  <2>3. CASE j \in Indices(l, "result") /\ i \in Added(l, m) /\ m[i].type = "result"
    BY <1>1, <1>2, <1>5, <2>3
  <2>4. CASE i \in Added(l, m) /\ m[i].type = "result" /\ j \in Added(l, m) /\ m[j].type = "result"
    BY <2>4 DEF Closing
  <2> QED
    BY <1>1, <2>1, <2>2, <2>3, <2>4
<1>7. ResultsFollow(m)
  <2> SUFFICES ASSUME NEW r \in Indices(m, "result") PROVE \E c \in Indices(l, "call") : c < r /\ Key(l[c]) = Key(m[r])
    BY <1>1 DEF ResultsFollow
  <2>1. CASE r \in Indices(l, "result")
    BY <1>1, <2>1 DEF Sound, ResultsFollow
  <2>2. CASE r \in Added(l, m) /\ m[r].type = "result"
    <3>1. PICK c \in Pending(l) : Key(m[r]) = Key(l[c])
      BY <1>2, <2>2
    <3>2. c \in Indices(l, "call") /\ c < r
      BY <1>1, <1>3, <2>2
    <3> QED
      BY <3>1, <3>2
  <2> QED
    BY <1>1, <2>1, <2>2
<1> QED
  BY <1>4, <1>6, <1>7

LEMMA ClosingAnswers ==
  ASSUME NEW l, NEW m, NEW ex, Closing(l, m), Sound(l, ex)
  PROVE  OneAtATime(m) /\ AllAnswered(m) /\ Performed(m, ex)
<1>1. /\ \A i \in DOMAIN m : i \in DOMAIN l \/ i \in Added(l, m)
      /\ \A i \in DOMAIN l : i \in DOMAIN m /\ m[i] = l[i] /\ i \notin Added(l, m) /\ i \in Nat
      /\ \A j \in Added(l, m) : j \in DOMAIN m /\ j \in Nat /\ j \notin DOMAIN l /\ \A i \in DOMAIN l : i < j
      /\ Indices(m, "call") = Indices(l, "call")
      /\ \A ty : \A i \in Indices(l, ty) : i \in Indices(m, ty) /\ i \in DOMAIN l
      /\ \A i \in Indices(m, "turn/end") : i \in Indices(l, "turn/end") \/ (i \in Added(l, m) /\ m[i].type = "turn/end")
  BY ClosingIndices
<1>2. \A j \in Added(l, m) : m[j].by = "recovery"
  BY DEF Closing, Closer
<1>3. \A i \in Indices(l, "call") : IsAnswered(l, i) => IsAnswered(m, i)
  BY <1>1 DEF IsAnswered
<1>4. \A c \in Pending(l) : IsAnswered(m, c)
  <2> SUFFICES ASSUME NEW c \in Pending(l) PROVE \E k \in Indices(m, "result") : Key(m[k]) = Key(m[c])
    BY DEF IsAnswered
  <2>1. PICK j \in Added(l, m) : m[j].type = "result" /\ Key(m[j]) = Key(l[c])
    BY DEF Closing
  <2>2. j \in Indices(m, "result") /\ c \in DOMAIN l
    BY <1>1, <2>1 DEF Indices, Pending
  <2> QED
    BY <1>1, <2>1, <2>2
<1>5. OneAtATime(m)
  <2> SUFFICES ASSUME NEW j \in DOMAIN m, NEW i \in Indices(l, "call"), ToolEvent(m[j]), m[j].by = "run", i < j, m[i].turn = m[j].turn
               PROVE  IsAnswered(m, i)
    BY <1>1 DEF OneAtATime
  <2>1. j \in DOMAIN l
    BY <1>1, <1>2
  <2>2. IsAnswered(l, i)
    BY <1>1, <2>1 DEF Sound, OneAtATime
  <2> QED
    BY <1>3, <2>2
<1>6. Performed(m, ex)
  <2> SUFFICES ASSUME NEW i \in Indices(l, "call"), Key(m[i]) \notin ex, NEW j \in DOMAIN m, j > i, m[j].turn = m[i].turn
               PROVE  m[j].by = "recovery"
    BY <1>1 DEF Performed
  <2>1. CASE j \in DOMAIN l
    BY <1>1, <2>1 DEF Sound, Performed
  <2> QED
    BY <1>1, <1>2, <2>1
<1>7. AllAnswered(m)
  <2> SUFFICES ASSUME NEW i \in Indices(l, "call"), NEW e \in Indices(m, "turn/end"), m[i].turn = m[e].turn PROVE IsAnswered(m, i)
    BY <1>1 DEF AllAnswered
  <2>1. CASE e \in Indices(l, "turn/end")
    <3>1. IsAnswered(l, i)
      BY <1>1, <2>1 DEF Sound, AllAnswered
    <3> QED
      BY <1>3, <3>1
  <2>2. CASE e \in Added(l, m) /\ m[e].type = "turn/end" /\ i \notin Pending(l)
    <3>1. PICK s \in Indices(l, "turn/start") :
            l[s].turn = m[e].turn /\ (\A x \in Indices(l, "turn/start") : x <= s) /\ ~\E y \in Indices(l, "turn/end") : y > s
      BY <2>2 DEF Closing, Closer, EndsLast
    <3>2. PICK j \in DOMAIN l : j > i /\ ToolEvent(l[j]) /\ l[j].id = l[i].id
      BY <2>2 DEF Pending
    <3>3. i \in DOMAIN l /\ s \in DOMAIN l /\ i \in Nat /\ j \in Nat /\ s \in Nat /\ l[i].turn = l[s].turn
      BY <1>1, <3>1
    <3>4. s < i
      <4>1. PICK b \in Indices(l, "turn/start") : b <= i /\ l[b].turn = l[i].turn
        BY <3>3 DEF Sound, Started
      <4>2. b = s
        BY <3>1, <3>3, <4>1 DEF Sound, StartsApart
      <4>3. s # i
        BY DEF Indices
      <4> QED
        BY <3>3, <4>1, <4>2, <4>3
    <3>5. s < j
      BY <3>2, <3>3, <3>4
    <3>6. l[j].by = "run"
      <4>1. l[j].by # "recovery"
        BY <3>1, <3>5 DEF Sound, Mended
      <4>2. l[j] \in Events
        BY DEF Sound
      <4> QED
        BY <4>1, <4>2 DEF Events
    <3>7. l[j].turn = l[i].turn
      <4>1. PICK b \in Indices(l, "turn/start") : b <= j /\ l[b].turn = l[j].turn
        BY DEF Sound, Started
      <4>2. b <= s /\ b \in DOMAIN l /\ b \in Nat
        BY <1>1, <3>1
      <4>3. l[s].by = "run"
        BY DEF Sound, StartsAreRun
      <4>4. ~(l[b].turn > l[s].turn)
        <5>1. CASE b = s
          BY <3>3, <5>1 DEF Sound, InNat
        <5>2. CASE b < s
          BY <3>3, <4>2, <4>3, <5>2 DEF Sound, InTurns
        <5> QED
          BY <3>3, <4>2, <5>1, <5>2
      <4>5. ~(l[i].turn > l[j].turn)
        BY <3>2, <3>3, <3>6 DEF Sound, InTurns
      <4>6. l[j].turn \in Nat /\ l[i].turn \in Nat /\ l[s].turn \in Nat
        BY <3>3 DEF Sound, InNat
      <4> QED
        BY <3>3, <4>1, <4>4, <4>5, <4>6
    <3>8. i < j
      BY <3>2, <3>3
    <3>9. IsAnswered(l, i)
      BY <3>2, <3>6, <3>7, <3>8 DEF Sound, OneAtATime
    <3> QED
      BY <1>3, <3>9
  <2> QED
    BY <1>1, <1>4, <2>1, <2>2
<1> QED
  BY <1>5, <1>6, <1>7

LEMMA ClosingEnds ==
  ASSUME NEW l, NEW m, NEW ex, Closing(l, m), Sound(l, ex)
  PROVE  EndsAreDue(m, "turn") /\ EndsAreDue(m, "step") /\ Voiced(m) /\ Mended(m)
<1>1. /\ \A i \in DOMAIN m : i \in DOMAIN l \/ i \in Added(l, m)
      /\ \A i \in DOMAIN l : i \in DOMAIN m /\ m[i] = l[i] /\ i \notin Added(l, m) /\ i \in Nat
      /\ \A j \in Added(l, m) : j \in DOMAIN m /\ j \in Nat /\ j \notin DOMAIN l /\ \A i \in DOMAIN l : i < j
      /\ \A ty : \A i \in Indices(l, ty) : i \in Indices(m, ty) /\ i \in DOMAIN l
      /\ \A ty : \A i \in Indices(m, ty) : i \in Indices(l, ty) \/ (i \in Added(l, m) /\ m[i].type = ty)
      /\ Indices(m, "turn/start") = Indices(l, "turn/start") /\ Indices(m, "step/start") = Indices(l, "step/start")
  BY ClosingIndices
<1>2. ASSUME NEW what \in {"turn", "step"}, EndsAreDue(l, what) PROVE EndsAreDue(m, what)
  <2>0. /\ Indices(m, StartOf(what)) = Indices(l, StartOf(what)) /\ EndOf(what) # "result"
        /\ EndOf(what) = (IF what = "turn" THEN "turn/end" ELSE "step/end")
    BY <1>1 DEF StartOf, EndOf
  <2> SUFFICES ASSUME NEW i \in Indices(m, EndOf(what))
               PROVE  \E k \in Indices(l, StartOf(what)) : k < i /\ \A x \in Indices(m, EndOf(what)) : ~(k < x /\ x < i)
    BY <2>0 DEF EndsAreDue
  <2>1. CASE i \in Indices(l, EndOf(what))
    <3>1. PICK k \in Indices(l, StartOf(what)) : k < i /\ \A x \in Indices(l, EndOf(what)) : ~(k < x /\ x < i)
      BY <1>2, <2>1 DEF EndsAreDue
    <3>2. ASSUME NEW x \in Indices(m, EndOf(what)), x < i PROVE x \in Indices(l, EndOf(what))
      <4>1. x \notin Added(l, m)
        <5>1. i \in DOMAIN l /\ i \in Nat
          BY <1>1, <2>1
        <5>2. x \in Added(l, m) => i < x /\ x \in Nat
          BY <1>1, <5>1
        <5> QED
          BY <3>2, <5>1, <5>2
      <4> QED
        BY <1>1, <4>1
    <3> QED
      BY <3>1, <3>2
  <2>2. CASE i \in Added(l, m) /\ m[i].type = EndOf(what)
    <3>1. LeftOpen(l, what)
      <4>1. CASE what = "turn"
        <5>1. EndsLast(l, m[i].turn)
          BY <2>0, <2>2, <4>1 DEF Closing, Closer
        <5> QED
          BY <4>1, <5>1 DEF EndsLast, LeftOpen, StartOf, EndOf
      <4>2. CASE what = "step"
        BY <2>0, <2>2, <4>2 DEF Closing, Closer
      <4> QED
        BY <4>1, <4>2
    <3>2. PICK k \in Indices(l, StartOf(what)) : ~\E x \in Indices(l, EndOf(what)) : x > k
      BY <3>1 DEF LeftOpen
    <3>3. k < i /\ k \in Nat
      BY <1>1, <2>2
    <3>4. ASSUME NEW x \in Indices(m, EndOf(what)), k < x, x < i PROVE FALSE
      <4>1. CASE x \in Indices(l, EndOf(what))
        <5>1. x \in Nat
          BY <1>1, <4>1
        <5> QED
          BY <3>2, <3>3, <3>4, <4>1, <5>1
      <4>2. CASE x \in Added(l, m) /\ m[x].type = EndOf(what)
        <5>1. x = i
          BY <2>0, <2>2, <4>2 DEF Closing
        <5>2. i \in Nat
          BY <1>1, <2>2
        <5> QED
          BY <3>4, <5>1, <5>2
      <4> QED
        BY <1>1, <4>1, <4>2
    <3> QED
      BY <3>3, <3>4
  <2> QED
    BY <1>1, <2>1, <2>2
<1>3. EndsAreDue(m, "turn") /\ EndsAreDue(m, "step")
  BY <1>2 DEF Sound
<1>4. Voiced(m)
  <2> SUFFICES ASSUME NEW i \in DOMAIN m, ToolEvent(m[i]), m[i].by = "run" PROVE Voice(m, i, m[i].task)
    BY DEF Voiced
  <2>1. i \in DOMAIN l
    BY <1>1 DEF Closing, Closer
  <2>2. Voice(l, i, l[i].task)
    BY <1>1, <2>1 DEF Sound, Voiced
  <2>3. PICK j \in DOMAIN l : j < i /\ Message(l[j]) /\ l[j].task = l[i].task /\ \A k \in DOMAIN l : j < k /\ k < i => ~Message(l[k])
    BY <2>2 DEF Voice
  <2>4. ASSUME NEW k \in DOMAIN m, j < k, k < i PROVE ~Message(m[k])
    <3>1. k \in DOMAIN l
      <4>1. k \in Added(l, m) => i < k /\ k \in Nat /\ i \in Nat
        BY <1>1, <2>1
      <4> QED
        BY <1>1, <2>4, <4>1
    <3> QED
      BY <1>1, <2>3, <2>4, <3>1
  <2> QED
    BY <1>1, <2>1, <2>3, <2>4 DEF Voice
<1>5. Mended(m)
  <2> SUFFICES ASSUME NEW j \in DOMAIN m, NEW s \in Indices(l, "turn/start"), m[j].by = "recovery", s < j
               PROVE  \E e \in Indices(m, "turn/end") : e > s
    BY <1>1 DEF Mended
  <2>1. CASE \E e \in Indices(l, "turn/end") : e > s
    BY <1>1, <2>1
  <2>2. CASE ~\E e \in Indices(l, "turn/end") : e > s
    <3>1. LeftOpen(l, "turn")
      BY <2>2 DEF LeftOpen, StartOf, EndOf
    <3>2. PICK e \in Added(l, m) : m[e].type = "turn/end"
      <4>1. PICK x \in Added(l, m) : m[x].type = EndOf("turn")
        BY <3>1 DEF Closing
      <4> QED
        BY <4>1 DEF EndOf
    <3>3. e \in Indices(m, "turn/end") /\ s < e /\ s \in Nat /\ e \in Nat
      BY <1>1, <3>2 DEF Indices
    <3>4. e > s
      BY <3>3
    <3> QED
      BY <3>3, <3>4
  <2> QED
    BY <2>1, <2>2
<1> QED
  BY <1>3, <1>4, <1>5

LEMMA ClosingSound ==
  ASSUME NEW l, NEW m, NEW ex, Closing(l, m), Sound(l, ex)
  PROVE  Sound(m, ex)
<1>1. m \in Seq(Events)
  BY DEF Closing
<1> QED
  BY <1>1, ClosingTurns, ClosingCalls, ClosingAnswers, ClosingEnds DEF Sound

\* Nothing is left to do.
Whole(l) == Pending(l) = {} /\ ~LeftOpen(l, "turn") /\ ~LeftOpen(l, "step")

LEMMA ClosingSettles ==
  ASSUME NEW l, NEW m, Closing(l, m)
  PROVE  Whole(m)
<1>1. /\ \A i \in DOMAIN l : i \in DOMAIN m /\ m[i] = l[i] /\ i \notin Added(l, m) /\ i \in Nat
      /\ \A j \in Added(l, m) : j \in DOMAIN m /\ j \in Nat /\ j \notin DOMAIN l /\ \A i \in DOMAIN l : i < j
      /\ \A ty : \A i \in Indices(l, ty) : i \in Indices(m, ty) /\ i \in DOMAIN l
      /\ Indices(m, "turn/start") = Indices(l, "turn/start") /\ Indices(m, "step/start") = Indices(l, "step/start")
      /\ Indices(m, "call") = Indices(l, "call")
  BY ClosingIndices
<1>2. ASSUME NEW c \in Pending(m) PROVE FALSE
  <2>1. c \in Indices(l, "call") /\ c \in DOMAIN l /\ ~\E j \in DOMAIN m : j > c /\ ToolEvent(m[j]) /\ m[j].id = m[c].id
    BY <1>1 DEF Pending
  <2>2. c \in Pending(l)
    BY <1>1, <2>1 DEF Pending
  <2>3. PICK j \in Added(l, m) : m[j].type = "result" /\ Key(m[j]) = Key(l[c])
    BY <2>2 DEF Closing
  <2>4. j \in DOMAIN m /\ c < j /\ c \in Nat /\ j \in Nat /\ ToolEvent(m[j]) /\ m[j].id = m[c].id
    BY <1>1, <2>1, <2>3 DEF ToolEvent, Key
  <2>5. j > c
    BY <2>4
  <2> QED
    BY <2>1, <2>4, <2>5
<1>3. ASSUME NEW what \in {"turn", "step"}, LeftOpen(m, what) PROVE FALSE
  <2>1. PICK s \in Indices(l, StartOf(what)) : ~\E e \in Indices(m, EndOf(what)) : e > s
    BY <1>1, <1>3 DEF LeftOpen, StartOf
  <2>2. LeftOpen(l, what)
    BY <1>1, <2>1 DEF LeftOpen
  <2>3. PICK e \in Added(l, m) : m[e].type = EndOf(what)
    BY <2>2 DEF Closing
  <2>4. e \in Indices(m, EndOf(what)) /\ s < e /\ s \in Nat /\ e \in Nat
    BY <1>1, <2>3 DEF Indices
  <2>5. e > s
    BY <2>4
  <2> QED
    BY <2>1, <2>4, <2>5
<1> QED
  BY <1>2, <1>3 DEF Whole

\* A finite set whose elements have ranks can be listed by them.
Ranked(g, n, T, s) == s \in [1 .. n -> T] /\ \A j, k \in 1 .. n : j < k => g[s[j]] < g[s[k]]

LEMMA RankedGrows ==
  ASSUME NEW n \in Nat, NEW g, NEW T, NEW x \in T, NEW top \in Nat, NEW s,
         Ranked(g, n, T \ {x}, s), \A y \in T : g[y] \in 0 .. top /\ g[y] <= g[x] /\ (g[y] = g[x] => y = x)
  PROVE  \E q : Ranked(g, n + 1, T, q)
<1>1. PICK q : q = [i \in 1 .. n + 1 |-> IF i = n + 1 THEN x ELSE s[i]]
  OBVIOUS
<1>2. \A i \in 1 .. n : s[i] \in T \ {x}
  BY DEF Ranked
<1>3. ASSUME NEW i \in 1 .. n + 1 PROVE q[i] \in T
  <2>1. CASE i = n + 1
    BY <1>1, <2>1
  <2>2. CASE i \in 1 .. n
    BY <1>1, <1>2, <2>2
  <2> QED
    BY <2>1, <2>2
<1>4. ASSUME NEW j \in 1 .. n + 1, NEW k \in 1 .. n + 1, j < k PROVE g[q[j]] < g[q[k]]
  <2>1. j \in 1 .. n /\ q[j] = s[j]
    BY <1>1, <1>4
  <2>2. CASE k = n + 1
    <3>1. q[k] = x
      BY <1>1, <2>2
    <3>2. s[j] \in T /\ s[j] # x
      BY <1>2, <2>1
    <3>3. g[s[j]] \in 0 .. top /\ g[x] \in 0 .. top /\ g[s[j]] <= g[x] /\ g[s[j]] # g[x]
      BY <3>2
    <3> QED
      BY <2>1, <3>1, <3>3
  <2>3. CASE k \in 1 .. n
    <3>1. q[k] = s[k]
      BY <1>1, <2>3
    <3> QED
      BY <1>4, <2>1, <2>3, <3>1 DEF Ranked
  <2> QED
    BY <2>2, <2>3
<1>5. Ranked(g, n + 1, T, q)
  BY <1>1, <1>3, <1>4 DEF Ranked
<1> QED
  BY <1>5

LEMMA RankedExists ==
  ASSUME NEW S, IsFiniteSet(S), NEW top \in Nat, NEW g \in [S -> 0 .. top],
         \A x, y \in S : g[x] = g[y] => x = y
  PROVE  \E s : Ranked(g, Cardinality(S), S, s)
<1> DEFINE Unranked(n) == \E T \in SUBSET S : Cardinality(T) = n /\ ~\E s : Ranked(g, n, T, s)
<1>1. SUFFICES ASSUME Unranked(Cardinality(S)) PROVE FALSE
  OBVIOUS
<1>2. PICK B : B = {n \in Nat : Unranked(n)}
  OBVIOUS
<1>3. B \subseteq Nat /\ B # {}
  BY <1>1, <1>2, FS_CardinalityType
<1>4. PICK n \in B : \A y \in B : n <= y
  BY <1>3, LeastOf
<1>5. PICK T \in SUBSET S : Cardinality(T) = n /\ ~\E s : Ranked(g, n, T, s)
  BY <1>2, <1>4
<1>6. IsFiniteSet(T) /\ n \in Nat
  BY <1>2, <1>4, FS_Subset
<1>7. n # 0
  <2>1. SUFFICES ASSUME n = 0 PROVE FALSE
    OBVIOUS
  <2>2. PICK s : s = [i \in 1 .. 0 |-> 0]
    OBVIOUS
  <2>3. Ranked(g, 0, T, s)
    BY <2>2 DEF Ranked
  <2> QED
    BY <1>5, <2>1, <2>3
<1>8. T # {}
  BY <1>5, <1>7, FS_EmptySet
<1>9. PICK R : R = {g[y] : y \in T}
  OBVIOUS
<1>10. R \subseteq 0 .. top /\ R # {}
  BY <1>8, <1>9
<1>11. PICK v \in R : \A w \in R : w <= v
  BY <1>10, GreatestOf
<1>12. PICK x \in T : v = g[x]
  BY <1>9, <1>11
<1>13. \A y \in T : g[y] \in 0 .. top /\ g[y] <= g[x] /\ (g[y] = g[x] => y = x)
  BY <1>9, <1>11, <1>12
<1>14. PICK o \in Nat : n = o + 1
  <2>1. n - 1 \in Nat /\ n = (n - 1) + 1
    BY <1>6, <1>7
  <2> QED
    BY <2>1
<1>15. Cardinality(T \ {x}) = o
  <2>1. Cardinality(T \ {x}) = Cardinality(T) - 1
    BY <1>6, <1>12, FS_RemoveElement
  <2> QED
    BY <1>5, <1>14, <2>1
<1>16. o \notin B
  BY <1>4, <1>14
<1>17. PICK s : Ranked(g, o, T \ {x}, s)
  <2>1. T \ {x} \in SUBSET S
    OBVIOUS
  <2> QED
    BY <1>2, <1>15, <1>16, <2>1
<1>18. \E q : Ranked(g, o + 1, T, q)
  BY <1>13, <1>17, RankedGrows
<1> QED
  BY <1>5, <1>14, <1>18

\* A list of a finite set's elements, each once, is a list of all of them.
Lists(S, s) ==
  /\ s \in [1 .. Cardinality(S) -> S]
  /\ \A i, j \in 1 .. Cardinality(S) : s[i] = s[j] => i = j
  /\ \A x \in S : \E i \in 1 .. Cardinality(S) : s[i] = x

LEMMA ListsAll ==
  ASSUME NEW S, IsFiniteSet(S), NEW s \in SetToSeqs(S)
  PROVE  Lists(S, s)
<1>1. /\ s \in [1 .. Cardinality(S) -> S]
      /\ \A i, j \in 1 .. Cardinality(S) : i # j => s[i] # s[j]
  BY DEF SetToSeqs
<1>2. PICK n \in Nat : n = Cardinality(S)
  BY FS_CardinalityType
<1>3. PICK D : D = 1 .. n
  OBVIOUS
<1>4. IsFiniteSet(D) /\ Cardinality(D) = n
  BY <1>3, FS_Interval
<1>5. s \in Injection(D, S)
  BY <1>1, <1>2, <1>3 DEF Injection, IsInjective
<1>6. s \in Surjection(D, S)
  BY <1>2, <1>4, <1>5, FS_Injection
<1>7. \A x \in S : \E i \in D : s[i] = x
  BY <1>6 DEF Surjection
<1> QED
  BY <1>1, <1>2, <1>3, <1>7 DEF Lists
LEMMA FirstOfIs ==
  ASSUME NEW l, DOMAIN l \subseteq Nat, NEW i \in Indices(l, "call")
  PROVE  FirstOf(l, l[i].id) \in Indices(l, "call") /\ l[FirstOf(l, l[i].id)].id = l[i].id
<1>1. PICK S : S = {j \in Indices(l, "call") : l[j].id = l[i].id}
  OBVIOUS
<1>2. S \subseteq Nat /\ S # {}
  BY <1>1 DEF Indices
<1>3. PICK j \in S : \A k \in S : j <= k
  BY <1>2, LeastOf
<1>4. j \in Indices(l, "call") /\ l[j].id = l[i].id /\ \A k \in Indices(l, "call") : l[k].id = l[i].id => j <= k
  BY <1>1, <1>3
<1> QED
  BY <1>4 DEF FirstOf

LEMMA PendingApart ==
  ASSUME NEW l, DOMAIN l \subseteq Nat, NEW i \in Pending(l), NEW j \in Pending(l), l[i].id = l[j].id
  PROVE  i = j
<1>1. /\ i \in DOMAIN l /\ j \in DOMAIN l /\ ToolEvent(l[i]) /\ ToolEvent(l[j])
  BY DEF Pending, Indices, ToolEvent
<1>2. ~(j > i) /\ ~(i > j)
  BY <1>1 DEF Pending
<1> QED
  BY <1>1, <1>2

LEMMA InOrderIs ==
  ASSUME NEW l, Len(l) \in Nat, DOMAIN l = 1 .. Len(l)
  PROVE  IsFiniteSet(Pending(l)) /\ Lists(Pending(l), InOrder(l, Pending(l)))
<1>1. PICK S : S = Pending(l)
  OBVIOUS
<1>2. DOMAIN l \subseteq Nat /\ S \subseteq Indices(l, "call") /\ S \subseteq 1 .. Len(l)
  BY <1>1 DEF Pending, Indices
<1>3. IsFiniteSet(S)
  <2>1. IsFiniteSet(1 .. Len(l))
    BY FS_Interval
  <2> QED
    BY <1>2, <2>1, FS_Subset
<1>4. PICK g : g = [x \in S |-> FirstOf(l, l[x].id)]
  OBVIOUS
<1>5. \A x \in S : FirstOf(l, l[x].id) \in Indices(l, "call") /\ l[FirstOf(l, l[x].id)].id = l[x].id
  BY <1>2, FirstOfIs
<1>6. g \in [S -> 0 .. Len(l)]
  <2>1. \A x \in S : FirstOf(l, l[x].id) \in 0 .. Len(l)
    BY <1>5 DEF Indices
  <2> QED
    BY <1>4, <2>1
<1>7. ASSUME NEW x \in S, NEW y \in S, g[x] = g[y] PROVE x = y
  <2>1. l[x].id = l[y].id
    BY <1>4, <1>5, <1>7
  <2> QED
    BY <1>1, <1>2, <2>1, PendingApart
<1>8. PICK s : Ranked(g, Cardinality(S), S, s)
  BY <1>3, <1>6, <1>7, RankedExists
<1>9. PICK n \in Nat : n = Cardinality(S)
  BY <1>3, FS_CardinalityType
<1>10. s \in [1 .. n -> S] /\ \A j, k \in 1 .. n : j < k => g[s[j]] < g[s[k]]
  BY <1>8, <1>9 DEF Ranked
<1>11. ASSUME NEW j \in 1 .. n, NEW k \in 1 .. n, j # k PROVE s[j] # s[k]
  <2>1. s[j] \in S /\ s[k] \in S
    BY <1>10
  <2>2. g[s[j]] \in 0 .. Len(l) /\ g[s[k]] \in 0 .. Len(l)
    BY <1>6, <2>1
  <2>3. g[s[j]] < g[s[k]] \/ g[s[k]] < g[s[j]]
    BY <1>10, <1>11
  <2> QED
    BY <2>2, <2>3
<1>12. s \in SetToSeqs(S)
  BY <1>9, <1>10, <1>11 DEF SetToSeqs
<1>13. \A j, k \in DOMAIN s : j < k => FirstOf(l, l[s[j]].id) < FirstOf(l, l[s[k]].id)
  <2>1. \A j \in DOMAIN s : j \in 1 .. n /\ g[s[j]] = FirstOf(l, l[s[j]].id)
    BY <1>4, <1>10
  <2> QED
    BY <1>10, <2>1
<1>14. InOrder(l, S) \in SetToSeqs(S)
  BY <1>12, <1>13 DEF InOrder
<1> QED
  BY <1>1, <1>3, <1>14, ListsAll

\* The events a recovery adds, one by one.
Stands(l, e, ty) == e \in Events /\ e.type = ty /\ e.by = "recovery" /\ \E c \in DOMAIN l : e.turn = l[c].turn /\ e.step = l[c].step

Closed(l, s, n, x, y, b) ==
  /\ Lists(Pending(l), s) /\ n = Cardinality(Pending(l)) /\ n \in Nat /\ x \in {0, 1} /\ y \in {0, 1}
  /\ (x = 1 <=> LeftOpen(l, "step")) /\ (y = 1 <=> LeftOpen(l, "turn"))
  /\ b \in Seq(Events) /\ Len(b) = n + x + y
  /\ \A k \in 1 .. n : Stands(l, b[k], "result") /\ Key(b[k]) = Key(l[s[k]])
  /\ x = 1 => Stands(l, b[n + 1], "step/end")
  /\ y = 1 => Stands(l, b[n + x + 1], "turn/end") /\ EndsLast(l, b[n + x + 1].turn)

LEMMA Amended ==
  ASSUME NEW e \in Events, NEW ty \in Types
  PROVE  /\ [e EXCEPT !.type = ty, !.by = "recovery"] \in Events
         /\ [e EXCEPT !.type = ty, !.by = "recovery", !.owner = "none"] \in Events
         /\ [[e EXCEPT !.by = "recovery", !.owner = "none"] EXCEPT !.type = ty] \in Events
BY DEF Events

LEMMA LastStart ==
  ASSUME NEW l, Len(l) \in Nat, DOMAIN l = 1 .. Len(l), NEW what \in {"turn", "step"}, LeftOpen(l, what),
         NEW i, i = LastOf(Indices(l, StartOf(what)))
  PROVE  /\ i \in Indices(l, StartOf(what)) /\ i \in DOMAIN l /\ (\A x \in Indices(l, StartOf(what)) : x <= i)
         /\ ~\E y \in Indices(l, EndOf(what)) : y > i
<1>1. PICK S : S = Indices(l, StartOf(what))
  OBVIOUS
<1>2. PICK k \in S : ~\E y \in Indices(l, EndOf(what)) : y > k
  BY <1>1 DEF LeftOpen
<1>3. S \subseteq 0 .. Len(l) /\ S # {}
  BY <1>1, <1>2 DEF Indices
<1>4. \E x \in S : \A y \in S : y <= x
  BY <1>3, GreatestOf
<1>5. i \in S /\ \A y \in S : y <= i
  BY <1>1, <1>4 DEF LastOf
<1>6. k <= i /\ k \in Nat /\ i \in Nat
  BY <1>2, <1>3, <1>5
<1>7. \A y \in Indices(l, EndOf(what)) : y \in Nat
  BY DEF Indices
<1> QED
  BY <1>1, <1>2, <1>5, <1>6, <1>7 DEF Indices
\* Up to two events behind a list.
Joined(a, b, c, z) ==
  /\ Len(z) = Len(a) + Len(b) + Len(c)
  /\ \A k \in 1 .. Len(a) : z[k] = a[k]
  /\ Len(b) = 1 => z[Len(a) + 1] = b[1]
  /\ Len(c) = 1 => z[Len(a) + Len(b) + 1] = c[1]

LEMMA JoinThree ==
  ASSUME NEW a \in Seq(Events), NEW b \in Seq(Events), NEW c \in Seq(Events), Len(b) \in {0, 1}, Len(c) \in {0, 1}
  PROVE  a \o b \o c \in Seq(Events) /\ Joined(a, b, c, a \o b \o c)
<1>1. PICK d : d = a \o b
  OBVIOUS
<1>2. d \in Seq(Events) /\ Len(a) \in Nat /\ Len(b) \in Nat /\ Len(c) \in Nat /\ Len(d) = Len(a) + Len(b)
  BY <1>1
<1>3. \A k \in 1 .. Len(a) : d[k] = a[k]
  BY <1>1
<1>4. Len(b) = 1 => d[Len(a) + 1] = b[1]
  BY <1>1, <1>2
<1>5. PICK z : z = d \o c
  OBVIOUS
<1>6. z \in Seq(Events) /\ Len(z) = Len(d) + Len(c)
  <2>1. d \in Seq(Events)
    BY <1>2
  <2> QED
    BY <1>5, <2>1
<1>7. \A k \in 1 .. Len(d) : z[k] = d[k]
  BY <1>2, <1>5
<1>8. ASSUME Len(c) = 1 PROVE z[Len(d) + 1] = c[1]
  <2>1. Len(d) + 1 \in 1 .. Len(d) + Len(c) /\ Len(d) + 1 > Len(d) /\ (Len(d) + 1) - Len(d) = 1
    BY <1>2, <1>8
  <2> QED
    BY <1>2, <1>5, <2>1
<1>9. \A k \in 1 .. Len(a) : z[k] = a[k]
  BY <1>2, <1>3, <1>7
<1>10. Len(b) = 1 => z[Len(a) + 1] = b[1]
  <2>1. Len(b) = 1 => Len(a) + 1 \in 1 .. Len(d)
    BY <1>2
  <2> QED
    BY <1>4, <1>7, <2>1
<1>11. Joined(a, b, c, z)
  BY <1>2, <1>6, <1>8, <1>9, <1>10 DEF Joined
<1> QED
  BY <1>1, <1>5, <1>6, <1>11

LEMMA ClosersAre ==
  ASSUME NEW l \in Seq(Events)
  PROVE  \E s, n, x, y : Closed(l, s, n, x, y, Closers(l))
<1>0. Len(l) \in Nat /\ DOMAIN l = 1 .. Len(l)
  OBVIOUS
<1>1. PICK s : s = InOrder(l, Pending(l))
  OBVIOUS
<1>2. PICK n \in Nat : n = Cardinality(Pending(l))
  BY <1>0, InOrderIs, FS_CardinalityType
<1>3. Lists(Pending(l), s)
  BY <1>0, <1>1, InOrderIs
<1>4. s \in [1 .. n -> Pending(l)]
  BY <1>2, <1>3 DEF Lists
<1>5. PICK a : a = [k \in 1 .. n |-> [l[s[k]] EXCEPT !.type = "result", !.by = "recovery", !.owner = "none"]]
  OBVIOUS
<1>6. ASSUME NEW k \in 1 .. n PROVE Stands(l, a[k], "result") /\ Key(a[k]) = Key(l[s[k]])
  <2>1. s[k] \in DOMAIN l /\ l[s[k]] \in Events
    <3>1. s[k] \in Pending(l)
      BY <1>4
    <3>2. s[k] \in DOMAIN l
      BY <3>1 DEF Pending, Indices
    <3> QED
      BY <3>2
  <2>2. "result" \in Types
    BY DEF Types
  <2>3. a[k] = [l[s[k]] EXCEPT !.type = "result", !.by = "recovery", !.owner = "none"]
    BY <1>5
  <2>4. a[k] \in Events
    <3>1. PICK e \in Events : e = l[s[k]]
      BY <2>1
    <3>2. [e EXCEPT !.type = "result", !.by = "recovery", !.owner = "none"] \in Events
      BY <2>2, Amended
    <3> QED
      BY <2>3, <3>1, <3>2
  <2>5. a[k].type = "result" /\ a[k].by = "recovery" /\ a[k].turn = l[s[k]].turn /\ a[k].step = l[s[k]].step /\ a[k].id = l[s[k]].id
    BY <2>1, <2>3 DEF Events
  <2> QED
    BY <2>1, <2>4, <2>5 DEF Stands, Key
<1>7. a \in Seq(Events) /\ Len(a) = n
  <2>1. a \in [1 .. n -> Events]
    BY <1>5, <1>6 DEF Stands
  <2> QED
    BY <2>1
<1>8. PICK step : step = LastOf(Indices(l, "step/start"))
  OBVIOUS
<1>9. PICK b : b = IF LeftOpen(l, "step") THEN <<[l[step] EXCEPT !.type = "step/end", !.by = "recovery"]>> ELSE <<>>
  OBVIOUS
<1>10. PICK x : x = IF LeftOpen(l, "step") THEN 1 ELSE 0
  OBVIOUS
<1>11. /\ b \in Seq(Events) /\ Len(b) = x /\ x \in {0, 1} /\ (x = 1 <=> LeftOpen(l, "step"))
       /\ x = 1 => Stands(l, b[1], "step/end")
  <2>1. CASE ~LeftOpen(l, "step")
    <3>1. b = <<>> /\ x = 0
      BY <1>9, <1>10, <2>1
    <3> QED
      BY <2>1, <3>1, EmptySeq
  <2>2. CASE LeftOpen(l, "step")
    <3>1. step \in DOMAIN l
      <4>1. StartOf("step") = "step/start"
        BY DEF StartOf
      <4> QED
        BY <1>0, <1>8, <2>2, <4>1, LastStart
    <3>2. PICK e : e = [l[step] EXCEPT !.type = "step/end", !.by = "recovery"]
      OBVIOUS
    <3>3. l[step] \in Events /\ "step/end" \in Types
      BY <3>1 DEF Types
    <3>4. e \in Events
      BY <3>2, <3>3, Amended
    <3>5. e.type = "step/end" /\ e.by = "recovery" /\ e.turn = l[step].turn /\ e.step = l[step].step
      BY <3>2, <3>3 DEF Events
    <3>6. b = <<e>> /\ x = 1
      BY <1>9, <1>10, <2>2, <3>2
    <3>7. b \in Seq(Events) /\ Len(b) = 1 /\ b[1] = e
      BY <3>4, <3>6
    <3>8. Stands(l, e, "step/end")
      BY <3>1, <3>4, <3>5 DEF Stands
    <3> QED
      BY <2>2, <3>6, <3>7, <3>8
  <2> QED
    BY <2>1, <2>2
<1>12. PICK last : last = LastOf(Indices(l, "turn/start"))
  OBVIOUS
<1>13. PICK c : c = IF LeftOpen(l, "turn") THEN <<[[l[last] EXCEPT !.by = "recovery", !.owner = "none"] EXCEPT !.type = "turn/end"]>> ELSE <<>>
  OBVIOUS
<1>14. PICK y : y = IF LeftOpen(l, "turn") THEN 1 ELSE 0
  OBVIOUS
<1>15. /\ c \in Seq(Events) /\ Len(c) = y /\ y \in {0, 1} /\ (y = 1 <=> LeftOpen(l, "turn"))
       /\ y = 1 => Stands(l, c[1], "turn/end") /\ EndsLast(l, c[1].turn)
  <2>1. CASE ~LeftOpen(l, "turn")
    <3>1. c = <<>> /\ y = 0
      BY <1>13, <1>14, <2>1
    <3> QED
      BY <2>1, <3>1, EmptySeq
  <2>2. CASE LeftOpen(l, "turn")
    <3>0. StartOf("turn") = "turn/start" /\ EndOf("turn") = "turn/end"
      BY DEF StartOf, EndOf
    <3>1. /\ last \in DOMAIN l /\ last \in Indices(l, "turn/start") /\ (\A i \in Indices(l, "turn/start") : i <= last)
          /\ ~\E j \in Indices(l, "turn/end") : j > last
      BY <1>0, <1>12, <2>2, <3>0, LastStart
    <3>2. PICK e : e = [[l[last] EXCEPT !.by = "recovery", !.owner = "none"] EXCEPT !.type = "turn/end"]
      OBVIOUS
    <3>3. l[last] \in Events /\ "turn/end" \in Types
      BY <3>1 DEF Types
    <3>4. e \in Events
      BY <3>2, <3>3, Amended
    <3>5. e.type = "turn/end" /\ e.by = "recovery" /\ e.turn = l[last].turn /\ e.step = l[last].step
      BY <3>2, <3>3 DEF Events
    <3>6. c = <<e>> /\ y = 1
      BY <1>13, <1>14, <2>2, <3>2
    <3>7. c \in Seq(Events) /\ Len(c) = 1 /\ c[1] = e
      BY <3>4, <3>6
    <3>8. Stands(l, e, "turn/end")
      BY <3>1, <3>4, <3>5 DEF Stands
    <3>9. EndsLast(l, e.turn)
      BY <3>1, <3>5 DEF EndsLast
    <3> QED
      BY <2>2, <3>6, <3>7, <3>8, <3>9
  <2> QED
    BY <2>1, <2>2
<1>16. Closers(l) = a \o b \o c
  <2>1. DOMAIN s = 1 .. n
    BY <1>4
  <2>2. a = [k \in DOMAIN s |-> [l[s[k]] EXCEPT !.type = "result", !.by = "recovery", !.owner = "none"]]
    BY <1>5, <2>1
  <2> QED
    BY <1>1, <1>8, <1>9, <1>12, <1>13, <2>2 DEF Closers
<1>17. PICK z : z = a \o b \o c
  OBVIOUS
<1>18. /\ z \in Seq(Events) /\ Len(z) = n + x + y
       /\ \A k \in 1 .. n : z[k] = a[k]
       /\ x = 1 => z[n + 1] = b[1]
       /\ y = 1 => z[n + x + 1] = c[1]
  <2>1. Len(b) \in {0, 1} /\ Len(c) \in {0, 1} /\ b \in Seq(Events) /\ c \in Seq(Events)
    BY <1>11, <1>15
  <2>2. z \in Seq(Events) /\ Joined(a, b, c, z)
    BY <1>7, <1>17, <2>1, JoinThree
  <2> QED
    BY <1>7, <1>11, <1>15, <2>2 DEF Joined
<1>19. Closed(l, s, n, x, y, z)
  BY <1>2, <1>3, <1>6, <1>11, <1>15, <1>18 DEF Closed
<1> QED
  BY <1>16, <1>17, <1>19

LEMMA ClosedParts ==
  ASSUME NEW l, NEW s, NEW n, NEW x, NEW y, NEW b, Closed(l, s, n, x, y, b), NEW k \in 1 .. Len(b)
  PROVE  \/ k \in 1 .. n /\ b[k].type = "result"
         \/ x = 1 /\ k = n + 1 /\ b[k].type = "step/end"
         \/ y = 1 /\ k = n + x + 1 /\ b[k].type = "turn/end"
<1>1. n \in Nat /\ x \in {0, 1} /\ y \in {0, 1} /\ Len(b) = n + x + y
  BY DEF Closed
<1>2. CASE k \in 1 .. n
  BY <1>2 DEF Closed, Stands
<1>3. CASE x = 1 /\ k = n + 1
  BY <1>3 DEF Closed, Stands
<1>4. CASE y = 1 /\ k = n + x + 1
  BY <1>4 DEF Closed, Stands
<1>5. k \in 1 .. n \/ (x = 1 /\ k = n + 1) \/ (y = 1 /\ k = n + x + 1)
  BY <1>1
<1> QED
  BY <1>2, <1>3, <1>4, <1>5

LEMMA ClosedCloses ==
  ASSUME NEW l, NEW s, NEW n, NEW x, NEW y, NEW b, Closed(l, s, n, x, y, b), NEW k \in 1 .. Len(b)
  PROVE  Closer(l, b[k])
<1>1. n \in Nat /\ x \in {0, 1} /\ y \in {0, 1} /\ Len(b) = n + x + y /\ s \in [1 .. n -> Pending(l)]
  BY DEF Closed, Lists
<1>2. CASE k \in 1 .. n /\ b[k].type = "result"
  <2>1. s[k] \in Pending(l) /\ Key(b[k]) = Key(l[s[k]]) /\ Stands(l, b[k], "result")
    BY <1>1, <1>2 DEF Closed
  <2> QED
    BY <1>2, <2>1 DEF Closer, Stands
<1>3. CASE x = 1 /\ k = n + 1 /\ b[k].type = "step/end"
  <2>1. LeftOpen(l, "step") /\ Stands(l, b[k], "step/end")
    BY <1>3 DEF Closed
  <2> QED
    BY <2>1 DEF Closer, Stands
<1>4. CASE y = 1 /\ k = n + x + 1 /\ b[k].type = "turn/end"
  <2>1. EndsLast(l, b[k].turn) /\ Stands(l, b[k], "turn/end")
    BY <1>4 DEF Closed
  <2> QED
    BY <2>1 DEF Closer, Stands
<1> QED
  BY <1>2, <1>3, <1>4, ClosedParts

LEMMA ClosedApart ==
  ASSUME NEW l, OneOfEach(l, "call"), NEW s, NEW n, NEW x, NEW y, NEW b, Closed(l, s, n, x, y, b),
         NEW j \in 1 .. Len(b), NEW k \in 1 .. Len(b),
         b[j].type = b[k].type, b[j].type = "result" => Key(b[j]) = Key(b[k])
  PROVE  j = k
<1>1. n \in Nat /\ x \in {0, 1} /\ y \in {0, 1} /\ s \in [1 .. n -> Pending(l)] /\ \A c, d \in 1 .. n : s[c] = s[d] => c = d
  BY DEF Closed, Lists
<1>2. CASE j \in 1 .. n /\ b[j].type = "result"
  <2>1. k \in 1 .. n
    BY <1>2, ClosedParts
  <2>2. Key(b[j]) = Key(l[s[j]]) /\ Key(b[k]) = Key(l[s[k]])
    BY <1>2, <2>1 DEF Closed
  <2>3. s[j] \in Indices(l, "call") /\ s[k] \in Indices(l, "call")
    BY <1>1, <1>2, <2>1 DEF Pending
  <2>4. s[j] = s[k]
    BY <1>2, <2>2, <2>3 DEF OneOfEach
  <2> QED
    BY <1>1, <1>2, <2>1, <2>4
<1>3. CASE x = 1 /\ j = n + 1 /\ b[j].type = "step/end"
  BY <1>3, ClosedParts
<1>4. CASE y = 1 /\ j = n + x + 1 /\ b[j].type = "turn/end"
  BY <1>4, ClosedParts
<1> QED
  BY <1>2, <1>3, <1>4, ClosedParts

LEMMA ClosedIs ==
  ASSUME NEW l \in Seq(Events), OneOfEach(l, "call"), NEW s, NEW n, NEW x, NEW y, NEW b, Closed(l, s, n, x, y, b),
         NEW m, m = l \o b
  PROVE  Closing(l, m)
<1>1. b \in Seq(Events) /\ n \in Nat /\ x \in {0, 1} /\ y \in {0, 1} /\ Len(b) = n + x + y
  BY DEF Closed
<1>2. /\ Len(l) \in Nat /\ Len(b) \in Nat /\ m \in Seq(Events) /\ Len(m) = Len(l) + Len(b) /\ Len(m) \in Nat
      /\ DOMAIN l = 1 .. Len(l) /\ DOMAIN m = 1 .. Len(m) /\ Len(l) <= Len(m)
  BY <1>1
<1>3. \A i \in 1 .. Len(l) : m[i] = l[i]
  BY <1>1
<1>4. \A k \in 1 .. Len(b) : Len(l) + k \in Added(l, m) /\ m[Len(l) + k] = b[k]
  <2>1. ASSUME NEW k \in 1 .. Len(b) PROVE Len(l) + k \in Added(l, m) /\ m[Len(l) + k] = b[k]
    <3>1. Len(l) + k \in Len(l) + 1 .. Len(l) + Len(b) /\ Len(l) + k > Len(l) /\ (Len(l) + k) - Len(l) = k
      BY <1>2
    <3>2. m[Len(l) + k] = b[k]
      BY <1>1, <1>2, <3>1
    <3> QED
      BY <1>2, <3>1, <3>2 DEF Added
  <2> QED
    BY <2>1
<1>5. ASSUME NEW j \in Added(l, m) PROVE \E k \in 1 .. Len(b) : j = Len(l) + k /\ m[j] = b[k]
  <2>1. j - Len(l) \in 1 .. Len(b) /\ j = Len(l) + (j - Len(l))
    BY <1>2, <1>5 DEF Added
  <2> QED
    BY <1>4, <2>1
<1>6. ASSUME NEW j \in Added(l, m) PROVE Closer(l, m[j])
  <2>1. PICK k \in 1 .. Len(b) : j = Len(l) + k /\ m[j] = b[k]
    BY <1>5, <1>6
  <2> QED
    BY <2>1, ClosedCloses
<1>7. ASSUME NEW c \in Pending(l) PROVE \E j \in Added(l, m) : m[j].type = "result" /\ Key(m[j]) = Key(l[c])
  <2>1. PICK k \in 1 .. n : s[k] = c
    BY <1>7 DEF Closed, Lists
  <2>2. Stands(l, b[k], "result") /\ Key(b[k]) = Key(l[s[k]])
    BY <2>1 DEF Closed
  <2>3. b[k].type = "result"
    BY <2>2 DEF Stands
  <2>4. k \in 1 .. Len(b)
    BY <1>1, <2>1
  <2> QED
    BY <1>4, <2>1, <2>2, <2>3, <2>4
<1>8. ASSUME NEW i \in Added(l, m), NEW j \in Added(l, m), m[i].type = m[j].type, m[i].type = "result" => Key(m[i]) = Key(m[j])
      PROVE  i = j
  <2>1. PICK k \in 1 .. Len(b) : i = Len(l) + k /\ m[i] = b[k]
    BY <1>5
  <2>2. PICK o \in 1 .. Len(b) : j = Len(l) + o /\ m[j] = b[o]
    BY <1>5
  <2>3. k = o
    <3>1. b[k].type = b[o].type /\ (b[k].type = "result" => Key(b[k]) = Key(b[o]))
      BY <1>8, <2>1, <2>2
    <3> QED
      BY <3>1, ClosedApart
  <2> QED
    BY <2>1, <2>2, <2>3
<1>9. ASSUME NEW what \in {"turn", "step"}, LeftOpen(l, what) PROVE \E j \in Added(l, m) : m[j].type = EndOf(what)
  <2>1. CASE what = "step"
    <3>1. x = 1 /\ n + 1 \in 1 .. Len(b)
      BY <1>1, <1>9, <2>1 DEF Closed
    <3>2. b[n + 1].type = "step/end"
      BY <3>1 DEF Closed, Stands
    <3> QED
      BY <1>4, <2>1, <3>1, <3>2 DEF EndOf
  <2>2. CASE what = "turn"
    <3>1. y = 1 /\ n + x + 1 \in 1 .. Len(b)
      BY <1>1, <1>9, <2>2 DEF Closed
    <3>2. b[n + x + 1].type = "turn/end"
      BY <3>1 DEF Closed, Stands
    <3> QED
      BY <1>4, <2>2, <3>1, <3>2 DEF EndOf
  <2> QED
    BY <2>1, <2>2
<1> QED
  BY <1>2, <1>3, <1>6, <1>7, <1>8, <1>9 DEF Closing

\* What a recovery of a sound log adds.
LEMMA ClosersClose ==
  ASSUME NEW l \in Seq(Events), NEW ex, Sound(l, ex)
  PROVE  Closers(l) \in Seq(Events) /\ Closing(l, l \o Closers(l))
<1>1. OneOfEach(l, "call")
  BY DEF Sound
<1>2. PICK b : b = Closers(l)
  OBVIOUS
<1>3. PICK s, n, x, y : Closed(l, s, n, x, y, b)
  BY <1>2, ClosersAre
<1>4. b \in Seq(Events)
  BY <1>3 DEF Closed
<1>5. PICK m : m = l \o b
  OBVIOUS
<1>6. Closing(l, m)
  BY <1>1, <1>3, <1>5, ClosedIs
<1> QED
  BY <1>2, <1>4, <1>5, <1>6

\* No end of a sound log is without its start.
LEMMA EndsHaveStarts ==
  ASSUME NEW l \in Seq(Events), NEW ex, Sound(l, ex), NEW what \in {"turn", "step"}
  PROVE  ~StrayEnd(l, what)
<1>1. EndsAreDue(l, what)
  BY DEF Sound
<1>2. SUFFICES ASSUME NEW i \in Indices(l, EndOf(what)) PROVE LeftOpen(SubSeq(l, 1, i - 1), what)
  BY DEF StrayEnd
<1>3. PICK k \in Indices(l, StartOf(what)) : k < i /\ \A m \in Indices(l, EndOf(what)) : ~(k < m /\ m < i)
  BY <1>1, <1>2 DEF EndsAreDue
<1>4. i \in 1 .. Len(l) /\ Len(l) \in Nat /\ k \in 1 .. Len(l)
  BY <1>2 DEF Indices
<1>5. PICK p : p = SubSeq(l, 1, i - 1)
  OBVIOUS
<1>6. p \in Seq(Events) /\ Len(p) = i - 1 /\ DOMAIN p = 1 .. i - 1 /\ \A c \in 1 .. i - 1 : p[c] = l[c]
  BY <1>4, <1>5
<1>7. k \in Indices(p, StartOf(what))
  BY <1>3, <1>4, <1>6 DEF Indices
<1>8. ASSUME NEW m \in Indices(p, EndOf(what)) PROVE ~(m > k)
  <2>1. m \in 1 .. i - 1 /\ m \in Indices(l, EndOf(what)) /\ m < i
    BY <1>4, <1>6, <1>8 DEF Indices
  <2> QED
    BY <1>3, <1>4, <2>1
<1> QED
  BY <1>5, <1>7, <1>8 DEF LeftOpen

\* A whole log has nothing to close, and can be loaded.
LEMMA WholeSettles ==
  ASSUME NEW l \in Seq(Events), NEW ex, Sound(l, ex), Whole(l)
  PROVE  ~Refused(l) /\ Closers(l) = <<>>
<1>1. Closers(l) = <<>>
  <2>1. PICK b : b = Closers(l)
    OBVIOUS
  <2>2. PICK s, n, x, y : Closed(l, s, n, x, y, b)
    BY <2>1, ClosersAre
  <2>3. n = 0 /\ x = 0 /\ y = 0
    BY <2>2, FS_EmptySet DEF Closed, Whole
  <2>4. b \in Seq(Events) /\ Len(b) = 0
    BY <2>2, <2>3 DEF Closed
  <2> QED
    BY <2>1, <2>4
<1>2. ~StrayEnd(l, "turn") /\ ~StrayEnd(l, "step")
  BY EndsHaveStarts
<1>3. ~Refused(l)
  BY <1>2 DEF Refused, Whole
<1> QED
  BY <1>1, <1>3

LEMMA AlikeWhole ==
  ASSUME NEW l, NEW m, Alike(l, m), Whole(l)
  PROVE  Whole(m)
<1>1. /\ \A ty : Indices(m, ty) = Indices(l, ty)
      /\ DOMAIN m = DOMAIN l
      /\ \A ty : \A i \in Indices(l, ty) : i \in DOMAIN l
      /\ \A i \in DOMAIN l : ToolEvent(m[i]) <=> ToolEvent(l[i])
  BY AlikeFacts
<1>2. \A i \in DOMAIN l : m[i].id = l[i].id
  BY DEF Alike
<1>3. Pending(m) = Pending(l)
  BY <1>1, <1>2 DEF Pending
<1>4. \A what : LeftOpen(m, what) <=> LeftOpen(l, what)
  BY <1>1 DEF LeftOpen
<1> QED
  BY <1>3, <1>4 DEF Whole

LEMMA NextSeqIs ==
  ASSUME NEW l \in Seq(Events), InOrderOf(l)
  PROVE  NextSeq(l) = Len(l)
<1>1. CASE l = <<>>
  BY <1>1 DEF NextSeq
<1>2. CASE l # <<>>
  <2>1. Len(l) \in DOMAIN l
    BY <1>2
  <2>2. l[Len(l)].seq = Len(l) - 1
    BY <2>1 DEF InOrderOf
  <2> QED
    BY <1>2, <2>2 DEF NextSeq
<1> QED
  BY <1>1, <1>2

\* A recovery charges nobody.
LEMMA ClosingTokens ==
  ASSUME NEW l, NEW m, Closing(l, m), NEW task, Tokens(l, task) \in Nat
  PROVE  Tokens(m, task) = Tokens(l, task)
<1>1. /\ Len(l) \in Nat /\ Len(m) \in Nat /\ Len(l) <= Len(m)
      /\ \A i \in 1 .. Len(l) : l[i].type = m[i].type /\ l[i].task = m[i].task /\ l[i].usage = m[i].usage
  BY DEF Closing
<1>2. PICK f : Sums(l, task, Len(l), f) /\ Tokens(l, task) = f[Len(l)]
  BY <1>1, TokensAreSum
<1>3. PICK g : Sums(m, task, Len(m), g) /\ Tokens(m, task) = g[Len(m)]
  BY <1>1, TokensAreSum
<1>4. g[Len(l)] = Tokens(l, task)
  <2>1. f[Len(l)] = g[Len(l)]
    BY <1>1, <1>2, <1>3, SumsAgree
  <2> QED
    BY <1>2, <2>1
<1>5. PICK T : T = {i \in Len(l) .. Len(m) : g[i] # Tokens(l, task)}
  OBVIOUS
<1>6. ASSUME T # {} PROVE FALSE
  <2>1. T \subseteq Nat
    BY <1>1, <1>5
  <2>2. PICK i \in T : \A j \in T : i <= j
    BY <1>6, <2>1, LeastOf
  <2>3. i \in Len(l) .. Len(m) /\ g[i] # Tokens(l, task) /\ i # Len(l)
    BY <1>4, <1>5, <2>2
  <2>4. i - 1 \in Len(l) .. Len(m) /\ i - 1 < i /\ i # 0 /\ i \in 0 .. Len(m) /\ i \in Added(l, m)
    BY <1>1, <2>3 DEF Added
  <2>5. g[i - 1] = Tokens(l, task)
    BY <1>1, <1>5, <2>2, <2>4
  <2>6. g[i] = g[i - 1] + (IF m[i].type = "assistant" /\ m[i].task = task THEN m[i].usage ELSE 0)
    BY <1>3, <2>4 DEF Sums
  <2>7. m[i].type # "assistant"
    BY <2>4 DEF Closing, Closer
  <2> QED
    BY <2>3, <2>5, <2>6, <2>7
<1>7. Len(m) \in Len(l) .. Len(m)
  BY <1>1
<1> QED
  BY <1>3, <1>5, <1>6, <1>7

\* The log a recovery leaves, by the name of m.
Mends(l, m, ex, s) ==
  /\ Sound(m, ex) /\ Whole(m) /\ m \in Seq(Events) /\ InOrderOf(m) /\ Owned(m) /\ Charged(m, s)
  /\ Len(l) <= Len(m) /\ \A i \in 1 .. Len(l) : m[i] = l[i]

LEMMA RecoverIs ==
  ASSUME RecorderInv, Recover
  PROVE  Mends(log, log', executed, spent)
<1>1. /\ log \in Seq(Events) /\ Sound(log, executed) /\ Charged(log, spent) /\ spent \in [Tasks -> Nat] /\ Len(log) \in Nat
      /\ InOrderOf(log) /\ Owned(log)
  BY RecorderFacts DEF RecorderInv, Stored
<1>2. PICK b : b = Closers(log)
  OBVIOUS
<1>3. b \in Seq(Events) /\ Closing(log, log \o b)
  BY <1>1, <1>2, ClosersClose
<1>4. PICK w : w = log \o b
  OBVIOUS
<1>5. Closing(log, w) /\ w \in Seq(Events) /\ Len(w) = Len(log) + Len(b) /\ Len(log) <= Len(w)
  BY <1>1, <1>3, <1>4
<1>6. Sound(w, executed) /\ Whole(w)
  BY <1>1, <1>5, ClosingSound, ClosingSettles
<1>7. PICK c : c = Numbered(Len(log), b)
  OBVIOUS
<1>8. PICK m : m = log \o Indexed(log, c)
  OBVIOUS
<1>9. Landed(log, b, c, m)
  <2>1. Voiced(log \o b)
    BY <1>4, <1>6 DEF Sound
  <2> QED
    BY <1>1, <1>3, <1>7, <1>8, <2>1, Lands
<1>10. Alike(w, m) /\ InOrderOf(m) /\ Owned(m) /\ (\A i \in 1 .. Len(log) : m[i] = log[i])
  BY <1>4, <1>9 DEF Landed
<1>11. log' = m
  <2>1. log' = log \o Indexed(log, Numbered(NextSeq(log), b))
    BY <1>2 DEF Recover, Load, AppendBatch
  <2>2. NextSeq(log) = Len(log)
    BY <1>1, NextSeqIs
  <2> QED
    BY <1>7, <1>8, <2>1, <2>2
<1>12. Sound(m, executed) /\ Whole(m)
  BY <1>6, <1>10, AlikeSound, AlikeWhole
<1>13. Len(m) = Len(w) /\ m \in Seq(Events)
  BY <1>10 DEF Alike
<1>14. Charged(m, spent)
  <2>1. ASSUME NEW t \in Tasks PROVE Tokens(m, t) \in 0 .. spent[t]
    <3>1. Tokens(log, t) \in 0 .. spent[t] /\ spent[t] \in Nat
      BY <1>1 DEF Charged
    <3>2. Tokens(log, t) \in Nat
      BY <3>1
    <3>3. Tokens(w, t) = Tokens(log, t)
      BY <1>5, <3>2, ClosingTokens
    <3>4. Tokens(m, t) = Tokens(w, t)
      BY <1>10, TokensAlike
    <3> QED
      BY <3>1, <3>3, <3>4
  <2> QED
    BY <2>1 DEF Charged
<1>15. Mends(log, m, executed, spent)
  BY <1>5, <1>10, <1>12, <1>13, <1>14 DEF Mends
<1> QED
  BY <1>11, <1>15

LEMMA RecoverStep ==
  ASSUME RecorderInv, Recover
  PROVE  RecorderInv'
<1>1. pc = "idle" /\ UNCHANGED <<pc, rec, loopVars, executed, spent>>
  BY DEF Recover
<1>2. Mends(log, log', executed, spent)
  BY RecoverIs
<1>3. PICK m : m = log'
  OBVIOUS
<1>4. /\ Sound(m, executed) /\ m \in Seq(Events) /\ InOrderOf(m) /\ Owned(m) /\ Charged(m, spent)
      /\ Len(log) <= Len(m) /\ \A i \in 1 .. Len(log) : m[i] = log[i]
  BY <1>2, <1>3 DEF Mends
<1>5. executed \subseteq {Key(m[i]) : i \in Indices(m, "call")}
  <2>1. \A i \in Indices(log, "call") : i \in Indices(m, "call") /\ m[i] = log[i]
    <3>1. Len(log) \in Nat /\ DOMAIN log = 1 .. Len(log) /\ Len(m) \in Nat /\ DOMAIN m = 1 .. Len(m)
      BY <1>4, RecorderFacts
    <3>2. \A i \in DOMAIN log : i \in 1 .. Len(log) /\ i \in DOMAIN m
      BY <1>4, <3>1
    <3> QED
      BY <1>4, <3>2 DEF Indices
  <2>2. executed \subseteq {Key(log[i]) : i \in Indices(log, "call")}
    BY DEF RecorderInv, Stored, Recorded
  <2> QED
    BY <2>1, <2>2
<1>6. Stored'
  BY <1>1, <1>3, <1>4, <1>5 DEF Stored, Recorded
<1>7. LoopTypes'
  BY <1>1, LoopTypesStay DEF RecorderInv
<1>8. /\ rec = NoRecorder /\ NoRecorder.seqKnown = FALSE /\ NoRecorder.pending = <<>> /\ rec \in Recorder /\ pc \in Places
  BY <1>1, RecorderFacts DEF PlaceOf, NoRecorder
<1>9. m \o Buffer(pc, rec) = m
  BY <1>1, <1>4, <1>8 DEF Buffer
<1>10. PlaceOf(pc, m, rec, asked, todo, executed)
  BY <1>1, <1>8 DEF PlaceOf
<1>11. Charged(m \o Buffer(pc, rec), spent)
  BY <1>4, <1>9
<1>12. UNCHANGED <<asked, todo>>
  BY <1>1 DEF loopVars
<1>13. Buffered'
  BY <1>1, <1>3, <1>8, <1>10, <1>11, <1>12 DEF Buffered
<1> QED
  BY <1>6, <1>7, <1>13 DEF RecorderInv

LEMMA RecorderStepInv == RecorderInv /\ [Next]_vars => RecorderInv'
<1> SUFFICES ASSUME RecorderInv, [Next]_vars PROVE RecorderInv'
  OBVIOUS
<1>1. CASE UNCHANGED vars
  BY <1>1 DEF vars, loopVars, RecorderInv, LoopTypes, Stored, Buffered, Recorded
<1>2. ASSUME NEW t \in Tasks, RunTask(t) \/ RunTaskFails(t) PROVE RecorderInv'
  BY <1>2, RunTaskStep
<1>3. CASE Flush \/ FlushFails
  BY <1>3, FlushStep, FlushFailsStep
<1>4. CASE ModelAnswers \/ ModelConcludes
  BY <1>4, ModelStep
<1>5. CASE ModelFails \/ SuspendFails \/ FinishFails
  BY <1>5, FailingStep
<1>6. CASE Suspend
  BY <1>6, SuspendStep
<1>7. CASE StartRound \/ RoundFails \/ EndRound
  BY <1>7, RoundStep
<1>8. CASE GiveUp \/ NothingAsked
  BY <1>8, EndingStep
<1>9. CASE NextRound \/ Conclude
  BY <1>9, StartingStep
<1>10. CASE RecordCall
  BY <1>10, RecordCallStep
<1>11. CASE Dispatch
  BY <1>11, DispatchStep
<1>12. CASE Finish
  BY <1>12, FinishStep
<1>13. CASE Crash
  BY <1>13, CrashStep
<1>14. CASE Recover
  BY <1>14, RecoverStep
<1> QED
  BY <1>1, <1>2, <1>3, <1>4, <1>5, <1>6, <1>7, <1>8, <1>9, <1>10, <1>11, <1>12, <1>13, <1>14 DEF Next

-----------------------------------------------------------------------------
(* What the invariant says of the log.                                        *)

LEMMA InvReadable ==
  ASSUME RecorderInv
  PROVE  Readable
<1>1. /\ OneOfEach(log, "call") /\ OneOfEach(log, "result") /\ CallsAnnounced(log) /\ Distinctly(log) /\ ResultsFollow(log)
  BY RecorderFacts DEF Sound
<1>2. \A r \in Indices(log, "result") : \E c \in Indices(log, "call") : Key(log[c]) = Key(log[r])
  BY <1>1 DEF ResultsFollow
<1>3. Transcribable(log)
  BY <1>1, <1>2 DEF Transcribable, ArgumentsRecorded, Distinctly
<1>4. ASSUME NEW r \in Indices(log, "result")
      PROVE  \E i \in Indices(log, "assistant") :
               Announces(log[i], log[r].id) /\ log[i].turn = log[r].turn /\ log[i].step = log[r].step
  <2>1. PICK c \in Indices(log, "call") : Key(log[c]) = Key(log[r])
    BY <1>2
  <2>2. log[c].turn = log[r].turn /\ log[c].step = log[r].step /\ log[c].id = log[r].id
    BY <2>1 DEF Key
  <2>3. PICK a \in Indices(log, "assistant") : Announces(log[a], log[c].id) /\ log[a].turn = log[c].turn /\ log[a].step = log[c].step
    BY <1>1 DEF CallsAnnounced
  <2> QED
    BY <2>2, <2>3
<1>5. Transcribed(log) = Indices(log, "result")
  BY <1>4 DEF Transcribed
<1> QED
  BY <1>3, <1>5 DEF Readable

LEMMA InvNeverRefused ==
  ASSUME RecorderInv
  PROVE  NeverRefused
<1> SUFFICES ASSUME pc \in DOMAIN After PROVE Accepted(log, Numbered(Cursor, rec.pending))
  BY DEF NeverRefused
<1>1. /\ log \in Seq(Events) /\ rec.pending \in Seq(Events) /\ InOrderOf(log) /\ Owned(log)
  BY RecorderFacts DEF RecorderInv, Stored
<1>2. Voiced(log \o rec.pending)
  BY BarrierIs DEF Sound
<1>3. PICK c : c = Numbered(Len(log), rec.pending)
  OBVIOUS
<1>4. PICK m : m = log \o Indexed(log, c)
  OBVIOUS
<1>5. Landed(log, rec.pending, c, m)
  BY <1>1, <1>2, <1>3, <1>4, Lands
<1> QED
  BY <1>3, <1>5, CursorIs DEF Landed

LEMMA InvKeeps ==
  ASSUME RecorderInv
  PROVE  /\ TypeOK /\ NeverRefused /\ RecordedFirst /\ NothingInvented
         /\ ClosedIsAnswered /\ NoStrayEnd /\ Readable /\ TurnsApart
         /\ ChargedOnce /\ OwnersTrue
<1>1. TypeOK
  BY RecorderFacts DEF RecorderInv, LoopTypes, TypeOK, Recorder
<1>2. NeverRefused /\ Readable
  BY InvNeverRefused, InvReadable
<1>3. RecordedFirst
  BY DEF RecorderInv, Stored, RecordedFirst
<1>4. NothingInvented
  <2>1. Performed(log, executed) /\ Len(log) \in Nat /\ DOMAIN log = 1 .. Len(log)
    BY RecorderFacts DEF Sound
  <2>2. ASSUME NEW i \in Indices(log, "call"), NEW j \in i + 1 .. Len(log) PROVE j \in DOMAIN log /\ j > i
    BY <2>1, <2>2 DEF Indices
  <2> QED
    BY <2>1, <2>2 DEF Performed, NothingInvented
<1>5. ClosedIsAnswered
  <2>1. AllAnswered(log)
    BY RecorderFacts DEF Sound
  <2>2. \A i \in Indices(log, "call") : IsAnswered(log, i) => Key(log[i]) \in Recorded("result")
    BY DEF IsAnswered, Recorded
  <2> QED
    BY <2>1, <2>2 DEF AllAnswered, ClosedIsAnswered
<1>6. NoStrayEnd
  BY RecorderFacts, EndsHaveStarts DEF NoStrayEnd
<1>7. TurnsApart
  BY RecorderFacts DEF Sound, StartsApart, InTurns, TurnsApart
<1>8. ChargedOnce
  <2>1. ASSUME NEW t \in Tasks PROVE Tokens(log, t) <= spent[t]
    BY RecorderFacts DEF Charged
  <2> QED
    BY <2>1 DEF ChargedOnce
<1>9. OwnersTrue
  BY DEF RecorderInv, Stored, Owned, OwnersTrue
<1> QED
  BY <1>1, <1>2, <1>3, <1>4, <1>5, <1>6, <1>7, <1>8, <1>9

\* Only a recovery loads.
LEMMA LoadSettlesStep ==
  ASSUME RecorderInv, [Next]_vars, loads' # loads
  PROVE  ~Refused(log') /\ Closers(log') = <<>>
<1>1. Recover
  BY DEF Next, vars, bounds, loopVars, RunTask, RunTaskFails, Flush, FlushFails, ModelAnswers, ModelConcludes, ModelFails,
         Suspend, SuspendFails, StartRound, RecordCall, Dispatch, RoundFails, EndRound, GiveUp, NothingAsked, NextRound,
         Conclude, FinishFails, Finish, Crash, Fail, EndStep, StartStep
<1>2. PICK m : m = log'
  OBVIOUS
<1>3. Mends(log, m, executed, spent)
  BY <1>1, <1>2, RecoverIs
<1>4. m \in Seq(Events) /\ Sound(m, executed) /\ Whole(m)
  BY <1>3 DEF Mends
<1>5. ~Refused(m) /\ Closers(m) = <<>>
  BY <1>4, WholeSettles
<1> QED
  BY <1>2, <1>5

\* The event log of a session keeps its promises for any number of tasks, calls,
\* rounds, executions, failed writes, crashes and recoveries: each batch continues
\* the log, a tool is on record before it runs, a closed turn is answered, the
\* history can be built, tokens are charged once, and a Load leaves nothing for
\* the next (eventlog.go, and Load of session_events.go).
THEOREM RecorderIsSafe == Spec => RecorderSafe
<1>1. Init => RecorderInv
  BY RecorderInitInv
<1>2. RecorderInv /\ [Next]_vars => RecorderInv'
  BY RecorderStepInv
<1>3. RecorderInv => /\ TypeOK /\ NeverRefused /\ RecordedFirst /\ NothingInvented
                     /\ ClosedIsAnswered /\ NoStrayEnd /\ Readable /\ TurnsApart
                     /\ ChargedOnce /\ OwnersTrue
  BY InvKeeps
<1>4. RecorderInv /\ [Next]_vars => [loads' # loads => ~Refused(log') /\ Closers(log') = <<>>]_vars
  BY LoadSettlesStep
<1> QED
  BY <1>1, <1>2, <1>3, <1>4, PTL DEF Spec, RecorderSafe, LoadSettles
=============================================================================
