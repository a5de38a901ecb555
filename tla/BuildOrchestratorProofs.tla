------------------------ MODULE BuildOrchestratorProofs ------------------------
(***************************************************************************)
(* Building with --watch, for any number of projects, goroutines and       *)
(* changes: nothing is compiled against declarations that change under it; *)
(* if every project has a configuration, the watcher never panics; and if  *)
(* builds do not stop on errors either, then whatever a cycle skips,       *)
(* touches or postpones, all projects are current when all is quiet, and   *)
(* the report shows the errors of all of them.                             *)
(***************************************************************************)
EXTENDS BuildOrchestrator, SequenceTheorems, FunctionTheorems, FiniteSetTheorems, WellFoundedInduction, TLAPS

-----------------------------------------------------------------------------
(* The control of a cycle, for any configurations and options.              *)

Deps == {None} \cup UNION {[Upstream(p) -> {"d1", "d2", None}] : p \in Projects}
Tasks == [status : Status, pending : BOOLEAN, errors : BOOLEAN, resolved : Configs,
          buildInfo : BOOLEAN, initial : BOOLEAN]
Works == [pc : {"idle", "waiting", "compiling", "touching", "ending"},
          text : Texts \cup {None}, config : Configs \cup {None}, deps : Deps]
Compiled(w) == Output(w.text, w.config, w.deps)

TypedDisk ==
    /\ text \in [Projects -> Texts] /\ config \in [Projects -> Configs]
    /\ out \in [Projects -> {None} \cup UNION {Outputs(p) : p \in Projects}]
    /\ \A p \in Projects : out[p] = None \/ out[p] \in Outputs(p)
    /\ newer \in [Projects -> SUBSET Inputs] /\ late \subseteq Projects
TypedRun ==
    /\ task \in [Projects -> Tasks]
    /\ work \in [Projects -> Works]
    /\ \A p \in Projects : work[p].pc = "compiling" => Compiled(work[p]) \in Outputs(p)
    /\ phase \in {"off", "idle", "draining", "building"}
    /\ next \in 1..(Len(Order) + 1) /\ reported \in 1..(Len(Order) + 1)
    /\ done \in SUBSET Projects /\ built \in SUBSET Projects
    /\ result \in SUBSET Projects /\ shown \in SUBSET Projects
TypedWatch ==
    /\ unsent \in SUBSET Inputs /\ changed \in SUBSET Inputs
    /\ overflow \in BOOLEAN /\ watching \in BOOLEAN /\ signal \in BOOLEAN
Typed == TypedDisk /\ TypedRun /\ TypedWatch

NoConfig == {p \in Projects : task[p].resolved = "missing"}

\* The tasks that were taken in this cycle, and those that were reported.
Taken == {ScheduleOrder[i] : i \in 1..(next - 1)}
Reported == {Order[i] : i \in 1..(reported - 1)}

\* Whose references a goroutine is done waiting for.
Working(p) == work[p].pc \in {"compiling", "touching", "ending"}

\* A task is taken once and done after its references.  Only the channels of one without a
\* configuration may be closed before.
Cycle ==
    /\ phase # "building" => Busy = {}
    /\ phase = "building" =>
          /\ built = done
          /\ Busy \subseteq Taken /\ Taken \ Busy \subseteq done
          /\ done \subseteq Taken \cup NoConfig /\ Busy \cap done \subseteq NoConfig
          /\ \A p \in Projects \ NoConfig : p \in done \/ Working(p) => Upstream(p) \subseteq done
NeverBuilt ==
    \A p \in NoConfig : /\ task[p].status.kind \in {"none", "configFileNotFound"}
                        /\ work[p].pc \notin {"compiling", "touching"}
Control == Typed /\ Cycle /\ NeverBuilt
-----------------------------------------------------------------------------
(* No panic, as long as every project has a configuration.                  *)

Exist == "missing" \notin Configs

\* Still to be asked for its status, in this cycle or the first one.
Unchecked(p) ==
    \/ phase = "off"
    \/ phase = "building" /\ p \notin done /\ work[p].pc \in {"idle", "waiting"}

Kind(p) == task[p].status.kind

Unpanicked ==
    /\ ~crashed
    /\ phase = "building" => Reported \subseteq done /\ Taken \ Reported \subseteq result
    /\ \A p \in Projects : Kind(p) = "none" => task[p].pending /\ Unchecked(p)
    /\ \A p \in Projects :
          \/ task[p].buildInfo
          \/ Kind(p) = "none" \/ (StopBuildOnErrors /\ Kind(p) = "upstreamErrors" /\ work[p].pc # "touching")
-----------------------------------------------------------------------------
(* What is built and shown, when builds do not stop on errors.              *)

Rebuild == {"buildErrors", "outputMissing", "inputFileNewer", "outOfDateBuildInfoWithErrors"}
Pseudo == {"upToDateWithUpstreamTypes", "upToDateWithInputFileText"}
Final == {"upToDate", "buildErrors"}

AtRest(p) == phase \in {"idle", "draining"} \/ (phase = "building" /\ p \in done)

StatusOf(p) ==
    /\ AtRest(p) => ~task[p].pending /\ Kind(p) \in Final
    /\ work[p].pc = "ending" => Kind(p) \in Final
    /\ work[p].pc = "touching" => Kind(p) \in Pseudo
    /\ work[p].pc = "compiling" => Kind(p) \in Rebuild
    /\ Unchecked(p) /\ task[p].pending => Kind(p) \in {"none", "buildErrors", "inputFileNewer"} \cup Pseudo
    /\ Unchecked(p) /\ ~task[p].pending => Kind(p) \in Final

\* In the first cycle nobody has a status before it is checked.
FirstCycle ==
    /\ ~watching => phase \in {"off", "building"}
    /\ phase = "off" => ~watching
    /\ \A p \in Projects :
          /\ ~watching /\ Unchecked(p) => task[p].pending /\ Kind(p) = "none"
          /\ task[p].initial <=> ~watching /\ (phase = "building" => p \notin done)

\* What is newer than a .tsbuildinfo tells of every difference from it.
Marked(p) ==
    out[p] # None =>
        /\ p \in late \/ out[p].text = text[p] \/ <<"text", p>> \in newer[p]
        /\ p \in late \/ out[p].config = config[p] \/ <<"config", p>> \in newer[p]
        /\ \A r \in Upstream(p) : out[p].deps[r] = Dts(r) \/ <<"dts", r>> \in newer[p]

\* The declarations of p's references are those it was built with, and it had all of them.
DepsCurrent(p) == out[p] # None /\ \A r \in Upstream(p) : out[p].deps[r] = Dts(r)
WillCompile(p) ==
    \/ work[p].pc = "compiling"
    \/ Unchecked(p) /\ task[p].pending /\ Kind(p) \in {"none"} \cup Rebuild
DepsKept(p) ==
    /\ out[p] # None => \A r \in Upstream(p) : out[p].deps[r] # None
    /\ DepsCurrent(p) \/ WillCompile(p)
    /\ work[p].pc = "compiling" =>
          \A r \in Upstream(p) : work[p].deps[r] = Dts(r) /\ Dts(r) # None

\* A difference from the inputs of p has an event to come, or p is in hand.
InHand(p) ==
    work[p].pc \in {"compiling", "touching"} \/ (Unchecked(p) /\ task[p].pending)
Event(kind, p) == <<kind, p>> \in unsent \cup changed \/ overflow
Told(p) ==
    p \in late \/ out[p] = None \/ InHand(p) \/
        /\ out[p].text = text[p] \/ Event("text", p)
        /\ out[p].config = config[p] \/ Event("config", p)

\* A task knows its errors, and the report shows them.
Agrees(p) == /\ task[p].errors <=> HasErrors(out[p])
             /\ Kind(p) = "upToDate" <=> ~HasErrors(out[p])
ErrorsOf(p) ==
    /\ AtRest(p) \/ work[p].pc = "ending" \/ (Unchecked(p) /\ ~task[p].pending) => Agrees(p)
    /\ Unchecked(p) /\ Kind(p) = "none" => ~task[p].errors
    /\ work[p].pc = "touching" \/ Kind(p) \in Pseudo => ~task[p].errors /\ ~HasErrors(out[p])
    /\ phase \in {"idle", "draining"} \/ (phase = "building" /\ p \in Reported) =>
          (p \in shown <=> HasErrors(out[p]))
Shown == phase = "building" => shown \subseteq Reported

Sound(p) == StatusOf(p) /\ Marked(p) /\ DepsKept(p) /\ Told(p) /\ ErrorsOf(p)
Current == FirstCycle /\ Shown /\ \A p \in Projects : Sound(p)
-----------------------------------------------------------------------------
(* The order in which tasks are taken names every project once.             *)

\* Any set of numbers has a smallest one.
LEMMA Smallest == ASSUME NEW S \in SUBSET Nat, S # {} PROVE \E n \in S : \A m \in S : n <= m
<1>1. PICK n \in S : \A m \in S : ~(<<m, n>> \in OpToRel(<, Nat))
  BY NatLessThanWellFounded, WFMin, Zenon
<1>2. \A m \in S : ~(m < n)
  BY <1>1 DEF OpToRel
<1> QED BY <1>2

\* A finite set of numbers has a largest one, its Max.
LEMMA MaxIn ==
  ASSUME NEW S \in SUBSET Nat, IsFiniteSet(S), S # {}
  PROVE  Max(S) \in S
<1> DEFINE Top(X) == \E x \in X : \A y \in X : x >= y
           Bad == {X \in FiniteSubsetsOf(S) : X # {} /\ ~Top(X)}
<1>1. ASSUME Bad # {} PROVE FALSE
  <2>1. IsWellFoundedOn(StrictSubsetOrdering(S), FiniteSubsetsOf(S))
    BY FS_StrictSubsetOrderingWellFounded
  <2>2. PICK X \in Bad : \A Y \in Bad : ~(<<Y, X>> \in StrictSubsetOrdering(S))
    BY <1>1, <2>1, WFMin, Zenon
  <2>3. PICK x \in X : TRUE
    BY <2>2
  <2> DEFINE Y == X \ {x}
  <2>4. IsFiniteSet(X) /\ X \in SUBSET S /\ Y \in SUBSET S
    BY <2>2 DEF FiniteSubsetsOf
  <2>5. IsFiniteSet(Y)
    BY <2>4, FS_Subset
  <2>6. Y \notin Bad
    BY <2>2, <2>3, <2>4 DEF StrictSubsetOrdering
  <2>7. Y = {} \/ Top(Y)
    BY <2>4, <2>5, <2>6 DEF FiniteSubsetsOf
  <2>8. Top(X)
    BY <2>3, <2>4, <2>7
  <2> QED BY <2>2, <2>8
<1>2. S \in FiniteSubsetsOf(S)
  BY DEF FiniteSubsetsOf
<1>3. Top(S)
  BY <1>1, <1>2
<1> QED BY <1>3 DEF Max

\* The projects up to a place in the order, with all that they reference.
FirstIn(i) == {Order[j] : j \in 1..i}

\* What is assumed of the order: it lists every project once or more, references first.
LEMMA OrderFacts ==
  /\ Len(Order) \in Nat /\ DOMAIN Order = 1..Len(Order)
  /\ \A i \in 1..Len(Order) : Order[i] \in Projects
  /\ \A p \in Projects : \E i \in 1..Len(Order) : Order[i] = p
  /\ \A i \in 1..Len(Order) : Upstream(Order[i]) \subseteq FirstIn(i - 1)
  /\ \A p \in Projects : Upstream(p) \subseteq Projects
<1>1. /\ Len(Order) \in Nat /\ DOMAIN Order = 1..Len(Order)
      /\ \A i \in 1..Len(Order) : Order[i] \in Projects
  BY OrderListsProjects
<1>2. \A p \in Projects : \E i \in 1..Len(Order) : Order[i] = p
  BY <1>1, OrderListsProjects DEF Range
<1>3. ASSUME NEW i \in 1..Len(Order) PROVE Upstream(Order[i]) \subseteq FirstIn(i - 1)
  <2>1. Upstream(Order[i]) \subseteq Range(SubSeq(Order, 1, i - 1))
    BY <1>1, RefsFirst
  <2>2. SubSeq(Order, 1, i - 1) = [j \in 1..(i - 1) |-> Order[j]]
    BY <1>1, OrderListsProjects
  <2> QED BY <2>1, <2>2 DEF Range, FirstIn
<1>4. ASSUME NEW p \in Projects PROVE Upstream(p) \subseteq Projects
  BY RefsAssumption DEF Upstream, Range
<1> QED BY <1>1, <1>2, <1>3, <1>4

\* There are finitely many projects, and the order has each once.
LEMMA OrderOnce ==
  /\ IsFiniteSet(Projects) /\ Cardinality(Projects) = Len(Order)
  /\ \A i, j \in 1..Len(Order) : Order[i] = Order[j] => i = j
<1>1. Order \in Surjection(1..Len(Order), Projects)
  BY OrderFacts, OrderListsProjects DEF Surjection
<1>2. IsFiniteSet(1..Len(Order)) /\ Cardinality(1..Len(Order)) = Len(Order)
  BY OrderFacts, FS_Interval
<1>3. IsFiniteSet(Projects)
  BY <1>1, <1>2, FS_Surjection
<1>4. Cardinality(Projects) = Len(Order)
  BY OrderListsProjects
<1>5. Order \in Injection(1..Len(Order), Projects)
  BY <1>1, <1>2, <1>4, FS_SurjSameCardinalityImpliesInj
<1> QED BY <1>3, <1>4, <1>5, Fun_InjectionProperties

\* What Depth is computed from.
DepthFrom(f, p) == IF Refs[p] = <<>> THEN 0 ELSE 1 + Max({f[r] : r \in Upstream(p)})

\* A depth that is computed from depths is a number.
LEMMA DepthFromNat ==
  ASSUME NEW f, NEW p \in Projects, \A r \in Upstream(p) : f[r] \in Nat
  PROVE  DepthFrom(f, p) \in Nat
<1>1. CASE Refs[p] = <<>>
  BY <1>1 DEF DepthFrom
<1>2. CASE Refs[p] # <<>>
  <2> DEFINE S == {f[r] : r \in Upstream(p)}
  <2>1. Upstream(p) # {}
    <3>1. Refs[p] \in Seq(Projects)
      BY RefsAssumption
    <3>2. 1 \in DOMAIN Refs[p]
      BY <1>2, <3>1, EmptySeq
    <3> QED BY <3>2 DEF Upstream, Range
  <2>2. IsFiniteSet(Upstream(p))
    BY OrderFacts, OrderOnce, FS_Subset
  <2>3. IsFiniteSet(S)
    <3>1. [r \in Upstream(p) |-> f[r]] \in Surjection(Upstream(p), S)
      BY DEF Surjection
    <3> QED BY <2>2, <3>1, FS_Surjection
  <2>4. S \in SUBSET Nat /\ S # {}
    BY <2>1
  <2>5. Max(S) \in Nat
    BY <2>3, <2>4, MaxIn
  <2> QED BY <1>2, <2>5 DEF DepthFrom
<1> QED BY <1>1, <1>2

\* Depth is well defined since a project comes after those it references.
LEMMA DepthDefined == Depth = [p \in Projects |-> DepthFrom(Depth, p)]
<1> DEFINE Fits(f, i) == f \in [FirstIn(i) -> Nat] /\ \A p \in FirstIn(i) : f[p] = DepthFrom(f, p)
           Bad == {i \in Nat : i <= Len(Order) /\ ~\E f : Fits(f, i)}
<1>1. ASSUME Bad # {} PROVE FALSE
  <2>1. PICK i \in Bad : \A j \in Bad : i <= j
    BY <1>1, Smallest
  <2>2. CASE i = 0
    <3>1. FirstIn(i) = {}
      BY <2>2 DEF FirstIn
    <3>2. Fits([p \in {} |-> 0], i)
      BY <3>1
    <3> QED BY <3>2
  <2>3. CASE i # 0
    <3>1. i \in 1..Len(Order) /\ i - 1 \in Nat /\ i - 1 <= Len(Order)
      BY <2>1, <2>3, OrderFacts
    <3>9. i - 1 \notin Bad
      <4> HIDE DEF Bad
      <4> QED BY <2>1, <3>1
    <3>2. PICK f : Fits(f, i - 1)
      BY <3>1, <3>9
    <3> DEFINE g == [p \in FirstIn(i) |-> DepthFrom(f, p)]
    <3>3. FirstIn(i) = FirstIn(i - 1) \cup {Order[i]}
      BY <3>1 DEF FirstIn
    <3>4. ASSUME NEW p \in FirstIn(i) PROVE p \in Projects /\ Upstream(p) \subseteq FirstIn(i - 1)
      <4>1. PICK j \in 1..i : p = Order[j]
        BY DEF FirstIn
      <4>2. j \in 1..Len(Order) /\ FirstIn(j - 1) \subseteq FirstIn(i - 1)
        BY <3>1, <4>1, OrderFacts DEF FirstIn
      <4> QED BY <4>1, <4>2, OrderFacts
    <3>5. ASSUME NEW p \in FirstIn(i - 1) PROVE g[p] = f[p]
      BY <3>2, <3>3
    <3>6. ASSUME NEW p \in FirstIn(i) PROVE DepthFrom(f, p) \in Nat
      BY <3>2, <3>4, DepthFromNat
    <3>7. ASSUME NEW p \in FirstIn(i) PROVE DepthFrom(g, p) = DepthFrom(f, p)
      <4>1. \A r \in Upstream(p) : g[r] = f[r]
        BY <3>4, <3>5
      <4>2. {g[r] : r \in Upstream(p)} = {f[r] : r \in Upstream(p)}
        BY <4>1
      <4> QED BY <4>2 DEF DepthFrom
    <3>8. Fits(g, i)
      BY <3>6, <3>7
    <3> QED BY <3>8
  <2> QED BY <2>2, <2>3
<1>2. PICK f : Fits(f, Len(Order))
  BY <1>1, OrderFacts
<1>3. FirstIn(Len(Order)) = Projects
  BY OrderFacts DEF FirstIn
<1>4. f = [p \in Projects |-> DepthFrom(f, p)]
  BY <1>2, <1>3
<1>5. Depth = CHOOSE d : d = [p \in Projects |-> DepthFrom(d, p)]
  BY DEF Depth, DepthFrom
<1> HIDE DEF Fits
<1> QED BY <1>4, <1>5

\* Every project has a depth in the graph of references.
LEMMA DepthNat == Depth \in [Projects -> Nat]
<1> DEFINE Bad == {i \in Nat : i \in 1..Len(Order) /\ Depth[Order[i]] \notin Nat}
<1>1. ASSUME Bad # {} PROVE FALSE
  <2>1. PICK i \in Bad : \A j \in Bad : i <= j
    BY <1>1, Smallest
  <2>2. ASSUME NEW r \in Upstream(Order[i]) PROVE Depth[r] \in Nat
    <3>1. PICK j \in 1..(i - 1) : r = Order[j]
      BY <2>1, OrderFacts DEF FirstIn
    <3> QED BY <2>1, <3>1
  <2>3. Order[i] \in Projects
    BY OrderFacts
  <2>4. DepthFrom(Depth, Order[i]) \in Nat
    BY <2>2, <2>3, DepthFromNat
  <2> QED BY <2>1, <2>3, <2>4, DepthDefined
<1>2. \A p \in Projects : Depth[p] \in Nat
  BY <1>1, OrderFacts
<1> HIDE DEF Bad
<1> QED BY <1>2, DepthDefined

\* The position of a project is one at which the order lists it.
LEMMA PositionIs == ASSUME NEW p \in Projects PROVE Position(p) \in 1..Len(Order) /\ Order[Position(p)] = p
BY OrderFacts DEF Position

\* The tasks before a task in the schedule; their number is its place.
LEMMA ScheduleOnce ==
  /\ DOMAIN ScheduleOrder = 1..Len(Order)
  /\ \A i \in 1..Len(Order) : ScheduleOrder[i] \in Projects
  /\ \A i, j \in 1..Len(Order) : ScheduleOrder[i] = ScheduleOrder[j] => i = j
<1> DEFINE Ahead(p) == {q \in Projects : Before(q, p)}
           rank == [p \in Projects |-> Cardinality(Ahead(p))]
           n == Len(Order)
<1>1. /\ \A p \in Projects : ~Before(p, p)
      /\ \A p, q, r \in Projects : Before(p, q) /\ Before(q, r) => Before(p, r)
      /\ \A p, q \in Projects : p # q => Before(p, q) \/ Before(q, p)
  <2>1. \A p \in Projects : Position(p) \in Nat /\ Depth[p] \in Nat
    BY PositionIs, DepthNat, OrderFacts
  <2>2. \A p, q \in Projects : p # q => Position(p) # Position(q)
    BY PositionIs
  <2> QED BY <2>1, <2>2 DEF Before
<1>2. ASSUME NEW p \in Projects
      PROVE  IsFiniteSet(Ahead(p)) /\ Cardinality(Ahead(p)) \in 0..(n - 1)
  <2>1. Ahead(p) \in SUBSET (Projects \ {p})
    BY <1>1
  <2>2. IsFiniteSet(Projects \ {p}) /\ Cardinality(Projects \ {p}) = n - 1
    BY OrderOnce, FS_RemoveElement
  <2>3. IsFiniteSet(Ahead(p)) /\ Cardinality(Ahead(p)) <= n - 1
    BY <2>1, <2>2, FS_Subset
  <2>4. Cardinality(Ahead(p)) \in Nat
    BY <2>3, FS_CardinalityType
  <2> HIDE DEF Ahead
  <2> QED BY <2>3, <2>4, OrderFacts
<1>3. ASSUME NEW p \in Projects, NEW q \in Projects, Before(p, q) PROVE rank[p] < rank[q]
  <2>1. Ahead(p) \cup {p} \in SUBSET Ahead(q) /\ p \notin Ahead(p)
    BY <1>1, <1>3
  <2>2. Cardinality(Ahead(p) \cup {p}) = Cardinality(Ahead(p)) + 1
    BY <1>2, <2>1, FS_AddElement
  <2>3. Cardinality(Ahead(p) \cup {p}) <= Cardinality(Ahead(q))
    BY <1>2, <2>1, FS_Subset
  <2>4. Cardinality(Ahead(p)) \in Nat /\ Cardinality(Ahead(q)) \in Nat
    BY <1>2, FS_CardinalityType
  <2> HIDE DEF Ahead
  <2> QED BY <2>2, <2>3, <2>4
<1>4. rank \in Injection(Projects, 0..(n - 1))
  <2>1. rank \in [Projects -> 0..(n - 1)]
    BY <1>2
  <2>2. \A p, q \in Projects : rank[p] = rank[q] => p = q
    <3> SUFFICES ASSUME NEW p \in Projects, NEW q \in Projects, p # q PROVE rank[p] # rank[q]
      OBVIOUS
    <3>1. rank[p] \in Nat /\ rank[q] \in Nat
      BY <2>1, OrderFacts
    <3> HIDE DEF rank
    <3> QED BY <1>1, <1>3, <3>1
  <2> HIDE DEF rank
  <2> QED BY <2>1, <2>2 DEF Injection, IsInjective
<1>5. IsFiniteSet(0..(n - 1)) /\ Cardinality(0..(n - 1)) = n
  BY OrderFacts, FS_Interval
<1>6. rank \in Surjection(Projects, 0..(n - 1))
  <2> HIDE DEF rank
  <2> QED BY <1>4, <1>5, OrderOnce, FS_Injection
<1>7. ASSUME NEW i \in 1..n
      PROVE  ScheduleOrder[i] \in Projects /\ Cardinality(Ahead(ScheduleOrder[i])) = i - 1
  <2>1. i - 1 \in 0..(n - 1)
    BY OrderFacts
  <2>2. PICK p \in Projects : rank[p] = i - 1
    <3> HIDE DEF rank
    <3> QED BY <1>6, <2>1 DEF Surjection
  <2>3. Cardinality(Ahead(p)) = i - 1
    BY <2>2
  <2>4. ScheduleOrder[i] = CHOOSE q \in Projects : Cardinality(Ahead(q)) = i - 1
    BY DEF ScheduleOrder
  <2> HIDE DEF Ahead
  <2> QED BY <2>3, <2>4
<1>8. DOMAIN ScheduleOrder = 1..n
  BY DEF ScheduleOrder
<1> HIDE DEF Ahead, rank
<1> QED BY <1>7, <1>8, OrderFacts
-----------------------------------------------------------------------------
(* What statuses and tasks are.                                             *)

Kinds == {"none", "configFileNotFound", "buildErrors", "upstreamErrors", "upToDate",
          "upToDateWithUpstreamTypes", "upToDateWithInputFileText", "outputMissing",
          "inputFileNewer", "outOfDateBuildInfoWithErrors"}

\* The fields of a status.
LEMMA StatusIs ==
  Status = [kind : Kinds, newerThan : {None} \cup SUBSET Projects, ref : Projects \cup {None}]
BY DEF Status, Kinds

\* Every kind of status is a status.
LEMMA IsStatus ==
  ASSUME NEW k \in Kinds
  PROVE  Is(k) \in Status /\ Is(k).kind = k
BY StatusIs DEF Is

\* A new task is pending and has neither a status nor errors.
LEMMA NewTaskIs ==
  ASSUME TypedDisk, NEW p \in Projects, NEW b \in BOOLEAN, NEW i \in BOOLEAN
  PROVE  /\ NewTask(p, b, i) \in Tasks
         /\ NewTask(p, b, i).pending /\ ~NewTask(p, b, i).errors
         /\ NewTask(p, b, i).status.kind = "none" /\ NewTask(p, b, i).resolved = config[p]
         /\ NewTask(p, b, i).buildInfo = b /\ NewTask(p, b, i).initial = i
<1>1. Is("none") \in Status /\ Is("none").kind = "none"
  BY IsStatus DEF Kinds
<1>2. config[p] \in Configs
  BY DEF TypedDisk
<1> QED BY <1>1, <1>2 DEF NewTask, Tasks

\* resetStatus makes a task pending again, without a status, and keeps what it resolved.
LEMMA ResetIs ==
  ASSUME NEW t \in Tasks
  PROVE  /\ ResetStatus(t) \in Tasks
         /\ ResetStatus(t).pending /\ ~ResetStatus(t).errors
         /\ ResetStatus(t).status.kind = "none" /\ ResetStatus(t).resolved = t.resolved
         /\ ResetStatus(t).buildInfo = t.buildInfo /\ ResetStatus(t).initial = t.initial
<1>1. Is("none") \in Status /\ Is("none").kind = "none"
  BY IsStatus DEF Kinds
<1> QED BY <1>1 DEF ResetStatus, Tasks

\* The first reference with an error is one.
LEMMA FailedRefIs ==
  ASSUME NEW p \in Projects, \E r \in Upstream(p) : IsError(task[r].status)
  PROVE  FailedRef(p) \in Upstream(p) /\ IsError(task[FailedRef(p)].status)
<1> DEFINE S == {i \in DOMAIN Refs[p] : IsError(task[Refs[p][i]].status)}
<1>1. S # {}
  BY DEF Upstream, Range
<1>2. S \in SUBSET Nat
  BY RefsAssumption
<1>3. \E i \in S : \A j \in S : i <= j
  BY <1>1, <1>2, Smallest
<1>4. Min(S) \in S
  BY <1>3 DEF Min
<1> QED BY <1>4 DEF FailedRef, Upstream, Range

\* What getUpToDateStatus answers: the status that is known, if there is one.
LEMMA StatusKnown ==
  ASSUME Typed, NEW p \in Projects, task[p].status.kind # "none"
  PROVE  UpToDateStatus(p) = task[p].status
BY DEF UpToDateStatus

\* What getUpToDateStatus may answer, and what is on the disk when it answers that the project
\* is up to date: its outputs are there, record no errors and are those of its inputs.
LEMMA StatusAsked ==
  ASSUME Typed, NEW p \in Projects, task[p].status.kind = "none"
  PROVE  LET s == UpToDateStatus(p) IN
         /\ s \in Status /\ s.kind \notin {"none", "buildErrors"}
         /\ task[p].resolved = "missing" <=> s.kind = "configFileNotFound"
         /\ s.kind = "upstreamErrors" => StopBuildOnErrors
         /\ s.kind \in {"upToDate"} \cup {"upToDateWithUpstreamTypes", "upToDateWithInputFileText"} =>
              /\ out[p] # None /\ ~RecordsErrors(p) /\ ~TextChanged(p) /\ DtsChanged(p) = {}
              /\ <<"config", p>> \notin newer[p]
<1> DEFINE s == UpToDateStatus(p)
<1>1. CASE task[p].resolved = "missing"
  <2>1. s = Is("configFileNotFound")
    BY <1>1 DEF UpToDateStatus
  <2> QED BY <1>1, <2>1, IsStatus DEF Kinds
<1> DEFINE Failed == StopBuildOnErrors /\ \E r \in Upstream(p) : IsError(task[r].status)
<1>2. CASE task[p].resolved # "missing" /\ Failed
  <2>1. s = [Is("upstreamErrors") EXCEPT !.ref = FailedRef(p)]
    BY <1>2 DEF UpToDateStatus
  <2>2. FailedRef(p) \in Projects
    BY <1>2, FailedRefIs, OrderFacts
  <2>3. s \in Status /\ s.kind = "upstreamErrors"
    BY <2>1, <2>2, StatusIs DEF Is, Kinds
  <2> QED BY <1>2, <2>3
<1>3. CASE task[p].resolved # "missing" /\ ~Failed /\ out[p] = None
  <2>1. s = Is("outputMissing")
    BY <1>3 DEF UpToDateStatus
  <2> QED BY <1>3, <2>1, IsStatus DEF Kinds
<1>4. CASE task[p].resolved # "missing" /\ ~Failed /\ out[p] # None /\ RecordsErrors(p)
  <2>1. s = Is("outOfDateBuildInfoWithErrors")
    BY <1>4 DEF UpToDateStatus
  <2> QED BY <1>4, <2>1, IsStatus DEF Kinds
<1> DEFINE Newer == \/ TextChanged(p) \/ DtsChanged(p) # {}
                    \/ \E r \in Suspects(p) : <<"dts", r>> \in newer[p]
                    \/ <<"config", p>> \in newer[p]
<1>5. CASE task[p].resolved # "missing" /\ ~Failed /\ out[p] # None /\ ~RecordsErrors(p) /\ Newer
  <2>1. s = Is("inputFileNewer")
    BY <1>5 DEF UpToDateStatus
  <2> QED BY <1>5, <2>1, IsStatus DEF Kinds
<1>6. CASE task[p].resolved # "missing" /\ ~Failed /\ out[p] # None /\ ~RecordsErrors(p) /\ ~Newer
  <2> DEFINE k == IF Suspects(p) # {} THEN "upToDateWithUpstreamTypes"
                  ELSE IF TextUnchanged(p) THEN "upToDateWithInputFileText" ELSE "upToDate"
  <2>1. s = [Is(k) EXCEPT !.newerThan = Newest(p)]
    BY <1>6 DEF UpToDateStatus
  <2>2. k \in {"upToDateWithUpstreamTypes", "upToDateWithInputFileText", "upToDate"}
    OBVIOUS
  <2>3. Newest(p) \in SUBSET Projects
    BY DEF Newest
  <2> HIDE DEF k
  <2>4. s \in Status /\ s.kind = k
    BY <2>1, <2>2, <2>3, StatusIs DEF Is, Kinds
  <2> QED BY <1>6, <2>2, <2>4
<1> HIDE DEF s, Failed, Newer
<1> QED BY <1>1, <1>2, <1>3, <1>4, <1>5, <1>6 DEF s
-----------------------------------------------------------------------------
(* What the steps of a task do.                                             *)

\* A project does not reference itself.
LEMMA NoSelf == ASSUME NEW p \in Projects PROVE p \notin Upstream(p)
<1>1. PICK i \in 1..Len(Order) : Order[i] = p
  BY OrderFacts
<1>2. \A j \in 1..(i - 1) : Order[j] # p
  BY <1>1, OrderFacts, OrderOnce
<1> QED BY <1>1, <1>2, OrderFacts DEF FirstIn

\* Two tasks that differ in the details of their status at most.
Alike(t, u) ==
  /\ t.pending = u.pending /\ t.errors = u.errors /\ t.resolved = u.resolved
  /\ t.buildInfo = u.buildInfo /\ t.initial = u.initial /\ t.status.kind = u.status.kind

\* To note that a build info has been written changes no status, error or pending flag.
LEMMA WrittenIs ==
  ASSUME NEW t \in [Projects -> Tasks], NEW p \in Projects
  PROVE  /\ Written(t, p) \in [Projects -> Tasks]
         /\ \A q \in Projects : Alike(Written(t, p)[q], t[q]) /\ Written(t, p)[q].status.ref = t[q].status.ref
<1>1. ASSUME NEW q \in Projects
      PROVE  LET u == [t[q] EXCEPT !.status.newerThan = IF @ = None THEN None ELSE @ \ {p}]
             IN  u \in Tasks /\ Alike(u, t[q]) /\ u.status.ref = t[q].status.ref
  <2>1. t[q] \in Tasks
    OBVIOUS
  <2> DEFINE w == IF t[q].status.newerThan = None THEN None ELSE t[q].status.newerThan \ {p}
  <2>2. t[q].status \in Status /\ w \in {None} \cup SUBSET Projects
    BY <2>1, StatusIs DEF Tasks
  <2> HIDE DEF w
  <2>3. [t[q].status EXCEPT !.newerThan = w] \in Status
    BY <2>2, StatusIs
  <2> QED BY <2>1, <2>2, <2>3, StatusIs DEF Tasks, Alike, w
<1> QED BY <1>1 DEF Written

Skipped == {"upToDate", "upToDateWithUpstreamTypes", "upToDateWithInputFileText"}

\* What updateDownstream makes of a status.
Downgraded(k, dtsChanged) ==
  IF k \in Skipped
  THEN IF dtsChanged THEN {"inputFileNewer"}
       ELSE {IF k = "upToDate" THEN "upToDateWithUpstreamTypes" ELSE k}
  ELSE IF k = "upstreamErrors" THEN {"none", k} ELSE {k}

\* A status that updateDownstream lowers: it is forgotten only if this project was the reason.
LEMMA DownstreamStatusIs ==
  ASSUME NEW s \in Status, NEW p \in Projects, NEW d \in BOOLEAN
  PROVE  LET u == DownstreamStatus(s, p, d) IN
         /\ u \in Status /\ u.kind \in Downgraded(s.kind, d)
         /\ u.kind = "none" => s.kind = "none" \/ (s.kind = "upstreamErrors" /\ s.ref = p)
<1> DEFINE u == DownstreamStatus(s, p, d)
<1>1. CASE s.kind = "upToDate" /\ ~d
  <2>1. u = [s EXCEPT !.kind = "upToDateWithUpstreamTypes"]
    BY <1>1 DEF DownstreamStatus
  <2> QED BY <1>1, <2>1, StatusIs DEF Downgraded, Skipped, Kinds
<1>2. CASE s.kind \in Skipped /\ d
  <2>1. u = Is("inputFileNewer")
    BY <1>2 DEF DownstreamStatus, Skipped
  <2> QED BY <1>2, <2>1, IsStatus DEF Downgraded, Skipped, Kinds
<1>3. CASE s.kind = "upstreamErrors" /\ s.ref = p
  <2>1. u = Is("none")
    BY <1>3 DEF DownstreamStatus
  <2> QED BY <1>3, <2>1, IsStatus DEF Downgraded, Skipped, Kinds
<1>4. CASE ~(s.kind = "upToDate" /\ ~d) /\ ~(s.kind \in Skipped /\ d) /\ ~(s.kind = "upstreamErrors" /\ s.ref = p)
  <2>1. u = s
    BY <1>4 DEF DownstreamStatus, Skipped
  <2> QED BY <1>4, <2>1 DEF Downgraded, Skipped
<1> QED BY <1>1, <1>2, <1>3, <1>4

\* What updateDownstream does to the task t of a project that references p.
Lowered(t, u, d) ==
  /\ u.pending /\ u.resolved = t.resolved /\ u.buildInfo = t.buildInfo /\ u.initial = t.initial
  /\ u.status.kind \in Downgraded(t.status.kind, d)
  /\ u.errors = t.errors \/ (t.status.kind = "upstreamErrors" /\ ~u.errors)
  /\ u.status.kind = "none" /\ t.status.kind # "none" => ~u.errors

\* updateDownstream changes nothing but the statuses of the tasks downstream.
LEMMA UpdateDownstreamIs ==
  ASSUME NEW t \in [Projects -> Tasks], NEW p \in Projects, NEW d \in BOOLEAN
  PROVE  LET u == UpdateDownstream(t, p, d) IN
         /\ u \in [Projects -> Tasks]
         /\ \A q \in Projects \ Downstream(p) : u[q] = t[q]
         /\ t[p].initial \/ (StopBuildOnErrors /\ IsError(t[p].status)) => u = t
         /\ ~(t[p].initial \/ (StopBuildOnErrors /\ IsError(t[p].status))) =>
               \A q \in Downstream(p) : Lowered(t[q], u[q], d)
<1> DEFINE u == UpdateDownstream(t, p, d)
           Stays == t[p].initial \/ (StopBuildOnErrors /\ IsError(t[p].status))
<1>1. CASE Stays
  BY <1>1 DEF UpdateDownstream
<1>2. CASE ~Stays
  <2> DEFINE new(q) == [t[q] EXCEPT !.status = DownstreamStatus(@, p, d), !.pending = TRUE,
                              !.errors = @ /\ ~(t[q].status.kind = "upstreamErrors" /\ t[q].status.ref = p)]
  <2>1. u = [q \in Projects |-> IF q \in Downstream(p) THEN new(q) ELSE t[q]]
    BY <1>2 DEF UpdateDownstream
  <2>2. ASSUME NEW q \in Projects PROVE new(q) \in Tasks /\ Lowered(t[q], new(q), d)
    <3> DEFINE s == DownstreamStatus(t[q].status, p, d)
               e == t[q].errors /\ ~(t[q].status.kind = "upstreamErrors" /\ t[q].status.ref = p)
    <3>1. t[q] \in Tasks /\ t[q].status \in Status
      BY DEF Tasks
    <3>2. /\ s \in Status /\ s.kind \in Downgraded(t[q].status.kind, d)
          /\ s.kind = "none" => t[q].status.kind = "none" \/ (t[q].status.kind = "upstreamErrors" /\ t[q].status.ref = p)
      BY <3>1, DownstreamStatusIs
    <3>3. new(q) = [t[q] EXCEPT !.status = s, !.pending = TRUE, !.errors = e]
      OBVIOUS
    <3>9. e \in BOOLEAN
      OBVIOUS
    <3>4. /\ e = t[q].errors \/ (t[q].status.kind = "upstreamErrors" /\ ~e)
          /\ s.kind = "none" /\ t[q].status.kind # "none" => ~e
      BY <3>1, <3>2 DEF Tasks
    <3> HIDE DEF s, e, new
    <3>5. new(q) \in Tasks
      BY <3>1, <3>2, <3>3, <3>9 DEF Tasks
    <3>6. new(q).status = s /\ new(q).pending = TRUE /\ new(q).errors = e /\ new(q).resolved = t[q].resolved
          /\ new(q).buildInfo = t[q].buildInfo /\ new(q).initial = t[q].initial
      BY <3>1, <3>3, <3>9 DEF Tasks
    <3> QED BY <3>2, <3>4, <3>5, <3>6 DEF Lowered
  <2> HIDE DEF new
  <2>3. Downstream(p) \subseteq Projects
    BY DEF Downstream, Users
  <2> QED BY <1>2, <2>1, <2>2, <2>3
<1> QED BY <1>1, <1>2

\* A step of the task of p, in work and task: nobody else is concerned.
OnlyWork(p) == /\ work' \in [Projects -> Works]
               /\ \A q \in Projects \ {p} : work'[q] = work[q]
OnlyTask(p) == /\ task' \in [Projects -> Tasks]
               /\ \A q \in Projects \ {p} : task'[q] = task[q]

\* A build that moves on moves no other build.
LEMMA GotoIs ==
  ASSUME work \in [Projects -> Works], NEW p \in Projects,
         NEW pc \in {"idle", "waiting", "compiling", "touching", "ending"}, Goto(p, pc)
  PROVE  OnlyWork(p) /\ work'[p].pc = pc
BY DEF Goto, Works, OnlyWork

\* The answers on which buildProject ends at once.
Ends == {"configFileNotFound", "upstreamErrors", "upToDate"}

\* Checking the status of p: it ends at once, or goes on to touch or to compile.
Checked(p, s) ==
  \/ /\ ~task[p].pending
     /\ task' = task /\ work'[p].pc = "ending"
  \/ /\ task[p].pending /\ s.kind \in Ends
     /\ task'[p].errors <=> task[p].errors \/ s.kind = "configFileNotFound"
     /\ task'[p].buildInfo <=> task[p].buildInfo \/ (task[p].status.kind = "none" /\ s.kind = "upToDate")
     /\ work'[p].pc = "ending"
  \/ /\ task[p].pending /\ s.kind \in Pseudo
     /\ task'[p].errors = task[p].errors /\ task'[p].buildInfo
     /\ work'[p].pc = "touching"
  \/ /\ task[p].pending /\ s.kind \in Rebuild
     /\ ~task'[p].errors /\ task'[p].buildInfo
     /\ work'[p].pc = "compiling"
     /\ work'[p].text = text[p] /\ work'[p].config = task[p].resolved
     /\ work'[p].deps = [r \in Upstream(p) |-> Dts(r)]

\* A project has declarations exactly when it has outputs.
LEMMA DtsIs ==
  ASSUME Typed, NEW r \in Projects
  PROVE  Dts(r) \in {"d1", "d2", None} /\ (Dts(r) = None <=> out[r] = None)
<1>1. CASE out[r] = None
  BY <1>1 DEF Dts
<1>2. CASE out[r] # None
  <2>1. out[r] \in Outputs(r)
    BY <1>2 DEF Typed, TypedDisk
  <2>2. out[r].text \in Texts
    BY <2>1 DEF Outputs
  <2>3. out[r].text.dts \in {"d1", "d2"}
    BY <2>2, InputsAssumption
  <2> QED BY <1>2, <2>3, NoneAssumption DEF Dts
<1> QED BY <1>1, <1>2

\* Check takes the status of the task and decides what is to be done.
LEMMA CheckDoes ==
  ASSUME Typed, NEW p \in Projects, Check(p)
  PROVE  /\ work[p].pc = "waiting" /\ UpstreamDone(p)
         /\ OnlyWork(p) /\ OnlyTask(p) /\ Checked(p, UpToDateStatus(p))
         /\ task[p].pending => task'[p].status = UpToDateStatus(p)
         /\ task'[p].pending = task[p].pending /\ task'[p].resolved = task[p].resolved
         /\ task'[p].initial = task[p].initial
         /\ work'[p].pc = "compiling" => Compiled(work'[p]) \in Outputs(p)
<1> DEFINE s == UpToDateStatus(p)
<1>1. /\ work \in [Projects -> Works] /\ task \in [Projects -> Tasks] /\ task[p] \in Tasks
      /\ work[p] \in Works
  BY DEF Typed, TypedRun
<1>2. s \in Status
  BY <1>1, StatusKnown, StatusAsked DEF Tasks
<1>3. work[p].pc = "waiting" /\ UpstreamDone(p)
  BY DEF Check
<1>4. CASE /\ ~task[p].pending
           /\ Goto(p, "ending")
           /\ UNCHANGED task
  <2>1. OnlyWork(p) /\ work'[p].pc = "ending"
    BY <1>1, <1>4, GotoIs
  <2> QED BY <1>1, <1>3, <1>4, <2>1 DEF OnlyTask, Checked
<1>5. CASE /\ task[p].pending /\ s.kind \in Ends
           /\ task' = [task EXCEPT ![p].status = s, ![p].errors = @ \/ s.kind = "configFileNotFound",
                                      ![p].buildInfo = @ \/ (task[p].status.kind = "none" /\ s.kind = "upToDate")]
           /\ Goto(p, "ending")
  <2>1. OnlyWork(p) /\ work'[p].pc = "ending"
    BY <1>1, <1>5, GotoIs
  <2> DEFINE e == task[p].errors \/ s.kind = "configFileNotFound"
             b == task[p].buildInfo \/ (task[p].status.kind = "none" /\ s.kind = "upToDate")
  <2>2. e \in BOOLEAN /\ b \in BOOLEAN
    OBVIOUS
  <2>3. task' = [task EXCEPT ![p] = [task[p] EXCEPT !.status = s, !.errors = e, !.buildInfo = b]]
    BY <1>1, <1>5
  <2> HIDE DEF s
  <2>4. task'[p].errors = e /\ task'[p].buildInfo = b
    <3> HIDE DEF e, b
    <3> QED BY <1>1, <2>3 DEF Tasks
  <2>5. /\ task'[p].status = s
        /\ task'[p].pending = task[p].pending /\ task'[p].resolved = task[p].resolved
        /\ task'[p].initial = task[p].initial /\ OnlyTask(p)
    <3> HIDE DEF e, b
    <3> QED BY <1>1, <1>2, <2>2, <2>3 DEF Tasks, OnlyTask
  <2>6. Checked(p, s)
    BY <1>5, <2>1, <2>4 DEF Checked
  <2> QED BY <1>3, <2>1, <2>5, <2>6 DEF s
<1>6. CASE /\ task[p].pending /\ s.kind \in Pseudo
           /\ task' = [task EXCEPT ![p].status = s, ![p].buildInfo = TRUE]
           /\ Goto(p, "touching")
  <2>1. OnlyWork(p) /\ work'[p].pc = "touching"
    BY <1>1, <1>6, GotoIs
  <2> HIDE DEF s
  <2>2. /\ task'[p].status = s /\ task'[p].errors = task[p].errors /\ task'[p].buildInfo
        /\ task'[p].pending = task[p].pending /\ task'[p].resolved = task[p].resolved
        /\ task'[p].initial = task[p].initial /\ OnlyTask(p)
    BY <1>1, <1>2, <1>6 DEF Tasks, OnlyTask
  <2> QED BY <1>3, <1>6, <2>1, <2>2 DEF Checked, s
<1>7. CASE /\ task[p].pending /\ s.kind \in Rebuild
           /\ task' = [task EXCEPT ![p].status = s, ![p].errors = FALSE, ![p].buildInfo = TRUE]
           /\ work' = [work EXCEPT ![p] =
                    [pc |-> "compiling", text |-> text[p], config |-> task[p].resolved,
                     deps |-> [r \in Upstream(p) |-> Dts(r)]]]
  <2> DEFINE w == [pc |-> "compiling", text |-> text[p], config |-> task[p].resolved,
                   deps |-> [r \in Upstream(p) |-> Dts(r)]]
  <2>1. [r \in Upstream(p) |-> Dts(r)] \in [Upstream(p) -> {"d1", "d2", None}]
    BY DtsIs, OrderFacts
  <2>2. text[p] \in Texts /\ task[p].resolved \in Configs
    BY <1>1 DEF Typed, TypedDisk, Tasks
  <2>3. w \in Works /\ Compiled(w) \in Outputs(p)
    BY <2>1, <2>2 DEF Works, Deps, Compiled, Output, Outputs
  <2>4. work' = [work EXCEPT ![p] = w]
    BY <1>7
  <2>5. /\ work'[p] = w /\ w.pc = "compiling" /\ w.text = text[p] /\ w.config = task[p].resolved
        /\ w.deps = [r \in Upstream(p) |-> Dts(r)]
    BY <1>1, <2>4
  <2> HIDE DEF s, w
  <2>6. OnlyWork(p)
    BY <1>1, <2>3, <2>4 DEF OnlyWork
  <2>7. /\ task'[p].status = s /\ ~task'[p].errors /\ task'[p].buildInfo
        /\ task'[p].pending = task[p].pending /\ task'[p].resolved = task[p].resolved
        /\ task'[p].initial = task[p].initial /\ OnlyTask(p)
    BY <1>1, <1>2, <1>7 DEF Tasks, OnlyTask
  <2> QED BY <1>3, <1>7, <2>3, <2>5, <2>6, <2>7 DEF Checked, s
<1> HIDE DEF s
<1>8. \/ /\ ~task[p].pending
         /\ Goto(p, "ending")
         /\ UNCHANGED task
      \/ /\ task[p].pending /\ s.kind \in Ends
         /\ task' = [task EXCEPT ![p].status = s, ![p].errors = @ \/ s.kind = "configFileNotFound",
                                 ![p].buildInfo = @ \/ (task[p].status.kind = "none" /\ s.kind = "upToDate")]
         /\ Goto(p, "ending")
      \/ /\ task[p].pending /\ s.kind \in Pseudo
         /\ task' = [task EXCEPT ![p].status = s, ![p].buildInfo = TRUE]
         /\ Goto(p, "touching")
      \/ /\ task[p].pending /\ s.kind \in Rebuild
         /\ task' = [task EXCEPT ![p].status = s, ![p].errors = FALSE, ![p].buildInfo = TRUE]
         /\ work' = [work EXCEPT ![p] =
                    [pc |-> "compiling", text |-> text[p], config |-> task[p].resolved,
                     deps |-> [r \in Upstream(p) |-> Dts(r)]]]
  BY DEF Check, s, Ends, Pseudo, Rebuild, IsPseudoBuild
<1> QED BY <1>4, <1>5, <1>6, <1>7, <1>8 DEF s

\* Touch makes the task up to date and changes no status, error or pending flag of another.
LEMMA TouchDoes ==
  ASSUME Typed, NEW p \in Projects, Touch(p)
  PROVE  /\ work[p].pc = "touching" /\ OnlyWork(p) /\ work'[p].pc = "ending"
         /\ task' \in [Projects -> Tasks]
         /\ \A q \in Projects \ {p} : Alike(task'[q], task[q])
         /\ task'[p].status.kind = "upToDate"
         /\ task'[p].pending = task[p].pending /\ task'[p].errors = task[p].errors
         /\ task'[p].resolved = task[p].resolved /\ task'[p].buildInfo = task[p].buildInfo
         /\ task'[p].initial = task[p].initial
<1>1. /\ work \in [Projects -> Works] /\ task \in [Projects -> Tasks] /\ task[p] \in Tasks
  BY DEF Typed, TypedRun
<1>2. work[p].pc = "touching" /\ OnlyWork(p) /\ work'[p].pc = "ending"
  BY <1>1, GotoIs DEF Touch
<1> DEFINE t == [task EXCEPT ![p].status.kind = "upToDate"]
<1>3. task' = Written(t, p)
  BY DEF Touch
<1>4. /\ t \in [Projects -> Tasks] /\ \A q \in Projects \ {p} : t[q] = task[q]
      /\ t[p].status.kind = "upToDate"
      /\ t[p].pending = task[p].pending /\ t[p].errors = task[p].errors
      /\ t[p].resolved = task[p].resolved /\ t[p].buildInfo = task[p].buildInfo
      /\ t[p].initial = task[p].initial
  <2>1. [task[p].status EXCEPT !.kind = "upToDate"] \in Status
    BY <1>1, StatusIs DEF Tasks, Kinds
  <2>2. t = [task EXCEPT ![p] = [task[p] EXCEPT !.status = [task[p].status EXCEPT !.kind = "upToDate"]]]
    BY <1>1
  <2>3. [task[p].status EXCEPT !.kind = "upToDate"].kind = "upToDate"
    BY <1>1, StatusIs DEF Tasks
  <2> HIDE DEF t
  <2> QED BY <1>1, <2>1, <2>2, <2>3 DEF Tasks
<1> HIDE DEF t
<1>5. task' \in [Projects -> Tasks] /\ \A q \in Projects : Alike(task'[q], t[q])
  BY <1>3, <1>4, WrittenIs
<1> QED BY <1>2, <1>4, <1>5 DEF Alike

\* What a compilation of p leaves, for p and for those that reference it.
Emitted(p) == Compiled(work[p])
DtsDiffers(p) == Dts(p) # Emitted(p).text.dts

\* Emit replaces the outputs, takes the status from them and lowers the tasks downstream.
LEMMA EmitDoes ==
  ASSUME Typed, NEW p \in Projects, Emit(p)
  PROVE  /\ work[p].pc = "compiling" /\ OnlyWork(p) /\ work'[p].pc = "ending"
         /\ Emitted(p) \in Outputs(p) /\ out' = [out EXCEPT ![p] = Emitted(p)]
         /\ task' \in [Projects -> Tasks]
         /\ task'[p].status.kind = (IF HasErrors(Emitted(p)) THEN "buildErrors" ELSE "upToDate")
         /\ task'[p].errors = HasErrors(Emitted(p))
         /\ task'[p].pending = task[p].pending /\ task'[p].resolved = task[p].resolved
         /\ task'[p].initial = task[p].initial /\ task'[p].buildInfo
         /\ \A q \in Projects \ {p} :
               IF q \in Downstream(p) /\ ~task[p].initial /\ ~(StopBuildOnErrors /\ HasErrors(Emitted(p)))
               THEN Lowered(task[q], task'[q], DtsDiffers(p))
               ELSE Alike(task'[q], task[q])
<1>1. /\ work \in [Projects -> Works] /\ task \in [Projects -> Tasks] /\ task[p] \in Tasks
      /\ out \in [Projects -> {None} \cup UNION {Outputs(q) : q \in Projects}]
  BY DEF Typed, TypedRun, TypedDisk
<1> DEFINE o == Output(work[p].text, work[p].config, work[p].deps)
           d == Dts(p) # o.text.dts
           k == IF HasErrors(o) THEN "buildErrors" ELSE "upToDate"
           unchanged == o = out[p] /\ task[p].status.kind = "outOfDateBuildInfoWithErrors"
           t == [task EXCEPT ![p].errors = HasErrors(o), ![p].buildInfo = TRUE, ![p].status = Is(k)]
           v == IF unchanged THEN t ELSE Written(t, p)
<1>2. /\ work[p].pc = "compiling" /\ Goto(p, "ending") /\ out' = [out EXCEPT ![p] = o]
      /\ task' = UpdateDownstream(v, p, d)
  BY DEF Emit
<1>3. o = Emitted(p) /\ o \in Outputs(p) /\ d = DtsDiffers(p)
  BY <1>2 DEF Emitted, Compiled, DtsDiffers, Typed, TypedRun
<1>4. OnlyWork(p) /\ work'[p].pc = "ending"
  BY <1>1, <1>2, GotoIs
<1>5. HasErrors(o) \in BOOLEAN /\ k \in {"buildErrors", "upToDate"} /\ d \in BOOLEAN
  BY DEF HasErrors
<1>6. Is(k) \in Status /\ Is(k).kind = k
  BY <1>5, IsStatus DEF Kinds
<1>7. /\ t \in [Projects -> Tasks] /\ \A q \in Projects \ {p} : t[q] = task[q]
      /\ t[p].status = Is(k) /\ t[p].errors = HasErrors(o)
      /\ t[p].pending = task[p].pending /\ t[p].resolved = task[p].resolved
      /\ t[p].initial = task[p].initial /\ t[p].buildInfo
  <2> DEFINE e == HasErrors(o)
  <2>1. e \in BOOLEAN
    BY <1>5
  <2>2. t = [task EXCEPT ![p] = [task[p] EXCEPT !.errors = e, !.buildInfo = TRUE, !.status = Is(k)]]
    BY <1>1
  <2> HIDE DEF t, e, k, o
  <2>3. /\ t \in [Projects -> Tasks] /\ \A q \in Projects \ {p} : t[q] = task[q]
        /\ t[p].status = Is(k) /\ t[p].errors = e
        /\ t[p].pending = task[p].pending /\ t[p].resolved = task[p].resolved
        /\ t[p].initial = task[p].initial /\ t[p].buildInfo
    BY <1>1, <1>6, <2>1, <2>2 DEF Tasks
  <2> QED BY <2>3 DEF e
<1> HIDE DEF t
<1>8. /\ v \in [Projects -> Tasks] /\ \A q \in Projects : Alike(v[q], t[q])
      /\ v[p].status.kind = k
  <2>1. CASE unchanged
    BY <1>6, <1>7, <2>1 DEF Alike
  <2>2. CASE ~unchanged
    <3>1. v = Written(t, p)
      BY <2>2
    <3> HIDE DEF v, unchanged, k, o
    <3> QED BY <1>6, <1>7, <3>1, WrittenIs DEF Alike
  <2> QED BY <2>1, <2>2
<1> HIDE DEF v
<1>9. IsError(v[p].status) <=> HasErrors(o)
  BY <1>8 DEF IsError
<1>10. v[p].initial = task[p].initial
  BY <1>7, <1>8 DEF Alike
<1>11. p \notin Downstream(p)
  BY NoSelf DEF Downstream, Users
<1> DEFINE Stays == v[p].initial \/ (StopBuildOnErrors /\ IsError(v[p].status))
<1>12. /\ task' \in [Projects -> Tasks]
       /\ \A q \in Projects \ Downstream(p) : task'[q] = v[q]
       /\ Stays => task' = v
       /\ ~Stays => \A q \in Downstream(p) : Lowered(v[q], task'[q], d)
  <2> HIDE DEF d, o, k
  <2> QED BY <1>2, <1>5, <1>8, UpdateDownstreamIs
<1>13. Alike(task'[p], t[p])
  BY <1>8, <1>11, <1>12
<1>14. ASSUME NEW q \in Projects \ {p}
       PROVE  IF q \in Downstream(p) /\ ~task[p].initial /\ ~(StopBuildOnErrors /\ HasErrors(o))
              THEN Lowered(task[q], task'[q], d) ELSE Alike(task'[q], task[q])
  <2>1. Alike(v[q], task[q])
    BY <1>7, <1>8
  <2> HIDE DEF d, o, k
  <2>2. CASE q \in Downstream(p) /\ ~Stays
    <3>1. Lowered(v[q], task'[q], d)
      BY <1>12, <2>2
    <3>2. Lowered(task[q], task'[q], d)
      BY <2>1, <3>1 DEF Lowered, Alike
    <3> QED BY <1>9, <1>10, <2>2, <3>2
  <2>3. CASE ~(q \in Downstream(p) /\ ~Stays)
    <3>1. task'[q] = v[q]
      BY <1>12, <2>3
    <3> QED BY <1>9, <1>10, <2>1, <2>3, <3>1
  <2> QED BY <2>2, <2>3
<1> HIDE DEF d
<1>15. task'[p].status.kind = k /\ task'[p].errors = HasErrors(o)
       /\ task'[p].pending = task[p].pending /\ task'[p].resolved = task[p].resolved
       /\ task'[p].initial = task[p].initial /\ task'[p].buildInfo
  <2> HIDE DEF o, k
  <2> QED BY <1>6, <1>7, <1>13 DEF Alike
<1> HIDE DEF o, Stays
<1> QED BY <1>2, <1>3, <1>4, <1>12, <1>14, <1>15

\* End makes the task report and build no more.
LEMMA EndDoes ==
  ASSUME Typed, NEW p \in Projects, End(p)
  PROVE  /\ work[p].pc = "ending" /\ OnlyWork(p) /\ work'[p].pc = "idle"
         /\ OnlyTask(p) /\ ~task'[p].pending /\ ~task'[p].initial
         /\ task'[p].status = task[p].status /\ task'[p].errors = task[p].errors
         /\ task'[p].resolved = task[p].resolved /\ task'[p].buildInfo = task[p].buildInfo
<1>1. /\ work \in [Projects -> Works] /\ task \in [Projects -> Tasks]
  BY DEF Typed, TypedRun
<1>2. Idle \in Works /\ Idle.pc = "idle"
  BY DEF Idle, Works, Deps
<1>3. work[p].pc = "ending" /\ work' = [work EXCEPT ![p] = Idle]
      /\ task' = [task EXCEPT ![p].pending = FALSE, ![p].initial = FALSE]
  BY DEF End
<1>4. OnlyWork(p) /\ work'[p].pc = "idle"
  BY <1>1, <1>2, <1>3 DEF OnlyWork
<1>5. /\ OnlyTask(p) /\ ~task'[p].pending /\ ~task'[p].initial
      /\ task'[p].status = task[p].status /\ task'[p].errors = task[p].errors
      /\ task'[p].resolved = task[p].resolved /\ task'[p].buildInfo = task[p].buildInfo
  BY <1>1, <1>3 DEF OnlyTask, Tasks
<1> QED BY <1>3, <1>4, <1>5

\* A task that the new cycle begins anew: resetStatus, or a new task for a new configuration.
Renewed(p) ==
  /\ task'[p].pending /\ ~task'[p].errors /\ task'[p].status.kind = "none"
  /\ task'[p].buildInfo = task[p].buildInfo
  /\ task'[p].initial => task[p].initial

\* Drain renews the tasks whose files have changed, and those downstream of them.
LEMMA DrainDoes ==
  ASSUME Typed, Drain
  PROVE  /\ task' \in [Projects -> Tasks]
         /\ \A p \in Dirty \cup Affected : Renewed(p)
         /\ \A p \in Dirty : task'[p].resolved = config[p]
         /\ \A p \in Projects \ Dirty : task'[p].resolved = task[p].resolved
         /\ \A p \in Projects \ (Dirty \cup Affected) : task'[p] = task[p]
         /\ Dirty \subseteq Projects /\ Affected \subseteq Projects
<1>1. task \in [Projects -> Tasks] /\ TypedDisk
  BY DEF Typed, TypedRun
<1>2. Dirty \subseteq Projects /\ Affected \subseteq Projects /\ Dirty \cap Affected = {}
  BY DEF Dirty, Affected
<1>3. task' = [p \in Projects |-> Regenerated(p)]
  BY DEF Drain
<1>4. ASSUME NEW p \in Dirty
      PROVE  Regenerated(p) \in Tasks /\ Renewed(p) /\ task'[p].resolved = config[p]
  <2>1. Regenerated(p) = NewTask(p, task[p].buildInfo, FALSE) /\ task'[p] = Regenerated(p)
    BY <1>2, <1>3 DEF Regenerated
  <2> DEFINE b == task[p].buildInfo
  <2>2. p \in Projects /\ b \in BOOLEAN /\ FALSE \in BOOLEAN
    BY <1>1, <1>2 DEF Tasks
  <2>3. Regenerated(p) = NewTask(p, b, FALSE)
    BY <2>1
  <2> HIDE DEF b
  <2>5. \A i \in BOOLEAN : 
          /\ NewTask(p, b, i) \in Tasks
          /\ NewTask(p, b, i).pending /\ ~NewTask(p, b, i).errors
          /\ NewTask(p, b, i).status.kind = "none" /\ NewTask(p, b, i).resolved = config[p]
          /\ NewTask(p, b, i).buildInfo = b /\ NewTask(p, b, i).initial = i
    BY <1>1, <2>2, NewTaskIs
  <2>4. /\ Regenerated(p) \in Tasks
        /\ Regenerated(p).pending /\ ~Regenerated(p).errors
        /\ Regenerated(p).status.kind = "none" /\ Regenerated(p).resolved = config[p]
        /\ Regenerated(p).buildInfo = b /\ ~Regenerated(p).initial
    BY <2>2, <2>3, <2>5
  <2> QED BY <2>1, <2>4 DEF Renewed, b
<1>5. ASSUME NEW p \in Affected
      PROVE  Regenerated(p) \in Tasks /\ Renewed(p) /\ task'[p].resolved = task[p].resolved
  <2>1. Regenerated(p) = ResetStatus(task[p]) /\ task'[p] = Regenerated(p)
    BY <1>2, <1>3 DEF Regenerated
  <2>2. task[p] \in Tasks
    BY <1>1, <1>2
  <2> QED BY <2>1, <2>2, ResetIs DEF Renewed
<1>6. ASSUME NEW p \in Projects \ (Dirty \cup Affected)
      PROVE  Regenerated(p) \in Tasks /\ task'[p] = task[p]
  BY <1>1, <1>3 DEF Regenerated
<1>7. \A p \in Projects : Regenerated(p) \in Tasks
  BY <1>4, <1>5, <1>6
<1> QED BY <1>2, <1>3, <1>4, <1>5, <1>6, <1>7

\* Start makes a new task for every project.
LEMMA StartDoes ==
  ASSUME Typed, Start
  PROVE  /\ task' \in [Projects -> Tasks]
         /\ \A p \in Projects : /\ task'[p].pending /\ ~task'[p].errors /\ task'[p].status.kind = "none"
                                /\ task'[p].resolved = config[p] /\ ~task'[p].buildInfo /\ task'[p].initial
<1>1. task' = [p \in Projects |-> NewTask(p, FALSE, TRUE)]
  BY DEF Start
<1>2. \A p \in Projects : /\ NewTask(p, FALSE, TRUE) \in Tasks
                          /\ NewTask(p, FALSE, TRUE).pending /\ ~NewTask(p, FALSE, TRUE).errors
                          /\ NewTask(p, FALSE, TRUE).status.kind = "none"
                          /\ NewTask(p, FALSE, TRUE).resolved = config[p]
                          /\ ~NewTask(p, FALSE, TRUE).buildInfo /\ NewTask(p, FALSE, TRUE).initial
  BY NewTaskIs DEF Typed
<1> QED BY <1>1, <1>2

\* Take takes a task that was not taken.
LEMMA TakeDoes ==
  ASSUME Typed, Take
  PROVE  \E p \in Projects :
           /\ p = ScheduleOrder[next] /\ p \notin Taken /\ Taken' = Taken \cup {p}
           /\ OnlyWork(p) /\ work'[p].pc = "waiting" /\ result' = result \cup {p}
           /\ next' \in 1..(Len(Order) + 1)
<1>1. /\ next \in 1..Len(Order) /\ next' = next + 1 /\ result' = result \cup {ScheduleOrder[next]}
      /\ work' = [work EXCEPT ![ScheduleOrder[next]].pc = "waiting"]
  BY OrderFacts DEF Take, Typed, TypedRun
<1> DEFINE p == ScheduleOrder[next]
<1>2. p \in Projects /\ p \notin Taken
  BY <1>1, ScheduleOnce, OrderFacts DEF Taken
<1>3. Taken' = Taken \cup {p}
  BY <1>1, OrderFacts DEF Taken
<1>4. OnlyWork(p) /\ work'[p].pc = "waiting"
  BY <1>1, <1>2 DEF OnlyWork, Works, Typed, TypedRun
<1>5. next' \in 1..(Len(Order) + 1)
  BY <1>1, OrderFacts
<1> QED BY <1>1, <1>2, <1>3, <1>4, <1>5
-----------------------------------------------------------------------------
(* Every variable keeps its type.                                           *)

\* The types hold at the start.
LEMMA TypedInit == Init => Typed
<1> SUFFICES ASSUME Init PROVE Typed
  OBVIOUS
<1>1. PICK t \in Texts : text = [p \in Projects |-> t]
  BY DEF Init
<1>2. text \in [Projects -> Texts] /\ config \in [Projects -> Configs]
  <2>1. (CHOOSE c \in Configs : c # "missing") \in Configs
    BY InputsAssumption
  <2>2. config = [p \in Projects |-> CHOOSE c \in Configs : c # "missing"]
    BY DEF Init
  <2> HIDE DEF Init
  <2> QED BY <1>1, <2>1, <2>2
<1>3. \A p \in Projects : out[p] = None \/ out[p] \in Outputs(p)
  <2>1. CASE out = [p \in Projects |-> None]
    BY <2>1
  <2>2. CASE out = [p \in Projects |-> [text |-> text[p], config |-> config[p],
                                        deps |-> [r \in Upstream(p) |-> text[r].dts]]]
    <3>1. \A r \in Projects : text[r].dts \in {"d1", "d2", None}
      BY <1>2, InputsAssumption
    <3>2. ASSUME NEW p \in Projects
          PROVE  [text |-> text[p], config |-> config[p], deps |-> [r \in Upstream(p) |-> text[r].dts]]
                    \in Outputs(p)
      BY <1>2, <3>1, OrderFacts DEF Outputs
    <3> QED BY <2>2, <3>2
  <2> QED BY <2>1, <2>2 DEF Init
<1>4. out = [p \in Projects |-> out[p]]
  BY DEF Init
<1>5. TypedDisk
  <2>1. newer = [p \in Projects |-> {}] /\ late = {}
    BY DEF Init
  <2>2. out \in [Projects -> {None} \cup UNION {Outputs(p) : p \in Projects}]
    BY <1>3, <1>4
  <2> HIDE DEF Init
  <2> QED BY <1>2, <1>3, <2>1, <2>2 DEF TypedDisk
<1>6. \A p \in Projects : NewTask(p, FALSE, TRUE) \in Tasks
  BY <1>5, NewTaskIs
<1>7. Idle \in Works /\ Idle.pc = "idle"
  BY DEF Idle, Works, Deps
<1>8. TypedRun
  <2>1. /\ task = [p \in Projects |-> NewTask(p, FALSE, TRUE)]
        /\ phase = "off" /\ next = 1 /\ reported = 1 /\ work = [p \in Projects |-> Idle]
        /\ done = {} /\ built = {} /\ result = {} /\ shown = {}
    BY DEF Init
  <2> HIDE DEF Init
  <2>2. task \in [Projects -> Tasks]
    BY <1>6, <2>1
  <2>3. /\ work \in [Projects -> Works]
        /\ \A p \in Projects : work[p].pc = "compiling" => Compiled(work[p]) \in Outputs(p)
    BY <1>7, <2>1
  <2>4. next \in 1..(Len(Order) + 1) /\ reported \in 1..(Len(Order) + 1)
    BY <2>1, OrderFacts
  <2> QED BY <2>1, <2>2, <2>3, <2>4 DEF TypedRun
<1>9. TypedWatch
  BY DEF TypedWatch, Init
<1> QED BY <1>5, <1>8, <1>9 DEF Typed

\* The steps of the user and the watcher.
LEMMA TypedUser == ASSUME Typed, User PROVE Typed'
<1>1. ASSUME NEW p \in Projects, NEW kind \in {"text", "config"}, Changed(kind, p)
      PROVE  /\ newer' \in [Projects -> SUBSET Inputs] /\ late' \subseteq Projects /\ out' = out
             /\ TypedRun' /\ TypedWatch'
  <2>1. <<kind, p>> \in Inputs
    BY DEF Inputs
  <2>2. newer' \in [Projects -> SUBSET Inputs] /\ late' \subseteq Projects /\ out' = out
    BY <1>1, <2>1 DEF Changed, Typed, TypedDisk
  <2>3. unsent' \in SUBSET Inputs
    BY <1>1, <2>1 DEF Changed, Typed, TypedWatch
  <2>4. TypedWatch'
    BY <1>1, <2>3 DEF Changed, Typed, TypedWatch
  <2>5. TypedRun'
    BY <1>1 DEF Changed, Typed, TypedRun, run
  <2> QED BY <2>2, <2>4, <2>5
<1>2. CASE \E p \in Projects : EditText(p)
  <2>1. PICK p \in Projects : EditText(p)
    BY <1>2
  <2>2. text' \in [Projects -> Texts] /\ config' = config /\ Changed("text", p)
    BY <2>1 DEF EditText, Typed, TypedDisk
  <2> QED BY <1>1, <2>2 DEF Typed, TypedDisk
<1>3. CASE \E p \in Projects : EditConfig(p)
  <2>1. PICK p \in Projects : EditConfig(p)
    BY <1>3
  <2>2. config' \in [Projects -> Configs] /\ text' = text /\ Changed("config", p)
    BY <2>1 DEF EditConfig, Typed, TypedDisk
  <2> QED BY <1>1, <2>2 DEF Typed, TypedDisk
<1> QED BY <1>2, <1>3 DEF User

\* The watcher's steps keep the types.
LEMMA TypedWatcher == ASSUME Typed, Deliver \/ Overflow PROVE Typed'
<1>1. CASE Deliver
  BY <1>1 DEF Deliver, Typed, TypedDisk, TypedRun, TypedWatch, disk, run
<1>2. CASE Overflow
  BY <1>2 DEF Overflow, Typed, TypedDisk, TypedRun, TypedWatch, disk, run
<1> QED BY <1>1, <1>2

\* The steps of the build and watch cycle keep the types.
LEMMA TypedCycle == ASSUME Typed, Start \/ Wake \/ Drain \/ Take \/ Report \/ EndCycle PROVE Typed'
<1>1. CASE Start
  <2>1. task' \in [Projects -> Tasks]
    BY <1>1, StartDoes
  <2>2. /\ phase' = "building" /\ next' = 1 /\ reported' = 1 /\ done' = {} /\ built' = {} /\ shown' = {}
        /\ UNCHANGED <<work, result, disk, watch>>
    BY <1>1 DEF Start, BeginBuild
  <2> QED BY <2>1, <2>2, OrderFacts DEF Typed, TypedDisk, TypedRun, TypedWatch, disk, watch
<1>2. CASE Wake
  BY <1>2 DEF Wake, Typed, TypedDisk, TypedRun, TypedWatch, disk
<1>3. CASE Drain
  <2>1. task' \in [Projects -> Tasks]
    BY <1>3, DrainDoes
  <2>2. /\ UNCHANGED <<work, result, disk, unsent, signal, watching>> /\ changed' = {} /\ overflow' = FALSE
        /\ phase' \in {"idle", "building"} /\ next' \in {1, next} /\ reported' \in {1, reported}
        /\ done' \in SUBSET Projects /\ built' \in SUBSET Projects /\ shown' \in SUBSET Projects
    BY <1>3 DEF Drain, BeginBuild, Typed, TypedRun
  <2>3. next' \in 1..(Len(Order) + 1) /\ reported' \in 1..(Len(Order) + 1)
    BY <2>2, OrderFacts DEF Typed, TypedRun
  <2>4. TypedDisk'
    BY <2>2 DEF Typed, TypedDisk, disk
  <2>5. TypedRun'
    BY <2>1, <2>2, <2>3 DEF Typed, TypedRun
  <2>6. TypedWatch'
    BY <2>2 DEF Typed, TypedWatch
  <2> QED BY <2>4, <2>5, <2>6 DEF Typed
<1>4. CASE Take
  <2>1. PICK p \in Projects : /\ OnlyWork(p) /\ work'[p].pc = "waiting" /\ result' = result \cup {p}
                              /\ next' \in 1..(Len(Order) + 1)
    BY <1>4, TakeDoes
  <2>2. UNCHANGED <<disk, task, phase, reported, done, built, shown, watch>>
    BY <1>4 DEF Take
  <2>3. work' \in [Projects -> Works]
        /\ \A q \in Projects : work'[q].pc = "compiling" => Compiled(work'[q]) \in Outputs(q)
    BY <2>1 DEF OnlyWork, Typed, TypedRun
  <2> QED BY <2>1, <2>2, <2>3 DEF Typed, TypedDisk, TypedRun, TypedWatch, disk, watch
<1>5. CASE Report
  <2>1. Order[reported] \in Projects
    BY <1>5, OrderFacts DEF Report, Typed, TypedRun
  <2>2. /\ shown' \in SUBSET Projects /\ result' \in SUBSET Projects /\ reported' \in 1..(Len(Order) + 1)
        /\ UNCHANGED <<disk, task, phase, next, work, done, built, watch>>
    BY <1>5, <2>1, OrderFacts DEF Report, Typed, TypedRun
  <2> QED BY <2>2 DEF Typed, TypedDisk, TypedRun, TypedWatch, disk, watch
<1>6. CASE EndCycle
  BY <1>6 DEF EndCycle, Typed, TypedDisk, TypedRun, TypedWatch, disk
<1> QED BY <1>1, <1>2, <1>3, <1>4, <1>5, <1>6

\* The steps of one project's build keep the types.
LEMMA TypedBuild == ASSUME Typed, NEW p \in Projects, Build(p) PROVE Typed'
<1>1. CASE Check(p)
  <2>1. /\ OnlyWork(p) /\ OnlyTask(p)
        /\ work'[p].pc = "compiling" => Compiled(work'[p]) \in Outputs(p)
    BY <1>1, CheckDoes
  <2>2. UNCHANGED <<disk, phase, next, reported, done, built, result, shown, watch, edits>>
    BY <1>1 DEF Check
  <2> QED BY <2>1, <2>2 DEF Typed, TypedDisk, TypedRun, TypedWatch, disk, watch, OnlyWork, OnlyTask
<1>2. CASE Touch(p)
  <2>1. OnlyWork(p) /\ work'[p].pc = "ending" /\ task' \in [Projects -> Tasks]
    BY <1>2, TouchDoes
  <2>2. UNCHANGED <<text, config, out, phase, next, reported, done, built, result, shown, watch>>
        /\ newer' = [newer EXCEPT ![p] = {}] /\ late' \in {late \ {p}, late \cup {p}}
    BY <1>2 DEF Touch, Overtaken
  <2> QED BY <2>1, <2>2 DEF Typed, TypedDisk, TypedRun, TypedWatch, watch, OnlyWork
<1>3. CASE Emit(p)
  <2>1. /\ OnlyWork(p) /\ work'[p].pc = "ending" /\ task' \in [Projects -> Tasks]
        /\ Emitted(p) \in Outputs(p) /\ out' = [out EXCEPT ![p] = Emitted(p)]
    BY <1>3, EmitDoes
  <2>2. <<"dts", p>> \in Inputs
    BY DEF Inputs
  <2>3. UNCHANGED <<text, config, phase, next, reported, done, built, result, shown,
                    changed, overflow, signal, watching>>
    BY <1>3 DEF Emit
  <2>4. late' \in SUBSET Projects /\ unsent' \in SUBSET Inputs
    BY <1>3, <2>2 DEF Emit, Overtaken, Typed, TypedDisk, TypedWatch
  <2>5. newer' \in [Projects -> SUBSET Inputs]
    BY <1>3, <2>2 DEF Emit, Typed, TypedDisk
  <2>6. /\ out' \in [Projects -> {None} \cup UNION {Outputs(q) : q \in Projects}]
        /\ \A q \in Projects : out'[q] = None \/ out'[q] \in Outputs(q)
    BY <2>1 DEF Typed, TypedDisk
  <2> QED BY <2>1, <2>3, <2>4, <2>5, <2>6 DEF Typed, TypedDisk, TypedRun, TypedWatch, OnlyWork
<1>4. CASE End(p)
  <2>1. OnlyWork(p) /\ work'[p].pc = "idle" /\ OnlyTask(p)
    BY <1>4, EndDoes
  <2>2. UNCHANGED <<disk, phase, next, reported, result, shown, watch>>
        /\ done' = done \cup {p} /\ built' = built \cup {p}
    BY <1>4 DEF End
  <2> QED BY <2>1, <2>2 DEF Typed, TypedDisk, TypedRun, TypedWatch, disk, watch, OnlyWork, OnlyTask
<1> QED BY <1>1, <1>2, <1>3, <1>4 DEF Build

\* Every step keeps the types.
LEMMA TypedStep == Typed /\ [Next]_vars => Typed'
<1> SUFFICES ASSUME Typed, [Next]_vars PROVE Typed'
  OBVIOUS
<1>1. CASE UNCHANGED vars
  BY <1>1 DEF vars, disk, run, watch, Typed, TypedDisk, TypedRun, TypedWatch
<1>2. CASE Next
  BY <1>2, TypedUser, TypedWatcher, TypedCycle, TypedBuild DEF Next
<1> QED BY <1>1, <1>2
-----------------------------------------------------------------------------
(* The control of a cycle.                                                  *)

\* The control part of the invariant holds at the start.
LEMMA ControlInit == Init => Cycle /\ NeverBuilt
<1> SUFFICES ASSUME Init PROVE Cycle /\ NeverBuilt
  OBVIOUS
<1>1. Idle.pc = "idle" /\ work = [p \in Projects |-> Idle] /\ phase = "off"
  BY DEF Init, Idle
<1>2. task = [p \in Projects |-> NewTask(p, FALSE, TRUE)] /\ TypedDisk
  BY TypedInit DEF Init, Typed
<1>3. \A p \in Projects : work[p].pc = "idle"
  BY <1>1
<1>4. \A p \in Projects : task[p].status.kind = "none"
  BY <1>2, NewTaskIs
<1> QED BY <1>1, <1>3, <1>4 DEF Cycle, NeverBuilt, NoConfig, Busy

\* The steps that no goroutine of the build takes part in.
LEMMA ControlOutside ==
  ASSUME Control, User \/ Deliver \/ Overflow \/ Wake
  PROVE  Cycle' /\ NeverBuilt'
<1>1. UNCHANGED <<task, next, reported, work, done, built>>
  BY DEF User, EditText, EditConfig, Changed, Deliver, Overflow, Wake, run
<1>2. phase' = phase \/ (phase' = "draining" /\ phase = "idle")
  BY DEF User, EditText, EditConfig, Changed, Deliver, Overflow, Wake, run
<1> QED BY <1>1, <1>2 DEF Control, Cycle, NeverBuilt, NoConfig, Busy, Taken, Working

\* Start begins the first cycle: nobody has taken a task yet.
LEMMA ControlStart == ASSUME Control, Start PROVE Cycle' /\ NeverBuilt'
<1>1. /\ phase' = "building" /\ next' = 1 /\ done' = {} /\ built' = {} /\ work' = work
      /\ phase = "off"
  BY DEF Start, BeginBuild
<1>2. \A p \in Projects : task'[p].status.kind = "none"
  BY StartDoes DEF Control
<1>3. \A p \in Projects : work[p].pc = "idle"
  BY <1>1 DEF Control, Cycle, Busy
<1>4. Taken' = {} /\ Busy' = {}
  BY <1>1, <1>3 DEF Taken, Busy
<1> QED BY <1>1, <1>2, <1>3, <1>4 DEF Cycle, NeverBuilt, NoConfig, Working

\* Drain happens between cycles: nobody builds.
LEMMA ControlDrain == ASSUME Control, Drain PROVE Cycle' /\ NeverBuilt'
<1>1. work' = work /\ phase = "draining"
  BY DEF Drain, BeginBuild
<1>2. \A p \in Projects : work[p].pc = "idle"
  BY <1>1 DEF Control, Cycle, Busy
<1>3. NeverBuilt'
  <2>1. ASSUME NEW p \in Projects, task'[p].resolved = "missing"
        PROVE  task'[p].status.kind \in {"none", "configFileNotFound"}
    <3>1. CASE p \in Dirty \cup Affected
      BY <3>1, DrainDoes DEF Control, Renewed
    <3>2. CASE p \notin Dirty \cup Affected
      BY <2>1, <3>2, DrainDoes DEF Control, NeverBuilt, NoConfig
    <3> QED BY <3>1, <3>2
  <2> QED BY <1>1, <1>2, <2>1 DEF NeverBuilt, NoConfig
<1>4. CASE Dirty \cup Affected = {}
  BY <1>1, <1>2, <1>3, <1>4 DEF Drain, Cycle, Busy
<1>5. CASE Dirty \cup Affected # {}
  <2> DEFINE keep == IF Dirty # {} THEN {} ELSE {p \in Projects : task[p].resolved = "missing"}
  <2>1. phase' = "building" /\ next' = 1 /\ done' = keep /\ built' = keep
    BY <1>5 DEF Drain, BeginBuild
  <2>2. keep \subseteq NoConfig'
    BY DrainDoes DEF Control, NoConfig
  <2>3. Taken' = {} /\ Busy' = {}
    BY <1>1, <1>2, <2>1 DEF Taken, Busy
  <2> HIDE DEF keep
  <2> QED BY <1>1, <1>2, <1>3, <2>1, <2>2, <2>3 DEF Cycle, Working
<1> QED BY <1>4, <1>5

\* A worker takes the next project of the order.
LEMMA ControlTake == ASSUME Control, Take PROVE Cycle' /\ NeverBuilt'
<1>1. PICK p \in Projects :
           /\ p = ScheduleOrder[next] /\ p \notin Taken /\ Taken' = Taken \cup {p}
           /\ OnlyWork(p) /\ work'[p].pc = "waiting"
  BY TakeDoes DEF Control
<1>2. UNCHANGED <<task, phase, reported, done, built>> /\ phase = "building"
  BY DEF Take
<1>3. Busy' = Busy \cup {p} /\ NoConfig' = NoConfig
  BY <1>1, <1>2 DEF Busy, NoConfig, OnlyWork
<1>4. \A q \in Projects : Working(q)' => Working(q)
  BY <1>1 DEF Working, OnlyWork
<1>5. Cycle'
  BY <1>1, <1>2, <1>3, <1>4 DEF Control, Cycle
<1>6. NeverBuilt'
  BY <1>1, <1>2, <1>3 DEF Control, NeverBuilt, OnlyWork, NoConfig
<1> QED BY <1>5, <1>6

\* A task that a goroutine has taken belongs to a cycle.
LEMMA BusyBuilds == ASSUME Control, NEW p \in Projects, work[p].pc # "idle" PROVE phase = "building" /\ p \in Busy
BY DEF Control, Cycle, Busy

\* A step of a taken task that leaves it taken, and its references done if it goes on.
LEMMA ControlGoes ==
  ASSUME Control, NEW p \in Projects, OnlyWork(p), work[p].pc # "idle", work'[p].pc # "idle",
         UNCHANGED <<phase, next, done, built>>, NoConfig' = NoConfig,
         p \in NoConfig \/ Upstream(p) \subseteq done
  PROVE  Cycle'
<1>1. Busy' = Busy /\ Taken' = Taken
  BY DEF Busy, Taken, OnlyWork
<1>2. \A q \in Projects \ {p} : Working(q)' <=> Working(q)
  BY DEF Working, OnlyWork
<1>3. phase = "building"
  BY BusyBuilds
<1> QED BY <1>1, <1>2, <1>3 DEF Control, Cycle

\* Who decides what to do is done waiting for its upstream.
LEMMA ControlCheck == ASSUME Control, NEW p \in Projects, Check(p) PROVE Cycle' /\ NeverBuilt'
<1>1. /\ work[p].pc = "waiting" /\ UpstreamDone(p) /\ OnlyWork(p) /\ OnlyTask(p)
      /\ Checked(p, UpToDateStatus(p)) /\ (task[p].pending => task'[p].status = UpToDateStatus(p))
      /\ task'[p].resolved = task[p].resolved
  BY CheckDoes DEF Control
<1>2. UNCHANGED <<phase, next, done, built>>
  BY DEF Check
<1>3. NoConfig' = NoConfig
  BY <1>1 DEF NoConfig, OnlyTask
<1>4. work'[p].pc # "idle"
  BY <1>1 DEF Checked
<1>5. Cycle'
  BY <1>1, <1>2, <1>3, <1>4, ControlGoes DEF UpstreamDone, NoConfig
<1>6. ASSUME p \in NoConfig
      PROVE  work'[p].pc = "ending" /\ task'[p].status.kind \in {"none", "configFileNotFound"}
  <2> DEFINE s == UpToDateStatus(p)
  <2>1. task[p].status.kind \in {"none", "configFileNotFound"} /\ task[p].resolved = "missing"
    BY <1>6 DEF Control, NeverBuilt, NoConfig
  <2>2. s.kind = "configFileNotFound"
    BY <2>1, StatusKnown, StatusAsked DEF Control
  <2> HIDE DEF s
  <2>3. s.kind \notin Pseudo /\ s.kind \notin Rebuild
    BY <2>2 DEF Pseudo, Rebuild
  <2>4. Checked(p, s) /\ (task[p].pending => task'[p].status = s)
    BY <1>1 DEF s
  <2> QED BY <2>1, <2>2, <2>3, <2>4 DEF Checked
<1>7. NeverBuilt'
  BY <1>1, <1>3, <1>6 DEF Control, NeverBuilt, OnlyWork, OnlyTask, NoConfig
<1> QED BY <1>5, <1>7

\* Touch is a build's step from touching to ending.
LEMMA ControlTouch == ASSUME Control, NEW p \in Projects, Touch(p) PROVE Cycle' /\ NeverBuilt'
<1>1. /\ work[p].pc = "touching" /\ OnlyWork(p) /\ work'[p].pc = "ending"
      /\ \A q \in Projects \ {p} : Alike(task'[q], task[q])
      /\ task'[p].resolved = task[p].resolved
  BY TouchDoes DEF Control
<1>2. UNCHANGED <<phase, next, done, built>>
  BY DEF Touch
<1>3. NoConfig' = NoConfig
  BY <1>1 DEF NoConfig, Alike
<1>4. p \notin NoConfig
  BY <1>1 DEF Control, NeverBuilt
<1>5. phase = "building" /\ Upstream(p) \subseteq done
  BY <1>1, <1>4, BusyBuilds DEF Control, Cycle, Working
<1>6. Cycle'
  BY <1>1, <1>2, <1>3, <1>5, ControlGoes
<1>7. NeverBuilt'
  BY <1>1, <1>3, <1>4 DEF Control, NeverBuilt, OnlyWork, Alike, NoConfig
<1> QED BY <1>6, <1>7

\* Emit is a build's step from compiling to ending, and leaves a build info.
LEMMA ControlEmit == ASSUME Control, NEW p \in Projects, Emit(p) PROVE Cycle' /\ NeverBuilt'
<1>1. /\ work[p].pc = "compiling" /\ OnlyWork(p) /\ work'[p].pc = "ending"
      /\ task'[p].resolved = task[p].resolved
      /\ \A q \in Projects \ {p} :
               IF q \in Downstream(p) /\ ~task[p].initial /\ ~(StopBuildOnErrors /\ HasErrors(Emitted(p)))
               THEN Lowered(task[q], task'[q], DtsDiffers(p))
               ELSE Alike(task'[q], task[q])
  BY EmitDoes DEF Control
<1>2. UNCHANGED <<phase, next, done, built>>
  BY DEF Emit
<1>3. \A q \in Projects : task'[q].resolved = task[q].resolved
  BY <1>1 DEF Alike, Lowered
<1>4. NoConfig' = NoConfig
  BY <1>3 DEF NoConfig
<1>5. p \notin NoConfig
  BY <1>1 DEF Control, NeverBuilt
<1>6. phase = "building" /\ Upstream(p) \subseteq done
  BY <1>1, <1>5, BusyBuilds DEF Control, Cycle, Working
<1>7. Cycle'
  BY <1>1, <1>2, <1>4, <1>6, ControlGoes
<1>8. \A q \in NoConfig : task'[q].status.kind = task[q].status.kind /\ work'[q] = work[q]
  BY <1>1, <1>5 DEF NoConfig, Downstream, Alike, OnlyWork
<1>9. NeverBuilt'
  BY <1>4, <1>8 DEF Control, NeverBuilt
<1> QED BY <1>7, <1>9

\* End lets those downstream go on.
LEMMA ControlEnd == ASSUME Control, NEW p \in Projects, End(p) PROVE Cycle' /\ NeverBuilt'
<1>1. /\ work[p].pc = "ending" /\ OnlyWork(p) /\ work'[p].pc = "idle"
      /\ OnlyTask(p) /\ task'[p].status = task[p].status /\ task'[p].resolved = task[p].resolved
  BY EndDoes DEF Control
<1>2. UNCHANGED <<phase, next>> /\ done' = done \cup {p} /\ built' = built \cup {p}
  BY DEF End
<1>3. NoConfig' = NoConfig /\ Taken' = Taken /\ Busy' = Busy \ {p}
  BY <1>1, <1>2 DEF NoConfig, OnlyTask, OnlyWork, Taken, Busy
<1>4. phase = "building" /\ p \in Busy /\ Working(p)
  BY <1>1, BusyBuilds DEF Working
<1>5. \A q \in Projects : Working(q)' => Working(q)
  BY <1>1 DEF Working, OnlyWork
<1>6. Cycle'
  BY <1>2, <1>3, <1>4, <1>5 DEF Control, Cycle
<1>7. NeverBuilt'
  BY <1>1, <1>3 DEF Control, NeverBuilt, OnlyWork, OnlyTask, NoConfig
<1> QED BY <1>6, <1>7

\* Report and EndCycle come after the builds they report.
LEMMA ControlReport == ASSUME Control, Report \/ EndCycle PROVE Cycle' /\ NeverBuilt'
<1>1. UNCHANGED <<task, work, done, built, next>>
  BY DEF Report, EndCycle
<1>2. phase' = phase \/ (Busy = {} /\ phase' = "idle")
  BY DEF Report, EndCycle
<1>3. Busy' = Busy /\ Taken' = Taken /\ NoConfig' = NoConfig /\ \A p \in Projects : Working(p)' <=> Working(p)
  BY <1>1 DEF Busy, Taken, NoConfig, Working
<1>4. Cycle'
  BY <1>1, <1>2, <1>3 DEF Control, Cycle
<1> QED BY <1>1, <1>3, <1>4 DEF Control, NeverBuilt

\* Every step keeps the control part of the invariant.
LEMMA ControlStep == Control /\ [Next]_vars => Control'
<1> SUFFICES ASSUME Control, [Next]_vars PROVE Control'
  OBVIOUS
<1>1. Typed'
  BY TypedStep DEF Control
<1>2. CASE UNCHANGED vars
  <2>1. UNCHANGED <<task, phase, next, work, done, built>>
    BY <1>2 DEF vars, run
  <2> QED BY <1>1, <2>1 DEF Control, Cycle, NeverBuilt, NoConfig, Busy, Taken, Working
<1>3. CASE User \/ Deliver \/ Overflow \/ Wake
  BY <1>1, <1>3, ControlOutside DEF Control
<1>4. CASE \E p \in Projects : Build(p)
  BY <1>1, <1>4, ControlCheck, ControlTouch, ControlEmit, ControlEnd DEF Control, Build
<1>5. CASE Start \/ Drain \/ Take \/ Report \/ EndCycle
  BY <1>1, <1>5, ControlStart, ControlDrain, ControlTake, ControlReport DEF Control
<1> QED BY <1>2, <1>3, <1>4, <1>5 DEF Next

(* Every variable keeps its type and every task its place in the cycle: whatever the number    *)
(* of goroutines, a task is taken once in a cycle, and a project is worked on or done only     *)
(* after all it references are done (rangeTasks, waitOnUpstream, unblockDownstream).           *)
THEOREM CycleIsOrdered == Spec => []Control
<1>1. Init => Control
  BY TypedInit, ControlInit DEF Control
<1> QED BY <1>1, ControlStep, PTL DEF Spec

(* Nothing that a project is compiled with changes under it: its references are finished, and  *)
(* are not taken up again (waitOnUpstream, rangeTasks).                                        *)
THEOREM RefsAreStable == Spec => RefsStable
<1> DEFINE Stable == \A p \in Projects : work[p].pc = "compiling" =>
                        \A r \in Upstream(p) : out'[r] = out[r]
<1>1. Control /\ [Next]_vars => Stable
  <2> SUFFICES ASSUME Control, [Next]_vars,
                      NEW p \in Projects, work[p].pc = "compiling",
                      NEW r \in Upstream(p)
               PROVE  out'[r] = out[r]
    OBVIOUS
  <2>1. r \in Projects
    BY OrderFacts
  <2>2. phase = "building" /\ p \notin NoConfig
    BY BusyBuilds DEF Control, NeverBuilt
  <2>3. r \in done
    BY <2>2 DEF Control, Cycle, Working
  <2>4. CASE \E q \in Projects : Emit(q)
    <3>1. PICK q \in Projects : Emit(q)
      BY <2>4
    <3>2. work[q].pc = "compiling" /\ out' = [out EXCEPT ![q] = Emitted(q)]
      BY <3>1, EmitDoes DEF Control
    <3>3. q \in Busy /\ q \notin NoConfig
      BY <3>2, BusyBuilds DEF Control, NeverBuilt
    <3>4. q # r
      BY <2>2, <2>3, <3>3 DEF Control, Cycle
    <3> QED BY <2>1, <3>2, <3>4
  <2>5. CASE ~\E q \in Projects : Emit(q)
    <3>1. out' = out
      BY <2>5 DEF Next, User, EditText, EditConfig, Changed, Deliver, Overflow, Start, Wake, Drain, Take,
                  Build, Check, Touch, End, Report, EndCycle, vars, disk
    <3> QED BY <3>1
  <2> QED BY <2>4, <2>5
<1>2. Control /\ [Next]_vars => [Stable]_vars
  BY <1>1
<1> QED BY <1>2, CycleIsOrdered, PTL DEF Spec, RefsStable
-----------------------------------------------------------------------------
(* No panic, as long as every project has a configuration.                  *)

\* A step that leaves a task as it is, unchecked if it was, and not about to be touched, keeps its
\* part of Unpanicked.
Kept(p) == task'[p] = task[p] /\ (Unchecked(p) => Unchecked(p)') /\ (work'[p].pc = "touching" => work[p].pc = "touching")

\* When every configuration file exists, no task is without one.
LEMMA NoneMissing == ASSUME Exist, Typed PROVE NoConfig = {}
BY DEF Exist, Typed, TypedRun, Tasks, NoConfig

\* No task at the start can panic.
LEMMA UnpanickedInit == ASSUME Init PROVE Unpanicked
<1>1. /\ phase = "off" /\ ~crashed
      /\ task = [p \in Projects |-> NewTask(p, FALSE, TRUE)] /\ TypedDisk
  BY TypedInit DEF Init, Typed
<1>2. \A p \in Projects : task[p].status.kind = "none" /\ task[p].pending
  BY <1>1, NewTaskIs
<1> QED BY <1>1, <1>2 DEF Unpanicked, Unchecked, Kind

\* Nothing the user or the watcher does touches a task.
LEMMA UnpanickedOutside ==
  ASSUME Exist, Control, Unpanicked, User \/ Deliver \/ Overflow \/ Wake
  PROVE  Unpanicked'
<1>1. UNCHANGED <<task, next, reported, work, done, result, crashed>>
  BY DEF User, EditText, EditConfig, Changed, Deliver, Overflow, Wake, run
<1>2. phase' = phase \/ (phase' = "draining" /\ phase = "idle")
  BY DEF User, EditText, EditConfig, Changed, Deliver, Overflow, Wake, run
<1> QED BY <1>1, <1>2 DEF Unpanicked, Unchecked, Kind, Reported, Taken

\* The tasks of Start are new.
LEMMA UnpanickedStart == ASSUME Control, Unpanicked, Start PROVE Unpanicked'
<1>1. /\ phase' = "building" /\ next' = 1 /\ reported' = 1 /\ done' = {} /\ work' = work
      /\ phase = "off" /\ crashed' = crashed
  BY DEF Start, BeginBuild
<1>2. \A p \in Projects : task'[p].status.kind = "none" /\ task'[p].pending
  BY StartDoes DEF Control
<1>3. \A p \in Projects : work[p].pc = "idle"
  BY <1>1 DEF Control, Cycle, Busy
<1>4. Taken' = {} /\ Reported' = {}
  BY <1>1 DEF Taken, Reported
<1> QED BY <1>1, <1>2, <1>3, <1>4 DEF Unpanicked, Unchecked, Kind

\* A new cycle leaves no channel closed if nobody lacks a configuration.
LEMMA DrainBegins ==
  ASSUME Exist, Control, Drain, Dirty \cup Affected # {}
  PROVE  /\ phase' = "building" /\ next' = 1 /\ reported' = 1 /\ done' = {} /\ shown' = {}
         /\ Taken' = {} /\ Reported' = {} /\ work' = work
         /\ \A p \in Projects : work[p].pc = "idle"
<1> DEFINE keep == IF Dirty # {} THEN {} ELSE {p \in Projects : task[p].resolved = "missing"}
<1>1. BeginBuild(keep) /\ phase = "draining"
  BY DEF Drain
<1>2. keep = {}
  BY NoneMissing DEF Control, NoConfig
<1> HIDE DEF keep
<1>3. next' = 1 /\ reported' = 1 /\ phase' = "building" /\ done' = {} /\ shown' = {} /\ work' = work
  BY <1>1, <1>2 DEF BeginBuild
<1>4. Taken' = {} /\ Reported' = {}
  BY <1>3 DEF Taken, Reported
<1> QED BY <1>1, <1>3, <1>4 DEF Control, Cycle, Busy

\* Drain renews tasks or leaves them alone.
LEMMA UnpanickedDrain == ASSUME Exist, Control, Unpanicked, Drain PROVE Unpanicked'
<1>1. phase = "draining" /\ crashed' = crashed
  BY DEF Drain
<1>2. \A p \in Projects : Kind(p) # "none"
  BY <1>1 DEF Unpanicked, Unchecked
<1>3. CASE Dirty \cup Affected = {}
  <2>1. \A p \in Projects : task'[p] = task[p]
    BY <1>3, DrainDoes DEF Control
  <2>2. phase' = "idle" /\ work' = work
    BY <1>3 DEF Drain
  <2> QED BY <1>1, <1>2, <2>1, <2>2 DEF Unpanicked, Kind
<1>4. CASE Dirty \cup Affected # {}
  <2>1. /\ phase' = "building" /\ done' = {} /\ Taken' = {} /\ Reported' = {} /\ work' = work
        /\ \A p \in Projects : work[p].pc = "idle"
    BY <1>4, DrainBegins
  <2>2. \A p \in Projects : Unchecked(p)'
    BY <2>1 DEF Unchecked
  <2>3. ASSUME NEW p \in Projects
        PROVE  \/ task'[p].status.kind = "none" /\ task'[p].pending
               \/ task'[p] = task[p]
    BY DrainDoes DEF Control, Renewed
  <2> QED BY <1>1, <1>2, <2>1, <2>2, <2>3 DEF Unpanicked, Kind
<1> QED BY <1>3, <1>4

\* Take touches no task.
LEMMA UnpanickedTake == ASSUME Control, Unpanicked, Take PROVE Unpanicked'
<1>1. PICK p \in Projects : /\ p \notin Taken /\ Taken' = Taken \cup {p}
                            /\ OnlyWork(p) /\ work'[p].pc = "waiting" /\ result' = result \cup {p}
  BY TakeDoes DEF Control
<1>2. UNCHANGED <<task, phase, reported, done, crashed>> /\ Reported' = Reported
  BY DEF Take, Reported
<1>3. work[p].pc = "idle"
  BY <1>1 DEF Control, Cycle, Busy, Take
<1>4. \A q \in Projects : Kept(q)
  BY <1>1, <1>2, <1>3 DEF Kept, Unchecked, OnlyWork
<1> QED BY <1>1, <1>2, <1>4 DEF Unpanicked, Kept, Kind

\* Its references are done, so each has read its .tsbuildinfo or was skipped for an error.
LEMMA AsksSomething ==
  ASSUME Exist, Control, Unpanicked, NEW p \in Projects, Check(p), ReachesRefs(p)
  PROVE  ~AsksNothing(p)
<1> SUFFICES ASSUME NEW r \in Upstream(p), ~task[r].buildInfo
             PROVE  FALSE
  BY DEF AsksNothing, Suspects
<1>1. r \in Projects /\ r \in done /\ phase = "building"
  BY CheckDoes, NoneMissing, BusyBuilds, OrderFacts DEF Control, UpstreamDone, NoConfig
<1>2. Kind(r) # "none"
  BY <1>1 DEF Unpanicked, Unchecked
<1>3. StopBuildOnErrors /\ Kind(r) = "upstreamErrors"
  BY <1>1, <1>2 DEF Unpanicked
<1> QED BY <1>3 DEF ReachesRefs, IsError, Kind

\* Check gives the task a status before it goes on.
LEMMA UnpanickedCheck ==
  ASSUME Exist, Control, Unpanicked, NEW p \in Projects, Check(p)
  PROVE  Unpanicked'
<1> DEFINE s == UpToDateStatus(p)
<1>1. /\ work[p].pc = "waiting" /\ OnlyWork(p) /\ OnlyTask(p)
      /\ Checked(p, s)
      /\ task[p].pending => task'[p].status = s
      /\ task'[p].pending = task[p].pending
  BY CheckDoes DEF Control
<1>2. UNCHANGED <<phase, next, reported, done, result>> /\ Reported' = Reported /\ Taken' = Taken
  BY DEF Check, Reported, Taken
<1>3. ~crashed'
  BY AsksSomething DEF Check, Unpanicked
<1>4. \A q \in Projects \ {p} : Kept(q)
  BY <1>1, <1>2 DEF Kept, Unchecked, OnlyWork, OnlyTask
<1>5. \/ Kind(p) # "none" /\ s = task[p].status
      \/ Kind(p) = "none" /\ task[p].pending /\ s.kind # "none" /\ (s.kind = "upstreamErrors" => StopBuildOnErrors)
           /\ s.kind # "configFileNotFound"
  BY StatusKnown, StatusAsked, NoneMissing DEF Control, Unpanicked, Kind, NoConfig
<1> HIDE DEF s
<1>6. Kind(p)' # "none"
  BY <1>1, <1>5 DEF Kind, Checked
<1>7. task'[p].buildInfo \/ (StopBuildOnErrors /\ Kind(p)' = "upstreamErrors" /\ work'[p].pc # "touching")
  <2>1. CASE ~task[p].pending
    BY <1>1, <1>5, <2>1 DEF Checked, Unpanicked, Kind
  <2>2. CASE task[p].pending /\ s.kind \in Ends
    BY <1>1, <1>5, <2>2 DEF Checked, Unpanicked, Kind, Ends, Pseudo, Rebuild
  <2>3. CASE task[p].pending /\ s.kind \notin Ends
    BY <1>1, <2>3 DEF Checked
  <2> QED BY <2>1, <2>2, <2>3
<1>8. \A q \in Projects : Kind(q)' = "none" => task'[q].pending /\ Unchecked(q)'
  BY <1>4, <1>6 DEF Unpanicked, Kept, Kind
<1>9. \A q \in Projects \ {p} :
          \/ task'[q].buildInfo
          \/ Kind(q)' = "none" \/ (StopBuildOnErrors /\ Kind(q)' = "upstreamErrors" /\ work'[q].pc # "touching")
  BY <1>4 DEF Unpanicked, Kept, Kind
<1> QED BY <1>2, <1>3, <1>7, <1>8, <1>9 DEF Unpanicked

\* Touch leaves a status.
LEMMA UnpanickedTouch ==
  ASSUME Control, Unpanicked, NEW p \in Projects, Touch(p)
  PROVE  Unpanicked'
<1>1. /\ work[p].pc = "touching" /\ OnlyWork(p) /\ work'[p].pc = "ending"
      /\ \A q \in Projects \ {p} : Alike(task'[q], task[q])
      /\ task'[p].status.kind = "upToDate" /\ task'[p].buildInfo = task[p].buildInfo
  BY TouchDoes DEF Control
<1>2. UNCHANGED <<phase, next, reported, done, result, crashed>> /\ Reported' = Reported /\ Taken' = Taken
  BY DEF Touch, Reported, Taken
<1>3. phase = "building"
  BY <1>1, BusyBuilds
<1>4. Kind(p) # "none"
  BY <1>1, <1>3 DEF Unpanicked, Unchecked
<1>5. \A q \in Projects \ {p} : /\ Kind(q)' = Kind(q) /\ task'[q].pending = task[q].pending
                                /\ Unchecked(q) => Unchecked(q)'
                                /\ task'[q].buildInfo = task[q].buildInfo /\ work'[q] = work[q]
  BY <1>1, <1>2 DEF Alike, Kind, Unchecked, OnlyWork
<1>6. task'[p].buildInfo /\ Kind(p)' # "none"
  BY <1>1, <1>4 DEF Unpanicked, Kind
<1> QED BY <1>2, <1>5, <1>6 DEF Unpanicked

\* Who references a project that is being compiled has not been checked.
LEMMA UsersWait ==
  ASSUME Exist, Control, NEW p \in Projects, work[p].pc # "idle", NEW q \in Users(p)
  PROVE  q \in Projects /\ q # p /\ Unchecked(q) /\ q \notin done /\ work[q].pc \in {"idle", "waiting"}
<1>1. q \in Projects /\ p \in Upstream(q) /\ q # p
  BY NoSelf DEF Users
<1>2. phase = "building" /\ p \notin done /\ NoConfig = {}
  BY BusyBuilds, NoneMissing DEF Control, Cycle
<1>3. q \notin done /\ ~Working(q)
  BY <1>1, <1>2 DEF Control, Cycle
<1>4. work[q].pc \in {"idle", "waiting"}
  BY <1>1, <1>3 DEF Control, Typed, TypedRun, Works, Working
<1> QED BY <1>1, <1>2, <1>3, <1>4 DEF Unchecked

\* Emit leaves a status, and what it takes from a task downstream is that of a pending one.
LEMMA UnpanickedEmit ==
  ASSUME Exist, Control, Unpanicked, NEW p \in Projects, Emit(p)
  PROVE  Unpanicked'
<1>1. /\ work[p].pc = "compiling" /\ OnlyWork(p) /\ work'[p].pc = "ending"
      /\ task'[p].status.kind = (IF HasErrors(Emitted(p)) THEN "buildErrors" ELSE "upToDate")
      /\ task'[p].buildInfo
      /\ \A q \in Projects \ {p} :
               IF q \in Downstream(p) /\ ~task[p].initial /\ ~(StopBuildOnErrors /\ HasErrors(Emitted(p)))
               THEN Lowered(task[q], task'[q], DtsDiffers(p))
               ELSE Alike(task'[q], task[q])
  BY EmitDoes DEF Control
<1>2. UNCHANGED <<phase, next, reported, done, result, crashed>> /\ Reported' = Reported /\ Taken' = Taken
  BY DEF Emit, Reported, Taken
<1>3. ASSUME NEW q \in Projects \ {p}
      PROVE  /\ Kind(q)' = "none" => task'[q].pending /\ Unchecked(q)'
             /\ \/ task'[q].buildInfo
                \/ Kind(q)' = "none" \/ (StopBuildOnErrors /\ Kind(q)' = "upstreamErrors" /\ work'[q].pc # "touching")
  <2>1. work'[q] = work[q] /\ (Unchecked(q) => Unchecked(q)')
    BY <1>1, <1>2 DEF OnlyWork, Unchecked
  <2>2. CASE Alike(task'[q], task[q])
    BY <2>1, <2>2 DEF Alike, Unpanicked, Kind
  <2>3. CASE q \in Downstream(p) /\ Lowered(task[q], task'[q], DtsDiffers(p))
    <3>1. Unchecked(q)
      BY <1>1, <2>3, UsersWait DEF Downstream
    <3>2. /\ task'[q].pending /\ task'[q].buildInfo = task[q].buildInfo
          /\ task'[q].status.kind \in Downgraded(task[q].status.kind, DtsDiffers(p))
      BY <2>3 DEF Lowered
    <3>3. \/ task'[q].buildInfo
          \/ Kind(q)' = "none" \/ (StopBuildOnErrors /\ Kind(q)' = "upstreamErrors" /\ work'[q].pc # "touching")
      <4>1. CASE Kind(q) = "none"
        BY <3>2, <4>1 DEF Downgraded, Skipped, Kind
      <4>2. CASE Kind(q) = "upstreamErrors"
        BY <2>1, <3>2, <4>2 DEF Downgraded, Skipped, Kind, Unpanicked
      <4>3. CASE Kind(q) \notin {"none", "upstreamErrors"}
        BY <3>2, <4>3 DEF Unpanicked
      <4> QED BY <4>1, <4>2, <4>3
    <3> QED BY <2>1, <3>1, <3>2, <3>3
  <2> QED BY <1>1, <2>2, <2>3
<1>4. Kind(p)' # "none"
  BY <1>1 DEF Kind
<1> QED BY <1>1, <1>2, <1>3, <1>4 DEF Unpanicked

\* End comes after the task has got its status.
LEMMA UnpanickedEnd ==
  ASSUME Exist, Control, Unpanicked, NEW p \in Projects, End(p)
  PROVE  Unpanicked'
<1>1. /\ work[p].pc = "ending" /\ OnlyWork(p) /\ work'[p].pc = "idle"
      /\ OnlyTask(p) /\ task'[p].status = task[p].status /\ task'[p].buildInfo = task[p].buildInfo
  BY EndDoes DEF Control
<1>2. /\ UNCHANGED <<phase, next, reported, result>> /\ done' = done \cup {p}
      /\ crashed' = (crashed \/ p \in done \/ p \in built) /\ Reported' = Reported /\ Taken' = Taken
  BY DEF End, Reported, Taken
<1>3. phase = "building" /\ p \in Busy /\ NoConfig = {}
  BY <1>1, BusyBuilds, NoneMissing DEF Control
<1>4. p \notin done /\ built = done
  BY <1>3 DEF Control, Cycle
<1>5. Kind(p) # "none"
  BY <1>1, <1>3 DEF Unpanicked, Unchecked
<1>6. \A q \in Projects \ {p} : Kept(q)
  BY <1>1, <1>2 DEF Kept, Unchecked, OnlyWork, OnlyTask
<1>7. ~crashed'
  BY <1>2, <1>4 DEF Unpanicked
<1>8. \A q \in Projects : Kind(q)' = "none" => task'[q].pending /\ Unchecked(q)'
  BY <1>1, <1>5, <1>6 DEF Unpanicked, Kept, Kind
<1>9. \A q \in Projects :
          \/ task'[q].buildInfo
          \/ Kind(q)' = "none" \/ (StopBuildOnErrors /\ Kind(q)' = "upstreamErrors" /\ work'[q].pc # "touching")
  BY <1>1, <1>5, <1>6 DEF Unpanicked, Kept, Kind
<1> QED BY <1>2, <1>7, <1>8, <1>9 DEF Unpanicked

\* What Report reports was not reported before.
LEMMA ReportDoes ==
  ASSUME Typed, Report
  PROVE  \E p \in Projects : /\ p = Order[reported] /\ p \notin Reported /\ Reported' = Reported \cup {p}
                             /\ p \in built /\ result' = result \ {p}
                             /\ crashed' = (crashed \/ p \notin result)
                             /\ shown' = (IF task[p].errors THEN shown \cup {p} ELSE shown)
<1>1. reported \in 1..Len(Order) /\ reported' = reported + 1
  BY OrderFacts DEF Typed, TypedRun, Report
<1> DEFINE p == Order[reported]
<1>2. p \in Projects /\ p \notin Reported
  BY <1>1, OrderFacts, OrderOnce DEF Reported
<1>3. Reported' = Reported \cup {p}
  BY <1>1, OrderFacts DEF Reported
<1> QED BY <1>1, <1>2, <1>3 DEF Report

\* Report finds a task with a status.
LEMMA UnpanickedReport == ASSUME Exist, Control, Unpanicked, Report PROVE Unpanicked'
<1>1. PICK p \in Projects : /\ p \notin Reported /\ Reported' = Reported \cup {p}
                            /\ p \in built /\ result' = result \ {p}
                            /\ crashed' = (crashed \/ p \notin result)
  BY ReportDoes DEF Control
<1>2. UNCHANGED <<task, phase, next, work, done>> /\ phase = "building" /\ Taken' = Taken
  BY DEF Report, Taken
<1>3. p \in done /\ p \in Taken
  BY <1>1, <1>2, NoneMissing DEF Control, Cycle
<1>4. p \in result
  BY <1>1, <1>2, <1>3 DEF Unpanicked
<1>5. \A q \in Projects : Kept(q)
  BY <1>2 DEF Kept, Unchecked
<1> QED BY <1>1, <1>2, <1>3, <1>4, <1>5 DEF Unpanicked, Kept, Kind

\* At the end of a cycle everything was built and reported.
LEMMA EndsWithAll == ASSUME Control, Unpanicked, EndCycle PROVE Reported = Projects /\ done = Projects
<1>1. phase = "building" /\ reported = Len(Order) + 1
  BY OrderFacts DEF EndCycle, Control, Typed, TypedRun
<1>2. Reported = Projects
  BY <1>1, OrderFacts DEF Reported
<1> QED BY <1>1, <1>2 DEF Unpanicked, Control, Typed, TypedRun

\* EndCycle leaves the tasks as they are.
LEMMA UnpanickedEndCycle == ASSUME Control, Unpanicked, EndCycle PROVE Unpanicked'
<1>1. UNCHANGED <<task, work, crashed>> /\ phase = "building" /\ phase' = "idle"
  BY DEF EndCycle
<1>2. \A p \in Projects : Kind(p) # "none"
  BY <1>1, EndsWithAll DEF Unpanicked, Unchecked
<1> QED BY <1>1, <1>2 DEF Unpanicked, Kind

\* Every step keeps every task from panicking.
LEMMA UnpanickedStep == Exist /\ Control /\ Unpanicked /\ [Next]_vars => Unpanicked'
<1> SUFFICES ASSUME Exist, Control, Unpanicked, [Next]_vars PROVE Unpanicked'
  OBVIOUS
<1>1. CASE UNCHANGED vars
  <2>1. UNCHANGED <<task, phase, next, reported, work, done, result, crashed>>
    BY <1>1 DEF vars, run
  <2> QED BY <2>1 DEF Unpanicked, Unchecked, Kind, Reported, Taken
<1>2. CASE User \/ Deliver \/ Overflow \/ Wake
  BY <1>2, UnpanickedOutside
<1>3. CASE \E p \in Projects : Build(p)
  BY <1>3, UnpanickedCheck, UnpanickedTouch, UnpanickedEmit, UnpanickedEnd DEF Build
<1>4. CASE Start \/ Drain \/ Take \/ Report \/ EndCycle
  BY <1>4, UnpanickedStart, UnpanickedDrain, UnpanickedTake, UnpanickedReport, UnpanickedEndCycle
<1> QED BY <1>1, <1>2, <1>3, <1>4 DEF Next

(* No change of the files brings the watcher down, as long as no project loses its             *)
(* configuration: no channel is closed twice, no result is missing from the report, and the    *)
(* times of a reference are only asked of one that has read them, even if projects are skipped *)
(* because of errors (unblockDownstream, report, getUpToDateStatus).                           *)
THEOREM NothingPanics == Exist => (Spec => []NoPanic)
<1> SUFFICES ASSUME Exist PROVE Spec => []NoPanic
  OBVIOUS
<1>1. Init => Unpanicked
  BY UnpanickedInit
<1>2. Control /\ Unpanicked /\ [Next]_vars => Unpanicked'
  BY UnpanickedStep
<1>3. Unpanicked => NoPanic
  BY DEF Unpanicked, NoPanic
<1> QED BY <1>1, <1>2, <1>3, CycleIsOrdered, PTL DEF Spec
-----------------------------------------------------------------------------
(* What is built and shown.                                                 *)

\* When every project has a configuration and builds do not stop on errors.
Plain == Exist /\ ~StopBuildOnErrors

Inv == Control /\ Unpanicked /\ Current

\* A project is still to be checked, worked on, or at rest.
LEMMA Where ==
  ASSUME Exist, Control, NEW p \in Projects
  PROVE  /\ Unchecked(p) => ~AtRest(p) /\ ~Working(p)
         /\ Working(p) => ~AtRest(p) /\ phase = "building" /\ p \notin done
         /\ AtRest(p) => work[p].pc = "idle"
<1>1. NoConfig = {}
  BY NoneMissing DEF Control
<1>2. work[p].pc # "idle" => phase = "building" /\ p \in Busy /\ p \notin done
  BY <1>1, BusyBuilds DEF Control, Cycle
<1> QED BY <1>2 DEF Unchecked, AtRest, Working

\* A project whose task a step does not concern.
Same(q) == /\ Alike(task'[q], task[q]) /\ work'[q] = work[q]
           /\ Unchecked(q)' <=> Unchecked(q)
           /\ AtRest(q)' <=> AtRest(q)

\* What a step leaves of a task's status and errors when it changes neither.
LEMMA SameTask ==
  ASSUME NEW q \in Projects, Same(q), out'[q] = out[q], shown' = shown, Reported' = Reported, phase' = phase,
         Sound(q)
  PROVE  StatusOf(q)' /\ ErrorsOf(q)'
<1>1. StatusOf(q)'
  BY DEF Same, Alike, Sound, StatusOf, Kind
<1>2. Agrees(q)' <=> Agrees(q)
  BY DEF Same, Alike, Agrees, Kind
<1>3. ErrorsOf(q)'
  BY <1>2 DEF Same, Alike, Sound, ErrorsOf, Kind
<1> QED BY <1>1, <1>3

\* What a step leaves of a task's account of the disk when it changes neither.
LEMMA SameDisk ==
  ASSUME NEW q \in Projects, Same(q), UNCHANGED <<disk, unsent, changed, overflow>>, Sound(q)
  PROVE  Marked(q)' /\ DepsKept(q)' /\ Told(q)'
<1>1. UNCHANGED <<text, config, out, newer, late>> /\ \A r \in Projects : Dts(r)' = Dts(r)
  BY DEF disk, Dts
<1>2. Marked(q)'
  BY <1>1, OrderFacts DEF Sound, Marked
<1>3. WillCompile(q)' <=> WillCompile(q)
  BY DEF Same, Alike, WillCompile, Kind
<1>4. DepsKept(q)'
  BY <1>1, <1>3, OrderFacts DEF Sound, DepsKept, DepsCurrent, Same
<1>5. InHand(q)' <=> InHand(q)
  BY DEF Same, Alike, InHand
<1>6. Told(q)'
  BY <1>1, <1>5 DEF Sound, Told, Event
<1> QED BY <1>2, <1>4, <1>6

\* The same, of the first cycle.
LEMMA SameFirst ==
  ASSUME FirstCycle, UNCHANGED <<phase, done, watching>>,
         \A q \in Projects : (Unchecked(q)' => Unchecked(q) /\ Same(q)) /\ task'[q].initial = task[q].initial
  PROVE  FirstCycle'
BY DEF FirstCycle, Same, Alike, Kind

\* No task at the start says that it is up to date.
LEMMA CurrentInit == ASSUME Exist, Init PROVE Current
<1>1. /\ phase = "off" /\ ~watching /\ done = {} /\ work = [p \in Projects |-> Idle] /\ Idle.pc = "idle"
      /\ task = [p \in Projects |-> NewTask(p, FALSE, TRUE)]
  BY DEF Init, Idle
<1>2. Typed
  BY TypedInit
<1>3. ASSUME NEW p \in Projects
      PROVE  /\ task[p].pending /\ Kind(p) = "none" /\ ~task[p].errors /\ task[p].initial
             /\ work[p].pc = "idle" /\ Unchecked(p) /\ ~AtRest(p)
  <2>1. task[p] = NewTask(p, FALSE, TRUE)
    BY <1>1
  <2>2. task[p].pending /\ task[p].status.kind = "none" /\ ~task[p].errors /\ task[p].initial
    BY <1>2, <2>1, NewTaskIs DEF Typed
  <2> QED BY <1>1, <2>2 DEF Unchecked, AtRest, Kind
<1>4. ASSUME NEW p \in Projects, out[p] # None
      PROVE  /\ out[p].text = text[p] /\ out[p].config = config[p]
             /\ \A r \in Upstream(p) : out[p].deps[r] = Dts(r) /\ Dts(r) # None
  <2>1. out = [q \in Projects |-> [text |-> text[q], config |-> config[q],
                                   deps |-> [r \in Upstream(q) |-> text[r].dts]]]
    BY <1>4 DEF Init
  <2>2. ASSUME NEW r \in Upstream(p) PROVE out[p].deps[r] = Dts(r) /\ Dts(r) # None
    <3>1. r \in Projects
      BY OrderFacts
    <3>2. out[r].text = text[r] /\ out[p].deps[r] = text[r].dts
      BY <2>1, <3>1
    <3>3. text[r] \in Texts
      BY <1>2, <3>1 DEF Typed, TypedDisk
    <3>4. text[r].dts \in {"d1", "d2"}
      BY <3>3, InputsAssumption
    <3>5. out[r] \in Outputs(r) \/ out[r] = None
      BY <1>2, <3>1 DEF Typed, TypedDisk
    <3>6. out[r] = [text |-> text[r], config |-> config[r], deps |-> [u \in Upstream(r) |-> text[u].dts]]
      BY <2>1, <3>1
    <3>7. out[r] \in Outputs(r)
      <4>1. \A u \in Projects : text[u] \in Texts
        BY <1>2 DEF Typed, TypedDisk
      <4>2. \A u \in Projects : text[u].dts \in {"d1", "d2", None}
        BY <4>1, InputsAssumption
      <4>3. config[r] \in Configs
        BY <1>2, <3>1 DEF Typed, TypedDisk
      <4> QED BY <3>1, <3>3, <3>6, <4>2, <4>3, OrderFacts DEF Outputs
    <3>8. out[r] # None
      BY <3>1, <3>7, NoneAssumption
    <3> QED BY <3>2, <3>4, <3>8, NoneAssumption DEF Dts
  <2> QED BY <2>1, <2>2
<1>5. FirstCycle
  BY <1>1, <1>3 DEF FirstCycle
<1>6. ASSUME NEW p \in Projects PROVE Sound(p)
  <2>1. StatusOf(p)
    BY <1>3 DEF StatusOf
  <2>2. Marked(p)
    BY <1>4 DEF Marked
  <2>3. DepsKept(p)
    BY <1>3, <1>4 DEF DepsKept, WillCompile
  <2>4. Told(p)
    BY <1>3 DEF Told, InHand
  <2>5. ErrorsOf(p)
    BY <1>1, <1>3 DEF ErrorsOf, Pseudo
  <2> QED BY <2>1, <2>2, <2>3, <2>4, <2>5 DEF Sound
<1> QED BY <1>1, <1>5, <1>6 DEF Current, Shown

\* A change that the user makes is newer than what was built, and is told of.
LEMMA CurrentUser == ASSUME Exist, Inv, User PROVE Current'
<1>1. /\ UNCHANGED <<out, task, phase, next, reported, work, done, built, shown, changed, overflow, watching>>
      /\ late \subseteq late' /\ unsent \subseteq unsent'
      /\ \A q \in Projects : newer[q] \subseteq newer'[q]
  BY DEF Inv, Control, Typed, TypedDisk, User, EditText, EditConfig, Changed, run
<1>2. ASSUME NEW q \in Projects
      PROVE  /\ text'[q] # text[q] => <<"text", q>> \in newer'[q] /\ (Event("text", q)' \/ q \in late' \/ phase = "off")
             /\ config'[q] # config[q] => <<"config", q>> \in newer'[q] /\ (Event("config", q)' \/ q \in late' \/ phase = "off")
  <2>1. ~watching => phase \in {"off", "building"}
    BY DEF Inv, Current, FirstCycle
  <2>2. ASSUME NEW p \in Projects, NEW kind \in {"text", "config"}, Changed(kind, p)
        PROVE  <<kind, p>> \in newer'[p] /\ (Event(kind, p)' \/ p \in late' \/ phase = "off")
    BY <2>1, <2>2 DEF Changed, Event, Inv, Control, Typed, TypedDisk
  <2>3. CASE \E p \in Projects : EditText(p)
    <3>1. PICK p \in Projects : EditText(p)
      BY <2>3
    <3>2. config' = config /\ Changed("text", p) /\ \A u \in Projects \ {p} : text'[u] = text[u]
      BY <3>1 DEF EditText, Inv, Control, Typed, TypedDisk
    <3> QED BY <2>2, <3>2
  <2>4. CASE \E p \in Projects : EditConfig(p)
    <3>1. PICK p \in Projects : EditConfig(p)
      BY <2>4
    <3>2. text' = text /\ Changed("config", p) /\ \A u \in Projects \ {p} : config'[u] = config[u]
      BY <3>1 DEF EditConfig, Inv, Control, Typed, TypedDisk
    <3> QED BY <2>2, <3>2
  <2> QED BY <2>3, <2>4 DEF User
<1>3. \A q \in Projects : Dts(q)' = Dts(q) /\ Same(q)
  BY <1>1 DEF Dts, Same, Alike, Unchecked, AtRest
<1>4. Reported' = Reported
  BY <1>1 DEF Reported
<1>5. FirstCycle' /\ Shown'
  BY <1>1, <1>4 DEF Inv, Current, FirstCycle, Shown, Unchecked, Kind
<1>6. ASSUME NEW q \in Projects PROVE Sound(q)'
  <2>1. Sound(q)
    BY DEF Inv, Current
  <2>2. StatusOf(q)' /\ ErrorsOf(q)'
    BY <1>1, <1>3, <1>4, <2>1, SameTask
  <2>3. Marked(q)'
    BY <1>1, <1>2, <1>3, <2>1, OrderFacts DEF Sound, Marked
  <2>4. WillCompile(q)' <=> WillCompile(q)
    BY <1>1 DEF WillCompile, Unchecked, Kind
  <2>5. DepsKept(q)'
    BY <1>1, <1>3, <2>1, <2>4, OrderFacts DEF Sound, DepsKept, DepsCurrent
  <2>6. InHand(q)' <=> InHand(q)
    BY <1>1 DEF InHand, Unchecked
  <2>7. phase = "off" => InHand(q)
    BY DEF Inv, Current, FirstCycle, InHand, Unchecked
  <2>8. \A kind \in {"text", "config"} : Event(kind, q) => Event(kind, q)'
    BY <1>1 DEF Event
  <2>9. Told(q)'
    BY <1>1, <1>2, <2>1, <2>6, <2>7, <2>8 DEF Sound, Told
  <2> QED BY <2>2, <2>3, <2>5, <2>9 DEF Sound
<1> QED BY <1>5, <1>6 DEF Current

\* Events are delivered, or lost as an overflow.
LEMMA CurrentWatcher == ASSUME Inv, Deliver \/ Overflow \/ Wake PROVE Current'
<1>1. UNCHANGED <<disk, task, next, reported, work, done, built, shown, watching>>
  BY DEF Deliver, Overflow, Wake, run
<1>2. phase' = phase \/ (phase = "idle" /\ phase' = "draining")
  BY DEF Deliver, Overflow, Wake, run
<1>3. \A q \in Projects : \A kind \in {"text", "config"} : Event(kind, q) => Event(kind, q)'
  BY DEF Deliver, Overflow, Wake, Event
<1>4. UNCHANGED <<text, config, out, newer, late>> /\ \A q \in Projects : Dts(q)' = Dts(q)
  BY <1>1 DEF disk, Dts
<1>5. Reported' = Reported
  BY <1>1 DEF Reported
<1>6. \A q \in Projects : (Unchecked(q)' <=> Unchecked(q)) /\ (AtRest(q)' <=> AtRest(q))
  BY <1>1, <1>2 DEF Unchecked, AtRest
<1>7. FirstCycle' /\ Shown'
  <2>1. phase' # phase => watching
    BY <1>2 DEF Inv, Current, FirstCycle
  <2> QED BY <1>1, <1>2, <1>5, <1>6, <2>1 DEF Inv, Current, FirstCycle, Shown, Kind
<1>8. ASSUME NEW q \in Projects PROVE Sound(q)'
  <2>1. Sound(q)
    BY DEF Inv, Current
  <2>2. StatusOf(q)'
    BY <1>1, <1>6, <2>1 DEF Sound, StatusOf, Kind
  <2>3. Marked(q)'
    BY <1>4, <2>1, OrderFacts DEF Sound, Marked
  <2>4. DepsKept(q)'
    BY <1>1, <1>4, <1>6, <2>1, OrderFacts DEF Sound, DepsKept, DepsCurrent, WillCompile, Kind
  <2>5. Told(q)'
    BY <1>1, <1>3, <1>4, <1>6, <2>1 DEF Sound, Told, InHand
  <2>6. ErrorsOf(q)'
    BY <1>1, <1>2, <1>4, <1>5, <1>6, <2>1 DEF Sound, ErrorsOf, Agrees, Kind
  <2> QED BY <2>2, <2>3, <2>4, <2>5, <2>6 DEF Sound
<1> QED BY <1>7, <1>8 DEF Current

\* The tasks of Start say nothing of the disk yet.
LEMMA CurrentStart == ASSUME Inv, Start PROVE Current'
<1>1. /\ phase' = "building" /\ reported' = 1 /\ done' = {} /\ work' = work /\ shown' = {}
      /\ phase = "off" /\ UNCHANGED <<disk, watching>>
  BY DEF Start, BeginBuild, watch
<1>2. \A p \in Projects : /\ task'[p].pending /\ ~task'[p].errors /\ task'[p].status.kind = "none"
                          /\ task'[p].initial
  BY StartDoes DEF Inv, Control
<1>3. ~watching
  BY <1>1 DEF Inv, Current, FirstCycle
<1>4. \A p \in Projects : work'[p].pc = "idle"
  BY <1>1 DEF Inv, Control, Cycle, Busy
<1>5. \A p \in Projects : Unchecked(p)' /\ ~AtRest(p)'
  BY <1>1, <1>4 DEF Unchecked, AtRest
<1>6. Reported' = {}
  BY <1>1 DEF Reported
<1>7. UNCHANGED <<text, config, out, newer, late>> /\ \A q \in Projects : Dts(q)' = Dts(q)
  BY <1>1 DEF disk, Dts
<1>8. FirstCycle' /\ Shown'
  BY <1>1, <1>2, <1>3, <1>5 DEF FirstCycle, Shown, Kind
<1>9. ASSUME NEW q \in Projects PROVE Sound(q)'
  <2>1. Sound(q)
    BY DEF Inv, Current
  <2>2. StatusOf(q)'
    BY <1>2, <1>4, <1>5 DEF StatusOf, Kind
  <2>3. Marked(q)'
    BY <1>7, <2>1, OrderFacts DEF Sound, Marked
  <2>4. DepsKept(q)'
    BY <1>2, <1>4, <1>5, <1>7, <2>1 DEF Sound, DepsKept, WillCompile, Kind
  <2>5. Told(q)'
    BY <1>2, <1>5 DEF Told, InHand
  <2>6. ErrorsOf(q)'
    BY <1>1, <1>2, <1>4, <1>5, <1>6 DEF ErrorsOf, Kind, Pseudo
  <2> QED BY <2>2, <2>3, <2>4, <2>5, <2>6 DEF Sound
<1> QED BY <1>8, <1>9 DEF Current

\* The events that are drained concern the tasks that are renewed.
LEMMA DrainTells ==
  ASSUME Exist, Inv, Drain, NEW q \in Projects \ (Dirty \cup Affected)
  PROVE  \A kind \in {"text", "config"} : Event(kind, q) => Event(kind, q)'
<1>1. ~overflow /\ <<"config", q>> \notin changed
  BY DEF Dirty
<1>2. task[q].resolved # "missing"
  BY NoneMissing DEF Inv, Control, NoConfig
<1>3. <<"text", q>> \notin changed
  BY <1>2 DEF Affected
<1>4. unsent' = unsent
  BY DEF Drain
<1> QED BY <1>1, <1>3, <1>4 DEF Event

\* Drain takes every change into a task, or into one that is renewed.
LEMMA CurrentDrain == ASSUME Exist, Inv, Drain PROVE Current'
<1>1. phase = "draining" /\ watching' = watching /\ UNCHANGED <<disk, work>>
  BY DEF Drain, BeginBuild
<1>2. watching
  BY <1>1 DEF Inv, Current, FirstCycle
<1>3. ASSUME NEW q \in Projects
      PROVE  /\ ~task[q].initial /\ ~task[q].pending /\ Kind(q) \in Final /\ Agrees(q)
             /\ work[q].pc = "idle" /\ DepsCurrent(q) /\ ~InHand(q)
             /\ q \in shown <=> HasErrors(out[q])
  <2>1. Sound(q) /\ AtRest(q) /\ work[q].pc = "idle"
    BY <1>1 DEF Inv, Current, AtRest, Control, Cycle, Busy
  <2>2. ~Unchecked(q)
    BY <1>1 DEF Unchecked
  <2> QED BY <1>1, <1>2, <2>1, <2>2 DEF Inv, Current, FirstCycle, Sound, StatusOf, DepsKept, WillCompile, InHand, ErrorsOf
<1>4. UNCHANGED <<text, config, out, newer, late>> /\ \A q \in Projects : Dts(q)' = Dts(q)
  BY <1>1 DEF disk, Dts
<1>5. ASSUME NEW q \in Projects
      PROVE  /\ ~task'[q].initial
             /\ \/ /\ q \in Dirty \cup Affected /\ task'[q].pending /\ ~task'[q].errors
                   /\ task'[q].status.kind = "none"
                \/ q \notin Dirty \cup Affected /\ task'[q] = task[q]
  BY <1>3, DrainDoes DEF Inv, Control, Renewed
<1>6. \A q \in Projects : Marked(q)' /\ DepsCurrent(q)'
  BY <1>3, <1>4, OrderFacts DEF Inv, Current, Sound, Marked, DepsCurrent
<1>7. ASSUME NEW q \in Projects PROVE Marked(q)' /\ DepsKept(q)'
  BY <1>1, <1>3, <1>4, <1>6, OrderFacts DEF Inv, Current, Sound, DepsKept
<1>8. ASSUME NEW q \in Projects \ (Dirty \cup Affected) PROVE Told(q)'
  <2>1. Told(q) /\ ~InHand(q)
    BY <1>3 DEF Inv, Current, Sound
  <2> QED BY <1>4, <2>1, DrainTells DEF Told
<1>9. ASSUME NEW q \in Projects, task'[q] = task[q] PROVE Agrees(q)'
  BY <1>3, <1>4, <1>9 DEF Agrees, Kind
<1>10. CASE Dirty \cup Affected = {}
  <2>1. phase' = "idle" /\ shown' = shown /\ \A q \in Projects : task'[q] = task[q]
    BY <1>5, <1>10 DEF Drain
  <2>2. ASSUME NEW q \in Projects PROVE Sound(q)'
    <3>1. ~Unchecked(q)'
      BY <2>1 DEF Unchecked
    <3>2. StatusOf(q)'
      BY <1>1, <1>3, <2>1, <3>1 DEF StatusOf, Kind
    <3>3. ErrorsOf(q)'
      BY <1>1, <1>3, <1>4, <1>9, <2>1, <3>1 DEF ErrorsOf, Kind, Final, Pseudo
    <3> QED BY <1>7, <1>8, <1>10, <3>2, <3>3 DEF Sound
  <2>3. FirstCycle' /\ Shown'
    BY <1>1, <1>2, <1>5, <2>1 DEF FirstCycle, Shown
  <2> QED BY <2>2, <2>3 DEF Current
<1>11. CASE Dirty \cup Affected # {}
  <2>1. phase' = "building" /\ done' = {} /\ shown' = {} /\ Reported' = {}
    BY <1>11, DrainBegins DEF Inv
  <2>2. ASSUME NEW q \in Projects PROVE Sound(q)'
    <3>1. Unchecked(q)' /\ ~AtRest(q)'
      BY <1>1, <1>3, <2>1 DEF Unchecked, AtRest
    <3>2. StatusOf(q)'
      BY <1>1, <1>3, <1>5, <3>1 DEF StatusOf, Kind
    <3>3. ErrorsOf(q)'
      BY <1>1, <1>3, <1>4, <1>5, <1>9, <2>1, <3>1 DEF ErrorsOf, Kind, Final, Pseudo
    <3>4. Told(q)'
      BY <1>5, <1>8, <3>1 DEF Told, InHand
    <3> QED BY <1>7, <3>2, <3>3, <3>4 DEF Sound
  <2>3. FirstCycle' /\ Shown'
    BY <1>1, <1>2, <1>5, <2>1 DEF FirstCycle, Shown
  <2> QED BY <2>2, <2>3 DEF Current
<1> QED BY <1>10, <1>11

\* A task that is taken waits as it did before.
LEMMA CurrentTake == ASSUME Exist, Inv, Take PROVE Current'
<1>1. PICK p \in Projects : p \notin Taken /\ OnlyWork(p) /\ work'[p].pc = "waiting"
  BY TakeDoes DEF Inv, Control
<1>2. /\ UNCHANGED <<disk, task, phase, reported, done, shown, unsent, changed, overflow, watching>>
      /\ phase = "building" /\ Reported' = Reported
  BY DEF Take, watch, Reported
<1>3. work[p].pc = "idle"
  BY <1>1, <1>2 DEF Inv, Control, Cycle, Busy
<1>4. UNCHANGED <<text, config, out, newer, late>> /\ \A q \in Projects : Dts(q)' = Dts(q)
  BY <1>2 DEF disk, Dts
<1>5. \A q \in Projects : /\ Unchecked(q)' <=> Unchecked(q)
                          /\ AtRest(q)' <=> AtRest(q)
                          /\ \A pc \in {"compiling", "touching", "ending"} : work'[q].pc = pc <=> work[q].pc = pc
                          /\ work'[q].pc = "compiling" => work'[q] = work[q]
  BY <1>1, <1>2, <1>3 DEF Unchecked, AtRest, OnlyWork
<1>6. FirstCycle' /\ Shown'
  BY <1>2, <1>5 DEF Inv, Current, FirstCycle, Shown, Kind
<1>7. ASSUME NEW q \in Projects PROVE Sound(q)'
  <2>1. Sound(q)
    BY DEF Inv, Current
  <2>2. StatusOf(q)'
    BY <1>2, <1>5, <2>1 DEF Sound, StatusOf, Kind
  <2>3. Marked(q)'
    BY <1>4, <2>1, OrderFacts DEF Sound, Marked
  <2>4. WillCompile(q)' <=> WillCompile(q)
    BY <1>2, <1>5 DEF WillCompile, Kind
  <2>5. DepsKept(q)'
    BY <1>4, <1>5, <2>1, <2>4, OrderFacts DEF Sound, DepsKept, DepsCurrent
  <2>6. Told(q)'
    BY <1>2, <1>4, <1>5, <2>1 DEF Sound, Told, InHand, Event
  <2>7. ErrorsOf(q)'
    BY <1>2, <1>4, <1>5, <2>1 DEF Sound, ErrorsOf, Agrees, Kind
  <2> QED BY <2>2, <2>3, <2>5, <2>6, <2>7 DEF Sound
<1> QED BY <1>6, <1>7 DEF Current

\* A project that is found not to be rebuilt has the current inputs, but for late changes.
LEMMA FoundCurrent ==
  ASSUME Plain, Inv, NEW p \in Projects, Unchecked(p), Kind(p) = "none",
         UpToDateStatus(p).kind \in {"upToDate"} \cup Pseudo
  PROVE  /\ DepsCurrent(p) /\ ~HasErrors(out[p])
         /\ p \in late \/ (out[p].text = text[p] /\ out[p].config = config[p])
<1>1. /\ out[p] # None /\ ~RecordsErrors(p) /\ ~TextChanged(p) /\ DtsChanged(p) = {}
      /\ <<"config", p>> \notin newer[p]
  BY StatusAsked DEF Inv, Control, Pseudo, Kind
<1>2. Marked(p) /\ DepsKept(p)
  BY DEF Inv, Current, Sound
<1>3. ASSUME NEW r \in Upstream(p) PROVE out[p].deps[r] = Dts(r)
  <2>1. r \in UsesDts(p)
    BY <1>1, <1>2 DEF UsesDts, DepsKept
  <2> QED BY <1>1, <1>2, <2>1 DEF DtsChanged, Marked
<1>4. p \in late \/ (out[p].text = text[p] /\ out[p].config = config[p])
  BY <1>1, <1>2 DEF TextChanged, Marked
<1> QED BY <1>1, <1>3, <1>4 DEF DepsCurrent, RecordsErrors

\* What is done has declarations.
LEMMA DoneHasDts ==
  ASSUME Exist, Inv, NEW r \in Projects, r \in done, phase = "building"
  PROVE  Dts(r) # None
<1>1. AtRest(r) /\ work[r].pc = "idle" /\ ~Unchecked(r)
  BY Where DEF Inv, AtRest
<1>2. DepsCurrent(r)
  BY <1>1 DEF Inv, Current, Sound, DepsKept, WillCompile
<1> QED BY <1>2, DtsIs DEF DepsCurrent, Inv, Control

\* Check calls up to date what getUpToDateStatus finds up to date.
LEMMA CurrentCheck == ASSUME Plain, Inv, NEW p \in Projects, Check(p) PROVE Current'
<1> DEFINE s == UpToDateStatus(p)
<1>1. /\ work[p].pc = "waiting" /\ UpstreamDone(p) /\ OnlyWork(p) /\ OnlyTask(p) /\ Checked(p, s)
      /\ task[p].pending => task'[p].status = s
      /\ task'[p].pending = task[p].pending /\ task'[p].initial = task[p].initial
  BY CheckDoes DEF Inv, Control
<1>2. /\ UNCHANGED <<disk, phase, reported, done, shown, unsent, changed, overflow, watching>>
      /\ Reported' = Reported
  BY DEF Check, watch, Reported
<1>3. phase = "building" /\ p \notin done /\ Unchecked(p) /\ NoConfig = {}
  BY <1>1, BusyBuilds, NoneMissing DEF Inv, Control, Cycle, Unchecked, Plain
<1>4. Upstream(p) \subseteq done
  BY <1>1, <1>3 DEF UpstreamDone, NoConfig
<1>5. UNCHANGED <<text, config, out, newer, late>> /\ \A q \in Projects : Dts(q)' = Dts(q)
  BY <1>2 DEF disk, Dts
<1>6. Sound(p)
  BY DEF Inv, Current
<1>7. \A q \in Projects \ {p} : Same(q)
  BY <1>1, <1>2 DEF Same, Alike, Unchecked, AtRest, OnlyWork, OnlyTask
<1>8. ASSUME NEW q \in Projects \ {p} PROVE Sound(q)'
  <2>1. Sound(q)
    BY DEF Inv, Current
  <2>2. StatusOf(q)' /\ ErrorsOf(q)'
    BY <1>2, <1>5, <1>7, <2>1, SameTask
  <2>3. Marked(q)' /\ DepsKept(q)' /\ Told(q)'
    BY <1>2, <1>7, <2>1, SameDisk
  <2> QED BY <2>2, <2>3 DEF Sound
<1>9. work'[p].pc \in {"ending", "touching", "compiling"}
  BY <1>1 DEF Checked
<1>10. ~Unchecked(p)' /\ ~AtRest(p)'
  BY <1>2, <1>3, <1>9 DEF Unchecked, AtRest
<1>11. Shown' /\ FirstCycle'
  <2>1. Shown'
    BY <1>2 DEF Inv, Current, Shown
  <2>2. \A q \in Projects : (Unchecked(q)' => Unchecked(q) /\ Same(q)) /\ task'[q].initial = task[q].initial
    BY <1>1, <1>7, <1>10 DEF Same, OnlyTask
  <2> QED BY <1>2, <2>1, <2>2, SameFirst DEF Inv, Current
<1>12. Marked(p)'
  BY <1>5, <1>6, OrderFacts DEF Sound, Marked
<1>13. DepsCurrent(p)' <=> DepsCurrent(p)
  BY <1>5, OrderFacts DEF DepsCurrent
<1>14. p \notin Reported
  BY <1>3 DEF Inv, Unpanicked
<1>15. \/ Kind(p) # "none" /\ s = task[p].status
       \/ Kind(p) = "none" /\ s.kind \in {"upToDate"} \cup Pseudo /\ DepsCurrent(p) /\ ~HasErrors(out[p])
            /\ (p \in late \/ (out[p].text = text[p] /\ out[p].config = config[p]))
       \/ Kind(p) = "none" /\ s.kind \in Rebuild
  <2>1. CASE Kind(p) # "none"
    BY <2>1, StatusKnown DEF Inv, Control, Kind
  <2>2. CASE Kind(p) = "none"
    <3>1. /\ s \in Status /\ s.kind \notin {"none", "buildErrors"}
          /\ task[p].resolved = "missing" <=> s.kind = "configFileNotFound"
          /\ s.kind = "upstreamErrors" => StopBuildOnErrors
      BY <2>2, StatusAsked DEF Inv, Control, Kind
    <3>2. s.kind \notin {"configFileNotFound", "upstreamErrors"}
      BY <1>3, <3>1 DEF NoConfig, Plain
    <3>3. s.kind \in {"upToDate"} \cup Pseudo \/ s.kind \in Rebuild
      BY <3>1, <3>2, StatusIs DEF Kinds, Pseudo, Rebuild
    <3> QED BY <1>3, <2>2, <3>3, FoundCurrent
  <2> QED BY <2>1, <2>2
<1> HIDE DEF s
<1>16. task[p].pending => Kind(p) \in {"none", "buildErrors", "inputFileNewer"} \cup Pseudo
  BY <1>3, <1>6 DEF Sound, StatusOf
<1>17. CASE ~task[p].pending
  <2>1. task' = task /\ work'[p].pc = "ending"
    BY <1>1, <1>17 DEF Checked
  <2>2. Kind(p) \in Final /\ Agrees(p) /\ Kind(p)' = Kind(p)
    BY <1>3, <1>6, <1>17, <2>1 DEF Sound, StatusOf, ErrorsOf, Kind
  <2>3. ~WillCompile(p) /\ ~InHand(p)
    BY <1>1, <1>17 DEF WillCompile, InHand
  <2>4. StatusOf(p)'
    BY <1>10, <2>1, <2>2 DEF StatusOf
  <2>5. DepsKept(p)'
    BY <1>5, <1>6, <1>13, <2>1, <2>3, OrderFacts DEF Sound, DepsKept
  <2>6. Told(p)'
    BY <1>2, <1>5, <1>6, <2>3 DEF Sound, Told, Event
  <2>7. Agrees(p)'
    BY <1>5, <2>1, <2>2 DEF Agrees, Kind
  <2>8. ErrorsOf(p)'
    BY <1>2, <1>3, <1>10, <1>14, <2>1, <2>2, <2>7 DEF ErrorsOf, Final, Pseudo
  <2> QED BY <1>8, <1>11, <1>12, <2>4, <2>5, <2>6, <2>8 DEF Sound, Current
<1>18. CASE task[p].pending /\ s.kind \notin Rebuild
  <2>1. /\ s.kind \in {"upToDate"} \cup Pseudo /\ DepsCurrent(p) /\ ~HasErrors(out[p]) /\ ~task[p].errors
        /\ s.kind = "upToDate" => p \in late \/ (out[p].text = text[p] /\ out[p].config = config[p])
    <3>1. CASE Kind(p) = "none"
      BY <1>3, <1>6, <1>15, <1>18, <3>1 DEF Sound, ErrorsOf
    <3>2. CASE Kind(p) # "none"
      <4>1. Kind(p) \in Pseudo /\ s = task[p].status
        BY <1>15, <1>16, <1>18, <3>2 DEF Rebuild, Kind
      <4>2. ~WillCompile(p)
        BY <1>1, <4>1 DEF WillCompile, Pseudo, Rebuild
      <4> QED BY <1>6, <4>1, <4>2 DEF Sound, DepsKept, ErrorsOf, Pseudo, Kind
    <3> QED BY <3>1, <3>2
  <2>2. /\ ~task'[p].errors /\ task'[p].status = s
        /\ work'[p].pc = (IF s.kind = "upToDate" THEN "ending" ELSE "touching")
    BY <1>1, <1>18, <2>1 DEF Checked, Ends, Pseudo, Rebuild
  <2>3. StatusOf(p)'
    BY <1>10, <2>1, <2>2 DEF StatusOf, Kind, Final
  <2>4. DepsKept(p)'
    BY <1>5, <1>6, <1>13, <2>1, <2>2, OrderFacts DEF Sound, DepsKept
  <2>5. Told(p)'
    BY <1>5, <2>1, <2>2 DEF Told, InHand
  <2>6. ErrorsOf(p)'
    BY <1>2, <1>3, <1>5, <1>10, <1>14, <2>1, <2>2 DEF ErrorsOf, Agrees, Kind, Pseudo
  <2> QED BY <1>8, <1>11, <1>12, <2>3, <2>4, <2>5, <2>6 DEF Sound, Current
<1>19. CASE task[p].pending /\ s.kind \in Rebuild
  <2>1. /\ task'[p].status = s /\ work'[p].pc = "compiling"
        /\ work'[p].deps = [r \in Upstream(p) |-> Dts(r)]
    BY <1>1, <1>19 DEF Checked, Ends, Pseudo, Rebuild
  <2>2. \A r \in Upstream(p) : work'[p].deps[r] = Dts(r)' /\ Dts(r)' # None
    BY <1>3, <1>4, <1>5, <2>1, DoneHasDts, OrderFacts DEF Plain
  <2>3. StatusOf(p)'
    BY <1>10, <1>19, <2>1 DEF StatusOf, Kind
  <2>4. DepsKept(p)'
    BY <1>5, <1>6, <2>1, <2>2 DEF Sound, DepsKept, WillCompile
  <2>5. Told(p)'
    BY <2>1 DEF Told, InHand
  <2>6. ErrorsOf(p)'
    BY <1>2, <1>3, <1>10, <1>14, <1>19, <2>1 DEF ErrorsOf, Kind, Pseudo, Rebuild
  <2> QED BY <1>8, <1>11, <1>12, <2>3, <2>4, <2>5, <2>6 DEF Sound, Current
<1> QED BY <1>17, <1>18, <1>19

\* Touch is for a project whose inputs are the ones it was built from.
LEMMA CurrentTouch == ASSUME Plain, Inv, NEW p \in Projects, Touch(p) PROVE Current'
<1>1. /\ work[p].pc = "touching" /\ OnlyWork(p) /\ work'[p].pc = "ending"
      /\ \A q \in Projects \ {p} : Alike(task'[q], task[q])
      /\ task'[p].status.kind = "upToDate"
      /\ task'[p].errors = task[p].errors /\ task'[p].initial = task[p].initial
  BY TouchDoes DEF Inv, Control
<1>2. /\ UNCHANGED <<text, config, out, phase, reported, done, shown, unsent, changed, overflow, watching>>
      /\ newer' = [newer EXCEPT ![p] = {}] /\ late' = Overtaken(p, out[p])
      /\ Reported' = Reported
  BY DEF Touch, watch, Reported
<1>3. phase = "building" /\ p \notin done /\ ~Unchecked(p) /\ ~Unchecked(p)' /\ ~AtRest(p)'
  BY <1>1, <1>2, Where DEF Inv, Working, Unchecked, AtRest, Plain
<1>4. Sound(p)
  BY DEF Inv, Current
<1>5. \A q \in Projects \ {p} : Same(q)
  BY <1>1, <1>2 DEF Same, Unchecked, AtRest, OnlyWork
<1>6. \A q \in Projects \ {p} : newer'[q] = newer[q] /\ (q \in late' <=> q \in late)
  BY <1>2 DEF Inv, Control, Typed, TypedDisk, Overtaken
<1>7. \A q \in Projects : Dts(q)' = Dts(q)
  BY <1>2 DEF Dts
<1>8. ASSUME NEW q \in Projects \ {p} PROVE Sound(q)'
  <2>1. Sound(q)
    BY DEF Inv, Current
  <2>2. StatusOf(q)' /\ ErrorsOf(q)'
    BY <1>2, <1>5, <2>1, SameTask
  <2>3. Marked(q)'
    BY <1>2, <1>6, <1>7, <2>1, OrderFacts DEF Sound, Marked
  <2>4. WillCompile(q)' <=> WillCompile(q)
    BY <1>5 DEF Same, Alike, WillCompile, Kind
  <2>5. DepsKept(q)'
    BY <1>2, <1>5, <1>7, <2>1, <2>4, OrderFacts DEF Sound, DepsKept, DepsCurrent, Same
  <2>6. InHand(q)' <=> InHand(q)
    BY <1>5 DEF Same, Alike, InHand
  <2>7. Told(q)'
    BY <1>2, <1>6, <2>1, <2>6 DEF Sound, Told, Event
  <2> QED BY <2>2, <2>3, <2>5, <2>7 DEF Sound
<1>9. DepsCurrent(p) /\ ~task[p].errors /\ ~HasErrors(out[p])
  BY <1>1, <1>3, <1>4 DEF Sound, DepsKept, WillCompile, ErrorsOf
<1>10. p \in late' \/ (out[p].text = text[p] /\ out[p].config = config[p])
  BY <1>2 DEF Overtaken
<1>11. StatusOf(p)'
  BY <1>1, <1>3 DEF StatusOf, Kind, Final
<1>12. Marked(p)'
  BY <1>2, <1>7, <1>9, <1>10, OrderFacts DEF Marked, DepsCurrent
<1>13. DepsKept(p)'
  BY <1>1, <1>2, <1>4, <1>7, <1>9, OrderFacts DEF Sound, DepsKept, DepsCurrent
<1>14. Told(p)'
  BY <1>2, <1>10 DEF Told
<1>15. ErrorsOf(p)'
  <2>1. p \notin Reported'
    BY <1>2, <1>3 DEF Inv, Unpanicked
  <2> QED BY <1>1, <1>2, <1>3, <1>9, <2>1 DEF ErrorsOf, Agrees, Kind, Pseudo
<1>16. FirstCycle'
  <2>1. \A q \in Projects : (Unchecked(q)' => Unchecked(q) /\ Same(q)) /\ task'[q].initial = task[q].initial
    BY <1>1, <1>3, <1>5 DEF Same, Alike
  <2> QED BY <1>2, <2>1, SameFirst DEF Inv, Current
<1>17. Shown'
  BY <1>2 DEF Inv, Current, Shown
<1> QED BY <1>8, <1>11, <1>12, <1>13, <1>14, <1>15, <1>16, <1>17 DEF Sound, Current

\* A project that is built tells those that reference it, which are still to be checked.
LEMMA CurrentEmit == ASSUME Plain, Inv, NEW p \in Projects, Emit(p) PROVE Current'
<1> DEFINE o == Emitted(p)
<1>1. /\ work[p].pc = "compiling" /\ OnlyWork(p) /\ work'[p].pc = "ending"
      /\ o \in Outputs(p) /\ out' = [out EXCEPT ![p] = o]
      /\ task'[p].status.kind = (IF HasErrors(o) THEN "buildErrors" ELSE "upToDate")
      /\ task'[p].errors = HasErrors(o)
      /\ task'[p].initial = task[p].initial
      /\ \A q \in Projects \ {p} :
               IF q \in Downstream(p) /\ ~task[p].initial /\ ~(StopBuildOnErrors /\ HasErrors(o))
               THEN Lowered(task[q], task'[q], DtsDiffers(p))
               ELSE Alike(task'[q], task[q])
  BY EmitDoes DEF Inv, Control
<1>2. /\ UNCHANGED <<text, config, phase, reported, done, shown, changed, overflow, watching>>
      /\ unsent \subseteq unsent' /\ late' = Overtaken(p, o) /\ Reported' = Reported
      /\ \A q \in Projects \ {p} : newer'[q] = (IF q \in Users(p) /\ DtsDiffers(p)
                                                THEN newer[q] \cup {<<"dts", p>>} ELSE newer[q])
  <2>1. o = Output(work[p].text, work[p].config, work[p].deps)
    BY DEF Emitted, Compiled
  <2>2. \A q \in Projects \ {p} : newer'[q] = (IF q \in Users(p) /\ DtsDiffers(p)
                                                THEN newer[q] \cup {<<"dts", p>>} ELSE newer[q])
    BY <2>1 DEF Emit, DtsDiffers
  <2>3. late' = Overtaken(p, o) /\ unsent \subseteq unsent'
    BY <2>1 DEF Emit
  <2>4. UNCHANGED <<text, config, phase, reported, done, shown, changed, overflow, watching>>
    BY DEF Emit
  <2> QED BY <2>2, <2>3, <2>4 DEF Reported
<1> HIDE DEF o
<1>3. /\ out'[p] = o /\ o # None /\ Dts(p)' = o.text.dts
      /\ \A q \in Projects \ {p} : out'[q] = out[q] /\ Dts(q)' = Dts(q)
      /\ DtsDiffers(p) <=> Dts(p)' # Dts(p)
  <2>1. out'[p] = o /\ \A q \in Projects \ {p} : out'[q] = out[q]
    BY <1>1 DEF Inv, Control, Typed, TypedDisk
  <2>2. o # None
    BY <1>1, NoneAssumption
  <2> QED BY <2>1, <2>2 DEF Dts, DtsDiffers, o
<1>4. phase = "building" /\ p \notin done /\ ~Unchecked(p) /\ ~Unchecked(p)' /\ ~AtRest(p)' /\ p \notin Upstream(p)
  BY <1>1, <1>2, Where, NoSelf DEF Inv, Working, Unchecked, AtRest, Plain
<1>5. Sound(p)
  BY DEF Inv, Current
<1>6. \A q \in Projects \ {p} : /\ work'[q] = work[q] /\ (Unchecked(q)' <=> Unchecked(q))
                                /\ AtRest(q)' <=> AtRest(q)
  BY <1>1, <1>2 DEF Unchecked, AtRest, OnlyWork
<1>7. \A q \in Projects \ {p} : q \in late' <=> q \in late
  BY <1>2 DEF Overtaken
\* Who references p.
<1>8. ASSUME NEW q \in Users(p)
      PROVE  /\ q \in Projects \ {p} /\ Unchecked(q) /\ work[q].pc \in {"idle", "waiting"} /\ ~AtRest(q)
             /\ IF task[p].initial THEN Alike(task'[q], task[q]) /\ Kind(q) = "none" /\ task[q].pending
                ELSE Lowered(task[q], task'[q], DtsDiffers(p))
  <2>1. q \in Projects \ {p} /\ Unchecked(q) /\ work[q].pc \in {"idle", "waiting"}
    BY <1>1, UsersWait DEF Inv, Plain
  <2>2. ~AtRest(q)
    BY <2>1, Where DEF Inv, Plain
  <2>3. q \in Downstream(p)
    BY <2>1, NoneMissing DEF Inv, Control, NoConfig, Downstream, Plain
  <2>4. CASE task[p].initial
    <3>1. ~watching
      BY <2>4 DEF Inv, Current, FirstCycle
    <3>2. Kind(q) = "none" /\ task[q].pending
      BY <2>1, <3>1 DEF Inv, Current, FirstCycle
    <3> QED BY <1>1, <2>1, <2>2, <2>4, <3>2
  <2>5. CASE ~task[p].initial
    BY <1>1, <2>1, <2>2, <2>3, <2>5 DEF Plain
  <2> QED BY <2>4, <2>5
<1>9. \A q \in Projects \ ({p} \cup Users(p)) : Alike(task'[q], task[q])
  BY <1>1 DEF Downstream
<1>10. \A q \in Projects \ {p} : Alike(task'[q], task[q]) => Same(q)
  BY <1>6 DEF Same
<1>11. ASSUME NEW q \in Projects \ {p} PROVE Marked(q)'
  <2>1. Marked(q)
    BY DEF Inv, Current, Sound
  <2>2. newer[q] \subseteq newer'[q]
    BY <1>2
  <2>3. ASSUME NEW r \in Upstream(q), out[q] # None PROVE out[q].deps[r] = Dts(r)' \/ <<"dts", r>> \in newer'[q]
    <3>1. r \in Projects
      BY OrderFacts
    <3>2. CASE r = p /\ DtsDiffers(p)
      BY <1>2, <3>2 DEF Users
    <3>3. CASE r # p \/ ~DtsDiffers(p)
      BY <1>3, <2>1, <2>2, <2>3, <3>1, <3>3 DEF Marked
    <3> QED BY <3>2, <3>3
  <2> QED BY <1>2, <1>3, <1>7, <2>1, <2>2, <2>3 DEF Marked
<1>12. ASSUME NEW q \in Projects \ {p} PROVE Told(q)'
  <2>1. Told(q)
    BY DEF Inv, Current, Sound
  <2>2. InHand(q) => InHand(q)'
    BY <1>6, <1>8, <1>9 DEF InHand, Alike, Lowered
  <2>3. \A kind \in {"text", "config"} : Event(kind, q) => Event(kind, q)'
    BY <1>2 DEF Event
  <2> QED BY <1>2, <1>3, <1>7, <2>1, <2>2, <2>3 DEF Told
<1>13. ASSUME NEW q \in Projects \ ({p} \cup Users(p)) PROVE Sound(q)'
  <2>1. Sound(q) /\ Same(q)
    BY <1>9, <1>10 DEF Inv, Current
  <2>2. StatusOf(q)' /\ ErrorsOf(q)'
    BY <1>2, <1>3, <2>1, SameTask
  <2>3. WillCompile(q)' <=> WillCompile(q)
    BY <2>1 DEF Same, Alike, WillCompile, Kind
  <2>4. \A r \in Upstream(q) : Dts(r)' = Dts(r)
    BY <1>3, OrderFacts DEF Users
  <2>5. DepsKept(q)'
    BY <1>3, <1>6, <2>1, <2>3, <2>4 DEF Sound, DepsKept, DepsCurrent
  <2> QED BY <1>11, <1>12, <2>2, <2>5 DEF Sound
<1>14. ASSUME NEW q \in Users(p) PROVE Sound(q)'
  <2>1. /\ Sound(q) /\ q \in Projects \ {p} /\ Unchecked(q) /\ Unchecked(q)' /\ ~AtRest(q)'
        /\ work'[q] = work[q] /\ work[q].pc \in {"idle", "waiting"} /\ out'[q] = out[q]
    BY <1>3, <1>6, <1>8 DEF Inv, Current
  <2>2. CASE task[p].initial
    <3>1. Same(q) /\ Kind(q)' = "none" /\ task'[q].pending
      BY <1>8, <1>10, <2>1, <2>2 DEF Alike, Kind
    <3>2. StatusOf(q)' /\ ErrorsOf(q)'
      BY <1>2, <2>1, <3>1, SameTask
    <3>3. DepsKept(q)'
      BY <2>1, <3>1 DEF Sound, DepsKept, WillCompile
    <3> QED BY <1>11, <1>12, <2>1, <3>2, <3>3 DEF Sound
  <2>3. CASE ~task[p].initial
    <3>1. Lowered(task[q], task'[q], DtsDiffers(p))
      BY <1>8, <2>3
    <3>2. /\ Kind(q)' \in Downgraded(Kind(q), DtsDiffers(p)) /\ task'[q].pending
          /\ task'[q].errors = task[q].errors \/ Kind(q) = "upstreamErrors"
      BY <3>1 DEF Lowered, Kind
    <3>3. Kind(q) \in {"none", "buildErrors", "inputFileNewer", "upToDate"} \cup Pseudo
      BY <2>1 DEF Sound, StatusOf, Final
    <3>4. \/ Kind(q)' = Kind(q) /\ Kind(q) \in {"none", "buildErrors", "inputFileNewer"}
          \/ Kind(q)' = "inputFileNewer" /\ DtsDiffers(p)
          \/ Kind(q)' \in Pseudo /\ Kind(q) \in {"upToDate"} \cup Pseudo /\ ~DtsDiffers(p)
      BY <3>2, <3>3 DEF Downgraded, Skipped, Pseudo
    <3>5. task'[q].errors = task[q].errors
      BY <3>2, <3>3 DEF Pseudo
    <3>6. StatusOf(q)'
      BY <2>1, <3>2, <3>4 DEF StatusOf
    <3>7. Kind(q) \in {"upToDate"} \cup Pseudo => ~task[q].errors /\ ~HasErrors(out[q])
      <4>1. CASE Kind(q) = "upToDate"
        <5>1. ~task[q].pending
          BY <2>1, <4>1 DEF Sound, StatusOf, Pseudo
        <5> QED BY <2>1, <4>1, <5>1 DEF Sound, ErrorsOf, Agrees
      <4>2. CASE Kind(q) \in Pseudo
        BY <2>1, <4>2 DEF Sound, ErrorsOf
      <4> QED BY <4>1, <4>2
    <3>8. ErrorsOf(q)'
      <4>1. q \notin Reported'
        BY <1>2, <1>4, <2>1 DEF Inv, Unpanicked, Unchecked
      <4>2. Kind(q)' = "none" => ~task'[q].errors
        BY <2>1, <3>4, <3>5 DEF Sound, ErrorsOf, Pseudo
      <4>3. Kind(q)' \in Pseudo => ~task'[q].errors /\ ~HasErrors(out'[q])
        BY <2>1, <3>4, <3>5, <3>7 DEF Pseudo
      <4> QED BY <1>2, <1>4, <2>1, <3>2, <4>1, <4>2, <4>3 DEF ErrorsOf
    <3>9. DepsKept(q)'
      <4>1. CASE Kind(q)' \in {"none"} \cup Rebuild
        BY <2>1, <3>2, <4>1 DEF Sound, DepsKept, WillCompile
      <4>2. CASE Kind(q)' \in Pseudo /\ ~DtsDiffers(p) /\ Kind(q) \in {"upToDate"} \cup Pseudo
        <5>1. \A r \in Projects : Dts(r)' = Dts(r)
          BY <1>3, <4>2
        <5>2. ~WillCompile(q)
          BY <2>1, <4>2 DEF WillCompile, Rebuild, Pseudo
        <5> QED BY <2>1, <5>1, <5>2, OrderFacts DEF Sound, DepsKept, DepsCurrent
      <4> QED BY <3>4, <4>1, <4>2 DEF Rebuild
    <3> QED BY <1>11, <1>12, <2>1, <3>6, <3>8, <3>9 DEF Sound
  <2> QED BY <2>2, <2>3
<1>15. p \in late' \/ (o.text = text[p] /\ o.config = config[p])
  BY <1>2 DEF Overtaken
<1>16. \A r \in Upstream(p) : o.deps[r] = Dts(r)' /\ Dts(r)' # None
  <2>1. o.deps = work[p].deps
    BY DEF o, Emitted, Compiled, Output
  <2> QED BY <1>1, <1>3, <1>4, <1>5, <2>1, OrderFacts DEF Sound, DepsKept
<1>17. Sound(p)'
  <2>1. StatusOf(p)'
    BY <1>1, <1>4 DEF StatusOf, Kind, Final
  <2>2. Marked(p)'
    BY <1>2, <1>3, <1>15, <1>16 DEF Marked
  <2>3. DepsKept(p)'
    BY <1>1, <1>3, <1>16 DEF DepsKept, DepsCurrent
  <2>4. Told(p)'
    BY <1>2, <1>3, <1>15 DEF Told
  <2>5. ErrorsOf(p)'
    <3>1. p \notin Reported'
      BY <1>2, <1>4 DEF Inv, Unpanicked
    <3>2. Agrees(p)'
      BY <1>1, <1>3 DEF Agrees, Kind
    <3> QED BY <1>1, <1>2, <1>4, <3>1, <3>2 DEF ErrorsOf, Kind, Pseudo
  <2> QED BY <2>1, <2>2, <2>3, <2>4, <2>5 DEF Sound
<1>18. FirstCycle'
  <2>1. \A q \in Projects : task'[q].initial = task[q].initial
    BY <1>1, <1>8, <1>9 DEF Alike, Lowered
  <2>2. ASSUME ~watching, NEW q \in Projects, Unchecked(q)' PROVE task'[q].pending /\ Kind(q)' = "none"
    <3>1. q # p /\ Unchecked(q) /\ task[q].pending /\ Kind(q) = "none"
      BY <1>4, <1>6, <2>2 DEF Inv, Current, FirstCycle
    <3>2. task[p].initial
      BY <1>4, <2>2 DEF Inv, Current, FirstCycle
    <3>3. Alike(task'[q], task[q])
      BY <1>8, <1>9, <3>1, <3>2
    <3> QED BY <3>1, <3>3 DEF Alike, Kind
  <2> QED BY <1>2, <2>1, <2>2 DEF Inv, Current, FirstCycle
<1>19. Shown'
  BY <1>2 DEF Inv, Current, Shown
<1> QED BY <1>13, <1>14, <1>17, <1>18, <1>19 DEF Current, Users

\* End keeps the status that the build has got.
LEMMA CurrentEnd == ASSUME Plain, Inv, NEW p \in Projects, End(p) PROVE Current'
<1>1. /\ work[p].pc = "ending" /\ OnlyWork(p) /\ work'[p].pc = "idle"
      /\ OnlyTask(p) /\ ~task'[p].pending /\ ~task'[p].initial
      /\ task'[p].status = task[p].status /\ task'[p].errors = task[p].errors
  BY EndDoes DEF Inv, Control
<1>2. /\ UNCHANGED <<disk, phase, reported, shown, unsent, changed, overflow, watching>>
      /\ done' = done \cup {p} /\ Reported' = Reported
  BY DEF End, watch, Reported
<1>3. phase = "building" /\ p \notin done /\ ~Unchecked(p) /\ ~Unchecked(p)' /\ AtRest(p)'
  BY <1>1, <1>2, Where DEF Inv, Working, Unchecked, AtRest, Plain
<1>4. UNCHANGED <<text, config, out, newer, late>> /\ \A q \in Projects : Dts(q)' = Dts(q)
  BY <1>2 DEF disk, Dts
<1>5. \A q \in Projects \ {p} : Same(q)
  BY <1>1, <1>2 DEF Same, Alike, Unchecked, AtRest, OnlyWork, OnlyTask
<1>6. ASSUME NEW q \in Projects \ {p} PROVE Sound(q)'
  <2>1. Sound(q)
    BY DEF Inv, Current
  <2>2. StatusOf(q)' /\ ErrorsOf(q)'
    BY <1>2, <1>4, <1>5, <2>1, SameTask
  <2>3. Marked(q)' /\ DepsKept(q)' /\ Told(q)'
    BY <1>2, <1>5, <2>1, SameDisk
  <2> QED BY <2>2, <2>3 DEF Sound
<1>7. Sound(p)'
  <2>1. Sound(p) /\ Kind(p)' = Kind(p)
    BY <1>1 DEF Inv, Current, Kind
  <2>2. ~WillCompile(p) /\ ~InHand(p)
    BY <1>1, <1>3 DEF WillCompile, InHand
  <2>3. Kind(p) \in Final /\ Agrees(p)
    BY <1>1, <2>1 DEF Sound, StatusOf, ErrorsOf
  <2>4. StatusOf(p)'
    BY <1>1, <1>3, <2>1, <2>3 DEF StatusOf
  <2>5. Marked(p)'
    BY <1>4, <2>1, OrderFacts DEF Sound, Marked
  <2>6. DepsKept(p)'
    BY <1>1, <1>4, <2>1, <2>2, OrderFacts DEF Sound, DepsKept, DepsCurrent
  <2>7. Told(p)'
    BY <1>2, <1>4, <2>1, <2>2 DEF Sound, Told, Event
  <2>8. ErrorsOf(p)'
    <3>1. p \notin Reported'
      BY <1>2, <1>3 DEF Inv, Unpanicked
    <3>2. Agrees(p)'
      BY <1>1, <1>4, <2>1, <2>3 DEF Agrees
    <3> QED BY <1>1, <1>2, <1>3, <2>1, <2>3, <3>1, <3>2 DEF ErrorsOf, Final, Pseudo
  <2> QED BY <2>4, <2>5, <2>6, <2>7, <2>8 DEF Sound
<1>8. FirstCycle'
  <2>1. \A q \in Projects \ {p} : task'[q] = task[q]
    BY <1>1 DEF OnlyTask
  <2> QED BY <1>1, <1>2, <1>3, <1>5, <2>1 DEF Inv, Current, FirstCycle, Same, Kind
<1>9. Shown'
  BY <1>2 DEF Inv, Current, Shown
<1> QED BY <1>6, <1>7, <1>8, <1>9 DEF Current

\* A project that was skipped is reported with the errors it had.
LEMMA CurrentReport == ASSUME Plain, Inv, Report PROVE Current'
<1>1. PICK p \in Projects : /\ p \notin Reported /\ Reported' = Reported \cup {p} /\ p \in built
                            /\ shown' = (IF task[p].errors THEN shown \cup {p} ELSE shown)
  BY ReportDoes DEF Inv, Control
<1>2. UNCHANGED <<disk, task, phase, work, done, unsent, changed, overflow, watching>> /\ phase = "building"
  BY DEF Report, watch
<1>3. UNCHANGED <<text, config, out, newer, late>> /\ \A q \in Projects : Dts(q)' = Dts(q)
  BY <1>2 DEF disk, Dts
<1>4. \A q \in Projects : Same(q)
  BY <1>2 DEF Same, Alike, Unchecked, AtRest
<1>5. AtRest(p) /\ p \notin shown /\ Shown
  BY <1>1, <1>2 DEF Inv, Control, Cycle, AtRest, Current, Shown
<1>6. task[p].errors <=> HasErrors(out[p])
  BY <1>5 DEF Inv, Current, Sound, ErrorsOf, Agrees
<1>7. ASSUME NEW q \in Projects PROVE Sound(q)'
  <2>1. Sound(q)
    BY DEF Inv, Current
  <2>2. StatusOf(q)'
    BY <1>4, <2>1 DEF Same, Alike, Sound, StatusOf, Kind
  <2>3. Marked(q)' /\ DepsKept(q)' /\ Told(q)'
    BY <1>2, <1>4, <2>1, SameDisk
  <2>4. Agrees(q)' <=> Agrees(q)
    BY <1>2, <1>3 DEF Agrees, Kind
  <2>5. q \in Reported' => (q \in shown' <=> HasErrors(out'[q]))
    BY <1>1, <1>2, <1>3, <1>5, <1>6, <2>1 DEF Sound, ErrorsOf
  <2>6. ErrorsOf(q)'
    BY <1>2, <1>3, <1>4, <2>1, <2>4, <2>5 DEF Sound, ErrorsOf, Same, Alike, Kind
  <2> QED BY <2>2, <2>3, <2>6 DEF Sound
<1>8. FirstCycle'
  <2>1. \A q \in Projects : (Unchecked(q)' => Unchecked(q) /\ Same(q)) /\ task'[q].initial = task[q].initial
    BY <1>4 DEF Same, Alike
  <2> QED BY <1>2, <2>1, SameFirst DEF Inv, Current
<1>9. Shown'
  BY <1>1, <1>5, <1>2 DEF Shown
<1> QED BY <1>7, <1>8, <1>9 DEF Current

\* EndCycle finds no task pending that builds.
LEMMA CurrentEndCycle == ASSUME Plain, Inv, EndCycle PROVE Current'
<1>1. /\ UNCHANGED <<disk, task, reported, work, done, shown, unsent, changed, overflow>>
      /\ phase = "building" /\ phase' = "idle" /\ watching'
  BY DEF EndCycle
<1>2. Reported = Projects /\ done = Projects
  BY EndsWithAll DEF Inv
<1>3. UNCHANGED <<text, config, out, newer, late>> /\ \A q \in Projects : Dts(q)' = Dts(q)
  BY <1>1 DEF disk, Dts
<1>4. \A q \in Projects : Same(q)
  BY <1>1, <1>2 DEF Same, Alike, Unchecked, AtRest
<1>5. ASSUME NEW q \in Projects PROVE Sound(q)'
  <2>1. Sound(q)
    BY DEF Inv, Current
  <2>2. StatusOf(q)'
    BY <1>4, <2>1 DEF Same, Alike, Sound, StatusOf, Kind
  <2>3. Marked(q)' /\ DepsKept(q)' /\ Told(q)'
    BY <1>1, <1>4, <2>1, SameDisk
  <2>4. Agrees(q)' <=> Agrees(q)
    BY <1>1, <1>3 DEF Agrees, Kind
  <2>5. q \in shown' <=> HasErrors(out'[q])
    BY <1>1, <1>2, <1>3, <2>1 DEF Sound, ErrorsOf
  <2>6. ErrorsOf(q)'
    BY <1>1, <1>3, <1>4, <2>1, <2>4, <2>5 DEF Sound, ErrorsOf, Same, Alike, Kind
  <2> QED BY <2>2, <2>3, <2>6 DEF Sound
<1>6. FirstCycle'
  BY <1>1, <1>2 DEF Inv, Current, FirstCycle
<1> QED BY <1>1, <1>5, <1>6 DEF Current, Shown

\* Every step keeps what the tasks say of the disk true.
LEMMA CurrentStep == Plain /\ Inv /\ [Next]_vars => Current'
<1> SUFFICES ASSUME Plain, Inv, [Next]_vars PROVE Current'
  OBVIOUS
<1>1. CASE UNCHANGED vars
  <2>1. /\ UNCHANGED <<disk, task, phase, next, reported, work, done, shown, unsent, changed, overflow, watching>>
        /\ out' = out
    BY <1>1 DEF vars, run, watch, disk
  <2>2. Reported' = Reported /\ \A q \in Projects : Same(q)
    BY <2>1 DEF Reported, Same, Alike, Unchecked, AtRest
  <2>3. ASSUME NEW q \in Projects PROVE Sound(q)'
    <3>1. Sound(q)
      BY DEF Inv, Current
    <3> QED BY <2>1, <2>2, <3>1, SameTask, SameDisk DEF Sound
  <2>4. UNCHANGED <<phase, done, watching>> /\ \A q \in Projects : (Unchecked(q)' => Unchecked(q) /\ Same(q)) /\ task'[q].initial = task[q].initial
    BY <1>1, <2>2 DEF Same, Alike, vars, run, watch
  <2>5. FirstCycle' /\ Shown'
    BY <2>1, <2>2, <2>4, SameFirst DEF Inv, Current, Shown
  <2> QED BY <2>3, <2>5 DEF Current
<1>2. CASE User \/ Deliver \/ Overflow \/ Wake
  BY <1>2, CurrentUser, CurrentWatcher DEF Plain
<1>3. CASE \E p \in Projects : Build(p)
  BY <1>3, CurrentCheck, CurrentTouch, CurrentEmit, CurrentEnd DEF Build
<1>4. CASE Start \/ Drain \/ Take \/ Report \/ EndCycle
  BY <1>4, CurrentStart, CurrentDrain, CurrentTake, CurrentReport, CurrentEndCycle DEF Plain
<1> QED BY <1>1, <1>2, <1>3, <1>4 DEF Next

\* The inductive invariant.
LEMMA InvHolds == Plain => (Spec => []Inv)
<1> SUFFICES ASSUME Plain PROVE Spec => []Inv
  OBVIOUS
<1>1. Init => Inv
  BY TypedInit, ControlInit, UnpanickedInit, CurrentInit DEF Inv, Control, Plain
<1>2. Inv /\ [Next]_vars => Inv'
  BY ControlStep, UnpanickedStep, CurrentStep DEF Inv, Plain
<1> QED BY <1>1, <1>2, PTL DEF Spec

\* When all is quiet, what is not late was built from its present inputs.
LEMMA QuietIsCurrent ==
  ASSUME Inv, Quiet, NEW p \in Projects \ late
  PROVE  out[p] = Wanted(p)
<1>1. work[p].pc = "idle" /\ ~Unchecked(p) /\ Sound(p)
  BY DEF Inv, Control, Cycle, Busy, Quiet, Unchecked, Current
<1>2. DepsCurrent(p) /\ ~InHand(p)
  BY <1>1 DEF Sound, DepsKept, WillCompile, InHand
<1>3. out[p].text = text[p] /\ out[p].config = config[p]
  BY <1>1, <1>2 DEF Sound, Told, Event, Quiet, DepsCurrent
<1>4. out[p] \in Outputs(p)
  BY <1>2 DEF Inv, Control, Typed, TypedDisk, DepsCurrent
<1>5. out[p].deps = [r \in Upstream(p) |-> Dts(r)]
  BY <1>2, <1>4 DEF DepsCurrent, Outputs
<1> QED BY <1>3, <1>4, <1>5 DEF Wanted, Output, Outputs

(* When nothing is left to do, every project is built from its present source, configuration   *)
(* and the present declaration files of its references, whatever was skipped, touched or       *)
(* postponed on the way (getUpToDateStatus, updateDownstream, checkTasksForEventChanges), if   *)
(* every project has a configuration and builds do not stop on errors.                         *)
THEOREM AllAreCurrent == Plain => (Spec => []AllCurrent)
<1> SUFFICES ASSUME Plain PROVE Spec => []AllCurrent
  OBVIOUS
<1>1. Inv => AllCurrent
  BY QuietIsCurrent DEF AllCurrent
<1> QED BY <1>1, InvHolds, PTL

(* The same for what the watcher's summary says: it counts the errors of all projects, of      *)
(* those that this cycle did not touch as well (report, resetStatus).                          *)
THEOREM ErrorsAreShown == Plain => (Spec => []ErrorsShown)
<1> SUFFICES ASSUME Plain PROVE Spec => []ErrorsShown
  OBVIOUS
<1>1. ASSUME Inv, Quiet, NEW p \in Projects \ late PROVE p \in shown <=> HasErrors(Wanted(p))
  <2>1. out[p] = Wanted(p)
    BY <1>1, QuietIsCurrent
  <2>2. p \in shown <=> HasErrors(out[p])
    BY <1>1 DEF Inv, Current, Sound, ErrorsOf, Quiet
  <2> QED BY <2>1, <2>2
<1>2. Inv => ErrorsShown
  BY <1>1 DEF ErrorsShown
<1> QED BY <1>2, InvHolds, PTL
=============================================================================
