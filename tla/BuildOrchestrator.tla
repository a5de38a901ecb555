-------------------------- MODULE BuildOrchestrator --------------------------
(***************************************************************************)
(* Build mode with --watch (execute/build): projects that reference each   *)
(* other are built by a few goroutines, each after those it references,    *)
(* and built again in cycles when the file watcher reports changes.        *)
(*                                                                         *)
(* Every project is composite and has one source file, which yields one    *)
(* declaration file.  Times are only ever compared, so the model keeps     *)
(* what each comparison says: which inputs of a project changed after its  *)
(* .tsbuildinfo was last written.                                          *)
(***************************************************************************)
EXTENDS Naturals, SequencesExt, FiniteSetsExt

CONSTANTS Projects,
          Refs,             \* the sequence of projects that each project references
          Order,            \* Orchestrator.order: every project after those it references
          Texts,            \* bound: contents of a source file
          Configs,          \* bound: contents of a tsconfig.json, perhaps "missing"
          Builders,         \* the number of goroutines of rangeTasks
          StopBuildOnErrors,
          MaxEdits,         \* bound: changes made by the user
          None

Upstream(p) == Range(Refs[p])

ASSUME RefsAssumption == Refs \in [Projects -> Seq(Projects)]
ASSUME OrderListsProjects ==
    Order \in Seq(Projects) /\ Range(Order) = Projects /\ Len(Order) = Cardinality(Projects)
ASSUME RefsFirst == \A i \in DOMAIN Order : Upstream(Order[i]) \subseteq Range(SubSeq(Order, 1, i - 1))
ASSUME BuildersAssumption == Builders \in Nat \ {0} /\ StopBuildOnErrors \in BOOLEAN /\ MaxEdits \in Nat
ASSUME InputsAssumption ==
    Texts \subseteq [dts : {"d1", "d2"}, ok : BOOLEAN] /\ Configs \ {"missing"} # {}

VARIABLES text, config,     \* the inputs on disk
          out,              \* what each .tsbuildinfo records and the .d.ts that was emitted last
          newer,            \* the inputs that are newer than each .tsbuildinfo
          late,             \* projects with a change that no event or newer file will tell of
          task,             \* the BuildTask of each project
          phase, next, reported, work,         \* rangeTasks and the reporting goroutine
          done, built,      \* the closed channels
          result,           \* tasks whose result is set
          shown,            \* projects whose errors the last report counts
          unsent, changed, overflow, signal, watching,   \* the file watcher and WatchManager
          edits,
          crashed

disk == <<text, config, out, newer, late>>
run == <<phase, next, reported, work, done, built, result, shown>>
watch == <<unsent, changed, overflow, signal, watching>>
vars == <<disk, task, run, watch, edits, crashed>>

Outputs(p) == [text : Texts, config : Configs, deps : [Upstream(p) -> {"d1", "d2", None}]]
ASSUME NoneAssumption == None \notin {"d1", "d2"} \cup Projects \cup UNION {Outputs(p) : p \in Projects}

Status == [kind : {"none", "configFileNotFound", "buildErrors", "upstreamErrors", "upToDate",
                   "upToDateWithUpstreamTypes", "upToDateWithInputFileText", "outputMissing",
                   "inputFileNewer", "outOfDateBuildInfoWithErrors"},
           newerThan : {None} \cup SUBSET Projects,
           ref : Projects \cup {None}]

\* newerThan: the newest input seen, as the projects whose outputs are older than it.
Is(kind) == [kind |-> kind, newerThan |-> None, ref |-> None]

NewTask(p, entry, initial) ==
    [status |-> Is("none"), pending |-> TRUE, errors |-> FALSE, resolved |-> config[p],
     buildInfo |-> entry, initial |-> initial]

Inputs == {"text", "config", "dts"} \X Projects

TypeOK ==
    /\ text \in [Projects -> Texts] /\ config \in [Projects -> Configs]
    /\ \A p \in Projects : out[p] = None \/ out[p].text \in Texts
    /\ newer \in [Projects -> SUBSET Inputs] /\ late \subseteq Projects
    /\ task \in [Projects -> [status : Status, pending : BOOLEAN, errors : BOOLEAN,
                              resolved : Configs, buildInfo : BOOLEAN, initial : BOOLEAN]]
    /\ phase \in {"off", "idle", "draining", "building"}
    /\ next \in 1..(Len(Order) + 1) /\ reported \in 1..(Len(Order) + 1)
    /\ done \cup built \cup result \cup shown \subseteq Projects
    /\ unsent \cup changed \subseteq Inputs

\* What a goroutine is doing with a project.
Idle == [pc |-> "idle", text |-> None, config |-> None, deps |-> None]

\* Before the first cycle: nothing is built yet, or everything is.
Init ==
    /\ \E t \in Texts : t.ok /\ text = [p \in Projects |-> t]
    /\ config = [p \in Projects |-> CHOOSE c \in Configs : c # "missing"]
    /\ \/ out = [p \in Projects |-> None]
       \/ out = [p \in Projects |-> [text |-> text[p], config |-> config[p],
                                     deps |-> [r \in Upstream(p) |-> text[r].dts]]]
    /\ newer = [p \in Projects |-> {}] /\ late = {}
    /\ task = [p \in Projects |-> NewTask(p, FALSE, TRUE)]
    /\ phase = "off" /\ next = 1 /\ reported = 1 /\ work = [p \in Projects |-> Idle]
    /\ done = {} /\ built = {} /\ result = {} /\ shown = {}
    /\ unsent = {} /\ changed = {} /\ overflow = FALSE /\ signal = FALSE /\ watching = FALSE
    /\ edits = 0 /\ crashed = FALSE
-----------------------------------------------------------------------------
(* The user and the file watcher.                                           *)

Users(p) == {q \in Projects : p \in Upstream(q)}

\* Nothing is watched before the end of the first cycle.
Changed(kind, p) ==
    /\ edits < MaxEdits /\ edits' = edits + 1
    /\ newer' = [q \in Projects |-> IF q = p \/ (kind = "text" /\ q \in Users(p))
                                    THEN newer[q] \cup {<<kind, p>>} ELSE newer[q]]
    /\ late' = IF phase = "building" /\ ~watching THEN late \cup {p} ELSE late
    /\ unsent' = IF watching THEN unsent \cup {<<kind, p>>} ELSE unsent
    /\ UNCHANGED <<out, task, run, changed, overflow, signal, watching, crashed>>

\* Saved, perhaps without a change.
EditText(p) ==
    /\ \E t \in Texts : text' = [text EXCEPT ![p] = t]
    /\ Changed("text", p) /\ UNCHANGED config

EditConfig(p) ==
    /\ \E c \in Configs \ {config[p]} : config' = [config EXCEPT ![p] = c]
    /\ Changed("config", p) /\ UNCHANGED text

\* onWatchEvents.
Deliver ==
    /\ \E e \in unsent : unsent' = unsent \ {e} /\ changed' = changed \cup {e}
    /\ signal' = TRUE
    /\ UNCHANGED <<disk, task, run, overflow, watching, edits, crashed>>

\* The system's queue overflows: events are lost.
Overflow ==
    /\ unsent # {}
    /\ unsent' = {} /\ overflow' = TRUE /\ signal' = TRUE
    /\ UNCHANGED <<disk, task, run, changed, watching, edits, crashed>>
-----------------------------------------------------------------------------
(* A cycle.                                                                 *)

Depth[p \in Projects] ==
    IF Refs[p] = <<>> THEN 0 ELSE 1 + Max({Depth[r] : r \in Upstream(p)})

Position(p) == CHOOSE i \in DOMAIN Order : Order[i] = p

\* BUG: those that depend on most are taken first.
BadScheduleOrder == Reverse(Order)

Before(p, q) == Depth[p] < Depth[q] \/ (Depth[p] = Depth[q] /\ Position(p) < Position(q))

\* computeScheduleOrder, a stable sort.
ScheduleOrder ==
    [i \in 1..Len(Order) |-> CHOOSE p \in Projects : Cardinality({q \in Projects : Before(q, p)}) = i - 1]

\* buildOrCleanOrder, once the channels of the tasks in keep are left closed.
BeginBuild(keep) ==
    /\ phase' = "building" /\ next' = 1 /\ reported' = 1
    /\ done' = keep /\ built' = keep
    /\ shown' = {}
    /\ UNCHANGED <<work, result>>

Start ==
    /\ phase = "off"
    /\ task' = [p \in Projects |-> NewTask(p, FALSE, TRUE)]
    /\ BeginBuild({})
    /\ UNCHANGED <<disk, watch, edits, crashed>>

Wake ==
    /\ phase = "idle" /\ signal
    /\ signal' = FALSE /\ phase' = "draining"
    /\ UNCHANGED <<disk, task, next, reported, work, done, built, result, shown, unsent, changed,
                   overflow, watching, edits, crashed>>

ResetStatus(t) == [t EXCEPT !.status = Is("none"), !.pending = TRUE, !.errors = FALSE]

\* resetConfig: every task whose configuration may have changed.
Dirty == IF overflow THEN Projects ELSE {p \in Projects : <<"config", p>> \in changed}

\* The declaration files that a project was built with are among the files of its .tsbuildinfo.
UsesDts(p) == {r \in Upstream(p) : out[p] # None /\ out[p].deps[r] # None}

\* checkTasksForEventChanges.
Affected ==
    {p \in Projects \ Dirty :
        /\ task[p].resolved # "missing"
        /\ <<"text", p>> \in changed \/ \E r \in UsesDts(p) : <<"dts", r>> \in changed}

\* GenerateGraphReusingOldTasks replaces the dirty tasks.
Regenerated(p) ==
    IF p \in Dirty THEN NewTask(p, task[p].buildInfo, FALSE)
    ELSE IF p \in Affected THEN ResetStatus(task[p])
    ELSE task[p]

\* A cycle whose events concern nobody ends at once.  The channels of all tasks are new when
\* the graph is, otherwise those of the tasks that have a configuration.
Drain ==
    /\ phase = "draining"
    /\ changed' = {} /\ overflow' = FALSE
    /\ task' = [p \in Projects |-> Regenerated(p)]
    /\ IF Dirty \cup Affected = {}
       THEN phase' = "idle" /\ UNCHANGED <<next, reported, work, done, built, result, shown>>
       ELSE BeginBuild(IF Dirty # {} THEN {} ELSE {p \in Projects : task[p].resolved = "missing"})
    /\ UNCHANGED <<disk, unsent, signal, watching, edits, crashed>>
-----------------------------------------------------------------------------
(* Is a project up to date?  (getUpToDateStatus)                            *)

Dts(r) == IF out[r] = None THEN None ELSE out[r].text.dts

IsError(s) == s.kind \in {"configFileNotFound", "buildErrors", "upstreamErrors"}
IsPseudoBuild(s) == s.kind \in {"upToDateWithUpstreamTypes", "upToDateWithInputFileText"}

Output(t, c, deps) == [text |-> t, config |-> c, deps |-> deps]
HasErrors(o) == ~o.text.ok \/ \E r \in DOMAIN o.deps : o.deps[r] = None

\* BUG: nothing new, nothing to report.
BadRecordsErrors(p) == FALSE

RecordsErrors(p) == HasErrors(out[p])

TextChanged(p) == <<"text", p>> \in newer[p] /\ out[p].text # text[p]
DtsChanged(p) == {r \in UsesDts(p) : <<"dts", r>> \in newer[p] /\ out[p].deps[r] # Dts(r)}

TextUnchanged(p) ==
    \/ <<"text", p>> \in newer[p] /\ out[p].text = text[p]
    \/ \E r \in UsesDts(p) : <<"dts", r>> \in newer[p] /\ out[p].deps[r] = Dts(r)

\* References whose newest input is not known to be older than the outputs.
Suspects(p) == {r \in Upstream(p) : task[r].status.newerThan = None \/ p \in task[r].status.newerThan}

\* getLatestChangedDtsMTime of a reference that has never read its .tsbuildinfo.
AsksNothing(p) == \E r \in Suspects(p) : ~task[r].buildInfo

Newest(p) == {q \in Projects : <<"text", p>> \in newer[q]}

FailedRef(p) == Refs[p][Min({i \in DOMAIN Refs[p] : IsError(task[Refs[p][i]].status)})]

UpToDateStatus(p) ==
    IF task[p].status.kind # "none" THEN task[p].status
    ELSE IF task[p].resolved = "missing" THEN Is("configFileNotFound")
    ELSE IF StopBuildOnErrors /\ \E r \in Upstream(p) : IsError(task[r].status)
            THEN [Is("upstreamErrors") EXCEPT !.ref = FailedRef(p)]
    ELSE IF out[p] = None THEN Is("outputMissing")
    ELSE IF RecordsErrors(p) THEN Is("outOfDateBuildInfoWithErrors")
    ELSE IF \/ TextChanged(p) \/ DtsChanged(p) # {}
            \/ \E r \in Suspects(p) : <<"dts", r>> \in newer[p]
            \/ <<"config", p>> \in newer[p] THEN Is("inputFileNewer")
    ELSE [Is(IF Suspects(p) # {} THEN "upToDateWithUpstreamTypes"
             ELSE IF TextUnchanged(p) THEN "upToDateWithInputFileText"
             ELSE "upToDate") EXCEPT !.newerThan = Newest(p)]

\* Whether that ends in the loop over the references.
ReachesRefs(p) ==
    /\ task[p].status.kind = "none" /\ task[p].resolved # "missing"
    /\ ~(StopBuildOnErrors /\ \E r \in Upstream(p) : IsError(task[r].status))
    /\ out[p] # None /\ ~RecordsErrors(p) /\ ~TextChanged(p) /\ DtsChanged(p) = {}
-----------------------------------------------------------------------------
(* Building a project.                                                      *)

Busy == {p \in Projects : work[p].pc # "idle"}

\* A goroutine that is free takes the next task of the schedule.
Take ==
    /\ phase = "building" /\ next <= Len(Order) /\ Cardinality(Busy) < Builders
    /\ work' = [work EXCEPT ![ScheduleOrder[next]].pc = "waiting"]
    /\ result' = result \cup {ScheduleOrder[next]}
    /\ next' = next + 1
    /\ UNCHANGED <<disk, task, phase, reported, done, built, shown, watch, edits, crashed>>

\* BUG: references are not waited for.
BadUpstreamDone(p) == TRUE

\* waitOnUpstream; a task without a configuration has no references.
UpstreamDone(p) == task[p].resolved = "missing" \/ Upstream(p) \subseteq done

Goto(p, pc) == work' = [work EXCEPT ![p].pc = pc]

\* buildProject, up to where it compiles or touches the outputs.
Check(p) ==
    LET s == UpToDateStatus(p)
    IN  /\ work[p].pc = "waiting" /\ UpstreamDone(p)
        /\ \/ /\ ~task[p].pending
              /\ Goto(p, "ending")
              /\ UNCHANGED task
           \/ /\ task[p].pending /\ s.kind \in {"configFileNotFound", "upstreamErrors", "upToDate"}
              /\ task' = [task EXCEPT ![p].status = s, ![p].errors = @ \/ s.kind = "configFileNotFound",
                                      ![p].buildInfo = @ \/ (task[p].status.kind = "none" /\ s.kind = "upToDate")]
              /\ Goto(p, "ending")
           \/ /\ task[p].pending /\ IsPseudoBuild(s)
              /\ task' = [task EXCEPT ![p].status = s, ![p].buildInfo = TRUE]
              /\ Goto(p, "touching")
           \/ /\ task[p].pending
              /\ s.kind \in {"buildErrors", "outputMissing", "inputFileNewer", "outOfDateBuildInfoWithErrors"}
              /\ task' = [task EXCEPT ![p].status = s, ![p].errors = FALSE, ![p].buildInfo = TRUE]
              /\ work' = [work EXCEPT ![p] =
                    [pc |-> "compiling", text |-> text[p], config |-> task[p].resolved,
                     deps |-> [r \in Upstream(p) |-> Dts(r)]]]
        /\ crashed' = (crashed \/ (task[p].pending /\ ReachesRefs(p) /\ AsksNothing(p)))
        /\ UNCHANGED <<disk, phase, next, reported, done, built, result, shown, watch, edits>>

\* Writing the .tsbuildinfo makes it newer than everything.
Written(t, p) ==
    [q \in Projects |-> [t[q] EXCEPT !.status.newerThan = IF @ = None THEN None ELSE @ \ {p}]]

\* It is now newer than a change that it may not contain.
Overtaken(p, o) ==
    IF o.text = text[p] /\ o.config = config[p] THEN late \ {p} ELSE late \cup {p}

Touch(p) ==
    /\ work[p].pc = "touching"
    /\ newer' = [newer EXCEPT ![p] = {}]
    /\ late' = Overtaken(p, out[p])
    /\ task' = Written([task EXCEPT ![p].status.kind = "upToDate"], p)
    /\ Goto(p, "ending")
    /\ UNCHANGED <<text, config, out, phase, next, reported, done, built, result, shown,
                   watch, edits, crashed>>

\* BUG: the outputs of who was up to date are touched even if the declaration file differs.
BadDownstreamStatus(s, p, dtsChanged) ==
    CASE s.kind = "upToDate" -> [s EXCEPT !.kind = "upToDateWithUpstreamTypes"]
      [] s.kind = "upstreamErrors" /\ s.ref = p -> Is("none")
      [] OTHER -> s

\* updateDownstream, for one that references p.
DownstreamStatus(s, p, dtsChanged) ==
    CASE s.kind = "upToDate" /\ ~dtsChanged -> [s EXCEPT !.kind = "upToDateWithUpstreamTypes"]
      [] s.kind \in {"upToDate", "upToDateWithUpstreamTypes", "upToDateWithInputFileText"} /\ dtsChanged ->
            Is("inputFileNewer")
      [] s.kind = "upstreamErrors" /\ s.ref = p -> Is("none")
      [] OTHER -> s

Downstream(p) == {q \in Users(p) : task[q].resolved # "missing"}

UpdateDownstream(t, p, dtsChanged) ==
    IF t[p].initial \/ (StopBuildOnErrors /\ IsError(t[p].status)) THEN t
    ELSE [q \in Projects |->
            IF q \in Downstream(p)
            THEN [t[q] EXCEPT !.status = DownstreamStatus(@, p, dtsChanged), !.pending = TRUE,
                              !.errors = @ /\ ~(t[q].status.kind = "upstreamErrors" /\ t[q].status.ref = p)]
            ELSE t[q]]

\* compileAndEmit: a declaration file is written when it differs, the .tsbuildinfo unless an
\* unchanged program repeats its errors.
Emit(p) ==
    LET w == work[p]
        o == Output(w.text, w.config, w.deps)
        dtsChanged == Dts(p) # o.text.dts
        unchanged == o = out[p] /\ task[p].status.kind = "outOfDateBuildInfoWithErrors"
        built1 == [task EXCEPT ![p].errors = HasErrors(o), ![p].buildInfo = TRUE,
                               ![p].status = Is(IF HasErrors(o) THEN "buildErrors" ELSE "upToDate")]
    IN  /\ w.pc = "compiling"
        /\ out' = [out EXCEPT ![p] = o]
        /\ late' = Overtaken(p, o)
        /\ newer' = [q \in Projects |->
              IF q = p THEN (IF unchanged THEN newer[p] ELSE {})
              ELSE IF q \in Users(p) /\ dtsChanged THEN newer[q] \cup {<<"dts", p>>} ELSE newer[q]]
        /\ task' = UpdateDownstream(IF unchanged THEN built1 ELSE Written(built1, p), p, dtsChanged)
        /\ unsent' = IF watching /\ dtsChanged THEN unsent \cup {<<"dts", p>>} ELSE unsent
        /\ Goto(p, "ending")
        /\ UNCHANGED <<text, config, phase, next, reported, done, built, result, shown,
                       changed, overflow, signal, watching, edits, crashed>>

\* unblockDownstream, then the result may be reported.  Closing a channel twice panics.
End(p) ==
    /\ work[p].pc = "ending"
    /\ task' = [task EXCEPT ![p].pending = FALSE, ![p].initial = FALSE]
    /\ done' = done \cup {p} /\ built' = built \cup {p}
    /\ crashed' = (crashed \/ p \in done \/ p \in built)
    /\ work' = [work EXCEPT ![p] = Idle]
    /\ UNCHANGED <<disk, phase, next, reported, result, shown, watch, edits>>

\* The reporting goroutine goes through the build order; without a result it panics.
Report ==
    LET p == Order[reported]
    IN  /\ phase = "building" /\ reported <= Len(Order) /\ p \in built
        /\ shown' = IF task[p].errors THEN shown \cup {p} ELSE shown
        /\ crashed' = (crashed \/ p \notin result)
        /\ result' = result \ {p}
        /\ reported' = reported + 1
        /\ UNCHANGED <<disk, task, phase, next, work, done, built, watch, edits>>

\* The watches are brought up to date.
EndCycle ==
    /\ phase = "building" /\ reported > Len(Order) /\ next > Len(Order) /\ Busy = {}
    /\ phase' = "idle" /\ watching' = TRUE
    /\ UNCHANGED <<disk, task, next, reported, work, done, built, result, shown, unsent, changed,
                   overflow, signal, edits, crashed>>
-----------------------------------------------------------------------------
Build(p) == Check(p) \/ Touch(p) \/ Emit(p) \/ End(p)

User == \E p \in Projects : EditText(p) \/ EditConfig(p)

Next ==
    \/ User
    \/ Deliver
    \/ Overflow
    \/ Start
    \/ Wake
    \/ Drain
    \/ Take
    \/ \E p \in Projects : Build(p)
    \/ Report
    \/ EndCycle

\* Goroutines run, and the system reports what it has seen.
Fairness ==
    /\ WF_vars(Deliver) /\ WF_vars(Wake) /\ WF_vars(Drain)
    /\ WF_vars(Take) /\ \A p \in Projects : WF_vars(Build(p))
    /\ WF_vars(Report) /\ WF_vars(EndCycle)

Spec == Init /\ [][Next]_vars /\ Fairness
-----------------------------------------------------------------------------
\* Every change has been seen and dealt with.
Quiet == phase = "idle" /\ unsent = {} /\ changed = {} /\ ~overflow

Wanted(p) == Output(text[p], config[p], [r \in Upstream(p) |-> Dts(r)])

(* When nothing is left to do, every project is built from its present source, configuration   *)
(* and the present declaration files of its references, whatever was skipped, touched or       *)
(* postponed on the way, if it was not changed while it was being built                        *)
(* (getUpToDateStatus, updateDownstream, checkTasksForEventChanges).                           *)
AllCurrent == Quiet => \A p \in Projects \ late : out[p] = Wanted(p)

(* The same for what the watcher's summary says: it counts the errors of all projects, of      *)
(* those that this cycle did not touch as well (report, resetStatus).                          *)
ErrorsShown == Quiet => \A p \in Projects \ late : p \in shown <=> HasErrors(Wanted(p))

(* Nothing that a project is compiled with changes under it: its references are finished, and  *)
(* are not taken up again (waitOnUpstream, rangeTasks).                                        *)
RefsStable ==
    [][\A p \in Projects : work[p].pc = "compiling" =>
          \A r \in Upstream(p) : out'[r] = out[r]]_vars

(* Each cycle ends, and the build's own output does not keep it going: when the user stops,    *)
(* so does the watcher (computeScheduleOrder, buildOrCleanOrder).                              *)
Settles == <>[](phase = "off" \/ Quiet)

(* A project is skipped only as long as a reference has errors (updateDownstream).             *)
SkippedHasReason ==
    Quiet => \A p \in Projects : task[p].status.kind = "upstreamErrors" =>
                                    IsError(task[task[p].status.ref].status)

(* No change of the files brings the watcher down (unblockDownstream, report).                 *)
NoPanic == ~crashed
=============================================================================
