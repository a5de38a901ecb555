---------------------------- MODULE ApiSessions ----------------------------
(***************************************************************************)
(* API clients connected to a language server (api/session.go,             *)
(* project/api.go).  A client keeps handles of snapshots, which it may     *)
(* extend in private, and resources in the server's own snapshot: opened   *)
(* projects and files, which are counted over all clients, and synthetic   *)
(* programs, which it owns.  Requests of one client run concurrently and   *)
(* its connection may end at any moment.                                   *)
(*                                                                         *)
(* One configured project with one file shows how the clients share it.    *)
(* A handle stands for one reference to its snapshot; what references do   *)
(* is the subject of SnapshotLifecycle.                                    *)
(***************************************************************************)
EXTENDS Naturals, FiniteSets

CONSTANTS Clients,
          Requests,         \* bound: requests in progress at once
          UpdateAsks,       \* the changes a client may ask for of the server's snapshot
          DeriveAsks,       \* and of a private one
          MaxId,            \* bound: synthetic programs
          MaxHandles,       \* bound: handles of all clients
          None

Ids == 1..MaxId
Handles == 1..MaxHandles
Ops == {"openProject", "closeProject", "openFile", "closeFile", "create"}
Ask == [ops : SUBSET Ops, remove : SUBSET Ids]

ASSUME AskShape == UpdateAsks \cup DeriveAsks \subseteq Ask
ASSUME FiniteAssumption == IsFiniteSet(Clients) /\ IsFiniteSet(Requests)
ASSUME BoundsAssumption == MaxId \in Nat /\ MaxHandles \in Nat
ASSUME NoneAssumption == None \notin Clients \cup Requests \cup Handles

VARIABLES canon,            \* the contents of Session.snapshot, the server's own
          open,             \* the file is open in the editor
          pending,          \* Session.pendingFileChanges: its close has been noted
          overlay,          \* overlayFS.overlays, with the changes that were flushed
          updateMu,         \* the request that holds Session.snapshotUpdateMu
          conn,             \* the state of each client's connection
          own,              \* openProjects, openFiles, createdPrograms of each client
          lsMu,             \* the request that holds languageServerUpdateMu
          sd,               \* each client's snapshots map
          held,             \* the handles a client has not released
          req,              \* the requests in progress
          crashed           \* the process has panicked

vars == <<canon, open, pending, overlay, updateMu, conn, own, lsMu, sd, held, req, crashed>>

Snapshot == [count : 0..Cardinality(Clients), files : 0..Cardinality(Clients),
             loaded : BOOLEAN, overlay : BOOLEAN, progs : SUBSET Ids, broken : SUBSET Ids]
Empty == [count |-> 0, files |-> 0, loaded |-> FALSE, overlay |-> FALSE,
          progs |-> {}, broken |-> {}]

Opens == [project : BOOLEAN, file : BOOLEAN]
NoOpens == [project |-> FALSE, file |-> FALSE]

\* An entry of a snapshots map: snapshotData with its refCount, 0 when there is none.
Entry == [refCount : Nat, snapshot : Snapshot, opens : Opens]
NoEntry == [refCount |-> 0, snapshot |-> Empty, opens |-> NoOpens]

NoRequest == [pc |-> "idle", client |-> None, base |-> None,
              ask |-> [ops |-> {}, remove |-> {}], opens |-> NoOpens,
              flushed |-> FALSE, created |-> {}, snapshot |-> Empty, handle |-> None]

TypeOK ==
    /\ canon \in Snapshot
    /\ open \in BOOLEAN /\ pending \in BOOLEAN /\ overlay \in BOOLEAN
    /\ updateMu \in Requests \cup {None}
    /\ conn \in [Clients -> {"open", "closing", "closed", "kept"}]
    /\ own \in [Clients -> [project : BOOLEAN, file : BOOLEAN, progs : SUBSET Ids]]
    /\ lsMu \in [Clients -> Requests \cup {None}]
    /\ sd \in [Clients -> [Handles -> Entry]]
    /\ held \in [Clients -> SUBSET Handles]
    /\ req \in [Requests ->
          [pc : {"idle", "ready", "building", "adopted", "deriving", "done"},
           client : Clients \cup {None}, base : Handles \cup {None}, ask : Ask, opens : Opens,
           flushed : BOOLEAN, created : SUBSET Ids, snapshot : Snapshot, handle : Handles \cup {None}]]
    /\ crashed \in BOOLEAN

NothingOwned == [project |-> FALSE, file |-> FALSE, progs |-> {}]

Init ==
    /\ canon = Empty
    /\ open = FALSE /\ pending = FALSE /\ overlay = FALSE
    /\ updateMu = None
    /\ conn = [c \in Clients |-> "open"]
    /\ own = [c \in Clients |-> NothingOwned]
    /\ lsMu = [c \in Clients |-> None]
    /\ sd = [c \in Clients |-> [h \in Handles |-> NoEntry]]
    /\ held = [c \in Clients |-> {}]
    /\ req = [r \in Requests |-> NoRequest]
    /\ crashed = FALSE
-----------------------------------------------------------------------------
(* Building a snapshot.                                                     *)

\* The project is the default of an open file or opened by a client.
Needed(c) == c.overlay \/ c.files > 0 \/ c.count > 0

Cleanup(c) == [c EXCEPT !.loaded = @ /\ Needed(c)]

\* A snapshot that is built from the overlays o.
Flushed(c, o) == [c EXCEPT !.overlay = o]

OpenedProject(c, ops) ==
    LET closed == [c EXCEPT !.count = IF "closeProject" \in ops /\ @ > 0 THEN @ - 1 ELSE @]
    IN  IF "openProject" \in ops THEN [closed EXCEPT !.count = @ + 1, !.loaded = TRUE]
                                 ELSE closed

OpenedFiles(c, ops) ==
    LET closed == [c EXCEPT !.files = IF "closeFile" \in ops /\ @ > 0 THEN @ - 1 ELSE @]
    IN  IF "openFile" \in ops THEN [closed EXCEPT !.files = @ + 1] ELSE closed

\* BUG: the files that need the project are not asked.
BadUnloaded(c, ops) ==
    IF "closeProject" \in ops /\ c.count = 0 THEN [c EXCEPT !.loaded = FALSE] ELSE c

\* A project whose last open is closed goes, unless a file still needs it.
Unloaded(c, ops) ==
    IF "closeProject" \in ops /\ c.count = 0 THEN Cleanup(c) ELSE c

Placed(c, ops) ==
    IF "openFile" \in ops THEN Cleanup([c EXCEPT !.loaded = TRUE])
    ELSE IF "closeFile" \in ops THEN Cleanup(c)
    ELSE c

SmallestFree(progs) == CHOOSE i \in Ids \ progs : \A j \in Ids \ progs : i <= j

Created(c, ask) ==
    IF "create" \in ask.ops THEN {SmallestFree(c.progs \ ask.remove)} ELSE {}

\* HandleAPIRequest, when it ends without an error.
Applied(c, ask) ==
    LET p == Placed(Unloaded(OpenedFiles(OpenedProject(c, ask.ops), ask.ops), ask.ops), ask.ops)
    IN  [p EXCEPT !.progs = (@ \ ask.remove) \cup Created(c, ask), !.broken = @ \ ask.remove]

\* BUG: a program that is removed may still refuse the request.
BadRejects(c, ask) == ~(ask.remove \subseteq c.progs) \/ c.broken # {}

\* The errors that do not depend on the outside: a program to remove is not there, or the
\* resolver of a program that stays has failed.
Rejects(c, ask) == ~(ask.remove \subseteq c.progs) \/ c.broken \ ask.remove # {}

\* What may fail beyond that: a project or root file is not there, a resolver fails.
CanFail(ask) == ask.ops \cap {"openProject", "openFile", "create"} # {}

-----------------------------------------------------------------------------
(* The editor.  Its updates take snapshotUpdateMu, flush and adopt.         *)

\* flushChanges: who holds snapshotUpdateMu takes what is pending and processes it.
Processed == overlay /\ ~pending

Flush ==
    /\ overlay' = Processed
    /\ pending' = FALSE
    /\ UNCHANGED open

\* Noted and flushed in one go, with a close that is still pending.
OpenFile ==
    /\ updateMu = None /\ ~open
    /\ open' = TRUE /\ pending' = FALSE /\ overlay' = TRUE
    /\ canon' = Cleanup([canon EXCEPT !.overlay = TRUE, !.loaded = TRUE])
    /\ UNCHANGED <<updateMu, conn, own, lsMu, sd, held, req, crashed>>

\* Only noted, whoever holds snapshotUpdateMu; the next update flushes it.
CloseFile ==
    /\ open
    /\ open' = FALSE /\ pending' = TRUE
    /\ UNCHANGED <<canon, overlay, updateMu, conn, own, lsMu, sd, held, req, crashed>>

\* The update that a close schedules.
ScheduledUpdate ==
    /\ updateMu = None /\ pending
    /\ Flush
    /\ canon' = Flushed(canon, Processed)
    /\ UNCHANGED <<updateMu, conn, own, lsMu, sd, held, req, crashed>>

IdleClean ==
    /\ updateMu = None
    /\ Flush
    /\ canon' = Cleanup(Flushed(canon, Processed))
    /\ UNCHANGED <<updateMu, conn, own, lsMu, sd, held, req, crashed>>

\* Preparing auto imports for a file updates the synthetic programs that contain it and is
\* adopted in the background, whatever their resolvers answer.
AutoImports ==
    /\ updateMu = None
    /\ \E broken \in SUBSET canon.progs : canon' = [canon EXCEPT !.broken = broken]
    /\ UNCHANGED <<open, pending, overlay, updateMu, conn, own, lsMu, sd, held, req, crashed>>
-----------------------------------------------------------------------------
(* Requests.                                                                *)

\* Closes that are not the client's and opens that are already there are left out.
Reconciled(ops, st) ==
    ops \ ( (IF st.project THEN {} ELSE {"closeProject"})
       \cup (IF st.file THEN {} ELSE {"closeFile"})
       \cup (IF st.project /\ "closeProject" \notin ops THEN {"openProject"} ELSE {})
       \cup (IF st.file /\ "closeFile" \notin ops THEN {"openFile"} ELSE {}))

OpenState(ops, st) ==
    [project |-> "openProject" \in ops \/ (st.project /\ "closeProject" \notin ops),
     file |-> "openFile" \in ops \/ (st.file /\ "closeFile" \notin ops)]

InProgress == {r \in Requests : req[r].pc # "idle"}

\* Bounds: a handle for the answer of each request, and ids for the programs to create.
Creating == {r \in InProgress : "create" \in req[r].ask.ops}
InMap(c) == {h \in Handles : sd[c][h].refCount > 0}
Entries == {e \in Clients \X Handles : sd[e[1]][e[2]].refCount > 0}

Within(snapshot, ask) ==
    /\ Cardinality(Entries) + Cardinality(InProgress) < MaxHandles
    /\ "create" \in ask.ops => Cardinality(snapshot.progs) + Cardinality(Creating) < MaxId

\* BUG: any program may be removed.
BadOwned(c) == Ids

Owned(c) == own[c].progs
OwnOpens(c) == [project |-> own[c].project, file |-> own[c].file]

\* getCurrentLanguageServerSnapshot: under the client's own lock (who waits for it has done
\* nothing yet) what the client asks is reduced to what is new and what is its own.  The
\* snapshot that the answer is compared with is pinned just as that of a derived one.
BeginUpdate(r, c, ask) ==
    /\ req[r].pc = "idle" /\ conn[c] = "open"
    /\ Within(canon, ask)
    /\ lsMu[c] = None
    /\ lsMu' = [lsMu EXCEPT ![c] = r]
    /\ req' = [req EXCEPT ![r] =
          [NoRequest EXCEPT !.pc = "ready", !.client = c, !.opens = OpenState(ask.ops, OwnOpens(c)),
                            !.ask = [ops |-> Reconciled(ask.ops, OwnOpens(c)),
                                     remove |-> ask.remove \cap Owned(c)]]]
    /\ UNCHANGED <<canon, open, pending, overlay, updateMu, conn, own, sd, held, crashed>>

\* APIUpdate takes the session's lock and flushes, and keeps the lock while a resolver asks
\* the client; what the editor notes from now on is left to the next update.
TakeUpdate(r) ==
    /\ req[r].pc = "ready"
    /\ updateMu = None
    /\ updateMu' = r
    /\ Flush
    /\ req' = [req EXCEPT ![r].pc = "building", ![r].flushed = pending]
    /\ UNCHANGED <<canon, conn, own, lsMu, sd, held, crashed>>

\* How a request may end, TRUE for an error.
Outcomes(c, ask) ==
    IF Rejects(c, ask) THEN {TRUE} ELSE IF CanFail(ask) THEN BOOLEAN ELSE {FALSE}

\* A new program gets the id of one that the same request has removed.
Panics(c, ask) == Created(c, ask) \cap ask.remove # {}

\* BUG: whether there are host changes is asked when they have long been flushed.
BadRefused(flushed, o) == IF pending THEN Flushed(canon, o) ELSE canon

\* The host changes that were flushed with a refused request are adopted without it.
Refused(flushed, o) == IF flushed THEN Flushed(canon, o) ELSE canon

\* The update is built from the overlays that APIUpdate got when it flushed (only who holds
\* snapshotUpdateMu changes them) and adopted, or refused as a whole.
Build(r) ==
    LET c == Flushed(canon, overlay)
        q == req[r]
    IN  /\ q.pc = "building"
        /\ updateMu' = None
        /\ \/ /\ TRUE \in Outcomes(c, q.ask)
              /\ canon' = Refused(q.flushed, overlay)
              /\ req' = [req EXCEPT ![r] = NoRequest]
              /\ lsMu' = [lsMu EXCEPT ![q.client] = None]
              /\ UNCHANGED crashed
           \/ /\ FALSE \in Outcomes(c, q.ask)
              /\ canon' = Applied(c, q.ask)
              /\ req' = [req EXCEPT ![r].pc = "adopted", ![r].flushed = FALSE,
                                    ![r].snapshot = Applied(c, q.ask),
                                    ![r].created = Created(c, q.ask)]
              /\ crashed' = Panics(c, q.ask)
              /\ UNCHANGED lsMu
        /\ UNCHANGED <<open, pending, overlay, conn, own, sd, held>>

FreeHandle(c) == CHOOSE h \in Handles \ InMap(c) : TRUE

\* A client that is gone does not get the handle.
Given(c, h) == IF conn[c] = "open" THEN [held EXCEPT ![c] = @ \cup {h}] ELSE held

\* commit, then registerSnapshot; the client's lock is given back.
Commit(r) ==
    LET q == req[r]
        c == q.client
        h == FreeHandle(c)
    IN  /\ q.pc = "adopted"
        /\ own' = [own EXCEPT ![c] = [project |-> q.opens.project, file |-> q.opens.file,
                                      progs |-> (@.progs \ q.ask.remove) \cup q.created]]
        /\ sd' = [sd EXCEPT ![c][h] = [refCount |-> 1, snapshot |-> q.snapshot, opens |-> q.opens]]
        /\ lsMu' = [lsMu EXCEPT ![c] = None]
        /\ held' = Given(c, h)
        /\ req' = [req EXCEPT ![r] = NoRequest]
        /\ UNCHANGED <<canon, open, pending, overlay, updateMu, conn, crashed>>

\* createSnapshot and updateSnapshot: a private snapshot, from an empty one or from a base,
\* which is pinned meanwhile.
BeginDerive(r, c, b, ask) ==
    /\ req[r].pc = "idle" /\ conn[c] = "open"
    /\ b \in held[c] \cup {None}
    /\ Within(IF b = None THEN Empty ELSE sd[c][b].snapshot, ask)
    /\ req' = [req EXCEPT ![r] = [NoRequest EXCEPT !.pc = "deriving", !.client = c, !.base = b,
                                                  !.ask = ask]]
    /\ sd' = IF b = None THEN sd ELSE [sd EXCEPT ![c][b].refCount = @ + 1]
    /\ UNCHANGED <<canon, open, pending, overlay, updateMu, conn, own, lsMu, held, crashed>>

\* Only the base and the answer are still needed.
Answer(q, h) ==
    [NoRequest EXCEPT !.pc = "done", !.client = q.client, !.base = q.base, !.handle = h]

Derive(r) ==
    LET q == req[r]
        c == q.client
        h == FreeHandle(c)
        base == IF q.base = None THEN NoEntry ELSE sd[c][q.base]
        ask == [q.ask EXCEPT !.ops = Reconciled(@, base.opens)]
    IN  /\ q.pc = "deriving"
        /\ \/ /\ TRUE \in Outcomes(base.snapshot, ask)
              /\ req' = [req EXCEPT ![r] = Answer(q, None)]
              /\ UNCHANGED <<sd, crashed>>
           \/ /\ FALSE \in Outcomes(base.snapshot, ask)
              /\ sd' = [sd EXCEPT ![c][h] = [refCount |-> 1,
                                             snapshot |-> Applied(base.snapshot, ask),
                                             opens |-> OpenState(q.ask.ops, base.opens)]]
              /\ req' = [req EXCEPT ![r] = Answer(q, h)]
              /\ crashed' = Panics(base.snapshot, ask)
        /\ UNCHANGED <<canon, open, pending, overlay, updateMu, conn, own, lsMu, held>>

\* releaseSnapshot: the entry goes with its last reference.
Released(e) == IF e.refCount = 1 THEN NoEntry ELSE [e EXCEPT !.refCount = @ - 1]

\* The handler ends: its base is released and the client gets the handle.
End(r) ==
    LET q == req[r]
        c == q.client
    IN  /\ q.pc = "done"
        /\ sd' = IF q.base = None THEN sd ELSE [sd EXCEPT ![c][q.base] = Released(@)]
        /\ held' = IF q.handle = None THEN held ELSE Given(c, q.handle)
        /\ req' = [req EXCEPT ![r] = NoRequest]
        /\ UNCHANGED <<canon, open, pending, overlay, updateMu, conn, own, lsMu, crashed>>

\* The client releases a handle, perhaps while a request still uses the snapshot.
Release(c, h) ==
    /\ conn[c] = "open" /\ h \in held[c]
    /\ held' = [held EXCEPT ![c] = @ \ {h}]
    /\ sd' = [sd EXCEPT ![c][h] = Released(@)]
    /\ UNCHANGED <<canon, open, pending, overlay, updateMu, conn, own, lsMu, req, crashed>>
-----------------------------------------------------------------------------
(* The end of a connection.                                                 *)

\* The read loop ends: what waits for the client fails from now on.
Disconnect(c) ==
    /\ conn[c] = "open"
    /\ conn' = [conn EXCEPT ![c] = "closing"]
    /\ held' = [held EXCEPT ![c] = {}]
    /\ UNCHANGED <<canon, open, pending, overlay, updateMu, own, lsMu, sd, req, crashed>>

CloseAll(c) ==
    [ops |-> (IF own[c].project THEN {"closeProject"} ELSE {})
             \cup (IF own[c].file THEN {"closeFile"} ELSE {}),
     remove |-> own[c].progs]

\* When its handlers are done, the client's resources are released in one last update (they
\* stay if that is refused), then all of its handles, whatever their counts.
Close(c) ==
    LET s == Flushed(canon, Processed)
    IN  /\ conn[c] = "closing"
        /\ \A r \in InProgress : req[r].client # c
        /\ updateMu = None
        /\ \/ /\ own[c] = NothingOwned
              /\ conn' = [conn EXCEPT ![c] = "closed"]
              /\ UNCHANGED <<canon, open, pending, overlay, own>>
           \/ /\ own[c] # NothingOwned /\ Rejects(s, CloseAll(c))
              /\ Flush
              /\ canon' = Refused(pending, Processed)
              /\ conn' = [conn EXCEPT ![c] = "kept"]
              /\ UNCHANGED own
           \/ /\ own[c] # NothingOwned /\ ~Rejects(s, CloseAll(c))
              /\ Flush
              /\ canon' = Applied(s, CloseAll(c))
              /\ own' = [own EXCEPT ![c] = NothingOwned]
              /\ conn' = [conn EXCEPT ![c] = "closed"]
        /\ sd' = [sd EXCEPT ![c] = [h \in Handles |-> NoEntry]]
        /\ UNCHANGED <<updateMu, lsMu, held, req, crashed>>
-----------------------------------------------------------------------------
Request(r) ==
    \/ \E c \in Clients, ask \in UpdateAsks : BeginUpdate(r, c, ask)
    \/ \E c \in Clients, b \in Handles \cup {None}, ask \in DeriveAsks :
          BeginDerive(r, c, b, ask)
    \/ TakeUpdate(r)
    \/ Build(r)
    \/ Commit(r)
    \/ Derive(r)
    \/ End(r)

Client(c) ==
    \/ Disconnect(c)
    \/ Close(c)
    \/ \E h \in Handles : Release(c, h)

\* What would follow a panic is of no interest: the process is gone.
Next ==
    \/ OpenFile
    \/ CloseFile
    \/ ScheduledUpdate
    \/ IdleClean
    \/ AutoImports
    \/ \E r \in Requests : Request(r)
    \/ \E c \in Clients : Client(c)

\* Handlers run; a mutex is handed to every waiter in turn; a client that a resolver asks
\* answers or its connection ends.
Fairness ==
    /\ \A r \in Requests : WF_vars(Build(r) \/ Commit(r) \/ Derive(r) \/ End(r))
    /\ \A r \in Requests : SF_vars(TakeUpdate(r))
    /\ \A c \in Clients : SF_vars(Close(c))

Spec == Init /\ [][Next]_vars /\ Fairness
-----------------------------------------------------------------------------
Adopted(c) == {r \in Requests : req[r].pc = "adopted" /\ req[r].client = c}

\* What a client has in the server's snapshot, its adopted request included.
HasProject(c) == IF Adopted(c) = {} THEN own[c].project
                 ELSE \E r \in Adopted(c) : req[r].opens.project
HasFile(c) == IF Adopted(c) = {} THEN own[c].file ELSE \E r \in Adopted(c) : req[r].opens.file
HasPrograms(c) ==
    (own[c].progs \ UNION {req[r].ask.remove : r \in Adopted(c)})
        \cup UNION {req[r].created : r \in Adopted(c)}

(* The server's snapshot counts the project and the file once for every client that has them   *)
(* open, whatever was retried, refused, asked twice or lost with a connection (the counts of   *)
(* HandleAPIRequest and the clients' own sets, reconcileSnapshotOpens).                        *)
OpensCounted ==
    /\ canon.count = Cardinality({c \in Clients : HasProject(c)})
    /\ canon.files = Cardinality({c \in Clients : HasFile(c)})

(* Every synthetic program of the server's snapshot belongs to exactly one client: nobody      *)
(* removes the program of another, and none is forgotten (toLanguageServerSnapshotUpdate,      *)
(* commit).                                                                                    *)
ProgramsOwned ==
    /\ canon.progs = UNION {HasPrograms(c) : c \in Clients}
    /\ \A c, d \in Clients : c = d \/ HasPrograms(c) \cap HasPrograms(d) = {}

(* A project that is opened, or whose file is, stays loaded in the server's snapshot and in    *)
(* every snapshot that a client holds, and a handle knows of no more opens than its snapshot   *)
(* holds (cleanupConfiguredProjects, registerSnapshot).                                        *)
OpenStaysLoaded ==
    /\ Needed(canon) => canon.loaded
    /\ \A c \in Clients, h \in Handles :
          LET e == sd[c][h]
          IN  /\ Needed(e.snapshot) => e.snapshot.loaded
              /\ e.opens.project => e.snapshot.count > 0
              /\ e.opens.file => e.snapshot.files > 0

Using(c, h) == {r \in InProgress : req[r].client = c /\ req[r].base = h}
Answering(c, h) == {r \in InProgress : req[r].client = c /\ req[r].handle = h}

(* The snapshot of a handle is there as long as the client holds the handle or a request       *)
(* extends it, and no longer: its count is exact (retainSnapshotData, releaseSnapshot).        *)
HandlesExact ==
    \A c \in Clients, h \in Handles :
        conn[c] = "open" =>
           sd[c][h].refCount = (IF h \in held[c] THEN 1 ELSE 0)
                               + Cardinality(Using(c, h)) + Cardinality(Answering(c, h))

(* What is counted is what is there: opens, synthetic programs and snapshots.                  *)
CountsExact == OpensCounted /\ ProgramsOwned /\ HandlesExact

(* Nothing that the editor reports is lost: a change that is no longer pending is in the       *)
(* server's snapshot, unless an update that has flushed it is still being built.  A refused    *)
(* request does not take the changes with it that were flushed before it was built, and what   *)
(* is noted while a resolver is asked stays pending (APIUpdate, flushChanges).                 *)
HostChangesKept == pending \/ updateMu # None \/ canon.overlay = open

(* The last update of a client can be refused only because the resolver of a program of        *)
(* another client has failed: what it releases is always there (releaseLanguageServerRefs      *)
(* ignores an error and keeps everything).                                                     *)
KeptOnlyByOthers ==
    [][\A c \in Clients : conn[c] = "closing" /\ conn'[c] = "kept" =>
          \E d \in Clients \ {c} : HasPrograms(d) \cap canon.broken # {}]_vars

(* A connection that ends is closed in the end, whatever its handlers wait for                 *)
(* (closePendingCalls, Run, Close).                                                            *)
CloseEnds == \A c \in Clients : conn[c] = "closing" ~> conn[c] \in {"closed", "kept"}

(* No legal request brings the process down (HandleAPIRequest).                                *)
NoPanic == ~crashed
=============================================================================
