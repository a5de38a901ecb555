----------------------- MODULE SessionSchedulingProofs -----------------------
(***************************************************************************)
(* For any number of goroutines, debounced tasks and timers, and whatever  *)
(* is changed: a waiting update that was not canceled can be canceled, a   *)
(* flushed change is never lost, a change that scheduled an update is      *)
(* flushed, a request sees what was there when it asked, and Close leaves  *)
(* nobody behind.                                                          *)
(***************************************************************************)
EXTENDS SessionScheduling, FiniteSetTheorems, TLAPS

-----------------------------------------------------------------------------
(* The table of steps.                                                          *)

\* A step called name comes before the i-th one.
Before(s, i, name) == \E j \in DOMAIN s : j < i /\ s[j] = name

\* The i-th step of an operation fits the others: an update follows the flush and
\* recovers only from itself, the lock is taken before and given back at the end, and
\* Close has waited for the callbacks and the tasks before it is done.
Fits(op, s, i) ==
  /\ s[i] = "flush" => i + 1 <= Len(s) /\ s[i + 1] = "update"
  /\ s[i] = "flush" /\ op \in {"task", "request"} => i + 2 <= Len(s) /\ s[i + 2] = "unlock"
  /\ s[i] = "update" /\ op = "api" =>
       i + 2 <= Len(s) /\ s[i + 1] = "recover" /\ s[i + 2] = "unlock"
  /\ s[i] = "recover" => op = "api" /\ i > 1 /\ s[i - 1] = "update"
  /\ s[i] \in {"unlock", "final"} => i = Len(s)
  /\ s[i] = "check" => i = 1 /\ op = "task"
  /\ s[i] = "armed" => i = 1
  /\ s[i] = "final" => op = "shutdown"
  /\ s[i] \in {"arm", "schedule", "waitIdle", "waitQueue"} => op \notin {"task", "idle"}
  /\ s[i] \in {"arm", "schedule", "waitIdle", "waitQueue", "lock", "stopIdle", "read"} =>
       ~Before(s, i, "lock")
  /\ s[i] = "lock" => i # Len(s)
  /\ s[i] = "update" /\ op # "options" => Before(s, i, "lock")
  /\ i = Len(s) /\ op \in {"task", "idle"} => s[i] = "unlock"
  /\ i = Len(s) /\ Before(s, i, "lock") => s[i] \in {"unlock", "final"}
  /\ s[i] \in {"flush", "recover", "unlock", "final"} => Before(s, i, "lock")
  /\ s[i] = "waitIdle" => Before(s, i, "stopIdle")
  /\ s[i] = "waitQueue" => Before(s, i, "stopQueue")
  /\ s[i] = "final" => /\ Before(s, i, "stopIdle") /\ Before(s, i, "waitIdle")
                       /\ Before(s, i, "stopQueue") /\ Before(s, i, "waitQueue")
WellOrdered(op, s) ==
  /\ Len(s) \in Nat /\ DOMAIN s = 1 .. Len(s)
  /\ \A i \in 1 .. Len(s) : Fits(op, s, i)

LEMMA StepsWellOrdered == \A op : WellOrdered(op, Steps(op))
<1> SUFFICES ASSUME NEW op PROVE WellOrdered(op, Steps(op))
  OBVIOUS
<1>1. CASE op = "open"
  <2>1. Steps(op) = <<"arm", "cancel", "lock", "flush", "update", "unlock">>
    BY <1>1 DEF Steps, CloseSteps, DidCloseFileSteps
  <2>2. Len(Steps(op)) = 6 /\ DOMAIN Steps(op) = 1 .. 6
    BY <2>1
  <2>3. /\ Steps(op)[1] = "arm"
        /\ Steps(op)[2] = "cancel"
        /\ Steps(op)[3] = "lock"
        /\ Steps(op)[4] = "flush"
        /\ Steps(op)[5] = "update"
        /\ Steps(op)[6] = "unlock"
    BY <2>1
  <2>4. /\ Before(Steps(op), 4, "lock")
        /\ Before(Steps(op), 5, "lock")
        /\ Before(Steps(op), 6, "lock")
        /\ ~Before(Steps(op), 1, "lock")
        /\ ~Before(Steps(op), 3, "lock")
    BY <2>2, <2>3 DEF Before
  <2>5. ASSUME NEW i \in 1 .. 6 PROVE Fits(op, Steps(op), i)
    <3>1. CASE i = 1
      BY <1>1, <2>2, <2>3, <2>4, <3>1 DEF Fits
    <3>2. CASE i = 2
      BY <1>1, <2>2, <2>3, <2>4, <3>2 DEF Fits
    <3>3. CASE i = 3
      BY <1>1, <2>2, <2>3, <2>4, <3>3 DEF Fits
    <3>4. CASE i = 4
      BY <1>1, <2>2, <2>3, <2>4, <3>4 DEF Fits
    <3>5. CASE i = 5
      BY <1>1, <2>2, <2>3, <2>4, <3>5 DEF Fits
    <3>6. CASE i = 6
      BY <1>1, <2>2, <2>3, <2>4, <3>6 DEF Fits
    <3> QED
      BY <2>5, <3>1, <3>2, <3>3, <3>4, <3>5, <3>6
  <2> QED
    BY <2>2, <2>5 DEF WellOrdered
<1>2. CASE op = "mappers"
  <2>1. Steps(op) = <<"cancel", "lock", "flush", "update", "unlock">>
    BY <1>2 DEF Steps, CloseSteps, DidCloseFileSteps
  <2>2. Len(Steps(op)) = 5 /\ DOMAIN Steps(op) = 1 .. 5
    BY <2>1
  <2>3. /\ Steps(op)[1] = "cancel"
        /\ Steps(op)[2] = "lock"
        /\ Steps(op)[3] = "flush"
        /\ Steps(op)[4] = "update"
        /\ Steps(op)[5] = "unlock"
    BY <2>1
  <2>4. /\ Before(Steps(op), 3, "lock")
        /\ Before(Steps(op), 4, "lock")
        /\ Before(Steps(op), 5, "lock")
        /\ ~Before(Steps(op), 2, "lock")
    BY <2>2, <2>3 DEF Before
  <2>5. ASSUME NEW i \in 1 .. 5 PROVE Fits(op, Steps(op), i)
    <3>1. CASE i = 1
      BY <1>2, <2>2, <2>3, <2>4, <3>1 DEF Fits
    <3>2. CASE i = 2
      BY <1>2, <2>2, <2>3, <2>4, <3>2 DEF Fits
    <3>3. CASE i = 3
      BY <1>2, <2>2, <2>3, <2>4, <3>3 DEF Fits
    <3>4. CASE i = 4
      BY <1>2, <2>2, <2>3, <2>4, <3>4 DEF Fits
    <3>5. CASE i = 5
      BY <1>2, <2>2, <2>3, <2>4, <3>5 DEF Fits
    <3> QED
      BY <2>5, <3>1, <3>2, <3>3, <3>4, <3>5
  <2> QED
    BY <2>2, <2>5 DEF WellOrdered
<1>3. CASE op = "close"
  <2>1. Steps(op) = <<"arm", "append", "schedule">>
    BY <1>3 DEF Steps, CloseSteps, DidCloseFileSteps
  <2>2. Len(Steps(op)) = 3 /\ DOMAIN Steps(op) = 1 .. 3
    BY <2>1
  <2>3. /\ Steps(op)[1] = "arm"
        /\ Steps(op)[2] = "append"
        /\ Steps(op)[3] = "schedule"
    BY <2>1
  <2>4. /\ ~Before(Steps(op), 1, "lock")
        /\ ~Before(Steps(op), 3, "lock")
    BY <2>2, <2>3 DEF Before
  <2>5. ASSUME NEW i \in 1 .. 3 PROVE Fits(op, Steps(op), i)
    <3>1. CASE i = 1
      BY <1>3, <2>2, <2>3, <2>4, <3>1 DEF Fits
    <3>2. CASE i = 2
      BY <1>3, <2>2, <2>3, <2>4, <3>2 DEF Fits
    <3>3. CASE i = 3
      BY <1>3, <2>2, <2>3, <2>4, <3>3 DEF Fits
    <3> QED
      BY <2>5, <3>1, <3>2, <3>3
  <2> QED
    BY <2>2, <2>5 DEF WellOrdered
<1>4. CASE op = "edit"
  <2>1. Steps(op) = <<"arm", "append">>
    BY <1>4 DEF Steps, CloseSteps, DidCloseFileSteps
  <2>2. Len(Steps(op)) = 2 /\ DOMAIN Steps(op) = 1 .. 2
    BY <2>1
  <2>3. /\ Steps(op)[1] = "arm"
        /\ Steps(op)[2] = "append"
    BY <2>1
  <2>4. /\ ~Before(Steps(op), 1, "lock")
        /\ ~Before(Steps(op), 2, "lock")
    BY <2>2, <2>3 DEF Before
  <2>5. ASSUME NEW i \in 1 .. 2 PROVE Fits(op, Steps(op), i)
    <3>1. CASE i = 1
      BY <1>4, <2>2, <2>3, <2>4, <3>1 DEF Fits
    <3>2. CASE i = 2
      BY <1>4, <2>2, <2>3, <2>4, <3>2 DEF Fits
    <3> QED
      BY <2>5, <3>1, <3>2
  <2> QED
    BY <2>2, <2>5 DEF WellOrdered
<1>5. CASE op = "watch"
  <2>1. Steps(op) = <<"append", "arm">>
    BY <1>5 DEF Steps, CloseSteps, DidCloseFileSteps
  <2>2. Len(Steps(op)) = 2 /\ DOMAIN Steps(op) = 1 .. 2
    BY <2>1
  <2>3. /\ Steps(op)[1] = "append"
        /\ Steps(op)[2] = "arm"
    BY <2>1
  <2>4. /\ ~Before(Steps(op), 2, "lock")
    BY <2>2, <2>3 DEF Before
  <2>5. ASSUME NEW i \in 1 .. 2 PROVE Fits(op, Steps(op), i)
    <3>1. CASE i = 1
      BY <1>5, <2>2, <2>3, <2>4, <3>1 DEF Fits
    <3>2. CASE i = 2
      BY <1>5, <2>2, <2>3, <2>4, <3>2 DEF Fits
    <3> QED
      BY <2>5, <3>1, <3>2
  <2> QED
    BY <2>2, <2>5 DEF WellOrdered
<1>6. CASE op = "watchConfig"
  <2>1. Steps(op) = <<"append", "schedule", "arm">>
    BY <1>6 DEF Steps, CloseSteps, DidCloseFileSteps
  <2>2. Len(Steps(op)) = 3 /\ DOMAIN Steps(op) = 1 .. 3
    BY <2>1
  <2>3. /\ Steps(op)[1] = "append"
        /\ Steps(op)[2] = "schedule"
        /\ Steps(op)[3] = "arm"
    BY <2>1
  <2>4. /\ ~Before(Steps(op), 2, "lock")
        /\ ~Before(Steps(op), 3, "lock")
    BY <2>2, <2>3 DEF Before
  <2>5. ASSUME NEW i \in 1 .. 3 PROVE Fits(op, Steps(op), i)
    <3>1. CASE i = 1
      BY <1>6, <2>2, <2>3, <2>4, <3>1 DEF Fits
    <3>2. CASE i = 2
      BY <1>6, <2>2, <2>3, <2>4, <3>2 DEF Fits
    <3>3. CASE i = 3
      BY <1>6, <2>2, <2>3, <2>4, <3>3 DEF Fits
    <3> QED
      BY <2>5, <3>1, <3>2, <3>3
  <2> QED
    BY <2>2, <2>5 DEF WellOrdered
<1>7. CASE op = "request"
  <2>1. Steps(op) = <<"lock", "cancel", "flush", "update", "unlock">>
    BY <1>7 DEF Steps, CloseSteps, DidCloseFileSteps
  <2>2. Len(Steps(op)) = 5 /\ DOMAIN Steps(op) = 1 .. 5
    BY <2>1
  <2>3. /\ Steps(op)[1] = "lock"
        /\ Steps(op)[2] = "cancel"
        /\ Steps(op)[3] = "flush"
        /\ Steps(op)[4] = "update"
        /\ Steps(op)[5] = "unlock"
    BY <2>1
  <2>4. /\ Before(Steps(op), 3, "lock")
        /\ Before(Steps(op), 4, "lock")
        /\ Before(Steps(op), 5, "lock")
        /\ ~Before(Steps(op), 1, "lock")
    BY <2>2, <2>3 DEF Before
  <2>5. ASSUME NEW i \in 1 .. 5 PROVE Fits(op, Steps(op), i)
    <3>1. CASE i = 1
      BY <1>7, <2>2, <2>3, <2>4, <3>1 DEF Fits
    <3>2. CASE i = 2
      BY <1>7, <2>2, <2>3, <2>4, <3>2 DEF Fits
    <3>3. CASE i = 3
      BY <1>7, <2>2, <2>3, <2>4, <3>3 DEF Fits
    <3>4. CASE i = 4
      BY <1>7, <2>2, <2>3, <2>4, <3>4 DEF Fits
    <3>5. CASE i = 5
      BY <1>7, <2>2, <2>3, <2>4, <3>5 DEF Fits
    <3> QED
      BY <2>5, <3>1, <3>2, <3>3, <3>4, <3>5
  <2> QED
    BY <2>2, <2>5 DEF WellOrdered
<1>8. CASE op = "api"
  <2>1. Steps(op) = <<"lock", "cancel", "flush", "update", "recover", "unlock">>
    BY <1>8 DEF Steps, CloseSteps, DidCloseFileSteps
  <2>2. Len(Steps(op)) = 6 /\ DOMAIN Steps(op) = 1 .. 6
    BY <2>1
  <2>3. /\ Steps(op)[1] = "lock"
        /\ Steps(op)[2] = "cancel"
        /\ Steps(op)[3] = "flush"
        /\ Steps(op)[4] = "update"
        /\ Steps(op)[5] = "recover"
        /\ Steps(op)[6] = "unlock"
    BY <2>1
  <2>4. /\ Before(Steps(op), 3, "lock")
        /\ Before(Steps(op), 4, "lock")
        /\ Before(Steps(op), 5, "lock")
        /\ Before(Steps(op), 6, "lock")
        /\ ~Before(Steps(op), 1, "lock")
    BY <2>2, <2>3 DEF Before
  <2>5. ASSUME NEW i \in 1 .. 6 PROVE Fits(op, Steps(op), i)
    <3>1. CASE i = 1
      BY <1>8, <2>2, <2>3, <2>4, <3>1 DEF Fits
    <3>2. CASE i = 2
      BY <1>8, <2>2, <2>3, <2>4, <3>2 DEF Fits
    <3>3. CASE i = 3
      BY <1>8, <2>2, <2>3, <2>4, <3>3 DEF Fits
    <3>4. CASE i = 4
      BY <1>8, <2>2, <2>3, <2>4, <3>4 DEF Fits
    <3>5. CASE i = 5
      BY <1>8, <2>2, <2>3, <2>4, <3>5 DEF Fits
    <3>6. CASE i = 6
      BY <1>8, <2>2, <2>3, <2>4, <3>6 DEF Fits
    <3> QED
      BY <2>5, <3>1, <3>2, <3>3, <3>4, <3>5, <3>6
  <2> QED
    BY <2>2, <2>5 DEF WellOrdered
<1>9. CASE op = "options"
  <2>1. Steps(op) = <<"read", "update">>
    BY <1>9 DEF Steps, CloseSteps, DidCloseFileSteps
  <2>2. Len(Steps(op)) = 2 /\ DOMAIN Steps(op) = 1 .. 2
    BY <2>1
  <2>3. /\ Steps(op)[1] = "read"
        /\ Steps(op)[2] = "update"
    BY <2>1
  <2>4. /\ ~Before(Steps(op), 1, "lock")
        /\ ~Before(Steps(op), 2, "lock")
    BY <2>2, <2>3 DEF Before
  <2>5. ASSUME NEW i \in 1 .. 2 PROVE Fits(op, Steps(op), i)
    <3>1. CASE i = 1
      BY <1>9, <2>2, <2>3, <2>4, <3>1 DEF Fits
    <3>2. CASE i = 2
      BY <1>9, <2>2, <2>3, <2>4, <3>2 DEF Fits
    <3> QED
      BY <2>5, <3>1, <3>2
  <2> QED
    BY <2>2, <2>5 DEF WellOrdered
<1>10. CASE op = "task"
  <2>1. Steps(op) = <<"check", "lock", "flush", "update", "unlock">>
    BY <1>10 DEF Steps, CloseSteps, DidCloseFileSteps
  <2>2. Len(Steps(op)) = 5 /\ DOMAIN Steps(op) = 1 .. 5
    BY <2>1
  <2>3. /\ Steps(op)[1] = "check"
        /\ Steps(op)[2] = "lock"
        /\ Steps(op)[3] = "flush"
        /\ Steps(op)[4] = "update"
        /\ Steps(op)[5] = "unlock"
    BY <2>1
  <2>4. /\ Before(Steps(op), 3, "lock")
        /\ Before(Steps(op), 4, "lock")
        /\ Before(Steps(op), 5, "lock")
        /\ ~Before(Steps(op), 2, "lock")
    BY <2>2, <2>3 DEF Before
  <2>5. ASSUME NEW i \in 1 .. 5 PROVE Fits(op, Steps(op), i)
    <3>1. CASE i = 1
      BY <1>10, <2>2, <2>3, <2>4, <3>1 DEF Fits
    <3>2. CASE i = 2
      BY <1>10, <2>2, <2>3, <2>4, <3>2 DEF Fits
    <3>3. CASE i = 3
      BY <1>10, <2>2, <2>3, <2>4, <3>3 DEF Fits
    <3>4. CASE i = 4
      BY <1>10, <2>2, <2>3, <2>4, <3>4 DEF Fits
    <3>5. CASE i = 5
      BY <1>10, <2>2, <2>3, <2>4, <3>5 DEF Fits
    <3> QED
      BY <2>5, <3>1, <3>2, <3>3, <3>4, <3>5
  <2> QED
    BY <2>2, <2>5 DEF WellOrdered
<1>11. CASE op = "idle"
  <2>1. Steps(op) = <<"armed", "fired", "lock", "cancel", "flush", "update", "unlock">>
    BY <1>11 DEF Steps, CloseSteps, DidCloseFileSteps
  <2>2. Len(Steps(op)) = 7 /\ DOMAIN Steps(op) = 1 .. 7
    BY <2>1
  <2>3. /\ Steps(op)[1] = "armed"
        /\ Steps(op)[2] = "fired"
        /\ Steps(op)[3] = "lock"
        /\ Steps(op)[4] = "cancel"
        /\ Steps(op)[5] = "flush"
        /\ Steps(op)[6] = "update"
        /\ Steps(op)[7] = "unlock"
    BY <2>1
  <2>4. /\ Before(Steps(op), 5, "lock")
        /\ Before(Steps(op), 6, "lock")
        /\ Before(Steps(op), 7, "lock")
        /\ ~Before(Steps(op), 3, "lock")
    BY <2>2, <2>3 DEF Before
  <2>5. ASSUME NEW i \in 1 .. 7 PROVE Fits(op, Steps(op), i)
    <3>1. CASE i = 1
      BY <1>11, <2>2, <2>3, <2>4, <3>1 DEF Fits
    <3>2. CASE i = 2
      BY <1>11, <2>2, <2>3, <2>4, <3>2 DEF Fits
    <3>3. CASE i = 3
      BY <1>11, <2>2, <2>3, <2>4, <3>3 DEF Fits
    <3>4. CASE i = 4
      BY <1>11, <2>2, <2>3, <2>4, <3>4 DEF Fits
    <3>5. CASE i = 5
      BY <1>11, <2>2, <2>3, <2>4, <3>5 DEF Fits
    <3>6. CASE i = 6
      BY <1>11, <2>2, <2>3, <2>4, <3>6 DEF Fits
    <3>7. CASE i = 7
      BY <1>11, <2>2, <2>3, <2>4, <3>7 DEF Fits
    <3> QED
      BY <2>5, <3>1, <3>2, <3>3, <3>4, <3>5, <3>6, <3>7
  <2> QED
    BY <2>2, <2>5 DEF WellOrdered
<1>12. CASE op = "shutdown"
  <2>1. Steps(op) = <<"cancel", "stopIdle", "waitIdle", "stopQueue", "waitQueue", "lock", "final">>
    BY <1>12 DEF Steps, CloseSteps, DidCloseFileSteps
  <2>2. Len(Steps(op)) = 7 /\ DOMAIN Steps(op) = 1 .. 7
    BY <2>1
  <2>3. /\ Steps(op)[1] = "cancel"
        /\ Steps(op)[2] = "stopIdle"
        /\ Steps(op)[3] = "waitIdle"
        /\ Steps(op)[4] = "stopQueue"
        /\ Steps(op)[5] = "waitQueue"
        /\ Steps(op)[6] = "lock"
        /\ Steps(op)[7] = "final"
    BY <2>1
  <2>4. /\ Before(Steps(op), 3, "stopIdle")
        /\ Before(Steps(op), 5, "stopQueue")
        /\ Before(Steps(op), 7, "lock")
        /\ Before(Steps(op), 7, "stopIdle")
        /\ Before(Steps(op), 7, "waitIdle")
        /\ Before(Steps(op), 7, "stopQueue")
        /\ Before(Steps(op), 7, "waitQueue")
        /\ ~Before(Steps(op), 2, "lock")
        /\ ~Before(Steps(op), 3, "lock")
        /\ ~Before(Steps(op), 5, "lock")
        /\ ~Before(Steps(op), 6, "lock")
    BY <2>2, <2>3 DEF Before
  <2>5. ASSUME NEW i \in 1 .. 7 PROVE Fits(op, Steps(op), i)
    <3>1. CASE i = 1
      BY <1>12, <2>2, <2>3, <2>4, <3>1 DEF Fits
    <3>2. CASE i = 2
      BY <1>12, <2>2, <2>3, <2>4, <3>2 DEF Fits
    <3>3. CASE i = 3
      BY <1>12, <2>2, <2>3, <2>4, <3>3 DEF Fits
    <3>4. CASE i = 4
      BY <1>12, <2>2, <2>3, <2>4, <3>4 DEF Fits
    <3>5. CASE i = 5
      BY <1>12, <2>2, <2>3, <2>4, <3>5 DEF Fits
    <3>6. CASE i = 6
      BY <1>12, <2>2, <2>3, <2>4, <3>6 DEF Fits
    <3>7. CASE i = 7
      BY <1>12, <2>2, <2>3, <2>4, <3>7 DEF Fits
    <3> QED
      BY <2>5, <3>1, <3>2, <3>3, <3>4, <3>5, <3>6, <3>7
  <2> QED
    BY <2>2, <2>5 DEF WellOrdered
<1>13. CASE op \notin {"open", "mappers", "close", "edit", "watch", "watchConfig", "request", "api",
                      "options", "task", "idle", "shutdown"}
  <2>1. Steps(op) = <<>>
    BY <1>13 DEF Steps
  <2> QED BY <2>1 DEF WellOrdered
<1> QED BY <1>1, <1>2, <1>3, <1>4, <1>5, <1>6, <1>7, <1>8, <1>9, <1>10, <1>11, <1>12, <1>13

-----------------------------------------------------------------------------
(* Types, as far as the proofs need them.                                       *)

OpNames == {"none", "open", "mappers", "close", "edit", "watch", "watchConfig", "request", "api",
            "options", "task", "idle", "shutdown"}
Told   == [files : SUBSET Nat, overlays : Nat, config : Nat, ata : SUBSET Nat]
Record == [op : OpNames, step : Nat, change : Told, due : Nat, got : Told \cup {NoSnapshot}]

Typed ==
  /\ appended \in Nat /\ processed \in Nat /\ configNow \in Nat
  /\ ataNow \in Nat /\ ataDue \in SUBSET Nat
  /\ current \in Told \cup {NoSnapshot}
  /\ generation \in Nat /\ taskGen \in [Tasks -> Nat]
  /\ scheduled \in Tasks \cup {None} /\ canceled \in SUBSET Tasks
  /\ idleTimer \in Timers \cup {None} /\ idleWG \in Int
  /\ go \in [Goroutines -> Record]

LEMMA Records ==
  /\ NoChange \in Told /\ FirstSnapshot \in Told /\ Idle \in Record
  /\ NoSnapshot \notin Told
<1>1. NoChange \in Told /\ FirstSnapshot \in Told
  BY DEF NoChange, FirstSnapshot, Told
<1>2. Idle \in Record
  BY <1>1 DEF Idle, Record, OpNames
<1>3. NoSnapshot.overlays = -1
  BY DEF NoSnapshot
<1>4. \A c \in Told : c.overlays \in Nat
  BY DEF Told
<1> QED
  BY <1>1, <1>2, <1>3, <1>4

\* What a goroutine has done of its operation, and what it does next.
Did(r, name)  == Before(Steps(r.op), r.step, name)
Does(r, name) == r.step \in DOMAIN Steps(r.op) /\ Steps(r.op)[r.step] = name

LEMMA NothingDone ==
  /\ \A name : ~Did(Idle, name) /\ ~Does(Idle, name)
  /\ \A r \in Record : r.step <= 1 => \A name : ~Did(r, name)
<1>1. ASSUME NEW r \in Record, r.step <= 1, NEW name PROVE ~Did(r, name)
  BY <1>1, StepsWellOrdered DEF Did, Before, WellOrdered, Record
<1>2. Idle \in Record /\ Idle.step = 0
  BY Records DEF Idle
<1>3. \A name : ~Does(Idle, name)
  BY <1>2, StepsWellOrdered DEF Does, WellOrdered
<1> QED
  BY <1>1, <1>2, <1>3

LEMMA Advancing ==
  ASSUME NEW r \in Record, r.step \in DOMAIN Steps(r.op)
  PROVE  /\ Advance(r) \in Record
         /\ \/ Advance(r) = Idle /\ r.step = Len(Steps(r.op))
            \/ Advance(r) = [r EXCEPT !.step = @ + 1] /\ r.step + 1 \in DOMAIN Steps(r.op)
         /\ \A name : Did(Advance(r), name) => Did(r, name) \/ Does(r, name)
         /\ Advance(r) = Idle => r.step = Len(Steps(r.op))
<1> DEFINE s == Steps(r.op)
<1>1. Len(s) \in Nat /\ DOMAIN s = 1 .. Len(s)
  BY StepsWellOrdered DEF WellOrdered
<1>2. CASE r.step = Len(s)
  BY <1>2, Records, NothingDone DEF Advance
<1>3. CASE r.step # Len(s)
  <2>1. Advance(r) = [r EXCEPT !.step = @ + 1] /\ r.step + 1 \in DOMAIN s
    BY <1>1, <1>3 DEF Advance, Record
  <2>2. Advance(r) \in Record
    BY <2>1 DEF Record
  <2>3. Advance(r).op = r.op /\ Advance(r).step = r.step + 1
    BY <2>1 DEF Record
  <2>4. ASSUME NEW name, Did(Advance(r), name) PROVE Did(r, name) \/ Does(r, name)
    BY <1>1, <2>3, <2>4 DEF Did, Does, Before, Record
  <2>5. Advance(r) # Idle
    BY <2>3 DEF Idle, Record
  <2> QED
    BY <2>1, <2>2, <2>4, <2>5
<1> QED
  BY <1>2, <1>3

-----------------------------------------------------------------------------
(* What a step does to the goroutines.                                          *)

\* Goroutine g goes on in its operation, past the steps N at most, or ends.
Moved(g, N) ==
  /\ go' \in [Goroutines -> Record]
  /\ \A h \in Goroutines : h # g => go'[h] = go[h]
  /\ go'[g] = Idle \/ (go'[g].op = go[g].op /\ go'[g].step > go[g].step)
  /\ \A name : Did(go'[g], name) => Did(go[g], name) \/ name \in N

LEMMA Placed ==
  ASSUME Typed, NEW g \in Goroutines, NEW name, At(g, name)
  PROVE  /\ go[g] \in Record /\ go[g].step \in DOMAIN Steps(go[g].op)
         /\ Does(go[g], name) /\ Fits(go[g].op, Steps(go[g].op), go[g].step)
         /\ DOMAIN Steps(go[g].op) = 1 .. Len(Steps(go[g].op))
         /\ Len(Steps(go[g].op)) \in Nat
         /\ go[g].op # "none"
<1>1. Steps("none") = <<>>
  BY DEF Steps
<1> QED
  BY <1>1, StepsWellOrdered DEF At, Does, WellOrdered, Typed

LEMMA MovedOn ==
  ASSUME Typed, NEW g \in Goroutines, NEW name, At(g, name),
         NEW r \in Record, r.op = go[g].op, r.step = go[g].step,
         go' = [go EXCEPT ![g] = Advance(r)]
  PROVE  Moved(g, {name}) /\ go'[g] = Advance(r)
<1>1. go \in [Goroutines -> Record]
  BY DEF Typed
<1>2. /\ Advance(r) \in Record
      /\ \/ Advance(r) = Idle /\ r.step = Len(Steps(r.op))
         \/ Advance(r) = [r EXCEPT !.step = @ + 1] /\ r.step + 1 \in DOMAIN Steps(r.op)
      /\ \A nm : Did(Advance(r), nm) => Did(r, nm) \/ Does(r, nm)
  BY Placed, Advancing
<1>3. go'[g] = Advance(r) /\ go' \in [Goroutines -> Record]
  BY <1>1, <1>2
<1>4. \A nm : Did(r, nm) = Did(go[g], nm) /\ (Does(r, nm) => nm = name)
  BY DEF Did, Does, At
<1>5. Advance(r) = Idle \/ (Advance(r).op = go[g].op /\ Advance(r).step > go[g].step)
  BY <1>2 DEF Record
<1> QED
  BY <1>1, <1>2, <1>3, <1>4, <1>5 DEF Moved

LEMMA Stepped ==
  ASSUME Typed, NEW g \in Goroutines, NEW name, At(g, name), Step(g)
  PROVE  Moved(g, {name}) /\ go'[g] = Advance(go[g])
  BY MovedOn DEF Step, Typed

LEMMA Ended ==
  ASSUME Typed, NEW g \in Goroutines, End(g)
  PROVE  \A N : Moved(g, N) /\ go'[g] = Idle
<1>1. go \in [Goroutines -> Record]
  BY DEF Typed
<1> QED
  BY <1>1, Records, NothingDone DEF End, Moved

\* Past the step name and the next one.
LEMMA SkippedOne ==
  ASSUME Typed, NEW g \in Goroutines, NEW name, At(g, name), NEW name2,
         go[g].step + 1 \in DOMAIN Steps(go[g].op), Steps(go[g].op)[go[g].step + 1] = name2,
         NEW r \in Record, r.op = go[g].op, r.step = go[g].step + 2,
         go' = [go EXCEPT ![g] = r]
  PROVE  Moved(g, {name, name2}) /\ go'[g] = r
<1>1. go \in [Goroutines -> Record] /\ go[g].step \in Nat
  BY DEF Typed, Record
<1>2. \A nm : Did(r, nm) => Did(go[g], nm) \/ nm \in {name, name2}
  BY <1>1, Placed DEF Did, Before, At
<1> QED
  BY <1>1, <1>2 DEF Moved

LEMMA FlushMoves ==
  ASSUME Typed, NEW g \in Goroutines, Flush(g)
  PROVE  /\ Moved(g, {"flush", "update"}) /\ Flushed(g) \in Told
         /\ \/ /\ Does(go'[g], "update")
               /\ go'[g].change \in {Flushed(g), [Flushed(g) EXCEPT !.config = 0]}
            \/ /\ NothingPending(Flushed(g)) /\ go[g].op \in {"task", "request"}
               /\ go'[g].change = go[g].change /\ Does(go'[g], "unlock")
<1>1. /\ go \in [Goroutines -> Record] /\ appended \in Nat /\ processed \in Nat
      /\ ataDue \in SUBSET Nat /\ configNow \in Nat /\ current \in Told \cup {NoSnapshot}
  BY DEF Typed
<1>2. At(g, "flush") /\ go[g] \in Record /\ go[g].step \in Nat
  BY <1>1 DEF Flush, Record
<1>3. Flushed(g) \in Told
  <2>1. LastChange(g) \in Nat /\ FlushedConfig(g) \in Nat
    BY <1>1 DEF LastChange, FlushedConfig
  <2>2. processed + 1 .. LastChange(g) \in SUBSET Nat
    BY <1>1, <2>1
  <2> QED
    BY <1>1, <2>1, <2>2 DEF Flushed, Told
<1> DEFINE c == Flushed(g)
           change == IF go[g].op = "api" THEN [c EXCEPT !.config = 0] ELSE c
           got == IF go[g].op = "request" THEN current ELSE NoSnapshot
           skip == [go[g] EXCEPT !.step = @ + 2, !.got = got]
<1>4. change \in Told
  BY <1>3 DEF Told
<1>5. go[g].step + 1 \in DOMAIN Steps(go[g].op) /\ Steps(go[g].op)[go[g].step + 1] = "update"
  BY <1>2, Placed DEF Fits, At
<1>6. CASE go' = [go EXCEPT ![g] = Advance([@ EXCEPT !.change = change])]
  <2> DEFINE r == [go[g] EXCEPT !.change = change]
  <2>1. r \in Record /\ r.op = go[g].op /\ r.step = go[g].step /\ r.change = change
    BY <1>2, <1>4 DEF Record
  <2>2. go' = [go EXCEPT ![g] = Advance(r)]
    BY <1>6
  <2>3. Moved(g, {"flush"}) /\ go'[g] = Advance(r)
    <3> HIDE DEF r
    <3> QED BY <1>2, <2>1, <2>2, MovedOn
  <2>4. r.step # Len(Steps(r.op))
    BY <1>2, <1>5, <2>1, Placed
  <2>5. Advance(r) = [r EXCEPT !.step = @ + 1]
    BY <2>4 DEF Advance
  <2>6. go'[g].change = change /\ go'[g].op = go[g].op /\ go'[g].step = go[g].step + 1
    BY <1>2, <2>1, <2>3, <2>5 DEF Record
  <2>7. Does(go'[g], "update")
    BY <1>5, <2>6 DEF Does
  <2> QED
    BY <1>3, <2>3, <2>6, <2>7 DEF Moved
<1>7. CASE NothingPending(c) /\ go[g].op \in {"task", "request"} /\ go' = [go EXCEPT ![g] = skip]
  <2>1. skip \in Record /\ skip.op = go[g].op /\ skip.step = go[g].step + 2 /\ skip.change = go[g].change
    <3>1. got \in Told \cup {NoSnapshot}
      BY <1>1
    <3> HIDE DEF got, change, c
    <3> DEFINE r == go[g]
               n == r.step + 2
    <3>2. r \in Record /\ n \in Nat /\ skip = [r EXCEPT !.step = n, !.got = got]
      BY <1>2
    <3> HIDE DEF r, n, skip
    <3>3. skip \in Record /\ skip.op = r.op /\ skip.step = n /\ skip.change = r.change
      BY <3>1, <3>2 DEF Record
    <3> QED
      BY <3>3 DEF r, n
  <2>2. Moved(g, {"flush", "update"}) /\ go'[g] = skip
    <3> HIDE DEF skip
    <3> QED BY <1>2, <1>5, <1>7, <2>1, SkippedOne
  <2>3. Does(skip, "unlock")
    <3>1. /\ go[g].step + 2 <= Len(Steps(go[g].op)) /\ Steps(go[g].op)[go[g].step + 2] = "unlock"
          /\ DOMAIN Steps(go[g].op) = 1 .. Len(Steps(go[g].op)) /\ Len(Steps(go[g].op)) \in Nat
      BY <1>2, <1>7, Placed DEF Fits, At
    <3> HIDE DEF skip
    <3> QED BY <1>2, <2>1, <3>1 DEF Does
  <2> QED
    BY <1>3, <1>7, <2>1, <2>2, <2>3
<1> QED
  BY <1>6, <1>7 DEF Flush

\* Only an update is followed by a recovery.
LEMMA NotRecovering ==
  ASSUME Typed, NEW g \in Goroutines, NEW name, At(g, name), name # "update",
         go'[g] = Idle \/ (go'[g].op = go[g].op /\ go'[g].step = go[g].step + 1)
  PROVE  ~Does(go'[g], "recover")
<1> SUFFICES ASSUME Does(go'[g], "recover") PROVE FALSE
  OBVIOUS
<1>1. /\ go[g] \in Record /\ go[g].step \in DOMAIN Steps(go[g].op) /\ Steps(go[g].op)[go[g].step] = name
      /\ DOMAIN Steps(go[g].op) = 1 .. Len(Steps(go[g].op)) /\ Len(Steps(go[g].op)) \in Nat
  BY Placed DEF Does
<1>2. go'[g].op = go[g].op /\ go'[g].step = go[g].step + 1
  BY NothingDone
<1>3. Fits(go[g].op, Steps(go[g].op), go[g].step + 1) /\ Steps(go[g].op)[go[g].step + 1] = "recover"
  BY <1>2, StepsWellOrdered DEF Does, WellOrdered
<1>4. go[g].step + 1 - 1 = go[g].step
  BY <1>1
<1> QED
  BY <1>1, <1>3, <1>4 DEF Fits

LEMMA ReadMoves ==
  ASSUME Typed, NEW g \in Goroutines, ReadOverlays(g)
  PROVE  /\ Moved(g, {"read"}) /\ go'[g].change.files = {} /\ go'[g].change.ata = {}
         /\ ~Does(go'[g], "recover")
         /\ go'[g] = Idle => go[g].step = Len(Steps(go[g].op))
<1> DEFINE r == [go[g] EXCEPT !.change = [NoChange EXCEPT !.overlays = processed]]
<1>1. go[g] \in Record /\ processed \in Nat
  BY DEF Typed
<1>2. [NoChange EXCEPT !.overlays = processed] \in Told
  BY <1>1, Records DEF Told
<1>3. /\ r \in Record /\ r.op = go[g].op /\ r.step = go[g].step
      /\ r.change.files = {} /\ r.change.ata = {}
  BY <1>1, <1>2 DEF Record, NoChange
<1>4. At(g, "read") /\ go' = [go EXCEPT ![g] = Advance(r)]
  BY DEF ReadOverlays
<1>5. Moved(g, {"read"}) /\ go'[g] = Advance(r)
  <2> HIDE DEF r
  <2> QED BY <1>3, <1>4, MovedOn
<1>6. Advance(r) = Idle \/ Advance(r) = [r EXCEPT !.step = @ + 1]
  BY DEF Advance
<1>7. Advance(r).change = r.change \/ Advance(r).change = NoChange
  <2> HIDE DEF r
  <2> QED BY <1>3, <1>6 DEF Idle, Record
<1>8. ~Does(go'[g], "recover")
  <2>1. go'[g] = Idle \/ (go'[g].op = go[g].op /\ go'[g].step = go[g].step + 1)
    <3> HIDE DEF r
    <3> QED BY <1>3, <1>5, <1>6 DEF Record
  <2> QED
    BY <1>4, <2>1, NotRecovering
<1>9. go'[g] = Idle => go[g].step = Len(Steps(go[g].op))
  <2> HIDE DEF r
  <2> QED BY <1>3, <1>4, <1>5, Advancing, Placed
<1> QED
  BY <1>3, <1>5, <1>7, <1>8, <1>9 DEF NoChange

\* Applied and Recovered yield what snapshots are built from.
LEMMA AppliedTold ==
  ASSUME Typed, current # NoSnapshot, NEW c \in Told
  PROVE  Applied(c) \in Told /\ Recovered(c) \in Told
<1>1. current \in Told
  BY DEF Typed
<1>2. Applied(c) \in Told
  BY <1>1 DEF Applied, Told
<1> QED
  BY <1>1, <1>2 DEF Recovered

\* An update installs what was flushed, unless there is no snapshot.
LEMMA UpdateMoves ==
  ASSUME Typed, NEW g \in Goroutines, Update(g)
  PROVE  /\ Moved(g, {"update", "recover"})
         /\ ~Does(go'[g], "recover")
         /\ go'[g].change = NoChange
         /\ current \in Told => current' \in Told
         /\ current # NoSnapshot /\ go'[g] = Idle => go[g].step = Len(Steps(go[g].op))
<1>1. At(g, "update") /\ go[g] \in Record /\ go[g].step \in Nat /\ go[g].change \in Told
  BY DEF Update, Typed, Record
<1>2. CASE current = NoSnapshot
  <2>1. End(g) /\ current' = current
    BY <1>2 DEF Update
  <2> QED
    BY <1>2, <2>1, Ended, NothingDone DEF Idle
<1>3. CASE current # NoSnapshot
  <2> DEFINE next == Applied(go[g].change)
             done == [go[g] EXCEPT !.change = NoChange, !.got = next]
             api  == [done EXCEPT !.step = @ + 1]
  <2>1. next \in Told
    BY <1>1, <1>3, AppliedTold
  <2>2. current' = next /\ go' = [go EXCEPT ![g] = Advance(IF done.op = "api" THEN api ELSE done)]
    BY <1>3 DEF Update
  <2>3. /\ done \in Record /\ done.op = go[g].op /\ done.step = go[g].step /\ done.change = NoChange
        /\ api \in Record /\ api.op = go[g].op /\ api.step = go[g].step + 1 /\ api.change = NoChange
    <3>1. done \in Record /\ done.op = go[g].op /\ done.step = go[g].step /\ done.change = NoChange
      <4> HIDE DEF next, api
      <4> QED BY <1>1, <2>1, Records DEF Record
    <3> HIDE DEF done
    <3> QED
      BY <1>1, <3>1 DEF Record
  <2> HIDE DEF done, api, next
  <2>4. CASE go[g].op = "api"
    <3>1. /\ go[g].step + 2 \in DOMAIN Steps(go[g].op) /\ go[g].step + 1 \in DOMAIN Steps(go[g].op)
          /\ Steps(go[g].op)[go[g].step + 1] = "recover" /\ Steps(go[g].op)[go[g].step + 2] = "unlock"
          /\ DOMAIN Steps(go[g].op) = 1 .. Len(Steps(go[g].op)) /\ Len(Steps(go[g].op)) \in Nat
      BY <1>1, <2>4, Placed DEF Fits, At
    <3>2. Advance(api) = [api EXCEPT !.step = @ + 1]
      BY <1>1, <2>3, <3>1 DEF Advance
    <3> DEFINE r == Advance(api)
    <3>3. r \in Record /\ r.op = go[g].op /\ r.step = go[g].step + 2 /\ r.change = NoChange
      BY <1>1, <2>3, <3>2 DEF Record
    <3>7. r # Idle
      BY <1>1, <3>3 DEF Idle
    <3>4. go' = [go EXCEPT ![g] = r]
      BY <2>2, <2>3, <2>4
    <3> HIDE DEF r
    <3>5. Moved(g, {"update", "recover"}) /\ go'[g] = r
      BY <1>1, <3>1, <3>3, <3>4, SkippedOne
    <3>6. ~Does(r, "recover")
      BY <3>1, <3>3 DEF Does
    <3> QED
      BY <2>1, <2>2, <3>3, <3>5, <3>6, <3>7
  <2>5. CASE go[g].op # "api"
    <3>1. go' = [go EXCEPT ![g] = Advance(done)]
      BY <2>2, <2>3, <2>5
    <3>2. Moved(g, {"update"}) /\ go'[g] = Advance(done)
      BY <1>1, <2>3, <3>1, MovedOn
    <3>3. Advance(done) = Idle \/ Advance(done) = [done EXCEPT !.step = @ + 1]
      BY DEF Advance
    <3>4. Advance(done).change = NoChange
      BY <2>3, <3>3 DEF Idle, Record
    <3>5. Advance(done).op \in {"none", go[g].op}
      BY <2>3, <3>3 DEF Idle, Record
    <3>6. ~Does(Advance(done), "recover")
      BY <2>5, <3>5, StepsWellOrdered DEF Does, Fits, WellOrdered
    <3>7. Advance(done) = Idle => go[g].step = Len(Steps(go[g].op))
      BY <1>1, <2>3, Advancing, Placed
    <3> QED
      BY <2>1, <2>2, <3>2, <3>4, <3>6, <3>7 DEF Moved
  <2> QED
    BY <2>4, <2>5
<1> QED
  BY <1>2, <1>3

\* The clone of an API request that failed leaves what was flushed for Recover.
LEMMA RejectMoves ==
  ASSUME Typed, NEW g \in Goroutines, Reject(g)
  PROVE  Moved(g, {"update"}) /\ go'[g].change = go[g].change /\ Does(go'[g], "recover")
<1>1. At(g, "update") /\ go[g].op = "api" /\ Step(g) /\ go[g] \in Record
  BY DEF Reject, Typed
<1>2. Moved(g, {"update"}) /\ go'[g] = Advance(go[g])
  BY <1>1, Stepped
<1>3. /\ go[g].step + 2 <= Len(Steps(go[g].op)) /\ Steps(go[g].op)[go[g].step + 1] = "recover"
      /\ DOMAIN Steps(go[g].op) = 1 .. Len(Steps(go[g].op)) /\ Len(Steps(go[g].op)) \in Nat
      /\ go[g].step \in Nat
  BY <1>1, Placed DEF Fits, At, Record
<1>4. Advance(go[g]) = [go[g] EXCEPT !.step = @ + 1]
  BY <1>3 DEF Advance
<1>5. go'[g].op = go[g].op /\ go'[g].step = go[g].step + 1 /\ go'[g].change = go[g].change
  BY <1>1, <1>2, <1>4 DEF Record
<1> QED
  BY <1>2, <1>3, <1>5 DEF Does

LEMMA RecoverMoves ==
  ASSUME Typed, NEW g \in Goroutines, Recover(g)
  PROVE  /\ Moved(g, {"recover"}) /\ go'[g].change = NoChange /\ ~Does(go'[g], "recover")
         /\ go'[g] = Idle => go[g].step = Len(Steps(go[g].op))
<1> DEFINE r == [go[g] EXCEPT !.change = NoChange]
<1>1. At(g, "recover") /\ go[g] \in Record /\ go[g].step \in Nat
  BY DEF Recover, Typed, Record
<1>2. r \in Record /\ r.op = go[g].op /\ r.step = go[g].step /\ r.change = NoChange
  BY <1>1, Records DEF Record
<1>3. go' = [go EXCEPT ![g] = Advance(r)]
  BY DEF Recover
<1> HIDE DEF r
<1>4. Moved(g, {"recover"}) /\ go'[g] = Advance(r)
  BY <1>1, <1>2, <1>3, MovedOn
<1>5. Advance(r) = Idle \/ Advance(r) = [r EXCEPT !.step = @ + 1]
  BY DEF Advance
<1>6. CASE Advance(r) = Idle
  <2>1. go[g].step = Len(Steps(go[g].op))
    BY <1>1, <1>2, <1>4, <1>6, Advancing, Placed
  <2> QED
    BY <1>4, <1>6, <2>1, NothingDone DEF Idle
<1>7. CASE Advance(r) = [r EXCEPT !.step = @ + 1]
  <2>1. go'[g].change = NoChange /\ go'[g].op = go[g].op /\ go'[g].step = go[g].step + 1
    BY <1>2, <1>4, <1>7 DEF Record
  <2>2. /\ DOMAIN Steps(go[g].op) = 1 .. Len(Steps(go[g].op)) /\ Len(Steps(go[g].op)) \in Nat
        /\ Steps(go[g].op)[go[g].step] = "recover" /\ go[g].step \in DOMAIN Steps(go[g].op)
    BY <1>1, Placed DEF At
  <2>3. ASSUME Does(go'[g], "recover") PROVE FALSE
    <3>1. Fits(go[g].op, Steps(go[g].op), go[g].step + 1)
      BY <2>1, <2>2, <2>3, StepsWellOrdered DEF WellOrdered, Does
    <3> QED
      BY <1>1, <2>1, <2>2, <2>3, <3>1 DEF Fits, Does
  <2>4. go'[g] # Idle
    BY <1>1, <2>1 DEF Idle
  <2> QED
    BY <1>4, <2>1, <2>3, <2>4
<1> QED
  BY <1>5, <1>6, <1>7

\* A record a goroutine starts with.
LEMMA Began ==
  ASSUME NEW op \in OpNames, NEW due \in Nat
  PROVE  LET r == [Idle EXCEPT !.op = op, !.step = 1, !.due = due] IN
         /\ r \in Record /\ r.op = op /\ r.change = NoChange
         /\ \A name : ~Did(r, name)
<1> DEFINE r == [Idle EXCEPT !.op = op, !.step = 1, !.due = due]
<1>1. Idle \in Record /\ Idle.change = NoChange
  BY Records DEF Idle
<1>2. r \in Record /\ r.op = op /\ r.step = 1 /\ r.change = NoChange
  BY <1>1 DEF Record
<1>3. \A name : ~Did(r, name)
  <2> HIDE DEF r
  <2> QED BY <1>2, NothingDone
<1> QED
  BY <1>2, <1>3

LEMMA BeganAlone ==
  ASSUME NEW op \in OpNames
  PROVE  LET r == [Idle EXCEPT !.op = op, !.step = 1] IN
         /\ r \in Record /\ r.op = op /\ r.change = NoChange
         /\ \A name : ~Did(r, name)
<1> DEFINE r == [Idle EXCEPT !.op = op, !.step = 1]
<1>1. Idle \in Record /\ Idle.change = NoChange
  BY Records DEF Idle
<1>2. r \in Record /\ r.op = op /\ r.step = 1 /\ r.change = NoChange
  BY <1>1 DEF Record
<1>3. \A name : ~Did(r, name)
  <2> HIDE DEF r
  <2> QED BY <1>2, NothingDone
<1> QED
  BY <1>2, <1>3

\* Goroutine h has just begun something or ended: it has done nothing yet.
Fresh(h) == go'[h].change = NoChange /\ \A name : ~Did(go'[h], name)

LEMMA IdleFresh == Idle.change = NoChange /\ Idle.op = "none" /\ \A name : ~Did(Idle, name)
  BY NothingDone DEF Idle

LEMMA CallMoves ==
  ASSUME Typed, NEW g \in Goroutines, NEW op \in OpNames, Call(g, op)
  PROVE  /\ go' \in [Goroutines -> Record] /\ go[g].op = "none" /\ Fresh(g)
         /\ \A h \in Goroutines : h # g => go'[h] = go[h]
<1> DEFINE due == IF op \in {"request", "api"} THEN appended ELSE 0
           r == [Idle EXCEPT !.op = op, !.step = 1, !.due = due]
<1>1. due \in Nat
  BY DEF Typed
<1>2. go[g].op = "none" /\ go' = [go EXCEPT ![g] = r]
  BY DEF Call, Begin
<1> HIDE DEF due
<1>3. r \in Record /\ r.change = NoChange /\ \A name : ~Did(r, name)
  BY <1>1, Began
<1> HIDE DEF r
<1> QED
  BY <1>2, <1>3 DEF Typed, Fresh

LEMMA ScheduleMoves ==
  ASSUME Typed, NEW g \in Goroutines, Schedule(g)
  PROVE  \E t \in Tasks :
           /\ t # g /\ go[t].op = "none" /\ go'[t].op \in {"none", "task"}
           /\ canceled' = (canceled \cup Replaced) \ {t}
           /\ taskGen' = [taskGen EXCEPT ![t] = generation + 1] /\ scheduled' = t
           /\ go' \in [Goroutines -> Record]
           /\ go'[g] = Advance(go[g]) /\ Fresh(t) /\ (queueClosed => go'[t] = Idle)
           /\ \A h \in Goroutines : h # g /\ h # t => go'[h] = go[h]
<1>1. At(g, "schedule")
  BY DEF Schedule
<1>2. PICK t \in Tasks :
        /\ go[t].op = "none"
        /\ canceled' = (canceled \cup Replaced) \ {t}
        /\ taskGen' = [taskGen EXCEPT ![t] = generation + 1]
        /\ scheduled' = t
        /\ go' = [go EXCEPT ![g] = Advance(@),
                            ![t] = IF queueClosed THEN Idle ELSE [Idle EXCEPT !.op = "task", !.step = 1]]
  BY DEF Schedule
<1>3. t # g /\ t \in Goroutines
  BY <1>1, <1>2, Placed DEF Goroutines
<1>4. Advance(go[g]) \in Record
  BY <1>1, Placed, Advancing
<1> DEFINE r == [Idle EXCEPT !.op = "task", !.step = 1]
<1>5. r \in Record /\ r.op = "task" /\ r.change = NoChange /\ \A name : ~Did(r, name)
  BY BeganAlone DEF OpNames
<1> HIDE DEF r
<1>6. go' = [go EXCEPT ![g] = Advance(@), ![t] = IF queueClosed THEN Idle ELSE r]
  BY <1>2 DEF r
<1>7. go' \in [Goroutines -> Record]
  BY <1>4, <1>5, <1>6, Records DEF Typed
<1>8. go'[g] = Advance(go[g]) /\ go'[t] = IF queueClosed THEN Idle ELSE r
  BY <1>3, <1>6 DEF Typed
<1>9. \A h \in Goroutines : h # g /\ h # t => go'[h] = go[h]
  BY <1>6 DEF Typed
<1>10. Fresh(t) /\ go'[t].op \in {"none", "task"}
  BY <1>5, <1>8, IdleFresh DEF Fresh
<1> QED
  BY <1>2, <1>3, <1>7, <1>8, <1>9, <1>10

\* A timer that is stopped never gets to its callback.
StoppedTimer(x) == x = idleTimer /\ Stops(idleTimer)

LEMMA ArmMoves ==
  ASSUME Typed, NEW g \in Goroutines, ArmIdle(g)
  PROVE  /\ go' \in [Goroutines -> Record] /\ go'[g] = Advance(go[g]) /\ At(g, "arm")
         /\ \/ /\ idleClosed /\ UNCHANGED idleVars
               /\ \A h \in Goroutines : h # g => go'[h] = go[h]
            \/ \E tm \in Timers :
                 /\ ~idleClosed /\ ~idleClosed' /\ idleWG' = idleWG - Stopped + 1 /\ idleTimer' = tm
                 /\ tm # g /\ Fresh(tm) /\ go'[tm].op = "idle" /\ (go[tm].op = "none" \/ StoppedTimer(tm))
                 /\ \A h \in Goroutines : h # g /\ h # tm =>
                      IF StoppedTimer(h) THEN go'[h] = Idle ELSE go'[h] = go[h]
<1>1. At(g, "arm")
  BY DEF ArmIdle
<1>2. Advance(go[g]) \in Record
  BY <1>1, Placed, Advancing
<1>3. CASE idleClosed
  <2>1. Step(g) /\ UNCHANGED idleVars
    BY <1>3 DEF ArmIdle
  <2> QED
    BY <1>1, <1>2, <1>3, <2>1 DEF Step, Typed
<1>4. CASE ~idleClosed
  <2> DEFINE r == [Idle EXCEPT !.op = "idle", !.step = 1]
  <2>1. r \in Record /\ r.op = "idle" /\ r.change = NoChange /\ \A name : ~Did(r, name)
    BY BeganAlone DEF OpNames
  <2>2. PICK tm \in Timers :
          /\ go[tm].op = "none" \/ (tm = idleTimer /\ Stops(tm))
          /\ idleWG' = idleWG - Stopped + 1 /\ idleTimer' = tm /\ UNCHANGED idleClosed
          /\ go' = [x \in Goroutines |->
                      IF x = g THEN Advance(go[x])
                      ELSE IF x = tm THEN r
                      ELSE IF x = idleTimer /\ Stops(idleTimer) THEN Idle ELSE go[x]]
    BY <1>4 DEF ArmIdle
  <2> HIDE DEF r
  <2>3. tm \in Goroutines /\ tm # g
    <3>1. CASE go[tm].op = "none"
      BY <1>1, <3>1, Placed DEF Goroutines
    <3>2. CASE tm = idleTimer /\ Stops(tm)
      BY <1>1, <3>2 DEF Stops, At, Goroutines
    <3> QED BY <2>2, <3>1, <3>2
  <2>4. go' \in [Goroutines -> Record]
    BY <1>2, <2>1, <2>2, Records DEF Typed
  <2>5. go'[g] = Advance(go[g]) /\ go'[tm] = r
    BY <2>2, <2>3
  <2>6. \A h \in Goroutines : h # g /\ h # tm =>
          IF StoppedTimer(h) THEN go'[h] = Idle ELSE go'[h] = go[h]
    BY <2>2 DEF StoppedTimer
  <2>7. Fresh(tm) /\ go'[tm].op = "idle" /\ (go[tm].op = "none" \/ StoppedTimer(tm))
    BY <2>1, <2>2, <2>5 DEF Fresh, StoppedTimer
  <2> QED
    BY <1>1, <1>4, <2>2, <2>3, <2>4, <2>5, <2>6, <2>7
<1> QED
  BY <1>3, <1>4

LEMMA StopMoves ==
  ASSUME Typed, NEW g \in Goroutines, StopIdle(g)
  PROVE  /\ go' \in [Goroutines -> Record] /\ go'[g] = Advance(go[g]) /\ At(g, "stopIdle")
         /\ ~StoppedTimer(g)
         /\ \A h \in Goroutines : h # g =>
              IF StoppedTimer(h) THEN go'[h] = Idle ELSE go'[h] = go[h]
<1>1. At(g, "stopIdle")
  BY DEF StopIdle
<1>2. Advance(go[g]) \in Record
  BY <1>1, Placed, Advancing
<1>3. go' = [x \in Goroutines |-> IF x = g THEN Advance(go[x])
                                 ELSE IF x = idleTimer /\ Stops(idleTimer) THEN Idle ELSE go[x]]
  BY DEF StopIdle
<1>4. go' \in [Goroutines -> Record]
  BY <1>2, <1>3, Records DEF Typed
<1>5. ~StoppedTimer(g)
  BY <1>1 DEF StoppedTimer, Stops, At
<1> QED
  BY <1>1, <1>3, <1>4, <1>5 DEF StoppedTimer

\* A step of an operation keeps what it carries, unless the operation ends.
LEMMA Advanced ==
  ASSUME NEW r \in Record, r.step \in DOMAIN Steps(r.op)
  PROVE  /\ Advance(r) = Idle \/ Advance(r).op = r.op
         /\ Advance(r).change \in {r.change, NoChange}
         /\ \A name : Did(Advance(r), name) => Did(r, name) \/ Does(r, name)
<1>1. Advance(r) = Idle \/ Advance(r) = [r EXCEPT !.step = @ + 1]
  BY DEF Advance
<1>2. [r EXCEPT !.step = @ + 1].op = r.op /\ [r EXCEPT !.step = @ + 1].change = r.change
  BY DEF Record
<1> QED
  BY <1>1, <1>2, Advancing, IdleFresh

\* Next, with the actions of goroutines that only take their next step together.
Stepping(g) ==
  \/ AppendChange(g) \/ CancelScheduled(g) \/ Lock(g) \/ Unlock(g)
  \/ WaitIdle(g) \/ StopQueue(g) \/ WaitQueue(g) \/ Final(g)
  \/ g \in Timers /\ RunTimer(g)
  \/ g \in Tasks /\ TaskCheck(g) /\ Step(g)
StepName(g) ==
  IF AppendChange(g) THEN "append" ELSE IF CancelScheduled(g) THEN "cancel"
  ELSE IF Lock(g) THEN "lock" ELSE IF Unlock(g) THEN "unlock" ELSE IF WaitIdle(g) THEN "waitIdle"
  ELSE IF StopQueue(g) THEN "stopQueue" ELSE IF WaitQueue(g) THEN "waitQueue"
  ELSE IF Final(g) THEN "final" ELSE IF Fire(g) THEN "armed" ELSE IF ForgetTimer(g) THEN "fired"
  ELSE "check"
GiveUp(g) == g \in Tasks /\ (TaskCanceled(g) \/ (TaskCheck(g) /\ End(g)))

LEMMA NextCases ==
  ASSUME Next
  PROVE  \/ \E g \in {Loop} \cup Others, op \in OpNames : Call(g, op) /\ (op = "options" => g = Loop)
         \/ Configure \/ TypingsInstalled
         \/ \E g \in Goroutines :
              \/ Stepping(g) \/ GiveUp(g) \/ ArmIdle(g) \/ Schedule(g) \/ StopIdle(g)
              \/ Flush(g) \/ ReadOverlays(g) \/ Update(g) \/ Reject(g) \/ Recover(g)
<1>1. LoopCalls \/ OtherCalls =>
        \E g \in {Loop} \cup Others, op \in OpNames : Call(g, op) /\ (op = "options" => g = Loop)
  BY OpsAssumption DEF LoopCalls, OtherCalls, OpNames
<1>2. \A g \in Goroutines : Run(g) \/ Lock(g) =>
        \/ Stepping(g) \/ ArmIdle(g) \/ Schedule(g) \/ StopIdle(g)
        \/ Flush(g) \/ ReadOverlays(g) \/ Update(g) \/ Reject(g) \/ Recover(g)
  BY DEF Run, Stepping
<1>3. \A t \in Tasks : RunTask(t) => t \in Goroutines /\ (Stepping(t) \/ GiveUp(t))
  BY DEF RunTask, Stepping, GiveUp, TaskCheck, Goroutines
<1>4. \A tm \in Timers : RunTimer(tm) => tm \in Goroutines /\ Stepping(tm)
  BY DEF Stepping, Goroutines
<1> QED
  BY <1>1, <1>2, <1>3, <1>4 DEF Next

LEMMA SteppingMoves ==
  ASSUME Typed, NEW g \in Goroutines, Stepping(g)
  PROVE  /\ At(g, StepName(g)) /\ Step(g)
         /\ Moved(g, {StepName(g)}) /\ go'[g] = Advance(go[g])
<1>1. At(g, StepName(g)) /\ Step(g)
  BY DEF Stepping, StepName, AppendChange, CancelScheduled, Lock, Unlock, WaitIdle, StopQueue,
         WaitQueue, Final, RunTimer, Fire, ForgetTimer, TaskCheck
<1> QED
  BY <1>1, Stepped

LEMMA GiveUpMoves ==
  ASSUME Typed, NEW g \in Goroutines, GiveUp(g)
  PROVE  At(g, "check") /\ Moved(g, {}) /\ go'[g] = Idle
  BY Ended DEF GiveUp, TaskCanceled, TaskCheck

LEMMA InitTyped == Init => Typed
<1> SUFFICES ASSUME Init PROVE Typed
  OBVIOUS
<1>1. go \in [Goroutines -> Record]
  BY Records DEF Init
<1>2. current \in Told /\ taskGen \in [Tasks -> Nat]
  BY Records DEF Init
<1> QED
  BY <1>1, <1>2 DEF Init, Typed

\* The variables that count, apart from the goroutines and the current snapshot.
Counted ==
  /\ appended \in Nat /\ processed \in Nat /\ configNow \in Nat
  /\ ataNow \in Nat /\ ataDue \in SUBSET Nat
  /\ generation \in Nat /\ taskGen \in [Tasks -> Nat]
  /\ scheduled \in Tasks \cup {None} /\ canceled \in SUBSET Tasks
  /\ idleTimer \in Timers \cup {None} /\ idleWG \in Int

\* A recovering API request holds the lock, so that Close has not given the
\* snapshot up.
Recovering == \A g \in Goroutines : Does(go[g], "recover") => current # NoSnapshot

LEMMA CountedKept == Typed /\ [Next]_vars => Counted'
<1> SUFFICES ASSUME Typed, [Next]_vars PROVE Counted'
  OBVIOUS
<1> USE DEF Counted, pendingVars, taskVars, idleVars
<1>1. CASE UNCHANGED vars
  BY <1>1 DEF vars, Typed
<1>2. ASSUME NEW g \in Goroutines, NEW op \in OpNames, Call(g, op) PROVE Counted'
  BY <1>2 DEF Call, Typed
<1>3. CASE Configure
  BY <1>3 DEF Configure, Typed
<1>4. CASE TypingsInstalled
  BY <1>4 DEF TypingsInstalled, Typed
<1>5. ASSUME NEW g \in Goroutines, Stepping(g) PROVE Counted'
  <2>1. CASE AppendChange(g)
    BY <2>1 DEF AppendChange, Typed
  <2>2. CASE CancelScheduled(g)
    BY <2>2 DEF CancelScheduled, Typed
  <2>3. CASE Lock(g)
    BY <2>3 DEF Lock, Typed
  <2>4. CASE Unlock(g)
    BY <2>4 DEF Unlock, Typed
  <2>5. CASE WaitIdle(g) \/ StopQueue(g) \/ WaitQueue(g) \/ Final(g)
    BY <2>5 DEF WaitIdle, StopQueue, WaitQueue, Final, Typed
  <2>6. CASE g \in Timers /\ RunTimer(g)
    BY <2>6 DEF RunTimer, Fire, ForgetTimer, Typed
  <2>7. CASE g \in Tasks /\ TaskCheck(g) /\ Step(g)
    BY <2>7 DEF TaskCheck, Typed
  <2> QED
    BY <1>5, <2>1, <2>2, <2>3, <2>4, <2>5, <2>6, <2>7 DEF Stepping
<1>6. ASSUME NEW g \in Goroutines, GiveUp(g) PROVE Counted'
  BY <1>6 DEF GiveUp, TaskCanceled, TaskCheck, Typed
<1>7. ASSUME NEW g \in Goroutines, ArmIdle(g) PROVE Counted'
  BY <1>7 DEF ArmIdle, Stopped, Typed
<1>8. ASSUME NEW g \in Goroutines, Schedule(g) PROVE Counted'
  BY <1>8 DEF Schedule, Replaced, Typed
<1>9. ASSUME NEW g \in Goroutines, StopIdle(g) PROVE Counted'
  BY <1>9 DEF StopIdle, Stopped, Typed
<1>10. ASSUME NEW g \in Goroutines, Flush(g) PROVE Counted'
  <2>1. Flushed(g) \in Told
    BY <1>10, FlushMoves
  <2>2. processed' \in Nat
    BY <1>10, <2>1 DEF Flush, Told
  <2> QED
    BY <1>10, <2>2 DEF Flush, Typed
<1>11. ASSUME NEW g \in Goroutines, ReadOverlays(g) PROVE Counted'
  BY <1>11 DEF ReadOverlays, Typed
<1>12. ASSUME NEW g \in Goroutines, Update(g) PROVE Counted'
  BY <1>12 DEF Update, Typed
<1>13. ASSUME NEW g \in Goroutines, Reject(g) PROVE Counted'
  BY <1>13 DEF Reject, Typed
<1>14. ASSUME NEW g \in Goroutines, Recover(g) PROVE Counted'
  BY <1>14 DEF Recover, Typed
<1> QED
  BY <1>1, <1>2, <1>3, <1>4, <1>5, <1>6, <1>7, <1>8, <1>9, <1>10, <1>11, <1>12, <1>13, <1>14,
     NextCases DEF Goroutines

LEMMA TypedKept == Typed /\ Recovering /\ [Next]_vars => Typed'
<1> SUFFICES ASSUME Typed, Recovering, [Next]_vars PROVE Typed'
  OBVIOUS
<1>1. Counted'
  BY CountedKept
<1> SUFFICES go' \in [Goroutines -> Record] /\ current' \in Told \cup {NoSnapshot}
  BY <1>1 DEF Counted, Typed
<1> USE DEF pendingVars, taskVars, idleVars
<1>2. current \in Told \cup {NoSnapshot} /\ go \in [Goroutines -> Record]
  BY DEF Typed
<1>3. CASE UNCHANGED vars \/ Configure \/ TypingsInstalled
  BY <1>2, <1>3 DEF vars, Configure, TypingsInstalled
<1>4. ASSUME NEW g \in Goroutines, NEW op \in OpNames, Call(g, op)
      PROVE go' \in [Goroutines -> Record] /\ current' \in Told \cup {NoSnapshot}
  BY <1>2, <1>4, CallMoves DEF Call
<1>5. ASSUME NEW g \in Goroutines, Stepping(g)
      PROVE go' \in [Goroutines -> Record] /\ current' \in Told \cup {NoSnapshot}
  <2>1. go' \in [Goroutines -> Record]
    BY <1>5, SteppingMoves DEF Moved
  <2>2. current' \in {current, NoSnapshot}
    BY <1>5 DEF Stepping, AppendChange, CancelScheduled, Lock, Unlock, WaitIdle, StopQueue,
                WaitQueue, Final, RunTimer, Fire, ForgetTimer, TaskCheck
  <2> QED
    BY <1>2, <2>1, <2>2
<1>6. ASSUME NEW g \in Goroutines, GiveUp(g)
      PROVE go' \in [Goroutines -> Record] /\ current' \in Told \cup {NoSnapshot}
  BY <1>2, <1>6, GiveUpMoves DEF Moved, GiveUp, TaskCanceled, TaskCheck
<1>7. ASSUME NEW g \in Goroutines, ArmIdle(g)
      PROVE go' \in [Goroutines -> Record] /\ current' \in Told \cup {NoSnapshot}
  BY <1>2, <1>7, ArmMoves DEF ArmIdle
<1>8. ASSUME NEW g \in Goroutines, Schedule(g)
      PROVE go' \in [Goroutines -> Record] /\ current' \in Told \cup {NoSnapshot}
  <2>1. current' = current
    BY <1>8 DEF Schedule
  <2> QED
    BY <1>2, <1>8, <2>1, ScheduleMoves
<1>9. ASSUME NEW g \in Goroutines, StopIdle(g)
      PROVE go' \in [Goroutines -> Record] /\ current' \in Told \cup {NoSnapshot}
  BY <1>2, <1>9, StopMoves DEF StopIdle
<1>10. ASSUME NEW g \in Goroutines, Flush(g)
       PROVE go' \in [Goroutines -> Record] /\ current' \in Told \cup {NoSnapshot}
  <2>1. current' = current
    BY <1>10 DEF Flush
  <2> QED
    BY <1>2, <1>10, <2>1, FlushMoves DEF Moved
<1>11. ASSUME NEW g \in Goroutines, ReadOverlays(g)
       PROVE go' \in [Goroutines -> Record] /\ current' \in Told \cup {NoSnapshot}
  BY <1>2, <1>11, ReadMoves DEF Moved, ReadOverlays
<1>12. ASSUME NEW g \in Goroutines, Update(g)
       PROVE go' \in [Goroutines -> Record] /\ current' \in Told \cup {NoSnapshot}
  <2>1. current = NoSnapshot => current' = current
    BY <1>12 DEF Update
  <2> QED
    BY <1>2, <1>12, <2>1, UpdateMoves DEF Moved
<1>13. ASSUME NEW g \in Goroutines, Reject(g)
       PROVE go' \in [Goroutines -> Record] /\ current' \in Told \cup {NoSnapshot}
  BY <1>2, <1>13, RejectMoves DEF Moved, Reject
<1>14. ASSUME NEW g \in Goroutines, Recover(g)
       PROVE go' \in [Goroutines -> Record] /\ current' \in Told \cup {NoSnapshot}
  <2>1. current # NoSnapshot /\ go[g].change \in Told /\ current' = Recovered(go[g].change)
    BY <1>2, <1>14 DEF Recover, Recovering, Does, At, Record
  <2> QED
    BY <1>14, <2>1, AppliedTold, RecoverMoves DEF Moved
<1> QED
  BY <1>3, <1>4, <1>5, <1>6, <1>7, <1>8, <1>9, <1>10, <1>11, <1>12, <1>13, <1>14,
     NextCases DEF Goroutines

-----------------------------------------------------------------------------
(* The lock of the updates.                                                     *)

\* Whoever is past taking the lock, and not at the end of its operation, holds it.
Holding == \A g \in Goroutines : Did(go[g], "lock") => updateMu = g

LEMMA HoldingMoved ==
  ASSUME Typed, Holding, NEW g \in Goroutines, NEW N, Moved(g, N), "lock" \notin N,
         updateMu' = updateMu
  PROVE  Holding'
  BY DEF Holding, Moved

LEMMA HoldingGivenBack ==
  ASSUME Typed, Holding, NEW g \in Goroutines, Moved(g, {}), go'[g] = Idle,
         updateMu = g, updateMu' = None
  PROVE  Holding'
<1> SUFFICES ASSUME NEW h \in Goroutines, Did(go'[h], "lock") PROVE FALSE
  BY DEF Holding
<1>1. h # g
  BY IdleFresh
<1>2. Did(go[h], "lock")
  BY <1>1 DEF Moved
<1> QED
  BY <1>1, <1>2 DEF Holding

\* At the end, and when it recovers, an operation holds the lock.
LEMMA Holders ==
  ASSUME Typed, Holding, NEW g \in Goroutines,
         NEW name \in {"flush", "recover", "unlock", "final"}, At(g, name)
  PROVE  updateMu = g /\ (name \in {"unlock", "final"} => Advance(go[g]) = Idle)
<1>1. Fits(go[g].op, Steps(go[g].op), go[g].step) /\ Steps(go[g].op)[go[g].step] = name
  BY Placed DEF At
<1>2. Did(go[g], "lock")
  BY <1>1 DEF Fits, Did
<1>3. name \in {"unlock", "final"} => go[g].step = Len(Steps(go[g].op))
  BY <1>1 DEF Fits
<1> QED
  BY <1>2, <1>3 DEF Holding, Advance

LEMMA HoldingKept == Typed /\ Holding /\ [Next]_vars => Holding'
<1> SUFFICES ASSUME Typed, Holding, [Next]_vars PROVE Holding'
  OBVIOUS
<1>1. CASE UNCHANGED vars \/ Configure \/ TypingsInstalled
  BY <1>1 DEF vars, Configure, TypingsInstalled, Holding
<1>2. ASSUME NEW g \in Goroutines, NEW op \in OpNames, Call(g, op) PROVE Holding'
  BY <1>2, CallMoves DEF Call, Holding, Fresh
<1>3. ASSUME NEW g \in Goroutines, Stepping(g) PROVE Holding'
  <2>1. Moved(g, {StepName(g)}) /\ go'[g] = Advance(go[g])
    BY <1>3, SteppingMoves
  <2>2. CASE Lock(g)
    <3>1. updateMu = None /\ updateMu' = g
      BY <2>2 DEF Lock
    <3>2. \A h \in Goroutines : ~Did(go[h], "lock")
      BY <3>1, GoroutinesAssumption DEF Holding, Goroutines
    <3> QED
      BY <2>1, <3>1, <3>2 DEF Moved, Holding
  <2>3. CASE Unlock(g) \/ Final(g)
    <3>1. (At(g, "unlock") \/ At(g, "final")) /\ updateMu' = None /\ Step(g)
      BY <2>3 DEF Unlock, Final
    <3>2. updateMu = g /\ Advance(go[g]) = Idle
      BY <3>1, Holders
    <3>3. End(g)
      BY <3>1, <3>2 DEF Step, End
    <3> QED
      BY <3>1, <3>2, <3>3, Ended, HoldingGivenBack
  <2>4. CASE ~Lock(g) /\ ~Unlock(g) /\ ~Final(g)
    <3>1. updateMu' = updateMu
      BY <1>3, <2>4 DEF Stepping, AppendChange, CancelScheduled, WaitIdle, StopQueue, WaitQueue,
                        RunTimer, Fire, ForgetTimer, TaskCheck
    <3>2. "lock" \notin {StepName(g)}
      BY <2>4 DEF StepName
    <3> QED
      BY <2>1, <3>1, <3>2, HoldingMoved
  <2> QED
    BY <2>2, <2>3, <2>4
<1>4. ASSUME NEW g \in Goroutines, GiveUp(g) PROVE Holding'
  <2>1. updateMu' = updateMu
    BY <1>4 DEF GiveUp, TaskCanceled, TaskCheck
  <2> QED
    BY <1>4, <2>1, GiveUpMoves, HoldingMoved
<1>5. ASSUME NEW g \in Goroutines, Typed, NEW name, At(g, name), name # "lock", updateMu' = updateMu,
             go'[g] = Advance(go[g]),
             \A h \in Goroutines : h # g => \/ go'[h] = go[h] \/ go'[h] = Idle \/ Fresh(h)
      PROVE  Holding'
  <2>1. go[g] \in Record /\ go[g].step \in DOMAIN Steps(go[g].op)
    BY <1>5, Placed
  <2>2. Did(go'[g], "lock") => Did(go[g], "lock")
    BY <1>5, <2>1, Advanced DEF Does, At
  <2> QED
    BY <1>5, <2>2, IdleFresh DEF Holding, Fresh
<1>6. ASSUME NEW g \in Goroutines, ArmIdle(g) PROVE Holding'
  <2>1. updateMu' = updateMu
    BY <1>6 DEF ArmIdle
  <2> QED
    BY <1>5, <1>6, <2>1, ArmMoves
<1>7. ASSUME NEW g \in Goroutines, Schedule(g) PROVE Holding'
  <2>1. updateMu' = updateMu /\ At(g, "schedule")
    BY <1>7 DEF Schedule
  <2> QED
    BY <1>5, <1>7, <2>1, ScheduleMoves
<1>8. ASSUME NEW g \in Goroutines, StopIdle(g) PROVE Holding'
  <2>1. updateMu' = updateMu
    BY <1>8 DEF StopIdle
  <2> QED
    BY <1>5, <1>8, <2>1, StopMoves
<1>9. ASSUME NEW g \in Goroutines, Flush(g) PROVE Holding'
  <2>1. updateMu' = updateMu
    BY <1>9 DEF Flush
  <2> QED
    BY <1>9, <2>1, FlushMoves, HoldingMoved
<1>10. ASSUME NEW g \in Goroutines, ReadOverlays(g) \/ Reject(g) \/ Recover(g) PROVE Holding'
  <2>1. updateMu' = updateMu
    BY <1>10 DEF ReadOverlays, Reject, Recover
  <2> QED
    BY <1>10, <2>1, ReadMoves, RejectMoves, RecoverMoves, HoldingMoved
<1>11. ASSUME NEW g \in Goroutines, Update(g) PROVE Holding'
  <2>1. CASE current = NoSnapshot
    <3>1. Moved(g, {}) /\ go'[g] = Idle /\ Release(g)
      BY <1>11, <2>1, Ended DEF Update
    <3>2. CASE updateMu = g
      BY <3>1, <3>2, HoldingGivenBack DEF Release
    <3>3. CASE updateMu # g
      BY <3>1, <3>3, HoldingMoved DEF Release
    <3> QED BY <3>2, <3>3
  <2>2. CASE current # NoSnapshot
    <3>1. updateMu' = updateMu
      BY <1>11, <2>2 DEF Update
    <3> QED
      BY <1>11, <3>1, UpdateMoves, HoldingMoved
  <2> QED BY <2>1, <2>2
<1> QED
  BY <1>1, <1>2, <1>3, <1>4, <1>6, <1>7, <1>8, <1>9, <1>10, <1>11, NextCases DEF Goroutines

LEMMA RecoveringKept == Typed /\ Holding /\ Holding' /\ Recovering /\ [Next]_vars => Recovering'
<1> SUFFICES ASSUME Typed, Holding, Holding', Recovering, [Next]_vars,
                    NEW h \in Goroutines, Does(go'[h], "recover"), current' = NoSnapshot
             PROVE  FALSE
  BY DEF Recovering
<1>1. ASSUME NEW g \in Goroutines, NEW name, At(g, name), name # "update",
             go'[g] = Advance(go[g]), g = h
      PROVE  FALSE
  <2>1. go[g] \in Record /\ go[g].step \in DOMAIN Steps(go[g].op)
    BY <1>1, Placed
  <2>2. go'[g] = Idle \/ (go'[g].op = go[g].op /\ go'[g].step = go[g].step + 1)
    BY <1>1, <2>1 DEF Advance, Record
  <2> QED
    BY <1>1, <2>2, NotRecovering
<1>2. ASSUME Fresh(h) PROVE FALSE
  <2>1. Fits(go'[h].op, Steps(go'[h].op), go'[h].step) /\ Steps(go'[h].op)[go'[h].step] = "recover"
    BY StepsWellOrdered DEF Does, WellOrdered
  <2>2. Did(go'[h], "lock")
    BY <2>1 DEF Fits, Did
  <2> QED
    BY <1>2, <2>2 DEF Fresh
<1>3. ASSUME current = NoSnapshot, go'[h] = go[h] PROVE FALSE
  BY <1>3 DEF Recovering
<1>4. CASE UNCHANGED vars \/ Configure \/ TypingsInstalled
  BY <1>3, <1>4 DEF vars, Configure, TypingsInstalled
<1>5. ASSUME NEW g \in Goroutines, NEW op \in OpNames, Call(g, op) PROVE FALSE
  BY <1>2, <1>3, <1>5, CallMoves DEF Call
<1>6. ASSUME NEW g \in Goroutines, Stepping(g) PROVE FALSE
  <2>1. CASE Final(g)
    <3>1. updateMu' = None
      BY <2>1 DEF Final
    <3>2. Did(go'[h], "lock")
      BY StepsWellOrdered DEF Does, WellOrdered, Fits, Did
    <3> QED
      BY <3>1, <3>2, GoroutinesAssumption DEF Holding, Goroutines
  <2>2. CASE ~Final(g)
    <3>1. current' = current
      BY <1>6, <2>2 DEF Stepping, AppendChange, CancelScheduled, Lock, Unlock, WaitIdle, StopQueue,
                        WaitQueue, RunTimer, Fire, ForgetTimer, TaskCheck
    <3>2. StepName(g) # "update"
      BY DEF StepName
    <3> QED
      BY <1>1, <1>3, <1>6, <3>1, <3>2, SteppingMoves DEF Moved
  <2> QED BY <2>1, <2>2
<1>7. ASSUME NEW g \in Goroutines, GiveUp(g) PROVE FALSE
  <2>1. current' = current
    BY <1>7 DEF GiveUp, TaskCanceled, TaskCheck
  <2> QED
    BY <1>3, <1>7, <2>1, GiveUpMoves, NothingDone DEF Moved
<1>8. ASSUME NEW g \in Goroutines, ArmIdle(g) PROVE FALSE
  <2>1. current' = current
    BY <1>8 DEF ArmIdle
  <2> QED
    BY <1>1, <1>2, <1>3, <1>8, <2>1, ArmMoves, NothingDone
<1>9. ASSUME NEW g \in Goroutines, Schedule(g) PROVE FALSE
  <2>1. current' = current /\ At(g, "schedule")
    BY <1>9 DEF Schedule
  <2> QED
    BY <1>1, <1>2, <1>3, <1>9, <2>1, ScheduleMoves
<1>10. ASSUME NEW g \in Goroutines, StopIdle(g) PROVE FALSE
  <2>1. current' = current
    BY <1>10 DEF StopIdle
  <2> QED
    BY <1>1, <1>3, <1>10, <2>1, StopMoves, NothingDone
<1>11. ASSUME NEW g \in Goroutines, Flush(g) PROVE FALSE
  <2>1. current' = current
    BY <1>11 DEF Flush
  <2>2. ~Does(go'[g], "recover")
    BY <1>11, FlushMoves DEF Does
  <2> QED
    BY <1>3, <1>11, <2>1, <2>2, FlushMoves DEF Moved
<1>12. ASSUME NEW g \in Goroutines, ReadOverlays(g) PROVE FALSE
  <2>1. current' = current
    BY <1>12 DEF ReadOverlays
  <2>2. ~Does(go'[g], "recover")
    BY <1>12, ReadMoves
  <2> QED
    BY <1>3, <1>12, <2>1, <2>2, ReadMoves DEF Moved
<1>13. ASSUME NEW g \in Goroutines, Update(g) PROVE FALSE
  <2>1. current' \in Told \/ current' = current
    BY <1>13, UpdateMoves DEF Update, Typed
  <2> QED
    BY <1>3, <1>13, <2>1, UpdateMoves, Records DEF Moved
<1>14. ASSUME NEW g \in Goroutines, Reject(g) PROVE FALSE
  BY <1>14 DEF Reject
<1>15. ASSUME NEW g \in Goroutines, Recover(g) PROVE FALSE
  <2>1. current # NoSnapshot /\ go[g].change \in Told /\ current' = Recovered(go[g].change)
    BY <1>15 DEF Recover, Recovering, Does, At, Record, Typed
  <2> QED
    BY <2>1, AppliedTold, Records
<1> QED
  BY <1>4, <1>5, <1>6, <1>7, <1>8, <1>9, <1>10, <1>11, <1>12, <1>13, <1>14, <1>15,
     NextCases DEF Goroutines

-----------------------------------------------------------------------------
(* Debounced updates: a task that waits and was not canceled can be canceled.   *)

\* A waiting task has a generation, and the newest one only while it is not canceled.
Generations ==
  \A t \in Tasks : At(t, "check") =>
    taskGen[t] <= generation /\ (t \in canceled => taskGen[t] < generation)

StrayInv == Generations /\ NoStrayTask

\* Nobody starts to wait but a new task.
LEMMA NotWaiting ==
  ASSUME Typed, NEW g \in Goroutines, NEW name, At(g, name), go'[g] \in Record,
         go'[g] = Idle \/ (go'[g].op = go[g].op /\ go'[g].step > go[g].step)
  PROVE  ~At(g, "check")'
<1> SUFFICES ASSUME Does(go'[g], "check") PROVE FALSE
  BY DEF At, Does
<1>1. go'[g].step = 1
  BY StepsWellOrdered DEF Does, WellOrdered, Fits
<1>2. go'[g].step > go[g].step
  BY NothingDone
<1>3. go[g].step \in Nat /\ go[g].step >= 1
  BY Placed DEF Record
<1> QED
  BY <1>1, <1>2, <1>3

LEMMA AdvancedFurther ==
  ASSUME Typed, NEW g \in Goroutines, NEW name, At(g, name), go'[g] = Advance(go[g])
  PROVE  ~At(g, "check")'
<1>1. go[g] \in Record /\ go[g].step \in DOMAIN Steps(go[g].op)
  BY Placed
<1>2. Advance(go[g]) \in Record
  BY <1>1, Advancing
<1>3. Advance(go[g]) = Idle \/ Advance(go[g]) = [go[g] EXCEPT !.step = @ + 1]
  BY DEF Advance
<1>4. go'[g] = Idle \/ (go'[g].op = go[g].op /\ go'[g].step > go[g].step)
  BY <1>1, <1>3 DEF Record
<1> QED
  BY <1>2, <1>4, NotWaiting

LEMMA StraySame ==
  ASSUME Typed, StrayInv, UNCHANGED taskVars,
         \A t \in Tasks : At(t, "check")' => At(t, "check")
  PROVE  StrayInv'
  BY DEF StrayInv, Generations, NoStrayTask, taskVars

\* The callbacks of timers are no tasks.
LEMMA TimersAreNoTasks ==
  /\ Tasks \subseteq Goroutines /\ Timers \subseteq Goroutines
  /\ \A tm \in Timers : tm \notin Tasks /\ tm # Loop /\ tm \notin Others
  /\ \A t \in Tasks : t # Loop /\ t \notin Others /\ t # None
  /\ None \notin Goroutines
  BY GoroutinesAssumption DEF Goroutines

LEMMA StrayKept == Typed /\ StrayInv /\ [Next]_vars => StrayInv'
<1> SUFFICES ASSUME Typed, StrayInv, [Next]_vars PROVE StrayInv'
  OBVIOUS
<1> USE DEF pendingVars, idleVars
<1>1. \A h \in Goroutines : go'[h] = go[h] => (At(h, "check")' => At(h, "check"))
  BY DEF At
<1>2. \A h \in Goroutines : go'[h] = Idle => ~At(h, "check")'
  BY NothingDone DEF At, Does
<1>3. CASE UNCHANGED vars \/ Configure \/ TypingsInstalled
  BY <1>1, <1>3, StraySame, TimersAreNoTasks DEF vars, Configure, TypingsInstalled
<1>4. ASSUME NEW g \in {Loop} \cup Others, NEW op \in OpNames, Call(g, op) PROVE StrayInv'
  <2>1. g \in Goroutines /\ UNCHANGED taskVars
    BY <1>4 DEF Call, Goroutines
  <2>2. \A t \in Tasks : go'[t] = go[t]
    BY <1>4, <2>1, CallMoves, TimersAreNoTasks
  <2> QED
    BY <1>1, <2>1, <2>2, StraySame, TimersAreNoTasks
<1>5. ASSUME NEW g \in Goroutines, NEW name, NEW N, At(g, name), Moved(g, N), UNCHANGED taskVars
      PROVE  StrayInv'
  <2>1. ~At(g, "check")'
    BY <1>5, NotWaiting DEF Moved
  <2>2. \A t \in Tasks : At(t, "check")' => At(t, "check")
    BY <1>1, <1>5, <2>1, TimersAreNoTasks DEF Moved
  <2> QED
    BY <1>5, <2>2, StraySame
<1>6. ASSUME NEW g \in Goroutines, Stepping(g) PROVE StrayInv'
  <2>1. At(g, StepName(g)) /\ Moved(g, {StepName(g)})
    BY <1>6, SteppingMoves
  <2>2. ~At(g, "check")' /\ \A t \in Tasks : t # g => (At(t, "check")' => At(t, "check"))
    BY <1>1, <2>1, NotWaiting, TimersAreNoTasks DEF Moved
  <2>3. CASE CancelScheduled(g) /\ scheduled # None
    <3>1. /\ canceled' = canceled \cup {scheduled} /\ scheduled' = None
          /\ generation' = generation + 1 /\ UNCHANGED taskGen
      BY <2>3 DEF CancelScheduled
    <3>2. ASSUME NEW t \in Tasks, At(t, "check")'
          PROVE  /\ taskGen'[t] <= generation' /\ (t \in canceled' => taskGen'[t] < generation')
                 /\ t \in canceled'
      <4>1. At(t, "check") /\ generation \in Nat /\ taskGen[t] \in Nat
        BY <2>2, <3>2 DEF Typed
      <4>2. taskGen[t] <= generation /\ (t \in canceled \/ scheduled = t)
        BY <4>1 DEF StrayInv, Generations, NoStrayTask
      <4> QED
        BY <3>1, <4>1, <4>2
    <3> QED
      BY <3>2 DEF StrayInv, Generations, NoStrayTask
  <2>4. CASE g \in Tasks /\ TaskCheck(g) /\ Step(g) /\ ~UNCHANGED taskVars
    <3>1. generation = taskGen[g] /\ scheduled' = None /\ UNCHANGED <<generation, canceled, taskGen>>
          /\ At(g, "check")
      BY <2>4 DEF TaskCheck, taskVars
    <3>2. g \notin canceled /\ scheduled = g
      <4>1. g \in canceled => taskGen[g] < generation
        BY <2>4, <3>1 DEF StrayInv, Generations
      <4>2. generation \in Nat
        BY DEF Typed
      <4> QED
        BY <2>4, <3>1, <4>1, <4>2 DEF StrayInv, NoStrayTask
    <3>3. ASSUME NEW t \in Tasks, At(t, "check")'
          PROVE  /\ taskGen'[t] <= generation' /\ (t \in canceled' => taskGen'[t] < generation')
                 /\ t \in canceled'
      <4>1. At(t, "check") /\ t # g
        BY <2>2, <3>3
      <4>2. t \in canceled
        BY <3>2, <4>1 DEF StrayInv, NoStrayTask
      <4> QED
        BY <3>1, <4>1, <4>2 DEF StrayInv, Generations
    <3> QED
      BY <3>3 DEF StrayInv, Generations, NoStrayTask
  <2>5. CASE UNCHANGED taskVars
    BY <1>5, <2>1, <2>5
  <2>6. UNCHANGED taskVars \/ (CancelScheduled(g) /\ scheduled # None)
        \/ (g \in Tasks /\ TaskCheck(g) /\ Step(g))
    BY <1>6 DEF Stepping, AppendChange, CancelScheduled, Lock, Unlock, WaitIdle, StopQueue,
                WaitQueue, Final, RunTimer, Fire, ForgetTimer, taskVars
  <2> QED BY <2>3, <2>4, <2>5, <2>6
<1>7. ASSUME NEW g \in Goroutines, GiveUp(g) PROVE StrayInv'
  <2>1. CASE UNCHANGED taskVars
    BY <1>5, <1>7, <2>1, GiveUpMoves
  <2>2. UNCHANGED taskVars
    <3>1. TaskCanceled(g) => UNCHANGED taskVars
      BY DEF TaskCanceled
    <3>2. CASE TaskCheck(g) /\ End(g)
      <4>1. generation # taskGen[g]
        <5> SUFFICES ASSUME generation = taskGen[g] PROVE FALSE
          OBVIOUS
        <5>1. Step(g) /\ At(g, "check")
          BY <3>2 DEF TaskCheck
        <5>2. go'[g] = Advance(go[g]) /\ go'[g] = Idle
          BY <3>2, <5>1, Stepped, Ended
        <5>3. go[g].step = Len(Steps(go[g].op))
          BY <5>1, <5>2, Placed, NothingDone DEF Advance, Idle, Record
        <5>4. Fits(go[g].op, Steps(go[g].op), go[g].step)
          BY <5>1, Placed
        <5>5. go[g].op = "task" /\ go[g].step = 1
          BY <5>1, <5>4 DEF Fits, At
        <5>6. Steps("task") = <<"check", "lock", "flush", "update", "unlock">>
          BY DEF Steps, CloseSteps, DidCloseFileSteps
        <5>7. Len(Steps("task")) = 5
          BY <5>6
        <5>8. Len(Steps(go[g].op)) = Len(Steps("task"))
          BY <5>5
        <5>9. 1 = 5
          BY <5>3, <5>5, <5>7, <5>8
        <5> QED BY <5>9
      <4> QED BY <3>2, <4>1 DEF TaskCheck, taskVars
    <3> QED BY <1>7, <3>1, <3>2 DEF GiveUp
  <2> QED BY <2>1, <2>2
<1>8. ASSUME NEW g \in Goroutines, ArmIdle(g) PROVE StrayInv'
  <2>1. UNCHANGED taskVars
    BY <1>8 DEF ArmIdle
  <2>2. At(g, "arm") /\ ~At(g, "check")'
    BY <1>8, ArmMoves, AdvancedFurther
  <2>3. \A t \in Tasks : t # g => go'[t] = go[t] \/ go'[t] = Idle
    BY <1>8, ArmMoves, TimersAreNoTasks
  <2> QED
    BY <1>1, <1>2, <2>1, <2>2, <2>3, StraySame, TimersAreNoTasks
<1>9. ASSUME NEW g \in Goroutines, Schedule(g) PROVE StrayInv'
  <2>1. PICK t \in Tasks :
          /\ t # g /\ canceled' = (canceled \cup Replaced) \ {t}
          /\ taskGen' = [taskGen EXCEPT ![t] = generation + 1] /\ scheduled' = t
          /\ go'[g] = Advance(go[g])
          /\ \A h \in Goroutines : h # g /\ h # t => go'[h] = go[h]
    BY <1>9, ScheduleMoves
  <2>2. generation' = generation + 1 /\ generation \in Nat /\ taskGen \in [Tasks -> Nat]
    BY <1>9 DEF Schedule, Typed
  <2>3. ~At(g, "check")'
    BY <1>9, <2>1, AdvancedFurther DEF Schedule
  <2>4. ASSUME NEW u \in Tasks, At(u, "check")'
        PROVE  /\ taskGen'[u] <= generation' /\ (u \in canceled' => taskGen'[u] < generation')
               /\ u \in canceled' \/ scheduled' = u
    <3>1. CASE u = t
      BY <2>1, <2>2, <3>1
    <3>2. CASE u # t
      <4>1. At(u, "check")
        BY <1>1, <2>1, <2>3, <2>4, <3>2, TimersAreNoTasks
      <4>2. taskGen[u] <= generation /\ (u \in canceled \/ scheduled = u)
        BY <4>1 DEF StrayInv, Generations, NoStrayTask
      <4>3. u \in canceled'
        BY <2>1, <3>2, <4>2, TimersAreNoTasks DEF Replaced
      <4>4. taskGen'[u] = taskGen[u] /\ taskGen[u] \in Nat
        BY <2>1, <2>2, <3>2
      <4> QED
        BY <2>2, <4>2, <4>3, <4>4
    <3> QED BY <3>1, <3>2
  <2> QED
    BY <2>4 DEF StrayInv, Generations, NoStrayTask
<1>10. ASSUME NEW g \in Goroutines, StopIdle(g) PROVE StrayInv'
  <2>1. UNCHANGED taskVars
    BY <1>10 DEF StopIdle
  <2>2. ~At(g, "check")'
    BY <1>10, StopMoves, AdvancedFurther
  <2>3. \A t \in Tasks : t # g => go'[t] = go[t] \/ go'[t] = Idle
    BY <1>10, StopMoves, TimersAreNoTasks
  <2> QED
    BY <1>1, <1>2, <2>1, <2>2, <2>3, StraySame, TimersAreNoTasks
<1>11. ASSUME NEW g \in Goroutines, Flush(g) PROVE StrayInv'
  <2>1. UNCHANGED taskVars /\ At(g, "flush")
    BY <1>11 DEF Flush
  <2> QED
    BY <1>5, <1>11, <2>1, FlushMoves
<1>12. ASSUME NEW g \in Goroutines, ReadOverlays(g) PROVE StrayInv'
  BY <1>5, <1>12, ReadMoves DEF ReadOverlays
<1>13. ASSUME NEW g \in Goroutines, Update(g) PROVE StrayInv'
  <2>1. UNCHANGED taskVars /\ At(g, "update")
    BY <1>13 DEF Update
  <2> QED
    BY <1>5, <1>13, <2>1, UpdateMoves
<1>14. ASSUME NEW g \in Goroutines, Reject(g) PROVE StrayInv'
  BY <1>5, <1>14, RejectMoves DEF Reject
<1>15. ASSUME NEW g \in Goroutines, Recover(g) PROVE StrayInv'
  BY <1>5, <1>15, RecoverMoves DEF Recover
<1> QED
  BY <1>3, <1>4, <1>6, <1>7, <1>8, <1>9, <1>10, <1>11, <1>12, <1>13, <1>14, <1>15, NextCases

-----------------------------------------------------------------------------
(* What was flushed is not lost.                                                *)

Cargo(r) == r.change.files # {} \/ r.change.ata # {}
Carrying == \A g \in Goroutines : Cargo(go[g]) => Does(go[g], "update") \/ Does(go[g], "recover")

\* NothingLost by goroutines.
Kept ==
  current # NoSnapshot =>
    /\ \A n \in 1 .. processed : n \in current.files \/ \E g \in Goroutines : n \in go[g].change.files
    /\ \A a \in 1 .. ataNow : a \in ataDue \cup current.ata \/ \E g \in Goroutines : a \in go[g].change.ata
LEMMA KeptNothingLost == Kept => NothingLost
  BY DEF Kept, NothingLost, InFlight

LostInv == Carrying /\ Kept

\* Goroutine h carries what it carried, or it carried nothing.
Carries(h) ==
  \/ go'[h] = go[h]
  \/ ~Cargo(go[h]) /\ go'[h].change \in {go[h].change, NoChange}

LEMMA CargoSame ==
  ASSUME Typed, Carrying, \A h \in Goroutines : Carries(h)
  PROVE  /\ Carrying'
         /\ \A h \in Goroutines : go'[h].change.files = go[h].change.files
                                  /\ go'[h].change.ata = go[h].change.ata
<1>1. NoChange.files = {} /\ NoChange.ata = {}
  BY DEF NoChange
<1>2. ASSUME NEW h \in Goroutines
      PROVE  /\ Cargo(go'[h]) => Does(go'[h], "update") \/ Does(go'[h], "recover")
             /\ go'[h].change.files = go[h].change.files /\ go'[h].change.ata = go[h].change.ata
  <2>1. CASE go'[h] = go[h]
    BY <2>1 DEF Carrying
  <2>2. CASE ~Cargo(go[h]) /\ go'[h].change \in {go[h].change, NoChange}
    <3>1. go[h].change.files = {} /\ go[h].change.ata = {}
      BY <2>2 DEF Cargo
    <3>2. go'[h].change.files = {} /\ go'[h].change.ata = {}
      BY <1>1, <2>2, <3>1
    <3> QED
      BY <3>1, <3>2 DEF Cargo
  <2> QED
    BY <2>1, <2>2 DEF Carries
<1> QED
  BY <1>2 DEF Carrying

LEMMA LostSame ==
  ASSUME Typed, LostInv, \A h \in Goroutines : Carries(h),
         processed' = processed, ataDue' = ataDue, ataNow' = ataNow, current' \in {current, NoSnapshot}
  PROVE  LostInv'
<1>1. Carrying'
  BY CargoSame DEF LostInv
<1>2. \A h \in Goroutines : go'[h].change.files = go[h].change.files
                            /\ go'[h].change.ata = go[h].change.ata
  BY CargoSame DEF LostInv
<1>3. Kept'
  BY <1>2 DEF LostInv, Kept
<1> QED
  BY <1>1, <1>3 DEF LostInv

\* Who does something else than updating and recovering carries nothing.
LEMMA NoCargo ==
  ASSUME Typed, Carrying, NEW g \in Goroutines
  PROVE  /\ \A name : At(g, name) /\ name \notin {"update", "recover"} => ~Cargo(go[g])
         /\ go[g].op = "none" => ~Cargo(go[g])
<1>1. \A name : At(g, name) /\ name \notin {"update", "recover"} => ~Cargo(go[g])
  BY DEF Carrying, At, Does
<1>2. go[g].op = "none" => ~Cargo(go[g])
  BY Placed DEF Carrying, At, Does
<1> QED
  BY <1>1, <1>2

LEMMA LostKept == Typed /\ Holding /\ Recovering /\ LostInv /\ [Next]_vars => LostInv'
<1> SUFFICES ASSUME Typed, Holding, Recovering, LostInv, [Next]_vars PROVE LostInv'
  OBVIOUS
<1> USE DEF pendingVars, idleVars
<1>0. Carrying
  BY DEF LostInv
<1>1. ASSUME NEW g \in Goroutines, NEW name, At(g, name), name \notin {"update", "recover"},
             go'[g] = Advance(go[g])
      PROVE  Carries(g)
  <2>1. ~Cargo(go[g])
    BY <1>0, <1>1, NoCargo
  <2>2. go[g] \in Record /\ go[g].step \in DOMAIN Steps(go[g].op)
    BY <1>1, Placed
  <2> QED
    BY <1>1, <2>1, <2>2, Advanced DEF Carries
<1>2. \A h \in Goroutines : go'[h] = go[h] => Carries(h)
  BY DEF Carries
<1>3. \A h \in Goroutines : StoppedTimer(h) => ~Cargo(go[h])
  BY <1>0, NoCargo DEF StoppedTimer, Stops
<1>4. \A h \in Goroutines : StoppedTimer(h) /\ go'[h] = Idle => Carries(h)
  BY <1>3, IdleFresh DEF Carries
<1>5. \A h \in Goroutines : Fresh(h) /\ (go[h].op = "none" \/ StoppedTimer(h)) => Carries(h)
  BY <1>0, <1>3, NoCargo DEF Carries, Fresh
<1>6. CASE UNCHANGED vars \/ Configure
  BY <1>2, <1>6, LostSame DEF vars, Configure
<1>7. CASE TypingsInstalled
  <2>1. UNCHANGED <<processed, current, go>> /\ ataNow' = ataNow + 1 /\ ataDue' = ataDue \cup {ataNow + 1}
    BY <1>7 DEF TypingsInstalled
  <2>2. Carrying'
    BY <1>0, <2>1 DEF Carrying
  <2>3. \A a \in 1 .. ataNow + 1 : a \in 1 .. ataNow \/ a = ataNow + 1
    BY DEF Typed
  <2>4. Kept'
    BY <2>1, <2>3 DEF LostInv, Kept
  <2> QED
    BY <2>2, <2>4 DEF LostInv
<1>8. ASSUME NEW g \in Goroutines, NEW op \in OpNames, Call(g, op) PROVE LostInv'
  <2>1. UNCHANGED <<processed, ataDue, ataNow, current>>
    BY <1>8 DEF Call
  <2>2. \A h \in Goroutines : Carries(h)
    BY <1>2, <1>5, <1>8, CallMoves
  <2> QED
    BY <2>1, <2>2, LostSame
<1>9. ASSUME NEW g \in Goroutines, Stepping(g) PROVE LostInv'
  <2>1. UNCHANGED <<processed, ataDue, ataNow>> /\ current' \in {current, NoSnapshot}
    BY <1>9 DEF Stepping, AppendChange, CancelScheduled, Lock, Unlock, WaitIdle, StopQueue,
                WaitQueue, Final, RunTimer, Fire, ForgetTimer, TaskCheck
  <2>2. StepName(g) \notin {"update", "recover"}
    BY DEF StepName
  <2>3. Carries(g)
    BY <1>1, <1>9, <2>2, SteppingMoves
  <2>4. \A h \in Goroutines : Carries(h)
    BY <1>2, <1>9, <2>3, SteppingMoves DEF Moved
  <2> QED
    BY <2>1, <2>4, LostSame
<1>10. ASSUME NEW g \in Goroutines, GiveUp(g) PROVE LostInv'
  <2>1. UNCHANGED <<processed, ataDue, ataNow, current>>
    BY <1>10 DEF GiveUp, TaskCanceled, TaskCheck
  <2>2. Carries(g)
    BY <1>0, <1>10, GiveUpMoves, NoCargo, IdleFresh DEF Carries
  <2>3. \A h \in Goroutines : Carries(h)
    BY <1>2, <1>10, <2>2, GiveUpMoves DEF Moved
  <2> QED
    BY <2>1, <2>3, LostSame
<1>11. ASSUME NEW g \in Goroutines, ArmIdle(g) PROVE LostInv'
  <2>1. UNCHANGED <<processed, ataDue, ataNow, current>>
    BY <1>11 DEF ArmIdle
  <2>2. Carries(g)
    BY <1>1, <1>11, ArmMoves
  <2>3. \A h \in Goroutines : Carries(h)
    BY <1>2, <1>4, <1>5, <1>11, <2>2, ArmMoves
  <2> QED
    BY <2>1, <2>3, LostSame
<1>12. ASSUME NEW g \in Goroutines, Schedule(g) PROVE LostInv'
  <2>1. UNCHANGED <<processed, ataDue, ataNow, current>> /\ At(g, "schedule")
    BY <1>12 DEF Schedule
  <2>2. PICK t \in Tasks :
          /\ go[t].op = "none" /\ go'[g] = Advance(go[g]) /\ Fresh(t)
          /\ \A h \in Goroutines : h # g /\ h # t => go'[h] = go[h]
    BY <1>12, ScheduleMoves
  <2>3. Carries(g) /\ Carries(t)
    BY <1>1, <1>5, <2>1, <2>2, TimersAreNoTasks
  <2>4. \A h \in Goroutines : Carries(h)
    BY <1>2, <2>2, <2>3
  <2> QED
    BY <2>1, <2>4, LostSame
<1>13. ASSUME NEW g \in Goroutines, StopIdle(g) PROVE LostInv'
  <2>1. UNCHANGED <<processed, ataDue, ataNow, current>>
    BY <1>13 DEF StopIdle
  <2>2. Carries(g)
    BY <1>1, <1>13, StopMoves
  <2>3. \A h \in Goroutines : Carries(h)
    BY <1>2, <1>4, <1>13, <2>2, StopMoves
  <2> QED
    BY <2>1, <2>3, LostSame
<1>14. ASSUME NEW g \in Goroutines, ReadOverlays(g) PROVE LostInv'
  <2>1. UNCHANGED <<processed, ataDue, ataNow, current>> /\ At(g, "read")
    BY <1>14 DEF ReadOverlays
  <2>2. \A h \in Goroutines : h # g => go'[h] = go[h]
    BY <1>14, ReadMoves DEF Moved
  <2>3. ~Cargo(go[g]) /\ ~Cargo(go'[g])
    BY <1>0, <1>14, <2>1, NoCargo, ReadMoves DEF Cargo
  <2>4. Carrying'
    BY <1>0, <2>2, <2>3 DEF Carrying
  <2>5. Kept'
    <3>1. \A h \in Goroutines : go'[h].change.files = go[h].change.files
                                /\ go'[h].change.ata = go[h].change.ata
      BY <2>2, <2>3 DEF Cargo
    <3> QED
      BY <2>1, <3>1 DEF LostInv, Kept
  <2> QED
    BY <2>4, <2>5 DEF LostInv
<1>15. ASSUME NEW g \in Goroutines, Reject(g) PROVE LostInv'
  <2>1. UNCHANGED <<processed, ataDue, ataNow, current>>
    BY <1>15 DEF Reject
  <2>2. \A h \in Goroutines : h # g => go'[h] = go[h]
    BY <1>15, RejectMoves DEF Moved
  <2>3. go'[g].change = go[g].change /\ Does(go'[g], "recover")
    BY <1>15, RejectMoves
  <2>4. Carrying'
    BY <1>0, <2>2, <2>3 DEF Carrying
  <2>5. Kept'
    <3>1. \A h \in Goroutines : go'[h].change = go[h].change
      BY <2>2, <2>3
    <3> QED
      BY <2>1, <3>1 DEF LostInv, Kept
  <2> QED
    BY <2>4, <2>5 DEF LostInv
<1>16. ASSUME NEW g \in Goroutines, Flush(g) PROVE LostInv'
  <2>1. /\ UNCHANGED <<ataNow, current>> /\ At(g, "flush")
        /\ processed' = LastChange(g)
        /\ IF FilesOnly(g) THEN ataDue' = ataDue ELSE ataDue' = {}
    BY <1>16 DEF Flush, Flushed
  <2>2. \A h \in Goroutines : h # g => go'[h] = go[h]
    BY <1>16, FlushMoves DEF Moved
  <2>3. ~Cargo(go[g])
    BY <1>0, <2>1, NoCargo
  <2>4. /\ Flushed(g).files = processed + 1 .. LastChange(g)
        /\ Flushed(g).ata = IF FilesOnly(g) THEN {} ELSE ataDue
    BY DEF Flushed
  <2>5. LastChange(g) \in Nat /\ processed \in Nat
    BY DEF LastChange, Typed
  <2>6. \A n \in 1 .. LastChange(g) : n \in 1 .. processed \/ n \in processed + 1 .. LastChange(g)
    BY <2>5
  <2>7. /\ \A n \in Nat : n \in Flushed(g).files => n \in go'[g].change.files
        /\ \A a \in Nat : a \in Flushed(g).ata => a \in go'[g].change.ata
        /\ Cargo(go'[g]) => Does(go'[g], "update")
    <3>1. CASE Does(go'[g], "update") /\ go'[g].change \in {Flushed(g), [Flushed(g) EXCEPT !.config = 0]}
      <4>1. Flushed(g) \in Told
        BY <1>16, FlushMoves
      <4>2. go'[g].change.files = Flushed(g).files /\ go'[g].change.ata = Flushed(g).ata
        BY <3>1, <4>1 DEF Told
      <4> QED
        BY <3>1, <4>2
    <3>2. CASE NothingPending(Flushed(g)) /\ go'[g].change = go[g].change
      BY <2>3, <3>2 DEF NothingPending, Cargo
    <3> QED
      BY <1>16, <3>1, <3>2, FlushMoves
  <2>8. Carrying'
    BY <1>0, <2>2, <2>7 DEF Carrying
  <2>9. ASSUME current # NoSnapshot, NEW n \in 1 .. LastChange(g)
        PROVE  n \in current.files \/ \E h \in Goroutines : n \in go'[h].change.files
    <3>1. CASE n \in processed + 1 .. LastChange(g)
      BY <2>4, <2>5, <2>7, <3>1
    <3>2. CASE n \in 1 .. processed
      BY <2>2, <2>3, <2>9, <3>2 DEF LostInv, Kept, Cargo
    <3> QED
      BY <2>6, <2>9, <3>1, <3>2
  <2>10. ASSUME current # NoSnapshot, NEW a \in 1 .. ataNow
         PROVE  a \in ataDue' \cup current.ata \/ \E h \in Goroutines : a \in go'[h].change.ata
    <3>1. a \in Nat
      BY DEF Typed
    <3>2. CASE a \in ataDue
      BY <2>1, <2>4, <2>7, <3>1, <3>2
    <3>3. CASE a \notin ataDue
      <4>1. a \in current.ata \/ \E h \in Goroutines : a \in go[h].change.ata
        BY <2>10, <3>3 DEF LostInv, Kept
      <4>2. \A h \in Goroutines : a \in go[h].change.ata => a \in go'[h].change.ata
        BY <2>2, <2>3 DEF Cargo
      <4> QED
        BY <4>1, <4>2
    <3> QED
      BY <3>2, <3>3
  <2>11. Kept'
    BY <2>1, <2>9, <2>10 DEF Kept
  <2> QED
    BY <2>8, <2>11 DEF LostInv
<1>17. ASSUME NEW g \in Goroutines, Update(g) \/ Recover(g) PROVE LostInv'
  <2>1. UNCHANGED <<processed, ataDue, ataNow>>
    BY <1>17 DEF Update, Recover
  <2>2. \A h \in Goroutines : h # g => go'[h] = go[h]
    BY <1>17, UpdateMoves, RecoverMoves DEF Moved
  <2>3. go'[g].change = NoChange
    BY <1>17, UpdateMoves, RecoverMoves
  <2>4. Carrying'
    <3>1. ~Cargo(go'[g])
      BY <2>3 DEF Cargo, NoChange
    <3> QED
      BY <1>0, <2>2, <3>1 DEF Carrying
  <2>5. CASE current = NoSnapshot
    <3>1. current' = NoSnapshot
      BY <1>17, <2>5 DEF Update, Recover, Recovering, Does, At
    <3> QED
      BY <2>4, <3>1 DEF LostInv, Kept
  <2>6. CASE current # NoSnapshot
    <3> DEFINE c == go[g].change
    <3>1. c \in Told /\ current \in Told
      BY <2>6 DEF Typed, Record
    <3>2. /\ Applied(c).files = current.files \cup c.files
          /\ Applied(c).ata = current.ata \cup c.ata
      BY DEF Applied
    <3>3. current' \in {Applied(c), Recovered(c)}
      BY <1>17, <2>6 DEF Update, Recover
    <3>4. current'.files = current.files \cup c.files /\ current'.ata = current.ata \cup c.ata
      <4>1. CASE c.files = {} /\ c.ata = {} /\ current' = current
        BY <4>1
      <4>2. CASE current' = Applied(c)
        BY <3>2, <4>2
      <4> QED
        BY <3>3, <4>1, <4>2 DEF Recovered
    <3>5. ASSUME NEW n \in 1 .. processed
          PROVE  n \in current'.files \/ \E h \in Goroutines : n \in go'[h].change.files
      <4>1. n \in current.files \/ \E h \in Goroutines : n \in go[h].change.files
        BY <2>6 DEF LostInv, Kept
      <4> QED
        BY <2>2, <3>4, <4>1
    <3>6. ASSUME NEW a \in 1 .. ataNow
          PROVE  a \in ataDue \cup current'.ata \/ \E h \in Goroutines : a \in go'[h].change.ata
      <4>1. a \in ataDue \cup current.ata \/ \E h \in Goroutines : a \in go[h].change.ata
        BY <2>6 DEF LostInv, Kept
      <4> QED
        BY <2>2, <3>4, <4>1
    <3>7. Kept'
      BY <2>1, <3>5, <3>6 DEF Kept
    <3> QED
      BY <2>4, <3>7 DEF LostInv
  <2> QED BY <2>5, <2>6
<1> QED
  BY <1>6, <1>7, <1>8, <1>9, <1>10, <1>11, <1>12, <1>13, <1>14, <1>15, <1>16, <1>17,
     NextCases DEF Goroutines

-----------------------------------------------------------------------------
(* Close leaves nobody behind.                                                  *)

Running    == {tm \in Timers : go[tm].op # "none"}
TimersRest == \A tm \in Timers : go[tm].op = "none"

\* The wait group counts the timers that are armed or in their callback.
WaitGroup == idleWG = Cardinality(Running)

\* What Close has done, it has done for good.
Closing ==
  /\ \A g \in Goroutines :
       /\ Did(go[g], "stopIdle") => idleClosed
       /\ Did(go[g], "waitIdle") => TimersRest
       /\ Did(go[g], "stopQueue") => queueClosed
       /\ Did(go[g], "waitQueue") => TasksEnded
  /\ current = NoSnapshot => idleClosed /\ queueClosed /\ TimersRest /\ TasksEnded

\* Waiting comes after closing.
LEMMA ClosedBefore ==
  ASSUME NEW r \in Record
  PROVE  /\ Did(r, "waitIdle") => Did(r, "stopIdle")
         /\ Did(r, "waitQueue") => Did(r, "stopQueue")
<1> DEFINE s == Steps(r.op)
<1>1. DOMAIN s = 1 .. Len(s) /\ Len(s) \in Nat /\ \A i \in 1 .. Len(s) : Fits(r.op, s, i)
  BY StepsWellOrdered DEF WellOrdered
<1>2. r.step \in Nat
  BY DEF Record
<1>3. ASSUME NEW a, NEW b, \A i \in 1 .. Len(s) : s[i] = a => Before(s, i, b), Did(r, a)
      PROVE  Did(r, b)
  <2>1. PICK j \in 1 .. Len(s) : j < r.step /\ s[j] = a
    BY <1>1, <1>3 DEF Did, Before
  <2>2. PICK k \in 1 .. Len(s) : k < j /\ s[k] = b
    BY <1>1, <1>3, <2>1 DEF Before
  <2> QED
    BY <1>1, <1>2, <2>1, <2>2 DEF Did, Before
<1> QED
  BY <1>1, <1>3 DEF Fits

LEMMA ClosingStep ==
  ASSUME Typed, Closing,
         idleClosed => idleClosed', queueClosed => queueClosed',
         idleClosed => \A tm \in Timers : go[tm].op = "none" => go'[tm].op = "none",
         queueClosed => \A t \in Tasks : go[t].op = "none" => go'[t].op = "none",
         \A h \in Goroutines :
           /\ Did(go'[h], "stopIdle") => Did(go[h], "stopIdle") \/ idleClosed'
           /\ Did(go'[h], "waitIdle") => Did(go[h], "waitIdle") \/ TimersRest'
           /\ Did(go'[h], "stopQueue") => Did(go[h], "stopQueue") \/ queueClosed'
           /\ Did(go'[h], "waitQueue") => Did(go[h], "waitQueue") \/ TasksEnded',
         current' = NoSnapshot =>
           current = NoSnapshot \/ (idleClosed' /\ queueClosed' /\ TimersRest' /\ TasksEnded')
  PROVE  Closing'
<1>1. idleClosed /\ TimersRest => TimersRest'
  BY DEF TimersRest
<1>2. queueClosed /\ TasksEnded => TasksEnded'
  BY DEF TasksEnded
<1>3. ASSUME NEW h \in Goroutines
      PROVE  /\ Did(go'[h], "stopIdle") => idleClosed'
             /\ Did(go'[h], "waitIdle") => TimersRest'
             /\ Did(go'[h], "stopQueue") => queueClosed'
             /\ Did(go'[h], "waitQueue") => TasksEnded'
  <2>1. go[h] \in Record
    BY DEF Typed
  <2>2. /\ Did(go[h], "waitIdle") => idleClosed /\ TimersRest
        /\ Did(go[h], "waitQueue") => queueClosed /\ TasksEnded
    BY <2>1, ClosedBefore DEF Closing
  <2> QED
    BY <1>1, <1>2, <2>2 DEF Closing
<1>4. current' = NoSnapshot => idleClosed' /\ queueClosed' /\ TimersRest' /\ TasksEnded'
  BY <1>1, <1>2 DEF Closing
<1> QED
  BY <1>3, <1>4 DEF Closing

CloseNames == {"stopIdle", "waitIdle", "stopQueue", "waitQueue"}

\* A step that is none of Close's.
LEMMA ClosingMoved ==
  ASSUME Typed, Closing, NEW g \in Goroutines, NEW N, Moved(g, N), N \cap CloseNames = {},
         UNCHANGED <<idleClosed, queueClosed>>, current' = NoSnapshot => current = NoSnapshot
  PROVE  Closing'
<1>1. \A h \in Goroutines : go[h].op = "none" => go'[h].op = "none"
  BY IdleFresh DEF Moved
<1>2. \A h \in Goroutines, name \in CloseNames : Did(go'[h], name) => Did(go[h], name)
  BY DEF Moved
<1> QED
  BY <1>1, <1>2, ClosingStep, TimersAreNoTasks DEF CloseNames

LEMMA ClosingKept ==
  Typed /\ Recovering /\ WaitGroup /\ Closing /\ [Next]_vars => Closing'
<1> SUFFICES ASSUME Typed, Recovering, WaitGroup, Closing, [Next]_vars PROVE Closing'
  OBVIOUS
<1> USE DEF pendingVars, taskVars, idleVars
<1>1. CASE UNCHANGED vars \/ Configure \/ TypingsInstalled
  <2>1. UNCHANGED <<idleClosed, queueClosed, current, go>>
    BY <1>1 DEF vars, Configure, TypingsInstalled
  <2> QED
    BY <2>1 DEF Closing, TimersRest, TasksEnded
\* Goroutine g takes a step that is none of Close's, and others begin or end.
<1>2. ASSUME NEW g \in Goroutines, NEW name, At(g, name), name \notin CloseNames,
             go'[g] = Advance(go[g]), UNCHANGED <<idleClosed, queueClosed, current>>,
             \A h \in Goroutines : h # g => go'[h] = go[h] \/ go'[h] = Idle \/ Fresh(h),
             idleClosed => \A tm \in Timers : tm # g /\ go[tm].op = "none" => go'[tm].op = "none",
             queueClosed => \A t \in Tasks : t # g /\ go[t].op = "none" => go'[t].op = "none"
      PROVE  Closing'
  <2>1. go[g] \in Record /\ go[g].step \in DOMAIN Steps(go[g].op) /\ go[g].op # "none"
    BY <1>2, Placed
  <2>2. \A nm \in CloseNames : Did(go'[g], nm) => Did(go[g], nm)
    BY <1>2, <2>1, Advanced DEF Does, At
  <2>3. \A h \in Goroutines, nm \in CloseNames : Did(go'[h], nm) => Did(go[h], nm)
    BY <1>2, <2>2, IdleFresh DEF Fresh
  <2>4. /\ idleClosed => \A tm \in Timers : go[tm].op = "none" => go'[tm].op = "none"
        /\ queueClosed => \A t \in Tasks : go[t].op = "none" => go'[t].op = "none"
    BY <1>2, <2>1
  <2> QED
    BY <1>2, <2>3, <2>4, ClosingStep DEF CloseNames
<1>3. ASSUME NEW g \in {Loop} \cup Others, NEW op \in OpNames, Call(g, op) PROVE Closing'
  <2>1. UNCHANGED <<idleClosed, queueClosed, current>>
    BY <1>3 DEF Call
  <2>2. \A h \in Tasks \cup Timers : go'[h] = go[h]
    BY <1>3, CallMoves, TimersAreNoTasks DEF Goroutines
  <2>3. \A h \in Goroutines, nm \in CloseNames : Did(go'[h], nm) => Did(go[h], nm)
    BY <1>3, CallMoves DEF Fresh, Goroutines
  <2> QED
    BY <2>1, <2>2, <2>3, ClosingStep DEF CloseNames
<1>4. ASSUME NEW g \in Goroutines, Stepping(g) PROVE Closing'
  <2>1. Moved(g, {StepName(g)}) /\ At(g, StepName(g)) /\ Step(g)
    BY <1>4, SteppingMoves
  <2>2. /\ \A h \in Goroutines : go[h].op = "none" => go'[h].op = "none"
        /\ \A h \in Goroutines : \A nm : Did(go'[h], nm) => Did(go[h], nm) \/ (h = g /\ nm = StepName(g))
    BY <2>1, IdleFresh DEF Moved
  <2>3. CASE WaitIdle(g) /\ StepName(g) = "waitIdle"
    <3>1. UNCHANGED <<idleClosed, queueClosed, current>> /\ idleWG = 0
      BY <2>3 DEF WaitIdle
    <3>2. IsFiniteSet(Running)
      BY GoroutinesAssumption, FS_Subset DEF Running
    <3>3. Cardinality(Running) = 0
      BY <3>1, <3>2, FS_CardinalityType DEF WaitGroup
    <3>4. Running = {}
      BY <3>2, <3>3, FS_EmptySet
    <3>5. TimersRest'
      BY <2>2, <3>4, TimersAreNoTasks DEF Running, TimersRest
    <3> QED
      BY <2>2, <2>3, <3>1, <3>5, ClosingStep, TimersAreNoTasks
  <2>4. CASE WaitQueue(g) /\ StepName(g) = "waitQueue"
    <3>1. UNCHANGED <<idleClosed, queueClosed, current>> /\ TasksEnded
      BY <2>4 DEF WaitQueue
    <3>2. TasksEnded'
      BY <2>2, <3>1, TimersAreNoTasks DEF TasksEnded
    <3> QED
      BY <2>2, <2>4, <3>1, <3>2, ClosingStep, TimersAreNoTasks
  <2>5. CASE StopQueue(g) /\ StepName(g) = "stopQueue"
    <3>1. UNCHANGED <<idleClosed, current>> /\ queueClosed'
      BY <2>5 DEF StopQueue
    <3> QED
      BY <2>2, <2>5, <3>1, ClosingStep, TimersAreNoTasks
  <2>6. CASE Final(g) /\ StepName(g) = "final"
    <3>1. UNCHANGED <<idleClosed, queueClosed>>
      BY <2>6 DEF Final
    <3>2. /\ Did(go[g], "stopIdle") /\ Did(go[g], "waitIdle")
          /\ Did(go[g], "stopQueue") /\ Did(go[g], "waitQueue")
      BY <2>1, <2>6, Placed DEF Fits, At, Did
    <3>3. idleClosed /\ queueClosed /\ TimersRest /\ TasksEnded
      BY <3>2 DEF Closing
    <3>4. TimersRest' /\ TasksEnded'
      BY <2>2, <3>3, TimersAreNoTasks DEF TimersRest, TasksEnded
    <3> QED
      BY <2>2, <2>6, <3>1, <3>3, <3>4, ClosingStep, TimersAreNoTasks
  <2>7. CASE ~WaitIdle(g) /\ ~WaitQueue(g) /\ ~StopQueue(g) /\ ~Final(g)
    <3>1. UNCHANGED <<idleClosed, queueClosed, current>>
      BY <1>4, <2>7 DEF Stepping, AppendChange, CancelScheduled, Lock, Unlock,
                        RunTimer, Fire, ForgetTimer, TaskCheck
    <3>2. {StepName(g)} \cap CloseNames = {}
      BY <2>7 DEF StepName, CloseNames
    <3> QED
      BY <2>1, <3>1, <3>2, ClosingMoved
  <2>8. /\ WaitIdle(g) => StepName(g) = "waitIdle"
        /\ WaitQueue(g) => StepName(g) = "waitQueue"
        /\ StopQueue(g) => StepName(g) = "stopQueue"
        /\ Final(g) => StepName(g) = "final"
    BY <2>1 DEF WaitIdle, WaitQueue, StopQueue, Final, At
  <2> QED
    BY <2>3, <2>4, <2>5, <2>6, <2>7, <2>8
<1>5. ASSUME NEW g \in Goroutines, GiveUp(g) PROVE Closing'
  <2>1. UNCHANGED <<idleClosed, queueClosed, current>>
    BY <1>5 DEF GiveUp, TaskCanceled, TaskCheck
  <2> QED
    BY <1>5, <2>1, GiveUpMoves, ClosingMoved
<1>6. ASSUME NEW g \in Goroutines, ArmIdle(g) PROVE Closing'
  <2>1. UNCHANGED <<queueClosed, current>>
    BY <1>6 DEF ArmIdle
  <2>2. At(g, "arm") /\ go'[g] = Advance(go[g]) /\ UNCHANGED idleClosed
    BY <1>6, ArmMoves DEF ArmIdle
  <2>3. \A h \in Goroutines : h # g => go'[h] = go[h] \/ go'[h] = Idle \/ Fresh(h)
    BY <1>6, ArmMoves
  <2>4. idleClosed => \A h \in Goroutines : h # g => go'[h] = go[h]
    BY <1>6, ArmMoves
  <2>5. \A t \in Tasks : t # g => go'[t] = go[t] \/ go'[t] = Idle
    BY <1>6, ArmMoves, TimersAreNoTasks
  <2> QED
    BY <1>2, <2>1, <2>2, <2>3, <2>4, <2>5, TimersAreNoTasks, IdleFresh DEF CloseNames
<1>7. ASSUME NEW g \in Goroutines, Schedule(g) PROVE Closing'
  <2>1. UNCHANGED <<idleClosed, queueClosed, current>> /\ At(g, "schedule")
    BY <1>7 DEF Schedule
  <2>2. PICK t \in Tasks :
          /\ t # g /\ go'[g] = Advance(go[g]) /\ Fresh(t) /\ (queueClosed => go'[t] = Idle)
          /\ \A h \in Goroutines : h # g /\ h # t => go'[h] = go[h]
    BY <1>7, ScheduleMoves
  <2>3. \A tm \in Timers : tm # g => go'[tm] = go[tm]
    BY <2>2, TimersAreNoTasks
  <2>4. queueClosed => \A u \in Tasks : u # g => go'[u] = go[u] \/ go'[u] = Idle
    BY <2>2, TimersAreNoTasks
  <2> QED
    BY <1>2, <2>1, <2>2, <2>3, <2>4, TimersAreNoTasks, IdleFresh DEF CloseNames
<1>8. ASSUME NEW g \in Goroutines, StopIdle(g) PROVE Closing'
  <2>1. UNCHANGED <<queueClosed, current>> /\ idleClosed'
    BY <1>8 DEF StopIdle
  <2>2. At(g, "stopIdle") /\ go'[g] = Advance(go[g])
        /\ \A h \in Goroutines : h # g => go'[h] = go[h] \/ go'[h] = Idle
    BY <1>8, StopMoves
  <2>3. go[g] \in Record /\ go[g].step \in DOMAIN Steps(go[g].op) /\ go[g].op # "none"
    BY <2>2, Placed
  <2>4. \A nm : Did(go'[g], nm) => Did(go[g], nm) \/ nm = "stopIdle"
    BY <2>2, <2>3, Advanced DEF Does, At
  <2>5. \A h \in Goroutines : \A nm : Did(go'[h], nm) => Did(go[h], nm) \/ nm = "stopIdle"
    BY <2>2, <2>4, IdleFresh
  <2>6. \A h \in Goroutines : go[h].op = "none" => go'[h].op = "none"
    BY <2>2, <2>3, IdleFresh
  <2> QED
    BY <2>1, <2>5, <2>6, ClosingStep, TimersAreNoTasks
<1>9. ASSUME NEW g \in Goroutines, Flush(g) \/ ReadOverlays(g) \/ Reject(g) PROVE Closing'
  <2>1. UNCHANGED <<idleClosed, queueClosed, current>>
    BY <1>9 DEF Flush, ReadOverlays, Reject
  <2> QED
    BY <1>9, <2>1, FlushMoves, ReadMoves, RejectMoves, ClosingMoved DEF CloseNames
<1>10. ASSUME NEW g \in Goroutines, Update(g) PROVE Closing'
  <2>1. UNCHANGED <<idleClosed, queueClosed>>
    BY <1>10 DEF Update
  <2>2. current' = NoSnapshot => current = NoSnapshot
    BY <1>10, UpdateMoves, Records DEF Typed
  <2> QED
    BY <1>10, <2>1, <2>2, UpdateMoves, ClosingMoved DEF CloseNames
<1>11. ASSUME NEW g \in Goroutines, Recover(g) PROVE Closing'
  <2>1. UNCHANGED <<idleClosed, queueClosed>>
    BY <1>11 DEF Recover
  <2>2. current' # NoSnapshot
    <3>1. current # NoSnapshot /\ go[g].change \in Told /\ current' = Recovered(go[g].change)
      BY <1>11 DEF Recover, Recovering, Does, At, Record, Typed
    <3> QED
      BY <3>1, AppliedTold, Records
  <2> QED
    BY <1>11, <2>1, <2>2, RecoverMoves, ClosingMoved DEF CloseNames
<1> QED
  BY <1>1, <1>3, <1>4, <1>5, <1>6, <1>7, <1>8, <1>9, <1>10, <1>11, NextCases

-----------------------------------------------------------------------------
(* Nobody is stuck: the lock is held by somebody who goes on.                   *)

\* Only background updates run in the tasks, only idle cleans in the timers.
Roles ==
  /\ \A t \in Tasks : go[t].op \in {"none", "task"}
  /\ \A tm \in Timers : go[tm].op \in {"none", "idle"}

LEMMA RolesKept == Typed /\ Roles /\ [Next]_vars => Roles'
<1> SUFFICES ASSUME Typed, Roles, [Next]_vars PROVE Roles'
  OBVIOUS
<1>1. CASE UNCHANGED vars \/ Configure \/ TypingsInstalled
  BY <1>1 DEF vars, Configure, TypingsInstalled, Roles
<1>2. ASSUME NEW g \in Goroutines, NEW N, Moved(g, N) PROVE Roles'
  BY <1>2, IdleFresh, TimersAreNoTasks DEF Moved, Roles
<1>3. ASSUME NEW g \in {Loop} \cup Others, NEW op \in OpNames, Call(g, op) PROVE Roles'
  BY <1>3, CallMoves, TimersAreNoTasks DEF Roles, Goroutines
<1>4. ASSUME NEW g \in Goroutines, go'[g] = Advance(go[g]), NEW name, At(g, name)
      PROVE  go'[g].op \in {"none", go[g].op}
  BY <1>4, Placed, Advanced, IdleFresh
<1>5. ASSUME NEW g \in Goroutines, ArmIdle(g) PROVE Roles'
  BY <1>4, <1>5, ArmMoves, TimersAreNoTasks, IdleFresh DEF Roles
<1>6. ASSUME NEW g \in Goroutines, Schedule(g) PROVE Roles'
  <2>1. At(g, "schedule")
    BY <1>6 DEF Schedule
  <2> QED
    BY <1>4, <1>6, <2>1, ScheduleMoves, TimersAreNoTasks DEF Roles
<1>7. ASSUME NEW g \in Goroutines, StopIdle(g) PROVE Roles'
  BY <1>4, <1>7, StopMoves, TimersAreNoTasks, IdleFresh DEF Roles
<1> QED
  BY <1>1, <1>2, <1>3, <1>5, <1>6, <1>7, NextCases, SteppingMoves, GiveUpMoves, FlushMoves, ReadMoves,
     UpdateMoves, RejectMoves, RecoverMoves

\* The lock is never left to somebody who is done with it.
Held == updateMu # None => updateMu \in Goroutines /\ Did(go[updateMu], "lock")

\* An operation that took the lock ends only where it gives the lock back.
LEMMA EndsUnlocked ==
  ASSUME Typed, NEW g \in Goroutines, Did(go[g], "lock"), NEW name, At(g, name),
         go[g].step = Len(Steps(go[g].op))
  PROVE  name \in {"unlock", "final"}
  BY Placed DEF Fits, Did, At

\* Who arms the timer, schedules an update or takes the lock does not hold it.
LEMMA NotHolding ==
  ASSUME Typed, NEW g \in Goroutines
  PROVE  /\ \A name \in {"arm", "schedule", "waitIdle", "waitQueue", "lock", "stopIdle", "read", "armed", "check"} :
              At(g, name) => ~Did(go[g], "lock")
         /\ go[g].op = "none" => ~Did(go[g], "lock")
<1>1. ASSUME NEW name \in {"arm", "schedule", "waitIdle", "waitQueue", "lock", "stopIdle", "read"},
             At(g, name)
      PROVE  ~Did(go[g], "lock")
  BY <1>1, Placed DEF Fits, At, Did
<1>2. ASSUME NEW name \in {"armed", "check"}, At(g, name) PROVE ~Did(go[g], "lock")
  <2>1. go[g].step = 1 /\ go[g] \in Record
    BY <1>2, Placed DEF Fits, At
  <2> QED
    BY <2>1, NothingDone
<1>3. ASSUME go[g].op = "none" PROVE ~Did(go[g], "lock")
  <2>1. Steps("none") = <<>>
    BY DEF Steps
  <2> QED
    BY <1>3, <2>1 DEF Did, Before
<1> QED
  BY <1>1, <1>2, <1>3

LEMMA HeldMoved ==
  ASSUME Typed, Held, NEW g \in Goroutines, NEW N, Moved(g, N), updateMu' = updateMu,
         Did(go[g], "lock") => go'[g] # Idle
  PROVE  Held'
<1> SUFFICES ASSUME updateMu # None PROVE Did(go'[updateMu], "lock")
  BY DEF Held
<1>1. updateMu \in Goroutines /\ Did(go[updateMu], "lock")
  BY DEF Held
<1>2. CASE updateMu = g
  <2>1. go'[g].op = go[g].op /\ go'[g].step > go[g].step /\ go[g] \in Record /\ go'[g] \in Record
    BY <1>1, <1>2 DEF Moved, Typed
  <2>2. DOMAIN Steps(go[g].op) = 1 .. Len(Steps(go[g].op)) /\ Len(Steps(go[g].op)) \in Nat
    BY StepsWellOrdered DEF WellOrdered
  <2> QED
    BY <1>1, <1>2, <2>1, <2>2 DEF Did, Before, Record
<1>3. CASE updateMu # g
  BY <1>1, <1>3 DEF Moved
<1> QED
  BY <1>2, <1>3

\* Others begin or end, but not the holder.
LEMMA HeldOthers ==
  ASSUME Typed, Held, updateMu' = updateMu,
         \A h \in Goroutines : go'[h] = go[h] \/ ~Did(go[h], "lock")
  PROVE  Held'
  BY DEF Held

LEMMA HeldKept == Typed /\ Held /\ [Next]_vars => Held'
<1> SUFFICES ASSUME Typed, Held, [Next]_vars PROVE Held'
  OBVIOUS
<1>1. CASE UNCHANGED vars \/ Configure \/ TypingsInstalled
  BY <1>1 DEF vars, Configure, TypingsInstalled, Held
<1>2. ASSUME NEW g \in Goroutines, NEW op \in OpNames, Call(g, op) PROVE Held'
  <2>1. updateMu' = updateMu
    BY <1>2 DEF Call
  <2> QED
    BY <1>2, <2>1, CallMoves, NotHolding, HeldOthers
<1>3. ASSUME NEW g \in Goroutines, Stepping(g) PROVE Held'
  <2>1. At(g, StepName(g)) /\ Moved(g, {StepName(g)}) /\ go'[g] = Advance(go[g])
    BY <1>3, SteppingMoves
  <2>2. CASE Lock(g)
    <3>1. At(g, "lock") /\ updateMu' = g
      BY <2>2 DEF Lock
    <3>2. /\ go[g] \in Record /\ go[g].step \in DOMAIN Steps(go[g].op)
          /\ Steps(go[g].op)[go[g].step] = "lock" /\ go[g].step # Len(Steps(go[g].op))
      BY <3>1, Placed DEF Fits, At
    <3>3. go'[g].op = go[g].op /\ go'[g].step = go[g].step + 1
      BY <2>1, <3>2 DEF Advance, Record
    <3>4. Did(go'[g], "lock")
      BY <3>2, <3>3 DEF Did, Before, Record
    <3> QED
      BY <3>1, <3>4 DEF Held
  <2>3. CASE Unlock(g) \/ Final(g)
    <3>1. updateMu' = None
      BY <2>3 DEF Unlock, Final
    <3> QED
      BY <3>1 DEF Held
  <2>4. CASE ~Lock(g) /\ ~Unlock(g) /\ ~Final(g)
    <3>1. updateMu' = updateMu
      BY <1>3, <2>4 DEF Stepping, AppendChange, CancelScheduled, WaitIdle, StopQueue, WaitQueue,
                        RunTimer, Fire, ForgetTimer, TaskCheck
    <3>2. StepName(g) \notin {"unlock", "final"}
      BY <2>4 DEF StepName
    <3>3. Did(go[g], "lock") => go'[g] # Idle
      BY <2>1, <3>2, EndsUnlocked, Placed, Advancing
    <3> QED
      BY <2>1, <3>1, <3>3, HeldMoved
  <2> QED
    BY <2>2, <2>3, <2>4
<1>4. ASSUME NEW g \in Goroutines, GiveUp(g) PROVE Held'
  <2>1. updateMu' = updateMu
    BY <1>4 DEF GiveUp, TaskCanceled, TaskCheck
  <2> QED
    BY <1>4, <2>1, GiveUpMoves, NotHolding, HeldMoved
<1>5. \A h \in Goroutines : StoppedTimer(h) => ~Did(go[h], "lock")
  BY NotHolding DEF StoppedTimer, Stops
<1>6. ASSUME NEW g \in Goroutines, ArmIdle(g) PROVE Held'
  <2>1. updateMu' = updateMu
    BY <1>6 DEF ArmIdle
  <2>2. ~Did(go[g], "lock")
    BY <1>6, ArmMoves, NotHolding
  <2>3. \A h \in Goroutines : go'[h] = go[h] \/ ~Did(go[h], "lock")
    BY <1>5, <1>6, <2>2, ArmMoves, NotHolding
  <2> QED
    BY <2>1, <2>3, HeldOthers
<1>7. ASSUME NEW g \in Goroutines, Schedule(g) PROVE Held'
  <2>1. updateMu' = updateMu /\ At(g, "schedule")
    BY <1>7 DEF Schedule
  <2>2. ~Did(go[g], "lock")
    BY <2>1, NotHolding
  <2>3. \A h \in Goroutines : go'[h] = go[h] \/ ~Did(go[h], "lock")
    BY <1>7, <2>2, ScheduleMoves, NotHolding
  <2> QED
    BY <2>1, <2>3, HeldOthers
<1>8. ASSUME NEW g \in Goroutines, StopIdle(g) PROVE Held'
  <2>1. updateMu' = updateMu
    BY <1>8 DEF StopIdle
  <2>2. ~Did(go[g], "lock")
    BY <1>8, StopMoves, NotHolding
  <2>3. \A h \in Goroutines : go'[h] = go[h] \/ ~Did(go[h], "lock")
    BY <1>5, <1>8, <2>2, StopMoves
  <2> QED
    BY <2>1, <2>3, HeldOthers
<1>9. ASSUME NEW g \in Goroutines, Flush(g) PROVE Held'
  <2>1. updateMu' = updateMu
    BY <1>9 DEF Flush
  <2>2. go'[g] # Idle
    BY <1>9, FlushMoves, NothingDone
  <2> QED
    BY <1>9, <2>1, <2>2, FlushMoves, HeldMoved
<1>10. ASSUME NEW g \in Goroutines, ReadOverlays(g) PROVE Held'
  <2>1. updateMu' = updateMu /\ At(g, "read")
    BY <1>10 DEF ReadOverlays
  <2> QED
    BY <1>10, <2>1, ReadMoves, NotHolding, HeldMoved
<1>11. ASSUME NEW g \in Goroutines, Reject(g) PROVE Held'
  <2>1. updateMu' = updateMu
    BY <1>11 DEF Reject
  <2>2. go'[g] # Idle
    BY <1>11, RejectMoves, NothingDone
  <2> QED
    BY <1>11, <2>1, <2>2, RejectMoves, HeldMoved
<1>12. ASSUME NEW g \in Goroutines, Recover(g) PROVE Held'
  <2>1. updateMu' = updateMu /\ At(g, "recover")
    BY <1>12 DEF Recover
  <2>2. Did(go[g], "lock") => go'[g] # Idle
    BY <1>12, <2>1, RecoverMoves, EndsUnlocked
  <2> QED
    BY <1>12, <2>1, <2>2, RecoverMoves, HeldMoved
<1>13. ASSUME NEW g \in Goroutines, Update(g) PROVE Held'
  <2>0. At(g, "update")
    BY <1>13 DEF Update
  <2>1. CASE current = NoSnapshot
    <3>1. go'[g] = Idle /\ Moved(g, {}) /\ Release(g)
      BY <1>13, <2>1, Ended DEF Update
    <3>2. CASE updateMu = g
      BY <3>1, <3>2 DEF Release, Held
    <3>3. CASE updateMu # g
      <4>1. updateMu' = updateMu
        BY <3>1, <3>3 DEF Release
      <4> QED
        BY <3>1, <3>3, <4>1 DEF Held, Moved
    <3> QED BY <3>2, <3>3
  <2>2. CASE current # NoSnapshot
    <3>1. updateMu' = updateMu
      BY <1>13, <2>2 DEF Update
    <3>2. Did(go[g], "lock") => go'[g] # Idle
      BY <1>13, <2>0, <2>2, UpdateMoves, EndsUnlocked
    <3> QED
      BY <1>13, <3>1, <3>2, UpdateMoves, HeldMoved
  <2> QED BY <2>1, <2>2
<1> QED
  BY <1>1, <1>2, <1>3, <1>4, <1>6, <1>7, <1>8, <1>9, <1>10, <1>11, <1>12, <1>13,
     NextCases DEF Goroutines

-----------------------------------------------------------------------------
(* The wait group of the idle callbacks.                                        *)

LEMMA RunningFinite == IsFiniteSet(Running) /\ Cardinality(Running) \in Nat
<1>1. IsFiniteSet(Running)
  BY GoroutinesAssumption, FS_Subset DEF Running
<1> QED
  BY <1>1, FS_CardinalityType

LEMMA WaitGroupSame ==
  ASSUME WaitGroup, \A tm \in Timers : go[tm].op = "none" <=> go'[tm].op = "none",
         idleWG' = idleWG
  PROVE  WaitGroup'
<1>1. Running' = Running
  BY DEF Running
<1> QED
  BY <1>1 DEF WaitGroup

\* The running timers without the one that is stopped: the wait group counts them
\* after the call of Stop.
LEMMA AfterStop ==
  ASSUME Typed, WaitGroup
  PROVE  LET rest == {tm \in Running : ~StoppedTimer(tm)} IN
         IsFiniteSet(rest) /\ Cardinality(rest) \in Nat /\ idleWG - Stopped = Cardinality(rest)
<1> DEFINE rest == {tm \in Running : ~StoppedTimer(tm)}
<1>1. CASE Stops(idleTimer)
  <2>1. idleTimer \in Running
    <3>1. idleTimer \in Timers /\ At(idleTimer, "armed")
      BY <1>1 DEF Stops, Typed
    <3> QED
      BY <3>1, Placed, TimersAreNoTasks DEF Running
  <2>2. rest = Running \ {idleTimer}
    BY <1>1 DEF StoppedTimer
  <2>3. Cardinality(rest) = Cardinality(Running) - 1 /\ IsFiniteSet(rest)
    BY <2>1, <2>2, RunningFinite, FS_RemoveElement
  <2>4. Cardinality(rest) \in Nat
    BY <2>3, FS_CardinalityType
  <2>5. idleWG - Stopped = Cardinality(rest)
    BY <1>1, <2>3, RunningFinite DEF Stopped, WaitGroup
  <2> QED
    BY <2>3, <2>4, <2>5
<1>2. CASE ~Stops(idleTimer)
  <2>1. rest = Running
    BY <1>2 DEF StoppedTimer
  <2>2. idleWG - Stopped = Cardinality(Running)
    BY <1>2, RunningFinite DEF Stopped, WaitGroup
  <2> QED
    BY <2>1, <2>2, RunningFinite
<1> QED
  BY <1>1, <1>2

LEMMA WaitGroupKept == Typed /\ Roles /\ Closing /\ WaitGroup /\ [Next]_vars => WaitGroup'
<1> SUFFICES ASSUME Typed, Roles, Closing, WaitGroup, [Next]_vars PROVE WaitGroup'
  OBVIOUS
<1> USE DEF pendingVars, taskVars
<1>1. CASE UNCHANGED vars \/ Configure \/ TypingsInstalled
  BY <1>1, WaitGroupSame DEF vars, Configure, TypingsInstalled, idleVars
<1>2. ASSUME NEW g \in Goroutines, NEW name, At(g, name), NEW N, Moved(g, N), idleWG' = idleWG,
             g \in Timers => go'[g] # Idle
      PROVE  WaitGroup'
  <2>1. \A tm \in Timers : go[tm].op = "none" <=> go'[tm].op = "none"
    BY <1>2, TimersAreNoTasks DEF Moved
  <2> QED
    BY <1>2, <2>1, WaitGroupSame
\* The callback of a timer ends with its Done.
<1>3. ASSUME NEW g \in Timers, NEW name, At(g, name), go[g].step = Len(Steps(go[g].op))
      PROVE  name = "unlock"
  <2>1. go[g].op = "idle"
    BY <1>3, Placed, TimersAreNoTasks DEF Roles
  <2> QED
    BY <1>3, <2>1, Placed, TimersAreNoTasks DEF Fits, At
<1>4. ASSUME NEW g \in {Loop} \cup Others, NEW op \in OpNames, Call(g, op) PROVE WaitGroup'
  <2>1. idleWG' = idleWG
    BY <1>4 DEF Call, idleVars
  <2>2. \A tm \in Timers : go'[tm] = go[tm]
    BY <1>4, CallMoves, TimersAreNoTasks DEF Goroutines
  <2> QED
    BY <2>1, <2>2, WaitGroupSame
<1>5. ASSUME NEW g \in Goroutines, Stepping(g) PROVE WaitGroup'
  <2>1. Moved(g, {StepName(g)}) /\ At(g, StepName(g)) /\ go'[g] = Advance(go[g])
    BY <1>5, SteppingMoves
  <2>2. CASE Unlock(g) /\ g \in Timers
    <3>1. At(g, "unlock") /\ idleWG' = idleWG - 1 /\ Step(g)
      BY <2>2 DEF Unlock
    <3>2. go[g].step = Len(Steps(go[g].op)) /\ go[g].op # "none"
      BY <3>1, Placed DEF Fits, At
    <3>3. go'[g] = Idle
      BY <2>1, <3>2 DEF Advance
    <3>4. g \in Running /\ Running' = Running \ {g}
      BY <2>1, <2>2, <3>2, <3>3, TimersAreNoTasks, IdleFresh DEF Running, Moved
    <3>5. Cardinality(Running \ {g}) = Cardinality(Running) - 1
      BY <3>4, RunningFinite, FS_RemoveElement
    <3> QED
      BY <3>1, <3>4, <3>5 DEF WaitGroup
  <2>3. CASE ~(Unlock(g) /\ g \in Timers)
    <3>1. idleWG' = idleWG
      BY <1>5, <2>3 DEF Stepping, AppendChange, CancelScheduled, Lock, Unlock, WaitIdle, StopQueue,
                        WaitQueue, Final, RunTimer, Fire, ForgetTimer, TaskCheck, idleVars, Typed
    <3>2. g \in Timers => StepName(g) # "unlock"
      BY <2>3 DEF StepName
    <3>3. g \in Timers => go'[g] # Idle
      BY <1>3, <2>1, <3>2, Placed, Advancing
    <3> QED
      BY <1>2, <2>1, <3>1, <3>3
  <2> QED BY <2>2, <2>3
<1>6. ASSUME NEW g \in Goroutines, GiveUp(g) PROVE WaitGroup'
  <2>1. idleWG' = idleWG /\ g \in Tasks
    BY <1>6 DEF GiveUp, TaskCanceled, TaskCheck, idleVars
  <2>2. At(g, "check") /\ Moved(g, {}) /\ g \notin Timers
    BY <1>6, <2>1, GiveUpMoves, TimersAreNoTasks
  <2> QED
    BY <1>2, <2>1, <2>2
<1>7. ASSUME NEW g \in Goroutines, NEW name \in {"arm", "schedule", "stopIdle"}, At(g, name)
      PROVE  g \notin Timers \/ name = "stopIdle"
  BY <1>7, Placed DEF Roles, Fits, At
<1>8. ASSUME NEW g \in Goroutines, ArmIdle(g) PROVE WaitGroup'
  <2> DEFINE rest == {tm \in Running : ~StoppedTimer(tm)}
  <2>1. At(g, "arm") /\ g \notin Timers
    BY <1>7, <1>8, ArmMoves
  <2>2. CASE UNCHANGED idleVars /\ \A h \in Goroutines : h # g => go'[h] = go[h]
    <3>1. \A tm \in Timers : go'[tm] = go[tm]
      BY <2>1, <2>2, TimersAreNoTasks
    <3> QED
      BY <2>2, <3>1, WaitGroupSame DEF idleVars
  <2>3. ASSUME NEW tm \in Timers, idleWG' = idleWG - Stopped + 1, go'[tm].op = "idle",
               go[tm].op = "none" \/ StoppedTimer(tm),
               \A h \in Goroutines : h # g /\ h # tm =>
                 IF StoppedTimer(h) THEN go'[h] = Idle ELSE go'[h] = go[h]
        PROVE  WaitGroup'
    <3>1. Running' = rest \cup {tm} /\ tm \notin rest
      BY <2>1, <2>3, TimersAreNoTasks, IdleFresh DEF Running
    <3>2. IsFiniteSet(rest) /\ Cardinality(rest) \in Nat /\ idleWG - Stopped = Cardinality(rest)
      BY AfterStop
    <3> HIDE DEF rest
    <3>3. Cardinality(rest \cup {tm}) = Cardinality(rest) + 1
      BY <3>1, <3>2, FS_AddElement
    <3> QED
      BY <2>3, <3>1, <3>2, <3>3 DEF WaitGroup
  <2> QED
    BY <1>8, <2>2, <2>3, ArmMoves
<1>9. ASSUME NEW g \in Goroutines, Schedule(g) PROVE WaitGroup'
  <2>1. idleWG' = idleWG /\ At(g, "schedule")
    BY <1>9 DEF Schedule, idleVars
  <2>2. g \notin Timers
    BY <1>7, <2>1
  <2>3. \A tm \in Timers : go'[tm] = go[tm]
    BY <1>9, <2>2, ScheduleMoves, TimersAreNoTasks
  <2> QED
    BY <2>1, <2>3, WaitGroupSame
<1>10. ASSUME NEW g \in Goroutines, StopIdle(g) PROVE WaitGroup'
  <2> DEFINE rest == {tm \in Running : ~StoppedTimer(tm)}
  <2>1. idleWG' = idleWG - Stopped
    BY <1>10 DEF StopIdle
  <2>2. Running' = rest
    <3>1. /\ At(g, "stopIdle") /\ ~StoppedTimer(g) /\ go'[g] = Advance(go[g])
          /\ \A h \in Goroutines : h # g => IF StoppedTimer(h) THEN go'[h] = Idle ELSE go'[h] = go[h]
      BY <1>10, StopMoves
    <3>2. g \in Timers => go'[g].op # "none" /\ go[g].op # "none"
      <4> SUFFICES ASSUME g \in Timers PROVE go'[g].op # "none" /\ go[g].op # "none"
        OBVIOUS
      <4>1. go[g].step # Len(Steps(go[g].op)) /\ go[g] \in Record /\ go[g].op # "none"
        BY <1>3, <3>1, Placed
      <4>2. go'[g].op = go[g].op
        BY <3>1, <4>1 DEF Advance, Record
      <4> QED
        BY <4>1, <4>2
    <3> QED
      BY <3>1, <3>2, TimersAreNoTasks, IdleFresh DEF Running
  <2> HIDE DEF rest
  <2> QED
    BY <2>1, <2>2, AfterStop DEF WaitGroup, rest
<1>11. ASSUME NEW g \in Goroutines, Flush(g) PROVE WaitGroup'
  <2>1. idleWG' = idleWG /\ At(g, "flush")
    BY <1>11 DEF Flush, idleVars
  <2>2. go'[g] # Idle
    BY <1>11, FlushMoves, NothingDone
  <2> QED
    BY <1>2, <1>11, <2>1, <2>2, FlushMoves
<1>12. ASSUME NEW g \in Goroutines, ReadOverlays(g) PROVE WaitGroup'
  <2>1. idleWG' = idleWG /\ At(g, "read")
    BY <1>12 DEF ReadOverlays, idleVars
  <2> QED
    BY <1>2, <1>3, <1>12, <2>1, ReadMoves
<1>13. ASSUME NEW g \in Goroutines, Reject(g) PROVE WaitGroup'
  <2>1. idleWG' = idleWG /\ At(g, "update")
    BY <1>13 DEF Reject, idleVars
  <2> QED
    BY <1>2, <1>13, <2>1, RejectMoves, NothingDone
<1>14. ASSUME NEW g \in Goroutines, Recover(g) PROVE WaitGroup'
  <2>1. idleWG' = idleWG /\ At(g, "recover")
    BY <1>14 DEF Recover, idleVars
  <2> QED
    BY <1>2, <1>3, <1>14, <2>1, RecoverMoves
<1>15. ASSUME NEW g \in Goroutines, Update(g) PROVE WaitGroup'
  <2>1. idleWG' = idleWG /\ At(g, "update")
    BY <1>15 DEF Update, idleVars
  <2>2. g \in Timers => current # NoSnapshot
    BY <2>1, Placed DEF Closing, TimersRest
  <2> QED
    BY <1>2, <1>3, <1>15, <2>1, <2>2, UpdateMoves
<1> QED
  BY <1>1, <1>4, <1>5, <1>6, <1>8, <1>9, <1>10, <1>11, <1>12, <1>13, <1>14, <1>15, NextCases

\* While something is under way, somebody goes on, unless a panic has left snapshotMu to
\* him: the holder of the lock, or else the callback or the background update that is
\* waited for.
LEMMA SomebodyGoesOn == Typed /\ Roles /\ Held /\ WaitGroup => NobodyStuck
<1> SUFFICES ASSUME Typed, Roles, Held, WaitGroup, ~Quiet, \A g \in Goroutines : ~BehindPanic(g)
             PROVE  \E g \in Goroutines : go[g].op # "none" /\ ~Waits(g)
  BY DEF NobodyStuck
<1>1. CASE updateMu # None
  <2>1. updateMu \in Goroutines /\ Did(go[updateMu], "lock")
    BY <1>1 DEF Held
  <2>2. go[updateMu].op # "none" /\ ~Waits(updateMu)
    BY <2>1, NotHolding DEF Waits
  <2> QED
    BY <2>1, <2>2
<1>2. CASE updateMu = None
  <2>1. ASSUME NEW x \in Tasks \cup Timers, go[x].op # "none"
        PROVE  \E g \in Goroutines : go[g].op # "none" /\ ~Waits(g)
    <3>1. x \in Goroutines /\ go[x].op \in {"task", "idle"}
      BY <2>1, TimersAreNoTasks DEF Roles
    <3>2. \A name \in {"arm", "schedule", "waitIdle", "waitQueue"} : ~At(x, name)
      BY <3>1, Placed DEF Fits, At
    <3>3. ~Waits(x)
      BY <1>2, <3>1, <3>2 DEF Waits
    <3> QED
      BY <2>1, <3>1, <3>3
  <2>2. PICK g \in Goroutines : go[g].op # "none"
    BY DEF Quiet
  <2>3. CASE At(g, "waitIdle") /\ idleWG # 0
    <3>1. Running # {}
      BY <2>3, FS_EmptySet DEF WaitGroup
    <3> QED
      BY <2>1, <3>1 DEF Running
  <2>4. CASE At(g, "waitQueue") /\ ~TasksEnded
    BY <2>1, <2>4 DEF TasksEnded
  <2>5. CASE \A t \in Tasks : go[t].op # "none"
    BY <2>1, <2>5, GoroutinesAssumption
  <2>6. CASE \A tm \in Timers : go[tm].op # "none" /\ tm # idleTimer
    BY <2>1, <2>6, GoroutinesAssumption
  <2> QED
    BY <1>2, <2>2, <2>3, <2>4, <2>5, <2>6 DEF Waits
<1> QED
  BY <1>1, <1>2

-----------------------------------------------------------------------------
(* What schedules an update is applied: somebody is on his way to flush it.     *)

\* The i-th step of an operation leads to a flush: who cancels an update flushes himself or
\* closes the session, and who has recorded a change that schedules an update does so next;
\* what is flushed or read is installed at once, and once.
Leads(op, s, i) ==
  /\ s[i] = "cancel" => op = "shutdown" \/ \E j \in i + 1 .. Len(s) : s[j] = "flush"
  /\ s[i] = "check" => \E j \in i + 1 .. Len(s) : s[j] = "flush"
  /\ s[i] = "append" /\ op \in {"close", "watchConfig"} => i < Len(s) /\ s[i + 1] = "schedule"
  /\ s[i] \in {"update", "recover", "read"} => \A j \in i .. Len(s) : s[j] # "flush"
  /\ s[i] \in {"update", "recover", "read"} => op # "shutdown"
  /\ s[i] = "stopQueue" => op = "shutdown" /\ i > 1
  /\ op = "shutdown" /\ s[i] # "final" => i < Len(s)
  /\ s[i] = "update" => i > 1 /\ s[i - 1] \in {"flush", "read"}
  /\ s[i] \in {"update", "recover"} => \A j \in i + 1 .. Len(s) : s[j] # "update"
  /\ s[i] = "read" => op = "options"
LEMMA StepsLead == \A op : \A i \in DOMAIN Steps(op) : Leads(op, Steps(op), i)
<1> SUFFICES ASSUME NEW op PROVE \A i \in DOMAIN Steps(op) : Leads(op, Steps(op), i)
  OBVIOUS
<1>1. CASE op = "open"
  <2>1. Steps(op) = <<"arm", "cancel", "lock", "flush", "update", "unlock">>
    BY <1>1 DEF Steps, CloseSteps, DidCloseFileSteps
  <2>2. Len(Steps(op)) = 6 /\ DOMAIN Steps(op) = 1 .. 6
    BY <2>1
  <2>3. /\ Steps(op)[1] = "arm"
        /\ Steps(op)[2] = "cancel"
        /\ Steps(op)[3] = "lock"
        /\ Steps(op)[4] = "flush"
        /\ Steps(op)[5] = "update"
        /\ Steps(op)[6] = "unlock"
    BY <2>1
  <2> QED BY <1>1, <2>2, <2>3 DEF Leads
<1>2. CASE op = "mappers"
  <2>1. Steps(op) = <<"cancel", "lock", "flush", "update", "unlock">>
    BY <1>2 DEF Steps, CloseSteps, DidCloseFileSteps
  <2>2. Len(Steps(op)) = 5 /\ DOMAIN Steps(op) = 1 .. 5
    BY <2>1
  <2>3. /\ Steps(op)[1] = "cancel"
        /\ Steps(op)[2] = "lock"
        /\ Steps(op)[3] = "flush"
        /\ Steps(op)[4] = "update"
        /\ Steps(op)[5] = "unlock"
    BY <2>1
  <2> QED BY <1>2, <2>2, <2>3 DEF Leads
<1>3. CASE op = "close"
  <2>1. Steps(op) = <<"arm", "append", "schedule">>
    BY <1>3 DEF Steps, CloseSteps, DidCloseFileSteps
  <2>2. Len(Steps(op)) = 3 /\ DOMAIN Steps(op) = 1 .. 3
    BY <2>1
  <2>3. /\ Steps(op)[1] = "arm"
        /\ Steps(op)[2] = "append"
        /\ Steps(op)[3] = "schedule"
    BY <2>1
  <2> QED BY <1>3, <2>2, <2>3 DEF Leads
<1>4. CASE op = "edit"
  <2>1. Steps(op) = <<"arm", "append">>
    BY <1>4 DEF Steps, CloseSteps, DidCloseFileSteps
  <2>2. Len(Steps(op)) = 2 /\ DOMAIN Steps(op) = 1 .. 2
    BY <2>1
  <2>3. /\ Steps(op)[1] = "arm"
        /\ Steps(op)[2] = "append"
    BY <2>1
  <2> QED BY <1>4, <2>2, <2>3 DEF Leads
<1>5. CASE op = "watch"
  <2>1. Steps(op) = <<"append", "arm">>
    BY <1>5 DEF Steps, CloseSteps, DidCloseFileSteps
  <2>2. Len(Steps(op)) = 2 /\ DOMAIN Steps(op) = 1 .. 2
    BY <2>1
  <2>3. /\ Steps(op)[1] = "append"
        /\ Steps(op)[2] = "arm"
    BY <2>1
  <2> QED BY <1>5, <2>2, <2>3 DEF Leads
<1>6. CASE op = "watchConfig"
  <2>1. Steps(op) = <<"append", "schedule", "arm">>
    BY <1>6 DEF Steps, CloseSteps, DidCloseFileSteps
  <2>2. Len(Steps(op)) = 3 /\ DOMAIN Steps(op) = 1 .. 3
    BY <2>1
  <2>3. /\ Steps(op)[1] = "append"
        /\ Steps(op)[2] = "schedule"
        /\ Steps(op)[3] = "arm"
    BY <2>1
  <2> QED BY <1>6, <2>2, <2>3 DEF Leads
<1>7. CASE op = "request"
  <2>1. Steps(op) = <<"lock", "cancel", "flush", "update", "unlock">>
    BY <1>7 DEF Steps, CloseSteps, DidCloseFileSteps
  <2>2. Len(Steps(op)) = 5 /\ DOMAIN Steps(op) = 1 .. 5
    BY <2>1
  <2>3. /\ Steps(op)[1] = "lock"
        /\ Steps(op)[2] = "cancel"
        /\ Steps(op)[3] = "flush"
        /\ Steps(op)[4] = "update"
        /\ Steps(op)[5] = "unlock"
    BY <2>1
  <2> QED BY <1>7, <2>2, <2>3 DEF Leads
<1>8. CASE op = "api"
  <2>1. Steps(op) = <<"lock", "cancel", "flush", "update", "recover", "unlock">>
    BY <1>8 DEF Steps, CloseSteps, DidCloseFileSteps
  <2>2. Len(Steps(op)) = 6 /\ DOMAIN Steps(op) = 1 .. 6
    BY <2>1
  <2>3. /\ Steps(op)[1] = "lock"
        /\ Steps(op)[2] = "cancel"
        /\ Steps(op)[3] = "flush"
        /\ Steps(op)[4] = "update"
        /\ Steps(op)[5] = "recover"
        /\ Steps(op)[6] = "unlock"
    BY <2>1
  <2> QED BY <1>8, <2>2, <2>3 DEF Leads
<1>9. CASE op = "options"
  <2>1. Steps(op) = <<"read", "update">>
    BY <1>9 DEF Steps, CloseSteps, DidCloseFileSteps
  <2>2. Len(Steps(op)) = 2 /\ DOMAIN Steps(op) = 1 .. 2
    BY <2>1
  <2>3. /\ Steps(op)[1] = "read"
        /\ Steps(op)[2] = "update"
    BY <2>1
  <2> QED BY <1>9, <2>2, <2>3 DEF Leads
<1>10. CASE op = "task"
  <2>1. Steps(op) = <<"check", "lock", "flush", "update", "unlock">>
    BY <1>10 DEF Steps, CloseSteps, DidCloseFileSteps
  <2>2. Len(Steps(op)) = 5 /\ DOMAIN Steps(op) = 1 .. 5
    BY <2>1
  <2>3. /\ Steps(op)[1] = "check"
        /\ Steps(op)[2] = "lock"
        /\ Steps(op)[3] = "flush"
        /\ Steps(op)[4] = "update"
        /\ Steps(op)[5] = "unlock"
    BY <2>1
  <2> QED BY <1>10, <2>2, <2>3 DEF Leads
<1>11. CASE op = "idle"
  <2>1. Steps(op) = <<"armed", "fired", "lock", "cancel", "flush", "update", "unlock">>
    BY <1>11 DEF Steps, CloseSteps, DidCloseFileSteps
  <2>2. Len(Steps(op)) = 7 /\ DOMAIN Steps(op) = 1 .. 7
    BY <2>1
  <2>3. /\ Steps(op)[1] = "armed"
        /\ Steps(op)[2] = "fired"
        /\ Steps(op)[3] = "lock"
        /\ Steps(op)[4] = "cancel"
        /\ Steps(op)[5] = "flush"
        /\ Steps(op)[6] = "update"
        /\ Steps(op)[7] = "unlock"
    BY <2>1
  <2> QED BY <1>11, <2>2, <2>3 DEF Leads
<1>12. CASE op = "shutdown"
  <2>1. Steps(op) = <<"cancel", "stopIdle", "waitIdle", "stopQueue", "waitQueue", "lock", "final">>
    BY <1>12 DEF Steps, CloseSteps, DidCloseFileSteps
  <2>2. Len(Steps(op)) = 7 /\ DOMAIN Steps(op) = 1 .. 7
    BY <2>1
  <2>3. /\ Steps(op)[1] = "cancel"
        /\ Steps(op)[2] = "stopIdle"
        /\ Steps(op)[3] = "waitIdle"
        /\ Steps(op)[4] = "stopQueue"
        /\ Steps(op)[5] = "waitQueue"
        /\ Steps(op)[6] = "lock"
        /\ Steps(op)[7] = "final"
    BY <2>1
  <2> QED BY <1>12, <2>2, <2>3 DEF Leads
<1>13. CASE op \notin {"open", "mappers", "close", "edit", "watch", "watchConfig", "request", "api",
                      "options", "task", "idle", "shutdown"}
  <2>1. Steps(op) = <<>>
    BY <1>13 DEF Steps
  <2> QED BY <2>1
<1> QED BY <1>1, <1>2, <1>3, <1>4, <1>5, <1>6, <1>7, <1>8, <1>9, <1>10, <1>11, <1>12, <1>13

\* The goroutine will flush and nobody can stop it any more.
Flushes(r) ==
  /\ ~Does(r, "check") /\ ~Does(r, "armed")
  /\ \E i \in DOMAIN Steps(r.op) : r.step <= i /\ Steps(r.op)[i] = "flush"
\* The goroutine is closing the session.
Shuts(r) == r.op = "shutdown" /\ r.step > 1
\* The task is the one that is to update the snapshot.
Waiting(t) == t \in Tasks /\ At(t, "check") /\ taskGen[t] = generation

\* A change that scheduled an update has been flushed, or somebody is about to schedule
\* one, waits to do it, is going to flush anyway, or closes the session.
Leading(g) == Flushes(go[g]) \/ Shuts(go[g]) \/ At(g, "schedule") \/ Waiting(g)
Awaited ==
  current # NoSnapshot /\ (\E n \in promised : n > processed) => \E g \in Goroutines : Leading(g)
ClosedByClose == queueClosed /\ current # NoSnapshot => \E g \in Goroutines : Shuts(go[g])
AppliedInv == promised \subseteq 1 .. appended /\ ClosedByClose /\ Awaited

\* Who does nothing, or has only set a timer, does not lead to a flush.
LEMMA LeadsNowhere ==
  ASSUME Typed, NEW g \in Goroutines, go[g].op = "none" \/ At(g, "armed")
  PROVE  ~Leading(g) /\ ~Flushes(go[g]) /\ ~Shuts(go[g])
<1>1. CASE go[g].op = "none"
  <2>1. \A name : ~At(g, name)
    BY <1>1, Placed
  <2>2. Steps("none") = <<>>
    BY DEF Steps
  <2> QED BY <1>1, <2>1, <2>2 DEF Leading, Flushes, Shuts, Waiting
<1>2. CASE At(g, "armed")
  <2>1. go[g].step = 1 /\ Does(go[g], "armed")
    BY <1>2, Placed DEF Fits, At
  <2> QED BY <1>2, <2>1 DEF Leading, Flushes, Shuts, Waiting, At
<1> QED BY <1>1, <1>2

\* A goroutine that goes on stays on its way; who cancels an update or comes to be the
\* one to do it is on the way from then on.
LEMMA GoesOn ==
  ASSUME Typed, NEW g \in Goroutines, NEW name, At(g, name), name \notin {"flush", "final"},
         go'[g] = Advance(go[g])
  PROVE  /\ Flushes(go[g]) => Flushes(go'[g])
         /\ Shuts(go[g]) => Shuts(go'[g])
         /\ name = "cancel" => Flushes(go'[g]) \/ Shuts(go'[g])
         /\ name = "check" => Flushes(go'[g])
<1> DEFINE r == go[g]
           s == Steps(r.op)
<1>1. /\ r \in Record /\ r.step \in 1 .. Len(s) /\ s[r.step] = name /\ r.step \in Nat
      /\ DOMAIN s = 1 .. Len(s) /\ Len(s) \in Nat
  BY Placed DEF At, Record
<1>2. Leads(r.op, s, r.step)
  BY <1>1, StepsLead
<1>3. ASSUME r.step # Len(s)
      PROVE  /\ go'[g].op = r.op /\ go'[g].step = r.step + 1
             /\ ~Does(go'[g], "check") /\ ~Does(go'[g], "armed")
  <2>1. go'[g].op = r.op /\ go'[g].step = r.step + 1
    BY <1>1, <1>3 DEF Advance, Record
  <2>2. r.step + 1 \in 1 .. Len(s) /\ r.step + 1 # 1
    BY <1>1, <1>3
  <2>3. Fits(r.op, s, r.step + 1)
    BY <2>2, StepsWellOrdered DEF WellOrdered
  <2> QED BY <2>1, <2>2, <2>3 DEF Does, Fits
<1>4. ASSUME NEW i \in 1 .. Len(s), s[i] = "flush", r.step <= i
      PROVE  Flushes(go'[g])
  <2>1. r.step # i
    BY <1>1, <1>4
  <2>2. r.step + 1 <= i /\ r.step # Len(s)
    BY <1>1, <1>4, <2>1
  <2>3. go'[g].op = r.op /\ go'[g].step <= i
    BY <1>3, <2>2
  <2>4. i \in DOMAIN Steps(go'[g].op) /\ Steps(go'[g].op)[i] = "flush"
    BY <1>1, <1>4, <2>3
  <2> QED BY <1>3, <2>2, <2>3, <2>4 DEF Flushes
<1>5. Flushes(r) => Flushes(go'[g])
  BY <1>1, <1>4 DEF Flushes
<1>6. r.op = "shutdown" => Shuts(go'[g])
  <2>1. r.op = "shutdown" => r.step # Len(s)
    BY <1>1, <1>2 DEF Leads
  <2> QED BY <1>1, <1>3, <2>1 DEF Shuts
<1>7. ASSUME NEW i \in r.step + 1 .. Len(s), s[i] = "flush" PROVE Flushes(go'[g])
  <2>1. i \in 1 .. Len(s) /\ r.step <= i
    BY <1>1
  <2> QED BY <1>4, <1>7, <2>1
<1>8. name = "cancel" => Flushes(go'[g]) \/ Shuts(go'[g])
  BY <1>1, <1>2, <1>6, <1>7 DEF Leads
<1>9. name = "check" => Flushes(go'[g])
  BY <1>1, <1>2, <1>7 DEF Leads
<1> QED BY <1>5, <1>6, <1>8, <1>9 DEF Shuts

\* Who updates or reads is past its flush, and does not close the session.
LEMMA PastFlush ==
  ASSUME Typed, NEW g \in Goroutines, NEW name \in {"update", "recover", "read"}, At(g, name)
  PROVE  ~Leading(g) /\ ~Shuts(go[g])
<1> DEFINE r == go[g]
           s == Steps(r.op)
<1>1. r.step \in 1 .. Len(s) /\ s[r.step] = name /\ DOMAIN s = 1 .. Len(s) /\ Len(s) \in Nat
  BY Placed DEF At
<1>2. Leads(r.op, s, r.step)
  BY <1>1, StepsLead
<1>3. ~Flushes(r)
  <2>1. \A i \in r.step .. Len(s) : s[i] # "flush"
    BY <1>1, <1>2 DEF Leads
  <2>2. \A i \in 1 .. Len(s) : r.step <= i => i \in r.step .. Len(s)
    BY <1>1
  <2> QED BY <1>1, <2>1, <2>2 DEF Flushes
<1>4. r.op # "shutdown"
  BY <1>1, <1>2 DEF Leads
<1>5. ~At(g, "schedule") /\ ~At(g, "check")
  BY <1>1 DEF At
<1> QED BY <1>3, <1>4, <1>5 DEF Leading, Shuts, Waiting

\* Whoever was on his way still is, or somebody else.
LEMMA AwaitedSame ==
  ASSUME Typed, AppliedInv, UNCHANGED <<promised, appended, processed>>,
         current = NoSnapshot => current' = NoSnapshot,
         queueClosed' /\ current' # NoSnapshot => queueClosed \/ \E h \in Goroutines : Shuts(go'[h]),
         current' # NoSnapshot => \A h \in Goroutines : Shuts(go[h]) => Shuts(go'[h]),
         current' # NoSnapshot /\ (\E h \in Goroutines : Leading(h)) => \E h \in Goroutines : Leading(h)'
  PROVE  AppliedInv'
<1>1. ClosedByClose'
  BY DEF AppliedInv, ClosedByClose
<1>2. Awaited'
  BY DEF AppliedInv, Awaited
<1> QED BY <1>1, <1>2 DEF AppliedInv

\* The others go on as they were, or had nothing to do.
Resting(h) == go[h].op = "none" \/ StoppedTimer(h)
LEMMA OthersLead ==
  ASSUME Typed, NEW h \in Goroutines, go'[h] = go[h] \/ Resting(h)
  PROVE  /\ Shuts(go[h]) => Shuts(go'[h])
         /\ Leading(h) /\ UNCHANGED <<generation, taskGen>> => Leading(h)'
         /\ Leading(h) /\ ~Waiting(h) => Leading(h)'
<1>1. CASE go'[h] = go[h]
  BY <1>1 DEF Leading, Flushes, Shuts, Waiting, At, Does
<1>2. CASE Resting(h)
  <2>1. go[h].op = "none" \/ At(h, "armed")
    BY <1>2 DEF Resting, StoppedTimer, Stops
  <2> QED BY <2>1, LeadsNowhere
<1> QED BY <1>1, <1>2

\* A step that neither records, schedules, cancels nor flushes.
LEMMA AwaitedMoved ==
  ASSUME Typed, AppliedInv, NEW g \in Goroutines, NEW name, At(g, name),
         name \notin {"flush", "final", "schedule", "check"}, go'[g] = Advance(go[g]),
         \A h \in Goroutines : h # g => go'[h] = go[h] \/ Resting(h),
         UNCHANGED <<promised, appended, processed, queueClosed>>,
         UNCHANGED <<generation, taskGen>> \/ name = "cancel",
         current = NoSnapshot => current' = NoSnapshot
  PROVE  AppliedInv'
<1>1. ~Waiting(g) /\ ~At(g, "schedule")
  BY DEF Waiting, At
<1>2. /\ Flushes(go[g]) => Flushes(go'[g])
      /\ Shuts(go[g]) => Shuts(go'[g])
      /\ name = "cancel" => Flushes(go'[g]) \/ Shuts(go'[g])
  BY GoesOn
<1>3. Flushes(go'[g]) \/ Shuts(go'[g]) => Leading(g)'
  BY DEF Leading
<1>4. \A h \in Goroutines : Shuts(go[h]) => Shuts(go'[h])
  BY <1>2, OthersLead
<1>5. ASSUME NEW h \in Goroutines, Leading(h) PROVE \E k \in Goroutines : Leading(k)'
  <2>1. CASE h = g
    BY <1>1, <1>2, <1>3, <1>5, <2>1 DEF Leading
  <2>2. CASE h # g /\ name # "cancel"
    BY <1>5, <2>2, OthersLead
  <2>3. CASE name = "cancel"
    BY <1>2, <1>3, <2>3
  <2> QED BY <2>1, <2>2, <2>3
<1> QED BY <1>4, <1>5, AwaitedSame

\* A step of somebody who is past his flush.
LEMMA AwaitedPast ==
  ASSUME Typed, AppliedInv, NEW g \in Goroutines, NEW name \in {"update", "recover", "read"}, At(g, name),
         \A h \in Goroutines : h # g => go'[h] = go[h],
         UNCHANGED <<promised, appended, processed, queueClosed, generation, taskGen>>,
         current = NoSnapshot => current' = NoSnapshot
  PROVE  AppliedInv'
<1>1. \A h \in Goroutines : Shuts(go[h]) => Shuts(go'[h])
  BY PastFlush, OthersLead
<1>2. \A h \in Goroutines : Leading(h) => Leading(h)'
  BY PastFlush, OthersLead
<1> QED BY <1>1, <1>2, AwaitedSame

\* Whoever records a change that schedules an update goes on to schedule it.
LEMMA AwaitedRecorded ==
  ASSUME Typed, AppliedInv, NEW g \in Goroutines, AppendChange(g)
  PROVE  AppliedInv'
<1>1. /\ At(g, "append") /\ appended' = appended + 1 /\ Step(g)
      /\ promised' = promised \cup (IF go[g].op \in {"close", "watchConfig"} THEN {appended + 1} ELSE {})
      /\ UNCHANGED <<processed, current, queueClosed, generation, taskGen>>
  BY DEF AppendChange, taskVars
<1>2. go'[g] = Advance(go[g]) /\ \A h \in Goroutines : h # g => go'[h] = go[h]
  BY <1>1, Stepped DEF Moved
<1>3. promised' \subseteq 1 .. appended'
  <2>1. appended \in Nat
    BY DEF Typed
  <2>2. 1 .. appended \subseteq 1 .. appended + 1 /\ appended + 1 \in 1 .. appended + 1
    BY <2>1
  <2> QED BY <1>1, <2>2 DEF AppliedInv
<1>4. /\ Flushes(go[g]) => Flushes(go'[g])
      /\ Shuts(go[g]) => Shuts(go'[g])
  BY <1>1, <1>2, GoesOn
<1>5. ClosedByClose'
  BY <1>1, <1>2, <1>4 DEF AppliedInv, ClosedByClose
<1>6. CASE promised' = promised
  <2>1. ~Waiting(g) /\ ~At(g, "schedule")
    BY <1>1 DEF Waiting, At
  <2>2. \A h \in Goroutines : Leading(h) => Leading(h)'
    <3>1. Leading(g) => Leading(g)'
      BY <1>4, <2>1 DEF Leading
    <3> QED BY <1>1, <1>2, <3>1, OthersLead
  <2>3. Awaited'
    BY <1>1, <1>6, <2>2 DEF AppliedInv, Awaited
  <2> QED BY <1>3, <1>5, <2>3 DEF AppliedInv
<1>7. CASE go[g].op \in {"close", "watchConfig"}
  <2> DEFINE s == Steps(go[g].op)
  <2>1. /\ go[g] \in Record /\ go[g].step \in 1 .. Len(s) /\ s[go[g].step] = "append" /\ go[g].step \in Nat
        /\ DOMAIN s = 1 .. Len(s) /\ Len(s) \in Nat
    BY <1>1, Placed DEF At, Record
  <2>2. Leads(go[g].op, s, go[g].step)
    BY <2>1, StepsLead
  <2>3. go[g].step < Len(s) /\ s[go[g].step + 1] = "schedule"
    BY <1>7, <2>1, <2>2 DEF Leads
  <2>4. go'[g].op = go[g].op /\ go'[g].step = go[g].step + 1
    BY <1>2, <2>1, <2>3 DEF Advance, Record
  <2>5. At(g, "schedule")'
    BY <2>1, <2>3, <2>4 DEF At
  <2>6. Leading(g)'
    BY <2>5 DEF Leading
  <2> QED BY <1>3, <1>5, <2>6 DEF AppliedInv, Awaited
<1> QED BY <1>1, <1>6, <1>7

\* A newly scheduled task waits to update the snapshot, unless the session is being closed.
LEMMA AwaitedScheduled ==
  ASSUME Typed, AppliedInv, NEW g \in Goroutines, Schedule(g)
  PROVE  AppliedInv'
<1>1. At(g, "schedule") /\ UNCHANGED <<promised, appended, processed, current, queueClosed>>
      /\ generation' = generation + 1
  BY DEF Schedule, pendingVars
<1>2. PICK t \in Tasks :
        /\ go[t].op = "none"
        /\ taskGen' = [taskGen EXCEPT ![t] = generation + 1]
        /\ go' = [go EXCEPT ![g] = Advance(@),
                            ![t] = IF queueClosed THEN Idle ELSE [Idle EXCEPT !.op = "task", !.step = 1]]
  BY DEF Schedule
<1>3. t # g /\ t \in Goroutines
  BY <1>1, <1>2, Placed, TimersAreNoTasks
<1>4. /\ go'[g] = Advance(go[g]) /\ \A h \in Goroutines : h # g => go'[h] = go[h] \/ Resting(h)
      /\ ~queueClosed => go'[t] = [Idle EXCEPT !.op = "task", !.step = 1]
  BY <1>2, <1>3 DEF Typed, Resting
<1>5. \A h \in Goroutines : Shuts(go[h]) => Shuts(go'[h])
  BY <1>1, <1>4, GoesOn, OthersLead
<1>6. CASE queueClosed
  <2>1. current # NoSnapshot => \E h \in Goroutines : Shuts(go'[h])
    BY <1>5, <1>6 DEF AppliedInv, ClosedByClose
  <2>2. current' # NoSnapshot => \E h \in Goroutines : Leading(h)'
    BY <1>1, <2>1 DEF Leading
  <2> QED BY <1>1, <1>5, <2>2, AwaitedSame
<1>7. CASE ~queueClosed
  <2>1. go'[t].op = "task" /\ go'[t].step = 1
    BY <1>4, <1>7 DEF Idle
  <2>2. Steps("task") = <<"check", "lock", "flush", "update", "unlock">>
    BY DEF Steps
  <2>3. 1 \in DOMAIN Steps("task") /\ Steps("task")[1] = "check"
    BY <2>2
  <2>4. At(t, "check")'
    BY <2>1, <2>3 DEF At
  <2>5. taskGen'[t] = generation'
    BY <1>1, <1>2 DEF Typed
  <2>6. Leading(t)'
    BY <2>4, <2>5 DEF Leading, Waiting
  <2> QED BY <1>1, <1>3, <1>5, <2>6, AwaitedSame
<1> QED BY <1>6, <1>7

\* The task that is to update the snapshot goes on to do it, unless the session is being closed.
LEMMA AwaitedChecked ==
  ASSUME Typed, AppliedInv, StrayInv, NEW g \in Tasks, TaskCanceled(g) \/ TaskCheck(g)
  PROVE  AppliedInv'
<1> USE TimersAreNoTasks
<1>1. /\ At(g, "check")
      /\ UNCHANGED <<promised, appended, processed, current, queueClosed, generation, taskGen>>
  BY DEF TaskCanceled, TaskCheck, pendingVars, taskVars
<1>2. ~At(g, "schedule") /\ ~Flushes(go[g])
  BY <1>1 DEF At, Flushes, Does
<1>3. go[g].op # "shutdown"
  BY <1>1, Placed DEF Fits, At
<1>4. \A h \in Goroutines : h # g => go'[h] = go[h]
  BY DEF TaskCanceled, TaskCheck, Step, End, Typed
<1>5. \A h \in Goroutines : Shuts(go[h]) => Shuts(go'[h])
  BY <1>3, <1>4 DEF Shuts
<1>6. ASSUME Waiting(g), current' # NoSnapshot PROVE \E h \in Goroutines : Leading(h)'
  <2>1. CASE TaskCanceled(g)
    <3>1. g \notin canceled
      <4>1. g \in canceled => taskGen[g] < generation
        BY <1>1 DEF StrayInv, Generations
      <4> QED BY <1>6, <4>1 DEF Waiting, Typed
    <3>2. queueClosed
      BY <2>1, <3>1 DEF TaskCanceled
    <3>3. \E h \in Goroutines : Shuts(go'[h])
      BY <1>1, <1>5, <1>6, <3>2 DEF AppliedInv, ClosedByClose
    <3> QED BY <3>3 DEF Leading
  <2>2. CASE TaskCheck(g)
    <3>1. Step(g)
      BY <1>6, <2>2 DEF TaskCheck, Waiting
    <3>2. Flushes(go'[g])
      BY <1>1, <3>1, Stepped, GoesOn
    <3> QED BY <3>2 DEF Leading
  <2> QED BY <2>1, <2>2
<1>7. ASSUME NEW h \in Goroutines, Leading(h), current' # NoSnapshot
      PROVE  \E k \in Goroutines : Leading(k)'
  <2>1. CASE h = g
    BY <1>2, <1>3, <1>6, <1>7, <2>1 DEF Leading, Shuts
  <2>2. CASE h # g
    BY <1>1, <1>4, <1>7, <2>2, OthersLead
  <2> QED BY <2>1, <2>2
<1> QED BY <1>1, <1>5, <1>7, AwaitedSame

\* Whoever flushes flushes everything.
LEMMA AwaitedFlushed ==
  ASSUME Typed, AppliedInv, NEW g \in Goroutines, Flush(g)
  PROVE  AppliedInv'
<1>1. /\ At(g, "flush") /\ processed' = LastChange(g) /\ UNCHANGED <<promised, current, queueClosed>>
      /\ appended' = appended + (IF go[g].op = "open" THEN 1 ELSE 0)
  BY DEF Flush, Flushed
<1>2. appended' = processed' /\ appended' \in Nat /\ appended' >= appended
  BY <1>1 DEF LastChange, Typed
<1>3. promised' \subseteq 1 .. appended'
  BY <1>1, <1>2 DEF AppliedInv, Typed
<1>4. \A n \in promised' : ~(n > processed')
  BY <1>2, <1>3
<1>5. go[g].op # "shutdown"
  <2>1. Fits(go[g].op, Steps(go[g].op), go[g].step) /\ Steps(go[g].op)[go[g].step] = "flush"
        /\ DOMAIN Steps(go[g].op) = 1 .. Len(Steps(go[g].op)) /\ go[g] \in Record
        /\ go[g].step \in DOMAIN Steps(go[g].op)
    BY <1>1, Placed DEF At
  <2>2. go[g].step + 1 \in DOMAIN Steps(go[g].op) /\ Steps(go[g].op)[go[g].step + 1] = "update"
    BY <2>1 DEF Fits, Record
  <2>3. Leads(go[g].op, Steps(go[g].op), go[g].step + 1)
    BY <2>2, StepsLead
  <2> QED BY <2>2, <2>3 DEF Leads
<1>6. \A h \in Goroutines : h # g => go'[h] = go[h]
  BY FlushMoves DEF Moved
<1>7. ClosedByClose'
  BY <1>1, <1>5, <1>6 DEF AppliedInv, ClosedByClose, Shuts
<1> QED BY <1>3, <1>4, <1>7 DEF AppliedInv, Awaited

LEMMA AppliedKept == Typed /\ Recovering /\ StrayInv /\ AppliedInv /\ [Next]_vars => AppliedInv'
<1> SUFFICES ASSUME Typed, Recovering, StrayInv, AppliedInv, [Next]_vars PROVE AppliedInv'
  OBVIOUS
<1> USE DEF pendingVars, taskVars, idleVars
<1>1. CASE UNCHANGED vars \/ Configure \/ TypingsInstalled
  <2>1. UNCHANGED <<promised, appended, processed, current, queueClosed, generation, taskGen, go>>
    BY <1>1 DEF vars, Configure, TypingsInstalled
  <2>2. \A h \in Goroutines : (Shuts(go[h]) => Shuts(go'[h])) /\ (Leading(h) => Leading(h)')
    BY <2>1, OthersLead
  <2> QED BY <2>1, <2>2, AwaitedSame
<1>2. ASSUME NEW g \in {Loop} \cup Others, NEW op \in OpNames, Call(g, op) PROVE AppliedInv'
  <2>1. UNCHANGED <<promised, appended, processed, current, queueClosed, generation, taskGen>>
    BY <1>2 DEF Call
  <2>2. \A h \in Goroutines : go'[h] = go[h] \/ Resting(h)
    BY <1>2, CallMoves DEF Resting, Goroutines
  <2>3. \A h \in Goroutines : (Shuts(go[h]) => Shuts(go'[h])) /\ (Leading(h) => Leading(h)')
    BY <2>1, <2>2, OthersLead
  <2> QED BY <2>1, <2>3, AwaitedSame
<1>3. ASSUME NEW g \in Goroutines, NEW name, At(g, name), Step(g),
             name \notin {"flush", "final", "schedule", "check"},
             UNCHANGED <<promised, appended, processed, queueClosed, current>>,
             UNCHANGED <<generation, taskGen>> \/ name = "cancel"
      PROVE  AppliedInv'
  <2>1. go'[g] = Advance(go[g]) /\ \A h \in Goroutines : h # g => go'[h] = go[h]
    BY <1>3, Stepped DEF Moved
  <2> QED BY <1>3, <2>1, AwaitedMoved
<1>4. ASSUME NEW g \in Goroutines, Stepping(g) PROVE AppliedInv'
  <2>1. CASE AppendChange(g)
    BY <2>1, AwaitedRecorded
  <2>2. CASE CancelScheduled(g)
    BY <1>3, <2>2 DEF CancelScheduled
  <2>3. CASE Lock(g)
    BY <1>3, <2>3 DEF Lock
  <2>4. CASE Unlock(g)
    BY <1>3, <2>4 DEF Unlock
  <2>5. CASE WaitIdle(g)
    BY <1>3, <2>5 DEF WaitIdle
  <2>6. CASE WaitQueue(g)
    BY <1>3, <2>6 DEF WaitQueue
  <2>7. CASE g \in Timers /\ RunTimer(g)
    BY <1>3, <2>7 DEF RunTimer, Fire, ForgetTimer
  <2>8. CASE g \in Tasks /\ TaskCheck(g)
    BY <2>8, AwaitedChecked
  <2>9. CASE StopQueue(g)
    <3>1. At(g, "stopQueue") /\ Step(g)
          /\ UNCHANGED <<promised, appended, processed, current, generation, taskGen>>
      BY <2>9 DEF StopQueue
    <3>2. go'[g] = Advance(go[g]) /\ \A h \in Goroutines : h # g => go'[h] = go[h]
      BY <3>1, Stepped DEF Moved
    <3>3. Shuts(go[g])
      <4> DEFINE s == Steps(go[g].op)
      <4>1. go[g].step \in DOMAIN s /\ s[go[g].step] = "stopQueue"
        BY <3>1 DEF At
      <4>2. Leads(go[g].op, s, go[g].step)
        BY <4>1, StepsLead
      <4> QED BY <4>1, <4>2 DEF Leads, Shuts
    <3>4. Shuts(go'[g])
      BY <3>1, <3>2, <3>3, GoesOn
    <3>5. \A h \in Goroutines : Shuts(go[h]) => Shuts(go'[h])
      BY <3>2, <3>4 DEF Shuts
    <3>6. Leading(g)'
      BY <3>4 DEF Leading
    <3> QED BY <3>1, <3>4, <3>5, <3>6, AwaitedSame
  <2>10. CASE Final(g)
    <3>1. current' = NoSnapshot /\ UNCHANGED <<promised, appended, processed>>
      BY <2>10 DEF Final
    <3> QED BY <3>1, AwaitedSame
  <2> QED BY <1>4, <2>1, <2>2, <2>3, <2>4, <2>5, <2>6, <2>7, <2>8, <2>9, <2>10 DEF Stepping
<1>5. ASSUME NEW g \in Goroutines, GiveUp(g) PROVE AppliedInv'
  BY <1>5, AwaitedChecked DEF GiveUp
<1>6. ASSUME NEW g \in Goroutines, ArmIdle(g) PROVE AppliedInv'
  <2>1. UNCHANGED <<promised, appended, processed, current, queueClosed, generation, taskGen>>
    BY <1>6 DEF ArmIdle
  <2>2. At(g, "arm") /\ go'[g] = Advance(go[g])
        /\ \A h \in Goroutines : h # g => go'[h] = go[h] \/ Resting(h)
    BY <1>6, ArmMoves DEF Resting
  <2> QED BY <2>1, <2>2, AwaitedMoved
<1>7. ASSUME NEW g \in Goroutines, StopIdle(g) PROVE AppliedInv'
  <2>1. UNCHANGED <<promised, appended, processed, current, queueClosed, generation, taskGen>>
    BY <1>7 DEF StopIdle
  <2>2. At(g, "stopIdle") /\ go'[g] = Advance(go[g])
        /\ \A h \in Goroutines : h # g => go'[h] = go[h] \/ Resting(h)
    BY <1>7, StopMoves DEF Resting
  <2> QED BY <2>1, <2>2, AwaitedMoved
<1>8. ASSUME NEW g \in Goroutines, ReadOverlays(g) PROVE AppliedInv'
  <2>1. At(g, "read")
        /\ UNCHANGED <<promised, appended, processed, current, queueClosed, generation, taskGen>>
    BY <1>8 DEF ReadOverlays
  <2> QED BY <1>8, <2>1, ReadMoves, AwaitedPast DEF Moved
<1>9. ASSUME NEW g \in Goroutines, Update(g) PROVE AppliedInv'
  <2>1. At(g, "update") /\ UNCHANGED <<promised, appended, processed, queueClosed, generation, taskGen>>
        /\ (current = NoSnapshot => current' = NoSnapshot)
    BY <1>9 DEF Update
  <2> QED BY <1>9, <2>1, UpdateMoves, AwaitedPast DEF Moved
<1>10. ASSUME NEW g \in Goroutines, Reject(g) PROVE AppliedInv'
  <2>1. At(g, "update")
        /\ UNCHANGED <<promised, appended, processed, current, queueClosed, generation, taskGen>>
    BY <1>10 DEF Reject
  <2> QED BY <1>10, <2>1, RejectMoves, AwaitedPast DEF Moved
<1>11. ASSUME NEW g \in Goroutines, Recover(g) PROVE AppliedInv'
  <2>1. At(g, "recover") /\ UNCHANGED <<promised, appended, processed, queueClosed, generation, taskGen>>
    BY <1>11 DEF Recover
  <2>2. current # NoSnapshot
    BY <2>1 DEF Recovering, Does, At
  <2> QED BY <1>11, <2>1, <2>2, RecoverMoves, AwaitedPast DEF Moved
<1> QED
  BY <1>1, <1>2, <1>4, <1>5, <1>6, <1>7, <1>8, <1>9, <1>10, <1>11,
     AwaitedScheduled, AwaitedFlushed, NextCases

-----------------------------------------------------------------------------
(* The invariant and what follows from it.                                      *)

Inv ==
  /\ Typed /\ Roles
  /\ Holding /\ Held /\ Recovering
  /\ StrayInv /\ LostInv /\ AppliedInv
  /\ WaitGroup /\ Closing

LEMMA InitInv == Init => Inv
<1> SUFFICES ASSUME Init PROVE Inv
  OBVIOUS
<1>1. \A g \in Goroutines : go[g] = Idle
  BY DEF Init
<1>2. \A g \in Goroutines : \A name : ~Did(go[g], name) /\ ~Does(go[g], name) /\ ~At(g, name)
  BY <1>1, NothingDone DEF At, Does
<1>3. current = FirstSnapshot /\ current # NoSnapshot /\ processed = 0 /\ ataNow = 0 /\ idleWG = 0
  BY Records DEF Init
<1>4. StrayInv
  BY <1>2, TimersAreNoTasks DEF StrayInv, Generations, NoStrayTask
<1>5. LostInv
  <2>1. Carrying
    BY <1>1 DEF Carrying, Cargo, Idle, NoChange
  <2>2. 1 .. processed = {} /\ 1 .. ataNow = {}
    BY <1>3
  <2> QED
    BY <2>1, <2>2 DEF LostInv, Kept
<1>6. WaitGroup
  <2>1. Running = {}
    BY <1>1, IdleFresh, TimersAreNoTasks DEF Running
  <2> QED
    BY <1>3, <2>1, FS_EmptySet DEF WaitGroup
<1>7. AppliedInv
  <2>1. promised = {} /\ ~queueClosed
    BY DEF Init
  <2> QED BY <2>1 DEF AppliedInv, Awaited, ClosedByClose
<1> QED
  BY <1>1, <1>2, <1>3, <1>4, <1>5, <1>6, <1>7, InitTyped, IdleFresh, TimersAreNoTasks
     DEF Inv, Roles, Holding, Held, Recovering, Closing, Init

LEMMA InvKept == Inv /\ [Next]_vars => Inv'
  BY TypedKept, RolesKept, HoldingKept, HeldKept, RecoveringKept, StrayKept, LostKept,
     AppliedKept, WaitGroupKept, ClosingKept DEF Inv

LEMMA InvAlways == Spec => []Inv
<1> QED
  BY InitInv, InvKept, PTL DEF Spec

\* A waiting debounced update that was not canceled can be canceled
\* (ScheduleSnapshotUpdate and cancelScheduledSnapshotUpdate under one mutex, and the
\* generation a task compares before it forgets its cancel function).
THEOREM NoTaskStrays == Spec => []NoStrayTask
<1>1. Inv => NoStrayTask
  BY DEF Inv, StrayInv
<1> QED
  BY <1>1, InvAlways, PTL

\* What flushChanges took off the pending changes reaches a snapshot, or whoever took
\* it still carries it: also when the request of an API client fails and another
\* update comes in between.
THEOREM NothingIsLost == Spec => []NothingLost
<1>1. Inv => NothingLost
  BY KeptNothingLost DEF Inv, LostInv
<1> QED
  BY <1>1, InvAlways, PTL

\* After Close no callback and no background update is left to use the snapshot it
\* gave up.
THEOREM NobodyAfterClose == Spec => []NoneAfterClose
<1>1. Inv => NoneAfterClose
  BY DEF Inv, Closing, TimersRest, TasksEnded, NoneAfterClose
<1> QED
  BY <1>1, InvAlways, PTL

\* Nobody waits for ever for the lock, and Close not for the callbacks and the
\* background updates: the lock is taken last, and whoever holds it goes on.  Only the
\* panic of an update that comes after Close leaves others waiting, for snapshotMu.
THEOREM NobodyIsStuck == Spec => []NobodyStuck
<1>1. Inv => NobodyStuck
  BY SomebodyGoesOn DEF Inv
<1> QED
  BY <1>1, InvAlways, PTL

\* The change of a closed file, or of a configuration file, reaches the snapshot without
\* anybody asking: whatever cancels or replaces the debounced update that it scheduled
\* flushes the change itself, or closes the session (DidCloseFile, ScheduleSnapshotUpdate,
\* cancelScheduledSnapshotUpdate).
THEOREM ScheduledIsApplied == Spec => []ScheduledApplied
<1>1. ASSUME Inv, Quiet, current # NoSnapshot, NEW n \in promised PROVE n \in current.files
  <2>1. \A g \in Goroutines : ~Leading(g) /\ ~Cargo(go[g])
    BY <1>1, LeadsNowhere, NoCargo DEF Inv, LostInv, Quiet
  <2>2. ~(n > processed)
    BY <1>1, <2>1 DEF Inv, AppliedInv, Awaited
  <2>3. n \in 1 .. appended /\ appended \in Nat /\ processed \in Nat
    BY <1>1 DEF Inv, AppliedInv, Typed
  <2>4. n \in 1 .. processed
    BY <2>2, <2>3
  <2>5. n \in current.files \/ \E g \in Goroutines : n \in go[g].change.files
    BY <1>1, <2>4 DEF Inv, LostInv, Kept
  <2> QED BY <2>1, <2>5 DEF Cargo
<1>2. Inv => ScheduledApplied
  BY <1>1 DEF ScheduledApplied
<1> QED
  BY <1>2, InvAlways, PTL

-----------------------------------------------------------------------------
(* Requests see what was there when they asked.                                 *)

\* Carrier: the goroutine has flushed, or read, what it is going to install.
Carrier(r) == Does(r, "update") \/ Does(r, "recover")
\* What it installs brings the snapshot up to the overlays.
Delivers(r) ==
  /\ r.change.overlays = processed
  /\ r.change.files = IF r.op = "options" THEN {} ELSE current.overlays + 1 .. processed
Delivering == \E g \in Goroutines : Carrier(go[g]) /\ go[g].op # "options"
Consistent ==
  /\ processed <= appended
  /\ current # NoSnapshot =>
       /\ current.files = 1 .. current.overlays /\ current.overlays <= processed
       /\ \A g \in Goroutines : Carrier(go[g]) => Delivers(go[g])
       /\ Delivering \/ current.overlays = processed
\* A request has flushed what it is due, and has got it.
Sees(r) ==
  /\ r.due <= appended
  /\ r.op \in {"request", "api"} =>
       /\ Carrier(r) => r.due <= processed
       /\ r.got # NoSnapshot => r.got.files = 1 .. r.got.overlays /\ r.due <= r.got.overlays
SeesInv == \A g \in Goroutines : Sees(go[g])
OptionsOfLoop == \A g \in Goroutines : go[g].op = "options" => g = Loop
SeenInv == Consistent /\ SeesInv /\ OptionsOfLoop

\* Nobody carries anything from the start of an operation.
LEMMA EarlyNoCarrier == ASSUME NEW r \in Record, r.step <= 1 PROVE ~Carrier(r)
<1>1. ASSUME Does(r, "update") PROVE FALSE
  <2>1. Leads(r.op, Steps(r.op), r.step)
    BY <1>1, StepsLead DEF Does
  <2> QED BY <1>1, <2>1 DEF Leads, Does, Record
<1>2. ASSUME Does(r, "recover") PROVE FALSE
  <2>1. Fits(r.op, Steps(r.op), r.step)
    BY <1>2, StepsWellOrdered DEF Does, WellOrdered
  <2> QED BY <1>2, <2>1 DEF Fits, Does, Record
<1> QED BY <1>1, <1>2 DEF Carrier

\* A step keeps what the goroutine knows, unless it is the last one.
LEMMA Going ==
  ASSUME NEW r \in Record, r.step \in DOMAIN Steps(r.op)
  PROVE  \/ Advance(r) = Idle
         \/ /\ Advance(r).op = r.op /\ Advance(r).step = r.step + 1 /\ Advance(r).change = r.change
            /\ Advance(r).due = r.due /\ Advance(r).got = r.got
  BY DEF Advance, Record

LEMMA IdleSees ==
  /\ Idle.due = 0 /\ Idle.got = NoSnapshot /\ Idle.op = "none" /\ Idle.step = 0 /\ ~Carrier(Idle)
  BY Records, EarlyNoCarrier DEF Idle

\* Goroutine h neither gets nor takes over anything.
Keeps(h) ==
  \/ go'[h].op = go[h].op /\ go'[h].due = go[h].due /\ go'[h].got = go[h].got
  \/ go'[h].due \in 0 .. appended /\ go'[h].got = NoSnapshot
Passes(h) == go'[h] = go[h] \/ (Keeps(h) /\ ~Carrier(go[h]) /\ ~Carrier(go'[h]))

LEMMA SeenSame ==
  ASSUME Typed, SeenInv, \A h \in Goroutines : Passes(h), processed' = processed,
         appended' \in {appended, appended + 1}, current' \in {current, NoSnapshot}
  PROVE  Consistent' /\ SeesInv'
<1>1. appended \in Nat /\ processed \in Nat /\ processed <= appended /\ \A h \in Goroutines : go[h].due \in Nat
  BY DEF SeenInv, Consistent, Typed, Record
<1>2. \A h \in Goroutines : Carrier(go'[h]) \/ Carrier(go[h]) => go'[h] = go[h]
  BY DEF Passes
<1>3. Delivering' <=> Delivering
  BY <1>2 DEF Delivering, Carrier, Does
<1>4. current' # NoSnapshot => current' = current
  OBVIOUS
<1>5. ASSUME current' # NoSnapshot, NEW h \in Goroutines, Carrier(go'[h]) PROVE Delivers(go[h])'
  <2>1. go'[h] = go[h] /\ Carrier(go[h])
    BY <1>2, <1>5
  <2> QED BY <1>4, <1>5, <2>1 DEF SeenInv, Consistent, Delivers
<1>6. Consistent'
  BY <1>1, <1>3, <1>4, <1>5 DEF SeenInv, Consistent, Carrier, Does
<1>7. ASSUME NEW h \in Goroutines PROVE Sees(go[h])'
  <2>1. Sees(go[h])
    BY DEF SeenInv, SeesInv
  <2>2. CASE go'[h] = go[h]
    BY <1>1, <2>1, <2>2 DEF Sees, Carrier, Does
  <2>3. CASE Keeps(h) /\ ~Carrier(go[h]) /\ ~Carrier(go'[h])
    <3>1. CASE go'[h].op = go[h].op /\ go'[h].due = go[h].due /\ go'[h].got = go[h].got
      <4>1. go'[h].due <= appended'
        BY <1>1, <2>1, <3>1 DEF Sees
      <4> QED BY <2>1, <2>3, <3>1, <4>1 DEF Sees, Carrier, Does
    <3>2. CASE go'[h].due \in 0 .. appended /\ go'[h].got = NoSnapshot
      <4>1. go'[h].due <= appended'
        BY <1>1, <3>2
      <4> QED BY <2>3, <3>2, <4>1 DEF Sees, Carrier, Does
    <3> QED BY <2>3, <3>1, <3>2 DEF Keeps
  <2> QED BY <2>2, <2>3 DEF Passes
<1> QED BY <1>6, <1>7 DEF SeesInv

LEMMA StepPasses ==
  ASSUME Typed, SeenInv, NEW g \in Goroutines, NEW name, At(g, name),
         name \notin {"flush", "read", "update", "recover"}, go'[g] = Advance(go[g])
  PROVE  Passes(g)
<1> DEFINE r == go[g]
           s == Steps(r.op)
<1>1. /\ r \in Record /\ r.step \in DOMAIN s /\ s[r.step] = name /\ r.step \in Nat
  BY Placed DEF At, Record
<1>2. ~Carrier(r)
  BY <1>1 DEF Carrier, Does
<1>3. CASE go'[g] = Idle
  <2>1. 0 <= appended
    BY DEF Typed
  <2> QED BY <1>2, <1>3, <2>1, IdleSees DEF Passes, Keeps
<1>4. CASE /\ go'[g].op = r.op /\ go'[g].step = r.step + 1
           /\ go'[g].due = r.due /\ go'[g].got = r.got
  <2>1. ASSUME Does(go'[g], "update") PROVE FALSE
    <3>1. r.step + 1 \in DOMAIN s /\ s[r.step + 1] = "update"
      BY <1>4, <2>1 DEF Does
    <3>2. Leads(r.op, s, r.step + 1) /\ r.step + 1 - 1 = r.step
      BY <1>1, <3>1, StepsLead
    <3> QED BY <1>1, <3>1, <3>2 DEF Leads
  <2>2. ~Does(go'[g], "recover")
    BY <1>1, <1>4, NotRecovering
  <2> QED BY <1>2, <1>4, <2>1, <2>2 DEF Passes, Keeps, Carrier
<1> QED BY <1>1, <1>3, <1>4, Going

\* Who begins an operation, or is stopped, had nothing.
LEMMA NewPasses ==
  ASSUME Typed, SeenInv, NEW h \in Goroutines, Resting(h), go'[h] \in Record, go'[h].step <= 1,
         go'[h].due <= appended, go'[h].got = NoSnapshot
  PROVE  Passes(h)
<1>1. ~Carrier(go[h])
  <2>1. CASE go[h].op = "none"
    BY <2>1, Placed DEF Carrier, Does, At
  <2>2. CASE At(h, "armed")
    BY <2>2 DEF Carrier, Does, At
  <2> QED BY <2>1, <2>2 DEF Resting, StoppedTimer, Stops
<1>2. ~Carrier(go'[h])
  BY EarlyNoCarrier
<1>3. go'[h].due \in 0 .. appended
  BY DEF Typed, Record
<1> QED BY <1>1, <1>2, <1>3 DEF Passes, Keeps

\* Who installs what he has flushed holds the lock; who has only read does so while nobody
\* else updates.
LEMMA CarriersHold ==
  ASSUME Typed, Holding, SeenInv, OptionsAlone, NEW g \in Goroutines
  PROVE  /\ Carrier(go[g]) /\ go[g].op # "options" => updateMu = g
         /\ go[g].op = "options" => g = Loop /\ updateMu = None
         /\ At(g, "flush") => updateMu = g /\ go[g].op # "options" /\ ~Carrier(go[g])
<1>1. ASSUME Carrier(go[g]), go[g].op # "options" PROVE updateMu = g
  <2>1. PICK name \in {"update", "recover"} : At(g, name)
    BY <1>1 DEF Carrier, Does, At
  <2>2. Did(go[g], "lock")
    BY <1>1, <2>1, Placed DEF Fits, At, Did
  <2> QED BY <2>2 DEF Holding
<1>2. go[g].op = "options" => g = Loop /\ updateMu = None
  BY DEF SeenInv, OptionsOfLoop, OptionsAlone
<1>3. ASSUME At(g, "flush") PROVE updateMu = g /\ ~Carrier(go[g])
  BY <1>3, Holders DEF Carrier, Does, At
<1>4. g # None
  BY TimersAreNoTasks
<1> QED BY <1>1, <1>2, <1>3, <1>4

\* While one goroutine flushes or installs, nobody else carries anything.
LEMMA CarriesAlone ==
  ASSUME Typed, Holding, SeenInv, OptionsAlone, NEW g \in Goroutines,
         At(g, "flush") \/ Carrier(go[g]), NEW h \in Goroutines, h # g
  PROVE  ~Carrier(go[h])
<1>1. g # None /\ h # None
  BY TimersAreNoTasks
<1>2. updateMu = g \/ (g = Loop /\ updateMu = None)
  BY CarriersHold
<1>3. Carrier(go[h]) => (updateMu = h \/ (h = Loop /\ updateMu = None))
  BY CarriersHold
<1> QED BY <1>1, <1>2, <1>3

LEMMA SeenFlushed ==
  ASSUME Typed, Holding, SeenInv, OptionsAlone, NEW g \in Goroutines, Flush(g)
  PROVE  Consistent' /\ SeesInv'
<1> DEFINE c == Flushed(g)
           change == IF go[g].op = "api" THEN [c EXCEPT !.config = 0] ELSE c
           got == IF go[g].op = "request" THEN current ELSE NoSnapshot
           skip == [go[g] EXCEPT !.step = @ + 2, !.got = got]
<1>1. /\ At(g, "flush") /\ processed' = c.overlays /\ current' = current
      /\ appended' = appended + (IF go[g].op = "open" THEN 1 ELSE 0)
  BY DEF Flush
<1>2. /\ appended \in Nat /\ processed \in Nat /\ processed <= appended
      /\ go[g] \in Record /\ current \in Told \cup {NoSnapshot}
  BY DEF Typed, SeenInv, Consistent
<1>3. /\ c.overlays = appended' /\ c.files = processed + 1 .. appended'
      /\ appended' \in Nat /\ appended <= appended'
  BY <1>1, <1>2 DEF Flushed, LastChange
<1>4. processed' = appended' /\ processed <= processed'
  BY <1>1, <1>2, <1>3
<1>5. \A h \in Goroutines : h # g => go'[h] = go[h] /\ ~Carrier(go[h])
  BY <1>1, FlushMoves, CarriesAlone DEF Moved
<1>6. ~Carrier(go[g]) /\ go[g].op # "options"
  BY <1>1, CarriersHold
<1>7. current # NoSnapshot => /\ current.overlays = processed /\ current.files = 1 .. processed
                              /\ current.overlays \in Nat
  <2>1. ~Delivering
    BY <1>5, <1>6 DEF Delivering
  <2> QED BY <1>2, <2>1 DEF SeenInv, Consistent, Told
<1>8. \A h \in Goroutines : Sees(go[h]) /\ go[h].due \in Nat
  BY DEF SeenInv, SeesInv, Typed, Record
<1>9. ASSUME NEW h \in Goroutines, h # g PROVE Sees(go[h])' /\ ~Carrier(go'[h])
  <2>1. go'[h] = go[h] /\ ~Carrier(go[h]) /\ go[h].due <= appended'
    BY <1>2, <1>3, <1>5, <1>8, <1>9 DEF Sees
  <2> QED BY <1>8, <2>1 DEF Sees, Carrier, Does
<1>10. CASE go' = [go EXCEPT ![g] = Advance([@ EXCEPT !.change = change])]
  <2> DEFINE r == [go[g] EXCEPT !.change = change]
  <2>1. change \in Told /\ change.overlays = processed' /\ change.files = processed + 1 .. processed'
    <3>1. c \in Told
      BY FlushMoves
    <3> QED BY <1>1, <1>3, <1>4, <3>1 DEF Told
  <2> HIDE DEF change
  <2>2. /\ r \in Record /\ r.op = go[g].op /\ r.step = go[g].step /\ r.change = change
        /\ r.due = go[g].due /\ r.got = go[g].got
    BY <1>2, <2>1 DEF Record
  <2>3. go'[g] = Advance(r)
    BY <1>10 DEF Typed
  <2> HIDE DEF r
  <2>4. r.step \in DOMAIN Steps(r.op)
    BY <1>1, <2>2, Placed
  <2>5. \/ go'[g] = Idle
        \/ go'[g].op = go[g].op /\ go'[g].change = change /\ go'[g].due = go[g].due /\ go'[g].got = go[g].got
    BY <2>2, <2>3, <2>4, Going
  <2>6. CASE go'[g] = Idle
    <3>1. FALSE
      <4>1. go[g].step + 1 \in DOMAIN Steps(go[g].op) /\ Len(Steps(go[g].op)) \in Nat
            /\ DOMAIN Steps(go[g].op) = 1 .. Len(Steps(go[g].op))
        BY <1>1, Placed DEF Fits, At, Record
      <4>2. r.step = Len(Steps(r.op))
        BY <2>2, <2>3, <2>4, <2>6, Advancing
      <4> QED BY <1>2, <2>2, <4>1, <4>2 DEF Record
    <3> QED BY <3>1
  <2>7. CASE go'[g].op = go[g].op /\ go'[g].change = change /\ go'[g].due = go[g].due /\ go'[g].got = go[g].got
    <3>1. Sees(go[g])'
      <4>1. go[g].due <= appended' /\ go[g].due <= processed'
        BY <1>2, <1>3, <1>4, <1>8 DEF Sees
      <4> QED BY <1>8, <2>7, <4>1 DEF Sees, Carrier, Does
    <3>2. current' # NoSnapshot => Delivers(go[g])'
      BY <1>1, <1>6, <1>7, <2>1, <2>7 DEF Delivers
    <3>3. Carrier(go'[g])
      <4>1. Does(go'[g], "update")
        <5>1. go'[g] # Idle
          BY <1>2, <1>6, <2>7, Placed, <1>1, IdleSees
        <5>2. go'[g].step = go[g].step + 1
          BY <2>2, <2>3, <2>4, <5>1, Going
        <5>3. /\ go[g].step + 1 \in DOMAIN Steps(go[g].op)
              /\ Steps(go[g].op)[go[g].step + 1] = "update"
          BY <1>1, Placed DEF Fits, At, Record
        <5> QED BY <2>7, <5>2, <5>3 DEF Does
      <4> QED BY <4>1 DEF Carrier
    <3>4. Delivering'
      BY <1>6, <2>7, <3>3 DEF Delivering, Carrier, Does
    <3>5. Consistent'
      BY <1>1, <1>3, <1>4, <1>7, <1>9, <3>2, <3>4 DEF Consistent, Carrier, Does
    <3> QED BY <1>9, <3>1, <3>5 DEF SeesInv
  <2> QED BY <2>5, <2>6, <2>7
<1>11. CASE NothingPending(c) /\ go[g].op \in {"task", "request"} /\ go' = [go EXCEPT ![g] = skip]
  <2>1. processed' = processed
    <3>1. c.files = {}
      BY <1>11 DEF NothingPending
    <3> QED BY <1>2, <1>3, <1>4, <3>1
  <2>2. go'[g] = skip
    BY <1>11 DEF Typed
  <2>3. go'[g].op = go[g].op /\ go'[g].due = go[g].due /\ go'[g].got = got
    <3> HIDE DEF got
    <3> QED BY <1>2, <2>2 DEF Record
  <2>4. ~Carrier(go'[g])
    <3>1. go'[g].step = go[g].step + 2
      <4> HIDE DEF got
      <4> QED BY <1>2, <2>2 DEF Record
    <3>2. Steps(go[g].op)[go[g].step + 2] = "unlock"
      BY <1>1, <1>11, Placed DEF Fits, At
    <3> QED BY <2>3, <3>1, <3>2 DEF Carrier, Does
  <2>5. Sees(go[g])'
    <3>1. go[g].due <= appended' /\ go[g].due <= processed
      BY <1>2, <1>3, <1>4, <1>8, <2>1 DEF Sees
    <3>2. got # NoSnapshot => got.files = 1 .. got.overlays /\ go[g].due <= got.overlays
      BY <1>7, <3>1
    <3> QED BY <2>3, <2>4, <3>1, <3>2 DEF Sees, Carrier, Does
  <2>6. Consistent'
    <3>1. \A h \in Goroutines : ~Carrier(go'[h])
      BY <1>9, <2>4
    <3> QED BY <1>1, <1>3, <1>4, <1>7, <2>1, <3>1 DEF Consistent, Carrier, Does
  <2> QED BY <1>9, <2>5, <2>6 DEF SeesInv
<1> QED BY <1>10, <1>11 DEF Flush

LEMMA SeenRead ==
  ASSUME Typed, SeenInv, NEW g \in Goroutines, ReadOverlays(g)
  PROVE  Consistent' /\ SeesInv'
<1> DEFINE r == [go[g] EXCEPT !.change = [NoChange EXCEPT !.overlays = processed]]
<1>1. At(g, "read") /\ UNCHANGED <<appended, processed, current>> /\ go'[g] = Advance(r)
  BY DEF ReadOverlays, Typed, pendingVars
<1>2. /\ go[g] \in Record /\ processed \in Nat /\ appended \in Nat
  BY DEF Typed
<1>3. /\ r \in Record /\ r.op = go[g].op /\ r.step = go[g].step /\ r.due = go[g].due /\ r.got = go[g].got
      /\ r.change.overlays = processed /\ r.change.files = {}
  BY <1>2, Records DEF Record, Told, NoChange
<1> HIDE DEF r
<1>4. go[g].op = "options" /\ ~Carrier(go[g]) /\ r.step \in DOMAIN Steps(r.op)
  <2>1. go[g].step \in DOMAIN Steps(go[g].op) /\ Steps(go[g].op)[go[g].step] = "read"
    BY <1>1 DEF At
  <2>2. Leads(go[g].op, Steps(go[g].op), go[g].step)
    BY <2>1, StepsLead
  <2> QED BY <1>3, <2>1, <2>2 DEF Leads, Carrier, Does
<1>5. /\ go'[g].op # "options" => ~Carrier(go'[g]) /\ go'[g].op = "none" /\ go'[g].due = 0
      /\ go'[g].op = "options" =>
           go'[g].change.overlays = processed /\ go'[g].change.files = {} /\ go'[g].due = go[g].due
  <2>1. CASE Advance(r) = Idle
    BY <1>1, <2>1, IdleSees
  <2>2. CASE /\ Advance(r).op = r.op /\ Advance(r).change = r.change /\ Advance(r).due = r.due
    BY <1>1, <1>3, <1>4, <2>2
  <2> QED BY <1>3, <1>4, <2>1, <2>2, Going
<1>6. \A h \in Goroutines : h # g => go'[h] = go[h]
  BY ReadMoves DEF Moved
<1>7. Sees(go[g]) /\ 0 <= appended
  BY <1>2 DEF SeenInv, SeesInv
<1>8. go'[g].op \notin {"request", "api"} /\ go'[g].due <= appended
  BY <1>5, <1>7 DEF Sees
<1>9. SeesInv'
  BY <1>1, <1>6, <1>8 DEF SeenInv, SeesInv, Sees, Carrier, Does
<1>10. Delivering' <=> Delivering
  BY <1>4, <1>5, <1>6 DEF Delivering, Carrier, Does
<1>11. ASSUME current # NoSnapshot, NEW h \in Goroutines, Carrier(go'[h]) PROVE Delivers(go[h])'
  <2>1. CASE h = g
    BY <1>1, <1>5, <1>11, <2>1 DEF Delivers
  <2>2. CASE h # g
    BY <1>1, <1>6, <1>11, <2>2 DEF SeenInv, Consistent, Delivers
  <2> QED BY <2>1, <2>2
<1>12. Consistent'
  BY <1>1, <1>10, <1>11 DEF SeenInv, Consistent, Carrier, Does
<1> QED BY <1>9, <1>12

\* Whoever is done installing leaves a snapshot that is up to the overlays.
LEMMA SeenInstalled ==
  ASSUME Typed, Holding, SeenInv, OptionsAlone, NEW g \in Goroutines, Carrier(go[g]),
         UNCHANGED <<appended, processed>>, \A h \in Goroutines : h # g => go'[h] = go[h],
         ~Carrier(go'[g]),
         current' # NoSnapshot => current'.overlays = processed /\ current'.files = 1 .. processed,
         Sees(go[g])'
  PROVE  Consistent' /\ SeesInv'
<1>1. \A h \in Goroutines : h # g => go'[h] = go[h] /\ ~Carrier(go[h])
  BY CarriesAlone
<1>2. \A h \in Goroutines : ~Carrier(go[h])'
  BY <1>1 DEF Carrier, Does
<1>3. processed \in Nat
  BY DEF Typed
<1>4. Consistent'
  BY <1>2, <1>3 DEF SeenInv, Consistent
<1>5. SeesInv'
  BY <1>1 DEF SeenInv, SeesInv, Sees, Carrier, Does
<1> QED BY <1>4, <1>5

\* What is applied completes the snapshot.
LEMMA Completes ==
  ASSUME Typed, Holding, SeenInv, OptionsAlone, NEW g \in Goroutines, Carrier(go[g]), current # NoSnapshot
  PROVE  /\ Applied(go[g].change).overlays = processed /\ Applied(go[g].change).files = 1 .. processed
         /\ go[g].op # "options" =>
              /\ Recovered(go[g].change).overlays = processed
              /\ Recovered(go[g].change).files = 1 .. processed
<1> DEFINE c == go[g].change
<1>1. /\ current.files = 1 .. current.overlays /\ current.overlays <= processed /\ Delivers(go[g])
      /\ current.overlays \in Nat /\ processed \in Nat
  BY DEF SeenInv, Consistent, Typed, Told
<1>2. Applied(c).overlays = c.overlays /\ Applied(c).files = current.files \cup c.files
  BY DEF Applied
<1>3. CASE go[g].op = "options"
  <2>1. ~Delivering
    BY <1>3, CarriesAlone DEF Delivering
  <2>2. current.overlays = processed
    BY <2>1 DEF SeenInv, Consistent
  <2>3. c.files = {} /\ c.overlays = processed
    BY <1>1, <1>3 DEF Delivers
  <2> QED BY <1>1, <1>2, <1>3, <2>2, <2>3
<1>4. CASE go[g].op # "options"
  <2>1. c.files = current.overlays + 1 .. processed /\ c.overlays = processed
    BY <1>1, <1>4 DEF Delivers
  <2>2. (1 .. current.overlays) \cup (current.overlays + 1 .. processed) = 1 .. processed
    BY <1>1
  <2>3. c.files = {} => current.overlays = processed
    <3> SUFFICES ASSUME current.overlays < processed PROVE processed \in c.files
      BY <1>1
    <3> QED BY <1>1, <2>1
  <2> QED BY <1>1, <1>2, <2>1, <2>2, <2>3 DEF Recovered
<1> QED BY <1>3, <1>4

LEMMA SeenUpdated ==
  ASSUME Typed, Holding, SeenInv, OptionsAlone, NEW g \in Goroutines, Update(g)
  PROVE  Consistent' /\ SeesInv'
<1>1. /\ At(g, "update") /\ UNCHANGED <<appended, processed>> /\ go[g] \in Record
      /\ appended \in Nat /\ processed \in Nat /\ Sees(go[g]) /\ go[g].step \in Nat
  BY DEF Update, Typed, SeenInv, SeesInv, pendingVars, Record
<1>2. Carrier(go[g])
  BY <1>1 DEF Carrier, Does, At
<1>3. Moved(g, {"update", "recover"}) /\ ~Does(go'[g], "recover")
  BY UpdateMoves
<1>4. ~Carrier(go'[g])
  <2>1. CASE go'[g] = Idle
    BY <2>1, IdleSees
  <2>2. CASE go'[g].op = go[g].op /\ go'[g].step > go[g].step
    <3> DEFINE s == Steps(go[g].op)
    <3>1. go[g].step \in DOMAIN s /\ s[go[g].step] = "update"
          /\ DOMAIN s = 1 .. Len(s) /\ Len(s) \in Nat
      BY <1>1, Placed DEF At
    <3>2. \A j \in go[g].step + 1 .. Len(s) : s[j] # "update"
      BY <3>1, StepsLead DEF Leads
    <3> QED BY <1>1, <1>3, <2>2, <3>1, <3>2 DEF Carrier, Does
  <2> QED BY <1>3, <2>1, <2>2 DEF Moved
<1>5. CASE current = NoSnapshot
  <2>1. current' = NoSnapshot /\ go'[g] = Idle
    BY <1>5, Ended DEF Update
  <2>2. Sees(go[g])'
    BY <1>1, <2>1, IdleSees DEF Sees, Carrier, Does
  <2> QED BY <1>1, <1>2, <1>3, <1>4, <2>1, <2>2, SeenInstalled DEF Moved
<1>6. CASE current # NoSnapshot
  <2> DEFINE next == Applied(go[g].change)
             done == [go[g] EXCEPT !.change = NoChange, !.got = next]
             r == IF done.op = "api" THEN [done EXCEPT !.step = @ + 1] ELSE done
  <2>1. current' = next /\ go'[g] = Advance(r)
    BY <1>6 DEF Update, Typed
  <2>2. next.overlays = processed /\ next.files = 1 .. processed
    BY <1>2, <1>6, Completes
  <2>3. r.op = go[g].op /\ r.due = go[g].due /\ r.got = next
    <3> HIDE DEF next
    <3> QED BY <1>1 DEF Record
  <2>4. \/ go'[g] = Idle
        \/ go'[g].op = go[g].op /\ go'[g].due = go[g].due /\ go'[g].got = next
    <3>1. Advance(r) = Idle \/ Advance(r) = [r EXCEPT !.step = @ + 1]
      BY DEF Advance
    <3>2. [r EXCEPT !.step = @ + 1].op = r.op /\ [r EXCEPT !.step = @ + 1].due = r.due
          /\ [r EXCEPT !.step = @ + 1].got = r.got
      <4> HIDE DEF next
      <4> QED BY <1>1 DEF Record
    <3> HIDE DEF r
    <3> QED BY <2>1, <2>3, <3>1, <3>2
  <2> HIDE DEF next, done, r
  <2>5. Sees(go[g])'
    <3>1. CASE go'[g] = Idle
      BY <1>1, <3>1, IdleSees DEF Sees, Carrier, Does
    <3>2. CASE go'[g].op = go[g].op /\ go'[g].due = go[g].due /\ go'[g].got = next
      BY <1>1, <1>2, <1>4, <2>2, <3>2 DEF Sees, Carrier, Does
    <3> QED BY <2>4, <3>1, <3>2
  <2> QED BY <1>1, <1>2, <1>3, <1>4, <2>1, <2>2, <2>5, SeenInstalled DEF Moved
<1> QED BY <1>5, <1>6

LEMMA SeenRejected ==
  ASSUME Typed, SeenInv, NEW g \in Goroutines, Reject(g)
  PROVE  Consistent' /\ SeesInv'
<1>1. /\ At(g, "update") /\ Step(g) /\ UNCHANGED <<appended, processed, current>>
      /\ go[g].op = "api" /\ go[g] \in Record
  BY DEF Reject, Typed, pendingVars
<1>2. go'[g] = Advance(go[g]) /\ go'[g].change = go[g].change /\ Does(go'[g], "recover")
      /\ \A h \in Goroutines : h # g => go'[h] = go[h]
  BY <1>1, RejectMoves, Stepped DEF Moved
<1>3. Carrier(go[g]) /\ Carrier(go'[g])
  BY <1>1, <1>2 DEF Carrier, Does, At
<1>4. go'[g].op = go[g].op /\ go'[g].due = go[g].due /\ go'[g].got = go[g].got
  BY <1>1, <1>2, <1>3, Going, IdleSees, Placed
<1>5. \A h \in Goroutines : /\ Carrier(go'[h]) <=> Carrier(go[h])
                            /\ go'[h].op = go[h].op /\ go'[h].due = go[h].due /\ go'[h].got = go[h].got
                            /\ go'[h].change = go[h].change
  BY <1>2, <1>3, <1>4
<1>6. Consistent'
  BY <1>1, <1>5 DEF SeenInv, Consistent, Delivering, Delivers, Carrier, Does
<1>7. SeesInv'
  BY <1>1, <1>5 DEF SeenInv, SeesInv, Sees, Carrier, Does
<1> QED BY <1>6, <1>7

LEMMA SeenRecovered ==
  ASSUME Typed, Holding, Recovering, SeenInv, OptionsAlone, NEW g \in Goroutines, Recover(g)
  PROVE  Consistent' /\ SeesInv'
<1> DEFINE r == [go[g] EXCEPT !.change = NoChange]
<1>1. /\ At(g, "recover") /\ UNCHANGED <<appended, processed>> /\ go[g] \in Record
      /\ current' = Recovered(go[g].change) /\ go'[g] = Advance(r)
      /\ appended \in Nat /\ processed \in Nat /\ Sees(go[g]) /\ go[g].step \in Nat
  BY DEF Recover, Typed, SeenInv, SeesInv, pendingVars, Record
<1>2. Carrier(go[g]) /\ go[g].op = "api" /\ current # NoSnapshot
  BY <1>1, Placed DEF Carrier, Does, At, Fits, Recovering
<1>3. Moved(g, {"recover"}) /\ ~Does(go'[g], "recover")
  BY RecoverMoves
<1>4. ~Carrier(go'[g])
  <2>1. CASE go'[g] = Idle
    BY <2>1, IdleSees
  <2>2. CASE go'[g].op = go[g].op /\ go'[g].step > go[g].step
    <3> DEFINE s == Steps(go[g].op)
    <3>1. go[g].step \in DOMAIN s /\ s[go[g].step] = "recover"
          /\ DOMAIN s = 1 .. Len(s) /\ Len(s) \in Nat
      BY <1>1, Placed DEF At
    <3>2. \A j \in go[g].step + 1 .. Len(s) : s[j] # "update"
      BY <3>1, StepsLead DEF Leads
    <3> QED BY <1>1, <1>3, <2>2, <3>1, <3>2 DEF Carrier, Does
  <2> QED BY <1>3, <2>1, <2>2 DEF Moved
<1>5. Recovered(go[g].change).overlays = processed /\ Recovered(go[g].change).files = 1 .. processed
  BY <1>2, Completes
<1>6. r \in Record /\ r.op = go[g].op /\ r.step = go[g].step /\ r.due = go[g].due /\ r.got = go[g].got
  BY <1>1, Records DEF Record
<1> HIDE DEF r
<1>7. go'[g] = Idle \/ (go'[g].op = go[g].op /\ go'[g].due = go[g].due /\ go'[g].got = go[g].got)
  BY <1>1, <1>6, Going, Placed
<1>8. Sees(go[g])'
  <2>1. CASE go'[g] = Idle
    BY <1>1, <2>1, IdleSees DEF Sees, Carrier, Does
  <2>2. CASE go'[g].op = go[g].op /\ go'[g].due = go[g].due /\ go'[g].got = go[g].got
    BY <1>1, <1>4, <2>2 DEF Sees, Carrier, Does
  <2> QED BY <1>7, <2>1, <2>2
<1> QED BY <1>1, <1>2, <1>3, <1>4, <1>5, <1>8, SeenInstalled DEF Moved

\* Only the dispatch loop changes the compiler options.
LEMMA OptionsKept == Typed /\ OptionsOfLoop /\ [Next]_vars => OptionsOfLoop'
<1> SUFFICES ASSUME Typed, OptionsOfLoop, [Next]_vars PROVE OptionsOfLoop'
  OBVIOUS
<1>1. ASSUME \A h \in Goroutines : go'[h].op = go[h].op \/ go'[h].op # "options" PROVE OptionsOfLoop'
  BY <1>1 DEF OptionsOfLoop
<1>2. CASE UNCHANGED vars \/ Configure \/ TypingsInstalled
  BY <1>1, <1>2 DEF vars, Configure, TypingsInstalled
<1>3. ASSUME NEW g \in {Loop} \cup Others, NEW op \in OpNames, Call(g, op), op = "options" => g = Loop
      PROVE  OptionsOfLoop'
  <2>1. g \in Goroutines /\ \A h \in Goroutines : h # g => go'[h] = go[h]
    BY <1>3, CallMoves DEF Goroutines
  <2>2. go'[g].op = op
    BY <1>3, <2>1 DEF Call, Begin, Idle, Typed
  <2> QED BY <1>3, <2>1, <2>2 DEF OptionsOfLoop
<1>4. ASSUME NEW g \in Goroutines, NEW N, Moved(g, N) PROVE OptionsOfLoop'
  BY <1>1, <1>4, IdleFresh DEF Moved
<1>5. ASSUME NEW g \in Goroutines, go'[g] = Advance(go[g]), NEW name, At(g, name)
      PROVE  go'[g].op \in {"none", go[g].op}
  BY <1>5, Placed, Advanced, IdleFresh
<1>6. ASSUME NEW g \in Goroutines, ArmIdle(g) PROVE OptionsOfLoop'
  BY <1>1, <1>5, <1>6, ArmMoves, IdleFresh
<1>7. ASSUME NEW g \in Goroutines, Schedule(g) PROVE OptionsOfLoop'
  <2>1. At(g, "schedule")
    BY <1>7 DEF Schedule
  <2> QED BY <1>1, <1>5, <1>7, <2>1, ScheduleMoves
<1>8. ASSUME NEW g \in Goroutines, StopIdle(g) PROVE OptionsOfLoop'
  BY <1>1, <1>5, <1>8, StopMoves, IdleFresh
<1> QED
  BY <1>2, <1>3, <1>4, <1>6, <1>7, <1>8, NextCases, SteppingMoves, GiveUpMoves, FlushMoves, ReadMoves,
     UpdateMoves, RejectMoves, RecoverMoves

LEMMA SeenKept ==
  Typed /\ Holding /\ Recovering /\ SeenInv /\ OptionsAlone /\ [Next]_vars => SeenInv'
<1> SUFFICES ASSUME Typed, Holding, Recovering, SeenInv, OptionsAlone, [Next]_vars
             PROVE  Consistent' /\ SeesInv'
  BY OptionsKept DEF SeenInv
<1> USE DEF pendingVars, taskVars, idleVars
<1>0. \A h \in Goroutines : go'[h] = go[h] => Passes(h)
  BY DEF Passes
<1>1. CASE UNCHANGED vars \/ Configure \/ TypingsInstalled
  <2>1. UNCHANGED <<appended, processed, current, go>>
    BY <1>1 DEF vars, Configure, TypingsInstalled
  <2> QED BY <1>0, <2>1, SeenSame
<1>2. ASSUME NEW g \in {Loop} \cup Others, NEW op \in OpNames, Call(g, op)
      PROVE  Consistent' /\ SeesInv'
  <2> DEFINE due == IF op \in {"request", "api"} THEN appended ELSE 0
             r == [Idle EXCEPT !.op = op, !.step = 1, !.due = due]
  <2>1. UNCHANGED <<appended, processed, current>> /\ g \in Goroutines /\ go'[g] = r /\ appended \in Nat
    BY <1>2 DEF Call, Begin, Goroutines, Typed
  <2>2. /\ go' \in [Goroutines -> Record] /\ Resting(g)
        /\ \A h \in Goroutines : h # g => go'[h] = go[h]
    BY <1>2, <2>1, CallMoves DEF Resting
  <2>3. r.step = 1 /\ r.due = due /\ r.got = NoSnapshot
    BY DEF Idle
  <2>4. Passes(g)
    <3>1. go'[g].step <= 1 /\ go'[g].due <= appended /\ go'[g].got = NoSnapshot
      BY <2>1, <2>3
    <3> HIDE DEF r, due
    <3> QED BY <2>1, <2>2, <3>1, NewPasses
  <2> QED BY <1>0, <2>1, <2>2, <2>4, SeenSame
\* Goroutine g takes a step, others begin or end.
<1>3. ASSUME NEW g \in Goroutines, NEW name, At(g, name), go'[g] = Advance(go[g]),
             name \notin {"flush", "read", "update", "recover"},
             \A h \in Goroutines : h # g =>
               \/ go'[h] = go[h]
               \/ Resting(h) /\ (go'[h] = Idle \/ \E op \in OpNames : go'[h] = [Idle EXCEPT !.op = op, !.step = 1]),
             processed' = processed, appended' \in {appended, appended + 1}, current' \in {current, NoSnapshot}
      PROVE  Consistent' /\ SeesInv'
  <2>1. Passes(g)
    BY <1>3, StepPasses
  <2>2. ASSUME NEW h \in Goroutines, h # g, go'[h] # go[h] PROVE Passes(h)
    <3>1. go'[h] \in Record /\ go'[h].step <= 1 /\ go'[h].due = 0 /\ go'[h].got = NoSnapshot
      <4>1. CASE go'[h] = Idle
        BY <4>1, Records, IdleSees DEF Idle
      <4>2. CASE \E op \in OpNames : go'[h] = [Idle EXCEPT !.op = op, !.step = 1]
        <5>1. PICK op \in OpNames : go'[h] = [Idle EXCEPT !.op = op, !.step = 1]
          BY <4>2
        <5>2. go'[h] \in Record
          BY <5>1, BeganAlone
        <5> QED BY <5>1, <5>2 DEF Idle
      <4> QED BY <1>3, <2>2, <4>1, <4>2
    <3>2. Resting(h)
      BY <1>3, <2>2
    <3>3. 0 <= appended
      BY DEF Typed
    <3> QED BY <3>1, <3>2, <3>3, NewPasses
  <2> QED BY <1>0, <1>3, <2>1, <2>2, SeenSame
<1>4. ASSUME NEW g \in Goroutines, Stepping(g) PROVE Consistent' /\ SeesInv'
  <2>1. /\ processed' = processed /\ current' \in {current, NoSnapshot}
        /\ appended' \in {appended, appended + 1}
    BY <1>4 DEF Stepping, AppendChange, CancelScheduled, Lock, Unlock, WaitIdle, StopQueue,
                WaitQueue, Final, RunTimer, Fire, ForgetTimer, TaskCheck
  <2>2. StepName(g) \notin {"flush", "read", "update", "recover"}
    BY DEF StepName
  <2> QED BY <1>3, <1>4, <2>1, <2>2, SteppingMoves DEF Moved
<1>5. ASSUME NEW g \in Goroutines, GiveUp(g) PROVE Consistent' /\ SeesInv'
  <2>1. UNCHANGED <<appended, processed, current>>
    BY <1>5 DEF GiveUp, TaskCanceled, TaskCheck
  <2>2. At(g, "check") /\ go'[g] = Idle /\ \A h \in Goroutines : h # g => go'[h] = go[h]
    BY <1>5, GiveUpMoves DEF Moved
  <2>3. Passes(g)
    <3>1. ~Carrier(go[g]) /\ 0 <= appended
      BY <2>2 DEF Carrier, Does, At, Typed
    <3> QED BY <2>2, <3>1, IdleSees DEF Passes, Keeps
  <2> QED BY <1>0, <2>1, <2>2, <2>3, SeenSame
<1>6. ASSUME NEW g \in Goroutines, ArmIdle(g) PROVE Consistent' /\ SeesInv'
  <2>1. UNCHANGED <<appended, processed, current>>
    BY <1>6 DEF ArmIdle
  <2>2. At(g, "arm") /\ go'[g] = Advance(go[g])
    BY <1>6, ArmMoves
  <2>3. ASSUME NEW h \in Goroutines, h # g
        PROVE  \/ go'[h] = go[h]
               \/ Resting(h) /\ (go'[h] = Idle \/ go'[h] = [Idle EXCEPT !.op = "idle", !.step = 1])
    <3>1. CASE idleClosed
      BY <1>6, <2>3, <3>1 DEF ArmIdle, Step, Typed
    <3>2. CASE ~idleClosed
      BY <1>6, <2>3, <3>2 DEF ArmIdle, Resting, StoppedTimer
    <3> QED BY <3>1, <3>2
  <2> QED BY <1>3, <2>1, <2>2, <2>3 DEF OpNames
<1>7. ASSUME NEW g \in Goroutines, StopIdle(g) PROVE Consistent' /\ SeesInv'
  <2>1. UNCHANGED <<appended, processed, current>>
    BY <1>7 DEF StopIdle
  <2>2. At(g, "stopIdle") /\ go'[g] = Advance(go[g])
        /\ \A h \in Goroutines : h # g => go'[h] = go[h] \/ (Resting(h) /\ go'[h] = Idle)
    BY <1>7, StopMoves DEF Resting
  <2> QED BY <1>3, <2>1, <2>2
<1>8. ASSUME NEW g \in Goroutines, Schedule(g) PROVE Consistent' /\ SeesInv'
  <2>1. UNCHANGED <<appended, processed, current>> /\ At(g, "schedule")
    BY <1>8 DEF Schedule
  <2>2. PICK t \in Tasks :
          /\ go[t].op = "none"
          /\ go' = [go EXCEPT ![g] = Advance(@),
                              ![t] = IF queueClosed THEN Idle ELSE [Idle EXCEPT !.op = "task", !.step = 1]]
    BY <1>8 DEF Schedule
  <2>3. t # g /\ t \in Goroutines
    BY <2>1, <2>2, Placed, TimersAreNoTasks
  <2>4. /\ go'[g] = Advance(go[g]) /\ Resting(t)
        /\ go'[t] = Idle \/ go'[t] = [Idle EXCEPT !.op = "task", !.step = 1]
        /\ \A h \in Goroutines : h # g /\ h # t => go'[h] = go[h]
    BY <2>2, <2>3 DEF Typed, Resting
  <2> QED BY <1>3, <2>1, <2>4 DEF OpNames
<1> QED
  BY <1>1, <1>2, <1>4, <1>5, <1>6, <1>7, <1>8, SeenFlushed, SeenRead, SeenUpdated, SeenRejected,
     SeenRecovered, NextCases

LEMMA SeenAlways == Spec /\ []OptionsAlone => []SeenInv
<1>1. Init => SeenInv
  <2> SUFFICES ASSUME Init PROVE SeenInv
    OBVIOUS
  <2>1. \A g \in Goroutines : go[g] = Idle /\ ~Carrier(go[g])
    BY IdleSees DEF Init
  <2>2. appended = 0 /\ processed = 0 /\ current.files = {} /\ current.overlays = 0
    BY DEF Init, FirstSnapshot
  <2>3. Consistent
    BY <2>1, <2>2 DEF Consistent
  <2>4. SeesInv /\ OptionsOfLoop
    BY <2>1, <2>2, IdleSees DEF SeesInv, Sees, OptionsOfLoop
  <2> QED BY <2>3, <2>4 DEF SeenInv
<1>2. Inv /\ SeenInv /\ OptionsAlone /\ [Next]_vars => SeenInv'
  BY SeenKept DEF Inv
<1> QED
  BY <1>1, <1>2, InvAlways, PTL DEF Spec

\* What a request or an API client gets contains every file change that had arrived when it
\* asked, whoever flushed it, and whatever failed in between (getSnapshot, APIUpdate); the
\* dispatch loop must not change the options while somebody updates.
THEOREM RequestsAreServed == Spec /\ []OptionsAlone => []RequestSeesChanges
<1>1. ASSUME Inv, SeenInv, NEW g \in Goroutines, go[g].op \in {"request", "api"}, go[g].got # NoSnapshot
      PROVE  1 .. go[g].due \subseteq go[g].got.files /\ go[g].got.overlays >= go[g].due
  <2>1. go[g].due \in Nat /\ go[g].got.overlays \in Nat
    BY <1>1 DEF Inv, Typed, Record, Told
  <2>2. go[g].got.files = 1 .. go[g].got.overlays /\ go[g].due <= go[g].got.overlays
    BY <1>1 DEF SeenInv, SeesInv, Sees
  <2> QED BY <2>1, <2>2
<1>2. Inv /\ SeenInv => RequestSeesChanges
  BY <1>1 DEF RequestSeesChanges
<1> QED
  BY <1>2, InvAlways, SeenAlways, PTL

\* The overlays of the session's snapshot are those after the very changes its projects were
\* told of (flushChanges and updateSnapshot under one snapshotUpdateMu), likewise.
THEOREM AlwaysConsistent == Spec /\ []OptionsAlone => []SnapshotConsistent
<1>1. SeenInv => SnapshotConsistent
  BY DEF SeenInv, Consistent, SnapshotConsistent
<1> QED
  BY <1>1, SeenAlways, PTL
=============================================================================
